------------------------- MODULE AgentCredentials -------------------------
(***************************************************************************)
(* The agent's device token: the places it is kept in, the loop of         *)
(* DeviceRegistrationService that finds or requests it, the dispatcher     *)
(* that clears it after consecutive rejections, and the wizard             *)
(* (NOS.Agent --register), another process of another account.  None of    *)
(* them holds a lock, and a failed write is swallowed.                     *)
(*                                                                         *)
(* A place is Absent, or has the device's id without a token, or a token   *)
(* (the agent's own copies of the id agree with it).  Two things are left  *)
(* out: device.json and token.txt beside the executable, which nothing     *)
(* creates, and removal of the device, which is in AgentOutbox.            *)
(***************************************************************************)
EXTENDS Integers

CONSTANTS
  MaxTokens,    \* bound on the tokens the control plane issues
  RejectLimit,  \* consecutive rejections that clear the token
  MaxActs       \* bound on failures, revocations, restarts and wizard runs

ASSUME CredentialsAssumption ==
  MaxTokens \in Nat /\ RejectLimit \in Nat \ {0} /\ MaxActs \in Nat

Tokens == 1..MaxTokens
Id     == 0              \* an id without a token; as a token: none
Absent == -1
Values == Tokens \cup {Id, Absent}

Places == {"base",    \* appsettings.json beside the executable; as shipped it has no id either
           "common",  \* appsettings.json in ProgramData
           "json",    \* device.json in ProgramData
           "own",     \* device.json in the profile of the service
           "txt",     \* token.txt in ProgramData
           "dat",     \* token.dat in ProgramData
           "prof"}    \* token.dat and the credential manager of the service's account

VARIABLES
  file,      \* what each place has
  config,    \* the configuration in memory
  watched,   \* whether "common" existed when the service started
  current, signal, \* CurrentToken and _reRegistrationSignal
  pc, got,   \* the registration loop and the token in its hands
  job, token, rejects, \* the dispatcher, the token of its batch, _consecutiveAuthErrors
  setup, minted,   \* the wizard and its token
  issued, valid,   \* control plane: tokens issued, and the one it accepts (Id: none)
  acts,      \* failures, revocations, restarts and wizard runs so far
  clean      \* history: the loop's last registration was written without a
             \* failure, and no wizard has run since

loop       == <<pc, got>>
dispatcher == <<job, token, rejects>>
wizard     == <<setup, minted>>
memory     == <<config, watched>>
server     == <<issued, valid>>
vars == <<file, memory, current, signal, loop, dispatcher, wizard, server, acts, clean>>

Spend == acts < MaxActs /\ acts' = acts + 1

Writing == {"prof", "dat", "txt", "note", "own", "json", "base", "common"}

-----------------------------------------------------------------------------
\* GetDeviceTokenAsync: the first place that has a token; Id if none has.
Order == <<"json", "own", "txt", "dat", "prof">>
Holding == {i \in 1..5 : file[Order[i]] \in Tokens}
FirstHolding == CHOOSE i \in Holding : \A j \in Holding : i <= j

Found == IF config \in Tokens THEN config
         ELSE IF Holding = {} THEN Id ELSE file[Order[FirstHolding]]

\* The configuration or one of the two device.json has the device's id.
HasId == config # Absent \/ file["json"] # Absent \/ file["own"] # Absent

\* What the configuration's providers make of the two appsettings.json:
\* the later one wins, key by key.
LoadedWith(w) ==
  LET over == IF w THEN file["common"] ELSE Absent IN
  IF over \notin Tokens /\ file["base"] \in Tokens THEN file["base"] ELSE over
Loaded == LoadedWith(watched)

\* A change of a file reaches the configuration some time later.
Reload == /\ config # Loaded
          /\ config' = Loaded
          /\ UNCHANGED <<file, watched, current, signal, loop, dispatcher, wizard, server, acts, clean>>

-----------------------------------------------------------------------------
(* The registration loop.                                                  *)

Read ==
  /\ pc = "read"
  /\ IF HasId /\ Found \in Tokens
       THEN pc' = "adopt" /\ got' = Found
       ELSE pc' = "register" /\ got' = Id
  /\ UNCHANGED <<file, memory, current, signal, dispatcher, wizard, server, acts, clean>>

Adopt ==
  /\ pc = "adopt"
  /\ current' = got
  /\ pc' = "wait"
  /\ UNCHANGED <<file, memory, signal, got, dispatcher, wizard, server, acts, clean>>

\* The control plane issues a token, which is the only one it accepts from
\* then on.
Issue == /\ issued < MaxTokens
         /\ issued' = issued + 1
         /\ valid' = issued + 1

\* The answer arrives, or it is lost and the loop asks again.
Register ==
  /\ pc = "register"
  /\ Issue
  /\ \/ pc' = "prof" /\ got' = issued + 1 /\ clean' = TRUE /\ UNCHANGED acts
     \/ Spend /\ UNCHANGED <<loop, clean>>
  /\ UNCHANGED <<file, memory, current, signal, dispatcher, wizard>>

\* WriteToken, SaveDeviceIdLocally and UpdateAppsettings, place by place;
\* "note" is WriteToken's entry in an existing device.json.
After(s) == CASE s = "prof" -> "dat"    [] s = "dat"  -> "txt"
              [] s = "txt"  -> "note"   [] s = "note" -> "publish"
              [] s = "own"  -> "json"   [] s = "json" -> "base"
              [] s = "base" -> "common" [] s = "common" -> "wait"
Target(s)   == IF s = "note" THEN "json" ELSE s
IfExists(s) == s \in {"note", "base", "common"}
SavedIdOnly(s) == IF s \in {"own", "json"} THEN Id ELSE got \* mutant: device.json as the wizard writes it
Saved(s)    == got

Write ==
  /\ pc \in Writing
  /\ pc' = After(pc)
  /\ \/ /\ file' = IF IfExists(pc) /\ file[Target(pc)] = Absent THEN file
                   ELSE [file EXCEPT ![Target(pc)] = Saved(pc)]
        /\ UNCHANGED <<acts, clean>>
     \/ Spend /\ clean' = FALSE /\ UNCHANGED file
  /\ UNCHANGED <<memory, current, signal, got, dispatcher, wizard, server>>

Publish ==
  /\ pc = "publish"
  /\ current' = got
  /\ pc' = "own"
  /\ UNCHANGED <<file, memory, signal, got, dispatcher, wizard, server, acts, clean>>

Wake ==
  /\ pc = "wait" /\ signal = 1
  /\ signal' = 0
  /\ pc' = "read"
  /\ UNCHANGED <<file, memory, current, got, dispatcher, wizard, server, acts, clean>>

Loop == Read \/ Adopt \/ Register \/ Write \/ Publish \/ Wake

-----------------------------------------------------------------------------
(* The dispatcher.                                                         *)

\* A batch is sent with the token that is found, or else with the one in memory.
Fetch ==
  /\ job = "idle"
  /\ token' = IF Found \in Tokens THEN Found ELSE current
  /\ token' \in Tokens
  /\ job' = "batch"
  /\ UNCHANGED <<file, memory, current, signal, loop, rejects, wizard, server, acts, clean>>

\* Counted up to the limit: the code asks for "at least".
Rejected == IF rejects < RejectLimit THEN rejects + 1 ELSE rejects

Post ==
  /\ job = "batch"
  /\ \/ token = valid /\ rejects' = 0 /\ UNCHANGED job
     \/ /\ token # valid
        /\ rejects' = Rejected
        /\ job' = IF rejects' < RejectLimit THEN job ELSE "prof"
  /\ UNCHANGED <<file, memory, current, signal, loop, token, wizard, server, acts, clean>>

EndBatch ==
  /\ job = "batch"
  /\ job' = "idle"
  /\ UNCHANGED <<file, memory, current, signal, loop, token, rejects, wizard, server, acts, clean>>

\* ClearToken, place by place; a deletion may fail.
Clear ==
  /\ \/ job = "prof" /\ job' = "dat"
     \/ job = "dat"  /\ job' = "txt"
     \/ job = "txt"  /\ job' = "null"
  /\ \/ file' = [file EXCEPT ![job] = Absent] /\ UNCHANGED acts
     \/ Spend /\ UNCHANGED file
  /\ UNCHANGED <<memory, current, signal, loop, token, rejects, wizard, server, clean>>

\* RequestReRegistration: two steps, after which the batch goes on.
\* The semaphore's maximum is one: a second release is swallowed.
ReleasedNever == signal     \* mutant: nobody is woken
Released == 1

Forget ==
  /\ job = "null" /\ job' = "release"
  /\ current' = Id
  /\ UNCHANGED <<file, memory, signal, loop, token, rejects, wizard, server, acts, clean>>

Release ==
  /\ job = "release" /\ job' = "batch"
  /\ signal' = Released
  /\ UNCHANGED <<file, memory, current, loop, token, rejects, wizard, server, acts, clean>>

\* mutant: the signal is released before the token is forgotten.
ReleaseFirst ==
  /\ \/ job = "null" /\ job' = "release" /\ signal' = 1 /\ UNCHANGED current
     \/ job = "release" /\ job' = "batch" /\ current' = Id /\ UNCHANGED signal
  /\ UNCHANGED <<file, memory, loop, token, rejects, wizard, server, acts, clean>>
Request  == Forget \/ Release
Dispatch == Fetch \/ Post \/ EndBatch \/ Clear \/ Request

-----------------------------------------------------------------------------
(* The wizard, the control plane and restarts.                             *)

WizardRegisters ==
  /\ setup = "idle"
  /\ Spend /\ Issue
  /\ minted' = issued + 1
  /\ setup' = "config"
  /\ clean' = FALSE
  /\ UNCHANGED <<file, memory, current, signal, loop, dispatcher>>

\* It writes what the service can see: the two files with the id alone, then
\* WriteToken; what it writes into its own profile the service never reads.
WizardAfter(s) == CASE s = "config" -> "device" [] s = "device" -> "dat" [] s = "dat" -> "txt"
                    [] s = "txt" -> "note"      [] s = "note" -> "service"
WizardFile(s) ==
  CASE s = "config" -> [file EXCEPT !["common"] = Id]
    [] s = "device" -> [file EXCEPT !["json"] = Id]
    [] s = "note"   -> IF file["json"] = Absent THEN file ELSE [file EXCEPT !["json"] = minted]
    [] OTHER        -> [file EXCEPT ![s] = minted]

WizardWrites ==
  /\ setup \in {"config", "device", "dat", "txt", "note"}
  /\ setup' = WizardAfter(setup)
  /\ \/ file' = WizardFile(setup) /\ UNCHANGED acts
     \/ Spend /\ UNCHANGED file
  /\ clean' = FALSE
  /\ UNCHANGED <<memory, current, signal, loop, dispatcher, minted, server>>

\* Its own copies of the first two files are not guarded: an error ends it.
WizardFails ==
  /\ setup \in {"config", "device"}
  /\ Spend
  /\ setup' = "idle"
  /\ clean' = FALSE
  /\ UNCHANGED <<file, memory, current, signal, loop, dispatcher, minted, server>>

\* The process starts anew, with what the files have then.
Started ==
  /\ watched' = (file["common"] # Absent)
  /\ config' = LoadedWith(watched')
  /\ current' = Id /\ signal' = 0
  /\ pc' = "read" /\ got' = Id
  /\ job' = "idle" /\ token' = Id /\ rejects' = 0
  /\ clean' = (clean /\ pc \notin Writing \cup {"publish"})
  /\ UNCHANGED <<file, server>>

Restart == Spend /\ Started /\ UNCHANGED wizard

\* The wizard restarts the service, or has no right to.
WizardEnds ==
  /\ setup = "service"
  /\ setup' = "idle"
  /\ \/ Started
     \/ UNCHANGED <<file, memory, current, signal, loop, dispatcher, server, clean>>
  /\ UNCHANGED <<minted, acts>>

\* An administrator deletes the device or its token is replaced.
Revoke ==
  /\ Spend
  /\ valid' = Id
  /\ UNCHANGED <<file, memory, current, signal, loop, dispatcher, wizard, issued, clean>>

-----------------------------------------------------------------------------
\* A service that was installed without the wizard, or after it.
Fresh == /\ file \in {[p \in Places |-> IF p = "base" THEN b ELSE Absent] : b \in {Absent, Id}}
         /\ issued = 0
SetUp == /\ 1 <= MaxTokens
         /\ file \in {[p \in Places |-> CASE p = "base" -> b
                                          [] p = "common" -> Id
                                          [] p \in {"own", "prof"} -> Absent
                                          [] OTHER -> 1] : b \in {Absent, Id}}
         /\ issued = 1

Init ==
  /\ Fresh \/ SetUp
  /\ watched = (file["common"] # Absent)
  /\ config = Loaded
  /\ current = Id /\ signal = 0
  /\ pc = "read" /\ got = Id
  /\ job = "idle" /\ token = Id /\ rejects = 0
  /\ setup = "idle" /\ minted = Id
  /\ valid = issued
  /\ acts = 0
  /\ clean = FALSE

Wizard == WizardRegisters \/ WizardWrites \/ WizardFails \/ WizardEnds

Next == Reload \/ Loop \/ Dispatch \/ Wizard \/ Restart \/ Revoke

Spec == Init /\ [][Next]_vars

\* The loop's thread runs on, and so does the dispatcher's between a clearing
\* and the request that follows it; a control plane that has tokens left
\* answers in the end.  Nobody has to start a batch or a wizard.
FairSpec == Spec /\ WF_vars(Loop) /\ WF_vars(Clear \/ Request)

-----------------------------------------------------------------------------
\* Every variable has its type, the signal is a semaphore of one, and the token in
\* force is one that was issued.
TypeOK ==
  /\ file \in [Places -> Values]
  /\ config \in Values /\ watched \in BOOLEAN
  /\ current \in Tokens \cup {Id} /\ signal \in 0..1
  /\ pc \in Writing \cup {"read", "adopt", "register", "publish", "wait"}
  /\ got \in Tokens \cup {Id}
  /\ job \in {"idle", "batch", "prof", "dat", "txt", "null", "release"}
  /\ token \in Tokens \cup {Id} /\ rejects \in 0..RejectLimit
  /\ setup \in {"idle", "config", "device", "dat", "txt", "note", "service"}
  /\ minted \in Tokens \cup {Id}
  /\ issued \in 0..MaxTokens /\ valid \in 0..issued
  /\ acts \in 0..MaxActs
  /\ clean \in BOOLEAN

\* A token that was taken from the loop while it waits is asked for again: no
\* order of the dispatcher's two steps and the loop's steps loses the request
\* (RequestReRegistration nulls CurrentToken before it releases the signal).
NoLostWakeup == (current = Id /\ pc = "wait") => (signal = 1 \/ job = "release")

\* A new token stays findable: once the loop has written it, the newest token
\* the control plane has issued is the one that GetDeviceTokenAsync finds,
\* whatever a clearing of the token before it still deletes, and across
\* restarts (the configuration may lag behind its files for a moment).
NewTokenIsFound == (clean /\ pc = "wait" /\ config = Loaded) => Found = issued

\* The agent does not stay without a token: after every clearing and every
\* restart the loop publishes one, as long as the model has tokens to issue.
OutOfTokens    == pc = "register" /\ issued = MaxTokens
TokenComesBack == (current = Id) ~> (current # Id \/ OutOfTokens)

\* "Clearing credentials and requesting re-registration": when the loop is
\* asked to register anew, it does not find the rejected token again.
ClearedIsGone == job = "release" => Found # token
=============================================================================
