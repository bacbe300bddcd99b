----------------------- MODULE AgentCredentialsProofs -----------------------
(***************************************************************************)
(* Proofs about AgentCredentials, for any number of tokens, rejections and *)
(* failures.                                                               *)
(***************************************************************************)
EXTENDS AgentCredentials, TLAPS

Held == {"adopt", "publish"} \cup Writing

\* The loop has a token in its hands while it writes or adopts one.
HandInv == pc \in Held => got \in Tokens

\* NoLostWakeup from the moment the loop has published its token.
WakeInv == (current = Id /\ pc \in {"own", "json", "base", "common", "wait"})
             => (signal = 1 \/ job = "release")

\* What a clean registration has written so far, and still stands: device.json,
\* and no other token in the two configuration files.
WrittenInv ==
  clean => /\ pc # "register" /\ issued \in Tokens
           /\ pc \in Writing \cup {"publish"} => got = issued
           /\ pc \in {"base", "common", "wait", "read", "adopt"} => file["json"] = issued
           /\ pc \in {"common", "wait", "read", "adopt"} => file["base"] \in {Id, Absent, issued}
           /\ pc \in {"wait", "read", "adopt"} => file["common"] \in {Id, Absent, issued}

IInv == TypeOK /\ HandInv /\ WakeInv /\ WrittenInv

-----------------------------------------------------------------------------
(* The operators.                                                          *)

LEMMA PlacesOrdered ==
  \A i \in 1..5 : Order[i] \in Places
BY DEF Order, Places

LEMMA FirstExists ==
  ASSUME Holding # {} PROVE FirstHolding \in Holding /\ \A j \in Holding : FirstHolding <= j
<1>1. \E i \in Holding : \A j \in Holding : i <= j
  <2>1. Holding \subseteq 1..5 BY DEF Holding
  <2>2. CASE 1 \in Holding BY <2>1, <2>2
  <2>3. CASE 1 \notin Holding /\ 2 \in Holding BY <2>1, <2>3
  <2>4. CASE 1 \notin Holding /\ 2 \notin Holding /\ 3 \in Holding BY <2>1, <2>4
  <2>5. CASE 1 \notin Holding /\ 2 \notin Holding /\ 3 \notin Holding /\ 4 \in Holding BY <2>1, <2>5
  <2>6. CASE 1 \notin Holding /\ 2 \notin Holding /\ 3 \notin Holding /\ 4 \notin Holding
    <3>1. PICK k \in Holding : TRUE OBVIOUS
    <3>2. \A j \in Holding : j = 5 BY <2>1, <2>6
    <3>3. QED BY <3>1, <3>2
  <2>7. QED BY <2>2, <2>3, <2>4, <2>5, <2>6
<1>2. QED BY <1>1 DEF FirstHolding

LEMMA FoundIsToken ==
  ASSUME TypeOK PROVE Found \in Tokens \cup {Id}
<1>1. CASE config \in Tokens \/ Holding = {} BY <1>1 DEF Found
<1>2. CASE config \notin Tokens /\ Holding # {}
  <2>1. FirstHolding \in Holding BY <1>2, FirstExists
  <2>2. file[Order[FirstHolding]] \in Tokens BY <2>1 DEF Holding
  <2>3. QED BY <1>2, <2>2 DEF Found
<1>3. QED BY <1>1, <1>2

\* device.json comes first of all files.
LEMMA JsonFirst ==
  ASSUME TypeOK, file["json"] \in Tokens, config \notin Tokens PROVE Found = file["json"]
<1>1. Order[1] = "json" BY DEF Order
<1>2. 1 \in Holding BY <1>1 DEF Holding
<1>3. Holding # {} BY <1>2
<1>4. FirstHolding \in 1..5 /\ FirstHolding <= 1 BY <1>2, <1>3, FirstExists DEF Holding
<1>5. FirstHolding = 1 BY <1>4
<1>6. QED BY <1>1, <1>3, <1>5 DEF Found

LEMMA LoadedIsValue ==
  ASSUME TypeOK, NEW w \in BOOLEAN PROVE LoadedWith(w) \in Values
BY DEF LoadedWith, TypeOK, Values, Places

-----------------------------------------------------------------------------
(* Types.                                                                  *)

LEMMA TypeInit == Init => TypeOK
<1> SUFFICES ASSUME Init PROVE TypeOK OBVIOUS
<1>1. file \in [Places -> Values] /\ issued \in 0..MaxTokens
  <2>1. CASE Fresh BY <2>1, CredentialsAssumption DEF Fresh, Values
  <2>2. CASE SetUp
    <3>1. 1 \in Tokens BY <2>2, CredentialsAssumption DEF SetUp, Tokens
    <3>2. QED BY <2>2, <3>1, CredentialsAssumption DEF SetUp, Values, Tokens
  <2>3. QED BY <2>1, <2>2 DEF Init
<1>2. LoadedWith(watched) \in Values BY <1>1 DEF LoadedWith, Values, Places
<1>3. QED
  <2>1. file \in [Places -> Values] /\ config \in Values /\ watched \in BOOLEAN
    BY <1>1, <1>2 DEF Init, Loaded
  <2>2. 0 \in 0..RejectLimit /\ 0 \in 0..MaxActs /\ issued \in 0..issued
    BY <1>1, CredentialsAssumption
  <2>3. current = Id /\ signal = 0 /\ pc = "read" /\ got = Id /\ job = "idle" /\ token = Id /\ rejects = 0
          /\ setup = "idle" /\ minted = Id /\ valid = issued /\ acts = 0 /\ clean = FALSE
    BY DEF Init
  <2>4. valid \in 0..issued /\ rejects \in 0..RejectLimit /\ acts \in 0..MaxActs BY <2>2, <2>3
  <2>5. signal \in 0..1 BY <2>3
  <2>6. QED BY <1>1, <2>1, <2>3, <2>4, <2>5 DEF TypeOK

LEMMA TypeStep == TypeOK /\ HandInv /\ [Next]_vars => TypeOK'
<1> SUFFICES ASSUME TypeOK, HandInv, [Next]_vars PROVE TypeOK' OBVIOUS
<1> USE DEF TypeOK, loop, dispatcher, wizard, memory, server, Spend
<1>t. /\ issued < MaxTokens => issued + 1 \in Tokens
      /\ Tokens \subseteq Values /\ Tokens \subseteq Nat \ {0}
      /\ Id \in Values /\ Absent \in Values
  BY CredentialsAssumption DEF Tokens, Values, Id
<1>a. MaxActs \in Nat /\ MaxTokens \in Nat /\ RejectLimit \in Nat \ {0} BY CredentialsAssumption
<1>s. ASSUME acts' = acts + 1, acts < MaxActs PROVE acts' \in 0..MaxActs BY <1>a, <1>s
<1>1. CASE Reload BY <1>1, LoadedIsValue DEF Reload, Loaded
<1>2. CASE Read BY <1>2, FoundIsToken DEF Read
<1>3. CASE Adopt BY <1>3 DEF Adopt
<1>i. ASSUME Issue PROVE issued' \in 0..MaxTokens /\ valid' \in 0..issued' /\ issued' \in Tokens
  BY <1>a, <1>i DEF Issue, Tokens
<1>4. CASE Register
  <2>1. Issue BY <1>4 DEF Register
  <2>2. CASE pc' = "prof" /\ got' = issued + 1 /\ clean' = TRUE /\ UNCHANGED acts
    BY <1>4, <1>i, <2>1, <2>2 DEF Register, Issue, Writing
  <2>3. CASE Spend /\ UNCHANGED <<loop, clean>>
    BY <1>4, <1>i, <1>s, <2>1, <2>3 DEF Register
  <2>4. QED BY <1>4, <2>2, <2>3 DEF Register
<1>5. CASE Write
  <2>1. file' \in [Places -> Values]
    BY <1>5, <1>t DEF Write, Saved, Target, HandInv, Held, Values, Places, Writing
  <2>2. pc' \in Writing \cup {"read", "adopt", "register", "publish", "wait"}
    BY <1>5 DEF Write, After, Writing
  <2>3. acts' \in 0..MaxActs /\ clean' \in BOOLEAN BY <1>5, <1>s DEF Write
  <2>4. QED BY <1>5, <2>1, <2>2, <2>3 DEF Write
<1>6. CASE Publish BY <1>6 DEF Publish, Writing
<1>7. CASE Wake BY <1>7 DEF Wake
<1>8. CASE Fetch BY <1>8, FoundIsToken DEF Fetch
<1>9. CASE Post BY <1>9, <1>a DEF Post, Rejected
<1>10. CASE EndBatch BY <1>10 DEF EndBatch
<1>11. CASE Clear
  <2>1. job \in Places BY <1>11 DEF Clear, Places
  <2>2. file' \in [Places -> Values] BY <1>11, <2>1 DEF Clear, Values
  <2>3. QED BY <1>11, <1>a, <2>2 DEF Clear
<1>12. CASE Forget BY <1>12 DEF Forget
<1>13. CASE Release BY <1>13 DEF Release, Released
<1>14. CASE WizardRegisters
  <2>1. Issue /\ acts' \in 0..MaxActs /\ minted' = issued' BY <1>14, <1>s DEF WizardRegisters, Issue
  <2>2. QED BY <1>14, <1>i, <2>1 DEF WizardRegisters
<1>15. CASE WizardWrites
  <2>1. WizardFile(setup) \in [Places -> Values]
    BY <1>15 DEF WizardWrites, WizardFile, Values, Places
  <2>2. WizardAfter(setup) \in {"device", "dat", "txt", "note", "service"}
    BY <1>15 DEF WizardWrites, WizardAfter
  <2>3. acts' \in 0..MaxActs BY <1>15, <1>s DEF WizardWrites
  <2>4. file' \in [Places -> Values] BY <1>15, <2>1 DEF WizardWrites
  <2>5. setup' \in {"device", "dat", "txt", "note", "service"} /\ clean' = FALSE
          /\ UNCHANGED <<memory, current, signal, loop, dispatcher, minted, server>>
    BY <1>15, <2>2 DEF WizardWrites
  <2>6. UNCHANGED <<config, watched, current, signal, pc, got, job, token, rejects, minted, issued, valid>>
    BY <2>5
  <2>7. QED BY <2>3, <2>4, <2>5, <2>6
<1>16. CASE WizardFails
  <2>1. acts' \in 0..MaxActs BY <1>16, <1>s DEF WizardFails
  <2>2. QED BY <1>16, <2>1 DEF WizardFails
<1>17. ASSUME Started PROVE config' \in Values /\ watched' \in BOOLEAN
  <2>1. watched' \in BOOLEAN BY <1>17 DEF Started
  <2>2. QED BY <1>17, <2>1, LoadedIsValue DEF Started
<1>18. CASE WizardEnds
  <2>1. CASE Started BY <1>18, <2>1, <1>17, <1>a DEF WizardEnds, Started
  <2>2. CASE UNCHANGED <<file, memory, current, signal, loop, dispatcher, server, clean>>
    BY <1>18, <2>2 DEF WizardEnds
  <2>3. QED BY <1>18, <2>1, <2>2 DEF WizardEnds
<1>19. CASE Restart BY <1>19, <1>17, <1>a DEF Restart, Started
<1>20. CASE Revoke BY <1>20, <1>a DEF Revoke, Id
<1>21. CASE UNCHANGED vars BY <1>21 DEF vars
<1>22. QED BY <1>1, <1>2, <1>3, <1>4, <1>5, <1>6, <1>7, <1>8, <1>9, <1>10, <1>11, <1>12, <1>13,
             <1>14, <1>15, <1>16, <1>18, <1>19, <1>20, <1>21
          DEF Next, Loop, Dispatch, Request, Wizard

-----------------------------------------------------------------------------
(* The strengthening.                                                      *)

LEMMA InvInit == Init => HandInv /\ WakeInv /\ WrittenInv
BY DEF Init, HandInv, WakeInv, WrittenInv, Held, Writing

LEMMA HandStep == TypeOK /\ HandInv /\ [Next]_vars => HandInv'
<1> SUFFICES ASSUME TypeOK, HandInv, [Next]_vars PROVE HandInv' OBVIOUS
<1> USE DEF HandInv, Held, Writing
<1>1. CASE Read BY <1>1 DEF Read
<1>2. CASE Register
  <2>1. issued + 1 \in Tokens BY <1>2, CredentialsAssumption DEF Register, Issue, TypeOK, Tokens
  <2>2. QED BY <1>2, <2>1 DEF Register, loop
<1>3. CASE Adopt \/ Publish \/ Wake BY <1>3 DEF Adopt, Publish, Wake
<1>4. CASE Write BY <1>4 DEF Write, After
<1>5. CASE Started BY <1>5 DEF Started
<1>6. CASE UNCHANGED loop BY <1>6 DEF loop
<1>7. QED BY <1>1, <1>2, <1>3, <1>4, <1>5, <1>6
          DEF Next, Loop, Dispatch, Request, Wizard, Reload, Fetch, Post, EndBatch, Clear, Forget, Release,
              WizardRegisters, WizardWrites, WizardFails, WizardEnds, Restart, Revoke, vars

LEMMA WakeStep == TypeOK /\ HandInv /\ WakeInv /\ [Next]_vars => WakeInv'
<1> SUFFICES ASSUME TypeOK, HandInv, WakeInv, [Next]_vars PROVE WakeInv' OBVIOUS
<1> USE DEF WakeInv
<1>1. CASE Adopt \/ Publish
  <2>1. current' \in Tokens BY <1>1 DEF Adopt, Publish, HandInv, Held
  <2>2. QED BY <2>1, CredentialsAssumption DEF Tokens, Id
<1>2. CASE Read \/ Register \/ Wake BY <1>2 DEF Read, Register, Wake, loop
<1>3. CASE Write BY <1>3 DEF Write, After, Writing, dispatcher
<1>4. CASE Forget \/ Release BY <1>4 DEF Forget, Release, Released, loop
<1>5. CASE Fetch \/ Post \/ EndBatch \/ Clear
  BY <1>5 DEF Fetch, Post, EndBatch, Clear, loop
<1>6. CASE Started BY <1>6 DEF Started
<1>7. CASE UNCHANGED <<loop, current, signal, dispatcher>> BY <1>7 DEF loop, dispatcher
<1>8. QED BY <1>1, <1>2, <1>3, <1>4, <1>5, <1>6, <1>7
          DEF Next, Loop, Dispatch, Request, Wizard, Reload, WizardRegisters, WizardWrites, WizardFails,
              WizardEnds, Restart, Revoke, vars

\* While a registration is clean, the loop finds its token, and so never
\* registers again.
LEMMA CleanIsFound ==
  ASSUME TypeOK, WrittenInv, clean, pc = "read" PROVE HasId /\ Found \in Tokens
<1>1. file["json"] = issued /\ issued \in Tokens BY DEF WrittenInv
<1>2. CASE config \in Tokens BY <1>1, <1>2, CredentialsAssumption DEF Found, HasId, Tokens, Absent
<1>3. CASE config \notin Tokens BY <1>1, <1>3, JsonFirst, CredentialsAssumption DEF HasId, Tokens, Absent
<1>4. QED BY <1>2, <1>3

LEMMA WrittenStep == TypeOK /\ HandInv /\ WrittenInv /\ [Next]_vars => WrittenInv'
<1> SUFFICES ASSUME TypeOK, HandInv, WrittenInv, [Next]_vars, clean' PROVE WrittenInv' BY DEF WrittenInv
<1> USE DEF Writing
<1>1. CASE Read BY <1>1, CleanIsFound DEF Read, WrittenInv, server
<1>2. CASE Register
  <2>1. issued + 1 \in Tokens BY <1>2, CredentialsAssumption DEF Register, Issue, TypeOK, Tokens
  <2>2. QED BY <1>2, <2>1 DEF Register, Issue, WrittenInv, loop
<1>3. CASE Adopt \/ Publish \/ Wake BY <1>3 DEF Adopt, Publish, Wake, WrittenInv, server
<1>4. CASE Write
  <2>1. clean /\ got = issued /\ issued \in Tokens /\ UNCHANGED <<got, issued>>
        /\ file' = IF IfExists(pc) /\ file[Target(pc)] = Absent THEN file
                   ELSE [file EXCEPT ![Target(pc)] = got]
    BY <1>4 DEF Write, WrittenInv, Saved, server
  <2>2. file \in [Places -> Values] BY DEF TypeOK
  <2>3. pc' = After(pc) /\ pc \in Writing BY <1>4 DEF Write
  <2>4. CASE pc \in {"prof", "dat", "txt", "note", "own"}
    BY <2>1, <2>2, <2>3, <2>4 DEF WrittenInv, After, Target, IfExists, Places
  <2>5. CASE pc = "json" BY <2>1, <2>2, <2>3, <2>5 DEF WrittenInv, After, Target, IfExists, Places
  <2>6. CASE pc = "base" BY <2>1, <2>2, <2>3, <2>6 DEF WrittenInv, After, Target, IfExists, Places
  <2>7. CASE pc = "common" BY <2>1, <2>2, <2>3, <2>7 DEF WrittenInv, After, Target, IfExists, Places
  <2>8. QED BY <2>3, <2>4, <2>5, <2>6, <2>7
<1>5. CASE Clear BY <1>5 DEF Clear, WrittenInv, TypeOK, Places, loop, server
<1>6. CASE Started
  <2>1. clean /\ pc \in {"read", "adopt", "wait"} /\ pc' = "read" /\ UNCHANGED <<file, issued>>
    BY <1>6 DEF Started, WrittenInv, TypeOK, server
  <2>2. QED BY <2>1 DEF WrittenInv
<1>7. CASE UNCHANGED <<file, loop, server, clean>> BY <1>7 DEF WrittenInv, loop, server
<1>8. CASE WizardRegisters \/ WizardWrites \/ WizardFails
  BY <1>8 DEF WizardRegisters, WizardWrites, WizardFails
<1>9. CASE Revoke BY <1>9 DEF Revoke, WrittenInv, loop
<1>10. QED BY <1>1, <1>2, <1>3, <1>4, <1>5, <1>6, <1>7, <1>8, <1>9
           DEF Next, Loop, Dispatch, Request, Wizard, Reload, Fetch, Post, EndBatch, Forget, Release,
               WizardEnds, Restart, vars

LEMMA Inductive == Spec => []IInv
<1>1. Init => IInv BY TypeInit, InvInit DEF IInv
<1>2. IInv /\ [Next]_vars => IInv' BY TypeStep, HandStep, WakeStep, WrittenStep DEF IInv
<1>3. QED BY <1>1, <1>2, PTL DEF Spec

-----------------------------------------------------------------------------
\* Every reachable state is well typed; in particular the signal never
\* exceeds the semaphore's maximum.
THEOREM TypeCorrect == Spec => []TypeOK
<1>1. IInv => TypeOK BY DEF IInv
<1>2. QED BY <1>1, Inductive, PTL

\* RequestReRegistration is never lost, in whatever order the dispatcher's
\* steps and the loop's interleave.
THEOREM NoRequestIsLost == Spec => []NoLostWakeup
<1>1. IInv => NoLostWakeup BY DEF IInv, WakeInv, NoLostWakeup
<1>2. QED BY <1>1, Inductive, PTL

\* A clearing of an older token never hides the token that has been written
\* after it.
THEOREM NewTokenSurvives == Spec => []NewTokenIsFound
<1>1. IInv => NewTokenIsFound
  <2> SUFFICES ASSUME IInv, clean, pc = "wait", config = Loaded PROVE Found = issued
    BY DEF NewTokenIsFound
  <2>1. file["json"] = issued /\ issued \in Tokens /\ TypeOK
        /\ file["base"] \in {Id, Absent, issued} /\ file["common"] \in {Id, Absent, issued}
    BY DEF IInv, WrittenInv
  <2>2. config \in {Id, Absent, issued} BY <2>1 DEF Loaded, LoadedWith
  <2>3. CASE config = issued BY <2>1, <2>3 DEF Found
  <2>4. CASE config \notin Tokens BY <2>1, <2>4, JsonFirst
  <2>5. Id \notin Tokens /\ Absent \notin Tokens BY CredentialsAssumption DEF Tokens, Id, Absent
  <2>6. QED BY <2>2, <2>3, <2>4, <2>5
<1>2. QED BY <1>1, Inductive, PTL
=============================================================================
