------------------------- MODULE DeviceRegistration -------------------------
(***************************************************************************)
(* Enrolment of agents: DeviceService.register with the registration keys  *)
(* it charges (RegistrationKeyService and its repository), revocation and  *)
(* expiry of keys, and deletion of a device with the decommission store.   *)
(*                                                                         *)
(* Every await of the handlers is a step of its own: requests interleave   *)
(* between a read and the write that relies on it.  A request stands for   *)
(* the fresh device id and the fresh token it would generate.              *)
(***************************************************************************)
EXTENDS Integers, FiniteSets

CONSTANTS
  Requests,  \* POST /device/register calls
  Uuids,     \* hardware identities
  Keys,      \* registration keys
  NoKey,     \* a body without registrationKey
  MaxUses,   \* maxUses of each key, 0 for no limit
  Orgs,      \* organisations
  KeyOrg     \* the organisation of each key

ASSUME RegistrationAssumption ==
  /\ IsFiniteSet(Requests)
  /\ NoKey \notin Keys
  /\ MaxUses \in [Keys -> Nat]
  /\ KeyOrg \in [Keys -> Orgs]

Device == [uuid : Uuids, id : Requests, org : Orgs, token : Requests]

VARIABLES
  \* PostgreSQL
  status,          \* of each key: ACTIVE or REVOKED
  expired,         \* keys whose expiresAt has passed
  currentUses,     \* per key; devicesCreated moves with it
  failedAttempts,  \* per key
  devices,         \* rows of the device table
  \* process memory, mirrored to a file: it outlives a restart
  decommissioned,  \* device ids in the decommission store
  \* the requests: their body, and what each handler holds across its awaits
  uuid, key,
  pc,              \* new, validated, create, charge, increment, update,
                   \* compensate; done, failed
  seen,            \* the row findByUuid returned: a set of at most one row
  uses,            \* currentUses as incrementUsage read it
  \* deleteDevice calls between the store entry and the row's deletion
  removing,
  \* history
  removed,         \* ids whose deleteDevice has completed
  charged,         \* requests that were counted as a use of their key
  abandoned        \* requests cut off by a crash or by a failed clean-up

keyTable == <<status, expired, currentUses, failedAttempts>>
tables   == <<keyTable, devices>>
body     == <<uuid, key>>
locals   == <<seen, uses>>
admin    == <<removing, removed>>
history  == <<charged, abandoned>>
vars == <<tables, decommissioned, body, pc, locals, admin, history>>

Ids(rows) == {d.id : d \in rows}

(***************************************************************************)
(* Registration keys.                                                      *)
(***************************************************************************)
BelowLimit(k) == MaxUses[k] = 0 \/ currentUses[k] < MaxUses[k]

Usable(k) == status[k] = "ACTIVE" /\ k \notin expired /\ BelowLimit(k)

RecordFailedAttempt(k) ==
  failedAttempts' = [failedAttempts EXCEPT ![k] = @ + 1]

SwapWithoutVersion(r) == status[key[r]] = "ACTIVE"      \* mutant
\* The conditions of the updateMany: the row is still as incrementUsage read it.
SwapApplies(r) == status[key[r]] = "ACTIVE" /\ currentUses[key[r]] = uses[r]

\* Mutant: the value read is written back, whatever the row holds by now.
AddUseToRead(r) ==
  IF status[key[r]] = "ACTIVE"
  THEN /\ currentUses' = [currentUses EXCEPT ![key[r]] = uses[r] + 1]
       /\ charged' = charged \cup {r}
  ELSE UNCHANGED <<currentUses, charged>>
AddUse(r) ==
  IF SwapApplies(r)
  THEN /\ currentUses' = [currentUses EXCEPT ![key[r]] = @ + 1]
       /\ charged' = charged \cup {r}
  ELSE UNCHANGED <<currentUses, charged>>

GoTo(r, step) == pc' = [pc EXCEPT ![r] = step]

(***************************************************************************)
(* The steps of DeviceService.register.                                    *)
(***************************************************************************)

\* validateKey; a body without a key goes straight on.
ValidateKey(r) ==
  /\ pc[r] = "new"
  /\ IF key[r] = NoKey \/ (key[r] # NoKey /\ Usable(key[r]))
     THEN GoTo(r, "validated") /\ UNCHANGED failedAttempts
     ELSE GoTo(r, "failed") /\ RecordFailedAttempt(key[r])
  /\ UNCHANGED <<status, expired, currentUses, devices, decommissioned, body,
                 locals, admin, history>>

AnyOrg(r, row) == TRUE   \* mutant: the organisation is not compared
SameOrg(r, row) == row.org = KeyOrg[key[r]]

\* Mutant: an existing device is updated without charging the key.
NextStepsFree(r, found) ==
  IF found = {} THEN {IF key[r] # NoKey THEN "create" ELSE "failed"}
  ELSE IF key[r] # NoKey THEN {"update"} ELSE {"failed"}

\* What the checks behind findByUuid allow.  Without a key the body must carry
\* the token of the row: one that was handed out.
NextSteps(r, found) ==
  IF found = {} THEN {IF key[r] # NoKey THEN "create" ELSE "failed"}
  ELSE IF key[r] # NoKey
  THEN {IF \A d \in found : SameOrg(r, d) THEN "charge" ELSE "failed"}
  ELSE {"failed"} \cup {s \in {"update"} : \A d \in found : pc[d.token] = "done"}

\* findByUuid and the checks, which need no further await.  A valid key lifts
\* the decommission block of the row found, before any check.
FindExisting(r) ==
  LET found == {d \in devices : d.uuid = uuid[r]} IN
  /\ pc[r] = "validated"
  /\ seen' = [seen EXCEPT ![r] = found]
  /\ decommissioned' =
       IF key[r] # NoKey THEN decommissioned \ Ids(found) ELSE decommissioned
  /\ \E step \in NextSteps(r, found) : GoTo(r, step)
  /\ UNCHANGED <<tables, body, uses, admin, history>>

Known(r) == \E d \in devices : d.uuid = uuid[r]

\* The row of a new device; uuid is unique, so a second insert throws.
CreateDevice(r) ==
  /\ pc[r] = "create"
  /\ IF Known(r)
     THEN GoTo(r, "failed") /\ UNCHANGED devices
     ELSE /\ devices' = devices \cup
               {[uuid |-> uuid[r], id |-> r, org |-> KeyOrg[key[r]], token |-> r]}
          /\ GoTo(r, "charge")
  /\ UNCHANGED <<keyTable, decommissioned, body, locals, admin, history>>

RefuseOutright(r) == GoTo(r, "failed")   \* mutant: no clean-up after a refusal
\* A refused charge ends the request; the row of a new device is cleaned up.
Refuse(r) == GoTo(r, IF seen[r] = {} THEN "compensate" ELSE "failed")

\* incrementUsage, up to its read of the key and the checks on it.
ReadUsage(r) ==
  /\ pc[r] = "charge"
  /\ IF Usable(key[r])
     THEN /\ uses' = [uses EXCEPT ![r] = currentUses[key[r]]]
          /\ GoTo(r, "increment")
          /\ UNCHANGED failedAttempts
     ELSE /\ Refuse(r)
          /\ RecordFailedAttempt(key[r])
          /\ UNCHANGED uses
  /\ UNCHANGED <<status, expired, currentUses, devices, decommissioned, body,
                 seen, admin, history>>

\* incrementUsage, the conditional updateMany and the test of its count.
IncrementUsage(r) ==
  /\ pc[r] = "increment"
  /\ AddUse(r)
  /\ IF r \in charged'
     THEN /\ GoTo(r, IF seen[r] = {} THEN "done" ELSE "update")
          /\ UNCHANGED failedAttempts
     ELSE /\ Refuse(r)
          /\ RecordFailedAttempt(key[r])
  /\ UNCHANGED <<status, expired, devices, decommissioned, body, locals, admin, abandoned>>

\* The update of an existing device by its id: a new token, the same
\* organisation.  The row may be gone, then Prisma throws.
UpdateDevice(r) ==
  LET target == {d \in devices : d.id \in Ids(seen[r])} IN
  /\ pc[r] = "update"
  /\ devices' = (devices \ target) \cup {[d EXCEPT !.token = r] : d \in target}
  /\ GoTo(r, IF target = {} THEN "failed" ELSE "done")
  /\ UNCHANGED <<keyTable, decommissioned, body, locals, admin, history>>

\* Mutant: the clean-up deletes by uuid.
CompensateByUuid(r, ok) ==
  /\ pc[r] = "compensate"
  /\ IF ok
     THEN devices' = {d \in devices : d.uuid # uuid[r]} /\ UNCHANGED abandoned
     ELSE abandoned' = abandoned \cup {r} /\ UNCHANGED devices
  /\ GoTo(r, "failed")
  /\ UNCHANGED <<keyTable, decommissioned, body, locals, admin, charged>>
\* The clean-up of a new device whose key could not be charged.  An error of
\* the delete itself is swallowed.
Compensate(r, ok) ==
  /\ pc[r] = "compensate"
  /\ IF ok
     THEN devices' = {d \in devices : d.id # r} /\ UNCHANGED abandoned
     ELSE abandoned' = abandoned \cup {r} /\ UNCHANGED devices
  /\ GoTo(r, "failed")
  /\ UNCHANGED <<keyTable, decommissioned, body, locals, admin, charged>>

(***************************************************************************)
(* Administrators, the clock and the process.                              *)
(***************************************************************************)
RevokeKey(k) ==
  /\ status[k] = "ACTIVE"
  /\ status' = [status EXCEPT ![k] = "REVOKED"]
  /\ UNCHANGED <<expired, currentUses, failedAttempts, devices, decommissioned,
                 body, pc, locals, admin, history>>

KeyExpires(k) ==
  /\ k \notin expired
  /\ expired' = expired \cup {k}
  /\ UNCHANGED <<status, currentUses, failedAttempts, devices, decommissioned,
                 body, pc, locals, admin, history>>

\* deleteDevice: the store first, then, after the device's data, its row.
MarkRemoved(d) ==
  /\ d.id \notin removing
  /\ decommissioned' = decommissioned \cup {d.id}
  /\ removing' = removing \cup {d.id}
  /\ UNCHANGED <<tables, body, pc, locals, removed, history>>

DeleteRow(i) ==
  /\ i \in removing
  /\ devices' = {d \in devices : d.id # i}
  /\ removing' = removing \ {i}
  /\ removed' = IF i \in Ids(devices) THEN removed \cup {i} ELSE removed
  /\ UNCHANGED <<keyTable, decommissioned, body, pc, locals, history>>

Working(r) == pc[r] \notin {"new", "done", "failed"}

\* The process dies: requests under way are never answered.
Crash ==
  /\ removing # {} \/ \E r \in Requests : Working(r)
  /\ pc' = [r \in Requests |-> IF Working(r) THEN "failed" ELSE pc[r]]
  /\ abandoned' = abandoned \cup {r \in Requests : Working(r)}
  /\ removing' = {}
  /\ UNCHANGED <<tables, decommissioned, body, locals, removed, charged>>

-----------------------------------------------------------------------------
Init ==
  /\ status = [k \in Keys |-> "ACTIVE"]
  /\ expired = {}
  /\ currentUses = [k \in Keys |-> 0]
  /\ failedAttempts = [k \in Keys |-> 0]
  /\ devices = {}
  /\ decommissioned = {}
  /\ uuid \in [Requests -> Uuids]
  /\ key \in [Requests -> Keys \cup {NoKey}]
  /\ pc = [r \in Requests |-> "new"]
  /\ seen = [r \in Requests |-> {}]
  /\ uses = [r \in Requests |-> 0]
  /\ removing = {}
  /\ removed = {}
  /\ charged = {}
  /\ abandoned = {}

Register(r) ==
  \/ ValidateKey(r)
  \/ FindExisting(r)
  \/ CreateDevice(r)
  \/ ReadUsage(r)
  \/ IncrementUsage(r)
  \/ UpdateDevice(r)
  \/ \E ok \in BOOLEAN : Compensate(r, ok)

Next ==
  \/ \E r \in Requests : Register(r)
  \/ \E k \in Keys : RevokeKey(k) \/ KeyExpires(k)
  \/ \E d \in devices : MarkRemoved(d)
  \/ \E i \in removing : DeleteRow(i)
  \/ Crash

Spec == Init /\ [][Next]_vars

-----------------------------------------------------------------------------
Steps == {"new", "validated", "create", "charge", "increment", "update",
          "compensate", "done", "failed"}

TablesTypeOK ==
  /\ status \in [Keys -> {"ACTIVE", "REVOKED"}]
  /\ expired \subseteq Keys
  /\ currentUses \in [Keys -> Nat]
  /\ failedAttempts \in [Keys -> Nat]
  /\ devices \subseteq Device
  /\ decommissioned \subseteq Requests

RequestsTypeOK ==
  /\ uuid \in [Requests -> Uuids]
  /\ key \in [Requests -> Keys \cup {NoKey}]
  /\ pc \in [Requests -> Steps]
  /\ seen \in [Requests -> SUBSET Device]
  /\ uses \in [Requests -> Nat]
  /\ removing \subseteq Requests
  /\ removed \subseteq Requests
  /\ charged \subseteq Requests
  /\ abandoned \subseteq Requests

\* Types of the tables and of the handlers' locals, and what the database
\* itself enforces: one row per uuid and per id.
TypeOK ==
  /\ TablesTypeOK
  /\ RequestsTypeOK
  /\ \A d, e \in devices : d.uuid = e.uuid \/ d.id = e.id => d = e

\* However many agents enrol at the same time, a key is never used more often
\* than its maxUses allows.
UsesWithinLimit == \A k \in Keys : MaxUses[k] > 0 => currentUses[k] <= MaxUses[k]

\* No use is lost or counted twice: currentUses is the number of requests that
\* were granted a use, although each adds to a value it read earlier.
EveryUseCounted ==
  \A k \in Keys : currentUses[k] = Cardinality({r \in charged : key[r] = k})

\* A request that carried a key is answered with success only after it was
\* counted against that key, and no request is counted both as a use and, being
\* refused, as a failed attempt.
SuccessIsCharged ==
  \A k \in Keys :
    LET having(q) == {r \in Requests : key[r] = k /\ pc[r] \in q} IN
    /\ having({"done"}) \subseteq charged
    /\ currentUses[k] + failedAttempts[k] <= Cardinality(having(Steps \ {"new"}))

\* A device row exists only if its creator was counted against the key or is
\* still being handled: what a refused charge leaves behind is cleaned up,
\* unless the process died or the clean-up itself failed.
NoFreeDevices ==
  \A i \in Ids(devices) : i \in charged \cup abandoned \/ Working(i)

\* From its revocation on a key is never charged again, not even by a request
\* that had validated it before.
RevokedKeyIsFrozen ==
  [][\A k \in Keys : status[k] = "REVOKED" => currentUses'[k] = currentUses[k]]_vars

\* A device's token is replaced only by a request whose key belongs to the
\* device's organisation, or by one without a key.
ForeignKeyNeverRetokens ==
  [][\A d \in devices, e \in devices' :
       d.id = e.id /\ d.token # e.token =>
         /\ d.org = e.org
         /\ key[e.token] # NoKey => KeyOrg[key[e.token]] = d.org]_vars

Ledger == INSTANCE UsageLedger WITH
  Limit <- MaxUses,
  open <- {k \in Keys : status[k] = "ACTIVE"},
  taken <- currentUses

\* Reading the key, checking it and updating it under a version condition
\* amounts to one atomic "take if open and below the limit".
ImplementsLedger == Ledger!LedgerSpec

\* A request answered with success keeps its row until an administrator removes
\* it, with one exception: a request that renewed a row whose creator is refused
\* afterwards, for the creator's clean-up asks only for its own id.
AnsweredHasRow ==
  \A r \in Requests : pc[r] = "done" =>
    \E i \in {r} \cup Ids(seen[r]) :
      \/ i \in Ids(devices) \cup removed
      \/ i # r /\ pc[i] = "failed" /\ i \notin charged
=============================================================================
