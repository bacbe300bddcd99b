---------------------- MODULE DeviceRegistrationProofs ----------------------
(***************************************************************************)
(* Safety of enrolment for any number of requests, keys and hardware.      *)
(*                                                                         *)
(* That a key is never overdrawn rests on the version condition together   *)
(* with what a request knows since it read the key (ProgressInv): the      *)
(* value it read was below the limit, so the value the row still holds is. *)
(* That no row is free rests on rows being created only by requests that   *)
(* found none (RowsInv), which are the ones that clean up.                 *)
(***************************************************************************)
EXTENDS DeviceRegistration, FiniteSetTheorems, TLAPS

UsesInv == UsesWithinLimit /\ EveryUseCounted

\* What the place a request has reached says of its key.
ProgressInv ==
  \A r \in Requests :
    /\ pc[r] \in {"create", "charge", "increment", "compensate"} => key[r] \in Keys
    /\ pc[r] = "increment" /\ MaxUses[key[r]] > 0 => uses[r] < MaxUses[key[r]]
    /\ r \in charged => key[r] \in Keys /\ pc[r] \in {"update", "done", "failed"}
    /\ pc[r] \in {"update", "done"} /\ key[r] # NoKey => r \in charged

\* What a row says of the request that created it.
RowsInv ==
  /\ \A r \in Requests : pc[r] = "create" => seen[r] = {}
  /\ \A i \in Ids(devices) :
       /\ key[i] \in Keys /\ seen[i] = {}
       /\ pc[i] \notin {"new", "validated", "create"}
  /\ NoFreeDevices

\* The requests that key k has dealt with for good.
Settled(k) ==
  {r \in Requests : key[r] = k /\ (r \in charged \/ pc[r] \in {"compensate", "failed"})}

AttemptsInv ==
  \A k \in Keys : currentUses[k] + failedAttempts[k] <= Cardinality(Settled(k))

RegistrationInv == TypeOK /\ UsesInv /\ ProgressInv /\ RowsInv /\ AttemptsInv
USE RegistrationAssumption DEF RegistrationAssumption

-----------------------------------------------------------------------------
\* Sets of requests are finite; one that contains another and r is larger.
LEMMA RequestSets ==
  ASSUME NEW S, NEW T, S \subseteq T, T \subseteq Requests
  PROVE  /\ Cardinality(S) \in Nat /\ Cardinality(T) \in Nat
         /\ Cardinality(S) <= Cardinality(T)
         /\ \A r \in T \ S : Cardinality(S) + 1 <= Cardinality(T)
<1>1. IsFiniteSet(T) /\ IsFiniteSet(S)
  BY FS_Subset
<1>2. Cardinality(S) \in Nat /\ Cardinality(T) \in Nat /\ Cardinality(S) <= Cardinality(T)
  BY <1>1, FS_CardinalityType, FS_Subset
<1>3. ASSUME NEW r \in T \ S PROVE Cardinality(S) + 1 <= Cardinality(T)
  <2>1. IsFiniteSet(S \cup {r}) /\ Cardinality(S \cup {r}) = Cardinality(S) + 1
    BY <1>1, FS_AddElement
  <2>2. S \cup {r} \subseteq T
    OBVIOUS
  <2>3. Cardinality(S \cup {r}) <= Cardinality(T)
    BY <1>1, <2>2, FS_Subset
  <2> QED
    BY <2>1, <2>3
<1> QED
  BY <1>2, <1>3

\* A step that settles whatever it counts keeps AttemptsInv.
LEMMA AttemptsKept ==
  ASSUME AttemptsInv, TypeOK, TypeOK',
         \A k \in Keys : Settled(k) \subseteq Settled(k)',
         UNCHANGED <<currentUses, failedAttempts>>
  PROVE  AttemptsInv'
<1> SUFFICES ASSUME NEW k \in Keys
             PROVE  (currentUses[k] + failedAttempts[k] <= Cardinality(Settled(k)))'
  BY DEF AttemptsInv
<1> DEFINE S == Settled(k)
           T == Settled(k)'
<1>1. S \subseteq T /\ T \subseteq Requests
  BY DEF Settled
<1> HIDE DEF S, T
<1>2. Cardinality(S) \in Nat /\ Cardinality(T) \in Nat /\ Cardinality(S) <= Cardinality(T)
  BY <1>1, RequestSets
<1>3. currentUses[k] + failedAttempts[k] <= Cardinality(S)
  BY DEF AttemptsInv, S
<1>4. currentUses[k] \in Nat /\ failedAttempts[k] \in Nat
  BY DEF TypeOK, TablesTypeOK
<1>5. currentUses'[k] + failedAttempts'[k] <= Cardinality(T)
  BY <1>2, <1>3, <1>4
<1> QED
  BY <1>5 DEF T

\* The same for a step that counts one attempt or use of key j and settles r.
LEMMA AttemptsCounted ==
  ASSUME AttemptsInv, TypeOK, TypeOK',
         \A k \in Keys : Settled(k) \subseteq Settled(k)',
         NEW r \in Requests, NEW j \in Keys,
         r \in Settled(j)' \ Settled(j),
         \A k \in Keys : currentUses'[k] + failedAttempts'[k] =
            currentUses[k] + failedAttempts[k] + (IF k = j THEN 1 ELSE 0)
  PROVE  AttemptsInv'
<1> SUFFICES ASSUME NEW k \in Keys
             PROVE  (currentUses[k] + failedAttempts[k] <= Cardinality(Settled(k)))'
  BY DEF AttemptsInv
<1> DEFINE S == Settled(k)
           T == Settled(k)'
<1>1. S \subseteq T /\ T \subseteq Requests
  BY DEF Settled
<1>0. k = j => r \in T \ S
  OBVIOUS
<1> HIDE DEF S, T
<1>2. /\ Cardinality(S) \in Nat /\ Cardinality(T) \in Nat
      /\ Cardinality(S) <= Cardinality(T)
      /\ k = j => Cardinality(S) + 1 <= Cardinality(T)
  BY <1>0, <1>1, RequestSets
<1>3. currentUses[k] + failedAttempts[k] <= Cardinality(S)
  BY DEF AttemptsInv, S
<1>4. currentUses[k] \in Nat /\ failedAttempts[k] \in Nat
  BY DEF TypeOK, TablesTypeOK
<1>5. currentUses'[k] + failedAttempts'[k] <= Cardinality(T)
  BY <1>2, <1>3, <1>4
<1> QED
  BY <1>5 DEF T

-----------------------------------------------------------------------------
\* Initially the invariant holds.
LEMMA InitRegistrationInv == Init => RegistrationInv
<1> SUFFICES ASSUME Init PROVE RegistrationInv
  OBVIOUS
<1>1. TypeOK
  BY DEF Init, TypeOK, TablesTypeOK, RequestsTypeOK, Steps, Device
<1>2. UsesInv
  <2>1. \A k \in Keys : {r \in charged : key[r] = k} = {}
    BY DEF Init
  <2>2. Cardinality({}) = 0
    BY FS_EmptySet
  <2> QED
    BY <2>1, <2>2 DEF Init, UsesInv, UsesWithinLimit, EveryUseCounted
<1>3. ProgressInv
  BY DEF Init, ProgressInv
<1>4. RowsInv
  BY DEF Init, RowsInv, NoFreeDevices, Ids
<1>5. AttemptsInv
  <2> SUFFICES ASSUME NEW k \in Keys
               PROVE  currentUses[k] + failedAttempts[k] <= Cardinality(Settled(k))
    BY DEF AttemptsInv
  <2>1. Settled(k) \subseteq Requests
    BY DEF Settled
  <2>2. Cardinality(Settled(k)) \in Nat
    BY <2>1, RequestSets
  <2> QED
    BY <2>2 DEF Init
<1> QED
  BY <1>1, <1>2, <1>3, <1>4, <1>5 DEF RegistrationInv

\* A refused key counts a failed attempt.
LEMMA ValidateKeyStep ==
  ASSUME RegistrationInv, NEW r \in Requests, ValidateKey(r)
  PROVE  RegistrationInv'
<1> USE DEF RegistrationInv, ValidateKey, GoTo, RecordFailedAttempt,
            body, locals, admin, history
<1>1. TypeOK'
  BY DEF TypeOK, TablesTypeOK, RequestsTypeOK, Steps
<1>2. UsesInv'
  BY DEF UsesInv, UsesWithinLimit, EveryUseCounted
<1>3. ProgressInv'
  BY DEF ProgressInv, TypeOK, RequestsTypeOK
<1>4. RowsInv'
  BY DEF RowsInv, NoFreeDevices, Ids, Working, TypeOK, TablesTypeOK, RequestsTypeOK, Device
<1>5. AttemptsInv'
  <2>1. \A k \in Keys : Settled(k) \subseteq Settled(k)'
    BY DEF Settled, TypeOK, RequestsTypeOK
  <2>2. CASE pc'[r] = "validated"
    <3>1. UNCHANGED <<currentUses, failedAttempts>>
      BY <2>2 DEF TypeOK, RequestsTypeOK
    <3> QED
      BY <1>1, <2>1, <3>1, AttemptsKept
  <2>3. CASE pc'[r] # "validated"
    <3>0. key[r] \in Keys /\ pc'[r] = "failed"
      BY <2>3 DEF TypeOK, RequestsTypeOK
    <3>1. PICK j \in Keys : j = key[r]
      BY <3>0
    <3>2. r \in Settled(j)' \ Settled(j)
      BY <3>0, <3>1 DEF Settled, ProgressInv
    <3>3. \A k \in Keys : currentUses'[k] + failedAttempts'[k] =
            currentUses[k] + failedAttempts[k] + (IF k = j THEN 1 ELSE 0)
      BY <2>3, <3>1 DEF TypeOK, TablesTypeOK, RequestsTypeOK
    <3> QED
      BY <1>1, <2>1, <3>2, <3>3, AttemptsCounted
  <2> QED
    BY <2>2, <2>3
<1> QED
  BY <1>1, <1>2, <1>3, <1>4, <1>5

\* Looking the hardware up decides what the request will do.
LEMMA FindExistingStep ==
  ASSUME RegistrationInv, NEW r \in Requests, FindExisting(r)
  PROVE  RegistrationInv'
<1> USE DEF RegistrationInv, FindExisting, GoTo, tables, keyTable, body, admin, history
<1> DEFINE found == {d \in devices : d.uuid = uuid[r]}
<1>0. PICK step \in NextSteps(r, found) : pc' = [pc EXCEPT ![r] = step]
  OBVIOUS
<1>1. /\ step \in {"create", "charge", "update", "failed"}
      /\ step \in {"create", "charge"} => key[r] \in Keys
      /\ step = "update" => key[r] = NoKey
      /\ step = "create" => found = {}
  BY DEF NextSteps, TypeOK, RequestsTypeOK
<1>2. found \subseteq Device /\ Ids(found) \subseteq Requests
  BY DEF TypeOK, TablesTypeOK, Ids, Device
<1> HIDE DEF found
<1>3. seen' = [seen EXCEPT ![r] = found] /\ decommissioned' \subseteq decommissioned
  BY DEF found
<1>4. TypeOK'
  BY <1>0, <1>1, <1>2, <1>3 DEF TypeOK, TablesTypeOK, RequestsTypeOK, Steps
<1>5. UsesInv'
  BY DEF UsesInv, UsesWithinLimit, EveryUseCounted
<1>6. ProgressInv'
  BY <1>0, <1>1 DEF ProgressInv, TypeOK, RequestsTypeOK
<1>7. RowsInv'
  <2>1. r \notin Ids(devices)
    BY DEF RowsInv
  <2>2. \A q \in Requests \ {r} : pc'[q] = pc[q] /\ seen'[q] = seen[q]
    BY <1>0, <1>3 DEF TypeOK, RequestsTypeOK
  <2>3. pc'[r] = step /\ seen'[r] = found
    BY <1>0, <1>3 DEF TypeOK, RequestsTypeOK
  <2>4. Ids(devices) \subseteq Requests
    BY DEF TypeOK, TablesTypeOK, Ids, Device
  <2> QED
    BY <1>1, <2>1, <2>2, <2>3, <2>4 DEF RowsInv, NoFreeDevices, Ids, Working
<1>8. AttemptsInv'
  <2>1. \A k \in Keys : Settled(k) \subseteq Settled(k)'
    BY <1>0 DEF Settled, TypeOK, RequestsTypeOK
  <2> QED
    BY <1>4, <2>1, AttemptsKept
<1> QED
  BY <1>4, <1>5, <1>6, <1>7, <1>8

\* A row appears only for a request that found none, and that will charge.
LEMMA CreateDeviceStep ==
  ASSUME RegistrationInv, NEW r \in Requests, CreateDevice(r)
  PROVE  RegistrationInv'
<1> USE DEF RegistrationInv, CreateDevice, GoTo, keyTable, body, locals, admin, history
<1>0. r \notin Ids(devices) /\ seen[r] = {} /\ key[r] \in Keys
  BY DEF RowsInv, ProgressInv
<1>1. TypeOK'
  <2>1. CASE Known(r)
    BY <2>1 DEF TypeOK, TablesTypeOK, RequestsTypeOK, Steps
  <2>2. CASE ~Known(r)
    <3> DEFINE row == [uuid |-> uuid[r], id |-> r, org |-> KeyOrg[key[r]], token |-> r]
    <3>1. row \in Device /\ row.uuid = uuid[r] /\ row.id = r
      BY <1>0 DEF Device, TypeOK, RequestsTypeOK
    <3> HIDE DEF row
    <3>2. devices' = devices \cup {row}
      BY <2>2 DEF row
    <3>3. \A d \in devices : d.uuid # row.uuid /\ d.id # row.id
      BY <1>0, <2>2, <3>1 DEF Known, Ids
    <3>4. \A d, e \in devices' : d.uuid = e.uuid \/ d.id = e.id => d = e
      BY <3>2, <3>3 DEF TypeOK
    <3>5. TablesTypeOK'
      BY <3>1, <3>2 DEF TypeOK, TablesTypeOK
    <3>6. RequestsTypeOK'
      BY <2>2 DEF TypeOK, RequestsTypeOK, Steps
    <3> QED
      BY <3>4, <3>5, <3>6 DEF TypeOK
  <2> QED
    BY <2>1, <2>2
<1>2. UsesInv'
  BY DEF UsesInv, UsesWithinLimit, EveryUseCounted
<1>3. ProgressInv'
  BY <1>0 DEF ProgressInv, TypeOK, RequestsTypeOK
<1>4. RowsInv'
  <2>1. Ids(devices') \subseteq Ids(devices) \cup {r}
    BY DEF Ids
  <2>2. \A q \in Requests \ {r} : pc'[q] = pc[q]
    BY DEF TypeOK, RequestsTypeOK
  <2>3. pc'[r] \in {"charge", "failed"} /\ (pc'[r] = "failed" => devices' = devices)
    BY DEF TypeOK, RequestsTypeOK
  <2>4. Ids(devices) \subseteq Requests
    BY DEF TypeOK, TablesTypeOK, Ids, Device
  <2>5. \A q \in Requests : pc'[q] = "create" => seen'[q] = {}
    BY <2>2, <2>3 DEF RowsInv
  <2>6. ASSUME NEW i \in Ids(devices')
        PROVE  /\ key[i] \in Keys /\ seen[i] = {}
               /\ pc'[i] \notin {"new", "validated", "create"}
               /\ i \in charged \cup abandoned \/ pc'[i] \notin {"new", "done", "failed"}
    <3>1. CASE i = r
      BY <1>0, <2>3, <3>1
    <3>2. CASE i # r
      BY <2>1, <2>2, <2>4, <3>2 DEF RowsInv, NoFreeDevices, Working
    <3> QED
      BY <3>1, <3>2
  <2> QED
    BY <2>5, <2>6 DEF RowsInv, NoFreeDevices, Ids, Working
<1>5. AttemptsInv'
  <2>1. \A k \in Keys : Settled(k) \subseteq Settled(k)'
    BY DEF Settled, TypeOK, RequestsTypeOK
  <2> QED
    BY <1>1, <2>1, AttemptsKept
<1> QED
  BY <1>1, <1>2, <1>3, <1>4, <1>5

\* A refused request that created its row goes on to clean it up.
LEMMA RefuseRows ==
  ASSUME TypeOK, RowsInv, ProgressInv, NEW r \in Requests, pc[r] \in {"charge", "increment"},
         Refuse(r), charged' = charged,
         UNCHANGED <<devices, body, seen, abandoned>>
  PROVE  RowsInv'
<1>1. \A q \in Requests \ {r} : pc'[q] = pc[q]
  BY DEF Refuse, GoTo, TypeOK, RequestsTypeOK
<1>2. pc'[r] \in {"compensate", "failed"} /\ (seen[r] = {} => pc'[r] = "compensate")
  BY DEF Refuse, GoTo, TypeOK, RequestsTypeOK
<1>3. Ids(devices) \subseteq Requests
  BY DEF TypeOK, TablesTypeOK, Ids, Device
<1> QED
  BY <1>1, <1>2, <1>3 DEF RowsInv, NoFreeDevices, Ids, Working, body

\* What incrementUsage reads is below the limit.
LEMMA ReadUsageStep ==
  ASSUME RegistrationInv, NEW r \in Requests, ReadUsage(r)
  PROVE  RegistrationInv'
<1> USE DEF RegistrationInv, ReadUsage, GoTo, RecordFailedAttempt, body, admin, history
<1>0. PICK j \in Keys : j = key[r]
  BY DEF ProgressInv
<1>1. TypeOK'
  <2>1. TablesTypeOK'
    BY <1>0 DEF TypeOK, TablesTypeOK
  <2>2. pc' \in [Requests -> Steps]
    BY DEF TypeOK, RequestsTypeOK, Steps, Refuse
  <2>3. uses' \in [Requests -> Nat]
    BY <1>0 DEF TypeOK, RequestsTypeOK, TablesTypeOK
  <2> QED
    BY <2>1, <2>2, <2>3 DEF TypeOK, RequestsTypeOK
<1>2. UsesInv'
  BY DEF UsesInv, UsesWithinLimit, EveryUseCounted
<1>3. ProgressInv'
  BY <1>0 DEF ProgressInv, TypeOK, TablesTypeOK, RequestsTypeOK, Refuse, Usable, BelowLimit
<1>4. RowsInv'
  <2>1. CASE Usable(key[r])
    BY <2>1 DEF RowsInv, NoFreeDevices, Ids, Working, TypeOK, TablesTypeOK, RequestsTypeOK, Device
  <2>2. CASE ~Usable(key[r])
    BY <2>2, RefuseRows
  <2> QED
    BY <2>1, <2>2
<1>5. AttemptsInv'
  <2>1. \A k \in Keys : Settled(k) \subseteq Settled(k)'
    BY DEF Settled, TypeOK, RequestsTypeOK, Refuse
  <2>2. CASE Usable(key[r])
    BY <1>1, <2>1, <2>2, AttemptsKept
  <2>3. CASE ~Usable(key[r])
    <3>1. r \in Settled(j)' \ Settled(j)
      BY <1>0, <2>3 DEF Settled, ProgressInv, Refuse, TypeOK, RequestsTypeOK
    <3>2. \A k \in Keys : currentUses'[k] + failedAttempts'[k] =
            currentUses[k] + failedAttempts[k] + (IF k = j THEN 1 ELSE 0)
      BY <1>0, <2>3 DEF TypeOK, TablesTypeOK
    <3> QED
      BY <1>1, <2>1, <3>1, <3>2, AttemptsCounted
  <2> QED
    BY <2>2, <2>3
<1> QED
  BY <1>1, <1>2, <1>3, <1>4, <1>5

\* A use is granted only while the row still holds the value read, which was
\* below the limit.
LEMMA GrantStep ==
  ASSUME RegistrationInv, NEW r \in Requests, IncrementUsage(r), SwapApplies(r)
  PROVE  RegistrationInv'
<1> USE DEF RegistrationInv, IncrementUsage, AddUse, GoTo, body, locals, admin
<1>0. PICK j \in Keys : j = key[r]
  BY DEF ProgressInv
<1>1. /\ r \notin charged /\ charged' = charged \cup {r}
      /\ currentUses' = [currentUses EXCEPT ![j] = @ + 1]
      /\ pc' = [pc EXCEPT ![r] = IF seen[r] = {} THEN "done" ELSE "update"]
      /\ failedAttempts' = failedAttempts
  BY <1>0 DEF ProgressInv
<1>2. TypeOK'
  BY <1>1 DEF TypeOK, TablesTypeOK, RequestsTypeOK, Steps
<1>3. UsesInv'
  <2>1. UsesWithinLimit'
    BY <1>0, <1>1 DEF UsesInv, UsesWithinLimit, ProgressInv, SwapApplies, TypeOK,
                      TablesTypeOK, RequestsTypeOK
  <2>2. EveryUseCounted'
    <3> SUFFICES ASSUME NEW k \in Keys
                 PROVE  currentUses'[k] = Cardinality({q \in charged' : key[q] = k})
      BY DEF EveryUseCounted
    <3> DEFINE users == {q \in charged : key[q] = k}
    <3>1. IsFiniteSet(users)
      BY FS_Subset DEF TypeOK, RequestsTypeOK
    <3>2. currentUses[k] = Cardinality(users)
      BY DEF UsesInv, EveryUseCounted
    <3>3. CASE k = j
      <4>1. {q \in charged' : key[q] = k} = users \cup {r} /\ r \notin users
        BY <1>0, <1>1, <3>3
      <4>2. Cardinality(users \cup {r}) = Cardinality(users) + 1
        BY <3>1, <4>1, FS_AddElement
      <4>3. currentUses'[k] = currentUses[k] + 1
        BY <1>1, <3>3 DEF TypeOK, TablesTypeOK
      <4> QED
        BY <3>2, <4>1, <4>2, <4>3
    <3>4. CASE k # j
      <4>1. {q \in charged' : key[q] = k} = users
        BY <1>0, <1>1, <3>4
      <4> QED
        BY <1>1, <3>2, <3>4, <4>1 DEF TypeOK, TablesTypeOK
    <3> QED
      BY <3>3, <3>4
  <2> QED
    BY <2>1, <2>2 DEF UsesInv
<1>4. ProgressInv'
  BY <1>0, <1>1 DEF ProgressInv, TypeOK, RequestsTypeOK
<1>5. RowsInv'
  BY <1>1 DEF RowsInv, NoFreeDevices, Ids, Working, TypeOK, TablesTypeOK, RequestsTypeOK, Device
<1>6. AttemptsInv'
  <2>1. \A k \in Keys : Settled(k) \subseteq Settled(k)'
    BY <1>1 DEF Settled, TypeOK, RequestsTypeOK
  <2>2. r \in Settled(j)' \ Settled(j)
    BY <1>0, <1>1 DEF Settled
  <2>3. \A k \in Keys : currentUses'[k] + failedAttempts'[k] =
          currentUses[k] + failedAttempts[k] + (IF k = j THEN 1 ELSE 0)
    BY <1>1 DEF TypeOK, TablesTypeOK
  <2> QED
    BY <1>2, <2>1, <2>2, <2>3, AttemptsCounted
<1> QED
  BY <1>2, <1>3, <1>4, <1>5, <1>6

\* A lost race counts as a failed attempt, never as a use.
LEMMA LostRaceStep ==
  ASSUME RegistrationInv, NEW r \in Requests, IncrementUsage(r), ~SwapApplies(r)
  PROVE  RegistrationInv'
<1> USE DEF RegistrationInv, IncrementUsage, AddUse, GoTo, RecordFailedAttempt,
            body, locals, admin
<1>0. PICK j \in Keys : j = key[r]
  BY DEF ProgressInv
<1>1. /\ r \notin charged /\ UNCHANGED <<charged, currentUses>> /\ Refuse(r)
      /\ failedAttempts' = [failedAttempts EXCEPT ![j] = @ + 1]
  BY <1>0 DEF ProgressInv
<1>2. TypeOK'
  BY <1>1 DEF TypeOK, TablesTypeOK, RequestsTypeOK, Steps, Refuse
<1>3. UsesInv'
  BY <1>1 DEF UsesInv, UsesWithinLimit, EveryUseCounted
<1>4. ProgressInv'
  BY <1>0, <1>1 DEF ProgressInv, TypeOK, RequestsTypeOK, Refuse
<1>5. RowsInv'
  BY <1>1, RefuseRows
<1>6. AttemptsInv'
  <2>1. \A k \in Keys : Settled(k) \subseteq Settled(k)'
    BY <1>1 DEF Settled, TypeOK, RequestsTypeOK, Refuse
  <2>2. r \in Settled(j)' \ Settled(j)
    BY <1>0, <1>1 DEF Settled, Refuse, TypeOK, RequestsTypeOK
  <2>3. \A k \in Keys : currentUses'[k] + failedAttempts'[k] =
          currentUses[k] + failedAttempts[k] + (IF k = j THEN 1 ELSE 0)
    BY <1>1 DEF TypeOK, TablesTypeOK
  <2> QED
    BY <1>2, <2>1, <2>2, <2>3, AttemptsCounted
<1> QED
  BY <1>2, <1>3, <1>4, <1>5, <1>6

\* The update replaces at most one row by one with the same identity.
LEMMA UpdateDeviceStep ==
  ASSUME RegistrationInv, NEW r \in Requests, UpdateDevice(r)
  PROVE  RegistrationInv'
<1> USE DEF RegistrationInv, UpdateDevice, GoTo, keyTable, body, locals, admin, history
<1> DEFINE target == {d \in devices : d.id \in Ids(seen[r])}
           renewed == {[d EXCEPT !.token = r] : d \in target}
           image(d) == IF d \in target THEN [d EXCEPT !.token = r] ELSE d
<1>1. \A d \in devices : image(d) \in Device /\ image(d).id = d.id /\ image(d).uuid = d.uuid
  BY DEF TypeOK, TablesTypeOK, Device
<1>2. \A e \in devices' : \E d \in devices : e = image(d)
  <2>1. devices' = (devices \ target) \cup renewed
    OBVIOUS
  <2> TAKE e \in devices'
  <2>2. CASE e \in devices \ target
    BY <2>2
  <2>3. CASE e \in renewed
    BY <2>3
  <2> QED
    BY <2>1, <2>2, <2>3
<1>3. \A e \in devices' : \E d \in devices :
        e = image(d) /\ e \in Device /\ e.id = d.id /\ e.uuid = d.uuid
  BY <1>1, <1>2
<1>4. pc' = [pc EXCEPT ![r] = IF target = {} THEN "failed" ELSE "done"]
  OBVIOUS
<1> HIDE DEF target, renewed, image
<1>5. TypeOK'
  <2>1. TablesTypeOK'
    BY <1>3 DEF TypeOK, TablesTypeOK
  <2>2. RequestsTypeOK'
    BY <1>4 DEF TypeOK, RequestsTypeOK, Steps
  <2>3. ASSUME NEW d \in devices', NEW e \in devices', d.uuid = e.uuid \/ d.id = e.id
        PROVE  d = e
    BY <1>3, <2>3 DEF TypeOK
  <2> QED
    BY <2>1, <2>2, <2>3 DEF TypeOK
<1>6. UsesInv'
  BY DEF UsesInv, UsesWithinLimit, EveryUseCounted
<1>7. ProgressInv'
  BY <1>4 DEF ProgressInv, TypeOK, RequestsTypeOK
<1>8. RowsInv'
  <2>1. Ids(devices)' \subseteq Ids(devices) /\ Ids(devices) \subseteq Requests
    BY <1>3 DEF Ids, TypeOK, TablesTypeOK, Device
  <2>2. r \in Ids(devices) => r \in charged
    BY DEF RowsInv, ProgressInv
  <2>3. \A q \in Requests \ {r} : pc'[q] = pc[q]
    BY <1>4 DEF TypeOK, RequestsTypeOK
  <2>4. pc'[r] \in {"done", "failed"}
    BY <1>4 DEF TypeOK, RequestsTypeOK
  <2> QED
    BY <2>1, <2>2, <2>3, <2>4 DEF RowsInv, NoFreeDevices, Working
<1>9. AttemptsInv'
  <2>1. \A k \in Keys : Settled(k) \subseteq Settled(k)'
    BY <1>4 DEF Settled, TypeOK, RequestsTypeOK
  <2> QED
    BY <1>5, <2>1, AttemptsKept
<1> QED
  BY <1>5, <1>6, <1>7, <1>8, <1>9

\* The clean-up removes the row, or leaves it with the request abandoned.
LEMMA CompensateStep ==
  ASSUME RegistrationInv, NEW r \in Requests, NEW ok \in BOOLEAN, Compensate(r, ok)
  PROVE  RegistrationInv'
<1> USE DEF RegistrationInv, Compensate, GoTo, keyTable, body, locals, admin
<1>1. /\ devices' \subseteq devices
      /\ r \in Ids(devices') => r \in abandoned'
      /\ abandoned \subseteq abandoned' /\ abandoned' \subseteq Requests
  BY DEF Ids, TypeOK, RequestsTypeOK
<1>2. TypeOK'
  BY <1>1 DEF TypeOK, TablesTypeOK, RequestsTypeOK, Steps
<1>3. UsesInv'
  BY DEF UsesInv, UsesWithinLimit, EveryUseCounted
<1>4. ProgressInv'
  BY DEF ProgressInv, TypeOK, RequestsTypeOK
<1>5. RowsInv'
  <2>1. Ids(devices)' \subseteq Ids(devices) /\ Ids(devices) \subseteq Requests
    BY <1>1 DEF Ids, TypeOK, TablesTypeOK, Device
  <2>2. \A q \in Requests \ {r} : pc'[q] = pc[q]
    BY DEF TypeOK, RequestsTypeOK
  <2>3. pc'[r] = "failed"
    BY DEF TypeOK, RequestsTypeOK
  <2> QED
    BY <1>1, <2>1, <2>2, <2>3 DEF RowsInv, NoFreeDevices, Working
<1>6. AttemptsInv'
  <2>1. \A k \in Keys : Settled(k) \subseteq Settled(k)'
    BY DEF Settled, TypeOK, RequestsTypeOK
  <2> QED
    BY <1>2, <2>1, AttemptsKept
<1> QED
  BY <1>2, <1>3, <1>4, <1>5, <1>6

\* Administrators and the clock change neither uses nor requests, and only
\* remove rows.
LEMMA AdministrationStep ==
  ASSUME RegistrationInv,
         \/ \E k \in Keys : RevokeKey(k) \/ KeyExpires(k)
         \/ \E d \in devices : MarkRemoved(d)
         \/ \E i \in removing : DeleteRow(i)
  PROVE  RegistrationInv'
<1> USE DEF RegistrationInv
<1>1. /\ UNCHANGED <<currentUses, failedAttempts, body, pc, locals, history>>
      /\ devices' \subseteq devices
  BY DEF RevokeKey, KeyExpires, MarkRemoved, DeleteRow, tables, keyTable
<1>2. TypeOK'
  <2>1. TablesTypeOK'
    <3>1. CASE \E k \in Keys : RevokeKey(k) \/ KeyExpires(k)
      BY <3>1 DEF TypeOK, TablesTypeOK, RevokeKey, KeyExpires
    <3>2. CASE \E d \in devices : MarkRemoved(d)
      BY <3>2 DEF TypeOK, TablesTypeOK, MarkRemoved, tables, keyTable, Device
    <3>3. CASE \E i \in removing : DeleteRow(i)
      BY <3>3 DEF TypeOK, TablesTypeOK, DeleteRow, keyTable
    <3> QED
      BY <3>1, <3>2, <3>3
  <2>2. removing' \subseteq Requests /\ removed' \subseteq Requests
    <3>1. CASE \E k \in Keys : RevokeKey(k) \/ KeyExpires(k)
      BY <3>1 DEF TypeOK, RequestsTypeOK, RevokeKey, KeyExpires, admin
    <3>2. CASE \E d \in devices : MarkRemoved(d)
      BY <3>2 DEF TypeOK, TablesTypeOK, RequestsTypeOK, MarkRemoved, Device
    <3>3. CASE \E i \in removing : DeleteRow(i)
      BY <3>3 DEF TypeOK, RequestsTypeOK, DeleteRow
    <3> QED
      BY <3>1, <3>2, <3>3
  <2> QED
    BY <1>1, <2>1, <2>2 DEF TypeOK, RequestsTypeOK, body, locals, history
<1>3. UsesInv'
  BY <1>1 DEF UsesInv, UsesWithinLimit, EveryUseCounted, body, history
<1>4. ProgressInv'
  BY <1>1 DEF ProgressInv, body, locals, history
<1>5. RowsInv'
  BY <1>1 DEF RowsInv, NoFreeDevices, Ids, Working, body, locals, history
<1>6. AttemptsInv'
  <2>1. \A k \in Keys : Settled(k) \subseteq Settled(k)'
    BY <1>1 DEF Settled, body, history
  <2> QED
    BY <1>1, <1>2, <2>1, AttemptsKept
<1> QED
  BY <1>2, <1>3, <1>4, <1>5, <1>6

\* A crash abandons what was under way.
LEMMA CrashStep == ASSUME RegistrationInv, Crash PROVE RegistrationInv'
<1> USE DEF RegistrationInv, Crash, tables, keyTable, body, locals
<1>1. TypeOK'
  BY DEF TypeOK, TablesTypeOK, RequestsTypeOK, Steps
<1>2. UsesInv'
  BY DEF UsesInv, UsesWithinLimit, EveryUseCounted
<1>3. ProgressInv'
  BY DEF ProgressInv, Working
<1>4. RowsInv'
  <2>1. Ids(devices) \subseteq Requests
    BY DEF Ids, TypeOK, TablesTypeOK, Device
  <2> QED
    BY <2>1 DEF RowsInv, NoFreeDevices, Ids, Working
<1>5. AttemptsInv'
  <2>1. \A k \in Keys : Settled(k) \subseteq Settled(k)'
    BY DEF Settled
  <2> QED
    BY <1>1, <2>1, AttemptsKept
<1> QED
  BY <1>1, <1>2, <1>3, <1>4, <1>5

LEMMA StutterStep == ASSUME RegistrationInv, UNCHANGED vars PROVE RegistrationInv'
<1> USE DEF RegistrationInv, vars, tables, keyTable, body, locals, admin, history
<1>1. TypeOK'
  BY DEF TypeOK, TablesTypeOK, RequestsTypeOK
<1>2. AttemptsInv'
  BY <1>1, AttemptsKept DEF Settled
<1> QED
  BY <1>1, <1>2 DEF UsesInv, UsesWithinLimit, EveryUseCounted, ProgressInv, RowsInv,
                    NoFreeDevices, Ids, Working

\* Every step keeps the invariant.
LEMMA StepRegistrationInv == RegistrationInv /\ [Next]_vars => RegistrationInv'
<1> SUFFICES ASSUME RegistrationInv, [Next]_vars PROVE RegistrationInv'
  OBVIOUS
<1>1. ASSUME NEW r \in Requests, Register(r) PROVE RegistrationInv'
  BY <1>1, ValidateKeyStep, FindExistingStep, CreateDeviceStep, ReadUsageStep,
     GrantStep, LostRaceStep, UpdateDeviceStep, CompensateStep DEF Register
<1> QED
  BY <1>1, AdministrationStep, CrashStep, StutterStep DEF Next

-----------------------------------------------------------------------------
\* The strengthening holds in every reachable state.
THEOREM RegistrationInvariant == Spec => []RegistrationInv
  BY InitRegistrationInv, StepRegistrationInv, PTL DEF Spec

\* Every reachable state is well typed: one row per hardware, in particular.
THEOREM TypeCorrect == Spec => []TypeOK
<1>1. RegistrationInv => TypeOK
  BY DEF RegistrationInv
<1> QED
  BY <1>1, RegistrationInvariant, PTL

\* No number of concurrent enrolments overdraws a key.
THEOREM LimitRespected == Spec => []UsesWithinLimit
<1>1. RegistrationInv => UsesWithinLimit
  BY DEF RegistrationInv, UsesInv
<1> QED
  BY <1>1, RegistrationInvariant, PTL

\* No update of a usage counter is lost.
THEOREM UsesCounted == Spec => []EveryUseCounted
<1>1. RegistrationInv => EveryUseCounted
  BY DEF RegistrationInv, UsesInv
<1> QED
  BY <1>1, RegistrationInvariant, PTL

\* A request with a key succeeds only at the expense of the key, and is never
\* counted both as a use and as a failed attempt.
THEOREM SuccessCharged == Spec => []SuccessIsCharged
<1>1. RegistrationInv => SuccessIsCharged
  <2> SUFFICES ASSUME RegistrationInv, NEW k \in Keys
               PROVE  LET having(q) == {r \in Requests : key[r] = k /\ pc[r] \in q} IN
                      /\ having({"done"}) \subseteq charged
                      /\ currentUses[k] + failedAttempts[k]
                           <= Cardinality(having(Steps \ {"new"}))
    BY DEF SuccessIsCharged
  <2> DEFINE begun == {r \in Requests : key[r] = k /\ pc[r] \in Steps \ {"new"}}
  <2>1. {r \in Requests : key[r] = k /\ pc[r] \in {"done"}} \subseteq charged
    BY DEF RegistrationInv, ProgressInv
  <2>2. Settled(k) \subseteq begun /\ begun \subseteq Requests
    BY DEF RegistrationInv, ProgressInv, Settled, Steps
  <2> HIDE DEF begun
  <2>3. /\ Cardinality(Settled(k)) \in Nat /\ Cardinality(begun) \in Nat
        /\ Cardinality(Settled(k)) <= Cardinality(begun)
    BY <2>2, RequestSets
  <2>4. currentUses[k] + failedAttempts[k] <= Cardinality(Settled(k))
    BY DEF RegistrationInv, AttemptsInv
  <2>5. currentUses[k] \in Nat /\ failedAttempts[k] \in Nat
    BY DEF RegistrationInv, TypeOK, TablesTypeOK
  <2>6. currentUses[k] + failedAttempts[k] <= Cardinality(begun)
    BY <2>3, <2>4, <2>5
  <2> QED
    BY <2>1, <2>6 DEF begun
<1> QED
  BY <1>1, RegistrationInvariant, PTL

\* Every row was paid for, or belongs to a request still in hand or cut off.
THEOREM RowsArePaidFor == Spec => []NoFreeDevices
<1>1. RegistrationInv => NoFreeDevices
  BY DEF RegistrationInv, RowsInv
<1> QED
  BY <1>1, RegistrationInvariant, PTL

\* A request that goes on to charge, or was granted, for a row of its own has it
\* unless an administrator took it away.
OwnRowInv ==
  \A r \in Requests :
    pc[r] \in {"charge", "increment"} /\ seen[r] = {} => r \in Ids(devices) \cup removed

\* A row goes by an administrator's deletion or by its creator's clean-up.
LEMMA RowsGo ==
  ASSUME RegistrationInv, [Next]_vars
  PROVE  /\ \A i \in Ids(devices) :
              \/ i \in Ids(devices')
              \/ i \in removed'
              \/ pc[i] = "compensate" /\ pc'[i] = "failed" /\ i \notin charged'
         /\ removed \subseteq removed'
<1> USE DEF RegistrationInv, keyTable, tables, body, locals, admin, history, GoTo
<1>1. ASSUME NEW r \in Requests,
             ValidateKey(r) \/ FindExisting(r) \/ ReadUsage(r) \/ IncrementUsage(r)
      PROVE  devices' = devices /\ removed' = removed
  BY <1>1 DEF ValidateKey, FindExisting, ReadUsage, IncrementUsage
<1>2. ASSUME NEW r \in Requests, CreateDevice(r)
      PROVE  Ids(devices) \subseteq Ids(devices') /\ removed' = removed
  BY <1>2 DEF CreateDevice, Ids
<1>3. ASSUME NEW r \in Requests, UpdateDevice(r)
      PROVE  Ids(devices) \subseteq Ids(devices') /\ removed' = removed
  <2> DEFINE target == {d \in devices : d.id \in Ids(seen[r])}
  <2>1. \A d \in target : [d EXCEPT !.token = r].id = d.id
    BY DEF TypeOK, TablesTypeOK, Device
  <2>2. devices' = (devices \ target) \cup {[d EXCEPT !.token = r] : d \in target}
    BY <1>3 DEF UpdateDevice
  <2> HIDE DEF target
  <2>3. QED
    BY <1>3, <2>1, <2>2, ZenonT(30) DEF Ids, UpdateDevice
<1>4. ASSUME NEW r \in Requests, NEW ok \in BOOLEAN, Compensate(r, ok)
      PROVE  /\ \A i \in Ids(devices) : i \in Ids(devices') \/ i = r
             /\ pc[r] = "compensate" /\ pc'[r] = "failed" /\ r \notin charged'
             /\ removed' = removed
  <2>1. pc[r] = "compensate" /\ pc'[r] = "failed" /\ r \notin charged' /\ removed' = removed
    BY <1>4 DEF Compensate, ProgressInv, TypeOK, RequestsTypeOK
  <2>2. \A i \in Ids(devices) : i \in Ids(devices') \/ i = r
    BY <1>4 DEF Compensate, Ids
  <2>3. QED
    BY <2>1, <2>2
<1>5. ASSUME \/ \E k \in Keys : RevokeKey(k) \/ KeyExpires(k)
             \/ \E d \in devices : MarkRemoved(d)
             \/ Crash
             \/ UNCHANGED vars
      PROVE  devices' = devices /\ removed' = removed
  BY <1>5 DEF RevokeKey, KeyExpires, MarkRemoved, Crash, vars
<1>6. ASSUME NEW i \in removing, DeleteRow(i)
      PROVE  /\ \A j \in Ids(devices) : j \in Ids(devices') \/ j \in removed'
             /\ removed \subseteq removed'
  BY <1>6 DEF DeleteRow, Ids
<1>7. QED
  BY <1>1, <1>2, <1>3, <1>4, <1>5, <1>6 DEF Next, Register

\* What a step does to a request that is not under way: nothing.
LEMMA SettledStay ==
  ASSUME RegistrationInv, [Next]_vars, NEW q \in Requests
  PROVE  /\ pc[q] \in {"done", "failed"} => pc'[q] = pc[q] /\ seen'[q] = seen[q]
         /\ pc[q] = "failed" /\ q \notin charged => q \notin charged'
<1> USE DEF RegistrationInv, TypeOK, RequestsTypeOK, keyTable, tables, body, locals, admin,
        history, GoTo, Refuse, AddUse
<1>1. ASSUME NEW r \in Requests, Register(r)
      PROVE  /\ pc[q] \in {"done", "failed"} => pc'[q] = pc[q] /\ seen'[q] = seen[q]
             /\ pc[q] = "failed" /\ q \notin charged => q \notin charged'
  <2>1. CASE ValidateKey(r)      BY <2>1 DEF ValidateKey
  <2>2. CASE FindExisting(r)     BY <2>2 DEF FindExisting
  <2>3. CASE CreateDevice(r)     BY <2>3 DEF CreateDevice
  <2>4. CASE ReadUsage(r)        BY <2>4 DEF ReadUsage
  <2>5. CASE IncrementUsage(r)   BY <2>5 DEF IncrementUsage
  <2>6. CASE UpdateDevice(r)     BY <2>6 DEF UpdateDevice
  <2>7. CASE \E ok \in BOOLEAN : Compensate(r, ok)
    BY <2>7 DEF Compensate
  <2>8. QED
    BY <1>1, <2>1, <2>2, <2>3, <2>4, <2>5, <2>6, <2>7 DEF Register
<1>2. QED
  BY <1>1 DEF Next, RevokeKey, KeyExpires, MarkRemoved, DeleteRow, Crash, Working, vars

\* The request that is answered just now has a row.
LEMMA AnswerHasRow ==
  ASSUME RegistrationInv, OwnRowInv, [Next]_vars,
         NEW r \in Requests, pc[r] # "done", pc'[r] = "done"
  PROVE  \E i \in {r} \cup Ids(seen'[r]) : i \in Ids(devices') \cup removed'
<1> USE DEF RegistrationInv, TypeOK, RequestsTypeOK, keyTable, tables, body, locals, admin,
        history, GoTo, Refuse
<1>1. IncrementUsage(r) \/ UpdateDevice(r)
  <2>1. ASSUME NEW q \in Requests, Register(q), q # r PROVE FALSE
    <3>1. pc'[r] = pc[r]
      BY <2>1 DEF Register, ValidateKey, FindExisting, CreateDevice, ReadUsage,
                  IncrementUsage, UpdateDevice, Compensate
    <3>2. QED
      BY <3>1
  <2>2. ~ValidateKey(r) /\ ~FindExisting(r) /\ ~CreateDevice(r) /\ ~ReadUsage(r)
    BY DEF ValidateKey, FindExisting, NextSteps, CreateDevice, ReadUsage
  <2>3. ~(\E ok \in BOOLEAN : Compensate(r, ok))
    BY DEF Compensate
  <2>4. Register(r)
    BY <2>1 DEF Next, RevokeKey, KeyExpires, MarkRemoved, DeleteRow, Crash, Working, vars
  <2>5. QED
    BY <2>2, <2>3, <2>4 DEF Register
<1>2. CASE IncrementUsage(r)
  <2>1. pc[r] = "increment" /\ seen[r] = {}
    BY <1>2 DEF IncrementUsage
  <2>2. devices' = devices /\ removed' = removed /\ seen' = seen
    BY <1>2 DEF IncrementUsage
  <2>3. QED
    BY <2>1, <2>2 DEF OwnRowInv
<1>3. CASE UpdateDevice(r)
  <2> DEFINE target == {d \in devices : d.id \in Ids(seen[r])}
  <2>1. PICK d \in target : TRUE
    BY <1>3 DEF UpdateDevice
  <2>2. d.id \in Ids(seen[r]) /\ d.id \in Ids(devices)
    BY <2>1 DEF Ids
  <2>3. pc[d.id] = "compensate" => pc'[d.id] = "compensate"
    BY <1>3, <2>2 DEF UpdateDevice, Ids, TablesTypeOK, Device
  <2>4. d.id \in Ids(devices') \cup removed'
    BY <2>2, <2>3, RowsGo
  <2>5. QED
    BY <1>3, <2>2, <2>4 DEF UpdateDevice
<1>4. QED
  BY <1>1, <1>2, <1>3

\* A request on its way to its answer keeps its own row.
LEMMA OwnRowStep ==
  ASSUME RegistrationInv, OwnRowInv, [Next]_vars
  PROVE  OwnRowInv'
<1> SUFFICES ASSUME NEW r \in Requests, pc'[r] \in {"charge", "increment"}, seen'[r] = {}
             PROVE  r \in Ids(devices') \cup removed'
  BY DEF OwnRowInv
<1> USE DEF RegistrationInv, TypeOK, RequestsTypeOK, keyTable, tables, body, locals, admin,
        history, GoTo, Refuse
<1>1. CASE pc[r] \in {"charge", "increment"} /\ seen[r] = {}
  BY <1>1, RowsGo DEF OwnRowInv
<1>2. CASE pc[r] \in {"charge", "increment"} /\ seen[r] # {}
  <2>1. ASSUME NEW q \in Requests, FindExisting(q) PROVE q # r
    BY <1>2, <2>1 DEF FindExisting
  <2>2. seen'[r] = seen[r]
    BY <1>2, <2>1 DEF Next, Register, ValidateKey, FindExisting, CreateDevice, ReadUsage,
       IncrementUsage, UpdateDevice, Compensate, RevokeKey, KeyExpires, MarkRemoved,
       DeleteRow, Crash, vars
  <2>3. QED
    BY <1>2, <2>2
<1>3. CASE pc[r] \notin {"charge", "increment"}
  <2>1. FindExisting(r) \/ CreateDevice(r)
    <3>1. ASSUME NEW q \in Requests, Register(q), q # r PROVE FALSE
      <4>1. pc'[r] = pc[r]
        BY <3>1 DEF Register, ValidateKey, FindExisting, CreateDevice, ReadUsage,
                    IncrementUsage, UpdateDevice, Compensate
      <4>2. QED
        BY <1>3, <4>1
    <3>2. ~ValidateKey(r) /\ ~ReadUsage(r) /\ ~IncrementUsage(r) /\ ~UpdateDevice(r)
      BY <1>3 DEF ValidateKey, ReadUsage, IncrementUsage, UpdateDevice
    <3>3. ~(\E ok \in BOOLEAN : Compensate(r, ok))
      BY <1>3 DEF Compensate
    <3>4. Register(r)
      BY <1>3, <3>1 DEF Next, RevokeKey, KeyExpires, MarkRemoved, DeleteRow, Crash, Working, vars
    <3>5. QED
      BY <3>2, <3>3, <3>4 DEF Register
  <2>2. CASE FindExisting(r)
    <3>1. seen'[r] = {} => pc'[r] \in {"create", "failed"}
      BY <2>2 DEF FindExisting, NextSteps
    <3>2. QED
      BY <3>1
  <2>3. CASE CreateDevice(r)
    <3>1. [uuid |-> uuid[r], id |-> r, org |-> KeyOrg[key[r]], token |-> r] \in devices'
      BY <2>3 DEF CreateDevice
    <3>2. QED
      BY <3>1 DEF Ids
  <2>4. QED
    BY <2>1, <2>2, <2>3
<1>4. QED
  BY <1>1, <1>2, <1>3

\* A success has its row, until an administrator or the row's refused creator
\* takes it away.
THEOREM AnswersAreKept == Spec => []AnsweredHasRow
<1>1. Init => AnsweredHasRow /\ OwnRowInv
  BY DEF Init, AnsweredHasRow, OwnRowInv
<1>2. ASSUME RegistrationInv, AnsweredHasRow, OwnRowInv, [Next]_vars
      PROVE  AnsweredHasRow'
  <2> SUFFICES ASSUME NEW r \in Requests, pc'[r] = "done"
               PROVE  \E i \in {r} \cup Ids(seen'[r]) :
                        \/ i \in Ids(devices') \cup removed'
                        \/ i # r /\ pc'[i] = "failed" /\ i \notin charged'
    BY DEF AnsweredHasRow, Ids
  <2>1. CASE pc[r] # "done"
    BY <1>2, <2>1, AnswerHasRow
  <2>2. CASE pc[r] = "done"
    <3>1. seen'[r] = seen[r]
      BY <1>2, <2>2, SettledStay
    <3>2. PICK i \in {r} \cup Ids(seen[r]) :
                 \/ i \in Ids(devices) \cup removed
                 \/ i # r /\ pc[i] = "failed" /\ i \notin charged
      BY <1>2, <2>2 DEF AnsweredHasRow
    <3>3. i \in Requests
      BY <1>2, <3>2 DEF RegistrationInv, TypeOK, RequestsTypeOK, Ids, Device
    <3>4. CASE i \in Ids(devices) \cup removed
      BY <1>2, <2>2, <3>1, <3>3, <3>4, RowsGo, SettledStay
    <3>5. CASE i # r /\ pc[i] = "failed" /\ i \notin charged
      BY <1>2, <3>1, <3>3, <3>5, SettledStay
    <3>6. QED
      BY <3>2, <3>4, <3>5
  <2>3. QED
    BY <2>1, <2>2
<1>3. QED
  BY <1>1, <1>2, OwnRowStep, RegistrationInvariant, PTL DEF Spec

\* Revocation takes effect at once, also for requests that passed validation.
THEOREM RevocationIsFinal == Spec => RevokedKeyIsFrozen
<1>1. RegistrationInv /\ [Next]_vars =>
        [\A k \in Keys : status[k] = "REVOKED" => currentUses'[k] = currentUses[k]]_vars
  <2> SUFFICES ASSUME RegistrationInv, Next, NEW k \in Keys, status[k] = "REVOKED"
               PROVE  currentUses'[k] = currentUses[k]
    OBVIOUS
  <2>1. ASSUME NEW r \in Requests, IncrementUsage(r) PROVE currentUses'[k] = currentUses[k]
    BY <2>1 DEF IncrementUsage, AddUse, SwapApplies, RegistrationInv, TypeOK, TablesTypeOK,
                ProgressInv
  <2> QED
    BY <2>1 DEF Next, Register, ValidateKey, FindExisting, CreateDevice, ReadUsage,
                UpdateDevice, Compensate, RevokeKey, KeyExpires, MarkRemoved, DeleteRow,
                Crash, tables, keyTable
<1> QED
  BY <1>1, RegistrationInvariant, PTL DEF Spec, RevokedKeyIsFrozen

\* A row is of its creator's organisation, in the table and in every copy a
\* handler holds; a request with a key goes on only with a row of the key's.
OrgInv ==
  /\ \A d \in devices : d.org = KeyOrg[key[d.id]]
  /\ \A r \in Requests : \A x \in seen[r] :
       /\ x.org = KeyOrg[key[x.id]]
       /\ pc[r] \in {"charge", "increment", "update"} /\ key[r] # NoKey
            => x.org = KeyOrg[key[r]]

\* Where the rows after a step come from.
LEMMA RowsCome ==
  ASSUME RegistrationInv, [Next]_vars, NEW e \in devices'
  PROVE  \/ e \in devices
         \/ \E r \in Requests :
              CreateDevice(r) /\ e.id = r /\ e.org = KeyOrg[key[r]] /\ r \notin Ids(devices)
         \/ \E r \in Requests : \E d \in devices :
              /\ UpdateDevice(r) /\ d.id \in Ids(seen[r])
              /\ e.id = d.id /\ e.org = d.org /\ e.token = r
<1> USE DEF RegistrationInv, keyTable, tables
<1>1. ASSUME NEW r \in Requests, CreateDevice(r)
      PROVE  \/ e \in devices
             \/ e.id = r /\ e.org = KeyOrg[key[r]] /\ r \notin Ids(devices)
  BY <1>1 DEF CreateDevice, RowsInv
<1>2. ASSUME NEW r \in Requests, UpdateDevice(r)
      PROVE  \/ e \in devices
             \/ \E d \in devices :
                  /\ d.id \in Ids(seen[r])
                  /\ e.id = d.id /\ e.org = d.org /\ e.token = r
  <2>1. CASE e \in devices
    BY <2>1
  <2>2. CASE e \notin devices
    <3>1. PICK d \in devices : d.id \in Ids(seen[r]) /\ e = [d EXCEPT !.token = r]
      BY <1>2, <2>2 DEF UpdateDevice
    <3>2. d \in Device
      BY DEF TypeOK, TablesTypeOK
    <3> QED
      BY <3>1, <3>2 DEF Device
  <2> QED
    BY <2>1, <2>2
<1>3. ASSUME ~ \E r \in Requests : CreateDevice(r) \/ UpdateDevice(r)
      PROVE  e \in devices
  BY <1>3 DEF Next, Register, ValidateKey, FindExisting, ReadUsage, IncrementUsage,
              Compensate, RevokeKey, KeyExpires, MarkRemoved, DeleteRow, Crash, vars
<1> QED
  BY <1>1, <1>2, <1>3

\* Bodies never change; a handler copies rows only when it looks its own up.
LEMMA OrgStep ==
  ASSUME RegistrationInv, OrgInv, [Next]_vars
  PROVE  OrgInv'
<1> USE DEF RegistrationInv
<1>1. key' = key
  BY DEF Next, Register, ValidateKey, FindExisting, CreateDevice, ReadUsage, IncrementUsage,
         UpdateDevice, Compensate, RevokeKey, KeyExpires, MarkRemoved, DeleteRow, Crash,
         vars, body
<1>2. ASSUME NEW e \in devices' PROVE e.org = KeyOrg[key[e.id]]
  BY RowsCome DEF OrgInv
<1>3. ASSUME NEW q \in Requests, NEW x \in seen'[q]
      PROVE  /\ x.org = KeyOrg[key[x.id]]
             /\ pc'[q] \in {"charge", "increment", "update"} /\ key[q] # NoKey
                  => x.org = KeyOrg[key[q]]
  <2>1. CASE FindExisting(q)
    <3>1. x \in devices
      BY <2>1 DEF FindExisting, TypeOK, RequestsTypeOK
    <3>2. pc'[q] \in NextSteps(q, seen'[q])
      BY <2>1 DEF FindExisting, GoTo, TypeOK, RequestsTypeOK
    <3>3. key[q] # NoKey /\ pc'[q] # "failed" => x.org = KeyOrg[key[q]]
      BY <3>2 DEF NextSteps, SameOrg
    <3> QED
      BY <3>1, <3>3 DEF OrgInv
  <2>2. CASE ~FindExisting(q)
    <3> USE DEF TypeOK, RequestsTypeOK, GoTo, locals
    <3>1. ASSUME NEW r \in Requests, Register(r)
          PROVE  /\ seen'[q] = seen[q]
                 /\ \/ pc'[q] = pc[q]
                    \/ pc'[q] \notin {"charge", "increment", "update"}
                    \/ pc[q] \in {"charge", "increment"}
                    \/ pc[q] = "create" /\ seen[q] = {}
      <4>1. CASE r = q
        BY <2>2, <3>1, <4>1 DEF Register, ValidateKey, CreateDevice, ReadUsage,
           IncrementUsage, UpdateDevice, Compensate, Refuse, RowsInv
      <4>2. CASE r # q
        BY <3>1, <4>2 DEF Register, ValidateKey, FindExisting, CreateDevice, ReadUsage,
           IncrementUsage, UpdateDevice, Compensate, Refuse
      <4> QED
        BY <4>1, <4>2
    <3>2. ASSUME ~ \E r \in Requests : Register(r)
          PROVE  /\ seen'[q] = seen[q]
                 /\ pc'[q] = pc[q] \/ pc'[q] = "failed"
      BY <3>2 DEF Next, RevokeKey, KeyExpires, MarkRemoved, DeleteRow, Crash, vars
    <3>3. /\ x \in seen[q]
          /\ \/ pc'[q] \notin {"charge", "increment", "update"}
             \/ pc[q] \in {"charge", "increment", "update"}
      BY <3>1, <3>2
    <3> QED
      BY <3>3 DEF OrgInv
  <2> QED
    BY <2>1, <2>2
<1> QED
  BY <1>1, <1>2, <1>3 DEF OrgInv

\* A key of another organisation never renews a device's token.
THEOREM TokensStayInOrg == Spec => ForeignKeyNeverRetokens
<1>1. Init => OrgInv
  BY DEF Init, OrgInv
<1>2. RegistrationInv /\ OrgInv /\ [Next]_vars =>
        [\A d \in devices, e \in devices' :
           d.id = e.id /\ d.token # e.token =>
             /\ d.org = e.org
             /\ key[e.token] # NoKey => KeyOrg[key[e.token]] = d.org]_vars
  <2> SUFFICES ASSUME RegistrationInv, OrgInv, [Next]_vars, NEW d \in devices,
                      NEW e \in devices', d.id = e.id, d.token # e.token
               PROVE  /\ d.org = e.org
                      /\ key[e.token] # NoKey => KeyOrg[key[e.token]] = d.org
    OBVIOUS
  <2>1. e \notin devices /\ d.id \in Ids(devices)
    BY DEF RegistrationInv, TypeOK, Ids
  <2>2. PICK r \in Requests, c \in devices :
          /\ UpdateDevice(r) /\ c.id \in Ids(seen[r])
          /\ e.id = c.id /\ e.org = c.org /\ e.token = r
    BY <2>1, RowsCome
  <2>3. c = d
    BY <2>2 DEF RegistrationInv, TypeOK
  <2>4. PICK x \in seen[r] : x.id = d.id
    BY <2>2, <2>3 DEF Ids
  <2>5. x.org = d.org
    BY <2>4 DEF OrgInv
  <2>6. pc[r] = "update"
    BY <2>2 DEF UpdateDevice
  <2> QED
    BY <2>2, <2>3, <2>5, <2>6 DEF OrgInv
<1> QED
  BY <1>1, <1>2, OrgStep, RegistrationInvariant, PTL DEF Spec, ForeignKeyNeverRetokens

-----------------------------------------------------------------------------
\* A granted use is one Take of the ledger.
LEMMA GrantIsTake ==
  ASSUME RegistrationInv, NEW r \in Requests, IncrementUsage(r), SwapApplies(r)
  PROVE  Ledger!Take(key[r])
<1>1. key[r] \in Keys /\ key' = key
  BY DEF RegistrationInv, ProgressInv, IncrementUsage, body
<1>2. MaxUses[key[r]] = 0 \/ currentUses[key[r]] < MaxUses[key[r]]
  BY <1>1 DEF IncrementUsage, SwapApplies, RegistrationInv, ProgressInv
<1>3. status' = status /\ status[key[r]] = "ACTIVE"
  BY DEF IncrementUsage, SwapApplies
<1> QED
  BY <1>1, <1>2, <1>3 DEF Ledger!Take, IncrementUsage, AddUse

\* Every step is a Take, a CloseKey or no step of the ledger.
LEMMA StepLedger ==
  RegistrationInv /\ [Next]_vars =>
    [Ledger!LedgerNext]_<<{k \in Keys : status[k] = "ACTIVE"}, currentUses>>
<1> SUFFICES ASSUME RegistrationInv, [Next]_vars
             PROVE  \/ Ledger!LedgerNext
                    \/ UNCHANGED <<status, currentUses>>
  OBVIOUS
<1>1. ASSUME NEW r \in Requests, IncrementUsage(r)
      PROVE  Ledger!LedgerNext \/ UNCHANGED <<status, currentUses>>
  <2>1. CASE SwapApplies(r)
    <3>1. key[r] \in Keys
      BY <1>1 DEF RegistrationInv, ProgressInv, IncrementUsage
    <3> QED
      BY <1>1, <2>1, <3>1, GrantIsTake DEF Ledger!LedgerNext
  <2>2. CASE ~SwapApplies(r)
    BY <1>1, <2>2 DEF IncrementUsage, AddUse
  <2> QED
    BY <2>1, <2>2
<1>2. ASSUME NEW k \in Keys, RevokeKey(k) PROVE Ledger!LedgerNext
  <2>1. Ledger!CloseKey(k)
    BY <1>2 DEF Ledger!CloseKey, RevokeKey, RegistrationInv, TypeOK, TablesTypeOK
  <2> QED
    BY <2>1 DEF Ledger!LedgerNext
<1>3. CASE UNCHANGED vars
  BY <1>3 DEF vars, tables, keyTable
<1> QED
  BY <1>1, <1>2, <1>3 DEF Next, Register, ValidateKey, FindExisting, CreateDevice, ReadUsage,
     UpdateDevice, Compensate, KeyExpires, MarkRemoved, DeleteRow, Crash, tables, keyTable

\* The three-step charge of a key refines the atomic one.
THEOREM RegistrationImplementsLedger == Spec => ImplementsLedger
<1>1. Init => Ledger!LedgerInit
  BY DEF Init, Ledger!LedgerInit
<1> QED
  BY <1>1, StepLedger, RegistrationInvariant, PTL DEF Spec, ImplementsLedger, Ledger!LedgerSpec
=============================================================================
