---------------------------- MODULE RegistryProofs ----------------------------
(***************************************************************************)
(* Proofs about Registry for every set of usernames, every maximum_user_id *)
(* the class accepts and any number of sessions.                           *)
(***************************************************************************)
EXTENDS Registry, TLAPS

\* A username is held together with a USER_ID, never one without the other.
NamedIffNumbered ==
  \A s \in DOMAIN sessions : sessions[s].username = None <=> sessions[s].userId = 0

\* The inductive strengthening: uniqueness alone is not preserved, since a
\* granted name or id is new only because index, counter and heap agree with
\* the records.
IInv ==
  /\ TypeOK
  /\ IdentitiesUnique
  /\ OwnersMatchSessions
  /\ UserIdsConserved
  /\ NamedIffNumbered

-------------------------------------------------------------------------------
\* The numeric part of the type invariant, all that the id bookkeeping needs.
LEMMA IdTypes ==
  ASSUME TypeOK
  PROVE  /\ MaxUserId \in Nat
         /\ nextUserId \in Nat /\ 1 <= nextUserId /\ nextUserId <= MaxUserId + 1
         /\ freeUserIds \in [1..MaxUserId -> Nat]
  <1>1. MaxUserId \in Nat
    BY RegistryAssumption DEF RegistryAssumption
  <1>2. nextUserId \in 1..MaxUserId + 1 /\ freeUserIds \in [1..MaxUserId -> Nat]
    BY DEF TypeOK
  <1> QED
    BY <1>1, <1>2

\* The id handed out is in range and held by nobody: a returned id comes from
\* the heap, a fresh one from the counter, and neither is held (conservation).
LEMMA AllocatedIdIsLeastUnused ==
  ASSUME TypeOK, UserIdsConserved, NEW id \in 1..nextUserId, AllocateUserId(id)
  PROVE  /\ id \in 1..MaxUserId
         /\ ~InUse(id)
         /\ \A j \in 1..id - 1 : InUse(j)
  <1>1. CASE IsHeapMin(id)
    <2>1. id \in 1..MaxUserId /\ freeUserIds[id] > 0
      BY <1>1 DEF IsHeapMin, FreeIds
    <2>2. id < nextUserId /\ ~InUse(id)
      BY <2>1, IdTypes DEF UserIdsConserved
    <2>3. ASSUME NEW j \in 1..id - 1 PROVE InUse(j)
      <3>1. j \in 1..MaxUserId /\ j < nextUserId /\ ~(id <= j)
        BY <2>1, <2>2, IdTypes
      <3>2. ~(freeUserIds[j] > 0)
        BY <1>1, <3>1 DEF IsHeapMin, FreeIds
      <3> QED
        BY <3>1, <3>2, IdTypes DEF UserIdsConserved
    <2> QED
      BY <2>1, <2>2, <2>3
  <1>2. CASE FreeIds = {} /\ nextUserId <= MaxUserId /\ id = nextUserId
    <2>1. id \in 1..MaxUserId /\ ~InUse(id)
      BY <1>2, IdTypes DEF UserIdsConserved
    <2>2. ASSUME NEW j \in 1..id - 1 PROVE InUse(j)
      <3>1. j \in 1..MaxUserId /\ j < nextUserId
        BY <1>2, <2>1, IdTypes
      <3>2. ~(freeUserIds[j] > 0)
        BY <1>2, <3>1 DEF FreeIds
      <3> QED
        BY <3>1, <3>2, IdTypes DEF UserIdsConserved
    <2> QED
      BY <2>1, <2>2
  <1> QED
    BY <1>1, <1>2 DEF AllocateUserId

\* The bag and the counter after an allocation.
LEMMA AllocationBookkeeping ==
  ASSUME TypeOK, UserIdsConserved, NEW id \in 1..nextUserId, AllocateUserId(id)
  PROVE  /\ freeUserIds' \in [1..MaxUserId -> Nat]
         /\ nextUserId' \in nextUserId..MaxUserId + 1
         /\ id < nextUserId'
         /\ freeUserIds'[id] = 0
         /\ \A j \in 1..MaxUserId : j # id => freeUserIds'[j] = freeUserIds[j]
         /\ \A j \in 1..MaxUserId : j # id => (j < nextUserId' <=> j < nextUserId)
  <1>0. id \in 1..MaxUserId /\ ~InUse(id)
    BY AllocatedIdIsLeastUnused
  <1>1. CASE IsHeapMin(id) /\ freeUserIds' = [freeUserIds EXCEPT ![id] = @ - 1]
                           /\ UNCHANGED nextUserId
    <2>1. id < nextUserId /\ freeUserIds[id] = 1
      BY <1>0, <1>1, IdTypes DEF IsHeapMin, FreeIds, UserIdsConserved
    <2> QED
      BY <1>0, <1>1, <2>1, IdTypes
  <1>2. CASE /\ FreeIds = {} /\ nextUserId <= MaxUserId /\ id = nextUserId
             /\ nextUserId' = nextUserId + 1 /\ UNCHANGED freeUserIds
    <2>1. freeUserIds[id] = 0
      BY <1>0, <1>2, IdTypes DEF UserIdsConserved
    <2> QED
      BY <1>0, <1>2, <2>1, IdTypes
  <1> QED
    BY <1>1, <1>2 DEF AllocateUserId

\* The records and the index, read element by element.
LEMMA RecordTypes ==
  ASSUME TypeOK
  PROVE  /\ \A s \in DOMAIN sessions : sessions[s] \in Snapshot
         /\ \A s \in DOMAIN sessions : s \in Nat /\ s < nextSessionId
         /\ \A n \in DOMAIN owners : n \in Usernames
         /\ \A n \in DOMAIN owners : owners[n] \in 1..nextSessionId - 1
         /\ nextSessionId \in Nat /\ 1 <= nextSessionId
         /\ nextSessionId <= MaxSessions + 1 /\ MaxSessions \in Nat
  <1>1. MaxSessions \in Nat
    BY RegistryAssumption DEF RegistryAssumption
  <1> QED
    BY <1>1 DEF TypeOK

\* An answer is always well formed.
LEMMA OutcomeType ==
  ASSUME NEW call \in Calls, NEW s \in Nat, NEW n \in Usernames \cup {None},
         NEW result \in Results, Answer(call, s, n, result)
  PROVE  outcome' \in [call : Calls, session : Nat, username : Usernames \cup {None},
                       result : Results]
  BY DEF Answer

-------------------------------------------------------------------------------
LEMMA InitEstablishes == Init => IInv
  <1> SUFFICES ASSUME Init PROVE IInv
    OBVIOUS
  <1>1. DOMAIN sessions = {} /\ DOMAIN owners = {}
    BY DEF Init
  <1>2. TypeOK
    <2>1. sessions \in [DOMAIN sessions -> Snapshot] /\ owners \in [DOMAIN owners -> {}]
      BY <1>1 DEF Init
    <2>2. nextSessionId \in 1..MaxSessions + 1 /\ nextUserId \in 1..MaxUserId + 1
          /\ freeUserIds \in [1..MaxUserId -> Nat]
      BY RegistryAssumption DEF Init, RegistryAssumption
    <2>3. outcome \in [call : Calls, session : Nat, username : Usernames \cup {None},
                       result : Results]
      BY DEF Init, Calls, Results
    <2> QED
      BY <1>1, <2>1, <2>2, <2>3 DEF TypeOK
  <1>3. UserIdsConserved
    BY <1>1 DEF Init, UserIdsConserved, InUse
  <1> QED
    BY <1>1, <1>2, <1>3 DEF IInv, IdentitiesUnique, OwnersMatchSessions, NamedIffNumbered

LEMMA RegisterPreserves == IInv /\ RegisterSession => IInv'
  <1> SUFFICES ASSUME IInv, RegisterSession PROVE IInv'
    OBVIOUS
  <1> DEFINE new == nextSessionId
  <1>1. /\ new \notin DOMAIN sessions
        /\ DOMAIN sessions' = DOMAIN sessions \cup {new}
        /\ sessions'[new] = Anonymous
        /\ \A s \in DOMAIN sessions : sessions'[s] = sessions[s]
    <2>1. new \notin DOMAIN sessions
      BY RecordTypes DEF IInv
    <2> QED
      BY <2>1 DEF RegisterSession, Put
  <1>2. Anonymous.username = None /\ Anonymous.userId = 0 /\ Anonymous \in Snapshot
    BY RegistryAssumption DEF Anonymous, Snapshot, RegistryAssumption
  <1>3. UNCHANGED <<owners, nextUserId, freeUserIds>> /\ nextSessionId' = nextSessionId + 1
    BY DEF RegisterSession
  <1>4. TypeOK'
    <2>1. sessions' \in [DOMAIN sessions' -> Snapshot]
      <3>1. \A s \in DOMAIN sessions' : sessions'[s] \in Snapshot
        BY <1>1, <1>2, RecordTypes DEF IInv
      <3> QED
        BY <3>1 DEF RegisterSession, Put
    <2>2. /\ DOMAIN sessions' \subseteq 1..nextSessionId' - 1
          /\ nextSessionId' \in 1..MaxSessions + 1
          /\ owners' \in [DOMAIN owners' -> 1..nextSessionId' - 1]
          /\ DOMAIN owners' \subseteq Usernames
      <3>1. /\ DOMAIN sessions \subseteq 1..nextSessionId - 1
            /\ DOMAIN owners \subseteq Usernames
            /\ owners \in [DOMAIN owners -> 1..nextSessionId - 1]
        BY DEF IInv, TypeOK
      <3>2. nextSessionId <= MaxSessions
        BY DEF RegisterSession
      <3>3. /\ DOMAIN sessions' \subseteq 1..nextSessionId' - 1
            /\ nextSessionId' \in 1..MaxSessions + 1
        BY <1>1, <1>3, <3>1, <3>2, RecordTypes DEF IInv
      <3>4. 1..nextSessionId - 1 \subseteq 1..nextSessionId' - 1
        BY <1>3, RecordTypes DEF IInv
      <3> QED
        BY <1>3, <3>1, <3>3, <3>4
    <2>3. nextUserId' \in 1..MaxUserId + 1 /\ freeUserIds' \in [1..MaxUserId -> Nat]
      BY <1>3 DEF IInv, TypeOK
    <2>4. outcome' \in [call : Calls, session : Nat, username : Usernames \cup {None},
                        result : Results]
      BY OutcomeType, RecordTypes DEF RegisterSession, IInv, Calls, Results
    <2> QED
      BY <2>1, <2>2, <2>3, <2>4 DEF TypeOK
  <1>5. IdentitiesUnique'
    BY <1>1, <1>2 DEF IInv, IdentitiesUnique
  <1>6. OwnersMatchSessions'
    BY <1>1, <1>2, <1>3 DEF IInv, OwnersMatchSessions
  <1>7. UserIdsConserved'
    <2>1. \A i \in 1..MaxUserId : InUse(i)' <=> InUse(i)
      BY <1>1, <1>2 DEF InUse
    <2> QED
      BY <1>3, <2>1 DEF IInv, UserIdsConserved
  <1>8. NamedIffNumbered'
    BY <1>1, <1>2 DEF IInv, NamedIffNumbered
  <1> QED
    BY <1>4, <1>5, <1>6, <1>7, <1>8 DEF IInv

LEMMA GrantPreserves ==
  ASSUME NEW s \in 1..nextSessionId - 1, NEW n \in Usernames
  PROVE  IInv /\ ClaimGranted(s, n) => IInv'
  <1> SUFFICES ASSUME IInv, ClaimGranted(s, n) PROVE IInv'
    OBVIOUS
  <1>1. PICK id \in 1..nextUserId :
          /\ AllocateUserId(id)
          /\ sessions' = [sessions EXCEPT ![s] = [username |-> n, userId |-> id]]
    BY DEF ClaimGranted
  <1>2. /\ s \in DOMAIN sessions /\ sessions[s].username = None /\ n \notin DOMAIN owners
        /\ owners' = Put(owners, n, s) /\ nextSessionId' = nextSessionId
        /\ sessions[s].userId = 0 /\ n # None
    BY RegistryAssumption DEF ClaimGranted, MayClaim, IInv, NamedIffNumbered, RegistryAssumption
  <1>3. id \in 1..MaxUserId /\ ~InUse(id)
    BY <1>1, AllocatedIdIsLeastUnused DEF IInv
  <1>4. /\ DOMAIN sessions' = DOMAIN sessions
        /\ sessions'[s].username = n /\ sessions'[s].userId = id
        /\ sessions'[s] \in Snapshot
        /\ \A t \in DOMAIN sessions : t # s => sessions'[t] = sessions[t]
    BY <1>1, <1>2, <1>3 DEF Snapshot, IInv, TypeOK
  <1>5. /\ DOMAIN owners' = DOMAIN owners \cup {n} /\ owners'[n] = s
        /\ \A m \in DOMAIN owners : owners'[m] = owners[m]
    BY <1>2 DEF Put
  <1>6. TypeOK'
    <2>1. /\ sessions' \in [DOMAIN sessions' -> Snapshot]
          /\ DOMAIN sessions' \subseteq 1..nextSessionId' - 1
          /\ nextSessionId' \in 1..MaxSessions + 1
      <3>1. \A t \in DOMAIN sessions' : sessions'[t] \in Snapshot
        BY <1>4, RecordTypes DEF IInv
      <3>2. sessions' \in [DOMAIN sessions' -> Snapshot]
        BY <1>1, <1>4, <3>1
      <3> QED
        BY <1>2, <1>4, <3>2 DEF IInv, TypeOK
    <2>2. /\ owners' \in [DOMAIN owners' -> 1..nextSessionId' - 1]
          /\ DOMAIN owners' \subseteq Usernames
      <3>1. \A m \in DOMAIN owners' : m \in Usernames /\ owners'[m] \in 1..nextSessionId - 1
        BY <1>5, RecordTypes DEF IInv
      <3> QED
        BY <1>2, <3>1 DEF Put
    <2>3. nextUserId' \in 1..MaxUserId + 1 /\ freeUserIds' \in [1..MaxUserId -> Nat]
      BY <1>1, AllocationBookkeeping, IdTypes DEF IInv
    <2>4. outcome' \in [call : Calls, session : Nat, username : Usernames \cup {None},
                        result : Results]
      BY OutcomeType, RecordTypes DEF ClaimGranted, IInv, Calls, Results
    <2> QED
      BY <2>1, <2>2, <2>3, <2>4 DEF TypeOK
  <1>7. IdentitiesUnique'
    <2>1. \A t \in DOMAIN sessions : sessions[t].userId # id
      BY <1>3 DEF InUse
    <2>2. \A t \in DOMAIN sessions : sessions[t].username # n
      BY <1>2 DEF IInv, OwnersMatchSessions
    <2> QED
      BY <1>4, <2>1, <2>2 DEF IInv, IdentitiesUnique
  <1>8. OwnersMatchSessions'
    <2>1. ASSUME NEW m \in DOMAIN owners, owners[m] = s PROVE FALSE
      <3>1. sessions[s].username = m
        BY <2>1 DEF IInv, OwnersMatchSessions
      <3>2. m \in Usernames
        BY RecordTypes DEF IInv
      <3> QED
        BY <1>2, <3>1, <3>2, RegistryAssumption DEF RegistryAssumption
    <2> QED
      BY <1>2, <1>4, <1>5, <2>1 DEF IInv, OwnersMatchSessions
  <1>9. UserIdsConserved'
    <2>1. \A i \in 1..MaxUserId : InUse(i)' <=> InUse(i) \/ i = id
      BY <1>2, <1>4 DEF InUse
    <2>2. ASSUME NEW i \in 1..MaxUserId, i # id
          PROVE  /\ i < nextUserId' => \/ InUse(i)' /\ freeUserIds'[i] = 0
                                       \/ ~InUse(i)' /\ freeUserIds'[i] = 1
                 /\ i >= nextUserId' => ~InUse(i)' /\ freeUserIds'[i] = 0
      <3>1. freeUserIds'[i] = freeUserIds[i] /\ (i < nextUserId' <=> i < nextUserId)
        BY <1>1, <2>2, AllocationBookkeeping DEF IInv
      <3>2. nextUserId' \in Nat /\ nextUserId \in Nat
        BY <1>1, AllocationBookkeeping, IdTypes DEF IInv
      <3> QED
        BY <2>1, <2>2, <3>1, <3>2 DEF IInv, UserIdsConserved
    <2>3. InUse(id)' /\ freeUserIds'[id] = 0 /\ id < nextUserId' /\ nextUserId' \in Nat
      BY <1>1, <1>3, <2>1, AllocationBookkeeping, IdTypes DEF IInv
    <2> QED
      BY <1>3, <2>2, <2>3 DEF UserIdsConserved
  <1>10. NamedIffNumbered'
    BY <1>2, <1>3, <1>4 DEF IInv, NamedIffNumbered
  <1> QED
    BY <1>6, <1>7, <1>8, <1>9, <1>10 DEF IInv

LEMMA ReleasePreserves ==
  ASSUME NEW s \in 1..nextSessionId - 1
  PROVE  IInv /\ ReleaseActive(s) => IInv'
  <1> SUFFICES ASSUME IInv, ReleaseActive(s) PROVE IInv'
    OBVIOUS
  <1> DEFINE name == sessions[s].username
             id == sessions[s].userId
  <1>1. /\ s \in DOMAIN sessions /\ DOMAIN sessions' = DOMAIN sessions \ {s}
        /\ \A t \in DOMAIN sessions' : sessions'[t] = sessions[t]
        /\ sessions' \in [DOMAIN sessions' -> Snapshot]
    BY RecordTypes DEF ReleaseActive, Drop, IInv
  <1>2. /\ DOMAIN owners' = DOMAIN owners \ {name}
        /\ \A m \in DOMAIN owners' : owners'[m] = owners[m]
        /\ owners' = [m \in DOMAIN owners' |-> owners[m]]
    BY DEF ReleaseActive, Drop
  <1>3. UNCHANGED <<nextSessionId, nextUserId>>
    BY DEF ReleaseActive
  <1>4. id \in 0..MaxUserId /\ name \in Usernames \cup {None}
    BY <1>1, RecordTypes DEF IInv, Snapshot
  <1>5. /\ freeUserIds' \in [1..MaxUserId -> Nat]
        /\ \A i \in 1..MaxUserId : i # id => freeUserIds'[i] = freeUserIds[i]
        /\ id # 0 => freeUserIds'[id] = freeUserIds[id] + 1
    <2>1. CASE id = 0
      BY <2>1, IdTypes DEF ReleaseActive, IInv
    <2>2. CASE id # 0
      BY <1>4, <2>2, IdTypes DEF ReleaseActive, IInv
    <2> QED
      BY <2>1, <2>2
  <1>6. TypeOK'
    <2>1. /\ DOMAIN sessions' \subseteq 1..nextSessionId' - 1
          /\ nextSessionId' \in 1..MaxSessions + 1
          /\ DOMAIN owners' \subseteq Usernames
          /\ nextUserId' \in 1..MaxUserId + 1
      BY <1>1, <1>2, <1>3 DEF IInv, TypeOK
    <2>2. owners' \in [DOMAIN owners' -> 1..nextSessionId' - 1]
      BY <1>2, <1>3, RecordTypes DEF IInv
    <2>3. outcome' \in [call : Calls, session : Nat, username : Usernames \cup {None},
                        result : Results]
      BY OutcomeType, RecordTypes DEF ReleaseActive, IInv, Calls, Results
    <2> QED
      BY <1>1, <1>5, <2>1, <2>2, <2>3 DEF TypeOK
  <1>7. IdentitiesUnique'
    BY <1>1 DEF IInv, IdentitiesUnique
  <1>8. OwnersMatchSessions'
    <2>1. \A m \in DOMAIN owners' : owners[m] # s
      BY <1>1, <1>2 DEF IInv, OwnersMatchSessions
    <2>2. \A t \in DOMAIN sessions' :
            sessions[t].username # None => sessions[t].username # name
      BY <1>1 DEF IInv, IdentitiesUnique
    <2> QED
      BY <1>1, <1>2, <2>1, <2>2 DEF IInv, OwnersMatchSessions
  <1>9. UserIdsConserved'
    <2>1. \A i \in 1..MaxUserId : InUse(i)' <=> InUse(i) /\ i # id
      BY <1>1 DEF InUse, IInv, IdentitiesUnique
    <2>2. ASSUME NEW i \in 1..MaxUserId
          PROVE  /\ i < nextUserId' => \/ InUse(i)' /\ freeUserIds'[i] = 0
                                       \/ ~InUse(i)' /\ freeUserIds'[i] = 1
                 /\ i >= nextUserId' => ~InUse(i)' /\ freeUserIds'[i] = 0
      <3>1. CASE i # id
        BY <1>3, <1>5, <2>1, <3>1 DEF IInv, UserIdsConserved
      <3>2. CASE i = id
        <4>1. InUse(i)
          BY <1>1, <3>2 DEF InUse
        <4>2. i < nextUserId /\ freeUserIds[i] = 0
          BY <4>1, IdTypes DEF IInv, UserIdsConserved
        <4>3. ~InUse(i)' /\ freeUserIds'[i] = 1
          BY <1>5, <2>1, <3>2, <4>2
        <4> QED
          BY <1>3, <4>2, <4>3, IdTypes DEF IInv
      <3> QED
        BY <3>1, <3>2
    <2> QED
      BY <2>2 DEF UserIdsConserved
  <1>10. NamedIffNumbered'
    BY <1>1 DEF IInv, NamedIffNumbered
  <1> QED
    BY <1>6, <1>7, <1>8, <1>9, <1>10 DEF IInv

\* A call that only answers leaves every part of the invariant as it was.
LEMMA AnswerPreserves ==
  ASSUME IInv,
         UNCHANGED <<sessions, owners, nextSessionId, nextUserId, freeUserIds>>,
         NEW call \in Calls, NEW s \in Nat, NEW n \in Usernames \cup {None},
         NEW result \in Results, Answer(call, s, n, result)
  PROVE  IInv'
  <1>1. TypeOK'
    BY OutcomeType DEF IInv, TypeOK
  <1> QED
    BY <1>1 DEF IInv, IdentitiesUnique, OwnersMatchSessions, UserIdsConserved,
                NamedIffNumbered, InUse

LEMMA NextPreserves == IInv /\ [Next]_registryVars => IInv'
  <1> SUFFICES ASSUME IInv, [Next]_registryVars PROVE IInv'
    OBVIOUS
  <1>1. CASE RegisterSession
    BY <1>1, RegisterPreserves
  <1>2. ASSUME NEW s \in 1..nextSessionId - 1, NEW n \in Usernames, ClaimUsername(s, n)
        PROVE  IInv'
    <2>1. CASE ClaimGranted(s, n)
      BY <2>1, GrantPreserves
    <2>2. ASSUME NEW result \in {"unknown", "current", "already", "in_use", "capacity"},
                 ClaimAnswered(s, n, result)
          PROVE  IInv'
      <3>1. s \in Nat /\ result \in Results /\ "claim" \in Calls
        BY RecordTypes DEF IInv, Results, Calls
      <3> QED
        BY <2>2, <3>1, AnswerPreserves DEF ClaimAnswered
    <2> QED
      BY <1>2, <2>1, <2>2 DEF ClaimUsername
  <1>3. ASSUME NEW s \in 1..nextSessionId - 1, ReleaseSession(s)
        PROVE  IInv'
    <2>1. CASE ReleaseActive(s)
      BY <2>1, ReleasePreserves
    <2>2. CASE ReleaseAbsent(s)
      <3>1. s \in Nat /\ "absent" \in Results /\ "release" \in Calls
        BY RecordTypes DEF IInv, Results, Calls
      <3> QED
        BY <2>2, <3>1, AnswerPreserves DEF ReleaseAbsent
    <2> QED
      BY <1>3, <2>1, <2>2 DEF ReleaseSession
  <1>4. CASE UNCHANGED registryVars
    BY <1>4 DEF registryVars, IInv, TypeOK, IdentitiesUnique, OwnersMatchSessions,
                UserIdsConserved, NamedIffNumbered, InUse
  <1> QED
    BY <1>1, <1>2, <1>3, <1>4 DEF Next

\* The inductive invariant holds in every reachable state of the registry.
LEMMA Inductive == Spec => []IInv
  BY InitEstablishes, NextPreserves, PTL DEF Spec

-------------------------------------------------------------------------------
\* Records, index, counter and heap keep their types: in particular the counter
\* stops at maximum_user_id + 1 and no id above the maximum is ever held.
THEOREM TypeCorrect == Spec => []TypeOK
  BY Inductive, PTL DEF IInv

\* No two active sessions ever share a username or a USER_ID.
THEOREM IdentitiesAlwaysUnique == Spec => []IdentitiesUnique
  BY Inductive, PTL DEF IInv

\* The username index never disagrees with the session records.
THEOREM OwnersAlwaysMatch == Spec => []OwnersMatchSessions
  BY Inductive, PTL DEF IInv

\* Every USER_ID ever issued is held by one session or waits once in the heap.
THEOREM UserIdsAlwaysConserved == Spec => []UserIdsConserved
  BY Inductive, PTL DEF IInv

\* Only a granted claim gives a surviving session another USER_ID, and then the
\* least one nobody holds, although two structures take part in the choice.
THEOREM LeastIdAlwaysGranted == Spec => LeastIdGranted
  <1> DEFINE Least == \A s \in DOMAIN sessions \cap DOMAIN sessions' :
                        sessions'[s].userId # sessions[s].userId =>
                          /\ ~InUse(sessions'[s].userId)
                          /\ \A j \in 1..sessions'[s].userId - 1 : InUse(j)
  <1>1. IInv /\ [Next]_registryVars => [Least]_registryVars
    <2> SUFFICES ASSUME IInv, Next PROVE Least
      OBVIOUS
    <2>1. CASE RegisterSession
      BY <2>1, RecordTypes DEF RegisterSession, Put, IInv
    <2>2. ASSUME NEW s \in 1..nextSessionId - 1, NEW n \in Usernames, ClaimUsername(s, n)
          PROVE  Least
      <3>1. CASE ClaimGranted(s, n)
        <4>1. PICK id \in 1..nextUserId :
                /\ AllocateUserId(id)
                /\ sessions' = [sessions EXCEPT ![s] = [username |-> n, userId |-> id]]
          BY <3>1 DEF ClaimGranted
        <4>2. ~InUse(id) /\ \A j \in 1..id - 1 : InUse(j)
          BY <4>1, AllocatedIdIsLeastUnused DEF IInv
        <4>3. s \in DOMAIN sessions
          BY <3>1 DEF ClaimGranted, MayClaim
        <4>4. \A t \in DOMAIN sessions :
                sessions'[t].userId = sessions[t].userId \/ sessions'[t].userId = id
          BY <4>1, <4>3
        <4> QED
          BY <4>2, <4>4
      <3>2. CASE UNCHANGED sessions
        BY <3>2
      <3> QED
        BY <2>2, <3>1, <3>2 DEF ClaimUsername, ClaimAnswered
    <2>3. ASSUME NEW s \in 1..nextSessionId - 1, ReleaseSession(s)
          PROVE  Least
      BY <2>3 DEF ReleaseSession, ReleaseActive, ReleaseAbsent, Drop
    <2> QED
      BY <2>1, <2>2, <2>3 DEF Next
  <1> QED
    BY <1>1, Inductive, PTL DEF Spec, LeastIdGranted

-------------------------------------------------------------------------------
(* The registry implements the abstract identities.                        *)

\* While the heap is empty and the counter is exhausted every id is held, and
\* an id that can be allocated is an id the abstract registry may choose.
LEMMA CapacityMeansFull ==
  ASSUME IInv, ~CanAllocate
  PROVE  Promise!Unused = {}
  <1>1. ASSUME NEW i \in 1..MaxUserId PROVE InUse(i)
    <2>1. freeUserIds[i] \in Nat /\ ~(freeUserIds[i] > 0) /\ i < nextUserId
      BY IdTypes DEF CanAllocate, FreeIds, IInv
    <2> QED
      BY <2>1 DEF IInv, UserIdsConserved
  <1> QED
    BY <1>1 DEF Promise!Unused, InUse

\* The index answers "is this username held" as the records do.
LEMMA IndexMeansTaken ==
  ASSUME IInv, NEW n \in Usernames
  PROVE  n \in DOMAIN owners <=> Promise!Taken(n)
  BY RegistryAssumption DEF IInv, OwnersMatchSessions, Promise!Taken, RegistryAssumption

\* A session that may claim is anonymous: it has no USER_ID either.
LEMMA MayClaimMeansAnonymous ==
  ASSUME IInv, NEW s, MayClaim(s)
  PROVE  s \in DOMAIN sessions /\ sessions[s] = Promise!Anonymous
  <1>1. sessions[s] \in Snapshot /\ sessions[s].username = None /\ sessions[s].userId = 0
    BY RecordTypes DEF MayClaim, IInv, NamedIffNumbered
  <1> QED
    BY <1>1 DEF MayClaim, Snapshot, Promise!Anonymous

\* Every call is answered as the abstract identities allow: names are refused
\* exactly while held, capacity is reported exactly while all ids are held.
THEOREM RegistryImplementsIdentities == Spec => ImplementsIdentities
  <1>1. Init => Promise!Init
    BY DEF Init, Promise!Init, Anonymous, Promise!Anonymous
  <1>2. IInv /\ [Next]_registryVars => [Promise!Next]_(Promise!vars)
    <2> SUFFICES ASSUME IInv, [Next]_registryVars
                 PROVE  Promise!Next \/ UNCHANGED Promise!vars
      OBVIOUS
    <2> USE DEF Answer, Promise!Answer
    <2>1. CASE RegisterSession
      <3>1. /\ nextSessionId - 1 < MaxSessions
            /\ nextSessionId - 1 + 1 = nextSessionId
            /\ nextSessionId' - 1 = nextSessionId - 1 + 1
        BY <2>1, RecordTypes DEF RegisterSession, IInv
      <3>2. sessions' = [s \in DOMAIN sessions \cup {nextSessionId - 1 + 1} |->
                           IF s = nextSessionId - 1 + 1 THEN Promise!Anonymous
                           ELSE sessions[s]]
        BY <2>1, <3>1 DEF RegisterSession, Put, Anonymous, Promise!Anonymous
      <3>3. Promise!Answer("register", nextSessionId - 1 + 1, None, "registered")
        BY <2>1, <3>1 DEF RegisterSession
      <3>4. Promise!Connect
        BY <3>1, <3>2, <3>3 DEF Promise!Connect
      <3> QED
        BY <3>4 DEF Promise!Next
    <2>2. ASSUME NEW s \in 1..nextSessionId - 1, NEW n \in Usernames, ClaimUsername(s, n)
          PROVE  Promise!Next
      <3>1. CASE ClaimGranted(s, n)
        <4>1. PICK id \in 1..nextUserId :
                /\ AllocateUserId(id)
                /\ sessions' = [sessions EXCEPT ![s] = [username |-> n, userId |-> id]]
          BY <3>1 DEF ClaimGranted
        <4>2. id \in Promise!Unused
          BY <4>1, AllocatedIdIsLeastUnused DEF IInv, Promise!Unused, InUse
        <4>3. s \in DOMAIN sessions /\ sessions[s] = Promise!Anonymous /\ ~Promise!Taken(n)
          BY <3>1, MayClaimMeansAnonymous, IndexMeansTaken DEF ClaimGranted
        <4>4. Promise!Grant(s, n)
          BY <3>1, <4>1, <4>2, <4>3 DEF ClaimGranted, Promise!Grant
        <4> QED
          BY <4>4 DEF Promise!Next
      <3>2. ASSUME NEW result \in {"unknown", "current", "already", "in_use", "capacity"},
                   ClaimAnswered(s, n, result)
            PROVE  Promise!Next
        <4>1. MayClaim(s) => s \in DOMAIN sessions /\ sessions[s] = Promise!Anonymous
          BY MayClaimMeansAnonymous
        <4>2. (n \in DOMAIN owners <=> Promise!Taken(n)) /\ (~CanAllocate => Promise!Unused = {})
          BY IndexMeansTaken, CapacityMeansFull
        <4>3. Promise!Refuse(s, n, result)
          BY <3>2, <4>1, <4>2 DEF ClaimAnswered, Promise!Refuse
        <4> QED
          BY <3>2, <4>3 DEF Promise!Next, Promise!Refusals
      <3> QED
        BY <2>2, <3>1, <3>2 DEF ClaimUsername
    <2>3. ASSUME NEW s \in 1..nextSessionId - 1, ReleaseSession(s)
          PROVE  Promise!Next
      <3>1. Promise!Leave(s) \/ Promise!LeaveAgain(s)
        BY <2>3 DEF ReleaseSession, ReleaseActive, ReleaseAbsent, Drop,
                    Promise!Leave, Promise!LeaveAgain
      <3> QED
        BY <3>1 DEF Promise!Next
    <2>4. CASE UNCHANGED registryVars
      BY <2>4 DEF registryVars, Promise!vars
    <2> QED
      BY <2>1, <2>2, <2>3, <2>4 DEF Next
  <1> QED
    BY <1>1, <1>2, Inductive, PTL DEF Spec, ImplementsIdentities, Promise!Spec
===============================================================================
