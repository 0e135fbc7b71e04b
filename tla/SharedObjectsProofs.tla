--------------------------- MODULE SharedObjectsProofs ---------------------------
(***************************************************************************)
(* Proofs about the objects that the threads of one process share: the     *)
(* filename locks of the server, the token bucket of a throttled session,  *)
(* and the queues and the sessions between the two threads of the desktop  *)
(* client.  The three have no variable in common: their proofs stand next  *)
(* to each other.                                                          *)
(***************************************************************************)
EXTENDS FilenameLocks, TokenBucket, DesktopUi, FiniteSetTheorems, TLAPS

--------------------------------------------------------------------------------
(* The filename locks, for every finite set of threads and every set of keys.   *)

\* Outside hold() a thread has no key and no entry; inside it has both.
LocalState ==
  \A t \in Threads :
    /\ pc[t] = "outside" => key[t] = None /\ entry[t] = None
    /\ pc[t] # "outside" => key[t] \in Keys /\ entry[t] \in Entries

\* Two keys never share an entry object.
EntriesInjective ==
  \A k, l \in DOMAIN entries : entries[k] = entries[l] => k = l

\* A thread in the body owns the lock of its entry.
HolderOwns == \A t \in Threads : pc[t] = "holding" => owner[entry[t]] = t

\* Mutual exclusion needs that threads with one key share one entry, which
\* needs that an entry is dropped only after its last user, which needs that
\* the reference count is exact.
IInv ==
  /\ TypeOK
  /\ LocalState
  /\ UsersShareTheListedEntry
  /\ SnapshotExact
  /\ EntriesInjective
  /\ HolderOwns
  /\ ReferencesExact

LEMMA UsersFinite ==
  ASSUME NEW k
  PROVE  IsFiniteSet(Users(k)) /\ Cardinality(Users(k)) \in Nat
  <1>1. IsFiniteSet(Threads)
    BY LocksAssumption DEF LocksAssumption
  <1>2. Users(k) \subseteq Threads
    BY DEF Users
  <1> QED
    BY <1>1, <1>2, FS_Subset, FS_CardinalityType

LEMMA NoneIsNobody == None \notin Threads /\ None \notin Keys /\ None \notin Entries
  BY LocksAssumption DEF LocksAssumption

LEMMA InitEstablishes == Init => IInv
  <1> SUFFICES ASSUME Init PROVE IInv
    OBVIOUS
  <1>1. DOMAIN entries = {} /\ \A t \in Threads : key[t] = None /\ entry[t] = None
    BY DEF Init
  <1>2. TypeOK
    BY <1>1 DEF Init, TypeOK
  <1>3. \A k \in Keys : Users(k) = {}
    BY <1>1, NoneIsNobody DEF Users
  <1>4. LocalState /\ HolderOwns
    BY DEF Init, LocalState, HolderOwns
  <1> QED
    BY <1>1, <1>2, <1>3, <1>4 DEF IInv, UsersShareTheListedEntry, SnapshotExact,
         EntriesInjective, ReferencesExact

\* The three steps between the guarded sections move a thread on and touch the
\* lock only: who uses which key, and the registry itself, stay as they are.
LEMMA MovePreserves ==
  ASSUME IInv, NEW t \in Threads, pc[t] # "outside",
         NEW next \in {"holding", "leaving"},
         pc' = [pc EXCEPT ![t] = next],
         owner' \in [Entries -> Threads \cup {None}],
         HolderOwns',
         UNCHANGED <<entries, references, key, entry>>
  PROVE  IInv'
  <1>1. \A k : Users(k)' = Users(k)
    BY DEF Users
  <1>2. TypeOK'
    BY DEF IInv, TypeOK
  <1>3. LocalState'
    BY <1>2 DEF IInv, LocalState, TypeOK
  <1>4. UsersShareTheListedEntry' /\ SnapshotExact' /\ EntriesInjective' /\ ReferencesExact'
    BY <1>1 DEF IInv, UsersShareTheListedEntry, SnapshotExact, EntriesInjective,
                ReferencesExact
  <1> QED
    BY <1>2, <1>3, <1>4 DEF IInv

LEMMA AcquirePreserves ==
  ASSUME IInv, NEW t \in Threads, Acquire(t)
  PROVE  IInv'
  <1>1. entry[t] \in Entries /\ pc[t] # "outside"
    BY DEF Acquire, IInv, LocalState
  <1>2. owner' \in [Entries -> Threads \cup {None}]
    BY <1>1 DEF Acquire, IInv, TypeOK
  <1>3. ASSUME NEW u \in Threads, pc'[u] = "holding" PROVE owner'[entry'[u]] = u
    <2>1. CASE u = t
      BY <1>1, <2>1 DEF Acquire, IInv, TypeOK
    <2>2. CASE u # t
      <3>1. pc[u] = "holding" /\ owner[entry[u]] = u
        BY <1>3, <2>2 DEF Acquire, IInv, TypeOK, HolderOwns
      <3>2. entry[u] # entry[t]
        BY <3>1, NoneIsNobody DEF Acquire
      <3> QED
        BY <3>1, <3>2 DEF Acquire, IInv, TypeOK
    <2> QED
      BY <2>1, <2>2
  <1> QED
    BY <1>1, <1>2, <1>3, MovePreserves DEF Acquire, HolderOwns

LEMMA ReleasePreserves ==
  ASSUME IInv, NEW t \in Threads, Release(t)
  PROVE  IInv'
  <1>1. entry[t] \in Entries /\ pc[t] # "outside" /\ owner[entry[t]] = t
    BY DEF Release, IInv, LocalState, HolderOwns
  <1>2. owner' \in [Entries -> Threads \cup {None}]
    BY DEF Release, IInv, TypeOK
  <1>3. ASSUME NEW u \in Threads, pc'[u] = "holding" PROVE owner'[entry'[u]] = u
    <2>1. u # t /\ pc[u] = "holding" /\ owner[entry[u]] = u
      BY <1>3 DEF Release, IInv, TypeOK, HolderOwns
    <2>2. entry[u] # entry[t]
      BY <1>1, <2>1
    <2> QED
      BY <2>1, <2>2 DEF Release, IInv, TypeOK
  <1> QED
    BY <1>1, <1>2, <1>3, MovePreserves DEF Release, HolderOwns

LEMMA AcquireFailsPreserves ==
  ASSUME IInv, NEW t \in Threads, AcquireFails(t)
  PROVE  IInv'
  <1>1. HolderOwns'
    BY DEF AcquireFails, IInv, TypeOK, HolderOwns
  <1> QED
    BY <1>1, MovePreserves DEF AcquireFails, IInv, TypeOK

\* A thread that enters becomes one more user of its key, and only of that key.
LEMMA EnteringAddsUser ==
  ASSUME IInv, NEW t \in Threads, NEW k \in Keys, pc[t] = "outside",
         key' = [key EXCEPT ![t] = k]
  PROVE  /\ t \notin Users(k) /\ Users(k)' = Users(k) \cup {t}
         /\ \A l \in Keys \ {k} : Users(l)' = Users(l)
  <1>1. key[t] = None /\ k # None
    BY NoneIsNobody DEF IInv, LocalState
  <1>2. \A u \in Threads : key'[u] = IF u = t THEN k ELSE key[u]
    BY DEF IInv, TypeOK
  <1>3. \A l \in Keys \ {k} : Users(l)' = Users(l)
    BY <1>1, <1>2, NoneIsNobody DEF Users
  <1> QED
    BY <1>1, <1>2, <1>3 DEF Users

LEMMA FindPreserves ==
  ASSUME IInv, NEW t \in Threads, NEW k \in Keys, Find(t, k)
  PROVE  IInv'
  <1> DEFINE e == entries[k]
  <1>1. /\ k \in DOMAIN entries /\ e \in Entries /\ pc[t] = "outside"
        /\ key' = [key EXCEPT ![t] = k] /\ entry' = [entry EXCEPT ![t] = e]
        /\ pc' = [pc EXCEPT ![t] = "waiting"]
        /\ references' = [references EXCEPT ![e] = @ + 1]
        /\ UNCHANGED <<entries, owner>>
    BY DEF Find, IInv, TypeOK
  <1>2. /\ t \notin Users(k) /\ Users(k)' = Users(k) \cup {t}
        /\ \A l \in Keys \ {k} : Users(l)' = Users(l)
    BY <1>1, EnteringAddsUser
  <1>3. TypeOK'
    BY <1>1 DEF IInv, TypeOK
  <1>4. LocalState'
    BY <1>1 DEF IInv, TypeOK, LocalState
  <1>5. HolderOwns'
    BY <1>1 DEF IInv, TypeOK, HolderOwns
  <1>6. UsersShareTheListedEntry'
    <2>1. \A u \in Threads : u # t => entry'[u] = entry[u]
      BY <1>1 DEF IInv, TypeOK
    <2>2. entry'[t] = e
      BY <1>1 DEF IInv, TypeOK
    <2>3. ASSUME NEW l \in Keys, NEW u \in Users(l)'
          PROVE  l \in DOMAIN entries' /\ entries'[l] = entry'[u]
      <3>1. u \in Threads
        BY DEF Users
      <3>2. CASE l = k /\ u = t
        BY <1>1, <2>2, <3>2
      <3>3. CASE ~(l = k /\ u = t)
        <4>1. u # t /\ u \in Users(l)
          BY <1>1, <1>2, <3>3 DEF Users, IInv, TypeOK
        <4> QED
          BY <1>1, <2>1, <3>1, <4>1 DEF IInv, UsersShareTheListedEntry
      <3> QED
        BY <3>2, <3>3
    <2> QED
      BY <2>3 DEF UsersShareTheListedEntry
  <1>7. SnapshotExact'
    BY <1>1, <1>2 DEF IInv, SnapshotExact
  <1>8. EntriesInjective'
    BY <1>1 DEF IInv, EntriesInjective
  <1>9. ReferencesExact'
    <2>1. Cardinality(Users(k)') = Cardinality(Users(k)) + 1
      BY <1>2, UsersFinite, FS_AddElement
    <2>2. ASSUME NEW l \in DOMAIN entries'
          PROVE  references'[entries'[l]] = Cardinality(Users(l)')
      <3>1. CASE l = k
        BY <1>1, <2>1, <3>1 DEF IInv, TypeOK, ReferencesExact
      <3>2. CASE l # k
        <4>1. l \in Keys /\ l \in DOMAIN entries /\ entries[l] \in Entries /\ entries[l] # e
          BY <1>1, <3>2 DEF IInv, TypeOK, EntriesInjective
        <4>2. references'[entries[l]] = references[entries[l]] /\ Users(l)' = Users(l)
          BY <1>1, <1>2, <3>2, <4>1 DEF IInv, TypeOK
        <4> QED
          BY <1>1, <4>1, <4>2 DEF IInv, ReferencesExact
      <3> QED
        BY <3>1, <3>2
    <2> QED
      BY <2>2 DEF ReferencesExact
  <1> QED
    BY <1>3, <1>4, <1>5, <1>6, <1>7, <1>8, <1>9 DEF IInv

LEMMA CreatePreserves ==
  ASSUME IInv, NEW t \in Threads, NEW k \in Keys, Create(t, k)
  PROVE  IInv'
  <1>1. PICK e \in Unreachable :
          /\ entries' = [x \in DOMAIN entries \cup {k} |-> IF x = k THEN e ELSE entries[x]]
          /\ references' = [references EXCEPT ![e] = 1]
          /\ owner' = [owner EXCEPT ![e] = None]
          /\ entry' = [entry EXCEPT ![t] = e]
    BY DEF Create
  <1>2. /\ k \notin DOMAIN entries /\ pc[t] = "outside"
        /\ key' = [key EXCEPT ![t] = k] /\ pc' = [pc EXCEPT ![t] = "waiting"]
    BY DEF Create
  <1>3. /\ e \in Entries
        /\ \A l \in DOMAIN entries : entries[l] # e
        /\ \A u \in Threads : entry[u] # e
    BY DEF Unreachable
  <1>4. /\ t \notin Users(k) /\ Users(k)' = Users(k) \cup {t}
        /\ \A l \in Keys \ {k} : Users(l)' = Users(l)
    BY <1>2, EnteringAddsUser
  <1>5. Users(k) = {}
    BY <1>2 DEF IInv, SnapshotExact
  <1>6. /\ DOMAIN entries' = DOMAIN entries \cup {k} /\ entries'[k] = e
        /\ \A l \in DOMAIN entries : entries'[l] = entries[l]
    BY <1>1, <1>2
  <1>7. TypeOK'
    <2>1. entries' \in [DOMAIN entries' -> Entries] /\ DOMAIN entries' \subseteq Keys
      BY <1>1, <1>3 DEF IInv, TypeOK
    <2> QED
      BY <1>1, <1>2, <1>3, <2>1 DEF IInv, TypeOK
  <1>8. LocalState'
    BY <1>1, <1>2, <1>3 DEF IInv, TypeOK, LocalState
  <1>9. HolderOwns'
    <2> SUFFICES ASSUME NEW u \in Threads, pc'[u] = "holding" PROVE owner'[entry'[u]] = u
      BY DEF HolderOwns
    <2>1. u # t /\ pc[u] = "holding" /\ entry'[u] = entry[u]
      BY <1>1, <1>2 DEF IInv, TypeOK
    <2> QED
      BY <1>1, <1>3, <2>1 DEF IInv, TypeOK, HolderOwns, LocalState
  <1>10. UsersShareTheListedEntry'
    <2>1. entry'[t] = e /\ \A u \in Threads : u # t => entry'[u] = entry[u]
      BY <1>1 DEF IInv, TypeOK
    <2>2. ASSUME NEW l \in Keys, NEW u \in Users(l)'
          PROVE  l \in DOMAIN entries' /\ entries'[l] = entry'[u]
      <3>1. CASE l = k
        BY <1>4, <1>5, <1>6, <2>1, <3>1
      <3>2. CASE l # k
        <4>1. u \in Users(l) /\ u \in Threads /\ u # t
          BY <1>4, <3>2, <1>2, NoneIsNobody DEF Users, IInv, TypeOK, LocalState
        <4> QED
          BY <1>6, <2>1, <4>1 DEF IInv, UsersShareTheListedEntry
      <3> QED
        BY <3>1, <3>2
    <2> QED
      BY <2>2 DEF UsersShareTheListedEntry
  <1>11. SnapshotExact'
    BY <1>4, <1>6 DEF IInv, SnapshotExact
  <1>12. EntriesInjective'
    BY <1>3, <1>6 DEF IInv, EntriesInjective
  <1>13. ReferencesExact'
    <2>0. Users(k)' = {t}
      BY <1>4, <1>5
    <2>1. Cardinality(Users(k)') = 1
      BY <2>0, FS_Singleton
    <2>2. references'[e] = 1 /\ \A l \in DOMAIN entries :
                                  references'[entries[l]] = references[entries[l]]
      BY <1>1, <1>3 DEF IInv, TypeOK
    <2>3. \A l \in DOMAIN entries : l \in Keys \ {k}
      BY <1>2 DEF IInv, TypeOK
    <2> QED
      BY <1>4, <1>6, <2>1, <2>2, <2>3 DEF IInv, ReferencesExact
  <1> QED
    BY <1>7, <1>8, <1>9, <1>10, <1>11, <1>12, <1>13 DEF IInv

LEMMA ForgetPreserves ==
  ASSUME IInv, NEW t \in Threads, Forget(t)
  PROVE  IInv'
  <1>0. PICK k \in Keys : key[t] = k
    BY DEF Forget, IInv, LocalState
  <1> DEFINE e == entry[t]
  <1>1. /\ pc[t] = "leaving" /\ k \in Keys /\ e \in Entries /\ t \in Users(k)
        /\ k \in DOMAIN entries /\ entries[k] = e
    BY <1>0 DEF Forget, IInv, LocalState, Users, UsersShareTheListedEntry
  <1>2. /\ references' = [references EXCEPT ![e] = @ - 1]
        /\ pc' = [pc EXCEPT ![t] = "outside"]
        /\ key' = [key EXCEPT ![t] = None] /\ entry' = [entry EXCEPT ![t] = None]
        /\ UNCHANGED owner
    BY DEF Forget
  <1>3. Users(k)' = Users(k) \ {t} /\ \A l \in Keys \ {k} : Users(l)' = Users(l)
    <2>1. \A u \in Threads : key'[u] = IF u = t THEN None ELSE key[u]
      BY <1>2 DEF IInv, TypeOK
    <2> QED
      BY <1>0, <1>1, <2>1, NoneIsNobody DEF Users
  <1>4. /\ references[e] = Cardinality(Users(k)) /\ references[e] \in Nat
        /\ references[e] >= 1
        /\ Cardinality(Users(k)') = references[e] - 1
        /\ Users(k)' = {} <=> references[e] = 1
    <2>1. references[e] = Cardinality(Users(k)) /\ references[e] \in Nat
      BY <1>1, UsersFinite DEF IInv, ReferencesExact
    <2>2. /\ Cardinality(Users(k) \ {t}) = Cardinality(Users(k)) - 1
          /\ IsFiniteSet(Users(k) \ {t})
      BY <1>1, UsersFinite, FS_RemoveElement
    <2>3. Cardinality(Users(k) \ {t}) = 0 <=> Users(k) \ {t} = {}
      BY <2>2, FS_EmptySet
    <2>4. Cardinality(Users(k) \ {t}) \in Nat
      BY <2>2, FS_CardinalityType
    <2> QED
      BY <1>3, <2>1, <2>2, <2>3, <2>4
  <1>5. /\ DOMAIN entries' = {l \in DOMAIN entries : l # k \/ Users(k)' # {}}
        /\ \A l \in DOMAIN entries' : entries'[l] = entries[l]
        /\ entries' \in [DOMAIN entries' -> Entries]
    <2>1. CASE references[e] = 1
      BY <1>0, <1>4, <2>1 DEF Forget, IInv, TypeOK
    <2>2. CASE references[e] # 1
      BY <1>0, <1>4, <2>2 DEF Forget, IInv, TypeOK
    <2> QED
      BY <2>1, <2>2
  <1>6. TypeOK'
    <2>1. references' \in [Entries -> Nat]
      BY <1>1, <1>2, <1>4 DEF IInv, TypeOK
    <2> QED
      BY <1>2, <1>5, <2>1 DEF IInv, TypeOK
  <1>7. LocalState'
    BY <1>2 DEF IInv, TypeOK, LocalState
  <1>8. HolderOwns'
    BY <1>2 DEF IInv, TypeOK, HolderOwns
  <1>9. UsersShareTheListedEntry'
    <2>1. ASSUME NEW l \in Keys, NEW u \in Users(l)'
          PROVE  l \in DOMAIN entries' /\ entries'[l] = entry'[u]
      <3>1. u \in Users(l) /\ u \in Threads /\ u # t
        <4>1. u \in Users(l) /\ u \in Threads
          BY <1>3 DEF Users
        <4>2. key'[u] = l
          BY DEF Users
        <4> QED
          BY <1>2, <4>1, <4>2, NoneIsNobody DEF IInv, TypeOK
      <3>2. l \in DOMAIN entries /\ entries[l] = entry[u] /\ entry'[u] = entry[u]
        BY <1>2, <3>1 DEF IInv, TypeOK, UsersShareTheListedEntry
      <3> QED
        BY <1>5, <3>2
    <2> QED
      BY <2>1 DEF UsersShareTheListedEntry
  <1>10. SnapshotExact'
    <2>1. \A l \in Keys : l \in DOMAIN entries <=> Users(l) # {}
      BY DEF IInv, SnapshotExact
    <2>2. DOMAIN entries' \subseteq Keys
      BY <1>6 DEF TypeOK
    <2>3. \A l \in Keys : l \in DOMAIN entries' <=> Users(l)' # {}
      BY <1>1, <1>3, <1>5, <2>1
    <2> QED
      BY <2>2, <2>3 DEF SnapshotExact
  <1>11. EntriesInjective'
    BY <1>5 DEF IInv, EntriesInjective
  <1>12. ReferencesExact'
    <2>1. ASSUME NEW l \in DOMAIN entries'
          PROVE  references'[entries'[l]] = Cardinality(Users(l)')
      <3>1. l \in DOMAIN entries /\ l \in Keys /\ entries'[l] = entries[l]
        BY <1>5 DEF IInv, TypeOK
      <3>2. CASE l = k
        BY <1>1, <1>2, <1>4, <3>1, <3>2 DEF IInv, TypeOK
      <3>3. CASE l # k
        <4>1. entries[l] # e /\ entries[l] \in Entries
          BY <1>1, <3>1, <3>3 DEF IInv, TypeOK, EntriesInjective
        <4> QED
          BY <1>2, <1>3, <3>1, <3>3, <4>1 DEF IInv, TypeOK, ReferencesExact
      <3> QED
        BY <3>2, <3>3
    <2> QED
      BY <2>1 DEF ReferencesExact
  <1> QED
    BY <1>6, <1>7, <1>8, <1>9, <1>10, <1>11, <1>12 DEF IInv

LEMMA NextPreserves == IInv /\ [Next]_lockVars => IInv'
  <1> SUFFICES ASSUME IInv, [Next]_lockVars PROVE IInv'
    OBVIOUS
  <1>1. ASSUME NEW t \in Threads, Step(t) PROVE IInv'
    BY <1>1, AcquirePreserves, AcquireFailsPreserves, ReleasePreserves, ForgetPreserves
       DEF Step
  <1>2. ASSUME NEW t \in Threads, NEW k \in Keys, FindOrCreate(t, k) PROVE IInv'
    BY <1>2, FindPreserves, CreatePreserves DEF FindOrCreate
  <1>3. CASE UNCHANGED lockVars
    <2>1. \A k : Users(k)' = Users(k)
      BY <1>3 DEF lockVars, Users
    <2> QED
      BY <1>3, <2>1 DEF lockVars, IInv, TypeOK, LocalState, UsersShareTheListedEntry,
           SnapshotExact, EntriesInjective, HolderOwns, ReferencesExact
  <1> QED
    BY <1>1, <1>2, <1>3 DEF Next

LEMMA Inductive == Spec => []IInv
  BY InitEstablishes, NextPreserves, PTL DEF Spec

\* Two holders of one key would share its entry, and its lock has one owner.
LEMMA Exclusion == IInv => MutualExclusion
  <1> SUFFICES ASSUME IInv, NEW t \in Threads, NEW u \in Threads, t # u,
                      pc[t] = "holding", pc[u] = "holding", key[t] = key[u]
               PROVE  FALSE
    BY DEF MutualExclusion
  <1>1. key[t] \in Keys /\ t \in Users(key[t]) /\ u \in Users(key[t])
    BY DEF IInv, LocalState, Users
  <1>2. entry[t] = entry[u]
    BY <1>1 DEF IInv, UsersShareTheListedEntry
  <1> QED
    BY <1>2 DEF IInv, HolderOwns

-------------------------------------------------------------------------------
\* Registry, entries and threads keep their types; no reference count underflows.
THEOREM LocksTypeCorrect == Spec => []TypeOK
  BY Inductive, PTL DEF IInv

\* No two threads are ever inside the body with one filename.
THEOREM AlwaysExclusive == Spec => []MutualExclusion
  BY Inductive, Exclusion, PTL

\* Nobody ever waits on or holds a lock the registry does not list.
THEOREM UsersAlwaysShare == Spec => []UsersShareTheListedEntry
  BY Inductive, PTL DEF IInv

\* The registry lists exactly the keys in use, with exact reference counts.
THEOREM SnapshotAlwaysExact == Spec => [](SnapshotExact /\ ReferencesExact)
  BY Inductive, PTL DEF IInv

\* Entering the body is entering a free mutex, leaving it is leaving the mutex,
\* and nothing else about hold() is visible.
THEOREM LocksImplementMutex == Spec => ImplementsKeyedMutex
  <1> DEFINE holders == {u \in Threads : pc[u] = "holding"}
             pairs == {<<t, key[t]>> : t \in holders}
  <1>1. Init => Mutex!Init
    BY DEF Init, Mutex!Init
  <1>2. IInv /\ [Next]_lockVars => [Mutex!Next]_pairs
    <2> SUFFICES ASSUME IInv, [Next]_lockVars PROVE Mutex!Next \/ pairs' = pairs
      OBVIOUS
    <2>1. ASSUME NEW t \in Threads, Acquire(t) PROVE Mutex!Next
      <3>1. key[t] \in Keys /\ pc[t] = "waiting"
        BY <2>1 DEF Acquire, IInv, LocalState
      <3>2. pairs' = pairs \cup {<<t, key[t]>>}
        BY <2>1 DEF Acquire, IInv, TypeOK
      <3>3. \A p \in pairs : p[1] # t /\ p[2] # key[t]
        <4>1. IInv'
          BY <2>1, AcquirePreserves
        <4>2. MutualExclusion'
          BY <4>1, Exclusion, PTL
        <4> QED
          BY <2>1, <3>1, <4>2 DEF Acquire, IInv, TypeOK, MutualExclusion
      <3> QED
        BY <3>1, <3>2, <3>3 DEF Mutex!Next, Mutex!Enter
    <2>2. ASSUME NEW t \in Threads, Release(t) PROVE Mutex!Next
      <3>1. key[t] \in Keys /\ pc[t] = "holding"
        BY <2>2 DEF Release, IInv, LocalState
      <3>2. pairs' = pairs \ {<<t, key[t]>>}
        BY <2>2 DEF Release, IInv, TypeOK
      <3> QED
        BY <3>1, <3>2 DEF Mutex!Next, Mutex!Leave
    <2>3. ASSUME NEW t \in Threads, AcquireFails(t) \/ Forget(t) PROVE pairs' = pairs
      BY <2>3 DEF AcquireFails, Forget, IInv, TypeOK
    <2>4. ASSUME NEW t \in Threads, NEW k \in Keys, FindOrCreate(t, k) PROVE pairs' = pairs
      BY <2>4 DEF FindOrCreate, Find, Create, IInv, TypeOK
    <2>5. CASE UNCHANGED lockVars
      BY <2>5 DEF lockVars
    <2> QED
      BY <2>1, <2>2, <2>3, <2>4, <2>5 DEF Next, Step
  <1> QED
    BY <1>1, <1>2, Inductive, PTL DEF Spec, ImplementsKeyedMutex, Mutex!Spec

--------------------------------------------------------------------------------
(* The token bucket, for every burst, any amounts, any number of callers and    *)
(* any length of time.                                                          *)

\* What has been admitted together with what could be admitted at once.  Admission
\* turns the one into the other; only time adds to it.
Reach == total + Available

\* RateKept, strengthened: even a caller that takes all there is keeps the rate.
ReachKeepsRate == Reach - mark.total <= Burst + (now - mark.time)

\* How much of the present sleep of thread t has passed, up to its nominal length.
Slept(t) == Lesser(nap[t], now - (wake[t] - nap[t]))

\* WaitsRepaid, for each place in consume().  After a sleep the repayment may still
\* be in the bucket, where the next step takes it; during one, the bucket or the
\* others gain as much as has been slept, because a sleep never outlasts the filling
\* of the bucket.
CallRepaid(t) ==
  /\ place[t] = "idle" => waited[t] <= total - begun[t]
  /\ place[t] = "taking" => /\ waited[t] <= total + remaining[t] - begun[t]
                         /\ waited[t] <= Reach - begun[t]
  /\ place[t] = "sleeping" => /\ waited[t] <= total - begun[t]
                           /\ nap[t] <= remaining[t] /\ nap[t] <= wake[t]
                           /\ wake[t] - nap[t] <= now
                           /\ waited[t] + Slept(t) <= Reach - begun[t]

BucketInv ==
  /\ BucketTypeOK
  /\ ReachKeepsRate
  /\ \A t \in Callers : CallRepaid(t)

LEMMA AvailableType ==
  ASSUME BucketTypeOK
  PROVE  Available \in 0..Burst /\ Reach \in Nat /\ total <= Reach
  <1>1. Available \in 0..Burst
    BY BucketAssumption DEF BucketAssumption, BucketTypeOK, Available, Lesser
  <1> QED
    BY <1>1, BucketAssumption DEF BucketAssumption, BucketTypeOK, Reach

\* Taking n tokens moves them from the bucket to the total.
LEMMA DrawSpends ==
  ASSUME BucketTypeOK, now' = now, NEW n \in Nat, n <= Available, Draw(n)
  PROVE  /\ tokens' \in 0..Burst /\ lastRefill' \in 0..now'
         /\ total' = total + n /\ total' \in Nat
         /\ Reach' = Reach
  <1>1. /\ tokens' = Available - n /\ lastRefill' = now /\ total' = total + n
        /\ now \in Nat /\ total \in Nat
    BY DEF Draw, BucketTypeOK
  <1>2. Available - n \in 0..Burst /\ Available \in Int
    BY AvailableType, BucketAssumption DEF BucketAssumption
  <1>3. Available' = Available - n
    BY <1>1, <1>2, BucketAssumption DEF BucketAssumption, Available, Lesser
  <1> QED
    BY <1>1, <1>2, <1>3 DEF Reach

\* Time adds one token, except to a full bucket.
LEMMA TickRefills ==
  ASSUME BucketTypeOK, Tick
  PROVE  Reach' = Reach + 1 \/ (Available = Burst /\ Reach' = Reach)
  <1>1. /\ now' = now + 1 /\ tokens' = tokens /\ lastRefill' = lastRefill /\ total' = total
        /\ now \in Nat /\ tokens \in 0..Burst /\ lastRefill \in 0..now /\ total \in Nat
    BY DEF Tick, BucketTypeOK
  <1>2. Available' = Available + 1 \/ (Available = Burst /\ Available' = Available)
    BY <1>1, BucketAssumption DEF BucketAssumption, Available, Lesser
  <1> QED
    BY <1>1, <1>2, AvailableType, BucketAssumption DEF BucketAssumption, Reach

LEMMA BucketInitEstablishes == BucketInit => BucketInv
  <1> SUFFICES ASSUME BucketInit PROVE BucketInv
    OBVIOUS
  <1>1. BucketTypeOK
    BY BucketAssumption DEF BucketAssumption, BucketInit, BucketTypeOK
  <1>2. ReachKeepsRate
    BY <1>1, AvailableType, BucketAssumption
       DEF BucketAssumption, ReachKeepsRate, Reach, BucketInit
  <1>3. \A t \in Callers : CallRepaid(t)
    <2> SUFFICES ASSUME NEW t \in Callers PROVE CallRepaid(t)
      OBVIOUS
    <2>1. place[t] = "idle" /\ waited[t] = 0 /\ begun[t] = 0 /\ total = 0
      BY DEF BucketInit
    <2> QED
      BY <2>1 DEF CallRepaid
  <1> QED
    BY <1>1, <1>2, <1>3 DEF BucketInv

\* A thread that a step does not touch keeps CallRepaid when time stands still and
\* neither total nor Reach decreases.
LEMMA OthersUnmoved ==
  ASSUME BucketInv, NEW t \in Callers,
         now' = now, total' \in Nat, total <= total', Reach' = Reach,
         place'[t] = place[t], remaining'[t] = remaining[t], waited'[t] = waited[t],
         nap'[t] = nap[t], wake'[t] = wake[t], begun'[t] = begun[t]
  PROVE  CallRepaid(t)'
  <1>1. Slept(t)' = Slept(t)
    BY DEF Slept
  <1>2. /\ remaining[t] \in Nat /\ waited[t] \in Nat /\ begun[t] \in Nat /\ total \in Nat
        /\ CallRepaid(t)
    BY DEF BucketInv, BucketTypeOK
  <1> QED
    BY <1>1, <1>2 DEF CallRepaid

\* Steps that draw n tokens at one moment and leave the calls alone.
LEMMA DrawPreserves ==
  ASSUME BucketInv, NEW n \in Nat, n <= Available, Draw(n),
         UNCHANGED <<now, totalWait, callVars, mark>>
  PROVE  BucketInv'
  <1>1. BucketTypeOK /\ now' = now /\ mark' = mark
    BY DEF BucketInv
  <1>2. /\ tokens' \in 0..Burst /\ lastRefill' \in 0..now' /\ total' \in Nat
        /\ total' = total + n /\ Reach' = Reach
    BY <1>1, DrawSpends
  <1>3. BucketTypeOK'
    BY <1>1, <1>2 DEF BucketTypeOK, callVars
  <1>4. ReachKeepsRate'
    BY <1>1, <1>2 DEF BucketInv, ReachKeepsRate
  <1>5. total <= total'
    BY <1>1, <1>2 DEF BucketTypeOK
  <1>6. ASSUME NEW t \in Callers PROVE CallRepaid(t)'
    BY <1>1, <1>2, <1>5, OthersUnmoved DEF callVars
  <1> QED
    BY <1>3, <1>4, <1>6 DEF BucketInv

LEMMA BeginPreserves ==
  ASSUME BucketInv, NEW t \in Callers, NEW n \in Amounts, Begin(t, n)
  PROVE  BucketInv'
  <1>1. /\ BucketTypeOK /\ now' = now /\ mark' = mark /\ total' = total /\ n \in Nat
        /\ tokens' = tokens /\ lastRefill' = lastRefill
    BY BucketAssumption DEF BucketAssumption, BucketInv, Begin
  <1>2. Reach' = Reach /\ Reach \in Nat /\ total <= Reach
    BY <1>1, AvailableType DEF Reach, Available
  <1>3. BucketTypeOK'
    BY <1>1 DEF BucketTypeOK, Begin
  <1>4. ReachKeepsRate'
    BY <1>1, <1>2 DEF BucketInv, ReachKeepsRate
  <1>5. CallRepaid(t)'
    <2>1. /\ waited'[t] = 0 /\ begun'[t] = total /\ remaining'[t] = n
          /\ place'[t] \in {"taking", "idle"}
      BY <1>1 DEF Begin, BucketTypeOK
    <2> QED
      BY <1>1, <1>2, <2>1 DEF CallRepaid, BucketTypeOK
  <1>6. ASSUME NEW s \in Callers, s # t PROVE CallRepaid(s)'
    <2>1. /\ place'[s] = place[s] /\ remaining'[s] = remaining[s] /\ waited'[s] = waited[s]
          /\ nap'[s] = nap[s] /\ wake'[s] = wake[s] /\ begun'[s] = begun[s]
      BY <1>1, <1>6 DEF Begin, BucketTypeOK
    <2> QED
      BY <1>1, <1>2, <1>6, <2>1, OthersUnmoved DEF BucketTypeOK
  <1> QED
    BY <1>3, <1>4, <1>5, <1>6 DEF BucketInv

LEMMA TakeAllPreserves ==
  ASSUME BucketInv, NEW t \in Callers, TakeAll(t)
  PROVE  BucketInv'
  <1>1. /\ BucketTypeOK /\ now' = now /\ mark' = mark /\ remaining[t] \in Nat
        /\ Draw(remaining[t]) /\ remaining[t] <= Available
    BY DEF BucketInv, BucketTypeOK, TakeAll
  <1>2. /\ tokens' \in 0..Burst /\ lastRefill' \in 0..now' /\ total' \in Nat
        /\ total' = total + remaining[t] /\ Reach' = Reach
    BY <1>1, DrawSpends
  <1>3. BucketTypeOK'
    BY <1>1, <1>2 DEF BucketTypeOK, TakeAll
  <1>4. ReachKeepsRate'
    BY <1>1, <1>2 DEF BucketInv, ReachKeepsRate
  <1>5. CallRepaid(t)'
    <2>1. waited[t] <= total + remaining[t] - begun[t]
      BY DEF BucketInv, CallRepaid, TakeAll
    <2>3. waited[t] \in Nat /\ begun[t] \in Nat /\ total \in Nat
      BY <1>1 DEF BucketTypeOK
    <2>2. place'[t] = "idle" /\ waited'[t] = waited[t] /\ begun'[t] = begun[t]
      BY <1>1 DEF TakeAll, BucketTypeOK
    <2> QED
      BY <1>1, <1>2, <2>1, <2>2, <2>3 DEF CallRepaid
  <1>6. total <= total'
    BY <1>1, <1>2 DEF BucketTypeOK
  <1>7. ASSUME NEW s \in Callers, s # t PROVE CallRepaid(s)'
    <2>1. /\ place'[s] = place[s] /\ remaining'[s] = remaining[s] /\ waited'[s] = waited[s]
          /\ nap'[s] = nap[s] /\ wake'[s] = wake[s] /\ begun'[s] = begun[s]
      BY <1>1, <1>7 DEF TakeAll, BucketTypeOK
    <2> QED
      BY <1>1, <1>2, <1>6, <2>1, OthersUnmoved
  <1> QED
    BY <1>3, <1>4, <1>5, <1>7 DEF BucketInv

LEMMA TakeSomePreserves ==
  ASSUME BucketInv, NEW t \in Callers, TakeSome(t)
  PROVE  BucketInv'
  <1> DEFINE missing == remaining[t] - Available
  <1>1. /\ BucketTypeOK /\ now' = now /\ mark' = mark /\ remaining[t] \in Nat
        /\ Draw(Available) /\ Available < remaining[t]
        /\ Available \in Nat /\ missing \in Nat /\ missing > 0 /\ now \in Nat
    BY AvailableType, BucketAssumption DEF BucketAssumption, BucketInv, BucketTypeOK, TakeSome
  <1>2. /\ tokens' \in 0..Burst /\ lastRefill' \in 0..now' /\ total' \in Nat
        /\ total' = total + Available /\ Reach' = Reach
    BY <1>1, DrawSpends
  <1>3. NapFor(missing) \in 0..Burst /\ NapFor(missing) <= missing
    BY <1>1, BucketAssumption DEF BucketAssumption, NapFor, Lesser
  <1>4. /\ place' = [place EXCEPT ![t] = "sleeping"]
        /\ remaining' = [remaining EXCEPT ![t] = missing]
        /\ nap' = [nap EXCEPT ![t] = NapFor(missing)]
        /\ wake' = [wake EXCEPT ![t] = now + NapFor(missing)]
        /\ waited' = waited /\ begun' = begun /\ totalWait' = totalWait
    BY DEF TakeSome
  <1> HIDE DEF missing
  <1>5. BucketTypeOK'
    BY <1>1, <1>2, <1>3, <1>4, BucketAssumption DEF BucketAssumption, BucketTypeOK
  <1>6. ReachKeepsRate'
    BY <1>1, <1>2 DEF BucketInv, ReachKeepsRate
  <1>7. CallRepaid(t)'
    <2>1. waited[t] <= (total + Available) - begun[t]
      <3>1. place[t] = "taking" /\ CallRepaid(t)
        BY DEF BucketInv, TakeSome
      <3> QED
        BY <3>1 DEF CallRepaid, Reach
    <2>2. /\ place'[t] = "sleeping" /\ waited'[t] = waited[t] /\ begun'[t] = begun[t]
          /\ remaining'[t] = missing /\ nap'[t] = NapFor(missing)
          /\ wake'[t] = now + NapFor(missing)
      BY <1>1, <1>4 DEF BucketTypeOK
    <2>3. wake'[t] - nap'[t] = now /\ Slept(t)' <= 0 /\ Slept(t)' \in Int
      BY <1>1, <1>3, <2>2, BucketAssumption DEF BucketAssumption, Slept, Lesser
    <2>4. Reach' = total' /\ Reach' \in Nat
      BY <1>2 DEF Reach
    <2>5. waited[t] \in Nat /\ begun[t] \in Nat /\ total \in Nat
      BY <1>1 DEF BucketTypeOK
    <2> QED
      BY <1>1, <1>2, <1>3, <2>1, <2>2, <2>3, <2>4, <2>5 DEF CallRepaid
  <1>8. total <= total'
    BY <1>1, <1>2 DEF BucketTypeOK
  <1>9. ASSUME NEW s \in Callers, s # t PROVE CallRepaid(s)'
    <2>1. /\ place'[s] = place[s] /\ remaining'[s] = remaining[s] /\ waited'[s] = waited[s]
          /\ nap'[s] = nap[s] /\ wake'[s] = wake[s] /\ begun'[s] = begun[s]
      BY <1>1, <1>4, <1>9 DEF BucketTypeOK
    <2> QED
      BY <1>1, <1>2, <1>8, <2>1, OthersUnmoved
  <1> QED
    BY <1>5, <1>6, <1>7, <1>9 DEF BucketInv

LEMMA WakeUpPreserves ==
  ASSUME BucketInv, NEW t \in Callers, WakeUp(t)
  PROVE  BucketInv'
  <1>1. /\ BucketTypeOK /\ now' = now /\ mark' = mark /\ total' = total
        /\ tokens' = tokens /\ lastRefill' = lastRefill
        /\ waited[t] \in Nat /\ nap[t] \in 0..Burst /\ wake[t] \in Nat /\ now \in Nat
        /\ remaining[t] \in Nat /\ begun[t] \in Nat /\ total \in Nat
    BY DEF BucketInv, BucketTypeOK, WakeUp
  <1>2. Reach' = Reach /\ Reach \in Nat
    BY <1>1, AvailableType DEF Reach, Available
  <1>3. BucketTypeOK'
    BY <1>1, BucketAssumption DEF BucketAssumption, BucketTypeOK, WakeUp
  <1>4. ReachKeepsRate'
    BY <1>1, <1>2 DEF BucketInv, ReachKeepsRate
  <1>5. CallRepaid(t)'
    <2>1. Slept(t) = nap[t]
      BY <1>1, BucketAssumption DEF BucketAssumption, WakeUp, Slept, Lesser
    <2>2. /\ waited[t] <= total - begun[t] /\ nap[t] <= remaining[t]
          /\ waited[t] + nap[t] <= Reach - begun[t]
      BY <2>1 DEF BucketInv, CallRepaid, WakeUp
    <2>3. /\ place'[t] = "taking" /\ waited'[t] = waited[t] + nap[t]
          /\ begun'[t] = begun[t] /\ remaining'[t] = remaining[t]
      BY <1>1 DEF WakeUp, BucketTypeOK
    <2> QED
      BY <1>1, <1>2, <2>2, <2>3, BucketAssumption DEF BucketAssumption, CallRepaid
  <1>6. ASSUME NEW s \in Callers, s # t PROVE CallRepaid(s)'
    <2>1. /\ place'[s] = place[s] /\ remaining'[s] = remaining[s] /\ waited'[s] = waited[s]
          /\ nap'[s] = nap[s] /\ wake'[s] = wake[s] /\ begun'[s] = begun[s]
      BY <1>1, <1>6 DEF WakeUp, BucketTypeOK
    <2> QED
      BY <1>1, <1>2, <1>6, <2>1, OthersUnmoved
  <1> QED
    BY <1>3, <1>4, <1>5, <1>6 DEF BucketInv

LEMMA TickPreserves ==
  ASSUME BucketInv, Tick
  PROVE  BucketInv'
  <1>1. /\ BucketTypeOK /\ now' = now + 1 /\ now \in Nat /\ mark' = mark /\ total' = total
        /\ total \in Nat /\ mark.time \in Nat /\ mark.total \in Nat
        /\ tokens' = tokens /\ lastRefill' = lastRefill /\ UNCHANGED callVars
    BY DEF BucketInv, BucketTypeOK, Tick
  <1>2. Reach' = Reach + 1 \/ (Reach' = Reach /\ Reach = total + Burst)
    BY <1>1, TickRefills DEF Reach
  <1>3. BucketTypeOK'
    BY <1>1 DEF BucketTypeOK, Tick, callVars
  <1>4. Reach \in Nat /\ Reach' \in Nat /\ Reach <= Reach'
    BY <1>1, <1>2, AvailableType
  <1>5. ReachKeepsRate'
    BY <1>1, <1>2, <1>4, BucketAssumption DEF BucketAssumption, BucketInv, ReachKeepsRate
  <1>6. ASSUME NEW t \in Callers PROVE CallRepaid(t)'
    <2>1. /\ place'[t] = place[t] /\ remaining'[t] = remaining[t] /\ waited'[t] = waited[t]
          /\ nap'[t] = nap[t] /\ wake'[t] = wake[t] /\ begun'[t] = begun[t]
          /\ waited[t] \in Nat /\ begun[t] \in Nat /\ remaining[t] \in Nat
          /\ nap[t] \in 0..Burst /\ wake[t] \in Nat
      BY <1>1 DEF callVars, BucketTypeOK
    <2>2. CASE place[t] # "sleeping"
      BY <1>1, <1>4, <2>1, <2>2 DEF BucketInv, CallRepaid, BucketTypeOK
    <2>3. CASE place[t] = "sleeping"
      <3>1. /\ waited[t] <= total - begun[t] /\ nap[t] <= remaining[t]
            /\ nap[t] <= wake[t] /\ wake[t] - nap[t] <= now
            /\ waited[t] + Slept(t) <= Reach - begun[t]
        BY <2>3 DEF BucketInv, CallRepaid
      <3>2. /\ Slept(t) \in Int /\ Slept(t)' \in Int /\ Slept(t)' <= Slept(t) + 1
            /\ Slept(t)' <= nap[t]
        BY <1>1, <2>1, BucketAssumption DEF BucketAssumption, Slept, Lesser
      <3>3. waited[t] + Slept(t)' <= Reach' - begun[t]
        <4>1. CASE Reach' = Reach + 1
          BY <1>4, <2>1, <3>1, <3>2, <4>1
        <4>2. CASE Reach' = total + Burst
          BY <1>1, <1>4, <2>1, <3>1, <3>2, <4>2, BucketAssumption DEF BucketAssumption
        <4> QED
          BY <1>2, <4>1, <4>2
      <3> QED
        BY <1>1, <2>1, <2>3, <3>1, <3>3, BucketAssumption DEF BucketAssumption, CallRepaid
    <2> QED
      BY <2>2, <2>3
  <1> QED
    BY <1>3, <1>5, <1>6 DEF BucketInv

LEMMA ObservePreserves ==
  ASSUME BucketInv, Observe
  PROVE  BucketInv'
  <1>1. /\ BucketTypeOK /\ now' = now /\ total' = total /\ UNCHANGED callVars
        /\ mark' = [time |-> now, total |-> total] /\ now \in Nat /\ total \in Nat
        /\ tokens' = tokens /\ lastRefill' = lastRefill
    BY DEF BucketInv, BucketTypeOK, Observe
  <1>2. Reach' = Reach /\ Available \in 0..Burst
    BY <1>1, AvailableType DEF Reach, Available
  <1>3. BucketTypeOK'
    BY <1>1 DEF BucketTypeOK, Observe, callVars
  <1>4. ReachKeepsRate'
    BY <1>1, <1>2, BucketAssumption DEF BucketAssumption, ReachKeepsRate, Reach
  <1>5. ASSUME NEW t \in Callers PROVE CallRepaid(t)'
    BY <1>1, <1>2, OthersUnmoved DEF callVars
  <1> QED
    BY <1>3, <1>4, <1>5 DEF BucketInv

LEMMA StutterPreserves ==
  ASSUME BucketInv, UNCHANGED bucketVars
  PROVE  BucketInv'
  BY DEF BucketInv, bucketVars, callVars, BucketTypeOK, ReachKeepsRate, Reach, Available,
         CallRepaid, Slept

LEMMA BucketStepPreserves == BucketInv /\ [BucketNext]_bucketVars => BucketInv'
  <1> SUFFICES ASSUME BucketInv, [BucketNext]_bucketVars PROVE BucketInv'
    OBVIOUS
  <1>1. ASSUME NEW t \in Callers, NEW n \in Amounts, Begin(t, n) PROVE BucketInv'
    BY <1>1, BeginPreserves
  <1>2. ASSUME NEW t \in Callers, TakeAll(t) PROVE BucketInv'
    BY <1>2, TakeAllPreserves
  <1>3. ASSUME NEW t \in Callers, TakeSome(t) PROVE BucketInv'
    BY <1>3, TakeSomePreserves
  <1>4. ASSUME NEW t \in Callers, WakeUp(t) PROVE BucketInv'
    BY <1>4, WakeUpPreserves
  <1>5. ASSUME NEW n \in Amounts, TryConsume(n) PROVE BucketInv'
    BY <1>5, DrawPreserves, BucketAssumption DEF BucketAssumption, TryConsume
  <1>6. CASE Refill
    <2>1. 0 <= Available
      BY AvailableType, BucketAssumption DEF BucketAssumption, BucketInv
    <2> QED
      BY <1>6, <2>1, DrawPreserves DEF Refill
  <1>7. CASE Tick
    BY <1>7, TickPreserves
  <1>8. CASE Observe
    BY <1>8, ObservePreserves
  <1>9. CASE UNCHANGED bucketVars
    BY <1>9, StutterPreserves
  <1> QED
    BY <1>1, <1>2, <1>3, <1>4, <1>5, <1>6, <1>7, <1>8, <1>9 DEF BucketNext

LEMMA BucketInductive == BucketSpec => []BucketInv
  BY BucketInitEstablishes, BucketStepPreserves, PTL DEF BucketSpec

\* The bucket never holds less than nothing or more than a burst, and the clock of
\* the last refill never runs ahead (throttling.py:121-130).
THEOREM BucketTypeCorrect == BucketSpec => []BucketTypeOK
  <1>1. BucketInv => BucketTypeOK
    BY DEF BucketInv
  <1> QED
    BY <1>1, BucketInductive, PTL

\* In every interval, however many callers interleave, at most one burst and what
\* the rate allows is admitted (throttling.py:68-102).
THEOREM RateAlwaysKept == BucketSpec => []RateKept
  <1>1. BucketInv => RateKept
    <2> SUFFICES ASSUME BucketInv PROVE RateKept
      OBVIOUS
    <2>1. /\ total <= Reach /\ Reach \in Nat /\ total \in Nat
          /\ mark.time \in Nat /\ mark.total \in Nat /\ now \in Nat
      BY AvailableType DEF BucketInv, BucketTypeOK
    <2> QED
      BY <2>1, BucketAssumption DEF BucketAssumption, BucketInv, ReachKeepsRate, RateKept
  <1> QED
    BY <1>1, BucketInductive, PTL

\* Every sleep of consume() is repaid in admitted bytes, so a call for n bytes sleeps
\* for at most n and what others are admitted meanwhile (throttling.py:82-87).
THEOREM WaitsAlwaysRepaid == BucketSpec => []WaitsRepaid
  <1>1. BucketInv => WaitsRepaid
    BY DEF BucketInv, BucketTypeOK, CallRepaid, WaitsRepaid
  <1> QED
    BY <1>1, BucketInductive, PTL

--------------------------------------------------------------------------------
(* The desktop client, however often the user connects.                         *)

\* The work that a blocked window waits for: a file task behind the flag that blocks
\* file operations, a transfer behind the one on display, and behind disabled
\* connection buttons a transfer, or a connect or disconnect of the session in the
\* window.  The last needs the session: a connect that fails takes the window's away.
WorkBehind ==
  /\ pending => Outstanding \cap FileTasks # {}
  /\ active # Nothing => Outstanding \cap Transfers # {}
  /\ buttons = "busy" =>
       \/ Outstanding \cap Transfers # {}
       \/ api # Nothing /\ Outstanding \cap {"connect", "disconnect"} # {}

WindowInv == TypesOK /\ (~closing => WorkBehind)

Names(s) == {s[i].name : i \in DOMAIN s}
UiEvent == [kind : {"completed", "failed"}, name : TaskNames]

LEMMA OutstandingNames ==
  Outstanding = Names(tasks) \cup Names(events)
                  \cup (IF running = Nothing THEN {} ELSE {running.name})
  BY DEF Outstanding, Names

LEMMA NamesOfAppend ==
  ASSUME NEW S, NEW s \in Seq(S), NEW x \in S
  PROVE  Names(Append(s, x)) = Names(s) \cup {x.name}
  <1>1. /\ DOMAIN Append(s, x) = DOMAIN s \cup {Len(s) + 1}
        /\ Append(s, x)[Len(s) + 1] = x
        /\ \A i \in DOMAIN s : Append(s, x)[i] = s[i]
    OBVIOUS
  <1> QED
    BY <1>1, Zenon DEF Names

LEMMA NamesOfTail ==
  ASSUME NEW S, NEW s \in Seq(S), s # <<>>
  PROVE  /\ Tail(s) \in Seq(S) /\ Head(s) \in S
         /\ Names(s) = {Head(s).name} \cup Names(Tail(s))
  <1>1. /\ Tail(s) \in Seq(S) /\ Head(s) \in S /\ s[1] = Head(s)
        /\ 1 \in DOMAIN s /\ DOMAIN s = 1..Len(s) /\ Len(s) \in Nat
        /\ DOMAIN Tail(s) = 1..Len(s) - 1
        /\ \A i \in DOMAIN Tail(s) : Tail(s)[i] = s[i + 1]
    OBVIOUS
  <1>2. ASSUME NEW n \in Names(s) PROVE n \in {Head(s).name} \cup Names(Tail(s))
    <2>1. PICK i \in DOMAIN s : n = s[i].name
      BY <1>2 DEF Names
    <2>2. CASE i = 1
      BY <1>1, <2>1, <2>2
    <2>3. CASE i # 1
      <3>1. i - 1 \in DOMAIN Tail(s) /\ Tail(s)[i - 1] = s[i]
        BY <1>1, <2>3
      <3> QED
        BY <2>1, <3>1 DEF Names
    <2> QED
      BY <2>2, <2>3
  <1>3. ASSUME NEW i \in DOMAIN Tail(s) PROVE Tail(s)[i].name \in Names(s)
    <2>1. i + 1 \in DOMAIN s /\ Tail(s)[i] = s[i + 1]
      BY <1>1
    <2> QED
      BY <2>1 DEF Names
  <1>4. Head(s).name \in Names(s)
    BY <1>1 DEF Names
  <1>5. Names(Tail(s)) \subseteq Names(s)
    BY <1>3 DEF Names
  <1> QED
    BY <1>1, <1>2, <1>4, <1>5

\* A task that is submitted is outstanding from then on.
LEMMA Submitting ==
  ASSUME TypesOK, NEW n \in TaskNames, NEW a \in Apis \cup {Nothing}, Submit(n, a),
         UNCHANGED <<running, events>>
  PROVE  tasks' \in Seq(Task) /\ Outstanding' = Outstanding \cup {n}
  <1> DEFINE x == [name |-> n, api |-> a]
  <1>1. x \in Task /\ x.name = n /\ tasks \in Seq(Task) /\ tasks' = Append(tasks, x)
    BY DEF Task, TypesOK, Submit
  <1> HIDE DEF x
  <1>2. Names(tasks') = Names(tasks) \cup {n}
    BY <1>1, NamesOfAppend
  <1>3. Outstanding' = Names(tasks') \cup Names(events')
                         \cup (IF running' = Nothing THEN {} ELSE {running'.name})
    BY DEF Outstanding, Names
  <1>4. tasks' \in Seq(Task)
    BY <1>1
  <1>5. running' = running /\ events' = events
    OBVIOUS
  <1> QED
    BY <1>2, <1>3, <1>4, <1>5, OutstandingNames

\* What leaves the queue is running, and stays outstanding.
LEMMA Taking ==
  ASSUME TypesOK, Take
  PROVE  /\ tasks' \in Seq(Task) /\ running' \in Task
         /\ Outstanding' = Outstanding
  <1>1. /\ tasks \in Seq(Task) /\ tasks # <<>> /\ running = Nothing
        /\ tasks' = Tail(tasks) /\ running' = Head(tasks) /\ events' = events
    BY DEF TypesOK, Take, views, window
  <1>2. /\ tasks' \in Seq(Task) /\ running' \in Task
        /\ Names(tasks) = {running'.name} \cup Names(tasks')
    BY <1>1, NamesOfTail
  <1>3. running' # Nothing
    BY <1>2, UiAssumption DEF UiAssumption
  <1>4. Outstanding' = Names(tasks') \cup Names(events')
                         \cup (IF running' = Nothing THEN {} ELSE {running'.name})
    BY DEF Outstanding, Names
  <1> QED
    BY <1>1, <1>2, <1>3, <1>4, OutstandingNames

\* The outcome of what runs is still to be learnt by the window.
LEMMA Reporting ==
  ASSUME TypesOK, NEW kind \in {"completed", "failed"}, running # Nothing, Report(kind)
  PROVE  events' \in Seq(UiEvent) /\ Outstanding' = Outstanding
  <1> DEFINE x == [kind |-> kind, name |-> running.name]
  <1>1. /\ x \in UiEvent /\ x.name = running.name /\ events \in Seq(UiEvent)
        /\ events' = Append(events, x)
    BY DEF UiEvent, Task, TypesOK, Report
  <1> HIDE DEF x
  <1>2. Names(events') = Names(events) \cup {running.name}
    BY <1>1, NamesOfAppend
  <1>3. Outstanding' = Names(tasks') \cup Names(events')
                         \cup (IF running' = Nothing THEN {} ELSE {running'.name})
    BY DEF Outstanding, Names
  <1>4. tasks' = tasks /\ running' = Nothing
    BY DEF Report
  <1>5. events' \in Seq(UiEvent)
    BY <1>1
  <1> QED
    BY <1>2, <1>3, <1>4, <1>5, OutstandingNames

\* An event tells the outcome of one task: the others stay outstanding.
LEMMA Learning ==
  ASSUME TypesOK, NEW kind, NEW names, Event(kind, names), running' = running,
         \/ tasks' = tasks
         \/ \E n \in TaskNames, a \in Apis \cup {Nothing} : Submit(n, a)
  PROVE  /\ events' \in Seq(UiEvent) /\ tasks' \in Seq(Task)
         /\ Head(events).name \in names
         /\ Outstanding \ {Head(events).name} \subseteq Outstanding'
         /\ \A n \in TaskNames, a \in Apis \cup {Nothing} : Submit(n, a) => n \in Outstanding'
  <1>1. events \in Seq(UiEvent) /\ events # <<>> /\ events' = Tail(events)
    BY DEF TypesOK, UiEvent, Event
  <1>2. /\ events' \in Seq(UiEvent)
        /\ Names(events) = {Head(events).name} \cup Names(events')
    BY <1>1, NamesOfTail
  <1>3. /\ tasks' \in Seq(Task) /\ Names(tasks) \subseteq Names(tasks')
        /\ \A n \in TaskNames, a \in Apis \cup {Nothing} : Submit(n, a) => n \in Names(tasks')
    <2>1. ASSUME NEW n \in TaskNames, NEW a \in Apis \cup {Nothing}, Submit(n, a)
          PROVE  /\ tasks' \in Seq(Task) /\ Names(tasks) \subseteq Names(tasks')
                 /\ n \in Names(tasks')
      <3> DEFINE x == [name |-> n, api |-> a]
      <3>1. x \in Task /\ x.name = n /\ tasks \in Seq(Task) /\ tasks' = Append(tasks, x)
        BY <2>1 DEF Task, TypesOK, Submit
      <3> HIDE DEF x
      <3>2. tasks' \in Seq(Task)
        BY <3>1
      <3> QED
        BY <3>1, <3>2, NamesOfAppend
    <2>2. CASE tasks' = tasks
      BY <2>1, <2>2 DEF TypesOK
    <2> QED
      BY <2>1, <2>2
  <1>4. Outstanding' = Names(tasks') \cup Names(events')
                         \cup (IF running' = Nothing THEN {} ELSE {running'.name})
    BY DEF Outstanding, Names
  <1>5. Head(events).name \in names
    BY DEF Event
  <1> QED
    BY <1>2, <1>3, <1>4, <1>5, OutstandingNames

LEMMA WindowInit == UiInit => WindowInv
  <1> SUFFICES ASSUME UiInit PROVE WindowInv
    OBVIOUS
  <1>1. /\ 0 \in 0..MaxConnects /\ <<>> \in Seq(Task) /\ <<>> \in Seq(UiEvent)
    BY UiAssumption DEF UiAssumption
  <1>3. session \in [Apis -> {"fresh", "open", "authenticated", "closed"}]
    BY DEF UiInit
  <1>4. TypesOK
    BY <1>1, <1>3 DEF UiInit, TypesOK, UiEvent
  <1>2. WorkBehind
    BY DEF UiInit, WorkBehind
  <1> QED
    BY <1>2, <1>4 DEF WindowInv

\* The background thread moves a task along; the window is as it was.
LEMMA WorkerPreserves ==
  ASSUME WindowInv, WorkerStep
  PROVE  WindowInv'
  <1>1. TypesOK
    BY DEF WindowInv
  <1>2. ASSUME UNCHANGED <<window, views>>, Outstanding' = Outstanding
        PROVE  ~closing' => WorkBehind'
    BY <1>2 DEF WindowInv, WorkBehind, window, views
  <1>3. ASSUME NEW kind \in {"completed", "failed"}, running # Nothing, Report(kind),
               \/ UNCHANGED session
               \/ \E state \in {"open", "authenticated", "closed"} : Becomes(state)
        PROVE  WindowInv'
    <2>1. events' \in Seq(UiEvent) /\ Outstanding' = Outstanding
      BY <1>1, <1>3, Reporting
    <2>2. UNCHANGED <<window, views, tasks>> /\ running' = Nothing
      BY <1>3 DEF Report
    <2>3. session' \in [Apis -> {"fresh", "open", "authenticated", "closed"}]
      BY <1>1, <1>3 DEF TypesOK, Becomes
    <2>4. TypesOK'
      BY <1>1, <2>1, <2>2, <2>3 DEF TypesOK, UiEvent, window, views
    <2> QED
      BY <1>2, <2>1, <2>2, <2>4 DEF WindowInv
  <1>4. CASE Take
    <2>1. tasks' \in Seq(Task) /\ running' \in Task /\ Outstanding' = Outstanding
      BY <1>1, <1>4, Taking
    <2>2. UNCHANGED <<window, views, events, session>>
      BY <1>4 DEF Take
    <2>3. TypesOK'
      BY <1>1, <2>1, <2>2 DEF TypesOK, window, views
    <2> QED
      BY <1>2, <2>1, <2>2, <2>3 DEF WindowInv
  <1>5. CASE Dial
    <2>1. CASE Becomes("open") /\ UNCHANGED <<window, views, worker>>
      <3>1. Outstanding' = Outstanding
        BY <2>1 DEF Outstanding, worker
      <3>2. TypesOK'
        BY <1>1, <2>1 DEF TypesOK, Becomes, window, views, worker
      <3> QED
        BY <1>2, <2>1, <3>1, <3>2 DEF WindowInv
    <2>2. CASE UNCHANGED session /\ Report("failed")
      BY <1>3, <1>5, <2>2 DEF Dial, Running
    <2> QED
      BY <1>5, <2>1, <2>2 DEF Dial
  <1>6. CASE LogIn
    BY <1>3, <1>6 DEF LogIn, Running
  <1>7. CASE DoFileTask
    BY <1>3, <1>7 DEF DoFileTask, Running
  <1>8. CASE DoDisconnect
    BY <1>3, <1>8 DEF DoDisconnect, Running
  <1> QED
    BY <1>4, <1>5, <1>6, <1>7, <1>8 DEF WorkerStep

LEMMA ClosedType ==
  ASSUME TypesOK, NEW a
  PROVE  Closed(a) \in [Apis -> {"fresh", "open", "authenticated", "closed"}]
  BY DEF TypesOK, Closed

LEMMA ConnectPreserves ==
  ASSUME WindowInv, Connect
  PROVE  WindowInv'
  <1>1. /\ TypesOK /\ WorkBehind /\ connects + 1 \in Apis
    BY UiAssumption DEF UiAssumption, WindowInv, TypesOK, Connect, Responsive, Apis
  <1>2. /\ Submit("connect", connects + 1) /\ UNCHANGED <<running, events>>
        /\ "connect" \in TaskNames
    BY DEF Connect, TaskNames
  <1>3. tasks' \in Seq(Task) /\ Outstanding' = Outstanding \cup {"connect"}
    BY <1>1, <1>2, Submitting
  <1>4. /\ api' = connects + 1 /\ connects' = connects + 1 /\ buttons' = "busy"
        /\ filesOn' = FALSE
        /\ UNCHANGED <<pending, active, cancelling, dialog, closing, polling, cancelOn,
                       running, events, session>>
    BY DEF Connect
  <1>5. TypesOK'
    <2>1. connects' \in 0..MaxConnects
      BY <1>1, <1>4, UiAssumption DEF UiAssumption, TypesOK, Apis
    <2> QED
      BY <1>1, <1>3, <1>4, <2>1 DEF TypesOK
  <1>6. api' # Nothing
    BY <1>1, <1>4, UiAssumption DEF UiAssumption
  <1>7. WorkBehind'
    BY <1>1, <1>3, <1>4, <1>6 DEF WorkBehind
  <1> QED
    BY <1>5, <1>7 DEF WindowInv

\* Clicks that submit a task and keep the session of the window.
LEMMA SubmitPreserves ==
  ASSUME WindowInv, Disconnect \/ Refresh \/ StartTransfer
  PROVE  WindowInv'
  <1>1. TypesOK
    BY DEF WindowInv
  <1>2. CASE Disconnect
    <2>1. /\ Submit("disconnect", api)
          /\ UNCHANGED <<window, cancelOn, running, events, session>>
          /\ "disconnect" \in TaskNames /\ api \in Apis \cup {Nothing} /\ api # Nothing
          /\ buttons' = "busy" /\ filesOn' = FALSE
      BY <1>1, <1>2 DEF Disconnect, TypesOK, TaskNames, Connected
    <2>2. tasks' \in Seq(Task) /\ Outstanding' = Outstanding \cup {"disconnect"}
      BY <1>1, <2>1, Submitting
    <2>3. TypesOK'
      BY <1>1, <2>1, <2>2 DEF TypesOK, window
    <2> QED
      BY <2>1, <2>2, <2>3 DEF WindowInv, WorkBehind, window
  <1>3. CASE Refresh
    <2>1. /\ Submit("refresh", api)
          /\ UNCHANGED <<api, active, cancelling, dialog, closing, connects, polling,
                         buttons, cancelOn, running, events, session>>
          /\ "refresh" \in TaskNames /\ "refresh" \in FileTasks /\ api \in Apis \cup {Nothing}
          /\ pending' = TRUE /\ filesOn' = FALSE
      BY <1>1, <1>3 DEF Refresh, TypesOK, TaskNames, FileTasks
    <2>2. tasks' \in Seq(Task) /\ Outstanding' = Outstanding \cup {"refresh"}
      BY <1>1, <2>1, Submitting
    <2>3. TypesOK'
      BY <1>1, <2>1, <2>2 DEF TypesOK
    <2> QED
      BY <2>1, <2>2, <2>3 DEF WindowInv, WorkBehind
  <1>4. CASE StartTransfer
    <2>1. /\ dialog \in Transfers /\ dialog \in FileTasks /\ dialog \in TaskNames
          /\ api \in Apis \cup {Nothing}
      BY <1>1, <1>4 DEF StartTransfer, TypesOK, TaskNames, FileTasks
    <2>2. /\ Submit(dialog, api) /\ pending' = TRUE /\ active' = dialog /\ dialog' = Nothing
          /\ buttons' = "busy" /\ filesOn' = FALSE /\ cancelOn' = TRUE
          /\ UNCHANGED <<api, cancelling, closing, connects, polling, running, events,
                         session>>
      BY <1>4 DEF StartTransfer
    <2>3. tasks' \in Seq(Task) /\ Outstanding' = Outstanding \cup {dialog}
      BY <1>1, <2>1, <2>2, Submitting
    <2>4. TypesOK'
      BY <1>1, <2>1, <2>2, <2>3 DEF TypesOK
    <2> QED
      BY <2>1, <2>2, <2>3, <2>4 DEF WindowInv, WorkBehind
  <1> QED
    BY <1>2, <1>3, <1>4

\* Clicks that leave the queues alone, and the two ends of a poll.
LEMMA QuietPreserves ==
  ASSUME WindowInv,
         \/ \E t \in Transfers : OpenDialog(t)
         \/ DismissDialog \/ Cancel \/ BeginPoll \/ EndPoll
  PROVE  WindowInv'
  <1>1. TypesOK
    BY DEF WindowInv
  <1>2. Outstanding' = Outstanding
    BY DEF Outstanding, OpenDialog, DismissDialog, Cancel, BeginPoll, EndPoll, worker
  <1>3. CASE Cancel
    <2>1. session' \in [Apis -> {"fresh", "open", "authenticated", "closed"}]
      BY <1>1, <1>3, ClosedType DEF Cancel
    <2>2. TypesOK'
      BY <1>1, <1>3, <2>1 DEF Cancel, TypesOK, worker
    <2>3. Outstanding \cap Transfers # {}
      BY <1>3 DEF WindowInv, WorkBehind, Cancel, Responsive
    <2> QED
      BY <1>2, <1>3, <2>2, <2>3 DEF WindowInv, WorkBehind, Cancel
  <1>4. CASE DismissDialog \/ BeginPoll \/ EndPoll \/ \E t \in Transfers : OpenDialog(t)
    <2>1. TypesOK'
      BY <1>1, <1>4 DEF TypesOK, OpenDialog, DismissDialog, BeginPoll, EndPoll, worker, views
    <2> QED
      BY <1>2, <1>4, <2>1 DEF WindowInv, WorkBehind, OpenDialog, DismissDialog, BeginPoll,
           EndPoll, views
  <1> QED
    BY <1>3, <1>4

LEMMA CloseWindowPreserves ==
  ASSUME WindowInv, CloseWindow
  PROVE  WindowInv'
  <1>1. TypesOK /\ "stop" \in TaskNames /\ Nothing \in Apis \cup {Nothing}
    BY DEF WindowInv, TaskNames
  <1>2. tasks' \in Seq(Task)
    BY <1>1, Submitting DEF CloseWindow
  <1>3. session' \in [Apis -> {"fresh", "open", "authenticated", "closed"}]
    BY <1>1, ClosedType DEF CloseWindow
  <1>4. TypesOK'
    BY <1>1, <1>2, <1>3 DEF CloseWindow, TypesOK, views
  <1> QED
    BY <1>4 DEF WindowInv, CloseWindow

\* Handling an event.  What the window still waits for is the outcome of another task.
LEMMA HandlePreserves ==
  ASSUME WindowInv,
         \/ HandleConnected \/ HandleDisconnected \/ HandleRefreshed \/ HandleUploaded
         \/ HandleDownloaded \/ HandleCancelled \/ HandleFailure \/ HandleFileFailure
  PROVE  WindowInv'
  <1>1. TypesOK /\ api \in Apis \cup {Nothing} /\ "refresh" \in TaskNames
    BY DEF WindowInv, TypesOK, TaskNames, FileTasks
  <1>2. closing' = closing /\ running' = running
    BY DEF HandleConnected, HandleDisconnected, HandleRefreshed, HandleUploaded,
           HandleDownloaded, HandleCancelled, HandleFailure, HandleFileFailure
  <1>3. tasks' = tasks \/ \E n \in TaskNames, a \in Apis \cup {Nothing} : Submit(n, a)
    BY <1>1 DEF HandleConnected, HandleDisconnected, HandleRefreshed, HandleUploaded,
           HandleDownloaded, HandleCancelled, HandleFailure, HandleFileFailure, ThenRefresh
  <1>4. ASSUME NEW kind, NEW names, Event(kind, names)
        PROVE  /\ events' \in Seq(UiEvent) /\ tasks' \in Seq(Task)
               /\ Head(events).name \in names
               /\ Outstanding \ {Head(events).name} \subseteq Outstanding'
               /\ \A n \in TaskNames, a \in Apis \cup {Nothing} :
                    Submit(n, a) => n \in Outstanding'
    BY <1>1, <1>2, <1>3, <1>4, Learning
  <1>5. "refresh" \in FileTasks /\ Transfers \subseteq {"upload", "download"}
        /\ FileTasks = Transfers \cup {"refresh"}
    BY UiAssumption DEF UiAssumption, FileTasks
  <1>6. Closed(api) \in [Apis -> {"fresh", "open", "authenticated", "closed"}]
    BY <1>1, ClosedType
  <1>7. ASSUME NEW kind, NEW names, Event(kind, names), ThenRefresh
        PROVE  /\ pending' \in BOOLEAN /\ filesOn' \in BOOLEAN
               /\ pending' => Outstanding' \cap FileTasks # {}
    <2>1. CASE Authenticated(api)
      <3>1. Submit("refresh", api) /\ pending' = TRUE /\ filesOn' = FALSE
        BY <1>7, <2>1 DEF ThenRefresh
      <3> QED
        BY <1>1, <1>4, <1>5, <1>7, <3>1
    <2>2. CASE ~Authenticated(api)
      BY <1>7, <2>2 DEF ThenRefresh
    <2> QED
      BY <2>1, <2>2
  <1>8. CASE HandleConnected
    <2>1. /\ Event("completed", {"connect"})
          /\ UNCHANGED <<api, active, cancelling, dialog, closing, connects, polling,
                         cancelOn, running, session>>
      BY <1>8 DEF HandleConnected
    <2>2. /\ events' \in Seq(UiEvent) /\ tasks' \in Seq(Task)
          /\ Outstanding \ {"connect"} \subseteq Outstanding'
      BY <1>4, <2>1
    <2>3. "connect" \notin FileTasks /\ "connect" \notin Transfers
      BY <1>5
    <2>4. CASE api = Nothing
      <3>1. UNCHANGED <<pending, buttons, filesOn, tasks>>
        BY <1>8, <2>4 DEF HandleConnected
      <3>2. TypesOK'
        BY <1>1, <2>1, <2>2, <3>1 DEF TypesOK, UiEvent
      <3> QED
        BY <2>1, <2>2, <2>3, <2>4, <3>1, <3>2 DEF WindowInv, WorkBehind
    <2>5. CASE api # Nothing
      <3>1. /\ buttons' = "online"
            /\ \/ pending /\ pending' = TRUE /\ filesOn' = TRUE
               \/ ThenRefresh
        BY <1>8, <2>5 DEF HandleConnected
      <3>2. /\ pending' \in BOOLEAN /\ filesOn' \in BOOLEAN
            /\ ~closing => (pending' => Outstanding' \cap FileTasks # {})
        <4>1. CASE ThenRefresh
          BY <1>7, <2>1, <4>1
        <4>2. CASE pending /\ pending' = TRUE /\ filesOn' = TRUE
          BY <2>2, <2>3, <4>2 DEF WindowInv, WorkBehind
        <4> QED
          BY <3>1, <4>1, <4>2
      <3>3. TypesOK'
        BY <1>1, <2>1, <2>2, <3>1, <3>2 DEF TypesOK, UiEvent
      <3> QED
        BY <2>1, <2>2, <2>3, <3>1, <3>2, <3>3 DEF WindowInv, WorkBehind
    <2> QED
      BY <2>4, <2>5
  <1>9. CASE HandleDisconnected
    <2>1. Event("completed", {"disconnect"})
      BY <1>9 DEF HandleDisconnected
    <2>2. events' \in Seq(UiEvent)
      BY <1>4, <2>1
    <2>3. TypesOK'
      BY <1>1, <1>9, <2>2 DEF HandleDisconnected, TypesOK, UiEvent
    <2> QED
      BY <1>9, <2>3 DEF HandleDisconnected, WindowInv, WorkBehind
  <1>10. CASE HandleRefreshed
    <2>1. Event("completed", {"refresh"})
      BY <1>10 DEF HandleRefreshed
    <2>2. events' \in Seq(UiEvent) /\ Outstanding \ {"refresh"} \subseteq Outstanding'
      BY <1>4, <2>1
    <2>3. TypesOK'
      BY <1>1, <1>10, <2>2 DEF HandleRefreshed, TypesOK, UiEvent
    <2>4. "refresh" \notin Transfers
      BY <1>5
    <2> QED
      BY <1>10, <2>2, <2>3, <2>4 DEF HandleRefreshed, WindowInv, WorkBehind
  <1>11. CASE HandleUploaded
    <2>1. /\ Event("completed", Transfers \cap {"upload"}) /\ ThenRefresh
          /\ active' = Nothing /\ buttons' = "online" /\ cancelOn' = FALSE
          /\ cancelling' \in {Nothing, cancelling}
          /\ UNCHANGED <<api, dialog, closing, connects, polling, running, session>>
      BY <1>11 DEF HandleUploaded
    <2>2. events' \in Seq(UiEvent) /\ tasks' \in Seq(Task)
      BY <1>4, <2>1
    <2>3. /\ pending' \in BOOLEAN /\ filesOn' \in BOOLEAN
          /\ pending' => Outstanding' \cap FileTasks # {}
      BY <1>7, <2>1
    <2>4. TypesOK'
      BY <1>1, <2>1, <2>2, <2>3 DEF TypesOK, UiEvent
    <2> QED
      BY <2>1, <2>3, <2>4 DEF WindowInv, WorkBehind
  <1>12. CASE HandleDownloaded
    <2>1. /\ Event("completed", Transfers \cap {"download"})
          /\ cancelling' \in {Nothing, cancelling}
      BY <1>12 DEF HandleDownloaded
    <2>2. events' \in Seq(UiEvent)
      BY <1>4, <2>1
    <2>3. TypesOK'
      BY <1>1, <1>12, <2>1, <2>2 DEF HandleDownloaded, TypesOK, UiEvent
    <2> QED
      BY <1>12, <2>3 DEF HandleDownloaded, WindowInv, WorkBehind
  <1>13. CASE HandleCancelled
    <2>1. Event("failed", Transfers)
      BY <1>13 DEF HandleCancelled
    <2>2. events' \in Seq(UiEvent)
      BY <1>4, <2>1
    <2>3. TypesOK'
      BY <1>1, <1>6, <1>13, <2>2 DEF HandleCancelled, TypesOK, UiEvent
    <2> QED
      BY <1>13, <2>3 DEF HandleCancelled, WindowInv, WorkBehind
  <1>14. CASE HandleFailure
    <2>1. Event("failed", {"connect", "disconnect"})
      BY <1>14 DEF HandleFailure
    <2>2. /\ events' \in Seq(UiEvent) /\ Head(events).name \notin FileTasks
          /\ Outstanding \ {Head(events).name} \subseteq Outstanding'
      BY <1>4, <1>5, <2>1
    <2>3. TypesOK'
      BY <1>1, <1>6, <1>14, <2>2 DEF HandleFailure, TypesOK, UiEvent
    <2>4. Transfers \subseteq FileTasks
      BY <1>5
    <2> QED
      BY <1>14, <2>2, <2>3, <2>4 DEF HandleFailure, WindowInv, WorkBehind
  <1>15. CASE HandleFileFailure
    <2>1. Event("failed", FileTasks)
      BY <1>15 DEF HandleFileFailure
    <2>2. /\ events' \in Seq(UiEvent)
          /\ Outstanding \ {Head(events).name} \subseteq Outstanding'
      BY <1>4, <2>1
    <2>3. /\ pending' = FALSE /\ buttons' \in {"online", "offline"} /\ filesOn' \in BOOLEAN
          /\ api' \in {api, Nothing} /\ session' \in {session, Closed(api)}
          /\ \/ active' = Nothing /\ cancelOn' = FALSE
             \/ Head(events).name \notin Transfers /\ active' = active /\ cancelOn' = cancelOn
          /\ UNCHANGED <<cancelling, dialog, closing, connects, polling, tasks, running>>
      BY <1>15 DEF HandleFileFailure
    <2>4. TypesOK'
      BY <1>1, <1>6, <2>2, <2>3 DEF TypesOK, UiEvent
    <2> QED
      BY <2>2, <2>3, <2>4 DEF WindowInv, WorkBehind
  <1> QED
    BY <1>8, <1>9, <1>10, <1>11, <1>12, <1>13, <1>14, <1>15

LEMMA WindowStep == WindowInv /\ [UiNext]_uiVars => WindowInv'
  <1> SUFFICES ASSUME WindowInv, [UiNext]_uiVars PROVE WindowInv'
    OBVIOUS
  <1>1. CASE WorkerStep
    BY <1>1, WorkerPreserves
  <1>2. CASE Poll
    BY <1>2, HandlePreserves, QuietPreserves DEF Poll
  <1>3. CASE Click
    BY <1>3, ConnectPreserves, SubmitPreserves, QuietPreserves, CloseWindowPreserves DEF Click
  <1>4. CASE UNCHANGED uiVars
    <2>1. UNCHANGED <<api, pending, active, cancelling, dialog, closing, connects, polling,
                      buttons, filesOn, cancelOn, tasks, running, events, session>>
      BY <1>4 DEF uiVars, window, views, worker
    <2>2. Outstanding' = Outstanding
      BY <2>1 DEF Outstanding
    <2>3. TypesOK'
      BY <2>1 DEF WindowInv, TypesOK
    <2> QED
      BY <2>1, <2>2, <2>3 DEF WindowInv, WorkBehind
  <1> QED
    BY <1>1, <1>2, <1>3, <1>4 DEF UiNext

LEMMA WindowInductive == UiSpec => []WindowInv
  BY WindowInit, WindowStep, PTL DEF UiSpec

\* The variables of the window, its queues and its sessions keep their types; that the
\* task queue stays short is QueueAlwaysShort below (ui/app.py, ui/worker.py).
THEOREM WindowTypesAlways == UiSpec => []TypesOK
  <1>1. WindowInv => TypesOK
    BY DEF WindowInv
  <1> QED
    BY <1>1, WindowInductive, PTL

\* However the user clicks and whatever fails, a window that offers no file operation
\* has one under way, and one that offers neither Connect nor Disconnect waits for
\* an outcome (ui/app.py, handle_event and what it calls).
THEOREM BlockedAlwaysMeansWork == UiSpec => []BlockedMeansWork
  <1>1. WindowInv => BlockedMeansWork
    BY DEF WindowInv, WorkBehind, BlockedMeansWork
  <1> QED
    BY <1>1, WindowInductive, PTL

--------------------------------------------------------------------------------
(* The queue of the background thread, however often the user connects.  Only   *)
(* buttons and flags bound it, and they are freed by events, which may tell of  *)
(* an earlier session: the invariant therefore says, for each state of the      *)
(* session in the window, which tasks and events can be left over from before   *)
(* (Old), and how many more the user can still get submitted (Always, WhileOpen *)
(* and the two kinds of Room).                                                  *)

\* What was submitted and not executed yet: the task that runs, and those behind it.
Queue == IF running = Nothing THEN tasks ELSE <<running>> \o tasks

One(b) == IF b THEN 1 ELSE 0
On == buttons = "online"
Phase(state) == api # Nothing /\ session[api] = state

Lacks(s, names) == \A i \in 1..Len(s) : s[i].name \notin names
FilesFirst(s) ==
  \A i, j \in 1..Len(s) : i < j /\ s[i].name = "connect" => s[j].name \notin FileTasks

\* A task that can still succeed, and an event that tells of one that did.
Stands(s, t) == t.name # "disconnect" /\ t.api # Nothing /\ s[t.api] # "closed"
Won(e) == e.kind = "completed" /\ e.name # "disconnect"

\* What earlier sessions left behind: file tasks before connects, nothing that can
\* succeed before a disconnect, and no transfer that can.
OldQueue ==
  /\ FilesFirst(Queue)
  /\ \A i, j \in 1..Len(Queue) : i < j /\ Stands(session, Queue[i]) => Queue[j].name # "disconnect"
  /\ \A i \in 1..Len(Queue) : Stands(session, Queue[i]) => Queue[i].name \notin Transfers
OldEvents ==
  /\ FilesFirst(events)
  /\ \A i, j \in 1..Len(events) : i < j /\ Won(events[i]) => events[j].name # "disconnect"
  /\ \A i \in 1..Len(events) : Won(events[i]) => events[i].name \notin Transfers
Old ==
  /\ OldQueue /\ OldEvents
  /\ Lacks(events, {"connect"}) \/ Lacks(Queue, FileTasks)
  /\ (\A i \in 1..Len(events) : ~Won(events[i])) \/ Lacks(Queue, {"disconnect"})

NothingOffered == ~filesOn /\ ~On
NoDisconnect == Lacks(events, {"disconnect"}) /\ Lacks(Queue, {"disconnect"})

\* Without a live session the user can submit a connect when the window has none, once
\* more after the next poll, and the transfer whose dialog is open.
Clicks == IF polling THEN One(api = Nothing \/ events # <<>>)
                     ELSE One(api = Nothing) + One(events # <<>>)

Always ==
  /\ api \in {Nothing, connects}
  /\ \A a \in Apis : a > connects => session[a] = "fresh"
  /\ \A i \in 1..Len(Queue) : /\ Queue[i].api \in (1..connects) \cup {Nothing}
                              /\ Queue[i].api = Nothing => Queue[i].name \in FileTasks
  /\ dialog # Nothing =>
       /\ Lacks(Queue, {"connect"})
       /\ api = Nothing /\ ~polling => Lacks(events, {"connect"})
       /\ api # Nothing => session[api] \in {"authenticated", "closed"}
  /\ ~Connected(api) => Len(Queue) + Clicks + One(dialog # Nothing) <= 5

WhileNothing == OldQueue /\ (~polling => Old)
WhileFresh ==
  /\ Old
  /\ \A i \in 1..Len(Queue) : Queue[i].api = api => i = Len(Queue) /\ Queue[i].name = "connect"
  /\ NothingOffered \/ NoDisconnect
WhileOpen ==
  /\ OldEvents
  /\ Len(Queue) > 0 /\ Queue[1] = [name |-> "connect", api |-> api]
  /\ \A i \in 2..Len(Queue) : Queue[i] = [name |-> "disconnect", api |-> api]
  /\ \/ Len(Queue) = 1 /\ (polling \/ NothingOffered)
     \/ Lacks(events, {"disconnect"})
  /\ Len(Queue) + (IF polling THEN One(On \/ events # <<>>) ELSE One(On) + One(events # <<>>))
       <= 3
WhileClosed ==
  /\ \A i \in 1..Len(Queue) : Queue[i].api = api
  /\ FilesFirst(Queue)

\* An authenticated session: the first y tasks can still succeed, the others stand
\* behind a disconnect; the first z events are from before the login, the other ones
\* tell of its file tasks.
Live(y) ==
  /\ \A i \in 1..y : Queue[i].name \in FileTasks
  /\ y < Len(Queue) => Queue[y + 1].name = "disconnect"
Learnt(z) ==
  /\ \A j \in z + 1..Len(events) : events[j].name \in FileTasks
  /\ z > 0 => /\ events[z].kind = "completed" /\ events[z].name = "connect"
              /\ \A i, j \in 1..z - 1 : i < j /\ events[i].name = "connect"
                                          => events[j].name \notin FileTasks
              /\ \A i \in 1..z - 1 : Won(events[i]) => events[i].name \notin Transfers
OldFile(z) == \E i \in 1..z - 1 : events[i].name \in FileTasks

\* How much of it there can be: the work that is `own` to the session, the tasks that
\* are `dead` behind a disconnect, before the window has learnt of the login (when `old`
\* file tasks may still free the file view), and after.
EarlyRoom(own, dead, old, poll, on, free, dlg) ==
  IF dead = 0
  THEN IF poll
       THEN own + One(free \/ old) <= 2 /\ (dlg => own + One(free \/ old) <= 1)
       ELSE own + One(free \/ dlg) <= 1
  ELSE dead + (IF own = 0 THEN 1 ELSE 2 * own) + 1
         + (IF poll THEN One(free \/ old) ELSE One(on) + One(free) + One(old)) <= 5
LateRoom(y, own, dead, poll, on, free, dlg) ==
  IF dead = 0
  THEN y + own + One(free \/ dlg) <= 2
  ELSE dead + 2 * y + (IF own = 0 THEN One(on) + One(free)
                       ELSE own + 1 + (IF poll THEN 0 ELSE One(on) + One(free))) <= 5
Early(y, z) == EarlyRoom(y + Len(events) - z, Len(Queue) - y, OldFile(z), polling, On,
                         ~pending, dialog # Nothing)
Late(y) == LateRoom(y, Len(events), Len(Queue) - y, polling, On, ~pending,
                    dialog # Nothing)
Split(y, z) == Live(y) /\ Learnt(z) /\ (IF z = 0 THEN Late(y) ELSE Early(y, z))
WhileIn ==
  /\ \A i \in 1..Len(Queue) : /\ Queue[i].api = api
                              /\ Queue[i].name \in FileTasks \cup {"disconnect"}
  /\ dialog # Nothing /\ pending => On
  /\ \/ Lacks(events, {"disconnect"})
     \/ /\ \A i \in 1..Len(Queue) : Queue[i].name = "refresh"
        /\ dialog = Nothing
        /\ polling \/ NothingOffered
  /\ \E y \in 0..Len(Queue), z \in 0..Len(events) : Split(y, z)

OpenWindow ==
  /\ Always
  /\ api = Nothing => WhileNothing
  /\ Phase("fresh") => WhileFresh
  /\ Phase("open") => WhileOpen
  /\ Phase("closed") => WhileClosed
  /\ Phase("authenticated") => WhileIn

QueueInv ==
  IF closing THEN dialog = Nothing /\ ~polling /\ Len(tasks) <= 6 ELSE OpenWindow

\* The two ways in which a queue changes.
Shorter(s, t) == /\ Len(s) > 0 /\ Len(t) = Len(s) - 1
                 /\ \A i \in 1..Len(t) : t[i] = s[i + 1]
Longer(s, t, x) == /\ Len(t) = Len(s) + 1 /\ t[Len(s) + 1] = x
                   /\ \A i \in 1..Len(s) : t[i] = s[i]

LEMMA Queues ==
  ASSUME TypesOK
  PROVE  /\ Queue \in Seq(Task) /\ events \in Seq(UiEvent)
         /\ Len(Queue) \in Nat /\ Len(events) \in Nat
         /\ Len(tasks) <= Len(Queue) /\ Len(tasks) \in Nat
         /\ running = Nothing => Queue = tasks
         /\ running # Nothing => /\ Len(Queue) = Len(tasks) + 1 /\ Queue[1] = running
                                 /\ \A i \in 1..Len(tasks) : Queue[i + 1] = tasks[i]
         /\ events = <<>> <=> Len(events) = 0
         /\ api # Nothing => api \in Apis
  <1>1. tasks \in Seq(Task) /\ running \in Task \cup {Nothing} /\ events \in Seq(UiEvent)
        /\ api \in Apis \cup {Nothing}
    BY DEF TypesOK, UiEvent
  <1>2. CASE running = Nothing
    BY <1>1, <1>2 DEF Queue
  <1>3. CASE running # Nothing
    <2>1. running \in Task /\ Queue = <<running>> \o tasks
      BY <1>1, <1>3 DEF Queue
    <2>2. /\ <<running>> \o tasks \in Seq(Task)
          /\ Len(<<running>> \o tasks) = Len(tasks) + 1
          /\ (<<running>> \o tasks)[1] = running
          /\ \A i \in 1..Len(tasks) : (<<running>> \o tasks)[i + 1] = tasks[i]
      BY <1>1, <2>1
    <2> QED
      BY <1>1, <1>3, <2>1, <2>2
  <1> QED
    BY <1>2, <1>3

LEMMA Submitted ==
  ASSUME TypesOK, TypesOK', NEW n, NEW a, Submit(n, a), running' = running
  PROVE  Longer(Queue, Queue', [name |-> n, api |-> a])
  <1> DEFINE x == [name |-> n, api |-> a]
  <1>1. tasks' = Append(tasks, x) /\ tasks \in Seq(Task) /\ tasks' \in Seq(Task)
    BY DEF Submit, TypesOK
  <1> HIDE DEF x
  <1>2. /\ Len(tasks') = Len(tasks) + 1 /\ tasks'[Len(tasks) + 1] = x
        /\ \A i \in 1..Len(tasks) : tasks'[i] = tasks[i]
    BY <1>1
  <1>3. CASE running = Nothing
    BY <1>2, <1>3 DEF Longer, Queue, x
  <1>4. CASE running # Nothing
    <2>1. /\ Len(Queue) = Len(tasks) + 1 /\ Queue[1] = running
          /\ \A i \in 1..Len(tasks) : Queue[i + 1] = tasks[i]
          /\ Len(tasks) \in Nat
      BY <1>4, Queues
    <2>2. /\ Len(Queue') = Len(tasks') + 1 /\ Queue'[1] = running'
          /\ \A i \in 1..Len(tasks') : Queue'[i + 1] = tasks'[i]
      <3>1. running' = running /\ running \in Task /\ Queue' = <<running>> \o tasks'
        BY <1>4 DEF Queue, TypesOK
      <3>2. /\ Len(<<running>> \o tasks') = Len(tasks') + 1
            /\ (<<running>> \o tasks')[1] = running
            /\ \A i \in 1..Len(tasks') : (<<running>> \o tasks')[i + 1] = tasks'[i]
        BY <1>1, <3>1
      <3> QED
        BY <3>1, <3>2
    <2>3. ASSUME NEW i \in 1..Len(Queue) PROVE Queue'[i] = Queue[i]
      <3>1. CASE i = 1
        BY <2>1, <2>2, <3>1
      <3>2. CASE i # 1
        <4>1. i - 1 \in 1..Len(tasks) /\ i - 1 \in 1..Len(tasks') /\ (i - 1) + 1 = i
          BY <1>2, <2>1, <3>2
        <4>2. Queue[(i - 1) + 1] = tasks[i - 1] /\ Queue'[(i - 1) + 1] = tasks'[i - 1]
          BY <2>1, <2>2, <4>1
        <4> QED
          BY <1>2, <4>1, <4>2
      <3> QED
        BY <3>1, <3>2
    <2>4. Queue'[Len(Queue) + 1] = x
      BY <1>2, <2>1, <2>2
    <2> QED
      BY <1>2, <2>1, <2>2, <2>3, <2>4 DEF Longer, x
  <1> QED
    BY <1>3, <1>4

LEMMA Taken ==
  ASSUME TypesOK, TypesOK', Take
  PROVE  Queue' = Queue
  <1>1. /\ tasks \in Seq(Task) /\ tasks # <<>> /\ running = Nothing
        /\ tasks' = Tail(tasks) /\ running' = Head(tasks) /\ Head(tasks) \in Task
    BY DEF Take, TypesOK
  <1>2. running' # Nothing
    BY <1>1, UiAssumption DEF UiAssumption
  <1>3. <<Head(tasks)>> \o Tail(tasks) = tasks
    BY <1>1
  <1> QED
    BY <1>1, <1>2, <1>3 DEF Queue

LEMMA Done ==
  ASSUME TypesOK, running # Nothing, running' = Nothing, tasks' = tasks
  PROVE  Shorter(Queue, Queue') /\ Queue[1] = running
  <1>1. Queue' = tasks
    BY DEF Queue
  <1> QED
    BY <1>1, Queues DEF Shorter

LEMMA Reported ==
  ASSUME TypesOK, NEW kind, NEW name, [kind |-> kind, name |-> name] \in UiEvent,
         events' = Append(events, [kind |-> kind, name |-> name])
  PROVE  Longer(events, events', [kind |-> kind, name |-> name])
  <1> DEFINE x == [kind |-> kind, name |-> name]
  <1>1. events' = Append(events, x) /\ events \in Seq(UiEvent) /\ x \in UiEvent
    BY DEF TypesOK, UiEvent
  <1> HIDE DEF x
  <1>2. Longer(events, events', x)
    BY <1>1 DEF Longer
  <1> QED
    BY <1>2 DEF x

LEMMA Heard ==
  ASSUME TypesOK, NEW kind, NEW names, Event(kind, names)
  PROVE  /\ Shorter(events, events') /\ polling
         /\ events[1] = Head(events) /\ events[1].kind = kind /\ events[1].name \in names
  <1>1. events \in Seq(UiEvent) /\ events # <<>> /\ events' = Tail(events)
    BY DEF TypesOK, UiEvent, Event
  <1>2. Shorter(events, events') /\ events[1] = Head(events)
    BY <1>1 DEF Shorter
  <1> QED
    BY <1>2 DEF Event

--------------------------------------------------------------------------------
(* The background thread.                                                       *)

LEMMA FewLate ==
  ASSUME NEW y \in Nat, NEW own \in Nat, NEW dead \in Nat, NEW poll, NEW on, NEW free,
         NEW dlg, LateRoom(y, own, dead, poll, on, free, dlg), dlg => on \/ free
  PROVE  /\ y + dead + One(dlg) <= 5
         /\ ~poll => y + dead + One(own > 0) <= 5
         /\ poll /\ own > 0 => y + dead <= 3
  BY DEF LateRoom, One

LEMMA FewEarly ==
  ASSUME NEW y \in Nat, NEW own \in Nat, NEW dead \in Nat, NEW old, NEW poll, NEW on,
         NEW free, NEW dlg, EarlyRoom(own, dead, old, poll, on, free, dlg), y <= own
  PROVE  /\ y + dead + One(dlg) <= 5
         /\ ~poll => y + dead <= 4
         /\ poll => y + dead <= 3
  BY DEF EarlyRoom, One

LEMMA Few ==
  ASSUME TypesOK, WhileIn
  PROVE  /\ Len(Queue) + One(dialog # Nothing) <= 5
         /\ ~polling => Len(Queue) + One(events # <<>>) <= 5
         /\ polling /\ events # <<>> => Len(Queue) <= 3
  <1>1. PICK y \in 0..Len(Queue), z \in 0..Len(events) : Split(y, z)
    BY DEF WhileIn
  <1>2. PICK q \in Nat, n \in Nat : q = Len(Queue) /\ n = Len(events)
    BY Queues
  <1>3. /\ y \in Nat /\ q - y \in Nat /\ y + (q - y) = q
        /\ y + n - z \in Nat /\ y <= y + n - z
        /\ events = <<>> <=> n = 0
    BY <1>1, <1>2, Queues
  <1>4. dialog # Nothing => On \/ ~pending
    BY DEF WhileIn
  <1>5. CASE z = 0
    <2> DEFINE free == ~pending
               dlg == dialog # Nothing
    <2>1. LateRoom(y, n, q - y, polling, On, free, dlg)
      BY <1>1, <1>2, <1>5 DEF Split, Late
    <2>2. dlg => On \/ free
      BY <1>4
    <2> HIDE DEF free, dlg
    <2>3. /\ y + (q - y) + One(dlg) <= 5
          /\ ~polling => y + (q - y) + One(n > 0) <= 5
          /\ polling /\ n > 0 => y + (q - y) <= 3
      BY <1>3, <2>1, <2>2, FewLate
    <2>4. events # <<>> <=> n > 0
      BY <1>3
    <2> QED
      BY <1>2, <1>3, <2>3, <2>4 DEF One, dlg
  <1>6. CASE z # 0
    <2>1. EarlyRoom(y + n - z, q - y, OldFile(z), polling, On, ~pending, dialog # Nothing)
      BY <1>1, <1>2, <1>6 DEF Split, Early
    <2>2. /\ y + (q - y) + One(dialog # Nothing) <= 5
          /\ ~polling => y + (q - y) <= 4
          /\ polling => y + (q - y) <= 3
      BY <1>3, <2>1, FewEarly
    <2>3. /\ q + One(dialog # Nothing) <= 5
          /\ ~polling => q <= 4
          /\ polling => q <= 3
      BY <1>3, <2>2
    <2> QED
      BY <1>2, <2>3 DEF One
  <1> QED
    BY <1>5, <1>6

\* What the end of the first task of the queue does.
Ends(e) ==
  LET t == Queue[1]
      same == session'[t.api] = session[t.api]
      closes == session'[t.api] = "closed"
  IN  /\ Shorter(Queue, Queue') /\ Longer(events, events', e)
      /\ e.name = t.name /\ e.kind \in {"completed", "failed"}
      /\ \A a \in Apis : a # t.api => session'[a] = session[a]
      /\ t.api = Nothing => t.name \in FileTasks /\ e.kind = "failed"
      /\ t.api # Nothing =>
           /\ t.api \in Apis
           /\ t.name \in FileTasks \cup {"connect", "disconnect"}
           /\ t.name = "connect" =>
                \/ session[t.api] = "fresh" /\ same /\ e.kind = "failed"
                \/ session[t.api] = "open" /\ session'[t.api] = "authenticated"
                   /\ e.kind = "completed"
                \/ session[t.api] \in {"open", "closed"} /\ closes /\ e.kind = "failed"
           /\ t.name \in FileTasks =>
                \/ session[t.api] = "authenticated" /\ same
                \/ same /\ e.kind = "failed"
                \/ session[t.api] = "authenticated" /\ closes /\ e.kind = "failed"
           /\ t.name = "disconnect" =>
                \/ Connected(t.api) /\ closes
                \/ ~Connected(t.api) /\ same

LEMMA WorkerEnds ==
  ASSUME TypesOK, TypesOK', Always, LogIn \/ DoFileTask \/ DoDisconnect \/ Dial
  PROVE  /\ UNCHANGED <<window, views>>
         /\ \/ \E e \in UiEvent : Ends(e)
            \/ /\ Queue' = Queue /\ events' = events /\ tasks' = tasks
               /\ running \in Task /\ running.name = "connect" /\ Queue[1] = running
               /\ session[running.api] = "fresh"
               /\ session' = [session EXCEPT ![running.api] = "open"]
  <1>1. /\ running \in Task /\ Queue[1] = running /\ Len(Queue) > 0
        /\ running.api \in (1..connects) \cup {Nothing}
        /\ running.api = Nothing => running.name \in FileTasks
    <2>1. running \in Task
      BY DEF TypesOK, LogIn, DoFileTask, DoDisconnect, Dial, Running
    <2>2. running # Nothing
      BY <2>1, UiAssumption DEF UiAssumption
    <2>3. Queue[1] = running /\ 1 \in 1..Len(Queue)
      BY <2>2, Queues
    <2> QED
      BY <2>1, <2>3 DEF Always
  <1>2. /\ connects \in 0..MaxConnects /\ Nothing \notin Apis /\ Nothing \notin Task
        /\ MaxConnects \in Nat
        /\ session \in [Apis -> {"fresh", "open", "authenticated", "closed"}]
        /\ session' \in [Apis -> {"fresh", "open", "authenticated", "closed"}]
    BY UiAssumption DEF UiAssumption, TypesOK
  <1>3. running.api # Nothing => running.api \in Apis
    BY <1>1, <1>2 DEF Apis
  <1>4. running # Nothing
    BY <1>1, <1>2
  <1>5. running.name \in TaskNames
    BY <1>1 DEF Task
  <1> DEFINE ev(kind) == [kind |-> kind, name |-> running.name]
  <1>6. ASSUME NEW kind \in {"completed", "failed"}, Report(kind)
        PROVE  /\ UNCHANGED <<window, views>> /\ ev(kind) \in UiEvent
               /\ Shorter(Queue, Queue') /\ Longer(events, events', ev(kind))
    <2>1. ev(kind) \in UiEvent
      BY <1>5 DEF UiEvent
    <2>2. events' = Append(events, ev(kind)) /\ running' = Nothing /\ tasks' = tasks
          /\ UNCHANGED <<window, views>>
      BY <1>6 DEF Report
    <2>3. Shorter(Queue, Queue')
      BY <1>4, <2>2, Done
    <2>4. Longer(events, events', ev(kind))
      BY <2>1, <2>2, Reported
    <2> QED
      BY <2>1, <2>2, <2>3, <2>4
  <1>7. ASSUME NEW state, Becomes(state), running.api # Nothing
        PROVE  /\ session'[running.api] = state
               /\ \A a \in Apis : a # running.api => session'[a] = session[a]
    BY <1>2, <1>3, <1>7 DEF Becomes
  <1>8. FileTasks \cap {"connect", "disconnect"} = {}
    BY UiAssumption DEF UiAssumption, FileTasks
  <1>9. CASE LogIn
    <2>1. running.name = "connect" /\ running.api # Nothing /\ running.api \in Apis
      BY <1>1, <1>3, <1>8, <1>9 DEF LogIn, Running
    <2>2. CASE Now = "open" /\ Becomes("authenticated") /\ Report("completed")
      <3>1. Ends(ev("completed")) /\ ev("completed") \in UiEvent /\ UNCHANGED <<window, views>>
        BY <1>1, <1>6, <1>7, <1>8, <2>1, <2>2 DEF Ends, Now
      <3> QED
        BY <3>1
    <2>3. CASE Now \in {"open", "closed"} /\ Becomes("closed") /\ Report("failed")
      <3>1. Ends(ev("failed")) /\ ev("failed") \in UiEvent /\ UNCHANGED <<window, views>>
        BY <1>1, <1>6, <1>7, <1>8, <2>1, <2>3 DEF Ends, Now
      <3> QED
        BY <3>1
    <2> QED
      BY <1>9, <2>2, <2>3 DEF LogIn
  <1>10. CASE DoFileTask
    <2>1. running.name \in FileTasks
      BY <1>10 DEF DoFileTask, Running
    <2>2. CASE Authenticated(running.api) /\ UNCHANGED session /\ Report("completed")
      <3>1. running.api # Nothing /\ session[running.api] = "authenticated"
        BY <2>2 DEF Authenticated
      <3>2. Ends(ev("completed")) /\ ev("completed") \in UiEvent /\ UNCHANGED <<window, views>>
        BY <1>1, <1>3, <1>6, <1>8, <2>1, <2>2, <3>1 DEF Ends
      <3> QED
        BY <3>2
    <2>3. CASE UNCHANGED session /\ Report("failed")
      <3>1. Ends(ev("failed")) /\ ev("failed") \in UiEvent /\ UNCHANGED <<window, views>>
        BY <1>1, <1>3, <1>6, <1>8, <2>1, <2>3 DEF Ends
      <3> QED
        BY <3>1
    <2>4. CASE Authenticated(running.api) /\ Becomes("closed") /\ Report("failed")
      <3>1. running.api # Nothing /\ session[running.api] = "authenticated"
        BY <2>4 DEF Authenticated
      <3>2. Ends(ev("failed")) /\ ev("failed") \in UiEvent /\ UNCHANGED <<window, views>>
        BY <1>1, <1>3, <1>6, <1>7, <1>8, <2>1, <2>4, <3>1 DEF Ends
      <3> QED
        BY <3>2
    <2> QED
      BY <1>10, <2>2, <2>3, <2>4 DEF DoFileTask
  <1>11. CASE DoDisconnect
    <2>1. running.name = "disconnect" /\ running.api # Nothing /\ running.api \in Apis
      BY <1>1, <1>3, <1>8, <1>11 DEF DoDisconnect, Running
    <2>2. ASSUME NEW kind \in {"completed", "failed"},
                 Connected(running.api) /\ Becomes("closed") /\ Report(kind)
          PROVE  /\ Ends(ev(kind)) /\ ev(kind) \in UiEvent /\ UNCHANGED <<window, views>>
      BY <1>1, <1>6, <1>7, <1>8, <2>1, <2>2 DEF Ends
    <2>3. CASE ~Connected(running.api) /\ UNCHANGED session /\ Report("completed")
      <3>1. Ends(ev("completed")) /\ ev("completed") \in UiEvent /\ UNCHANGED <<window, views>>
        BY <1>1, <1>6, <1>8, <2>1, <2>3 DEF Ends
      <3> QED
        BY <3>1
    <2> QED
      BY <1>11, <2>2, <2>3 DEF DoDisconnect
  <1>12. CASE Dial
    <2>1. running.name = "connect" /\ running.api # Nothing /\ running.api \in Apis
          /\ session[running.api] = "fresh"
      BY <1>1, <1>3, <1>8, <1>12 DEF Dial, Running, Now
    <2>2. CASE Becomes("open") /\ UNCHANGED <<window, views, worker>>
      BY <1>1, <2>1, <2>2 DEF Becomes, worker, Queue
    <2>3. CASE UNCHANGED session /\ Report("failed")
      <3>1. Ends(ev("failed")) /\ ev("failed") \in UiEvent /\ UNCHANGED <<window, views>>
        BY <1>1, <1>6, <1>8, <2>1, <2>3 DEF Ends
      <3> QED
        BY <3>1
    <2> QED
      BY <1>12, <2>2, <2>3 DEF Dial
  <1> QED
    BY <1>9, <1>10, <1>11, <1>12

\* A queue without its head keeps the others in their order.
LEMMA Behind ==
  ASSUME NEW s, NEW t, Len(s) \in Nat, Shorter(s, t)
  PROVE  /\ Len(t) \in Nat
         /\ \A i \in 1..Len(t) : i + 1 \in 1..Len(s) /\ t[i] = s[i + 1]
         /\ \A names : Lacks(s, names) => Lacks(t, names)
         /\ FilesFirst(s) => FilesFirst(t)
  <1>1. Len(t) \in Nat /\ Len(s) = Len(t) + 1
    BY DEF Shorter
  <1>2. ASSUME NEW i \in 1..Len(t) PROVE i + 1 \in 1..Len(s) /\ t[i] = s[i + 1]
    <2>1. i + 1 \in 1..Len(s)
      BY <1>1
    <2> QED
      BY <2>1 DEF Shorter
  <1>3. ASSUME NEW names, Lacks(s, names) PROVE Lacks(t, names)
    <2>1. ASSUME NEW i \in 1..Len(t) PROVE t[i].name \notin names
      <3>1. i + 1 \in 1..Len(s) /\ t[i] = s[i + 1]
        BY <1>2
      <3> QED
        BY <1>3, <3>1 DEF Lacks
    <2> QED
      BY <2>1 DEF Lacks
  <1>4. ASSUME FilesFirst(s) PROVE FilesFirst(t)
    <2>1. ASSUME NEW i \in 1..Len(t), NEW j \in 1..Len(t), i < j, t[i].name = "connect"
          PROVE  t[j].name \notin FileTasks
      <3>1. /\ i + 1 \in 1..Len(s) /\ t[i] = s[i + 1]
            /\ j + 1 \in 1..Len(s) /\ t[j] = s[j + 1]
        BY <1>2
      <3>2. i + 1 < j + 1
        BY <1>1, <2>1
      <3>3. s[i + 1].name = "connect"
        BY <2>1, <3>1
      <3>4. s[j + 1].name \notin FileTasks
        BY <1>4, <3>1, <3>2, <3>3 DEF FilesFirst
      <3> QED
        BY <3>1, <3>4
    <2> QED
      BY <2>1 DEF FilesFirst
  <1> QED
    BY <1>1, <1>2, <1>3, <1>4

\* What a task that ends leaves in the queue stood behind it, and stands less well.
LEMMA EndsQueue ==
  ASSUME TypesOK, Always, NEW e, Ends(e)
  PROVE  /\ Len(Queue) \in Nat \ {0} /\ Len(Queue') = Len(Queue) - 1
         /\ \A i \in 1..Len(Queue') : /\ i + 1 \in 2..Len(Queue) /\ Queue'[i] = Queue[i + 1]
                                      /\ Stands(session', Queue'[i])
                                           => Stands(session, Queue[i + 1])
         /\ Len(events) \in Nat /\ Len(events') = Len(events) + 1
         /\ events'[Len(events) + 1] = e /\ \A i \in 1..Len(events) : events'[i] = events[i]
         /\ Won(e) => Stands(session, Queue[1])
         /\ \A a \in Apis : /\ session[a] = "closed" => session'[a] = "closed"
                            /\ session[a] = "fresh" => session'[a] = "fresh"
         /\ \A names : Lacks(Queue, names) => Lacks(Queue', names)
         /\ FilesFirst(Queue) => FilesFirst(Queue')
  <1>1. /\ Len(Queue) \in Nat \ {0} /\ Len(Queue') = Len(Queue) - 1
        /\ \A i \in 1..Len(Queue') : i + 1 \in 2..Len(Queue) /\ Queue'[i] = Queue[i + 1]
    BY Queues DEF Ends, Shorter
  <1>2. /\ Len(events) \in Nat /\ Len(events') = Len(events) + 1
        /\ events'[Len(events) + 1] = e /\ \A i \in 1..Len(events) : events'[i] = events[i]
    BY Queues DEF Ends, Longer
  <1>3. FileTasks \cap {"connect", "disconnect"} = {}
    BY UiAssumption DEF UiAssumption, FileTasks
  <1>4. \A a \in Apis : /\ session[a] = "closed" => session'[a] = "closed"
                        /\ session[a] = "fresh" => session'[a] = "fresh"
    BY <1>3, UiAssumption DEF Ends, Connected, UiAssumption
  <1>5. Won(e) => Stands(session, Queue[1])
    BY <1>3 DEF Ends, Won, Stands
  <1>6. ASSUME NEW i \in 1..Len(Queue'), Stands(session', Queue'[i])
         PROVE Stands(session, Queue[i + 1])
    <2>1. i + 1 \in 1..Len(Queue) /\ Queue'[i] = Queue[i + 1]
      BY <1>1
    <2>2. Queue[i + 1].api \in (1..connects) \cup {Nothing} /\ connects \in 0..MaxConnects
          /\ MaxConnects \in Nat
      BY <2>1, UiAssumption DEF Always, TypesOK, UiAssumption
    <2>3. Queue[i + 1].api \in Apis \cup {Nothing}
      BY <2>2 DEF Apis
    <2> QED
      BY <1>4, <1>6, <2>1, <2>3 DEF Stands
  <1>7. /\ \A names : Lacks(Queue, names) => Lacks(Queue', names)
        /\ FilesFirst(Queue) => FilesFirst(Queue')
    <2>1. Len(Queue) \in Nat /\ Shorter(Queue, Queue')
      BY <1>1 DEF Ends
    <2> QED
      BY ONLY <2>1, Behind
  <1> QED
    BY <1>1, <1>2, <1>4, <1>5, <1>6, <1>7

LEMMA OldQueueEnds ==
  ASSUME TypesOK, Always, NEW e, Ends(e), OldQueue
  PROVE  OldQueue'
  <1>1. FilesFirst(Queue')
    <2>1. FilesFirst(Queue)
      BY DEF OldQueue
    <2> QED
      BY <2>1, EndsQueue
  <1>2. ASSUME NEW i \in 1..Len(Queue'), NEW j \in 1..Len(Queue'), i < j,
                Stands(session', Queue'[i])
        PROVE  Queue'[j].name # "disconnect"
    <2>1. /\ i + 1 \in 1..Len(Queue) /\ j + 1 \in 1..Len(Queue) /\ i + 1 < j + 1
          /\ Queue'[j] = Queue[j + 1] /\ Stands(session, Queue[i + 1])
      BY <1>2, EndsQueue
    <2> QED
      BY <2>1 DEF OldQueue
  <1>3. ASSUME NEW i \in 1..Len(Queue'), Stands(session', Queue'[i])
        PROVE  Queue'[i].name \notin Transfers
    <2>1. /\ i + 1 \in 1..Len(Queue) /\ Queue'[i] = Queue[i + 1]
          /\ Stands(session, Queue[i + 1])
      BY <1>3, EndsQueue
    <2> QED
      BY <2>1 DEF OldQueue
  <1>4. FilesFirst(Queue)'
    BY <1>1 DEF FilesFirst
  <1> QED
    BY <1>2, <1>3, <1>4 DEF OldQueue

LEMMA OldEnds ==
  ASSUME TypesOK, Always, NEW e, Ends(e), Old
  PROVE  Old'
  <1> USE DEF Old
  <1>1. OldQueue'
    BY OldQueueEnds
  <1>2. /\ 1 \in 1..Len(Queue) /\ e.name = Queue[1].name
        /\ \A i \in 1..Len(events') :
             \/ i = Len(events) + 1 /\ events'[i] = e
             \/ i \in 1..Len(events) /\ events'[i] = events[i]
    BY EndsQueue DEF Ends
  <1>3. FilesFirst(events)'
    <2>1. SUFFICES ASSUME NEW i \in 1..Len(events'), NEW j \in 1..Len(events'), i < j,
                          events'[i].name = "connect"
                   PROVE  events'[j].name \notin FileTasks
      BY DEF FilesFirst
    <2>2. i \in 1..Len(events) /\ events'[i] = events[i]
      BY <1>2, <2>1, EndsQueue
    <2>3. CASE j = Len(events) + 1 /\ events'[j] = e
      BY <1>2, <2>1, <2>2, <2>3 DEF Lacks
    <2>4. CASE j \in 1..Len(events) /\ events'[j] = events[j]
      BY <2>1, <2>2, <2>4 DEF OldEvents, FilesFirst
    <2> QED
      BY <1>2, <2>3, <2>4
  <1>4. ASSUME NEW i \in 1..Len(events'), NEW j \in 1..Len(events'), i < j, Won(events'[i])
        PROVE  events'[j].name # "disconnect"
    <2>1. i \in 1..Len(events) /\ events'[i] = events[i]
      BY <1>2, <1>4, EndsQueue
    <2>2. CASE j = Len(events) + 1 /\ events'[j] = e
      BY <1>2, <1>4, <2>1, <2>2 DEF Lacks
    <2>3. CASE j \in 1..Len(events) /\ events'[j] = events[j]
      BY <1>4, <2>1, <2>3 DEF OldEvents
    <2> QED
      BY <1>2, <2>2, <2>3
  <1>5. ASSUME NEW i \in 1..Len(events'), Won(events'[i])
        PROVE  events'[i].name \notin Transfers
    <2>1. CASE events'[i] = e
      BY <1>2, <1>5, <2>1, EndsQueue DEF OldQueue
    <2>2. CASE i \in 1..Len(events) /\ events'[i] = events[i]
      BY <1>5, <2>2 DEF OldEvents
    <2> QED
      BY <1>2, <2>1, <2>2
  <1>6. OldEvents'
    <2>1. \A i, j \in 1..Len(events') : i < j /\ Won(events'[i]) => events'[j].name # "disconnect"
      BY <1>4
    <2>2. \A i \in 1..Len(events') : Won(events'[i]) => events'[i].name \notin Transfers
      BY <1>5
    <2> QED
      BY <1>3, <2>1, <2>2 DEF OldEvents, Won
  <1>7. Lacks(events', {"connect"}) \/ Lacks(Queue', FileTasks)
    <2>1. CASE Queue[1].name = "connect"
      <3>1. FilesFirst(Queue)
        BY DEF OldQueue
      <3>2. ASSUME NEW i \in 1..Len(Queue') PROVE Queue'[i].name \notin FileTasks
        <4>1. i + 1 \in 1..Len(Queue) /\ 1 < i + 1 /\ Queue'[i] = Queue[i + 1]
          BY EndsQueue
        <4> QED
          BY <1>2, <2>1, <3>1, <4>1 DEF FilesFirst
      <3>3. Lacks(Queue', FileTasks)
        BY <3>2 DEF Lacks
      <3> QED
        BY <3>3
    <2>2. CASE Queue[1].name # "connect" /\ Lacks(events, {"connect"})
      BY <1>2, <2>2 DEF Lacks
    <2>3. CASE Lacks(Queue, FileTasks)
      BY <2>3, EndsQueue
    <2> QED
      BY <2>1, <2>2, <2>3
  <1>8. (\A i \in 1..Len(events') : ~Won(events'[i])) \/ Lacks(Queue', {"disconnect"})
    <2>1. CASE Won(e)
      <3>1. Stands(session, Queue[1])
        BY <2>1, EndsQueue
      <3>2. ASSUME NEW i \in 1..Len(Queue') PROVE Queue'[i].name # "disconnect"
        <4>1. i + 1 \in 1..Len(Queue) /\ 1 < i + 1 /\ Queue'[i] = Queue[i + 1]
          BY EndsQueue
        <4> QED
          BY <1>2, <3>1, <4>1 DEF OldQueue
      <3>3. Lacks(Queue', {"disconnect"})
        BY <3>2 DEF Lacks
      <3> QED
        BY <3>3
    <2>2. CASE ~Won(e) /\ \A i \in 1..Len(events) : ~Won(events[i])
      BY <1>2, <2>2
    <2>3. CASE Lacks(Queue, {"disconnect"})
      BY <2>3, EndsQueue
    <2> QED
      BY <2>1, <2>2, <2>3
  <1> QED
    BY <1>1, <1>6, <1>7, <1>8 DEF Lacks, Won

LEMMA EndsAlways ==
  ASSUME TypesOK, TypesOK', OpenWindow, NEW e, Ends(e), UNCHANGED <<window, views>>
  PROVE  Always'
  <1>1. Always /\ UNCHANGED <<api, connects, dialog, polling, closing, pending, buttons, filesOn>>
    BY DEF OpenWindow, window, views
  <1>2. /\ api \in Apis \cup {Nothing} /\ Nothing \notin Apis /\ connects \in 0..MaxConnects
        /\ Apis = 1..MaxConnects /\ MaxConnects \in Nat
    BY UiAssumption DEF TypesOK, UiAssumption, Apis
  <1>3. \A i \in 1..Len(Queue') : /\ Queue'[i].api \in (1..connects') \cup {Nothing}
                                  /\ Queue'[i].api = Nothing => Queue'[i].name \in FileTasks
    BY <1>1, EndsQueue DEF Always
  <1>4. \A a \in Apis : a > connects' => session'[a] = "fresh"
    BY <1>1, EndsQueue DEF Always
  <1>5. 1 \in 1..Len(Queue) /\ e.name = Queue[1].name
    BY <1>1, EndsQueue DEF Ends
  <1>6. ASSUME dialog # Nothing
        PROVE  /\ Lacks(Queue', {"connect"})
               /\ api = Nothing /\ ~polling => Lacks(events', {"connect"})
               /\ api # Nothing => session'[api] \in {"authenticated", "closed"}
    <2>1. Lacks(Queue, {"connect"})
      BY <1>1, <1>6 DEF Always
    <2>2. Lacks(Queue', {"connect"})
      BY <1>1, <2>1, EndsQueue DEF Lacks
    <2>3. e.name # "connect"
      BY <1>5, <2>1 DEF Lacks
    <2>4. ASSUME api = Nothing, ~polling PROVE Lacks(events', {"connect"})
      <3>1. Lacks(events, {"connect"})
        BY <1>1, <1>6, <2>4 DEF Always
      <3>2. ASSUME NEW i \in 1..Len(events') PROVE events'[i].name \notin {"connect"}
        <4>1. \/ i = Len(events) + 1 /\ events'[i] = e
              \/ i \in 1..Len(events) /\ events'[i] = events[i]
          BY <1>1, EndsQueue
        <4> QED
          BY <2>3, <3>1, <4>1 DEF Lacks
      <3> QED
        BY <3>2 DEF Lacks
    <2>5. ASSUME api # Nothing PROVE session'[api] \in {"authenticated", "closed"}
      <3>1. session[api] \in {"authenticated", "closed"} /\ api \in Apis
        BY <1>1, <1>2, <1>6, <2>5 DEF Always
      <3>2. CASE Queue[1].api # api
        BY <3>1, <3>2 DEF Ends
      <3>3. CASE Queue[1].api = api
        <4>1. Queue[1].name # "connect"
          BY <1>5, <2>1 DEF Lacks
        <4> QED
          BY <2>5, <3>1, <3>3, <4>1 DEF Ends, Connected
      <3> QED
        BY <3>2, <3>3
    <2> QED
      BY <2>2, <2>4, <2>5
  <1>7. ASSUME ~Connected(api)'
        PROVE  Len(Queue') + Clicks' + One(dialog # Nothing)' <= 5
    <2>1. PICK q \in Nat, c \in Nat, c1 \in Nat, d \in Nat :
            /\ q = Len(Queue') /\ Len(Queue) = q + 1
            /\ c = Clicks /\ c1 = Clicks' /\ d = One(dialog # Nothing) /\ d = One(dialog # Nothing)'
            /\ c1 <= c + 1 /\ (api # Nothing => c1 <= 1)
      <3>1. Len(Queue') \in Nat /\ Len(Queue) = Len(Queue') + 1
        BY <1>1, EndsQueue
      <3>2. Clicks \in Nat /\ Clicks' \in Nat /\ One(dialog # Nothing) \in Nat
        BY DEF Clicks, One
      <3>3. Clicks' <= Clicks + 1 /\ (api # Nothing => Clicks' <= 1)
        BY <1>1 DEF Clicks, One
      <3>4. One(dialog # Nothing)' = One(dialog # Nothing)
        BY <1>1 DEF One
      <3> QED
        BY <3>1, <3>2, <3>3, <3>4
    <2>2. q + c1 + d <= 5
      <3>1. c1 <= c + 1 /\ (api # Nothing => c1 <= 1)
        BY <2>1
      <3>2. CASE ~Connected(api)
        <4>1. q + 1 + c + d <= 5
          BY <1>1, <2>1, <3>2 DEF Always
        <4> QED
          BY <3>1, <4>1
      <3>3. CASE api # Nothing /\ session[api] = "open"
        <4>1. WhileOpen /\ dialog = Nothing
          BY <1>1, <3>3 DEF OpenWindow, Phase, Always
        <4>2. q + 1 <= 3
          BY <2>1, <4>1 DEF WhileOpen, One
        <4>3. d = 0
          BY <2>1, <4>1 DEF One
        <4> QED
          BY <3>1, <3>3, <4>2, <4>3
      <3>4. CASE api # Nothing /\ session[api] = "authenticated"
        <4>1. WhileIn
          BY <3>4 DEF OpenWindow, Phase
        <4>2. q + 1 + d <= 5
          BY <2>1, <4>1, Few
        <4> QED
          BY <3>1, <3>4, <4>2
      <3> QED
        BY <3>2, <3>3, <3>4 DEF Connected
    <2> QED
      BY <2>1, <2>2
  <1>8. api' \in {Nothing, connects'}
    BY <1>1 DEF Always
  <1> QED
    BY <1>1, <1>3, <1>4, <1>6, <1>7, <1>8 DEF Always

\* A file task of the session becomes an event of its.
LEMMA LateEnds ==
  ASSUME NEW y \in Nat \ {0}, NEW own \in Nat, NEW dead \in Nat, NEW poll, NEW on,
         NEW free, NEW dlg, LateRoom(y, own, dead, poll, on, free, dlg)
  PROVE  LateRoom(y - 1, own + 1, dead, poll, on, free, dlg)
  BY DEF LateRoom, One

LEMMA EndsIn ==
  ASSUME TypesOK, TypesOK', Always, NEW e, Ends(e), UNCHANGED <<window, views>>,
         api # Nothing, session[api] = "authenticated", WhileIn
  PROVE  /\ session'[api] \in {"authenticated", "closed"}
         /\ session'[api] = "authenticated" => WhileIn'
         /\ session'[api] = "closed" => WhileClosed'
  <1>1. UNCHANGED <<api, connects, dialog, polling, closing, pending, buttons, filesOn>>
    BY DEF window, views
  <1>2. FileTasks \cap {"connect", "disconnect"} = {}
    BY UiAssumption DEF UiAssumption, FileTasks
  <1>3. /\ 1 \in 1..Len(Queue) /\ e.name = Queue[1].name /\ Queue[1].api = api
        /\ Queue[1].name \in FileTasks \cup {"disconnect"}
    BY EndsQueue DEF Ends, WhileIn
  <1>4. session'[api] \in {"authenticated", "closed"}
    BY <1>2, <1>3 DEF Ends
  <1>5. \A i \in 1..Len(Queue') : /\ Queue'[i].api = api
                                  /\ Queue'[i].name \in FileTasks \cup {"disconnect"}
    <2>1. \A i \in 1..Len(Queue) : /\ Queue[i].api = api
                                   /\ Queue[i].name \in FileTasks \cup {"disconnect"}
      BY DEF WhileIn
    <2> QED
      BY <2>1, EndsQueue
  <1>6. ASSUME session'[api] = "closed" PROVE WhileClosed'
    BY <1>1, <1>2, <1>5 DEF WhileClosed, FilesFirst
  <1>7. ASSUME session'[api] = "authenticated" PROVE WhileIn'
    <2>1. Queue[1].name # "disconnect" /\ Queue[1].name \in FileTasks
      BY <1>3, <1>7 DEF Ends, Connected
    <2>2. PICK y \in 0..Len(Queue), z \in 0..Len(events) : Split(y, z)
      BY DEF WhileIn
    <2>3. PICK q \in Nat, n \in Nat : /\ q = Len(Queue) /\ n = Len(events)
                                      /\ Len(Queue') = q - 1 /\ Len(events') = n + 1
      BY EndsQueue
    <2>4. y # 0
      BY <1>3, <2>1, <2>2 DEF Split, Live
    <2>5. /\ y \in Nat \ {0} /\ z \in Nat /\ q - y \in Nat /\ z <= n
          /\ (q - 1) - (y - 1) = q - y /\ (y - 1) + (n + 1) - z = y + n - z
          /\ y - 1 \in 0..Len(Queue') /\ z \in 0..Len(events')
      BY <2>2, <2>3, <2>4
    <2>6. Live(y - 1)'
      <3>1. ASSUME NEW i \in 1..y - 1 PROVE Queue'[i].name \in FileTasks
        <4>1. i \in 1..Len(Queue') /\ i + 1 \in 1..y
          BY <2>3, <2>5
        <4> QED
          BY <2>2, <4>1, EndsQueue DEF Split, Live
      <3>2. ASSUME y - 1 < Len(Queue') PROVE Queue'[y].name = "disconnect"
        <4>1. y \in 1..Len(Queue') /\ y < Len(Queue)
          BY <2>3, <2>5, <3>2
        <4> QED
          BY <2>2, <4>1, EndsQueue DEF Split, Live
      <3>3. (y - 1) + 1 = y
        BY <2>5
      <3> QED
        BY <3>1, <3>2, <3>3 DEF Live
    <2>7. \A i \in 1..z : i \in 1..Len(events) /\ events'[i] = events[i]
      BY <2>3, <2>5, EndsQueue
    <2>8. Learnt(z)'
      <3>1. ASSUME NEW j \in z + 1..Len(events') PROVE events'[j].name \in FileTasks
        <4>1. CASE j = Len(events) + 1
          BY <1>3, <2>1, <4>1, EndsQueue
        <4>2. CASE j # Len(events) + 1
          <5>1. j \in z + 1..Len(events) /\ j \in 1..Len(events)
            BY <2>3, <2>5, <4>2
          <5> QED
            BY <2>2, <5>1, EndsQueue DEF Split, Learnt
        <4> QED
          BY <4>1, <4>2
      <3>2. ASSUME z > 0
            PROVE  /\ events'[z].kind = "completed" /\ events'[z].name = "connect"
                   /\ \A i, j \in 1..z - 1 : i < j /\ events'[i].name = "connect"
                                               => events'[j].name \notin FileTasks
                   /\ \A i \in 1..z - 1 : Won(events'[i]) => events'[i].name \notin Transfers
        <4>1. z \in 1..z /\ \A i \in 1..z - 1 : i \in 1..z
          BY <2>5, <3>2
        <4> QED
          BY <2>2, <2>7, <3>2, <4>1 DEF Split, Learnt
      <3> QED
        BY <3>1, <3>2 DEF Learnt, Won
    <2>9. OldFile(z)' = OldFile(z)
      <3>1. \A i \in 1..z - 1 : events'[i] = events[i]
        BY <2>5, <2>7
      <3> QED
        BY <3>1 DEF OldFile
    <2>10. Split(y - 1, z)'
      <3>1. CASE z = 0
        <4>1. LateRoom(y, n, q - y, polling, On, ~pending, dialog # Nothing)
          BY <2>2, <2>3, <3>1 DEF Split, Late
        <4>2. LateRoom(y - 1, n + 1, q - y, polling, On, ~pending, dialog # Nothing)
          BY <2>5, <4>1, LateEnds
        <4>3. Late(y - 1)'
          BY <1>1, <2>3, <2>5, <4>2 DEF Late, On
        <4> QED
          BY <2>6, <2>8, <3>1, <4>3 DEF Split
      <3>2. CASE z # 0
        <4>1. EarlyRoom(y + n - z, q - y, OldFile(z), polling, On, ~pending, dialog # Nothing)
          BY <2>2, <2>3, <3>2 DEF Split, Early
        <4>2. Early(y - 1, z)'
          BY <1>1, <2>3, <2>5, <2>9, <4>1 DEF Early, On
        <4> QED
          BY <2>6, <2>8, <3>2, <4>2 DEF Split
      <3> QED
        BY <3>1, <3>2
    <2>11. Lacks(events, {"disconnect"}) => Lacks(events', {"disconnect"})
      <3>1. ASSUME NEW i \in 1..Len(events') PROVE \/ events'[i] = e
                                                   \/ i \in 1..Len(events) /\ events'[i] = events[i]
        BY EndsQueue
      <3> QED
        BY <1>2, <1>3, <2>1, <3>1 DEF Lacks
    <2>12. (\A i \in 1..Len(Queue) : Queue[i].name = "refresh")
              => \A i \in 1..Len(Queue') : Queue'[i].name = "refresh"
      BY EndsQueue
    <2>13. /\ dialog' # Nothing /\ pending' => On'
           /\ \/ Lacks(events', {"disconnect"})
              \/ /\ \A i \in 1..Len(Queue') : Queue'[i].name = "refresh"
                 /\ dialog' = Nothing
                 /\ polling' \/ NothingOffered'
      <3>1. On' = On /\ NothingOffered' = NothingOffered
        BY <1>1 DEF On, NothingOffered
      <3> QED
        BY <1>1, <2>11, <2>12, <3>1 DEF WhileIn
    <2> QED
      BY <1>1, <1>5, <2>5, <2>10, <2>13 DEF WhileIn
  <1> QED
    BY <1>4, <1>6, <1>7

LEMMA EarlyStarts ==
  ASSUME NEW dead \in Nat, NEW old, NEW poll, NEW on, NEW free, NEW some, old => some,
         dead + (IF poll THEN One(on \/ some) ELSE One(on) + One(some)) <= 2
  PROVE  EarlyRoom(0, dead, old, poll, on, free, FALSE)
  BY DEF EarlyRoom, One

\* The login: what the window does not know of the session yet is the login itself.
LEMMA EndsOpen ==
  ASSUME TypesOK, TypesOK', Always, NEW e \in UiEvent, Ends(e), UNCHANGED <<window, views>>,
         api # Nothing, session[api] = "open", WhileOpen
  PROVE  /\ session'[api] \in {"authenticated", "closed"}
         /\ session'[api] = "authenticated" => WhileIn'
         /\ session'[api] = "closed" => WhileClosed'
  <1>1. /\ UNCHANGED <<api, connects, dialog, polling, closing, pending, buttons, filesOn>>
        /\ dialog = Nothing
    BY DEF window, views, Always
  <1>2. FileTasks \cap {"connect", "disconnect"} = {}
    BY UiAssumption DEF UiAssumption, FileTasks
  <1>3. /\ Queue[1].name = "connect" /\ Queue[1].api = api /\ e.name = "connect"
        /\ \A i \in 2..Len(Queue) : Queue[i].name = "disconnect" /\ Queue[i].api = api
    BY DEF WhileOpen, Ends
  <1>4. /\ session'[api] \in {"authenticated", "closed"}
        /\ session'[api] = "authenticated" => e.kind = "completed"
    BY <1>3 DEF Ends
  <1>5. \A i \in 1..Len(Queue') : Queue'[i].api = api /\ Queue'[i].name = "disconnect"
    <2>1. ASSUME NEW i \in 1..Len(Queue')
          PROVE  Queue'[i].api = api /\ Queue'[i].name = "disconnect"
      <3>1. i + 1 \in 2..Len(Queue) /\ Queue'[i] = Queue[i + 1]
        BY EndsQueue
      <3> QED
        BY <1>3, <3>1
    <2> QED
      BY <2>1
  <1>6. ASSUME session'[api] = "closed" PROVE WhileClosed'
    BY <1>1, <1>5 DEF WhileClosed, FilesFirst
  <1>7. ASSUME session'[api] = "authenticated" PROVE WhileIn'
    <2>1. PICK q \in Nat, n \in Nat : /\ Len(Queue) = q + 1 /\ n = Len(events)
                                      /\ Len(Queue') = q /\ Len(events') = n + 1
      <3>1. Len(Queue') = Len(Queue) - 1 /\ Len(Queue) \in Nat \ {0}
            /\ Len(events') = Len(events) + 1 /\ Len(events) \in Nat
        BY EndsQueue
      <3> QED
        BY <3>1
    <2>2. Live(0)'
      <3>1. 0 < Len(Queue') => Queue'[0 + 1].name = "disconnect"
        BY <1>5, <2>1
      <3> QED
        BY <3>1 DEF Live
    <2>3. \A i \in 1..n : events'[i] = events[i]
      BY <2>1, EndsQueue
    <2>4. events'[n + 1] = e
      BY <2>1, EndsQueue
    <2>5. Learnt(n + 1)'
      <3>1. \A i, j \in 1..n : i < j /\ events'[i].name = "connect"
                                 => events'[j].name \notin FileTasks
        BY <2>1, <2>3 DEF WhileOpen, OldEvents, FilesFirst
      <3>2. \A i \in 1..n : Won(events'[i]) => events'[i].name \notin Transfers
        BY <2>1, <2>3 DEF WhileOpen, OldEvents
      <3>3. (n + 1) - 1 = n /\ (n + 1) + 1..Len(events') = {}
        BY <2>1
      <3> QED
        BY <1>3, <1>4, <1>7, <2>4, <3>1, <3>2, <3>3 DEF Learnt, Won
    <2>6. OldFile(n + 1)' => events # <<>>
      BY <2>1, Queues DEF OldFile
    <2>7. EarlyRoom(0, q, OldFile(n + 1)', polling, On, ~pending, FALSE)
      <3> DEFINE old == OldFile(n + 1)'
                 some == events # <<>>
                 free == ~pending
      <3>1. q + (IF polling THEN One(On \/ some) ELSE One(On) + One(some)) <= 2
        <4>1. PICK m \in Nat : m = IF polling THEN One(On \/ some) ELSE One(On) + One(some)
          BY DEF One
        <4>2. q + 1 + m <= 3
          BY <2>1, <4>1 DEF WhileOpen
        <4> QED
          BY <4>1, <4>2
      <3>2. old => some
        BY <2>6
      <3> HIDE DEF old, some, free
      <3>3. EarlyRoom(0, q, old, polling, On, free, FALSE)
        BY <3>1, <3>2, EarlyStarts
      <3> QED
        BY <3>3 DEF old, free
    <2>8. Split(0, n + 1)'
      <3>1. 0 + (n + 1) - (n + 1) = 0 /\ q - 0 = q /\ n + 1 # 0
        BY <2>1
      <3>2. On' = On /\ (dialog' # Nothing) = FALSE
        BY <1>1 DEF On
      <3>3. EarlyRoom(0 + (n + 1) - (n + 1), q - 0, OldFile(n + 1)', polling', On',
                      ~pending', dialog' # Nothing)
        BY <1>1, <2>7, <3>1, <3>2
      <3>4. Early(0, n + 1)'
        BY <2>1, <3>3 DEF Early
      <3> QED
        BY <2>2, <2>5, <3>1, <3>4 DEF Split
    <2>9. \/ Lacks(events', {"disconnect"})
          \/ /\ \A i \in 1..Len(Queue') : Queue'[i].name = "refresh"
             /\ dialog' = Nothing
             /\ polling' \/ NothingOffered'
      <3>1. CASE Len(Queue) = 1 /\ (polling \/ NothingOffered)
        <4>1. Len(Queue') = 0
          <5>1. q + 1 = 1
            BY <2>1, <3>1
          <5>2. q = 0
            BY <5>1
          <5> QED
            BY <2>1, <5>2
        <4>2. \A i \in 1..Len(Queue') : FALSE
          BY <4>1
        <4>3. NothingOffered' = NothingOffered
          BY <1>1 DEF NothingOffered, On
        <4> QED
          BY <1>1, <3>1, <4>2, <4>3
      <3>2. CASE Lacks(events, {"disconnect"})
        <4>1. ASSUME NEW i \in 1..Len(events') PROVE \/ events'[i] = e
                                                     \/ i \in 1..Len(events)
                                                        /\ events'[i] = events[i]
          BY EndsQueue
        <4>2. Lacks(events', {"disconnect"})
          BY <1>3, <3>2, <4>1 DEF Lacks
        <4> QED
          BY <4>2
      <3> QED
        BY <3>1, <3>2 DEF WhileOpen
    <2>10. 0 \in 0..Len(Queue') /\ n + 1 \in 0..Len(events')
      BY <2>1
    <2> QED
      BY <1>1, <1>5, <2>8, <2>9, <2>10 DEF WhileIn
  <1> QED
    BY <1>4, <1>6, <1>7

LEMMA EndsKeeps ==
  ASSUME TypesOK, TypesOK', OpenWindow, NEW e \in UiEvent, Ends(e), UNCHANGED <<window, views>>
  PROVE  OpenWindow'
  <1>1. /\ UNCHANGED <<api, connects, dialog, polling, closing, pending, buttons, filesOn>>
        /\ Always
    BY DEF window, views, OpenWindow
  <1>2. Always'
    BY EndsAlways
  <1>3. /\ api # Nothing => api \in Apis
        /\ session \in [Apis -> {"fresh", "open", "authenticated", "closed"}]
    BY DEF TypesOK
  <1>4. FileTasks \cap {"connect", "disconnect"} = {}
    BY UiAssumption DEF UiAssumption, FileTasks
  <1>5. CASE api = Nothing
    <2>1. WhileNothing'
      BY <1>1, <1>5, OldQueueEnds, OldEnds DEF OpenWindow, WhileNothing
    <2> QED
      BY <1>1, <1>2, <1>5, <2>1 DEF OpenWindow, Phase
  <1>6. CASE api # Nothing /\ session[api] = "fresh"
    <2>1. session'[api] = "fresh"
      BY <1>1, <1>3, <1>6, EndsQueue
    <2>2. WhileFresh
      BY <1>6 DEF OpenWindow, Phase
    <2>3. Old'
      BY <1>1, <2>2, OldEnds DEF WhileFresh
    <2>4. ASSUME NEW i \in 1..Len(Queue'), Queue'[i].api = api
          PROVE  i = Len(Queue') /\ Queue'[i].name = "connect"
      <3>1. i + 1 \in 1..Len(Queue) /\ Queue'[i] = Queue[i + 1] /\ Len(Queue') = Len(Queue) - 1
            /\ Len(Queue) \in Nat
        BY <1>1, EndsQueue
      <3>2. i + 1 = Len(Queue) /\ Queue[i + 1].name = "connect"
        BY <2>2, <2>4, <3>1 DEF WhileFresh
      <3> QED
        BY <3>1, <3>2
    <2>5. NoDisconnect => NoDisconnect'
      <3>1. ASSUME NoDisconnect, NEW i \in 1..Len(events')
            PROVE  events'[i].name # "disconnect"
        <4>1. e.name # "disconnect"
          BY <1>1, <3>1, EndsQueue DEF NoDisconnect, Lacks, Ends
        <4>2. \/ events'[i] = e
              \/ i \in 1..Len(events) /\ events'[i] = events[i]
          BY <1>1, EndsQueue
        <4> QED
          BY <3>1, <4>1, <4>2 DEF NoDisconnect, Lacks
      <3>2. ASSUME NoDisconnect, NEW i \in 1..Len(Queue')
            PROVE  Queue'[i].name # "disconnect"
        BY <1>1, <3>2, EndsQueue DEF NoDisconnect, Lacks
      <3> QED
        BY <3>1, <3>2 DEF NoDisconnect, Lacks
    <2>6. WhileFresh'
      BY <1>1, <2>2, <2>3, <2>4, <2>5 DEF WhileFresh, NothingOffered, On
    <2> QED
      BY <1>1, <1>2, <1>6, <2>1, <2>6 DEF OpenWindow, Phase
  <1>7. CASE api # Nothing /\ session[api] = "open"
    <2>1. WhileOpen
      BY <1>7 DEF OpenWindow, Phase
    <2> QED
      BY <1>1, <1>2, <1>7, <2>1, EndsOpen DEF OpenWindow, Phase
  <1>8. CASE api # Nothing /\ session[api] = "authenticated"
    <2>1. WhileIn
      BY <1>8 DEF OpenWindow, Phase
    <2> QED
      BY <1>1, <1>2, <1>8, <2>1, EndsIn DEF OpenWindow, Phase
  <1>9. CASE api # Nothing /\ session[api] = "closed"
    <2>1. session'[api] = "closed"
      BY <1>1, <1>3, <1>9, EndsQueue
    <2>2. WhileClosed
      BY <1>9 DEF OpenWindow, Phase
    <2>3. WhileClosed'
      <3>1. FilesFirst(Queue')
        BY <1>1, <2>2, EndsQueue DEF WhileClosed
      <3>2. ASSUME NEW i \in 1..Len(Queue') PROVE Queue'[i].api = api
        <4>1. i + 1 \in 1..Len(Queue) /\ Queue'[i] = Queue[i + 1]
          BY <1>1, EndsQueue
        <4> QED
          BY <2>2, <4>1 DEF WhileClosed
      <3>3. FilesFirst(Queue)'
        BY <3>1 DEF FilesFirst
      <3> QED
        BY <1>1, <3>2, <3>3 DEF WhileClosed
    <2> QED
      BY <1>1, <1>2, <1>9, <2>1, <2>3 DEF OpenWindow, Phase
  <1> QED
    BY <1>3, <1>5, <1>6, <1>7, <1>8, <1>9

LEMMA SameKeeps ==
  ASSUME OpenWindow, Queue' = Queue, UNCHANGED <<events, session, window, views>>
  PROVE  OpenWindow'
  <1>1. UNCHANGED <<api, connects, dialog, polling, closing, pending, buttons, filesOn>>
    BY DEF window, views
  <1>2. Always' = Always
    BY <1>1 DEF Always, Lacks, Clicks, Connected
  <1>3. OldQueue' = OldQueue /\ OldEvents' = OldEvents
    BY <1>1 DEF OldQueue, OldEvents, FilesFirst, Stands, Won
  <1>4. Old' = Old
    BY <1>3 DEF Old, Lacks, Won
  <1>5. NothingOffered' = NothingOffered /\ NoDisconnect' = NoDisconnect /\ On' = On
    BY <1>1 DEF NothingOffered, NoDisconnect, Lacks, On
  <1>6. WhileNothing' = WhileNothing /\ WhileFresh' = WhileFresh
    BY <1>1, <1>3, <1>4, <1>5 DEF WhileNothing, WhileFresh
  <1>7. WhileOpen' = WhileOpen
    BY <1>1, <1>3, <1>5 DEF WhileOpen, Lacks
  <1>8. WhileClosed' = WhileClosed
    BY <1>1 DEF WhileClosed, FilesFirst
  <1>9. WhileIn' = WhileIn
    <2>1. ASSUME NEW y, NEW z PROVE Split(y, z)' = Split(y, z)
      BY <1>1, <1>5 DEF Split, Live, Learnt, Won, Late, Early, OldFile
    <2> QED
      BY <1>1, <1>5, <2>1 DEF WhileIn, Lacks
  <1> QED
    BY <1>1, <1>2, <1>6, <1>7, <1>8, <1>9 DEF OpenWindow, Phase

LEMMA DialKeeps ==
  ASSUME TypesOK, TypesOK', OpenWindow, Queue' = Queue, UNCHANGED <<events, window, views>>,
         running \in Task, running.name = "connect", Queue[1] = running, running # Nothing,
         session[running.api] = "fresh",
         session' = [session EXCEPT ![running.api] = "open"]
  PROVE  OpenWindow'
  <1>1. UNCHANGED <<api, connects, dialog, polling, closing, pending, buttons, filesOn>>
        /\ Always
    BY DEF window, views, OpenWindow
  <1>2. /\ FileTasks \cap {"connect", "disconnect"} = {} /\ Nothing \notin Apis
        /\ MaxConnects \in Nat /\ connects \in 0..MaxConnects
        /\ session \in [Apis -> {"fresh", "open", "authenticated", "closed"}]
        /\ api # Nothing => api \in Apis
    BY UiAssumption DEF UiAssumption, FileTasks, TypesOK
  <1>3. /\ 1 \in 1..Len(Queue) /\ running.api \in 1..connects /\ running.api \in Apis
    <2>1. 1 \in 1..Len(Queue)
      BY Queues
    <2>2. running.api \in 1..connects
      BY <1>1, <1>2, <2>1 DEF Always
    <2> QED
      BY <1>2, <2>1, <2>2 DEF Apis
  <1>4. /\ session'[running.api] = "open"
        /\ \A a \in Apis : a # running.api => session'[a] = session[a]
        /\ \A a \in Apis : session'[a] = "closed" <=> session[a] = "closed"
    BY <1>2, <1>3
  <1>5. \A i \in 1..Len(Queue) : Stands(session', Queue[i]) <=> Stands(session, Queue[i])
    <2>1. \A i \in 1..Len(Queue) : Queue[i].api \in Apis \cup {Nothing}
      BY <1>1, <1>2 DEF Always, Apis
    <2> QED
      BY <1>4, <2>1 DEF Stands
  <1>6. (OldQueue => OldQueue') /\ (OldEvents => OldEvents')
    BY <1>5 DEF OldQueue, OldEvents, FilesFirst, Won
  <1>7. Old => Old'
    BY <1>6 DEF Old, Lacks, Won
  <1>8. NothingOffered' = NothingOffered /\ NoDisconnect' = NoDisconnect /\ On' = On
    BY <1>1 DEF NothingOffered, NoDisconnect, Lacks, On
  <1>9. CASE api # running.api
    <2>1. api # Nothing => session'[api] = session[api]
      BY <1>2, <1>4, <1>9
    <2>2. Always'
      <3>1. \A a \in Apis : a > connects' => session'[a] = "fresh"
        BY <1>1, <1>2, <1>3, <1>4 DEF Always
      <3>2. Connected(api)' = Connected(api)
        BY <1>1, <2>1 DEF Connected
      <3>3. Clicks' = Clicks /\ One(dialog # Nothing)' = One(dialog # Nothing)
        BY <1>1 DEF Clicks, One
      <3> QED
        BY <1>1, <2>1, <3>1, <3>2, <3>3 DEF Always, Lacks
    <2>3. WhileNothing => WhileNothing'
      BY <1>1, <1>6, <1>7 DEF WhileNothing
    <2>4. WhileFresh => WhileFresh'
      BY <1>1, <1>7, <1>8 DEF WhileFresh
    <2>5. WhileOpen => WhileOpen'
      BY <1>1, <1>6, <1>8 DEF WhileOpen, Lacks
    <2>6. WhileClosed => WhileClosed'
      BY <1>1 DEF WhileClosed, FilesFirst
    <2>7. WhileIn => WhileIn'
      <3>1. ASSUME NEW y, NEW z PROVE Split(y, z)' = Split(y, z)
        BY <1>1, <1>8 DEF Split, Live, Learnt, Won, Late, Early, OldFile
      <3> QED
        BY <1>1, <1>8, <3>1 DEF WhileIn, Lacks
    <2> QED
      BY <1>1, <2>1, <2>2, <2>3, <2>4, <2>5, <2>6, <2>7 DEF OpenWindow, Phase
  <1>10. CASE api = running.api
    <2>1. api # Nothing /\ session'[api] = "open" /\ WhileFresh
      BY <1>2, <1>3, <1>4, <1>10 DEF OpenWindow, Phase
    <2>2. Len(Queue) = 1 /\ Queue[1] = [name |-> "connect", api |-> api]
      BY <1>3, <1>10, <2>1 DEF WhileFresh, Task
    <2>3. dialog = Nothing
      BY <1>1, <1>10, <2>1 DEF Always
    <2>4. Always'
      <3>1. \A a \in Apis : a > connects' => session'[a] = "fresh"
        BY <1>1, <1>2, <1>3, <1>4 DEF Always
      <3>2. Connected(api)'
        BY <1>1, <2>1 DEF Connected
      <3> QED
        BY <1>1, <2>3, <3>1, <3>2 DEF Always
    <2>5. WhileOpen'
      <3>1. OldEvents'
        BY <1>6, <2>1 DEF WhileFresh, Old
      <3>2. \/ Len(Queue) = 1 /\ (polling \/ NothingOffered)
            \/ Lacks(events, {"disconnect"})
        BY <2>1, <2>2 DEF WhileFresh, NoDisconnect
      <3>3. Len(Queue) + (IF polling THEN One(On \/ events # <<>>)
                                     ELSE One(On) + One(events # <<>>)) <= 3
        BY <2>2 DEF One
      <3>4. Len(Queue) > 0 /\ \A i \in 2..Len(Queue) : FALSE
        BY <2>2
      <3> QED
        BY <1>1, <1>8, <2>2, <3>1, <3>2, <3>3, <3>4 DEF WhileOpen, Lacks
    <2> QED
      BY <1>1, <2>1, <2>4, <2>5 DEF OpenWindow, Phase
  <1> QED
    BY <1>9, <1>10

LEMMA WorkerKeeps ==
  ASSUME TypesOK, TypesOK', QueueInv, WorkerStep
  PROVE  QueueInv'
  <1>1. UNCHANGED <<window, views>>
    BY DEF WorkerStep, Take, Dial, LogIn, DoFileTask, DoDisconnect, Report
  <1>2. CASE closing
    <2>1. Len(tasks') <= Len(tasks) /\ Len(tasks) \in Nat /\ Len(tasks') \in Nat
      <3>1. tasks' = tasks \/ (tasks # <<>> /\ tasks' = Tail(tasks))
        BY DEF WorkerStep, Take, Dial, LogIn, DoFileTask, DoDisconnect, Report, worker
      <3> QED
        BY <3>1 DEF TypesOK
    <2>2. dialog' = dialog /\ polling' = polling /\ closing' = closing
      BY <1>1 DEF window
    <2>3. dialog = Nothing /\ ~polling /\ Len(tasks) <= 6
      BY <1>2 DEF QueueInv
    <2>4. Len(tasks') <= 6
      BY <2>1, <2>3
    <2> QED
      BY <1>2, <2>2, <2>3, <2>4 DEF QueueInv
  <1>3. CASE ~closing
    <2>1. OpenWindow /\ Always /\ ~closing'
      BY <1>1, <1>3 DEF QueueInv, OpenWindow, window
    <2>2. CASE Take
      BY <2>1, <2>2, Taken, SameKeeps DEF QueueInv, Take
    <2>3. CASE LogIn \/ DoFileTask \/ DoDisconnect \/ Dial
      <3>1. CASE \E e \in UiEvent : Ends(e)
        BY <1>1, <2>1, <3>1, EndsKeeps DEF QueueInv
      <3>2. CASE ~\E e \in UiEvent : Ends(e)
        <4>1. /\ Queue' = Queue /\ events' = events
              /\ running \in Task /\ running.name = "connect" /\ Queue[1] = running
              /\ session[running.api] = "fresh"
              /\ session' = [session EXCEPT ![running.api] = "open"]
          BY <2>1, <2>3, <3>2, WorkerEnds
        <4>2. running # Nothing
          BY <4>1, UiAssumption DEF UiAssumption
        <4> QED
          BY <1>1, <2>1, <4>1, <4>2, DialKeeps DEF QueueInv
      <3> QED
        BY <3>1, <3>2
    <2> QED
      BY <2>2, <2>3 DEF WorkerStep
  <1> QED
    BY <1>2, <1>3

--------------------------------------------------------------------------------
(* The poll begins and ends.                                                    *)

LEMMA Sizes ==
  ASSUME TypesOK, NEW y \in 0..Len(Queue), NEW z \in 0..Len(events)
  PROVE  /\ y \in Nat /\ z \in Nat /\ Len(Queue) - y \in Nat /\ Len(events) \in Nat
         /\ y + Len(events) - z \in Nat /\ y <= y + Len(events) - z
         /\ Len(Queue) \in Nat
  <1>1. Len(Queue) \in Nat /\ Len(events) \in Nat
    BY Queues
  <1> QED
    BY <1>1

LEMMA RoomPolled ==
  ASSUME NEW y \in Nat, NEW own \in Nat, NEW dead \in Nat, NEW old, NEW on, NEW free, NEW dlg
  PROVE  /\ EarlyRoom(own, dead, old, FALSE, on, free, dlg)
              => EarlyRoom(own, dead, old, TRUE, on, free, dlg)
         /\ LateRoom(y, own, dead, FALSE, on, free, dlg)
              => LateRoom(y, own, dead, TRUE, on, free, dlg)
         /\ LateRoom(y, 0, dead, TRUE, on, free, dlg)
              => LateRoom(y, 0, dead, FALSE, on, free, dlg)
  <1>1. EarlyRoom(own, dead, old, FALSE, on, free, dlg)
              => EarlyRoom(own, dead, old, TRUE, on, free, dlg)
    BY DEF EarlyRoom, One
  <1>2. LateRoom(y, own, dead, FALSE, on, free, dlg)
              => LateRoom(y, own, dead, TRUE, on, free, dlg)
    BY DEF LateRoom, One
  <1>3. LateRoom(y, 0, dead, TRUE, on, free, dlg)
              => LateRoom(y, 0, dead, FALSE, on, free, dlg)
    BY DEF LateRoom, One
  <1> QED
    BY <1>1, <1>2, <1>3

LEMMA PollKeeps ==
  ASSUME TypesOK, TypesOK', OpenWindow, Queue' = Queue, BeginPoll \/ EndPoll
  PROVE  OpenWindow'
  <1>1. UNCHANGED <<api, connects, dialog, closing, pending, buttons, filesOn, events, session>>
        /\ Always
    BY DEF views, worker, OpenWindow, BeginPoll, EndPoll
  <1>2. \/ polling = FALSE /\ polling' = TRUE /\ events # <<>>
        \/ polling = TRUE /\ polling' = FALSE /\ events = <<>> /\ Len(events) = 0
    BY Queues DEF BeginPoll, EndPoll, TypesOK
  <1>3. Always'
    <2>1. Clicks' <= Clicks /\ Clicks \in Nat /\ Clicks' \in Nat
          /\ One(dialog # Nothing) \in Nat /\ One(dialog # Nothing)' = One(dialog # Nothing)
      BY <1>1, <1>2 DEF Clicks, One
    <2>2. Connected(api)' = Connected(api)
      BY <1>1 DEF Connected
    <2>3. ASSUME ~Connected(api) PROVE Len(Queue) + Clicks' + One(dialog # Nothing) <= 5
      <3>1. Len(Queue) \in Nat
        BY Queues
      <3>2. Len(Queue) + Clicks + One(dialog # Nothing) <= 5
        BY <1>1, <2>3 DEF Always
      <3> QED
        BY <2>1, <3>1, <3>2
    <2>4. dialog # Nothing => (api = Nothing /\ ~polling' => Lacks(events, {"connect"}))
      BY <1>2 DEF Lacks
    <2> QED
      BY <1>1, <2>1, <2>2, <2>3, <2>4 DEF Always, Lacks
  <1>4. (OldQueue => OldQueue') /\ (OldEvents => OldEvents')
    BY <1>1 DEF OldQueue, OldEvents, FilesFirst, Stands, Won
  <1>5. Old => Old'
    BY <1>1, <1>4 DEF Old, Lacks, Won
  <1>6. NothingOffered' = NothingOffered /\ NoDisconnect' = NoDisconnect /\ On' = On
    BY <1>1 DEF NothingOffered, NoDisconnect, Lacks, On
  <1>7. WhileNothing => WhileNothing'
    <2>1. CASE polling = FALSE /\ polling' = TRUE
      BY <1>4, <2>1 DEF WhileNothing
    <2>2. CASE Len(events) = 0
      <3>1. \A i \in 1..Len(events) : FALSE
        BY <2>2
      <3>2. OldEvents
        BY <3>1 DEF OldEvents, FilesFirst
      <3>3. OldQueue => Old
        BY <3>1, <3>2 DEF Old, Lacks
      <3> QED
        BY <1>4, <1>5, <3>3 DEF WhileNothing
    <2> QED
      BY <1>2, <2>1, <2>2
  <1>8. WhileFresh => WhileFresh'
    BY <1>1, <1>5, <1>6 DEF WhileFresh
  <1>9. WhileOpen => WhileOpen'
    <2>1. ASSUME WhileOpen
          PROVE  Len(Queue) + (IF polling' THEN One(On \/ events # <<>>)
                                           ELSE One(On) + One(events # <<>>)) <= 3
      <3>1. Len(Queue) \in Nat
        BY Queues
      <3>2. Len(Queue) + (IF polling THEN One(On \/ events # <<>>)
                                     ELSE One(On) + One(events # <<>>)) <= 3
        BY <2>1 DEF WhileOpen
      <3> QED
        BY <1>2, <3>1, <3>2 DEF One
    <2>2. Lacks(events, {"disconnect"}) \/ polling'
      BY <1>2 DEF Lacks
    <2> QED
      BY <1>1, <1>4, <1>6, <2>1, <2>2 DEF WhileOpen, Lacks
  <1>10. WhileClosed => WhileClosed'
    BY <1>1 DEF WhileClosed, FilesFirst
  <1>11. WhileIn => WhileIn'
    <2>1. SUFFICES ASSUME WhileIn PROVE WhileIn'
      OBVIOUS
    <2>2. PICK y \in 0..Len(Queue), z \in 0..Len(events) : Split(y, z)
      BY <2>1 DEF WhileIn
    <2>3. Live(y)' /\ Learnt(z)'
      BY <1>1, <2>2 DEF Split, Live, Learnt, Won
    <2>4. OldFile(z)' = OldFile(z)
      BY <1>1 DEF OldFile
    <2>5. Split(y, z)'
      <3>1. CASE z = 0
        <4>1. LateRoom(y, Len(events), Len(Queue) - y, polling, On, ~pending, dialog # Nothing)
          BY <2>2, <3>1 DEF Split, Late
        <4>2. LateRoom(y, Len(events), Len(Queue) - y, polling', On, ~pending, dialog # Nothing)
          <5>1. y \in Nat /\ Len(events) \in Nat /\ Len(Queue) - y \in Nat
            BY Sizes
          <5>2. CASE polling = FALSE /\ polling' = TRUE
            <6>1. LateRoom(y, Len(events), Len(Queue) - y, FALSE, On, ~pending,
                           dialog # Nothing)
              BY <4>1, <5>2
            <6>2. LateRoom(y, Len(events), Len(Queue) - y, TRUE, On, ~pending,
                           dialog # Nothing)
              BY ONLY <5>1, <6>1, RoomPolled
            <6> QED
              BY <5>2, <6>2
          <5>3. CASE polling = TRUE /\ polling' = FALSE /\ Len(events) = 0
            <6>1. LateRoom(y, 0, Len(Queue) - y, TRUE, On, ~pending, dialog # Nothing)
              BY <4>1, <5>3
            <6>2. LateRoom(y, 0, Len(Queue) - y, FALSE, On, ~pending, dialog # Nothing)
              BY ONLY <5>1, <6>1, RoomPolled
            <6> QED
              BY <5>3, <6>2
          <5> QED
            BY <1>2, <5>2, <5>3
        <4>3. Late(y)'
          BY <1>1, <1>6, <4>2 DEF Late
        <4> QED
          BY <2>3, <3>1, <4>3 DEF Split
      <3>2. CASE z # 0
        <4>1. EarlyRoom(y + Len(events) - z, Len(Queue) - y, OldFile(z), polling, On, ~pending,
                        dialog # Nothing)
          BY <2>2, <3>2 DEF Split, Early
        <4>2. polling = FALSE /\ polling' = TRUE
          BY <1>2, <2>2, <3>2
        <4>3. EarlyRoom(y + Len(events) - z, Len(Queue) - y, OldFile(z), polling', On, ~pending,
                        dialog # Nothing)
          <5>1. y \in Nat /\ y + Len(events) - z \in Nat /\ Len(Queue) - y \in Nat
            BY Sizes
          <5>2. EarlyRoom(y + Len(events) - z, Len(Queue) - y, OldFile(z), FALSE, On, ~pending,
                          dialog # Nothing)
            BY <4>1, <4>2
          <5>3. EarlyRoom(y + Len(events) - z, Len(Queue) - y, OldFile(z), TRUE, On, ~pending,
                          dialog # Nothing)
            BY ONLY <5>1, <5>2, RoomPolled
          <5> QED
            BY <4>2, <5>3
        <4>4. Early(y, z)'
          BY <1>1, <1>6, <2>4, <4>3 DEF Early
        <4> QED
          BY <2>3, <3>2, <4>4 DEF Split
      <3> QED
        BY <3>1, <3>2
    <2>6. \/ Lacks(events, {"disconnect"})
          \/ /\ \A i \in 1..Len(Queue) : Queue[i].name = "refresh"
             /\ dialog = Nothing
             /\ polling' \/ NothingOffered
      BY <1>2, <2>1 DEF WhileIn, Lacks
    <2> QED
      BY <1>1, <1>6, <2>1, <2>2, <2>5, <2>6 DEF WhileIn, Lacks
  <1> QED
    BY <1>1, <1>3, <1>7, <1>8, <1>9, <1>10, <1>11 DEF OpenWindow, Phase

--------------------------------------------------------------------------------
(* The handlers of the events.                                                  *)

LEMMA HeardEvents ==
  ASSUME TypesOK, Shorter(events, events')
  PROVE  /\ Len(events) \in Nat \ {0} /\ Len(events') = Len(events) - 1 /\ events # <<>>
         /\ \A i \in 1..Len(events') : i + 1 \in 2..Len(events) /\ events'[i] = events[i + 1]
         /\ \A names : Lacks(events, names) => Lacks(events', names)
         /\ OldEvents => OldEvents'
  <1>1. Len(events) \in Nat /\ events = <<>> <=> Len(events) = 0
    BY Queues
  <1>2. Len(events) \in Nat \ {0} /\ Len(events') = Len(events) - 1 /\ events # <<>>
    BY <1>1 DEF Shorter
  <1>3. /\ \A i \in 1..Len(events') : i + 1 \in 1..Len(events) /\ events'[i] = events[i + 1]
        /\ \A names : Lacks(events, names) => Lacks(events', names)
        /\ FilesFirst(events) => FilesFirst(events')
    BY ONLY <1>1, Shorter(events, events'), Behind
  <1>4. ASSUME NEW i \in 1..Len(events')
        PROVE  i + 1 \in 2..Len(events) /\ events'[i] = events[i + 1]
    BY <1>2, <1>3
  <1>5. ASSUME OldEvents PROVE OldEvents'
    <2>1. FilesFirst(events')
      BY <1>3, <1>5 DEF OldEvents
    <2>2. ASSUME NEW i \in 1..Len(events'), NEW j \in 1..Len(events'), i < j, Won(events'[i])
          PROVE  events'[j].name # "disconnect"
      <3>1. /\ i + 1 \in 1..Len(events) /\ events'[i] = events[i + 1]
            /\ j + 1 \in 1..Len(events) /\ events'[j] = events[j + 1]
        BY <1>3
      <3>2. i + 1 < j + 1
        BY <2>2
      <3> QED
        BY <1>5, <2>2, <3>1, <3>2 DEF OldEvents
    <2>3. ASSUME NEW i \in 1..Len(events'), Won(events'[i])
          PROVE  events'[i].name \notin Transfers
      <3>1. i + 1 \in 1..Len(events) /\ events'[i] = events[i + 1]
        BY <1>3
      <3> QED
        BY <1>5, <2>3, <3>1 DEF OldEvents
    <2>4. FilesFirst(events)'
      BY <2>1 DEF FilesFirst
    <2> QED
      BY <2>2, <2>3, <2>4 DEF OldEvents, Won
  <1> QED
    BY <1>2, <1>3, <1>4, <1>5

LEMMA OldHeard ==
  ASSUME TypesOK, Shorter(events, events'), Queue' = Queue, UNCHANGED session
  PROVE  /\ OldQueue' = OldQueue
         /\ Old => Old'
         /\ NoDisconnect => NoDisconnect'
  <1>1. OldQueue' = OldQueue
    BY DEF OldQueue, FilesFirst, Stands
  <1>2. (\A i \in 1..Len(events) : ~Won(events[i])) => \A i \in 1..Len(events') : ~Won(events'[i])
    BY HeardEvents DEF Won
  <1>3. Old => Old'
    <2>1. Lacks(events, {"connect"}) \/ Lacks(Queue, FileTasks)
            => Lacks(events', {"connect"}) \/ Lacks(Queue', FileTasks)
      BY HeardEvents
    <2>2. (\A i \in 1..Len(events) : ~Won(events[i])) \/ Lacks(Queue, {"disconnect"})
            => (\A i \in 1..Len(events') : ~Won(events'[i])) \/ Lacks(Queue', {"disconnect"})
      BY <1>2
    <2> QED
      BY <1>1, <2>1, <2>2, HeardEvents DEF Old, Won
  <1>4. NoDisconnect => NoDisconnect'
    BY HeardEvents DEF NoDisconnect
  <1> QED
    BY <1>1, <1>3, <1>4

\* The window gives up its session while it polls.
LEMMA Windowless ==
  ASSUME TypesOK, Always, Queue' = Queue, UNCHANGED <<dialog, connects>>,
         polling', api' = Nothing, OldQueue',
         \A a \in Apis : session[a] = "fresh" => session'[a] = "fresh",
         Len(Queue) + 1 + One(dialog # Nothing) <= 5
  PROVE  OpenWindow'
  <1>1. Clicks' = 1
    BY DEF Clicks, One
  <1>2. One(dialog # Nothing)' = One(dialog # Nothing)
    BY DEF One
  <1>3. Always'
    BY <1>1, <1>2 DEF Always, Lacks
  <1>4. WhileNothing'
    BY DEF WhileNothing
  <1> QED
    BY <1>3, <1>4 DEF OpenWindow, Phase

\* How much room there is then.
LEMMA Room ==
  ASSUME TypesOK, OpenWindow, polling, events # <<>>
  PROVE  Len(Queue) + 1 + One(dialog # Nothing) <= 5
  <1>1. PICK q \in Nat, d \in {0, 1} : q = Len(Queue) /\ d = One(dialog # Nothing)
    BY Queues DEF One
  <1>2. Always
    BY DEF OpenWindow
  <1>3. CASE ~Connected(api)
    <2>1. Len(Queue) + Clicks + One(dialog # Nothing) <= 5
      BY <1>2, <1>3 DEF Always
    <2>2. Clicks = 1
      BY DEF Clicks, One
    <2> QED
      BY <1>1, <2>1, <2>2
  <1>4. CASE Phase("open")
    <2>1. WhileOpen /\ dialog = Nothing
      BY <1>2, <1>4 DEF OpenWindow, Phase, Always
    <2>2. Len(Queue) <= 3
      BY <1>1, <2>1 DEF WhileOpen, One
    <2>3. One(dialog # Nothing) = 0
      BY <2>1 DEF One
    <2> QED
      BY <1>1, <2>2, <2>3
  <1>5. CASE Phase("authenticated")
    <2>1. WhileIn
      BY <1>5 DEF OpenWindow
    <2>2. Len(Queue) <= 3
      BY <2>1, Few
    <2> QED
      BY <1>1, <2>2
  <1> QED
    BY <1>3, <1>4, <1>5 DEF Connected, Phase

LEMMA Killed ==
  ASSUME TypesOK, TypesOK', OpenWindow, polling, Shorter(events, events'), Queue' = Queue,
         UNCHANGED <<dialog, connects, polling>>, api' = Nothing, session' = Closed(api)
  PROVE  OpenWindow'
  <1>1. Always /\ polling' /\ events # <<>>
    BY HeardEvents DEF OpenWindow
  <1>2. /\ session \in [Apis -> {"fresh", "open", "authenticated", "closed"}]
        /\ api # Nothing => api \in Apis
        /\ FileTasks \cap {"connect", "disconnect"} = {}
    BY UiAssumption DEF TypesOK, UiAssumption, FileTasks
  <1>3. Len(Queue) + 1 + One(dialog # Nothing) <= 5
    BY <1>1, Room
  <1>4. /\ \A a \in Apis : session[a] = "fresh" => session'[a] = "fresh"
        /\ Connected(api) => session'[api] = "closed"
        /\ ~Connected(api) => session' = session
    BY <1>2 DEF Closed, Connected
  <1>5. OldQueue'
    <2>1. CASE api = Nothing \/ Phase("fresh")
      <3>1. session' = session /\ OldQueue
        BY <1>4, <2>1 DEF OpenWindow, Phase, Connected, WhileNothing, WhileFresh, Old
      <3> QED
        BY <3>1 DEF OldQueue, FilesFirst, Stands
    <2>2. CASE api # Nothing /\ session[api] # "fresh"
      <3>1. session'[api] = "closed"
        BY <1>2, <1>4, <2>2 DEF Connected
      <3>2. (\A i \in 1..Len(Queue) : Queue[i].api = api) /\ FilesFirst(Queue)
        <4>1. CASE Phase("open")
          <5>1. /\ \A i \in 1..Len(Queue) : i = 1 \/ i \in 2..Len(Queue)
                /\ Queue[1].api = api
                /\ \A i \in 2..Len(Queue) : Queue[i].api = api /\ Queue[i].name = "disconnect"
            BY <4>1, Queues DEF OpenWindow, WhileOpen
          <5>2. \A i, j \in 1..Len(Queue) : i < j => j \in 2..Len(Queue)
            BY Queues
          <5> QED
            BY <1>2, <5>1, <5>2 DEF FilesFirst
        <4>2. CASE Phase("authenticated")
          BY <1>2, <4>2 DEF OpenWindow, WhileIn, FilesFirst
        <4>3. CASE Phase("closed")
          BY <4>3 DEF OpenWindow, WhileClosed
        <4> QED
          BY <1>2, <2>2, <4>1, <4>2, <4>3 DEF Phase
      <3> QED
        BY <3>1, <3>2 DEF OldQueue, Stands, FilesFirst
    <2> QED
      BY <2>1, <2>2 DEF Phase
  <1> QED
    BY <1>1, <1>3, <1>4, <1>5, Windowless

LEMMA DisconnectedKeeps ==
  ASSUME TypesOK, TypesOK', OpenWindow, HandleDisconnected
  PROVE  OpenWindow'
  <1>1. /\ Shorter(events, events') /\ polling /\ events[1].name = "disconnect"
    BY Heard DEF HandleDisconnected
  <1>2. /\ Queue' = Queue /\ UNCHANGED <<dialog, connects, polling, session>> /\ api' = Nothing
        /\ Always /\ events # <<>> /\ polling'
    BY <1>1, HeardEvents DEF HandleDisconnected, Queue, OpenWindow
  <1>3. Len(Queue) + 1 + One(dialog # Nothing) <= 5
    BY <1>1, <1>2, Room
  <1>4. ~Lacks(events, {"disconnect"})
    BY <1>1, HeardEvents DEF Lacks
  <1>5. /\ FileTasks \cap {"connect", "disconnect"} = {} /\ "refresh" \notin Transfers
        /\ session \in [Apis -> {"fresh", "open", "authenticated", "closed"}]
        /\ api # Nothing => api \in Apis
    BY UiAssumption DEF UiAssumption, FileTasks, TypesOK
  <1>6. OldQueue
    <2>1. CASE api = Nothing \/ Phase("fresh")
      BY <2>1 DEF OpenWindow, WhileNothing, WhileFresh, Old
    <2>2. CASE Phase("open")
      <3>1. Len(Queue) = 1 /\ Queue[1].name = "connect"
        BY <1>4, <2>2 DEF OpenWindow, WhileOpen
      <3>2. \A i, j \in 1..Len(Queue) : ~(i < j) /\ Queue[i].name = "connect"
        BY <3>1
      <3>3. "connect" \notin Transfers
        BY UiAssumption DEF UiAssumption
      <3> QED
        BY <3>2, <3>3 DEF OldQueue, FilesFirst
    <2>3. CASE Phase("authenticated")
      <3>1. \A i \in 1..Len(Queue) : Queue[i].name = "refresh"
        BY <1>4, <2>3 DEF OpenWindow, WhileIn
      <3> QED
        BY <1>5, <3>1 DEF OldQueue, FilesFirst
    <2>4. CASE Phase("closed")
      BY <2>4 DEF OpenWindow, WhileClosed, Phase, OldQueue, Stands
    <2> QED
      BY <1>5, <2>1, <2>2, <2>3, <2>4 DEF Phase
  <1>7. OldQueue'
    BY <1>2, <1>6 DEF OldQueue, FilesFirst, Stands
  <1> QED
    BY <1>2, <1>3, <1>7, Windowless

LEMMA RoomHeard ==
  ASSUME NEW y \in Nat, NEW own \in Nat, NEW dead \in Nat, NEW on, NEW free, NEW dlg,
         NEW old2, NEW on2, NEW free2
  PROVE  /\ EarlyRoom(own, dead, TRUE, TRUE, on, free, dlg)
              => EarlyRoom(own, dead, old2, TRUE, on2, free2, dlg)
         /\ LateRoom(y, own + 1, dead, TRUE, on, free, dlg)
              => LateRoom(y, own, dead, TRUE, on2, free2, dlg)
  <1>1. EarlyRoom(own, dead, TRUE, TRUE, on, free, dlg)
              => EarlyRoom(own, dead, old2, TRUE, on2, free2, dlg)
    BY DEF EarlyRoom, One
  <1>2. LateRoom(y, own + 1, dead, TRUE, on, free, dlg)
              => LateRoom(y, own, dead, TRUE, on2, free2, dlg)
    BY DEF LateRoom, One
  <1> QED
    BY <1>1, <1>2

LEMMA AlwaysHeard ==
  ASSUME TypesOK, Always, polling, Shorter(events, events'), Queue' = Queue,
         UNCHANGED <<api, connects, dialog, polling, session>>
  PROVE  Always'
  <1>1. /\ Clicks' <= Clicks /\ Clicks \in Nat /\ Clicks' \in Nat
        /\ One(dialog # Nothing) \in Nat /\ One(dialog # Nothing)' = One(dialog # Nothing)
    BY HeardEvents DEF Clicks, One
  <1>2. Connected(api)' = Connected(api)
    BY DEF Connected
  <1>3. ASSUME ~Connected(api) PROVE Len(Queue) + Clicks' + One(dialog # Nothing) <= 5
    <2>1. Len(Queue) \in Nat
      BY Queues
    <2>2. Len(Queue) + Clicks + One(dialog # Nothing) <= 5
      BY <1>3 DEF Always
    <2> QED
      BY <1>1, <2>1, <2>2
  <1> QED
    BY <1>1, <1>2, <1>3 DEF Always, Lacks

LEMMA WonFirst ==
  ASSUME TypesOK, events # <<>>, Won(events[1]), Old
  PROVE  NoDisconnect /\ events[1].name \notin Transfers
  <1>1. 1 \in 1..Len(events)
    BY Queues
  <1>2. Lacks(Queue, {"disconnect"})
    BY <1>1 DEF Old
  <1>3. \A i \in 1..Len(events) : i = 1 \/ 1 < i
    BY Queues
  <1>4. Lacks(events, {"disconnect"})
    BY <1>1, <1>3 DEF Old, OldEvents, Won, Lacks
  <1> QED
    BY <1>1, <1>2, <1>4 DEF NoDisconnect, Old, OldEvents

\* The window hears while its session has no login yet.
LEMMA OpenHeard ==
  ASSUME TypesOK, TypesOK', polling, Shorter(events, events'), Queue' = Queue, WhileOpen,
         UNCHANGED <<api, polling>>
  PROVE  WhileOpen'
  <1>1. OldEvents' /\ events # <<>>
    BY HeardEvents DEF WhileOpen
  <1>2. Len(Queue) + (IF polling' THEN One(On \/ events # <<>>)'
                                  ELSE One(On)' + One(events # <<>>)') <= 3
    <2>1. PICK q \in Nat, m \in {0, 1} : q = Len(Queue) /\ m = One(On \/ events # <<>>)'
      BY Queues DEF One
    <2>2. q + 1 <= 3
      BY <1>1, <2>1 DEF WhileOpen, One
    <2> QED
      BY <2>1, <2>2
  <1>3. Lacks(events, {"disconnect"}) => Lacks(events', {"disconnect"})
    BY HeardEvents
  <1> QED
    BY <1>1, <1>2, <1>3 DEF WhileOpen

\* What the session's own first event leaves behind.
LEMMA LearntHeard ==
  ASSUME TypesOK, NEW y, NEW z \in 0..Len(events), Shorter(events, events'),
         Learnt(z)
  PROVE  /\ z = 0 => events[1].name \in FileTasks /\ Learnt(0)'
         /\ z = 1 => events[1].name = "connect" /\ Learnt(0)'
         /\ z > 0 => Learnt(z - 1)' /\ z - 1 \in 0..Len(events')
         /\ OldFile(z - 1)' => OldFile(z)
  <1>1. PICK n \in Nat : /\ Len(events) = n + 1 /\ Len(events') = n
                         /\ \A i \in 1..n : i + 1 \in 2..n + 1 /\ events'[i] = events[i + 1]
    <2>1. /\ Len(events) \in Nat \ {0} /\ Len(events') = Len(events) - 1
          /\ \A i \in 1..Len(events') : i + 1 \in 2..Len(events) /\ events'[i] = events[i + 1]
      BY HeardEvents
    <2>2. Len(events) - 1 \in Nat /\ Len(events) = (Len(events) - 1) + 1
      BY <2>1
    <2> QED
      BY <2>1, <2>2
  <1>2. z \in 0..n + 1 /\ \A j \in z + 1..n + 1 : events[j].name \in FileTasks
    BY <1>1 DEF Learnt
  <1>3. CASE z = 0
    <2>1. events[1].name \in FileTasks
      BY <1>2, <1>3
    <2>2. \A j \in 0 + 1..Len(events') : events'[j].name \in FileTasks
      BY <1>1, <1>2, <1>3
    <2>3. Learnt(0)'
      BY <2>2 DEF Learnt
    <2>4. \A i \in 1..z - 1 - 1 : FALSE
      BY <1>3
    <2> QED
      BY <1>3, <2>1, <2>3, <2>4 DEF OldFile
  <1>4. CASE z > 0
    <2>1. \A j \in (z - 1) + 1..Len(events') : events'[j].name \in FileTasks
      <3>1. ASSUME NEW j \in (z - 1) + 1..Len(events') PROVE events'[j].name \in FileTasks
        <4>1. j \in 1..n /\ j + 1 \in z + 1..n + 1
          BY <1>1, <1>2, <1>4
        <4> QED
          BY <1>1, <1>2, <4>1
      <3> QED
        BY <3>1
    <2>2. \A i \in 1..z - 1 : i + 1 \in 1..z /\ i \in 1..n /\ events'[i] = events[i + 1]
      BY <1>1, <1>2
    <2>3. \A i \in 1..z - 1 - 1 : i + 1 \in 1..z - 1 /\ events'[i] = events[i + 1]
      BY <1>1, <1>2
    <2>4. ASSUME z - 1 > 0
          PROVE  /\ events'[z - 1].kind = "completed" /\ events'[z - 1].name = "connect"
                 /\ \A i, j \in 1..z - 1 - 1 : i < j /\ events'[i].name = "connect"
                                               => events'[j].name \notin FileTasks
                 /\ \A i \in 1..z - 1 - 1 : Won(events'[i]) => events'[i].name \notin Transfers
      <3>1. z - 1 \in 1..z - 1 /\ (z - 1) + 1 = z
        BY <1>2, <2>4
      <3>2. events'[z - 1] = events[z]
        BY <2>2, <3>1
      <3>3. \A i, j \in 1..z - 1 - 1 : i < j => i + 1 < j + 1
        BY <1>2
      <3> QED
        BY <1>4, <2>3, <3>2, <3>3 DEF Learnt
    <2>5. Learnt(z - 1)'
      BY <2>1, <2>4 DEF Learnt, Won
    <2>6. OldFile(z - 1)' => OldFile(z)
      BY <2>3 DEF OldFile
    <2>7. z = 1 => events[1].name = "connect" /\ z - 1 = 0
      BY <1>4 DEF Learnt
    <2>8. z - 1 \in 0..Len(events')
      BY <1>1, <1>2, <1>4
    <2> QED
      BY <1>4, <2>5, <2>6, <2>7, <2>8
  <1> QED
    BY <1>2, <1>3, <1>4

\* A file task of the session, or of one before it, is no longer pending.
LEMMA InHeard ==
  ASSUME TypesOK, TypesOK', polling, Shorter(events, events'), Queue' = Queue, WhileIn,
         UNCHANGED <<api, dialog, polling>>, ~pending', events[1].name \in FileTasks
  PROVE  WhileIn'
  <1>1. PICK y \in 0..Len(Queue), z \in 0..Len(events) : Split(y, z)
    BY DEF WhileIn
  <1>2. Live(y)' /\ Learnt(z) /\ polling = TRUE
    BY <1>1 DEF Split, Live, TypesOK
  <1>3. events[1].name # "connect" /\ Len(events') = Len(events) - 1 /\ Len(events) \in Nat \ {0}
    BY HeardEvents, UiAssumption DEF UiAssumption, FileTasks
  <1>4. \E v \in 0..Len(events') : Split(y, v)'
    <2>1. CASE z = 0
      <3>1. LateRoom(y, Len(events), Len(Queue) - y, TRUE, On, ~pending, dialog # Nothing)
        BY <1>1, <1>2, <2>1 DEF Split, Late
      <3>2. Len(events') \in Nat /\ Len(events) = Len(events') + 1
        BY <1>3
      <3>3. LateRoom(y, Len(events') + 1, Len(Queue) - y, TRUE, On, ~pending, dialog # Nothing)
        BY <3>1, <3>2
      <3>4. y \in Nat /\ Len(Queue) - y \in Nat
        BY <1>1, Sizes
      <3>5. LateRoom(y, Len(events'), Len(Queue) - y, TRUE, On', ~pending', dialog # Nothing)
        BY <3>2, <3>3, <3>4, RoomHeard
      <3>6. Late(y)'
        BY <1>2, <3>5 DEF Late
      <3>7. Learnt(0)'
        BY <1>2, <2>1, LearntHeard
      <3>8. Split(y, 0)'
        BY <1>2, <3>6, <3>7 DEF Split
      <3> QED
        BY <3>2, <3>8
    <2>2. CASE z # 0
      <3>1. EarlyRoom(y + Len(events) - z, Len(Queue) - y, OldFile(z), TRUE, On, ~pending,
                      dialog # Nothing)
        BY <1>1, <1>2, <2>2 DEF Split, Early
      <3>2. z > 0 /\ z # 1
        BY <1>1, <1>2, <1>3, <2>2, LearntHeard
      <3>3. Learnt(z - 1)' /\ z - 1 \in 0..Len(events')
        BY <1>1, <1>2, <3>2, LearntHeard
      <3>4. OldFile(z) = TRUE
        <4>1. 1 \in 1..z - 1
          BY <1>1, <3>2
        <4> QED
          BY <4>1 DEF OldFile
      <3>5. /\ y + Len(events) - z \in Nat /\ Len(Queue) - y \in Nat /\ y \in Nat
            /\ y + Len(events') - (z - 1) = y + Len(events) - z
        BY <1>1, <1>3, Sizes
      <3>6. EarlyRoom(y + Len(events) - z, Len(Queue) - y, OldFile(z - 1)', TRUE, On',
                      ~pending', dialog # Nothing)
        BY <3>1, <3>4, <3>5, RoomHeard
      <3>7. Early(y, z - 1)'
        BY <1>2, <3>5, <3>6 DEF Early
      <3>8. Split(y, z - 1)'
        BY <1>1, <1>2, <3>2, <3>3, <3>7 DEF Split
      <3> QED
        BY <3>3, <3>8
    <2> QED
      BY <2>1, <2>2
  <1>5. Lacks(events, {"disconnect"}) => Lacks(events', {"disconnect"})
    BY HeardEvents
  <1> QED
    BY <1>1, <1>4, <1>5 DEF WhileIn

LEMMA HeardKeeps ==
  ASSUME TypesOK, TypesOK', OpenWindow, polling, Shorter(events, events'), Queue' = Queue,
         UNCHANGED <<api, dialog, connects, polling, session>>,
         Won(events[1]) \/ Connected(api), Phase("authenticated") => WhileIn'
  PROVE  OpenWindow'
  <1>1. Always' /\ events # <<>>
    BY AlwaysHeard, HeardEvents DEF OpenWindow
  <1>2. WhileNothing => WhileNothing'
    BY OldHeard DEF WhileNothing
  <1>3. Phase("fresh") /\ WhileFresh => WhileFresh'
    <2>1. SUFFICES ASSUME Phase("fresh"), WhileFresh PROVE WhileFresh'
      OBVIOUS
    <2>2. NoDisconnect
      BY <1>1, <2>1, WonFirst DEF Phase, Connected, WhileFresh
    <2> QED
      BY <2>1, <2>2, OldHeard DEF WhileFresh
  <1>4. WhileOpen => WhileOpen'
    BY OpenHeard
  <1>5. WhileClosed => WhileClosed'
    BY DEF WhileClosed, FilesFirst
  <1> QED
    BY <1>1, <1>2, <1>3, <1>4, <1>5 DEF OpenWindow, Phase

--------------------------------------------------------------------------------
(* A session's login is heard of.                                               *)

LEMMA RoomLearnt ==
  ASSUME NEW y \in Nat, NEW own \in Nat, NEW dead \in Nat, NEW on, NEW free, NEW dlg
  PROVE  /\ EarlyRoom(y + own, dead, FALSE, TRUE, on, FALSE, dlg)
              => LateRoom(y, own, dead, TRUE, TRUE, FALSE, dlg)
         /\ EarlyRoom(own, dead, FALSE, TRUE, on, free, dlg)
              => EarlyRoom(own, dead, FALSE, TRUE, TRUE, free, dlg)
  <1>1. EarlyRoom(y + own, dead, FALSE, TRUE, on, FALSE, dlg)
              => LateRoom(y, own, dead, TRUE, TRUE, FALSE, dlg)
    BY DEF EarlyRoom, LateRoom, One
  <1>2. EarlyRoom(own, dead, FALSE, TRUE, on, free, dlg)
              => EarlyRoom(own, dead, FALSE, TRUE, TRUE, free, dlg)
    BY DEF EarlyRoom, One
  <1> QED
    BY <1>1, <1>2

\* An old connect has no old file task behind it.
LEMMA NoOldFile ==
  ASSUME TypesOK, NEW z \in 0..Len(events), z > 0, events # <<>>, Learnt(z),
         events[1].name = "connect"
  PROVE  OldFile(z) = FALSE
  <1>1. "connect" \notin FileTasks /\ z \in Nat
    BY Queues, UiAssumption DEF UiAssumption, FileTasks
  <1>2. ASSUME NEW i \in 1..z - 1 PROVE events[i].name \notin FileTasks
    <2>1. CASE i = 1
      BY <1>1, <2>1
    <2>2. CASE i # 1
      <3>1. 1 \in 1..z - 1 /\ 1 < i
        BY <1>1, <1>2, <2>2
      <3> QED
        BY <1>2, <3>1 DEF Learnt
    <2> QED
      BY <2>1, <2>2
  <1> QED
    BY <1>2 DEF OldFile

LEMMA InLearns ==
  ASSUME TypesOK, TypesOK', polling, Shorter(events, events'), Queue' = Queue, WhileIn,
         UNCHANGED <<api, dialog, polling, pending>>, events[1].name = "connect", On', pending
  PROVE  WhileIn'
  <1>1. PICK y \in 0..Len(Queue), z \in 0..Len(events) : Split(y, z)
    BY DEF WhileIn
  <1>2. /\ Live(y)' /\ Learnt(z) /\ polling = TRUE /\ On' = TRUE /\ pending = TRUE
        /\ (~pending) = FALSE /\ (~pending') = FALSE
    BY <1>1 DEF Split, Live, TypesOK, On
  <1>3. /\ Len(events') = Len(events) - 1 /\ Len(events) \in Nat \ {0} /\ events # <<>>
        /\ "connect" \notin FileTasks
    BY HeardEvents, UiAssumption DEF UiAssumption, FileTasks
  <1>4. z # 0 /\ z > 0
    BY <1>1, <1>2, <1>3, LearntHeard
  <1>5. /\ Learnt(z - 1)' /\ z - 1 \in 0..Len(events')
        /\ OldFile(z) = FALSE /\ OldFile(z - 1)' = FALSE
    <2>1. OldFile(z) = FALSE
      BY <1>1, <1>2, <1>3, <1>4, NoOldFile
    <2>2. OldFile(z - 1)' \in BOOLEAN
      BY DEF OldFile
    <2> QED
      BY <1>1, <1>2, <1>4, <2>1, <2>2, LearntHeard
  <1>6. EarlyRoom(y + Len(events) - z, Len(Queue) - y, FALSE, TRUE, On, FALSE, dialog # Nothing)
    BY <1>1, <1>2, <1>4, <1>5 DEF Split, Early
  <1>7. /\ y + Len(events) - z \in Nat /\ Len(Queue) - y \in Nat /\ y \in Nat
        /\ y + Len(events') - (z - 1) = y + Len(events) - z /\ Len(events') \in Nat
    BY <1>1, <1>3, Sizes
  <1>8. Split(y, z - 1)'
    <2>1. CASE z = 1
      <3>1. y + Len(events) - z = y + Len(events')
        BY <1>1, <1>3, <2>1, Sizes
      <3>2. LateRoom(y, Len(events'), Len(Queue) - y, TRUE, TRUE, FALSE, dialog # Nothing)
        BY <1>6, <1>7, <3>1, RoomLearnt
      <3>3. Late(y)'
        BY <1>2, <3>2 DEF Late
      <3>4. z - 1 = 0
        BY <2>1
      <3> QED
        BY <1>2, <1>5, <3>3, <3>4 DEF Split
    <2>2. CASE z # 1
      <3>1. EarlyRoom(y + Len(events) - z, Len(Queue) - y, FALSE, TRUE, TRUE, FALSE,
                      dialog # Nothing)
        BY <1>6, <1>7, RoomLearnt
      <3>2. Early(y, z - 1)'
        BY <1>2, <1>5, <1>7, <3>1 DEF Early
      <3>3. z - 1 # 0
        BY <1>1, <2>2, Sizes
      <3> QED
        BY <1>2, <1>5, <3>2, <3>3 DEF Split
    <2> QED
      BY <2>1, <2>2
  <1>9. Lacks(events, {"disconnect"}) => Lacks(events', {"disconnect"})
    BY HeardEvents
  <1> QED
    BY <1>1, <1>2, <1>5, <1>8, <1>9 DEF WhileIn

--------------------------------------------------------------------------------
(* What the user, or a handler, submits.                                        *)

LEMMA SubmittedLive ==
  ASSUME TypesOK, NEW y \in 0..Len(Queue), NEW x, Longer(Queue, Queue', x), Live(y)
  PROVE  /\ Len(Queue) \in Nat /\ Len(Queue') = Len(Queue) + 1 /\ Queue'[Len(Queue')] = x
         /\ \A i \in 1..Len(Queue') :
              \/ i = Len(Queue') /\ Queue'[i] = x
              \/ i \in 1..Len(Queue) /\ i < Len(Queue') /\ Queue'[i] = Queue[i]
         /\ y < Len(Queue) \/ x.name = "disconnect" => Live(y)'
         /\ y = Len(Queue) /\ x.name \in FileTasks => Live(y + 1)'
  <1>1. /\ Len(Queue) \in Nat /\ Len(Queue') = Len(Queue) + 1 /\ Queue'[Len(Queue')] = x
        /\ \A i \in 1..Len(Queue') :
             \/ i = Len(Queue') /\ Queue'[i] = x
             \/ i \in 1..Len(Queue) /\ i < Len(Queue') /\ Queue'[i] = Queue[i]
    BY Queues DEF Longer
  <1>2. \A i \in 1..Len(Queue) : Queue'[i] = Queue[i]
    BY DEF Longer
  <1>3. ASSUME NEW i \in 1..y PROVE Queue'[i].name \in FileTasks
    <2>1. i \in 1..Len(Queue)
      BY <1>1
    <2> QED
      BY <1>2, <2>1 DEF Live
  <1>4. ASSUME y < Len(Queue) \/ x.name = "disconnect" PROVE Queue'[y + 1].name = "disconnect"
    <2>1. CASE y < Len(Queue)
      <3>1. y + 1 \in 1..Len(Queue)
        BY <1>1, <2>1
      <3> QED
        BY <1>2, <2>1, <3>1 DEF Live
    <2>2. CASE ~(y < Len(Queue))
      <3>1. y + 1 = Len(Queue')
        BY <1>1, <2>2
      <3> QED
        BY <1>1, <1>4, <2>2, <3>1
    <2> QED
      BY <2>1, <2>2
  <1>5. ASSUME y = Len(Queue), x.name \in FileTasks PROVE Live(y + 1)'
    <2>1. y + 1 = Len(Queue') /\ ~(y + 1 < Len(Queue'))
      BY <1>1, <1>5
    <2>2. \A i \in 1..y + 1 : i \in 1..y \/ i = Len(Queue')
      BY <1>1, <1>5
    <2> QED
      BY <1>1, <1>3, <1>5, <2>1, <2>2 DEF Live
  <1> QED
    BY <1>1, <1>3, <1>4, <1>5 DEF Live

LEMMA AlwaysSubmitted ==
  ASSUME TypesOK, Always, NEW x, Longer(Queue, Queue', x), Connected(api),
         UNCHANGED <<api, connects, session>>, dialog' \in {dialog, Nothing},
         x.api = api, x.name # "connect"
  PROVE  Always'
  <1>1. \A i \in 1..Len(Queue') : Queue'[i] = x \/ (i \in 1..Len(Queue) /\ Queue'[i] = Queue[i])
    BY Queues DEF Longer
  <1>2. api # Nothing /\ Connected(api)' /\ session[api] # "closed"
    BY DEF Connected
  <1>3. api \in 1..connects
    <2>1. /\ api = connects /\ connects \in 0..MaxConnects /\ api \in 1..MaxConnects
          /\ MaxConnects \in Nat
      BY <1>2, UiAssumption DEF Always, TypesOK, Apis, UiAssumption
    <2> QED
      BY <2>1
  <1>4. \A i \in 1..Len(Queue') : /\ Queue'[i].api \in (1..connects) \cup {Nothing}
                                  /\ Queue'[i].api = Nothing => Queue'[i].name \in FileTasks
    BY <1>1, <1>2, <1>3 DEF Always
  <1>5. dialog' # Nothing => Lacks(Queue', {"connect"}) /\ session[api] = "authenticated"
    BY <1>1, <1>2 DEF Always, Lacks
  <1> QED
    BY <1>2, <1>4, <1>5 DEF Always

LEMMA RoomRefreshed ==
  ASSUME NEW y \in Nat, NEW own \in Nat, NEW on, NEW free, NEW dlg
  PROVE  /\ LateRoom(y, own + 1, 0, TRUE, on, free, dlg)
              => LateRoom(y + 1, own, 0, TRUE, TRUE, FALSE, dlg)
         /\ EarlyRoom(y + own, 0, FALSE, TRUE, on, TRUE, dlg)
              => LateRoom(y + 1, own, 0, TRUE, TRUE, FALSE, dlg)
         /\ EarlyRoom(own, 0, FALSE, TRUE, on, TRUE, dlg)
              => EarlyRoom(own + 1, 0, FALSE, TRUE, TRUE, FALSE, dlg)
  <1>1. LateRoom(y, own + 1, 0, TRUE, on, free, dlg)
              => LateRoom(y + 1, own, 0, TRUE, TRUE, FALSE, dlg)
    BY DEF LateRoom, One
  <1>2. EarlyRoom(y + own, 0, FALSE, TRUE, on, TRUE, dlg)
              => LateRoom(y + 1, own, 0, TRUE, TRUE, FALSE, dlg)
    BY DEF EarlyRoom, LateRoom, One
  <1>3. EarlyRoom(own, 0, FALSE, TRUE, on, TRUE, dlg)
              => EarlyRoom(own + 1, 0, FALSE, TRUE, TRUE, FALSE, dlg)
    BY DEF EarlyRoom, One
  <1> QED
    BY <1>1, <1>2, <1>3

\* The same behind a disconnect.
LEMMA RoomBehind ==
  ASSUME NEW y \in Nat, NEW own \in Nat, NEW dead \in Nat \ {0}, NEW on, NEW free, NEW dlg
  PROVE  /\ LateRoom(y, own + 1, dead, TRUE, on, free, dlg)
              => LateRoom(y, own, dead + 1, TRUE, TRUE, FALSE, dlg)
         /\ EarlyRoom(y + own, dead, FALSE, TRUE, on, TRUE, dlg)
              => LateRoom(y, own, dead + 1, TRUE, TRUE, FALSE, dlg)
         /\ EarlyRoom(own, dead, FALSE, TRUE, on, TRUE, dlg)
              => EarlyRoom(own, dead + 1, FALSE, TRUE, TRUE, FALSE, dlg)
  <1>1. LateRoom(y, own + 1, dead, TRUE, on, free, dlg)
              => LateRoom(y, own, dead + 1, TRUE, TRUE, FALSE, dlg)
    BY DEF LateRoom, One
  <1>2. EarlyRoom(y + own, dead, FALSE, TRUE, on, TRUE, dlg)
              => LateRoom(y, own, dead + 1, TRUE, TRUE, FALSE, dlg)
    BY DEF EarlyRoom, LateRoom, One
  <1>3. EarlyRoom(own, dead, FALSE, TRUE, on, TRUE, dlg)
              => EarlyRoom(own, dead + 1, FALSE, TRUE, TRUE, FALSE, dlg)
    BY DEF EarlyRoom, One
  <1> QED
    BY <1>1, <1>2, <1>3

LEMMA InRefreshed ==
  ASSUME TypesOK, TypesOK', polling, Shorter(events, events'), WhileIn,
         NEW x, x.name = "refresh", x.api = api, Longer(Queue, Queue', x),
         UNCHANGED <<api, dialog, polling>>, pending', On',
         \/ events[1].name = "connect" /\ ~pending
         \/ Won(events[1]) /\ events[1].name \in Transfers
  PROVE  WhileIn'
  <1>1. PICK y \in 0..Len(Queue), z \in 0..Len(events) : Split(y, z)
    BY DEF WhileIn
  <1>2. /\ Live(y) /\ Learnt(z) /\ polling = TRUE /\ On' = TRUE
        /\ (~pending') = FALSE /\ x.name \in FileTasks
        /\ "connect" \notin FileTasks /\ "connect" \notin Transfers /\ Transfers \subseteq FileTasks
    BY <1>1, UiAssumption DEF Split, TypesOK, On, FileTasks, UiAssumption
  <1>3. PICK q \in Nat, n \in Nat : /\ q = Len(Queue) /\ Len(Queue') = q + 1
                                    /\ Len(events) = n + 1 /\ Len(events') = n
    <2>1. Len(Queue) \in Nat /\ Len(Queue') = Len(Queue) + 1
      BY <1>1, <1>2, SubmittedLive
    <2>2. Len(events) - 1 \in Nat /\ Len(events) = (Len(events) - 1) + 1
          /\ Len(events') = Len(events) - 1
      BY HeardEvents
    <2> QED
      BY <2>1, <2>2
  <1>4. y \in Nat /\ z \in Nat /\ y <= q /\ z <= n + 1
    BY <1>1, <1>3
  <1> DEFINE v == IF y = q THEN y + 1 ELSE y
             dead == (q + 1) - v
             some == dialog # Nothing
  <1>5. /\ v \in 0..Len(Queue') /\ Live(v)'
        /\ y = q => q - y = 0 /\ v = y + 1 /\ dead = 0
        /\ y # q => q - y \in Nat \ {0} /\ v = y /\ dead = (q - y) + 1
    <2>1. CASE y = q
      BY <1>1, <1>2, <1>3, <1>4, <2>1, SubmittedLive
    <2>2. CASE y # q
      <3>1. Live(y)'
        BY <1>1, <1>2, <1>3, <1>4, <2>2, SubmittedLive
      <3> QED
        BY <1>3, <1>4, <2>2, <3>1
    <2> QED
      BY <2>1, <2>2
  <1> HIDE DEF v, dead, some
  <1>6. ASSUME Learnt(0)', LateRoom(v, n, dead, TRUE, TRUE, FALSE, some)
        PROVE  \E w \in 0..Len(events') : Split(v, w)'
    <2>1. Late(v)'
      BY <1>2, <1>3, <1>6 DEF Late, dead, some
    <2>2. Split(v, 0)'
      BY <1>5, <1>6, <2>1 DEF Split
    <2> QED
      BY <1>3, <2>2
  <1>7. ASSUME NEW w \in 0..n, w # 0, Learnt(w)', OldFile(w)' = FALSE,
               EarlyRoom(v + n - w, dead, FALSE, TRUE, TRUE, FALSE, some)
        PROVE  \E u \in 0..Len(events') : Split(v, u)'
    <2>1. Early(v, w)'
      BY <1>2, <1>3, <1>7 DEF Early, dead, some
    <2>2. Split(v, w)'
      BY <1>5, <1>7, <2>1 DEF Split
    <2> QED
      BY <1>3, <2>2
  <1>8. \E w \in 0..Len(events') : Split(v, w)'
    <2>1. CASE Won(events[1]) /\ events[1].name \in Transfers
      <3>1. z = 0
        <4>1. z # 1
          BY <1>1, <1>2, <2>1, LearntHeard
        <4>2. ~(z > 1)
          <5>1. ASSUME z > 1 PROVE 1 \in 1..z - 1
            BY <1>4, <5>1
          <5>2. z > 1 => z > 0
            BY <1>4
          <5> QED
            BY <1>2, <2>1, <5>1, <5>2 DEF Learnt
        <4> QED
          BY <1>4, <4>1, <4>2
      <3>2. LateRoom(y, n + 1, q - y, TRUE, On, ~pending, some)
        BY <1>1, <1>2, <1>3, <3>1 DEF Split, Late, some
      <3>3. LateRoom(v, n, dead, TRUE, TRUE, FALSE, some)
        <4>1. CASE y = q
          <5>1. LateRoom(y, n + 1, 0, TRUE, On, ~pending, some)
            BY <1>5, <3>2, <4>1
          <5>2. LateRoom(y + 1, n, 0, TRUE, TRUE, FALSE, some)
            BY <1>4, <5>1, RoomRefreshed
          <5> QED
            BY <1>5, <4>1, <5>2
        <4>2. CASE y # q
          <5>1. LateRoom(y, n, (q - y) + 1, TRUE, TRUE, FALSE, some)
            BY <1>4, <1>5, <3>2, <4>2, RoomBehind
          <5> QED
            BY <1>5, <4>2, <5>1
        <4> QED
          BY <4>1, <4>2
      <3>4. Learnt(0)'
        BY <1>1, <1>2, <3>1, LearntHeard
      <3> QED
        BY <1>6, <3>3, <3>4
    <2>2. CASE events[1].name = "connect" /\ ~pending
      <3>1. z > 0
        BY <1>1, <1>2, <1>4, <2>2, LearntHeard
      <3>2. OldFile(z) = FALSE /\ OldFile(z - 1)' = FALSE /\ events # <<>>
        <4>1. events # <<>>
          BY HeardEvents
        <4>2. OldFile(z) = FALSE
          BY <1>1, <1>2, <2>2, <3>1, <4>1, NoOldFile
        <4>3. OldFile(z - 1)' \in BOOLEAN
          BY DEF OldFile
        <4> QED
          BY <1>1, <1>2, <4>1, <4>2, <4>3, LearntHeard
      <3>3. Learnt(z - 1)' /\ z - 1 \in 0..n
        BY <1>1, <1>2, <1>3, <1>4, <3>1, LearntHeard
      <3>4. EarlyRoom(y + (n + 1) - z, q - y, FALSE, TRUE, On, TRUE, some)
        <4>1. (~pending) = TRUE
          BY <2>2
        <4>2. Early(y, z)
          BY <1>1, <1>4, <3>1 DEF Split
        <4>3. EarlyRoom(y + Len(events) - z, Len(Queue) - y, OldFile(z), polling, On,
                        ~pending, some)
          BY <4>2 DEF Early, some
        <4> QED
          BY <1>2, <1>3, <3>2, <4>1, <4>3
      <3>5. CASE z = 1
        <4>1. y + (n + 1) - z = y + n
          BY <1>4, <3>5
        <4>2. EarlyRoom(y + n, q - y, FALSE, TRUE, On, TRUE, some)
          BY <3>4, <4>1
        <4>3. LateRoom(v, n, dead, TRUE, TRUE, FALSE, some)
          <5>1. CASE y = q
            <6>1. EarlyRoom(y + n, 0, FALSE, TRUE, On, TRUE, some)
              BY <1>5, <4>2, <5>1
            <6>2. LateRoom(y + 1, n, 0, TRUE, TRUE, FALSE, some)
              BY <1>4, <6>1, RoomRefreshed
            <6> QED
              BY <1>5, <5>1, <6>2
          <5>2. CASE y # q
            <6>1. LateRoom(y, n, (q - y) + 1, TRUE, TRUE, FALSE, some)
              BY <1>4, <1>5, <4>2, <5>2, RoomBehind
            <6> QED
              BY <1>5, <5>2, <6>1
          <5> QED
            BY <5>1, <5>2
        <4>4. Learnt(0)'
          BY <1>1, <1>2, <3>5, LearntHeard
        <4> QED
          BY <1>6, <4>3, <4>4
      <3>6. CASE z # 1
        <4> DEFINE own == y + (n + 1) - z
        <4>1. /\ own \in Nat
              /\ y = q => v + n - (z - 1) = own + 1
              /\ y # q => v + n - (z - 1) = own
          <5>1. own \in Nat
            BY <1>4
          <5>2. ASSUME y = q PROVE v + n - (z - 1) = own + 1
            <6>1. v = y + 1
              BY <1>5, <5>2
            <6> QED
              BY <1>4, <6>1
          <5>3. ASSUME y # q PROVE v + n - (z - 1) = own
            <6>1. v = y
              BY <1>5, <5>3
            <6> QED
              BY <1>4, <6>1
          <5> QED
            BY <5>1, <5>2, <5>3
        <4>2. EarlyRoom(own, q - y, FALSE, TRUE, On, TRUE, some)
          BY <3>4
        <4> HIDE DEF own
        <4>3. EarlyRoom(v + n - (z - 1), dead, FALSE, TRUE, TRUE, FALSE, some)
          <5>1. CASE y = q
            <6>1. EarlyRoom(own, 0, FALSE, TRUE, On, TRUE, some)
              BY <1>5, <4>2, <5>1
            <6>2. EarlyRoom(own + 1, 0, FALSE, TRUE, TRUE, FALSE, some)
              BY <4>1, <6>1, RoomRefreshed
            <6> QED
              BY <1>5, <4>1, <5>1, <6>2
          <5>2. CASE y # q
            <6>1. EarlyRoom(own, (q - y) + 1, FALSE, TRUE, TRUE, FALSE, some)
              BY <1>5, <4>1, <4>2, <5>2, RoomBehind
            <6> QED
              BY <1>5, <4>1, <5>2, <6>1
          <5> QED
            BY <5>1, <5>2
        <4>4. z - 1 # 0
          BY <1>4, <3>6
        <4> QED
          BY <1>7, <3>2, <3>3, <4>3, <4>4
      <3> QED
        BY <3>5, <3>6
    <2> QED
      BY <2>1, <2>2
  <1>9. Lacks(events, {"disconnect"}) => Lacks(events', {"disconnect"})
    BY HeardEvents
  <1>10. /\ \A i \in 1..Len(Queue') : /\ Queue'[i].api = api
                                      /\ Queue'[i].name \in FileTasks \cup {"disconnect"}
         /\ (\A i \in 1..Len(Queue) : Queue[i].name = "refresh")
               => \A i \in 1..Len(Queue') : Queue'[i].name = "refresh"
    <2>1. \A i \in 1..Len(Queue') : Queue'[i] = x \/ (i \in 1..Len(Queue) /\ Queue'[i] = Queue[i])
      BY <1>1, <1>2, SubmittedLive
    <2> QED
      BY <1>2, <2>1 DEF WhileIn
  <1>11. \/ Lacks(events', {"disconnect"})
         \/ /\ \A i \in 1..Len(Queue') : Queue'[i].name = "refresh"
            /\ dialog' = Nothing
            /\ polling' \/ NothingOffered'
    <2>1. \/ Lacks(events, {"disconnect"})
          \/ (\A i \in 1..Len(Queue) : Queue[i].name = "refresh") /\ dialog = Nothing
      BY DEF WhileIn
    <2>2. dialog' = dialog /\ polling' = TRUE
      BY <1>2
    <2> QED
      BY <1>9, <1>10, <2>1, <2>2
  <1>12. PICK w \in 0..Len(events') : Split(v, w)'
    BY <1>8
  <1>13. dialog' # Nothing /\ pending' => On'
    OBVIOUS
  <1> QED
    BY <1>5, <1>10, <1>11, <1>12, <1>13 DEF WhileIn

LEMMA RefreshHeard ==
  ASSUME TypesOK, TypesOK', OpenWindow, polling, Shorter(events, events'),
         Submit("refresh", api), Authenticated(api), pending', On',
         UNCHANGED <<api, dialog, connects, polling, session, running>>,
         \/ events[1].name = "connect" /\ ~pending
         \/ Won(events[1]) /\ events[1].name \in Transfers
  PROVE  OpenWindow'
  <1> DEFINE x == [name |-> "refresh", api |-> api]
  <1>1. x.name = "refresh" /\ x.api = api /\ Longer(Queue, Queue', x)
    BY Submitted
  <1>2. Phase("authenticated") /\ api # Nothing /\ session[api] = "authenticated" /\ Connected(api)
    BY DEF Authenticated, Phase, Connected
  <1>3. WhileIn /\ Always
    BY <1>2 DEF OpenWindow
  <1> HIDE DEF x
  <1>4. Always'
    BY <1>1, <1>2, <1>3, AlwaysSubmitted
  <1>5. WhileIn'
    BY <1>1, <1>3, InRefreshed
  <1> QED
    BY <1>2, <1>4, <1>5 DEF OpenWindow, Phase

LEMMA SameTasks ==
  ASSUME UNCHANGED <<tasks, running>>
  PROVE  Queue' = Queue
  BY DEF Queue

LEMMA HandlersKeep ==
  ASSUME TypesOK, TypesOK', OpenWindow,
         \/ HandleConnected \/ HandleDisconnected \/ HandleRefreshed \/ HandleUploaded
         \/ HandleDownloaded \/ HandleCancelled \/ HandleFailure \/ HandleFileFailure
  PROVE  OpenWindow'
  <1>1. /\ "connect" \notin FileTasks /\ "refresh" \in FileTasks /\ Transfers \subseteq FileTasks
        /\ "disconnect" \notin FileTasks
    BY UiAssumption DEF UiAssumption, FileTasks
  <1>2. CASE HandleConnected
    <2>1. /\ Shorter(events, events') /\ polling /\ events[1].kind = "completed"
          /\ events[1].name = "connect" /\ Won(events[1])
          /\ UNCHANGED <<api, dialog, connects, polling, session, running>>
      BY <1>2, Heard DEF HandleConnected, Won
    <2>2. CASE api # Nothing /\ ~pending /\ Authenticated(api)
      <3>1. pending' /\ On' /\ Submit("refresh", api)
        BY <1>2, <2>2 DEF HandleConnected, ThenRefresh, On
      <3> QED
        BY <2>1, <2>2, <3>1, RefreshHeard
    <2>3. CASE ~(api # Nothing /\ ~pending /\ Authenticated(api))
      <3>1. Queue' = Queue
        BY <1>2, <2>1, <2>3, SameTasks DEF HandleConnected, ThenRefresh
      <3>2. Phase("authenticated") => WhileIn'
        <4>1. ASSUME Phase("authenticated") PROVE WhileIn'
          <5>1. WhileIn /\ api # Nothing /\ pending
            BY <2>3, <4>1 DEF OpenWindow, Phase, Authenticated
          <5>2. pending' = pending /\ On'
            BY <1>2, <5>1 DEF HandleConnected, On, TypesOK
          <5> QED
            BY <2>1, <3>1, <5>1, <5>2, InLearns
        <4> QED
          BY <4>1
      <3> QED
        BY <2>1, <3>1, <3>2, HeardKeeps
    <2> QED
      BY <2>2, <2>3
  <1>3. CASE HandleDisconnected
    BY <1>3, DisconnectedKeeps
  <1>4. CASE HandleRefreshed \/ HandleDownloaded
    <2>1. /\ Shorter(events, events') /\ polling /\ Won(events[1])
          /\ events[1].name \in FileTasks
      BY <1>1, <1>4, Heard DEF HandleRefreshed, HandleDownloaded, Won
    <2>2. /\ ~pending' /\ Queue' = Queue
          /\ UNCHANGED <<api, dialog, connects, polling, session>>
      BY <1>4, SameTasks DEF HandleRefreshed, HandleDownloaded
    <2>3. Phase("authenticated") => WhileIn'
      BY <2>1, <2>2, InHeard DEF OpenWindow
    <2> QED
      BY <2>1, <2>2, <2>3, HeardKeeps
  <1>5. CASE HandleUploaded
    <2>1. /\ Shorter(events, events') /\ polling /\ Won(events[1])
          /\ events[1].name \in Transfers
          /\ UNCHANGED <<api, dialog, connects, polling, session, running>> /\ On'
      BY <1>1, <1>5, Heard DEF HandleUploaded, Won, On
    <2>2. CASE Authenticated(api)
      <3>1. pending' /\ Submit("refresh", api)
        BY <1>5, <2>2 DEF HandleUploaded, ThenRefresh
      <3> QED
        BY <2>1, <2>2, <3>1, RefreshHeard
    <2>3. CASE ~Authenticated(api)
      <3>1. ~pending' /\ Queue' = Queue
        BY <1>5, <2>1, <2>3, SameTasks DEF HandleUploaded, ThenRefresh
      <3>2. ~Phase("authenticated")
        BY <2>3 DEF Phase, Authenticated
      <3> QED
        BY <2>1, <3>1, <3>2, HeardKeeps
    <2> QED
      BY <2>2, <2>3
  <1>6. CASE HandleCancelled \/ HandleFailure
    <2>1. Shorter(events, events') /\ polling
      BY <1>6, Heard DEF HandleCancelled, HandleFailure
    <2>2. /\ Queue' = Queue /\ UNCHANGED <<dialog, connects, polling>> /\ api' = Nothing
          /\ session' = Closed(api)
      BY <1>6, SameTasks DEF HandleCancelled, HandleFailure
    <2> QED
      BY <2>1, <2>2, Killed
  <1>7. CASE HandleFileFailure
    <2>1. Shorter(events, events') /\ polling /\ events[1].name \in FileTasks
      BY <1>7, Heard DEF HandleFileFailure
    <2>2. /\ Queue' = Queue /\ UNCHANGED <<dialog, connects, polling>> /\ ~pending'
      BY <1>7, SameTasks DEF HandleFileFailure
    <2>3. CASE Connected(api)
      <3>1. UNCHANGED <<api, session>>
        BY <1>7, <2>3 DEF HandleFileFailure
      <3>2. Phase("authenticated") => WhileIn'
        BY <2>1, <2>2, <3>1, InHeard DEF OpenWindow
      <3> QED
        BY <2>1, <2>2, <2>3, <3>1, <3>2, HeardKeeps
    <2>4. CASE ~Connected(api)
      <3>1. api' = Nothing /\ session' = Closed(api)
        BY <1>7, <2>4 DEF HandleFileFailure
      <3> QED
        BY <2>1, <2>2, <3>1, Killed
    <2> QED
      BY <2>3, <2>4
  <1> QED
    BY <1>2, <1>3, <1>4, <1>5, <1>6, <1>7

LEMMA PollStep ==
  ASSUME TypesOK, TypesOK', QueueInv, Poll
  PROVE  QueueInv'
  <1>1. CASE BeginPoll \/ EndPoll
    <2>1. Queue' = Queue /\ closing' = closing /\ ~closing
      BY <1>1, SameTasks DEF BeginPoll, EndPoll, worker, QueueInv
    <2> QED
      BY <1>1, <2>1, PollKeeps DEF QueueInv
  <1>2. CASE \/ HandleConnected \/ HandleDisconnected \/ HandleRefreshed \/ HandleUploaded
             \/ HandleDownloaded \/ HandleCancelled \/ HandleFailure \/ HandleFileFailure
    <2>1. polling /\ closing' = closing
      BY <1>2 DEF HandleConnected, HandleDisconnected, HandleRefreshed, HandleUploaded,
                  HandleDownloaded, HandleCancelled, HandleFailure, HandleFileFailure, Event
    <2>2. ~closing
      BY <2>1 DEF QueueInv
    <2> QED
      BY <1>2, <2>1, <2>2, HandlersKeep DEF QueueInv
  <1> QED
    BY <1>1, <1>2 DEF Poll

--------------------------------------------------------------------------------
(* The clicks.                                                                  *)

LEMMA OldSubmitted ==
  ASSUME TypesOK, Old, NEW x, Longer(Queue, Queue', x), UNCHANGED <<events, session>>,
         x.name # "disconnect", Stands(session, x) => x.name \notin Transfers,
         x.name \notin FileTasks \/ (Lacks(Queue, {"connect"}) /\ Lacks(events, {"connect"}))
  PROVE  Old'
  <1>1. /\ Len(Queue) \in Nat /\ Len(Queue') = Len(Queue) + 1
        /\ \A i \in 1..Len(Queue') : \/ i = Len(Queue') /\ Queue'[i] = x
                                     \/ i \in 1..Len(Queue) /\ Queue'[i] = Queue[i]
        /\ \A i, j \in 1..Len(Queue') : i < j => i \in 1..Len(Queue) /\ Queue'[i] = Queue[i]
    BY Queues DEF Longer
  <1>2. OldQueue /\ OldEvents
    BY DEF Old
  <1>3. FilesFirst(Queue)'
    <2>1. ASSUME NEW i \in 1..Len(Queue'), NEW j \in 1..Len(Queue'), i < j,
                 Queue'[i].name = "connect"
          PROVE  Queue'[j].name \notin FileTasks
      <3>1. i \in 1..Len(Queue) /\ Queue'[i] = Queue[i]
        BY <1>1, <2>1
      <3>2. CASE Queue'[j] = x
        BY <2>1, <3>1, <3>2 DEF Lacks
      <3>3. CASE j \in 1..Len(Queue) /\ Queue'[j] = Queue[j]
        BY <1>2, <2>1, <3>1, <3>3 DEF OldQueue, FilesFirst
      <3> QED
        BY <1>1, <3>2, <3>3
    <2> QED
      BY <2>1 DEF FilesFirst
  <1>4. \A i, j \in 1..Len(Queue') : i < j /\ Stands(session, Queue'[i])
                                       => Queue'[j].name # "disconnect"
    <2>1. ASSUME NEW i \in 1..Len(Queue'), NEW j \in 1..Len(Queue'), i < j,
                 Stands(session, Queue'[i])
          PROVE  Queue'[j].name # "disconnect"
      <3>1. i \in 1..Len(Queue) /\ Queue'[i] = Queue[i]
        BY <1>1, <2>1
      <3>2. CASE Queue'[j] = x
        BY <3>2
      <3>3. CASE j \in 1..Len(Queue) /\ Queue'[j] = Queue[j]
        BY <1>2, <2>1, <3>1, <3>3 DEF OldQueue
      <3> QED
        BY <1>1, <3>2, <3>3
    <2> QED
      BY <2>1
  <1>5. \A i \in 1..Len(Queue') : Stands(session, Queue'[i]) => Queue'[i].name \notin Transfers
    BY <1>1, <1>2 DEF OldQueue
  <1>6. OldQueue'
    BY <1>3, <1>4, <1>5 DEF OldQueue
  <1>7. OldEvents'
    BY <1>2 DEF OldEvents, FilesFirst, Won
  <1>8. Lacks(events, {"connect"}) \/ Lacks(Queue', FileTasks)
    BY <1>1 DEF Old, Lacks
  <1>9. Lacks(Queue, {"disconnect"}) => Lacks(Queue', {"disconnect"})
    BY <1>1 DEF Lacks
  <1> QED
    BY <1>6, <1>7, <1>8, <1>9 DEF Old, Won

LEMMA ConnectKeeps ==
  ASSUME TypesOK, TypesOK', OpenWindow, Connect
  PROVE  OpenWindow'
  <1> DEFINE x == [name |-> "connect", api |-> connects + 1]
  <1>1. /\ x.name = "connect" /\ x.api = connects + 1 /\ Longer(Queue, Queue', x)
    BY Submitted DEF Connect
  <1> HIDE DEF x
  <1>2. /\ api = Nothing /\ dialog = Nothing /\ ~polling /\ connects \in 0..(MaxConnects - 1)
        /\ connects' = connects + 1 /\ api' = connects + 1 /\ connects + 1 \in Apis
        /\ buttons' = "busy" /\ ~filesOn' /\ dialog' = Nothing /\ ~polling'
        /\ events' = events /\ session' = session /\ MaxConnects \in Nat
    BY UiAssumption DEF Connect, Responsive, TypesOK, UiAssumption, Apis
  <1>3. Always /\ Old /\ Nothing \notin Apis
    BY <1>2, UiAssumption DEF OpenWindow, WhileNothing, UiAssumption
  <1>4. "connect" \notin FileTasks /\ "connect" \notin Transfers /\ api' # Nothing
    BY <1>2, <1>3, UiAssumption DEF UiAssumption, FileTasks
  <1>5. session'[api'] = "fresh"
    BY <1>2, <1>3 DEF Always
  <1>6. /\ Len(Queue) \in Nat /\ Len(Queue') = Len(Queue) + 1
        /\ \A i \in 1..Len(Queue') : \/ i = Len(Queue') /\ Queue'[i] = x
                                     \/ i \in 1..Len(Queue) /\ Queue'[i] = Queue[i]
    BY <1>1, Queues DEF Longer
  <1>7. Always'
    <2>1. \A a \in Apis : a > connects' => session'[a] = "fresh"
      <3>1. \A a \in Apis : a > connects + 1 => a > connects
        BY <1>2 DEF Apis
      <3> QED
        BY <1>2, <1>3, <3>1 DEF Always
    <2>2. \A i \in 1..Len(Queue') : /\ Queue'[i].api \in (1..connects') \cup {Nothing}
                                    /\ Queue'[i].api = Nothing => Queue'[i].name \in FileTasks
      <3>1. 1..connects \subseteq 1..connects' /\ connects + 1 \in 1..connects'
        BY <1>2
      <3> QED
        BY <1>1, <1>2, <1>3, <1>4, <1>6, <3>1 DEF Always
    <2>3. Len(Queue') + Clicks' + One(dialog' # Nothing) <= 5
      <3>1. PICK c \in Nat, d \in Nat : /\ Clicks = c + 1 /\ Clicks' = c
                                        /\ One(dialog # Nothing) = d /\ One(dialog' # Nothing) = d
        <4>1. Clicks = One(events # <<>>) + 1 /\ Clicks' = One(events # <<>>)
          BY <1>2, <1>4 DEF Clicks, One
        <4>2. One(events # <<>>) \in Nat /\ One(dialog # Nothing) \in Nat
              /\ One(dialog' # Nothing) = One(dialog # Nothing)
          BY <1>2 DEF One
        <4> QED
          BY <4>1, <4>2
      <3>2. Len(Queue) + Clicks + One(dialog # Nothing) <= 5
        BY <1>2, <1>3 DEF Always, Connected
      <3> QED
        BY <1>6, <3>1, <3>2
    <2> QED
      BY <1>2, <2>1, <2>2, <2>3 DEF Always
  <1>8. WhileFresh'
    <2>1. Old'
      <3>1. x.name # "disconnect" /\ x.name \notin Transfers /\ x.name \notin FileTasks
        BY <1>1, <1>4
      <3> QED
        BY <1>1, <1>2, <1>3, <3>1, OldSubmitted
    <2>2. NothingOffered'
      BY <1>2 DEF NothingOffered, On
    <2>3. ASSUME NEW i \in 1..Len(Queue'), Queue'[i].api = api'
          PROVE  i = Len(Queue') /\ Queue'[i].name = "connect"
      <3>1. CASE i = Len(Queue') /\ Queue'[i] = x
        BY <1>1, <3>1
      <3>2. CASE i \in 1..Len(Queue) /\ Queue'[i] = Queue[i]
        <4>1. Queue[i].api \in (1..connects) \cup {Nothing}
          BY <1>3, <3>2 DEF Always
        <4>2. connects + 1 \notin 1..connects
          BY <1>2
        <4> QED
          BY <1>2, <1>3, <2>3, <3>2, <4>1, <4>2
      <3> QED
        BY <1>6, <3>1, <3>2
    <2> QED
      BY <2>1, <2>2, <2>3 DEF WhileFresh
  <1> QED
    BY <1>4, <1>5, <1>7, <1>8 DEF OpenWindow, Phase

LEMMA RoomLeft ==
  ASSUME NEW y \in Nat, NEW own \in Nat, NEW old, NEW free, NEW dlg
  PROVE  /\ EarlyRoom(own, 0, old, FALSE, TRUE, free, dlg)
              => EarlyRoom(own, 1, old, FALSE, FALSE, free, dlg)
         /\ LateRoom(y, own, 0, FALSE, TRUE, free, dlg)
              => LateRoom(y, own, 1, FALSE, FALSE, free, dlg)
         /\ \A dead \in Nat \ {0} :
              /\ EarlyRoom(own, dead, old, FALSE, TRUE, free, dlg)
                   => EarlyRoom(own, dead + 1, old, FALSE, FALSE, free, dlg)
              /\ LateRoom(y, own, dead, FALSE, TRUE, free, dlg)
                   => LateRoom(y, own, dead + 1, FALSE, FALSE, free, dlg)
  <1>1. EarlyRoom(own, 0, old, FALSE, TRUE, free, dlg)
              => EarlyRoom(own, 1, old, FALSE, FALSE, free, dlg)
    BY DEF EarlyRoom, One
  <1>2. LateRoom(y, own, 0, FALSE, TRUE, free, dlg)
              => LateRoom(y, own, 1, FALSE, FALSE, free, dlg)
    BY DEF LateRoom, One
  <1>3. ASSUME NEW dead \in Nat \ {0}
        PROVE  EarlyRoom(own, dead, old, FALSE, TRUE, free, dlg)
                   => EarlyRoom(own, dead + 1, old, FALSE, FALSE, free, dlg)
    BY DEF EarlyRoom, One
  <1>4. ASSUME NEW dead \in Nat \ {0}
        PROVE  LateRoom(y, own, dead, FALSE, TRUE, free, dlg)
                   => LateRoom(y, own, dead + 1, FALSE, FALSE, free, dlg)
    BY DEF LateRoom, One
  <1> QED
    BY <1>1, <1>2, <1>3, <1>4

LEMMA RoomSpent ==
  ASSUME NEW y \in Nat, NEW own \in Nat, NEW old, NEW on, NEW on2, NEW free, NEW dlg,
         free \/ dlg, (free /\ (on2 => on)) \/ (on /\ ~on2)
  PROVE  /\ EarlyRoom(own, 0, old, FALSE, on, free, dlg)
              => EarlyRoom(own + 1, 0, old, FALSE, on2, FALSE, FALSE)
         /\ LateRoom(y, own, 0, FALSE, on, free, dlg)
              => LateRoom(y + 1, own, 0, FALSE, on2, FALSE, FALSE)
         /\ \A dead \in Nat \ {0} :
              /\ EarlyRoom(own, dead, old, FALSE, on, free, dlg)
                   => EarlyRoom(own, dead + 1, old, FALSE, on2, FALSE, FALSE)
              /\ LateRoom(y, own, dead, FALSE, on, free, dlg)
                   => LateRoom(y, own, dead + 1, FALSE, on2, FALSE, FALSE)
  <1>1. EarlyRoom(own, 0, old, FALSE, on, free, dlg)
              => EarlyRoom(own + 1, 0, old, FALSE, on2, FALSE, FALSE)
    BY DEF EarlyRoom, One
  <1>2. LateRoom(y, own, 0, FALSE, on, free, dlg)
              => LateRoom(y + 1, own, 0, FALSE, on2, FALSE, FALSE)
    BY DEF LateRoom, One
  <1>3. ASSUME NEW dead \in Nat \ {0}
        PROVE  EarlyRoom(own, dead, old, FALSE, on, free, dlg)
                   => EarlyRoom(own, dead + 1, old, FALSE, on2, FALSE, FALSE)
    BY DEF EarlyRoom, One
  <1>4. ASSUME NEW dead \in Nat \ {0}
        PROVE  LateRoom(y, own, dead, FALSE, on, free, dlg)
                   => LateRoom(y, own, dead + 1, FALSE, on2, FALSE, FALSE)
    BY DEF LateRoom, One
  <1> QED
    BY <1>1, <1>2, <1>3, <1>4

LEMMA RoomDialog ==
  ASSUME NEW y \in Nat, NEW own \in Nat, NEW dead \in Nat, NEW old, NEW on, NEW free,
         NEW dlg, NEW dlg2, dlg2 => free \/ dlg
  PROVE  /\ EarlyRoom(own, dead, old, FALSE, on, free, dlg)
              => EarlyRoom(own, dead, old, FALSE, on, free, dlg2)
         /\ LateRoom(y, own, dead, FALSE, on, free, dlg)
              => LateRoom(y, own, dead, FALSE, on, free, dlg2)
  <1>1. EarlyRoom(own, dead, old, FALSE, on, free, dlg)
              => EarlyRoom(own, dead, old, FALSE, on, free, dlg2)
    BY DEF EarlyRoom, One
  <1>2. LateRoom(y, own, dead, FALSE, on, free, dlg)
              => LateRoom(y, own, dead, FALSE, on, free, dlg2)
    BY DEF LateRoom, One
  <1> QED
    BY <1>1, <1>2

LEMMA InDisconnecting ==
  ASSUME TypesOK, TypesOK', WhileIn, ~polling, On, ~On', dialog = Nothing,
         NEW x, x.name = "disconnect", x.api = api, Longer(Queue, Queue', x),
         UNCHANGED <<api, dialog, polling, pending, events>>
  PROVE  WhileIn'
  <1>1. PICK y \in 0..Len(Queue), z \in 0..Len(events) : Split(y, z)
    BY DEF WhileIn
  <1>2. /\ polling = FALSE /\ On = TRUE /\ On' = FALSE /\ Learnt(z)' /\ Live(y)
        /\ OldFile(z)' = OldFile(z)
    BY <1>1 DEF Split, TypesOK, On, Learnt, Won, OldFile
  <1>3. PICK q \in Nat, n \in Nat : q = Len(Queue) /\ Len(Queue') = q + 1 /\ n = Len(events)
    BY <1>1, <1>2, Queues, SubmittedLive
  <1>4. /\ y \in Nat /\ z \in Nat /\ y + n - z \in Nat /\ q - y \in Nat
        /\ (q + 1) - y = (q - y) + 1 /\ y \in 0..Len(Queue')
    BY <1>1, <1>3
  <1>5. Live(y)'
    BY <1>1, <1>2, SubmittedLive
  <1>6. Split(y, z)'
    <2>1. CASE z = 0
      <3>1. LateRoom(y, n, q - y, FALSE, TRUE, ~pending, dialog # Nothing)
        BY <1>1, <1>2, <1>3, <2>1 DEF Split, Late
      <3>2. LateRoom(y, n, (q - y) + 1, FALSE, FALSE, ~pending, dialog # Nothing)
        <4>1. CASE q - y = 0
          <5>1. LateRoom(y, n, 0, FALSE, TRUE, ~pending, dialog # Nothing)
            BY <3>1, <4>1
          <5>2. LateRoom(y, n, 1, FALSE, FALSE, ~pending, dialog # Nothing)
            BY <1>3, <1>4, <5>1, RoomLeft
          <5>3. (q - y) + 1 = 1
            BY <4>1
          <5> QED
            BY <5>2, <5>3
        <4>2. CASE q - y # 0
          BY <1>3, <1>4, <3>1, <4>2, RoomLeft
        <4> QED
          BY <4>1, <4>2
      <3>3. Late(y)'
        BY <1>2, <1>3, <1>4, <3>2 DEF Late
      <3> QED
        BY <1>2, <1>5, <2>1, <3>3 DEF Split
    <2>2. CASE z # 0
      <3>1. EarlyRoom(y + n - z, q - y, OldFile(z), FALSE, TRUE, ~pending, dialog # Nothing)
        BY <1>1, <1>2, <1>3, <2>2 DEF Split, Early
      <3>2. EarlyRoom(y + n - z, (q - y) + 1, OldFile(z), FALSE, FALSE, ~pending,
                      dialog # Nothing)
        <4>1. CASE q - y = 0
          <5>1. EarlyRoom(y + n - z, 0, OldFile(z), FALSE, TRUE, ~pending, dialog # Nothing)
            BY <3>1, <4>1
          <5>2. EarlyRoom(y + n - z, 1, OldFile(z), FALSE, FALSE, ~pending, dialog # Nothing)
            BY <1>3, <1>4, <5>1, RoomLeft
          <5>3. (q - y) + 1 = 1
            BY <4>1
          <5> QED
            BY <5>2, <5>3
        <4>2. CASE q - y # 0
          BY <1>3, <1>4, <3>1, <4>2, RoomLeft
        <4> QED
          BY <4>1, <4>2
      <3>3. Early(y, z)'
        BY <1>2, <1>3, <1>4, <3>2 DEF Early
      <3> QED
        BY <1>2, <1>5, <2>2, <3>3 DEF Split
    <2> QED
      BY <2>1, <2>2
  <1>7. Lacks(events, {"disconnect"})
    BY DEF WhileIn, NothingOffered
  <1>8. \A i \in 1..Len(Queue') : /\ Queue'[i].api = api
                                  /\ Queue'[i].name \in FileTasks \cup {"disconnect"}
    <2>1. \A i \in 1..Len(Queue') : Queue'[i] = x \/ (i \in 1..Len(Queue) /\ Queue'[i] = Queue[i])
      BY <1>1, <1>2, SubmittedLive
    <2> QED
      BY <2>1 DEF WhileIn
  <1>9. dialog' # Nothing /\ pending' => On'
    OBVIOUS
  <1> QED
    BY <1>1, <1>4, <1>6, <1>7, <1>8, <1>9 DEF WhileIn

LEMMA InSubmitted ==
  ASSUME TypesOK, TypesOK', WhileIn, ~polling,
         NEW x, x.name \in FileTasks, x.api = api, Longer(Queue, Queue', x),
         UNCHANGED <<api, polling, events>>, dialog' = Nothing, pending',
         ~pending \/ dialog # Nothing, (~pending /\ (On' => On)) \/ (On /\ ~On'),
         \/ Lacks(events, {"disconnect"})
         \/ dialog = Nothing /\ x.name = "refresh" /\ NothingOffered'
  PROVE  WhileIn'
  <1>1. PICK y \in 0..Len(Queue), z \in 0..Len(events) : Split(y, z)
    BY DEF WhileIn
  <1>2. /\ polling = FALSE /\ Learnt(z)' /\ Live(y)
        /\ OldFile(z)' = OldFile(z) /\ (~pending') = FALSE /\ (dialog' # Nothing) = FALSE
    BY <1>1 DEF Split, TypesOK, Learnt, Won, OldFile
  <1>3. PICK q \in Nat, n \in Nat : q = Len(Queue) /\ Len(Queue') = q + 1 /\ n = Len(events)
    BY <1>1, <1>2, Queues, SubmittedLive
  <1>4. /\ y \in Nat /\ z \in Nat /\ y + n - z \in Nat /\ q - y \in Nat /\ y <= q
    BY <1>1, <1>3
  <1> DEFINE free == ~pending
             some == dialog # Nothing
             on == On
             on2 == On'
  <1>5. (free \/ some) /\ ((free /\ (on2 => on)) \/ (on /\ ~on2))
    OBVIOUS
  <1>6. z = 0 => LateRoom(y, n, q - y, FALSE, on, free, some)
    BY <1>1, <1>2, <1>3 DEF Split, Late
  <1>7. z # 0 => EarlyRoom(y + n - z, q - y, OldFile(z), FALSE, on, free, some)
    BY <1>1, <1>2, <1>3 DEF Split, Early
  <1> HIDE DEF free, some, on, on2
  <1>8. \E u \in 0..Len(Queue') : Split(u, z)'
    <2>1. CASE y = q
      <3>1. q - y = 0 /\ (q + 1) - (y + 1) = 0 /\ (y + 1) + n - z = (y + n - z) + 1
            /\ y + 1 \in 0..Len(Queue')
        BY <1>3, <1>4, <2>1
      <3>2. Live(y + 1)'
        BY <1>1, <1>2, <1>3, <2>1, SubmittedLive
      <3>3. CASE z = 0
        <4>1. LateRoom(y, n, 0, FALSE, on, free, some)
          BY <1>6, <3>1, <3>3
        <4>2. LateRoom(y + 1, n, 0, FALSE, on2, FALSE, FALSE)
          BY <1>3, <1>4, <1>5, <4>1, RoomSpent
        <4>3. Late(y + 1)'
          BY <1>2, <1>3, <3>1, <4>2 DEF Late, on2
        <4> QED
          BY <1>2, <3>1, <3>2, <3>3, <4>3 DEF Split
      <3>4. CASE z # 0
        <4>1. EarlyRoom(y + n - z, 0, OldFile(z), FALSE, on, free, some)
          BY <1>7, <3>1, <3>4
        <4>2. EarlyRoom((y + n - z) + 1, 0, OldFile(z), FALSE, on2, FALSE, FALSE)
          BY <1>3, <1>4, <1>5, <4>1, RoomSpent
        <4>3. Early(y + 1, z)'
          BY <1>2, <1>3, <3>1, <4>2 DEF Early, on2
        <4> QED
          BY <1>2, <3>1, <3>2, <3>4, <4>3 DEF Split
      <3> QED
        BY <3>3, <3>4
    <2>2. CASE y # q
      <3>1. q - y \in Nat \ {0} /\ (q + 1) - y = (q - y) + 1 /\ y \in 0..Len(Queue') /\ y < q
        BY <1>3, <1>4, <2>2
      <3>2. Live(y)'
        BY <1>1, <1>2, <1>3, <3>1, SubmittedLive
      <3>3. CASE z = 0
        <4>1. LateRoom(y, n, (q - y) + 1, FALSE, on2, FALSE, FALSE)
          BY <1>3, <1>4, <1>5, <1>6, <3>1, <3>3, RoomSpent
        <4>2. Late(y)'
          BY <1>2, <1>3, <3>1, <4>1 DEF Late, on2
        <4> QED
          BY <1>2, <3>1, <3>2, <3>3, <4>2 DEF Split
      <3>4. CASE z # 0
        <4>1. EarlyRoom(y + n - z, (q - y) + 1, OldFile(z), FALSE, on2, FALSE, FALSE)
          BY <1>3, <1>4, <1>5, <1>7, <3>1, <3>4, RoomSpent
        <4>2. Early(y, z)'
          BY <1>2, <1>3, <3>1, <4>1 DEF Early, on2
        <4> QED
          BY <1>2, <3>1, <3>2, <3>4, <4>2 DEF Split
      <3> QED
        BY <3>3, <3>4
    <2> QED
      BY <2>1, <2>2
  <1>9. \A i \in 1..Len(Queue') : Queue'[i] = x \/ (i \in 1..Len(Queue) /\ Queue'[i] = Queue[i])
    BY <1>1, <1>2, SubmittedLive
  <1>10. \A i \in 1..Len(Queue') : /\ Queue'[i].api = api
                                   /\ Queue'[i].name \in FileTasks \cup {"disconnect"}
    BY <1>9 DEF WhileIn
  <1>11. \/ Lacks(events', {"disconnect"})
         \/ /\ \A i \in 1..Len(Queue') : Queue'[i].name = "refresh"
            /\ NothingOffered'
    <2>1. \/ Lacks(events, {"disconnect"})
          \/ \A i \in 1..Len(Queue) : Queue[i].name = "refresh"
      BY DEF WhileIn
    <2> QED
      BY <1>9, <2>1
  <1>12. PICK u \in 0..Len(Queue') : Split(u, z)'
    BY <1>8
  <1>13. z \in 0..Len(events')
    BY <1>1
  <1> QED
    BY <1>10, <1>11, <1>12, <1>13 DEF WhileIn

LEMMA InDialog ==
  ASSUME TypesOK, TypesOK', WhileIn, ~polling, Queue' = Queue, On' = On,
         UNCHANGED <<api, polling, events, pending, filesOn>>,
         dialog' = Nothing \/ (~pending /\ filesOn)
  PROVE  WhileIn'
  <1>1. PICK y \in 0..Len(Queue), z \in 0..Len(events) : Split(y, z)
    BY DEF WhileIn
  <1>2. /\ polling = FALSE /\ Learnt(z)' /\ Live(y)' /\ OldFile(z)' = OldFile(z)
    BY <1>1 DEF Split, TypesOK, Learnt, Won, OldFile, Live
  <1>3. /\ y \in Nat /\ Len(events) \in Nat /\ y + Len(events) - z \in Nat
        /\ Len(Queue) - y \in Nat
    BY <1>1, Sizes
  <1> DEFINE free == ~pending
             some == dialog # Nothing
             some2 == dialog' # Nothing
  <1>4. some2 => free \/ some
    OBVIOUS
  <1>5. z = 0 => LateRoom(y, Len(events), Len(Queue) - y, FALSE, On, free, some)
    BY <1>1, <1>2 DEF Split, Late
  <1>6. z # 0 => EarlyRoom(y + Len(events) - z, Len(Queue) - y, OldFile(z), FALSE, On, free,
                           some)
    BY <1>1, <1>2 DEF Split, Early
  <1> HIDE DEF free, some, some2
  <1>7. z = 0 => LateRoom(y, Len(events), Len(Queue) - y, FALSE, On, free, some2)
    BY <1>3, <1>4, <1>5, RoomDialog
  <1>8. z # 0 => EarlyRoom(y + Len(events) - z, Len(Queue) - y, OldFile(z), FALSE, On, free,
                           some2)
    BY <1>3, <1>4, <1>6, RoomDialog
  <1>9. z = 0 => Late(y)'
    BY <1>2, <1>7 DEF Late, free, some2
  <1>10. z # 0 => Early(y, z)'
    BY <1>2, <1>8 DEF Early, free, some2
  <1>11. Split(y, z)'
    BY <1>2, <1>9, <1>10 DEF Split
  <1>12. dialog' # Nothing /\ pending' => On'
    OBVIOUS
  <1>13. \/ Lacks(events, {"disconnect"})
         \/ /\ \A i \in 1..Len(Queue) : Queue[i].name = "refresh"
            /\ ~filesOn /\ ~On
    BY DEF WhileIn, NothingOffered
  <1>14. \/ Lacks(events', {"disconnect"})
         \/ /\ \A i \in 1..Len(Queue') : Queue'[i].name = "refresh"
            /\ dialog' = Nothing
            /\ NothingOffered'
    BY <1>13 DEF NothingOffered
  <1>15. /\ y \in 0..Len(Queue') /\ z \in 0..Len(events')
         /\ \A i \in 1..Len(Queue') : /\ Queue'[i].api = api'
                                      /\ Queue'[i].name \in FileTasks \cup {"disconnect"}
    BY <1>1 DEF WhileIn
  <1> QED
    BY <1>11, <1>12, <1>14, <1>15 DEF WhileIn

LEMMA DisconnectKeeps ==
  ASSUME TypesOK, TypesOK', OpenWindow, Disconnect
  PROVE  OpenWindow'
  <1> DEFINE x == [name |-> "disconnect", api |-> api]
  <1>1. /\ x = [name |-> "disconnect", api |-> api] /\ x.name = "disconnect" /\ x.api = api
        /\ Longer(Queue, Queue', x)
    BY Submitted DEF Disconnect
  <1> HIDE DEF x
  <1>2. /\ UNCHANGED <<api, dialog, connects, polling, pending, events, session>>
        /\ dialog = Nothing /\ ~polling /\ On /\ ~On' /\ ~filesOn' /\ Connected(api)
    BY DEF Disconnect, Responsive, window, On
  <1>3. Always /\ api # Nothing
    BY <1>2 DEF OpenWindow, Connected
  <1>4. Always'
    BY <1>1, <1>2, <1>3, AlwaysSubmitted
  <1>5. ASSUME WhileIn PROVE WhileIn'
    BY <1>1, <1>2, <1>5, InDisconnecting
  <1>6. ASSUME WhileOpen PROVE WhileOpen'
    <2>1. /\ Len(Queue) \in Nat \ {0} /\ Len(Queue') = Len(Queue) + 1 /\ Queue'[1] = Queue[1]
          /\ \A i \in 2..Len(Queue') :
                Queue'[i] = x \/ (i \in 2..Len(Queue) /\ Queue'[i] = Queue[i])
      BY <1>1, <1>6, Queues DEF Longer, WhileOpen
    <2>2. Lacks(events, {"disconnect"})
      BY <1>2, <1>6 DEF WhileOpen, NothingOffered
    <2>3. OldEvents'
      BY <1>2, <1>6 DEF WhileOpen, OldEvents, FilesFirst, Won
    <2>4. Len(Queue') + (IF polling' THEN One(On \/ events # <<>>)'
                                     ELSE One(On)' + One(events # <<>>)') <= 3
      <3>1. PICK m \in Nat : m = One(events # <<>>)
        BY DEF One
      <3>2. Len(Queue) + 1 + m <= 3
        <4>1. One(On) = 1
          BY <1>2 DEF One
        <4>2. Len(Queue) + (One(On) + One(events # <<>>)) <= 3
          BY <1>2, <1>6 DEF WhileOpen
        <4>3. Len(Queue) + (1 + m) <= 3
          BY <3>1, <4>1, <4>2
        <4> QED
          BY <2>1, <3>1, <4>3
      <3>3. One(On)' = 0 /\ One(events # <<>>)' = m
        BY <1>2, <3>1 DEF One
      <3> QED
        BY <1>2, <2>1, <3>1, <3>2, <3>3
    <2>5. /\ Len(Queue') > 0 /\ Queue'[1] = [name |-> "connect", api |-> api]
          /\ \A i \in 2..Len(Queue') : Queue'[i] = [name |-> "disconnect", api |-> api]
      BY <1>1, <1>6, <2>1 DEF WhileOpen
    <2>6. Lacks(events', {"disconnect"})
      BY <1>2, <2>2
    <2> QED
      BY <1>2, <2>3, <2>4, <2>5, <2>6 DEF WhileOpen
  <1> QED
    BY <1>2, <1>3, <1>4, <1>5, <1>6 DEF OpenWindow, Phase, Connected

LEMMA RefreshKeeps ==
  ASSUME TypesOK, TypesOK', OpenWindow, Refresh
  PROVE  OpenWindow'
  <1> DEFINE x == [name |-> "refresh", api |-> api]
  <1>1. /\ x.name = "refresh" /\ x.api = api /\ Longer(Queue, Queue', x)
    BY Submitted DEF Refresh
  <1> HIDE DEF x
  <1>2. /\ UNCHANGED <<api, dialog, connects, polling, events, session>>
        /\ dialog = Nothing /\ ~polling /\ On' = On /\ ~filesOn' /\ Authenticated(api)
        /\ ~pending /\ pending'
    BY DEF Refresh, Responsive, On
  <1>3. /\ Always /\ api # Nothing /\ Connected(api) /\ Phase("authenticated") /\ WhileIn
        /\ session[api] = "authenticated"
    BY <1>2 DEF OpenWindow, Connected, Authenticated, Phase
  <1>4. Always'
    BY <1>1, <1>2, <1>3, AlwaysSubmitted
  <1>5. Lacks(events, {"disconnect"}) \/ NothingOffered'
    BY <1>2, <1>3 DEF WhileIn, NothingOffered
  <1>6. x.name \in FileTasks
    BY <1>1 DEF FileTasks
  <1>7. WhileIn'
    BY <1>1, <1>2, <1>3, <1>5, <1>6, InSubmitted
  <1> QED
    BY <1>2, <1>3, <1>4, <1>7 DEF OpenWindow, Phase

LEMMA DialogKeeps ==
  ASSUME TypesOK, TypesOK', OpenWindow, ~polling,
         DismissDialog \/ \E t \in Transfers : OpenDialog(t)
  PROVE  OpenWindow'
  <1>1. /\ UNCHANGED <<api, connects, polling, pending, events, session, filesOn, buttons>>
        /\ Queue' = Queue /\ On' = On
        /\ dialog' = Nothing \/ (filesOn /\ Authenticated(api) /\ ~pending)
    BY SameTasks DEF DismissDialog, OpenDialog, views, worker, On
  <1>2. Always
    BY DEF OpenWindow
  <1>3. WhileIn => WhileIn'
    BY <1>1, InDialog
  <1>4. Always'
    <2>1. CASE dialog' = Nothing
      <3>1. PICK q \in Nat, c \in Nat, d \in Nat :
              q = Len(Queue) /\ c = Clicks /\ d = One(dialog # Nothing)
        BY Queues DEF Clicks, One
      <3>2. Clicks' = c /\ One(dialog # Nothing)' = 0
        BY <1>1, <2>1, <3>1 DEF Clicks, One
      <3>3. ASSUME ~Connected(api) PROVE q + c + 0 <= 5
        <4>1. q + c + d <= 5
          BY <1>2, <3>1, <3>3 DEF Always
        <4> QED
          BY <4>1
      <3>4. Connected(api)' = Connected(api)
        BY <1>1 DEF Connected
      <3> QED
        BY <1>1, <1>2, <2>1, <3>1, <3>2, <3>3, <3>4 DEF Always
    <2>2. CASE Authenticated(api)
      <3>1. /\ api # Nothing /\ session[api] = "authenticated" /\ Connected(api)'
            /\ "connect" \notin FileTasks
        BY <1>1, <2>2, UiAssumption DEF Authenticated, Connected, UiAssumption, FileTasks
      <3>2. Lacks(Queue, {"connect"})
        BY <3>1 DEF OpenWindow, Phase, WhileIn, Lacks
      <3> QED
        BY <1>1, <1>2, <3>1, <3>2 DEF Always
    <2> QED
      BY <1>1, <2>1, <2>2
  <1>5. OldQueue' = OldQueue /\ OldEvents' = OldEvents
    BY <1>1 DEF OldQueue, OldEvents, FilesFirst, Stands, Won
  <1>6. Old' = Old
    BY <1>1, <1>5 DEF Old, Won
  <1>7. NothingOffered' = NothingOffered /\ NoDisconnect' = NoDisconnect
    BY <1>1 DEF NothingOffered, NoDisconnect
  <1>8. WhileNothing' = WhileNothing /\ WhileFresh' = WhileFresh
    BY <1>1, <1>5, <1>6, <1>7 DEF WhileNothing, WhileFresh
  <1>9. WhileOpen' = WhileOpen
    BY <1>1, <1>5, <1>7 DEF WhileOpen
  <1>10. WhileClosed' = WhileClosed
    BY <1>1 DEF WhileClosed, FilesFirst
  <1> QED
    BY <1>1, <1>3, <1>4, <1>8, <1>9, <1>10 DEF OpenWindow, Phase

LEMMA StartKeeps ==
  ASSUME TypesOK, TypesOK', OpenWindow, StartTransfer
  PROVE  OpenWindow'
  <1> DEFINE x == [name |-> dialog, api |-> api]
  <1>1. /\ x.name = dialog /\ x.api = api /\ Longer(Queue, Queue', x)
    BY Submitted DEF StartTransfer
  <1> HIDE DEF x
  <1>2. /\ UNCHANGED <<api, connects, polling, events, session>>
        /\ dialog # Nothing /\ dialog' = Nothing /\ ~polling /\ ~On' /\ ~filesOn' /\ pending'
        /\ dialog \in Transfers
    BY DEF StartTransfer, On, TypesOK
  <1>3. /\ x.name \in Transfers /\ x.name \in FileTasks /\ x.name # "connect"
        /\ x.name # "disconnect" /\ Nothing \notin Apis
    BY <1>1, <1>2, UiAssumption DEF UiAssumption, FileTasks
  <1>4. Always
    BY DEF OpenWindow
  <1>5. /\ Len(Queue) \in Nat /\ Len(Queue') = Len(Queue) + 1
        /\ \A i \in 1..Len(Queue') : \/ i = Len(Queue') /\ Queue'[i] = x
                                     \/ i \in 1..Len(Queue) /\ Queue'[i] = Queue[i]
    BY <1>1, Queues DEF Longer
  <1>6. Always'
    <2>1. api \in (1..connects) \cup {Nothing}
      <3>1. ASSUME api # Nothing PROVE api \in 1..connects
        <4>1. /\ api = connects /\ connects \in 0..MaxConnects /\ api \in 1..MaxConnects
              /\ MaxConnects \in Nat
          BY <1>4, <3>1, UiAssumption DEF Always, TypesOK, Apis, UiAssumption
        <4> QED
          BY <4>1
      <3> QED
        BY <3>1
    <2>2. \A i \in 1..Len(Queue') : /\ Queue'[i].api \in (1..connects') \cup {Nothing}
                                    /\ Queue'[i].api = Nothing => Queue'[i].name \in FileTasks
      BY <1>1, <1>2, <1>3, <1>4, <1>5, <2>1 DEF Always
    <2>3. ASSUME ~Connected(api) PROVE Len(Queue') + Clicks' + One(dialog # Nothing)' <= 5
      <3>1. Len(Queue) + Clicks + One(dialog # Nothing) <= 5
        BY <1>4, <2>3 DEF Always
      <3>2. One(dialog # Nothing) = 1 /\ One(dialog # Nothing)' = 0
        BY <1>2 DEF One
      <3>3. Clicks' = Clicks /\ Clicks \in Nat
        BY <1>2 DEF Clicks, One
      <3> QED
        BY <1>5, <3>1, <3>2, <3>3
    <2>4. Connected(api)' = Connected(api)
      BY <1>2 DEF Connected
    <2> QED
      BY <1>2, <1>4, <2>2, <2>3, <2>4 DEF Always
  <1>7. Lacks(Queue, {"connect"})
    BY <1>2, <1>4 DEF Always
  <1>8. CASE api = Nothing
    <2>1. Old /\ Lacks(events, {"connect"})
      BY <1>2, <1>4, <1>8 DEF OpenWindow, WhileNothing, Always
    <2>2. ~Stands(session, x)
      BY <1>1, <1>8 DEF Stands
    <2>3. Old'
      BY <1>1, <1>2, <1>3, <1>7, <2>1, <2>2, OldSubmitted
    <2>4. WhileNothing'
      BY <2>3 DEF WhileNothing, Old
    <2> QED
      BY <1>2, <1>6, <1>8, <2>4 DEF OpenWindow, Phase
  <1>9. CASE api # Nothing /\ session[api] = "closed"
    <2>1. WhileClosed
      BY <1>9 DEF OpenWindow, Phase
    <2>2. \A i \in 1..Len(Queue') : Queue'[i].api = api
      BY <1>1, <1>5, <2>1 DEF WhileClosed
    <2>3. FilesFirst(Queue)'
      BY <1>3, <1>5, <1>7 DEF FilesFirst, Lacks
    <2>4. WhileClosed'
      BY <1>2, <2>2, <2>3 DEF WhileClosed
    <2> QED
      BY <1>2, <1>6, <1>9, <2>4 DEF OpenWindow, Phase
  <1>10. CASE api # Nothing /\ session[api] = "authenticated"
    <2>1. WhileIn
      BY <1>10 DEF OpenWindow, Phase
    <2>2. Lacks(events, {"disconnect"}) /\ (On \/ ~pending)
      BY <1>2, <2>1 DEF WhileIn
    <2>3. WhileIn'
      BY <1>1, <1>2, <1>3, <2>1, <2>2, InSubmitted
    <2> QED
      BY <1>2, <1>6, <1>10, <2>3 DEF OpenWindow, Phase
  <1> QED
    BY <1>2, <1>4, <1>8, <1>9, <1>10 DEF Always

\* How many tasks wait when the user closes the session, or the window.
LEMMA Waiting ==
  ASSUME TypesOK, OpenWindow
  PROVE  /\ Len(Queue) <= 5
         /\ ~polling /\ Connected(api) => Len(Queue) + One(events # <<>>) <= 5
  <1>1. PICK q \in Nat, c \in Nat, d \in Nat, s \in {0, 1} :
          /\ q = Len(Queue) /\ c = Clicks /\ d = One(dialog # Nothing)
          /\ s = One(events # <<>>)
    <2>1. Len(Queue) \in Nat
      BY Queues
    <2>2. Clicks \in Nat /\ One(dialog # Nothing) \in Nat /\ One(events # <<>>) \in {0, 1}
      BY DEF Clicks, One
    <2> QED
      BY <2>1, <2>2
  <1>2. CASE ~Connected(api)
    <2>1. q + c + d <= 5
      BY <1>1, <1>2 DEF OpenWindow, Always
    <2> QED
      BY <1>1, <1>2, <2>1
  <1>3. CASE Phase("open")
    <2>1. WhileOpen
      BY <1>3 DEF OpenWindow
    <2>2. Len(Queue) <= 3
      BY <1>1, <2>1 DEF WhileOpen, One
    <2> QED
      BY <1>1, <2>2
  <1>4. CASE Phase("authenticated")
    <2>1. WhileIn
      BY <1>4 DEF OpenWindow
    <2>2. q + d <= 5 /\ (~polling => q + s <= 5)
      BY <1>1, <2>1, Few
    <2> QED
      BY <1>1, <2>2
  <1> QED
    BY <1>2, <1>3, <1>4 DEF Connected, Phase

LEMMA CancelKeeps ==
  ASSUME TypesOK, TypesOK', OpenWindow, Cancel
  PROVE  OpenWindow'
  <1>1. /\ UNCHANGED <<api, connects, polling, events, dialog, pending>> /\ Queue' = Queue
        /\ dialog = Nothing /\ ~polling /\ ~On' /\ ~filesOn' /\ api # Nothing
        /\ session' = Closed(api)
    BY SameTasks DEF Cancel, Responsive, On, worker
  <1>2. /\ session \in [Apis -> {"fresh", "open", "authenticated", "closed"}] /\ api \in Apis
        /\ FileTasks \cap {"connect", "disconnect"} = {}
    BY <1>1, UiAssumption DEF TypesOK, UiAssumption, FileTasks
  <1>3. Always
    BY DEF OpenWindow
  <1>4. Clicks' = Clicks /\ One(dialog # Nothing)' = One(dialog # Nothing)
    BY <1>1 DEF Clicks, One
  <1>5. CASE ~Connected(api)
    <2>1. session' = session
      BY <1>1, <1>5 DEF Closed
    <2>2. Always'
      BY <1>1, <1>3, <1>4, <2>1 DEF Always, Connected
    <2>3. CASE session[api] = "fresh"
      <3>1. WhileFresh
        BY <1>1, <2>3 DEF OpenWindow, Phase
      <3>2. OldQueue' = OldQueue /\ OldEvents' = OldEvents
        BY <1>1, <2>1 DEF OldQueue, OldEvents, FilesFirst, Stands, Won
      <3>3. Old'
        BY <1>1, <3>1, <3>2 DEF WhileFresh, Old, Won
      <3>4. WhileFresh'
        BY <1>1, <3>1, <3>3 DEF WhileFresh, NothingOffered
      <3> QED
        BY <1>1, <2>1, <2>2, <2>3, <3>4 DEF OpenWindow, Phase
    <2>4. CASE session[api] = "closed"
      <3>1. WhileClosed
        BY <1>1, <2>4 DEF OpenWindow, Phase
      <3>2. WhileClosed'
        BY <1>1, <3>1 DEF WhileClosed, FilesFirst
      <3> QED
        BY <1>1, <2>1, <2>2, <2>4, <3>2 DEF OpenWindow, Phase
    <2> QED
      BY <1>1, <1>2, <1>5, <2>3, <2>4 DEF Connected
  <1>6. CASE Connected(api)
    <2>1. /\ session'[api] = "closed"
          /\ \A a \in Apis : session[a] = "fresh" => session'[a] = "fresh"
      BY <1>1, <1>2, <1>6 DEF Closed, Connected
    <2>2. Always'
      <3>1. Len(Queue) + Clicks' + One(dialog # Nothing)' <= 5
        <4>1. Clicks' = One(events # <<>>) /\ One(dialog # Nothing)' = 0
              /\ One(events # <<>>) \in Nat
          BY <1>1 DEF Clicks, One
        <4>2. Len(Queue) + One(events # <<>>) <= 5 /\ Len(Queue) \in Nat
          BY <1>1, <1>6, Waiting, Queues
        <4> QED
          BY <4>1, <4>2
      <3> QED
        BY <1>1, <1>3, <2>1, <3>1 DEF Always
    <2>3. (\A i \in 1..Len(Queue) : Queue[i].api = api) /\ FilesFirst(Queue)
      <3>1. CASE Phase("open")
        <4>1. /\ \A i \in 1..Len(Queue) : i = 1 \/ i \in 2..Len(Queue)
              /\ Queue[1].api = api
              /\ \A i \in 2..Len(Queue) : Queue[i].api = api /\ Queue[i].name = "disconnect"
          BY <3>1, Queues DEF OpenWindow, WhileOpen
        <4>2. \A i, j \in 1..Len(Queue) : i < j => j \in 2..Len(Queue)
          BY Queues
        <4> QED
          BY <1>2, <4>1, <4>2 DEF FilesFirst
      <3>2. CASE Phase("authenticated")
        BY <1>2, <3>2 DEF OpenWindow, WhileIn, FilesFirst
      <3> QED
        BY <1>6, <3>1, <3>2 DEF Phase, Connected
    <2>4. WhileClosed'
      BY <1>1, <2>3 DEF WhileClosed, FilesFirst
    <2> QED
      BY <1>1, <2>1, <2>2, <2>4 DEF OpenWindow, Phase
  <1> QED
    BY <1>5, <1>6

LEMMA ClickStep ==
  ASSUME TypesOK, TypesOK', QueueInv, Click
  PROVE  QueueInv'
  <1>1. ~closing /\ ~polling /\ OpenWindow
    BY DEF Click, Connect, Disconnect, Refresh, OpenDialog, DismissDialog, StartTransfer,
           Cancel, CloseWindow, Responsive, QueueInv
  <1>2. CASE CloseWindow
    <2>1. /\ dialog' = Nothing /\ ~polling' /\ closing'
          /\ tasks' = Append(tasks, [name |-> "stop", api |-> Nothing])
      BY <1>2 DEF CloseWindow, Responsive, Submit
    <2>2. Len(tasks') = Len(tasks) + 1
      BY <2>1 DEF TypesOK
    <2>3. Len(Queue) <= 5 /\ Len(Queue) \in Nat /\ Len(tasks) \in Nat /\ Len(tasks) <= Len(Queue)
      BY <1>1, Waiting, Queues
    <2> QED
      BY <2>1, <2>2, <2>3 DEF QueueInv
  <1>3. CASE ~CloseWindow
    <2>1. closing' = closing
      BY <1>3 DEF Click, Connect, Disconnect, Refresh, OpenDialog, DismissDialog,
                  StartTransfer, Cancel, window
    <2>2. OpenWindow'
      BY <1>1, <1>3, ConnectKeeps, DisconnectKeeps, RefreshKeeps, DialogKeeps, StartKeeps,
         CancelKeeps DEF Click
    <2> QED
      BY <1>1, <2>1, <2>2 DEF QueueInv
  <1> QED
    BY <1>2, <1>3

LEMMA QueueInit == UiInit => QueueInv
  <1> SUFFICES ASSUME UiInit PROVE QueueInv
    OBVIOUS
  <1>1. /\ Queue = <<>> /\ events = <<>> /\ api = Nothing /\ ~polling /\ ~closing
        /\ dialog = Nothing /\ connects = 0 /\ session = [a \in Apis |-> "fresh"]
    BY DEF UiInit, Queue
  <1>2. Len(Queue) = 0 /\ Len(events) = 0
    BY <1>1
  <1>3. Clicks = 1 /\ One(dialog # Nothing) = 0
    BY <1>1 DEF Clicks, One
  <1>4. Always
    BY <1>1, <1>2, <1>3 DEF Always
  <1>5. Old
    BY <1>2 DEF Old, OldQueue, OldEvents, FilesFirst, Lacks
  <1> QED
    BY <1>1, <1>4, <1>5 DEF QueueInv, OpenWindow, WhileNothing, Old, Phase

LEMMA QueueStep == WindowInv /\ WindowInv' /\ QueueInv /\ [UiNext]_uiVars => QueueInv'
  <1> SUFFICES ASSUME WindowInv, WindowInv', QueueInv, [UiNext]_uiVars PROVE QueueInv'
    OBVIOUS
  <1>1. TypesOK /\ TypesOK'
    BY DEF WindowInv
  <1>2. CASE WorkerStep
    BY <1>1, <1>2, WorkerKeeps
  <1>3. CASE Poll
    BY <1>1, <1>3, PollStep
  <1>4. CASE Click
    BY <1>1, <1>4, ClickStep
  <1>5. CASE UNCHANGED uiVars
    <2>1. Queue' = Queue /\ UNCHANGED <<events, session, window, views, tasks>>
      BY <1>5, SameTasks DEF uiVars, worker
    <2>2. closing' = closing /\ dialog' = dialog /\ polling' = polling
      BY <2>1 DEF window
    <2> QED
      BY <2>1, <2>2, SameKeeps DEF QueueInv
  <1> QED
    BY <1>2, <1>3, <1>4, <1>5 DEF UiNext

\* However fast the user clicks and however slow the operations are, and however often
\* the user connects, at most six tasks wait for the background thread (worker.py
\* bounds its queue nowhere: what the window offers and refuses does).
THEOREM QueueAlwaysShort == UiSpec => []UiTypeOK
  <1>1. UiInit => WindowInv /\ QueueInv
    BY WindowInit, QueueInit
  <1>2. WindowInv /\ QueueInv /\ [UiNext]_uiVars => (WindowInv /\ QueueInv)'
    BY WindowStep, QueueStep
  <1>3. WindowInv /\ QueueInv => UiTypeOK
    <2> SUFFICES ASSUME WindowInv, QueueInv PROVE UiTypeOK
      OBVIOUS
    <2>1. TypesOK
      BY DEF WindowInv
    <2>2. Len(tasks) <= 6
      <3>1. CASE closing
        BY <3>1 DEF QueueInv
      <3>2. CASE ~closing
        <4>1. Len(Queue) <= 5
          BY <2>1, <3>2, Waiting DEF QueueInv
        <4>2. Len(tasks) <= Len(Queue) /\ Len(tasks) \in Nat /\ Len(Queue) \in Nat
          BY <2>1, Queues
        <4> QED
          BY <4>1, <4>2
      <3> QED
        BY <3>1, <3>2
    <2> QED
      BY <2>1, <2>2 DEF UiTypeOK
  <1> QED
    BY <1>1, <1>2, <1>3, PTL DEF UiSpec

================================================================================
