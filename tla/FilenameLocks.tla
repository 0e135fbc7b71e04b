----------------------------- MODULE FilenameLocks -----------------------------
(***************************************************************************)
(* server/filename_locks.py: FilenameLockRegistry.  hold() is a context    *)
(* manager run by session threads.  Its two "with self._guard" sections    *)
(* are atomic; between them a thread waits for, holds and gives back the   *)
(* lock of an entry object it found or created, so entries of one key may  *)
(* come and go while threads still refer to them.                          *)
(***************************************************************************)
EXTENDS Integers, FiniteSets

CONSTANTS
  Threads,    \* the session threads
  Keys,       \* the (namespace, filename) pairs
  Entries,    \* identities for _LockEntry objects; reused once unreachable
  None        \* no thread, no key, no entry

\* Reusing the identity of an unreachable object needs one per thread at most.
ASSUME LocksAssumption ==
  /\ IsFiniteSet(Threads)
  /\ None \notin Threads \cup Keys \cup Entries

VARIABLES
  entries,      \* _entries: key -> _LockEntry
  references,   \* _LockEntry.references
  owner,        \* _LockEntry.lock: the thread that acquired it, or None
  pc,           \* where each thread is in hold()
  key,          \* the local "key" of each thread
  entry         \* the local "entry" of each thread

lockVars == <<entries, references, owner, pc, key, entry>>

Init ==
  /\ entries = [k \in {} |-> None]
  /\ references = [e \in Entries |-> 0]
  /\ owner = [e \in Entries |-> None]
  /\ pc = [t \in Threads |-> "outside"]
  /\ key = [t \in Threads |-> None]
  /\ entry = [t \in Threads |-> None]

\* Objects neither the dictionary nor a thread refers to: free for allocation.
Unreachable == {e \in Entries : /\ \A k \in DOMAIN entries : entries[k] # e
                                /\ \A t \in Threads : entry[t] # e}

-------------------------------------------------------------------------------
(* Lines 31-37: find or create the entry of k and count one more user.     *)

\* Faulty variant: an existing entry is overwritten by a new one.
FindOrCreateAlwaysNew(t, k) ==
  /\ pc[t] = "outside"
  /\ \E e \in Unreachable :
       /\ entries' = [x \in DOMAIN entries \cup {k} |-> IF x = k THEN e ELSE entries[x]]
       /\ references' = [references EXCEPT ![e] = 1]
       /\ owner' = [owner EXCEPT ![e] = None]
       /\ entry' = [entry EXCEPT ![t] = e]
  /\ key' = [key EXCEPT ![t] = k]
  /\ pc' = [pc EXCEPT ![t] = "waiting"]

Find(t, k) ==
  /\ pc[t] = "outside"
  /\ k \in DOMAIN entries
  /\ references' = [references EXCEPT ![entries[k]] = @ + 1]
  /\ entry' = [entry EXCEPT ![t] = entries[k]]
  /\ key' = [key EXCEPT ![t] = k]
  /\ pc' = [pc EXCEPT ![t] = "waiting"]
  /\ UNCHANGED <<entries, owner>>

Create(t, k) ==
  /\ pc[t] = "outside"
  /\ k \notin DOMAIN entries
  /\ \E e \in Unreachable :
       /\ entries' = [x \in DOMAIN entries \cup {k} |-> IF x = k THEN e ELSE entries[x]]
       /\ references' = [references EXCEPT ![e] = 1]
       /\ owner' = [owner EXCEPT ![e] = None]
       /\ entry' = [entry EXCEPT ![t] = e]
  /\ key' = [key EXCEPT ![t] = k]
  /\ pc' = [pc EXCEPT ![t] = "waiting"]

FindOrCreate(t, k) == Find(t, k) \/ Create(t, k)

-------------------------------------------------------------------------------
(* Lines 40-46: take the lock of the entry, run the body, give it back.    *)

\* Faulty variant: the lock is taken without waiting for its owner.
AcquireAnyway(t) ==
  /\ pc[t] = "waiting"
  /\ owner' = [owner EXCEPT ![entry[t]] = t]
  /\ pc' = [pc EXCEPT ![t] = "holding"]
  /\ UNCHANGED <<entries, references, key, entry>>

Acquire(t) ==
  /\ pc[t] = "waiting"
  /\ owner[entry[t]] = None
  /\ owner' = [owner EXCEPT ![entry[t]] = t]
  /\ pc' = [pc EXCEPT ![t] = "holding"]
  /\ UNCHANGED <<entries, references, key, entry>>

\* acquire() raises: "acquired" stays False and the lock is not released.

AcquireFails(t) ==
  /\ pc[t] = "waiting"
  /\ pc' = [pc EXCEPT ![t] = "leaving"]
  /\ UNCHANGED <<entries, references, owner, key, entry>>

\* Faulty variant: the body ends without giving the lock back.
ReleaseNothing(t) ==
  /\ pc[t] = "holding"
  /\ pc' = [pc EXCEPT ![t] = "leaving"]
  /\ UNCHANGED <<entries, references, owner, key, entry>>

Release(t) ==
  /\ pc[t] = "holding"
  /\ owner' = [owner EXCEPT ![entry[t]] = None]
  /\ pc' = [pc EXCEPT ![t] = "leaving"]
  /\ UNCHANGED <<entries, references, key, entry>>

-------------------------------------------------------------------------------
(* Lines 47-50: count one user less, drop the key after the last one.      *)

\* Faulty variants: the key is dropped by every user; it is never dropped.
ForgetAlways(t) ==
  /\ pc[t] = "leaving"
  /\ references' = [references EXCEPT ![entry[t]] = @ - 1]
  /\ entries' = [x \in DOMAIN entries \ {key[t]} |-> entries[x]]
  /\ pc' = [pc EXCEPT ![t] = "outside"]
  /\ key' = [key EXCEPT ![t] = None]
  /\ entry' = [entry EXCEPT ![t] = None]
  /\ UNCHANGED owner
ForgetNever(t) ==
  /\ pc[t] = "leaving"
  /\ references' = [references EXCEPT ![entry[t]] = @ - 1]
  /\ pc' = [pc EXCEPT ![t] = "outside"]
  /\ key' = [key EXCEPT ![t] = None]
  /\ entry' = [entry EXCEPT ![t] = None]
  /\ UNCHANGED <<entries, owner>>

Forget(t) ==
  /\ pc[t] = "leaving"
  /\ references' = [references EXCEPT ![entry[t]] = @ - 1]
  /\ entries' = IF references[entry[t]] = 1
                THEN [x \in DOMAIN entries \ {key[t]} |-> entries[x]]
                ELSE entries
  /\ pc' = [pc EXCEPT ![t] = "outside"]
  /\ key' = [key EXCEPT ![t] = None]
  /\ entry' = [entry EXCEPT ![t] = None]
  /\ UNCHANGED owner

Step(t) == Acquire(t) \/ AcquireFails(t) \/ Release(t) \/ Forget(t)

Next == \E t \in Threads : Step(t) \/ \E k \in Keys : FindOrCreate(t, k)

Spec == Init /\ [][Next]_lockVars

\* The code gives no fairness to lock acquisition; a thread inside hold() only
\* keeps running: the body ends, and the two statements after it are executed.
\* "SomeAcquire(k)" is the promise of threading.Lock: a free lock that threads
\* wait for is taken by one of them.
SomeAcquire(k) == \E t \in Threads : key[t] = k /\ Acquire(t)

FairSpec ==
  /\ Spec
  /\ \A t \in Threads : WF_lockVars(Release(t)) /\ WF_lockVars(Forget(t))
  /\ \A k \in Keys : WF_lockVars(SomeAcquire(k))

-------------------------------------------------------------------------------
\* Every variable has its type; the count of users of an entry never drops below
\* zero, on the error paths of hold() either.
TypeOK ==
  /\ DOMAIN entries \subseteq Keys
  /\ entries \in [DOMAIN entries -> Entries]
  /\ references \in [Entries -> Nat]
  /\ owner \in [Entries -> Threads \cup {None}]
  /\ pc \in [Threads -> {"outside", "waiting", "holding", "leaving"}]
  /\ key \in [Threads -> Keys \cup {None}]
  /\ entry \in [Threads -> Entries \cup {None}]

Users(k) == {t \in Threads : key[t] = k}

\* Two threads are never inside the body with the same key, even when the entry
\* of the key was dropped and created again while one of them was waiting.
MutualExclusion ==
  \A t, u \in Threads :
    t # u /\ pc[t] = "holding" /\ pc[u] = "holding" => key[t] # key[u]

\* Everybody between the two guarded sections refers to the entry the registry
\* lists under the key: no thread waits on a lock that newcomers cannot see.
UsersShareTheListedEntry ==
  \A k \in Keys : \A t \in Users(k) : k \in DOMAIN entries /\ entries[k] = entry[t]

\* snapshot() lists exactly the keys held or awaited by a session: an entry is
\* neither leaked by its last user nor dropped while someone still uses it.
SnapshotExact == DOMAIN entries = {k \in Keys : Users(k) # {}}

\* The reference count of a listed entry is the number of threads using its key.
ReferencesExact ==
  \A k \in DOMAIN entries : references[entries[k]] = Cardinality(Users(k))

\* While threads wait for a key, the key does not stay idle: someone gets in.
KeyIsServed ==
  \A k \in Keys :
    (\E t \in Users(k) : pc[t] = "waiting")
      ~> \/ \E t \in Users(k) : pc[t] = "holding"
         \/ \A t \in Users(k) : pc[t] # "waiting"

\* The locks refine one mutex per key.
Mutex == INSTANCE KeyedMutex
           WITH inside <- {<<t, key[t]>> : t \in {u \in Threads : pc[u] = "holding"}}
ImplementsKeyedMutex == Mutex!Spec
===============================================================================
