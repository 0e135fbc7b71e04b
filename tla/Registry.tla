------------------------------- MODULE Registry -------------------------------
(***************************************************************************)
(* server/registry.py: ActiveSessionRegistry.  Every public method runs    *)
(* under one re-entrant lock, so one call is one action.  Calls come from  *)
(* worker threads, in any order, also for sessions already released.       *)
(***************************************************************************)
EXTENDS Integers

CONSTANTS
  Usernames,     \* the usernames sessions may ask for
  None,          \* the absent username of an unauthenticated session
  MaxUserId,     \* maximum_user_id
  MaxSessions    \* bound: how many sessions are ever registered

\* The greatest USER_ID the wire format has room for.
MAX_USER_ID == 2^16 - 1

\* registry.py:46 accepts a maximum_user_id of 1 up to MAX_USER_ID only.
ASSUME RegistryAssumption ==
  /\ None \notin Usernames
  /\ MaxUserId \in 1..MAX_USER_ID
  /\ MaxSessions \in Nat

VARIABLES
  sessions,        \* _sessions: active session id -> its snapshot
  owners,          \* _username_owners: username -> session id
  nextSessionId,   \* _next_session_id
  nextUserId,      \* _next_user_id
  freeUserIds,     \* _free_user_ids, the heap as a bag: copies of each id
  outcome          \* the call that was last answered, with its answer

registryVars == <<sessions, owners, nextSessionId, nextUserId, freeUserIds, outcome>>

Snapshot  == [username : Usernames \cup {None}, userId : 0..MaxUserId]
Anonymous == [username |-> None, userId |-> 0]

Calls   == {"none", "register", "claim", "release"}
Results == {"none", "registered", "unknown", "current", "already", "in_use",
            "capacity", "granted", "released", "absent"}

Answer(call, s, n, result) ==
  outcome' = [call |-> call, session |-> s, username |-> n, result |-> result]

\* dict[k] = v
Put(f, k, v) == [x \in DOMAIN f \cup {k} |-> IF x = k THEN v ELSE f[x]]
\* dict.pop(k, None)
Drop(f, k) == [x \in DOMAIN f \ {k} |-> f[x]]

Init ==
  /\ sessions = [s \in {} |-> Anonymous]
  /\ owners = [n \in {} |-> 0]
  /\ nextSessionId = 1
  /\ nextUserId = 1
  /\ freeUserIds = [i \in 1..MaxUserId |-> 0]
  /\ outcome = [call |-> "none", session |-> 0, username |-> None, result |-> "none"]

RegisterSession ==
  /\ nextSessionId <= MaxSessions
  /\ sessions' = Put(sessions, nextSessionId, Anonymous)
  /\ nextSessionId' = nextSessionId + 1
  /\ UNCHANGED <<owners, nextUserId, freeUserIds>>
  /\ Answer("register", nextSessionId, None, "registered")

-------------------------------------------------------------------------------
(* _allocate_user_id: the least returned id, else the next fresh one.      *)

FreeIds == {i \in 1..MaxUserId : freeUserIds[i] > 0}
IsHeapMin(id) == id \in FreeIds /\ \A j \in FreeIds : id <= j

\* Faulty variants: fresh ids are preferred to returned ones; the heap is peeked, not
\* popped.
AllocateUserIdFreshFirst(id) ==
  \/ /\ IsHeapMin(id) /\ nextUserId > MaxUserId
     /\ freeUserIds' = [freeUserIds EXCEPT ![id] = @ - 1] /\ UNCHANGED nextUserId
  \/ /\ nextUserId <= MaxUserId /\ id = nextUserId
     /\ nextUserId' = nextUserId + 1 /\ UNCHANGED freeUserIds
AllocateUserIdPeek(id) ==
  \/ /\ IsHeapMin(id) /\ UNCHANGED <<freeUserIds, nextUserId>>
  \/ /\ FreeIds = {} /\ nextUserId <= MaxUserId /\ id = nextUserId
     /\ nextUserId' = nextUserId + 1 /\ UNCHANGED freeUserIds

AllocateUserId(id) ==
  \/ /\ IsHeapMin(id)
     /\ freeUserIds' = [freeUserIds EXCEPT ![id] = @ - 1]
     /\ UNCHANGED nextUserId
  \/ /\ FreeIds = {}
     /\ nextUserId <= MaxUserId
     /\ id = nextUserId
     /\ nextUserId' = nextUserId + 1
     /\ UNCHANGED freeUserIds

CanAllocate == FreeIds # {} \/ nextUserId <= MaxUserId

-------------------------------------------------------------------------------
(* claim_username(s, n), one action per answer.                            *)

\* The session is active and has no username yet (lines 74-75).
MayClaim(s) == s \in DOMAIN sessions /\ sessions[s].username = None

\* Faulty variants: the owner index is not consulted; it is not updated.
ClaimGrantedUnchecked(s, n) ==
  /\ MayClaim(s)
  /\ \E id \in 1..nextUserId :
       /\ AllocateUserId(id)
       /\ sessions' = [sessions EXCEPT ![s] = [username |-> n, userId |-> id]]
  /\ owners' = Put(owners, n, s)
  /\ UNCHANGED nextSessionId
  /\ Answer("claim", s, n, "granted")
ClaimGrantedUnindexed(s, n) ==
  /\ MayClaim(s) /\ n \notin DOMAIN owners
  /\ \E id \in 1..nextUserId :
       /\ AllocateUserId(id)
       /\ sessions' = [sessions EXCEPT ![s] = [username |-> n, userId |-> id]]
  /\ UNCHANGED <<owners, nextSessionId>>
  /\ Answer("claim", s, n, "granted")

ClaimGranted(s, n) ==
  /\ MayClaim(s)
  /\ n \notin DOMAIN owners
  /\ \E id \in 1..nextUserId :
       /\ AllocateUserId(id)
       /\ sessions' = [sessions EXCEPT ![s] = [username |-> n, userId |-> id]]
  /\ owners' = Put(owners, n, s)
  /\ UNCHANGED nextSessionId
  /\ Answer("claim", s, n, "granted")

\* A call that returns the current record or raises, and changes nothing.
ClaimAnswered(s, n, result) ==
  /\ \/ result = "unknown" /\ s \notin DOMAIN sessions
     \/ result = "current" /\ s \in DOMAIN sessions /\ sessions[s].username = n
     \/ /\ result = "already"
        /\ s \in DOMAIN sessions
        /\ sessions[s].username \notin {n, None}
     \/ result = "in_use" /\ MayClaim(s) /\ n \in DOMAIN owners
     \/ result = "capacity" /\ MayClaim(s) /\ n \notin DOMAIN owners /\ ~CanAllocate
  /\ UNCHANGED <<sessions, owners, nextSessionId, nextUserId, freeUserIds>>
  /\ Answer("claim", s, n, result)

ClaimUsername(s, n) ==
  \/ ClaimGranted(s, n)
  \/ \E result \in {"unknown", "current", "already", "in_use", "capacity"} :
       ClaimAnswered(s, n, result)

-------------------------------------------------------------------------------
(* release_session(s): found, or already gone.                             *)

\* Faulty variant: the id is not returned.
ReleaseActiveLoseId(s) ==
  /\ s \in DOMAIN sessions
  /\ sessions' = Drop(sessions, s)
  /\ owners' = Drop(owners, sessions[s].username)
  /\ UNCHANGED <<freeUserIds, nextSessionId, nextUserId>>
  /\ Answer("release", s, None, "released")

ReleaseActive(s) ==
  /\ s \in DOMAIN sessions
  /\ sessions' = Drop(sessions, s)
  /\ owners' = Drop(owners, sessions[s].username)
  /\ freeUserIds' = IF sessions[s].userId = 0 THEN freeUserIds
                    ELSE [freeUserIds EXCEPT ![sessions[s].userId] = @ + 1]
  /\ UNCHANGED <<nextSessionId, nextUserId>>
  /\ Answer("release", s, None, "released")

ReleaseAbsent(s) ==
  /\ s \notin DOMAIN sessions
  /\ UNCHANGED <<sessions, owners, nextSessionId, nextUserId, freeUserIds>>
  /\ Answer("release", s, None, "absent")

ReleaseSession(s) == ReleaseActive(s) \/ ReleaseAbsent(s)

Next ==
  \/ RegisterSession
  \/ \E s \in 1..nextSessionId - 1 :
       \/ ReleaseSession(s)
       \/ \E n \in Usernames : ClaimUsername(s, n)

Spec == Init /\ [][Next]_registryVars

-------------------------------------------------------------------------------
\* The shape of the registry's four tables and of the last answer.
TypeOK ==
  /\ DOMAIN sessions \subseteq 1..nextSessionId - 1
  /\ sessions \in [DOMAIN sessions -> Snapshot]
  /\ DOMAIN owners \subseteq Usernames
  /\ owners \in [DOMAIN owners -> 1..nextSessionId - 1]
  /\ nextSessionId \in 1..MaxSessions + 1
  /\ nextUserId \in 1..MaxUserId + 1
  /\ freeUserIds \in [1..MaxUserId -> Nat]
  /\ outcome \in [call : Calls, session : Nat, username : Usernames \cup {None},
                  result : Results]

InUse(i) == \E s \in DOMAIN sessions : sessions[s].userId = i

\* Two active sessions never share a username or a wire USER_ID, whatever the
\* order of logins and of the releases that make names and ids available again.
IdentitiesUnique ==
  \A s, t \in DOMAIN sessions : s # t =>
    /\ sessions[s].username = sessions[t].username => sessions[s].username = None
    /\ sessions[s].userId = sessions[t].userId => sessions[s].userId = 0

\* The username index and the session records agree in both directions, so
\* owner_of never names a session that is gone or that goes by another name.
OwnersMatchSessions ==
  /\ \A n \in DOMAIN owners :
       /\ owners[n] \in DOMAIN sessions
       /\ sessions[owners[n]].username = n
  /\ \A s \in DOMAIN sessions :
       sessions[s].username # None =>
         /\ sessions[s].username \in DOMAIN owners
         /\ owners[sessions[s].username] = s

\* No USER_ID is lost or doubled: every id ever issued is held by a session or
\* waits once in the heap, never both, and no other id is in either place.
UserIdsConserved ==
  \A i \in 1..MaxUserId :
    /\ i < nextUserId => \/ InUse(i) /\ freeUserIds[i] = 0
                         \/ ~InUse(i) /\ freeUserIds[i] = 1
    /\ i >= nextUserId => ~InUse(i) /\ freeUserIds[i] = 0

\* A login is always given the least USER_ID no active session holds, although
\* the code keeps returned ids and the next fresh id apart.
LeastIdGranted ==
  [][\A s \in DOMAIN sessions \cap DOMAIN sessions' :
       sessions'[s].userId # sessions[s].userId =>
         /\ ~InUse(sessions'[s].userId)
         /\ \A j \in 1..sessions'[s].userId - 1 : InUse(j)]_registryVars

\* The registry answers every call as the abstract identities do.
Promise == INSTANCE Identities WITH issued <- nextSessionId - 1, holds <- sessions
ImplementsIdentities == Promise!Spec
===============================================================================
