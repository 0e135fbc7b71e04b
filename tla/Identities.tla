------------------------------ MODULE Identities ------------------------------
(***************************************************************************)
(* What the active-session registry promises to the sessions that share    *)
(* it, without owner index, counter or heap of returned identifiers: a     *)
(* session is anonymous or holds one username and one wire USER_ID, a      *)
(* username is refused exactly while another session holds it, and         *)
(* capacity is reported exactly while every USER_ID is held.               *)
(***************************************************************************)
EXTENDS Integers

CONSTANTS Usernames, None, MaxUserId, MaxSessions

VARIABLES
  issued,     \* how many sessions were ever registered
  holds,      \* the active sessions and the identity each one holds
  outcome     \* the call that was last answered, with its answer

vars == <<issued, holds, outcome>>

Anonymous == [username |-> None, userId |-> 0]

Answer(call, s, n, result) ==
  outcome' = [call |-> call, session |-> s, username |-> n, result |-> result]

Taken(n)  == \E s \in DOMAIN holds : holds[s].username = n
Unused    == {i \in 1..MaxUserId : \A s \in DOMAIN holds : holds[s].userId # i}

Init ==
  /\ issued = 0
  /\ holds = [s \in {} |-> Anonymous]
  /\ outcome = [call |-> "none", session |-> 0, username |-> None, result |-> "none"]

Connect ==
  /\ issued < MaxSessions
  /\ issued' = issued + 1
  /\ holds' = [s \in DOMAIN holds \cup {issued + 1} |->
                 IF s = issued + 1 THEN Anonymous ELSE holds[s]]
  /\ Answer("register", issued + 1, None, "registered")

Grant(s, n) ==
  /\ s \in DOMAIN holds
  /\ holds[s] = Anonymous
  /\ ~Taken(n)
  /\ \E i \in Unused : holds' = [holds EXCEPT ![s] = [username |-> n, userId |-> i]]
  /\ UNCHANGED issued
  /\ Answer("claim", s, n, "granted")

\* An answer that changes no identity, each with the only states that justify it.
Refuse(s, n, why) ==
  /\ \/ why = "unknown" /\ s \notin DOMAIN holds
     \/ why = "current" /\ s \in DOMAIN holds /\ holds[s].username = n
     \/ why = "already" /\ s \in DOMAIN holds /\ holds[s].username \notin {n, None}
     \/ /\ why = "in_use"
        /\ s \in DOMAIN holds /\ holds[s] = Anonymous /\ Taken(n)
     \/ /\ why = "capacity"
        /\ s \in DOMAIN holds /\ holds[s] = Anonymous /\ ~Taken(n) /\ Unused = {}
  /\ UNCHANGED <<issued, holds>>
  /\ Answer("claim", s, n, why)

Leave(s) ==
  /\ s \in DOMAIN holds
  /\ holds' = [t \in DOMAIN holds \ {s} |-> holds[t]]
  /\ UNCHANGED issued
  /\ Answer("release", s, None, "released")

LeaveAgain(s) ==
  /\ s \notin DOMAIN holds
  /\ UNCHANGED <<issued, holds>>
  /\ Answer("release", s, None, "absent")

Refusals == {"unknown", "current", "already", "in_use", "capacity"}

Next ==
  \/ Connect
  \/ \E s \in 1..issued :
       \/ Leave(s)
       \/ LeaveAgain(s)
       \/ \E n \in Usernames : Grant(s, n) \/ \E why \in Refusals : Refuse(s, n, why)

Spec == Init /\ [][Next]_vars
===============================================================================
