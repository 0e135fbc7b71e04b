------------------------------ MODULE KeyedMutex ------------------------------
(***************************************************************************)
(* What the filename locks promise: one exclusive lock for every key, with *)
(* no trace of how locks are created, shared and discarded.                *)
(***************************************************************************)
CONSTANTS Threads, Keys

VARIABLE inside      \* the pairs <<thread, key>> inside a critical section

Init == inside = {}

Enter(t, k) ==
  /\ \A p \in inside : p[1] # t /\ p[2] # k
  /\ inside' = inside \cup {<<t, k>>}

Leave(t, k) ==
  /\ <<t, k>> \in inside
  /\ inside' = inside \ {<<t, k>>}

Next == \E t \in Threads, k \in Keys : Enter(t, k) \/ Leave(t, k)

Spec == Init /\ [][Next]_inside
===============================================================================
