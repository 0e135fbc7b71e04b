------------------------------ MODULE Publication ------------------------------
(***************************************************************************)
(* What uploading to one name of one user's namespace promises, whatever   *)
(* fails on the way: the name is written once, as a whole, with contents   *)
(* some client vouched for with a checksum, and a client that was told its *)
(* upload succeeded finds it there for good.                               *)
(***************************************************************************)
CONSTANTS
  Contents,  \* what a file can contain
  Foreign,   \* a file put there by somebody other than the server
  None

VARIABLES
  offered,    \* the contents clients sent a checksum of
  published,  \* what the name holds
  confirmed   \* the contents a client was told are published

pubVars == <<offered, published, confirmed>>

Init == offered = {} /\ published = None /\ confirmed = None

Offer(c) == offered' = offered \cup {c} /\ UNCHANGED <<published, confirmed>>

Publish(c) ==
  /\ published = None /\ c \in offered
  /\ published' = c
  /\ UNCHANGED <<offered, confirmed>>

Intrude ==
  /\ published = None
  /\ published' = Foreign
  /\ UNCHANGED <<offered, confirmed>>

\* A publication may be taken back until a client has been told of it.
Withdraw ==
  /\ published \in offered /\ confirmed = None
  /\ published' = None
  /\ UNCHANGED <<offered, confirmed>>

Confirm ==
  /\ published \in offered
  /\ confirmed' = published
  /\ UNCHANGED <<offered, published>>

Next ==
  \/ \E c \in Contents : Offer(c) \/ Publish(c)
  \/ Intrude \/ Withdraw \/ Confirm

Spec == Init /\ [][Next]_pubVars
================================================================================
