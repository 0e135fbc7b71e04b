------------------------------ MODULE FrameChannel ------------------------------
(***************************************************************************)
(* What framing promises to the two ends of a connection: units arrive     *)
(* whole, in order and at most once, and an end of the stream that is not  *)
(* reported as a failure means that nothing sent is missing.               *)
(***************************************************************************)
EXTENDS Integers, Sequences

VARIABLES sent, received, ended

Init == sent = <<>> /\ received = <<>> /\ ended = "no"

Send ==
  /\ Len(sent') = Len(sent) + 1
  /\ SubSeq(sent', 1, Len(sent)) = sent
  /\ UNCHANGED <<received, ended>>

Receive ==
  /\ ended = "no" /\ Len(received) < Len(sent)
  /\ received' = Append(received, sent[Len(received) + 1])
  /\ UNCHANGED <<sent, ended>>

\* The receiver is told that the peer has closed in an orderly way.
End ==
  /\ ended = "no" /\ received = sent
  /\ ended' = "closed"
  /\ UNCHANGED <<sent, received>>

Fail ==
  /\ ended = "no" /\ ended' \in {"invalid", "lost"}
  /\ UNCHANGED <<sent, received>>

Next == Send \/ Receive \/ End \/ Fail

Spec == Init /\ [][Next]_<<sent, received, ended>>
================================================================================
