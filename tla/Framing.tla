--------------------------------- MODULE Framing ---------------------------------
(***************************************************************************)
(* framing.py: one direction of a connection, from a sender that may send  *)
(* anything to a receiver that reads a preface and then frames.  The       *)
(* kernel hands over any number of cells at a time, sock.send takes any    *)
(* number, and the sender may stop, the link break or a deadline pass      *)
(* between any two of them.  An ended receiver never reads again: every    *)
(* caller closes the socket on an error that leaves the stream unaligned.  *)
(***************************************************************************)
EXTENDS Messages

CONSTANTS
  Scripts,     \* what a sender may be about to send: sequences of items
  Magic, Version,
  Base,        \* values a cell of LENGTH can have
  Window       \* bound: cells the connection holds

ASSUME FramingAssumption ==
  /\ Base \in Nat \ {0, 1} /\ Window \in Nat \ {0}
  /\ MaxPayload + 2 < Base * Base

VARIABLES
  script, next,      \* the sender's plan and what it comes to next
  view, bytesSent,   \* locals of send_all
  sending,           \* the sender's end is open
  wire,              \* cells sent and not read
  sent,              \* history: what was put on the wire, as [cells, message]
  unit,              \* recv_exact: the cells received of the unit being read
  stage, length,     \* receive_frame: the unit being read, LENGTH once known
  header,            \* the body header once known
  received,          \* history: what receive_frame returned or raised, as [cells, result]
  ended              \* "no", "closed" (None), "invalid" (ProtocolError), "lost" (OSError)

senderVars == <<script, next, view, bytesSent, sending, sent>>
receiverVars == <<unit, stage, length, header, received, ended>>
vars == <<senderVars, wire, receiverVars>>

Preface == <<Magic, Version, 0>>
ValidPreface(cells) == cells = Preface

\* LENGTH is big-endian and counts the body header and the payload.
LengthCells(n) == <<n \div Base, n % Base>>
LengthOf(cells) == cells[1] * Base + cells[2]
BodyHeader == 2

Serialize(frame) ==
  LengthCells(BodyHeader + Len(frame.payload)) \o <<frame.op, frame.user>> \o frame.payload

\* The sender's items: a message for make_* with a USER_ID, or the cells of a peer that
\* is another program.
IsOwn(item) == "message" \in DOMAIN item
CellsOf(item) ==
  IF IsOwn(item)
  THEN Serialize(Frame(item.message.op, item.user, Payload(item.message)))
  ELSE item.cells

\* Any stream of cells is a preface and units that are as long as their LENGTH says,
\* up to the first LENGTH no frame can have or to the end, which may cut a unit short.
IsUnit(cells) ==
  /\ cells \in Seq(Nat) /\ Len(cells) >= 2
  /\ cells[1] < Base /\ cells[2] < Base
  /\ LengthOf(cells) - BodyHeader \in 0..MaxPayload => Len(cells) = 2 + LengthOf(cells)

ASSUME ScriptsAssumption ==
  \A plan \in Scripts :
    /\ plan \in Seq(Cells(plan)) /\ plan # <<>>
    /\ \A i \in DOMAIN plan :
         IF IsOwn(plan[i])
         THEN i # 1 /\ IsCall(plan[i].message) /\ plan[i].user \in Nat
         ELSE /\ plan[i].cells \in Seq(Nat)
              /\ IF i = 1 THEN Len(plan[i].cells) = Len(Preface) ELSE IsUnit(plan[i].cells)

Init ==
  /\ script \in Scripts /\ next = 1
  /\ view = <<>> /\ bytesSent = 0 /\ sending = TRUE
  /\ wire = <<>> /\ sent = <<>>
  /\ unit = <<>> /\ stage = "preface" /\ length = 0 /\ header = <<>>
  /\ received = <<>> /\ ended = "no"

--------------------------------------------------------------------------------
(* The sender.  Nothing tells what is sent to a receiver that has ended, so  *)
(* no step is.                                                               *)

\* send_frame: a message that make_* refuses never gets to the socket.
SendFrame ==
  /\ sending /\ view = <<>> /\ next <= Len(script) /\ ended = "no"
  /\ LET item == script[next]
     IN view' = IF IsOwn(item) => Makeable(item.message, item.user)
                THEN CellsOf(item) ELSE <<>>
  /\ next' = next + 1 /\ bytesSent' = 0
  /\ UNCHANGED <<script, sending, sent, wire, receiverVars>>

\* One sock.send of send_all; the last one lets it return.
SendSome ==
  /\ sending /\ view # <<>> /\ ended = "no"
  /\ \E n \in 1..Len(view) - bytesSent :
       /\ Len(wire) + n <= Window
       /\ wire' = wire \o SubSeq(view, bytesSent + 1, bytesSent + n)
       /\ sent' = IF bytesSent = 0 THEN Append(sent, [cells |-> view, by |-> next - 1])
                                   ELSE sent
       /\ IF bytesSent + n = Len(view) THEN view' = <<>> /\ bytesSent' = 0
                                       ELSE bytesSent' = bytesSent + n /\ UNCHANGED view
  /\ UNCHANGED <<script, next, sending, receiverVars>>

\* The sender closes, or dies in the middle of a frame.
StopSending ==
  /\ sending /\ ended = "no" /\ sending' = FALSE
  /\ view' = <<>> /\ bytesSent' = 0
  /\ UNCHANGED <<script, next, sent, wire, receiverVars>>

--------------------------------------------------------------------------------
(* The receiver. *)

Need ==
  CASE stage = "preface" -> Len(Preface)
    [] stage = "length" -> Len(LengthCells(0))
    [] stage = "header" -> BodyHeader
    [] stage = "payload" -> length - BodyHeader

ReadNext(unitName) ==
  /\ stage' = unitName /\ UNCHANGED <<length, header, received, ended>>

Refuse == ended' = "invalid" /\ UNCHANGED <<stage, length, header, received>>

\* An opcode that is not one is reported with the stream in order.
Deliver(head, payload) ==
  LET frame == Frame(head[1], head[2], payload)
  IN /\ received' = Append(received, [cells |-> Serialize(frame), result |-> Decode(frame)])
     /\ stage' = "length" /\ length' = 0 /\ header' = <<>>
     /\ UNCHANGED ended

\* What the code does with a unit it has in full, up to its next recv.
Complete(cells) ==
  \/ /\ stage = "preface" /\ ~ValidPreface(cells)
     /\ Refuse
  \/ /\ stage = "preface" /\ ValidPreface(cells)
     /\ received' = Append(received, [cells |-> cells, result |-> Refusal("preface")])
     /\ stage' = "length" /\ UNCHANGED <<length, header, ended>>
  \/ /\ stage = "length"
     /\ LengthOf(cells) - BodyHeader \notin 0..MaxPayload
     /\ Refuse
  \/ /\ stage = "length"
     /\ LengthOf(cells) - BodyHeader \in 0..MaxPayload
     /\ stage' = "header" /\ length' = LengthOf(cells)
     /\ UNCHANGED <<header, received, ended>>
  \/ /\ stage = "header" /\ length > BodyHeader
     /\ stage' = "payload" /\ header' = cells
     /\ UNCHANGED <<length, received, ended>>
  \/ /\ stage = "header" /\ length = BodyHeader
     /\ Deliver(cells, <<>>)
  \/ /\ stage = "payload"
     /\ Deliver(header, cells)

\* Faulty variant: every recv asks for the size of the whole unit.
ReceiveUnit ==
  /\ ended = "no"
  /\ \E n \in 1..Need :
       /\ n <= Len(wire)
       /\ wire' = SubSeq(wire, n + 1, Len(wire))
       /\ LET cells == unit \o SubSeq(wire, 1, n)
          IN IF Len(cells) < Need
             THEN unit' = cells /\ UNCHANGED <<stage, length, header, received, ended>>
             ELSE unit' = <<>> /\ Complete(cells)
  /\ UNCHANGED senderVars
\* One recv of recv_exact, which asks for no more than what the unit still lacks.
ReceiveSome ==
  /\ ended = "no"
  /\ \E n \in 1..Need - Len(unit) :
       /\ n <= Len(wire)
       /\ wire' = SubSeq(wire, n + 1, Len(wire))
       /\ LET cells == unit \o SubSeq(wire, 1, n)
          IN IF Len(cells) < Need
             THEN unit' = cells /\ UNCHANGED <<stage, length, header, received, ended>>
             ELSE unit' = <<>> /\ Complete(cells)
  /\ UNCHANGED senderVars

\* recv returns nothing: None at the start of a frame, an error anywhere else.
ReceiveEnd ==
  /\ ended = "no" /\ wire = <<>> /\ ~sending
  /\ ended' = IF stage \in {"preface", "length"} /\ unit = <<>> THEN "closed" ELSE "invalid"
  /\ UNCHANGED <<unit, stage, length, header, received, wire, senderVars>>

\* The connection is reset, or the receiver's timeout passes in a recv.
ReceiveFails ==
  /\ ended = "no" /\ ended' = "lost"
  /\ UNCHANGED <<unit, stage, length, header, received, wire, senderVars>>

Next ==
  \/ SendFrame \/ SendSome \/ StopSending
  \/ ReceiveSome \/ ReceiveEnd \/ ReceiveFails

Spec == Init /\ [][Next]_vars

--------------------------------------------------------------------------------
(* Properties. *)

TypeOK ==
  /\ script \in Scripts /\ next \in 1..Len(script) + 1
  /\ bytesSent \in 0..Len(view) /\ sending \in BOOLEAN
  /\ Len(wire) <= Window
  /\ stage \in {"preface", "length", "header", "payload"}
  /\ Len(unit) < Need /\ length \in {0} \cup BodyHeader..BodyHeader + MaxPayload
  /\ stage = "payload" <=> header # <<>>
  /\ ended \in {"no", "closed", "invalid", "lost"}

\* However the cells are cut up on the way, a frame arrives as it was sent, none is
\* skipped, repeated or joined to another, an error that claims a synchronized stream
\* leaves it so, and an orderly end is only reported when nothing sent is missing.
Channel == INSTANCE FrameChannel
             WITH sent <- [i \in DOMAIN sent |-> sent[i].cells],
                  received <- [i \in DOMAIN received |-> received[i].cells]
ImplementsFrameChannel == Channel!Spec

\* What this program's own end makes, the other end reads back: the same kind of
\* message with the same values, for every message make_* does not refuse.
MessagesSurvive ==
  \A i \in DOMAIN received :
    LET item == script[sent[i].by]
    IN IsOwn(item) => received[i].result = item.message

\* Whoever sent it, a payload that is accepted says one thing in one way: it is what
\* make_* would have written, with nothing cut off, left over or out of range.
AcceptedIsCanonical ==
  \A i \in DOMAIN received :
    LET m == received[i].result
        user == received[i].cells[4]
    IN IsMessage(m) =>
         /\ Makeable(m, user)
         /\ received[i].cells = Serialize(Frame(m.op, user, Payload(m)))
================================================================================
