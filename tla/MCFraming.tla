------------------------------- MODULE MCFraming -------------------------------
EXTENDS Framing

Raw(cells) == [cells |-> cells]
Own(m, user) == [message |-> m, user |-> user]

\* Every payload of up to three cells, and the longer ones that begin with a name or a
\* count of one, under every opcode and an unknown one.
Payloads == UNION {[1..n -> 0..2] : n \in 0..3} \cup {<<1, 1>> \o p : p \in [1..2 -> 1..2]}
              \cup {<<1, 1, 1, 0, 2>>}
AnyFrames ==
  {Raw(Serialize(Frame(op, 1, p))) : op \in Opcodes \cup {3}, p \in Payloads}
    \cup {Raw(Serialize(Frame(Opcode.LOGIN, 0, p))) : p \in Payloads}

Names == {<<1>>, <<1, 2>>, <<2>>, <<2, 2>>, <<0, 1>>, <<3>>, <<>>, <<1, 1, 1>>}
Entries == {<<>>, <<<<1>>, 5>>, <<<<1>>, 5, <<1, 2>>, 0>>, <<<<2>>, 5>>, <<<<1, 1>>, 0, <<1, 2>>, 5>>}
OwnMessages ==
  {Message(Opcode.LOGIN, <<n>>) : n \in Names}
    \cup {Message(Opcode.FILE_LIST_RESP, <<Len(e) \div 2>> \o e) : e \in Entries}
    \cup {Message(op, <<n, s, o>>) : op \in {Opcode.FILE_UPLOAD, Opcode.FILE_INFO},
                                    n \in Names, s \in {0, 9, 10}, o \in {0, 5}}
    \cup {Message(Opcode.FILE_DOWNLOAD, <<n, o>>) : n \in Names, o \in {0, 5, 10}}
    \cup {Message(Opcode.FILE_CHUNK, <<o, d>>) : o \in {0, 5}, d \in {<<>>, <<7>>, <<7, 8>>, <<7, 8, 9>>}}
    \cup {Message(Opcode.FILE_CHECKSUM, <<s, d>>) : s \in {0, 5}, d \in {<<7>>, <<7, 8>>}}
    \cup {Message(Opcode.ACK, <<op, o>>) : op \in {3, Opcode.LOGIN, Opcode.FILE_CHECKSUM}, o \in {0, 5}}
    \cup {Message(Opcode.ERROR, <<op, c, t>>) : op \in {3, Opcode.FILE_UPLOAD}, c \in {5, 11},
                                               t \in {<<>>, <<1, 2>>, <<3>>, <<1, 1, 1, 1>>, <<1, 1, 1, 1, 1>>}}
    \cup {Message(op, <<>>) : op \in {Opcode.DISCONNECT, Opcode.FILE_LIST}}
OwnFrames ==
  {Own(m, IF m.op = Opcode.LOGIN THEN 0 ELSE 1) : m \in OwnMessages}
    \cup {Own(Message(Opcode.LOGIN, <<<<1>>>>), 1), Own(Message(Opcode.ERROR, <<0, 10, <<>>>>), 0)}

\* LENGTH too small for the body header, and a payload above the limit.
BadLengths == {Raw(LengthCells(1)), Raw(LengthCells(MaxPayload + 3))}

Marker == Own(Message(Opcode.ACK, <<Opcode.FILE_UPLOAD, 5>>), 1)
Mixed ==
  {<<Raw(Preface), item, Marker>> : item \in AnyFrames \cup OwnFrames \cup BadLengths}
    \cup {<<Raw(p), Marker>> : p \in {<<Magic, 3, 0>>, <<Magic, Version, 1>>}}
================================================================================
