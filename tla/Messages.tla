-------------------------------- MODULE Messages --------------------------------
(***************************************************************************)
(* messages.py and protocol.py: what a payload says and which payloads     *)
(* say anything.  A payload is a sequence of cells.  An integer of any     *)
(* width is one cell, a name is a cell with its length and a cell for each *)
(* byte; which bytes a name may hold is left to the constants.             *)
(*                                                                         *)
(* A message is an opcode with the values of its fields, and the layout of *)
(* the opcode says how they are written: writing and reading go over one   *)
(* table, as make_* and parse_* go over one description each in the code.  *)
(***************************************************************************)
EXTENDS Integers, Sequences, SequencesExt

CONSTANTS
  Undecodable,     \* bytes that are not UTF-8 where they stand
  Separators,      \* bytes that stand for /, \ and NUL
  Dot,
  Letters,         \* bytes a username may consist of
  MaxFilename, MaxUsername, DigestSize, ChunkSize, MaxPayload,
  MaxUint          \* greatest value an integer field can carry

ASSUME MessagesAssumption ==
  /\ {MaxFilename, MaxUsername, DigestSize, ChunkSize, MaxPayload} \subseteq Nat \ {0}
  /\ MaxUint \in Nat /\ MaxFilename <= MaxUint /\ MaxUsername <= MaxUint

Opcode ==
  [LOGIN |-> 1, DISCONNECT |-> 2, FILE_LIST |-> 16, FILE_LIST_RESP |-> 17,
   FILE_UPLOAD |-> 18, FILE_DOWNLOAD |-> 19, FILE_CHUNK |-> 20, FILE_DELETE |-> 21,
   FILE_INFO |-> 22, FILE_CHECKSUM |-> 23, ACK |-> 32, ERROR |-> 255]
Opcodes == {Opcode[name] : name \in DOMAIN Opcode}
ErrorCodes == 1..10 \cup 16..26 \cup {255}

Message(op, fields) == [op |-> op, fields |-> fields]
Refusal(code) == [error |-> code]
IsMessage(result) == "error" \notin DOMAIN result

Cells(s) == {s[i] : i \in DOMAIN s}

ValidFilename(name) ==
  /\ Len(name) \in 1..MaxFilename
  /\ Cells(name) \cap (Undecodable \cup Separators) = {}
  /\ name \notin {<<Dot>>, <<Dot, Dot>>}

ValidUsername(name) == Len(name) \in 1..MaxUsername /\ Cells(name) \subseteq Letters

--------------------------------------------------------------------------------
(* Layouts. *)

Numbers == {"uint", "opcode", "raw opcode", "error code"}
Counted == {"filename", "username", "text"}

\* The fields of a payload in order.  `first` is its first value: a listing says
\* there how many entries follow.
Layout(op, first) ==
  CASE op = Opcode.LOGIN -> <<"username">>
    [] op \in {Opcode.DISCONNECT, Opcode.FILE_LIST} -> <<>>
    [] op = Opcode.FILE_LIST_RESP ->
         <<"uint">> \o [i \in 1..2 * first |-> IF i % 2 = 1 THEN "filename" ELSE "uint"]
    [] op \in {Opcode.FILE_UPLOAD, Opcode.FILE_INFO} -> <<"filename", "uint", "uint">>
    [] op = Opcode.FILE_DOWNLOAD -> <<"filename", "uint">>
    [] op = Opcode.FILE_CHUNK -> <<"uint", "data">>
    [] op = Opcode.FILE_CHECKSUM -> <<"uint", "digest">>
    [] op = Opcode.ACK -> <<"opcode", "uint">>
    [] op = Opcode.ERROR -> <<"raw opcode", "error code", "text">>

FirstOf(s) == IF s = <<>> THEN 0 ELSE s[1]

\* What a field may contain, for the one who writes it.
Acceptable(kind, value) ==
  CASE kind \in {"uint", "raw opcode"} -> value \in 0..MaxUint
    [] kind = "opcode" -> value \in Opcodes
    [] kind = "error code" -> value \in ErrorCodes
    [] kind = "filename" -> ValidFilename(value)
    [] kind = "username" -> ValidUsername(value)
    [] kind = "text" -> Len(value) <= MaxUint /\ Cells(value) \cap Undecodable = {}
    [] kind = "data" -> Len(value) \in 1..ChunkSize
    [] kind = "digest" -> Len(value) = DigestSize

--------------------------------------------------------------------------------
(* make_*: writing. *)

WriteField(kind, value) ==
  CASE kind \in Numbers -> <<value>>
    [] kind \in Counted -> <<Len(value)>> \o value
    [] OTHER -> value

LayoutOf(m) == Layout(m.op, FirstOf(m.fields))

\* What a caller of a make_* function hands over: numbers where numbers are written,
\* bytes everywhere else, and a listing's count is the number of its entries.
Kinds == Numbers \cup Counted \cup {"data", "digest"}
ValueFor(kind) == IF kind \in Numbers THEN Nat ELSE Seq(Nat)

IsCall(m) ==
  /\ m = Message(m.op, m.fields) /\ m.op \in Opcodes \ {Opcode.FILE_DELETE}
  /\ m.op = Opcode.FILE_LIST_RESP => m.fields # <<>> /\ m.fields[1] \in Nat
  /\ m.fields = [i \in 1..Len(LayoutOf(m)) |-> m.fields[i]]
  /\ \A i \in DOMAIN m.fields : m.fields[i] \in ValueFor(LayoutOf(m)[i])

Payload(m) ==
  FlattenSeq([i \in DOMAIN m.fields |-> WriteField(LayoutOf(m)[i], m.fields[i])])

Frame(op, user, payload) == [op |-> op, user |-> user, payload |-> payload]

\* Whether make_* returns a frame for the message and the USER_ID, or raises.
Makeable(m, user) ==
  /\ m.op = Opcode.LOGIN => user = 0
  /\ \A i \in DOMAIN m.fields : Acceptable(LayoutOf(m)[i], m.fields[i])
  /\ Len(Payload(m)) <= MaxPayload

--------------------------------------------------------------------------------
(* decode_message: reading. *)

\* Cells that a field takes from what is left of the payload.
Extent(kind, rest) ==
  CASE kind \in Numbers -> 1
    [] kind \in Counted -> 1 + FirstOf(rest)
    [] kind = "digest" -> DigestSize
    [] kind = "data" -> Len(rest)

ValueOf(kind, cells) ==
  CASE kind \in Numbers -> cells[1]
    [] kind \in Counted -> Tail(cells)
    [] OTHER -> cells

\* _PayloadReader.read: a field cut short ends the reading, and so does a filename
\* that is not one, wherever in the payload it stands.
ReadField(reader, kind) ==
  LET n == Extent(kind, reader.rest)
      value == ValueOf(kind, SubSeq(reader.rest, 1, n))
  IN CASE reader.error # "none" -> reader
       [] reader.error = "none" /\ n > Len(reader.rest) ->
            [reader EXCEPT !.error = "INVALID_PAYLOAD"]
       [] reader.error = "none" /\ n <= Len(reader.rest) ->
            [rest |-> SubSeq(reader.rest, n + 1, Len(reader.rest)),
             fields |-> Append(reader.fields, value),
             error |-> IF kind = "filename" /\ ~ValidFilename(value)
                       THEN "INVALID_FILENAME" ELSE "none"]

ReadFields(op, payload) ==
  FoldLeft(ReadField, [rest |-> payload, fields |-> <<>>, error |-> "none"],
           Layout(op, FirstOf(payload)))

\* Faulty variant: what is left after the last field is not looked at.
ParseBeginning(op, payload) ==
  LET read == ReadFields(op, payload)
      m == Message(op, read.fields)
  IN CASE read.error # "none" -> Refusal(read.error)
       [] read.error = "none" ->
            IF \A i \in DOMAIN m.fields : Acceptable(LayoutOf(m)[i], m.fields[i])
            THEN m
            ELSE Refusal(IF op = Opcode.LOGIN THEN "INVALID_USERNAME"
                                              ELSE "INVALID_PAYLOAD")
\* The parsers look at all other values after the payload has been read to its end.
Parse(op, payload) ==
  LET read == ReadFields(op, payload)
      m == Message(op, read.fields)
  IN CASE read.error # "none" -> Refusal(read.error)
       [] read.error = "none" /\ read.rest # <<>> -> Refusal("INVALID_PAYLOAD")
       [] read.error = "none" /\ read.rest = <<>> ->
            IF \A i \in DOMAIN m.fields : Acceptable(LayoutOf(m)[i], m.fields[i])
            THEN m
            ELSE Refusal(IF op = Opcode.LOGIN THEN "INVALID_USERNAME"
                                              ELSE "INVALID_PAYLOAD")

\* Faulty variant: the reader's limit is one below the writer's.
DecodeBelow(frame) ==
  CASE frame.op \notin Opcodes \ {Opcode.FILE_DELETE} -> Refusal("UNSUPPORTED_OPCODE")
    [] OTHER -> IF Len(frame.payload) >= MaxPayload THEN Refusal("PAYLOAD_TOO_LARGE")
                ELSE IF frame.op = Opcode.LOGIN /\ frame.user # 0
                     THEN Refusal("INVALID_USER_ID")
                     ELSE Parse(frame.op, frame.payload)
Decode(frame) ==
  CASE frame.op \notin Opcodes \ {Opcode.FILE_DELETE} -> Refusal("UNSUPPORTED_OPCODE")
    [] OTHER -> IF Len(frame.payload) > MaxPayload THEN Refusal("PAYLOAD_TOO_LARGE")
                ELSE IF frame.op = Opcode.LOGIN /\ frame.user # 0
                     THEN Refusal("INVALID_USER_ID")
                     ELSE Parse(frame.op, frame.payload)
================================================================================
