-------------------------- MODULE ServerLoggerProofs --------------------------
(***************************************************************************)
(* Proofs about ServerLogger for every set of workers, every capacity of   *)
(* the stream's buffer and any number of records, faults and restarts.     *)
(***************************************************************************)
EXTENDS ServerLogger, SequenceTheorems, TLAPS

Records == [id : Nat, run : Nat]
Cells   == [record : Records, ends : BOOLEAN]

\* What was given to the stream and neither lost nor taken back: the file, then the
\* buffer.  A step moves cells across the border, appends a line, or cuts the tail.
written == file \o held

Types ==
  /\ file \in Seq(Cells) /\ held \in Seq(Cells)
  /\ open \in BOOLEAN /\ lock \in Workers \cup {None}
  /\ pc \in [Workers -> {"idle", "waiting", "making room", "flushing"}]
  /\ record \in [Workers -> Records]
  /\ count \in Nat /\ run \in Nat
  /\ entered \in Seq(Records) /\ reported \subseteq Records

\* Only the holder of the lock writes, to a stream that is open, and what it writes
\* is the record that got the lock last.
LockDiscipline ==
  /\ \A w \in Workers : pc[w] \in {"making room", "flushing"} <=> lock = w
  /\ lock # None => /\ open /\ entered # <<>>
                    /\ entered[Len(entered)] = record[lock]

\* A record gets the lock at most once: its id is new when it is made, and it is
\* gone from its worker or marked as entered from then on.
EnteredOnce ==
  /\ \A i, j \in DOMAIN entered : entered[i] = entered[j] => i = j
  /\ \A i \in DOMAIN entered : entered[i].id <= count
  /\ \A w \in Workers : pc[w] # "idle" =>
       record[w].id <= count /\ record[w].run = run
  /\ \A w, v \in Workers : w # v /\ pc[w] # "idle" /\ pc[v] # "idle" =>
       record[w].id # record[v].id
  /\ \A w \in Workers : pc[w] = "waiting" =>
       \A i \in DOMAIN entered : entered[i].id # record[w].id

\* One cell belongs to an earlier record than another, or is the first half of it.
Before(c, d) ==
  \E k, l \in DOMAIN entered :
    /\ entered[k] = c.record /\ entered[l] = d.record
    /\ k < l \/ (k = l /\ ~c.ends /\ d.ends)

\* Everything written was entered, by this process or an earlier one, in order.
WrittenInOrder ==
  /\ \A i \in 1..Len(written) :
       /\ \E k \in DOMAIN entered : entered[k] = written[i].record
       /\ written[i].record.run <= run
  /\ \A i \in 1..Len(written) - 1 :
       /\ Before(written[i], written[i + 1])
       /\ ~written[i].ends =>
            \/ written[i + 1].record = written[i].record
            \/ written[i + 1].record.run > written[i].record.run

\* While the stream is open, what is written ends with a complete line, unless an
\* earlier process left it unfinished.
EndsWhole ==
  open /\ written # <<>> =>
    LET last == written[Len(written)] IN last.ends \/ last.record.run < run

\* A record that still waits for room is not written at all; one that is being flushed
\* is written last.
OwnLine ==
  \A w \in Workers :
    /\ pc[w] = "making room" => \A i \in 1..Len(written) : written[i].record # record[w]
    /\ pc[w] = "flushing" =>
         /\ Len(written) >= 2
         /\ written[Len(written) - 1] = Cell(record[w], FALSE)
         /\ written[Len(written)] = Cell(record[w], TRUE)

IInv ==
  /\ Types
  /\ LockDiscipline
  /\ EnteredOnce
  /\ WrittenInOrder
  /\ EndsWhole
  /\ OwnLine
  /\ ReportedIsWritten

-------------------------------------------------------------------------------
(* Sequences of cells, and places in the order of the lock.                *)

\* The types again, one by one, with what the provers need of each sequence.
LEMMA Shapes ==
  ASSUME Types
  PROVE  /\ written \in Seq(Cells) /\ Len(written) = Len(file) + Len(held)
         /\ Len(written) \in Nat /\ Len(file) \in Nat /\ Len(held) \in Nat
         /\ Len(entered) \in Nat /\ DOMAIN entered = 1..Len(entered)
         /\ \A i \in DOMAIN entered : entered[i] \in Records
         /\ \A i \in 1..Len(written) : /\ written[i] \in Cells
                                       /\ written[i].record \in Records
         /\ \A i \in 1..Len(file) : written[i] = file[i]
         /\ \A i \in 1..Len(held) : written[Len(file) + i] = held[i]
  <1>1. file \in Seq(Cells) /\ held \in Seq(Cells) /\ entered \in Seq(Records)
    BY DEF Types
  <1>2. /\ written \in Seq(Cells) /\ Len(written) = Len(file) + Len(held)
        /\ \A i \in 1..Len(file) + Len(held) :
             written[i] = IF i <= Len(file) THEN file[i] ELSE held[i - Len(file)]
    BY <1>1, ConcatProperties DEF written
  <1>3. /\ Len(written) \in Nat /\ Len(file) \in Nat /\ Len(held) \in Nat
        /\ Len(entered) \in Nat /\ DOMAIN entered = 1..Len(entered)
        /\ \A i \in DOMAIN entered : entered[i] \in Records
    BY <1>1, <1>2, LenProperties
  <1>4. \A i \in 1..Len(written) : written[i] \in Cells
    BY <1>2, ElementOfSeq
  <1>5. \A i \in 1..Len(written) : written[i].record \in Records
    BY <1>4 DEF Cells
  <1>6. ASSUME NEW i \in 1..Len(file) PROVE written[i] = file[i]
    BY <1>2, <1>3
  <1>7. ASSUME NEW i \in 1..Len(held) PROVE written[Len(file) + i] = held[i]
    BY <1>2, <1>3, SMTT(30)
  <1> QED
    BY <1>2, <1>3, <1>4, <1>5, <1>6, <1>7

\* A line is two cells of its record, the second of which ends it.
LEMMA LineShape ==
  ASSUME NEW r \in Records
  PROVE  /\ Line(r) \in Seq(Cells) /\ Len(Line(r)) = 2
         /\ Line(r)[1] = Cell(r, FALSE) /\ Line(r)[2] = Cell(r, TRUE)
         /\ Cell(r, FALSE) \in Cells /\ Cell(r, TRUE) \in Cells
         /\ Cell(r, FALSE).record = r /\ Cell(r, TRUE).record = r
         /\ ~Cell(r, FALSE).ends /\ Cell(r, TRUE).ends
  <1>1. Cell(r, FALSE) \in Cells /\ Cell(r, TRUE) \in Cells
    BY DEF Cell, Cells
  <1> QED
    BY <1>1 DEF Line, Cell

\* What follows a sequence of cells when a line is appended to it.
LEMMA LineAppended ==
  ASSUME NEW s \in Seq(Cells), NEW r \in Records
  PROVE  /\ s \o Line(r) \in Seq(Cells) /\ Len(s \o Line(r)) = Len(s) + 2
         /\ \A i \in 1..Len(s) : (s \o Line(r))[i] = s[i]
         /\ (s \o Line(r))[Len(s) + 1] = Cell(r, FALSE)
         /\ (s \o Line(r))[Len(s) + 2] = Cell(r, TRUE)
  <1>1. Line(r) \in Seq(Cells) /\ Len(Line(r)) = 2 /\ Len(s) \in Nat
    BY LineShape, LenProperties
  <1>2. /\ s \o Line(r) \in Seq(Cells) /\ Len(s \o Line(r)) = Len(s) + 2
        /\ \A i \in 1..Len(s) + 2 : (s \o Line(r))[i] =
                                    IF i <= Len(s) THEN s[i] ELSE Line(r)[i - Len(s)]
    <2>1. /\ s \o Line(r) \in Seq(Cells) /\ Len(s \o Line(r)) = Len(s) + Len(Line(r))
          /\ \A i \in 1..Len(s) + Len(Line(r)) :
               (s \o Line(r))[i] = IF i <= Len(s) THEN s[i] ELSE Line(r)[i - Len(s)]
      BY <1>1, ConcatProperties, Zenon
    <2> QED
      BY <1>1, <2>1
  <1>3. \A i \in 1..Len(s) : (s \o Line(r))[i] = s[i]
    BY <1>1, <1>2
  <1>4. (s \o Line(r))[Len(s) + 1] = Line(r)[1] /\ (s \o Line(r))[Len(s) + 2] = Line(r)[2]
    <2>1. /\ Len(s) + 1 \in 1..Len(s) + 2 /\ ~(Len(s) + 1 <= Len(s))
          /\ Len(s) + 2 \in 1..Len(s) + 2 /\ ~(Len(s) + 2 <= Len(s))
          /\ Len(s) + 1 - Len(s) = 1 /\ Len(s) + 2 - Len(s) = 2
      BY <1>1
    <2> QED
      BY <1>2, <2>1
  <1> QED
    BY <1>2, <1>3, <1>4, LineShape

\* Concatenation and Append, for the sequences the logger keeps.
LEMMA CellsAssociate ==
  ASSUME NEW a \in Seq(Cells), NEW b \in Seq(Cells), NEW c \in Seq(Cells)
  PROVE  (a \o b) \o c = a \o (b \o c)
  BY ConcatAssociative

LEMMA RecordAppended ==
  ASSUME NEW s \in Seq(Records), NEW r \in Records
  PROVE  /\ Append(s, r) \in Seq(Records) /\ Append(s, r) # <<>>
         /\ Len(Append(s, r)) = Len(s) + 1
         /\ \A i \in 1..Len(s) : Append(s, r)[i] = s[i]
         /\ Append(s, r)[Len(s) + 1] = r
  BY AppendProperties

\* Two neighbours of a sequence, cut out of it.
LEMMA Neighbours ==
  ASSUME NEW S, NEW s \in Seq(S), NEW i \in 1..Len(s) - 1
  PROVE  SubSeq(s, i, i + 1) = <<s[i], s[i + 1]>>
  <1> DEFINE t == SubSeq(s, i, i + 1)
  <1>1. Len(s) \in Nat
    BY LenProperties
  <1>2. i \in Int /\ i + 1 \in Int /\ i <= i + 1 /\ i + 1 - 1 = i /\ i + 2 - 1 = i + 1
    BY <1>1
  <1>3. \A j \in i..i + 1 : s[j] \in S
    BY <1>1, ElementOfSeq
  <1>4. t \in Seq(S)
    BY <1>2, <1>3, SubSeqProperties
  <1>5. Len(t) = 2
    BY <1>2, <1>3
  <1>6. t[1] = s[i] /\ t[2] = s[i + 1]
    BY <1>2, <1>3
  <1> HIDE DEF t
  <1>7. t = <<s[i], s[i + 1]>>
    BY <1>4, <1>5, <1>6
  <1> QED
    BY <1>7 DEF t

\* Where no record is entered twice, CHOOSE finds the place of each.
LEMMA PlaceOf ==
  ASSUME NEW e, NEW k \in DOMAIN e,
         \A i, j \in DOMAIN e : e[i] = e[j] => i = j
  PROVE  (CHOOSE i \in DOMAIN e : e[i] = e[k]) = k
  OBVIOUS

\* The position of a cell whose record is in place k.
LEMMA PositionAt ==
  ASSUME Types, EnteredOnce, NEW c, NEW k \in DOMAIN entered, entered[k] = c.record
  PROVE  Position(c) = 2 * k + (IF c.ends THEN 1 ELSE 0)
  <1>1. (CHOOSE i \in DOMAIN entered : entered[i] = entered[k]) = k
    BY PlaceOf DEF EnteredOnce
  <1> QED
    BY <1>1 DEF Position

\* A step that enters records at the end at most and writes nothing, or loses the tail
\* of what is written, keeps the order.
LEMMA OrderKept ==
  ASSUME Types, Types', WrittenInOrder,
         run' >= run,
         DOMAIN entered \subseteq DOMAIN entered',
         \A k \in DOMAIN entered : entered'[k] = entered[k],
         Len(written') <= Len(written),
         \A i \in 1..Len(written') : written'[i] = written[i]
  PROVE  WrittenInOrder'
  <1>0. /\ Len(written) \in Nat /\ Len(written') \in Nat /\ run \in Nat /\ run' \in Nat
        /\ \A i \in 1..Len(written) : written[i].record.run \in Nat
    <2>1. Len(written) \in Nat /\ \A i \in 1..Len(written) : written[i].record \in Records
      BY Shapes
    <2>2. file' \in Seq(Cells) /\ held' \in Seq(Cells)
      BY DEF Types
    <2>3. file' \o held' \in Seq(Cells)
      BY <2>2, ConcatProperties
    <2>4. Len(file' \o held') \in Nat
      BY <2>3, LenProperties
    <2> QED
      BY <2>1, <2>4 DEF Types, Records, written
  <1>1. ASSUME NEW i \in 1..Len(written')
        PROVE  /\ \E k \in DOMAIN entered' : entered'[k] = written'[i].record
               /\ written'[i].record.run <= run'
    BY <1>0 DEF WrittenInOrder
  <1>2. ASSUME NEW i \in 1..Len(written') - 1
        PROVE  /\ Before(written[i], written[i + 1])'
               /\ ~written'[i].ends => \/ written'[i + 1].record = written'[i].record
                                       \/ written'[i + 1].record.run > written'[i].record.run
    <2>1. i \in 1..Len(written) - 1 /\ i \in 1..Len(written') /\ i + 1 \in 1..Len(written')
      BY <1>0
    <2>2. Before(written[i], written[i + 1])
      BY <2>1 DEF WrittenInOrder
    <2>3. Before(written[i], written[i + 1])'
      BY <2>1, <2>2 DEF Before
    <2> QED
      BY <2>1, <2>3 DEF WrittenInOrder
  <1> QED
    BY <1>1, <1>2 DEF WrittenInOrder

\* A step that writes the line of the record entered last keeps the order, if every
\* record written so far was entered before and the last line is whole.
LEMMA OrderGrows ==
  ASSUME Types, Types', WrittenInOrder, EndsWhole, open,
         NEW r \in Records, r.run = run, run' = run,
         DOMAIN entered \subseteq DOMAIN entered',
         \A k \in DOMAIN entered : entered'[k] = entered[k],
         NEW m \in DOMAIN entered', entered'[m] = r,
         \A i \in 1..Len(written), k \in DOMAIN entered :
           entered[k] = written[i].record => k < m,
         written' = written \o Line(r)
  PROVE  /\ WrittenInOrder' /\ EndsWhole'
         /\ Len(written') = Len(written) + 2
         /\ written'[Len(written') - 1] = Cell(r, FALSE)
         /\ written'[Len(written')] = Cell(r, TRUE)
         /\ \A i \in 1..Len(written) : written'[i] = written[i]
  <1> DEFINE n == Len(written)
  <1>1. /\ written \in Seq(Cells) /\ n \in Nat /\ run \in Nat
        /\ \A i \in 1..n : written[i].record \in Records
        /\ \A i \in 1..n : written[i].record.run \in Nat
    BY Shapes DEF Types, Records
  <1>3. Len(written') = n + 2
    BY <1>1, LineAppended
  <1>4. \A i \in 1..n : written'[i] = written[i]
    BY <1>1, LineAppended
  <1>5. written'[n + 1] = Cell(r, FALSE) /\ written'[n + 2] = Cell(r, TRUE)
    BY <1>1, LineAppended
  <1>z. /\ written'[n + 1].record = r /\ ~written'[n + 1].ends
        /\ written'[n + 2].record = r /\ written'[n + 2].ends
    BY <1>5, LineShape
  <1>6. ASSUME NEW i \in 1..n + 2
        PROVE  /\ \E k \in DOMAIN entered' : entered'[k] = written'[i].record
               /\ written'[i].record.run <= run'
    <2>1. CASE i \in 1..n
      BY <1>4, <2>1 DEF WrittenInOrder
    <2>2. CASE i = n + 1 \/ i = n + 2
      <3>1. written'[i].record = r
        BY <1>z, <2>2
      <3>2. run <= run' /\ r.run = run
        BY <1>1
      <3> QED
        BY <3>1, <3>2
    <2>3. i \in 1..n \/ i = n + 1 \/ i = n + 2
      BY <1>1
    <2> QED
      BY <2>1, <2>2, <2>3
  <1>7. ASSUME NEW i \in 1..n + 1
        PROVE  /\ Before(written[i], written[i + 1])'
               /\ ~written'[i].ends => \/ written'[i + 1].record = written'[i].record
                                       \/ written'[i + 1].record.run > written'[i].record.run
    <2>1. CASE i \in 1..n - 1
      <3>1. i \in 1..n /\ i + 1 \in 1..n
        BY <1>1, <2>1
      <3>2. Before(written[i], written[i + 1])
        BY <2>1 DEF WrittenInOrder
      <3>3. Before(written[i], written[i + 1])'
        BY <1>4, <3>1, <3>2 DEF Before
      <3> QED
        BY <1>4, <2>1, <3>1, <3>3 DEF WrittenInOrder
    <2>2. CASE i = n /\ n >= 1
      <3>1. i \in 1..n /\ written'[i] = written[i]
        BY <1>1, <1>4, <2>2
      <3>2. written'[i + 1].record = r
        BY <1>z, <2>2
      <3>3. PICK k \in DOMAIN entered : entered[k] = written[i].record
        BY <3>1 DEF WrittenInOrder
      <3>4. k < m /\ k \in DOMAIN entered' /\ entered'[k] = written'[i].record
        BY <3>1, <3>3
      <3>5. Before(written[i], written[i + 1])'
        BY <3>2, <3>4 DEF Before
      <3>6. written # <<>>
        BY <1>1, <2>2
      <3>7. written[i].ends \/ written[i].record.run < run
        BY <2>2, <3>6 DEF EndsWhole
      <3> QED
        BY <3>1, <3>2, <3>5, <3>7
    <2>3. CASE i = n + 1
      <3>1. i + 1 = n + 2
        BY <1>1, <2>3
      <3>3. /\ written'[i].record = r /\ written'[i + 1].record = r
            /\ ~written'[i].ends /\ written'[i + 1].ends
        BY <1>z, <2>3, <3>1
      <3>4. Before(written[i], written[i + 1])'
        BY <3>3 DEF Before
      <3> QED
        BY <3>3, <3>4
    <2>4. i \in 1..n - 1 \/ (i = n /\ n >= 1) \/ i = n + 1
      BY <1>1
    <2> QED
      BY <2>1, <2>2, <2>3, <2>4
  <1>8. WrittenInOrder'
    <2>1. Len(written') - 1 = n + 1
      BY <1>1, <1>3
    <2> QED
      BY <1>3, <1>6, <1>7, <2>1 DEF WrittenInOrder
  <1>9. EndsWhole'
    <2>2. written'[Len(written')].ends
      BY <1>3, <1>z
    <2> QED
      BY <2>2 DEF EndsWhole
  <1>10. Len(written') - 1 = n + 1
    BY <1>1, <1>3
  <1> QED
    BY <1>3, <1>4, <1>5, <1>8, <1>9, <1>10

\* What is in the file stays there: more is only put behind it.
LEMMA ReportedKept ==
  ASSUME Types, ReportedIsWritten, reported' = reported,
         NEW x \in Seq(Cells), file' = file \o x
  PROVE  ReportedIsWritten'
  <1>1. file \in Seq(Cells) /\ Len(file) \in Nat /\ Len(x) \in Nat
    BY LenProperties DEF Types
  <1>2. /\ Len(file') = Len(file) + Len(x)
        /\ \A i \in 1..Len(file) + Len(x) :
             file'[i] = IF i <= Len(file) THEN file[i] ELSE x[i - Len(file)]
    BY <1>1, ConcatProperties, Zenon
  <1>3. ASSUME NEW r \in reported
        PROVE  \E i \in 1..Len(file') - 1 :
                 /\ SubSeq(file', i, i + 1) = Line(r)
                 /\ i > 1 => file'[i - 1].ends \/ file'[i - 1].record.run < r.run
    <2>1. PICK i \in 1..Len(file) - 1 :
            /\ SubSeq(file, i, i + 1) = Line(r)
            /\ i > 1 => file[i - 1].ends \/ file[i - 1].record.run < r.run
      BY DEF ReportedIsWritten
    <2>2. i \in 1..Len(file) /\ i + 1 \in 1..Len(file) /\ i \in 1..Len(file') - 1
      BY <1>1, <1>2
    <2>3. SubSeq(file', i, i + 1) = SubSeq(file, i, i + 1)
      BY <1>1, <2>2, SubSeqOfConcat1
    <2>4. i > 1 => file'[i - 1] = file[i - 1]
      <3> SUFFICES ASSUME i > 1 PROVE file'[i - 1] = file[i - 1]
        OBVIOUS
      <3>1. i - 1 \in 1..Len(file) + Len(x) /\ i - 1 <= Len(file)
        BY <1>1, <2>2
      <3> QED
        BY <1>2, <3>1
    <2> QED
      BY <2>1, <2>2, <2>3, <2>4
  <1> QED
    BY <1>3 DEF ReportedIsWritten

-------------------------------------------------------------------------------
(* The initial state and the steps that write nothing.                     *)

LEMMA InitEstablishes == Init => IInv
  <1> SUFFICES ASSUME Init PROVE IInv
    OBVIOUS
  <1>1. Types
    <2>1. <<>> \in Seq(Cells) /\ <<>> \in Seq(Records)
      BY EmptySeq
    <2>2. NoRecord \in Records
      BY DEF NoRecord, Records
    <2> QED
      BY <2>1, <2>2 DEF Init, Types
  <1>2. Len(written) = 0 /\ Len(file) = 0 /\ DOMAIN entered = {} /\ written = <<>>
    BY DEF Init, written
  <1>3. LockDiscipline
    BY LoggerAssumption DEF Init, LockDiscipline, LoggerAssumption
  <1>4. EnteredOnce /\ OwnLine
    BY <1>2 DEF Init, EnteredOnce, OwnLine
  <1>5. WrittenInOrder /\ EndsWhole
    BY <1>2 DEF WrittenInOrder, EndsWhole
  <1>6. ReportedIsWritten
    BY DEF Init, ReportedIsWritten
  <1> QED
    BY <1>1, <1>3, <1>4, <1>5, <1>6 DEF IInv

\* A step that touches neither the cells, nor the order of the lock, nor the stream.
LEMMA CellsKept ==
  ASSUME IInv, UNCHANGED <<file, held, open, run, entered, reported>>
  PROVE  WrittenInOrder' /\ EndsWhole' /\ ReportedIsWritten' /\ written' = written
  <1>1. written' = written
    BY DEF written
  <1>2. WrittenInOrder'
    BY <1>1 DEF IInv, WrittenInOrder, Before
  <1> QED
    BY <1>1, <1>2 DEF IInv, EndsWhole, ReportedIsWritten

LEMMA MakeLinePreserves ==
  ASSUME IInv, NEW w \in Workers, MakeLine(w)
  PROVE  IInv'
  <1>1. WrittenInOrder' /\ EndsWhole' /\ ReportedIsWritten' /\ written' = written
    BY CellsKept DEF MakeLine
  <1>2. /\ pc' = [pc EXCEPT ![w] = "waiting"] /\ pc[w] = "idle"
        /\ record' = [record EXCEPT ![w] = [id |-> count + 1, run |-> run]]
        /\ count' = count + 1
        /\ UNCHANGED <<file, held, open, lock, run, faults, entered, reported>>
    BY DEF MakeLine, Goto
  <1>3. Types'
    <2>1. count \in Nat /\ run \in Nat /\ record \in [Workers -> Records]
      BY DEF IInv, Types
    <2>2. [id |-> count + 1, run |-> run] \in Records /\ count + 1 \in Nat
      BY <2>1 DEF Records
    <2>3. record' \in [Workers -> Records] /\ count' \in Nat
      BY <1>2, <2>1, <2>2
    <2>4. pc' \in [Workers -> {"idle", "waiting", "making room", "flushing"}]
      BY <1>2 DEF IInv, Types
    <2> QED
      BY <1>2, <2>3, <2>4 DEF IInv, Types
  <1>4. /\ \A v \in Workers : v # w => pc'[v] = pc[v] /\ record'[v] = record[v]
        /\ pc'[w] = "waiting" /\ record'[w] = [id |-> count + 1, run |-> run]
    BY <1>2 DEF IInv, Types
  <1>5. lock # w /\ (lock # None => lock \in Workers)
    BY <1>2 DEF IInv, Types, LockDiscipline
  <1>6. LockDiscipline'
    BY <1>2, <1>4, <1>5 DEF IInv, LockDiscipline
  <1>7. EnteredOnce'
    <2>1. /\ count \in Nat
          /\ \A i \in DOMAIN entered : entered[i].id \in Nat
          /\ \A v \in Workers : record[v].id \in Nat
      BY Shapes DEF IInv, Types, Records
    <2>2. /\ \A i \in DOMAIN entered : entered[i].id <= count
          /\ \A v \in Workers : pc[v] # "idle" =>
               record[v].id <= count /\ record[v].run = run
      BY DEF IInv, EnteredOnce
    <2>3. /\ \A i \in DOMAIN entered : entered[i].id <= count + 1
                                       /\ entered[i].id # count + 1
          /\ \A v \in Workers : pc[v] # "idle" =>
               record[v].id <= count + 1 /\ record[v].id # count + 1
      BY <2>1, <2>2
    <2>4. count + 1 <= count'
      BY <1>2, <2>1
    <2> QED
      BY <1>2, <1>4, <2>3, <2>4 DEF IInv, EnteredOnce
  <1>8. OwnLine'
    BY <1>1, <1>4 DEF IInv, OwnLine
  <1> QED
    BY <1>1, <1>3, <1>6, <1>7, <1>8 DEF IInv

\* A worker goes back to "idle" and, if it had the lock, gives it back.
LEMMA GoIdlePreserves ==
  ASSUME IInv, NEW w \in Workers,
         pc' = [pc EXCEPT ![w] = "idle"],
         \/ pc[w] = "waiting" /\ lock' = lock
         \/ pc[w] \in {"making room", "flushing"} /\ lock' = None,
         UNCHANGED <<file, held, open, record, count, run, entered>>,
         reported' \subseteq Records, ReportedIsWritten'
  PROVE  IInv'
  <1>1. written' = written
    BY DEF written
  <1>2. Types'
    BY DEF IInv, Types
  <1>3. \A v \in Workers : v # w => pc'[v] = pc[v]
    BY DEF IInv, Types
  <1>4. pc'[w] = "idle"
    BY DEF IInv, Types
  <1>5. LockDiscipline'
    <2>1. None \notin Workers
      BY LoggerAssumption DEF LoggerAssumption
    <2>2. CASE pc[w] = "waiting" /\ lock' = lock
      <3>1. lock # w
        BY <2>2 DEF IInv, LockDiscipline
      <3> QED
        BY <1>3, <1>4, <2>2, <3>1 DEF IInv, LockDiscipline
    <2>3. CASE pc[w] \in {"making room", "flushing"} /\ lock' = None
      <3>1. lock = w
        BY <2>3 DEF IInv, LockDiscipline
      <3>2. \A v \in Workers : pc'[v] \notin {"making room", "flushing"}
        BY <1>3, <1>4, <3>1 DEF IInv, LockDiscipline
      <3> QED
        BY <2>1, <2>3, <3>2 DEF LockDiscipline
    <2> QED
      BY <2>2, <2>3
  <1>6. EnteredOnce'
    <2>1. \A v \in Workers : pc'[v] # "idle" => v # w /\ pc[v] # "idle" /\ pc'[v] = pc[v]
      BY <1>3, <1>4
    <2> QED
      BY <2>1 DEF IInv, EnteredOnce
  <1>7. OwnLine'
    BY <1>1, <1>3, <1>4 DEF IInv, OwnLine
  <1>8. WrittenInOrder'
    <2>1. WrittenInOrder
      BY DEF IInv
    <2>2. entered' = entered /\ run' = run
      OBVIOUS
    <2>3. \A c, d : Before(c, d)' <=> Before(c, d)
      BY <2>2 DEF Before
    <2> QED
      BY <1>1, <2>1, <2>2, <2>3 DEF WrittenInOrder
  <1>9. EndsWhole'
    BY <1>1 DEF IInv, EndsWhole
  <1> QED
    BY <1>2, <1>5, <1>6, <1>7, <1>8, <1>9 DEF IInv

LEMMA FindClosedPreserves ==
  ASSUME IInv, NEW w \in Workers, FindClosed(w)
  PROVE  IInv'
  <1>1. ReportedIsWritten' /\ reported' \subseteq Records
    BY CellsKept DEF FindClosed, IInv, Types
  <1> QED
    BY <1>1, GoIdlePreserves DEF FindClosed, Goto

LEMMA ReturnFalsePreserves ==
  ASSUME IInv, NEW w \in Workers, ReturnFalse(w)
  PROVE  IInv'
  <1>1. ReportedIsWritten' /\ reported' \subseteq Records
    BY CellsKept DEF ReturnFalse, IInv, Types
  <1> QED
    BY <1>1, GoIdlePreserves DEF ReturnFalse, Goto

\* The flush is over: the buffer is empty, so the line at the end of what is written
\* is at the end of the file.
LEMMA ReturnTruePreserves ==
  ASSUME IInv, NEW w \in Workers, ReturnTrue(w)
  PROVE  IInv'
  <1> DEFINE r == record[w]
             n == Len(file)
  <1>1. /\ pc[w] = "flushing" /\ held = <<>> /\ reported' = reported \cup {r}
        /\ file' = file
    BY DEF ReturnTrue
  <1>2. /\ file \in Seq(Cells) /\ n \in Nat /\ r \in Records /\ written = file
        /\ r.run = run
    BY <1>1, LenProperties, ConcatEmptySeq DEF IInv, Types, written, EnteredOnce
  <1>3. /\ n >= 2 /\ file[n - 1] = Cell(r, FALSE) /\ file[n] = Cell(r, TRUE)
    BY <1>1, <1>2 DEF IInv, OwnLine
  <1>4. SubSeq(file, n - 1, n) = Line(r)
    <2>1. n - 1 \in 1..n - 1 /\ n - 1 + 1 = n
      BY <1>2, <1>3
    <2>2. SubSeq(file, n - 1, n) = <<file[n - 1], file[n]>>
      BY <1>2, <2>1, Neighbours
    <2> QED
      BY <1>3, <2>2 DEF Line
  <1>5. n - 1 > 1 => file[n - 2].ends \/ file[n - 2].record.run < r.run
    <2> SUFFICES ASSUME n - 1 > 1 PROVE file[n - 2].ends \/ file[n - 2].record.run < r.run
      OBVIOUS
    <2>1. n - 2 \in 1..n - 1 /\ n - 2 + 1 = n - 1 /\ n - 2 \in 1..n
      BY <1>2
    <2>2. Before(file[n - 2], file[n - 1])
      BY <1>2, <2>1 DEF IInv, WrittenInOrder
    <2>3. file[n - 1].record = r /\ ~file[n - 1].ends
      BY <1>2, <1>3, LineShape
    <2>4. file[n - 2].record # r
      <3>1. PICK k, l \in DOMAIN entered :
              /\ entered[k] = file[n - 2].record /\ entered[l] = r /\ k < l
        BY <2>2, <2>3 DEF Before
      <3>2. k \in Nat /\ l \in Nat
        BY Shapes DEF IInv
      <3>3. k # l
        BY <3>1, <3>2
      <3> QED
        BY <3>1, <3>3 DEF IInv, EnteredOnce
    <2>5. ~file[n - 2].ends => file[n - 1].record.run > file[n - 2].record.run
      BY <1>2, <2>1, <2>3, <2>4 DEF IInv, WrittenInOrder
    <2>6. file[n - 2].record.run \in Nat /\ r.run \in Nat
      BY <1>2, <2>1, Shapes DEF IInv, Records
    <2> QED
      BY <2>3, <2>5, <2>6
  <1>6. ReportedIsWritten'
    <2>1. n - 1 \in 1..n - 1 /\ n - 1 + 1 = n /\ n - 1 - 1 = n - 2
      BY <1>2, <1>3
    <2>2. \E i \in 1..n - 1 :
            /\ SubSeq(file, i, i + 1) = Line(r)
            /\ i > 1 => file[i - 1].ends \/ file[i - 1].record.run < r.run
      BY <1>4, <1>5, <2>1
    <2> QED
      BY <1>1, <2>2 DEF IInv, ReportedIsWritten
  <1>7. reported' \subseteq Records
    BY <1>1, <1>2 DEF IInv, Types
  <1> QED
    BY <1>1, <1>6, <1>7, GoIdlePreserves DEF ReturnTrue, Goto

-------------------------------------------------------------------------------
(* The steps that move, append or lose cells.                              *)

\* The system call takes cells from the front of the buffer to the end of the file.
LEMMA WriteSomePreserves ==
  ASSUME IInv, NEW w \in Workers, WriteSome(w)
  PROVE  IInv'
  <1>1. PICK n \in 1..Len(held) : /\ file' = file \o SubSeq(held, 1, n)
                                  /\ held' = SubSeq(held, n + 1, Len(held))
    BY DEF WriteSome, GiveToFile
  <1>2. UNCHANGED <<open, lock, pc, record, count, run, faults, entered, reported>>
    BY DEF WriteSome
  <1> DEFINE front == SubSeq(held, 1, n)
             back == SubSeq(held, n + 1, Len(held))
  <1>3. file \in Seq(Cells) /\ held \in Seq(Cells) /\ Len(held) \in Nat
    BY LenProperties DEF IInv, Types
  <1>4. \A i \in 1..Len(held) : held[i] \in Cells
    BY <1>3, ElementOfSeq
  <1>5. front \in Seq(Cells) /\ back \in Seq(Cells)
    <2>1. 1 \in Int /\ n \in Int /\ \A i \in 1..n : held[i] \in Cells
      BY <1>3, <1>4
    <2>2. n + 1 \in Int /\ Len(held) \in Int /\ \A i \in n + 1..Len(held) : held[i] \in Cells
      BY <1>3, <1>4
    <2> QED
      BY <2>1, <2>2, SubSeqProperties
  <1>6. front \o back = held
    <2>1. /\ 1 \in 1..Len(held) + 1 /\ n \in 1 - 1..Len(held)
          /\ Len(held) \in n..Len(held)
      BY <1>3
    <2>2. front \o back = SubSeq(held, 1, Len(held))
      BY <1>3, <2>1, ConcatAdjacentSubSeq
    <2> QED
      BY <1>3, <2>2, SubSeqFull
  <1> HIDE DEF front, back
  <1>7. file' = file \o front /\ held' = back
    BY <1>1 DEF front, back
  <1>8. written' = written
    <2>1. (file \o front) \o back = file \o (front \o back)
      BY <1>3, <1>5, CellsAssociate
    <2> QED
      BY <1>6, <1>7, <2>1, Zenon DEF written
  <1>9. Types'
    <2>1. file' \in Seq(Cells) /\ held' \in Seq(Cells)
      BY <1>3, <1>5, <1>7, ConcatProperties
    <2> QED
      BY <1>2, <2>1 DEF IInv, Types
  <1>10. ReportedIsWritten'
    BY <1>2, <1>5, <1>7, ReportedKept DEF IInv
  <1>11. LockDiscipline' /\ EnteredOnce'
    BY <1>2 DEF IInv, LockDiscipline, EnteredOnce
  <1>12. WrittenInOrder'
    BY <1>2, <1>8 DEF IInv, WrittenInOrder, Before
  <1>13. EndsWhole'
    BY <1>2, <1>8 DEF IInv, EndsWhole
  <1>14. OwnLine'
    BY <1>2, <1>8 DEF IInv, OwnLine
  <1> QED
    BY <1>9, <1>10, <1>11, <1>12, <1>13, <1>14 DEF IInv

\* A worker gets the lock: its record is the newest in the order, and no cell of it is
\* written yet.
LEMMA TakeLockFacts ==
  ASSUME IInv, NEW w \in Workers, TakeLock(w)
  PROVE  /\ record[w] \in Records /\ record[w].run = run
         /\ DOMAIN entered \subseteq DOMAIN entered'
         /\ \A k \in DOMAIN entered : entered'[k] = entered[k]
         /\ Len(entered) + 1 \in DOMAIN entered' /\ entered' \in Seq(Records)
         /\ entered' # <<>> /\ Len(entered') = Len(entered) + 1
         /\ entered'[Len(entered) + 1] = record[w]
         /\ \A k \in DOMAIN entered : k < Len(entered) + 1 /\ entered[k] # record[w]
         /\ EnteredOnce' /\ LockDiscipline'
         /\ \A v \in Workers : v # w => pc'[v] \in {"idle", "waiting"} /\ pc'[v] = pc[v]
         /\ pc'[w] \in {"making room", "flushing"}
  <1> DEFINE r == record[w]
             m == Len(entered) + 1
  <1>1. /\ pc[w] = "waiting" /\ lock = None /\ open /\ lock' = w
        /\ entered' = Append(entered, r)
        /\ UNCHANGED <<file, open, record, count, run, faults, reported>>
    BY DEF TakeLock
  <1>2. /\ r \in Records /\ r.run = run /\ entered \in Seq(Records)
        /\ pc \in [Workers -> {"idle", "waiting", "making room", "flushing"}]
    BY <1>1 DEF IInv, Types, EnteredOnce
  <1>3. Len(entered) \in Nat /\ DOMAIN entered = 1..Len(entered)
    BY Shapes DEF IInv
  <1>4. /\ entered' \in Seq(Records) /\ entered' # <<>> /\ Len(entered') = Len(entered) + 1
        /\ \A i \in 1..Len(entered) : entered'[i] = entered[i]
        /\ entered'[Len(entered) + 1] = r
    <2>1. /\ Append(entered, r) \in Seq(Records) /\ Append(entered, r) # <<>>
          /\ Len(Append(entered, r)) = Len(entered) + 1
          /\ \A i \in 1..Len(entered) : Append(entered, r)[i] = entered[i]
          /\ Append(entered, r)[Len(entered) + 1] = r
      BY <1>2, RecordAppended
    <2> QED
      BY <1>1, <2>1, Zenon
  <1>5. DOMAIN entered' = 1..m
    BY <1>4, LenProperties
  <1>6. /\ m \in 1..m /\ 1..Len(entered) \subseteq 1..m
        /\ \A k \in 1..Len(entered) : k < m
        /\ \A k \in 1..m : k \in 1..Len(entered) \/ k = m
    BY <1>3
  <1>7. \A k \in DOMAIN entered : entered[k].id # r.id /\ entered[k] # r
    BY <1>1 DEF IInv, EnteredOnce
  <1>8. None \notin Workers
    BY LoggerAssumption DEF LoggerAssumption
  <1>9. pc' = [pc EXCEPT ![w] = "flushing"] \/ pc' = [pc EXCEPT ![w] = "making room"]
    BY DEF TakeLock, Goto
  <1>10. /\ \A v \in Workers : v # w => pc'[v] = pc[v]
         /\ pc'[w] \in {"making room", "flushing"}
    BY <1>2, <1>9
  <1>11. \A v \in Workers : v # w => pc'[v] \in {"idle", "waiting"}
    BY <1>1, <1>2, <1>8, <1>10 DEF IInv, LockDiscipline
  <1>12. LockDiscipline'
    <2>1. \A v \in Workers : pc'[v] \in {"making room", "flushing"} <=> lock' = v
      BY <1>1, <1>10, <1>11
    <2> QED
      BY <1>1, <1>4, <2>1 DEF LockDiscipline
  <1>13. EnteredOnce'
    <2>1. \A i, j \in 1..m : entered'[i] = entered'[j] => i = j
      BY <1>3, <1>4, <1>6, <1>7 DEF IInv, EnteredOnce
    <2>2. \A i \in 1..m : entered'[i].id <= count'
      BY <1>1, <1>3, <1>4, <1>6 DEF IInv, EnteredOnce
    <2>3. \A v \in Workers : pc'[v] # "idle" => record'[v].id <= count' /\ record'[v].run = run'
      BY <1>1, <1>10 DEF IInv, EnteredOnce
    <2>4. \A u, v \in Workers : u # v /\ pc'[u] # "idle" /\ pc'[v] # "idle" =>
            record'[u].id # record'[v].id
      <3>1. \A v \in Workers : pc'[v] # "idle" => pc[v] # "idle"
        BY <1>1, <1>10
      <3> QED
        BY <1>1, <3>1 DEF IInv, EnteredOnce
    <2>5. ASSUME NEW v \in Workers, pc'[v] = "waiting", NEW i \in 1..m
          PROVE  entered'[i].id # record'[v].id
      <3>1. v # w /\ pc[v] = "waiting"
        BY <1>10, <2>5
      <3>2. CASE i = m
        BY <1>1, <1>4, <3>1, <3>2 DEF IInv, EnteredOnce
      <3>3. CASE i \in 1..Len(entered)
        BY <1>1, <1>3, <1>4, <3>1, <3>3 DEF IInv, EnteredOnce
      <3> QED
        BY <1>6, <3>2, <3>3
    <2> QED
      BY <1>5, <2>1, <2>2, <2>3, <2>4, <2>5 DEF EnteredOnce
  <1> QED
    BY <1>2, <1>3, <1>4, <1>5, <1>6, <1>7, <1>10, <1>11, <1>12, <1>13

LEMMA TakeLockPreserves ==
  ASSUME IInv, NEW w \in Workers, TakeLock(w)
  PROVE  IInv'
  <1> DEFINE r == record[w]
             m == Len(entered) + 1
  <1>1. /\ pc[w] = "waiting" /\ lock = None /\ open /\ lock' = w
        /\ UNCHANGED <<file, open, record, count, run, faults, reported>>
    BY DEF TakeLock
  <1>2. /\ r \in Records /\ r.run = run
        /\ DOMAIN entered \subseteq DOMAIN entered'
        /\ \A k \in DOMAIN entered : entered'[k] = entered[k]
        /\ m \in DOMAIN entered' /\ entered'[m] = r /\ entered' \in Seq(Records)
        /\ \A k \in DOMAIN entered : k < m /\ entered[k] # r
        /\ EnteredOnce' /\ LockDiscipline'
        /\ \A v \in Workers : v # w => pc'[v] \in {"idle", "waiting"}
    BY TakeLockFacts
  <1>3. file \in Seq(Cells) /\ held \in Seq(Cells) /\ Line(r) \in Seq(Cells)
    BY <1>2, LineShape DEF IInv, Types
  <1>4. \/ held' = held \o Line(r) /\ pc' = [pc EXCEPT ![w] = "flushing"]
        \/ held' = held /\ pc' = [pc EXCEPT ![w] = "making room"]
    BY DEF TakeLock, Goto
  <1>5. Types'
    <2>1. held' \in Seq(Cells)
      BY <1>3, <1>4, ConcatProperties
    <2>2. pc' \in [Workers -> {"idle", "waiting", "making room", "flushing"}]
      BY <1>4 DEF IInv, Types
    <2> QED
      BY <1>1, <1>2, <2>1, <2>2 DEF IInv, Types
  <1>6. ReportedIsWritten'
    BY <1>1 DEF IInv, ReportedIsWritten
  <1>7. CASE held' = held \o Line(r) /\ pc' = [pc EXCEPT ![w] = "flushing"]
    <2>1. written' = written \o Line(r)
      BY <1>1, <1>3, <1>7, CellsAssociate DEF written
    <2>2. /\ WrittenInOrder' /\ EndsWhole'
          /\ Len(written') = Len(written) + 2
          /\ written'[Len(written') - 1] = Cell(r, FALSE)
          /\ written'[Len(written')] = Cell(r, TRUE)
      BY <1>1, <1>2, <1>5, <2>1, OrderGrows DEF IInv
    <2>3. Len(written') >= 2
      <3>1. Len(written) \in Nat
        BY Shapes DEF IInv
      <3> QED
        BY <2>2, <3>1
    <2>4. pc'[w] = "flushing"
      BY <1>7 DEF IInv, Types
    <2>5. OwnLine'
      <3>1. \A v \in Workers : /\ pc'[v] = "flushing" => v = w
                              /\ pc'[v] # "making room"
        BY <1>2, <2>4
      <3>2. record'[w] = r
        BY <1>1
      <3> QED
        BY <2>2, <2>3, <3>1, <3>2 DEF OwnLine
    <2> QED
      BY <1>2, <1>5, <1>6, <2>2, <2>5 DEF IInv
  <1>8. CASE held' = held /\ pc' = [pc EXCEPT ![w] = "making room"]
    <2>1. written' = written
      BY <1>1, <1>8 DEF written
    <2>2. Len(written) \in Nat /\ run \in Nat
      BY Shapes DEF IInv, Types
    <2>7. pc'[w] = "making room"
      BY <1>8 DEF IInv, Types
    <2>3. WrittenInOrder'
      <3>1. /\ run' >= run /\ Len(written') <= Len(written)
            /\ \A i \in 1..Len(written') : written'[i] = written[i]
        BY <1>1, <2>1, <2>2
      <3> QED
        BY <1>2, <1>5, <3>1, OrderKept DEF IInv
    <2>4. EndsWhole'
      BY <1>1, <2>1 DEF IInv, EndsWhole
    <2>5. \A i \in 1..Len(written) : written[i].record # r
      BY <1>2 DEF IInv, WrittenInOrder
    <2>6. OwnLine'
      <3>1. \A v \in Workers : /\ pc'[v] = "making room" => v = w
                              /\ pc'[v] # "flushing"
        BY <1>2, <2>7
      <3>2. record'[w] = r
        BY <1>1
      <3> QED
        BY <2>1, <2>5, <3>1, <3>2 DEF OwnLine
    <2> QED
      BY <1>2, <1>5, <1>6, <2>3, <2>4, <2>6 DEF IInv
  <1> QED
    BY <1>4, <1>7, <1>8

LEMMA RoomMadePreserves ==
  ASSUME IInv, NEW w \in Workers, RoomMade(w)
  PROVE  IInv'
  <1> DEFINE r == record[w]
             m == Len(entered)
  <1>1. /\ pc[w] = "making room" /\ held = <<>> /\ held' = Line(r)
        /\ pc' = [pc EXCEPT ![w] = "flushing"]
        /\ UNCHANGED <<file, open, lock, record, count, run, faults, entered, reported>>
    BY DEF RoomMade, Goto
  <1>2. /\ lock = w /\ open /\ m \in DOMAIN entered /\ entered[m] = r
        /\ r \in Records /\ r.run = run
    <2>1. lock = w /\ w # None
      BY <1>1, LoggerAssumption DEF IInv, LockDiscipline, LoggerAssumption
    <2>2. entered # <<>> /\ entered[m] = r /\ open
      BY <2>1 DEF IInv, LockDiscipline
    <2>3. m \in DOMAIN entered
      <3>1. m \in Nat \ {0}
        BY <2>2, EmptySeq DEF IInv, Types
      <3> QED
        BY <3>1, Shapes DEF IInv
    <2> QED
      BY <1>1, <2>1, <2>2, <2>3 DEF IInv, Types, EnteredOnce
  <1>3. \A i \in 1..Len(written), k \in DOMAIN entered :
          entered[k] = written[i].record => k < m
    <2>1. \A k \in DOMAIN entered : k # m => k < m
      BY Shapes DEF IInv
    <2>2. \A i \in 1..Len(written) : written[i].record # r
      BY <1>1 DEF IInv, OwnLine
    <2> QED
      BY <1>2, <2>1, <2>2
  <1>4. written' = written \o Line(r)
    <2>1. file \in Seq(Cells)
      BY DEF IInv, Types
    <2> QED
      BY <1>1, <2>1, ConcatEmptySeq DEF written
  <1>5. Types'
    <2>1. held' \in Seq(Cells)
      BY <1>1, <1>2, LineShape
    <2> QED
      BY <1>1, <2>1 DEF IInv, Types
  <1>6. /\ WrittenInOrder' /\ EndsWhole'
        /\ Len(written') = Len(written) + 2
        /\ written'[Len(written') - 1] = Cell(r, FALSE)
        /\ written'[Len(written')] = Cell(r, TRUE)
    BY <1>1, <1>2, <1>3, <1>4, <1>5, OrderGrows DEF IInv
  <1>7. \A v \in Workers : v # w => pc'[v] = pc[v] /\ pc[v] \in {"idle", "waiting"}
    BY <1>1, <1>2 DEF IInv, Types, LockDiscipline
  <1>8. pc'[w] = "flushing" /\ Len(written) \in Nat
    BY <1>1, Shapes DEF IInv, Types
  <1>9. LockDiscipline' /\ EnteredOnce'
    <2>1. \A v \in Workers : pc'[v] \in {"making room", "flushing"} <=> lock' = v
      BY <1>1, <1>2, <1>7, <1>8
    <2>2. \A v \in Workers : pc'[v] # "idle" => pc[v] # "idle"
      BY <1>1, <1>7
    <2>3. \A v \in Workers : pc'[v] = "waiting" => pc[v] = "waiting"
      BY <1>7, <1>8
    <2> QED
      BY <1>1, <2>1, <2>2, <2>3 DEF IInv, LockDiscipline, EnteredOnce
  <1>10. OwnLine'
    <2>1. Len(written') >= 2
      BY <1>6, <1>8
    <2>2. \A v \in Workers : /\ pc'[v] = "flushing" => v = w
                            /\ pc'[v] # "making room"
      BY <1>7, <1>8
    <2> QED
      BY <1>1, <1>6, <2>1, <2>2 DEF OwnLine
  <1>11. ReportedIsWritten'
    BY <1>1 DEF IInv, ReportedIsWritten
  <1> QED
    BY <1>5, <1>6, <1>9, <1>10, <1>11 DEF IInv

\* A close gives the file what it can of the buffer and forgets the rest.
LEMMA ClosePreserves ==
  ASSUME IInv, Close
  PROVE  IInv'
  <1>1. /\ lock = None /\ open' = FALSE /\ held' = <<>>
        /\ UNCHANGED <<lock, pc, record, count, run, entered, reported>>
    BY DEF Close
  <1>2. file \in Seq(Cells) /\ held \in Seq(Cells) /\ Len(held) \in Nat /\ Len(file) \in Nat
    BY LenProperties DEF IInv, Types
  <1>3. PICK n \in 0..Len(held) : file' = file \o SubSeq(held, 1, n)
    <2>1. CASE file' = file \o held
      <3>1. SubSeq(held, 1, Len(held)) = held
        BY <1>2, SubSeqFull
      <3>2. Len(held) \in 0..Len(held)
        BY <1>2
      <3> QED
        BY <2>1, <3>1, <3>2
    <2>2. CASE file' \in {file \o p : p \in Prefixes(held) \ {held}}
      BY <2>2 DEF Prefixes
    <2> QED
      BY <2>1, <2>2 DEF Close
  <1> DEFINE p == SubSeq(held, 1, n)
  <1>4. \A i \in 1..Len(held) : held[i] \in Cells
    BY <1>2, ElementOfSeq
  <1>5. p \in Seq(Cells) /\ Len(p) = n /\ \A i \in 1..n : p[i] = held[i]
    <2>1. 1 \in Int /\ n \in Int /\ \A i \in 1..n : held[i] \in Cells
      BY <1>2, <1>4
    <2>2. /\ p \in Seq(Cells)
          /\ Len(p) = IF 1 <= n THEN n - 1 + 1 ELSE 0
          /\ \A i \in 1..n - 1 + 1 : p[i] = held[1 + i - 1]
      BY <2>1, SubSeqProperties
    <2>3. n - 1 + 1 = n /\ (IF 1 <= n THEN n - 1 + 1 ELSE 0) = n
          /\ \A i \in 1..n : 1 + i - 1 = i
      BY <1>2
    <2> QED
      BY <2>2, <2>3
  <1> HIDE DEF p
  <1>6. file' = file \o p
    BY <1>3 DEF p
  <1>7. Types'
    <2>1. file' \in Seq(Cells) /\ held' \in Seq(Cells)
      BY <1>1, <1>2, <1>5, <1>6, ConcatProperties, EmptySeq
    <2> QED
      BY <1>1, <2>1 DEF IInv, Types
  <1>8. written' = file \o p
    BY <1>1, <1>2, <1>5, <1>6, ConcatProperties, ConcatEmptySeq DEF written
  <1>9. /\ Len(written') = Len(file) + n
        /\ \A i \in 1..Len(file) + n :
             written'[i] = IF i <= Len(file) THEN file[i] ELSE p[i - Len(file)]
    <2>1. /\ Len(file \o p) = Len(file) + Len(p)
          /\ \A i \in 1..Len(file) + Len(p) :
               (file \o p)[i] = IF i <= Len(file) THEN file[i] ELSE p[i - Len(file)]
      BY <1>2, <1>5, ConcatProperties, Zenon
    <2> QED
      BY <1>5, <1>8, <2>1
  <1>10. ASSUME NEW i \in 1..Len(written') PROVE written'[i] = written[i]
    <2>1. CASE i <= Len(file)
      <3>1. i \in 1..Len(file)
        BY <1>2, <1>9, <2>1
      <3>2. written[i] = file[i]
        BY <3>1, Shapes DEF IInv
      <3> QED
        BY <1>9, <2>1, <3>2
    <2>2. CASE ~(i <= Len(file))
      <3> DEFINE j == i - Len(file)
      <3>1. j \in 1..n /\ j \in 1..Len(held) /\ Len(file) + j = i
        BY <1>2, <1>9, <2>2
      <3>2. written[Len(file) + j] = held[j]
        BY <3>1, Shapes DEF IInv
      <3> QED
        BY <1>5, <1>9, <2>2, <3>1, <3>2
    <2> QED
      BY <2>1, <2>2
  <1>11. WrittenInOrder'
    <2>1. Len(written') <= Len(written) /\ run' >= run
      <3>1. Len(written) = Len(file) + Len(held) /\ run \in Nat
        BY Shapes DEF IInv, Types
      <3> QED
        BY <1>1, <1>2, <1>9, <3>1
    <2>2. DOMAIN entered \subseteq DOMAIN entered' /\ \A k \in DOMAIN entered : entered'[k] = entered[k]
      BY <1>1
    <2> QED
      BY <1>7, <1>10, <2>1, <2>2, OrderKept DEF IInv
  <1>12. ReportedIsWritten'
    BY <1>1, <1>5, <1>6, ReportedKept DEF IInv
  <1>13. \A w \in Workers : pc[w] \notin {"making room", "flushing"}
    BY <1>1, LoggerAssumption DEF IInv, LockDiscipline, LoggerAssumption
  <1>14. LockDiscipline' /\ EnteredOnce' /\ EndsWhole' /\ OwnLine'
    BY <1>1, <1>13 DEF IInv, LockDiscipline, EnteredOnce, EndsWhole, OwnLine
  <1> QED
    BY <1>7, <1>11, <1>12, <1>14 DEF IInv

\* The process ends: what the buffer held is lost, and the next process appends.
LEMMA RestartPreserves ==
  ASSUME IInv, Restart
  PROVE  IInv'
  <1>1. /\ run' = run + 1 /\ held' = <<>> /\ open' = TRUE /\ lock' = None
        /\ pc' = [w \in Workers |-> "idle"] /\ record' = [w \in Workers |-> NoRecord]
        /\ UNCHANGED <<file, count, faults, entered, reported>>
    BY DEF Restart
  <1>2. file \in Seq(Cells) /\ run \in Nat /\ Len(file) \in Nat
    BY LenProperties DEF IInv, Types
  <1>3. Types'
    <2>1. NoRecord \in Records
      BY DEF NoRecord, Records
    <2>2. held' \in Seq(Cells) /\ run' \in Nat
      BY <1>1, <1>2, EmptySeq
    <2> QED
      BY <1>1, <2>1, <2>2 DEF IInv, Types
  <1>4. written' = file
    BY <1>1, <1>2, ConcatEmptySeq DEF written
  <1>5. /\ Len(written') <= Len(written)
        /\ \A i \in 1..Len(written') : written'[i] = written[i]
    <2>1. Len(written) = Len(file) + Len(held) /\ Len(held) \in Nat
      BY Shapes DEF IInv
    <2>2. \A i \in 1..Len(file) : written[i] = file[i]
      BY Shapes DEF IInv
    <2> QED
      BY <1>2, <1>4, <2>1, <2>2
  <1>6. WrittenInOrder'
    <2>1. /\ run' >= run /\ DOMAIN entered \subseteq DOMAIN entered'
          /\ \A k \in DOMAIN entered : entered'[k] = entered[k]
      BY <1>1, <1>2
    <2> QED
      BY <1>3, <1>5, <2>1, OrderKept DEF IInv
  <1>7. EndsWhole'
    <2> SUFFICES ASSUME written' # <<>> PROVE written'[Len(written')].record.run < run'
      BY DEF EndsWhole
    <2> DEFINE n == Len(file)
    <2>1. n \in 1..n
      BY <1>2, <1>4, EmptySeq
    <2>2. n \in 1..Len(written) /\ written[n] = file[n]
      BY <1>2, <2>1, Shapes DEF IInv
    <2>3. file[n].record.run <= run /\ file[n].record.run \in Nat
      BY <2>2, Shapes DEF IInv, WrittenInOrder, Records
    <2> QED
      BY <1>1, <1>2, <1>4, <2>3
  <1>8. LockDiscipline' /\ EnteredOnce' /\ OwnLine'
    <2>1. \A w \in Workers : pc'[w] = "idle"
      BY <1>1
    <2> QED
      BY <1>1, <2>1, LoggerAssumption DEF IInv, LockDiscipline, EnteredOnce, OwnLine, LoggerAssumption
  <1>9. ReportedIsWritten'
    BY <1>1 DEF IInv, ReportedIsWritten
  <1> QED
    BY <1>3, <1>6, <1>7, <1>8, <1>9 DEF IInv

LEMMA NextPreserves == IInv /\ [Next]_vars => IInv'
  <1> SUFFICES ASSUME IInv, [Next]_vars PROVE IInv'
    OBVIOUS
  <1>1. ASSUME NEW w \in Workers,
               \/ MakeLine(w) \/ FindClosed(w) \/ TakeLock(w) \/ WriteSome(w)
               \/ RoomMade(w) \/ ReturnTrue(w) \/ ReturnFalse(w)
        PROVE  IInv'
    BY <1>1, MakeLinePreserves, FindClosedPreserves, TakeLockPreserves,
       WriteSomePreserves, RoomMadePreserves, ReturnTruePreserves, ReturnFalsePreserves
  <1>2. CASE Close
    BY <1>2, ClosePreserves
  <1>3. CASE Restart
    BY <1>3, RestartPreserves
  <1>4. CASE UNCHANGED vars
    <2>1. /\ WrittenInOrder' /\ EndsWhole' /\ ReportedIsWritten' /\ written' = written
          /\ UNCHANGED <<lock, pc, record, count, run, open, entered>>
      BY <1>4, CellsKept DEF vars
    <2>2. Types'
      BY <1>4 DEF vars, IInv, Types
    <2>3. LockDiscipline' /\ EnteredOnce' /\ OwnLine'
      BY <2>1 DEF IInv, LockDiscipline, EnteredOnce, OwnLine
    <2> QED
      BY <2>1, <2>2, <2>3 DEF IInv
  <1> QED
    BY <1>1, <1>2, <1>3, <1>4 DEF Next

\* The inductive invariant holds in every reachable state of the logger.
LEMMA Inductive == Spec => []IInv
  BY InitEstablishes, NextPreserves, PTL DEF Spec

-------------------------------------------------------------------------------
\* A record whose _write returned True is in the file, whole, for good: no failure,
\* close, kill or restart after that takes it away or breaks into its line.
THEOREM ReportedAlwaysWritten == Spec => []ReportedIsWritten
  BY Inductive, PTL DEF IInv

\* The file never mixes, doubles or reorders the records of concurrent threads, and
\* only what a process wrote last can be torn.
THEOREM RecordsAlwaysInOrder == Spec => []RecordsInOrder
  <1>1. IInv => RecordsInOrder
    <2> SUFFICES ASSUME IInv, NEW i \in 1..Len(file) - 1
                 PROVE  /\ Position(file[i]) < Position(file[i + 1])
                        /\ ~file[i].ends =>
                             \/ file[i + 1].record = file[i].record
                             \/ file[i + 1].record.run > file[i].record.run
      BY DEF RecordsInOrder
    <2>1. /\ i \in 1..Len(written) - 1
          /\ written[i] = file[i] /\ written[i + 1] = file[i + 1]
      <3>1. Len(file) \in Nat /\ Len(held) \in Nat /\ Len(written) = Len(file) + Len(held)
        BY Shapes DEF IInv
      <3>2. i \in 1..Len(file) /\ i + 1 \in 1..Len(file) /\ i \in 1..Len(written) - 1
        BY <3>1
      <3> QED
        BY <3>2, Shapes DEF IInv
    <2>2. Before(file[i], file[i + 1])
      BY <2>1 DEF IInv, WrittenInOrder
    <2>3. PICK k, l \in DOMAIN entered :
            /\ entered[k] = file[i].record /\ entered[l] = file[i + 1].record
            /\ k < l \/ (k = l /\ ~file[i].ends /\ file[i + 1].ends)
      BY <2>2 DEF Before
    <2>4. /\ Position(file[i]) = 2 * k + (IF file[i].ends THEN 1 ELSE 0)
          /\ Position(file[i + 1]) = 2 * l + (IF file[i + 1].ends THEN 1 ELSE 0)
      BY <2>3, PositionAt DEF IInv
    <2>5. k \in Nat /\ l \in Nat
      BY Shapes DEF IInv
    <2>6. Position(file[i]) < Position(file[i + 1])
      BY <2>3, <2>4, <2>5
    <2> QED
      BY <2>1, <2>6 DEF IInv, WrittenInOrder
  <1> QED
    BY <1>1, Inductive, PTL
===============================================================================
