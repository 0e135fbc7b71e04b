------------------------------- MODULE ServerLogger -------------------------------
(***************************************************************************)
(* server/logger.py: threads append records to one file, through the       *)
(* buffer of the stream that open(path, "a") returns, in a disk that may    *)
(* fill up in the middle of a line and a process that may be killed and     *)
(* started again.  A record is two cells, of which the second ends its      *)
(* line; records are shorter than the buffer.                               *)
(***************************************************************************)
EXTENDS Integers, Sequences, FiniteSets, SequencesExt

CONSTANTS
  Workers, None,
  Capacity,    \* cells the stream's buffer holds
  MaxRecords,  \* bound: records written in all
  MaxFaults,   \* bound: writes that the disk refuses
  MaxRuns      \* bound: times the server is started

ASSUME LoggerAssumption ==
  /\ None \notin Workers /\ Capacity \in Nat /\ Capacity >= 2
  /\ {MaxRecords, MaxFaults, MaxRuns} \subseteq Nat

VARIABLES
  file,       \* what the operating system has been given, as cells
  held,       \* cells in the stream's buffer
  open,       \* _stream is not None
  lock,       \* the thread that holds _lock, or None
  pc, record, \* where a worker is in _write, and the record it writes
  count,      \* records begun
  run,        \* how often the server was started
  faults,
  entered,    \* history: records in the order in which they got the lock
  reported    \* history: records for which _write returned True

vars == <<file, held, open, lock, pc, record, count, run, faults, entered, reported>>

NoRecord == [id |-> 0, run |-> 0]
Cell(r, ends) == [record |-> r, ends |-> ends]
Line(r) == <<Cell(r, FALSE), Cell(r, TRUE)>>

Init ==
  /\ file = <<>> /\ held = <<>> /\ open = TRUE /\ lock = None
  /\ pc = [w \in Workers |-> "idle"] /\ record = [w \in Workers |-> NoRecord]
  /\ count = 0 /\ run = 1 /\ faults = 0
  /\ entered = <<>> /\ reported = {}

--------------------------------------------------------------------------------
(* One call of _write by a worker. *)

Goto(w, where) == pc' = [pc EXCEPT ![w] = where]

\* The line is made, timestamp and all, before the lock is taken.
MakeLine(w) ==
  /\ pc[w] = "idle" /\ count < MaxRecords
  /\ count' = count + 1
  /\ record' = [record EXCEPT ![w] = [id |-> count + 1, run |-> run]]
  /\ Goto(w, "waiting")
  /\ UNCHANGED <<file, held, open, lock, run, faults, entered, reported>>

\* A closed logger refuses the record.
FindClosed(w) ==
  /\ pc[w] = "waiting" /\ lock = None /\ ~open
  /\ Goto(w, "idle")
  /\ UNCHANGED <<file, held, open, lock, record, count, run, faults, entered, reported>>

\* Faulty variant: the lock is not waited for.
TakeNoLock(w) ==
  /\ pc[w] = "waiting" /\ open
  /\ lock' = w /\ entered' = Append(entered, record[w])
  /\ IF Len(held) + 2 <= Capacity
     THEN held' = held \o Line(record[w]) /\ Goto(w, "flushing")
     ELSE Goto(w, "making room") /\ UNCHANGED held
  /\ UNCHANGED <<file, open, record, count, run, faults, reported>>
\* stream.write puts the line in the buffer if there is room, and makes room first if
\* an earlier failure has left too much in it.
TakeLock(w) ==
  /\ pc[w] = "waiting" /\ lock = None /\ open
  /\ lock' = w /\ entered' = Append(entered, record[w])
  /\ IF Len(held) + 2 <= Capacity
     THEN held' = held \o Line(record[w]) /\ Goto(w, "flushing")
     ELSE Goto(w, "making room") /\ UNCHANGED held
  /\ UNCHANGED <<file, open, record, count, run, faults, reported>>

\* A write of the operating system takes as much as there is space for.
GiveToFile ==
  \E n \in 1..Len(held) :
    /\ file' = file \o SubSeq(held, 1, n)
    /\ held' = SubSeq(held, n + 1, Len(held))

WriteSome(w) ==
  /\ pc[w] \in {"making room", "flushing"}
  /\ GiveToFile
  /\ UNCHANGED <<open, lock, pc, record, count, run, faults, entered, reported>>

RoomMade(w) ==
  /\ pc[w] = "making room" /\ held = <<>>
  /\ held' = Line(record[w])
  /\ Goto(w, "flushing")
  /\ UNCHANGED <<file, open, lock, record, count, run, faults, entered, reported>>

\* Faulty variant: the stream is not flushed.
ReturnBuffered(w) ==
  /\ pc[w] = "flushing"
  /\ reported' = reported \cup {record[w]}
  /\ lock' = None /\ Goto(w, "idle")
  /\ UNCHANGED <<file, held, open, record, count, run, faults, entered>>
ReturnTrue(w) ==
  /\ pc[w] = "flushing" /\ held = <<>>
  /\ reported' = reported \cup {record[w]}
  /\ lock' = None /\ Goto(w, "idle")
  /\ UNCHANGED <<file, held, open, record, count, run, faults, entered>>

\* The disk refuses.  What the buffer holds stays there, for the next record's flush: a
\* record whose failure is reported may be written after all, or be gone if it never
\* got into the buffer.
ReturnFalse(w) ==
  /\ pc[w] \in {"making room", "flushing"} /\ held # <<>> /\ faults < MaxFaults
  /\ faults' = faults + 1
  /\ lock' = None /\ Goto(w, "idle")
  /\ UNCHANGED <<file, held, open, record, count, run, entered, reported>>

--------------------------------------------------------------------------------
(* The server's main thread, and the end of the process. *)

\* Normally the workers have been joined, but a second interrupt ends that wait.
Close ==
  /\ lock = None /\ open
  /\ open' = FALSE
  /\ \/ file' = file \o held
     \/ /\ faults < MaxFaults
        /\ file' \in {file \o p : p \in Prefixes(held) \ {held}}
  /\ held' = <<>>
  /\ faults' = IF file' = file \o held THEN faults ELSE faults + 1
  /\ UNCHANGED <<lock, pc, record, count, run, entered, reported>>

\* The process ends, killed or not, and the server is started again: the file is
\* opened for appending.
Restart ==
  /\ run < MaxRuns /\ run' = run + 1
  /\ held' = <<>> /\ open' = TRUE /\ lock' = None
  /\ pc' = [w \in Workers |-> "idle"] /\ record' = [w \in Workers |-> NoRecord]
  /\ UNCHANGED <<file, count, faults, entered, reported>>

Next ==
  \/ \E w \in Workers :
       \/ MakeLine(w) \/ FindClosed(w) \/ TakeLock(w) \/ WriteSome(w) \/ RoomMade(w)
       \/ ReturnTrue(w) \/ ReturnFalse(w)
  \/ Close \/ Restart

Spec == Init /\ [][Next]_vars

--------------------------------------------------------------------------------
(* Properties. *)

\* A record that _write reports as written is in the file, whatever failed before it
\* and whatever happens later: whole, and on a line of its own, unless it is the first
\* that a new process appends to a line that an earlier one left unfinished.
ReportedIsWritten ==
  \A r \in reported :
    \E i \in 1..Len(file) - 1 :
      /\ SubSeq(file, i, i + 1) = Line(r)
      /\ i > 1 => file[i - 1].ends \/ file[i - 1].record.run < r.run

\* Two threads' records never mix and none is written twice: the cells of the file are
\* in the order in which the records got the lock, and only the last record of a
\* process can be cut short.
Position(c) == 2 * (CHOOSE i \in DOMAIN entered : entered[i] = c.record)
                 + (IF c.ends THEN 1 ELSE 0)
RecordsInOrder ==
  \A i \in 1..Len(file) - 1 :
    /\ Position(file[i]) < Position(file[i + 1])
    /\ ~file[i].ends =>
         \/ file[i + 1].record = file[i].record
         \/ file[i + 1].record.run > file[i].record.run
================================================================================
