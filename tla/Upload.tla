--------------------------------- MODULE Upload ---------------------------------
(***************************************************************************)
(* One resumable upload: server/upload.py with the partial-file metadata   *)
(* (common/partial_transfer.py) and its expiry (server/cleanup.py), and    *)
(* client/upload.py on the other end of the connection, for one filename   *)
(* of one user.  The registry admits one session per username and the      *)
(* filename lock one request per file, so one server thread works on it.   *)
(* Every write the handler makes to the disk is a step of its own, so that *)
(* the server can die between any two of them.                             *)
(*                                                                         *)
(* A file is a sequence of blocks and a chunk carries one block.  SHA-256  *)
(* is taken to have no collisions: a digest is the sequence it was fed.    *)
(***************************************************************************)
EXTENDS Integers, Sequences, FiniteSets, FiniteSetsExt, Failures

CONSTANTS
  Versions,     \* what the source file on the client may contain
  None, Foreign, Corrupt,
  Window,       \* bound: frames the connection holds towards the server
  ReplyWindow,  \* bound: frames it holds towards the client
  MaxFaults,    \* bound: failures of the disk, the network, either process
  MaxEdits      \* bound: how often the source file changes

ASSUME UploadAssumption ==
  /\ Window \in Nat \ {0} /\ ReplyWindow \in Nat \ {0}
  /\ MaxFaults \in Nat /\ MaxEdits \in Nat

Blocks == {Hole} \cup UNION {{v[i] : i \in DOMAIN v} : v \in Versions}
Sizes == {Len(v) : v \in Versions}
Contents == UNION {[1..n -> Blocks] : n \in 0..Max(Sizes)}

\* There is a source file, and a limit to what it may grow to; no file is None.
ASSUME VersionsAssumption ==
  /\ \A v \in Versions : v \in Seq(Blocks)
  /\ \E longest \in Versions : \A v \in Versions : Len(v) <= Len(longest)
  /\ None \notin Contents

VARIABLES
  target, part, meta,  \* <name>, <name>.part, <name>.part.meta; None: absent
  linked,     \* target and part are two names of one file
  unsynced,   \* which of "target" and "part" the disk may still lose blocks of
  aged,       \* the partial files are older than partial_ttl_seconds
  spc,        \* where the server's thread is; "gone": no session, "down": no server
  resumeAt,   \* where it continues once the metadata is saved
  total, received, digest,   \* locals of handle_upload
  cpc, source, size, sent, hashed,  \* the client: its step, its file, its locals
  link,       \* "up", or "lost" when either end closed or the network failed
  up, down,   \* frames on their way to the server, to the client
  faults, edits,
  offered, confirmed  \* history: checksums sent, contents reported as uploaded

disk == <<target, part, meta, linked, unsynced, aged>>
server == <<spc, resumeAt, total, received, digest>>
client == <<cpc, source, size, sent, hashed, edits, offered, confirmed>>
wire == <<link, up, down>>
vars == <<disk, server, client, wire, faults>>

Init ==
  /\ target = None /\ part = None /\ meta = None
  /\ linked = FALSE /\ unsynced = {} /\ aged = FALSE
  /\ spc = "gone" /\ resumeAt = "idle"
  /\ total = 0 /\ received = 0 /\ digest = <<>>
  /\ cpc = "away" /\ source \in Versions
  /\ size = 0 /\ sent = 0 /\ hashed = <<>> /\ edits = 0
  /\ link = "lost" /\ up = <<>> /\ down = <<>>
  /\ faults = 0
  /\ offered = {} /\ confirmed = None

Request(n) == [op |-> "FILE_UPLOAD", size |-> n]
Chunk(n, b) == [op |-> "FILE_CHUNK", offset |-> n, data |-> b]
Checksum(n, d) == [op |-> "FILE_CHECKSUM", size |-> n, digest |-> d]
Ack(op, n) == [kind |-> "ACK", op |-> op, next |-> n]
Error(op, code) == [kind |-> "ERROR", op |-> op, code |-> code]

Fault(n) == faults + n <= MaxFaults /\ faults' = faults + n
Goto(where) == spc' = where

-------------------------------------------------------------------------------
(* The server's hands: the connection and the disk.                        *)

\* send() blocks while the connection is full.
Reply(r) ==
  /\ link = "up" => Len(down) < ReplyWindow
  /\ down' = IF link = "up" THEN Append(down, r) ELSE down
  /\ UNCHANGED link

\* Unlinking part and meta; either may fail, silently.
Wipe ==
  \E kept \in SUBSET {"part", "meta"} :
    /\ "part" \in kept => part # None
    /\ "meta" \in kept => meta # None
    /\ Fault(Cardinality(kept))
    /\ part' = IF "part" \in kept THEN part ELSE None
    /\ meta' = IF "meta" \in kept THEN meta ELSE None
    /\ linked' = (linked /\ "part" \in kept)
    /\ unsynced' = IF "part" \in kept THEN unsynced ELSE unsynced \ {"part"}
    /\ aged' = (aged /\ kept # {})
    /\ UNCHANGED <<target>>

\* Writing through part writes the file that target may also name.
WritePart(content) ==
  /\ part' = content
  /\ target' = IF linked THEN content ELSE target
  /\ unsynced' = unsynced \cup {"part"} \cup (IF linked THEN {"target"} ELSE {})
  /\ aged' = FALSE
  /\ UNCHANGED <<meta, linked>>

\* The thread leaves the session: close() and the end of _run_client.
SessionOver(where) ==
  /\ Goto(where) /\ resumeAt' = "idle"
  /\ total' = 0 /\ received' = 0 /\ digest' = <<>>
  /\ link' = "lost" /\ up' = <<>>

-------------------------------------------------------------------------------
(* handle_upload up to its first acknowledgement.                          *)

Begin ==
  /\ spc = "idle" /\ up # <<>> /\ Head(up).op = "FILE_UPLOAD"
  /\ up' = Tail(up)
  /\ \/ /\ target # None
        /\ Reply(Error("FILE_UPLOAD", "FILE_EXISTS"))
        /\ UNCHANGED <<spc, total>>
     \/ /\ target = None
        /\ Goto("expiring") /\ total' = Head(up).size
        /\ UNCHANGED <<link, down>>
  /\ UNCHANGED <<disk, resumeAt, received, digest, client, faults>>

\* _dispatch: a transfer frame that is not part of a transfer.
RejectStray ==
  /\ spc = "idle" /\ up # <<>> /\ Head(up).op # "FILE_UPLOAD"
  /\ up' = Tail(up)
  /\ Reply(Error(Head(up).op, "UNSUPPORTED_OPCODE"))
  /\ UNCHANGED <<disk, server, client, faults>>

\* cleanup_expired_partial_pair.
Expire ==
  /\ spc = "expiring"
  /\ IF aged THEN Wipe ELSE UNCHANGED <<disk, faults>>
  /\ Goto("examining")
  /\ UNCHANGED <<resumeAt, total, received, digest, client, wire>>

\* _valid_metadata_shape and _metadata_identity_matches.
Describes(m) == m \notin {None, Corrupt} /\ m.total = total /\ m.bytes <= total

Useless ==
  \/ (part = None) # (meta = None)
  \/ part # None /\ meta # None /\ ~Describes(meta)

Resumable ==
  /\ part # None /\ meta # None /\ ~Useless
  /\ Len(part) <= total /\ meta.bytes <= Len(part)

Start(n, d) == Goto("opening") /\ received' = n /\ digest' = d

\* Nothing to resume, or a partial file that is of no use and is discarded.
\* (The client never sends a start_offset, so a change of size discards.)
StartAfresh ==
  /\ spc = "examining" /\ (Useless \/ (part = None /\ meta = None))
  /\ Start(0, <<>>)
  /\ IF Useless THEN Wipe ELSE UNCHANGED <<disk, faults>>
  /\ UNCHANGED <<resumeAt, total, client, wire>>

Resume ==
  /\ spc = "examining" /\ Resumable
  /\ Start(meta.bytes, SubSeq(part, 1, meta.bytes))
  /\ UNCHANGED <<disk, faults, resumeAt, total, client, wire>>

\* Faulty variant: the inconsistent pair is reported but left in place.
RefuseInconsistentKeep ==
  /\ spc = "examining" /\ part # None /\ meta # None /\ ~Useless /\ ~Resumable
  /\ Reply(Error("FILE_UPLOAD", "RESUME_METADATA_MISMATCH"))
  /\ Goto("idle")
  /\ UNCHANGED <<disk, faults, resumeAt, total, received, digest, client, up>>
RefuseInconsistent ==
  /\ spc = "examining" /\ part # None /\ meta # None /\ ~Useless /\ ~Resumable
  /\ Wipe
  /\ Reply(Error("FILE_UPLOAD", "RESUME_METADATA_MISMATCH"))
  /\ Goto("idle")
  /\ UNCHANGED <<resumeAt, total, received, digest, client, up>>

\* stat, hashing the prefix or opening the partial file fails.
CannotOpen ==
  /\ spc \in {"examining", "opening"} /\ Fault(1)
  /\ Reply(Error("FILE_UPLOAD", "FILE_IO_ERROR"))
  /\ Goto("idle")
  /\ UNCHANGED <<disk, resumeAt, total, received, digest, client, up>>

\* Faulty variant: what lies beyond the resume offset is not cut off.
OpenKeepTail ==
  /\ spc = "opening"
  /\ WritePart(IF part = None THEN <<>> ELSE part)
  /\ Goto("saving") /\ resumeAt' = "acking"
  /\ UNCHANGED <<total, received, digest, client, wire, faults>>
Open ==
  /\ spc = "opening"
  /\ WritePart(IF part = None THEN <<>> ELSE SubSeq(part, 1, received))
  /\ Goto("saving") /\ resumeAt' = "acking"
  /\ UNCHANGED <<total, received, digest, client, wire, faults>>

\* save_part_metadata: a temporary file that replaces the metadata.
\* Faulty variant: counts a block more than was written.
SaveAhead ==
  /\ spc = "saving"
  /\ meta' = [total |-> total, bytes |-> received + 1]
  /\ aged' = FALSE
  /\ Goto(resumeAt)
  /\ UNCHANGED <<target, part, linked, unsynced, resumeAt, total, received,
                 digest, client, wire, faults>>
Save ==
  /\ spc = "saving"
  /\ meta' = [total |-> total, bytes |-> received]
  /\ aged' = FALSE
  /\ Goto(resumeAt)
  /\ UNCHANGED <<target, part, linked, unsynced, resumeAt, total, received,
                 digest, client, wire, faults>>

\* Its OSError is not caught by the handler: the session ends.
SaveFails ==
  /\ spc = "saving" /\ Fault(1)
  /\ SessionOver("gone")
  /\ UNCHANGED <<disk, client, down>>

Acknowledge ==
  /\ spc = "acking"
  /\ Reply(Ack("FILE_UPLOAD", received))
  /\ Goto("receiving")
  /\ UNCHANGED <<disk, resumeAt, total, received, digest, client, up, faults>>

-------------------------------------------------------------------------------
(* The chunks and the checksum.                                            *)

Verdict(f) ==
  IF f.op = "FILE_CHUNK" THEN
    IF f.offset # received THEN "OFFSET_MISMATCH"
    ELSE IF received + 1 > total THEN "SIZE_MISMATCH" ELSE "ok"
  ELSE IF f.op # "FILE_CHECKSUM" THEN "INVALID_STATE"
  ELSE IF received # total \/ f.size # total THEN "SIZE_MISMATCH"
  ELSE IF f.digest # digest THEN "CHECKSUM_MISMATCH" ELSE "ok"

Incoming(op) ==
  /\ spc = "receiving" /\ up # <<>>
  /\ Head(up).op = op /\ Verdict(Head(up)) = "ok"
  /\ up' = Tail(up)

\* The partial files are discarded, except after a wrong offset.
Refuse ==
  /\ spc = "receiving" /\ up # <<>> /\ Verdict(Head(up)) # "ok"
  /\ up' = Tail(up)
  /\ Reply(Error(Head(up).op, Verdict(Head(up))))
  /\ Goto(IF Verdict(Head(up)) = "OFFSET_MISMATCH" THEN "idle" ELSE "cleaning")
  /\ UNCHANGED <<disk, resumeAt, total, received, digest, client, faults>>

\* The file after a block is written at the current offset.
Written(block) ==
  SubSeq(part, 1, received) \o <<block>> \o SubSeq(part, received + 2, Len(part))

Write ==
  /\ Incoming("FILE_CHUNK")
  /\ WritePart(Written(Head(up).data))
  /\ digest' = Append(digest, Head(up).data)
  /\ received' = received + 1
  /\ Goto("saving") /\ resumeAt' = "receiving"
  /\ UNCHANGED <<total, client, link, down, faults>>

\* The write fails, before or after the block reached the file.
WriteFails ==
  /\ Incoming("FILE_CHUNK") /\ Fault(1)
  /\ \E content \in {part, Written(Head(up).data)} : WritePart(content)
  /\ Reply(Error("FILE_CHUNK", "FILE_IO_ERROR"))
  /\ Goto("idle")
  /\ UNCHANGED <<resumeAt, total, received, digest, client>>

\* Faulty variant: the file is published without fsync.
SyncSkipped ==
  /\ Incoming("FILE_CHECKSUM")
  /\ Goto("linking")
  /\ UNCHANGED <<disk, resumeAt, total, received, digest, client, link, down, faults>>
Sync ==
  /\ Incoming("FILE_CHECKSUM")
  /\ unsynced' = unsynced \ (IF linked THEN {"part", "target"} ELSE {"part"})
  /\ Goto("linking")
  /\ UNCHANGED <<target, part, meta, linked, aged, resumeAt, total, received,
                 digest, client, link, down, faults>>

SyncFails ==
  /\ Incoming("FILE_CHECKSUM") /\ Fault(1)
  /\ Reply(Error("FILE_CHECKSUM", "FILE_IO_ERROR"))
  /\ Goto("idle")
  /\ UNCHANGED <<disk, resumeAt, total, received, digest, client>>

-------------------------------------------------------------------------------
(* Publication.                                                            *)

Link ==
  /\ spc = "linking" /\ target = None
  /\ target' = part /\ linked' = TRUE
  /\ unsynced' = unsynced \cup (IF "part" \in unsynced THEN {"target"} ELSE {})
  /\ Goto("unlinking")
  /\ UNCHANGED <<part, meta, aged, resumeAt, total, received, digest, client,
                 wire, faults>>

LinkExists ==
  /\ spc = "linking" /\ target # None
  /\ Reply(Error("FILE_CHECKSUM", "FILE_EXISTS"))
  /\ Goto("cleaning")
  /\ UNCHANGED <<disk, resumeAt, total, received, digest, client, up, faults>>

LinkFails ==
  /\ spc = "linking" /\ target = None /\ Fault(1)
  /\ Reply(Error("FILE_CHECKSUM", "FILE_IO_ERROR"))
  /\ Goto("idle")
  /\ UNCHANGED <<disk, resumeAt, total, received, digest, client, up>>

Unlink ==
  /\ spc = "unlinking"
  /\ part' = None /\ linked' = FALSE /\ unsynced' = unsynced \ {"part"}
  /\ Goto("confirming")
  /\ UNCHANGED <<target, meta, aged, resumeAt, total, received, digest, client,
                 wire, faults>>

\* The publication is taken back, unless that fails too.
UnlinkFails ==
  /\ spc = "unlinking"
  /\ \/ /\ Fault(1)
        /\ target' = None /\ linked' = FALSE /\ unsynced' = unsynced \ {"target"}
     \/ Fault(2) /\ UNCHANGED <<target, linked, unsynced>>
  /\ Reply(Error("FILE_CHECKSUM", "FILE_IO_ERROR"))
  /\ Goto("idle")
  /\ UNCHANGED <<part, meta, aged, resumeAt, total, received, digest, client, up>>

Confirm ==
  /\ spc = "confirming"
  /\ \/ meta' = None /\ UNCHANGED faults
     \/ meta # None /\ Fault(1) /\ UNCHANGED meta
  /\ Reply(Ack("FILE_CHECKSUM", received))
  /\ Goto("cleaning")
  /\ UNCHANGED <<target, part, linked, unsynced, aged, resumeAt, total, received,
                 digest, client, up>>

\* The finally of handle_upload, after success or an unrecoverable error.
Clean ==
  /\ spc = "cleaning" /\ Wipe
  /\ Goto("idle")
  /\ UNCHANGED <<resumeAt, total, received, digest, client, wire>>

-------------------------------------------------------------------------------
(* The end of the session, and of the server.                              *)

EndSession ==
  /\ spc \in {"idle", "receiving"} /\ link = "lost"
  /\ SessionOver("gone")
  /\ UNCHANGED <<disk, client, down, faults>>

\* The process dies.
Crash ==
  /\ spc # "down" /\ Fault(1)
  /\ SessionOver("down")
  /\ UNCHANGED <<target, part, meta, linked, unsynced, aged, client, down>>

\* The machine dies.  Names survive, and so does what was synced.
PowerLoss ==
  /\ spc # "down" /\ Fault(1)
  /\ SessionOver("down")
  /\ part' \in IF "part" \in unsynced THEN Torn(part) ELSE {part}
  /\ target' \in IF linked THEN {part'}
                 ELSE IF "target" \in unsynced THEN Torn(target) ELSE {target}
  /\ meta' \in IF meta = None THEN {None} ELSE {meta, Corrupt}
  /\ unsynced' = {}
  /\ UNCHANGED <<linked, aged, client, down>>

\* serve_forever starts with cleanup_expired_partials.
Restart ==
  /\ spc = "down" /\ Goto("gone")
  /\ IF aged THEN Wipe ELSE UNCHANGED <<disk, faults>>
  /\ UNCHANGED <<resumeAt, total, received, digest, client, wire>>

-------------------------------------------------------------------------------
(* The client.                                                             *)

\* close(abort=True); what was sent may still arrive.
HangUp ==
  /\ cpc' = "away" /\ size' = 0 /\ sent' = 0 /\ hashed' = <<>>
  /\ link' = "lost" /\ up' \in Prefixes(up) /\ down' = <<>>

\* A new session, possible once the server released the previous one's username.
Connect ==
  /\ cpc = "away" /\ spc = "gone"
  /\ cpc' = "ready" /\ Goto("idle")
  /\ link' = "up" /\ up' = <<>> /\ down' = <<>>
  /\ UNCHANGED <<disk, resumeAt, total, received, digest, source, size, sent, hashed,
                 edits, offered, confirmed, faults>>

CanSend == link = "up" /\ Len(up) < Window

Ask ==
  /\ cpc = "ready" /\ CanSend
  /\ size' = Len(source)
  /\ up' = Append(up, Request(Len(source)))
  /\ cpc' = "asked"
  /\ UNCHANGED <<disk, server, source, sent, hashed, edits, offered, confirmed, link,
                 down, faults>>

\* The resume offset is acknowledged; the prefix below it is read and hashed.
\* Faulty variant: the acknowledged offset is ignored.
SeekStart ==
  /\ cpc = "asked" /\ down # <<>> /\ Head(down).kind = "ACK"
  /\ Head(down).op = "FILE_UPLOAD"
  /\ sent' = 0 /\ hashed' = <<>>
  /\ cpc' = "streaming" /\ down' = Tail(down)
  /\ UNCHANGED <<disk, server, source, size, edits, offered, confirmed, link, up, faults>>
Seek ==
  /\ cpc = "asked" /\ down # <<>> /\ Head(down).kind = "ACK"
  /\ Head(down).op = "FILE_UPLOAD"
  /\ Head(down).next <= size /\ Head(down).next <= Len(source)
  /\ sent' = Head(down).next
  /\ hashed' = SubSeq(source, 1, Head(down).next)
  /\ cpc' = "streaming" /\ down' = Tail(down)
  /\ UNCHANGED <<disk, server, source, size, edits, offered, confirmed, link, up, faults>>

SendChunk ==
  /\ cpc = "streaming" /\ CanSend
  /\ sent < Len(source) /\ sent < size
  /\ up' = Append(up, Chunk(sent, source[sent + 1]))
  /\ hashed' = Append(hashed, source[sent + 1])
  /\ sent' = sent + 1
  /\ UNCHANGED <<disk, server, cpc, source, size, edits, offered, confirmed, link, down,
                 faults>>

\* The source ended where it ended when it was opened.
SendChecksum ==
  /\ cpc = "streaming" /\ CanSend
  /\ Len(source) <= sent /\ sent = size
  /\ up' = Append(up, Checksum(sent, hashed))
  /\ offered' = offered \cup {hashed}
  /\ cpc' = "claimed"
  /\ UNCHANGED <<disk, server, source, size, sent, hashed, edits, confirmed, link, down,
                 faults>>

Succeed ==
  /\ cpc = "claimed" /\ down # <<>> /\ Head(down).kind = "ACK"
  /\ Head(down).op = "FILE_CHECKSUM" /\ Head(down).next = sent
  /\ confirmed' = hashed
  /\ cpc' = "ready" /\ down' = Tail(down)
  /\ size' = 0 /\ sent' = 0 /\ hashed' = <<>>
  /\ UNCHANGED <<disk, server, source, edits, offered, link, up, faults>>

Expected == IF cpc = "asked" THEN "FILE_UPLOAD" ELSE "FILE_CHECKSUM"

\* An error about the frame it waits for: the session stays usable.
Fail ==
  /\ cpc \in {"asked", "claimed"} /\ down # <<>> /\ Head(down).kind = "ERROR"
  /\ Head(down).op = Expected
  /\ cpc' = "ready" /\ down' = Tail(down)
  /\ size' = 0 /\ sent' = 0 /\ hashed' = <<>>
  /\ UNCHANGED <<disk, server, source, edits, offered, confirmed, link, up, faults>>

\* The client gives the connection up: the source changed under its hands, the
\* reply is about another frame, or the connection is gone.
GiveUp ==
  /\ cpc # "away"
  /\ \/ cpc = "streaming" /\ sent < Len(source) /\ sent = size
     \/ cpc = "streaming" /\ Len(source) <= sent /\ sent # size
     \/ /\ cpc = "asked" /\ down # <<>> /\ Head(down).kind = "ACK"
        /\ Head(down).next > Len(source)
     \/ cpc = "claimed" /\ down # <<>> /\ Head(down).op # Expected
     \/ link = "lost" /\ (down = <<>> \/ cpc = "streaming")
  /\ HangUp
  /\ UNCHANGED <<disk, server, source, edits, offered, confirmed, faults>>

-------------------------------------------------------------------------------
(* The surroundings.                                                       *)

\* The user cancels or the client dies.
Abandon ==
  /\ cpc # "away" /\ Fault(1) /\ HangUp
  /\ UNCHANGED <<disk, server, source, edits, offered, confirmed>>

LoseConnection ==
  /\ link = "up" /\ Fault(1)
  /\ link' = "lost"
  /\ up' \in Prefixes(up) /\ down' \in Prefixes(down)
  /\ UNCHANGED <<disk, server, client>>

\* The source file is edited, or another one is chosen.
Edit ==
  /\ edits < MaxEdits /\ edits' = edits + 1
  /\ source' \in Versions \ {source}
  /\ UNCHANGED <<disk, server, cpc, size, sent, hashed, offered, confirmed, wire, faults>>

\* Somebody puts a file under the name, past the server.
Intrude ==
  /\ target = None /\ Fault(1)
  /\ target' = Foreign
  /\ UNCHANGED <<part, meta, linked, unsynced, aged, server, client, wire>>

\* partial_ttl_seconds pass without a write to the partial files.
Age ==
  /\ spc \in {"gone", "down", "idle", "receiving"}
  /\ ~aged /\ (part # None \/ meta # None)
  /\ aged' = TRUE
  /\ UNCHANGED <<target, part, meta, linked, unsynced, server, client, wire, faults>>

-------------------------------------------------------------------------------
ServerStep ==
  \/ Begin \/ RejectStray \/ Expire \/ StartAfresh \/ Resume \/ RefuseInconsistent
  \/ Open \/ Save \/ Acknowledge \/ Refuse \/ Write \/ Sync
  \/ Link \/ LinkExists \/ Unlink \/ Confirm \/ Clean \/ EndSession \/ Restart

ClientStep ==
  \/ Connect \/ Ask \/ Seek \/ SendChunk \/ SendChecksum \/ Succeed \/ Fail \/ GiveUp

Failure ==
  \/ CannotOpen \/ SaveFails \/ WriteFails \/ SyncFails \/ LinkFails \/ UnlinkFails
  \/ Crash \/ PowerLoss \/ Abandon \/ LoseConnection \/ Intrude

Next == ServerStep \/ ClientStep \/ Failure \/ Edit \/ Age

Spec == Init /\ [][Next]_vars

\* The server's thread is scheduled, and a user keeps trying.
FairSpec == Spec /\ WF_vars(ServerStep) /\ WF_vars(ClientStep)

-------------------------------------------------------------------------------
FileType == Contents \cup {None}
MetaType == [total : 0..Max(Sizes), bytes : 0..Max(Sizes)] \cup {None, Corrupt}

\* Every variable stays within its type; in particular no metadata ever counts
\* more bytes than the upload it belongs to, and the queues keep their bounds.
TypeOK ==
  /\ target \in FileType \cup {Foreign} /\ part \in FileType /\ meta \in MetaType
  /\ meta \notin {None, Corrupt} => meta.bytes <= meta.total
  /\ {linked, aged} \subseteq BOOLEAN /\ unsynced \subseteq {"target", "part"}
  /\ spc \in {"down", "gone", "idle", "expiring", "examining", "opening", "saving",
              "acking", "receiving", "linking", "unlinking", "confirming", "cleaning"}
  /\ resumeAt \in {"idle", "acking", "receiving"}
  /\ total \in Sizes \cup {0} /\ received \in 0..Max(Sizes) /\ digest \in Contents
  /\ cpc \in {"away", "ready", "asked", "streaming", "claimed"}
  /\ source \in Versions /\ size \in Sizes \cup {0} /\ sent \in 0..Max(Sizes)
  /\ hashed \in Contents /\ edits \in 0..MaxEdits
  /\ link \in {"up", "lost"} /\ Len(up) <= Window /\ Len(down) <= ReplyWindow
  /\ faults \in 0..MaxFaults
  /\ offered \subseteq Contents /\ confirmed \in FileType

\* While an upload is in progress, what the server has hashed is exactly what
\* the partial file contains, however often it was interrupted, resumed, torn
\* or only half written before: the digest speaks for the file published.
DigestMatchesDisk ==
  spc \in {"saving", "acking", "receiving", "linking"} =>
    /\ Len(digest) = received /\ received <= total
    /\ part = digest

\* The chunks under way continue where the server stands and end where the client
\* stands: the code never gives its own client an OFFSET_MISMATCH.  And a client that
\* may start its next request over a live session has nothing under way in either
\* direction: no reply to an old frame can be mistaken for a reply to a new one.
InStep ==
  LET chunks == {i \in DOMAIN up : up[i].op = "FILE_CHUNK"}
      transferring == cpc \in {"streaming", "claimed"} /\ spc \in {"saving", "receiving", "linking"}
  IN link = "up" =>
       /\ transferring => received + Cardinality(chunks) = sent
       /\ cpc = "ready" => up = <<>> /\ down = <<>> /\ spc \in {"idle", "cleaning"}

Storage == INSTANCE Publication WITH published <- target

\* The destination is published once and whole, from contents a client vouched
\* for, survives every failure once a client was told, and is never replaced.
ImplementsPublication == Storage!Spec

\* When failures and edits stop, a user who retries gets the file published,
\* or finds the name taken, whatever the failures left on the disk.
RetriesPublish == <>(target # None)

\* A client whose chunk the server could not store leaves that transfer.
FailureEndsTransfer ==
  (\E i \in DOMAIN down : down[i] = Error("FILE_CHUNK", "FILE_IO_ERROR"))
    ~> (cpc \in {"away", "ready"})
================================================================================
