-------------------------------- MODULE Download --------------------------------
(***************************************************************************)
(* One resumable download: client/download.py with its partial file, and   *)
(* server/download.py on the other end of the connection, for one filename *)
(* of one user and one destination on the client.  The server's file may   *)
(* change in place while it is read, as both ends expect it might.         *)
(*                                                                         *)
(* A file is a sequence of blocks and a chunk carries one block.  SHA-256  *)
(* is taken to have no collisions: a digest is the sequence it was fed.    *)
(***************************************************************************)
EXTENDS Integers, Sequences, FiniteSets, FiniteSetsExt, Failures

CONSTANTS
  Versions,     \* what the file on the server may contain
  None, Foreign,
  Window,       \* bound: frames the connection holds, each way
  MaxFaults,    \* bound: failures of the disk, the network, either process
  MaxEdits      \* bound: how often the file on the server changes

ASSUME DownloadAssumption ==
  Window \in Nat \ {0} /\ MaxFaults \in Nat /\ MaxEdits \in Nat

Blocks == {Hole} \cup UNION {{v[i] : i \in DOMAIN v} : v \in Versions}
Sizes == {Len(v) : v \in Versions}
Contents == UNION {[1..n -> Blocks] : n \in 0..Max(Sizes)}

\* There is a file, and a limit to what it may grow to; no file is None.
ASSUME VersionsAssumption ==
  /\ \A v \in Versions : v \in Seq(Blocks)
  /\ \E longest \in Versions : \A v \in Versions : Len(v) <= Len(longest)
  /\ None \notin Seq(Blocks)

VARIABLES
  remote,      \* the file on the server
  spc,         \* where the server's thread is; "gone": there is no session
  offset, total, sent, hashed,  \* its locals; hashed: what the digest was fed
  final, part, \* the destination and <destination>.part; None: absent
  linked,      \* final and part are two names of one file
  unsynced,    \* the disk may still lose blocks of part
  flushed,     \* the blocks of part that are not in the output's buffer
  cpc,         \* where the client is
  resume, size, received, digest,  \* its locals
  astray,      \* history: the client refused a chunk and kept this session
  untold,      \* history: the last request ended without a word to a server that waits
  link,        \* "up", or "lost" when either end closed or the network failed
  up, down,    \* frames on their way to the server, to the client
  faults, edits,
  offered, confirmed  \* history: digests sent, contents whose ACK the server got

server == <<spc, offset, total, sent, hashed, offered, confirmed>>
disk == <<final, part, linked, unsynced, flushed>>
client == <<cpc, resume, size, received, digest, astray, untold>>
wire == <<link, up, down>>
vars == <<remote, server, disk, client, wire, faults, edits>>

Init ==
  /\ remote \in Versions
  /\ spc = "gone" /\ offset = 0 /\ total = 0 /\ sent = 0 /\ hashed = <<>>
  /\ final = None /\ part = None /\ linked = FALSE /\ unsynced = FALSE /\ flushed = 0
  /\ cpc = "away" /\ resume = 0 /\ size = 0 /\ received = 0 /\ digest = <<>>
  /\ astray = FALSE /\ untold = FALSE
  /\ link = "lost" /\ up = <<>> /\ down = <<>>
  /\ faults = 0 /\ edits = 0
  /\ offered = {} /\ confirmed = None

Request(n) == [op |-> "FILE_DOWNLOAD", next |-> n]
Info(n, start) == [op |-> "FILE_INFO", total |-> n, start |-> start]
Chunk(n, b) == [op |-> "FILE_CHUNK", offset |-> n, data |-> b]
Checksum(n, d) == [op |-> "FILE_CHECKSUM", size |-> n, digest |-> d]
Ack(op, n) == [op |-> "ACK", of |-> op, next |-> n]
Error(op) == [op |-> "ERROR", of |-> op]

Fault == faults < MaxFaults /\ faults' = faults + 1
Goto(where) == spc' = where

-------------------------------------------------------------------------------
(* The server.                                                             *)

\* send() blocks while the connection is full.
Reply(r) ==
  /\ link = "up" => Len(down) < Window
  /\ down' = IF link = "up" THEN Append(down, r) ELSE down
  /\ UNCHANGED link

Serves(op) == spc = "idle" /\ up # <<>> /\ Head(up).op = op /\ up' = Tail(up)

Inform ==
  /\ Serves("FILE_DOWNLOAD") /\ Head(up).next <= Len(remote)
  /\ offset' = Head(up).next /\ total' = Len(remote)
  /\ Reply(Info(Len(remote), Head(up).next))
  /\ Goto("informing")
  /\ UNCHANGED <<remote, sent, hashed, offered, confirmed, disk, client, faults, edits>>

\* More is asked to be skipped than there is, or the file cannot be opened.
Decline ==
  /\ Serves("FILE_DOWNLOAD")
  /\ \/ Head(up).next > Len(remote) /\ UNCHANGED faults
     \/ Fault
  /\ Reply(Error("FILE_DOWNLOAD"))
  /\ UNCHANGED <<remote, server, disk, client, edits>>

\* _dispatch: a transfer frame that is not part of a transfer.
RejectStray ==
  /\ \E op \in {"ACK", "ERROR"} : Serves(op) /\ Reply(Error(op))
  /\ UNCHANGED <<remote, server, disk, client, faults, edits>>

Awaited == IF spc = "informing" THEN Ack("FILE_INFO", offset)
                                ELSE Ack("FILE_CHECKSUM", total)

ReceivesAck(where) ==
  /\ spc = where /\ up # <<>> /\ Head(up) = Awaited /\ up' = Tail(up)

\* Any other reply ends the transfer, with an ERROR unless it is one itself.
BadReply ==
  /\ spc \in {"informing", "claiming"} /\ up # <<>> /\ Head(up) # Awaited
  /\ up' = Tail(up)
  /\ IF Head(up).op = "ERROR" THEN UNCHANGED <<link, down>>
                              ELSE Reply(Error(Awaited.of))
  /\ Goto("idle")
  /\ UNCHANGED <<remote, offset, total, sent, hashed, offered, confirmed, disk, client,
                 faults, edits>>

BeginHash ==
  /\ ReceivesAck("informing")
  /\ hashed' = <<>>
  /\ Goto("hashing")
  /\ UNCHANGED <<remote, offset, total, sent, offered, confirmed, disk, client, link,
                 down, faults, edits>>

HashBlock ==
  /\ spc = "hashing" /\ Len(hashed) < Len(remote)
  /\ hashed' = Append(hashed, remote[Len(hashed) + 1])
  /\ UNCHANGED <<remote, spc, offset, total, sent, offered, confirmed, disk, client,
                 wire, faults, edits>>

\* The whole file is hashed; sending starts at the offset.
Seek ==
  /\ spc = "hashing" /\ Len(hashed) >= Len(remote)
  /\ sent' = offset
  /\ Goto("streaming")
  /\ UNCHANGED <<remote, offset, total, hashed, offered, confirmed, disk, client, wire,
                 faults, edits>>

SendChunk ==
  /\ spc = "streaming" /\ sent < Len(remote) /\ link = "up"
  /\ Reply(Chunk(sent, remote[sent + 1]))
  /\ sent' = sent + 1
  /\ UNCHANGED <<remote, spc, offset, total, hashed, offered, confirmed, disk, client,
                 up, faults, edits>>

\* The file ended elsewhere than when it was opened.
SizeChanged ==
  /\ spc = "streaming" /\ sent >= Len(remote) /\ sent # total /\ link = "up"
  /\ Reply(Error("FILE_CHECKSUM"))
  /\ Goto("idle")
  /\ UNCHANGED <<remote, offset, total, sent, hashed, offered, confirmed, disk, client,
                 up, faults, edits>>

SendChecksum ==
  /\ spc = "streaming" /\ sent >= Len(remote) /\ sent = total /\ link = "up"
  /\ Reply(Checksum(total, hashed))
  /\ offered' = offered \cup {hashed}
  /\ Goto("claiming")
  /\ UNCHANGED <<remote, offset, total, sent, hashed, confirmed, disk, client, up,
                 faults, edits>>

\* The result the session logs as a success.
Complete ==
  /\ ReceivesAck("claiming")
  /\ confirmed' = hashed
  /\ Goto("idle")
  /\ UNCHANGED <<remote, offset, total, sent, hashed, offered, disk, client, link, down,
                 faults, edits>>

SessionOver ==
  /\ Goto("gone") /\ offset' = 0 /\ total' = 0 /\ sent' = 0 /\ hashed' = <<>>
  /\ link' = "lost" /\ up' = <<>>

\* The handler of a failed read raises, on its way to report it.
ReadFails ==
  /\ spc \in {"hashing", "streaming"} /\ Fault
  /\ SessionOver
  /\ UNCHANGED <<remote, offered, confirmed, disk, client, down, edits>>

EndSession ==
  /\ link = "lost"
  /\ \/ spc \in {"idle", "informing", "claiming"} /\ up = <<>>
     \/ spc = "streaming"
  /\ SessionOver
  /\ UNCHANGED <<remote, offered, confirmed, disk, client, down, faults, edits>>

-------------------------------------------------------------------------------
(* The client.                                                             *)

CanSend == link = "up" /\ Len(up) < Window
Say(f) == CanSend /\ up' = Append(up, f) /\ UNCHANGED link

Forget == size' = 0 /\ resume' = 0 /\ received' = 0 /\ digest' = <<>>

\* close(abort=True); what was sent may still arrive.
HangUp ==
  /\ cpc' = "away" /\ Forget /\ UNCHANGED <<astray, untold>>
  /\ link' = "lost" /\ up' \in Prefixes(up) /\ down' = <<>>

\* The end of the "with output" block writes what is still buffered.
CloseOutput == flushed' = IF part = None THEN 0 ELSE Len(part)
DiskKept == UNCHANGED <<final, part, linked, unsynced>> /\ CloseOutput

Connect ==
  /\ cpc = "away" /\ spc = "gone"
  /\ cpc' = "ready" /\ Goto("idle")
  /\ link' = "up" /\ up' = <<>> /\ down' = <<>>
  /\ astray' = FALSE /\ untold' = FALSE
  /\ UNCHANGED <<remote, offset, total, sent, hashed, offered, confirmed, disk, resume,
                 size, received, digest, faults, edits>>

\* The user disconnects between two requests.
Leave ==
  /\ cpc = "ready" /\ HangUp
  /\ UNCHANGED <<remote, server, disk, faults, edits>>

\* An existing destination is refused before anything else happens.
Ask ==
  /\ cpc = "ready" /\ final = None
  /\ resume' = IF part = None THEN 0 ELSE Len(part)
  /\ Say(Request(resume'))
  /\ cpc' = "asked" /\ untold' = FALSE
  /\ UNCHANGED <<remote, server, disk, size, received, digest, astray, down, faults,
                 edits>>

Gets(op, where) ==
  cpc = where /\ down # <<>> /\ Head(down).op = op /\ down' = Tail(down)

RemovePart == part' = None /\ linked' = FALSE /\ unsynced' = FALSE /\ flushed' = 0

\* A partial file from elsewhere is dropped if the server starts at 0; otherwise what
\* is to be skipped is read, for the digest.
Stale(start) == part # None /\ start # resume /\ start = 0
Resumable(start) == part # None /\ start > 0
Existing(start) == IF part = None \/ Stale(start) THEN <<>> ELSE part

\* Faulty variant: the partial file is opened for writing instead of appending.
AcceptTruncating ==
  /\ Gets("FILE_INFO", "asked")
  /\ LET start == Head(down).start IN
       /\ size' = Head(down).total /\ received' = start
       /\ part' = <<>> /\ flushed' = 0
       /\ digest' = SubSeq(Existing(start), 1, Min({start, Len(Existing(start))}))
       /\ Say(Ack("FILE_INFO", start))
  /\ cpc' = "receiving"
  /\ UNCHANGED <<remote, server, final, linked, unsynced, resume, astray, untold,
                 faults, edits>>
Accept ==
  /\ Gets("FILE_INFO", "asked")
  /\ LET start == Head(down).start IN
       /\ size' = Head(down).total /\ received' = start
       /\ part' = Existing(start) /\ flushed' = Len(part')
       /\ digest' = SubSeq(part', 1, Min({start, Len(part')}))
       /\ Say(Ack("FILE_INFO", start))
  /\ cpc' = "receiving"
  /\ UNCHANGED <<remote, server, final, linked, unsynced, resume, astray, untold,
                 faults, edits>>

\* The directory or the partial file cannot be used, after a stale one was dropped; or
\* the blocks to skip cannot be read, and the partial file is removed.
CannotOpen ==
  /\ Gets("FILE_INFO", "asked") /\ Fault
  /\ LET start == Head(down).start IN
       \/ ~Stale(start) /\ UNCHANGED <<part, linked, unsynced, flushed>>
       \/ (Stale(start) \/ Resumable(start)) /\ RemovePart
  /\ Say(Error("FILE_INFO"))
  /\ cpc' = "discarding"
  /\ UNCHANGED <<remote, server, final, resume, size, received, digest, astray, untold,
                 edits>>

\* _remove_stale_part raises before anything is said to the server: it could not drop
\* a stale partial file, or failed after the read it should clean up after.
CannotRemove ==
  /\ Gets("FILE_INFO", "asked")
  /\ LET start == Head(down).start IN
       /\ Stale(start) \/ Resumable(start)
       /\ faults' = faults + (IF Stale(start) THEN 1 ELSE 2) /\ faults' <= MaxFaults
  /\ cpc' = "discarding" /\ untold' = TRUE
  /\ UNCHANGED <<remote, server, disk, resume, size, received, digest, astray, link, up,
                 edits>>

\* Faulty variant: chunks beyond the announced size are stored.
StoreAny ==
  /\ Gets("FILE_CHUNK", "receiving") /\ Head(down).offset = received
  /\ part' = Append(part, Head(down).data) /\ unsynced' = TRUE
  /\ digest' = Append(digest, Head(down).data)
  /\ received' = received + 1
  /\ UNCHANGED <<remote, server, final, linked, flushed, cpc, resume, size, astray,
                 untold, link, up, faults, edits>>
Store ==
  /\ Gets("FILE_CHUNK", "receiving")
  /\ Head(down).offset = received /\ received + 1 <= size
  /\ part' = Append(part, Head(down).data) /\ unsynced' = TRUE
  /\ digest' = Append(digest, Head(down).data)
  /\ received' = received + 1
  /\ UNCHANGED <<remote, server, final, linked, flushed, cpc, resume, size, astray,
                 untold, link, up, faults, edits>>

\* The server is told, and goes on sending nonetheless.
RefuseChunk ==
  /\ Gets("FILE_CHUNK", "receiving")
  /\ Head(down).offset # received \/ received + 1 > size
  /\ Say(Error("FILE_CHUNK"))
  /\ DiskKept
  /\ cpc' = "discarding" /\ astray' = TRUE
  /\ UNCHANGED <<remote, server, resume, size, received, digest, untold, faults, edits>>

\* A failed write is reported and ends the session.
StoreFails ==
  /\ cpc = "receiving" /\ down # <<>> /\ Head(down).op = "FILE_CHUNK" /\ Fault
  /\ part' \in PrefixesFrom(flushed, part) /\ flushed' = Len(part')
  /\ cpc' = "away" /\ Forget /\ UNCHANGED <<astray, untold>>
  /\ link = "up" => CanSend
  /\ up' \in Prefixes(IF link = "up" THEN Append(up, Error("FILE_CHUNK")) ELSE up)
  /\ link' = "lost" /\ down' = <<>>
  /\ UNCHANGED <<remote, server, final, linked, unsynced, edits>>

Vouched(f) == f.size = size /\ received = size /\ f.digest = digest

Flush ==
  /\ Gets("FILE_CHECKSUM", "receiving") /\ Vouched(Head(down))
  /\ flushed' = Len(part)
  /\ cpc' = "syncing"
  /\ UNCHANGED <<remote, server, final, part, linked, unsynced, resume, size, received,
                 digest, astray, untold, link, up, faults, edits>>

\* output.flush() is outside the try: its OSError leaves download_file as it is,
\* and the server goes on waiting for the reply to its checksum.
FlushFails ==
  /\ Gets("FILE_CHECKSUM", "receiving") /\ Vouched(Head(down)) /\ Fault
  /\ part' \in PrefixesFrom(flushed, part) /\ flushed' = Len(part')
  /\ cpc' = "ready" /\ untold' = TRUE /\ Forget
  /\ UNCHANGED <<remote, server, final, linked, unsynced, astray, link, up, edits>>

RefuseChecksum ==
  /\ Gets("FILE_CHECKSUM", "receiving") /\ ~Vouched(Head(down))
  /\ Say(Error("FILE_CHECKSUM"))
  /\ DiskKept
  /\ cpc' = "discarding"
  /\ UNCHANGED <<remote, server, resume, size, received, digest, astray, untold, faults,
                 edits>>

\* An ERROR of the server, or a frame that has no place here.
Reject ==
  /\ \/ \E where \in {"asked", "receiving"} : Gets("ERROR", where) /\ UNCHANGED <<link, up>>
     \/ \E op \in {"FILE_CHUNK", "FILE_CHECKSUM"} :
          Gets(op, "asked") /\ UNCHANGED <<link, up>>
     \/ Gets("FILE_INFO", "receiving") /\ Say(Error("FILE_INFO"))
  /\ DiskKept
  /\ cpc' = "discarding"
  /\ UNCHANGED <<remote, server, resume, size, received, digest, astray, untold, faults,
                 edits>>

\* Faulty variant: the file is published without fsync.
SyncSkipped ==
  /\ cpc = "syncing" /\ cpc' = "linking"
  /\ UNCHANGED <<remote, server, disk, resume, size, received, digest, astray, untold,
                 wire, faults, edits>>
Sync ==
  /\ cpc = "syncing" /\ cpc' = "linking"
  /\ unsynced' = FALSE
  /\ UNCHANGED <<remote, server, final, part, linked, flushed, resume, size, received,
                 digest, astray, untold, wire, faults, edits>>

\* fsync, link or unlink fails.
LocalFailure ==
  \/ cpc \in {"syncing", "unlinking"} /\ Fault
  \/ cpc = "linking" /\ final = None /\ Fault
  \/ cpc = "linking" /\ final # None /\ UNCHANGED faults

\* Faulty variant: the server is not told.
FailSilently ==
  /\ LocalFailure
  /\ cpc' = "discarding"
  /\ UNCHANGED <<remote, server, disk, resume, size, received, digest, astray, untold,
                 wire, edits>>
Fail ==
  /\ LocalFailure
  /\ Say(Error("FILE_CHECKSUM"))
  /\ cpc' = "discarding"
  /\ UNCHANGED <<remote, server, disk, resume, size, received, digest, astray, untold,
                 down, edits>>

Link ==
  /\ cpc = "linking" /\ final = None
  /\ final' = part /\ linked' = TRUE
  /\ cpc' = "unlinking"
  /\ UNCHANGED <<remote, server, part, unsynced, flushed, resume, size, received,
                 digest, astray, untold, wire, faults, edits>>

Unlink ==
  /\ cpc = "unlinking" /\ RemovePart
  /\ cpc' = "confirming"
  /\ UNCHANGED <<remote, server, final, resume, size, received, digest, astray, untold,
                 wire, faults, edits>>

Confirm ==
  /\ cpc = "confirming"
  /\ Say(Ack("FILE_CHECKSUM", received))
  /\ cpc' = "ready" /\ Forget
  /\ UNCHANGED <<remote, server, disk, astray, untold, down, faults, edits>>

\* "except ProtocolError": the partial file goes, unless that fails too.
\* Faulty variant: it stays.
KeepPart ==
  /\ cpc = "discarding"
  /\ UNCHANGED <<disk, faults>>
  /\ cpc' = "ready" /\ Forget
  /\ UNCHANGED <<remote, server, astray, untold, wire, edits>>
Discard ==
  /\ cpc = "discarding"
  /\ \/ RemovePart /\ UNCHANGED <<final, faults>>
     \/ Fault /\ UNCHANGED disk
  /\ cpc' = "ready" /\ Forget
  /\ UNCHANGED <<remote, server, astray, untold, wire, edits>>

\* Sending or receiving fails: the session is closed, the partial file kept.
LoseSession ==
  /\ link = "lost"
  /\ \/ cpc \in {"ready", "asked", "receiving", "confirming"} /\ UNCHANGED faults
     \/ LocalFailure
  /\ HangUp /\ DiskKept
  /\ UNCHANGED <<remote, server, edits>>

-------------------------------------------------------------------------------
(* The surroundings.                                                       *)

\* The user cancels, which closes the session under the download.
Cancel ==
  /\ cpc \in {"asked", "receiving"} /\ Fault
  /\ HangUp /\ DiskKept
  /\ UNCHANGED <<remote, server, edits>>

\* The client's process dies, and with it what it had not written yet.
Crash ==
  /\ cpc # "away" /\ Fault
  /\ HangUp
  /\ part' \in IF part = None THEN {None} ELSE PrefixesFrom(flushed, part)
  /\ flushed' = IF part' = None THEN 0 ELSE Len(part')
  /\ UNCHANGED <<remote, server, final, linked, unsynced, edits>>

\* The client's machine dies.  Names survive, and so does what was synced.
PowerLoss ==
  /\ Fault
  /\ HangUp
  /\ part' \in IF unsynced THEN Torn(part) ELSE {part}
  /\ final' = IF linked THEN part' ELSE final
  /\ flushed' = IF part' = None THEN 0 ELSE Len(part')
  /\ unsynced' = FALSE
  /\ UNCHANGED <<remote, server, linked, edits>>

LoseConnection ==
  /\ link = "up" /\ Fault
  /\ link' = "lost" /\ up' \in Prefixes(up) /\ down' \in Prefixes(down)
  /\ UNCHANGED <<remote, server, disk, client, edits>>

\* The file on the server is changed in place, past the server.
Edit ==
  /\ edits < MaxEdits /\ edits' = edits + 1
  /\ remote' \in Versions \ {remote}
  /\ UNCHANGED <<server, disk, client, wire, faults>>

\* Somebody else makes the destination.
Intrude ==
  /\ final = None /\ Fault
  /\ final' = Foreign
  /\ UNCHANGED <<remote, server, part, linked, unsynced, flushed, client, wire, edits>>

-------------------------------------------------------------------------------
ServerStep ==
  \/ Inform \/ Decline \/ RejectStray \/ BadReply \/ BeginHash \/ HashBlock \/ Seek
  \/ SendChunk \/ SizeChanged \/ SendChecksum \/ Complete \/ EndSession

ClientStep ==
  \/ Connect \/ Ask \/ Accept \/ Store \/ RefuseChunk \/ Flush \/ RefuseChecksum
  \/ Reject \/ Sync \/ Link \/ Unlink \/ Confirm \/ Fail \/ Discard \/ LoseSession

Failure ==
  \/ ReadFails \/ CannotOpen \/ CannotRemove \/ StoreFails \/ FlushFails
  \/ Cancel \/ Crash \/ PowerLoss \/ LoseConnection \/ Intrude

Next == ServerStep \/ ClientStep \/ Failure \/ Leave \/ Edit

Spec == Init /\ [][Next]_vars

\* Both threads are scheduled, and a user keeps asking and now and then, between
\* two requests, connects anew.
FairSpec ==
  /\ Spec
  /\ WF_vars(ServerStep) /\ WF_vars(ClientStep)
  /\ SF_vars(Ask) /\ SF_vars(Leave)

-------------------------------------------------------------------------------
\* A client that has gone astray may append to more than its digest covers.
FileType == Seq(Blocks) \cup {None}

\* Every variable stays within its type; no client takes more of a file than it was
\* announced, and the queues keep their bounds.
TypeOK ==
  /\ remote \in Versions
  /\ spc \in {"gone", "idle", "informing", "hashing", "streaming", "claiming"}
  /\ {offset, total, sent} \subseteq 0..Max(Sizes) /\ hashed \in Contents
  /\ final \in FileType \cup {Foreign} /\ part \in FileType
  /\ {linked, unsynced, astray, untold} \subseteq BOOLEAN
  /\ cpc \in {"away", "ready", "asked", "receiving", "syncing", "linking", "unlinking",
              "confirming", "discarding"}
  /\ {size, received} \subseteq 0..Max(Sizes) /\ {resume, flushed} \subseteq Nat
  /\ received <= size /\ digest \in Contents
  /\ link \in {"up", "lost"} /\ Len(up) <= Window /\ Len(down) <= Window
  /\ faults \in 0..MaxFaults /\ edits \in 0..MaxEdits
  /\ offered \subseteq Contents /\ confirmed \in FileType

\* What the client has verified against the server's checksum is what its partial
\* file contains, whatever that file held before and however it was resumed, unless it
\* takes leftovers of a transfer that it refused for replies.
DigestMatchesPart ==
  ~astray /\ cpc \in {"syncing", "linking", "unlinking"} => part = digest /\ Len(part) = size

\* A client between two requests has nothing to read, and the server is idle or about
\* to be: all it is still to read is the reply that ends the transfer.  Only where a
\* failure kept the client from sending that does the server wait on, to answer the
\* client's next request with an ERROR.
Settled ==
  /\ down = <<>>
  /\ \/ spc = "idle" /\ up = <<>>
     \/ /\ spc \in {"informing", "claiming"} /\ Len(up) = 1
        /\ up[1] = Awaited \/ up[1].op = "ERROR"
     \/ untold /\ spc \in {"informing", "claiming"} /\ up = <<>>

\* After every failure, unless the client refuses a chunk and stays, the chunks under way
\* continue what the client has and end where the server is, so that resuming neither
\* repeats nor skips a block; and a client that may start its next request over a live
\* session finds no reply but its own there.
InStep ==
  LET chunks == {i \in DOMAIN down : down[i].op = "FILE_CHUNK"}
      transferring == cpc = "receiving" /\ spc \in {"streaming", "claiming"}
  IN link = "up" /\ ~astray =>
       /\ transferring => received + Cardinality(chunks) = sent
       /\ cpc = "ready" => Settled

Storage == INSTANCE Publication WITH published <- final

\* In a session that has gone astray the destination is still never replaced.
NeverReplaced == final = None \/ final' = final

\* The destination is published once and whole, with contents whose digest the server
\* sent; it is never replaced; and what the server logs as a success is there for good.
\* Only a client that has left a transfer the server is still in may break that.
ImplementsPublication ==
  Storage!Init /\ [][Storage!Next \/ (astray /\ NeverReplaced)]_Storage!pubVars

\* When failures and edits stop, a user who retries gets the file, or finds the
\* destination taken, whatever the failures left in the partial file.
RetriesPublish == <>(final # None)
================================================================================
