------------------------------ MODULE UploadProofs ------------------------------
(***************************************************************************)
(* Proofs about Upload for any set of versions of the source file, any     *)
(* size of the connection and any number of failures and edits.            *)
(***************************************************************************)
EXTENDS Upload, FiniteSetTheorems, SequenceTheorems, TLAPS

MaxSize == Max(Sizes)

-------------------------------------------------------------------------------
(* Sizes, contents and sequences.                                          *)

LEMMA MaxSizeBounds == MaxSize \in Nat /\ \A n \in Sizes : n \in Nat /\ n <= MaxSize
  <1>1. \A n \in Sizes : n \in Nat
    BY VersionsAssumption DEF VersionsAssumption, Sizes
  <1>2. \E m \in Sizes : \A n \in Sizes : m >= n
    BY <1>1, VersionsAssumption DEF VersionsAssumption, Sizes
  <1>3. MaxSize \in Sizes /\ \A n \in Sizes : MaxSize >= n
    BY <1>2 DEF MaxSize, Max
  <1> QED
    BY <1>1, <1>3

\* A file is a sequence of blocks that is not too long.
LEMMA ContentsAreSeqs ==
  ASSUME NEW c
  PROVE  c \in Contents <=> c \in Seq(Blocks) /\ Len(c) <= MaxSize
  <1>1. ASSUME c \in Contents PROVE c \in Seq(Blocks) /\ Len(c) <= MaxSize
    <2>1. PICK n \in 0..MaxSize : c \in [1..n -> Blocks]
      BY <1>1 DEF Contents, MaxSize
    <2>2. n \in Nat /\ n <= MaxSize
      BY <2>1, MaxSizeBounds
    <2> QED
      BY <2>1, <2>2, IsASeq, LenProperties
  <1>2. ASSUME c \in Seq(Blocks), Len(c) <= MaxSize PROVE c \in Contents
    <2>1. Len(c) \in 0..MaxSize /\ c \in [1..Len(c) -> Blocks]
      BY <1>2, LenProperties, MaxSizeBounds
    <2> QED
      BY <2>1 DEF Contents, MaxSize
  <1> QED
    BY <1>1, <1>2

LEMMA VersionsAreContents ==
  /\ \A v \in Versions : v \in Contents /\ Len(v) \in Sizes
  /\ <<>> \in Contents /\ None \notin Contents /\ Hole \in Blocks
  <1>1. ASSUME NEW v \in Versions PROVE v \in Contents /\ Len(v) \in Sizes
    <2>1. Len(v) \in Sizes
      BY DEF Sizes
    <2>2. v \in Seq(Blocks)
      BY VersionsAssumption DEF VersionsAssumption
    <2> QED
      BY <2>1, <2>2, ContentsAreSeqs, MaxSizeBounds
  <1>2. <<>> \in Seq(Blocks) /\ Len(<<>>) = 0
    BY EmptySeq
  <1>3. <<>> \in Contents
    <2>1. Len(<<>>) <= MaxSize
      BY <1>2, MaxSizeBounds
    <2> QED
      BY <1>2, <2>1, ContentsAreSeqs
  <1>4. None \notin Contents
    BY VersionsAssumption DEF VersionsAssumption
  <1>5. Hole \in Blocks
    BY DEF Blocks
  <1> QED
    BY <1>1, <1>3, <1>4, <1>5

\* The first n blocks of a file.
LEMMA PrefixOfContent ==
  ASSUME NEW c \in Contents, NEW n \in 0..Len(c)
  PROVE  SubSeq(c, 1, n) \in Contents /\ Len(SubSeq(c, 1, n)) = n
  <1>1. c \in Seq(Blocks) /\ Len(c) <= MaxSize /\ Len(c) \in Nat
    BY ContentsAreSeqs, LenProperties
  <1>2. \A i \in 1..n : c[i] \in Blocks
    BY <1>1, ElementOfSeq
  <1>3. SubSeq(c, 1, n) \in Seq(Blocks) /\ Len(SubSeq(c, 1, n)) = n
    BY <1>1, <1>2, SubSeqProperties
  <1>4. n <= MaxSize
    BY <1>1, MaxSizeBounds
  <1> QED
    BY <1>3, <1>4, ContentsAreSeqs

LEMMA ContentGrows ==
  ASSUME NEW c \in Contents, NEW b \in Blocks, Len(c) + 1 <= MaxSize
  PROVE  Append(c, b) \in Contents /\ Len(Append(c, b)) = Len(c) + 1
  <1>1. c \in Seq(Blocks) /\ Len(c) \in Nat
    BY ContentsAreSeqs, LenProperties
  <1>2. Append(c, b) \in Seq(Blocks) /\ Len(Append(c, b)) = Len(c) + 1
    BY <1>1, AppendProperties
  <1> QED
    BY <1>2, ContentsAreSeqs

\* Writing a block at the end of a file appends it.
LEMMA WrittenAtEnd ==
  ASSUME part \in Contents, Len(part) = received, NEW b
  PROVE  Written(b) = Append(part, b)
  <1>1. part \in Seq(Blocks) /\ received \in Nat
    BY ContentsAreSeqs, LenProperties
  <1>2. SubSeq(part, 1, received) = part
    BY <1>1, SubSeqFull
  <1>3. SubSeq(part, received + 2, Len(part)) = <<>>
    BY <1>1, SubSeqEmpty
  <1>4. part \o <<b>> \o <<>> = Append(part, b)
    OBVIOUS
  <1> QED
    BY <1>2, <1>3, <1>4 DEF Written

\* A torn file is a file.
LEMMA TornContent ==
  ASSUME NEW c \in Contents
  PROVE  Torn(c) \subseteq Contents
  <1> SUFFICES ASSUME NEW n \in 0..Len(c)
               PROVE  /\ SubSeq(c, 1, n) \in Contents
                      /\ [i \in DOMAIN c |-> IF i <= n THEN c[i] ELSE Hole] \in Contents
    BY DEF Torn
  <1>1. c \in Seq(Blocks) /\ Len(c) <= MaxSize /\ Len(c) \in Nat /\ DOMAIN c = 1..Len(c)
    BY ContentsAreSeqs, LenProperties
  <1> DEFINE t == [i \in DOMAIN c |-> IF i <= n THEN c[i] ELSE Hole]
  <1>2. \A i \in 1..Len(c) : c[i] \in Blocks
    BY <1>1, ElementOfSeq
  <1>3. t \in [1..Len(c) -> Blocks]
    BY <1>1, <1>2, VersionsAreContents
  <1>4. t \in Contents
    BY <1>1, <1>3, MaxSizeBounds DEF Contents, MaxSize
  <1> QED
    BY <1>4, PrefixOfContent

LEMMA TailFacts ==
  ASSUME NEW S, NEW q \in Seq(S), q # <<>>
  PROVE  /\ Tail(q) \in Seq(S) /\ Len(q) \in Nat /\ Len(q) >= 1
         /\ Head(q) = q[1] /\ Head(q) \in S
         /\ Len(Tail(q)) = Len(q) - 1
         /\ \A i \in 1..Len(Tail(q)) : Tail(q)[i] = q[i + 1] /\ i + 1 \in 1..Len(q)
         /\ Len(q) = 1 => Tail(q) = <<>>
  <1>1. Len(q) \in Nat /\ Len(q) >= 1
    BY LenProperties, EmptySeq
  <1>2. Tail(q) \in Seq(S) /\ Len(Tail(q)) = Len(q) - 1 /\ Head(q) \in S /\ Head(q) = q[1]
        /\ \A i \in 1..Len(Tail(q)) : Tail(q)[i] = q[i + 1]
    BY HeadTailProperties
  <1> QED
    BY <1>1, <1>2, EmptySeq

LEMMA AppendFacts ==
  ASSUME NEW S, NEW q \in Seq(S), NEW x \in S
  PROVE  /\ Append(q, x) \in Seq(S) /\ Len(q) \in Nat
         /\ Len(Append(q, x)) = Len(q) + 1 /\ Append(q, x) # <<>>
         /\ Append(q, x)[Len(q) + 1] = x
         /\ \A i \in 1..Len(q) : Append(q, x)[i] = q[i]
  <1>1. Append(q, x) \in Seq(S) /\ Len(Append(q, x)) = Len(q) + 1 /\ Len(q) \in Nat
    BY AppendProperties, LenProperties
  <1> QED
    BY <1>1, AppendProperties, EmptySeq

LEMMA PrefixFacts ==
  ASSUME NEW S, NEW q \in Seq(S), NEW p \in Prefixes(q)
  PROVE  /\ p \in Seq(S) /\ Len(p) \in Nat /\ Len(p) <= Len(q)
         /\ \A i \in 1..Len(p) : p[i] = q[i] /\ i \in 1..Len(q)
  <1>1. PICK n \in 0..Len(q) : p = SubSeq(q, 1, n)
    BY DEF Prefixes, PrefixesFrom
  <1>2. Len(q) \in Nat /\ n \in Nat /\ n <= Len(q)
    BY <1>1, LenProperties
  <1>3. p \in Seq(S) /\ Len(p) = n
    BY <1>1, <1>2, SubSeqProperties
  <1>4. \A i \in 1..n : p[i] = q[i] /\ i \in 1..Len(q)
    BY <1>1, <1>2, SubSeqProperties
  <1> QED
    BY <1>2, <1>3, <1>4

-------------------------------------------------------------------------------
(* The invariant: types.                                                   *)

Ops == {"FILE_UPLOAD", "FILE_CHUNK", "FILE_CHECKSUM"}
Codes == {"FILE_EXISTS", "UNSUPPORTED_OPCODE", "RESUME_METADATA_MISMATCH", "FILE_IO_ERROR",
          "OFFSET_MISMATCH", "SIZE_MISMATCH", "INVALID_STATE", "CHECKSUM_MISMATCH"}

UpFrames ==
  [op : {"FILE_UPLOAD"}, size : Sizes]
    \cup [op : {"FILE_CHUNK"}, offset : 0..MaxSize, data : Blocks]
    \cup [op : {"FILE_CHECKSUM"}, size : 0..MaxSize, digest : Contents]
DownFrames ==
  [kind : {"ACK"}, op : Ops, next : 0..MaxSize] \cup [kind : {"ERROR"}, op : Ops, code : Codes]

FileTypes ==
  /\ target \in FileType \cup {Foreign} /\ part \in FileType /\ meta \in MetaType
  /\ meta \notin {None, Corrupt} => meta.bytes <= meta.total
  /\ linked \in BOOLEAN /\ aged \in BOOLEAN /\ unsynced \subseteq {"target", "part"}

ServerTypes ==
  /\ spc \in {"down", "gone", "idle", "expiring", "examining", "opening", "saving",
              "acking", "receiving", "linking", "unlinking", "confirming", "cleaning"}
  /\ resumeAt \in {"idle", "acking", "receiving"}
  /\ total \in Sizes \cup {0} /\ received \in 0..MaxSize /\ digest \in Contents

ClientTypes ==
  /\ cpc \in {"away", "ready", "asked", "streaming", "claimed"}
  /\ source \in Versions /\ size \in Sizes \cup {0} /\ sent \in 0..MaxSize
  /\ hashed \in Contents /\ edits \in 0..MaxEdits
  /\ offered \subseteq Contents /\ confirmed \in FileType

WireTypes ==
  /\ link \in {"up", "lost"}
  /\ up \in Seq(UpFrames) /\ Len(up) <= Window
  /\ down \in Seq(DownFrames) /\ Len(down) <= ReplyWindow

-------------------------------------------------------------------------------
(* The invariant: the disk, and how far the server has got.                *)

\* What the disk may lose is never what is published, nor what may be any moment.
DiskSound ==
  /\ "target" \notin unsynced
  /\ part = None => "part" \notin unsynced
  /\ linked => part # None /\ target = part /\ "part" \notin unsynced

Working == {"expiring", "examining", "opening", "saving", "acking", "receiving", "linking"}

\* While it works on an upload the server writes to a file that nobody can see, and it
\* publishes what a client has vouched for.
Progress ==
  /\ spc \in Working => ~linked
  /\ spc = "opening" => /\ received <= total
                        /\ IF part = None THEN received = 0 /\ digest = <<>>
                           ELSE received <= Len(part) /\ digest = SubSeq(part, 1, received)
  /\ DigestMatchesDisk
  /\ spc = "saving" => resumeAt # "idle"
  /\ spc = "linking" => "part" \notin unsynced
  /\ spc \in {"linking", "unlinking", "confirming"} => digest \in offered
  /\ spc = "unlinking" => linked /\ part = digest
  /\ spc = "confirming" => target = digest

-------------------------------------------------------------------------------
(* The invariant: the dialogue of the two ends.                            *)

IsReceipt(f) == f.kind = "ACK" /\ f.op = "FILE_CHECKSUM"
ReceiptSent == \E i \in 1..Len(down) : IsReceipt(down[i])

\* Once somebody is or will be told that the upload succeeded, the destination holds
\* contents that were vouched for, and no upload is under way that could change it.
Told == confirmed # None \/ ReceiptSent \/ spc = "confirming"
Published == Told => target \in offered /\ spc \notin Working \cup {"unlinking"}

\* What a client will report is what the destination holds.
ReceiptTrue == cpc = "claimed" /\ ReceiptSent => hashed = target

ClaimsOffered == \A i \in 1..Len(up) : up[i].op = "FILE_CHECKSUM" => up[i].digest \in offered

ClientLocal ==
  /\ cpc \in {"asked", "streaming", "claimed"} => size \in Sizes
  /\ cpc \in {"streaming", "claimed"} => Len(hashed) = sent /\ sent <= size

Quiet == up = <<>> /\ down = <<>>
Free == spc \in {"idle", "cleaning"}
Preparing == spc \in {"expiring", "examining", "opening", "acking"}
             \/ (spc = "saving" /\ resumeAt = "acking")
Receiving == spc = "receiving" \/ (spc = "saving" /\ resumeAt = "receiving")
Publishing == spc \in {"linking", "unlinking", "confirming"}

\* A request is unread, under way in the server, or answered.
RequestPending ==
  \/ Len(up) = 1 /\ up[1].op = "FILE_UPLOAD" /\ down = <<>> /\ Free
  \/ Quiet /\ Preparing
  \/ /\ up = <<>> /\ Len(down) = 1 /\ down[1].op = "FILE_UPLOAD"
     /\ spc = IF down[1].kind = "ACK" THEN "receiving" ELSE "idle"

\* The client's frames are chunks, and last of all the checksum of what it hashed; the
\* server answers nothing while all goes well, and the checksum last.
TransferPending ==
  /\ \A i \in 1..Len(up) :
       /\ up[i].op # "FILE_UPLOAD"
       /\ up[i].op = "FILE_CHECKSUM" =>
            cpc = "claimed" /\ i = Len(up) /\ up[i].digest = hashed
  /\ \A i \in 1..Len(down) :
       /\ down[i].op # "FILE_UPLOAD"
       /\ down[i].op = "FILE_CHECKSUM" => cpc = "claimed" /\ i = Len(down) /\ up = <<>>
  /\ down # <<>> => Free
  /\ \/ Free \/ Receiving
     \/ Publishing /\ cpc = "claimed" /\ Quiet /\ hashed = digest

Dialogue == link = "up" =>
  /\ cpc # "away" /\ spc \notin {"gone", "down"}
  /\ cpc = "ready" => Quiet /\ Free
  /\ cpc = "asked" => RequestPending
  /\ cpc \in {"streaming", "claimed"} => TransferPending

IInv ==
  /\ FileTypes /\ ServerTypes /\ ClientTypes /\ WireTypes /\ faults \in 0..MaxFaults
  /\ DiskSound /\ Progress
  /\ Published /\ ReceiptTrue /\ ClaimsOffered /\ ClientLocal /\ Dialogue

-------------------------------------------------------------------------------
(* The server's hands.                                                     *)

LEMMA FramesAreTyped ==
  /\ \A op \in Ops, n \in 0..MaxSize : Ack(op, n) \in DownFrames
  /\ \A op \in Ops, code \in Codes :
       Error(op, code) \in DownFrames /\ ~IsReceipt(Error(op, code))
  /\ \A f \in DownFrames : f.op \in Ops
  /\ \A f \in UpFrames : /\ f.op \in Ops
                         /\ f.op = "FILE_UPLOAD" => f.size \in Sizes
                         /\ f.op = "FILE_CHUNK" => f.data \in Blocks
                         /\ f.op = "FILE_CHECKSUM" => f.digest \in Contents
  BY DEF Ack, Error, DownFrames, UpFrames, IsReceipt, Ops, Codes

\* send() to the client: nothing is delivered once the connection is lost.
LEMMA ReplyFacts ==
  ASSUME WireTypes, NEW r \in DownFrames, Reply(r)
  PROVE  /\ link' = link /\ down' \in Seq(DownFrames) /\ Len(down') <= ReplyWindow
         /\ link = "up" => down' = Append(down, r)
         /\ link # "up" => down' = down
         /\ Len(down) \in Nat
         /\ link = "up" => /\ Len(down') = Len(down) + 1 /\ down'[Len(down')] = r
                           /\ \A i \in 1..Len(down) : down'[i] = down[i]
         /\ ReceiptSent' => ReceiptSent \/ IsReceipt(r)
  <1>1. /\ down \in Seq(DownFrames) /\ Len(down) <= ReplyWindow /\ ReplyWindow \in Nat
        /\ Len(down) \in Nat
    BY UploadAssumption, LenProperties DEF WireTypes, UploadAssumption
  <1>2. CASE link = "up"
    <2>1. down' = Append(down, r) /\ link' = link /\ Len(down) < ReplyWindow
      BY <1>2 DEF Reply
    <2>2. /\ down' \in Seq(DownFrames) /\ Len(down') = Len(down) + 1
          /\ down'[Len(down) + 1] = r
          /\ \A i \in 1..Len(down) : down'[i] = down[i]
      BY <1>1, <2>1, AppendFacts
    <2>3. Len(down') <= ReplyWindow
      BY <1>1, <2>1, <2>2
    <2>4. ASSUME NEW i \in 1..Len(down'), IsReceipt(down'[i]) PROVE ReceiptSent \/ IsReceipt(r)
      <3>1. i \in 1..Len(down) \/ i = Len(down) + 1
        BY <1>1, <2>2
      <3> QED
        BY <2>2, <2>4, <3>1 DEF ReceiptSent
    <2> QED
      BY <1>1, <1>2, <2>1, <2>2, <2>3, <2>4 DEF ReceiptSent
  <1>3. CASE link # "up"
    BY <1>1, <1>3 DEF Reply, ReceiptSent
  <1> QED
    BY <1>2, <1>3

LEMMA FaultCounts ==
  ASSUME faults \in 0..MaxFaults, NEW n \in Nat, Fault(n)
  PROVE  faults' \in 0..MaxFaults
  BY UploadAssumption DEF Fault, UploadAssumption

\* Discarding the partial files touches nothing else.
LEMMA WipeFacts ==
  ASSUME FileTypes, DiskSound, faults \in 0..MaxFaults, Wipe
  PROVE  /\ FileTypes' /\ DiskSound' /\ faults' \in 0..MaxFaults
         /\ target' = target /\ (linked' => linked)
  <1>1. PICK kept \in SUBSET {"part", "meta"} :
          /\ "part" \in kept => part # None
          /\ Fault(Cardinality(kept))
          /\ part' = IF "part" \in kept THEN part ELSE None
          /\ meta' = IF "meta" \in kept THEN meta ELSE None
          /\ linked' = (linked /\ "part" \in kept)
          /\ unsynced' = IF "part" \in kept THEN unsynced ELSE unsynced \ {"part"}
          /\ aged' = (aged /\ kept # {})
          /\ target' = target
    BY DEF Wipe
  <1>2. IsFiniteSet({"part", "meta"})
    <2>1. IsFiniteSet({"part"})
      BY FS_Singleton
    <2>2. IsFiniteSet({"part"} \cup {"meta"})
      BY <2>1, FS_AddElement
    <2>3. {"part", "meta"} = {"part"} \cup {"meta"}
      OBVIOUS
    <2> QED
      BY <2>2, <2>3
  <1>3. Cardinality(kept) \in Nat
    BY <1>2, FS_Subset, FS_CardinalityType
  <1>4. faults' \in 0..MaxFaults
    BY <1>1, <1>3, FaultCounts
  <1>5. FileTypes'
    BY <1>1 DEF FileTypes, FileType, MetaType
  <1>6. DiskSound'
    BY <1>1 DEF DiskSound
  <1> QED
    BY <1>1, <1>4, <1>5, <1>6

\* Writing the partial file while nobody else can see it.
LEMMA WritePartFacts ==
  ASSUME FileTypes, DiskSound, ~linked, NEW content \in Contents, WritePart(content)
  PROVE  /\ FileTypes' /\ DiskSound'
         /\ part' = content /\ target' = target /\ ~linked'
  <1>1. /\ part' = content /\ target' = target /\ unsynced' = unsynced \cup {"part"}
        /\ aged' = FALSE /\ meta' = meta /\ linked' = linked
    BY DEF WritePart
  <1>2. content # None
    BY VersionsAreContents
  <1> QED
    BY <1>1, <1>2 DEF FileTypes, FileType, DiskSound

-------------------------------------------------------------------------------
(* The server's steps, and the disk.                                       *)

ServerPart ==
  /\ FileTypes /\ ServerTypes /\ DiskSound /\ Progress /\ faults \in 0..MaxFaults

LEMMA FirstFrame ==
  ASSUME WireTypes, up # <<>>
  PROVE  /\ Head(up) = up[1] /\ Head(up) \in UpFrames /\ Len(up) \in Nat /\ Len(up) >= 1
         /\ Head(up).op \in Ops
         /\ Tail(up) \in Seq(UpFrames) /\ Len(Tail(up)) = Len(up) - 1
         /\ \A i \in 1..Len(Tail(up)) : Tail(up)[i] = up[i + 1] /\ i + 1 \in 1..Len(up)
         /\ Len(up) = 1 => Tail(up) = <<>>
  BY TailFacts, FramesAreTyped DEF WireTypes

\* A server that waits for a request, or ends, owes nothing to what it did before.
LEMMA Stopped ==
  ASSUME FileTypes', ServerTypes', DiskSound', faults' \in 0..MaxFaults,
         spc' \in {"gone", "down", "idle", "cleaning"}
  PROVE  ServerPart'
  <1>1. Progress'
    BY DEF Progress, Working, DigestMatchesDisk
  <1> QED
    BY <1>1 DEF ServerPart

\* The locals and the disk stay as they are.
LEMMA StoppedInPlace ==
  ASSUME ServerPart, UNCHANGED <<disk, resumeAt, total, received, digest>>,
         faults' \in 0..MaxFaults, spc' \in {"gone", "down", "idle", "cleaning"}
  PROVE  ServerPart'
  <1>1. FileTypes' /\ DiskSound'
    BY DEF ServerPart, FileTypes, DiskSound, disk
  <1>2. ServerTypes'
    BY DEF ServerPart, ServerTypes
  <1> QED
    BY <1>1, <1>2, Stopped

\* The thread leaves the session.
LEMMA SessionOverFacts ==
  ASSUME FileTypes', DiskSound', faults' \in 0..MaxFaults,
         SessionOver("gone") \/ SessionOver("down")
  PROVE  ServerPart' /\ spc' \in {"gone", "down"}
  <1>1. /\ spc' \in {"gone", "down"} /\ resumeAt' = "idle" /\ total' = 0 /\ received' = 0
        /\ digest' = <<>>
    BY DEF SessionOver, Goto
  <1>2. ServerTypes'
    BY <1>1, VersionsAreContents, MaxSizeBounds DEF ServerTypes
  <1> QED
    BY <1>1, <1>2, Stopped

LEMMA OneFault ==
  ASSUME faults \in 0..MaxFaults, Fault(1)
  PROVE  faults' \in 0..MaxFaults
  BY FaultCounts

\* A request is refused, or a transfer ends with an error, and the disk stays as it is.
LEMMA RefusalsKeepServer ==
  ASSUME ServerPart, WireTypes,
         \/ RejectStray \/ CannotOpen \/ Refuse \/ SyncFails \/ LinkExists \/ LinkFails
         \/ Begin /\ target # None
  PROVE  ServerPart'
  <1>0. faults \in 0..MaxFaults
    BY DEF ServerPart
  <1>1. CASE RejectStray
    <2>1. spc' = "idle" /\ UNCHANGED <<disk, resumeAt, total, received, digest, faults>>
      BY <1>1 DEF RejectStray, server
    <2> QED
      BY <1>0, <2>1, StoppedInPlace
  <1>2. CASE CannotOpen \/ SyncFails \/ LinkFails
    <2>1. /\ spc' = "idle" /\ UNCHANGED <<disk, resumeAt, total, received, digest>>
          /\ Fault(1)
      BY <1>2 DEF CannotOpen, SyncFails, LinkFails, Goto
    <2> QED
      BY <1>0, <2>1, OneFault, StoppedInPlace
  <1>3. CASE Refuse
    <2>1. /\ spc' \in {"idle", "cleaning"}
          /\ UNCHANGED <<disk, resumeAt, total, received, digest, faults>>
      BY <1>3 DEF Refuse, Goto
    <2> QED
      BY <1>0, <2>1, StoppedInPlace
  <1>4. CASE LinkExists
    <2>1. spc' = "cleaning" /\ UNCHANGED <<disk, resumeAt, total, received, digest, faults>>
      BY <1>4 DEF LinkExists, Goto
    <2> QED
      BY <1>0, <2>1, StoppedInPlace
  <1>5. CASE Begin /\ target # None
    <2>1. spc' = "idle" /\ UNCHANGED <<disk, resumeAt, total, received, digest, faults>>
      BY <1>5 DEF Begin
    <2> QED
      BY <1>0, <2>1, StoppedInPlace
  <1> QED
    BY <1>1, <1>2, <1>3, <1>4, <1>5

\* The partial files are wiped on the way to the next request.
LEMMA WipesKeepServer ==
  ASSUME ServerPart, RefuseInconsistent \/ Clean \/ Restart
  PROVE  ServerPart'
  <1>0. FileTypes /\ DiskSound /\ faults \in 0..MaxFaults
    BY DEF ServerPart
  <1>1. /\ spc' \in {"idle", "gone"} /\ UNCHANGED <<resumeAt, total, received, digest>>
        /\ Wipe \/ UNCHANGED <<disk, faults>>
    BY DEF RefuseInconsistent, Clean, Restart, Goto
  <1>2. FileTypes' /\ DiskSound' /\ faults' \in 0..MaxFaults
    <2>1. CASE Wipe
      BY <1>0, <2>1, WipeFacts
    <2>2. CASE UNCHANGED <<disk, faults>>
      BY <1>0, <2>2 DEF FileTypes, DiskSound, disk
    <2> QED
      BY <1>1, <2>1, <2>2
  <1>3. ServerTypes'
    BY <1>1 DEF ServerPart, ServerTypes
  <1> QED
    BY <1>1, <1>2, <1>3, Stopped

\* The session, the process or the machine dies.
LEMMA EndingsKeepServer ==
  ASSUME ServerPart, SaveFails \/ EndSession \/ Crash \/ PowerLoss
  PROVE  ServerPart'
  <1>0. FileTypes /\ DiskSound /\ faults \in 0..MaxFaults
    BY DEF ServerPart
  <1>1. CASE SaveFails \/ EndSession \/ Crash
    <2>1. /\ SessionOver("gone") \/ SessionOver("down")
          /\ UNCHANGED disk
          /\ Fault(1) \/ UNCHANGED faults
      BY <1>1 DEF SaveFails, EndSession, Crash, disk
    <2>2. FileTypes' /\ DiskSound'
      BY <1>0, <2>1 DEF FileTypes, DiskSound, disk
    <2>3. faults' \in 0..MaxFaults
      BY <1>0, <2>1, OneFault
    <2> QED
      BY <2>1, <2>2, <2>3, SessionOverFacts
  <1>2. CASE PowerLoss
    <2>1. /\ SessionOver("down") /\ Fault(1)
          /\ part' \in IF "part" \in unsynced THEN Torn(part) ELSE {part}
          /\ target' \in IF linked THEN {part'}
                         ELSE IF "target" \in unsynced THEN Torn(target) ELSE {target}
          /\ meta' \in IF meta = None THEN {None} ELSE {meta, Corrupt}
          /\ unsynced' = {} /\ linked' = linked /\ aged' = aged
      BY <1>2 DEF PowerLoss
    <2>2. part' \in FileType /\ (part' # part => part \in Contents /\ part' \in Contents)
      <3>1. CASE "part" \in unsynced
        <4>1. part \in Contents
          BY <1>0, <3>1 DEF FileTypes, FileType, DiskSound
        <4> QED
          BY <2>1, <3>1, <4>1, TornContent DEF FileType
      <3>2. CASE "part" \notin unsynced
        BY <1>0, <2>1, <3>2 DEF FileTypes
      <3> QED
        BY <3>1, <3>2
    <2>3. target' = target /\ (linked => part' = part)
      BY <1>0, <2>1 DEF DiskSound
    <2>4. FileTypes'
      BY <1>0, <2>1, <2>2, <2>3 DEF FileTypes, MetaType
    <2>5. DiskSound'
      BY <1>0, <2>1, <2>3 DEF DiskSound
    <2> QED
      BY <1>0, <2>1, <2>4, <2>5, OneFault, SessionOverFacts
  <1> QED
    BY <1>1, <1>2

\* A chunk is accepted only where it continues the file, within the announced size.
LEMMA ChunkAccepted ==
  ASSUME ServerTypes, NEW f, f.op = "FILE_CHUNK", Verdict(f) = "ok"
  PROVE  /\ f.offset = received /\ received + 1 <= total /\ received + 1 <= MaxSize
         /\ received \in Nat /\ total \in Nat
  <1>1. total \in Nat /\ total <= MaxSize /\ received \in Nat
    BY MaxSizeBounds DEF ServerTypes
  <1>2. f.offset = received /\ ~(received + 1 > total)
    BY DEF Verdict
  <1> QED
    BY <1>1, <1>2, MaxSizeBounds

\* A checksum is accepted only at the announced size, and if it is the digest.
LEMMA ChecksumAccepted ==
  ASSUME NEW f, f.op = "FILE_CHECKSUM", Verdict(f) = "ok"
  PROVE  received = total /\ f.digest = digest
  BY DEF Verdict

\* A write that fails leaves a partial file of some length.
LEMMA WriteFailsKeepsServer ==
  ASSUME ServerPart, WireTypes, WriteFails
  PROVE  ServerPart'
  <1>1. /\ spc = "receiving" /\ up # <<>> /\ Verdict(Head(up)) = "ok"
        /\ Head(up).op = "FILE_CHUNK" /\ Fault(1)
        /\ \E content \in {part, Written(Head(up).data)} : WritePart(content)
        /\ spc' = "idle" /\ UNCHANGED <<resumeAt, total, received, digest>>
    BY DEF WriteFails, Incoming, Goto
  <1>2. part \in Contents /\ Len(part) = received /\ ~linked
    BY <1>1 DEF ServerPart, Progress, DigestMatchesDisk, ServerTypes, Working
  <1>3. Written(Head(up).data) \in Contents
    <2>1. received + 1 <= MaxSize
      BY <1>1, ChunkAccepted DEF ServerPart
    <2>2. Head(up).data \in Blocks
      BY <1>1, FirstFrame, FramesAreTyped
    <2> QED
      BY <1>2, <2>1, <2>2, WrittenAtEnd, ContentGrows
  <1>4. FileTypes' /\ DiskSound'
    BY <1>1, <1>2, <1>3, WritePartFacts DEF ServerPart
  <1>5. ServerTypes'
    BY <1>1 DEF ServerPart, ServerTypes
  <1>6. faults' \in 0..MaxFaults
    BY <1>1, OneFault DEF ServerPart
  <1> QED
    BY <1>1, <1>4, <1>5, <1>6, Stopped

\* Publication ends, in success or not.
LEMMA PublicationEndsKeepServer ==
  ASSUME ServerPart, UnlinkFails \/ Confirm
  PROVE  ServerPart'
  <1>0. FileTypes /\ DiskSound /\ faults \in 0..MaxFaults
    BY DEF ServerPart
  <1>1. spc' \in {"idle", "cleaning"} /\ UNCHANGED <<resumeAt, total, received, digest>>
    BY DEF UnlinkFails, Confirm, Goto
  <1>2. faults' \in 0..MaxFaults
    BY <1>0, FaultCounts DEF UnlinkFails, Confirm
  <1>3. FileTypes' /\ DiskSound'
    <2>1. CASE UnlinkFails
      <3>1. part' = part /\ meta' = meta /\ aged' = aged
        BY <2>1 DEF UnlinkFails
      <3>2. CASE target' = None /\ linked' = FALSE /\ unsynced' = unsynced \ {"target"}
        <4>1. FileTypes'
          BY <1>0, <3>1, <3>2 DEF FileTypes, FileType
        <4>2. DiskSound'
          BY <1>0, <3>1, <3>2 DEF DiskSound
        <4> QED
          BY <4>1, <4>2
      <3>3. CASE target' = target /\ linked' = linked /\ unsynced' = unsynced
        <4>1. FileTypes'
          BY <1>0, <3>1, <3>3 DEF FileTypes
        <4>2. DiskSound'
          BY <1>0, <3>1, <3>3 DEF DiskSound
        <4> QED
          BY <4>1, <4>2
      <3> QED
        BY <2>1, <3>2, <3>3 DEF UnlinkFails
    <2>2. CASE Confirm
      <3>1. meta' \in {None, meta} /\ UNCHANGED <<target, part, linked, unsynced, aged>>
        BY <2>2 DEF Confirm
      <3> QED
        BY <1>0, <3>1 DEF FileTypes, MetaType, DiskSound
    <2> QED
      BY <2>1, <2>2
  <1>4. ServerTypes'
    BY <1>1 DEF ServerPart, ServerTypes
  <1> QED
    BY <1>1, <1>2, <1>3, <1>4, Stopped

\* The way to the first acknowledgement: whatever earlier attempts left is judged, and
\* the digest covers the prefix that is kept.
LEMMA BeginKeepsServer ==
  ASSUME ServerPart, WireTypes, Begin, target = None
  PROVE  ServerPart'
  <1>1. /\ up # <<>> /\ Head(up).op = "FILE_UPLOAD"
        /\ spc' = "expiring" /\ total' = Head(up).size
        /\ UNCHANGED <<target, part, meta, linked, unsynced, aged>>
        /\ UNCHANGED <<resumeAt, received, digest, faults>>
    BY DEF Begin, Goto, disk
  <1>2. total' \in Sizes
    BY <1>1, FirstFrame, FramesAreTyped
  <1>3. ~linked
    BY VersionsAreContents DEF ServerPart, DiskSound
  <1>4. FileTypes' /\ DiskSound'
    BY <1>1 DEF ServerPart, FileTypes, DiskSound
  <1>5. ServerTypes'
    BY <1>1, <1>2 DEF ServerPart, ServerTypes
  <1>6. Progress'
    BY <1>1, <1>3 DEF Progress, DigestMatchesDisk
  <1> QED
    BY <1>1, <1>4, <1>5, <1>6 DEF ServerPart

LEMMA ExpireKeepsServer ==
  ASSUME ServerPart, Expire
  PROVE  ServerPart'
  <1>1. /\ spc = "expiring" /\ spc' = "examining"
        /\ Wipe \/ UNCHANGED <<disk, faults>>
        /\ UNCHANGED <<resumeAt, total, received, digest>>
    BY DEF Expire, Goto
  <1>2. ~linked
    BY <1>1 DEF ServerPart, Progress, Working
  <1>3. FileTypes' /\ DiskSound' /\ faults' \in 0..MaxFaults /\ ~linked'
    <2>1. CASE Wipe
      BY <1>2, <2>1, WipeFacts DEF ServerPart
    <2>2. CASE UNCHANGED <<disk, faults>>
      BY <1>2, <2>2 DEF ServerPart, FileTypes, DiskSound, disk
    <2> QED
      BY <1>1, <2>1, <2>2
  <1>4. ServerTypes'
    BY <1>1 DEF ServerPart, ServerTypes
  <1>5. Progress'
    BY <1>1, <1>3 DEF Progress, DigestMatchesDisk
  <1> QED
    BY <1>3, <1>4, <1>5 DEF ServerPart

\* A file that is kept after all is cut to nothing, as the digest says.
LEMMA StartAfreshKeepsServer ==
  ASSUME ServerPart, StartAfresh
  PROVE  ServerPart'
  <1>1. /\ spc = "examining" /\ spc' = "opening" /\ received' = 0 /\ digest' = <<>>
        /\ Wipe \/ UNCHANGED <<disk, faults>>
        /\ UNCHANGED <<resumeAt, total>>
    BY DEF StartAfresh, Start, Goto
  <1>2. ~linked
    BY <1>1 DEF ServerPart, Progress, Working
  <1>3. FileTypes' /\ DiskSound' /\ faults' \in 0..MaxFaults /\ ~linked'
    <2>1. CASE Wipe
      BY <1>2, <2>1, WipeFacts DEF ServerPart
    <2>2. CASE UNCHANGED <<disk, faults>>
      BY <1>2, <2>2 DEF ServerPart, FileTypes, DiskSound, disk
    <2> QED
      BY <1>1, <2>1, <2>2
  <1>4. ServerTypes'
    BY <1>1, VersionsAreContents, MaxSizeBounds DEF ServerPart, ServerTypes
  <1>5. /\ received' <= total'
        /\ part' # None => received' <= Len(part') /\ digest' = SubSeq(part', 1, received')
    <2>1. total \in Nat
      BY MaxSizeBounds DEF ServerPart, ServerTypes
    <2>2. ASSUME part' # None PROVE 0 <= Len(part') /\ SubSeq(part', 1, 0) = <<>>
      <3>1. part' \in Seq(Blocks)
        BY <1>3, <2>2, ContentsAreSeqs DEF FileTypes, FileType
      <3> QED
        BY <3>1, LenProperties, SubSeqEmpty
    <2> QED
      BY <1>1, <2>1, <2>2
  <1>6. Progress'
    BY <1>1, <1>3, <1>5 DEF Progress, DigestMatchesDisk
  <1> QED
    BY <1>3, <1>4, <1>6 DEF ServerPart

LEMMA ResumeKeepsServer ==
  ASSUME ServerPart, Resume
  PROVE  ServerPart'
  <1>1. /\ spc = "examining" /\ Resumable
        /\ spc' = "opening" /\ received' = meta.bytes
        /\ digest' = SubSeq(part, 1, meta.bytes)
        /\ UNCHANGED <<target, part, meta, linked, unsynced, aged>>
        /\ UNCHANGED <<faults, resumeAt, total>>
    BY DEF Resume, Start, Goto, disk
  <1>2. /\ part # None /\ Describes(meta) /\ Len(part) <= total /\ meta.bytes <= Len(part)
    BY <1>1 DEF Resumable, Useless
  <1>3. part \in Contents /\ meta.bytes \in Nat /\ meta.bytes <= total
    BY <1>2 DEF ServerPart, FileTypes, FileType, MetaType, Describes
  <1>4. Len(part) \in Nat /\ Len(part) <= MaxSize
    BY <1>3, ContentsAreSeqs, LenProperties
  <1>5. digest' \in Contents /\ meta.bytes \in 0..MaxSize
    BY <1>1, <1>2, <1>3, <1>4, PrefixOfContent, MaxSizeBounds
  <1>6. FileTypes' /\ DiskSound' /\ ~linked'
    BY <1>1 DEF ServerPart, FileTypes, DiskSound, Progress, Working
  <1>7. ServerTypes'
    BY <1>1, <1>5 DEF ServerPart, ServerTypes
  <1>8. Progress'
    BY <1>1, <1>2, <1>3, <1>6 DEF Progress, DigestMatchesDisk
  <1> QED
    BY <1>1, <1>6, <1>7, <1>8 DEF ServerPart

\* What lies beyond the resume offset is cut off.
LEMMA OpenKeepsServer ==
  ASSUME ServerPart, Open
  PROVE  ServerPart'
  <1>1. /\ spc = "opening" /\ spc' = "saving" /\ resumeAt' = "acking"
        /\ WritePart(IF part = None THEN <<>> ELSE SubSeq(part, 1, received))
        /\ UNCHANGED <<total, received, digest, faults>>
    BY DEF Open, Goto
  <1>2. /\ ~linked /\ received <= total /\ received \in 0..MaxSize
        /\ IF part = None THEN received = 0 /\ digest = <<>>
           ELSE received <= Len(part) /\ digest = SubSeq(part, 1, received)
    BY <1>1 DEF ServerPart, Progress, Working, ServerTypes
  <1>3. digest \in Contents /\ Len(digest) = received
    <2>1. CASE part = None
      BY <1>2, <2>1, VersionsAreContents, EmptySeq
    <2>2. CASE part # None
      <3>1. part \in Contents
        BY <2>2 DEF ServerPart, FileTypes, FileType
      <3>2. Len(part) \in Nat
        BY <3>1, ContentsAreSeqs, LenProperties
      <3>3. received \in 0..Len(part)
        BY <1>2, <2>2, <3>2, MaxSizeBounds
      <3> QED
        BY <1>2, <2>2, <3>1, <3>3, PrefixOfContent
    <2> QED
      BY <2>1, <2>2
  <1>4. WritePart(digest)
    BY <1>1, <1>2
  <1>5. FileTypes' /\ DiskSound' /\ part' = digest /\ ~linked'
    BY <1>2, <1>3, <1>4, WritePartFacts DEF ServerPart
  <1>6. ServerTypes'
    BY <1>1 DEF ServerPart, ServerTypes
  <1>7. Progress'
    BY <1>1, <1>2, <1>3, <1>5 DEF Progress, DigestMatchesDisk
  <1> QED
    BY <1>1, <1>5, <1>6, <1>7 DEF ServerPart

LEMMA SaveKeepsServer ==
  ASSUME ServerPart, Save
  PROVE  ServerPart'
  <1>1. /\ spc = "saving" /\ spc' = resumeAt /\ resumeAt \in {"acking", "receiving"}
        /\ meta' = [total |-> total, bytes |-> received] /\ aged' = FALSE
        /\ UNCHANGED <<target, part, linked, unsynced, faults>>
        /\ UNCHANGED <<resumeAt, total, received, digest>>
    BY DEF Save, Goto, ServerPart, ServerTypes, Progress
  <1>2. /\ ~linked /\ received <= total /\ Len(digest) = received /\ part = digest
    BY <1>1 DEF ServerPart, Progress, Working, DigestMatchesDisk
  <1>3. received \in 0..MaxSize /\ total \in 0..MaxSize
    BY MaxSizeBounds DEF ServerPart, ServerTypes
  <1>4. FileTypes'
    BY <1>1, <1>2, <1>3 DEF ServerPart, FileTypes, MetaType, MaxSize
  <1>5. DiskSound' /\ ServerTypes'
    BY <1>1 DEF ServerPart, DiskSound, ServerTypes
  <1>6. Progress'
    BY <1>1, <1>2 DEF Progress, DigestMatchesDisk
  <1> QED
    BY <1>1, <1>4, <1>5, <1>6 DEF ServerPart

LEMMA AcknowledgeKeepsServer ==
  ASSUME ServerPart, Acknowledge
  PROVE  ServerPart'
  <1>1. /\ spc = "acking" /\ spc' = "receiving"
        /\ UNCHANGED <<target, part, meta, linked, unsynced, aged, faults>>
        /\ UNCHANGED <<resumeAt, total, received, digest>>
    BY DEF Acknowledge, Goto, disk
  <1>2. FileTypes' /\ DiskSound' /\ ServerTypes'
    BY <1>1 DEF ServerPart, FileTypes, DiskSound, ServerTypes
  <1>3. Progress'
    BY <1>1 DEF ServerPart, Progress, Working, DigestMatchesDisk
  <1> QED
    BY <1>1, <1>2, <1>3 DEF ServerPart

\* A chunk goes to the file and to the digest.
LEMMA WriteKeepsServer ==
  ASSUME ServerPart, WireTypes, Write
  PROVE  ServerPart'
  <1> DEFINE b == Head(up).data
  <1>1. /\ spc = "receiving" /\ up # <<>> /\ Verdict(Head(up)) = "ok"
        /\ Head(up).op = "FILE_CHUNK"
        /\ WritePart(Written(b))
        /\ digest' = Append(digest, b) /\ received' = received + 1
        /\ spc' = "saving" /\ resumeAt' = "receiving" /\ UNCHANGED <<total, faults>>
    BY DEF Write, Incoming, Goto
  <1>2. part = digest /\ Len(digest) = received /\ ~linked /\ digest \in Contents
    BY <1>1 DEF ServerPart, Progress, DigestMatchesDisk, ServerTypes, Working
  <1>3. received + 1 <= total /\ received + 1 <= MaxSize /\ received \in Nat
    BY <1>1, ChunkAccepted DEF ServerPart
  <1>4. b \in Blocks
    BY <1>1, FirstFrame, FramesAreTyped
  <1>5. /\ Written(b) = Append(digest, b) /\ Append(digest, b) \in Contents
        /\ Len(Append(digest, b)) = received + 1
    BY <1>2, <1>3, <1>4, WrittenAtEnd, ContentGrows
  <1>6. FileTypes' /\ DiskSound' /\ part' = digest' /\ ~linked'
    BY <1>1, <1>2, <1>5, WritePartFacts DEF ServerPart
  <1>7. ServerTypes'
    BY <1>1, <1>3, <1>5, MaxSizeBounds DEF ServerPart, ServerTypes
  <1>8. Progress'
    BY <1>1, <1>3, <1>5, <1>6 DEF Progress, DigestMatchesDisk
  <1> QED
    BY <1>1, <1>6, <1>7, <1>8 DEF ServerPart

\* What is synced and then linked is what the client's checksum vouches for.
LEMMA PublishingKeepsServer ==
  ASSUME ServerPart, WireTypes, ClaimsOffered, Sync \/ Link \/ Unlink
  PROVE  ServerPart'
  <1>1. UNCHANGED <<meta, aged, resumeAt, total, received, digest, faults>> /\ offered' = offered
    BY DEF Sync, Link, Unlink, client
  <1>2. ServerTypes' /\ FileTypes' /\ DiskSound' /\ Progress'
    <2>1. CASE Sync
      <3>1. /\ spc = "receiving" /\ up # <<>> /\ Verdict(Head(up)) = "ok"
            /\ Head(up).op = "FILE_CHECKSUM" /\ spc' = "linking"
            /\ unsynced' = unsynced \ (IF linked THEN {"part", "target"} ELSE {"part"})
            /\ UNCHANGED <<target, part, linked>>
        BY <2>1 DEF Sync, Incoming, Goto
      <3>2. ~linked
        BY <3>1 DEF ServerPart, Progress, Working
      <3>3. digest \in offered
        BY <3>1, ChecksumAccepted, FirstFrame DEF ClaimsOffered
      <3>4. FileTypes' /\ DiskSound' /\ ServerTypes'
        BY <1>1, <3>1, <3>2 DEF ServerPart, FileTypes, DiskSound, ServerTypes
      <3>5. Progress'
        BY <1>1, <3>1, <3>2, <3>3 DEF ServerPart, Progress, DigestMatchesDisk
      <3> QED
        BY <3>4, <3>5
    <2>2. CASE Link
      <3>1. /\ spc = "linking" /\ target' = part /\ linked' = TRUE /\ spc' = "unlinking"
            /\ unsynced' = unsynced \cup (IF "part" \in unsynced THEN {"target"} ELSE {})
            /\ part' = part
        BY <2>2 DEF Link, Goto
      <3>2. "part" \notin unsynced /\ part = digest /\ digest \in Contents /\ digest \in offered
        BY <3>1 DEF ServerPart, Progress, DigestMatchesDisk, ServerTypes
      <3>3. FileTypes' /\ ServerTypes'
        BY <1>1, <3>1, <3>2 DEF ServerPart, FileTypes, FileType, ServerTypes
      <3>4. DiskSound'
        BY <1>1, <3>1, <3>2, VersionsAreContents DEF ServerPart, DiskSound
      <3>5. Progress'
        BY <1>1, <3>1, <3>2 DEF ServerPart, Progress, Working, DigestMatchesDisk
      <3> QED
        BY <3>3, <3>4, <3>5
    <2>3. CASE Unlink
      <3>1. /\ spc = "unlinking" /\ part' = None /\ linked' = FALSE
            /\ unsynced' = unsynced \ {"part"} /\ spc' = "confirming" /\ target' = target
        BY <2>3 DEF Unlink, Goto
      <3>2. target = digest /\ digest \in offered
        BY <3>1 DEF ServerPart, Progress, DiskSound
      <3>3. FileTypes' /\ ServerTypes'
        BY <1>1, <3>1 DEF ServerPart, FileTypes, FileType, ServerTypes
      <3>4. DiskSound'
        BY <1>1, <3>1 DEF ServerPart, DiskSound
      <3>5. Progress'
        BY <1>1, <3>1, <3>2 DEF ServerPart, Progress, Working, DigestMatchesDisk
      <3> QED
        BY <3>3, <3>4, <3>5
    <2> QED
      BY <2>1, <2>2, <2>3
  <1> QED
    BY <1>1, <1>2 DEF ServerPart

\* Nothing that happens in the client, on the connection or around the two processes
\* disturbs the server's work.
LEMMA OthersKeepServer ==
  ASSUME ServerPart, offered \subseteq offered', faults' \in 0..MaxFaults,
         UNCHANGED <<part, meta, linked, unsynced, resumeAt, total, received, digest>>,
         aged' \in BOOLEAN,
         target' = target \/ (target = None /\ target' = Foreign),
         spc' = spc \/ spc' = "idle"
  PROVE  ServerPart'
  <1>1. ServerTypes'
    BY DEF ServerPart, ServerTypes
  <1>2. FileTypes' /\ DiskSound'
    BY DEF ServerPart, FileTypes, DiskSound
  <1>3. CASE spc' = "idle"
    BY <1>1, <1>2, <1>3, Stopped
  <1>4. CASE spc' = spc
    <2>1. spc = "confirming" => target' = target
      <3>1. ASSUME spc = "confirming" PROVE target # None
        BY <3>1, VersionsAreContents DEF ServerPart, Progress, ServerTypes
      <3> QED
        BY <3>1
    <2>2. Progress'
      BY <1>4, <2>1 DEF ServerPart, Progress, Working, DigestMatchesDisk
    <2> QED
      BY <1>1, <1>2, <2>2 DEF ServerPart
  <1> QED
    BY <1>3, <1>4

-------------------------------------------------------------------------------
(* The client's steps.                                                     *)

ClientPart == ClientTypes /\ ClientLocal

LEMMA ClientKept ==
  ASSUME ClientPart, UNCHANGED client
  PROVE  ClientPart'
  BY DEF ClientPart, ClientTypes, ClientLocal, client

\* A client that waits for its next request keeps no locals.
LEMMA ClientAtRest ==
  ASSUME ClientPart, cpc' \in {"away", "ready"}, size' = 0, sent' = 0, hashed' = <<>>,
         UNCHANGED <<source, edits, offered>>, confirmed' \in {confirmed, hashed}
  PROVE  ClientPart'
  <1>1. confirmed' \in FileType
    BY DEF ClientPart, ClientTypes, FileType
  <1>2. ClientTypes'
    BY <1>1, VersionsAreContents, MaxSizeBounds DEF ClientPart, ClientTypes
  <1>3. ClientLocal'
    BY DEF ClientLocal
  <1> QED
    BY <1>2, <1>3 DEF ClientPart

\* What the client sends last of all is what it hashed, block by block.
LEMMA SeekKeepsClient ==
  ASSUME ClientPart, WireTypes, Seek
  PROVE  ClientPart'
  <1> DEFINE n == Head(down).next
  <1>1. /\ cpc = "asked" /\ down # <<>> /\ Head(down).kind = "ACK"
        /\ n <= size /\ n <= Len(source)
        /\ sent' = n /\ hashed' = SubSeq(source, 1, n) /\ cpc' = "streaming"
        /\ UNCHANGED <<source, size, edits, offered, confirmed>>
    BY DEF Seek
  <1>2. n \in 0..MaxSize
    <2>1. Head(down) \in DownFrames
      BY <1>1, TailFacts DEF WireTypes
    <2> QED
      BY <1>1, <2>1 DEF DownFrames
  <1>3. source \in Contents /\ Len(source) \in Nat
    BY VersionsAreContents, MaxSizeBounds DEF ClientPart, ClientTypes
  <1>4. n \in 0..Len(source)
    BY <1>1, <1>2, <1>3, MaxSizeBounds
  <1>5. hashed' \in Contents /\ Len(hashed') = sent'
    BY <1>1, <1>3, <1>4, PrefixOfContent
  <1>6. ClientTypes'
    BY <1>1, <1>2, <1>5 DEF ClientPart, ClientTypes
  <1>7. ClientLocal'
    BY <1>1, <1>5 DEF ClientPart, ClientLocal
  <1> QED
    BY <1>6, <1>7 DEF ClientPart

LEMMA SendChunkKeepsClient ==
  ASSUME ClientPart, SendChunk
  PROVE  /\ ClientPart'
         /\ Chunk(sent, source[sent + 1]) \in UpFrames
  <1> DEFINE b == source[sent + 1]
  <1>1. /\ cpc = "streaming" /\ sent < Len(source) /\ sent < size
        /\ hashed' = Append(hashed, b) /\ sent' = sent + 1
        /\ UNCHANGED <<cpc, source, size, edits, offered, confirmed>>
    BY DEF SendChunk
  <1>2. /\ source \in Seq(Blocks) /\ Len(source) \in Nat /\ sent \in 0..MaxSize
        /\ size \in Nat /\ size <= MaxSize
        /\ hashed \in Contents /\ Len(hashed) = sent
    BY <1>1, VersionsAreContents, ContentsAreSeqs, MaxSizeBounds
    DEF ClientPart, ClientTypes, ClientLocal
  <1>3. sent + 1 \in 1..Len(source) /\ sent + 1 <= size /\ sent + 1 \in 0..MaxSize
    BY <1>1, <1>2, MaxSizeBounds
  <1>4. b \in Blocks
    BY <1>2, <1>3, ElementOfSeq
  <1>5. hashed' \in Contents /\ Len(hashed') = sent'
    BY <1>1, <1>2, <1>3, <1>4, ContentGrows
  <1>6. ClientTypes'
    BY <1>1, <1>3, <1>5 DEF ClientPart, ClientTypes
  <1>7. ClientLocal'
    BY <1>1, <1>3, <1>5 DEF ClientPart, ClientLocal
  <1>8. Chunk(sent, b) \in UpFrames
    BY <1>2, <1>4 DEF Chunk, UpFrames
  <1> QED
    BY <1>6, <1>7, <1>8 DEF ClientPart

LEMMA ClientStepsKeepClient ==
  ASSUME ClientPart, WireTypes,
         ClientStep \/ Abandon \/ Edit
  PROVE  ClientPart'
  <1>1. CASE Connect
    BY <1>1 DEF Connect, ClientPart, ClientTypes, ClientLocal
  <1>2. CASE Ask
    <2>1. cpc' = "asked" /\ size' = Len(source)
          /\ UNCHANGED <<source, sent, hashed, edits, offered, confirmed>>
      BY <1>2 DEF Ask
    <2>2. Len(source) \in Sizes
      BY VersionsAreContents DEF ClientPart, ClientTypes
    <2> QED
      BY <2>1, <2>2 DEF ClientPart, ClientTypes, ClientLocal
  <1>3. CASE SendChecksum
    <2>1. cpc = "streaming" /\ cpc' = "claimed" /\ offered' = offered \cup {hashed}
          /\ UNCHANGED <<source, size, sent, hashed, edits, confirmed>>
      BY <1>3 DEF SendChecksum
    <2> QED
      BY <2>1 DEF ClientPart, ClientTypes, ClientLocal
  <1>4. CASE Succeed \/ Fail
    <2>1. /\ cpc' = "ready" /\ size' = 0 /\ sent' = 0 /\ hashed' = <<>>
          /\ UNCHANGED <<source, edits, offered>> /\ confirmed' \in {confirmed, hashed}
      BY <1>4 DEF Succeed, Fail
    <2> QED
      BY <2>1, ClientAtRest
  <1>5. CASE GiveUp \/ Abandon
    <2>1. /\ cpc' = "away" /\ size' = 0 /\ sent' = 0 /\ hashed' = <<>>
          /\ UNCHANGED <<source, edits, offered>> /\ confirmed' = confirmed
      BY <1>5 DEF GiveUp, Abandon, HangUp
    <2> QED
      BY <2>1, ClientAtRest
  <1>6. CASE Edit
    <2>1. /\ edits < MaxEdits /\ edits' = edits + 1 /\ source' \in Versions
          /\ UNCHANGED <<cpc, size, sent, hashed, offered, confirmed>>
      BY <1>6 DEF Edit
    <2>2. edits' \in 0..MaxEdits
      BY <2>1, UploadAssumption DEF UploadAssumption, ClientPart, ClientTypes
    <2> QED
      BY <2>1, <2>2 DEF ClientPart, ClientTypes, ClientLocal
  <1> QED
    BY <1>1, <1>2, <1>3, <1>4, <1>5, <1>6, SeekKeepsClient, SendChunkKeepsClient DEF ClientStep

-------------------------------------------------------------------------------
(* The connection.                                                         *)

\* Frames towards the server are read from the front, lost from the back, or all gone.
LEMMA UpShrinks ==
  ASSUME WireTypes, ClaimsOffered, offered \subseteq offered',
         \/ up' = up \/ up' = <<>> \/ up' \in Prefixes(up)
         \/ up # <<>> /\ up' = Tail(up)
  PROVE  up' \in Seq(UpFrames) /\ Len(up') <= Window /\ ClaimsOffered'
  <1>1. up \in Seq(UpFrames) /\ Len(up) <= Window /\ Len(up) \in Nat /\ Window \in Nat
    BY UploadAssumption, LenProperties DEF WireTypes, UploadAssumption
  <1>2. CASE up' = up
    BY <1>1, <1>2 DEF ClaimsOffered
  <1>3. CASE up' = <<>>
    BY <1>1, <1>3, EmptySeq DEF ClaimsOffered
  <1>4. CASE up' \in Prefixes(up)
    <2>1. /\ up' \in Seq(UpFrames) /\ Len(up') \in Nat /\ Len(up') <= Len(up)
          /\ \A i \in 1..Len(up') : up'[i] = up[i] /\ i \in 1..Len(up)
      BY <1>1, <1>4, PrefixFacts
    <2> QED
      BY <1>1, <2>1 DEF ClaimsOffered
  <1>5. CASE up # <<>> /\ up' = Tail(up)
    <2>1. /\ up' \in Seq(UpFrames) /\ Len(up') = Len(up) - 1
          /\ \A i \in 1..Len(up') : up'[i] = up[i + 1] /\ i + 1 \in 1..Len(up)
      BY <1>1, <1>5, FirstFrame
    <2>2. ASSUME NEW i \in 1..Len(up'), up'[i].op = "FILE_CHECKSUM"
          PROVE  up'[i].digest \in offered'
      <3>1. up'[i] = up[i + 1] /\ i + 1 \in 1..Len(up)
        BY <2>1
      <3> QED
        BY <2>2, <3>1 DEF ClaimsOffered
    <2>3. Len(up') <= Window
      BY <1>1, <2>1
    <2> QED
      <3>1. ClaimsOffered'
        BY ONLY <2>2, Zenon DEF ClaimsOffered
      <3> QED
        BY <2>1, <2>3, <3>1
  <1> QED
    BY <1>2, <1>3, <1>4, <1>5

LEMMA UpGrows ==
  ASSUME WireTypes, ClaimsOffered, CanSend, NEW f \in UpFrames, up' = Append(up, f),
         offered \subseteq offered', f.op = "FILE_CHECKSUM" => f.digest \in offered'
  PROVE  /\ up' \in Seq(UpFrames) /\ Len(up') <= Window /\ ClaimsOffered'
         /\ Len(up) \in Nat /\ Len(up') = Len(up) + 1 /\ up'[Len(up')] = f
         /\ \A i \in 1..Len(up) : up'[i] = up[i]
  <1>1. up \in Seq(UpFrames) /\ Len(up) < Window /\ Len(up) \in Nat /\ Window \in Nat
    BY UploadAssumption, LenProperties DEF WireTypes, UploadAssumption, CanSend
  <1>2. /\ up' \in Seq(UpFrames) /\ Len(up') = Len(up) + 1 /\ up'[Len(up) + 1] = f
        /\ \A i \in 1..Len(up) : up'[i] = up[i]
    BY <1>1, AppendFacts
  <1>3. ASSUME NEW i \in 1..Len(up'), up'[i].op = "FILE_CHECKSUM"
        PROVE  up'[i].digest \in offered'
    <2>1. i \in 1..Len(up) \/ i = Len(up) + 1
      BY <1>1, <1>2
    <2> QED
      BY <1>2, <1>3, <2>1 DEF ClaimsOffered
  <1> QED
    BY <1>1, <1>2, <1>3 DEF ClaimsOffered

\* So are the frames towards the client.
LEMMA DownShrinks ==
  ASSUME WireTypes,
         \/ down' = down \/ down' = <<>> \/ down' \in Prefixes(down)
         \/ down # <<>> /\ down' = Tail(down)
  PROVE  /\ down' \in Seq(DownFrames) /\ Len(down') <= ReplyWindow
         /\ ReceiptSent' => ReceiptSent
  <1>1. /\ down \in Seq(DownFrames) /\ Len(down) <= ReplyWindow /\ Len(down) \in Nat
        /\ ReplyWindow \in Nat
    BY UploadAssumption, LenProperties DEF WireTypes, UploadAssumption
  <1>2. CASE down' = down
    BY <1>1, <1>2 DEF ReceiptSent
  <1>3. CASE down' = <<>>
    BY <1>1, <1>3, EmptySeq DEF ReceiptSent
  <1>4. CASE down' \in Prefixes(down)
    <2>1. /\ down' \in Seq(DownFrames) /\ Len(down') \in Nat /\ Len(down') <= Len(down)
          /\ \A i \in 1..Len(down') : down'[i] = down[i] /\ i \in 1..Len(down)
      BY <1>1, <1>4, PrefixFacts
    <2> QED
      BY <1>1, <2>1 DEF ReceiptSent
  <1>5. CASE down # <<>> /\ down' = Tail(down)
    <2>1. /\ down' \in Seq(DownFrames) /\ Len(down') = Len(down) - 1
          /\ \A i \in 1..Len(down') : down'[i] = down[i + 1] /\ i + 1 \in 1..Len(down)
      BY <1>1, <1>5, TailFacts
    <2> QED
      BY <1>1, <2>1 DEF ReceiptSent
  <1> QED
    BY <1>2, <1>3, <1>4, <1>5

WirePart == WireTypes /\ ClaimsOffered

\* No step of the server, except the last one of a publication, sends a receipt.
LEMMA ServerStepsKeepWire ==
  ASSUME WirePart, ServerTypes, ServerStep \/ CannotOpen \/ SaveFails \/ WriteFails
         \/ SyncFails \/ LinkFails \/ UnlinkFails \/ Crash \/ PowerLoss
  PROVE  /\ WirePart' /\ UNCHANGED client
         /\ ReceiptSent' => ReceiptSent \/ Confirm
  <1>1. UNCHANGED client
    BY DEF ServerStep, Begin, RejectStray, Expire, StartAfresh, Resume, RefuseInconsistent,
           CannotOpen, Open, Save, SaveFails, Acknowledge, Refuse, Write, WriteFails, Sync,
           SyncFails, Link, LinkExists, LinkFails, Unlink, UnlinkFails, Confirm, Clean,
           EndSession, Crash, PowerLoss, Restart
  <1>2. offered' = offered
    BY <1>1 DEF client
  <1>3. WireTypes /\ ClaimsOffered /\ link \in {"up", "lost"}
    BY DEF WirePart, WireTypes
  <1>4. \/ up' = up \/ up' = <<>>
        \/ up # <<>> /\ up' = Tail(up)
    BY DEF ServerStep, Begin, RejectStray, Expire, StartAfresh, Resume, RefuseInconsistent,
           CannotOpen, Open, Save, SaveFails, Acknowledge, Refuse, Write, WriteFails, Sync,
           SyncFails, Link, LinkExists, LinkFails, Unlink, UnlinkFails, Confirm, Clean,
           EndSession, Crash, PowerLoss, Restart, SessionOver, Incoming, wire
  <1>5. \/ UNCHANGED <<link, down>>
        \/ link' = "lost" /\ down' = down
        \/ \E op \in Ops, code \in Codes : Reply(Error(op, code))
        \/ Acknowledge \/ Confirm
    <2>1. CASE RejectStray \/ Refuse
      <3>1. up # <<>>
        BY <2>1 DEF RejectStray, Refuse
      <3>2. Head(up).op \in Ops
        BY <1>3, <3>1, FirstFrame
      <3>3. CASE RejectStray
        BY <3>2, <3>3 DEF RejectStray, Codes
      <3>4. CASE Refuse
        <4>1. Verdict(Head(up)) \in Codes
          BY <3>4 DEF Refuse, Verdict, Codes
        <4> QED
          BY <3>2, <3>4, <4>1 DEF Refuse
      <3> QED
        BY <2>1, <3>3, <3>4
    <2>2. CASE Begin
      BY <2>2 DEF Begin, Ops, Codes
    <2>3. CASE RefuseInconsistent
      BY <2>3 DEF RefuseInconsistent, Ops, Codes
    <2>4. CASE CannotOpen \/ WriteFails \/ SyncFails \/ LinkFails \/ UnlinkFails
      BY <2>4 DEF CannotOpen, WriteFails, SyncFails, LinkFails, UnlinkFails, Ops, Codes
    <2>5. CASE LinkExists
      BY <2>5 DEF LinkExists, Ops, Codes
    <2>6. CASE SaveFails \/ EndSession \/ Crash \/ PowerLoss
      BY <2>6 DEF SaveFails, EndSession, Crash, PowerLoss, SessionOver
    <2>7. CASE Expire \/ StartAfresh \/ Resume \/ Open \/ Save \/ Clean \/ Restart
      BY <2>7 DEF Expire, StartAfresh, Resume, Open, Save, Clean, Restart, wire
    <2>8. CASE Write \/ Sync \/ Link \/ Unlink
      BY <2>8 DEF Write, Sync, Link, Unlink, wire
    <2> QED
      BY <2>1, <2>2, <2>3, <2>4, <2>5, <2>6, <2>7, <2>8 DEF ServerStep
  <1>6. /\ up' \in Seq(UpFrames) /\ Len(up') <= Window /\ ClaimsOffered'
    BY <1>2, <1>3, <1>4, UpShrinks
  <1>7. /\ link' \in {"up", "lost"} /\ down' \in Seq(DownFrames) /\ Len(down') <= ReplyWindow
        /\ ReceiptSent' => ReceiptSent \/ Confirm
    <2>1. CASE UNCHANGED <<link, down>> \/ (link' = "lost" /\ down' = down)
      BY <1>3, <2>1, DownShrinks
    <2>2. CASE \E op \in Ops, code \in Codes : Reply(Error(op, code))
      <3>1. PICK op \in Ops, code \in Codes : Reply(Error(op, code))
        BY <2>2
      <3>2. Error(op, code) \in DownFrames /\ ~IsReceipt(Error(op, code))
        BY FramesAreTyped
      <3> QED
        BY <1>3, <3>1, <3>2, ReplyFacts
    <2>3. CASE Acknowledge \/ Confirm
      <3>1. PICK op \in {"FILE_UPLOAD", "FILE_CHECKSUM"} :
              Reply(Ack(op, received)) /\ (op = "FILE_CHECKSUM" => Confirm)
        BY <2>3 DEF Acknowledge, Confirm
      <3>2. Ack(op, received) \in DownFrames
        BY FramesAreTyped DEF Ops, ServerTypes
      <3>3. IsReceipt(Ack(op, received)) => Confirm
        BY <3>1 DEF IsReceipt, Ack
      <3> QED
        BY <1>3, <3>1, <3>2, <3>3, ReplyFacts
    <2> QED
      BY <1>5, <2>1, <2>2, <2>3
  <1> QED
    BY <1>1, <1>6, <1>7 DEF WirePart, WireTypes

LEMMA OthersKeepWire ==
  ASSUME WirePart, ClientPart,
         ClientStep \/ Abandon \/ LoseConnection \/ Intrude \/ Edit \/ Age
  PROVE  /\ WirePart' /\ offered \subseteq offered'
         /\ ReceiptSent' => ReceiptSent
  <1>1. offered \subseteq offered'
    BY DEF ClientStep, Connect, Ask, Seek, SendChunk, SendChecksum, Succeed, Fail, GiveUp,
           Abandon, LoseConnection, Intrude, Edit, Age, client
  <1>2. WireTypes /\ ClaimsOffered
    BY DEF WirePart
  <1>3. link' \in {"up", "lost"}
    <2>1. link' \in {link, "up", "lost"}
      BY DEF ClientStep, Connect, Ask, Seek, SendChunk, SendChecksum, Succeed, Fail, GiveUp,
             Abandon, LoseConnection, Intrude, Edit, Age, HangUp, wire
    <2> QED
      BY <1>2, <2>1 DEF WireTypes
  <1>4. \/ down' = down \/ down' = <<>> \/ down' \in Prefixes(down)
        \/ down # <<>> /\ down' = Tail(down)
    BY DEF ClientStep, Connect, Ask, Seek, SendChunk, SendChecksum, Succeed, Fail, GiveUp,
           Abandon, LoseConnection, Intrude, Edit, Age, HangUp, wire
  <1>5. up' \in Seq(UpFrames) /\ Len(up') <= Window /\ ClaimsOffered'
    <2>1. CASE Ask
      <3>1. Request(Len(source)) \in UpFrames /\ Request(Len(source)).op # "FILE_CHECKSUM"
        BY VersionsAreContents DEF ClientPart, ClientTypes, Request, UpFrames
      <3> QED
        BY <1>1, <1>2, <2>1, <3>1, UpGrows DEF Ask
    <2>2. CASE SendChunk
      <3>1. /\ Chunk(sent, source[sent + 1]) \in UpFrames
            /\ Chunk(sent, source[sent + 1]).op # "FILE_CHECKSUM"
        BY <2>2, SendChunkKeepsClient DEF Chunk
      <3> QED
        BY <1>1, <1>2, <2>2, <3>1, UpGrows DEF SendChunk
    <2>3. CASE SendChecksum
      <3>1. Checksum(sent, hashed) \in UpFrames /\ Checksum(sent, hashed).digest = hashed
        BY DEF ClientPart, ClientTypes, Checksum, UpFrames
      <3>2. up' = Append(up, Checksum(sent, hashed)) /\ CanSend /\ hashed \in offered'
        BY <2>3 DEF SendChecksum
      <3> QED
        BY <1>1, <1>2, <3>1, <3>2, UpGrows
    <2>4. CASE Connect \/ Seek \/ Succeed \/ Fail \/ GiveUp \/ Abandon \/ LoseConnection
               \/ Intrude \/ Edit \/ Age
      <3>1. up' = up \/ up' = <<>> \/ up' \in Prefixes(up)
        BY <2>4 DEF Connect, Seek, Succeed, Fail, GiveUp, Abandon, LoseConnection, Intrude,
                    Edit, Age, HangUp, wire
      <3> QED
        BY <1>1, <1>2, <3>1, UpShrinks
    <2> QED
      BY <2>1, <2>2, <2>3, <2>4 DEF ClientStep
  <1>6. /\ down' \in Seq(DownFrames) /\ Len(down') <= ReplyWindow
        /\ ReceiptSent' => ReceiptSent
    BY <1>2, <1>4, DownShrinks
  <1> QED
    BY <1>1, <1>3, <1>5, <1>6 DEF WirePart, WireTypes

-------------------------------------------------------------------------------
(* Who has been told what.                                                 *)

Busy == Working \cup {"unlinking"}

\* What has been told stays true as long as the destination is left alone.
LEMMA TaleKept ==
  ASSUME Published, ReceiptTrue, offered \subseteq offered',
         ReceiptSent' => ReceiptSent,
         confirmed' # None => confirmed # None \/ ReceiptSent,
         spc' = "confirming" => spc = "confirming",
         Told => target' = target /\ (spc' \in Busy => spc \in Busy),
         cpc' = "claimed" => cpc = "claimed" /\ hashed' = hashed
  PROVE  Published' /\ ReceiptTrue'
  <1>1. Told' => Told
    BY DEF Told
  <1>2. Published'
    BY <1>1 DEF Published, Busy
  <1>3. ReceiptTrue'
    BY DEF ReceiptTrue, Told
  <1> QED
    BY <1>2, <1>3

\* Where a client has been told of a file there is one.
LEMMA ToldOfAFile ==
  ASSUME IInv, Told
  PROVE  target # None /\ spc \notin Busy
  <1>1. target \in offered /\ offered \subseteq Contents /\ spc \notin Busy
    BY DEF IInv, Published, ClientTypes, Busy
  <1> QED
    BY <1>1, VersionsAreContents

\* Only publishing a file, or taking the publication back, changes the destination.
LEMMA DestinationStays ==
  ASSUME DiskSound, Progress, ~Link, ~UnlinkFails,
         ServerStep \/ CannotOpen \/ SaveFails \/ WriteFails \/ SyncFails \/ LinkFails
         \/ Crash \/ PowerLoss
  PROVE  target' = target
  <1>1. CASE PowerLoss
    BY <1>1 DEF PowerLoss, DiskSound
  <1>2. CASE Open \/ Write \/ WriteFails
    <2>1. ~linked
      BY <1>2 DEF Open, Write, WriteFails, Incoming, Progress, Working
    <2> QED
      BY <1>2, <2>1 DEF Open, Write, WriteFails, WritePart
  <1>3. CASE ~PowerLoss /\ ~Open /\ ~Write /\ ~WriteFails
    BY <1>3
    DEF ServerStep, Begin, RejectStray, Expire, StartAfresh, Resume, RefuseInconsistent,
        CannotOpen, Save, SaveFails, Acknowledge, Refuse, Sync, SyncFails, LinkExists,
        LinkFails, Unlink, Confirm, Clean, EndSession, Crash, Restart, Wipe, disk
  <1> QED
    BY <1>1, <1>2, <1>3

LEMMA ServerStepsTell ==
  ASSUME IInv,
         ServerStep \/ CannotOpen \/ SaveFails \/ WriteFails \/ SyncFails \/ LinkFails
         \/ UnlinkFails \/ Crash \/ PowerLoss
  PROVE  Published' /\ ReceiptTrue'
  <1>1. /\ Published /\ ReceiptTrue /\ Dialogue /\ WirePart /\ ServerTypes /\ Progress
        /\ DiskSound /\ FileTypes /\ link \in {"up", "lost"}
    BY DEF IInv, WirePart, WireTypes
  <1>2. UNCHANGED client /\ (ReceiptSent' => ReceiptSent \/ Confirm)
    BY <1>1, ServerStepsKeepWire
  <1>3. UNCHANGED <<offered, confirmed, cpc, hashed>>
    BY <1>2 DEF client
  <1>4. CASE Unlink
    <2>1. spc = "unlinking" /\ spc' = "confirming" /\ target' = target /\ down' = down
      BY <1>4 DEF Unlink, Goto, wire
    <2>2. target = digest /\ digest \in offered
      BY <1>1, <2>1 DEF Progress, DiskSound
    <2>3. Published'
      BY <1>3, <2>1, <2>2 DEF Published, Working
    <2>4. ReceiptTrue'
      BY <1>1, <1>3, <2>1 DEF ReceiptTrue, ReceiptSent
    <2> QED
      BY <2>3, <2>4
  <1>5. CASE Confirm
    <2>1. /\ spc = "confirming" /\ spc' = "cleaning" /\ target' = target
          /\ Reply(Ack("FILE_CHECKSUM", received))
      BY <1>5 DEF Confirm, Goto
    <2>2. target = digest /\ target \in offered
      BY <1>1, <2>1 DEF Progress, Published, Told
    <2>3. Published'
      BY <1>3, <2>1, <2>2 DEF Published, Working
    <2>4. CASE link = "up"
      <3>1. cpc = "claimed" => hashed = digest
        BY <1>1, <2>1, <2>4 DEF Dialogue, TransferPending, Free, Receiving
      <3> QED
        BY <1>3, <2>1, <2>2, <2>3, <3>1 DEF ReceiptTrue
    <2>5. CASE link # "up"
      <3>1. down' = down
        BY <2>1, <2>5 DEF Reply
      <3> QED
        BY <1>1, <1>3, <2>1, <2>3, <3>1 DEF ReceiptTrue, ReceiptSent
    <2> QED
      BY <2>4, <2>5
  <1>6. CASE ~Unlink /\ ~Confirm
    <2>1. Told => target' = target
      <3>1. CASE Link \/ UnlinkFails
        <4>1. spc \in Busy
          BY <3>1 DEF Link, UnlinkFails, Busy, Working
        <4> QED
          BY <4>1, ToldOfAFile
      <3>2. CASE ~Link /\ ~UnlinkFails
        BY <1>1, <3>2, DestinationStays
      <3> QED
        BY <3>1, <3>2
    <2>2. Told => (spc' \in Busy => spc \in Busy)
      <3>1. CASE Begin
        <4>1. spc = "idle" /\ (target # None => spc' = spc)
          BY <3>1 DEF Begin
        <4> QED
          BY <4>1, ToldOfAFile
      <3>2. CASE ~Begin
        <4>1. \/ spc \in Busy \/ spc' \in {"idle", "cleaning", "gone", "down"}
          BY <1>6, <3>2
          DEF ServerStep, RejectStray, Expire, StartAfresh, Resume, RefuseInconsistent,
              CannotOpen, Open, Save, SaveFails, Acknowledge, Refuse, Write, WriteFails, Sync,
              SyncFails, Link, LinkExists, LinkFails, UnlinkFails, Clean, EndSession, Crash,
              PowerLoss, Restart, SessionOver, Incoming, Goto, server, Busy, Working
        <4> QED
          BY <4>1 DEF Busy, Working
      <3> QED
        BY <3>1, <3>2
    <2>3. spc' # "confirming"
      BY <1>1, <1>6
      DEF ServerStep, Begin, RejectStray, Expire, StartAfresh, Resume, RefuseInconsistent,
          CannotOpen, Open, Save, SaveFails, Acknowledge, Refuse, Write, WriteFails, Sync,
          SyncFails, Link, LinkExists, LinkFails, UnlinkFails, Clean, EndSession, Crash,
          PowerLoss, Restart, SessionOver, Incoming, Start, Goto, server, ServerTypes
    <2> QED
      BY <1>1, <1>2, <1>3, <1>6, <2>1, <2>2, <2>3, TaleKept
  <1> QED
    BY <1>4, <1>5, <1>6

LEMMA OthersTell ==
  ASSUME IInv,
         ClientStep \/ Abandon \/ LoseConnection \/ Intrude \/ Edit \/ Age
  PROVE  Published' /\ ReceiptTrue'
  <1>1. /\ Published /\ ReceiptTrue /\ Dialogue /\ WirePart /\ ClientPart
        /\ WireTypes
    BY DEF IInv, WirePart, ClientPart
  <1>2. offered \subseteq offered' /\ (ReceiptSent' => ReceiptSent)
    BY <1>1, OthersKeepWire
  <1>3. Told => target' = target
    <2>1. CASE Intrude
      BY <2>1, ToldOfAFile DEF Intrude
    <2>2. CASE ~Intrude
      BY <2>2 DEF ClientStep, Connect, Ask, Seek, SendChunk, SendChecksum, Succeed, Fail,
                  GiveUp, Abandon, LoseConnection, Edit, Age, disk
    <2> QED
      BY <2>1, <2>2
  <1>4. spc' \in {spc, "idle"}
    BY DEF ClientStep, Connect, Ask, Seek, SendChunk, SendChecksum, Succeed, Fail, GiveUp,
           Abandon, LoseConnection, Intrude, Edit, Age, Goto, server
  <1>5. confirmed' # None => confirmed # None \/ ReceiptSent
    <2>1. CASE Succeed
      <3>1. /\ down # <<>> /\ Head(down).kind = "ACK" /\ Head(down).op = "FILE_CHECKSUM"
        BY <2>1 DEF Succeed
      <3>2. Head(down) = down[1] /\ 1 \in 1..Len(down)
        BY <1>1, <3>1, TailFacts DEF WireTypes
      <3> QED
        BY <3>1, <3>2 DEF ReceiptSent, IsReceipt
    <2>2. CASE ~Succeed
      BY <2>2 DEF ClientStep, Connect, Ask, Seek, SendChunk, SendChecksum, Fail, GiveUp,
                  Abandon, LoseConnection, Intrude, Edit, Age, client
    <2> QED
      BY <2>1, <2>2
  <1>6. CASE SendChecksum
    <2>1. /\ cpc = "streaming" /\ link = "up" /\ UNCHANGED <<target, confirmed, spc, down>>
      BY <1>6 DEF SendChecksum, CanSend, disk, server
    <2>2. ~ReceiptSent
      BY <1>1, <2>1 DEF Dialogue, TransferPending, ReceiptSent, IsReceipt
    <2>3. ReceiptTrue'
      BY <1>2, <2>2 DEF ReceiptTrue
    <2>4. Published'
      BY <1>1, <1>2, <2>1 DEF Published, Told
    <2> QED
      BY <2>3, <2>4
  <1>7. CASE ~SendChecksum
    <2>1. cpc' = "claimed" => cpc = "claimed" /\ hashed' = hashed
      BY <1>7 DEF ClientStep, Connect, Ask, Seek, SendChunk, Succeed, Fail, GiveUp, HangUp,
                  Abandon, LoseConnection, Intrude, Edit, Age, client
    <2>2. Told => target' = target /\ (spc' \in Busy => spc \in Busy)
      BY <1>3, <1>4 DEF Busy, Working
    <2> QED
      BY <1>1, <1>2, <1>4, <1>5, <2>1, <2>2, TaleKept
  <1> QED
    BY <1>6, <1>7

-------------------------------------------------------------------------------
(* The dialogue.                                                           *)

\* The server answers with an error to the frame it reads first and leaves the transfer;
\* the frames behind it will be answered with errors too.
LEMMA TransferRefused ==
  ASSUME WireTypes, link = "up", cpc \in {"streaming", "claimed"}, TransferPending,
         up # <<>>, up' = Tail(up), Free', UNCHANGED <<cpc, hashed>>,
         NEW code \in Codes, Reply(Error(Head(up).op, code))
  PROVE  TransferPending'
  <1> DEFINE r == Error(Head(up).op, code)
  <1>1. /\ Head(up) = up[1] /\ Len(up) \in Nat /\ Len(up) >= 1 /\ Len(up') = Len(up) - 1
        /\ \A i \in 1..Len(up') : up'[i] = up[i + 1] /\ i + 1 \in 1..Len(up)
        /\ Len(up) = 1 => up' = <<>>
        /\ Head(up).op \in Ops
    BY FirstFrame
  <1>2. 1 \in 1..Len(up) /\ Head(up).op # "FILE_UPLOAD"
    <2>1. 1 \in 1..Len(up)
      BY <1>1
    <2>2. up[1].op # "FILE_UPLOAD"
      BY <2>1, Zenon DEF TransferPending
    <2> QED
      BY <1>1, <2>1, <2>2
  <1>3. r \in DownFrames /\ r.op = Head(up).op
    BY <1>1, FramesAreTyped DEF Error
  <1>4. /\ Len(down) \in Nat /\ Len(down') = Len(down) + 1 /\ down'[Len(down')] = r
        /\ \A i \in 1..Len(down) : down'[i] = down[i]
    BY <1>3, ReplyFacts
  <1>5. ASSUME NEW i \in 1..Len(up')
        PROVE  /\ up'[i].op # "FILE_UPLOAD"
               /\ up'[i].op = "FILE_CHECKSUM" =>
                    cpc' = "claimed" /\ i = Len(up') /\ up'[i].digest = hashed'
    <2>1. up'[i] = up[i + 1] /\ i + 1 \in 1..Len(up)
      BY <1>1, Zenon
    <2>2. i + 1 = Len(up) => i = Len(up')
      <3>1. Len(up) \in Nat /\ Len(up') = Len(up) - 1 /\ i \in Int
        BY <1>1
      <3>2. \A n \in Nat, j \in Int : j + 1 = n => j = n - 1
        OBVIOUS
      <3> QED
        BY <3>1, <3>2, Zenon
    <2> QED
      BY <2>1, <2>2 DEF TransferPending
  <1>6. ASSUME NEW i \in 1..Len(down')
        PROVE  /\ down'[i].op # "FILE_UPLOAD"
               /\ down'[i].op = "FILE_CHECKSUM" => cpc' = "claimed" /\ i = Len(down') /\ up' = <<>>
    <2>1. CASE i \in 1..Len(down)
      <3>1. down[i].op # "FILE_UPLOAD" /\ (down[i].op = "FILE_CHECKSUM" => up = <<>>)
        BY <2>1, Zenon DEF TransferPending
      <3>2. down'[i] = down[i]
        BY <1>4, <2>1
      <3> QED
        BY <3>1, <3>2
    <2>2. CASE i = Len(down')
      <3>1. Head(up).op = "FILE_CHECKSUM" => cpc = "claimed" /\ Len(up) = 1
        BY <1>1, <1>2 DEF TransferPending
      <3> QED
        BY <1>1, <1>2, <1>3, <1>4, <2>2, <3>1, SMTT(30)
    <2> QED
      BY <1>4, <2>1, <2>2
  <1> QED
    BY <1>5, <1>6 DEF TransferPending

\* The server works towards its first acknowledgement, and says nothing.
LEMMA PreparationGoesOn ==
  ASSUME ClientTypes, Dialogue, Preparing, Preparing', UNCHANGED <<client, wire>>
  PROVE  Dialogue'
  <1> SUFFICES ASSUME link' = "up" PROVE Dialogue'
    BY DEF Dialogue
  <1>1. cpc' = cpc /\ up' = up /\ down' = down /\ link = "up"
    BY DEF client, wire
  <1>2. ~Free /\ ~Receiving /\ ~Publishing /\ spc' \notin {"gone", "down"}
    BY DEF Preparing, Free, Receiving, Publishing
  <1>3. cpc = "asked" /\ Quiet
    BY <1>1, <1>2 DEF Dialogue, RequestPending, TransferPending, ClientTypes, Preparing, Quiet
  <1>4. RequestPending'
    BY <1>1, <1>3 DEF RequestPending, Quiet
  <1> QED
    BY <1>1, <1>2, <1>3, <1>4 DEF Dialogue

\* The first acknowledgement, or the refusal of the request.
LEMMA RequestAnswered ==
  ASSUME ClientTypes, ServerTypes, WireTypes, Dialogue, Preparing, NEW r \in DownFrames, Reply(r),
         r.op = "FILE_UPLOAD", UNCHANGED <<client, up>>,
         spc' = IF r.kind = "ACK" THEN "receiving" ELSE "idle"
  PROVE  Dialogue'
  <1> SUFFICES ASSUME link' = "up" PROVE Dialogue'
    BY DEF Dialogue
  <1>1. cpc' = cpc /\ up' = up /\ link = "up"
    BY ReplyFacts DEF client
  <1>2. ~Free /\ ~Receiving /\ ~Publishing
    BY DEF Preparing, Free, Receiving, Publishing
  <1>3. cpc = "asked" /\ Quiet
    BY <1>1, <1>2 DEF Dialogue, RequestPending, TransferPending, ClientTypes, Preparing, Quiet
  <1>4. down = <<>> /\ Len(down) = 0
    BY <1>3, EmptySeq DEF Quiet
  <1>5. Len(down') = 1 /\ down'[1] = r
    BY <1>1, <1>4, ReplyFacts
  <1>6. RequestPending'
    BY <1>1, <1>3, <1>5 DEF RequestPending, Quiet
  <1> QED
    BY <1>1, <1>3, <1>6 DEF Dialogue


\* Nothing is said while the disk is at work, and the server gets on.
LEMMA WorkGoesOn ==
  ASSUME ClientTypes, Dialogue, UNCHANGED <<client, wire, digest>>,
         \/ spc = "saving" /\ resumeAt = "receiving" /\ spc' = "receiving"
         \/ spc \in {"linking", "unlinking"} /\ Publishing'
         \/ spc = "cleaning" /\ spc' = "idle"
  PROVE  Dialogue'
  <1> SUFFICES ASSUME link' = "up" PROVE Dialogue'
    BY DEF Dialogue
  <1>1. /\ cpc' = cpc /\ hashed' = hashed /\ up' = up /\ down' = down /\ link = "up"
        /\ digest' = digest
    BY DEF client, wire
  <1>2. spc' \notin {"gone", "down"}
    BY DEF Publishing
  <1>3. CASE cpc = "ready"
    BY <1>1, <1>2, <1>3 DEF Dialogue, Quiet, Free
  <1>4. CASE cpc = "asked"
    BY <1>1, <1>2, <1>4 DEF Dialogue, RequestPending, Quiet, Free, Preparing
  <1>5. CASE cpc \in {"streaming", "claimed"}
    <2>1. TransferPending
      BY <1>1, <1>5 DEF Dialogue
    <2>2. /\ down # <<>> => Free'
          /\ \/ Free' \/ Receiving'
             \/ Publishing' /\ cpc = "claimed" /\ Quiet /\ hashed = digest
      BY <2>1 DEF TransferPending, Free, Receiving, Publishing
    <2>3. TransferPending'
      BY <1>1, <2>1, <2>2 DEF TransferPending, Quiet
    <2> QED
      BY <1>1, <1>2, <1>5, <2>3 DEF Dialogue
  <1> QED
    BY <1>1, <1>3, <1>4, <1>5 DEF Dialogue, ClientTypes

\* The last answer, whatever it is.
LEMMA PublicationAnswered ==
  ASSUME ClientTypes, WireTypes, Dialogue, Publishing, NEW r \in DownFrames, Reply(r),
         r.op = "FILE_CHECKSUM", UNCHANGED <<client, up>>, Free'
  PROVE  Dialogue'
  <1> SUFFICES ASSUME link' = "up" PROVE Dialogue'
    BY DEF Dialogue
  <1>1. cpc' = cpc /\ up' = up /\ link = "up"
    BY ReplyFacts DEF client
  <1>2. ~Free /\ ~Receiving /\ ~Preparing /\ spc # "receiving"
    BY DEF Preparing, Free, Receiving, Publishing
  <1>3. cpc = "claimed" /\ Quiet
    BY <1>1, <1>2
    DEF Dialogue, RequestPending, TransferPending, ClientTypes, Publishing
  <1>4. down = <<>> /\ Len(down) = 0 /\ up' = <<>> /\ Len(up') = 0
    BY <1>1, <1>3, EmptySeq DEF Quiet
  <1>5. Len(down') = 1 /\ down'[1] = r
    BY <1>1, <1>4, ReplyFacts
  <1>6. TransferPending'
    BY <1>1, <1>3, <1>4, <1>5 DEF TransferPending
  <1>7. spc' \notin {"gone", "down"}
    BY DEF Free
  <1> QED
    BY <1>1, <1>3, <1>6, <1>7 DEF Dialogue

\* A frame of a transfer that is over, or cannot go on.
LEMMA FrameRefused ==
  ASSUME ClientTypes, WireTypes, Dialogue, up # <<>>, up' = Tail(up),
         spc = "receiving" \/ (spc = "idle" /\ Head(up).op # "FILE_UPLOAD"),
         NEW code \in Codes, Reply(Error(Head(up).op, code)),
         UNCHANGED client, Free'
  PROVE  Dialogue'
  <1> SUFFICES ASSUME link' = "up" PROVE Dialogue'
    BY DEF Dialogue
  <1>1. Head(up) = up[1] /\ Head(up).op \in Ops
    BY FirstFrame
  <1>2. cpc' = cpc /\ hashed' = hashed /\ link = "up"
    <2>1. Error(Head(up).op, code) \in DownFrames
      BY <1>1, FramesAreTyped
    <2> QED
      BY <2>1, ReplyFacts DEF client
  <1>3. cpc # "ready" /\ cpc # "away"
    BY <1>2 DEF Dialogue, Quiet
  <1>4. cpc # "asked"
    BY <1>1, <1>2 DEF Dialogue, RequestPending, Quiet, Free
  <1>5. cpc \in {"streaming", "claimed"} /\ TransferPending
    BY <1>2, <1>3, <1>4 DEF Dialogue, ClientTypes
  <1>6. TransferPending'
    BY <1>2, <1>5, TransferRefused
  <1> QED
    BY <1>2, <1>5, <1>6 DEF Dialogue, Free

LEMMA BeginKeepsDialogue ==
  ASSUME ClientTypes, WireTypes, Dialogue, Begin
  PROVE  Dialogue'
  <1> SUFFICES ASSUME link' = "up" PROVE Dialogue'
    BY DEF Dialogue
  <1>1. /\ spc = "idle" /\ up # <<>> /\ Head(up).op = "FILE_UPLOAD" /\ up' = Tail(up)
        /\ cpc' = cpc
        /\ \/ Reply(Error("FILE_UPLOAD", "FILE_EXISTS")) /\ spc' = "idle"
           \/ spc' = "expiring" /\ UNCHANGED <<link, down>>
    BY DEF Begin, Goto, client
  <1>2. Error("FILE_UPLOAD", "FILE_EXISTS") \in DownFrames
    BY FramesAreTyped DEF Ops, Codes
  <1>3. link = "up"
    BY <1>1, <1>2, ReplyFacts
  <1>4. Head(up) = up[1] /\ 1 \in 1..Len(up) /\ (Len(up) = 1 => up' = <<>>)
    BY <1>1, FirstFrame
  <1>5. cpc = "asked" /\ Len(up) = 1 /\ down = <<>>
    BY <1>1, <1>3, <1>4
    DEF Dialogue, ClientTypes, Quiet, Preparing, RequestPending, TransferPending
  <1>6. up' = <<>>
    BY <1>4, <1>5
  <1>7. CASE Reply(Error("FILE_UPLOAD", "FILE_EXISTS")) /\ spc' = "idle"
    <2>1. Len(down) = 0
      BY <1>5, EmptySeq
    <2>2. Len(down') = 1 /\ down'[1] = Error("FILE_UPLOAD", "FILE_EXISTS")
      BY <1>2, <1>3, <1>7, <2>1, ReplyFacts
    <2>3. RequestPending'
      BY <1>6, <1>7, <2>2 DEF RequestPending, Error
    <2> QED
      BY <1>1, <1>5, <1>7, <2>3 DEF Dialogue
  <1>8. CASE spc' = "expiring" /\ UNCHANGED <<link, down>>
    <2>1. RequestPending'
      BY <1>5, <1>6, <1>8 DEF RequestPending, Quiet, Preparing
    <2> QED
      BY <1>1, <1>5, <1>8, <2>1 DEF Dialogue
  <1> QED
    BY <1>1, <1>7, <1>8

\* A chunk is taken; the checksum is taken when nothing is behind it.
LEMMA AcceptedKeepsDialogue ==
  ASSUME ClientTypes, WireTypes, Dialogue, Write \/ Sync
  PROVE  Dialogue'
  <1> SUFFICES ASSUME link' = "up" PROVE Dialogue'
    BY DEF Dialogue
  <1>1. /\ spc = "receiving" /\ up # <<>> /\ up' = Tail(up)
        /\ cpc' = cpc /\ hashed' = hashed /\ link = "up" /\ down' = down
        /\ Verdict(Head(up)) = "ok"
    BY DEF Write, Sync, Incoming, client
  <1>2. /\ Head(up) = up[1] /\ 1 \in 1..Len(up) /\ (Len(up) = 1 => up' = <<>>)
        /\ Len(up) \in Nat /\ Len(up') = Len(up) - 1
        /\ \A i \in 1..Len(up') : up'[i] = up[i + 1] /\ i + 1 \in 1..Len(up)
    BY <1>1, FirstFrame
  <1>3. cpc \in {"streaming", "claimed"} /\ TransferPending /\ down = <<>>
    BY <1>1 DEF Dialogue, ClientTypes, Quiet, Free, Preparing, RequestPending, TransferPending
  <1>4. Len(down) = 0
    BY <1>3, EmptySeq
  <1>5. ASSUME NEW i \in 1..Len(up')
        PROVE  /\ up'[i].op # "FILE_UPLOAD"
               /\ up'[i].op = "FILE_CHECKSUM" =>
                    cpc' = "claimed" /\ i = Len(up') /\ up'[i].digest = hashed'
    <2>1. up'[i] = up[i + 1] /\ i + 1 \in 1..Len(up)
      BY <1>2, Zenon
    <2>2. i + 1 = Len(up) => i = Len(up')
      <3>1. Len(up) \in Nat /\ Len(up') = Len(up) - 1 /\ i \in Int
        BY <1>2
      <3>2. \A n \in Nat, j \in Int : j + 1 = n => j = n - 1
        OBVIOUS
      <3> QED
        BY <3>1, <3>2, Zenon
    <2> QED
      BY <1>1, <1>3, <2>1, <2>2 DEF TransferPending
  <1>6. CASE Write
    <2>1. spc' = "saving" /\ resumeAt' = "receiving"
      BY <1>6 DEF Write, Goto
    <2>2. TransferPending'
      BY <1>1, <1>3, <1>4, <1>5, <2>1 DEF TransferPending, Receiving
    <2> QED
      BY <1>1, <1>3, <2>1, <2>2 DEF Dialogue
  <1>7. CASE Sync
    <2>1. spc' = "linking" /\ Head(up).op = "FILE_CHECKSUM" /\ digest' = digest
      BY <1>7 DEF Sync, Incoming, Goto
    <2>2. cpc = "claimed" /\ Len(up) = 1 /\ up[1].digest = hashed
      BY <1>2, <1>3, <2>1 DEF TransferPending
    <2>3. up[1].digest = digest
      BY <1>1, <1>2, <2>1, ChecksumAccepted
    <2>4. TransferPending'
      BY <1>1, <1>2, <1>3, <1>4, <1>5, <2>1, <2>2, <2>3
      DEF TransferPending, Publishing, Quiet
    <2> QED
      BY <1>1, <1>3, <2>1, <2>4 DEF Dialogue
  <1> QED
    BY <1>6, <1>7

LEMMA ServerStepsKeepDialogue ==
  ASSUME ClientTypes, ServerTypes, WireTypes, Progress, Dialogue, UNCHANGED client,
         ServerStep \/ CannotOpen \/ SaveFails \/ WriteFails \/ SyncFails \/ LinkFails
         \/ UnlinkFails \/ Crash \/ PowerLoss
  PROVE  Dialogue'
  <1>1. CASE Begin
    BY <1>1, BeginKeepsDialogue
  <1>2. CASE Write \/ Sync
    BY <1>2, AcceptedKeepsDialogue
  <1>3. CASE Expire \/ StartAfresh \/ Resume \/ Open
    <2>1. Preparing /\ Preparing' /\ UNCHANGED wire
      BY <1>3 DEF Expire, StartAfresh, Resume, Open, Start, Goto, Preparing, wire
    <2> QED
      BY <2>1, PreparationGoesOn
  <1>4. CASE Save
    <2>1. /\ spc = "saving" /\ spc' = resumeAt /\ resumeAt' = resumeAt
          /\ UNCHANGED wire /\ UNCHANGED digest
          /\ resumeAt \in {"acking", "receiving"}
      BY <1>4 DEF Save, Goto, ServerTypes, Progress
    <2>2. CASE resumeAt = "acking"
      BY <2>1, <2>2, PreparationGoesOn DEF Preparing
    <2>3. CASE resumeAt = "receiving"
      BY <2>1, <2>3, WorkGoesOn
    <2> QED
      BY <2>1, <2>2, <2>3
  <1>5. CASE Acknowledge
    <2>1. /\ spc = "acking" /\ spc' = "receiving" /\ up' = up
          /\ Reply(Ack("FILE_UPLOAD", received))
      BY <1>5 DEF Acknowledge, Goto
    <2>2. Ack("FILE_UPLOAD", received) \in DownFrames
      BY FramesAreTyped DEF Ops, ServerTypes
    <2>3. /\ Ack("FILE_UPLOAD", received).op = "FILE_UPLOAD"
          /\ Ack("FILE_UPLOAD", received).kind = "ACK"
      BY DEF Ack
    <2> QED
      BY <2>1, <2>2, <2>3, RequestAnswered DEF Preparing
  <1>6. CASE RefuseInconsistent \/ CannotOpen
    <2>1. PICK code \in {"RESUME_METADATA_MISMATCH", "FILE_IO_ERROR"} :
            /\ spc \in {"examining", "opening"} /\ spc' = "idle" /\ up' = up
            /\ Reply(Error("FILE_UPLOAD", code))
      BY <1>6 DEF RefuseInconsistent, CannotOpen, Goto
    <2>2. Error("FILE_UPLOAD", code) \in DownFrames
      BY FramesAreTyped DEF Ops, Codes
    <2>3. Error("FILE_UPLOAD", code).op = "FILE_UPLOAD" /\ Error("FILE_UPLOAD", code).kind # "ACK"
      BY DEF Error
    <2> QED
      BY <2>1, <2>2, <2>3, RequestAnswered DEF Preparing
  <1>7. CASE RejectStray \/ Refuse \/ WriteFails \/ SyncFails
    <2>1. /\ up # <<>> /\ up' = Tail(up) /\ spc' \in {"idle", "cleaning"}
          /\ spc = "receiving" \/ (spc = "idle" /\ Head(up).op # "FILE_UPLOAD")
      BY <1>7 DEF RejectStray, Refuse, WriteFails, SyncFails, Incoming, Goto, server
    <2>2. \E code \in Codes : Reply(Error(Head(up).op, code))
      <3>1. CASE RejectStray
        BY <3>1 DEF RejectStray, Codes
      <3>2. CASE Refuse
        BY <3>2 DEF Refuse, Verdict, Codes
      <3>3. CASE WriteFails \/ SyncFails
        BY <3>3 DEF WriteFails, SyncFails, Incoming, Codes
      <3> QED
        BY <1>7, <3>1, <3>2, <3>3
    <2> QED
      BY <2>1, <2>2, FrameRefused DEF Free
  <1>8. CASE Link \/ Unlink \/ Clean
    <2>1. /\ UNCHANGED wire /\ UNCHANGED digest
          /\ \/ spc \in {"linking", "unlinking"} /\ spc' \in {"unlinking", "confirming"}
             \/ spc = "cleaning" /\ spc' = "idle"
      BY <1>8 DEF Link, Unlink, Clean, Goto
    <2> QED
      BY <2>1, WorkGoesOn DEF Publishing
  <1>9. CASE LinkExists \/ LinkFails \/ UnlinkFails \/ Confirm
    <2>1. /\ Publishing /\ Free' /\ up' = up
          /\ \/ Reply(Ack("FILE_CHECKSUM", received))
             \/ \E code \in Codes : Reply(Error("FILE_CHECKSUM", code))
      BY <1>9 DEF LinkExists, LinkFails, UnlinkFails, Confirm, Goto, Publishing, Free, Codes
    <2>2. \E r \in DownFrames : r.op = "FILE_CHECKSUM" /\ Reply(r)
      <3>1. Ack("FILE_CHECKSUM", received) \in DownFrames
        BY FramesAreTyped DEF Ops, ServerTypes
      <3>2. \A code \in Codes : Error("FILE_CHECKSUM", code) \in DownFrames
        BY FramesAreTyped DEF Ops
      <3>3. /\ Ack("FILE_CHECKSUM", received).op = "FILE_CHECKSUM"
            /\ \A code \in Codes : Error("FILE_CHECKSUM", code).op = "FILE_CHECKSUM"
        BY DEF Ack, Error
      <3> QED
        BY <2>1, <3>1, <3>2, <3>3
    <2> QED
      BY <2>1, <2>2, PublicationAnswered
  <1>10. CASE SaveFails \/ EndSession \/ Crash \/ PowerLoss
    BY <1>10 DEF SaveFails, EndSession, Crash, PowerLoss, SessionOver, Dialogue
  <1>11. CASE Restart
    BY <1>11 DEF Restart, Dialogue, wire
  <1> QED
    BY <1>1, <1>2, <1>3, <1>4, <1>5, <1>6, <1>7, <1>8, <1>9, <1>10, <1>11 DEF ServerStep

LEMMA SendingKeepsDialogue ==
  ASSUME WirePart, ClientPart, Dialogue, SendChunk \/ SendChecksum
  PROVE  Dialogue'
  <1>1. /\ cpc = "streaming" /\ CanSend /\ link = "up"
        /\ UNCHANGED <<link, down, spc, resumeAt, digest>>
    BY DEF SendChunk, SendChecksum, CanSend, server
  <1>2. WireTypes /\ ClaimsOffered /\ hashed \in Contents /\ sent \in 0..MaxSize
    BY DEF WirePart, ClientPart, ClientTypes
  <1>3. TransferPending /\ spc \notin {"gone", "down"}
    BY <1>1 DEF Dialogue
  <1>4. /\ \A i \in 1..Len(up) : up[i].op # "FILE_UPLOAD" /\ up[i].op # "FILE_CHECKSUM"
        /\ \A i \in 1..Len(down) : down[i].op # "FILE_UPLOAD" /\ down[i].op # "FILE_CHECKSUM"
        /\ Free \/ Receiving
    BY <1>1, <1>3 DEF TransferPending
  <1>5. CASE SendChunk
    <2> DEFINE f == Chunk(sent, source[sent + 1])
    <2>1. cpc' = "streaming" /\ up' = Append(up, f) /\ offered' = offered
      BY <1>5, <1>1 DEF SendChunk
    <2>2. f \in UpFrames /\ f.op = "FILE_CHUNK"
      BY <1>5, SendChunkKeepsClient DEF Chunk
    <2>3. /\ Len(up) \in Nat /\ Len(up') = Len(up) + 1 /\ up'[Len(up')] = f
          /\ \A i \in 1..Len(up) : up'[i] = up[i]
      BY <1>1, <1>2, <2>1, <2>2, UpGrows
    <2>4. ASSUME NEW i \in 1..Len(up') PROVE up'[i].op \notin {"FILE_UPLOAD", "FILE_CHECKSUM"}
      <3>1. i \in 1..Len(up) \/ i = Len(up')
        BY <2>3
      <3> QED
        BY <1>4, <2>2, <2>3, <3>1
    <2>5. TransferPending'
      BY <1>1, <1>3, <1>4, <2>4 DEF TransferPending, Free, Receiving
    <2> QED
      BY <1>1, <1>3, <2>1, <2>5 DEF Dialogue
  <1>6. CASE SendChecksum
    <2> DEFINE f == Checksum(sent, hashed)
    <2>1. /\ cpc' = "claimed" /\ up' = Append(up, f) /\ offered' = offered \cup {hashed}
          /\ hashed' = hashed
      BY <1>6 DEF SendChecksum
    <2>2. f \in UpFrames /\ f.op = "FILE_CHECKSUM" /\ f.digest = hashed
      BY <1>2 DEF Checksum, UpFrames
    <2>3. /\ Len(up) \in Nat /\ Len(up') = Len(up) + 1 /\ up'[Len(up')] = f
          /\ \A i \in 1..Len(up) : up'[i] = up[i]
      BY <1>1, <1>2, <2>1, <2>2, UpGrows
    <2>4. ASSUME NEW i \in 1..Len(up')
          PROVE  /\ up'[i].op # "FILE_UPLOAD"
                 /\ up'[i].op = "FILE_CHECKSUM" => i = Len(up') /\ up'[i].digest = hashed'
      <3>1. i \in 1..Len(up) \/ i = Len(up')
        BY <2>3
      <3>2. CASE i \in 1..Len(up)
        BY <1>4, <2>3, <3>2
      <3>3. CASE i = Len(up')
        BY <2>1, <2>2, <2>3, <3>3
      <3> QED
        BY <3>1, <3>2, <3>3
    <2>5. TransferPending'
      BY <1>1, <1>3, <1>4, <2>1, <2>4 DEF TransferPending, Free, Receiving
    <2> QED
      BY <1>1, <1>3, <2>1, <2>5 DEF Dialogue
  <1> QED
    BY <1>5, <1>6

\* The client reads the only answer there is.
LEMMA ReadingKeepsDialogue ==
  ASSUME WirePart, ClientPart, Dialogue, Seek \/ Succeed \/ Fail
  PROVE  Dialogue'
  <1> SUFFICES ASSUME link' = "up" PROVE Dialogue'
    BY DEF Dialogue
  <1>1. /\ link = "up" /\ down # <<>> /\ down' = Tail(down)
        /\ UNCHANGED <<up, spc, resumeAt, digest>>
    BY DEF Seek, Succeed, Fail, server
  <1>2. /\ Head(down) = down[1] /\ 1 \in 1..Len(down) /\ (Len(down) = 1 => down' = <<>>)
    BY <1>1, TailFacts DEF WirePart, WireTypes
  <1>3. spc \notin {"gone", "down"}
    BY <1>1 DEF Dialogue
  <1>4. CASE cpc = "asked"
    <2>1. /\ up = <<>> /\ Len(down) = 1
          /\ spc = IF down[1].kind = "ACK" THEN "receiving" ELSE "idle"
      BY <1>1, <1>4 DEF Dialogue, RequestPending, Quiet
    <2>2. Quiet'
      BY <1>1, <1>2, <2>1 DEF Quiet
    <2>3. CASE Seek
      <3>1. cpc' = "streaming" /\ spc' = "receiving"
        BY <1>1, <1>2, <2>1, <2>3 DEF Seek
      <3>2. Len(up') = 0 /\ Len(down') = 0
        BY <2>2, EmptySeq DEF Quiet
      <3>3. TransferPending'
        BY <2>2, <3>1, <3>2 DEF TransferPending, Receiving, Quiet
      <3> QED
        BY <3>1, <3>3 DEF Dialogue
    <2>4. CASE Fail
      <3>1. cpc' = "ready" /\ spc' = "idle"
        BY <1>1, <1>2, <2>1, <2>4 DEF Fail
      <3> QED
        BY <2>2, <3>1 DEF Dialogue, Free
    <2> QED
      BY <1>4, <2>3, <2>4 DEF Succeed
  <1>5. CASE cpc = "claimed"
    <2>1. cpc' = "ready" /\ down[1].op = "FILE_CHECKSUM"
      BY <1>2, <1>5 DEF Seek, Succeed, Fail, Expected
    <2>2. TransferPending
      BY <1>1, <1>5 DEF Dialogue
    <2>3. Len(down) = 1 /\ up = <<>> /\ Free
      BY <1>1, <1>2, <2>1, <2>2 DEF TransferPending
    <2> QED
      BY <1>1, <1>2, <1>3, <2>1, <2>3 DEF Dialogue, Quiet, Free
  <1> QED
    BY <1>4, <1>5 DEF Seek, Succeed, Fail

LEMMA OthersKeepDialogue ==
  ASSUME WirePart, ClientPart, Dialogue,
         ClientStep \/ Abandon \/ LoseConnection \/ Intrude \/ Edit \/ Age
  PROVE  Dialogue'
  <1>1. CASE Connect
    BY <1>1 DEF Connect, Goto, Dialogue, Quiet, Free
  <1>2. CASE Ask
    <2> DEFINE f == Request(Len(source))
    <2>1. /\ cpc = "ready" /\ CanSend /\ link = "up" /\ cpc' = "asked" /\ up' = Append(up, f)
          /\ UNCHANGED <<link, down, spc, offered>>
      BY <1>2 DEF Ask, CanSend, server
    <2>2. Quiet /\ Free
      BY <2>1 DEF Dialogue
    <2>3. f \in UpFrames /\ f.op = "FILE_UPLOAD"
      BY VersionsAreContents DEF ClientPart, ClientTypes, Request, UpFrames
    <2>4. Len(up) = 0
      BY <2>2, EmptySeq DEF Quiet
    <2>5. Len(up') = 1 /\ up'[1] = f
      BY <2>1, <2>3, <2>4, UpGrows DEF WirePart
    <2>6. RequestPending'
      BY <2>1, <2>2, <2>3, <2>5 DEF RequestPending, Quiet, Free
    <2> QED
      BY <2>1, <2>2, <2>6 DEF Dialogue, Free
  <1>3. CASE GiveUp \/ Abandon \/ LoseConnection
    BY <1>3 DEF GiveUp, Abandon, LoseConnection, HangUp, Dialogue
  <1>4. CASE Intrude \/ Edit \/ Age
    <2>1. /\ UNCHANGED <<link, up, down, cpc, hashed>>
          /\ UNCHANGED <<spc, resumeAt, digest>>
      BY <1>4 DEF Intrude, Edit, Age, server, client, wire
    <2> QED
      BY <2>1 DEF Dialogue, RequestPending, TransferPending, Quiet, Free, Preparing, Receiving,
                  Publishing
  <1> QED
    BY <1>1, <1>2, <1>3, <1>4, SendingKeepsDialogue, ReadingKeepsDialogue DEF ClientStep

-------------------------------------------------------------------------------
(* The invariant is inductive.                                             *)

ServerMoves ==
  ServerStep \/ CannotOpen \/ SaveFails \/ WriteFails \/ SyncFails \/ LinkFails
  \/ UnlinkFails \/ Crash \/ PowerLoss

OthersMove == ClientStep \/ Abandon \/ LoseConnection \/ Intrude \/ Edit \/ Age

LEMMA SomebodyMoves == Next <=> ServerMoves \/ OthersMove
  BY DEF Next, Failure, ServerMoves, OthersMove

LEMMA Parts == IInv <=> /\ ServerPart /\ ClientPart /\ WirePart
                        /\ Published /\ ReceiptTrue /\ Dialogue
  BY DEF IInv, ServerPart, ClientPart, WirePart

LEMMA ServerMovesKeepServer ==
  ASSUME IInv, ServerMoves
  PROVE  ServerPart'
  <1>1. ServerPart /\ WireTypes /\ ClaimsOffered
    BY DEF IInv, ServerPart
  <1>2. CASE Begin
    <2>1. CASE target = None
      BY <1>1, <1>2, <2>1, BeginKeepsServer
    <2>2. CASE target # None
      BY <1>1, <1>2, <2>2, RefusalsKeepServer
    <2> QED
      BY <2>1, <2>2
  <1>3. CASE RejectStray \/ CannotOpen \/ Refuse \/ SyncFails \/ LinkExists \/ LinkFails
    BY <1>1, <1>3, RefusalsKeepServer
  <1>4. CASE RefuseInconsistent \/ Clean \/ Restart
    BY <1>1, <1>4, WipesKeepServer
  <1>5. CASE SaveFails \/ EndSession \/ Crash \/ PowerLoss
    BY <1>1, <1>5, EndingsKeepServer
  <1>6. CASE Expire \/ StartAfresh \/ Resume \/ Open \/ Save \/ Acknowledge
    BY <1>1, <1>6, ExpireKeepsServer, StartAfreshKeepsServer, ResumeKeepsServer,
       OpenKeepsServer, SaveKeepsServer, AcknowledgeKeepsServer
  <1>7. CASE Write \/ WriteFails
    BY <1>1, <1>7, WriteKeepsServer, WriteFailsKeepsServer
  <1>8. CASE Sync \/ Link \/ Unlink
    BY <1>1, <1>8, PublishingKeepsServer
  <1>9. CASE UnlinkFails \/ Confirm
    BY <1>1, <1>9, PublicationEndsKeepServer
  <1> QED
    BY <1>2, <1>3, <1>4, <1>5, <1>6, <1>7, <1>8, <1>9 DEF ServerMoves, ServerStep

LEMMA OtherMovesKeepServer ==
  ASSUME IInv, OthersMove
  PROVE  ServerPart'
  <1>1. ServerPart /\ WirePart /\ ClientPart
    BY Parts
  <1>2. offered \subseteq offered'
    BY <1>1, OthersKeepWire DEF OthersMove
  <1>3. /\ UNCHANGED <<part, meta, linked, unsynced, resumeAt, total, received, digest>>
        /\ target' = target \/ (target = None /\ target' = Foreign)
        /\ spc' = spc \/ spc' = "idle"
        /\ aged' = aged \/ aged' = TRUE
        /\ faults' = faults \/ Fault(1)
    BY DEF OthersMove, ClientStep, Connect, Ask, Seek, SendChunk, SendChecksum, Succeed, Fail,
           GiveUp, Abandon, LoseConnection, Intrude, Edit, Age, Goto, disk, server
  <1>4. faults' \in 0..MaxFaults
    BY <1>1, <1>3, OneFault DEF ServerPart
  <1>5. aged' \in BOOLEAN
    BY <1>1, <1>3 DEF ServerPart, FileTypes
  <1> QED
    BY <1>1, <1>2, <1>3, <1>4, <1>5, OthersKeepServer

LEMMA InitEstablishesIInv == Init => IInv
  <1> SUFFICES ASSUME Init PROVE IInv
    OBVIOUS
  <1>1. Len(up) = 0 /\ Len(down) = 0 /\ up \in Seq(UpFrames) /\ down \in Seq(DownFrames)
    BY EmptySeq DEF Init
  <1>2. FileTypes /\ DiskSound
    BY DEF Init, FileTypes, FileType, MetaType, DiskSound
  <1>3. ServerTypes /\ Progress
    BY VersionsAreContents, MaxSizeBounds DEF Init, ServerTypes, Progress, Working,
                                               DigestMatchesDisk
  <1>4. ClientTypes /\ ClientLocal
    BY UploadAssumption, VersionsAreContents, MaxSizeBounds
    DEF Init, ClientTypes, ClientLocal, FileType, UploadAssumption
  <1>5. WireTypes /\ ClaimsOffered
    BY <1>1, UploadAssumption DEF Init, WireTypes, ClaimsOffered, UploadAssumption
  <1>6. faults \in 0..MaxFaults
    BY UploadAssumption DEF Init, UploadAssumption
  <1>7. Published /\ ReceiptTrue /\ Dialogue
    BY <1>1 DEF Init, Published, Told, ReceiptTrue, ReceiptSent, Dialogue
  <1> QED
    BY <1>2, <1>3, <1>4, <1>5, <1>6, <1>7 DEF IInv

LEMMA NextPreservesIInv == IInv /\ [Next]_vars => IInv'
  <1> SUFFICES ASSUME IInv, [Next]_vars PROVE IInv'
    OBVIOUS
  <1>1. /\ ServerPart /\ ClientPart /\ WirePart /\ Published /\ ReceiptTrue /\ Dialogue
        /\ ClientTypes /\ ServerTypes /\ WireTypes /\ Progress
    BY Parts DEF IInv
  <1>2. CASE ServerMoves
    <2>1. ServerPart'
      BY <1>2, ServerMovesKeepServer
    <2>2. WirePart' /\ UNCHANGED client
      BY <1>1, <1>2, ServerStepsKeepWire DEF ServerMoves
    <2>3. ClientPart'
      BY <1>1, <2>2, ClientKept
    <2>4. Published' /\ ReceiptTrue'
      BY <1>2, ServerStepsTell DEF ServerMoves
    <2>5. Dialogue'
      BY <1>1, <1>2, <2>2, ServerStepsKeepDialogue DEF ServerMoves
    <2> QED
      BY <2>1, <2>2, <2>3, <2>4, <2>5 DEF IInv, ServerPart, ClientPart, WirePart
  <1>3. CASE OthersMove
    <2>1. ServerPart'
      BY <1>3, OtherMovesKeepServer
    <2>2. WirePart'
      BY <1>1, <1>3, OthersKeepWire DEF OthersMove
    <2>3. ClientPart'
      <3>1. CASE ClientStep \/ Abandon \/ Edit
        BY <1>1, <3>1, ClientStepsKeepClient
      <3>2. CASE LoseConnection \/ Intrude \/ Age
        BY <1>1, <3>2, ClientKept DEF LoseConnection, Intrude, Age
      <3> QED
        BY <1>3, <3>1, <3>2 DEF OthersMove
    <2>4. Published' /\ ReceiptTrue'
      BY <1>3, OthersTell DEF OthersMove
    <2>5. Dialogue'
      BY <1>1, <1>3, OthersKeepDialogue DEF OthersMove
    <2> QED
      BY <2>1, <2>2, <2>3, <2>4, <2>5 DEF IInv, ServerPart, ClientPart, WirePart
  <1>4. CASE UNCHANGED vars
    <2>1. UNCHANGED <<disk, server, client, wire, faults>>
      BY <1>4 DEF vars
    <2>2. ClientPart'
      BY <1>1, <2>1, ClientKept
    <2>3. ServerPart'
      BY <1>1, <2>1 DEF ServerPart, FileTypes, ServerTypes, DiskSound, Progress, DigestMatchesDisk,
                        disk, server, client
    <2>4. WirePart'
      BY <1>1, <2>1 DEF WirePart, WireTypes, ClaimsOffered, wire, client
    <2>5. Published' /\ ReceiptTrue'
      BY <1>1, <2>1 DEF Published, Told, ReceiptTrue, ReceiptSent, disk, server, client, wire
    <2>6. Dialogue'
      BY <1>1, <2>1 DEF Dialogue, RequestPending, TransferPending, Quiet, Free, Preparing,
                        Receiving, Publishing, server, client, wire
    <2> QED
      BY <2>2, <2>3, <2>4, <2>5, <2>6 DEF IInv, ServerPart, ClientPart, WirePart
  <1> QED
    BY <1>2, <1>3, <1>4, SomebodyMoves

LEMMA Inductive == Spec => []IInv
  BY InitEstablishesIInv, NextPreservesIInv, PTL DEF Spec

-------------------------------------------------------------------------------
(* What follows from it.                                                   *)

\* Every variable of an upload keeps its type, the metadata on the disk never counts more
\* than its upload announced and the connection never holds more frames than it can, for
\* every source file, every size of the connection and any number of failures.
THEOREM UploadTypesAlways == Spec => []TypeOK
  <1>1. IInv => TypeOK
    BY DEF IInv, TypeOK, FileTypes, ServerTypes, ClientTypes, WireTypes, MaxSize
  <1> QED
    BY <1>1, Inductive, PTL

\* From the first acknowledgement of handle_upload to the link that publishes the file,
\* the digest speaks for exactly the bytes that lie in the partial file, whatever crashes,
\* torn writes and expiries left of earlier attempts.
THEOREM DigestAlwaysMatchesDisk == Spec => []DigestMatchesDisk
  <1>1. IInv => DigestMatchesDisk
    BY DEF IInv, Progress
  <1> QED
    BY <1>1, Inductive, PTL

\* What a step of the server means to those who see only the destination.
LEMMA ServerImplements ==
  ASSUME IInv, ServerMoves
  PROVE  Storage!Next \/ UNCHANGED <<offered, target, confirmed>>
  <1>1. /\ WirePart /\ ServerTypes /\ DiskSound /\ Progress /\ ClientTypes
    BY DEF IInv, WirePart
  <1>2. offered' = offered /\ confirmed' = confirmed
    BY <1>1, ServerStepsKeepWire DEF ServerMoves, client
  <1>3. CASE Link
    <2>1. /\ spc = "linking" /\ target = None /\ target' = part
      BY <1>3 DEF Link
    <2>2. part = digest /\ digest \in offered /\ digest \in Contents
      BY <1>1, <2>1 DEF Progress, DigestMatchesDisk, ServerTypes
    <2>3. Storage!Publish(digest)
      BY <1>2, <2>1, <2>2 DEF Storage!Publish
    <2> QED
      BY <2>2, <2>3 DEF Storage!Next
  <1>4. CASE UnlinkFails
    <2>1. /\ spc = "unlinking"
          /\ target' = None \/ target' = target
      BY <1>4 DEF UnlinkFails
    <2>2. confirmed = None
      BY <2>1, ToldOfAFile DEF Told, Busy
    <2>3. target \in offered
      BY <1>1, <2>1 DEF Progress, DiskSound
    <2>4. CASE target' = None
      BY <1>2, <2>2, <2>3, <2>4 DEF Storage!Next, Storage!Withdraw
    <2> QED
      BY <1>2, <2>1, <2>4
  <1>5. CASE ~Link /\ ~UnlinkFails
    BY <1>1, <1>2, <1>5, DestinationStays DEF ServerMoves
  <1> QED
    BY <1>3, <1>4, <1>5

LEMMA OthersImplement ==
  ASSUME IInv, OthersMove
  PROVE  Storage!Next \/ UNCHANGED <<offered, target, confirmed>>
  <1>1. CASE SendChecksum
    <2>1. hashed \in Contents
      BY DEF IInv, ClientTypes
    <2>2. Storage!Offer(hashed)
      BY <1>1 DEF SendChecksum, Storage!Offer, disk
    <2> QED
      BY <2>1, <2>2 DEF Storage!Next
  <1>2. CASE Succeed
    <2>1. /\ cpc = "claimed" /\ confirmed' = hashed /\ UNCHANGED <<offered, target>>
          /\ down # <<>> /\ Head(down).kind = "ACK" /\ Head(down).op = "FILE_CHECKSUM"
      BY <1>2 DEF Succeed, disk
    <2>2. Head(down) = down[1] /\ 1 \in 1..Len(down)
      BY <2>1, TailFacts DEF IInv, WireTypes
    <2>3. ReceiptSent
      BY <2>1, <2>2 DEF ReceiptSent, IsReceipt
    <2>4. hashed = target /\ target \in offered
      BY <2>1, <2>3 DEF IInv, ReceiptTrue, Published, Told
    <2>5. Storage!Confirm
      BY <2>1, <2>4 DEF Storage!Confirm
    <2> QED
      BY <2>5 DEF Storage!Next
  <1>3. CASE Intrude
    BY <1>3 DEF Intrude, client, Storage!Next, Storage!Intrude
  <1>4. CASE ~SendChecksum /\ ~Succeed /\ ~Intrude
    BY <1>4 DEF OthersMove, ClientStep, Connect, Ask, Seek, SendChunk, Fail, GiveUp, Abandon,
                LoseConnection, Edit, Age, disk, client
  <1> QED
    BY <1>1, <1>2, <1>3, <1>4

\* Whatever fails while files are uploaded, the destination is written once and as a
\* whole, from contents a client vouched for with its checksum; it is taken back only
\* while nobody has been told; and what a client is told is there, and stays there.
THEOREM UploadImplementsPublication == Spec => ImplementsPublication
  <1>1. Init => Storage!Init
    BY DEF Init, Storage!Init
  <1>2. IInv /\ [Next]_vars => [Storage!Next]_(Storage!pubVars)
    <2>1. ASSUME IInv, Next PROVE Storage!Next \/ UNCHANGED <<offered, target, confirmed>>
      BY <2>1, ServerImplements, OthersImplement, SomebodyMoves
    <2>2. ASSUME UNCHANGED vars PROVE UNCHANGED <<offered, target, confirmed>>
      BY <2>2 DEF vars, disk, client
    <2> QED
      BY <2>1, <2>2 DEF Storage!pubVars
  <1> QED
    BY <1>1, <1>2, Inductive, PTL DEF Spec, ImplementsPublication, Storage!Spec

-------------------------------------------------------------------------------
(* The chunks under way.                                                   *)

\* The acknowledged offset is where the server stands, every chunk under way takes it one
\* block closer to where the client stands, and nothing is missing when it publishes.
Flow == link = "up" =>
  /\ cpc = "asked" /\ down # <<>> /\ down[1].kind = "ACK" => down[1].next = received
  /\ cpc = "streaming" /\ Receiving => received + Len(up) = sent
  /\ cpc = "claimed" /\ Receiving =>
       up # <<>> /\ up[Len(up)].op = "FILE_CHECKSUM" /\ received + Len(up) = sent + 1
  /\ cpc = "claimed" /\ spc = "linking" => received = sent

\* Only a server that takes chunks, or publishes, has to be in step with its client.
LEMMA FlowElsewhere ==
  ASSUME Dialogue, spc # "receiving", ~Receiving, spc # "linking"
  PROVE  Flow
  BY EmptySeq DEF Flow, Dialogue, RequestPending, Quiet

LEMMA AcknowledgeKeepsFlow ==
  ASSUME IInv, Acknowledge, link = "up"
  PROVE  Flow'
  <1>1. /\ spc = "acking" /\ Reply(Ack("FILE_UPLOAD", received)) /\ received' = received
        /\ spc' = "receiving" /\ cpc' = cpc
    BY DEF Acknowledge, Goto, client
  <1>2. cpc = "asked" /\ down = <<>>
    BY <1>1 DEF IInv, Dialogue, ClientTypes, RequestPending, TransferPending, Free, Receiving,
                Publishing, Quiet
  <1>3. Ack("FILE_UPLOAD", received) \in DownFrames
    BY FramesAreTyped DEF Ops, IInv, ServerTypes
  <1>4. Len(down) = 0
    BY <1>2, EmptySeq
  <1>5. down'[1] = Ack("FILE_UPLOAD", received)
    <2>1. WireTypes
      BY DEF IInv
    <2>2. down'[Len(down')] = Ack("FILE_UPLOAD", received) /\ Len(down') = Len(down) + 1
      BY <1>1, <1>3, <2>1, ReplyFacts
    <2> QED
      BY <1>4, <2>2
  <1> QED
    BY <1>1, <1>2, <1>5 DEF Flow, Ack

LEMMA WriteKeepsFlow ==
  ASSUME IInv, Flow, Write, link = "up"
  PROVE  Flow'
  <1>1. /\ spc = "receiving" /\ up # <<>> /\ up' = Tail(up) /\ Head(up).op = "FILE_CHUNK"
        /\ received' = received + 1 /\ UNCHANGED <<cpc, sent, down>>
        /\ spc' = "saving" /\ resumeAt' = "receiving"
    BY DEF Write, Incoming, Goto, client
  <1>2. /\ Head(up) = up[1] /\ Len(up) \in Nat /\ Len(up) >= 1 /\ Len(up') = Len(up) - 1
        /\ \A i \in 1..Len(up') : up'[i] = up[i + 1]
        /\ received \in Nat /\ sent \in Nat
    BY <1>1, FirstFrame, MaxSizeBounds DEF IInv, ServerTypes, ClientTypes
  <1>3. cpc \in {"streaming", "claimed"}
    BY <1>1 DEF IInv, Dialogue, ClientTypes, RequestPending, Quiet, Free, Preparing
  <1>4. CASE cpc = "streaming"
    <2>1. received + Len(up) = sent
      BY <1>1, <1>4 DEF Flow, Receiving
    <2>2. received' + Len(up') = sent'
      BY <1>1, <1>2, <2>1
    <2> QED
      BY <1>1, <1>4, <2>2 DEF Flow
  <1>5. CASE cpc = "claimed"
    <2>1. received + Len(up) = sent + 1 /\ up[Len(up)].op = "FILE_CHECKSUM"
      BY <1>1, <1>5 DEF Flow, Receiving
    <2>2. Len(up) # 1
      BY <1>1, <1>2, <2>1
    <2>3. Len(up') \in 1..Len(up') /\ Len(up') + 1 = Len(up) /\ Len(up') # 0
      BY <1>2, <2>2
    <2>4. up'[Len(up')] = up[Len(up)]
      BY <1>2, <2>3, Zenon
    <2>5. up' # <<>>
      BY <2>3, EmptySeq
    <2>6. received' + Len(up') = sent' + 1
      BY <1>1, <1>2, <2>1
    <2> QED
      BY <1>1, <1>5, <2>1, <2>4, <2>5, <2>6 DEF Flow
  <1> QED
    BY <1>3, <1>4, <1>5

LEMMA ServerKeepsFlow ==
  ASSUME IInv, IInv', Flow, ServerMoves
  PROVE  Flow'
  <1> SUFFICES ASSUME link' = "up" PROVE Flow'
    BY DEF Flow
  <1>1. WirePart /\ ServerTypes /\ Dialogue' /\ Progress
    BY DEF IInv, WirePart
  <1>2. UNCHANGED client
    BY <1>1, ServerStepsKeepWire DEF ServerMoves
  <1>3. CASE Acknowledge
    <2>1. link = "up"
      BY <1>3 DEF Acknowledge, Reply
    <2> QED
      BY <1>3, <2>1, AcknowledgeKeepsFlow
  <1>4. CASE Write
    <2>1. link = "up"
      BY <1>4 DEF Write
    <2> QED
      BY <1>4, <2>1, WriteKeepsFlow
  <1>5. CASE Save
    <2>1. /\ spc = "saving" /\ spc' = resumeAt /\ resumeAt' = resumeAt
          /\ resumeAt \in {"acking", "receiving"} /\ UNCHANGED <<received, link, up, down>>
      BY <1>1, <1>5 DEF Save, Goto, ServerTypes, Progress, wire
    <2>2. CASE resumeAt = "acking"
      <3>1. spc' = "acking" /\ resumeAt' = "acking"
        BY <2>1, <2>2
      <3>2. ~Receiving'
        BY <3>1 DEF Receiving
      <3>3. ASSUME cpc' = "asked", down' # <<>>, down'[1].kind = "ACK" PROVE FALSE
        BY <1>1, <3>1, <3>3 DEF Dialogue, RequestPending, Quiet
      <3> QED
        BY <3>1, <3>2, <3>3 DEF Flow
    <2>3. CASE resumeAt = "receiving"
      <3>1. Receiving /\ Receiving' /\ spc' = "receiving"
        BY <2>1, <2>3 DEF Receiving
      <3> QED
        BY <1>2, <2>1, <3>1 DEF Flow, client
    <2> QED
      BY <2>1, <2>2, <2>3
  <1>6. CASE Sync
    <2>1. /\ spc = "receiving" /\ up # <<>> /\ Head(up).op = "FILE_CHECKSUM" /\ link = "up"
          /\ spc' = "linking" /\ received' = received /\ down' = down
      BY <1>6 DEF Sync, Incoming, Goto
    <2>2. Head(up) = up[1] /\ 1 \in 1..Len(up)
      BY <2>1, FirstFrame DEF IInv
    <2>3. cpc = "claimed" /\ Len(up) = 1
      BY <2>1, <2>2 DEF IInv, Dialogue, ClientTypes, RequestPending, TransferPending, Quiet,
                        Free, Preparing
    <2>4. received + 1 = sent + 1
      BY <2>1, <2>3 DEF Flow, Receiving
    <2>5. received = sent
      BY <2>4, MaxSizeBounds DEF IInv, ServerTypes, ClientTypes
    <2> QED
      BY <1>2, <2>1, <2>3, <2>5 DEF Flow, Receiving, client
  <1>7. CASE ~Acknowledge /\ ~Write /\ ~Save /\ ~Sync
    <2>1. /\ spc' # "receiving" /\ spc' # "linking"
          /\ spc' = "saving" => resumeAt' = "acking"
      BY <1>1, <1>7
      DEF ServerMoves, ServerStep, Begin, RejectStray, Expire, StartAfresh, Resume,
          RefuseInconsistent, CannotOpen, Open, SaveFails, Refuse, WriteFails, SyncFails,
          Link, LinkExists, LinkFails, Unlink, UnlinkFails, Confirm, Clean, EndSession,
          Crash, PowerLoss, Restart, SessionOver, Start, Goto, server
    <2>2. ~Receiving'
      BY <2>1 DEF Receiving
    <2>3. ASSUME cpc' = "asked", down' # <<>>, down'[1].kind = "ACK" PROVE FALSE
      BY <1>1, <2>1, <2>3 DEF Dialogue, RequestPending, Quiet
    <2> QED
      BY <2>1, <2>2, <2>3 DEF Flow
  <1> QED
    BY <1>3, <1>4, <1>5, <1>6, <1>7

LEMMA OthersKeepFlow ==
  ASSUME IInv, Flow, OthersMove
  PROVE  Flow'
  <1> SUFFICES ASSUME link' = "up" PROVE Flow'
    BY DEF Flow
  <1>1. WireTypes /\ ClaimsOffered /\ ClientPart /\ Dialogue
        /\ sent \in Nat /\ received \in Nat
    BY Parts, MaxSizeBounds DEF IInv, ClientTypes, ServerTypes
  <1>2. CASE Connect \/ Succeed \/ Fail
    BY <1>2 DEF Connect, Succeed, Fail, Flow
  <1>3. CASE Ask
    <2>1. link = "up" /\ cpc = "ready" /\ cpc' = "asked" /\ down' = down
      BY <1>3 DEF Ask, CanSend
    <2> QED
      BY <1>1, <2>1 DEF Dialogue, Quiet, Flow
  <1>4. CASE Seek
    <2>1. /\ link = "up" /\ cpc = "asked" /\ down # <<>> /\ Head(down).kind = "ACK"
          /\ cpc' = "streaming" /\ sent' = Head(down).next /\ up' = up /\ received' = received
      BY <1>4 DEF Seek, server
    <2>2. Head(down) = down[1]
      BY <1>1, <2>1, TailFacts DEF WireTypes
    <2>3. received = sent' /\ up = <<>>
      BY <1>1, <2>1, <2>2 DEF Flow, Dialogue, RequestPending, Quiet
    <2>4. received' + Len(up') = sent'
      BY <1>1, <2>1, <2>3, EmptySeq
    <2> QED
      BY <2>1, <2>4 DEF Flow
  <1>5. CASE SendChunk
    <2> DEFINE f == Chunk(sent, source[sent + 1])
    <2>1. /\ link = "up" /\ CanSend /\ cpc = "streaming" /\ cpc' = "streaming"
          /\ sent' = sent + 1 /\ up' = Append(up, f)
          /\ offered' = offered /\ UNCHANGED <<received, spc, resumeAt>>
      BY <1>5 DEF SendChunk, CanSend, server
    <2>2. f \in UpFrames /\ f.op = "FILE_CHUNK"
      BY <1>1, <1>5, SendChunkKeepsClient DEF Chunk
    <2>3. Len(up) \in Nat /\ Len(up') = Len(up) + 1
      BY <1>1, <2>1, <2>2, UpGrows
    <2>4. Receiving' => received' + Len(up') = sent'
      BY <1>1, <2>1, <2>3 DEF Flow, Receiving
    <2> QED
      BY <2>1, <2>4 DEF Flow
  <1>6. CASE SendChecksum
    <2> DEFINE f == Checksum(sent, hashed)
    <2>1. /\ link = "up" /\ CanSend /\ cpc = "streaming" /\ cpc' = "claimed"
          /\ sent' = sent /\ up' = Append(up, f) /\ offered' = offered \cup {hashed}
          /\ UNCHANGED <<received, spc, resumeAt>>
      BY <1>6 DEF SendChecksum, CanSend, server
    <2>2. f \in UpFrames /\ f.op = "FILE_CHECKSUM" /\ f.digest = hashed
      BY <1>1 DEF ClientPart, ClientTypes, Checksum, UpFrames
    <2>3. Len(up) \in Nat /\ Len(up') = Len(up) + 1 /\ up'[Len(up')] = f
      BY <1>1, <2>1, <2>2, UpGrows
    <2>4. up' # <<>>
      BY <2>3, EmptySeq
    <2>5. Receiving' => received' + Len(up') = sent' + 1
      BY <1>1, <2>1, <2>3 DEF Flow, Receiving
    <2>6. spc' # "linking"
      BY <1>1, <2>1 DEF Dialogue, TransferPending, Free, Receiving
    <2> QED
      BY <2>1, <2>2, <2>3, <2>4, <2>5, <2>6 DEF Flow
  <1>7. CASE GiveUp \/ Abandon \/ LoseConnection
    BY <1>7 DEF GiveUp, Abandon, LoseConnection, HangUp
  <1>8. CASE Intrude \/ Edit \/ Age
    <2>1. UNCHANGED <<link, up, down, cpc, sent, spc, resumeAt, received>>
      BY <1>8 DEF Intrude, Edit, Age, server, client, wire
    <2> QED
      BY <2>1 DEF Flow, Receiving
  <1> QED
    BY <1>2, <1>3, <1>4, <1>5, <1>6, <1>7, <1>8 DEF OthersMove, ClientStep

LEMMA FlowInductive == Spec => []Flow
  <1>1. Init => Flow
    BY DEF Init, Flow
  <1>2. IInv /\ IInv' /\ Flow /\ [Next]_vars => Flow'
    <2>1. ASSUME IInv, IInv', Flow, Next PROVE Flow'
      BY <2>1, ServerKeepsFlow, OthersKeepFlow, SomebodyMoves
    <2>2. ASSUME Flow, UNCHANGED vars PROVE Flow'
      BY <2>2 DEF vars, server, client, wire, Flow, Receiving
    <2> QED
      BY <2>1, <2>2
  <1> QED
    BY <1>1, <1>2, Inductive, PTL DEF Spec

\* The chunks under way continue exactly where the server stands and end where the client
\* stands, so no client of this code ever meets an OFFSET_MISMATCH; and a client that may
\* ask again over a live session has nothing under way that it could mistake for an answer.
THEOREM EndsAlwaysInStep == Spec => []InStep
  <1>1. ASSUME IInv, Flow PROVE InStep
    <2> SUFFICES ASSUME link = "up" PROVE InStep
      BY DEF InStep
    <2> DEFINE chunks == {i \in DOMAIN up : up[i].op = "FILE_CHUNK"}
               transferring == /\ cpc \in {"streaming", "claimed"}
                               /\ spc \in {"saving", "receiving", "linking"}
    <2>1. /\ up \in Seq(UpFrames) /\ Len(up) \in Nat /\ DOMAIN up = 1..Len(up)
          /\ sent \in Nat /\ received \in Nat
      BY <1>1, LenProperties, MaxSizeBounds DEF IInv, WireTypes, ServerTypes, ClientTypes
    <2>2. \A i \in 1..Len(up) : up[i].op \in Ops
      BY <2>1, ElementOfSeq, FramesAreTyped
    <2>3. ASSUME transferring PROVE received + Cardinality(chunks) = sent
      <3>1. TransferPending
        BY <1>1, <2>3 DEF IInv, Dialogue
      <3>2. CASE spc = "linking"
        <4>1. cpc = "claimed" /\ up = <<>>
          BY <3>1, <3>2 DEF TransferPending, Free, Receiving, Quiet
        <4>2. chunks = {}
          BY <2>1, <4>1, EmptySeq
        <4>3. received = sent
          BY <1>1, <3>2, <4>1 DEF Flow
        <4>4. Cardinality(chunks) = 0
          BY <4>2, FS_EmptySet
        <4> HIDE DEF chunks
        <4> QED
          BY <2>1, <4>3, <4>4
      <3>3. CASE spc # "linking"
        <4>1. Receiving
          BY <2>3, <3>1, <3>3 DEF TransferPending, Free, Publishing
        <4>2. CASE cpc = "streaming"
          <5>1. chunks = 1..Len(up)
            BY <2>1, <2>2, <3>1, <4>2 DEF TransferPending, Ops
          <5>2. Cardinality(1..Len(up)) = Len(up)
            <6>1. Len(up) \in Nat
              BY <2>1
            <6>2. Len(up) \in Int /\ 1 \in Int
              BY ONLY <6>1
            <6>3. Cardinality(1..Len(up)) = IF 1 > Len(up) THEN 0 ELSE Len(up) - 1 + 1
              BY ONLY <6>2, FS_Interval, Zenon
            <6> QED
              BY ONLY <6>1, <6>3
          <5> QED
            BY <1>1, <4>1, <4>2, <5>1, <5>2 DEF Flow
        <4>3. CASE cpc = "claimed"
          <5>1. /\ up # <<>> /\ up[Len(up)].op = "FILE_CHECKSUM"
                /\ received + Len(up) = sent + 1
            BY <1>1, <4>1, <4>3 DEF Flow
          <5>2. Len(up) >= 1
            BY <2>1, <5>1, EmptySeq
          <5>3. \A i \in 1..Len(up) : up[i].op = "FILE_CHUNK" <=> i # Len(up)
            BY <2>2, <3>1, <5>1 DEF TransferPending, Ops
          <5> DEFINE n == Len(up) - 1
          <5>4. n \in Nat /\ received + n = sent
            BY <2>1, <5>1, <5>2
          <5>5. \A i : i \in 1..Len(up) /\ i # Len(up) <=> i \in 1..n
            BY <2>1, SMTT(30)
          <5>6. chunks = 1..n
            BY <2>1, <5>3, <5>5
          <5> HIDE DEF n, chunks
          <5>7. Cardinality(1..n) = n
            BY <5>4, FS_Interval
          <5> QED
            BY <5>4, <5>6, <5>7
        <4> QED
          BY <2>3, <4>2, <4>3
      <3> QED
        BY <3>2, <3>3
    <2>4. cpc = "ready" => up = <<>> /\ down = <<>> /\ spc \in {"idle", "cleaning"}
      BY <1>1 DEF IInv, Dialogue, Quiet, Free
    <2> QED
      BY <2>3, <2>4 DEF InStep
  <1> QED
    BY <1>1, Inductive, FlowInductive, PTL

===============================================================================
