----------------------------- MODULE DownloadProofs -----------------------------
(***************************************************************************)
(* Proofs about Download for any set of versions of the file, any size of  *)
(* the connection and any number of failures and edits.                    *)
(***************************************************************************)
EXTENDS Download, FiniteSetTheorems, SequenceTheorems, TLAPS

MaxSize == Max(Sizes)

-------------------------------------------------------------------------------
(* Sizes, files and sequences.                                             *)

LEMMA MaxSizeBounds == MaxSize \in Nat /\ \A n \in Sizes : n \in Nat /\ n <= MaxSize
  <1>1. \A n \in Sizes : n \in Nat
    BY VersionsAssumption DEF VersionsAssumption, Sizes
  <1>2. \E m \in Sizes : \A n \in Sizes : m >= n
    BY <1>1, VersionsAssumption DEF VersionsAssumption, Sizes
  <1>3. MaxSize \in Sizes /\ \A n \in Sizes : MaxSize >= n
    BY <1>2 DEF MaxSize, Max
  <1> QED
    BY <1>1, <1>3

\* What is sent, hashed and published is a sequence of blocks that is not too long.
LEMMA ContentsAreSeqs ==
  ASSUME NEW c
  PROVE  c \in Contents <=> c \in Seq(Blocks) /\ Len(c) <= MaxSize
  <1>1. ASSUME c \in Contents PROVE c \in Seq(Blocks) /\ Len(c) <= MaxSize
    <2>1. PICK n \in 0..MaxSize : c \in [1..n -> Blocks]
      BY <1>1 DEF Contents, MaxSize
    <2>2. n \in Nat /\ n <= MaxSize
      BY <2>1, MaxSizeBounds
    <2> QED
      BY <2>1, <2>2, IsASeq, LenProperties
  <1>2. ASSUME c \in Seq(Blocks), Len(c) <= MaxSize PROVE c \in Contents
    <2>1. Len(c) \in 0..MaxSize /\ c \in [1..Len(c) -> Blocks]
      BY <1>2, LenProperties, MaxSizeBounds
    <2> QED
      BY <2>1 DEF Contents, MaxSize
  <1> QED
    BY <1>1, <1>2

LEMMA VersionsAreContents ==
  /\ \A v \in Versions : /\ v \in Seq(Blocks) /\ v \in Contents /\ Len(v) \in 0..MaxSize
                         /\ \A i \in 1..Len(v) : v[i] \in Blocks
  /\ <<>> \in Seq(Blocks) /\ <<>> \in Contents /\ Len(<<>>) = 0
  /\ None \notin Seq(Blocks) /\ None \notin Contents /\ Hole \in Blocks
  <1>1. ASSUME NEW v \in Versions
        PROVE  /\ v \in Seq(Blocks) /\ v \in Contents /\ Len(v) \in 0..MaxSize
               /\ \A i \in 1..Len(v) : v[i] \in Blocks
    <2>1. Len(v) \in Sizes
      BY DEF Sizes
    <2>2. v \in Seq(Blocks)
      BY VersionsAssumption DEF VersionsAssumption
    <2>3. \A i \in 1..Len(v) : v[i] \in Blocks
      BY <2>2, ElementOfSeq
    <2> QED
      BY <2>1, <2>2, <2>3, ContentsAreSeqs, MaxSizeBounds
  <1>2. <<>> \in Seq(Blocks) /\ Len(<<>>) = 0
    BY EmptySeq
  <1>3. <<>> \in Contents
    <2>1. Len(<<>>) <= MaxSize
      BY <1>2, MaxSizeBounds
    <2> QED
      BY <1>2, <2>1, ContentsAreSeqs
  <1>4. None \notin Seq(Blocks)
    BY VersionsAssumption DEF VersionsAssumption
  <1>5. Hole \in Blocks
    BY DEF Blocks
  <1> QED
    BY <1>1, <1>2, <1>3, <1>4, <1>5, ContentsAreSeqs

\* The first n blocks of a file.
LEMMA PrefixOfFile ==
  ASSUME NEW c \in Seq(Blocks), NEW n \in 0..Len(c)
  PROVE  /\ SubSeq(c, 1, n) \in Seq(Blocks) /\ Len(SubSeq(c, 1, n)) = n
         /\ n <= MaxSize => SubSeq(c, 1, n) \in Contents
         /\ n = Len(c) => SubSeq(c, 1, n) = c
  <1>1. Len(c) \in Nat /\ n \in Nat /\ n <= Len(c)
    BY LenProperties
  <1>2. \A i \in 1..n : c[i] \in Blocks
    BY <1>1, ElementOfSeq
  <1>3. SubSeq(c, 1, n) \in Seq(Blocks) /\ Len(SubSeq(c, 1, n)) = n
    BY <1>1, <1>2, SubSeqProperties
  <1>4. SubSeq(c, 1, Len(c)) = c
    BY SubSeqFull
  <1> QED
    BY <1>3, <1>4, ContentsAreSeqs

\* What is left of a file whose end was still buffered.
LEMMA BufferLost ==
  ASSUME NEW c \in Seq(Blocks), NEW n \in Nat, NEW p \in PrefixesFrom(n, c)
  PROVE  /\ p \in Seq(Blocks) /\ Len(p) \in Nat /\ n <= Len(p)
         /\ n = Len(c) => p = c
  <1>1. PICK m \in n..Len(c) : p = SubSeq(c, 1, m)
    BY DEF PrefixesFrom
  <1>2. Len(c) \in Nat /\ m \in 0..Len(c) /\ n <= m
    BY <1>1, LenProperties
  <1>3. n = Len(c) => m = Len(c)
    BY <1>1, <1>2
  <1> QED
    BY <1>1, <1>2, <1>3, PrefixOfFile

\* A torn file is a file.
LEMMA TornFile ==
  ASSUME NEW c \in Seq(Blocks)
  PROVE  Torn(c) \subseteq Seq(Blocks)
  <1> SUFFICES ASSUME NEW n \in 0..Len(c)
               PROVE  /\ SubSeq(c, 1, n) \in Seq(Blocks)
                      /\ [i \in DOMAIN c |-> IF i <= n THEN c[i] ELSE Hole] \in Seq(Blocks)
    BY DEF Torn
  <1>1. Len(c) \in Nat /\ DOMAIN c = 1..Len(c)
    BY LenProperties
  <1> DEFINE t == [i \in DOMAIN c |-> IF i <= n THEN c[i] ELSE Hole]
  <1>2. \A i \in 1..Len(c) : c[i] \in Blocks
    BY <1>1, ElementOfSeq
  <1>3. t \in [1..Len(c) -> Blocks]
    BY <1>1, <1>2, VersionsAreContents
  <1>4. t \in Seq(Blocks)
    BY <1>1, <1>3, IsASeq
  <1> QED
    BY <1>4, PrefixOfFile

LEMMA MinOfTwo ==
  ASSUME NEW a \in Nat, NEW b \in Nat
  PROVE  Min({a, b}) = IF a <= b THEN a ELSE b
  <1>1. CASE a <= b
    BY <1>1 DEF Min
  <1>2. CASE ~(a <= b)
    BY <1>2 DEF Min
  <1> QED
    BY <1>1, <1>2

LEMMA TailFacts ==
  ASSUME NEW S, NEW q \in Seq(S), q # <<>>
  PROVE  /\ Tail(q) \in Seq(S) /\ Len(q) \in Nat /\ Len(q) >= 1
         /\ Head(q) = q[1] /\ Head(q) \in S
         /\ Len(Tail(q)) = Len(q) - 1
         /\ \A i \in 1..Len(Tail(q)) : Tail(q)[i] = q[i + 1] /\ i + 1 \in 1..Len(q)
         /\ Len(q) = 1 => Tail(q) = <<>>
  <1>1. Len(q) \in Nat /\ Len(q) >= 1
    BY LenProperties, EmptySeq
  <1>2. Tail(q) \in Seq(S) /\ Len(Tail(q)) = Len(q) - 1 /\ Head(q) \in S /\ Head(q) = q[1]
        /\ \A i \in 1..Len(Tail(q)) : Tail(q)[i] = q[i + 1]
    BY HeadTailProperties
  <1> QED
    BY <1>1, <1>2, EmptySeq

LEMMA AppendFacts ==
  ASSUME NEW S, NEW q \in Seq(S), NEW x \in S
  PROVE  /\ Append(q, x) \in Seq(S) /\ Len(q) \in Nat
         /\ Len(Append(q, x)) = Len(q) + 1 /\ Append(q, x) # <<>>
         /\ Append(q, x)[Len(q) + 1] = x
         /\ \A i \in 1..Len(q) : Append(q, x)[i] = q[i]
  <1>1. Append(q, x) \in Seq(S) /\ Len(Append(q, x)) = Len(q) + 1 /\ Len(q) \in Nat
    BY AppendProperties, LenProperties
  <1> QED
    BY <1>1, AppendProperties, EmptySeq

LEMMA PrefixFacts ==
  ASSUME NEW S, NEW q \in Seq(S), NEW p \in Prefixes(q)
  PROVE  /\ p \in Seq(S) /\ Len(p) \in Nat /\ Len(p) <= Len(q)
         /\ \A i \in 1..Len(p) : p[i] = q[i] /\ i \in 1..Len(q)
  <1>1. PICK n \in 0..Len(q) : p = SubSeq(q, 1, n)
    BY DEF Prefixes, PrefixesFrom
  <1>2. Len(q) \in Nat /\ n \in Nat /\ n <= Len(q)
    BY <1>1, LenProperties
  <1>3. p \in Seq(S) /\ Len(p) = n
    BY <1>1, <1>2, SubSeqProperties
  <1>4. \A i \in 1..n : p[i] = q[i] /\ i \in 1..Len(q)
    BY <1>1, <1>2, SubSeqProperties
  <1> QED
    BY <1>2, <1>3, <1>4

-------------------------------------------------------------------------------
(* The invariant: types.                                                   *)

Phases == {"FILE_INFO", "FILE_CHECKSUM"}
Refused == {"FILE_DOWNLOAD", "FILE_INFO", "FILE_CHUNK", "FILE_CHECKSUM", "ACK", "ERROR"}

UpFrames ==
  [op : {"FILE_DOWNLOAD"}, next : Nat] \cup [op : {"ACK"}, of : Phases, next : 0..MaxSize]
    \cup [op : {"ERROR"}, of : Refused]
DownFrames ==
  [op : {"FILE_INFO"}, total : 0..MaxSize, start : 0..MaxSize]
    \cup [op : {"FILE_CHUNK"}, offset : 0..MaxSize, data : Blocks]
    \cup [op : {"FILE_CHECKSUM"}, size : 0..MaxSize, digest : Contents]
    \cup [op : {"ERROR"}, of : Refused]

ServerTypes ==
  /\ remote \in Versions
  /\ spc \in {"gone", "idle", "informing", "hashing", "streaming", "claiming"}
  /\ offset \in 0..MaxSize /\ total \in 0..MaxSize /\ sent \in 0..MaxSize
  /\ hashed \in Contents /\ offered \subseteq Contents /\ confirmed \in FileType
  /\ edits \in 0..MaxEdits

DiskTypes ==
  /\ final \in FileType \cup {Foreign} /\ part \in FileType
  /\ linked \in BOOLEAN /\ unsynced \in BOOLEAN /\ flushed \in Nat

ClientTypes ==
  /\ cpc \in {"away", "ready", "asked", "receiving", "syncing", "linking", "unlinking",
              "confirming", "discarding"}
  /\ resume \in Nat /\ size \in 0..MaxSize /\ received \in 0..MaxSize /\ received <= size
  /\ digest \in Contents /\ Len(digest) <= received /\ astray \in BOOLEAN

UpTypes == up \in Seq(UpFrames) /\ Len(up) <= Window

\* An announced transfer starts within its file; a checksum on its way was offered.
Truthful(f, claims) ==
  /\ f.op = "FILE_INFO" => f.start <= f.total
  /\ f.op = "FILE_CHECKSUM" => f.digest \in claims
DownTypes ==
  /\ down \in Seq(DownFrames) /\ Len(down) <= Window
  /\ \A i \in 1..Len(down) : Truthful(down[i], offered)

WireTypes == link \in {"up", "lost"} /\ UpTypes /\ DownTypes

-------------------------------------------------------------------------------
(* The invariant: the client's disk, and how far the client has got.       *)

\* What is published is never what the disk or a crash may still lose.
DiskSound ==
  /\ part = None => ~linked /\ ~unsynced /\ flushed = 0
  /\ part # None => flushed <= Len(part) /\ (cpc # "receiving" => flushed = Len(part))
  /\ linked => final = part /\ ~unsynced

\* Whatever replies it takes, the client writes to a file that nobody else can see.
Progress ==
  /\ cpc \in {"asked", "receiving", "syncing", "linking"} => ~linked
  /\ cpc = "asked" => resume = IF part = None THEN 0 ELSE Len(part)
  /\ cpc \in {"receiving", "syncing", "linking", "unlinking"} => part # None
  /\ cpc = "linking" => ~unsynced
  /\ cpc = "unlinking" => linked

\* As long as it goes by the server's replies, its digest covers that file.
Covered == ~astray =>
  /\ cpc \in {"receiving", "syncing", "linking", "unlinking"} => part = digest
  /\ cpc = "receiving" => Len(digest) = received
  /\ cpc \in {"syncing", "linking", "unlinking"} => Len(digest) = size
  /\ cpc \in {"syncing", "linking", "unlinking", "confirming"} => digest \in offered
  /\ cpc \in {"unlinking", "confirming"} => final = digest

-------------------------------------------------------------------------------
(* The invariant: the dialogue of the two ends.                            *)

IsReceipt(f) == f.op = "ACK" /\ f.of = "FILE_CHECKSUM"
ReceiptUnread == \E i \in 1..Len(up) : IsReceipt(up[i])

\* What the server is about to log as a success is what the destination holds.
ReceiptTrue ==
  /\ spc = "claiming" => hashed \in offered
  /\ ~astray /\ spc = "claiming" /\ ReceiptUnread => final = hashed

Quiet == up = <<>> /\ down = <<>>

\* The server is idle, or is about to read that the transfer is over.
Ending(reply) ==
  \/ reply = Ack("FILE_CHECKSUM", total) /\ spc = "claiming"
  \/ reply.op = "ERROR" /\ spc \in {"informing", "claiming"}

BetweenRequests ==
  /\ down = <<>>
  /\ \/ spc = "idle" /\ up = <<>>
     \/ Len(up) = 1 /\ Ending(up[1])
     \/ untold /\ spc \in {"informing", "claiming"} /\ up = <<>>

\* A request is unread, perhaps behind the end of the transfer before or in its place, or
\* is answered.
RequestPending ==
  \/ /\ Len(up) = 1 /\ up[1] = Request(resume) /\ down = <<>>
     /\ spc \in {"idle", "informing", "claiming"}
  \/ Len(up) = 2 /\ Ending(up[1]) /\ up[2] = Request(resume) /\ down = <<>>
  \/ /\ up = <<>> /\ Len(down) = 1
     /\ \/ down[1].op = "FILE_INFO" /\ down[1].start = resume /\ offset = resume
           /\ spc = "informing"
        \/ down[1].op = "ERROR" /\ spc = "idle"

\* The frames under way are the chunks that the client lacks, and last of all the
\* checksum of what the server hashed, or its error.
TransferPending ==
  \/ /\ Len(up) = 1 /\ up[1] = Ack("FILE_INFO", offset) /\ down = <<>>
     /\ spc = "informing" /\ received = offset
  \/ Quiet /\ spc = "hashing" /\ received = offset
  \/ /\ up = <<>> /\ spc = "streaming" /\ received + Len(down) = sent
     /\ \A i \in 1..Len(down) : down[i].op = "FILE_CHUNK"
  \/ /\ up = <<>> /\ down # <<>> /\ spc \in {"claiming", "idle"}
     /\ \A i \in 1..Len(down) : i < Len(down) => down[i].op = "FILE_CHUNK"
     /\ spc = "idle" => down[Len(down)].op = "ERROR"
     /\ spc = "claiming" => /\ down[Len(down)] = Checksum(total, hashed)
                            /\ received + Len(down) = sent + 1

Dialogue == link = "up" /\ ~astray =>
  /\ cpc # "away" /\ spc # "gone"
  /\ cpc \in {"ready", "discarding"} => BetweenRequests
  /\ cpc = "asked" => RequestPending
  /\ cpc = "receiving" => TransferPending
  /\ cpc \in {"syncing", "linking", "unlinking", "confirming"} =>
       Quiet /\ spc = "claiming" /\ hashed = digest /\ total = received

IInv ==
  /\ ServerTypes /\ DiskTypes /\ ClientTypes /\ WireTypes /\ faults \in 0..MaxFaults
  /\ DiskSound /\ Progress /\ Covered /\ ReceiptTrue /\ Dialogue

-------------------------------------------------------------------------------
(* Frames.                                                                 *)

LEMMA FramesAreTyped ==
  /\ \A n \in Nat : Request(n) \in UpFrames /\ ~IsReceipt(Request(n))
  /\ \A op \in Phases, n \in 0..MaxSize : Ack(op, n) \in UpFrames
  /\ \A op \in Refused : /\ Error(op) \in UpFrames /\ ~IsReceipt(Error(op))
                         /\ Error(op) \in DownFrames
                         /\ \A claims : Truthful(Error(op), claims)
  /\ \A f \in UpFrames : f.op \in {"FILE_DOWNLOAD", "ACK", "ERROR"}
                         /\ (f.op = "FILE_DOWNLOAD" => f.next \in Nat)
  /\ \A f \in DownFrames :
       /\ f.op \in {"FILE_INFO", "FILE_CHUNK", "FILE_CHECKSUM", "ERROR"}
       /\ f.op = "FILE_INFO" => f.total \in 0..MaxSize /\ f.start \in 0..MaxSize
       /\ f.op = "FILE_CHUNK" => f.data \in Blocks
       /\ f.op = "FILE_CHECKSUM" => f.digest \in Contents
  BY DEF Request, Ack, Error, UpFrames, DownFrames, IsReceipt, Truthful, Refused, Phases

\* What the server sends is typed and true.
LEMMA AnswersAreTyped ==
  /\ \A n \in 0..MaxSize, start \in 0..MaxSize :
       /\ Info(n, start) \in DownFrames
       /\ start <= n => \A claims : Truthful(Info(n, start), claims)
  /\ \A n \in 0..MaxSize, b \in Blocks :
       Chunk(n, b) \in DownFrames /\ \A claims : Truthful(Chunk(n, b), claims)
  /\ \A n \in 0..MaxSize, d \in Contents :
       /\ Checksum(n, d) \in DownFrames
       /\ \A claims : d \in claims => Truthful(Checksum(n, d), claims)
  BY DEF Info, Chunk, Checksum, DownFrames, Truthful

\* send() to the server.
LEMMA SayFacts ==
  ASSUME UpTypes, NEW f \in UpFrames, Say(f)
  PROVE  /\ link = "up" /\ link' = link /\ UpTypes'
         /\ Len(up) \in Nat /\ Len(up') = Len(up) + 1 /\ up'[Len(up) + 1] = f
         /\ \A i \in 1..Len(up) : up'[i] = up[i]
         /\ up = <<>> => Len(up') = 1 /\ up'[1] = f
         /\ ReceiptUnread' => ReceiptUnread \/ IsReceipt(f)
  <1>1. /\ link = "up" /\ link' = link /\ up' = Append(up, f) /\ Len(up) < Window
        /\ up \in Seq(UpFrames)
    BY DEF Say, CanSend, UpTypes
  <1>2. /\ up' \in Seq(UpFrames) /\ Len(up) \in Nat /\ Len(up') = Len(up) + 1
        /\ up'[Len(up) + 1] = f /\ \A i \in 1..Len(up) : up'[i] = up[i]
    BY <1>1, AppendFacts
  <1>3. UpTypes'
    BY <1>1, <1>2, DownloadAssumption DEF UpTypes, DownloadAssumption
  <1>4. ASSUME NEW i \in 1..Len(up'), IsReceipt(up'[i]) PROVE ReceiptUnread \/ IsReceipt(f)
    <2>1. i \in 1..Len(up) \/ i = Len(up) + 1
      BY <1>2
    <2> QED
      BY <1>2, <1>4, <2>1 DEF ReceiptUnread
  <1>5. up = <<>> => Len(up) = 0
    BY EmptySeq
  <1> QED
    BY <1>1, <1>2, <1>3, <1>4, <1>5 DEF ReceiptUnread

\* Fewer frames are on their way to the server than before.
LEMMA UpShrinks ==
  ASSUME UpTypes, \/ up' = up \/ up' = <<>> \/ up' \in Prefixes(up)
                  \/ up # <<>> /\ up' = Tail(up)
  PROVE  UpTypes' /\ (ReceiptUnread' => ReceiptUnread)
  <1>0. up \in Seq(UpFrames) /\ Len(up) <= Window /\ Window \in Nat /\ Len(up) \in Nat
    BY DownloadAssumption, LenProperties DEF UpTypes, DownloadAssumption
  <1>1. CASE up' = up
    BY <1>0, <1>1 DEF UpTypes, ReceiptUnread
  <1>2. CASE up' = <<>>
    <2>1. up' \in Seq(UpFrames) /\ Len(up') = 0
      BY <1>2, EmptySeq
    <2> QED
      BY <1>0, <2>1 DEF UpTypes, ReceiptUnread
  <1>3. CASE up' \in Prefixes(up)
    <2>1. /\ up' \in Seq(UpFrames) /\ Len(up') \in Nat /\ Len(up') <= Len(up)
          /\ \A i \in 1..Len(up') : up'[i] = up[i] /\ i \in 1..Len(up)
      BY <1>0, <1>3, PrefixFacts
    <2> QED
      BY <1>0, <2>1 DEF UpTypes, ReceiptUnread
  <1>4. CASE up # <<>> /\ up' = Tail(up)
    <2>1. /\ up' \in Seq(UpFrames) /\ Len(up') = Len(up) - 1
          /\ \A i \in 1..Len(up') : up'[i] = up[i + 1] /\ i + 1 \in 1..Len(up)
      BY <1>0, <1>4, TailFacts
    <2> QED
      BY <1>0, <2>1 DEF UpTypes, ReceiptUnread
  <1> QED
    BY <1>1, <1>2, <1>3, <1>4

\* Fewer frames are on their way to the client than before.
LEMMA DownShrinks ==
  ASSUME DownTypes, offered \subseteq offered',
         \/ down' = down \/ down' = <<>> \/ down' \in Prefixes(down)
         \/ down # <<>> /\ down' = Tail(down)
  PROVE  DownTypes'
  <1>0. /\ down \in Seq(DownFrames) /\ Len(down) <= Window /\ Window \in Nat
        /\ Len(down) \in Nat /\ \A i \in 1..Len(down) : Truthful(down[i], offered)
    BY DownloadAssumption, LenProperties DEF DownTypes, DownloadAssumption
  <1>1. SUFFICES /\ down' \in Seq(DownFrames) /\ Len(down') <= Len(down) /\ Len(down') \in Nat
                 /\ \A i \in 1..Len(down') : \E j \in 1..Len(down) : down'[i] = down[j]
    BY <1>0 DEF DownTypes, Truthful
  <1>2. CASE down' = down
    BY <1>0, <1>2
  <1>3. CASE down' = <<>>
    <2>1. down' \in Seq(DownFrames) /\ Len(down') = 0
      BY <1>3, EmptySeq
    <2> QED
      BY <1>0, <2>1
  <1>4. CASE down' \in Prefixes(down)
    BY <1>0, <1>4, PrefixFacts
  <1>5. CASE down # <<>> /\ down' = Tail(down)
    <2>1. /\ down' \in Seq(DownFrames) /\ Len(down') = Len(down) - 1 /\ Len(down) >= 1
          /\ \A i \in 1..Len(down') : down'[i] = down[i + 1] /\ i + 1 \in 1..Len(down)
      BY <1>0, <1>5, TailFacts
    <2> QED
      BY <1>0, <2>1
  <1> QED
    BY <1>2, <1>3, <1>4, <1>5

\* send() to the client: nothing is delivered once the connection is lost.
LEMMA ReplyFacts ==
  ASSUME DownTypes, offered \subseteq offered', NEW r \in DownFrames, Truthful(r, offered'), Reply(r)
  PROVE  /\ link' = link /\ DownTypes' /\ Len(down) \in Nat
         /\ link = "up" => /\ Len(down') = Len(down) + 1 /\ down'[Len(down) + 1] = r
                           /\ down'[Len(down')] = r /\ down' # <<>>
                           /\ \A i \in 1..Len(down) : down'[i] = down[i]
                           /\ down = <<>> => Len(down') = 1 /\ down'[1] = r
  <1>0. down \in Seq(DownFrames) /\ Len(down) \in Nat /\ Len(down) <= Window
    BY LenProperties DEF DownTypes
  <1>1. CASE link = "up"
    <2>1. down' = Append(down, r) /\ link' = link /\ Len(down) < Window
      BY <1>1 DEF Reply
    <2>2. /\ down' \in Seq(DownFrames) /\ Len(down') = Len(down) + 1 /\ down' # <<>>
          /\ down'[Len(down) + 1] = r
          /\ \A i \in 1..Len(down) : down'[i] = down[i]
      BY <1>0, <2>1, AppendFacts
    <2>3. Len(down') <= Window
      BY <1>0, <2>1, <2>2, DownloadAssumption DEF DownloadAssumption
    <2>4. ASSUME NEW i \in 1..Len(down') PROVE Truthful(down'[i], offered')
      <3>1. i \in 1..Len(down) \/ i = Len(down) + 1
        BY <1>0, <2>2
      <3> QED
        BY <2>2, <3>1 DEF DownTypes, Truthful
    <2>5. down = <<>> => Len(down) = 0
      BY EmptySeq
    <2> QED
      BY <1>0, <2>1, <2>2, <2>3, <2>4, <2>5 DEF DownTypes
  <1>2. CASE link # "up"
    <2>1. link' = link /\ down' = down
      BY <1>2 DEF Reply
    <2> QED
      BY <1>0, <1>2, <2>1, DownShrinks
  <1> QED
    BY <1>1, <1>2

LEMMA FirstUp ==
  ASSUME UpTypes, up # <<>>
  PROVE  /\ Head(up) = up[1] /\ Head(up) \in UpFrames /\ Len(up) \in Nat /\ Len(up) >= 1
         /\ Len(Tail(up)) = Len(up) - 1
         /\ Len(up) = 1 => Tail(up) = <<>>
         /\ Len(up) = 2 => Len(Tail(up)) = 1 /\ Tail(up)[1] = up[2]
  <1>1. up \in Seq(UpFrames)
    BY DEF UpTypes
  <1>2. /\ Head(up) = up[1] /\ Head(up) \in UpFrames /\ Len(up) \in Nat /\ Len(up) >= 1
        /\ Len(Tail(up)) = Len(up) - 1
        /\ \A i \in 1..Len(Tail(up)) : Tail(up)[i] = up[i + 1]
        /\ Len(up) = 1 => Tail(up) = <<>>
    BY <1>1, TailFacts
  <1>3. ASSUME Len(up) = 2 PROVE Len(Tail(up)) = 1 /\ Tail(up)[1] = up[2]
    <2>1. Len(Tail(up)) = 1
      BY <1>2, <1>3
    <2>2. 1 \in 1..Len(Tail(up)) /\ 1 + 1 = 2
      BY <2>1
    <2> QED
      BY <1>2, <2>1, <2>2
  <1> QED
    BY <1>2, <1>3

LEMMA FirstDown ==
  ASSUME DownTypes, down # <<>>
  PROVE  /\ Head(down) = down[1] /\ Head(down) \in DownFrames /\ Truthful(Head(down), offered)
         /\ Len(down) \in Nat /\ Len(down) >= 1 /\ Len(Tail(down)) = Len(down) - 1
         /\ \A i \in 1..Len(Tail(down)) : Tail(down)[i] = down[i + 1] /\ i + 1 \in 1..Len(down)
         /\ Len(down) = 1 => Tail(down) = <<>>
  <1>1. down \in Seq(DownFrames)
    BY DEF DownTypes
  <1>2. /\ Head(down) = down[1] /\ Head(down) \in DownFrames
        /\ Len(down) \in Nat /\ Len(down) >= 1 /\ Len(Tail(down)) = Len(down) - 1
        /\ \A i \in 1..Len(Tail(down)) : Tail(down)[i] = down[i + 1] /\ i + 1 \in 1..Len(down)
        /\ Len(down) = 1 => Tail(down) = <<>>
    BY <1>1, TailFacts
  <1>3. 1 \in 1..Len(down)
    BY <1>2
  <1> QED
    BY <1>2, <1>3 DEF DownTypes

\* The length of an empty connection.
LEMMA EmptyWire ==
  /\ up = <<>> => Len(up) = 0
  /\ down = <<>> => Len(down) = 0
  BY EmptySeq

LEMMA FaultCounts ==
  ASSUME faults \in 0..MaxFaults, Fault
  PROVE  faults' \in 0..MaxFaults
  BY DownloadAssumption DEF Fault, DownloadAssumption

-------------------------------------------------------------------------------
(* The server's steps.                                                     *)

\* No step of the server touches the client or its disk.
LEMMA ServerKeepsClient ==
  ASSUME IInv, UNCHANGED <<disk, client>>, offered \subseteq offered'
  PROVE  DiskTypes' /\ ClientTypes' /\ DiskSound' /\ Progress' /\ Covered'
  <1>1. DiskTypes' /\ ClientTypes' /\ DiskSound' /\ Progress'
    BY DEF IInv, DiskTypes, ClientTypes, DiskSound, Progress, disk, client
  <1>2. Covered'
    BY DEF IInv, Covered, disk, client
  <1> QED
    BY <1>1, <1>2

\* The dialogue as long as it lasts.
Talking == link = "up" /\ ~astray

\* An idle server with something to read is asked.
LEMMA ReadsRequest ==
  ASSUME IInv, Talking, spc = "idle", up # <<>>
  PROVE  cpc = "asked" /\ Len(up) = 1 /\ up[1] = Request(resume) /\ down = <<>>
  <1>1. Dialogue /\ cpc \in {"ready", "asked", "receiving", "syncing", "linking", "unlinking",
                            "confirming", "discarding"}
    BY DEF IInv, ClientTypes, Dialogue, Talking
  <1>2. cpc = "asked" /\ RequestPending
    BY <1>1 DEF Dialogue, Talking, BetweenRequests, Ending, TransferPending, Quiet
  <1> QED
    BY <1>2 DEF RequestPending, Ending

\* A server that reads what it does not wait for reads that the client has given up, or
\* the request of a client that gave up without a word.
LEMMA ReadsError ==
  ASSUME IInv, Talking, spc \in {"informing", "claiming"}, up # <<>>, up[1] # Awaited
  PROVE  /\ down = <<>>
         /\ \/ /\ up[1].op = "ERROR"
               /\ \/ cpc \in {"ready", "discarding"} /\ Len(up) = 1
                  \/ cpc = "asked" /\ Len(up) = 2 /\ up[2] = Request(resume)
            \/ cpc = "asked" /\ Len(up) = 1 /\ up[1].op # "ERROR"
  <1>1. Dialogue /\ cpc \in {"ready", "asked", "receiving", "syncing", "linking", "unlinking",
                            "confirming", "discarding"}
    BY DEF IInv, ClientTypes, Dialogue, Talking
  <1>2. cpc \notin {"syncing", "linking", "unlinking", "confirming"}
    BY <1>1 DEF Dialogue, Talking, Quiet
  <1>3. cpc # "receiving"
    BY <1>1 DEF Dialogue, Talking, TransferPending, Awaited, Quiet
  <1>4. CASE cpc \in {"ready", "discarding"}
    <2>1. BetweenRequests
      BY <1>1, <1>4 DEF Dialogue, Talking
    <2> QED
      BY <1>4, <2>1 DEF BetweenRequests, Ending, Awaited
  <1>5. CASE cpc = "asked"
    <2>1. RequestPending
      BY <1>1, <1>5 DEF Dialogue, Talking
    <2> QED
      BY <1>5, <2>1 DEF RequestPending, Ending, Awaited, Request
  <1> QED
    BY <1>1, <1>2, <1>3, <1>4, <1>5

\* The acknowledgement that starts the stream comes from a client that receives.
LEMMA ReadsGo ==
  ASSUME IInv, Talking, spc = "informing", up # <<>>, up[1] = Awaited
  PROVE  cpc = "receiving" /\ Len(up) = 1 /\ down = <<>> /\ received = offset
  <1>1. Dialogue /\ cpc \in {"ready", "asked", "receiving", "syncing", "linking", "unlinking",
                            "confirming", "discarding"}
    BY DEF IInv, ClientTypes, Dialogue, Talking
  <1>2. up[1].op = "ACK"
    BY DEF Awaited, Ack
  <1>3. cpc = "receiving" /\ TransferPending
    BY <1>1, <1>2 DEF Dialogue, Talking, BetweenRequests, RequestPending, Request, Ending,
                      Quiet
  <1> QED
    BY <1>3 DEF TransferPending, Quiet

\* The acknowledgement that ends a transfer comes from a client that has finished.
LEMMA ReadsReceipt ==
  ASSUME IInv, Talking, spc = "claiming", up # <<>>, up[1] = Awaited
  PROVE  /\ down = <<>>
         /\ \/ cpc \in {"ready", "discarding"} /\ Len(up) = 1
            \/ cpc = "asked" /\ Len(up) = 2 /\ up[2] = Request(resume)
  <1>1. Dialogue /\ cpc \in {"ready", "asked", "receiving", "syncing", "linking", "unlinking",
                            "confirming", "discarding"}
    BY DEF IInv, ClientTypes, Dialogue, Talking
  <1>2. cpc \notin {"receiving", "syncing", "linking", "unlinking", "confirming"}
    BY <1>1 DEF Dialogue, Talking, TransferPending, Quiet
  <1>3. CASE cpc \in {"ready", "discarding"}
    BY <1>1, <1>3 DEF Dialogue, Talking, BetweenRequests
  <1>4. CASE cpc = "asked"
    <2>1. RequestPending
      BY <1>1, <1>4 DEF Dialogue, Talking
    <2>2. up[1].op = "ACK"
      BY DEF Awaited, Ack
    <2> QED
      BY <1>4, <2>1, <2>2 DEF RequestPending, Request
  <1> QED
    BY <1>1, <1>2, <1>3, <1>4

\* A server that hashes or streams does so for a client that receives.
LEMMA StreamsToReceiver ==
  ASSUME IInv, Talking, spc \in {"hashing", "streaming"}
  PROVE  cpc = "receiving" /\ TransferPending /\ up = <<>>
  <1>1. Dialogue /\ cpc \in {"ready", "asked", "receiving", "syncing", "linking", "unlinking",
                            "confirming", "discarding"}
    BY DEF IInv, ClientTypes, Dialogue, Talking
  <1>2. cpc = "receiving" /\ TransferPending
    BY <1>1 DEF Dialogue, Talking, BetweenRequests, RequestPending, Ending, Quiet
  <1> QED
    BY <1>2 DEF TransferPending, Quiet

LEMMA InformKeeps ==
  ASSUME IInv, Inform
  PROVE  IInv'
  <1> DEFINE next == Head(up).next
  <1>0. /\ ServerTypes /\ UpTypes /\ DownTypes /\ link \in {"up", "lost"}
        /\ faults \in 0..MaxFaults
    BY DEF IInv, WireTypes
  <1>1. /\ spc = "idle" /\ up # <<>> /\ Head(up).op = "FILE_DOWNLOAD" /\ up' = Tail(up)
        /\ next <= Len(remote) /\ offset' = next /\ total' = Len(remote)
        /\ Reply(Info(Len(remote), next)) /\ spc' = "informing"
        /\ UNCHANGED <<remote, sent, hashed, offered, confirmed, faults, edits>>
        /\ UNCHANGED <<disk, client>>
    BY DEF Inform, Serves, Goto
  <1>2. Len(remote) \in 0..MaxSize /\ next \in 0..MaxSize
    <2>1. next \in Nat
      BY <1>0, <1>1, FirstUp, FramesAreTyped
    <2>2. Len(remote) \in 0..MaxSize
      BY <1>0, VersionsAreContents DEF ServerTypes
    <2> QED
      BY <1>1, <2>1, <2>2, MaxSizeBounds
  <1>3. Info(Len(remote), next) \in DownFrames /\ Truthful(Info(Len(remote), next), offered')
    BY <1>1, <1>2, AnswersAreTyped DEF Truthful
  <1> HIDE DEF next
  <1>4. ServerTypes'
    BY <1>0, <1>1, <1>2 DEF ServerTypes
  <1>5. WireTypes' /\ link' = link
    BY <1>0, <1>1, <1>3, UpShrinks, ReplyFacts DEF WireTypes
  <1>6. ReceiptTrue'
    BY <1>1 DEF ReceiptTrue
  <1>7. ASSUME Talking PROVE Dialogue'
    <2>1. cpc = "asked" /\ Len(up) = 1 /\ up[1] = Request(resume) /\ down = <<>>
      BY <1>1, <1>7, ReadsRequest
    <2>2. up' = <<>> /\ next = resume
      BY <1>0, <1>1, <2>1, FirstUp DEF next, Request
    <2>3. Len(down') = 1 /\ down'[1] = Info(Len(remote), next)
      BY <1>0, <1>1, <1>3, <1>7, <2>1, ReplyFacts DEF Talking
    <2>4. down'[1].op = "FILE_INFO" /\ down'[1].start = next
      BY <2>3 DEF Info
    <2>5. cpc' = "asked" /\ resume' = resume
      BY <1>1, <2>1 DEF client
    <2>6. RequestPending'
      BY <1>1, <2>2, <2>3, <2>4, <2>5 DEF RequestPending
    <2> QED
      BY <1>1, <2>5, <2>6 DEF Dialogue
  <1>8. ~Talking => ~Talking'
    BY <1>1, <1>5 DEF Talking, client
  <1>9. Dialogue'
    BY <1>7, <1>8 DEF Dialogue, Talking
  <1>10. faults' \in 0..MaxFaults
    BY <1>0, <1>1
  <1> QED
    BY <1>1, <1>4, <1>5, <1>6, <1>9, <1>10, ServerKeepsClient DEF IInv

LEMMA DeclineKeeps ==
  ASSUME IInv, Decline
  PROVE  IInv'
  <1>0. /\ ServerTypes /\ UpTypes /\ DownTypes /\ link \in {"up", "lost"}
        /\ faults \in 0..MaxFaults
    BY DEF IInv, WireTypes
  <1>1. /\ spc = "idle" /\ up # <<>> /\ up' = Tail(up)
        /\ Fault \/ UNCHANGED faults
        /\ Reply(Error("FILE_DOWNLOAD"))
        /\ UNCHANGED <<remote, spc, offset, total, sent, hashed, offered, confirmed, edits>>
        /\ UNCHANGED <<disk, client>>
    BY DEF Decline, Serves, server
  <1>3. Error("FILE_DOWNLOAD") \in DownFrames /\ Truthful(Error("FILE_DOWNLOAD"), offered')
    BY <1>1, FramesAreTyped DEF Refused, Truthful
  <1>4. ServerTypes'
    BY <1>0, <1>1 DEF ServerTypes
  <1>5. WireTypes' /\ link' = link
    BY <1>0, <1>1, <1>3, UpShrinks, ReplyFacts DEF WireTypes
  <1>6. ReceiptTrue'
    BY <1>1 DEF ReceiptTrue
  <1>7. ASSUME Talking PROVE Dialogue'
    <2>1. cpc = "asked" /\ Len(up) = 1 /\ down = <<>>
      BY <1>1, <1>7, ReadsRequest
    <2>2. up' = <<>>
      BY <1>0, <1>1, <2>1, FirstUp
    <2>3. Len(down') = 1 /\ down'[1].op = "ERROR"
      BY <1>0, <1>1, <1>3, <1>7, <2>1, ReplyFacts DEF Talking, Error
    <2>5. cpc' = "asked" /\ spc' = "idle"
      BY <1>1, <2>1 DEF client
    <2>6. RequestPending'
      BY <2>2, <2>3, <2>5 DEF RequestPending
    <2> QED
      BY <2>5, <2>6 DEF Dialogue
  <1>8. ~Talking => ~Talking'
    BY <1>1, <1>5 DEF Talking, client
  <1>9. Dialogue'
    BY <1>7, <1>8 DEF Dialogue, Talking
  <1>10. faults' \in 0..MaxFaults
    BY <1>0, <1>1, FaultCounts
  <1> QED
    BY <1>1, <1>4, <1>5, <1>6, <1>9, <1>10, ServerKeepsClient DEF IInv

\* Nobody sends a stray frame as long as the ends are in step.
LEMMA RejectStrayKeeps ==
  ASSUME IInv, RejectStray
  PROVE  IInv'
  <1>0. /\ ServerTypes /\ UpTypes /\ DownTypes /\ link \in {"up", "lost"}
        /\ faults \in 0..MaxFaults
    BY DEF IInv, WireTypes
  <1>1. PICK op \in {"ACK", "ERROR"} :
          spc = "idle" /\ up # <<>> /\ Head(up).op = op /\ up' = Tail(up) /\ Reply(Error(op))
    BY DEF RejectStray, Serves
  <1>2. /\ UNCHANGED <<remote, spc, offset, total, sent, hashed, offered, confirmed, edits>>
        /\ UNCHANGED <<disk, client>> /\ faults' = faults
    BY DEF RejectStray, server
  <1>3. Error(op) \in DownFrames /\ Truthful(Error(op), offered')
    BY <1>2, FramesAreTyped DEF Refused, Truthful
  <1>4. ServerTypes'
    BY <1>0, <1>2 DEF ServerTypes
  <1>5. WireTypes' /\ link' = link
    BY <1>0, <1>1, <1>2, <1>3, UpShrinks, ReplyFacts DEF WireTypes
  <1>6. ReceiptTrue'
    BY <1>1, <1>2 DEF ReceiptTrue
  <1>7. ~Talking
    <2>1. SUFFICES ASSUME Talking PROVE FALSE
      OBVIOUS
    <2>2. up[1] = Request(resume)
      BY <1>1, <2>1, ReadsRequest
    <2> QED
      BY <1>0, <1>1, <2>2, FirstUp DEF Request
  <1>8. Dialogue'
    BY <1>2, <1>5, <1>7 DEF Dialogue, Talking, client
  <1>9. faults' \in 0..MaxFaults
    BY <1>0, <1>2
  <1> QED
    BY <1>2, <1>4, <1>5, <1>6, <1>8, <1>9, ServerKeepsClient DEF IInv

\* The reply to what the server asked is read, and the server is idle again.
LEMMA ReplyConsumed ==
  ASSUME IInv, up # <<>>, up' = Tail(up), spc' = "idle", UNCHANGED client, link' = link,
         Talking => /\ down = <<>> /\ down' = <<>>
                    /\ \/ cpc \in {"ready", "discarding"} /\ Len(up) = 1
                       \/ cpc = "asked" /\ Len(up) = 2 /\ up[2] = Request(resume)
  PROVE  Dialogue'
  <1> SUFFICES ASSUME Talking PROVE Dialogue'
    BY DEF Dialogue, Talking, client
  <1>1. UpTypes
    BY DEF IInv, WireTypes
  <1>2. CASE cpc \in {"ready", "discarding"} /\ Len(up) = 1
    <2>1. up' = <<>> /\ down' = <<>> /\ cpc' \in {"ready", "discarding"}
      BY <1>1, <1>2, FirstUp DEF client
    <2>2. BetweenRequests'
      BY <2>1 DEF BetweenRequests
    <2> QED
      BY <2>1, <2>2 DEF Dialogue
  <1>3. CASE cpc = "asked" /\ Len(up) = 2 /\ up[2] = Request(resume)
    <2>1. /\ Len(up') = 1 /\ up'[1] = Request(resume) /\ down' = <<>>
          /\ cpc' = "asked" /\ resume' = resume
      BY <1>1, <1>3, FirstUp DEF client
    <2>2. RequestPending'
      BY <2>1 DEF RequestPending, Request
    <2> QED
      BY <2>1, <2>2 DEF Dialogue
  <1> QED
    BY <1>2, <1>3

LEMMA BadReplyKeeps ==
  ASSUME IInv, BadReply
  PROVE  IInv'
  <1>0. /\ ServerTypes /\ UpTypes /\ DownTypes /\ link \in {"up", "lost"}
        /\ faults \in 0..MaxFaults
    BY DEF IInv, WireTypes
  <1>1. /\ spc \in {"informing", "claiming"} /\ up # <<>> /\ Head(up) # Awaited
        /\ up' = Tail(up) /\ spc' = "idle"
        /\ Head(up).op = "ERROR" => UNCHANGED <<link, down>>
        /\ Head(up).op # "ERROR" => Reply(Error(Awaited.of))
        /\ UNCHANGED <<remote, offset, total, sent, hashed, offered, confirmed, edits>>
        /\ UNCHANGED <<disk, client>> /\ faults' = faults
    BY DEF BadReply, Goto
  <1>2. Head(up) = up[1]
    BY <1>0, <1>1, FirstUp
  <1>3. Error(Awaited.of) \in DownFrames /\ Truthful(Error(Awaited.of), offered')
    <2>1. Awaited.of \in Refused
      BY DEF Awaited, Ack, Refused
    <2> QED
      BY <1>1, <2>1, FramesAreTyped DEF Truthful
  <1>4. ServerTypes'
    BY <1>0, <1>1 DEF ServerTypes
  <1>5. WireTypes' /\ link' = link
    <2>1. UpTypes'
      BY <1>0, <1>1, UpShrinks
    <2>2. DownTypes' /\ link' = link
      <3>1. CASE Head(up).op = "ERROR"
        BY <1>0, <1>1, <3>1, DownShrinks
      <3>2. CASE Head(up).op # "ERROR"
        BY <1>0, <1>1, <1>3, <3>2, ReplyFacts
      <3> QED
        BY <3>1, <3>2
    <2> QED
      BY <1>0, <2>1, <2>2 DEF WireTypes
  <1>6. ReceiptTrue'
    BY <1>1 DEF ReceiptTrue
  <1>7. ASSUME Head(up).op = "ERROR" PROVE Dialogue'
    <2>1. Talking => /\ down = <<>> /\ down' = <<>>
                     /\ \/ cpc \in {"ready", "discarding"} /\ Len(up) = 1
                        \/ cpc = "asked" /\ Len(up) = 2 /\ up[2] = Request(resume)
      BY <1>1, <1>2, <1>7, ReadsError
    <2>2. up # <<>> /\ up' = Tail(up) /\ spc' = "idle" /\ UNCHANGED client /\ link' = link
      BY <1>1, <1>5
    <2> QED
      BY ONLY IInv, <2>1, <2>2, ReplyConsumed
  <1>8. ASSUME Head(up).op # "ERROR" PROVE Dialogue'
    <2>1. ASSUME Talking PROVE cpc' = "asked" /\ RequestPending'
      <3>1. cpc = "asked" /\ Len(up) = 1 /\ down = <<>>
        BY <1>1, <1>2, <1>8, <2>1, ReadsError
      <3>2. up' = <<>>
        BY <1>0, <1>1, <3>1, FirstUp
      <3>3. Len(down') = 1 /\ down'[1].op = "ERROR"
        BY <1>0, <1>1, <1>3, <1>8, <2>1, <3>1, ReplyFacts DEF Talking, Error
      <3>4. cpc' = "asked"
        BY <1>1, <3>1 DEF client
      <3> QED
        BY <1>1, <3>2, <3>3, <3>4 DEF RequestPending
    <2>2. ~Talking => ~Talking'
      BY <1>1, <1>5 DEF Talking, client
    <2>3. Talking' => cpc' = "asked" /\ RequestPending' /\ spc' = "idle"
      BY <1>1, <2>1, <2>2
    <2> QED
      BY ONLY <2>3 DEF Dialogue, Talking
  <1>9. faults' \in 0..MaxFaults
    BY <1>0, <1>1
  <1> QED
    BY <1>1, <1>4, <1>5, <1>6, <1>7, <1>8, <1>9, ServerKeepsClient DEF IInv

\* A logged success ends the transfer.
LEMMA CompleteKeeps ==
  ASSUME IInv, Complete
  PROVE  IInv' /\ hashed \in offered /\ (~astray => final = hashed)
  <1>0. /\ ServerTypes /\ UpTypes /\ DownTypes /\ link \in {"up", "lost"}
        /\ faults \in 0..MaxFaults
    BY DEF IInv, WireTypes
  <1>1. /\ spc = "claiming" /\ up # <<>> /\ Head(up) = Awaited /\ up' = Tail(up)
        /\ confirmed' = hashed /\ spc' = "idle"
        /\ UNCHANGED <<remote, offset, total, sent, hashed, offered, edits>>
        /\ UNCHANGED <<disk, client>> /\ UNCHANGED <<link, down>> /\ faults' = faults
    BY DEF Complete, ReceivesAck, Goto
  <1>2. Head(up) = up[1] /\ 1 \in 1..Len(up)
    BY <1>0, <1>1, FirstUp
  <1>3. hashed \in offered
    BY <1>1 DEF IInv, ReceiptTrue
  <1>4. ASSUME ~astray PROVE final = hashed
    <2>1. IsReceipt(up[1])
      BY <1>1, <1>2 DEF Awaited, Ack, IsReceipt
    <2>2. ReceiptUnread
      BY <1>2, <2>1 DEF ReceiptUnread
    <2> QED
      BY <1>1, <1>4, <2>2 DEF IInv, ReceiptTrue
  <1>5. ServerTypes'
    <2>1. hashed \in Seq(Blocks)
      BY <1>0, ContentsAreSeqs DEF ServerTypes
    <2> QED
      BY <1>0, <1>1, <2>1 DEF ServerTypes, FileType
  <1>6. WireTypes'
    BY <1>0, <1>1, UpShrinks, DownShrinks DEF WireTypes
  <1>7. ReceiptTrue'
    BY <1>1 DEF ReceiptTrue
  <1>8. Talking => /\ down = <<>> /\ down' = <<>>
                   /\ \/ cpc \in {"ready", "discarding"} /\ Len(up) = 1
                      \/ cpc = "asked" /\ Len(up) = 2 /\ up[2] = Request(resume)
    BY <1>1, <1>2, ReadsReceipt
  <1>9. Dialogue'
    BY <1>1, <1>8, ReplyConsumed
  <1>10. faults' \in 0..MaxFaults
    BY <1>0, <1>1
  <1> QED
    BY <1>1, <1>3, <1>4, <1>5, <1>6, <1>7, <1>9, <1>10, ServerKeepsClient DEF IInv

\* The stream starts: the client has acknowledged where.
LEMMA BeginHashKeeps ==
  ASSUME IInv, BeginHash
  PROVE  IInv'
  <1>0. /\ ServerTypes /\ UpTypes /\ DownTypes /\ link \in {"up", "lost"}
        /\ faults \in 0..MaxFaults
    BY DEF IInv, WireTypes
  <1>1. /\ spc = "informing" /\ up # <<>> /\ Head(up) = Awaited /\ up' = Tail(up)
        /\ hashed' = <<>> /\ spc' = "hashing"
        /\ UNCHANGED <<remote, offset, total, sent, offered, confirmed, edits>>
        /\ UNCHANGED <<disk, client>> /\ UNCHANGED <<link, down, faults>>
    BY DEF BeginHash, ReceivesAck, Goto
  <1>2. ServerTypes'
    BY <1>0, <1>1, VersionsAreContents DEF ServerTypes
  <1>3. WireTypes'
    BY <1>0, <1>1, UpShrinks, DownShrinks DEF WireTypes
  <1>4. ReceiptTrue'
    BY <1>1 DEF ReceiptTrue
  <1>5. ASSUME Talking PROVE Dialogue'
    <2>1. cpc = "receiving" /\ Len(up) = 1 /\ down = <<>> /\ received = offset
      BY <1>0, <1>1, <1>5, FirstUp, ReadsGo
    <2>2. up' = <<>> /\ down' = <<>> /\ cpc' = "receiving" /\ received' = offset'
      BY <1>0, <1>1, <2>1, FirstUp DEF client
    <2>3. TransferPending'
      BY <1>1, <2>2 DEF TransferPending, Quiet
    <2> QED
      BY <1>1, <2>2, <2>3 DEF Dialogue
  <1>6. Dialogue'
    BY <1>1, <1>5 DEF Dialogue, Talking, client
  <1> QED
    BY <1>0, <1>1, <1>2, <1>3, <1>4, <1>6, ServerKeepsClient DEF IInv

\* The digest is computed block by block before anything is sent.
LEMMA HashingKeeps ==
  ASSUME IInv, HashBlock \/ Seek
  PROVE  IInv'
  <1>0. /\ ServerTypes /\ UpTypes /\ DownTypes /\ link \in {"up", "lost"}
        /\ faults \in 0..MaxFaults
    BY DEF IInv, WireTypes
  <1>1. /\ spc = "hashing" /\ spc' \in {"hashing", "streaming"}
        /\ UNCHANGED <<remote, offset, total, offered, confirmed, edits>>
        /\ UNCHANGED <<disk, client>> /\ UNCHANGED <<link, up, down, faults>>
    BY DEF HashBlock, Seek, Goto, wire
  <1>2. ServerTypes'
    <2>1. CASE HashBlock
      <3>1. /\ Len(hashed) < Len(remote) /\ hashed' = Append(hashed, remote[Len(hashed) + 1])
            /\ UNCHANGED <<spc, sent>>
        BY <2>1 DEF HashBlock
      <3>2. hashed \in Seq(Blocks) /\ Len(hashed) \in Nat /\ Len(remote) \in 0..MaxSize
            /\ \A i \in 1..Len(remote) : remote[i] \in Blocks
        BY <1>0, ContentsAreSeqs, VersionsAreContents, LenProperties DEF ServerTypes
      <3>3. Len(hashed) + 1 \in 1..Len(remote) /\ Len(hashed) + 1 <= MaxSize
        BY <3>1, <3>2, MaxSizeBounds
      <3>4. hashed' \in Seq(Blocks) /\ Len(hashed') = Len(hashed) + 1
        BY <3>1, <3>2, <3>3, AppendFacts
      <3>5. hashed' \in Contents
        BY <3>3, <3>4, ContentsAreSeqs
      <3> QED
        BY <1>0, <1>1, <3>1, <3>5 DEF ServerTypes
    <2>2. CASE Seek
      BY <1>0, <1>1, <2>2 DEF ServerTypes, Seek
    <2> QED
      BY <2>1, <2>2
  <1>3. WireTypes'
    BY <1>0, <1>1, UpShrinks, DownShrinks DEF WireTypes
  <1>4. ReceiptTrue'
    BY <1>1 DEF ReceiptTrue
  <1>5. ASSUME Talking PROVE Dialogue'
    <2>1. cpc = "receiving" /\ Quiet /\ received = offset
      BY <1>1, <1>5, StreamsToReceiver DEF TransferPending
    <2>2. up' = <<>> /\ down' = <<>> /\ cpc' = "receiving" /\ received' = offset
      BY <1>1, <2>1 DEF client, Quiet
    <2>3. TransferPending'
      <3>1. CASE HashBlock
        BY <1>1, <2>2, <3>1 DEF TransferPending, Quiet, HashBlock
      <3>2. CASE Seek
        <4>1. sent' = offset /\ spc' = "streaming"
          BY <3>2 DEF Seek, Goto
        <4>2. Len(down') = 0 /\ offset \in Nat
          BY <1>0, <2>2, EmptySeq, MaxSizeBounds DEF ServerTypes
        <4>3. received' + Len(down') = sent' /\ \A i \in 1..Len(down') : FALSE
          BY <2>2, <4>1, <4>2
        <4> QED
          BY <2>2, <4>1, <4>3 DEF TransferPending
      <3> QED
        BY <3>1, <3>2
    <2> QED
      BY <1>1, <2>2, <2>3 DEF Dialogue
  <1>6. Dialogue'
    BY <1>1, <1>5 DEF Dialogue, Talking, client
  <1> QED
    BY <1>0, <1>1, <1>2, <1>3, <1>4, <1>6, ServerKeepsClient DEF IInv

\* One more frame of the stream is sent, a chunk, the checksum or an error.
LEMMA StreamExtended ==
  ASSUME IInv, spc = "streaming", link = "up", NEW r \in DownFrames, Truthful(r, offered'),
         offered \subseteq offered', Reply(r), UNCHANGED <<client, up>>,
         spc' \in {"streaming", "idle", "claiming"},
         spc' = "streaming" => r.op = "FILE_CHUNK" /\ sent' = sent + 1,
         spc' = "idle" => r.op = "ERROR",
         spc' = "claiming" => r = Checksum(total', hashed') /\ sent' = sent
  PROVE  WireTypes' /\ Dialogue' /\ (~astray => up = <<>>)
  <1>1. UpTypes /\ DownTypes /\ ServerTypes /\ ClientTypes
    BY DEF IInv, WireTypes
  <1>2. /\ link' = "up" /\ DownTypes' /\ Len(down) \in Nat /\ Len(down') = Len(down) + 1
        /\ down'[Len(down')] = r /\ down' # <<>>
        /\ \A i \in 1..Len(down) : down'[i] = down[i]
    BY <1>1, ReplyFacts
  <1>3. WireTypes'
    BY <1>1, <1>2, UpShrinks DEF WireTypes
  <1>4. ASSUME ~astray
        PROVE  Dialogue' /\ up = <<>>
    <2>1. cpc = "receiving" /\ TransferPending /\ up = <<>>
      BY <1>4, StreamsToReceiver DEF Talking
    <2>2. received + Len(down) = sent /\ \A i \in 1..Len(down) : down[i].op = "FILE_CHUNK"
      BY <2>1 DEF TransferPending, Quiet
    <2>3. received \in Nat /\ sent \in Nat
      BY <1>1, MaxSizeBounds DEF ServerTypes, ClientTypes
    <2>4. \A i \in 1..Len(down') : i < Len(down') => i \in 1..Len(down)
      BY <1>2
    <2>5. \A i \in 1..Len(down') : i < Len(down') => down'[i].op = "FILE_CHUNK"
      BY <1>2, <2>2, <2>4
    <2>6. up' = <<>> /\ cpc' = "receiving" /\ received' = received
      BY <2>1 DEF client
    <2>7. TransferPending'
      <3>1. CASE spc' = "streaming"
        <4>1. received' + Len(down') = sent'
          BY <1>2, <2>2, <2>3, <2>6, <3>1
        <4>2. \A i \in 1..Len(down') : i < Len(down') \/ i = Len(down')
          BY <1>2
        <4>3. \A i \in 1..Len(down') : down'[i].op = "FILE_CHUNK"
          BY <1>2, <2>5, <3>1, <4>2
        <4> QED
          BY <2>6, <3>1, <4>1, <4>3 DEF TransferPending
      <3>2. CASE spc' = "idle"
        BY <1>2, <2>5, <2>6, <3>2 DEF TransferPending
      <3>3. CASE spc' = "claiming"
        <4>1. received' + Len(down') = sent' + 1
          BY <1>2, <2>2, <2>3, <2>6, <3>3
        <4> QED
          BY <1>2, <2>5, <2>6, <3>3, <4>1 DEF TransferPending, Checksum
      <3> QED
        BY <3>1, <3>2, <3>3
    <2> QED
      BY <2>1, <2>6, <2>7 DEF Dialogue
  <1> QED
    BY <1>3, <1>4 DEF Dialogue, client

LEMMA SendChunkKeeps ==
  ASSUME IInv, SendChunk
  PROVE  IInv'
  <1>0. ServerTypes /\ faults \in 0..MaxFaults
    BY DEF IInv
  <1>1. /\ spc = "streaming" /\ sent < Len(remote) /\ link = "up"
        /\ Reply(Chunk(sent, remote[sent + 1])) /\ sent' = sent + 1
        /\ UNCHANGED <<remote, spc, offset, total, hashed, offered, confirmed, edits>>
        /\ UNCHANGED <<disk, client, up>> /\ faults' = faults
    BY DEF SendChunk
  <1>2. /\ Len(remote) \in 0..MaxSize /\ \A i \in 1..Len(remote) : remote[i] \in Blocks
        /\ sent \in 0..MaxSize
    BY <1>0, VersionsAreContents DEF ServerTypes
  <1>3. sent + 1 \in 1..Len(remote) /\ sent + 1 \in 0..MaxSize
    BY <1>1, <1>2, MaxSizeBounds
  <1>4. PICK r : r = Chunk(sent, remote[sent + 1])
    OBVIOUS
  <1>5. r \in DownFrames /\ Truthful(r, offered') /\ r.op = "FILE_CHUNK"
    BY <1>2, <1>3, <1>4, AnswersAreTyped DEF Chunk
  <1>6. WireTypes' /\ Dialogue'
    BY <1>1, <1>4, <1>5, StreamExtended
  <1>7. ServerTypes'
    BY <1>0, <1>1, <1>3 DEF ServerTypes
  <1>8. ReceiptTrue'
    BY <1>1 DEF ReceiptTrue
  <1> QED
    BY <1>0, <1>1, <1>6, <1>7, <1>8, ServerKeepsClient DEF IInv

LEMMA SizeChangedKeeps ==
  ASSUME IInv, SizeChanged
  PROVE  IInv'
  <1>0. ServerTypes /\ faults \in 0..MaxFaults
    BY DEF IInv
  <1>1. /\ spc = "streaming" /\ link = "up" /\ Reply(Error("FILE_CHECKSUM")) /\ spc' = "idle"
        /\ UNCHANGED <<remote, sent, offset, total, hashed, offered, confirmed, edits>>
        /\ UNCHANGED <<disk, client, up>> /\ faults' = faults
    BY DEF SizeChanged, Goto
  <1>2. PICK r : r = Error("FILE_CHECKSUM")
    OBVIOUS
  <1>3. r \in DownFrames /\ Truthful(r, offered') /\ r.op = "ERROR"
    BY <1>2, FramesAreTyped DEF Error, Refused
  <1>4. WireTypes' /\ Dialogue'
    BY <1>1, <1>2, <1>3, StreamExtended
  <1>5. ServerTypes'
    BY <1>0, <1>1 DEF ServerTypes
  <1>6. ReceiptTrue'
    BY <1>1 DEF ReceiptTrue
  <1> QED
    BY <1>0, <1>1, <1>4, <1>5, <1>6, ServerKeepsClient DEF IInv

LEMMA SendChecksumKeeps ==
  ASSUME IInv, SendChecksum
  PROVE  IInv' /\ hashed \in Contents
  <1>0. ServerTypes /\ faults \in 0..MaxFaults /\ UpTypes
    BY DEF IInv, WireTypes
  <1>1. /\ spc = "streaming" /\ link = "up" /\ Reply(Checksum(total, hashed))
        /\ offered' = offered \cup {hashed} /\ spc' = "claiming"
        /\ UNCHANGED <<remote, sent, offset, total, hashed, confirmed, edits>>
        /\ UNCHANGED <<disk, client, up>> /\ faults' = faults
    BY DEF SendChecksum, Goto
  <1>2. PICK r : r = Checksum(total, hashed)
    OBVIOUS
  <1>3. total \in 0..MaxSize /\ hashed \in Contents
    BY <1>0 DEF ServerTypes
  <1>4. r \in DownFrames /\ Truthful(r, offered')
    BY <1>1, <1>2, <1>3, AnswersAreTyped
  <1>5. WireTypes' /\ Dialogue' /\ (~astray => up = <<>>)
    BY <1>1, <1>2, <1>4, StreamExtended
  <1>6. ServerTypes'
    BY <1>0, <1>1 DEF ServerTypes
  <1>7. ReceiptTrue'
    <2>1. hashed' \in offered'
      BY <1>1
    <2>2. ASSUME ~astray PROVE ~ReceiptUnread'
      BY <1>1, <1>5, <2>2, EmptySeq DEF ReceiptUnread
    <2>3. astray' = astray
      BY <1>1 DEF client
    <2> QED
      BY <2>1, <2>2, <2>3 DEF ReceiptTrue
  <1> QED
    BY <1>0, <1>1, <1>3, <1>5, <1>6, <1>7, ServerKeepsClient DEF IInv

\* The thread ends, and the connection with it.
LEMMA SessionEndsKeeps ==
  ASSUME IInv, ReadFails \/ EndSession
  PROVE  IInv'
  <1>0. /\ ServerTypes /\ UpTypes /\ DownTypes /\ faults \in 0..MaxFaults
    BY DEF IInv, WireTypes
  <1>1. /\ spc' = "gone" /\ offset' = 0 /\ total' = 0 /\ sent' = 0 /\ hashed' = <<>>
        /\ link' = "lost" /\ up' = <<>>
        /\ UNCHANGED <<remote, offered, confirmed, down, edits>> /\ UNCHANGED <<disk, client>>
        /\ Fault \/ UNCHANGED faults
    BY DEF ReadFails, EndSession, SessionOver, Goto
  <1>2. ServerTypes'
    BY <1>0, <1>1, VersionsAreContents, MaxSizeBounds DEF ServerTypes
  <1>3. WireTypes'
    BY <1>0, <1>1, UpShrinks, DownShrinks DEF WireTypes
  <1>4. ReceiptTrue' /\ Dialogue'
    BY <1>1 DEF ReceiptTrue, Dialogue
  <1>5. faults' \in 0..MaxFaults
    BY <1>0, <1>1, FaultCounts
  <1> QED
    BY <1>1, <1>2, <1>3, <1>4, <1>5, ServerKeepsClient DEF IInv

LEMMA LoseConnectionKeeps ==
  ASSUME IInv, LoseConnection
  PROVE  IInv'
  <1>0. /\ ServerTypes /\ UpTypes /\ DownTypes /\ faults \in 0..MaxFaults /\ ReceiptTrue
    BY DEF IInv, WireTypes
  <1>1. /\ Fault /\ link' = "lost" /\ up' \in Prefixes(up) /\ down' \in Prefixes(down)
        /\ UNCHANGED <<remote, server, edits>> /\ UNCHANGED <<disk, client>>
    BY DEF LoseConnection
  <1>2. offered' = offered /\ ServerTypes'
    BY <1>0, <1>1 DEF ServerTypes, server
  <1>3. WireTypes' /\ (ReceiptUnread' => ReceiptUnread)
    BY <1>0, <1>1, <1>2, UpShrinks, DownShrinks DEF WireTypes
  <1>4. ReceiptTrue'
    BY <1>0, <1>1, <1>3 DEF ReceiptTrue, server, client, disk
  <1>5. Dialogue'
    BY <1>1 DEF Dialogue
  <1>6. faults' \in 0..MaxFaults
    BY <1>0, <1>1, FaultCounts
  <1> QED
    BY <1>1, <1>2, <1>3, <1>4, <1>5, <1>6, ServerKeepsClient DEF IInv

\* The file on the server changes; only what is yet to be read of it does.
LEMMA EditKeeps ==
  ASSUME IInv, Edit
  PROVE  IInv'
  <1>0. /\ ServerTypes /\ UpTypes /\ DownTypes /\ faults \in 0..MaxFaults
        /\ ReceiptTrue /\ Dialogue /\ link \in {"up", "lost"}
    BY DEF IInv, WireTypes
  <1>1. /\ edits < MaxEdits /\ edits' = edits + 1 /\ remote' \in Versions
        /\ UNCHANGED server /\ UNCHANGED <<disk, client>> /\ UNCHANGED <<link, up, down, faults>>
    BY DEF Edit, wire
  <1>2. ServerTypes' /\ offered' = offered
    <2>1. edits' \in 0..MaxEdits
      BY <1>0, <1>1, DownloadAssumption DEF ServerTypes, DownloadAssumption
    <2> QED
      BY <1>0, <1>1, <2>1 DEF ServerTypes, server
  <1>3. WireTypes'
    BY <1>0, <1>1, <1>2, UpShrinks, DownShrinks DEF WireTypes
  <1>4. ReceiptTrue'
    BY <1>0, <1>1 DEF ReceiptTrue, ReceiptUnread, server, client, disk
  <1>5. Dialogue'
    BY <1>0, <1>1 DEF Dialogue, BetweenRequests, RequestPending, TransferPending, Ending, Quiet,
                      server, client
  <1> QED
    BY <1>0, <1>1, <1>2, <1>3, <1>4, <1>5, ServerKeepsClient DEF IInv

-------------------------------------------------------------------------------
(* The client's steps.                                                     *)

LEMMA ClientKeepsServer ==
  ASSUME IInv, UNCHANGED <<remote, server, edits>>
  PROVE  ServerTypes' /\ offered' = offered
  BY DEF IInv, ServerTypes, server

\* What the server may log stays true while the destination stays, or is not there yet.
LEMMA ReceiptKept ==
  ASSUME IInv, UNCHANGED server, ~astray' => ~astray, ReceiptUnread' => ReceiptUnread,
         final = None \/ final' = final
  PROVE  ReceiptTrue'
  <1>1. ReceiptTrue /\ hashed \in Contents
    BY DEF IInv, ServerTypes
  <1>2. spc' = spc /\ hashed' = hashed /\ offered' = offered
    BY DEF server
  <1>3. ASSUME ~astray', spc' = "claiming", ReceiptUnread' PROVE final' = hashed'
    <2>1. ~astray /\ final = hashed
      BY <1>1, <1>2, <1>3 DEF ReceiptTrue
    <2>2. final # None
      BY <1>1, <2>1, VersionsAreContents
    <2> QED
      BY <1>2, <2>1, <2>2
  <1> QED
    BY <1>1, <1>2, <1>3 DEF ReceiptTrue

\* A client that no longer receives leaves nothing in the buffer of its output.
LEMMA OutputClosed ==
  ASSUME IInv, cpc' # "receiving", DiskKept \/ (UNCHANGED disk /\ cpc # "receiving")
  PROVE  DiskTypes' /\ DiskSound' /\ final' = final
  <1>1. DiskTypes /\ DiskSound
    BY DEF IInv
  <1>2. UNCHANGED <<final, part, linked, unsynced>>
    BY DEF DiskKept, disk
  <1>3. part # None => part \in Seq(Blocks) /\ Len(part) \in Nat
    BY <1>1, LenProperties DEF DiskTypes, FileType
  <1>4. flushed' = IF part = None THEN 0 ELSE Len(part)
    BY <1>1 DEF DiskKept, CloseOutput, disk, DiskSound
  <1> QED
    BY <1>1, <1>2, <1>3, <1>4 DEF DiskTypes, DiskSound

\* What becomes of the partial file when its output is lost, not closed.
LEMMA OutputLost ==
  ASSUME IInv, cpc' # "receiving", UNCHANGED <<final, linked, unsynced>>,
         part = None => part' = None,
         part # None => part' \in PrefixesFrom(flushed, part),
         flushed' = IF part' = None THEN 0 ELSE Len(part')
  PROVE  DiskTypes' /\ DiskSound'
  <1>1. DiskTypes /\ DiskSound /\ Progress
    BY DEF IInv
  <1>2. CASE part = None
    BY <1>1, <1>2 DEF DiskTypes, DiskSound, FileType
  <1>3. CASE part # None
    <2>1. part \in Seq(Blocks) /\ flushed \in Nat
      BY <1>1, <1>3 DEF DiskTypes, FileType
    <2>2. part' \in Seq(Blocks) /\ Len(part') \in Nat /\ (flushed = Len(part) => part' = part)
      BY <1>3, <2>1, BufferLost
    <2>3. part' # None
      BY <2>2, VersionsAreContents
    <2>4. linked => part' = part
      BY <1>1, <1>3, <2>2 DEF DiskSound, Progress
    <2> QED
      BY <1>1, <1>3, <2>2, <2>3, <2>4 DEF DiskTypes, DiskSound, FileType
  <1> QED
    BY <1>2, <1>3

\* A client that rests, or is about to discard the partial file, owes nothing.
LEMMA Resting ==
  ASSUME cpc' \in {"away", "ready", "discarding"}
  PROVE  Progress' /\ Covered'
  BY DEF Progress, Covered

LEMMA Forgotten ==
  ASSUME IInv, Forget, astray' \in BOOLEAN, cpc' \in {"away", "ready"}
  PROVE  ClientTypes'
  <1>1. size' = 0 /\ resume' = 0 /\ received' = 0 /\ digest' = <<>>
    BY DEF Forget
  <1> QED
    BY <1>1, VersionsAreContents, MaxSizeBounds DEF ClientTypes

\* The client leaves the session, however the disk fares.
LEMMA HangUpKeeps ==
  ASSUME IInv, HangUp, UNCHANGED <<remote, server, edits>>, DiskTypes', DiskSound',
         Fault \/ UNCHANGED faults, final = None \/ final' = final
  PROVE  IInv'
  <1>0. UpTypes /\ DownTypes /\ faults \in 0..MaxFaults /\ astray \in BOOLEAN
    BY DEF IInv, WireTypes, ClientTypes
  <1>1. /\ cpc' = "away" /\ Forget /\ astray' = astray
        /\ link' = "lost" /\ up' \in Prefixes(up) /\ down' = <<>>
    BY DEF HangUp
  <1>2. ServerTypes' /\ offered' = offered
    BY ClientKeepsServer
  <1>3. WireTypes' /\ (ReceiptUnread' => ReceiptUnread)
    BY <1>0, <1>1, <1>2, UpShrinks, DownShrinks DEF WireTypes
  <1>4. ReceiptTrue'
    BY <1>1, <1>3, ReceiptKept
  <1>5. ClientTypes'
    BY <1>0, <1>1, Forgotten
  <1>6. Progress' /\ Covered'
    BY <1>1, Resting
  <1>7. Dialogue'
    BY <1>1 DEF Dialogue
  <1>8. faults' \in 0..MaxFaults
    BY <1>0, FaultCounts
  <1> QED
    BY <1>2, <1>3, <1>4, <1>5, <1>6, <1>7, <1>8 DEF IInv

LEMMA LeavingKeeps ==
  ASSUME IInv, Leave \/ LoseSession \/ Cancel \/ Crash \/ PowerLoss
  PROVE  IInv'
  <1>0. DiskTypes /\ DiskSound
    BY DEF IInv
  <1>1. HangUp /\ UNCHANGED <<remote, server, edits>> /\ cpc' = "away"
    BY DEF Leave, LoseSession, Cancel, Crash, PowerLoss, HangUp
  <1>2. Fault \/ UNCHANGED faults
    BY DEF Leave, LoseSession, LocalFailure, Cancel, Crash, PowerLoss
  <1>3. DiskTypes' /\ DiskSound' /\ final' = final
    <2>1. CASE Leave \/ LoseSession \/ Cancel
      <3>1. DiskKept \/ (UNCHANGED disk /\ cpc # "receiving")
        BY <2>1 DEF Leave, LoseSession, Cancel
      <3> QED
        BY <1>1, <3>1, OutputClosed
    <2>2. CASE Crash
      <3>1. /\ part' \in IF part = None THEN {None} ELSE PrefixesFrom(flushed, part)
            /\ flushed' = IF part' = None THEN 0 ELSE Len(part')
            /\ UNCHANGED <<final, linked, unsynced>>
        BY <2>2 DEF Crash
      <3> QED
        BY <1>1, <3>1, OutputLost
    <2>3. CASE PowerLoss
      <3>1. /\ part' \in IF unsynced THEN Torn(part) ELSE {part}
            /\ final' = IF linked THEN part' ELSE final
            /\ flushed' = IF part' = None THEN 0 ELSE Len(part')
            /\ unsynced' = FALSE /\ linked' = linked
        BY <2>3 DEF PowerLoss
      <3>2. linked => part' = part /\ final' = final
        BY <1>0, <3>1 DEF DiskSound
      <3>3. /\ part = None => part' = None
            /\ part # None => part' \in Seq(Blocks)
        <4>1. part # None => part \in Seq(Blocks)
          BY <1>0 DEF DiskTypes, FileType
        <4>2. part = None => ~unsynced
          BY <1>0 DEF DiskSound
        <4> QED
          BY <3>1, <4>1, <4>2, TornFile
      <3>4. part' # None => Len(part') \in Nat
        BY <3>3, LenProperties
      <3>5. part # None => part' # None
        BY <3>3, VersionsAreContents
      <3>6. final' = final
        BY <3>1, <3>2
      <3>7. DiskTypes'
        BY <1>0, <3>1, <3>3, <3>4, <3>6 DEF DiskTypes, FileType
      <3>8. DiskSound'
        BY <1>0, <1>1, <3>1, <3>2, <3>3, <3>4, <3>5, <3>6 DEF DiskSound
      <3> QED
        BY <3>6, <3>7, <3>8
    <2> QED
      BY <2>1, <2>2, <2>3
  <1> QED
    BY <1>1, <1>2, <1>3, HangUpKeeps

LEMMA ConnectKeeps ==
  ASSUME IInv, Connect
  PROVE  IInv'
  <1>0. /\ DiskTypes /\ DiskSound /\ ServerTypes /\ ClientTypes /\ UpTypes /\ DownTypes
        /\ faults \in 0..MaxFaults
    BY DEF IInv, WireTypes
  <1>1. /\ cpc = "away" /\ cpc' = "ready" /\ spc' = "idle" /\ astray' = FALSE
        /\ link' = "up" /\ up' = <<>> /\ down' = <<>>
        /\ UNCHANGED <<remote, offset, total, sent, hashed, offered, confirmed, edits>>
        /\ UNCHANGED <<resume, size, received, digest, faults>> /\ UNCHANGED disk
    BY DEF Connect, Goto
  <1>2. ServerTypes' /\ ClientTypes'
    BY <1>0, <1>1 DEF ServerTypes, ClientTypes
  <1>3. DiskTypes' /\ DiskSound'
    BY <1>0, <1>1 DEF DiskTypes, DiskSound, disk
  <1>4. WireTypes'
    BY <1>0, <1>1, UpShrinks, DownShrinks DEF WireTypes
  <1>5. Progress' /\ Covered'
    BY <1>1, Resting
  <1>6. ReceiptTrue' /\ Dialogue'
    BY <1>1 DEF ReceiptTrue, Dialogue, BetweenRequests
  <1> QED
    BY <1>0, <1>1, <1>2, <1>3, <1>4, <1>5, <1>6 DEF IInv

\* A failed write is reported on a connection that is closed right away.
LEMMA StoreFailsKeeps ==
  ASSUME IInv, StoreFails
  PROVE  IInv'
  <1>0. UpTypes /\ DownTypes /\ faults \in 0..MaxFaults /\ astray \in BOOLEAN
        /\ up \in Seq(UpFrames) /\ Len(up) \in Nat /\ Len(up) <= Window /\ Window \in Nat
    BY LenProperties, DownloadAssumption
    DEF IInv, WireTypes, ClientTypes, UpTypes, DownloadAssumption
  <1>1. /\ cpc = "receiving" /\ Fault
        /\ part' \in PrefixesFrom(flushed, part) /\ flushed' = Len(part')
        /\ cpc' = "away" /\ Forget /\ astray' = astray
        /\ link = "up" => Len(up) < Window
        /\ up' \in Prefixes(IF link = "up" THEN Append(up, Error("FILE_CHUNK")) ELSE up)
        /\ link' = "lost" /\ down' = <<>>
        /\ UNCHANGED <<remote, server, edits>> /\ UNCHANGED <<final, linked, unsynced>>
    BY DEF StoreFails, CanSend
  <1>2. ServerTypes' /\ offered' = offered
    BY <1>1, ClientKeepsServer
  <1>3. UpTypes' /\ (ReceiptUnread' => ReceiptUnread)
    <2>1. CASE link # "up"
      BY <1>0, <1>1, <2>1, UpShrinks
    <2>2. CASE link = "up"
      <3>1. PICK e : e = Error("FILE_CHUNK")
        OBVIOUS
      <3>2. e \in UpFrames /\ ~IsReceipt(e)
        BY <3>1, FramesAreTyped DEF Refused
      <3>3. PICK q : q = Append(up, e)
        OBVIOUS
      <3>4. /\ q \in Seq(UpFrames) /\ Len(q) = Len(up) + 1 /\ q[Len(up) + 1] = e
            /\ \A i \in 1..Len(up) : q[i] = up[i]
        BY <1>0, <3>2, <3>3, AppendFacts
      <3>5. up' \in Prefixes(q)
        BY <1>1, <2>2, <3>1, <3>3
      <3>6. /\ up' \in Seq(UpFrames) /\ Len(up') \in Nat /\ Len(up') <= Len(q)
            /\ \A i \in 1..Len(up') : up'[i] = q[i] /\ i \in 1..Len(q)
        BY <3>4, <3>5, PrefixFacts
      <3>7. UpTypes'
        BY <1>0, <1>1, <2>2, <3>4, <3>6 DEF UpTypes
      <3>8. ASSUME NEW i \in 1..Len(up'), IsReceipt(up'[i]) PROVE ReceiptUnread
        <4>1. i \in 1..Len(up) \/ i = Len(up) + 1
          BY <1>0, <3>4, <3>6
        <4>2. i # Len(up) + 1
          BY <3>2, <3>4, <3>6, <3>8
        <4> QED
          BY <3>4, <3>6, <3>8, <4>1, <4>2 DEF ReceiptUnread
      <3> QED
        BY <3>7, <3>8 DEF ReceiptUnread
    <2> QED
      BY <2>1, <2>2
  <1>4. WireTypes'
    BY <1>0, <1>1, <1>2, <1>3, DownShrinks DEF WireTypes
  <1>5. ReceiptTrue'
    BY <1>1, <1>3, ReceiptKept
  <1>6. DiskTypes' /\ DiskSound'
    <2>1. part # None /\ part \in Seq(Blocks) /\ flushed \in Nat
      BY <1>1 DEF IInv, Progress, DiskTypes, FileType
    <2>2. part' \in Seq(Blocks)
      BY <1>1, <2>1, BufferLost
    <2>3. flushed' = IF part' = None THEN 0 ELSE Len(part')
      BY <1>1, <2>2, VersionsAreContents
    <2> QED
      BY <1>1, <2>1, <2>3, OutputLost
  <1>7. ClientTypes'
    BY <1>0, <1>1, Forgotten
  <1>8. Progress' /\ Covered'
    BY <1>1, Resting
  <1>9. Dialogue'
    BY <1>1 DEF Dialogue
  <1>10. faults' \in 0..MaxFaults
    BY <1>0, <1>1, FaultCounts
  <1> QED
    BY <1>2, <1>4, <1>5, <1>6, <1>7, <1>8, <1>9, <1>10 DEF IInv

LEMMA AskKeeps ==
  ASSUME IInv, Ask
  PROVE  IInv'
  <1>0. /\ DiskTypes /\ DiskSound /\ ClientTypes /\ UpTypes /\ DownTypes
        /\ faults \in 0..MaxFaults
    BY DEF IInv, WireTypes
  <1>1. /\ cpc = "ready" /\ final = None /\ cpc' = "asked"
        /\ resume' = IF part = None THEN 0 ELSE Len(part)
        /\ Say(Request(resume'))
        /\ UNCHANGED <<remote, server, edits>> /\ UNCHANGED <<disk, down, faults>>
        /\ UNCHANGED <<size, received, digest, astray>>
    BY DEF Ask
  <1>2. resume' \in Nat
    <2>1. part # None => Len(part) \in Nat
      BY <1>0, LenProperties DEF DiskTypes, FileType
    <2> QED
      BY <1>1, <2>1
  <1>3. PICK r : r = Request(resume')
    OBVIOUS
  <1>4. r \in UpFrames /\ ~IsReceipt(r)
    BY <1>2, <1>3, FramesAreTyped
  <1>5. /\ link = "up" /\ link' = link /\ UpTypes'
        /\ Len(up) \in Nat /\ Len(up') = Len(up) + 1 /\ up'[Len(up) + 1] = r
        /\ \A i \in 1..Len(up) : up'[i] = up[i]
        /\ up = <<>> => Len(up') = 1 /\ up'[1] = r
        /\ ReceiptUnread' => ReceiptUnread
    BY <1>0, <1>1, <1>3, <1>4, SayFacts
  <1>6. ServerTypes' /\ offered' = offered
    BY <1>1, ClientKeepsServer
  <1>7. ClientTypes'
    BY <1>0, <1>1, <1>2 DEF ClientTypes
  <1>8. DiskTypes' /\ DiskSound'
    BY <1>0, <1>1 DEF DiskTypes, DiskSound, disk
  <1>9. WireTypes'
    BY <1>0, <1>1, <1>5, <1>6, DownShrinks DEF WireTypes
  <1>10. Progress'
    <2>1. ~linked
      BY <1>0, <1>1 DEF DiskSound
    <2> QED
      BY <1>1, <2>1 DEF Progress, disk
  <1>11. Covered'
    BY <1>1 DEF Covered
  <1>12. ReceiptTrue'
    BY <1>1, <1>5, ReceiptKept
  <1>13. ASSUME ~astray PROVE RequestPending'
    <2>1. BetweenRequests
      BY <1>1, <1>5, <1>13 DEF IInv, Dialogue
    <2>2. spc' = spc /\ total' = total /\ down' = <<>>
      BY <1>1, <2>1 DEF BetweenRequests, server
    <2>3. CASE spc = "idle" /\ up = <<>>
      BY <1>3, <1>5, <2>2, <2>3 DEF RequestPending, Request
    <2>4. CASE Len(up) = 1 /\ Ending(up[1])
      <3>1. Len(up') = 2 /\ up'[1] = up[1] /\ up'[2] = r
        BY <1>5, <2>4
      <3>2. Ending(up[1])'
        BY <2>2, <2>4, <3>1 DEF Ending, Ack
      <3> QED
        BY <1>3, <2>2, <3>1, <3>2 DEF RequestPending, Request
    <2>5. CASE spc \in {"informing", "claiming"} /\ up = <<>>
      BY <1>3, <1>5, <2>2, <2>5 DEF RequestPending, Request
    <2> QED
      BY <2>1, <2>3, <2>4, <2>5 DEF BetweenRequests
  <1>14. Dialogue'
    <2>1. ASSUME ~astray' PROVE spc' # "gone" /\ RequestPending'
      <3>1. ~astray
        BY <1>1, <2>1
      <3>2. spc # "gone"
        BY <1>5, <3>1 DEF IInv, Dialogue
      <3> QED
        BY <1>1, <1>13, <3>1, <3>2 DEF server
    <2> QED
      BY <1>1, <2>1 DEF Dialogue
  <1>15. faults' \in 0..MaxFaults
    BY <1>0, <1>1
  <1> QED
    BY <1>6, <1>7, <1>8, <1>9, <1>10, <1>11, <1>12, <1>14, <1>15 DEF IInv

\* An answer to the request is all there is to read, and the server waits.
LEMMA AnswerRead ==
  ASSUME IInv, Talking, cpc = "asked", down # <<>>
  PROVE  /\ up = <<>> /\ Len(down) = 1
         /\ \/ /\ down[1].op = "FILE_INFO" /\ down[1].start = resume /\ offset = resume
               /\ spc = "informing"
            \/ down[1].op = "ERROR" /\ spc = "idle"
  <1>1. RequestPending
    BY DEF IInv, Dialogue, Talking
  <1> QED
    BY <1>1 DEF RequestPending

\* Whatever the server announces, the client starts with a digest of what it keeps.
LEMMA AcceptKeeps ==
  ASSUME IInv, Accept
  PROVE  IInv'
  <1>0. /\ DiskTypes /\ DiskSound /\ Progress /\ ClientTypes /\ UpTypes /\ DownTypes
        /\ faults \in 0..MaxFaults /\ ServerTypes
    BY DEF IInv, WireTypes
  <1>1. /\ cpc = "asked" /\ down # <<>> /\ Head(down).op = "FILE_INFO" /\ down' = Tail(down)
        /\ cpc' = "receiving"
        /\ UNCHANGED <<remote, server, edits, final, linked, unsynced, resume, astray, faults>>
    BY DEF Accept, Gets
  <1>2. PICK start : start = Head(down).start
    OBVIOUS
  <1>3. /\ size' = Head(down).total /\ received' = start
        /\ part' = Existing(start) /\ flushed' = Len(part')
        /\ digest' = SubSeq(part', 1, Min({start, Len(part')}))
        /\ Say(Ack("FILE_INFO", start))
    BY <1>2 DEF Accept
  <1>4. /\ start \in 0..MaxSize /\ size' \in 0..MaxSize /\ start <= size'
        /\ Head(down) = down[1] /\ Len(down) = 1 => Tail(down) = <<>>
    BY <1>0, <1>1, <1>2, <1>3, FirstDown, FramesAreTyped DEF Truthful
  <1>5. part' \in Seq(Blocks) /\ Len(part') \in Nat /\ part' # None
    <2>1. part' \in Seq(Blocks)
      BY <1>0, <1>3, VersionsAreContents DEF Existing, Stale, DiskTypes, FileType
    <2> QED
      BY <2>1, LenProperties, VersionsAreContents
  <1> DEFINE n == Min({start, Len(part')})
  <1>6. n \in 0..Len(part') /\ n <= start /\ n <= MaxSize /\ (start = Len(part') => n = start)
    <2>1. start \in Nat /\ start <= MaxSize
      BY <1>4, MaxSizeBounds
    <2>2. n = IF start <= Len(part') THEN start ELSE Len(part')
      BY <1>5, <2>1, MinOfTwo
    <2> HIDE DEF n
    <2> QED
      BY <1>5, <2>1, <2>2, MaxSizeBounds
  <1>7. digest' = SubSeq(part', 1, n)
    BY <1>3
  <1> HIDE DEF n
  <1>8. /\ digest' \in Contents /\ Len(digest') = n
        /\ n = Len(part') => digest' = part'
    BY <1>5, <1>6, <1>7, PrefixOfFile
  <1>9. PICK r : r = Ack("FILE_INFO", start)
    OBVIOUS
  <1>10. r \in UpFrames /\ ~IsReceipt(r)
    BY <1>4, <1>9, FramesAreTyped DEF Phases, IsReceipt, Ack
  <1>11. /\ link = "up" /\ link' = link /\ UpTypes'
         /\ up = <<>> => Len(up') = 1 /\ up'[1] = r
         /\ ReceiptUnread' => ReceiptUnread
    BY <1>0, <1>3, <1>9, <1>10, SayFacts
  <1>12. ServerTypes' /\ offered' = offered
    BY <1>1, ClientKeepsServer
  <1>13. ClientTypes'
    <2>1. received' \in 0..MaxSize /\ received' <= size' /\ Len(digest') <= received'
      BY <1>3, <1>4, <1>6, <1>8
    <2> QED
      BY <1>0, <1>1, <1>4, <1>8, <2>1 DEF ClientTypes
  <1>14. ~linked
    BY <1>0, <1>1 DEF Progress
  <1>15. DiskTypes' /\ DiskSound'
    BY <1>0, <1>1, <1>3, <1>5, <1>14 DEF DiskTypes, DiskSound, FileType
  <1>16. WireTypes'
    BY <1>0, <1>1, <1>11, <1>12, DownShrinks DEF WireTypes
  <1>17. Progress'
    BY <1>1, <1>5, <1>14 DEF Progress
  <1>18. ReceiptTrue'
    BY <1>1, <1>11, ReceiptKept
  <1>19. ASSUME ~astray
         PROVE  /\ part' = digest' /\ Len(digest') = received'
                /\ TransferPending' /\ spc' # "gone"
    <2>1. /\ up = <<>> /\ Len(down) = 1 /\ spc = "informing" /\ start = resume /\ offset = start
      BY <1>1, <1>2, <1>4, <1>11, <1>19, AnswerRead DEF Talking
    <2>2. start = Len(part')
      <3>1. resume = IF part = None THEN 0 ELSE Len(part)
        BY <1>0, <1>1 DEF Progress
      <3>2. CASE part = None
        BY <1>3, <2>1, <3>1, <3>2, VersionsAreContents DEF Existing, Stale
      <3>3. CASE part # None
        BY <1>3, <2>1, <3>1, <3>3 DEF Existing, Stale
      <3> QED
        BY <3>2, <3>3
    <2>3. part' = digest' /\ Len(digest') = received'
      BY <1>3, <1>6, <1>8, <2>2
    <2>4. /\ Len(up') = 1 /\ up'[1] = r /\ down' = <<>> /\ spc' = "informing"
          /\ offset' = start
      BY <1>1, <1>4, <1>11, <2>1 DEF server
    <2>5. TransferPending'
      BY <1>3, <1>9, <2>4 DEF TransferPending, Ack
    <2> QED
      BY <2>3, <2>4, <2>5
  <1>20. Covered'
    BY <1>1, <1>19 DEF Covered
  <1>21. Dialogue'
    BY <1>1, <1>19 DEF Dialogue
  <1>22. faults' \in 0..MaxFaults
    BY <1>0, <1>1
  <1> QED
    BY <1>12, <1>13, <1>15, <1>16, <1>17, <1>18, <1>20, <1>21, <1>22 DEF IInv

\* What is not a chunk ends the stream.
LEMMA LastFrame ==
  ASSUME IInv, Talking, cpc = "receiving", down # <<>>, down[1].op # "FILE_CHUNK"
  PROVE  /\ Len(down) = 1 /\ up = <<>>
         /\ \/ spc = "claiming" /\ down[1] = Checksum(total, hashed)
            \/ spc = "idle" /\ down[1].op = "ERROR"
  <1>1. TransferPending
    BY DEF IInv, Dialogue, Talking
  <1>2. Len(down) \in Nat /\ Len(down) >= 1
    BY FirstDown DEF IInv, WireTypes
  <1>3. 1 \in 1..Len(down)
    BY <1>2
  <1>4. /\ up = <<>> /\ spc \in {"claiming", "idle"}
        /\ \A i \in 1..Len(down) : i < Len(down) => down[i].op = "FILE_CHUNK"
        /\ spc = "idle" => down[Len(down)].op = "ERROR"
        /\ spc = "claiming" => down[Len(down)] = Checksum(total, hashed)
    BY <1>1, <1>3 DEF TransferPending, Quiet
  <1>5. ~(1 < Len(down))
    BY <1>3, <1>4
  <1>6. \A n \in Nat : n >= 1 /\ ~(1 < n) => n = 1
    OBVIOUS
  <1>7. Len(down) = 1
    BY <1>2, <1>5, <1>6, Zenon
  <1> QED
    BY <1>4, <1>7

\* The client reports an error to a server that waits for its reply.
LEMMA ErrorSaid ==
  ASSUME IInv, Talking => spc \in {"informing", "claiming"} /\ up = <<>> /\ down' = <<>>,
         NEW op \in Refused, Say(Error(op)), UNCHANGED server, cpc' = "discarding",
         ~astray' => ~astray
  PROVE  /\ link' = link /\ UpTypes' /\ (ReceiptUnread' => ReceiptUnread)
         /\ Dialogue'
  <1>1. PICK r : r = Error(op)
    OBVIOUS
  <1>2. r \in UpFrames /\ ~IsReceipt(r) /\ r.op = "ERROR"
    BY <1>1, FramesAreTyped DEF Error
  <1>3. /\ link = "up" /\ link' = link /\ UpTypes'
        /\ up = <<>> => Len(up') = 1 /\ up'[1] = r
        /\ ReceiptUnread' => ReceiptUnread
    BY <1>1, <1>2, SayFacts DEF IInv, WireTypes
  <1>4. ASSUME ~astray' PROVE BetweenRequests' /\ spc' # "gone"
    <2>1. /\ spc \in {"informing", "claiming"} /\ down' = <<>> /\ spc' = spc
          /\ Len(up') = 1 /\ up'[1] = r
      BY <1>3, <1>4 DEF Talking, server
    <2>2. Ending(up[1])'
      BY <1>2, <2>1 DEF Ending
    <2> QED
      BY <2>1, <2>2 DEF BetweenRequests
  <1> QED
    BY <1>3, <1>4 DEF Dialogue

LEMMA PartRemoved ==
  ASSUME IInv, RemovePart, UNCHANGED final
  PROVE  DiskTypes' /\ DiskSound'
  BY DEF IInv, DiskTypes, DiskSound, FileType, RemovePart

\* The client gives the transfer up, for whatever reason, and goes to discard the file.
LEMMA GivingUpKeeps ==
  ASSUME IInv, cpc' = "discarding",
         \/ DiskKept \/ (UNCHANGED disk /\ cpc # "receiving")
         \/ RemovePart /\ UNCHANGED final,
         UNCHANGED <<remote, server, edits>>, UNCHANGED <<resume, size, received, digest>>,
         astray' \in BOOLEAN, ~astray' => ~astray, link' = link, UpTypes',
         ReceiptUnread' => ReceiptUnread,
         down' = down \/ (down # <<>> /\ down' = Tail(down)),
         Fault \/ UNCHANGED faults \/ faults' \in 0..MaxFaults, Dialogue'
  PROVE  IInv'
  <1>1. ServerTypes' /\ offered' = offered
    BY ClientKeepsServer
  <1>2. DiskTypes' /\ DiskSound' /\ final' = final
    <2>1. CASE DiskKept \/ (UNCHANGED disk /\ cpc # "receiving")
      BY <2>1, OutputClosed
    <2>2. CASE RemovePart /\ UNCHANGED final
      BY <2>2, PartRemoved
    <2> QED
      BY <2>1, <2>2
  <1>3. ClientTypes'
    BY DEF IInv, ClientTypes
  <1>4. WireTypes'
    BY <1>1, DownShrinks DEF IInv, WireTypes
  <1>5. Progress' /\ Covered'
    BY Resting
  <1>6. ReceiptTrue'
    BY <1>2, ReceiptKept
  <1>7. faults' \in 0..MaxFaults
    BY FaultCounts DEF IInv
  <1> QED
    BY <1>1, <1>2, <1>3, <1>4, <1>5, <1>6, <1>7 DEF IInv

LEMMA CannotOpenKeeps ==
  ASSUME IInv, CannotOpen
  PROVE  IInv'
  <1>1. /\ cpc = "asked" /\ down # <<>> /\ down' = Tail(down)
        /\ Fault /\ Say(Error("FILE_INFO")) /\ cpc' = "discarding"
        /\ UNCHANGED <<remote, server, edits>>
        /\ UNCHANGED <<resume, size, received, digest, astray>>
        /\ Head(down).op = "FILE_INFO"
    BY DEF CannotOpen, Gets
  <1>2. UNCHANGED disk \/ (RemovePart /\ UNCHANGED final)
    BY DEF CannotOpen, disk
  <1>3. Head(down) = down[1] /\ (Len(down) = 1 => Tail(down) = <<>>)
    BY <1>1, FirstDown DEF IInv, WireTypes
  <1>4. Talking => spc \in {"informing", "claiming"} /\ up = <<>> /\ down' = <<>>
    BY <1>1, <1>3, AnswerRead
  <1>5. /\ link' = link /\ UpTypes' /\ (ReceiptUnread' => ReceiptUnread) /\ Dialogue'
    BY <1>1, <1>4, ErrorSaid DEF Refused
  <1>6. astray' \in BOOLEAN
    BY <1>1 DEF IInv, ClientTypes
  <1> QED
    BY <1>1, <1>2, <1>5, <1>6, GivingUpKeeps

\* The client says nothing: the server waits on for it.
LEMMA LeftWaiting ==
  ASSUME IInv, Talking => spc \in {"informing", "claiming"} /\ up = <<>> /\ down' = <<>>,
         UNCHANGED <<server, link, up, astray>>, untold' = TRUE,
         cpc' \in {"ready", "discarding"}
  PROVE  Dialogue'
  <1> SUFFICES ASSUME Talking' PROVE Dialogue'
    BY DEF Dialogue, Talking
  <1>1. Talking /\ spc' = spc /\ up' = up
    BY DEF Talking, server
  <1>2. BetweenRequests'
    BY <1>1 DEF BetweenRequests
  <1>3. spc' # "gone"
    BY <1>1
  <1> QED
    BY <1>2, <1>3 DEF Dialogue

LEMMA CannotRemoveKeeps ==
  ASSUME IInv, CannotRemove
  PROVE  IInv'
  <1>1. /\ cpc = "asked" /\ down # <<>> /\ down' = Tail(down)
        /\ cpc' = "discarding" /\ untold' = TRUE
        /\ UNCHANGED <<remote, server, edits>> /\ UNCHANGED <<link, up>> /\ UNCHANGED disk
        /\ UNCHANGED <<resume, size, received, digest, astray>>
        /\ Head(down).op = "FILE_INFO"
    BY DEF CannotRemove, Gets
  <1>2. faults' \in 0..MaxFaults
    <2>1. faults \in 0..MaxFaults /\ MaxFaults \in Nat
      BY DownloadAssumption DEF IInv, DownloadAssumption
    <2>2. (faults' = faults + 1 \/ faults' = faults + 2) /\ faults' <= MaxFaults
      BY DEF CannotRemove
    <2> QED
      BY <2>1, <2>2
  <1>3. Head(down) = down[1] /\ (Len(down) = 1 => Tail(down) = <<>>)
    BY <1>1, FirstDown DEF IInv, WireTypes
  <1>4. Talking => spc \in {"informing", "claiming"} /\ up = <<>> /\ down' = <<>>
    BY <1>1, <1>3, AnswerRead
  <1>5. Dialogue'
    BY <1>1, <1>4, LeftWaiting
  <1>6. UpTypes' /\ (ReceiptUnread' => ReceiptUnread)
    BY <1>1, UpShrinks DEF IInv, WireTypes
  <1>7. astray' \in BOOLEAN
    BY <1>1 DEF IInv, ClientTypes
  <1> QED
    BY <1>1, <1>2, <1>5, <1>6, <1>7, GivingUpKeeps

\* The chunk is refused, and the session goes astray.
LEMMA RefuseChunkKeeps ==
  ASSUME IInv, RefuseChunk
  PROVE  IInv'
  <1>1. /\ cpc = "receiving" /\ down # <<>> /\ down' = Tail(down)
        /\ Say(Error("FILE_CHUNK")) /\ DiskKept /\ cpc' = "discarding" /\ astray' = TRUE
        /\ UNCHANGED <<remote, server, edits>>
        /\ UNCHANGED <<resume, size, received, digest, faults>>
    BY DEF RefuseChunk, Gets
  <1>2. PICK r : r = Error("FILE_CHUNK")
    OBVIOUS
  <1>3. r \in UpFrames /\ ~IsReceipt(r)
    BY <1>2, FramesAreTyped DEF Refused
  <1>4. link' = link /\ UpTypes' /\ (ReceiptUnread' => ReceiptUnread)
    BY <1>1, <1>2, <1>3, SayFacts DEF IInv, WireTypes
  <1>5. Dialogue'
    BY <1>1 DEF Dialogue
  <1> QED
    BY <1>1, <1>4, <1>5, GivingUpKeeps

LEMMA RefuseChecksumKeeps ==
  ASSUME IInv, RefuseChecksum
  PROVE  IInv'
  <1>1. /\ cpc = "receiving" /\ down # <<>> /\ Head(down).op = "FILE_CHECKSUM"
        /\ down' = Tail(down)
        /\ Say(Error("FILE_CHECKSUM")) /\ DiskKept /\ cpc' = "discarding"
        /\ UNCHANGED <<remote, server, edits>>
        /\ UNCHANGED <<resume, size, received, digest, astray, faults>>
    BY DEF RefuseChecksum, Gets
  <1>2. Head(down) = down[1] /\ (Len(down) = 1 => Tail(down) = <<>>)
    BY <1>1, FirstDown DEF IInv, WireTypes
  <1>3. Talking => spc \in {"informing", "claiming"} /\ up = <<>> /\ down' = <<>>
    BY <1>1, <1>2, LastFrame
  <1>4. /\ link' = link /\ UpTypes' /\ (ReceiptUnread' => ReceiptUnread) /\ Dialogue'
    BY <1>1, <1>3, ErrorSaid DEF Refused
  <1>5. astray' \in BOOLEAN
    BY <1>1 DEF IInv, ClientTypes
  <1> QED
    BY <1>1, <1>4, <1>5, GivingUpKeeps

\* The server's error, or a reply to another request.
LEMMA RejectKeeps ==
  ASSUME IInv, Reject
  PROVE  IInv'
  <1>1. /\ down # <<>> /\ down' = Tail(down) /\ DiskKept /\ cpc' = "discarding"
        /\ UNCHANGED <<remote, server, edits>>
        /\ UNCHANGED <<resume, size, received, digest, astray, faults>>
    BY DEF Reject, Gets
  <1>2. \/ /\ cpc \in {"asked", "receiving"} /\ Head(down).op = "ERROR"
           /\ UNCHANGED <<link, up>>
        \/ /\ cpc = "asked" /\ Head(down).op \in {"FILE_CHUNK", "FILE_CHECKSUM"}
           /\ UNCHANGED <<link, up>>
        \/ cpc = "receiving" /\ Head(down).op = "FILE_INFO" /\ Say(Error("FILE_INFO"))
    BY DEF Reject, Gets
  <1>3. Head(down) = down[1] /\ (Len(down) = 1 => Tail(down) = <<>>)
    BY <1>1, FirstDown DEF IInv, WireTypes
  <1>4. ASSUME Talking
        PROVE  Head(down).op = "ERROR" /\ spc = "idle" /\ up = <<>> /\ down' = <<>>
    <2>1. CASE cpc = "asked"
      BY <1>1, <1>2, <1>3, <1>4, <2>1, AnswerRead
    <2>2. CASE cpc = "receiving"
      BY <1>1, <1>2, <1>3, <1>4, <2>2, LastFrame DEF Checksum
    <2> QED
      BY <1>2, <2>1, <2>2
  <1>5. /\ link' = link /\ UpTypes' /\ (ReceiptUnread' => ReceiptUnread) /\ Dialogue'
    <2>1. CASE UNCHANGED <<link, up>>
      <3>1. UpTypes' /\ (ReceiptUnread' => ReceiptUnread)
        BY <2>1, UpShrinks DEF IInv, WireTypes
      <3>2. ASSUME Talking PROVE Dialogue'
        BY <1>1, <1>4, <2>1, <3>2 DEF Dialogue, BetweenRequests, server
      <3> QED
        BY <1>1, <2>1, <3>1, <3>2 DEF Dialogue, Talking
    <2>2. CASE Head(down).op = "FILE_INFO" /\ Say(Error("FILE_INFO"))
      BY <1>1, <1>4, <2>2, ErrorSaid DEF Refused
    <2> QED
      BY <1>2, <2>1, <2>2
  <1>6. astray' \in BOOLEAN
    BY <1>1 DEF IInv, ClientTypes
  <1> QED
    BY <1>1, <1>5, <1>6, GivingUpKeeps

\* The next chunk continues the file.
LEMMA StoreKeeps ==
  ASSUME IInv, Store
  PROVE  IInv'
  <1>0. /\ DiskTypes /\ DiskSound /\ Progress /\ ClientTypes /\ UpTypes /\ DownTypes
        /\ faults \in 0..MaxFaults /\ ServerTypes /\ Covered
    BY DEF IInv, WireTypes
  <1>1. /\ cpc = "receiving" /\ down # <<>> /\ Head(down).op = "FILE_CHUNK"
        /\ down' = Tail(down) /\ received + 1 <= size
        /\ part' = Append(part, Head(down).data) /\ unsynced' = TRUE
        /\ digest' = Append(digest, Head(down).data) /\ received' = received + 1
        /\ UNCHANGED <<remote, server, edits>> /\ UNCHANGED <<final, linked, flushed>>
        /\ UNCHANGED <<cpc, resume, size, astray, link, up, faults>>
    BY DEF Store, Gets
  <1>2. /\ Head(down) = down[1] /\ Len(down) \in Nat /\ Len(down) >= 1
        /\ Len(Tail(down)) = Len(down) - 1
        /\ \A i \in 1..Len(Tail(down)) :
             Tail(down)[i] = down[i + 1] /\ i + 1 \in 1..Len(down)
    BY <1>0, <1>1, FirstDown
  <1>3. PICK b : b = Head(down).data
    OBVIOUS
  <1>4. b \in Blocks
    BY <1>0, <1>1, <1>3, FirstDown, FramesAreTyped
  <1>5. /\ part # None /\ part \in Seq(Blocks) /\ Len(part) \in Nat /\ ~linked
        /\ flushed \in Nat /\ flushed <= Len(part)
    BY <1>0, <1>1, LenProperties DEF Progress, DiskTypes, FileType, DiskSound
  <1>6. part' \in Seq(Blocks) /\ Len(part') = Len(part) + 1 /\ part' # None
    <2>1. part' \in Seq(Blocks) /\ Len(part') = Len(part) + 1
      BY <1>1, <1>3, <1>4, <1>5, AppendFacts
    <2> QED
      BY <2>1, VersionsAreContents
  <1>7. /\ received \in Nat /\ size \in 0..MaxSize /\ digest \in Seq(Blocks)
        /\ Len(digest) \in Nat /\ Len(digest) <= received
    BY <1>0, ContentsAreSeqs, LenProperties, MaxSizeBounds DEF ClientTypes
  <1>8. digest' \in Seq(Blocks) /\ Len(digest') = Len(digest) + 1
    BY <1>1, <1>3, <1>4, <1>7, AppendFacts
  <1>9. /\ received' \in 0..MaxSize /\ Len(digest') <= received' /\ Len(digest') <= MaxSize
        /\ received' <= size
    BY <1>1, <1>7, <1>8, MaxSizeBounds
  <1>10. digest' \in Contents
    BY <1>8, <1>9, ContentsAreSeqs
  <1>11. ServerTypes' /\ offered' = offered
    BY <1>1, ClientKeepsServer
  <1>12. ClientTypes'
    BY <1>0, <1>1, <1>9, <1>10 DEF ClientTypes
  <1>13. DiskTypes'
    BY <1>0, <1>1, <1>6 DEF DiskTypes, FileType
  <1>14. DiskSound'
    BY <1>1, <1>5, <1>6 DEF DiskSound
  <1>15. WireTypes' /\ (ReceiptUnread' => ReceiptUnread)
    BY <1>1, <1>11, UpShrinks, DownShrinks DEF IInv, WireTypes
  <1>16. Progress'
    BY <1>1, <1>5, <1>6 DEF Progress
  <1>17. Covered'
    <2>1. ASSUME ~astray PROVE part' = digest' /\ Len(digest') = received'
      BY <1>0, <1>1, <1>7, <1>8, <2>1 DEF Covered
    <2> QED
      BY <1>1, <2>1 DEF Covered
  <1>18. ReceiptTrue'
    BY <1>1, <1>15, ReceiptKept
  <1>19. ASSUME Talking PROVE TransferPending' /\ spc' # "gone"
    <2>1. TransferPending /\ spc # "gone" /\ sent \in Nat
      BY <1>0, <1>1, <1>19, MaxSizeBounds DEF IInv, Dialogue, Talking, ServerTypes
    <2>2. up' = up /\ spc' = spc /\ sent' = sent /\ total' = total /\ hashed' = hashed
      BY <1>1 DEF server
    <2>3. 1 \in 1..Len(down)
      BY <1>2
    <2>4. Len(down') = Len(down) - 1 /\ received' + Len(down') = received + Len(down)
      BY <1>1, <1>2, <1>7
    <2>5. CASE /\ up = <<>> /\ spc = "streaming" /\ received + Len(down) = sent
               /\ \A i \in 1..Len(down) : down[i].op = "FILE_CHUNK"
      <3>1. \A i \in 1..Len(down') : down'[i].op = "FILE_CHUNK"
        BY <1>1, <1>2, <2>5
      <3>2. up' = <<>> /\ spc' = "streaming" /\ received' + Len(down') = sent'
        BY <2>2, <2>4, <2>5
      <3> QED
        BY <2>1, <2>2, <3>1, <3>2 DEF TransferPending
    <2>6. CASE /\ up = <<>> /\ down # <<>> /\ spc \in {"claiming", "idle"}
               /\ \A i \in 1..Len(down) : i < Len(down) => down[i].op = "FILE_CHUNK"
               /\ spc = "idle" => down[Len(down)].op = "ERROR"
               /\ spc = "claiming" => /\ down[Len(down)] = Checksum(total, hashed)
                                      /\ received + Len(down) = sent + 1
      <3>1. Len(down) # 1
        BY <1>1, <1>2, <2>6 DEF Checksum
      <3>2. \A n \in Nat : n >= 1 /\ n # 1 => n - 1 \in 1..(n - 1) /\ n - 1 + 1 = n /\ n - 1 # 0
        OBVIOUS
      <3>3. Len(down') \in 1..Len(down') /\ Len(down') + 1 = Len(down) /\ Len(down') # 0
        BY <1>2, <2>4, <3>1, <3>2
      <3>4. down' # <<>> /\ down'[Len(down')] = down[Len(down)]
        BY <1>1, <1>2, <3>3, EmptySeq
      <3>5. ASSUME NEW i \in 1..Len(down'), i < Len(down') PROVE down'[i].op = "FILE_CHUNK"
        <4>1. down'[i] = down[i + 1] /\ i + 1 \in 1..Len(down) /\ i + 1 < Len(down)
          BY <1>1, <1>2, <3>3, <3>5
        <4> QED
          BY <2>6, <4>1
      <3>6. spc = "claiming" => received' + Len(down') = sent' + 1
        BY <2>2, <2>4, <2>6
      <3>7. up' = <<>> /\ spc' \in {"claiming", "idle"}
        BY <2>2, <2>6
      <3> QED
        BY <2>1, <2>2, <2>6, <3>4, <3>5, <3>6, <3>7 DEF TransferPending, Checksum
    <2> QED
      BY <1>1, <2>1, <2>5, <2>6 DEF TransferPending, Quiet
  <1>20. Dialogue'
    BY <1>1, <1>19 DEF Dialogue, Talking
  <1>21. faults' \in 0..MaxFaults
    BY <1>0, <1>1
  <1> QED
    BY <1>11, <1>12, <1>13, <1>14, <1>15, <1>16, <1>17, <1>18, <1>20, <1>21 DEF IInv

\* The checksum agrees: what is to be published is what the server hashed.
LEMMA FlushKeeps ==
  ASSUME IInv, Flush
  PROVE  IInv'
  <1>0. /\ DiskTypes /\ DiskSound /\ Progress /\ ClientTypes /\ UpTypes /\ DownTypes
        /\ faults \in 0..MaxFaults /\ ServerTypes /\ Covered
    BY DEF IInv, WireTypes
  <1>1. /\ cpc = "receiving" /\ down # <<>> /\ Head(down).op = "FILE_CHECKSUM"
        /\ down' = Tail(down)
        /\ Head(down).size = size /\ received = size /\ Head(down).digest = digest
        /\ flushed' = Len(part) /\ cpc' = "syncing"
        /\ UNCHANGED <<remote, server, edits>> /\ UNCHANGED <<final, part, linked, unsynced>>
        /\ UNCHANGED <<resume, size, received, digest, astray, link, up, faults>>
    BY DEF Flush, Gets, Vouched
  <1>2. /\ Head(down) = down[1] /\ Truthful(Head(down), offered)
        /\ (Len(down) = 1 => Tail(down) = <<>>)
    BY <1>0, <1>1, FirstDown
  <1>3. digest \in offered
    BY <1>1, <1>2 DEF Truthful
  <1>4. ServerTypes' /\ offered' = offered
    BY <1>1, ClientKeepsServer
  <1>5. ClientTypes'
    BY <1>0, <1>1 DEF ClientTypes
  <1>6. part # None /\ part \in Seq(Blocks) /\ Len(part) \in Nat /\ ~linked
    BY <1>0, <1>1, LenProperties DEF Progress, DiskTypes, FileType
  <1>7. DiskTypes' /\ DiskSound'
    BY <1>0, <1>1, <1>6 DEF DiskTypes, DiskSound
  <1>8. WireTypes' /\ (ReceiptUnread' => ReceiptUnread)
    BY <1>1, <1>4, UpShrinks, DownShrinks DEF IInv, WireTypes
  <1>9. Progress'
    BY <1>1, <1>6 DEF Progress
  <1>10. Covered'
    BY <1>0, <1>1, <1>3, <1>4 DEF Covered
  <1>11. ReceiptTrue'
    BY <1>1, <1>8, ReceiptKept
  <1>12. ASSUME Talking
         PROVE  up' = <<>> /\ down' = <<>> /\ spc = "claiming" /\ hashed = digest
                /\ total = received
    <2>1. Len(down) = 1 /\ up = <<>> /\ spc = "claiming" /\ down[1] = Checksum(total, hashed)
      BY <1>1, <1>2, <1>12, LastFrame
    <2>2. down[1].size = total /\ down[1].digest = hashed
      BY <2>1 DEF Checksum
    <2> QED
      BY <1>1, <1>2, <2>1, <2>2
  <1>13. Dialogue'
    BY <1>1, <1>12 DEF Dialogue, Talking, Quiet, server
  <1>14. faults' \in 0..MaxFaults
    BY <1>0, <1>1
  <1> QED
    BY <1>4, <1>5, <1>7, <1>8, <1>9, <1>10, <1>11, <1>13, <1>14 DEF IInv

\* The flush fails outside of every handler, and the server is not told.
LEMMA FlushFailsKeeps ==
  ASSUME IInv, FlushFails
  PROVE  IInv'
  <1>1. /\ cpc = "receiving" /\ down # <<>> /\ down' = Tail(down) /\ Fault
        /\ part' \in PrefixesFrom(flushed, part) /\ flushed' = Len(part')
        /\ Head(down).op = "FILE_CHECKSUM"
        /\ cpc' = "ready" /\ untold' = TRUE /\ Forget
        /\ UNCHANGED <<remote, server, edits>>
        /\ UNCHANGED <<final, linked, unsynced, astray, link, up>>
    BY DEF FlushFails, Gets
  <1>2. ServerTypes' /\ offered' = offered
    BY <1>1, ClientKeepsServer
  <1>3. WireTypes' /\ (ReceiptUnread' => ReceiptUnread)
    BY <1>1, <1>2, UpShrinks, DownShrinks DEF IInv, WireTypes
  <1>4. DiskTypes' /\ DiskSound'
    <2>1. part # None /\ part \in Seq(Blocks) /\ flushed \in Nat
      BY <1>1 DEF IInv, Progress, DiskTypes, FileType
    <2>2. part' \in Seq(Blocks)
      BY <1>1, <2>1, BufferLost
    <2>3. flushed' = IF part' = None THEN 0 ELSE Len(part')
      BY <1>1, <2>2, VersionsAreContents
    <2> QED
      BY <1>1, <2>1, <2>3, OutputLost
  <1>5. ClientTypes'
    BY <1>1, Forgotten DEF IInv, ClientTypes
  <1>6. Progress' /\ Covered'
    BY <1>1, Resting
  <1>7. ReceiptTrue'
    BY <1>1, <1>3, ReceiptKept
  <1>8. Dialogue'
    <2>1. Head(down) = down[1] /\ (Len(down) = 1 => Tail(down) = <<>>)
      BY <1>1, FirstDown DEF IInv, WireTypes
    <2>2. Talking => spc \in {"informing", "claiming"} /\ up = <<>> /\ down' = <<>>
      BY <1>1, <2>1, LastFrame
    <2> QED
      BY <1>1, <2>2, LeftWaiting
  <1>9. faults' \in 0..MaxFaults
    BY <1>1, FaultCounts DEF IInv
  <1> QED
    BY <1>2, <1>3, <1>4, <1>5, <1>6, <1>7, <1>8, <1>9 DEF IInv

\* While it publishes, the client has the last word.
Publishing == {"syncing", "linking", "unlinking", "confirming"}

\* One step of the publication, from the partial file to the destination.
LEMMA PublishingKeeps ==
  ASSUME IInv, cpc \in Publishing, cpc' \in Publishing,
         UNCHANGED <<remote, server, edits, link, up, down, faults>>,
         UNCHANGED <<resume, size, received, digest, astray>>,
         final = None \/ final' = final, DiskTypes', DiskSound', Progress', Covered'
  PROVE  IInv'
  <1>1. ServerTypes' /\ offered' = offered
    BY ClientKeepsServer
  <1>2. ClientTypes'
    BY DEF IInv, ClientTypes, Publishing
  <1>3. WireTypes' /\ (ReceiptUnread' => ReceiptUnread)
    BY <1>1, UpShrinks, DownShrinks DEF IInv, WireTypes
  <1>4. ReceiptTrue'
    BY <1>3, ReceiptKept
  <1>5. Dialogue'
    BY DEF IInv, Dialogue, Quiet, server, Publishing
  <1>6. faults' \in 0..MaxFaults
    BY DEF IInv
  <1> QED
    BY <1>1, <1>2, <1>3, <1>4, <1>5, <1>6 DEF IInv

LEMMA SyncLinkUnlinkKeep ==
  ASSUME IInv, Sync \/ Link \/ Unlink
  PROVE  IInv'
  <1>0. DiskTypes /\ DiskSound /\ Progress /\ Covered
    BY DEF IInv
  <1>1. CASE Sync
    <2>1. /\ cpc = "syncing" /\ cpc' = "linking" /\ unsynced' = FALSE
          /\ UNCHANGED <<remote, server, edits, link, up, down, faults>>
          /\ UNCHANGED <<resume, size, received, digest, astray>>
          /\ UNCHANGED <<final, part, linked, flushed>>
      BY <1>1 DEF Sync, wire
    <2>2. DiskTypes' /\ DiskSound' /\ Progress'
      BY <1>0, <2>1 DEF DiskTypes, DiskSound, Progress
    <2>3. Covered'
      BY <1>0, <2>1 DEF Covered, server
    <2> QED
      BY <2>1, <2>2, <2>3, PublishingKeeps DEF Publishing
  <1>2. CASE Link
    <2>1. /\ cpc = "linking" /\ cpc' = "unlinking" /\ final = None /\ final' = part
          /\ linked' = TRUE
          /\ UNCHANGED <<remote, server, edits, link, up, down, faults>>
          /\ UNCHANGED <<resume, size, received, digest, astray>>
          /\ UNCHANGED <<part, unsynced, flushed>>
      BY <1>2 DEF Link, wire
    <2>2. DiskTypes' /\ DiskSound' /\ Progress'
      BY <1>0, <2>1 DEF DiskTypes, DiskSound, Progress
    <2>3. Covered'
      BY <1>0, <2>1 DEF Covered, server
    <2> QED
      BY <2>1, <2>2, <2>3, PublishingKeeps DEF Publishing
  <1>3. CASE Unlink
    <2>1. /\ cpc = "unlinking" /\ cpc' = "confirming" /\ RemovePart
          /\ UNCHANGED <<remote, server, edits, link, up, down, faults>>
          /\ UNCHANGED <<resume, size, received, digest, astray>> /\ final' = final
      BY <1>3 DEF Unlink, wire
    <2>2. DiskTypes' /\ DiskSound' /\ Progress'
      BY <1>0, <2>1 DEF DiskTypes, FileType, DiskSound, Progress, RemovePart
    <2>3. Covered'
      BY <1>0, <2>1 DEF Covered, server
    <2> QED
      BY <2>1, <2>2, <2>3, PublishingKeeps DEF Publishing
  <1> QED
    BY <1>1, <1>2, <1>3

\* A failing step of the publication is reported.
LEMMA FailKeeps ==
  ASSUME IInv, Fail
  PROVE  IInv'
  <1>1. /\ LocalFailure /\ Say(Error("FILE_CHECKSUM")) /\ cpc' = "discarding"
        /\ UNCHANGED <<remote, server, edits>> /\ UNCHANGED <<disk, down>>
        /\ UNCHANGED <<resume, size, received, digest, astray>>
    BY DEF Fail
  <1>2. cpc \in {"syncing", "linking", "unlinking"} /\ (Fault \/ UNCHANGED faults)
    BY <1>1 DEF LocalFailure
  <1>3. Talking => spc \in {"informing", "claiming"} /\ up = <<>> /\ down' = <<>>
    BY <1>1, <1>2 DEF IInv, Dialogue, Talking, Quiet
  <1>4. /\ link' = link /\ UpTypes' /\ (ReceiptUnread' => ReceiptUnread) /\ Dialogue'
    BY <1>1, <1>3, ErrorSaid DEF Refused
  <1>5. astray' \in BOOLEAN
    BY <1>1 DEF IInv, ClientTypes
  <1> QED
    BY <1>1, <1>2, <1>4, <1>5, GivingUpKeeps

\* The last acknowledgement is sent when the destination holds what the server hashed.
LEMMA ConfirmKeeps ==
  ASSUME IInv, Confirm
  PROVE  IInv'
  <1>0. /\ DiskTypes /\ DiskSound /\ ClientTypes /\ UpTypes /\ DownTypes /\ ServerTypes
        /\ faults \in 0..MaxFaults /\ Covered /\ ReceiptTrue
    BY DEF IInv, WireTypes
  <1>1. /\ cpc = "confirming" /\ Say(Ack("FILE_CHECKSUM", received))
        /\ cpc' = "ready" /\ Forget
        /\ UNCHANGED <<remote, server, edits>> /\ UNCHANGED <<disk, astray, down, faults>>
    BY DEF Confirm
  <1>2. PICK r : r = Ack("FILE_CHECKSUM", received)
    OBVIOUS
  <1>3. r \in UpFrames
    BY <1>0, <1>2, FramesAreTyped DEF Phases, ClientTypes
  <1>4. /\ link = "up" /\ link' = link /\ UpTypes'
        /\ up = <<>> => Len(up') = 1 /\ up'[1] = r
    BY <1>0, <1>1, <1>2, <1>3, SayFacts
  <1>5. ServerTypes' /\ offered' = offered
    BY <1>1, ClientKeepsServer
  <1>6. WireTypes'
    BY <1>0, <1>1, <1>4, <1>5, DownShrinks DEF WireTypes
  <1>7. DiskTypes' /\ DiskSound'
    BY <1>0, <1>1 DEF DiskTypes, DiskSound, disk
  <1>8. ClientTypes'
    BY <1>0, <1>1, Forgotten DEF ClientTypes
  <1>9. Progress' /\ Covered'
    BY <1>1, Resting
  <1>10. ASSUME ~astray
         PROVE  Quiet /\ spc = "claiming" /\ hashed = digest /\ total = received
                /\ final = digest
    BY <1>0, <1>1, <1>4, <1>10 DEF IInv, Dialogue, Covered
  <1>11. ReceiptTrue'
    <2>1. spc' = spc /\ hashed' = hashed /\ final' = final /\ astray' = astray
      BY <1>1 DEF server, disk
    <2> QED
      BY <1>0, <1>5, <1>10, <2>1 DEF ReceiptTrue
  <1>12. ASSUME ~astray PROVE BetweenRequests' /\ spc' # "gone"
    <2>1. /\ Len(up') = 1 /\ up'[1] = Ack("FILE_CHECKSUM", total) /\ down' = <<>>
          /\ spc' = "claiming" /\ total' = total
      BY <1>1, <1>2, <1>4, <1>10, <1>12 DEF server, Quiet
    <2>2. Ending(up[1])'
      BY <2>1 DEF Ending, Ack
    <2> QED
      BY <2>1, <2>2 DEF BetweenRequests
  <1>13. Dialogue'
    BY <1>1, <1>12 DEF Dialogue
  <1>14. faults' \in 0..MaxFaults
    BY <1>0, <1>1
  <1> QED
    BY <1>5, <1>6, <1>7, <1>8, <1>9, <1>11, <1>13, <1>14 DEF IInv

\* The partial file goes, or stays when even that fails.
LEMMA DiscardKeeps ==
  ASSUME IInv, Discard
  PROVE  IInv'
  <1>0. /\ DiskTypes /\ DiskSound /\ UpTypes /\ DownTypes
        /\ faults \in 0..MaxFaults
    BY DEF IInv, WireTypes
  <1>1. /\ cpc = "discarding" /\ cpc' = "ready" /\ Forget
        /\ RemovePart \/ UNCHANGED <<part, linked, unsynced, flushed>>
        /\ final' = final /\ (Fault \/ UNCHANGED faults)
        /\ UNCHANGED <<remote, server, edits>>
        /\ UNCHANGED <<astray, untold, link, up, down>>
    BY DEF Discard, disk, wire
  <1>2. ServerTypes' /\ offered' = offered
    BY <1>1, ClientKeepsServer
  <1>3. WireTypes' /\ (ReceiptUnread' => ReceiptUnread)
    BY <1>1, <1>2, UpShrinks, DownShrinks DEF IInv, WireTypes
  <1>4. DiskTypes' /\ DiskSound'
    <2>1. CASE RemovePart
      BY <1>0, <1>1, <2>1 DEF DiskTypes, DiskSound, FileType, RemovePart
    <2>2. CASE UNCHANGED <<part, linked, unsynced, flushed>>
      BY <1>0, <1>1, <2>2 DEF DiskTypes, DiskSound
    <2> QED
      BY <1>1, <2>1, <2>2
  <1>5. ClientTypes'
    BY <1>1, Forgotten DEF IInv, ClientTypes
  <1>6. Progress' /\ Covered'
    BY <1>1, Resting
  <1>7. ReceiptTrue'
    BY <1>1, <1>3, ReceiptKept
  <1>8. Dialogue'
    BY <1>1 DEF IInv, Dialogue, BetweenRequests, Ending, server
  <1>9. faults' \in 0..MaxFaults
    BY <1>0, <1>1, FaultCounts
  <1> QED
    BY <1>2, <1>3, <1>4, <1>5, <1>6, <1>7, <1>8, <1>9 DEF IInv

\* Somebody takes the destination: nothing that is linked or confirmed was there.
LEMMA IntrudeKeeps ==
  ASSUME IInv, Intrude
  PROVE  IInv'
  <1>0. /\ DiskTypes /\ DiskSound /\ UpTypes /\ DownTypes
        /\ faults \in 0..MaxFaults /\ Covered /\ Progress /\ ClientTypes
    BY DEF IInv, WireTypes
  <1>1. /\ final = None /\ Fault /\ final' = Foreign
        /\ UNCHANGED <<remote, server, edits>> /\ UNCHANGED client
        /\ UNCHANGED <<part, linked, unsynced, flushed>> /\ UNCHANGED <<link, up, down>>
    BY DEF Intrude, wire
  <1>2. ServerTypes' /\ offered' = offered
    BY <1>1, ClientKeepsServer
  <1>3. WireTypes' /\ (ReceiptUnread' => ReceiptUnread)
    BY <1>1, <1>2, UpShrinks, DownShrinks DEF IInv, WireTypes
  <1>4. ~linked
    BY <1>0, <1>1 DEF DiskSound
  <1>5. DiskTypes' /\ DiskSound'
    BY <1>0, <1>1, <1>4 DEF DiskTypes, DiskSound, client
  <1>6. ClientTypes' /\ Progress'
    BY <1>0, <1>1 DEF ClientTypes, Progress, client
  <1>7. Covered'
    <2>1. digest # None
      BY <1>0, VersionsAreContents DEF ClientTypes
    <2>2. ~astray => cpc \notin {"unlinking", "confirming"}
      BY <1>0, <1>1, <2>1 DEF Covered
    <2> QED
      BY <1>0, <1>1, <1>2, <2>2 DEF Covered, client
  <1>8. ReceiptTrue'
    BY <1>1, <1>3, ReceiptKept DEF client
  <1>9. Dialogue'
    BY <1>1 DEF IInv, Dialogue, BetweenRequests, RequestPending, TransferPending, Ending, Quiet,
                server, client
  <1>10. faults' \in 0..MaxFaults
    BY <1>0, <1>1, FaultCounts
  <1> QED
    BY <1>2, <1>3, <1>5, <1>6, <1>7, <1>8, <1>9, <1>10 DEF IInv

-------------------------------------------------------------------------------
(* Theorems.                                                               *)

LEMMA Initially ==
  ASSUME Init
  PROVE  IInv
  <1>1. /\ 0 \in 0..MaxSize /\ 0 \in 0..MaxFaults /\ 0 \in 0..MaxEdits
        /\ up \in Seq(UpFrames) /\ down \in Seq(DownFrames) /\ Len(up) = 0 /\ Len(down) = 0
        /\ 0 <= Window
    BY MaxSizeBounds, DownloadAssumption, EmptySeq DEF Init, DownloadAssumption
  <1>2. ServerTypes /\ DiskTypes
    BY <1>1, VersionsAreContents DEF Init, ServerTypes, DiskTypes, FileType
  <1>3. ClientTypes
    <2>1. digest = <<>> /\ received = 0 /\ size = 0 /\ Len(digest) <= received
      BY VersionsAreContents DEF Init
    <2> QED
      BY <1>1, <2>1, VersionsAreContents DEF Init, ClientTypes
  <1>4. WireTypes
    BY <1>1 DEF Init, WireTypes, UpTypes, DownTypes
  <1>5. DiskSound /\ Progress /\ Covered /\ ReceiptTrue /\ Dialogue
    BY DEF Init, DiskSound, Progress, Covered, ReceiptTrue, Dialogue
  <1> QED
    BY <1>1, <1>2, <1>3, <1>4, <1>5 DEF IInv, Init

LEMMA StutterKeeps ==
  ASSUME IInv, UNCHANGED vars
  PROVE  IInv'
  BY DEF vars, server, disk, client, wire,
         IInv, ServerTypes, DiskTypes, ClientTypes, WireTypes, UpTypes, DownTypes, Truthful,
         DiskSound, Progress, Covered, ReceiptTrue, ReceiptUnread, Dialogue, BetweenRequests,
         RequestPending, TransferPending, Ending, Quiet

LEMMA Inductive == Spec => []IInv
  <1>1. Init => IInv
    BY Initially
  <1>2. IInv /\ [Next]_vars => IInv'
    <2> SUFFICES ASSUME IInv, [Next]_vars PROVE IInv'
      OBVIOUS
    <2>1. CASE ServerStep
      BY <2>1, InformKeeps, DeclineKeeps, RejectStrayKeeps, BadReplyKeeps, BeginHashKeeps,
         HashingKeeps, SendChunkKeeps, SizeChangedKeeps, SendChecksumKeeps, CompleteKeeps,
         SessionEndsKeeps DEF ServerStep
    <2>2. CASE ClientStep
      BY <2>2, ConnectKeeps, AskKeeps, AcceptKeeps, StoreKeeps, RefuseChunkKeeps, FlushKeeps,
         RefuseChecksumKeeps, RejectKeeps, SyncLinkUnlinkKeep, ConfirmKeeps, FailKeeps,
         DiscardKeeps, LeavingKeeps DEF ClientStep
    <2>3. CASE Failure
      BY <2>3, SessionEndsKeeps, CannotOpenKeeps, CannotRemoveKeeps, StoreFailsKeeps,
         FlushFailsKeeps, LeavingKeeps, LoseConnectionKeeps, IntrudeKeeps DEF Failure
    <2>4. CASE Leave \/ Edit
      BY <2>4, LeavingKeeps, EditKeeps
    <2>5. CASE UNCHANGED vars
      BY <2>5, StutterKeeps
    <2> QED
      BY <2>1, <2>2, <2>3, <2>4, <2>5 DEF Next
  <1> QED
    BY <1>1, <1>2, PTL DEF Spec

\* The one variable that the invariant leaves without a type.
HistoryTyped == untold \in BOOLEAN

LEMMA HistoryIsTyped == Spec => []HistoryTyped
  <1>1. Init => HistoryTyped
    BY DEF Init, HistoryTyped
  <1>2. HistoryTyped /\ [Next]_vars => HistoryTyped'
    <2> SUFFICES ASSUME [Next]_vars PROVE untold' \in {untold, TRUE, FALSE}
      BY DEF HistoryTyped
    <2>1. CASE ServerStep
      BY <2>1 DEF ServerStep, Inform, Decline, RejectStray, BadReply, BeginHash, HashBlock, Seek,
         SendChunk, SizeChanged, SendChecksum, Complete, EndSession, client
    <2>2. CASE ClientStep
      BY <2>2 DEF ClientStep, Connect, Ask, Accept, Store, RefuseChunk, Flush, RefuseChecksum,
         Reject, Sync, Link, Unlink, Confirm, Fail, Discard, LoseSession, HangUp
    <2>3. CASE Failure
      BY <2>3 DEF Failure, ReadFails, CannotOpen, CannotRemove, StoreFails, FlushFails, Cancel,
         Crash, PowerLoss, LoseConnection, Intrude, HangUp, client
    <2>4. CASE Leave \/ Edit \/ UNCHANGED vars
      BY <2>4 DEF Leave, Edit, HangUp, vars, client
    <2> QED
      BY <2>1, <2>2, <2>3, <2>4 DEF Next
  <1> QED
    BY <1>1, <1>2, PTL DEF Spec

\* Every variable stays within its type, and no client takes more of a file than it was
\* announced, whatever the failures, the edits and the stale replies.
THEOREM DownloadTypesAlways == Spec => []TypeOK
  <1>1. IInv /\ HistoryTyped => TypeOK
    BY MaxSizeBounds DEF IInv, ServerTypes, DiskTypes, ClientTypes, WireTypes, UpTypes,
                         DownTypes, HistoryTyped, TypeOK, MaxSize
  <1>2. Spec => []HistoryTyped
    BY HistoryIsTyped
  <1> QED
    BY <1>1, <1>2, Inductive, PTL

\* A file is linked to the destination with contents that the server's checksum covers,
\* whatever the partial file held before and however often it was resumed, as long as the
\* session has not gone astray.
THEOREM DigestAlwaysMatchesPart == Spec => []DigestMatchesPart
  <1>1. IInv => DigestMatchesPart
    BY DEF IInv, Covered, DigestMatchesPart
  <1> QED
    BY <1>1, Inductive, PTL

\* No step but those of a session gone astray publishes anything else than a whole file
\* the server vouched for, replaces it, or makes the server log a success that is not there.
THEOREM DownloadImplementsPublication == Spec => ImplementsPublication
  <1>1. Init => Storage!Init
    BY DEF Init, Storage!Init
  <1>2. IInv /\ [Next]_vars
          => [Storage!Next \/ (astray /\ NeverReplaced)]_Storage!pubVars
    <2> SUFFICES ASSUME IInv, [Next]_vars, ~UNCHANGED Storage!pubVars
                 PROVE  Storage!Next \/ (astray /\ NeverReplaced)
      OBVIOUS
    <2>0. ~UNCHANGED <<offered, final, confirmed>>
      BY DEF Storage!pubVars
    <2>1. CASE SendChecksum
      <3>1. /\ hashed \in Contents /\ offered' = offered \cup {hashed}
            /\ UNCHANGED <<final, confirmed>>
        BY <2>1, SendChecksumKeeps DEF SendChecksum, disk
      <3>2. Storage!Offer(hashed)
        BY <3>1 DEF Storage!Offer
      <3> QED
        BY <3>1, <3>2 DEF Storage!Next
    <2>2. CASE Complete
      <3>1. /\ hashed \in offered /\ confirmed' = hashed /\ UNCHANGED <<final, offered>>
            /\ (~astray => final = hashed)
        BY <2>2, CompleteKeeps DEF Complete, disk
      <3>2. ~astray => Storage!Confirm
        BY <3>1 DEF Storage!Confirm
      <3> QED
        BY <3>1, <3>2 DEF Storage!Next, NeverReplaced
    <2>3. CASE Link
      <3>1. /\ cpc = "linking" /\ final = None /\ final' = part
            /\ UNCHANGED <<offered, confirmed>>
        BY <2>3 DEF Link, server
      <3>2. ASSUME ~astray PROVE part \in offered /\ part \in Contents
        BY <3>1, <3>2 DEF IInv, Covered, ClientTypes
      <3>3. ~astray => Storage!Publish(part) /\ part \in Contents
        BY <3>1, <3>2 DEF Storage!Publish
      <3> QED
        BY <3>1, <3>3 DEF Storage!Next, NeverReplaced
    <2>4. CASE Intrude
      <3>1. Storage!Intrude
        BY <2>4 DEF Intrude, server, Storage!Intrude
      <3> QED
        BY <3>1 DEF Storage!Next
    <2>5. CASE PowerLoss
      <3>1. UNCHANGED <<offered, confirmed>>
        BY <2>5 DEF PowerLoss, server
      <3>2. final' = final
        BY <2>5 DEF PowerLoss, IInv, DiskSound
      <3> QED
        BY <2>0, <3>1, <3>2
    <2>6. CASE ServerStep /\ ~SendChecksum /\ ~Complete
      BY <2>0, <2>6 DEF ServerStep, Inform, Decline, RejectStray, BadReply, BeginHash, HashBlock,
         Seek, SendChunk, SizeChanged, EndSession, server, disk
    <2>7. CASE ClientStep /\ ~Link
      BY <2>0, <2>7 DEF ClientStep, Connect, Ask, Accept, Store, RefuseChunk, Flush,
         RefuseChecksum, Reject, Sync, Unlink, Confirm, Fail, Discard, LoseSession, DiskKept,
         server, disk
    <2>8. CASE Failure /\ ~Intrude /\ ~PowerLoss
      BY <2>0, <2>8 DEF Failure, ReadFails, CannotOpen, CannotRemove, RemovePart, StoreFails,
         FlushFails, Cancel, Crash, LoseConnection, DiskKept, server, disk
    <2>9. CASE Leave \/ Edit \/ UNCHANGED vars
      BY <2>0, <2>9 DEF Leave, Edit, vars, server, disk
    <2> QED
      BY <2>1, <2>2, <2>3, <2>4, <2>5, <2>6, <2>7, <2>8, <2>9 DEF Next
  <1> QED
    BY <1>1, <1>2, Inductive, PTL DEF Spec, ImplementsPublication

LEMMA CountUpTo == \A n \in Nat : Cardinality(1..n) = n
  BY FS_Interval

\* Unless the session has gone astray, the chunks on their way are exactly those between
\* the two ends, and a client between two requests has nothing to read and finds the
\* server ready for the next, or to answer it with an ERROR where a failure of the last
\* kept the client from telling it.
THEOREM EndsAlwaysInStep == Spec => []InStep
  <1>1. IInv => InStep
    <2> SUFFICES ASSUME IInv, link = "up", ~astray PROVE InStep
      BY DEF InStep
    <2> DEFINE chunks == {i \in DOMAIN down : down[i].op = "FILE_CHUNK"}
               transferring == cpc = "receiving" /\ spc \in {"streaming", "claiming"}
    <2>1. /\ Dialogue /\ Len(down) \in Nat /\ DOMAIN down = 1..Len(down) /\ received \in Nat
          /\ sent \in Nat
      BY LenProperties, MaxSizeBounds
      DEF IInv, WireTypes, DownTypes, ServerTypes, ClientTypes
    <2>2. ASSUME transferring PROVE received + Cardinality(chunks) = sent
      <3>1. TransferPending
        BY <2>1, <2>2 DEF Dialogue
      <3>2. CASE spc = "streaming"
        <4>1. /\ received + Len(down) = sent
              /\ \A i \in 1..Len(down) : down[i].op = "FILE_CHUNK"
          BY <3>1, <3>2 DEF TransferPending, Quiet
        <4>2. chunks = 1..Len(down)
          BY <2>1, <4>1
        <4>3. Cardinality(1..Len(down)) = Len(down)
          BY <2>1, CountUpTo
        <4> QED
          BY <4>1, <4>2, <4>3
      <3>3. CASE spc = "claiming"
        <4>1. /\ down # <<>> /\ down[Len(down)] = Checksum(total, hashed)
              /\ \A i \in 1..Len(down) : i < Len(down) => down[i].op = "FILE_CHUNK"
              /\ received + Len(down) = sent + 1
          BY <3>1, <3>3 DEF TransferPending, Quiet
        <4>2. Len(down) >= 1
          BY <2>1, <4>1, EmptySeq
        <4> DEFINE n == Len(down) - 1
        <4>3. n \in Nat /\ received + n = sent
          BY <2>1, <4>1, <4>2
        <4>4. \A i \in 1..Len(down) : down[i].op = "FILE_CHUNK" <=> i # Len(down)
          <5>1. ASSUME NEW i \in 1..Len(down), i # Len(down) PROVE i < Len(down)
            <6>1. \A k \in Nat : \A j \in 1..k : j # k => j < k
              OBVIOUS
            <6> QED
              BY <2>1, <5>1, <6>1, Zenon
          <5>2. down[Len(down)].op = "FILE_CHECKSUM"
            BY <4>1 DEF Checksum
          <5> QED
            BY <4>1, <5>1, <5>2
        <4>5. \A i : i \in 1..Len(down) /\ i # Len(down) <=> i \in 1..n
          BY <2>1, SMTT(30)
        <4>6. chunks = 1..n
          BY <2>1, <4>4, <4>5
        <4> HIDE DEF n, chunks
        <4>7. Cardinality(1..n) = n
          BY <4>3, CountUpTo
        <4> QED
          BY <4>3, <4>6, <4>7
      <3> QED
        BY <2>2, <3>2, <3>3
    <2>3. ASSUME cpc = "ready" PROVE Settled
      <3>1. BetweenRequests
        BY <2>1, <2>3 DEF Dialogue
      <3> QED
        BY <3>1 DEF BetweenRequests, Settled, Ending, Awaited
    <2> QED
      BY <2>2, <2>3 DEF InStep
  <1> QED
    BY <1>1, Inductive, PTL

===============================================================================
