----------------------------- MODULE SessionProofs -----------------------------
(***************************************************************************)
(* Proofs about Session: for any usernames and USER_IDs, any number of     *)
(* calls, of frames of another program and of faults, with the client of   *)
(* this repository as the peer or any other.                               *)
(***************************************************************************)
EXTENDS Session, SequenceTheorems, FiniteSetTheorems, TLAPS

--------------------------------------------------------------------------------
(* The invariant: the server's end and the registry.                       *)

Rejecting == {"REJECTING", "DRAINING"}
States == {"CONNECTED", "CLOSING", "CLOSED"} \cup Serving \cup Transferring \cup Rejecting
LoggedIn == {"IDLE"} \cup Transferring

\* A rejected connection has no session.  One that has been given a session is known to
\* the registry until its end is logged, under the name and the USER_ID the session has.
Identity ==
  /\ state \in States /\ issued \in {Rival, Me}
  /\ issued = Rival => state \notin {"CONNECTED"} \cup Serving \cup Transferring
  /\ issued = Me => state \notin Rejecting
  /\ userId \in Nat
  /\ Me \in DOMAIN holds => issued = Me /\ holds[Me].username \in Usernames \cup {None}
  /\ issued = Me /\ state # "CLOSED" =>
       /\ Me \in DOMAIN holds
       /\ holds[Me] = [username |-> username, userId |-> userId]
  /\ state \in {"CONNECTED", "AUTHENTICATING"} => username = None /\ userId = 0
  /\ state \in LoggedIn => username \in Usernames /\ userId >= 1
  /\ state # "CLOSED" => ~halfClosed \/ issued = Rival

--------------------------------------------------------------------------------
(* The invariant: the log.                                                 *)

LogRecords ==
  [event : {"connection", "command", "disconnection"}, op : Opcodes \cup {"none"},
   success : BOOLEAN, user : Usernames \cup {None}]

\* All records but the first are about one identity, the one the registry has as long
\* as there may be more of them; and clean says whether a DISCONNECT was answered.
LogSound ==
  /\ log \in Seq(LogRecords)
  /\ \A i \in 1..Len(log) :
       /\ log[i].event = "connection" <=> i = 1
       /\ log[i].event = "disconnection" => i = Len(log) /\ log[i].success = clean
       /\ log[i].event = "command" => log[i].user # None
       /\ i # 1 /\ Me \in DOMAIN holds => log[i].user = holds[Me].username
       /\ log[i].event = "command" /\ log[i].op = "DISCONNECT" /\ log[i].success => clean
  /\ \A i, j \in 1..Len(log) : i # 1 /\ j # 1 => log[i].user = log[j].user
  /\ clean => \E i \in 1..Len(log) : /\ log[i].event = "command" /\ log[i].op = "DISCONNECT"
                                     /\ log[i].success

\* When there is how much of it.
LogTimely ==
  /\ clean \in BOOLEAN /\ (clean => state \in {"CLOSING", "CLOSED"})
  /\ state \in {"CONNECTED", "REJECTING"} => log = <<>>
  /\ issued = Me /\ state # "CONNECTED" => log # <<>>
  /\ state = "AUTHENTICATING" => Len(log) = 1
  /\ Logged("disconnection") => state = "CLOSED"
  /\ issued = Me /\ ~Logged("disconnection") => Me \in DOMAIN holds

--------------------------------------------------------------------------------
(* The invariant: the client of this repository.                           *)

Asking == {"preface", "login", "listing", "leaving"}
Settled == {"settling", "ready", "sending"}
Inside == Settled \cup {"listing", "leaving"}
Busy == Reply("ERROR", "none", 0)

\* The thread has its socket until a call ends or the window takes it.
ClientLocal ==
  /\ call \in {"none", "over"} \cup Asking \cup Settled
  /\ closing \in {"no", "taken", "forgotten", "closed"}
  /\ connected \in BOOLEAN /\ authenticated \in BOOLEAN /\ clientId \in Nat
  /\ peer = "foreign" => call = "none" /\ down = <<>>
  /\ connected => closing = "no" /\ call \notin {"none", "over"}
  /\ call \notin {"none", "over"} /\ ~connected => closing # "no"
  /\ call = "none" => ~connected /\ ~authenticated /\ closing = "no" /\ result = "none"
  /\ authenticated /\ connected => call \in Inside
  /\ call \in Inside /\ closing = "no" => clientId >= 1
  /\ call \in Inside \ {"settling"} /\ connected => authenticated
  /\ call = "sending" =>
       /\ outgoing.good = TRUE /\ outgoing.op \in {"FILE_LIST", "DISCONNECT"}
       /\ closing = "no" => outgoing.user = clientId

Alone(q) == q # <<>> /\ Tail(q) = <<>> /\ Len(q) = 1

\* At most one frame of the client is under way, one the server's state allows.
AskedInTurn == peer = "own" =>
  /\ state \notin Transferring
  /\ up # <<>> =>
       /\ Alone(up) /\ Incoming.good = TRUE
       /\ Incoming.op \in {"PREFACE", "LOGIN", "FILE_LIST", "DISCONNECT"}
       /\ Incoming.op = "PREFACE" =>
            /\ call \in {"preface", "over"}
            /\ state \in {"CONNECTED", "REJECTING", "CLOSING", "CLOSED"}
       /\ Incoming.op = "LOGIN" =>
            /\ Incoming.user = 0 /\ Incoming.name = chosen /\ call \in {"login", "over"}
            /\ state \in {"AUTHENTICATING", "DRAINING", "CLOSING"}
       /\ Incoming.op \in {"FILE_LIST", "DISCONNECT"} =>
            /\ call \in {IF Incoming.op = "FILE_LIST" THEN "listing" ELSE "leaving", "over"}
            /\ state \in {"IDLE", "CLOSING"} /\ (state = "IDLE" => Incoming.user = userId)

\* What can be under way to the client, by what its thread is doing.
PrefaceAnswered ==
  \/ down = <<>>
  \/ down = <<Greeting>> /\ up = <<>> /\ state \in {"AUTHENTICATING", "CLOSING", "CLOSED"}
  \/ down = <<Greeting, Busy>> /\ up = <<>> /\ state \in {"DRAINING", "CLOSING", "CLOSED"}
LoginAnswered == down # <<>> =>
  /\ Alone(down)
  /\ \/ Heard = Busy /\ state \in {"DRAINING", "CLOSING", "CLOSED"}
     \/ /\ up = <<>> /\ Heard.of = "LOGIN"
        /\ \/ /\ Heard.op = "ERROR" /\ Heard.user = 0
              /\ state \in {"AUTHENTICATING", "CLOSING", "CLOSED"}
           \/ /\ Heard.op = "ACK" /\ Heard.user \in Nat /\ Heard.user >= 1
              /\ state \in {"IDLE", "CLOSING", "CLOSED"}
              /\ state = "IDLE" => Heard.user = userId
RequestAnswered(of) == down # <<>> =>
  /\ Alone(down) /\ up = <<>> /\ Heard.of = of
  /\ of = "DISCONNECT" => Heard.op = "ACK" /\ clean = TRUE
  /\ closing = "no" => Heard.user = clientId

AnsweredInTurn == peer = "own" =>
  /\ call \in {"none"} \cup Settled => down = <<>> /\ up = <<>>
  /\ call = "preface" => PrefaceAnswered
  /\ call = "login" => LoginAnswered
  /\ call = "listing" => RequestAnswered("FILE_LIST")
  /\ call = "leaving" => RequestAnswered("DISCONNECT")
  /\ call = "none" => state \in {"CONNECTED", "REJECTING", "CLOSING", "CLOSED"}
  /\ call = "preface" => state # "IDLE"
  /\ call = "login" /\ state = "IDLE" => username = chosen
  /\ call \in Inside => state \in {"IDLE", "CLOSING", "CLOSED"}
  /\ call \in Inside /\ state = "IDLE" =>
       chosen = username /\ (closing = "no" => clientId = userId)
  /\ result = "left" => clean = TRUE

\* As long as nothing has gone wrong, somebody has to speak, and can.
Intact == peer = "own" /\ faults = 0 /\ closing = "no" /\ call # "over" =>
  /\ ~broken /\ ends = (IF call = "none" THEN "none" ELSE "open")
  /\ call # "leaving" /\ state # "DRAINING" => ~halfClosed /\ state \notin {"CLOSING", "CLOSED"}
  /\ call = "preface" /\ up = <<>> => down # <<>>
  /\ call = "login" => down # <<>> \/ (up # <<>> /\ state = "AUTHENTICATING")
  /\ state = "DRAINING" => down # <<>>
  /\ call = "listing" => up # <<>> \/ down # <<>>
  /\ call = "leaving" => down # <<>> \/ (up # <<>> /\ state = "IDLE" /\ ~halfClosed)

IInv ==
  /\ Identity /\ LogSound /\ LogTimely
  /\ ClientLocal /\ AskedInTurn /\ AnsweredInTurn
  /\ Intact /\ LossNeedsFault /\ faults \in Nat /\ peer \in {"own", "foreign"}

--------------------------------------------------------------------------------
(* The server's end and the registry.                                      *)

LEMMA IdentityInit == Init => Identity
  <1> SUFFICES ASSUME Init PROVE Identity
    OBVIOUS
  <1>1. CASE state = "CONNECTED"
    <2>1. DOMAIN holds = {Rival, Me} /\ holds[Me] = Reg!Anonymous
      <3>1. {Rival} \cup (IF state = "CONNECTED" THEN {Me} ELSE {}) = {Rival, Me}
        BY <1>1
      <3>2. holds = [s \in {Rival, Me} |-> Reg!Anonymous]
        BY <3>1 DEF Init
      <3> QED
        BY <3>2
    <2>2. issued = 2
      <3>1. DOMAIN holds = 1..2
        BY <2>1 DEF Rival, Me
      <3>2. \A n \in Nat : Cardinality(1..n) = n
        BY FS_Interval
      <3> QED
        BY <3>1, <3>2 DEF Init
    <2> QED
      BY <1>1, <2>1, <2>2 DEF Init, Identity, States, Serving, Transferring, Rejecting,
         LoggedIn, Rival, Me, Reg!Anonymous
  <1>2. CASE state = "REJECTING"
    <2>1. DOMAIN holds = {Rival}
      BY <1>2 DEF Init, Rival, Me
    <2>2. issued = 1
      BY <2>1, FS_Singleton DEF Init, Rival
    <2> QED
      BY <1>2, <2>1, <2>2 DEF Init, Identity, States, Serving, Transferring, Rejecting,
         LoggedIn, Rival, Me
  <1> QED
    BY <1>1, <1>2 DEF Init

\* A step that leaves the identity alone, and the registry.
LEMMA IdentityKept ==
  ASSUME Identity, UNCHANGED <<registry, username, userId>>, state' \in States,
         state' # state =>
           /\ state \notin {"CLOSED"} /\ (state' = "CLOSED" => state = "CLOSING")
           /\ state' \in {"CONNECTED"} \cup Serving \cup Transferring => issued = Me
           /\ state' \in Rejecting => issued = Rival
           /\ state' = "CONNECTED" => FALSE
           /\ state' = "AUTHENTICATING" => state = "CONNECTED"
           /\ state' \in LoggedIn => state \in LoggedIn,
         halfClosed' = halfClosed \/ issued = Rival \/ state' = "CLOSED"
  PROVE  Identity'
  BY DEF Identity, registry, States, Serving, Transferring, Rejecting, LoggedIn, Rival, Me

\* _authenticate either answers that the name is refused, or takes what the registry gave.
Refused ==
  /\ UNCHANGED <<issued, holds, username, userId>>
  /\ Answer(<<Reply("ERROR", "LOGIN", 0)>>, state, <<>>, <<>>)
Granted ==
  /\ Me \in DOMAIN holds /\ DOMAIN holds' = DOMAIN holds /\ issued' = issued
  /\ \E i \in 1..MaxUserId : /\ holds'[Me] = [username |-> Incoming.name, userId |-> i]
                             /\ username' = Incoming.name /\ userId' = i
  /\ Answer(<<Reply("ACK", "LOGIN", userId')>>, "IDLE", <<>>, <<>>)

LEMMA AuthenticateFacts ==
  ASSUME Authenticate
  PROVE  /\ state = "AUTHENTICATING" /\ Read({"LOGIN"}) /\ Incoming.user = 0
         /\ Incoming.name \in Usernames
         /\ UNCHANGED <<clean, sentFile, peer, client, frames, faults, ends, halfClosed>>
         /\ Refused \/ Granted
  <1>1. /\ state = "AUTHENTICATING" /\ Read({"LOGIN"}) /\ Incoming.user = 0
        /\ Incoming.name \in Usernames
        /\ UNCHANGED <<clean, sentFile, peer, client, frames, faults, ends, halfClosed>>
    BY SessionAssumption DEF Authenticate, Accepts, Expected, SessionAssumption
  <1>2. CASE /\ \/ UNCHANGED registry
                \/ \E why \in {"in_use", "capacity"} : Reg!Refuse(Me, Incoming.name, why)
             /\ Answer(<<Reply("ERROR", "LOGIN", 0)>>, state, <<>>, <<>>)
             /\ UNCHANGED <<username, userId>>
    <2>1. UNCHANGED <<issued, holds>>
      BY <1>2 DEF Reg!Refuse, registry
    <2> QED
      BY <1>1, <1>2, <2>1 DEF Refused
  <1>3. CASE /\ Reg!Grant(Me, Incoming.name)
             /\ username' = Incoming.name /\ userId' = holds'[Me].userId
             /\ Answer(<<Reply("ACK", "LOGIN", userId')>>, "IDLE", <<>>, <<>>)
    <2>1. PICK i \in 1..MaxUserId :
            holds' = [holds EXCEPT ![Me] = [username |-> Incoming.name, userId |-> i]]
      BY <1>3 DEF Reg!Grant, Reg!Unused
    <2>2. /\ Me \in DOMAIN holds /\ DOMAIN holds' = DOMAIN holds /\ issued' = issued
          /\ holds'[Me] = [username |-> Incoming.name, userId |-> i]
      BY <1>3, <2>1 DEF Reg!Grant
    <2>3. Granted
      BY <1>3, <2>2 DEF Granted
    <2> QED
      BY <1>1, <2>3
  <1> QED
    BY <1>2, <1>3 DEF Authenticate

LEMMA IdentityNext ==
  ASSUME Identity, LogTimely, [Next]_vars
  PROVE  Identity'
  <1>1. CASE PerformHandshake
    BY <1>1, IdentityKept DEF PerformHandshake, Answer, serverIdentity, serverRest, registry,
       Identity, States, Serving, Transferring, Rejecting, LoggedIn, Rival, Me
  <1>2. CASE ServeEnds \/ RefuseFrame \/ RefuseLogin
    BY <1>2, IdentityKept DEF ServeEnds, RefuseFrame, RefuseLogin, Answer, serverIdentity,
       serverRest, registry, Identity, States, Serving, Transferring, Rejecting, LoggedIn,
       Rival, Me
  <1>3. CASE Authenticate
    <2>1. CASE Refused
      BY <1>3, <2>1, AuthenticateFacts DEF Refused, Answer, Identity, States, Serving,
         Transferring, Rejecting, LoggedIn, Rival, Me
    <2>2. CASE Granted
      <3>1. PICK i \in 1..MaxUserId :
              /\ holds'[Me] = [username |-> Incoming.name, userId |-> i]
              /\ username' = Incoming.name /\ userId' = i
        BY <2>2 DEF Granted
      <3>2. i \in Nat /\ i >= 1
        BY SessionAssumption DEF SessionAssumption
      <3>3. state' \in {"IDLE", "CLOSING"}
        BY <2>2 DEF Granted, Answer
      <3> QED
        BY <1>3, <2>2, <3>1, <3>2, <3>3, AuthenticateFacts DEF Granted, Identity, States,
           Serving, Transferring, Rejecting, LoggedIn, Rival, Me
    <2> QED
      BY <1>3, <2>1, <2>2, AuthenticateFacts
  <1>4. CASE RefuseRequest \/ HandleFileList \/ HandleDisconnect \/ BeginTransfer
    BY <1>4, IdentityKept DEF RefuseRequest, HandleFileList, HandleDisconnect, BeginTransfer,
       Answer, serverIdentity, serverRest, registry, Identity, States, Serving, Transferring,
       Rejecting, LoggedIn, Rival, Me
  <1>5. CASE ReceiveChunk \/ FinishUpload \/ SendFile \/ FinishDownload \/ RefuseInTransfer
    BY <1>5, IdentityKept DEF ReceiveChunk, FinishUpload, SendFile, FinishDownload,
       RefuseInTransfer, Answer, serverIdentity, serverRest, registry, Identity, States,
       Serving, Transferring, Rejecting, LoggedIn, Rival, Me
  <1>6. CASE Close
    BY <1>6 DEF Close, CloseSocket, registry, Identity, States, Serving, Transferring,
       Rejecting, LoggedIn, Rival, Me
  <1>7. CASE LogDisconnection \/ RejectBusy \/ Drain \/ RejectTimesOut
    BY <1>7, IdentityKept DEF LogDisconnection, RejectBusy, Drain, RejectTimesOut, Answer,
       serverIdentity, serverRest, registry, link, Identity, States, Serving, Transferring,
       Rejecting, LoggedIn, Rival, Me
  <1>8. CASE ReleaseIdentity
    <2>1. /\ DOMAIN holds' = DOMAIN holds \ {Me} /\ issued' = issued
          /\ UNCHANGED <<state, username, userId, halfClosed>>
      BY <1>8 DEF ReleaseIdentity, Reg!Leave, server, link
    <2>2. state = "CLOSED"
      BY <1>8 DEF ReleaseIdentity, LogTimely
    <2> QED
      BY <2>1, <2>2 DEF Identity
  <1>9. CASE RivalMoves
    <2>1. UNCHANGED <<state, username, userId, halfClosed>>
      BY <1>9 DEF RivalMoves, server, link
    <2>2. /\ issued' = issued /\ (Me \in DOMAIN holds' <=> Me \in DOMAIN holds)
          /\ Me \in DOMAIN holds => holds'[Me] = holds[Me]
      BY <1>9 DEF RivalMoves, Reg!Grant, Reg!Leave, Rival, Me
    <2> QED
      BY <2>1, <2>2 DEF Identity
  <1>10. CASE ClientStep \/ Connect \/ MakeRequest \/ CallTimesOut
    BY <1>10, IdentityKept DEF ClientStep, ReadPreface, ReadLoginReply, CompleteLogin,
       SendRequest, ReadListReply, ReadDisconnectReply, ReadForeignReply, CallFails, Connect,
       MakeRequest, CallTimesOut, clientRest, server, registry, Identity
  <1>11. CASE WindowStep \/ WindowTakesSocket \/ PeerConnects \/ PeerSends \/ PeerLeaves
              \/ ConnectionBreaks
    BY <1>11, IdentityKept DEF WindowStep, WindowForgets, WindowClosesSocket,
       WindowTakesSocket, PeerConnects, PeerSends, PeerLeaves, ConnectionBreaks, clientRest,
       server, link, registry, Identity
  <1>12. CASE UNCHANGED vars
    BY <1>12, IdentityKept DEF vars, server, link, Identity
  <1> QED
    BY <1>1, <1>2, <1>3, <1>4, <1>5, <1>6, <1>7, <1>8, <1>9, <1>10, <1>11, <1>12
    DEF Next, ServerStep

--------------------------------------------------------------------------------
(* Frames under way.                                                       *)

LEMMA Tuples ==
  /\ \A a : <<a>> # <<>> /\ Head(<<a>>) = a /\ Tail(<<a>>) = <<>> /\ <<a>>[1] = a
  /\ \A a : Append(<<>>, a) = <<a>> /\ <<>> \o <<a>> = <<a>>
  /\ \A a, b : <<a, b>> # <<>> /\ Head(<<a, b>>) = a /\ Tail(<<a, b>>) = <<b>>
  /\ \A a, b : <<>> \o <<a, b>> = <<a, b>>
  /\ \A a, b : <<a>> = <<b>> <=> a = b
  /\ \A a, b, c : <<a>> # <<b, c>>
  /\ \A a : Alone(<<a>>)
  BY DEF Alone

LEMMA NoReplies == \A a, b : <<>> \o <<>> = <<>> /\ <<a>> \o <<>> = <<a>> /\ <<a, b>> \o <<>> = <<a, b>>
  OBVIOUS

\* Nothing happens to the client's side of a connection that is not the client's.
LEMMA ForeignNext ==
  ASSUME ClientLocal, peer = "foreign", [Next]_vars
  PROVE  peer' = "foreign" /\ UNCHANGED client /\ down' = <<>> /\ call = "none"
  <1>1. call = "none" /\ down = <<>> /\ connected = FALSE
    BY DEF ClientLocal
  <1>2. CASE PerformHandshake \/ ServeEnds \/ RefuseFrame \/ RefuseLogin \/ Authenticate
    BY <1>1, <1>2 DEF PerformHandshake, ServeEnds, RefuseFrame, RefuseLogin, Authenticate,
       Answer, serverRest
  <1>3. CASE RefuseRequest \/ HandleFileList \/ HandleDisconnect \/ BeginTransfer
    BY <1>1, <1>3 DEF RefuseRequest, HandleFileList, HandleDisconnect, BeginTransfer, Answer,
       serverRest
  <1>4. CASE ReceiveChunk \/ FinishUpload \/ SendFile \/ FinishDownload \/ RefuseInTransfer
    BY <1>1, <1>4 DEF ReceiveChunk, FinishUpload, SendFile, FinishDownload,
       RefuseInTransfer, Answer, serverRest
  <1>5. CASE Close \/ LogDisconnection \/ RejectBusy \/ Drain \/ RejectTimesOut
              \/ ReleaseIdentity \/ RivalMoves
    BY <1>1, <1>5 DEF Close, CloseSocket, LogDisconnection, RejectBusy, Drain,
       RejectTimesOut, ReleaseIdentity, RivalMoves, Answer, serverRest, link
  <1>6. CASE ClientStep \/ Connect \/ MakeRequest \/ CallTimesOut \/ ConnectionBreaks
    BY <1>1, <1>6 DEF ClientStep, ReadPreface, ReadLoginReply, CompleteLogin,
       SendRequest, ReadListReply, ReadDisconnectReply, ReadForeignReply, CallFails, Connect,
       MakeRequest, CallTimesOut, ConnectionBreaks, Hear, Waiting
  <1>7. CASE WindowStep \/ WindowTakesSocket
    BY <1>1, <1>7 DEF WindowStep, WindowForgets, WindowClosesSocket, WindowTakesSocket,
       ClientLocal
  <1>8. CASE PeerConnects \/ PeerSends \/ PeerLeaves \/ UNCHANGED vars
    BY <1>1, <1>8 DEF PeerConnects, PeerSends, PeerLeaves, vars, link
  <1> QED
    BY <1>2, <1>3, <1>4, <1>5, <1>6, <1>7, <1>8 DEF Next, ServerStep

--------------------------------------------------------------------------------
(* The server's steps, with the client of this repository.                 *)

Dialogue == ClientLocal /\ AskedInTurn /\ AnsweredInTurn /\ Intact

\* A step of the server that reads no frame, or throws away the LOGIN of a rejected
\* client, and answers nothing.
LEMMA ServerSilent ==
  ASSUME Dialogue, peer = "own", UNCHANGED <<peer, client, faults, down, broken, ends>>,
         up' = up \/ up' = <<>>,
         UNCHANGED <<username, userId, state, halfClosed, clean>>,
         up' = <<>> /\ up # <<>> => state = "DRAINING"
  PROVE  Dialogue'
  <1>1. ClientLocal'
    BY DEF Dialogue, ClientLocal, client, Settled, Inside, Asking
  <1>2. AskedInTurn'
    BY DEF Dialogue, AskedInTurn, client, Transferring, Incoming, Alone
  <1>3. AnsweredInTurn'
    BY DEF Dialogue, AnsweredInTurn, client, Settled, Inside, PrefaceAnswered, LoginAnswered,
       RequestAnswered, Alone, Heard
  <1>4. Intact'
    BY DEF Dialogue, Intact, AskedInTurn, AnsweredInTurn, PrefaceAnswered, client, Settled,
       Inside, Incoming
  <1> QED
    BY <1>1, <1>2, <1>3, <1>4 DEF Dialogue

\* The server gives the connection up, because the peer has gone or a deadline has
\* passed, or goes on although its reply is lost.
LEMMA ServerGivesUp ==
  ASSUME Dialogue, peer = "own", UNCHANGED <<peer, client, down, ends>>,
         up' = up \/ up' = <<>>, state' = state \/ state' = "CLOSING",
         UNCHANGED <<username, userId>>, clean' = clean \/ clean' = TRUE,
         (faults' = faults /\ (broken \/ ends = "closed")) \/ faults' # 0
  PROVE  Dialogue'
  <1>1. ClientLocal'
    BY DEF Dialogue, ClientLocal, client, Settled, Inside, Asking
  <1>2. AskedInTurn'
    BY DEF Dialogue, AskedInTurn, client, Transferring, Incoming, Alone
  <1>3. AnsweredInTurn'
    BY DEF Dialogue, AnsweredInTurn, client, Settled, Inside, PrefaceAnswered, LoginAnswered,
       RequestAnswered, Alone, Heard
  <1>4. Intact'
    BY DEF Dialogue, Intact, ClientLocal, client
  <1> QED
    BY <1>1, <1>2, <1>3, <1>4 DEF Dialogue

LEMMA HandshakeInTurn ==
  ASSUME Dialogue, peer = "own", PerformHandshake
  PROVE  Dialogue'
  <1>1. /\ state = "CONNECTED" /\ UNCHANGED <<username, userId, clean, peer, client, faults>>
        /\ UNCHANGED <<ends, halfClosed>>
    BY DEF PerformHandshake, serverIdentity, serverRest
  <1>2. CASE up' = up
    <2>1. /\ state' = "CLOSING" /\ UNCHANGED <<down, broken>> /\ (broken \/ ends = "closed")
      BY <1>1, <1>2 DEF PerformHandshake, Read, Garbage, NothingMore, Incoming, Dialogue,
         AskedInTurn, Alone
    <2> QED
      BY <1>1, <1>2, <2>1, ServerGivesUp
  <1>3. CASE up # <<>> /\ Incoming.op = "PREFACE" /\ up' = <<>>
             /\ Answer(<<Greeting>>, "AUTHENTICATING", <<Record("connection", "none", TRUE)>>,
                       <<Record("connection", "none", FALSE)>>)
    <2>1. call \in {"preface", "over"} /\ (call = "preface" => down = <<>>)
      BY <1>3, Tuples DEF Dialogue, AskedInTurn, AnsweredInTurn, PrefaceAnswered
    <2>2. CASE /\ state' = "AUTHENTICATING" /\ UNCHANGED broken
               /\ down' = down \o <<Greeting>>
      <3>1. call = "preface" => down' = <<Greeting>>
        BY <2>1, <2>2, Tuples
      <3>2. ClientLocal'
        BY <1>1 DEF Dialogue, ClientLocal, client, Settled, Inside, Asking
      <3>3. AskedInTurn'
        BY <1>1, <1>3, <2>2 DEF AskedInTurn, Transferring
      <3>4. AnsweredInTurn'
        BY <1>1, <1>3, <2>1, <2>2, <3>1 DEF Dialogue, AnsweredInTurn, client, Settled, Inside,
           PrefaceAnswered
      <3>5. Intact'
        BY <1>1, <1>3, <2>1, <2>2, <3>1, Tuples DEF Dialogue, Intact, client
      <3> QED
        BY <3>2, <3>3, <3>4, <3>5 DEF Dialogue
    <2>3. CASE broken' = TRUE /\ down' = down /\ state' = "AUTHENTICATING"
      <3>1. ClientLocal'
        BY <1>1, <2>3 DEF Dialogue, ClientLocal, client, Settled, Inside, Asking
      <3>2. AskedInTurn'
        BY <1>1, <1>3, <2>3 DEF AskedInTurn, Transferring
      <3>3. AnsweredInTurn'
        BY <1>1, <1>3, <2>1, <2>3 DEF Dialogue, AnsweredInTurn, client, Settled, Inside,
           PrefaceAnswered
      <3>4. Intact'
        BY <1>1, <1>3, <2>1, <2>3 DEF Dialogue, Intact, client, Answer
      <3> QED
        BY <3>1, <3>2, <3>3, <3>4 DEF Dialogue
    <2>4. CASE broken' = TRUE /\ down' = down /\ state' = "CLOSING"
      BY <1>1, <1>3, <2>4, ServerGivesUp DEF Answer
    <2> QED
      BY <1>1, <1>3, <2>2, <2>3, <2>4 DEF Answer
  <1> QED
    <2>1. up # <<>> => Tail(up) = <<>> /\ Incoming.op # "GARBAGE"
      BY DEF Dialogue, AskedInTurn, Alone
    <2>2. CASE Read({"PREFACE"}) /\ Answer(<<Greeting>>, "AUTHENTICATING",
                 <<Record("connection", "none", TRUE)>>, <<Record("connection", "none", FALSE)>>)
      BY <1>3, <2>1, <2>2 DEF Read, Incoming
    <2>3. CASE Read(Garbage) \/ UNCHANGED up
      BY <1>2, <2>1, <2>3 DEF Read, Garbage, Incoming
    <2> QED
      BY <2>2, <2>3 DEF PerformHandshake

LEMMA RecordTyped ==
  ASSUME Identity, NEW event \in {"connection", "command", "disconnection"},
         NEW op \in Opcodes \cup {"none"}, NEW success \in BOOLEAN
  PROVE  /\ Record(event, op, success) \in LogRecords
         /\ Record(event, op, success).event = event /\ Record(event, op, success).op = op
         /\ Record(event, op, success).success = success
         /\ Record(event, op, success).user =
              IF Me \in DOMAIN holds THEN holds[Me].username ELSE None
  BY DEF Record, LogRecords, Identity

LEMMA LogGrows ==
  ASSUME log \in Seq(LogRecords), NEW r \in LogRecords
  PROVE  /\ log \o <<r>> \in Seq(LogRecords) /\ Len(log) \in Nat
         /\ Len(log \o <<r>>) = Len(log) + 1 /\ Last(log \o <<r>>) = r
         /\ (log \o <<r>>)[Len(log) + 1] = r
         /\ \A i \in 1..Len(log) : (log \o <<r>>)[i] = log[i]
  BY DEF Last

\* The first reply to a client that has read all replies before.
LEMMA FirstReply ==
  ASSUME down = <<>>, NEW r, down' = down \o <<r>>
  PROVE  down' # <<>> /\ Alone(down') /\ Head(down') = r
  <1>1. down' = <<r>>
    BY Tuples
  <1> QED
    BY <1>1, Tuples

\* A request that is refused, or answered and logged.
LEMMA ReplyInTurn ==
  ASSUME Dialogue, peer = "own", up # <<>>, up' = <<>>,
         UNCHANGED <<peer, client, faults, ends, halfClosed, broken, username, userId>>,
         NEW r, down' = down \o <<r>>, clean' = clean \/ clean' = TRUE,
         \/ /\ state = "AUTHENTICATING" /\ state' = state
            /\ r.op = "ERROR" /\ r.of = "LOGIN" /\ r.user = 0
         \/ /\ state = "IDLE" /\ state' = state /\ Incoming.op = "FILE_LIST"
            /\ r.of = "FILE_LIST" /\ r.user = userId
         \/ /\ state = "IDLE" /\ state' = "CLOSING" /\ Incoming.op = "DISCONNECT"
            /\ r.op = "ACK" /\ r.of = "DISCONNECT" /\ r.user = userId /\ clean' = TRUE
  PROVE  Dialogue'
  <1>1. /\ state = "AUTHENTICATING" => call \in {"login", "over"}
        /\ Incoming.op = "FILE_LIST" => call \in {"listing", "over"}
        /\ Incoming.op = "DISCONNECT" => call \in {"leaving", "over"}
        /\ call # "over" => down = <<>>
    BY DEF Dialogue, AskedInTurn, AnsweredInTurn, LoginAnswered, RequestAnswered, Settled
  <1>2. call # "over" => down' # <<>> /\ Alone(down') /\ Head(down') = r
    BY <1>1, FirstReply
  <1>3. ClientLocal'
    BY DEF Dialogue, ClientLocal, client, Settled, Inside, Asking
  <1>4. AskedInTurn'
    BY DEF Dialogue, AskedInTurn, client, Transferring
  <1>5. AnsweredInTurn'
    BY <1>1, <1>2 DEF Dialogue, AnsweredInTurn, client, Settled, Inside, LoginAnswered,
       RequestAnswered, Heard
  <1>6. Intact'
    BY <1>1, <1>2 DEF Dialogue, Intact, client
  <1> QED
    BY <1>3, <1>4, <1>5, <1>6 DEF Dialogue

LEMMA RejectionInTurn ==
  ASSUME Dialogue, Identity, peer = "own", RejectBusy
  PROVE  Dialogue'
  <1>1. /\ state = "REJECTING" /\ UNCHANGED <<username, userId, clean, peer, client, faults, ends>>
    BY DEF RejectBusy, serverIdentity
  <1>2. up # <<>> => Tail(up) = <<>> /\ Incoming.op # "GARBAGE"
    BY DEF Dialogue, AskedInTurn, Alone
  <1>3. CASE Read(Garbage) \/ UNCHANGED up
    BY <1>1, <1>2, <1>3, ServerGivesUp DEF RejectBusy, NothingMore, Read, Garbage, Incoming
  <1>4. CASE /\ Read({"PREFACE"})
             /\ Answer(<<Greeting, Busy>>, "DRAINING", <<Record("connection", "none", FALSE)>>,
                       <<>>)
             /\ halfClosed' = (state' = "DRAINING")
    <2>1. /\ up # <<>> /\ up' = <<>> /\ Incoming.op = "PREFACE"
          /\ call \in {"preface", "over"} /\ (call = "preface" => down = <<>>)
      BY <1>2, <1>4, Tuples DEF Read, Incoming, Dialogue, AskedInTurn, AnsweredInTurn,
         PrefaceAnswered
    <2>2. ClientLocal'
      BY <1>1, <1>4 DEF Answer, Dialogue, ClientLocal, client, Settled, Inside, Asking
    <2>3. AskedInTurn'
      BY <1>1, <1>4, <2>1 DEF Answer, AskedInTurn, Transferring
    <2>4. CASE /\ state' = "DRAINING" /\ UNCHANGED broken /\ down' = down \o <<Greeting, Busy>>
      <3>1. call = "preface" => down' = <<Greeting, Busy>> /\ down' # <<>>
        BY <2>1, <2>4, Tuples
      <3>2. AnsweredInTurn'
        BY <1>1, <2>1, <2>4, <3>1 DEF Dialogue, AnsweredInTurn, client, Settled, Inside,
           PrefaceAnswered
      <3>3. Intact'
        BY <1>1, <1>4, <2>1, <2>4, <3>1 DEF Dialogue, Intact, client
      <3> QED
        BY <2>2, <2>3, <3>2, <3>3 DEF Dialogue
    <2>5. CASE broken' = TRUE /\ down' = down /\ state' \in {"DRAINING", "CLOSING"}
               /\ (broken \/ ends = "closed")
      <3>1. AnsweredInTurn'
        BY <1>1, <2>1, <2>5 DEF Dialogue, AnsweredInTurn, client, Settled, Inside,
           PrefaceAnswered
      <3>2. Intact'
        BY <1>1, <2>5 DEF Dialogue, Intact, client
      <3> QED
        BY <2>2, <2>3, <3>1, <3>2 DEF Dialogue
    <2> QED
      BY <1>1, <1>4, <2>4, <2>5 DEF Answer
  <1> QED
    BY <1>3, <1>4 DEF RejectBusy, Busy

LEMMA LoginInTurn ==
  ASSUME Dialogue, peer = "own", Authenticate
  PROVE  Dialogue'
  <1>1. /\ state = "AUTHENTICATING" /\ Incoming.name = chosen /\ up # <<>> /\ up' = <<>>
        /\ UNCHANGED <<clean, peer, client, faults, ends, halfClosed>>
        /\ call \in {"login", "over"} /\ (call = "login" => down = <<>>)
    BY AuthenticateFacts, Tuples DEF Read, Incoming, Dialogue, AskedInTurn, AnsweredInTurn,
       LoginAnswered, Alone, client
  <1>2. CASE Refused
    <2>1. CASE broken' = TRUE
      BY <1>1, <1>2, <2>1, ServerGivesUp DEF Refused, Answer
    <2>2. CASE down' = down \o <<Reply("ERROR", "LOGIN", 0)>> /\ state' = state /\ UNCHANGED broken
      <3> DEFINE r == Reply("ERROR", "LOGIN", 0)
      <3>1. r.op = "ERROR" /\ r.of = "LOGIN" /\ r.user = 0
        BY DEF Reply
      <3>2. down' = down \o <<r>>
        BY <2>2
      <3> HIDE DEF r
      <3> QED
        BY <1>1, <1>2, <2>2, <3>1, <3>2, ReplyInTurn DEF Refused
    <2> QED
      BY <1>1, <1>2, <2>1, <2>2 DEF Refused, Answer
  <1>3. CASE Granted
    <2>1. PICK i \in 1..MaxUserId : username' = chosen /\ userId' = i
      BY <1>1, <1>3 DEF Granted
    <2>2. i \in Nat /\ i >= 1
      BY SessionAssumption DEF SessionAssumption
    <2>3. ClientLocal'
      BY <1>1, <1>3 DEF Granted, Answer, Dialogue, ClientLocal, client, Settled, Inside, Asking
    <2>4. AskedInTurn'
      BY <1>1, <1>3 DEF Granted, Answer, AskedInTurn, Transferring
    <2>5. CASE state' = "IDLE" /\ UNCHANGED broken /\ down' = down \o <<Reply("ACK", "LOGIN", i)>>
      <3> DEFINE r == Reply("ACK", "LOGIN", i)
      <3>1. r.op = "ACK" /\ r.of = "LOGIN" /\ r.user = i
        BY DEF Reply
      <3>2. down' = down \o <<r>>
        BY <2>5
      <3> HIDE DEF r
      <3>3. call = "login" => down' # <<>> /\ Alone(down') /\ Head(down') = r
        BY <1>1, <3>2, FirstReply
      <3>4. AnsweredInTurn'
        BY <1>1, <2>1, <2>2, <2>5, <3>1, <3>3 DEF Dialogue, AnsweredInTurn, client, Settled,
           Inside, LoginAnswered, Heard
      <3>5. Intact'
        BY <1>1, <2>5, <3>3 DEF Dialogue, Intact, client
      <3> QED
        BY <2>3, <2>4, <3>4, <3>5 DEF Dialogue
    <2>6. CASE state' \in {"IDLE", "CLOSING"} /\ down' = down /\ (broken \/ ends = "closed")
      <3>1. AnsweredInTurn'
        BY <1>1, <2>1, <2>6 DEF Dialogue, AnsweredInTurn, client, Settled, Inside,
           LoginAnswered
      <3>2. Intact'
        BY <1>1, <2>6 DEF Dialogue, Intact, client
      <3> QED
        BY <2>3, <2>4, <3>1, <3>2 DEF Dialogue
    <2> QED
      BY <1>1, <1>3, <2>1, <2>5, <2>6 DEF Granted, Answer
  <1> QED
    BY <1>2, <1>3, AuthenticateFacts

LEMMA CloseInTurn ==
  ASSUME Dialogue, peer = "own", Close
  PROVE  Dialogue'
  <1>1. /\ state = "CLOSING" /\ state' = "CLOSED" /\ up' = <<>> /\ broken' = (broken \/ up # <<>>)
        /\ UNCHANGED <<peer, client, faults, ends, down, clean>>
    BY DEF Close, CloseSocket
  <1>2. ClientLocal'
    BY <1>1 DEF Dialogue, ClientLocal, client, Settled, Inside, Asking
  <1>3. AskedInTurn'
    BY <1>1 DEF AskedInTurn, Transferring
  <1>4. AnsweredInTurn'
    BY <1>1 DEF Dialogue, AnsweredInTurn, client, Settled, Inside, PrefaceAnswered,
       LoginAnswered, RequestAnswered, Heard
  <1>5. Intact'
    <2>1. ASSUME faults = 0, closing = "no", call # "over"
          PROVE  call = "leaving" /\ down # <<>> /\ up = <<>>
      BY <1>1, <2>1 DEF Dialogue, Intact, AnsweredInTurn, RequestAnswered
    <2> QED
      BY <1>1, <2>1 DEF Dialogue, Intact, client
  <1> QED
    BY <1>2, <1>3, <1>4, <1>5 DEF Dialogue

LEMMA ServerInTurn ==
  ASSUME Identity, LogSound, LogTimely, Dialogue, peer = "own", faults \in Nat,
         ServerStep \/ RejectTimesOut \/ RivalMoves
  PROVE  Dialogue'
  <1>1. CASE PerformHandshake
    BY <1>1, HandshakeInTurn
  <1>2. CASE Authenticate
    BY <1>2, LoginInTurn
  <1>3. CASE RejectBusy
    BY <1>3, RejectionInTurn
  <1>4. CASE Close
    BY <1>4, CloseInTurn
  <1>5. up # <<>> => /\ Tail(up) = <<>> /\ Incoming.op \in Opcodes \cup {"PREFACE"}
                     /\ Incoming.op \notin Garbage \cup Unknown
    BY DEF Dialogue, AskedInTurn, Alone, Opcodes, Requests, Garbage, Unknown
  <1>6. CASE ServeEnds
    <2>1. ~Read(Garbage)
      BY <1>5 DEF Read, Incoming
    <2> QED
      BY <1>6, <2>1, ServerGivesUp DEF ServeEnds, NothingMore, serverIdentity, serverRest
  <1>7. ~RefuseFrame
    <2>1. ASSUME state \in Serving, up # <<>>
          PROVE  Incoming.user = Expected \/ Incoming.op = "PREFACE"
      BY <2>1 DEF Dialogue, AskedInTurn, Serving, Expected
    <2> QED
      BY <1>5, <2>1 DEF RefuseFrame, Read, Incoming, Opcodes, Requests
  <1>8. CASE RefuseLogin
    <2> DEFINE r == Reply("ERROR", Incoming.op, 0)
    <2>1. /\ state = "AUTHENTICATING" /\ up # <<>> /\ up' = <<>> /\ Incoming.op = "LOGIN"
          /\ UNCHANGED <<peer, client, faults, ends, halfClosed, username, userId, clean>>
          /\ Answer(<<r>>, state, <<>>, <<>>)
      BY <1>5, <1>8 DEF RefuseLogin, Read, Incoming, Dialogue, AskedInTurn, serverIdentity,
         serverRest
    <2>2. r.op = "ERROR" /\ r.of = "LOGIN" /\ r.user = 0
      BY <2>1 DEF Reply
    <2> HIDE DEF r
    <2> QED
      BY <2>1, <2>2, ServerGivesUp, ReplyInTurn DEF Answer
  <1>9. ~RefuseRequest
    BY <1>5 DEF RefuseRequest, Read, Incoming, Dialogue, AskedInTurn, Requests, Opcodes
  <1>10. CASE HandleFileList
    <2>1. PICK op \in {"FILE_LIST_RESP", "ERROR"} :
            \E records : Answer(<<Reply(op, "FILE_LIST", userId)>>, "IDLE",
                                Done("FILE_LIST", op # "ERROR"), records)
      BY <1>10 DEF HandleFileList, Done
    <2> DEFINE r == Reply(op, "FILE_LIST", userId)
    <2>2. /\ state = "IDLE" /\ up # <<>> /\ up' = <<>> /\ Incoming.op = "FILE_LIST"
          /\ UNCHANGED <<peer, client, faults, ends, halfClosed, username, userId, clean>>
      BY <1>5, <1>10 DEF HandleFileList, Accepts, Read, Incoming, serverIdentity, serverRest
    <2>3. r.op \in {"FILE_LIST_RESP", "ERROR"} /\ r.of = "FILE_LIST" /\ r.user = userId
      BY DEF Reply
    <2>4. \/ state' = "IDLE" /\ down' = down \o <<r>> /\ UNCHANGED broken
          \/ down' = down /\ state' \in {"IDLE", "CLOSING"} /\ (broken \/ ends = "closed")
      BY <2>1, <2>2 DEF Answer
    <2> HIDE DEF r
    <2> QED
      BY <2>2, <2>3, <2>4, ServerGivesUp, ReplyInTurn
  <1>11. CASE HandleDisconnect
    <2> DEFINE r == Reply("ACK", "DISCONNECT", userId)
    <2>1. /\ state = "IDLE" /\ up # <<>> /\ up' = <<>> /\ Incoming.op = "DISCONNECT"
          /\ UNCHANGED <<peer, client, faults, ends, halfClosed, username, userId>>
          /\ Answer(<<r>>, "CLOSING", Done("DISCONNECT", TRUE), Done("DISCONNECT", FALSE))
          /\ clean' = Last(log').success
      BY <1>5, <1>11 DEF HandleDisconnect, Accepts, Read, Incoming, serverIdentity, serverRest
    <2>2. r.op = "ACK" /\ r.of = "DISCONNECT" /\ r.user = userId
      BY DEF Reply
    <2>3. \/ /\ state' = "CLOSING" /\ down' = down \o <<r>> /\ UNCHANGED broken
             /\ log' = log \o Done("DISCONNECT", TRUE)
          \/ down' = down /\ state' = "CLOSING" /\ (broken \/ ends = "closed")
             /\ \E b \in BOOLEAN : log' = log \o Done("DISCONNECT", b)
      BY <2>1 DEF Answer
    <2>4. \A b \in BOOLEAN : log' = log \o Done("DISCONNECT", b) => Last(log').success = b
      <3>1. \A b \in BOOLEAN : /\ Record("command", "DISCONNECT", b) \in LogRecords
                               /\ Record("command", "DISCONNECT", b).success = b
        BY RecordTyped DEF Opcodes, Requests
      <3> QED
        BY <3>1, LogGrows DEF Done, LogSound
    <2> HIDE DEF r
    <2> QED
      BY <2>1, <2>2, <2>3, <2>4, ServerGivesUp, ReplyInTurn DEF LogTimely
  <1>12. ~(BeginTransfer \/ ReceiveChunk \/ FinishUpload \/ SendFile \/ FinishDownload
            \/ RefuseInTransfer)
    BY <1>5 DEF BeginTransfer, ReceiveChunk, FinishUpload, SendFile, FinishDownload,
       RefuseInTransfer, Accepts, Read, Incoming, Dialogue, AskedInTurn, Transferring
  <1>13. CASE LogDisconnection \/ ReleaseIdentity \/ RivalMoves
    BY <1>13, ServerSilent DEF LogDisconnection, ReleaseIdentity, RivalMoves, link, server,
       serverIdentity, serverRest
  <1>14. CASE Drain
    BY <1>5, <1>14, ServerSilent, ServerGivesUp DEF Drain, NothingMore, serverIdentity,
       serverRest
  <1>15. CASE RejectTimesOut
    <2>1. faults' # 0
      BY <1>15 DEF RejectTimesOut
    <2> QED
      BY <1>15, <2>1, ServerGivesUp DEF RejectTimesOut, link
  <1> QED
    BY <1>1, <1>2, <1>3, <1>4, <1>6, <1>7, <1>8, <1>9, <1>10, <1>11, <1>12, <1>13, <1>14, <1>15
    DEF ServerStep

--------------------------------------------------------------------------------
(* The client's steps.                                                     *)

LEMMA CallEnds ==
  ASSUME Dialogue, peer = "own", UNCHANGED <<peer, server, up, halfClosed>>,
         NEW how, NEW unread, EndCall(how, unread), faults' \in Nat,
         how = "lost" => faults' > 0, how = "left" => clean = TRUE
  PROVE  Dialogue' /\ LossNeedsFault'
  <1>1. /\ call' = "over" /\ result' = how /\ connected' = FALSE /\ authenticated' = FALSE
        /\ clientId' = 0 /\ UNCHANGED <<chosen, closing>>
    BY DEF EndCall
  <1>2. ClientLocal'
    BY <1>1 DEF Dialogue, ClientLocal, Inside, Settled, Asking
  <1>3. AskedInTurn'
    BY <1>1 DEF Dialogue, AskedInTurn, server, Incoming, Transferring, Alone
  <1>4. AnsweredInTurn'
    BY <1>1 DEF Dialogue, AnsweredInTurn, server, Inside, Settled
  <1>5. Intact'
    BY <1>1 DEF Intact
  <1> QED
    BY <1>1, <1>2, <1>3, <1>4, <1>5 DEF Dialogue, LossNeedsFault

\* What a call can count on while no fault has happened and the window leaves it alone.
LEMMA Unharmed ==
  ASSUME Dialogue, peer = "own", faults = 0, call \notin {"none", "over"}, Why = "lost"
  PROVE  /\ connected = TRUE /\ closing = "no" /\ ~broken /\ ends = "open"
         /\ call \in Settled \cup {"listing"} => state = "IDLE" /\ clientId = userId
         /\ call \in {"preface", "login"} => state \notin {"CLOSING", "CLOSED"}
         /\ call \in Asking => ~(down = <<>> /\ halfClosed)
  <1>1. closing = "no" /\ connected = TRUE
    BY DEF Why, Dialogue, ClientLocal
  <1>2. /\ ~broken /\ ends = "open"
        /\ call # "leaving" /\ state # "DRAINING" => ~halfClosed /\ state \notin {"CLOSING", "CLOSED"}
        /\ call = "preface" /\ up = <<>> => down # <<>>
        /\ state = "DRAINING" => down # <<>>
        /\ call = "leaving" => down # <<>> \/ ~halfClosed
    BY <1>1 DEF Dialogue, Intact
  <1>3. call \in Inside => /\ state \in {"IDLE", "CLOSING", "CLOSED"}
                           /\ state = "IDLE" => clientId = userId
    BY <1>1 DEF Dialogue, AnsweredInTurn
  <1> QED
    BY <1>1, <1>2, <1>3 DEF Inside, Settled, Asking

LEMMA NotLost ==
  ASSUME Dialogue, peer = "own", faults \in Nat, call \notin {"none", "over"}, Why = "lost",
         \/ broken \/ ~connected \/ closing # "no"
         \/ call \in Settled \cup {"preface", "login", "listing"} /\ state = "CLOSED"
         \/ call \in Asking /\ down = <<>> /\ halfClosed
  PROVE  faults > 0
  <1> SUFFICES ASSUME faults = 0 PROVE FALSE
    OBVIOUS
  <1> QED
    BY Unharmed DEF Settled

LEMMA FirstRequest ==
  ASSUME up = <<>>, NEW f, up' = Append(up, f)
  PROVE  up' # <<>> /\ Alone(up') /\ Head(up') = f
  <1>1. up' = <<f>>
    BY Tuples
  <1> QED
    BY <1>1, Tuples

\* A frame is sent and a reply to it awaited, or the call ends here.
LEMMA AskInTurn ==
  ASSUME Dialogue, peer = "own", faults \in Nat, UNCHANGED <<peer, server, halfClosed, faults>>,
         NEW f, NEW where, NEW unread, Ask(f, where, unread), f.good = TRUE, up = <<>>,
         \/ /\ call = "preface" /\ where = "login" /\ f.op = "LOGIN" /\ f.user = 0
            /\ f.name = chosen /\ state \in {"AUTHENTICATING", "DRAINING", "CLOSING", "CLOSED"}
            /\ \/ unread = <<>> /\ state # "DRAINING"
               \/ unread = <<Busy>> /\ state \in {"DRAINING", "CLOSING", "CLOSED"}
         \/ /\ call = "sending" /\ where = IF f.op = "FILE_LIST" THEN "listing" ELSE "leaving"
            /\ f.op \in {"FILE_LIST", "DISCONNECT"} /\ f.user = clientId /\ unread = <<>>
  PROVE  Dialogue' /\ (LossNeedsFault => LossNeedsFault')
  <1>1. CASE EndCall(Why, unread) /\ UNCHANGED up /\ (broken \/ state = "CLOSED" \/ ~connected)
    <2>1. Why = "lost" => faults > 0
      BY <1>1, NotLost DEF Settled
    <2>2. Why # "left"
      BY DEF Why
    <2> QED
      BY <1>1, <2>1, <2>2, CallEnds
  <1>2. ASSUME connected, call' = where, down' = unread,
               UNCHANGED <<chosen, connected, authenticated, clientId, closing, result, ends>>,
               \/ ~broken /\ state # "CLOSED" /\ up' = Append(up, f) /\ UNCHANGED broken
               \/ (broken \/ state = "CLOSED") /\ broken' = TRUE /\ UNCHANGED up
        PROVE  Dialogue' /\ (LossNeedsFault => LossNeedsFault')
    <2>1. closing = "no" /\ connected = TRUE
      BY <1>2 DEF Dialogue, ClientLocal
    <2>2. call = "sending" => /\ state \in {"IDLE", "CLOSING", "CLOSED"}
                              /\ state = "IDLE" => chosen = username /\ clientId = userId
                              /\ clientId >= 1
      BY <2>1 DEF Dialogue, AnsweredInTurn, ClientLocal, Inside, Settled
    <2>3. up' # <<>> => Alone(up') /\ Head(up') = f /\ state # "CLOSED"
      BY <1>2, FirstRequest
    <2>4. unread # <<>> => Alone(unread) /\ Head(unread) = Busy
      BY Tuples
    <2>5. ClientLocal'
      BY <1>2, <2>1 DEF Dialogue, ClientLocal, Inside, Settled, Asking
    <2>6. AskedInTurn'
      BY <1>2, <2>2, <2>3 DEF Dialogue, AskedInTurn, server, Incoming, Transferring
    <2>7. AnsweredInTurn'
      BY <1>2, <2>1, <2>2, <2>3, <2>4 DEF Dialogue, AnsweredInTurn, server, Inside, Settled,
         LoginAnswered, RequestAnswered, Heard
    <2>8. Intact'
      <3>1. broken \/ state = "CLOSED" => faults > 0
        BY <2>1, NotLost DEF Settled, Why
      <3>2. faults = 0 => up' # <<>> /\ ~broken'
        BY <1>2, <3>1, FirstRequest
      <3> QED
        BY <1>2, <2>1, <2>2, <3>2 DEF Dialogue, Intact, server
    <2>9. LossNeedsFault => LossNeedsFault'
      BY <1>2 DEF LossNeedsFault
    <2> QED
      BY <2>5, <2>6, <2>7, <2>8, <2>9 DEF Dialogue
  <1> QED
    BY <1>1, <1>2 DEF Ask

LEMMA PrefaceRead ==
  ASSUME Dialogue, peer = "own", faults \in Nat, ReadPreface
  PROVE  Dialogue' /\ (LossNeedsFault => LossNeedsFault')
  <1> DEFINE f == Login(0, TRUE, chosen)
             rest == Tail(down)
  <1>1. /\ call = "preface" /\ down # <<>> /\ Ask(f, "login", rest)
        /\ UNCHANGED <<peer, server, halfClosed, faults>>
    BY DEF ReadPreface, Hear, clientRest
  <1>2. f.good = TRUE /\ f.op = "LOGIN" /\ f.user = 0 /\ f.name = chosen
    BY DEF Login
  <1>3. up = <<>> /\ \/ down = <<Greeting>> /\ state \in {"AUTHENTICATING", "CLOSING", "CLOSED"}
                     \/ down = <<Greeting, Busy>> /\ state \in {"DRAINING", "CLOSING", "CLOSED"}
    BY <1>1 DEF Dialogue, AnsweredInTurn, PrefaceAnswered
  <1>4. \/ rest = <<>> /\ state \in {"AUTHENTICATING", "CLOSING", "CLOSED"}
        \/ rest = <<Busy>> /\ state \in {"DRAINING", "CLOSING", "CLOSED"}
    <2>1. Tail(<<Greeting>>) = <<>> /\ Tail(<<Greeting, Busy>>) = <<Busy>>
      BY DEF Greeting, Busy, Reply
    <2> QED
      BY <1>3, <2>1, Zenon
  <1> HIDE DEF f, rest
  <1> QED
    BY <1>1, <1>2, <1>3, <1>4, AskInTurn

LEMMA LoginReplyRead ==
  ASSUME Dialogue, peer = "own", faults \in Nat, ReadLoginReply
  PROVE  Dialogue' /\ (LossNeedsFault => LossNeedsFault')
  <1>1. /\ call = "login" /\ down # <<>> /\ closing # "closed"
        /\ UNCHANGED <<peer, server, halfClosed, up, faults>>
    BY DEF ReadLoginReply, Hear, clientRest
  <1>2. Tail(down) = <<>> /\ LoginAnswered
    BY <1>1 DEF Dialogue, AnsweredInTurn, LoginAnswered, Alone
  <1>3. CASE Heard.op = "ERROR" /\ EndCall(IF Heard.user = 0 THEN "refused" ELSE "lost", Tail(down))
    <2>1. Heard.user = 0
      BY <1>1, <1>2, <1>3 DEF LoginAnswered, Busy, Reply
    <2>2. EndCall("refused", Tail(down))
      BY <1>3, <2>1
    <2> QED
      BY <1>1, <2>2, CallEnds
  <1>4. CASE /\ Heard.op = "ACK" /\ Heard.of = "LOGIN" /\ Heard.user >= 1
             /\ clientId' = Heard.user /\ call' = "settling" /\ down' = Tail(down)
             /\ UNCHANGED <<outgoing, chosen, connected, authenticated, closing, result, calls,
                            ends, broken>>
    <2>1. /\ up = <<>> /\ Heard.user \in Nat /\ state \in {"IDLE", "CLOSING", "CLOSED"}
          /\ state = "IDLE" => Heard.user = userId /\ username = chosen
      BY <1>1, <1>2, <1>4 DEF LoginAnswered, Busy, Reply, Dialogue, AnsweredInTurn
    <2>2. ClientLocal'
      BY <1>1, <1>4, <2>1 DEF Dialogue, ClientLocal, Inside, Settled, Asking
    <2>3. AskedInTurn'
      BY <1>1, <2>1 DEF Dialogue, AskedInTurn, server, Transferring
    <2>4. AnsweredInTurn'
      BY <1>1, <1>2, <1>4, <2>1 DEF Dialogue, AnsweredInTurn, server, Inside, Settled
    <2>5. Intact'
      BY <1>1, <1>2, <1>4, <2>1 DEF Dialogue, Intact, server
    <2> QED
      BY <1>1, <1>4, <2>2, <2>3, <2>4, <2>5 DEF Dialogue, LossNeedsFault
  <1> QED
    BY <1>3, <1>4 DEF ReadLoginReply

\* A call that ends because its reply cannot come, or is not for it.
LEMMA CallLost ==
  ASSUME Dialogue, peer = "own", faults \in Nat, UNCHANGED <<peer, server, halfClosed, up>>,
         faults' = faults \/ faults' = faults + 1,
         NEW unread, EndCall(Why, unread), Why = "lost" => faults' > 0
  PROVE  Dialogue' /\ LossNeedsFault'
  <1>1. Why # "left"
    BY DEF Why
  <1>2. faults' \in Nat
    OBVIOUS
  <1> QED
    BY <1>1, <1>2, CallEnds

LEMMA LoginCompleted ==
  ASSUME Dialogue, peer = "own", faults \in Nat, CompleteLogin
  PROVE  Dialogue' /\ (LossNeedsFault => LossNeedsFault')
  <1>1. call = "settling" /\ UNCHANGED <<peer, server, halfClosed, up, faults>>
    BY DEF CompleteLogin, clientRest
  <1>2. CASE EndCall(Why, down) /\ (clientId = 0 \/ closing = "closed")
    <2>1. Why = "closed"
      BY <1>1, <1>2 DEF Why, Dialogue, ClientLocal, Inside, Settled
    <2> QED
      BY <1>1, <1>2, <2>1, CallLost
  <1>3. CASE /\ clientId >= 1 /\ closing # "closed"
             /\ authenticated' = TRUE /\ call' = "ready" /\ result' = "connected"
             /\ UNCHANGED <<outgoing, chosen, connected, clientId, closing, calls, ends,
                            broken, down>>
    <2>1. ClientLocal'
      BY <1>1, <1>3 DEF Dialogue, ClientLocal, Inside, Settled, Asking
    <2>2. AskedInTurn'
      BY <1>1 DEF Dialogue, AskedInTurn, AnsweredInTurn, Settled, server, Transferring
    <2>3. AnsweredInTurn'
      BY <1>1, <1>3 DEF Dialogue, AnsweredInTurn, server, Inside, Settled
    <2>4. Intact'
      BY <1>1, <1>3 DEF Dialogue, Intact, server
    <2> QED
      BY <1>1, <1>3, <2>1, <2>2, <2>3, <2>4 DEF Dialogue, LossNeedsFault
  <1> QED
    BY <1>2, <1>3 DEF CompleteLogin

LEMMA RequestMade ==
  ASSUME Dialogue, peer = "own", MakeRequest
  PROVE  Dialogue' /\ (LossNeedsFault => LossNeedsFault')
  <1>1. /\ call = "ready" /\ UNCHANGED <<peer, server, link, faults>> /\ outgoing'.user = clientId
        /\ outgoing'.good = TRUE /\ outgoing'.op \in {"FILE_LIST", "DISCONNECT"}
        /\ UNCHANGED <<chosen, connected, authenticated, clientId, closing>>
        /\ call' = (IF connected /\ authenticated THEN "sending" ELSE "over")
        /\ result' = (IF call' = "over" THEN "closed" ELSE "none")
    BY DEF MakeRequest, clientRest, Frame
  <1>2. ClientLocal'
    BY <1>1 DEF Dialogue, ClientLocal, Inside, Settled, Asking, link
  <1>3. AskedInTurn'
    BY <1>1 DEF Dialogue, AskedInTurn, AnsweredInTurn, Settled, server, link, Transferring
  <1>4. AnsweredInTurn'
    BY <1>1 DEF Dialogue, AnsweredInTurn, server, link, Inside, Settled
  <1>5. Intact'
    BY <1>1 DEF Dialogue, Intact, server, link
  <1> QED
    BY <1>1, <1>2, <1>3, <1>4, <1>5 DEF Dialogue, LossNeedsFault

LEMMA RequestSent ==
  ASSUME Dialogue, peer = "own", faults \in Nat, SendRequest
  PROVE  Dialogue' /\ (LossNeedsFault => LossNeedsFault')
  <1>1. /\ call = "sending" /\ UNCHANGED <<peer, server, halfClosed, faults>>
        /\ up = <<>> /\ down = <<>>
    BY DEF SendRequest, clientRest, Dialogue, AnsweredInTurn, Settled
  <1>2. CASE ~(authenticated /\ outgoing.user = clientId)
    <2>1. EndCall(Why, down) /\ UNCHANGED up
      BY <1>2 DEF SendRequest
    <2>2. Why = "lost" => FALSE
      BY <1>1, <1>2 DEF Why, Dialogue, ClientLocal, Inside, Settled
    <2> QED
      BY <1>1, <2>1, <2>2, CallLost
  <1>3. CASE authenticated /\ outgoing.user = clientId
    <2> DEFINE where == IF outgoing.op = "FILE_LIST" THEN "listing" ELSE "leaving"
    <2>1. Ask(outgoing, where, down)
      BY <1>3 DEF SendRequest
    <2>2. outgoing.good = TRUE /\ outgoing.op \in {"FILE_LIST", "DISCONNECT"}
      BY <1>1 DEF Dialogue, ClientLocal
    <2>3. where = IF outgoing.op = "FILE_LIST" THEN "listing" ELSE "leaving"
      OBVIOUS
    <2> HIDE DEF where
    <2> QED
      BY <1>1, <1>3, <2>1, <2>2, <2>3, AskInTurn
  <1> QED
    BY <1>2, <1>3


LEMMA ListReplyRead ==
  ASSUME Dialogue, peer = "own", ReadListReply
  PROVE  Dialogue' /\ (LossNeedsFault => LossNeedsFault')
  <1>1. /\ call = "listing" /\ call' = "ready" /\ down # <<>> /\ down' = Tail(down)
        /\ result' \in {"listed", "declined"}
        /\ UNCHANGED <<outgoing, chosen, connected, authenticated, clientId, closing, up, ends,
                       broken, faults, peer, server, halfClosed>>
    BY DEF ReadListReply, Hear, clientRest
  <1>2. up = <<>> /\ down' = <<>>
    BY <1>1 DEF Dialogue, AnsweredInTurn, RequestAnswered, Alone
  <1>3. ClientLocal'
    BY <1>1 DEF Dialogue, ClientLocal, Inside, Settled, Asking
  <1>4. AskedInTurn'
    BY <1>1, <1>2 DEF Dialogue, AskedInTurn, server, Transferring
  <1>5. AnsweredInTurn'
    BY <1>1, <1>2 DEF Dialogue, AnsweredInTurn, server, Inside, Settled
  <1>6. Intact'
    <2>1. state # "DRAINING"
      BY <1>1 DEF Dialogue, AnsweredInTurn, Inside
    <2> QED
      BY <1>1, <1>2, <2>1 DEF Dialogue, Intact, server
  <1> QED
    BY <1>1, <1>3, <1>4, <1>5, <1>6 DEF Dialogue, LossNeedsFault

LEMMA DisconnectReplyRead ==
  ASSUME Dialogue, peer = "own", faults \in Nat, ReadDisconnectReply
  PROVE  Dialogue' /\ LossNeedsFault'
  <1>1. /\ call = "leaving" /\ down # <<>>
        /\ UNCHANGED <<up, faults, peer, server, halfClosed>>
        /\ EndCall(IF Heard.op = "ACK" /\ Heard.of = "DISCONNECT" THEN "left" ELSE "lost",
                   Tail(down))
    BY DEF ReadDisconnectReply, Hear, clientRest
  <1>2. Heard.op = "ACK" /\ Heard.of = "DISCONNECT" /\ clean = TRUE
    BY <1>1 DEF Dialogue, AnsweredInTurn, RequestAnswered
  <1>3. EndCall("left", Tail(down))
    BY <1>1, <1>2
  <1> QED
    BY <1>1, <1>2, <1>3, CallEnds

LEMMA ForeignReplyRead ==
  ASSUME Dialogue, peer = "own", faults \in Nat, ReadForeignReply
  PROVE  Dialogue' /\ LossNeedsFault'
  <1>1. /\ call \in {"listing", "leaving"} /\ down # <<>> /\ ~Addressed
        /\ UNCHANGED <<up, faults, peer, server, halfClosed>>
        /\ EndCall(Why, Tail(down))
    BY DEF ReadForeignReply, Hear, clientRest
  <1>2. Why # "lost"
    <2>1. ASSUME closing = "no" PROVE FALSE
      <3>1. connected /\ authenticated
        BY <1>1, <2>1 DEF Dialogue, ClientLocal, Inside, Settled
      <3>2. Heard.user = clientId
        BY <1>1, <2>1 DEF Dialogue, AnsweredInTurn, RequestAnswered
      <3> QED
        BY <1>1, <3>1, <3>2 DEF Addressed
    <2> QED
      BY <2>1 DEF Why
  <1> QED
    BY <1>1, <1>2, CallLost

LEMMA CallFailed ==
  ASSUME Dialogue, peer = "own", faults \in Nat, CallFails \/ CallTimesOut
  PROVE  Dialogue' /\ LossNeedsFault'
  <1>1. /\ call \in Asking /\ EndCall(Why, down)
        /\ UNCHANGED <<up, peer, server, halfClosed>>
    BY DEF CallFails, CallTimesOut, Waiting, Asking, clientRest
  <1>2. CASE CallFails
    <2>1. UNCHANGED faults /\ (broken \/ (down = <<>> /\ halfClosed) \/ closing = "closed")
      BY <1>2 DEF CallFails
    <2>2. Why = "lost" => faults > 0
      BY <1>1, <2>1, NotLost DEF Asking
    <2> QED
      BY <1>1, <2>1, <2>2, CallLost
  <1>3. CASE CallTimesOut
    <2>1. faults' = faults + 1 /\ faults' > 0
      BY <1>3 DEF CallTimesOut
    <2> QED
      BY <1>1, <2>1, CallLost
  <1> QED
    BY <1>2, <1>3

LEMMA Connects ==
  ASSUME Identity, Dialogue, peer = "own", Connect
  PROVE  Dialogue' /\ (LossNeedsFault => LossNeedsFault')
  <1>1. /\ call = "none" /\ ends' = "open" /\ connected' = TRUE /\ call' = "preface"
        /\ up' = <<Preface>>
        /\ UNCHANGED <<outgoing, authenticated, clientId, closing, result, down, broken, faults,
                       peer, server, halfClosed>>
    BY DEF Connect, clientRest
  <1>2. /\ down = <<>> /\ up = <<>> /\ connected = FALSE /\ closing = "no"
        /\ state \in {"CONNECTED", "REJECTING", "CLOSING", "CLOSED"}
    BY <1>1 DEF Dialogue, ClientLocal, AnsweredInTurn
  <1>3. up' # <<>> /\ Alone(up') /\ Head(up') = Preface
    BY <1>1, <1>2, Tuples
  <1>4. Preface.op = "PREFACE" /\ Preface.good = TRUE
    BY DEF Preface, Frame
  <1>5. ClientLocal'
    BY <1>1, <1>2 DEF Dialogue, ClientLocal, Inside, Settled, Asking
  <1>6. AskedInTurn'
    BY <1>1, <1>2, <1>3, <1>4 DEF AskedInTurn, server, Transferring, Incoming
  <1>7. AnsweredInTurn'
    BY <1>1, <1>2 DEF Dialogue, AnsweredInTurn, server, Inside, Settled, PrefaceAnswered
  <1>8. Intact'
    BY <1>1, <1>2, <1>3 DEF Dialogue, Intact, server
  <1> QED
    BY <1>1, <1>5, <1>6, <1>7, <1>8 DEF Dialogue, LossNeedsFault

LEMMA WindowInTurn ==
  ASSUME Dialogue, peer = "own", WindowStep \/ WindowTakesSocket
  PROVE  Dialogue' /\ (LossNeedsFault => LossNeedsFault')
  <1>1. CASE WindowTakesSocket
    <2>1. /\ connected = TRUE /\ closing = "no" /\ closing' = "taken" /\ connected' = FALSE
          /\ UNCHANGED <<call, outgoing, chosen, authenticated, clientId, result, up, down, ends,
                         halfClosed, broken, faults, server, peer>>
      BY <1>1 DEF WindowTakesSocket, link, Dialogue, ClientLocal
    <2>2. ClientLocal'
      BY <2>1 DEF Dialogue, ClientLocal, Inside, Settled, Asking
    <2>3. AskedInTurn'
      BY <2>1 DEF Dialogue, AskedInTurn, server, Transferring, Incoming, Alone
    <2>4. AnsweredInTurn'
      BY <2>1 DEF Dialogue, AnsweredInTurn, server, Inside, Settled, PrefaceAnswered,
         LoginAnswered, RequestAnswered, Alone, Heard
    <2>5. Intact'
      BY <2>1 DEF Intact
    <2> QED
      BY <2>1, <2>2, <2>3, <2>4, <2>5 DEF Dialogue, LossNeedsFault
  <1>2. CASE WindowForgets
    <2>1. /\ closing = "taken" /\ closing' = "forgotten" /\ authenticated' = FALSE
          /\ clientId' = 0
          /\ UNCHANGED <<call, outgoing, chosen, connected, result, up, down, ends,
                         halfClosed, broken, faults, server, peer>>
      BY <1>2 DEF WindowForgets, link
    <2>2. ClientLocal'
      BY <2>1 DEF Dialogue, ClientLocal, Inside, Settled, Asking
    <2>3. AskedInTurn'
      BY <2>1 DEF Dialogue, AskedInTurn, server, Transferring, Incoming, Alone
    <2>4. AnsweredInTurn'
      BY <2>1 DEF Dialogue, AnsweredInTurn, server, Inside, Settled, PrefaceAnswered,
         LoginAnswered, RequestAnswered, Alone, Heard
    <2>5. Intact'
      BY <2>1 DEF Intact
    <2> QED
      BY <2>1, <2>2, <2>3, <2>4, <2>5 DEF Dialogue, LossNeedsFault
  <1>3. CASE WindowClosesSocket
    <2>1. /\ closing = "forgotten" /\ closing' = "closed" /\ down' = <<>>
          /\ UNCHANGED <<call, outgoing, chosen, connected, authenticated, clientId, result, up,
                         halfClosed, faults, server, peer>>
      BY <1>3 DEF WindowClosesSocket, clientRest
    <2>2. ClientLocal'
      BY <2>1 DEF Dialogue, ClientLocal, Inside, Settled, Asking
    <2>3. AskedInTurn'
      BY <2>1 DEF Dialogue, AskedInTurn, server, Transferring, Incoming, Alone
    <2>4. AnsweredInTurn'
      BY <2>1 DEF Dialogue, AnsweredInTurn, server, Inside, Settled, PrefaceAnswered,
         LoginAnswered, RequestAnswered
    <2>5. Intact'
      BY <2>1 DEF Intact
    <2> QED
      BY <2>1, <2>2, <2>3, <2>4, <2>5 DEF Dialogue, LossNeedsFault
  <1> QED
    BY <1>1, <1>2, <1>3 DEF WindowStep

LEMMA BreakInTurn ==
  ASSUME Dialogue, peer = "own", faults \in Nat, ConnectionBreaks
  PROVE  Dialogue' /\ (LossNeedsFault => LossNeedsFault')
  <1>1. /\ broken' = TRUE /\ faults' = faults + 1 /\ faults' > 0
        /\ UNCHANGED <<peer, server, client, up, down, ends, halfClosed>>
    BY DEF ConnectionBreaks
  <1>2. ClientLocal'
    BY <1>1 DEF Dialogue, ClientLocal, client, Inside, Settled, Asking
  <1>3. AskedInTurn'
    BY <1>1 DEF Dialogue, AskedInTurn, client, server, Transferring, Incoming, Alone
  <1>4. AnsweredInTurn'
    BY <1>1 DEF Dialogue, AnsweredInTurn, client, server, Inside, Settled, PrefaceAnswered,
       LoginAnswered, RequestAnswered, Alone, Heard
  <1>5. Intact'
    BY <1>1 DEF Intact
  <1> QED
    BY <1>1, <1>2, <1>3, <1>4, <1>5 DEF Dialogue, LossNeedsFault

--------------------------------------------------------------------------------
(* The log.                                                                *)

LEMMA LogAppended ==
  ASSUME LogSound, ~Logged("disconnection"), clean \in BOOLEAN, UNCHANGED holds,
         NEW r \in LogRecords, log' = log \o <<r>>,
         r.event = "connection" <=> log = <<>>,
         r.event # "connection" => Me \in DOMAIN holds /\ r.user = holds[Me].username,
         r.event = "command" => r.user # None,
         r.event = "disconnection" => r.success = clean,
         clean' = (clean \/ (r.event = "command" /\ r.op = "DISCONNECT" /\ r.success))
  PROVE  /\ LogSound' /\ Len(log') = Len(log) + 1 /\ log' # <<>>
         /\ Logged("disconnection")' <=> r.event = "disconnection"
  <1> DEFINE n == Len(log)
  <1>1. /\ log' \in Seq(LogRecords) /\ n \in Nat /\ Len(log') = n + 1 /\ log'[n + 1] = r
        /\ \A i \in 1..n : log'[i] = log[i]
    BY LogGrows DEF LogSound
  <1>2. DOMAIN log = 1..n /\ DOMAIN log' = 1..(n + 1) /\ (log = <<>> <=> n = 0)
    <2>1. \A s \in Seq(LogRecords) : DOMAIN s = 1..Len(s) /\ (s = <<>> <=> Len(s) = 0)
      OBVIOUS
    <2> QED
      BY <1>1, <2>1 DEF LogSound
  <1>3. \A i \in 1..n : log[i].event # "disconnection"
    BY <1>2 DEF Logged
  <1>4. 1..(n + 1) = 1..n \cup {n + 1} /\ n + 1 \notin 1..n
    BY <1>1
  <1> HIDE DEF n
  <1>5. ASSUME NEW i \in 1..(n + 1)
        PROVE  /\ log'[i].event = "connection" <=> i = 1
               /\ log'[i].event = "disconnection" => i = n + 1 /\ log'[i].success = clean'
               /\ log'[i].event = "command" => log'[i].user # None
               /\ i # 1 /\ Me \in DOMAIN holds' => log'[i].user = holds'[Me].username
               /\ log'[i].event = "command" /\ log'[i].op = "DISCONNECT" /\ log'[i].success => clean'
    <2>1. CASE i = n + 1
      <3>1. log'[i] = r /\ (i = 1 <=> log = <<>>)
        BY <1>1, <1>2, <2>1
      <3>2. r.event = "disconnection" => r.success = clean'
        OBVIOUS
      <3> QED
        BY <2>1, <3>1, <3>2
    <2>2. CASE i \in 1..n
      <3>1. /\ log'[i] = log[i] /\ log[i].event # "disconnection"
            /\ log[i].event = "connection" <=> i = 1
            /\ log[i].event = "command" => log[i].user # None
            /\ i # 1 /\ Me \in DOMAIN holds => log[i].user = holds[Me].username
            /\ log[i].event = "command" /\ log[i].op = "DISCONNECT" /\ log[i].success => clean
        BY <1>1, <1>3, <2>2 DEF LogSound, n
      <3> QED
        BY <3>1
    <2> QED
      BY <1>4, <2>1, <2>2
  <1>6. \A i, j \in 1..(n + 1) : i # 1 /\ j # 1 => log'[i].user = log'[j].user
    <2>1. SUFFICES ASSUME NEW i \in 1..(n + 1), NEW j \in 1..(n + 1), i # 1, j # 1
                   PROVE  log'[i].user = log'[j].user
      OBVIOUS
    <2>2. CASE log = <<>>
      BY <1>2, <2>1, <2>2
    <2>3. CASE log # <<>>
      <3>1. Me \in DOMAIN holds
        BY <2>3
      <3> QED
        BY <1>5, <2>1, <3>1
    <2> QED
      BY <2>2, <2>3
  <1>7. clean' => \E i \in 1..(n + 1) :
                    log'[i].event = "command" /\ log'[i].op = "DISCONNECT" /\ log'[i].success
    <2>1. CASE clean
      <3>1. PICK i \in 1..n :
              log[i].event = "command" /\ log[i].op = "DISCONNECT" /\ log[i].success
        BY <2>1 DEF LogSound, n
      <3>2. log'[i] = log[i] /\ i \in 1..(n + 1)
        BY <1>1, <1>4
      <3> QED
        BY <3>1, <3>2
    <2>2. CASE r.event = "command" /\ r.op = "DISCONNECT" /\ r.success
      <3>1. n + 1 \in 1..(n + 1)
        BY <1>4
      <3> QED
        BY <1>1, <2>2, <3>1
    <2> QED
      BY <2>1, <2>2
  <1>8. Logged("disconnection")' <=> r.event = "disconnection"
    <2>1. Logged("disconnection")' <=> \E i \in 1..(n + 1) : log'[i].event = "disconnection"
      BY <1>2 DEF Logged
    <2> QED
      BY <1>1, <1>3, <1>4, <2>1
  <1>9. LogSound'
    BY ONLY <1>1, <1>5, <1>6, <1>7 DEF LogSound
  <1> QED
    BY <1>1, <1>2, <1>8, <1>9 DEF n

\* A step that logs nothing.
LEMMA NothingLogged ==
  ASSUME LogSound, LogTimely, UNCHANGED <<log, clean, issued>>,
         Me \in DOMAIN holds' =>
           /\ Me \in DOMAIN holds
           /\ holds'[Me].username = holds[Me].username \/ Len(log) = 1,
         Me \in DOMAIN holds /\ ~Logged("disconnection") => Me \in DOMAIN holds',
         state' # state =>
           /\ state' \notin {"CONNECTED", "REJECTING", "AUTHENTICATING"}
           /\ state \notin {"CONNECTED", "CLOSED"} /\ (state = "CLOSING" => state' = "CLOSED")
  PROVE  LogSound' /\ LogTimely'
  <1>1. LogSound'
    BY DEF LogSound
  <1>2. Logged("disconnection")' <=> Logged("disconnection")
    BY DEF Logged
  <1>3. LogTimely'
    BY <1>2 DEF LogTimely
  <1> QED
    BY <1>1, <1>3

\* A step that logs a command, of a session that is logged in.
LEMMA CommandLogged ==
  ASSUME Identity, LogSound, LogTimely, UNCHANGED <<issued, holds>>, state \in LoggedIn,
         NEW op \in Opcodes, NEW success \in BOOLEAN, log' = log \o Done(op, success),
         clean' = (op = "DISCONNECT" /\ success),
         state' \in LoggedIn \cup {"CLOSING"}, clean' => state' = "CLOSING"
  PROVE  LogSound' /\ LogTimely'
  <1> DEFINE r == Record("command", op, success)
  <1>1. /\ issued = Me /\ state \notin {"CLOSING", "CLOSED", "CONNECTED", "AUTHENTICATING"}
        /\ Me \in DOMAIN holds /\ holds[Me].username # None
    BY SessionAssumption DEF Identity, LoggedIn, Transferring, Serving, SessionAssumption, Rejecting
  <1>2. ~clean /\ clean \in BOOLEAN /\ log # <<>> /\ ~Logged("disconnection")
    BY <1>1 DEF LogTimely
  <1>3. /\ r \in LogRecords /\ r.event = "command" /\ r.op = op /\ r.success = success
        /\ r.user = holds[Me].username
    BY <1>1, RecordTyped
  <1>4. log' = log \o <<r>>
    BY DEF Done
  <1> HIDE DEF r
  <1>5. /\ LogSound' /\ Len(log') = Len(log) + 1 /\ log' # <<>>
        /\ ~Logged("disconnection")'
    BY <1>1, <1>2, <1>3, <1>4, LogAppended
  <1>6. LogTimely'
    BY <1>1, <1>5 DEF LogTimely, LoggedIn, Transferring
  <1> QED
    BY <1>5, <1>6

\* The handshake is over, or has failed.
LEMMA ConnectionLogged ==
  ASSUME Identity, LogSound, LogTimely, UNCHANGED <<issued, holds, clean>>,
         state \in {"CONNECTED", "REJECTING"}, state' \in {"AUTHENTICATING", "DRAINING", "CLOSING"},
         NEW success \in BOOLEAN, log' = log \o <<Record("connection", "none", success)>>
  PROVE  LogSound' /\ LogTimely'
  <1> DEFINE r == Record("connection", "none", success)
  <1>1. log = <<>> /\ Len(log) = 0 /\ ~clean /\ clean \in BOOLEAN /\ ~Logged("disconnection")
    BY DEF LogTimely, Logged
  <1>2. r \in LogRecords /\ r.event = "connection"
    <2>1. "connection" \in {"connection", "command", "disconnection"}
          /\ "none" \in Opcodes \cup {"none"}
      OBVIOUS
    <2> QED
      BY ONLY <2>1, Identity, success \in BOOLEAN, RecordTyped
  <1>3. log' = log \o <<r>>
    OBVIOUS
  <1> HIDE DEF r
  <1>4. /\ LogSound' /\ Len(log') = 1 /\ log' # <<>> /\ ~Logged("disconnection")'
    BY <1>1, <1>2, <1>3, LogAppended
  <1>5. LogTimely'
    BY <1>1, <1>4 DEF LogTimely
  <1> QED
    BY <1>4, <1>5

LEMMA DisconnectionLogged ==
  ASSUME Identity, LogSound, LogTimely, LogDisconnection
  PROVE  LogSound' /\ LogTimely'
  <1> DEFINE r == Record("disconnection", "none", clean)
  <1>1. /\ state = "CLOSED" /\ state' = state /\ issued = Me /\ ~Logged("disconnection")
        /\ UNCHANGED <<clean, issued, holds>> /\ log' = Append(log, r)
    BY DEF LogDisconnection, serverIdentity, serverRest, registry
  <1>2. Me \in DOMAIN holds /\ log # <<>> /\ clean \in BOOLEAN
    BY <1>1 DEF LogTimely, Me
  <1>3. /\ r \in LogRecords /\ r.event = "disconnection" /\ r.success = clean
        /\ r.user = holds[Me].username
    BY <1>2, RecordTyped
  <1>4. log' = log \o <<r>>
    <2>1. \A s \in Seq(LogRecords), a \in LogRecords : Append(s, a) = s \o <<a>>
      OBVIOUS
    <2> HIDE DEF r
    <2> QED
      BY <1>1, <1>3, <2>1 DEF LogSound
  <1> HIDE DEF r
  <1>5. LogSound' /\ log' # <<>> /\ Logged("disconnection")'
    BY <1>1, <1>2, <1>3, <1>4, LogAppended
  <1>6. LogTimely'
    BY <1>1, <1>2, <1>5 DEF LogTimely
  <1> QED
    BY <1>5, <1>6

\* Either outcome of a request: its record, or none, of which the second ends the session.
LEMMA OutcomeLogged ==
  ASSUME Identity, LogSound, LogTimely, UNCHANGED <<issued, holds, clean>>, state \in LoggedIn,
         NEW op \in Opcodes, NEW success \in BOOLEAN, op # "DISCONNECT" \/ ~success,
         state' \in LoggedIn \cup {"CLOSING"},
         log' = log \o Done(op, success) \/ log' = log \o <<>>
  PROVE  LogSound' /\ LogTimely'
  <1>1. ~clean /\ clean \in BOOLEAN
    BY DEF LogTimely, LoggedIn, Transferring
  <1>2. CASE log' = log \o Done(op, success)
    <2>1. clean' = (op = "DISCONNECT" /\ success)
      BY <1>1
    <2>2. ~clean'
      BY <1>1
    <2> QED
      BY <1>2, <2>1, <2>2, CommandLogged
  <1>3. CASE log' = log \o <<>>
    <2>1. log' = log
      BY <1>3 DEF LogSound
    <2> QED
      BY <2>1, NothingLogged DEF LoggedIn, Transferring
  <1> QED
    BY <1>2, <1>3

LEMMA LogNext ==
  ASSUME Identity, LogSound, LogTimely, [Next]_vars
  PROVE  LogSound' /\ LogTimely'
  <1>1. log \o <<>> = log
    BY DEF LogSound
  <1>2. Requests \subseteq Opcodes /\ Transfer \in Opcodes \ {"DISCONNECT"}
    BY DEF Transfer, Requests, Opcodes
  <1>3. CASE PerformHandshake
    <2>1. /\ state = "CONNECTED" /\ state' \in {"AUTHENTICATING", "CLOSING"}
          /\ UNCHANGED <<issued, holds, clean>>
      BY <1>3 DEF PerformHandshake, Answer, serverIdentity, serverRest, registry
    <2>2. \E b \in BOOLEAN : \/ log' = log \o <<Record("connection", "none", b)>>
                             \/ log' = Append(log, Record("connection", "none", b))
      BY <1>3 DEF PerformHandshake, Answer
    <2>3. PICK b \in BOOLEAN : \/ log' = log \o <<Record("connection", "none", b)>>
                               \/ log' = Append(log, Record("connection", "none", b))
      BY <2>2
    <2>4. log = <<>>
      BY <2>1 DEF LogTimely
    <2>5. log' = log \o <<Record("connection", "none", b)>>
      BY <2>3, <2>4, Tuples
    <2> QED
      BY <2>1, <2>5, ConnectionLogged
  <1>4. CASE ServeEnds
    <2>1. /\ state \in Serving \cup Transferring /\ state' = "CLOSING"
          /\ UNCHANGED <<issued, holds, clean>>
          /\ log' = IF state \in Transferring THEN log \o Done(Transfer, FALSE) ELSE log
      BY <1>4 DEF ServeEnds, serverIdentity, serverRest, registry
    <2>2. CASE state \in Transferring
      BY <1>2, <2>1, <2>2, OutcomeLogged DEF LoggedIn
    <2>3. CASE state \notin Transferring
      BY <2>1, <2>3, NothingLogged DEF Serving
    <2> QED
      BY <2>2, <2>3
  <1>5. CASE RefuseFrame \/ RefuseLogin
    <2>1. /\ state \in Serving /\ state' \in {state, "CLOSING"}
          /\ UNCHANGED <<issued, holds, clean>> /\ log' = log
      BY <1>1, <1>5 DEF RefuseFrame, RefuseLogin, Answer, Serving, serverIdentity, serverRest,
         registry
    <2> QED
      BY <2>1, NothingLogged DEF Serving
  <1>6. CASE Authenticate
    <2>1. /\ state = "AUTHENTICATING" /\ state' \in {state, "IDLE", "CLOSING"} /\ log' = log
          /\ clean' = clean /\ issued' = issued /\ Len(log) = 1
          /\ Me \in DOMAIN holds' <=> Me \in DOMAIN holds
      BY <1>1, <1>6, AuthenticateFacts DEF Refused, Granted, Answer, LogTimely
    <2> QED
      BY <2>1, NothingLogged
  <1>7. CASE RefuseRequest
    <2>1. /\ state = "IDLE" /\ state' \in {"IDLE", "CLOSING"} /\ Incoming.op \in Opcodes
          /\ UNCHANGED <<issued, holds, clean>>
          /\ log' = log \o Done(Incoming.op, FALSE) \/ log' = log \o <<>>
      BY <1>7 DEF RefuseRequest, Read, Incoming, Answer, serverIdentity, serverRest, registry
    <2> QED
      BY <2>1, OutcomeLogged DEF LoggedIn
  <1>8. CASE HandleFileList
    <2>1. /\ state = "IDLE" /\ state' \in {"IDLE", "CLOSING"}
          /\ UNCHANGED <<issued, holds, clean>>
          /\ \E b \in BOOLEAN : log' = log \o Done("FILE_LIST", b) \/ log' = log \o <<>>
      BY <1>8 DEF HandleFileList, Answer, serverIdentity, serverRest, registry
    <2> QED
      BY <1>2, <2>1, OutcomeLogged DEF LoggedIn, Requests
  <1>9. CASE HandleDisconnect
    <2>1. /\ state = "IDLE" /\ state' = "CLOSING" /\ UNCHANGED <<issued, holds>>
          /\ clean' = Last(log').success
          /\ \E b \in BOOLEAN : log' = log \o Done("DISCONNECT", b)
      BY <1>9 DEF HandleDisconnect, Answer, serverRest, registry
    <2>2. PICK b \in BOOLEAN : log' = log \o Done("DISCONNECT", b)
      BY <2>1
    <2> DEFINE r == Record("command", "DISCONNECT", b)
    <2>3. r \in LogRecords /\ r.success = b /\ log' = log \o <<r>>
      BY <2>2, RecordTyped DEF Opcodes, Requests, Done
    <2> HIDE DEF r
    <2>4. clean' = b
      BY <2>1, <2>3, LogGrows DEF LogSound
    <2> QED
      BY <1>2, <2>1, <2>2, <2>4, CommandLogged DEF LoggedIn, Requests
  <1>10. CASE BeginTransfer
    <2>1. /\ state = "IDLE" /\ state' \in {"IDLE", "CLOSING"} \cup Transferring
          /\ UNCHANGED <<issued, holds, clean>>
          /\ \E op \in {"FILE_UPLOAD", "FILE_DOWNLOAD"} :
               log' = log \o Done(op, FALSE) \/ log' = log \o <<>>
      BY <1>10 DEF BeginTransfer, Answer, Transferring, serverIdentity, serverRest, registry
    <2> QED
      BY <1>2, <2>1, OutcomeLogged DEF LoggedIn, Requests
  <1>11. CASE ReceiveChunk
    <2>1. UNCHANGED <<state, log, issued, holds, clean>>
      BY <1>11 DEF ReceiveChunk, serverIdentity, serverRest, registry
    <2> QED
      BY <2>1, NothingLogged
  <1>12. CASE FinishUpload \/ SendFile \/ FinishDownload \/ RefuseInTransfer
    <2>1. /\ state \in Transferring /\ state' \in LoggedIn \cup {"CLOSING"}
          /\ UNCHANGED <<issued, holds, clean>>
      BY <1>12 DEF FinishUpload, SendFile, FinishDownload, RefuseInTransfer, Answer, LoggedIn,
         Transferring, serverIdentity, serverRest, registry
    <2>2. \E b \in BOOLEAN : log' = log \o Done(Transfer, b) \/ log' = log \o <<>>
      <3>1. CASE FinishUpload
        BY <3>1 DEF FinishUpload, Answer, Transfer
      <3>2. CASE SendFile
        BY <1>1, <3>2 DEF SendFile, Answer, Transfer
      <3>3. CASE FinishDownload
        BY <3>3 DEF FinishDownload, Transfer
      <3>4. CASE RefuseInTransfer
        BY <3>4 DEF RefuseInTransfer, Answer
      <3> QED
        BY <1>12, <3>1, <3>2, <3>3, <3>4
    <2>3. Transfer \in Opcodes /\ Transfer # "DISCONNECT"
      BY <1>2
    <2> QED
      BY <2>1, <2>2, <2>3, OutcomeLogged DEF LoggedIn
  <1>13. CASE Close
    <2>1. /\ state = "CLOSING" /\ state' = "CLOSED"
          /\ UNCHANGED <<log, issued, holds, clean>>
      BY <1>13 DEF Close, registry
    <2> QED
      BY <2>1, NothingLogged
  <1>14. CASE LogDisconnection
    BY <1>14, DisconnectionLogged
  <1>15. CASE ReleaseIdentity
    <2>1. /\ UNCHANGED <<state, log, clean, issued>> /\ Me \notin DOMAIN holds'
          /\ Logged("disconnection")
      BY <1>15 DEF ReleaseIdentity, Reg!Leave, server
    <2> QED
      BY <2>1, NothingLogged
  <1>16. CASE RejectBusy
    <2>1. /\ state = "REJECTING" /\ state' \in {"DRAINING", "CLOSING"}
          /\ UNCHANGED <<issued, holds, clean>>
          /\ \/ log' = log \o <<Record("connection", "none", FALSE)>>
             \/ log' = log
      BY <1>1, <1>16 DEF RejectBusy, Answer, serverIdentity, registry
    <2> QED
      BY <2>1, ConnectionLogged, NothingLogged
  <1>17. CASE Drain \/ RejectTimesOut
    <2>1. /\ state \in {"REJECTING", "DRAINING"} /\ state' \in {state, "CLOSING"}
          /\ UNCHANGED <<log, issued, holds, clean>>
      BY <1>17 DEF Drain, RejectTimesOut, serverIdentity, serverRest, registry
    <2> QED
      BY <2>1, NothingLogged
  <1>18. CASE RivalMoves
    <2>1. /\ UNCHANGED <<state, log, clean, issued>>
          /\ Me \in DOMAIN holds' <=> Me \in DOMAIN holds
          /\ Me \in DOMAIN holds => holds'[Me] = holds[Me]
      BY <1>18 DEF RivalMoves, Reg!Grant, Reg!Leave, server, Rival, Me
    <2> QED
      BY <2>1, NothingLogged
  <1>19. CASE ClientStep \/ Connect \/ MakeRequest \/ CallTimesOut
    <2>1. UNCHANGED <<state, log, clean, issued, holds>>
      BY <1>19 DEF ClientStep, ReadPreface, ReadLoginReply, CompleteLogin, SendRequest,
         ReadListReply, ReadDisconnectReply, ReadForeignReply, CallFails, Connect, MakeRequest,
         CallTimesOut, clientRest, server, registry
    <2> QED
      BY <2>1, NothingLogged
  <1>20. CASE WindowStep \/ WindowTakesSocket \/ PeerConnects \/ PeerSends \/ PeerLeaves
              \/ ConnectionBreaks \/ UNCHANGED vars
    <2>1. UNCHANGED <<state, log, clean, issued, holds>>
      BY <1>20 DEF WindowStep, WindowForgets, WindowClosesSocket, WindowTakesSocket,
         PeerConnects, PeerSends, PeerLeaves, ConnectionBreaks, clientRest, server, registry,
         vars
    <2> QED
      BY <2>1, NothingLogged
  <1> QED
    BY <1>3, <1>4, <1>5, <1>6, <1>7, <1>8, <1>9, <1>10, <1>11, <1>12, <1>13, <1>14, <1>15,
       <1>16, <1>17, <1>18, <1>19, <1>20
    DEF Next, ServerStep

--------------------------------------------------------------------------------
(* All of it.                                                              *)

LEMMA Initially == Init => IInv
  <1> SUFFICES ASSUME Init PROVE IInv
    OBVIOUS
  <1>1. Identity
    BY IdentityInit
  <1>2. LogSound
    BY DEF Init, LogSound
  <1>3. LogTimely
    <2>1. issued = Me => state = "CONNECTED"
      <3>1. issued = Me => state \notin Rejecting
        BY <1>1 DEF Identity
      <3> QED
        BY <3>1 DEF Init, Rejecting
    <2>2. issued = Me => Me \in DOMAIN holds
      BY <1>1, <2>1 DEF Identity
    <2>3. state \in {"CONNECTED", "REJECTING"} /\ log = <<>> /\ clean = FALSE
      BY DEF Init
    <2>4. ~Logged("disconnection")
      BY <2>3 DEF Logged
    <2> QED
      BY <2>1, <2>2, <2>3, <2>4 DEF LogTimely
  <1>4. ClientLocal
    BY DEF Init, ClientLocal, Inside, Settled
  <1>5. AskedInTurn /\ AnsweredInTurn
    BY DEF Init, AskedInTurn, AnsweredInTurn, Transferring, Inside, Settled
  <1>6. Intact
    BY DEF Init, Intact
  <1> QED
    BY <1>1, <1>2, <1>3, <1>4, <1>5, <1>6 DEF IInv, Init, LossNeedsFault

LEMMA FaultsCounted ==
  ASSUME faults \in Nat, peer \in {"own", "foreign"}, [Next]_vars
  PROVE  faults' \in Nat /\ (faults' = faults \/ faults' > 0) /\ peer' = peer
  <1>1. CASE RejectTimesOut \/ CallTimesOut \/ ConnectionBreaks
    <2>1. faults' = faults + 1 /\ peer' = peer
      BY <1>1 DEF RejectTimesOut, CallTimesOut, ConnectionBreaks, clientRest
    <2> QED
      BY <2>1
  <1>2. CASE ServerStep
    BY <1>2 DEF ServerStep, PerformHandshake, ServeEnds, RefuseFrame, RefuseLogin, Authenticate,
       RefuseRequest, HandleFileList, HandleDisconnect, BeginTransfer, ReceiveChunk,
       FinishUpload, SendFile, FinishDownload, RefuseInTransfer, Close, LogDisconnection,
       ReleaseIdentity, RejectBusy, Drain, serverRest
  <1>3. CASE ClientStep \/ Connect \/ MakeRequest
    BY <1>3 DEF ClientStep, ReadPreface, ReadLoginReply, CompleteLogin, SendRequest,
       ReadListReply, ReadDisconnectReply, ReadForeignReply, CallFails, Connect, MakeRequest,
       clientRest
  <1>4. CASE WindowStep \/ WindowTakesSocket \/ PeerConnects \/ PeerSends \/ PeerLeaves
             \/ RivalMoves \/ UNCHANGED vars
    BY <1>4 DEF WindowStep, WindowForgets, WindowClosesSocket, WindowTakesSocket,
       PeerConnects, PeerSends, PeerLeaves, RivalMoves, clientRest, vars
  <1> QED
    BY <1>1, <1>2, <1>3, <1>4 DEF Next

LEMMA ServerAlone ==
  ASSUME ServerStep \/ RejectTimesOut \/ RivalMoves
  PROVE  UNCHANGED client
  <1>1. CASE ServerStep
    BY <1>1 DEF ServerStep, PerformHandshake, ServeEnds, RefuseFrame, RefuseLogin, Authenticate,
       RefuseRequest, HandleFileList, HandleDisconnect, BeginTransfer, ReceiveChunk,
       FinishUpload, SendFile, FinishDownload, RefuseInTransfer, Close, LogDisconnection,
       ReleaseIdentity, RejectBusy, Drain, serverRest
  <1>2. CASE RejectTimesOut \/ RivalMoves
    BY <1>2 DEF RejectTimesOut, RivalMoves
  <1> QED
    BY <1>1, <1>2

LEMMA OwnNext ==
  ASSUME IInv, peer = "own", [Next]_vars
  PROVE  Dialogue' /\ LossNeedsFault'
  <1>1. /\ Dialogue /\ faults \in Nat /\ LossNeedsFault
        /\ Identity /\ LogSound /\ LogTimely
    BY DEF IInv, Dialogue
  <1>2. CASE ServerStep \/ RejectTimesOut \/ RivalMoves
    <2>1. Dialogue'
      BY <1>1, <1>2, ServerInTurn
    <2>2. result' = result
      BY <1>2, ServerAlone DEF client
    <2>3. faults' = faults \/ faults' > 0
      BY <1>1, FaultsCounted
    <2> QED
      BY <1>1, <2>1, <2>2, <2>3 DEF LossNeedsFault
  <1>3. CASE ReadPreface
    BY <1>1, <1>3, PrefaceRead
  <1>4. CASE ReadLoginReply
    BY <1>1, <1>4, LoginReplyRead
  <1>5. CASE CompleteLogin
    BY <1>1, <1>5, LoginCompleted
  <1>6. CASE SendRequest
    BY <1>1, <1>6, RequestSent
  <1>7. CASE ReadListReply
    BY <1>1, <1>7, ListReplyRead
  <1>8. CASE ReadDisconnectReply
    BY <1>1, <1>8, DisconnectReplyRead
  <1>9. CASE ReadForeignReply
    BY <1>1, <1>9, ForeignReplyRead
  <1>10. CASE CallFails \/ CallTimesOut
    BY <1>1, <1>10, CallFailed
  <1>11. CASE Connect
    BY <1>1, <1>11, Connects
  <1>12. CASE MakeRequest
    BY <1>1, <1>12, RequestMade
  <1>13. CASE WindowStep \/ WindowTakesSocket
    BY <1>1, <1>13, WindowInTurn
  <1>14. CASE ConnectionBreaks
    BY <1>1, <1>14, BreakInTurn
  <1>15. ~(PeerConnects \/ PeerSends \/ PeerLeaves)
    BY DEF PeerConnects, PeerSends, PeerLeaves
  <1>16. CASE UNCHANGED vars
    <2>1. UNCHANGED <<peer, client, faults, down, broken, ends, up, username, userId, state,
                      halfClosed, clean, result>>
      BY <1>16 DEF vars, link, server, client
    <2>2. Dialogue'
      BY <1>1, <2>1, ServerSilent
    <2> QED
      BY <1>1, <2>1, <2>2 DEF LossNeedsFault
  <1> QED
    BY <1>2, <1>3, <1>4, <1>5, <1>6, <1>7, <1>8, <1>9, <1>10, <1>11, <1>12, <1>13, <1>14,
       <1>15, <1>16
    DEF Next, ClientStep

LEMMA Inductive == IInv /\ [Next]_vars => IInv'
  <1> SUFFICES ASSUME IInv, [Next]_vars PROVE IInv'
    OBVIOUS
  <1>1. /\ Identity /\ LogSound /\ LogTimely /\ ClientLocal /\ LossNeedsFault
        /\ faults \in Nat /\ peer \in {"own", "foreign"}
    BY DEF IInv
  <1>2. Identity' /\ LogSound' /\ LogTimely'
    BY <1>1, IdentityNext, LogNext
  <1>3. faults' \in Nat /\ (faults' = faults \/ faults' > 0) /\ peer' = peer
    BY <1>1, FaultsCounted
  <1>4. CASE peer = "own"
    BY <1>1, <1>2, <1>3, <1>4, OwnNext DEF IInv, Dialogue
  <1>5. CASE peer = "foreign"
    <2>1. peer' = "foreign" /\ UNCHANGED client /\ down' = <<>> /\ call = "none"
      BY <1>1, <1>5, ForeignNext
    <2>2. ClientLocal'
      BY <1>1, <2>1 DEF ClientLocal, client, Inside, Settled, Asking
    <2>3. AskedInTurn' /\ AnsweredInTurn' /\ Intact'
      BY <2>1 DEF AskedInTurn, AnsweredInTurn, Intact
    <2>4. LossNeedsFault'
      BY <1>1, <1>3, <2>1 DEF LossNeedsFault, client
    <2> QED
      BY <1>2, <1>3, <2>1, <2>2, <2>3, <2>4 DEF IInv
  <1> QED
    BY <1>1, <1>4, <1>5

LEMMA Invariance == Spec => []IInv
  BY Initially, Inductive, PTL DEF Spec

--------------------------------------------------------------------------------
(* What the sessions promise.                                              *)

\* While it is served, a session of server/session.py acts under the identity that the
\* registry holds for it, a client that takes itself for logged in (client/session.py)
\* has the same, and no request of it carries another USER_ID, whatever thread of it
\* closes the connection meanwhile.
THEOREM AlwaysOneIdentity == Spec => []IdentitiesAgree
  <1>1. IInv => IdentitiesAgree
    <2> SUFFICES ASSUME IInv, state \in Serving \cup Transferring
                 PROVE  /\ holds[Me] = [username |-> username, userId |-> userId]
                        /\ connected /\ authenticated => clientId = userId /\ chosen = username
                        /\ peer = "own" /\ up # <<>> => Head(up).user = Expected
      BY DEF IdentitiesAgree
    <2>1. holds[Me] = [username |-> username, userId |-> userId]
      BY DEF IInv, Identity, Serving, Transferring, Rival, Me
    <2>2. connected /\ authenticated => clientId = userId /\ chosen = username
      <3>1. connected /\ authenticated => call \in Inside /\ closing = "no" /\ peer = "own"
        BY DEF IInv, ClientLocal
      <3>2. connected /\ authenticated => state = "IDLE"
        BY <3>1 DEF IInv, AnsweredInTurn, Serving, Transferring
      <3> QED
        BY <3>1, <3>2 DEF IInv, AnsweredInTurn
    <2>3. peer = "own" /\ up # <<>> => Head(up).user = Expected
      BY DEF IInv, AskedInTurn, Incoming, Expected, Serving, Transferring
    <2> QED
      BY <2>1, <2>2, <2>3
  <1> QED
    BY <1>1, Invariance, PTL

\* Of the replies the server sends, none is ever left for the next request of the
\* client to read as its own.
THEOREM AlwaysInStep == Spec => []InStep
  <1>1. IInv => InStep
    <2> SUFFICES ASSUME IInv, connected PROVE InStep
      BY DEF InStep
    <2>1. peer = "own" /\ call \in Asking \cup Settled
      BY DEF IInv, ClientLocal
    <2>2. CASE call = "preface"
      <3>1. down \in {<<>>, <<Greeting>>, <<Greeting, Busy>>}
        BY <2>1, <2>2 DEF IInv, AnsweredInTurn, PrefaceAnswered
      <3> QED
        BY <2>2, <3>1 DEF InStep, Busy
    <2>3. CASE call = "login"
      <3>1. down = <<>> \/ (Len(down) = 1 /\ Heard.of \in {"LOGIN", "none"})
        BY <2>1, <2>3 DEF IInv, AnsweredInTurn, LoginAnswered, Alone, Busy, Reply
      <3> QED
        BY <2>3, <3>1 DEF InStep
    <2>4. CASE call = "listing"
      <3>1. down = <<>> \/ (Len(down) = 1 /\ Heard.of = "FILE_LIST")
        BY <2>1, <2>4 DEF IInv, AnsweredInTurn, RequestAnswered, Alone
      <3> QED
        BY <2>4, <3>1 DEF InStep
    <2>5. CASE call = "leaving"
      <3>1. down = <<>> \/ (Len(down) = 1 /\ Heard.of = "DISCONNECT")
        BY <2>1, <2>5 DEF IInv, AnsweredInTurn, RequestAnswered, Alone
      <3> QED
        BY <2>5, <3>1 DEF InStep
    <2>6. CASE call \in Settled
      <3>1. down = <<>>
        BY <2>1, <2>6 DEF IInv, AnsweredInTurn
      <3> QED
        BY <2>6, <3>1 DEF InStep, Settled
    <2> QED
      BY <2>1, <2>2, <2>3, <2>4, <2>5, <2>6 DEF Asking
  <1> QED
    BY <1>1, Invariance, PTL

\* No call of the client ends in a lost connection unless the network or a deadline
\* has failed it, or its window has closed the session.
THEOREM AlwaysToldWhy == Spec => []LossNeedsFault
  <1>1. IInv => LossNeedsFault
    BY DEF IInv
  <1> QED
    BY <1>1, Invariance, PTL

\* The log of a connection is complete, in order and under one name, and a client that
\* was told that its DISCONNECT succeeded finds it so in the server's log.
THEOREM AlwaysLogged == Spec => []LogTellsTheSession
  <1>1. IInv => LogTellsTheSession
    <2> SUFFICES ASSUME IInv PROVE LogTellsTheSession
      OBVIOUS
    <2>1. DOMAIN log = 1..Len(log) /\ LogSound /\ clean \in BOOLEAN
      BY DEF IInv, LogSound, LogTimely
    <2>2. result = "left" => clean
      <3>1. CASE peer = "own"
        BY <3>1 DEF IInv, AnsweredInTurn
      <3>2. CASE peer = "foreign"
        BY <3>2, SMTT(30) DEF IInv, ClientLocal
      <3> QED
        BY <3>1, <3>2 DEF IInv
    <2>3. \A i \in DOMAIN log :
            /\ log[i].event = "connection" <=> i = 1
            /\ log[i].event = "disconnection" => i = Len(log)
            /\ i \in Commands => log[i].user # None
      BY <2>1, ZenonT(40) DEF LogSound, Commands
    <2>4. \A i \in DOMAIN log, j \in Commands :
            log[i].event # "connection" => log[i].user = log[j].user
      BY <2>1, ZenonT(40) DEF LogSound, Commands
    <2>5. ASSUME Logged("disconnection")
          PROVE  /\ Last(log).success <=>
                      \E i \in Commands : log[i].op = "DISCONNECT" /\ log[i].success
                 /\ result = "left" => Last(log).success
      <3>1. Last(log).success = clean
        BY <2>1, <2>5, ZenonT(40) DEF Logged, LogSound, Last
      <3>2. clean <=> \E i \in Commands : log[i].op = "DISCONNECT" /\ log[i].success
        BY <2>1 DEF LogSound, Commands
      <3> QED
        BY <2>2, <3>1, <3>2
    <2> QED
      BY <2>3, <2>4, <2>5 DEF LogTellsTheSession
  <1> QED
    BY <1>1, Invariance, PTL

\* Whatever the peer does, the session and the others use the registry as its promise
\* (Identities, which Registry is proved to implement) allows, so that what is proved of
\* the registry holds for this composition.
THEOREM SessionObeysRegistry == Spec => [][Reg!Next]_registry
  <1>1. ASSUME IInv, [Next]_vars PROVE [Reg!Next]_registry
    <2>1. Identity /\ LogTimely
      BY <1>1 DEF IInv
    <2>2. Rival \in 1..issued /\ (issued = Me => Me \in 1..issued)
      BY <2>1 DEF Identity, Rival, Me
    <2>3. CASE Authenticate
      <3>1. issued = Me /\ Incoming.name \in Usernames
        BY <2>1, <2>3, AuthenticateFacts DEF Identity, Serving, Rival, Me
      <3>2. \/ UNCHANGED registry
            \/ \E why \in {"in_use", "capacity"} : Reg!Refuse(Me, Incoming.name, why)
            \/ Reg!Grant(Me, Incoming.name)
        BY <2>3 DEF Authenticate
      <3> QED
        BY <2>2, <3>1, <3>2 DEF Reg!Next, Reg!Refusals
    <2>4. CASE ReleaseIdentity
      <3>1. issued = Me /\ Reg!Leave(Me)
        BY <2>1, <2>4 DEF ReleaseIdentity, Identity
      <3> QED
        BY <2>2, <3>1 DEF Reg!Next
    <2>5. CASE RivalMoves
      BY <2>2, <2>5 DEF RivalMoves, Reg!Next
    <2>6. CASE UNCHANGED registry
      BY <2>6
    <2>7. CASE ServerStep
      BY <2>3, <2>4, <2>6, <2>7 DEF ServerStep, PerformHandshake, ServeEnds, RefuseFrame,
         RefuseLogin, RefuseRequest, HandleFileList, HandleDisconnect, BeginTransfer,
         ReceiveChunk, FinishUpload, SendFile, FinishDownload, RefuseInTransfer, Close,
         LogDisconnection, RejectBusy, Drain, serverRest
    <2>8. CASE ClientStep \/ Connect \/ MakeRequest \/ CallTimesOut
      BY <2>6, <2>8 DEF ClientStep, ReadPreface, ReadLoginReply, CompleteLogin, SendRequest,
         ReadListReply, ReadDisconnectReply, ReadForeignReply, CallFails, Connect, MakeRequest,
         CallTimesOut, clientRest
    <2>9. CASE WindowStep \/ WindowTakesSocket \/ PeerConnects \/ PeerSends \/ PeerLeaves
               \/ ConnectionBreaks \/ RejectTimesOut \/ UNCHANGED vars
      BY <2>6, <2>9 DEF WindowStep, WindowForgets, WindowClosesSocket, WindowTakesSocket,
         PeerConnects, PeerSends, PeerLeaves, ConnectionBreaks, RejectTimesOut, clientRest, vars
    <2> QED
      BY <1>1, <2>5, <2>7, <2>8, <2>9 DEF Next
  <1> QED
    BY <1>1, Invariance, PTL DEF Spec
================================================================================
