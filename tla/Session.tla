--------------------------------- MODULE Session ---------------------------------
(***************************************************************************)
(* One connection: server/session.py (and reject_busy of server/app.py) on *)
(* one end; on the other this repository's client (client/session.py,      *)
(* client/listing.py) or a peer that sends any frame whatever.  Usernames  *)
(* and USER_IDs come from the registry as it promises them (Identities),   *)
(* where a rival logs in and out; the log is taken to lose nothing.        *)
(*                                                                         *)
(* A frame is an opcode, a USER_ID and whether its payload can be read:    *)
(* Messages and Framing say when.  Inside a transfer only what decides how *)
(* it ends is kept: Upload and Download model the rest.                    *)
(***************************************************************************)
EXTENDS Integers, Sequences, FiniteSets, SequencesExt

CONSTANTS
  Usernames, None, MaxUserId,
  ServerNames,   \* usernames within the server's auth.max_username_bytes
  MaxFrames,     \* bound: frames another program sends after the preface
  Window,        \* bound: frames under way towards the server
  MaxCalls,      \* bound: calls of the client after connect()
  MaxFaults      \* bound: broken connections and timeouts

ASSUME SessionAssumption ==
  /\ MaxUserId \in Nat \ {0} /\ ServerNames \subseteq Usernames /\ None \notin Usernames
  /\ {MaxFrames, Window, MaxCalls, MaxFaults} \subseteq Nat

VARIABLES
  issued, holds, outcome,    \* the registry
  peer,       \* "own" or "foreign"
  up, down,   \* frames under way; what a foreign peer is sent it reads at once
  ends,       \* "none", "open" or "closed": the peer's end of the connection
  halfClosed, \* the server has shut its sending side
  broken,     \* the connection was reset: data under way may be lost
  state,      \* SessionState, or where reject_busy is
  username, userId, clean,   \* fields of ServerSession
  sentFile,   \* the checksum of a download has been sent
  log,        \* records of the server's log about this connection
  call,       \* where the client's thread is
  outgoing,   \* the request it has made and not sent
  chosen,     \* the username given to connect()
  connected, authenticated, clientId,   \* fields of ClientSession
  closing,    \* how far the window's thread is in close()
  result,     \* how the last call ended
  calls, frames, faults

registry == <<issued, holds, outcome>>
link == <<up, down, ends, halfClosed, broken>>
server == <<state, username, userId, clean, sentFile, log>>
client == <<call, outgoing, chosen, connected, authenticated, clientId, closing, result, calls>>
vars == <<registry, peer, link, server, client, frames, faults>>

Reg == INSTANCE Identities WITH MaxSessions <- 2
Rival == 1
Me == 2

Frame(op, user, good) == [op |-> op, user |-> user, good |-> good, name |-> None]
Login(user, good, n) == [op |-> "LOGIN", user |-> user, good |-> good, name |-> n]
Reply(op, of, user) == [op |-> op, of |-> of, user |-> user]
Preface == Frame("PREFACE", 0, TRUE)
Greeting == Reply("PREFACE", "none", 0)

\* The connection is accepted, and its session registered if there is room for one.
Init ==
  /\ state \in {"CONNECTED", "REJECTING"}
  /\ holds = [s \in {Rival} \cup (IF state = "CONNECTED" THEN {Me} ELSE {}) |-> Reg!Anonymous]
  /\ issued = Cardinality(DOMAIN holds)
  /\ outcome = [call |-> "register", session |-> issued, username |-> None,
                result |-> "registered"]
  /\ peer \in {"own", "foreign"}
  /\ up = <<>> /\ down = <<>> /\ ends = "none" /\ halfClosed = FALSE /\ broken = FALSE
  /\ username = None /\ userId = 0 /\ clean = FALSE /\ sentFile = FALSE /\ log = <<>>
  /\ call = "none" /\ outgoing = Preface /\ chosen = None /\ connected = FALSE /\ authenticated = FALSE
  /\ clientId = 0 /\ closing = "no" /\ result = "none" /\ calls = 0
  /\ frames = 0 /\ faults = 0

Requests == {"FILE_LIST", "FILE_UPLOAD", "FILE_DOWNLOAD", "DISCONNECT"}
Opcodes == Requests \cup {"LOGIN", "FILE_DELETE", "FILE_CHUNK", "FILE_CHECKSUM", "ACK", "ERROR"}
Serving == {"AUTHENTICATING", "IDLE"}
Transferring == {"RECEIVING_UPLOAD", "SENDING_DOWNLOAD"}

--------------------------------------------------------------------------------
(* The server's side of the connection. *)

\* log_context: the identity the registry has for the session at that moment.
Record(event, op, success) ==
  [event |-> event, op |-> op, success |-> success,
   user |-> IF Me \in DOMAIN holds THEN holds[Me].username ELSE None]

\* session.send, then the new state and the records of a handler that succeeds.  A
\* send to a peer that has gone raises, or succeeds and resets the connection; an
\* exception ends the session, with the record that _dispatch writes of it.
Answer(replies, newState, records, onFailure) ==
  \/ /\ ends = "open" /\ ~broken
     /\ down' = IF peer = "own" THEN down \o replies ELSE down
     /\ state' = newState /\ log' = log \o records
     /\ UNCHANGED broken
  \/ /\ ends = "closed" \/ broken
     /\ broken' = TRUE /\ UNCHANGED down
     /\ \/ state' = newState /\ log' = log \o records
        \/ state' = "CLOSING" /\ log' = log \o onFailure

Read(kinds) ==
  /\ up # <<>> /\ Head(up).op \in kinds
  /\ up' = Tail(up)

\* recv finds the end of the stream, or raises.
NothingMore == (up = <<>> /\ ends = "closed") \/ broken

Incoming == Head(up)
Expected == IF state = "AUTHENTICATING" THEN 0 ELSE userId
Garbage == {"GARBAGE"}     \* a LENGTH no frame can have
Unknown == {"UNKNOWN"}     \* a frame with an opcode that is not one

serverIdentity == <<username, userId, clean>>
serverRest == <<registry, peer, client, frames, faults, ends, halfClosed>>

Done(op, success) == <<Record("command", op, success)>>
Transfer == IF state = "RECEIVING_UPLOAD" THEN "FILE_UPLOAD" ELSE "FILE_DOWNLOAD"

PerformHandshake ==
  /\ state = "CONNECTED"
  /\ \/ /\ Read({"PREFACE"})
        /\ Answer(<<Greeting>>, "AUTHENTICATING", <<Record("connection", "none", TRUE)>>,
                  <<Record("connection", "none", FALSE)>>)
     \/ /\ Read(Garbage) \/ (NothingMore /\ UNCHANGED up)
        /\ state' = "CLOSING" /\ log' = Append(log, Record("connection", "none", FALSE))
        /\ UNCHANGED <<down, broken>>
  /\ UNCHANGED <<serverIdentity, sentFile, serverRest>>

\* serve(): the peer has left, or the stream cannot be trusted any more.  A transfer
\* that this interrupts is logged as a failed command.
\* Faulty variant: a transfer does not look for the end of the stream.
ServeEndsIdle ==
  /\ state \in Serving
  /\ Read(Garbage) \/ (NothingMore /\ UNCHANGED up)
  /\ state' = "CLOSING"
  /\ UNCHANGED <<log, serverIdentity, sentFile, down, broken, serverRest>>
ServeEnds ==
  /\ state \in Serving \cup Transferring
  /\ Read(Garbage) \/ (NothingMore /\ UNCHANGED up)
  /\ state' = "CLOSING"
  /\ log' = IF state \in Transferring THEN log \o Done(Transfer, FALSE) ELSE log
  /\ UNCHANGED <<serverIdentity, sentFile, down, broken, serverRest>>

\* Between requests, a frame with an unknown opcode is answered and forgotten; one
\* with a USER_ID of somebody else is answered and ends the session.
RefuseFrame ==
  /\ state \in Serving
  /\ \/ /\ Read(Unknown)
        /\ Answer(<<Reply("ERROR", "UNKNOWN", userId)>>, state, <<>>, <<>>)
     \/ /\ Read(Opcodes) /\ Incoming.user # Expected
        /\ Answer(<<Reply("ERROR", Incoming.op, userId)>>, "CLOSING", <<>>, <<>>)
  /\ UNCHANGED <<serverIdentity, sentFile, serverRest>>

Accepts(op) == Read({op}) /\ Incoming.user = Expected /\ Incoming.good

\* _dispatch_authentication refuses; the session stays as it was.
RefuseLogin ==
  /\ state = "AUTHENTICATING"
  /\ Read(Opcodes) /\ Incoming.user = 0
  /\ Incoming.op # "LOGIN" \/ ~Incoming.good \/ Incoming.name \notin ServerNames
  /\ Answer(<<Reply("ERROR", Incoming.op, 0)>>, state, <<>>, <<>>)
  /\ UNCHANGED <<serverIdentity, sentFile, serverRest>>

\* _authenticate: the namespace cannot be made, the registry refuses, or the session
\* takes its identity and says so under the new USER_ID.
\* Faulty variant: the session takes the name before the registry has agreed.
AuthenticateFirst ==
  /\ state = "AUTHENTICATING"
  /\ Accepts("LOGIN") /\ Incoming.name \in ServerNames
  /\ username' = Incoming.name
  /\ \/ /\ \E why \in {"in_use", "capacity"} : Reg!Refuse(Me, Incoming.name, why)
        /\ Answer(<<Reply("ERROR", "LOGIN", 0)>>, state, <<>>, <<>>)
        /\ UNCHANGED userId
     \/ /\ Reg!Grant(Me, Incoming.name)
        /\ userId' = holds'[Me].userId
        /\ Answer(<<Reply("ACK", "LOGIN", userId')>>, "IDLE", <<>>, <<>>)
  /\ UNCHANGED <<clean, sentFile, peer, client, frames, faults, ends, halfClosed>>
Authenticate ==
  /\ state = "AUTHENTICATING"
  /\ Accepts("LOGIN") /\ Incoming.name \in ServerNames
  /\ \/ /\ \/ UNCHANGED registry
           \/ \E why \in {"in_use", "capacity"} : Reg!Refuse(Me, Incoming.name, why)
        /\ Answer(<<Reply("ERROR", "LOGIN", 0)>>, state, <<>>, <<>>)
        /\ UNCHANGED <<username, userId>>
     \/ /\ Reg!Grant(Me, Incoming.name)
        /\ username' = Incoming.name /\ userId' = holds'[Me].userId
        /\ Answer(<<Reply("ACK", "LOGIN", userId')>>, "IDLE", <<>>, <<>>)
  /\ UNCHANGED <<clean, sentFile, peer, client, frames, faults, ends, halfClosed>>

\* _dispatch refuses: a payload that says nothing, a second LOGIN, an opcode without
\* a handler.  Sending the ERROR may fail, and then nothing is logged.
RefuseRequest ==
  /\ state = "IDLE"
  /\ Read(Opcodes) /\ Incoming.user = userId
  /\ ~Incoming.good \/ Incoming.op \notin Requests
  /\ Answer(<<Reply("ERROR", Incoming.op, userId)>>, "IDLE", Done(Incoming.op, FALSE), <<>>)
  /\ UNCHANGED <<serverIdentity, sentFile, serverRest>>

\* Faulty variant: a failed listing is reported by the handler and by _dispatch.
HandleFileListTwice ==
  /\ state = "IDLE" /\ Accepts("FILE_LIST")
  /\ \/ Answer(<<Reply("FILE_LIST_RESP", "FILE_LIST", userId)>>, "IDLE",
               Done("FILE_LIST", TRUE), Done("FILE_LIST", FALSE))
     \/ Answer([i \in 1..2 |-> Reply("ERROR", "FILE_LIST", userId)], "IDLE",
               Done("FILE_LIST", FALSE), Done("FILE_LIST", FALSE))
  /\ UNCHANGED <<serverIdentity, sentFile, serverRest>>
\* handle_file_list answers, or raises for a file whose name no listing can hold, which
\* _dispatch then reports.
HandleFileList ==
  /\ state = "IDLE" /\ Accepts("FILE_LIST")
  /\ \/ \E op \in {"FILE_LIST_RESP", "ERROR"} :
          Answer(<<Reply(op, "FILE_LIST", userId)>>, "IDLE",
                 Done("FILE_LIST", op # "ERROR"), Done("FILE_LIST", FALSE))
     \/ Answer(<<Reply("ERROR", "FILE_LIST", userId)>>, "IDLE", Done("FILE_LIST", FALSE), <<>>)
  /\ UNCHANGED <<serverIdentity, sentFile, serverRest>>

HandleDisconnect ==
  /\ state = "IDLE" /\ Accepts("DISCONNECT")
  /\ Answer(<<Reply("ACK", "DISCONNECT", userId)>>, "CLOSING",
            Done("DISCONNECT", TRUE), Done("DISCONNECT", FALSE))
  /\ clean' = Last(log').success
  /\ UNCHANGED <<username, userId, sentFile, serverRest>>

\* begin_request, and the handler refuses or sends its first reply.
BeginTransfer ==
  /\ state = "IDLE"
  /\ \E op \in {"FILE_UPLOAD", "FILE_DOWNLOAD"} :
       /\ Accepts(op)
       /\ \/ Answer(<<Reply("ERROR", op, userId)>>, "IDLE", Done(op, FALSE), Done(op, FALSE))
          \/ /\ op = "FILE_UPLOAD"
             /\ Answer(<<Reply("ACK", op, userId)>>, "RECEIVING_UPLOAD", <<>>, Done(op, FALSE))
          \/ /\ op = "FILE_DOWNLOAD"
             /\ Answer(<<Reply("FILE_INFO", op, userId)>>, "SENDING_DOWNLOAD", <<>>,
                       Done(op, FALSE))
  /\ sentFile' = FALSE
  /\ UNCHANGED <<serverIdentity, serverRest>>

ReceiveChunk ==
  /\ state = "RECEIVING_UPLOAD" /\ Accepts("FILE_CHUNK")
  /\ UNCHANGED <<state, log, sentFile, serverIdentity, down, broken, serverRest>>

FinishUpload ==
  /\ state = "RECEIVING_UPLOAD" /\ Accepts("FILE_CHECKSUM")
  /\ \E op \in {"ACK", "ERROR"} :
       Answer(<<Reply(op, "FILE_UPLOAD", userId)>>, "IDLE",
              Done("FILE_UPLOAD", op = "ACK"), Done("FILE_UPLOAD", FALSE))
  /\ UNCHANGED <<sentFile, serverIdentity, serverRest>>

\* The file goes out, or has another size than announced, or a read of it fails: the
\* handler of that failure raises itself, which ends the session without a record.
SendFile ==
  /\ state = "SENDING_DOWNLOAD" /\ ~sentFile /\ Accepts("ACK")
  /\ \/ /\ Answer(<<Reply("FILE_CHUNK", "FILE_DOWNLOAD", userId),
                    Reply("FILE_CHECKSUM", "FILE_DOWNLOAD", userId)>>,
                  "SENDING_DOWNLOAD", <<>>, Done("FILE_DOWNLOAD", FALSE))
        /\ sentFile' = TRUE
     \/ /\ Answer(<<Reply("ERROR", "FILE_DOWNLOAD", userId)>>, "IDLE",
                  Done("FILE_DOWNLOAD", FALSE), Done("FILE_DOWNLOAD", FALSE))
        /\ UNCHANGED sentFile
     \/ state' = "CLOSING" /\ UNCHANGED <<sentFile, log, down, broken>>
  /\ UNCHANGED <<serverIdentity, serverRest>>

\* The client has confirmed the file, or given up the download: nothing is answered.
FinishDownload ==
  /\ state = "SENDING_DOWNLOAD"
  /\ \/ sentFile /\ Accepts("ACK")
     \/ Accepts("ERROR")
  /\ state' = "IDLE" /\ log' = log \o Done("FILE_DOWNLOAD", Incoming.op = "ACK")
  /\ UNCHANGED <<sentFile, serverIdentity, down, broken, serverRest>>

\* Whatever else can be framed ends the transfer with one ERROR and keeps the session:
\* an opcode out of place, an unreadable payload, a chunk or an acknowledgement that
\* does not fit, all noticed by the handler; and an unknown opcode or a wrong USER_ID,
\* noticed by receive() and reported by _dispatch, which does not log if that fails.
RefuseInTransfer ==
  /\ state \in Transferring
  /\ Read(Opcodes \cup Unknown)
  /\ ~ (state = "SENDING_DOWNLOAD" /\ Accepts("ERROR"))
  /\ Answer(<<Reply("ERROR", Transfer, userId)>>, "IDLE", Done(Transfer, FALSE),
            IF Incoming.op \in Opcodes /\ Incoming.user = userId
            THEN Done(Transfer, FALSE) ELSE <<>>)
  /\ UNCHANGED <<sentFile, serverIdentity, serverRest>>

\* socket.close(): what was not read is thrown away, and resets the connection.
CloseSocket ==
  /\ halfClosed' = TRUE /\ up' = <<>>
  /\ broken' = (broken \/ up # <<>>)

Close ==
  /\ state = "CLOSING"
  /\ state' = "CLOSED" /\ username' = None /\ userId' = 0
  /\ CloseSocket
  /\ UNCHANGED <<registry, peer, client, frames, faults, ends, down, clean, sentFile, log>>

Logged(event) == \E i \in DOMAIN log : log[i].event = event

\* The end of run(), for a connection that was given a session.
LogDisconnection ==
  /\ state = "CLOSED" /\ issued = Me /\ ~Logged("disconnection")
  /\ log' = Append(log, Record("disconnection", "none", clean))
  /\ UNCHANGED <<state, serverIdentity, sentFile, up, down, broken, serverRest>>

\* _run_client, when run() has returned.
\* Faulty variant: the identity is given back as soon as the socket is closed.
ReleaseEarly ==
  /\ state = "CLOSED" /\ Me \in DOMAIN holds
  /\ Reg!Leave(Me)
  /\ UNCHANGED <<peer, link, server, client, frames, faults>>
ReleaseIdentity ==
  /\ Logged("disconnection") /\ Me \in DOMAIN holds
  /\ Reg!Leave(Me)
  /\ UNCHANGED <<peer, link, server, client, frames, faults>>

--------------------------------------------------------------------------------
(* reject_busy: no session, but a handshake and an ERROR that names no request. *)

\* Faulty variant: the socket is closed as soon as the refusal is sent.
RejectAtOnce ==
  /\ state = "REJECTING"
  /\ \/ /\ Read({"PREFACE"})
        /\ Answer(<<Greeting, Reply("ERROR", "none", 0)>>, "CLOSING",
                  <<Record("connection", "none", FALSE)>>, <<>>)
     \/ /\ Read(Garbage) \/ (NothingMore /\ UNCHANGED up)
        /\ state' = "CLOSING" /\ UNCHANGED <<down, broken, log>>
  /\ UNCHANGED <<serverIdentity, sentFile, serverRest>>
RejectBusy ==
  /\ state = "REJECTING"
  /\ \/ /\ Read({"PREFACE"})
        /\ Answer(<<Greeting, Reply("ERROR", "none", 0)>>, "DRAINING",
                  <<Record("connection", "none", FALSE)>>, <<>>)
        /\ halfClosed' = (state' = "DRAINING")
     \/ /\ Read(Garbage) \/ (NothingMore /\ UNCHANGED up)
        /\ state' = "CLOSING" /\ UNCHANGED <<down, broken, log, halfClosed>>
  /\ UNCHANGED <<serverIdentity, sentFile, registry, peer, client, frames, faults, ends>>

\* _graceful_write_close: read what the peer may still send, until it leaves.
Drain ==
  /\ state = "DRAINING"
  /\ \/ /\ up # <<>> /\ up' = Tail(up) /\ UNCHANGED state
     \/ /\ NothingMore /\ state' = "CLOSING" /\ UNCHANGED up
  /\ UNCHANGED <<down, broken, log, serverIdentity, sentFile, serverRest>>

\* The rejected peer lets a second pass.
RejectTimesOut ==
  /\ state \in {"REJECTING", "DRAINING"} /\ up = <<>> /\ faults < MaxFaults
  /\ faults' = faults + 1
  /\ state' = "CLOSING"
  /\ UNCHANGED <<registry, peer, link, username, userId, clean, sentFile, log, client, frames>>

--------------------------------------------------------------------------------
(* The client of this repository: its thread, and the window closing it. *)

Waiting == call \in {"preface", "login", "listing", "leaving"}

clientRest == <<registry, peer, server, halfClosed, frames>>

\* close(abort=True) by the thread: nothing is left to close if the window came first.
EndCall(how, unread) ==
  /\ call' = "over" /\ result' = how
  /\ connected' = FALSE /\ authenticated' = FALSE /\ clientId' = 0
  /\ IF connected
     THEN ends' = "closed" /\ broken' = (broken \/ unread # <<>>) /\ down' = <<>>
     ELSE UNCHANGED <<ends, broken>> /\ down' = unread
  /\ UNCHANGED <<outgoing, chosen, closing, calls>>

Why == IF closing = "no" THEN "lost" ELSE "closed"

\* Send a frame and wait for its reply; like the server's sends, this may fail unseen.
Ask(frame, where, unread) ==
  LET sentOrLost == /\ connected
                    /\ call' = where /\ down' = unread
                    /\ UNCHANGED <<outgoing, chosen, connected, authenticated, clientId,
                                   closing, result, calls, ends>>
  IN \/ /\ ~broken /\ state # "CLOSED" /\ sentOrLost
        /\ up' = Append(up, frame) /\ UNCHANGED broken
     \/ /\ broken \/ state = "CLOSED"
        /\ sentOrLost /\ broken' = TRUE /\ UNCHANGED up
     \/ /\ broken \/ state = "CLOSED" \/ ~connected
        /\ EndCall(Why, unread) /\ UNCHANGED up

Connect ==
  /\ peer = "own" /\ call = "none"
  /\ chosen' \in Usernames
  /\ ends' = "open" /\ connected' = TRUE /\ call' = "preface"
  /\ up' = <<Preface>>
  /\ UNCHANGED <<outgoing, authenticated, clientId, closing, result, calls, down, broken,
                 faults, clientRest>>

\* A recv on a socket that the window has closed raises.
Hear(where) == call = where /\ down # <<>> /\ closing # "closed"
Heard == Head(down)

ReadPreface ==
  /\ Hear("preface")
  /\ Ask(Login(0, TRUE, chosen), "login", Tail(down))
  /\ UNCHANGED <<faults, clientRest>>

\* receive() takes the assigned USER_ID over before anything else looks at the frame.
ReadLoginReply ==
  /\ Hear("login")
  /\ \/ /\ Heard.op = "ACK" /\ Heard.of = "LOGIN" /\ Heard.user >= 1
        /\ clientId' = Heard.user /\ call' = "settling" /\ down' = Tail(down)
        /\ UNCHANGED <<outgoing, chosen, connected, authenticated, closing, result, calls,
                       ends, broken>>
     \/ /\ Heard.op = "ERROR"
        /\ EndCall(IF Heard.user = 0 THEN "refused" ELSE "lost", Tail(down))
  /\ UNCHANGED <<up, faults, clientRest>>

\* _complete_login, and settimeout, which fails once the socket is closed.
CompleteLogin ==
  /\ call = "settling"
  /\ \/ /\ clientId >= 1 /\ closing # "closed"
        /\ authenticated' = TRUE /\ call' = "ready" /\ result' = "connected"
        /\ UNCHANGED <<outgoing, chosen, connected, clientId, closing, calls, ends,
                       broken, down>>
     \/ /\ clientId = 0 \/ closing = "closed"
        /\ EndCall(Why, down)
  /\ UNCHANGED <<up, faults, clientRest>>

\* A request is made with the USER_ID of that moment, and checked when it is sent.
MakeRequest ==
  /\ call = "ready" /\ calls < MaxCalls
  /\ \E op \in {"FILE_LIST", "DISCONNECT"} : outgoing' = Frame(op, clientId, TRUE)
  /\ call' = (IF connected /\ authenticated THEN "sending" ELSE "over")
  /\ result' = (IF call' = "over" THEN "closed" ELSE "none")
  /\ calls' = calls + 1
  /\ UNCHANGED <<chosen, connected, authenticated, clientId, closing, link, faults,
                 clientRest>>

SendRequest ==
  /\ call = "sending"
  /\ IF authenticated /\ outgoing.user = clientId
     THEN Ask(outgoing, IF outgoing.op = "FILE_LIST" THEN "listing" ELSE "leaving", down)
     ELSE EndCall(Why, down) /\ UNCHANGED up
  /\ UNCHANGED <<faults, clientRest>>

\* _validate_incoming_user_id.
Addressed ==
  IF ~authenticated /\ Heard.op = "ERROR" THEN Heard.user = 0 ELSE Heard.user = clientId

\* list_files() keeps the session, whatever the answer.
ReadListReply ==
  /\ Hear("listing") /\ Addressed
  /\ call' = "ready" /\ down' = Tail(down)
  /\ result' = (IF Heard.op = "FILE_LIST_RESP" THEN "listed" ELSE "declined")
  /\ UNCHANGED <<outgoing, chosen, connected, authenticated, clientId, closing, calls,
                 up, ends, broken, faults, clientRest>>

\* disconnect() closes, whatever the answer.
ReadDisconnectReply ==
  /\ Hear("leaving") /\ Addressed
  /\ EndCall(IF Heard.op = "ACK" /\ Heard.of = "DISCONNECT" THEN "left" ELSE "lost",
             Tail(down))
  /\ UNCHANGED <<up, faults, clientRest>>

\* A reply to another USER_ID, which may also be one the window's close() has reset.
ReadForeignReply ==
  /\ Hear("listing") \/ Hear("leaving")
  /\ ~Addressed
  /\ EndCall(Why, Tail(down))
  /\ UNCHANGED <<up, faults, clientRest>>

CallFails ==
  /\ Waiting
  /\ broken \/ (down = <<>> /\ halfClosed) \/ closing = "closed"
  /\ EndCall(Why, down)
  /\ UNCHANGED <<up, faults, clientRest>>

\* connect_timeout_ms; there is none after connect().
CallTimesOut ==
  /\ call \in {"preface", "login"} /\ faults < MaxFaults
  /\ faults' = faults + 1
  /\ EndCall(Why, down)
  /\ UNCHANGED <<up, clientRest>>

\* close() by the window's thread: the socket is taken, the identity forgotten, the
\* connection closed.
WindowTakesSocket ==
  /\ connected /\ closing = "no"
  /\ closing' = "taken" /\ connected' = FALSE
  /\ UNCHANGED <<call, outgoing, chosen, authenticated, clientId, result, calls, link,
                 faults, server, registry, peer, frames>>

WindowForgets ==
  /\ closing = "taken" /\ closing' = "forgotten"
  /\ authenticated' = FALSE /\ clientId' = 0
  /\ UNCHANGED <<call, outgoing, chosen, connected, result, calls, link, faults, server,
                 registry, peer, frames>>

WindowClosesSocket ==
  /\ closing = "forgotten" /\ closing' = "closed"
  /\ ends' = "closed" /\ broken' = (broken \/ down # <<>>) /\ down' = <<>>
  /\ UNCHANGED <<call, outgoing, chosen, connected, authenticated, clientId, result,
                 calls, up, faults, clientRest>>

--------------------------------------------------------------------------------
(* Everything else: another program as the peer, the network, other sessions. *)

UserIds == 0..MaxUserId
AnyFrame ==
  {Frame(op, user, good) : op \in (Opcodes \ {"LOGIN"}) \cup Unknown,
                           user \in UserIds, good \in BOOLEAN}
    \cup {Login(user, TRUE, n) : user \in UserIds, n \in Usernames}
    \cup {Login(0, FALSE, None), Frame("GARBAGE", 0, FALSE)}

PeerConnects ==
  /\ peer = "foreign" /\ ends = "none" /\ ends' = "open"
  /\ up' \in {<<Preface>>, <<Frame("GARBAGE", 0, FALSE)>>}
  /\ UNCHANGED <<registry, peer, server, client, down, halfClosed, broken, frames, faults>>

PeerSends ==
  /\ peer = "foreign" /\ ends = "open" /\ ~broken /\ state # "CLOSED"
  /\ frames < MaxFrames /\ Len(up) < Window
  /\ frames' = frames + 1
  /\ \E f \in AnyFrame : up' = Append(up, f)
  /\ UNCHANGED <<registry, peer, server, client, down, ends, halfClosed, broken, faults>>

\* Data it has not read resets the connection.
PeerLeaves ==
  /\ peer = "foreign" /\ ends = "open" /\ ends' = "closed"
  /\ broken' \in {broken, TRUE}
  /\ UNCHANGED <<registry, peer, server, client, up, down, halfClosed, frames, faults>>

\* For another program this is PeerLeaves.
ConnectionBreaks ==
  /\ peer = "own" /\ ends = "open" /\ ~broken /\ faults < MaxFaults
  /\ broken' = TRUE /\ faults' = faults + 1
  /\ UNCHANGED <<registry, peer, server, client, up, down, ends, halfClosed, frames>>

RivalMoves ==
  /\ \/ \E n \in Usernames : Reg!Grant(Rival, n)
     \/ Reg!Leave(Rival)
  /\ UNCHANGED <<peer, link, server, client, frames, faults>>

ServerStep ==
  \/ PerformHandshake \/ ServeEnds \/ RefuseFrame \/ RefuseLogin \/ Authenticate
  \/ RefuseRequest \/ HandleFileList \/ HandleDisconnect
  \/ BeginTransfer \/ ReceiveChunk \/ FinishUpload \/ SendFile \/ FinishDownload
  \/ RefuseInTransfer
  \/ Close \/ LogDisconnection \/ ReleaseIdentity
  \/ RejectBusy \/ Drain

ClientStep ==
  \/ ReadPreface \/ ReadLoginReply \/ CompleteLogin \/ SendRequest
  \/ ReadListReply \/ ReadDisconnectReply \/ ReadForeignReply \/ CallFails

WindowStep == WindowForgets \/ WindowClosesSocket

Next ==
  \/ ServerStep \/ RejectTimesOut
  \/ ClientStep \/ Connect \/ MakeRequest \/ CallTimesOut
  \/ WindowStep \/ WindowTakesSocket
  \/ PeerConnects \/ PeerSends \/ PeerLeaves \/ ConnectionBreaks \/ RivalMoves

\* The threads run.  Nobody has to connect, make a request, send or leave, and no
\* deadline has to pass.
Spec ==
  /\ Init /\ [][Next]_vars
  /\ WF_vars(ServerStep) /\ WF_vars(ClientStep) /\ WF_vars(WindowStep)

--------------------------------------------------------------------------------
(* Properties. *)

\* While a session is served, it acts under the identity the registry has for it, and
\* a client that takes itself for logged in has the same one.  No frame of the
\* client, however its window's close() comes in between, carries another USER_ID
\* than the session expects.
IdentitiesAgree ==
  state \in Serving \cup Transferring =>
    /\ holds[Me] = [username |-> username, userId |-> userId]
    /\ connected /\ authenticated => clientId = userId /\ chosen = username
    /\ peer = "own" /\ up # <<>> => Head(up).user = Expected

\* The replies under way to the client are those of the call that waits for them, and
\* none more: a frame too many would be read as the reply to the next request.
InStep ==
  connected =>
    CASE call = "preface" -> down \in {<<>>, <<Greeting>>, <<Greeting, Reply("ERROR", "none", 0)>>}
      [] call = "login" -> \/ down = <<>>
                           \/ Len(down) = 1 /\ Heard.of \in {"LOGIN", "none"}
      [] call = "listing" -> down = <<>> \/ (Len(down) = 1 /\ Heard.of = "FILE_LIST")
      [] call = "leaving" -> down = <<>> \/ (Len(down) = 1 /\ Heard.of = "DISCONNECT")
      [] OTHER -> down = <<>>

\* The client is told why: unless the network or a deadline fails it, or its window
\* closes the session, no call ends in a lost connection; a busy server's answer is
\* read although the LOGIN it did not wait for is never read as one.
LossNeedsFault == result = "lost" => faults > 0

Commands == {i \in DOMAIN log : log[i].event = "command"}

\* The log of a connection begins with the connection and ends with at most one
\* disconnection; all it did is under the name it logged in with, the disconnection
\* too; and the disconnection is clean exactly if the last command was a DISCONNECT
\* that was answered, which is what a client told so can rely on.
LogTellsTheSession ==
  /\ \A i \in DOMAIN log :
       /\ log[i].event = "connection" <=> i = 1
       /\ log[i].event = "disconnection" => i = Len(log)
       /\ i \in Commands => log[i].user # None
  /\ \A i \in DOMAIN log, j \in Commands :
       log[i].event # "connection" => log[i].user = log[j].user
  /\ Logged("disconnection") =>
       /\ Last(log).success <=>
            \E i \in Commands : log[i].op = "DISCONNECT" /\ log[i].success
       /\ result = "left" => Last(log).success

\* Every call of the client ends, and once the other end has gone the session is
\* closed, logged and its identity free for others, whatever was going on.
BothEndsFinish ==
  /\ Waiting ~> ~Waiting
  /\ ends = "closed" ~> (state = "CLOSED" /\ Me \notin DOMAIN holds)
================================================================================
