----------------------------- MODULE ClientWorkers -----------------------------
(***************************************************************************)
(* server/app.py: the accept loop of serve_forever and the worker threads  *)
(* of ClientWorkerGroup, composed with the session registry (Registry) and *)
(* with what the filename locks promise (KeyedMutex).  A connection is     *)
(* accepted, admitted into a bounded number of slots or rejected, served   *)
(* by a thread of its own, and taken apart step by step; Ctrl-C or a       *)
(* failure of the accept loop shuts everything down.                       *)
(***************************************************************************)
EXTENDS Integers, FiniteSets

CONSTANTS
  Conns,            \* bound: the connections peers ever open
  MaxClients,       \* config.server.max_clients
  Usernames, None, MaxUserId,
  Files,            \* filenames requests refer to
  InterruptPoints,  \* where the main thread is when Ctrl-C arrives
  MaxInterrupts     \* bound: how often Ctrl-C is pressed

\* BoundedSemaphore(max_clients); the configuration requires at least one.
ASSUME WorkersAssumption ==
  /\ IsFiniteSet(Conns)
  /\ MaxClients \in Nat \ {0}
  /\ MaxInterrupts \in Nat

VARIABLES
  sessions, owners, nextSessionId, nextUserId, freeUserIds, outcome,
  inside,      \* the filename locks: pairs <<connection, <<username, file>>>>
  main,        \* where the main thread is in serve_forever
  current,     \* accepted_socket of the main thread
  slots,       \* _slots: free places of the semaphore
  workers,     \* _workers: the listed worker threads
  joining,     \* close(): the snapshot of the workers to join
  graceful,    \* graceful_stop
  logger,      \* "open" or "closed"
  interrupts,  \* how often Ctrl-C was pressed
  link,        \* each connection: not opened yet, up, or down
  pc,          \* where each worker thread is
  session,     \* registry_session_id of each worker, 0 before registration
  file         \* the file of the current request of each worker

registry == <<sessions, owners, nextSessionId, nextUserId, freeUserIds, outcome>>
mainVars == <<main, current, joining, graceful, logger, interrupts>>
workerVars == <<link, pc, session, file>>
vars == <<registry, inside, mainVars, slots, workers, workerVars>>

Reg == INSTANCE Registry WITH MaxSessions <- Cardinality(Conns)

\* What the registry requires of the constants it shares with this module.
ASSUME SharedAssumption ==
  /\ None \notin Usernames
  /\ MaxUserId \in 1..Reg!MAX_USER_ID

Locks == INSTANCE KeyedMutex WITH Threads <- Conns, Keys <- Usernames \X Files

Init ==
  /\ Reg!Init
  /\ Locks!Init
  /\ main = "accepting" /\ current = None
  /\ slots = MaxClients
  /\ workers = {} /\ joining = {}
  /\ graceful = FALSE /\ logger = "open" /\ interrupts = 0
  /\ link = [c \in Conns |-> "unopened"]
  /\ pc = [c \in Conns |-> "none"]
  /\ session = [c \in Conns |-> 0]
  /\ file = [c \in Conns |-> None]

Goto(c, where) == pc' = [pc EXCEPT ![c] = where]

-------------------------------------------------------------------------------
(* The main thread: accept, admit or reject.                               *)

Accept(c) ==
  /\ main = "accepting" /\ link[c] = "unopened"
  /\ link' = [link EXCEPT ![c] = "up"]
  /\ current' = c
  /\ \/ slots > 0 /\ slots' = slots - 1 /\ main' = "admitting"
     \/ slots = 0 /\ UNCHANGED slots /\ main' = "rejecting"
  /\ UNCHANGED <<registry, inside, joining, graceful, logger, interrupts, workers,
                 pc, session, file>>

\* start(), line 69: list the worker, still without a running thread.
ListWorker ==
  /\ main = "admitting"
  /\ workers' = workers \cup {current}
  /\ main' = "starting"
  /\ UNCHANGED <<registry, inside, current, joining, graceful, logger, interrupts,
                 slots, workerVars>>

\* worker.start() has created the thread but has not returned yet.
StartWorker ==
  /\ main = "starting"
  /\ Goto(current, "started")
  /\ main' = "launching"
  /\ UNCHANGED <<registry, inside, current, joining, graceful, logger, interrupts,
                 slots, workers, link, session, file>>

StartReturns ==
  /\ main = "launching"
  /\ main' = "accepting" /\ current' = None
  /\ UNCHANGED <<registry, inside, joining, graceful, logger, interrupts, slots,
                 workers, workerVars>>

\* start() leaves through "except BaseException": unlist, free the slot, close.
UndoStart ==
  /\ workers' = workers \ {current}
  /\ slots' = slots + 1
  /\ link' = [link EXCEPT ![current] = "down"]

\* worker.start() raises, and the exception ends the accept loop.
\* Faulty variant: the slot is not given back.
StartFailsKeepSlot ==
  /\ main = "starting"
  /\ workers' = workers \ {current}
  /\ link' = [link EXCEPT ![current] = "down"]
  /\ main' = "stopping" /\ current' = None
  /\ UNCHANGED <<registry, inside, joining, graceful, logger, interrupts, slots,
                 pc, session, file>>
StartFails ==
  /\ main = "starting"
  /\ UndoStart
  /\ main' = "stopping" /\ current' = None
  /\ UNCHANGED <<registry, inside, joining, graceful, logger, interrupts,
                 pc, session, file>>

\* reject_busy: the accept loop stands still until the rejected peer has gone, or has
\* let a second pass in silence.
RejectReturns ==
  /\ link' = [link EXCEPT ![current] = "down"]
  /\ main' = "accepting" /\ current' = None
  /\ UNCHANGED <<registry, inside, joining, graceful, logger, interrupts, slots,
                 workers, pc, session, file>>
\* Faulty variant: only silence ends the draining, not the end of the stream.
RejectUntilSilent ==
  /\ main = "rejecting" /\ link[current] = "up"
  /\ RejectReturns
RejectGone ==
  /\ main = "rejecting" /\ link[current] = "down"
  /\ RejectReturns
RejectSilent ==
  /\ main = "rejecting" /\ link[current] = "up"
  /\ RejectReturns

\* accept() itself fails: not a KeyboardInterrupt, so not a graceful stop.
AcceptFails ==
  /\ main = "accepting"
  /\ main' = "stopping"
  /\ UNCHANGED <<registry, inside, current, joining, graceful, logger, interrupts,
                 slots, workers, workerVars>>

-------------------------------------------------------------------------------
(* The main thread: shutdown.                                              *)

\* Ctrl-C anywhere in the accept loop is a graceful stop.  An accepted socket that
\* is not listed yet is dropped, with its slot if it had one; a listed one stays
\* listed without a thread, or start() is undone, even under a running thread.  If
\* that thread has returned the last slot already, the undo itself raises, and the
\* stop is no longer the graceful one.
InterruptLoop ==
  /\ \/ /\ main \in {"accepting", "admitting", "rejecting"}
        /\ link' = [c \in Conns |-> IF c = current THEN "down" ELSE link[c]]
        /\ UNCHANGED <<workers, slots>> /\ graceful' = TRUE
     \/ main = "starting" /\ UNCHANGED <<workers, slots, link>> /\ graceful' = TRUE
     \/ /\ main \in {"starting", "launching"} /\ slots < MaxClients
        /\ UndoStart /\ graceful' = TRUE
     \/ /\ main = "launching" /\ slots = MaxClients
        /\ UNCHANGED <<workers, slots, link, graceful>>
  /\ main' = "stopping" /\ UNCHANGED logger

\* Ctrl-C in the finally block leaves it: no snapshot is taken, or the sockets and the
\* joins that are left are abandoned.  Later it may keep the logger from being closed.
InterruptShutdown ==
  /\ \/ main \in {"stopping", "aborting", "joining"} /\ main' = "joined" /\ UNCHANGED logger
     \/ main = "joined" /\ main' = "stopped" /\ logger' \in {"open", "closed"}
  /\ UNCHANGED <<graceful, link, slots, workers>>

Interrupt ==
  /\ interrupts < MaxInterrupts /\ main \in InterruptPoints
  /\ interrupts' = interrupts + 1
  /\ InterruptLoop \/ InterruptShutdown
  /\ current' = None
  /\ UNCHANGED <<registry, inside, joining, pc, session, file>>

\* listener.close(), then close(): raise the flag and snapshot the workers.
BeginClose ==
  /\ main = "stopping"
  /\ joining' = workers
  /\ main' = IF graceful THEN "joining" ELSE "aborting"
  /\ UNCHANGED <<registry, inside, current, graceful, logger, interrupts, slots,
                 workers, workerVars>>

\* abort_active: shut down and close one more of the snapshot's sockets.
\* Faulty variant: a thread that has not registered yet is skipped.
AbortOneRegistered ==
  /\ main = "aborting"
  /\ \/ \E c \in joining : /\ link[c] = "up" /\ session[c] # 0
                           /\ link' = [link EXCEPT ![c] = "down"]
                           /\ UNCHANGED main
     \/ /\ \A c \in joining : link[c] = "down" \/ session[c] = 0
        /\ main' = "joining" /\ UNCHANGED link
  /\ UNCHANGED <<registry, inside, current, joining, graceful, logger, interrupts,
                 slots, workers,
                 pc, session, file>>
AbortOne ==
  /\ main = "aborting"
  /\ \/ \E c \in joining : /\ link[c] = "up"
                           /\ link' = [link EXCEPT ![c] = "down"]
                           /\ UNCHANGED main
     \/ /\ \A c \in joining : link[c] = "down"
        /\ main' = "joining" /\ UNCHANGED link
  /\ UNCHANGED <<registry, inside, current, joining, graceful, logger, interrupts,
                 slots, workers,
                 pc, session, file>>

\* Every join returned.  Joining a thread that was listed but never started
\* raises, after the joins of the workers listed before it; both ways the
\* next statement executed closes the logger.
\* Faulty variant: the workers are not joined.
JoinNobody ==
  /\ main = "joining"
  /\ main' = "joined"
  /\ UNCHANGED <<registry, inside, current, joining, graceful, logger, interrupts,
                 slots, workers, workerVars>>
JoinAll ==
  /\ main = "joining"
  /\ \A c \in joining : pc[c] \in {"gone", "none"}
  /\ main' = "joined"
  /\ UNCHANGED <<registry, inside, current, joining, graceful, logger, interrupts,
                 slots, workers, workerVars>>

CloseLogger ==
  /\ main = "joined"
  /\ logger' = "closed"
  /\ main' = "stopped"
  /\ UNCHANGED <<registry, inside, current, joining, graceful, interrupts, slots,
                 workers, workerVars>>

-------------------------------------------------------------------------------
(* A worker thread: _run_client around ServerSession.run.                  *)

RegisterWorker(c) ==
  /\ pc[c] = "started"
  /\ session' = [session EXCEPT ![c] = nextSessionId]
  /\ Reg!RegisterSession
  /\ Goto(c, "handshaking")
  /\ UNCHANGED <<inside, mainVars, slots, workers, link, file>>

Handshake(c) ==
  /\ pc[c] = "handshaking" /\ link[c] = "up"
  /\ Goto(c, "authenticating")
  /\ UNCHANGED <<registry, inside, mainVars, slots, workers, link, session, file>>

\* _authenticate: a refused claim is answered with ERROR and LOGIN may be retried.
Login(c, n) ==
  /\ pc[c] = "authenticating" /\ link[c] = "up"
  /\ Reg!ClaimUsername(session[c], n)
  /\ Goto(c, IF outcome'.result = "granted" THEN "idle" ELSE "authenticating")
  /\ UNCHANGED <<inside, mainVars, slots, workers, link, session, file>>

\* filename_namespace: the username the registry has for the session now.
LockKey(c) == <<sessions[session[c]].username, file[c]>>

BeginRequest(c, f) ==
  /\ pc[c] = "idle" /\ link[c] = "up"
  /\ file' = [file EXCEPT ![c] = f]
  /\ Goto(c, "locking")
  /\ UNCHANGED <<registry, inside, mainVars, slots, workers, link, session>>

EnterBody(c) ==
  /\ pc[c] = "locking"
  /\ Locks!Enter(c, LockKey(c))
  /\ Goto(c, "busy")
  /\ UNCHANGED <<registry, mainVars, slots, workers, link, session, file>>

EndRequest(c) ==
  /\ pc[c] = "busy" /\ link[c] = "up"
  /\ Locks!Leave(c, LockKey(c))
  /\ file' = [file EXCEPT ![c] = None]
  /\ Goto(c, "idle")
  /\ UNCHANGED <<registry, mainVars, slots, workers, link, session>>

\* The session ends: DISCONNECT, a peer that is gone, an unsynchronized stream.
\* A request under way leaves its filename lock before anything else happens.
\* Faulty variants: the lock is kept; a failing request does not end the session.
EndSessionKeepLock(c) ==
  /\ pc[c] \in {"handshaking", "authenticating", "idle", "busy"}
  /\ file' = [file EXCEPT ![c] = None]
  /\ Goto(c, "ended")
  /\ UNCHANGED <<registry, inside, mainVars, slots, workers, link, session>>
EndSessionUnlessBusy(c) ==
  /\ pc[c] \in {"handshaking", "authenticating", "idle"}
  /\ Goto(c, "ended")
  /\ UNCHANGED <<registry, inside, mainVars, slots, workers, link, session, file>>
EndSession(c) ==
  /\ pc[c] \in {"handshaking", "authenticating", "idle", "busy"}
  /\ inside' = {p \in inside : p[1] # c}
  /\ file' = [file EXCEPT ![c] = None]
  /\ Goto(c, "ended")
  /\ UNCHANGED <<registry, mainVars, slots, workers, link, session>>

SessionNoticesLoss(c) == link[c] = "down" /\ EndSession(c)
SessionStops(c) == link[c] = "up" /\ EndSession(c)

\* ServerSession.close: the socket is closed, then the disconnection is logged.
CloseSession(c) ==
  /\ pc[c] = "ended"
  /\ link' = [link EXCEPT ![c] = "down"]
  /\ Goto(c, "closed")
  /\ UNCHANGED <<registry, inside, mainVars, slots, workers, session, file>>

\* Faulty variant: the identity is released only if the worker logged in.
ReleaseNamed(c) ==
  /\ pc[c] = "closed"
  /\ IF sessions[session[c]].username # None THEN Reg!ReleaseSession(session[c])
                                             ELSE UNCHANGED registry
  /\ Goto(c, "released")
  /\ UNCHANGED <<inside, mainVars, slots, workers, link, session, file>>
ReleaseIdentity(c) ==
  /\ pc[c] = "closed"
  /\ Reg!ReleaseSession(session[c])
  /\ Goto(c, "released")
  /\ UNCHANGED <<inside, mainVars, slots, workers, link, session, file>>

Unlist(c) ==
  /\ pc[c] = "released"
  /\ workers' = workers \ {c}
  /\ Goto(c, "unlisted")
  /\ UNCHANGED <<registry, inside, mainVars, slots, link, session, file>>

\* BoundedSemaphore.release raises at its initial value; the thread ends anyway.
ReturnSlot(c) ==
  /\ pc[c] = "unlisted"
  /\ slots' = IF slots < MaxClients THEN slots + 1 ELSE slots
  /\ Goto(c, "gone")
  /\ UNCHANGED <<registry, inside, mainVars, workers, link, session, file>>

\* The peer closes, or the network does.
PeerLeaves(c) ==
  /\ link[c] = "up"
  /\ link' = [link EXCEPT ![c] = "down"]
  /\ UNCHANGED <<registry, inside, mainVars, slots, workers, pc, session, file>>

-------------------------------------------------------------------------------
MainStep == ListWorker \/ StartWorker \/ StartReturns \/ RejectGone \/ BeginClose
            \/ AbortOne \/ JoinAll \/ CloseLogger

WorkerStep(c) ==
  \/ RegisterWorker(c) \/ EnterBody(c) \/ SessionNoticesLoss(c) \/ CloseSession(c)
  \/ ReleaseIdentity(c) \/ Unlist(c) \/ ReturnSlot(c)

Environment(c) ==
  \/ Accept(c) \/ PeerLeaves(c) \/ Handshake(c) \/ SessionStops(c) \/ EndRequest(c)
  \/ \E n \in Usernames : Login(c, n)
  \/ \E f \in Files : BeginRequest(c, f)

Next ==
  \/ MainStep \/ StartFails \/ AcceptFails \/ RejectSilent \/ Interrupt
  \/ \E c \in Conns : WorkerStep(c) \/ Environment(c)

Spec == Init /\ [][Next]_vars

\* Threads that can run do run.  Peers owe nothing: they may stay idle for ever, or
\* stay and keep sending to a server that rejects them, which never lets a second pass
\* in silence; and Ctrl-C may never be pressed.
FairSpec == Spec /\ WF_vars(MainStep) /\ \A c \in Conns : WF_vars(WorkerStep(c))

-------------------------------------------------------------------------------
MainStates == {"accepting", "admitting", "starting", "launching", "rejecting",
               "stopping", "aborting", "joining", "joined", "stopped"}
Registered == {"handshaking", "authenticating", "idle", "locking", "busy", "ended",
               "closed"}
WorkerStates == Registered \cup {"none", "started", "released", "unlisted", "gone"}

\* Every variable has its type; the free slots stay within 0..max_clients.
TypeOK ==
  /\ Reg!TypeOK
  /\ inside \subseteq Conns \X (Usernames \X Files)
  /\ main \in MainStates /\ current \in Conns \cup {None}
  /\ slots \in 0..MaxClients
  /\ workers \subseteq Conns /\ joining \subseteq Conns
  /\ graceful \in BOOLEAN /\ logger \in {"open", "closed"}
  /\ interrupts \in 0..MaxInterrupts
  /\ link \in [Conns -> {"unopened", "up", "down"}]
  /\ pc \in [Conns -> WorkerStates]
  /\ session \in [Conns -> 0..Cardinality(Conns)]
  /\ file \in [Conns -> Files \cup {None}]

\* Connections that occupy a place of the semaphore.
Occupants == {c \in Conns : \/ c \in workers
                            \/ pc[c] = "unlisted"
                            \/ c = current /\ main = "admitting"}

\* While the server accepts, no slot is lost or given back twice on any path through
\* admission, failure and exit.  (After a Ctrl-C no slot is taken any more.)
SlotsAccounted == graceful \/ slots + Cardinality(Occupants) = MaxClients

\* The registry holds exactly the sessions of workers between registration and
\* release: a finished connection keeps neither its session, name nor USER_ID.
RegistryMirrorsWorkers ==
  /\ DOMAIN sessions = {session[c] : c \in {d \in Conns : pc[d] \in Registered}}
  /\ \A c, d \in Conns : c # d /\ session[c] = session[d] => session[c] = 0

\* A request never waits for its filename lock: the name it is keyed by is held
\* by one session, and a session gives up its locks before its name.
RequestsNeverContend ==
  \A c \in Conns : pc[c] = "locking" =>
    \A p \in inside : p[1] # c /\ p[2] # LockKey(c)

\* A worker that has left _workers is not joined any more; all it has left to do is
\* to return its slot.
Running == {c \in Conns : pc[c] \notin {"none", "unlisted", "gone"}}

\* A shutdown without Ctrl-C leaves no worker running when it closes the logger, and
\* one that a single Ctrl-C began leaves at most the worker whose start it hit.
ShutdownJoins ==
  logger = "closed" /\ interrupts \in (IF graceful THEN 0..1 ELSE {0}) =>
    Cardinality(Running) <= interrupts

\* A worker whose connection is lost gives its slot back, wherever it was.
SlotReturned ==
  \A c \in Conns : (pc[c] # "none" /\ link[c] = "down") ~> (pc[c] = "gone")

\* The main thread always comes back to accept(), unless something stops the server
\* on the way: once a rejected peer has gone, nothing keeps the other clients out.
AcceptLoopResumes ==
  (main \in {"admitting", "starting", "launching"}
     \/ (main = "rejecting" /\ link[current] = "down"))
  ~> (main \notin {"admitting", "starting", "launching", "rejecting"})

\* Shutdown after a failure ends although peers stay connected and idle; a graceful
\* one ends once the peers have left.
ShutdownCompletes ==
  /\ (main = "aborting") ~> (main = "stopped")
  /\ (main = "joining" /\ \A c \in joining : link[c] = "down") ~> (main = "stopped")
===============================================================================
