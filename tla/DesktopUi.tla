-------------------------------- MODULE DesktopUi --------------------------------
(***************************************************************************)
(* ui/app.py and ui/worker.py: the desktop client.  The Tk thread reacts   *)
(* to clicks and to the events it polls; one background thread runs the    *)
(* submitted operations in order and reports their outcome as events that  *)
(* carry the name of the task but not the session it was for.  The two     *)
(* threads share the client sessions: the Tk thread closes them while the  *)
(* background thread uses them.                                            *)
(* Progress events only draw, and are left out.                            *)
(***************************************************************************)
EXTENDS Integers, Sequences, FiniteSets

CONSTANTS
  Transfers,    \* the transfer tasks in use: "upload", "download"
  MaxConnects,  \* bound: how often the user connects
  Nothing       \* no session, no transfer, no task

Apis == 1..MaxConnects
FileTasks == Transfers \cup {"refresh"}
TaskNames == FileTasks \cup {"connect", "disconnect", "stop"}
Task == [name : TaskNames, api : Apis \cup {Nothing}]

ASSUME UiAssumption ==
  /\ Transfers \subseteq {"upload", "download"}
  /\ MaxConnects \in Nat \ {0}
  /\ Nothing \notin Apis /\ Nothing \notin Transfers /\ Nothing \notin Task

VARIABLES
  api,         \* the ClientApi the window holds
  pending,     \* _file_task_pending
  active,      \* _active_transfer: the transfer on display
  cancelling,  \* _cancel_requested
  dialog,      \* the transfer whose file dialog is open
  closing,     \* _closing
  buttons,     \* connection_view: "offline" offers Connect, "online" Disconnect,
               \* "busy" neither
  filesOn,     \* file_view accepts Refresh, Upload and Download
  cancelOn,    \* transfer_view accepts Cancel
  tasks,       \* _tasks of the worker
  running,     \* the task its thread executes
  events,      \* the events for the Tk thread
  session,     \* the ClientSession of each ClientApi: no socket yet, "open",
               \* "authenticated", or "closed"
  connects,    \* how many ClientApis were made
  polling      \* _poll_worker is handling events, until it finds none

window == <<api, pending, active, cancelling, dialog, closing, connects, polling>>
views == <<buttons, filesOn, cancelOn>>
worker == <<tasks, running, events>>
uiVars == <<window, views, worker, session>>

UiInit ==
  /\ api = Nothing /\ pending = FALSE /\ active = Nothing /\ cancelling = Nothing
  /\ dialog = Nothing /\ closing = FALSE /\ connects = 0
  /\ polling = FALSE
  /\ buttons = "offline" /\ filesOn = FALSE /\ cancelOn = FALSE
  /\ tasks = <<>> /\ running = Nothing /\ events = <<>>
  /\ session = [a \in Apis |-> "fresh"]

Connected(a) == a # Nothing /\ session[a] \in {"open", "authenticated"}
Authenticated(a) == a # Nothing /\ session[a] = "authenticated"

\* ClientSession.close: without a socket, there is nothing it can close.
Closed(a) ==
  IF Connected(a) THEN [session EXCEPT ![a] = "closed"] ELSE session

Submit(name, a) == tasks' = Append(tasks, [name |-> name, api |-> a])

-------------------------------------------------------------------------------
(* Clicks.  The user cannot click while events are handled, nor elsewhere   *)
(* than in a file dialog that is open.                                     *)

Responsive == dialog = Nothing /\ ~closing /\ ~polling

Connect ==
  /\ Responsive /\ buttons = "offline" /\ api = Nothing /\ connects < MaxConnects
  /\ connects' = connects + 1
  /\ api' = connects + 1
  /\ buttons' = "busy" /\ filesOn' = FALSE
  /\ Submit("connect", connects + 1)
  /\ UNCHANGED <<pending, active, cancelling, dialog, closing, polling, cancelOn,
                 running, events, session>>

\* Faulty variant: the button stays enabled.
DisconnectAgain ==
  /\ Responsive /\ buttons = "online" /\ Connected(api)
  /\ filesOn' = FALSE
  /\ Submit("disconnect", api)
  /\ UNCHANGED <<window, buttons, cancelOn, running, events, session>>
Disconnect ==
  /\ Responsive /\ buttons = "online" /\ Connected(api)
  /\ buttons' = "busy" /\ filesOn' = FALSE
  /\ Submit("disconnect", api)
  /\ UNCHANGED <<window, cancelOn, running, events, session>>

\* Also bound to F5, which works while the buttons are disabled.
Refresh ==
  /\ Responsive /\ Authenticated(api) /\ ~pending
  /\ pending' = TRUE /\ filesOn' = FALSE
  /\ Submit("refresh", api)
  /\ UNCHANGED <<api, active, cancelling, dialog, closing, connects, polling,
                 buttons, cancelOn, running, events, session>>

\* upload_file and download_file up to the file dialog, which keeps polling.
OpenDialog(t) ==
  /\ Responsive /\ filesOn /\ Authenticated(api) /\ ~pending
  /\ dialog' = t
  /\ UNCHANGED <<api, pending, active, cancelling, closing, connects, polling,
                 views, worker, session>>

DismissDialog ==
  /\ dialog # Nothing /\ ~polling
  /\ dialog' = Nothing
  /\ UNCHANGED <<api, pending, active, cancelling, closing, connects, polling,
                 views, worker, session>>

\* Nothing that was checked before the dialog is checked again.
StartTransfer ==
  /\ dialog # Nothing /\ ~polling
  /\ dialog' = Nothing
  /\ pending' = TRUE /\ active' = dialog
  /\ buttons' = "busy" /\ filesOn' = FALSE /\ cancelOn' = TRUE
  /\ Submit(dialog, api)
  /\ UNCHANGED <<api, cancelling, closing, connects, polling, running, events,
                 session>>

Cancel ==
  /\ Responsive /\ cancelOn /\ api # Nothing /\ active # Nothing /\ cancelling = Nothing
  /\ cancelling' = active
  /\ cancelOn' = FALSE /\ buttons' = "busy" /\ filesOn' = FALSE
  /\ session' = Closed(api)
  /\ UNCHANGED <<api, pending, active, dialog, closing, connects, polling, worker>>

CloseWindow ==
  /\ Responsive
  /\ closing' = TRUE
  /\ session' = Closed(api) /\ api' = Nothing
  /\ Submit("stop", Nothing)
  /\ UNCHANGED <<pending, active, cancelling, dialog, connects, polling, views,
                 running, events>>

-------------------------------------------------------------------------------
(* The background thread.                                                  *)

Take ==
  /\ running = Nothing /\ tasks # <<>>
  /\ running' = Head(tasks) /\ tasks' = Tail(tasks)
  /\ UNCHANGED <<window, views, events, session>>

Running(names) == running # Nothing /\ running.name \in names
Now == session[running.api]

Report(kind) ==
  /\ events' = Append(events, [kind |-> kind, name |-> running.name])
  /\ running' = Nothing
  /\ UNCHANGED <<window, views, tasks>>

Becomes(state) == session' = [session EXCEPT ![running.api] = state]

Dial ==
  /\ Running({"connect"}) /\ Now = "fresh"
  /\ \/ Becomes("open") /\ UNCHANGED <<window, views, worker>>
     \/ UNCHANGED session /\ Report("failed")

\* The preface and the login, unless the window closed the session meanwhile.
LogIn ==
  /\ Running({"connect"})
  /\ \/ Now = "open" /\ Becomes("authenticated") /\ Report("completed")
     \/ Now \in {"open", "closed"} /\ Becomes("closed") /\ Report("failed")

\* A file task succeeds, is refused, or loses the session.
DoFileTask ==
  /\ Running(FileTasks)
  /\ \/ Authenticated(running.api) /\ UNCHANGED session /\ Report("completed")
     \/ UNCHANGED session /\ Report("failed")
     \/ Authenticated(running.api) /\ Becomes("closed") /\ Report("failed")

DoDisconnect ==
  /\ Running({"disconnect"})
  /\ \/ Connected(running.api) /\ Becomes("closed") /\ Report("completed")
     \/ Connected(running.api) /\ Becomes("closed") /\ Report("failed")
     \/ ~Connected(running.api) /\ UNCHANGED session /\ Report("completed")

-------------------------------------------------------------------------------
(* Events: _poll_worker handles all there are, in the order of handle_event. *)

BeginPoll ==
  /\ ~polling /\ ~closing /\ events # <<>>
  /\ polling' = TRUE
  /\ UNCHANGED <<api, pending, active, cancelling, dialog, closing, connects, views,
                 worker, session>>

EndPoll ==
  /\ polling /\ events = <<>>
  /\ polling' = FALSE
  /\ UNCHANGED <<api, pending, active, cancelling, dialog, closing, connects, views,
                 worker, session>>

Event(kind, names) ==
  /\ polling /\ events # <<>>
  /\ Head(events).kind = kind /\ Head(events).name \in names
  /\ events' = Tail(events)

\* refresh_files at the end of a handler that leaves no file task pending.
ThenRefresh ==
  IF Authenticated(api)
  THEN pending' = TRUE /\ filesOn' = FALSE /\ Submit("refresh", api)
  ELSE pending' = FALSE /\ filesOn' = TRUE /\ UNCHANGED tasks

HandleConnected ==
  /\ Event("completed", {"connect"})
  /\ IF api = Nothing
     THEN UNCHANGED <<pending, buttons, filesOn, tasks>>
     ELSE /\ buttons' = "online"
          /\ IF pending
             THEN pending' = TRUE /\ filesOn' = TRUE /\ UNCHANGED tasks
             ELSE ThenRefresh
  /\ UNCHANGED <<api, active, cancelling, dialog, closing, connects, polling,
                 cancelOn, running, session>>

HandleDisconnected ==
  /\ Event("completed", {"disconnect"})
  /\ api' = Nothing /\ pending' = FALSE /\ active' = Nothing /\ cancelling' = Nothing
  /\ buttons' = "offline" /\ filesOn' = FALSE /\ cancelOn' = FALSE
  /\ UNCHANGED <<dialog, closing, connects, polling, tasks, running, session>>

HandleRefreshed ==
  /\ Event("completed", {"refresh"})
  /\ pending' = FALSE /\ filesOn' = TRUE
  /\ UNCHANGED <<api, active, cancelling, dialog, closing, connects, polling,
                 buttons, cancelOn, tasks, running, session>>

\* Faulty variant: a cancelled transfer that completed leaves the request open.
HandleUploadedKeepRequest ==
  /\ Event("completed", Transfers \cap {"upload"})
  /\ active' = Nothing
  /\ buttons' = "online" /\ cancelOn' = FALSE
  /\ ThenRefresh
  /\ UNCHANGED <<api, cancelling, dialog, closing, connects, polling, running,
                 session>>
HandleUploaded ==
  /\ Event("completed", Transfers \cap {"upload"})
  /\ cancelling' = IF cancelling = "upload" THEN Nothing ELSE cancelling
  /\ active' = Nothing
  /\ buttons' = "online" /\ cancelOn' = FALSE
  /\ ThenRefresh
  /\ UNCHANGED <<api, dialog, closing, connects, polling, running, session>>

\* The remote files are the same after a download: no refresh.
HandleDownloaded ==
  /\ Event("completed", Transfers \cap {"download"})
  /\ cancelling' = IF cancelling = "download" THEN Nothing ELSE cancelling
  /\ pending' = FALSE /\ active' = Nothing
  /\ buttons' = "online" /\ filesOn' = TRUE /\ cancelOn' = FALSE
  /\ UNCHANGED <<api, dialog, closing, connects, polling, tasks, running, session>>

\* Faulty variant: the pending flag stays set.
HandleCancelledKeepPending ==
  /\ Event("failed", Transfers) /\ Head(events).name = cancelling
  /\ active' = Nothing /\ cancelling' = Nothing
  /\ session' = Closed(api) /\ api' = Nothing
  /\ buttons' = "offline" /\ filesOn' = FALSE /\ cancelOn' = FALSE
  /\ UNCHANGED <<pending, dialog, closing, connects, polling, tasks, running>>
HandleCancelled ==
  /\ Event("failed", Transfers) /\ Head(events).name = cancelling
  /\ pending' = FALSE /\ active' = Nothing /\ cancelling' = Nothing
  /\ session' = Closed(api) /\ api' = Nothing
  /\ buttons' = "offline" /\ filesOn' = FALSE /\ cancelOn' = FALSE
  /\ UNCHANGED <<dialog, closing, connects, polling, tasks, running>>

HandleFailure ==
  /\ Event("failed", {"connect", "disconnect"})
  /\ session' = Closed(api) /\ api' = Nothing
  /\ buttons' = "offline" /\ filesOn' = FALSE
  /\ UNCHANGED <<pending, active, cancelling, dialog, closing, connects, polling,
                 cancelOn, tasks, running>>

HandleFileFailure ==
  /\ Event("failed", FileTasks) /\ Head(events).name # cancelling
  /\ pending' = FALSE
  /\ IF Connected(api)
     THEN filesOn' = TRUE /\ buttons' = "online" /\ UNCHANGED <<api, session>>
     ELSE /\ session' = Closed(api) /\ api' = Nothing
          /\ buttons' = "offline" /\ filesOn' = FALSE
  /\ IF Head(events).name \in Transfers
     THEN active' = Nothing /\ cancelOn' = FALSE
     ELSE UNCHANGED <<active, cancelOn>>
  /\ UNCHANGED <<cancelling, dialog, closing, connects, polling, tasks, running>>

-------------------------------------------------------------------------------
WorkerStep == Take \/ Dial \/ LogIn \/ DoFileTask \/ DoDisconnect

Poll ==
  \/ BeginPoll \/ EndPoll
  \/ HandleConnected \/ HandleDisconnected \/ HandleRefreshed \/ HandleUploaded
  \/ HandleDownloaded \/ HandleCancelled \/ HandleFailure \/ HandleFileFailure

Click ==
  \/ Connect \/ Disconnect \/ Refresh \/ (\E t \in Transfers : OpenDialog(t))
  \/ DismissDialog \/ StartTransfer \/ Cancel \/ CloseWindow

UiNext == WorkerStep \/ Poll \/ Click

UiSpec == UiInit /\ [][UiNext]_uiVars

\* The worker thread runs, its operations end, and Tk polls; nobody has to click.
UiFairSpec == UiSpec /\ WF_uiVars(WorkerStep) /\ WF_uiVars(Poll)

-------------------------------------------------------------------------------
\* The tasks that were submitted and whose outcome the window does not know yet.
Outstanding ==
  {tasks[i].name : i \in DOMAIN tasks} \cup {events[i].name : i \in DOMAIN events}
    \cup (IF running = Nothing THEN {} ELSE {running.name})

\* What the two threads hold between two steps.
TypesOK ==
  /\ api \in Apis \cup {Nothing} /\ connects \in 0..MaxConnects
  /\ {pending, closing, polling, filesOn, cancelOn} \subseteq BOOLEAN
  /\ {active, cancelling, dialog} \subseteq Transfers \cup {Nothing}
  /\ buttons \in {"offline", "online", "busy"}
  /\ tasks \in Seq(Task) /\ running \in Task \cup {Nothing}
  /\ events \in Seq([kind : {"completed", "failed"}, name : TaskNames])
  /\ session \in [Apis -> {"fresh", "open", "authenticated", "closed"}]

\* Every variable has its type, and however fast the user clicks and however
\* slow the operations are, at most six tasks wait for the background thread.
UiTypeOK == TypesOK /\ Len(tasks) <= 6

\* The window is never blocked for good: the flag that blocks every file operation is
\* only set while the outcome of some file operation is still to come, and both
\* connection buttons are disabled only while some outcome is.
BlockedMeansWork ==
  ~closing => /\ pending => Outstanding \cap FileTasks # {}
              /\ buttons = "busy" => Outstanding # {}

\* A cancel request is settled, by a failure or because the transfer won.
CancelSettles == cancelling # Nothing ~> cancelling = Nothing \/ closing

\* When nothing is outstanding, the window shows what it holds: it offers
\* Connect when it has no session and Disconnect when it has a live one.
WindowUsable ==
  Outstanding = {} /\ dialog = Nothing /\ ~closing =>
    \/ api = Nothing /\ buttons = "offline"
    \/ Connected(api) /\ buttons = "online"
================================================================================
