# HCMUS Computer Networks socket project: verification

TLA+ models, TLC runs and TLAPS proofs for the file-transfer client and server
in `src/hcmus_socket/`. Paths below are relative to that package unless they
start with `docs/`.

Contents: 1 inventory, 2 which module models what, 3 the runs, 4 fairness,
5 the proofs, 6 what the code does other than its documents say, 7 what is not
modelled, 8 plan.

## 1. Inventory

The program is a multi-user file store over TCP. A server process accepts
connections in its main thread and gives each one to a thread of its own; a
client (a Tk window with one background thread, or a command line) logs in,
lists, uploads and downloads files of its user.

| Component | State | Operations | Interacts with |
|---|---|---|---|
| Session registry `server/registry.py` | active sessions, username index, next and returned USER_IDs | register, claim a username, release, look-ups | called by every worker thread |
| Filename locks `server/filename_locks.py` | one reference-counted lock entry per (username, filename) in use | `hold`, `snapshot` | wrapped around every upload and download |
| Accept loop and workers `server/app.py` | semaphore of slots, list of workers, `graceful_stop` | accept, admit, reject, serve, unlist, close | registry, sessions, logger |
| Session dispatcher `server/session.py` | connection state, username, USER_ID | preface, LOGIN, dispatch by opcode, DISCONNECT, close | registry, locks, handlers, logger |
| Upload, server `server/upload.py` | `<name>.part`, `<name>.part.meta`, digest, byte count | request, resume, chunk, checksum, publish | disk, cleanup |
| Partial metadata `common/partial_transfer.py`, expiry `server/cleanup.py` | the metadata file | save (replace a file), load, prefix hash, expire | upload, start-up |
| Upload, client `client/upload.py` | offset, digest, source file | request, seek, stream, checksum | client session |
| Download, both sides `server/download.py`, `client/download.py` | offset, digests, the local `.part` | request, file info, stream, checksum, publish | disk, session |
| Listing and namespace `server/listing.py`, `server/namespace.py` | none (reads the directory) | list, resolve a name, recognise internal files | disk |
| Throttling `throttling.py` | tokens, time of the last refill, totals | `consume`, `try_consume`, `snapshot` | called by one session before it sends and after it receives a chunk |
| Logger `server/logger.py` | the open log file and its buffer, counters | write, close | every worker, the accept loop |
| Framing and messages `framing.py`, `messages.py`, `protocol.py` | position in the stream | encode, decode, send all, read exactly | both ends |
| Client session and API `client/session.py`, `client/api.py` | socket, authenticated user | connect, login, operations, disconnect, close | the window, the command line |
| Desktop window and worker `ui/app.py`, `ui/worker.py` | flags of the window, task queue, event queue | clicks, submitted operations, events | client API, from two threads |
| Desktop views `ui/*_view.py` | which widgets are enabled | drawing | the window |

### What is hard

* **Threads.** Worker threads share the registry, the locks and the slots; the
  main thread shuts down under them; the window and its background thread both
  use and close the client session.
* **Crashes.** An upload spans five kinds of write (chunk, metadata, link,
  unlink, clean-up); the process or the machine can stop between any two, and a
  later request resumes from what is found.
* **Streams that fail half way.** The client streams without waiting for
  replies, so a server that fails in the middle leaves frames on their way in
  both directions.
* **Two ends of one session.** The server takes an identity from the registry, the
  client takes it over from the reply, and the window's thread may forget it in
  between. Replies carry no request number: each end counts on the other to send
  exactly one.
* **Limits.** Slots, USER_IDs, socket buffers, sizes of partial files that do not
  agree with their metadata.
* **Ctrl-C.** It can arrive between any two statements of the main thread, those of the
  shutdown it causes included.

### What makes each component correct

* Registry: usernames and USER_IDs are unique among active sessions; no id is lost
  or issued twice; the index and the records agree; the answers are those of a
  registry without index and heap (`Identities`).
* Filename locks: one mutex per key, although entries are made and dropped on the
  way (`KeyedMutex`); nothing leaks; a lock somebody waits for is served.
* Workers: no slot, session, name or lock outlives its connection; a name is not
  given out before the locks keyed by it are left; shutdown ends and joins.
* Session: both ends act under one identity, the registry's; a reply under way is the
  one its reader waits for; a client learns why it was refused; the log tells what
  happened; both ends come to an end.
* Framing and messages: what is made is read back, whole and in order, however the
  kernel cuts it up; what is accepted is what this program would have written; an end
  inside a frame is not taken for an orderly one.
* Logger: a record reported as written is in the file; records never mix.
* Upload: a name is published once, as a whole, with contents that a client
  vouched for, and stays once a client was told (`Publication`); the digest always
  speaks for the bytes on the disk; client and server agree on where they are;
  retrying gets there.
* Download: what appears under the user's name is one whole version of the file and
  replaces nothing; the digest speaks for the partial file; retrying gets there.
* Throttling: in no interval does a session move more than a chunk and what the rate
  allows; nobody sleeps longer than that takes.
* Window: no flag blocks the user unless something will clear it; one file
  operation at a time; a cancel request is settled.

The hazards behind these, each at its line, are in `PROJECT.json`.

## 2. Modules

| Module | Models | Notes |
|---|---|---|
| `Identities` | what the registry promises | abstract: sessions hold an identity or none |
| `Registry` | `server/registry.py` | one action per public method and outcome; the heap is a bag of ids |
| `RegistryProofs` | theorems about `Registry` | section 5 |
| `KeyedMutex` | what the locks promise | abstract: who is inside which key |
| `FilenameLocks` | `server/filename_locks.py` | `hold()` split where other threads can run: `FindOrCreate`, `Acquire`, `Release`, `Forget`; entry objects are identities that are reused when unreachable, like Python's |
| `ClientWorkers` | `server/app.py`, and `server/session.py` as far as it touches registry and locks | composes `Registry` and `KeyedMutex` (the locks' proved promise instead of their steps) |
| `ClientWorkersProofs` | theorems about `ClientWorkers` | section 5; uses the results of `RegistryProofs` |
| `Publication` | what publishing under one name promises | abstract: offered, published, confirmed; for an upload on the server's disk, for a download on the client's |
| `Failures` | what a crash leaves of a file that was not synced | operators only: torn files, prefixes |
| `Upload` | `server/upload.py`, `common/partial_transfer.py`, `server/cleanup.py`, `client/upload.py` | one filename of one user, both ends and the connection; implements `Publication` |
| `UploadProofs` | theorems about `Upload` | section 5 |
| `Download` | `server/download.py`, `client/download.py` | one file and one destination, both ends and the connection; implements `Publication` |
| `DownloadProofs` | theorems about `Download` | section 5 |
| `Messages` | `messages.py`, `protocol.py` | operators: one table of payload layouts, written and read by `Payload`, `Makeable` and `Decode` |
| `FrameChannel` | what framing promises | abstract: sent, received, how it ended |
| `Framing` | `framing.py` | one direction of a connection, cell by cell; extends `Messages`, implements `FrameChannel` |
| `FramingProofs` | theorems about `Messages` and `Framing` | section 5 |
| `Session` | `server/session.py`, `client/session.py`, `server/listing.py`, `client/listing.py`, `reject_busy` | one connection end to end; composes the promise of the registry (`Identities`) |
| `SessionProofs` | theorems about `Session` | section 5 |
| `ServerLogger` | `server/logger.py` | threads, buffer, disk, restarts |
| `ServerLoggerProofs` | theorems about `ServerLogger` | section 5 |
| `TokenBucket` | `throttling.py` | any number of callers over discrete time |
| `DesktopUi` | `ui/app.py`, `ui/worker.py`, the enabled buttons of `ui/*_view.py` | both threads and the two queues |
| `SharedObjectsProofs` | theorems about `FilenameLocks`, `TokenBucket` and `DesktopUi` | section 5 |
| `MC...` | nothing; constants for TLC | |

Operators called *faulty variant* in a module are the bugs its properties are
tested against: each replaces one definition and makes TLC report the property
that is paired with it in `PROJECT.json`. No specification uses them.

How state and actions correspond to the code, where it is not one to one:

* **Registry.** Each public method runs under the registry's re-entrant lock, so a
  call is one step. `outcome` records the call and its answer for the refinement.
  `MaxSessions` bounds how many sessions are ever registered.
* **FilenameLocks.** The two `with self._guard` sections are one step each, and the
  statements between them one step each. `AcquireFails` is the path the code's `finally` is there for,
  an exception out of `acquire()`; in a worker thread none is known to arise, since Python
  delivers Ctrl-C to the main thread only. The model has one entry identity per thread at most, because an
  unreachable object's identity can be used again.
* **ClientWorkers.** `main` is the position of the main thread; `launching` is the
  inside of `Thread.start` after the new thread exists. `pc[c]` is the position of
  the worker of connection `c`; the end of a worker takes five steps (leave the
  lock, close the socket, release the identity, unlist, return the slot) because
  other threads can run between them. `Interrupt` is Ctrl-C: in the accept loop it
  drops or undoes what is half done and sets `graceful` (`InterruptLoop`); in the `finally`
  block it leaves the block, whether it was about to take the snapshot, aborting sockets
  or joining, and after that it may keep the logger from being closed
  (`InterruptShutdown`). One place is left out: a second Ctrl-C inside the handler of the
  first, before `graceful_stop = True` has run (app.py:279-280). `ReturnSlot` is bounded, as
  `BoundedSemaphore` is. `reject_busy` ends in one of two ways: the rejected peer has
  gone (`RejectGone`) or lets a second pass in silence (`RejectSilent`).
* **Messages.** A payload is a sequence of cells; an integer is one cell whatever its
  width, a byte of a name or of data is a cell, and sets of cells stand for bytes with a
  meaning (undecodable, separators, the dot). The `make_*` and `parse_*` of one opcode
  share a row of `Layout`. `Parse` reads all fields, then looks at what is left, then at
  the values, with the exception that a bad filename is found while reading, as in
  the code. `FILE_DELETE` has a number and no layout. `IsCall` says what a caller may hand to a
  `make_*` function; which of it the function takes is `Makeable`.
* **Framing.** `LENGTH` has two cells of `Base` values, so that it can name a payload
  that is too large; everything else about widths is in `Messages`. `SendSome` is one
  `sock.send`, `ReceiveSome` one `sock.recv`, each of any size the sockets allow.
  `sent` and `received` are history. A `script` is what the sender will send: messages
  of this program, or cells of another one. A script gives the cells of another program as
  a preface and units as long as their `LENGTH` says (`IsUnit`). That leaves nothing out: any
  stream falls apart so, up to the first `LENGTH` no frame can have, where the receiver stops,
  and a sender that stops in the middle of a unit is `StopSending`.
* **Session.** A frame is its opcode, its USER_ID and whether its payload says anything.
  Frames in one direction are a queue; a send to a peer that has gone may fail or
  succeed and reset the connection, and a socket closed with data unread resets it too.
  The peer is this repository's client (`call` is where its thread is, `closing` how far
  the window's thread is in `close()`), or another program that sends any frame at any
  time and reads at once. A transfer is reduced to how it ends. `state` adds to
  `SessionState` two places of `reject_busy`, `REJECTING` and `DRAINING`. `log` holds the
  records about this connection, taken as never lost: `ServerLogger` says when they are.
  The client's uploads and downloads are left to `Upload` and `Download`.
* **ServerLogger.** A record is two cells, the second of which ends its line. `held` is
  the buffer under the text stream: a failed write leaves its rest there, for the next
  flush. `_lock` is the variable `lock`. `Restart` covers a kill, a crash and an orderly
  end that closed before. `status()` and the counters are not modelled; no decision
  is taken from them.
* **Upload.** A file is a sequence of blocks and a chunk carries one block; a
  digest is the sequence it was fed (no collisions of SHA-256). `spc` is the
  position of the server's thread, `cpc` the client's. `up` and `down` are the two
  directions of the connection; `Window` and `ReplyWindow` are what the kernel
  holds of each, and a full one blocks its sender. `linked` says that target and
  partial file are two names of one file between `os.link` and `unlink`.
  `unsynced` says which file was written since its last `fsync`: `PowerLoss` may
  cut it short or leave holes; names and metadata survive a power loss, the
  metadata possibly corrupt. `Verdict` of a frame is the server's chain of checks
  on it. `offered` and `confirmed` are history.
* **Download.** The same conventions as in `Upload`, seen from the other end: the
  partial file is the client's. `flushed` is what has left the output buffer;
  `unsynced`, `linked` and the power loss are as in `Upload`. `Edit` is another program
  that writes to the server's file in place, while it is sent or between requests.
  All refusals of a request (missing, internal, unreadable) are one. `astray`
  records that the client refused a chunk of a transfer and kept its session, after which what the server still sends is read as replies, and stale
  replies are read for the rest of the session; only the next `Connect` ends it. `untold`
  records that the last request ended without a word to a server that waits for one: the
  flush failed (`FlushFails`), or a partial file could not be removed (`CannotRemove`, which
  needs one failure for a stale file and two after a failing read). Neither variable is read by an
  action. The safety properties that need both ends to speak of one request are stated for sessions
  that have not gone astray; section 6 says what happens in the others. The session is used for downloads of this
  file only; a user who moves or deletes the downloaded file, and two clients that
  share a destination, are left out. `offered` are the digests the server sent,
  `confirmed` is what it logs as a success. `docs/PHASE2_PROTOCOL.md:367` has the
  client check the size of its partial file before it acknowledges; the code counts
  bytes instead, which no reply of this server can tell apart.
* **TokenBucket.** A unit of time is what one token takes, so the rate is one and
  elapsed time needs no conversion. The clock is monotonic, so that
  `elapsed <= 0` means no time has passed. Each section of the lock is one step and a
  sleep may last longer than asked. `mark` is an observer that may start measuring
  at any moment, which makes `RateKept` a statement about every interval; `begun` is
  history. A session has one caller; the class promises more, and is modelled so.
* **DesktopUi.** An event carries the name of its task and not the session it was
  for, as in the code. A file dialog keeps polling events while it is open; a
  message box is treated as part of the handler that shows it. `session[a]` is
  the socket of the `a`-th `ClientApi` the window made.

## 3. Runs

| Run | States | What it shows |
|---|---|---|
| `registry` | 9 634 | three usernames, two USER_IDs, five sessions: capacity, reuse and refusal all happen; safety, least id, refinement of `Identities` |
| `filename_locks` | 20 081 | four threads, two keys: two pairs that contend, or three threads behind one, with failing acquisitions; safety, refinement of `KeyedMutex`, `KeyIsServed` |
| `client_workers` | 482 808 | three connections for two slots, one username (so logins are refused), one file, up to two Ctrl-C anywhere from the accept loop to the last statement; safety, slots that come back, an accept loop that comes back from a rejection, shutdowns that end |
| `session` | 766 133 | a session or a rejection, this client or any other program, a rival that logs in and out, the window's `close()` at any moment; five properties of both ends together |
| `framing` | 226 392 | 809 scripts of messages and raw cells at and beyond every limit, cut up and broken off everywhere; refinement of `FrameChannel` |
| `server_logger` | 609 897 | two threads, five records, three failing writes, two restarts; what the file holds |
| `upload` | 322 529 | three versions of a file (two of one size that differ at the start, one shorter), up to three failures and one edit; safety, refinement of `Publication`, `RetriesPublish` |
| `download` | 373 439 | a file with three versions, up to three failures (connection, disk, process, power) and one edit while it is sent; safety, refinement of `Publication`, `RetriesPublish` |
| `token_bucket` | 3 511 236 | two callers, two tokens, amounts 0, 1 and 3, four units of time: instalments, late wake-ups, callers that take each other's tokens |
| `desktop_ui` | 49 563 | three sessions, uploads and downloads, clicks in any order; safety and `CancelSettles` |

Two more runs, `upload_full` and `desktop_ui_cancel`, are expected to find a violation;
see section 6.

Why the bounds are enough for what the runs ask:

* `registry`: three names on two ids is the least where a name is free and an id is
  not. Five sessions let both ids be returned and issued again.
* `filename_locks`: the races are between one thread that drops an entry, one that
  waits for it and one that creates the next; four threads give one more.
* `client_workers`: with two slots and three connections there are always a
  rejection, a slot that comes back while another is in use, and a worker in each
  half of its life. The second of two interrupts falls at
  any point of the shutdown that the first began.
* `session`: two calls after `connect()` let a list be followed by a disconnect; the
  other program has four frames (log in, begin a transfer, break it, disconnect). One
  frame under way at a time is enough for it: it does not wait for replies, so the
  server answers each as it would in a longer queue. Two ids and one rival make a
  login fail for the name, for the capacity, or succeed with either id. One fault:
  a second one finds a connection that is already lost.
* `framing`: a script is a preface, one item and a plain ACK, so that whatever the
  item does to the stream shows in the frame after it. Limits of two cells for names,
  data and digests and of seven for a payload put every field at, below and above its
  limit. Three cells under way are enough for a `recv` to reach into the next unit if it
  is allowed to.
* `server_logger`: the buffer holds two records, so that a failed write leaves it half
  full and the next record finds it full after another failure; three processes let a
  torn line be followed by one that is torn again.
* `upload`: three failures let a crash, a resumption that fails and a failing
  clean-up happen in one history. Two blocks and chunks of one block give a
  resumption in the middle, and a shorter version gives partial files longer than
  the new source. `Window = 2` leaves frames under way when the server fails; larger
  windows repeat the same leftovers.
* `download`: as for `upload`; `Window = 8` is more than a session can leave behind,
  so that no direction fills (that case is `upload_full`'s). One edit changes the
  size or the contents under a request, between its hash and its stream.
* `token_bucket`: an amount above the burst makes every caller sleep at least once, with
  the other awake; in four units the bucket fills twice. The theorems have no bounds.
* `desktop_ui`: stale events need two sessions; the third lets events of the first
  meet the window after the second is closed.

Deadlock is checked except in `client_workers` (the server stops), `session` (both ends
have finished), `framing` (the receiver has ended), `server_logger` (the bounds are used
up), `desktop_ui*` (the window is closed) and `upload_full`, where the deadlock is
the finding.

## 4. Fairness

* `filename_locks`: a thread inside `hold()` keeps running, and a free lock that
  threads wait for is taken by one of them (`threading.Lock` promises no more, so
  no property says which).
* `client_workers`: threads that can run do. A peer owes nothing: it may be idle for
  ever, and a rejected one may keep sending, which keeps `reject_busy` (app.py:173-186)
  from ending; so `RejectGone` is fair and `RejectSilent` is not. `AcceptLoopResumes`
  and the graceful half of `ShutdownCompletes` therefore assume that the peers leave;
  the other half, for a server that aborts its sessions, does not.
* `session`: the server's thread, the client's thread and a `close()` the window has
  begun go on. Nobody has to connect, ask, send or leave, and no deadline has to
  pass: `BothEndsFinish` promises the end of a call that has begun, and the end of the
  session once its peer has gone.
* `framing`, `server_logger`: no liveness. A peer may stop in the middle of a frame for
  ever, and the disk may stay full.
* `upload`: the server's thread runs, and the user retries and the client's thread runs. Failures
  and edits are bounded, have no fairness and may be spent at any time, so the
  liveness property is about every state from which they stop.
* `download`: both threads run, the user asks again when nothing is under way, and
  now and then, after a failure, reconnects instead (strong fairness of `Leave`).
  The last is needed: a session that has gone astray never finds back by itself,
  since each retry consumes one leftover reply and causes another.
* `token_bucket` states no liveness: `WaitsRepaid` bounds the sleep of a call by the bytes
  admitted meanwhile, so a call can only be kept waiting by others being served.
* `desktop_ui`: the background thread runs, its operations end, and Tk polls. Clicks
  have no fairness: nothing is promised because the user will click.

## 5. Proofs

The theorems hold for any values of the constants that satisfy the assumptions of the
modules, and these ask for no more than the code does:

| Module | Theorems of | Assumptions |
|---|---|---|
| `RegistryProofs` | `Registry` | `RegistryAssumption`: any usernames, any `maximum_user_id` the constructor accepts |
| `SharedObjectsProofs` | `FilenameLocks` | `LocksAssumption`: any finite set of threads, any keys |
| | `TokenBucket` | `BucketAssumption`: any burst, any amounts |
| | `DesktopUi` | `UiAssumption`: uploads, downloads, both or neither; any number of connects |
| `FramingProofs` | `Messages`, `Framing` | `MessagesAssumption`: any limits that a length prefix can express; `FramingAssumption`: any `Window`, any `Base` that lets `LENGTH` name a payload above the limit; `ScriptsAssumption`: any set of scripts, of any length, of calls to `make_*` and of other cells |
| `ClientWorkersProofs` | `ClientWorkers` | `WorkersAssumption`: any finite set of connections, any number of slots; `SharedAssumption`: the usernames and ids are ones the registry accepts |
| `ServerLoggerProofs` | `ServerLogger` | `LoggerAssumption`: any threads, any buffer that holds a record |
| `UploadProofs` | `Upload` | `UploadAssumption`: any windows and numbers of failures; `VersionsAssumption`: any contents of which one is longest |
| `DownloadProofs` | `Download` | `DownloadAssumption`, `VersionsAssumption`: the same for the server's file |
| `SessionProofs` | `Session` | `SessionAssumption`: any usernames of which the server takes some, any number of calls, frames and faults |

Each module proves an invariant `IInv` with one lemma per action or group of actions, and
concludes the properties from it. TLC checks `IInv` on the same small instance first; it is
not repeated in a run. What the invariants add to the properties, and why that is needed:

**Registry.** `IdentitiesUnique` alone is not inductive: `claim_username` consults
the username index and the heap, not the other sessions. The inductive invariant
adds that the index and the records agree in both directions
(`OwnersMatchSessions`, which makes the index enough to refuse a name), that every
id below `_next_user_id` is held once or waits once in the heap
(`UserIdsConserved`, which makes a popped id unused), and that a session has a
name exactly when it has an id. From it follow all three safety properties,
`LeastIdGranted` (the heap's least element, or the fresh id, is below every other
unused id) and, with the same argument per action, the refinement of `Identities`:
a claim is refused for a held name exactly when some session holds it, and for
capacity exactly when every id is held.

**Filename locks.** Mutual exclusion needs that two threads with one key use one
entry object. The invariant says: a thread's key and entry are set exactly while
it is inside `hold()` (`LocalState`); users of a key use the entry the registry
lists for it; the registry lists exactly the keys with users; different keys have
different entries; the owner of an entry is the thread inside the body with it;
and the reference count is the number of users. The last one is what makes
`Forget` drop an entry only when nobody else refers to it, and the freshness of an
allocated entry what keeps entries of different keys apart.

**Token bucket.** `RateKept` is not inductive: the total alone says nothing of what the
bucket may still pay out. The invariant bounds `Reach`, the total together with what
could be admitted at once: admission turns one into the other, only time adds to it,
and a new observer finds at most a burst in the bucket. `WaitsRepaid` needs the same
quantity during a sleep: at every moment of a sleep, `Reach` has grown by as much as
has been slept. That holds because a sleep is never longer than the filling of an
empty bucket, the reason for the `min` in throttling.py:82; without it tokens that a
full bucket drops would be waited for twice.

**Client workers.** None of the four properties is inductive. `SlotsAccounted` counts a
place that is taken, given to a thread and returned in three different functions, so the
invariant ties the position of the main thread to the one connection it holds and
says which workers are still listed (`MainInv`). `RequestsNeverContend` rests on the
registry: two workers with one lock key would have one username, the registry gives a
username to one session at a time, and a worker leaves its lock before it releases its
identity. The invariant for that (`SessionInv`) says that the sessions of registered
workers are exactly those of the registry, that no two workers share one, and that a
worker that is past its login holds its name there. It uses the theorems of
`RegistryProofs` and does not repeat them: `WorkersObeyRegistry` shows that every step of the server is
a step of `Registry` or leaves it alone, and `WorkersObeyLocks` the same for `KeyedMutex`, which
`LocksImplementMutex` shows `FilenameLocks` to implement. So what is proved of the parts
holds in the whole.

**Logger.** The file alone says nothing about a record that is half in the buffer. The
invariant is about `written`, the file followed by the buffer: every cell in it belongs to a record
that entered the lock, cells come in the order of the lock and a line is broken off only where a later process
starts (`WrittenInOrder`), what an open stream has taken ends with a whole line of its own
process (`EndsWhole`), a thread in the lock has written nothing of its record or all of it
as the last line (`OwnLine`), no record enters twice (`EnteredOnce`), and only the holder of
the lock writes (`LockDiscipline`).

**Upload.** `DigestMatchesDisk` speaks of some positions of the server. The invariant says for
every position what the partial file holds against the byte count and the digest
(`Progress`), and that what may be linked has been synced and what is linked is the target
(`DiskSound`); of the metadata it asks only that they count no more than they announce, since
the code compares them with the file before it believes them. The refinement of `Publication`
adds that a checksum under way was offered (`ClaimsOffered`), that whoever has been told, or
is about to be, was told of a target that was offered and that no upload is at work on
(`Published`), and that an acknowledgement under way to a client is for the contents that client hashed
(`ReceiptTrue`). This last part holds because of what is on its way at each position of the
two ends (`Dialogue`). `SendChecksum` maps to `Offer`, `Link` to `Publish`, `UnlinkFails` to
`Withdraw`, `Succeed` to `Confirm`, `Intrude` to the other program of `Publication`; every other step
stutters. `InStep` follows from `Dialogue` and a second invariant on top of `IInv`: the
frames under way continue where the server stands (`Flow`).

**Download.** The same, seen from the other end. `Progress` and `DiskSound` hold whatever
replies the client takes; `Covered` says that the digest is that of the partial file, and was
offered, while the session has not gone astray. `Truthful` is about single replies under way
and `Dialogue` about what each end waits for, in three situations: between requests, request
pending, transfer pending. In the first the server may not have read the end of the
transfer before, which is why a request can stand behind an acknowledgement; or it was
told nothing (`untold`), which is why a request can also stand in the place of one, and is
then answered with an ERROR. `SendChecksum` maps to `Offer`,
`Link` to `Publish`, `Complete` to `Confirm`, `Intrude` to the other program. The proof is how
the behaviour described under *Transfers* in section 6 was found to reach further than a
confused reply: with `astray` reset at the end of a transfer the invariant is not inductive,
and TLC found a history of the whole system behind that, with more edits than the run
has. `astray` therefore lasts until the client connects again, and until then
`ImplementsPublication` promises only that nothing is replaced.

**Session.** The four properties relate two programs that share nothing but frames, so none
is inductive. `Identity` is about the server's end: a session that is not closed is in the registry with
exactly its username and USER_ID. `AskedInTurn` says that at most one frame of the client is under
way, and in which states of the server and of the client; `AnsweredInTurn` says for each
call which replies can be under way and what identity they carry. It holds while the window closes the
session, between any two of its three steps, because an interrupted call ends instead of
making another request; this is where `chosen = username` and
`clientId = userId` come from. `Intact` is what `LossNeedsFault` needs: without a fault somebody has
to speak, and can, so no end finds the other gone, and a rejected client has its `ERROR` to read until it has
read it. With the socket closed as soon as the refusal is sent, `reject_busy` would
break it. `LogSound` and `LogTimely` say what the log contains and in which states
of the session: all records after the first carry the name the registry has, until it is released, which is after the
last of them. `SessionObeysRegistry` shows that all the registry is asked to do is
allowed by `Identities`, which `Registry` is proved to implement. A foreign peer may send
any frame: about it only the server's half is claimed.

**Framing and messages.** `MessagesSurvive` and `AcceptedIsCanonical` come from two theorems about
the operators: what `make_*` makes, `decode` reads back as the same message
(`PayloadRoundTrip`), and what `decode` takes is what `make_*` would have made of it (`PayloadCanonical`). Both are
inductions over the fields of a layout. The library states induction with an operator parameter,
which the provers cannot instantiate, so `NatSetInduction` and `RangeInduction` state it for
sets and follow from the minimum of a well-founded relation. The reader takes fields off the front of a payload; the invariant of its
fold is that what was read, written again, is what was taken off. The stream has an invariant of its
own, `FramingInv`: what is on its way out, what was sent and what was received are items of
the script in its order (`ViewInv`, `SentInv`, `ReceivedInv`), and what was read of the current unit, what is
on the wire and what the sender still has are together exactly the units sent and not yet delivered, of which
the last is not missing as a whole (`StreamInv`). The last clause is why an end of the
stream between two units means that nothing is missing, and the first why a `recv` never
reads beyond its unit. In `FrameChannel` the first `SendSome` of a unit is `Send`, a unit that is complete and accepted is
`Receive`, whatever is refused or cut short is `Fail`, a close between units is `End`, and every other
step stutters.

**Desktop window.** `BlockedMeansWork` is not inductive: events do not say which session they are
about, and each handler clears some flags on behalf of a task that may not be the one that set them.
`WindowInv` says of each flag which outstanding task clears it (`WorkBehind`): a file task for `pending`, a transfer for the
one on display, and for disabled connection buttons a transfer, or a connect or disconnect while the
window still has a session.

`UiTypeOK` bounds the task queue (`QueueAlwaysShort`). `worker.py` sets no bound and neither does a
type: what keeps the queue short is which buttons the window enables, and events of old
sessions enable buttons of the present one. The invariant, `QueueInv`, has one part for each state
of the session that the window holds.

* No session, or a fresh one (`WhileNothing`, `WhileFresh`): queue and events are left over from
  earlier sessions (`Old`): nothing in them that can still succeed stands before a disconnect, so
  what is behind it fails, and no transfer can succeed.
* Connecting (`WhileOpen`): the connect is at the head, behind it only disconnects of the
  same session, as many as old events allowed.
* Closed (`WhileClosed`): the queue holds only its tasks, and they fail.
* Authenticated (`WhileIn`): the queue is `y` file tasks that can still succeed and the rest behind a
  disconnect; the events are `z` from before the login was known and the rest the results of those file
  tasks. `EarlyRoom` and `LateRoom` say how many of each there can be before and after
  the window has learnt of the login, given the flags that are free: a free flag is one
  more submission, an old file event one more free flag.

Where no live session is in the window, `Always` counts `Clicks`: the connects that the user can still
submit before and after the next poll. Each of these is a sum of what is queued and what can still be
queued, and every step keeps it: a click turns the one into the other, an event frees a flag and is
gone, a task leaves the queue and puts one event behind the others. A queue with the task that runs is
at most five long while the window is open; closing it adds the task that stops the worker, which makes
six. TLC checked `QueueInv` on its own with sixty connects before it was proved.

Some results are proved and not repeated in a run: the type invariants of most
modules, the agreement of the registry's index with its records, that all users of a key
share the listed entry with exact reference counts (`SnapshotAlwaysExact`), and
the three theorems that compose workers and session with registry and locks.

**Only model-checked.** Liveness (`KeyIsServed`, `SlotReturned`, `AcceptLoopResumes`,
`ShutdownCompletes`, `BothEndsFinish`, both `RetriesPublish`, `CancelSettles`): it rests on fairness, which is
out of the prover's reach. Every safety property of a passing run is a theorem.

## 6. Where the code and its documents differ

Two are runs that check one sentence of the documents and find a behaviour of the code
against it; details are in `PROJECT.json`.

* `upload_full`: after a failed write both ends can block in `send`; the protocol
  document ends the transfer.
* `desktop_ui_cancel`: Cancel after the transfer completed leaves a window that
  offers Disconnect for a closed session and does nothing when it is clicked.

The others were met while the modules were written; the models have the behaviour
where they reach it, and no run is spent on it.

Transfers:

* `docs/PHASE2_PROTOCOL.md:304` hides internal files. A crash during the replacement of
  the metadata leaves its temporary file, whose name nothing recognises
  (common/partial_transfer.py:50, server/namespace.py:46-55).
* `docs/PHASE2_PROTOCOL.md:678,689` has a session recover from a size mismatch. When the
  file grows while it is sent, the client refuses the surplus chunk and keeps the
  session, and takes what the server still sends for the replies to its next requests,
  for good (client/download.py:164-174). No frame says which request it answers, so the confusion is not confined to
  errors: when the file is edited again while requests and leftovers pass each other, the
  server can take the client's acknowledgement of one transfer for that of a later one,
  and log as delivered (server/download.py, `docs/PHASE2_PROTOCOL.md:531`) contents the client does not have. TLC
  finds it with versions of one, three and three blocks and two edits, in 75 steps. It
  takes two edits within one session that has gone astray, so the run `download`, which has one, does not reach
  it; the properties exclude such sessions by `astray`.
* Two local failures of a client that keeps its session are not told to the server. A failing flush (client/download.py:229) and a failing removal of the partial file
  (client/download.py:99 and 121, by way of 278-282) send no ERROR: the client is ready again
  while the server waits for the reply to FILE_INFO or FILE_CHECKSUM. The next request is taken for
  that reply, answered with an ERROR and lost; after it both are in step again, as
  `InStep` states and `RetriesPublish` needs.
* The server's handler for a failing read of a download (server/download.py:249-257)
  raises itself, so the session ends, without a record in the log.
* An offset beyond the end of the file is answered INVALID_PAYLOAD where
  `docs/PHASE2_PROTOCOL.md:516` has OFFSET_MISMATCH. Any protocol error, a missing file too,
  makes the client remove its partial file.
* A lost final ACK makes the retry of an upload that succeeded answer FILE_EXISTS; the
  server's INVALID_STATE and OFFSET_MISMATCH replies to uploads are never given to the
  client of this repository.
* With a limit far below a chunk per second the burst alone exceeds the 10% of
  `docs/PHASE2_PROTOCOL.md:600` over five seconds; `RateKept` is the bound that holds.

Sessions:

* `docs/PHASE2_PROTOCOL.md:168,683` closes a session for a wrong USER_ID. In the middle of a
  transfer the wrong id is answered like any bad frame and the session goes on
  (server/session.py:342-346); so does a second LOGIN.
* `docs/PHASE2_PROTOCOL.md:267-268` closes after a login for which no USER_ID is left, or
  whose directory cannot be made; the code answers and stays in AUTHENTICATING
  (server/session.py:388-418).
* The client is told that it has left before its name is free: the ACK of DISCONNECT is
  sent before the registry forgets the session, so an immediate login may be refused
  with USERNAME_IN_USE.
* The server's `recv` has no timeout, so a peer that vanishes without a FIN holds its name
  and its slot.

Server process:

* `docs/architecture.md:97` has shutdown join the workers before the logger closes: Ctrl-C
  inside `Thread.start` makes the handler in `start()` unlist a worker that runs
  (app.py:72-77), and a second Ctrl-C in the `finally` block abandons the workers that are
  not joined yet, or keeps `close()` from looking at any; `ShutdownJoins`
  states what remains true. A worker that has left `_workers` is not joined although it
  still has its slot to return (app.py:81 says "every worker").
* `docs/PHASE2_PROTOCOL.md:706` promises lines that do not mix. They do not, except that a
  process that died in the middle of a line leaves a torn tail to which the next one
  appends its first record (`ReportedIsWritten` says so). A record that `_write` reports as failed may still
  appear later, out of the stream's buffer. Timestamps are taken before the lock and are
  not in the order of the lines; nothing is synced, so a power loss is outside the model.

Window:

* `docs/architecture.md:53-54` has the window issue one file task at a time. The failure event
  of an earlier session clears the pending flag of the present one, and two are queued
  (ui/app.py:612).
* A completion event of an old session can make the window forget a session that is
  connecting (ui/app.py:566).

## 7. Not modelled

* `config.py`: read once. Its limits are the assumptions on the constants.
* `client/app.py`, `client/commands.py`: a sequential loop that prints.
* Which names a listing shows and a path check refuses (`server/namespace.py`,
  `server/listing.py:55-68`): string processing and a read of the directory, which keep no
  state. Two users whose names differ only in case share a directory on a file system
  that ignores case; the models take names to be different directories.
* Progress callbacks, layout, themes, message texts.
* `scripts/` and `tests/`: read for the intended behaviour.
* The widths of integers in `messages.py` and the UTF-8 coding itself.
* The rounding of floating-point tokens in `throttling.py`.

## 8. Plan

Done: all components of section 1, and the proofs of all safety properties that the passing
runs check. What is left beyond that is liveness, which stays with TLC, and section 7.
