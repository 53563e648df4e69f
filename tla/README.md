# A verification of the smart home monitoring system

TLA+ models of the server and the clients of the smart home monitoring system,
TLC runs that check them on small instances, and TLAPS proofs for any instance.
Source paths are relative to the repository (`src/` is its root); the code's
own names are kept wherever TLA+ allows it.

## 1. The system

A C++11 server accepts clients over TCP. One **reactor** thread owns epoll, the
descriptors and the connection table; a **thread pool** runs one task per
request; a **pull thread** per stream reads a camera and pushes frames into the
client's connection; **ffmpeg child processes** write recordings; one **MySQL
connection** is shared by all workers. A Qt client (and a small Linux one)
speaks a TLV protocol, in which media frames are mixed into the same stream.

### Components, their state and their operations

| Component | State | Operations | Talks to |
|---|---|---|---|
| Connection (`server/src/connection.cc`) | `_fd`, `_closed`, `_writeBuf`, `_writeOffset`, `_writeInterest`, login fields | sendData, flushOutput, closeConnection, readData, readMessage, markLoggedIn/Out | reactor (callback into epoll), workers, pull threads |
| Thread pool (`thread_pool.cc`) | `_taskQueue`, `_stopFlag`, threads | addTask, loop, stop | reactor submits, workers run handleMessage |
| Reactor (`reactor.cc`) | `_conn`, `_streams`, `_streamUrls`, `_recorders`, `_recordDeviceIds`, `_recordStartTimes`, `_streamsMutex`, `_runFlag` | run, closeConnection, finalizeRecording, checkIdleConnections, handleMessage | everything on the server |
| TsRecorder (`TsRecorder.cc`) | `_pid`, `_outputDir` | start (fork, exec), stop (SIGTERM, waitpid), producedFiles | reactor and handlers |
| Stream session (`media/stream_session.cc`) and sources | `_running`, `_pullQuit`, pull thread, `_sendQueue`, `_recorder` | start, stop, reconnect, nextSendPacket, startRecord, stopRecord | source (FFmpeg or mock), the connection as sink |
| Ring buffer, frame queue (`common/include/common`) | bounded buffer, `_closed` | push, tryPush, pop, clear, close | stream session, decoders |
| MySQL client and services (`MySQLClient.cc`, `UserService.cc`, `ResourceHandler.cc`, `DeviceService.cc`, `RecordService.cc`) | one connection, `_inTransaction`, `_lastErrno`; tables | execute, query, begin, commit, rollback; register, login, queries, addRecord | workers, the reactor (recordings) |
| TLV protocol (`common/src/Protocol.cc` and codecs) | receive buffer | encode, tryDecode | both ends |
| Media packets, reassembler (`media_packet.cc`, `media_reassembler.cc`) | `_buffer`, `_offset` | encode, decode, peekFrameLength, feed, nextPacket | stream session, client |
| Recorder, TS segmenter (`recorder.cc`, `media/ts_segmenter.cc`) | file, segment index | open, write, close; start, writePacket, stop | stream session |
| PTZ forwarding (`PtzHandler.cc`, `PtzHttpClient.cc`) | none | handle | camera over HTTP |
| Qt request queue (`client/qt/.../service/UserService.cpp`) | `m_pending`, `m_requestQueue`, timer, login | requests, onDataReceived, onRequestTimeout, onDisconnected | TcpClient, windows |
| Qt TcpClient (`network/TcpClient.cpp`) | socket, reconnection timer | connect, send, reconnect | server |
| Qt PtzClient (`network/PtzClient.cpp`) and the PTZ buttons | `m_moveActive`, `m_ready`, two HTTP replies | startMove, stopMove, setCamera, probe | camera, or the request queue |
| Qt players (`video/*.cpp`, `ffmpeg_decoder.cc`) | worker thread and frame queue; ffmpeg process, timers, byte buffer | start, stop, onMediaFrame; play, readStandardOutput | request queue, ffmpeg |
| Qt windows (`MainWindow.cpp`, `ui/*.cpp`) | central page, device tree, lists, five flags about the server | the buttons and the slots behind them | request queue, players, PtzClient |
| Configuration, logger, Linux client, VLC headers | — | — | — |

### What is hard

* **Interleaving.** Workers, pull threads and the reactor share a connection's
  output queue and its epoll registration; handlers and closes share six maps;
  workers share one database connection and its transaction.
* **Stale keys.** The maps are keyed by a descriptor number that handlers read
  again at each access. It becomes -1 on close and is reused by the kernel.
* **Blocking.** Opening a source, launching and waiting for ffmpeg, joining a
  pull thread and PTZ calls block; some do so on the reactor thread.
* **One stream, two framings.** Messages and media frames share a connection, TCP
  cuts them anywhere, and a bad header discards what is buffered.
* **Belief.** The client's windows act on what they last heard of the server, while
  answers are late, fail, or are given up.
* **Limits.** The task queue refuses, the kernel's socket buffer fills up, lists
  outgrow a message.
* **Failure and shutdown.** Clients vanish at any point, sources and the
  database reconnect, and shutdown happens while recordings run.

What makes each part correct: output reaches the client whole and in order and
is never stranded; an accepted task runs once, in order, and shutdown drains;
a stream or recording belongs to one client, is stopped with it, and each
recording is filed once, complete, under its own device; the database holds
what the answers claim; the parser consumes whole messages only; the client
takes an answer for the request it belongs to; a service sees what the user asked,
and the user what the service said; the preview shows the newest frame; a camera
that was moved is stopped; the window's idea of the server is true.

## 2. Modules

| Module | Models |
|---|---|
| `OutputChannel` | what a connection promises: a FIFO byte stream of whole frames until closed |
| `Connection` | `connection.cc` and the reactor's accept, flush and close; refines `OutputChannel` |
| `TaskQueue` | what the pool promises: a bounded FIFO queue that runs each task once |
| `ThreadPool` | `thread_pool.cc`, with the condition variable; refines `TaskQueue` |
| `MediaControl` | the streaming and recording part of `reactor.cc`, on top of `TaskQueue` |
| `BoundedQueue` | what the ring buffer promises: a bounded FIFO queue, empty-handed only when closed or timed out |
| `RingBuffer` | `ring_buffer.h`, with its two condition variables; refines `BoundedQueue` |
| `StreamSession` | `stream_session.cc` over `ffmpeg_media_source.cc`: owner, pull thread, consumer |
| `MySQLClient` | `MySQLClient.cc` and what it assumes of the database: operators from a state to its outcomes |
| `DataServices` | the services, the login gate and the queries, interleaved over one `MySQLClient` |
| `TcpClient` | the Qt client's `TcpClient.cpp`: the socket and its reconnection |
| `ClientSession` | the Qt client's `UserService.cpp` on its `TcpClient`, with the server as a set of requests to answer |
| `Framing` | both framings: `Protocol.cc`, `media_packet.cc`, `media_reassembler.cc` and the client's packet parser |
| `MessageCodec` | the bodies of all messages, as the client and as the server write and read them |
| `Exchange` | one connection from the user's request to the service and back, with a media stream mixed in |
| `ServerStreamPlayer` | the decoding thread of `ServerStreamPlayer.cpp` on `ffmpeg_decoder.cc` |
| `FfmpegPlayer` | `RtspPlayer.cpp` and `FilePlaybackPlayer.cpp` over an ffmpeg process |
| `PtzClient` | `PtzClient.cpp` and its buttons, directly and through the server |
| `MainWindow` | `MainWindow.cpp` and the device tree and buttons of `MonitoringDashboard.cpp` |
| `ConnectionProofs`, `ThreadPoolProofs`, `MediaControlProofs`, `DataServicesProofs`, `ClientSessionProofs` | theorems about the component of that name |
| `StreamSessionProofs` | theorems about `RingBuffer` and `StreamSession` |
| `ExchangeProofs` | theorems about `Framing`, `MessageCodec` and `Exchange` |
| `ClientUiProofs` | theorems about `ServerStreamPlayer`, `FfmpegPlayer`, `PtzClient` and `MainWindow` |
| `MCConnection`, `MCQueues`, `MCMediaControl`, `MCStreamSession`, `MCDataServices`, `MCClientSession`, `MCExchange`, `MCClientUi` | constants and symmetries for TLC |

**Connection.** One step is a stretch between two points at which another thread
can be observed: taking `_sendMutex`, the `epoll_ctl` made by the callback while
it is held, a single `send()`. The mutex is a variable, so the order of the queue
change, the epoll change and the unlock is what the code does. Descriptors are
numbers owned by one connection at a time and given out again, while connection
objects live on in the threads that hold them. `send` takes any part of the
rest; a full kernel buffer gives EAGAIN, a reset peer EPIPE. The ways into
`closeConnection` are a fatal flush, EPOLLERR, end of file, and the idle scan.

**ThreadPool.** A critical section of `_mtx` is one step (nothing in it blocks
and everything shared is touched under it); `notify_one` and `notify_all` happen
after the unlock and are steps of their own; a wait may end spuriously.

**MediaControl.** One step is one access to the maps under `_streamsMutex` (two
accesses in one critical section are two steps, because `conn->fd()` is read
again for each and can change in between) or one operation outside it. `Close`
to `CloseShut` is `closeConnection` on the reactor thread, `finalizeRecording`
is shared by it and by handlers. Replacing a map entry destroys the old object:
`DropStream` and `DropRecorder` are the joins and waits in those destructors.
`Destroy` is the end of the process: pool drained, connections and maps freed.
A request carries only its kind; a `mockStart` is a STREAM_START with an empty
or mock URL, an `invalid` request any one that is answered without touching the
maps. Login has been checked before (lines 409-422), and the pool is
its abstract queue, which `ThreadPool` is proved to implement.

**RingBuffer.** Each operation is one step from the lock to the unlock or to the
wait; the notification is made under the lock and belongs to the step. A waiter
leaves the lock and comes back when it is notified, when its time is up, or
spuriously. The array, `head`, `tail` and `size` are kept as in the code, so that the
wrap-around is part of what is checked.

**StreamSession.** The owner calls start, stop, reconnect, startRecord and
stopRecord one after the other; each call that touches the pull thread is as many
steps as it has operations on shared state. `readPacket` and the reopening of the
source hold the source's mutex while they wait for the camera, which is why they
have a beginning and an end. The send queue is the abstract queue of `RingBuffer`:
one step per operation, and a pop that waits is one that is not enabled yet.
A frame is `<<connection to the camera, number in it>>`; one that the encoder refuses
takes no number. A write to the recording may fail and leave a torn frame in the file;
the pull thread does not notice.

**MySQLClient, DataServices.** Every method of `MySQLClient` holds its mutex from
beginning to end, so a method is an operator that maps a state to the set of states
it may end in: the statement answered, refused, or lost before or after it was
performed, then the reconnect, the restart of a transaction and the one retry.
The state holds the client's flags, the session the server keeps for it, and the
rows, committed or pending; rows carry their writer and the attempt, so that a row
stored twice is seen. `DataServices` makes one step of each call. What is not
under the mutex is what interleaves: the statements of one login or registration,
`lastErrno()`, and `escape()`, whose empty result is kept (`blank`). The login gate of
the reactor comes before the queries. Passwords, hashes and the values of rows are
left out; a wrong password is a choice.

**TcpClient, ClientSession.** The client's networking lives in one event loop, so one
step is one handler with every slot its signals call, synchronously and in their
order: a lost connection is Qt's error (`onSocketError`, `onTcpError`), then its
`disconnected()` (`onDisconnected` of both classes). `ClientSession` extends
`TcpClient` and conjoins what the slots of `UserService` do. A method of
`UserService` is an operator on the record `user`, because they call each other;
the request timer, the flag `m_dispatchScheduled` and the zero timers it stands for
are kept apart (a disconnection clears the flag and leaves the timer posted). The
queue is a set: `Place` shows how its order follows from the ids and from stops
going to the front. The windows are a client that may make any request at any time.

**Framing, MessageCodec, Exchange.** A byte stream is a sequence of cells, one for each
header field and one for 16 bits of a body, and TCP may cut it between any two; a
field whose bytes are not all there is not there, so a cut inside a cell is a cut
before it. Resynchronisation after a bad frame goes cell by cell. Type and version of
a message are one cell, because they are the four bytes that the client reads as the
length of a frame. No cell of a body has the value of a known type and version, so
what is found behind a discarded header is never a message by accident; with
arbitrary bytes it could be. `MessageCodec` has one operator for each encoder and
decoder of either side, made from a layout; the base of the cells is a parameter.
`Exchange` follows a request through the client's encoder, `readMessage`, the gate, the
handler and its checks to a service, which is a choice among results, and back.
Workers answer in any order. The pool may refuse any message (`addTask`'s result is not looked
at, `reactor.cc:202`): it is then in `refused` and never answered. A header that the client
cannot read is reported as a bad packet when a request is under way; what the window shows
without one is left out. Logins do not expire and the connection is not lost
here: `DataServices`, `MediaControl` and `ClientSession` are about that.

**ServerStreamPlayer.** A critical section is one step, the notification and the join
after it are steps of their own. Pictures and the failure are queued signals to the
GUI thread. Two quirks stay visible: pictures that are queued when `stop()` returns are
drawn after "stopped", and a `start()` between the decoder's failure and
`m_workerRunning = false` does nothing.

**FfmpegPlayer.** `live` chooses between the two players. `stop()` blocks the GUI thread in
`waitForFinished`, which handles the process's signals meanwhile, so everything that may
happen to a process may happen between `BeginStop` and `StopEnds`. The buffer and its limit
are counted in bytes. After `QProcess::ReadError`, which leaves the process running, the
watchdog is off for good if the retry finds the process still running
(`RtspPlayer.cpp:204`, 74): `StreamAttended` excludes it.

**PtzClient.** A request to the camera is on the wire until the camera has carried it
out, the network has lost it, or `abort()` has caught it; those on different connections
arrive in any order. Through the server there is one at a time and one waiting. A
pressed button has the focus, and disabling a button takes its focus away, which
`eventFilter` answers with `stopMove()`. This is the stop that choosing another camera sends
(`MonitoringDashboard.cpp:577`), and `setCamera`, called next, aborts the request that
`m_controlReply` stands for (`PtzClient.cpp:36-41`): on the direct way, the stop just posted
(section 3). A stop that goes through the server is left alone. `link.forgotten` is the newest
stop lost so, `link.gone` the newest that arrived or was lost elsewhere.
A failed request disables the stop button as well; failures through the server
never reach `PtzClient`. The stop that the destructor issues may not leave the process.

**MainWindow.** Each step is one click or one slot, with the request queue reduced to its
order: one request under way, the rest behind it. `requests`, `answer` and `overdue` are
`ClientSession` seen from the window; a request given up may still be carried out.
`QMainWindow::setCentralWidget` deletes the widget it replaces, `showDashboardPage` and
`showMetadataPage` go on using both: with `keepsPages` false the model ends there. The
login page is gone after the first login, so nobody logs in again after a lost
connection. After the tree was rebuilt, which item is selected is a choice. The cameras, which
may be none, and `SMARTHOME_STREAM_URL`, which overrides the first one's address at the
login, are chosen at the beginning. Without either the login asks for the stream of "", which
is the server's test picture and cannot be recorded: RECORD_START then fails. The PTZ
requests of the dashboard are among the requests, because their failure, too, ends what the
window waits for. Left out is the turn of the event loop between an answer and the next
request (`QTimer::singleShot(0)`, `ClientSession` has it): the next one counts as sent at once.

The four client parts share no state; `MCClientUi` puts them into one run in which a
behaviour uses one of them. `MCQueues` does the same with the pool and the ring buffer, each
with its own fairness.

### Order of the plan

1. `Connection`, `ThreadPool`, `MediaControl`.
2. `RingBuffer`, `StreamSession` over the abstract queue.
3. `MySQLClient` and `DataServices`.
4. `TcpClient` and `ClientSession`.
5. `Framing`, `MessageCodec`, `Exchange`.
6. `ServerStreamPlayer`, `FfmpegPlayer`, `PtzClient`, `MainWindow`.
7. Left out for now: `FrameQueue` with `decode_session.cc`, and `TsSegmenter`, which only
   their own tests use; `VlcPlayer`, an optional build.

The first six are modelled, and every safety property that a passing run checks is proved
(section 5); what happens in the end is checked by TLC only.

## 3. What the runs check

Bounds are the CONSTANTS of each `.cfg`. Deadlock checking is off in all runs:
clients owe no requests, every history has a bounded number of frames, tasks
or requests, and a server that has shut down stops.

| Run | Instance | Shows |
|---|---|---|
| `connection` | 2 connections, 2 descriptors, 2 senders, frames of 2 bytes, a kernel buffer of 1, 2 frames per connection | `PendingIsArmed` (no stranded output), `InterestMatchesEpoll` (no spinning epoll), `ArmsOwnDescriptor` (a late callback never touches the next owner of the number), `ImplementsChannel`, `EventuallySent` |
| `queues` | pool: 3 workers, 2 producers, 2 callers of stop, 3 tasks, queue of 2; ring buffer: 3 threads, 2 cells, 4 items | of the pool `WakeupsCoverQueue` (no lost wakeup), `StopDrains`, `ImplementsTaskQueue` (each task once, in order), `EventuallyRun`, `StopReturns`; of the buffer `NobodyWaitsInVain` (no waiter sleeps while it could go on), `ImplementsQueue`, `CloseReleases` |
| `media_control` | 2 connections on one descriptor number, 3 requests of every kind, 2 pool threads | `RecorderOwnedOnce`, `FiledOnceWhenStopped`, and, for orderly clients, `MapsFollowConnections`, `OrderlyRecordingsFiled`, `OrderlyCloseLeavesNothing` |
| `media_control_live` | 1 connection, 3 requests to a camera (stream start and stop, record start and stop), 2 pool threads | `HandlersFinish` (every accepted request is answered, every close ends) |
| `stream_session` | a queue of 1, 3 connections to the camera, 3 frames, 1 recording, with and without a sink | `PullThreadJoined`, `GaplessInOrder`, `RecordingMatchesDelivery`, `FreshAfterReconnect`, `CallsReturn` |
| `data_services` | 3 operations of any kind, 1 name, 2 faults | `NoOrphanTransaction`, `TokenIsAccepted`, and, for operations that nothing overlapped, `SuccessIsStored`, `FailureLeavesNothing` |
| `client_session` | 4 requests of any kind, 2 upsets (connection lost or refused, garbage, connect, disconnect), reconnection without limit, as in the program | `AnsweredOnce`, `LoginEndsWithConnection`, `LatestPtzWins`, `RequestsSettle` |
| `wire` | four plans for a connection: a login and two more requests of every type; a stream of three frames; messages and frames of another release on either way; bodies of up to 32 cells | `ServiceSeesRequest`, `AnswerMatchesRequest`, `PacketsInOrder` |
| `client_ui` | player: a queue of 2, 5 frames, 2 starts; ffmpeg: 5 bytes, a buffer of 4; PTZ: 4 requests; window: 2 cameras, or none in use with and without `SMARTHOME_STREAM_URL`, 2 devices, 5 requests | `NewestShown`, `StreamAttended`, `PicturesInPieces`, `StopFollowsMove`, `BeliefsAreTrue` |

Why the bounds suffice. A kernel buffer smaller than a frame makes every flush
partial, two frames and two senders give every order of append and drain, and a
descriptor reused once shows a stale callback. A queue of two and three workers
let several notifications be under way while a worker sleeps. A recording needs
a stream first, so three requests give two overlapping RECORD_STARTs, or a
start overtaken by a stop or a close. With three requests the liveness run reaches every step
of the stream and record handlers, the recorder that a second RECORD_START destroys inside `_streamsMutex` and a
recording stopped and filed by the handler of RECORD_STOP among them; one connection is
enough there, because what a handler can be kept waiting by is the one mutex and its own
connection's close. One descriptor for two connections makes
every reuse a collision. Four items in a ring of two wrap it around twice, and
three threads put a producer and a consumer, or two of a kind, to sleep at once. A
send queue of one frame makes the pull thread wait, and three connections let a
reconnect by the owner meet one by the pull thread. Two faults lose a statement and
its retry, or the answer and the reconnect; three operations let a login be
disturbed by one and looked for by another. A pending request, a queue of two and a
replaced PTZ request take four requests, as do a login, a request under it and
one queued behind; the second upset finds the client in the middle of recovering
from the first. On the wire, every field of every message is cut off once, and one
message of another release between two good ones shows both what a bad header
discards and where the parser finds its way again. Three frames with the bad one in
the middle need a resynchronisation between two good ones; its data reads like the
length of a frame. Five frames overflow a queue of two while the worker holds
one. Five bytes hold a picture with a byte before it, or two markers and half of a
third, against a buffer of four; a picture needs four. Four PTZ requests are a move
that replaces another (start, stop, start) and the stop behind it. Five requests of
the window are the two of the login, a stream, a recording and what disturbs it.

The type invariants are theorems (section 5) and are not listed in the runs.

"Orderly" means that no two requests of one connection were in handlers at the
same time and that no connection was closed while one of its requests was
queued or running; for an operation on the database, that no other was under way
with it. Some promises the code keeps only then; the runs below say what happens
otherwise.

### Where the code departs from its comments and documents

Each of these three runs checks one property that a comment or a document states, and TLC shows a
behaviour of the code that breaks it.

| Run | Statement | Behaviour |
|---|---|---|
| `shared_transaction` | `UserService.cc:192`: a session is written and committed in one transaction | another worker's call reconnects in between and restarts an empty transaction; the login commits that and answers SUCCESS without a session |
| `wrong_camera` | `MonitoringDashboard.cpp:426`: recording a device must not take the first camera by mistake | with a server stream active, `handleRecordStart` (`MainWindow.cpp:821`) sends RECORD_START at once, and the server records the stream's URL; the window never stops the stream, so after the first recording every other one records the same camera |
| `forgotten_stop` | `qt-direct-rtsp-dashboard-design.md:57`, `client/qt/README.md:42`: letting go of a button, leaving it or losing the focus sends a stop, so that the camera does not go on moving | choosing another camera takes the focus from the pressed button, the stop is posted, and `setCamera` aborts it in the same call (`MonitoringDashboard.cpp:574-609`, `PtzClient.cpp:36-41`), as it aborts a stop that letting go has sent just before; nothing sends another and the camera may go on moving |

Three more properties are defined with their modules and can be looked at by
changing a configuration:

* `ClosedRecordingsFiled` (`reactor.cc:249`: every way of closing takes the same finishing
  path). A RECORD_START that is still launching ffmpeg when the connection closes stores
  its recorder under -1, where nobody stops or files it. Use it as the only INVARIANT in
  `MCMediaControl.cfg`.
* `NoWaitUnderMutex` (`reactor.cc:496` and `288`: never stop a pull thread or wait for
  ffmpeg inside `_streamsMutex`). A second STREAM_START destroys the first session inside
  it, an overlapping RECORD_START the first recorder. In the same way.
* `CloseUnblocksRead` (`stream_session.cc:41`: closing the source makes the thread that
  blocks in `readPacket` return). `close()` waits for the mutex that the reader holds
  (`ffmpeg_media_source.cc:58`, `96`); with a camera that is silent without hanging up,
  `stop()` waits for ever. In `MCStreamSession.cfg`, take `SilentCameraSpec`, set all four
  constants to 1 and make it the only PROPERTY.

The first race also leaves a stream session under -1 (STREAM_START overtaken by the
close). Recordings that run at shutdown are stopped and not filed (`Destroy`), which
is why `OrderlyRecordingsFiled` ends where the process does. The result of `addRecord` is not
looked at (`reactor.cc:294`), so a recording whose row could not be stored is reported as
stopped all the same; `AddRecords` keeps both outcomes.

Other departures were met while modelling; the modules behave as the code does, and
their properties are stated around them.

* `UserService.cpp:443` has the requests of a client that is not logged in survive a short
  disconnection. `onDisconnected` keeps them, but when one of their kind was pending,
  `failPending` schedules the next at once (449-451): it is sent while the socket is down,
  fails, and so does the next one. Only what is queued while nothing is pending waits for
  the reconnection. `RequestsSettle` counts these failures as settled.
* `MainWindow.cpp:812` wants no second stream while the first is being set up, but any
  failed request clears `m_serverStreamStarting` (791): after a refused query, another click
  sends a second STREAM_START. `BeliefsAreTrue` allows it: it is about streams believed to run.
* `MainWindow.cpp:762` plays "the most recent" recording by taking row 0, and the server
  sorts by start time, oldest first. `m_pendingPlayback` belongs to no query: the answer to
  an earlier one, of another device, is played.
* `MainWindow.h` keeps pointers to pages that `setCentralWidget` deletes. The tests that
  switch pages and back never run the event loop in which the deletion takes place.
* After a lost connection the window offers no login, and the record button still says
  "stop" (the slot at 325-334 does not reset `m_recordingActive`).
* A PTZ stop that follows its start at once may overtake it, or abort it too late
  (`PtzClient.cpp:201`), and the camera goes on: `StopFollowsMove` asks for a stop that
  was issued, not for one that arrived.
* A list of more than 1 MiB is encoded all the same (`ResourceHandler.cc:157`, `194`); the
  client discards its buffer and reports a bad packet. In general a bad header
  discards the good messages behind it (`Protocol.cc:85`), on both sides.

## 4. Fairness

* `Connection`: weak fairness of a thread inside the mutex and of the reactor's
  steps once begun; strong fairness of handling a ready descriptor, because
  `epoll_wait` is level-triggered, the loop visits every reported event, and 64
  slots are reported in turn, while the event is disabled whenever the reactor is
  busy; weak fairness of a peer that reads. No fairness for senders, for a peer
  that closes, or for the idle scan.
* `ThreadPool`: weak fairness of each thread that can run, of a task's end, of a
  notification after the unlock. None for callers of addTask or stop, none for
  spurious wakeups.
* `MediaControl`: weak fairness of each handler and of the reactor inside a close.
  This assumes that ffmpeg ends after SIGTERM (`waitpid` returns), that a source opens or
  fails, and that a pull thread can be joined. So `HandlersFinish` says that nobody waits
  for the mutex, the queue or each other without end; it does not say that those
  three end. A join that does not is `CloseUnblocksRead` of the stream session
  (section 3), a child that ignores SIGTERM is not modelled.
* `RingBuffer`: weak fairness of every thread that is at the lock. None for new
  calls, time-outs and spurious wakeups.
* `StreamSession`: weak fairness of the owner inside a call, of the pull thread and of
  the consumer; an attempt to open the source ends. `FairSpec` adds a camera that
  sends or hangs up, which is what `CallsReturn` needs: without it the code does not
  return from `stop()` (section 3).
* `ClientSession`: weak fairness of the request timer, of a posted dispatch, of the
  reconnection timer, of the end of a connection attempt and of the end of a
  disconnection, which the event loop and Qt grant. None for the windows, none for
  the server: `RequestsSettle` holds although it need not answer anything.

Weak fairness of lock acquisition is enough because a lock holder never waits
for another lock holder in these models; that a holder always releases is what
`HandlersFinish` checks. `Exchange` and the client's parts are checked for safety; what must
happen in the end is stated for states in which nothing is left to do (`Quiet` in
`NewestShown`).

## 5. Proofs

The proof modules hold for every value of the constants that satisfies the
named assumptions (`ConnectionAssumption`, `ThreadPoolAssumption`, `MediaControlAssumption`,
`RingBufferAssumption`, `StreamSessionAssumption`, `DataServicesAssumption`,
`TcpClientAssumption`, `ClientSessionAssumption`, `FramingAssumption`, `CodecAssumption`,
`PlansAssumption`, `ResultsAssumption`, `PlayerAssumption`, `MainWindowAssumption`), all of
which TLC evaluates in the runs. They say that sizes and counts are natural numbers, that names which stand for "none" are not members of the
sets they are used with, and, of the program: that no message type reads as the length
of a frame (`FramingAssumption`), and that the address of a configured camera is neither
empty nor the test picture (`isRtspUrl`, `CameraConfig.cpp:103`; there may be no camera). The
three of `MessageCodec` and `Exchange` are explained with `ExchangeProofs`.

**ConnectionProofs** proves `TypeOK`, `PendingIsArmed`, `InterestMatchesEpoll`,
`ArmsOwnDescriptor` and `ImplementsChannel`. None is inductive. The strengthening `IInv` says who holds
`_sendMutex` and in which step (a sender in "arm", the reactor in "flush" or
"disarm"); that a connection's descriptor, the table `_conn`, the owner of the
socket and the captured callback descriptor agree while it is open; and what the
flag and the registration are in the window in which they differ. The proof goes
action by action; the descriptor cannot be closed and reused while a sender is in
the callback, because the close needs the same mutex. The refinement rests on
`StreamInv`: the bytes on the wire continue each other from the first one on, and while the
connection is open, the rest of the buffer continues them, up to the end of
the last frame accepted. A send moves the boundary between the two and maps to a step of
the channel; a close drops the rest.

**ThreadPoolProofs** proves `TypeOK`, `WakeupsCoverQueue`, `RunsOnce`, `StopDrains` and
that `Spec` implements `TaskQueue`'s. `WakeupsCoverQueue` counts: a worker that takes
a task uses up one queued task and its own place at the lock, a notification
gives way to the worker it wakes or finds nobody asleep. The lemmas about
cardinalities of "workers at a step" carry the count. The refinement maps the
queue to `pending` and the tasks of the workers to `running`; `Parallel` becomes the
number of workers, so `Start` needs a worker that is not running (`SpareWorker`).

**MediaControlProofs** proves `TypeOK`, `RecorderOwnedOnce`, `FiledOnceWhenStopped` and, for
orderly clients, `MapsFollowConnections`, `OrderlyRecordingsFiled` and
`OrderlyCloseLeavesNothing`. `Safe` needs no orderly client: each request passes through the
pool once, who is in a step that touches the maps holds `_streamsMutex`, a recorder
that records is in exactly one place, the map or the hands of one thread
(`RecorderInv`, `OneOwner`), and a row is written only for one that was stopped and
let go (`FiledInv`). `Orderly` is what the discipline adds: one handler per connection
(`OneAtATime`), none beside a close (`ClosesAlone`), maps that agree with each other but
for the entry the holder of the mutex is about to change (`MapsMatch`), recordings in hand that
carry their own label (`FilesOwn`), and sessions that run in the map or in the hands of
whoever stops them (`SessionsFollow`). The inductive invariant is
`Safe /\ (orderly => Orderly)`: a step that makes a history disorderly owes nothing more.

**StreamSessionProofs** proves `TypeOK`, `PullThreadJoined`, `FreshAfterReconnect`,
`GaplessInOrder` and `RecordingMatchesDelivery`.
`CallInv` says, for each step of a call, what it has established (whether the session
runs, whether the pull thread can exist, whether the quit flag is up);
`FreshInv`, that frames in the queue and in the thread's hands are of the
connection promised or a later one, except while `reconnect` is on its way.
`FlowInv` follows the frames from the camera through the pull thread's hand and the queue
to the client: each part is a chain, each continues the one before it, and wherever
another frame may be read it continues what was passed on last, so frames are
dropped only at the end of a connection. `RecordInv` has every finished file cover a
part of the stream without a gap, and the current one end where the stream ends.

The first part of the module is about `RingBuffer`: it proves `TypeOK`, `NobodyWaitsInVain` and
that the buffer implements `BoundedQueue`. The invariant adds to them that `tail` is `head + size` modulo the
capacity (`Wrap` is the lemma about the modulus); the refinement reads the queue out
of the array from `head` on, and shows that a write at `tail` appends and a step of
`head` takes the first.

**DataServicesProofs** proves `TypeOK`, `NoOrphanTransaction` and what is promised to an
operation that nothing overlapped: `SuccessIsStored`, `FailureLeavesNothing`,
`TokenIsAccepted`. A lemma per method of
the client says which outcomes can leave a transaction: `execute`, `query` and `escape` only
if there was one, a failed `beginTransaction`, `commit` and `rollback` never. `Sound` adds
that a lost session has no transaction and a client without a connection thinks of
none; with it the invariant follows operation by operation. For the promises `Books` says,
for each operation that was alone so far and each of its steps, which rows it has pending
and which committed (`Balance`); that an operation which is alone has no other under way
(`Aloneness`), so that nobody restarts its transaction; and that a token looked for is
that of a login that succeeded (`Token`).

**ClientSessionProofs** proves `TypeOK`, `AnsweredOnce`, `LoginEndsWithConnection` and
`LatestPtzWins`. A lemma per method of `UserService` shows that it keeps `Good`: the
requests it holds have distinct ids, given out, unreported and not dropped
(`HeldOnce`). `AboutRequests` says that what the server holds and what is on its way
back has left the queue, and that a positive answer is about a request that was
carried out; without it a late answer could match a request that is still waiting.
`OfConnection` ties the login and what was made under it to the number of the
connection, `PtzInOrder` adds that the last PTZ id written is below the next id. All of it
holds with or without automatic reconnection, for any limit of attempts.

**ExchangeProofs** proves `ServiceSeesRequest`, `AnswerMatchesRequest` and `PacketsInOrder`, and on
the way what the framing and the codecs promise. It goes from the cells to the state.

*Recursion.* Digits, flattened lists and the parsers' folds are recursive functions, and the
library's induction theorems cannot be instantiated here. Their content is used in the
form of sets: a set of naturals that is not empty has a least element (`Least`, from
`NatLessThanWellFounded`), so a set that holds 0 and follows upward is everything
(`Upward`), and a function defined by recursion satisfies its equation (`Recursion`).

*Codecs.* `NumberBack`: the readers of 16, 32 and 64 bits return what the writers wrote.
`SpelledParses`: a parser that has the layout of the writer reads its fields and ends where
the body ends, for any layout. `RequestTravels` and `AnswersFit` are these two for every
request type and for every answer of every handler: the client's code against the
server's, which were written separately.

*Framing.* The client's parser and the server's treat every buffer alike (`ParsersAgree`); an
encoded message or frame is taken out whole, whatever follows it, and not before it is
complete, wherever it was cut (`MessageSurvivesCuts`, `FrameSurvivesCuts`); the client,
which has only the first cells to tell the two apart, is never wrong about it
(`NoMessageReadsAsFrame`, `FrameReadsAsFrame`); and `NextIs` says what the reassembler takes and
skips on any buffer.

*State.* The three invariants are far from inductive, because they say nothing of what is on
its way. `IInv` does, for what a side has buffered followed by what has not arrived yet as one
sequence of cells in each direction, so that a `ServerRead` or `ClientRead` that cuts it
anywhere changes nothing:

| Part | Says | Needed because |
|---|---|---|
| `Typing` | what the variables are made of; `asked` follows the plan | |
| `Requested`, `Once` | what reads as a header on the way to the server belongs to a request as it was asked, or to a harmless message; each request is on its way, with a worker, answered or refused by the pool, not twice | a header that another release wrote throws away a part of the buffer, and parsing goes on at the next thing that reads as a header |
| `Understood`, `Served` | the answers meant are those of requests that were asked | the answer is written after the request is gone |
| `NothingLost` | without other releases every request is still somewhere or was refused, and the cells are whole messages | the second half of `ServiceSeesRequest` |
| `Replied` | what reads as a header on the way to the client is an answer that a handler meant for that id, or a harmless one | `AnswerMatchesRequest` |
| `Aligned` | while no other release has answered, the cells are whole messages and frames, and what was left waits for its end | a `BadPacket` or a "format error" needs an answer that is too large, or another release |
| `Told` | a request is reported once, and rightly | the result |
| `FramesRight`, `ShownRight`, `NoneMissing` | frames in the reassembler and on their way are those of the plan, in order; what was shown is older than they are; no own frame is in none of the three places | `PacketsInOrder` |

`IInv` was model-checked with the constants of `MCExchange` before it was proved.

The theorems hold for all plans, results, limits and sizes that satisfy three assumptions.
`CodecAssumption`: a cell has at most 65536 values, so that none of a text or of a number
reads as the type and version of a message (65536 times 4097 and more); a body holds at
least an answer of fixed size, seven cells. In the program a cell of a body is 16 bits and
`MaxBody` is 1 MiB (`Protocol.h:21`). `PlansAssumption`: users ask with values of
the types of `UserService`'s methods (of any length: a text that is too long is part of what is
proved); frames have ascending time stamps, which name them, and data of the size that the
serializer accepts, in this version or another; and what another release sends is made of
whole messages that cannot be read as a request or an answer of this one, headers with a
length that is refused, and any cells that are neither a header nor the magic of a frame, such
as unknown types and other versions. It does not stop in the middle of a message: that would
take the next request for its body. `ResultsAssumption`: the services find values of the columns' types,
which are shorter than a text of the protocol may be (`VARCHAR` columns of at most 512
characters in `init.sql`, against 65535), and make a token that fits. The assumption that cells of
bodies, time stamps and ids do not read as headers matters only behind a bad header, where
the real parsers, too, take bytes for what they look like: what they find in the middle of a
text is then as unpredictable as bytes are, and nothing is claimed about it.

**ClientUiProofs** has a section for each of four modules that share no variable; there are two for
`FfmpegPlayer`.

* `StreamAttended` of `FfmpegPlayer`: what `stop()` finds and leaves has to be known (only a
  player of a file goes on behind it), and that a timer and a process that works
  exclude each other but for the read error described in section 2 (`FfmpegInv`).
* `PicturesInPieces` of `FfmpegPlayer`: `PipeInv` says that the scan over the pieces so far, with the
  buffer it left, is the scan over all bytes, unless the buffer overflowed. The scan is a
  recursive function; what it takes from a sequence with a piece more is what it took
  before, and then what it takes from the rest, by the least counterexample as in `ExchangeProofs`.
* `StopFollowsMove` of `PtzClient`: every move that the camera obeys or may yet obey is held by
  the user, or a newer stop waits, is on the wire, or was lost: on the way, for want of a login
  or, on the direct way, to `setCamera` (`Settled`). The lemmas about `Covered` show that no
  loss, no abort and no request carried out uncovers a move: the abort before a new request
  leaves the newest one, and only the abort of `setCamera` counts as forgetting.
* `BeliefsAreTrue` of `MainWindow`, for any configured cameras, none included, and any
  `SMARTHOME_STREAM_URL`: window and server differ only by the answer that the window has
  not handled (`InStep`), because the server carries out the first request only, until one is
  given up; requests in the queue are sane for the stream they find (`Queued`), which is the
  test picture only if the login asked for it (`Streams`, `TestPictures`).
* `NewestShown` of `ServerStreamPlayer`: the queue holds the newest numbers without a gap, and the
  last one accepted is decoded, queued or in the worker's hands (`QueueInv`); the pictures
  drawn and those queued as signals are in order and end with the newest (`PictureInv`).

Only model-checked:

* all liveness (`EventuallySent`, `EventuallyRun`, `StopReturns`, `CloseReleases`, `HandlersFinish`,
  `CallsReturn`, `RequestsSettle`): the prover has no ENABLED, and fairness is stated with it;
* the three departures from comments and documents, which are behaviours of an instance (section 3).

## 6. Not modelled

The components listed as not modelled in `PROJECT.json`, with the reason;
`FrameQueue`, `decode_session.cc` and `TsSegmenter`, which only their own tests use.
Within the modelled parts: the bytes of messages, logging and formatting; the clock (an idle close may happen at any time, and the
directories of recordings are taken to be different); memory allocation failures; `EINTR`
retries; the descriptors of the listening socket and of epoll; a `stop()` that
comes before `run()` has set its flag. In the client: request ids that wrap around at 2^32;
the delays of the timers; a write that the socket takes in part; a slot of a window
that makes a new request inside a signal, other than the recording behind its stream;
the login and registration forms, layout and painting; the file of the cameras; the
optional VLC player.
