----------------------------- MODULE StreamSession -----------------------------
(***************************************************************************)
(* server/src/media/stream_session.cc over ffmpeg_media_source.cc: one     *)
(* thread owns the session (start, stop, reconnect, startRecord,           *)
(* stopRecord), the pull thread reads the camera, and a consumer may wait  *)
(* in nextSendPacket.  With a sink the pull thread delivers the frames     *)
(* itself; without one they go through the send queue.                     *)
(*                                                                         *)
(* A step is a stretch in which one thread holds a mutex or touches an     *)
(* atomic.  readPacket and the open in reconnect keep the source's mutex   *)
(* while they wait for the camera, so they have a beginning and an end.    *)
(* The send queue is RingBuffer's abstract queue: each operation of it is  *)
(* one step, and a wait is an operation that is not enabled yet.           *)
(*                                                                         *)
(* A frame is <<connection to the camera, number in it>>.  Frames that     *)
(* encode() refuses have no number.                                        *)
(***************************************************************************)
EXTENDS Naturals, Sequences

CONSTANTS
  QueueCapacity,  (* 64 in the constructor *)
  MaxOpens,       (* bound: successful opens of the source *)
  MaxFrames,      (* bound: frames the camera sends *)
  MaxRecords      (* bound: recordings *)

ASSUME StreamSessionAssumption ==
  /\ QueueCapacity \in Nat \ {0}
  /\ MaxOpens \in Nat /\ MaxFrames \in Nat /\ MaxRecords \in Nat

VARIABLES
  direct,       (* _sink is set; chosen before start *)
  running,      (* _running *)
  pullQuit,     (* _pullQuit *)
  opened,       (* the source's _opened *)
  opens,        (* how often the source was opened: the current connection *)
  number,       (* the number of the last frame of this connection *)
  sent,         (* history: how many frames the camera has sent *)
  sourceHeld,   (* the pull thread holds the source's _mutex *)
  queue,        (* _sendQueue *)
  queueClosed,  (* its _closed *)
  recording,    (* _recorder is set *)
  files,        (* the frames of each recording file, the current one last *)
  ownerAt, pullAt, consumerAt,  (* where each thread is *)
  frame,        (* pkt, and bytes, of the pull thread *)
  delivered,    (* history: frames that reached the sink or the consumer *)
  fresh         (* history: the connection promised by the last reconnect *)

sourceVars == <<opened, opens, number, sent, sourceHeld>>
queueVars == <<queue, queueClosed>>
recordVars == <<recording, files>>
threadVars == <<ownerAt, pullAt, consumerAt>>
vars == <<direct, running, pullQuit, sourceVars, queueVars, recordVars, threadVars,
          frame, delivered, fresh>>

Frames == (0..MaxOpens) \X (0..MaxFrames)
Torn == <<0, 0>>  (* a frame whose write failed; no frame has this number *)
OwnerSteps == {"idle", "quit", "close", "closeQueue", "clearQueue", "join", "finish",
               "reclose", "rejoin", "reopen", "reclear", "restart"}
PullSteps == {"off", "check", "lock", "read", "failed", "record", "deliver",
              "push", "retry", "opening", "ended"}

TypeOK ==
  /\ direct \in BOOLEAN /\ running \in BOOLEAN /\ pullQuit \in BOOLEAN
  /\ opened \in BOOLEAN /\ sourceHeld \in BOOLEAN
  /\ queueClosed \in BOOLEAN /\ recording \in BOOLEAN
  /\ opens \in 0..MaxOpens /\ number \in 0..sent /\ sent \in 0..MaxFrames
  /\ queue \in Seq(Frames) /\ Len(queue) <= QueueCapacity
  /\ files \in Seq(Seq(Frames))
  /\ ownerAt \in OwnerSteps /\ pullAt \in PullSteps /\ consumerAt \in {"idle", "pop"}
  /\ frame \in Frames
  /\ delivered \in Seq(Frames)
  /\ fresh \in 0..MaxOpens

Init ==
  /\ direct \in BOOLEAN
  /\ running = FALSE /\ pullQuit = FALSE
  /\ opened = FALSE /\ opens = 0 /\ number = 0 /\ sent = 0 /\ sourceHeld = FALSE
  /\ queue = <<>> /\ queueClosed = FALSE
  /\ recording = FALSE /\ files = <<>>
  /\ ownerAt = "idle" /\ pullAt = "off" /\ consumerAt = "idle"
  /\ frame = <<0, 0>>
  /\ delivered = <<>> /\ fresh = 0

OwnerGoes(from, to) ==
  /\ ownerAt = from /\ ownerAt' = to
  /\ UNCHANGED <<direct, consumerAt, frame, delivered>>

PullGoes(from, to) ==
  /\ pullAt = from /\ pullAt' = to
  /\ UNCHANGED <<direct, running, pullQuit, ownerAt, consumerAt, fresh>>

-------------------------------------------------------------------------------
(* The source, as both threads use it.                                      *)

SourceCloses ==
  /\ ~sourceHeld
  /\ opened' = FALSE
  /\ UNCHANGED <<opens, number, sent, sourceHeld>>

SourceOpens ==
  /\ opens < MaxOpens
  /\ opened' = TRUE /\ opens' = opens + 1 /\ number' = 0
  /\ UNCHANGED sent

SourceStaysClosed == opened' = FALSE /\ UNCHANGED <<opens, number, sent>>

-------------------------------------------------------------------------------
(* The owner.                                                               *)

(* start(), if the source opens; otherwise nothing changes, and that is no  *)
(* step.  After a stop() it starts again, but the queue stays closed.       *)
Start ==
  /\ ~running
  /\ SourceOpens
  /\ running' = TRUE /\ pullQuit' = FALSE
  /\ pullAt' = "check"
  /\ OwnerGoes("idle", "idle")
  /\ UNCHANGED <<sourceHeld, queueVars, recordVars, fresh>>

(* stop(): five operations in a row if the session was running, then the    *)
(* recording is ended in any case.                                          *)
Stop ==
  /\ running' = FALSE
  /\ OwnerGoes("idle", IF running THEN "quit" ELSE "finish")
  /\ UNCHANGED <<pullQuit, sourceVars, queueVars, recordVars, pullAt, fresh>>

StopQuit ==
  /\ pullQuit' = TRUE
  /\ OwnerGoes("quit", "close")
  /\ UNCHANGED <<running, sourceVars, queueVars, recordVars, pullAt, fresh>>

StopClose ==
  /\ SourceCloses
  /\ OwnerGoes("close", "closeQueue")
  /\ UNCHANGED <<running, pullQuit, queueVars, recordVars, pullAt, fresh>>

StopSkipsCloseQueue == \* mutant: the consumer is not released
  /\ OwnerGoes("closeQueue", "clearQueue")
  /\ UNCHANGED <<running, pullQuit, sourceVars, queueVars, recordVars, pullAt, fresh>>
StopCloseQueue ==
  /\ queueClosed' = TRUE
  /\ OwnerGoes("closeQueue", "clearQueue")
  /\ UNCHANGED <<running, pullQuit, sourceVars, queue, recordVars, pullAt, fresh>>

StopClearQueue ==
  /\ queue' = <<>>
  /\ OwnerGoes("clearQueue", "join")
  /\ UNCHANGED <<running, pullQuit, sourceVars, queueClosed, recordVars, pullAt, fresh>>

StopDetaches == \* mutant: the thread is not waited for
  /\ OwnerGoes("join", "finish")
  /\ UNCHANGED <<running, pullQuit, sourceVars, queueVars, recordVars, pullAt, fresh>>
StopJoin ==
  /\ pullAt = "ended" /\ pullAt' = "off"
  /\ OwnerGoes("join", "finish")
  /\ UNCHANGED <<running, pullQuit, sourceVars, queueVars, recordVars, fresh>>

StopFinish ==
  /\ recording' = FALSE
  /\ OwnerGoes("finish", "idle")
  /\ UNCHANGED <<running, pullQuit, sourceVars, queueVars, files, pullAt, fresh>>

(* reconnect(): of a session that is not running it does nothing.           *)
Reconnect ==
  /\ running
  /\ pullQuit' = TRUE
  /\ OwnerGoes("idle", "reclose")
  /\ UNCHANGED <<running, sourceVars, queueVars, recordVars, pullAt, fresh>>

ReconnectClose ==
  /\ SourceCloses
  /\ OwnerGoes("reclose", "rejoin")
  /\ UNCHANGED <<running, pullQuit, queueVars, recordVars, pullAt, fresh>>

ReconnectJoin ==
  /\ pullAt = "ended" /\ pullAt' = "off"
  /\ OwnerGoes("rejoin", "reopen")
  /\ UNCHANGED <<running, pullQuit, sourceVars, queueVars, recordVars, fresh>>

(* The source's reconnect(), which succeeds or not; nobody else uses the    *)
(* source now.                                                              *)
ReconnectOpen ==
  /\ SourceOpens \/ SourceStaysClosed
  /\ OwnerGoes("reopen", "reclear")
  /\ UNCHANGED <<running, pullQuit, sourceHeld, queueVars, recordVars, pullAt, fresh>>

ReconnectKeepsQueue == \* mutant: frames of the old connection stay
  /\ OwnerGoes("reclear", "restart")
  /\ UNCHANGED <<running, pullQuit, sourceVars, queueVars, recordVars, pullAt, fresh>>
ReconnectClear ==
  /\ queue' = <<>>
  /\ OwnerGoes("reclear", "restart")
  /\ UNCHANGED <<running, pullQuit, sourceVars, queueClosed, recordVars, pullAt, fresh>>

(* The thread is started again, and true is returned if the source opened.  *)
ReconnectRestart ==
  /\ pullQuit' = FALSE
  /\ pullAt' = "check"
  /\ fresh' = IF opened THEN opens ELSE fresh
  /\ OwnerGoes("restart", "idle")
  /\ UNCHANGED <<running, sourceVars, queueVars, recordVars>>

(* startRecord(): refused while a recording runs; the file may not open.    *)
StartRecord ==
  /\ ~recording /\ Len(files) < MaxRecords
  /\ recording' = TRUE /\ files' = Append(files, <<>>)
  /\ OwnerGoes("idle", "idle")
  /\ UNCHANGED <<running, pullQuit, sourceVars, queueVars, pullAt, fresh>>

StopRecord ==
  /\ recording /\ recording' = FALSE
  /\ OwnerGoes("idle", "idle")
  /\ UNCHANGED <<running, pullQuit, sourceVars, queueVars, files, pullAt, fresh>>

-------------------------------------------------------------------------------
(* The pull thread: pullLoop().                                             *)

PullCheck ==
  /\ PullGoes("check", IF pullQuit THEN "ended" ELSE "lock")
  /\ UNCHANGED <<sourceVars, queueVars, recordVars, frame, delivered>>

(* readPacket() takes the mutex and finds the source closed, or waits for   *)
(* the camera with the mutex held.                                          *)
ReadBegin ==
  /\ ~sourceHeld
  /\ sourceHeld' = opened
  /\ PullGoes("lock", IF opened THEN "read" ELSE "failed")
  /\ UNCHANGED <<opened, opens, number, sent, queueVars, recordVars, frame, delivered>>

(* The camera sends a frame; or one that encode() refuses, which the loop   *)
(* skips; or the connection ends.                                           *)
ReadFrame ==
  /\ sent < MaxFrames /\ sent' = sent + 1
  /\ number' = number + 1
  /\ frame' = <<opens, number'>>
  /\ sourceHeld' = FALSE
  /\ PullGoes("read", "record")
  /\ UNCHANGED <<opened, opens, queueVars, recordVars, delivered>>

ReadOversized ==
  /\ sourceHeld' = FALSE
  /\ PullGoes("read", "check")
  /\ UNCHANGED <<opened, opens, number, sent, queueVars, recordVars, frame, delivered>>

ReadEnd ==
  /\ sourceHeld' = FALSE
  /\ PullGoes("read", "failed")
  /\ UNCHANGED <<opened, opens, number, sent, queueVars, recordVars, frame, delivered>>

(* Nothing was read: leave if told to, or reconnect the source: close it    *)
(* and try to open it, with the mutex held.  (It is released in between;    *)
(* all the owner could do then is close what is closed.)                    *)
PullFailed ==
  /\ PullGoes("failed", IF pullQuit THEN "ended" ELSE "retry")
  /\ UNCHANGED <<sourceVars, queueVars, recordVars, frame, delivered>>

RetryClose ==
  /\ ~sourceHeld
  /\ opened' = FALSE /\ sourceHeld' = TRUE
  /\ PullGoes("retry", "opening")
  /\ UNCHANGED <<opens, number, sent, queueVars, recordVars, frame, delivered>>

RetryOpened ==
  /\ SourceOpens /\ sourceHeld' = FALSE
  /\ PullGoes("opening", "check")
  /\ UNCHANGED <<queueVars, recordVars, frame, delivered>>

RetryRefused ==
  /\ SourceStaysClosed /\ sourceHeld' = FALSE
  /\ PullGoes("opening", "ended")
  /\ UNCHANGED <<queueVars, recordVars, frame, delivered>>

(* The frame is written to the recording, if there is one.  A write that    *)
(* fails leaves the frame in part or not at all (Recorder::write); the loop *)
(* does not look at the result and writes the next frame behind it.         *)
Record ==
  /\ \/ ~recording /\ UNCHANGED files
     \/ recording /\ \E written \in {frame, Torn} :
          files' = [files EXCEPT ![Len(files)] = Append(@, written)]
  /\ PullGoes("record", "deliver")
  /\ UNCHANGED <<sourceVars, queueVars, recording, frame, delivered>>

(* With a sink: the frame is delivered.                                     *)
SinkUnlessQuit == \* mutant: the sink is skipped when the thread must leave
  /\ direct
  /\ delivered' = IF pullQuit THEN delivered ELSE Append(delivered, frame)
  /\ PullGoes("deliver", "check")
  /\ UNCHANGED <<sourceVars, queueVars, recordVars, frame>>
Sink ==
  /\ direct
  /\ delivered' = Append(delivered, frame)
  /\ PullGoes("deliver", "check")
  /\ UNCHANGED <<sourceVars, queueVars, recordVars, frame>>

(* Without one: unless it is told to leave the thread tries to push, and    *)
(* comes back here if there is no room.                                     *)
Backpressure ==
  /\ ~direct
  /\ PullGoes("deliver", IF pullQuit THEN "check" ELSE "push")
  /\ UNCHANGED <<sourceVars, queueVars, recordVars, frame, delivered>>

Enqueue ==
  /\ ~queueClosed /\ Len(queue) < QueueCapacity
  /\ queue' = Append(queue, frame)
  /\ PullGoes("push", "check")
  /\ UNCHANGED <<sourceVars, queueClosed, recordVars, frame, delivered>>

EnqueueOnce == \* mutant: a frame that finds no room is dropped
  /\ queueClosed \/ Len(queue) >= QueueCapacity
  /\ PullGoes("push", "check")
  /\ UNCHANGED <<sourceVars, queueVars, recordVars, frame, delivered>>
EnqueueRefused ==
  /\ queueClosed \/ Len(queue) >= QueueCapacity
  /\ PullGoes("push", "deliver")
  /\ UNCHANGED <<sourceVars, queueVars, recordVars, frame, delivered>>

-------------------------------------------------------------------------------
(* The consumer: nextSendPacket().  A session that does not run answers     *)
(* false at once, which is no step.                                         *)

ConsumerGoes(from, to) ==
  /\ consumerAt = from /\ consumerAt' = to
  /\ UNCHANGED <<direct, running, pullQuit, sourceVars, queueClosed, recordVars,
                 ownerAt, pullAt, frame, fresh>>

NextSendPacket ==
  /\ ~direct /\ running
  /\ ConsumerGoes("idle", "pop")
  /\ UNCHANGED <<queue, delivered>>

PopFrame ==
  /\ queue # <<>>
  /\ delivered' = Append(delivered, Head(queue))
  /\ queue' = Tail(queue)
  /\ ConsumerGoes("pop", "idle")

PopNothing ==
  /\ queue = <<>> /\ queueClosed
  /\ ConsumerGoes("pop", "idle")
  /\ UNCHANGED <<queue, delivered>>

-------------------------------------------------------------------------------
OwnerInCall ==
  \/ StopQuit \/ StopClose \/ StopCloseQueue \/ StopClearQueue \/ StopJoin \/ StopFinish
  \/ ReconnectClose \/ ReconnectJoin \/ ReconnectOpen \/ ReconnectClear \/ ReconnectRestart

Camera == ReadFrame \/ ReadOversized \/ ReadEnd

Pull ==
  \/ PullCheck \/ ReadBegin \/ PullFailed \/ RetryClose \/ RetryOpened \/ RetryRefused
  \/ Record \/ Sink \/ Backpressure \/ Enqueue \/ EnqueueRefused

Consumer == PopFrame \/ PopNothing

Next ==
  \/ Start \/ Stop \/ Reconnect \/ StartRecord \/ StopRecord
  \/ OwnerInCall \/ Camera \/ Pull
  \/ NextSendPacket \/ Consumer

Spec == Init /\ [][Next]_vars

(* Every thread that can go on does, and an attempt to open the source ends *)
(* some time.  Nobody has to call anything.                                 *)
ThreadFairness == WF_vars(OwnerInCall) /\ WF_vars(Pull) /\ WF_vars(Consumer)

(* A camera that may fall silent, and one that sends or hangs up.           *)
SilentCameraSpec == Spec /\ ThreadFairness
FairSpec == SilentCameraSpec /\ WF_vars(Camera)

-------------------------------------------------------------------------------
(* Properties.                                                              *)

(* stop() returns only when the pull thread is gone, so that the sink is    *)
(* never called afterwards (the connection it captured may be closed then), *)
(* and reconnect() starts a thread only when the old one is gone.           *)
PullThreadJoined ==
  (ownerAt = "idle" /\ ~running) \/ ownerAt = "restart" => pullAt = "off"

(* Frames reach the client in the order in which the camera sent them, and  *)
(* within one connection to it none is missing, whichever way they take.    *)
GaplessInOrder ==
  \A i \in 1..(Len(delivered) - 1) :
    LET this == delivered[i]
        next == delivered[i + 1]
    IN  IF next[1] = this[1] THEN next[2] = this[2] + 1
                             ELSE next[1] > this[1] /\ next[2] = 1

(* After a reconnect() that returned true, only frames of the new           *)
(* connection are delivered (stream_session.h, the comment of reconnect).   *)
FreshAfterReconnect ==
  [][delivered' # delivered => delivered'[Len(delivered')][1] >= fresh]_vars

(* A recording holds what the client sees: with a sink, a file is a         *)
(* contiguous part of the delivered stream, but for the frame under way and *)
(* for those whose write failed.                                            *)
RecordingMatchesDelivery ==
  LET stream == IF pullAt = "deliver" THEN Append(delivered, frame) ELSE delivered
  IN  direct => \A f \in 1..Len(files) :
                  \E i \in 0..(Len(stream) - Len(files[f])) :
                    \A k \in 1..Len(files[f]) : files[f][k] \in {stream[i + k], Torn}

(* stop() and reconnect() return, and a consumer that waits for a frame is  *)
(* released when the session stops: again and again a moment comes when     *)
(* neither is under way.                                                    *)
CallsReturn == []<>(ownerAt = "idle" /\ (consumerAt = "idle" \/ running))

(* The comment of stop(): closing the source makes the thread that blocks   *)
(* in readPacket return.  close() waits for the mutex that the reader holds,*)
(* so it is the camera that decides.                                        *)
CloseUnblocksRead ==
  (ownerAt = "close" /\ pullAt = "read") ~> (pullAt # "read")
===============================================================================
