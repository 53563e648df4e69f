------------------------------ MODULE FfmpegPlayer ------------------------------
(***************************************************************************)
(* video/RtspPlayer.cpp and video/FilePlaybackPlayer.cpp: an ffmpeg child  *)
(* process writes JPEG pictures into a pipe.  The player of a camera keeps *)
(* it going with a watchdog and a reconnect timer; the player of a file    *)
(* does not.  Both run on the GUI thread; stop() waits there until the     *)
(* process has ended, and handles what the process still does meanwhile.   *)
(*                                                                         *)
(* Of the bytes, the model tells FF, D8, D9 and one other apart.  Delays   *)
(* (the watchdog's, the growing one of the timer) are left out.  kill()    *)
(* ends a process in time for the second waitForFinished of stop().        *)
(***************************************************************************)
EXTENDS Naturals, Sequences

CONSTANTS
  MaxBuffer,  (* kMaxFrameBufferBytes *)
  MaxBytes    (* bound: bytes of one process *)

VARIABLES
  live,                (* RtspPlayer, or FilePlaybackPlayer *)
  source,              (* the URL or the path is usable *)
  manualStop,          (* m_manualStop *)
  stopping, thenPlay,  (* inside stop(); play() goes on behind it *)
  process,             (* the QProcess: none, starting, running, dying after a kill *)
  timer, watchdog,     (* m_reconnectTimer and m_frameWatchdog are active *)
  label,               (* the last stateChanged *)
  buffer,              (* m_frameBuffer *)
  readFailed,          (* history: this process has had a read error *)
  output, frames, overflowed  (* history since the buffer was cleared *)

ffmpegVars == <<live, source, manualStop, stopping, thenPlay, process, timer, watchdog, label,
                buffer, readFailed, output, frames, overflowed>>
pipeVars == <<buffer, output, frames, overflowed>>

FfmpegInit ==
  /\ live \in BOOLEAN
  /\ source = FALSE /\ manualStop = TRUE /\ stopping = FALSE /\ thenPlay = FALSE
  /\ process = "none" /\ timer = FALSE /\ watchdog = FALSE /\ label = "" /\ readFailed = FALSE
  /\ buffer = <<>> /\ output = <<>> /\ frames = <<>> /\ overflowed = FALSE

-------------------------------------------------------------------------------
(* extractJpegFrames.                                                        *)

Bytes == {"FF", "D8", "D9", "other"}

(* The first place from k on where the two bytes are, 0 if there is none. *)
Find(bytes, marker, k) ==
  LET places == {i \in k .. Len(bytes) - 1 : SubSeq(bytes, i, i + 1) = marker} IN
  IF places = {} THEN 0 ELSE CHOOSE i \in places : \A j \in places : i <= j

(* Mutant of Kept: bytes without a start marker are thrown away. *)
KeptNothing(bytes) == <<>>

(* What is kept of bytes without a start marker: a last byte that may begin  *)
(* one.                                                                      *)
Kept(bytes) == IF bytes = <<>> THEN <<>> ELSE <<bytes[Len(bytes)]>>

Extract(bytes, limit) ==
  LET Result(f, r, o) == [frames |-> f, rest |-> r, overflow |-> o]
      from[i \in 1 .. Len(bytes) + 1] ==
        LET here == SubSeq(bytes, i, Len(bytes))
            start == Find(bytes, <<"FF", "D8">>, i)
            end == Find(bytes, <<"FF", "D9">>, start + 2)
            size == end + 2 - start
        IN IF start = 0 THEN
             IF Len(here) > limit THEN Result(<<>>, <<>>, TRUE) ELSE Result(<<>>, Kept(here), FALSE)
           ELSE IF end = 0 THEN
             IF Len(bytes) + 1 - start > limit THEN Result(<<>>, <<>>, TRUE)
             ELSE Result(<<>>, SubSeq(bytes, start, Len(bytes)), FALSE)
           ELSE LET later == from[end + 2] IN
             IF size > limit THEN [later EXCEPT !.overflow = TRUE]
             ELSE [later EXCEPT !.frames = <<SubSeq(bytes, start, end + 1)>> \o @]
  IN from[1]

-------------------------------------------------------------------------------
(* The calls of the GUI.                                                     *)

ClearBuffer == buffer' = <<>> /\ output' = <<>> /\ frames' = <<>> /\ overflowed' = FALSE

(* stop() up to its wait for the process. *)
BeginStop ==
  /\ ~stopping /\ stopping' = TRUE
  /\ manualStop' = TRUE /\ timer' = FALSE /\ watchdog' = FALSE
  /\ ClearBuffer
  /\ process' = IF process = "none" THEN "none" ELSE "dying"
  /\ UNCHANGED <<live, label, readFailed>>

StopPlayer == BeginStop /\ thenPlay' = FALSE /\ UNCHANGED source
SetSource(good) == live /\ BeginStop /\ source' = good /\ thenPlay' = FALSE
Play(good) == ~live /\ BeginStop /\ source' = good /\ thenPlay' = good

Launch ==
  /\ manualStop' = FALSE
  /\ ClearBuffer
  /\ process' = IF process = "none" THEN "starting" ELSE process

(* The process has ended: stop() returns, or play() goes on. *)
StopEnds ==
  /\ stopping /\ process = "none" /\ stopping' = FALSE /\ thenPlay' = FALSE
  /\ IF thenPlay THEN Launch /\ label' = "playing"
     ELSE label' = "stopped" /\ UNCHANGED <<manualStop, process, pipeVars>>
  /\ UNCHANGED <<live, source, timer, watchdog, readFailed>>

(* start(), called with the state of the timer that it finds. *)
StartStream(timerActive) ==
  /\ timer' = timerActive
  /\ CASE ~source ->
            label' = "misconfigured" /\ UNCHANGED <<manualStop, process, watchdog, pipeVars>>
       [] source /\ (process \in {"running", "dying"} \/ timerActive) ->
            UNCHANGED <<label, manualStop, process, watchdog, pipeVars>>
       [] OTHER -> Launch /\ label' = "connecting" /\ watchdog' = TRUE
  /\ UNCHANGED <<live, source, stopping, thenPlay, readFailed>>

StartPlayer == live /\ ~stopping /\ StartStream(timer)

-------------------------------------------------------------------------------
(* The timers.                                                               *)

RestartAfterBackoff ==
  /\ timer /\ ~stopping
  /\ IF manualStop
     THEN timer' = FALSE /\ UNCHANGED <<live, source, manualStop, stopping, thenPlay, process,
                                        watchdog, label, readFailed, pipeVars>>
     ELSE StartStream(FALSE)

(* scheduleReconnect() finds the timer active or starts it. *)
FrameTimeout ==
  /\ watchdog /\ ~stopping
  /\ watchdog' = FALSE
  /\ IF manualStop \/ process = "none" THEN UNCHANGED <<process, timer, label>>
     ELSE process' = "dying" /\ timer' = TRUE /\ label' = "reconnecting"
  /\ UNCHANGED <<live, source, manualStop, stopping, thenPlay, readFailed, pipeVars>>

-------------------------------------------------------------------------------
(* The process: what it does, and the handler of it.                         *)

Started ==
  /\ process = "starting" /\ process' = "running"
  /\ UNCHANGED <<live, source, manualStop, stopping, thenPlay, timer, watchdog, label, readFailed,
                 pipeVars>>

(* Mutant of Handled: a player that was stopped ignores the end of the       *)
(* process altogether.                                                       *)
HandledUnlessStopped(text) ==
  IF manualStop THEN UNCHANGED <<watchdog, timer, label>>
  ELSE watchdog' = FALSE /\ timer' = live /\ label' = text

(* handleProcessError and handleProcessFinished. *)
Handled(text) ==
  /\ watchdog' = FALSE
  /\ IF manualStop THEN UNCHANGED <<timer, label>> ELSE timer' = live /\ label' = text

FailedToStart ==
  /\ process = "starting" /\ process' = "none"
  /\ Handled("failed")
  /\ UNCHANGED <<live, source, manualStop, stopping, thenPlay, readFailed, pipeVars>>

(* It ends well, badly or in a crash (both signals then, one after the other).*)
Finished(well) ==
  /\ process \in {"running", "dying"} /\ process' = "none"
  /\ Handled(IF live THEN "reconnecting" ELSE IF well THEN "ended" ELSE "failed")
  /\ readFailed' = FALSE
  /\ UNCHANGED <<live, source, manualStop, stopping, thenPlay, pipeVars>>

(* An error of the pipe leaves the process running. *)
ReadError ==
  /\ process = "running"
  /\ Handled("failed")
  /\ readFailed' = TRUE
  /\ UNCHANGED <<live, source, manualStop, stopping, thenPlay, process, pipeVars>>

(* readStandardOutput; seen: at least one of the pictures can be decoded. *)
ReadStandardOutput(bytes, seen) ==
  LET taken == Extract(buffer \o bytes, MaxBuffer) IN
  /\ process \in {"running", "dying"}
  /\ seen => taken.frames # <<>>
  /\ buffer' = taken.rest
  /\ output' = output \o bytes
  /\ frames' = frames \o taken.frames
  /\ overflowed' = (overflowed \/ taken.overflow)
  /\ IF seen /\ live THEN watchdog' = TRUE /\ label' = "playing" ELSE UNCHANGED <<watchdog, label>>
  /\ UNCHANGED <<live, source, manualStop, stopping, thenPlay, process, timer, readFailed>>

FfmpegNext ==
  \/ StopPlayer
  \/ \E good \in BOOLEAN : SetSource(good) \/ Play(good)
  \/ StopEnds
  \/ StartPlayer
  \/ RestartAfterBackoff
  \/ FrameTimeout
  \/ Started
  \/ FailedToStart
  \/ \E well \in BOOLEAN : Finished(well)
  \/ ReadError
  \/ \E n \in 1 .. 2, seen \in BOOLEAN : \E bytes \in [1 .. n -> Bytes] :
       Len(output) + n <= MaxBytes /\ ReadStandardOutput(bytes, seen)

FfmpegSpec == FfmpegInit /\ [][FfmpegNext]_ffmpegVars

-------------------------------------------------------------------------------
(* A camera's player that is on is attended: a timer will start ffmpeg, the  *)
(* watchdog will stop it, or its end is on the way and will be handled; the  *)
(* exception is a read error with the process still running.  A player that  *)
(* was stopped is quiet: no process, no timer, no watchdog, whatever pictures*)
(* and errors came in while stop() waited.  And "playing" is not said of a   *)
(* process that is gone.                                                     *)
StreamAttended ==
  /\ live /\ ~manualStop /\ ~readFailed => watchdog \/ timer \/ process = "dying"
  /\ manualStop /\ ~stopping => ~watchdog /\ ~timer /\ process = "none"
  /\ label = "playing" /\ ~stopping => process # "none"

(* However the pipe cuts the bytes, the pictures taken out of it are the     *)
(* pictures of the whole, unless the buffer was too small for one.           *)
PicturesInPieces == ~overflowed => frames = Extract(output, Len(output)).frames
===============================================================================
