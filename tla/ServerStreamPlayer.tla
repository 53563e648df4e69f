--------------------------- MODULE ServerStreamPlayer ---------------------------
(***************************************************************************)
(* video/ServerStreamPlayer.cpp over FFmpegDecoder: the GUI thread starts  *)
(* and stops the player and gives it media frames, the worker thread       *)
(* decodes them, and the pictures come back as queued signals.             *)
(*                                                                         *)
(* A critical section is one step; what follows the unlock (the            *)
(* notification, the join) is a step of its own.  Frames are numbered in   *)
(* the order they are given; cutting them into packets is NextPacket of    *)
(* Framing.                                                                *)
(***************************************************************************)
EXTENDS Naturals, Sequences

CONSTANTS
  MaxPending,  (* kMaxPendingFrames *)
  MaxGiven,    (* bound: frames given *)
  MaxStarts    (* bound: calls of start() that start a worker *)

ASSUME PlayerAssumption == MaxPending \in Nat \ {0}

VARIABLES
  guiAt,          (* where the GUI thread is in start(), stop(), onMediaFrame() *)
  stopRequested, pending,         (* under m_mutex *)
  decoderOpened, workerRunning,   (* m_decoderOpened, m_workerRunning *)
  workerAt, frame,                (* the worker thread; what it works on *)
  signals,        (* queued to the GUI thread: pictures by their number, "failed" *)
  starts, given,  (* history: workers started, frames given *)
  due, decoded,   (* history of this worker: last frame accepted, the frames decoded *)
  picture,        (* history: the newest picture that came out of the decoder *)
  shown           (* history: pictures drawn *)

threadVars == <<guiAt, stopRequested, pending, decoderOpened, workerRunning, workerAt, frame>>
historyVars == <<starts, given, due, decoded, picture, shown>>
playerVars == <<threadVars, signals, historyVars>>

PlayerInit ==
  /\ guiAt = "idle" /\ stopRequested = FALSE /\ pending = <<>>
  /\ decoderOpened = FALSE /\ workerRunning = FALSE
  /\ workerAt = "none" /\ frame = 0 /\ signals = <<>>
  /\ starts = 0 /\ given = 0 /\ due = 0 /\ decoded = {} /\ picture = 0 /\ shown = <<>>

Joinable == workerAt # "none"

-------------------------------------------------------------------------------
(* The GUI thread.                                                           *)

(* A worker that has failed is joined first; one that has not said so yet    *)
(* makes start() return without an effect, and that is no step.              *)
Start ==
  /\ guiAt = "idle"
  /\ Joinable => ~workerRunning /\ workerAt = "ended"
  /\ starts < MaxStarts
  /\ starts' = starts + 1
  /\ stopRequested' = FALSE /\ pending' = <<>> /\ decoderOpened' = FALSE
  /\ workerRunning' = TRUE
  /\ workerAt' = "test"
  /\ due' = 0 /\ decoded' = {}
  /\ UNCHANGED <<guiAt, frame, signals, given, picture, shown>>

Stop ==
  /\ guiAt = "idle"
  /\ ~stopRequested \/ Joinable
  /\ stopRequested' = TRUE /\ pending' = <<>>
  /\ guiAt' = "notifyAll"
  /\ UNCHANGED <<decoderOpened, workerRunning, workerAt, frame, signals, historyVars>>

(* Both notifications find one worker at most. *)
Notify(from, to) ==
  /\ guiAt = from /\ guiAt' = to
  /\ workerAt' = IF workerAt = "asleep" THEN "test" ELSE workerAt
  /\ UNCHANGED <<stopRequested, pending, decoderOpened, workerRunning, frame, signals, historyVars>>

NotifyStop == Notify("notifyAll", "join")
NotifyFrame == Notify("notifyOne", "idle")

Join ==
  /\ guiAt = "join"
  /\ workerAt \in {"none", "ended"}
  /\ workerAt' = "none"
  /\ guiAt' = "idle"
  /\ UNCHANGED <<stopRequested, pending, decoderOpened, workerRunning, frame, signals, historyVars>>

(* Mutant of Accepted: a full queue refuses the new frame. *)
AcceptedIfRoom(frames, f) == IF Len(frames) >= MaxPending THEN frames ELSE Append(frames, f)

(* The oldest frame makes room. *)
Accepted(frames, f) == Append(IF Len(frames) >= MaxPending THEN Tail(frames) ELSE frames, f)

OnMediaFrame ==
  /\ guiAt = "idle"
  /\ given < MaxGiven
  /\ given' = given + 1
  /\ IF stopRequested THEN UNCHANGED <<pending, due, guiAt>>
     ELSE /\ pending' = Accepted(pending, given + 1)
          /\ due' = given + 1
          /\ guiAt' = "notifyOne"
  /\ UNCHANGED <<stopRequested, decoderOpened, workerRunning, workerAt, frame, signals,
                 starts, decoded, picture, shown>>

(* The event loop delivers a queued signal. *)
Deliver ==
  /\ guiAt = "idle" /\ signals # <<>>
  /\ shown' = IF Head(signals) = 0 THEN shown ELSE Append(shown, Head(signals))
  /\ signals' = Tail(signals)
  /\ UNCHANGED <<threadVars, starts, given, due, decoded, picture>>

-------------------------------------------------------------------------------
(* The worker thread.                                                        *)

WorkerGoes(from, to) == workerAt = from /\ workerAt' = to /\ UNCHANGED guiAt

(* The wait and what follows it, up to the unlock. *)
Take ==
  /\ UNCHANGED <<stopRequested, decoderOpened, workerRunning, signals, historyVars>>
  /\ \/ ~stopRequested /\ pending = <<>> /\ WorkerGoes("test", "asleep")
        /\ UNCHANGED <<pending, frame>>
     \/ stopRequested /\ WorkerGoes("test", "close") /\ UNCHANGED <<pending, frame>>
     \/ ~stopRequested /\ pending # <<>> /\ WorkerGoes("test", "decode")
        /\ frame' = Head(pending) /\ pending' = Tail(pending)

SpuriousWakeup ==
  /\ WorkerGoes("asleep", "test")
  /\ UNCHANGED <<stopRequested, pending, decoderOpened, workerRunning, frame, signals, historyVars>>

(* The decoder is opened for the first packet; 0 is the signal of a failure. *)
OpenDecoder ==
  /\ ~decoderOpened
  /\ \/ WorkerGoes("decode", "decode") /\ decoderOpened' = TRUE /\ UNCHANGED signals
     \/ WorkerGoes("decode", "failed") /\ signals' = Append(signals, 0) /\ UNCHANGED decoderOpened
  /\ UNCHANGED <<stopRequested, pending, workerRunning, frame, historyVars>>

(* One packet in, and no picture, its own or an earlier one out: a decoder   *)
(* delays, and of several pictures the last one is kept.                     *)
Decode ==
  /\ decoderOpened
  /\ WorkerGoes("decode", "test")
  /\ decoded' = decoded \cup {frame}
  /\ \/ UNCHANGED <<picture, signals>>
     \/ \E p \in decoded' : p > picture /\ picture' = p /\ signals' = Append(signals, p)
  /\ UNCHANGED <<stopRequested, pending, decoderOpened, workerRunning, frame, starts, given, due,
                 shown>>

Fail ==
  /\ WorkerGoes("failed", "test")
  /\ stopRequested' = TRUE /\ pending' = <<>>
  /\ UNCHANGED <<decoderOpened, workerRunning, frame, signals, historyVars>>

CloseDecoder ==
  /\ WorkerGoes("close", "ending")
  /\ decoderOpened' = FALSE
  /\ UNCHANGED <<stopRequested, pending, workerRunning, frame, signals, historyVars>>

End ==
  /\ WorkerGoes("ending", "ended")
  /\ workerRunning' = FALSE
  /\ UNCHANGED <<stopRequested, pending, decoderOpened, frame, signals, historyVars>>

PlayerNext ==
  \/ Start \/ Stop \/ OnMediaFrame \/ NotifyStop \/ NotifyFrame \/ Join \/ Deliver
  \/ Take \/ SpuriousWakeup \/ OpenDecoder \/ Decode \/ Fail \/ CloseDecoder \/ End

PlayerSpec == PlayerInit /\ [][PlayerNext]_playerVars

-------------------------------------------------------------------------------
(* The preview lags by the queue at most and ends with the newest frame: what*)
(* waits is the newest accepted frames without a gap; the worker does not    *)
(* sleep over a frame, nor over the stop() that waits for it; pictures are   *)
(* drawn in their order and none twice; and when nothing moves any more the  *)
(* last frame accepted was decoded and the newest picture is drawn.          *)
Quiet == workerAt = "asleep" /\ guiAt = "idle" /\ signals = <<>>
NewestShown ==
  /\ Len(pending) <= MaxPending
  /\ \A i \in DOMAIN pending : pending[i] = due - Len(pending) + i
  /\ workerAt = "asleep" => /\ pending # <<>> => guiAt = "notifyOne"
                            /\ stopRequested => guiAt = "notifyAll"
  /\ \A i, j \in DOMAIN shown : i < j => shown[i] < shown[j]
  /\ Quiet => /\ due > 0 => due \in decoded
              /\ picture > 0 => shown # <<>> /\ shown[Len(shown)] = picture
===============================================================================
