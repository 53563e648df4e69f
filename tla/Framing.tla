------------------------------- MODULE Framing --------------------------------
(***************************************************************************)
(* The two framings that share a connection: TLV messages and media        *)
(* frames.  A byte stream is a sequence of cells, one per header field and *)
(* one per 16 bits of a body; a field is seen when all its bytes are there,*)
(* so a cut inside a field is a cut before it.  Lengths count cells.       *)
(*                                                                         *)
(*   message   type and version | body length | requestId | body           *)
(*   frame     frame length | magic | version | pts | data length | data   *)
(*                                                                         *)
(* (flags, stream index, dts and duration travel with pts).                *)
(***************************************************************************)
EXTENDS Integers, Sequences

CONSTANTS
  MaxBody,   (* MAX_TLV_BODY_SIZE and the client's kMaxBodySize *)
  MaxData    (* kMaxPayloadSize *)

TlvHeader == 3
FrameHeader == 5
Version == 1        (* PROTOCOL_VERSION, kProtocolVersion and kVersion *)
Magic == 1297107796 (* kMagic, "MPKT" *)

(* MessageType: nine requests, each followed by its response. *)
RequestTypes == {4097 + 256 * k : k \in 0 .. 8}
MessageTypes == RequestTypes \cup {t + 1 : t \in RequestTypes}
IsKnownMessageType(type) == type \in MessageTypes  (* the server's list *)
IsKnownType(type) == type \in MessageTypes         (* the client's list *)

(* Type and version are the first four bytes, where a frame has its length. *)
TypeCell(type, version) == 65536 * type + version
TypeOf(cell) == cell \div 65536
VersionOf(cell) == cell % 65536

(* The demultiplexing of the client rests on this: no message type reads as *)
(* the length of a frame.                                                   *)
ASSUME FramingAssumption ==
  /\ MaxBody \in Nat
  /\ MaxData \in Nat
  /\ FrameHeader + MaxData < TypeCell(4097, 0)

Drop(buf, n) == SubSeq(buf, n + 1, Len(buf))

-------------------------------------------------------------------------------
(* TlvProtocol, on the server. *)

EncodeMessage(msg) ==
  IF /\ Len(msg.body) <= MaxBody
     /\ msg.version = Version
     /\ IsKnownMessageType(msg.type)
  THEN <<TypeCell(msg.type, msg.version), Len(msg.body), msg.id>> \o msg.body
  ELSE <<>>

MessageAt(buf) ==
  [type |-> TypeOf(buf[1]), version |-> VersionOf(buf[1]), id |-> buf[3],
   body |-> SubSeq(buf, TlvHeader + 1, TlvHeader + buf[2])]

NoMessage == [type |-> 0, version |-> 0, id |-> 0, body |-> <<>>]

(* A bad header empties the buffer: nothing marks where the next one starts. *)
Rejected == [status |-> "rejected", msg |-> NoMessage, rest |-> <<>>]
(* Mutant of Incomplete: what has arrived of a message is thrown away. *)
IncompleteLost(buf) == [status |-> "incomplete", msg |-> NoMessage, rest |-> <<>>]
Incomplete(buf) == [status |-> "incomplete", msg |-> NoMessage, rest |-> buf]

DecodeMessage(buf) ==
  CASE Len(buf) < TlvHeader -> Incomplete(buf)
    [] Len(buf) >= TlvHeader /\ ~IsKnownMessageType(TypeOf(buf[1])) -> Rejected
    [] Len(buf) >= TlvHeader /\ VersionOf(buf[1]) # Version -> Rejected
    [] Len(buf) >= TlvHeader /\ buf[2] > MaxBody -> Rejected
    [] OTHER ->
         IF Len(buf) < TlvHeader + buf[2] THEN Incomplete(buf)
         ELSE [status |-> "decoded", msg |-> MessageAt(buf),
               rest |-> Drop(buf, TlvHeader + buf[2])]

-------------------------------------------------------------------------------
(* ClientProtocol, on the client: written separately, with the same effect   *)
(* on the buffer, and no check of what it sends except the size of the body. *)

EncodePacket(type, id, body) ==
  IF Len(body) > MaxBody THEN <<>>
  ELSE <<TypeCell(type, Version), Len(body), id>> \o body

(* decodePacket, on exactly the cells of one packet. *)
WellFormed(packet) ==
  /\ Len(packet) >= TlvHeader
  /\ packet[2] <= MaxBody
  /\ Len(packet) = TlvHeader + packet[2]
  /\ VersionOf(packet[1]) = Version
  /\ IsKnownType(TypeOf(packet[1]))

TryTakePacket(buf) ==
  IF Len(buf) < TlvHeader THEN Incomplete(buf)
  ELSE IF \/ VersionOf(buf[1]) # Version
          \/ ~IsKnownType(TypeOf(buf[1]))
          \/ buf[2] > MaxBody
       THEN Rejected
  ELSE LET total == TlvHeader + buf[2] IN
       IF Len(buf) < total THEN Incomplete(buf)
       ELSE IF WellFormed(SubSeq(buf, 1, total))
       THEN [status |-> "decoded", msg |-> MessageAt(buf), rest |-> Drop(buf, total)]
       ELSE [status |-> "rejected", msg |-> NoMessage, rest |-> Drop(buf, total)]

-------------------------------------------------------------------------------
(* MediaPacketSerializer, on both sides. *)

EncodeFrame(packet) ==
  IF Len(packet.data) > MaxData THEN <<>>
  ELSE <<FrameHeader + Len(packet.data), Magic, Version, packet.pts, Len(packet.data)>>
         \o packet.data

(* The length of the frame that starts here; 0 if none does.  With only the *)
(* length there, the magic cannot be asked for yet.                         *)
PeekFrameLength(buf) ==
  IF /\ Len(buf) >= 1
     /\ buf[1] \in FrameHeader .. FrameHeader + MaxData
     /\ Len(buf) >= 2 => buf[2] = Magic
  THEN buf[1] ELSE 0

(* Mutant of FrameUsed: the version of the frame is not looked at. *)
FrameUsedAnyVersion(buf, n) ==
  IF n >= 1 /\ buf[1] \in FrameHeader .. n /\ buf[2] = Magic THEN buf[1] ELSE 0

(* The number of cells used, 0 for a refusal, of the first n cells of buf. *)
FrameUsed(buf, n) ==
  IF /\ n >= 1
     /\ buf[1] \in FrameHeader .. n
     /\ buf[2] = Magic
     /\ buf[3] = Version
     /\ buf[5] <= buf[1] - FrameHeader
  THEN buf[1] ELSE 0

FrameAt(buf) == [pts |-> buf[4], data |-> SubSeq(buf, FrameHeader + 1, FrameHeader + buf[5])]

-------------------------------------------------------------------------------
(* MediaReassembler: the buffer without the cells in front of _offset, which *)
(* compact() frees now and then.                                             *)

Feed(buf, cells) == buf \o cells

(* Where the loop of nextPacket stops: at the end, at an incomplete frame or *)
(* at a frame; everywhere else it skips one byte.                            *)
Stops(buf, offset) ==
  LET here == Drop(buf, offset) length == PeekFrameLength(here) IN
  \/ here = <<>>
  \/ length > Len(here)
  \/ length > 0 /\ FrameUsed(here, length) > 0

StopOffset(buf) ==
  CHOOSE k \in 0 .. Len(buf) : Stops(buf, k) /\ \A j \in 0 .. k - 1 : ~Stops(buf, j)

NextPacket(buf) ==
  LET here == Drop(buf, StopOffset(buf)) length == PeekFrameLength(here) IN
  IF length = 0 \/ length > Len(here)
  THEN [found |-> FALSE, packet |-> [pts |-> 0, data |-> <<>>], rest |-> here]
  ELSE [found |-> TRUE, packet |-> FrameAt(here), rest |-> Drop(here, FrameUsed(here, length))]
===============================================================================
