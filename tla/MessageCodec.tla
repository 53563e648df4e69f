----------------------------- MODULE MessageCodec -----------------------------
(***************************************************************************)
(* The bodies of the messages: big-endian integers of one (uint16), two    *)
(* (uint32) or four (uint64) cells and strings behind a uint16 length, in  *)
(* a fixed order per message.  The code writes and reads each message by   *)
(* hand, once in the client and once on the server; the model has one      *)
(* operator for each of those functions, made from a layout.               *)
(*                                                                         *)
(* A layout is a sequence of field kinds, a body a sequence of cells, and  *)
(* the fields of a message a sequence of naturals and strings.             *)
(***************************************************************************)
EXTENDS Framing

CONSTANT Base  (* values of a cell: 65536 *)

(* The result codes take two cells; no field of a body or a header reads as *)
(* the type of a message; an answer that is not a list always fits.         *)
ASSUME CodecAssumption ==
  /\ Base \in Nat /\ 100 <= Base /\ Base <= 65536
  /\ MaxBody \in Nat /\ 7 <= MaxBody /\ MaxBody < TypeCell(4097, 0)

MaxString == Base - 1

(* ErrorCode, as far as the handlers of this module choose it. *)
SUCCESS == 0
INVALID_PARAMETER == 1001
INVALID_PACKET == 1002
UNKNOWN_MESSAGE == 1005

Width(kind) == CASE kind = "u16" -> 1 [] kind = "u32" -> 2 [] kind = "u64" -> 4

Number(cells) ==
  LET value[i \in 0 .. Len(cells)] ==
        IF i = 0 THEN 0 ELSE Base * value[i - 1] + cells[i]
  IN value[Len(cells)]

Digits(n, width) ==
  LET high[i \in 0 .. width] == IF i = 0 THEN n ELSE high[i - 1] \div Base
  IN [i \in 1 .. width |-> high[width - i] % Base]

(* What a field may hold. *)
Values(kind) ==
  CASE kind = "str" -> Seq(0 .. Base - 1)
    [] kind = "u16" -> 0 .. Base - 1
    [] kind = "u32" -> 0 .. Base * Base - 1
    [] kind = "u64" -> 0 .. Base * Base * Base * Base - 1

Typed(layout, fields) ==
  /\ fields = [i \in 1 .. Len(layout) |-> fields[i]]
  /\ \A i \in 1 .. Len(layout) : fields[i] \in Values(layout[i])

(* A string longer than its length field can say is refused, never cut. *)
Encodable(kind, value) == kind = "str" => Len(value) <= MaxString

Cells(kind, value) ==
  IF kind = "str" THEN <<Len(value)>> \o value ELSE Digits(value, Width(kind))

(* Sequences, one behind the other. *)
Flat(items) ==
  LET upTo[i \in 0 .. Len(items)] == IF i = 0 THEN <<>> ELSE upTo[i - 1] \o items[i]
  IN upTo[Len(items)]

(* The encoding of the fields; "refused" is an encoder that returns false. *)
Body(layout, fields) ==
  IF \A i \in DOMAIN layout : Encodable(layout[i], fields[i])
  THEN [ok |-> TRUE, body |-> Flat([i \in 1 .. Len(layout) |-> Cells(layout[i], fields[i])])]
  ELSE [ok |-> FALSE, body |-> <<>>]

(* One field at a position; ok is false when the body ends too early. *)
Field(kind, body, at) ==
  LET long == IF kind # "str" THEN Width(kind)
              ELSE IF at <= Len(body) THEN 1 + body[at] ELSE 1
      there == at + long - 1 <= Len(body)
  IN [ok |-> there, next |-> at + long,
      value |-> IF ~there THEN 0
                ELSE IF kind = "str" THEN SubSeq(body, at + 1, at + long - 1)
                ELSE Number(SubSeq(body, at, at + long - 1))]

(* The fields of a body that the layout uses up exactly. *)
Parse(layout, body) ==
  LET upTo[i \in 0 .. Len(layout)] ==
        IF i = 0 THEN [ok |-> TRUE, next |-> 1, fields |-> <<>>]
        ELSE LET before == upTo[i - 1]
                 field == Field(layout[i], body, before.next)
             IN [ok |-> before.ok /\ field.ok, next |-> field.next,
                 fields |-> Append(before.fields, field.value)]
      whole == upTo[Len(layout)]
  IN [ok |-> whole.ok /\ whole.next = Len(body) + 1,
      fields |-> whole.fields]

-------------------------------------------------------------------------------
(* Lists: a result code, a count, and the items.  A list is refused when it  *)
(* has too many items, when an item cannot be encoded, or when the body is   *)
(* larger than a message may be.                                             *)

ListLayout(item, count) == <<"u32", "u16">> \o Flat([i \in 1 .. count |-> item])

ListBody(item, code, items) ==
  LET written == Body(ListLayout(item, Len(items)), <<code, Len(items)>> \o Flat(items))
  IN IF Len(items) < Base /\ Len(written.body) <= MaxBody THEN written
     ELSE [ok |-> FALSE, body |-> <<>>]

ParseList(item, body) ==
  IF Len(body) < 3 THEN [ok |-> FALSE, fields |-> <<>>]
  ELSE Parse(ListLayout(item, body[3]), body)

Device == <<"u64", "str", "str", "str">>
Record == <<"u64", "u64", "str", "str", "str">>

-------------------------------------------------------------------------------
(* Requests, as the client writes them (fields in the order of the           *)
(* parameters, refused when a string or the whole is too long) ...           *)

Packet(type, id, encoded) == IF encoded.ok THEN EncodePacket(type, id, encoded.body) ELSE <<>>

EncodeRegisterRequest(id, f) == Packet(4097, id, Body(<<"str", "str">>, f))
EncodeLoginRequest(id, f) == Packet(4353, id, Body(<<"str", "str">>, f))
EncodeDeviceListRequest(id, f) == Packet(4609, id, Body(<<"u64", "str">>, f))
EncodeRecordQueryRequest(id, f) ==
  Packet(4865, id, Body(<<"u64", "str", "u64", "str", "str">>, f))
EncodeStreamStartRequest(id, f) == Packet(5121, id, Body(<<"str">>, f))
EncodeStreamStopRequest(id, f) == EncodePacket(5377, id, <<>>)
EncodeRecordStartRequest(id, f) == EncodePacket(5633, id, Digits(f[1], Width("u64")))
EncodeRecordStopRequest(id, f) == EncodePacket(5889, id, <<>>)
EncodePtzControlRequest(id, f) == Packet(6145, id, Body(<<"str", "str", "str">>, f))

(* ... and as the server reads them.                                         *)

DecodeCredentials(body) == Parse(<<"str", "str">>, body)
DecodeDeviceListRequest(body) == Parse(<<"u64", "str">>, body)
DecodeRecordQueryRequest(body) == Parse(<<"u64", "str", "u64", "str", "str">>, body)
ParseStreamStartValue(body) == Parse(<<"str">>, body)
ParseRecordStartValue(body) == Parse(<<"u64">>, body)
IsEmptyControlValue(body) == Parse(<<>>, body)
ParsePtzControl(body) == Parse(<<"str", "str", "str">>, body)

-------------------------------------------------------------------------------
(* Responses, as the server writes them (an empty body when it cannot) ...   *)

EncodeRegisterResponse(code, message) == Body(<<"u32", "str">>, <<code, message>>).body
EncodeLoginResponse(userId, token, code) ==
  Body(<<"u64", "str", "u32">>, <<userId, token, code>>).body
EncodeDeviceListResponse(code, devices) == ListBody(Device, code, devices).body
EncodeRecordQueryResponse(code, records) == ListBody(Record, code, records).body
EncodeControlResponse(code) == Digits(code, Width("u32"))

(* ... and as the client reads them: whether it can, the result code and the *)
(* rest.  A register response may still be the old one, a code alone.        *)

Unreadable == [ok |-> FALSE, code |-> 0, fields |-> <<>>]

Read(parsed, codeAt) ==
  IF ~parsed.ok THEN Unreadable
  ELSE [ok |-> TRUE, code |-> parsed.fields[codeAt],
        fields |-> SubSeq(parsed.fields, 1, codeAt - 1) \o Drop(parsed.fields, codeAt)]

DecodeRegisterResponse(body) ==
  IF Len(body) = 2 THEN Read(Parse(<<"u32">>, body), 1)
  ELSE Read(Parse(<<"u32", "str">>, body), 1)
DecodeLoginResponse(body) == Read(Parse(<<"u64", "str", "u32">>, body), 3)
DecodeDeviceListResponse(body) == Read(ParseList(Device, body), 1)
DecodeRecordQueryResponse(body) == Read(ParseList(Record, body), 1)
DecodeStreamStartResponse(body) == Read(Parse(<<"u32">>, body), 1)
DecodeStreamStopResponse(body) == Read(Parse(<<"u32">>, body), 1)
DecodeRecordStartResponse(body) == Read(Parse(<<"u32">>, body), 1)
DecodeRecordStopResponse(body) == Read(Parse(<<"u32">>, body), 1)
DecodePtzControlResponse(body) == Read(Parse(<<"u32">>, body), 1)
===============================================================================
