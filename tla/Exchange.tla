------------------------------- MODULE Exchange -------------------------------
(***************************************************************************)
(* One connection between the Qt client and the server, cell by cell: the  *)
(* client asks for one thing at a time, TCP delivers in pieces of any size,*)
(* the reactor cuts the pieces into messages, workers answer them in any   *)
(* order, the pull thread mixes media frames in, and the client takes the  *)
(* mixture apart.  What the services do behind the handlers is a choice    *)
(* among results; the connection itself keeps the order of what is sent    *)
(* (OutputChannel) and is not lost here.                                   *)
(***************************************************************************)
EXTENDS MessageCodec

(* A plan is what happens on one connection: asks, what the user may ask for *)
(* first, second, ... (a sequence of sets of requests); frames, the stream,  *)
(* packets with the version of their sender; toServer and toClient, cells    *)
(* that a client or a server of another release may send in between, and     *)
(* aliens, how many of those.                                                *)
CONSTANTS
  Plans,
  Results     (* what the service behind a request type may answer *)

VARIABLES
  plan,                            (* what this connection is used for *)
  toServer, readBuf, reading,      (* on the way; Connection::_readBuf; in the reactor's loop *)
  tasks, loggedIn,                 (* handed to the workers; Connection::_userId is set *)
  refused,                         (* history: ids of messages a full pool did not take *)
  served, intended,                (* history: calls of the services; what the handlers meant *)
  toClient, receiveBuf, receiving, (* on the way; m_receiveBuffer; in the loop of onDataReceived *)
  asked, pending, user,            (* history of requests; m_pendingRequestId; m_userId, m_token *)
  reports,                         (* history: what the user was told, by request *)
  streamed, reassembly, shown,     (* frames sent; MediaReassembler; history: packets taken out *)
  aliens

serverVars == <<readBuf, reading, tasks, refused, loggedIn, served, intended>>
clientVars == <<receiveBuf, receiving, asked, pending, user, reports>>
streamVars == <<streamed, reassembly, shown>>
vars == <<plan, toServer, serverVars, toClient, clientVars, streamVars, aliens>>

Init ==
  /\ plan \in DOMAIN Plans
  /\ toServer = <<>> /\ readBuf = <<>> /\ reading = FALSE
  /\ tasks = {} /\ refused = {} /\ loggedIn = FALSE /\ served = {} /\ intended = <<>>
  /\ toClient = <<>> /\ receiveBuf = <<>> /\ receiving = FALSE
  /\ asked = <<>> /\ pending = 0 /\ user = <<>> /\ reports = <<>>
  /\ streamed = 0 /\ reassembly = <<>> /\ shown = <<>>
  /\ aliens = 0

(* A function from ids, extended. *)
With(f, i, value) == [j \in DOMAIN f \cup {i} |-> IF j = i THEN value ELSE f[j]]

-------------------------------------------------------------------------------
(* The client asks. *)

Guests == {4097, 4353}

(* A request made under a login carries its user and its token. *)
FieldsOf(ask) == IF ask.type \in {4609, 4865} THEN user \o ask.fields ELSE ask.fields

Encoded(type, id, f) ==
  CASE type = 4097 -> EncodeRegisterRequest(id, f)
    [] type = 4353 -> EncodeLoginRequest(id, f)
    [] type = 4609 -> EncodeDeviceListRequest(id, f)
    [] type = 4865 -> EncodeRecordQueryRequest(id, f)
    [] type = 5121 -> EncodeStreamStartRequest(id, f)
    [] type = 5377 -> EncodeStreamStopRequest(id, f)
    [] type = 5633 -> EncodeRecordStartRequest(id, f)
    [] type = 5889 -> EncodeRecordStopRequest(id, f)
    [] type = 6145 -> EncodePtzControlRequest(id, f)

Report(i, kind, code, fields) ==
  reports' = With(reports, i, [kind |-> kind, code |-> code, fields |-> fields])

Ask(ask) ==
  LET id == Len(asked) + 1 packet == Encoded(ask.type, id, FieldsOf(ask)) IN
  /\ pending = 0
  /\ ask.type \in Guests \/ user # <<>>
  /\ asked' = Append(asked, [type |-> ask.type, fields |-> FieldsOf(ask)])
  /\ IF packet = <<>>
     THEN Report(id, "tooLong", 0, <<>>) /\ UNCHANGED <<toServer, pending>>
     ELSE toServer' = toServer \o packet /\ pending' = id /\ UNCHANGED reports
  /\ UNCHANGED <<plan, serverVars, toClient, receiveBuf, receiving, user, streamVars, aliens>>

AlienAsks(cells) ==
  /\ aliens < Plans[plan].aliens
  /\ aliens' = aliens + 1
  /\ toServer' = toServer \o cells
  /\ UNCHANGED <<plan, serverVars, toClient, clientVars, streamVars>>

RequestTimeout ==
  /\ pending # 0
  /\ Report(pending, "timeout", 0, <<>>)
  /\ pending' = 0
  /\ UNCHANGED <<plan, toServer, serverVars, toClient, receiveBuf, receiving, asked, user,
                 streamVars, aliens>>

-------------------------------------------------------------------------------
(* The reactor reads a piece and takes every message out of it. *)

ServerRead(n) ==
  /\ ~reading
  /\ readBuf' = readBuf \o SubSeq(toServer, 1, n)
  /\ toServer' = Drop(toServer, n)
  /\ reading' = TRUE
  /\ UNCHANGED <<plan, tasks, refused, loggedIn, served, intended, toClient, clientVars,
                 streamVars, aliens>>

(* The queue of the pool may be full of the requests of other connections:   *)
(* addTask then refuses this one, which the reactor does not look at.        *)
ReadMessage ==
  LET taken == DecodeMessage(readBuf) IN
  /\ reading
  /\ readBuf' = taken.rest
  /\ reading' = (taken.status = "decoded")
  /\ \/ taken.status = "decoded" /\ tasks' = tasks \cup {taken.msg} /\ UNCHANGED refused
     \/ taken.status = "decoded" /\ refused' = refused \cup {taken.msg.id} /\ UNCHANGED tasks
     \/ taken.status # "decoded" /\ UNCHANGED <<tasks, refused>>
  /\ UNCHANGED <<plan, toServer, loggedIn, served, intended, toClient, clientVars, streamVars, aliens>>

-------------------------------------------------------------------------------
(* The handlers.  Each yields the answers it may give: whether it called the *)
(* service, with which fields, what it meant to say, and the body that says  *)
(* it.                                                                       *)

Answer(called, f, code, fields, body) ==
  [called |-> called, f |-> f, code |-> code, fields |-> fields, body |-> body]
Refusal(code, fields, body) == Answer(FALSE, <<>>, code, fields, body)

(* registerMessageForCode: some text for every code. *)
MessageFor(code) == <<code % Base>>

HandleRegister(body) ==
  LET p == DecodeCredentials(body)
      Say(code) == EncodeRegisterResponse(code, MessageFor(code)) IN
  IF ~p.ok THEN {Refusal(INVALID_PACKET, <<MessageFor(INVALID_PACKET)>>, Say(INVALID_PACKET))}
  ELSE {Answer(TRUE, p.fields, code, <<MessageFor(code)>>, Say(code)) : code \in Results[4097]}

HandleLogin(body) ==
  LET p == DecodeCredentials(body) IN
  IF ~p.ok THEN {Refusal(INVALID_PACKET, <<0, <<>>>>, EncodeLoginResponse(0, <<>>, INVALID_PACKET))}
  ELSE {Answer(TRUE, p.fields, r.code, <<r.userId, r.token>>,
               EncodeLoginResponse(r.userId, r.token, r.code)) : r \in Results[4353]}

Listing(p, good, results, Say(_, _)) ==
  LET Refused(code) == {Refusal(code, <<0>>, Say(code, <<>>))} IN
  IF ~p.ok THEN Refused(INVALID_PACKET)
  ELSE IF ~good THEN Refused(INVALID_PARAMETER)
  ELSE {Answer(TRUE, p.fields, r.code, <<Len(r.items)>> \o Flat(r.items), Say(r.code, r.items)) :
          r \in results}

HandleDeviceList(body) ==
  LET p == DecodeDeviceListRequest(body) IN
  Listing(p, p.ok => p.fields[1] # 0 /\ p.fields[2] # <<>>, Results[4609], EncodeDeviceListResponse)

(* A time of one cell is a valid one, any other text is not; the empty text  *)
(* stands for the first or the last time there is.                           *)
TimeOr(text, default) == IF text = <<>> THEN <<default>> ELSE text
ValidTimes(from, to) ==
  LET f == TimeOr(from, 0) t == TimeOr(to, Base - 1) IN
  Len(f) = 1 /\ Len(t) = 1 /\ f[1] <= t[1]

HandleRecordQuery(body) ==
  LET p == DecodeRecordQueryRequest(body) IN
  Listing(p, p.ok => /\ p.fields[1] # 0 /\ p.fields[2] # <<>> /\ p.fields[3] # 0
                     /\ ValidTimes(p.fields[4], p.fields[5]),
          Results[4865], EncodeRecordQueryResponse)

(* isAllowedRequest: a camera of the list and a move that fits the           *)
(* direction; anything else, empty texts included, is refused.               *)
Stop == <<1>>
Start == <<2>>
Directions == {<<3>>, <<4>>}
Cameras == {<<5>>}
AllowedPtz(f) ==
  /\ f[1] \in Cameras
  /\ \/ f[3] = Stop /\ f[2] = Stop
     \/ f[3] = Start /\ f[2] \in Directions

Controlled(type, p, fault, good) ==
  LET Refused(code) == {Refusal(code, <<>>, EncodeControlResponse(code))} IN
  IF ~p.ok THEN Refused(fault)
  ELSE IF ~good THEN Refused(INVALID_PARAMETER)
  ELSE {Answer(TRUE, p.fields, code, <<>>, EncodeControlResponse(code)) : code \in Results[type]}

HandlePtzControl(body) ==
  LET p == ParsePtzControl(body) IN
  Controlled(6145, p, INVALID_PARAMETER, p.ok => AllowedPtz(p.fields))

HandleControl(type, body) ==
  LET p == CASE type = 5121 -> ParseStreamStartValue(body)
             [] type = 5633 -> ParseRecordStartValue(body)
             [] type \in {5377, 5889} -> IsEmptyControlValue(body)
  IN Controlled(type, p, INVALID_PACKET, p.ok /\ type = 5633 => p.fields[1] # 0)

UNAUTHORIZED == 2005

Unauthorized(type) ==
  CASE type = 4609 -> Refusal(UNAUTHORIZED, <<0>>, EncodeDeviceListResponse(UNAUTHORIZED, <<>>))
    [] type = 4865 -> Refusal(UNAUTHORIZED, <<0>>, EncodeRecordQueryResponse(UNAUTHORIZED, <<>>))
    [] OTHER -> Refusal(UNAUTHORIZED, <<>>, EncodeControlResponse(UNAUTHORIZED))

(* A response sent as a request falls through to UNKNOWN_MESSAGE. *)
Answers(msg) ==
  CASE msg.type = 4097 -> HandleRegister(msg.body)
    [] msg.type = 4353 -> HandleLogin(msg.body)
    [] msg.type \in RequestTypes \ Guests /\ ~loggedIn -> {Unauthorized(msg.type)}
    [] msg.type = 4609 /\ loggedIn -> HandleDeviceList(msg.body)
    [] msg.type = 4865 /\ loggedIn -> HandleRecordQuery(msg.body)
    [] msg.type = 6145 /\ loggedIn -> HandlePtzControl(msg.body)
    [] msg.type \in {5121, 5377, 5633, 5889} /\ loggedIn -> HandleControl(msg.type, msg.body)
    [] OTHER -> {Refusal(UNKNOWN_MESSAGE, <<>>, EncodeControlResponse(UNKNOWN_MESSAGE))}

(* The reactor reads the handler's own response to learn of the login. *)
MarksLoggedIn(body) ==
  LET answer == DecodeLoginResponse(body) IN
  answer.ok /\ answer.code = SUCCESS /\ answer.fields[1] # 0

ResponseType(type) == IF type \in RequestTypes THEN type + 1 ELSE type

HandleMessage(msg) ==
  \E a \in Answers(msg) :
    /\ tasks' = tasks \ {msg}
    /\ served' = IF a.called THEN served \cup {[id |-> msg.id, type |-> msg.type, fields |-> a.f]}
                 ELSE served
    /\ intended' = With(intended, msg.id, [code |-> a.code, fields |-> a.fields])
    /\ loggedIn' = (loggedIn \/ (msg.type = 4353 /\ MarksLoggedIn(a.body)))
    /\ toClient' = toClient \o EncodeMessage([type |-> ResponseType(msg.type), version |-> Version,
                                              id |-> msg.id, body |-> a.body])
    /\ UNCHANGED <<plan, toServer, readBuf, reading, refused, clientVars, streamVars, aliens>>

(* The pull thread: another release marks its frames with its own version. *)
SendFrame ==
  /\ streamed < Len(Plans[plan].frames)
  /\ streamed' = streamed + 1
  /\ LET f == Plans[plan].frames[streamed + 1] IN
     toClient' = toClient \o [EncodeFrame(f.packet) EXCEPT ![3] = f.version]
  /\ UNCHANGED <<plan, toServer, serverVars, clientVars, reassembly, shown, aliens>>

AlienReplies(cells) ==
  /\ aliens < Plans[plan].aliens
  /\ aliens' = aliens + 1
  /\ toClient' = toClient \o cells
  /\ UNCHANGED <<plan, toServer, serverVars, clientVars, streamVars>>

-------------------------------------------------------------------------------
(* The client takes the mixture apart. *)

ClientRead(n) ==
  /\ ~receiving
  /\ receiveBuf' = receiveBuf \o SubSeq(toClient, 1, n)
  /\ toClient' = Drop(toClient, n)
  /\ receiving' = TRUE
  /\ UNCHANGED <<plan, toServer, serverVars, asked, pending, user, reports, streamVars, aliens>>

FrameLength == PeekFrameLength(receiveBuf)

(* The loop ends: nothing left, a frame or a message that is not complete. *)
WaitForMore ==
  /\ receiving
  /\ IF FrameLength > 0 THEN Len(receiveBuf) < FrameLength
     ELSE TryTakePacket(receiveBuf).status = "incomplete"
  /\ receiving' = FALSE
  /\ UNCHANGED <<plan, toServer, serverVars, toClient, receiveBuf, asked, pending, user, reports,
                 streamVars, aliens>>

MediaFrame ==
  /\ receiving /\ FrameLength > 0 /\ Len(receiveBuf) >= FrameLength
  /\ reassembly' = Feed(reassembly, SubSeq(receiveBuf, 1, FrameLength))
  /\ receiveBuf' = Drop(receiveBuf, FrameLength)
  /\ UNCHANGED <<plan, toServer, serverVars, toClient, receiving, asked, pending, user, reports,
                 streamed, shown, aliens>>

(* The player's thread, between two frames. *)
TakePacket ==
  /\ NextPacket(reassembly).found
  /\ shown' = Append(shown, NextPacket(reassembly).packet)
  /\ reassembly' = NextPacket(reassembly).rest
  /\ UNCHANGED <<plan, toServer, serverVars, toClient, clientVars, streamed, aliens>>

(* A bad header fails the request in progress; the connection stays.  With   *)
(* none in progress the user is told of a failure too, which says nothing    *)
(* about a request and is no report of one.                                  *)
BadPacket ==
  LET taken == TryTakePacket(receiveBuf) IN
  /\ receiving /\ FrameLength = 0 /\ taken.status = "rejected"
  /\ receiveBuf' = taken.rest
  /\ receiving' = FALSE
  /\ IF pending = 0 THEN UNCHANGED reports ELSE Report(pending, "format", 0, <<>>)
  /\ pending' = 0
  /\ UNCHANGED <<plan, toServer, serverVars, toClient, asked, user, streamVars, aliens>>

Decoded(type, msg) ==
  IF msg.type # type + 1 THEN Unreadable
  ELSE CASE type = 4097 -> DecodeRegisterResponse(msg.body)
         [] type = 4353 -> DecodeLoginResponse(msg.body)
         [] type = 4609 -> DecodeDeviceListResponse(msg.body)
         [] type = 4865 -> DecodeRecordQueryResponse(msg.body)
         [] type = 5121 -> DecodeStreamStartResponse(msg.body)
         [] type = 5377 -> DecodeStreamStopResponse(msg.body)
         [] type = 5633 -> DecodeRecordStartResponse(msg.body)
         [] type = 5889 -> DecodeRecordStopResponse(msg.body)
         [] type = 6145 -> DecodePtzControlResponse(msg.body)

(* Mutant of IsAwaited: any answer settles the request in progress. *)
IsAwaitedAnyId(msg) == pending # 0
IsAwaited(msg) == pending # 0 /\ msg.id = pending

(* A message that is not the answer to the request in progress is dropped.  *)
TakeAnswer ==
  LET taken == TryTakePacket(receiveBuf) msg == taken.msg
      type == asked[pending].type
      answer == Decoded(type, msg)
      login == /\ type = 4353 /\ answer.ok /\ answer.code = SUCCESS
               /\ answer.fields[1] # 0 /\ answer.fields[2] # <<>> IN
  /\ receiving /\ FrameLength = 0 /\ taken.status = "decoded"
  /\ receiveBuf' = taken.rest
  /\ IF IsAwaited(msg)
     THEN /\ Report(pending, IF answer.ok THEN "answer" ELSE "format", answer.code, answer.fields)
          /\ pending' = 0
          /\ user' = IF login THEN answer.fields ELSE user
     ELSE UNCHANGED <<reports, pending, user>>
  /\ UNCHANGED <<plan, toServer, serverVars, toClient, receiving, asked, streamVars, aliens>>

-------------------------------------------------------------------------------
(* What the plans and the results may be: values of the types that the        *)
(* requests and the answers have.  The server's columns hold shorter texts    *)
(* than a message can say; a request may hold any text.                       *)

RequestLayout(type) ==
  CASE type \in Guests -> <<"str", "str">>
    [] type = 4609 -> <<"u64", "str">>
    [] type = 4865 -> <<"u64", "str", "u64", "str", "str">>
    [] type = 5121 -> <<"str">>
    [] type = 5633 -> <<"u64">>
    [] type = 6145 -> <<"str", "str", "str">>
    [] type \in {5377, 5889} -> <<>>

(* What the user is asked for: without the user and the token of the login.   *)
AskLayout(type) ==
  CASE type = 4609 -> <<>>
    [] type = 4865 -> <<"u64", "str", "str">>
    [] OTHER -> RequestLayout(type)

Item(type) == IF type = 4609 THEN Device ELSE Record

(* How the server reads a request of a type. *)
ReadAs(type, body) ==
  CASE type \in Guests -> DecodeCredentials(body)
    [] type = 4609 -> DecodeDeviceListRequest(body)
    [] type = 4865 -> DecodeRecordQueryRequest(body)
    [] type = 5121 -> ParseStreamStartValue(body)
    [] type = 5633 -> ParseRecordStartValue(body)
    [] type = 6145 -> ParsePtzControl(body)
    [] type \in {5377, 5889} -> IsEmptyControlValue(body)

(* Cells are read as the header of a message, or they are not; and a cell     *)
(* that is neither that nor the magic of a frame starts nothing.              *)
IsHeader(cell) == IsKnownType(TypeOf(cell)) /\ VersionOf(cell) = Version
Plain(cell) == cell \in Nat /\ ~IsHeader(cell) /\ cell # Magic

Message == [type : MessageTypes, version : {Version}, id : Nat, body : Seq(Nat)]

(* What reads as a header in these cells is that of a message too large to be *)
(* accepted, or of one of the messages, which is there as a whole.            *)
HoldsOnly(cells, messages) ==
  \A k \in 1 .. Len(cells) :
    IsHeader(cells[k]) =>
      \/ k < Len(cells) /\ cells[k + 1] > MaxBody
      \/ /\ k + 2 <= Len(cells) /\ k + 2 + cells[k + 1] <= Len(cells)
         /\ MessageAt(Drop(cells, k - 1)) \in messages

(* What another release sends in between is no request and no answer of this  *)
(* release: a request has an id of its own, a plain one, and cannot be read,  *)
(* and an answer cannot be read, whatever it is the answer to.                *)
HarmlessRequests(asks) ==
  {msg \in Message :
    /\ msg.id \notin 1 .. asks /\ Plain(msg.id)
    /\ msg.type \in RequestTypes => ~ReadAs(msg.type, msg.body).ok}
HarmlessReplies ==
  {msg \in Message : \A type \in RequestTypes : ~Decoded(type, msg).ok}

(* What the user may ask for, what the camera may send, what the service of a *)
(* list may find.                                                             *)
Asks(asks) ==
  /\ Len(asks) \in 0 .. TypeCell(4097, 0) - 1
  /\ \A i \in 1 .. Len(asks) : \A ask \in asks[i] :
       ask.type \in RequestTypes /\ Typed(AskLayout(ask.type), ask.fields)

Frame(f) ==
  /\ Plain(f.version) /\ Plain(f.packet.pts)
  /\ f.packet = [pts |-> f.packet.pts, data |-> f.packet.data]
  /\ f.packet.data \in Seq(0 .. Base - 1) /\ Len(f.packet.data) <= MaxData

Findings(type, r) ==
  /\ r.code \in Values("u32") /\ Len(r.items) \in Nat
  /\ r.items = [i \in 1 .. Len(r.items) |-> r.items[i]]
  /\ \A i \in 1 .. Len(r.items) :
       /\ Typed(Item(type), r.items[i])
       /\ \A k \in 1 .. Len(Item(type)) : Encodable(Item(type)[k], r.items[i][k])

ASSUME PlansAssumption ==
  \A p \in DOMAIN Plans : LET it == Plans[p] IN
    /\ Asks(it.asks) /\ it.aliens \in Nat
    /\ Len(it.frames) \in Nat /\ DOMAIN it.frames = 1 .. Len(it.frames)
    /\ \A i \in 1 .. Len(it.frames) : Frame(it.frames[i])
    /\ \A i, j \in 1 .. Len(it.frames) :
         i < j => it.frames[i].packet.pts < it.frames[j].packet.pts
    /\ \A cells \in it.toServer \cup it.toClient : cells \in Seq(Nat \ {Magic})
    /\ \A cells \in it.toServer : HoldsOnly(cells, HarmlessRequests(Len(it.asks)))
    /\ \A cells \in it.toClient : HoldsOnly(cells, HarmlessReplies)

ASSUME ResultsAssumption ==
  /\ \A type \in RequestTypes \ {4353, 4609, 4865} : Results[type] \subseteq Values("u32")
  /\ \A r \in Results[4353] :
       /\ Typed(<<"u64", "str", "u32">>, <<r.userId, r.token, r.code>>)
       /\ Len(r.token) <= MaxString /\ 7 + Len(r.token) <= MaxBody
  /\ \A type \in {4609, 4865} : \A r \in Results[type] : Findings(type, r)

-------------------------------------------------------------------------------
(* The service behind a handler is called for requests of this client only,  *)
(* with exactly the fields that the user's request had: whatever the cutting *)
(* into pieces, the order of the workers and the messages of other releases  *)
(* in between, no request is invented, mixed up or half read.  And none is   *)
(* lost on its way, unless another release has written a header that cannot  *)
(* be read: once everything has been read, every request sent is with a      *)
(* worker or answered, or the full pool has refused it.                      *)
ServiceSeesRequest ==
  /\ \A call \in served :
       /\ call.id \in DOMAIN asked
       /\ asked[call.id] = [type |-> call.type, fields |-> call.fields]
  /\ aliens = 0 /\ toServer = <<>> /\ ~reading =>
       \A i \in DOMAIN asked :
         \/ i \in DOMAIN reports /\ reports[i].kind = "tooLong"
         \/ i \in DOMAIN intended \cup {msg.id : msg \in tasks} \cup refused

(* A list that no message can hold. *)
TooLarge(type, answer) ==
  LET count == answer.fields[1]
      written == Body(ListLayout(Item(type), count), <<answer.code>> \o answer.fields) IN
  /\ type \in {4609, 4865}
  /\ count > MaxString \/ Len(written.body) > MaxBody

(* A request that no message can hold: a text is longer than its length can   *)
(* say, or the whole is.                                                      *)
TooLong(type, fields) ==
  LET layout == RequestLayout(type) written == Body(layout, fields) IN
  \/ \E k \in DOMAIN layout : layout[k] = "str" /\ Len(fields[k]) > MaxString
  \/ Len(written.body) > MaxBody

(* What the user is told is what the handler of that request meant: an answer*)
(* is its code and its fields, and "format error" is said only if the answer *)
(* does not fit into a message or another release has answered in between.   *)
AnswerMatchesRequest ==
  \A i \in DOMAIN reports :
    CASE reports[i].kind = "answer" ->
           /\ i \in DOMAIN intended
           /\ intended[i] = [code |-> reports[i].code, fields |-> reports[i].fields]
      [] reports[i].kind = "format" ->
           \/ Plans[plan].toClient # {} /\ aliens > 0
           \/ i \in DOMAIN intended /\ TooLarge(asked[i].type, intended[i])
      [] reports[i].kind = "tooLong" ->
           TooLong(asked[i].type, asked[i].fields)
      [] OTHER -> TRUE

(* The player takes out of the stream the packets of its own release, whole, *)
(* in order and none twice; and unless another release has answered on the   *)
(* connection, all of them once everything has arrived, whatever the frames  *)
(* between them were.                                                        *)
PacketsInOrder ==
  LET frames == Plans[plan].frames Own(k) == k <= streamed /\ frames[k].version = Version IN
  /\ \A i \in DOMAIN shown : \E k \in DOMAIN frames : Own(k) /\ shown[i] = frames[k].packet
  /\ \A i, j \in DOMAIN shown : i < j => shown[i].pts < shown[j].pts
  /\ toClient = <<>> /\ ~receiving /\ ~NextPacket(reassembly).found
       /\ (Plans[plan].toClient = {} \/ aliens = 0) =>
         \A k \in DOMAIN frames : Own(k) => \E i \in DOMAIN shown : shown[i] = frames[k].packet

-------------------------------------------------------------------------------
Next ==
  \/ Len(asked) < Len(Plans[plan].asks) /\ \E ask \in Plans[plan].asks[Len(asked) + 1] : Ask(ask)
  \/ \E cells \in Plans[plan].toServer : AlienAsks(cells)
  \/ RequestTimeout
  \/ \E n \in 1 .. Len(toServer) : ServerRead(n)
  \/ ReadMessage
  \/ \E msg \in tasks : HandleMessage(msg)
  \/ SendFrame
  \/ \E cells \in Plans[plan].toClient : AlienReplies(cells)
  \/ \E n \in 1 .. Len(toClient) : ClientRead(n)
  \/ WaitForMore
  \/ MediaFrame
  \/ TakePacket
  \/ BadPacket
  \/ TakeAnswer

Spec == Init /\ [][Next]_vars
===============================================================================
