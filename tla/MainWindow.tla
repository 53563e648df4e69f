------------------------------- MODULE MainWindow -------------------------------
(***************************************************************************)
(* MainWindow.cpp with the device tree and the buttons of                  *)
(* ui/MonitoringDashboard.cpp: what the window does for the user after the *)
(* login, through the request queue of service/UserService.cpp, which      *)
(* sends one request at a time (ClientSession).  Recording needs a stream  *)
(* on the server first; the window remembers in three flags and in the     *)
(* text of a button what it believes about the server.                     *)
(*                                                                         *)
(* QMainWindow deletes a central widget that is replaced; the window and   *)
(* its tests use replaced pages again.  keepsPages covers both toolkits:   *)
(* where the page is deleted, what follows is undefined and the model ends.*)
(***************************************************************************)
EXTENDS Naturals, Sequences

CONSTANTS
  CameraConfigs, (* what loadCameraConfigs() may return: sequences of            *)
                 (* [type, name, url, enabled], among them the empty one         *)
  StreamUrls,    (* values of SMARTHOME_STREAM_URL; NoUrl: it is not set         *)
  DeviceLists,   (* device lists of the server: sequences of [id, type, name]; ids # NoDevice *)
  MaxAsked       (* bound: requests of the window *)

NoUrl == "no url"         (* the empty string, as an address and as the type of a device *)
NoType == "no type"
MockUrl == "mock://test"  (* the test picture of the server: no recording of it *)

(* A camera whose address is not an RTSP one is refused with the whole file    *)
(* (isRtspUrl, CameraConfig.cpp:103); SMARTHOME_STREAM_URL may be anything.    *)
ASSUME MainWindowAssumption ==
  \A configs \in CameraConfigs :
    configs \in Seq([type : STRING, name : STRING, url : STRING \ {NoUrl, MockUrl}, enabled : BOOLEAN])

VARIABLES
  keepsPages, useServerStream,   (* the toolkit; SMARTHOME_USE_SERVER_STREAM *)
  cameras, streamUrl,            (* m_cameraConfigs, read at the login; SMARTHOME_STREAM_URL *)
  page, dangling,                (* the central widget; a page in use was deleted *)
  loggedIn,                      (* m_userId and m_token of UserService *)
  selected,                      (* m_deviceTree: "gun", "dome", "root" or a device *)
  devices, row,                  (* m_devices; the device selected in m_deviceList *)
  records, playing,              (* m_records and m_playbackPlayer: [device, n], or <<>> *)
  window,                        (* flags: see WindowInit *)
  requests, answer,              (* m_pending and m_requestQueue; the answer to the first *)
  overdue,                       (* requests given up that the server may still carry out *)
  server,                        (* the connection at the server: URL streamed, recording *)
  asked, gaveUp                  (* history: requests made; one was given up *)

NoDevice == "0"

settings == <<keepsPages, useServerStream, cameras, streamUrl>>
pageVars == <<settings, page, dangling>>
listVars == <<selected, devices, row, records, playing>>
netVars == <<loggedIn, requests, answer, overdue, server, asked, gaveUp>>
windowVars == <<pageVars, listVars, window, netVars>>

(* m_serverStreamStarting, m_serverStreamActive, m_recordStartPending with   *)
(* m_pendingRecordDeviceId, m_pendingPlayback, m_recordingActive (the button)*)
WindowInit == [starting |-> FALSE, active |-> FALSE, recordPending |-> <<>>,
               pendingPlayback |-> FALSE, recording |-> FALSE]

ServerInit == [stream |-> NoUrl, recording |-> <<>>]

MainWindowInit ==
  /\ keepsPages \in BOOLEAN /\ useServerStream \in BOOLEAN
  /\ cameras \in CameraConfigs /\ streamUrl \in StreamUrls
  /\ page = "login" /\ dangling = FALSE /\ loggedIn = FALSE
  /\ selected = "gun" /\ devices = <<>> /\ row = NoDevice /\ records = <<>> /\ playing = <<>>
  /\ window = WindowInit
  /\ requests = <<>> /\ answer = <<>> /\ overdue = {} /\ server = ServerInit
  /\ asked = 0 /\ gaveUp = FALSE

-------------------------------------------------------------------------------
(* The device tree.                                                          *)

(* The first element of s with an index in found, if there is one. *)
First(s, found) ==
  IF found = {} THEN <<>> ELSE <<s[CHOOSE i \in found : \A j \in found : i <= j]>>

Ids == {devices[i].id : i \in DOMAIN devices}
TypeOf(item) ==
  IF item \in {"gun", "dome"} THEN item
  ELSE IF item = "root" THEN NoType
  ELSE First(devices, {i \in DOMAIN devices : devices[i].id = item})[1].type

(* The address of the first camera in use of this type; of any type if there *)
(* is none, or if it is just "camera".                                       *)
FirstRtspUrl(configs, type) ==
  LET found == First(configs, {i \in DOMAIN configs : configs[i].enabled
                                 /\ type \in {NoType, "camera", configs[i].type}}) IN
  IF found = <<>> THEN NoUrl ELSE found[1].url

SelectedCameraRtspUrl == FirstRtspUrl(cameras, TypeOf(selected))

(* What the login asks the server to stream. *)
LoginUrl(configs, env) == IF env # NoUrl THEN env ELSE FirstRtspUrl(configs, NoType)

Balls == {"dome", "ptz", "ball"}
FallbackServerDeviceId(type) ==
  LET Named(d) == \E c \in {cameras[i] : i \in DOMAIN cameras} : c.type = type /\ c.name = d.name
      Typed(d) == type # NoType /\ (d.type = type \/ (type = "dome" /\ d.type \in Balls))
      named == First(devices, {i \in DOMAIN devices : Named(devices[i])})
      typed == First(devices, {i \in DOMAIN devices : Typed(devices[i])}) IN
  IF devices = <<>> THEN NoDevice
  ELSE IF named # <<>> THEN named[1].id
  ELSE IF typed # <<>> THEN typed[1].id
  ELSE devices[1].id

SelectedServerDeviceId ==
  IF selected \in Ids THEN selected
  ELSE FallbackServerDeviceId(IF selected = "root" THEN NoType ELSE selected)

SelectItem(item) ==
  /\ page = "dashboard"
  /\ selected' = item
  /\ UNCHANGED <<pageVars, devices, row, records, playing, window, netVars>>

-------------------------------------------------------------------------------
(* Pages, requests and their failure.                                        *)

Show(p) ==
  /\ page' = p
  /\ dangling' = (~keepsPages /\ page # p /\ page # "login")
  /\ UNCHANGED settings
ShowDashboardPage == Show("dashboard")
ShowMetadataPage == Show("data")

(* Any failed request, whichever it was, ends whatever the window waits for. *)
ShowRequestError(w) ==
  [w EXCEPT !.pendingPlayback = FALSE, !.recordPending = <<>>, !.starting = FALSE]

Request(kind, device, camera) ==
  [id |-> asked + 1, kind |-> kind, device |-> device, camera |-> camera]

(* A request behind those in rest: refused at once without a login. *)
Issue(rest, r, w) ==
  /\ requests' = IF loggedIn THEN Append(rest, r) ELSE rest
  /\ window' = IF loggedIn THEN w ELSE ShowRequestError(w)
  /\ asked' = asked + 1

-------------------------------------------------------------------------------
(* The user.                                                                 *)

(* showDataPage, on the answer to the login: it happens once, for the login  *)
(* page is not shown again.                                                  *)
ShowDataPage ==
  /\ page = "login" /\ loggedIn' = TRUE
  /\ ShowDashboardPage
  /\ LET stream == Request("streamStart", NoDevice, LoginUrl(cameras, streamUrl))
         list == [Request("devices", NoDevice, NoUrl) EXCEPT !.id = 2] IN
     /\ requests' = IF useServerStream THEN <<stream, list>> ELSE <<list>>
     /\ window' = [window EXCEPT !.starting = useServerStream]
  /\ asked' = 2
  /\ UNCHANGED <<listVars, answer, overdue, server, gaveUp>>

Free == asked < MaxAsked /\ page # "login"

RequestDevices ==
  /\ Free
  /\ ShowMetadataPage
  /\ Issue(requests, Request("devices", NoDevice, NoUrl), window)
  /\ UNCHANGED <<listVars, loggedIn, answer, overdue, server, gaveUp>>

(* timesOk: the start of the interval is not behind its end. *)
RequestRecordsForDevice(device, w, timesOk) ==
  /\ ShowMetadataPage
  /\ row' = IF device \in Ids THEN device ELSE row
  /\ IF timesOk THEN Issue(requests, Request("records", device, NoUrl), w)
     ELSE window' = [w EXCEPT !.pendingPlayback = FALSE] /\ UNCHANGED <<requests, asked>>
  /\ UNCHANGED <<selected, devices, records, playing, loggedIn, answer, overdue, server, gaveUp>>

(* The query of the data page, and the one of the dashboard. *)
RequestRecords(timesOk) ==
  /\ Free /\ page = "data" /\ devices # <<>>
  /\ RequestRecordsForDevice(IF row = NoDevice THEN devices[1].id ELSE row, window, timesOk)

QueryRecords(timesOk) ==
  /\ Free /\ page = "dashboard"
  /\ IF SelectedServerDeviceId # NoDevice
     THEN RequestRecordsForDevice(SelectedServerDeviceId, window, timesOk)
     ELSE /\ window' = [window EXCEPT !.pendingPlayback = FALSE]
          /\ UNCHANGED <<pageVars, listVars, netVars>>

HandlePlaybackRequest(timesOk) ==
  /\ Free /\ page = "dashboard" /\ SelectedServerDeviceId # NoDevice
  /\ RequestRecordsForDevice(SelectedServerDeviceId, [window EXCEPT !.pendingPlayback = TRUE],
                             timesOk)

(* readable: the file is there under SMARTHOME_RECORD_ROOT. *)
PlayRecordAt(list, n, readable) ==
  IF n <= Len(list) /\ readable
  THEN ShowDashboardPage /\ playing' = list[n]
  ELSE UNCHANGED <<pageVars, playing>>

PlaySelectedRecord(n) ==
  /\ page = "data" /\ n \in DOMAIN records
  /\ PlayRecordAt(records, n, TRUE)
  /\ UNCHANGED <<selected, devices, row, records, window, netVars>>

BackToPreview ==
  /\ page = "data"
  /\ ShowDashboardPage
  /\ UNCHANGED <<listVars, window, netVars>>

(* The button of the dashboard; a refusal with a message is no step. *)
HandleRecordStart ==
  /\ Free /\ page = "dashboard" /\ ~window.recording
  /\ SelectedServerDeviceId # NoDevice /\ window.recordPending = <<>> /\ ~window.starting
  /\ LET device == SelectedServerDeviceId url == SelectedCameraRtspUrl IN
     IF window.active
     THEN Issue(requests, Request("recordStart", device, url), window)
     ELSE /\ url # NoUrl
          /\ Issue(requests, Request("streamStart", NoDevice, url),
                   [window EXCEPT !.recordPending = <<device, url>>, !.starting = TRUE])
  /\ UNCHANGED <<pageVars, listVars, loggedIn, answer, overdue, server, gaveUp>>

HandleRecordStop ==
  /\ Free /\ page = "dashboard" /\ window.recording
  /\ Issue(requests, Request("recordStop", NoDevice, NoUrl), window)
  /\ UNCHANGED <<pageVars, listVars, loggedIn, answer, overdue, server, gaveUp>>

(* enqueueRequest: of the PTZ requests that wait only the newest is kept, and *)
(* a stop goes before everything that waits.                                  *)
WithoutPtz ==
  LET ptz == {i \in DOMAIN requests \ {1} : requests[i].kind \in {"ptzStart", "ptzStop"}}
      place == CHOOSE i \in ptz : TRUE IN
  IF ptz = {} THEN requests
  ELSE SubSeq(requests, 1, place - 1) \o SubSeq(requests, place + 1, Len(requests))

Enqueued(r) ==
  IF r.kind = "ptzStop" /\ requests # <<>>
  THEN <<requests[1], r>> \o Tail(WithoutPtz) ELSE Append(WithoutPtz, r)

(* The forwarder of PtzClient, for a "dome" that the server controls. *)
SendPtzControl(kind) ==
  /\ Free /\ \E i \in DOMAIN cameras : cameras[i].type = "dome"
  /\ requests' = IF loggedIn THEN Enqueued(Request(kind, NoDevice, NoUrl)) ELSE requests
  /\ window' = IF loggedIn THEN window ELSE ShowRequestError(window)
  /\ asked' = asked + 1
  /\ UNCHANGED <<pageVars, listVars, loggedIn, answer, overdue, server, gaveUp>>

-------------------------------------------------------------------------------
(* The server carries a request out: it works or not, and gives a list.      *)

(* openUrl: no address means the test picture. *)
Opened(url) == IF url = NoUrl THEN MockUrl ELSE url
Recordable(url) == url \notin {NoUrl, MockUrl}

Works(r) ==
  CASE r.kind = "recordStart" -> Recordable(server.stream) /\ server.recording = <<>>
    [] r.kind = "recordStop" -> server.recording # <<>>
    [] OTHER -> TRUE

ServerAfter(r) ==
  CASE r.kind = "streamStart" -> [server EXCEPT !.stream = Opened(r.camera)]
    [] r.kind = "recordStart" ->
         [server EXCEPT !.recording = <<[device |-> r.device, url |-> server.stream,
                                         camera |-> r.camera]>>]
    [] r.kind = "recordStop" -> [server EXCEPT !.recording = <<>>]
    [] OTHER -> server

Lists(r) ==
  CASE r.kind = "devices" -> DeviceLists
    [] r.kind = "records" -> {<<>>, <<[device |-> r.device, n |-> 1], [device |-> r.device, n |-> 2]>>}
    [] OTHER -> {<<>>}

Execute(r, ok) ==
  /\ ok => Works(r)
  /\ server' = IF ok THEN ServerAfter(r) ELSE server
  /\ IF r \in overdue THEN overdue' = overdue \ {r} /\ UNCHANGED answer
     ELSE /\ answer = <<>> /\ UNCHANGED overdue
          /\ \E list \in IF ok THEN Lists(r) ELSE {<<>>} : answer' = <<[ok |-> ok, list |-> list]>>
  /\ UNCHANGED <<pageVars, listVars, window, loggedIn, requests, asked, gaveUp>>

-------------------------------------------------------------------------------
(* The answers.                                                              *)

(* The tree's children are deleted and built anew: a device that was         *)
(* selected gives the selection to an item next to it.                       *)
UpdateDevices(list) ==
  /\ devices' = list
  /\ selected' \in IF selected \in Ids THEN {"gun", "dome", "root"} ELSE {selected}
  /\ records' = <<>>
  /\ row' = IF list = <<>> THEN NoDevice ELSE list[1].id
  /\ requests' = Tail(requests)
  /\ UNCHANGED <<pageVars, window, asked, playing>>

UpdateRecords(list, readable) ==
  /\ records' = list
  /\ window' = [window EXCEPT !.pendingPlayback = FALSE]
  /\ IF window.pendingPlayback THEN PlayRecordAt(list, 1, readable)
     ELSE UNCHANGED <<pageVars, playing>>
  /\ requests' = Tail(requests)
  /\ UNCHANGED <<selected, devices, row, asked>>

(* The recording that waited for the stream follows. *)
HandleStreamStarted ==
  /\ LET w == [window EXCEPT !.starting = FALSE, !.active = TRUE, !.recordPending = <<>>]
         p == window.recordPending IN
     IF p # <<>> THEN Issue(Tail(requests), Request("recordStart", p[1], p[2]), w)
     ELSE requests' = Tail(requests) /\ window' = w /\ UNCHANGED asked
  /\ UNCHANGED <<pageVars, listVars>>

SetRecordingActive(active) ==
  /\ window' = [window EXCEPT !.recording = active]
  /\ requests' = Tail(requests)
  /\ UNCHANGED <<pageVars, listVars, asked>>

Answered(readable) ==
  LET kind == requests[1].kind a == answer[1] IN
  /\ answer # <<>> /\ a.ok
  /\ answer' = <<>>
  /\ \/ kind = "devices" /\ UpdateDevices(a.list)
     \/ kind = "records" /\ UpdateRecords(a.list, readable)
     \/ kind = "streamStart" /\ HandleStreamStarted
     \/ kind = "recordStart" /\ SetRecordingActive(TRUE)
     \/ kind = "recordStop" /\ SetRecordingActive(FALSE)
     \/ kind \in {"ptzStart", "ptzStop"} /\ requests' = Tail(requests)
        /\ UNCHANGED <<pageVars, listVars, window, asked>>
  /\ UNCHANGED <<loggedIn, overdue, server, gaveUp>>

RequestFailed ==
  /\ answer # <<>> /\ ~answer[1].ok
  /\ answer' = <<>> /\ requests' = Tail(requests)
  /\ window' = ShowRequestError(window)
  /\ UNCHANGED <<pageVars, listVars, loggedIn, overdue, server, asked, gaveUp>>

RequestTimesOut ==
  /\ requests # <<>>
  /\ requests' = Tail(requests) /\ answer' = <<>>
  /\ overdue' = IF answer = <<>> THEN overdue \cup {requests[1]} ELSE overdue
  /\ window' = ShowRequestError(window)
  /\ gaveUp' = TRUE
  /\ UNCHANGED <<pageVars, listVars, loggedIn, server, asked>>

(* Mutant of StreamLost: the stream is believed to go on. *)
StreamKept(w) == ShowRequestError(w)
StreamLost(w) == [w EXCEPT !.active = FALSE, !.starting = FALSE, !.recordPending = <<>>]

(* The connection breaks: UserService fails what it was asked and forgets    *)
(* the login, then the window's own slot runs.  The server ends the stream   *)
(* and the recording of the connection.                                      *)
Disconnected ==
  /\ loggedIn /\ loggedIn' = FALSE
  /\ requests' = <<>> /\ answer' = <<>> /\ overdue' = {} /\ server' = ServerInit
  /\ window' = StreamLost(IF requests = <<>> THEN window ELSE ShowRequestError(window))
  /\ UNCHANGED <<pageVars, listVars, asked, gaveUp>>

MainWindowNext ==
  /\ ~dangling
  /\ \/ \E item \in {"gun", "dome", "root"} \cup Ids : SelectItem(item)
     \/ ShowDataPage \/ RequestDevices
     \/ \E timesOk \in BOOLEAN :
          RequestRecords(timesOk) \/ QueryRecords(timesOk) \/ HandlePlaybackRequest(timesOk)
     \/ \E n \in 1 .. 2 : PlaySelectedRecord(n)
     \/ BackToPreview \/ HandleRecordStart \/ HandleRecordStop
     \/ \E kind \in {"ptzStart", "ptzStop"} : SendPtzControl(kind)
     \/ \E r \in {requests[i] : i \in DOMAIN requests \cap {1}} \cup overdue, ok \in BOOLEAN :
          Execute(r, ok)
     \/ \E readable \in BOOLEAN : Answered(readable)
     \/ RequestFailed \/ RequestTimesOut \/ Disconnected

MainWindowSpec == MainWindowInit /\ [][MainWindowNext]_windowVars

-------------------------------------------------------------------------------
(* What the window believes about the server is true.  It takes the stream   *)
(* for running only if the server has one for this connection, so that no    *)
(* RECORD_START it sends must fail for the lack of one; the stream it has is *)
(* the test picture, which cannot be recorded, only if the login asked for   *)
(* that one, without a camera in use.  And the button shows whether the      *)
(* server records as soon as no request is under way, unless one was given   *)
(* up or the connection broke.                                               *)
BeliefsAreTrue ==
  /\ window.active => server.stream # NoUrl
  /\ \A i \in DOMAIN requests : requests[i].kind = "recordStart" =>
       \/ Recordable(server.stream)
       \/ server.stream = MockUrl /\ useServerStream /\ ~Recordable(LoginUrl(cameras, streamUrl))
  /\ loggedIn /\ requests = <<>> /\ ~gaveUp => (window.recording <=> server.recording # <<>>)

===============================================================================
