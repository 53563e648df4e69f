------------------------------ MODULE MCClientUi ------------------------------
(* Small instances of the parts of the Qt client's user interface for TLC.   *)
(* They run in one program, but share no state: a behaviour uses one of them *)
(* and leaves the others as they were created, so that their state spaces    *)
(* add up.                                                                   *)
EXTENDS ServerStreamPlayer, FfmpegPlayer, PtzClient, MainWindow

VARIABLE part

Camera(type, name, url, inUse) == [type |-> type, name |-> name, url |-> url, enabled |-> inUse]
MCCameraConfigs ==
  {<<Camera("gun", "front", "rtsp-gun", TRUE), Camera("dome", "yard", "rtsp-dome", TRUE)>>,
   <<Camera("gun", "front", "rtsp-gun", FALSE)>>}
MCStreamUrls == {NoUrl, "rtsp-env"}
MCDeviceLists ==
  {<<[id |-> "1", type |-> "dome", name |-> "ball"], [id |-> "2", type |-> "camera", name |-> "front"]>>}

Init ==
  /\ part \in {"serverStream", "ffmpeg", "ptz", "window"}
  /\ PlayerInit
  /\ FfmpegInit /\ (part # "ffmpeg" => live)
  /\ PtzInit /\ (part # "ptz" => transport = "direct")
  /\ MainWindowInit
  /\ part # "window" => keepsPages /\ useServerStream /\ cameras[1].enabled
  /\ streamUrl # NoUrl => useServerStream /\ ~cameras[1].enabled

Next ==
  /\ UNCHANGED part
  /\ \/ part = "serverStream" /\ PlayerNext /\ UNCHANGED <<ffmpegVars, ptzVars, windowVars>>
     \/ part = "ffmpeg" /\ FfmpegNext /\ UNCHANGED <<playerVars, ptzVars, windowVars>>
     \/ part = "ptz" /\ PtzNext /\ UNCHANGED <<playerVars, ffmpegVars, windowVars>>
     \/ part = "window" /\ MainWindowNext /\ UNCHANGED <<playerVars, ffmpegVars, ptzVars>>

Spec == Init /\ [][Next]_<<part, playerVars, ffmpegVars, ptzVars, windowVars>>
===============================================================================
