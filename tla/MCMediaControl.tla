--------------------------- MODULE MCMediaControl -----------------------------
(* Small instances of MediaControl for TLC.  In MCMediaControl.cfg two       *)
(* connections, which are alike, make every kind of request.  In             *)
(* MCMediaControlLive.cfg one connection makes three: a camera's stream and  *)
(* two recordings that overlap are what it takes to replace a recorder under *)
(* the mutex (DropRecorder), and the reactor's close competes for it.        *)
EXTENDS MediaControl, TLC

CameraKinds == {"cameraStart", "streamStop", "recordStart", "recordStop"}

ConnSymmetry == Permutations(Conns)
===============================================================================
