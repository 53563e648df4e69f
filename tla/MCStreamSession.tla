--------------------------- MODULE MCStreamSession ---------------------------
(* A small instance of StreamSession for TLC: a queue of one frame, so that  *)
(* the pull thread has to wait, and three connections to the camera.         *)
EXTENDS StreamSession
===============================================================================
