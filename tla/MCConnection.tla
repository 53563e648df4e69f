----------------------------- MODULE MCConnection -----------------------------
(* A small instance of Connection for TLC: two connections that may be open *)
(* together or share a descriptor number one after the other, two senders.  *)
EXTENDS Connection

CONSTANTS c1, c2, s1, s2

MCConns == {c1, c2}
MCSenders == {s1, s2}
MCFds == {5, 6}
===============================================================================
