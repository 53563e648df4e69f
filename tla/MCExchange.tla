------------------------------ MODULE MCExchange ------------------------------
(* A small instance of Exchange for TLC: a login, then any request, then one *)
(* more; answers that succeed, fail and do not fit; a stream with a frame of *)
(* another release in the middle, whose data reads like a frame length.      *)
EXTENDS Exchange

LongText == [i \in 1 .. Base |-> 0]
Request(type, f) == [type |-> type, fields |-> f]

First == {Request(4353, <<<<7>>, <<8, 9>>>>), Request(4353, <<LongText, <<8>>>>),
          Request(4097, <<<<7>>, <<8, 9>>>>)}
Control == {Request(5121, <<<<5, 6>>>>), Request(5121, <<<<>>>>), Request(5377, <<>>),
            Request(5633, <<7>>), Request(5889, <<>>),
            Request(6145, <<<<5>>, <<3>>, <<2>>>>), Request(6145, <<<<5>>, <<3>>, <<1>>>>)}
Lists == {Request(4609, <<>>), Request(4865, <<41, <<3>>, <<>>>>), Request(4865, <<42, <<9>>, <<3>>>>)}

Dev(i) == <<i, <<1>>, <<>>, <<2, 3>>>>
Rec(i) == <<i, 7, <<1>>, <<2>>, <<3>>>>
List(code, items) == [code |-> code, items |-> items]

MCResults ==
  [t \in RequestTypes |->
    CASE t = 4097 -> {0, 2002}
      [] t = 4353 -> {[userId |-> 123456, token |-> <<9, 1>>, code |-> 0],
                      [userId |-> 0, token |-> <<>>, code |-> 2004]}
      [] t = 4609 -> {List(0, <<Dev(301), Dev(302)>>), List(0, [i \in 1 .. 3 |-> Dev(i)])}
      [] t = 4865 -> {List(0, <<Rec(501), Rec(502)>>), List(0, [i \in 1 .. 3 |-> Rec(i)]),
                      List(2001, <<>>)}
      [] t = 5121 -> {0, 3005}
      [] t = 5889 -> {3003}
      [] OTHER -> {0}]

Sent(version, pts, data) == [version |-> version, packet |-> [pts |-> pts, data |-> data]]
MCFrames == <<Sent(1, 1, <<7>>), Sent(2, 2, <<6, 5>>), Sent(1, 3, <<>>)>>

(* The next protocol version, a request with something behind it, a response *)
(* as a request, a body beyond the limit.                                    *)
MCAlien == {<<TypeCell(4353, 2), 1, 99, 7>>, <<TypeCell(4097, 1), 5, 98, 1, 7, 1, 8, 9>>,
            <<TypeCell(4354, 1), 0, 97>>, <<TypeCell(4353, 1), MaxBody + 1, 96>>}
MCAlienReply == {<<TypeCell(4354, 2), 1, 1, 7>>, <<TypeCell(4610, 1), 0, 2>>}

Plan(asks, frames, requests, replies) ==
  [asks |-> asks, frames |-> frames, toServer |-> requests, toClient |-> replies,
   aliens |-> IF requests \cup replies = {} THEN 0 ELSE 1]

(* Requests alone; with a stream; among messages of another release.         *)
Login == {Request(4353, <<<<7>>, <<8, 9>>>>)}
MCPlans ==
  <<Plan(<<First, Control \cup Lists, {Request(4609, <<>>)}>>, <<>>, {}, {}),
   Plan(<<Login, {Request(4609, <<>>)}>>, MCFrames, {}, {}),
   Plan(<<Login, {Request(4609, <<>>), Request(5889, <<>>)}>>, <<>>, MCAlien, {}),
   Plan(<<Login>>, MCFrames, {}, MCAlienReply)>>
===============================================================================
