------------------------------ MODULE Connection ------------------------------
(***************************************************************************)
(* The output path of a client connection: server/src/connection.cc and    *)
(* the part of the reactor that accepts, flushes and closes descriptors.   *)
(*                                                                         *)
(* Pool workers and pull threads ("senders") only append to _writeBuf; the *)
(* reactor thread alone writes to the socket, when epoll reports EPOLLOUT. *)
(* The two sides agree through _writeInterest and the epoll registration,  *)
(* which are changed while _sendMutex is held, and the reactor closes and  *)
(* reuses descriptors while senders still hold the connection object.      *)
(*                                                                         *)
(* One step is one stretch between two points where another thread can be  *)
(* observed: taking the mutex, the epoll_ctl call made under it, one       *)
(* send().  The mutex is explicit, so that the order of "unlock" and       *)
(* "epoll_ctl" is part of the model.                                       *)
(***************************************************************************)
EXTENDS Naturals, Sequences

CONSTANTS
  Conns,      (* connection objects; each one is accepted at most once *)
  Fds,        (* descriptor numbers the kernel hands out, and reuses *)
  Senders,    (* threads that call sendData *)
  Reactor,    (* the reactor thread *)
  None,       (* no connection, no thread *)
  NoFd,       (* the descriptor value -1 *)
  FrameLen,   (* bytes in a frame *)
  SndBuf,     (* bytes the kernel buffers for one socket *)
  MaxFrames   (* bound: frames accepted by one connection *)

ASSUME ConnectionAssumption ==
  /\ None \notin Conns /\ NoFd \notin Fds
  /\ Reactor \notin Senders /\ None \notin Senders \cup {Reactor}
  /\ FrameLen \in Nat \ {0} /\ SndBuf \in Nat \ {0} /\ MaxFrames \in Nat

VARIABLES
  (* Connection *)
  fd,             (* _fd *)
  closed,         (* _closed *)
  writeBuf,       (* _writeBuf, a sequence of bytes *)
  writeOffset,    (* _writeOffset *)
  writeInterest,  (* _writeInterest *)
  callbackFd,     (* the descriptor captured by _writeInterestCallback *)
  sendMutex,      (* holder of _sendMutex, or None *)
  (* Reactor and senders *)
  conn,           (* _conn: descriptor -> connection *)
  reactorAt,      (* where the reactor thread is, and for which descriptor *)
  senderAt,       (* where a sender is, and with which connection *)
  (* kernel and peer *)
  owner,          (* the connection whose socket a descriptor denotes *)
  epoll,          (* registration of a descriptor *)
  room,           (* free bytes in the socket's send buffer *)
  peer,           (* what the peer did: "up", "eof" or "reset" *)
  (* history *)
  accepted,       (* frames accepted by sendData *)
  wire            (* bytes taken by the kernel for the connection's own peer *)

object == <<fd, closed, writeBuf, writeOffset, writeInterest, callbackFd>>
kernel == <<owner, epoll, room, peer>>
history == <<accepted, wire>>
vars == <<object, sendMutex, conn, reactorAt, senderAt, kernel, history>>

Registration == {"absent", "in", "inout"}
ReactorStep == {"poll", "flush", "disarm", "del", "shut"}

TypeOK ==
  /\ fd \in [Conns -> Fds \cup {NoFd}]
  /\ closed \in [Conns -> BOOLEAN]
  /\ writeBuf \in [Conns -> Seq(Nat \X Nat)]
  /\ writeOffset \in [Conns -> Nat]
  /\ \A c \in Conns : writeOffset[c] <= Len(writeBuf[c])
  /\ writeInterest \in [Conns -> BOOLEAN]
  /\ callbackFd \in [Conns -> Fds \cup {NoFd}]
  /\ sendMutex \in [Conns -> Senders \cup {Reactor, None}]
  /\ conn \in [Fds -> Conns \cup {None}]
  /\ reactorAt \in [step : ReactorStep, fd : Fds \cup {NoFd}]
  /\ senderAt \in [Senders -> [step : {"idle", "arm"}, conn : Conns \cup {None}]]
  /\ owner \in [Fds -> Conns \cup {None}]
  /\ epoll \in [Fds -> Registration]
  /\ room \in [Conns -> Nat]
  /\ peer \in [Conns -> {"up", "eof", "reset"}]
  /\ accepted \in [Conns -> Nat]
  /\ wire \in [Conns -> Seq(Nat \X Nat)]

Init ==
  /\ fd = [c \in Conns |-> NoFd]
  /\ closed = [c \in Conns |-> FALSE]
  /\ writeBuf = [c \in Conns |-> <<>>]
  /\ writeOffset = [c \in Conns |-> 0]
  /\ writeInterest = [c \in Conns |-> FALSE]
  /\ callbackFd = [c \in Conns |-> NoFd]
  /\ sendMutex = [c \in Conns |-> None]
  /\ conn = [f \in Fds |-> None]
  /\ reactorAt = [step |-> "poll", fd |-> NoFd]
  /\ senderAt = [s \in Senders |-> [step |-> "idle", conn |-> None]]
  /\ owner = [f \in Fds |-> None]
  /\ epoll = [f \in Fds |-> "absent"]
  /\ room = [c \in Conns |-> SndBuf]
  /\ peer = [c \in Conns |-> "up"]
  /\ accepted = [c \in Conns |-> 0]
  /\ wire = [c \in Conns |-> <<>>]

(* Frame number n as bytes: each byte says which frame it is of, and where. *)
Frame(n) == [k \in 1..FrameLen |-> <<n, k>>]

(* The bytes of the send queue that no send() has taken yet. *)
Remaining(c) == Len(writeBuf[c]) - writeOffset[c]

Accepted(c) == callbackFd[c] # NoFd

(* The mutex stays with thread t, from the change of the queue until the    *)
(* callback has returned.                                                   *)
MutexReleasedEarly(c, t) == sendMutex' = [sendMutex EXCEPT ![c] = None] \* mutant
MutexKept(c, t) == sendMutex' = [sendMutex EXCEPT ![c] = t]

MutexReleased(c) == sendMutex' = [sendMutex EXCEPT ![c] = None]

(* _writeBuf.clear(); _writeOffset = 0; *)
QueueCleared(c) ==
  /\ writeBuf' = [writeBuf EXCEPT ![c] = <<>>]
  /\ writeOffset' = [writeOffset EXCEPT ![c] = 0]

(* Reactor::updateWriteInterest: EPOLL_CTL_MOD on a descriptor; a missing   *)
(* registration (ENOENT, EBADF) is tolerated and changes nothing.           *)
UpdateWriteInterestSticky(f, enabled) == \* mutant: EPOLLOUT is never taken back
  epoll' = [epoll EXCEPT ![f] = IF @ # "absent" /\ enabled THEN "inout" ELSE @]
UpdateWriteInterest(f, enabled) ==
  epoll' = [epoll EXCEPT ![f] = IF @ = "absent" THEN @
                                ELSE IF enabled THEN "inout" ELSE "in"]

ReactorGoes(step, f) == reactorAt' = [step |-> step, fd |-> f]

-------------------------------------------------------------------------------
(* Accepting: accept4 returns a free descriptor, the connection is built,   *)
(* the callback captures the descriptor, _conn and epoll learn it.          *)
Accept(c, f) ==
  /\ reactorAt.step = "poll"
  /\ ~Accepted(c)
  /\ owner[f] = None
  /\ owner' = [owner EXCEPT ![f] = c]
  /\ fd' = [fd EXCEPT ![c] = f]
  /\ callbackFd' = [callbackFd EXCEPT ![c] = f]
  /\ conn' = [conn EXCEPT ![f] = c]
  /\ epoll' = [epoll EXCEPT ![f] = "in"]
  /\ UNCHANGED <<closed, writeBuf, writeOffset, writeInterest, sendMutex,
                 reactorAt, senderAt, room, peer, history>>

-------------------------------------------------------------------------------
(* Connection::sendData by sender s.  On a closed connection it returns 0   *)
(* and changes nothing, which is no step here.  The first frame that raises *)
(* _writeInterest keeps the mutex and goes on to the callback.              *)
SendData(s, c) ==
  /\ senderAt[s].step = "idle"
  /\ Accepted(c)
  /\ sendMutex[c] = None
  /\ ~closed[c] /\ fd[c] # NoFd
  /\ accepted[c] < MaxFrames
  /\ writeBuf' = [writeBuf EXCEPT ![c] = @ \o Frame(accepted[c] + 1)]
  /\ accepted' = [accepted EXCEPT ![c] = @ + 1]
  /\ IF writeInterest[c]
     THEN UNCHANGED <<writeInterest, sendMutex, senderAt>>
     ELSE /\ writeInterest' = [writeInterest EXCEPT ![c] = TRUE]
          /\ MutexKept(c, s)
          /\ senderAt' = [senderAt EXCEPT ![s] = [step |-> "arm", conn |-> c]]
  /\ UNCHANGED <<fd, closed, writeOffset, callbackFd, conn, reactorAt, kernel,
                 wire>>

(* The callback _writeInterestCallback(true), then the mutex is released.   *)
SendArm(s) ==
  LET c == senderAt[s].conn IN
  /\ senderAt[s].step = "arm"
  /\ UpdateWriteInterest(callbackFd[c], TRUE)
  /\ MutexReleased(c)
  /\ senderAt' = [senderAt EXCEPT ![s] = [step |-> "idle", conn |-> None]]
  /\ UNCHANGED <<object, conn, reactorAt, owner, room, peer, history>>

-------------------------------------------------------------------------------
(* The reactor handles EPOLLOUT on f: flushOutput takes the mutex.  On a    *)
(* closed connection it answers Fatal at once.                              *)
PollOut(f) ==
  LET c == conn[f] IN
  /\ reactorAt.step = "poll"
  /\ c # None
  /\ epoll[f] = "inout" /\ room[owner[f]] > 0
  /\ sendMutex[c] = None
  /\ IF closed[c] \/ fd[c] = NoFd
     THEN ReactorGoes("del", f) /\ UNCHANGED sendMutex
     ELSE /\ ReactorGoes("flush", f)
          /\ MutexKept(c, Reactor)
  /\ UNCHANGED <<object, conn, senderAt, kernel, history>>

(* One send() that takes n bytes: all of the rest, or part of it. *)
FlushSend ==
  LET c == conn[reactorAt.fd] IN
  /\ reactorAt.step = "flush"
  /\ peer[c] # "reset"
  /\ \E n \in 1..Remaining(c) :
       /\ n <= room[owner[fd[c]]]
       /\ wire' = [wire EXCEPT ![owner[fd[c]]] =
                     @ \o SubSeq(writeBuf[c], writeOffset[c] + 1, writeOffset[c] + n)]
       /\ room' = [room EXCEPT ![owner[fd[c]]] = @ - n]
       /\ writeOffset' = [writeOffset EXCEPT ![c] = @ + n]
  /\ UNCHANGED <<fd, closed, writeBuf, writeInterest, callbackFd, sendMutex,
                 conn, reactorAt, senderAt, owner, epoll, peer, accepted>>

(* send() fails with EAGAIN: FlushResult::Pending, the interest stays.      *)
FlushPendingRestarts == \* mutant: the partly sent queue is sent again from its start
  LET c == conn[reactorAt.fd] IN
  /\ reactorAt.step = "flush" /\ peer[c] # "reset"
  /\ Remaining(c) > 0 /\ room[owner[fd[c]]] = 0
  /\ writeOffset' = [writeOffset EXCEPT ![c] = 0]
  /\ MutexReleased(c) /\ ReactorGoes("poll", NoFd)
  /\ UNCHANGED <<fd, closed, writeBuf, writeInterest, callbackFd, conn,
                 senderAt, kernel, history>>
FlushPendingDiscards == \* mutant: what does not fit the kernel buffer is dropped
  LET c == conn[reactorAt.fd] IN
  /\ reactorAt.step = "flush" /\ peer[c] # "reset"
  /\ Remaining(c) > 0 /\ room[owner[fd[c]]] = 0
  /\ QueueCleared(c) /\ MutexReleased(c) /\ ReactorGoes("poll", NoFd)
  /\ UNCHANGED <<fd, closed, writeInterest, callbackFd, conn, senderAt, kernel,
                 history>>
FlushPending ==
  LET c == conn[reactorAt.fd] IN
  /\ reactorAt.step = "flush"
  /\ peer[c] # "reset"
  /\ Remaining(c) > 0 /\ room[owner[fd[c]]] = 0
  /\ MutexReleased(c)
  /\ ReactorGoes("poll", NoFd)
  /\ UNCHANGED <<object, conn, senderAt, kernel, history>>

(* send() fails with EPIPE or ECONNRESET: FlushResult::Fatal.               *)
FlushFatal ==
  LET c == conn[reactorAt.fd] IN
  /\ reactorAt.step = "flush"
  /\ peer[c] = "reset" /\ Remaining(c) > 0
  /\ closed' = [closed EXCEPT ![c] = TRUE]
  /\ QueueCleared(c)
  /\ writeInterest' = [writeInterest EXCEPT ![c] = FALSE]
  /\ MutexReleased(c)
  /\ ReactorGoes("del", reactorAt.fd)
  /\ UNCHANGED <<fd, callbackFd, conn, senderAt, kernel, history>>

(* Nothing remains: the queue is reset and _writeInterest is lowered; the   *)
(* callback follows while the mutex is still held.                          *)
FlushDrained ==
  LET c == conn[reactorAt.fd] IN
  /\ reactorAt.step = "flush"
  /\ Remaining(c) = 0
  /\ QueueCleared(c)
  /\ writeInterest' = [writeInterest EXCEPT ![c] = FALSE]
  /\ IF writeInterest[c]
     THEN ReactorGoes("disarm", reactorAt.fd) /\ UNCHANGED sendMutex
     ELSE /\ ReactorGoes("poll", NoFd)
          /\ MutexReleased(c)
  /\ UNCHANGED <<fd, closed, callbackFd, conn, senderAt, kernel, history>>

(* The callback _writeInterestCallback(false): FlushResult::Drained.        *)
FlushDisarm ==
  LET c == conn[reactorAt.fd] IN
  /\ reactorAt.step = "disarm"
  /\ UpdateWriteInterest(callbackFd[c], FALSE)
  /\ MutexReleased(c)
  /\ ReactorGoes("poll", NoFd)
  /\ UNCHANGED <<object, conn, senderAt, owner, room, peer, history>>

-------------------------------------------------------------------------------
(* The four ways into Reactor::closeConnection besides a fatal flush:       *)
(* EPOLLERR/EPOLLHUP, read() returning 0, and the idle scan.                *)
PollError(f) ==
  /\ reactorAt.step = "poll"
  /\ conn[f] # None /\ peer[conn[f]] = "reset"
  /\ ReactorGoes("del", f)
  /\ UNCHANGED <<object, sendMutex, conn, senderAt, kernel, history>>

PollEof(f) ==
  /\ reactorAt.step = "poll"
  /\ conn[f] # None /\ peer[conn[f]] = "eof"
  /\ ReactorGoes("del", f)
  /\ UNCHANGED <<object, sendMutex, conn, senderAt, kernel, history>>

IdleTimeout(f) ==
  /\ reactorAt.step = "poll"
  /\ conn[f] # None
  /\ ReactorGoes("del", f)
  /\ UNCHANGED <<object, sendMutex, conn, senderAt, kernel, history>>

(* Reactor::closeConnection, first statement: EPOLL_CTL_DEL. *)
CloseDel ==
  /\ reactorAt.step = "del"
  /\ epoll' = [epoll EXCEPT ![reactorAt.fd] = "absent"]
  /\ ReactorGoes("shut", reactorAt.fd)
  /\ UNCHANGED <<object, sendMutex, conn, senderAt, owner, room, peer, history>>

(* Connection::closeConnection under the mutex, then the erase from _conn.  *)
CloseShut ==
  LET f == reactorAt.fd
      c == conn[f] IN
  /\ reactorAt.step = "shut"
  /\ sendMutex[c] = None
  /\ closed' = [closed EXCEPT ![c] = TRUE]
  /\ QueueCleared(c)
  /\ writeInterest' = [writeInterest EXCEPT ![c] = FALSE]
  /\ owner' = [owner EXCEPT ![fd[c]] = None]
  /\ fd' = [fd EXCEPT ![c] = NoFd]
  /\ conn' = [conn EXCEPT ![f] = None]
  /\ ReactorGoes("poll", NoFd)
  /\ UNCHANGED <<callbackFd, sendMutex, senderAt, epoll, room, peer, history>>

-------------------------------------------------------------------------------
(* The peer and the kernel. *)
PeerReads(c) ==
  /\ peer[c] # "reset" /\ room[c] < SndBuf
  /\ room' = [room EXCEPT ![c] = @ + 1]
  /\ UNCHANGED <<object, sendMutex, conn, reactorAt, senderAt, owner, epoll,
                 peer, history>>

PeerShutdown(c) ==
  /\ fd[c] # NoFd /\ peer[c] = "up"
  /\ peer' = [peer EXCEPT ![c] = "eof"]
  /\ UNCHANGED <<object, sendMutex, conn, reactorAt, senderAt, owner, epoll,
                 room, history>>

PeerReset(c) ==
  /\ fd[c] # NoFd /\ peer[c] # "reset"
  /\ peer' = [peer EXCEPT ![c] = "reset"]
  /\ UNCHANGED <<object, sendMutex, conn, reactorAt, senderAt, owner, epoll,
                 room, history>>

-------------------------------------------------------------------------------
SenderNext(s) == SendArm(s) \/ \E c \in Conns : SendData(s, c)

Flush == FlushSend \/ FlushPending \/ FlushFatal \/ FlushDrained \/ FlushDisarm

ReactorNext ==
  \/ \E c \in Conns, f \in Fds : Accept(c, f)
  \/ \E f \in Fds : PollOut(f) \/ PollError(f) \/ PollEof(f) \/ IdleTimeout(f)
  \/ Flush \/ CloseDel \/ CloseShut

PeerNext == \E c \in Conns : PeerReads(c) \/ PeerShutdown(c) \/ PeerReset(c)

Next == ReactorNext \/ PeerNext \/ \E s \in Senders : SenderNext(s)

Spec == Init /\ [][Next]_vars

(* A thread that holds the mutex goes on; the reactor goes on with what it  *)
(* began and epoll_wait reports every ready descriptor in its turn (strong  *)
(* fairness: the reactor is back in "poll" again and again).  The peer      *)
(* reads as long as it has not reset the connection.  Nothing is assumed of *)
(* senders that are idle, nor of the ways a connection ends.                *)
Fairness ==
  /\ WF_vars(Flush) /\ WF_vars(CloseDel) /\ WF_vars(CloseShut)
  /\ \A f \in Fds : SF_vars(PollOut(f)) /\ SF_vars(PollError(f))
  /\ \A s \in Senders : WF_vars(SendArm(s))
  /\ \A c \in Conns : WF_vars(PeerReads(c))

FairSpec == Spec /\ Fairness

-------------------------------------------------------------------------------
(* Properties.                                                              *)

(* The reactor is tearing the connection down: its registration is going or *)
(* gone, so what epoll says of it no longer matters.                        *)
Closing(c) ==
  closed[c] \/ (reactorAt.step = "shut" /\ conn[reactorAt.fd] = c)

(* No lost wakeup: bytes that no send() has taken, on a connection nobody   *)
(* is changing and nobody is closing, always have EPOLLOUT registered, so   *)
(* the reactor will come for them.  (sendData raises the interest only when *)
(* it is not raised already, so one missed registration would strand every  *)
(* later frame of this client.)                                             *)
PendingIsArmed ==
  \A c \in Conns :
    (sendMutex[c] = None /\ fd[c] # NoFd /\ ~Closing(c) /\ Remaining(c) > 0)
      => epoll[fd[c]] = "inout"

(* _writeInterest and the epoll registration say the same thing whenever    *)
(* the mutex is free.  An EPOLLOUT that nobody asked for would make the     *)
(* level-triggered epoll_wait return at once for ever: flushOutput lowers   *)
(* the registration only when _writeInterest was raised.                    *)
InterestMatchesEpoll ==
  \A c \in Conns :
    (sendMutex[c] = None /\ fd[c] # NoFd /\ ~Closing(c))
      => (writeInterest[c] <=> epoll[fd[c]] = "inout")

(* A sender that runs the callback changes the registration of its own      *)
(* connection's socket, never that of a later connection which was given    *)
(* the same descriptor number, although it still holds the old object.      *)
ArmsOwnDescriptor ==
  \A s \in Senders :
    senderAt[s].step = "arm" => owner[callbackFd[senderAt[s].conn]] = senderAt[s].conn

(* The connections implement the abstract channel: what the peer gets is a  *)
(* prefix of the accepted frames, whole and in order, and a closed          *)
(* connection accepts and transmits nothing.                                *)
Channel == INSTANCE OutputChannel WITH
  status <- [c \in Conns |-> IF ~Accepted(c) THEN "new"
                             ELSE IF closed[c] THEN "closed" ELSE "open"]

ImplementsChannel == Channel!Spec

(* Everything accepted is eventually on the wire, unless the connection is  *)
(* closed: a slow client delays its own output and loses none of it.        *)
EventuallySent ==
  \A c \in Conns :
    (Remaining(c) > 0) ~> (closed[c] \/ Len(wire[c]) = accepted[c] * FrameLen)
===============================================================================
