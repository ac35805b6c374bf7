----------------------------- MODULE TcpServer ------------------------------
(***************************************************************************)
(* The TCP mode of src/src/srv2.cc (74-103): a fiber that listens, accepts *)
(* connections and spawns a handler for each, and the handlers, which send *)
(* a fixed reply for every recvmsg that returns data.  The peers and the   *)
(* kernel's side of the connections are the environment.                   *)
(*                                                                         *)
(* A request is a number of bytes, a reply a number of pieces, which a     *)
(* connection has room for or not.                                         *)
(***************************************************************************)
EXTENDS Integers, Sequences, FiniteSets

CONSTANTS
  Conns,          (* The connections peers may open.                       *)
  FdLimit,        (* How many connections the process may hold open.       *)
  Backlog,        (* The length of the listening socket's queue.           *)
  MaxBytes,       (* Bound: the bytes the peer of each connection sends.   *)
  ReplySize,      (* The pieces a reply consists of.                       *)
  ReplyRoom       (* The pieces a connection holds until its peer reads.   *)

ASSUME TcpServerAssumption ==
  /\ FdLimit \in Nat \ {0} /\ Backlog \in Nat \ {0}
  /\ MaxBytes \in [Conns -> Nat] /\ ReplySize \in Nat \ {0}
  /\ ReplyRoom \in Nat \ {0}

VARIABLES
  peer,           (* What the peer of a connection has done to it last,    *)
                  (* or that its kernel "refused" what came for it.        *)
  sent,           (* How many bytes it has sent on it.                     *)
  stream,         (* The bytes of these the server has not received.       *)
  unread,         (* The pieces of replies the peer has not read.          *)
  backlog,        (* The connections waiting to be accepted.               *)
  fds,            (* The connections of the open descriptors, in the order *)
                  (* of their numbers.                                     *)
  acceptor,       (* The accepting fiber: in "accept" or about to "spawn". *)
  accepted,       (* Its fd.                                               *)
  handlers,       (* The handlers in the order they were spawned: the fd   *)
                  (* each has captured, and whether it is in "recv", in    *)
                  (* "send" or "done".                                     *)
  received,       (* How many times recvmsg returned data of a connection. *)
  replied,        (* How many replies were sent on it.                     *)
  taken,          (* How many pieces of them the kernel took.              *)
  server          (* "down" until the socket listens, then "up", or the    *)
                  (* message the process died of.                          *)

peerVars == <<peer, sent>>
handlerVars == <<handlers, received, replied, taken>>

vars == <<peer, sent, stream, unread, backlog, fds, acceptor, accepted,
          handlers, received, replied, taken, server>>

Handler == [fd : Nat, pc : {"recv", "send", "done"}]

TypeOK ==
  /\ peer \in [Conns -> {"new", "open", "shut", "closed", "reset", "refused"}]
  /\ sent \in [Conns -> Nat]
  /\ stream \in [Conns -> Nat]
  /\ unread \in [Conns -> 0 .. ReplyRoom]
  /\ backlog \in Seq(Conns)
  /\ fds \in Seq(Conns)
  /\ acceptor \in {"accept", "spawn"}
  /\ accepted \in Nat
  /\ handlers \in Seq(Handler)
  /\ received \in [Conns -> Nat]
  /\ replied \in [Conns -> Nat]
  /\ taken \in [Conns -> Nat]
  /\ server \in {"down", "up", "socket", "setsockopt", "bind", "listen",
                 "bad accept", "bad sendmsg"}

Init ==
  /\ peer = [c \in Conns |-> "new"]
  /\ sent = [c \in Conns |-> 0]
  /\ stream = [c \in Conns |-> 0]
  /\ unread = [c \in Conns |-> 0]
  /\ backlog = <<>>
  /\ fds = <<>>
  /\ acceptor = "accept"
  /\ accepted = 0
  /\ handlers = <<>>
  /\ received = [c \in Conns |-> 0]
  /\ replied = [c \in Conns |-> 0]
  /\ taken = [c \in Conns |-> 0]
  /\ server = "down"

-----------------------------------------------------------------------------
(* The peers.                                                              *)

Connect(c) ==
  /\ peer[c] = "new"
  /\ Len(backlog) < Backlog
  /\ peer' = [peer EXCEPT ![c] = "open"]
  /\ backlog' = Append(backlog, c)
  /\ UNCHANGED <<sent, stream, unread, fds, acceptor, accepted, handlerVars, server>>

PeerSend(c) ==
  /\ peer[c] = "open"
  /\ sent[c] < MaxBytes[c]
  /\ sent' = [sent EXCEPT ![c] = @ + 1]
  /\ stream' = [stream EXCEPT ![c] = @ + 1]
  /\ UNCHANGED <<peer, unread, backlog, fds, acceptor, accepted, handlerVars, server>>

PeerRead(c) ==
  /\ peer[c] \in {"open", "shut"}
  /\ unread[c] > 0
  /\ unread' = [unread EXCEPT ![c] = @ - 1]
  /\ UNCHANGED <<peerVars, stream, backlog, fds, acceptor, accepted, handlerVars, server>>

(* The peer ends its side, stops reading too, or resets the connection.    *)
PeerStop(c) ==
  /\ \/ peer[c] = "open" /\ peer' = [peer EXCEPT ![c] = "shut"]
     \/ peer[c] \in {"open", "shut"} /\ peer' = [peer EXCEPT ![c] = "closed"]
     \/ peer[c] \in {"open", "shut", "closed"} /\ peer' = [peer EXCEPT ![c] = "reset"]
  /\ UNCHANGED <<sent, stream, unread, backlog, fds, acceptor, accepted, handlerVars, server>>

PeerStep(c) ==
  /\ server = "up"
  /\ Connect(c) \/ PeerSend(c) \/ PeerRead(c) \/ PeerStop(c)

-----------------------------------------------------------------------------
(* The accepting fiber.                                                    *)

(* It makes a socket, sets its options, binds it and listens; each of      *)
(* these may throw, and the exception ends the process.                    *)
Listen ==
  /\ server = "down"
  /\ server' \in {"up", "socket", "setsockopt", "bind", "listen"}
  /\ UNCHANGED <<peerVars, stream, unread, backlog, fds, acceptor, accepted, handlerVars>>

(* The kernel has a descriptor left for the process, which closes none.    *)
HasFreeFd == Len(fds) < FdLimit

\* Mutant: the result of accept is not checked.
AcceptUnchecked ==
  /\ server = "up"
  /\ acceptor = "accept"
  /\ acceptor' = "spawn"
  /\ \/ /\ HasFreeFd /\ backlog # <<>>
        /\ backlog' = Tail(backlog)
        /\ fds' = Append(fds, Head(backlog))
        /\ accepted' = Len(fds) + 1
     \/ /\ ~HasFreeFd
        /\ accepted' = -1
        /\ UNCHANGED <<backlog, fds>>
  /\ UNCHANGED <<peerVars, stream, unread, handlerVars, server>>

(* accept waits for a connection and returns the descriptor of the oldest  *)
(* in the queue.  The kernel reserves the descriptor before it waits: at   *)
(* the limit accept throws at once, whether or not anyone connects.        *)
Accept ==
  /\ server = "up"
  /\ acceptor = "accept"
  /\ \/ /\ HasFreeFd /\ backlog # <<>>
        /\ fds' = Append(fds, Head(backlog))
        /\ accepted' = Len(fds) + 1
        /\ backlog' = Tail(backlog)
        /\ acceptor' = "spawn"
        /\ UNCHANGED server
     \/ /\ ~HasFreeFd
        /\ server' = "bad accept"
        /\ UNCHANGED <<fds, accepted, backlog, acceptor>>
  /\ UNCHANGED <<peerVars, stream, unread, handlerVars>>

\* Mutant: the handler is joined, not detached.
SpawnJoins ==
  /\ server = "up"
  /\ acceptor = "spawn"
  /\ IF Len(handlers) < accepted
     THEN handlers' = Append(handlers, [fd |-> accepted, pc |-> "recv"]) /\ UNCHANGED acceptor
     ELSE handlers[accepted].pc = "done" /\ acceptor' = "accept" /\ UNCHANGED handlers
  /\ UNCHANGED <<peerVars, stream, unread, backlog, fds, accepted, received, replied, taken, server>>

(* It spawns a detached handler, which captures fd, and accepts again.     *)
Spawn ==
  /\ server = "up"
  /\ acceptor = "spawn"
  /\ handlers' = Append(handlers, [fd |-> accepted, pc |-> "recv"])
  /\ acceptor' = "accept"
  /\ UNCHANGED <<peerVars, stream, unread, backlog, fds, accepted, received, replied, taken, server>>

-----------------------------------------------------------------------------
(* The handlers.                                                           *)

\* Mutant: fd is captured by reference.
FdOfByReference(h) == accepted

FdOf(h) == handlers[h].fd

(* The connection handler h serves.                                        *)
ConnOf(h) == fds[FdOf(h)]

HandlerAt(h, p) == server = "up" /\ handlers[h].pc = p

Goto(h, p) == handlers' = [handlers EXCEPT ![h].pc = p]

(* The connection is reset, by its peer or by the peer's kernel.  What had *)
(* come before can still be received, or be lost.                          *)
Broken(c) == peer[c] \in {"reset", "refused"}

(* recvmsg returns some of the bytes that have come.                       *)
Receive(h) ==
  /\ HandlerAt(h, "recv")
  /\ \E n \in 1 .. stream[ConnOf(h)] :
       stream' = [stream EXCEPT ![ConnOf(h)] = @ - n]
  /\ received' = [received EXCEPT ![ConnOf(h)] = @ + 1]
  /\ Goto(h, "send")
  /\ UNCHANGED <<peerVars, unread, backlog, fds, acceptor, accepted, replied, taken,
                 server>>

\* Mutant: the handler of a reset connection goes on.
ReceiveNothingGoesOn(h) ==
  /\ HandlerAt(h, "recv")
  /\ Broken(ConnOf(h))
  /\ Goto(h, "send")
  /\ UNCHANGED <<peerVars, stream, unread, backlog, fds, acceptor, accepted,
                 received, replied, taken, server>>

(* It returns 0 at the end of the stream, or fails on a reset connection.  *)
(* Both end the handler; the descriptor stays open.                        *)
ReceiveNothing(h) ==
  /\ HandlerAt(h, "recv")
  /\ \/ stream[ConnOf(h)] = 0 /\ peer[ConnOf(h)] \in {"shut", "closed"}
     \/ Broken(ConnOf(h))
  /\ Goto(h, "done")
  /\ UNCHANGED <<peerVars, stream, unread, backlog, fds, acceptor, accepted,
                 received, replied, taken, server>>

\* Mutant: a part of the reply is sent.
SendPart(h) ==
  LET c == ConnOf(h)
  IN  /\ HandlerAt(h, "send")
      /\ peer[c] \in {"open", "shut"}
      /\ unread[c] < ReplyRoom
      /\ unread' = [unread EXCEPT ![c] = @ + 1]
      /\ taken' = [taken EXCEPT ![c] = @ + 1]
      /\ replied' = [replied EXCEPT ![c] = @ + 1]
      /\ Goto(h, "recv")
      /\ UNCHANGED <<peerVars, stream, backlog, fds, acceptor, accepted, received, server>>

(* The pieces of a reply the kernel has room for.                          *)
Fitting(c) ==
  IF unread[c] + ReplySize <= ReplyRoom THEN ReplySize ELSE ReplyRoom - unread[c]

(* sendmsg waits for room, takes of the reply what there is room for, and  *)
(* returns how much that is, which nobody reads; the kernel of a peer that *)
(* no longer reads takes it too, and refuses it by resetting the           *)
(* connection, which the server learns later.                              *)
Send(h) ==
  LET c == ConnOf(h)
      n == IF peer[c] = "closed" THEN ReplySize ELSE Fitting(c)
  IN  /\ HandlerAt(h, "send")
      /\ n > 0
      /\ \/ /\ peer[c] \in {"open", "shut"}
            /\ unread' = [unread EXCEPT ![c] = @ + n]
            /\ UNCHANGED peer
         \/ /\ peer[c] = "closed"
            /\ peer' = [peer EXCEPT ![c] = "refused"]
            /\ UNCHANGED unread
      /\ taken' = [taken EXCEPT ![c] = @ + n]
      /\ replied' = [replied EXCEPT ![c] = @ + 1]
      /\ Goto(h, "recv")
      /\ UNCHANGED <<sent, stream, backlog, fds, acceptor, accepted, received, server>>

(* It throws on a reset connection, and the exception ends the process.    *)
SendFails(h) ==
  /\ HandlerAt(h, "send")
  /\ Broken(ConnOf(h))
  /\ server' = "bad sendmsg"
  /\ UNCHANGED <<peerVars, stream, unread, backlog, fds, acceptor, accepted, handlerVars>>

HandlerStep(h) == Receive(h) \/ ReceiveNothing(h) \/ Send(h) \/ SendFails(h)

Next ==
  \/ \E c \in Conns : PeerStep(c)
  \/ Listen
  \/ Accept
  \/ Spawn
  \/ \E h \in DOMAIN handlers : HandlerStep(h)

Spec == Init /\ [][Next]_vars

-----------------------------------------------------------------------------
(* What must never happen.                                                 *)

Answering(c) == \E h \in DOMAIN handlers : handlers[h].pc = "send" /\ fds[handlers[h].fd] = c

(* OneReplyPerReceive: what is received on a connection is answered on the *)
(* same connection, once, although the handlers suspend between the two    *)
(* and the accepting fiber goes on assigning fd (srv2.cc:80-101): requests *)
(* that arrive together share a reply, one that arrives in pieces gets     *)
(* several, none goes without.                                             *)
OneReplyPerReceive ==
  \A c \in Conns :
    /\ received[c] = replied[c] + (IF Answering(c) THEN 1 ELSE 0)
    /\ replied[c] <= sent[c] - stream[c]
    /\ ~Answering(c) /\ stream[c] < sent[c] => replied[c] > 0

(* CutOnlyIfUnread: a peer gets all of every reply until the replies it    *)
(* was sent would fill its connection if it read none; the server does not *)
(* look at what sendmsg returns (srv2.cc:100) and never sends the rest.    *)
CutOnlyIfUnread ==
  \A c \in Conns :
    taken[c] < replied[c] * ReplySize => replied[c] * ReplySize > ReplyRoom

(* DeathsExplained: the process dies of "bad sendmsg" (submitter.cc:       *)
(* 203-205) only of a connection with a receive it has not answered, and   *)
(* either its peer reset that connection, or only closed it and the server *)
(* had received from it at least twice: the first reply to a closed peer   *)
(* is refused without harm, and a handler of that connection which then    *)
(* waits for more is ended by recvmsg (srv2.cc:89-95), but one that finds  *)
(* a request left over answers it, and the server dies.  It dies of "bad   *)
(* accept" (216-218) only when it has accepted as many connections as it   *)
(* may hold, served or not: no descriptor is ever given back.              *)
DeathsExplained ==
  /\ server = "bad sendmsg" =>
       \E c \in Conns :
         /\ received[c] = replied[c] + 1
         /\ \/ peer[c] = "reset"
            \/ peer[c] = "refused" /\ received[c] >= 2
  /\ server = "bad accept" =>
       FdLimit = Cardinality({c \in Conns : \E i \in DOMAIN fds : fds[i] = c})

-----------------------------------------------------------------------------
(* What happens eventually.  Peers owe nothing; the kernel completes what  *)
(* can be completed and the scheduler runs every fiber.                    *)

FairSpec ==
  /\ Spec
  /\ WF_vars(Accept)
  /\ WF_vars(Spawn)
  /\ \A h \in 1 .. FdLimit : WF_vars(h \in DOMAIN handlers /\ HandlerStep(h))

(* Served: every connection is accepted and what is sent on it received,   *)
(* whatever the peers of the others do (srv2.cc:79-102), unless the        *)
(* process dies, the connection is reset or its own peer reads no more     *)
(* replies.                                                                *)
Served ==
  /\ backlog # <<>> ~> backlog = <<>> \/ server # "up"
  /\ \A c \in Conns :
       stream[c] > 0 ~> \/ stream[c] = 0 \/ server # "up"
                        \/ Broken(c) \/ [](unread[c] = ReplyRoom)

=============================================================================
