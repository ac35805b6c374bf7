----------------------------- MODULE EchoOnRing -----------------------------
(***************************************************************************)
(* The UDP mode of src/src/srv2.cc (104-134) on the whole ring2 stack: its *)
(* fibers, the scheduler, the poller, the ring and the kernel, which reads *)
(* and writes the fibers' buffers when it performs their operations.  Root *)
(* opens the socket, spawns the other fibers and joins them.               *)
(***************************************************************************)
EXTENDS Submitter, Datagrams

CONSTANTS
  Requests,        (* The requests sent: pairs of a client and a number.   *)
  LongPayloads,    (* The payloads of half a buffer (32500 bytes) or more. *)
  Unwritten        (* The addresses an unwritten msg.addr may hold.        *)

ASSUME EchoOnRingAssumption ==
  /\ Requests \subseteq Clients \X Nat
  /\ LongPayloads \subseteq Clients
  /\ Unwritten \subseteq Addresses

VARIABLES
  prog,    (* A fiber of the server is in its recvmsg ("recv"), between    *)
           (* its two calls ("double") or in its sendmsg ("send").         *)
  buf,     (* buf of each fiber.                                           *)
  msg,     (* What its recvmsg reported: the length of msg.buf, the        *)
           (* address and, for the properties, the request's number.       *)
  asked    (* The requests that have been sent.                            *)

echoVars == <<prog, buf, msg, asked>>

allVars == <<sq, flushed, busy, inflight, cq, runq, current, pending_count,
             reaped, attempts, waiting, call, res, pc, ret, outcome,
             net, inbox, bound, prog, buf, msg, asked>>

Handlers == Fibers \ {Root}

NoMsg == [len |-> 0, peer |-> Server, seq |-> 0]

EchoInit ==
  /\ Init /\ NetInit
  /\ prog = [f \in Handlers |-> "recv"]
  /\ buf = [f \in Handlers |-> <<>>]
  /\ msg = [f \in Handlers |-> NoMsg]
  /\ asked = {}

(* What is in a buffer after body was copied to its beginning.             *)
Put(b, body) == body \o SubSeq(b, Len(body) + 1, Len(b))

-----------------------------------------------------------------------------
(* The fibers.                                                             *)

(* One step of a call, or of the scheduler; it touches no message.         *)
InStack(A) == A /\ UNCHANGED <<netVars, echoVars>>

(* Root opens the socket, or an exception ends the process.                *)
OpenSocket ==
  /\ At(Root, "ready")
  /\ Bind(Server)
  /\ UNCHANGED <<vars, net, inbox, echoVars>>

OpenFails ==
  /\ At(Root, "ready")
  /\ Server \notin bound
  /\ OpErrors # {}
  /\ outcome' \in {"socket", "bind"}
  /\ UNCHANGED <<ringVars, schedulerVars, pollerVars, pending_count, reaped, pc, ret>>
  /\ UNCHANGED <<netVars, echoVars>>

SpawnHandler(f) == Server \in bound /\ InStack(Spawn(Root, f))

JoinHandlers == (\A f \in Fibers : pc[f] # "new") /\ InStack(Finish(Root))

StackStep(f) ==
  InStack(Starve(f) \/ SubmitUntimed(f))

(* recvmsg on the socket all the fibers share.                             *)
CallRecvmsg(f) ==
  /\ prog[f] = "recv"
  /\ Begin(f, "recv")
  /\ UNCHANGED <<netVars, echoVars>>

(* recvmsg or sendmsg returns, unless the process dies.                    *)
CallReturns(f) ==
  /\ Return(f)
  /\ prog' = [prog EXCEPT ![f] = IF outcome' # "running" THEN @
                                 ELSE IF @ = "recv" THEN "double" ELSE "recv"]
  /\ UNCHANGED <<netVars, buf, msg, asked>>

Message(f) == SubSeq(buf[f], 1, msg[f].len)

TooLong(f) == \E i \in 1 .. msg[f].len : buf[f][i] \in LongPayloads

(* The message and its copy do not fit the buffer.                         *)
Panic(f) ==
  /\ At(f, "ready") /\ prog[f] = "double"
  /\ TooLong(f)
  /\ outcome' = "Too long message"
  /\ UNCHANGED <<ringVars, schedulerVars, pollerVars, pending_count, reaped, pc, ret>>
  /\ UNCHANGED <<netVars, echoVars>>

(* The fiber copies the message behind itself and calls sendmsg.           *)
CallSendmsg(f) ==
  /\ prog[f] = "double"
  /\ ~TooLong(f)
  /\ Begin(f, "send")
  /\ buf' = [buf EXCEPT ![f] = Put(@, Message(f) \o Message(f))]
  /\ prog' = [prog EXCEPT ![f] = "send"]
  /\ UNCHANGED <<netVars, msg, asked>>

HandlerStep(f) ==
  StackStep(f) \/ CallRecvmsg(f) \/ CallReturns(f) \/ Panic(f) \/ CallSendmsg(f)

(* The scheduler polls with TryPollMany.  It never stops: a handler that   *)
(* is not runnable has an operation in the ring.                           *)
Loop == InStack(Switch \/ PollMany \/ Dispatch)

-----------------------------------------------------------------------------
(* The kernel performs operations.                                         *)

Post(r, v) == Running /\ r.role = "op" /\ PostOp(r, v) /\ Outside

(* A recvmsg: the datagram is in its fiber's buffer when it completes.     *)
ReceiveInto(r) ==
  LET f == r.fiber
      d == Head(inbox[Server])
  IN  /\ call[f] = "recv"
      /\ Post(r, "ok")
      /\ TakeFrom(Server)
      /\ buf' = [buf EXCEPT ![f] = Put(@, d.body)]
      /\ msg' = [msg EXCEPT ![f] = [len |-> Len(d.body), peer |-> d.from, seq |-> d.seq]]
      /\ UNCHANGED <<net, bound, prog, asked>>

(* A recvmsg that fails: msg.buf is empty, and msg.addr holds what the     *)
(* stack held.                                                             *)
FailReceive(r) ==
  /\ call[r.fiber] = "recv"
  /\ \E v \in OpErrors : Post(r, v)
  /\ \E a \in Unwritten :
       msg' = [msg EXCEPT ![r.fiber] = [len |-> 0, peer |-> a, seq |-> 0]]
  /\ UNCHANGED <<netVars, prog, buf, asked>>

(* A sendmsg sends what its fiber's buffer holds when it is performed.     *)
SendFrom(r) ==
  LET f == r.fiber
  IN  /\ call[f] = "send"
      /\ Post(r, "ok")
      /\ Transmit([to |-> msg[f].peer, from |-> Server, seq |-> msg[f].seq,
                   body |-> SubSeq(buf[f], 1, 2 * msg[f].len)])
      /\ UNCHANGED <<inbox, bound, echoVars>>

FailSend(r) ==
  /\ call[r.fiber] = "send"
  /\ \E v \in OpErrors : Post(r, v)
  /\ UNCHANGED <<netVars, echoVars>>

Perform(r) == ReceiveInto(r) \/ FailReceive(r) \/ SendFrom(r) \/ FailSend(r)

Kernel == InStack(Take \/ Release) \/ \E r \in inflight : Perform(r)

(* The clients and the network.  What becomes of a reply on its way to a   *)
(* client is of no consequence to the server.                              *)
Ask(c, n) ==
  /\ <<c, n>> \in Requests \ asked
  /\ asked' = asked \cup {<<c, n>>}
  /\ Transmit([to |-> Server, from |-> c, body |-> <<c>>, seq |-> n])
  /\ UNCHANGED <<vars, inbox, bound, prog, buf, msg>>

Peers ==
  /\ Running
  /\ \/ \E r \in Requests : Ask(r[1], r[2])
     \/ (\E d \in net : d.to = Server /\ (Deliver(d) \/ DeliverCopy(d) \/ Lose(d)))
        /\ UNCHANGED <<vars, echoVars>>

Dead == ~Running /\ UNCHANGED allVars

EchoNext ==
  \/ \E f \in Handlers : SpawnHandler(f) \/ HandlerStep(f)
  \/ OpenSocket \/ OpenFails \/ JoinHandlers
  \/ Loop \/ Kernel \/ Peers \/ Dead

EchoSpec == EchoInit /\ [][EchoNext]_allVars

-----------------------------------------------------------------------------
(* The server on the ring implements the service.                          *)

(* The kernel has done the operation of f's call, with result v.           *)
Performed(f, v) ==
  \/ res[f].op = v
  \/ \E i \in 1 .. Len(cq) : cq[i].fiber = f /\ cq[i].role = "op" /\ cq[i].res = v

Taken(f) ==
  \/ prog[f] = "double"
  \/ prog[f] = "recv" /\ InCall(f) /\ \E v \in Results : Performed(f, v)

Replying(f) == prog[f] = "send" /\ ~Performed(f, "ok")

(* A fiber has taken a message once the kernel has written it, and has     *)
(* answered it once the kernel has sent the reply.                         *)
Phase(f) == IF Taken(f) THEN "got" ELSE IF Replying(f) THEN "send" ELSE "recv"

(* The process has died of outcome, or its socket is open or not yet.      *)
ServerStatus ==
  IF outcome # "running" THEN outcome ELSE IF Server \in bound THEN "up" ELSE "down"

Echo == INSTANCE EchoService WITH
  SFibers <- Handlers, ServerMayFail <- OpErrors # {},
  spc <- [f \in Handlers |-> Phase(f)],
  sbuf <- buf,
  smsg <- [f \in Handlers |-> IF Phase(f) = "recv" THEN NoMsg ELSE msg[f]],
  server <- ServerStatus

(* KeepsService: whatever the ring, the poller and the scheduler do with   *)
(* the order of completions and the entries of a full queue, every fiber   *)
(* answers the request it has taken, with the bytes and the address of     *)
(* that request, before it takes another (srv2.cc:115-128).                *)
KeepsService == Echo!Spec

EchoFairness ==
  /\ \A f \in Handlers : WF_allVars(SpawnHandler(f)) /\ WF_allVars(HandlerStep(f))
  /\ WF_allVars(OpenSocket) /\ WF_allVars(JoinHandlers)
  /\ WF_allVars(InStack(Switch)) /\ WF_allVars(InStack(Dispatch))
  /\ SF_allVars(InStack(PollMany))
  /\ WF_allVars(InStack(Take)) /\ WF_allVars(InStack(Release))
  /\ \A f \in Handlers :
       WF_allVars(\E r \in inflight : r.fiber = f /\ (SendFrom(r) \/ FailSend(r)))

FairEchoSpec == EchoSpec /\ EchoFairness

Died == outcome # "running"

(* TakenIsAnswered: a request that a fiber's buffer holds is answered,     *)
(* even if the ring has fewer entries than there are fibers, unless the    *)
(* process dies of it or of another one (srv2.cc:116-128).                 *)
TakenIsAnswered ==
  \A f \in Handlers : Taken(f) ~> (prog[f] = "send" /\ Performed(f, "ok")) \/ Died

-----------------------------------------------------------------------------
(* The invariant behind KeepsService, while the process runs.              *)

EchoTypeOK ==
  /\ NetTypeOK
  /\ prog \in [Handlers -> {"recv", "double", "send"}]
  /\ buf \in [Handlers -> Seq(Clients)]
  /\ msg \in [Handlers -> [len : Nat, peer : Addresses, seq : Nat]]

(* The call a handler is in is the one its program makes.                  *)
CallOfProg(f) ==
  /\ pc[f] # "new" => Server \in bound
  /\ InCall(f) => prog[f] \in {"recv", "send"} /\ call[f] = prog[f]
  /\ prog[f] = "send" => InCall(f)
  /\ prog[f] = "double" => pc[f] = "ready"

(* The message is in the buffer, and its copy with it once it is to be     *)
(* sent.                                                                   *)
MessageInBuf(f) ==
  /\ msg[f].len <= Len(buf[f])
  /\ prog[f] = "send" => 2 * msg[f].len <= Len(buf[f])

(* An operation that nobody cancels does what it is for, or fails.         *)
PlainResults(f) == \A v \in Results : Performed(f, v) => v \in {"ok"} \cup OpErrors

Serving ==
  /\ EchoTypeOK
  /\ pc[Root] \in {"ready", "done"}
  /\ \A f \in Handlers : CallOfProg(f) /\ MessageInBuf(f) /\ PlainResults(f)

ServiceInv == Running => IInv /\ Serving

=============================================================================
