------------------------------ MODULE Executor ------------------------------
(***************************************************************************)
(* The dispatch loop of src/netring/netring/uf.h (127-194), the handlers   *)
(* of uf.cc, and the echo Handler of src/src/srv.cc (35-75).               *)
(*                                                                         *)
(* One slot holds the request that is being received.  When its receive    *)
(* completes, the request moves into a handler, made in a slot of its own, *)
(* which runs on a stack of its own; the receive starts again with a       *)
(* request from the pool before the handler runs.  A handler sends one     *)
(* reply, yields until the reply is sent, and ends.                        *)
(*                                                                         *)
(* Lengths are counted in units; a request is no longer than half a buffer *)
(* and no system call fails.                                               *)
(***************************************************************************)
EXTENDS Uring, ObjectPoolLite

CONSTANTS
  Peers,          (* Who sends requests.                                   *)
  Size,           (* The length of each peer's requests.                   *)
  BufLen,         (* The length of a buffer: 500.                          *)
  MaxRequests,    (* Bound: how many requests arrive.                      *)
  Nobody          (* The address in a request before one was received.     *)

ASSUME ExecutorAssumption ==
  /\ Nobody \notin Peers
  /\ BufLen \in Nat /\ MaxRequests \in Nat
  /\ Size \in [Peers -> Nat]
  /\ \A p \in Peers : 2 * Size[p] <= BufLen

VARIABLES
  inbox,          (* The peers of the requests in the socket.              *)
  asked,          (* How many requests have arrived.                       *)
  sent,           (* The replies the kernel has sent.                      *)
  slots,          (* Every ReqOrHandler there is, its address its index.   *)
  mem,            (* What is in every buffer there is: whose payload.      *)
  nstacks,        (* How many stacks there are.                            *)
  slot_pool,      (* req_or_handler_pool.                                  *)
  stacks,         (* The pool of stacks.                                   *)
  requests,       (* The pool of requests.                                 *)
  epc,            (* The loop is about to "poll" or to "jump" into the     *)
                  (* handler in the slot current.                          *)
  current

envVars == <<inbox, asked, sent>>
poolVars == <<slot_pool, stacks, requests>>

vars == <<sq, taken, inflight, cq, inbox, asked, sent, slots, mem, nstacks,
          slot_pool, stacks, requests, epc, current>>

(* A Request: its buffer, iov_len and address.                             *)
Request == [buf : Nat, len : Nat, addr : Peers \cup {Nobody}]

NoRequest == [buf |-> 0, len |-> 0, addr |-> Nobody]

(* What the factory of the pool of requests makes, with the next buffer.   *)
NewRequest == [buf |-> Len(mem) + 1, len |-> BufLen, addr |-> Nobody]

(* A ReqOrHandler: a handler has received res and may have a reply.        *)
Slot ==
  [kind : {"request", "handler"}, req : Request, reply : Request, stack : Nat,
   res : Nat, finished : BOOLEAN]

RequestSlot(r) ==
  [kind |-> "request", req |-> r, reply |-> NoRequest, stack |-> 0, res |-> 0,
   finished |-> FALSE]

TypeOK ==
  /\ UringTypeOK
  /\ inbox \in Seq(Peers) /\ asked \in 0 .. MaxRequests
  /\ sent \in Seq([to : Peers, whose : Peers, len : Nat])
  /\ slots \in Seq(Slot)
  /\ mem \in Seq(Peers \cup {Nobody})
  /\ nstacks \in Nat
  /\ slot_pool \in Seq(DOMAIN slots)
  /\ stacks \in Seq(1 .. nstacks)
  /\ requests \in Seq(Request)
  /\ epc \in {"poll", "jump"} /\ current \in 0 .. Len(slots)

(* The first slot is made and its receive submitted before the loop.       *)
Init ==
  /\ sq = <<[op |-> "recv", cookie |-> 1]>> /\ taken = 0 /\ inflight = {} /\ cq = <<>>
  /\ inbox = <<>> /\ asked = 0 /\ sent = <<>>
  /\ slots = <<RequestSlot([buf |-> 1, len |-> BufLen, addr |-> Nobody])>>
  /\ mem = <<Nobody>>
  /\ nstacks = 0
  /\ slot_pool = EmptyPool /\ stacks = EmptyPool /\ requests = EmptyPool
  /\ epc = "poll" /\ current = 0

-----------------------------------------------------------------------------
(* The kernel and the peers.                                               *)

Arrive(p) ==
  /\ asked < MaxRequests
  /\ asked' = asked + 1
  /\ inbox' = Append(inbox, p)
  /\ UNCHANGED <<uringVars, sent, slots, mem, nstacks, poolVars, epc, current>>

(* A datagram is cut to the iov_len of the request, in whose buffer and    *)
(* address the kernel leaves it.                                           *)
ReceiveDone(e) ==
  /\ e.op = "recv"
  /\ inbox # <<>>
  /\ LET p == Head(inbox)
         r == slots[e.cookie].req
     IN  /\ mem' = [mem EXCEPT ![r.buf] = p]
         /\ slots' = [slots EXCEPT ![e.cookie].req.addr = p]
         /\ Complete(e, IF Size[p] <= r.len THEN Size[p] ELSE r.len)
  /\ inbox' = Tail(inbox)
  /\ UNCHANGED <<asked, sent, nstacks, poolVars, epc, current>>

SendDone(e) ==
  /\ e.op = "send"
  /\ LET r == slots[e.cookie].reply
     IN  /\ sent' = Append(sent, [to |-> r.addr, whose |-> mem[r.buf], len |-> r.len])
         /\ Complete(e, r.len)
  /\ UNCHANGED <<inbox, asked, slots, mem, nstacks, poolVars, epc, current>>

KernelThread ==
  /\ Take \/ Release
  /\ UNCHANGED <<envVars, slots, mem, nstacks, poolVars, epc, current>>

-----------------------------------------------------------------------------
(* The executor.                                                           *)

(* The slot the oldest completion is for.                                  *)
Polled == Head(cq).cookie

AtPoll(kind) ==
  /\ epc = "poll"
  /\ PollCookie
  /\ slots[Polled].kind = kind

\* Mutant: the request that was received into is received into again.
NextRequestSame == slots[Polled].req

(* The request the receive starts again with, its iov_len as it was left.  *)
NextRequest == Got(requests, NewRequest)

\* Mutant: the receive does not start again.
RearmNot == UNCHANGED sq

Rearm == Submit("recv", Polled)

(* A request has been received: it moves into a handler in a slot and on a *)
(* stack from the pools, and the receive starts again with another.        *)
StartHandler ==
  /\ AtPoll("request")
  /\ ~NoSqe
  /\ LET slot == Got(slot_pool, Len(slots) + 1)
         stack == Got(stacks, nstacks + 1)
         handler == [kind |-> "handler", req |-> slots[Polled].req, reply |-> NoRequest,
                     stack |-> stack, res |-> Head(cq).res, finished |-> FALSE]
         rest == [slots EXCEPT ![Polled] = RequestSlot(NextRequest)]
     IN  /\ slots' = IF slot > Len(slots) THEN Append(rest, handler)
                                          ELSE [rest EXCEPT ![slot] = handler]
         /\ nstacks' = IF stack > nstacks THEN stack ELSE nstacks
         /\ current' = slot
  /\ mem' = IF NextRequest.buf > Len(mem) THEN Append(mem, Nobody) ELSE mem
  /\ slot_pool' = AfterGet(slot_pool)
  /\ stacks' = AfterGet(stacks)
  /\ requests' = AfterGet(requests)
  /\ Rearm
  /\ epc' = "jump"
  /\ UNCHANGED envVars

\* Mutant: the reply goes back to its pool before the handler yields.
YieldedReply(reply) == AfterPut(AfterGet(requests), reply)

(* The pool of requests while the handler waits for its reply to be sent.  *)
WaitingReply(reply) == AfterGet(requests)

\* Mutant: the length of the reply is not set.
ReplyLenKept(res) == Got(requests, NewRequest).len

ReplyLen(res) == res * 2

\* Mutant: the loop does not look whether the handler has finished.
SlotPutAtOnce == AfterPut(slot_pool, current)

(* The pool of slots after the handler has yielded.                        *)
SlotKept == slot_pool

(* The handler runs: it copies the request twice into a request from the   *)
(* pool, sends that to the request's address and yields to the loop.       *)
Handle ==
  /\ epc = "jump"
  /\ ~NoSqe
  /\ LET h == slots[current]
         reply == [Got(requests, NewRequest) EXCEPT !.len = ReplyLen(h.res),
                                                    !.addr = h.req.addr]
     IN  /\ slots' = [slots EXCEPT ![current].reply = reply]
         /\ mem' = IF reply.buf > Len(mem) THEN Append(mem, mem[h.req.buf])
                                           ELSE [mem EXCEPT ![reply.buf] = mem[h.req.buf]]
         /\ requests' = WaitingReply(reply)
  /\ slot_pool' = SlotKept
  /\ Submit("send", current)
  /\ epc' = "poll"
  /\ UNCHANGED <<taken, inflight, cq, envVars, nstacks, stacks, current>>

\* Mutant: the stack is not given back.
StackLost == stacks

StackGivenBack == AfterPut(stacks, slots[Polled].stack)

(* The reply has been sent: the handler goes on, gives the reply back and  *)
(* ends; the loop gives back its stack and its slot, where the ended       *)
(* handler stays until the slot is used again.                             *)
FinishHandler ==
  /\ AtPoll("handler")
  /\ requests' = AfterPut(requests, slots[Polled].reply)
  /\ stacks' = StackGivenBack
  /\ slot_pool' = AfterPut(slot_pool, Polled)
  /\ slots' = [slots EXCEPT ![Polled].reply = NoRequest, ![Polled].stack = 0,
                            ![Polled].finished = TRUE]
  /\ UNCHANGED <<sq, envVars, mem, nstacks, epc, current>>

Loop == StartHandler \/ Handle \/ FinishHandler

Next ==
  \/ \E p \in Peers : Arrive(p)
  \/ \E e \in inflight : ReceiveDone(e) \/ SendDone(e)
  \/ KernelThread
  \/ Loop

Spec == Init /\ [][Next]_vars

-----------------------------------------------------------------------------
(* What must never happen.                                                 *)

InPool(pool) == {pool[i] : i \in DOMAIN pool}

(* The slots of handlers that wait for their reply to be sent, and that of *)
(* the handler about to run.                                               *)
Running == {s \in DOMAIN slots : slots[s].kind = "handler" /\ ~slots[s].finished}

(* CookiesLive: a completion finds at its cookie what it belongs to        *)
(* (uf.h:144-192): the request being received, or a handler that waits for *)
(* its reply to be sent, whose slot is not in the pool; no slot has two.   *)
CookiesLive ==
  /\ \A e \in Pending :
       /\ e.cookie \in DOMAIN slots /\ e.cookie \notin InPool(slot_pool)
       /\ e.op = "recv" => slots[e.cookie].kind = "request"
       /\ e.op = "send" => e.cookie \in Running
  /\ \A s \in DOMAIN slots : Cardinality({e \in Pending : e.cookie = s}) <= 1
  /\ PendingCount = Cardinality(Pending)

(* The requests in use, with the slot they are used for: being received,   *)
(* being answered, and being sent.                                         *)
InUse ==
  {<<s, "req">> : s \in {t \in DOMAIN slots : ~slots[t].finished}}
  \cup {<<s, "reply">> : s \in {t \in Running : slots[t].reply # NoRequest}}

BufOf(u) == IF u[2] = "req" THEN slots[u[1]].req.buf ELSE slots[u[1]].reply.buf

(* BuffersExclusive: no two requests in use share a buffer, and none of    *)
(* them is in the pool (uf.h:30-42, object_pool.h:64-75): the kernel never *)
(* receives into a buffer that is being sent or read.                      *)
BuffersExclusive ==
  /\ \A u, v \in InUse : BufOf(u) = BufOf(v) => u = v
  /\ \A u \in InUse, i \in DOMAIN requests : BufOf(u) # requests[i].buf
  /\ \A i, j \in DOMAIN requests : requests[i].buf = requests[j].buf => i = j

(* PoolsExact: handlers that have not finished run on different stacks and *)
(* sit in different slots, none of them in a pool, and no stack and no     *)
(* slot is ever lost or pooled twice (uf.h:151-188).                       *)
PoolsExact ==
  /\ \A s, t \in Running : slots[s].stack = slots[t].stack => s = t
  /\ \A s \in Running : slots[s].stack \notin InPool(stacks)
  /\ nstacks = Len(stacks) + Cardinality(Running)
  /\ InPool(slot_pool) = 2 .. Len(slots) \ Running
  /\ Len(slot_pool) = Cardinality(InPool(slot_pool))

(* SqeNeverNull: io_uring_get_sqe always returns an entry, although the    *)
(* kernel takes entries in its own time and nobody checks (uring.cc:60,    *)
(* 78).                                                                    *)
SqeNeverNull ==
  epc = "jump" \/ (cq # <<>> /\ slots[Polled].kind = "request") => ~NoSqe

(* OwnReply: what is sent to a peer is that peer's payload (srv.cc:57-61), *)
(* however requests and handlers interleave.                               *)
OwnReply == \A k \in DOMAIN sent : sent[k].whose = sent[k].to

(* ShortOnlyAfterShort: a reply has twice the length of its request,       *)
(* unless the request was cut; and then the reply has twice the length of  *)
(* an earlier reply to a shorter request: the one whose iov_len            *)
(* (srv.cc:60) the receive started again with (uf.h:168).                  *)
ShortOnlyAfterShort ==
  \A k \in DOMAIN sent :
    \/ sent[k].len = 2 * Size[sent[k].to]
    \/ \E j \in 1 .. k - 1 :
         /\ sent[j].len < Size[sent[k].to]
         /\ sent[k].len = 2 * sent[j].len

-----------------------------------------------------------------------------
(* What happens eventually.  The kernel goes on with what it can do, and   *)
(* the loop does nothing but poll.                                         *)

FairSpec ==
  /\ Spec
  /\ WF_vars(KernelThread) /\ WF_vars(Loop)
  /\ WF_vars(\E e \in inflight : ReceiveDone(e))
  /\ WF_vars(\E e \in inflight : SendDone(e))

(* AllAnswered: every request that arrives is answered, and the pools get  *)
(* everything back when no more requests come (uf.h:173-189, srv.cc:69).   *)
AllAnswered ==
  /\ \A n \in 1 .. MaxRequests : asked >= n ~> Len(sent) >= n
  /\ <>[](Running = {} /\ Cardinality(Pending) = 1)

=============================================================================
