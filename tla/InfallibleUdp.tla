--------------------------- MODULE InfallibleUdp ----------------------------
(***************************************************************************)
(* The client of src/src/infallible_udp.cc with the UDP echo server and    *)
(* the network between them.  Each of its fibers opens a socket, has a     *)
(* payload of its own, sends its request, waits dead_packet_us for the     *)
(* reply, and gives the packet up for dead if none comes; the last part of *)
(* the program reports on the timings.                                     *)
(***************************************************************************)
EXTENDS EchoServer, Summary

CONSTANTS
  Count,            (* count: the requests of all the fibers together.     *)
  ClientMayFail     (* Whether the client's system calls may fail.         *)

ASSUME InfallibleUdpAssumption ==
  /\ Clients # {} /\ IsFiniteSet(Clients)
  /\ Count \in Nat
  /\ ClientMayFail \in BOOLEAN

VARIABLES
  cpc,                     (* Each fiber is about to "open" its socket or  *)
                           (* to "send", in "recv" or "joined".            *)
  iter,                    (* i of each fiber.                             *)
  timings,                 (* A record for every reply taken: by whom, in  *)
                           (* which iteration, and whose reply it was.     *)
  dead_packets,
  first_stop_req_count,    (* 0 until a fiber stops.                       *)
  client                   (* "running", "reported", or the message the    *)
                           (* process died of.                             *)

clientVars == <<cpc, iter, timings, dead_packets, first_stop_req_count, client>>

vars == <<net, inbox, bound, spc, sbuf, smsg, server,
          cpc, iter, timings, dead_packets, first_stop_req_count, client>>

Timing == [by : Clients, iter : Nat, seq : Nat]

ClientTypeOK ==
  /\ cpc \in [Clients -> {"open", "send", "recv", "joined"}]
  /\ iter \in [Clients -> Nat]
  /\ timings \in Seq(Timing)
  /\ dead_packets \in Nat
  /\ first_stop_req_count \in Nat
  /\ client \in {"running", "reported", "socket", "bind", "bad sendmsg", "bad recvmsg",
                 "bad response", "bad summary"}

Init ==
  /\ NetInit /\ ServerInit
  /\ cpc = [c \in Clients |-> "open"]
  /\ iter = [c \in Clients |-> 0]
  /\ timings = <<>>
  /\ dead_packets = 0
  /\ first_stop_req_count = 0
  /\ client = "running"

(* Every fiber makes its share of the requests; the rest is not made.      *)
Iterations == Count \div Cardinality(Clients)

At(c, p) == client = "running" /\ cpc[c] = p

(* The fiber opens a socket of its own.                                    *)
Open(c) ==
  /\ At(c, "open")
  /\ Bind(c)
  /\ cpc' = [cpc EXCEPT ![c] = "send"]
  /\ UNCHANGED <<net, inbox, serverVars, iter, timings, dead_packets,
                 first_stop_req_count, client>>

(* sendmsg to the server, from the fiber's own socket.                     *)
Send(c) ==
  /\ At(c, "send")
  /\ iter[c] < Iterations
  /\ Transmit([to |-> Server, from |-> c, body |-> <<c>>, seq |-> iter[c]])
  /\ cpc' = [cpc EXCEPT ![c] = "recv"]
  /\ UNCHANGED <<inbox, bound, serverVars, iter, timings, dead_packets,
                 first_stop_req_count, client>>

(* recvmsg returns a datagram: a reply that is not the payload twice is a  *)
(* panic, an empty one an exception.                                       *)
Receive(c) ==
  LET d == Head(inbox[c])
  IN  /\ At(c, "recv")
      /\ TakeFrom(c)
      /\ CASE d.body = <<>> -> client' = "bad recvmsg"
           [] d.body \notin {<<>>, <<c, c>>} -> client' = "bad response"
           [] OTHER -> client' = client
      /\ IF client' = "running"
         THEN /\ timings' = Append(timings, [by |-> c, iter |-> iter[c], seq |-> d.seq])
              /\ iter' = [iter EXCEPT ![c] = @ + 1]
              /\ cpc' = [cpc EXCEPT ![c] = "send"]
         ELSE UNCHANGED <<timings, iter, cpc>>
      /\ UNCHANGED <<net, bound, serverVars, dead_packets, first_stop_req_count>>

\* Mutant: the packet is sent again, for ever.
GiveUpRetries(c) ==
  /\ At(c, "recv")
  /\ cpc' = [cpc EXCEPT ![c] = "send"]
  /\ UNCHANGED <<netVars, serverVars, iter, timings, dead_packets,
                 first_stop_req_count, client>>

\* Mutant: the packet is not counted.
GiveUpUncounted(c) ==
  /\ At(c, "recv")
  /\ iter' = [iter EXCEPT ![c] = @ + 1]
  /\ cpc' = [cpc EXCEPT ![c] = "send"]
  /\ UNCHANGED <<netVars, serverVars, timings, dead_packets, first_stop_req_count, client>>

(* recvmsg returns ESQE_TIMEOUT or EINTR: the packet is dead, whatever is  *)
(* still on its way for it.                                                *)
GiveUp(c) ==
  /\ At(c, "recv")
  /\ dead_packets' = dead_packets + 1
  /\ iter' = [iter EXCEPT ![c] = @ + 1]
  /\ cpc' = [cpc EXCEPT ![c] = "send"]
  /\ UNCHANGED <<netVars, serverVars, timings, first_stop_req_count, client>>

(* A call on the socket fails otherwise, and the exception ends the        *)
(* process.                                                                *)
Fail(c) ==
  /\ ClientMayFail
  /\ \/ At(c, "open") /\ client' \in {"socket", "bind"}
     \/ At(c, "send") /\ iter[c] < Iterations /\ client' = "bad sendmsg"
     \/ At(c, "recv") /\ client' = "bad recvmsg"
  /\ UNCHANGED <<netVars, serverVars, cpc, iter, timings, dead_packets,
                 first_stop_req_count>>

(* The fiber ends and its socket closes; the first one to end notes how    *)
(* many replies there are.                                                 *)
StopFiber(c) ==
  /\ At(c, "send")
  /\ iter[c] >= Iterations
  /\ cpc' = [cpc EXCEPT ![c] = "joined"]
  /\ first_stop_req_count' =
       IF \E f \in Clients : cpc[f] = "joined" THEN first_stop_req_count ELSE Len(timings)
  /\ Close(c)
  /\ UNCHANGED <<net, serverVars, iter, timings, dead_packets, client>>

(* Cuts the first timings off and reports on the others.                   *)
Summarise ==
  /\ client = "running"
  /\ \A c \in Clients : cpc[c] = "joined"
  /\ client' = IF CanReport(Remaining(Len(timings))) THEN "reported" ELSE "bad summary"
  /\ UNCHANGED <<netVars, serverVars, cpc, iter, timings, dead_packets,
                 first_stop_req_count>>

ClientStep(c) ==
  Open(c) \/ Send(c) \/ Receive(c) \/ GiveUp(c) \/ Fail(c) \/ StopFiber(c)

Network == NetStep /\ UNCHANGED serverVars /\ UNCHANGED clientVars

ServerSteps(s) == ServerStep(s) /\ UNCHANGED clientVars

ServerStarts == ServerOpens /\ UNCHANGED clientVars

(* The client has ended.                                                   *)
Ended == client # "running" /\ UNCHANGED vars

Next ==
  \/ \E c \in Clients : ClientStep(c)
  \/ Summarise
  \/ \E s \in SFibers : ServerSteps(s)
  \/ ServerStarts
  \/ Network
  \/ Ended

Spec == Init /\ [][Next]_vars

-----------------------------------------------------------------------------
(* What must never happen.                                                 *)

(* TypeOK: every variable stays in its type.                               *)
TypeOK == NetTypeOK /\ ServerTypeOK /\ ClientTypeOK

(* NoBadResponse: the panic "bad response" (infallible_udp.cc:137-139) is  *)
(* never reached, whatever the network does and whoever fails: a fiber     *)
(* only ever receives its own payload, twice, although its requests share  *)
(* a server socket with those of others (srv2.cc:105-130).                 *)
NoBadResponse == client # "bad response"

(* The datagrams and messages that stand for a request of the client.      *)
Backlog ==
  LET Full(d) == d.body # <<>>
  IN  Cardinality({d \in net : Full(d)})
      + Cardinality({s \in SFibers : spc[s] # "recv" /\ smsg[s].len > 0})
      + Cardinality({p \in Addresses \X (1 .. InboxSize) :
                       p[2] <= Len(inbox[p[1]]) /\ Full(inbox[p[1]][p[2]])})

(* BacklogBound: what is on its way between client and server is bounded   *)
(* by the packets given up for dead (infallible_udp.cc:124-131) and the    *)
(* fibers waiting for a reply: dead_packets misses none.                   *)
BacklogBound ==
  Backlog <= dead_packets + Cardinality({c \in Clients : cpc[c] = "recv"})

(* EachReplyOnce: no reply is taken for two requests, and none for a       *)
(* request sent after it.                                                  *)
EachReplyOnce ==
  \A j, k \in 1 .. Len(timings) :
    /\ timings[k].seq <= timings[k].iter
    /\ timings[j].by = timings[k].by /\ timings[j].seq = timings[k].seq => j = k

(* LateOnlyAfterDead: payloads carry no number, so a late reply passes for *)
(* that of the current request (infallible_udp.cc:137); but only in a      *)
(* fiber that gave up on that packet or on an earlier one.  Until then     *)
(* every timing is that of its own request.                                *)
LateOnlyAfterDead ==
  \A k \in 1 .. Len(timings) :
    timings[k].seq # timings[k].iter =>
      \E i \in 0 .. timings[k].seq :
        ~\E j \in 1 .. Len(timings) : timings[j].by = timings[k].by /\ timings[j].iter = i

(* BadSummaryMeansAllDead: the summary divides by the number of timings    *)
(* and reads minimum, maximum and quantiles at their indices               *)
(* (infallible_udp.cc:159-180), which goes wrong only if no packet at all  *)
(* was answered: cutting the first timings off never leaves none.          *)
BadSummaryMeansAllDead ==
  client = "bad summary" => dead_packets = Cardinality(Clients) * Iterations

-----------------------------------------------------------------------------
(* What happens eventually.  A receive with a duration returns, and no     *)
(* fiber of the client is owed a failure.  The network and the server owe  *)
(* nothing.                                                                *)

FairSpec ==
  /\ Spec
  /\ \A c \in Clients :
       WF_vars(Open(c) \/ Send(c) \/ Receive(c) \/ GiveUp(c) \/ StopFiber(c))
  /\ WF_vars(Summarise)

(* ClientEnds: the client comes to its end even if every datagram is lost, *)
(* and if the server never opens its socket or dies (srv2.cc:118, 127):    *)
(* every receive is given up in time (infallible_udp.cc:124).              *)
ClientEnds == <>(client # "running")

=============================================================================
