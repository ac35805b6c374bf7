------------------------ MODULE InfallibleUdpProofs -------------------------
(***************************************************************************)
(* No reply of the UDP echo server is ever the wrong one, for any number   *)
(* of clients and server fibers and any behaviour of the network.          *)
(***************************************************************************)
EXTENDS InfallibleUdp, EchoServerProofs

IInv == TypeOK /\ Genuine /\ NoBadResponse

-----------------------------------------------------------------------------
(* The whole system.                                                       *)

(* A server step keeps the invariant.                                      *)
LEMMA ServerStepKeeps ==
  ASSUME IInv, NEW s \in SFibers, ServerSteps(s)
  PROVE  IInv'
<1>1. ServerStep(s) /\ UNCHANGED clientVars
  BY DEF ServerSteps
<1>2. NetTypeOK' /\ ServerTypeOK' /\ Genuine'
  BY <1>1, ServerKeeps DEF IInv, TypeOK
<1>3. ClientTypeOK' /\ NoBadResponse'
  BY <1>1 DEF IInv, TypeOK, ClientTypeOK, NoBadResponse, clientVars
<1> QED
  BY <1>2, <1>3 DEF IInv, TypeOK

(* Opening the server's socket keeps it.                                   *)
LEMMA ServerStartsKeeps ==
  ASSUME IInv, ServerStarts
  PROVE  IInv'
<1>1. ServerOpens /\ UNCHANGED clientVars
  BY DEF ServerStarts
<1>2. NetTypeOK' /\ ServerTypeOK' /\ Genuine'
  BY <1>1, ServerOpensKeeps DEF IInv, TypeOK
<1>3. ClientTypeOK' /\ NoBadResponse'
  BY <1>1 DEF IInv, TypeOK, ClientTypeOK, NoBadResponse, clientVars
<1> QED
  BY <1>2, <1>3 DEF IInv, TypeOK

(* Counting an iteration.                                                  *)
LEMMA Counted ==
  ASSUME NEW h \in [Clients -> Nat], NEW c \in Clients
  PROVE  [h EXCEPT ![c] = @ + 1] \in [Clients -> Nat]
<1>1. h[c] \in Nat
  OBVIOUS
<1>2. h[c] + 1 \in Nat
  BY <1>1
<1> QED
  BY <1>2

(* A client's own steps keep it: what it sends is its payload, and what it *)
(* receives is that payload twice (infallible_udp.cc:110-144).             *)
LEMMA ClientStepKeeps ==
  ASSUME IInv, NEW c \in Clients, ClientStep(c)
  PROVE  IInv'
<1>1. /\ NetTypeOK /\ ServerTypeOK /\ ClientTypeOK /\ Genuine /\ NoBadResponse
      /\ c \in Addresses /\ c # Server /\ Server \in Addresses
  BY DatagramsAssumption DEF IInv, TypeOK, Addresses
<1>2. ASSUME UNCHANGED serverVars PROVE ServerTypeOK' /\ (\A s \in SFibers : GenuineMessage(s))'
  BY <1>1, <1>2 DEF serverVars, ServerTypeOK, Genuine, GenuineMessage
<1>3. ASSUME UNCHANGED netVars PROVE NetTypeOK' /\ GenuineNet'
  BY <1>1, <1>3 DEF netVars, NetTypeOK, GenuineNet, Genuine
<1>4. CASE Send(c)
  <2> PICK d : d = [to |-> Server, from |-> c, body |-> <<c>>, seq |-> iter[c]]
    OBVIOUS
  <2>1. d \in Datagram
    <3>1. <<c>> \in Seq(Clients)
      OBVIOUS
    <3>2. iter[c] \in Nat
      BY <1>1 DEF ClientTypeOK
    <3> QED
      BY <1>1, <3>1, <3>2 DEF Datagram
  <2>2. GenuineDatagram(d)
    BY DEF GenuineDatagram
  <2>3. Transmit(d) /\ UNCHANGED <<inbox, bound, serverVars>>
    BY <1>4 DEF Send
  <2>4. NetTypeOK' /\ GenuineNet'
    BY <1>1, <2>1, <2>2, <2>3, TransmitKeeps DEF Genuine
  <2>5. ClientTypeOK' /\ NoBadResponse'
    BY <1>1, <1>4 DEF Send, ClientTypeOK, NoBadResponse
  <2> QED
    BY <1>2, <2>3, <2>4, <2>5 DEF IInv, TypeOK, Genuine
<1>5. CASE Receive(c)
  <2> PICK d : d = Head(inbox[c])
    OBVIOUS
  <2>1. /\ TakeFrom(c) /\ UNCHANGED <<net, bound, serverVars>> /\ client = "running"
        /\ UNCHANGED <<dead_packets, first_stop_req_count>>
    BY <1>5 DEF Receive, At
  <2>2. /\ NetTypeOK' /\ GenuineNet'
        /\ d \in Datagram /\ d.to = c /\ GenuineDatagram(d)
    BY <1>1, <2>1, TakeKeeps DEF Genuine
  <2>3. d.body = <<>> \/ d.body = <<c, c>>
    BY <1>1, <2>2 DEF GenuineDatagram
  <2>4. d.seq \in Nat
    BY <2>2 DEF Datagram
  <2>5. client' \in {"running", "bad recvmsg"}
    BY <1>5, <2>1, <2>3 DEF Receive
  <2>6. /\ timings' \in Seq(Timing)
        /\ iter' \in [Clients -> Nat]
        /\ cpc' \in [Clients -> {"open", "send", "recv", "joined"}]
    <3>1. CASE client' = "running"
      <4>1. [by |-> c, iter |-> iter[c], seq |-> d.seq] \in Timing
        BY <1>1, <2>4 DEF Timing, ClientTypeOK
      <4>2. timings' = Append(timings, [by |-> c, iter |-> iter[c], seq |-> d.seq])
        BY <1>5, <3>1 DEF Receive
      <4>3. timings' \in Seq(Timing)
        BY <1>1, <4>1, <4>2, AppendProperties DEF ClientTypeOK
      <4>4. iter' = [iter EXCEPT ![c] = @ + 1] /\ cpc' = [cpc EXCEPT ![c] = "send"]
        BY <1>5, <3>1 DEF Receive
      <4>5. iter' \in [Clients -> Nat]
        BY <1>1, <4>4, Counted DEF ClientTypeOK
      <4>6. cpc' \in [Clients -> {"open", "send", "recv", "joined"}]
        BY <1>1, <4>4 DEF ClientTypeOK
      <4> QED
        BY <4>3, <4>5, <4>6
    <3>2. CASE client' # "running"
      BY <1>1, <1>5, <3>2 DEF Receive, ClientTypeOK
    <3> QED
      BY <3>1, <3>2
  <2>7. ClientTypeOK' /\ NoBadResponse'
    BY <1>1, <2>1, <2>5, <2>6 DEF ClientTypeOK, NoBadResponse
  <2> QED
    BY <1>2, <2>1, <2>2, <2>7 DEF IInv, TypeOK, Genuine
<1>6. CASE GiveUp(c) \/ Fail(c)
  <2>1. UNCHANGED <<netVars, serverVars>>
    BY <1>6 DEF GiveUp, Fail
  <2>2. CASE GiveUp(c)
    <3>1. /\ dead_packets' = dead_packets + 1 /\ iter' = [iter EXCEPT ![c] = @ + 1]
          /\ cpc' = [cpc EXCEPT ![c] = "send"]
          /\ UNCHANGED <<timings, first_stop_req_count, client>>
      BY <2>2 DEF GiveUp
    <3>2. iter' \in [Clients -> Nat]
      BY <1>1, <3>1, Counted DEF ClientTypeOK
    <3>3. cpc' \in [Clients -> {"open", "send", "recv", "joined"}]
      BY <1>1, <3>1 DEF ClientTypeOK
    <3>4. dead_packets \in Nat
      BY <1>1 DEF ClientTypeOK
    <3>5. dead_packets' \in Nat
      BY <3>1, <3>4
    <3>6. ClientTypeOK' /\ NoBadResponse'
      BY <1>1, <3>1, <3>2, <3>3, <3>5 DEF ClientTypeOK, NoBadResponse
    <3> QED
      BY <1>2, <1>3, <2>1, <3>6 DEF IInv, TypeOK, Genuine
  <2>3. CASE Fail(c)
    <3>1. /\ UNCHANGED <<cpc, iter, timings, dead_packets, first_stop_req_count>>
          /\ client' \in {"socket", "bind", "bad sendmsg", "bad recvmsg"}
      BY <2>3 DEF Fail
    <3>2. ClientTypeOK' /\ NoBadResponse'
      BY <1>1, <3>1 DEF ClientTypeOK, NoBadResponse
    <3> QED
      BY <1>2, <1>3, <2>1, <3>2 DEF IInv, TypeOK, Genuine
  <2> QED
    BY <1>6, <2>2, <2>3
<1>7. CASE StopFiber(c)
  <2>1. Close(c) /\ UNCHANGED <<net, serverVars>>
    BY <1>7 DEF StopFiber
  <2>2. Len(timings) \in Nat
    BY <1>1, LenProperties DEF ClientTypeOK
  <2>3. ClientTypeOK' /\ NoBadResponse'
    BY <1>1, <1>7, <2>2 DEF StopFiber, At, ClientTypeOK, NoBadResponse
  <2>4. NetTypeOK' /\ GenuineNet'
    BY <1>1, <2>1, CloseKeeps DEF Genuine
  <2> QED
    BY <1>2, <2>1, <2>3, <2>4 DEF IInv, TypeOK, Genuine
<1>8. CASE Open(c)
  <2>1. Bind(c) /\ UNCHANGED <<net, inbox, serverVars>>
    BY <1>8 DEF Open
  <2>2. ClientTypeOK' /\ NoBadResponse'
    BY <1>1, <1>8 DEF Open, ClientTypeOK, NoBadResponse
  <2>3. NetTypeOK' /\ GenuineNet'
    BY <1>1, <2>1, BindKeeps DEF Genuine
  <2> QED
    BY <1>2, <2>1, <2>2, <2>3 DEF IInv, TypeOK, Genuine
<1> QED
  BY <1>4, <1>5, <1>6, <1>7, <1>8 DEF ClientStep

(* The invariant holds in every reachable state.                           *)
THEOREM Inductive == Spec => []IInv
<1>1. Init => IInv
  <2> SUFFICES ASSUME Init PROVE IInv
    OBVIOUS
  <2>1. NetTypeOK /\ ServerTypeOK /\ Genuine
    BY InitGenuine DEF Init
  <2>2. ClientTypeOK /\ NoBadResponse
    BY EmptySeq DEF Init, ClientTypeOK, NoBadResponse
  <2> QED
    BY <2>1, <2>2 DEF IInv, TypeOK
<1>2. IInv /\ [Next]_vars => IInv'
  <2> SUFFICES ASSUME IInv, [Next]_vars PROVE IInv'
    OBVIOUS
  <2>1. CASE UNCHANGED vars
    BY <2>1 DEF vars, IInv, TypeOK, NetTypeOK, ServerTypeOK, ClientTypeOK, Genuine, GenuineNet,
                GenuineMessage, NoBadResponse
  <2>2. CASE Summarise
    <3>1. /\ UNCHANGED <<net, inbox, bound, spc, sbuf, smsg, server, cpc, iter, timings, dead_packets,
                          first_stop_req_count>>
          /\ client' \in {"reported", "bad summary"}
      BY <2>2 DEF Summarise, netVars, serverVars
    <3> QED
      BY <3>1 DEF IInv, TypeOK, NetTypeOK, ServerTypeOK, ClientTypeOK, Genuine, GenuineNet,
                  GenuineMessage, NoBadResponse
  <2>3. CASE Network
    <3>1. NetTypeOK' /\ GenuineNet'
      BY <2>3, NetStepKeeps DEF Network, IInv, TypeOK, Genuine
    <3>2. UNCHANGED <<spc, sbuf, smsg, server, cpc, iter, timings, dead_packets,
                      first_stop_req_count, client>>
      BY <2>3 DEF Network, serverVars, clientVars
    <3>3. ServerTypeOK' /\ ClientTypeOK' /\ NoBadResponse'
      BY <3>2 DEF IInv, TypeOK, ServerTypeOK, ClientTypeOK, NoBadResponse
    <3>4. (\A s \in SFibers : GenuineMessage(s))'
      BY <3>2 DEF IInv, Genuine, GenuineMessage
    <3> QED
      BY <3>1, <3>3, <3>4 DEF IInv, TypeOK, Genuine
  <2> QED
    BY <2>1, <2>2, <2>3, ServerStepKeeps, ServerStartsKeeps, ClientStepKeeps DEF Next, Ended
<1> QED
  BY <1>1, <1>2, PTL DEF Spec

(* Every variable keeps its type (srv2.cc:105-134,                         *)
(* infallible_udp.cc:86-188).                                              *)
THEOREM TypeCorrect == Spec => []TypeOK
BY Inductive, PTL DEF IInv

(* The panic "bad response" (infallible_udp.cc:137-139) is unreachable.    *)
THEOREM RepliesGenuine == Spec => []NoBadResponse
BY Inductive, PTL DEF IInv

-----------------------------------------------------------------------------
(* The summary (infallible_udp.cc:153-188): every request a fiber is done  *)
(* with has a timing or is a dead packet.                                  *)

Done == {p \in Clients \X Nat : p[2] < iter[p[1]]}

Accounted ==
  /\ IsFiniteSet(Done)
  /\ Cardinality(Done) = Len(timings) + dead_packets
  /\ \A c \in Clients :
       /\ iter[c] <= Iterations
       /\ cpc[c] = "recv" => iter[c] < Iterations
       /\ cpc[c] = "joined" => iter[c] = Iterations

(* The share of a fiber is a number.                                       *)
LEMMA IterationsNat == Iterations \in Nat
<1>1. Cardinality(Clients) \in Nat /\ Cardinality(Clients) # 0
  BY InfallibleUdpAssumption, FS_CardinalityType, FS_EmptySet
<1> PICK n : n = Cardinality(Clients)
  OBVIOUS
<1>2. Count \div n \in Nat
  BY <1>1, InfallibleUdpAssumption
<1> QED
  BY <1>2 DEF Iterations

(* A fiber that counts its iteration is done with one more request.        *)
LEMMA DoneGrows ==
  ASSUME iter \in [Clients -> Nat], IsFiniteSet(Done), NEW c \in Clients,
         iter' = [iter EXCEPT ![c] = @ + 1]
  PROVE  IsFiniteSet(Done') /\ Cardinality(Done') = Cardinality(Done) + 1
<1>1. /\ iter[c] \in Nat /\ iter'[c] = iter[c] + 1
      /\ \A b \in Clients \ {c} : iter'[b] = iter[b]
  OBVIOUS
<1>2. <<c, iter[c]>> \in Clients \X Nat /\ <<c, iter[c]>> \notin Done
  BY <1>1 DEF Done
<1>3. ASSUME NEW b \in Clients, NEW i \in Nat
      PROVE  i < iter'[b] <=> i < iter[b] \/ (b = c /\ i = iter[c])
  <2>1. CASE b = c
    BY <1>1, <2>1
  <2>2. CASE b # c
    BY <1>1, <2>2
  <2> QED
    BY <2>1, <2>2
<1>4. ASSUME NEW b \in Clients, NEW i \in Nat
      PROVE  <<b, i>> \in Done' <=> <<b, i>> \in Done \cup {<<c, iter[c]>>}
  BY <1>3 DEF Done
<1>5. Done' = Done \cup {<<c, iter[c]>>}
  <2>1. Done' \subseteq Clients \X Nat /\ Done \cup {<<c, iter[c]>>} \subseteq Clients \X Nat
    BY <1>2 DEF Done
  <2>2. \A p \in Clients \X Nat : \E b \in Clients, i \in Nat : p = <<b, i>>
    OBVIOUS
  <2> HIDE DEF Done
  <2> QED
    BY <1>4, <2>1, <2>2
<1> HIDE DEF Done
<1> QED
  BY <1>2, <1>5, FS_AddElement

(* Once every fiber has joined, all the requests are accounted for.        *)
LEMMA AllDone ==
  ASSUME TypeOK, Accounted, \A c \in Clients : cpc[c] = "joined"
  PROVE  Len(timings) + dead_packets = Cardinality(Clients) * Iterations
<1>1. \A c \in Clients : iter[c] = Iterations
  BY DEF Accounted
<1>2. Done = Clients \X (0 .. Iterations - 1)
  BY <1>1, IterationsNat DEF Done
<1>3. IsFiniteSet(0 .. Iterations - 1) /\ Cardinality(0 .. Iterations - 1) = Iterations
  <2> PICK b : b = Iterations - 1
    OBVIOUS
  <2>1. 0 \in Int /\ b \in Int /\ (IF 0 > b THEN 0 ELSE b - 0 + 1) = Iterations
    BY IterationsNat
  <2>2. IsFiniteSet(0 .. b) /\ Cardinality(0 .. b) = IF 0 > b THEN 0 ELSE b - 0 + 1
    BY <2>1, FS_Interval
  <2> QED
    BY <2>1, <2>2
<1>4. Cardinality(Clients \X (0 .. Iterations - 1)) = Cardinality(Clients) * Cardinality(0 .. Iterations - 1)
  BY <1>3, InfallibleUdpAssumption, FS_Product
<1> QED
  BY <1>2, <1>3, <1>4 DEF Accounted

(* The divisions and indices of the summary are fine unless there is no    *)
(* timing at all (infallible_udp.cc:159-180).                              *)
LEMMA SummaryNeedsOne ==
  ASSUME ClientTypeOK,
         ~CanReport(Remaining(Len(timings)))
  PROVE  Len(timings) = 0
<1> PICK n : n = Len(timings)
  OBVIOUS
<1> PICK r : r = Remaining(n)
  OBVIOUS
<1>1. n \in Nat /\ Cut \in Nat
  BY SummaryAssumption, LenProperties DEF ClientTypeOK
<1>2. r = IF n > Cut THEN n - Cut ELSE n
  BY DEF Remaining
<1>3. r \in Nat /\ (r = 0 => n = 0)
  BY <1>1, <1>2
<1>4. ASSUME NEW k \in Nat, k > 0
      PROVE  /\ (k * 5000) \div 10000 < k /\ (k * 9000) \div 10000 < k
             /\ (k * 9500) \div 10000 < k /\ (k * 9900) \div 10000 < k
             /\ (k * 9990) \div 10000 < k /\ (k * 9999) \div 10000 < k
  BY <1>4
<1>5. r > 0 => CanReport(r)
  BY <1>3, <1>4 DEF CanReport, Quantiles, QuantileRank
<1> QED
  BY <1>3, <1>5

(* Nothing is counted twice and nothing is missed (infallible_udp.cc:      *)
(* 110-150).                                                               *)
LEMMA ClientStepAccounts ==
  ASSUME TypeOK, Accounted, NEW c \in Clients, ClientStep(c)
  PROVE  Accounted'
<1>1. /\ cpc \in [Clients -> {"open", "send", "recv", "joined"}] /\ iter \in [Clients -> Nat]
      /\ timings \in Seq(Timing) /\ dead_packets \in Nat /\ Len(timings) \in Nat
  BY LenProperties DEF TypeOK, ClientTypeOK
<1> USE IterationsNat
<1>2. ASSUME UNCHANGED <<iter, timings, dead_packets>>,
             \A b \in Clients \ {c} : cpc'[b] = cpc[b],
             cpc'[c] = "recv" => iter[c] < Iterations,
             cpc'[c] = "joined" => iter[c] = Iterations
      PROVE  Accounted'
  <2>1. Done' = Done
    BY <1>2 DEF Done
  <2>2. Iterations' = Iterations
    BY DEF Iterations
  <2> HIDE DEF Done
  <2> QED
    BY <1>2, <2>1, <2>2 DEF Accounted
<1>3. ASSUME iter' = [iter EXCEPT ![c] = @ + 1], cpc' = [cpc EXCEPT ![c] = "send"],
             cpc[c] = "recv",
             Len(timings') + dead_packets' = Len(timings) + dead_packets + 1
      PROVE  Accounted'
  <2>1. IsFiniteSet(Done') /\ Cardinality(Done') = Cardinality(Done) + 1
    BY <1>1, <1>3, DoneGrows DEF Accounted
  <2>2. Cardinality(Done') = Len(timings') + dead_packets'
    BY <1>3, <2>1 DEF Accounted
  <2>3. Iterations' = Iterations
    BY DEF Iterations
  <2>4. iter[c] \in Nat /\ iter[c] < Iterations /\ iter'[c] = iter[c] + 1 /\ cpc'[c] = "send"
    BY <1>1, <1>3 DEF Accounted
  <2>5. \A b \in Clients :
          /\ iter'[b] <= Iterations
          /\ cpc'[b] = "recv" => iter'[b] < Iterations
          /\ cpc'[b] = "joined" => iter'[b] = Iterations
    <3> TAKE b \in Clients
    <3>1. CASE b = c
      BY <2>4, <3>1
    <3>2. CASE b # c
      BY <1>1, <1>3, <3>2 DEF Accounted
    <3> QED
      BY <3>1, <3>2
  <2> HIDE DEF Done
  <2> QED
    BY <2>1, <2>2, <2>3, <2>5 DEF Accounted
<1>4. CASE Open(c)
  <2>1. UNCHANGED <<iter, timings, dead_packets>> /\ cpc' = [cpc EXCEPT ![c] = "send"]
    BY <1>4 DEF Open
  <2> QED
    BY <1>1, <1>2, <2>1
<1>5. CASE Send(c)
  <2>1. /\ UNCHANGED <<iter, timings, dead_packets>> /\ cpc' = [cpc EXCEPT ![c] = "recv"]
        /\ iter[c] < Iterations
    BY <1>5 DEF Send
  <2> QED
    BY <1>1, <1>2, <2>1
<1>6. CASE Receive(c)
  <2>1. cpc[c] = "recv" /\ dead_packets' = dead_packets
    BY <1>6 DEF Receive, At
  <2>2. CASE client' = "running"
    <3>1. /\ timings' = Append(timings, [by |-> c, iter |-> iter[c], seq |-> Head(inbox[c]).seq])
          /\ iter' = [iter EXCEPT ![c] = @ + 1] /\ cpc' = [cpc EXCEPT ![c] = "send"]
      BY <1>6, <2>2 DEF Receive
    <3>2. Len(timings') = Len(timings) + 1
      BY <1>1, <3>1, LenProperties
    <3> QED
      BY <1>1, <1>3, <2>1, <3>1, <3>2
  <2>3. CASE client' # "running"
    <3>1. UNCHANGED <<timings, iter, cpc>>
      BY <1>6, <2>3 DEF Receive
    <3> QED
      BY <1>2, <2>1, <3>1 DEF Accounted
  <2> QED
    BY <2>2, <2>3
<1>7. CASE GiveUp(c)
  <2>1. /\ cpc[c] = "recv" /\ dead_packets' = dead_packets + 1 /\ timings' = timings
        /\ iter' = [iter EXCEPT ![c] = @ + 1] /\ cpc' = [cpc EXCEPT ![c] = "send"]
    BY <1>7 DEF GiveUp, At
  <2> QED
    BY <1>1, <1>3, <2>1
<1>8. CASE Fail(c)
  <2>1. UNCHANGED <<cpc, iter, timings, dead_packets>>
    BY <1>8 DEF Fail
  <2> QED
    BY <1>2, <2>1 DEF Accounted
<1>9. CASE StopFiber(c)
  <2>1. /\ UNCHANGED <<iter, timings, dead_packets>> /\ cpc' = [cpc EXCEPT ![c] = "joined"]
        /\ iter[c] >= Iterations /\ iter[c] <= Iterations /\ iter[c] \in Nat
    BY <1>1, <1>9 DEF StopFiber, Accounted
  <2>2. iter[c] = Iterations
    BY <2>1
  <2> QED
    BY <1>1, <1>2, <2>1, <2>2
<1> QED
  BY <1>4, <1>5, <1>6, <1>7, <1>8, <1>9 DEF ClientStep

(* A server or network step leaves the client's books alone.               *)
LEMMA OthersAccount ==
  ASSUME Accounted, BadSummaryMeansAllDead, UNCHANGED clientVars
  PROVE  Accounted' /\ BadSummaryMeansAllDead'
<1>1. UNCHANGED <<cpc, iter, timings, dead_packets, client>>
  BY DEF clientVars
<1>2. Done' = Done /\ Iterations' = Iterations
  BY <1>1 DEF Done, Iterations
<1> HIDE DEF Done
<1> QED
  BY <1>1, <1>2 DEF Accounted, BadSummaryMeansAllDead

(* At the summary every request has a timing or is a dead packet           *)
(* (infallible_udp.cc:110-150), for any number of fibers and requests.     *)
THEOREM EveryRequestAccounted == Spec => [](Accounted /\ BadSummaryMeansAllDead)
<1>1. Init => Accounted /\ BadSummaryMeansAllDead
  <2> SUFFICES ASSUME Init PROVE Accounted /\ BadSummaryMeansAllDead
    OBVIOUS
  <2>1. /\ \A c \in Clients : iter[c] = 0 /\ cpc[c] = "open"
        /\ timings = <<>> /\ dead_packets = 0 /\ client = "running"
    BY DEF Init
  <2>2. Done = {}
    BY <2>1 DEF Done
  <2>3. Len(timings) = 0
    BY <2>1, EmptySeq
  <2> HIDE DEF Done
  <2> QED
    BY <2>1, <2>2, <2>3, FS_EmptySet, IterationsNat DEF Accounted, BadSummaryMeansAllDead
<1>2. IInv /\ Accounted /\ BadSummaryMeansAllDead /\ [Next]_vars
      => Accounted' /\ BadSummaryMeansAllDead'
  <2> SUFFICES ASSUME IInv, Accounted, BadSummaryMeansAllDead, [Next]_vars
               PROVE  Accounted' /\ BadSummaryMeansAllDead'
    OBVIOUS
  <2>1. CASE UNCHANGED clientVars
    BY <2>1, OthersAccount
  <2>2. ASSUME NEW c \in Clients, ClientStep(c)
        PROVE  Accounted' /\ BadSummaryMeansAllDead'
    <3>1. client' # "bad summary"
      BY <2>2 DEF ClientStep, Open, Send, Receive, GiveUp, Fail, StopFiber, At
    <3> QED
      BY <2>2, <3>1, ClientStepAccounts DEF IInv, BadSummaryMeansAllDead
  <2>3. CASE Summarise
    <3>1. UNCHANGED <<cpc, iter, timings, dead_packets>> /\ \A c \in Clients : cpc[c] = "joined"
      BY <2>3 DEF Summarise
    <3>2. Done' = Done /\ Iterations' = Iterations
      BY <3>1 DEF Done, Iterations
    <3>3. Accounted'
      <4> HIDE DEF Done
      <4> QED
        BY <3>1, <3>2 DEF Accounted
    <3>4. client' = "bad summary" => Len(timings) = 0
      BY <2>3, SummaryNeedsOne DEF Summarise, IInv, TypeOK
    <3> PICK n : n = Cardinality(Clients) * Iterations
      OBVIOUS
    <3>5. Len(timings) + dead_packets = n
      BY <3>1, AllDone DEF IInv
    <3>6. dead_packets \in Nat
      BY DEF IInv, TypeOK, ClientTypeOK
    <3>7. client' = "bad summary" => dead_packets = Cardinality(Clients) * Iterations
      <4>1. Len(timings) = 0 => dead_packets = n
        BY <3>5, <3>6
      <4> QED
        BY <3>4, <4>1
    <3> QED
      BY <3>1, <3>2, <3>3, <3>7 DEF BadSummaryMeansAllDead
  <2>4. CASE UNCHANGED vars
    <3>1. UNCHANGED clientVars
      BY <2>4 DEF vars, clientVars
    <3> QED
      BY <2>1, <3>1
  <2> QED
    BY <2>1, <2>2, <2>3, <2>4 DEF Next, Ended, ServerSteps, ServerStarts, Network
<1> QED
  BY <1>1, <1>2, Inductive, PTL DEF Spec

(* The summary goes wrong (infallible_udp.cc:159-180) only if no packet    *)
(* at all was answered, whatever Count, Cut and the failures are.          *)
THEOREM SummarySafe == Spec => []BadSummaryMeansAllDead
BY EveryRequestAccounted, PTL

-----------------------------------------------------------------------------
(* Without duplication on the way every request is in one place at most:   *)
(* in a datagram on its way or in a receive buffer, in the hands of a      *)
(* fiber of the server, or among the timings.  And it is one the client    *)
(* has sent.                                                               *)

Owner(d) == IF d.to = Server THEN d.from ELSE d.to

Stands(d, c, n) == d.body # <<>> /\ Owner(d) = c /\ d.seq = n

StandsMsg(s, c, n) ==
  spc[s] # "recv" /\ smsg[s].len > 0 /\ smsg[s].peer = c /\ smsg[s].seq = n

StandsTime(k, c, n) == timings[k].by = c /\ timings[k].seq = n

InNet(c, n) == \E d \in net : Stands(d, c, n)
InMsg(c, n) == \E s \in SFibers : StandsMsg(s, c, n)
InBox(c, n) == \E a \in Addresses : \E i \in 1 .. Len(inbox[a]) : Stands(inbox[a][i], c, n)
Timed(c, n) == \E k \in 1 .. Len(timings) : StandsTime(k, c, n)

Asked(c, n) == n < iter[c] \/ (n = iter[c] /\ cpc[c] = "recv")

OneInNet(c, n) == \A d, e \in net : Stands(d, c, n) /\ Stands(e, c, n) => d = e
OneInMsg(c, n) == \A s, t \in SFibers : StandsMsg(s, c, n) /\ StandsMsg(t, c, n) => s = t
OneInBox(c, n) ==
  \A a, b \in Addresses : \A i \in 1 .. Len(inbox[a]) : \A j \in 1 .. Len(inbox[b]) :
    Stands(inbox[a][i], c, n) /\ Stands(inbox[b][j], c, n) => a = b /\ i = j
OneTimed(c, n) ==
  \A j, k \in 1 .. Len(timings) : StandsTime(j, c, n) /\ StandsTime(k, c, n) => j = k

OnePlace(c, n) ==
  /\ InNet(c, n) => ~InMsg(c, n) /\ ~InBox(c, n) /\ ~Timed(c, n)
  /\ InMsg(c, n) => ~InBox(c, n) /\ ~Timed(c, n)
  /\ InBox(c, n) => ~Timed(c, n)

OneCopy(c, n) == OneInNet(c, n) /\ OneInMsg(c, n) /\ OneInBox(c, n) /\ OneTimed(c, n)

KnownPlace(c, n) ==
  InNet(c, n) \/ InMsg(c, n) \/ InBox(c, n) \/ Timed(c, n) => Asked(c, n)

Once(c, n) == OneCopy(c, n) /\ OnePlace(c, n) /\ KnownPlace(c, n)

NotBefore == \A k \in 1 .. Len(timings) : timings[k].seq <= timings[k].iter

(* A datagram that leaves the network stands for nothing there any more.   *)
LEMMA NetShrinks ==
  ASSUME NEW c, NEW n, net' \subseteq net, OneInNet(c, n)
  PROVE  /\ OneInNet(c, n)' /\ (InNet(c, n)' => InNet(c, n))
         /\ \A d \in net \ net' : Stands(d, c, n) => InNet(c, n) /\ ~InNet(c, n)'
BY DEF OneInNet, InNet

(* One that is sent is the only one there if none was.                     *)
LEMMA NetGrows ==
  ASSUME NEW c, NEW n, NEW d, net' = net \cup {d}, OneInNet(c, n),
         Stands(d, c, n) => ~InNet(c, n)
  PROVE  OneInNet(c, n)' /\ (InNet(c, n)' <=> InNet(c, n) \/ Stands(d, c, n))
BY DEF OneInNet, InNet

(* What a receive call takes is not in the buffer any more.                *)
LEMMA BoxTakes ==
  ASSUME NEW c, NEW n, NEW a \in Addresses, NetTypeOK, TakeFrom(a), OneInBox(c, n)
  PROVE  /\ OneInBox(c, n)' /\ (InBox(c, n)' => InBox(c, n))
         /\ Stands(Head(inbox[a]), c, n) => InBox(c, n) /\ ~InBox(c, n)'
<1>1. inbox[a] \in Seq(Datagram) /\ inbox[a] # <<>>
  BY DEF NetTypeOK, TakeFrom
<1>2. Len(inbox[a]) \in Nat \ {0}
  BY <1>1, EmptySeq
<1>3. /\ Tail(inbox[a]) \in Seq(Datagram)
      /\ Len(Tail(inbox[a])) = Len(inbox[a]) - 1
      /\ \A i \in 1 .. Len(Tail(inbox[a])) : Tail(inbox[a])[i] = inbox[a][i + 1]
      /\ Head(inbox[a]) = inbox[a][1]
  BY <1>1, HeadTailProperties
<1>4. inbox'[a] = Tail(inbox[a]) /\ \A b \in Addresses \ {a} : inbox'[b] = inbox[b]
  BY DEF NetTypeOK, TakeFrom
<1> DEFINE was(b, i) == IF b = a THEN i + 1 ELSE i
<1>5. \A b \in Addresses : \A i \in 1 .. Len(inbox'[b]) :
        /\ was(b, i) \in 1 .. Len(inbox[b]) /\ inbox'[b][i] = inbox[b][was(b, i)]
        /\ b = a => was(b, i) # 1
  <2> TAKE b \in Addresses
  <2> TAKE i \in 1 .. Len(inbox'[b])
  <2>1. CASE b = a
    <3>1. i \in 1 .. Len(Tail(inbox[a]))
      BY <1>4, <2>1
    <3>2. i + 1 \in 1 .. Len(inbox[a]) /\ i + 1 # 1
      BY <1>2, <1>3, <3>1
    <3>3. inbox'[a][i] = inbox[a][i + 1] /\ was(b, i) = i + 1
      BY <1>3, <1>4, <2>1, <3>1
    <3> HIDE DEF was
    <3> QED
      BY <2>1, <3>2, <3>3
  <2>2. CASE b # a
    BY <1>4, <2>2
  <2> QED
    BY <2>1, <2>2
<1>6. \A b \in Addresses : \A i \in 1 .. Len(inbox'[b]), j \in 1 .. Len(inbox'[b]) :
        was(b, i) = was(b, j) => i = j
  OBVIOUS
<1>7. 1 \in 1 .. Len(inbox[a])
  BY <1>2
<1> HIDE DEF was
<1>8. OneInBox(c, n)'
  <2>1. ASSUME NEW b1 \in Addresses, NEW b2 \in Addresses,
               NEW i1 \in 1 .. Len(inbox'[b1]), NEW i2 \in 1 .. Len(inbox'[b2]),
               Stands(inbox'[b1][i1], c, n), Stands(inbox'[b2][i2], c, n)
        PROVE  b1 = b2 /\ i1 = i2
    <3>1. /\ was(b1, i1) \in 1 .. Len(inbox[b1]) /\ Stands(inbox[b1][was(b1, i1)], c, n)
          /\ was(b2, i2) \in 1 .. Len(inbox[b2]) /\ Stands(inbox[b2][was(b2, i2)], c, n)
      BY <1>5, <2>1
    <3>2. b1 = b2 /\ was(b1, i1) = was(b2, i2)
      BY <3>1 DEF OneInBox
    <3> QED
      BY <1>6, <3>2
  <2> QED
    BY <2>1 DEF OneInBox
<1>9. InBox(c, n)' => InBox(c, n)
  BY <1>5 DEF InBox
<1>10. ASSUME Stands(Head(inbox[a]), c, n) PROVE InBox(c, n) /\ ~InBox(c, n)'
  <2>1. Stands(inbox[a][1], c, n)
    BY <1>3, <1>10
  <2>2. \A b \in Addresses : \A i \in 1 .. Len(inbox[b]) :
          Stands(inbox[b][i], c, n) => b = a /\ i = 1
    BY <1>7, <2>1 DEF OneInBox
  <2>3. ~InBox(c, n)'
    BY <1>5, <2>2 DEF InBox
  <2> QED
    BY <1>7, <2>1, <2>3 DEF InBox
<1> QED
  BY <1>8, <1>9, <1>10

(* What is left in a buffer goes with its socket.                          *)
LEMMA BoxCloses ==
  ASSUME NEW c, NEW n, NEW a \in Addresses, NetTypeOK, Close(a), OneInBox(c, n)
  PROVE  OneInBox(c, n)' /\ (InBox(c, n)' => InBox(c, n))
<1>1. inbox'[a] = <<>> /\ \A b \in Addresses \ {a} : inbox'[b] = inbox[b]
  BY DEF Close, NetTypeOK
<1>2. 1 .. Len(inbox'[a]) = {}
  BY <1>1, EmptySeq
<1>3. \A b \in Addresses : \A i \in 1 .. Len(inbox'[b]) : b # a /\ inbox'[b] = inbox[b]
  BY <1>1, <1>2
<1>4. OneInBox(c, n)'
  <2> SUFFICES ASSUME NEW b \in Addresses, NEW e \in Addresses,
                      NEW i \in 1 .. Len(inbox'[b]), NEW j \in 1 .. Len(inbox'[e]),
                      Stands(inbox'[b][i], c, n), Stands(inbox'[e][j], c, n)
               PROVE  b = e /\ i = j
    BY DEF OneInBox
  <2>1. inbox'[b] = inbox[b] /\ inbox'[e] = inbox[e]
    BY <1>3
  <2> QED
    BY <2>1 DEF OneInBox
<1>5. InBox(c, n)' => InBox(c, n)
  BY <1>3 DEF InBox
<1> QED
  BY <1>4, <1>5

(* A datagram that arrives is the only one in a buffer if none was.        *)
LEMMA BoxGrows ==
  ASSUME NEW c, NEW n, NEW d \in Datagram, NetTypeOK, OneInBox(c, n),
         inbox' = [inbox EXCEPT ![d.to] = Append(@, d)],
         Stands(d, c, n) => ~InBox(c, n)
  PROVE  OneInBox(c, n)' /\ (InBox(c, n)' => InBox(c, n) \/ Stands(d, c, n))
<1>1. d.to \in Addresses /\ inbox[d.to] \in Seq(Datagram)
  BY DEF NetTypeOK, Datagram
<1>2. Len(inbox[d.to]) \in Nat
  BY <1>1, LenProperties
<1>3. /\ Len(Append(inbox[d.to], d)) = Len(inbox[d.to]) + 1
      /\ \A i \in 1 .. Len(inbox[d.to]) : Append(inbox[d.to], d)[i] = inbox[d.to][i]
      /\ Append(inbox[d.to], d)[Len(inbox[d.to]) + 1] = d
  BY <1>1, AppendProperties
<1>4. /\ inbox'[d.to] = Append(inbox[d.to], d)
      /\ \A b \in Addresses \ {d.to} : inbox'[b] = inbox[b]
  BY <1>1 DEF NetTypeOK
<1>5. \A b \in Addresses : \A i \in 1 .. Len(inbox'[b]) :
        \/ i \in 1 .. Len(inbox[b]) /\ inbox'[b][i] = inbox[b][i]
        \/ b = d.to /\ i = Len(inbox[d.to]) + 1 /\ inbox'[b][i] = d
  <2> TAKE b \in Addresses
  <2> TAKE i \in 1 .. Len(inbox'[b])
  <2>1. CASE b = d.to
    <3>1. i \in 1 .. Len(inbox[d.to]) \/ i = Len(inbox[d.to]) + 1
      BY <1>2, <1>3, <1>4, <2>1
    <3> QED
      BY <1>3, <1>4, <2>1, <3>1
  <2>2. CASE b # d.to
    BY <1>4, <2>2
  <2> QED
    BY <2>1, <2>2
<1>6. InBox(c, n)' => InBox(c, n) \/ Stands(d, c, n)
  BY <1>5 DEF InBox
<1>7. OneInBox(c, n)'
  <2> SUFFICES \A a, b \in Addresses :
                 \A i \in 1 .. Len(inbox'[a]) : \A j \in 1 .. Len(inbox'[b]) :
                   Stands(inbox'[a][i], c, n) /\ Stands(inbox'[b][j], c, n) => a = b /\ i = j
    BY DEF OneInBox
  <2> TAKE a, b \in Addresses
  <2> TAKE i \in 1 .. Len(inbox'[a])
  <2> TAKE j \in 1 .. Len(inbox'[b])
  <2> HAVE Stands(inbox'[a][i], c, n) /\ Stands(inbox'[b][j], c, n)
  <2>1. /\ \/ i \in 1 .. Len(inbox[a]) /\ inbox'[a][i] = inbox[a][i]
           \/ a = d.to /\ i = Len(inbox[d.to]) + 1 /\ inbox'[a][i] = d
        /\ \/ j \in 1 .. Len(inbox[b]) /\ inbox'[b][j] = inbox[b][j]
           \/ b = d.to /\ j = Len(inbox[d.to]) + 1 /\ inbox'[b][j] = d
    BY <1>5
  <2>2. CASE Stands(d, c, n)
    BY <2>1, <2>2 DEF InBox
  <2>3. CASE ~Stands(d, c, n)
    <3>1. /\ i \in 1 .. Len(inbox[a]) /\ Stands(inbox[a][i], c, n)
          /\ j \in 1 .. Len(inbox[b]) /\ Stands(inbox[b][j], c, n)
      BY <2>1, <2>3
    <3> QED
      BY <3>1 DEF OneInBox
  <2> QED
    BY <2>2, <2>3
<1> QED
  BY <1>6, <1>7

(* What one fiber of the server holds changes.                             *)
LEMMA MsgChanges ==
  ASSUME NEW c, NEW n, NEW s \in SFibers, OneInMsg(c, n),
         \A t \in SFibers \ {s} : spc'[t] = spc[t] /\ smsg'[t] = smsg[t],
         StandsMsg(s, c, n)' => StandsMsg(s, c, n) \/ ~InMsg(c, n)
  PROVE  /\ OneInMsg(c, n)'
         /\ InMsg(c, n)' => InMsg(c, n) \/ StandsMsg(s, c, n)'
         /\ StandsMsg(s, c, n) /\ ~StandsMsg(s, c, n)' => InMsg(c, n) /\ ~InMsg(c, n)'
<1>1. \A t \in SFibers \ {s} : StandsMsg(t, c, n)' <=> StandsMsg(t, c, n)
  BY DEF StandsMsg
<1> QED
  BY <1>1 DEF OneInMsg, InMsg

(* A timing is recorded.                                                   *)
LEMMA TimedGrows ==
  ASSUME NEW c, NEW n, timings \in Seq(Timing), NEW r \in Timing,
         timings' = Append(timings, r), OneTimed(c, n),
         r.by = c /\ r.seq = n => ~Timed(c, n)
  PROVE  OneTimed(c, n)' /\ (Timed(c, n)' => Timed(c, n) \/ (r.by = c /\ r.seq = n))
<1>1. Len(timings) \in Nat
  BY LenProperties
<1>2. /\ Len(timings') = Len(timings) + 1
      /\ \A k \in 1 .. Len(timings) : timings'[k] = timings[k]
      /\ timings'[Len(timings) + 1] = r
  BY AppendProperties
<1>3. \A k \in 1 .. Len(timings') :
        \/ k \in 1 .. Len(timings) /\ timings'[k] = timings[k]
        \/ k = Len(timings) + 1 /\ timings'[k] = r
  BY <1>1, <1>2
<1> QED
  BY <1>3 DEF OneTimed, Timed, StandsTime

(* What has been asked stays asked.                                        *)
LEMMA AskedKeeps ==
  ASSUME NEW c \in Clients, NEW n \in Nat, NEW b \in Clients, ClientTypeOK,
         \A a \in Clients \ {b} : iter'[a] = iter[a] /\ cpc'[a] = cpc[a],
         \/ iter'[b] = iter[b] + 1
         \/ iter'[b] = iter[b] /\ (cpc[b] = "recv" => cpc'[b] = "recv")
  PROVE  Asked(c, n) => Asked(c, n)'
<1>1. iter[b] \in Nat
  BY DEF ClientTypeOK
<1>2. CASE c = b
  BY <1>1, <1>2 DEF Asked
<1>3. CASE c # b
  BY <1>3 DEF Asked
<1> QED
  BY <1>2, <1>3

(* A place that no step touches.                                           *)
LEMMA SamePlaces ==
  ASSUME NEW c, NEW n
  PROVE  /\ UNCHANGED net => (OneInNet(c, n)' <=> OneInNet(c, n)) /\ (InNet(c, n)' <=> InNet(c, n))
         /\ UNCHANGED inbox => (OneInBox(c, n)' <=> OneInBox(c, n)) /\ (InBox(c, n)' <=> InBox(c, n))
         /\ UNCHANGED <<spc, smsg>> =>
              (OneInMsg(c, n)' <=> OneInMsg(c, n)) /\ (InMsg(c, n)' <=> InMsg(c, n))
         /\ UNCHANGED timings =>
              (OneTimed(c, n)' <=> OneTimed(c, n)) /\ (Timed(c, n)' <=> Timed(c, n))
         /\ UNCHANGED <<iter, cpc>> => (Asked(c, n)' <=> Asked(c, n))
<1>1. UNCHANGED net => (OneInNet(c, n)' <=> OneInNet(c, n)) /\ (InNet(c, n)' <=> InNet(c, n))
  BY DEF OneInNet, InNet
<1>2. UNCHANGED inbox => (OneInBox(c, n)' <=> OneInBox(c, n)) /\ (InBox(c, n)' <=> InBox(c, n))
  BY DEF OneInBox, InBox
<1>3. UNCHANGED <<spc, smsg>> =>
        (OneInMsg(c, n)' <=> OneInMsg(c, n)) /\ (InMsg(c, n)' <=> InMsg(c, n))
  BY DEF OneInMsg, InMsg, StandsMsg
<1>4. UNCHANGED timings =>
        (OneTimed(c, n)' <=> OneTimed(c, n)) /\ (Timed(c, n)' <=> Timed(c, n))
  BY DEF OneTimed, Timed, StandsTime
<1>5. UNCHANGED <<iter, cpc>> => (Asked(c, n)' <=> Asked(c, n))
  BY DEF Asked
<1> QED
  BY <1>1, <1>2, <1>3, <1>4, <1>5

(* The server moves a request from its receive buffer to a fiber, and from *)
(* there to the network (srv2.cc:115-128).                                 *)
LEMMA ServerStepMoves ==
  ASSUME IInv, NEW c \in Clients, NEW n \in Nat, Once(c, n), NEW s \in SFibers, ServerSteps(s)
  PROVE  Once(c, n)'
<1>1. /\ NetTypeOK /\ ServerTypeOK /\ Genuine /\ Server \in Addresses /\ c # Server
      /\ UNCHANGED <<cpc, iter, timings>>
  BY DatagramsAssumption DEF IInv, TypeOK, Addresses, ServerSteps, clientVars
<1>2. /\ OneInNet(c, n) /\ OneInMsg(c, n) /\ OneInBox(c, n) /\ OneTimed(c, n)
      /\ OnePlace(c, n) /\ KnownPlace(c, n)
  BY DEF Once, OneCopy
<1>3. /\ OneTimed(c, n)' /\ (Timed(c, n)' <=> Timed(c, n)) /\ (Asked(c, n)' <=> Asked(c, n))
  BY <1>1, <1>2, SamePlaces
<1>4. CASE ServerReceive(s)
  <2> PICK d : d = Head(inbox[Server])
    OBVIOUS
  <2>1. /\ TakeFrom(Server) /\ UNCHANGED <<net, bound>> /\ spc[s] = "recv"
        /\ smsg' = [smsg EXCEPT ![s] = [len |-> Len(d.body), peer |-> d.from, seq |-> d.seq]]
        /\ spc' = [spc EXCEPT ![s] = "got"]
    BY <1>4 DEF ServerReceive
  <2>2. d \in Datagram /\ d.to = Server
    BY <1>1, <2>1, TakeKeeps DEF Genuine
  <2>3. /\ OneInBox(c, n)' /\ (InBox(c, n)' => InBox(c, n))
        /\ Stands(d, c, n) => InBox(c, n) /\ ~InBox(c, n)'
    BY <1>1, <1>2, <2>1, BoxTakes
  <2>4. OneInNet(c, n)' /\ (InNet(c, n)' <=> InNet(c, n))
    BY <1>2, <2>1, SamePlaces
  <2>5. smsg'[s].len = Len(d.body) /\ smsg'[s].peer = d.from /\ smsg'[s].seq = d.seq
    BY <1>1, <2>1 DEF ServerTypeOK
  <2>6. StandsMsg(s, c, n)' => Stands(d, c, n)
    <3>1. Len(d.body) > 0 => d.body # <<>>
      BY EmptySeq
    <3> QED
      BY <2>2, <2>5, <3>1 DEF StandsMsg, Stands, Owner
  <2>7. StandsMsg(s, c, n)' => ~InMsg(c, n)
    BY <1>2, <2>3, <2>6 DEF OnePlace
  <2>8. \A t \in SFibers \ {s} : spc'[t] = spc[t] /\ smsg'[t] = smsg[t]
    BY <1>1, <2>1 DEF ServerTypeOK
  <2>9. OneInMsg(c, n)' /\ (InMsg(c, n)' => InMsg(c, n) \/ StandsMsg(s, c, n)')
    BY <1>2, <2>7, <2>8, MsgChanges
  <2> QED
    BY <1>2, <1>3, <2>3, <2>4, <2>6, <2>9 DEF Once, OneCopy, OnePlace, KnownPlace
<1>5. CASE ServerSend(s)
  <2> PICK d : d = [to |-> smsg[s].peer, from |-> Server, seq |-> smsg[s].seq,
                    body |-> SubSeq(sbuf[s], 1, 2 * smsg[s].len)]
    OBVIOUS
  <2>1. /\ Transmit(d) /\ UNCHANGED inbox /\ spc[s] = "send"
        /\ smsg' = [smsg EXCEPT ![s] = NoMsg] /\ spc' = [spc EXCEPT ![s] = "recv"]
    BY <1>5 DEF ServerSend, BufOf
  <2>2. Stands(d, c, n) => StandsMsg(s, c, n)
    <3>1. smsg[s].len \in {0, 1}
      BY <1>1 DEF Genuine, GenuineMessage
    <3>2. smsg[s].len = 0 => d.body = <<>>
      <4>1. SubSeq(sbuf[s], 1, 2 * 0) \in Seq(Clients) /\ Len(SubSeq(sbuf[s], 1, 2 * 0)) = 0
        <5>1. sbuf[s] \in Seq(Clients) /\ Len(sbuf[s]) \in Nat
          BY <1>1, LenProperties DEF ServerTypeOK
        <5>2. SubSeq(sbuf[s], 1, 0) \in Seq(Clients) /\ Len(SubSeq(sbuf[s], 1, 0)) = 0
          BY <5>1, PrefixFacts
        <5> QED
          BY <5>2
      <4> QED
        BY <4>1, EmptySeq
    <3>3. d.body # <<>> => smsg[s].len > 0
      BY <3>1, <3>2
    <3>4. Owner(d) = smsg[s].peer \/ Owner(d) = Server
      BY DEF Owner
    <3> QED
      BY <1>1, <2>1, <3>3, <3>4 DEF Stands, StandsMsg
  <2>3. \A t \in SFibers \ {s} : spc'[t] = spc[t] /\ smsg'[t] = smsg[t]
    BY <1>1, <2>1 DEF ServerTypeOK
  <2>4. ~StandsMsg(s, c, n)'
    BY <1>1, <2>1 DEF ServerTypeOK, StandsMsg
  <2>5. /\ OneInMsg(c, n)' /\ (InMsg(c, n)' => InMsg(c, n))
        /\ StandsMsg(s, c, n) => InMsg(c, n) /\ ~InMsg(c, n)'
    BY <1>2, <2>3, <2>4, MsgChanges
  <2>6. Stands(d, c, n) => ~InNet(c, n)
    BY <1>2, <2>2, <2>5 DEF OnePlace
  <2>7. OneInNet(c, n)' /\ (InNet(c, n)' <=> InNet(c, n) \/ Stands(d, c, n))
    BY <1>2, <2>1, <2>6, NetGrows DEF Transmit
  <2>8. OneInBox(c, n)' /\ (InBox(c, n)' <=> InBox(c, n))
    BY <1>2, <2>1, SamePlaces
  <2> QED
    BY <1>2, <1>3, <2>2, <2>5, <2>7, <2>8 DEF Once, OneCopy, OnePlace, KnownPlace
<1>6. CASE ServerReceiveFails(s) \/ ServerDouble(s) \/ ServerSendFails(s)
  <2>1. UNCHANGED <<net, inbox>>
    BY <1>6 DEF ServerReceiveFails, ServerDouble, ServerSendFails, netVars
  <2>2. /\ \A t \in SFibers \ {s} : spc'[t] = spc[t] /\ smsg'[t] = smsg[t]
        /\ StandsMsg(s, c, n)' => StandsMsg(s, c, n)
    <3>1. CASE ServerReceiveFails(s)
      <4>1. PICK a \in Addresses : smsg' = [smsg EXCEPT ![s] = [len |-> 0, peer |-> a, seq |-> 0]]
        BY <3>1 DEF ServerReceiveFails
      <4>2. spc' = [spc EXCEPT ![s] = "got"] /\ smsg'[s].len = 0
        BY <1>1, <3>1, <4>1 DEF ServerReceiveFails, ServerTypeOK
      <4>3. ~StandsMsg(s, c, n)'
        BY <4>2 DEF StandsMsg
      <4>4. \A t \in SFibers \ {s} : spc'[t] = spc[t] /\ smsg'[t] = smsg[t]
        BY <1>1, <4>1, <4>2 DEF ServerTypeOK
      <4> QED
        BY <4>3, <4>4
    <3>2. CASE ServerDouble(s)
      <4>1. /\ UNCHANGED smsg /\ spc[s] = "got"
            /\ spc' = spc \/ spc' = [spc EXCEPT ![s] = "send"]
        BY <3>2 DEF ServerDouble
      <4> QED
        BY <1>1, <4>1 DEF ServerTypeOK, StandsMsg
    <3>3. CASE ServerSendFails(s)
      BY <3>3 DEF ServerSendFails, StandsMsg
    <3> QED
      BY <1>6, <3>1, <3>2, <3>3
  <2>3. OneInMsg(c, n)' /\ (InMsg(c, n)' => InMsg(c, n) \/ StandsMsg(s, c, n)')
    BY <1>2, <2>2, MsgChanges
  <2>4. StandsMsg(s, c, n) => InMsg(c, n)
    BY DEF InMsg
  <2>5. /\ OneInNet(c, n)' /\ (InNet(c, n)' <=> InNet(c, n))
        /\ OneInBox(c, n)' /\ (InBox(c, n)' <=> InBox(c, n))
    BY <1>2, <2>1, SamePlaces
  <2> QED
    BY <1>2, <1>3, <2>2, <2>3, <2>4, <2>5 DEF Once, OneCopy, OnePlace, KnownPlace
<1> QED
  BY <1>4, <1>5, <1>6 DEF ServerSteps, ServerStep

(* The network moves a datagram to a receive buffer or drops it.           *)
LEMMA NetworkMoves ==
  ASSUME ~MayDuplicate, IInv, NEW c \in Clients, NEW n \in Nat, Once(c, n), Network
  PROVE  Once(c, n)'
<1>1. NetTypeOK /\ UNCHANGED <<spc, smsg, cpc, iter, timings>>
  BY DEF IInv, TypeOK, Network, clientVars, serverVars
<1>2. /\ OneInNet(c, n) /\ OneInMsg(c, n) /\ OneInBox(c, n) /\ OneTimed(c, n)
      /\ OnePlace(c, n) /\ KnownPlace(c, n)
  BY DEF Once, OneCopy
<1>3. /\ OneTimed(c, n)' /\ (Timed(c, n)' <=> Timed(c, n)) /\ (Asked(c, n)' <=> Asked(c, n))
      /\ OneInMsg(c, n)' /\ (InMsg(c, n)' <=> InMsg(c, n))
  BY <1>1, <1>2, SamePlaces
<1>4. PICK d \in net : /\ net' = net \ {d}
                       /\ UNCHANGED inbox \/ inbox' = [inbox EXCEPT ![d.to] = Append(@, d)]
  BY DEF Network, NetStep, Deliver, DeliverCopy, Lose, Arrive
<1>5. d \in Datagram /\ d \in net \ net' /\ net' \subseteq net
  BY <1>1, <1>4 DEF NetTypeOK
<1>6. /\ OneInNet(c, n)' /\ (InNet(c, n)' => InNet(c, n))
      /\ Stands(d, c, n) => InNet(c, n) /\ ~InNet(c, n)'
  BY <1>2, <1>5, NetShrinks
<1>7. Stands(d, c, n) => ~InBox(c, n)
  BY <1>2, <1>6 DEF OnePlace
<1>8. OneInBox(c, n)' /\ (InBox(c, n)' => InBox(c, n) \/ Stands(d, c, n))
  <2>1. CASE UNCHANGED inbox
    BY <1>2, <2>1, SamePlaces
  <2>2. CASE inbox' = [inbox EXCEPT ![d.to] = Append(@, d)]
    BY <1>1, <1>2, <1>5, <1>7, <2>2, BoxGrows
  <2> QED
    BY <1>4, <2>1, <2>2
<1> QED
  BY <1>2, <1>3, <1>6, <1>8 DEF Once, OneCopy, OnePlace, KnownPlace

(* A client's fiber sends requests nobody has seen, and takes the replies  *)
(* of those on their way (infallible_udp.cc:110-150).                      *)
LEMMA ClientStepMoves ==
  ASSUME IInv, NEW c \in Clients, NEW n \in Nat, Once(c, n), NEW b \in Clients, ClientStep(b)
  PROVE  Once(c, n)'
<1>1. /\ NetTypeOK /\ ClientTypeOK /\ Genuine /\ b \in Addresses /\ b # Server
      /\ UNCHANGED <<spc, smsg>>
  <2>1. UNCHANGED serverVars
    BY DEF ClientStep, Open, Send, Receive, GiveUp, Fail, StopFiber
  <2> QED
    BY <2>1, DatagramsAssumption DEF IInv, TypeOK, Addresses, serverVars
<1>2. /\ OneInNet(c, n) /\ OneInMsg(c, n) /\ OneInBox(c, n) /\ OneTimed(c, n)
      /\ OnePlace(c, n) /\ KnownPlace(c, n)
  BY DEF Once, OneCopy
<1>3. OneInMsg(c, n)' /\ (InMsg(c, n)' <=> InMsg(c, n))
  BY <1>1, <1>2, SamePlaces
<1>4. iter \in [Clients -> Nat] /\ cpc \in [Clients -> {"open", "send", "recv", "joined"}]
  BY <1>1 DEF ClientTypeOK
<1>5. CASE Send(b)
  <2> PICK d : d = [to |-> Server, from |-> b, body |-> <<b>>, seq |-> iter[b]]
    OBVIOUS
  <2>1. /\ Transmit(d) /\ UNCHANGED <<inbox, timings, iter>> /\ cpc[b] = "send"
        /\ cpc' = [cpc EXCEPT ![b] = "recv"]
    BY <1>5 DEF Send, At
  <2>2. Stands(d, c, n) => ~Asked(c, n) /\ Asked(c, n)'
    BY <1>4, <2>1 DEF Stands, Owner, Asked
  <2>3. Asked(c, n) => Asked(c, n)'
    BY <1>1, <1>4, <2>1, AskedKeeps
  <2>4. Stands(d, c, n) => ~InNet(c, n) /\ ~InMsg(c, n) /\ ~InBox(c, n) /\ ~Timed(c, n)
    BY <1>2, <2>2 DEF KnownPlace
  <2>5. OneInNet(c, n)' /\ (InNet(c, n)' <=> InNet(c, n) \/ Stands(d, c, n))
    BY <1>2, <2>1, <2>4, NetGrows DEF Transmit
  <2>6. /\ OneInBox(c, n)' /\ (InBox(c, n)' <=> InBox(c, n))
        /\ OneTimed(c, n)' /\ (Timed(c, n)' <=> Timed(c, n))
    BY <1>2, <2>1, SamePlaces
  <2> QED
    BY <1>2, <1>3, <2>2, <2>3, <2>4, <2>5, <2>6 DEF Once, OneCopy, OnePlace, KnownPlace
<1>6. CASE Receive(b)
  <2> PICK d : d = Head(inbox[b])
    OBVIOUS
  <2> DEFINE r == [by |-> b, iter |-> iter[b], seq |-> d.seq]
  <2>1. TakeFrom(b) /\ UNCHANGED <<net, bound>> /\ client = "running"
    BY <1>6 DEF Receive, At
  <2>2. d \in Datagram /\ d.to = b
    BY <1>1, <2>1, TakeKeeps DEF Genuine
  <2>3. /\ OneInBox(c, n)' /\ (InBox(c, n)' => InBox(c, n))
        /\ Stands(d, c, n) => InBox(c, n) /\ ~InBox(c, n)'
    BY <1>1, <1>2, <2>1, BoxTakes
  <2>4. OneInNet(c, n)' /\ (InNet(c, n)' <=> InNet(c, n))
    BY <1>2, <2>1, SamePlaces
  <2>5. CASE client' = "running"
    <3>1. /\ timings' = Append(timings, r) /\ iter' = [iter EXCEPT ![b] = @ + 1]
          /\ cpc' = [cpc EXCEPT ![b] = "send"] /\ d.body # <<>>
      BY <1>6, <2>5 DEF Receive
    <3>2. r \in Timing /\ timings \in Seq(Timing)
      BY <1>1, <1>4, <2>2 DEF Timing, Datagram, ClientTypeOK
    <3>3. r.by = c /\ r.seq = n => Stands(d, c, n)
      BY <1>1, <2>2, <3>1 DEF Stands, Owner
    <3>4. r.by = c /\ r.seq = n => ~Timed(c, n)
      BY <1>2, <2>3, <3>3 DEF OnePlace
    <3>5. OneTimed(c, n)' /\ (Timed(c, n)' => Timed(c, n) \/ (r.by = c /\ r.seq = n))
      <4> HIDE DEF r
      <4> QED
        BY <1>2, <3>1, <3>2, <3>4, TimedGrows
    <3>6. Asked(c, n) => Asked(c, n)'
      BY <1>1, <1>4, <3>1, AskedKeeps
    <3> HIDE DEF r
    <3> QED
      BY <1>2, <1>3, <2>3, <2>4, <3>3, <3>5, <3>6 DEF Once, OneCopy, OnePlace, KnownPlace
  <2>6. CASE client' # "running"
    <3>1. UNCHANGED <<timings, iter, cpc>>
      BY <1>6, <2>6 DEF Receive
    <3>2. OneTimed(c, n)' /\ (Timed(c, n)' <=> Timed(c, n)) /\ (Asked(c, n)' <=> Asked(c, n))
      BY <1>2, <3>1, SamePlaces
    <3> QED
      BY <1>2, <1>3, <2>3, <2>4, <3>2 DEF Once, OneCopy, OnePlace, KnownPlace
  <2> QED
    BY <2>5, <2>6
<1>7. CASE Open(b) \/ GiveUp(b) \/ Fail(b) \/ StopFiber(b)
  <2>1. UNCHANGED <<net, timings>>
    BY <1>7 DEF Open, GiveUp, Fail, StopFiber, netVars
  <2>2. UNCHANGED inbox \/ Close(b)
    BY <1>7 DEF Open, GiveUp, Fail, StopFiber, netVars
  <2>3. OneInBox(c, n)' /\ (InBox(c, n)' => InBox(c, n))
    <3>1. CASE UNCHANGED inbox
      BY <1>2, <3>1, SamePlaces
    <3>2. CASE Close(b)
      BY <1>1, <1>2, <3>2, BoxCloses
    <3> QED
      BY <2>2, <3>1, <3>2
  <2>4. Asked(c, n) => Asked(c, n)'
    <3>1. CASE GiveUp(b)
      <4>1. iter' = [iter EXCEPT ![b] = @ + 1] /\ cpc' = [cpc EXCEPT ![b] = "send"]
        BY <3>1 DEF GiveUp
      <4> QED
        BY <1>1, <1>4, <4>1, AskedKeeps
    <3>2. CASE Fail(b)
      <4>1. UNCHANGED <<iter, cpc>>
        BY <3>2 DEF Fail
      <4> QED
        BY <4>1, SamePlaces
    <3>3. CASE Open(b) \/ StopFiber(b)
      <4>1. /\ iter' = iter /\ cpc[b] # "recv"
            /\ cpc' = [cpc EXCEPT ![b] = "send"] \/ cpc' = [cpc EXCEPT ![b] = "joined"]
        BY <3>3 DEF Open, StopFiber, At
      <4>2. \A a \in Clients \ {b} : iter'[a] = iter[a] /\ cpc'[a] = cpc[a]
        BY <1>4, <4>1
      <4> QED
        BY <1>1, <4>1, <4>2, AskedKeeps
    <3> QED
      BY <1>7, <3>1, <3>2, <3>3
  <2>5. /\ OneInNet(c, n)' /\ (InNet(c, n)' <=> InNet(c, n))
        /\ OneTimed(c, n)' /\ (Timed(c, n)' <=> Timed(c, n))
    BY <1>2, <2>1, SamePlaces
  <2> QED
    BY <1>2, <1>3, <2>3, <2>4, <2>5 DEF Once, OneCopy, OnePlace, KnownPlace
<1> QED
  BY <1>5, <1>6, <1>7 DEF ClientStep

(* A reply that is taken belongs to a request that was sent before it.     *)
LEMMA ReplyNotBefore ==
  ASSUME IInv, NotBefore, \A c \in Clients, n \in Nat : Once(c, n), NEW b \in Clients, Receive(b)
  PROVE  NotBefore'
<1> PICK d : d = Head(inbox[b])
  OBVIOUS
<1> DEFINE r == [by |-> b, iter |-> iter[b], seq |-> d.seq]
<1>1. /\ NetTypeOK /\ ClientTypeOK /\ Genuine /\ b \in Addresses /\ b # Server
  BY DatagramsAssumption DEF IInv, TypeOK, Addresses
<1>2. TakeFrom(b) /\ UNCHANGED <<net, bound>> /\ client = "running"
  BY DEF Receive, At
<1>3. d \in Datagram /\ d.to = b
  BY <1>1, <1>2, TakeKeeps DEF Genuine
<1>4. CASE client' = "running"
  <2>1. timings' = Append(timings, r) /\ d.body # <<>>
    BY <1>4 DEF Receive
  <2>2. Stands(d, b, d.seq) /\ d.seq \in Nat
    BY <1>1, <1>3, <2>1 DEF Stands, Owner, Datagram
  <2>3. OneInBox(b, d.seq) /\ KnownPlace(b, d.seq)
    BY <2>2 DEF Once, OneCopy
  <2>4. InBox(b, d.seq)
    BY <1>1, <1>2, <2>2, <2>3, BoxTakes
  <2>5. d.seq <= iter[b]
    <3>1. Asked(b, d.seq) /\ iter[b] \in Nat
      BY <1>1, <2>3, <2>4 DEF KnownPlace, ClientTypeOK
    <3> QED
      BY <2>2, <3>1 DEF Asked
  <2>6. r \in Timing /\ timings \in Seq(Timing) /\ r.seq <= r.iter
    BY <1>1, <2>2, <2>5 DEF Timing, ClientTypeOK
  <2>7. /\ Len(timings') = Len(timings) + 1 /\ Len(timings) \in Nat
        /\ \A k \in 1 .. Len(timings) : timings'[k] = timings[k]
        /\ timings'[Len(timings) + 1] = r
    <3> HIDE DEF r
    <3> QED
      BY <2>1, <2>6, AppendProperties, LenProperties
  <2> HIDE DEF r
  <2>8. \A k \in 1 .. Len(timings') : k \in 1 .. Len(timings) \/ k = Len(timings) + 1
    BY <2>7
  <2> QED
    BY <2>6, <2>7, <2>8 DEF NotBefore
<1>5. CASE client' # "running"
  BY <1>5 DEF Receive, NotBefore
<1> QED
  BY <1>4, <1>5

(* Every request is in one place.                                          *)
AllOnce == NotBefore /\ \A c \in Clients, n \in Nat : Once(c, n)

(* Unless the network duplicates, a request of the client or its reply is  *)
(* in one place at a time, from sendmsg (infallible_udp.cc:113) to         *)
(* timings (141), on both sides of the server's socket (srv2.cc:115-128).  *)
THEOREM RequestsOnce == ASSUME ~MayDuplicate PROVE Spec => []AllOnce
<1>1. Init => AllOnce
  <2> SUFFICES ASSUME Init PROVE AllOnce
    OBVIOUS
  <2>1. /\ net = {} /\ timings = <<>> /\ \A s \in SFibers : spc[s] = "recv"
        /\ \A a \in Addresses : inbox[a] = <<>>
    BY DEF Init, NetInit, ServerInit
  <2>2. 1 .. Len(timings) = {} /\ \A a \in Addresses : 1 .. Len(inbox[a]) = {}
    BY <2>1, EmptySeq
  <2>3. ASSUME NEW c \in Clients, NEW n \in Nat PROVE Once(c, n)
    <3>1. OneCopy(c, n)
      BY <2>1, <2>2 DEF OneCopy, OneInNet, OneInMsg, OneInBox, OneTimed, StandsMsg
    <3>2. ~InNet(c, n) /\ ~InMsg(c, n) /\ ~InBox(c, n) /\ ~Timed(c, n)
      BY <2>1, <2>2 DEF InNet, InMsg, InBox, Timed, StandsMsg
    <3> QED
      BY <3>1, <3>2 DEF Once, OnePlace, KnownPlace
  <2> QED
    BY <2>2, <2>3 DEF AllOnce, NotBefore
<1>2. IInv /\ AllOnce /\ [Next]_vars => AllOnce'
  <2> SUFFICES ASSUME IInv, AllOnce, [Next]_vars PROVE AllOnce'
    OBVIOUS
  <2>1. NotBefore'
    <3>1. CASE UNCHANGED timings
      BY <3>1 DEF AllOnce, NotBefore
    <3>2. ASSUME NEW b \in Clients, Receive(b) PROVE NotBefore'
      BY <3>2, ReplyNotBefore DEF AllOnce
    <3> QED
      BY <3>1, <3>2 DEF Next, Ended, ServerSteps, ServerStarts, Network, Summarise, clientVars,
         ClientStep, Open, Send, GiveUp, Fail, StopFiber, vars
  <2>2. ASSUME NEW c \in Clients, NEW n \in Nat PROVE Once(c, n)'
    <3>1. Once(c, n)
      BY DEF AllOnce
    <3>2. CASE UNCHANGED <<net, inbox, spc, smsg, timings, iter, cpc>>
      BY <3>1, <3>2, SamePlaces DEF Once, OneCopy, OnePlace, KnownPlace
    <3>3. CASE Network
      BY <3>1, <3>3, NetworkMoves
    <3>4. ASSUME NEW s \in SFibers, ServerSteps(s) PROVE Once(c, n)'
      BY <3>1, <3>4, ServerStepMoves
    <3>5. ASSUME NEW b \in Clients, ClientStep(b) PROVE Once(c, n)'
      BY <3>1, <3>5, ClientStepMoves
    <3>6. CASE Summarise \/ ServerStarts \/ Ended \/ UNCHANGED vars
      <4>1. UNCHANGED <<net, inbox, spc, smsg, timings, iter, cpc>>
        BY <3>6 DEF Summarise, ServerStarts, ServerOpens, ServerOpen, ServerOpenFails, Ended, vars,
           netVars, serverVars, clientVars
      <4> QED
        BY <3>2, <4>1
    <3> QED
      BY <3>3, <3>4, <3>5, <3>6 DEF Next
  <2> QED
    BY <2>1, <2>2 DEF AllOnce
<1> QED
  BY <1>1, <1>2, Inductive, PTL DEF Spec

-----------------------------------------------------------------------------
(* What follows from it.                                                   *)

(* No reply is taken for two requests.                                     *)
LEMMA OnceThenEachReply ==
  ASSUME TypeOK, AllOnce
  PROVE  EachReplyOnce
<1>1. timings \in Seq(Timing)
  BY DEF TypeOK, ClientTypeOK
<1>2. ASSUME NEW j \in 1 .. Len(timings), NEW k \in 1 .. Len(timings)
      PROVE  /\ timings[k].seq <= timings[k].iter
             /\ timings[j].by = timings[k].by /\ timings[j].seq = timings[k].seq => j = k
  <2>1. timings[k] \in Timing
    BY <1>1, ElementOfSeq
  <2> PICK c \in Clients, n \in Nat : c = timings[k].by /\ n = timings[k].seq
    BY <2>1 DEF Timing
  <2>2. OneTimed(c, n)
    BY DEF AllOnce, Once, OneCopy
  <2> QED
    BY <2>2 DEF AllOnce, NotBefore, OneTimed, StandsTime
<1> QED
  BY <1>2 DEF EachReplyOnce

(* If every iteration up to the m-th of a fiber has a timing, these take   *)
(* the replies to the requests up to the m-th among themselves: the m-th   *)
(* iteration has its own.                                                  *)
LEMMA Pigeonholes ==
  ASSUME NEW m \in Nat, NEW f \in Injection(0 .. m, 0 .. m), \A i \in 0 .. m : f[i] <= i
  PROVE  f[m] = m
<1>1. IsFiniteSet(0 .. m)
  BY FS_Interval
<1>2. f \in Surjection(0 .. m, 0 .. m)
  BY <1>1, FS_Injection
<1>3. f \in [0 .. m -> 0 .. m] /\ \E i \in 0 .. m : f[i] = m
  BY <1>2 DEF Surjection
<1> PICK i \in 0 .. m : f[i] = m
  BY <1>3
<1>4. i = m
  OBVIOUS
<1> QED
  BY <1>4

(* A late reply is taken for the current one only after a dead packet.     *)
LEMMA EachReplyThenLate ==
  ASSUME TypeOK, EachReplyOnce
  PROVE  LateOnlyAfterDead
<1> SUFFICES ASSUME NEW k \in 1 .. Len(timings), timings[k].seq # timings[k].iter,
                    \A i \in 0 .. timings[k].seq : \E j \in 1 .. Len(timings) :
                      timings[j].by = timings[k].by /\ timings[j].iter = i
             PROVE  FALSE
  BY DEF LateOnlyAfterDead
<1>1. timings \in Seq(Timing)
  BY DEF TypeOK, ClientTypeOK
<1>2. \A j \in 1 .. Len(timings) :
        /\ timings[j].seq \in Nat /\ timings[j].iter \in Nat /\ timings[j].seq <= timings[j].iter
  <2> TAKE j \in 1 .. Len(timings)
  <2>1. timings[j] \in Timing
    BY <1>1, ElementOfSeq
  <2>2. timings[j].seq <= timings[j].iter
    BY DEF EachReplyOnce
  <2> QED
    BY <2>1, <2>2 DEF Timing
<1> PICK m \in Nat : m = timings[k].seq
  BY <1>2
<1> DEFINE Of(i, j) == timings[j].by = timings[k].by /\ timings[j].iter = i
           at == [i \in 0 .. m |-> CHOOSE j \in 1 .. Len(timings) : Of(i, j)]
           f == [i \in 0 .. m |-> timings[at[i]].seq]
<1>3. \A i \in 0 .. m : at[i] \in 1 .. Len(timings) /\ Of(i, at[i])
  <2>1. \A i \in 0 .. m : \E j \in 1 .. Len(timings) : Of(i, j)
    OBVIOUS
  <2> HIDE DEF Of
  <2> QED
    BY <2>1
<1> HIDE DEF at
<1>4. \A i \in 0 .. m : f[i] \in 0 .. m /\ f[i] <= i
  <2> TAKE i \in 0 .. m
  <2> PICK j \in 1 .. Len(timings) : j = at[i] /\ timings[j].iter = i
    BY <1>3
  <2> PICK n \in Nat : n = timings[j].seq /\ n <= i
    BY <1>2
  <2>1. n \in 0 .. m
    OBVIOUS
  <2>2. f[i] = n
    OBVIOUS
  <2> QED
    BY <2>1, <2>2
<1>5. \A i, j \in 0 .. m : f[i] = f[j] => i = j
  <2> TAKE i, j \in 0 .. m
  <2> HAVE f[i] = f[j]
  <2>1. timings[at[i]].seq = timings[at[j]].seq
    OBVIOUS
  <2>2. /\ at[i] \in 1 .. Len(timings) /\ timings[at[i]].by = timings[k].by
        /\ timings[at[i]].iter = i
        /\ at[j] \in 1 .. Len(timings) /\ timings[at[j]].by = timings[k].by
        /\ timings[at[j]].iter = j
    BY <1>3
  <2> PICK x \in 1 .. Len(timings), y \in 1 .. Len(timings) : x = at[i] /\ y = at[j]
    BY <2>2
  <2>3. timings[x].by = timings[y].by /\ timings[x].seq = timings[y].seq
    BY <2>1, <2>2
  <2>4. x = y
    BY <2>3 DEF EachReplyOnce
  <2> QED
    BY <2>2, <2>4
<1>6. f \in Injection(0 .. m, 0 .. m)
  BY <1>4, <1>5 DEF Injection, IsInjective
<1>7. f[m] = m
  <2> HIDE DEF f
  <2> QED
    BY <1>4, <1>6, Pigeonholes
<1>8. m \in 0 .. m
  OBVIOUS
<1>9. at[m] = k
  BY <1>3, <1>7, <1>8 DEF EachReplyOnce
<1> QED
  BY <1>3, <1>8, <1>9

(* Four disjoint subsets have no more elements than the whole.             *)
LEMMA FourDisjoint ==
  ASSUME NEW U, IsFiniteSet(U), NEW A \in SUBSET U, NEW B \in SUBSET U,
         NEW C \in SUBSET U, NEW D \in SUBSET U,
         A \cap B = {}, (A \cup B) \cap C = {}, (A \cup B \cup C) \cap D = {}
  PROVE  /\ IsFiniteSet(A) /\ IsFiniteSet(B) /\ IsFiniteSet(C) /\ IsFiniteSet(D)
         /\ Cardinality(A) + Cardinality(B) + Cardinality(C) + Cardinality(D) <= Cardinality(U)
<1>1. /\ IsFiniteSet(A) /\ IsFiniteSet(B) /\ IsFiniteSet(C) /\ IsFiniteSet(D)
  BY FS_Subset
<1>2. /\ Cardinality(A) \in Nat /\ Cardinality(B) \in Nat /\ Cardinality(C) \in Nat
      /\ Cardinality(D) \in Nat /\ Cardinality(U) \in Nat /\ Cardinality({}) = 0
  BY <1>1, FS_CardinalityType, FS_EmptySet
<1>3. IsFiniteSet(A \cup B) /\ Cardinality(A \cup B) = Cardinality(A) + Cardinality(B) - Cardinality({})
  BY <1>1, FS_Union
<1>4. /\ IsFiniteSet(A \cup B \cup C)
      /\ Cardinality(A \cup B \cup C) = Cardinality(A \cup B) + Cardinality(C) - Cardinality({})
  BY <1>1, <1>3, FS_Union
<1>5. Cardinality(A \cup B \cup C \cup D)
        = Cardinality(A \cup B \cup C) + Cardinality(D) - Cardinality({})
  BY <1>1, <1>4, FS_Union
<1>6. Cardinality(A \cup B \cup C \cup D) <= Cardinality(U)
  BY FS_Subset
<1> QED
  BY <1>1, <1>2, <1>3, <1>4, <1>5, <1>6

(* The requests that have been sent are those the fibers are done with and *)
(* those they wait for.                                                    *)
AskedSet == {q \in Clients \X Nat : Asked(q[1], q[2])}

Waiting == {c \in Clients : cpc[c] = "recv"}

LEMMA AskedCounted ==
  ASSUME TypeOK, Accounted
  PROVE  /\ IsFiniteSet(AskedSet)
         /\ Cardinality(AskedSet) <= Cardinality(Done) + Cardinality(Waiting)
<1> DEFINE W == {q \in Clients \X Nat : q[1] \in Waiting /\ q[2] = iter[q[1]]}
           f == [q \in W |-> q[1]]
<1>1. IsFiniteSet(Waiting)
  BY InfallibleUdpAssumption, FS_Subset DEF Waiting
<1>2. f \in Injection(W, Waiting)
  BY DEF Injection, IsInjective
<1>3. AskedSet = Done \cup W
  BY DEF AskedSet, Asked, Done, Waiting
<1> HIDE DEF f, W
<1>4. IsFiniteSet(W) /\ Cardinality(W) <= Cardinality(Waiting)
  BY <1>1, <1>2, FS_Injection
<1>5. IsFiniteSet(Done)
  BY DEF Accounted
<1> HIDE DEF Done, Waiting
<1>6. /\ IsFiniteSet(Done \cup W)
      /\ Cardinality(Done \cup W) = Cardinality(Done) + Cardinality(W) - Cardinality(Done \cap W)
  BY <1>4, <1>5, FS_Union
<1>7. IsFiniteSet(Done \cap W)
  BY <1>4, FS_Intersection
<1>8. /\ Cardinality(Done) \in Nat /\ Cardinality(W) \in Nat /\ Cardinality(Done \cap W) \in Nat
      /\ Cardinality(Waiting) \in Nat
  BY <1>1, <1>4, <1>5, <1>7, FS_CardinalityType
<1> QED
  BY <1>3, <1>4, <1>6, <1>8

(* A place for every request that is in one, and no two for the same: what *)
(* is on its way is no more than what was sent and not received.           *)
LEMMA OnceThenBacklog ==
  ASSUME IInv, AllOnce, Accounted
  PROVE  BacklogBound
<1> DEFINE PN == {d \in net : d.body # <<>>}
           PM == {s \in SFibers : spc[s] # "recv" /\ smsg[s].len > 0}
           PB == {p \in Addresses \X (1 .. InboxSize) :
                    p[2] <= Len(inbox[p[1]]) /\ inbox[p[1]][p[2]].body # <<>>}
           KN == {q \in AskedSet : InNet(q[1], q[2])}
           KM == {q \in AskedSet : InMsg(q[1], q[2])}
           KB == {q \in AskedSet : InBox(q[1], q[2])}
           KT == {q \in AskedSet : Timed(q[1], q[2])}
           fN == [d \in PN |-> <<Owner(d), d.seq>>]
           fM == [s \in PM |-> <<smsg[s].peer, smsg[s].seq>>]
           fB == [p \in PB |-> <<Owner(inbox[p[1]][p[2]]), inbox[p[1]][p[2]].seq>>]
           fT == [k \in 1 .. Len(timings) |-> <<timings[k].by, timings[k].seq>>]
<1>1. /\ NetTypeOK /\ ServerTypeOK /\ ClientTypeOK /\ Genuine /\ TypeOK
  BY DEF IInv, TypeOK
<1>2. IsFiniteSet(AskedSet) /\ Cardinality(AskedSet) <= Cardinality(Done) + Cardinality(Waiting)
  BY <1>1, AskedCounted
<1>3. \A c \in Clients, n \in Nat :
        /\ OneInNet(c, n) /\ OneInMsg(c, n) /\ OneInBox(c, n) /\ OneTimed(c, n)
        /\ InNet(c, n) \/ InMsg(c, n) \/ InBox(c, n) \/ Timed(c, n) => <<c, n>> \in AskedSet
  BY DEF AllOnce, Once, OneCopy, KnownPlace, AskedSet
<1>4. \A d \in Datagram : GenuineDatagram(d) /\ d.body # <<>> =>
        Owner(d) \in Clients /\ d.seq \in Nat /\ Stands(d, Owner(d), d.seq)
  BY DatagramsAssumption DEF GenuineDatagram, Owner, Stands, Datagram
<1>5. fN \in Injection(PN, KN)
  <2>1. \A d \in PN : Owner(d) \in Clients /\ d.seq \in Nat /\ Stands(d, Owner(d), d.seq)
    BY <1>1, <1>4 DEF NetTypeOK, Genuine, GenuineNet
  <2>2. \A d \in PN : <<Owner(d), d.seq>> \in KN
    BY <1>3, <2>1 DEF InNet
  <2>3. \A d, e \in PN : Owner(d) = Owner(e) /\ d.seq = e.seq => d = e
    BY <1>3, <2>1 DEF OneInNet
  <2> HIDE DEF PN, KN
  <2> QED
    BY <2>2, <2>3 DEF Injection, IsInjective
<1>6. fM \in Injection(PM, KM)
  <2>1. \A s \in PM : /\ smsg[s].peer \in Clients /\ smsg[s].seq \in Nat
                      /\ StandsMsg(s, smsg[s].peer, smsg[s].seq)
    <3> TAKE s \in PM
    <3>1. smsg[s].len \in {0, 1} /\ smsg[s].len > 0
      BY <1>1 DEF Genuine, GenuineMessage
    <3>2. smsg[s].len = 1
      BY <3>1
    <3>3. smsg[s].peer \in Clients /\ smsg[s].seq \in Nat
      BY <1>1, <3>2 DEF Genuine, GenuineMessage, ServerTypeOK
    <3> QED
      BY <3>3 DEF StandsMsg
  <2>2. \A s \in PM : <<smsg[s].peer, smsg[s].seq>> \in KM
    BY <1>3, <2>1 DEF InMsg
  <2>3. \A s, t \in PM : smsg[s].peer = smsg[t].peer /\ smsg[s].seq = smsg[t].seq => s = t
    BY <1>3, <2>1 DEF OneInMsg
  <2> HIDE DEF PM, KM
  <2> QED
    BY <2>2, <2>3 DEF Injection, IsInjective
<1>7. fB \in Injection(PB, KB)
  <2> DEFINE At2(p) == inbox[p[1]][p[2]]
  <2>1. \A p \in PB : /\ p[1] \in Addresses /\ p[2] \in 1 .. Len(inbox[p[1]])
                      /\ At2(p) \in Datagram /\ GenuineDatagram(At2(p)) /\ At2(p).body # <<>>
    <3> TAKE p \in PB
    <3>1. /\ p[1] \in Addresses /\ p[2] \in 1 .. InboxSize /\ p[2] <= Len(inbox[p[1]])
          /\ inbox[p[1]] \in Seq(Datagram)
      BY <1>1 DEF NetTypeOK
    <3>2. p[2] \in 1 .. Len(inbox[p[1]])
      BY <3>1, LenProperties, DatagramsAssumption
    <3> QED
      BY <1>1, <3>1, <3>2, ElementOfSeq DEF Genuine, GenuineNet
  <2>2. \A p \in PB : /\ Owner(At2(p)) \in Clients /\ At2(p).seq \in Nat
                      /\ Stands(At2(p), Owner(At2(p)), At2(p).seq)
    <3> HIDE DEF At2, PB
    <3> QED
      BY <1>4, <2>1
  <2>3. \A p \in PB : <<Owner(At2(p)), At2(p).seq>> \in KB
    <3> TAKE p \in PB
    <3>1. InBox(Owner(At2(p)), At2(p).seq)
      BY <2>1, <2>2 DEF InBox
    <3> HIDE DEF At2, PB
    <3> QED
      BY <1>3, <2>2, <3>1
  <2>4. \A p, q \in PB : Owner(At2(p)) = Owner(At2(q)) /\ At2(p).seq = At2(q).seq => p = q
    <3> TAKE p, q \in PB
    <3> HAVE Owner(At2(p)) = Owner(At2(q)) /\ At2(p).seq = At2(q).seq
    <3> PICK c \in Clients, n \in Nat : c = Owner(At2(p)) /\ n = At2(p).seq
      BY <2>2
    <3>1. Stands(inbox[p[1]][p[2]], c, n) /\ Stands(inbox[q[1]][q[2]], c, n) /\ OneInBox(c, n)
      BY <1>3, <2>2
    <3>2. p[1] = q[1] /\ p[2] = q[2]
      <4> HIDE DEF PB
      <4> QED
        BY <2>1, <3>1 DEF OneInBox
    <3> QED
      BY <3>2
  <2>5. fB = [p \in PB |-> <<Owner(At2(p)), At2(p).seq>>]
    OBVIOUS
  <2> HIDE DEF fB, At2, PB, KB
  <2> QED
    BY <2>3, <2>4, <2>5 DEF Injection, IsInjective
<1>8. fT \in Injection(1 .. Len(timings), KT)
  <2>1. \A k \in 1 .. Len(timings) : timings[k].by \in Clients /\ timings[k].seq \in Nat
    <3> TAKE k \in 1 .. Len(timings)
    <3>1. timings \in Seq(Timing)
      BY <1>1 DEF ClientTypeOK
    <3>2. timings[k] \in Timing
      BY <3>1, ElementOfSeq
    <3> QED
      BY <3>2 DEF Timing
  <2>2. \A k \in 1 .. Len(timings) : <<timings[k].by, timings[k].seq>> \in KT
    BY <1>3, <2>1 DEF Timed, StandsTime
  <2>3. \A j, k \in 1 .. Len(timings) :
          timings[j].by = timings[k].by /\ timings[j].seq = timings[k].seq => j = k
    BY <1>3, <2>1 DEF OneTimed, StandsTime
  <2> HIDE DEF KT
  <2> QED
    BY <2>2, <2>3 DEF Injection, IsInjective
<1>9. KN \cap KM = {} /\ (KN \cup KM) \cap KB = {} /\ (KN \cup KM \cup KB) \cap KT = {}
  BY DEF AllOnce, Once, OnePlace, AskedSet
<1>10. /\ KN \in SUBSET AskedSet /\ KM \in SUBSET AskedSet /\ KB \in SUBSET AskedSet
       /\ KT \in SUBSET AskedSet
  OBVIOUS
<1>11. Len(timings) \in Nat /\ dead_packets \in Nat
  BY <1>1, LenProperties DEF ClientTypeOK
<1>12. BacklogBound <=> Cardinality(PN) + Cardinality(PM) + Cardinality(PB)
                         <= dead_packets + Cardinality(Waiting)
  BY DEF BacklogBound, Backlog, Waiting
<1>13. Cardinality(Done) = Len(timings) + dead_packets /\ Cardinality(Done) \in Nat
  BY <1>11 DEF Accounted
<1> HIDE DEF fN, fM, fB, fT, PN, PM, PB, KN, KM, KB, KT, AskedSet, Done
<1>14. /\ IsFiniteSet(KN) /\ IsFiniteSet(KM) /\ IsFiniteSet(KB) /\ IsFiniteSet(KT)
       /\ Cardinality(KN) + Cardinality(KM) + Cardinality(KB) + Cardinality(KT)
            <= Cardinality(AskedSet)
  BY <1>2, <1>9, <1>10, FourDisjoint
<1>15. /\ IsFiniteSet(PN) /\ IsFiniteSet(PM) /\ IsFiniteSet(PB)
       /\ Cardinality(PN) <= Cardinality(KN) /\ Cardinality(PM) <= Cardinality(KM)
       /\ Cardinality(PB) <= Cardinality(KB)
       /\ Cardinality(1 .. Len(timings)) <= Cardinality(KT)
  BY <1>5, <1>6, <1>7, <1>8, <1>14, FS_Injection
<1>16. Cardinality(1 .. Len(timings)) = Len(timings)
  <2> PICK n : n = Len(timings)
    OBVIOUS
  <2>1. 1 \in Int /\ n \in Int /\ (IF 1 > n THEN 0 ELSE n - 1 + 1) = n
    BY <1>11
  <2>2. Cardinality(1 .. n) = IF 1 > n THEN 0 ELSE n - 1 + 1
    BY <2>1, FS_Interval
  <2> QED
    BY <2>1, <2>2
<1>17. IsFiniteSet(Waiting)
  BY InfallibleUdpAssumption, FS_Subset DEF Waiting
<1>18. /\ Cardinality(PN) \in Nat /\ Cardinality(PM) \in Nat /\ Cardinality(PB) \in Nat
       /\ Cardinality(KN) \in Nat /\ Cardinality(KM) \in Nat /\ Cardinality(KB) \in Nat
       /\ Cardinality(KT) \in Nat /\ Cardinality(AskedSet) \in Nat
       /\ Cardinality(Waiting) \in Nat
  BY <1>2, <1>14, <1>15, <1>17, FS_CardinalityType
<1> HIDE DEF Waiting
<1>19. Cardinality(PN) + Cardinality(PM) + Cardinality(PB) <= dead_packets + Cardinality(Waiting)
  <2>1. PICK pn \in Nat, pm \in Nat, pb \in Nat :
          pn = Cardinality(PN) /\ pm = Cardinality(PM) /\ pb = Cardinality(PB)
    BY <1>18
  <2>2. PICK kn \in Nat, km \in Nat, kb \in Nat, kt \in Nat :
          /\ kn = Cardinality(KN) /\ km = Cardinality(KM) /\ kb = Cardinality(KB)
          /\ kt = Cardinality(KT)
    BY <1>18
  <2>3. PICK n \in Nat, d \in Nat, w \in Nat, a \in Nat :
          /\ n = Len(timings) /\ d = dead_packets
          /\ w = Cardinality(Waiting) /\ a = Cardinality(AskedSet)
    BY <1>11, <1>18
  <2>4. pn <= kn /\ pm <= km /\ pb <= kb /\ n <= kt
    BY <1>15, <1>16, <2>1, <2>2, <2>3
  <2>5. kn + km + kb + kt <= a
    BY <1>14, <2>2, <2>3
  <2>6. a <= n + d + w
    BY <1>2, <1>13, <2>3
  <2>7. pn + pm + pb <= d + w
    BY <2>4, <2>5, <2>6
  <2> QED
    BY <2>1, <2>3, <2>7
<1> QED
  BY <1>12, <1>19

(* No reply is taken for two requests, and none for a request sent after   *)
(* it (infallible_udp.cc:132-143), unless the network duplicates.          *)
THEOREM RepliesTakenOnce == ASSUME ~MayDuplicate PROVE Spec => []EachReplyOnce
<1>1. TypeOK /\ AllOnce => EachReplyOnce
  BY OnceThenEachReply
<1> QED
  BY <1>1, TypeCorrect, RequestsOnce, PTL

(* A late reply passes for the current one (infallible_udp.cc:137) only in *)
(* a fiber that gave up on that packet or an earlier one.                  *)
THEOREM LateRepliesExplained == ASSUME ~MayDuplicate PROVE Spec => []LateOnlyAfterDead
<1>1. TypeOK /\ EachReplyOnce => LateOnlyAfterDead
  BY EachReplyThenLate
<1> QED
  BY <1>1, TypeCorrect, RepliesTakenOnce, PTL

(* dead_packets (infallible_udp.cc:124-131) accounts for everything on its *)
(* way that no fiber waits for.                                            *)
THEOREM DeadPacketsCovered == ASSUME ~MayDuplicate PROVE Spec => []BacklogBound
<1>1. IInv /\ AllOnce /\ Accounted => BacklogBound
  BY OnceThenBacklog
<1> QED
  BY <1>1, Inductive, RequestsOnce, EveryRequestAccounted, PTL

=============================================================================
