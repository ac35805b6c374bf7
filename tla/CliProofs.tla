------------------------------ MODULE CliProofs ------------------------------
(***************************************************************************)
(* The client whose fibers share a socket, for any number of fibers and    *)
(* requests and any size of the receive buffers: its summary covers every  *)
(* request it does not cut off, and no more replies are on their way than  *)
(* fibers wait.                                                            *)
(***************************************************************************)
EXTENDS Cli, EchoServerProofs

(* A fiber that waits has a request to go, and one that has joined none.   *)
RoundsInRange ==
  \A t \in Threads : /\ tpc[t] = "recv" => round[t] < PerThread
                     /\ tpc[t] = "joined" => round[t] = PerThread

IInv == TypeOK /\ Genuine /\ RoundsInRange

-----------------------------------------------------------------------------
(* Types.                                                                  *)

(* Every step of a fiber (cli.cc:79-105) keeps the types and what is on    *)
(* its way genuine.                                                        *)
LEMMA CliStepKeeps ==
  ASSUME IInv, NEW t \in Threads, CliStep(t)
  PROVE  IInv'
<1>1. /\ NetTypeOK /\ ServerTypeOK /\ Genuine /\ RoundsInRange
      /\ requests \in Nat /\ records \in Nat /\ failures \in Nat
      /\ cli \in {"starting", "running", "reported", "socket", "bad sendmsg", "bad summary"}
      /\ Socket \in Addresses /\ Socket \in Clients /\ Server \in Addresses /\ PerThread \in Nat
  BY CliAssumption DEF IInv, TypeOK, Addresses
<1>8. requests \in Nat /\ records \in Nat /\ failures \in Nat
  BY DEF IInv, TypeOK
<1>9. PerThread \in Nat /\ \A u \in Threads : round[u] \in Nat /\ round[u] <= PerThread
  <2>1. PerThread \in Nat
    BY CliAssumption
  <2>2. round \in [Threads -> 0 .. PerThread]
    BY DEF IInv, TypeOK
  <2> QED
    BY <2>1, <2>2
<1>0. tpc \in [Threads -> {"send", "recv", "joined"}] /\ round \in [Threads -> 0 .. PerThread]
  BY DEF IInv, TypeOK
<1>2. UNCHANGED <<spc, sbuf, smsg, server>>
  BY DEF CliStep, Send, SendFails, Receive, ReceiveFails, StopThread, Record, serverVars
<1>3. ServerTypeOK' /\ (\A s \in SFibers : GenuineMessage(s))'
  BY <1>1, <1>2 DEF ServerTypeOK, Genuine, GenuineMessage
<1>4. ASSUME UNCHANGED netVars PROVE NetTypeOK' /\ GenuineNet'
  BY <1>1, <1>4 DEF netVars, NetTypeOK, GenuineNet, Genuine
<1>5. CASE Send(t)
  <2> PICK d : d = [to |-> Server, from |-> Socket, body |-> <<Socket>>, seq |-> requests]
    OBVIOUS
  <2>1. /\ net' = net \cup {d} /\ bound' = bound \cup {Socket} /\ requests' = requests + 1
        /\ tpc' = [tpc EXCEPT ![t] = "recv"] /\ UNCHANGED <<inbox, round, records, failures, cli>>
        /\ round[t] < PerThread
    BY <1>5 DEF Send, Transmit
  <2>2. d \in Datagram
    <3> PICK c \in Clients : c = Socket
      BY <1>1
    <3>1. <<c>> \in Seq(Clients)
      OBVIOUS
    <3> QED
      BY <1>1, <3>1 DEF Datagram
  <2>3. GenuineDatagram(d)
    BY <1>1 DEF GenuineDatagram
  <2>4. NetTypeOK' /\ GenuineNet'
    BY <1>1, <2>1, <2>2, <2>3 DEF NetTypeOK, GenuineNet, Genuine
  <2>5. requests' \in Nat
    BY <1>8, <2>1
  <2>6. tpc' \in [Threads -> {"send", "recv", "joined"}]
    BY <1>0, <2>1
  <2>7. RoundsInRange'
    BY <1>0, <1>1, <2>1 DEF RoundsInRange
  <2>8. TypeOK'
    BY <1>0, <1>1, <1>3, <2>1, <2>4, <2>5, <2>6 DEF TypeOK
  <2> QED
    BY <1>3, <2>4, <2>7, <2>8 DEF IInv, Genuine
<1>6. CASE SendFails(t) \/ StopThread(t)
  <2>1. /\ UNCHANGED <<netVars, round, requests, records, failures>>
        /\ cli' = "bad sendmsg" \/ cli' = cli
        /\ \/ tpc' = tpc
           \/ tpc' = [tpc EXCEPT ![t] = "joined"] /\ round[t] >= PerThread
    BY <1>6 DEF SendFails, StopThread
  <2>2. tpc' \in [Threads -> {"send", "recv", "joined"}]
    BY <1>0, <2>1
  <2>3. RoundsInRange'
    <3>1. round[t] \in Nat /\ round[t] <= PerThread
      BY <1>9
    <3>2. round[t] >= PerThread => round[t] = PerThread
      BY <1>9, <3>1
    <3> QED
      BY <1>0, <1>1, <2>1, <3>2 DEF RoundsInRange
  <2>4. TypeOK'
    BY <1>0, <1>1, <1>3, <1>4, <2>1, <2>2 DEF TypeOK
  <2> QED
    BY <1>3, <1>4, <2>1, <2>3, <2>4 DEF IInv, Genuine
<1>7. CASE Receive(t) \/ ReceiveFails(t)
  <2>1. /\ Record(t) /\ tpc[t] = "recv" /\ (failures' = failures \/ failures' = failures + 1)
        /\ UNCHANGED netVars \/ (TakeFrom(Socket) /\ UNCHANGED <<net, bound>>)
    BY <1>7 DEF Receive, ReceiveFails, At
  <2>2. /\ records' = records + 1 /\ round' = [round EXCEPT ![t] = @ + 1]
        /\ tpc' = [tpc EXCEPT ![t] = "send"] /\ UNCHANGED <<requests, cli>>
    BY <2>1 DEF Record
  <2>3. NetTypeOK' /\ GenuineNet'
    BY <1>1, <1>4, <2>1, TakeKeeps DEF Genuine
  <2>4. records' \in Nat /\ failures' \in Nat
    BY <1>8, <2>1, <2>2
  <2>5. round[t] + 1 \in 0 .. PerThread
    <3>1. round[t] \in Nat /\ round[t] < PerThread
      BY <1>1, <1>9, <2>1 DEF RoundsInRange
    <3> QED
      BY <1>9, <3>1
  <2>6. round' \in [Threads -> 0 .. PerThread]
    BY <1>0, <2>2, <2>5
  <2>7. tpc' \in [Threads -> {"send", "recv", "joined"}]
    BY <1>0, <2>2
  <2>8. RoundsInRange'
    BY <1>0, <1>1, <2>2 DEF RoundsInRange
  <2>9. TypeOK'
    BY <1>1, <1>3, <2>2, <2>3, <2>4, <2>6, <2>7 DEF TypeOK
  <2> QED
    BY <1>3, <2>3, <2>8, <2>9 DEF IInv, Genuine
<1> QED
  BY <1>5, <1>6, <1>7 DEF CliStep

(* The cut leaves something unless there was nothing, and then the report  *)
(* can be made (cli.cc:111-128).                                           *)
LEMMA RemainingFacts ==
  ASSUME NEW n \in Nat
  PROVE  Remaining(n) \in Nat /\ (n # 0 => CanReport(Remaining(n)))
<1> PICK r : r = Remaining(n)
  OBVIOUS
<1>1. r = IF n > Cut THEN n - Cut ELSE n
  BY DEF Remaining
<1>2. r \in Nat /\ (n # 0 => r > 0)
  BY <1>1, SummaryAssumption
<1>3. ASSUME NEW k \in Nat, k > 0
      PROVE  /\ (k * 5000) \div 10000 < k /\ (k * 9000) \div 10000 < k
             /\ (k * 9500) \div 10000 < k /\ (k * 9900) \div 10000 < k
             /\ (k * 9990) \div 10000 < k /\ (k * 9999) \div 10000 < k
  BY <1>3
<1>4. r > 0 => CanReport(r)
  BY <1>2, <1>3 DEF CanReport, Quantiles, QuantileRank
<1> QED
  BY <1>2, <1>4

(* The invariant holds in every reachable state.                           *)
THEOREM Inductive == Spec => []IInv
<1>1. Init => IInv
  <2> SUFFICES ASSUME Init PROVE IInv
    OBVIOUS
  <2>1. NetTypeOK /\ ServerTypeOK /\ Genuine
    BY InitGenuine DEF Init
  <2> QED
    BY <2>1, CliAssumption DEF Init, IInv, TypeOK, RoundsInRange
<1>2. IInv /\ [Next]_vars => IInv'
  <2> SUFFICES ASSUME IInv, [Next]_vars PROVE IInv'
    OBVIOUS
  <2>0. NetTypeOK /\ ServerTypeOK /\ Genuine
    BY DEF IInv, TypeOK
  <2>1. ASSUME UNCHANGED cliVars, NetTypeOK', ServerTypeOK', Genuine' PROVE IInv'
    BY <2>1 DEF cliVars, IInv, TypeOK, RoundsInRange
  <2>2. ASSUME UNCHANGED <<netVars, serverVars>>
        PROVE  NetTypeOK' /\ ServerTypeOK' /\ Genuine'
    BY <2>0, <2>2 DEF netVars, serverVars, NetTypeOK, ServerTypeOK, Genuine, GenuineNet, GenuineMessage
  <2>3. CASE UNCHANGED vars
    BY <2>1, <2>2, <2>3 DEF vars, netVars, serverVars, cliVars
  <2>4. CASE Open \/ OpenFails \/ Summarise
    <3>1. /\ UNCHANGED <<netVars, serverVars, tpc, round, requests, failures>>
          /\ cli' \in {"running", "socket", "reported", "bad summary"}
          /\ records' = records \/ records' = Remaining(records)
      BY <2>4 DEF Open, OpenFails, Summarise
    <3>2. NetTypeOK' /\ ServerTypeOK' /\ Genuine'
      BY <2>2, <3>1
    <3>3. records' \in Nat
      BY <3>1, RemainingFacts DEF IInv, TypeOK
    <3> QED
      BY <3>1, <3>2, <3>3 DEF IInv, TypeOK, RoundsInRange
  <2>5. CASE Network
    <3>1. NetTypeOK' /\ GenuineNet' /\ UNCHANGED <<spc, sbuf, smsg, server, cliVars>>
      BY <2>0, <2>5, NetStepKeeps DEF Network, serverVars, Genuine
    <3>2. ServerTypeOK' /\ (\A s \in SFibers : GenuineMessage(s))'
      BY <2>0, <3>1 DEF ServerTypeOK, Genuine, GenuineMessage
    <3> QED
      BY <2>1, <3>1, <3>2 DEF Genuine
  <2>6. ASSUME NEW s \in SFibers, ServerSteps(s) PROVE IInv'
    BY <2>0, <2>1, <2>6, ServerKeeps DEF ServerSteps
  <2>7. CASE ServerStarts
    BY <2>0, <2>1, <2>7, ServerOpensKeeps DEF ServerStarts
  <2> QED
    BY <2>3, <2>4, <2>5, <2>6, <2>7, CliStepKeeps DEF Next
<1> QED
  BY <1>1, <1>2, PTL DEF Spec

(* Every variable keeps its type (cli.cc:62-133, srv2.cc:105-134).         *)
THEOREM TypeCorrect == Spec => []TypeOK
BY Inductive, PTL DEF IInv

-----------------------------------------------------------------------------
(* The summary (cli.cc:107-133): every request has a record or a fiber     *)
(* that waits for it.                                                      *)

Recorded == {p \in Threads \X Nat : p[2] < round[p[1]]}

Tallied ==
  /\ IsFiniteSet(Recorded) /\ Cardinality(Recorded) = records
  /\ requests = records + Cardinality(Waiting)

(* So it is until the summary cuts the first records off.                  *)
Accounted == cli \in {"reported", "bad summary"} \/ Tallied

(* The fibers that wait can be counted.                                    *)
LEMMA WaitingFinite == IsFiniteSet(Waiting) /\ Cardinality(Waiting) \in Nat
<1>1. IsFiniteSet(Waiting)
  BY CliAssumption, FS_Subset DEF Waiting
<1> QED
  BY <1>1, FS_CardinalityType

(* A fiber begins to wait, or ends waiting.                                *)
LEMMA WaitingChanges ==
  ASSUME tpc \in [Threads -> {"send", "recv", "joined"}], NEW t \in Threads,
         NEW p \in {"send", "recv", "joined"}, tpc' = [tpc EXCEPT ![t] = p]
  PROVE  /\ tpc[t] # "recv" /\ p = "recv" => Cardinality(Waiting') = Cardinality(Waiting) + 1
         /\ tpc[t] = "recv" /\ p # "recv" => Cardinality(Waiting') = Cardinality(Waiting) - 1
         /\ tpc[t] # "recv" /\ p # "recv" => Waiting' = Waiting
<1>1. tpc'[t] = p /\ \A u \in Threads \ {t} : tpc'[u] = tpc[u]
  OBVIOUS
<1>2. tpc[t] # "recv" /\ p = "recv" => Waiting' = Waiting \cup {t} /\ t \notin Waiting
  BY <1>1 DEF Waiting
<1>3. tpc[t] = "recv" /\ p # "recv" => Waiting' = Waiting \ {t} /\ t \in Waiting
  BY <1>1 DEF Waiting
<1>4. tpc[t] # "recv" /\ p # "recv" => Waiting' = Waiting
  BY <1>1 DEF Waiting
<1>5. /\ Cardinality(Waiting \cup {t}) = IF t \in Waiting THEN Cardinality(Waiting) ELSE Cardinality(Waiting) + 1
      /\ Cardinality(Waiting \ {t}) = IF t \in Waiting THEN Cardinality(Waiting) - 1 ELSE Cardinality(Waiting)
  BY WaitingFinite, FS_AddElement, FS_RemoveElement
<1> QED
  BY <1>2, <1>3, <1>4, <1>5

(* A fiber that records a timing is done with one more round.              *)
LEMMA RecordedGrows ==
  ASSUME round \in [Threads -> 0 .. PerThread], IsFiniteSet(Recorded), NEW t \in Threads,
         round' = [round EXCEPT ![t] = @ + 1]
  PROVE  IsFiniteSet(Recorded') /\ Cardinality(Recorded') = Cardinality(Recorded) + 1
<1>0. PerThread \in Nat
  BY CliAssumption
<1>1. /\ round[t] \in Nat /\ round'[t] = round[t] + 1
      /\ \A u \in Threads \ {t} : round'[u] = round[u]
  BY <1>0
<1>2. <<t, round[t]>> \in Threads \X Nat /\ <<t, round[t]>> \notin Recorded
  BY <1>1 DEF Recorded
<1>3. ASSUME NEW u \in Threads, NEW i \in Nat
      PROVE  i < round'[u] <=> i < round[u] \/ (u = t /\ i = round[t])
  <2>1. CASE u = t
    BY <1>1, <2>1
  <2>2. CASE u # t
    BY <1>1, <2>2
  <2> QED
    BY <2>1, <2>2
<1>4. ASSUME NEW u \in Threads, NEW i \in Nat
      PROVE  <<u, i>> \in Recorded' <=> <<u, i>> \in Recorded \cup {<<t, round[t]>>}
  BY <1>3 DEF Recorded
<1>5. Recorded' = Recorded \cup {<<t, round[t]>>}
  <2>1. Recorded' \subseteq Threads \X Nat /\ Recorded \cup {<<t, round[t]>>} \subseteq Threads \X Nat
    BY <1>2 DEF Recorded
  <2>2. \A p \in Threads \X Nat : \E u \in Threads, i \in Nat : p = <<u, i>>
    OBVIOUS
  <2> HIDE DEF Recorded
  <2> QED
    BY <1>4, <2>1, <2>2
<1> HIDE DEF Recorded
<1> QED
  BY <1>2, <1>5, FS_AddElement

(* What a fiber does to the records (cli.cc:79-105).                       *)
LEMMA CliStepTallies ==
  ASSUME IInv, Tallied, NEW t \in Threads, CliStep(t)
  PROVE  Tallied'
<1>1. tpc \in [Threads -> {"send", "recv", "joined"}] /\ round \in [Threads -> 0 .. PerThread]
  BY DEF IInv, TypeOK
<1>2. requests \in Nat /\ records \in Nat
  BY DEF IInv, TypeOK
<1>3. ASSUME UNCHANGED round PROVE Recorded' = Recorded
  BY <1>3 DEF Recorded
<1> DEFINE w == Cardinality(Waiting)
           v == Cardinality(Waiting')
<1>4. w \in Nat
  BY WaitingFinite
<1> HIDE DEF Recorded
<1>5. CASE Send(t)
  <2>1. /\ tpc[t] = "send" /\ tpc' = [tpc EXCEPT ![t] = "recv"]
        /\ requests' = requests + 1 /\ UNCHANGED <<round, records>>
    BY <1>5 DEF Send, At
  <2>2. v = w + 1
    BY <1>1, <2>1, WaitingChanges
  <2> HIDE DEF v, w
  <2>3. requests' = records' + v
    <3>1. requests = records + w
      BY DEF Tallied, w
    <3> QED
      BY <1>2, <1>4, <2>1, <2>2, <3>1
  <2> QED
    BY <1>3, <2>1, <2>3 DEF Tallied, v
<1>6. CASE SendFails(t) \/ StopThread(t)
  <2>1. UNCHANGED <<round, records, requests>>
    BY <1>6 DEF SendFails, StopThread
  <2>2. Waiting' = Waiting
    <3>1. CASE SendFails(t)
      BY <3>1 DEF SendFails, Waiting
    <3>2. CASE StopThread(t)
      <4>1. tpc[t] # "recv" /\ tpc' = [tpc EXCEPT ![t] = "joined"]
        BY <3>2 DEF StopThread, At
      <4> QED
        BY <1>1, <4>1, WaitingChanges
    <3> QED
      BY <1>6, <3>1, <3>2
  <2> HIDE DEF v, w
  <2> QED
    BY <1>3, <2>1, <2>2 DEF Tallied
<1>7. CASE Receive(t) \/ ReceiveFails(t)
  <2>1. /\ tpc[t] = "recv" /\ tpc' = [tpc EXCEPT ![t] = "send"]
        /\ round' = [round EXCEPT ![t] = @ + 1] /\ records' = records + 1 /\ requests' = requests
    BY <1>7 DEF Receive, ReceiveFails, Record, At
  <2>2. v = w - 1
    BY <1>1, <2>1, WaitingChanges
  <2>3. IsFiniteSet(Recorded') /\ Cardinality(Recorded') = Cardinality(Recorded) + 1
    BY <1>1, <2>1, RecordedGrows DEF Tallied
  <2>4. Cardinality(Recorded') = records'
    BY <2>1, <2>3 DEF Tallied
  <2> HIDE DEF v, w
  <2>5. requests' = records' + v
    <3>1. requests = records + w
      BY DEF Tallied, w
    <3> QED
      BY <1>2, <1>4, <2>1, <2>2, <3>1
  <2> QED
    BY <2>3, <2>4, <2>5 DEF Tallied, v
<1> QED
  BY <1>5, <1>6, <1>7 DEF CliStep

(* Once every fiber has joined, there is a record of every request.        *)
LEMMA AllRecorded ==
  ASSUME IInv, Tallied, \A t \in Threads : tpc[t] = "joined"
  PROVE  records = requests /\ requests = PerThread * Cardinality(Threads)
<1>0. PerThread \in Nat /\ IsFiniteSet(Threads) /\ records \in Nat
  BY CliAssumption DEF IInv, TypeOK
<1>1. \A t \in Threads : round[t] = PerThread
  BY DEF IInv, RoundsInRange
<1>2. Recorded = Threads \X (0 .. PerThread - 1)
  BY <1>0, <1>1 DEF Recorded
<1>3. IsFiniteSet(0 .. PerThread - 1) /\ Cardinality(0 .. PerThread - 1) = PerThread
  <2> PICK b : b = PerThread - 1
    OBVIOUS
  <2>1. 0 \in Int /\ b \in Int /\ (IF 0 > b THEN 0 ELSE b - 0 + 1) = PerThread
    BY <1>0
  <2>2. IsFiniteSet(0 .. b) /\ Cardinality(0 .. b) = IF 0 > b THEN 0 ELSE b - 0 + 1
    BY <2>1, FS_Interval
  <2> QED
    BY <2>1, <2>2
<1>4. Cardinality(Threads \X (0 .. PerThread - 1)) = Cardinality(Threads) * PerThread
  <2>1. Cardinality(Threads \X (0 .. PerThread - 1)) = Cardinality(Threads) * Cardinality(0 .. PerThread - 1)
    BY <1>0, <1>3, FS_Product
  <2> QED
    BY <1>3, <2>1
<1>5. Cardinality(Threads) * PerThread = PerThread * Cardinality(Threads)
  <2>1. Cardinality(Threads) \in Nat
    BY <1>0, FS_CardinalityType
  <2> QED
    BY <1>0, <2>1
<1>6. records = PerThread * Cardinality(Threads)
  BY <1>2, <1>4, <1>5 DEF Tallied
<1>7. Cardinality(Waiting) = 0
  <2>1. Waiting = {}
    BY DEF Waiting
  <2> QED
    BY <2>1, FS_EmptySet
<1>8. requests = records
  BY <1>0, <1>7 DEF Tallied
<1> QED
  BY <1>6, <1>8

(* There is one, if there was to be any.                                   *)
LEMMA NoneRecorded ==
  ASSUME IInv, Tallied, \A t \in Threads : tpc[t] = "joined", records = 0
  PROVE  PerThread = 0
<1> SUFFICES ASSUME PerThread # 0 PROVE FALSE
  OBVIOUS
<1>1. PerThread \in Nat /\ PerThread > 0
  <2>1. PerThread \in Nat
    BY CliAssumption
  <2> QED
    BY <2>1
<1> PICK t \in Threads : TRUE
  BY CliAssumption
<1>2. <<t, 0>> \in Recorded
  BY <1>1 DEF Recorded, IInv, RoundsInRange
<1>3. Cardinality(Recorded) # 0
  <2> HIDE DEF Recorded
  <2> QED
    BY <1>2, FS_EmptySet DEF Tallied
<1> QED
  BY <1>3 DEF Tallied

(* Every request has a record when the summary is made (cli.cc:76-133),    *)
(* whatever the network loses or duplicates.                               *)
THEOREM RequestsAccounted == Spec => [](Accounted /\ SummaryComplete)
<1>1. Init => Accounted /\ SummaryComplete
  <2> SUFFICES ASSUME Init PROVE Accounted /\ SummaryComplete
    OBVIOUS
  <2>1. Recorded = {} /\ Waiting = {} /\ requests = 0 /\ records = 0
    BY DEF Init, Recorded, Waiting
  <2>2. cli = "starting"
    BY DEF Init
  <2> HIDE DEF Recorded
  <2>3. Tallied
    BY <2>1, FS_EmptySet DEF Tallied
  <2> QED
    BY <2>2, <2>3 DEF Accounted, SummaryComplete
<1>2. IInv /\ Accounted /\ SummaryComplete /\ [Next]_vars => Accounted' /\ SummaryComplete'
  <2> SUFFICES ASSUME IInv, Accounted, SummaryComplete, [Next]_vars
               PROVE  Accounted' /\ SummaryComplete'
    OBVIOUS
  <2>1. ASSUME UNCHANGED <<tpc, round, requests, records>>, Tallied PROVE Tallied'
    <3>1. Recorded' = Recorded /\ Waiting' = Waiting
      BY <2>1 DEF Recorded, Waiting
    <3> HIDE DEF Recorded
    <3> QED
      BY <2>1, <3>1 DEF Tallied
  <2>2. CASE UNCHANGED cliVars
    <3>1. UNCHANGED <<tpc, round, requests, records, cli>>
      BY <2>2 DEF cliVars
    <3>2. Accounted'
      BY <2>1, <3>1 DEF Accounted
    <3> QED
      BY <3>1, <3>2 DEF SummaryComplete
  <2>3. CASE Open \/ OpenFails
    <3>1. /\ UNCHANGED <<tpc, round, requests, records>>
          /\ cli = "starting" /\ cli' \in {"running", "socket"}
      BY <2>3 DEF Open, OpenFails
    <3>2. Tallied'
      BY <2>1, <3>1 DEF Accounted
    <3> QED
      BY <3>1, <3>2 DEF Accounted, SummaryComplete
  <2>4. CASE Summarise
    <3>1. /\ cli = "running" /\ requests' = requests /\ \A t \in Threads : tpc[t] = "joined"
          /\ records' = Remaining(records)
          /\ cli' = IF CanReport(Remaining(records)) THEN "reported" ELSE "bad summary"
      BY <2>4 DEF Summarise
    <3>2. Tallied
      BY <3>1 DEF Accounted
    <3>3. records = requests /\ requests = PerThread * Cardinality(Threads)
      BY <3>1, <3>2, AllRecorded
    <3>4. cli' = "bad summary" => PerThread = 0
      <4>1. records \in Nat
        BY DEF IInv, TypeOK
      <4>2. cli' = "bad summary" => records = 0
        BY <3>1, <4>1, RemainingFacts
      <4> QED
        BY <3>1, <3>2, <4>2, NoneRecorded
    <3>5. Remaining(records) = records - (IF records > Cut THEN Cut ELSE 0)
      <4>1. records \in Nat
        BY DEF IInv, TypeOK
      <4> QED
        BY <4>1 DEF Remaining
    <3>6. cli' \in {"reported", "bad summary"}
      BY <3>1
    <3>7. /\ requests' = PerThread * Cardinality(Threads)
          /\ records' = requests' - (IF requests' > Cut THEN Cut ELSE 0)
      BY <3>1, <3>3, <3>5
    <3> QED
      BY <3>4, <3>6, <3>7 DEF Accounted, SummaryComplete
  <2>5. ASSUME NEW t \in Threads, CliStep(t) PROVE Accounted' /\ SummaryComplete'
    <3>1. cli = "running" /\ cli' \in {"running", "bad sendmsg"}
      BY <2>5 DEF CliStep, Send, SendFails, Receive, ReceiveFails, StopThread, Record, At
    <3>2. Tallied
      BY <3>1 DEF Accounted
    <3>3. Tallied'
      BY <2>5, <3>2, CliStepTallies
    <3> QED
      BY <3>1, <3>3 DEF Accounted, SummaryComplete
  <2>6. CASE UNCHANGED vars
    <3>1. UNCHANGED cliVars
      BY <2>6 DEF vars, cliVars
    <3> QED
      BY <2>2, <3>1
  <2> QED
    BY <2>2, <2>3, <2>4, <2>5, <2>6 DEF Next, ServerSteps, ServerStarts, Network
<1> QED
  BY <1>1, <1>2, Inductive, PTL DEF Spec

(* The summary (cli.cc:107-133) is over every request but the first Cut    *)
(* recorded if there are more, and fails only if there was to be none.     *)
THEOREM SummaryOfAll == Spec => []SummaryComplete
BY RequestsAccounted, PTL

-----------------------------------------------------------------------------
(* Replies and fibers that wait for them.                                  *)

Busy == {s \in SFibers : spc[s] # "recv"}

(* What is on its way is no more than what is waited for.                  *)
Covered == IsFiniteSet(net) /\ IsFiniteSet(Busy) /\ NobodysReply

(* What a socket's buffer holds when a call takes from it, and when a      *)
(* datagram arrives.                                                       *)
LEMMA TakenLength ==
  ASSUME NetTypeOK, NEW a \in Addresses, TakeFrom(a)
  PROVE  /\ Len(inbox[a]) \in Nat /\ Len(inbox'[a]) = Len(inbox[a]) - 1
         /\ \A b \in Addresses \ {a} : inbox'[b] = inbox[b]
<1>1. inbox[a] \in Seq(Datagram) /\ inbox[a] # <<>>
  BY DEF NetTypeOK, TakeFrom
<1>2. Len(Tail(inbox[a])) = Len(inbox[a]) - 1
  BY <1>1, HeadTailProperties
<1>3. Len(inbox[a]) \in Nat
  BY <1>1, LenProperties
<1>4. inbox'[a] = Tail(inbox[a]) /\ \A b \in Addresses \ {a} : inbox'[b] = inbox[b]
  BY DEF NetTypeOK, TakeFrom
<1> QED
  BY <1>2, <1>3, <1>4

(* One fewer is on its way, or one more.                                   *)
LEMMA NetCounts ==
  ASSUME IsFiniteSet(net), NEW d
  PROVE  /\ net' = net \cup {d} => IsFiniteSet(net') /\ Cardinality(net') <= Cardinality(net) + 1
         /\ net' = net \ {d} /\ d \in net =>
              IsFiniteSet(net') /\ Cardinality(net') = Cardinality(net) - 1
         /\ Cardinality(net) \in Nat
         /\ net' = net \cup {d} \/ net' = net \ {d} => Cardinality(net') \in Nat
<1>1. Cardinality(net) \in Nat
  BY FS_CardinalityType
<1>2. /\ IsFiniteSet(net \cup {d}) /\ IsFiniteSet(net \ {d})
      /\ Cardinality(net \cup {d}) = IF d \in net THEN Cardinality(net) ELSE Cardinality(net) + 1
      /\ d \in net => Cardinality(net \ {d}) = Cardinality(net) - 1
  BY FS_AddElement, FS_RemoveElement
<1>3. Cardinality(net \cup {d}) \in Nat /\ Cardinality(net \ {d}) \in Nat
  BY <1>2, FS_CardinalityType
<1>4. Cardinality(net \cup {d}) <= Cardinality(net) + 1
  BY <1>1, <1>2
<1> QED
  BY <1>1, <1>2, <1>3, <1>4

(* A fiber of the server takes a request, or has sent its reply.           *)
LEMMA BusyChanges ==
  ASSUME spc \in [SFibers -> {"recv", "got", "send"}], IsFiniteSet(Busy), NEW s \in SFibers,
         NEW p \in {"recv", "got", "send"}, spc' = [spc EXCEPT ![s] = p]
  PROVE  /\ spc[s] = "recv" /\ p # "recv" =>
              IsFiniteSet(Busy') /\ Cardinality(Busy') = Cardinality(Busy) + 1
         /\ spc[s] # "recv" /\ p = "recv" =>
              IsFiniteSet(Busy') /\ Cardinality(Busy') = Cardinality(Busy) - 1
         /\ spc[s] # "recv" /\ p # "recv" => Busy' = Busy
         /\ Cardinality(Busy) \in Nat
<1>1. spc'[s] = p /\ \A t \in SFibers \ {s} : spc'[t] = spc[t]
  OBVIOUS
<1>2. spc[s] = "recv" /\ p # "recv" => Busy' = Busy \cup {s} /\ s \notin Busy
  BY <1>1 DEF Busy
<1>3. spc[s] # "recv" /\ p = "recv" => Busy' = Busy \ {s} /\ s \in Busy
  BY <1>1 DEF Busy
<1>4. spc[s] # "recv" /\ p # "recv" => Busy' = Busy
  BY <1>1 DEF Busy
<1>5. /\ IsFiniteSet(Busy \cup {s}) /\ IsFiniteSet(Busy \ {s}) /\ Cardinality(Busy) \in Nat
      /\ Cardinality(Busy \cup {s}) = IF s \in Busy THEN Cardinality(Busy) ELSE Cardinality(Busy) + 1
      /\ Cardinality(Busy \ {s}) = IF s \in Busy THEN Cardinality(Busy) - 1 ELSE Cardinality(Busy)
  BY FS_AddElement, FS_RemoveElement, FS_CardinalityType
<1> QED
  BY <1>2, <1>3, <1>4, <1>5

(* The numbers that are compared.                                          *)
LEMMA CoveredNumbers ==
  ASSUME TypeOK, IsFiniteSet(net), IsFiniteSet(Busy)
  PROVE  /\ Cardinality(net) \in Nat /\ Cardinality(Busy) \in Nat
         /\ Len(inbox[Server]) \in Nat /\ Len(inbox[Socket]) \in Nat
         /\ Cardinality(Waiting) \in Nat /\ failures \in Nat
         /\ NobodysReply <=> Cardinality(net) + Cardinality(Busy) + Len(inbox[Server])
                               + Len(inbox[Socket]) <= Cardinality(Waiting) + failures
<1>1. Cardinality(net) \in Nat /\ Cardinality(Busy) \in Nat
  BY FS_CardinalityType
<1>2. Cardinality(Waiting) \in Nat /\ failures \in Nat
  BY WaitingFinite DEF TypeOK
<1>3. Len(inbox[Server]) \in Nat /\ Len(inbox[Socket]) \in Nat
  <2>1. Server \in Addresses /\ Socket \in Addresses
    BY CliAssumption DEF Addresses
  <2>2. inbox[Server] \in Seq(Datagram) /\ inbox[Socket] \in Seq(Datagram)
    BY <2>1 DEF TypeOK, NetTypeOK
  <2> QED
    BY <2>2, LenProperties
<1>4. NobodysReply <=> Cardinality(net) + Cardinality(Busy) + Len(inbox[Server])
                         + Len(inbox[Socket]) <= Cardinality(Waiting) + failures
  BY DEF NobodysReply, InFlight, Busy
<1> QED
  BY <1>1, <1>2, <1>3, <1>4

(* No step puts more on its way than it makes fibers wait for (cli.cc:     *)
(* 87-93, srv2.cc:115-128), unless the network duplicates or the server    *)
(* replies to a request it has not received.                               *)
LEMMA CoveredStep ==
  ASSUME ~MayDuplicate, ~ServerMayFail, IInv, IInv', Covered, Next
  PROVE  Covered'
<1>1. /\ TypeOK /\ NetTypeOK /\ ServerTypeOK /\ IsFiniteSet(net) /\ IsFiniteSet(Busy)
      /\ NobodysReply
  BY DEF IInv, TypeOK, Covered
<1>2. TypeOK'
  BY DEF IInv
<1>3. Server \in Addresses /\ Socket \in Addresses /\ Server # Socket /\ Addresses = {Server, Socket}
  BY CliAssumption, DatagramsAssumption DEF Addresses
<1>4. spc \in [SFibers -> {"recv", "got", "send"}] /\ tpc \in [Threads -> {"send", "recv", "joined"}]
  BY DEF IInv, TypeOK, ServerTypeOK
<1> DEFINE a == Cardinality(net)         a1 == Cardinality(net')
           b == Cardinality(Busy)        b1 == Cardinality(Busy')
           c == Len(inbox[Server])       c1 == Len(inbox'[Server])
           d == Len(inbox[Socket])       d1 == Len(inbox'[Socket])
           w == Cardinality(Waiting)     w1 == Cardinality(Waiting')
<1>5. /\ a \in Nat /\ b \in Nat /\ c \in Nat /\ d \in Nat /\ w \in Nat /\ failures \in Nat
      /\ a + b + c + d <= w + failures
  BY <1>1, CoveredNumbers
<1>6. ASSUME IsFiniteSet(net'), IsFiniteSet(Busy'),
             a1 + b1 + c1 + d1 <= w1 + failures'
      PROVE  Covered'
  BY <1>6 DEF Covered, NobodysReply, InFlight, Busy
<1>7. ASSUME IsFiniteSet(net'), IsFiniteSet(Busy')
      PROVE  /\ a1 \in Nat /\ b1 \in Nat /\ c1 \in Nat /\ d1 \in Nat /\ w1 \in Nat /\ failures' \in Nat
  <2>1. a1 \in Nat /\ b1 \in Nat
    BY <1>7, FS_CardinalityType
  <2>2. w1 \in Nat /\ failures' \in Nat
    <3>1. IsFiniteSet(Waiting')
      BY CliAssumption, FS_Subset DEF Waiting
    <3> QED
      BY <1>2, <3>1, FS_CardinalityType DEF TypeOK
  <2>3. c1 \in Nat /\ d1 \in Nat
    <3>1. inbox'[Server] \in Seq(Datagram) /\ inbox'[Socket] \in Seq(Datagram)
      BY <1>2, <1>3 DEF TypeOK, NetTypeOK
    <3> QED
      BY <3>1, LenProperties
  <2> QED
    BY <2>1, <2>2, <2>3
<1>8. ASSUME IsFiniteSet(net'), IsFiniteSet(Busy'),
             \/ a1 <= a + 1 /\ b1 = b /\ c1 = c /\ d1 = d /\ w1 = w + 1 /\ failures' = failures
             \/ a1 = a /\ b1 = b /\ c1 = c /\ d1 = d - 1 /\ w1 = w - 1 /\ failures' = failures
             \/ a1 = a /\ b1 = b /\ c1 = c /\ d1 = d /\ w1 = w - 1 /\ failures' = failures + 1
             \/ a1 = a /\ b1 = b + 1 /\ c1 = c - 1 /\ d1 = d /\ w1 = w /\ failures' = failures
             \/ a1 <= a + 1 /\ b1 = b - 1 /\ c1 = c /\ d1 = d /\ w1 = w /\ failures' = failures
             \/ a1 = a - 1 /\ b1 = b /\ c1 <= c + 1 /\ d1 = d /\ w1 = w /\ failures' = failures
             \/ a1 = a - 1 /\ b1 = b /\ c1 = c /\ d1 <= d + 1 /\ w1 = w /\ failures' = failures
      PROVE  Covered'
  <2>1. /\ a1 \in Nat /\ b1 \in Nat /\ c1 \in Nat /\ d1 \in Nat /\ w1 \in Nat /\ failures' \in Nat
    BY <1>7, <1>8
  <2> HIDE DEF a, b, c, d, w, a1, b1, c1, d1, w1
  <2>2. a1 + b1 + c1 + d1 <= w1 + failures'
    <3> PICK f \in Nat, f1 \in Nat : f = failures /\ f1 = failures'
      BY <1>5, <2>1
    <3>1. a + b + c + d <= w + f
      BY <1>5
    <3>2. \/ a1 <= a + 1 /\ b1 = b /\ c1 = c /\ d1 = d /\ w1 = w + 1 /\ f1 = f
          \/ a1 = a /\ b1 = b /\ c1 = c /\ d1 = d - 1 /\ w1 = w - 1 /\ f1 = f
          \/ a1 = a /\ b1 = b /\ c1 = c /\ d1 = d /\ w1 = w - 1 /\ f1 = f + 1
          \/ a1 = a /\ b1 = b + 1 /\ c1 = c - 1 /\ d1 = d /\ w1 = w /\ f1 = f
          \/ a1 <= a + 1 /\ b1 = b - 1 /\ c1 = c /\ d1 = d /\ w1 = w /\ f1 = f
          \/ a1 = a - 1 /\ b1 = b /\ c1 <= c + 1 /\ d1 = d /\ w1 = w /\ f1 = f
          \/ a1 = a - 1 /\ b1 = b /\ c1 = c /\ d1 <= d + 1 /\ w1 = w /\ f1 = f
      BY <1>8
    <3>0. /\ a \in Nat /\ b \in Nat /\ c \in Nat /\ d \in Nat /\ w \in Nat
          /\ a1 \in Nat /\ b1 \in Nat /\ c1 \in Nat /\ d1 \in Nat /\ w1 \in Nat
      BY <1>5, <2>1
    <3>3. a1 + b1 + c1 + d1 <= w1 + f1
      <4>1. CASE a1 <= a + 1 /\ b1 = b /\ c1 = c /\ d1 = d /\ w1 = w + 1 /\ f1 = f
        BY <3>0, <3>1, <4>1
      <4>2. CASE a1 = a /\ b1 = b /\ c1 = c /\ d1 = d - 1 /\ w1 = w - 1 /\ f1 = f
        BY <3>0, <3>1, <4>2
      <4>3. CASE a1 = a /\ b1 = b /\ c1 = c /\ d1 = d /\ w1 = w - 1 /\ f1 = f + 1
        BY <3>0, <3>1, <4>3
      <4>4. CASE a1 = a /\ b1 = b + 1 /\ c1 = c - 1 /\ d1 = d /\ w1 = w /\ f1 = f
        BY <3>0, <3>1, <4>4
      <4>5. CASE a1 <= a + 1 /\ b1 = b - 1 /\ c1 = c /\ d1 = d /\ w1 = w /\ f1 = f
        BY <3>0, <3>1, <4>5
      <4>6. CASE a1 = a - 1 /\ b1 = b /\ c1 <= c + 1 /\ d1 = d /\ w1 = w /\ f1 = f
        BY <3>0, <3>1, <4>6
      <4>7. CASE a1 = a - 1 /\ b1 = b /\ c1 = c /\ d1 <= d + 1 /\ w1 = w /\ f1 = f
        BY <3>0, <3>1, <4>7
      <4> QED
        BY <3>2, <4>1, <4>2, <4>3, <4>4, <4>5, <4>6, <4>7
    <3> QED
      BY <3>3
  <2> QED
    BY <1>6, <1>8, <2>2
<1>9. ASSUME UNCHANGED <<net, inbox, failures>>, Busy' = Busy, Waiting' = Waiting
      PROVE  Covered'
  BY <1>1, <1>9 DEF Covered, NobodysReply, InFlight, Busy
<1>10. CASE Open \/ OpenFails \/ Summarise \/ ServerStarts
  <2>1. UNCHANGED <<net, inbox, spc, tpc, failures>>
    BY <1>10 DEF Open, OpenFails, Summarise, ServerStarts, ServerOpens, ServerOpen, ServerOpenFails,
       netVars, serverVars, cliVars
  <2>2. Busy' = Busy /\ Waiting' = Waiting
    BY <2>1 DEF Busy, Waiting
  <2> QED
    BY <1>9, <2>1, <2>2
<1>11. ASSUME NEW t \in Threads, CliStep(t) PROVE Covered'
  <2>1. UNCHANGED spc
    BY <1>11 DEF CliStep, Send, SendFails, Receive, ReceiveFails, StopThread, Record, serverVars
  <2>2. Busy' = Busy
    BY <2>1 DEF Busy
  <2>3. CASE Send(t)
    <3> PICK m : m = [to |-> Server, from |-> Socket, body |-> <<Socket>>, seq |-> requests]
      OBVIOUS
    <3>1. /\ net' = net \cup {m} /\ tpc[t] = "send" /\ tpc' = [tpc EXCEPT ![t] = "recv"]
          /\ UNCHANGED <<inbox, failures>>
      BY <2>3 DEF Send, At, Transmit
    <3>2. IsFiniteSet(net') /\ a1 <= a + 1
      BY <1>1, <3>1, NetCounts
    <3>3. w1 = w + 1
      BY <1>4, <3>1, WaitingChanges
    <3>4. IsFiniteSet(Busy') /\ b1 = b /\ c1 = c /\ d1 = d
      BY <1>1, <2>2, <3>1
    <3> HIDE DEF a, b, c, d, w, a1, b1, c1, d1, w1
    <3> QED
      BY <1>8, <3>1, <3>2, <3>3, <3>4
  <2>4. CASE Receive(t)
    <3>1. /\ TakeFrom(Socket) /\ tpc[t] = "recv" /\ tpc' = [tpc EXCEPT ![t] = "send"]
          /\ UNCHANGED <<net, failures>>
      BY <2>4 DEF Receive, Record, At
    <3>2. c1 = c /\ d1 = d - 1
      BY <1>1, <1>3, <3>1, TakenLength
    <3>3. w1 = w - 1
      BY <1>4, <3>1, WaitingChanges
    <3>4. IsFiniteSet(Busy') /\ IsFiniteSet(net') /\ b1 = b /\ a1 = a
      BY <1>1, <2>2, <3>1
    <3> HIDE DEF a, b, c, d, w, a1, b1, c1, d1, w1
    <3> QED
      BY <1>8, <3>1, <3>2, <3>3, <3>4
  <2>5. CASE ReceiveFails(t)
    <3>1. /\ tpc[t] = "recv" /\ tpc' = [tpc EXCEPT ![t] = "send"]
          /\ UNCHANGED <<net, inbox>> /\ failures' = failures + 1
      BY <2>5 DEF ReceiveFails, Record, At, netVars
    <3>2. w1 = w - 1
      BY <1>4, <3>1, WaitingChanges
    <3>3. IsFiniteSet(Busy') /\ IsFiniteSet(net') /\ b1 = b /\ a1 = a /\ c1 = c /\ d1 = d
      BY <1>1, <2>2, <3>1
    <3> HIDE DEF a, b, c, d, w, a1, b1, c1, d1, w1
    <3> QED
      BY <1>8, <3>1, <3>2, <3>3
  <2>6. CASE SendFails(t)
    <3>1. UNCHANGED <<net, inbox, failures, tpc>>
      BY <2>6 DEF SendFails, netVars
    <3>2. Waiting' = Waiting
      BY <3>1 DEF Waiting
    <3> QED
      BY <1>9, <2>2, <3>1, <3>2
  <2>7. CASE StopThread(t)
    <3>1. /\ UNCHANGED <<net, inbox, failures>> /\ tpc[t] = "send"
          /\ tpc' = [tpc EXCEPT ![t] = "joined"]
      BY <2>7 DEF StopThread, netVars, At
    <3>2. Waiting' = Waiting
      BY <1>4, <3>1, WaitingChanges
    <3> QED
      BY <1>9, <2>2, <3>1, <3>2
  <2> QED
    BY <1>11, <2>3, <2>4, <2>5, <2>6, <2>7 DEF CliStep
<1>12. ASSUME NEW s \in SFibers, ServerSteps(s) PROVE Covered'
  <2>1. ServerStep(s) /\ UNCHANGED <<tpc, failures>>
    BY <1>12 DEF ServerSteps, cliVars
  <2>2. Waiting' = Waiting
    BY <2>1 DEF Waiting
  <2>3. CASE ServerReceive(s)
    <3>1. /\ TakeFrom(Server) /\ UNCHANGED net /\ spc[s] = "recv" /\ spc' = [spc EXCEPT ![s] = "got"]
      BY <2>3 DEF ServerReceive
    <3>2. c1 = c - 1 /\ d1 = d
      BY <1>1, <1>3, <3>1, TakenLength
    <3>3. IsFiniteSet(Busy') /\ b1 = b + 1
      BY <1>1, <1>4, <3>1, BusyChanges
    <3>4. IsFiniteSet(net') /\ a1 = a /\ w1 = w
      BY <1>1, <2>2, <3>1
    <3> HIDE DEF a, b, c, d, w, a1, b1, c1, d1, w1
    <3> QED
      BY <1>8, <2>1, <3>1, <3>2, <3>3, <3>4
  <2>4. CASE ServerDouble(s)
    <3>1. /\ UNCHANGED <<net, inbox>> /\ spc[s] = "got"
          /\ spc' = spc \/ spc' = [spc EXCEPT ![s] = "send"]
      BY <2>4 DEF ServerDouble, netVars
    <3>2. Busy' = Busy
      <4>1. CASE spc' = spc
        BY <4>1 DEF Busy
      <4>2. CASE spc' = [spc EXCEPT ![s] = "send"]
        BY <1>1, <1>4, <3>1, <4>2, BusyChanges
      <4> QED
        BY <3>1, <4>1, <4>2
    <3> QED
      BY <1>9, <2>1, <2>2, <3>1, <3>2
  <2>5. CASE ServerSend(s)
    <3>1. PICK m : net' = net \cup {m}
      BY <2>5 DEF ServerSend, Transmit
    <3>2. UNCHANGED inbox /\ spc[s] = "send" /\ spc' = [spc EXCEPT ![s] = "recv"]
      BY <2>5 DEF ServerSend
    <3>3. IsFiniteSet(net') /\ a1 <= a + 1
      BY <1>1, <3>1, NetCounts
    <3>4. IsFiniteSet(Busy') /\ b1 = b - 1
      BY <1>1, <1>4, <3>2, BusyChanges
    <3>5. c1 = c /\ d1 = d /\ w1 = w
      BY <2>2, <3>2
    <3> HIDE DEF a, b, c, d, w, a1, b1, c1, d1, w1
    <3> QED
      BY <1>8, <2>1, <3>3, <3>4, <3>5
  <2> QED
    BY <2>1, <2>3, <2>4, <2>5 DEF ServerStep, ServerReceiveFails, ServerSendFails
<1>13. CASE Network
  <2>1. UNCHANGED <<tpc, failures, spc>>
    BY <1>13 DEF Network, cliVars, serverVars
  <2>2. Waiting' = Waiting /\ Busy' = Busy
    BY <2>1 DEF Waiting, Busy
  <2>3. PICK m \in net : /\ net' = net \ {m}
                         /\ UNCHANGED inbox \/ inbox' = [inbox EXCEPT ![m.to] = Append(@, m)]
    BY <1>13 DEF Network, NetStep, Deliver, DeliverCopy, Lose, Arrive
  <2>4. IsFiniteSet(net') /\ a1 = a - 1
    BY <1>1, <2>3, NetCounts
  <2>5. IsFiniteSet(Busy') /\ b1 = b /\ w1 = w
    BY <1>1, <2>2
  <2>6. \/ c1 <= c + 1 /\ d1 = d
        \/ c1 = c /\ d1 <= d + 1
    <3>1. CASE UNCHANGED inbox
      <4>1. c1 = c /\ d1 = d
        BY <3>1
      <4> HIDE DEF c, d, c1, d1
      <4> QED
        BY <1>5, <4>1
    <3>2. CASE inbox' = [inbox EXCEPT ![m.to] = Append(@, m)]
      <4>1. m \in Datagram /\ m.to \in Addresses /\ inbox[m.to] \in Seq(Datagram)
        BY <1>1 DEF NetTypeOK, Datagram
      <4>2. Len(Append(inbox[m.to], m)) = Len(inbox[m.to]) + 1
        BY <4>1, AppendProperties
      <4>3. /\ inbox'[m.to] = Append(inbox[m.to], m)
            /\ \A x \in Addresses \ {m.to} : inbox'[x] = inbox[x]
        BY <1>1, <3>2, <4>1 DEF NetTypeOK
      <4>4. CASE m.to = Server
        <5>1. c1 = c + 1 /\ d1 = d
          BY <1>3, <4>2, <4>3, <4>4
        <5> HIDE DEF c, d, c1, d1
        <5> QED
          BY <1>5, <5>1
      <4>5. CASE m.to = Socket
        <5>1. c1 = c /\ d1 = d + 1
          BY <1>3, <4>2, <4>3, <4>5
        <5> HIDE DEF c, d, c1, d1
        <5> QED
          BY <1>5, <5>1
      <4> QED
        BY <1>3, <4>1, <4>4, <4>5
    <3> QED
      BY <2>3, <3>1, <3>2
  <2> HIDE DEF a, b, c, d, w, a1, b1, c1, d1, w1
  <2> QED
    BY <1>8, <2>1, <2>4, <2>5, <2>6
<1> QED
  BY <1>10, <1>11, <1>12, <1>13 DEF Next

(* There are never more replies on their way than fibers that wait for     *)
(* one, but for the receives that failed (cli.cc:87-93), if the network    *)
(* does not duplicate and no system call of the server fails.              *)
THEOREM RepliesAwaited ==
  ASSUME ~MayDuplicate, ~ServerMayFail
  PROVE  Spec => []NobodysReply
<1>1. Init => Covered
  <2> SUFFICES ASSUME Init PROVE Covered
    OBVIOUS
  <2>1. /\ net = {} /\ Busy = {} /\ inbox[Server] = <<>> /\ inbox[Socket] = <<>>
        /\ Waiting = {} /\ failures = 0
    BY CliAssumption DEF Init, NetInit, ServerInit, Busy, Waiting, Addresses
  <2>2. Len(inbox[Server]) = 0 /\ Len(inbox[Socket]) = 0
    BY <2>1, EmptySeq
  <2>3. Cardinality(net) = 0 /\ Cardinality(Busy) = 0 /\ Cardinality(Waiting) = 0
    BY <2>1, FS_EmptySet
  <2>4. NobodysReply
    BY <2>1, <2>2, <2>3 DEF NobodysReply, InFlight, Busy
  <2> QED
    BY <2>1, <2>4, FS_EmptySet DEF Covered
<1>2. IInv /\ IInv' /\ Covered /\ [Next]_vars => Covered'
  <2>1. ASSUME IInv, IInv', Covered, Next PROVE Covered'
    BY <2>1, CoveredStep
  <2>2. ASSUME Covered, UNCHANGED vars PROVE Covered'
    BY <2>2 DEF vars, Covered, Busy, NobodysReply, InFlight, Waiting
  <2> QED
    BY <2>1, <2>2
<1>3. Covered => NobodysReply
  BY DEF Covered
<1> QED
  BY <1>1, <1>2, <1>3, Inductive, PTL DEF Spec

=============================================================================
