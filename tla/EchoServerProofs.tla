-------------------------- MODULE EchoServerProofs --------------------------
(***************************************************************************)
(* What the UDP echo server and the network keep, whoever the clients are: *)
(* the types, that what is on its way is genuine, and that it belongs to a *)
(* request that was sent.                                                  *)
(***************************************************************************)
EXTENDS EchoServer, SequenceTheorems, FiniteSetTheorems, FunctionTheorems, TLAPS

(* A datagram to the server carries its sender's payload, one to a client  *)
(* that client's payload twice, and a fiber of the server holds, with a    *)
(* peer's message, that peer's payload; only a failed recvmsg leaves an    *)
(* address without a message.                                              *)
GenuineDatagram(d) ==
  \/ d.body = <<>>
  \/ d.to = Server /\ d.from \in Clients /\ d.body = <<d.from>>
  \/ d.to \in Clients /\ d.body = <<d.to, d.to>>

GenuineMessage(s) ==
  /\ smsg[s].len \in {0, 1}
  /\ spc[s] # "recv" /\ smsg[s].len = 1 =>
       /\ smsg[s].peer \in Clients
       /\ Len(sbuf[s]) >= 1 /\ sbuf[s][1] = smsg[s].peer
       /\ spc[s] = "send" => Len(sbuf[s]) >= 2 /\ sbuf[s][2] = smsg[s].peer

GenuineNet ==
  /\ \A d \in net : GenuineDatagram(d)
  /\ \A a \in Addresses : \A i \in 1 .. Len(inbox[a]) :
       inbox[a][i].to = a /\ GenuineDatagram(inbox[a][i])

Genuine == GenuineNet /\ \A s \in SFibers : GenuineMessage(s)

-----------------------------------------------------------------------------
(* Buffers.                                                                *)

(* Copying into a buffer leaves what is copied at its beginning            *)
(* (srv2.cc:119-122).                                                      *)
LEMMA OverwriteFacts ==
  ASSUME NEW S, NEW buf \in Seq(S), NEW body \in Seq(S)
  PROVE  /\ Overwrite(buf, body) \in Seq(S)
         /\ Len(Overwrite(buf, body)) >= Len(body)
         /\ \A i \in 1 .. Len(body) : Overwrite(buf, body)[i] = body[i]
<1> DEFINE rest == SubSeq(buf, Len(body) + 1, Len(buf))
<1>1. Len(buf) \in Nat /\ Len(body) \in Nat
  BY LenProperties
<1>2. \A i \in Len(body) + 1 .. Len(buf) : buf[i] \in S
  BY <1>1, ElementOfSeq
<1>3. rest \in Seq(S)
  BY <1>1, <1>2, SubSeqProperties
<1>4. Len(rest) \in Nat
  BY <1>3, LenProperties
<1> HIDE DEF rest
<1>5. /\ body \o rest \in Seq(S)
      /\ Len(body \o rest) = Len(body) + Len(rest)
      /\ \A i \in 1 .. Len(body) + Len(rest) :
           (body \o rest)[i] = IF i <= Len(body) THEN body[i] ELSE rest[i - Len(body)]
  BY <1>3, ConcatProperties
<1>6. Overwrite(buf, body) = body \o rest
  BY DEF Overwrite, rest
<1> QED
  BY <1>1, <1>4, <1>5, <1>6

(* The beginning of a buffer that is long enough.                          *)
LEMMA PrefixFacts ==
  ASSUME NEW S, NEW buf \in Seq(S), NEW n \in Nat, n <= Len(buf)
  PROVE  /\ SubSeq(buf, 1, n) \in Seq(S)
         /\ Len(SubSeq(buf, 1, n)) = n
         /\ \A i \in 1 .. n : SubSeq(buf, 1, n)[i] = buf[i]
<1>1. Len(buf) \in Nat
  BY LenProperties
<1>2. \A i \in 1 .. n : buf[i] \in S
  BY <1>1, ElementOfSeq
<1>3. /\ SubSeq(buf, 1, n) \in Seq(S)
      /\ Len(SubSeq(buf, 1, n)) = IF 1 <= n THEN n - 1 + 1 ELSE 0
      /\ \A i \in 1 .. n - 1 + 1 : SubSeq(buf, 1, n)[i] = buf[1 + i - 1]
  BY <1>2, SubSeqProperties
<1> QED
  BY <1>3

(* A sequence of two known elements.                                       *)
LEMMA TwoElements ==
  ASSUME NEW S, NEW q \in Seq(S), Len(q) = 2
  PROVE  q = <<q[1], q[2]>>
<1>1. q \in [1 .. 2 -> S] /\ DOMAIN q = 1 .. 2
  BY LenProperties
<1> QED
  BY <1>1

-----------------------------------------------------------------------------
(* The network.                                                            *)

(* A datagram that is sent goes on its way unchanged.                      *)
LEMMA TransmitKeeps ==
  ASSUME NetTypeOK, GenuineNet, NEW d \in Datagram, GenuineDatagram(d),
         Transmit(d), UNCHANGED <<inbox, bound>>
  PROVE  NetTypeOK' /\ GenuineNet'
<1>1. net' = net \cup {d} /\ inbox' = inbox /\ bound' = bound
  BY DEF Transmit
<1> QED
  BY <1>1 DEF NetTypeOK, GenuineNet

(* Taking the oldest datagram leaves the others.                           *)
LEMMA TakeKeeps ==
  ASSUME NetTypeOK, GenuineNet, NEW a \in Addresses, TakeFrom(a), UNCHANGED <<net, bound>>
  PROVE  /\ NetTypeOK' /\ GenuineNet'
         /\ Head(inbox[a]) \in Datagram /\ Head(inbox[a]).to = a
         /\ GenuineDatagram(Head(inbox[a]))
<1>1. inbox[a] \in Seq(Datagram) /\ inbox[a] # <<>>
  BY DEF NetTypeOK, TakeFrom
<1>2. Len(inbox[a]) \in Nat \ {0}
  BY <1>1, EmptySeq
<1>3. /\ Tail(inbox[a]) \in Seq(Datagram)
      /\ Len(Tail(inbox[a])) = Len(inbox[a]) - 1
      /\ \A i \in 1 .. Len(Tail(inbox[a])) : Tail(inbox[a])[i] = inbox[a][i + 1]
  BY <1>1, HeadTailProperties
<1>4. Head(inbox[a]) = inbox[a][1] /\ Head(inbox[a]) \in Datagram
  BY <1>1, HeadTailProperties
<1>5. inbox' = [inbox EXCEPT ![a] = Tail(@)]
  BY DEF TakeFrom
<1>6. NetTypeOK'
  BY <1>3, <1>5 DEF NetTypeOK
<1>7. ASSUME NEW b \in Addresses, NEW i \in 1 .. Len(inbox'[b])
      PROVE  inbox'[b][i].to = b /\ GenuineDatagram(inbox'[b][i])
  <2>1. CASE b = a
    <3>1. inbox'[b] = Tail(inbox[a])
      BY <1>5, <2>1 DEF NetTypeOK
    <3>2. i \in 1 .. Len(Tail(inbox[a])) /\ i + 1 \in 1 .. Len(inbox[a])
      BY <1>2, <1>3, <1>7, <3>1
    <3>3. inbox'[b][i] = inbox[a][i + 1]
      BY <1>3, <3>1, <3>2
    <3> QED
      BY <2>1, <3>2, <3>3 DEF GenuineNet
  <2>2. CASE b # a
    BY <1>5, <1>7, <2>2 DEF GenuineNet, NetTypeOK
  <2> QED
    BY <2>1, <2>2
<1>8. GenuineNet'
  BY <1>7 DEF GenuineNet
<1>9. 1 \in 1 .. Len(inbox[a])
  BY <1>2
<1> QED
  BY <1>4, <1>6, <1>8, <1>9 DEF GenuineNet

(* Opening a socket changes no datagram.                                   *)
LEMMA BindKeeps ==
  ASSUME NetTypeOK, GenuineNet, NEW a \in Addresses, Bind(a), UNCHANGED <<net, inbox>>
  PROVE  NetTypeOK' /\ GenuineNet'
BY DEF Bind, NetTypeOK, GenuineNet

(* Closing one drops what nobody has received from it.                     *)
LEMMA CloseKeeps ==
  ASSUME NetTypeOK, GenuineNet, NEW a \in Addresses, Close(a), UNCHANGED net
  PROVE  NetTypeOK' /\ GenuineNet'
<1>1. /\ inbox' = [inbox EXCEPT ![a] = <<>>] /\ net' = net
      /\ bound' \in SUBSET Addresses
  BY DEF Close, NetTypeOK
<1>2. NetTypeOK'
  BY <1>1, EmptySeq DEF NetTypeOK
<1>3. ASSUME NEW b \in Addresses, NEW i \in 1 .. Len(inbox'[b])
      PROVE  inbox'[b][i].to = b /\ GenuineDatagram(inbox'[b][i])
  <2>1. CASE b = a
    <3>1. inbox'[b] = <<>>
      BY <1>1, <2>1 DEF NetTypeOK
    <3>2. Len(inbox'[b]) = 0
      BY <3>1, EmptySeq
    <3> QED
      BY <1>3, <3>2
  <2>2. CASE b # a
    BY <1>1, <1>3, <2>2 DEF GenuineNet, NetTypeOK
  <2> QED
    BY <2>1, <2>2
<1> QED
  BY <1>1, <1>2, <1>3 DEF GenuineNet

(* Whatever the network does, it makes nothing up.                         *)
LEMMA NetStepKeeps ==
  ASSUME NetTypeOK, GenuineNet, NetStep
  PROVE  NetTypeOK' /\ GenuineNet'
<1>1. PICK d \in net : Deliver(d) \/ DeliverCopy(d) \/ Lose(d)
  BY DEF NetStep
<1>2. d \in Datagram /\ d.to \in Addresses /\ GenuineDatagram(d)
  BY DEF NetTypeOK, GenuineNet, Datagram
<1>3. net' \in SUBSET net
  BY <1>1 DEF Deliver, DeliverCopy, Lose
<1>0. UNCHANGED bound
  BY <1>1 DEF Deliver, DeliverCopy, Lose, Arrive
<1>4. CASE UNCHANGED inbox
  BY <1>0, <1>3, <1>4 DEF NetTypeOK, GenuineNet
<1>5. CASE inbox' = [inbox EXCEPT ![d.to] = Append(@, d)]
  <2>1. inbox[d.to] \in Seq(Datagram) /\ Len(inbox[d.to]) \in Nat
    BY <1>2, LenProperties DEF NetTypeOK
  <2>2. /\ Append(inbox[d.to], d) \in Seq(Datagram)
        /\ Len(Append(inbox[d.to], d)) = Len(inbox[d.to]) + 1
        /\ \A i \in 1 .. Len(inbox[d.to]) : Append(inbox[d.to], d)[i] = inbox[d.to][i]
        /\ Append(inbox[d.to], d)[Len(inbox[d.to]) + 1] = d
    BY <1>2, <2>1, AppendProperties
  <2>3. NetTypeOK'
    BY <1>0, <1>3, <1>5, <2>2 DEF NetTypeOK
  <2>4. ASSUME NEW b \in Addresses, NEW i \in 1 .. Len(inbox'[b])
        PROVE  inbox'[b][i].to = b /\ GenuineDatagram(inbox'[b][i])
    <3>1. CASE b = d.to
      <4>1. inbox'[b] = Append(inbox[d.to], d)
        BY <1>5, <3>1 DEF NetTypeOK
      <4>2. i \in 1 .. Len(inbox[d.to]) \/ i = Len(inbox[d.to]) + 1
        BY <2>1, <2>2, <2>4, <4>1
      <4>3. CASE i \in 1 .. Len(inbox[d.to])
        BY <2>2, <3>1, <4>1, <4>3 DEF GenuineNet
      <4>4. CASE i = Len(inbox[d.to]) + 1
        BY <1>2, <2>2, <3>1, <4>1, <4>4
      <4> QED
        BY <4>2, <4>3, <4>4
    <3>2. CASE b # d.to
      BY <1>5, <2>4, <3>2 DEF GenuineNet, NetTypeOK
    <3> QED
      BY <3>1, <3>2
  <2> QED
    BY <1>3, <2>3, <2>4 DEF GenuineNet
<1> QED
  BY <1>1, <1>4, <1>5 DEF Deliver, DeliverCopy, Lose, Arrive

-----------------------------------------------------------------------------
(* The server (srv2.cc:115-128).                                           *)

(* A step of one fiber leaves the messages of the others alone.            *)
LEMMA OthersGenuine ==
  ASSUME ServerTypeOK, \A t \in SFibers : GenuineMessage(t), NEW s \in SFibers,
         \A t \in SFibers \ {s} : spc'[t] = spc[t] /\ sbuf'[t] = sbuf[t] /\ smsg'[t] = smsg[t],
         GenuineMessage(s)'
  PROVE  (\A t \in SFibers : GenuineMessage(t))'
BY DEF GenuineMessage

(* Receiving stores the payload of the peer the message came from.         *)
LEMMA ServerReceiveKeeps ==
  ASSUME NetTypeOK, ServerTypeOK, Genuine, NEW s \in SFibers, ServerReceive(s)
  PROVE  NetTypeOK' /\ ServerTypeOK' /\ Genuine'
<1> PICK d : d = Head(inbox[Server])
  OBVIOUS
<1>0. Server \in Addresses /\ Server \notin Clients
  BY DatagramsAssumption DEF Addresses
<1>1. /\ NetTypeOK' /\ GenuineNet'
      /\ d \in Datagram /\ d.to = Server /\ GenuineDatagram(d)
  BY <1>0, TakeKeeps DEF ServerReceive, Genuine
<1>2. /\ d.from \in Addresses /\ d.seq \in Nat /\ d.body \in Seq(Clients)
      /\ d.body = <<>> \/ (d.from \in Clients /\ d.body = <<d.from>>)
  <2>1. d.from \in Addresses /\ d.seq \in Nat /\ d.body \in Seq(Clients)
    BY <1>1 DEF Datagram
  <2>2. d.body = <<>> \/ (d.from \in Clients /\ d.body = <<d.from>>)
    BY <1>0, <1>1 DEF GenuineDatagram
  <2> QED
    BY <2>1, <2>2
<1>3. Len(d.body) \in {0, 1} /\ (Len(d.body) = 1 => d.from \in Clients /\ d.body[1] = d.from)
  <2>1. CASE d.body = <<>>
    <3>1. Len(d.body) = 0
      BY <2>1, EmptySeq
    <3> QED
      BY <3>1
  <2>2. CASE d.from \in Clients /\ d.body = <<d.from>>
    <3>1. Len(<<d.from>>) = 1 /\ <<d.from>>[1] = d.from
      OBVIOUS
    <3> QED
      BY <2>2, <3>1
  <2> QED
    BY <1>2, <2>1, <2>2
<1>4. /\ sbuf' = [sbuf EXCEPT ![s] = Overwrite(@, d.body)]
      /\ smsg' = [smsg EXCEPT ![s] = [len |-> Len(d.body), peer |-> d.from, seq |-> d.seq]]
      /\ spc' = [spc EXCEPT ![s] = "got"] /\ server' = server
  BY DEF ServerReceive, BufOf
<1>5. sbuf[s] \in Seq(Clients)
  BY DEF ServerTypeOK
<1>6. /\ Overwrite(sbuf[s], d.body) \in Seq(Clients)
      /\ Len(Overwrite(sbuf[s], d.body)) >= Len(d.body)
      /\ \A i \in 1 .. Len(d.body) : Overwrite(sbuf[s], d.body)[i] = d.body[i]
  BY <1>2, <1>5, OverwriteFacts
<1>7. /\ spc'[s] = "got" /\ sbuf'[s] = Overwrite(sbuf[s], d.body)
      /\ smsg'[s].len = Len(d.body) /\ smsg'[s].peer = d.from
  BY <1>4 DEF ServerTypeOK
<1>8. ServerTypeOK'
  BY <1>2, <1>3, <1>4, <1>6 DEF ServerTypeOK
<1>9. GenuineMessage(s)'
  BY <1>3, <1>6, <1>7 DEF GenuineMessage
<1>10. (\A t \in SFibers : GenuineMessage(t))'
  BY <1>4, <1>9, OthersGenuine DEF Genuine, ServerTypeOK
<1> QED
  BY <1>1, <1>8, <1>10 DEF Genuine

(* A failed receive leaves an empty message, whatever its address.         *)
LEMMA ServerReceiveFailsKeeps ==
  ASSUME NetTypeOK, ServerTypeOK, Genuine, NEW s \in SFibers, ServerReceiveFails(s)
  PROVE  NetTypeOK' /\ ServerTypeOK' /\ Genuine'
<1>1. PICK a \in Addresses : smsg' = [smsg EXCEPT ![s] = [len |-> 0, peer |-> a, seq |-> 0]]
  BY DEF ServerReceiveFails
<1>2. /\ spc' = [spc EXCEPT ![s] = "got"]
      /\ UNCHANGED <<net, inbox, bound, sbuf, server>>
  BY DEF ServerReceiveFails, netVars
<1>3. NetTypeOK' /\ GenuineNet'
  BY <1>2 DEF NetTypeOK, GenuineNet, Genuine
<1>4. ServerTypeOK'
  BY <1>1, <1>2 DEF ServerTypeOK
<1>5. smsg'[s].len = 0
  BY <1>1 DEF ServerTypeOK
<1>6. GenuineMessage(s)'
  BY <1>5 DEF GenuineMessage
<1>7. (\A t \in SFibers : GenuineMessage(t))'
  BY <1>1, <1>2, <1>6, OthersGenuine DEF Genuine, ServerTypeOK
<1> QED
  BY <1>3, <1>4, <1>7 DEF Genuine

(* Doubling a message leaves its peer's payload twice in the buffer.       *)
LEMMA ServerDoubleKeeps ==
  ASSUME NetTypeOK, ServerTypeOK, Genuine, NEW s \in SFibers, ServerDouble(s)
  PROVE  NetTypeOK' /\ ServerTypeOK' /\ Genuine'
<1>1. PICK msg : msg = SubSeq(sbuf[s], 1, smsg[s].len)
  OBVIOUS
<1>2. PICK twice : twice = msg \o msg
  OBVIOUS
<1>3. PICK peer : peer = smsg[s].peer
  OBVIOUS
<1>4. /\ spc[s] = "got" /\ UNCHANGED <<net, inbox, bound, smsg>>
      /\ \/ server' = "Too long message" /\ UNCHANGED <<spc, sbuf>>
         \/ /\ sbuf' = [sbuf EXCEPT ![s] = Overwrite(@, twice)]
            /\ spc' = [spc EXCEPT ![s] = "send"]
            /\ UNCHANGED server
  BY <1>1, <1>2 DEF ServerDouble, BufOf, netVars
<1>5. NetTypeOK' /\ GenuineNet'
  BY <1>4 DEF NetTypeOK, GenuineNet, Genuine
<1>6. CASE server' = "Too long message" /\ UNCHANGED <<spc, sbuf>>
  BY <1>4, <1>5, <1>6 DEF ServerTypeOK, Genuine, GenuineMessage
<1>7. CASE /\ sbuf' = [sbuf EXCEPT ![s] = Overwrite(@, twice)]
           /\ spc' = [spc EXCEPT ![s] = "send"]
           /\ UNCHANGED server
  <2>1. /\ sbuf[s] \in Seq(Clients) /\ smsg[s].len \in {0, 1}
        /\ smsg[s].len = 1 => /\ peer \in Clients
                             /\ Len(sbuf[s]) >= 1 /\ sbuf[s][1] = peer
    BY <1>3, <1>4 DEF ServerTypeOK, Genuine, GenuineMessage
  <2>2. smsg[s].len \in Nat /\ smsg[s].len <= Len(sbuf[s])
    BY <2>1, LenProperties
  <2>3. /\ msg \in Seq(Clients) /\ Len(msg) = smsg[s].len
        /\ \A i \in 1 .. smsg[s].len : msg[i] = sbuf[s][i]
    <3> PICK k \in Nat : k = smsg[s].len /\ k <= Len(sbuf[s])
      BY <2>2
    <3> PICK b \in Seq(Clients) : b = sbuf[s]
      BY <2>1
    <3>1. msg = SubSeq(b, 1, k)
      BY <1>1
    <3> QED
      BY <3>1, PrefixFacts
  <2>4. /\ twice \in Seq(Clients)
        /\ Len(twice) = Len(msg) + Len(msg)
        /\ \A i \in 1 .. Len(msg) + Len(msg) :
             twice[i] = IF i <= Len(msg) THEN msg[i] ELSE msg[i - Len(msg)]
    BY <1>2, <2>3, ConcatProperties
  <2>5. /\ Overwrite(sbuf[s], twice) \in Seq(Clients)
        /\ Len(Overwrite(sbuf[s], twice)) >= Len(twice)
        /\ \A i \in 1 .. Len(twice) :
             Overwrite(sbuf[s], twice)[i] = twice[i]
    <3> PICK b \in Seq(Clients) : b = sbuf[s]
      BY <2>1
    <3> QED
      BY <2>4, OverwriteFacts
  <2>6. ServerTypeOK'
    BY <1>4, <1>7, <2>5 DEF ServerTypeOK
  <2>7. sbuf'[s] = Overwrite(sbuf[s], twice) /\ smsg' = smsg
    BY <1>4, <1>7 DEF ServerTypeOK
  <2>8. ASSUME smsg[s].len = 1
        PROVE  Len(sbuf'[s]) >= 2 /\ sbuf'[s][1] = peer /\ sbuf'[s][2] = peer
    <3>1. Len(msg) = 1 /\ msg[1] = peer
      BY <2>1, <2>3, <2>8
    <3>2. Len(twice) = 2 /\ twice[1] = peer /\ twice[2] = peer
      BY <2>4, <3>1
    <3>3. Len(sbuf'[s]) \in Nat
      BY <2>5, <2>7, LenProperties
    <3> QED
      BY <2>5, <2>7, <3>2, <3>3
  <2>9. GenuineMessage(s)'
    <3>1. CASE smsg[s].len = 1
      <4>1. Len(sbuf'[s]) \in Nat
        BY <2>5, <2>7, LenProperties
      <4> QED
        BY <1>3, <2>1, <2>7, <2>8, <3>1, <4>1 DEF GenuineMessage
    <3>2. CASE smsg[s].len = 0
      BY <2>7, <3>2 DEF GenuineMessage
    <3> QED
      BY <2>1, <3>1, <3>2
  <2>10. (\A t \in SFibers : GenuineMessage(t))'
    BY <1>4, <1>7, <2>9, OthersGenuine DEF Genuine, ServerTypeOK
  <2> QED
    BY <1>5, <2>6, <2>10 DEF Genuine
<1> QED
  BY <1>4, <1>6, <1>7

(* The reply of a fiber that sends.                                        *)
Reply(s) ==
  [to |-> smsg[s].peer, from |-> Server, seq |-> smsg[s].seq,
   body |-> SubSeq(sbuf[s], 1, 2 * smsg[s].len)]

(* The reply is the peer's payload twice, or nothing (srv2.cc:119-127).    *)
LEMMA ReplyFacts ==
  ASSUME ServerTypeOK, Genuine, NEW s \in SFibers, spc[s] = "send"
  PROVE  /\ Reply(s) \in Datagram /\ GenuineDatagram(Reply(s))
         /\ Reply(s).to = smsg[s].peer /\ Reply(s).seq = smsg[s].seq
         /\ smsg[s].len = 0 => Reply(s).body = <<>>
         /\ smsg[s].len = 1 => Reply(s).body # <<>> /\ Reply(s).to \in Clients
<1> PICK body : body = SubSeq(sbuf[s], 1, 2 * smsg[s].len)
  OBVIOUS
<1> PICK peer : peer = smsg[s].peer
  OBVIOUS
<1>1. Reply(s) = [to |-> peer, from |-> Server, seq |-> smsg[s].seq, body |-> body]
  BY DEF Reply
<1>2. /\ sbuf[s] \in Seq(Clients) /\ smsg[s].len \in {0, 1} /\ peer \in Addresses
      /\ smsg[s].seq \in Nat
      /\ smsg[s].len = 1 => /\ peer \in Clients
                           /\ Len(sbuf[s]) >= 2 /\ sbuf[s][1] = peer /\ sbuf[s][2] = peer
  BY DEF ServerTypeOK, Genuine, GenuineMessage
<1>3. Len(sbuf[s]) \in Nat
  BY <1>2, LenProperties
<1>4. 2 * smsg[s].len \in Nat /\ 2 * smsg[s].len <= Len(sbuf[s])
  BY <1>2, <1>3
<1>5. /\ body \in Seq(Clients) /\ Len(body) = 2 * smsg[s].len
      /\ \A i \in 1 .. 2 * smsg[s].len : body[i] = sbuf[s][i]
  <2> PICK k \in Nat : k = 2 * smsg[s].len /\ k <= Len(sbuf[s])
    BY <1>4
  <2> PICK b \in Seq(Clients) : b = sbuf[s]
    BY <1>2
  <2>1. body = SubSeq(b, 1, k)
    OBVIOUS
  <2> QED
    BY <2>1, PrefixFacts
<1>6. smsg[s].len = 0 => body = <<>>
  BY <1>5, EmptySeq
<1>7. smsg[s].len = 1 => body # <<>> /\ peer \in Clients /\ body = <<peer, peer>>
  <2> SUFFICES ASSUME smsg[s].len = 1
               PROVE  body # <<>> /\ peer \in Clients /\ body = <<peer, peer>>
    OBVIOUS
  <2>1. Len(body) = 2 /\ body[1] = peer /\ body[2] = peer /\ peer \in Clients
    BY <1>2, <1>5
  <2>2. body = <<peer, peer>>
    BY <1>5, <2>1, TwoElements
  <2>3. body # <<>>
    <3>1. body \in Seq(Clients) /\ Len(body) # 0
      BY <1>5, <2>1
    <3> QED
      BY <3>1, EmptySeq
  <2> QED
    BY <2>1, <2>2, <2>3
<1>8. Reply(s) \in Datagram
  BY <1>1, <1>2, <1>5 DEF Datagram, Addresses
<1>9. body = <<>> \/ (peer \in Clients /\ body = <<peer, peer>>)
  BY <1>2, <1>6, <1>7
<1>10. GenuineDatagram(Reply(s))
  BY <1>1, <1>9 DEF GenuineDatagram
<1> QED
  BY <1>1, <1>6, <1>7, <1>8, <1>10

(* Sending it makes nothing up.                                            *)
LEMMA ServerSendKeeps ==
  ASSUME NetTypeOK, ServerTypeOK, Genuine, NEW s \in SFibers, ServerSend(s)
  PROVE  NetTypeOK' /\ ServerTypeOK' /\ Genuine'
<1>1. /\ spc[s] = "send" /\ Transmit(Reply(s))
      /\ UNCHANGED <<inbox, bound, sbuf, server>>
      /\ spc' = [spc EXCEPT ![s] = "recv"] /\ smsg' = [smsg EXCEPT ![s] = NoMsg]
  BY DEF ServerSend, BufOf, Reply
<1>2. Reply(s) \in Datagram /\ GenuineDatagram(Reply(s))
  BY <1>1, ReplyFacts
<1>3. NetTypeOK' /\ GenuineNet'
  BY <1>1, <1>2, TransmitKeeps DEF Genuine
<1>4. Server \in Addresses
  BY DEF Addresses
<1>5. ServerTypeOK'
  BY <1>1, <1>4 DEF ServerTypeOK, NoMsg
<1>6. spc'[s] = "recv" /\ smsg'[s].len = 0
  BY <1>1 DEF ServerTypeOK, NoMsg
<1>7. GenuineMessage(s)'
  BY <1>6 DEF GenuineMessage
<1>8. (\A t \in SFibers : GenuineMessage(t))'
  BY <1>1, <1>7, OthersGenuine DEF Genuine, ServerTypeOK
<1> QED
  BY <1>3, <1>5, <1>8 DEF Genuine

(* Whatever step a fiber of the server takes.                              *)
LEMMA ServerKeeps ==
  ASSUME NetTypeOK, ServerTypeOK, Genuine, NEW s \in SFibers, ServerStep(s)
  PROVE  NetTypeOK' /\ ServerTypeOK' /\ Genuine'
<1>1. CASE ServerSendFails(s)
  <2>1. UNCHANGED <<net, inbox, bound, spc, sbuf, smsg>> /\ server' = "bad sendmsg"
    BY <1>1 DEF ServerSendFails, netVars
  <2> QED
    BY <2>1 DEF NetTypeOK, ServerTypeOK, Genuine, GenuineNet, GenuineMessage
<1> QED
  BY <1>1, ServerReceiveKeeps, ServerReceiveFailsKeeps, ServerDoubleKeeps, ServerSendKeeps
  DEF ServerStep

(* The server opens its socket, or dies of it.                             *)
LEMMA ServerOpensKeeps ==
  ASSUME NetTypeOK, ServerTypeOK, Genuine, ServerOpens
  PROVE  NetTypeOK' /\ ServerTypeOK' /\ Genuine'
<1>1. UNCHANGED <<net, inbox, spc, sbuf, smsg>>
  BY DEF ServerOpens, ServerOpen, ServerOpenFails, netVars
<1>2. Server \in Addresses
  BY DEF Addresses
<1>3. NetTypeOK' /\ GenuineNet'
  <2>1. CASE ServerOpen
    BY <1>2, <2>1, BindKeeps DEF ServerOpen, Genuine
  <2>2. CASE ServerOpenFails
    BY <2>2 DEF ServerOpenFails, netVars, NetTypeOK, Genuine, GenuineNet
  <2> QED
    BY <2>1, <2>2 DEF ServerOpens
<1>4. server' \in {"up", "socket", "bind"}
  BY DEF ServerOpens, ServerOpen, ServerOpenFails
<1>5. ServerTypeOK'
  BY <1>1, <1>4 DEF ServerTypeOK
<1>6. (\A s \in SFibers : GenuineMessage(s))'
  BY <1>1 DEF Genuine, GenuineMessage
<1> QED
  BY <1>3, <1>5, <1>6 DEF Genuine

(* When nothing has been sent.                                             *)
LEMMA InitGenuine ==
  ASSUME NetInit, ServerInit
  PROVE  NetTypeOK /\ ServerTypeOK /\ Genuine
<1>1. Server \in Addresses
  BY DEF Addresses
<1>2. NetTypeOK /\ GenuineNet
  BY EmptySeq DEF NetInit, NetTypeOK, GenuineNet
<1>3. ServerTypeOK /\ \A s \in SFibers : GenuineMessage(s)
  BY <1>1, EmptySeq DEF ServerInit, ServerTypeOK, GenuineMessage, NoMsg
<1> QED
  BY <1>2, <1>3 DEF Genuine

-----------------------------------------------------------------------------
(* Which request a message belongs to.  A is a set of requests, pairs of a *)
(* client and a number.                                                    *)

(* A datagram to the server is a request of A, one to a client answers a   *)
(* request of A by that client; an empty one is what a failed recvmsg      *)
(* leaves to be sent (srv2.cc:116-127).                                    *)
KnownDatagram(d, A) ==
  \/ d.body = <<>> /\ ServerMayFail
  \/ d.body # <<>> /\ d.to = Server /\ <<d.from, d.seq>> \in A
  \/ d.body # <<>> /\ d.to \in Clients /\ <<d.to, d.seq>> \in A

KnownMessage(s, A) ==
  spc[s] # "recv" =>
    \/ smsg[s].len = 0 /\ ServerMayFail
    \/ smsg[s].len = 1 /\ <<smsg[s].peer, smsg[s].seq>> \in A

KnownNet(A) ==
  /\ \A d \in net : KnownDatagram(d, A)
  /\ \A a \in Addresses : \A i \in 1 .. Len(inbox[a]) : KnownDatagram(inbox[a][i], A)

Known(A) == KnownNet(A) /\ \A s \in SFibers : KnownMessage(s, A)

(* The network makes up no request either.                                 *)
LEMMA NetStepKnown ==
  ASSUME NetTypeOK, NEW A, KnownNet(A), NetStep
  PROVE  KnownNet(A)'
<1>1. PICK d \in net : Deliver(d) \/ DeliverCopy(d) \/ Lose(d)
  BY DEF NetStep
<1>2. d \in Datagram /\ d.to \in Addresses /\ KnownDatagram(d, A)
  BY DEF NetTypeOK, KnownNet, Datagram
<1>3. net' \in SUBSET net
  BY <1>1 DEF Deliver, DeliverCopy, Lose
<1>4. \A e \in net' : KnownDatagram(e, A)
  BY <1>3 DEF KnownNet
<1>5. CASE UNCHANGED inbox
  BY <1>4, <1>5 DEF KnownNet
<1>6. CASE inbox' = [inbox EXCEPT ![d.to] = Append(@, d)]
  <2>1. inbox[d.to] \in Seq(Datagram) /\ Len(inbox[d.to]) \in Nat
    BY <1>2, LenProperties DEF NetTypeOK
  <2>2. /\ Len(Append(inbox[d.to], d)) = Len(inbox[d.to]) + 1
        /\ \A i \in 1 .. Len(inbox[d.to]) : Append(inbox[d.to], d)[i] = inbox[d.to][i]
        /\ Append(inbox[d.to], d)[Len(inbox[d.to]) + 1] = d
    BY <1>2, <2>1, AppendProperties
  <2>3. /\ inbox'[d.to] = Append(inbox[d.to], d)
        /\ \A b \in Addresses \ {d.to} : inbox'[b] = inbox[b]
    BY <1>2, <1>6 DEF NetTypeOK
  <2>4. ASSUME NEW b \in Addresses, NEW i \in 1 .. Len(inbox'[b])
        PROVE  KnownDatagram(inbox'[b][i], A)
    <3>1. CASE b = d.to
      <4>1. i \in 1 .. Len(inbox[d.to]) \/ i = Len(inbox[d.to]) + 1
        BY <2>1, <2>2, <2>3, <2>4, <3>1
      <4>2. inbox'[b][i] = d \/ (i \in 1 .. Len(inbox[b]) /\ inbox'[b][i] = inbox[b][i])
        BY <2>2, <2>3, <3>1, <4>1
      <4> QED
        BY <1>2, <4>2 DEF KnownNet
    <3>2. CASE b # d.to
      BY <2>3, <2>4, <3>2 DEF KnownNet
    <3> QED
      BY <3>1, <3>2
  <2> QED
    BY <1>4, <2>4 DEF KnownNet
<1> QED
  BY <1>1, <1>5, <1>6 DEF Deliver, DeliverCopy, Lose, Arrive

(* What is taken is known, and what remains as well.                       *)
LEMMA TakeKnown ==
  ASSUME NetTypeOK, NEW A, KnownNet(A), NEW a \in Addresses, TakeFrom(a), UNCHANGED net
  PROVE  KnownNet(A)' /\ KnownDatagram(Head(inbox[a]), A)
<1>1. inbox[a] \in Seq(Datagram) /\ inbox[a] # <<>>
  BY DEF NetTypeOK, TakeFrom
<1>2. Len(inbox[a]) \in Nat \ {0}
  BY <1>1, EmptySeq
<1>3. /\ Len(Tail(inbox[a])) = Len(inbox[a]) - 1
      /\ \A i \in 1 .. Len(Tail(inbox[a])) : Tail(inbox[a])[i] = inbox[a][i + 1]
      /\ Head(inbox[a]) = inbox[a][1]
  BY <1>1, HeadTailProperties
<1>4. /\ inbox'[a] = Tail(inbox[a])
      /\ \A b \in Addresses \ {a} : inbox'[b] = inbox[b]
  BY DEF TakeFrom, NetTypeOK
<1>5. ASSUME NEW b \in Addresses, NEW i \in 1 .. Len(inbox'[b])
      PROVE  KnownDatagram(inbox'[b][i], A)
  <2>1. CASE b = a
    <3>1. inbox'[b] = Tail(inbox[a])
      BY <1>4, <2>1
    <3>2. i \in 1 .. Len(Tail(inbox[a])) /\ i + 1 \in 1 .. Len(inbox[a])
      BY <1>2, <1>3, <1>5, <3>1
    <3>3. inbox'[b][i] = inbox[a][i + 1]
      BY <1>3, <3>1, <3>2
    <3> QED
      BY <3>2, <3>3 DEF KnownNet
  <2>2. CASE b # a
    BY <1>4, <1>5, <2>2 DEF KnownNet
  <2> QED
    BY <2>1, <2>2
<1>6. KnownNet(A)'
  BY <1>5 DEF KnownNet
<1>7. 1 \in 1 .. Len(inbox[a])
  BY <1>2
<1> QED
  BY <1>3, <1>6, <1>7 DEF KnownNet

(* A step of one fiber leaves the messages of the others alone.            *)
LEMMA OthersKnown ==
  ASSUME NEW A, \A t \in SFibers : KnownMessage(t, A), NEW s \in SFibers,
         \A t \in SFibers \ {s} : spc'[t] = spc[t] /\ smsg'[t] = smsg[t],
         KnownMessage(s, A)'
  PROVE  (\A t \in SFibers : KnownMessage(t, A))'
BY DEF KnownMessage

(* A fiber answers what it has received, and only that.                    *)
LEMMA ServerKnown ==
  ASSUME NetTypeOK, ServerTypeOK, Genuine, NEW A, Known(A),
         NEW s \in SFibers, ServerStep(s)
  PROVE  Known(A)'
<1>0. Server \in Addresses /\ Server \notin Clients
  BY DatagramsAssumption DEF Addresses
<1>1. CASE ServerReceive(s)
  <2> PICK d : d = Head(inbox[Server])
    OBVIOUS
  <2>1. /\ d \in Datagram /\ d.to = Server /\ GenuineDatagram(d)
    BY <1>0, <1>1, TakeKeeps DEF ServerReceive, Genuine
  <2>2. KnownNet(A)' /\ KnownDatagram(d, A)
    BY <1>0, <1>1, TakeKnown DEF ServerReceive, Known
  <2>3. /\ smsg' = [smsg EXCEPT ![s] = [len |-> Len(d.body), peer |-> d.from, seq |-> d.seq]]
        /\ spc' = [spc EXCEPT ![s] = "got"]
    BY <1>1 DEF ServerReceive
  <2>4. /\ smsg'[s] = [len |-> Len(d.body), peer |-> d.from, seq |-> d.seq]
        /\ spc'[s] = "got"
    BY <2>3 DEF ServerTypeOK
  <2>5. \A t \in SFibers \ {s} : spc'[t] = spc[t] /\ smsg'[t] = smsg[t]
    BY <2>3 DEF ServerTypeOK
  <2>6. CASE d.body = <<>> /\ ServerMayFail
    <3>1. Len(d.body) = 0
      BY <2>6, EmptySeq
    <3>2. KnownMessage(s, A)'
      BY <2>4, <2>6, <3>1 DEF KnownMessage
    <3> QED
      BY <2>2, <2>3, <2>5, <3>2, OthersKnown DEF Known
  <2>7. CASE d.body # <<>> /\ <<d.from, d.seq>> \in A
    <3>1. d.body = <<d.from>>
      BY <1>0, <2>1, <2>7 DEF GenuineDatagram
    <3>2. Len(d.body) = 1
      BY <3>1
    <3>3. KnownMessage(s, A)'
      BY <2>4, <2>7, <3>2 DEF KnownMessage
    <3> QED
      BY <2>2, <2>3, <2>5, <3>3, OthersKnown DEF Known
  <2> QED
    BY <1>0, <2>1, <2>2, <2>6, <2>7 DEF KnownDatagram
<1>2. CASE ServerReceiveFails(s)
  <2>1. PICK a \in Addresses : smsg' = [smsg EXCEPT ![s] = [len |-> 0, peer |-> a, seq |-> 0]]
    BY <1>2 DEF ServerReceiveFails
  <2>2. /\ ServerMayFail /\ spc' = [spc EXCEPT ![s] = "got"]
        /\ UNCHANGED <<net, inbox>>
    BY <1>2 DEF ServerReceiveFails, netVars
  <2>3. KnownNet(A)'
    BY <2>2 DEF Known, KnownNet
  <2>4. smsg'[s].len = 0
    BY <2>1 DEF ServerTypeOK
  <2>5. KnownMessage(s, A)'
    BY <2>2, <2>4 DEF KnownMessage
  <2> QED
    BY <2>1, <2>2, <2>3, <2>5, OthersKnown DEF Known, ServerTypeOK
<1>3. CASE ServerDouble(s)
  <2>1. /\ spc[s] = "got" /\ UNCHANGED <<net, inbox, smsg>>
        /\ spc' = spc \/ spc' = [spc EXCEPT ![s] = "send"]
    BY <1>3 DEF ServerDouble, netVars
  <2>2. KnownNet(A)'
    BY <2>1 DEF Known, KnownNet
  <2>3. KnownMessage(s, A)'
    BY <2>1 DEF Known, KnownMessage
  <2> QED
    BY <2>1, <2>2, <2>3, OthersKnown DEF Known, ServerTypeOK
<1>4. CASE ServerSend(s)
  <2>1. /\ spc[s] = "send" /\ net' = net \cup {Reply(s)} /\ UNCHANGED inbox
        /\ spc' = [spc EXCEPT ![s] = "recv"] /\ smsg' = [smsg EXCEPT ![s] = NoMsg]
    BY <1>4 DEF ServerSend, BufOf, Reply, Transmit
  <2>2. KnownMessage(s, A)
    BY DEF Known
  <2>3. KnownDatagram(Reply(s), A)
    BY <2>1, <2>2, ReplyFacts DEF KnownMessage, KnownDatagram
  <2>4. KnownNet(A)'
    BY <2>1, <2>3 DEF Known, KnownNet
  <2>5. KnownMessage(s, A)'
    BY <2>1 DEF KnownMessage, ServerTypeOK
  <2> QED
    BY <2>1, <2>4, <2>5, OthersKnown DEF Known, ServerTypeOK
<1>5. CASE ServerSendFails(s)
  BY <1>5 DEF ServerSendFails, netVars, Known, KnownNet, KnownMessage
<1> QED
  BY <1>1, <1>2, <1>3, <1>4, <1>5 DEF ServerStep

(* Opening the socket touches no message.                                  *)
LEMMA ServerOpensKnown ==
  ASSUME NEW A, Known(A), ServerOpens
  PROVE  Known(A)'
BY DEF ServerOpens, ServerOpen, ServerOpenFails, netVars, Known, KnownNet, KnownMessage

(* What the fibers hold stays while they do nothing.                       *)
LEMMA IdleKeeps ==
  ASSUME ServerTypeOK, Genuine, NEW A, Known(A), UNCHANGED serverVars
  PROVE  /\ ServerTypeOK'
         /\ (\A s \in SFibers : GenuineMessage(s))'
         /\ (\A s \in SFibers : KnownMessage(s, A))'
<1>1. UNCHANGED <<spc, sbuf, smsg, server>>
  BY DEF serverVars
<1>2. ServerTypeOK'
  BY <1>1 DEF ServerTypeOK
<1>3. (\A s \in SFibers : GenuineMessage(s))'
  BY <1>1 DEF Genuine, GenuineMessage
<1>4. (\A s \in SFibers : KnownMessage(s, A))'
  BY <1>1 DEF Known, KnownMessage
<1> QED
  BY <1>2, <1>3, <1>4

(* A step of the network.                                                  *)
LEMMA NetworkKnown ==
  ASSUME NetTypeOK, ServerTypeOK, Genuine, NEW A, Known(A), NetStep, UNCHANGED serverVars
  PROVE  NetTypeOK' /\ ServerTypeOK' /\ Genuine' /\ Known(A)'
<1>1. NetTypeOK' /\ GenuineNet'
  BY NetStepKeeps DEF Genuine
<1>2. KnownNet(A)'
  BY NetStepKnown DEF Known
<1> QED
  BY <1>1, <1>2, IdleKeeps DEF Genuine, Known

(* A client's request is genuine, and becomes known when it is sent.       *)
LEMMA RequestKeeps ==
  ASSUME NetTypeOK, ServerTypeOK, Genuine, NEW A, Known(A),
         NEW c \in Clients, NEW n \in Nat,
         Transmit([to |-> Server, from |-> c, body |-> <<c>>, seq |-> n]),
         UNCHANGED <<inbox, bound, serverVars>>
  PROVE  NetTypeOK' /\ ServerTypeOK' /\ Genuine' /\ Known(A \cup {<<c, n>>})'
<1> PICK body : body = <<c>>
  OBVIOUS
<1> PICK d : d = [to |-> Server, from |-> c, body |-> body, seq |-> n]
  OBVIOUS
<1>1. d.to = Server /\ d.from = c /\ d.body = body /\ d.seq = n
  OBVIOUS
<1>2. body \in Seq(Clients) /\ body # <<>>
  OBVIOUS
<1>3. d \in Datagram
  BY <1>2 DEF Datagram, Addresses
<1>4. GenuineDatagram(d)
  BY <1>1 DEF GenuineDatagram
<1>5. Transmit(d)
  OBVIOUS
<1>6. NetTypeOK' /\ GenuineNet'
  BY <1>3, <1>4, <1>5, TransmitKeeps DEF Genuine
<1> DEFINE B == A \cup {<<c, n>>}
<1>7. KnownDatagram(d, B)
  BY <1>1, <1>2 DEF KnownDatagram
<1>8. Known(B)
  BY DEF Known, KnownNet, KnownDatagram, KnownMessage
<1> HIDE DEF B
<1>9. KnownNet(B)'
  BY <1>5, <1>7, <1>8 DEF Transmit, Known, KnownNet
<1>10. /\ ServerTypeOK' /\ (\A s \in SFibers : GenuineMessage(s))'
       /\ (\A s \in SFibers : KnownMessage(s, B))'
  BY <1>8, IdleKeeps
<1>11. Genuine' /\ Known(B)'
  BY <1>6, <1>9, <1>10 DEF Genuine, Known
<1> QED
  BY <1>6, <1>10, <1>11 DEF B

(* At first there is nothing to know.                                      *)
LEMMA InitKnown ==
  ASSUME NetInit, ServerInit
  PROVE  \A A : Known(A)
<1> TAKE A
<1>1. \A a \in Addresses : inbox[a] = <<>> /\ Len(<<>>) = 0
  BY EmptySeq DEF NetInit
<1>2. KnownNet(A)
  BY <1>1 DEF NetInit, KnownNet
<1> QED
  BY <1>2 DEF ServerInit, Known, KnownMessage

=============================================================================
