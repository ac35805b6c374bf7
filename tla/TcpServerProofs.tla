-------------------------- MODULE TcpServerProofs ---------------------------
(***************************************************************************)
(* The TCP server answers what it receives, once and where it came from,   *)
(* for any number of connections, descriptors and bytes; what it dies of;  *)
(* and when a reply is cut.                                                *)
(***************************************************************************)
EXTENDS TcpServer, SequenceTheorems, FunctionTheorems, FiniteSetTheorems, TLAPS

(* Descriptors are numbered as they are accepted, and each has its handler *)
(* or is about to get it.                                                  *)
AcceptInv ==
  /\ Len(fds) = Len(handlers) + (IF acceptor = "spawn" THEN 1 ELSE 0)
  /\ acceptor = "spawn" => accepted = Len(fds)
  /\ Len(fds) <= FdLimit
  /\ \A h \in 1 .. Len(handlers) : handlers[h].fd = h

(* A connection is queued or accepted once.                                *)
ConnsInv ==
  /\ \A i, j \in 1 .. Len(fds) : fds[i] = fds[j] => i = j
  /\ \A i, j \in 1 .. Len(backlog) : backlog[i] = backlog[j] => i = j
  /\ \A i \in 1 .. Len(fds), j \in 1 .. Len(backlog) : fds[i] # backlog[j]
  /\ \A i \in 1 .. Len(fds) : peer[fds[i]] # "new"
  /\ \A j \in 1 .. Len(backlog) : peer[backlog[j]] # "new"

(* What the handler of a connection has received and replied, and that no  *)
(* other touches it.                                                       *)
RepliesInv ==
  /\ \A h \in 1 .. Len(handlers) :
       received[fds[h]] = replied[fds[h]] + (IF handlers[h].pc = "send" THEN 1 ELSE 0)
  /\ \A c \in Conns :
       (\A h \in 1 .. Len(handlers) : fds[h] # c) => received[c] = 0 /\ replied[c] = 0

BytesInv ==
  \A c \in Conns :
    /\ received[c] + stream[c] <= sent[c]
    /\ stream[c] < sent[c] => received[c] > 0

PiecesInv ==
  \A c \in Conns :
    /\ unread[c] <= taken[c]
    /\ taken[c] <= replied[c] * ReplySize
    /\ taken[c] < replied[c] * ReplySize => replied[c] * ReplySize > ReplyRoom

(* Only what the server sends is refused.                                  *)
RefusedInv == \A c \in Conns : peer[c] = "refused" => replied[c] > 0

IInv ==
  /\ TypeOK /\ AcceptInv /\ ConnsInv /\ RepliesInv /\ BytesInv /\ PiecesInv /\ RefusedInv
  /\ DeathsExplained

-----------------------------------------------------------------------------
(* Facts about the operators.                                              *)

(* A handler's descriptor is its number, and belongs to a connection       *)
(* (srv2.cc:83).                                                           *)
LEMMA HandlerConn ==
  ASSUME TypeOK, AcceptInv, NEW h \in DOMAIN handlers
  PROVE  /\ h \in 1 .. Len(handlers) /\ h \in 1 .. Len(fds)
         /\ handlers[h] \in Handler /\ handlers[h].fd = h
         /\ fds[h] \in Conns /\ ConnOf(h) = fds[h]
<1>1. /\ handlers \in Seq(Handler) /\ fds \in Seq(Conns)
      /\ Len(handlers) \in Nat /\ Len(fds) \in Nat /\ DOMAIN handlers = 1 .. Len(handlers)
  BY LenProperties DEF TypeOK
<1>2. h \in 1 .. Len(handlers) /\ Len(handlers) <= Len(fds)
  BY <1>1 DEF AcceptInv
<1>3. handlers[h] \in Handler /\ handlers[h].fd = h
  BY <1>1, <1>2, ElementOfSeq DEF AcceptInv
<1>4. h \in 1 .. Len(fds)
  BY <1>1, <1>2
<1>5. fds[h] \in Conns
  BY <1>1, <1>4, ElementOfSeq
<1> QED
  BY <1>2, <1>3, <1>4, <1>5 DEF ConnOf, FdOf

(* A handler that goes on changes neither the number of handlers nor the   *)
(* descriptor of any.                                                      *)
LEMMA GotoFacts ==
  ASSUME TypeOK, NEW h \in DOMAIN handlers, NEW p \in {"recv", "send", "done"}, Goto(h, p)
  PROVE  /\ handlers' \in Seq(Handler)
         /\ Len(handlers') = Len(handlers)
         /\ \A k \in 1 .. Len(handlers) :
              /\ handlers'[k].fd = handlers[k].fd
              /\ handlers'[k].pc = IF k = h THEN p ELSE handlers[k].pc
<1>1. /\ handlers \in Seq(Handler) /\ Len(handlers) \in Nat
      /\ DOMAIN handlers = 1 .. Len(handlers)
      /\ \A k \in 1 .. Len(handlers) : handlers[k] \in Handler
  BY LenProperties, ElementOfSeq DEF TypeOK
<1>2. handlers' = [handlers EXCEPT ![h] = [handlers[h] EXCEPT !.pc = p]]
  BY DEF Goto
<1>3. [handlers[h] EXCEPT !.pc = p] \in Handler
  BY <1>1 DEF Handler
<1>4. handlers' \in Seq(Handler) /\ Len(handlers') = Len(handlers)
  BY <1>1, <1>2, <1>3, ExceptSeq
<1>5. \A k \in 1 .. Len(handlers) :
        handlers'[k] = IF k = h THEN [handlers[h] EXCEPT !.pc = p] ELSE handlers[k]
  BY <1>1, <1>2
<1> QED
  BY <1>1, <1>4, <1>5 DEF Handler

(* One reply more.                                                         *)
LEMMA NextProduct ==
  ASSUME NEW m \in Nat, NEW n \in Nat
  PROVE  (m + 1) * n = m * n + n /\ m * n \in Nat /\ (m + 1) * n \in Nat
OBVIOUS

(* There is room for at most one reply, and for all of it unless the peer  *)
(* has left much unread (srv2.cc:96-100).                                  *)
LEMMA FittingFacts ==
  ASSUME TypeOK, NEW c \in Conns
  PROVE  /\ Fitting(c) \in 0 .. ReplySize
         /\ unread[c] + Fitting(c) \in 0 .. ReplyRoom
         /\ Fitting(c) < ReplySize => unread[c] + ReplySize > ReplyRoom
<1>1. unread[c] \in 0 .. ReplyRoom /\ ReplySize \in Nat /\ ReplyRoom \in Nat
  BY TcpServerAssumption DEF TypeOK
<1> QED
  BY <1>1 DEF Fitting

(* The connections a loop over the first n of them goes through.           *)
LEMMA IntervalSize ==
  ASSUME NEW n \in Nat
  PROVE  IsFiniteSet(1 .. n) /\ Cardinality(1 .. n) = n
<1>1. 1 \in Int /\ n \in Int /\ ~(1 > n /\ n # 0) /\ n - 1 + 1 = n
  OBVIOUS
<1>2. IsFiniteSet(1 .. n) /\ Cardinality(1 .. n) = IF 1 > n THEN 0 ELSE n - 1 + 1
  BY <1>1, FS_Interval
<1> QED
  BY <1>1, <1>2

(* As many connections as descriptors are accepted (srv2.cc:80).           *)
LEMMA AcceptedCount ==
  ASSUME TypeOK, ConnsInv
  PROVE  Cardinality({c \in Conns : \E i \in DOMAIN fds : fds[i] = c}) = Len(fds)
<1> DEFINE D == 1 .. Len(fds)
           S == {c \in Conns : \E i \in DOMAIN fds : fds[i] = c}
<1>1. fds \in Seq(Conns) /\ Len(fds) \in Nat /\ DOMAIN fds = D /\ fds \in [D -> Conns]
  BY LenProperties DEF TypeOK
<1>2. fds \in [D -> S]
  BY <1>1
<1>3. fds \in Bijection(D, S)
  <2>1. \A i, j \in D : fds[i] = fds[j] => i = j
    BY DEF ConnsInv
  <2>2. \A s \in S : \E i \in D : fds[i] = s
    BY <1>1
  <2> HIDE DEF D, S
  <2> QED
    BY <1>2, <2>1, <2>2, Fun_IsBij
<1>4. IsFiniteSet(D) /\ Cardinality(D) = Len(fds)
  BY <1>1, IntervalSize
<1>5. Cardinality(S) = Cardinality(D)
  BY <1>3, <1>4, FS_Bijection DEF ExistsBijection
<1> QED
  BY <1>4, <1>5

-----------------------------------------------------------------------------
(* The invariant holds initially and after every step.                     *)

LEMMA InitInv == Init => IInv
<1> SUFFICES ASSUME Init
             PROVE  IInv
  OBVIOUS
<1> USE TcpServerAssumption
<1>1. /\ fds = <<>> /\ handlers = <<>> /\ backlog = <<>> /\ acceptor = "accept"
      /\ Len(fds) = 0 /\ Len(handlers) = 0 /\ Len(backlog) = 0
  BY DEF Init
<1>2. fds \in Seq(Conns) /\ backlog \in Seq(Conns) /\ handlers \in Seq(Handler)
  BY <1>1, EmptySeq
<1>3. TypeOK
  BY <1>2 DEF Init, TypeOK
<1>4. AcceptInv
  BY <1>1 DEF AcceptInv
<1>5. ConnsInv
  BY <1>1 DEF ConnsInv
<1>6. RepliesInv /\ BytesInv /\ RefusedInv
  BY <1>1 DEF Init, RepliesInv, BytesInv, RefusedInv
<1>7. PiecesInv
  <2> SUFFICES ASSUME NEW c \in Conns
               PROVE  /\ unread[c] <= taken[c] /\ taken[c] <= replied[c] * ReplySize
                      /\ ~(taken[c] < replied[c] * ReplySize)
    BY DEF PiecesInv
  <2>1. unread[c] = 0 /\ taken[c] = 0 /\ replied[c] = 0 /\ 0 * ReplySize = 0
    BY DEF Init
  <2> QED
    BY <2>1
<1>8. DeathsExplained
  BY DEF Init, DeathsExplained
<1> QED
  BY <1>3, <1>4, <1>5, <1>6, <1>7, <1>8 DEF IInv

(* A peer connects.                                                        *)
LEMMA ConnectKeeps ==
  ASSUME IInv, server = "up", NEW c \in Conns, Connect(c)
  PROVE  IInv'
<1>1. /\ peer' = [peer EXCEPT ![c] = "open"] /\ backlog' = Append(backlog, c)
      /\ peer[c] = "new"
      /\ UNCHANGED <<sent, stream, unread, fds, acceptor, accepted, handlers, received,
                     replied, taken, server>>
  BY DEF Connect, handlerVars
<1>2. TypeOK
  BY DEF IInv
<1>3. /\ backlog \in Seq(Conns) /\ Len(backlog) \in Nat
      /\ backlog' \in Seq(Conns) /\ Len(backlog') = Len(backlog) + 1
      /\ \A j \in 1 .. Len(backlog) : backlog'[j] = backlog[j]
      /\ backlog'[Len(backlog) + 1] = c
  BY <1>1, <1>2, AppendProperties, LenProperties DEF TypeOK
<1>4. TypeOK'
  BY <1>1, <1>2, <1>3 DEF TypeOK
<1>5. ConnsInv'
  <2>1. /\ \A i \in 1 .. Len(fds) : fds[i] # c
        /\ \A j \in 1 .. Len(backlog) : backlog[j] # c
    BY <1>1 DEF IInv, ConnsInv
  <2>2. \A d \in Conns : peer'[d] = IF d = c THEN "open" ELSE peer[d]
    BY <1>1, <1>2 DEF TypeOK
  <2>3. /\ \A i \in 1 .. Len(fds) : fds[i] \in Conns
        /\ \A j \in 1 .. Len(backlog) : backlog[j] \in Conns
    BY <1>2, ElementOfSeq DEF TypeOK
  <2>4. \A j \in 1 .. Len(backlog') : j \in 1 .. Len(backlog) \/ j = Len(backlog) + 1
    BY <1>3
  <2>5. \A i, j \in 1 .. Len(backlog') : backlog'[i] = backlog'[j] => i = j
    BY <1>3, <2>1, <2>4 DEF IInv, ConnsInv
  <2>6. \A i \in 1 .. Len(fds'), j \in 1 .. Len(backlog') : fds'[i] # backlog'[j]
    BY <1>1, <1>3, <2>1, <2>4 DEF IInv, ConnsInv
  <2>7. \A i \in 1 .. Len(fds') : peer'[fds'[i]] # "new"
    BY <1>1, <2>2, <2>3 DEF IInv, ConnsInv
  <2>8. \A j \in 1 .. Len(backlog') : peer'[backlog'[j]] # "new"
    BY <1>3, <2>2, <2>3, <2>4 DEF IInv, ConnsInv
  <2> QED
    BY <1>1, <2>5, <2>6, <2>7, <2>8 DEF IInv, ConnsInv
<1>6. AcceptInv' /\ RepliesInv' /\ BytesInv' /\ PiecesInv'
  BY <1>1 DEF IInv, AcceptInv, RepliesInv, BytesInv, PiecesInv
<1>7. RefusedInv'
  BY <1>1, <1>2 DEF IInv, RefusedInv, TypeOK
<1>8. DeathsExplained'
  BY <1>1 DEF DeathsExplained
<1> QED
  BY <1>4, <1>5, <1>6, <1>7, <1>8 DEF IInv

(* A peer sends, reads or stops: no descriptor changes.                    *)
LEMMA PeerTalks ==
  ASSUME IInv, server = "up", NEW c \in Conns, PeerSend(c) \/ PeerRead(c) \/ PeerStop(c)
  PROVE  IInv'
<1> USE TcpServerAssumption
<1>1. UNCHANGED <<backlog, fds, acceptor, accepted, handlers, received, replied, taken, server>>
  BY DEF PeerSend, PeerRead, PeerStop, handlerVars
<1>2. TypeOK
  BY DEF IInv
<1>3. /\ TypeOK'
      /\ \A d \in Conns : peer[d] # "new" => peer'[d] # "new"
      /\ \A d \in Conns : peer'[d] = "refused" => peer[d] = "refused"
      /\ \A d \in Conns : unread'[d] <= unread[d]
      /\ \A d \in Conns : /\ sent'[d] - stream'[d] = sent[d] - stream[d]
  <2>1. CASE PeerSend(c)
    <3>1. /\ sent' = [sent EXCEPT ![c] = sent[c] + 1]
          /\ stream' = [stream EXCEPT ![c] = stream[c] + 1] /\ UNCHANGED <<peer, unread>>
      BY <2>1 DEF PeerSend
    <3>2. /\ sent \in [Conns -> Nat] /\ stream \in [Conns -> Nat]
          /\ unread \in [Conns -> 0 .. ReplyRoom]
      BY <1>2 DEF TypeOK
    <3>3. TypeOK'
      <4>1. sent[c] + 1 \in Nat /\ stream[c] + 1 \in Nat
        BY <3>2
      <4>2. sent' \in [Conns -> Nat] /\ stream' \in [Conns -> Nat]
        BY <3>1, <3>2, <4>1
      <4> QED
        BY <1>1, <1>2, <3>1, <4>2 DEF TypeOK
    <3>4. \A d \in Conns : /\ sent'[d] = IF d = c THEN sent[d] + 1 ELSE sent[d]
                           /\ stream'[d] = IF d = c THEN stream[d] + 1 ELSE stream[d]
                           /\ sent[d] \in Nat /\ stream[d] \in Nat
                           /\ unread[d] \in Nat
      <4>1. \A d \in Conns : sent[d] \in Nat /\ stream[d] \in Nat /\ unread[d] \in Nat
        BY <3>2
      <4>2. /\ \A d \in Conns : sent'[d] = IF d = c THEN sent[d] + 1 ELSE sent[d]
            /\ \A d \in Conns : stream'[d] = IF d = c THEN stream[d] + 1 ELSE stream[d]
        BY <3>1, <3>2
      <4> QED
        BY <4>1, <4>2
    <3>5. ASSUME NEW d \in Conns PROVE sent'[d] - stream'[d] = sent[d] - stream[d]
      <4>1. PICK m \in Nat, n \in Nat : sent[d] = m /\ stream[d] = n
        BY <3>4
      <4>2. \/ sent'[d] = m /\ stream'[d] = n
            \/ sent'[d] = m + 1 /\ stream'[d] = n + 1
        BY <3>4, <4>1
      <4>3. (m + 1) - (n + 1) = m - n
        OBVIOUS
      <4> QED
        BY <4>1, <4>2, <4>3
    <3>6. \A d \in Conns : unread'[d] <= unread[d]
      BY <3>1, <3>4
    <3> QED
      BY <3>1, <3>3, <3>5, <3>6
  <2>2. CASE PeerRead(c)
    <3>1. /\ unread' = [unread EXCEPT ![c] = unread[c] - 1] /\ unread[c] > 0
          /\ UNCHANGED <<peer, sent, stream>>
      BY <2>2 DEF PeerRead, peerVars
    <3>2. unread[c] - 1 \in 0 .. ReplyRoom
      BY <1>2, <3>1 DEF TypeOK
    <3>3. TypeOK'
      BY <1>1, <1>2, <3>1, <3>2 DEF TypeOK
    <3>4. \A d \in Conns : unread'[d] = (IF d = c THEN unread[d] - 1 ELSE unread[d])
                           /\ unread[d] \in Nat
      BY <1>2, <3>1 DEF TypeOK
    <3> QED
      BY <3>1, <3>3, <3>4
  <2>3. CASE PeerStop(c)
    <3>1. UNCHANGED <<sent, stream, unread>>
      BY <2>3 DEF PeerStop
    <3>2. \E p \in {"shut", "closed", "reset"} : peer' = [peer EXCEPT ![c] = p]
      BY <2>3 DEF PeerStop
    <3>3. TypeOK'
      BY <1>1, <1>2, <3>1, <3>2 DEF TypeOK
    <3>4. /\ \A d \in Conns : peer[d] # "new" => peer'[d] # "new"
          /\ \A d \in Conns : peer'[d] = "refused" => peer[d] = "refused"
      BY <1>2, <3>2 DEF TypeOK
    <3>5. \A d \in Conns : unread[d] \in Nat
      BY <1>2 DEF TypeOK
    <3> QED
      BY <3>1, <3>3, <3>4, <3>5
  <2> QED
    BY <2>1, <2>2, <2>3
<1>4. AcceptInv' /\ RepliesInv'
  BY <1>1 DEF IInv, AcceptInv, RepliesInv
<1>5. ConnsInv'
  <2>1. /\ \A i \in 1 .. Len(fds) : fds[i] \in Conns
        /\ \A j \in 1 .. Len(backlog) : backlog[j] \in Conns
    BY <1>2, ElementOfSeq DEF TypeOK
  <2>2. /\ \A i \in 1 .. Len(fds) : peer[fds[i]] # "new"
        /\ \A j \in 1 .. Len(backlog) : peer[backlog[j]] # "new"
    BY DEF IInv, ConnsInv
  <2>3. /\ \A i \in 1 .. Len(fds) : peer'[fds[i]] # "new"
        /\ \A j \in 1 .. Len(backlog) : peer'[backlog[j]] # "new"
    BY <1>3, <2>1, <2>2
  <2> QED
    BY <1>1, <2>3 DEF IInv, ConnsInv
<1>6. BytesInv'
  <2> SUFFICES ASSUME NEW d \in Conns
               PROVE  /\ received[d] + stream'[d] <= sent'[d]
                      /\ stream'[d] < sent'[d] => received[d] > 0
    BY <1>1 DEF BytesInv
  <2>1. /\ sent[d] \in Nat /\ stream[d] \in Nat /\ received[d] \in Nat
        /\ sent'[d] \in Nat /\ stream'[d] \in Nat
    BY <1>2, <1>3 DEF TypeOK
  <2>2. received[d] + stream[d] <= sent[d] /\ (stream[d] < sent[d] => received[d] > 0)
    BY DEF IInv, BytesInv
  <2> QED
    BY <1>3, <2>1, <2>2
<1>7. PiecesInv'
  <2> SUFFICES ASSUME NEW d \in Conns
               PROVE  unread'[d] <= taken[d]
    BY <1>1 DEF IInv, PiecesInv
  <2>1. unread[d] \in 0 .. ReplyRoom /\ taken[d] \in Nat
    BY <1>2 DEF TypeOK
  <2>2. unread'[d] \in 0 .. ReplyRoom
    BY <1>3 DEF TypeOK
  <2>3. unread'[d] <= unread[d] /\ unread[d] <= taken[d]
    BY <1>3 DEF IInv, PiecesInv
  <2> QED
    BY <2>1, <2>2, <2>3
<1>8. RefusedInv'
  BY <1>1, <1>3 DEF IInv, RefusedInv
<1>9. DeathsExplained'
  BY <1>1 DEF DeathsExplained
<1> QED
  BY <1>3, <1>4, <1>5, <1>6, <1>7, <1>8, <1>9 DEF IInv

LEMMA ListenKeeps == ASSUME IInv, Listen PROVE IInv'
<1>1. UNCHANGED <<peer, sent, stream, unread, backlog, fds, acceptor, accepted, handlers,
                  received, replied, taken>>
  BY DEF Listen, peerVars, handlerVars
<1>2. server' \in {"up", "socket", "setsockopt", "bind", "listen"}
  BY DEF Listen
<1>3. TypeOK'
  BY <1>1, <1>2 DEF IInv, TypeOK
<1>4. AcceptInv' /\ ConnsInv' /\ RepliesInv' /\ BytesInv' /\ PiecesInv' /\ RefusedInv'
  BY <1>1 DEF IInv, AcceptInv, ConnsInv, RepliesInv, BytesInv, PiecesInv, RefusedInv
<1>5. DeathsExplained'
  BY <1>2 DEF DeathsExplained
<1> QED
  BY <1>3, <1>4, <1>5 DEF IInv

(* The oldest connection gets the next descriptor.                         *)
LEMMA AcceptKeeps == ASSUME IInv, Accept PROVE IInv'
<1>1. /\ UNCHANGED <<peer, sent, stream, unread, handlers, received, replied, taken>>
      /\ server = "up" /\ acceptor = "accept"
  BY DEF Accept, peerVars, handlerVars
<1>2. /\ TypeOK /\ AcceptInv /\ ConnsInv /\ RepliesInv
  BY DEF IInv
<1>3. /\ fds \in Seq(Conns) /\ Len(fds) \in Nat /\ backlog \in Seq(Conns)
      /\ Len(backlog) \in Nat /\ handlers \in Seq(Handler) /\ Len(handlers) \in Nat
      /\ DOMAIN fds = 1 .. Len(fds)
  BY <1>2, LenProperties DEF TypeOK
<1>4. Len(fds) = Len(handlers) /\ Len(fds) <= FdLimit /\ FdLimit \in Nat
  BY <1>1, <1>2, <1>3, TcpServerAssumption DEF AcceptInv
<1>5. BytesInv' /\ PiecesInv' /\ RefusedInv'
  BY <1>1 DEF IInv, BytesInv, PiecesInv, RefusedInv
<1>6. CASE ~HasFreeFd
  <2>1. server' = "bad accept" /\ UNCHANGED <<fds, accepted, backlog, acceptor>>
    BY <1>6 DEF Accept
  <2>2. Len(fds) = FdLimit
    <3>1. ~(Len(fds) < FdLimit)
      BY <1>6 DEF HasFreeFd
    <3>2. Len(fds) <= FdLimit /\ Len(fds) \in Nat /\ FdLimit \in Nat
      BY <1>3, <1>4
    <3> QED
      BY <3>1, <3>2
  <2>3. DeathsExplained'
    BY <1>2, <2>1, <2>2, AcceptedCount DEF DeathsExplained
  <2>4. TypeOK'
    BY <1>1, <1>2, <2>1 DEF TypeOK
  <2>5. AcceptInv' /\ ConnsInv' /\ RepliesInv'
    <3>1. AcceptInv' /\ ConnsInv'
      BY <1>1, <1>2, <2>1 DEF AcceptInv, ConnsInv
    <3>2. RepliesInv'
      BY <1>1, <1>2, <2>1 DEF RepliesInv
    <3> QED
      BY <3>1, <3>2
  <2> QED
    BY <1>5, <2>3, <2>4, <2>5 DEF IInv
<1>7. CASE HasFreeFd
  <2> DEFINE c == Head(backlog)
             n == Len(fds) + 1
  <2>1. /\ fds' = Append(fds, c) /\ accepted' = n /\ backlog' = Tail(backlog)
        /\ acceptor' = "spawn" /\ server' = server /\ backlog # <<>>
    BY <1>7 DEF Accept
  <2>2. /\ c = backlog[1] /\ c \in Conns /\ Len(backlog) >= 1
        /\ backlog' \in Seq(Conns) /\ Len(backlog') = Len(backlog) - 1
        /\ \A j \in 1 .. Len(backlog') : backlog'[j] = backlog[j + 1]
    BY <1>1, <1>3, <2>1, HeadTailProperties, EmptySeq, ElementOfSeq, LenProperties
  <2> HIDE DEF c
  <2>3. /\ fds' \in Seq(Conns) /\ Len(fds') = n
        /\ \A i \in 1 .. Len(fds) : fds'[i] = fds[i]
        /\ fds'[n] = c
    BY <1>3, <2>1, <2>2, AppendProperties
  <2>4. \A i \in 1 .. Len(fds') : i \in 1 .. Len(fds) \/ i = n
    BY <1>3, <2>3
  <2>5. TypeOK'
    <3>1. accepted' \in Nat
      BY <1>3, <2>1
    <3> QED
      BY <1>1, <1>2, <2>1, <2>2, <2>3, <3>1 DEF TypeOK
  <2>6. AcceptInv'
    BY <1>1, <1>2, <1>3, <1>4, <1>7, <2>1, <2>3 DEF AcceptInv, HasFreeFd
  <2>7. /\ \A j \in 1 .. Len(backlog') : j + 1 \in 1 .. Len(backlog) /\ j + 1 # 1
        /\ 1 \in 1 .. Len(backlog)
    BY <1>3, <2>2
  <2>8. ConnsInv'
    <3>1. \A i \in 1 .. Len(fds) : fds[i] # c
      BY <1>2, <2>2, <2>7 DEF ConnsInv
    <3>2. \A j \in 1 .. Len(backlog') : backlog'[j] # c
      BY <1>2, <2>2, <2>7 DEF ConnsInv
    <3>3. \A i, j \in 1 .. Len(fds') : fds'[i] = fds'[j] => i = j
      BY <1>2, <2>3, <2>4, <3>1 DEF ConnsInv
    <3>4. \A i, j \in 1 .. Len(backlog') : backlog'[i] = backlog'[j] => i = j
      <4> SUFFICES ASSUME NEW i \in 1 .. Len(backlog'), NEW j \in 1 .. Len(backlog'),
                          backlog'[i] = backlog'[j]
                   PROVE  i = j
        OBVIOUS
      <4>1. backlog[i + 1] = backlog[j + 1]
        BY <2>2
      <4>2. i + 1 = j + 1
        BY <1>2, <2>7, <4>1 DEF ConnsInv
      <4> QED
        BY <4>2
    <3>5. \A i \in 1 .. Len(fds'), j \in 1 .. Len(backlog') : fds'[i] # backlog'[j]
      <4> SUFFICES ASSUME NEW i \in 1 .. Len(fds'), NEW j \in 1 .. Len(backlog')
                   PROVE  fds'[i] # backlog'[j]
        OBVIOUS
      <4>1. CASE i = n
        BY <2>3, <3>2, <4>1
      <4>2. CASE i \in 1 .. Len(fds)
        BY <1>2, <2>2, <2>3, <2>7, <4>2 DEF ConnsInv
      <4> QED
        BY <2>4, <4>1, <4>2
    <3>6. \A i \in 1 .. Len(fds') : peer[fds'[i]] # "new"
      <4>1. peer[c] # "new"
        BY <1>2, <2>2, <2>7 DEF ConnsInv
      <4>2. \A i \in 1 .. Len(fds) : peer[fds[i]] # "new"
        BY <1>2 DEF ConnsInv
      <4> QED
        BY <2>3, <2>4, <4>1, <4>2
    <3>7. \A j \in 1 .. Len(backlog') : peer[backlog'[j]] # "new"
      <4>1. \A j \in 1 .. Len(backlog) : peer[backlog[j]] # "new"
        BY <1>2 DEF ConnsInv
      <4> QED
        BY <2>2, <2>7, <4>1
    <3> QED
      BY <1>1, <3>3, <3>4, <3>5, <3>6, <3>7 DEF ConnsInv
  <2>9. RepliesInv'
    <3>1. \A h \in 1 .. Len(handlers) : fds'[h] = fds[h]
      BY <1>4, <2>3
    <3> QED
      BY <1>1, <1>2, <3>1 DEF RepliesInv
  <2>10. DeathsExplained'
    BY <1>1, <2>1 DEF DeathsExplained
  <2> QED
    BY <1>5, <2>5, <2>6, <2>8, <2>9, <2>10 DEF IInv
<1> QED
  BY <1>6, <1>7

(* The new handler has the next number.                                    *)
LEMMA SpawnKeeps == ASSUME IInv, Spawn PROVE IInv'
<1>1. /\ UNCHANGED <<peer, sent, stream, unread, backlog, fds, accepted, received, replied,
                     taken, server>>
      /\ server = "up" /\ acceptor = "spawn" /\ acceptor' = "accept"
      /\ handlers' = Append(handlers, [fd |-> accepted, pc |-> "recv"])
  BY DEF Spawn, peerVars
<1>2. TypeOK /\ AcceptInv /\ RepliesInv /\ ConnsInv
  BY DEF IInv
<1>3. /\ fds \in Seq(Conns) /\ Len(fds) \in Nat
      /\ handlers \in Seq(Handler) /\ Len(handlers) \in Nat /\ accepted \in Nat
  BY <1>2, LenProperties DEF TypeOK
<1> DEFINE n == Len(handlers) + 1
<1>4. n = Len(fds) /\ accepted = n
  BY <1>1, <1>2, <1>3 DEF AcceptInv
<1>5. [fd |-> accepted, pc |-> "recv"] \in Handler
  BY <1>3 DEF Handler
<1>6. /\ handlers' \in Seq(Handler) /\ Len(handlers') = n
      /\ \A h \in 1 .. Len(handlers) : handlers'[h] = handlers[h]
      /\ handlers'[n] = [fd |-> accepted, pc |-> "recv"]
  BY <1>1, <1>3, <1>5, AppendProperties
<1>7. \A h \in 1 .. Len(handlers') : h \in 1 .. Len(handlers) \/ h = n
  BY <1>3, <1>6
<1>8. TypeOK'
  BY <1>1, <1>2, <1>6 DEF TypeOK
<1>9. AcceptInv'
  <2>1. \A h \in 1 .. Len(handlers') : handlers'[h].fd = h
    BY <1>2, <1>4, <1>6, <1>7 DEF AcceptInv
  <2> QED
    BY <1>1, <1>2, <1>4, <1>6, <2>1 DEF AcceptInv
<1>10. RepliesInv'
  <2>1. n \in 1 .. Len(fds) /\ fds[n] \in Conns
    BY <1>3, <1>4, ElementOfSeq
  <2>2. received[fds[n]] = 0 /\ replied[fds[n]] = 0
    <3>1. \A h \in 1 .. Len(handlers) : fds[h] # fds[n]
      BY <1>2, <1>3, <1>4, <2>1 DEF ConnsInv
    <3> QED
      BY <1>2, <2>1, <3>1 DEF RepliesInv
  <2>3. \A h \in 1 .. Len(handlers') :
          received[fds[h]] = replied[fds[h]] + (IF handlers'[h].pc = "send" THEN 1 ELSE 0)
    <3> SUFFICES ASSUME NEW h \in 1 .. Len(handlers')
                 PROVE  received[fds[h]] =
                          replied[fds[h]] + (IF handlers'[h].pc = "send" THEN 1 ELSE 0)
      OBVIOUS
    <3>1. CASE h = n
      BY <1>6, <2>2, <3>1
    <3>2. CASE h \in 1 .. Len(handlers)
      BY <1>2, <1>6, <3>2 DEF RepliesInv
    <3> QED
      BY <1>7, <3>1, <3>2
  <2>4. 1 .. Len(handlers) \subseteq 1 .. Len(handlers')
    BY <1>3, <1>6
  <2>5. \A c \in Conns :
          (\A h \in 1 .. Len(handlers') : fds[h] # c) => received[c] = 0 /\ replied[c] = 0
    BY <1>2, <2>4 DEF RepliesInv
  <2> QED
    BY <1>1, <2>3, <2>5 DEF RepliesInv
<1>11. ConnsInv' /\ BytesInv' /\ PiecesInv' /\ RefusedInv'
  BY <1>1 DEF IInv, ConnsInv, BytesInv, PiecesInv, RefusedInv
<1>12. DeathsExplained'
  BY <1>1 DEF DeathsExplained
<1> QED
  BY <1>8, <1>9, <1>10, <1>11, <1>12 DEF IInv

(* What a handler does concerns its own connection only.                   *)
LEMMA HandlerKeeps ==
  ASSUME IInv, NEW h \in DOMAIN handlers, NEW p \in {"recv", "send", "done"}, Goto(h, p),
         UNCHANGED <<backlog, fds, acceptor, accepted>>,
         \A d \in Conns : peer[d] # "new" => peer'[d] # "new",
         \A d \in Conns \ {ConnOf(h)} : received'[d] = received[d] /\ replied'[d] = replied[d],
         received'[ConnOf(h)] = replied'[ConnOf(h)] + (IF p = "send" THEN 1 ELSE 0)
  PROVE  /\ handlers' \in Seq(Handler)
         /\ AcceptInv' /\ ConnsInv' /\ RepliesInv'
<1>1. TypeOK /\ AcceptInv /\ ConnsInv /\ RepliesInv
  BY DEF IInv
<1>2. /\ handlers' \in Seq(Handler) /\ Len(handlers') = Len(handlers)
      /\ \A k \in 1 .. Len(handlers) :
           /\ handlers'[k].fd = handlers[k].fd
           /\ handlers'[k].pc = IF k = h THEN p ELSE handlers[k].pc
  BY <1>1, GotoFacts
<1>3. h \in 1 .. Len(handlers) /\ ConnOf(h) = fds[h]
  BY <1>1, HandlerConn
<1>4. AcceptInv'
  BY <1>1, <1>2 DEF AcceptInv
<1>5. /\ \A i \in 1 .. Len(fds) : fds[i] \in Conns
      /\ \A j \in 1 .. Len(backlog) : backlog[j] \in Conns
  BY <1>1, ElementOfSeq DEF TypeOK
<1>6. ConnsInv'
  BY <1>1, <1>5 DEF ConnsInv
<1>7. /\ Len(handlers) \in Nat /\ Len(fds) \in Nat /\ Len(handlers) <= Len(fds)
      /\ \A k \in 1 .. Len(handlers) : k \in 1 .. Len(fds)
  <2>1. Len(handlers) \in Nat /\ Len(fds) \in Nat
    BY <1>1, LenProperties DEF TypeOK
  <2> QED
    BY <1>1, <2>1 DEF AcceptInv
<1>8. \A k \in 1 .. Len(handlers) :
        received'[fds[k]] = replied'[fds[k]] + (IF handlers'[k].pc = "send" THEN 1 ELSE 0)
  <2> SUFFICES ASSUME NEW k \in 1 .. Len(handlers)
               PROVE  received'[fds[k]] =
                        replied'[fds[k]] + (IF handlers'[k].pc = "send" THEN 1 ELSE 0)
    OBVIOUS
  <2>1. CASE k = h
    BY <1>2, <1>3, <2>1
  <2>2. CASE k # h
    <3>1. fds[k] # fds[h] /\ fds[k] \in Conns
      BY <1>1, <1>3, <1>5, <1>7, <2>2 DEF ConnsInv
    <3>2. received'[fds[k]] = received[fds[k]] /\ replied'[fds[k]] = replied[fds[k]]
      BY <1>3, <3>1
    <3>3. handlers'[k].pc = handlers[k].pc
      BY <1>2, <2>2
    <3> QED
      BY <1>1, <3>2, <3>3 DEF RepliesInv
  <2> QED
    BY <2>1, <2>2
<1>9. \A c \in Conns :
        (\A k \in 1 .. Len(handlers) : fds[k] # c) => received'[c] = 0 /\ replied'[c] = 0
  <2> SUFFICES ASSUME NEW c \in Conns, \A k \in 1 .. Len(handlers) : fds[k] # c
               PROVE  received'[c] = 0 /\ replied'[c] = 0
    OBVIOUS
  <2>1. c # ConnOf(h)
    BY <1>3
  <2> QED
    BY <1>1, <2>1 DEF RepliesInv
<1>10. RepliesInv'
  BY <1>2, <1>8, <1>9 DEF RepliesInv
<1> QED
  BY <1>2, <1>4, <1>6, <1>10

LEMMA ReceiveKeeps == ASSUME IInv, NEW h \in DOMAIN handlers, Receive(h) PROVE IInv'
<1> DEFINE c == fds[h]
<1>1. TypeOK /\ AcceptInv /\ RepliesInv /\ server = "up" /\ handlers[h].pc = "recv"
  BY DEF IInv, Receive, HandlerAt
<1>2. c \in Conns /\ ConnOf(h) = c /\ h \in 1 .. Len(handlers)
  BY <1>1, HandlerConn
<1>3. PICK n \in 1 .. stream[c] : stream' = [stream EXCEPT ![c] = stream[c] - n]
  BY <1>2 DEF Receive
<1>4. /\ received' = [received EXCEPT ![c] = received[c] + 1] /\ Goto(h, "send")
      /\ UNCHANGED <<peer, sent, unread, backlog, fds, acceptor, accepted, replied, taken,
                     server>>
  BY <1>2 DEF Receive, peerVars
<1>5. \A d \in Conns : /\ stream[d] \in Nat /\ received[d] \in Nat /\ replied[d] \in Nat
                       /\ sent[d] \in Nat
  BY <1>1 DEF TypeOK
<1>6. stream[c] - n \in Nat /\ n \in Nat /\ n > 0 /\ received[c] + 1 \in Nat
  BY <1>2, <1>3, <1>5
<1>7. \A d \in Conns : /\ stream'[d] = IF d = c THEN stream[d] - n ELSE stream[d]
                       /\ received'[d] = IF d = c THEN received[d] + 1 ELSE received[d]
  BY <1>1, <1>3, <1>4 DEF TypeOK
<1>8. received[c] = replied[c] /\ received'[c] = replied'[c] + 1
  BY <1>1, <1>2, <1>4, <1>5, <1>7 DEF RepliesInv
<1>9. handlers' \in Seq(Handler) /\ AcceptInv' /\ ConnsInv' /\ RepliesInv'
  BY <1>2, <1>4, <1>7, <1>8, HandlerKeeps
<1>10. TypeOK'
  BY <1>1, <1>3, <1>4, <1>6, <1>9 DEF TypeOK
<1>11. BytesInv'
  <2> SUFFICES ASSUME NEW d \in Conns
               PROVE  /\ received'[d] + stream'[d] <= sent[d]
                      /\ stream'[d] < sent[d] => received'[d] > 0
    BY <1>4 DEF BytesInv
  <2>1. received[d] + stream[d] <= sent[d] /\ (stream[d] < sent[d] => received[d] > 0)
    BY DEF IInv, BytesInv
  <2> QED
    BY <1>5, <1>6, <1>7, <2>1
<1>12. PiecesInv' /\ RefusedInv'
  BY <1>4 DEF IInv, PiecesInv, RefusedInv
<1>13. DeathsExplained'
  BY <1>1, <1>4 DEF DeathsExplained
<1> QED
  BY <1>9, <1>10, <1>11, <1>12, <1>13 DEF IInv

LEMMA ReceiveNothingKeeps ==
  ASSUME IInv, NEW h \in DOMAIN handlers, ReceiveNothing(h)
  PROVE  IInv'
<1>1. TypeOK /\ AcceptInv /\ RepliesInv /\ server = "up" /\ handlers[h].pc = "recv"
  BY DEF IInv, ReceiveNothing, HandlerAt
<1>2. ConnOf(h) = fds[h] /\ fds[h] \in Conns /\ h \in 1 .. Len(handlers)
  BY <1>1, HandlerConn
<1>3. /\ Goto(h, "done")
      /\ UNCHANGED <<peer, sent, stream, unread, backlog, fds, acceptor, accepted, received,
                     replied, taken, server>>
  BY DEF ReceiveNothing, peerVars
<1>4. received[fds[h]] = replied[fds[h]] + 0
  BY <1>1, <1>2 DEF RepliesInv
<1>5. handlers' \in Seq(Handler) /\ AcceptInv' /\ ConnsInv' /\ RepliesInv'
  BY <1>2, <1>3, <1>4, HandlerKeeps
<1>6. TypeOK'
  BY <1>1, <1>3, <1>5 DEF TypeOK
<1>7. BytesInv' /\ PiecesInv' /\ RefusedInv'
  BY <1>3 DEF IInv, BytesInv, PiecesInv, RefusedInv
<1>8. DeathsExplained'
  BY <1>1, <1>3 DEF DeathsExplained
<1> QED
  BY <1>5, <1>6, <1>7, <1>8 DEF IInv

(* A reply more, of which at least what there is room for is taken.        *)
LEMMA SendKeeps == ASSUME IInv, NEW h \in DOMAIN handlers, Send(h) PROVE IInv'
<1> DEFINE c == fds[h]
           n == IF peer[c] = "closed" THEN ReplySize ELSE Fitting(c)
<1>1. TypeOK /\ AcceptInv /\ RepliesInv /\ server = "up" /\ handlers[h].pc = "send"
  BY DEF IInv, Send, HandlerAt
<1>2. c \in Conns /\ ConnOf(h) = c /\ h \in 1 .. Len(handlers)
  BY <1>1, HandlerConn
<1>3. /\ \/ /\ peer[c] \in {"open", "shut"}
            /\ unread' = [unread EXCEPT ![c] = unread[c] + n]
            /\ UNCHANGED peer
         \/ /\ peer[c] = "closed"
            /\ peer' = [peer EXCEPT ![c] = "refused"]
            /\ UNCHANGED unread
      /\ taken' = [taken EXCEPT ![c] = taken[c] + n]
      /\ replied' = [replied EXCEPT ![c] = replied[c] + 1]
      /\ Goto(h, "recv")
      /\ UNCHANGED <<sent, stream, backlog, fds, acceptor, accepted, received, server>>
  BY <1>2 DEF Send
<1>4. ReplySize \in Nat /\ ReplyRoom \in Nat
  BY TcpServerAssumption
<1>5. \A d \in Conns : /\ received[d] \in Nat /\ replied[d] \in Nat /\ taken[d] \in Nat
                       /\ unread[d] \in 0 .. ReplyRoom
  BY <1>1 DEF TypeOK
<1>6. /\ Fitting(c) \in 0 .. ReplySize /\ unread[c] + Fitting(c) \in 0 .. ReplyRoom
      /\ Fitting(c) < ReplySize => unread[c] + ReplySize > ReplyRoom
  BY <1>1, <1>2, FittingFacts
<1>7. n \in 0 .. ReplySize /\ n \in Nat
  BY <1>4, <1>6
<1>8. \/ /\ peer' = peer /\ n = Fitting(c)
         /\ unread' = [unread EXCEPT ![c] = unread[c] + Fitting(c)]
      \/ /\ unread' = unread /\ n = ReplySize
         /\ peer' = [peer EXCEPT ![c] = "refused"]
  BY <1>3
<1> HIDE DEF n
<1>9. /\ taken' \in [Conns -> Nat] /\ replied' \in [Conns -> Nat]
      /\ \A d \in Conns : /\ taken'[d] = IF d = c THEN taken[d] + n ELSE taken[d]
                          /\ replied'[d] = IF d = c THEN replied[d] + 1 ELSE replied[d]
  <2>1. taken[c] + n \in Nat /\ replied[c] + 1 \in Nat
    BY <1>2, <1>5, <1>7
  <2> QED
    BY <1>1, <1>3, <2>1 DEF TypeOK
<1>10. /\ peer' \in [Conns -> {"new", "open", "shut", "closed", "reset", "refused"}]
       /\ unread' \in [Conns -> 0 .. ReplyRoom]
       /\ \A d \in Conns : peer[d] # "new" => peer'[d] # "new"
       /\ \A d \in Conns : d # c => peer'[d] = peer[d]
  BY <1>1, <1>2, <1>6, <1>8 DEF TypeOK
<1>11. /\ \A d \in Conns \ {c} : unread'[d] = unread[d]
       /\ \/ unread'[c] = unread[c] /\ n = ReplySize
          \/ unread'[c] = unread[c] + n /\ n = Fitting(c)
  BY <1>1, <1>2, <1>8 DEF TypeOK
<1>12. received[c] = replied[c] + 1
  BY <1>1, <1>2 DEF RepliesInv
<1>13. received'[c] = replied'[c] + 0
  BY <1>2, <1>3, <1>5, <1>9, <1>12
<1>14. handlers' \in Seq(Handler) /\ AcceptInv' /\ ConnsInv' /\ RepliesInv'
  BY <1>2, <1>3, <1>9, <1>10, <1>13, HandlerKeeps
<1>15. TypeOK'
  BY <1>1, <1>3, <1>9, <1>10, <1>14 DEF TypeOK
<1>16. BytesInv'
  BY <1>3 DEF IInv, BytesInv
<1>17. PiecesInv'
  <2> SUFFICES ASSUME NEW d \in Conns
               PROVE  /\ unread'[d] <= taken'[d]
                      /\ taken'[d] <= replied'[d] * ReplySize
                      /\ taken'[d] < replied'[d] * ReplySize =>
                           replied'[d] * ReplySize > ReplyRoom
    BY DEF PiecesInv
  <2> DEFINE r == replied[d] * ReplySize
  <2>1. /\ unread[d] <= taken[d] /\ taken[d] <= r
        /\ taken[d] < r => r > ReplyRoom
    BY DEF IInv, PiecesInv
  <2>2. r \in Nat /\ taken[d] \in Nat /\ unread[d] \in Nat
    BY <1>4, <1>5, NextProduct
  <2>3. CASE d # c
    BY <1>9, <1>11, <2>1, <2>3
  <2>4. CASE d = c
    <3>1. replied'[d] * ReplySize = r + ReplySize
      BY <1>2, <1>4, <1>5, <1>9, <2>4, NextProduct
    <3>2. taken'[d] = taken[d] + n
      BY <1>9, <2>4
    <3>3. n <= ReplySize /\ (n < ReplySize => unread[d] + ReplySize > ReplyRoom)
      BY <1>4, <1>6, <1>7, <1>11, <2>4
    <3>4. unread'[d] <= unread[d] + n
      BY <1>7, <1>11, <2>2, <2>4
    <3>5. unread'[d] \in Int
      BY <1>7, <1>11, <2>2, <2>4
    <3> HIDE DEF r
    <3> QED
      BY <1>4, <1>7, <2>1, <2>2, <3>1, <3>2, <3>3, <3>4, <3>5
  <2> QED
    BY <2>3, <2>4
<1>18. RefusedInv'
  <2> SUFFICES ASSUME NEW d \in Conns, peer'[d] = "refused"
               PROVE  replied'[d] > 0
    BY DEF RefusedInv
  <2>1. CASE d = c
    BY <1>5, <1>9, <2>1
  <2>2. CASE d # c
    <3>1. peer[d] = "refused"
      BY <1>10, <2>2
    <3>2. replied[d] > 0
      BY <3>1 DEF IInv, RefusedInv
    <3> QED
      BY <1>9, <2>2, <3>2
  <2> QED
    BY <2>1, <2>2
<1>19. DeathsExplained'
  BY <1>1, <1>3 DEF DeathsExplained
<1> QED
  BY <1>14, <1>15, <1>16, <1>17, <1>18, <1>19 DEF IInv

LEMMA SendFailsKeeps == ASSUME IInv, NEW h \in DOMAIN handlers, SendFails(h) PROVE IInv'
<1>1. /\ TypeOK /\ AcceptInv /\ RepliesInv /\ handlers[h].pc = "send"
      /\ peer[ConnOf(h)] \in {"reset", "refused"}
  BY DEF IInv, SendFails, HandlerAt, Broken
<1>2. ConnOf(h) = fds[h] /\ fds[h] \in Conns /\ h \in 1 .. Len(handlers)
  BY <1>1, HandlerConn
<1>3. /\ server' = "bad sendmsg"
      /\ UNCHANGED <<peer, sent, stream, unread, backlog, fds, acceptor, accepted, handlers,
                     received, replied, taken>>
  BY DEF SendFails, peerVars, handlerVars
<1>4. TypeOK'
  BY <1>1, <1>3 DEF TypeOK
<1>5. AcceptInv' /\ ConnsInv' /\ RepliesInv' /\ BytesInv' /\ PiecesInv' /\ RefusedInv'
  <2>1. AcceptInv' /\ ConnsInv'
    BY <1>3 DEF IInv, AcceptInv, ConnsInv
  <2>2. RepliesInv'
    BY <1>3 DEF IInv, RepliesInv
  <2>3. BytesInv' /\ PiecesInv' /\ RefusedInv'
    BY <1>3 DEF IInv, BytesInv, PiecesInv, RefusedInv
  <2> QED
    BY <2>1, <2>2, <2>3
<1>6. received[fds[h]] = replied[fds[h]] + 1
  BY <1>1, <1>2 DEF RepliesInv
<1>7. peer[fds[h]] = "refused" => received[fds[h]] >= 2
  <2>1. received[fds[h]] \in Nat /\ replied[fds[h]] \in Nat
    BY <1>1, <1>2 DEF TypeOK
  <2>2. peer[fds[h]] = "refused" => replied[fds[h]] > 0
    BY <1>2 DEF IInv, RefusedInv
  <2> QED
    BY <1>6, <2>1, <2>2
<1>8. DeathsExplained'
  <2>1. /\ received'[fds[h]] = replied'[fds[h]] + 1
        /\ \/ peer'[fds[h]] = "reset"
           \/ peer'[fds[h]] = "refused" /\ received'[fds[h]] >= 2
    BY <1>1, <1>2, <1>3, <1>6, <1>7
  <2> QED
    BY <1>2, <1>3, <2>1 DEF DeathsExplained
<1> QED
  BY <1>4, <1>5, <1>8 DEF IInv

LEMMA StepKeeps == ASSUME IInv, [Next]_vars PROVE IInv'
<1>1. CASE UNCHANGED vars
  <2>1. UNCHANGED <<peer, sent, stream, unread, backlog, fds, acceptor, accepted, handlers,
                    received, replied, taken, server>>
    BY <1>1 DEF vars
  <2>2. TypeOK'
    BY <2>1 DEF IInv, TypeOK
  <2>3. AcceptInv' /\ ConnsInv'
    BY <2>1 DEF IInv, AcceptInv, ConnsInv
  <2>4. RepliesInv'
    BY <2>1 DEF IInv, RepliesInv
  <2>5. BytesInv' /\ PiecesInv' /\ RefusedInv'
    BY <2>1 DEF IInv, BytesInv, PiecesInv, RefusedInv
  <2>6. DeathsExplained'
    BY <2>1 DEF IInv, DeathsExplained
  <2> QED
    BY <2>2, <2>3, <2>4, <2>5, <2>6 DEF IInv
<1>2. ASSUME NEW c \in Conns, PeerStep(c) PROVE IInv'
  BY <1>2, ConnectKeeps, PeerTalks DEF PeerStep
<1>3. ASSUME NEW h \in DOMAIN handlers, HandlerStep(h) PROVE IInv'
  BY <1>3, ReceiveKeeps, ReceiveNothingKeeps, SendKeeps, SendFailsKeeps DEF HandlerStep
<1> QED
  BY <1>1, <1>2, <1>3, ListenKeeps, AcceptKeeps, SpawnKeeps DEF Next

(* Inductive: the invariant above holds of the server (srv2.cc:74-103)     *)
(* whatever its peers and the kernel do.                                   *)
THEOREM Inductive == Spec => []IInv
<1>1. Init => IInv
  BY InitInv
<1>2. IInv /\ [Next]_vars => IInv'
  BY StepKeeps
<1> QED
  BY <1>1, <1>2, PTL DEF Spec

-----------------------------------------------------------------------------
(* What it implies.                                                        *)

LEMMA AnswersFollow == IInv => OneReplyPerReceive
<1> SUFFICES ASSUME IInv, NEW c \in Conns
             PROVE  /\ received[c] = replied[c] + (IF Answering(c) THEN 1 ELSE 0)
                    /\ replied[c] <= sent[c] - stream[c]
                    /\ ~Answering(c) /\ stream[c] < sent[c] => replied[c] > 0
  BY DEF OneReplyPerReceive
<1>1. TypeOK /\ AcceptInv /\ ConnsInv /\ RepliesInv
  BY DEF IInv
<1>2. \A h \in DOMAIN handlers : /\ h \in 1 .. Len(handlers) /\ h \in 1 .. Len(fds)
                                 /\ handlers[h].fd = h
  BY <1>1, HandlerConn
<1>3. DOMAIN handlers = 1 .. Len(handlers)
  BY <1>1, LenProperties DEF TypeOK
<1>4. /\ received[c] \in Nat /\ replied[c] \in Nat /\ sent[c] \in Nat /\ stream[c] \in Nat
      /\ received[c] + stream[c] <= sent[c]
      /\ stream[c] < sent[c] => received[c] > 0
  BY <1>1 DEF TypeOK, IInv, BytesInv
<1>5. received[c] = replied[c] + (IF Answering(c) THEN 1 ELSE 0)
  <2>1. CASE \E h \in 1 .. Len(handlers) : fds[h] = c
    <3>1. PICK h \in 1 .. Len(handlers) : fds[h] = c
      BY <2>1
    <3>2. Answering(c) <=> handlers[h].pc = "send"
      <4>1. \A k \in DOMAIN handlers : fds[handlers[k].fd] = c => k = h
        BY <1>1, <1>2, <1>3, <3>1 DEF ConnsInv
      <4>2. fds[handlers[h].fd] = c
        BY <1>2, <1>3, <3>1
      <4> QED
        BY <1>3, <4>1, <4>2 DEF Answering
    <3> QED
      BY <1>1, <3>1, <3>2 DEF RepliesInv
  <2>2. CASE \A h \in 1 .. Len(handlers) : fds[h] # c
    <3>1. ~Answering(c)
      BY <1>2, <2>2 DEF Answering
    <3>2. received[c] = 0 /\ replied[c] = 0
      BY <1>1, <2>2 DEF RepliesInv
    <3> QED
      BY <3>1, <3>2
  <2> QED
    BY <2>1, <2>2
<1>6. received[c] >= replied[c] /\ (~Answering(c) => received[c] = replied[c])
  BY <1>4, <1>5
<1> QED
  BY <1>4, <1>5, <1>6

(* TypeCorrect: every variable of the server (srv2.cc:74-103) has its      *)
(* type.                                                                   *)
THEOREM TypeCorrect == Spec => []TypeOK
<1>1. IInv => TypeOK
  BY DEF IInv
<1> QED
  BY <1>1, Inductive, PTL

(* AnsweredOnce: however many handlers wait, each answers its own          *)
(* connection, once per receive (srv2.cc:83-101).                          *)
THEOREM AnsweredOnce == Spec => []OneReplyPerReceive
BY AnswersFollow, Inductive, PTL

(* CutExplained: a reply is cut only on a connection that the replies      *)
(* would fill unread (srv2.cc:100).                                        *)
THEOREM CutExplained == Spec => []CutOnlyIfUnread
<1>1. IInv => CutOnlyIfUnread
  BY DEF IInv, PiecesInv, CutOnlyIfUnread
<1> QED
  BY <1>1, Inductive, PTL

(* DeathsAccounted: the process dies of a send only on a connection with a *)
(* receive unanswered, reset by its peer, or refused by a peer that closed *)
(* it and from which it had received at least twice; and of an accept only *)
(* with as many connections accepted as it may hold (submitter.cc:203-205, *)
(* 216-218).                                                               *)
THEOREM DeathsAccounted == Spec => []DeathsExplained
<1>1. IInv => DeathsExplained
  BY DEF IInv
<1> QED
  BY <1>1, Inductive, PTL

=============================================================================
