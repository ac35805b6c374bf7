--------------------------- MODULE ExecutorProofs ---------------------------
(***************************************************************************)
(* The dispatch loop for any number of requests: what its cookies point    *)
(* to, who owns each slot, stack and buffer, that the ring of eight always *)
(* has an entry, and what is sent to whom.                                 *)
(***************************************************************************)
EXTENDS Executor, SequenceTheorems, FiniteSetTheorems, TLAPS

(* Where the completion of a slot is: it is owed one by an entry the       *)
(* kernel has not taken, by an operation, or has it in the completion      *)
(* queue.                                                                  *)
InSq(s) == \E i \in taken + 1 .. Len(sq) : sq[i].cookie = s
InFlight(s) == \E e \in inflight : e.cookie = s
InCq(s) == \E i \in 1 .. Len(cq) : cq[i].cookie = s

Owed(s) == InSq(s) \/ InFlight(s) \/ InCq(s)

(* A slot is owed at most one.                                             *)
OneCompletion ==
  /\ \A i, j \in taken + 1 .. Len(sq) : sq[i].cookie = sq[j].cookie => i = j
  /\ \A e, f \in inflight : e.cookie = f.cookie => e = f
  /\ \A i, j \in 1 .. Len(cq) : cq[i].cookie = cq[j].cookie => i = j
  /\ \A s : ~(InSq(s) /\ InFlight(s)) /\ ~(InSq(s) /\ InCq(s)) /\ ~(InFlight(s) /\ InCq(s))

(* Only the first slot receives.                                           *)
OpsInv ==
  /\ \A i \in 1 .. Len(sq) : sq[i].op = "recv" <=> sq[i].cookie = 1
  /\ \A e \in inflight : e.op = "recv" <=> e.cookie = 1
  /\ \A i \in 1 .. Len(cq) : cq[i].op = "recv" <=> cq[i].cookie = 1

(* The receive and the reply of each turn of the loop, and one reply of    *)
(* the turn before.                                                        *)
QueueInv ==
  /\ taken <= 3
  /\ Len(sq) - taken <=
       (IF InSq(1) THEN 2 ELSE 0) + (IF epc = "poll" THEN 1 ELSE 0)

RingInv == TypeOK /\ OneCompletion /\ OpsInv /\ QueueInv

(* The first slot holds a request, every other a handler; who is owed a    *)
(* completion waits for one; who has ended is in the pool.                 *)
SlotInv ==
  /\ Len(slots) >= 1 /\ slots[1].kind = "request" /\ ~slots[1].finished
  /\ slots[1].reply = NoRequest
  /\ \A s \in 2 .. Len(slots) :
       /\ slots[s].kind = "handler"
       /\ slots[s].reply # NoRequest <=> ~slots[s].finished /\ ~(epc = "jump" /\ s = current)
       /\ slots[s].finished <=> \E i \in 1 .. Len(slot_pool) : slot_pool[i] = s
  /\ \A s : Owed(s) => s \in 1 .. Len(slots) /\ (s = 1 \/ slots[s].reply # NoRequest)
  /\ epc = "jump" => current \in 2 .. Len(slots) /\ ~slots[current].finished
  /\ \A i \in 1 .. Len(slot_pool) : slot_pool[i] # 1
  /\ \A i, j \in 1 .. Len(slot_pool) : slot_pool[i] = slot_pool[j] => i = j

(* A stack is in the pool or a handler runs on it.                         *)
StackInv ==
  /\ \A s, t \in Running : slots[s].stack = slots[t].stack => s = t
  /\ \A s \in Running :
       /\ slots[s].stack \in 1 .. nstacks
       /\ \A i \in 1 .. Len(stacks) : stacks[i] # slots[s].stack
  /\ \A i, j \in 1 .. Len(stacks) : stacks[i] = stacks[j] => i = j
  /\ nstacks = Len(stacks) + Cardinality(Running)

Live(s) == s \in 1 .. Len(slots) /\ ~slots[s].finished
Replying(s) == s \in 1 .. Len(slots) /\ slots[s].reply # NoRequest

(* A buffer belongs to one request, which is received, answered or sent,   *)
(* or in the pool.                                                         *)
BufferInv ==
  /\ \A s : Live(s) => slots[s].req.buf \in 1 .. Len(mem)
  /\ \A s : Replying(s) => slots[s].reply.buf \in 1 .. Len(mem)
  /\ \A i \in 1 .. Len(requests) : requests[i].buf \in 1 .. Len(mem)
  /\ \A s, t : Live(s) /\ Live(t) /\ slots[s].req.buf = slots[t].req.buf => s = t
  /\ \A s, t : Replying(s) /\ Replying(t) /\ slots[s].reply.buf = slots[t].reply.buf => s = t
  /\ \A s, t : Live(s) /\ Replying(t) => slots[s].req.buf # slots[t].reply.buf
  /\ \A i \in 1 .. Len(requests) :
       /\ \A s : Live(s) => requests[i].buf # slots[s].req.buf
       /\ \A s : Replying(s) => requests[i].buf # slots[s].reply.buf
  /\ \A i, j \in 1 .. Len(requests) : requests[i].buf = requests[j].buf => i = j

(* What a request holds is what the peer in its address sent.              *)
Genuine(r) == r.addr \in Peers /\ mem[r.buf] = r.addr

DataInv ==
  /\ InCq(1) => Genuine(slots[1].req)
  /\ epc = "jump" => Genuine(slots[current].req)
  /\ \A s : Replying(s) => Genuine(slots[s].reply)
  /\ OwnReply

(* The length of some reply that has been sent.                            *)
Told(n) == \E j \in 1 .. Len(sent) : sent[j].len = n

(* The length of a request, as received.                                   *)
CutAsTold(n, p) == n = Size[p] \/ (n < Size[p] /\ Told(n))

LenAsTold(r) == r.len = BufLen \/ Told(r.len)

LengthInv ==
  /\ LenAsTold(slots[1].req)
  /\ \A i \in 1 .. Len(requests) : LenAsTold(requests[i])
  /\ \A i \in 1 .. Len(cq) :
       IF cq[i].cookie = 1 THEN CutAsTold(cq[i].res, slots[1].req.addr)
                           ELSE Told(slots[cq[i].cookie].reply.len)
  /\ epc = "jump" => CutAsTold(slots[current].res, slots[current].req.addr)
  /\ \A s : Replying(s) =>
       \E n \in Nat : slots[s].reply.len = 2 * n /\ CutAsTold(n, slots[s].reply.addr)
  /\ ShortOnlyAfterShort

IInv ==
  RingInv /\ SlotInv /\ StackInv /\ BufferInv /\ DataInv /\ LengthInv

-----------------------------------------------------------------------------
(* The ring.                                                               *)

(* The kernel takes what is in the submission queue (SQPOLL, as uring.cc   *)
(* sets it up): each untaken entry becomes an operation.                   *)
LEMMA TakeMoves ==
  ASSUME UringTypeOK, OneCompletion, OpsInv, Take
  PROVE  /\ UringTypeOK' /\ OneCompletion' /\ OpsInv'
         /\ \A s : Owed(s)' <=> Owed(s)
         /\ \A s : ~InSq(s)'
         /\ UNCHANGED cq /\ taken' = Len(sq) - taken /\ taken = 0 /\ UNCHANGED sq
<1>1. /\ sq \in Seq(Entry) /\ Len(sq) \in Nat /\ DOMAIN sq = 1 .. Len(sq)
      /\ taken = 0 /\ taken' = Len(sq) /\ sq' = sq /\ cq' = cq
      /\ inflight' = inflight \cup {sq[i] : i \in 1 .. Len(sq)}
      /\ \A i \in 1 .. Len(sq) : sq[i] \in Entry
  BY LenProperties, ElementOfSeq DEF UringTypeOK, Take
<1>2. \A s : InSq(s) <=> \E i \in 1 .. Len(sq) : sq[i].cookie = s
  BY <1>1 DEF InSq
<1>3. \A s : ~InSq(s)'
  BY <1>1 DEF InSq
<1>4. \A s : InFlight(s)' <=> InFlight(s) \/ InSq(s)
  BY <1>1, <1>2 DEF InFlight
<1>5. \A s : InCq(s)' <=> InCq(s)
  BY <1>1 DEF InCq
<1>6. \A e, f \in inflight' : e.cookie = f.cookie => e = f
  <2> SUFFICES ASSUME NEW e \in inflight', NEW f \in inflight', e.cookie = f.cookie
               PROVE  e = f
    OBVIOUS
  <2>1. CASE e \in inflight /\ f \in inflight
    BY <2>1 DEF OneCompletion
  <2>2. CASE e \in inflight /\ f \notin inflight
    <3>1. InFlight(e.cookie) /\ InSq(e.cookie)
      BY <1>1, <1>2, <2>2 DEF InFlight
    <3> QED
      BY <3>1 DEF OneCompletion
  <2>3. CASE e \notin inflight /\ f \in inflight
    <3>1. InFlight(f.cookie) /\ InSq(f.cookie)
      BY <1>1, <1>2, <2>3 DEF InFlight
    <3> QED
      BY <3>1 DEF OneCompletion
  <2>4. CASE e \notin inflight /\ f \notin inflight
    <3>1. PICK i \in 1 .. Len(sq) : sq[i] = e
      BY <1>1, <2>4
    <3>2. PICK j \in 1 .. Len(sq) : sq[j] = f
      BY <1>1, <2>4
    <3> QED
      BY <1>1, <3>1, <3>2 DEF OneCompletion
  <2> QED
    BY <2>1, <2>2, <2>3, <2>4
<1>7. OneCompletion'
  BY <1>1, <1>3, <1>4, <1>5, <1>6 DEF OneCompletion
<1>8. OpsInv'
  BY <1>1 DEF OpsInv
<1>9. UringTypeOK'
  BY <1>1 DEF UringTypeOK
<1> QED
  BY <1>1, <1>3, <1>4, <1>5, <1>7, <1>8, <1>9 DEF Owed

(* It gives the entries back after the whole batch.                        *)
LEMMA ReleaseMoves ==
  ASSUME UringTypeOK, OneCompletion, OpsInv, Release
  PROVE  /\ UringTypeOK' /\ OneCompletion' /\ OpsInv'
         /\ \A s : (InSq(s)' <=> InSq(s)) /\ (Owed(s)' <=> Owed(s))
         /\ UNCHANGED cq /\ taken' = 0 /\ Len(sq') = Len(sq) - taken
<1>1. /\ sq \in Seq(Entry) /\ Len(sq) \in Nat /\ taken \in 1 .. Len(sq)
      /\ taken' = 0 /\ sq' = SubSeq(sq, taken + 1, Len(sq))
      /\ UNCHANGED <<inflight, cq>>
      /\ \A i \in 1 .. Len(sq) : sq[i] \in Entry
  BY LenProperties, ElementOfSeq DEF UringTypeOK, Release
<1>2. /\ sq' \in Seq(Entry) /\ Len(sq') = Len(sq) - taken
      /\ \A i \in 1 .. Len(sq) - taken : sq'[i] = sq[taken + i]
  <2>1. \A i \in taken + 1 .. Len(sq) : sq[i] \in Entry
    BY <1>1
  <2>2. /\ sq' \in Seq(Entry)
        /\ Len(sq') = IF taken + 1 <= Len(sq) THEN Len(sq) - (taken + 1) + 1 ELSE 0
        /\ \A i \in 1 .. Len(sq) - (taken + 1) + 1 : sq'[i] = sq[taken + 1 + i - 1]
    BY <1>1, <2>1, SubSeqProperties
  <2> QED
    BY <1>1, <2>2
<1>3. /\ \A i \in 1 .. Len(sq') : taken + i \in taken + 1 .. Len(sq) /\ taken + i \in 1 .. Len(sq)
      /\ \A i \in taken + 1 .. Len(sq) : /\ i - taken \in 1 .. Len(sq')
                                         /\ sq'[i - taken] = sq[i]
  BY <1>1, <1>2
<1>4. \A s : InSq(s)' <=> InSq(s)
  <2> SUFFICES ASSUME NEW s
               PROVE  InSq(s)' <=> InSq(s)
    OBVIOUS
  <2>1. InSq(s)' <=> \E i \in 1 .. Len(sq') : sq'[i].cookie = s
    BY <1>1, <1>2 DEF InSq
  <2>2. (\E i \in 1 .. Len(sq') : sq'[i].cookie = s) => InSq(s)
    <3> SUFFICES ASSUME NEW i \in 1 .. Len(sq'), sq'[i].cookie = s
                 PROVE  InSq(s)
      OBVIOUS
    <3>1. taken + i \in taken + 1 .. Len(sq)
      BY <1>3
    <3>2. sq'[i] = sq[taken + i]
      BY <1>2
    <3> QED
      BY <3>1, <3>2 DEF InSq
  <2>3. InSq(s) => \E i \in 1 .. Len(sq') : sq'[i].cookie = s
    BY <1>3 DEF InSq
  <2> QED
    BY <2>1, <2>2, <2>3
<1>5. \A s : (InFlight(s)' <=> InFlight(s)) /\ (InCq(s)' <=> InCq(s))
  BY <1>1 DEF InFlight, InCq
<1>6. \A i, j \in taken' + 1 .. Len(sq') : sq'[i].cookie = sq'[j].cookie => i = j
  <2> SUFFICES ASSUME NEW i \in 1 .. Len(sq'), NEW j \in 1 .. Len(sq'),
                      sq'[i].cookie = sq'[j].cookie
               PROVE  i = j
    BY <1>1
  <2>1. sq[taken + i].cookie = sq[taken + j].cookie
    BY <1>2
  <2>2. taken + i = taken + j
    BY <1>3, <2>1 DEF OneCompletion
  <2> QED
    BY <1>1, <2>2
<1>7. OneCompletion'
  BY <1>1, <1>4, <1>5, <1>6 DEF OneCompletion
<1>8. OpsInv'
  BY <1>1, <1>2, <1>3 DEF OpsInv
<1>9. UringTypeOK'
  BY <1>1, <1>2 DEF UringTypeOK
<1> QED
  BY <1>1, <1>2, <1>4, <1>5, <1>7, <1>8, <1>9 DEF Owed

(* An operation completes.                                                 *)
LEMMA CompleteMoves ==
  ASSUME UringTypeOK, OneCompletion, OpsInv, NEW e \in inflight, NEW n \in Nat, Complete(e, n)
  PROVE  /\ UringTypeOK' /\ OneCompletion' /\ OpsInv'
         /\ e.cookie \in Nat /\ Owed(e.cookie) /\ ~InCq(e.cookie) /\ ~InSq(e.cookie)
         /\ e.op = "recv" <=> e.cookie = 1
         /\ \A s : /\ InSq(s)' <=> InSq(s)
                   /\ Owed(s)' <=> Owed(s)
                   /\ InCq(s)' <=> InCq(s) \/ s = e.cookie
         /\ UNCHANGED <<sq, taken>>
         /\ Len(cq') = Len(cq) + 1 /\ \A i \in 1 .. Len(cq) : cq'[i] = cq[i]
         /\ cq'[Len(cq) + 1] = [op |-> e.op, cookie |-> e.cookie, res |-> n]
<1> DEFINE c == [op |-> e.op, cookie |-> e.cookie, res |-> n]
<1>1. e \in Entry /\ c \in Cqe /\ cq \in Seq(Cqe) /\ Len(cq) \in Nat
  BY LenProperties DEF UringTypeOK, Entry, Cqe
<1>2. /\ cq' = Append(cq, c) /\ inflight' = inflight \ {e} /\ UNCHANGED <<sq, taken>>
      /\ c.cookie = e.cookie /\ c.op = e.op
  BY DEF Complete
<1> HIDE DEF c
<1>3. /\ cq' \in Seq(Cqe) /\ Len(cq') = Len(cq) + 1
      /\ \A i \in 1 .. Len(cq) : cq'[i] = cq[i]
      /\ cq'[Len(cq) + 1] = c
  BY <1>1, <1>2, AppendProperties
<1>4. /\ \A i \in 1 .. Len(cq') : i \in 1 .. Len(cq) \/ i = Len(cq) + 1
      /\ \A i \in 1 .. Len(cq) : i \in 1 .. Len(cq')
      /\ Len(cq) + 1 \in 1 .. Len(cq')
  BY <1>1, <1>3
<1>5. InFlight(e.cookie) /\ ~InCq(e.cookie) /\ ~InSq(e.cookie)
  BY DEF InFlight, OneCompletion
<1>6. \A s : InCq(s)' <=> InCq(s) \/ s = e.cookie
  BY <1>2, <1>3, <1>4 DEF InCq
<1>7. \A s : InFlight(s)' <=> InFlight(s) /\ s # e.cookie
  BY <1>2 DEF InFlight, OneCompletion
<1>8. \A s : InSq(s)' <=> InSq(s)
  BY <1>2 DEF InSq
<1>9. \A i, j \in 1 .. Len(cq') : cq'[i].cookie = cq'[j].cookie => i = j
  <2>1. \A i \in 1 .. Len(cq) : cq[i].cookie # e.cookie
    BY <1>5 DEF InCq
  <2> QED
    BY <1>2, <1>3, <1>4, <2>1 DEF OneCompletion
<1>10. OneCompletion'
  <2>1. \A f, g \in inflight' : f.cookie = g.cookie => f = g
    BY <1>2 DEF OneCompletion
  <2>2. \A i, j \in taken' + 1 .. Len(sq') : sq'[i].cookie = sq'[j].cookie => i = j
    BY <1>2 DEF OneCompletion
  <2>3. \A s : /\ ~(InSq(s)' /\ InFlight(s)') /\ ~(InSq(s)' /\ InCq(s)')
               /\ ~(InFlight(s)' /\ InCq(s)')
    BY <1>5, <1>6, <1>7, <1>8 DEF OneCompletion
  <2> QED
    BY <1>9, <2>1, <2>2, <2>3 DEF OneCompletion
<1>11. e.op = "recv" <=> e.cookie = 1
  BY DEF OpsInv
<1>12. OpsInv'
  BY <1>2, <1>3, <1>4, <1>11 DEF OpsInv
<1>13. UringTypeOK'
  BY <1>2, <1>3 DEF UringTypeOK
<1> QED
  BY <1>1, <1>2, <1>3, <1>5, <1>6, <1>7, <1>8, <1>10, <1>11, <1>12, <1>13
  DEF Owed, Entry, c

(* The oldest completion is polled (uring.cc:93-109).                      *)
LEMMA PollMoves ==
  ASSUME UringTypeOK, OneCompletion, OpsInv, PollCookie
  PROVE  /\ Head(cq) = cq[1] /\ Head(cq) \in Cqe /\ Polled \in Nat
         /\ Len(cq) \in Nat \ {0}
         /\ InCq(Polled) /\ ~InSq(Polled) /\ ~InFlight(Polled)
         /\ cq' \in Seq(Cqe) /\ Len(cq') = Len(cq) - 1
         /\ \A i \in 1 .. Len(cq') : i + 1 \in 1 .. Len(cq) /\ i + 1 # 1 /\ cq'[i] = cq[i + 1]
         /\ \A i, j \in 1 .. Len(cq') : cq'[i].cookie = cq'[j].cookie => i = j
         /\ \A i \in 1 .. Len(cq') : cq'[i].op = "recv" <=> cq'[i].cookie = 1
         /\ \A s : InCq(s)' <=> InCq(s) /\ s # Polled
         /\ \A s : InFlight(s)' <=> InFlight(s)
         /\ UNCHANGED <<taken, inflight>>
<1>1. cq \in Seq(Cqe) /\ cq # <<>> /\ cq' = Tail(cq) /\ UNCHANGED <<taken, inflight>>
  BY DEF UringTypeOK, PollCookie
<1>2. /\ Head(cq) \in Cqe /\ Head(cq) = cq[1] /\ Len(cq) \in Nat \ {0}
      /\ cq' \in Seq(Cqe) /\ Len(cq') = Len(cq) - 1
      /\ \A i \in 1 .. Len(cq') : cq'[i] = cq[i + 1]
  BY <1>1, HeadTailProperties, EmptySeq
<1>3. /\ \A i \in 1 .. Len(cq') : i + 1 \in 1 .. Len(cq) /\ i + 1 # 1
      /\ \A i \in 1 .. Len(cq) : i # 1 => i - 1 \in 1 .. Len(cq') /\ cq'[i - 1] = cq[i]
      /\ 1 \in 1 .. Len(cq)
  BY <1>2
<1>4. Polled \in Nat /\ Polled = cq[1].cookie
  BY <1>2 DEF Polled, Cqe
<1>5. InCq(Polled)
  BY <1>3, <1>4 DEF InCq
<1>6. \A s : InCq(s)' <=> InCq(s) /\ s # Polled
  <2> SUFFICES ASSUME NEW s
               PROVE  InCq(s)' <=> InCq(s) /\ s # Polled
    OBVIOUS
  <2>1. ASSUME InCq(s)'
        PROVE  InCq(s) /\ s # Polled
    <3>1. PICK i \in 1 .. Len(cq') : cq'[i].cookie = s
      BY <2>1 DEF InCq
    <3>2. cq[i + 1].cookie = s /\ i + 1 \in 1 .. Len(cq) /\ i + 1 # 1
      BY <1>2, <1>3, <3>1
    <3> QED
      BY <1>3, <1>4, <3>2 DEF InCq, OneCompletion
  <2>2. ASSUME InCq(s), s # Polled
        PROVE  InCq(s)'
    <3>1. PICK i \in 1 .. Len(cq) : cq[i].cookie = s
      BY <2>2 DEF InCq
    <3>2. i - 1 \in 1 .. Len(cq') /\ cq'[i - 1].cookie = s
      BY <1>3, <1>4, <2>2, <3>1
    <3> QED
      BY <3>2 DEF InCq
  <2> QED
    BY <2>1, <2>2
<1>7. \A i, j \in 1 .. Len(cq') : cq'[i].cookie = cq'[j].cookie => i = j
  <2> SUFFICES ASSUME NEW i \in 1 .. Len(cq'), NEW j \in 1 .. Len(cq'),
                      cq'[i].cookie = cq'[j].cookie
               PROVE  i = j
    OBVIOUS
  <2>1. i + 1 = j + 1
    BY <1>2, <1>3 DEF OneCompletion
  <2> QED
    BY <2>1
<1>8. \A i \in 1 .. Len(cq') : cq'[i].op = "recv" <=> cq'[i].cookie = 1
  BY <1>2, <1>3 DEF OpsInv
<1>9. \A s : InFlight(s)' <=> InFlight(s)
  BY <1>1 DEF InFlight
<1> QED
  BY <1>1, <1>2, <1>3, <1>4, <1>5, <1>6, <1>7, <1>8, <1>9 DEF OneCompletion

(* An entry is appended for a slot that has none in the queue              *)
(* (uring.cc:53-88).                                                       *)
LEMMA SubmitMoves ==
  ASSUME UringTypeOK, OneCompletion, OpsInv, NEW op \in {"recv", "send"}, NEW c \in Nat,
         ~InSq(c), op = "recv" <=> c = 1, Submit(op, c), UNCHANGED taken
  PROVE  /\ sq' \in Seq(Entry) /\ Len(sq') = Len(sq) + 1 /\ Len(sq) \in Nat
         /\ taken' \in 0 .. Len(sq')
         /\ \A s : InSq(s)' <=> InSq(s) \/ s = c
         /\ \A i, j \in taken' + 1 .. Len(sq') : sq'[i].cookie = sq'[j].cookie => i = j
         /\ \A i \in 1 .. Len(sq') : sq'[i].op = "recv" <=> sq'[i].cookie = 1
<1> DEFINE e == [op |-> op, cookie |-> c]
<1>1. /\ e \in Entry /\ sq \in Seq(Entry) /\ Len(sq) \in Nat /\ taken \in 0 .. Len(sq)
      /\ e.op = op /\ e.cookie = c
  BY LenProperties DEF UringTypeOK, Entry
<1>2. sq' = Append(sq, e)
  BY DEF Submit
<1> HIDE DEF e
<1>3. /\ sq' \in Seq(Entry) /\ Len(sq') = Len(sq) + 1
      /\ \A i \in 1 .. Len(sq) : sq'[i] = sq[i]
      /\ sq'[Len(sq) + 1] = e
  BY <1>1, <1>2, AppendProperties
<1>4. /\ \A i \in 1 .. Len(sq') : i \in 1 .. Len(sq) \/ i = Len(sq) + 1
      /\ \A i \in taken + 1 .. Len(sq') : i \in taken + 1 .. Len(sq) \/ i = Len(sq) + 1
      /\ \A i \in taken + 1 .. Len(sq) : i \in taken + 1 .. Len(sq') /\ i \in 1 .. Len(sq)
      /\ Len(sq) + 1 \in taken + 1 .. Len(sq')
      /\ taken' = taken /\ taken' \in 0 .. Len(sq')
  BY <1>1, <1>3
<1>5. \A s : InSq(s)' <=> InSq(s) \/ s = c
  <2>1. \A s : InSq(s)' <=> \E i \in taken + 1 .. Len(sq') : sq'[i].cookie = s
    BY <1>4 DEF InSq
  <2> QED
    BY <1>1, <1>3, <1>4, <2>1 DEF InSq
<1>6. \A i, j \in taken' + 1 .. Len(sq') : sq'[i].cookie = sq'[j].cookie => i = j
  <2>1. \A i \in taken + 1 .. Len(sq) : sq'[i].cookie # c
    BY <1>3, <1>4 DEF InSq
  <2>2. \A i, j \in taken + 1 .. Len(sq) : sq'[i].cookie = sq'[j].cookie => i = j
    BY <1>3, <1>4 DEF OneCompletion
  <2> QED
    BY <1>1, <1>3, <1>4, <2>1, <2>2
<1>7. \A i \in 1 .. Len(sq') : sq'[i].op = "recv" <=> sq'[i].cookie = 1
  BY <1>1, <1>3, <1>4 DEF OpsInv
<1> QED
  BY <1>1, <1>3, <1>4, <1>5, <1>6, <1>7

-----------------------------------------------------------------------------
(* The executor's state.                                                   *)

LEMMA Shapes ==
  ASSUME TypeOK
  PROVE  /\ slots \in Seq(Slot) /\ Len(slots) \in Nat /\ DOMAIN slots = 1 .. Len(slots)
         /\ \A s \in 1 .. Len(slots) : slots[s] \in Slot
         /\ mem \in Seq(Peers \cup {Nobody}) /\ Len(mem) \in Nat /\ DOMAIN mem = 1 .. Len(mem)
         /\ requests \in Seq(Request) /\ Len(requests) \in Nat
         /\ \A i \in 1 .. Len(requests) : requests[i] \in Request
         /\ stacks \in Seq(1 .. nstacks) /\ Len(stacks) \in Nat /\ nstacks \in Nat
         /\ \A i \in 1 .. Len(stacks) : stacks[i] \in 1 .. nstacks
         /\ slot_pool \in Seq(1 .. Len(slots)) /\ Len(slot_pool) \in Nat
         /\ \A i \in 1 .. Len(slot_pool) : slot_pool[i] \in 1 .. Len(slots)
         /\ Len(sent) \in Nat /\ DOMAIN sent = 1 .. Len(sent)
         /\ Len(sq) \in Nat /\ Len(cq) \in Nat /\ taken \in 0 .. Len(sq)
<1>1. slots \in Seq(Slot) /\ DOMAIN slots = 1 .. Len(slots)
  BY LenProperties DEF TypeOK
<1>2. slot_pool \in Seq(1 .. Len(slots))
  BY <1>1 DEF TypeOK
<1> QED
  BY <1>1, <1>2, LenProperties, ElementOfSeq DEF TypeOK, UringTypeOK

(* The parts of a slot and of a request.                                   *)
LEMMA Parts ==
  /\ \A x \in Slot : /\ x.kind \in {"request", "handler"} /\ x.req \in Request
                     /\ x.reply \in Request /\ x.stack \in Nat /\ x.res \in Nat
                     /\ x.finished \in BOOLEAN
  /\ \A r \in Request : r.buf \in Nat /\ r.len \in Nat /\ r.addr \in Peers \cup {Nobody}
  /\ NoRequest \in Request /\ NoRequest.buf = 0
BY DEF Slot, Request, NoRequest

(* Handlers that have not ended are the slots after the first that have    *)
(* not; there are finitely many.                                           *)
LEMMA RunningFacts ==
  ASSUME TypeOK, SlotInv
  PROVE  /\ Running = {s \in 2 .. Len(slots) : ~slots[s].finished}
         /\ IsFiniteSet(Running) /\ Cardinality(Running) \in Nat
         /\ \A s \in Running : Live(s) /\ s # 1
         /\ Live(1)
<1>1. Len(slots) \in Nat /\ DOMAIN slots = 1 .. Len(slots)
  BY Shapes
<1>2. Running = {s \in 2 .. Len(slots) : ~slots[s].finished}
  BY <1>1 DEF Running, SlotInv
<1>3. Running \subseteq 1 .. Len(slots)
  BY <1>1 DEF Running
<1>4. IsFiniteSet(1 .. Len(slots))
  BY <1>1, FS_Interval
<1>5. IsFiniteSet(Running)
  BY <1>3, <1>4, FS_Subset
<1>6. Cardinality(Running) \in Nat
  BY <1>5, FS_CardinalityType
<1> QED
  BY <1>1, <1>2, <1>5, <1>6 DEF Live, SlotInv

(* What get takes from a pool, and what it leaves (object_pool.h:64-71).   *)
LEMMA GetFacts ==
  ASSUME NEW S, NEW pool \in Seq(S), NEW made
  PROVE  /\ AfterGet(pool) \in Seq(S) /\ Len(pool) \in Nat
         /\ \/ /\ pool = <<>> /\ Got(pool, made) = made
               /\ AfterGet(pool) = pool /\ Len(pool) = 0
            \/ /\ pool # <<>> /\ Len(pool) > 0 /\ Got(pool, made) = pool[Len(pool)]
               /\ Got(pool, made) \in S
               /\ Len(AfterGet(pool)) = Len(pool) - 1
               /\ \A i \in 1 .. Len(AfterGet(pool)) :
                    i \in 1 .. Len(pool) /\ i # Len(pool) /\ AfterGet(pool)[i] = pool[i]
<1>1. Len(pool) \in Nat /\ (pool # <<>> => Len(pool) > 0) /\ (pool = <<>> => Len(pool) = 0)
  BY LenProperties, EmptySeq
<1>2. CASE pool = <<>>
  BY <1>1, <1>2 DEF AfterGet, Got
<1>3. CASE pool # <<>>
  <2> DEFINE m == Len(pool) - 1
             rest == SubSeq(pool, 1, m)
  <2>1. AfterGet(pool) = rest /\ Got(pool, made) = pool[Len(pool)]
    BY <1>3 DEF AfterGet, Got
  <2>2. m \in Nat /\ Len(pool) \in 1 .. Len(pool) /\ \A i \in 1 .. m : pool[i] \in S
    BY <1>1, <1>3, ElementOfSeq
  <2>3. pool[Len(pool)] \in S
    BY <2>2, ElementOfSeq
  <2> HIDE DEF m
  <2>4. /\ rest \in Seq(S) /\ Len(rest) = IF 1 <= m THEN m - 1 + 1 ELSE 0
        /\ \A i \in 1 .. m - 1 + 1 : rest[i] = pool[1 + i - 1]
    BY <2>2, SubSeqProperties
  <2>5. Len(rest) = m
    BY <2>2, <2>4
  <2>6. \A i \in 1 .. m : rest[i] = pool[i]
    <3> SUFFICES ASSUME NEW i \in 1 .. m
                 PROVE  rest[i] = pool[i]
      OBVIOUS
    <3>1. i \in 1 .. m - 1 + 1 /\ 1 + i - 1 = i
      BY <2>2
    <3> QED
      BY <2>4, <3>1
  <2> HIDE DEF rest
  <2>7. \A i \in 1 .. m : i \in 1 .. Len(pool) /\ i # Len(pool)
    BY <1>1 DEF m
  <2> QED
    BY <1>1, <1>3, <2>1, <2>3, <2>4, <2>5, <2>6, <2>7 DEF m
<1> QED
  BY <1>2, <1>3

(* As long as a completion is neither added nor polled and the executor    *)
(* does nothing, only the ring changes.                                    *)
LEMMA QuietKeeps ==
  ASSUME SlotInv, StackInv, BufferInv, DataInv, LengthInv,
         UNCHANGED <<cq, sent, slots, mem, nstacks, slot_pool, stacks, requests, epc, current>>,
         \A s : Owed(s)' <=> Owed(s)
  PROVE  SlotInv' /\ StackInv' /\ BufferInv' /\ DataInv' /\ LengthInv'
<1>1. SlotInv'
  BY DEF SlotInv
<1>2. Running' = Running
  BY DEF Running
<1>3. StackInv'
  BY <1>2 DEF StackInv
<1>4. BufferInv'
  BY DEF BufferInv, Live, Replying
<1>5. DataInv'
  BY DEF DataInv, InCq, Genuine, Replying, OwnReply
<1>6. LengthInv'
  BY DEF LengthInv, LenAsTold, CutAsTold, Told, Replying, ShortOnlyAfterShort
<1> QED
  BY <1>1, <1>3, <1>4, <1>5, <1>6

LEMMA InitInv == Init => IInv
<1> SUFFICES ASSUME Init
             PROVE  IInv
  OBVIOUS
<1> DEFINE e == [op |-> "recv", cookie |-> 1]
           r == [buf |-> 1, len |-> BufLen, addr |-> Nobody]
<1>1. /\ sq = <<e>> /\ taken = 0 /\ inflight = {} /\ cq = <<>> /\ sent = <<>> /\ inbox = <<>>
      /\ slots = <<RequestSlot(r)>> /\ mem = <<Nobody>> /\ nstacks = 0 /\ asked = 0
      /\ slot_pool = <<>> /\ stacks = <<>> /\ requests = <<>> /\ epc = "poll" /\ current = 0
  BY DEF Init, EmptyPool
<1>2. r \in Request /\ RequestSlot(r) \in Slot /\ e \in Entry
  BY ExecutorAssumption, Parts DEF Request, RequestSlot, Slot, Entry
<1>3. /\ Len(sq) = 1 /\ sq[1] = e /\ Len(cq) = 0 /\ Len(slots) = 1 /\ slots[1] = RequestSlot(r)
      /\ Len(mem) = 1 /\ Len(slot_pool) = 0 /\ Len(stacks) = 0 /\ Len(requests) = 0
      /\ Len(sent) = 0 /\ DOMAIN slots = 1 .. 1 /\ DOMAIN sent = 1 .. 0
  BY <1>1
<1>4. TypeOK
  BY <1>1, <1>2, <1>3, ExecutorAssumption DEF TypeOK, UringTypeOK
<1>5. /\ \A s : InSq(s) <=> s = 1
      /\ \A s : ~InFlight(s) /\ ~InCq(s)
  BY <1>1, <1>3 DEF InSq, InFlight, InCq
<1>6. OneCompletion /\ OpsInv /\ QueueInv
  BY <1>1, <1>3, <1>5 DEF OneCompletion, OpsInv, QueueInv
<1>7. SlotInv
  BY <1>1, <1>3, <1>5 DEF SlotInv, RequestSlot, Owed
<1>8. StackInv
  <2>1. Running = {}
    BY <1>3 DEF Running, RequestSlot
  <2>2. Cardinality(Running) = 0
    BY <2>1, FS_EmptySet
  <2> QED
    BY <1>1, <1>3, <2>1, <2>2 DEF StackInv
<1>9. BufferInv
  BY <1>1, <1>3 DEF BufferInv, Live, Replying, RequestSlot
<1>10. DataInv
  BY <1>1, <1>3, <1>5 DEF DataInv, Replying, RequestSlot, OwnReply
<1>11. LengthInv
  BY <1>1, <1>3 DEF LengthInv, Replying, RequestSlot, ShortOnlyAfterShort, LenAsTold
<1> QED
  BY <1>4, <1>6, <1>7, <1>8, <1>9, <1>10, <1>11 DEF IInv, RingInv

LEMMA ArriveKeeps == ASSUME IInv, NEW p \in Peers, Arrive(p) PROVE IInv'
<1>1. /\ asked < MaxRequests /\ asked' = asked + 1 /\ inbox' = Append(inbox, p)
      /\ UNCHANGED <<sq, taken, inflight, cq, sent, slots, mem, nstacks, slot_pool, stacks,
                     requests, epc, current>>
  BY DEF Arrive, uringVars, poolVars
<1>2. TypeOK /\ OneCompletion /\ OpsInv /\ QueueInv
  BY DEF IInv, RingInv
<1>3. TypeOK'
  <2>1. inbox' \in Seq(Peers)
    BY <1>1, <1>2, AppendProperties DEF TypeOK
  <2>2. asked' \in 0 .. MaxRequests
    BY <1>1, <1>2, ExecutorAssumption DEF TypeOK
  <2> QED
    BY <1>1, <1>2, <2>1, <2>2 DEF TypeOK, UringTypeOK
<1>4. \A s : InSq(s)' <=> InSq(s)
  BY <1>1 DEF InSq
<1>5. \A s : (InFlight(s)' <=> InFlight(s)) /\ (InCq(s)' <=> InCq(s))
  BY <1>1 DEF InFlight, InCq
<1>6. \A s : Owed(s)' <=> Owed(s)
  BY <1>4, <1>5 DEF Owed
<1>7. OneCompletion'
  BY <1>1, <1>2, <1>4, <1>5 DEF OneCompletion
<1>8. OpsInv' /\ QueueInv'
  BY <1>1, <1>2, <1>4 DEF OpsInv, QueueInv
<1>9. SlotInv' /\ StackInv' /\ BufferInv' /\ DataInv' /\ LengthInv'
  BY <1>1, <1>6, QuietKeeps DEF IInv
<1> QED
  BY <1>3, <1>7, <1>8, <1>9 DEF IInv, RingInv

LEMMA KernelThreadKeeps == ASSUME IInv, KernelThread PROVE IInv'
<1>1. UNCHANGED <<inbox, asked, sent, slots, mem, nstacks, slot_pool, stacks, requests, epc,
                  current>>
  BY DEF KernelThread, envVars, poolVars
<1>2. TypeOK /\ UringTypeOK /\ OneCompletion /\ OpsInv /\ QueueInv /\ Len(sq) \in Nat
  BY Shapes DEF IInv, RingInv, TypeOK
<1>3. CASE Take
  <2>1. /\ UringTypeOK' /\ OneCompletion' /\ OpsInv'
        /\ \A s : Owed(s)' <=> Owed(s)
        /\ \A s : ~InSq(s)'
        /\ UNCHANGED cq /\ taken' = Len(sq) - taken /\ taken = 0 /\ UNCHANGED sq
    BY <1>2, <1>3, TakeMoves
  <2>2. QueueInv'
    BY <1>1, <1>2, <2>1 DEF QueueInv
  <2>3. TypeOK'
    BY <1>1, <1>2, <2>1 DEF TypeOK
  <2>4. SlotInv' /\ StackInv' /\ BufferInv' /\ DataInv' /\ LengthInv'
    BY <1>1, <2>1, QuietKeeps DEF IInv
  <2> QED
    BY <2>1, <2>2, <2>3, <2>4 DEF IInv, RingInv
<1>4. CASE Release
  <2>1. /\ UringTypeOK' /\ OneCompletion' /\ OpsInv'
        /\ \A s : (InSq(s)' <=> InSq(s)) /\ (Owed(s)' <=> Owed(s))
        /\ UNCHANGED cq /\ taken' = 0 /\ Len(sq') = Len(sq) - taken
    BY <1>2, <1>4, ReleaseMoves
  <2>2. QueueInv'
    <3>1. Len(sq') - taken' = Len(sq) - taken
      BY <1>2, <2>1 DEF UringTypeOK
    <3> QED
      BY <1>1, <1>2, <2>1, <3>1 DEF QueueInv
  <2>3. TypeOK'
    BY <1>1, <1>2, <2>1 DEF TypeOK
  <2>4. SlotInv' /\ StackInv' /\ BufferInv' /\ DataInv' /\ LengthInv'
    BY <1>1, <2>1, QuietKeeps DEF IInv
  <2> QED
    BY <2>1, <2>2, <2>3, <2>4 DEF IInv, RingInv
<1> QED
  BY <1>3, <1>4 DEF KernelThread

(* The kernel receives into the request of the first slot, whose buffer    *)
(* nobody else has (uf.h:30-42).                                           *)
LEMMA ReceiveDoneKeeps == ASSUME IInv, NEW e \in inflight, ReceiveDone(e) PROVE IInv'
<1> DEFINE p == Head(inbox)
           r == slots[1].req
           n == IF Size[p] <= r.len THEN Size[p] ELSE r.len
           x == [slots[1] EXCEPT !.req = [r EXCEPT !.addr = p]]
<1>1. /\ TypeOK /\ UringTypeOK /\ OneCompletion /\ OpsInv /\ QueueInv /\ SlotInv /\ StackInv
      /\ BufferInv /\ DataInv /\ LengthInv
  BY DEF IInv, RingInv, TypeOK
<1>2. e.cookie = 1
  BY <1>1 DEF ReceiveDone, OpsInv
<1>3. /\ inbox # <<>> /\ inbox' = Tail(inbox)
      /\ UNCHANGED <<asked, sent, nstacks, slot_pool, stacks, requests, epc, current>>
      /\ mem' = [mem EXCEPT ![r.buf] = p]
      /\ slots' = [slots EXCEPT ![1] = x]
      /\ Complete(e, n)
  BY <1>2 DEF ReceiveDone, poolVars
<1>4. p \in Peers /\ inbox' \in Seq(Peers)
  BY <1>1, <1>3, HeadTailProperties DEF TypeOK
<1>5. /\ Len(slots) \in Nat /\ 1 \in 1 .. Len(slots) /\ slots \in Seq(Slot)
      /\ slots[1] \in Slot /\ r \in Request /\ r.len \in Nat /\ Live(1)
  BY <1>1, Shapes, Parts, RunningFacts DEF SlotInv
<1>6. Size[p] \in Nat /\ Size[p] <= BufLen /\ BufLen \in Nat
  BY <1>4, ExecutorAssumption
<1>7. n \in Nat
  BY <1>5, <1>6
<1>8. CutAsTold(n, p)
  <2>1. r.len = BufLen \/ Told(r.len)
    BY <1>1 DEF LengthInv, LenAsTold
  <2> QED
    BY <1>5, <1>6, <2>1 DEF CutAsTold
<1> HIDE DEF n, p
<1>9. /\ UringTypeOK' /\ OneCompletion' /\ OpsInv' /\ Owed(1) /\ ~InCq(1)
      /\ \A s : /\ InSq(s)' <=> InSq(s)
                /\ Owed(s)' <=> Owed(s)
                /\ InCq(s)' <=> InCq(s) \/ s = 1
      /\ UNCHANGED <<sq, taken>>
      /\ Len(cq') = Len(cq) + 1 /\ \A i \in 1 .. Len(cq) : cq'[i] = cq[i]
      /\ cq'[Len(cq) + 1] = [op |-> e.op, cookie |-> 1, res |-> n]
  BY <1>1, <1>2, <1>3, <1>7, CompleteMoves
<1>10. /\ x \in Slot /\ x.kind = slots[1].kind /\ x.reply = slots[1].reply
       /\ x.stack = slots[1].stack /\ x.finished = slots[1].finished
       /\ x.req.buf = r.buf /\ x.req.len = r.len /\ x.req.addr = p
  BY <1>4, <1>5, Parts DEF Slot, Request
<1> HIDE DEF x
<1>11. /\ slots' \in Seq(Slot) /\ Len(slots') = Len(slots) /\ DOMAIN slots' = 1 .. Len(slots)
       /\ \A s \in 1 .. Len(slots) : slots'[s] = IF s = 1 THEN x ELSE slots[s]
  BY <1>3, <1>5, <1>10, ExceptSeq, LenProperties
<1>12. /\ r.buf \in 1 .. Len(mem) /\ mem' \in Seq(Peers \cup {Nobody}) /\ Len(mem') = Len(mem)
       /\ \A b \in 1 .. Len(mem) : mem'[b] = IF b = r.buf THEN p ELSE mem[b]
  <2>1. r.buf \in 1 .. Len(mem)
    BY <1>1, <1>5 DEF BufferInv
  <2> QED
    BY <1>1, <1>3, <1>4, <2>1, Shapes, ExceptSeq
<1>13. \A s \in 1 .. Len(slots) :
         /\ slots'[s].kind = slots[s].kind /\ slots'[s].reply = slots[s].reply
         /\ slots'[s].stack = slots[s].stack /\ slots'[s].finished = slots[s].finished
         /\ slots'[s].req.buf = slots[s].req.buf
  BY <1>10, <1>11
<1>14. TypeOK'
  <2>1. slot_pool' \in Seq(DOMAIN slots')
    BY <1>1, <1>3, <1>11, Shapes
  <2> QED
    BY <1>1, <1>3, <1>4, <1>9, <1>11, <1>12, <2>1 DEF TypeOK
<1>15. QueueInv'
  BY <1>1, <1>3, <1>9 DEF QueueInv
<1>16. SlotInv'
  <2>1. \A s \in 2 .. Len(slots) : s \in 1 .. Len(slots)
    BY <1>5
  <2>2. \A s \in 2 .. Len(slots) :
          /\ slots'[s].kind = "handler"
          /\ slots'[s].reply # NoRequest <=>
               ~slots'[s].finished /\ ~(epc = "jump" /\ s = current)
          /\ slots'[s].finished <=> \E i \in 1 .. Len(slot_pool) : slot_pool[i] = s
    BY <1>1, <1>13, <2>1 DEF SlotInv
  <2>3. \A s : Owed(s)' => s \in 1 .. Len(slots) /\ (s = 1 \/ slots'[s].reply # NoRequest)
    BY <1>1, <1>9, <1>13 DEF SlotInv
  <2>4. epc = "jump" => current \in 2 .. Len(slots) /\ ~slots'[current].finished
    BY <1>1, <1>13, <2>1 DEF SlotInv
  <2>5. /\ slots'[1].kind = "request" /\ ~slots'[1].finished /\ slots'[1].reply = NoRequest
    BY <1>1, <1>5, <1>13 DEF SlotInv
  <2> QED
    BY <1>1, <1>3, <1>11, <2>2, <2>3, <2>4, <2>5 DEF SlotInv
<1>17. Running' = Running
  BY <1>5, <1>11, <1>13, LenProperties DEF Running
<1>18. StackInv'
  <2>1. \A s \in Running : s \in 1 .. Len(slots)
    BY <1>1, RunningFacts DEF Live
  <2> QED
    BY <1>1, <1>3, <1>13, <1>17, <2>1 DEF StackInv
<1>19. \A s : (Live(s)' <=> Live(s)) /\ (Replying(s)' <=> Replying(s))
  BY <1>11, <1>13 DEF Live, Replying
<1>20. \A s : /\ Live(s) => slots'[s].req.buf = slots[s].req.buf
              /\ Replying(s) => slots'[s].reply = slots[s].reply
  BY <1>13 DEF Live, Replying
<1>21. BufferInv'
  BY <1>1, <1>3, <1>12, <1>19, <1>20 DEF BufferInv
<1>22. DataInv'
  <2>1. Genuine(slots[1].req)'
    BY <1>4, <1>5, <1>10, <1>11, <1>12 DEF Genuine
  <2>2. epc = "jump" => Genuine(slots[current].req)'
    <3> SUFFICES ASSUME epc = "jump"
                 PROVE  Genuine(slots[current].req)'
      OBVIOUS
    <3>1. current # 1 /\ current \in 1 .. Len(slots) /\ Live(current)
      BY <1>1, <1>5 DEF SlotInv, Live
    <3>2. slots'[current] = slots[current] /\ slots[current].req.buf # r.buf
      BY <1>1, <1>5, <1>11, <3>1 DEF BufferInv
    <3>3. slots[current].req.buf \in 1 .. Len(mem)
      BY <1>1, <3>1 DEF BufferInv
    <3> QED
      BY <1>1, <1>3, <1>12, <3>2, <3>3 DEF DataInv, Genuine
  <2>3. \A s : Replying(s)' => Genuine(slots[s].reply)'
    <3> SUFFICES ASSUME NEW s, Replying(s)
                 PROVE  Genuine(slots[s].reply)'
      BY <1>19
    <3>1. slots'[s].reply = slots[s].reply /\ slots[s].reply.buf # r.buf
      BY <1>1, <1>5, <1>20 DEF BufferInv
    <3>2. slots[s].reply.buf \in 1 .. Len(mem)
      BY <1>1 DEF BufferInv
    <3> QED
      BY <1>1, <1>12, <3>1, <3>2 DEF DataInv, Genuine
  <2>4. OwnReply'
    BY <1>1, <1>3 DEF DataInv, OwnReply
  <2> QED
    BY <1>3, <2>1, <2>2, <2>3, <2>4 DEF DataInv
<1>23. LengthInv'
  <2>1. /\ \A m : Told(m)' <=> Told(m)
        /\ \A m, q : CutAsTold(m, q)' <=> CutAsTold(m, q)
    BY <1>3 DEF Told, CutAsTold
  <2>2. LenAsTold(slots[1].req)'
    BY <1>1, <1>5, <1>10, <1>11, <2>1 DEF LengthInv, LenAsTold
  <2>3. \A i \in 1 .. Len(requests') : LenAsTold(requests[i])'
    BY <1>1, <1>3, <2>1 DEF LengthInv, LenAsTold
  <2>4. \A i \in 1 .. Len(cq') :
          IF cq'[i].cookie = 1 THEN CutAsTold(cq[i].res, slots[1].req.addr)'
                               ELSE Told(slots[cq[i].cookie].reply.len)'
    <3> SUFFICES ASSUME NEW i \in 1 .. Len(cq')
                 PROVE  IF cq'[i].cookie = 1 THEN CutAsTold(cq[i].res, slots[1].req.addr)'
                                             ELSE Told(slots[cq[i].cookie].reply.len)'
      OBVIOUS
    <3>1. CASE i = Len(cq) + 1
      BY <1>5, <1>8, <1>9, <1>10, <1>11, <2>1, <3>1
    <3>2. CASE i \in 1 .. Len(cq)
      <4>1. cq'[i] = cq[i] /\ cq[i].cookie # 1
        BY <1>9, <3>2 DEF InCq
      <4>2. InCq(cq[i].cookie)
        BY <3>2 DEF InCq
      <4>3. cq[i].cookie \in 1 .. Len(slots)
        BY <1>1, <4>2 DEF SlotInv, Owed
      <4>4. slots'[cq[i].cookie].reply = slots[cq[i].cookie].reply
        BY <1>13, <4>3
      <4> QED
        BY <1>1, <2>1, <3>2, <4>1, <4>4 DEF LengthInv
    <3> QED
      BY <1>1, <1>9, <3>1, <3>2, Shapes
  <2>5. epc' = "jump" => CutAsTold(slots[current].res, slots[current].req.addr)'
    <3> SUFFICES ASSUME epc = "jump"
                 PROVE  CutAsTold(slots[current].res, slots[current].req.addr)'
      BY <1>3
    <3>1. current # 1 /\ current \in 1 .. Len(slots)
      BY <1>1, <1>5 DEF SlotInv
    <3>2. slots'[current] = slots[current]
      BY <1>11, <3>1
    <3> QED
      BY <1>1, <1>3, <2>1, <3>2 DEF LengthInv
  <2>6. \A s : Replying(s)' =>
          \E m \in Nat : slots'[s].reply.len = 2 * m /\ CutAsTold(m, slots[s].reply.addr)'
    BY <1>1, <1>19, <1>20, <2>1 DEF LengthInv
  <2>7. ShortOnlyAfterShort'
    BY <1>1, <1>3 DEF LengthInv, ShortOnlyAfterShort
  <2> QED
    BY <2>2, <2>3, <2>4, <2>5, <2>6, <2>7 DEF LengthInv
<1> QED
  BY <1>9, <1>14, <1>15, <1>16, <1>18, <1>21, <1>22, <1>23 DEF IInv, RingInv

(* A reply is sent as it is in its buffer.                                 *)
LEMMA SendDoneKeeps == ASSUME IInv, NEW e \in inflight, SendDone(e) PROVE IInv'
<1> DEFINE c == e.cookie
           r == slots[c].reply
           x == [to |-> r.addr, whose |-> mem[r.buf], len |-> r.len]
           k == Len(sent) + 1
<1>1. /\ TypeOK /\ UringTypeOK /\ OneCompletion /\ OpsInv /\ QueueInv /\ SlotInv /\ StackInv
      /\ BufferInv /\ DataInv /\ LengthInv
  BY DEF IInv, RingInv, TypeOK
<1>2. /\ sent' = Append(sent, x) /\ Complete(e, r.len)
      /\ UNCHANGED <<inbox, asked, slots, mem, nstacks, slot_pool, stacks, requests, epc,
                     current>>
  BY DEF SendDone, poolVars
<1>3. InFlight(c) /\ c # 1 /\ Owed(c)
  BY <1>1 DEF InFlight, Owed, OpsInv, SendDone
<1>4. c \in 1 .. Len(slots) /\ Replying(c)
  BY <1>1, <1>3 DEF SlotInv, Replying
<1>5. r \in Request /\ r.len \in Nat /\ r.addr \in Peers /\ mem[r.buf] = r.addr
  BY <1>1, <1>4, Shapes, Parts DEF DataInv, Genuine
<1>6. /\ UringTypeOK' /\ OneCompletion' /\ OpsInv' /\ ~InCq(c)
      /\ \A s : /\ InSq(s)' <=> InSq(s)
                /\ Owed(s)' <=> Owed(s)
                /\ InCq(s)' <=> InCq(s) \/ s = c
      /\ UNCHANGED <<sq, taken>>
      /\ Len(cq') = Len(cq) + 1 /\ \A i \in 1 .. Len(cq) : cq'[i] = cq[i]
      /\ cq'[Len(cq) + 1] = [op |-> e.op, cookie |-> c, res |-> r.len]
  BY <1>1, <1>2, <1>5, CompleteMoves
<1>7. /\ x \in [to : Peers, whose : Peers, len : Nat]
      /\ x.to = r.addr /\ x.whose = r.addr /\ x.len = r.len
  BY <1>5
<1> HIDE DEF x, c
<1>8. /\ sent' \in Seq([to : Peers, whose : Peers, len : Nat])
      /\ Len(sent) \in Nat /\ Len(sent') = k
      /\ \A i \in 1 .. Len(sent) : sent'[i] = sent[i]
      /\ sent'[k] = x
      /\ DOMAIN sent' = 1 .. k /\ DOMAIN sent = 1 .. Len(sent)
  BY <1>1, <1>2, <1>7, AppendProperties, LenProperties DEF TypeOK
<1>9. /\ \A i \in 1 .. k : i \in 1 .. Len(sent) \/ i = k
      /\ \A i \in 1 .. Len(sent) : i \in 1 .. k
      /\ k \in 1 .. k
  BY <1>8
<1>10. TypeOK'
  BY <1>1, <1>2, <1>6, <1>8 DEF TypeOK
<1>11. QueueInv'
  BY <1>1, <1>2, <1>6 DEF QueueInv
<1>12. SlotInv'
  BY <1>1, <1>2, <1>6 DEF SlotInv
<1>13. Running' = Running
  BY <1>2 DEF Running
<1>14. StackInv'
  BY <1>1, <1>2, <1>13 DEF StackInv
<1>15. BufferInv'
  BY <1>1, <1>2 DEF BufferInv, Live, Replying
<1>16. DataInv'
  <2>1. OwnReply'
    BY <1>1, <1>7, <1>8, <1>9 DEF DataInv, OwnReply
  <2>2. InCq(1)' <=> InCq(1)
    BY <1>3, <1>6 DEF c
  <2> QED
    BY <1>1, <1>2, <2>1, <2>2 DEF DataInv, Genuine, Replying
<1>17. /\ \A m : Told(m) => Told(m)'
       /\ Told(r.len)'
       /\ \A m, q : CutAsTold(m, q) => CutAsTold(m, q)'
  <2>1. \A m : Told(m) => Told(m)'
    BY <1>8, <1>9 DEF Told
  <2>2. Told(r.len)'
    BY <1>2, <1>7, <1>8, <1>9 DEF Told
  <2> QED
    BY <2>1, <2>2 DEF CutAsTold
<1>18. LengthInv'
  <2>1. /\ LenAsTold(slots[1].req)'
        /\ \A i \in 1 .. Len(requests') : LenAsTold(requests[i])'
    BY <1>1, <1>2, <1>17 DEF LengthInv, LenAsTold
  <2>2. \A i \in 1 .. Len(cq') :
          IF cq'[i].cookie = 1 THEN CutAsTold(cq[i].res, slots[1].req.addr)'
                               ELSE Told(slots[cq[i].cookie].reply.len)'
    <3> SUFFICES ASSUME NEW i \in 1 .. Len(cq')
                 PROVE  IF cq'[i].cookie = 1 THEN CutAsTold(cq[i].res, slots[1].req.addr)'
                                             ELSE Told(slots[cq[i].cookie].reply.len)'
      OBVIOUS
    <3>1. CASE i = Len(cq) + 1
      BY <1>2, <1>3, <1>6, <1>17, <3>1 DEF c
    <3>2. CASE i \in 1 .. Len(cq)
      <4>1. cq'[i] = cq[i]
        BY <1>6, <3>2
      <4> QED
        BY <1>1, <1>2, <1>17, <3>2, <4>1 DEF LengthInv
    <3>3. Len(cq) \in Nat /\ Len(cq') = Len(cq) + 1
      BY <1>1, <1>6, Shapes
    <3> QED
      BY <3>1, <3>2, <3>3
  <2>3. epc' = "jump" => CutAsTold(slots[current].res, slots[current].req.addr)'
    BY <1>1, <1>2, <1>17 DEF LengthInv
  <2>4. \A s : Replying(s)' =>
          \E m \in Nat : slots'[s].reply.len = 2 * m /\ CutAsTold(m, slots[s].reply.addr)'
    BY <1>1, <1>2, <1>17 DEF LengthInv, Replying
  <2>5. ShortOnlyAfterShort'
    <3> SUFFICES ASSUME NEW i \in 1 .. k
                 PROVE  \/ sent'[i].len = 2 * Size[sent'[i].to]
                        \/ \E j \in 1 .. i - 1 :
                             /\ sent'[j].len < Size[sent'[i].to]
                             /\ sent'[i].len = 2 * sent'[j].len
      BY <1>8 DEF ShortOnlyAfterShort
    <3>1. CASE i = k
      <4>1. PICK m \in Nat : r.len = 2 * m /\ CutAsTold(m, r.addr)
        BY <1>1, <1>4 DEF LengthInv
      <4>2. CASE m = Size[r.addr]
        BY <1>7, <1>8, <3>1, <4>1, <4>2
      <4>3. CASE m < Size[r.addr] /\ Told(m)
        <5>1. PICK j \in 1 .. Len(sent) : sent[j].len = m
          BY <4>3 DEF Told
        <5>2. j \in 1 .. i - 1 /\ sent'[j].len = m
          BY <1>8, <3>1, <5>1
        <5> QED
          BY <1>7, <1>8, <3>1, <4>1, <4>3, <5>2
      <4> QED
        BY <4>1, <4>2, <4>3 DEF CutAsTold
    <3>2. CASE i \in 1 .. Len(sent)
      <4>1. \A j \in 1 .. i - 1 : j \in 1 .. Len(sent)
        BY <1>8, <3>2
      <4>2. \/ sent[i].len = 2 * Size[sent[i].to]
            \/ \E j \in 1 .. i - 1 :
                 sent[j].len < Size[sent[i].to] /\ sent[i].len = 2 * sent[j].len
        BY <1>1, <1>8, <3>2 DEF LengthInv, ShortOnlyAfterShort
      <4> QED
        BY <1>8, <3>2, <4>1, <4>2
    <3> QED
      BY <1>9, <3>1, <3>2
  <2> QED
    BY <2>1, <2>2, <2>3, <2>4, <2>5 DEF LengthInv
<1> QED
  BY <1>6, <1>10, <1>11, <1>12, <1>14, <1>15, <1>16, <1>18 DEF IInv, RingInv

(* A handler ends and gives back its reply, its stack and its slot         *)
(* (uf.h:180-189).                                                         *)
LEMMA FinishHandlerKeeps == ASSUME IInv, FinishHandler PROVE IInv'
<1> DEFINE c == Polled
           x == [slots[c] EXCEPT !.reply = NoRequest, !.stack = 0, !.finished = TRUE]
<1>1. /\ TypeOK /\ UringTypeOK /\ OneCompletion /\ OpsInv /\ QueueInv /\ SlotInv /\ StackInv
      /\ BufferInv /\ DataInv /\ LengthInv
  BY DEF IInv, RingInv, TypeOK
<1>2. /\ epc = "poll" /\ slots[c].kind = "handler" /\ PollCookie
      /\ requests' = AfterPut(requests, slots[c].reply)
      /\ stacks' = AfterPut(stacks, slots[c].stack)
      /\ slot_pool' = AfterPut(slot_pool, c)
      /\ slots' = [slots EXCEPT ![c] = x]
      /\ UNCHANGED <<sq, inbox, asked, sent, mem, nstacks, epc, current>>
  BY DEF FinishHandler, AtPoll, StackGivenBack, envVars
<1>3. /\ Head(cq) = cq[1] /\ c \in Nat /\ Len(cq) \in Nat \ {0}
      /\ InCq(c) /\ ~InSq(c) /\ ~InFlight(c)
      /\ cq' \in Seq(Cqe) /\ Len(cq') = Len(cq) - 1
      /\ \A i \in 1 .. Len(cq') : i + 1 \in 1 .. Len(cq) /\ i + 1 # 1 /\ cq'[i] = cq[i + 1]
      /\ \A i, j \in 1 .. Len(cq') : cq'[i].cookie = cq'[j].cookie => i = j
      /\ \A i \in 1 .. Len(cq') : cq'[i].op = "recv" <=> cq'[i].cookie = 1
      /\ \A s : InCq(s)' <=> InCq(s) /\ s # c
      /\ \A s : InFlight(s)' <=> InFlight(s)
      /\ UNCHANGED <<taken, inflight>>
  BY <1>1, <1>2, PollMoves
<1>4. cq[1].cookie = c
  BY <1>3 DEF Polled
<1> HIDE DEF c
<1>5. Owed(c) /\ c # 1
  BY <1>1, <1>2, <1>3 DEF Owed, SlotInv
<1>6. /\ c \in 2 .. Len(slots) /\ c \in 1 .. Len(slots) /\ Replying(c)
      /\ ~slots[c].finished /\ Live(c) /\ c \in Running
  <2>1. c \in 1 .. Len(slots) /\ slots[c].reply # NoRequest
    BY <1>1, <1>5 DEF SlotInv
  <2>2. c \in 2 .. Len(slots)
    BY <1>1, <1>5, <2>1, Shapes
  <2>3. ~slots[c].finished
    BY <1>1, <2>1, <2>2 DEF SlotInv
  <2> QED
    BY <1>1, <2>1, <2>2, <2>3, RunningFacts DEF Replying, Live
<1>7. /\ slots[c] \in Slot /\ slots[c].reply \in Request /\ slots[c].stack \in 1 .. nstacks
      /\ slots \in Seq(Slot) /\ Len(slots) \in Nat
  BY <1>1, <1>6, Shapes, Parts DEF StackInv
<1>8. /\ x \in Slot /\ x.kind = "handler" /\ x.reply = NoRequest /\ x.finished
      /\ x.req = slots[c].req
  BY <1>2, <1>7, Parts DEF Slot
<1> HIDE DEF x
<1>9. /\ slots' \in Seq(Slot) /\ Len(slots') = Len(slots) /\ DOMAIN slots' = 1 .. Len(slots)
      /\ \A s \in 1 .. Len(slots) : slots'[s] = IF s = c THEN x ELSE slots[s]
  BY <1>2, <1>6, <1>7, <1>8, ExceptSeq, LenProperties
<1>10. /\ requests' \in Seq(Request) /\ Len(requests) \in Nat
       /\ Len(requests') = Len(requests) + 1
       /\ \A i \in 1 .. Len(requests) : requests'[i] = requests[i]
       /\ requests'[Len(requests) + 1] = slots[c].reply
       /\ \A i \in 1 .. Len(requests') : i \in 1 .. Len(requests) \/ i = Len(requests) + 1
  <2>1. requests \in Seq(Request) /\ slots[c].reply \in Request
    BY <1>1, <1>7, Shapes
  <2>2. requests' = AfterPut(requests, slots[c].reply)
    BY <1>2
  <2> QED
    BY <2>1, <2>2, AppendProperties, LenProperties DEF AfterPut
<1>11. /\ stacks' \in Seq(1 .. nstacks) /\ Len(stacks) \in Nat
       /\ Len(stacks') = Len(stacks) + 1
       /\ \A i \in 1 .. Len(stacks) : stacks'[i] = stacks[i]
       /\ stacks'[Len(stacks) + 1] = slots[c].stack
       /\ \A i \in 1 .. Len(stacks') : i \in 1 .. Len(stacks) \/ i = Len(stacks) + 1
  <2>1. stacks \in Seq(1 .. nstacks) /\ slots[c].stack \in 1 .. nstacks
    BY <1>1, <1>7, Shapes
  <2>2. stacks' = AfterPut(stacks, slots[c].stack)
    BY <1>2
  <2> QED
    BY <2>1, <2>2, AppendProperties, LenProperties DEF AfterPut
<1>12. /\ slot_pool' \in Seq(1 .. Len(slots)) /\ Len(slot_pool) \in Nat
       /\ Len(slot_pool') = Len(slot_pool) + 1
       /\ \A i \in 1 .. Len(slot_pool) : slot_pool'[i] = slot_pool[i]
       /\ slot_pool'[Len(slot_pool) + 1] = c
       /\ \A i \in 1 .. Len(slot_pool') : i \in 1 .. Len(slot_pool) \/ i = Len(slot_pool) + 1
       /\ Len(slot_pool) + 1 \in 1 .. Len(slot_pool')
  <2>1. slot_pool \in Seq(1 .. Len(slots)) /\ c \in 1 .. Len(slots)
    BY <1>1, <1>6, Shapes
  <2>2. slot_pool' = AfterPut(slot_pool, c)
    BY <1>2
  <2> QED
    BY <2>1, <2>2, AppendProperties, LenProperties DEF AfterPut
<1>13. TypeOK'
  <2>1. UringTypeOK'
    BY <1>1, <1>2, <1>3 DEF UringTypeOK
  <2> QED
    BY <1>1, <1>2, <1>9, <1>10, <1>11, <1>12, <2>1 DEF TypeOK
<1>14. \A s : (InSq(s)' <=> InSq(s)) /\ (Owed(s)' <=> Owed(s) /\ s # c)
  <2>1. \A s : InSq(s)' <=> InSq(s)
    BY <1>2, <1>3 DEF InSq
  <2> QED
    BY <1>3, <2>1 DEF Owed
<1>15. OneCompletion'
  <2>1. \A s : /\ ~(InSq(s)' /\ InFlight(s)') /\ ~(InSq(s)' /\ InCq(s)')
               /\ ~(InFlight(s)' /\ InCq(s)')
    BY <1>1, <1>3, <1>14 DEF OneCompletion
  <2> QED
    BY <1>1, <1>2, <1>3, <2>1 DEF OneCompletion
<1>16. OpsInv' /\ QueueInv'
  BY <1>1, <1>2, <1>3, <1>14 DEF OpsInv, QueueInv
<1>17. SlotInv'
  <2>1. \A s \in 2 .. Len(slots) : s \in 1 .. Len(slots)
    BY <1>7
  <2>2. \A s \in 2 .. Len(slots) :
          /\ slots'[s].kind = "handler"
          /\ slots'[s].reply # NoRequest <=> ~slots'[s].finished
          /\ slots'[s].finished <=> \E i \in 1 .. Len(slot_pool') : slot_pool'[i] = s
    <3> SUFFICES ASSUME NEW s \in 2 .. Len(slots)
                 PROVE  /\ slots'[s].kind = "handler"
                        /\ slots'[s].reply # NoRequest <=> ~slots'[s].finished
                        /\ slots'[s].finished <=>
                             \E i \in 1 .. Len(slot_pool') : slot_pool'[i] = s
      OBVIOUS
    <3>1. CASE s = c
      BY <1>6, <1>8, <1>9, <1>12, <3>1
    <3>2. CASE s # c
      <4>1. slots'[s] = slots[s]
        BY <1>9, <2>1, <3>2
      <4>2. /\ slots[s].kind = "handler"
            /\ slots[s].reply # NoRequest <=> ~slots[s].finished
            /\ slots[s].finished <=> \E i \in 1 .. Len(slot_pool) : slot_pool[i] = s
        BY <1>1, <1>2 DEF SlotInv
      <4>3. (\E i \in 1 .. Len(slot_pool') : slot_pool'[i] = s)
              <=> \E i \in 1 .. Len(slot_pool) : slot_pool[i] = s
        <5>1. \A i \in 1 .. Len(slot_pool) : i \in 1 .. Len(slot_pool')
          BY <1>12
        <5> QED
          BY <1>12, <3>2, <5>1
      <4> QED
        BY <4>1, <4>2, <4>3
    <3> QED
      BY <3>1, <3>2
  <2>3. \A s : Owed(s)' => s \in 1 .. Len(slots) /\ (s = 1 \/ slots'[s].reply # NoRequest)
    BY <1>1, <1>9, <1>14 DEF SlotInv
  <2>4. slots'[1] = slots[1]
    BY <1>1, <1>5, <1>9, Shapes DEF SlotInv
  <2>5. \A i \in 1 .. Len(slot_pool') : slot_pool'[i] # 1
    BY <1>1, <1>5, <1>12 DEF SlotInv
  <2>6. \A i \in 1 .. Len(slot_pool) : slot_pool[i] # c
    BY <1>1, <1>6 DEF SlotInv
  <2>7. \A i, j \in 1 .. Len(slot_pool') : slot_pool'[i] = slot_pool'[j] => i = j
    <3>1. \A i, j \in 1 .. Len(slot_pool) : slot_pool[i] = slot_pool[j] => i = j
      BY <1>1 DEF SlotInv
    <3>2. \A i \in 1 .. Len(slot_pool') :
            \/ i \in 1 .. Len(slot_pool) /\ slot_pool'[i] = slot_pool[i]
            \/ i = Len(slot_pool) + 1 /\ slot_pool'[i] = c
      BY <1>12
    <3> QED
      BY <2>6, <3>1, <3>2
  <2> QED
    BY <1>1, <1>2, <1>9, <2>2, <2>3, <2>4, <2>5, <2>7 DEF SlotInv
<1>18. Running' = Running \ {c}
  <2>1. Running = {s \in 2 .. Len(slots) : ~slots[s].finished}
    BY <1>1, RunningFacts
  <2>2. Running' = {s \in 2 .. Len(slots) : ~slots'[s].finished}
    BY <1>7, <1>9, <1>17 DEF Running, SlotInv
  <2> QED
    BY <1>7, <1>8, <1>9, <2>1, <2>2
<1>19. StackInv'
  <2>1. IsFiniteSet(Running) /\ Cardinality(Running) \in Nat
    BY <1>1, RunningFacts
  <2>2. Cardinality(Running') = Cardinality(Running) - 1
    BY <1>6, <1>18, <2>1, FS_RemoveElement
  <2>3. \A s \in Running' : s \in Running /\ s # c /\ slots'[s] = slots[s]
    BY <1>1, <1>9, <1>18, RunningFacts DEF Live
  <2>4. \A i, j \in 1 .. Len(stacks') : stacks'[i] = stacks'[j] => i = j
    <3>1. /\ \A i, j \in 1 .. Len(stacks) : stacks[i] = stacks[j] => i = j
          /\ \A i \in 1 .. Len(stacks) : stacks[i] # slots[c].stack
      BY <1>1, <1>6 DEF StackInv
    <3>2. \A i \in 1 .. Len(stacks') :
            \/ i \in 1 .. Len(stacks) /\ stacks'[i] = stacks[i]
            \/ i = Len(stacks) + 1 /\ stacks'[i] = slots[c].stack
      BY <1>11
    <3> QED
      BY <3>1, <3>2
  <2>5. \A s \in Running' :
          /\ slots'[s].stack \in 1 .. nstacks
          /\ \A i \in 1 .. Len(stacks') : stacks'[i] # slots'[s].stack
    <3> SUFFICES ASSUME NEW s \in Running'
                 PROVE  /\ slots[s].stack \in 1 .. nstacks
                        /\ \A i \in 1 .. Len(stacks') : stacks'[i] # slots[s].stack
      BY <2>3
    <3>1. s \in Running /\ s # c
      BY <2>3
    <3>2. slots[s].stack # slots[c].stack /\ slots[s].stack \in 1 .. nstacks
      BY <1>1, <1>6, <3>1 DEF StackInv
    <3>3. \A i \in 1 .. Len(stacks) : stacks[i] # slots[s].stack
      BY <1>1, <3>1 DEF StackInv
    <3> QED
      BY <1>11, <3>2, <3>3
  <2>6. \A s, t \in Running' : slots'[s].stack = slots'[t].stack => s = t
    BY <1>1, <2>3 DEF StackInv
  <2>7. nstacks = Len(stacks') + Cardinality(Running')
    BY <1>1, <1>11, <2>1, <2>2 DEF StackInv
  <2> QED
    BY <1>2, <2>4, <2>5, <2>6, <2>7 DEF StackInv
<1>20. /\ \A s : Live(s)' => Live(s) /\ slots'[s].req = slots[s].req
       /\ \A s : Replying(s)' => Replying(s) /\ s # c /\ slots'[s].reply = slots[s].reply
  BY <1>8, <1>9 DEF Live, Replying
<1>21. BufferInv'
  <2>1. /\ \A s : Live(s)' => slots'[s].req.buf \in 1 .. Len(mem')
        /\ \A s : Replying(s)' => slots'[s].reply.buf \in 1 .. Len(mem')
        /\ \A s, t : Live(s)' /\ Live(t)' /\ slots'[s].req.buf = slots'[t].req.buf => s = t
        /\ \A s, t : Replying(s)' /\ Replying(t)' /\ slots'[s].reply.buf = slots'[t].reply.buf
                       => s = t
        /\ \A s, t : Live(s)' /\ Replying(t)' => slots'[s].req.buf # slots'[t].reply.buf
    BY <1>1, <1>2, <1>20 DEF BufferInv
  <2>2. \A i \in 1 .. Len(requests') : requests'[i].buf \in 1 .. Len(mem)
    BY <1>1, <1>6, <1>10 DEF BufferInv
  <2>3. \A i \in 1 .. Len(requests') :
          /\ \A s : Live(s)' => requests'[i].buf # slots'[s].req.buf
          /\ \A s : Replying(s)' => requests'[i].buf # slots'[s].reply.buf
    <3> SUFFICES ASSUME NEW i \in 1 .. Len(requests')
                 PROVE  /\ \A s : Live(s)' => requests'[i].buf # slots'[s].req.buf
                        /\ \A s : Replying(s)' => requests'[i].buf # slots'[s].reply.buf
      OBVIOUS
    <3>1. CASE i \in 1 .. Len(requests)
      <4>1. /\ \A s : Live(s) => requests[i].buf # slots[s].req.buf
            /\ \A s : Replying(s) => requests[i].buf # slots[s].reply.buf
        BY <1>1, <3>1 DEF BufferInv
      <4>2. requests'[i] = requests[i]
        BY <1>10, <3>1
      <4> QED
        BY <1>20, <4>1, <4>2
    <3>2. CASE i = Len(requests) + 1
      <4>1. requests'[i] = slots[c].reply
        BY <1>10, <3>2
      <4>2. \A s : Live(s) => slots[c].reply.buf # slots[s].req.buf
        BY <1>1, <1>6 DEF BufferInv
      <4>3. \A s : Replying(s) /\ s # c => slots[c].reply.buf # slots[s].reply.buf
        BY <1>1, <1>6 DEF BufferInv
      <4> QED
        BY <1>20, <4>1, <4>2, <4>3
    <3> QED
      BY <1>10, <3>1, <3>2
  <2>4. \A i, j \in 1 .. Len(requests') : requests'[i].buf = requests'[j].buf => i = j
    <3>1. \A i \in 1 .. Len(requests) : requests[i].buf # slots[c].reply.buf
      BY <1>1, <1>6 DEF BufferInv
    <3> QED
      BY <1>1, <1>10, <3>1 DEF BufferInv
  <2> QED
    BY <1>2, <2>1, <2>2, <2>3, <2>4 DEF BufferInv
<1>22. slots'[1] = slots[1]
  BY <1>1, <1>5, <1>9, Shapes DEF SlotInv
<1>23. DataInv'
  BY <1>1, <1>2, <1>3, <1>20, <1>22 DEF DataInv, Genuine, OwnReply
<1>24. LengthInv'
  <2>1. /\ \A m : Told(m)' <=> Told(m)
        /\ \A m, q : CutAsTold(m, q)' <=> CutAsTold(m, q)
    BY <1>2 DEF Told, CutAsTold
  <2>2. LenAsTold(slots[1].req)'
    BY <1>1, <1>22, <2>1 DEF LengthInv, LenAsTold
  <2>3. Told(slots[c].reply.len)
    <3>1. 1 \in 1 .. Len(cq)
      BY <1>3
    <3> QED
      BY <1>1, <1>4, <1>5, <3>1 DEF LengthInv
  <2>4. \A i \in 1 .. Len(requests') : LenAsTold(requests[i])'
    <3> SUFFICES ASSUME NEW i \in 1 .. Len(requests')
                 PROVE  LenAsTold(requests[i])'
      OBVIOUS
    <3>1. CASE i \in 1 .. Len(requests)
      BY <1>1, <1>10, <2>1, <3>1 DEF LengthInv, LenAsTold
    <3>2. CASE i = Len(requests) + 1
      BY <1>10, <2>1, <2>3, <3>2 DEF LenAsTold
    <3> QED
      BY <1>10, <3>1, <3>2
  <2>5. \A i \in 1 .. Len(cq') :
          IF cq'[i].cookie = 1 THEN CutAsTold(cq[i].res, slots[1].req.addr)'
                               ELSE Told(slots[cq[i].cookie].reply.len)'
    <3> SUFFICES ASSUME NEW i \in 1 .. Len(cq')
                 PROVE  IF cq'[i].cookie = 1 THEN CutAsTold(cq[i].res, slots[1].req.addr)'
                                             ELSE Told(slots[cq[i].cookie].reply.len)'
      OBVIOUS
    <3>1. cq'[i] = cq[i + 1] /\ i + 1 \in 1 .. Len(cq) /\ i + 1 # 1 /\ 1 \in 1 .. Len(cq)
      BY <1>3
    <3>2. cq[i + 1].cookie # c /\ Owed(cq[i + 1].cookie)
      BY <1>1, <1>4, <3>1 DEF Owed, InCq, OneCompletion
    <3>3. cq[i + 1].cookie \in 1 .. Len(slots)
      BY <1>1, <3>2 DEF SlotInv
    <3>4. slots'[cq[i + 1].cookie] = slots[cq[i + 1].cookie]
      BY <1>9, <3>2, <3>3
    <3>5. IF cq[i + 1].cookie = 1 THEN CutAsTold(cq[i + 1].res, slots[1].req.addr)
                                  ELSE Told(slots[cq[i + 1].cookie].reply.len)
      BY <1>1, <3>1 DEF LengthInv
    <3> QED
      BY <1>22, <2>1, <3>1, <3>4, <3>5
  <2>6. \A s : Replying(s)' =>
          \E m \in Nat : slots'[s].reply.len = 2 * m /\ CutAsTold(m, slots[s].reply.addr)'
    BY <1>1, <1>20, <2>1 DEF LengthInv
  <2>7. ShortOnlyAfterShort'
    BY <1>1, <1>2 DEF LengthInv, ShortOnlyAfterShort
  <2> QED
    BY <1>2, <2>2, <2>4, <2>5, <2>6, <2>7 DEF LengthInv
<1> QED
  BY <1>13, <1>15, <1>16, <1>17, <1>19, <1>21, <1>23, <1>24 DEF IInv, RingInv

(* A request from the pool, or a new one, has a buffer nobody else has     *)
(* (uf.h:30-42).                                                           *)
LEMMA FreshRequest ==
  ASSUME TypeOK, BufferInv, LengthInv
  PROVE  LET q == Got(requests, NewRequest)
             rest == AfterGet(requests)
         IN  /\ q \in Request /\ LenAsTold(q)
             /\ rest \in Seq(Request)
             /\ \A i \in 1 .. Len(rest) :
                  i \in 1 .. Len(requests) /\ rest[i] = requests[i] /\ rest[i].buf # q.buf
             /\ q.buf \in 1 .. Len(mem) \/ q.buf = Len(mem) + 1
             /\ \A s : Live(s) => slots[s].req.buf # q.buf
             /\ \A s : Replying(s) => slots[s].reply.buf # q.buf
<1> DEFINE q == Got(requests, NewRequest)
           rest == AfterGet(requests)
<1>1. /\ requests \in Seq(Request) /\ Len(requests) \in Nat /\ Len(mem) \in Nat
      /\ \A i \in 1 .. Len(requests) : requests[i] \in Request
  BY Shapes
<1>2. /\ rest \in Seq(Request)
      /\ \/ requests = <<>> /\ q = NewRequest /\ rest = requests /\ Len(requests) = 0
         \/ /\ Len(requests) > 0 /\ q = requests[Len(requests)]
            /\ Len(rest) = Len(requests) - 1
            /\ \A i \in 1 .. Len(rest) :
                 i \in 1 .. Len(requests) /\ i # Len(requests) /\ rest[i] = requests[i]
  BY <1>1, GetFacts
<1>3. /\ NewRequest \in Request /\ NewRequest.buf = Len(mem) + 1 /\ LenAsTold(NewRequest)
  BY <1>1, ExecutorAssumption DEF NewRequest, Request, LenAsTold
<1> HIDE DEF q, rest
<1>4. CASE q = NewRequest /\ rest = requests /\ Len(requests) = 0
  <2>1. /\ \A s : Live(s) => slots[s].req.buf # q.buf
        /\ \A s : Replying(s) => slots[s].reply.buf # q.buf
    BY <1>1, <1>3, <1>4 DEF BufferInv
  <2>2. \A i \in 1 .. Len(rest) : FALSE
    BY <1>4
  <2> QED
    BY <1>2, <1>3, <1>4, <2>1, <2>2 DEF q, rest
<1>5. CASE /\ Len(requests) > 0 /\ q = requests[Len(requests)]
           /\ \A i \in 1 .. Len(rest) :
                i \in 1 .. Len(requests) /\ i # Len(requests) /\ rest[i] = requests[i]
  <2>1. Len(requests) \in 1 .. Len(requests)
    BY <1>1, <1>5
  <2>2. /\ q \in Request /\ LenAsTold(q) /\ q.buf \in 1 .. Len(mem)
        /\ \A s : Live(s) => slots[s].req.buf # q.buf
        /\ \A s : Replying(s) => slots[s].reply.buf # q.buf
    BY <1>1, <1>5, <2>1 DEF BufferInv, LengthInv
  <2>3. \A i \in 1 .. Len(rest) : rest[i].buf # q.buf
    BY <1>5, <2>1 DEF BufferInv
  <2> QED
    BY <1>2, <1>5, <2>2, <2>3 DEF q, rest
<1> QED
  BY <1>2, <1>4, <1>5 DEF q, rest

(* A handler copies its request into the buffer of its reply, which nobody *)
(* else has, and submits it (srv.cc:50-69).                                *)
LEMMA HandleKeeps == ASSUME IInv, Handle PROVE IInv'
<1> DEFINE c == current
           h == slots[c]
           q == Got(requests, NewRequest)
           rest == AfterGet(requests)
           v == mem[h.req.buf]
           r == [q EXCEPT !.len = h.res * 2, !.addr = h.req.addr]
           x == [h EXCEPT !.reply = r]
<1>1. /\ TypeOK /\ UringTypeOK /\ OneCompletion /\ OpsInv /\ QueueInv /\ SlotInv /\ StackInv
      /\ BufferInv /\ DataInv /\ LengthInv
  BY DEF IInv, RingInv, TypeOK
<1>2. /\ epc = "jump" /\ epc' = "poll" /\ Submit("send", c)
      /\ slots' = [slots EXCEPT ![c] = x]
      /\ mem' = IF r.buf > Len(mem) THEN Append(mem, v) ELSE [mem EXCEPT ![r.buf] = v]
      /\ requests' = rest
      /\ UNCHANGED <<taken, inflight, cq, inbox, asked, sent, nstacks, slot_pool, stacks,
                     current>>
  BY DEF Handle, WaitingReply, ReplyLen, SlotKept, envVars
<1>3. /\ q \in Request /\ LenAsTold(q)
      /\ rest \in Seq(Request)
      /\ \A i \in 1 .. Len(rest) :
           i \in 1 .. Len(requests) /\ rest[i] = requests[i] /\ rest[i].buf # q.buf
      /\ q.buf \in 1 .. Len(mem) \/ q.buf = Len(mem) + 1
      /\ \A s : Live(s) => slots[s].req.buf # q.buf
      /\ \A s : Replying(s) => slots[s].reply.buf # q.buf
  BY <1>1, FreshRequest
<1>4. /\ slots \in Seq(Slot) /\ Len(slots) \in Nat /\ Len(mem) \in Nat
      /\ mem \in Seq(Peers \cup {Nobody}) /\ Len(sq) \in Nat /\ taken \in 0 .. Len(sq)
  BY <1>1, Shapes
<1>5. /\ c \in 2 .. Len(slots) /\ c \in 1 .. Len(slots) /\ c # 1 /\ c \in Nat
      /\ ~slots[c].finished /\ Live(c) /\ slots[c].reply = NoRequest
      /\ slots[c].kind = "handler"
  <2>1. c \in 2 .. Len(slots) /\ ~slots[c].finished
    BY <1>1, <1>2 DEF SlotInv
  <2>2. slots[c].reply = NoRequest /\ slots[c].kind = "handler"
    BY <1>1, <1>2, <2>1 DEF SlotInv
  <2> QED
    BY <1>4, <2>1, <2>2 DEF Live
<1>6. ~Owed(c)
  BY <1>1, <1>5 DEF SlotInv
<1>7. h \in Slot /\ h.req \in Request /\ h.res \in Nat /\ Genuine(h.req)
  BY <1>1, <1>2, <1>5, Shapes, Parts DEF DataInv
<1>8. CutAsTold(h.res, h.req.addr)
  BY <1>1, <1>2 DEF LengthInv
<1> HIDE DEF q, rest
<1>9. /\ r \in Request /\ r.buf = q.buf /\ r.len = h.res * 2 /\ r.addr = h.req.addr
      /\ r # NoRequest
  <2>1. r \in Request /\ r.buf = q.buf /\ r.len = h.res * 2 /\ r.addr = h.req.addr
    <3> DEFINE m == h.res * 2
               a == h.req.addr
    <3>1. m \in Nat /\ a \in Peers \cup {Nobody}
      BY <1>7, Parts
    <3>2. q \in [buf : Nat, len : Nat, addr : Peers \cup {Nobody}]
      BY <1>3 DEF Request
    <3>3. r = [q EXCEPT !.len = m, !.addr = a]
      OBVIOUS
    <3> HIDE DEF m, a, r
    <3>4. r \in Request /\ r.buf = q.buf /\ r.len = m /\ r.addr = a
      BY <3>1, <3>2, <3>3 DEF Request
    <3> QED
      BY <3>4 DEF m, a
  <2>2. r.buf # 0
    BY <1>3, <1>4, <2>1
  <2> QED
    BY <2>1, <2>2, Parts
<1> HIDE DEF r
<1>10. /\ x \in Slot /\ x.kind = "handler" /\ x.req = h.req /\ x.reply = r
       /\ x.stack = h.stack /\ x.finished = h.finished
  BY <1>5, <1>7, <1>9, Parts DEF Slot
<1> HIDE DEF x
<1>11. /\ slots' \in Seq(Slot) /\ Len(slots') = Len(slots) /\ DOMAIN slots' = 1 .. Len(slots)
       /\ \A s \in 1 .. Len(slots) : slots'[s] = IF s = c THEN x ELSE slots[s]
  BY <1>2, <1>4, <1>5, <1>10, ExceptSeq, LenProperties
<1>12. v \in Peers /\ v = h.req.addr
  BY <1>7 DEF Genuine
<1> HIDE DEF v
<1>13. /\ mem' \in Seq(Peers \cup {Nobody}) /\ Len(mem') \in Nat /\ Len(mem') >= Len(mem)
       /\ q.buf \in 1 .. Len(mem') /\ mem'[q.buf] = v
       /\ \A b \in 1 .. Len(mem) : b # q.buf => mem'[b] = mem[b]
  <2>1. CASE q.buf = Len(mem) + 1
    <3>1. mem' = Append(mem, v)
      BY <1>2, <1>4, <1>9, <2>1
    <3> QED
      BY <1>4, <1>12, <2>1, <3>1, AppendProperties
  <2>2. CASE q.buf \in 1 .. Len(mem)
    <3>1. mem' = [mem EXCEPT ![q.buf] = v]
      BY <1>2, <1>4, <1>9, <2>2
    <3> QED
      BY <1>4, <1>12, <2>2, <3>1, ExceptSeq
  <2> QED
    BY <1>3, <2>1, <2>2
<1>14. /\ sq' \in Seq(Entry) /\ Len(sq') = Len(sq) + 1 /\ taken' \in 0 .. Len(sq')
       /\ \A s : InSq(s)' <=> InSq(s) \/ s = c
       /\ \A i, j \in taken' + 1 .. Len(sq') : sq'[i].cookie = sq'[j].cookie => i = j
       /\ \A i \in 1 .. Len(sq') : sq'[i].op = "recv" <=> sq'[i].cookie = 1
  <2>1. ~InSq(c)
    BY <1>6 DEF Owed
  <2> HIDE DEF c
  <2> QED
    BY <1>1, <1>2, <1>5, <2>1, SubmitMoves
<1>15. TypeOK'
  <2>1. UringTypeOK'
    BY <1>1, <1>2, <1>14 DEF UringTypeOK
  <2>2. slot_pool' \in Seq(DOMAIN slots')
    BY <1>1, <1>2, <1>11, Shapes
  <2> QED
    BY <1>1, <1>2, <1>3, <1>11, <1>13, <2>1, <2>2 DEF TypeOK
<1>16. /\ \A s : (InFlight(s)' <=> InFlight(s)) /\ (InCq(s)' <=> InCq(s))
       /\ \A s : Owed(s)' <=> Owed(s) \/ s = c
  <2>1. \A s : (InFlight(s)' <=> InFlight(s)) /\ (InCq(s)' <=> InCq(s))
    BY <1>2 DEF InFlight, InCq
  <2> QED
    BY <1>14, <2>1 DEF Owed
<1>17. OneCompletion'
  <2>1. \A s : /\ ~(InSq(s)' /\ InFlight(s)') /\ ~(InSq(s)' /\ InCq(s)')
               /\ ~(InFlight(s)' /\ InCq(s)')
    BY <1>1, <1>6, <1>14, <1>16 DEF OneCompletion, Owed
  <2> QED
    BY <1>1, <1>2, <1>14, <2>1 DEF OneCompletion
<1>18. OpsInv'
  BY <1>1, <1>2, <1>14 DEF OpsInv
<1>19. QueueInv'
  <2>1. Len(sq') - taken' = Len(sq) - taken + 1
    BY <1>2, <1>4, <1>14
  <2>2. InSq(1)' <=> InSq(1)
    BY <1>5, <1>14
  <2> QED
    BY <1>1, <1>2, <1>4, <2>1, <2>2 DEF QueueInv
<1>20. \A s \in 1 .. Len(slots) :
         /\ slots'[s].kind = slots[s].kind /\ slots'[s].req = slots[s].req
         /\ slots'[s].stack = slots[s].stack /\ slots'[s].finished = slots[s].finished
         /\ s # c => slots'[s].reply = slots[s].reply
         /\ s = c => slots'[s].reply = r
  <2>1. \A s \in 1 .. Len(slots) : s # c => slots'[s] = slots[s]
    BY <1>11
  <2>2. slots'[c] = x
    BY <1>5, <1>11
  <2> HIDE DEF c
  <2> QED
    BY <1>5, <1>10, <2>1, <2>2
<1>21. slots'[1] = slots[1]
  BY <1>4, <1>5, <1>11
<1>22. SlotInv'
  <2>1. \A s \in 2 .. Len(slots) : s \in 1 .. Len(slots)
    BY <1>4
  <2>2. \A s \in 2 .. Len(slots) :
          /\ slots'[s].kind = "handler"
          /\ slots'[s].reply # NoRequest <=> ~slots'[s].finished
          /\ slots'[s].finished <=> \E i \in 1 .. Len(slot_pool) : slot_pool[i] = s
    BY <1>1, <1>5, <1>9, <1>20, <2>1 DEF SlotInv
  <2>3. \A s : Owed(s)' => s \in 1 .. Len(slots) /\ (s = 1 \/ slots'[s].reply # NoRequest)
    BY <1>1, <1>5, <1>9, <1>16, <1>20 DEF SlotInv
  <2> QED
    BY <1>1, <1>2, <1>11, <1>21, <2>2, <2>3 DEF SlotInv
<1>23. Running' = Running
  BY <1>4, <1>11, <1>20, LenProperties DEF Running
<1>24. StackInv'
  <2>1. \A s \in Running : s \in 1 .. Len(slots)
    BY <1>1, RunningFacts DEF Live
  <2> QED
    BY <1>1, <1>2, <1>20, <1>23, <2>1 DEF StackInv
<1>25. /\ \A s : Live(s)' => Live(s) /\ slots'[s].req = slots[s].req
       /\ \A s : Replying(s)' =>
            \/ s = c /\ slots'[s].reply = r
            \/ s # c /\ Replying(s) /\ slots'[s].reply = slots[s].reply
  BY <1>11, <1>20 DEF Live, Replying
<1>26. BufferInv'
  <2> HIDE DEF c, h
  <2>1. 1 .. Len(mem) \subseteq 1 .. Len(mem')
    BY <1>4, <1>13
  <2>2. \A s : Live(s)' => slots'[s].req.buf \in 1 .. Len(mem')
    BY <1>1, <1>25, <2>1 DEF BufferInv
  <2>3. \A s, t : Live(s)' /\ Live(t)' /\ slots'[s].req.buf = slots'[t].req.buf => s = t
    BY <1>1, <1>25 DEF BufferInv
  <2>4. \A s : Replying(s)' => slots'[s].reply.buf \in 1 .. Len(mem')
    <3>1. \A s : Replying(s) => slots[s].reply.buf \in 1 .. Len(mem)
      BY <1>1 DEF BufferInv
    <3> QED
      BY <1>9, <1>13, <1>25, <2>1, <3>1
  <2>5. \A s, t : Replying(s)' /\ Replying(t)' /\ slots'[s].reply.buf = slots'[t].reply.buf
                    => s = t
    <3>1. \A s, t : Replying(s) /\ Replying(t) /\ slots[s].reply.buf = slots[t].reply.buf
                      => s = t
      BY <1>1 DEF BufferInv
    <3> QED
      BY <1>3, <1>9, <1>25, <3>1
  <2>6. \A s, t : Live(s)' /\ Replying(t)' => slots'[s].req.buf # slots'[t].reply.buf
    BY <1>1, <1>3, <1>9, <1>25 DEF BufferInv
  <2>7. \A i \in 1 .. Len(rest) :
          rest[i].buf \in 1 .. Len(mem) /\ rest[i] = requests[i] /\ i \in 1 .. Len(requests)
    BY <1>1, <1>3 DEF BufferInv
  <2>8. \A i \in 1 .. Len(rest) :
          /\ rest[i].buf \in 1 .. Len(mem')
          /\ \A s : Live(s)' => rest[i].buf # slots'[s].req.buf
          /\ \A s : Replying(s)' => rest[i].buf # slots'[s].reply.buf
    <3> SUFFICES ASSUME NEW i \in 1 .. Len(rest)
                 PROVE  /\ rest[i].buf \in 1 .. Len(mem')
                        /\ \A s : Live(s)' => rest[i].buf # slots'[s].req.buf
                        /\ \A s : Replying(s)' => rest[i].buf # slots'[s].reply.buf
      OBVIOUS
    <3>1. rest[i].buf \in 1 .. Len(mem')
      BY <2>1, <2>7
    <3>2. \A s : Live(s)' => rest[i].buf # slots'[s].req.buf
      BY <1>1, <1>25, <2>7 DEF BufferInv
    <3>3. \A s : Replying(s)' => rest[i].buf # slots'[s].reply.buf
      <4>1. rest[i].buf # r.buf
        BY <1>3, <1>9
      <4>2. \A s : Replying(s) => rest[i].buf # slots[s].reply.buf
        BY <1>1, <2>7 DEF BufferInv
      <4> QED
        BY <1>25, <4>1, <4>2
    <3> QED
      BY <3>1, <3>2, <3>3
  <2>9. \A i, j \in 1 .. Len(rest) : rest[i].buf = rest[j].buf => i = j
    BY <1>1, <1>3 DEF BufferInv
  <2> QED
    BY <1>2, <2>2, <2>3, <2>4, <2>5, <2>6, <2>8, <2>9 DEF BufferInv
<1>27. DataInv'
  <2>1. InCq(1)' => Genuine(slots[1].req)'
    <3> SUFFICES ASSUME InCq(1)
                 PROVE  Genuine(slots[1].req)'
      BY <1>16
    <3>1. Live(1) /\ Genuine(slots[1].req)
      BY <1>1, RunningFacts DEF DataInv
    <3>2. slots[1].req.buf \in 1 .. Len(mem) /\ slots[1].req.buf # q.buf
      BY <1>1, <1>3, <3>1 DEF BufferInv
    <3> QED
      BY <1>13, <1>21, <3>1, <3>2 DEF Genuine
  <2>2. \A s : Replying(s)' => Genuine(slots[s].reply)'
    <3> SUFFICES ASSUME NEW s, Replying(s)'
                 PROVE  Genuine(slots[s].reply)'
      OBVIOUS
    <3>1. CASE s = c
      BY <1>9, <1>12, <1>13, <1>25, <3>1 DEF Genuine
    <3>2. CASE s # c
      <4>1. Replying(s) /\ slots'[s].reply = slots[s].reply
        BY <1>25, <3>2
      <4>2. slots[s].reply.buf \in 1 .. Len(mem) /\ slots[s].reply.buf # q.buf
        BY <1>1, <1>3, <4>1 DEF BufferInv
      <4> QED
        BY <1>1, <1>13, <4>1, <4>2 DEF DataInv, Genuine
    <3> QED
      BY <3>1, <3>2
  <2>3. OwnReply'
    BY <1>1, <1>2 DEF DataInv, OwnReply
  <2> QED
    BY <1>2, <2>1, <2>2, <2>3 DEF DataInv
<1>28. LengthInv'
  <2>1. /\ \A m : Told(m)' <=> Told(m)
        /\ \A m, p : CutAsTold(m, p)' <=> CutAsTold(m, p)
    BY <1>2 DEF Told, CutAsTold
  <2>2. LenAsTold(slots[1].req)'
    BY <1>1, <1>21, <2>1 DEF LengthInv, LenAsTold
  <2>3. \A i \in 1 .. Len(requests') : LenAsTold(requests[i])'
    BY <1>1, <1>2, <1>3, <2>1 DEF LengthInv, LenAsTold
  <2>4. \A i \in 1 .. Len(cq') :
          IF cq'[i].cookie = 1 THEN CutAsTold(cq[i].res, slots[1].req.addr)'
                               ELSE Told(slots[cq[i].cookie].reply.len)'
    <3> SUFFICES ASSUME NEW i \in 1 .. Len(cq)
                 PROVE  IF cq[i].cookie = 1 THEN CutAsTold(cq[i].res, slots[1].req.addr)'
                                            ELSE Told(slots[cq[i].cookie].reply.len)'
      BY <1>2
    <3>1. Owed(cq[i].cookie)
      BY DEF Owed, InCq
    <3>2. cq[i].cookie # c /\ cq[i].cookie \in 1 .. Len(slots)
      BY <1>1, <1>6, <3>1 DEF SlotInv
    <3>3. slots'[cq[i].cookie] = slots[cq[i].cookie]
      BY <1>11, <3>2
    <3> QED
      BY <1>1, <1>2, <1>21, <2>1, <3>3 DEF LengthInv
  <2>5. \A s : Replying(s)' =>
          \E m \in Nat : slots'[s].reply.len = 2 * m /\ CutAsTold(m, slots[s].reply.addr)'
    <3> SUFFICES ASSUME NEW s, Replying(s)'
                 PROVE  \E m \in Nat : /\ slots'[s].reply.len = 2 * m
                                       /\ CutAsTold(m, slots[s].reply.addr)'
      OBVIOUS
    <3>1. CASE s = c
      <4>1. slots'[s].reply.len = 2 * h.res /\ slots'[s].reply.addr = h.req.addr
        BY <1>7, <1>9, <1>25, <3>1
      <4> QED
        BY <1>7, <1>8, <2>1, <4>1
    <3>2. CASE s # c
      BY <1>1, <1>25, <2>1, <3>2 DEF LengthInv
    <3> QED
      BY <3>1, <3>2
  <2>6. ShortOnlyAfterShort'
    BY <1>1, <1>2 DEF LengthInv, ShortOnlyAfterShort
  <2> QED
    BY <1>2, <2>2, <2>3, <2>4, <2>5, <2>6 DEF LengthInv
<1> QED
  BY <1>15, <1>17, <1>18, <1>19, <1>22, <1>24, <1>26, <1>27, <1>28 DEF IInv, RingInv

(* A slot from the pool, or a new one, is not in use (uf.h:151-156).       *)
LEMMA FreshSlot ==
  ASSUME TypeOK, SlotInv
  PROVE  LET slot == Got(slot_pool, Len(slots) + 1)
             rest == AfterGet(slot_pool)
         IN  /\ slot \in 2 .. Len(slots) \/ slot = Len(slots) + 1
             /\ ~Live(slot) /\ ~Replying(slot) /\ ~Owed(slot)
             /\ rest \in Seq(1 .. Len(slots)) /\ Len(rest) \in Nat
             /\ \A i \in 1 .. Len(rest) : rest[i] # 1 /\ rest[i] # slot
             /\ \A i, j \in 1 .. Len(rest) : rest[i] = rest[j] => i = j
             /\ \A s : s # slot =>
                  ((\E i \in 1 .. Len(rest) : rest[i] = s)
                     <=> \E i \in 1 .. Len(slot_pool) : slot_pool[i] = s)
<1> DEFINE slot == Got(slot_pool, Len(slots) + 1)
           rest == AfterGet(slot_pool)
           n == Len(slot_pool)
<1>1. /\ slot_pool \in Seq(1 .. Len(slots)) /\ n \in Nat /\ Len(slots) \in Nat
      /\ \A i \in 1 .. n : slot_pool[i] \in 1 .. Len(slots)
  BY Shapes
<1>2. /\ rest \in Seq(1 .. Len(slots))
      /\ \/ n = 0 /\ slot = Len(slots) + 1 /\ rest = slot_pool
         \/ /\ n > 0 /\ slot = slot_pool[n] /\ Len(rest) = n - 1
            /\ \A i \in 1 .. Len(rest) :
                 i \in 1 .. n /\ i # n /\ rest[i] = slot_pool[i]
  BY <1>1, GetFacts
<1>3. Len(rest) \in Nat
  BY <1>2, LenProperties
<1> HIDE DEF slot, rest
<1>4. CASE n = 0 /\ slot = Len(slots) + 1 /\ rest = slot_pool
  <2>1. slot \notin 1 .. Len(slots)
    BY <1>1, <1>4
  <2>2. ~Live(slot) /\ ~Replying(slot) /\ ~Owed(slot)
    BY <2>1 DEF Live, Replying, SlotInv
  <2>3. \A i \in 1 .. Len(rest) : FALSE
    BY <1>4
  <2> QED
    BY <1>2, <1>3, <1>4, <2>2, <2>3 DEF slot, rest
<1>5. CASE /\ n > 0 /\ slot = slot_pool[n] /\ Len(rest) = n - 1
           /\ \A i \in 1 .. Len(rest) : i \in 1 .. n /\ i # n /\ rest[i] = slot_pool[i]
  <2>1. n \in 1 .. n /\ \A i \in 1 .. n : i = n \/ i \in 1 .. Len(rest)
    <3> HIDE DEF n
    <3>1. n \in Nat /\ n > 0 /\ Len(rest) = n - 1
      BY <1>1, <1>5
    <3> QED
      BY <3>1
  <2>2. slot \in 1 .. Len(slots) /\ slot # 1 /\ \E i \in 1 .. n : slot_pool[i] = slot
    BY <1>1, <1>5, <2>1 DEF SlotInv
  <2>3. slot \in 2 .. Len(slots)
    BY <1>1, <2>2
  <2>4. slots[slot].finished /\ slots[slot].reply = NoRequest
    BY <2>2, <2>3 DEF SlotInv
  <2>5. ~Live(slot) /\ ~Replying(slot) /\ ~Owed(slot)
    BY <2>2, <2>4 DEF Live, Replying, SlotInv
  <2>6. \A i \in 1 .. Len(rest) : rest[i] # 1 /\ rest[i] # slot
    BY <1>5, <2>1 DEF SlotInv
  <2>7. \A i, j \in 1 .. Len(rest) : rest[i] = rest[j] => i = j
    <3>1. \A i, j \in 1 .. n : slot_pool[i] = slot_pool[j] => i = j
      BY DEF SlotInv
    <3> QED
      BY <1>5, <3>1
  <2>8. \A s : s # slot => ((\E i \in 1 .. Len(rest) : rest[i] = s)
                              <=> \E i \in 1 .. n : slot_pool[i] = s)
    BY <1>5, <2>1
  <2> QED
    BY <1>2, <1>3, <2>3, <2>5, <2>6, <2>7, <2>8 DEF slot, rest
<1> QED
  BY <1>2, <1>4, <1>5

(* So with a stack (uf.h:157).                                             *)
LEMMA FreshStack ==
  ASSUME TypeOK, SlotInv, StackInv
  PROVE  LET stack == Got(stacks, nstacks + 1)
             rest == AfterGet(stacks)
             n == IF stack > nstacks THEN stack ELSE nstacks
         IN  /\ stack \in 1 .. n /\ n \in Nat
             /\ rest \in Seq(1 .. n)
             /\ \A i \in 1 .. Len(rest) : rest[i] # stack
             /\ \A i, j \in 1 .. Len(rest) : rest[i] = rest[j] => i = j
             /\ \A s \in Running :
                  /\ slots[s].stack \in 1 .. n /\ slots[s].stack # stack
                  /\ \A i \in 1 .. Len(rest) : rest[i] # slots[s].stack
             /\ n = Len(rest) + Cardinality(Running) + 1
<1> DEFINE stack == Got(stacks, nstacks + 1)
           rest == AfterGet(stacks)
           n == IF stack > nstacks THEN stack ELSE nstacks
           k == Len(stacks)
<1>1. /\ stacks \in Seq(1 .. nstacks) /\ k \in Nat /\ nstacks \in Nat
      /\ \A i \in 1 .. k : stacks[i] \in 1 .. nstacks
  BY Shapes
<1>2. /\ rest \in Seq(1 .. nstacks)
      /\ \/ k = 0 /\ stack = nstacks + 1 /\ rest = stacks
         \/ /\ k > 0 /\ stack = stacks[k] /\ Len(rest) = k - 1
            /\ \A i \in 1 .. Len(rest) : i \in 1 .. k /\ i # k /\ rest[i] = stacks[i]
  BY <1>1, GetFacts
<1>3. Cardinality(Running) \in Nat /\ nstacks = k + Cardinality(Running)
  BY RunningFacts DEF StackInv
<1> HIDE DEF stack, rest
<1>4. CASE k = 0 /\ stack = nstacks + 1 /\ rest = stacks
  <2>1. n = nstacks + 1 /\ n \in Nat /\ stack \in 1 .. n /\ 1 .. nstacks \subseteq 1 .. n
        /\ stack \notin 1 .. nstacks
    BY <1>1, <1>4
  <2>2. \A i \in 1 .. Len(rest) : FALSE
    BY <1>4
  <2>3. rest \in Seq(1 .. n)
    BY <1>4, <2>1
  <2>4. \A s \in Running : slots[s].stack \in 1 .. n /\ slots[s].stack # stack
    BY <2>1 DEF StackInv
  <2>5. n = Len(rest) + Cardinality(Running) + 1
    BY <1>3, <1>4, <2>1
  <2> HIDE DEF n
  <2> QED
    BY <2>1, <2>2, <2>3, <2>4, <2>5 DEF stack, rest, n
<1>5. CASE /\ k > 0 /\ stack = stacks[k] /\ Len(rest) = k - 1
           /\ \A i \in 1 .. Len(rest) : i \in 1 .. k /\ i # k /\ rest[i] = stacks[i]
  <2>1. k \in 1 .. k /\ stack \in 1 .. nstacks /\ n = nstacks
    BY <1>1, <1>5
  <2>2. /\ \A i \in 1 .. Len(rest) : rest[i] # stack
        /\ \A i, j \in 1 .. Len(rest) : rest[i] = rest[j] => i = j
    BY <1>5, <2>1 DEF StackInv
  <2>3. \A s \in Running :
          /\ slots[s].stack \in 1 .. nstacks /\ slots[s].stack # stack
          /\ \A i \in 1 .. Len(rest) : rest[i] # slots[s].stack
    BY <1>5, <2>1 DEF StackInv
  <2>4. n = Len(rest) + Cardinality(Running) + 1
    BY <1>1, <1>3, <1>5, <2>1
  <2> HIDE DEF n
  <2> QED
    BY <1>1, <1>2, <2>1, <2>2, <2>3, <2>4 DEF stack, rest, n
<1> QED
  BY <1>2, <1>4, <1>5

(* The request moves into a handler; the receive starts again with another *)
(* (uf.h:146-172).                                                         *)
LEMMA StartHandlerKeeps == ASSUME IInv, StartHandler PROVE IInv'
<1> DEFINE a == slots[1].req
           t == Got(slot_pool, Len(slots) + 1)
           k == Got(stacks, nstacks + 1)
           q == Got(requests, NewRequest)
           pool == AfterGet(slot_pool)
           rest == AfterGet(requests)
           h == [kind |-> "handler", req |-> a, reply |-> NoRequest, stack |-> k,
                 res |-> Head(cq).res, finished |-> FALSE]
           rearmed == [slots EXCEPT ![1] = RequestSlot(q)]
<1>1. /\ TypeOK /\ UringTypeOK /\ OneCompletion /\ OpsInv /\ QueueInv /\ SlotInv /\ StackInv
      /\ BufferInv /\ DataInv /\ LengthInv
  BY DEF IInv, RingInv, TypeOK
<1>2. PollCookie /\ epc = "poll" /\ slots[Polled].kind = "request"
  BY DEF StartHandler, AtPoll
<1>3. /\ Head(cq) = cq[1] /\ Head(cq) \in Cqe /\ Polled \in Nat
      /\ Len(cq) \in Nat \ {0}
      /\ InCq(Polled) /\ ~InSq(Polled) /\ ~InFlight(Polled)
      /\ cq' \in Seq(Cqe) /\ Len(cq') = Len(cq) - 1
      /\ \A i \in 1 .. Len(cq') : i + 1 \in 1 .. Len(cq) /\ i + 1 # 1 /\ cq'[i] = cq[i + 1]
      /\ \A i, j \in 1 .. Len(cq') : cq'[i].cookie = cq'[j].cookie => i = j
      /\ \A i \in 1 .. Len(cq') : cq'[i].op = "recv" <=> cq'[i].cookie = 1
      /\ \A s : InCq(s)' <=> InCq(s) /\ s # Polled
      /\ \A s : InFlight(s)' <=> InFlight(s)
      /\ UNCHANGED <<taken, inflight>>
  BY <1>1, <1>2, PollMoves
<1>4. Polled = 1
  <2>1. Owed(Polled)
    BY <1>3 DEF Owed
  <2>2. Polled \in 1 .. Len(slots)
    BY <1>1, <2>1 DEF SlotInv
  <2>3. Polled \in 2 .. Len(slots) => slots[Polled].kind = "handler"
    BY <1>1 DEF SlotInv
  <2> HIDE DEF Polled
  <2> QED
    BY <1>1, <1>2, <2>2, <2>3, Shapes
<1>5. /\ slots' = IF t > Len(slots) THEN Append(rearmed, h) ELSE [rearmed EXCEPT ![t] = h]
      /\ nstacks' = (IF k > nstacks THEN k ELSE nstacks)
      /\ current' = t
      /\ mem' = IF q.buf > Len(mem) THEN Append(mem, Nobody) ELSE mem
      /\ slot_pool' = pool /\ stacks' = AfterGet(stacks) /\ requests' = rest
      /\ Submit("recv", 1) /\ epc' = "jump"
      /\ UNCHANGED <<inbox, asked, sent>>
  BY <1>4 DEF StartHandler, NextRequest, Rearm, envVars
<1>6. /\ q \in Request /\ LenAsTold(q) /\ rest \in Seq(Request)
      /\ \A i \in 1 .. Len(rest) :
           i \in 1 .. Len(requests) /\ rest[i] = requests[i] /\ rest[i].buf # q.buf
      /\ q.buf \in 1 .. Len(mem) \/ q.buf = Len(mem) + 1
      /\ \A s : Live(s) => slots[s].req.buf # q.buf
      /\ \A s : Replying(s) => slots[s].reply.buf # q.buf
  BY <1>1, FreshRequest
<1>7. /\ t \in 2 .. Len(slots) \/ t = Len(slots) + 1
      /\ ~Live(t) /\ ~Replying(t) /\ ~Owed(t)
      /\ pool \in Seq(1 .. Len(slots)) /\ Len(pool) \in Nat
      /\ \A i \in 1 .. Len(pool) : pool[i] # 1 /\ pool[i] # t
      /\ \A i, j \in 1 .. Len(pool) : pool[i] = pool[j] => i = j
      /\ \A s : s # t => ((\E i \in 1 .. Len(pool) : pool[i] = s)
                            <=> \E i \in 1 .. Len(slot_pool) : slot_pool[i] = s)
  BY <1>1, FreshSlot
<1>8. /\ k \in 1 .. nstacks' /\ nstacks' \in Nat
      /\ stacks' \in Seq(1 .. nstacks')
      /\ \A i \in 1 .. Len(stacks') : stacks'[i] # k
      /\ \A i, j \in 1 .. Len(stacks') : stacks'[i] = stacks'[j] => i = j
      /\ \A s \in Running :
           /\ slots[s].stack \in 1 .. nstacks' /\ slots[s].stack # k
           /\ \A i \in 1 .. Len(stacks') : stacks'[i] # slots[s].stack
      /\ nstacks' = Len(stacks') + Cardinality(Running) + 1
  BY <1>1, <1>5, FreshStack
<1> HIDE DEF t, k, q, pool, rest
<1>9. /\ slots \in Seq(Slot) /\ Len(slots) \in Nat /\ Len(mem) \in Nat
      /\ mem \in Seq(Peers \cup {Nobody}) /\ Len(sq) \in Nat /\ taken \in 0 .. Len(sq)
      /\ 1 \in 1 .. Len(slots) /\ Live(1)
  BY <1>1, Shapes, RunningFacts DEF SlotInv
<1>10. /\ a \in Request /\ Genuine(a) /\ Head(cq).res \in Nat
       /\ CutAsTold(Head(cq).res, a.addr)
  <2>1. a \in Request /\ Genuine(a)
    BY <1>1, <1>3, <1>4, <1>9, Shapes, Parts DEF DataInv
  <2>2. 1 \in 1 .. Len(cq) /\ cq[1].cookie = 1
    BY <1>3, <1>4 DEF Polled
  <2>3. CutAsTold(cq[1].res, a.addr)
    BY <1>1, <2>2 DEF LengthInv
  <2> QED
    BY <1>3, <2>1, <2>3 DEF Cqe
<1>11. /\ h \in Slot /\ h.kind = "handler" /\ h.req = a /\ h.reply = NoRequest
       /\ h.stack = k /\ h.res = Head(cq).res /\ ~h.finished
  <2>1. k \in Nat
    BY <1>8
  <2> QED
    BY <1>10, <2>1, Parts DEF Slot
<1>12. /\ RequestSlot(q) \in Slot /\ RequestSlot(q).kind = "request"
       /\ RequestSlot(q).req = q /\ RequestSlot(q).reply = NoRequest
       /\ ~RequestSlot(q).finished
  BY <1>6, Parts DEF RequestSlot, Slot
<1> HIDE DEF h, a
<1>13. /\ rearmed \in Seq(Slot) /\ Len(rearmed) = Len(slots)
       /\ \A s \in 1 .. Len(slots) : rearmed[s] = IF s = 1 THEN RequestSlot(q) ELSE slots[s]
  BY <1>9, <1>12, ExceptSeq
<1> HIDE DEF rearmed
<1>14. /\ slots' \in Seq(Slot) /\ Len(slots') \in Nat /\ Len(slots') >= Len(slots)
       /\ 1 .. Len(slots') = (1 .. Len(slots)) \cup {t}
       /\ 2 .. Len(slots') = (2 .. Len(slots)) \cup {t}
       /\ t # 1 /\ slots'[t] = h /\ slots'[1] = RequestSlot(q)
       /\ \A s \in 1 .. Len(slots) : s # 1 /\ s # t => slots'[s] = slots[s]
  <2>1. CASE t = Len(slots) + 1
    <3>1. slots' = Append(rearmed, h)
      BY <1>5, <1>9, <2>1
    <3>2. /\ slots' \in Seq(Slot) /\ Len(slots') = Len(slots) + 1
          /\ \A s \in 1 .. Len(slots) : slots'[s] = rearmed[s]
          /\ slots'[t] = h
      BY <1>11, <1>13, <2>1, <3>1, AppendProperties
    <3>3. PICK n \in Nat : n = Len(slots)
      BY <1>9
    <3>4. /\ Len(slots') = n + 1 /\ Len(slots') \in Nat /\ Len(slots') >= n
          /\ t = n + 1 /\ t # 1 /\ 1 \in 1 .. n
      BY <1>9, <2>1, <3>2, <3>3
    <3>5. 1 .. n + 1 = (1 .. n) \cup {n + 1} /\ 2 .. n + 1 = (2 .. n) \cup {n + 1}
      BY <3>4
    <3>6. /\ slots'[1] = RequestSlot(q)
          /\ \A s \in 1 .. Len(slots) : s # 1 /\ s # t => slots'[s] = slots[s]
      BY <1>13, <3>2, <3>3, <3>4
    <3> QED
      BY <3>2, <3>3, <3>4, <3>5, <3>6
  <2>2. CASE t \in 2 .. Len(slots)
    <3>1. t \in 1 .. Len(slots) /\ t # 1
      BY <1>9, <2>2
    <3>2. slots' = [rearmed EXCEPT ![t] = h]
      BY <1>5, <1>9, <3>1
    <3>3. /\ slots' \in Seq(Slot) /\ Len(slots') = Len(slots)
          /\ \A s \in 1 .. Len(slots) : slots'[s] = IF s = t THEN h ELSE rearmed[s]
      BY <1>11, <1>13, <3>1, <3>2, ExceptSeq
    <3>4. /\ slots'[t] = h /\ slots'[1] = RequestSlot(q)
          /\ \A s \in 1 .. Len(slots) : s # 1 /\ s # t => slots'[s] = slots[s]
      BY <1>9, <1>13, <3>1, <3>3
    <3>5. /\ 1 .. Len(slots) = (1 .. Len(slots)) \cup {t}
          /\ 2 .. Len(slots) = (2 .. Len(slots)) \cup {t}
      BY <2>2, <3>1
    <3> QED
      BY <1>9, <3>1, <3>3, <3>4, <3>5
  <2> QED
    BY <1>7, <2>1, <2>2
<1>15. /\ mem' \in Seq(Peers \cup {Nobody}) /\ Len(mem') \in Nat
       /\ 1 .. Len(mem) \subseteq 1 .. Len(mem')
       /\ q.buf \in 1 .. Len(mem')
       /\ \A b \in 1 .. Len(mem) : mem'[b] = mem[b]
  <2>1. CASE q.buf = Len(mem) + 1
    <3>1. mem' = Append(mem, Nobody)
      BY <1>5, <1>9, <2>1
    <3> QED
      BY <1>9, <2>1, <3>1, AppendProperties
  <2>2. CASE q.buf \in 1 .. Len(mem)
    BY <1>5, <1>9, <2>2
  <2> QED
    BY <1>6, <2>1, <2>2
<1>16. /\ sq' \in Seq(Entry) /\ Len(sq') = Len(sq) + 1 /\ taken' \in 0 .. Len(sq')
       /\ \A s : InSq(s)' <=> InSq(s) \/ s = 1
       /\ \A i, j \in taken' + 1 .. Len(sq') : sq'[i].cookie = sq'[j].cookie => i = j
       /\ \A i \in 1 .. Len(sq') : sq'[i].op = "recv" <=> sq'[i].cookie = 1
  <2>1. ~InSq(1)
    BY <1>3, <1>4
  <2> QED
    BY <1>1, <1>3, <1>5, <2>1, SubmitMoves
<1>17. TypeOK'
  <2>1. UringTypeOK'
    BY <1>1, <1>3, <1>16 DEF UringTypeOK
  <2>2. slot_pool' \in Seq(DOMAIN slots')
    <3>1. DOMAIN slots' = 1 .. Len(slots') /\ 1 .. Len(slots) \subseteq 1 .. Len(slots')
      BY <1>14, LenProperties
    <3>2. pool \in Seq(1 .. Len(slots'))
      BY <1>7, <3>1, SeqMonotonic
    <3> QED
      BY <1>5, <3>1, <3>2
  <2>3. current' \in 0 .. Len(slots')
    BY <1>5, <1>14
  <2>4. /\ inbox' \in Seq(Peers) /\ asked' \in 0 .. MaxRequests
        /\ sent' \in Seq([to : Peers, whose : Peers, len : Nat])
    BY <1>1, <1>5 DEF TypeOK
  <2>5. requests' \in Seq(Request) /\ epc' \in {"poll", "jump"}
    BY <1>5, <1>6
  <2> QED
    BY <1>8, <1>14, <1>15, <2>1, <2>2, <2>3, <2>4, <2>5 DEF TypeOK

<1>18. \A s : Owed(s)' <=> s = 1 \/ (Owed(s) /\ s # 1)
  BY <1>3, <1>4, <1>16 DEF Owed
<1>19. OneCompletion'
  <2>1. \A s : /\ ~(InSq(s)' /\ InFlight(s)') /\ ~(InSq(s)' /\ InCq(s)')
               /\ ~(InFlight(s)' /\ InCq(s)')
    BY <1>1, <1>3, <1>4, <1>16 DEF OneCompletion
  <2> QED
    BY <1>1, <1>3, <1>16, <2>1 DEF OneCompletion
<1>20. OpsInv'
  BY <1>1, <1>3, <1>16 DEF OpsInv
<1>21. QueueInv'
  <2>1. Len(sq') - taken' = Len(sq) - taken + 1
    BY <1>3, <1>9, <1>16
  <2>2. InSq(1)' /\ ~InSq(1)
    BY <1>3, <1>4, <1>16
  <2> QED
    BY <1>1, <1>2, <1>3, <1>5, <1>9, <2>1, <2>2 DEF QueueInv
<1>22. SlotInv'
  <2>1. \A s \in 2 .. Len(slots) : s \in 1 .. Len(slots) /\ s # 1
    BY <1>9
  <2>2. \A s \in 2 .. Len(slots') :
          /\ slots'[s].kind = "handler"
          /\ slots'[s].reply # NoRequest <=> ~slots'[s].finished /\ s # t
          /\ slots'[s].finished <=> \E i \in 1 .. Len(pool) : pool[i] = s
    <3> SUFFICES ASSUME NEW s \in 2 .. Len(slots')
                 PROVE  /\ slots'[s].kind = "handler"
                        /\ slots'[s].reply # NoRequest <=> ~slots'[s].finished /\ s # t
                        /\ slots'[s].finished <=> \E i \in 1 .. Len(pool) : pool[i] = s
      OBVIOUS
    <3>1. CASE s = t
      <4>1. slots'[s] = h /\ \A i \in 1 .. Len(pool) : pool[i] # s
        BY <1>7, <1>14, <3>1
      <4> QED
        BY <1>11, <3>1, <4>1
    <3>2. CASE s # t
      <4>1. s \in 2 .. Len(slots)
        BY <1>14, <3>2
      <4>2. slots'[s] = slots[s]
        BY <1>14, <2>1, <3>2, <4>1
      <4>3. /\ slots[s].kind = "handler"
            /\ slots[s].reply # NoRequest <=> ~slots[s].finished
            /\ slots[s].finished <=> \E i \in 1 .. Len(slot_pool) : slot_pool[i] = s
        BY <1>1, <1>2, <4>1 DEF SlotInv
      <4> QED
        BY <1>7, <3>2, <4>2, <4>3
    <3> QED
      BY <3>1, <3>2
  <2>3. \A s : Owed(s)' => s \in 1 .. Len(slots') /\ (s = 1 \/ slots'[s].reply # NoRequest)
    <3> SUFFICES ASSUME NEW s, Owed(s), s # 1
                 PROVE  s \in 1 .. Len(slots') /\ slots'[s].reply # NoRequest
      BY <1>9, <1>14, <1>18
    <3>1. s \in 1 .. Len(slots) /\ s # t /\ slots[s].reply # NoRequest
      BY <1>1, <1>7 DEF SlotInv
    <3> QED
      BY <1>14, <3>1
  <2>4. t \in 2 .. Len(slots') /\ ~slots'[t].finished
    BY <1>11, <1>14
  <2>5. Len(slots') >= 1
    BY <1>9, <1>14
  <2>6. /\ slots'[1].kind = "request" /\ ~slots'[1].finished
        /\ slots'[1].reply = NoRequest
    BY <1>12, <1>14
  <2>7. /\ \A i \in 1 .. Len(slot_pool') : slot_pool'[i] # 1
        /\ \A i, j \in 1 .. Len(slot_pool') : slot_pool'[i] = slot_pool'[j] => i = j
    BY <1>5, <1>7
  <2>8. slot_pool' = pool /\ epc' = "jump" /\ current' = t
    BY <1>5
  <2> QED
    BY <2>2, <2>3, <2>4, <2>5, <2>6, <2>7, <2>8 DEF SlotInv
<1>23. Running' = Running \cup {t} /\ t \notin Running
  <2>1. Running = {s \in 2 .. Len(slots) : ~slots[s].finished}
    BY <1>1, RunningFacts
  <2>2. Running' = {s \in 2 .. Len(slots') : ~slots'[s].finished}
    <3>1. DOMAIN slots' = 1 .. Len(slots') /\ Len(slots') \in Nat
      BY <1>14, LenProperties
    <3>2. /\ \A s \in 2 .. Len(slots') : slots'[s].kind = "handler"
          /\ slots'[1].kind = "request"
      BY <1>22 DEF SlotInv
    <3>3. \A s \in 1 .. Len(slots') : s = 1 \/ s \in 2 .. Len(slots')
      BY <3>1
    <3>4. \A s \in 2 .. Len(slots') : s \in 1 .. Len(slots')
      BY <3>1
    <3> QED
      BY <3>1, <3>2, <3>3, <3>4 DEF Running
  <2>3. \A s \in 2 .. Len(slots) : s \in 1 .. Len(slots) /\ s # 1
    BY <1>9
  <2>4. t \notin Running
    BY <1>1, <1>7, RunningFacts
  <2> QED
    BY <1>11, <1>14, <2>1, <2>2, <2>3, <2>4
<1>24. \A s \in Running : s # t /\ slots'[s] = slots[s]
  <2>1. \A s \in Running : s \in 1 .. Len(slots) /\ s # 1
    BY <1>1, RunningFacts DEF Live
  <2> QED
    BY <1>14, <1>23, <2>1
<1>25. StackInv'
  <2>1. /\ IsFiniteSet(Running) /\ Cardinality(Running) \in Nat
        /\ Cardinality(Running') = Cardinality(Running) + 1
    BY <1>1, <1>23, RunningFacts, FS_AddElement
  <2>2. Len(stacks') \in Nat
    BY <1>8, LenProperties
  <2>3. nstacks' = Len(stacks') + Cardinality(Running')
    BY <1>8, <2>1, <2>2
  <2>4. slots'[t].stack = k
    BY <1>11, <1>14
  <2>5. \A s, u \in Running' : slots'[s].stack = slots'[u].stack => s = u
    <3>1. \A s, u \in Running : slots'[s].stack = slots'[u].stack => s = u
      BY <1>1, <1>24 DEF StackInv
    <3>2. \A s \in Running : slots'[s].stack # slots'[t].stack
      BY <1>8, <1>24, <2>4
    <3> QED
      BY <1>23, <3>1, <3>2
  <2>6. \A s \in Running' :
          /\ slots'[s].stack \in 1 .. nstacks'
          /\ \A i \in 1 .. Len(stacks') : stacks'[i] # slots'[s].stack
    BY <1>8, <1>23, <1>24, <2>4
  <2> QED
    BY <1>8, <2>3, <2>5, <2>6 DEF StackInv
<1>26. /\ \A s : Live(s)' => \/ s = 1 /\ slots'[s].req = q
                             \/ s = t /\ slots'[s].req = a
                             \/ s # 1 /\ s # t /\ Live(s) /\ slots'[s].req = slots[s].req
       /\ \A s : Replying(s)' =>
            s # 1 /\ s # t /\ Replying(s) /\ slots'[s].reply = slots[s].reply
  <2>1. /\ slots'[1].req = q /\ slots'[1].reply = NoRequest
        /\ slots'[t].req = a /\ slots'[t].reply = NoRequest
    BY <1>11, <1>12, <1>14
  <2>2. \A s \in 1 .. Len(slots') : s = t \/ s \in 1 .. Len(slots)
    BY <1>14
  <2> QED
    BY <1>14, <2>1, <2>2 DEF Live, Replying
<1>27. /\ a.buf \in 1 .. Len(mem) /\ a.buf # q.buf
       /\ \A s : Live(s) /\ s # 1 => slots[s].req.buf # a.buf
       /\ \A s : Replying(s) => slots[s].reply.buf # a.buf
       /\ \A i \in 1 .. Len(requests) : requests[i].buf # a.buf
  <2>1. a.buf \in 1 .. Len(mem) /\ a.buf # q.buf
    BY <1>1, <1>6, <1>9 DEF BufferInv, a
  <2>2. \A s : Live(s) /\ s # 1 => slots[s].req.buf # a.buf
    BY <1>1, <1>9 DEF BufferInv, a
  <2>3. \A s : Replying(s) => slots[s].reply.buf # a.buf
    BY <1>1, <1>9 DEF BufferInv, a
  <2>4. \A i \in 1 .. Len(requests) : requests[i].buf # a.buf
    BY <1>1, <1>9 DEF BufferInv, a
  <2> QED
    BY <2>1, <2>2, <2>3, <2>4

<1>28. BufferInv'
  <2>1. /\ \A s : Live(s) => slots[s].req.buf \in 1 .. Len(mem)
        /\ \A s : Replying(s) => slots[s].reply.buf \in 1 .. Len(mem)
        /\ \A i \in 1 .. Len(requests) : requests[i].buf \in 1 .. Len(mem)
    BY <1>1 DEF BufferInv
  <2>2. \A s, u : Live(s) /\ Live(u) /\ slots[s].req.buf = slots[u].req.buf => s = u
    BY <1>1 DEF BufferInv
  <2>3. \A s, u : Replying(s) /\ Replying(u) /\ slots[s].reply.buf = slots[u].reply.buf => s = u
    BY <1>1 DEF BufferInv
  <2>4. \A s, u : Live(s) /\ Replying(u) => slots[s].req.buf # slots[u].reply.buf
    BY <1>1 DEF BufferInv
  <2>5. \A i \in 1 .. Len(rest) :
          /\ rest[i] = requests[i] /\ rest[i].buf # q.buf /\ rest[i].buf # a.buf
          /\ rest[i].buf \in 1 .. Len(mem)
          /\ \A s : Live(s) => rest[i].buf # slots[s].req.buf
          /\ \A s : Replying(s) => rest[i].buf # slots[s].reply.buf
    <3> SUFFICES ASSUME NEW i \in 1 .. Len(rest)
                 PROVE  /\ rest[i] = requests[i] /\ rest[i].buf # q.buf /\ rest[i].buf # a.buf
                        /\ rest[i].buf \in 1 .. Len(mem)
                        /\ \A s : Live(s) => rest[i].buf # slots[s].req.buf
                        /\ \A s : Replying(s) => rest[i].buf # slots[s].reply.buf
      OBVIOUS
    <3>1. i \in 1 .. Len(requests) /\ rest[i] = requests[i] /\ rest[i].buf # q.buf
      BY <1>6
    <3>2. /\ \A s : Live(s) => requests[i].buf # slots[s].req.buf
          /\ \A s : Replying(s) => requests[i].buf # slots[s].reply.buf
      BY <1>1, <3>1 DEF BufferInv
    <3>3. rest[i].buf # a.buf /\ rest[i].buf \in 1 .. Len(mem)
      BY <1>27, <2>1, <3>1
    <3> QED
      BY <3>1, <3>2, <3>3
  <2>6. \A s : Live(s)' => slots'[s].req.buf \in 1 .. Len(mem')
    <3> SUFFICES ASSUME NEW s, Live(s)' PROVE slots'[s].req.buf \in 1 .. Len(mem')
      OBVIOUS
    <3>1. \/ slots'[s].req = q \/ slots'[s].req = a
          \/ Live(s) /\ slots'[s].req = slots[s].req
      BY <1>26
    <3>2. q.buf \in 1 .. Len(mem') /\ a.buf \in 1 .. Len(mem')
      BY <1>15, <1>27
    <3> QED
      BY <1>15, <2>1, <3>1, <3>2
  <2>7. \A s : Replying(s)' => slots'[s].reply.buf \in 1 .. Len(mem')
    BY <1>15, <1>26, <2>1
  <2>8. \A s, u : Live(s)' /\ Live(u)' /\ slots'[s].req.buf = slots'[u].req.buf => s = u
    <3> SUFFICES ASSUME NEW s, NEW u, Live(s)', Live(u)', slots'[s].req.buf = slots'[u].req.buf
                 PROVE  s = u
      OBVIOUS
    <3>1. /\ \/ s = 1 /\ slots'[s].req = q
             \/ s = t /\ slots'[s].req = a
             \/ s # 1 /\ Live(s) /\ slots'[s].req = slots[s].req
          /\ \/ u = 1 /\ slots'[u].req = q
             \/ u = t /\ slots'[u].req = a
             \/ u # 1 /\ Live(u) /\ slots'[u].req = slots[u].req
      BY <1>26
    <3>2. /\ Live(s) => slots[s].req.buf # q.buf
          /\ Live(u) => slots[u].req.buf # q.buf
          /\ Live(s) /\ s # 1 => slots[s].req.buf # a.buf
          /\ Live(u) /\ u # 1 => slots[u].req.buf # a.buf
          /\ a.buf # q.buf
      BY <1>6, <1>27
    <3>3. Live(s) /\ Live(u) /\ slots[s].req.buf = slots[u].req.buf => s = u
      BY <2>2
    <3> QED
      BY <3>1, <3>2, <3>3
  <2>9. \A s, u : Replying(s)' /\ Replying(u)' /\ slots'[s].reply.buf = slots'[u].reply.buf
                    => s = u
    BY <1>26, <2>3
  <2>10. \A s, u : Live(s)' /\ Replying(u)' => slots'[s].req.buf # slots'[u].reply.buf
    <3> SUFFICES ASSUME NEW s, NEW u, Live(s)', Replying(u)'
                 PROVE  slots'[s].req.buf # slots'[u].reply.buf
      OBVIOUS
    <3>1. /\ Replying(u) /\ slots'[u].reply = slots[u].reply
          /\ slots[u].reply.buf # q.buf /\ slots[u].reply.buf # a.buf
      BY <1>6, <1>26, <1>27
    <3>2. \/ slots'[s].req = q \/ slots'[s].req = a
          \/ Live(s) /\ slots'[s].req = slots[s].req
      BY <1>26
    <3>3. Live(s) => slots[s].req.buf # slots[u].reply.buf
      BY <2>4, <3>1
    <3> QED
      BY <3>1, <3>2, <3>3
  <2>11. \A i \in 1 .. Len(rest) : rest[i].buf \in 1 .. Len(mem')
    BY <1>15, <2>5
  <2>12. \A i \in 1 .. Len(rest) : \A s : Live(s)' => rest[i].buf # slots'[s].req.buf
    <3> SUFFICES ASSUME NEW i \in 1 .. Len(rest), NEW s, Live(s)'
                 PROVE  rest[i].buf # slots'[s].req.buf
      OBVIOUS
    <3>1. \/ slots'[s].req = q \/ slots'[s].req = a
          \/ Live(s) /\ slots'[s].req = slots[s].req
      BY <1>26
    <3> QED
      BY <2>5, <3>1
  <2>13. \A i \in 1 .. Len(rest) : \A s : Replying(s)' => rest[i].buf # slots'[s].reply.buf
    BY <1>26, <2>5
  <2>14. \A i, j \in 1 .. Len(rest) : rest[i].buf = rest[j].buf => i = j
    <3>1. \A i, j \in 1 .. Len(requests) : requests[i].buf = requests[j].buf => i = j
      BY <1>1 DEF BufferInv
    <3> QED
      BY <1>6, <3>1
  <2>15. requests' = rest
    BY <1>5
  <2> QED
    BY <2>6, <2>7, <2>8, <2>9, <2>10, <2>11, <2>12, <2>13, <2>14, <2>15 DEF BufferInv
<1>29. DataInv'
  <2>1. ~InCq(1)'
    BY <1>3, <1>4
  <2>2. Genuine(slots[current].req)'
    <3>1. slots'[current'].req = a
      BY <1>5, <1>11, <1>14
    <3>2. a.addr \in Peers /\ mem'[a.buf] = a.addr
      BY <1>10, <1>15, <1>27 DEF Genuine
    <3> QED
      BY <3>1, <3>2 DEF Genuine
  <2>3. \A s : Replying(s)' => Genuine(slots[s].reply)'
    <3> SUFFICES ASSUME NEW s, Replying(s)'
                 PROVE  Genuine(slots[s].reply)'
      OBVIOUS
    <3>1. Replying(s) /\ slots'[s].reply = slots[s].reply
      BY <1>26
    <3>2. slots[s].reply.buf \in 1 .. Len(mem) /\ Genuine(slots[s].reply)
      BY <1>1, <3>1 DEF BufferInv, DataInv
    <3> QED
      BY <1>15, <3>1, <3>2 DEF Genuine
  <2>4. OwnReply'
    BY <1>1, <1>5 DEF DataInv, OwnReply
  <2> QED
    BY <2>1, <2>2, <2>3, <2>4 DEF DataInv
<1>30. LengthInv'
  <2>1. /\ \A m : Told(m)' <=> Told(m)
        /\ \A m, p : CutAsTold(m, p)' <=> CutAsTold(m, p)
    BY <1>5 DEF Told, CutAsTold
  <2>2. LenAsTold(slots[1].req)'
    BY <1>6, <1>12, <1>14, <2>1 DEF LenAsTold
  <2>3. \A i \in 1 .. Len(requests') : LenAsTold(requests[i])'
    BY <1>1, <1>5, <1>6, <2>1 DEF LengthInv, LenAsTold
  <2>4. \A i \in 1 .. Len(cq') :
          IF cq'[i].cookie = 1 THEN CutAsTold(cq[i].res, slots[1].req.addr)'
                               ELSE Told(slots[cq[i].cookie].reply.len)'
    <3> SUFFICES ASSUME NEW i \in 1 .. Len(cq')
                 PROVE  IF cq'[i].cookie = 1 THEN CutAsTold(cq[i].res, slots[1].req.addr)'
                                             ELSE Told(slots[cq[i].cookie].reply.len)'
      OBVIOUS
    <3>1. cq'[i] = cq[i + 1] /\ i + 1 \in 1 .. Len(cq) /\ i + 1 # 1 /\ 1 \in 1 .. Len(cq)
      BY <1>3
    <3>2. cq[i + 1].cookie # 1 /\ Owed(cq[i + 1].cookie)
      BY <1>1, <1>3, <1>4, <3>1 DEF Owed, InCq, OneCompletion, Polled
    <3>3. cq[i + 1].cookie \in 1 .. Len(slots) /\ cq[i + 1].cookie # t
      BY <1>1, <1>7, <3>2 DEF SlotInv
    <3>4. slots'[cq[i + 1].cookie] = slots[cq[i + 1].cookie]
      BY <1>14, <3>2, <3>3
    <3>5. Told(slots[cq[i + 1].cookie].reply.len)
      BY <1>1, <3>1, <3>2 DEF LengthInv
    <3> QED
      BY <2>1, <3>1, <3>2, <3>4, <3>5
  <2>5. CutAsTold(slots[current].res, slots[current].req.addr)'
    BY <1>5, <1>10, <1>11, <1>14, <2>1
  <2>6. \A s : Replying(s)' =>
          \E m \in Nat : slots'[s].reply.len = 2 * m /\ CutAsTold(m, slots[s].reply.addr)'
    BY <1>1, <1>26, <2>1 DEF LengthInv
  <2>7. ShortOnlyAfterShort'
    BY <1>1, <1>5 DEF LengthInv, ShortOnlyAfterShort
  <2> QED
    BY <2>2, <2>3, <2>4, <2>5, <2>6, <2>7 DEF LengthInv
<1> QED
  BY <1>17, <1>19, <1>20, <1>21, <1>22, <1>25, <1>28, <1>29, <1>30 DEF IInv, RingInv

(* A stutter changes nothing of the invariant.                             *)
LEMMA StutterKeeps == ASSUME IInv, UNCHANGED vars PROVE IInv'
<1>1. UNCHANGED <<sq, taken, inflight, cq, inbox, asked, sent, slots, mem, nstacks, slot_pool,
                  stacks, requests, epc, current>>
  BY DEF vars
<1>2. TypeOK' /\ OneCompletion' /\ OpsInv' /\ QueueInv'
  BY <1>1 DEF IInv, RingInv, TypeOK, UringTypeOK, OneCompletion, OpsInv, QueueInv, InSq,
              InFlight, InCq
<1>3. \A s : Owed(s)' <=> Owed(s)
  BY <1>1 DEF Owed, InSq, InFlight, InCq
<1>4. SlotInv' /\ StackInv' /\ BufferInv' /\ DataInv' /\ LengthInv'
  BY <1>1, <1>3, QuietKeeps DEF IInv
<1> QED
  BY <1>2, <1>4 DEF IInv, RingInv

(* The invariant holds in every state of every execution.                  *)
THEOREM Inductive == Spec => []IInv
<1>1. Init => IInv
  BY InitInv
<1>2. IInv /\ [Next]_vars => IInv'
  <2> SUFFICES ASSUME IInv, [Next]_vars
               PROVE  IInv'
    OBVIOUS
  <2>1. ASSUME NEW p \in Peers, Arrive(p)
        PROVE  IInv'
    BY <2>1, ArriveKeeps
  <2>2. ASSUME NEW e \in inflight, ReceiveDone(e)
        PROVE  IInv'
    BY <2>2, ReceiveDoneKeeps
  <2>3. ASSUME NEW e \in inflight, SendDone(e)
        PROVE  IInv'
    BY <2>3, SendDoneKeeps
  <2>4. CASE KernelThread
    BY <2>4, KernelThreadKeeps
  <2>5. CASE StartHandler
    BY <2>5, StartHandlerKeeps
  <2>6. CASE Handle
    BY <2>6, HandleKeeps
  <2>7. CASE FinishHandler
    BY <2>7, FinishHandlerKeeps
  <2>8. CASE UNCHANGED vars
    BY <2>8, StutterKeeps
  <2> QED
    BY <2>1, <2>2, <2>3, <2>4, <2>5, <2>6, <2>7, <2>8 DEF Next, Loop
<1> QED
  BY <1>1, <1>2, PTL DEF Spec

-----------------------------------------------------------------------------
(* What it means.                                                          *)

(* TypeCorrect: every variable keeps its type.                             *)
THEOREM TypeCorrect == Spec => []TypeOK
<1>1. IInv => TypeOK
  BY DEF IInv, RingInv
<1> QED
  BY <1>1, Inductive, PTL

(* As many elements as indices.                                            *)
LEMMA CountImage ==
  ASSUME NEW a \in Nat, NEW b \in Nat, a <= b, NEW S, NEW f \in Bijection(a + 1 .. b, S)
  PROVE  IsFiniteSet(S) /\ Cardinality(S) = b - a
<1>1. IsFiniteSet(a + 1 .. b) /\ Cardinality(a + 1 .. b) = b - a
  <2> DEFINE c == a + 1
  <2>1. c \in Int /\ b \in Int /\ (IF c > b THEN 0 ELSE b - c + 1) = b - a
    OBVIOUS
  <2> HIDE DEF c
  <2>2. IsFiniteSet(c .. b) /\ Cardinality(c .. b) = IF c > b THEN 0 ELSE b - c + 1
    BY <2>1, FS_Interval
  <2> QED
    BY <2>1, <2>2 DEF c
<1> QED
  BY <1>1, FS_Bijection DEF ExistsBijection

(* The operations that have not been polled, counted: none is in two       *)
(* places, and no two are equal.                                           *)
LEMMA PendingCounted ==
  ASSUME TypeOK, OneCompletion, SlotInv
  PROVE  PendingCount = Cardinality(Pending)
<1> DEFINE P1 == {sq[i] : i \in taken + 1 .. Len(sq)}
           P3 == {[op |-> cq[i].op, cookie |-> cq[i].cookie] : i \in 1 .. Len(cq)}
           f1 == [i \in taken + 1 .. Len(sq) |-> sq[i]]
           f3 == [i \in 0 + 1 .. Len(cq) |-> [op |-> cq[i].op, cookie |-> cq[i].cookie]]
           g == [e \in inflight |-> e.cookie]
<1>1. /\ Len(sq) \in Nat /\ taken \in Nat /\ taken <= Len(sq) /\ Len(cq) \in Nat
      /\ DOMAIN cq = 1 .. Len(cq) /\ 0 + 1 = 1 /\ Len(slots) \in Nat
  BY Shapes, LenProperties DEF TypeOK, UringTypeOK
<1>2. IsFiniteSet(P1) /\ Cardinality(P1) = Len(sq) - taken
  <2>1. f1 \in Bijection(taken + 1 .. Len(sq), P1)
    BY DEF Bijection, Injection, Surjection, IsInjective, OneCompletion
  <2> HIDE DEF f1, P1
  <2> QED
    BY <1>1, <2>1, CountImage
<1>3. IsFiniteSet(P3) /\ Cardinality(P3) = Len(cq)
  <2>1. f3 \in Bijection(0 + 1 .. Len(cq), P3)
    <3>1. f3 \in [0 + 1 .. Len(cq) -> P3]
      BY <1>1
    <3>2. \A e \in P3 : \E i \in 0 + 1 .. Len(cq) : f3[i] = e
      BY <1>1
    <3>3. \A i, j \in 0 + 1 .. Len(cq) : f3[i].cookie = f3[j].cookie => i = j
      BY <1>1 DEF OneCompletion
    <3> HIDE DEF f3, P3
    <3>4. \A i, j \in 0 + 1 .. Len(cq) : f3[i] = f3[j] => i = j
      BY <3>3
    <3> QED
      BY <3>1, <3>2, <3>4 DEF Bijection, Injection, Surjection, IsInjective
  <2> HIDE DEF f3, P3
  <2>2. Cardinality(P3) = Len(cq) - 0 /\ IsFiniteSet(P3)
    BY <1>1, <2>1, CountImage
  <2> QED
    BY <1>1, <2>2
<1>4. IsFiniteSet(inflight)
  <2>1. \A e \in inflight : e.cookie \in 1 .. Len(slots)
    BY DEF SlotInv, Owed, InFlight
  <2>2. g \in Injection(inflight, 1 .. Len(slots))
    BY <2>1 DEF Injection, IsInjective, OneCompletion
  <2>3. IsFiniteSet(1 .. Len(slots))
    BY <1>1, FS_Interval
  <2> HIDE DEF g
  <2> QED
    BY <2>2, <2>3, FS_Injection
<1>5. /\ \A e \in P1 : InSq(e.cookie)
      /\ \A e \in inflight : InFlight(e.cookie)
      /\ \A e \in P3 : InCq(e.cookie)
  BY DEF InSq, InFlight, InCq
<1> HIDE DEF P1, P3
<1>6. P1 \cap inflight = {} /\ (P1 \cup inflight) \cap P3 = {}
  BY <1>5 DEF OneCompletion
<1>7. Cardinality({}) = 0
  BY FS_EmptySet
<1>8. /\ IsFiniteSet(P1 \cup inflight)
      /\ Cardinality(P1 \cup inflight) = Len(sq) - taken + Cardinality(inflight)
  <2>1. Cardinality(inflight) \in Nat
    BY <1>4, FS_CardinalityType
  <2>2. /\ IsFiniteSet(P1 \cup inflight)
        /\ Cardinality(P1 \cup inflight) =
             Cardinality(P1) + Cardinality(inflight) - Cardinality(P1 \cap inflight)
    BY <1>2, <1>4, FS_Union
  <2>3. Cardinality(P1 \cap inflight) = 0
    BY <1>6, <1>7
  <2> QED
    BY <1>1, <1>2, <2>1, <2>2, <2>3
<1>9. Cardinality((P1 \cup inflight) \cup P3)
        = Len(sq) - taken + Cardinality(inflight) + Len(cq)
  <2>1. Cardinality(inflight) \in Nat
    BY <1>4, FS_CardinalityType
  <2>2. Cardinality((P1 \cup inflight) \cup P3) =
          Cardinality(P1 \cup inflight) + Cardinality(P3)
            - Cardinality((P1 \cup inflight) \cap P3)
    BY <1>3, <1>8, FS_Union
  <2>3. Cardinality((P1 \cup inflight) \cap P3) = 0
    BY <1>6, <1>7
  <2> QED
    BY <1>1, <1>3, <1>8, <2>1, <2>2, <2>3
<1>10. Pending = (P1 \cup inflight) \cup P3
  BY <1>1 DEF Pending, P1, P3
<1> QED
  BY <1>9, <1>10 DEF PendingCount

(* Where an operation that has not been polled is, and whose.              *)
LEMMA PendingOwed ==
  ASSUME TypeOK, OneCompletion, OpsInv, NEW e \in Pending
  PROVE  /\ e.op = "recv" <=> e.cookie = 1
         /\ e.op \in {"recv", "send"}
         /\ \/ InSq(e.cookie) /\ \E i \in taken + 1 .. Len(sq) : e = sq[i]
            \/ InFlight(e.cookie) /\ e \in inflight
            \/ /\ InCq(e.cookie)
               /\ \E i \in 1 .. Len(cq) : e = [op |-> cq[i].op, cookie |-> cq[i].cookie]
<1>1. /\ Len(sq) \in Nat /\ taken \in Nat /\ DOMAIN cq = 1 .. Len(cq)
      /\ \A i \in 1 .. Len(sq) : sq[i] \in Entry
      /\ \A i \in 1 .. Len(cq) : cq[i] \in Cqe
      /\ \A f \in inflight : f \in Entry
      /\ \A i \in taken + 1 .. Len(sq) : i \in 1 .. Len(sq)
  <2>1. /\ sq \in Seq(Entry) /\ cq \in Seq(Cqe) /\ taken \in 0 .. Len(sq)
        /\ \A f \in inflight : f \in Entry
    BY DEF TypeOK, UringTypeOK
  <2>2. Len(sq) \in Nat /\ DOMAIN cq = 1 .. Len(cq)
    BY <2>1, LenProperties
  <2>3. /\ \A i \in 1 .. Len(sq) : sq[i] \in Entry
        /\ \A i \in 1 .. Len(cq) : cq[i] \in Cqe
    BY <2>1, ElementOfSeq
  <2>4. taken \in Nat /\ \A i \in taken + 1 .. Len(sq) : i \in 1 .. Len(sq)
    BY <2>1, <2>2
  <2> QED
    BY <2>1, <2>2, <2>3, <2>4
<1>2. CASE \E i \in taken + 1 .. Len(sq) : e = sq[i]
  <2>1. PICK i \in taken + 1 .. Len(sq) : e = sq[i]
    BY <1>2
  <2> QED
    BY <1>1, <2>1 DEF OpsInv, InSq, Entry
<1>3. CASE e \in inflight
  BY <1>1, <1>3 DEF OpsInv, InFlight, Entry
<1>4. CASE \E i \in 1 .. Len(cq) : e = [op |-> cq[i].op, cookie |-> cq[i].cookie]
  <2>1. PICK i \in 1 .. Len(cq) : e = [op |-> cq[i].op, cookie |-> cq[i].cookie]
    BY <1>4
  <2>2. e.op = cq[i].op /\ e.cookie = cq[i].cookie /\ cq[i] \in Cqe
    BY <1>1, <2>1
  <2>3. InCq(e.cookie)
    BY <2>2 DEF InCq
  <2>4. (e.op = "recv" <=> e.cookie = 1) /\ e.op \in {"recv", "send"}
    BY <2>2 DEF OpsInv, Cqe
  <2> QED
    BY <2>1, <2>3, <2>4
<1> QED
  BY <1>1, <1>2, <1>3, <1>4 DEF Pending

(* CookiesAlive: a completion always finds at its cookie what it belongs   *)
(* to, the request being received or a handler that waits for its reply to *)
(* be sent, whatever was pooled and reused meanwhile (uf.h:144-192).       *)
THEOREM CookiesAlive == Spec => []CookiesLive
<1>1. IInv => CookiesLive
  <2> SUFFICES ASSUME IInv
               PROVE  CookiesLive
    OBVIOUS
  <2>1. TypeOK /\ OneCompletion /\ OpsInv /\ SlotInv
    BY DEF IInv, RingInv
  <2>2. /\ Len(slots) \in Nat /\ DOMAIN slots = 1 .. Len(slots)
        /\ DOMAIN slot_pool = 1 .. Len(slot_pool)
    BY <2>1, Shapes, LenProperties
  <2>3. ASSUME NEW e \in Pending
        PROVE  /\ e.cookie \in DOMAIN slots /\ e.cookie \notin InPool(slot_pool)
               /\ e.op = "recv" => slots[e.cookie].kind = "request"
               /\ e.op = "send" => e.cookie \in Running
    <3>1. (e.op = "recv" <=> e.cookie = 1) /\ Owed(e.cookie)
      BY <2>1, PendingOwed DEF Owed
    <3>2. e.cookie \in 1 .. Len(slots) /\ (e.cookie = 1 \/ slots[e.cookie].reply # NoRequest)
      BY <2>1, <3>1 DEF SlotInv
    <3>3. CASE e.cookie = 1
      BY <2>1, <2>2, <3>1, <3>2, <3>3 DEF SlotInv, InPool
    <3>4. CASE e.cookie # 1
      <4>1. e.cookie \in 2 .. Len(slots)
        BY <2>2, <3>2, <3>4
      <4>2. ~slots[e.cookie].finished /\ slots[e.cookie].kind = "handler"
        BY <2>1, <3>2, <3>4, <4>1 DEF SlotInv
      <4>3. e.cookie \notin InPool(slot_pool)
        BY <2>1, <2>2, <4>1, <4>2 DEF SlotInv, InPool
      <4> QED
        BY <2>2, <3>1, <3>2, <3>4, <4>2, <4>3 DEF Running
    <3> QED
      BY <3>3, <3>4
  <2>4. ASSUME NEW e \in Pending, NEW f \in Pending, e.cookie = f.cookie
        PROVE  e = f
    <3> DEFINE s == e.cookie
    <3>1. /\ \/ InSq(s) /\ \E i \in taken + 1 .. Len(sq) : e = sq[i]
             \/ InFlight(s) /\ e \in inflight
             \/ InCq(s) /\ \E i \in 1 .. Len(cq) : e = [op |-> cq[i].op, cookie |-> cq[i].cookie]
          /\ \/ InSq(s) /\ \E i \in taken + 1 .. Len(sq) : f = sq[i]
             \/ InFlight(s) /\ f \in inflight
             \/ InCq(s) /\ \E i \in 1 .. Len(cq) : f = [op |-> cq[i].op, cookie |-> cq[i].cookie]
      BY <2>1, <2>4, PendingOwed
    <3>2. ~(InSq(s) /\ InFlight(s)) /\ ~(InSq(s) /\ InCq(s)) /\ ~(InFlight(s) /\ InCq(s))
      BY <2>1 DEF OneCompletion
    <3>3. CASE InSq(s)
      BY <2>1, <2>4, <3>1, <3>2, <3>3 DEF OneCompletion
    <3>4. CASE InFlight(s)
      BY <2>1, <2>4, <3>1, <3>2, <3>4 DEF OneCompletion
    <3>5. CASE InCq(s)
      <4>1. PICK i \in 1 .. Len(cq) : e = [op |-> cq[i].op, cookie |-> cq[i].cookie]
        BY <3>1, <3>2, <3>5
      <4>2. PICK j \in 1 .. Len(cq) : f = [op |-> cq[j].op, cookie |-> cq[j].cookie]
        BY <3>1, <3>2, <3>5
      <4>3. cq[i].cookie = cq[j].cookie
        BY <2>4, <4>1, <4>2
      <4>4. i = j
        BY <2>1, <4>3 DEF OneCompletion
      <4> QED
        BY <4>1, <4>2, <4>4
    <3> QED
      BY <3>1, <3>3, <3>4, <3>5
  <2>5. ASSUME NEW s
        PROVE  Cardinality({e \in Pending : e.cookie = s}) <= 1
    <3> DEFINE T == {e \in Pending : e.cookie = s}
    <3>1. T = {} \/ \E e \in T : T = {e}
      BY <2>4
    <3> HIDE DEF T
    <3>2. Cardinality(T) = 0 \/ Cardinality(T) = 1
      BY <3>1, FS_EmptySet, FS_Singleton
    <3> QED
      BY <3>2 DEF T
  <2> QED
    BY <2>1, <2>3, <2>5, PendingCounted DEF CookiesLive
<1> QED
  BY <1>1, Inductive, PTL

(* NoSharedBuffer: no two requests in use share a buffer and none of them  *)
(* is in the pool, so that the kernel never receives into a buffer that is *)
(* being read or sent (uf.h:30-42).                                        *)
THEOREM NoSharedBuffer == Spec => []BuffersExclusive
<1>1. IInv => BuffersExclusive
  <2> SUFFICES ASSUME IInv
               PROVE  BuffersExclusive
    OBVIOUS
  <2>1. TypeOK /\ SlotInv /\ BufferInv
    BY DEF IInv, RingInv
  <2>2. DOMAIN slots = 1 .. Len(slots) /\ DOMAIN requests = 1 .. Len(requests)
    BY <2>1, Shapes, LenProperties
  <2>3. \A u \in InUse :
          \/ u = <<u[1], "req">> /\ Live(u[1]) /\ BufOf(u) = slots[u[1]].req.buf
          \/ u = <<u[1], "reply">> /\ Replying(u[1]) /\ BufOf(u) = slots[u[1]].reply.buf
    BY <2>2 DEF InUse, BufOf, Live, Replying, Running
  <2>4. \A u, v \in InUse : BufOf(u) = BufOf(v) => u = v
    BY <2>1, <2>3 DEF BufferInv
  <2>5. \A u \in InUse, i \in DOMAIN requests : BufOf(u) # requests[i].buf
    BY <2>1, <2>2, <2>3 DEF BufferInv
  <2>6. \A i, j \in DOMAIN requests : requests[i].buf = requests[j].buf => i = j
    BY <2>1, <2>2 DEF BufferInv
  <2> QED
    BY <2>4, <2>5, <2>6 DEF BuffersExclusive
<1> QED
  BY <1>1, Inductive, PTL

(* PoolsAgree: no stack and no slot is lost, pooled twice or given to two  *)
(* handlers (uf.h:151-188).                                                *)
THEOREM PoolsAgree == Spec => []PoolsExact
<1>1. IInv => PoolsExact
  <2> SUFFICES ASSUME IInv
               PROVE  PoolsExact
    OBVIOUS
  <2> DEFINE n == Len(slot_pool)
  <2>1. TypeOK /\ SlotInv /\ StackInv
    BY DEF IInv, RingInv
  <2>2. /\ n \in Nat /\ DOMAIN slot_pool = 1 .. n /\ DOMAIN stacks = 1 .. Len(stacks)
        /\ \A i \in 1 .. n : slot_pool[i] \in 1 .. Len(slots)
        /\ slot_pool \in [1 .. n -> 1 .. Len(slots)] /\ Len(slots) \in Nat
    BY <2>1, Shapes, LenProperties
  <2>3. Running = {s \in 2 .. Len(slots) : ~slots[s].finished}
    BY <2>1, RunningFacts
  <2>4. InPool(slot_pool) = 2 .. Len(slots) \ Running
    <3>1. \A i \in 1 .. n : slot_pool[i] \in 2 .. Len(slots)
      BY <2>1, <2>2 DEF SlotInv
    <3>2. \A s \in 2 .. Len(slots) : s \in InPool(slot_pool) <=> slots[s].finished
      <4>1. \A s \in 2 .. Len(slots) :
              slots[s].finished <=> \E i \in 1 .. n : slot_pool[i] = s
        BY <2>1 DEF SlotInv
      <4>2. \A s : s \in InPool(slot_pool) <=> \E i \in 1 .. n : slot_pool[i] = s
        BY <2>2 DEF InPool
      <4> QED
        BY <4>1, <4>2
    <3>3. InPool(slot_pool) \subseteq 2 .. Len(slots)
      BY <2>2, <3>1 DEF InPool
    <3> HIDE DEF n
    <3>4. \A s : s \in InPool(slot_pool) <=> s \in 2 .. Len(slots) /\ s \notin Running
      BY <2>3, <3>2, <3>3
    <3> QED
      BY <3>4
  <2>5. n = Cardinality(InPool(slot_pool))
    <3>1. slot_pool \in Bijection(1 .. n, InPool(slot_pool))
      <4>1. slot_pool \in [1 .. n -> InPool(slot_pool)]
        BY <2>2 DEF InPool
      <4> QED
        BY <2>1, <2>2, <4>1 DEF SlotInv, InPool, Bijection, Injection, Surjection, IsInjective
    <3> HIDE DEF n
    <3>2. 0 \in Nat /\ n \in Nat /\ 0 <= n /\ 0 + 1 = 1 /\ n - 0 = n
      BY <2>2
    <3>3. Cardinality(InPool(slot_pool)) = n - 0
      BY <3>1, <3>2, CountImage
    <3> QED
      BY <3>2, <3>3
  <2>6. \A s \in Running : slots[s].stack \notin InPool(stacks)
    BY <2>1, <2>2 DEF StackInv, InPool
  <2> QED
    BY <2>1, <2>4, <2>5, <2>6 DEF PoolsExact, StackInv
<1> QED
  BY <1>1, Inductive, PTL

(* AlwaysAnSqe: io_uring_get_sqe never returns null to the executor: at    *)
(* most a receive and two replies are in the ring of eight that the kernel *)
(* has not taken, and three that it has (uring.cc:60, 78).                 *)
THEOREM AlwaysAnSqe == Spec => []SqeNeverNull
<1>1. IInv => SqeNeverNull
  <2> SUFFICES ASSUME IInv
               PROVE  ~NoSqe
    BY DEF SqeNeverNull
  <2>1. TypeOK /\ QueueInv
    BY DEF IInv, RingInv
  <2>2. Len(sq) \in Nat /\ taken \in Nat
    BY <2>1, Shapes
  <2>3. Len(sq) - taken <= 3 /\ taken <= 3
    BY <2>1, <2>2 DEF QueueInv
  <2> DEFINE n == Len(sq)
  <2>4. n \in Nat /\ n <= 6
    BY <2>2, <2>3
  <2> HIDE DEF n
  <2>5. n # 8
    BY <2>4
  <2> QED
    BY <2>5 DEF n, NoSqe, SqEntries
<1> QED
  BY <1>1, Inductive, PTL

(* RightReply: what is sent to a peer is that peer's payload               *)
(* (srv.cc:57-61).                                                         *)
THEOREM RightReply == Spec => []OwnReply
<1>1. IInv => OwnReply
  BY DEF IInv, DataInv
<1> QED
  BY <1>1, Inductive, PTL

(* ShortRepliesExplained: a reply is short only when its request was cut,  *)
(* and then an earlier reply to a shorter request has the length that cut  *)
(* it (srv.cc:60, uf.h:168).                                               *)
THEOREM ShortRepliesExplained == Spec => []ShortOnlyAfterShort
<1>1. IInv => ShortOnlyAfterShort
  BY DEF IInv, LengthInv
<1> QED
  BY <1>1, Inductive, PTL

=============================================================================
