--------------------------- MODULE SubmitterProofs ---------------------------
(***************************************************************************)
(* Proofs about Submitter, for every number of fibers, every size of the   *)
(* ring and of a batch, and every set of errors: what each step of         *)
(* io_uring and of the scheduler moves, that IInv is inductive, and the    *)
(* safety properties that follow from it.                                  *)
(***************************************************************************)
EXTENDS Submitter, SequenceTheorems, FunctionTheorems, FiniteSetTheorems, TLAPS

-----------------------------------------------------------------------------
(* What each step on the rings does to the completions that are owed: a    *)
(* submission adds one, the kernel's steps move them along, and consuming  *)
(* the head of the completion queue removes one.                           *)

(* An entry of a setter that is not owed a completion is appended to the   *)
(* submission queue (Ring::submit, ring.cc:50-54).                         *)
LEMMA SubmitOwes ==
  ASSUME RingTypeOK, OneCompletion,
         NEW s \in Sqe, ~Outstanding(s.fiber, s.role),
         sq' = Append(sq, s), UNCHANGED <<inflight, cq>>
  PROVE  /\ OneCompletion'
         /\ \A f \in Fibers, p \in Roles :
              Outstanding(f, p)' <=>
                Outstanding(f, p) \/ (f = s.fiber /\ p = s.role)
<1>1. /\ sq \in Seq(Sqe)
      /\ Len(sq) \in Nat
      /\ Len(sq') = Len(sq) + 1
      /\ \A i \in 1 .. Len(sq) : sq'[i] = sq[i]
      /\ sq'[Len(sq) + 1] = s
  BY DEF RingTypeOK
<1>2. \A f, p : InSq(f, p)' <=> InSq(f, p) \/ (f = s.fiber /\ p = s.role)
  BY <1>1 DEF InSq
<1>3. \A f, p : (InFlight(f, p)' <=> InFlight(f, p)) /\ (InCq(f, p)' <=> InCq(f, p))
  BY DEF InFlight, InCq
<1>4. UniqueInSq'
  BY <1>1 DEF UniqueInSq, OneCompletion, Outstanding, InSq
<1>5. UniqueInFlight' /\ UniqueInCq'
  BY DEF OneCompletion, UniqueInFlight, UniqueInCq
<1>6. InOnePlace'
  BY <1>2, <1>3 DEF InOnePlace, OneCompletion, Outstanding
<1> QED
  BY <1>2, <1>3, <1>4, <1>5, <1>6 DEF OneCompletion, Outstanding

(* Consuming the oldest completion settles what its setter was owed, and   *)
(* nothing else (dispatch, poller.cc:10-18).                               *)
LEMMA ConsumeSettles ==
  ASSUME RingTypeOK, OneCompletion, cq # <<>>,
         cq' = Tail(cq), UNCHANGED <<sq, inflight>>
  PROVE  /\ OneCompletion'
         /\ Outstanding(Head(cq).fiber, Head(cq).role)
         /\ \A f \in Fibers, p \in Roles :
              Outstanding(f, p)' <=>
                Outstanding(f, p) /\ ~(f = Head(cq).fiber /\ p = Head(cq).role)
<1> DEFINE c == Head(cq)
<1>1. /\ cq \in Seq(Cqe)
      /\ Len(cq) \in Nat \ {0}
      /\ c \in Cqe
      /\ c = cq[1]
      /\ Len(cq') = Len(cq) - 1
      /\ \A i \in 1 .. Len(cq) - 1 : cq'[i] = cq[i + 1]
  BY HeadTailProperties DEF RingTypeOK
<1> HIDE DEF c
<1>2. c.fiber \in Fibers /\ c.role \in Roles /\ InCq(c.fiber, c.role)
  BY <1>1 DEF InCq, Cqe
<1>3. \A f \in Fibers, p \in Roles :
        InCq(f, p)' <=> InCq(f, p) /\ ~(f = c.fiber /\ p = c.role)
  <2> SUFFICES ASSUME NEW f \in Fibers, NEW p \in Roles
               PROVE  InCq(f, p)' <=> InCq(f, p) /\ ~(f = c.fiber /\ p = c.role)
    OBVIOUS
  <2>1. ASSUME InCq(f, p)'
        PROVE  InCq(f, p) /\ ~(f = c.fiber /\ p = c.role)
    <3>1. PICK i \in 1 .. Len(cq) - 1 : cq[i + 1].fiber = f /\ cq[i + 1].role = p
      BY <2>1, <1>1 DEF InCq
    <3> QED
      BY <3>1, <1>1 DEF InCq, OneCompletion, UniqueInCq
  <2>2. ASSUME InCq(f, p), ~(f = c.fiber /\ p = c.role)
        PROVE  InCq(f, p)'
    <3>1. PICK i \in 1 .. Len(cq) : cq[i].fiber = f /\ cq[i].role = p
      BY <2>2 DEF InCq
    <3>2. i # 1
      BY <3>1, <2>2, <1>1
    <3>3. i - 1 \in 1 .. Len(cq) - 1 /\ cq'[i - 1] = cq[i]
      BY <3>2, <1>1
    <3> QED
      BY <3>1, <3>3, <1>1 DEF InCq
  <2> QED
    BY <2>1, <2>2
<1>4. \A f, p : (InSq(f, p)' <=> InSq(f, p)) /\ (InFlight(f, p)' <=> InFlight(f, p))
  BY DEF InSq, InFlight
<1>5. UniqueInCq'
  BY <1>1 DEF UniqueInCq, OneCompletion
<1>6. UniqueInSq' /\ UniqueInFlight'
  BY DEF OneCompletion, UniqueInSq, UniqueInFlight
<1>7. InOnePlace'
  BY <1>3, <1>4 DEF InOnePlace, OneCompletion
<1>8. \A f \in Fibers, p \in Roles :
        Outstanding(f, p)' <=> Outstanding(f, p) /\ ~(f = c.fiber /\ p = c.role)
  BY <1>2, <1>3, <1>4 DEF Outstanding, OneCompletion, InOnePlace
<1> QED
  BY <1>2, <1>5, <1>6, <1>7, <1>8 DEF OneCompletion, Outstanding, c

(* The kernel takes a batch: its entries become requests, one each.        *)
LEMMA TakeBatchMoves ==
  ASSUME RingTypeOK, OneCompletion, TakeBatch
  PROVE  /\ RingTypeOK'
         /\ OneCompletion'
         /\ \A f \in Fibers, p \in Roles : Outstanding(f, p)' <=> Outstanding(f, p)
<1> DEFINE taken == {RequestOf(i) : i \in 1 .. flushed}
<1>1. /\ sq \in Seq(Sqe)
      /\ flushed \in 1 .. Len(sq)
      /\ Len(sq) \in Nat
      /\ sq' \in Seq(Sqe)
      /\ Len(sq') = Len(sq) - flushed
      /\ \A i \in 1 .. Len(sq) - flushed : sq'[i] = sq[i + flushed]
      /\ inflight' = inflight \cup taken
      /\ cq' = cq
  <2>1. sq \in Seq(Sqe) /\ flushed \in 1 .. Len(sq) /\ Len(sq) \in Nat
    BY DEF TakeBatch, RingTypeOK
  <2>2. /\ SubSeq(sq, flushed + 1, Len(sq)) \in Seq(Sqe)
        /\ Len(SubSeq(sq, flushed + 1, Len(sq))) = Len(sq) - flushed
        /\ \A i \in 1 .. Len(sq) - flushed :
             SubSeq(sq, flushed + 1, Len(sq))[i] = sq[i + flushed]
    BY <2>1
  <2> QED
    BY <2>1, <2>2 DEF TakeBatch
<1>2. \A i \in 1 .. flushed :
        /\ RequestOf(i) \in Request
        /\ RequestOf(i).fiber = sq[i].fiber
        /\ RequestOf(i).role = sq[i].role
  <2> TAKE i \in 1 .. flushed
  <2>1. sq[i] \in Sqe /\ (i > 1 => sq[i - 1] \in Sqe)
    BY <1>1
  <2> QED
    BY <2>1 DEF RequestOf, Request, Sqe, OpStates, TimeoutStates
<1> HIDE DEF taken
<1>3. RingTypeOK'
  BY <1>1, <1>2 DEF RingTypeOK, TakeBatch, taken
<1>4. \A f, p : InFlight(f, p)' <=>
        InFlight(f, p) \/ \E i \in 1 .. flushed : sq[i].fiber = f /\ sq[i].role = p
  <2>1. \A r \in inflight' : r \in inflight \/ \E i \in 1 .. flushed : r = RequestOf(i)
    BY <1>1 DEF taken
  <2>2. \A i \in 1 .. flushed : RequestOf(i) \in inflight'
    BY <1>1 DEF taken
  <2>3. \A r \in inflight : r \in inflight'
    BY <1>1
  <2> QED
    BY <2>1, <2>2, <2>3, <1>2 DEF InFlight
<1>5. \A f, p : InSq(f, p)' <=>
        \E i \in flushed + 1 .. Len(sq) : sq[i].fiber = f /\ sq[i].role = p
  <2> SUFFICES ASSUME NEW f, NEW p
               PROVE  InSq(f, p)' <=>
                        \E i \in flushed + 1 .. Len(sq) : sq[i].fiber = f /\ sq[i].role = p
    OBVIOUS
  <2>1. ASSUME NEW i \in flushed + 1 .. Len(sq), sq[i].fiber = f, sq[i].role = p
        PROVE  InSq(f, p)'
    <3>1. i - flushed \in 1 .. Len(sq') /\ sq'[i - flushed] = sq[i]
      BY <1>1
    <3> QED
      BY <2>1, <3>1 DEF InSq
  <2>2. ASSUME InSq(f, p)'
        PROVE  \E i \in flushed + 1 .. Len(sq) : sq[i].fiber = f /\ sq[i].role = p
    <3>1. PICK i \in 1 .. Len(sq') : sq'[i].fiber = f /\ sq'[i].role = p
      BY <2>2 DEF InSq
    <3> QED
      BY <3>1, <1>1
  <2> QED
    BY <2>1, <2>2
<1>6. \A f, p : InCq(f, p)' <=> InCq(f, p)
  BY <1>1 DEF InCq
<1>7. \A f, p : InSq(f, p) <=>
        \/ \E i \in 1 .. flushed : sq[i].fiber = f /\ sq[i].role = p
        \/ \E i \in flushed + 1 .. Len(sq) : sq[i].fiber = f /\ sq[i].role = p
  BY <1>1 DEF InSq
<1>8. UniqueInSq' /\ UniqueInCq'
  <2>1. ASSUME NEW i \in 1 .. Len(sq'), NEW j \in 1 .. Len(sq'),
               sq'[i].fiber = sq'[j].fiber, sq'[i].role = sq'[j].role
        PROVE  i = j
    <3>1. i + flushed \in 1 .. Len(sq) /\ j + flushed \in 1 .. Len(sq)
      BY <1>1
    <3>2. i + flushed = j + flushed
      BY <2>1, <3>1, <1>1 DEF OneCompletion, UniqueInSq
    <3> QED
      BY <3>2, <1>1
  <2> QED
    BY <2>1, <1>1 DEF OneCompletion, UniqueInSq, UniqueInCq
<1>9. UniqueInFlight'
  <2> SUFFICES ASSUME NEW q \in inflight', NEW r \in inflight',
                      q.fiber = r.fiber, q.role = r.role
               PROVE  q = r
    BY DEF UniqueInFlight
  <2>1. CASE q \in inflight /\ r \in inflight
    BY <2>1 DEF OneCompletion, UniqueInFlight
  <2>2. CASE q \in taken /\ r \in taken
    <3>1. PICK i \in 1 .. flushed, j \in 1 .. flushed : q = RequestOf(i) /\ r = RequestOf(j)
      BY <2>2 DEF taken
    <3>2. sq[i].fiber = sq[j].fiber /\ sq[i].role = sq[j].role
      BY <1>2, <3>1
    <3>3. i \in 1 .. Len(sq) /\ j \in 1 .. Len(sq)
      BY <1>1
    <3>4. i = j
      BY <3>2, <3>3 DEF OneCompletion, UniqueInSq
    <3> QED
      BY <3>1, <3>4
  <2>3. \A x \in inflight, y \in taken : ~(x.fiber = y.fiber /\ x.role = y.role)
    <3> SUFFICES ASSUME NEW x \in inflight, NEW i \in 1 .. flushed,
                        x.fiber = sq[i].fiber, x.role = sq[i].role
                 PROVE  FALSE
      BY <1>2 DEF taken
    <3>1. sq[i].fiber \in Fibers /\ sq[i].role \in Roles
      <4>1. sq[i] \in Sqe
        BY <1>1
      <4> QED
        BY <4>1 DEF Sqe
    <3>2. InSq(sq[i].fiber, sq[i].role) /\ InFlight(sq[i].fiber, sq[i].role)
      BY <1>1 DEF InSq, InFlight
    <3> QED
      BY <3>1, <3>2 DEF OneCompletion, InOnePlace
  <2> QED
    BY <2>1, <2>2, <2>3, <1>1
<1>10. InOnePlace'
  <2>1. \A i \in 1 .. flushed, j \in flushed + 1 .. Len(sq) :
          ~(sq[i].fiber = sq[j].fiber /\ sq[i].role = sq[j].role)
    BY <1>1 DEF OneCompletion, UniqueInSq
  <2> QED
    BY <2>1, <1>4, <1>5, <1>6, <1>7 DEF OneCompletion, InOnePlace
<1> QED
  BY <1>3, <1>4, <1>5, <1>6, <1>7, <1>8, <1>9, <1>10 DEF OneCompletion, Outstanding

(* An operation completes: its completion moves to the completion queue,   *)
(* and the requests that waited for it only change state.                  *)
LEMMA PostOpMoves ==
  ASSUME RingTypeOK, OneCompletion, NEW r \in inflight, NEW v \in Results, PostOp(r, v)
  PROVE  /\ RingTypeOK'
         /\ OneCompletion'
         /\ \A f \in Fibers, p \in Roles : Outstanding(f, p)' <=> Outstanding(f, p)
<1> DEFINE c == [fiber |-> r.fiber, role |-> "op", res |-> v]
           After(q) == AfterOp(q, r.fiber, v)
<1>1. r \in Request /\ r.role = "op" /\ c \in Cqe
  BY DEF PostOp, RingTypeOK, Request, Cqe, Roles
<1>2. \A q \in inflight :
        After(q) \in Request /\ After(q).fiber = q.fiber /\ After(q).role = q.role
  <2> SUFFICES ASSUME NEW q \in inflight
               PROVE  /\ After(q) \in Request
                      /\ After(q).fiber = q.fiber /\ After(q).role = q.role
    OBVIOUS
  <2>1. q \in Request
    BY DEF RingTypeOK
  <2> QED
    BY <2>1 DEF AfterOp, Request, OpStates, TimeoutStates
<1>3. /\ cq \in Seq(Cqe) /\ cq' = Append(cq, c)
      /\ inflight' = {After(q) : q \in inflight \ {r}}
      /\ UNCHANGED <<sq, flushed, busy>>
  BY DEF PostOp, RingTypeOK
<1> HIDE DEF c, After
<1>4. RingTypeOK'
  BY <1>1, <1>2, <1>3 DEF RingTypeOK
<1>5. /\ \A q \in inflight \ {r} : \E x \in inflight' : x.fiber = q.fiber /\ x.role = q.role
      /\ \A x \in inflight' : \E q \in inflight \ {r} : x = After(q)
  BY <1>2, <1>3
<1>6. \A f, p : InFlight(f, p)' <=> InFlight(f, p) /\ ~(f = r.fiber /\ p = r.role)
  BY <1>2, <1>5 DEF InFlight, OneCompletion, UniqueInFlight
<1>7. c.fiber = r.fiber /\ c.role = r.role
  BY <1>1 DEF c
<1>8. \A f, p : InCq(f, p)' <=> InCq(f, p) \/ (f = r.fiber /\ p = r.role)
  BY <1>3, <1>7 DEF InCq
<1>9. \A f, p : InSq(f, p)' <=> InSq(f, p)
  BY <1>3 DEF InSq
<1>10. InFlight(r.fiber, r.role) /\ r.fiber \in Fibers /\ r.role \in Roles
  BY <1>1 DEF InFlight, Request
<1>11. ~InCq(r.fiber, r.role)
  BY <1>10 DEF OneCompletion, InOnePlace
<1>12. UniqueInSq' /\ UniqueInFlight'
  BY <1>2, <1>3, <1>5 DEF OneCompletion, UniqueInSq, UniqueInFlight
<1>13. UniqueInCq'
  BY <1>3, <1>7, <1>11 DEF OneCompletion, UniqueInCq, InCq
<1>14. InOnePlace'
  BY <1>6, <1>8, <1>9, <1>10 DEF OneCompletion, InOnePlace
<1> QED
  BY <1>4, <1>6, <1>8, <1>9, <1>10, <1>12, <1>13, <1>14 DEF OneCompletion, Outstanding

(* A timeout completes.                                                    *)
LEMMA PostTimeoutMoves ==
  ASSUME RingTypeOK, OneCompletion, NEW t \in inflight, NEW v \in Results,
         PostTimeout(t, v)
  PROVE  /\ RingTypeOK'
         /\ OneCompletion'
         /\ \A f \in Fibers, p \in Roles : Outstanding(f, p)' <=> Outstanding(f, p)
<1> DEFINE c == [fiber |-> t.fiber, role |-> "timeout", res |-> v]
<1>1. t \in Request /\ t.role = "timeout" /\ c \in Cqe
  BY DEF PostTimeout, RingTypeOK, Request, Cqe, Roles
<1>2. /\ cq \in Seq(Cqe) /\ cq' = Append(cq, c)
      /\ inflight' = inflight \ {t}
      /\ UNCHANGED <<sq, flushed, busy>>
  BY DEF PostTimeout, RingTypeOK
<1>3. c.fiber = t.fiber /\ c.role = t.role
  BY <1>1
<1> HIDE DEF c
<1>4. RingTypeOK'
  BY <1>1, <1>2 DEF RingTypeOK
<1>5. \A f, p : InFlight(f, p)' <=> InFlight(f, p) /\ ~(f = t.fiber /\ p = t.role)
  BY <1>2 DEF InFlight, OneCompletion, UniqueInFlight
<1>6. \A f, p : InCq(f, p)' <=> InCq(f, p) \/ (f = t.fiber /\ p = t.role)
  BY <1>2, <1>3 DEF InCq
<1>7. \A f, p : InSq(f, p)' <=> InSq(f, p)
  BY <1>2 DEF InSq
<1>8. InFlight(t.fiber, t.role) /\ t.fiber \in Fibers /\ t.role \in Roles
  BY <1>1 DEF InFlight, Request
<1>9. ~InCq(t.fiber, t.role)
  BY <1>8 DEF OneCompletion, InOnePlace
<1>10. UniqueInSq' /\ UniqueInFlight'
  BY <1>2 DEF OneCompletion, UniqueInSq, UniqueInFlight
<1>11. UniqueInCq'
  BY <1>2, <1>3, <1>9 DEF OneCompletion, UniqueInCq, InCq
<1>12. InOnePlace'
  BY <1>5, <1>6, <1>7, <1>8 DEF OneCompletion, InOnePlace
<1> QED
  BY <1>4, <1>5, <1>6, <1>7, <1>8, <1>10, <1>11, <1>12 DEF OneCompletion, Outstanding

(* A timer fires: its request and the operation's only change state.       *)
LEMMA TimerMoves ==
  ASSUME RingTypeOK, OneCompletion,
         NEW t \in inflight, NEW r \in inflight, NEW wins \in BOOLEAN, Timer(t, r, wins)
  PROVE  /\ RingTypeOK'
         /\ OneCompletion'
         /\ \A f \in Fibers, p \in Roles : Outstanding(f, p)' <=> Outstanding(f, p)
<1> DEFINE t2 == [t EXCEPT !.after = NoFiber, !.st = IF wins THEN "expired" ELSE "lost"]
           r2 == [r EXCEPT !.st = IF wins THEN "cancelled" ELSE "finishing"]
<1>1. /\ t \in Request /\ r \in Request
      /\ t2 \in Request /\ r2 \in Request
      /\ t2.fiber = t.fiber /\ t2.role = t.role
      /\ r2.fiber = r.fiber /\ r2.role = r.role
  BY DEF RingTypeOK, Request, OpStates, TimeoutStates
<1>2. inflight' = (inflight \ {t, r}) \cup {t2, r2} /\ UNCHANGED <<sq, flushed, busy, cq>>
  BY DEF Timer
<1> HIDE DEF t2, r2
<1>3. RingTypeOK'
  BY <1>1, <1>2 DEF RingTypeOK
<1>4. \A f, p : InFlight(f, p)' <=> InFlight(f, p)
  BY <1>1, <1>2 DEF InFlight
<1>5. \A f, p : (InSq(f, p)' <=> InSq(f, p)) /\ (InCq(f, p)' <=> InCq(f, p))
  BY <1>2 DEF InSq, InCq
<1>6. t # r => ~(t.fiber = r.fiber /\ t.role = r.role)
  BY DEF OneCompletion, UniqueInFlight
<1>7. t # r
  BY DEF Timer
<1>8. UniqueInFlight'
  BY <1>1, <1>2, <1>6, <1>7 DEF OneCompletion, UniqueInFlight
<1>9. UniqueInSq' /\ UniqueInCq'
  BY <1>2 DEF OneCompletion, UniqueInSq, UniqueInCq
<1>10. InOnePlace'
  BY <1>4, <1>5 DEF OneCompletion, InOnePlace
<1> QED
  BY <1>3, <1>4, <1>5, <1>8, <1>9, <1>10 DEF OneCompletion, Outstanding

-----------------------------------------------------------------------------
(* How many completions are owed.                                          *)

Owed == Len(sq) + Cardinality(inflight) + Len(cq)

(* What has as many elements as the interval or the set it is the image of. *)
LEMMA SameSize ==
  ASSUME NEW S, NEW T, IsFiniteSet(S), NEW g \in [S -> T],
         \A x, y \in S : g[x] = g[y] => x = y,
         \A t \in T : \E x \in S : g[x] = t
  PROVE  IsFiniteSet(T) /\ Cardinality(T) = Cardinality(S)
<1>1. g \in Bijection(S, T)
  BY Fun_IsBij
<1>2. ExistsBijection(S, T)
  BY <1>1 DEF ExistsBijection
<1> QED
  BY <1>2, FS_Bijection

(* Taking a batch (the SQPOLL thread) moves its entries from the queue to  *)
(* the kernel and owes as many completions as before.                      *)
LEMMA TakeBatchCounts ==
  ASSUME RingTypeOK, OneCompletion, IsFiniteSet(inflight), TakeBatch
  PROVE  IsFiniteSet(inflight') /\ Owed' = Owed
<1> DEFINE taken == {RequestOf(i) : i \in 1 .. flushed}
           g == [i \in 1 .. flushed |-> RequestOf(i)]
<1>1. /\ sq \in Seq(Sqe) /\ flushed \in 1 .. Len(sq)
      /\ Len(sq) \in Nat /\ Len(cq) \in Nat
      /\ inflight' = inflight \cup taken /\ cq' = cq
      /\ inflight \in SUBSET Request
  BY DEF TakeBatch, RingTypeOK
<1>2. Len(sq') = Len(sq) - flushed
  BY <1>1 DEF TakeBatch
<1>3. \A i \in 1 .. flushed : RequestOf(i).fiber = sq[i].fiber /\ RequestOf(i).role = sq[i].role
  BY DEF RequestOf
<1>4. g \in [1 .. flushed -> taken]
  OBVIOUS
<1>5. ASSUME NEW i \in 1 .. flushed, NEW j \in 1 .. flushed, g[i] = g[j]
      PROVE  i = j
  <2>1. RequestOf(i) = RequestOf(j)
    BY <1>5
  <2> QED
    BY <2>1, <1>1, <1>3 DEF OneCompletion, UniqueInSq
<1>6. \A t \in taken : \E i \in 1 .. flushed : g[i] = t
  OBVIOUS
<1>7. IsFiniteSet(1 .. flushed) /\ Cardinality(1 .. flushed) = flushed
  BY <1>1, FS_Interval
<1>8. IsFiniteSet(taken) /\ Cardinality(taken) = flushed
  <2>1. \A x, y \in 1 .. flushed : g[x] = g[y] => x = y
    BY <1>5
  <2> HIDE DEF g, taken
  <2>2. IsFiniteSet(taken) /\ Cardinality(taken) = Cardinality(1 .. flushed)
    BY <1>4, <1>6, <1>7, <2>1, SameSize
  <2> QED
    BY <1>7, <2>2
<1> HIDE DEF g
<1>9. inflight \cap taken = {}
  <2> SUFFICES ASSUME NEW i \in 1 .. flushed, RequestOf(i) \in inflight PROVE FALSE
    OBVIOUS
  <2>1. sq[i] \in Sqe
    BY <1>1
  <2>2. sq[i].fiber \in Fibers /\ sq[i].role \in Roles
    BY <2>1 DEF Sqe
  <2>3. InSq(sq[i].fiber, sq[i].role) /\ InFlight(sq[i].fiber, sq[i].role)
    BY <1>1, <1>3 DEF InSq, InFlight
  <2> QED
    BY <2>2, <2>3 DEF OneCompletion, InOnePlace
<1> HIDE DEF taken
<1>10. /\ IsFiniteSet(inflight')
       /\ Cardinality(inflight') = Cardinality(inflight) + flushed
  <2>1. /\ IsFiniteSet(inflight \cup taken)
        /\ Cardinality(inflight \cup taken)
             = Cardinality(inflight) + Cardinality(taken) - Cardinality(inflight \cap taken)
    BY <1>8, FS_Union
  <2>2. Cardinality(inflight \cap taken) = 0
    BY <1>9, FS_EmptySet
  <2>3. Cardinality(inflight) \in Nat
    BY FS_CardinalityType
  <2> QED
    BY <1>1, <1>8, <2>1, <2>2, <2>3
<1>11. Cardinality(inflight) \in Nat
  BY FS_CardinalityType
<1> QED
  BY <1>1, <1>2, <1>10, <1>11 DEF Owed

(* Completing an operation owes as many completions as before: its request *)
(* leaves the kernel and one entry reaches the completion queue.           *)
LEMMA PostOpCounts ==
  ASSUME RingTypeOK, OneCompletion, IsFiniteSet(inflight),
         NEW r \in inflight, NEW v \in Results, PostOp(r, v)
  PROVE  IsFiniteSet(inflight') /\ Owed' = Owed
<1> DEFINE S == inflight \ {r}
           After(q) == AfterOp(q, r.fiber, v)
           g == [q \in S |-> After(q)]
<1>1. /\ cq \in Seq(Cqe) /\ Len(cq) \in Nat /\ Len(sq) \in Nat
      /\ Len(cq') = Len(cq) + 1 /\ sq' = sq
      /\ inflight' = {After(q) : q \in S}
      /\ inflight \in SUBSET Request
  BY DEF PostOp, RingTypeOK
<1>2. \A q \in S : After(q).fiber = q.fiber /\ After(q).role = q.role
  <2> TAKE q \in S
  <2>1. q \in Request
    BY <1>1
  <2> QED
    BY <2>1 DEF AfterOp, Request
<1>3. IsFiniteSet(S) /\ Cardinality(S) = Cardinality(inflight) - 1
  BY FS_RemoveElement
<1> HIDE DEF S, After
<1>4. g \in [S -> inflight']
  BY <1>1
<1>5. \A t \in inflight' : \E q \in S : g[q] = t
  BY <1>1
<1>6. ASSUME NEW q1 \in S, NEW q2 \in S, g[q1] = g[q2]
      PROVE  q1 = q2
  <2>1. After(q1) = After(q2)
    BY <1>6
  <2> QED
    BY <2>1, <1>2 DEF S, OneCompletion, UniqueInFlight
<1> HIDE DEF g
<1>7. IsFiniteSet(inflight') /\ Cardinality(inflight') = Cardinality(S)
  BY <1>3, <1>4, <1>5, <1>6, SameSize
<1>8. Cardinality(inflight) \in Nat
  BY FS_CardinalityType
<1> QED
  BY <1>1, <1>3, <1>7, <1>8 DEF Owed

(* Completing a link timeout owes as many completions as before.           *)
LEMMA PostTimeoutCounts ==
  ASSUME RingTypeOK, IsFiniteSet(inflight),
         NEW t \in inflight, NEW v \in Results, PostTimeout(t, v)
  PROVE  IsFiniteSet(inflight') /\ Owed' = Owed
<1>1. /\ cq \in Seq(Cqe) /\ Len(cq) \in Nat /\ Len(sq) \in Nat
      /\ Len(cq') = Len(cq) + 1 /\ sq' = sq
      /\ inflight' = inflight \ {t}
  BY DEF PostTimeout, RingTypeOK
<1>2. /\ IsFiniteSet(inflight')
      /\ Cardinality(inflight') = Cardinality(inflight) - 1
      /\ Cardinality(inflight) \in Nat
  BY <1>1, FS_RemoveElement, FS_CardinalityType
<1> QED
  BY <1>1, <1>2 DEF Owed

(* A timer that fires changes the state of two requests and the number of  *)
(* none.                                                                   *)
LEMMA TimerCounts ==
  ASSUME RingTypeOK, OneCompletion, IsFiniteSet(inflight),
         NEW t \in inflight, NEW r \in inflight, NEW wins \in BOOLEAN, Timer(t, r, wins)
  PROVE  IsFiniteSet(inflight') /\ Owed' = Owed
<1> DEFINE t2 == [t EXCEPT !.after = NoFiber, !.st = IF wins THEN "expired" ELSE "lost"]
           r2 == [r EXCEPT !.st = IF wins THEN "cancelled" ELSE "finishing"]
           S == inflight \ {t, r}
<1>1. /\ t \in Request /\ r \in Request
      /\ t2.fiber = t.fiber /\ t2.role = t.role /\ t2.st \in {"expired", "lost"}
      /\ r2.fiber = r.fiber /\ r2.role = r.role /\ r2.st \in {"cancelled", "finishing"}
  BY DEF RingTypeOK, Request
<1>2. inflight' = (S \cup {t2}) \cup {r2} /\ UNCHANGED <<sq, flushed, busy, cq>> /\ t # r
  BY DEF Timer
<1>3. t2 # r2
  BY <1>1
<1> HIDE DEF t2, r2
<1>4. t2 \notin S /\ r2 \notin S
  BY <1>1 DEF OneCompletion, UniqueInFlight
<1>5. IsFiniteSet(S) /\ Cardinality(S) = Cardinality(inflight) - 2
  <2>1. /\ IsFiniteSet(inflight \ {t})
        /\ Cardinality(inflight \ {t}) = Cardinality(inflight) - 1
        /\ r \in inflight \ {t}
    BY <1>2, FS_RemoveElement
  <2>2. /\ IsFiniteSet((inflight \ {t}) \ {r})
        /\ Cardinality((inflight \ {t}) \ {r}) = Cardinality(inflight) - 1 - 1
    BY <2>1, FS_RemoveElement
  <2>3. S = (inflight \ {t}) \ {r}
    OBVIOUS
  <2>4. PICK n \in Nat : n = Cardinality(inflight)
    BY FS_CardinalityType
  <2>5. n - 1 - 1 = n - 2
    OBVIOUS
  <2> QED
    BY <2>2, <2>3, <2>4, <2>5
<1> HIDE DEF S
<1>6. IsFiniteSet(S \cup {t2}) /\ Cardinality(S \cup {t2}) = Cardinality(S) + 1
  BY <1>4, <1>5, FS_AddElement
<1>7. r2 \notin S \cup {t2}
  BY <1>3, <1>4
<1>8. IsFiniteSet(inflight') /\ Cardinality(inflight') = Cardinality(S) + 1 + 1
  BY <1>2, <1>6, <1>7, FS_AddElement
<1>9. Cardinality(inflight) \in Nat
  BY FS_CardinalityType
<1> QED
  BY <1>2, <1>5, <1>8, <1>9 DEF Owed

(* The submission queue has at most one entry per setter, and one less     *)
(* when a setter has none.                                                 *)
LEMMA SqBounded ==
  ASSUME RingTypeOK, OneCompletion, IsFiniteSet(Fibers),
         NEW f \in Fibers, NEW p \in Roles
  PROVE  /\ Len(sq) <= 2 * Cardinality(Fibers)
         /\ ~InSq(f, p) => Len(sq) <= 2 * Cardinality(Fibers) - 1
<1> DEFINE Setters == Fibers \X Roles
           key == [i \in 1 .. Len(sq) |-> <<sq[i].fiber, sq[i].role>>]
<1>1. /\ Len(sq) \in Nat
      /\ \A i \in 1 .. Len(sq) : sq[i].fiber \in Fibers /\ sq[i].role \in Roles
  <2>1. sq \in Seq(Sqe)
    BY DEF RingTypeOK
  <2>2. \A i \in 1 .. Len(sq) : sq[i] \in Sqe
    BY <2>1
  <2> QED
    BY <2>1, <2>2 DEF Sqe
<1>2. IsFiniteSet(1 .. Len(sq)) /\ Cardinality(1 .. Len(sq)) = Len(sq)
  <2>1. PICK n \in Nat : n = Len(sq)
    BY <1>1
  <2>2. 1 \in Int /\ n \in Int /\ (IF 1 > n THEN 0 ELSE n - 1 + 1) = n
    OBVIOUS
  <2>3. /\ IsFiniteSet(1 .. n)
        /\ Cardinality(1 .. n) = IF 1 > n THEN 0 ELSE n - 1 + 1
    BY <2>2, FS_Interval
  <2> QED
    BY <2>1, <2>2, <2>3
<1>3. IsFiniteSet(Setters) /\ Cardinality(Setters) = 2 * Cardinality(Fibers)
      /\ Cardinality(Fibers) \in Nat
  <2>1. IsFiniteSet(Roles) /\ Cardinality(Roles) = 2
    <3>1. /\ IsFiniteSet({"op"}) /\ Cardinality({"op"}) = 1
          /\ Roles = {"op"} \cup {"timeout"} /\ "timeout" \notin {"op"}
      BY FS_Singleton DEF Roles
    <3>2. /\ IsFiniteSet({"op"} \cup {"timeout"})
          /\ Cardinality({"op"} \cup {"timeout"}) = Cardinality({"op"}) + 1
      BY <3>1, FS_AddElement
    <3> QED
      BY <3>1, <3>2
  <2>2. /\ IsFiniteSet(Setters)
        /\ Cardinality(Setters) = Cardinality(Fibers) * Cardinality(Roles)
    BY <2>1, FS_Product
  <2>3. Cardinality(Fibers) \in Nat
    BY FS_CardinalityType
  <2> QED
    BY <2>1, <2>2, <2>3
<1>4. \A i, j \in 1 .. Len(sq) : key[i] = key[j] => i = j
  BY DEF OneCompletion, UniqueInSq
<1>5. ASSUME NEW T, IsFiniteSet(T), \A i \in 1 .. Len(sq) : key[i] \in T
      PROVE  Len(sq) <= Cardinality(T)
  <2>1. key \in [1 .. Len(sq) -> T]
    BY <1>5
  <2>2. key \in Injection(1 .. Len(sq), T)
    BY <1>4, <2>1, Fun_IsInj
  <2> QED
    BY <1>2, <1>5, <2>2, FS_Injection
<1>6. Len(sq) <= 2 * Cardinality(Fibers)
  BY <1>1, <1>3, <1>5
<1>7. ASSUME ~InSq(f, p)
      PROVE  Len(sq) <= 2 * Cardinality(Fibers) - 1
  <2>1. /\ IsFiniteSet(Setters \ {<<f, p>>})
        /\ Cardinality(Setters \ {<<f, p>>}) = 2 * Cardinality(Fibers) - 1
    <3>1. <<f, p>> \in Setters
      OBVIOUS
    <3>2. /\ IsFiniteSet(Setters \ {<<f, p>>})
          /\ Cardinality(Setters \ {<<f, p>>})
               = IF <<f, p>> \in Setters THEN Cardinality(Setters) - 1 ELSE Cardinality(Setters)
      BY <1>3, FS_RemoveElement
    <3> QED
      BY <1>3, <3>1, <3>2
  <2>2. \A i \in 1 .. Len(sq) : key[i] \in Setters \ {<<f, p>>}
    BY <1>1, <1>7 DEF InSq
  <2> QED
    BY <1>5, <2>1, <2>2
<1> QED
  BY <1>6, <1>7

-----------------------------------------------------------------------------
(* The scheduler.                                                          *)

(* Waking a fiber that is not scheduled schedules it, once.                *)
LEMMA WakeSchedules ==
  ASSUME SchedulerTypeOK, QueuedOnce,
         NEW f \in Fibers, ~Scheduled(f), Wake(f)
  PROVE  /\ SchedulerTypeOK'
         /\ QueuedOnce'
         /\ \A g \in Fibers : Scheduled(g)' <=> Scheduled(g) \/ g = f
<1>1. /\ runq \in Seq(Fibers) /\ current' = current
      /\ runq' \in Seq(Fibers)
      /\ Len(runq) \in Nat
      /\ Len(runq') = Len(runq) + 1
      /\ \A i \in 1 .. Len(runq) : runq'[i] = runq[i]
      /\ runq'[Len(runq) + 1] = f
  BY DEF SchedulerTypeOK, Wake
<1> QED
  BY <1>1 DEF SchedulerTypeOK, QueuedOnce, Scheduled

(* A fiber that yields stays scheduled.                                    *)
LEMMA YieldKeeps ==
  ASSUME SchedulerTypeOK, QueuedOnce, NoFiber \notin Fibers,
         NEW f \in Fibers, Yield(f)
  PROVE  /\ SchedulerTypeOK'
         /\ QueuedOnce'
         /\ \A g \in Fibers : Scheduled(g)' <=> Scheduled(g)
<1>1. /\ runq \in Seq(Fibers) /\ current = f /\ current' = NoFiber
      /\ runq' \in Seq(Fibers)
      /\ Len(runq) \in Nat
      /\ Len(runq') = Len(runq) + 1
      /\ \A i \in 1 .. Len(runq) : runq'[i] = runq[i] /\ runq[i] \in Fibers
      /\ runq'[Len(runq) + 1] = f
  BY DEF SchedulerTypeOK, Yield
<1>2. /\ \A i \in 1 .. Len(runq') : i \in 1 .. Len(runq) \/ i = Len(runq) + 1
      /\ \A i \in 1 .. Len(runq) : i \in 1 .. Len(runq')
      /\ Len(runq) + 1 \in 1 .. Len(runq')
  BY <1>1
<1>3. QueuedOnce'
  <2>1. /\ \A i, j \in 1 .. Len(runq) : runq[i] = runq[j] => i = j
        /\ \A i \in 1 .. Len(runq) : runq[i] # f
    BY <1>1 DEF QueuedOnce
  <2> QED
    BY <1>1, <1>2, <2>1 DEF QueuedOnce
<1>4. \A g \in Fibers : Scheduled(g)' <=> Scheduled(g)
  BY <1>1, <1>2 DEF Scheduled
<1> QED
  BY <1>1, <1>3, <1>4 DEF SchedulerTypeOK

(* A fiber that suspends or ends is not scheduled any more.                *)
LEMMA SuspendRemoves ==
  ASSUME SchedulerTypeOK, QueuedOnce, NoFiber \notin Fibers,
         NEW f \in Fibers, Suspend(f)
  PROVE  /\ SchedulerTypeOK'
         /\ QueuedOnce'
         /\ \A g \in Fibers : Scheduled(g)' <=> Scheduled(g) /\ g # f
  BY DEF SchedulerTypeOK, QueuedOnce, Scheduled, Suspend

(* Switching to the next fiber keeps the same fibers scheduled.            *)
LEMMA ResumeKeeps ==
  ASSUME SchedulerTypeOK, QueuedOnce, NoFiber \notin Fibers, Resume
  PROVE  /\ SchedulerTypeOK'
         /\ QueuedOnce'
         /\ current' \in Fibers
         /\ \A g \in Fibers : Scheduled(g)' <=> Scheduled(g)
<1>1. /\ runq \in Seq(Fibers) /\ current = NoFiber
      /\ Len(runq) \in Nat \ {0}
      /\ current' = runq[1] /\ current' \in Fibers
      /\ runq' \in Seq(Fibers)
      /\ Len(runq') = Len(runq) - 1
      /\ \A i \in 1 .. Len(runq) - 1 : runq'[i] = runq[i + 1]
  BY HeadTailProperties DEF SchedulerTypeOK, Resume
<1>2. QueuedOnce'
  <2>1. ASSUME NEW i \in 1 .. Len(runq'), NEW j \in 1 .. Len(runq'),
               runq'[i] = runq'[j]
        PROVE  i = j
    <3>1. /\ i + 1 \in 1 .. Len(runq) /\ j + 1 \in 1 .. Len(runq)
          /\ runq[i + 1] = runq[j + 1]
      BY <2>1, <1>1
    <3> QED
      BY <3>1 DEF QueuedOnce
  <2>2. ASSUME NEW i \in 1 .. Len(runq')
        PROVE  runq'[i] # current'
    <3>1. i + 1 \in 1 .. Len(runq) /\ 1 \in 1 .. Len(runq)
      BY <1>1
    <3>2. runq'[i] = runq[i + 1] /\ current' = runq[1]
      BY <1>1
    <3> QED
      BY <3>1, <3>2 DEF QueuedOnce
  <2> QED
    BY <2>1, <2>2 DEF QueuedOnce
<1>3. \A g \in Fibers : Scheduled(g)' <=> Scheduled(g)
  <2> TAKE g \in Fibers
  <2>1. ASSUME NEW i \in 1 .. Len(runq), runq[i] = g
        PROVE  Scheduled(g)'
    <3>1. CASE i = 1
      BY <3>1, <2>1, <1>1 DEF Scheduled
    <3>2. CASE i # 1
      <4>1. i - 1 \in 1 .. Len(runq') /\ runq'[i - 1] = g
        BY <3>2, <2>1, <1>1
      <4> QED
        BY <4>1 DEF Scheduled
    <3> QED
      BY <3>1, <3>2
  <2> QED
    BY <2>1, <1>1 DEF Scheduled
<1> QED
  BY <1>1, <1>2, <1>3 DEF SchedulerTypeOK, Scheduled

-----------------------------------------------------------------------------
(* The inductive invariant, step by step.                                  *)

USE SchedulerAssumption, IoUringAssumption, RingAssumption, RingPollerAssumption

(* What is owed does not change while the rings do not.                    *)
LEMMA RingsUnchanged ==
  ASSUME UNCHANGED <<sq, inflight, cq>>
  PROVE  /\ OneCompletion' <=> OneCompletion
         /\ \A f, p : Outstanding(f, p)' <=> Outstanding(f, p)
  BY DEF OneCompletion, UniqueInSq, UniqueInFlight, UniqueInCq, InOnePlace,
         Outstanding, InSq, InFlight, InCq

(* A step that leaves the run queue alone leaves scheduled fibers          *)
(* scheduled (tf).                                                         *)
LEMMA SchedulerUnchanged ==
  ASSUME UNCHANGED schedulerVars
  PROVE  /\ QueuedOnce' <=> QueuedOnce
         /\ SchedulerTypeOK' <=> SchedulerTypeOK
         /\ \A f : Scheduled(f)' <=> Scheduled(f)
  BY DEF QueuedOnce, Scheduled, schedulerVars, SchedulerTypeOK

(* The inductive invariant holds when the scheduler starts with the root   *)
(* fiber (Scheduler::Run).                                                 *)
LEMMA InitIInv == Init => IInv
<1> SUFFICES ASSUME Init PROVE IInv
  OBVIOUS
<1> USE DEF Init, SchedulerInit, RingInit, RingStateInit, PollerInit
<1>1. TypeOK
  <2>1. SchedulerTypeOK /\ RingTypeOK /\ RingStateOK
    BY DEF SchedulerTypeOK, RingTypeOK, RingStateOK
  <2>2. PollerTypeOK
    <3>1. NotSet \in [Roles -> Results \cup {"ENOCQE"}]
      BY DEF NotSet, Roles
    <3>2. res \in [Fibers -> [Roles -> Results \cup {"ENOCQE"}]]
      BY <3>1
    <3> QED
      BY <3>2 DEF PollerTypeOK, Calls
  <2>3. SubmitterTypeOK
    BY DEF SubmitterTypeOK, PCs, Outcomes
  <2> QED
    BY <2>1, <2>2, <2>3 DEF TypeOK
<1>2. OneCompletion /\ \A f, p : ~Outstanding(f, p)
  BY DEF OneCompletion, UniqueInSq, UniqueInFlight, UniqueInCq, InOnePlace,
         Outstanding, InSq, InFlight, InCq
<1>3. QueuedOnce /\ \A f : Scheduled(f) <=> f = Root \/ f = NoFiber
  BY DEF QueuedOnce, Scheduled
<1> QED
  BY <1>1, <1>2, <1>3 DEF IInv, PollerAlone, OwedSetters, FreshSetters, Ready

(* tf::Spawn queues a fiber that was not queued and is in no call.         *)
LEMMA SpawnIInv ==
  ASSUME IInv, NEW g \in Fibers, NEW f \in Fibers, Spawn(g, f)
  PROVE  IInv'
<1>1. ~Scheduled(f)
  BY DEF IInv, Ready, Spawn
<1>2. /\ SchedulerTypeOK' /\ QueuedOnce'
      /\ \A h \in Fibers : Scheduled(h)' <=> Scheduled(h) \/ h = f
  BY <1>1, WakeSchedules DEF IInv, TypeOK, Spawn
<1>3. OneCompletion' /\ \A h, p : Outstanding(h, p)' <=> Outstanding(h, p)
  BY RingsUnchanged DEF IInv, Spawn, ringVars
<1>4. TypeOK'
  BY <1>2 DEF IInv, TypeOK, RingTypeOK, RingStateOK, PollerTypeOK, SubmitterTypeOK, PCs,
              Spawn, Goto, ringVars, pollerVars
<1> QED
  BY <1>2, <1>3, <1>4 DEF IInv, PollerAlone, OwedSetters, FreshSetters, Ready, HasResults,
                          TypeOK, SubmitterTypeOK, Spawn, Wake, Goto, At, pollerVars

(* A call of the Submitter builds new setters while nothing is owed to the *)
(* old ones.                                                               *)
LEMMA BeginIInv ==
  ASSUME IInv, NEW f \in Fibers, NEW k \in Calls, Begin(f, k)
  PROVE  IInv'
<1>1. /\ SchedulerTypeOK' /\ QueuedOnce'
      /\ \A h : Scheduled(h)' <=> Scheduled(h)
  BY SchedulerUnchanged DEF IInv, TypeOK, Begin
<1>2. OneCompletion' /\ \A h, p : Outstanding(h, p)' <=> Outstanding(h, p)
  BY RingsUnchanged DEF IInv, Begin, ringVars
<1>3. TypeOK'
  BY <1>1 DEF IInv, TypeOK, RingTypeOK, RingStateOK, PollerTypeOK, SubmitterTypeOK, PCs,
              Begin, Goto, ringVars, NotSet, Roles
<1> QED
  BY <1>1, <1>2, <1>3 DEF IInv, PollerAlone, OwedSetters, FreshSetters, Ready, HasResults,
                          TypeOK, SubmitterTypeOK, PollerTypeOK, Begin, Goto, At, schedulerVars

(* A fiber that ends is in no call, so nothing is owed to its stack.       *)
LEMMA FinishIInv ==
  ASSUME IInv, NEW f \in Fibers, Finish(f)
  PROVE  IInv'
<1>1. /\ SchedulerTypeOK' /\ QueuedOnce'
      /\ \A h \in Fibers : Scheduled(h)' <=> Scheduled(h) /\ h # f
  BY SuspendRemoves DEF IInv, TypeOK, Finish
<1>2. OneCompletion' /\ \A h, p : Outstanding(h, p)' <=> Outstanding(h, p)
  BY RingsUnchanged DEF IInv, Finish, ringVars
<1>3. TypeOK'
  BY <1>1 DEF IInv, TypeOK, RingTypeOK, RingStateOK, PollerTypeOK, SubmitterTypeOK, PCs,
              Finish, Goto, ringVars, pollerVars
<1> QED
  BY <1>1, <1>2, <1>3 DEF IInv, PollerAlone, OwedSetters, FreshSetters, Ready, HasResults,
                          TypeOK, SubmitterTypeOK, Finish, Suspend, Goto, At, pollerVars

(* A fiber that yields in Ring::submit (ring.cc:36-43) keeps the setters   *)
(* of its call.                                                            *)
LEMMA StarveIInv ==
  ASSUME IInv, NEW f \in Fibers, Starve(f)
  PROVE  IInv'
<1>1. /\ SchedulerTypeOK' /\ QueuedOnce'
      /\ \A h \in Fibers : Scheduled(h)' <=> Scheduled(h)
  BY YieldKeeps DEF IInv, TypeOK, Starve
<1>2. OneCompletion' /\ \A h, p : Outstanding(h, p)' <=> Outstanding(h, p)
  BY RingsUnchanged DEF IInv, Starve, ringVars
<1>3. TypeOK'
  BY <1>1 DEF IInv, TypeOK, RingTypeOK, RingStateOK, PollerTypeOK, SubmitterTypeOK,
              Starve, ringVars, pollerVars, submitterVars
<1> QED
  BY <1>1, <1>2, <1>3 DEF IInv, PollerAlone, OwedSetters, FreshSetters, Ready, HasResults,
                          Starve, Yield, At, pollerVars, submitterVars

(* The entries that ring_submit appends, and the type of what it changes.  *)
LEMMA SubmitTypeOK ==
  ASSUME TypeOK, NEW s \in Sqe, NEW next_is_timeout \in BOOLEAN,
         submit(s, next_is_timeout)
  PROVE  RingTypeOK' /\ RingStateOK'
<1>1. /\ sq \in Seq(Sqe) /\ sq' = Append(sq, s)
      /\ Len(sq) \in Nat /\ Len(sq') = Len(sq) + 1 /\ sq' \in Seq(Sqe)
      /\ flushed \in 0 .. Len(sq)
  BY DEF TypeOK, RingTypeOK, submit
<1>2. flushed' \in 0 .. Len(sq')
  BY <1>1 DEF submit, AfterFlush
<1> QED
  BY <1>1, <1>2 DEF submit, TypeOK, RingTypeOK, RingStateOK

(* The operation of a call without a duration is owed to a setter without  *)
(* a result, and its fiber suspends (submitter.cc:20-25).                  *)
LEMMA SubmitUntimedIInv ==
  ASSUME IInv, NEW f \in Fibers, SubmitUntimed(f)
  PROVE  IInv'
<1>1. /\ SchedulerTypeOK' /\ QueuedOnce'
      /\ \A h \in Fibers : Scheduled(h)' <=> Scheduled(h) /\ h # f
  BY SuspendRemoves DEF IInv, TypeOK, SubmitUntimed
<1>2. OpSqe(f) \in Sqe /\ OpSqe(f).fiber = f /\ OpSqe(f).role = "op"
  BY DEF OpSqe, Sqe, Roles
<1>3. ~Outstanding(f, "op") /\ ~Outstanding(f, "timeout")
  BY DEF IInv, OwedSetters, SubmitUntimed, At
<1>4. /\ OneCompletion'
      /\ \A h \in Fibers, p \in Roles :
           Outstanding(h, p)' <=> Outstanding(h, p) \/ (h = f /\ p = "op")
  BY <1>2, <1>3, SubmitOwes DEF IInv, TypeOK, SubmitUntimed, submit
<1>5. TypeOK'
  BY <1>1, <1>2, SubmitTypeOK DEF IInv, TypeOK, PollerTypeOK, SubmitterTypeOK, PCs,
                                  SubmitUntimed, Goto, pollerVars
<1> QED
  BY <1>1, <1>3, <1>4, <1>5 DEF IInv, PollerAlone, OwedSetters, FreshSetters, Ready, HasResults,
       NotSet, Roles, TypeOK, SubmitterTypeOK, SubmitUntimed, submit, Suspend, Goto, At, pollerVars

(* The operation of a timed call is owed to a setter without a result      *)
(* (submitter.cc:45-49).                                                   *)
LEMMA SubmitOpIInv ==
  ASSUME IInv, NEW f \in Fibers, SubmitOp(f)
  PROVE  IInv'
<1>1. /\ SchedulerTypeOK' /\ QueuedOnce'
      /\ \A h : Scheduled(h)' <=> Scheduled(h)
  BY SchedulerUnchanged DEF IInv, TypeOK, SubmitOp
<1>2. OpSqe(f) \in Sqe /\ OpSqe(f).fiber = f /\ OpSqe(f).role = "op"
  BY DEF OpSqe, Sqe, Roles
<1>3. ~Outstanding(f, "op") /\ ~Outstanding(f, "timeout")
  BY DEF IInv, OwedSetters, SubmitOp, At
<1>4. /\ OneCompletion'
      /\ \A h \in Fibers, p \in Roles :
           Outstanding(h, p)' <=> Outstanding(h, p) \/ (h = f /\ p = "op")
  BY <1>2, <1>3, SubmitOwes DEF IInv, TypeOK, SubmitOp, submit
<1>5. TypeOK'
  BY <1>1, <1>2, SubmitTypeOK DEF IInv, TypeOK, PollerTypeOK, SubmitterTypeOK, PCs,
                                  SubmitOp, Goto, pollerVars
<1> QED
  BY <1>1, <1>3, <1>4, <1>5 DEF IInv, PollerAlone, OwedSetters, FreshSetters, Ready, HasResults,
       NotSet, Roles, TypeOK, SubmitterTypeOK, SubmitOp, submit, Goto, At, pollerVars, schedulerVars

(* The link timeout is owed to the other setter of the call                *)
(* (submitter.cc:54-57).                                                   *)
LEMMA SubmitTimeoutIInv ==
  ASSUME IInv, NEW f \in Fibers, SubmitTimeout(f)
  PROVE  IInv'
<1>1. /\ SchedulerTypeOK' /\ QueuedOnce'
      /\ \A h : Scheduled(h)' <=> Scheduled(h)
  BY SchedulerUnchanged DEF IInv, TypeOK, SubmitTimeout
<1>2. TimeoutSqe(f) \in Sqe /\ TimeoutSqe(f).fiber = f /\ TimeoutSqe(f).role = "timeout"
  BY DEF TimeoutSqe, Sqe, Roles
<1>3. ~Outstanding(f, "timeout")
  BY DEF IInv, OwedSetters, SubmitTimeout, At
<1>4. /\ OneCompletion'
      /\ \A h \in Fibers, p \in Roles :
           Outstanding(h, p)' <=> Outstanding(h, p) \/ (h = f /\ p = "timeout")
  BY <1>2, <1>3, SubmitOwes DEF IInv, TypeOK, SubmitTimeout, submit
<1>5. TypeOK'
  BY <1>1, <1>2, SubmitTypeOK DEF IInv, TypeOK, PollerTypeOK, SubmitterTypeOK, PCs,
                                  SubmitTimeout, Goto, pollerVars
<1> QED
  BY <1>1, <1>3, <1>4, <1>5 DEF IInv, PollerAlone, OwedSetters, FreshSetters, Ready, HasResults,
       Roles, TypeOK, SubmitterTypeOK, SubmitTimeout, submit, Goto, At, pollerVars, schedulerVars

(* After its verification (submitter.cc:58) a timed call suspends, with    *)
(* both setters as they were.                                              *)
LEMMA VerifySubmittedIInv ==
  ASSUME IInv, NEW f \in Fibers, VerifySubmitted(f)
  PROVE  IInv'
<1>1. OneCompletion' /\ \A h, p : Outstanding(h, p)' <=> Outstanding(h, p)
  BY RingsUnchanged DEF IInv, VerifySubmitted, ringVars
<1>2. CASE Suspend(f) /\ Goto(f, "await") /\ outcome' = outcome
  <2>1. /\ SchedulerTypeOK' /\ QueuedOnce'
        /\ \A h \in Fibers : Scheduled(h)' <=> Scheduled(h) /\ h # f
    BY <1>2, SuspendRemoves DEF IInv, TypeOK
  <2>2. TypeOK'
    BY <1>2, <2>1 DEF IInv, TypeOK, RingTypeOK, RingStateOK, PollerTypeOK, SubmitterTypeOK,
                PCs, VerifySubmitted, Goto, ringVars, pollerVars
  <2> QED
    BY <1>1, <1>2, <2>1, <2>2
    DEF IInv, PollerAlone, OwedSetters, FreshSetters, Ready, HasResults,
        TypeOK, SubmitterTypeOK, VerifySubmitted, Suspend, Goto, At, pollerVars
<1>3. CASE outcome' = "should submit timeout and op" /\ UNCHANGED <<pc, schedulerVars>>
  <2>1. /\ SchedulerTypeOK' /\ QueuedOnce'
        /\ \A h : Scheduled(h)' <=> Scheduled(h)
    BY <1>3, SchedulerUnchanged DEF IInv, TypeOK
  <2>2. TypeOK'
    BY <1>3, <2>1 DEF IInv, TypeOK, RingTypeOK, RingStateOK, PollerTypeOK, SubmitterTypeOK,
                Outcomes, VerifySubmitted, ringVars, pollerVars
  <2> QED
    BY <1>1, <1>3, <2>1, <2>2
    DEF IInv, PollerAlone, OwedSetters, FreshSetters, Ready, HasResults,
        VerifySubmitted, pollerVars, schedulerVars
<1> QED
  BY <1>2, <1>3 DEF VerifySubmitted

(* A fiber leaves its call (submitter.cc:60-78) only when both results are *)
(* there, so nothing is owed to the frame it leaves.                       *)
LEMMA ReturnIInv ==
  ASSUME IInv, NEW f \in Fibers, Return(f)
  PROVE  IInv'
<1>1. /\ SchedulerTypeOK' /\ QueuedOnce'
      /\ \A h : Scheduled(h)' <=> Scheduled(h)
  BY SchedulerUnchanged DEF IInv, TypeOK, Return
<1>2. OneCompletion' /\ \A h, p : Outstanding(h, p)' <=> Outstanding(h, p)
  BY RingsUnchanged DEF IInv, Return, ringVars
<1>3. HasResults(f) /\ ~Outstanding(f, "op") /\ ~Outstanding(f, "timeout")
  BY DEF IInv, OwedSetters, Ready, HasResults, Scheduled, Return, At
<1>4. outcome' \in Outcomes /\ outcome' # "enocqe"
  BY <1>3 DEF Return, Death, Outcomes, HasResults
<1>5. res[f].op \in Results /\ (call[f] = "timed" => TimedResult(res[f]) \in Results \cup {"ESQE_TIMEOUT"})
  <2>1. res[f].op \in Results \cup {"ENOCQE"}
    BY DEF IInv, TypeOK, PollerTypeOK, Roles
  <2> QED
    BY <1>3, <2>1 DEF TimedResult, HasResults
<1>6. TypeOK'
  <2>1. RingTypeOK' /\ RingStateOK' /\ PollerTypeOK'
    BY DEF IInv, TypeOK, RingTypeOK, RingStateOK, PollerTypeOK, Return, ringVars, pollerVars
  <2>2. /\ pc \in [Fibers -> PCs] /\ call \in [Fibers -> Calls] /\ "ready" \in PCs
        /\ ret \in [Fibers -> Results \cup {"none", "ESQE_TIMEOUT", "ENOCQE"}]
    BY DEF IInv, TypeOK, SubmitterTypeOK, PollerTypeOK, PCs
  <2>3. \/ UNCHANGED <<pc, ret>>
        \/ /\ pc' = [pc EXCEPT ![f] = "ready"]
           /\ \E v \in Results \cup {"ESQE_TIMEOUT"} : ret' = [ret EXCEPT ![f] = v]
    BY <1>5 DEF Return, Goto
  <2>4. /\ pc' \in [Fibers -> PCs]
        /\ ret' \in [Fibers -> Results \cup {"none", "ESQE_TIMEOUT", "ENOCQE"}]
    BY <2>2, <2>3
  <2> QED
    BY <1>1, <1>4, <2>1, <2>4 DEF TypeOK, SubmitterTypeOK
<1> QED
  BY <1>1, <1>2, <1>3, <1>4, <1>6
  DEF IInv, PollerAlone, OwedSetters, FreshSetters, Ready, HasResults,
      TypeOK, SubmitterTypeOK, Return, Goto, At, pollerVars, schedulerVars

(* The scheduler resumes the next runnable fiber; none becomes queued      *)
(* twice.                                                                  *)
LEMMA SwitchIInv == IInv /\ Switch => IInv'
<1> SUFFICES ASSUME IInv, Switch PROVE IInv'
  OBVIOUS
<1>1. /\ SchedulerTypeOK' /\ QueuedOnce'
      /\ \A h \in Fibers : Scheduled(h)' <=> Scheduled(h)
  BY ResumeKeeps DEF IInv, TypeOK, Switch
<1>2. OneCompletion' /\ \A h, p : Outstanding(h, p)' <=> Outstanding(h, p)
  BY RingsUnchanged DEF IInv, Switch, ringVars
<1>3. TypeOK'
  BY <1>1 DEF IInv, TypeOK, RingTypeOK, RingStateOK, PollerTypeOK, SubmitterTypeOK,
              Switch, Rest, ringVars, pollerVars, submitterVars
<1>4. PollerAlone'
  BY DEF PollerAlone, Switch, PollerIdle, pollerVars, IInv, TypeOK, RingStateOK
<1>5. current = NoFiber
  BY DEF Switch, Resume
<1> QED
  BY <1>1, <1>2, <1>3, <1>4, <1>5
  DEF IInv, OwedSetters, FreshSetters, Ready, HasResults,
      Switch, Rest, pollerVars, submitterVars

(* The steps of the poller that change neither a fiber nor what is owed,   *)
(* or drop a completion.                                                   *)
LEMMA PollerIInv ==
  ASSUME IInv,
         UNCHANGED schedulerVars, UNCHANGED submitterVars, UNCHANGED <<call, res>>,
         OneCompletion', RingTypeOK', RingStateOK',
         attempts' \in Nat, waiting' \in BOOLEAN, current = NoFiber,
         waiting' => reaped' = 0,
         \A f \in Fibers, p \in Roles : Outstanding(f, p)' => Outstanding(f, p)
  PROVE  IInv'
<1>1. /\ SchedulerTypeOK' /\ QueuedOnce'
      /\ \A h : Scheduled(h)' <=> Scheduled(h)
  BY SchedulerUnchanged DEF IInv, TypeOK
<1>2. TypeOK'
  BY <1>1 DEF IInv, TypeOK, PollerTypeOK, SubmitterTypeOK, submitterVars
<1> QED
  BY <1>1, <1>2 DEF IInv, PollerAlone, OwedSetters, FreshSetters, Ready, HasResults, Roles,
                    schedulerVars, submitterVars

(* Ring::poll, try_poll and try_poll_many leave the rings alone.           *)
LEMMA ReapTypeOK ==
  ASSUME RingTypeOK, RingStateOK, NEW n \in 0 .. Len(cq), Reap(n)
  PROVE  RingTypeOK' /\ RingStateOK'
  BY DEF RingTypeOK, RingStateOK, Reap, ringVars

(* TryPollMany reaps no more completions than there are (ring.cc:80-89).   *)
LEMMA PollManyIInv == IInv /\ PollMany => IInv'
<1> SUFFICES ASSUME IInv, PollMany PROVE IInv'
  OBVIOUS
<1>1. PICK n \in 0 .. Len(cq) : Reap(n)
  BY DEF PollMany, TryPollMany, try_poll_many, IInv, TypeOK, RingTypeOK
<1>2. RingTypeOK' /\ RingStateOK'
  BY <1>1, ReapTypeOK DEF IInv, TypeOK
<1>3. OneCompletion' /\ \A h, p : Outstanding(h, p)' <=> Outstanding(h, p)
  BY <1>1, RingsUnchanged DEF IInv, Reap, ringVars
<1> QED
  BY <1>2, <1>3, PollerIInv
  DEF PollMany, TryPollMany, PollerIdle, Rest, pollerVars, IInv, TypeOK, PollerTypeOK

(* Ring::poll reaps the completion it waited for (ring.cc:58-65).          *)
LEMMA PollWaitedIInv == IInv /\ PollWaited => IInv'
<1> SUFFICES ASSUME IInv, PollWaited PROVE IInv'
  OBVIOUS
<1>1. 1 \in 0 .. Len(cq) /\ Reap(1)
  BY DEF PollWaited, PollReturns, poll, IInv, TypeOK, RingTypeOK
<1>2. RingTypeOK' /\ RingStateOK'
  BY <1>1, ReapTypeOK DEF IInv, TypeOK
<1>3. OneCompletion' /\ \A h, p : Outstanding(h, p)' <=> Outstanding(h, p)
  BY <1>1, RingsUnchanged DEF IInv, Reap, ringVars
<1> QED
  BY <1>2, <1>3, PollerIInv DEF PollWaited, PollReturns, Rest, IInv, PollerAlone

(* TryPoll (poller.cc:27-38) reaps one completion, or drops one and waits. *)
LEMMA PollOneIInv == IInv /\ PollOne => IInv'
<1> SUFFICES ASSUME IInv, PollOne PROVE IInv'
  OBVIOUS
<1> USE DEF PollOne, TryPoll, PollerIdle, Rest
<1>1. CASE TryPollBusy /\ cq # <<>>
  <2>1. 1 \in 0 .. Len(cq) /\ Reap(1)
    BY <1>1 DEF TryPollBusy, try_poll, IInv, TypeOK, RingTypeOK
  <2>2. RingTypeOK' /\ RingStateOK'
    BY <2>1, ReapTypeOK DEF IInv, TypeOK
  <2>3. OneCompletion' /\ \A h, p : Outstanding(h, p)' <=> Outstanding(h, p)
    BY <2>1, RingsUnchanged DEF IInv, Reap, ringVars
  <2> QED
    BY <1>1, <2>2, <2>3, PollerIInv DEF TryPollBusy, IInv, TypeOK, PollerTypeOK
<1>2. CASE TryPollBusy /\ cq = <<>>
  <2>1. RingTypeOK' /\ RingStateOK' /\ attempts' \in Nat
    BY <1>2 DEF TryPollBusy, IInv, TypeOK, RingTypeOK, RingStateOK, PollerTypeOK, ringVars
  <2>2. OneCompletion' /\ \A h, p : Outstanding(h, p)' <=> Outstanding(h, p)
    BY <1>2, RingsUnchanged DEF IInv, TryPollBusy, ringVars
  <2> QED
    BY <1>2, <2>1, <2>2, PollerIInv DEF TryPollBusy, IInv, TypeOK, PollerTypeOK
<1>3. CASE TryPollLimit /\ cq # <<>>
  <2>1. RingTypeOK' /\ RingStateOK' /\ attempts' \in Nat
    <3>1. cq \in Seq(Cqe) /\ cq # <<>> /\ cq' = Tail(cq)
      BY <1>3 DEF TryPollLimit, IInv, TypeOK, RingTypeOK
    <3>2. cq' \in Seq(Cqe) /\ Len(cq') \in Nat
      BY <3>1
    <3> QED
      BY <1>3, <3>2 DEF TryPollLimit, IInv, TypeOK, RingTypeOK, RingStateOK, PollerTypeOK
  <2>2. /\ OneCompletion'
        /\ \A h \in Fibers, p \in Roles : Outstanding(h, p)' => Outstanding(h, p)
    <3>1. cq' = Tail(cq) /\ UNCHANGED <<sq, inflight>>
      BY <1>3 DEF TryPollLimit
    <3> QED
      BY <1>3, <3>1, ConsumeSettles DEF IInv, TypeOK
  <2> QED
    BY <1>3, <2>1, <2>2, PollerIInv DEF TryPollLimit
<1>4. CASE TryPollLimit /\ cq = <<>>
  <2>1. RingTypeOK' /\ RingStateOK' /\ attempts' \in Nat
    BY <1>4 DEF TryPollLimit, IInv, TypeOK, RingTypeOK, RingStateOK, PollerTypeOK
  <2>2. OneCompletion' /\ \A h, p : Outstanding(h, p)' <=> Outstanding(h, p)
    BY <1>4, RingsUnchanged DEF IInv, TryPollLimit
  <2> QED
    BY <1>4, <2>1, <2>2, PollerIInv DEF TryPollLimit
<1> QED
  BY <1>1, <1>2, <1>3, <1>4

(* What dispatch finds in the setter of the completion it consumes.        *)
LEMMA DispatchFinds ==
  ASSUME IInv, Dispatch, NEW f \in Fibers, NEW p \in Roles,
         f = Head(cq).fiber, p = Head(cq).role
  PROVE  /\ res[f][p] = "ENOCQE"
         /\ pc[f] \in {"getto", "await"}
         /\ p = "timeout" => pc[f] = "await" /\ call[f] = "timed"
         /\ pc[f] = "getto" => call[f] = "timed" /\ res[f].timeout = "ENOCQE" /\ p = "op"
         /\ pc[f] = "await" => ~Scheduled(f)
         /\ OneCompletion'
         /\ \A h \in Fibers, q \in Roles :
              Outstanding(h, q)' <=> Outstanding(h, q) /\ ~(h = f /\ q = p)
<1>1. /\ cq # <<>> /\ cq' = Tail(cq) /\ UNCHANGED <<sq, inflight>>
      /\ current = NoFiber
  BY DEF Dispatch, dispatch, IInv, TypeOK, RingTypeOK, RingStateOK, PollerAlone
<1>2. /\ OneCompletion'
      /\ Outstanding(f, p)
      /\ \A h \in Fibers, q \in Roles :
           Outstanding(h, q)' <=> Outstanding(h, q) /\ ~(h = f /\ q = p)
  BY <1>1, ConsumeSettles DEF IInv, TypeOK
<1>3. pc[f] # "check"
  BY <1>1 DEF IInv, FreshSetters
<1>4. /\ res[f][p] = "ENOCQE"
      /\ pc[f] \in {"getto", "await"}
      /\ p = "timeout" => pc[f] = "await" /\ call[f] = "timed"
  BY <1>2, <1>3 DEF IInv, OwedSetters, Roles
<1>5. pc[f] = "getto" => call[f] = "timed" /\ res[f].timeout = "ENOCQE" /\ p = "op"
  BY <1>4 DEF IInv, FreshSetters, Roles
<1>6. pc[f] = "await" => ~Scheduled(f)
  BY <1>4 DEF IInv, Ready, HasResults, Roles
<1> QED
  BY <1>2, <1>4, <1>5, <1>6

(* dispatch (poller.cc:10-18) writes a result into its own setter and      *)
(* wakes the fiber exactly when the call has all its results.              *)
LEMMA DispatchIInv == IInv /\ Dispatch => IInv'
<1> SUFFICES ASSUME IInv, Dispatch PROVE IInv'
  OBVIOUS
<1>1. cq \in Seq(Cqe) /\ cq # <<>> /\ cq' = Tail(cq)
  BY DEF Dispatch, dispatch, IInv, TypeOK, RingTypeOK, RingStateOK
<1>2. Head(cq) \in Cqe /\ cq' \in Seq(Cqe) /\ Len(cq') = Len(cq) - 1 /\ Len(cq) \in Nat
  BY <1>1, HeadTailProperties
<1>3. PICK f \in Fibers, p \in Roles, v \in Results :
        f = Head(cq).fiber /\ p = Head(cq).role /\ v = Head(cq).res
  BY <1>2 DEF Cqe
<1>r. PICK r : r = [res[f] EXCEPT ![p] = v]
  OBVIOUS
<1>4. /\ res[f][p] = "ENOCQE"
      /\ pc[f] \in {"getto", "await"}
      /\ p = "timeout" => pc[f] = "await" /\ call[f] = "timed"
      /\ pc[f] = "getto" => call[f] = "timed" /\ res[f].timeout = "ENOCQE" /\ p = "op"
      /\ pc[f] = "await" => ~Scheduled(f)
      /\ OneCompletion'
      /\ \A h \in Fibers, q \in Roles :
           Outstanding(h, q)' <=> Outstanding(h, q) /\ ~(h = f /\ q = p)
  BY <1>3, DispatchFinds
<1>5. /\ res' = [res EXCEPT ![f] = r]
      /\ IF ShouldWake(f, r) THEN Wake(f) ELSE UNCHANGED schedulerVars
      /\ reaped > 0 /\ reaped' = reaped - 1
      /\ UNCHANGED <<sq, flushed, busy, inflight, pending_count, attempts, waiting, call>>
      /\ UNCHANGED <<pc, ret, outcome>>
  BY <1>3, <1>r DEF Dispatch, dispatch, Rest, submitterVars
<1>6. res[f] \in [Roles -> Results \cup {"ENOCQE"}] /\ r \in [Roles -> Results \cup {"ENOCQE"}]
  BY <1>r DEF IInv, TypeOK, PollerTypeOK
<1>7. r[p] = v /\ v # "ENOCQE" /\ \A q \in Roles \ {p} : r[q] = res[f][q]
  BY <1>r, <1>6 DEF Results
<1>8. ShouldWake(f, r) => ~Scheduled(f) /\ pc[f] = "await"
  BY <1>3, <1>4, <1>7 DEF ShouldWake, Roles
<1>9. /\ SchedulerTypeOK' /\ QueuedOnce' /\ current' = current
      /\ \A h \in Fibers : Scheduled(h)' <=> Scheduled(h) \/ (h = f /\ ShouldWake(f, r))
  <2>1. CASE ShouldWake(f, r)
    BY <2>1, <1>3, <1>5, <1>8, WakeSchedules DEF IInv, TypeOK, Wake
  <2>2. CASE ~ShouldWake(f, r)
    BY <2>2, <1>5, SchedulerUnchanged DEF IInv, TypeOK, schedulerVars
  <2> QED
    BY <2>1, <2>2
<1>10. TypeOK'
  <2>1. RingTypeOK' /\ RingStateOK'
    BY <1>2, <1>5 DEF IInv, TypeOK, RingTypeOK, RingStateOK
  <2>2. PollerTypeOK'
    BY <1>5, <1>6 DEF IInv, TypeOK, PollerTypeOK
  <2> QED
    BY <1>5, <1>9, <2>1, <2>2 DEF IInv, TypeOK, SubmitterTypeOK
<1>11. PollerAlone'
  BY <1>5, <1>9 DEF IInv, TypeOK, RingStateOK, PollerAlone
<1>12. res'[f] = r /\ \A h \in Fibers \ {f} : res'[h] = res[h]
  BY <1>3, <1>5 DEF IInv, TypeOK, PollerTypeOK
<1>13. ASSUME NEW h \in Fibers
       PROVE  /\ OwedSetters(h)' /\ FreshSetters(h)'
              /\ Scheduled(h)' => Ready(h)'
  <2>1. CASE h # f
    BY <2>1, <1>4, <1>5, <1>9, <1>12
    DEF IInv, OwedSetters, FreshSetters, Ready, HasResults, Roles
  <2>2. CASE h = f
    <3>1. OwedSetters(f)'
      BY <1>3, <1>4, <1>5, <1>7, <1>12 DEF IInv, OwedSetters, Roles
    <3>2. FreshSetters(f)'
      BY <1>3, <1>4, <1>5, <1>7, <1>12 DEF IInv, FreshSetters, Roles
    <3>3. Scheduled(f)' => Ready(f)'
      BY <1>3, <1>4, <1>5, <1>7, <1>8, <1>9, <1>12 DEF IInv, Ready, HasResults, ShouldWake, Roles
    <3> QED
      BY <2>2, <3>1, <3>2, <3>3
  <2> QED
    BY <2>1, <2>2
<1> QED
  BY <1>4, <1>5, <1>9, <1>10, <1>11, <1>13 DEF IInv

(* The scheduler's end changes nothing the invariant is about.             *)
LEMMA StopIInv == IInv /\ Stop => IInv'
<1> SUFFICES ASSUME IInv, Stop PROVE IInv'
  OBVIOUS
<1>1. /\ SchedulerTypeOK' /\ QueuedOnce'
      /\ \A h : Scheduled(h)' <=> Scheduled(h)
  BY SchedulerUnchanged DEF IInv, TypeOK, Stop
<1>2. OneCompletion' /\ \A h, p : Outstanding(h, p)' <=> Outstanding(h, p)
  BY RingsUnchanged DEF IInv, Stop, ringVars
<1>3. TypeOK'
  BY <1>1 DEF IInv, TypeOK, RingTypeOK, RingStateOK, PollerTypeOK, SubmitterTypeOK, Outcomes,
              Stop, ringVars, pollerVars
<1> QED
  BY <1>1, <1>2, <1>3 DEF IInv, PollerAlone, OwedSetters, FreshSetters, Ready, HasResults,
                          Stop, pollerVars, schedulerVars

(* The kernel's steps only move completions along.                         *)
LEMMA KernelMoves ==
  ASSUME RingTypeOK, OneCompletion, KernelStep
  PROVE  /\ RingTypeOK'
         /\ OneCompletion'
         /\ \A f \in Fibers, p \in Roles : Outstanding(f, p)' <=> Outstanding(f, p)
<1>1. CASE Take
  BY <1>1, TakeBatchMoves DEF Take
<1>2. CASE Release
  <2>1. RingTypeOK'
    BY <1>2 DEF Release, ReleaseBatch, RingTypeOK
  <2> QED
    BY <1>2, <2>1, RingsUnchanged DEF Release, ReleaseBatch
<1>3. ASSUME NEW q \in inflight, Complete(q)
      PROVE  /\ RingTypeOK'
             /\ OneCompletion'
             /\ \A f \in Fibers, p \in Roles : Outstanding(f, p)' <=> Outstanding(f, p)
  BY <1>3, PostOpMoves DEF Complete
<1>4. ASSUME NEW q \in inflight, Expire(q)
      PROVE  /\ RingTypeOK'
             /\ OneCompletion'
             /\ \A f \in Fibers, p \in Roles : Outstanding(f, p)' <=> Outstanding(f, p)
  BY <1>4, PostTimeoutMoves DEF Expire
<1>5. ASSUME NEW q \in inflight, Fire(q)
      PROVE  /\ RingTypeOK'
             /\ OneCompletion'
             /\ \A f \in Fibers, p \in Roles : Outstanding(f, p)' <=> Outstanding(f, p)
  BY <1>5, TimerMoves DEF Fire
<1> QED
  BY <1>1, <1>2, <1>3, <1>4, <1>5 DEF KernelStep

(* Every step of the kernel leaves each completion owed, in one place.     *)
LEMMA KernelIInv == IInv /\ KernelStep => IInv'
<1> SUFFICES ASSUME IInv, KernelStep PROVE IInv'
  OBVIOUS
<1>1. /\ RingTypeOK' /\ OneCompletion'
      /\ \A f \in Fibers, p \in Roles : Outstanding(f, p)' <=> Outstanding(f, p)
  BY KernelMoves DEF IInv, TypeOK
<1>2. Outside /\ \/ cq' = cq
                 \/ \E c : cq' = Append(cq, c)
  BY DEF KernelStep, Take, TakeBatch, Release, ReleaseBatch, Complete, PostOp,
         Fire, Timer, Expire, PostTimeout
<1>3. reaped' \in 0 .. Len(cq')
  BY <1>1, <1>2 DEF Outside, IInv, TypeOK, RingTypeOK, RingStateOK
<1>4. /\ SchedulerTypeOK' /\ QueuedOnce'
      /\ \A h : Scheduled(h)' <=> Scheduled(h)
  BY <1>2, SchedulerUnchanged DEF Outside, IInv, TypeOK
<1>5. TypeOK'
  BY <1>1, <1>2, <1>3, <1>4 DEF Outside, Rest, IInv, TypeOK, RingStateOK, PollerTypeOK,
                                SubmitterTypeOK, pollerVars, submitterVars
<1> QED
  BY <1>1, <1>2, <1>4, <1>5
  DEF Outside, Rest, IInv, PollerAlone, OwedSetters, FreshSetters, Ready, HasResults, Roles,
      pollerVars, submitterVars, schedulerVars

(* A step that changes nothing preserves the invariant.                    *)
LEMMA StutterIInv == IInv /\ UNCHANGED vars => IInv'
<1> SUFFICES ASSUME IInv, UNCHANGED vars PROVE IInv'
  OBVIOUS
<1>1. /\ SchedulerTypeOK' /\ QueuedOnce'
      /\ \A h : Scheduled(h)' <=> Scheduled(h)
  BY SchedulerUnchanged DEF IInv, TypeOK, vars, schedulerVars
<1>2. OneCompletion' /\ \A h, p : Outstanding(h, p)' <=> Outstanding(h, p)
  BY RingsUnchanged DEF IInv, vars
<1>3. TypeOK'
  BY <1>1 DEF IInv, TypeOK, RingTypeOK, RingStateOK, PollerTypeOK, SubmitterTypeOK, vars
<1> QED
  BY <1>1, <1>2, <1>3 DEF IInv, PollerAlone, OwedSetters, FreshSetters, Ready, HasResults, vars

(* Every step of the program, the scheduler and the kernel preserves the   *)
(* inductive invariant.                                                    *)
LEMMA NextIInv == IInv /\ [Next]_vars => IInv'
<1> SUFFICES ASSUME IInv, [Next]_vars PROVE IInv'
  OBVIOUS
<1>1. ASSUME NEW f \in Fibers, FiberStep(f) PROVE IInv'
  BY <1>1, SpawnIInv, FinishIInv, BeginIInv, StarveIInv, SubmitUntimedIInv, SubmitOpIInv,
     SubmitTimeoutIInv, VerifySubmittedIInv, ReturnIInv DEF FiberStep
<1>2. CASE SchedulerStep
  BY <1>2, SwitchIInv, PollManyIInv, PollOneIInv, PollWaitedIInv, DispatchIInv, StopIInv
  DEF SchedulerStep
<1>3. CASE KernelStep
  BY <1>3, KernelIInv
<1>4. CASE Ended \/ UNCHANGED vars
  BY <1>4, StutterIInv DEF Ended
<1> QED
  BY <1>1, <1>2, <1>3, <1>4 DEF Next

(* Inductive: IInv, the strengthening the safety properties follow from,   *)
(* holds in every reachable state (submitter.cc, poller.cc and ring.cc     *)
(* together).                                                              *)
THEOREM Inductive == Spec => []IInv
<1>1. Init => IInv
  BY InitIInv
<1>2. IInv /\ [Next]_vars => IInv'
  BY NextIInv
<1> QED
  BY <1>1, <1>2, PTL DEF Spec

-----------------------------------------------------------------------------
(* The counter of pending completions.                                     *)

CountInv == IsFiniteSet(inflight) /\ PendingExact

(* Initially nothing is pending (ring.cc:30).                              *)
LEMMA InitCount == Init => CountInv
<1> SUFFICES ASSUME Init PROVE CountInv
  OBVIOUS
<1>1. inflight = {} /\ sq = <<>> /\ cq = <<>> /\ pending_count = 0 /\ reaped = 0
  BY DEF Init, RingInit, RingStateInit
<1>2. IsFiniteSet(inflight) /\ Cardinality(inflight) = 0
  BY <1>1, FS_EmptySet
<1> QED
  BY <1>1, <1>2 DEF CountInv, PendingExact

(* Ring::submit counts the entry it appends.                               *)
LEMMA SubmitCounts ==
  ASSUME TypeOK, CountInv, NEW s \in Sqe, NEW next_is_timeout, submit(s, next_is_timeout)
  PROVE  CountInv'
<1>1. /\ sq \in Seq(Sqe) /\ Len(sq') = Len(sq) + 1 /\ Len(sq) \in Nat
      /\ pending_count' = pending_count + 1 /\ UNCHANGED <<inflight, cq, reaped>>
      /\ pending_count \in Int /\ reaped \in Nat /\ Len(cq) \in Nat
  BY DEF TypeOK, RingTypeOK, RingStateOK, submit
<1>2. Cardinality(inflight) \in Nat
  BY FS_CardinalityType DEF CountInv
<1> QED
  BY <1>1, <1>2 DEF CountInv, PendingExact

(* A fiber's step counts every entry it submits (ring.cc:51).              *)
LEMMA FiberCount ==
  ASSUME TypeOK, CountInv, NEW f \in Fibers, FiberStep(f)
  PROVE  CountInv'
<1>1. CASE SubmitUntimed(f) \/ SubmitOp(f) \/ SubmitTimeout(f)
  <2>1. OpSqe(f) \in Sqe /\ TimeoutSqe(f) \in Sqe
    BY DEF OpSqe, TimeoutSqe, Sqe, Roles
  <2> QED
    BY <1>1, <2>1, SubmitCounts DEF SubmitUntimed, SubmitOp, SubmitTimeout
<1>2. CASE UNCHANGED ringVars /\ UNCHANGED <<pending_count, reaped>>
  BY <1>2 DEF CountInv, PendingExact, ringVars
<1> QED
  BY <1>1, <1>2 DEF FiberStep, Spawn, Finish, Begin, Starve, VerifySubmitted, Return

(* The poller counts every completion it consumes (ring.cc:63, 76, 87).    *)
LEMMA SchedulerCount ==
  ASSUME IInv, CountInv, SchedulerStep
  PROVE  CountInv'
<1>1. /\ reaped \in Nat /\ pending_count \in Int
      /\ Len(cq) \in Nat /\ Len(sq) \in Nat /\ cq \in Seq(Cqe)
  BY DEF IInv, TypeOK, RingTypeOK, RingStateOK
<1>2. Cardinality(inflight) \in Nat
  BY FS_CardinalityType DEF CountInv
<1>3. CASE Switch \/ Stop
  BY <1>3 DEF CountInv, PendingExact, Switch, Stop, ringVars
<1>4. ASSUME reaped = 0, NEW n \in Nat, Reap(n)
      PROVE  CountInv'
  BY <1>1, <1>2, <1>4 DEF Reap, CountInv, PendingExact, ringVars
<1>5. CASE PollMany
  <2>1. \E n \in Nat : Reap(n)
    BY <1>1, <1>5 DEF PollMany, TryPollMany, try_poll_many
  <2> QED
    BY <1>4, <1>5, <2>1 DEF PollMany, TryPollMany, PollerIdle
<1>6. CASE PollWaited
  BY <1>4, <1>6 DEF PollWaited, PollReturns, poll, IInv, PollerAlone
<1>7. CASE PollOne
  <2>1. CASE TryPollBusy
    BY <2>1, <1>4, <1>7 DEF PollOne, TryPoll, PollerIdle, TryPollBusy, try_poll,
                            CountInv, PendingExact, ringVars
  <2>2. CASE TryPollLimit /\ cq # <<>>
    <3>1. Len(cq') = Len(cq) - 1
      BY <1>1, <2>2 DEF TryPollLimit
    <3>2. UNCHANGED <<sq, inflight, reaped>> /\ pending_count' = pending_count - 1
      BY <2>2 DEF TryPollLimit
    <3>3. pending_count - 1 + reaped = Len(sq) + Cardinality(inflight) + (Len(cq) - 1)
      BY <1>1, <1>2 DEF CountInv, PendingExact
    <3> QED
      BY <3>1, <3>2, <3>3 DEF CountInv, PendingExact
  <2>3. CASE TryPollLimit /\ cq = <<>>
    BY <2>3 DEF TryPollLimit, CountInv, PendingExact
  <2> QED
    BY <1>7, <2>1, <2>2, <2>3 DEF PollOne, TryPoll
<1>8. CASE Dispatch
  <2>1. cq # <<>>
    BY <1>8 DEF Dispatch, dispatch, IInv, TypeOK, RingStateOK
  <2>2. Len(cq') = Len(cq) - 1
    BY <1>1, <1>8, <2>1 DEF Dispatch, dispatch
  <2>3. UNCHANGED <<sq, inflight, pending_count>> /\ reaped' = reaped - 1
    BY <1>8 DEF Dispatch, dispatch
  <2>4. pending_count + (reaped - 1) = Len(sq) + Cardinality(inflight) + (Len(cq) - 1)
    BY <1>1, <1>2 DEF CountInv, PendingExact
  <2> QED
    BY <2>2, <2>3, <2>4 DEF CountInv, PendingExact
<1> QED
  BY <1>3, <1>5, <1>6, <1>7, <1>8 DEF SchedulerStep

(* The kernel's steps owe as many completions as before.                   *)
LEMMA KernelCount ==
  ASSUME IInv, CountInv, KernelStep
  PROVE  CountInv'
<1>1. IsFiniteSet(inflight') /\ Owed' = Owed
  <2>1. CASE Take
    BY <2>1, TakeBatchCounts DEF Take, IInv, TypeOK, CountInv
  <2>2. CASE Release
    BY <2>2 DEF Release, ReleaseBatch, CountInv, Owed
  <2>3. ASSUME NEW q \in inflight, Complete(q) \/ Fire(q) \/ Expire(q)
        PROVE  IsFiniteSet(inflight') /\ Owed' = Owed
    BY <2>3, PostOpCounts, PostTimeoutCounts, TimerCounts
    DEF Complete, Fire, Expire, IInv, TypeOK, CountInv
  <2> QED
    BY <2>1, <2>2, <2>3 DEF KernelStep
<1>2. UNCHANGED <<pending_count, reaped>>
  BY DEF KernelStep, Take, Release, Complete, Fire, Expire, Outside
<1> QED
  BY <1>1, <1>2 DEF CountInv, PendingExact, Owed

(* Every step keeps pending_count_ equal to the completions not yet        *)
(* consumed.                                                               *)
LEMMA NextCount == IInv /\ CountInv /\ [Next]_vars => CountInv'
<1> SUFFICES ASSUME IInv, CountInv, [Next]_vars PROVE CountInv'
  OBVIOUS
<1>1. CASE Ended \/ UNCHANGED vars
  BY <1>1 DEF Ended, vars, CountInv, PendingExact
<1> QED
  BY <1>1, FiberCount, SchedulerCount, KernelCount DEF Next, IInv

-----------------------------------------------------------------------------
(* With TryPollMany alone no completion is lost.                           *)

AwaitedInv == ~waiting /\ \A f \in Fibers : AwaitedSetters(f)

(* Initially no fiber is in a call.                                        *)
LEMMA InitAwaited == Init => AwaitedInv
  BY DEF Init, SchedulerInit, PollerInit, AwaitedInv, AwaitedSetters, Scheduled

(* A fiber suspends in ring_submit only when the completions of its call   *)
(* are owed.                                                               *)
LEMMA FiberAwaited ==
  ASSUME IInv, AwaitedInv, NEW f \in Fibers, FiberStep(f)
  PROVE  AwaitedInv'
<1> USE DEF AwaitedInv
<1>1. ASSUME NEW g \in Fibers, Spawn(f, g) PROVE AwaitedInv'
  <2>1. \A h \in Fibers : Scheduled(h)' <=> Scheduled(h) \/ h = g
    BY <1>1, WakeSchedules DEF IInv, TypeOK, Ready, Spawn
  <2>2. \A h, p : Outstanding(h, p)' <=> Outstanding(h, p)
    BY <1>1, RingsUnchanged DEF Spawn, ringVars
  <2> QED
    BY <1>1, <2>1, <2>2 DEF IInv, TypeOK, SubmitterTypeOK, AwaitedSetters, HasResults,
                            Spawn, Goto, At, pollerVars
<1>2. CASE Finish(f)
  <2>1. \A h \in Fibers : Scheduled(h)' <=> Scheduled(h) /\ h # f
    BY <1>2, SuspendRemoves DEF IInv, TypeOK, Finish
  <2>2. \A h, p : Outstanding(h, p)' <=> Outstanding(h, p)
    BY <1>2, RingsUnchanged DEF Finish, ringVars
  <2> QED
    BY <1>2, <2>1, <2>2 DEF IInv, TypeOK, SubmitterTypeOK, AwaitedSetters, HasResults,
                            Finish, Goto, At, pollerVars
<1>3. ASSUME NEW k \in Calls, Begin(f, k) PROVE AwaitedInv'
  <2>1. \A h : Scheduled(h)' <=> Scheduled(h)
    BY <1>3, SchedulerUnchanged DEF Begin
  <2>2. \A h, p : Outstanding(h, p)' <=> Outstanding(h, p)
    BY <1>3, RingsUnchanged DEF Begin, ringVars
  <2> QED
    BY <1>3, <2>1, <2>2 DEF IInv, TypeOK, SubmitterTypeOK, PollerTypeOK, AwaitedSetters,
                            HasResults, Begin, Goto, At
<1>4. CASE Starve(f)
  <2>1. \A h \in Fibers : Scheduled(h)' <=> Scheduled(h)
    BY <1>4, YieldKeeps DEF IInv, TypeOK, Starve
  <2>2. \A h, p : Outstanding(h, p)' <=> Outstanding(h, p)
    BY <1>4, RingsUnchanged DEF Starve, ringVars
  <2> QED
    BY <1>4, <2>1, <2>2 DEF AwaitedSetters, HasResults, Starve, pollerVars, submitterVars
<1>5. CASE SubmitUntimed(f)
  <2>1. \A h \in Fibers : Scheduled(h)' <=> Scheduled(h) /\ h # f
    BY <1>5, SuspendRemoves DEF IInv, TypeOK, SubmitUntimed
  <2>2. OpSqe(f) \in Sqe /\ OpSqe(f).fiber = f /\ OpSqe(f).role = "op"
    BY DEF OpSqe, Sqe, Roles
  <2>3. ~Outstanding(f, "op")
    BY <1>5 DEF IInv, OwedSetters, SubmitUntimed, At
  <2>4. \A h \in Fibers, p \in Roles :
          Outstanding(h, p)' <=> Outstanding(h, p) \/ (h = f /\ p = "op")
    BY <1>5, <2>2, <2>3, SubmitOwes DEF IInv, TypeOK, SubmitUntimed, submit
  <2>5. res[f].op = "ENOCQE"
    BY <1>5 DEF IInv, FreshSetters, NotSet, SubmitUntimed, At
  <2> QED
    BY <1>5, <2>1, <2>4, <2>5 DEF IInv, TypeOK, SubmitterTypeOK, AwaitedSetters, HasResults,
                                  Roles, SubmitUntimed, Goto, At, pollerVars
<1>6. CASE SubmitOp(f)
  <2>1. \A h : Scheduled(h)' <=> Scheduled(h)
    BY <1>6, SchedulerUnchanged DEF SubmitOp
  <2>2. OpSqe(f) \in Sqe /\ OpSqe(f).fiber = f /\ OpSqe(f).role = "op"
    BY DEF OpSqe, Sqe, Roles
  <2>3. ~Outstanding(f, "op")
    BY <1>6 DEF IInv, OwedSetters, SubmitOp, At
  <2>4. \A h \in Fibers, p \in Roles :
          Outstanding(h, p)' <=> Outstanding(h, p) \/ (h = f /\ p = "op")
    BY <1>6, <2>2, <2>3, SubmitOwes DEF IInv, TypeOK, SubmitOp, submit
  <2> QED
    BY <1>6, <2>1, <2>4 DEF IInv, TypeOK, SubmitterTypeOK, AwaitedSetters, HasResults,
                            Roles, SubmitOp, Goto, At, pollerVars
<1>7. CASE SubmitTimeout(f)
  <2>1. \A h : Scheduled(h)' <=> Scheduled(h)
    BY <1>7, SchedulerUnchanged DEF SubmitTimeout
  <2>2. TimeoutSqe(f) \in Sqe /\ TimeoutSqe(f).fiber = f /\ TimeoutSqe(f).role = "timeout"
    BY DEF TimeoutSqe, Sqe, Roles
  <2>3. ~Outstanding(f, "timeout")
    BY <1>7 DEF IInv, OwedSetters, SubmitTimeout, At
  <2>4. \A h \in Fibers, p \in Roles :
          Outstanding(h, p)' <=> Outstanding(h, p) \/ (h = f /\ p = "timeout")
    BY <1>7, <2>2, <2>3, SubmitOwes DEF IInv, TypeOK, SubmitTimeout, submit
  <2> QED
    BY <1>7, <2>1, <2>4 DEF IInv, TypeOK, SubmitterTypeOK, AwaitedSetters, HasResults,
                            Roles, SubmitTimeout, Goto, At, pollerVars
<1>8. CASE VerifySubmitted(f)
  <2>1. \A h, p : Outstanding(h, p)' <=> Outstanding(h, p)
    BY <1>8, RingsUnchanged DEF VerifySubmitted, ringVars
  <2>2. CASE Suspend(f) /\ Goto(f, "await")
    <3>1. \A h \in Fibers : Scheduled(h)' <=> Scheduled(h) /\ h # f
      BY <2>2, SuspendRemoves DEF IInv, TypeOK
    <3>2. call[f] = "timed" /\ res[f].timeout = "ENOCQE"
      BY <1>8 DEF IInv, FreshSetters, VerifySubmitted, At
    <3> QED
      BY <1>8, <2>1, <2>2, <3>1, <3>2
      DEF IInv, TypeOK, SubmitterTypeOK, AwaitedSetters, HasResults, VerifySubmitted, Goto, At,
          pollerVars
  <2>3. CASE UNCHANGED <<pc, schedulerVars>>
    <3>1. \A h : Scheduled(h)' <=> Scheduled(h)
      BY <2>3, SchedulerUnchanged
    <3> QED
      BY <1>8, <2>1, <2>3, <3>1 DEF AwaitedSetters, HasResults, VerifySubmitted, pollerVars
  <2> QED
    BY <1>8, <2>2, <2>3 DEF VerifySubmitted
<1>9. CASE Return(f)
  <2>1. \A h : Scheduled(h)' <=> Scheduled(h)
    BY <1>9, SchedulerUnchanged DEF Return
  <2>2. \A h, p : Outstanding(h, p)' <=> Outstanding(h, p)
    BY <1>9, RingsUnchanged DEF Return, ringVars
  <2>3. Scheduled(f)
    BY <1>9 DEF Return, At, Scheduled
  <2> QED
    BY <1>9, <2>1, <2>2, <2>3 DEF IInv, TypeOK, SubmitterTypeOK, AwaitedSetters, HasResults,
                                  Return, Goto, At, pollerVars
<1> QED
  BY <1>1, <1>2, <1>3, <1>4, <1>5, <1>6, <1>7, <1>8, <1>9 DEF FiberStep

(* dispatch wakes the fiber whose last result it writes, and leaves the    *)
(* other result of the call owed.                                          *)
LEMMA DispatchAwaited ==
  ASSUME IInv, AwaitedInv, Dispatch
  PROVE  AwaitedInv'
<1>1. cq \in Seq(Cqe) /\ cq # <<>> /\ cq' = Tail(cq)
  BY DEF Dispatch, dispatch, IInv, TypeOK, RingTypeOK, RingStateOK
<1>2. Head(cq) \in Cqe
  BY <1>1, HeadTailProperties
<1>3. PICK f \in Fibers, p \in Roles, v \in Results :
        f = Head(cq).fiber /\ p = Head(cq).role /\ v = Head(cq).res
  BY <1>2 DEF Cqe
<1>4. PICK r : r = [res[f] EXCEPT ![p] = v]
  OBVIOUS
<1>5. /\ pc[f] \in {"getto", "await"}
      /\ p = "timeout" => pc[f] = "await" /\ call[f] = "timed"
      /\ pc[f] = "getto" => call[f] = "timed" /\ res[f].timeout = "ENOCQE" /\ p = "op"
      /\ pc[f] = "await" => ~Scheduled(f)
      /\ \A h \in Fibers, q \in Roles :
           Outstanding(h, q)' <=> Outstanding(h, q) /\ ~(h = f /\ q = p)
  BY <1>3, DispatchFinds
<1>6. /\ res' = [res EXCEPT ![f] = r]
      /\ IF ShouldWake(f, r) THEN Wake(f) ELSE UNCHANGED schedulerVars
      /\ UNCHANGED <<waiting, call, pc>>
  BY <1>3, <1>4 DEF Dispatch, dispatch, Rest, submitterVars
<1>7. r[p] # "ENOCQE" /\ \A q \in Roles \ {p} : r[q] = res[f][q]
  BY <1>3, <1>4 DEF IInv, TypeOK, PollerTypeOK, Results
<1>8. ShouldWake(f, r) => ~Scheduled(f)
  BY <1>3, <1>5, <1>7 DEF ShouldWake, Roles
<1>9. \A h \in Fibers : Scheduled(h)' <=> Scheduled(h) \/ (h = f /\ ShouldWake(f, r))
  <2>1. CASE ShouldWake(f, r)
    BY <2>1, <1>3, <1>6, <1>8, WakeSchedules DEF IInv, TypeOK
  <2>2. CASE ~ShouldWake(f, r)
    BY <2>2, <1>6, SchedulerUnchanged
  <2> QED
    BY <2>1, <2>2
<1>10. res'[f] = r /\ \A h \in Fibers \ {f} : res'[h] = res[h]
  BY <1>3, <1>6 DEF IInv, TypeOK, PollerTypeOK
<1>11. ASSUME NEW h \in Fibers PROVE AwaitedSetters(h)'
  <2>1. CASE h # f
    BY <2>1, <1>5, <1>6, <1>9, <1>10 DEF AwaitedInv, AwaitedSetters, HasResults, Roles
  <2>2. CASE h = f
    BY <2>2, <1>3, <1>5, <1>6, <1>7, <1>9, <1>10
    DEF AwaitedInv, AwaitedSetters, HasResults, ShouldWake, Roles
  <2> QED
    BY <2>1, <2>2
<1> QED
  BY <1>6, <1>11 DEF AwaitedInv

(* The steps of the scheduler other than dispatch, without TryPoll, and    *)
(* those of the kernel lose no completion.                                 *)
LEMMA OtherAwaited ==
  ASSUME IInv, AwaitedInv, "one" \notin Polls,
         Switch \/ PollMany \/ PollWaited \/ Stop \/ KernelStep \/ UNCHANGED vars
  PROVE  AwaitedInv'
<1>1. ASSUME \A h \in Fibers : Scheduled(h)' <=> Scheduled(h),
             \A h \in Fibers, p \in Roles : Outstanding(h, p)' <=> Outstanding(h, p),
             UNCHANGED <<waiting, call, res, pc>>
      PROVE  AwaitedInv'
  BY <1>1 DEF AwaitedInv, AwaitedSetters, HasResults, Roles
<1>2. CASE Switch
  BY <1>1, <1>2, ResumeKeeps, RingsUnchanged
  DEF IInv, TypeOK, Switch, Rest, ringVars, pollerVars, submitterVars
<1>3. CASE PollMany
  BY <1>1, <1>3, SchedulerUnchanged, RingsUnchanged
  DEF PollMany, TryPollMany, try_poll_many, Reap, Rest, ringVars, pollerVars, submitterVars
<1>4. CASE PollWaited
  BY <1>4 DEF PollWaited, PollReturns, AwaitedInv
<1>5. CASE Stop
  BY <1>1, <1>5, SchedulerUnchanged, RingsUnchanged DEF Stop, ringVars, pollerVars
<1>6. CASE KernelStep
  <2>1. Outside
    BY <1>6 DEF KernelStep, Take, Release, Complete, Fire, Expire
  <2> QED
    BY <1>1, <1>6, <2>1, KernelMoves, SchedulerUnchanged
    DEF IInv, TypeOK, Outside, Rest, pollerVars, submitterVars
<1>7. CASE UNCHANGED vars
  BY <1>1, <1>7, SchedulerUnchanged, RingsUnchanged DEF vars, schedulerVars
<1> QED
  BY <1>2, <1>3, <1>4, <1>5, <1>6, <1>7

(* With TryPollMany alone every step keeps each suspended fiber's          *)
(* completions owed.                                                       *)
LEMMA NextAwaited ==
  ASSUME "one" \notin Polls
  PROVE  IInv /\ AwaitedInv /\ [Next]_vars => AwaitedInv'
<1> SUFFICES ASSUME IInv, AwaitedInv, [Next]_vars PROVE AwaitedInv'
  OBVIOUS
<1>1. ~PollOne
  BY DEF PollOne, TryPoll
<1> QED
  BY <1>1, FiberAwaited, DispatchAwaited, OtherAwaited DEF Next, SchedulerStep, Ended

-----------------------------------------------------------------------------
(* The theorems.                                                           *)

(* Every variable of the composed system stays in its type.                *)
THEOREM TypeCorrect == Spec => []TypeOK
<1>1. IInv => TypeOK
  BY DEF IInv
<1> QED
  BY <1>1, Inductive, PTL

(* A completion that is owed points into the live frame of a call that     *)
(* still waits for it (the setters of submitter.cc:18, 36-37 are on the    *)
(* stack), whatever the scheduler calls, however small the ring.           *)
THEOREM FramesLive == Spec => []FrameLive
<1>1. IInv => FrameLive
  BY DEF IInv, OwedSetters, FrameLive, InCall, Roles
<1> QED
  BY <1>1, Inductive, PTL

(* No setter is owed two completions, and no entry is in two places.       *)
THEOREM CompletionsUnique == Spec => []OneCompletion
<1>1. IInv => OneCompletion
  BY DEF IInv
<1> QED
  BY <1>1, Inductive, PTL

(* No fiber is woken twice for one suspension, or woken when it is not     *)
(* suspended (check_both_set, submitter.cc:39-43).                         *)
THEOREM WokenOnce == Spec => []RunnableOnce
<1>1. IInv => RunnableOnce
  BY DEF IInv, Ready, RunnableOnce
<1> QED
  BY <1>1, Inductive, PTL

(* A fiber that comes back from Suspend has all its results and the ring   *)
(* has nothing of its call any more.                                       *)
THEOREM ResultsComplete == Spec => []AwaitedResults
<1>1. IInv => AwaitedResults
  BY DEF IInv, OwedSetters, Ready, HasResults, AwaitedResults, Roles
<1> QED
  BY <1>1, Inductive, PTL

(* The panic of submitter.cc:27-29 is never reached.                       *)
THEOREM NeverEnocqe == Spec => [](outcome # "enocqe")
<1>1. IInv => outcome # "enocqe"
  BY DEF IInv
<1> QED
  BY <1>1, Inductive, PTL

(* The count is exact in every reachable state.                            *)
LEMMA Counting == Spec => []CountInv
<1>1. Init => CountInv
  BY InitCount
<1>2. IInv /\ CountInv /\ [Next]_vars => CountInv'
  BY NextCount
<1> QED
  BY <1>1, <1>2, Inductive, PTL DEF Spec

(* pending_count_ is exact, so that it never wraps below zero and          *)
(* HasPending never misleads the scheduler.                                *)
THEOREM CountExact == Spec => []PendingExact
<1>1. CountInv => PendingExact
  BY DEF CountInv
<1> QED
  BY <1>1, Counting, PTL

(* With TryPollMany alone no reachable state has lost a completion.        *)
LEMMA Awaiting ==
  ASSUME "one" \notin Polls
  PROVE  Spec => []AwaitedInv
<1>1. Init => AwaitedInv
  BY InitAwaited
<1>2. IInv /\ AwaitedInv /\ [Next]_vars => AwaitedInv'
  BY NextAwaited
<1> QED
  BY <1>1, <1>2, Inductive, PTL DEF Spec

(* When the scheduler polls with TryPollMany, a suspended fiber is always  *)
(* owed a completion of its own call.                                      *)
THEOREM WakeupsKept ==
  ASSUME "one" \notin Polls
  PROVE  Spec => []NoLostWakeup
<1>1. IInv /\ AwaitedInv => NoLostWakeup
  BY DEF AwaitedInv, AwaitedSetters, HasResults, NoLostWakeup, Suspended, Roles
<1> QED
  BY <1>1, Inductive, Awaiting, PTL

(* With nothing pending and nothing runnable, no fiber is in a call.       *)
LEMMA NothingPending ==
  ASSUME IInv, CountInv, AwaitedInv, Stop, NEW f \in Fibers
  PROVE  pc[f] \in {"new", "done"}
<1>1. runq = <<>> /\ current = NoFiber /\ reaped = 0 /\ ~(pending_count > 0)
  BY DEF Stop, PollerIdle, HasPending, has_pending
<1>2. /\ Len(sq) \in Nat /\ Len(cq) \in Nat /\ pending_count \in Int
      /\ Cardinality(inflight) \in Nat /\ IsFiniteSet(inflight)
  BY FS_CardinalityType DEF IInv, TypeOK, RingTypeOK, RingStateOK, CountInv
<1>3. Len(sq) = 0 /\ Len(cq) = 0 /\ Cardinality(inflight) = 0
  BY <1>1, <1>2 DEF CountInv, PendingExact
<1>4. inflight = {}
  BY <1>2, <1>3, FS_EmptySet
<1>5. \A p : ~Outstanding(f, p)
  BY <1>3, <1>4 DEF Outstanding, InSq, InFlight, InCq
<1>6. ~Scheduled(f)
  BY <1>1 DEF Scheduled
<1> QED
  BY <1>5, <1>6 DEF IInv, TypeOK, SubmitterTypeOK, PCs, AwaitedInv, AwaitedSetters, HasResults

(* When the scheduler polls with TryPollMany, it stops only after every    *)
(* spawned fiber has ended: none is abandoned in a call.                   *)
THEOREM NoneAbandoned ==
  ASSUME "one" \notin Polls
  PROVE  Spec => []StopsOnlyWhenDone
<1>1. Init => StopsOnlyWhenDone
  BY DEF Init, StopsOnlyWhenDone
<1>2. IInv /\ CountInv /\ AwaitedInv /\ StopsOnlyWhenDone /\ [Next]_vars => StopsOnlyWhenDone'
  <2> SUFFICES ASSUME IInv, CountInv, AwaitedInv, StopsOnlyWhenDone, [Next]_vars
               PROVE  StopsOnlyWhenDone'
    OBVIOUS
  <2>1. CASE Stop
    BY <2>1, NothingPending DEF Stop, StopsOnlyWhenDone
  <2>2. CASE UNCHANGED <<pc, outcome>>
    BY <2>2 DEF StopsOnlyWhenDone
  <2>4. ASSUME NEW f \in Fibers, FiberStep(f)
        PROVE  StopsOnlyWhenDone'
    <3>1. Running /\ (outcome' = outcome \/ outcome' = "should submit timeout and op"
                                         \/ outcome' = Death(call[f], res[f]))
      BY <2>4 DEF FiberStep, Spawn, Finish, Begin, Starve, SubmitUntimed, SubmitOp, SubmitTimeout,
                  VerifySubmitted, Return, At, submitterVars
    <3>2. Death(call[f], res[f]) # "stopped"
      BY DEF Death
    <3> QED
      BY <3>1, <3>2 DEF Running, StopsOnlyWhenDone
  <2>5. CASE SchedulerStep /\ ~Stop
    BY <2>2, <2>5 DEF SchedulerStep, Switch, PollMany, PollOne, PollWaited, Dispatch, Rest,
                      submitterVars
  <2>6. CASE KernelStep
    BY <2>2, <2>6 DEF KernelStep, Take, Release, Complete, Fire, Expire, Outside, Rest,
                      submitterVars
  <2>7. CASE Ended \/ UNCHANGED vars
    BY <2>2, <2>7 DEF Ended, vars
  <2> QED
    BY <2>1, <2>4, <2>5, <2>6, <2>7 DEF Next
<1> QED
  BY <1>1, <1>2, Inductive, Counting, Awaiting, PTL DEF Spec

(* A completion stops being owed only by being written into its own        *)
(* setter, or when TryPoll overwrites it at its limit.                     *)
THEOREM CompletionsDelivered == Spec => DeliveredOrDropped
<1> DEFINE Kept ==
      \A f \in Fibers, p \in Roles :
        Outstanding(f, p) /\ ~Outstanding(f, p)' =>
          res'[f][p] # "ENOCQE" \/ (waiting' /\ ~waiting)
<1>1. IInv /\ [Next]_vars => Kept
  <2> SUFFICES ASSUME IInv, [Next]_vars PROVE Kept
    OBVIOUS
  <2>1. ASSUME \A f \in Fibers, p \in Roles : Outstanding(f, p) => Outstanding(f, p)'
        PROVE  Kept
    BY <2>1
  <2>2. ASSUME UNCHANGED <<sq, inflight, cq>>
        PROVE  Kept
    BY <2>2, RingsUnchanged
  <2>3. ASSUME NEW f \in Fibers, FiberStep(f)
        PROVE  Kept
    <3>1. CASE SubmitUntimed(f) \/ SubmitOp(f) \/ SubmitTimeout(f)
      <4>1. /\ OpSqe(f) \in Sqe /\ TimeoutSqe(f) \in Sqe
            /\ OpSqe(f).fiber = f /\ OpSqe(f).role = "op"
            /\ TimeoutSqe(f).fiber = f /\ TimeoutSqe(f).role = "timeout"
        BY DEF OpSqe, TimeoutSqe, Sqe, Roles
      <4>2. SubmitTimeout(f) => ~Outstanding(f, "timeout")
        BY DEF IInv, OwedSetters, SubmitTimeout, At
      <4>3. SubmitUntimed(f) \/ SubmitOp(f) => ~Outstanding(f, "op")
        BY DEF IInv, OwedSetters, SubmitUntimed, SubmitOp, At
      <4> QED
        BY <2>1, <3>1, <4>1, <4>2, <4>3, SubmitOwes
        DEF IInv, TypeOK, SubmitUntimed, SubmitOp, SubmitTimeout, submit
    <3>2. CASE UNCHANGED ringVars
      BY <2>2, <3>2 DEF ringVars
    <3> QED
      BY <2>3, <3>1, <3>2 DEF FiberStep, Spawn, Finish, Begin, Starve, VerifySubmitted, Return
  <2>4. CASE KernelStep
    BY <2>1, <2>4, KernelMoves DEF IInv, TypeOK
  <2>5. CASE Dispatch
    <3>1. cq \in Seq(Cqe) /\ cq # <<>>
      BY <2>5 DEF Dispatch, dispatch, IInv, TypeOK, RingTypeOK, RingStateOK
    <3>2. PICK f \in Fibers, p \in Roles, v \in Results :
            f = Head(cq).fiber /\ p = Head(cq).role /\ v = Head(cq).res
      <4>1. Head(cq) \in Cqe
        BY <3>1, HeadTailProperties
      <4> QED
        BY <4>1 DEF Cqe
    <3>3. \A h \in Fibers, q \in Roles :
            Outstanding(h, q)' <=> Outstanding(h, q) /\ ~(h = f /\ q = p)
      BY <2>5, <3>2, DispatchFinds
    <3>4. res' = [res EXCEPT ![f] = [res[f] EXCEPT ![p] = v]]
      BY <2>5, <3>2 DEF Dispatch, dispatch
    <3>5. res'[f][p] = v /\ v # "ENOCQE"
      BY <3>2, <3>4 DEF IInv, TypeOK, PollerTypeOK, Results
    <3> QED
      BY <3>3, <3>5
  <2>6. CASE PollOne
    BY <2>2, <2>6 DEF PollOne, TryPoll, PollerIdle, TryPollBusy, TryPollLimit, try_poll, Reap,
                      ringVars
  <2>7. CASE Switch \/ PollMany \/ PollWaited \/ Stop
    BY <2>2, <2>7 DEF Switch, PollMany, TryPollMany, try_poll_many, PollWaited, PollReturns,
                      poll, Stop, Reap, ringVars
  <2>8. CASE Ended \/ UNCHANGED vars
    BY <2>2, <2>8 DEF Ended, vars
  <2> QED
    BY <2>3, <2>4, <2>5, <2>6, <2>7, <2>8 DEF Next, SchedulerStep
<1>2. IInv /\ [Next]_vars => [Kept]_vars
  BY <1>1
<1> QED
  BY <1>2, Inductive, PTL DEF Spec, DeliveredOrDropped

(* With four entries per fiber, Ring::submit never finds the ring full.    *)
THEOREM RingSuffices ==
  ASSUME IsFiniteSet(Fibers), Entries >= 4 * Cardinality(Fibers)
  PROVE  Spec => []NeverStarved
<1> DEFINE BusyBound == busy \in Nat /\ busy <= 2 * Cardinality(Fibers)
<1>1. Cardinality(Fibers) \in Nat
  BY FS_CardinalityType
<1>2. Init => BusyBound
  BY <1>1 DEF Init, RingInit
<1>3. IInv /\ BusyBound /\ [Next]_vars => BusyBound'
  <2> SUFFICES ASSUME IInv, BusyBound, [Next]_vars PROVE BusyBound'
    OBVIOUS
  <2>1. CASE Take
    <3>1. Len(sq) <= 2 * Cardinality(Fibers) /\ Len(sq) \in Nat
      BY SqBounded DEF IInv, TypeOK, RingTypeOK, Roles
    <3>2. busy' = flushed /\ flushed \in 0 .. Len(sq)
      BY <2>1 DEF Take, TakeBatch, IInv, TypeOK, RingTypeOK
    <3> QED
      BY <1>1, <3>1, <3>2
  <2>2. CASE Release
    BY <1>1, <2>2 DEF Release, ReleaseBatch
  <2>3. CASE UNCHANGED busy
    BY <2>3
  <2>4. KernelStep => Take \/ Release \/ UNCHANGED busy
    BY DEF KernelStep, Complete, Fire, Expire, PostOp, Timer, PostTimeout
  <2>5. SchedulerStep => UNCHANGED busy
    BY DEF SchedulerStep, Switch, PollMany, TryPollMany, try_poll_many, PollOne, TryPoll,
           TryPollBusy, TryPollLimit, try_poll, PollWaited, PollReturns, poll, Dispatch,
           dispatch, Stop, Reap, ringVars
  <2>6. ASSUME NEW f \in Fibers, FiberStep(f) PROVE UNCHANGED busy
    BY <2>6 DEF FiberStep, Spawn, Finish, Begin, Starve, SubmitUntimed, SubmitOp, SubmitTimeout,
                submit, VerifySubmitted, Return, ringVars
  <2> QED
    BY <2>1, <2>2, <2>3, <2>4, <2>5, <2>6 DEF Next, Ended, vars
<1>4. IInv /\ BusyBound => NeverStarved
  <2> SUFFICES ASSUME IInv, BusyBound, NEW f \in Fibers, pc[f] \in {"getop", "getto"}
               PROVE  ~SqFull
    BY DEF NeverStarved
  <2>1. ~InSq(f, "timeout")
    BY DEF IInv, OwedSetters, Outstanding
  <2>2. Len(sq) <= 2 * Cardinality(Fibers) - 1 /\ Len(sq) \in Nat
    BY <2>1, SqBounded DEF IInv, TypeOK, RingTypeOK, Roles
  <2> QED
    BY <1>1, <2>2 DEF SqFull
<1> QED
  BY <1>2, <1>3, <1>4, Inductive, PTL DEF Spec

(* Unflushed entries are lone operations of timed calls, each of a fiber   *)
(* that is about to flush it (ring.cc:52-55).                              *)
LEMMA NextLone ==
  ASSUME IInv, LoneOps, [Next]_vars
  PROVE  LoneOps'
<1>1. sq \in Seq(Sqe) /\ flushed \in 0 .. Len(sq)
  BY DEF IInv, TypeOK, RingTypeOK
<1>2. \A i \in 1 .. Len(sq) : sq[i] \in Sqe
  BY <1>1
<1>3. CASE UNCHANGED <<sq, flushed, pc>>
  BY <1>3 DEF LoneOps
<1>4. ASSUME NEW f \in Fibers, FiberStep(f)
      PROVE  LoneOps'
  <2>1. CASE SubmitUntimed(f) \/ SubmitTimeout(f)
    <3>1. Len(sq') = Len(sq) + 1 /\ flushed' = Len(sq) + 1
      BY <1>1, <2>1 DEF SubmitUntimed, SubmitTimeout, submit, AfterFlush
    <3> QED
      BY <1>1, <3>1 DEF LoneOps
  <2>2. CASE SubmitOp(f)
    <3>1. /\ sq' = Append(sq, OpSqe(f)) /\ flushed' = flushed
          /\ OpSqe(f).fiber = f /\ OpSqe(f).role = "op"
          /\ pc' = [pc EXCEPT ![f] = "getto"]
      BY <2>2 DEF SubmitOp, submit, AfterFlush, OpSqe, Goto
    <3>2. /\ Len(sq') = Len(sq) + 1 /\ sq'[Len(sq) + 1] = OpSqe(f)
          /\ \A i \in 1 .. Len(sq) : sq'[i] = sq[i]
      BY <1>1, <3>1
    <3>3. \A h \in Fibers : pc[h] = "getto" => pc'[h] = "getto"
      BY <3>1 DEF IInv, TypeOK, SubmitterTypeOK
    <3>4. pc'[f] = "getto"
      BY <3>1 DEF IInv, TypeOK, SubmitterTypeOK
    <3> SUFFICES ASSUME NEW i \in flushed' + 1 .. Len(sq')
                 PROVE  sq'[i].role = "op" /\ pc'[sq'[i].fiber] = "getto"
      BY DEF LoneOps
    <3>5. CASE i = Len(sq) + 1
      BY <3>1, <3>2, <3>4, <3>5
    <3>6. CASE i # Len(sq) + 1
      <4>1. i \in flushed + 1 .. Len(sq) /\ i \in 1 .. Len(sq)
        BY <1>1, <3>1, <3>2, <3>6
      <4>2. sq[i].fiber \in Fibers
        BY <1>2, <4>1 DEF Sqe
      <4> QED
        BY <3>2, <3>3, <4>1, <4>2 DEF LoneOps
    <3> QED
      BY <3>5, <3>6
  <2>3. ASSUME UNCHANGED <<sq, flushed>>,
               \A h \in Fibers : pc[h] = "getto" => pc'[h] = "getto"
        PROVE  LoneOps'
    <3> SUFFICES ASSUME NEW i \in flushed + 1 .. Len(sq)
                 PROVE  sq[i].role = "op" /\ pc'[sq[i].fiber] = "getto"
      BY <2>3 DEF LoneOps
    <3>1. i \in 1 .. Len(sq)
      BY <1>1
    <3>2. sq[i].fiber \in Fibers
      BY <1>2, <3>1 DEF Sqe
    <3> QED
      BY <2>3, <3>2 DEF LoneOps
  <2>4. ASSUME NEW g \in Fibers, Spawn(f, g)
        PROVE  LoneOps'
    BY <2>3, <2>4 DEF Spawn, Goto, ringVars, IInv, TypeOK, SubmitterTypeOK
  <2>5. ASSUME NEW k \in Calls, Begin(f, k)
        PROVE  LoneOps'
    BY <2>3, <2>5 DEF Begin, At, Goto, ringVars, IInv, TypeOK, SubmitterTypeOK
  <2>6. CASE Finish(f) \/ Return(f) \/ VerifySubmitted(f)
    BY <2>3, <2>6 DEF Finish, Return, VerifySubmitted, At, Goto, ringVars, IInv, TypeOK,
                      SubmitterTypeOK
  <2>7. CASE Starve(f)
    BY <2>3, <2>7 DEF Starve, ringVars, submitterVars
  <2> QED
    BY <1>4, <2>1, <2>2, <2>4, <2>5, <2>6, <2>7 DEF FiberStep
<1>5. CASE Take
  <2>1. /\ sq' = SubSeq(sq, flushed + 1, Len(sq)) /\ flushed' = 0
        /\ UNCHANGED pc
    BY <1>5 DEF Take, TakeBatch, Outside, Rest, submitterVars
  <2>2. /\ Len(sq') = Len(sq) - flushed
        /\ \A i \in 1 .. Len(sq) - flushed : sq'[i] = sq[flushed + i]
    BY <1>1, <2>1
  <2> SUFFICES ASSUME NEW i \in 1 .. Len(sq) - flushed
               PROVE  sq'[i].role = "op" /\ pc'[sq'[i].fiber] = "getto"
    BY <1>1, <2>1, <2>2 DEF LoneOps
  <2>3. flushed + i \in flushed + 1 .. Len(sq)
    BY <1>1
  <2> QED
    BY <2>1, <2>2, <2>3 DEF LoneOps
<1>6. CASE KernelStep /\ ~Take
  <2>1. UNCHANGED <<sq, flushed, pc>>
    <3>1. CASE Release
      BY <3>1 DEF Release, ReleaseBatch, Outside, Rest, submitterVars
    <3>2. ASSUME NEW r \in inflight, Complete(r) \/ Fire(r) \/ Expire(r)
          PROVE  UNCHANGED <<sq, flushed, pc>>
      <4>1. CASE Complete(r)
        BY <4>1 DEF Complete, PostOp, Outside, Rest, submitterVars
      <4>2. CASE Fire(r)
        BY <4>2 DEF Fire, Timer, Outside, Rest, submitterVars
      <4>3. CASE Expire(r)
        BY <4>3 DEF Expire, PostTimeout, Outside, Rest, submitterVars
      <4> QED
        BY <3>2, <4>1, <4>2, <4>3
    <3> QED
      BY <1>6, <3>1, <3>2 DEF KernelStep
  <2> QED
    BY <1>3, <2>1
<1>7. CASE SchedulerStep
  BY <1>3, <1>7 DEF SchedulerStep, Switch, PollMany, TryPollMany, try_poll_many, PollOne,
                    TryPoll, TryPollBusy, TryPollLimit, try_poll, PollWaited, PollReturns,
                    poll, Dispatch, dispatch, Stop, Reap, Rest, ringVars, submitterVars
<1>8. CASE Ended \/ UNCHANGED vars
  BY <1>3, <1>8 DEF Ended, vars
<1> QED
  BY <1>4, <1>5, <1>6, <1>7, <1>8 DEF Next

(* No entry that could be shown to the kernel is left lone.                *)
LEMMA Lone == Spec => []LoneOps
<1>1. Init => LoneOps
  BY DEF Init, RingInit, LoneOps
<1>2. IInv /\ LoneOps /\ [Next]_vars => LoneOps'
  BY NextLone
<1> QED
  BY <1>1, <1>2, Inductive, PTL DEF Spec

(* An interval from 1 to n has n elements.                                 *)
LEMMA IntervalSize ==
  ASSUME NEW n \in Nat
  PROVE  IsFiniteSet(1 .. n) /\ Cardinality(1 .. n) = n
<1>1. /\ IsFiniteSet(1 .. n)
      /\ Cardinality(1 .. n) = IF 1 > n THEN 0 ELSE n - 1 + 1
  BY FS_Interval
<1> QED
  BY <1>1

(* With more entries than fibers the ring never fills up with operations   *)
(* whose fibers all wait for the entry of their timeout (ring.cc:36-55).   *)
THEOREM NeverGridlocked ==
  ASSUME IsFiniteSet(Fibers), Cardinality(Fibers) < Entries
  PROVE  Spec => []NoGridlock
<1>1. IInv /\ LoneOps => NoGridlock
  <2> SUFFICES ASSUME IInv, LoneOps, SqFull, flushed = 0, busy = 0
               PROVE  FALSE
    BY DEF NoGridlock
  <2> DEFINE owner == [i \in 1 .. Len(sq) |-> sq[i].fiber]
  <2>1. sq \in Seq(Sqe) /\ Len(sq) \in Nat /\ Cardinality(Fibers) \in Nat
    BY FS_CardinalityType DEF IInv, TypeOK, RingTypeOK
  <2>2. \A i \in 1 .. Len(sq) : sq[i].fiber \in Fibers /\ sq[i].role = "op"
    <3>1. \A i \in 1 .. Len(sq) : sq[i] \in Sqe
      BY <2>1
    <3> QED
      BY <2>1, <3>1 DEF LoneOps, Sqe
  <2>3. \A i, j \in 1 .. Len(sq) : owner[i] = owner[j] => i = j
    BY <2>2 DEF IInv, OneCompletion, UniqueInSq
  <2>4. owner \in Injection(1 .. Len(sq), Fibers)
    <3>1. owner \in [1 .. Len(sq) -> Fibers]
      BY <2>2
    <3> QED
      BY <2>3, <3>1, Fun_IsInj
  <2>5. IsFiniteSet(1 .. Len(sq)) /\ Cardinality(1 .. Len(sq)) = Len(sq)
    BY <2>1, IntervalSize
  <2>6. Cardinality(1 .. Len(sq)) <= Cardinality(Fibers)
    BY <2>4, <2>5, FS_Injection
  <2> QED
    BY <2>1, <2>5, <2>6 DEF SqFull
<1> QED
  BY <1>1, Lone, Inductive, PTL

=============================================================================
