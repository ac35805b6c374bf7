---------------------------- MODULE PromiseProofs ----------------------------
(***************************************************************************)
(* What the ring2 stack promises, for every number of fibers and every     *)
(* ring: to the callers of submitter.cc the atomic calls of FiberCalls,    *)
(* with strict answers if the ring is ample, and to the clients of the UDP *)
(* server on it the service of EchoService.                                *)
(***************************************************************************)
EXTENDS SubmitterCalls, EchoOnRing, SubmitterProofs

USE SchedulerAssumption, IoUringAssumption, RingAssumption, RingPollerAssumption

-----------------------------------------------------------------------------
(* An ample ring, of four entries per fiber: Ring::submit never waits      *)
(* (RingSuffices), so the two entries of a timed call (submitter.cc:33-52) *)
(* are pushed one after the other and flushed together.                    *)

(* The entries of a step that leaves the queue alone stay paired.          *)
LEMMA QuietPairs ==
  ASSUME PairsInSq, UNCHANGED <<sq, flushed, call>>
  PROVE  PairsInSq'
  BY DEF PairsInSq

(* A new call (submitter.cc:16-18) has no entry in the queue.              *)
LEMMA BeginPairs ==
  ASSUME IInv, PairsInSq, NEW f \in Fibers, NEW k \in Calls, Begin(f, k)
  PROVE  PairsInSq'
<1>1. /\ sq \in Seq(Sqe) /\ UNCHANGED <<sq, flushed>>
      /\ call' = [call EXCEPT ![f] = k] /\ call \in [Fibers -> Calls]
  BY DEF IInv, TypeOK, RingTypeOK, PollerTypeOK, Begin, ringVars
<1>2. ASSUME NEW i \in 1 .. Len(sq) PROVE call'[sq[i].fiber] = call[sq[i].fiber]
  <2>1. sq[i] \in Sqe
    BY <1>1
  <2>2. sq[i].fiber \in Fibers /\ Outstanding(sq[i].fiber, sq[i].role)
        /\ sq[i].role \in Roles
    BY <2>1 DEF Sqe, Outstanding, InSq
  <2>3. sq[i].fiber # f
    BY <2>2 DEF IInv, OwedSetters, Roles, Begin, At
  <2> QED
    BY <1>1, <2>2, <2>3
<1> QED
  BY <1>1, <1>2 DEF PairsInSq

(* Between two entries only the kernel runs: when another fiber obtains an *)
(* entry, the last one in the queue is complete.                           *)
LEMMA LastUnlinked ==
  ASSUME IInv, SqPaired, LoneOps, NEW f \in Fibers, current = f, pc[f] = "getop",
         NEW i \in 1 .. Len(sq)
  PROVE  i = Len(sq) => ~sq[i].link
<1> SUFFICES ASSUME i = Len(sq), sq[i].link PROVE FALSE
  OBVIOUS
<1>1. sq \in Seq(Sqe) /\ flushed \in 0 .. Len(sq) /\ Len(sq) \in Nat /\ sq[i] \in Sqe
  BY DEF IInv, TypeOK, RingTypeOK
<1>2. i \in flushed + 1 .. Len(sq)
  BY <1>1 DEF SqPaired, PairsInSq
<1>3. pc[sq[i].fiber] = "getto" /\ sq[i].fiber \in Fibers
  BY <1>1, <1>2 DEF LoneOps, Sqe
<1> QED
  BY <1>3 DEF SqPaired, BetweenEntries

(* An operation appended to the queue stands behind complete pairs.        *)
LEMMA SubmitOpPairs ==
  ASSUME IInv, SqPaired, LoneOps, NEW f \in Fibers, SubmitUntimed(f) \/ SubmitOp(f)
  PROVE  PairsInSq'
<1>1. /\ sq \in Seq(Sqe) /\ flushed \in 0 .. Len(sq) /\ Len(sq) \in Nat
      /\ current = f /\ pc[f] = "getop" /\ UNCHANGED call
      /\ sq' = Append(sq, OpSqe(f))
      /\ flushed' = IF SubmitOp(f) THEN flushed ELSE Len(sq) + 1
  BY DEF IInv, TypeOK, RingTypeOK, SubmitUntimed, SubmitOp, submit, AfterFlush, At, pollerVars
<1>2. /\ Len(sq') = Len(sq) + 1 /\ sq'[Len(sq) + 1] = OpSqe(f)
      /\ \A i \in 1 .. Len(sq) : sq'[i] = sq[i]
  BY <1>1
<1>3. OpSqe(f).fiber = f /\ OpSqe(f).role = "op" /\ (OpSqe(f).link <=> call[f] = "timed")
  BY DEF OpSqe
<1>4. SubmitOp(f) <=> call[f] = "timed"
  BY DEF SubmitUntimed, SubmitOp
<1>0. UNCHANGED call
  BY <1>1
<1> SUFFICES ASSUME NEW i \in 1 .. Len(sq')
             PROVE  /\ sq'[i].link <=> sq'[i].role = "op" /\ call[sq'[i].fiber] = "timed"
                    /\ sq'[i].role = "timeout" =>
                         i > 1 /\ sq'[i - 1].role = "op" /\ sq'[i - 1].fiber = sq'[i].fiber
                    /\ sq'[i].link /\ i < Len(sq') =>
                         sq'[i + 1].role = "timeout" /\ sq'[i + 1].fiber = sq'[i].fiber
                    /\ sq'[i].link => i # flushed'
  BY <1>0 DEF PairsInSq
<1>5. CASE i = Len(sq) + 1
  BY <1>1, <1>2, <1>3, <1>4, <1>5
<1>6. CASE i \in 1 .. Len(sq)
  <2>1. /\ sq[i].link <=> sq[i].role = "op" /\ call[sq[i].fiber] = "timed"
        /\ sq[i].role = "timeout" =>
             i > 1 /\ sq[i - 1].role = "op" /\ sq[i - 1].fiber = sq[i].fiber
        /\ sq[i].link /\ i < Len(sq) =>
             sq[i + 1].role = "timeout" /\ sq[i + 1].fiber = sq[i].fiber
        /\ sq[i].link => i # flushed
    BY <1>6 DEF SqPaired, PairsInSq
  <2>2. sq[i].link => i < Len(sq)
    BY <1>1, <1>6, LastUnlinked
  <2>3. sq[i].link => i # flushed'
    BY <1>1, <1>6, <2>1
  <2>4. sq'[i] = sq[i]
    BY <1>2, <1>6
  <2>5. i > 1 => sq'[i - 1] = sq[i - 1]
    BY <1>1, <1>2, <1>6
  <2>6. i < Len(sq) => sq'[i + 1] = sq[i + 1]
    BY <1>1, <1>2, <1>6
  <2> QED
    BY <2>1, <2>2, <2>3, <2>4, <2>5, <2>6
<1> QED
  BY <1>1, <1>2, <1>5, <1>6

(* The link timeout stands right behind its operation                      *)
(* (submitter.cc:45-57).                                                   *)
LEMMA SubmitTimeoutPairs ==
  ASSUME IInv, SqPaired, LoneOps, NEW f \in Fibers, SubmitTimeout(f)
  PROVE  PairsInSq' /\ flushed' >= 2
<1>1. /\ sq \in Seq(Sqe) /\ flushed \in 0 .. Len(sq) /\ Len(sq) \in Nat
      /\ current = f /\ pc[f] = "getto" /\ UNCHANGED call
      /\ sq' = Append(sq, TimeoutSqe(f)) /\ flushed' = Len(sq) + 1
  BY DEF IInv, TypeOK, RingTypeOK, SubmitTimeout, submit, AfterFlush, At, pollerVars
<1>2. /\ Len(sq') = Len(sq) + 1 /\ sq'[Len(sq) + 1] = TimeoutSqe(f)
      /\ \A i \in 1 .. Len(sq) : sq'[i] = sq[i]
  BY <1>1
<1>3. TimeoutSqe(f).fiber = f /\ TimeoutSqe(f).role = "timeout" /\ TimeoutSqe(f).link = FALSE
  BY DEF TimeoutSqe
<1>4. /\ flushed < Len(sq) /\ sq[Len(sq)].fiber = f /\ sq[Len(sq)].role = "op"
      /\ Len(sq) \in 1 .. Len(sq)
  BY <1>1 DEF SqPaired, BetweenEntries
<1>5. ASSUME NEW i \in 1 .. Len(sq')
      PROVE  /\ sq'[i].link <=> sq'[i].role = "op" /\ call[sq'[i].fiber] = "timed"
             /\ sq'[i].role = "timeout" =>
                  i > 1 /\ sq'[i - 1].role = "op" /\ sq'[i - 1].fiber = sq'[i].fiber
             /\ sq'[i].link /\ i < Len(sq') =>
                  sq'[i + 1].role = "timeout" /\ sq'[i + 1].fiber = sq'[i].fiber
             /\ sq'[i].link => i # flushed'
  <2>1. CASE i = Len(sq) + 1
    <3>1. i > 1 /\ i - 1 = Len(sq) /\ sq'[i - 1] = sq[Len(sq)] /\ sq'[i] = TimeoutSqe(f)
      BY <1>1, <1>2, <1>4, <2>1
    <3> QED
      BY <1>3, <1>4, <3>1
  <2>2. CASE i \in 1 .. Len(sq)
    <3>1. /\ sq[i].link <=> sq[i].role = "op" /\ call[sq[i].fiber] = "timed"
          /\ sq[i].role = "timeout" =>
               i > 1 /\ sq[i - 1].role = "op" /\ sq[i - 1].fiber = sq[i].fiber
          /\ sq[i].link /\ i < Len(sq) =>
               sq[i + 1].role = "timeout" /\ sq[i + 1].fiber = sq[i].fiber
      BY <2>2 DEF SqPaired, PairsInSq
    <3>2. i # flushed'
      BY <1>1, <2>2
    <3>3. sq'[i] = sq[i]
      BY <1>2, <2>2
    <3>4. i > 1 => sq'[i - 1] = sq[i - 1]
      BY <1>1, <1>2, <2>2
    <3>5. i < Len(sq) => sq'[i + 1] = sq[i + 1]
      BY <1>1, <1>2, <2>2
    <3>6. i = Len(sq) => sq'[i + 1] = TimeoutSqe(f) /\ sq[i].fiber = f
      BY <1>2, <1>4
    <3>7. i < Len(sq) \/ i = Len(sq)
      BY <1>1, <2>2
    <3> QED
      BY <1>3, <3>1, <3>2, <3>3, <3>4, <3>5, <3>6, <3>7
  <2>3. i = Len(sq) + 1 \/ i \in 1 .. Len(sq)
    BY <1>1, <1>2
  <2> QED
    BY <2>1, <2>2, <2>3
<1> QED
  BY <1>1, <1>4, <1>5 DEF PairsInSq

(* A batch takes whole pairs.                                              *)
LEMMA TakePairs ==
  ASSUME IInv, SqPaired, TakeBatch, UNCHANGED call
  PROVE  PairsInSq'
<1>1. /\ sq \in Seq(Sqe) /\ flushed \in 1 .. Len(sq) /\ Len(sq) \in Nat
      /\ sq' = SubSeq(sq, flushed + 1, Len(sq)) /\ flushed' = 0
  BY DEF IInv, TypeOK, RingTypeOK, TakeBatch
<1>2. /\ Len(sq') = Len(sq) - flushed
      /\ \A i \in 1 .. Len(sq) - flushed : sq'[i] = sq[i + flushed]
  BY <1>1
<1> SUFFICES ASSUME NEW i \in 1 .. Len(sq')
             PROVE  /\ sq'[i].link <=> sq'[i].role = "op" /\ call[sq'[i].fiber] = "timed"
                    /\ sq'[i].role = "timeout" =>
                         i > 1 /\ sq'[i - 1].role = "op" /\ sq'[i - 1].fiber = sq'[i].fiber
                    /\ sq'[i].link /\ i < Len(sq') =>
                         sq'[i + 1].role = "timeout" /\ sq'[i + 1].fiber = sq'[i].fiber
                    /\ sq'[i].link => i # flushed'
  BY <1>1 DEF PairsInSq
<1>3. PICK j \in 1 .. Len(sq) : j = i + flushed
  BY <1>1, <1>2
<1>4. /\ sq[j].link <=> sq[j].role = "op" /\ call[sq[j].fiber] = "timed"
      /\ sq[j].role = "timeout" =>
           j > 1 /\ sq[j - 1].role = "op" /\ sq[j - 1].fiber = sq[j].fiber
      /\ sq[j].link /\ j < Len(sq) =>
           sq[j + 1].role = "timeout" /\ sq[j + 1].fiber = sq[j].fiber
  BY DEF SqPaired, PairsInSq
<1>5. sq'[i] = sq[j] /\ i # flushed'
  BY <1>1, <1>2, <1>3
<1>6. i < Len(sq') => j < Len(sq) /\ sq'[i + 1] = sq[j + 1]
  BY <1>1, <1>2, <1>3
<1>7. i > 1 => sq'[i - 1] = sq[j - 1]
  BY <1>1, <1>2, <1>3
<1>8. ASSUME i = 1, sq[j].role = "timeout" PROVE FALSE
  <2>1. /\ flushed \in 1 .. Len(sq) /\ flushed = j - 1
        /\ sq[flushed].role = "op" /\ sq[flushed].fiber = sq[j].fiber
    BY <1>1, <1>3, <1>4, <1>8
  <2>2. sq[j] \in Sqe
    BY <1>1
  <2>3. call[sq[j].fiber] = "timed"
    BY <1>8, <2>2 DEF IInv, OwedSetters, Outstanding, InSq, Sqe
  <2> QED
    BY <2>1, <2>3 DEF SqPaired, PairsInSq
<1>9. i = 1 \/ i > 1
  BY <1>1, <1>2
<1> QED
  BY <1>4, <1>5, <1>6, <1>7, <1>8, <1>9

(* What the kernel leaves alone unless it takes a batch.                   *)
LEMMA KernelQuiet ==
  ASSUME KernelStep
  PROVE  /\ UNCHANGED <<current, call, res, pc, ret, outcome>>
         /\ Take \/ UNCHANGED <<sq, flushed>>
         /\ Take \/ busy' = busy \/ busy' = 0
<1>1. CASE Take
  BY <1>1 DEF Take, Outside, Rest, schedulerVars, pollerVars, submitterVars
<1>2. CASE Release
  BY <1>2 DEF Release, ReleaseBatch, Outside, Rest, schedulerVars, pollerVars, submitterVars
<1>3. ASSUME NEW r \in inflight, Complete(r) \/ Fire(r) \/ Expire(r)
      PROVE  UNCHANGED <<current, call, res, pc, ret, outcome, sq, flushed, busy>>
  <2>1. CASE Complete(r)
    BY <2>1 DEF Complete, PostOp, Outside, Rest, schedulerVars, pollerVars, submitterVars
  <2>2. CASE Fire(r)
    BY <2>2 DEF Fire, Timer, Outside, Rest, schedulerVars, pollerVars, submitterVars
  <2>3. CASE Expire(r)
    BY <2>3 DEF Expire, PostTimeout, Outside, Rest, schedulerVars, pollerVars, submitterVars
  <2> QED
    BY <1>3, <2>1, <2>2, <2>3
<1> QED
  BY <1>1, <1>2, <1>3 DEF KernelStep

(* What the scheduler and its poller leave alone.                          *)
LEMMA SchedulerQuiet ==
  ASSUME SchedulerStep
  PROVE  /\ UNCHANGED <<sq, flushed, busy, inflight, call, pc, ret>>
         /\ current' = current \/ current = NoFiber
         /\ outcome' = outcome \/ outcome' = "stopped"
<1>1. CASE Switch
  BY <1>1 DEF Switch, Resume, Rest, ringVars, pollerVars, submitterVars
<1>2. CASE PollMany
  BY <1>2 DEF PollMany, TryPollMany, try_poll_many, Reap, Rest, ringVars, schedulerVars,
              pollerVars, submitterVars
<1>3. CASE PollOne
  BY <1>3 DEF PollOne, TryPoll, TryPollBusy, TryPollLimit, try_poll, Reap, Rest, ringVars,
              schedulerVars, submitterVars
<1>4. CASE PollWaited
  BY <1>4 DEF PollWaited, PollReturns, poll, Reap, Rest, ringVars, schedulerVars, submitterVars
<1>5. CASE Dispatch
  BY <1>5 DEF Dispatch, dispatch, Wake, Rest, schedulerVars, submitterVars
<1>6. CASE Stop
  BY <1>6 DEF Stop, ringVars, schedulerVars, pollerVars
<1> QED
  BY <1>1, <1>2, <1>3, <1>4, <1>5, <1>6 DEF SchedulerStep

(* A step of fiber f is one of its submissions, the start of a call, or    *)
(* leaves the rings and the calls alone.                                   *)
LEMMA FiberQuiet ==
  ASSUME NEW f \in Fibers, FiberStep(f)
  PROVE  /\ current = f
         /\ \/ SubmitUntimed(f) \/ SubmitOp(f) \/ SubmitTimeout(f)
            \/ \E k \in Calls : Begin(f, k)
            \/ UNCHANGED <<sq, flushed, busy, inflight, cq, call, res>>
  BY DEF FiberStep, Spawn, Finish, Begin, Starve, SubmitUntimed, SubmitOp, SubmitTimeout,
         VerifySubmitted, Return, At, ringVars, pollerVars

(* A fiber that has obtained its first entry runs on until it has verified *)
(* what it submitted (submitter.cc:45-58).                                 *)
LEMMA FiberBetween ==
  ASSUME IInv, NeverStarved, SqPaired, LoneOps, NEW f \in Fibers, FiberStep(f),
         NEW g \in Fibers
  PROVE  BetweenEntries(g)'
<1>1. current = f
  BY FiberQuiet
<1>2. pc \in [Fibers -> PCs] /\ sq \in Seq(Sqe) /\ flushed \in 0 .. Len(sq) /\ Len(sq) \in Nat
  BY DEF IInv, TypeOK, SubmitterTypeOK, RingTypeOK
<1>3. CASE g # f
  <2>1. pc[g] \notin {"getto", "check"}
    BY <1>1, <1>3 DEF IInv, FreshSetters, SqPaired, BetweenEntries
  <2>2. pc'[g] = pc[g] \/ pc'[g] = "ready"
    BY <1>2, <1>3 DEF FiberStep, Spawn, Finish, Begin, Starve, SubmitUntimed, SubmitOp,
                      SubmitTimeout, VerifySubmitted, Return, Goto, submitterVars
  <2> QED
    BY <2>1, <2>2 DEF BetweenEntries
<1>4. CASE g = f
  <2>1. CASE SubmitOp(f)
    <3>1. /\ sq' = Append(sq, OpSqe(f)) /\ flushed' = flushed /\ current' = f
          /\ pc'[f] = "getto" /\ OpSqe(f).fiber = f /\ OpSqe(f).role = "op"
      BY <1>1, <1>2, <2>1 DEF SubmitOp, submit, AfterFlush, Goto, OpSqe, schedulerVars
    <3>2. Len(sq') = Len(sq) + 1 /\ sq'[Len(sq')] = OpSqe(f)
      BY <1>2, <3>1
    <3>3. flushed' < Len(sq')
      BY <1>2, <3>1, <3>2
    <3> QED
      BY <1>4, <3>1, <3>2, <3>3 DEF BetweenEntries
  <2>2. CASE SubmitTimeout(f)
    <3>1. flushed' >= 2 /\ pc'[f] = "check"
      BY <1>2, <2>2, SubmitTimeoutPairs DEF SubmitTimeout, Goto
    <3> QED
      BY <1>4, <3>1 DEF BetweenEntries
  <2>3. CASE Starve(f)
    BY <2>3 DEF Starve, At, NeverStarved
  <2>4. CASE UNCHANGED <<pc, current, sq, flushed, busy>>
    BY <2>4 DEF BetweenEntries, SqPaired
  <2>5. CASE pc'[f] \in {"ready", "done", "getop", "await"}
    BY <1>4, <2>5 DEF BetweenEntries
  <2>6. ASSUME NEW h \in Fibers, Spawn(f, h) PROVE pc'[f] = "ready"
    BY <1>2, <2>6 DEF Spawn, At, Goto
  <2>7. Finish(f) => pc'[f] = "done"
    BY <1>2 DEF Finish, Goto
  <2>8. ASSUME NEW k \in Calls, Begin(f, k) PROVE pc'[f] = "getop"
    BY <1>2, <2>8 DEF Begin, Goto
  <2>9. SubmitUntimed(f) => pc'[f] = "await"
    BY <1>2 DEF SubmitUntimed, Goto
  <2>10. VerifySubmitted(f) => pc'[f] = "await" \/ UNCHANGED <<pc, current, sq, flushed, busy>>
    BY <1>2 DEF VerifySubmitted, Goto, ringVars, schedulerVars
  <2>11. Return(f) => pc'[f] = "ready" \/ UNCHANGED <<pc, current, sq, flushed, busy>>
    BY <1>2 DEF Return, Goto, ringVars, schedulerVars
  <2> QED
    BY <2>1, <2>2, <2>3, <2>4, <2>5, <2>6, <2>7, <2>8, <2>9, <2>10, <2>11 DEF FiberStep
<1> QED
  BY <1>3, <1>4

(* The kernel takes the entries of a fiber that has shown both with the    *)
(* rest, and not the operation of one that has not.                        *)
LEMMA TakeBetween ==
  ASSUME IInv, SqPaired, Take, NEW g \in Fibers
  PROVE  BetweenEntries(g)'
<1>1. /\ sq \in Seq(Sqe) /\ flushed \in 1 .. Len(sq) /\ Len(sq) \in Nat
      /\ sq' = SubSeq(sq, flushed + 1, Len(sq)) /\ flushed' = 0 /\ busy' = flushed
  BY DEF IInv, TypeOK, RingTypeOK, Take, TakeBatch
<1>2. UNCHANGED <<pc, current>>
  BY DEF Take, Outside, Rest, schedulerVars, submitterVars
<1>3. CASE pc[g] = "getto"
  <2>1. current = g /\ flushed < Len(sq) /\ sq[Len(sq)].fiber = g /\ sq[Len(sq)].role = "op"
    BY <1>3 DEF SqPaired, BetweenEntries
  <2>2. /\ Len(sq') = Len(sq) - flushed /\ Len(sq') \in 1 .. Len(sq) - flushed
        /\ \A i \in 1 .. Len(sq) - flushed : sq'[i] = sq[i + flushed]
    BY <1>1, <2>1
  <2>3. Len(sq') + flushed = Len(sq) /\ flushed' < Len(sq')
    BY <1>1, <2>2
  <2>4. sq'[Len(sq')] = sq[Len(sq)]
    BY <2>2, <2>3
  <2> QED
    BY <1>2, <1>3, <2>1, <2>3, <2>4 DEF BetweenEntries
<1>4. CASE pc[g] = "check"
  <2>1. busy' # 1 /\ flushed' = 0
    BY <1>1, <1>4 DEF SqPaired, BetweenEntries
  <2> QED
    BY <1>2, <1>4, <2>1 DEF BetweenEntries
<1> QED
  BY <1>2, <1>3, <1>4 DEF BetweenEntries

(* In a ring in which no fiber waits for an entry, the pairs stay together *)
(* (ring.cc:36-55, submitter.cc:45-58).                                    *)
LEMMA NextSqPaired ==
  ASSUME IInv, NeverStarved, LoneOps, SqPaired, [Next]_vars
  PROVE  SqPaired'
<1>1. ASSUME NEW f \in Fibers, FiberStep(f)
      PROVE  SqPaired'
  <2>1. PairsInSq'
    BY <1>1, FiberQuiet, BeginPairs, SubmitOpPairs, SubmitTimeoutPairs, QuietPairs DEF SqPaired
  <2> QED
    BY <1>1, <2>1, FiberBetween DEF SqPaired
<1>2. CASE SchedulerStep
  <2>1. UNCHANGED <<sq, flushed, busy, call, pc>> /\ (current' = current \/ current = NoFiber)
    BY <1>2, SchedulerQuiet
  <2>2. PairsInSq'
    BY <2>1, QuietPairs DEF SqPaired
  <2>3. ASSUME NEW g \in Fibers PROVE BetweenEntries(g)'
    <3>1. BetweenEntries(g)
      BY DEF SqPaired
    <3>2. pc[g] = "getto" => current' = g
      BY <2>1, <3>1, SchedulerAssumption DEF BetweenEntries
    <3> QED
      BY <2>1, <3>1, <3>2 DEF BetweenEntries
  <2> QED
    BY <2>2, <2>3 DEF SqPaired
<1>3. CASE Take
  <2>1. PairsInSq'
    BY <1>3, TakePairs DEF Take, Outside, pollerVars
  <2> QED
    BY <1>3, <2>1, TakeBetween DEF SqPaired
<1>4. CASE KernelStep /\ ~Take
  <2>1. UNCHANGED <<sq, flushed, call, pc, current>> /\ (busy' = busy \/ busy' = 0)
    BY <1>4, KernelQuiet
  <2> QED
    BY <2>1, QuietPairs DEF SqPaired, BetweenEntries
<1>5. CASE Ended \/ UNCHANGED vars
  BY <1>5, QuietPairs DEF Ended, vars, SqPaired, BetweenEntries
<1> QED
  BY <1>1, <1>2, <1>3, <1>4, <1>5 DEF Next

-----------------------------------------------------------------------------
(* The kernel holds the two requests of a timed call as a pair: the timer  *)
(* guards its operation (IOSQE_IO_LINK, submitter.cc:41).                  *)

(* A request is the operation or the timeout of a fiber.                   *)
LEMMA RequestRoles ==
  ASSUME RingTypeOK, NEW r \in inflight
  PROVE  r \in Request /\ r.fiber \in Fibers /\ r.role \in {"op", "timeout"}
  BY DEF RingTypeOK, Request, Roles

(* A new call (submitter.cc:16-18) has no request in the kernel.           *)
LEMMA BeginFlight ==
  ASSUME IInv, FlightPaired, NEW f \in Fibers, NEW k \in Calls, Begin(f, k)
  PROVE  FlightPaired'
<1>1. /\ UNCHANGED inflight
      /\ call' = [call EXCEPT ![f] = k] /\ call \in [Fibers -> Calls]
  BY DEF IInv, TypeOK, PollerTypeOK, Begin, ringVars
<1>2. ASSUME NEW r \in inflight PROVE call'[r.fiber] = call[r.fiber]
  <2>1. r.fiber \in Fibers /\ r.role \in Roles
    BY RequestRoles DEF IInv, TypeOK, Roles
  <2>2. Outstanding(r.fiber, r.role)
    BY DEF Outstanding, InFlight
  <2>3. r.fiber # f
    BY <2>1, <2>2 DEF IInv, OwedSetters, Roles, Begin, At
  <2> QED
    BY <1>1, <2>1, <2>3
<1> QED
  BY <1>1, <1>2 DEF FlightPaired, Paired, InState

(* A batch of whole pairs: an operation starts at once, and a timeout is   *)
(* armed for the operation of its own call.                                *)
LEMMA TakenPaired ==
  ASSUME IInv, SqPaired, TakeBatch, NEW i \in 1 .. flushed
  PROVE  /\ RequestOf(i) \in inflight'
         /\ RequestOf(i).fiber = sq[i].fiber /\ RequestOf(i).role = sq[i].role
         /\ RequestOf(i).role = "op" =>
              RequestOf(i).st = "active" /\ RequestOf(i).after = NoFiber
         /\ RequestOf(i).role = "timeout" =>
              /\ RequestOf(i).st = "armed" /\ RequestOf(i).after = sq[i].fiber
              /\ i - 1 \in 1 .. flushed /\ sq[i - 1].role = "op" /\ sq[i - 1].fiber = sq[i].fiber
         /\ sq[i].role = "op" /\ call[sq[i].fiber] = "timed" =>
              /\ i + 1 \in 1 .. flushed
              /\ sq[i + 1].role = "timeout" /\ sq[i + 1].fiber = sq[i].fiber
<1>1. /\ sq \in Seq(Sqe) /\ flushed \in 1 .. Len(sq) /\ Len(sq) \in Nat /\ i \in 1 .. Len(sq)
      /\ RequestOf(i) \in inflight' /\ sq[i] \in Sqe
  BY DEF IInv, TypeOK, RingTypeOK, TakeBatch
<1>2. PairsInSq
  BY DEF SqPaired
<1>3. RequestOf(i).fiber = sq[i].fiber /\ RequestOf(i).role = sq[i].role
  BY DEF RequestOf
<1>4. sq[i].role \in {"op", "timeout"}
  BY <1>1 DEF Sqe, Roles
<1>5. CASE sq[i].role = "op"
  <2>1. ~(i > 1 /\ sq[i - 1].link)
    <3> SUFFICES ASSUME i > 1, sq[i - 1].link PROVE FALSE
      OBVIOUS
    <3>1. i - 1 \in 1 .. Len(sq) /\ i - 1 < Len(sq) /\ (i - 1) + 1 = i
      BY <1>1
    <3>2. sq[(i - 1) + 1].role = "timeout"
      BY <1>2, <3>1 DEF PairsInSq
    <3> QED
      BY <1>5, <3>1, <3>2
  <2>2. RequestOf(i).st = "active" /\ RequestOf(i).after = NoFiber
    BY <1>5, <2>1 DEF RequestOf
  <2>3. ASSUME call[sq[i].fiber] = "timed"
        PROVE  /\ i + 1 \in 1 .. flushed
               /\ sq[i + 1].role = "timeout" /\ sq[i + 1].fiber = sq[i].fiber
    <3>1. sq[i].link /\ i # flushed
      BY <1>1, <1>2, <1>5, <2>3 DEF PairsInSq
    <3>2. i < Len(sq) /\ i + 1 \in 1 .. flushed
      BY <1>1, <3>1
    <3> QED
      BY <1>1, <1>2, <3>1, <3>2 DEF PairsInSq
  <2> QED
    BY <1>1, <1>3, <1>5, <2>2, <2>3
<1>6. CASE sq[i].role = "timeout"
  <2>1. i > 1 /\ sq[i - 1].role = "op" /\ sq[i - 1].fiber = sq[i].fiber
    BY <1>1, <1>2, <1>6 DEF PairsInSq
  <2>2. i - 1 \in 1 .. flushed /\ i - 1 \in 1 .. Len(sq)
    BY <1>1, <2>1
  <2>3. call[sq[i].fiber] = "timed"
    BY <1>1, <1>6 DEF IInv, OwedSetters, Outstanding, InSq, Sqe
  <2>4. sq[i - 1].link
    BY <1>2, <2>1, <2>2, <2>3 DEF PairsInSq
  <2>5. RequestOf(i).st = "armed" /\ RequestOf(i).after = sq[i].fiber
    BY <1>6, <2>1, <2>4 DEF RequestOf
  <2> QED
    BY <1>1, <1>3, <1>6, <2>1, <2>2, <2>5
<1> QED
  BY <1>4, <1>5, <1>6

(* A batch keeps the requests in the kernel paired.                        *)
LEMMA TakeFlight ==
  ASSUME IInv, SqPaired, FlightPaired, TakeBatch, UNCHANGED call
  PROVE  FlightPaired'
<1>1. inflight' = inflight \cup {RequestOf(i) : i \in 1 .. flushed}
  BY DEF TakeBatch
<1>2. ASSUME NEW r \in inflight PROVE Paired(r)'
  BY <1>1 DEF FlightPaired, Paired, InState
<1>3. ASSUME NEW q \in {RequestOf(i) : i \in 1 .. flushed} PROVE Paired(q)'
  <2>0. PICK i \in 1 .. flushed : q = RequestOf(i)
    BY <1>3
  <2>1. /\ q.fiber = sq[i].fiber /\ q.role = sq[i].role /\ q.role \in {"op", "timeout"}
        /\ q.role = "op" => q.st = "active" /\ q.after = NoFiber
        /\ q.role = "timeout" => q.st = "armed" /\ q.after = q.fiber
    <3>1. sq[i] \in Sqe
      BY DEF IInv, TypeOK, RingTypeOK
    <3> QED
      BY <2>0, <3>1, TakenPaired DEF Sqe, Roles
  <2>2. q.role = "timeout" => InState(q.fiber, "op", {"active"})'
    <3> SUFFICES ASSUME q.role = "timeout"
                 PROVE  \E x \in inflight' :
                          x.fiber = q.fiber /\ x.role = "op" /\ x.st \in {"active"}
      BY DEF InState
    <3>1. PICK j \in 1 .. flushed : sq[j].role = "op" /\ sq[j].fiber = sq[i].fiber
      BY <2>0, TakenPaired
    <3>2. /\ RequestOf(j) \in inflight' /\ RequestOf(j).fiber = sq[j].fiber
          /\ RequestOf(j).role = "op" /\ RequestOf(j).st = "active"
      BY <3>1, TakenPaired
    <3> QED
      BY <2>1, <3>1, <3>2
  <2>3. q.role = "op" /\ call[q.fiber] = "timed" => InState(q.fiber, "timeout", {"armed"})'
    <3> SUFFICES ASSUME q.role = "op", call[q.fiber] = "timed"
                 PROVE  \E x \in inflight' :
                          x.fiber = q.fiber /\ x.role = "timeout" /\ x.st \in {"armed"}
      BY DEF InState
    <3>1. PICK j \in 1 .. flushed : sq[j].role = "timeout" /\ sq[j].fiber = sq[i].fiber
      BY <2>0, <2>1, TakenPaired
    <3>2. /\ RequestOf(j) \in inflight' /\ RequestOf(j).fiber = sq[j].fiber
          /\ RequestOf(j).role = "timeout" /\ RequestOf(j).st = "armed"
      BY <3>1, TakenPaired
    <3> QED
      BY <2>1, <3>1, <3>2
  <2> QED
    BY <2>1, <2>2, <2>3 DEF Paired
<1>4. \A r \in inflight' : Paired(r)'
  BY <1>1, <1>2, <1>3
<1> QED
  BY <1>4 DEF FlightPaired, Paired

(* An operation and a timer that guards its own call leave the kernel      *)
(* together with the pairing (the kernel completes an operation).          *)
LEMMA PostOpFlight ==
  ASSUME IInv, FlightPaired, NEW r \in inflight, NEW v \in Results, PostOp(r, v), UNCHANGED call
  PROVE  /\ FlightPaired'
         /\ \A x \in inflight' :
              \/ x \in inflight
              \/ x.fiber = r.fiber /\ x.role = "timeout" /\ x.st = "disarmed"
         /\ \A x \in inflight' : x.st = "disarmed" =>
              InState(x.fiber, "timeout", {"armed", "disarmed"})
<1> DEFINE After(q) == AfterOp(q, r.fiber, v)
<1>1. /\ r.role = "op" /\ r \in Request /\ r.fiber \in Fibers
      /\ inflight' = {After(q) : q \in inflight \ {r}}
  BY RequestRoles DEF PostOp, IInv, TypeOK
<1>2. ASSUME NEW q \in inflight \ {r}
      PROVE  /\ q.role \in {"op", "timeout"} /\ q.fiber \in Fibers
             /\ q.after # r.fiber => After(q) = q
             /\ q.after = r.fiber =>
                  /\ q.role = "timeout" /\ q.st = "armed" /\ q.fiber = r.fiber
                  /\ After(q).fiber = q.fiber /\ After(q).role = "timeout"
                  /\ After(q).st = "disarmed" /\ After(q).after = NoFiber
  <2>1. q \in Request /\ q.role \in {"op", "timeout"} /\ q.fiber \in Fibers /\ Paired(q)
    BY RequestRoles DEF IInv, TypeOK, FlightPaired
  <2>2. q.after # r.fiber => After(q) = q
    BY DEF AfterOp
  <2>3. q.after = r.fiber => q.role = "timeout" /\ q.st = "armed" /\ q.fiber = r.fiber
    BY <1>1, <2>1, SchedulerAssumption DEF Paired
  <2>4. q.role = "timeout" /\ q.after = r.fiber =>
          /\ After(q).fiber = q.fiber /\ After(q).role = "timeout"
          /\ After(q).st = "disarmed" /\ After(q).after = NoFiber
    BY <2>1 DEF AfterOp, Request
  <2> QED
    BY <2>1, <2>2, <2>3, <2>4
<1>3. \A q \in inflight \ {r} : After(q) \in inflight'
  BY <1>1
<1>4. \A x \in inflight' : \E q \in inflight \ {r} : x = After(q)
  BY <1>1
<1> HIDE DEF After
<1>5. \A q \in inflight : q.role = "op" /\ q.fiber = r.fiber => q = r
  BY <1>1 DEF IInv, OneCompletion, UniqueInFlight
<1>6. ASSUME NEW x \in inflight' PROVE Paired(x)'
  <2>1. PICK q \in inflight \ {r} : x = After(q)
    BY <1>4
  <2>2. CASE q.after = r.fiber
    BY <1>2, <2>1, <2>2 DEF Paired
  <2>3. CASE q.after # r.fiber
    <3>1. x = q /\ Paired(q)
      BY <1>2, <2>1, <2>3 DEF FlightPaired
    <3>2. q.st = "armed" => InState(q.fiber, "op", {"active"})'
      <4> SUFFICES ASSUME q.st = "armed" PROVE InState(q.fiber, "op", {"active"})'
        OBVIOUS
      <4>1. q.fiber # r.fiber
        BY <1>2, <2>3, <3>1 DEF Paired
      <4>2. PICK y \in inflight : y.fiber = q.fiber /\ y.role = "op" /\ y.st = "active"
        BY <3>1 DEF Paired, InState
      <4>3. y \in inflight \ {r} /\ y.after # r.fiber
        BY <1>2, <4>1, <4>2
      <4>4. y \in inflight'
        BY <1>2, <1>3, <4>3
      <4> QED
        BY <4>2, <4>4 DEF InState
    <3>3. q.st = "active" /\ call[q.fiber] = "timed" => InState(q.fiber, "timeout", {"armed"})'
      <4> SUFFICES ASSUME q.st = "active", call[q.fiber] = "timed"
                   PROVE  InState(q.fiber, "timeout", {"armed"})'
        OBVIOUS
      <4>1. q.role = "op"
        BY <1>2, <3>1 DEF Paired
      <4>2. q.fiber # r.fiber
        BY <1>5, <4>1
      <4>3. PICK y \in inflight : y.fiber = q.fiber /\ y.role = "timeout" /\ y.st = "armed"
        BY <3>1 DEF Paired, InState
      <4>4. y \in inflight \ {r} /\ y.after # r.fiber
        BY <1>1, <1>2, <4>2, <4>3
      <4>5. y \in inflight'
        BY <1>2, <1>3, <4>4
      <4> QED
        BY <4>3, <4>5 DEF InState
    <3> QED
      BY <3>1, <3>2, <3>3 DEF Paired
  <2> QED
    BY <2>2, <2>3
<1>7. FlightPaired'
  BY <1>6 DEF FlightPaired
<1>8. ASSUME NEW x \in inflight'
      PROVE  /\ \/ x \in inflight
                \/ x.fiber = r.fiber /\ x.role = "timeout" /\ x.st = "disarmed"
             /\ x.st = "disarmed" => InState(x.fiber, "timeout", {"armed", "disarmed"})
  <2>1. PICK q \in inflight \ {r} : x = After(q)
    BY <1>4
  <2>2. CASE q.after = r.fiber
    BY <1>2, <2>1, <2>2 DEF InState
  <2>3. CASE q.after # r.fiber
    <3>1. x = q /\ Paired(q) /\ q.role \in {"op", "timeout"}
      BY <1>2, <2>1, <2>3 DEF FlightPaired
    <3> QED
      BY <3>1 DEF InState, Paired
  <2> QED
    BY <2>2, <2>3
<1> QED
  BY <1>7, <1>8

(* A timer that fires concerns its own call only.                          *)
LEMMA TimerFlight ==
  ASSUME IInv, FlightPaired, NEW t \in inflight, NEW r \in inflight, NEW wins \in BOOLEAN,
         Timer(t, r, wins), UNCHANGED call
  PROVE  /\ FlightPaired'
         /\ t.role = "timeout" /\ r.fiber = t.fiber
         /\ \A x \in inflight' :
              \/ x \in inflight \ {t, r}
              \/ x.fiber = t.fiber /\ x.role = "timeout" /\ x.st = IF wins THEN "expired" ELSE "lost"
              \/ x.fiber = t.fiber /\ x.role = "op" /\ x.st = IF wins THEN "cancelled" ELSE "finishing"
<1>1. /\ t \in Request /\ t.role \in {"op", "timeout"} /\ t.st = "armed" /\ Paired(t)
      /\ r \in Request /\ r.role = "op" /\ r.st = "active" /\ Paired(r) /\ r.fiber = t.after
  BY RequestRoles DEF IInv, TypeOK, FlightPaired, Timer
<1>2. t.role = "timeout" /\ r.fiber = t.fiber /\ r.after = NoFiber
  BY <1>1 DEF Paired
<1>3. PICK t2 : t2 = [t EXCEPT !.after = NoFiber, !.st = IF wins THEN "expired" ELSE "lost"]
  OBVIOUS
<1>4. PICK r2 : r2 = [r EXCEPT !.st = IF wins THEN "cancelled" ELSE "finishing"]
  OBVIOUS
<1>5. /\ t2.fiber = t.fiber /\ t2.role = "timeout" /\ t2.after = NoFiber
      /\ t2.st = IF wins THEN "expired" ELSE "lost"
  BY <1>1, <1>2, <1>3 DEF Request
<1>6. /\ r2.fiber = t.fiber /\ r2.role = "op" /\ r2.after = NoFiber
      /\ r2.st = IF wins THEN "cancelled" ELSE "finishing"
  BY <1>1, <1>2, <1>4 DEF Request
<1>7. inflight' = (inflight \ {t, r}) \cup {t2, r2}
  BY <1>3, <1>4 DEF Timer
<1>8. ASSUME NEW q \in inflight \ {t, r}
      PROVE  /\ q.role \in {"op", "timeout"}
             /\ q.role = "op" => q.fiber # t.fiber
             /\ q.role = "timeout" => q.fiber # t.fiber
  BY <1>1, <1>2, RequestRoles DEF IInv, TypeOK, OneCompletion, UniqueInFlight
<1>9. ASSUME NEW q \in inflight \ {t, r} PROVE Paired(q)'
  <2>1. Paired(q) /\ q.fiber # t.fiber
    BY <1>8 DEF FlightPaired
  <2>2. \A p, S : InState(q.fiber, p, S) => InState(q.fiber, p, S)'
    <3> SUFFICES ASSUME NEW p, NEW S, InState(q.fiber, p, S) PROVE InState(q.fiber, p, S)'
      OBVIOUS
    <3>1. PICK y \in inflight : y.fiber = q.fiber /\ y.role = p /\ y.st \in S
      BY DEF InState
    <3>2. y \in inflight'
      BY <1>2, <1>7, <2>1, <3>1
    <3> QED
      BY <3>1, <3>2 DEF InState
  <2> QED
    BY <2>1, <2>2 DEF Paired
<1>10. Paired(t2)' /\ Paired(r2)'
  BY <1>5, <1>6 DEF Paired
<1>11. FlightPaired'
  BY <1>7, <1>9, <1>10 DEF FlightPaired
<1> QED
  BY <1>2, <1>5, <1>6, <1>7, <1>11

(* A timeout that completes guards nothing any more.                       *)
LEMMA PostTimeoutFlight ==
  ASSUME IInv, FlightPaired, NEW t \in inflight, NEW v \in Results, PostTimeout(t, v),
         UNCHANGED call
  PROVE  FlightPaired'
<1>1. inflight' = inflight \ {t} /\ t.role = "timeout" /\ t.st # "armed"
  BY DEF PostTimeout, TimeoutResults
<1>2. \A f : /\ InState(f, "op", {"active"}) => InState(f, "op", {"active"})'
             /\ InState(f, "timeout", {"armed"}) => InState(f, "timeout", {"armed"})'
  BY <1>1 DEF InState
<1> QED
  BY <1>1, <1>2 DEF FlightPaired, Paired

(* Every step keeps the requests in the kernel paired.                     *)
LEMMA NextFlightPaired ==
  ASSUME IInv, SqPaired, FlightPaired, [Next]_vars
  PROVE  FlightPaired'
<1>1. CASE UNCHANGED <<inflight, call>>
  BY <1>1 DEF FlightPaired, Paired, InState
<1>2. ASSUME NEW f \in Fibers, FiberStep(f) PROVE FlightPaired'
  <2>1. SubmitUntimed(f) \/ SubmitOp(f) \/ SubmitTimeout(f) => UNCHANGED <<inflight, call>>
    BY DEF SubmitUntimed, SubmitOp, SubmitTimeout, submit, pollerVars
  <2> QED
    BY <1>1, <1>2, <2>1, FiberQuiet, BeginFlight
<1>3. CASE SchedulerStep
  BY <1>1, <1>3, SchedulerQuiet
<1>4. CASE KernelStep
  <2>1. UNCHANGED call
    BY <1>4, KernelQuiet
  <2>2. CASE Take
    BY <2>1, <2>2, TakeFlight DEF Take
  <2>3. CASE Release
    BY <1>1, <2>1, <2>3 DEF Release, ReleaseBatch
  <2>4. ASSUME NEW r \in inflight, Complete(r) PROVE FlightPaired'
    BY <2>1, <2>4, PostOpFlight DEF Complete
  <2>5. ASSUME NEW t \in inflight, Fire(t) PROVE FlightPaired'
    BY <2>1, <2>5, TimerFlight DEF Fire
  <2>6. ASSUME NEW t \in inflight, Expire(t) PROVE FlightPaired'
    BY <2>1, <2>6, PostTimeoutFlight DEF Expire
  <2> QED
    BY <1>4, <2>2, <2>3, <2>4, <2>5, <2>6 DEF KernelStep
<1>5. CASE Ended \/ UNCHANGED vars
  BY <1>1, <1>5 DEF Ended, vars
<1> QED
  BY <1>2, <1>3, <1>4, <1>5 DEF Next

-----------------------------------------------------------------------------
(* The result of an operation agrees with what its timer reports, in the   *)
(* setters, in the completion queue and in the kernel.                     *)

(* What an operation reports of itself is not a cancellation, and a timer  *)
(* that fires too late reports that it found nothing to cancel, or that it *)
(* was cancelled (the codes submitter.cc:66-69 expects).                   *)
PlainErrors ==
  /\ "ECANCELED" \notin OpErrors
  /\ LostTimer \subseteq {"ENOENT", "ECANCELED"}

(* A step that adds no entry, request or report to a call keeps its        *)
(* verdict.                                                                *)
LEMMA VerdictShrinks ==
  ASSUME NEW f \in Fibers, Verdict(f), call'[f] = call[f],
         \A p \in Roles : InSq(f, p)' => InSq(f, p),
         \A p \in Roles : \A S : InState(f, p, S)' => InState(f, p, S),
         \A p \in Roles : \A V : "ENOCQE" \notin V => (Reported(f, p, V)' => Reported(f, p, V))
  PROVE  Verdict(f)'
<1>1. "op" \in Roles /\ "timeout" \in Roles
  BY DEF Roles
<1>2. \A V : V \subseteq Results => "ENOCQE" \notin V
  BY IoUringAssumption DEF Results
<1>3. /\ {"ETIME"} \subseteq Results /\ {"ok"} \subseteq Results /\ {"ECANCELED"} \subseteq Results
      /\ {"ECANCELED"} \cup LostTimer \subseteq Results
  BY DEF Results
<1>4. \A p \in Roles : \A V : V \subseteq Results => (Reported(f, p, V)' => Reported(f, p, V))
  BY <1>2
<1>5. /\ Reported(f, "timeout", {"ETIME"})' => Reported(f, "timeout", {"ETIME"})
      /\ Reported(f, "op", {"ok"})' => Reported(f, "op", {"ok"})
      /\ Reported(f, "op", {"ECANCELED"})' => Reported(f, "op", {"ECANCELED"})
      /\ Reported(f, "timeout", {"ECANCELED"} \cup LostTimer)' =>
           Reported(f, "timeout", {"ECANCELED"} \cup LostTimer)
      /\ Reported(f, "op", Results \ ({"ok", "ECANCELED"} \cup OpErrors))' =>
           Reported(f, "op", Results \ ({"ok", "ECANCELED"} \cup OpErrors))
      /\ Reported(f, "timeout", Results \ ({"ETIME", "ECANCELED"} \cup LostTimer))' =>
           Reported(f, "timeout", Results \ ({"ETIME", "ECANCELED"} \cup LostTimer))
  BY <1>1, <1>3, <1>4
<1>6. /\ InState(f, "timeout", {"expired"})' => InState(f, "timeout", {"expired"})
      /\ InState(f, "op", {"active", "finishing"})' => InState(f, "op", {"active", "finishing"})
      /\ InState(f, "op", {"cancelled"})' => InState(f, "op", {"cancelled"})
      /\ InState(f, "timeout", {"armed", "lost", "disarmed"})' =>
           InState(f, "timeout", {"armed", "lost", "disarmed"})
      /\ InSq(f, "op")' => InSq(f, "op")
      /\ InSq(f, "timeout")' => InSq(f, "timeout")
  BY <1>1
<1> QED
  BY <1>5, <1>6 DEF Verdict

(* A completion posted is one more report.                                 *)
LEMMA PostReports ==
  ASSUME RingTypeOK, NEW c \in Cqe, cq' = Append(cq, c), UNCHANGED res
  PROVE  \A f, p, V : Reported(f, p, V)' <=>
           Reported(f, p, V) \/ (f = c.fiber /\ p = c.role /\ c.res \in V)
<1>1. /\ cq \in Seq(Cqe) /\ Len(cq) \in Nat /\ Len(cq') = Len(cq) + 1
      /\ cq'[Len(cq) + 1] = c
      /\ \A i \in 1 .. Len(cq) : cq'[i] = cq[i]
  BY DEF RingTypeOK
<1>2. 1 .. Len(cq') = 1 .. Len(cq) \cup {Len(cq) + 1}
  BY <1>1
<1> QED
  BY <1>1, <1>2 DEF Reported

(* A completion consumed is reported no more than before, whether dispatch *)
(* stores it (poller.cc:10-18) or TryPoll overwrites it.                   *)
LEMMA ConsumeReports ==
  ASSUME IInv, cq # <<>>, cq' = Tail(cq),
         \/ UNCHANGED res
         \/ res' = [res EXCEPT ![Head(cq).fiber] =
                      [res[Head(cq).fiber] EXCEPT ![Head(cq).role] = Head(cq).res]]
  PROVE  \A f \in Fibers, p \in Roles : \A V : Reported(f, p, V)' => Reported(f, p, V)
<1>1. /\ cq \in Seq(Cqe) /\ Len(cq) \in Nat /\ Len(cq') = Len(cq) - 1 /\ 1 \in 1 .. Len(cq)
      /\ \A i \in 1 .. Len(cq') : cq'[i] = cq[i + 1] /\ i + 1 \in 1 .. Len(cq)
      /\ Head(cq) = cq[1]
  BY DEF IInv, TypeOK, RingTypeOK
<1>2. cq[1].fiber \in Fibers /\ cq[1].role \in Roles
  <2>1. cq[1] \in Cqe
    BY <1>1
  <2> QED
    BY <2>1 DEF Cqe
<1> SUFFICES ASSUME NEW f \in Fibers, NEW p \in Roles, NEW V, Reported(f, p, V)'
             PROVE  Reported(f, p, V)
  OBVIOUS
<1>3. CASE \E i \in 1 .. Len(cq') : cq'[i].fiber = f /\ cq'[i].role = p /\ cq'[i].res \in V
  BY <1>1, <1>3 DEF Reported
<1>4. CASE res'[f][p] \in V
  <2>1. res'[f][p] = res[f][p] \/ (f = cq[1].fiber /\ p = cq[1].role /\ res'[f][p] = cq[1].res)
    <3>1. res \in [Fibers -> [Roles -> Results \cup {"ENOCQE"}]]
      BY DEF IInv, TypeOK, PollerTypeOK
    <3> QED
      BY <1>1, <1>2, <3>1
  <2> QED
    BY <1>1, <1>4, <2>1 DEF Reported
<1> QED
  BY <1>3, <1>4 DEF Reported

(* An entry that is not completed has reported nothing.                    *)
LEMMA NothingReported ==
  ASSUME IInv, NEW f \in Fibers, NEW p \in Roles, InSq(f, p) \/ InFlight(f, p),
         NEW V, "ENOCQE" \notin V
  PROVE  ~Reported(f, p, V)
<1>1. ~InCq(f, p)
  BY DEF IInv, OneCompletion, InOnePlace
<1>2. res[f][p] = "ENOCQE"
  BY DEF IInv, OwedSetters, Outstanding, Roles
<1> QED
  BY <1>1, <1>2 DEF Reported, InCq

(* A fiber at the start of its call has reported nothing either.           *)
LEMMA FreshUnreported ==
  ASSUME IInv, NEW f \in Fibers, NEW p \in Roles, res[f][p] = "ENOCQE", ~Outstanding(f, p),
         NEW V, "ENOCQE" \notin V
  PROVE  ~Reported(f, p, V)
  BY DEF Reported, Outstanding, InCq

(* The sets of results a verdict asks about hold no -ENOCQE.               *)
LEMMA VerdictSets ==
  /\ "op" \in Roles /\ "timeout" \in Roles
  /\ "ENOCQE" \notin {"ETIME"} /\ "ENOCQE" \notin {"ok"} /\ "ENOCQE" \notin {"ECANCELED"}
  /\ "ENOCQE" \notin {"ECANCELED"} \cup LostTimer
  /\ "ENOCQE" \notin Results
  BY IoUringAssumption DEF Roles, Results

(* A call of which the kernel holds nothing and has reported nothing       *)
(* contradicts no verdict.                                                 *)
LEMMA SilentVerdict ==
  ASSUME NEW f \in Fibers,
         \A p, S : ~InState(f, p, S)',
         \A p \in Roles : \A V : "ENOCQE" \notin V => ~Reported(f, p, V)'
  PROVE  Verdict(f)'
<1>1. "ENOCQE" \notin Results \ ({"ok", "ECANCELED"} \cup OpErrors)
      /\ "ENOCQE" \notin Results \ ({"ETIME", "ECANCELED"} \cup LostTimer)
  BY VerdictSets
<1>2. /\ ~Reported(f, "timeout", {"ETIME"})' /\ ~Reported(f, "op", {"ECANCELED"})'
      /\ ~Reported(f, "op", Results \ ({"ok", "ECANCELED"} \cup OpErrors))'
      /\ ~Reported(f, "timeout", Results \ ({"ETIME", "ECANCELED"} \cup LostTimer))'
  BY <1>1, VerdictSets
<1>3. ~InState(f, "timeout", {"expired"})' /\ ~InState(f, "op", {"cancelled"})'
  OBVIOUS
<1> QED
  BY <1>2, <1>3 DEF Verdict

(* What the kernel does not touch stays reported as it was.                *)
LEMMA SameReports ==
  ASSUME UNCHANGED <<inflight, cq, res>>
  PROVE  /\ \A f, p, S : InState(f, p, S)' <=> InState(f, p, S)
         /\ \A f, p, V : Reported(f, p, V)' <=> Reported(f, p, V)
  BY DEF InState, Reported

(* A new call (submitter.cc:16-18) starts without a verdict.               *)
LEMMA BeginVerdict ==
  ASSUME IInv, NEW f \in Fibers, NEW k \in Calls, Begin(f, k),
         NEW g \in Fibers, Verdict(g)
  PROVE  Verdict(g)'
<1>1. /\ UNCHANGED <<sq, inflight, cq>>
      /\ call' = [call EXCEPT ![f] = k] /\ call \in [Fibers -> Calls]
      /\ res' = [res EXCEPT ![f] = NotSet] /\ res \in [Fibers -> [Roles -> Results \cup {"ENOCQE"}]]
      /\ pc[f] = "ready"
  BY DEF IInv, TypeOK, PollerTypeOK, Begin, At, ringVars
<1>2. CASE g # f
  <2>1. call'[g] = call[g] /\ res'[g] = res[g]
    BY <1>1, <1>2
  <2>2. /\ \A p : InSq(g, p)' <=> InSq(g, p)
        /\ \A p, S : InState(g, p, S)' <=> InState(g, p, S)
        /\ \A p, V : Reported(g, p, V)' <=> Reported(g, p, V)
    BY <1>1, <2>1 DEF InSq, InState, Reported
  <2> QED
    BY <2>1, <2>2, VerdictShrinks
<1>3. CASE g = f
  <2>1. \A p \in Roles : ~Outstanding(f, p)
    BY <1>1 DEF IInv, OwedSetters, Roles
  <2>2. \A p, S : ~InState(f, p, S)'
    <3>1. \A r \in inflight : r.fiber # f
      BY <2>1, RequestRoles DEF IInv, TypeOK, Outstanding, InFlight, Roles
    <3> QED
      BY <1>1, <3>1 DEF InState
  <2>3. \A p \in Roles : res'[f][p] = "ENOCQE" /\ ~InCq(f, p)
    BY <1>1, <2>1 DEF Outstanding, NotSet, Roles
  <2>4. \A p \in Roles : \A V : "ENOCQE" \notin V => ~Reported(f, p, V)'
    BY <1>1, <2>3 DEF Reported, InCq
  <2> QED
    BY <1>3, <2>2, <2>4, SilentVerdict
<1> QED
  BY <1>2, <1>3

(* An entry is obtained for a setter before anything of its call is        *)
(* reported (submitter.cc:20-22, 45-57).                                   *)
LEMMA SubmitVerdict ==
  ASSUME IInv, SqPaired, NEW f \in Fibers, SubmitUntimed(f) \/ SubmitOp(f) \/ SubmitTimeout(f),
         NEW g \in Fibers, Verdict(g)
  PROVE  Verdict(g)'
<1>1. /\ UNCHANGED <<inflight, cq, call, res>> /\ sq \in Seq(Sqe) /\ current = f
      /\ \E s \in {OpSqe(f), TimeoutSqe(f)} : sq' = Append(sq, s)
      /\ pc[f] \in {"getop", "getto"}
  BY DEF IInv, TypeOK, RingTypeOK, SubmitUntimed, SubmitOp, SubmitTimeout, submit, At, pollerVars
<1>2. PICK s \in {OpSqe(f), TimeoutSqe(f)} : sq' = Append(sq, s)
  BY <1>1
<1>3. s.fiber = f
  BY DEF OpSqe, TimeoutSqe
<1>4. CASE g # f
  <2>1. \A p : InSq(g, p)' => InSq(g, p)
    BY <1>1, <1>2, <1>3, <1>4 DEF InSq
  <2> QED
    BY <1>1, <2>1, SameReports, VerdictShrinks
<1>5. CASE g = f
  <2>1. ASSUME NEW p \in Roles, NEW V, "ENOCQE" \notin V
        PROVE  ~Reported(f, p, V) /\ ~InFlight(f, p)
    <3>1. CASE pc[f] = "getop"
      <4>1. ~Outstanding(f, p) /\ res[f][p] = "ENOCQE"
        BY <3>1 DEF IInv, OwedSetters, FreshSetters, NotSet, Roles
      <4> QED
        BY <2>1, <4>1, FreshUnreported DEF Outstanding
    <3>2. CASE pc[f] = "getto" /\ p = "op"
      <4>1. InSq(f, "op")
        <5>1. Len(sq) \in 1 .. Len(sq) /\ sq[Len(sq)].fiber = f /\ sq[Len(sq)].role = "op"
          BY <3>2 DEF SqPaired, BetweenEntries, IInv, TypeOK, RingTypeOK
        <5> QED
          BY <5>1 DEF InSq
      <4> QED
        BY <2>1, <3>2, <4>1, NothingReported DEF IInv, OneCompletion, InOnePlace
    <3>3. CASE pc[f] = "getto" /\ p = "timeout"
      <4>1. ~Outstanding(f, p) /\ res[f][p] = "ENOCQE"
        BY <3>3 DEF IInv, OwedSetters, FreshSetters
      <4> QED
        BY <2>1, <4>1, FreshUnreported DEF Outstanding
    <3> QED
      BY <1>1, <3>1, <3>2, <3>3 DEF Roles
  <2>2. \A p, S : ~InState(f, p, S)'
    <3>1. \A p \in Roles : ~InFlight(f, p)
      BY <2>1, VerdictSets
    <3>2. \A r \in inflight : r.fiber # f
      BY <3>1, RequestRoles DEF IInv, TypeOK, InFlight, Roles
    <3> QED
      BY <1>1, <3>2 DEF InState
  <2> QED
    BY <1>1, <1>5, <2>1, <2>2, SameReports, SilentVerdict
<1> QED
  BY <1>4, <1>5

(* The kernel takes an operation and its timeout together.                 *)
LEMMA TakeVerdict ==
  ASSUME IInv, SqPaired, FlightPaired, TakeBatch, UNCHANGED <<call, res>>,
         NEW g \in Fibers, Verdict(g)
  PROVE  Verdict(g)'
<1>1. /\ sq \in Seq(Sqe) /\ flushed \in 1 .. Len(sq) /\ Len(sq) \in Nat
      /\ sq' = SubSeq(sq, flushed + 1, Len(sq))
      /\ inflight' = inflight \cup {RequestOf(i) : i \in 1 .. flushed} /\ UNCHANGED cq
  BY DEF IInv, TypeOK, RingTypeOK, TakeBatch
<1>2. \A p : InSq(g, p)' => InSq(g, p)
  BY <1>1 DEF InSq
<1>3. \A p, V : Reported(g, p, V)' <=> Reported(g, p, V)
  BY <1>1 DEF Reported
<1>4. ASSUME NEW p, NEW S, InState(g, p, S)'
      PROVE  \/ InState(g, p, S)
             \/ InSq(g, p) /\ p = "op" /\ "active" \in S
             \/ InSq(g, p) /\ p = "timeout" /\ "armed" \in S
  <2>1. PICK x \in inflight' : x.fiber = g /\ x.role = p /\ x.st \in S
    BY <1>4 DEF InState
  <2>2. CASE x \in inflight
    BY <2>1, <2>2 DEF InState
  <2>3. CASE x \notin inflight
    <3>1. PICK i \in 1 .. flushed : x = RequestOf(i)
      BY <1>1, <2>3
    <3>2. /\ sq[i].fiber = g /\ sq[i].role = p
          /\ p = "op" => x.st = "active"
          /\ p = "timeout" => x.st = "armed"
      BY <2>1, <3>1, TakenPaired
    <3>3. i \in 1 .. Len(sq) /\ sq[i] \in Sqe
      BY <1>1
    <3>4. p \in {"op", "timeout"}
      BY <3>2, <3>3 DEF Sqe, Roles
    <3> QED
      BY <2>1, <3>2, <3>3, <3>4 DEF InSq
  <2> QED
    BY <2>2, <2>3
<1>5. /\ InState(g, "timeout", {"expired"})' => InState(g, "timeout", {"expired"})
      /\ InState(g, "op", {"cancelled"})' => InState(g, "op", {"cancelled"})
      /\ InState(g, "op", {"active", "finishing"})' =>
           InState(g, "op", {"active", "finishing"}) \/ InSq(g, "op")
      /\ InState(g, "timeout", {"armed", "lost", "disarmed"})' =>
           InState(g, "timeout", {"armed", "lost", "disarmed"}) \/ InSq(g, "timeout")
  BY <1>4
<1> QED
  BY <1>2, <1>3, <1>5 DEF Verdict

(* The result of an operation agrees with what its timer did.              *)
LEMMA PostOpVerdict ==
  ASSUME IInv, PlainErrors, FlightPaired, NEW r \in inflight, NEW v \in Results, PostOp(r, v),
         UNCHANGED <<call, res>>, NEW g \in Fibers, Verdict(g)
  PROVE  Verdict(g)'
<1>1. /\ r.role = "op" /\ r.fiber \in Fibers /\ v \in OpResults(r.st)
      /\ cq' = Append(cq, [fiber |-> r.fiber, role |-> "op", res |-> v])
      /\ UNCHANGED sq
  BY RequestRoles DEF PostOp, IInv, TypeOK
<1>2. \A x \in inflight' :
        /\ x \in inflight \/ (x.fiber = r.fiber /\ x.role = "timeout" /\ x.st = "disarmed")
        /\ x.st = "disarmed" => InState(x.fiber, "timeout", {"armed", "disarmed"})
  BY PostOpFlight
<1>3. \A f, p, V : Reported(f, p, V)' <=>
        Reported(f, p, V) \/ (f = r.fiber /\ p = "op" /\ v \in V)
  <2>1. [fiber |-> r.fiber, role |-> "op", res |-> v] \in Cqe
    BY <1>1 DEF Cqe, Roles
  <2> QED
    BY <1>1, <2>1, PostReports DEF IInv, TypeOK
<1>4. \A p : InSq(g, p)' <=> InSq(g, p)
  BY <1>1 DEF InSq
<1>5. CASE g # r.fiber
  <2>1. \A p, S : InState(g, p, S)' => InState(g, p, S)
    BY <1>2, <1>5 DEF InState
  <2> QED
    BY <1>3, <1>4, <1>5, <2>1, VerdictShrinks
<1>6. CASE g = r.fiber
  <2>1. /\ InState(g, "timeout", {"expired"})' => InState(g, "timeout", {"expired"})
        /\ InState(g, "op", {"cancelled"})' => InState(g, "op", {"cancelled"})
        /\ InState(g, "op", {"active", "finishing"})' => InState(g, "op", {"active", "finishing"})
    BY <1>2 DEF InState
  <2>2. InState(g, "timeout", {"armed", "lost", "disarmed"})' =>
          InState(g, "timeout", {"armed", "lost", "disarmed"})
    <3> SUFFICES ASSUME InState(g, "timeout", {"armed", "lost", "disarmed"})'
                 PROVE  InState(g, "timeout", {"armed", "lost", "disarmed"})
      OBVIOUS
    <3>1. PICK x \in inflight' : /\ x.fiber = g /\ x.role = "timeout"
                                 /\ x.st \in {"armed", "lost", "disarmed"}
      BY DEF InState
    <3> QED
      BY <1>2, <3>1 DEF InState
  <2>3. v \in {"ok", "ECANCELED"} \cup OpErrors
    BY <1>1 DEF OpResults
  <2>4. v = "ok" => InState(g, "op", {"active", "finishing"})
    <3>1. v = "ok" => r.st \in {"active", "finishing"}
      BY <1>1, IoUringAssumption DEF OpResults
    <3> QED
      BY <1>1, <1>6, <3>1 DEF InState
  <2>5. v = "ECANCELED" => InState(g, "op", {"cancelled"})
    <3>1. v = "ECANCELED" => r.st = "cancelled"
      BY <1>1 DEF OpResults, PlainErrors
    <3> QED
      BY <1>1, <1>6, <3>1 DEF InState
  <2>6. /\ Reported(g, "op", {"ok"})' => Reported(g, "op", {"ok"}) \/ v = "ok"
        /\ Reported(g, "op", {"ECANCELED"})' => Reported(g, "op", {"ECANCELED"}) \/ v = "ECANCELED"
        /\ Reported(g, "op", Results \ ({"ok", "ECANCELED"} \cup OpErrors))' =>
             Reported(g, "op", Results \ ({"ok", "ECANCELED"} \cup OpErrors))
    BY <1>3, <2>3
  <2>7. \A V : Reported(g, "timeout", V)' <=> Reported(g, "timeout", V)
    BY <1>3
  <2> QED
    BY <1>4, <2>1, <2>2, <2>4, <2>5, <2>6, <2>7 DEF Verdict
<1> QED
  BY <1>5, <1>6

(* A timer that fires decides for both requests of its call.               *)
LEMMA TimerVerdict ==
  ASSUME IInv, FlightPaired, NEW t \in inflight, NEW r \in inflight, NEW wins \in BOOLEAN,
         Timer(t, r, wins), UNCHANGED <<call, res>>, NEW g \in Fibers, Verdict(g)
  PROVE  Verdict(g)'
<1>1. /\ t.role = "timeout" /\ r.fiber = t.fiber /\ r.role = "op" /\ t.fiber \in Fibers
      /\ UNCHANGED <<sq, cq>>
  <2>1. t.role = "timeout" /\ r.fiber = t.fiber
    BY TimerFlight
  <2>2. r.role = "op" /\ UNCHANGED <<sq, cq>>
    BY DEF Timer
  <2>3. t.fiber \in Fibers
    BY RequestRoles DEF IInv, TypeOK
  <2> QED
    BY <2>1, <2>2, <2>3
<1>2. \A x \in inflight' :
        \/ x \in inflight \ {t, r}
        \/ x.fiber = t.fiber /\ x.role = "timeout" /\ x.st = IF wins THEN "expired" ELSE "lost"
        \/ x.fiber = t.fiber /\ x.role = "op" /\ x.st = IF wins THEN "cancelled" ELSE "finishing"
  BY TimerFlight
<1>3. /\ \A p : InSq(g, p)' <=> InSq(g, p)
      /\ \A p, V : Reported(g, p, V)' <=> Reported(g, p, V)
  BY <1>1 DEF InSq, Reported
<1>4. CASE g # t.fiber
  <2>1. \A p, S : InState(g, p, S)' => InState(g, p, S)
    BY <1>2, <1>4 DEF InState
  <2> QED
    BY <1>3, <2>1, VerdictShrinks
<1>5. CASE g = t.fiber
  <2>1. InFlight(g, "op") /\ InFlight(g, "timeout")
    BY <1>1, <1>5 DEF InFlight
  <2>2. ~InSq(g, "op") /\ ~InSq(g, "timeout")
    BY <2>1, VerdictSets DEF IInv, OneCompletion, InOnePlace
  <2>3. \A p \in Roles : \A V : "ENOCQE" \notin V => ~Reported(g, p, V)
    BY <2>1, NothingReported DEF Roles
  <2>4. call[g] = "timed"
    BY <2>1 DEF IInv, OwedSetters, Outstanding
  <2>5. ASSUME NEW x \in inflight', x.fiber = g
        PROVE  /\ x.role = "op" => x.st = IF wins THEN "cancelled" ELSE "finishing"
               /\ x.role = "timeout" => x.st = IF wins THEN "expired" ELSE "lost"
    <3>1. CASE x \in inflight \ {t, r}
      <4>1. x.role # "op" /\ x.role # "timeout"
        BY <1>1, <1>5, <2>5, <3>1 DEF IInv, OneCompletion, UniqueInFlight
      <4> QED
        BY <4>1
    <3>2. CASE x \notin inflight \ {t, r}
      BY <1>2, <3>2
    <3> QED
      BY <3>1, <3>2
  <2>6. CASE wins
    <3>1. /\ ~InState(g, "op", {"active", "finishing"})'
          /\ ~InState(g, "timeout", {"armed", "lost", "disarmed"})'
      BY <2>5, <2>6 DEF InState
    <3>2. "ENOCQE" \notin Results \ ({"ok", "ECANCELED"} \cup OpErrors)
          /\ "ENOCQE" \notin Results \ ({"ETIME", "ECANCELED"} \cup LostTimer)
      BY VerdictSets
    <3>3. /\ ~Reported(g, "op", {"ok"})'
          /\ ~Reported(g, "timeout", {"ECANCELED"} \cup LostTimer)'
          /\ ~Reported(g, "op", Results \ ({"ok", "ECANCELED"} \cup OpErrors))'
          /\ ~Reported(g, "timeout", Results \ ({"ETIME", "ECANCELED"} \cup LostTimer))'
      BY <1>3, <2>3, <3>2, VerdictSets
    <3> QED
      BY <1>3, <2>2, <2>4, <3>1, <3>3 DEF Verdict
  <2>7. CASE ~wins
    <3>1. ~InState(g, "timeout", {"expired"})' /\ ~InState(g, "op", {"cancelled"})'
      BY <2>5, <2>7 DEF InState
    <3>2. "ENOCQE" \notin Results \ ({"ok", "ECANCELED"} \cup OpErrors)
          /\ "ENOCQE" \notin Results \ ({"ETIME", "ECANCELED"} \cup LostTimer)
      BY VerdictSets
    <3>3. /\ ~Reported(g, "timeout", {"ETIME"})'
          /\ ~Reported(g, "op", {"ECANCELED"})'
          /\ ~Reported(g, "op", Results \ ({"ok", "ECANCELED"} \cup OpErrors))'
          /\ ~Reported(g, "timeout", Results \ ({"ETIME", "ECANCELED"} \cup LostTimer))'
      BY <1>3, <2>3, <3>2, VerdictSets
    <3> QED
      BY <3>1, <3>3 DEF Verdict
  <2> QED
    BY <2>6, <2>7
<1> QED
  BY <1>4, <1>5

(* The result of a timer says what the timer did.                          *)
LEMMA PostTimeoutVerdict ==
  ASSUME IInv, PlainErrors, FlightPaired, NEW t \in inflight, NEW v \in Results,
         PostTimeout(t, v), UNCHANGED <<call, res>>, NEW g \in Fibers, Verdict(g)
  PROVE  Verdict(g)'
<1>1. /\ t.role = "timeout" /\ t.fiber \in Fibers /\ v \in TimeoutResults(t.st) /\ Paired(t)
      /\ cq' = Append(cq, [fiber |-> t.fiber, role |-> "timeout", res |-> v])
      /\ inflight' = inflight \ {t} /\ UNCHANGED sq
  BY RequestRoles DEF PostTimeout, IInv, TypeOK, FlightPaired
<1>2. \A f, p, V : Reported(f, p, V)' <=>
        Reported(f, p, V) \/ (f = t.fiber /\ p = "timeout" /\ v \in V)
  <2>1. [fiber |-> t.fiber, role |-> "timeout", res |-> v] \in Cqe
    BY <1>1 DEF Cqe, Roles
  <2> QED
    BY <1>1, <2>1, PostReports DEF IInv, TypeOK
<1>3. /\ \A p : InSq(g, p)' <=> InSq(g, p)
      /\ \A p, S : InState(g, p, S)' => InState(g, p, S)
  BY <1>1 DEF InSq, InState
<1>4. CASE g # t.fiber
  BY <1>2, <1>3, <1>4, VerdictShrinks
<1>5. CASE g = t.fiber
  <2>1. t.st \in {"expired", "lost", "disarmed"}
    BY <1>1 DEF Paired, TimeoutResults
  <2>2. t.st = "expired" => v = "ETIME"
    BY <1>1 DEF TimeoutResults
  <2>3. t.st \in {"lost", "disarmed"} => v \in {"ECANCELED"} \cup LostTimer
    BY <1>1 DEF TimeoutResults
  <2>4. "ETIME" \notin {"ECANCELED"} \cup LostTimer
    BY DEF PlainErrors
  <2>5. v = "ETIME" => InState(g, "timeout", {"expired"})
    BY <1>1, <1>5, <2>1, <2>3, <2>4 DEF InState
  <2>6. v \in {"ECANCELED"} \cup LostTimer => InState(g, "timeout", {"armed", "lost", "disarmed"})
    BY <1>1, <1>5, <2>1, <2>2, <2>4 DEF InState
  <2>7. /\ Reported(g, "timeout", {"ETIME"})' => Reported(g, "timeout", {"ETIME"}) \/ v = "ETIME"
        /\ Reported(g, "timeout", {"ECANCELED"} \cup LostTimer)' =>
             \/ Reported(g, "timeout", {"ECANCELED"} \cup LostTimer)
             \/ v \in {"ECANCELED"} \cup LostTimer
        /\ Reported(g, "timeout", Results \ ({"ETIME", "ECANCELED"} \cup LostTimer))' =>
             Reported(g, "timeout", Results \ ({"ETIME", "ECANCELED"} \cup LostTimer))
    BY <1>2, <2>1, <2>2, <2>3
  <2>8. \A V : Reported(g, "op", V)' <=> Reported(g, "op", V)
    BY <1>2
  <2> QED
    BY <1>3, <2>5, <2>6, <2>7, <2>8 DEF Verdict
<1> QED
  BY <1>4, <1>5

(* Every step keeps the verdict of every call.                             *)
LEMMA NextVerdict ==
  ASSUME IInv, PlainErrors, SqPaired, FlightPaired, [Next]_vars,
         NEW g \in Fibers, Verdict(g)
  PROVE  Verdict(g)'
<1>1. CASE UNCHANGED <<sq, inflight, cq, call, res>>
  <2>1. \A p : InSq(g, p)' <=> InSq(g, p)
    BY <1>1 DEF InSq
  <2> QED
    BY <1>1, <2>1, SameReports, VerdictShrinks
<1>2. CASE /\ cq # <<>> /\ cq' = Tail(cq) /\ UNCHANGED <<sq, inflight, call>>
           /\ \/ UNCHANGED res
              \/ res' = [res EXCEPT ![Head(cq).fiber] =
                           [res[Head(cq).fiber] EXCEPT ![Head(cq).role] = Head(cq).res]]
  <2>1. \A p : InSq(g, p)' <=> InSq(g, p)
    BY <1>2 DEF InSq
  <2>2. \A p, S : InState(g, p, S)' <=> InState(g, p, S)
    BY <1>2 DEF InState
  <2>3. \A p \in Roles : \A V : Reported(g, p, V)' => Reported(g, p, V)
    BY <1>2, ConsumeReports
  <2> QED
    BY <1>2, <2>1, <2>2, <2>3, VerdictShrinks
<1>3. ASSUME NEW f \in Fibers, FiberStep(f) PROVE Verdict(g)'
  BY <1>1, <1>3, FiberQuiet, BeginVerdict, SubmitVerdict
<1>4. CASE SchedulerStep
  <2>1. UNCHANGED <<sq, inflight, call>>
    BY <1>4, SchedulerQuiet
  <2>2. CASE Dispatch
    <3>1. cq # <<>>
      BY <2>2 DEF Dispatch, dispatch, IInv, TypeOK, RingStateOK
    <3> QED
      BY <1>2, <2>1, <2>2, <3>1 DEF Dispatch, dispatch
  <2>3. CASE PollOne
    BY <1>1, <1>2, <2>1, <2>3 DEF PollOne, TryPoll, TryPollBusy, TryPollLimit, try_poll, Reap,
                                  ringVars
  <2>4. CASE Switch \/ PollMany \/ PollWaited \/ Stop
    <3>1. UNCHANGED <<cq, res>>
      BY <2>4 DEF Switch, PollMany, TryPollMany, try_poll_many, PollWaited, PollReturns, poll,
                  Stop, Reap, ringVars, pollerVars
    <3> QED
      BY <1>1, <2>1, <3>1
  <2> QED
    BY <1>4, <2>2, <2>3, <2>4 DEF SchedulerStep
<1>5. CASE KernelStep
  <2>1. UNCHANGED <<call, res>>
    BY <1>5, KernelQuiet
  <2>2. CASE Take
    BY <2>1, <2>2, TakeVerdict DEF Take
  <2>3. CASE Release
    BY <1>1, <2>1, <2>3 DEF Release, ReleaseBatch
  <2>4. ASSUME NEW r \in inflight, Complete(r) PROVE Verdict(g)'
    BY <2>1, <2>4, PostOpVerdict DEF Complete
  <2>5. ASSUME NEW t \in inflight, Fire(t) PROVE Verdict(g)'
    BY <2>1, <2>5, TimerVerdict DEF Fire
  <2>6. ASSUME NEW t \in inflight, Expire(t) PROVE Verdict(g)'
    BY <2>1, <2>6, PostTimeoutVerdict DEF Expire
  <2> QED
    BY <1>5, <2>2, <2>3, <2>4, <2>5, <2>6 DEF KernelStep
<1>6. CASE Ended \/ UNCHANGED vars
  BY <1>1, <1>6 DEF Ended, vars
<1> QED
  BY <1>3, <1>4, <1>5, <1>6 DEF Next

-----------------------------------------------------------------------------
(* What follows for the calls: a call returns an answer its caller can     *)
(* act on, and no verification of submitter.cc fails.                      *)

(* Initially no call is in the ring (submitter.cc:16).                     *)
LEMMA InitAmple == Init => AmpleInv
<1> SUFFICES ASSUME Init PROVE AmpleInv
  OBVIOUS
<1> USE DEF Init, RingInit, PollerInit
<1>1. SqPaired /\ FlightPaired
  BY DEF SqPaired, PairsInSq, BetweenEntries, FlightPaired
<1>2. ASSUME NEW f \in Fibers PROVE Verdict(f) /\ Unanswered(f)
  <2>1. \A p \in Roles : res[f][p] = "ENOCQE"
    BY DEF NotSet, Roles
  <2>2. \A p \in Roles : \A V : "ENOCQE" \notin V => ~Reported(f, p, V)
    BY <2>1 DEF Reported
  <2>3. "ENOCQE" \notin Results \ ({"ok", "ECANCELED"} \cup OpErrors)
        /\ "ENOCQE" \notin Results \ ({"ETIME", "ECANCELED"} \cup LostTimer)
    BY VerdictSets
  <2>4. \A p, S : ~InState(f, p, S)
    BY DEF InState
  <2>5. /\ ~Reported(f, "timeout", {"ETIME"}) /\ ~Reported(f, "op", {"ECANCELED"})
        /\ ~Reported(f, "op", Results \ ({"ok", "ECANCELED"} \cup OpErrors))
        /\ ~Reported(f, "timeout", Results \ ({"ETIME", "ECANCELED"} \cup LostTimer))
    BY <2>2, <2>3, VerdictSets
  <2> QED
    BY <2>4, <2>5 DEF Verdict, Unanswered
<1> QED
  BY <1>1, <1>2 DEF AmpleInv

(* Once both entries of a timed call are in, io_uring_submit counts both   *)
(* or neither (submitter.cc:58).                                           *)
LEMMA VerifyHolds ==
  ASSUME IInv, SqPaired, NEW f \in Fibers, VerifySubmitted(f)
  PROVE  Suspend(f) /\ Goto(f, "await") /\ UNCHANGED outcome
<1>1. flushed \in Nat /\ busy \in Nat
  BY DEF IInv, TypeOK, RingTypeOK
<1>2. flushed >= 2 \/ (flushed = 0 /\ busy # 1)
  BY DEF SqPaired, BetweenEntries, VerifySubmitted, At
<1>3. Submitted >= 2 \/ Submitted = 0
  BY <1>1, <1>2 DEF Submitted
<1> QED
  BY <1>3 DEF VerifySubmitted

(* What a timed call returns when its results agree (submitter.cc:62-77).  *)
LEMMA TimedAnswer ==
  ASSUME IInv, PlainErrors, NEW f \in Fibers, Verdict(f), HasResults(f), call[f] = "timed"
  PROVE  /\ res[f].op = "ok" <=> TimedResult(res[f]) = "ok"
         /\ TimedResult(res[f]) # "ECANCELED"
         /\ TimedResult(res[f]) \in {"ok", "ESQE_TIMEOUT"} \cup OpErrors
         /\ ~BadLinkTimeout(res[f])
<1>1. res[f].op \in Results /\ res[f].timeout \in Results
  BY DEF IInv, TypeOK, PollerTypeOK, HasResults, Roles
<1>2. res[f].op \in {"ok", "ECANCELED"} \cup OpErrors
  BY <1>1 DEF Verdict, Reported
<1>3. res[f].timeout \in {"ETIME", "ECANCELED"} \cup LostTimer
  BY <1>1 DEF Verdict, Reported
<1>4. res[f].timeout = "ETIME" => res[f].op # "ok"
  BY DEF Verdict, Reported
<1>5. res[f].op = "ECANCELED" => res[f].timeout \notin {"ECANCELED"} \cup LostTimer
  BY DEF Verdict, Reported
<1>6. LostTimer \subseteq {"ENOENT", "ECANCELED"} /\ "ECANCELED" \notin OpErrors
  BY DEF PlainErrors
<1>7. CASE res[f].timeout = "ETIME"
  BY <1>4, <1>7 DEF TimedResult, BadLinkTimeout
<1>8. CASE res[f].timeout \in {"ECANCELED"} \cup LostTimer
  <2>1. TimedResult(res[f]) = res[f].op /\ ~BadLinkTimeout(res[f])
    BY <1>6, <1>8 DEF TimedResult, BadLinkTimeout
  <2> QED
    BY <1>2, <1>5, <1>8, <2>1
<1> QED
  BY <1>3, <1>7, <1>8

(* A call without a duration returns what its operation did.               *)
LEMMA UntimedAnswer ==
  ASSUME IInv, NEW f \in Fibers, Verdict(f), HasResults(f), call[f] # "timed"
  PROVE  res[f].op \in {"ok"} \cup OpErrors
<1>1. res[f].op \in Results
  BY DEF IInv, TypeOK, PollerTypeOK, HasResults, Roles
<1>2. res[f].op \in {"ok", "ECANCELED"} \cup OpErrors
  BY <1>1 DEF Verdict, Reported
<1>3. res[f].op # "ECANCELED"
  BY DEF Verdict, Reported
<1> QED
  BY <1>2, <1>3

(* A fiber that returns has its results (submitter.cc:27, 60).             *)
LEMMA ReturnHasResults ==
  ASSUME IInv, NEW f \in Fibers, Return(f)
  PROVE  HasResults(f) /\ current = f /\ pc[f] = "await" /\ outcome = "running"
  BY DEF IInv, Ready, Scheduled, Return, At, Running

(* The verifications of a timed call (submitter.cc:58, 66) hold.           *)
LEMMA NextOutcome ==
  ASSUME IInv, PlainErrors, AmpleInv, [Next]_vars
  PROVE  outcome' \notin {"should submit timeout and op", "bad LINK_TIMEOUT"}
<1>1. CASE outcome' = outcome \/ outcome' = "stopped"
  BY <1>1 DEF AmpleInv
<1>2. ASSUME NEW f \in Fibers, FiberStep(f)
      PROVE  outcome' \notin {"should submit timeout and op", "bad LINK_TIMEOUT"}
  <2>1. CASE VerifySubmitted(f)
    BY <1>1, <2>1, VerifyHolds DEF AmpleInv
  <2>2. CASE Return(f)
    <3>1. HasResults(f)
      BY <2>2, ReturnHasResults
    <3>2. call[f] = "timed" => ~BadLinkTimeout(res[f])
      BY <3>1, TimedAnswer DEF AmpleInv
    <3>3. outcome' = Death(call[f], res[f])
      BY <2>2 DEF Return
    <3> QED
      BY <3>2, <3>3 DEF Death
  <2>3. CASE ~VerifySubmitted(f) /\ ~Return(f)
    <3>1. outcome' = outcome
      BY <1>2, <2>3 DEF FiberStep, Spawn, Finish, Begin, Starve, SubmitUntimed, SubmitOp,
                        SubmitTimeout, submitterVars
    <3> QED
      BY <1>1, <3>1
  <2> QED
    BY <2>1, <2>2, <2>3
<1>3. CASE SchedulerStep
  BY <1>1, <1>3, SchedulerQuiet
<1>4. CASE KernelStep
  BY <1>1, <1>4, KernelQuiet
<1>5. CASE Ended \/ UNCHANGED vars
  BY <1>1, <1>5 DEF Ended, vars
<1> QED
  BY <1>2, <1>3, <1>4, <1>5 DEF Next

(* A call has no answer before it returns.                                 *)
LEMMA NextUnanswered ==
  ASSUME IInv, [Next]_vars, NEW g \in Fibers, Unanswered(g)
  PROVE  Unanswered(g)'
<1>0. pc \in [Fibers -> PCs] /\ ret \in [Fibers -> Results \cup {"none", "ESQE_TIMEOUT", "ENOCQE"}]
  BY DEF IInv, TypeOK, SubmitterTypeOK
<1>1. CASE UNCHANGED <<pc, ret>>
  BY <1>1 DEF Unanswered, InCall
<1>2. ASSUME NEW f \in Fibers, FiberStep(f) PROVE Unanswered(g)'
  <2>1. ASSUME NEW h \in Fibers, Spawn(f, h) PROVE Unanswered(g)'
    BY <1>0, <2>1 DEF Spawn, Goto, Unanswered, InCall
  <2>2. CASE Finish(f)
    BY <1>0, <2>2 DEF Finish, Goto, Unanswered, InCall
  <2>3. ASSUME NEW k \in Calls, Begin(f, k) PROVE Unanswered(g)'
    BY <1>0, <2>3 DEF Begin, Goto, Unanswered, InCall
  <2>4. CASE Starve(f)
    BY <1>1, <2>4 DEF Starve, submitterVars
  <2>5. CASE SubmitUntimed(f) \/ SubmitOp(f) \/ SubmitTimeout(f) \/ VerifySubmitted(f)
    <3>1. ret' = ret /\ InCall(f) /\ (pc' = pc \/ \E p \in PCs : pc' = [pc EXCEPT ![f] = p])
      BY <2>5 DEF SubmitUntimed, SubmitOp, SubmitTimeout, VerifySubmitted, At, InCall, Goto, PCs
    <3>2. InCall(g)' => InCall(g)
      BY <1>0, <3>1 DEF InCall
    <3> QED
      BY <3>1, <3>2 DEF Unanswered
  <2>6. CASE Return(f)
    <3>1. CASE UNCHANGED <<pc, ret>>
      BY <1>1, <3>1
    <3>2. CASE Goto(f, "ready") /\ \E v : ret' = [ret EXCEPT ![f] = v]
      BY <1>0, <3>2 DEF Goto, Unanswered, InCall
    <3> QED
      BY <2>6, <3>1, <3>2 DEF Return
  <2> QED
    BY <1>2, <2>1, <2>2, <2>3, <2>4, <2>5, <2>6 DEF FiberStep
<1>3. CASE SchedulerStep
  BY <1>1, <1>3, SchedulerQuiet
<1>4. CASE KernelStep
  BY <1>1, <1>4, KernelQuiet
<1>5. CASE Ended \/ UNCHANGED vars
  BY <1>1, <1>5 DEF Ended, vars
<1> QED
  BY <1>2, <1>3, <1>4, <1>5 DEF Next

(* With four entries per fiber, the pairs stay together from the queue to  *)
(* the completion.                                                         *)
LEMMA Pairing ==
  ASSUME IsFiniteSet(Fibers), Entries >= 4 * Cardinality(Fibers)
  PROVE  Spec => [](SqPaired /\ FlightPaired)
<1>1. Init => SqPaired /\ FlightPaired
  BY InitAmple DEF AmpleInv
<1>2. IInv /\ NeverStarved /\ LoneOps /\ (SqPaired /\ FlightPaired) /\ [Next]_vars =>
        (SqPaired /\ FlightPaired)'
  BY NextSqPaired, NextFlightPaired
<1> QED
  BY <1>1, <1>2, Inductive, RingSuffices, Lone, PTL DEF Spec

(* With four entries per fiber, a link timeout guards the operation of its *)
(* own call and every timed recvmsg has its timer until it completes       *)
(* (submitter.cc:45-57): none waits for ever, or behind another fiber.     *)
THEOREM PairsKept ==
  ASSUME IsFiniteSet(Fibers), Entries >= 4 * Cardinality(Fibers)
  PROVE  Spec => []PairIntact
<1>1. IInv /\ (SqPaired /\ FlightPaired) => PairIntact
  <2> SUFFICES ASSUME IInv, FlightPaired, NEW r \in inflight
               PROVE  /\ r.st \notin {"blocked", "orphan"}
                      /\ r.st = "armed" => r.after = r.fiber
                      /\ r.st = "active" /\ call[r.fiber] = "timed" =>
                           \E t \in inflight : t.st = "armed" /\ t.after = r.fiber
    BY DEF PairIntact
  <2>1. Paired(r) /\ r.role \in {"op", "timeout"}
    BY RequestRoles DEF FlightPaired, IInv, TypeOK
  <2>2. r.st \notin {"blocked", "orphan"} /\ (r.st = "armed" => r.after = r.fiber)
    BY <2>1 DEF Paired
  <2>3. ASSUME r.st = "active", call[r.fiber] = "timed"
        PROVE  \E t \in inflight : t.st = "armed" /\ t.after = r.fiber
    <3>1. PICK t \in inflight : t.fiber = r.fiber /\ t.role = "timeout" /\ t.st = "armed"
      BY <2>1, <2>3 DEF Paired, InState
    <3>2. t.after = t.fiber
      BY <3>1 DEF FlightPaired, Paired
    <3> QED
      BY <3>1, <3>2
  <2> QED
    BY <2>2, <2>3
<1> QED
  BY <1>1, Inductive, Pairing, PTL

(* With four entries per fiber, RES_VERIFY of submitter.cc:58 never fails: *)
(* a poll thread of the kernel takes both entries of a timed call or none. *)
THEOREM BothSubmitted ==
  ASSUME IsFiniteSet(Fibers), Entries >= 4 * Cardinality(Fibers)
  PROVE  Spec => []SubmitsBoth
<1>1. Init => SubmitsBoth
  BY DEF Init, SubmitsBoth
<1>2. IInv /\ (SqPaired /\ FlightPaired) /\ SubmitsBoth /\ [Next]_vars => SubmitsBoth'
  <2> SUFFICES ASSUME IInv, SqPaired, SubmitsBoth, [Next]_vars PROVE SubmitsBoth'
    OBVIOUS
  <2>1. ASSUME NEW f \in Fibers, FiberStep(f) PROVE SubmitsBoth'
    <3>1. CASE VerifySubmitted(f)
      BY <3>1, VerifyHolds DEF SubmitsBoth
    <3>2. CASE Return(f)
      BY <3>2 DEF Return, Death, SubmitsBoth
    <3>3. CASE ~VerifySubmitted(f) /\ ~Return(f)
      BY <2>1, <3>3 DEF FiberStep, Spawn, Finish, Begin, Starve, SubmitUntimed, SubmitOp,
                        SubmitTimeout, submitterVars, SubmitsBoth
    <3> QED
      BY <3>1, <3>2, <3>3
  <2>2. CASE SchedulerStep
    BY <2>2, SchedulerQuiet DEF SubmitsBoth
  <2>3. CASE KernelStep
    BY <2>3, KernelQuiet DEF SubmitsBoth
  <2>4. CASE Ended \/ UNCHANGED vars
    BY <2>4 DEF Ended, vars, SubmitsBoth
  <2> QED
    BY <2>1, <2>2, <2>3, <2>4 DEF Next
<1> QED
  BY <1>1, <1>2, Inductive, Pairing, PTL DEF Spec

(* In such a ring the two results of a timed call agree, whatever the      *)
(* order in which the kernel posts them.                                   *)
LEMMA Agreeing ==
  ASSUME IsFiniteSet(Fibers), Entries >= 4 * Cardinality(Fibers), PlainErrors
  PROVE  Spec => []AmpleInv
<1>1. Init => AmpleInv
  BY InitAmple
<1>2. IInv /\ NeverStarved /\ LoneOps /\ AmpleInv /\ [Next]_vars => AmpleInv'
  <2> SUFFICES ASSUME IInv, NeverStarved, LoneOps, AmpleInv, [Next]_vars PROVE AmpleInv'
    OBVIOUS
  <2>1. SqPaired /\ FlightPaired /\ \A f \in Fibers : Verdict(f) /\ Unanswered(f)
    BY DEF AmpleInv
  <2>2. SqPaired' /\ FlightPaired'
    BY <2>1, NextSqPaired, NextFlightPaired
  <2>3. ASSUME NEW f \in Fibers PROVE Verdict(f)' /\ Unanswered(f)'
    BY <2>1, NextVerdict, NextUnanswered
  <2>4. outcome' \notin {"should submit timeout and op", "bad LINK_TIMEOUT"}
    BY NextOutcome
  <2> QED
    BY <2>2, <2>3, <2>4 DEF AmpleInv
<1> QED
  BY <1>1, <1>2, Inductive, RingSuffices, Lone, PTL DEF Spec

(* With four entries per fiber, a timed recvmsg reports ESQE_TIMEOUT only  *)
(* if it received nothing, and otherwise what its operation did, never a   *)
(* cancellation (submitter.cc:62-77).                                      *)
THEOREM TimeoutsTrue ==
  ASSUME IsFiniteSet(Fibers), Entries >= 4 * Cardinality(Fibers), PlainErrors
  PROVE  Spec => []TimeoutMeansNoAnswer
<1> DEFINE Answer(f) ==
      ret[f] # "none" /\ call[f] = "timed" =>
        /\ res[f].op = "ok" <=> ret[f] = "ok"
        /\ ret[f] # "ECANCELED"
<1>1. Init => TimeoutMeansNoAnswer
  BY DEF Init, TimeoutMeansNoAnswer
<1>2. IInv /\ AmpleInv /\ TimeoutMeansNoAnswer /\ [Next]_vars => TimeoutMeansNoAnswer'
  <2> SUFFICES ASSUME IInv, AmpleInv, TimeoutMeansNoAnswer, [Next]_vars, NEW g \in Fibers
               PROVE  Answer(g)'
    BY DEF TimeoutMeansNoAnswer
  <2>0. Answer(g)
    BY DEF TimeoutMeansNoAnswer
  <2>1. CASE UNCHANGED <<ret, call, res>>
    BY <2>0, <2>1
  <2>2. ASSUME NEW f \in Fibers, FiberStep(f) PROVE Answer(g)'
    <3>1. ret \in [Fibers -> Results \cup {"none", "ESQE_TIMEOUT", "ENOCQE"}]
          /\ call \in [Fibers -> Calls]
          /\ res \in [Fibers -> [Roles -> Results \cup {"ENOCQE"}]]
      BY DEF IInv, TypeOK, SubmitterTypeOK, PollerTypeOK
    <3>2. ASSUME NEW k \in Calls, Begin(f, k) PROVE Answer(g)'
      <4>1. CASE g = f
        BY <3>1, <3>2, <4>1 DEF Begin
      <4>2. CASE g # f
        <5>1. ret'[g] = ret[g] /\ call'[g] = call[g] /\ res'[g] = res[g]
          BY <3>1, <3>2, <4>2 DEF Begin
        <5> QED
          BY <2>0, <5>1
      <4> QED
        BY <4>1, <4>2
    <3>3. CASE Return(f)
      <4>1. UNCHANGED <<call, res>> /\ HasResults(f)
        BY <3>3, ReturnHasResults DEF Return, pollerVars
      <4>2. CASE ret' = ret
        BY <2>1, <4>1, <4>2
      <4>3. CASE ret' # ret
        <5>1. ret' = [ret EXCEPT ![f] = IF call[f] = "timed" THEN TimedResult(res[f])
                                                             ELSE res[f].op]
          BY <3>3, <4>3 DEF Return
        <5>2. CASE g # f
          BY <2>0, <3>1, <4>1, <5>1, <5>2
        <5>3. CASE g = f
          <6>1. call[f] = "timed" => ret'[f] = TimedResult(res[f])
            BY <3>1, <5>1
          <6>2. call[f] = "timed" =>
                  /\ res[f].op = "ok" <=> TimedResult(res[f]) = "ok"
                  /\ TimedResult(res[f]) # "ECANCELED"
            BY <4>1, TimedAnswer DEF AmpleInv
          <6> QED
            BY <4>1, <5>3, <6>1, <6>2
        <5> QED
          BY <5>2, <5>3
      <4> QED
        BY <4>2, <4>3
    <3>4. CASE UNCHANGED <<ret, call, res>>
      BY <2>1, <3>4
    <3> QED
      BY <2>2, <3>2, <3>3, <3>4 DEF FiberStep, Spawn, Finish, Starve, SubmitUntimed, SubmitOp,
                                    SubmitTimeout, VerifySubmitted, pollerVars, submitterVars
  <2>3. CASE Dispatch
    <3>1. cq \in Seq(Cqe) /\ cq # <<>>
      BY <2>3 DEF Dispatch, dispatch, IInv, TypeOK, RingTypeOK, RingStateOK
    <3>2. Head(cq) \in Cqe
      BY <3>1
    <3>3. PICK f \in Fibers, p \in Roles : f = Head(cq).fiber /\ p = Head(cq).role
      BY <3>2 DEF Cqe
    <3>4. pc[f] \in {"getto", "await"}
      BY <2>3, <3>3, DispatchFinds
    <3>5. ret[f] = "none"
      BY <3>4 DEF AmpleInv, Unanswered, InCall
    <3>6. UNCHANGED <<ret, call>> /\ \E r : res' = [res EXCEPT ![f] = r]
      BY <2>3, <3>3 DEF Dispatch, dispatch, Rest, submitterVars
    <3>7. g # f => res'[g] = res[g]
      BY <3>6 DEF IInv, TypeOK, PollerTypeOK
    <3> QED
      BY <2>0, <3>5, <3>6, <3>7
  <2>4. CASE SchedulerStep /\ ~Dispatch
    <3>1. UNCHANGED <<ret, call>>
      BY <2>4, SchedulerQuiet
    <3>2. UNCHANGED res
      BY <2>4 DEF SchedulerStep, Switch, PollMany, TryPollMany, PollOne, TryPoll, PollWaited,
                  PollReturns, Stop, pollerVars
    <3> QED
      BY <2>1, <3>1, <3>2
  <2>5. CASE KernelStep
    BY <2>1, <2>5, KernelQuiet
  <2>6. CASE Ended \/ UNCHANGED vars
    BY <2>1, <2>6 DEF Ended, vars
  <2> QED
    BY <2>2, <2>3, <2>4, <2>5, <2>6 DEF Next, SchedulerStep
<1> QED
  BY <1>1, <1>2, Inductive, Agreeing, PTL DEF Spec

-----------------------------------------------------------------------------
(* The ring2 stack implements FiberCalls, for any number of fibers and any *)
(* size of the ring.  The steps inside a call, of the scheduler and of the *)
(* kernel are stutters of FiberCalls.                                      *)

(* A fiber's first state outside a call is that of FiberCalls.             *)
LEMMA InitCalls == Init => AnyRing!Init
<1> SUFFICES ASSUME Init PROVE AnyRing!Init
  OBVIOUS
<1>1. [f \in Fibers |-> Control(f)] =
        [f \in Fibers |-> IF f = Root THEN "ready" ELSE "new"]
  BY DEF Init, Control, InCall
<1>2. call \in [Fibers -> Calls]
  BY DEF Init, PollerInit, Calls
<1> QED
  BY <1>1, <1>2 DEF Init, AnyRing!Init

(* Leaving pc and what a call returned alone is a stutter of FiberCalls.   *)
LEMMA QuietCalls ==
  ASSUME UNCHANGED <<pc, call, ret, outcome>>
  PROVE  UNCHANGED AnyRing!vars
<1>1. \A f \in Fibers : Control(f)' = Control(f)
  BY DEF Control, InCall
<1> QED
  BY <1>1 DEF AnyRing!vars

(* Moving one fiber moves its control state and no other.                  *)
LEMMA GotoCalls ==
  ASSUME TypeOK, NEW f \in Fibers, NEW p \in PCs, Goto(f, p)
  PROVE  [g \in Fibers |-> Control(g)]' =
           [[g \in Fibers |-> Control(g)] EXCEPT ![f] =
              IF p \in {"getop", "getto", "check", "await"} THEN "calling" ELSE p]
<1>1. pc' = [pc EXCEPT ![f] = p] /\ pc \in [Fibers -> PCs]
  BY DEF Goto, TypeOK, SubmitterTypeOK
<1>2. Control(f)' = IF p \in {"getop", "getto", "check", "await"} THEN "calling" ELSE p
  BY <1>1 DEF Control, InCall
<1>3. \A g \in Fibers : g # f => Control(g)' = Control(g)
  BY <1>1 DEF Control, InCall
<1> QED
  BY <1>2, <1>3

(* A call that returns (submitter.cc:60-78) has all its results, and ends  *)
(* with one answer or with the process.                                    *)
LEMMA ReturnCalls ==
  ASSUME IInv, NEW f \in Fibers, Return(f)
  PROVE  /\ HasResults(f) /\ call[f] \in Calls /\ Control(f) = "calling"
         /\ outcome = "running" /\ outcome' = Death(call[f], res[f]) /\ UNCHANGED call
         /\ outcome' = "running" =>
              /\ [h \in Fibers |-> Control(h)]' =
                   [[h \in Fibers |-> Control(h)] EXCEPT ![f] = "ready"]
              /\ ret' = [ret EXCEPT ![f] = IF call[f] = "timed" THEN TimedResult(res[f])
                                                                ELSE res[f].op]
         /\ outcome' # "running" =>
              ret' = ret /\ [h \in Fibers |-> Control(h)]' = [h \in Fibers |-> Control(h)]
<1>1. /\ HasResults(f) /\ Control(f) = "calling" /\ outcome = "running"
      /\ outcome' = Death(call[f], res[f]) /\ UNCHANGED call
  BY ReturnHasResults DEF Return, Control, InCall, pollerVars
<1>2. call[f] \in Calls
  BY DEF IInv, TypeOK, PollerTypeOK
<1>3. ASSUME outcome' = "running"
      PROVE  /\ [h \in Fibers |-> Control(h)]' =
                   [[h \in Fibers |-> Control(h)] EXCEPT ![f] = "ready"]
             /\ ret' = [ret EXCEPT ![f] = IF call[f] = "timed" THEN TimedResult(res[f])
                                                               ELSE res[f].op]
  BY <1>3, GotoCalls DEF IInv, Return, PCs
<1>4. ASSUME outcome' # "running"
      PROVE  ret' = ret /\ [h \in Fibers |-> Control(h)]' = [h \in Fibers |-> Control(h)]
  <2>1. UNCHANGED <<pc, ret>>
    BY <1>4 DEF Return
  <2>2. \A h \in Fibers : Control(h)' = Control(h)
    BY <2>1 DEF Control, InCall
  <2> QED
    BY <2>1, <2>2
<1> QED
  BY <1>1, <1>2, <1>3, <1>4

(* A step of a fiber's code (submitter.cc:16-58) other than the return of  *)
(* its call or the end of the process starts a call, or is invisible to    *)
(* the fiber's caller.                                                     *)
LEMMA QuietFiberCalls ==
  ASSUME IInv, NEW f \in Fibers, FiberStep(f), ~Return(f), UNCHANGED outcome
  PROVE  \/ \E g \in Fibers : AnyRing!Spawn(g)
         \/ AnyRing!Finish(f)
         \/ \E k \in Calls : AnyRing!Begin(f, k)
         \/ UNCHANGED AnyRing!vars
<1> USE DEF PCs
<1>1. TypeOK
  BY DEF IInv
<1>2. ASSUME NEW g \in Fibers, Spawn(f, g) PROVE AnyRing!Spawn(g)
  <2>1. [h \in Fibers |-> Control(h)]' = [[h \in Fibers |-> Control(h)] EXCEPT ![g] = "ready"]
    BY <1>1, <1>2, GotoCalls DEF Spawn
  <2>2. Control(g) = "new" /\ UNCHANGED <<call, ret, outcome>>
    BY <1>2 DEF Spawn, Control, InCall, pollerVars
  <2> QED
    BY <2>1, <2>2 DEF AnyRing!Spawn
<1>3. CASE Finish(f)
  <2>1. [h \in Fibers |-> Control(h)]' = [[h \in Fibers |-> Control(h)] EXCEPT ![f] = "done"]
    BY <1>1, <1>3, GotoCalls DEF Finish
  <2>2. Control(f) = "ready" /\ UNCHANGED <<call, ret, outcome>>
    BY <1>3 DEF Finish, At, Control, InCall, pollerVars
  <2> QED
    BY <2>1, <2>2 DEF AnyRing!Finish
<1>4. ASSUME NEW k \in Calls, Begin(f, k) PROVE AnyRing!Begin(f, k)
  <2>1. [h \in Fibers |-> Control(h)]' = [[h \in Fibers |-> Control(h)] EXCEPT ![f] = "calling"]
    BY <1>1, <1>4, GotoCalls DEF Begin
  <2>2. /\ Control(f) = "ready"
        /\ call' = [call EXCEPT ![f] = k] /\ ret' = [ret EXCEPT ![f] = "none"]
        /\ UNCHANGED outcome
    BY <1>4 DEF Begin, At, Control, InCall
  <2> QED
    BY <2>1, <2>2 DEF AnyRing!Begin
<1>5. CASE Starve(f)
  BY <1>5, QuietCalls DEF Starve, pollerVars, submitterVars
<1>6. ASSUME NEW p \in {"getto", "check", "await"}, Goto(f, p),
             pc[f] \in {"getop", "getto", "check"}, UNCHANGED <<call, ret, outcome>>
      PROVE  UNCHANGED AnyRing!vars
  <2>1. [h \in Fibers |-> Control(h)]' = [[h \in Fibers |-> Control(h)] EXCEPT ![f] = "calling"]
    <3>1. pc' = [pc EXCEPT ![f] = p] /\ pc \in [Fibers -> PCs]
      BY <1>1, <1>6 DEF Goto, TypeOK, SubmitterTypeOK
    <3>2. Control(f)' = "calling"
      BY <1>6, <3>1 DEF Control, InCall
    <3>3. \A h \in Fibers : h # f => Control(h)' = Control(h)
      BY <3>1 DEF Control, InCall
    <3> QED
      BY <3>2, <3>3
  <2>2. Control(f) = "calling"
    BY <1>6 DEF Control, InCall
  <2> QED
    BY <1>6, <2>1, <2>2 DEF AnyRing!vars
<1>7. CASE SubmitUntimed(f) \/ SubmitOp(f) \/ SubmitTimeout(f)
  BY <1>6, <1>7 DEF SubmitUntimed, SubmitOp, SubmitTimeout, At, pollerVars
<1>8. CASE VerifySubmitted(f)
  BY <1>6, <1>8 DEF VerifySubmitted, At, Running, pollerVars
<1> QED
  BY <1>2, <1>3, <1>4, <1>5, <1>7, <1>8 DEF FiberStep

(* A step of a fiber's code (submitter.cc:16-78) starts its call, ends it, *)
(* or is invisible to the fiber's caller.                                  *)
LEMMA FiberCallsStep ==
  ASSUME IInv, NEW f \in Fibers, FiberStep(f)
  PROVE  AnyRing!Next \/ UNCHANGED AnyRing!vars
<1>1. outcome = "running"
  BY DEF FiberStep, Spawn, Finish, Begin, Starve, SubmitUntimed, SubmitOp, SubmitTimeout,
         VerifySubmitted, Return, At, Running
<1>2. CASE VerifySubmitted(f) /\ outcome' # outcome
  <2>1. /\ outcome' = "should submit timeout and op" /\ Control(f) = "calling"
        /\ UNCHANGED <<pc, call, ret>>
    BY <1>2 DEF VerifySubmitted, At, Control, InCall, pollerVars
  <2>2. \A g \in Fibers : Control(g)' = Control(g)
    BY <2>1 DEF Control, InCall
  <2>3. call[f] = "timed" /\ "timed" \in Calls
    BY <1>2 DEF IInv, FreshSetters, VerifySubmitted, At, Calls
  <2>4. "should submit timeout and op" \in AnyDeaths[call[f]]
    BY <2>3 DEF AnyDeaths
  <2> QED
    BY <1>1, <2>1, <2>2, <2>4 DEF AnyRing!Next, AnyRing!Die
<1>3. CASE Return(f)
  <2>1. HasResults(f) /\ call[f] \in Calls /\ Control(f) = "calling" /\ UNCHANGED call
    BY <1>3, ReturnCalls
  <2>2. CASE outcome' = "running"
    <3>1. PICK v : v = IF call[f] = "timed" THEN TimedResult(res[f]) ELSE res[f].op
      OBVIOUS
    <3>2. res[f].op \in Results
      BY <2>1 DEF HasResults, Roles, IInv, TypeOK, PollerTypeOK
    <3>3. v \in AnyAnswers[call[f]]
      BY <2>1, <3>1, <3>2 DEF AnyAnswers, TimedResult
    <3>4. /\ ret' = [ret EXCEPT ![f] = v]
          /\ [h \in Fibers |-> Control(h)]' =
               [[h \in Fibers |-> Control(h)] EXCEPT ![f] = "ready"]
      BY <1>3, <2>2, <3>1, ReturnCalls
    <3> QED
      BY <1>1, <2>1, <2>2, <3>3, <3>4 DEF AnyRing!Next, AnyRing!Return
  <2>3. CASE outcome' # "running"
    <3>1. outcome' \in AnyDeaths[call[f]]
      <4>1. outcome' = Death(call[f], res[f])
        BY <1>3, ReturnCalls
      <4> QED
        BY <2>1, <2>3, <4>1 DEF AnyDeaths, Death, HasResults, Calls
    <3>2. ret' = ret /\ [h \in Fibers |-> Control(h)]' = [h \in Fibers |-> Control(h)]
      BY <1>3, <2>3, ReturnCalls
    <3> QED
      BY <1>1, <2>1, <3>1, <3>2 DEF AnyRing!Next, AnyRing!Die
  <2> QED
    BY <2>2, <2>3
<1>4. CASE ~Return(f) /\ outcome' = outcome
  BY <1>1, <1>4, QuietFiberCalls DEF AnyRing!Next
<1>5. ~Return(f) /\ outcome' # outcome => VerifySubmitted(f)
  BY DEF FiberStep, Spawn, Finish, Begin, Starve, SubmitUntimed, SubmitOp, SubmitTimeout,
         submitterVars
<1> QED
  BY <1>2, <1>3, <1>4, <1>5

(* KeepsPromise holds for any number of fibers and any ring, when the      *)
(* scheduler polls with TryPollMany: the calls of submitter.cc behave as   *)
(* the atomic calls of FiberCalls, and the scheduler abandons none.        *)
THEOREM PromiseKept ==
  ASSUME "one" \notin Polls
  PROVE  Spec => KeepsPromise
<1>1. IInv /\ StopsOnlyWhenDone' /\ [Next]_vars => [AnyRing!Next]_(AnyRing!vars)
  <2> SUFFICES ASSUME IInv, StopsOnlyWhenDone', [Next]_vars
               PROVE  AnyRing!Next \/ UNCHANGED AnyRing!vars
    OBVIOUS
  <2>1. ASSUME NEW f \in Fibers, FiberStep(f)
        PROVE  AnyRing!Next \/ UNCHANGED AnyRing!vars
    BY <2>1, FiberCallsStep
  <2>2. CASE Stop
    <3>1. outcome = "running" /\ outcome' = "stopped" /\ UNCHANGED <<pc, call, ret>>
      BY <2>2 DEF Stop, Running, pollerVars
    <3>2. \A f \in Fibers : Control(f) \in {"new", "done"} /\ Control(f)' = Control(f)
      BY <3>1 DEF StopsOnlyWhenDone, Control, InCall
    <3> QED
      BY <3>1, <3>2 DEF AnyRing!Next, AnyRing!Stop
  <2>3. CASE SchedulerStep /\ ~Stop
    BY <2>3, QuietCalls
    DEF SchedulerStep, Switch, PollMany, TryPollMany, PollOne, TryPoll, PollWaited, PollReturns,
        Dispatch, dispatch, Rest, submitterVars, pollerVars
  <2>4. CASE KernelStep
    BY <2>4, QuietCalls DEF KernelStep, Take, Release, Complete, Fire, Expire, Outside, Rest,
                            submitterVars, pollerVars
  <2>5. CASE Ended \/ UNCHANGED vars
    BY <2>5, QuietCalls DEF Ended, vars
  <2> QED
    BY <2>1, <2>2, <2>3, <2>4, <2>5 DEF Next
<1> QED
  BY <1>1, InitCalls, Inductive, NoneAbandoned, PTL DEF Spec, KeepsPromise, AnyRing!Spec

(* With four entries per fiber a step of a fiber's code ends its call with *)
(* one of the answers a caller can act on, and no verification fails.      *)
LEMMA AmpleCallsStep ==
  ASSUME IInv, PlainErrors, AmpleInv, NEW f \in Fibers, FiberStep(f)
  PROVE  AmpleRing!Next \/ UNCHANGED AmpleRing!vars
<1>1. outcome = "running"
  BY DEF FiberStep, Spawn, Finish, Begin, Starve, SubmitUntimed, SubmitOp, SubmitTimeout,
         VerifySubmitted, Return, At, Running
<1>2. CASE Return(f)
  <2>1. HasResults(f) /\ call[f] \in Calls /\ Control(f) = "calling" /\ UNCHANGED call
    BY <1>2, ReturnCalls
  <2>2. Verdict(f)
    BY DEF AmpleInv
  <2>3. outcome' = Death(call[f], res[f])
    BY <1>2, ReturnCalls
  <2>4. call[f] = "timed" =>
          /\ TimedResult(res[f]) \in {"ok", "ESQE_TIMEOUT"} \cup OpErrors
          /\ ~BadLinkTimeout(res[f])
    BY <2>1, <2>2, TimedAnswer
  <2>5. call[f] # "timed" => res[f].op \in {"ok"} \cup OpErrors /\ res[f].op # "ENOCQE"
    BY <2>1, <2>2, UntimedAnswer DEF HasResults
  <2>6. CASE outcome' = "running"
    <3>1. PICK v : v = IF call[f] = "timed" THEN TimedResult(res[f]) ELSE res[f].op
      OBVIOUS
    <3>2. v \in AmpleAnswers[call[f]]
      <4>1. CASE call[f] = "timed"
        BY <2>1, <2>4, <3>1, <4>1 DEF AmpleAnswers
      <4>2. CASE call[f] = "recv"
        BY <2>1, <2>5, <3>1, <4>2 DEF AmpleAnswers
      <4>3. CASE call[f] \in {"send", "accept"}
        <5>1. res[f].op = "ok"
          BY <2>3, <2>5, <2>6, <4>3 DEF Death
        <5> QED
          BY <2>1, <3>1, <4>3, <5>1 DEF AmpleAnswers
      <4> QED
        BY <2>1, <4>1, <4>2, <4>3 DEF Calls
    <3>3. /\ ret' = [ret EXCEPT ![f] = v]
          /\ [h \in Fibers |-> Control(h)]' =
               [[h \in Fibers |-> Control(h)] EXCEPT ![f] = "ready"]
      BY <1>2, <2>6, <3>1, ReturnCalls
    <3> QED
      BY <1>1, <2>1, <2>6, <3>2, <3>3 DEF AmpleRing!Next, AmpleRing!Return
  <2>7. CASE outcome' # "running"
    <3>1. outcome' \in AmpleDeaths[call[f]]
      BY <2>1, <2>3, <2>4, <2>5, <2>7 DEF AmpleDeaths, Death, Calls
    <3>2. ret' = ret /\ [h \in Fibers |-> Control(h)]' = [h \in Fibers |-> Control(h)]
      BY <1>2, <2>7, ReturnCalls
    <3> QED
      BY <1>1, <2>1, <3>1, <3>2 DEF AmpleRing!Next, AmpleRing!Die
  <2> QED
    BY <2>6, <2>7
<1>3. CASE ~Return(f)
  <2>1. outcome' = outcome
    <3>1. VerifySubmitted(f) => outcome' = outcome
      BY VerifyHolds DEF AmpleInv
    <3> QED
      BY <1>3, <3>1 DEF FiberStep, Spawn, Finish, Begin, Starve, SubmitUntimed, SubmitOp,
                        SubmitTimeout, submitterVars
  <2>2. \/ \E g \in Fibers : AnyRing!Spawn(g)
        \/ AnyRing!Finish(f)
        \/ \E k \in Calls : AnyRing!Begin(f, k)
        \/ UNCHANGED AnyRing!vars
    BY <1>3, <2>1, QuietFiberCalls
  <2>3. \A g \in Fibers : AnyRing!Spawn(g) => AmpleRing!Spawn(g)
    BY DEF AnyRing!Spawn, AmpleRing!Spawn
  <2>4. AnyRing!Finish(f) => AmpleRing!Finish(f)
    BY DEF AnyRing!Finish, AmpleRing!Finish
  <2>5. \A k \in Calls : AnyRing!Begin(f, k) => AmpleRing!Begin(f, k)
    BY DEF AnyRing!Begin, AmpleRing!Begin
  <2>6. UNCHANGED AnyRing!vars => UNCHANGED AmpleRing!vars
    BY DEF AnyRing!vars, AmpleRing!vars
  <2> QED
    BY <1>1, <2>2, <2>3, <2>4, <2>5, <2>6 DEF AmpleRing!Next
<1> QED
  BY <1>2, <1>3

(* KeepsStrictPromise: with four entries per fiber, and a scheduler that   *)
(* polls with TryPollMany, the calls of submitter.cc behave as the atomic  *)
(* calls of FiberCalls with the strict answers: no cancellation is         *)
(* reported, no verification of a timed call fails.                        *)
THEOREM StrictPromiseKept ==
  ASSUME "one" \notin Polls, IsFiniteSet(Fibers), Entries >= 4 * Cardinality(Fibers), PlainErrors
  PROVE  Spec => KeepsStrictPromise
<1>1. Init => AmpleRing!Init
  <2> SUFFICES ASSUME Init PROVE AmpleRing!Init
    OBVIOUS
  <2>1. AnyRing!Init
    BY InitCalls
  <2> QED
    BY <2>1 DEF AnyRing!Init, AmpleRing!Init
<1>2. IInv /\ AmpleInv /\ StopsOnlyWhenDone' /\ [Next]_vars => [AmpleRing!Next]_(AmpleRing!vars)
  <2> SUFFICES ASSUME IInv, AmpleInv, StopsOnlyWhenDone', [Next]_vars
               PROVE  AmpleRing!Next \/ UNCHANGED AmpleRing!vars
    OBVIOUS
  <2>1. ASSUME NEW f \in Fibers, FiberStep(f)
        PROVE  AmpleRing!Next \/ UNCHANGED AmpleRing!vars
    BY <2>1, AmpleCallsStep
  <2>2. CASE Stop
    <3>1. outcome = "running" /\ outcome' = "stopped" /\ UNCHANGED <<pc, call, ret>>
      BY <2>2 DEF Stop, Running, pollerVars
    <3>2. \A f \in Fibers : Control(f) \in {"new", "done"} /\ Control(f)' = Control(f)
      BY <3>1 DEF StopsOnlyWhenDone, Control, InCall
    <3> QED
      BY <3>1, <3>2 DEF AmpleRing!Next, AmpleRing!Stop
  <2>3. ASSUME UNCHANGED <<pc, call, ret, outcome>>
        PROVE  UNCHANGED AmpleRing!vars
    BY <2>3, QuietCalls DEF AnyRing!vars, AmpleRing!vars
  <2>4. CASE SchedulerStep /\ ~Stop
    BY <2>3, <2>4
    DEF SchedulerStep, Switch, PollMany, TryPollMany, PollOne, TryPoll, PollWaited, PollReturns,
        Dispatch, dispatch, Rest, submitterVars, pollerVars
  <2>5. CASE KernelStep
    BY <2>3, <2>5, KernelQuiet
  <2>6. CASE Ended \/ UNCHANGED vars
    BY <2>3, <2>6 DEF Ended, vars
  <2> QED
    BY <2>1, <2>2, <2>4, <2>5, <2>6 DEF Next
<1> QED
  BY <1>1, <1>2, Inductive, Agreeing, NoneAbandoned, PTL
  DEF Spec, KeepsStrictPromise, AmpleRing!Spec

-----------------------------------------------------------------------------
(* The UDP server on the ring implements EchoService, for any number of    *)
(* handlers, any ring and any network.                                     *)

(* What the kernel has done for f is a result reported for its operation   *)
(* (poller.cc:10-18).                                                      *)
LEMMA PerformedReported ==
  \A f, v : Performed(f, v) <=> Reported(f, "op", {v})
  BY DEF Performed, Reported

(* dispatch (poller.cc:10-18) moves a result to its setter: what was       *)
(* reported stays reported.                                                *)
LEMMA DispatchReports ==
  ASSUME IInv, Dispatch
  PROVE  \A f \in Fibers, p \in Roles : \A V :
           "ENOCQE" \notin V => (Reported(f, p, V)' <=> Reported(f, p, V))
<1>1. /\ cq \in Seq(Cqe) /\ cq # <<>> /\ cq' = Tail(cq)
      /\ res' = [res EXCEPT ![Head(cq).fiber] =
                   [res[Head(cq).fiber] EXCEPT ![Head(cq).role] = Head(cq).res]]
  BY DEF Dispatch, dispatch, IInv, TypeOK, RingTypeOK, RingStateOK
<1>2. /\ Len(cq) \in Nat /\ Len(cq') = Len(cq) - 1 /\ 1 \in 1 .. Len(cq)
      /\ \A i \in 1 .. Len(cq') : cq'[i] = cq[i + 1] /\ i + 1 \in 1 .. Len(cq)
      /\ Head(cq) = cq[1]
  BY <1>1
<1>3. cq[1].fiber \in Fibers /\ cq[1].role \in Roles
  <2>1. cq[1] \in Cqe
    BY <1>1, <1>2
  <2> QED
    BY <2>1 DEF Cqe
<1>4. res \in [Fibers -> [Roles -> Results \cup {"ENOCQE"}]]
  BY DEF IInv, TypeOK, PollerTypeOK
<1>5. res[cq[1].fiber][cq[1].role] = "ENOCQE"
  BY <1>2, <1>3, DispatchFinds
<1>6. res'[cq[1].fiber][cq[1].role] = cq[1].res
  BY <1>1, <1>2, <1>3, <1>4
<1> SUFFICES ASSUME NEW f \in Fibers, NEW p \in Roles, NEW V, "ENOCQE" \notin V,
                    Reported(f, p, V)
             PROVE  Reported(f, p, V)'
  BY <1>1, ConsumeReports
<1>7. CASE res[f][p] \in V
  <2>1. ~(f = cq[1].fiber /\ p = cq[1].role)
    BY <1>5, <1>7
  <2>2. res'[f][p] = res[f][p]
    BY <1>1, <1>2, <1>3, <1>4, <2>1
  <2> QED
    BY <1>7, <2>2 DEF Reported
<1>8. ASSUME NEW i \in 1 .. Len(cq), cq[i].fiber = f, cq[i].role = p, cq[i].res \in V
      PROVE  Reported(f, p, V)'
  <2>1. CASE i = 1
    BY <1>6, <1>8, <2>1 DEF Reported
  <2>2. CASE i # 1
    <3>1. i - 1 \in 1 .. Len(cq') /\ cq'[i - 1] = cq[i]
      BY <1>2, <2>2
    <3> QED
      BY <1>8, <3>1 DEF Reported
  <2> QED
    BY <2>1, <2>2
<1> QED
  BY <1>7, <1>8 DEF Reported

(* The kernel performs the operation of a call in progress, which had not  *)
(* been performed.                                                         *)
LEMMA PostPerforms ==
  ASSUME IInv, NEW r \in inflight, NEW v \in Results, Post(r, v)
  PROVE  /\ r.fiber \in Fibers /\ InCall(r.fiber)
         /\ \A u : u # "ENOCQE" => ~Performed(r.fiber, u) /\ (Performed(r.fiber, u)' <=> u = v)
         /\ \A g : g # r.fiber => \A u : Performed(g, u)' <=> Performed(g, u)
         /\ UNCHANGED <<pc, call, res, outcome, current>>
         /\ KernelStep
<1>1. r.fiber \in Fibers /\ r.role = "op" /\ "op" \in Roles
  BY DEF Post, IInv, TypeOK, RingTypeOK, Request, Roles
<1>2. InFlight(r.fiber, "op")
  BY <1>1 DEF InFlight
<1>3. InCall(r.fiber)
  BY <1>1, <1>2 DEF IInv, OwedSetters, Outstanding, InCall
<1>4. KernelStep
  BY DEF Post, KernelStep, Complete
<1>5. UNCHANGED <<pc, call, res, outcome, current>>
  BY <1>4, KernelQuiet
<1>6. PICK c \in Cqe : /\ c = [fiber |-> r.fiber, role |-> "op", res |-> v]
                       /\ cq' = Append(cq, c)
  BY <1>1 DEF Post, PostOp, Cqe
<1>7. RingTypeOK
  BY DEF IInv, TypeOK
<1>8. \A f, p, V : Reported(f, p, V)' <=>
        Reported(f, p, V) \/ (f = c.fiber /\ p = c.role /\ c.res \in V)
  BY <1>5, <1>6, <1>7, PostReports
<1>9. \A f, u : Performed(f, u)' <=> Performed(f, u) \/ (f = r.fiber /\ u = v)
  <2> SUFFICES ASSUME NEW f, NEW u
               PROVE  Performed(f, u)' <=> Performed(f, u) \/ (f = r.fiber /\ u = v)
    OBVIOUS
  <2>1. Reported(f, "op", {u})' <=> Reported(f, "op", {u}) \/ (f = r.fiber /\ u = v)
    BY <1>6, <1>8
  <2>2. Performed(f, u)' <=> Reported(f, "op", {u})'
    BY DEF Performed, Reported
  <2> QED
    BY <2>1, <2>2, PerformedReported
<1>10. \A u : u # "ENOCQE" => ~Performed(r.fiber, u)
  BY <1>1, <1>2, NothingReported, PerformedReported
<1> QED
  BY <1>1, <1>3, <1>4, <1>5, <1>9, <1>10

(* Every step of the server is a step of the ring2 stack, or of the        *)
(* network, or ends the process.                                           *)
LEMMA ServerIsStack ==
  ASSUME EchoNext, Running'
  PROVE  [Next]_vars
<1>1. ASSUME NEW f \in Handlers, SpawnHandler(f) \/ HandlerStep(f) PROVE [Next]_vars
  <2>1. f \in Fibers /\ Root \in Fibers /\ {"recv", "send"} \subseteq Calls
    BY SchedulerAssumption DEF Handlers, Calls
  <2>2. CASE SpawnHandler(f)
    BY <2>1, <2>2 DEF SpawnHandler, InStack, Next, FiberStep
  <2>3. CASE StackStep(f)
    BY <2>1, <2>3 DEF StackStep, InStack, Next, FiberStep
  <2>4. CASE CallRecvmsg(f) \/ CallSendmsg(f)
    <3>1. \E k \in Calls : Begin(f, k)
      BY <2>1, <2>4 DEF CallRecvmsg, CallSendmsg
    <3> QED
      BY <2>1, <3>1 DEF Next, FiberStep
  <2>5. CASE CallReturns(f)
    BY <2>1, <2>5 DEF CallReturns, Next, FiberStep
  <2>6. ~Panic(f)
    BY DEF Panic, Running
  <2> QED
    BY <1>1, <2>2, <2>3, <2>4, <2>5, <2>6 DEF HandlerStep
<1>2. ~OpenFails
  BY DEF OpenFails, Running
<1>3. CASE OpenSocket \/ Peers \/ Dead
  BY <1>3 DEF OpenSocket, Peers, Ask, Dead, allVars, vars
<1>4. CASE JoinHandlers
  BY <1>4, SchedulerAssumption DEF JoinHandlers, InStack, Next, FiberStep
<1>5. CASE Loop
  BY <1>5 DEF Loop, InStack, Next, SchedulerStep
<1>6. CASE InStack(Take \/ Release)
  BY <1>6 DEF InStack, Next, KernelStep
<1>7. ASSUME NEW r \in inflight, Perform(r) PROVE [Next]_vars
  <2>1. \E v \in Results : Post(r, v)
    BY <1>7 DEF Perform, ReceiveInto, FailReceive, SendFrom, FailSend, Results
  <2>2. Complete(r)
    BY <2>1 DEF Post, Complete
  <2> QED
    BY <1>7, <2>2 DEF Next, KernelStep
<1> QED
  BY <1>1, <1>2, <1>3, <1>4, <1>5, <1>6, <1>7 DEF EchoNext, Kernel

(* A handler whose call goes on, and for which the kernel performs         *)
(* nothing, stays in its phase.                                            *)
LEMMA QuietPhase ==
  ASSUME NEW f \in Handlers, prog'[f] = prog[f], InCall(f)' <=> InCall(f),
         \A v \in Results : Performed(f, v)' <=> Performed(f, v)
  PROVE  Phase(f)' = Phase(f)
<1>1. "ok" \in Results
  BY DEF Results
<1>2. Taken(f)' <=> Taken(f)
  BY DEF Taken
<1>3. Replying(f)' <=> Replying(f)
  BY <1>1 DEF Replying
<1> QED
  BY <1>2, <1>3 DEF Phase

(* A step of the stack that starts and ends no call and performs nothing   *)
(* is not seen by the clients.                                             *)
LEMMA QuietStack ==
  ASSUME UNCHANGED <<netVars, echoVars, outcome>>,
         \A f \in Handlers : InCall(f)' <=> InCall(f),
         \A f \in Handlers : \A v \in Results : Performed(f, v)' <=> Performed(f, v)
  PROVE  UNCHANGED Echo!vars
<1>1. \A f \in Handlers : Phase(f)' = Phase(f)
  BY QuietPhase DEF echoVars
<1> QED
  BY <1>1 DEF Echo!vars, ServerStatus, netVars, echoVars

(* Such a step keeps the invariant if no handler leaves the start of its   *)
(* loop.                                                                   *)
LEMMA QuietServing ==
  ASSUME Serving, UNCHANGED <<netVars, echoVars, call>>,
         \A f \in Handlers : InCall(f)' <=> InCall(f),
         \A f \in Handlers : \A v \in Results : Performed(f, v)' <=> Performed(f, v),
         \A f \in Handlers : pc[f] = "ready" => pc'[f] = "ready",
         \A f \in Handlers : pc'[f] # "new" => pc[f] # "new" \/ Server \in bound,
         pc'[Root] \in {"ready", "done"}
  PROVE  Serving'
<1>1. EchoTypeOK'
  BY DEF Serving, EchoTypeOK, NetTypeOK, netVars, echoVars
<1>2. ASSUME NEW f \in Handlers
      PROVE  CallOfProg(f)' /\ MessageInBuf(f)' /\ PlainResults(f)'
  <2>1. CallOfProg(f) /\ MessageInBuf(f) /\ PlainResults(f)
    BY DEF Serving
  <2>2. CallOfProg(f)'
    BY <2>1 DEF CallOfProg, netVars, echoVars
  <2>3. MessageInBuf(f)'
    BY <2>1 DEF MessageInBuf, echoVars
  <2>4. PlainResults(f)'
    BY <2>1 DEF PlainResults
  <2> QED
    BY <2>2, <2>3, <2>4
<1> QED
  BY <1>1, <1>2 DEF Serving

(* What the ring, the poller, the scheduler and Root do between calls      *)
(* (ring.cc, poller.cc) is a stutter of the service.                       *)
LEMMA StackServes ==
  ASSUME IInv, Serving, Running,
         \/ \E f \in Handlers : SpawnHandler(f) \/ StackStep(f)
         \/ JoinHandlers \/ Loop \/ InStack(Take \/ Release)
  PROVE  Serving' /\ UNCHANGED Echo!vars
<1>0. "ENOCQE" \notin Results /\ "op" \in Roles
  BY VerdictSets
<1>1. \A f \in Handlers : f \in Fibers /\ f # Root
  BY DEF Handlers
<1>2. pc \in [Fibers -> PCs] /\ Root \in Fibers /\ pc[Root] \in {"ready", "done"}
  BY SchedulerAssumption DEF IInv, TypeOK, SubmitterTypeOK, Serving
<1>3. ASSUME UNCHANGED <<cq, res>>
      PROVE  \A f, v : Performed(f, v)' <=> Performed(f, v)
  BY <1>3 DEF Performed
<1>4. ASSUME NEW f \in Handlers, SpawnHandler(f)
      PROVE  Serving' /\ UNCHANGED Echo!vars
  <2>1. /\ pc[f] = "new" /\ pc' = [pc EXCEPT ![f] = "ready"] /\ Server \in bound
        /\ UNCHANGED <<netVars, echoVars, outcome, call, cq, res>>
    BY <1>4 DEF SpawnHandler, InStack, Spawn, Goto, ringVars, pollerVars
  <2>2. \A g \in Handlers : InCall(g)' <=> InCall(g)
    BY <1>1, <1>2, <2>1 DEF InCall
  <2>3. \A g \in Handlers : pc[g] = "ready" => pc'[g] = "ready"
    BY <1>1, <1>2, <2>1
  <2>4. pc'[Root] \in {"ready", "done"}
    BY <1>1, <1>2, <2>1
  <2> QED
    BY <1>3, <2>1, <2>2, <2>3, <2>4, QuietStack, QuietServing
<1>5. ASSUME NEW f \in Handlers, StackStep(f)
      PROVE  Serving' /\ UNCHANGED Echo!vars
  <2>1. UNCHANGED <<netVars, echoVars, outcome, call, cq, res>>
    BY <1>5 DEF StackStep, InStack, Starve, SubmitUntimed, submit, ringVars, pollerVars,
                submitterVars
  <2>2. pc' = pc \/ (pc[f] = "getop" /\ pc' = [pc EXCEPT ![f] = "await"])
    BY <1>5 DEF StackStep, InStack, Starve, SubmitUntimed, Goto, At, submitterVars
  <2>3. \A g \in Handlers : InCall(g)' <=> InCall(g)
    BY <1>1, <1>2, <2>2 DEF InCall
  <2>4. \A g \in Handlers : pc[g] = "ready" => pc'[g] = "ready"
    BY <1>1, <1>2, <2>2
  <2>5. \A g \in Handlers : pc'[g] # "new" => pc[g] # "new"
    BY <1>1, <1>2, <2>2
  <2>6. pc'[Root] \in {"ready", "done"}
    BY <1>1, <1>2, <2>2
  <2> QED
    BY <1>3, <2>1, <2>3, <2>4, <2>5, <2>6, QuietStack, QuietServing
<1>6. CASE JoinHandlers
  <2>1. /\ pc' = [pc EXCEPT ![Root] = "done"]
        /\ UNCHANGED <<netVars, echoVars, outcome, call, cq, res>>
    BY <1>6 DEF JoinHandlers, InStack, Finish, Goto, ringVars, pollerVars
  <2>2. pc'[Root] = "done" /\ \A g \in Handlers : pc'[g] = pc[g]
    BY <1>1, <1>2, <2>1
  <2>3. \A g \in Handlers : InCall(g)' <=> InCall(g)
    BY <2>2 DEF InCall
  <2> QED
    BY <1>3, <2>1, <2>2, <2>3, QuietStack, QuietServing
<1>7. CASE Loop \/ InStack(Take \/ Release)
  <2>1. UNCHANGED <<netVars, echoVars>>
    BY <1>7 DEF Loop, InStack
  <2>2. UNCHANGED <<pc, outcome, call>>
    <3>1. CASE Loop
      BY <3>1 DEF Loop, InStack, Switch, PollMany, TryPollMany, Dispatch, dispatch, Rest,
                  pollerVars, submitterVars
    <3>2. CASE InStack(Take \/ Release)
      BY <3>2 DEF InStack, Take, Release, Outside, Rest, pollerVars, submitterVars
    <3> QED
      BY <1>7, <3>1, <3>2
  <2>3. \A f \in Handlers : \A v \in Results : Performed(f, v)' <=> Performed(f, v)
    <3>1. CASE InStack(Switch \/ PollMany) \/ InStack(Take \/ Release)
      <4>1. UNCHANGED <<cq, res>>
        BY <3>1 DEF InStack, Switch, PollMany, TryPollMany, try_poll_many, Reap, Take, TakeBatch,
                    Release, ReleaseBatch, Outside, ringVars, pollerVars
      <4> QED
        BY <1>3, <4>1
    <3>2. CASE InStack(Dispatch)
      <4> SUFFICES ASSUME NEW f \in Handlers, NEW v \in Results
                   PROVE  Performed(f, v)' <=> Performed(f, v)
        OBVIOUS
      <4>1. Reported(f, "op", {v})' <=> Reported(f, "op", {v})
        BY <1>0, <1>1, <3>2, DispatchReports DEF InStack
      <4>2. Performed(f, v)' <=> Reported(f, "op", {v})'
        BY DEF Performed, Reported
      <4> QED
        BY <4>1, <4>2, PerformedReported
    <3> QED
      BY <1>7, <3>1, <3>2 DEF Loop, InStack
  <2>4. \A g \in Handlers : InCall(g)' <=> InCall(g)
    BY <2>2 DEF InCall
  <2> QED
    BY <1>2, <2>1, <2>2, <2>3, <2>4, QuietStack, QuietServing
<1> QED
  BY <1>4, <1>5, <1>6, <1>7

(* Copying into a buffer of a fiber (srv2.cc:119-122) keeps its type and   *)
(* leaves at least what is copied.                                         *)
LEMMA PutFacts ==
  ASSUME NEW S, NEW b \in Seq(S), NEW body \in Seq(S)
  PROVE  Put(b, body) \in Seq(S) /\ Len(Put(b, body)) >= Len(body)
<1>1. Len(b) \in Nat /\ Len(body) \in Nat
  BY LenProperties
<1>2. \A i \in Len(body) + 1 .. Len(b) : b[i] \in S
  BY <1>1, ElementOfSeq
<1>3. PICK rest : rest = SubSeq(b, Len(body) + 1, Len(b))
  OBVIOUS
<1>4. rest \in Seq(S)
  BY <1>1, <1>2, <1>3, SubSeqProperties
<1>5. Len(rest) \in Nat
  BY <1>4, LenProperties
<1>6. body \o rest \in Seq(S) /\ Len(body \o rest) = Len(body) + Len(rest)
  BY <1>4, ConcatProperties
<1>7. Put(b, body) = body \o rest
  BY <1>3 DEF Put
<1> QED
  BY <1>1, <1>5, <1>6, <1>7

(* The beginning of a buffer that is long enough.                          *)
LEMMA BeginningFacts ==
  ASSUME NEW S, NEW b \in Seq(S), NEW n \in Nat, n <= Len(b)
  PROVE  /\ SubSeq(b, 1, n) \in Seq(S)
         /\ Len(SubSeq(b, 1, n)) = n
         /\ \A i \in 1 .. n : SubSeq(b, 1, n)[i] = b[i]
<1>1. Len(b) \in Nat
  BY LenProperties
<1>2. \A i \in 1 .. n : b[i] \in S
  BY <1>1, ElementOfSeq
<1>3. /\ SubSeq(b, 1, n) \in Seq(S)
      /\ Len(SubSeq(b, 1, n)) = IF 1 <= n THEN n - 1 + 1 ELSE 0
      /\ \A i \in 1 .. n - 1 + 1 : SubSeq(b, 1, n)[i] = b[1 + i - 1]
  BY <1>2, SubSeqProperties
<1> QED
  BY <1>3

(* A step that concerns one handler only leaves the others as they are.    *)
LEMMA OthersServe ==
  ASSUME Serving, NEW f \in Handlers,
         \A g \in Handlers \ {f} :
           /\ pc'[g] = pc[g] /\ call'[g] = call[g] /\ prog'[g] = prog[g]
           /\ buf'[g] = buf[g] /\ msg'[g] = msg[g]
           /\ \A v \in Results : Performed(g, v)' <=> Performed(g, v),
         Server \in bound => Server \in bound'
  PROVE  \A g \in Handlers \ {f} :
           /\ CallOfProg(g)' /\ MessageInBuf(g)' /\ PlainResults(g)'
           /\ Phase(g)' = Phase(g)
<1> SUFFICES ASSUME NEW g \in Handlers \ {f}
             PROVE  /\ CallOfProg(g)' /\ MessageInBuf(g)' /\ PlainResults(g)'
                    /\ Phase(g)' = Phase(g)
  OBVIOUS
<1>1. CallOfProg(g) /\ MessageInBuf(g) /\ PlainResults(g)
  BY DEF Serving
<1>2. InCall(g)' <=> InCall(g)
  BY DEF InCall
<1>3. CallOfProg(g)'
  BY <1>1, <1>2 DEF CallOfProg
<1>4. MessageInBuf(g)'
  BY <1>1 DEF MessageInBuf
<1>5. PlainResults(g)'
  BY <1>1 DEF PlainResults
<1>6. Phase(g)' = Phase(g)
  BY <1>2, QuietPhase
<1> QED
  BY <1>3, <1>4, <1>5, <1>6

(* A fiber that is not in a call has nothing in the ring, and one that     *)
(* starts a call has no result.                                            *)
LEMMA BeginUnperformed ==
  ASSUME IInv, NEW f \in Fibers, NEW k \in Calls, Begin(f, k)
  PROVE  /\ \A v \in Results : ~Performed(f, v)'
         /\ \A g \in Fibers \ {f} : \A v : Performed(g, v)' <=> Performed(g, v)
         /\ pc[f] = "ready" /\ pc' = [pc EXCEPT ![f] = "getop"]
         /\ call' = [call EXCEPT ![f] = k]
         /\ UNCHANGED outcome
<1>1. /\ pc[f] = "ready" /\ pc' = [pc EXCEPT ![f] = "getop"]
      /\ call' = [call EXCEPT ![f] = k] /\ res' = [res EXCEPT ![f] = NotSet]
      /\ UNCHANGED <<cq, outcome>>
  BY DEF Begin, At, Goto, ringVars
<1>2. res \in [Fibers -> [Roles -> Results \cup {"ENOCQE"}]]
  BY DEF IInv, TypeOK, PollerTypeOK
<1>3. ~Outstanding(f, "op")
  BY <1>1 DEF IInv, OwedSetters
<1>4. \A i \in 1 .. Len(cq) : ~(cq[i].fiber = f /\ cq[i].role = "op")
  BY <1>3 DEF Outstanding, InCq
<1>5. res'[f].op = "ENOCQE" /\ \A g \in Fibers \ {f} : res'[g] = res[g]
  BY <1>1, <1>2 DEF NotSet
<1> QED
  BY <1>1, <1>4, <1>5, VerdictSets DEF Performed

(* Calling recvmsg (srv2.cc:115) is a stutter of the service: the kernel   *)
(* has written nothing yet.                                                *)
LEMMA RecvServes ==
  ASSUME IInv, Serving, NEW f \in Handlers, CallRecvmsg(f)
  PROVE  Serving' /\ UNCHANGED Echo!vars
<1>1. f \in Fibers /\ f # Root /\ "recv" \in Calls
  BY DEF Handlers, Calls
<1>2. /\ pc \in [Fibers -> PCs] /\ call \in [Fibers -> Calls] /\ Root \in Fibers
      /\ pc[Root] \in {"ready", "done"}
  BY SchedulerAssumption DEF IInv, TypeOK, SubmitterTypeOK, PollerTypeOK, Serving
<1>3. /\ prog[f] = "recv" /\ Begin(f, "recv") /\ UNCHANGED <<netVars, echoVars>>
      /\ CallOfProg(f) /\ MessageInBuf(f)
  BY DEF CallRecvmsg, Serving
<1>4. /\ \A v \in Results : ~Performed(f, v)'
      /\ \A g \in Fibers \ {f} : \A v : Performed(g, v)' <=> Performed(g, v)
      /\ pc[f] = "ready" /\ pc' = [pc EXCEPT ![f] = "getop"]
      /\ call' = [call EXCEPT ![f] = "recv"]
      /\ UNCHANGED outcome
  BY <1>1, <1>3, BeginUnperformed
<1>5. \A g \in Handlers \ {f} : pc'[g] = pc[g] /\ call'[g] = call[g]
  BY <1>2, <1>4 DEF Handlers
<1>6. pc'[f] = "getop" /\ call'[f] = "recv" /\ pc'[Root] = pc[Root]
  BY <1>1, <1>2, <1>4
<1>7. \A g \in Handlers \ {f} :
        /\ CallOfProg(g)' /\ MessageInBuf(g)' /\ PlainResults(g)'
        /\ Phase(g)' = Phase(g)
  BY <1>3, <1>4, <1>5, OthersServe DEF netVars, echoVars, Handlers
<1>8. CallOfProg(f)' /\ MessageInBuf(f)' /\ PlainResults(f)'
  <2>1. CallOfProg(f)'
    BY <1>3, <1>4, <1>6 DEF CallOfProg, InCall, netVars, echoVars
  <2>2. MessageInBuf(f)'
    BY <1>3 DEF MessageInBuf, echoVars
  <2>3. PlainResults(f)'
    BY <1>4 DEF PlainResults
  <2> QED
    BY <2>1, <2>2, <2>3
<1>9. Phase(f)' = Phase(f)
  <2>1. Phase(f) = "recv"
    BY <1>3, <1>4 DEF Phase, Taken, Replying, InCall
  <2>2. prog'[f] = "recv"
    BY <1>3 DEF echoVars
  <2>3. Phase(f)' = "recv"
    BY <1>4, <2>2 DEF Phase, Taken, Replying
  <2> QED
    BY <2>1, <2>3
<1>10. EchoTypeOK'
  BY <1>3 DEF Serving, EchoTypeOK, NetTypeOK, netVars, echoVars
<1>11. Serving'
  BY <1>2, <1>6, <1>7, <1>8, <1>10 DEF Serving
<1>12. \A g \in Handlers : Phase(g)' = Phase(g)
  BY <1>7, <1>9
<1> QED
  BY <1>3, <1>4, <1>11, <1>12 DEF Echo!vars, ServerStatus, netVars, echoVars

(* A handler that has the result of its operation has no other one coming. *)
LEMMA ReturnPerformed ==
  ASSUME IInv, Serving, NEW f \in Handlers, At(f, "await")
  PROVE  /\ res[f].op \in {"ok"} \cup OpErrors /\ res[f].op \in Results
         /\ \A v : Performed(f, v) <=> v = res[f].op
         /\ prog[f] \in {"recv", "send"} /\ call[f] = prog[f] /\ InCall(f)
<1>1. f \in Fibers /\ InCall(f) /\ CallOfProg(f) /\ PlainResults(f)
  BY DEF Handlers, Serving, At, InCall
<1>2. HasResults(f)
  BY <1>1 DEF IInv, Ready, Scheduled, At
<1>3. res[f].op \in Results
  BY <1>1, <1>2 DEF HasResults, IInv, TypeOK, PollerTypeOK, Roles
<1>4. ~Outstanding(f, "op")
  BY <1>1, <1>2 DEF IInv, OwedSetters, HasResults
<1>5. \A v : Performed(f, v) <=> v = res[f].op
  BY <1>4 DEF Performed, Outstanding, InCq
<1> QED
  BY <1>1, <1>3, <1>5 DEF PlainResults, CallOfProg

(* A call returns (submitter.cc:24-29): the service takes no step, or the  *)
(* process dies of a failed sendmsg.                                       *)
LEMMA ReturnServes ==
  ASSUME IInv, Serving, NEW f \in Handlers, CallReturns(f)
  PROVE  (Running' => Serving') /\ [Echo!Next]_(Echo!vars)
<1>1. /\ f \in Fibers /\ f # Root /\ Return(f) /\ At(f, "await") /\ UNCHANGED <<cq, res, call>>
      /\ outcome' = Death(call[f], res[f]) /\ outcome = "running"
      /\ prog' = [prog EXCEPT ![f] = IF outcome' # "running" THEN @
                                     ELSE IF @ = "recv" THEN "double" ELSE "recv"]
      /\ UNCHANGED <<netVars, buf, msg, asked>>
  BY DEF CallReturns, Return, At, Running, Handlers, ringVars, pollerVars
<1>2. /\ res[f].op \in {"ok"} \cup OpErrors /\ res[f].op \in Results
      /\ \A v : Performed(f, v) <=> v = res[f].op
      /\ prog[f] \in {"recv", "send"} /\ call[f] = prog[f] /\ InCall(f)
  BY <1>1, ReturnPerformed
<1>3. \A g, v : Performed(g, v)' <=> Performed(g, v)
  BY <1>1 DEF Performed
<1>4. /\ pc \in [Fibers -> PCs] /\ Root \in Fibers /\ pc[Root] \in {"ready", "done"}
      /\ prog \in [Handlers -> {"recv", "double", "send"}]
      /\ CallOfProg(f) /\ MessageInBuf(f) /\ PlainResults(f)
  BY SchedulerAssumption DEF IInv, TypeOK, SubmitterTypeOK, Serving, EchoTypeOK
<1>5. "ENOCQE" \notin Results /\ "ok" \in Results
  BY VerdictSets DEF Results
<1>6. CASE prog[f] = "recv" \/ res[f].op = "ok"
  <2>1. outcome' = "running"
    BY <1>1, <1>2, <1>5, <1>6 DEF Death
  <2>2. /\ pc' = [pc EXCEPT ![f] = "ready"]
        /\ prog' = [prog EXCEPT ![f] = IF @ = "recv" THEN "double" ELSE "recv"]
    BY <1>1, <2>1 DEF Return, Goto
  <2>3. /\ pc'[f] = "ready" /\ prog'[f] = IF prog[f] = "recv" THEN "double" ELSE "recv"
        /\ pc'[Root] = pc[Root]
        /\ \A g \in Handlers \ {f} : pc'[g] = pc[g] /\ prog'[g] = prog[g]
    BY <1>1, <1>4, <2>2 DEF Handlers
  <2>4. \A g \in Handlers \ {f} :
          /\ CallOfProg(g)' /\ MessageInBuf(g)' /\ PlainResults(g)'
          /\ Phase(g)' = Phase(g)
    BY <1>1, <1>3, <2>3, OthersServe DEF netVars
  <2>5. CallOfProg(f)'
    BY <1>1, <1>2, <1>4, <2>3 DEF CallOfProg, InCall, netVars
  <2>6. MessageInBuf(f)'
    BY <1>1, <1>4, <2>3 DEF MessageInBuf
  <2>7. PlainResults(f)'
    BY <1>3, <1>4 DEF PlainResults
  <2>8. EchoTypeOK'
    BY <1>1, <2>2 DEF Serving, EchoTypeOK, NetTypeOK, netVars
  <2>9. Serving'
    BY <1>4, <2>3, <2>4, <2>5, <2>6, <2>7, <2>8 DEF Serving
  <2>10. Phase(f)' = Phase(f)
    <3>1. CASE prog[f] = "recv"
      <4>1. Taken(f)
        BY <1>2, <3>1 DEF Taken
      <4>2. Taken(f)'
        BY <2>3, <3>1 DEF Taken
      <4> QED
        BY <4>1, <4>2 DEF Phase
    <3>2. CASE prog[f] = "send"
      <4>1. ~Taken(f) /\ ~Replying(f)
        BY <1>2, <1>6, <3>2 DEF Taken, Replying
      <4>2. ~Taken(f)' /\ ~Replying(f)'
        BY <2>3, <3>2 DEF Taken, Replying, InCall
      <4> QED
        BY <4>1, <4>2 DEF Phase
    <3> QED
      BY <1>2, <3>1, <3>2
  <2>11. \A g \in Handlers : Phase(g)' = Phase(g)
    BY <2>4, <2>10
  <2>12. UNCHANGED Echo!vars
    BY <1>1, <2>1, <2>11 DEF Echo!vars, ServerStatus, netVars
  <2> QED
    BY <2>9, <2>12
<1>7. CASE prog[f] = "send" /\ res[f].op # "ok"
  <2>1. outcome' = "bad sendmsg"
    BY <1>1, <1>2, <1>5, <1>7 DEF Death
  <2>2. UNCHANGED <<pc, prog>>
    BY <1>1, <1>4, <2>1 DEF Return
  <2>3. \A g \in Handlers : Phase(g)' = Phase(g)
    <3>1. \A g \in Handlers : prog'[g] = prog[g] /\ (InCall(g)' <=> InCall(g))
      BY <2>2 DEF InCall
    <3> QED
      BY <1>3, <3>1, QuietPhase
  <2>4. Phase(f) = "send"
    BY <1>2, <1>7 DEF Phase, Taken, Replying
  <2>5. Server \in bound /\ OpErrors # {}
    BY <1>2, <1>4, <1>7 DEF CallOfProg, InCall
  <2>6. Echo!ServerSendFails(f)
    BY <1>1, <2>1, <2>3, <2>4, <2>5 DEF ServerStatus, Echo!ServerSendFails, Echo!netVars, netVars
  <2> QED
    BY <1>1, <2>1, <2>6 DEF Running, Echo!Next, Echo!ServerStep
<1> QED
  BY <1>2, <1>6, <1>7

(* What a handler between its two calls sees of its message is what the    *)
(* service has taken (srv2.cc:116-118).                                    *)
LEMMA MessageTaken ==
  ASSUME Serving, NEW f \in Handlers, prog[f] = "double"
  PROVE  /\ Phase(f) = "got" /\ Server \in bound
         /\ buf[f] \in Seq(Clients) /\ msg[f].len \in Nat /\ msg[f].len <= Len(buf[f])
         /\ Message(f) \in Seq(Clients) /\ Len(Message(f)) = msg[f].len
         /\ TooLong(f) <=> \E i \in 1 .. Len(Message(f)) : Message(f)[i] \in LongPayloads
<1>1. CallOfProg(f) /\ MessageInBuf(f) /\ EchoTypeOK
  BY DEF Serving
<1>2. Phase(f) = "got" /\ Server \in bound
  BY <1>1 DEF Phase, Taken, CallOfProg
<1>3. buf[f] \in Seq(Clients) /\ msg[f].len \in Nat /\ msg[f].len <= Len(buf[f])
  BY <1>1 DEF EchoTypeOK, MessageInBuf
<1>4. /\ Message(f) \in Seq(Clients) /\ Len(Message(f)) = msg[f].len
      /\ \A i \in 1 .. msg[f].len : Message(f)[i] = buf[f][i]
  BY <1>3, BeginningFacts DEF Message
<1> QED
  BY <1>2, <1>3, <1>4 DEF TooLong

(* The process dies of a message that is too long (srv2.cc:117).           *)
LEMMA PanicServes ==
  ASSUME IInv, Serving, NEW f \in Handlers, Panic(f)
  PROVE  ~Running' /\ [Echo!Next]_(Echo!vars)
<1>1. /\ outcome = "running" /\ outcome' = "Too long message" /\ prog[f] = "double" /\ TooLong(f)
      /\ UNCHANGED <<pc, cq, res, netVars, echoVars>>
  BY DEF Panic, At, Running, ringVars, pollerVars
<1>2. \A g \in Handlers : Phase(g)' = Phase(g)
  <2>1. \A g \in Handlers : /\ prog'[g] = prog[g] /\ (InCall(g)' <=> InCall(g))
                            /\ \A v : Performed(g, v)' <=> Performed(g, v)
    BY <1>1 DEF InCall, Performed, echoVars
  <2> QED
    BY <2>1, QuietPhase
<1>3. /\ Phase(f) = "got" /\ Server \in bound
      /\ \E i \in 1 .. Len(Message(f)) : Message(f)[i] \in LongPayloads
  BY <1>1, MessageTaken
<1>4. Echo!ServerDouble(f)
  BY <1>1, <1>2, <1>3 DEF ServerStatus, Echo!ServerDouble, Echo!BufOf, Echo!netVars, netVars, echoVars,
                        Message
<1> QED
  BY <1>1, <1>4 DEF Running, Echo!Next, Echo!ServerStep, echoVars

(* The handler doubles its message and calls sendmsg (srv2.cc:119-125).    *)
LEMMA SendServes ==
  ASSUME IInv, Serving, Running, NEW f \in Handlers, CallSendmsg(f)
  PROVE  Serving' /\ [Echo!Next]_(Echo!vars)
<1>1. f \in Fibers /\ f # Root /\ "send" \in Calls /\ outcome = "running"
  BY DEF Handlers, Calls, Running
<1>2. /\ pc \in [Fibers -> PCs] /\ call \in [Fibers -> Calls] /\ Root \in Fibers
      /\ pc[Root] \in {"ready", "done"} /\ EchoTypeOK
  BY SchedulerAssumption DEF IInv, TypeOK, SubmitterTypeOK, PollerTypeOK, Serving
<1>3. /\ prog[f] = "double" /\ ~TooLong(f) /\ Begin(f, "send")
      /\ buf' = [buf EXCEPT ![f] = Put(@, Message(f) \o Message(f))]
      /\ prog' = [prog EXCEPT ![f] = "send"]
      /\ UNCHANGED <<netVars, msg, asked>>
  BY DEF CallSendmsg
<1>4. /\ \A v \in Results : ~Performed(f, v)'
      /\ \A g \in Fibers \ {f} : \A v : Performed(g, v)' <=> Performed(g, v)
      /\ pc[f] = "ready" /\ pc' = [pc EXCEPT ![f] = "getop"]
      /\ call' = [call EXCEPT ![f] = "send"]
      /\ UNCHANGED outcome
  BY <1>1, <1>3, BeginUnperformed
<1>5. /\ Phase(f) = "got" /\ Server \in bound
      /\ buf[f] \in Seq(Clients) /\ msg[f].len \in Nat
      /\ Message(f) \in Seq(Clients) /\ Len(Message(f)) = msg[f].len
      /\ ~ \E i \in 1 .. Len(Message(f)) : Message(f)[i] \in LongPayloads
  BY <1>3, MessageTaken
<1>6. /\ Put(buf[f], Message(f) \o Message(f)) \in Seq(Clients)
      /\ Len(Put(buf[f], Message(f) \o Message(f))) >= 2 * msg[f].len
  <2>1. PICK m \in Seq(Clients) : m = Message(f) /\ Len(m) = msg[f].len
    BY <1>5
  <2>2. m \o m \in Seq(Clients) /\ Len(m \o m) = Len(m) + Len(m)
    BY ConcatProperties
  <2>3. PICK b \in Seq(Clients) : b = m \o m /\ Len(b) = Len(m) + Len(m)
    BY <2>2
  <2>4. Put(buf[f], b) \in Seq(Clients) /\ Len(Put(buf[f], b)) >= Len(b)
    BY <1>5, PutFacts
  <2>5. Len(b) = 2 * msg[f].len
    BY <1>5, <2>1, <2>3
  <2> QED
    BY <2>1, <2>3, <2>4, <2>5
<1>7. EchoTypeOK'
  <2>1. NetTypeOK' /\ msg' = msg
    BY <1>2, <1>3 DEF EchoTypeOK, NetTypeOK, netVars
  <2>2. buf' \in [Handlers -> Seq(Clients)]
    BY <1>2, <1>3, <1>6 DEF EchoTypeOK
  <2>3. prog' \in [Handlers -> {"recv", "double", "send"}]
    BY <1>2, <1>3 DEF EchoTypeOK
  <2> QED
    BY <1>2, <2>1, <2>2, <2>3 DEF EchoTypeOK
<1>8. /\ pc'[f] = "getop" /\ call'[f] = "send" /\ prog'[f] = "send" /\ msg'[f] = msg[f]
      /\ pc'[Root] = pc[Root] /\ buf'[f] = Put(buf[f], Message(f) \o Message(f))
      /\ \A g \in Handlers \ {f} :
           /\ pc'[g] = pc[g] /\ call'[g] = call[g] /\ prog'[g] = prog[g]
           /\ buf'[g] = buf[g] /\ msg'[g] = msg[g]
  <2>1. pc'[f] = "getop" /\ call'[f] = "send" /\ pc'[Root] = pc[Root]
    BY <1>1, <1>2, <1>4
  <2>2. \A g \in Handlers \ {f} : pc'[g] = pc[g] /\ call'[g] = call[g]
    BY <1>2, <1>4 DEF Handlers
  <2> QED
    BY <1>2, <1>3, <2>1, <2>2 DEF EchoTypeOK
<1>9. \A g \in Handlers \ {f} :
        /\ CallOfProg(g)' /\ MessageInBuf(g)' /\ PlainResults(g)'
        /\ Phase(g)' = Phase(g)
  <2>1. \A g \in Handlers \ {f} : \A v \in Results : Performed(g, v)' <=> Performed(g, v)
    BY <1>4 DEF Handlers
  <2> QED
    BY <1>3, <1>8, <2>1, OthersServe DEF netVars
<1>10. CallOfProg(f)' /\ MessageInBuf(f)' /\ PlainResults(f)'
  <2>1. CallOfProg(f)'
    BY <1>3, <1>5, <1>8 DEF CallOfProg, InCall, netVars
  <2>2. MessageInBuf(f)'
    <3>1. Len(buf'[f]) \in Nat
      BY <1>6, <1>8, LenProperties
    <3> QED
      BY <1>5, <1>6, <1>8, <3>1 DEF MessageInBuf
  <2>3. PlainResults(f)'
    BY <1>4 DEF PlainResults
  <2> QED
    BY <2>1, <2>2, <2>3
<1>11. Serving'
  BY <1>2, <1>7, <1>8, <1>9, <1>10 DEF Serving
<1>12. Phase(f)' = "send"
  <2>1. "ok" \in Results
    BY DEF Results
  <2> QED
    BY <1>4, <1>8, <2>1 DEF Phase, Taken, Replying
<1>13. Echo!ServerDouble(f)
  <2>1. [g \in Handlers |-> Phase(g)]' = [[g \in Handlers |-> Phase(g)] EXCEPT ![f] = "send"]
    BY <1>9, <1>12
  <2>2. [g \in Handlers |-> IF Phase(g) = "recv" THEN NoMsg ELSE msg[g]]' =
          [g \in Handlers |-> IF Phase(g) = "recv" THEN NoMsg ELSE msg[g]]
    BY <1>3, <1>5, <1>9, <1>12
  <2>3. [g \in Handlers |-> IF Phase(g) = "recv" THEN NoMsg ELSE msg[g]][f] = msg[f]
    BY <1>5
  <2>4. buf' = [buf EXCEPT ![f] = Echo!Overwrite(@, Message(f) \o Message(f))]
    BY <1>3 DEF Put, Echo!Overwrite
  <2>5. [g \in Handlers |-> Phase(g)][f] = "got"
    BY <1>5
  <2>6. ServerStatus = "up" /\ ServerStatus' = "up" /\ UNCHANGED netVars
    BY <1>1, <1>3, <1>4, <1>5 DEF netVars, ServerStatus
  <2>7. Echo!netVars' = Echo!netVars
    BY <2>6 DEF Echo!netVars, netVars
  <2>8. Message(f) = SubSeq(buf[f], 1, msg[f].len)
    BY DEF Message
  <2> QED
    BY <1>5, <2>1, <2>2, <2>3, <2>4, <2>5, <2>6, <2>7, <2>8 DEF Echo!ServerDouble, Echo!BufOf
<1> QED
  BY <1>3, <1>11, <1>13 DEF Echo!Next, Echo!ServerStep

(* The kernel performs a handler's operation (ring.cc:46-57): the call it  *)
(* belongs to, and what the step leaves alone.                             *)
LEMMA PerformOne ==
  ASSUME IInv, Serving, Running, NEW r \in inflight, NEW v \in {"ok"} \cup OpErrors, Post(r, v),
         UNCHANGED <<bound, prog>>,
         \A g \in Handlers \ {r.fiber} : buf'[g] = buf[g] /\ msg'[g] = msg[g],
         EchoTypeOK', MessageInBuf(r.fiber)'
  PROVE  /\ r.fiber \in Handlers /\ Server \in bound
         /\ outcome = "running" /\ outcome' = "running"
         /\ prog[r.fiber] \in {"recv", "send"} /\ call[r.fiber] = prog[r.fiber]
         /\ Phase(r.fiber) = prog[r.fiber]
         /\ Phase(r.fiber)' = IF prog[r.fiber] = "recv" THEN "got"
                              ELSE IF v = "ok" THEN "recv" ELSE "send"
         /\ \A g \in Handlers \ {r.fiber} : Phase(g)' = Phase(g)
         /\ Serving'
<1>1. PICK f : f = r.fiber
  OBVIOUS
<1>2. v \in Results /\ v # "ENOCQE" /\ "ENOCQE" \notin Results /\ "ok" \in Results
  BY VerdictSets DEF Results
<1>3. /\ f \in Fibers /\ InCall(f)
      /\ \A u : u # "ENOCQE" => ~Performed(f, u) /\ (Performed(f, u)' <=> u = v)
      /\ \A g : g # f => \A u : Performed(g, u)' <=> Performed(g, u)
      /\ UNCHANGED <<pc, call, res, outcome, current>>
  BY <1>1, <1>2, PostPerforms
<1>4. f \in Handlers
  BY <1>3 DEF Handlers, Serving, InCall
<1>5. CallOfProg(f)
  BY <1>4 DEF Serving
<1>6. prog[f] \in {"recv", "send"} /\ call[f] = prog[f] /\ Server \in bound
  BY <1>3, <1>5 DEF CallOfProg, InCall
<1>7. Phase(f) = prog[f]
  BY <1>2, <1>3, <1>6 DEF Phase, Taken, Replying
<1>8. Phase(f)' = IF prog[f] = "recv" THEN "got" ELSE IF v = "ok" THEN "recv" ELSE "send"
  <2>1. InCall(f)'
    BY <1>3 DEF InCall
  <2>2. Taken(f)' <=> prog[f] = "recv"
    BY <1>2, <1>3, <1>6, <2>1 DEF Taken
  <2>3. Replying(f)' <=> prog[f] = "send" /\ v # "ok"
    BY <1>2, <1>3, <1>6 DEF Replying
  <2> QED
    BY <1>6, <2>2, <2>3 DEF Phase
<1>9. \A g \in Handlers \ {f} :
        /\ CallOfProg(g)' /\ MessageInBuf(g)' /\ PlainResults(g)'
        /\ Phase(g)' = Phase(g)
  BY <1>1, <1>3, <1>4, OthersServe
<1>10. CallOfProg(f)'
  BY <1>3, <1>5 DEF CallOfProg, InCall
<1>11. PlainResults(f)'
  BY <1>2, <1>3 DEF PlainResults
<1>12. Serving'
  BY <1>1, <1>3, <1>9, <1>10, <1>11 DEF Serving
<1> QED
  BY <1>1, <1>3, <1>4, <1>6, <1>7, <1>8, <1>9, <1>12 DEF Running

(* A datagram that is sent keeps the types of the network.                 *)
LEMMA TransmitTyped ==
  ASSUME NetTypeOK, NEW d \in Datagram, Transmit(d), UNCHANGED <<inbox, bound>>
  PROVE  NetTypeOK'
  BY DEF NetTypeOK, Transmit

(* So does one that is delivered, once or more often, or lost.             *)
LEMMA DeliverTyped ==
  ASSUME NetTypeOK, NEW d \in net, Deliver(d) \/ DeliverCopy(d) \/ Lose(d)
  PROVE  NetTypeOK'
<1>1. d \in Datagram /\ d.to \in Addresses /\ inbox[d.to] \in Seq(Datagram)
  BY DEF NetTypeOK, Datagram
<1>2. Append(inbox[d.to], d) \in Seq(Datagram)
  BY <1>1, AppendProperties
<1>3. net' \in SUBSET Datagram /\ bound' = bound
  BY DEF Deliver, DeliverCopy, Lose, Arrive, NetTypeOK
<1>4. inbox' \in [Addresses -> Seq(Datagram)]
  BY <1>2 DEF Deliver, DeliverCopy, Lose, Arrive, NetTypeOK
<1> QED
  BY <1>3, <1>4 DEF NetTypeOK

(* And one that the kernel takes from a socket, which is a datagram.       *)
LEMMA TakeTyped ==
  ASSUME NetTypeOK, NEW a \in Addresses, TakeFrom(a), UNCHANGED <<net, bound>>
  PROVE  NetTypeOK' /\ Head(inbox[a]) \in Datagram
<1>1. inbox[a] \in Seq(Datagram) /\ inbox[a] # <<>> /\ inbox' = [inbox EXCEPT ![a] = Tail(@)]
  BY DEF NetTypeOK, TakeFrom
<1>2. Head(inbox[a]) \in Datagram /\ Tail(inbox[a]) \in Seq(Datagram)
  BY <1>1, HeadTailProperties
<1> QED
  BY <1>1, <1>2 DEF NetTypeOK

(* The operations the kernel performs are the service's receives, failed   *)
(* receives and sends, and a failed send is seen when it is reported       *)
(* (srv2.cc:115-128).                                                      *)
LEMMA ReceiveServes ==
  ASSUME IInv, Serving, Running, NEW r \in inflight, ReceiveInto(r)
  PROVE  Serving' /\ [Echo!Next]_(Echo!vars)
<1>1. PICK f, d : f = r.fiber /\ d = Head(inbox[Server])
  OBVIOUS
<1>2. /\ call[f] = "recv" /\ Post(r, "ok") /\ TakeFrom(Server)
      /\ buf' = [buf EXCEPT ![f] = Put(@, d.body)]
      /\ msg' = [msg EXCEPT ![f] = [len |-> Len(d.body), peer |-> d.from, seq |-> d.seq]]
      /\ UNCHANGED <<net, bound, prog, asked>>
  BY <1>1 DEF ReceiveInto
<1>3. EchoTypeOK /\ NetTypeOK /\ Server \in Addresses
  BY DEF Serving, EchoTypeOK, Addresses
<1>4. NetTypeOK' /\ d \in Datagram
  BY <1>1, <1>2, <1>3, TakeTyped
<1>5. d.body \in Seq(Clients) /\ d.from \in Addresses /\ d.seq \in Nat /\ Len(d.body) \in Nat
  BY <1>4, LenProperties DEF Datagram
<1>6. f \in Handlers
  <2>1. f \in Fibers /\ InCall(f)
    BY <1>1, <1>2, PostPerforms DEF Results
  <2> QED
    BY <2>1 DEF Handlers, Serving, InCall
<1>7. Put(buf[f], d.body) \in Seq(Clients) /\ Len(Put(buf[f], d.body)) >= Len(d.body)
  BY <1>3, <1>5, <1>6, PutFacts DEF EchoTypeOK
<1>8. EchoTypeOK'
  <2>1. buf' \in [Handlers -> Seq(Clients)]
    BY <1>2, <1>3, <1>7 DEF EchoTypeOK
  <2>2. msg' \in [Handlers -> [len : Nat, peer : Addresses, seq : Nat]]
    BY <1>2, <1>3, <1>5 DEF EchoTypeOK
  <2> QED
    BY <1>2, <1>3, <1>4, <2>1, <2>2 DEF EchoTypeOK
<1>9. /\ buf'[f] = Put(buf[f], d.body)
      /\ msg'[f] = [len |-> Len(d.body), peer |-> d.from, seq |-> d.seq]
      /\ \A g \in Handlers \ {f} : buf'[g] = buf[g] /\ msg'[g] = msg[g]
  BY <1>2, <1>3, <1>6 DEF EchoTypeOK
<1>10. prog[f] = "recv"
  <2>1. f \in Fibers /\ InCall(f)
    BY <1>1, <1>2, PostPerforms DEF Results
  <2> QED
    BY <1>2, <1>6, <2>1 DEF Serving, CallOfProg
<1>11. MessageInBuf(f)'
  BY <1>2, <1>7, <1>9, <1>10 DEF MessageInBuf
<1>12. /\ Server \in bound /\ outcome = "running" /\ outcome' = "running"
       /\ Phase(f) = "recv" /\ Phase(f)' = "got"
       /\ \A g \in Handlers \ {f} : Phase(g)' = Phase(g)
       /\ Serving'
  BY <1>1, <1>2, <1>8, <1>9, <1>10, <1>11, PerformOne
<1>13. Echo!ServerReceive(f)
  <2>1. [g \in Handlers |-> Phase(g)]' = [[g \in Handlers |-> Phase(g)] EXCEPT ![f] = "got"]
    BY <1>12
  <2>2. [g \in Handlers |-> IF Phase(g) = "recv" THEN NoMsg ELSE msg[g]]' =
          [[g \in Handlers |-> IF Phase(g) = "recv" THEN NoMsg ELSE msg[g]] EXCEPT ![f] =
             [len |-> Len(d.body), peer |-> d.from, seq |-> d.seq]]
    BY <1>9, <1>12
  <2>3. buf' = [buf EXCEPT ![f] = Echo!Overwrite(@, d.body)]
    BY <1>2 DEF Put, Echo!Overwrite
  <2>4. [g \in Handlers |-> Phase(g)][f] = "recv"
    BY <1>6, <1>12
  <2>5. Echo!TakeFrom(Server)
    BY <1>2 DEF TakeFrom, Echo!TakeFrom
  <2>6. ServerStatus = "up" /\ ServerStatus' = "up"
    BY <1>2, <1>12 DEF ServerStatus
  <2> QED
    BY <1>1, <1>2, <2>1, <2>2, <2>3, <2>4, <2>5, <2>6 DEF Echo!ServerReceive, Echo!BufOf
<1> QED
  BY <1>2, <1>6, <1>12, <1>13 DEF Echo!Next, Echo!ServerStep

(* Whose operation the kernel performs.                                    *)
LEMMA PostOfHandler ==
  ASSUME IInv, Serving, NEW r \in inflight, NEW v \in {"ok"} \cup OpErrors, Post(r, v)
  PROVE  /\ r.fiber \in Handlers
         /\ prog[r.fiber] \in {"recv", "send"} /\ call[r.fiber] = prog[r.fiber]
<1>1. v \in Results
  BY DEF Results
<1>2. r.fiber \in Fibers /\ InCall(r.fiber)
  BY <1>1, PostPerforms
<1>3. r.fiber \in Handlers
  BY <1>2 DEF Handlers, Serving, InCall
<1> QED
  BY <1>2, <1>3 DEF Serving, CallOfProg

(* A failed recvmsg (srv2.cc:115) is a failed receive of the service, with *)
(* an address nobody has written.                                          *)
LEMMA FailReceiveServes ==
  ASSUME IInv, Serving, Running, NEW r \in inflight, FailReceive(r)
  PROVE  Serving' /\ [Echo!Next]_(Echo!vars)
<1>1. PICK f : f = r.fiber
  OBVIOUS
<1>2. PICK v \in OpErrors : Post(r, v)
  BY DEF FailReceive
<1>3. PICK a \in Unwritten : msg' = [msg EXCEPT ![f] = [len |-> 0, peer |-> a, seq |-> 0]]
  BY <1>1 DEF FailReceive
<1>4. call[f] = "recv" /\ UNCHANGED <<netVars, prog, buf, asked>>
  BY <1>1 DEF FailReceive
<1>5. a \in Addresses /\ EchoTypeOK
  BY <1>3, EchoOnRingAssumption DEF Serving
<1>6. f \in Handlers /\ prog[f] = "recv"
  BY <1>1, <1>2, <1>4, PostOfHandler
<1>7. EchoTypeOK'
  <2>1. msg' \in [Handlers -> [len : Nat, peer : Addresses, seq : Nat]]
    BY <1>3, <1>5 DEF EchoTypeOK
  <2> QED
    BY <1>4, <1>5, <2>1 DEF EchoTypeOK, NetTypeOK, netVars
<1>8. /\ msg'[f] = [len |-> 0, peer |-> a, seq |-> 0]
      /\ \A g \in Handlers \ {f} : buf'[g] = buf[g] /\ msg'[g] = msg[g]
  BY <1>3, <1>4, <1>5, <1>6 DEF EchoTypeOK
<1>9. MessageInBuf(f)'
  <2>1. buf'[f] \in Seq(Clients)
    BY <1>6, <1>7 DEF EchoTypeOK
  <2>2. Len(buf'[f]) \in Nat
    BY <2>1, LenProperties
  <2> QED
    BY <1>4, <1>6, <1>8, <2>2 DEF MessageInBuf
<1>10. UNCHANGED bound
  BY <1>4 DEF netVars
<1>11. /\ Server \in bound /\ outcome = "running" /\ outcome' = "running"
       /\ Phase(f) = "recv" /\ Phase(f)' = "got"
       /\ \A g \in Handlers \ {f} : Phase(g)' = Phase(g)
       /\ Serving'
  BY <1>1, <1>2, <1>4, <1>6, <1>7, <1>8, <1>9, <1>10, PerformOne
<1>12. Echo!ServerReceiveFails(f)
  <2>1. [g \in Handlers |-> Phase(g)]' = [[g \in Handlers |-> Phase(g)] EXCEPT ![f] = "got"]
    BY <1>11
  <2>2. [g \in Handlers |-> IF Phase(g) = "recv" THEN NoMsg ELSE msg[g]]' =
          [[g \in Handlers |-> IF Phase(g) = "recv" THEN NoMsg ELSE msg[g]] EXCEPT ![f] =
             [len |-> 0, peer |-> a, seq |-> 0]]
    BY <1>8, <1>11
  <2>3. [g \in Handlers |-> Phase(g)][f] = "recv"
    BY <1>6, <1>11
  <2>4. ServerStatus = "up" /\ ServerStatus' = "up"
    BY <1>10, <1>11 DEF ServerStatus
  <2>5. a \in Echo!Addresses /\ OpErrors # {} /\ UNCHANGED buf
    BY <1>2, <1>4, <1>5 DEF Addresses, Echo!Addresses
  <2>6. UNCHANGED Echo!netVars
    BY <1>4 DEF netVars, Echo!netVars
  <2> QED
    BY <2>1, <2>2, <2>3, <2>4, <2>5, <2>6 DEF Echo!ServerReceiveFails
<1> QED
  BY <1>4, <1>6, <1>11, <1>12 DEF Echo!Next, Echo!ServerStep

(* A sendmsg (srv2.cc:127) sends the message twice to whom it came from.   *)
LEMMA SendFromServes ==
  ASSUME IInv, Serving, Running, NEW r \in inflight, SendFrom(r)
  PROVE  Serving' /\ [Echo!Next]_(Echo!vars)
<1>1. PICK f : f = r.fiber
  OBVIOUS
<1>2. PICK d : d = [to |-> msg[f].peer, from |-> Server, seq |-> msg[f].seq,
                    body |-> SubSeq(buf[f], 1, 2 * msg[f].len)]
  OBVIOUS
<1>3. call[f] = "send" /\ Post(r, "ok") /\ Transmit(d) /\ UNCHANGED <<inbox, bound, echoVars>>
  BY <1>1, <1>2 DEF SendFrom
<1>4. f \in Handlers /\ prog[f] = "send"
  BY <1>1, <1>3, PostOfHandler
<1>5. EchoTypeOK /\ NetTypeOK /\ Server \in Addresses /\ MessageInBuf(f)
  BY <1>4 DEF Serving, EchoTypeOK, Addresses
<1>6. d \in Datagram
  <2>1. /\ msg[f].peer \in Addresses /\ msg[f].seq \in Nat /\ msg[f].len \in Nat
        /\ buf[f] \in Seq(Clients)
    BY <1>4, <1>5 DEF EchoTypeOK
  <2>2. 2 * msg[f].len <= Len(buf[f]) /\ 2 * msg[f].len \in Nat
    BY <1>4, <1>5, <2>1 DEF MessageInBuf
  <2>3. SubSeq(buf[f], 1, 2 * msg[f].len) \in Seq(Clients)
    BY <2>1, <2>2, BeginningFacts
  <2> QED
    BY <1>2, <1>5, <2>1, <2>3 DEF Datagram
<1>7. EchoTypeOK'
  BY <1>3, <1>5, <1>6, TransmitTyped DEF EchoTypeOK, echoVars
<1>8. MessageInBuf(f)' /\ UNCHANGED <<bound, prog, buf, msg>>
  BY <1>3, <1>5 DEF MessageInBuf, echoVars
<1>9. /\ Server \in bound /\ outcome = "running" /\ outcome' = "running"
      /\ Phase(f) = "send" /\ Phase(f)' = "recv"
      /\ \A g \in Handlers \ {f} : Phase(g)' = Phase(g)
      /\ Serving'
  BY <1>1, <1>3, <1>4, <1>7, <1>8, PerformOne
<1>10. Echo!ServerSend(f)
  <2>1. [g \in Handlers |-> Phase(g)]' = [[g \in Handlers |-> Phase(g)] EXCEPT ![f] = "recv"]
    BY <1>9
  <2>2. [g \in Handlers |-> IF Phase(g) = "recv" THEN NoMsg ELSE msg[g]]' =
          [[g \in Handlers |-> IF Phase(g) = "recv" THEN NoMsg ELSE msg[g]] EXCEPT ![f] = NoMsg]
    BY <1>8, <1>9
  <2>3. /\ [g \in Handlers |-> IF Phase(g) = "recv" THEN NoMsg ELSE msg[g]][f] = msg[f]
        /\ [g \in Handlers |-> Phase(g)][f] = "send"
    BY <1>4, <1>9
  <2>4. Echo!Transmit(d)
    BY <1>3 DEF Transmit, Echo!Transmit
  <2>5. ServerStatus = "up" /\ ServerStatus' = "up"
    BY <1>8, <1>9 DEF ServerStatus
  <2>6. Echo!NoMsg = NoMsg
    BY DEF Echo!NoMsg, NoMsg
  <2> QED
    BY <1>2, <1>3, <2>1, <2>2, <2>3, <2>4, <2>5, <2>6
    DEF Echo!ServerSend, Echo!BufOf, echoVars
<1> QED
  BY <1>3, <1>4, <1>9, <1>10 DEF Echo!Next, Echo!ServerStep, echoVars

(* A sendmsg that fails is not seen before it is reported.                 *)
LEMMA FailSendServes ==
  ASSUME IInv, Serving, Running, NEW r \in inflight, FailSend(r)
  PROVE  Serving' /\ [Echo!Next]_(Echo!vars)
<1>1. PICK f : f = r.fiber
  OBVIOUS
<1>2. PICK v \in OpErrors : Post(r, v)
  BY DEF FailSend
<1>3. call[f] = "send" /\ UNCHANGED <<netVars, echoVars>>
  BY <1>1 DEF FailSend
<1>4. f \in Handlers /\ prog[f] = "send" /\ v # "ok"
  BY <1>1, <1>2, <1>3, PostOfHandler, IoUringAssumption
<1>5. EchoTypeOK' /\ MessageInBuf(f)' /\ UNCHANGED <<bound, prog, buf, msg>>
  BY <1>3, <1>4 DEF Serving, EchoTypeOK, NetTypeOK, MessageInBuf, netVars, echoVars
<1>6. /\ outcome' = outcome
      /\ Phase(f) = "send" /\ Phase(f)' = "send"
      /\ \A g \in Handlers \ {f} : Phase(g)' = Phase(g)
      /\ Serving'
  BY <1>1, <1>2, <1>4, <1>5, PerformOne
<1>7. \A g \in Handlers : Phase(g)' = Phase(g)
  BY <1>6
<1> QED
  BY <1>3, <1>6, <1>7 DEF Echo!vars, ServerStatus, netVars, echoVars

(* A dead process does nothing.                                            *)
LEMMA OnlyWhileRunning ==
  ASSUME EchoNext, ~Running
  PROVE  UNCHANGED allVars
<1>1. \A f \in Handlers : ~SpawnHandler(f) /\ ~HandlerStep(f)
  BY DEF SpawnHandler, HandlerStep, InStack, Spawn, StackStep, Starve, SubmitUntimed, CallRecvmsg,
         Begin, CallReturns, Return, Panic, CallSendmsg, At
<1>2. ~OpenSocket /\ ~OpenFails /\ ~JoinHandlers
  BY DEF OpenSocket, OpenFails, JoinHandlers, InStack, Finish, At
<1>3. ~Loop /\ ~Kernel /\ ~Peers
  BY DEF Loop, InStack, Switch, PollMany, Dispatch, Kernel, Take, Release, Perform, ReceiveInto,
         FailReceive, SendFrom, FailSend, Post, Peers
<1> QED
  BY <1>1, <1>2, <1>3 DEF EchoNext, Dead

(* Root opens the socket (srv2.cc:106-112), or the process ends.           *)
LEMMA OpenServes ==
  ASSUME IInv, Serving, OpenSocket \/ OpenFails
  PROVE  (Running' => Serving') /\ [Echo!Next]_(Echo!vars)
<1>1. /\ outcome = "running" /\ Server \notin bound
      /\ UNCHANGED <<pc, call, res, cq, net, inbox, echoVars>>
  BY DEF OpenSocket, OpenFails, Bind, At, Running, vars, netVars, pollerVars, ringVars
<1>2. \A f \in Handlers : \A v \in Results : Performed(f, v)' <=> Performed(f, v)
  BY <1>1 DEF Performed
<1>3. \A f \in Handlers : InCall(f)' <=> InCall(f)
  BY <1>1 DEF InCall
<1>4. \A f \in Handlers : Phase(f)' = Phase(f)
  BY <1>1, <1>2, <1>3, QuietPhase DEF echoVars
<1>5. CASE OpenSocket
  <2>1. bound' = bound \cup {Server} /\ outcome' = outcome
    BY <1>5 DEF OpenSocket, Bind, vars
  <2>2. Echo!ServerOpen
    BY <1>1, <1>4, <2>1 DEF ServerStatus, Echo!ServerOpen, Echo!Bind, echoVars
  <2>3. EchoTypeOK'
    BY <1>1, <2>1 DEF Serving, EchoTypeOK, NetTypeOK, Addresses, echoVars
  <2>4. ASSUME NEW f \in Handlers
        PROVE  CallOfProg(f)' /\ MessageInBuf(f)' /\ PlainResults(f)'
    <3>1. CallOfProg(f) /\ MessageInBuf(f) /\ PlainResults(f)
      BY DEF Serving
    <3>2. CallOfProg(f)'
      BY <1>1, <1>3, <2>1, <3>1 DEF CallOfProg, echoVars
    <3>3. MessageInBuf(f)'
      BY <1>1, <3>1 DEF MessageInBuf, echoVars
    <3>4. PlainResults(f)'
      BY <1>2, <3>1 DEF PlainResults
    <3> QED
      BY <3>2, <3>3, <3>4
  <2>5. Serving'
    BY <1>1, <2>3, <2>4 DEF Serving
  <2> QED
    BY <1>1, <2>2, <2>5 DEF Echo!Next, Echo!ServerOpens, echoVars
<1>6. CASE OpenFails
  <2>1. OpErrors # {} /\ outcome' \in {"socket", "bind"} /\ UNCHANGED netVars
    BY <1>6 DEF OpenFails
  <2>2. Echo!ServerOpenFails
    BY <1>1, <1>4, <2>1 DEF ServerStatus, Echo!ServerOpenFails, Echo!netVars, netVars, echoVars
  <2> QED
    BY <1>1, <2>1, <2>2 DEF Echo!Next, Echo!ServerOpens, Running, echoVars
<1> QED
  BY <1>5, <1>6

(* The clients and the network do what they do to the service.             *)
LEMMA PeersServe ==
  ASSUME IInv, Serving, Peers
  PROVE  Serving' /\ [Echo!Next]_(Echo!vars)
<1>1. UNCHANGED <<vars, bound, prog, buf, msg>>
  BY DEF Peers, Ask, Deliver, DeliverCopy, Lose, Arrive, echoVars
<1>2. \A f \in Handlers : \A v \in Results : Performed(f, v)' <=> Performed(f, v)
  BY <1>1 DEF Performed, vars
<1>3. \A f \in Handlers : InCall(f)' <=> InCall(f)
  BY <1>1 DEF InCall, vars
<1>4. \A f \in Handlers : Phase(f)' = Phase(f)
  BY <1>1, <1>2, <1>3, QuietPhase
<1>5. UNCHANGED Echo!serverVars
  BY <1>1, <1>4 DEF ServerStatus, Echo!serverVars, vars
<1>6. NetTypeOK
  BY DEF Serving, EchoTypeOK
<1>7. ASSUME NEW q \in Requests, Ask(q[1], q[2])
      PROVE  NetTypeOK' /\ Echo!Next
  <2>1. q[1] \in Clients /\ q[2] \in Nat
    BY EchoOnRingAssumption
  <2>2. PICK d : d = [to |-> Server, from |-> q[1], body |-> <<q[1]>>, seq |-> q[2]]
    OBVIOUS
  <2>3. d \in Datagram
    BY <2>1, <2>2 DEF Datagram, Addresses
  <2>4. /\ Transmit(d) /\ UNCHANGED <<inbox, bound>>
        /\ <<q[1], q[2]>> \in Requests \ asked /\ asked' = asked \cup {<<q[1], q[2]>>}
    BY <1>7, <2>2 DEF Ask
  <2>5. NetTypeOK'
    BY <1>6, <2>3, <2>4, TransmitTyped
  <2>6. Echo!Ask(q[1], q[2])
    BY <1>5, <2>2, <2>4 DEF Echo!Ask, Echo!Transmit, Transmit
  <2> QED
    BY <2>5, <2>6 DEF Echo!Next
<1>8. ASSUME NEW d \in net, Deliver(d) \/ DeliverCopy(d) \/ Lose(d), UNCHANGED asked
      PROVE  NetTypeOK' /\ Echo!Next
  <2>1. NetTypeOK'
    BY <1>6, <1>8, DeliverTyped
  <2>2. Echo!Deliver(d) \/ Echo!DeliverCopy(d) \/ Echo!Lose(d)
    BY <1>8 DEF Deliver, DeliverCopy, Lose, Arrive,
       Echo!Deliver, Echo!DeliverCopy, Echo!Lose, Echo!Arrive
  <2> QED
    BY <1>5, <1>8, <2>1, <2>2 DEF Echo!Next, Echo!NetStep
<1>9. NetTypeOK' /\ Echo!Next
  BY <1>7, <1>8 DEF Peers, echoVars
<1>10. ASSUME NEW f \in Handlers
       PROVE  CallOfProg(f)' /\ MessageInBuf(f)' /\ PlainResults(f)'
  <2>1. CallOfProg(f) /\ MessageInBuf(f) /\ PlainResults(f)
    BY DEF Serving
  <2>2. CallOfProg(f)'
    BY <1>1, <1>3, <2>1 DEF CallOfProg, vars
  <2>3. MessageInBuf(f)'
    BY <1>1, <2>1 DEF MessageInBuf
  <2>4. PlainResults(f)'
    BY <1>2, <2>1 DEF PlainResults
  <2> QED
    BY <2>2, <2>3, <2>4
<1>11. EchoTypeOK'
  BY <1>1, <1>9 DEF Serving, EchoTypeOK
<1> QED
  BY <1>1, <1>9, <1>10, <1>11 DEF Serving, vars

(* Each step of the server keeps the invariant and is one of the service.  *)
LEMMA StepServes ==
  ASSUME ServiceInv, [EchoNext]_allVars
  PROVE  ServiceInv' /\ [Echo!Next]_(Echo!vars)
<1>1. CASE UNCHANGED allVars
  <2>1. UNCHANGED <<vars, netVars, echoVars>>
    BY <1>1 DEF allVars, vars, netVars, echoVars
  <2>2. UNCHANGED Echo!vars
    <3>1. \A f \in Handlers : \A v \in Results : Performed(f, v)' <=> Performed(f, v)
      BY <2>1 DEF Performed, vars
    <3>2. \A f \in Handlers : InCall(f)' <=> InCall(f)
      BY <2>1 DEF InCall, vars
    <3> QED
      BY <2>1, <3>1, <3>2, QuietStack DEF vars
  <2>3. Running' => Running /\ IInv'
    BY <2>1, NextIInv DEF ServiceInv, Running, vars
  <2>4. ASSUME Serving PROVE Serving'
    <3>1. \A f \in Handlers : \A v \in Results : Performed(f, v)' <=> Performed(f, v)
      BY <2>1 DEF Performed, vars
    <3>2. \A f \in Handlers : InCall(f)' <=> InCall(f)
      BY <2>1 DEF InCall, vars
    <3>3. UNCHANGED <<netVars, echoVars, call, pc>> /\ pc[Root] \in {"ready", "done"}
      BY <2>1, <2>4 DEF vars, Serving
    <3> QED
      BY <2>4, <3>1, <3>2, <3>3, QuietServing
  <2> QED
    BY <2>2, <2>3, <2>4 DEF ServiceInv
<1>2. CASE EchoNext /\ Running
  <2>1. IInv /\ Serving
    BY <1>2 DEF ServiceInv
  <2>2. Running' => IInv'
    BY <1>2, <2>1, ServerIsStack, NextIInv
  <2>3. ASSUME NEW f \in Handlers, SpawnHandler(f) \/ HandlerStep(f)
        PROVE  (Running' => Serving') /\ [Echo!Next]_(Echo!vars)
    <3>1. CASE SpawnHandler(f) \/ StackStep(f)
      BY <1>2, <2>1, <3>1, StackServes
    <3>2. CASE CallRecvmsg(f)
      BY <2>1, <3>2, RecvServes
    <3>3. CASE CallReturns(f)
      BY <2>1, <3>3, ReturnServes
    <3>4. CASE Panic(f)
      BY <2>1, <3>4, PanicServes
    <3>5. CASE CallSendmsg(f)
      BY <1>2, <2>1, <3>5, SendServes
    <3> QED
      BY <2>3, <3>1, <3>2, <3>3, <3>4, <3>5 DEF HandlerStep
  <2>4. ASSUME NEW r \in inflight, Perform(r)
        PROVE  Serving' /\ [Echo!Next]_(Echo!vars)
    BY <1>2, <2>1, <2>4, ReceiveServes, FailReceiveServes, SendFromServes, FailSendServes
    DEF Perform
  <2>5. ASSUME JoinHandlers \/ Loop \/ InStack(Take \/ Release)
        PROVE  (Running' => Serving') /\ [Echo!Next]_(Echo!vars)
    BY <1>2, <2>1, <2>5, StackServes
  <2>6. ASSUME OpenSocket \/ OpenFails
        PROVE  (Running' => Serving') /\ [Echo!Next]_(Echo!vars)
    BY <2>1, <2>6, OpenServes
  <2>7. ASSUME Peers
        PROVE  (Running' => Serving') /\ [Echo!Next]_(Echo!vars)
    BY <2>1, <2>7, PeersServe
  <2>8. ~Dead
    BY <1>2 DEF Dead
  <2>9. (Running' => Serving') /\ [Echo!Next]_(Echo!vars)
    BY <1>2, <2>3, <2>4, <2>5, <2>6, <2>7, <2>8 DEF EchoNext, Kernel
  <2> QED
    BY <2>2, <2>9 DEF ServiceInv
<1> QED
  BY <1>1, <1>2, OnlyWhileRunning

(* At first every handler is before its first recvmsg (srv2.cc:114).       *)
LEMMA InitServes == EchoInit => ServiceInv /\ Echo!Init
<1> SUFFICES ASSUME EchoInit PROVE ServiceInv /\ Echo!Init
  OBVIOUS
<1>1. /\ Init /\ NetInit /\ prog = [f \in Handlers |-> "recv"] /\ buf = [f \in Handlers |-> <<>>]
      /\ msg = [f \in Handlers |-> NoMsg] /\ asked = {}
  BY DEF EchoInit
<1>2. /\ pc = [f \in Fibers |-> IF f = Root THEN "ready" ELSE "new"]
      /\ res = [f \in Fibers |-> NotSet] /\ cq = <<>> /\ outcome = "running"
      /\ Root \in Fibers /\ Handlers = Fibers \ {Root}
  BY <1>1, SchedulerAssumption DEF Init, RingInit, PollerInit, Handlers
<1>3. IInv
  BY <1>1, InitIInv
<1>4. EchoTypeOK
  <2>1. NetTypeOK
    BY <1>1, EmptySeq DEF NetInit, NetTypeOK
  <2>2. NoMsg \in [len : Nat, peer : Addresses, seq : Nat]
    BY DEF NoMsg, Addresses
  <2> QED
    BY <1>1, <2>1, <2>2 DEF EchoTypeOK
<1>5. ASSUME NEW f \in Handlers
      PROVE  /\ CallOfProg(f) /\ MessageInBuf(f) /\ PlainResults(f)
             /\ Phase(f) = "recv"
  <2>1. pc[f] = "new" /\ prog[f] = "recv" /\ msg[f].len = 0 /\ buf[f] = <<>>
    BY <1>1, <1>2 DEF NoMsg
  <2>2. \A v \in Results : ~Performed(f, v)
    BY <1>2, VerdictSets DEF Performed, NotSet
  <2>3. Len(buf[f]) = 0
    BY <2>1
  <2> QED
    BY <2>1, <2>2, <2>3 DEF CallOfProg, MessageInBuf, PlainResults, InCall, Phase, Taken, Replying
<1>6. Serving
  BY <1>2, <1>4, <1>5 DEF Serving
<1>7. Echo!Init
  <2>1. [f \in Handlers |-> Phase(f)] = [f \in Handlers |-> "recv"]
    BY <1>5
  <2>2. [f \in Handlers |-> IF Phase(f) = "recv" THEN NoMsg ELSE msg[f]] =
          [f \in Handlers |-> NoMsg]
    BY <1>5
  <2>3. Echo!NetInit /\ Server \notin bound
    BY <1>1 DEF NetInit, Echo!NetInit, Echo!Addresses, Addresses
  <2>4. Echo!NoMsg = NoMsg
    BY DEF Echo!NoMsg, NoMsg
  <2> QED
    BY <1>1, <1>2, <2>1, <2>2, <2>3, <2>4 DEF ServerStatus, Echo!Init, Echo!ServerInit
<1> QED
  BY <1>3, <1>6, <1>7 DEF ServiceInv

(* KeepsService, for any number of handlers, any ring, any batch size and  *)
(* any errors: the server of srv2.cc on the whole ring2 stack is the echo  *)
(* service, whose receives happen when the kernel has written a message    *)
(* and whose sends happen when it has sent one.                            *)
THEOREM ServiceKept == EchoSpec => KeepsService
<1>1. EchoInit => ServiceInv /\ Echo!Init
  BY InitServes
<1>2. ServiceInv /\ [EchoNext]_allVars => ServiceInv' /\ [Echo!Next]_(Echo!vars)
  BY StepServes
<1> QED
  BY <1>1, <1>2, PTL DEF EchoSpec, KeepsService, Echo!Spec

-----------------------------------------------------------------------------
(* What the clients of the server on the ring see.                         *)

(* The server on the ring as the one of EchoServerProofs, seen as in Echo. *)
Served == INSTANCE EchoServerProofs WITH
  SFibers <- Handlers, ServerMayFail <- OpErrors # {},
  spc <- [f \in Handlers |-> Phase(f)],
  sbuf <- buf,
  smsg <- [f \in Handlers |-> IF Phase(f) = "recv" THEN NoMsg ELSE msg[f]],
  server <- ServerStatus

(* RepliesRight: every datagram on its way to a client answers a request   *)
(* that this client has sent, with the body of that request twice, or it   *)
(* is the empty one a failed recvmsg leaves to be sent (srv2.cc:115-128).  *)
RepliesRight ==
  \A d \in net : d.to \in Clients =>
    \/ d.body = <<d.to, d.to>> /\ <<d.to, d.seq>> \in asked
    \/ d.body = <<>> /\ OpErrors # {}

ServedInv ==
  /\ NetTypeOK /\ Served!ServerTypeOK
  /\ Served!Genuine /\ Served!Known(asked)

(* What EchoServerProofs assumes holds here.                               *)
LEMMA ServedAssumptions ==
  Served!EchoServerAssumption /\ Served!DatagramsAssumption
BY EchoOnRingAssumption, DatagramsAssumption
DEF Served!EchoServerAssumption, Served!DatagramsAssumption

(* The datagrams of both are the same.                                     *)
LEMMA SameNet ==
  /\ Served!NetTypeOK <=> NetTypeOK
  /\ Served!Addresses = Addresses
  /\ NetTypeOK' <=> Served!NetTypeOK'
BY DEF Served!NetTypeOK, NetTypeOK, Served!Datagram, Datagram, Served!Addresses, Addresses

(* Before anything is sent.                                                *)
LEMMA ServedInit ==
  ASSUME Echo!Init
  PROVE  ServedInv
<1>1. Served!NetInit
  BY DEF Echo!Init, Echo!NetInit, Served!NetInit, Echo!Addresses, Served!Addresses
<1>2. Served!ServerInit
  BY DEF Echo!Init, Echo!ServerInit, Served!ServerInit, Echo!NoMsg, Served!NoMsg
<1>3. Served!NetTypeOK /\ Served!ServerTypeOK /\ Served!Genuine
  BY <1>1, <1>2, ServedAssumptions, Served!InitGenuine
<1>4. Served!Known(asked)
  <2>1. \A A : Served!Known(A)
    BY <1>1, <1>2, ServedAssumptions, Served!InitKnown
  <2> QED
    BY <2>1
<1> QED
  BY <1>3, <1>4, SameNet DEF ServedInv

(* The fibers take the same steps.                                         *)
LEMMA SameServer ==
  ASSUME NEW s \in Handlers, Echo!ServerStep(s)
  PROVE  Served!ServerStep(s)
BY DEF Echo!ServerStep, Served!ServerStep,
       Echo!ServerReceive, Served!ServerReceive,
       Echo!ServerReceiveFails, Served!ServerReceiveFails,
       Echo!ServerDouble, Served!ServerDouble,
       Echo!ServerSend, Served!ServerSend,
       Echo!ServerSendFails, Served!ServerSendFails,
       Echo!TakeFrom, Served!TakeFrom,
       Echo!Transmit, Served!Transmit,
       Echo!BufOf, Served!BufOf,
       Echo!Overwrite, Served!Overwrite,
       Echo!NoMsg, Served!NoMsg,
       Echo!netVars, Served!netVars,
       Echo!Addresses, Served!Addresses

(* A step of the service.                                                  *)
LEMMA ServedStep ==
  ASSUME ServedInv, [Echo!Next]_(Echo!vars)
  PROVE  ServedInv'
<1> PICK A : A = asked
  OBVIOUS
<1>0. /\ Served!NetTypeOK /\ Served!ServerTypeOK /\ Served!Genuine
      /\ Served!Known(A)
  BY SameNet DEF ServedInv
<1>1. ASSUME NEW r \in Requests, Echo!Ask(r[1], r[2]) PROVE ServedInv'
  <2> PICK c \in Clients, n \in Nat : c = r[1] /\ n = r[2]
    BY EchoOnRingAssumption
  <2>1. /\ asked' = A \cup {<<c, n>>}
        /\ Served!Transmit([to |-> Server, from |-> c, body |-> <<c>>, seq |-> n])
        /\ UNCHANGED <<inbox, bound, Served!serverVars>>
    BY <1>1 DEF Echo!Ask, Echo!Transmit, Served!Transmit, Echo!serverVars, Served!serverVars
  <2>2. /\ Served!NetTypeOK' /\ Served!ServerTypeOK' /\ Served!Genuine'
        /\ Served!Known(A \cup {<<c, n>>})'
    BY <1>0, <2>1, ServedAssumptions, Served!RequestKeeps
  <2> QED
    BY <2>1, <2>2, SameNet DEF ServedInv
<1>2. CASE Echo!ServerOpens /\ UNCHANGED asked
  <2>1. Served!ServerOpens
    BY <1>2 DEF Echo!ServerOpens, Served!ServerOpens, Echo!ServerOpen, Served!ServerOpen,
       Echo!ServerOpenFails, Served!ServerOpenFails, Echo!Bind, Served!Bind,
       Echo!netVars, Served!netVars
  <2>2. Served!NetTypeOK' /\ Served!ServerTypeOK' /\ Served!Genuine'
    BY <1>0, <2>1, ServedAssumptions, Served!ServerOpensKeeps
  <2>3. Served!Known(A)'
    BY <1>0, <2>1, ServedAssumptions, Served!ServerOpensKnown
  <2> QED
    BY <1>2, <2>2, <2>3, SameNet DEF ServedInv
<1>3. CASE Echo!NetStep /\ UNCHANGED <<Echo!serverVars, asked>>
  <2>1. Served!NetStep /\ UNCHANGED Served!serverVars
    BY <1>3 DEF Echo!NetStep, Served!NetStep, Echo!Deliver, Served!Deliver,
       Echo!DeliverCopy, Served!DeliverCopy, Echo!Lose, Served!Lose,
       Echo!Arrive, Served!Arrive, Echo!serverVars, Served!serverVars
  <2>2. /\ Served!NetTypeOK' /\ Served!ServerTypeOK' /\ Served!Genuine'
        /\ Served!Known(A)'
    BY <1>0, <2>1, ServedAssumptions, Served!NetworkKnown
  <2> QED
    BY <1>3, <2>2, SameNet DEF ServedInv
<1>4. ASSUME NEW s \in Handlers, Echo!ServerStep(s), UNCHANGED asked PROVE ServedInv'
  <2>1. Served!ServerStep(s)
    BY <1>4, SameServer
  <2>2. Served!NetTypeOK' /\ Served!ServerTypeOK' /\ Served!Genuine'
    BY <1>0, <2>1, ServedAssumptions, Served!ServerKeeps
  <2>3. Served!Known(A)'
    BY <1>0, <2>1, ServedAssumptions, Served!ServerKnown
  <2> QED
    BY <1>4, <2>2, <2>3, SameNet DEF ServedInv
<1>5. CASE UNCHANGED Echo!vars
  <2>1. UNCHANGED <<net, inbox, bound, asked>> /\ UNCHANGED Served!serverVars
    BY <1>5 DEF Echo!vars, Served!serverVars
  <2>2. /\ Served!ServerTypeOK' /\ (\A s \in Handlers : Served!GenuineMessage(s))'
        /\ (\A s \in Handlers : Served!KnownMessage(s, A))'
    BY <1>0, <2>1, ServedAssumptions, Served!IdleKeeps
  <2>3. NetTypeOK' /\ Served!GenuineNet' /\ Served!KnownNet(A)'
    BY <1>0, <2>1, SameNet DEF NetTypeOK, Served!Genuine, Served!GenuineNet, Served!Known,
       Served!KnownNet
  <2> QED
    BY <2>1, <2>2, <2>3 DEF ServedInv, Served!Genuine, Served!Known
<1> QED
  BY <1>1, <1>2, <1>3, <1>4, <1>5 DEF Echo!Next

(* RepliesRight follows.                                                   *)
LEMMA ServedRight ==
  ASSUME ServedInv
  PROVE  RepliesRight
<1> SUFFICES ASSUME NEW d \in net, d.to \in Clients
             PROVE  \/ d.body = <<d.to, d.to>> /\ <<d.to, d.seq>> \in asked
                    \/ d.body = <<>> /\ OpErrors # {}
  BY DEF RepliesRight
<1>1. Served!GenuineDatagram(d) /\ Served!KnownDatagram(d, asked)
  BY DEF ServedInv, Served!Genuine, Served!GenuineNet, Served!Known, Served!KnownNet
<1>2. d.to # Server
  BY DatagramsAssumption
<1> QED
  BY <1>1, <1>2 DEF Served!GenuineDatagram, Served!KnownDatagram

(* Whatever the ring, the poller and the scheduler do, and whatever        *)
(* requests the network loses, repeats or reorders, a reply of the server  *)
(* goes to who asked and holds twice what was asked (srv2.cc:115-128).     *)
THEOREM RepliesAnswer == EchoSpec => []RepliesRight
<1>1. Echo!Init => ServedInv
  BY ServedInit
<1>2. ServedInv /\ [Echo!Next]_(Echo!vars) => ServedInv'
  BY ServedStep
<1>3. ServedInv => RepliesRight
  BY ServedRight
<1> QED
  BY <1>1, <1>2, <1>3, ServiceKept, PTL DEF KeepsService, Echo!Spec

=============================================================================
