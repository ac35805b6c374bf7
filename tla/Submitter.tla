------------------------------ MODULE Submitter ------------------------------
(***************************************************************************)
(* net::Submitter and ring_submit (src/ring2/ring2/submitter.cc), composed *)
(* with the poller, the ring, the scheduler and the kernel: every fiber of *)
(* a ring2 program, making any sequence of calls.                          *)
(*                                                                         *)
(* Exceptions and panics end the process: a fiber's body runs under a      *)
(* noexcept trampoline.  outcome records the message it dies with.         *)
(***************************************************************************)
EXTENDS RingPoller

VARIABLES
  pc,        (* Where each fiber is; see PCs.                              *)
  ret,       (* What the last call of each fiber returned to its caller.   *)
  outcome    (* "running", "stopped", or the message the process died of.  *)

submitterVars == <<pc, ret, outcome>>

vars == <<sq, flushed, busy, inflight, cq, runq, current, pending_count,
          reaped, attempts, waiting, call, res, pc, ret, outcome>>

(* "new" is not spawned, "ready" is outside the Submitter.  In a call, a   *)
(* fiber obtains an entry for its operation ("getop") and one for its      *)
(* timeout ("getto"), verifies what submit returned ("check") and is       *)
(* suspended or about to read its results ("await").                       *)
PCs == {"new", "ready", "getop", "getto", "check", "await", "done"}

Outcomes == {"running", "stopped", "enocqe", "should submit timeout and op",
             "bad LINK_TIMEOUT", "bad sendmsg", "bad accept"}

SubmitterTypeOK ==
  /\ pc \in [Fibers -> PCs]
  /\ ret \in [Fibers -> Results \cup {"none", "ESQE_TIMEOUT", "ENOCQE"}]
  /\ outcome \in Outcomes

Init ==
  /\ SchedulerInit /\ RingInit /\ RingStateInit /\ PollerInit
  /\ pc = [f \in Fibers |-> IF f = Root THEN "ready" ELSE "new"]
  /\ ret = [f \in Fibers |-> "none"]
  /\ outcome = "running"

Running == outcome = "running"

Goto(f, p) == pc' = [pc EXCEPT ![f] = p]

(* Fiber f runs at the point p of its code.                                *)
At(f, p) == Running /\ current = f /\ pc[f] = p

-----------------------------------------------------------------------------
(* The fiber's own code.                                                   *)

(* tf::Spawn by the running fiber g.                                       *)
Spawn(g, f) ==
  /\ At(g, "ready")
  /\ pc[f] = "new"
  /\ Wake(f)
  /\ Goto(f, "ready")
  /\ UNCHANGED ringVars /\ UNCHANGED pollerVars
  /\ UNCHANGED <<pending_count, reaped, ret, outcome>>

(* The fiber's function returns.                                           *)
Finish(f) ==
  /\ At(f, "ready")
  /\ Suspend(f)
  /\ Goto(f, "done")
  /\ UNCHANGED ringVars /\ UNCHANGED pollerVars
  /\ UNCHANGED <<pending_count, reaped, ret, outcome>>

(* A call of recvmsg, sendmsg or accept builds its setters.                *)
Begin(f, k) ==
  /\ At(f, "ready")
  /\ call' = [call EXCEPT ![f] = k]
  /\ res' = [res EXCEPT ![f] = NotSet]
  /\ ret' = [ret EXCEPT ![f] = "none"]
  /\ Goto(f, "getop")
  /\ UNCHANGED ringVars /\ UNCHANGED schedulerVars
  /\ UNCHANGED <<pending_count, reaped, attempts, waiting, outcome>>

-----------------------------------------------------------------------------
(* ring_submit.                                                            *)

OpSqe(f)      == [fiber |-> f, role |-> "op", link |-> call[f] = "timed"]
TimeoutSqe(f) == [fiber |-> f, role |-> "timeout", link |-> FALSE]

\* Mutant: the loop yields whether or not it has found an entry.
StarveAlways(f) ==
  /\ At(f, "getop") \/ At(f, "getto")
  /\ Yield(f)
  /\ UNCHANGED ringVars /\ UNCHANGED pollerVars
  /\ UNCHANGED submitterVars /\ UNCHANGED <<pending_count, reaped>>

(* Ring::submit finds no entry and yields; it tries again when f resumes.  *)
Starve(f) ==
  /\ At(f, "getop") \/ At(f, "getto")
  /\ SqFull
  /\ Yield(f)
  /\ UNCHANGED ringVars /\ UNCHANGED pollerVars
  /\ UNCHANGED submitterVars /\ UNCHANGED <<pending_count, reaped>>

\* Mutant: the fiber yields instead of suspending.
SubmitUntimedYields(f) ==
  /\ At(f, "getop")
  /\ call[f] # "timed"
  /\ submit(OpSqe(f), FALSE)
  /\ Yield(f)
  /\ Goto(f, "await")
  /\ UNCHANGED pollerVars /\ UNCHANGED <<ret, outcome>>

(* The operation of a call without a duration: submitted, then suspend.    *)
SubmitUntimed(f) ==
  /\ At(f, "getop")
  /\ call[f] # "timed"
  /\ submit(OpSqe(f), FALSE)
  /\ Suspend(f)
  /\ Goto(f, "await")
  /\ UNCHANGED pollerVars /\ UNCHANGED <<ret, outcome>>

(* The operation of a call with a duration: linked to the next entry,      *)
(* which is meant to be its timeout.                                       *)
SubmitOp(f) ==
  /\ At(f, "getop")
  /\ call[f] = "timed"
  /\ submit(OpSqe(f), TRUE)
  /\ Goto(f, "getto")
  /\ UNCHANGED schedulerVars /\ UNCHANGED pollerVars
  /\ UNCHANGED <<ret, outcome>>

(* The link timeout; io_uring_submit shows both entries to the kernel.     *)
SubmitTimeout(f) ==
  /\ At(f, "getto")
  /\ submit(TimeoutSqe(f), FALSE)
  /\ Goto(f, "check")
  /\ UNCHANGED schedulerVars /\ UNCHANGED pollerVars
  /\ UNCHANGED <<ret, outcome>>

(* io_uring_submit reads the kernel's head, which may have moved since the *)
(* flush, and RES_VERIFY looks at the count it returns.                    *)
VerifySubmitted(f) ==
  /\ At(f, "check")
  /\ IF Submitted >= 2 \/ Submitted = 0
     THEN /\ Suspend(f)
          /\ Goto(f, "await")
          /\ UNCHANGED outcome
     ELSE /\ outcome' = "should submit timeout and op"
          /\ UNCHANGED <<pc, schedulerVars>>
  /\ UNCHANGED ringVars /\ UNCHANGED pollerVars
  /\ UNCHANGED <<pending_count, reaped, ret>>

(* A timed call whose timer reported a failure it does not expect.         *)
BadLinkTimeout(r) ==
  r.timeout \notin {"ENOENT", "ECANCELED", "ETIME"} /\ r.op # "ok"

\* Mutant: a timer that lost the race is reported as a timeout.
TimedResultNoEnoent(r) ==
  IF r.timeout = "ECANCELED" THEN r.op ELSE "ESQE_TIMEOUT"

(* What a timed call returns.                                              *)
TimedResult(r) ==
  IF r.timeout \in {"ENOENT", "ECANCELED"} THEN r.op ELSE "ESQE_TIMEOUT"

(* The message a call of kind k dies with when its results are r.          *)
Death(k, r) ==
  CASE k = "timed" /\ BadLinkTimeout(r)          -> "bad LINK_TIMEOUT"
    [] k # "timed" /\ r.op = "ENOCQE"            -> "enocqe"
    [] k = "send" /\ r.op \notin {"ok", "ENOCQE"}   -> "bad sendmsg"
    [] k = "accept" /\ r.op \notin {"ok", "ENOCQE"} -> "bad accept"
    [] OTHER                                     -> "running"

(* f resumes after Suspend, reads its results and returns to its caller.   *)
Return(f) ==
  /\ At(f, "await")
  /\ outcome' = Death(call[f], res[f])
  /\ IF outcome' = "running"
     THEN /\ ret' = [ret EXCEPT ![f] = IF call[f] = "timed"
                                       THEN TimedResult(res[f])
                                       ELSE res[f].op]
          /\ Goto(f, "ready")
     ELSE UNCHANGED <<pc, ret>>
  /\ UNCHANGED ringVars /\ UNCHANGED schedulerVars /\ UNCHANGED pollerVars
  /\ UNCHANGED <<pending_count, reaped>>

FiberStep(f) ==
  \/ \E g \in Fibers : Spawn(f, g)
  \/ Finish(f)
  \/ \E k \in Calls : Begin(f, k)
  \/ Starve(f)
  \/ SubmitUntimed(f)
  \/ SubmitOp(f)
  \/ SubmitTimeout(f)
  \/ VerifySubmitted(f)
  \/ Return(f)

-----------------------------------------------------------------------------
(* The scheduler loop, with its poller.                                    *)

Rest == UNCHANGED submitterVars

Switch ==
  /\ Running /\ PollerIdle
  /\ Resume
  /\ UNCHANGED ringVars /\ UNCHANGED pollerVars
  /\ UNCHANGED <<pending_count, reaped>> /\ Rest

PollMany == Running /\ TryPollMany /\ Rest

PollOne == Running /\ TryPoll /\ Rest

PollWaited == Running /\ PollReturns /\ Rest

Dispatch == Running /\ dispatch /\ Rest

(* No fiber is runnable and the poller has nothing pending.                *)
Stop ==
  /\ Running /\ PollerIdle
  /\ runq = <<>>
  /\ ~HasPending
  /\ outcome' = "stopped"
  /\ UNCHANGED ringVars /\ UNCHANGED schedulerVars /\ UNCHANGED pollerVars
  /\ UNCHANGED <<pending_count, reaped, pc, ret>>

SchedulerStep == Switch \/ PollMany \/ PollOne \/ PollWaited \/ Dispatch \/ Stop

-----------------------------------------------------------------------------
(* The kernel.                                                             *)

Outside ==
  /\ UNCHANGED schedulerVars /\ UNCHANGED pollerVars
  /\ UNCHANGED <<pending_count, reaped>> /\ Rest

Take == Running /\ TakeBatch /\ Outside

Release == Running /\ ReleaseBatch /\ Outside

Complete(r) == Running /\ (\E v \in Results : PostOp(r, v)) /\ Outside

Fire(t) ==
  /\ Running
  /\ \E r \in inflight, wins \in BOOLEAN : Timer(t, r, wins)
  /\ Outside

Expire(t) == Running /\ (\E v \in Results : PostTimeout(t, v)) /\ Outside

KernelStep ==
  \/ Take \/ Release
  \/ \E r \in inflight : Complete(r) \/ Fire(r) \/ Expire(r)

(* The process has ended.                                                  *)
Ended == ~Running /\ UNCHANGED vars

Next == (\E f \in Fibers : FiberStep(f)) \/ SchedulerStep \/ KernelStep \/ Ended

Spec == Init /\ [][Next]_vars

-----------------------------------------------------------------------------
(* What must never happen.                                                 *)

InCall(f) == pc[f] \in {"getop", "getto", "check", "await"}

(* TypeOK: every variable stays in its type.                               *)
TypeOK ==
  /\ SchedulerTypeOK
  /\ RingTypeOK
  /\ RingStateOK
  /\ PollerTypeOK
  /\ SubmitterTypeOK

(* FrameLive: the setters are on the stack of the fiber that submitted     *)
(* (submitter.cc:18, 36-37).  As long as the kernel owes a completion for  *)
(* one, that fiber has not left its call and the setter has no result yet, *)
(* so dispatch never writes into a dead or a reused frame.                 *)
FrameLive ==
  \A f \in Fibers, p \in Roles :
    Outstanding(f, p) => InCall(f) /\ res[f][p] = "ENOCQE"

Suspended(f) == pc[f] = "await" /\ ~Scheduled(f)

(* NoLostWakeup: while a fiber is suspended in ring_submit, a completion   *)
(* of its own call is still to be dispatched (poller.cc:10-18 wakes it     *)
(* only then).                                                             *)
NoLostWakeup == \A f \in Fibers : Suspended(f) => \E p \in Roles : Outstanding(f, p)

(* RunnableOnce: no fiber is twice in the run queue, none is both running  *)
(* and queued, and a queued one has something to do: a fiber that its two  *)
(* completions both woke (submitter.cc:39-43) would be resumed again in    *)
(* the middle of a later call.                                             *)
RunnableOnce ==
  /\ QueuedOnce
  /\ \A f \in Fibers : Scheduled(f) => pc[f] \notin {"new", "done"}

(* A fiber that runs after Suspend finds its call complete.                *)
HasResults(f) ==
  /\ res[f].op # "ENOCQE"
  /\ call[f] = "timed" => res[f].timeout # "ENOCQE"

(* AwaitedResults: a fiber that is runnable after Suspend has every result *)
(* of its call, and nothing of the call is left in the ring: neither the   *)
(* "enocqe" panic (submitter.cc:27) nor a -ENOCQE returned by a timed call *)
(* can happen.                                                             *)
AwaitedResults ==
  \A f \in Fibers :
    pc[f] = "await" /\ Scheduled(f) =>
      HasResults(f) /\ \A p \in Roles : ~Outstanding(f, p)

(* PendingExact: pending_count_ (ring.cc:51, 63, 76, 87) counts exactly    *)
(* the entries whose completions have not been consumed.                   *)
PendingExact ==
  pending_count + reaped = Len(sq) + Cardinality(inflight) + Len(cq)

(* StopsOnlyWhenDone: the scheduler, which stops when nothing is runnable  *)
(* and HasPending is false, leaves no fiber behind in a call.              *)
StopsOnlyWhenDone ==
  outcome = "stopped" => \A f \in Fibers : pc[f] \in {"new", "done"}

(* An entry that nobody has shown to the kernel is the operation of a      *)
(* timed call whose fiber is about to add its timeout.                     *)
LoneOps ==
  \A i \in flushed + 1 .. Len(sq) :
    sq[i].role = "op" /\ pc[sq[i].fiber] = "getto"

(* NoGridlock: the queue is never full of entries that only fibers waiting *)
(* for an entry could show to the kernel (ring.cc:36-55).  With as many    *)
(* entries as fibers in timed calls it is: then all of them poll for ever. *)
NoGridlock == ~(SqFull /\ flushed = 0 /\ busy = 0)

(* DeliveredOrDropped: a completion that is owed stops being owed only by  *)
(* being written into its own setter, or because TryPoll reaches its limit *)
(* and overwrites what it has just consumed (poller.cc:28-32).             *)
DeliveredOrDropped ==
  [][\A f \in Fibers, p \in Roles :
       Outstanding(f, p) /\ ~Outstanding(f, p)' =>
         res'[f][p] # "ENOCQE" \/ (waiting' /\ ~waiting)]_vars

-----------------------------------------------------------------------------
(* What holds in a ring large enough that no fiber ever waits for an       *)
(* entry.  Every fiber has at most two entries in the queue and two in the *)
(* batch the kernel has not released.                                      *)

(* NeverStarved: with four entries per fiber Ring::submit finds one at     *)
(* once, so nothing runs between an operation and its timeout              *)
(* (submitter.cc:45-57).                                                   *)
NeverStarved ==
  \A f \in Fibers : pc[f] \in {"getop", "getto"} => ~SqFull

(* PairIntact: a link timeout guards the operation of its own call, and    *)
(* every operation of a timed call has its timer, until it completes: no   *)
(* timed recvmsg waits without one, or behind another fiber's operation.   *)
PairIntact ==
  \A r \in inflight :
    /\ r.st \notin {"blocked", "orphan"}
    /\ r.st = "armed" => r.after = r.fiber
    /\ r.st = "active" /\ call[r.fiber] = "timed" =>
         \E t \in inflight : t.st = "armed" /\ t.after = r.fiber

(* SubmitsBoth: RES_VERIFY "should submit timeout and op" never fails: the *)
(* kernel has taken both entries of a timed call or neither when           *)
(* io_uring_submit counts them (submitter.cc:58).                          *)
SubmitsBoth == outcome # "should submit timeout and op"

(* TimeoutMeansNoAnswer: a timed recvmsg that reports ESQE_TIMEOUT has     *)
(* received nothing, and one that reports something else reports what its  *)
(* operation did, never the cancellation by a timer (submitter.cc:62-77).  *)
TimeoutMeansNoAnswer ==
  \A f \in Fibers :
    ret[f] # "none" /\ call[f] = "timed" =>
      /\ res[f].op = "ok" <=> ret[f] = "ok"
      /\ ret[f] # "ECANCELED"

-----------------------------------------------------------------------------
(* What happens eventually.                                                *)

(* A running fiber goes on and the scheduler loop keeps turning.  The      *)
(* kernel takes, releases and completes what it owes: everything but the   *)
(* arrival of data for an active recvmsg or accept.                        *)
MustComplete(r) ==
  \/ r.st \in {"finishing", "cancelled"}
  \/ r.st = "active" /\ call[r.fiber] = "send"

Fairness ==
  /\ \A f \in Fibers : WF_vars(FiberStep(f))
  /\ WF_vars(Switch) /\ WF_vars(Dispatch) /\ WF_vars(PollWaited)
  /\ SF_vars(PollMany)
  /\ WF_vars(Take) /\ WF_vars(Release)
  /\ \A f \in Fibers :
       /\ WF_vars(\E r \in inflight : r.fiber = f /\ MustComplete(r) /\ Complete(r))
       /\ WF_vars(\E r \in inflight : r.fiber = f /\ Fire(r))
       /\ WF_vars(\E r \in inflight : r.fiber = f /\ Expire(r))

FairSpec == Spec /\ Fairness

(* CallsReturn: a recvmsg with a duration returns even if no data ever     *)
(* arrives, and a sendmsg returns (submitter.cc:16-78), unless the process *)
(* ends.                                                                   *)
CallsReturn ==
  \A f \in Fibers, k \in {"timed", "send"} :
    pc[f] = "getop" /\ call[f] = k ~> pc[f] = "ready" \/ ~Running

(* SqeGranted: a fiber that waits for an entry of a full ring              *)
(* (ring.cc:36-43) obtains one: those that hold the entries give way.      *)
SqeGranted ==
  \A f \in Fibers :
    /\ pc[f] = "getop" ~> pc[f] # "getop" \/ ~Running
    /\ pc[f] = "getto" ~> pc[f] # "getto" \/ ~Running

-----------------------------------------------------------------------------
(* The inductive invariant behind the safety properties.                   *)

(* A setter that is owed a completion belongs to a call that has reached   *)
(* the point where it submits it, and holds no result.                     *)
OwedSetters(f) ==
  /\ Outstanding(f, "op") =>
       pc[f] \in {"getto", "check", "await"} /\ res[f].op = "ENOCQE"
  /\ Outstanding(f, "timeout") =>
       /\ pc[f] \in {"check", "await"}
       /\ call[f] = "timed"
       /\ res[f].timeout = "ENOCQE"

(* What the setters of a call hold before its fiber suspends.              *)
FreshSetters(f) ==
  /\ pc[f] = "getop" => res[f] = NotSet
  /\ pc[f] \in {"getto", "check"} => call[f] = "timed" /\ res[f].timeout = "ENOCQE"
  /\ pc[f] = "check" => current = f

(* A scheduled fiber has something to do.                                  *)
Ready(f) ==
  /\ pc[f] \notin {"new", "done"}
  /\ pc[f] = "await" => HasResults(f)

(* Completions are only dispatched while no fiber runs, and poll() is only *)
(* called when every completion taken before has been dispatched.          *)
PollerAlone ==
  /\ waiting \/ reaped > 0 => current = NoFiber
  /\ waiting => reaped = 0

IInv ==
  /\ TypeOK
  /\ OneCompletion
  /\ QueuedOnce
  /\ PollerAlone
  /\ outcome # "enocqe"
  /\ \A f \in Fibers :
       OwedSetters(f) /\ FreshSetters(f) /\ (Scheduled(f) => Ready(f))

(* With TryPollMany alone no completion is lost: a setter without a result *)
(* is owed one, and a fiber that has what it waits for is scheduled.       *)
AwaitedSetters(f) ==
  /\ pc[f] \in {"getto", "check", "await"} /\ res[f].op = "ENOCQE" =>
       Outstanding(f, "op")
  /\ pc[f] \in {"check", "await"} /\ call[f] = "timed" /\ res[f].timeout = "ENOCQE" =>
       Outstanding(f, "timeout")
  /\ pc[f] \in {"ready", "getop", "getto", "check"} => Scheduled(f)
  /\ pc[f] = "await" /\ HasResults(f) => Scheduled(f)

ManyInv ==
  /\ IInv
  /\ ~waiting
  /\ \A f \in Fibers : AwaitedSetters(f)

-----------------------------------------------------------------------------
(* The inductive invariant of a ring in which no fiber ever waits for an   *)
(* entry: nothing runs between an operation and its timeout, so the two    *)
(* stay side by side from the submission queue to the setters.             *)

(* An operation of a timed call is linked, and the entry after it is its   *)
(* timeout or is about to be; no batch ends between them.                  *)
PairsInSq ==
  \A i \in 1 .. Len(sq) :
    /\ sq[i].link <=> sq[i].role = "op" /\ call[sq[i].fiber] = "timed"
    /\ sq[i].role = "timeout" =>
         i > 1 /\ sq[i - 1].role = "op" /\ sq[i - 1].fiber = sq[i].fiber
    /\ sq[i].link /\ i < Len(sq) =>
         sq[i + 1].role = "timeout" /\ sq[i + 1].fiber = sq[i].fiber
    /\ sq[i].link => i # flushed

(* A fiber between its two entries runs, and the last entry is its         *)
(* operation; one that is about to verify has shown both, or they are      *)
(* taken with the rest.                                                    *)
BetweenEntries(f) ==
  /\ pc[f] = "getto" =>
       /\ current = f
       /\ flushed < Len(sq)
       /\ sq[Len(sq)].fiber = f /\ sq[Len(sq)].role = "op"
  /\ pc[f] = "check" => flushed >= 2 \/ (flushed = 0 /\ busy # 1)

SqPaired == PairsInSq /\ \A f \in Fibers : BetweenEntries(f)

InState(f, p, S)  == \E r \in inflight : r.fiber = f /\ r.role = p /\ r.st \in S

(* In the kernel a timer is armed exactly while the operation of its call  *)
(* is active, and no operation waits behind another.                       *)
Paired(r) ==
  /\ r.role = "op" => r.st \in {"active", "finishing", "cancelled"} /\ r.after = NoFiber
  /\ r.role = "timeout" =>
       /\ r.st \in {"armed", "expired", "lost", "disarmed"}
       /\ r.after = IF r.st = "armed" THEN r.fiber ELSE NoFiber
  /\ r.st = "armed" => InState(r.fiber, "op", {"active"})
  /\ r.st = "active" /\ call[r.fiber] = "timed" => InState(r.fiber, "timeout", {"armed"})

FlightPaired == \A r \in inflight : Paired(r)

(* A result in V is posted to the setter of f in role p, or written there. *)
Reported(f, p, V) ==
  \/ \E i \in 1 .. Len(cq) : cq[i].fiber = f /\ cq[i].role = p /\ cq[i].res \in V
  \/ res[f][p] \in V

(* The timer of a call cancels its operation or has no effect on it, and   *)
(* the two results say the same.                                           *)
Verdict(f) ==
  /\ InState(f, "timeout", {"expired"}) \/ Reported(f, "timeout", {"ETIME"}) =>
       /\ ~InSq(f, "op") /\ ~InState(f, "op", {"active", "finishing"})
       /\ ~Reported(f, "op", {"ok"})
  /\ InState(f, "op", {"cancelled"}) \/ Reported(f, "op", {"ECANCELED"}) =>
       /\ call[f] = "timed"
       /\ ~InSq(f, "timeout") /\ ~InState(f, "timeout", {"armed", "lost", "disarmed"})
       /\ ~Reported(f, "timeout", {"ECANCELED"} \cup LostTimer)
  /\ ~Reported(f, "op", Results \ ({"ok", "ECANCELED"} \cup OpErrors))
  /\ ~Reported(f, "timeout", Results \ ({"ETIME", "ECANCELED"} \cup LostTimer))

(* A call in progress has returned nothing.                                *)
Unanswered(f) == InCall(f) => ret[f] = "none"

AmpleInv ==
  /\ SqPaired
  /\ FlightPaired
  /\ \A f \in Fibers : Verdict(f) /\ Unanswered(f)
  /\ outcome \notin {"should submit timeout and op", "bad LINK_TIMEOUT"}

=============================================================================
