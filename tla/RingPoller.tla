----------------------------- MODULE RingPoller -----------------------------
(***************************************************************************)
(* net::RingPoller and UringResSetter (src/ring2/ring2/poller.cc): the     *)
(* scheduler's poller.  It reaps completions, writes each result into the  *)
(* stack frame its user_data points to, and wakes the fiber of that frame. *)
(***************************************************************************)
EXTENDS Ring

CONSTANTS
  Polls,         (* What the scheduler calls: "one" is TryPoll, "many" is  *)
                 (* TryPollMany.                                           *)
  MaxAttempts    (* busypoll_attempts: after so many idle calls of TryPoll *)
                 (* the poller blocks.                                     *)

ASSUME RingPollerAssumption ==
  /\ Polls \subseteq {"one", "many"}
  /\ MaxAttempts \in Nat \ {0}

(* recvmsg without a duration, recvmsg with one, sendmsg, accept.          *)
Calls == {"recv", "timed", "send", "accept"}

VARIABLES
  attempts,   (* attempts_: calls of TryPoll since the last completion.    *)
  waiting,    (* TryPoll is blocked in Ring::poll.                         *)
  call,       (* The call the setters in a fiber's frame belong to.        *)
  res         (* UringResSetter::res, for each fiber and role.             *)

pollerVars == <<attempts, waiting, call, res>>

NotSet == [op |-> "ENOCQE", timeout |-> "ENOCQE"]

PollerTypeOK ==
  /\ attempts \in Nat
  /\ waiting \in BOOLEAN
  /\ call \in [Fibers -> Calls]
  /\ res \in [Fibers -> [Roles -> Results \cup {"ENOCQE"}]]

PollerInit ==
  /\ attempts = 0
  /\ waiting = FALSE
  /\ call = [f \in Fibers |-> "recv"]
  /\ res = [f \in Fibers |-> NotSet]

(* The poller is between two calls: it may be called, and the scheduler    *)
(* may do something else.                                                  *)
PollerIdle == current = NoFiber /\ reaped = 0 /\ ~waiting

\* Mutant: any completion of the call wakes the fiber.
WakesOnFirst(f, r) == TRUE

\* Mutant: check_both_set only looks at the operation.
WakesOnOp(f, r) == r.op # "ENOCQE"

\* Mutant: check_both_set is asked before the new result is stored.
WakesStale(f, r) ==
  call[f] = "timed" => res[f].op # "ENOCQE" /\ res[f].timeout # "ENOCQE"

(* should_wake() of a setter in f's frame, when the frame's results are r: *)
(* only a timed call sets it, to check_both_set.                           *)
ShouldWake(f, r) ==
  call[f] = "timed" => r.op # "ENOCQE" /\ r.timeout # "ENOCQE"

(* dispatch() of the oldest reaped completion.                             *)
dispatch ==
  LET c == Head(cq)
      r == [res[c.fiber] EXCEPT ![c.role] = c.res]
  IN  /\ reaped > 0
      /\ reaped' = reaped - 1
      /\ cq' = Tail(cq)
      /\ res' = [res EXCEPT ![c.fiber] = r]
      /\ IF ShouldWake(c.fiber, r)
         THEN Wake(c.fiber) ELSE UNCHANGED schedulerVars
      /\ UNCHANGED <<sq, flushed, busy, inflight, pending_count,
                     attempts, waiting, call>>

(* TryPollMany: dispatch then handles what it has reaped.                  *)
TryPollMany ==
  /\ "many" \in Polls
  /\ PollerIdle
  /\ try_poll_many
  /\ UNCHANGED schedulerVars /\ UNCHANGED pollerVars

(* TryPoll below the limit, with a completion or without one.              *)
TryPollBusy ==
  /\ attempts + 1 < MaxAttempts
  /\ IF cq # <<>>
     THEN try_poll /\ attempts' = 0
     ELSE /\ attempts' = attempts + 1
          /\ UNCHANGED ringVars /\ UNCHANGED <<pending_count, reaped>>
  /\ UNCHANGED waiting

(* TryPoll at the limit: it goes on to poll(), whose completion replaces   *)
(* the one try_poll has just consumed.                                     *)
TryPollLimit ==
  /\ attempts + 1 >= MaxAttempts
  /\ attempts' = attempts + 1
  /\ waiting' = TRUE
  /\ IF cq # <<>>
     THEN cq' = Tail(cq) /\ pending_count' = pending_count - 1
     ELSE UNCHANGED <<cq, pending_count>>
  /\ UNCHANGED <<sq, flushed, busy, inflight, reaped>>

TryPoll ==
  /\ "one" \in Polls
  /\ PollerIdle
  /\ TryPollBusy \/ TryPollLimit
  /\ UNCHANGED schedulerVars /\ UNCHANGED <<call, res>>

\* Mutant: the completion poll() returns is consumed and not dispatched.
PollReturnsNothing ==
  /\ waiting
  /\ cq # <<>>
  /\ cq' = Tail(cq)
  /\ pending_count' = pending_count - 1
  /\ waiting' = FALSE
  /\ attempts' = 0
  /\ UNCHANGED <<sq, flushed, busy, inflight, reaped>>
  /\ UNCHANGED schedulerVars /\ UNCHANGED <<call, res>>

(* TryPoll returns from poll().                                            *)
PollReturns ==
  /\ waiting
  /\ poll
  /\ waiting' = FALSE
  /\ attempts' = 0
  /\ UNCHANGED schedulerVars /\ UNCHANGED <<call, res>>

HasPending == has_pending

=============================================================================
