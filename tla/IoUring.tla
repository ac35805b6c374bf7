------------------------------- MODULE IoUring -------------------------------
(***************************************************************************)
(* The submission and completion queues of io_uring, as src/ring2 uses     *)
(* them: liburing on the program's side, the kernel's SQPOLL thread and    *)
(* its workers on the other.  Neither is part of the repository; this      *)
(* module is the environment the ring2 modules run in.                     *)
(*                                                                         *)
(* An operation's user_data is the address of a UringResSetter in the      *)
(* stack frame of the fiber that submitted it.  A fiber is in one call at  *)
(* a time and its frames reuse the same addresses, so an address is a      *)
(* fiber and a role: "op" for the operation, "timeout" for the link        *)
(* timeout that guards it.                                                 *)
(***************************************************************************)
EXTENDS Scheduler, FiniteSets

CONSTANTS
  Entries,      (* The slots of the submission queue, ring_entries.        *)
  OpErrors,     (* The errors an operation can complete with.              *)
  LostTimer     (* What a timer that fires too late to cancel reports.     *)

Roles == {"op", "timeout"}

Results == {"ok", "ECANCELED", "ETIME", "EINVAL"} \cup OpErrors \cup LostTimer

(* ENOCQE (100512) and ESQE_TIMEOUT (100513) are larger than any errno.    *)
ASSUME IoUringAssumption ==
  /\ Entries \in Nat \ {0}
  /\ {"ENOCQE", "ok"} \cap (OpErrors \cup LostTimer) = {}

VARIABLES
  sq,        (* SQEs obtained and not taken by the kernel, oldest first.   *)
  flushed,   (* How many of them io_uring_submit has shown to the kernel.  *)
  busy,      (* Slots of the batch the kernel took and has not released.   *)
  inflight,  (* The requests the kernel works on.                          *)
  cq         (* Completions the program has not consumed, oldest first.    *)

ringVars == <<sq, flushed, busy, inflight, cq>>

Sqe == [fiber : Fibers, role : Roles, link : BOOLEAN]

(* An operation is "blocked" behind the linked operation before it, then   *)
(* "active"; "finishing" and "cancelled" ones are bound to complete.  A    *)
(* timeout is "armed" for the linked operation before it until its timer   *)
(* has "expired" or "lost" the race, or it is "disarmed"; an "orphan" has  *)
(* no operation to guard.                                                  *)
OpStates      == {"blocked", "active", "finishing", "cancelled"}
TimeoutStates == {"armed", "expired", "lost", "disarmed", "orphan"}

Request == [fiber : Fibers, role : Roles, after : Fibers \cup {NoFiber},
            st : OpStates \cup TimeoutStates]

Cqe == [fiber : Fibers, role : Roles, res : Results]

RingTypeOK ==
  /\ sq \in Seq(Sqe)
  /\ flushed \in 0 .. Len(sq)
  /\ busy \in Nat
  /\ inflight \in SUBSET Request
  /\ cq \in Seq(Cqe)

RingInit ==
  /\ sq = <<>>
  /\ flushed = 0
  /\ busy = 0
  /\ inflight = {}
  /\ cq = <<>>

\* Mutant: no entry is handed out unless two more are left.
SqFullReserves == Len(sq) + busy + 2 >= Entries

\* Mutant: a ring of half the entries.
SqFullHalf == 2 * (Len(sq) + busy) >= Entries

(* io_uring_get_sqe returns null: the kernel has released no slot.         *)
SqFull == Len(sq) + busy >= Entries

(* What io_uring_submit returns right after it has shown every SQE to the  *)
(* kernel: the entries between the kernel's head and the new tail.         *)
Submitted == flushed + busy

-----------------------------------------------------------------------------
(* The SQPOLL thread takes everything it can see as one batch.  Within a   *)
(* batch, IOSQE_IO_LINK ties an entry to the next one, whoever that one    *)
(* belongs to.                                                             *)

RequestOf(i) ==
  LET linked == i > 1 /\ sq[i - 1].link
  IN  [fiber |-> sq[i].fiber, role |-> sq[i].role,
       after |-> IF linked THEN sq[i - 1].fiber ELSE NoFiber,
       st    |-> IF sq[i].role = "op"
                 THEN IF linked THEN "blocked" ELSE "active"
                 ELSE IF linked THEN "armed" ELSE "orphan"]

TakeBatch ==
  /\ busy = 0
  /\ flushed > 0
  /\ inflight' = inflight \cup {RequestOf(i) : i \in 1 .. flushed}
  /\ sq' = SubSeq(sq, flushed + 1, Len(sq))
  /\ busy' = flushed
  /\ flushed' = 0
  /\ UNCHANGED cq

(* The head of the queue moves once, after the whole batch was issued.     *)
(* Requests of the batch may complete before that.                         *)
ReleaseBatch ==
  /\ busy > 0
  /\ busy' = 0
  /\ UNCHANGED <<sq, flushed, inflight, cq>>

-----------------------------------------------------------------------------
(* Requests complete in any order; each posts exactly one completion.      *)

OpResults(st) ==
  CASE st \in {"active", "finishing"} -> {"ok"} \cup OpErrors
    [] st = "cancelled"               -> {"ECANCELED"} \cup OpErrors
    [] OTHER                          -> {}

(* What q becomes when the operation of fiber f, if q waits for it,        *)
(* completes with v: its timeout is disarmed, the operation linked behind  *)
(* it starts, or is cancelled if this one failed.                          *)
AfterOp(q, f, v) ==
  IF q.after # f THEN q
  ELSE [q EXCEPT !.after = NoFiber,
                 !.st = IF q.role = "timeout" THEN "disarmed"
                        ELSE IF v = "ok" THEN "active" ELSE "cancelled"]

PostOp(r, v) ==
  /\ r.role = "op"
  /\ v \in OpResults(r.st)
  /\ cq' = Append(cq, [fiber |-> r.fiber, role |-> "op", res |-> v])
  /\ inflight' = {AfterOp(q, r.fiber, v) : q \in inflight \ {r}}
  /\ UNCHANGED <<sq, flushed, busy>>

(* The timer t of an active operation r: either it fires and cancels the   *)
(* operation, or the operation completes on its own just then.             *)
Timer(t, r, timerWins) ==
  /\ t.st = "armed"
  /\ r.role = "op" /\ r.fiber = t.after /\ r.st = "active"
  /\ inflight' = (inflight \ {t, r}) \cup
       {[t EXCEPT !.after = NoFiber,
                  !.st = IF timerWins THEN "expired" ELSE "lost"],
        [r EXCEPT !.st = IF timerWins THEN "cancelled" ELSE "finishing"]}
  /\ UNCHANGED <<sq, flushed, busy, cq>>

TimeoutResults(st) ==
  CASE st = "expired"  -> {"ETIME"}
    [] st = "lost"     -> {"ECANCELED"} \cup LostTimer
    [] st = "disarmed" -> {"ECANCELED"}
    [] st = "orphan"   -> {"EINVAL"}
    [] OTHER           -> {}

PostTimeout(t, v) ==
  /\ t.role = "timeout"
  /\ v \in TimeoutResults(t.st)
  /\ cq' = Append(cq, [fiber |-> t.fiber, role |-> "timeout", res |-> v])
  /\ inflight' = inflight \ {t}
  /\ UNCHANGED <<sq, flushed, busy>>

-----------------------------------------------------------------------------
(* The completion of fiber f's entry in role p is still to be dispatched:  *)
(* it is in the submission queue, with the kernel, or in the completion    *)
(* queue.                                                                  *)
InSq(f, p)        == \E i \in 1 .. Len(sq) : sq[i].fiber = f /\ sq[i].role = p
InFlight(f, p)    == \E r \in inflight : r.fiber = f /\ r.role = p
InCq(f, p)        == \E i \in 1 .. Len(cq) : cq[i].fiber = f /\ cq[i].role = p
Outstanding(f, p) == InSq(f, p) \/ InFlight(f, p) \/ InCq(f, p)

UniqueInSq ==
  \A i, j \in 1 .. Len(sq) :
    sq[i].fiber = sq[j].fiber /\ sq[i].role = sq[j].role => i = j

UniqueInFlight ==
  \A q, r \in inflight : q.fiber = r.fiber /\ q.role = r.role => q = r

UniqueInCq ==
  \A i, j \in 1 .. Len(cq) :
    cq[i].fiber = cq[j].fiber /\ cq[i].role = cq[j].role => i = j

InOnePlace ==
  \A f \in Fibers, p \in Roles :
    /\ ~(InSq(f, p) /\ InFlight(f, p))
    /\ ~(InSq(f, p) /\ InCq(f, p))
    /\ ~(InFlight(f, p) /\ InCq(f, p))

(* OneCompletion: at most one completion is owed per setter, and its entry *)
(* is in one place only, although frames of successive calls reuse the     *)
(* same addresses as user_data (submitter.cc:18, 36-37).                   *)
OneCompletion == UniqueInSq /\ UniqueInFlight /\ UniqueInCq /\ InOnePlace

=============================================================================
