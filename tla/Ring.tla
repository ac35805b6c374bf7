-------------------------------- MODULE Ring --------------------------------
(***************************************************************************)
(* net::Ring (src/ring2/ring2/ring.cc): the program's side of io_uring.    *)
(* Each operator is one call, from the moment it holds what it waits for.  *)
(* The statistics of Starvation only feed a log line and are left out, and *)
(* so are failures of io_uring_wait_cqe and io_uring_peek_cqe themselves,  *)
(* of which SYSCALL_VERIFY (ring.cc:60, 73) makes the end of the process.  *)
(***************************************************************************)
EXTENDS IoUring, Integers

CONSTANT BatchSize   (* How many completions try_poll_many asks for: 16.   *)

ASSUME RingAssumption == BatchSize \in Nat \ {0}

VARIABLES
  pending_count,   (* Operations submitted and not consumed.               *)
  reaped           (* Completions at the head of cq already copied out,    *)
                   (* counted as consumed and not dispatched yet.          *)

RingStateOK ==
  /\ pending_count \in Int
  /\ reaped \in 0 .. Len(cq)

RingStateInit ==
  /\ pending_count = 0
  /\ reaped = 0

\* Mutant: the operation is shown to the kernel before its timeout exists.
AfterFlushAtOnce(next_is_timeout) == Len(sq) + 1

(* What io_uring_submit does with the tail: every entry obtained so far,   *)
(* whoever obtained it, becomes visible to the kernel.                     *)
AfterFlush(next_is_timeout) ==
  IF next_is_timeout THEN flushed ELSE Len(sq) + 1

\* Mutant: an entry whose submission is deferred is not counted.
submitUncounted(s, next_is_timeout) ==
  /\ ~SqFull
  /\ sq' = Append(sq, s)
  /\ flushed' = AfterFlush(next_is_timeout)
  /\ pending_count' = IF next_is_timeout THEN pending_count ELSE pending_count + 1
  /\ UNCHANGED <<busy, inflight, cq, reaped>>

(* Ring::submit once io_uring_get_sqe has returned an entry.               *)
submit(s, next_is_timeout) ==
  /\ ~SqFull
  /\ sq' = Append(sq, s)
  /\ flushed' = AfterFlush(next_is_timeout)
  /\ pending_count' = pending_count + 1
  /\ UNCHANGED <<busy, inflight, cq, reaped>>

(* n completions are copied out, their entries released and counted.       *)
Reap(n) ==
  /\ reaped' = n
  /\ pending_count' = pending_count - n
  /\ UNCHANGED ringVars

(* Ring::poll returns: io_uring_wait_cqe has found a completion.           *)
poll == cq # <<>> /\ Reap(1)

(* Ring::try_poll with a completion to take.                               *)
try_poll == cq # <<>> /\ Reap(1)

\* Mutant: the number of completions found is taken to be the number asked for.
try_poll_many_full == cq # <<>> /\ Reap(BatchSize)

(* Ring::try_poll_many with at least one completion to take.               *)
try_poll_many ==
  /\ cq # <<>>
  /\ Reap(IF Len(cq) < BatchSize THEN Len(cq) ELSE BatchSize)

\* Mutant: off by one.
has_pending_many == pending_count > 1

has_pending == pending_count > 0

=============================================================================
