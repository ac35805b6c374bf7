------------------------------ MODULE Scheduler ------------------------------
(***************************************************************************)
(* The cooperative, single-threaded scheduler of tinyfibers (tf), as       *)
(* src/ring2 uses it: a FIFO of runnable fibers, one fiber running at a    *)
(* time, and no switch except where the running fiber yields, suspends or  *)
(* ends.  tinyfibers is not part of the repository; this module is the     *)
(* environment the ring2 modules run in.                                   *)
(***************************************************************************)
EXTENDS Naturals, Sequences

CONSTANTS
  Fibers,    (* The fibers of the program.                                 *)
  NoFiber,   (* Not a fiber.                                               *)
  Root       (* The fiber RunScheduler starts with.                        *)

ASSUME SchedulerAssumption == NoFiber \notin Fibers /\ Root \in Fibers

VARIABLES
  runq,      (* The runnable fibers that are not running, next one first.  *)
  current    (* The running fiber; NoFiber while the scheduler loop runs.  *)

schedulerVars == <<runq, current>>

SchedulerTypeOK ==
  /\ runq \in Seq(Fibers)
  /\ current \in Fibers \cup {NoFiber}

SchedulerInit ==
  /\ runq = <<Root>>
  /\ current = NoFiber

(* Fiber f is runnable or running.                                         *)
Scheduled(f) == current = f \/ \E i \in 1 .. Len(runq) : runq[i] = f

(* No fiber is queued twice, and the running one is not queued.            *)
QueuedOnce ==
  /\ \A i, j \in 1 .. Len(runq) : runq[i] = runq[j] => i = j
  /\ \A i \in 1 .. Len(runq) : runq[i] # current

(* The scheduler switches to the next runnable fiber.                      *)
Resume ==
  /\ current = NoFiber
  /\ runq # <<>>
  /\ current' = Head(runq)
  /\ runq' = Tail(runq)

(* tf::Yield(): the running fiber f goes to the back of the queue.         *)
Yield(f) ==
  /\ current = f
  /\ current' = NoFiber
  /\ runq' = Append(runq, f)

(* Scheduler::Suspend(), and the end of a fiber: nothing but Wake can make *)
(* f run again.                                                            *)
Suspend(f) ==
  /\ current = f
  /\ current' = NoFiber
  /\ UNCHANGED runq

(* The poller returned fiber f, or f was just spawned.                     *)
Wake(f) ==
  /\ runq' = Append(runq, f)
  /\ UNCHANGED current

=============================================================================
