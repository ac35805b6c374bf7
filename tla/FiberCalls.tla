----------------------------- MODULE FiberCalls -----------------------------
(***************************************************************************)
(* What net::Submitter (src/ring2/ring2/submitter.h) promises the fibers   *)
(* that use it: a call blocks its fiber until the call has one answer, an  *)
(* answer is one of those the kind of call allows, and the scheduler stops *)
(* only when no fiber is in a call.  Nothing here knows of a ring.         *)
(***************************************************************************)

CONSTANTS
  Fibers, Root,
  Kinds,       (* The kinds of calls.                                      *)
  Answers,     (* Answers[k]: what a call of kind k may return.            *)
  Deaths       (* Deaths[k]: the messages it may end the process with.     *)

VARIABLES
  ctl,         (* Each fiber is "new", "ready", "calling" or "done".       *)
  kind,        (* The kind of its last call.                               *)
  answer,      (* What that call returned; "none" before it returns.       *)
  end          (* "running", "stopped", or the message the process died of. *)

vars == <<ctl, kind, answer, end>>

Init ==
  /\ ctl = [f \in Fibers |-> IF f = Root THEN "ready" ELSE "new"]
  /\ kind \in [Fibers -> Kinds]
  /\ answer = [f \in Fibers |-> "none"]
  /\ end = "running"

(* A running fiber spawns f.                                               *)
Spawn(f) ==
  /\ ctl[f] = "new"
  /\ ctl' = [ctl EXCEPT ![f] = "ready"]
  /\ UNCHANGED <<kind, answer, end>>

Finish(f) ==
  /\ ctl[f] = "ready"
  /\ ctl' = [ctl EXCEPT ![f] = "done"]
  /\ UNCHANGED <<kind, answer, end>>

Begin(f, k) ==
  /\ ctl[f] = "ready"
  /\ ctl' = [ctl EXCEPT ![f] = "calling"]
  /\ kind' = [kind EXCEPT ![f] = k]
  /\ answer' = [answer EXCEPT ![f] = "none"]
  /\ UNCHANGED end

Return(f, v) ==
  /\ ctl[f] = "calling"
  /\ v \in Answers[kind[f]]
  /\ ctl' = [ctl EXCEPT ![f] = "ready"]
  /\ answer' = [answer EXCEPT ![f] = v]
  /\ UNCHANGED <<kind, end>>

Die(f, m) ==
  /\ ctl[f] = "calling"
  /\ m \in Deaths[kind[f]]
  /\ end' = m
  /\ UNCHANGED <<ctl, kind, answer>>

Stop ==
  /\ \A f \in Fibers : ctl[f] \in {"new", "done"}
  /\ end' = "stopped"
  /\ UNCHANGED <<ctl, kind, answer>>

Next ==
  /\ end = "running"
  /\ \/ Stop
     \/ \E f \in Fibers :
          \/ Spawn(f)
          \/ Finish(f)
          \/ \E k \in Kinds : Begin(f, k)
          \/ \E v \in Answers[kind[f]] : Return(f, v)
          \/ \E m \in Deaths[kind[f]] : Die(f, m)

Spec == Init /\ [][Next]_vars

=============================================================================
