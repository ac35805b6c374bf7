------------------------------- MODULE Xrange -------------------------------
(***************************************************************************)
(* A range-for loop over xrange(start, stop, step) of                      *)
(* src/five/five/xrange.h.  end() is begin(): the loop ends before its     *)
(* body runs, for every range.  stop_ is computed and never read, and the  *)
(* assertion of operator++, which has its condition the wrong way round,   *)
(* is never evaluated.                                                     *)
(***************************************************************************)
EXTENDS CppInt

CONSTANTS
  Bounds,     (* The values start and stop are taken from.                 *)
  Steps       (* Those of step.                                            *)

VARIABLES
  range,      (* The Xrange: its start_, stop_ and step_.                  *)
  asked,      (* The stop it was asked for.                                *)
  cur,        (* cur_ of the loop's iterator.                              *)
  visited,    (* How many times the body has run.                          *)
  loop        (* "none", "test", "done", or how the process died:          *)
              (* "divided" by zero or "invalid".                           *)

xrangeVars == <<range, asked, cur, visited, loop>>

calc_real_stop(start, stop, step) ==
  start + (Quotient(stop - start - 1, step) + 1) * step

(* The three overloads.                                                    *)
Ranges ==
  {<<0, stop, 1>> : stop \in Bounds}
  \cup {<<start, stop, 1>> : start \in Bounds, stop \in Bounds}
  \cup Bounds \X Bounds \X Steps

Begin(r) == r.start

End(r) == r.start

XrangeInit ==
  /\ range = [start |-> 0, stop |-> 0, step |-> 1]
  /\ asked = 0
  /\ cur = 0
  /\ visited = 0
  /\ loop = "none"

(* calc_real_stop divides before the constructor checks its step.          *)
Construct(a) ==
  /\ loop = "none"
  /\ IF a[3] = 0
     THEN loop' = "divided" /\ UNCHANGED <<range, asked, cur>>
     ELSE /\ range' = [start |-> a[1], step |-> a[3],
                       stop |-> calc_real_stop(a[1], a[2], a[3])]
          /\ asked' = a[2]
          /\ cur' = Begin(range')
          /\ loop' = "test"
  /\ UNCHANGED visited

(* A turn of the loop: operator!=, and unless it is false the body and     *)
(* operator++ with its WHEELS_ASSERT(!step_).                              *)
Turn ==
  /\ loop = "test"
  /\ IF cur = End(range)
     THEN loop' = "done" /\ UNCHANGED <<cur, visited>>
     ELSE /\ visited' = visited + 1
          /\ cur' = cur + range.step
          /\ loop' = IF range.step # 0 THEN "invalid" ELSE "test"
  /\ UNCHANGED <<range, asked>>

XrangeNext == (\E a \in Ranges : Construct(a)) \/ Turn

XrangeSpec == XrangeInit /\ [][XrangeNext]_xrangeVars

-----------------------------------------------------------------------------

(* VisitsAll: a loop over an ascending range that is not empty runs its    *)
(* body once for each of its values, as the unit test (ut/xrange.cc:4-10,  *)
(* xrange(10)) and the constructors of the pools (object_pool.h:17, 58,    *)
(* xrange(initial)) are written for.  end() (50-55) makes it false.        *)
VisitsAll ==
  loop = "done" /\ range.step > 0 /\ range.start < asked =>
    asked - range.start \in (visited - 1) * range.step + 1 .. visited * range.step

=============================================================================
