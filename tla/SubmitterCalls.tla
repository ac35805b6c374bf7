--------------------------- MODULE SubmitterCalls ---------------------------
(***************************************************************************)
(* The ring2 stack implements the calls its fibers see (FiberCalls), in    *)
(* two strengths: in any ring, and in a ring with four entries per fiber.  *)
(***************************************************************************)
EXTENDS Submitter

(* A fiber that waits for an entry, for its completions or for its turn    *)
(* after them is in its call.                                              *)
Control(f) == IF InCall(f) THEN "calling" ELSE pc[f]

(* In any ring a call returns a result of the kernel's or a timeout, and   *)
(* may fail one of its verifications.                                      *)
AnyAnswers == [k \in Calls |->
  IF k = "timed" THEN Results \cup {"ESQE_TIMEOUT"} ELSE Results]

AnyDeaths == [k \in Calls |->
  CASE k = "send"   -> {"bad sendmsg"}
    [] k = "accept" -> {"bad accept"}
    [] k = "timed"  -> {"should submit timeout and op", "bad LINK_TIMEOUT"}
    [] OTHER        -> {}]

AnyRing == INSTANCE FiberCalls WITH
  Kinds <- Calls, Answers <- AnyAnswers, Deaths <- AnyDeaths,
  ctl <- [f \in Fibers |-> Control(f)], kind <- call, answer <- ret, end <- outcome

(* In an ample ring an operation is never cancelled but by its own timer,  *)
(* so a call returns what its operation did, and only the timed one        *)
(* reports a timeout; the verifications hold.                              *)
AmpleAnswers == [k \in Calls |->
  CASE k = "recv"  -> {"ok"} \cup OpErrors
    [] k = "timed" -> {"ok", "ESQE_TIMEOUT"} \cup OpErrors
    [] OTHER       -> {"ok"}]

AmpleDeaths == [k \in Calls |->
  CASE k = "send"   -> {"bad sendmsg"}
    [] k = "accept" -> {"bad accept"}
    [] OTHER        -> {}]

AmpleRing == INSTANCE FiberCalls WITH
  Kinds <- Calls, Answers <- AmpleAnswers, Deaths <- AmpleDeaths,
  ctl <- [f \in Fibers |-> Control(f)], kind <- call, answer <- ret, end <- outcome

(* KeepsPromise: whatever the size of the ring and the order of the        *)
(* completions, each call of submitter.cc blocks its fiber until it has    *)
(* one answer, and the scheduler stops only when no fiber is in a call.    *)
KeepsPromise == AnyRing!Spec

(* KeepsStrictPromise: in an ample ring no call reports a cancellation or  *)
(* a missing result, and no verification of submitter.cc fails.            *)
KeepsStrictPromise == AmpleRing!Spec

=============================================================================
