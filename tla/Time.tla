-------------------------------- MODULE Time --------------------------------
(***************************************************************************)
(* Durations and instants of src/five/five/time.h: a signed number of      *)
(* nanoseconds, what the kernel is given for it, and how it is printed.    *)
(***************************************************************************)
EXTENDS CppInt

Nano == 1000000000

(* A duration from a timespec, and the timespec of a duration: what a      *)
(* timed receive hands to IORING_OP_LINK_TIMEOUT.                          *)
FromTimespec(ts) == ts.tv_sec * Nano + ts.tv_nsec

AsTimespec(nanos) ==
  [tv_sec |-> Quotient(nanos, Nano), tv_nsec |-> Remainder(nanos, Nano)]

(* What the kernel accepts; anything else completes with EINVAL.           *)
ValidTimespec(ts) == ts.tv_sec >= 0 /\ ts.tv_nsec \in 0 .. Nano - 1

Micros(nanos)  == Quotient(nanos, 1000)
Millis(nanos)  == Quotient(nanos, 1000000)
Seconds(nanos) == Quotient(nanos, Nano)

(* The scale an ostream prints a duration in, whose unit has as many       *)
(* nanoseconds.                                                            *)
Scale(nanos) ==
  IF nanos > 2 * Nano THEN Nano
  ELSE IF nanos > 2000000 THEN 1000000
  ELSE IF nanos > 2000 THEN 1000
  ELSE 1

Printed(nanos) == Quotient(nanos, Scale(nanos))

=============================================================================
