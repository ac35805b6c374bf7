------------------------------ MODULE Summary -------------------------------
(***************************************************************************)
(* The report at the end of both clients, src/src/cli.cc (111-128) and     *)
(* src/src/infallible_udp.cc (159-180), which computes it in the same way  *)
(* from the timings: only their number matters here.                       *)
(***************************************************************************)
EXTENDS Integers

CONSTANT
  Cut         (* How many timings are cut off if there are more: 1000.     *)

ASSUME SummaryAssumption == Cut \in Nat

(* How many of n timings are left after the first ones are cut off.        *)
Remaining(n) == IF n > Cut THEN n - Cut ELSE n

\* Mutant: off by one.
QuantileRankCeil(n, q) == (n * q) \div 10000 + 1

(* The index of quantile q / 10000 in n sorted timings.                    *)
QuantileRank(n, q) == (n * q) \div 10000

Quantiles == {5000, 9000, 9500, 9900, 9990, 9999}

(* The average divides by the number of timings that are left, and         *)
(* minimum, maximum and quantiles are read at their indices.               *)
CanReport(n) == n > 0 /\ \A q \in Quantiles : QuantileRank(n, q) < n

=============================================================================
