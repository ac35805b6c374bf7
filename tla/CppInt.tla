------------------------------- MODULE CppInt -------------------------------
(***************************************************************************)
(* Division of integers as C++ defines it: the quotient is rounded towards *)
(* zero, the remainder has the sign of the dividend.  TLA+ rounds down.    *)
(***************************************************************************)
EXTENDS Integers

Magnitude(a) == IF a < 0 THEN -a ELSE a

(* a / b and a % b, for b # 0.                                             *)
Quotient(a, b) ==
  LET q == Magnitude(a) \div Magnitude(b)
  IN  IF (a < 0) = (b < 0) THEN q ELSE -q

Remainder(a, b) == a - b * Quotient(a, b)

=============================================================================
