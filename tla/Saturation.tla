------------------------------ MODULE Saturation ------------------------------
(***************************************************************************)
(* The concave saturation every score is built from (engine/scoring._sat), *)
(* in hundredths, rounded down: halfway to saturation gives 70, not 50.    *)
(***************************************************************************)
EXTENDS Integers

Root == [n \in 0 .. 10000 |-> CHOOSE k \in 0 .. 100 : k * k <= n /\ n < (k + 1) * (k + 1)]

Sat(x, full) ==
    CASE x <= 0 -> 0
      [] x > 0 /\ x >= full -> 100
      [] OTHER -> Root[(10000 * x) \div full]

=============================================================================
