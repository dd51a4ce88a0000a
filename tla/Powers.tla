------------------------------- MODULE Powers -------------------------------
(* The powers of two of shifts and network masks.                          *)
EXTENDS Naturals

(* 1 << n, in numbers without width.                                       *)
Pow2[n \in Nat] == IF n = 0 THEN 1 ELSE 2 * Pow2[n - 1]

=============================================================================
