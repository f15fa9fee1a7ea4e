----------------------------- MODULE MCPayments -----------------------------
(* Model values for Payments. *)
EXTENDS Payments, TLC

CONSTANTS c1, c2, c3, f1, f2, h1, h2

(* Calls, confirms and deliveries differ only in their names. *)
Symmetry == Permutations({c1, c2, c3}) \cup Permutations({f1, f2}) \cup Permutations({h1, h2})
=============================================================================
