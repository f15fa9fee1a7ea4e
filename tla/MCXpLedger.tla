----------------------------- MODULE MCXpLedger -----------------------------
(* Model values for XpLedger. *)
EXTENDS XpLedger, TLC

CONSTANTS a1, a2, w1, w2, d1, d2

(* Calls of one kind differ only in their names. *)
Symmetry == Permutations({a1, a2}) \cup Permutations({w1, w2}) \cup Permutations({d1, d2})
=============================================================================
