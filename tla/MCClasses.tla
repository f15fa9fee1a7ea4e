----------------------------- MODULE MCClasses -----------------------------
(* Model values for Classes. *)
EXTENDS Classes, TLC

CONSTANTS c1, c2, c3, k1, k2, t1, t2

(* Calls, classes and titles differ only in their names. *)
Symmetry == Permutations({c1, c2, c3}) \cup Permutations({k1, k2})
              \cup Permutations({t1, t2})
=============================================================================
