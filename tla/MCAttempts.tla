----------------------------- MODULE MCAttempts -----------------------------
(* Model values for Attempts. *)
EXTENDS Attempts, TLC

CONSTANTS c1, c2, c3, c4, q1, q2

(* A client sends no statistics, or that one question has been answered. *)
MCSent == {Blank, [x \in Fields |-> IF x = "answered" THEN 1 ELSE 0]}

(* Calls, and questions, differ only in their names. *)
Symmetry == Permutations({c1, c2, c3, c4}) \cup Permutations({q1, q2})
=============================================================================
