----------------------------- MODULE MCLessons -----------------------------
(* Model values for Lessons. *)
EXTENDS Lessons, TLC

CONSTANTS c1, c2, c3, s1, s2, s3, l1, l2, t1, t2, i1, i2

(* Calls, subjects, lessons, titles and pictures differ only in their names. *)
Symmetry == Permutations({c1, c2, c3}) \cup Permutations({s1, s2, s3})
              \cup Permutations({l1, l2}) \cup Permutations({t1, t2})
              \cup Permutations({i1, i2})
=============================================================================
