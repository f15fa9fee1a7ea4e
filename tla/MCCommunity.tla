---------------------------- MODULE MCCommunity -----------------------------
(* Model values for Community. *)
EXTENDS Community, TLC

CONSTANTS c1, c2, c3, u1, u2, u3, d1, d2

(* Calls, users and devices differ only in their names. *)
Symmetry == Permutations({c1, c2, c3}) \cup Permutations({u1, u2, u3})
              \cup Permutations({d1, d2})

(* To bound the cases, there is at the beginning a crew, or devices are    *)
(* registered, or notices have the foreign key: one of these at most.      *)
BoundedInit ==
  /\ Init
  /\ \/ crew = "none" /\ \A t \in Tokens : owner[t] = Null
     \/ crew = "none" /\ "battle" \in takes
     \/ "battle" \in takes /\ \A t \in Tokens : owner[t] = Null

BoundedSpec == BoundedInit /\ [][Next]_vars
=============================================================================
