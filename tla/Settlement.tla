----------------------------- MODULE Settlement -----------------------------
(***************************************************************************)
(* What PaymentsService promises its callers (payments.service.ts:31-34,   *)
(* 65-68, 152-156): a purchase has at most one transaction, and that       *)
(* transaction leaves PENDING once and for good.                           *)
(***************************************************************************)
CONSTANT Purchases

VARIABLE state

Init == state = [p \in Purchases |-> "none"]

Open(p) ==
  /\ state[p] = "none"
  /\ state' = [state EXCEPT ![p] = "PENDING"]

Settle(p) ==
  /\ state[p] = "PENDING"
  /\ \E s \in {"PAID", "FAILED"} : state' = [state EXCEPT ![p] = s]

Next == \E p \in Purchases : Open(p) \/ Settle(p)

Spec == Init /\ [][Next]_state
=============================================================================
