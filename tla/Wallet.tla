------------------------------- MODULE Wallet -------------------------------
(***************************************************************************)
(* What the XP ledger means to be to a student: an account that awards     *)
(* credit.  A request for airtime takes its amount out at once, never more *)
(* than there is, and it stays out while the request is pending; a         *)
(* decision then spends it or gives it back, and once only                 *)
(* (xp-withdrawal.service.ts:39-40, 157).                                  *)
(***************************************************************************)
EXTENDS Integers

CONSTANT Withdrawals

VARIABLES
  worth,  \* the student's XP
  state,  \* each request's status
  held    \* the XP each request has taken out

Init ==
  /\ worth \in Int
  /\ state = [w \in Withdrawals |-> "none"]
  /\ held = [w \in Withdrawals |-> 0]

Earn ==
  /\ worth' \in Int /\ worth' >= worth
  /\ UNCHANGED <<state, held>>

Ask(w) ==
  /\ state[w] = "none"
  /\ \E n \in 1..worth :
       /\ worth' = worth - n
       /\ held' = [held EXCEPT ![w] = n]
  /\ state' = [state EXCEPT ![w] = "PENDING"]

Spend(w) ==
  /\ state[w] = "PENDING"
  /\ state' = [state EXCEPT ![w] = "SENT"]
  /\ UNCHANGED <<worth, held>>

GiveBack(w) ==
  /\ state[w] = "PENDING"
  /\ worth' = worth + held[w]
  /\ state' = [state EXCEPT ![w] = "DECLINED"]
  /\ UNCHANGED held

(* An administrator's reset. *)
Empty ==
  /\ worth' = 0
  /\ UNCHANGED <<state, held>>

Next ==
  \/ Earn
  \/ \E w \in Withdrawals : Ask(w) \/ Spend(w) \/ GiveBack(w)
  \/ Empty

Spec == Init /\ [][Next]_<<worth, state, held>>
=============================================================================
