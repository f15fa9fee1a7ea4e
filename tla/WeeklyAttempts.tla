--------------------------- MODULE WeeklyAttempts ---------------------------
(***************************************************************************)
(* What the records of a quiz or a mock exam are meant to be               *)
(* (quiz-record.service.ts:36-45, 162): in each week one attempt after     *)
(* another, each completed at most once, and its XP logged at most once.   *)
(* A completed attempt may be followed by another one.  An attempt in      *)
(* progress may be given up for another one in a mock exam only.  A week's *)
(* first attempt may be recorded when it is over: that completes nothing,  *)
(* and earns nothing.                                                      *)
(***************************************************************************)
EXTENDS Naturals

CONSTANT Weeks

VARIABLES
  kind,       \* quiz or mock
  number,     \* how many attempts have been begun in each week
  over,       \* whether the last of them has been ended
  completed,  \* the attempts that have been completed
  awarded,    \* those among them whose XP has been logged
  entries     \* how many times XP has been logged

vars == <<kind, number, over, completed, awarded, entries>>

Last(w) == [week |-> w, attempt |-> number[w]]

Init ==
  /\ kind \in {"quiz", "mock"}
  /\ number \in [Weeks -> {0, 1}]
  /\ over = [w \in Weeks |-> FALSE]
  /\ completed = {}
  /\ awarded = {}
  /\ entries = 0

Begin(w) ==
  /\ number[w] = 0 \/ over[w] \/ kind = "mock"
  /\ number' = [number EXCEPT ![w] = @ + 1]
  /\ over' = [over EXCEPT ![w] = FALSE]
  /\ UNCHANGED <<kind, completed, awarded, entries>>

Record(w) ==
  /\ number[w] = 0
  /\ number' = [number EXCEPT ![w] = 1]
  /\ over' = [over EXCEPT ![w] = TRUE]
  /\ UNCHANGED <<kind, completed, awarded, entries>>

Complete(w) ==
  /\ number[w] > 0 /\ ~over[w]
  /\ over' = [over EXCEPT ![w] = TRUE]
  /\ completed' = completed \cup {Last(w)}
  /\ UNCHANGED <<kind, number, awarded, entries>>

Award(a) ==
  /\ a \in completed \ awarded
  /\ awarded' = awarded \cup {a}
  /\ entries' = entries + 1
  /\ UNCHANGED <<kind, number, over, completed>>

Next ==
  \/ \E w \in Weeks : Begin(w) \/ Record(w) \/ Complete(w)
  \/ \E a \in completed : Award(a)

Spec == Init /\ [][Next]_vars
=============================================================================
