--------------------------- MODULE PaymentsProofs ---------------------------
(***************************************************************************)
(* Theorems about Payments for any number of calls, keys, confirms and     *)
(* webhook deliveries.                                                     *)
(*                                                                         *)
(* The argument: a checkout is paid only when its URL was returned, a URL  *)
(* is returned only for the one row of its key, and every verdict a        *)
(* handler carries is one the gateway has given and, if it is PAID, keeps. *)
(***************************************************************************)
EXTENDS Payments, TLAPS

(* A call that has not looked up its key has left no trace, and a checkout *)
(* or a row is that of a call which is past its lookup.                    *)
Traces ==
  \A c \in Calls :
    /\ pc[c] = "idle" => key[c] = None
    /\ pc[c] \in {"idle", "new"} => gw[c] = "none"
    /\ pc[c] # "done" => row[c] = "none" /\ out[c] = None
    /\ pc[c] = "conflict" => key[c] # None /\ RowsOf(key[c]) # {}

(* The unique index on (userId, idempotencyKey). *)
UniqueRows ==
  \A r, s \in Calls :
    row[r] # "none" /\ row[s] # "none" /\ key[r] = key[s] /\ key[r] # None => r = s

(* What a call returned is the row of its key, or its own. *)
Answers ==
  \A c \in Calls : out[c] # None =>
    row[out[c]] # "none" /\ key[out[c]] = key[c]

(* Every checkout that is paid has a row. *)
ChargedHasRow == \A r \in Calls : gw[r] = "success" => row[r] # "none"

(* The gateway has given every verdict under way, and PAID is for good. *)
Verdicts ==
  /\ \A e \in events : e.status = "PAID" => gw[e.ref] = "success"
  /\ \A f \in Confirms : conf[f] # None =>
       /\ row[conf[f].ref] # "none"
       /\ conf[f].status = "PAID" => gw[conf[f].ref] = "success"
  /\ \A h \in Hooks : hook[h] # None =>
       hook[h] \in events /\ row[hook[h].ref] # "none"

IInv ==
  /\ TypeOK
  /\ Traces
  /\ UniqueRows
  /\ Answers
  /\ ChargedHasRow
  /\ Verdicts
  /\ PaidIsCharged

(* When failures are final, a verdict of FAILED is for good as well. *)
FinalVerdicts ==
  /\ \A e \in events : e.status = "FAILED" => gw[e.ref] = "failed"
  /\ \A f \in Confirms : conf[f] # None /\ conf[f].status = "FAILED" =>
       gw[conf[f].ref] = "failed"
  /\ \A r \in Calls : row[r] = "FAILED" => gw[r] = "failed"

(* The initial states satisfy the invariants. *)
LEMMA InvInit == Init => IInv /\ FinalVerdicts
BY PaymentsAssumption
   DEF Init, IInv, TypeOK, Traces, UniqueRows, Answers, ChargedHasRow, Verdicts,
       PaidIsCharged, FinalVerdicts, RowState, Final, Event, Confirm, RowsOf

(* Every step leaves every variable in its type. *)
LEMMA TypeStep == IInv /\ [Next]_vars => TypeOK'
<1> SUFFICES ASSUME IInv, [Next]_vars PROVE TypeOK'
  OBVIOUS
<1> USE PaymentsAssumption
    DEF IInv, TypeOK, Answers, Verdicts, Final, RowState, Event, Confirm, Return,
        Verdict, RowsOf
<1>1. ASSUME NEW c \in Calls, InitLookup(c) PROVE TypeOK'
  BY <1>1 DEF InitLookup
<1>2. ASSUME NEW c \in Calls, InitReject(c) PROVE TypeOK'
  BY <1>2 DEF InitReject
<1>3. ASSUME NEW c \in Calls, InitGateway(c) PROVE TypeOK'
  BY <1>3 DEF InitGateway
<1>4. ASSUME NEW c \in Calls, InitCreate(c) PROVE TypeOK'
  BY <1>4 DEF InitCreate
<1>5. ASSUME NEW c \in Calls, InitConflict(c) PROVE TypeOK'
  BY <1>5 DEF InitConflict
<1>6. ASSUME NEW f \in Confirms, ConfirmLoad(f) PROVE TypeOK'
  BY <1>6 DEF ConfirmLoad
<1>7. ASSUME NEW f \in Confirms, ConfirmVerify(f) PROVE TypeOK'
  BY <1>7 DEF ConfirmVerify
<1>8. ASSUME NEW f \in Confirms, ConfirmFail(f) PROVE TypeOK'
  BY <1>8 DEF ConfirmFail
<1>9. ASSUME NEW f \in Confirms, ConfirmSave(f) PROVE TypeOK'
  BY <1>9 DEF ConfirmSave
<1>10. ASSUME NEW h \in Hooks, HookSave(h) PROVE TypeOK'
  BY <1>10 DEF HookSave
<1>11. ASSUME NEW h \in Hooks, NEW e \in Event, HookFind(h, e) PROVE TypeOK'
  BY <1>11 DEF HookFind
<1>12. ASSUME Crash PROVE TypeOK'
  BY <1>12 DEF Crash
<1>13. ASSUME NEW r \in Calls, Pay(r) PROVE TypeOK'
  BY <1>13 DEF Pay
<1>14. ASSUME NEW r \in Calls, Fail(r) PROVE TypeOK'
  BY <1>14 DEF Fail
<1>15. ASSUME UNCHANGED vars PROVE TypeOK'
  BY <1>15 DEF vars
<1>16. QED
  BY <1>1, <1>2, <1>3, <1>4, <1>5, <1>6, <1>7, <1>8, <1>9, <1>10, <1>11, <1>12,
     <1>13, <1>14, <1>15
     DEF Next, Initialize, Quiet

(* Only a call that has ended has a row or an answer. *)
LEMMA TracesStep == IInv /\ [Next]_vars => Traces'
<1> SUFFICES ASSUME IInv, [Next]_vars PROVE Traces'
  OBVIOUS
<1> USE PaymentsAssumption
    DEF IInv, TypeOK, Traces, Verdicts, RowsOf, RowState, Final, Event, Confirm,
        Return
<1>1. ASSUME NEW c \in Calls, InitLookup(c) PROVE Traces'
  BY <1>1 DEF InitLookup
<1>2. ASSUME NEW c \in Calls, InitReject(c) PROVE Traces'
  BY <1>2 DEF InitReject
<1>3. ASSUME NEW c \in Calls, InitGateway(c) PROVE Traces'
  BY <1>3 DEF InitGateway
<1>4. ASSUME NEW c \in Calls, InitCreate(c) PROVE Traces'
  BY <1>4 DEF InitCreate
<1>5. ASSUME NEW c \in Calls, InitConflict(c) PROVE Traces'
  BY <1>5 DEF InitConflict
<1>6. ASSUME NEW f \in Confirms, ConfirmLoad(f) PROVE Traces'
  BY <1>6 DEF ConfirmLoad
<1>7. ASSUME NEW f \in Confirms, ConfirmVerify(f) PROVE Traces'
  BY <1>7 DEF ConfirmVerify
<1>8. ASSUME NEW f \in Confirms, ConfirmFail(f) PROVE Traces'
  BY <1>8 DEF ConfirmFail
<1>9. ASSUME NEW f \in Confirms, ConfirmSave(f) PROVE Traces'
  BY <1>9 DEF ConfirmSave
<1>10. ASSUME NEW h \in Hooks, HookSave(h) PROVE Traces'
  BY <1>10 DEF HookSave
<1>11. ASSUME NEW h \in Hooks, NEW e \in Event, HookFind(h, e) PROVE Traces'
  BY <1>11 DEF HookFind
<1>12. ASSUME Crash PROVE Traces'
  BY <1>12 DEF Crash
<1>13. ASSUME NEW r \in Calls, Pay(r) PROVE Traces'
  BY <1>13 DEF Pay
<1>14. ASSUME NEW r \in Calls, Fail(r) PROVE Traces'
  BY <1>14 DEF Fail
<1>15. ASSUME UNCHANGED vars PROVE Traces'
  BY <1>15 DEF vars
<1>16. QED
  BY <1>1, <1>2, <1>3, <1>4, <1>5, <1>6, <1>7, <1>8, <1>9, <1>10, <1>11, <1>12,
     <1>13, <1>14, <1>15
     DEF Next, Initialize, Quiet

(* No second row of a key is inserted. *)
LEMMA UniqueStep == IInv /\ [Next]_vars => UniqueRows'
<1> SUFFICES ASSUME IInv, [Next]_vars PROVE UniqueRows'
  OBVIOUS
<1> USE PaymentsAssumption DEF IInv, TypeOK, Traces, UniqueRows, Verdicts, RowsOf, Return
<1>1. ASSUME NEW c \in Calls, InitLookup(c) PROVE UniqueRows'
  BY <1>1 DEF InitLookup
<1>2. ASSUME NEW c \in Calls, InitReject(c) PROVE UniqueRows'
  BY <1>2 DEF InitReject
<1>3. ASSUME NEW c \in Calls, InitGateway(c) PROVE UniqueRows'
  BY <1>3 DEF InitGateway
<1>4. ASSUME NEW c \in Calls, InitCreate(c) PROVE UniqueRows'
  BY <1>4 DEF InitCreate
<1>5. ASSUME NEW c \in Calls, InitConflict(c) PROVE UniqueRows'
  BY <1>5 DEF InitConflict
<1>6. ASSUME NEW f \in Confirms, ConfirmLoad(f) PROVE UniqueRows'
  BY <1>6 DEF ConfirmLoad
<1>7. ASSUME NEW f \in Confirms, ConfirmVerify(f) PROVE UniqueRows'
  BY <1>7 DEF ConfirmVerify
<1>8. ASSUME NEW f \in Confirms, ConfirmFail(f) PROVE UniqueRows'
  BY <1>8 DEF ConfirmFail
<1>9. ASSUME NEW f \in Confirms, ConfirmSave(f) PROVE UniqueRows'
  BY <1>9 DEF ConfirmSave
<1>10. ASSUME NEW h \in Hooks, HookSave(h) PROVE UniqueRows'
  BY <1>10 DEF HookSave
<1>11. ASSUME NEW h \in Hooks, NEW e \in Event, HookFind(h, e) PROVE UniqueRows'
  BY <1>11 DEF HookFind
<1>12. ASSUME Crash PROVE UniqueRows'
  BY <1>12 DEF Crash
<1>13. ASSUME NEW r \in Calls, Pay(r) PROVE UniqueRows'
  BY <1>13 DEF Pay
<1>14. ASSUME NEW r \in Calls, Fail(r) PROVE UniqueRows'
  BY <1>14 DEF Fail
<1>15. ASSUME UNCHANGED vars PROVE UniqueRows'
  BY <1>15 DEF vars
<1>16. QED
  BY <1>1, <1>2, <1>3, <1>4, <1>5, <1>6, <1>7, <1>8, <1>9, <1>10, <1>11, <1>12,
     <1>13, <1>14, <1>15
     DEF Next, Initialize, Quiet

(* A call returns the row of its own key. *)
LEMMA AnswersStep == IInv /\ [Next]_vars => Answers'
<1> SUFFICES ASSUME IInv, [Next]_vars PROVE Answers'
  OBVIOUS
<1> USE PaymentsAssumption
    DEF IInv, TypeOK, Traces, Answers, Verdicts, RowsOf, RowState, Final, Event,
        Confirm, Return
<1>1. ASSUME NEW c \in Calls, InitLookup(c) PROVE Answers'
  BY <1>1 DEF InitLookup
<1>2. ASSUME NEW c \in Calls, InitReject(c) PROVE Answers'
  BY <1>2 DEF InitReject
<1>3. ASSUME NEW c \in Calls, InitGateway(c) PROVE Answers'
  BY <1>3 DEF InitGateway
<1>4. ASSUME NEW c \in Calls, InitCreate(c) PROVE Answers'
  BY <1>4 DEF InitCreate
<1>5. ASSUME NEW c \in Calls, InitConflict(c) PROVE Answers'
  BY <1>5 DEF InitConflict
<1>6. ASSUME NEW f \in Confirms, ConfirmLoad(f) PROVE Answers'
  BY <1>6 DEF ConfirmLoad
<1>7. ASSUME NEW f \in Confirms, ConfirmVerify(f) PROVE Answers'
  BY <1>7 DEF ConfirmVerify
<1>8. ASSUME NEW f \in Confirms, ConfirmFail(f) PROVE Answers'
  BY <1>8 DEF ConfirmFail
<1>9. ASSUME NEW f \in Confirms, ConfirmSave(f) PROVE Answers'
  BY <1>9 DEF ConfirmSave
<1>10. ASSUME NEW h \in Hooks, HookSave(h) PROVE Answers'
  BY <1>10 DEF HookSave
<1>11. ASSUME NEW h \in Hooks, NEW e \in Event, HookFind(h, e) PROVE Answers'
  BY <1>11 DEF HookFind
<1>12. ASSUME Crash PROVE Answers'
  BY <1>12 DEF Crash
<1>13. ASSUME NEW r \in Calls, Pay(r) PROVE Answers'
  BY <1>13 DEF Pay
<1>14. ASSUME NEW r \in Calls, Fail(r) PROVE Answers'
  BY <1>14 DEF Fail
<1>15. ASSUME UNCHANGED vars PROVE Answers'
  BY <1>15 DEF vars
<1>16. QED
  BY <1>1, <1>2, <1>3, <1>4, <1>5, <1>6, <1>7, <1>8, <1>9, <1>10, <1>11, <1>12,
     <1>13, <1>14, <1>15
     DEF Next, Initialize, Quiet

(* Only a checkout with a row can be paid. *)
LEMMA ChargedStep == IInv /\ [Next]_vars => ChargedHasRow'
<1> SUFFICES ASSUME IInv, [Next]_vars PROVE ChargedHasRow'
  OBVIOUS
<1> USE PaymentsAssumption
    DEF IInv, TypeOK, Traces, Answers, ChargedHasRow, Verdicts, Visible, RowState,
        Final, Event, Confirm, Return
<1>1. ASSUME NEW c \in Calls, InitLookup(c) PROVE ChargedHasRow'
  BY <1>1 DEF InitLookup
<1>2. ASSUME NEW c \in Calls, InitReject(c) PROVE ChargedHasRow'
  BY <1>2 DEF InitReject
<1>3. ASSUME NEW c \in Calls, InitGateway(c) PROVE ChargedHasRow'
  BY <1>3 DEF InitGateway
<1>4. ASSUME NEW c \in Calls, InitCreate(c) PROVE ChargedHasRow'
  BY <1>4 DEF InitCreate
<1>5. ASSUME NEW c \in Calls, InitConflict(c) PROVE ChargedHasRow'
  BY <1>5 DEF InitConflict
<1>6. ASSUME NEW f \in Confirms, ConfirmLoad(f) PROVE ChargedHasRow'
  BY <1>6 DEF ConfirmLoad
<1>7. ASSUME NEW f \in Confirms, ConfirmVerify(f) PROVE ChargedHasRow'
  BY <1>7 DEF ConfirmVerify
<1>8. ASSUME NEW f \in Confirms, ConfirmFail(f) PROVE ChargedHasRow'
  BY <1>8 DEF ConfirmFail
<1>9. ASSUME NEW f \in Confirms, ConfirmSave(f) PROVE ChargedHasRow'
  BY <1>9 DEF ConfirmSave
<1>10. ASSUME NEW h \in Hooks, HookSave(h) PROVE ChargedHasRow'
  BY <1>10 DEF HookSave
<1>11. ASSUME NEW h \in Hooks, NEW e \in Event, HookFind(h, e) PROVE ChargedHasRow'
  BY <1>11 DEF HookFind
<1>12. ASSUME Crash PROVE ChargedHasRow'
  BY <1>12 DEF Crash
<1>13. ASSUME NEW r \in Calls, Pay(r) PROVE ChargedHasRow'
  BY <1>13 DEF Pay
<1>14. ASSUME NEW r \in Calls, Fail(r) PROVE ChargedHasRow'
  BY <1>14 DEF Fail
<1>15. ASSUME UNCHANGED vars PROVE ChargedHasRow'
  BY <1>15 DEF vars
<1>16. QED
  BY <1>1, <1>2, <1>3, <1>4, <1>5, <1>6, <1>7, <1>8, <1>9, <1>10, <1>11, <1>12,
     <1>13, <1>14, <1>15
     DEF Next, Initialize, Quiet

(* A verdict is the gateway's. *)
LEMMA VerdictsStep == IInv /\ [Next]_vars => Verdicts'
<1> SUFFICES ASSUME IInv, [Next]_vars PROVE Verdicts'
  OBVIOUS
<1> USE PaymentsAssumption
    DEF IInv, TypeOK, Traces, Verdicts, Verdict, Answers, Visible, RowState, Final,
        Event, Confirm, Return
<1>1. ASSUME NEW c \in Calls, InitLookup(c) PROVE Verdicts'
  BY <1>1 DEF InitLookup
<1>2. ASSUME NEW c \in Calls, InitReject(c) PROVE Verdicts'
  BY <1>2 DEF InitReject
<1>3. ASSUME NEW c \in Calls, InitGateway(c) PROVE Verdicts'
  BY <1>3 DEF InitGateway
<1>4. ASSUME NEW c \in Calls, InitCreate(c) PROVE Verdicts'
  BY <1>4 DEF InitCreate
<1>5. ASSUME NEW c \in Calls, InitConflict(c) PROVE Verdicts'
  BY <1>5 DEF InitConflict
<1>6. ASSUME NEW f \in Confirms, ConfirmLoad(f) PROVE Verdicts'
  BY <1>6 DEF ConfirmLoad
<1>7. ASSUME NEW f \in Confirms, ConfirmVerify(f) PROVE Verdicts'
  BY <1>7 DEF ConfirmVerify
<1>8. ASSUME NEW f \in Confirms, ConfirmFail(f) PROVE Verdicts'
  BY <1>8 DEF ConfirmFail
<1>9. ASSUME NEW f \in Confirms, ConfirmSave(f) PROVE Verdicts'
  BY <1>9 DEF ConfirmSave
<1>10. ASSUME NEW h \in Hooks, HookSave(h) PROVE Verdicts'
  BY <1>10 DEF HookSave
<1>11. ASSUME NEW h \in Hooks, NEW e \in Event, HookFind(h, e) PROVE Verdicts'
  BY <1>11 DEF HookFind
<1>12. ASSUME Crash PROVE Verdicts'
  BY <1>12 DEF Crash
<1>13. ASSUME NEW r \in Calls, Pay(r) PROVE Verdicts'
  BY <1>13 DEF Pay
<1>14. ASSUME NEW r \in Calls, Fail(r) PROVE Verdicts'
  BY <1>14 DEF Fail
<1>15. ASSUME UNCHANGED vars PROVE Verdicts'
  BY <1>15 DEF vars
<1>16. QED
  BY <1>1, <1>2, <1>3, <1>4, <1>5, <1>6, <1>7, <1>8, <1>9, <1>10, <1>11, <1>12,
     <1>13, <1>14, <1>15
     DEF Next, Initialize, Quiet

(* A row is settled only by a verdict. *)
LEMMA PaidStep == IInv /\ [Next]_vars => PaidIsCharged'
<1> SUFFICES ASSUME IInv, [Next]_vars PROVE PaidIsCharged'
  OBVIOUS
<1> USE PaymentsAssumption
    DEF IInv, TypeOK, Traces, Verdicts, PaidIsCharged, Final, Event, Confirm, Return
<1>1. ASSUME NEW c \in Calls, InitLookup(c) PROVE PaidIsCharged'
  BY <1>1 DEF InitLookup
<1>2. ASSUME NEW c \in Calls, InitReject(c) PROVE PaidIsCharged'
  BY <1>2 DEF InitReject
<1>3. ASSUME NEW c \in Calls, InitGateway(c) PROVE PaidIsCharged'
  BY <1>3 DEF InitGateway
<1>4. ASSUME NEW c \in Calls, InitCreate(c) PROVE PaidIsCharged'
  BY <1>4 DEF InitCreate
<1>5. ASSUME NEW c \in Calls, InitConflict(c) PROVE PaidIsCharged'
  BY <1>5 DEF InitConflict
<1>6. ASSUME NEW f \in Confirms, ConfirmLoad(f) PROVE PaidIsCharged'
  BY <1>6 DEF ConfirmLoad
<1>7. ASSUME NEW f \in Confirms, ConfirmVerify(f) PROVE PaidIsCharged'
  BY <1>7 DEF ConfirmVerify
<1>8. ASSUME NEW f \in Confirms, ConfirmFail(f) PROVE PaidIsCharged'
  BY <1>8 DEF ConfirmFail
<1>9. ASSUME NEW f \in Confirms, ConfirmSave(f) PROVE PaidIsCharged'
  BY <1>9 DEF ConfirmSave
<1>10. ASSUME NEW h \in Hooks, HookSave(h) PROVE PaidIsCharged'
  BY <1>10 DEF HookSave
<1>11. ASSUME NEW h \in Hooks, NEW e \in Event, HookFind(h, e) PROVE PaidIsCharged'
  BY <1>11 DEF HookFind
<1>12. ASSUME Crash PROVE PaidIsCharged'
  BY <1>12 DEF Crash
<1>13. ASSUME NEW r \in Calls, Pay(r) PROVE PaidIsCharged'
  BY <1>13 DEF Pay
<1>14. ASSUME NEW r \in Calls, Fail(r) PROVE PaidIsCharged'
  BY <1>14 DEF Fail
<1>15. ASSUME UNCHANGED vars PROVE PaidIsCharged'
  BY <1>15 DEF vars
<1>16. QED
  BY <1>1, <1>2, <1>3, <1>4, <1>5, <1>6, <1>7, <1>8, <1>9, <1>10, <1>11, <1>12,
     <1>13, <1>14, <1>15
     DEF Next, Initialize, Quiet

(* The invariant is inductive. *)
LEMMA InvStep == IInv /\ [Next]_vars => IInv'
BY TypeStep, TracesStep, UniqueStep, AnswersStep, ChargedStep, VerdictsStep, PaidStep
   DEF IInv

LEMMA Invariance == Spec => []IInv
<1>1. Init => IInv
  BY InvInit
<1>2. QED
  BY <1>1, InvStep, PTL DEF Spec

(* Type correctness. *)
THEOREM TypeCorrect == Spec => []TypeOK
<1>1. IInv => TypeOK
  BY DEF IInv
<1>2. QED
  BY <1>1, Invariance, PTL

(* A row is PAID only when the gateway has been paid for it. *)
THEOREM AccessForMoney == Spec => []PaidIsCharged
<1>1. IInv => PaidIsCharged
  BY DEF IInv
<1>2. QED
  BY <1>1, Invariance, PTL

(* A key is charged once, whatever calls race and whenever the process dies. *)
THEOREM ChargedOnce == Spec => []NoSecondCharge
<1>1. IInv => NoSecondCharge
  BY PaymentsAssumption DEF IInv, ChargedHasRow, UniqueRows, NoSecondCharge
<1>2. QED
  BY <1>1, Invariance, PTL

(* All calls that return for one key return the same checkout. *)
THEOREM OneAnswer == Spec => []SameAnswer
<1>1. IInv => SameAnswer
  BY PaymentsAssumption DEF IInv, TypeOK, Answers, UniqueRows, SameAnswer
<1>2. QED
  BY <1>1, Invariance, PTL

-----------------------------------------------------------------------------
(***************************************************************************)
(* The refinement: Payments implements Settlement when failures are final. *)
(***************************************************************************)

(* A failure is final, so its verdict stays right. *)
LEMMA FinalStep == ~MayRetry /\ IInv /\ FinalVerdicts /\ [Next]_vars => FinalVerdicts'
<1> SUFFICES ASSUME ~MayRetry /\ IInv /\ FinalVerdicts, [Next]_vars PROVE FinalVerdicts'
  OBVIOUS
<1> USE PaymentsAssumption
    DEF IInv, TypeOK, Traces, Verdicts, FinalVerdicts, Verdict, Visible, RowState,
        Final, Event, Confirm, Return
<1>1. ASSUME NEW c \in Calls, InitLookup(c) PROVE FinalVerdicts'
  BY <1>1 DEF InitLookup
<1>2. ASSUME NEW c \in Calls, InitReject(c) PROVE FinalVerdicts'
  BY <1>2 DEF InitReject
<1>3. ASSUME NEW c \in Calls, InitGateway(c) PROVE FinalVerdicts'
  BY <1>3 DEF InitGateway
<1>4. ASSUME NEW c \in Calls, InitCreate(c) PROVE FinalVerdicts'
  BY <1>4 DEF InitCreate
<1>5. ASSUME NEW c \in Calls, InitConflict(c) PROVE FinalVerdicts'
  BY <1>5 DEF InitConflict
<1>6. ASSUME NEW f \in Confirms, ConfirmLoad(f) PROVE FinalVerdicts'
  BY <1>6 DEF ConfirmLoad
<1>7. ASSUME NEW f \in Confirms, ConfirmVerify(f) PROVE FinalVerdicts'
  BY <1>7 DEF ConfirmVerify
<1>8. ASSUME NEW f \in Confirms, ConfirmFail(f) PROVE FinalVerdicts'
  BY <1>8 DEF ConfirmFail
<1>9. ASSUME NEW f \in Confirms, ConfirmSave(f) PROVE FinalVerdicts'
  BY <1>9 DEF ConfirmSave
<1>10. ASSUME NEW h \in Hooks, HookSave(h) PROVE FinalVerdicts'
  BY <1>10 DEF HookSave
<1>11. ASSUME NEW h \in Hooks, NEW e \in Event, HookFind(h, e) PROVE FinalVerdicts'
  BY <1>11 DEF HookFind
<1>12. ASSUME Crash PROVE FinalVerdicts'
  BY <1>12 DEF Crash
<1>13. ASSUME NEW r \in Calls, Pay(r) PROVE FinalVerdicts'
  BY <1>13 DEF Pay
<1>14. ASSUME NEW r \in Calls, Fail(r) PROVE FinalVerdicts'
  BY <1>14 DEF Fail
<1>15. ASSUME UNCHANGED vars PROVE FinalVerdicts'
  BY <1>15 DEF vars
<1>16. QED
  BY <1>1, <1>2, <1>3, <1>4, <1>5, <1>6, <1>7, <1>8, <1>9, <1>10, <1>11, <1>12,
     <1>13, <1>14, <1>15
     DEF Next, Initialize, Quiet

(* The state of a purchase is that of its one row, or "none" without one. *)
Decided ==
  /\ \A r \in Calls : row[r] # "none" /\ key[r] \in Keys => StateOf(key[r]) = row[r]
  /\ \A k \in Keys : RowsOf(k) = {} => StateOf(k) = "none"

LEMMA StateDecided == UniqueRows => Decided
<1> SUFFICES ASSUME UniqueRows PROVE Decided
  OBVIOUS
<1>1. ASSUME NEW r \in Calls, row[r] # "none", key[r] \in Keys
      PROVE StateOf(key[r]) = row[r]
  <2>1. RowsOf(key[r]) = {r}
    BY <1>1, PaymentsAssumption DEF UniqueRows, RowsOf
  <2>2. (CHOOSE s \in Calls : RowsOf(key[r]) = {s}) = r
    BY <2>1
  <2>3. QED
    BY <2>1, <2>2 DEF StateOf
<1>2. ASSUME NEW k \in Keys, RowsOf(k) = {} PROVE StateOf(k) = "none"
  BY <1>2 DEF StateOf
<1>3. QED
  BY <1>1, <1>2 DEF Decided

(* The state of the promise changes only with the rows. *)
LEMMA SameRowsSameState ==
  Decided /\ Decided' /\ row' = row /\ (\A r \in Calls : row[r] # "none" => key'[r] = key[r])
    => \A k \in Keys : StateOf(k)' = StateOf(k)
BY DEF Decided, RowsOf

(* A row that moves from PENDING settles its purchase, if it has a key. *)
LEMMA SettleStep ==
  ASSUME Decided, Decided', NEW r \in Calls, NEW s \in Final, row \in [Calls -> RowState],
         row[r] = "PENDING", row' = [row EXCEPT ![r] = s], key' = key,
         key \in [Calls -> Keys \cup {None}]
  PROVE  [Promise!Next]_([k \in Keys |-> StateOf(k)])
<1>1. \A k \in Keys : k # key[r] => StateOf(k)' = StateOf(k)
  BY DEF Decided, RowsOf
<1>2. CASE key[r] \in Keys
  <2>1. StateOf(key[r]) = "PENDING" /\ StateOf(key[r])' = s
    BY <1>2 DEF Decided, Final
  <2>2. [k \in Keys |-> StateOf(k)]' = [[k \in Keys |-> StateOf(k)] EXCEPT ![key[r]] = s]
    BY <1>1, <2>1
  <2>3. Promise!Settle(key[r])
    BY <1>2, <2>1, <2>2 DEF Promise!Settle, Final
  <2>4. QED
    BY <1>2, <2>3 DEF Promise!Next
<1>3. CASE key[r] \notin Keys
  BY <1>1, <1>3
<1>4. QED
  BY <1>2, <1>3

(* Every step of Payments is a step of Settlement or leaves it unchanged. *)
LEMMA StepSimulation ==
  ~MayRetry /\ IInv /\ FinalVerdicts /\ IInv' /\ [Next]_vars
    => [Promise!Next]_([k \in Keys |-> StateOf(k)])
<1> SUFFICES ASSUME ~MayRetry, IInv, FinalVerdicts, IInv', [Next]_vars
             PROVE  [Promise!Next]_([k \in Keys |-> StateOf(k)])
  OBVIOUS
<1>1. Decided /\ UniqueRows
  BY StateDecided DEF IInv
<1>2. Decided'
  <2>1. UniqueRows'
    BY DEF IInv
  <2>2. (UniqueRows => Decided)'
    BY StateDecided, PTL
  <2>3. QED
    BY <2>1, <2>2
<1>3. ASSUME row' = row, \A r \in Calls : row[r] # "none" => key'[r] = key[r]
      PROVE UNCHANGED [k \in Keys |-> StateOf(k)]
  BY <1>1, <1>2, <1>3, SameRowsSameState
<1>4. ASSUME NEW c \in Calls, InitLookup(c) PROVE UNCHANGED [k \in Keys |-> StateOf(k)]
  BY <1>3, <1>4 DEF InitLookup, IInv, TypeOK, Traces
<1>5. ASSUME NEW c \in Calls, InitCreate(c)
      PROVE [Promise!Next]_([k \in Keys |-> StateOf(k)])
  <2>1. CASE key[c] = None
    <3>1. \A k \in Keys : RowsOf(k)' = RowsOf(k)
      BY <1>5, <2>1, PaymentsAssumption DEF InitCreate, Return, RowsOf, IInv, TypeOK
    <3>2. \A k \in Keys : StateOf(k)' = StateOf(k)
      BY <1>1, <1>2, <1>5, <2>1, <3>1, PaymentsAssumption
         DEF Decided, InitCreate, Return, RowsOf, IInv, TypeOK
    <3>3. QED
      BY <3>2
  <2>2. CASE key[c] # None /\ RowsOf(key[c]) # {}
    BY <1>3, <1>5, <2>2 DEF InitCreate
  <2>3. CASE key[c] # None /\ RowsOf(key[c]) = {}
    <3>1. key[c] \in Keys /\ row' = [row EXCEPT ![c] = "PENDING"] /\ key' = key
      BY <1>5, <2>3 DEF InitCreate, IInv, TypeOK
    <3>2. StateOf(key[c]) = "none" /\ StateOf(key[c])' = "PENDING"
      BY <1>1, <1>2, <2>3, <3>1 DEF Decided, IInv, TypeOK
    <3>3. \A k \in Keys : k # key[c] => StateOf(k)' = StateOf(k)
      BY <1>1, <1>2, <3>1 DEF Decided, RowsOf, IInv, TypeOK
    <3>4. [k \in Keys |-> StateOf(k)]'
            = [[k \in Keys |-> StateOf(k)] EXCEPT ![key[c]] = "PENDING"]
      BY <3>1, <3>2, <3>3
    <3>5. Promise!Open(key[c])
      BY <3>1, <3>2, <3>4 DEF Promise!Open
    <3>6. QED
      BY <3>1, <3>5 DEF Promise!Next
  <2>4. QED
    BY <2>1, <2>2, <2>3
<1>6. ASSUME NEW f \in Confirms, ConfirmSave(f)
      PROVE [Promise!Next]_([k \in Keys |-> StateOf(k)])
  <2> DEFINE r == conf[f].ref
  <2>1. /\ r \in Calls /\ conf[f].status \in Final /\ key' = key
        /\ row' = [row EXCEPT ![r] = conf[f].status]
    BY <1>6 DEF ConfirmSave, IInv, TypeOK, Confirm
  <2>2. CASE row[r] = "PENDING"
    BY <1>1, <1>2, <2>1, <2>2, SettleStep DEF IInv, TypeOK
  <2>3. CASE row[r] # "PENDING"
    <3>1. row[r] = conf[f].status
      BY <1>6, <2>1, <2>3
         DEF ConfirmSave, IInv, TypeOK, Verdicts, FinalVerdicts, PaidIsCharged, RowState, Final
    <3>2. row' = row
      BY <2>1, <3>1 DEF IInv, TypeOK
    <3>3. QED
      BY <1>3, <2>1, <3>2
  <2>4. QED
    BY <2>2, <2>3
<1>7. ASSUME NEW h \in Hooks, HookSave(h)
      PROVE [Promise!Next]_([k \in Keys |-> StateOf(k)])
  <2> DEFINE r == hook[h].ref
  <2>1. /\ hook[h] \in events /\ hook[h] \in Event /\ key' = key
        /\ row[r] # "none" /\ row' = [row EXCEPT ![r] = hook[h].status]
    BY <1>7 DEF HookSave, IInv, TypeOK, Verdicts
  <2>2. r \in Calls /\ hook[h].status \in Final
    BY <2>1 DEF Event
  <2>3. CASE row[r] = "PENDING"
    BY <1>1, <1>2, <2>1, <2>2, <2>3, SettleStep DEF IInv, TypeOK
  <2>4. CASE row[r] # "PENDING"
    <3>1. row[r] = hook[h].status
      BY <2>1, <2>2, <2>4
         DEF IInv, TypeOK, Verdicts, FinalVerdicts, PaidIsCharged, RowState, Final
    <3>2. row' = row
      BY <2>1, <2>2, <3>1 DEF IInv, TypeOK
    <3>3. QED
      BY <1>3, <2>1, <3>2
  <2>5. QED
    BY <2>3, <2>4
<1>8. ASSUME UNCHANGED <<row, key>> PROVE UNCHANGED [k \in Keys |-> StateOf(k)]
  BY <1>3, <1>8
<1>9. QED
  BY <1>4, <1>5, <1>6, <1>7, <1>8
     DEF Next, Initialize, InitReject, InitGateway, InitConflict, ConfirmLoad,
         ConfirmVerify, ConfirmFail, HookFind, Crash, Pay, Fail, Quiet, vars

(* When the gateway's failures are final, the service keeps its promise:   *)
(* one transaction for a key, settled once and for good.                   *)
THEOREM Refinement == ~MayRetry => (Spec => KeepsPromise)
<1> SUFFICES ASSUME ~MayRetry PROVE Spec => KeepsPromise
  OBVIOUS
<1>1. Init => Promise!Init
  BY PaymentsAssumption DEF Init, Promise!Init, StateOf, RowsOf
<1>2. Init => IInv /\ FinalVerdicts
  BY InvInit
<1>3. IInv /\ FinalVerdicts /\ [Next]_vars => (IInv /\ FinalVerdicts)'
  BY InvStep, FinalStep
<1>4. IInv /\ FinalVerdicts /\ IInv' /\ [Next]_vars
        => [Promise!Next]_([k \in Keys |-> StateOf(k)])
  BY StepSimulation
<1>5. QED
  BY <1>1, <1>2, <1>3, <1>4, PTL DEF Spec, KeepsPromise, Promise!Spec
-----------------------------------------------------------------------------
(* When failures are final, a late save writes what is there already. *)
THEOREM FinalIsForGood == ~MayRetry => (Spec => SettledForGood)
<1> SUFFICES ASSUME ~MayRetry PROVE Spec => SettledForGood
  OBVIOUS
<1> DEFINE Stands == \A r \in Calls : row[r] \in Final => row'[r] = row[r]
<1>1. IInv /\ FinalVerdicts /\ [Next]_vars => [Stands]_vars
  <2> SUFFICES ASSUME IInv, FinalVerdicts, Next PROVE Stands \/ UNCHANGED vars
    OBVIOUS
  <2> USE PaymentsAssumption
      DEF IInv, TypeOK, Traces, Verdicts, FinalVerdicts, PaidIsCharged, RowState, Final,
          Event, Confirm, Return
  <2>1. ASSUME NEW c \in Calls, InitLookup(c) \/ Initialize(c) PROVE Stands
    BY <2>1 DEF InitLookup, Initialize, InitReject, InitGateway, InitCreate, InitConflict
  <2>2. ASSUME NEW f \in Confirms, ConfirmSave(f) PROVE Stands
    BY <2>2 DEF ConfirmSave
  <2>3. ASSUME NEW h \in Hooks, HookSave(h) PROVE Stands
    BY <2>3 DEF HookSave
  <2>4. QED
    BY <2>1, <2>2, <2>3 DEF Next, ConfirmLoad, ConfirmVerify, ConfirmFail, HookFind,
       Crash, Pay, Fail, Quiet
<1>2. Init => IInv /\ FinalVerdicts
  BY InvInit
<1>3. IInv /\ FinalVerdicts /\ [Next]_vars => (IInv /\ FinalVerdicts)'
  BY InvStep, FinalStep
<1>4. QED BY <1>1, <1>2, <1>3, PTL DEF Spec, SettledForGood

(* One confirm or delivery at a time has a row in hand. *)
OneWriter ==
  /\ \A f, g \in Confirms :
       conf[f] # None /\ conf[g] # None /\ conf[f].ref = conf[g].ref => f = g
  /\ \A g, h \in Hooks :
       hook[g] # None /\ hook[h] # None /\ hook[g].ref = hook[h].ref => g = h
  /\ \A f \in Confirms, h \in Hooks :
       conf[f] # None /\ hook[h] # None => conf[f].ref # hook[h].ref

(* Whoever has a row in hand has one that is still to be settled. *)
StillPending ==
  /\ \A f \in Confirms : conf[f] # None => row[conf[f].ref] = "PENDING"
  /\ \A h \in Hooks : hook[h] # None => row[hook[h].ref] = "PENDING"

(* A writer that is alone with its row finds it as it was loaded. *)
LEMMA PendingStep ==
  ASSUME IInv, StillPending, OneWriter, [Next]_vars
  PROVE  StillPending' /\ \A r \in Calls : row[r] \in Final => row'[r] = row[r]
<1> DEFINE Good == StillPending' /\ \A r \in Calls : row[r] \in Final => row'[r] = row[r]
<1> USE PaymentsAssumption
    DEF IInv, TypeOK, Traces, Verdicts, StillPending, RowState, Final, Event, Confirm, Return
<1>1. ASSUME NEW c \in Calls, InitLookup(c) \/ Initialize(c) PROVE Good
  BY <1>1 DEF InitLookup, Initialize, InitReject, InitGateway, InitCreate, InitConflict
<1>2. ASSUME NEW f \in Confirms, ConfirmLoad(f) \/ ConfirmVerify(f) \/ ConfirmFail(f)
      PROVE  Good
  BY <1>2 DEF ConfirmLoad, ConfirmVerify, ConfirmFail
<1>3. ASSUME NEW f \in Confirms, ConfirmSave(f) PROVE Good
  <2>1. row[conf[f].ref] = "PENDING" /\ conf[f] # None
        /\ \A r \in Calls : r # conf[f].ref => row'[r] = row[r]
    BY <1>3 DEF ConfirmSave
  <2>2. /\ \A g \in Confirms : conf'[g] # None => conf[g] # None /\ conf'[g] = conf[g] /\ g # f
        /\ hook' = hook
    BY <1>3 DEF ConfirmSave
  <2>3. /\ \A g \in Confirms : conf'[g] # None => conf[g].ref # conf[f].ref
        /\ \A h \in Hooks : hook[h] # None => hook[h].ref # conf[f].ref
    BY <2>1, <2>2 DEF OneWriter
  <2>4. QED BY <2>1, <2>2, <2>3
<1>4. ASSUME NEW h \in Hooks, NEW e \in Event, HookFind(h, e) PROVE Good
  BY <1>4 DEF HookFind
<1>5. ASSUME NEW h \in Hooks, HookSave(h) PROVE Good
  <2>1. row[hook[h].ref] = "PENDING" /\ hook[h] # None
        /\ \A r \in Calls : r # hook[h].ref => row'[r] = row[r]
    BY <1>5 DEF HookSave
  <2>2. /\ \A g \in Hooks : hook'[g] # None => hook[g] # None /\ hook'[g] = hook[g] /\ g # h
        /\ conf' = conf
    BY <1>5 DEF HookSave
  <2>3. /\ \A g \in Hooks : hook'[g] # None => hook[g].ref # hook[h].ref
        /\ \A f \in Confirms : conf[f] # None => conf[f].ref # hook[h].ref
    BY <2>1, <2>2 DEF OneWriter
  <2>4. QED BY <2>1, <2>2, <2>3
<1>6. ASSUME Crash PROVE Good
  BY <1>6 DEF Crash
<1>7. ASSUME NEW r \in Calls, Pay(r) \/ Fail(r) PROVE Good
  BY <1>7 DEF Pay, Fail
<1>8. ASSUME UNCHANGED vars PROVE Good
  BY <1>8 DEF vars
<1>9. QED
  BY <1>1, <1>2, <1>3, <1>4, <1>5, <1>6, <1>7, <1>8 DEF Next, Quiet

(* "PENDING transitions exactly once" (payments_settled_for_good shows that
   this fails) holds for a gateway that changes its mind, too, as soon as the
   handlers of one row take turns: their overlap is the only cause. *)
THEOREM SettledForGoodInTurn == Spec /\ []OneWriter => SettledForGood
<1> DEFINE Stands == \A r \in Calls : row[r] \in Final => row'[r] = row[r]
<1>1. Init => StillPending
  BY DEF Init, StillPending
<1>2. IInv /\ StillPending /\ OneWriter /\ [Next]_vars => StillPending' /\ [Stands]_vars
  BY PendingStep
<1>3. QED BY <1>1, <1>2, Invariance, PTL DEF Spec, SettledForGood

(* The gateway's word that the checkout r is paid. *)
Due(r) == [ref |-> r, status |-> "PAID"]

(* A charge whose row is not settled has an event that is not answered yet. *)
ChargesDue ==
  \A r \in Calls : gw[r] = "success" =>
    row[r] \in Final \/ (row[r] = "PENDING" /\ Due(r) \in events \ acked)

(* An event is answered only when its row is settled, and rows stay so. *)
LEMMA DueStep == ASSUME IInv, ChargesDue, [Next]_vars PROVE ChargesDue'
<1> USE PaymentsAssumption
    DEF IInv, TypeOK, Traces, Verdicts, ChargesDue, Due, RowState, Final, Event, Confirm, Return
<1>1. ASSUME NEW c \in Calls, InitLookup(c) \/ Initialize(c) PROVE ChargesDue'
  BY <1>1 DEF InitLookup, Initialize, InitReject, InitGateway, InitCreate, InitConflict
<1>2. ASSUME NEW f \in Confirms, ConfirmLoad(f) \/ ConfirmVerify(f) \/ ConfirmFail(f)
      PROVE  ChargesDue'
  BY <1>2 DEF ConfirmLoad, ConfirmVerify, ConfirmFail
<1>3. ASSUME NEW f \in Confirms, ConfirmSave(f) PROVE ChargesDue'
  BY <1>3 DEF ConfirmSave
<1>4. ASSUME NEW h \in Hooks, NEW e \in Event, HookFind(h, e) PROVE ChargesDue'
  BY <1>4 DEF HookFind
<1>5. ASSUME NEW h \in Hooks, HookSave(h) PROVE ChargesDue'
  BY <1>5 DEF HookSave
<1>6. ASSUME Crash PROVE ChargesDue'
  BY <1>6 DEF Crash
<1>7. ASSUME NEW r \in Calls, Fail(r) PROVE ChargesDue'
  BY <1>7 DEF Fail
<1>8. ASSUME NEW r \in Calls, Pay(r) PROVE ChargesDue'
  <2>1. row[r] # "none"
    BY <1>8 DEF Pay, Visible, Answers
  <2>2. row[r] = "PENDING" => Due(r) \notin acked
    BY <1>8 DEF Pay
  <2>3. QED BY <1>8, <2>1, <2>2 DEF Pay
<1>9. ASSUME UNCHANGED vars PROVE ChargesDue'
  BY <1>9 DEF vars
<1>10. QED
  BY <1>1, <1>2, <1>3, <1>4, <1>5, <1>6, <1>7, <1>8, <1>9 DEF Next, Quiet

(* What ChargeIsHonoured rests on besides fairness: money is never forgotten.
   However calls overlap and the process dies, a paid checkout is PAID, or its
   row waits and the gateway still has its event to deliver; only a gateway
   that charges after it reported a failure can leave a row at FAILED. *)
THEOREM ChargeIsDue ==
  Spec => [](\A r \in Calls : gw[r] = "success" =>
               \/ row[r] = "PAID"
               \/ row[r] = "PENDING" /\ Due(r) \in events \ acked
               \/ row[r] = "FAILED" /\ MayRetry)
<1> DEFINE J    == IInv /\ ChargesDue /\ (MayRetry \/ FinalVerdicts)
           Safe == \A r \in Calls : gw[r] = "success" =>
                     \/ row[r] = "PAID"
                     \/ row[r] = "PENDING" /\ Due(r) \in events \ acked
                     \/ row[r] = "FAILED" /\ MayRetry
<1>1. Init => J
  BY InvInit DEF Init, ChargesDue
<1>2. J /\ [Next]_vars => J'
  BY InvStep, DueStep, FinalStep
<1>3. J => Safe
  BY DEF ChargesDue, Final, FinalVerdicts
<1>4. QED BY <1>1, <1>2, <1>3, PTL DEF Spec
=============================================================================
