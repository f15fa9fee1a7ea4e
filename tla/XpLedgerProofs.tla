--------------------------- MODULE XpLedgerProofs ---------------------------
(***************************************************************************)
(* Theorems about XpLedger for any number of calls, any values and rate.   *)
(*                                                                         *)
(* None of the invariants is inductive alone: a refund commits the balance *)
(* it read, so BalanceNeverNegative and BalanceExplained need the row lock *)
(* (SnapshotUnderLock), and typing the refund needs the decision to hold a *)
(* request (Loaded).  IInv is their conjunction with what they rest on.    *)
(* That the log holds the escrow of every request, EscrowInLog, is about   *)
(* sums over all requests: a step changes one term of them, by as much as  *)
(* it logs (SumLemmas).                                                    *)
(***************************************************************************)
EXTENDS XpLedger, SumLemmas, TLAPS

(* An award never takes a row lock; the places a decision can be in. *)
Stages ==
  /\ \A a \in Awards : pc[a] # "locked"
  /\ \A d \in Decisions : pc[d] \in {"idle", "toSend", "toDecline", "locked", "done"}

(* A decision on its way holds a request that exists. *)
Loaded ==
  \A d \in Decisions : pc[d] \in {"toSend", "toDecline", "locked"} =>
    req[d] \in Withdrawals /\ status[req[d]] # "none"

(* A withdrawal has no request before it commits. *)
Fresh ==
  \A w \in Withdrawals : pc[w] \in {"idle", "checked", "locked"} => status[w] = "none"

(* A record instance in use was read from a row that is still there, and an *)
(* award's own row appears when it ends.                                    *)
Targets ==
  /\ \A h \in Handlers : pc[h] \in {"found", "locked"} => tgt[h] \in rows
  /\ \A a \in Awards : pc[a] # "done" => a \notin rows

(* No balance, stored or read, is negative, and a withdrawal's is enough. *)
Covered ==
  /\ \A r \in Rows : bal[r] >= 0
  /\ \A h \in Handlers : seen[h] >= 0
  /\ \A w \in Withdrawals : pc[w] = "locked" => amount[w] <= seen[w]

IInv ==
  /\ TypeOK
  /\ Stages
  /\ Loaded
  /\ Fresh
  /\ Targets
  /\ Covered
  /\ SnapshotUnderLock
  /\ SettlementMatchesRefunds
  /\ RequestHasRecord
  /\ BalanceExplained

LEMMA HandlerKinds ==
  /\ Awards \subseteq Handlers /\ Withdrawals \subseteq Handlers
  /\ Decisions \subseteq Handlers /\ Resets \subseteq Handlers
  /\ Handlers = Awards \cup Withdrawals \cup Decisions \cup Resets
  /\ Awards \subseteq Rows /\ OpeningRow \in Rows
  /\ None \notin Handlers
BY HandlersDistinct DEF Handlers, Rows

(* The initial states satisfy the whole invariant. *)
LEMMA InvInit == Init => IInv
<1> SUFFICES ASSUME Init PROVE IInv
  OBVIOUS
<1> USE HandlerKinds, ValuesAssumption DEF Init
<1>1. TypeOK
  BY DEF TypeOK, LogTypes, Statuses, Places, Damages
<1>2. Stages /\ Loaded /\ Fresh /\ Targets /\ Covered
  BY HandlersDistinct DEF Stages, Loaded, Fresh, Targets, Covered
<1>3. SnapshotUnderLock /\ SettlementMatchesRefunds /\ RequestHasRecord
  BY DEF SnapshotUnderLock, SettlementMatchesRefunds, RequestHasRecord, InFlight
<1>4. BalanceExplained
  BY DEF BalanceExplained, LogTotal, LogTypes
<1>5. QED
  BY <1>1, <1>2, <1>3, <1>4 DEF IInv

(* Every step leaves every variable in its type. *)
LEMMA TypeStep == TypeOK /\ Loaded /\ [Next]_vars => TypeOK'
<1> SUFFICES ASSUME TypeOK /\ Loaded, [Next]_vars PROVE TypeOK'
  OBVIOUS
<1> USE HandlerKinds, ValuesAssumption
    DEF TypeOK, data, ghost, GoTo, End, Read, Add, Update
<1>1. ASSUME NEW a \in Awards, LogAward(a) PROVE TypeOK'
  BY <1>1 DEF LogAward, Places, LogTypes
<1>2. ASSUME NEW a \in Awards, CreditRead(a) PROVE TypeOK'
  BY <1>2 DEF CreditRead, Places
<1>3. ASSUME NEW a \in Awards, CreditWrite(a) PROVE TypeOK'
  BY <1>3 DEF CreditWrite, Places, Damages
<1>4. ASSUME NEW a \in Awards, CreateCheck(a) PROVE TypeOK'
  BY <1>4 DEF CreateCheck, Places
<1>5. ASSUME NEW a \in Awards, CreateInsert(a) PROVE TypeOK'
  BY <1>5 DEF CreateInsert, Places, Damages
<1>6. ASSUME ProcessExit PROVE TypeOK'
  BY <1>6 DEF ProcessExit, Places, Damages, LogTypes
<1>7. ASSUME NEW w \in Withdrawals, WithdrawCheck(w) PROVE TypeOK'
  BY <1>7 DEF WithdrawCheck, Places
<1>8. ASSUME NEW w \in Withdrawals, WithdrawLock(w) PROVE TypeOK'
  BY <1>8 DEF WithdrawLock, Places
<1>9. ASSUME NEW w \in Withdrawals, WithdrawReject(w) PROVE TypeOK'
  BY <1>9 DEF WithdrawReject, Places
<1>10. ASSUME NEW w \in Withdrawals, WithdrawCommit(w) PROVE TypeOK'
  <2>1. tgt[w] \in Rows /\ seen[w] - amount[w] \in Int /\ 0 - amount[w] \in Int
    OBVIOUS
  <2>2. bal' \in [Rows -> Int]
    BY <1>10, <2>1 DEF WithdrawCommit
  <2>3. log' \in [LogTypes -> Int]
    BY <1>10, <2>1 DEF WithdrawCommit, LogTypes
  <2>4. status' \in [Withdrawals -> Statuses] /\ lock' \in [Rows -> Handlers \cup {None}]
    BY <1>10, <2>1 DEF WithdrawCommit, Statuses
  <2>5. QED
    BY <1>10, <2>2, <2>3, <2>4 DEF WithdrawCommit, Places
<1>11. ASSUME NEW d \in Decisions, DecisionLoad(d) PROVE TypeOK'
  BY <1>11 DEF DecisionLoad, Places
<1>12. ASSUME NEW d \in Decisions, MarkSent(d) PROVE TypeOK'
  <2>1. status' \in [Withdrawals -> Statuses]
    BY <1>12 DEF MarkSent, Statuses
  <2>2. /\ pc' \in [Handlers -> Places] /\ tgt' \in [Handlers -> Rows]
        /\ seen' \in [Handlers -> Int]
    BY <1>12 DEF MarkSent, Places
  <2>3. req' \in [Decisions -> Withdrawals \cup {None}]
    BY <1>12 DEF MarkSent
  <2>4. UNCHANGED <<rows, bal, log, amount, lock, xp, wiped, owed, refunds, damage>>
    BY <1>12 DEF MarkSent
  <2>5. QED
    BY <2>1, <2>2, <2>3, <2>4
<1>13. ASSUME NEW d \in Decisions, RefundLock(d) PROVE TypeOK'
  BY <1>13 DEF RefundLock, Places
<1>14. ASSUME NEW d \in Decisions, DeclineCommit(d) PROVE TypeOK'
  <2>1. /\ req[d] \in Withdrawals /\ amount[req[d]] \in Nat
        /\ tgt[d] \in Rows /\ seen[d] + amount[req[d]] \in Int
    BY <1>14 DEF DeclineCommit, Loaded
  <2>2. bal' \in [Rows -> Int] /\ lock' \in [Rows -> Handlers \cup {None}]
    BY <1>14, <2>1 DEF DeclineCommit
  <2>3. log' \in [LogTypes -> Int]
    BY <1>14, <2>1 DEF DeclineCommit, LogTypes
  <2>4. status' \in [Withdrawals -> Statuses] /\ refunds' \in [Withdrawals -> Nat]
    BY <1>14, <2>1 DEF DeclineCommit, Statuses
  <2>5. /\ pc' \in [Handlers -> Places] /\ tgt' \in [Handlers -> Rows]
        /\ seen' \in [Handlers -> Int] /\ req' \in [Decisions -> Withdrawals \cup {None}]
    BY <1>14 DEF DeclineCommit, Places
  <2>6. UNCHANGED <<rows, amount, xp, wiped, owed, damage>>
    BY <1>14 DEF DeclineCommit
  <2>7. QED
    BY <2>2, <2>3, <2>4, <2>5, <2>6
<1>15. ASSUME NEW h \in Resets, ResetWipe(h) PROVE TypeOK'
  BY <1>15 DEF ResetWipe, Places
<1>16. ASSUME NEW h \in Resets, ResetRead(h) PROVE TypeOK'
  <2>1. UNCHANGED <<rows, bal, log, status, amount, lock, xp, req, wiped, owed, refunds, damage>>
    BY <1>16 DEF ResetRead
  <2>2. /\ pc' \in [Handlers -> Places] /\ tgt' \in [Handlers -> Rows]
        /\ seen' \in [Handlers -> Int]
    BY <1>16 DEF ResetRead, Places
  <2>3. QED
    BY <2>1, <2>2
<1>17. ASSUME NEW h \in Resets, ResetCommit(h) PROVE TypeOK'
  BY <1>17 DEF ResetCommit, Places, Damages, LogTypes
<1>18. ASSUME UNCHANGED vars PROVE TypeOK'
  BY <1>18 DEF vars
<1>19. QED
  BY <1>1, <1>2, <1>3, <1>4, <1>5, <1>6, <1>7, <1>8, <1>9, <1>10, <1>11, <1>12,
     <1>13, <1>14, <1>15, <1>16, <1>17, <1>18
     DEF Next, Award, CreateRejected, Crash, Withdraw, Decide, Reset, Quiet

(* The places of each kind of call. *)
LEMMA StagesStep == IInv /\ [Next]_vars => Stages'
<1> SUFFICES ASSUME IInv, [Next]_vars PROVE Stages'
  OBVIOUS
<1> USE HandlersDistinct, HandlerKinds
    DEF IInv, TypeOK, Stages, data, ghost, GoTo, End, Read
<1>1. ASSUME NEW a \in Awards, LogAward(a) PROVE Stages'
  BY <1>1 DEF LogAward
<1>2. ASSUME NEW a \in Awards, CreditRead(a) PROVE Stages'
  BY <1>2 DEF CreditRead
<1>3. ASSUME NEW a \in Awards, CreditWrite(a) PROVE Stages'
  BY <1>3 DEF CreditWrite
<1>4. ASSUME NEW a \in Awards, CreateCheck(a) PROVE Stages'
  BY <1>4 DEF CreateCheck
<1>5. ASSUME NEW a \in Awards, CreateInsert(a) PROVE Stages'
  BY <1>5 DEF CreateInsert
<1>6. ASSUME ProcessExit PROVE Stages'
  BY <1>6 DEF ProcessExit, InFlight
<1>7. ASSUME NEW w \in Withdrawals, WithdrawCheck(w) PROVE Stages'
  BY <1>7 DEF WithdrawCheck
<1>8. ASSUME NEW w \in Withdrawals, WithdrawLock(w) PROVE Stages'
  BY <1>8 DEF WithdrawLock
<1>9. ASSUME NEW w \in Withdrawals, WithdrawReject(w) PROVE Stages'
  BY <1>9 DEF WithdrawReject
<1>10. ASSUME NEW w \in Withdrawals, WithdrawCommit(w) PROVE Stages'
  BY <1>10 DEF WithdrawCommit
<1>11. ASSUME NEW d \in Decisions, DecisionLoad(d) PROVE Stages'
  BY <1>11 DEF DecisionLoad
<1>12. ASSUME NEW d \in Decisions, MarkSent(d) PROVE Stages'
  BY <1>12 DEF MarkSent
<1>13. ASSUME NEW d \in Decisions, RefundLock(d) PROVE Stages'
  BY <1>13 DEF RefundLock
<1>14. ASSUME NEW d \in Decisions, DeclineCommit(d) PROVE Stages'
  BY <1>14 DEF DeclineCommit
<1>15. ASSUME NEW h \in Resets, ResetWipe(h) PROVE Stages'
  BY <1>15 DEF ResetWipe
<1>16. ASSUME NEW h \in Resets, ResetRead(h) PROVE Stages'
  BY <1>16 DEF ResetRead
<1>17. ASSUME NEW h \in Resets, ResetCommit(h) PROVE Stages'
  BY <1>17 DEF ResetCommit
<1>18. ASSUME UNCHANGED vars PROVE Stages'
  BY <1>18 DEF vars
<1>19. QED
  BY <1>1, <1>2, <1>3, <1>4, <1>5, <1>6, <1>7, <1>8, <1>9, <1>10, <1>11, <1>12,
     <1>13, <1>14, <1>15, <1>16, <1>17, <1>18
     DEF Next, Award, CreateRejected, Crash, Withdraw, Decide, Reset, Quiet

(* A decision keeps the request it loaded until it ends. *)
LEMMA LoadedStep == IInv /\ [Next]_vars => Loaded'
<1> SUFFICES ASSUME IInv, [Next]_vars PROVE Loaded'
  OBVIOUS
<1> USE HandlersDistinct, HandlerKinds
    DEF IInv, TypeOK, Loaded, data, ghost, GoTo, End, Read
<1>1. ASSUME NEW a \in Awards, LogAward(a) PROVE Loaded'
  BY <1>1 DEF LogAward
<1>2. ASSUME NEW a \in Awards, CreditRead(a) PROVE Loaded'
  BY <1>2 DEF CreditRead
<1>3. ASSUME NEW a \in Awards, CreditWrite(a) PROVE Loaded'
  BY <1>3 DEF CreditWrite
<1>4. ASSUME NEW a \in Awards, CreateCheck(a) PROVE Loaded'
  BY <1>4 DEF CreateCheck
<1>5. ASSUME NEW a \in Awards, CreateInsert(a) PROVE Loaded'
  BY <1>5 DEF CreateInsert
<1>6. ASSUME ProcessExit PROVE Loaded'
  BY <1>6 DEF ProcessExit, InFlight
<1>7. ASSUME NEW w \in Withdrawals, WithdrawCheck(w) PROVE Loaded'
  BY <1>7 DEF WithdrawCheck
<1>8. ASSUME NEW w \in Withdrawals, WithdrawLock(w) PROVE Loaded'
  BY <1>8 DEF WithdrawLock
<1>9. ASSUME NEW w \in Withdrawals, WithdrawReject(w) PROVE Loaded'
  BY <1>9 DEF WithdrawReject
<1>10. ASSUME NEW w \in Withdrawals, WithdrawCommit(w) PROVE Loaded'
  BY <1>10 DEF WithdrawCommit
<1>11. ASSUME NEW d \in Decisions, DecisionLoad(d) PROVE Loaded'
  BY <1>11 DEF DecisionLoad
<1>12. ASSUME NEW d \in Decisions, MarkSent(d) PROVE Loaded'
  BY <1>12 DEF MarkSent
<1>13. ASSUME NEW d \in Decisions, RefundLock(d) PROVE Loaded'
  BY <1>13 DEF RefundLock
<1>14. ASSUME NEW d \in Decisions, DeclineCommit(d) PROVE Loaded'
  BY <1>14 DEF DeclineCommit
<1>15. ASSUME NEW h \in Resets, ResetWipe(h) PROVE Loaded'
  BY <1>15 DEF ResetWipe
<1>16. ASSUME NEW h \in Resets, ResetRead(h) PROVE Loaded'
  BY <1>16 DEF ResetRead
<1>17. ASSUME NEW h \in Resets, ResetCommit(h) PROVE Loaded'
  BY <1>17 DEF ResetCommit
<1>18. ASSUME UNCHANGED vars PROVE Loaded'
  BY <1>18 DEF vars
<1>19. QED
  BY <1>1, <1>2, <1>3, <1>4, <1>5, <1>6, <1>7, <1>8, <1>9, <1>10, <1>11, <1>12,
     <1>13, <1>14, <1>15, <1>16, <1>17, <1>18
     DEF Next, Award, CreateRejected, Crash, Withdraw, Decide, Reset, Quiet

(* Only a withdrawal that commits has a request. *)
LEMMA FreshStep == IInv /\ [Next]_vars => Fresh'
<1> SUFFICES ASSUME IInv, [Next]_vars PROVE Fresh'
  OBVIOUS
<1> USE HandlersDistinct, HandlerKinds
    DEF IInv, TypeOK, Loaded, Fresh, data, ghost, GoTo, End, Read
<1>1. ASSUME NEW a \in Awards, LogAward(a) PROVE Fresh'
  BY <1>1 DEF LogAward
<1>2. ASSUME NEW a \in Awards, CreditRead(a) PROVE Fresh'
  BY <1>2 DEF CreditRead
<1>3. ASSUME NEW a \in Awards, CreditWrite(a) PROVE Fresh'
  BY <1>3 DEF CreditWrite
<1>4. ASSUME NEW a \in Awards, CreateCheck(a) PROVE Fresh'
  BY <1>4 DEF CreateCheck
<1>5. ASSUME NEW a \in Awards, CreateInsert(a) PROVE Fresh'
  BY <1>5 DEF CreateInsert
<1>6. ASSUME ProcessExit PROVE Fresh'
  BY <1>6 DEF ProcessExit, InFlight
<1>7. ASSUME NEW w \in Withdrawals, WithdrawCheck(w) PROVE Fresh'
  BY <1>7 DEF WithdrawCheck
<1>8. ASSUME NEW w \in Withdrawals, WithdrawLock(w) PROVE Fresh'
  BY <1>8 DEF WithdrawLock
<1>9. ASSUME NEW w \in Withdrawals, WithdrawReject(w) PROVE Fresh'
  BY <1>9 DEF WithdrawReject
<1>10. ASSUME NEW w \in Withdrawals, WithdrawCommit(w) PROVE Fresh'
  BY <1>10 DEF WithdrawCommit
<1>11. ASSUME NEW d \in Decisions, DecisionLoad(d) PROVE Fresh'
  BY <1>11 DEF DecisionLoad
<1>12. ASSUME NEW d \in Decisions, MarkSent(d) PROVE Fresh'
  BY <1>12 DEF MarkSent
<1>13. ASSUME NEW d \in Decisions, RefundLock(d) PROVE Fresh'
  BY <1>13 DEF RefundLock
<1>14. ASSUME NEW d \in Decisions, DeclineCommit(d) PROVE Fresh'
  BY <1>14 DEF DeclineCommit
<1>15. ASSUME NEW h \in Resets, ResetWipe(h) PROVE Fresh'
  BY <1>15 DEF ResetWipe
<1>16. ASSUME NEW h \in Resets, ResetRead(h) PROVE Fresh'
  BY <1>16 DEF ResetRead
<1>17. ASSUME NEW h \in Resets, ResetCommit(h) PROVE Fresh'
  BY <1>17 DEF ResetCommit
<1>18. ASSUME UNCHANGED vars PROVE Fresh'
  BY <1>18 DEF vars
<1>19. QED
  BY <1>1, <1>2, <1>3, <1>4, <1>5, <1>6, <1>7, <1>8, <1>9, <1>10, <1>11, <1>12,
     <1>13, <1>14, <1>15, <1>16, <1>17, <1>18
     DEF Next, Award, CreateRejected, Crash, Withdraw, Decide, Reset, Quiet

(* No step removes a row. *)
LEMMA TargetsStep == IInv /\ [Next]_vars => Targets'
<1> SUFFICES ASSUME IInv, [Next]_vars PROVE Targets'
  OBVIOUS
<1> USE HandlersDistinct, HandlerKinds
    DEF IInv, TypeOK, Targets, data, ghost, GoTo, End, Read
<1>1. ASSUME NEW a \in Awards, LogAward(a) PROVE Targets'
  BY <1>1 DEF LogAward
<1>2. ASSUME NEW a \in Awards, CreditRead(a) PROVE Targets'
  BY <1>2 DEF CreditRead
<1>3. ASSUME NEW a \in Awards, CreditWrite(a) PROVE Targets'
  BY <1>3 DEF CreditWrite
<1>4. ASSUME NEW a \in Awards, CreateCheck(a) PROVE Targets'
  BY <1>4 DEF CreateCheck
<1>5. ASSUME NEW a \in Awards, CreateInsert(a) PROVE Targets'
  BY <1>5 DEF CreateInsert
<1>6. ASSUME ProcessExit PROVE Targets'
  BY <1>6 DEF ProcessExit, InFlight
<1>7. ASSUME NEW w \in Withdrawals, WithdrawCheck(w) PROVE Targets'
  BY <1>7 DEF WithdrawCheck
<1>8. ASSUME NEW w \in Withdrawals, WithdrawLock(w) PROVE Targets'
  BY <1>8 DEF WithdrawLock
<1>9. ASSUME NEW w \in Withdrawals, WithdrawReject(w) PROVE Targets'
  BY <1>9 DEF WithdrawReject
<1>10. ASSUME NEW w \in Withdrawals, WithdrawCommit(w) PROVE Targets'
  BY <1>10 DEF WithdrawCommit
<1>11. ASSUME NEW d \in Decisions, DecisionLoad(d) PROVE Targets'
  BY <1>11 DEF DecisionLoad
<1>12. ASSUME NEW d \in Decisions, MarkSent(d) PROVE Targets'
  BY <1>12 DEF MarkSent
<1>13. ASSUME NEW d \in Decisions, RefundLock(d) PROVE Targets'
  BY <1>13 DEF RefundLock
<1>14. ASSUME NEW d \in Decisions, DeclineCommit(d) PROVE Targets'
  BY <1>14 DEF DeclineCommit
<1>15. ASSUME NEW h \in Resets, ResetWipe(h) PROVE Targets'
  BY <1>15 DEF ResetWipe
<1>16. ASSUME NEW h \in Resets, ResetRead(h) PROVE Targets'
  BY <1>16 DEF ResetRead
<1>17. ASSUME NEW h \in Resets, ResetCommit(h) PROVE Targets'
  BY <1>17 DEF ResetCommit
<1>18. ASSUME UNCHANGED vars PROVE Targets'
  BY <1>18 DEF vars
<1>19. QED
  BY <1>1, <1>2, <1>3, <1>4, <1>5, <1>6, <1>7, <1>8, <1>9, <1>10, <1>11, <1>12,
     <1>13, <1>14, <1>15, <1>16, <1>17, <1>18
     DEF Next, Award, CreateRejected, Crash, Withdraw, Decide, Reset, Quiet

(* The row lock protects the balance a transaction has read. *)
LEMMA SnapshotStep == IInv /\ [Next]_vars => SnapshotUnderLock'
<1> SUFFICES ASSUME IInv, [Next]_vars PROVE SnapshotUnderLock'
  OBVIOUS
<1> USE HandlersDistinct, HandlerKinds
    DEF IInv, TypeOK, Stages, Targets, SnapshotUnderLock, data, ghost, GoTo, End,
        Read, Unlocked, Update
<1>1. ASSUME NEW a \in Awards, LogAward(a) PROVE SnapshotUnderLock'
  BY <1>1 DEF LogAward
<1>2. ASSUME NEW a \in Awards, CreditRead(a) PROVE SnapshotUnderLock'
  BY <1>2 DEF CreditRead
<1>3. ASSUME NEW a \in Awards, CreditWrite(a) PROVE SnapshotUnderLock'
  BY <1>3 DEF CreditWrite
<1>4. ASSUME NEW a \in Awards, CreateCheck(a) PROVE SnapshotUnderLock'
  BY <1>4 DEF CreateCheck
<1>5. ASSUME NEW a \in Awards, CreateInsert(a) PROVE SnapshotUnderLock'
  BY <1>5 DEF CreateInsert
<1>6. ASSUME ProcessExit PROVE SnapshotUnderLock'
  BY <1>6 DEF ProcessExit, InFlight
<1>7. ASSUME NEW w \in Withdrawals, WithdrawCheck(w) PROVE SnapshotUnderLock'
  BY <1>7 DEF WithdrawCheck
<1>8. ASSUME NEW w \in Withdrawals, WithdrawLock(w) PROVE SnapshotUnderLock'
  BY <1>8 DEF WithdrawLock
<1>9. ASSUME NEW w \in Withdrawals, WithdrawReject(w) PROVE SnapshotUnderLock'
  BY <1>9 DEF WithdrawReject
<1>10. ASSUME NEW w \in Withdrawals, WithdrawCommit(w) PROVE SnapshotUnderLock'
  BY <1>10 DEF WithdrawCommit
<1>11. ASSUME NEW d \in Decisions, DecisionLoad(d) PROVE SnapshotUnderLock'
  BY <1>11 DEF DecisionLoad
<1>12. ASSUME NEW d \in Decisions, MarkSent(d) PROVE SnapshotUnderLock'
  BY <1>12 DEF MarkSent
<1>13. ASSUME NEW d \in Decisions, RefundLock(d) PROVE SnapshotUnderLock'
  BY <1>13 DEF RefundLock
<1>14. ASSUME NEW d \in Decisions, DeclineCommit(d) PROVE SnapshotUnderLock'
  BY <1>14 DEF DeclineCommit
<1>15. ASSUME NEW h \in Resets, ResetWipe(h) PROVE SnapshotUnderLock'
  BY <1>15 DEF ResetWipe
<1>16. ASSUME NEW h \in Resets, ResetRead(h) PROVE SnapshotUnderLock'
  BY <1>16 DEF ResetRead
<1>17. ASSUME NEW h \in Resets, ResetCommit(h) PROVE SnapshotUnderLock'
  BY <1>17 DEF ResetCommit
<1>18. ASSUME UNCHANGED vars PROVE SnapshotUnderLock'
  BY <1>18 DEF vars
<1>19. QED
  BY <1>1, <1>2, <1>3, <1>4, <1>5, <1>6, <1>7, <1>8, <1>9, <1>10, <1>11, <1>12,
     <1>13, <1>14, <1>15, <1>16, <1>17, <1>18
     DEF Next, Award, CreateRejected, Crash, Withdraw, Decide, Reset, Quiet

(* No step writes or reads a negative balance. *)
LEMMA CoveredStep == IInv /\ [Next]_vars => Covered'
<1> SUFFICES ASSUME IInv, [Next]_vars PROVE Covered'
  OBVIOUS
<1> USE HandlersDistinct, HandlerKinds, ValuesAssumption
    DEF IInv, TypeOK, Loaded, Covered, data, ghost, GoTo, End, Read, Update
<1>1. ASSUME NEW a \in Awards, LogAward(a) PROVE Covered'
  BY <1>1 DEF LogAward
<1>2. ASSUME NEW a \in Awards, CreditRead(a) PROVE Covered'
  BY <1>2 DEF CreditRead
<1>3. ASSUME NEW a \in Awards, CreditWrite(a) PROVE Covered'
  BY <1>3 DEF CreditWrite
<1>4. ASSUME NEW a \in Awards, CreateCheck(a) PROVE Covered'
  BY <1>4 DEF CreateCheck
<1>5. ASSUME NEW a \in Awards, CreateInsert(a) PROVE Covered'
  BY <1>5 DEF CreateInsert
<1>6. ASSUME ProcessExit PROVE Covered'
  BY <1>6 DEF ProcessExit, InFlight
<1>7. ASSUME NEW w \in Withdrawals, WithdrawCheck(w) PROVE Covered'
  BY <1>7 DEF WithdrawCheck
<1>8. ASSUME NEW w \in Withdrawals, WithdrawLock(w) PROVE Covered'
  BY <1>8 DEF WithdrawLock
<1>9. ASSUME NEW w \in Withdrawals, WithdrawReject(w) PROVE Covered'
  BY <1>9 DEF WithdrawReject
<1>10. ASSUME NEW w \in Withdrawals, WithdrawCommit(w) PROVE Covered'
  BY <1>10 DEF WithdrawCommit
<1>11. ASSUME NEW d \in Decisions, DecisionLoad(d) PROVE Covered'
  BY <1>11 DEF DecisionLoad
<1>12. ASSUME NEW d \in Decisions, MarkSent(d) PROVE Covered'
  BY <1>12 DEF MarkSent
<1>13. ASSUME NEW d \in Decisions, RefundLock(d) PROVE Covered'
  BY <1>13 DEF RefundLock
<1>14. ASSUME NEW d \in Decisions, DeclineCommit(d) PROVE Covered'
  BY <1>14 DEF DeclineCommit
<1>15. ASSUME NEW h \in Resets, ResetWipe(h) PROVE Covered'
  BY <1>15 DEF ResetWipe
<1>16. ASSUME NEW h \in Resets, ResetRead(h) PROVE Covered'
  BY <1>16 DEF ResetRead
<1>17. ASSUME NEW h \in Resets, ResetCommit(h) PROVE Covered'
  BY <1>17 DEF ResetCommit
<1>18. ASSUME UNCHANGED vars PROVE Covered'
  BY <1>18 DEF vars
<1>19. QED
  BY <1>1, <1>2, <1>3, <1>4, <1>5, <1>6, <1>7, <1>8, <1>9, <1>10, <1>11, <1>12,
     <1>13, <1>14, <1>15, <1>16, <1>17, <1>18
     DEF Next, Award, CreateRejected, Crash, Withdraw, Decide, Reset, Quiet

(* A refund and its decline commit together. *)
LEMMA SettlementStep == IInv /\ [Next]_vars => SettlementMatchesRefunds'
<1> SUFFICES ASSUME IInv, [Next]_vars PROVE SettlementMatchesRefunds'
  OBVIOUS
<1> USE HandlerKinds
    DEF IInv, TypeOK, Loaded, Fresh, SettlementMatchesRefunds, data, ghost
<1>1. ASSUME NEW a \in Awards, LogAward(a) PROVE SettlementMatchesRefunds'
  BY <1>1 DEF LogAward
<1>2. ASSUME NEW a \in Awards, CreditRead(a) PROVE SettlementMatchesRefunds'
  BY <1>2 DEF CreditRead
<1>3. ASSUME NEW a \in Awards, CreditWrite(a) PROVE SettlementMatchesRefunds'
  BY <1>3 DEF CreditWrite
<1>4. ASSUME NEW a \in Awards, CreateCheck(a) PROVE SettlementMatchesRefunds'
  BY <1>4 DEF CreateCheck
<1>5. ASSUME NEW a \in Awards, CreateInsert(a) PROVE SettlementMatchesRefunds'
  BY <1>5 DEF CreateInsert
<1>6. ASSUME ProcessExit PROVE SettlementMatchesRefunds'
  BY <1>6 DEF ProcessExit
<1>7. ASSUME NEW w \in Withdrawals, WithdrawCheck(w) PROVE SettlementMatchesRefunds'
  BY <1>7 DEF WithdrawCheck
<1>8. ASSUME NEW w \in Withdrawals, WithdrawLock(w) PROVE SettlementMatchesRefunds'
  BY <1>8 DEF WithdrawLock
<1>9. ASSUME NEW w \in Withdrawals, WithdrawReject(w) PROVE SettlementMatchesRefunds'
  BY <1>9 DEF WithdrawReject
<1>10. ASSUME NEW w \in Withdrawals, WithdrawCommit(w) PROVE SettlementMatchesRefunds'
  BY <1>10 DEF WithdrawCommit
<1>11. ASSUME NEW d \in Decisions, DecisionLoad(d) PROVE SettlementMatchesRefunds'
  BY <1>11 DEF DecisionLoad
<1>12. ASSUME NEW d \in Decisions, MarkSent(d) PROVE SettlementMatchesRefunds'
  BY <1>12 DEF MarkSent
<1>13. ASSUME NEW d \in Decisions, RefundLock(d) PROVE SettlementMatchesRefunds'
  BY <1>13 DEF RefundLock
<1>14. ASSUME NEW d \in Decisions, DeclineCommit(d) PROVE SettlementMatchesRefunds'
  BY <1>14 DEF DeclineCommit
<1>15. ASSUME NEW h \in Resets, ResetWipe(h) PROVE SettlementMatchesRefunds'
  BY <1>15 DEF ResetWipe
<1>16. ASSUME NEW h \in Resets, ResetRead(h) PROVE SettlementMatchesRefunds'
  BY <1>16 DEF ResetRead
<1>17. ASSUME NEW h \in Resets, ResetCommit(h) PROVE SettlementMatchesRefunds'
  BY <1>17 DEF ResetCommit
<1>18. ASSUME UNCHANGED vars PROVE SettlementMatchesRefunds'
  BY <1>18 DEF vars
<1>19. QED
  BY <1>1, <1>2, <1>3, <1>4, <1>5, <1>6, <1>7, <1>8, <1>9, <1>10, <1>11, <1>12,
     <1>13, <1>14, <1>15, <1>16, <1>17, <1>18
     DEF Next, Award, CreateRejected, Crash, Withdraw, Decide, Reset, Quiet

(* A request exists only beside a record. *)
LEMMA RequestStep == IInv /\ [Next]_vars => RequestHasRecord'
<1> SUFFICES ASSUME IInv, [Next]_vars PROVE RequestHasRecord'
  OBVIOUS
<1> USE HandlersDistinct, HandlerKinds
    DEF IInv, TypeOK, Stages, Loaded, Targets, RequestHasRecord, InFlight, data,
        ghost, GoTo, End, Read
<1>1. ASSUME NEW a \in Awards, LogAward(a) PROVE RequestHasRecord'
  BY <1>1 DEF LogAward
<1>2. ASSUME NEW a \in Awards, CreditRead(a) PROVE RequestHasRecord'
  BY <1>2 DEF CreditRead
<1>3. ASSUME NEW a \in Awards, CreditWrite(a) PROVE RequestHasRecord'
  BY <1>3 DEF CreditWrite
<1>4. ASSUME NEW a \in Awards, CreateCheck(a) PROVE RequestHasRecord'
  BY <1>4 DEF CreateCheck
<1>5. ASSUME NEW a \in Awards, CreateInsert(a) PROVE RequestHasRecord'
  BY <1>5 DEF CreateInsert
<1>6. ASSUME ProcessExit PROVE RequestHasRecord'
  BY <1>6 DEF ProcessExit
<1>7. ASSUME NEW w \in Withdrawals, WithdrawCheck(w) PROVE RequestHasRecord'
  BY <1>7 DEF WithdrawCheck
<1>8. ASSUME NEW w \in Withdrawals, WithdrawLock(w) PROVE RequestHasRecord'
  BY <1>8 DEF WithdrawLock
<1>9. ASSUME NEW w \in Withdrawals, WithdrawReject(w) PROVE RequestHasRecord'
  BY <1>9 DEF WithdrawReject
<1>10. ASSUME NEW w \in Withdrawals, WithdrawCommit(w) PROVE RequestHasRecord'
  BY <1>10 DEF WithdrawCommit
<1>11. ASSUME NEW d \in Decisions, DecisionLoad(d) PROVE RequestHasRecord'
  BY <1>11 DEF DecisionLoad
<1>12. ASSUME NEW d \in Decisions, MarkSent(d) PROVE RequestHasRecord'
  BY <1>12 DEF MarkSent
<1>13. ASSUME NEW d \in Decisions, RefundLock(d) PROVE RequestHasRecord'
  BY <1>13 DEF RefundLock
<1>14. ASSUME NEW d \in Decisions, DeclineCommit(d) PROVE RequestHasRecord'
  BY <1>14 DEF DeclineCommit
<1>15. ASSUME NEW h \in Resets, ResetWipe(h) PROVE RequestHasRecord'
  BY <1>15 DEF ResetWipe
<1>16. ASSUME NEW h \in Resets, ResetRead(h) PROVE RequestHasRecord'
  BY <1>16 DEF ResetRead
<1>17. ASSUME NEW h \in Resets, ResetCommit(h) PROVE RequestHasRecord'
  BY <1>17 DEF ResetCommit
<1>18. ASSUME UNCHANGED vars PROVE RequestHasRecord'
  BY <1>18 DEF vars
<1>19. QED
  BY <1>1, <1>2, <1>3, <1>4, <1>5, <1>6, <1>7, <1>8, <1>9, <1>10, <1>11, <1>12,
     <1>13, <1>14, <1>15, <1>16, <1>17, <1>18
     DEF Next, Award, CreateRejected, Crash, Withdraw, Decide, Reset, Quiet

(* Each step moves the balance and the log alike, or is recorded as damage. *)
LEMMA BalanceStep == IInv /\ [Next]_vars => BalanceExplained'
<1> SUFFICES ASSUME IInv, [Next]_vars PROVE BalanceExplained'
  OBVIOUS
<1> USE HandlerKinds, ValuesAssumption
    DEF IInv, TypeOK, Loaded, Targets, SnapshotUnderLock, BalanceExplained,
        LogTotal, LogTypes, data, ghost, GoTo, End, Read, Add, Update
<1>1. ASSUME NEW a \in Awards, LogAward(a) PROVE BalanceExplained'
  <2>1. PICK v \in XpValues : log' = Add("AWARD", v) /\ owed' = owed + v
    BY <1>1 DEF LogAward
  <2>2. LogTotal' = LogTotal + v
    BY <2>1
  <2>3. LogTotal \in Int /\ v \in Int /\ UNCHANGED <<rows, bal, damage>>
    BY <1>1 DEF LogAward
  <2>4. QED
    BY <2>1, <2>2, <2>3
<1>2. ASSUME NEW a \in Awards, CreditRead(a) PROVE BalanceExplained'
  BY <1>2 DEF CreditRead
<1>3. ASSUME NEW a \in Awards, CreditWrite(a) PROVE BalanceExplained'
  <2>1. /\ tgt[a] \in rows /\ tgt[a] \in Rows /\ seen[a] \in Int
        /\ xp[a] \in Nat /\ LogTotal \in Int
    BY <1>3 DEF CreditWrite
  <2>2. /\ bal' = Update(tgt[a], seen[a], seen[a] + xp[a])
        /\ owed' = owed - xp[a] /\ rows' = rows /\ LogTotal' = LogTotal
    BY <1>3 DEF CreditWrite
  <2>3. CASE xp[a] # 0 /\ bal[tgt[a]] # seen[a]
    BY <1>3, <2>3 DEF CreditWrite
  <2>4. CASE xp[a] = 0
    BY <1>3, <2>1, <2>2, <2>4 DEF CreditWrite
  <2>5. CASE xp[a] # 0 /\ bal[tgt[a]] = seen[a]
    <3>1. bal' = [bal EXCEPT ![tgt[a]] = bal[tgt[a]] + xp[a]] /\ damage' = damage
      BY <1>3, <2>1, <2>2, <2>5 DEF CreditWrite
    <3>2. QED
      BY <2>1, <2>2, <3>1
  <2>6. QED
    BY <2>3, <2>4, <2>5
<1>4. ASSUME NEW a \in Awards, CreateCheck(a) PROVE BalanceExplained'
  BY <1>4 DEF CreateCheck
<1>5. ASSUME NEW a \in Awards, CreateInsert(a) PROVE BalanceExplained'
  <2>1. CASE rows # {}
    BY <1>5, <2>1 DEF CreateInsert
  <2>2. CASE rows = {}
    <3>1. /\ rows' = {a} /\ bal' = [bal EXCEPT ![a] = xp[a]]
          /\ owed' = owed - xp[a] /\ damage' = damage /\ LogTotal' = LogTotal
      BY <1>5, <2>2 DEF CreateInsert
    <3>2. xp[a] \in Int /\ a \in Rows /\ LogTotal \in Int
      OBVIOUS
    <3>3. QED
      BY <2>2, <3>1, <3>2
  <2>3. QED
    BY <2>1, <2>2
<1>6. ASSUME ProcessExit PROVE BalanceExplained'
  BY <1>6 DEF ProcessExit
<1>7. ASSUME NEW w \in Withdrawals, WithdrawCheck(w) PROVE BalanceExplained'
  BY <1>7 DEF WithdrawCheck
<1>8. ASSUME NEW w \in Withdrawals, WithdrawLock(w) PROVE BalanceExplained'
  BY <1>8 DEF WithdrawLock
<1>9. ASSUME NEW w \in Withdrawals, WithdrawReject(w) PROVE BalanceExplained'
  BY <1>9 DEF WithdrawReject
<1>10. ASSUME NEW w \in Withdrawals, WithdrawCommit(w) PROVE BalanceExplained'
  BY <1>10 DEF WithdrawCommit
<1>11. ASSUME NEW d \in Decisions, DecisionLoad(d) PROVE BalanceExplained'
  BY <1>11 DEF DecisionLoad
<1>12. ASSUME NEW d \in Decisions, MarkSent(d) PROVE BalanceExplained'
  BY <1>12 DEF MarkSent
<1>13. ASSUME NEW d \in Decisions, RefundLock(d) PROVE BalanceExplained'
  BY <1>13 DEF RefundLock
<1>14. ASSUME NEW d \in Decisions, DeclineCommit(d) PROVE BalanceExplained'
  BY <1>14 DEF DeclineCommit
<1>15. ASSUME NEW h \in Resets, ResetWipe(h) PROVE BalanceExplained'
  BY <1>15 DEF ResetWipe
<1>16. ASSUME NEW h \in Resets, ResetRead(h) PROVE BalanceExplained'
  BY <1>16 DEF ResetRead
<1>17. ASSUME NEW h \in Resets, ResetCommit(h) PROVE BalanceExplained'
  <2>1. CASE /\ owed = 0 /\ log = wiped
             /\ tgt[h] \in rows /\ bal[tgt[h]] = seen[h]
    <3>1. LogTotal' = 0 /\ owed' = 0 /\ rows' = rows /\ damage' = damage
      BY <1>17, <2>1 DEF ResetCommit
    <3>2. bal'[tgt[h]] = 0
      BY <1>17, <2>1 DEF ResetCommit
    <3>3. QED
      BY <2>1, <3>1, <3>2
  <2>2. CASE owed = 0 /\ log = wiped /\ tgt[h] \notin rows /\ rows = {}
    BY <1>17, <2>2 DEF ResetCommit
  <2>3. CASE ~ /\ owed = 0 /\ log = wiped
               /\ IF tgt[h] \in rows THEN bal[tgt[h]] = seen[h] ELSE rows = {}
    BY <1>17, <2>3 DEF ResetCommit
  <2>4. QED
    BY <2>1, <2>2, <2>3
<1>18. ASSUME UNCHANGED vars PROVE BalanceExplained'
  BY <1>18 DEF vars
<1>19. QED
  BY <1>1, <1>2, <1>3, <1>4, <1>5, <1>6, <1>7, <1>8, <1>9, <1>10, <1>11, <1>12,
     <1>13, <1>14, <1>15, <1>16, <1>17, <1>18
     DEF Next, Award, CreateRejected, Crash, Withdraw, Decide, Reset, Quiet

(* The invariant is inductive. *)
LEMMA InvStep == IInv /\ [Next]_vars => IInv'
<1> SUFFICES ASSUME IInv, [Next]_vars PROVE IInv'
  OBVIOUS
<1>1. TypeOK' /\ Stages' /\ Loaded' /\ Fresh' /\ Targets'
  BY TypeStep, StagesStep, LoadedStep, FreshStep, TargetsStep DEF IInv
<1>2. Covered' /\ SnapshotUnderLock' /\ SettlementMatchesRefunds'
  BY CoveredStep, SnapshotStep, SettlementStep
<1>3. RequestHasRecord' /\ BalanceExplained'
  BY RequestStep, BalanceStep
<1>4. QED
  BY <1>1, <1>2, <1>3 DEF IInv

LEMMA Invariance == Spec => []IInv
<1>1. QED
  BY InvInit, InvStep, PTL DEF Spec

(* Type correctness. *)
THEOREM TypeCorrect == Spec => []TypeOK
<1>1. IInv => TypeOK
  BY DEF IInv
<1>2. QED
  BY <1>1, Invariance, PTL

(* No interleaving of awards, withdrawals, refunds and resets drives the
   student's balance below zero. *)
THEOREM NeverOverdrawn == Spec => []BalanceNeverNegative
<1>1. IInv => BalanceNeverNegative
  BY DEF IInv, TypeOK, Covered, BalanceNeverNegative
<1>2. QED
  BY <1>1, Invariance, PTL

(* Nobody changes the balance a transaction has read under its row lock. *)
THEOREM LockProtects == Spec => []SnapshotUnderLock
<1>1. IInv => SnapshotUnderLock
  BY DEF IInv
<1>2. QED
  BY <1>1, Invariance, PTL

(* The balance is the sum of the log unless one of the four races, or a
   crash, made them disagree. *)
THEOREM BooksAgree == Spec => []BalanceExplained
<1>1. IInv => BalanceExplained
  BY DEF IInv
<1>2. QED
  BY <1>1, Invariance, PTL

(* A request is refunded with its decline, never while it waits. *)
THEOREM RefundWithDecline == Spec => []SettlementMatchesRefunds
<1>1. IInv => SettlementMatchesRefunds
  BY DEF IInv
<1>2. QED
  BY <1>1, Invariance, PTL

(* Every decision finds the request it loaded and the record to refund. *)
THEOREM RecordBeforeRequest == Spec => []RequestHasRecord
<1>1. IInv => RequestHasRecord
  BY DEF IInv
<1>2. QED
  BY <1>1, Invariance, PTL
(* What each request has put into the log's debits, and its refunds. *)
Debit(w)  == IF status[w] = "none" THEN 0 ELSE amount[w]
Credit(w) == refunds[w] * amount[w]

(* The sums are over functions on the requests, which are finitely many. *)
LEMMA SumIsTotal ==
  ASSUME NEW f, NEW S, S = DOMAIN f
  PROVE  SumOver(f) = Total(f, S)
BY DEF SumOver, FoldFunction, Total

(* EscrowInLog in terms of Debit and Credit, in a state and in the next. *)
EscrowTotals ==
  (\A h \in Resets : pc[h] # "done") =>
    /\ log["AIRTIME_CONVERSION"] = 0 - Total([w \in Withdrawals |-> Debit(w)], Withdrawals)
    /\ log["AIRTIME_CONVERSION_REFUND"] =
         Total([w \in Withdrawals |-> Credit(w)], Withdrawals)

(* The sums by which EscrowInLog is stated are those the lemmas are about. *)
LEMMA EscrowMeans == (EscrowInLog <=> EscrowTotals) /\ (EscrowInLog' <=> EscrowTotals')
<1>1. EscrowInLog <=> EscrowTotals
  BY SumIsTotal DEF EscrowInLog, EscrowTotals, Held, Debit, Credit
<1>2. EscrowInLog' <=> EscrowTotals'
  BY SumIsTotal DEF EscrowInLog, EscrowTotals, Held, Debit, Credit
<1>3. QED
  BY <1>1, <1>2

(* A product with a refund more. *)
LEMMA OneMore == \A m, n \in Nat : m * n \in Nat /\ (m + 1) * n = m * n + n /\ 0 * n = 0
OBVIOUS

(* Nothing is in the log before the first request. *)
LEMMA EscrowInit == Init => EscrowInLog
<1> SUFFICES ASSUME Init PROVE EscrowInLog
  OBVIOUS
<1>1. \A w \in Withdrawals : Debit(w) = 0 /\ Credit(w) = 0
  BY OneMore DEF Init, Debit, Credit
<1>2. /\ Total([w \in Withdrawals |-> Debit(w)], Withdrawals) = 0
      /\ Total([w \in Withdrawals |-> Credit(w)], Withdrawals) = 0
  BY <1>1, FewCalls, TotalZero
<1>3. log["AIRTIME_CONVERSION"] = 0 /\ log["AIRTIME_CONVERSION_REFUND"] = 0
  BY DEF Init, LogTypes
<1>4. QED
  BY <1>2, <1>3, EscrowMeans DEF EscrowTotals

(* A step that moves no debit, no refund and neither log type keeps it. *)
LEMMA EscrowKept ==
  ASSUME EscrowInLog,
         (\A h \in Resets : pc'[h] # "done") => (\A h \in Resets : pc[h] # "done"),
         log'["AIRTIME_CONVERSION"] = log["AIRTIME_CONVERSION"],
         log'["AIRTIME_CONVERSION_REFUND"] = log["AIRTIME_CONVERSION_REFUND"],
         \A w \in Withdrawals : Debit(w)' = Debit(w) /\ Credit(w)' = Credit(w)
  PROVE  EscrowInLog'
<1>1. /\ [w \in Withdrawals |-> Debit(w)]' = [w \in Withdrawals |-> Debit(w)]
      /\ [w \in Withdrawals |-> Credit(w)]' = [w \in Withdrawals |-> Credit(w)]
  OBVIOUS
<1>2. QED
  BY <1>1, EscrowMeans DEF EscrowTotals

(* A request's commit logs its amount as a debit, and a refund's commit the *)
(* same amount again; the other steps move neither.                         *)
LEMMA EscrowStep == IInv /\ EscrowInLog /\ [Next]_vars => EscrowInLog'
<1> SUFFICES ASSUME IInv, EscrowInLog, [Next]_vars PROVE EscrowInLog'
  OBVIOUS
<1> USE HandlersDistinct, HandlerKinds DEF IInv, TypeOK, data, ghost, GoTo, End, Read
<1>a. \A w \in Withdrawals : status[w] \in {"none", "PENDING"} => Credit(w) = 0
  BY OneMore DEF SettlementMatchesRefunds, Credit
<1>b. \A w \in Withdrawals : Debit(w) \in Nat /\ Credit(w) \in Nat
  BY OneMore DEF Debit, Credit
<1> DEFINE Debits == [w \in Withdrawals |-> Debit(w)]
           Credits == [w \in Withdrawals |-> Credit(w)]
<1>1. ASSUME NEW a \in Awards, LogAward(a) PROVE EscrowInLog'
  BY <1>1, EscrowKept DEF LogAward, Add, LogTypes, Debit, Credit
<1>2. ASSUME NEW a \in Awards, CreditRead(a) PROVE EscrowInLog'
  BY <1>2, EscrowKept DEF CreditRead, Debit, Credit
<1>3. ASSUME NEW a \in Awards, CreditWrite(a) PROVE EscrowInLog'
  BY <1>3, EscrowKept DEF CreditWrite, Debit, Credit
<1>4. ASSUME NEW a \in Awards, CreateCheck(a) PROVE EscrowInLog'
  BY <1>4, EscrowKept DEF CreateCheck, Debit, Credit
<1>5. ASSUME NEW a \in Awards, CreateInsert(a) PROVE EscrowInLog'
  BY <1>5, EscrowKept DEF CreateInsert, Debit, Credit
<1>6. ASSUME ProcessExit PROVE EscrowInLog'
  <2>1. \A w \in Withdrawals : Debit(w)' = Debit(w)
    BY <1>6 DEF ProcessExit, Debit
  <2>2. \A w \in Withdrawals : Credit(w)' = Credit(w)
    BY <1>6, <1>a, OneMore DEF ProcessExit, Credit, SettlementMatchesRefunds
  <2>3. (\A h \in Resets : pc'[h] # "done") => (\A h \in Resets : pc[h] # "done")
    BY <1>6 DEF ProcessExit, InFlight
  <2>4. QED
    BY <1>6, <2>1, <2>2, <2>3, EscrowKept DEF ProcessExit
<1>7. ASSUME NEW v \in Withdrawals, WithdrawCheck(v) PROVE EscrowInLog'
  <2>1. status[v] = "none"
    BY <1>7 DEF WithdrawCheck, Fresh
  <2>2. \A w \in Withdrawals : Debit(w)' = Debit(w)
    BY <1>7, <2>1 DEF WithdrawCheck, Debit
  <2>3. \A w \in Withdrawals : Credit(w)' = Credit(w)
    BY <1>7, <2>1, OneMore, ValuesAssumption
       DEF WithdrawCheck, Credit, SettlementMatchesRefunds
  <2>4. (\A h \in Resets : pc'[h] # "done") => (\A h \in Resets : pc[h] # "done")
    BY <1>7 DEF WithdrawCheck
  <2>5. QED
    BY <1>7, <2>2, <2>3, <2>4, EscrowKept DEF WithdrawCheck
<1>8. ASSUME NEW v \in Withdrawals, WithdrawLock(v) PROVE EscrowInLog'
  BY <1>8, EscrowKept DEF WithdrawLock, Debit, Credit
<1>9. ASSUME NEW v \in Withdrawals, WithdrawReject(v) PROVE EscrowInLog'
  <2>1. status[v] = "none"
    BY <1>9 DEF WithdrawReject, Fresh
  <2>2. \A w \in Withdrawals : Debit(w)' = Debit(w)
    BY <1>9, <2>1 DEF WithdrawReject, Debit
  <2>3. \A w \in Withdrawals : Credit(w)' = Credit(w)
    BY <1>9, <2>1, OneMore DEF WithdrawReject, Credit, SettlementMatchesRefunds
  <2>4. (\A h \in Resets : pc'[h] # "done") => (\A h \in Resets : pc[h] # "done")
    BY <1>9 DEF WithdrawReject
  <2>5. QED
    BY <1>9, <2>2, <2>3, <2>4, EscrowKept DEF WithdrawReject
<1>10. ASSUME NEW v \in Withdrawals, WithdrawCommit(v) PROVE EscrowInLog'
  <2>1. status[v] = "none" /\ status' = [status EXCEPT ![v] = "PENDING"]
        /\ UNCHANGED <<amount, refunds>> /\ amount[v] \in Nat
    BY <1>10 DEF WithdrawCommit, Fresh
  <2>2. /\ Debit(v) = 0 /\ Debit(v)' = amount[v]
        /\ \A w \in Withdrawals : w # v => Debit(w)' = Debit(w)
    BY <2>1 DEF Debit
  <2>3. /\ Total(Debits', Withdrawals) = Total(Debits, Withdrawals) + amount[v]
        /\ Total(Debits, Withdrawals) \in Int
    <3>1. /\ \A w \in Withdrawals : Debits[w] \in Int /\ Debits'[w] = Debit(w)'
          /\ Debits[v] = 0 /\ Debits'[v] = amount[v]
          /\ \A w \in Withdrawals : w # v => Debits'[w] = Debits[w]
      BY <1>b, <2>2
    <3> HIDE DEF Debits
    <3>2. /\ Total(Debits', Withdrawals) = Total(Debits, Withdrawals) + Debits'[v] - Debits[v]
          /\ Total(Debits, Withdrawals) \in Int
      BY <2>1, <3>1, FewCalls, TotalChange
    <3>3. QED BY <2>1, <3>1, <3>2
  <2>4. Credits' = Credits
    BY <2>1 DEF Credit
  <2>5. /\ log'["AIRTIME_CONVERSION"] = log["AIRTIME_CONVERSION"] - amount[v]
        /\ log'["AIRTIME_CONVERSION_REFUND"] = log["AIRTIME_CONVERSION_REFUND"]
    BY <1>10 DEF WithdrawCommit, Add, LogTypes
  <2>6. (\A h \in Resets : pc'[h] # "done") => (\A h \in Resets : pc[h] # "done")
    BY <1>10 DEF WithdrawCommit
  <2>7. QED
    BY <2>1, <2>3, <2>4, <2>5, <2>6, EscrowMeans DEF EscrowTotals
<1>11. ASSUME NEW d \in Decisions, DecisionLoad(d) PROVE EscrowInLog'
  BY <1>11, EscrowKept DEF DecisionLoad, Debit, Credit
<1>12. ASSUME NEW d \in Decisions, MarkSent(d) PROVE EscrowInLog'
  <2>1. req[d] \in Withdrawals /\ status[req[d]] # "none"
    BY <1>12 DEF MarkSent, Loaded
  <2>2. \A w \in Withdrawals : Debit(w)' = Debit(w) /\ Credit(w)' = Credit(w)
    BY <1>12, <2>1 DEF MarkSent, Debit, Credit
  <2>3. QED
    BY <1>12, <2>2, EscrowKept DEF MarkSent
<1>13. ASSUME NEW d \in Decisions, RefundLock(d) PROVE EscrowInLog'
  BY <1>13, EscrowKept DEF RefundLock, Debit, Credit
<1>14. ASSUME NEW d \in Decisions, DeclineCommit(d) PROVE EscrowInLog'
  <2>0. PICK v \in Withdrawals : v = req[d]
    BY <1>14 DEF DeclineCommit, Loaded
  <2>1. status[v] # "none" /\ amount[v] \in Nat /\ refunds[v] \in Nat
    BY <1>14, <2>0 DEF DeclineCommit, Loaded
  <2>2. \A w \in Withdrawals : Debit(w)' = Debit(w)
    BY <1>14, <2>0, <2>1 DEF DeclineCommit, Debit
  <2>3. /\ Credit(v)' = Credit(v) + amount[v]
        /\ \A w \in Withdrawals : w # v => Credit(w)' = Credit(w)
    <3>1. refunds'[v] = refunds[v] + 1 /\ amount'[v] = amount[v]
          /\ \A w \in Withdrawals : w # v => refunds'[w] = refunds[w] /\ amount'[w] = amount[w]
      BY <1>14, <2>0, <2>1 DEF DeclineCommit
    <3>2. (refunds[v] + 1) * amount[v] = refunds[v] * amount[v] + amount[v]
      BY <2>1, OneMore
    <3>3. Credit(v)' = refunds'[v] * amount'[v] /\ Credit(v) = refunds[v] * amount[v]
      BY DEF Credit
    <3>4. \A w \in Withdrawals : w # v => Credit(w)' = Credit(w)
      BY <3>1 DEF Credit
    <3>5. QED BY <3>1, <3>2, <3>3, <3>4
  <2>4. /\ Total(Credits', Withdrawals) = Total(Credits, Withdrawals) + amount[v]
        /\ Total(Credits, Withdrawals) \in Int
    <3>1. /\ \A w \in Withdrawals : Credits[w] \in Int
          /\ Credits'[v] = Credits[v] + amount[v]
          /\ \A w \in Withdrawals : w # v => Credits'[w] = Credits[w]
      <4>1. /\ \A w \in Withdrawals : Credits[w] = Credit(w) /\ Credits'[w] = Credit(w)'
        OBVIOUS
      <4> HIDE DEF Credits
      <4>2. QED BY <1>b, <2>1, <2>3, <4>1
    <3> HIDE DEF Credits
    <3>2. /\ Total(Credits', Withdrawals) = Total(Credits, Withdrawals) + Credits'[v] - Credits[v]
          /\ Total(Credits, Withdrawals) \in Int
      BY <2>1, <3>1, FewCalls, TotalChange
    <3>3. QED BY <2>1, <3>1, <3>2
  <2>5. Debits' = Debits
    BY <2>2
  <2>6. /\ log'["AIRTIME_CONVERSION"] = log["AIRTIME_CONVERSION"]
        /\ log'["AIRTIME_CONVERSION_REFUND"] = log["AIRTIME_CONVERSION_REFUND"] + amount[v]
    BY <1>14, <2>0 DEF DeclineCommit, Add, LogTypes
  <2>7. (\A h \in Resets : pc'[h] # "done") => (\A h \in Resets : pc[h] # "done")
    BY <1>14 DEF DeclineCommit
  <2>8. QED
    BY <2>1, <2>4, <2>5, <2>6, <2>7, EscrowMeans DEF EscrowTotals
<1>15. ASSUME NEW h \in Resets, ResetWipe(h) PROVE EscrowInLog'
  BY <1>15, EscrowKept DEF ResetWipe, Debit, Credit
<1>16. ASSUME NEW h \in Resets, ResetRead(h) PROVE EscrowInLog'
  BY <1>16, EscrowKept DEF ResetRead, Debit, Credit
<1>17. ASSUME NEW h \in Resets, ResetCommit(h) PROVE EscrowInLog'
  BY <1>17 DEF ResetCommit, EscrowInLog
<1>18. ASSUME UNCHANGED vars PROVE EscrowInLog'
  BY <1>18, EscrowKept DEF vars, Debit, Credit
<1>19. QED
  BY <1>1, <1>2, <1>3, <1>4, <1>5, <1>6, <1>7, <1>8, <1>9, <1>10, <1>11, <1>12,
     <1>13, <1>14, <1>15, <1>16, <1>17, <1>18
     DEF Next, Award, CreateRejected, Crash, Withdraw, Decide, Reset, Quiet

(* While no reset has run, the log's debits and refunds are exactly those of
   the requests: nothing is taken without a request, nothing given back
   without a decline. *)
THEOREM EscrowIsLogged == Spec => []EscrowInLog
<1>1. QED
  BY EscrowInit, EscrowStep, Invariance, PTL DEF Spec
-----------------------------------------------------------------------------
(* A call of create that is past its first check asks for something; and the *)
(* XP that is logged and not credited yet is what the awards under way carry. *)
Asked == \A w \in Withdrawals : pc[w] \in {"checked", "locked"} => amount[w] > 0

Owing ==
  /\ \A a \in Awards : pc[a] \in {"idle", "done"} => xp[a] = 0
  /\ owed = Total(xp, Awards)

(* Nothing is owed at the start. *)
LEMMA OwingInit == Init => Asked /\ Owing
<1> SUFFICES ASSUME Init PROVE Asked /\ Owing
  OBVIOUS
<1>1. Asked
  BY HandlerKinds DEF Init, Asked
<1>2. \A a \in Awards : xp[a] = 0
  BY DEF Init
<1>3. QED
  BY <1>1, <1>2, FewCalls, TotalZero DEF Init, Owing

(* No step but WithdrawCheck moves a call to where it has asked. *)
LEMMA AskedStep == IInv /\ Asked /\ [Next]_vars => Asked'
<1> SUFFICES ASSUME IInv, Asked, [Next]_vars PROVE Asked'
  OBVIOUS
<1> USE HandlersDistinct, HandlerKinds DEF IInv, TypeOK, Asked, data, ghost, GoTo, End, Read
<1>1. ASSUME NEW a \in Awards, LogAward(a) \/ Award(a), ~CreateRejected(a) PROVE Asked'
  BY <1>1 DEF LogAward, Award, CreditRead, CreditWrite, CreateCheck, CreateInsert
<1>2. ASSUME ProcessExit PROVE Asked'
  BY <1>2 DEF ProcessExit, InFlight
<1>3. ASSUME NEW w \in Withdrawals, WithdrawCheck(w) PROVE Asked'
  BY <1>3, ValuesAssumption DEF WithdrawCheck
<1>4. ASSUME NEW w \in Withdrawals, Withdraw(w) PROVE Asked'
  BY <1>4 DEF Withdraw, WithdrawLock, WithdrawReject, WithdrawCommit
<1>5. ASSUME NEW d \in Decisions, DecisionLoad(d) \/ Decide(d) PROVE Asked'
  BY <1>5 DEF DecisionLoad, Decide, MarkSent, RefundLock, DeclineCommit
<1>6. ASSUME NEW h \in Resets, ResetWipe(h) \/ Reset(h) PROVE Asked'
  BY <1>6 DEF ResetWipe, Reset, ResetRead, ResetCommit
<1>7. ASSUME UNCHANGED vars PROVE Asked'
  BY <1>7 DEF vars
<1>8. QED
  BY <1>1, <1>2, <1>3, <1>4, <1>5, <1>6, <1>7 DEF Next, Award, CreateRejected, Crash, Quiet

(* An award that is logged owes its value; it is paid when addXp ends. *)
LEMMA OwingStep == IInv /\ Owing /\ [Next]_vars => Owing'
<1> SUFFICES ASSUME IInv, Owing, [Next]_vars PROVE Owing'
  OBVIOUS
<1> USE HandlersDistinct, HandlerKinds DEF IInv, TypeOK, data, ghost, GoTo, End, Read
<1>a. ASSUME UNCHANGED <<xp, owed>>, \A a \in Awards : pc'[a] \in {"idle", "done"} => pc[a] \in {"idle", "done"}
      PROVE  Owing'
  BY <1>a DEF Owing
<1>b. ASSUME NEW a \in Awards, NEW v \in Nat, xp' = [xp EXCEPT ![a] = v],
             owed' = owed + v - xp[a],
             \A b \in Awards : b # a => pc'[b] = pc[b],
             pc'[a] \in {"idle", "done"} => v = 0
      PROVE  Owing'
  <2>1. Total(xp', Awards) = Total(xp, Awards) + v - xp[a] /\ Total(xp, Awards) \in Int
    <3>1. /\ \A b \in Awards : xp[b] \in Int /\ (b # a => xp'[b] = xp[b])
          /\ xp'[a] = v
      BY <1>b
    <3>2. QED BY <3>1, FewCalls, TotalChange
  <2>2. owed' = Total(xp', Awards)
    BY <1>b, <2>1 DEF Owing
  <2>3. \A b \in Awards : pc'[b] \in {"idle", "done"} => xp'[b] = 0
    BY <1>b DEF Owing
  <2>4. QED BY <2>2, <2>3 DEF Owing
<1>1. ASSUME NEW a \in Awards, LogAward(a) PROVE Owing'
  <2>1. PICK v \in XpValues : xp' = [xp EXCEPT ![a] = v] /\ owed' = owed + v
    BY <1>1 DEF LogAward
  <2>2. xp[a] = 0 /\ v \in Nat /\ owed' = owed + v - xp[a]
    BY <1>1, <2>1, ValuesAssumption DEF LogAward, Owing
  <2>3. QED BY <1>1, <1>b, <2>1, <2>2 DEF LogAward
<1>2. ASSUME NEW a \in Awards, CreditRead(a) \/ CreateCheck(a) PROVE Owing'
  BY <1>2, <1>a DEF CreditRead, CreateCheck
<1>3. ASSUME NEW a \in Awards, CreditWrite(a) \/ CreateInsert(a) PROVE Owing'
  <2>1. xp' = [xp EXCEPT ![a] = 0] /\ owed' = owed + 0 - xp[a]
    BY <1>3 DEF CreditWrite, CreateInsert
  <2>2. \A b \in Awards : b # a => pc'[b] = pc[b]
    BY <1>3 DEF CreditWrite, CreateInsert
  <2>3. QED BY <1>b, <2>1, <2>2
<1>4. ASSUME ProcessExit PROVE Owing'
  <2>1. owed' = 0 /\ \A a \in Awards : xp'[a] = 0
    BY <1>4 DEF ProcessExit
  <2>2. QED BY <2>1, FewCalls, TotalZero DEF Owing
<1>5. ASSUME NEW w \in Withdrawals, WithdrawCheck(w) \/ Withdraw(w) PROVE Owing'
  BY <1>5, <1>a DEF WithdrawCheck, Withdraw, WithdrawLock, WithdrawReject, WithdrawCommit
<1>6. ASSUME NEW d \in Decisions, DecisionLoad(d) \/ Decide(d) PROVE Owing'
  BY <1>6, <1>a DEF DecisionLoad, Decide, MarkSent, RefundLock, DeclineCommit
<1>7. ASSUME NEW h \in Resets, ResetWipe(h) \/ Reset(h) PROVE Owing'
  BY <1>7, <1>a DEF ResetWipe, Reset, ResetRead, ResetCommit
<1>8. ASSUME UNCHANGED vars PROVE Owing'
  BY <1>8, <1>a DEF vars
<1>9. QED
  BY <1>1, <1>2, <1>3, <1>4, <1>5, <1>6, <1>7, <1>8
     DEF Next, Award, CreateRejected, Crash, Quiet

(* The XP counted as owed by BooksAgree is exactly what the awards that are
   logged and not credited yet carry, and so never negative. *)
THEOREM OwedIsUnderWay == Spec => [](owed = SumOver(xp) /\ owed >= 0)
<1>1. Init => IInv /\ Asked /\ Owing
  BY InvInit, OwingInit
<1>2. IInv /\ Asked /\ Owing /\ [Next]_vars => IInv' /\ Asked' /\ Owing'
  BY InvStep, AskedStep, OwingStep
<1>3. IInv /\ Owing => owed = SumOver(xp) /\ owed >= 0
  <2> SUFFICES ASSUME IInv, Owing PROVE owed = SumOver(xp) /\ owed >= 0
    OBVIOUS
  <2>1. DOMAIN xp = Awards /\ \A a \in Awards : xp[a] \in Nat
    BY DEF IInv, TypeOK
  <2>2. SumOver(xp) = Total(xp, Awards)
    BY <2>1, SumIsTotal
  <2>3. Total(xp, Awards) \in Nat
    BY <2>1, FewCalls, TotalNat
  <2>4. QED BY <2>2, <2>3 DEF Owing
<1>4. QED BY <1>1, <1>2, <1>3, PTL DEF Spec
-----------------------------------------------------------------------------
(* The values LikeAWallet is about, and the invariants it rests on. *)
wallet == <<LogTotal, status, Held>>

WInv == IInv /\ Asked /\ Owing

LEMMA WInvInit == Init => WInv
BY InvInit, OwingInit DEF WInv

LEMMA WInvStep == WInv /\ [Next]_vars => WInv'
BY InvStep, AskedStep, OwingStep DEF WInv

(* While nothing is damaged, no record holds more than the log is worth. *)
LEMMA Worth ==
  ASSUME WInv, damage = {}
  PROVE  /\ LogTotal \in Int
         /\ \A r \in rows : bal[r] <= LogTotal
<1>1. LogTotal \in Int
  BY DEF WInv, IInv, TypeOK, LogTypes, LogTotal
<1>2. owed \in Nat
  BY FewCalls, TotalNat DEF WInv, IInv, TypeOK, Owing
<1>3. \A r \in rows : bal[r] \in Int /\ bal[r] = LogTotal - owed
  BY DEF WInv, IInv, TypeOK, BalanceExplained
<1>4. QED BY <1>1, <1>2, <1>3

(* A step that leaves the log and all requests as they are is a stutter, the
   amount of a request that is not there being of no account. *)
LEMMA StillStep ==
  ASSUME UNCHANGED <<log, status>>,
         \A w \in Withdrawals : status[w] = "none" \/ amount'[w] = amount[w]
  PROVE  UNCHANGED wallet
<1>1. Held' = Held
  BY DEF Held
<1>2. QED BY <1>1 DEF wallet, LogTotal

(* One step of each kind, as the wallet sees it. *)
LEMMA WalletStep ==
  ASSUME WInv, [Next]_vars, Unsettled, damage' = {}
  PROVE  Account!Next \/ UNCHANGED wallet
<1> USE HandlersDistinct, HandlerKinds DEF data, ghost, GoTo, End, Read
<1>a. IInv /\ TypeOK
  BY DEF WInv, IInv
<1>b. LogTotal = log["AWARD"] + log["AIRTIME_CONVERSION"] + log["AIRTIME_CONVERSION_REFUND"]
      /\ \A t \in LogTypes : log[t] \in Int
  BY <1>a DEF TypeOK, LogTotal
<1>1. ASSUME NEW a \in Awards, LogAward(a) PROVE Account!Earn
  <2>1. PICK v \in XpValues : log' = Add("AWARD", v)
    BY <1>1 DEF LogAward
  <2>2. v \in Nat /\ LogTotal' = LogTotal + v /\ LogTotal \in Int
    BY <1>a, <1>b, <2>1, ValuesAssumption DEF LogTotal, Add, LogTypes, TypeOK
  <2>3. Held' = Held /\ status' = status
    BY <1>1 DEF LogAward, Held
  <2>4. QED BY <2>2, <2>3 DEF Account!Earn
<1>2. ASSUME NEW a \in Awards, Award(a), ~CreateRejected(a) PROVE UNCHANGED wallet
  BY <1>2, StillStep DEF Award, CreditRead, CreditWrite, CreateCheck, CreateInsert
<1>3. ASSUME ProcessExit PROVE UNCHANGED wallet
  BY <1>3, <1>a, StillStep DEF ProcessExit, TypeOK
<1>4. ASSUME NEW w \in Withdrawals, WithdrawCheck(w) PROVE UNCHANGED wallet
  <2>1. status[w] = "none"
    BY <1>4, <1>a DEF WithdrawCheck, IInv, Fresh
  <2>2. QED BY <1>4, <1>a, <2>1, StillStep DEF WithdrawCheck, TypeOK
<1>5. ASSUME NEW w \in Withdrawals, WithdrawLock(w) \/ WithdrawReject(w)
      PROVE  UNCHANGED wallet
  <2>1. status[w] = "none"
    BY <1>5, <1>a DEF WithdrawLock, WithdrawReject, IInv, Fresh
  <2>2. QED BY <1>5, <1>a, <2>1, StillStep DEF WithdrawLock, WithdrawReject, TypeOK
<1>6. ASSUME NEW w \in Withdrawals, WithdrawCommit(w) PROVE Account!Ask(w)
  <2>1. status[w] = "none" /\ status' = [status EXCEPT ![w] = "PENDING"]
        /\ amount' = amount /\ damage = {}
    BY <1>6, <1>a DEF WithdrawCommit, IInv, Fresh
  <2>2. amount[w] \in Nat /\ amount[w] > 0
    BY <1>6, <1>a DEF WithdrawCommit, TypeOK, WInv, Asked
  <2>3. amount[w] <= LogTotal /\ LogTotal \in Int
    <3>1. tgt[w] \in rows /\ seen[w] = bal[tgt[w]] /\ amount[w] <= seen[w] /\ seen[w] \in Int
      BY <1>6, <1>a DEF WithdrawCommit, IInv, TypeOK, SnapshotUnderLock, Covered
    <3>2. QED BY <2>1, <2>2, <3>1, Worth
  <2>4. LogTotal' = LogTotal - amount[w]
    BY <1>6, <1>a, <1>b, <2>2 DEF WithdrawCommit, LogTotal, Add, LogTypes, TypeOK
  <2>5. Held' = [Held EXCEPT ![w] = amount[w]]
    BY <1>a, <2>1 DEF Held, TypeOK
  <2>6. amount[w] \in 1..LogTotal
    BY <2>2, <2>3
  <2>7. QED BY <2>1, <2>4, <2>5, <2>6 DEF Account!Ask
<1>7. ASSUME NEW d \in Decisions, DecisionLoad(d) \/ RefundLock(d) PROVE UNCHANGED wallet
  BY <1>7, StillStep DEF DecisionLoad, RefundLock
<1>8. ASSUME NEW d \in Decisions, MarkSent(d)
      PROVE  \E w \in Withdrawals : Account!Spend(w)
  <2>1. req[d] \in Withdrawals /\ status[req[d]] = "PENDING"
    BY <1>8, <1>a DEF MarkSent, IInv, Loaded, Unsettled
  <2>2. Held' = Held
    BY <1>8, <1>a, <2>1 DEF MarkSent, Held, TypeOK
  <2>3. LogTotal' = LogTotal /\ status' = [status EXCEPT ![req[d]] = "SENT"]
    BY <1>8 DEF MarkSent, LogTotal
  <2>4. QED BY <2>1, <2>2, <2>3 DEF Account!Spend
<1>9. ASSUME NEW d \in Decisions, DeclineCommit(d)
      PROVE  \E w \in Withdrawals : Account!GiveBack(w)
  <2>1. req[d] \in Withdrawals /\ status[req[d]] = "PENDING"
    BY <1>9, <1>a DEF DeclineCommit, IInv, Loaded, Unsettled
  <2>2. Held' = Held /\ Held[req[d]] = amount[req[d]] /\ amount[req[d]] \in Nat
    BY <1>9, <1>a, <2>1 DEF DeclineCommit, Held, TypeOK
  <2>3. LogTotal' = LogTotal + amount[req[d]]
    BY <1>9, <1>a, <1>b, <2>2 DEF DeclineCommit, LogTotal, Add, LogTypes, TypeOK
  <2>4. status' = [status EXCEPT ![req[d]] = "DECLINED"]
    BY <1>9 DEF DeclineCommit
  <2>5. QED BY <2>1, <2>2, <2>3, <2>4 DEF Account!GiveBack
<1>10. ASSUME NEW h \in Resets, ResetWipe(h) \/ ResetRead(h) PROVE UNCHANGED wallet
  BY <1>10, StillStep DEF ResetWipe, ResetRead
<1>11. ASSUME NEW h \in Resets, ResetCommit(h) PROVE Account!Empty
  <2>1. log = wiped /\ log' = [t \in LogTypes |-> log[t] - wiped[t]]
    BY <1>11 DEF ResetCommit
  <2>2. LogTotal' = 0
    BY <1>a, <1>b, <2>1 DEF LogTotal, LogTypes, TypeOK
  <2>3. Held' = Held /\ status' = status
    BY <1>11 DEF ResetCommit, Held
  <2>4. QED BY <2>2, <2>3 DEF Account!Empty
<1>12. ASSUME UNCHANGED vars PROVE UNCHANGED wallet
  BY <1>12, StillStep DEF vars
<1>13. QED
  BY <1>1, <1>2, <1>3, <1>4, <1>5, <1>6, <1>7, <1>8, <1>9, <1>10, <1>11, <1>12
     DEF Next, Award, CreateRejected, Crash, Withdraw, Decide, Reset, Quiet, Account!Next

(* Whatever calls run: but for the four ways to damage the books, and for
   decisions that overtake each other, every step of the ledger is a step of
   the wallet it is meant to be. *)
THEOREM StepsLikeAWallet == Spec => LikeAWallet
<1>1. WInv /\ [Next]_vars => [Unsettled /\ damage' = {} => [Account!Next]_<<LogTotal, status, Held>>]_vars
  BY WalletStep DEF wallet
<1>2. QED
  BY <1>1, WInvInit, WInvStep, PTL DEF Spec, LikeAWallet
-----------------------------------------------------------------------------
(* Two decisions on one request are not under way at once, nor two calls of
   create. *)
DecisionsApart   == \A d, e \in Decisions : req[d] # None /\ req[d] = req[e] => d = e
WithdrawalsApart == \A v, w \in Withdrawals : InFlight(v) /\ InFlight(w) => v = w

(* What is refunded has been declined, once. *)
Once ==
  \A w \in Withdrawals : refunds[w] <= 1 /\ (status[w] # "DECLINED" => refunds[w] = 0)

(* Decisions that take turns find the request as it was loaded. *)
LEMMA OnceStep ==
  ASSUME IInv, Unsettled, Once, DecisionsApart, [Next]_vars
  PROVE  Unsettled' /\ Once'
<1> USE HandlersDistinct, HandlerKinds DEF IInv, TypeOK, data, ghost, GoTo, End, Read
<1>a. ASSUME UNCHANGED <<status, req, refunds>> PROVE Unsettled' /\ Once'
  BY <1>a DEF Unsettled, Once
<1>1. ASSUME NEW a \in Awards, LogAward(a) \/ Award(a), ~CreateRejected(a)
      PROVE  Unsettled' /\ Once'
  BY <1>1, <1>a DEF LogAward, Award, CreditRead, CreditWrite, CreateCheck, CreateInsert
<1>2. ASSUME ProcessExit PROVE Unsettled' /\ Once'
  BY <1>2 DEF ProcessExit, Unsettled, Once
<1>3. ASSUME NEW w \in Withdrawals, WithdrawCheck(w) \/ WithdrawLock(w) \/ WithdrawReject(w)
      PROVE  Unsettled' /\ Once'
  BY <1>3, <1>a DEF WithdrawCheck, WithdrawLock, WithdrawReject
<1>4. ASSUME NEW w \in Withdrawals, WithdrawCommit(w) PROVE Unsettled' /\ Once'
  <2>1. status[w] = "none" /\ refunds[w] = 0
    BY <1>4 DEF WithdrawCommit, Fresh, SettlementMatchesRefunds
  <2>2. QED BY <1>4, <2>1 DEF WithdrawCommit, Unsettled, Once
<1>5. ASSUME NEW d \in Decisions, DecisionLoad(d) PROVE Unsettled' /\ Once'
  BY <1>5 DEF DecisionLoad, Unsettled, Once
<1>6. ASSUME NEW d \in Decisions, RefundLock(d) PROVE Unsettled' /\ Once'
  BY <1>6, <1>a DEF RefundLock
<1>7. ASSUME NEW d \in Decisions, MarkSent(d) \/ DeclineCommit(d)
      PROVE  Unsettled' /\ Once'
  <2>1. req[d] \in Withdrawals /\ req[d] # None /\ status[req[d]] = "PENDING"
    BY <1>7 DEF MarkSent, DeclineCommit, Loaded, Unsettled
  <2>2. /\ req' = [req EXCEPT ![d] = None]
        /\ \A w \in Withdrawals : w # req[d] => status'[w] = status[w]
    BY <1>7 DEF MarkSent, DeclineCommit
  <2>3. \A e \in Decisions : req'[e] # None => req[e] # req[d] /\ req'[e] = req[e]
    BY <2>1, <2>2 DEF DecisionsApart
  <2>4. Unsettled'
    BY <2>2, <2>3 DEF Unsettled
  <2>5. Once'
    BY <1>7, <2>1 DEF MarkSent, DeclineCommit, Once
  <2>6. QED BY <2>4, <2>5
<1>8. ASSUME NEW h \in Resets, ResetWipe(h) \/ Reset(h) PROVE Unsettled' /\ Once'
  BY <1>8, <1>a DEF ResetWipe, Reset, ResetRead, ResetCommit
<1>9. ASSUME UNCHANGED vars PROVE Unsettled' /\ Once'
  BY <1>9, <1>a DEF vars
<1>10. QED
  BY <1>1, <1>2, <1>3, <1>4, <1>5, <1>6, <1>7, <1>8, <1>9
     DEF Next, Award, CreateRejected, Crash, Withdraw, Decide, Quiet

(* Before the first decision nothing is settled. *)
LEMMA OnceInit == Init => Unsettled /\ Once
BY DEF Init, Unsettled, Once

(* What the code says of a request, that it is settled once (xp_settled_once
   shows that this fails), holds as soon as decisions on it take turns: the
   overlap of two decisions is the only cause, whatever else happens. *)
THEOREM SettledOnceInTurn == Spec /\ []DecisionsApart => []SettledOnce
<1>1. IInv /\ Unsettled /\ Once /\ DecisionsApart /\ [Next]_vars => Unsettled' /\ Once'
  BY OnceStep
<1>2. Once => SettledOnce
  BY DEF Once, SettledOnce
<1>3. QED BY <1>1, <1>2, OnceInit, Invariance, PTL DEF Spec

(* And then the ledger is a wallet for as long as nothing damages it. *)
THEOREM ImplementsWallet ==
  Spec /\ []DecisionsApart /\ [](damage = {}) => Account!Spec
<1>1. Init => Account!Init
  <2> SUFFICES ASSUME Init PROVE Account!Init
    OBVIOUS
  <2>1. LogTotal \in Int
    BY InvInit DEF IInv, TypeOK, LogTypes, LogTotal
  <2>2. Held = [w \in Withdrawals |-> 0]
    BY DEF Init, Held
  <2>3. QED BY <2>1, <2>2 DEF Init, Account!Init
<1>2. WInv /\ Unsettled /\ (damage = {})' /\ [Next]_vars =>
        [Account!Next]_<<LogTotal, status, Held>>
  BY WalletStep DEF wallet
<1>3. IInv /\ Unsettled /\ Once /\ DecisionsApart /\ [Next]_vars => Unsettled' /\ Once'
  BY OnceStep
<1>4. QED
  BY <1>1, <1>2, <1>3, OnceInit, WInvInit, WInvStep, Invariance, PTL DEF Spec, Account!Spec

(* A withdrawal between its check and its end is the only one, and saw no
   pending request. *)
Alone ==
  \A w \in Withdrawals : pc[w] \in {"checked", "locked"} =>
    \A v \in Withdrawals : status[v] # "PENDING"

(* Calls of create that take turns see each other's requests. *)
LEMMA AloneStep ==
  ASSUME IInv, Alone, OnePending, WithdrawalsApart, [Next]_vars
  PROVE  Alone' /\ OnePending'
<1> USE HandlersDistinct, HandlerKinds DEF IInv, TypeOK, data, ghost, GoTo, End, Read
<1>a. ASSUME \A w \in Withdrawals : status'[w] = "PENDING" => status[w] = "PENDING",
             \A w \in Withdrawals : pc'[w] \in {"checked", "locked"} => pc[w] \in {"checked", "locked"}
      PROVE  Alone' /\ OnePending'
  BY <1>a DEF Alone, OnePending
<1>1. ASSUME NEW a \in Awards, LogAward(a) \/ Award(a), ~CreateRejected(a)
      PROVE  Alone' /\ OnePending'
  BY <1>1, <1>a DEF LogAward, Award, CreditRead, CreditWrite, CreateCheck, CreateInsert
<1>2. ASSUME ProcessExit PROVE Alone' /\ OnePending'
  BY <1>2, <1>a DEF ProcessExit, InFlight
<1>3. ASSUME NEW w \in Withdrawals, WithdrawCheck(w) PROVE Alone' /\ OnePending'
  BY <1>3 DEF WithdrawCheck, Alone, OnePending
<1>4. ASSUME NEW w \in Withdrawals, WithdrawLock(w) \/ WithdrawReject(w)
      PROVE  Alone' /\ OnePending'
  BY <1>4, <1>a DEF WithdrawLock, WithdrawReject
<1>5. ASSUME NEW w \in Withdrawals, WithdrawCommit(w) PROVE Alone' /\ OnePending'
  <2>1. pc[w] = "locked" /\ InFlight(w) /\ \A v \in Withdrawals : status[v] # "PENDING"
    BY <1>5 DEF WithdrawCommit, InFlight, Alone
  <2>2. \A v \in Withdrawals : v # w => ~InFlight(v) /\ pc'[v] = pc[v] /\ status'[v] = status[v]
    BY <1>5, <2>1 DEF WithdrawCommit, WithdrawalsApart
  <2>3. pc'[w] = "done"
    BY <1>5 DEF WithdrawCommit
  <2>4. \A v \in Withdrawals : pc'[v] \notin {"checked", "locked"}
    BY <2>2, <2>3 DEF InFlight
  <2>5. QED BY <2>1, <2>2, <2>4 DEF Alone, OnePending
<1>6. ASSUME NEW d \in Decisions, DecisionLoad(d) \/ Decide(d) PROVE Alone' /\ OnePending'
  BY <1>6, <1>a DEF DecisionLoad, Decide, MarkSent, RefundLock, DeclineCommit
<1>7. ASSUME NEW h \in Resets, ResetWipe(h) \/ Reset(h) PROVE Alone' /\ OnePending'
  BY <1>7, <1>a DEF ResetWipe, Reset, ResetRead, ResetCommit
<1>8. ASSUME UNCHANGED vars PROVE Alone' /\ OnePending'
  BY <1>8, <1>a DEF vars
<1>9. QED
  BY <1>1, <1>2, <1>3, <1>4, <1>5, <1>6, <1>7, <1>8
     DEF Next, Award, CreateRejected, Crash, Withdraw, Quiet

(* What the code tells a student, that there is one pending request
   (xp_one_pending shows that this fails), holds as soon as calls of create
   take turns, whatever decisions, resets and crashes there are. *)
THEOREM OnePendingInTurn == Spec /\ []WithdrawalsApart => []OnePending
<1>1. Init => Alone /\ OnePending
  BY HandlerKinds DEF Init, Alone, OnePending
<1>2. IInv /\ Alone /\ OnePending /\ WithdrawalsApart /\ [Next]_vars => Alone' /\ OnePending'
  BY AloneStep
<1>3. QED BY <1>1, <1>2, Invariance, PTL DEF Spec
-----------------------------------------------------------------------------
(* What EveryCallEnds rests on besides fairness: no call goes back, and none
   waits for something that nobody will give. *)

(* The most steps that a call has before it. *)
StepsLeft(p) ==
  CASE p = "idle" -> 4
    [] p = "logged" -> 3
    [] p \in {"absent", "checked", "toDecline", "wiped"} -> 2
    [] p \in {"found", "creating", "locked", "toSend", "emptied"} -> 1
    [] p = "done" -> 0

Nearer(h) == StepsLeft(pc'[h]) < StepsLeft(pc[h])

(* Some call comes nearer to its end, and none gets further from it. *)
Advance ==
  /\ \A h \in Handlers : pc'[h] = pc[h] \/ Nearer(h)
  /\ \E h \in Handlers : Nearer(h)

(* What the next action of a call that has begun waits for: those that write a record
   wait for its row lock, those that read it FOR UPDATE for that of some row. *)
MayGoOn(h) ==
  \/ pc[h] \in {"logged", "absent", "creating", "toSend", "locked", "wiped"}
  \/ pc[h] \in {"found", "emptied"} /\ Unlocked(tgt[h])
  \/ pc[h] = "checked" /\ (rows = {} \/ \E r \in rows : Unlocked(r))
  \/ pc[h] = "toDecline" /\ \E r \in rows : Unlocked(r)

(* g holds a row lock that h needs, and is at its commit. *)
HeldUpBy(h, g) ==
  /\ pc[g] = "locked" /\ lock[tgt[g]] = g
  /\ pc[h] \in {"found", "emptied"} => tgt[h] = tgt[g]

(* Each kind of call has its own places. *)
Kinds ==
  /\ \A a \in Awards : pc[a] \in {"idle", "logged", "found", "absent", "creating", "done"}
  /\ \A w \in Withdrawals : pc[w] \in {"idle", "checked", "locked", "done"}
  /\ \A d \in Decisions : pc[d] \in {"idle", "toSend", "toDecline", "locked", "done"}
  /\ \A h \in Resets : pc[h] \in {"idle", "wiped", "emptied", "done"}

LEMMA KindsStep == IInv /\ Kinds /\ [Next]_vars => Kinds'
<1> SUFFICES ASSUME IInv, Kinds, [Next]_vars PROVE Kinds'
  OBVIOUS
<1> USE HandlersDistinct, HandlerKinds DEF IInv, TypeOK, Kinds, data, ghost, GoTo, End, Read
<1>1. ASSUME NEW a \in Awards, LogAward(a) \/ Award(a), ~CreateRejected(a) PROVE Kinds'
  BY <1>1 DEF LogAward, Award, CreditRead, CreditWrite, CreateCheck, CreateInsert
<1>2. ASSUME ProcessExit PROVE Kinds'
  BY <1>2 DEF ProcessExit
<1>3. ASSUME NEW w \in Withdrawals, WithdrawCheck(w) \/ Withdraw(w) PROVE Kinds'
  BY <1>3 DEF WithdrawCheck, Withdraw, WithdrawLock, WithdrawReject, WithdrawCommit
<1>4. ASSUME NEW d \in Decisions, DecisionLoad(d) \/ Decide(d) PROVE Kinds'
  BY <1>4 DEF DecisionLoad, Decide, MarkSent, RefundLock, DeclineCommit
<1>5. ASSUME NEW h \in Resets, ResetWipe(h) \/ Reset(h) PROVE Kinds'
  BY <1>5 DEF ResetWipe, Reset, ResetRead, ResetCommit
<1>6. ASSUME UNCHANGED vars PROVE Kinds'
  BY <1>6 DEF vars
<1>7. QED
  BY <1>1, <1>2, <1>3, <1>4, <1>5, <1>6 DEF Next, Award, CreateRejected, Crash, Quiet

(* Every step, of the process's end too, brings some call nearer to its end
   and takes none back: no call is restarted, retried or driven in circles. *)
THEOREM CallsAdvance == Spec => [][Advance]_vars
<1>1. IInv /\ [Next]_vars => [Advance]_vars
  <2> SUFFICES ASSUME IInv, Next PROVE [Advance]_vars
    OBVIOUS
  <2> USE HandlersDistinct, HandlerKinds
      DEF IInv, TypeOK, Places, data, ghost, GoTo, End, Read, StepsLeft, Nearer
  <2>a. ASSUME NEW h \in Handlers, Nearer(h), \A g \in Handlers : g # h => pc'[g] = pc[g]
        PROVE  Advance
    BY <2>a DEF Advance
  <2>1. ASSUME NEW a \in Awards, LogAward(a) \/ Award(a), ~CreateRejected(a) PROVE Advance
    <3>1. Nearer(a) /\ \A g \in Handlers : g # a => pc'[g] = pc[g]
      BY <2>1 DEF LogAward, Award, CreditRead, CreditWrite, CreateCheck, CreateInsert
    <3>2. QED BY <2>a, <3>1
  <2>2. ASSUME ProcessExit, \E h \in Handlers : InFlight(h) PROVE Advance
    <3>1. \A h \in Handlers : pc'[h] = pc[h] \/ Nearer(h)
      BY <2>2 DEF ProcessExit, InFlight
    <3>2. PICK h \in Handlers : InFlight(h)
      BY <2>2
    <3>3. pc'[h] # pc[h]
      BY <2>2, <3>2 DEF ProcessExit, InFlight
    <3>4. QED BY <3>1, <3>2, <3>3 DEF Advance
  <2>3. ASSUME NEW w \in Withdrawals, WithdrawCheck(w) \/ Withdraw(w) PROVE Advance
    <3>1. Nearer(w) /\ \A g \in Handlers : g # w => pc'[g] = pc[g]
      BY <2>3 DEF WithdrawCheck, Withdraw, WithdrawLock, WithdrawReject, WithdrawCommit
    <3>2. QED BY <2>a, <3>1
  <2>4. ASSUME NEW d \in Decisions, DecisionLoad(d) \/ Decide(d) PROVE Advance
    <3>1. Nearer(d) /\ \A g \in Handlers : g # d => pc'[g] = pc[g]
      BY <2>4 DEF DecisionLoad, Decide, MarkSent, RefundLock, DeclineCommit
    <3>2. QED BY <2>a, <3>1
  <2>5. ASSUME NEW h \in Resets, ResetWipe(h) \/ Reset(h) PROVE Advance
    <3>1. Nearer(h) /\ \A g \in Handlers : g # h => pc'[g] = pc[g]
      BY <2>5 DEF ResetWipe, Reset, ResetRead, ResetCommit
    <3>2. QED BY <2>a, <3>1
  <2>6. ASSUME NEW a \in Awards, CreateRejected(a) PROVE Advance
    BY <2>2, <2>6 DEF CreateRejected, InFlight
  <2>7. QED
    BY <2>1, <2>2, <2>3, <2>4, <2>5, <2>6 DEF Next, Award, Crash, Quiet
<1>2. QED BY <1>1, Invariance, PTL DEF Spec

(* Waits are never in a circle and never for nothing: a call under way can
   take its next step, or the row lock it needs is held by a call that is at
   its commit, which waits for nobody. *)
THEOREM NobodyStuck ==
  Spec => [](\A h \in Handlers : InFlight(h) =>
               MayGoOn(h) \/ \E g \in Handlers : HeldUpBy(h, g) /\ MayGoOn(g))
<1>1. ASSUME IInv, Kinds, NEW h \in Handlers, InFlight(h)
      PROVE  MayGoOn(h) \/ \E g \in Handlers : HeldUpBy(h, g) /\ MayGoOn(g)
  <2> USE <1>1, HandlerKinds DEF IInv, TypeOK, Places, InFlight
  <2>1. ASSUME NEW r \in Rows, ~Unlocked(r)
        PROVE  /\ lock[r] \in Handlers /\ pc[lock[r]] = "locked" /\ tgt[lock[r]] = r
               /\ lock[tgt[lock[r]]] = lock[r] /\ MayGoOn(lock[r])
    BY <2>1 DEF Unlocked, SnapshotUnderLock, MayGoOn
  <2>2. CASE pc[h] \in {"found", "emptied"}
    BY <2>1, <2>2 DEF MayGoOn, HeldUpBy
  <2>3. CASE pc[h] = "checked"
    BY <2>1, <2>3 DEF MayGoOn, HeldUpBy
  <2>4. CASE pc[h] = "toDecline"
    <3>1. h \in Decisions
      BY <2>4 DEF Kinds
    <3>2. rows # {}
      BY <2>4, <3>1 DEF Loaded, RequestHasRecord
    <3>3. QED BY <2>1, <2>4, <3>2 DEF MayGoOn, HeldUpBy
  <2>5. QED BY <2>2, <2>3, <2>4 DEF MayGoOn
<1>2. Init => Kinds
  BY HandlerKinds DEF Init, Kinds
<1>3. IInv /\ Kinds => \A h \in Handlers : InFlight(h) =>
        MayGoOn(h) \/ \E g \in Handlers : HeldUpBy(h, g) /\ MayGoOn(g)
  BY <1>1
<1>4. QED BY <1>2, <1>3, KindsStep, Invariance, PTL DEF Spec
=============================================================================
