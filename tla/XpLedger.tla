------------------------------ MODULE XpLedger ------------------------------
(***************************************************************************)
(* One student's XP: the balance row(s) in xp_records, the entries in      *)
(* xp_logs and the airtime withdrawal requests, with every handler of the  *)
(* server that touches them running concurrently.                          *)
(*                                                                         *)
(*   xp/services/xp-log.service.ts            award, reset                 *)
(*   xp/services/xp-records.service.ts        addXp, create, resetUserXp   *)
(*   xp-withdrawal/services/xp-withdrawal.service.ts   create, process     *)
(*                                                                         *)
(* Every query of these services is keyed by one userId, so the ledgers of *)
(* different students never meet and one student stands for all.           *)
(*                                                                         *)
(* A handler is one call.  It runs in steps, one per awaited database      *)
(* statement, and the steps of different handlers interleave.  Statements  *)
(* run under PostgreSQL's READ COMMITTED (no code sets an isolation level),*)
(* so a transaction's writes appear at its commit and SELECT ... FOR       *)
(* UPDATE waits for the row lock and then reads the newest version.        *)
(***************************************************************************)
EXTENDS Integers, Functions, FiniteSets

CONSTANTS
  Awards,       \* calls of XpLogService.create
  Withdrawals,  \* calls of XpWithdrawalService.create; also the request each creates
  Decisions,    \* calls of XpWithdrawalService.process
  Resets,       \* calls of XpLogService.resetUserXp
  XpValues,     \* values an award can carry
  Amounts,      \* values of dto.xpAmount
  Rate,         \* config.airtimeXpValuePerNaira
  Opening,      \* balances the student's record may hold at the start
  OpeningRow,   \* id of the record that exists at the start
  None          \* no holder, no request

Handlers == Awards \cup Withdrawals \cup Decisions \cup Resets

(* A record row is named after the award whose addXp inserted it. *)
Rows == Awards \cup {OpeningRow}

ASSUME HandlersDistinct ==
  /\ Awards \cap Withdrawals = {} /\ Awards \cap Decisions = {}
  /\ Awards \cap Resets = {} /\ Withdrawals \cap Decisions = {}
  /\ Withdrawals \cap Resets = {} /\ Decisions \cap Resets = {}
  /\ None \notin Handlers /\ OpeningRow \notin Awards

ASSUME ValuesAssumption ==
  /\ XpValues \subseteq Nat /\ Opening \subseteq Nat
  /\ Amounts \subseteq Nat \ {0}        \* CreateXpWithdrawalDto: @Min(1)
  /\ Rate \in Nat

(* A server has taken finitely many calls, and a table has finitely many rows. *)
ASSUME FewCalls == IsFiniteSet(Awards) /\ IsFiniteSet(Withdrawals)

VARIABLES
  rows,     \* record rows that exist (no unique index on xp_records.userId)
  bal,      \* currentXpValue of each row
  log,      \* SUM(xpValue) of the student's xp_logs, by xpType
  status,   \* status of each withdrawal request, "none" before it exists
  amount,   \* xpAmount of each withdrawal request or request under way
  lock,     \* the transaction that holds each row's FOR UPDATE lock
  pc,       \* where each handler is
  tgt,      \* the record instance a handler has read, and ...
  seen,     \* ... the currentXpValue it read there
  xp,       \* xpValue of each award under way
  req,      \* the request a decision has loaded
  wiped,    \* what a reset's DELETE FROM xp_logs removed, until it commits
  owed,     \* history: XP that is logged and whose addXp has not ended
  refunds,  \* history: refunds committed for each request
  damage    \* history: how the balance and the log were made to disagree

data  == <<rows, bal, log, status, amount, lock>>
local == <<pc, tgt, seen, xp, req, wiped>>
ghost == <<owed, refunds, damage>>
vars  == <<rows, bal, log, status, amount, lock, pc, tgt, seen, xp, req, wiped,
           owed, refunds, damage>>

LogTypes == {"AWARD", "AIRTIME_CONVERSION", "AIRTIME_CONVERSION_REFUND"}
Statuses == {"none", "PENDING", "SENT", "DECLINED"}
Places   == {"idle", "logged", "found", "absent", "creating", "checked",
             "toSend", "toDecline", "locked", "wiped", "emptied", "done"}
Damages  == {"stale_credit", "second_row", "lost_credit", "reset_overlap"}

(* getTotalXpByUserId: the sum over all of the student's log entries. *)
LogTotal == log["AWARD"] + log["AIRTIME_CONVERSION"] + log["AIRTIME_CONVERSION_REFUND"]

TypeOK ==
  /\ rows \subseteq Rows
  /\ bal \in [Rows -> Int]
  /\ log \in [LogTypes -> Int]
  /\ status \in [Withdrawals -> Statuses]
  /\ amount \in [Withdrawals -> Nat]
  /\ lock \in [Rows -> Handlers \cup {None}]
  /\ pc \in [Handlers -> Places]
  /\ tgt \in [Handlers -> Rows]
  /\ seen \in [Handlers -> Int]
  /\ xp \in [Awards -> Nat]
  /\ req \in [Decisions -> Withdrawals \cup {None}]
  /\ wiped \in [LogTypes -> Int]
  /\ owed \in Int
  /\ refunds \in [Withdrawals -> Nat]
  /\ damage \subseteq Damages

(* A student without a record and log, or with a settled opening balance. *)
Init ==
  /\ \/ /\ rows = {}
        /\ bal = [r \in Rows |-> 0]
        /\ log = [t \in LogTypes |-> 0]
     \/ \E b \in Opening :
          /\ rows = {OpeningRow}
          /\ bal = [r \in Rows |-> IF r = OpeningRow THEN b ELSE 0]
          /\ log = [t \in LogTypes |-> IF t = "AWARD" THEN b ELSE 0]
  /\ status = [w \in Withdrawals |-> "none"]
  /\ amount = [w \in Withdrawals |-> 0]
  /\ lock = [r \in Rows |-> None]
  /\ pc = [h \in Handlers |-> "idle"]
  /\ tgt = [h \in Handlers |-> OpeningRow]
  /\ seen = [h \in Handlers |-> 0]
  /\ xp = [a \in Awards |-> 0]
  /\ req = [d \in Decisions |-> None]
  /\ wiped = [t \in LogTypes |-> 0]
  /\ owed = 0
  /\ refunds = [w \in Withdrawals |-> 0]
  /\ damage = {}

(***************************************************************************)
(* Sequelize and PostgreSQL.                                               *)
(***************************************************************************)

(* instance.update writes the attributes that differ from what the instance *)
(* read, and leaves the others as the database has them.                    *)
Update(r, old, new) == IF new = old THEN bal ELSE [bal EXCEPT ![r] = new]

(* Handler h moves to p and keeps the record instance it has. *)
GoTo(h, p) == pc' = [pc EXCEPT ![h] = p] /\ UNCHANGED <<tgt, seen>>

(* findOne: any of the student's rows (the query has no ORDER BY). *)
Read(h, r, p) ==
  /\ r \in rows
  /\ pc' = [pc EXCEPT ![h] = p]
  /\ tgt' = [tgt EXCEPT ![h] = r]
  /\ seen' = [seen EXCEPT ![h] = bal[r]]

(* The call ends; its record instance is garbage. *)
End(h) ==
  /\ pc' = [pc EXCEPT ![h] = "done"]
  /\ tgt' = [tgt EXCEPT ![h] = OpeningRow]
  /\ seen' = [seen EXCEPT ![h] = 0]

Unlocked(r) == lock[r] = None

Add(t, v) == [log EXCEPT ![t] = @ + v]

InFlight(h) == pc[h] \notin {"idle", "done"}

(***************************************************************************)
(* Awards: XpLogService.create and the addXp it starts without awaiting.   *)
(***************************************************************************)

(* The log entry is inserted and addXp is started; the caller goes on. *)
LogAward(a) ==
  /\ pc[a] = "idle"
  /\ \E v \in XpValues :
       /\ log' = Add("AWARD", v)
       /\ xp' = [xp EXCEPT ![a] = v]
       /\ owed' = owed + v
  /\ GoTo(a, "logged")
  /\ UNCHANGED <<rows, bal, status, amount, lock, req, wiped, refunds, damage>>

(* addXp reads the record, without a lock. *)
CreditRead(a) ==
  /\ pc[a] = "logged"
  /\ \/ \E r \in rows : Read(a, r, "found")
     \/ rows = {} /\ GoTo(a, "absent")
  /\ UNCHANGED <<data, xp, req, wiped, ghost>>

(* addXp writes the value it read plus the award. *)
CreditWrite(a) ==
  /\ pc[a] = "found"
  /\ Unlocked(tgt[a])
  /\ bal' = Update(tgt[a], seen[a], seen[a] + xp[a])
  /\ owed' = owed - xp[a]
  /\ damage' = IF xp[a] = 0 \/ bal[tgt[a]] = seen[a] THEN damage
               ELSE damage \cup {"stale_credit"}
  /\ End(a)
  /\ xp' = [xp EXCEPT ![a] = 0]
  /\ UNCHANGED <<rows, log, status, amount, lock, req, wiped, refunds>>

(* create looks for a record again before it inserts one. *)
CreateCheck(a) ==
  /\ pc[a] = "absent"
  /\ rows = {}
  /\ GoTo(a, "creating")
  /\ UNCHANGED <<data, xp, req, wiped, ghost>>

CreateInsert(a) ==
  /\ pc[a] = "creating"
  /\ rows' = rows \cup {a}
  /\ bal' = [bal EXCEPT ![a] = xp[a]]
  /\ owed' = owed - xp[a]
  /\ damage' = IF rows = {} THEN damage ELSE damage \cup {"second_row"}
  /\ End(a)
  /\ xp' = [xp EXCEPT ![a] = 0]
  /\ UNCHANGED <<log, status, amount, lock, req, wiped, refunds>>

(***************************************************************************)
(* The process ends: every call in flight is lost, every transaction that  *)
(* has not committed is rolled back and its locks are released.            *)
(***************************************************************************)
ProcessExit ==
  /\ pc' = [h \in Handlers |-> IF InFlight(h) THEN "done" ELSE pc[h]]
  /\ tgt' = [h \in Handlers |-> OpeningRow]
  /\ seen' = [h \in Handlers |-> 0]
  /\ xp' = [a \in Awards |-> 0]
  /\ req' = [d \in Decisions |-> None]
  /\ wiped' = [t \in LogTypes |-> 0]
  /\ lock' = [r \in Rows |-> None]
  /\ amount' = [w \in Withdrawals |-> IF status[w] = "none" THEN 0 ELSE amount[w]]
  /\ owed' = 0
  /\ damage' = IF owed = 0 THEN damage ELSE damage \cup {"lost_credit"}
  /\ UNCHANGED <<rows, bal, log, status, refunds>>

(* A crash, a restart by pm2's memory limit, or the end of a deployment. *)
Crash == (\E h \in Handlers : InFlight(h)) /\ ProcessExit

(* create finds that a record has appeared and throws.  Nothing awaits     *)
(* addXp and nothing handles an unhandled rejection, so Node ends the      *)
(* process.                                                                *)
CreateRejected(a) ==
  /\ pc[a] = "absent"
  /\ rows # {}
  /\ ProcessExit

(***************************************************************************)
(* Withdrawals: XpWithdrawalService.create.                                *)
(***************************************************************************)

(* The amount is worth some airtime and the transaction's first query sees *)
(* no pending request of the student.                                      *)
WithdrawCheck(w) ==
  /\ pc[w] = "idle"
  /\ \E n \in Amounts :
       IF Rate > 0 /\ n \div Rate > 0 /\ \A v \in Withdrawals : status[v] # "PENDING"
       THEN GoTo(w, "checked") /\ amount' = [amount EXCEPT ![w] = n]
       ELSE End(w) /\ UNCHANGED amount
  /\ UNCHANGED <<rows, bal, log, status, lock, xp, req, wiped, ghost>>

(* Mutant: the balance is read without a row lock. *)
WithdrawLockWithoutLock(w) ==
  /\ pc[w] = "checked"
  /\ \E r \in rows : bal[r] >= amount[w] /\ Read(w, r, "locked")
  /\ UNCHANGED <<data, xp, req, wiped, ghost>>

(* Mutant: the balance is not compared with the amount. *)
WithdrawLockUnchecked(w) ==
  /\ pc[w] = "checked"
  /\ \E r \in rows :
       /\ Unlocked(r)
       /\ Read(w, r, "locked")
       /\ lock' = [lock EXCEPT ![r] = w]
  /\ UNCHANGED <<rows, bal, log, status, amount, xp, req, wiped, ghost>>

(* SELECT ... FOR UPDATE of the record, and the balance check. *)
WithdrawLock(w) ==
  /\ pc[w] = "checked"
  /\ \E r \in rows :
       /\ Unlocked(r)
       /\ bal[r] >= amount[w]
       /\ Read(w, r, "locked")
       /\ lock' = [lock EXCEPT ![r] = w]
  /\ UNCHANGED <<rows, bal, log, status, amount, xp, req, wiped, ghost>>

(* Mutant: the rejection leaves its transaction open. *)
WithdrawRejectKeepsLock(w) ==
  /\ pc[w] = "checked"
  /\ \E r \in rows :
       Unlocked(r) /\ bal[r] < amount[w] /\ lock' = [lock EXCEPT ![r] = w]
  /\ amount' = [amount EXCEPT ![w] = 0]
  /\ End(w)
  /\ UNCHANGED <<rows, bal, log, status, xp, req, wiped, ghost>>

(* Insufficient balance or no record: the transaction rolls back. *)
WithdrawReject(w) ==
  /\ pc[w] = "checked"
  /\ rows = {} \/ \E r \in rows : Unlocked(r) /\ bal[r] < amount[w]
  /\ amount' = [amount EXCEPT ![w] = 0]
  /\ End(w)
  /\ UNCHANGED <<rows, bal, log, status, lock, xp, req, wiped, ghost>>

(* Mutant: the debit is logged with the wrong sign. *)
WithdrawCommitWrongSign(w) ==
  /\ pc[w] = "locked"
  /\ bal' = Update(tgt[w], seen[w], seen[w] - amount[w])
  /\ log' = Add("AIRTIME_CONVERSION", amount[w])
  /\ status' = [status EXCEPT ![w] = "PENDING"]
  /\ lock' = [lock EXCEPT ![tgt[w]] = None]
  /\ End(w)
  /\ UNCHANGED <<rows, amount, xp, req, wiped, ghost>>

(* Debit, log entry and request commit together. *)
WithdrawCommit(w) ==
  /\ pc[w] = "locked"
  /\ bal' = Update(tgt[w], seen[w], seen[w] - amount[w])
  /\ log' = Add("AIRTIME_CONVERSION", 0 - amount[w])
  /\ status' = [status EXCEPT ![w] = "PENDING"]
  /\ lock' = [lock EXCEPT ![tgt[w]] = None]
  /\ End(w)
  /\ UNCHANGED <<rows, amount, xp, req, wiped, ghost>>

(***************************************************************************)
(* Decisions: XpWithdrawalService.process.                                 *)
(***************************************************************************)

(* findByPk, outside any transaction and without a lock; only a PENDING    *)
(* request goes on, with the verdict the admin sent.                       *)
DecisionLoad(d) ==
  /\ pc[d] = "idle"
  /\ \E w \in Withdrawals :
       /\ status[w] # "none"
       /\ IF status[w] # "PENDING"
          THEN End(d) /\ UNCHANGED req
          ELSE /\ \E p \in {"toSend", "toDecline"} : GoTo(d, p)
               /\ req' = [req EXCEPT ![d] = w]
  /\ UNCHANGED <<data, xp, wiped, ghost>>

(* Mutant: the status is not one of the enum; the column is a plain string. *)
MarkSentOutsideEnum(d) ==
  /\ pc[d] = "toSend"
  /\ status' = [status EXCEPT ![req[d]] = "APPROVED"]
  /\ End(d)
  /\ req' = [req EXCEPT ![d] = None]
  /\ UNCHANGED <<rows, bal, log, amount, lock, xp, wiped, ghost>>

(* SENT: UPDATE ... WHERE id, whatever the status is by now. *)
MarkSent(d) ==
  /\ pc[d] = "toSend"
  /\ status' = [status EXCEPT ![req[d]] = "SENT"]
  /\ End(d)
  /\ req' = [req EXCEPT ![d] = None]
  /\ UNCHANGED <<rows, bal, log, amount, lock, xp, wiped, ghost>>

(* DECLINED: refundXp locks the record.  Its branch for a missing record is *)
(* dead: a request implies a record (RequestHasRecord below, which is       *)
(* proved).                                                                 *)
RefundLock(d) ==
  /\ pc[d] = "toDecline"
  /\ \E r \in rows :
       /\ Unlocked(r)
       /\ Read(d, r, "locked")
       /\ lock' = [lock EXCEPT ![r] = d]
  /\ UNCHANGED <<rows, bal, log, status, amount, xp, req, wiped, ghost>>

(* Mutant: the refund commits and the status is not written with it. *)
DeclineCommitWithoutStatus(d) ==
  /\ pc[d] = "locked"
  /\ bal' = Update(tgt[d], seen[d], seen[d] + amount[req[d]])
  /\ log' = Add("AIRTIME_CONVERSION_REFUND", amount[req[d]])
  /\ refunds' = [refunds EXCEPT ![req[d]] = @ + 1]
  /\ lock' = [lock EXCEPT ![tgt[d]] = None]
  /\ End(d)
  /\ req' = [req EXCEPT ![d] = None]
  /\ UNCHANGED <<rows, status, amount, xp, wiped, owed, damage>>

(* Refund, log entry and status commit together. *)
DeclineCommit(d) ==
  /\ pc[d] = "locked"
  /\ bal' = Update(tgt[d], seen[d], seen[d] + amount[req[d]])
  /\ log' = Add("AIRTIME_CONVERSION_REFUND", amount[req[d]])
  /\ status' = [status EXCEPT ![req[d]] = "DECLINED"]
  /\ refunds' = [refunds EXCEPT ![req[d]] = @ + 1]
  /\ lock' = [lock EXCEPT ![tgt[d]] = None]
  /\ End(d)
  /\ req' = [req EXCEPT ![d] = None]
  /\ UNCHANGED <<rows, amount, xp, wiped, owed, damage>>

(***************************************************************************)
(* Resets: XpLogService.resetUserXp, one at a time: a second one waits on   *)
(* the locks of the entries the first one's DELETE took.  (Not modelled:   *)
(* it does not wait when the log was empty.)                               *)
(***************************************************************************)

(* DELETE FROM xp_logs takes the entries that are committed now. *)
ResetWipe(h) ==
  /\ pc[h] = "idle"
  /\ \A g \in Resets : ~InFlight(g)
  /\ wiped' = log
  /\ GoTo(h, "wiped")
  /\ UNCHANGED <<data, xp, req, ghost>>

(* resetUserXp reads the record, without a lock. *)
ResetRead(h) ==
  /\ pc[h] = "wiped"
  /\ \/ \E r \in rows : Read(h, r, "emptied")
     \/ rows = {} /\ GoTo(h, "emptied")
  /\ UNCHANGED <<data, xp, req, wiped, ghost>>

(* Mutant: the DELETE takes the entries of awards only. *)
ResetCommitKeepsConversions(h) ==
  /\ pc[h] = "emptied"
  /\ Unlocked(tgt[h])
  /\ bal' = IF tgt[h] \in rows THEN Update(tgt[h], seen[h], 0) ELSE bal
  /\ log' = [log EXCEPT !["AWARD"] = @ - wiped["AWARD"]]
  /\ damage' = IF /\ owed = 0 /\ log = wiped
                  /\ IF tgt[h] \in rows THEN bal[tgt[h]] = seen[h] ELSE rows = {}
               THEN damage ELSE damage \cup {"reset_overlap"}
  /\ End(h)
  /\ wiped' = [t \in LogTypes |-> 0]
  /\ UNCHANGED <<rows, status, amount, lock, xp, req, owed, refunds>>

(* The record it read, if any, is set to 0 and the transaction commits. *)
ResetCommit(h) ==
  /\ pc[h] = "emptied"
  /\ Unlocked(tgt[h])
  /\ bal' = IF tgt[h] \in rows THEN Update(tgt[h], seen[h], 0) ELSE bal
  /\ log' = [t \in LogTypes |-> log[t] - wiped[t]]
  /\ damage' = IF /\ owed = 0 /\ log = wiped
                  /\ IF tgt[h] \in rows THEN bal[tgt[h]] = seen[h] ELSE rows = {}
               THEN damage ELSE damage \cup {"reset_overlap"}
  /\ End(h)
  /\ wiped' = [t \in LogTypes |-> 0]
  /\ UNCHANGED <<rows, status, amount, lock, xp, req, owed, refunds>>

-----------------------------------------------------------------------------

(* The server waits for the next call. *)
Quiet ==
  /\ \A h \in Handlers : ~InFlight(h)
  /\ UNCHANGED vars

Award(a)    == \/ CreditRead(a) \/ CreditWrite(a)
               \/ CreateCheck(a) \/ CreateInsert(a) \/ CreateRejected(a)
Withdraw(w) == WithdrawLock(w) \/ WithdrawReject(w) \/ WithdrawCommit(w)
Decide(d)   == MarkSent(d) \/ RefundLock(d) \/ DeclineCommit(d)
Reset(h)    == ResetRead(h) \/ ResetCommit(h)

Next ==
  \/ \E a \in Awards : LogAward(a) \/ Award(a)
  \/ \E w \in Withdrawals : WithdrawCheck(w) \/ Withdraw(w)
  \/ \E d \in Decisions : DecisionLoad(d) \/ Decide(d)
  \/ \E h \in Resets : ResetWipe(h) \/ Reset(h)
  \/ Crash
  \/ Quiet

(* Calls arrive when they like, but a call that has started is driven on   *)
(* by the event loop and the database answers it.                          *)
Fairness ==
  /\ \A a \in Awards : WF_vars(Award(a))
  /\ \A w \in Withdrawals : WF_vars(Withdraw(w))
  /\ \A d \in Decisions : WF_vars(Decide(d))
  /\ \A h \in Resets : WF_vars(Reset(h))

Spec == Init /\ [][Next]_vars
FairSpec == Spec /\ Fairness
-----------------------------------------------------------------------------

(***************************************************************************)
(* Properties.                                                             *)
(***************************************************************************)

(* XP is never overdrawn: however awards, withdrawals, refunds and resets  *)
(* interleave, no record goes below 0 (the check under the row lock in     *)
(* XpWithdrawalService.create is enough).                                  *)
BalanceNeverNegative == \A r \in rows : bal[r] >= 0

(* A transaction that read the record FOR UPDATE commits on top of what it *)
(* read: until then it is the only one that holds that row and nobody, not *)
(* even the unlocked addXp, changes the balance under it.                  *)
SnapshotUnderLock ==
  /\ \A h \in Handlers : pc[h] = "locked" =>
       tgt[h] \in rows /\ lock[tgt[h]] = h /\ seen[h] = bal[tgt[h]]
  /\ \A r \in Rows : lock[r] # None => pc[lock[r]] = "locked" /\ tgt[lock[r]] = r

(* The two books agree: the balance is the sum of the log less the credits *)
(* still under way, unless one of exactly four things has happened: addXp  *)
(* overwrote a change made since it read, a second record was inserted, a  *)
(* credit died with the process, or a reset overlapped another change.     *)
(* Withdrawals and refunds by themselves never make them disagree.         *)
BalanceExplained ==
  damage = {} =>
    /\ \A r, s \in rows : r = s
    /\ \A r \in rows : bal[r] = LogTotal - owed
    /\ rows = {} => LogTotal = owed

(* process refunds exactly with the decline: no request that waits has     *)
(* been refunded and every declined one has, even when decisions on it     *)
(* race or the process dies between the steps.                             *)
SettlementMatchesRefunds ==
  \A w \in Withdrawals :
    /\ status[w] \in {"none", "PENDING"} => refunds[w] = 0
    /\ status[w] = "DECLINED" => refunds[w] > 0

(* A request, and so a decision on one, implies a record: refundXp always  *)
(* finds the row to credit and never has to insert one.  (Were it not so,  *)
(* RefundLock could wait for ever, against EveryCallEnds.)                 *)
RequestHasRecord ==
  /\ (\E w \in Withdrawals : status[w] # "none") => rows # {}
  /\ \A d \in Decisions : InFlight(d) =>
       req[d] \in Withdrawals /\ status[req[d]] # "none"

SumOver(f) == FoldFunction(+, 0, f)

(* What each request has taken out of the balance. *)
Held == [w \in Withdrawals |-> IF status[w] = "none" THEN 0 ELSE amount[w]]

(* While no reset has run, the log's debits are the amounts of all requests *)
(* and its refunds those of all declines committed: no request without its  *)
(* escrow entry, no entry without its request.                              *)
EscrowInLog ==
  (\A h \in Resets : pc[h] # "done") =>
    /\ log["AIRTIME_CONVERSION"] = 0 - SumOver(Held)
    /\ log["AIRTIME_CONVERSION_REFUND"] =
         SumOver([w \in Withdrawals |-> refunds[w] * amount[w]])

Account == INSTANCE Wallet WITH worth <- LogTotal, state <- status, held <- Held

(* No decision holds a request that another one has settled meanwhile. *)
Unsettled == \A d \in Decisions : req[d] # None => status[req[d]] = "PENDING"

(* However calls interleave, the log is a wallet's: what a step does to it *)
(* and to the requests is to earn, to ask for no more than there is, to    *)
(* spend or give back a pending request, or to empty it.  Excepted are     *)
(* only the ways to damage named above, and decisions that overtake each   *)
(* other.                                                                  *)
LikeAWallet ==
  [][Unsettled /\ damage' = {} => [Account!Next]_<<LogTotal, status, Held>>]_vars

(* Every call that has started ends: row locks are always given back and   *)
(* no cycle of waits forms between withdrawals, refunds, credits, resets.  *)
EveryCallEnds == \A h \in Handlers : InFlight(h) ~> ~InFlight(h)

(* "Request has already been sent/declined" (xp-withdrawal.service.ts:168): *)
(* a request is settled once, so it is refunded at most once, and never     *)
(* when the airtime went out.                                               *)
SettledOnce ==
  \A w \in Withdrawals : refunds[w] <= 1 /\ (status[w] = "SENT" => refunds[w] = 0)

(* "You already have a pending withdrawal request"                         *)
(* (xp-withdrawal.service.ts:69): a student has one pending request.       *)
OnePending ==
  \A v, w \in Withdrawals : status[v] = "PENDING" /\ status[w] = "PENDING" => v = w
=============================================================================
