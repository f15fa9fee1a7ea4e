# A TLA+ model of the GLEEN backend

GLEEN is a NestJS server (TypeScript, Sequelize over PostgreSQL, one Node.js
process under pm2) for a learning app: lessons, quizzes, mock exams and battles
that earn XP, XP that can be turned into airtime, paid subscriptions, live
classes in video rooms, study crews, notifications. This directory specifies
the parts of it where several requests, the database and outside services have
to agree, checks them with TLC and proves theorems about them with TLAPS.
Paths below are relative to the repository's `src/`.

## 1. Inventory

Almost all state is in PostgreSQL rows; a request handler is an `async`
function whose database statements and HTTP calls are separated by `await`, so
handlers of different requests interleave between any two statements even
though there is one process. Transactions are used in the withdrawal service,
the XP reset and the streak configuration; everything else is a sequence of
single statements. No isolation level is set (READ COMMITTED). There is no
handler for unhandled rejections, so a rejected promise nobody awaits ends the
process; pm2 restarts it (`ecosystem.config.js`: one instance, memory limit),
and deployments replace it.

| component | state | operations | what is hard | what makes it correct |
|---|---|---|---|---|
| XP ledger (`xp/`) | `xp_records` (balance), `xp_logs` (entries) | award (`XpLogService.create`, `addXp`), reset | two books for one amount; un-awaited credit; no lock in `addXp`; no unique index on the record | the balance is the sum of the log; never negative |
| Withdrawals (`xp-withdrawal/`) | requests, plus both books | create (escrow), process (SENT / DECLINED with refund) | row locks beside unlocked writers; decisions that race; crash between statements | no overdraft; a request is settled once; refund exactly with the decline |
| Payments (`payment-gateway-notifications/`) | `subscription_transactions`, the gateway's checkouts | initialize, confirm, webhook | idempotency keys under retries; verdicts out of order; webhooks repeated or acknowledged and lost | one charge per key; PAID only for money; settled once; every charge is honoured |
| Plans and listings (`subscription/`) | `subscriptions` | CRUD, listings | expiry fixed at initialize | active = PAID and not expired |
| Quizzes (`lesson/`) | records, answers, statistics | start or restart, answer, complete | check-then-act on `endedAt`; statistics written late; award after completion | one award per completion; statistics describe the attempt |
| Subjects (`subject/`) | subjects, links, pictures at the image service | create, update, remove, link | picture deleted before the row is saved; a removal that reads ids first | a subject shown has its picture; a removal takes what is the subject's |
| Lessons (`lesson/`) | lessons, tracking rows | create, update, remove, track, complete | award before the row is saved | one award per lesson |
| Mock exams (`mock-exam/`) | records, answers | as quizzes | as quizzes | as quizzes |
| Battles (`v1-battle/`) | records, answers, invitations | create and invite, answer, complete | every answer ends the record; the invitation's foreign key | a completed battle is awarded |
| XP configuration (`xp/`) | one configuration row, milestones | defaults, multipliers | create after check | one configuration |
| Classes (`classes/`) | classes, enrolments, attendance, recordings, provider rooms | create, enrol, join, attend, webhook, clean-up | arrays saved whole; provider calls between statements; repeated webhooks | no enrolment lost; no orphan room |
| Rooms (`rooms/`) | rooms, provider rooms | create, purge, remove | compensation when a step fails | a provider room has a row |
| Study crews (`study-crew/`) | memberships, chats | link, status, chat, read | counter saved whole; one reader counts twice | READ means half have read |
| Messages, notifications, push | recipients, read flags, device tokens | send, mark read, register, prune | two statements; insert races; pruning against registration | nobody is lost, one row per recipient |
| Authentication (`auth/`) | one-time codes, logins | generate, verify, reset | expiry, reuse | a code works once |
| Users, goals, support, FAQ, states, metrics, email, uploads | rows | CRUD, listings, I/O | little | - |

Interactions: quizzes, mock exams, battles and lessons all end in
`XpLogService.create`; withdrawals read and write the same record and log;
classes, withdrawals and messages end in `PushService`; payments are read by
the subscription listings.

## 2. Plan

In this order, the most important state first (money, then XP, then what is
shared by many requests):

1. `Wallet`, `XpLedger` with `SumLemmas` and `XpLedgerProofs` - done.
2. `Settlement`, `Payments` with `PaymentsProofs` - done.
3. `WeeklyAttempts`, `Attempts` with `AttemptsProofs`: start, restart, answer, complete and award
   of a quiz or a mock exam. Its last step, `FinishAward`, is the first of an
   award in `XpLedger` (`LogAward`). Done; the PUT and DELETE routes are left.
4. `VideoRooms`, `Classes` with `ClassesProofs` and `ClassRoomsProofs`: two
   services over one external video provider - done.
5. `Subjects`, `Lessons` with `LessonsProofs`: pictures, tracking and award, and
   the removal of a subject with all that it has - done.
6. `Requests`, `Crews`, `Notices`, `Devices`, `Community` with
   `CommunityProofs`: crews and the read count of their chat; tutor messages,
   invitations to battles and `markAsRead`; device tokens, settings and the
   pruning of invalid tokens - done.
7. Left: pure functions: the XP multiplier, score buckets, ISO week start.

Every safety property of the passing runs, invariant or of steps, is proved.
With TLC stay the two liveness properties, whose safety cores are proved.

## 3. Modules

| module | what it is |
|---|---|
| `Wallet` | what the XP ledger promises: XP is earned, asked for, and then spent or given back once |
| `XpLedger` | one student's balance, log and withdrawal requests, and every handler that touches them |
| `MCXpLedger`, `XpLedgerSafety.cfg`, `XpLedgerLiveness.cfg`, `XpSettledOnce.cfg`, `XpOnePending.cfg` | its runs |
| `SumLemmas` | lemmas about the sum of a function's values: its type, one term taken out, one term changed |
| `XpLedgerProofs` | its inductive invariant, theorems, and the refinement of `Wallet` |
| `Settlement` | what the payments service promises: one transaction per purchase, settled once |
| `Payments` | the payments service and the gateway |
| `MCPayments`, `PaymentsSafety.cfg`, `PaymentsPromise.cfg`, `PaymentsSettledForGood.cfg` | its runs |
| `PaymentsProofs` | its inductive invariant, theorems, and the refinement of `Settlement` |
| `WeeklyAttempts` | what records of quizzes and exams promise: one attempt after another, each completed and awarded once |
| `Attempts` | one student's weekly records, answers, statistics and completions at one quiz or exam |
| `MCAttempts`, `AttemptsSafety.cfg`, `AttemptsAwardedOnce.cfg` | its runs |
| `AttemptsProofs` | its inductive invariants, theorems, and the refinement of `WeeklyAttempts` |
| `VideoRooms` | the provider's rooms and the rooms table: make, drop, purge |
| `Classes` | the classes and private lessons, composed with `VideoRooms` |
| `MCClasses`, `ClassesSafety.cfg` | their run |
| `ClassesProofs` | types, lists and seats, and rooms with their rows: inductive invariants and theorems |
| `ClassRoomsProofs` | the rooms of classes, which are in use, swept and joined: inductive invariants and theorems |
| `Subjects` | the subjects, their pictures, a student's links |
| `Lessons` | the lessons, one student's tracking of them and the removal of a subject, composed with `Subjects` |
| `MCLessons`, `LessonsSafety.cfg` | their run |
| `LessonsProofs` | their inductive invariant and theorems |
| `Requests` | the calls of the three modules below: their places, and the users they serve |
| `Crews` | a study crew, its members, and a message with its read count |
| `Notices` | tutors' messages, invitations to battles, and who has read them |
| `Devices` | device tokens, push settings, and sending with pruning |
| `Community` | the composition of the three |
| `MCCommunity`, `CommunitySafety.cfg` | its run |
| `CommunityProofs` | its inductive invariant and theorems |

### XpLedger

Every query of these services is keyed by one `userId`, so one student stands
for all. A handler has a place `pc`; each step is one awaited statement.
`tgt`/`seen` are the record instance a handler holds: the row, and the value of
`currentXpValue` it was read with. Sequelize's `instance.update` writes only
what differs from the instance (`Update`).

* `LogAward`, `CreditRead`, `CreditWrite`, `CreateCheck`, `CreateInsert`,
  `CreateRejected`: `XpLogService.create` inserts the entry and starts `addXp`
  without awaiting it; `addXp` reads the record and writes read value plus
  award, or creates the record. `create` looks again and throws if a record
  has appeared: the rejection is unhandled, and the process ends.
* `WithdrawCheck`, `WithdrawLock`, `WithdrawReject`, `WithdrawCommit`: the
  transaction of `create`: rate, pending check, `SELECT ... FOR UPDATE`, balance
  check, then the three writes, which appear together at the commit.
* `DecisionLoad`, `MarkSent`, `RefundLock`, `DeclineCommit`: `process`.
* `ResetWipe`, `ResetRead`, `ResetCommit`: the admin reset.
* `ProcessExit`: all calls in flight are lost, open transactions roll back.

`owed`, `refunds` and `damage` are history variables; no guard reads them.
`damage` names the four ways in which the two books part: a stale credit, a
second record, a credit lost with the process, a reset that overlaps another
change. `BalanceExplained` says that these are all: as long as none has
happened the balance *is* the log's sum less the credits under way. Withdrawals
and refunds alone never make the books disagree.

`LikeAWallet` maps the ledger to `Wallet`: the worth is the log's sum, and a
request holds its amount once it is committed (`Held`). Each statement must then
be a step of the wallet, or change none of this, unless the books are damaged or
a decision holds a request that another one has settled (`Unsettled`). So a
request takes out no more than there is, though `create` compares the amount with
the balance, and not with the log that the wallet is mapped to.

### Payments

One user. `Calls` are calls of `initialize`, and the gateway's reference for a
call is named after it. `row` is the transaction row, `gw` the checkout at the
gateway, `out` what the call returned (with the URL, without which the customer
cannot pay). `conf` and `hook` are confirm calls and webhook deliveries under
way; each may be repeated for ever. A delivery is answered with 200 when its
row is not PENDING, and after its save; until then the gateway delivers it
again, and it may do so afterwards too.

The gateway is external. `MayRetry` says whether a checkout that it has
reported failed can still be paid. The code treats both "failed" and
"abandoned" as FAILED (`paystack.gateway.ts:138`).

### Attempts

The quiz services and the mock exam services are the same code, statement for
statement, but for one test in `create`; `kind` says which is meant. Any call
may be of any role. A record is a week's row: `attempt` (0 for no row) numbers
its restarts, which the code does not, `ended` says whether `endedAt` is set,
`stats` holds the statistics columns and `answers` the rows of the answers.

* `StartFind`, `StartCreate`, `StartClear`, `StartReset`: `create` looks for
  this week's record; it inserts one (a unique index lets one of two calls
  pass), returns a quiz in progress as it is, or deletes the answers and sets
  `endedAt` and the statistics to null. What it inserts is what the client sent:
  the DTO has an optional `endedAt` and optional statistics, so that a record may
  be there with its attempt over, and no completion. `born` remembers what was
  inserted; `Sent` are the statistics that clients send.
* `ReplyInsert`, `ReplyTally`, `ReplyFind`, `ReplySave`: an answer is inserted,
  all answers of the student to the quiz are counted, the record of the week it
  is by then is looked up, and the count is written into it. `findOrCreate`
  cannot create here: the model's hook `setUserId` throws without a `userId`
  among the options (`quiz-record.model.ts:152`).
* `FinishRead`, `FinishScore`, `FinishEnd`, `FinishAward`: `updateCompleted`.
* `Fail`: a statement throws, or the process ends, in mid-call. `WeekTurns`.

`instance.update` writes the columns whose new value differs from what the
instance read (`Updated`, and `StartReset` for `endedAt`): this is why a mock
exam that is restarted while it is being completed stays ended.

Nothing in these services is locked or in a transaction, so most guarantees hold
until certain calls overlap. `overlap` is a history variable (as are `born`,
`claim` and `paid`, which no guard reads) that records which roles have met in flight, and
each property names the one meeting that breaks it, and no other: two
completions for the award; two starts for the answers of a quiz in progress; a
start and a completion for the score and, in mock exams only, for the ended
attempt; two answers, two starts, or one of each, for the statistics. That
completions and answers may meet as they like is part of each claim.
`WeeklyInTurn` maps the whole to `WeeklyAttempts`: `attempt` and `ended` as they
are, what has been completed from `claim`, what has been awarded from `paid`,
with the number of entries in the log, so that a second award for an attempt
would not pass for none. Its action `Record` is the insertion of an attempt that
is over. Each meeting it excepts (`InTurn`) is needed: TLC finds
a counterexample without any of them.

### VideoRooms and Classes

A call (`Calls`) is one request to either service and may be of any kind; its
place `pc` names the request to the provider or the statement it awaits next.
`hosted` are the rooms at the provider, `row` the rooms table, `class`,
`enrolled`, `private` and `seats` the classes and their enrolments. A class's
room has a name drawn at random, so that it goes by the class it was drawn for.
`VideoRooms` leaves the classes alone; `Classes` extends it, and its `Next` lets
the calls of both interleave.

* `AddFind` to `AddRow`: `RoomsService.create` looks the name up, makes the room
  at the provider, asks for two tokens (and takes the room down again if one
  fails), and inserts the row. `DropFind` to `DropRow`: `removeByName`.
  `PurgeList`, `PurgeDelete`, `PurgeRows`, `PurgeClasses`: `deleteAllDailyRooms`.
* `CreatePost` to `CreateSeat`: `create` and `requestPrivateLesson`, which goes
  on with `EnrollRead`, `SaveList`, `File`: `enroll` reads the array
  `enrolledStudents`, saves it whole and inserts the enrolment.
* `JoinRead`, `SaveOwner`, `FindSeat`: `getJoinInfo`, which sweeps a class that
  has expired first (`SweepUnhost`, `SweepClear`), as listings do (`SweepRead`).
* `UpdateRead` to `UpdateWrite`: `update` changes the room, the title, the time,
  or the tutor, who may be any user. The row's column `tutor` says who joins as
  host, with the owner's token; the constant `Tutor` is only who classes are
  scheduled for. A tutor who gives the class away keeps the enrolment that
  `create` inserted, and joins by it from then on, as a student does.
* `RemoveRead` to `RemoveRow`.
* `Stop`: a statement or request fails, or the process ends. `Tick`: time goes by.

The provider is external: it refuses or does what it is asked. Tokens are called
by the room they are for, as nothing else about them matters here. The history
variables `crossed`, `moved`, `retimed`, `reused`, `stray` and `invited`, which
no guard reads, mark the orders of events that break a property.

### Subjects and Lessons

`Subjects` has the rows, the pictures at the image service and the links of one
student; `Lessons` extends it with the lessons and one student's tracking.
Soft-deleted subjects are there from the beginning at most, as nothing makes or
restores one today, so that the second look of `create` for one finds none.

* `AddFind`, `AddPurge`, `AddInsert`: `create` destroys a soft-deleted row with
  the title for good, and then inserts. `ChangeRead`, `ChangePicture`,
  `ChangeSave`: `update` deletes the old picture and then saves the row, or is
  refused as the title is taken. `Link`, `Unlink`.
* `LessonFind`, `LessonInsert`, `LessonRead`, `LessonSave`, `LessonUnread`,
  `LessonDelete`: `create`, `update`, `remove` of a lesson.
* `Track`: `createTracking`, an upsert. `CompleteRead` to `CompleteClose`:
  `completeLessonTracking`; `CompleteAward` is `LogAward` of `XpLedger`.
* `RemoveRead` to `RemovePicture`: `SubjectService.remove`. It is a transaction,
  READ COMMITTED: it reads the ids of the lessons, deletes them by id, and then
  the subject, which fails if a lesson has come in. `Locked` and `LWaits` are
  the row locks that other statements wait for. The quizzes and exams of the
  subject are read, deleted and guarded in the same way, and the lessons stand
  for them.

### Requests, Crews, Notices, Devices and Community

Three components with tables of their own, over the same calls: `Requests` says
what it is to begin, go on and leave, the three modules extend it, and
`Community` lets their steps interleave. Its action `Stop` is the failure of a
request or statement, or the end of the process, in mid-call.

* `Crews`. Every query is keyed by one crew and one message, so one of each
  stands for all. `CrewInsert`, `CrewOwn`: the controller's `create` inserts the
  crew and then links its creator. `Join`, `Part`, `SetStatus`, `CrewRemove` are
  of one statement. `ChatPost`, `ChatPatch`, `ChatRemove` are the message's.
  `MarkRead`, `MarkCount`, `MarkSave`: `markAsRead` reads the message, counts the
  members, and saves the count it has read plus one; the status is written only
  if it becomes READ, as `instance.save` writes what differs.
* `Notices`. An entity goes by the call that posts it. `TellResolve`,
  `TellStore`, `TellAll`: a tutor's message. `InvitePost`, `Invite`: a battle.
  `ReadFind`, `ReadUpdate`, `ReadOpen`, `ReadRetry`: `markAsRead`, which updates
  the user's row, or inserts one that is read, or, when another request has
  inserted it first, looks it up again. The server does not ask whether the
  notice was meant for the user: any user may mark any entity that is posted, and
  a row that lists it for this user comes of that (`ReadFind`, `ReadOpen`). `TellAll`
  passes over those who have marked the message before it. `takes` says which entities the table
  accepts: `TutorMessage.hasMany(NotificationTracking)` gives `entityId` a
  foreign key to `tutor_messages` when the table is made from the models, and a
  table from before need not have it. The run has both.
* `Devices`. `RegisterFind`, `RegisterRepoint`, `RegisterInsert`, `Unregister`:
  `DeviceTokenService`. `SetPush`: the settings. `PushFilter`, `PushResolve`,
  `PushSend`, `PushPrune`: `sendToUsers`. `Expire` is the provider's, which is
  external. A row goes by the call that inserted it (`by`), so that an update by
  primary key does not hit a row that was inserted anew.

`reads`, `crossed`, `halved`, `patched`, `told`, `halted`, `owner`, `cut` and
`stirred` are history variables; no guard reads them.

## 4. Runs

| run | question | answer |
|---|---|---|
| `xp_ledger_safety` | do the books agree, is no XP overdrawn or given back twice, and is the ledger a wallet, under all interleavings and crashes? | yes, until the causes the properties name: about 300 000 states (with symmetry) |
| `xp_ledger_liveness` | does every call end? | yes |
| `xp_settled_once` | is a request settled once? | no: finding 1 |
| `xp_one_pending` | has a student one pending request at most? | no: finding 2 |
| `payments_safety` | one charge per key, one answer per key, PAID only for money? | yes, even with `MayRetry` |
| `payments_promise` | does the service implement `Settlement`, and is every charge honoured? | yes, without `MayRetry` |
| `payments_settled_for_good` | is a settled row left alone when failures are not final? | no: finding 3 |
| `attempts_safety` | which guarantees of attempts hold, and until which calls overlap? | the seven properties, `WeeklyAttempts` among them, over 2.2 million states (with symmetry) |
| `attempts_awarded_once` | is an attempt awarded once? | no: finding 4 |
| `classrooms_safety` | are seats listed, private lessons private, tokens for the right room, rooms accounted for, and live classes spared by the sweep? | yes, until the orders of events the properties name: over 2.9 million states (with symmetry) |
| `learning_safety` | are pictures shown and cleared away, completions awarded and dated once, and does a removal take only what is its own? | yes, likewise, over 570 000 states (with symmetry) |
| `community_safety` | are reads counted, notices delivered and kept read, devices kept by their users, and pushes sent to the right devices? | yes, likewise, over 700 000 states (with symmetry) |

**Bounds.** Two calls of each kind are what a race needs, and the balances
(3 at the start, amounts 1 and 2, an award of 0 or 2) let one withdrawal
succeed, both succeed, and both contend; `Rate = 2` makes an amount of 1 too
small to convert. `Opening` and the empty ledger are both initial states, so the
record's creation races too. One reset suffices as resets exclude one another.
The liveness run drops one award and one decision: waiting is for the row lock
only, and two withdrawals, a decision, a credit and a reset all contend for it.
For the payments, three calls with one key or none give a race, a bystander and
a retry after a crash; `MaxCrashes = 1`.
Four calls of any role at an attempt are two that race, one that set the record
up (a completion before a restart, say) and one more; a record may also exist at
the start. Two questions let a partial and a full answer differ, two weeks let
calls cross a Monday; a client sends no statistics with a new record, or those of
one answer, and an `endedAt` or none; the three grades tell the score (which ignores case) from
the statistics (which do not). `MaxFailures = 1`; `Quiet` stands for the server
that waits for its next call, so that a deadlock is only reported in mid-call.

For the classes, three calls of any kind are two that race and one that set the
scene; two classes can take one another's room and title; time runs from before
a class to after the hour its room is kept. One student and one tutor suffice
for lists and seats: that two users' names do not mix is in the proofs, which
are for any sets. An update changes one field, administrators do not enrol
(nothing tells one from a tutor there), and to bound the initial states, when
both classes are there none is private and the administrators' rooms are there.
For the lessons, three calls, three subjects (one to be created beside two),
two lessons, titles and pictures; at the beginning an id is left, the subjects
are live or one is soft-deleted, at most one has a picture, and a lesson that is
tracked is the only one. An update of a lesson changes one column, and a picture
that is sent is a fresh one, or the one the subject has.
For the community, three calls of any kind: two that race and one that changes
what they act on; three users, so that the number of members that is half
varies; two devices, so that a batch has valid and invalid tokens. At the
beginning at most one of these is there: a crew with its members and message,
registered devices, the foreign key of the notices (`BoundedInit`, of the run
alone: the proofs are for any of them together).

**Fairness.** A call that has started is driven on by the event loop, and the
database answers: weak fairness of the steps of calls under way, none for
calls that may arrive. In `Payments` only webhook deliveries are fair: the
gateway repeats an event until it is answered with 200. Clients need not
confirm, pay or retry. Lock waits end because PostgreSQL's lock queue is served;
weak fairness is enough here since there is finitely many calls. `Attempts`,
`Classes`, `Lessons` and `Community` have no fairness: a call may fail at any step, so that
nothing is promised to happen.

**Findings.**

1. `process` tests the status of a copy read outside the transaction: two
   decisions refund twice, or refund and send (`SettledOnce`).
2. `create` checks for a pending request before it takes the row lock: two
   overlapping requests both commit (`OnePending`).
3. `confirm` and the webhook save by primary key: a FAILED verdict under way
   overwrites PAID if the customer paid after the failure (`SettledForGood`).
4. `updateCompleted` tests `endedAt` and sets it later: two completions that
   overlap award an attempt twice (`AwardedOnce`).

Further behaviour that the properties of `Attempts` delimit: overlapping calls
of `create` clear a quiz in progress, against the comment at
`quiz-record.service.ts:40`; a record that a client sends with `endedAt` is not
awarded, unless it is restarted; a completion that fails after setting `endedAt` is
never awarded, as its retry is returned at once; statistics count the answers of
every week's record, the score those of one; and the "upsert" of
`student-quiz-answer.service.ts:235` stores an answer and then fails if the
current week has no record.

Further behaviour that the properties of `Classes` and `Lessons` delimit: a tutor
who has given a private lesson to another one keeps a seat in it, and is let in
(`PrivateSealed` says that nobody else is but those who asked or enrolled); an
enrolment that overlaps another one drops its name from `enrolledStudents`; a
student, and a former tutor, keep the token of the room the class has left, and
so does the class's row if the tutor joins while an update that empties the tutor's token is under
way (what equals the value read is not written); a class whose title is
taken leaves a room at the provider and a row behind; the purge deletes the rows
of rooms it has not listed; the index on a lesson's title is for all subjects,
though the comment at `lesson.service.ts:63` has it per subject; a picture is
deleted before the update that replaces it is known to be accepted.

Further behaviour that the properties of `Community` delimit: of readers of a
message that overlap, all but one are lost from its count, and one reader who
reads twice counts twice; an invitation to a battle is refused where the table
was made from the models; a message whose call stops before its recipients are
written reaches nobody; a notice is listed for whoever marks it, recipient or
not (`MessagesReach` tells these rows from those of the recipients); a registration whose row is removed meanwhile is told
that it succeeded; and the listing of rejected members asks for the status
'REJECTED', which the column's enum (`ACCEPTED`, `DECLINED`, `PENDING`) lacks.

## 5. Proofs

`XpLedgerProofs`: for any sets of calls, any amounts, rate and opening balances
(assumptions `HandlersDistinct`, `ValuesAssumption`, and `FewCalls`, which says
that awards and withdrawals are finitely many, as a sum over infinitely many has
no meaning), all properties of the run and more.

* *Balance.* `TypeOK`, `BalanceNeverNegative`, `SnapshotUnderLock`,
  `BalanceExplained`, `SettlementMatchesRefunds` and `RequestHasRecord`. None is
  inductive alone. A refund and a debit commit a value they read earlier, so the
  balance facts need `SnapshotUnderLock`; typing a refund needs that the decision
  holds a request (`Loaded`); that a PENDING request has no refund needs that a
  withdrawal has no request before it commits (`Fresh`); and the lock's row must
  still exist and not be inserted anew (`Targets`). `IInv` is the conjunction;
  one lemma per conjunct, one step per action.
* *Sums.* `EscrowIsLogged` is `EscrowInLog`, for any number of requests. A step
  changes one term of the sum, by as much as it logs; that the sum changes by as
  much is `SumLemmas`. The library's induction over finite sets takes a
  predicate, which the provers cannot use; `SumLemmas` argues with sets
  instead (were there a subset of the domain for which a claim fails, there would
  be a least one), which is first-order. `OwedIsUnderWay` says that `owed`, the
  history variable by which `BalanceExplained` lets the books differ, is just
  what the awards under way carry: the property hides nothing in it.
* *Refinement.* `StepsLikeAWallet` is `LikeAWallet`, and `ImplementsWallet` gives
  `Account!Spec` if decisions on a request take turns and nothing damages the
  books.
* *Causes.* `SettledOnceInTurn` and `OnePendingInTurn`: what the findings 1 and 2
  refute holds if decisions on one request, or calls of `create`, take turns
  (`DecisionsApart`, `WithdrawalsApart`), whatever else overlaps. So the
  overlap that TLC finds is the only cause, and to prevent it the only repair.
* *Progress.* Liveness is out of reach, but not what it rests on. `CallsAdvance`:
  each step brings some call nearer to its end and none farther from it
  (`StepsLeft`). `NobodyStuck`: a call under way can take its next step, its
  guard spelled out as `MayGoOn`, or the row lock it needs is held by a call at
  its commit, which can. With weak fairness that is `EveryCallEnds`, by a
  counting argument that is not mechanised.

`PaymentsProofs`: for any calls, keys, confirms, deliveries and crashes,
`TypeOK`, `PaidIsCharged`, `NoSecondCharge`, `SameAnswer`. The invariant says
that a checkout is paid only when some call returned it, that a call returns
only the row of its key, that such rows are unique, and that every verdict a
handler carries is the gateway's. `Refinement` adds that with final failures
(`~MayRetry`) a verdict of FAILED stays right, so that a late save writes what
is there, and that every step is a step of `Settlement` or a stutter.
Finding 3 has two causes, and each is needed: a row that is settled stays so if
failures are final (`FinalIsForGood`), or, for a gateway that changes its mind,
if one handler at a time has the row in hand (`SettledForGoodInTurn`).
`ChargeIsDue` is what `ChargeIsHonoured` rests on besides fairness: a paid
checkout's row is PAID, or it is PENDING and the gateway still has the event to
deliver. Only with `MayRetry` may it be FAILED, for good.

`AttemptsProofs`: for any calls, questions, weeks and failures
(`ParametersAssumption`), all seven properties of the run. An attempt that a
completion has claimed is ended until it is restarted as a later one (`Claims`);
so a completion that found it in progress is the first (`Completing`), unless
another one is between reading and writing, and then the two have met
(`Meetings`). What a restart read still holds when it writes, unless it has met a
restart or a completion (`Restarting`), which gives `InProgressKept`, and that no
restart gives out an ended attempt; and an attempt that was inserted ended stays
so, and unclaimed, until it is restarted (`BornOver`). For the statistics (`StatisticsAreRight`) the tally need
not be computed: it is a function of the answers (`TallyKept`), so it is enough
that restarts and answers which have not met run one at a time (`Lone`), and that
what such a call has read and counted is still so when it writes, and a week that
has begun meanwhile has no statistics (`InStep`, `Unbegun`, `Held`).
`StepsWeekly` and `ImplementsWeekly` put both invariants together: a
restart that writes `endedAt` back to null starts from an ended attempt, or from
an exam; a completion ends an attempt that nobody has claimed, and one that is not
claimed is not ended, unless it was inserted so (`EndedByItsCompletion`); and two awards are for two
attempts (`ClaimsDiffer`), so that each adds one entry for one attempt.

`ClassesProofs`: for any calls, classes, rooms, users and times
(`RoomsAssumption`, `ClassesAssumption`), `ClassesTypeOK`, `SeatsListed`,
`PrivateSealed` and `ProviderRoomKnown`. A seat is inserted only after its name
was saved: so a call between the two has its user on the list, or the class has
been `crossed`, and whoever saves a list has one that is at most the names it
read and its own. That a join into a private lesson enrols only who is invited
needs what a call has read of a class to stay within what is there, and a class
to be private from its birth on. The row's tutor has no part in it: whoever a
lesson is given to joins as host, and gets no seat by that. A room at the provider is followed from the
request that makes it to its row (`Making`).

`ClassRoomsProofs`: under the same assumptions, `ProviderRoomUsed`,
`SweepSparesLiveClasses` and `JoinTokenFitsRoom`. All three rest on `KeepInv`:
which row and which wish a call holds where, and that the class it has read is
made. A class loses its room from its row only after the room was taken down or
left behind, and a room that was taken down comes back only with the class it
was drawn for, whose call is then still making it (`TakenDown`); a purge that
has deleted its list has no other room left than those it missed (`ListsAll`). A
sweep holds a class that was over when it was read, and its start is the row's
until the class is put to another time (`Sweeps`). For a class that was not
moved, its row, what calls hold of it, and the seats of all but its tutor are of
one room (`Way`), with the url and, if there is one, the token of that room; an
update that moves it finds nobody on the way.

`LessonsProofs`: for any calls, subjects, lessons, titles and pictures
(`SubjectsAssumption`, `LessonsAssumption`), all six properties of the run. The
invariant goes by topics: ids and states go one way only (a subject or lesson is
named, live, gone); a call holds what its place says and a name that nobody else
has; a completion alone at its lesson holds the tracking as it is, so that a
second award finds `earned`; each picture belongs to one subject, in a row or in
a call; the row that a lone update or removal has read is the row as it is; and
a picture that an update replaces is gone before the save.

`CommunityProofs`: for any calls, users and devices (`RequestsAssumption`,
`NoticesAssumption`, `DevicesAssumption`), all seven properties of the run. What
a reader of a message holds is at most the reads that were saved, and that it
held READ means that half was counted; without overlap there is one reader, and
the count it holds is the row's (`CountInv`, `HalfInv`). A call's place says what
it has posted, rows are there only for what is posted, a call that is `halted` has
left its message without further rows, and a row that is read stays so
(`ReachInv`, `MarkedIsRead`). A registration that has found a row finds it again with
its user, unless the device is `cut`, and only tokens the provider has given up
are pruned (`KeepInv`, `DeviceInv`). The users a push was allowed for are those
it was asked for and who have push on, as far as unstirred devices can tell
(`PushInv`).

Only model-checked: `EveryCallEnds` and `ChargeIsHonoured`, which are liveness
under fairness and need `ENABLED`. The four findings are counterexamples and so
have nothing to prove but their causes.

## 6. Not modelled

The components listed as not modelled in `PROJECT.json`, with the reasons
there. Within the modelled ones: `previousXpValue` and texts; prices, expiry
dates and email look-ups; signatures; listings; two resets at once on an empty
log; XP values that are fractions (the column is a double, the arithmetic is
modelled over integers); a database that loses its connection in mid-call (it
acts like the process's end for that call).
For attempts: the PUT and DELETE routes of records and answers, which write
whatever the client sends; an attempt's `startedAt`; records
with more than 1000 answers, whose score is cut off; the buckets that turn a
score into XP; answers to another student's record.
For classes: `markAttendance`, which nothing calls; recordings and their webhook
(each delivery inserts a row); the class chat (inserts only); the provider's own
deletion of a room at its `exp`; the pages of the purge's list.
For subjects and lessons: topics, comments and resources, which go with their
lesson; `timeSpent` and the sums of durations; the check that the tutor is one;
`linkMany`, which is many of `linkOne`; `restore`, `updateTracking` and
`removeTracking`, which have no route; the XP of a completion whose lesson has
been deleted meanwhile is logged all the same.
For the community: marks of other kinds (system messages, withdrawals), which
take the same steps; a battle's records, answers and award, and that a user has
one battle of a kind a week; batches of over 500 tokens (there is one batch);
push that is switched off for want of credentials; a device's platform; names,
pictures and texts; who the author of a message is; the web socket's rooms and
what is emitted to them; the switches of the settings other than push.
