------------------------------ MODULE Attempts ------------------------------
(***************************************************************************)
(* One student's weekly attempts at one quiz, or at one mock exam: the     *)
(* record of each week, the answers, the statistics written into the       *)
(* record, and the XP its completion earns.                                *)
(*                                                                         *)
(*   lesson/services/quiz-record.service.ts            create, complete    *)
(*   lesson/services/student-quiz-answer.service.ts    answer, statistics  *)
(*   mock-exam/services/mock-exam-record.service.ts         the same for   *)
(*   mock-exam/services/student-mock-answers.service.ts     mock exams     *)
(*                                                                         *)
(* The two pairs of services are the same code but for one test: create    *)
(* hands a quiz in progress back, and restarts an exam in progress.        *)
(*                                                                         *)
(* Nothing is done in a transaction.  A call runs in steps, one awaited    *)
(* statement each, and the calls interleave between them.  Every statement *)
(* is keyed by the student and the quiz, so one pair of them is enough.    *)
(***************************************************************************)
EXTENDS Integers, FiniteSets

CONSTANTS
  Calls,      \* calls of create, of the answer service and of updateCompleted
  Questions,  \* the questions of the quiz
  MaxWeek,    \* bound on the weeks that pass
  MaxFailures,\* bound on the calls that fail half-way
  Given,      \* the grades of the answers students give
  Sent,       \* the statistics that clients send with a new record
  Kinds,      \* which of the two services runs
  Null        \* SQL's NULL

Weeks == 1..MaxWeek

(* How an answer compares with the correct one: the same text, the same    *)
(* but for the case of letters, or another text.                           *)
Grades == {"exact", "folded", "wrong"}

ASSUME ParametersAssumption ==
  /\ IsFiniteSet(Questions)
  /\ MaxWeek \in Nat \ {0}
  /\ MaxFailures \in Nat
  /\ Given \subseteq Grades
  /\ Kinds \subseteq {"quiz", "mock"}
  /\ Null \notin Grades /\ Null \notin [week : Weeks, attempt : Nat]

(* The columns of the statistics that tell states apart: totalMarks and    *)
(* totalQuestions are constant when set, totalUnansweredQuestions follows  *)
(* from answered and obtainedMarks is correct.                             *)
Fields == {"answered", "correct", "incorrect"}
Stats  == [Fields -> Nat \cup {Null}]
Blank  == [x \in Fields |-> Null]

ASSUME SentAssumption == Sent \subseteq Stats

VARIABLES
  kind,     \* quiz or mock
  week,     \* the current week
  attempt,  \* 0 while a week has no record, else which start the record is of
  ended,    \* endedAt is set
  stats,    \* the statistics in each week's record
  answers,  \* the answers to each week's record: unique per question
  pc,       \* where each call is
  inst,     \* the record instance a call has read
  tally,    \* the statistics an answer call has computed
  score,    \* the totalScore a completion has computed
  born,     \* history: what each week's record was inserted with
  claim,    \* history: the attempt whose endedAt a completion has set
  paid,     \* history: the completions whose XP is logged
  overlap   \* history: the roles that have met in flight

data  == <<kind, week, attempt, ended, stats, answers>>
ghost == <<born, claim, paid, overlap>>
vars  == <<kind, week, attempt, ended, stats, answers, pc, inst, tally, score,
           born, claim, paid, overlap>>

StartPlaces  == {"creating", "restarting", "cleared"}
ReplyPlaces  == {"inserted", "tallied", "found"}
FinishPlaces == {"scoring", "ending", "awarding"}
Places == {"idle", "done", "failed"} \cup StartPlaces \cup ReplyPlaces \cup FinishPlaces
Roles  == {"start", "reply", "finish"}

Instance0 == [week |-> 1, ended |-> FALSE, stats |-> Blank]

TypeOK ==
  /\ kind \in Kinds
  /\ week \in Weeks
  /\ attempt \in [Weeks -> Nat]
  /\ ended \in [Weeks -> BOOLEAN]
  /\ stats \in [Weeks -> Stats]
  /\ answers \in [Weeks -> [Questions -> Grades \cup {Null}]]
  /\ pc \in [Calls -> Places]
  /\ inst \in [Calls -> [week : Weeks, ended : BOOLEAN, stats : Stats]]
  /\ tally \in [Calls -> Stats]
  /\ score \in [Calls -> Nat]
  /\ born \in [Weeks -> [ended : BOOLEAN, stats : Stats]]
  /\ claim \in [Calls -> [week : Weeks, attempt : Nat] \cup {Null}]
  /\ paid \subseteq Calls
  /\ overlap \subseteq SUBSET Roles

(* In the first week the student has not begun, or has no answer yet. *)
Init ==
  /\ kind \in Kinds
  /\ week = 1
  /\ \E n \in {0, 1} : attempt = [w \in Weeks |-> IF w = 1 THEN n ELSE 0]
  /\ ended = [w \in Weeks |-> FALSE]
  /\ stats = [w \in Weeks |-> Blank]
  /\ answers = [w \in Weeks |-> [q \in Questions |-> Null]]
  /\ pc = [h \in Calls |-> "idle"]
  /\ inst = [h \in Calls |-> Instance0]
  /\ tally = [r \in Calls |-> Blank]
  /\ score = [f \in Calls |-> 0]
  /\ born = [w \in Weeks |-> [ended |-> FALSE, stats |-> Blank]]
  /\ claim = [f \in Calls |-> Null]
  /\ paid = {}
  /\ overlap = {}

InFlight(h) == pc[h] \notin {"idle", "done", "failed"}

Role(h) == IF pc[h] \in StartPlaces THEN "start"
           ELSE IF pc[h] \in ReplyPlaces THEN "reply" ELSE "finish"

(* Which roles meet when a call begins.  (A completion and an answer do    *)
(* not disturb each other, and are not recorded.)                          *)
Met(role) ==
  {{role, Role(g)} : g \in {x \in Calls : InFlight(x)}} \ {{"reply", "finish"}}

(* A call of this role has begun and awaits its next statement. *)
Enter(h, role, p) ==
  /\ pc' = [pc EXCEPT ![h] = p]
  /\ overlap' = overlap \cup Met(role)

GoTo(h, p) == pc' = [pc EXCEPT ![h] = p]

(* The call returns or throws; the instance it held is garbage. *)
End(h) ==
  /\ pc' = [pc EXCEPT ![h] = "done"]
  /\ inst' = [inst EXCEPT ![h] = Instance0]

(* findOne: the record of week w as it is now, or of it what the call uses. *)
Read(h, w) ==
  inst' = [inst EXCEPT ![h] = [week |-> w, ended |-> ended[w], stats |-> stats[w]]]
ReadId(h, w) == inst' = [inst EXCEPT ![h] = [Instance0 EXCEPT !.week = w]]
ReadStats(h, w) ==
  inst' = [inst EXCEPT ![h] = [Instance0 EXCEPT !.week = w, !.stats = stats[w]]]

(* instance.update: of the new values, those that differ from what the     *)
(* instance read are written, and the other columns stay as they are.      *)
Updated(row, read, new) ==
  [x \in Fields |-> IF new[x] = read[x] THEN row[x] ELSE new[x]]

(***************************************************************************)
(* QuizRecordService.create and MockExamRecordService.create.              *)
(***************************************************************************)

(* Mutant: a quiz in progress is restarted as an exam is. *)
StartFindRestartsOpen(s) ==
  /\ pc[s] = "idle"
  /\ \/ /\ attempt[week] = 0
        /\ Enter(s, "start", "creating")
     \/ /\ attempt[week] > 0
        /\ Enter(s, "start", "restarting")
  /\ Read(s, week)
  /\ UNCHANGED <<data, tally, score, born, claim, paid>>

(* This week's record is looked for.  A quiz in progress is returned. *)
StartFind(s) ==
  /\ pc[s] = "idle"
  /\ \/ /\ attempt[week] = 0
        /\ Enter(s, "start", "creating")
        /\ UNCHANGED inst
     \/ /\ attempt[week] > 0
        /\ kind = "mock" \/ ended[week]
        /\ Enter(s, "start", "restarting")
        /\ Read(s, week)
     \/ /\ attempt[week] > 0
        /\ kind = "quiz" /\ ~ended[week]
        /\ End(s)
        /\ UNCHANGED overlap
  /\ UNCHANGED <<data, tally, score, born, claim, paid>>

(* INSERT, for the week it is by now: the index on quiz, student and week  *)
(* lets one of two calls pass.  The columns are what the client has sent:  *)
(* the DTO takes an endedAt and statistics as well, or leaves them null.   *)
StartCreate(s) ==
  /\ pc[s] = "creating"
  /\ \/ /\ attempt[week] = 0
        /\ attempt' = [attempt EXCEPT ![week] = 1]
        /\ \E row \in [ended : BOOLEAN, stats : Sent] :
             /\ ended' = [ended EXCEPT ![week] = row.ended]
             /\ stats' = [stats EXCEPT ![week] = row.stats]
             /\ born' = [born EXCEPT ![week] = row]
     \/ /\ attempt[week] > 0
        /\ UNCHANGED <<attempt, ended, stats, born>>
  /\ End(s)
  /\ UNCHANGED <<kind, week, answers, tally, score, claim, paid, overlap>>

(* deleteByQuizRecord removes every answer to the record. *)
StartClear(s) ==
  /\ pc[s] = "restarting"
  /\ answers' = [answers EXCEPT ![inst[s].week] = [q \in Questions |-> Null]]
  /\ GoTo(s, "cleared")
  /\ UNCHANGED <<kind, week, attempt, ended, stats, inst, tally, score, ghost>>

(* Mutant: the restart leaves the statistics of the attempt before. *)
StartResetKeepsStats(s) ==
  /\ pc[s] = "cleared"
  /\ LET w == inst[s].week IN
       /\ ended' = IF inst[s].ended THEN [ended EXCEPT ![w] = FALSE] ELSE ended
       /\ attempt' = [attempt EXCEPT ![w] = @ + 1]
  /\ End(s)
  /\ UNCHANGED <<kind, week, stats, answers, tally, score, ghost>>

(* Mutant: the restart leaves endedAt as it is. *)
StartResetKeepsEnd(s) ==
  /\ pc[s] = "cleared"
  /\ LET w == inst[s].week IN
       /\ stats' = [stats EXCEPT ![w] = Updated(@, inst[s].stats, Blank)]
       /\ attempt' = [attempt EXCEPT ![w] = @ + 1]
  /\ End(s)
  /\ UNCHANGED <<kind, week, ended, answers, tally, score, ghost>>

(* update sets endedAt and the statistics to null, where they were not. *)
StartReset(s) ==
  /\ pc[s] = "cleared"
  /\ LET w == inst[s].week IN
       /\ ended' = IF inst[s].ended THEN [ended EXCEPT ![w] = FALSE] ELSE ended
       /\ stats' = [stats EXCEPT ![w] = Updated(@, inst[s].stats, Blank)]
       /\ attempt' = [attempt EXCEPT ![w] = @ + 1]
  /\ End(s)
  /\ UNCHANGED <<kind, week, answers, tally, score, ghost>>

(***************************************************************************)
(* StudentsQuizAnswersService.create and computeAndUpdateQuizRecord.       *)
(***************************************************************************)

(* The answer is inserted, with its score, under the record the client     *)
(* names, in progress or not.  A second answer to a question is refused by *)
(* the index on question, record and student.                              *)
ReplyInsert(r) ==
  /\ pc[r] = "idle"
  /\ \E w \in Weeks, q \in Questions, g \in Given :
       /\ attempt[w] > 0
       /\ IF answers[w][q] = Null
          THEN /\ answers' = [answers EXCEPT ![w][q] = g]
               /\ Enter(r, "reply", "inserted")
               /\ UNCHANGED inst
          ELSE /\ End(r)
               /\ UNCHANGED <<answers, overlap>>
  /\ UNCHANGED <<kind, week, attempt, ended, stats, tally, score, born, claim, paid>>

(* The student's answers to questions of the quiz with one of the grades,  *)
(* whichever week's record they belong to.                                 *)
Answered(grades) == {a \in Weeks \X Questions : answers[a[1]][a[2]] \in grades}

(* The statistics compare the texts exactly. *)
Tally ==
  [answered  |-> Cardinality(Answered(Grades)),
   correct   |-> Cardinality(Answered({"exact"})),
   incorrect |-> Cardinality(Answered({"folded", "wrong"}))]

ReplyTally(r) ==
  /\ pc[r] = "inserted"
  /\ tally' = [tally EXCEPT ![r] = Tally]
  /\ GoTo(r, "tallied")
  /\ UNCHANGED <<data, inst, score, ghost>>

(* findOrCreate of the record of the week it is now.  It finds, or throws: *)
(* the hook setUserId asks for a userId among the options, which this call *)
(* does not pass, and so no record is ever created here.                   *)
ReplyFind(r) ==
  /\ pc[r] = "tallied"
  /\ \/ /\ attempt[week] > 0
        /\ ReadStats(r, week)
        /\ GoTo(r, "found")
        /\ UNCHANGED tally
     \/ /\ attempt[week] = 0
        /\ tally' = [tally EXCEPT ![r] = Blank]
        /\ End(r)
  /\ UNCHANGED <<data, score, ghost>>

(* Mutant: endedAt is written with the statistics, as for battles. *)
ReplySaveEnds(r) ==
  /\ pc[r] = "found"
  /\ LET w == inst[r].week IN
       /\ stats' = [stats EXCEPT ![w] = Updated(@, inst[r].stats, tally[r])]
       /\ ended' = [ended EXCEPT ![w] = TRUE]
  /\ tally' = [tally EXCEPT ![r] = Blank]
  /\ End(r)
  /\ UNCHANGED <<kind, week, attempt, answers, score, ghost>>

(* update writes the statistics and leaves endedAt as it is. *)
ReplySave(r) ==
  /\ pc[r] = "found"
  /\ stats' = [stats EXCEPT ![inst[r].week] = Updated(@, inst[r].stats, tally[r])]
  /\ tally' = [tally EXCEPT ![r] = Blank]
  /\ End(r)
  /\ UNCHANGED <<kind, week, attempt, ended, answers, score, ghost>>

(***************************************************************************)
(* updateCompleted.                                                        *)
(***************************************************************************)

(* Mutant: no test whether the attempt has been completed. *)
FinishReadUnguarded(f) ==
  /\ pc[f] = "idle"
  /\ \E w \in Weeks :
       /\ attempt[w] > 0
       /\ Enter(f, "finish", "scoring")
       /\ ReadId(f, w)
  /\ UNCHANGED <<data, tally, score, born, claim, paid>>

(* The record is read, and a completed one is returned at once. *)
FinishRead(f) ==
  /\ pc[f] = "idle"
  /\ \E w \in Weeks :
       /\ attempt[w] > 0
       /\ IF ended[w]
          THEN End(f) /\ UNCHANGED overlap
          ELSE Enter(f, "finish", "scoring") /\ ReadId(f, w)
  /\ UNCHANGED <<data, tally, score, born, claim, paid>>

(* The points of the answers to one record: a score ignores case. *)
ScoreOf(w) == Cardinality({q \in Questions : answers[w][q] \in {"exact", "folded"}})

(* Mutant: the search for answers forgets the record's id. *)
FinishScoreAllWeeks(f) ==
  /\ pc[f] = "scoring"
  /\ score' = [score EXCEPT ![f] = Cardinality(Answered({"exact", "folded"}))]
  /\ GoTo(f, "ending")
  /\ UNCHANGED <<data, inst, tally, ghost>>

(* Mutant: a sum without "|| 0" over answers that have no score. *)
FinishScoreNull(f) ==
  /\ pc[f] = "scoring"
  /\ score' = [score EXCEPT ![f] = Null]
  /\ GoTo(f, "ending")
  /\ UNCHANGED <<data, inst, tally, ghost>>

FinishScore(f) ==
  /\ pc[f] = "scoring"
  /\ score' = [score EXCEPT ![f] = ScoreOf(inst[f].week)]
  /\ GoTo(f, "ending")
  /\ UNCHANGED <<data, inst, tally, ghost>>

(* endedAt is set, whatever has happened to the record since it was read. *)
FinishEnd(f) ==
  /\ pc[f] = "ending"
  /\ LET w == inst[f].week IN
       /\ ended' = [ended EXCEPT ![w] = TRUE]
       /\ claim' = [claim EXCEPT ![f] = [week |-> w, attempt |-> attempt[w]]]
  /\ GoTo(f, "awarding")
  /\ UNCHANGED <<kind, week, attempt, stats, answers, inst, tally, score,
                 born, paid, overlap>>

(* The configuration is read, the score turned into XP, and the XP logged: *)
(* the step LogAward of XpLedger.                                          *)
FinishAward(f) ==
  /\ pc[f] = "awarding"
  /\ paid' = paid \cup {f}
  /\ score' = [score EXCEPT ![f] = 0]
  /\ End(f)
  /\ UNCHANGED <<data, tally, born, claim, overlap>>

-----------------------------------------------------------------------------

(* A statement fails, or the process ends, between two steps of a call: it *)
(* ends there, and what it has written stays.                              *)
Fail(h) ==
  /\ InFlight(h)
  /\ Cardinality({g \in Calls : pc[g] = "failed"}) < MaxFailures
  /\ pc' = [pc EXCEPT ![h] = "failed"]
  /\ inst' = [inst EXCEPT ![h] = Instance0]
  /\ tally' = [tally EXCEPT ![h] = Blank]
  /\ score' = [score EXCEPT ![h] = 0]
  /\ UNCHANGED <<data, ghost>>

(* Midnight between Sunday and Monday, UTC. *)
WeekTurns ==
  /\ week < MaxWeek
  /\ week' = week + 1
  /\ UNCHANGED <<kind, attempt, ended, stats, answers, pc, inst, tally, score, ghost>>

(* The server waits for the next call. *)
Quiet ==
  /\ \A h \in Calls : ~InFlight(h)
  /\ UNCHANGED vars

Start(s)  == StartFind(s) \/ StartCreate(s) \/ StartClear(s) \/ StartReset(s)
Reply(r)  == ReplyInsert(r) \/ ReplyTally(r) \/ ReplyFind(r) \/ ReplySave(r)
Finish(f) == FinishRead(f) \/ FinishScore(f) \/ FinishEnd(f) \/ FinishAward(f)

Next ==
  \/ \E c \in Calls : Start(c) \/ Reply(c) \/ Finish(c) \/ Fail(c)
  \/ WeekTurns
  \/ Quiet

Spec == Init /\ [][Next]_vars
-----------------------------------------------------------------------------

(***************************************************************************)
(* Properties.                                                             *)
(***************************************************************************)

(* "Idempotent: once an attempt is completed, don't finalise/award again"  *)
(* (quiz-record.service.ts:162): an attempt is awarded once.               *)
AwardedOnce == \A f, g \in paid : claim[f] = claim[g] => f = g

(* The test of endedAt does keep an attempt from being awarded twice, by   *)
(* retries, after restarts and failures, in any week, unless two           *)
(* completions overlap: both may then pass the test before either writes.  *)
AwardedOnceInTurn == {"finish"} \in overlap \/ AwardedOnce

(* The week's record is still the one that create inserted, ended already. *)
SentOver(w) == attempt[w] = 1 /\ born[w].ended

(* An attempt that is ended was ended by a completion of that attempt, and *)
(* that completion has been awarded or will be, unless it failed between   *)
(* its two writes (then the XP is never paid); or else create inserted it  *)
(* with the endedAt that the client sent, and then no completion ever ends *)
(* it again, to be paid.  A restart never gives out an attempt that is     *)
(* ended already; for a mock exam, whose restart does not look at endedAt, *)
(* only while no completion overlaps it.                                   *)
EndedByItsCompletion ==
  kind = "quiz" \/ {"start", "finish"} \notin overlap =>
    \A w \in Weeks : ended[w] =>
      LET Ending == {f \in Calls : claim[f] = [week |-> w, attempt |-> attempt[w]]}
      IN  IF SentOver(w)
          THEN Ending = {}
          ELSE \E f \in Ending : f \in paid \/ pc[f] \in {"awarding", "failed"}

(* "If the attempt is still in progress, return it so the student can      *)
(* continue" (quiz-record.service.ts:40): no answer given in a quiz in     *)
(* progress goes away.  True unless two calls of create overlap: the       *)
(* second may clear what was answered after the first one's restart.       *)
OpenAnswersKept ==
  \A w \in Weeks, q \in Questions :
    /\ kind = "quiz" /\ {"start"} \notin overlap
    /\ attempt[w] > 0 /\ ~ended[w]
    /\ answers[w][q] # Null
    => answers'[w][q] = answers[w][q]

InProgressKept == [][OpenAnswersKept]_vars

(* A completion awards no more points than the answers to the record are   *)
(* worth, and so none twice, unless create is clearing that record at the  *)
(* same time.  Answers of other weeks do not count.                        *)
ScoreStands ==
  {"start", "finish"} \notin overlap =>
    \A f \in Calls : pc[f] \in {"ending", "awarding"} =>
      score[f] <= ScoreOf(inst[f].week)

(* As long as answers and restarts follow each other undisturbed, what the *)
(* week's record says is what the answers are, of all weeks (in the second *)
(* week it counts the first week's answers too), or what it was inserted   *)
(* with, but not after a restart.                                          *)
StatsMatchAnswers ==
  /\ overlap \cap SUBSET {"start", "reply"} = {}
  /\ \A c \in Calls : pc[c] \in {"idle", "done"} \/ claim[c] # Null
  => \/ stats[week] \in {Blank, Tally}
     \/ attempt[week] = 1 /\ stats[week] = born[week].stats

-----------------------------------------------------------------------------

(***************************************************************************)
(* What all this is for: WeeklyAttempts.                                   *)
(***************************************************************************)
Completed == {claim[f] : f \in Calls} \ {Null}
Awarded   == {claim[f] : f \in paid}
Entries   == Cardinality(paid)

Weekly == INSTANCE WeeklyAttempts WITH
  number    <- attempt,
  over      <- ended,
  completed <- Completed,
  awarded   <- Awarded,
  entries   <- Entries

(* The calls that spoil it when they overlap: two completions; and two     *)
(* calls of create for a quiz, but a create and a completion for an exam.  *)
InTurn ==
  /\ {"finish"} \notin overlap
  /\ kind = "quiz" => {"start"} \notin overlap
  /\ kind = "mock" => {"start", "finish"} \notin overlap

(* Until such calls have overlapped, every statement of every call, with   *)
(* answers, failures and the turn of the week in between, begins an        *)
(* attempt, records a first one that is over, completes the one in         *)
(* progress, awards a completed attempt for the first time, or changes     *)
(* none of this.  A retried completion awards nothing, and a quiz in       *)
(* progress is not begun anew.                                             *)
WeeklyInTurn ==
  [][InTurn' => [Weekly!Next]_<<kind, attempt, ended, Completed, Awarded, Entries>>]_vars
=============================================================================
