--------------------------- MODULE AttemptsProofs ---------------------------
(***************************************************************************)
(* Theorems about Attempts for any number of calls, questions and weeks.   *)
(*                                                                         *)
(* What keeps an attempt from being awarded twice is that an attempt that  *)
(* some completion has claimed is ended (Claims), so that a completion     *)
(* that found it in progress is the first (Completing), unless another one *)
(* is between its reading and its writing too: then the two have met       *)
(* (Meetings).  What a restart found when it read the record still holds   *)
(* when it writes, unless it has met another restart or a completion       *)
(* (Restarting).  An attempt that was inserted ended is never completed    *)
(* (BornOver).                                                             *)
(*                                                                         *)
(* What keeps the statistics right is that answers and restarts which have *)
(* not met run one at a time (Lone), so that what a call has read and      *)
(* counted is still so when it writes (InStep).                            *)
(*                                                                         *)
(* Both together map every step to one of WeeklyAttempts.                  *)
(***************************************************************************)
EXTENDS Attempts, FiniteSetTheorems, TLAPS

(* The attempt that the record of week w is of. *)
Here(w) == [week |-> w, attempt |-> attempt[w]]

(* Calls that are in flight together have been recorded as having met. *)
Meetings ==
  \A c, d \in Calls :
    /\ pc[c] \in StartPlaces /\ pc[d] \in FinishPlaces => {"start", "finish"} \in overlap
    /\ c # d /\ pc[c] \in StartPlaces /\ pc[d] \in StartPlaces => {"start"} \in overlap
    /\ c # d /\ pc[c] \in FinishPlaces /\ pc[d] \in FinishPlaces => {"finish"} \in overlap

(* A week without a record has none that is ended. *)
NoRecord == \A w \in Weeks : attempt[w] = 0 => ~ended[w]

(* What a restart has read of the record that exists is still so. *)
Restarting ==
  \A s \in Calls : pc[s] \in {"restarting", "cleared"} =>
    /\ attempt[inst[s].week] > 0
    /\ kind = "quiz" => inst[s].ended
    /\ kind = "quiz" /\ {"start"} \notin overlap => ended[inst[s].week]
    /\ ~inst[s].ended /\ {"start", "finish"} \notin overlap => ~ended[inst[s].week]

(* A completed attempt is ended until the record is restarted as a later   *)
(* attempt; XP is logged by a completion that ended one.                   *)
Claims ==
  /\ \A f \in paid : pc[f] = "done" /\ claim[f] # Null
  /\ \A f \in Calls : pc[f] = "awarding" => claim[f] # Null
  /\ \A f \in Calls : claim[f] # Null => claim[f].attempt <= attempt[claim[f].week]
  /\ \A f \in Calls, w \in Weeks : claim[f] = Here(w) => ended[w]

(* An attempt that was inserted ended stays so, is not completed, and no   *)
(* completion has it in hand.                                              *)
BornOver ==
  \A w \in Weeks : SentOver(w) =>
    /\ ended[w]
    /\ \A f \in Calls :
         claim[f] # Here(w) /\ ~(pc[f] \in FinishPlaces /\ inst[f].week = w)

(* A completion under way has a record, and before it writes it is the     *)
(* first of its attempt.                                                   *)
Completing ==
  \A f \in Calls :
    /\ pc[f] \in FinishPlaces => attempt[inst[f].week] > 0
    /\ pc[f] \in {"scoring", "ending"} /\ {"finish"} \notin overlap =>
         \A g \in Calls : claim[g] # Here(inst[f].week)

(* No attempt is completed by two calls that have not met. *)
ClaimsDiffer ==
  {"finish"} \notin overlap =>
    \A f, g \in Calls : claim[f] # Null /\ claim[f] = claim[g] => f = g

IInv ==
  /\ TypeOK
  /\ Meetings
  /\ NoRecord
  /\ Restarting
  /\ Claims
  /\ BornOver
  /\ Completing
  /\ ClaimsDiffer
  /\ EndedByItsCompletion
  /\ ScoreStands

(* The first week, the blank statistics and the idle instance have types. *)
LEMMA Typed ==
  /\ 1 \in Weeks /\ IsFiniteSet(Weeks)
  /\ Blank \in Stats
  /\ Instance0 \in [week : Weeks, ended : BOOLEAN, stats : Stats]
<1>1. 1 \in Weeks /\ IsFiniteSet(Weeks)
  BY ParametersAssumption, FS_Interval DEF Weeks
<1>2. Blank \in Stats
  BY DEF Blank, Stats
<1>3. QED BY <1>1, <1>2 DEF Instance0

(* A weekly record's points are a number, and more answers are no fewer. *)
LEMMA ScoreType == ASSUME NEW w \in Weeks PROVE ScoreOf(w) \in Nat
<1>1. IsFiniteSet({q \in Questions : answers[w][q] \in {"exact", "folded"}})
  BY ParametersAssumption, FS_Subset
<1>2. QED BY <1>1, FS_CardinalityType DEF ScoreOf

(* A score does not shrink while the answers that count stay. *)
LEMMA ScoreGrows ==
  ASSUME NEW w \in Weeks,
         \A q \in Questions :
           answers[w][q] \in {"exact", "folded"} => answers'[w][q] = answers[w][q]
  PROVE  ScoreOf(w) <= ScoreOf(w)' /\ ScoreOf(w) \in Nat /\ ScoreOf(w)' \in Nat
<1> DEFINE Old == {q \in Questions : answers[w][q] \in {"exact", "folded"}}
           New == {q \in Questions : answers'[w][q] \in {"exact", "folded"}}
<1>1. IsFiniteSet(New)
  BY ParametersAssumption, FS_Subset
<1>2. Old \subseteq New
  OBVIOUS
<1>3. Cardinality(Old) <= Cardinality(New) /\ IsFiniteSet(Old)
  BY <1>1, <1>2, FS_Subset
<1>4. QED BY <1>1, <1>3, FS_CardinalityType DEF ScoreOf

(* The statistics that are computed are numbers. *)
LEMMA TallyType == Tally \in Stats
<1>1. IsFiniteSet(Weeks \X Questions)
  BY Typed, ParametersAssumption, FS_Product
<1>2. ASSUME NEW G PROVE Cardinality(Answered(G)) \in Nat
  <2>1. Answered(G) \subseteq Weeks \X Questions
    BY DEF Answered
  <2>2. QED BY <1>1, <2>1, FS_Subset, FS_CardinalityType
<1>3. QED BY <1>2 DEF Tally, Stats, Fields

(* What instance.update writes are statistics. *)
LEMMA UpdatedType ==
  ASSUME NEW row \in Stats, NEW read \in Stats, NEW new \in Stats
  PROVE  Updated(row, read, new) \in Stats
BY DEF Updated, Stats

(* Which roles are recorded when a call begins while g is in flight. *)
LEMMA MetRoles ==
  ASSUME NEW role \in Roles
  PROVE  /\ Met(role) \subseteq SUBSET Roles
         /\ \A g \in Calls :
              /\ pc[g] \in StartPlaces =>
                   /\ role = "start" => {"start"} \in Met(role)
                   /\ role = "finish" => {"start", "finish"} \in Met(role)
              /\ pc[g] \in FinishPlaces =>
                   /\ role = "start" => {"start", "finish"} \in Met(role)
                   /\ role = "finish" => {"finish"} \in Met(role)
<1>1. \A g \in Calls : Role(g) \in Roles
  BY DEF Role, Roles
<1>2. \A g \in Calls : pc[g] \in StartPlaces => InFlight(g) /\ Role(g) = "start"
  BY DEF Role, InFlight, StartPlaces
<1>3. \A g \in Calls : pc[g] \in FinishPlaces => InFlight(g) /\ Role(g) = "finish"
  BY DEF Role, InFlight, StartPlaces, ReplyPlaces, FinishPlaces
<1>4. \A g \in Calls : InFlight(g) /\ {role, Role(g)} # {"reply", "finish"} =>
        {role, Role(g)} \in Met(role)
  BY DEF Met
<1>5. /\ {"start", "start"} = {"start"} /\ {"finish", "finish"} = {"finish"}
      /\ {"finish", "start"} = {"start", "finish"}
      /\ {"start"} # {"reply", "finish"} /\ {"finish"} # {"reply", "finish"}
      /\ {"start", "finish"} # {"reply", "finish"}
  <2>1. "reply" \in {"reply", "finish"} /\ "reply" \notin {"start"}
        /\ "reply" \notin {"finish"} /\ "reply" \notin {"start", "finish"}
    OBVIOUS
  <2>2. QED BY <2>1
<1>6. Met(role) \subseteq SUBSET Roles
  BY <1>1 DEF Met
<1>7. QED BY <1>2, <1>3, <1>4, <1>5, <1>6

Instances == [week : Weeks, ended : BOOLEAN, stats : Stats]

(* Entering, ending and reading keep the types of what they change. *)
LEMMA EnterType ==
  ASSUME TypeOK, NEW c \in Calls, NEW role \in Roles, NEW p \in Places, Enter(c, role, p)
  PROVE  pc' \in [Calls -> Places] /\ overlap' \subseteq SUBSET Roles
<1>1. pc' \in [Calls -> Places]
  BY DEF TypeOK, Enter
<1>2. Met(role) \subseteq SUBSET Roles
  BY MetRoles
<1>3. QED BY <1>1, <1>2 DEF TypeOK, Enter

(* A call that ends keeps the types of pc and inst. *)
LEMMA EndType ==
  ASSUME TypeOK, NEW c \in Calls, End(c)
  PROVE  pc' \in [Calls -> Places] /\ inst' \in [Calls -> Instances]
BY Typed DEF TypeOK, End, Places, Instances

(* A record that is read is an instance. *)
LEMMA ReadType ==
  ASSUME TypeOK, NEW c \in Calls, NEW w \in Weeks,
         Read(c, w) \/ ReadId(c, w) \/ ReadStats(c, w)
  PROVE  inst' \in [Calls -> Instances]
<1>1. [week |-> w, ended |-> ended[w], stats |-> stats[w]] \in Instances
  BY DEF TypeOK, Instances
<1>2. [Instance0 EXCEPT !.week = w] \in Instances
  BY Typed DEF Instances
<1>3. [Instance0 EXCEPT !.week = w, !.stats = stats[w]] \in Instances
  BY Typed DEF TypeOK, Instances
<1>4. inst \in [Calls -> Instances]
  BY DEF TypeOK, Instances
<1>5. CASE Read(c, w)
  BY <1>1, <1>4, <1>5 DEF Read
<1>6. CASE ReadId(c, w)
  BY <1>2, <1>4, <1>6 DEF ReadId
<1>7. CASE ReadStats(c, w)
  BY <1>3, <1>4, <1>7 DEF ReadStats
<1>8. QED BY <1>5, <1>6, <1>7

Rows == [ended : BOOLEAN, stats : Stats]

(* The columns of a new record of the current week. *)
Inserts(row) ==
  /\ attempt[week] = 0
  /\ attempt' = [attempt EXCEPT ![week] = 1]
  /\ ended' = [ended EXCEPT ![week] = row.ended]
  /\ stats' = [stats EXCEPT ![week] = row.stats]
  /\ born' = [born EXCEPT ![week] = row]

(* create inserts a record for a week that has none, or changes nothing. *)
LEMMA Created ==
  ASSUME TypeOK, NEW c \in Calls, StartCreate(c)
  PROVE  UNCHANGED <<attempt, ended, stats, born>> \/ \E row \in Rows : Inserts(row)
<1>1. [ended : BOOLEAN, stats : Sent] \subseteq Rows
  BY SentAssumption DEF Rows
<1>2. CASE attempt[week] = 0
  <2>1. PICK row \in [ended : BOOLEAN, stats : Sent] :
          /\ ended' = [ended EXCEPT ![week] = row.ended]
          /\ stats' = [stats EXCEPT ![week] = row.stats]
          /\ born' = [born EXCEPT ![week] = row]
    BY <1>2 DEF StartCreate, TypeOK
  <2>2. attempt' = [attempt EXCEPT ![week] = 1]
    BY <1>2 DEF StartCreate, TypeOK
  <2>3. Inserts(row)
    BY <1>2, <2>1, <2>2 DEF Inserts
  <2>4. QED BY <1>1, <2>3
<1>3. CASE attempt[week] # 0
  BY <1>3 DEF StartCreate
<1>4. QED BY <1>2, <1>3

(* It concerns the record of the current week only. *)
LEMMA InsertsHere ==
  ASSUME TypeOK, NEW row \in Rows, Inserts(row)
  PROVE  /\ week \in Weeks /\ row.ended \in BOOLEAN /\ row.stats \in Stats
         /\ attempt[week] = 0 /\ attempt'[week] = 1
         /\ ended'[week] = row.ended /\ stats'[week] = row.stats /\ born'[week] = row
         /\ \A w \in Weeks : w # week =>
              /\ attempt'[w] = attempt[w] /\ ended'[w] = ended[w]
              /\ stats'[w] = stats[w] /\ born'[w] = born[w]
<1>1. week \in Weeks /\ row.ended \in BOOLEAN /\ row.stats \in Stats
  BY DEF TypeOK, Rows
<1>2. QED BY <1>1 DEF TypeOK, Inserts

(* Every step keeps the types. *)
LEMMA TypeStep ==
  ASSUME TypeOK, [Next]_vars PROVE TypeOK'
<1>1. ASSUME NEW c \in Calls, StartFind(c) PROVE TypeOK'
  <2>1. /\ pc' \in [Calls -> Places] /\ inst' \in [Calls -> Instances]
        /\ overlap' \subseteq SUBSET Roles
    <3>1. week \in Weeks /\ "start" \in Roles /\ {"creating", "restarting"} \subseteq Places
      BY DEF TypeOK, Roles, Places, StartPlaces
    <3>2. CASE Enter(c, "start", "creating") /\ UNCHANGED inst
      BY <3>1, <3>2, EnterType DEF TypeOK, Instances
    <3>3. CASE Enter(c, "start", "restarting") /\ Read(c, week)
      BY <3>1, <3>3, EnterType, ReadType
    <3>4. CASE End(c) /\ UNCHANGED overlap
      BY <3>4, EndType DEF TypeOK
    <3>5. QED BY <1>1, <3>2, <3>3, <3>4 DEF StartFind
  <2>2. QED BY <1>1, <2>1 DEF StartFind, TypeOK, data, Instances
<1>2. ASSUME NEW c \in Calls, StartCreate(c) PROVE TypeOK'
  <2>1. pc' \in [Calls -> Places] /\ inst' \in [Calls -> Instances]
    BY <1>2, EndType DEF StartCreate
  <2>2. /\ attempt' \in [Weeks -> Nat] /\ ended' \in [Weeks -> BOOLEAN]
        /\ stats' \in [Weeks -> Stats]
        /\ born' \in [Weeks -> [ended : BOOLEAN, stats : Stats]]
    <3>1. CASE UNCHANGED <<attempt, ended, stats, born>>
      BY <3>1 DEF TypeOK
    <3>2. ASSUME NEW row \in Rows, Inserts(row)
          PROVE  /\ attempt' \in [Weeks -> Nat] /\ ended' \in [Weeks -> BOOLEAN]
                 /\ stats' \in [Weeks -> Stats]
                 /\ born' \in [Weeks -> [ended : BOOLEAN, stats : Stats]]
      BY <3>2, InsertsHere DEF Inserts, Rows, TypeOK
    <3>3. QED BY <1>2, <3>1, <3>2, Created
  <2>3. QED BY <1>2, <2>1, <2>2 DEF StartCreate, TypeOK, Instances
<1>3. ASSUME NEW c \in Calls, StartClear(c) PROVE TypeOK'
  BY <1>3 DEF StartClear, StartPlaces, TypeOK, data, ghost, vars, GoTo, End, Places
<1>4. ASSUME NEW c \in Calls, StartReset(c) PROVE TypeOK'
  BY <1>4, Typed, UpdatedType DEF StartReset, TypeOK, data, ghost, vars, GoTo, End, Places
<1>5. ASSUME NEW c \in Calls, ReplyInsert(c) PROVE TypeOK'
  <2>1. PICK w \in Weeks, q \in Questions, g \in Given :
          IF answers[w][q] = Null
          THEN /\ answers' = [answers EXCEPT ![w][q] = g]
               /\ Enter(c, "reply", "inserted")
               /\ UNCHANGED inst
          ELSE End(c) /\ UNCHANGED <<answers, overlap>>
    BY <1>5 DEF ReplyInsert
  <2>2. /\ pc' \in [Calls -> Places] /\ inst' \in [Calls -> Instances]
        /\ overlap' \subseteq SUBSET Roles
        /\ answers' \in [Weeks -> [Questions -> Grades \cup {Null}]]
    <3>1. "reply" \in Roles /\ "inserted" \in Places
      BY DEF Roles, Places, ReplyPlaces
    <3>2. CASE answers[w][q] = Null
      <4>1. answers' \in [Weeks -> [Questions -> Grades \cup {Null}]]
        <5>1. g \in Grades /\ answers[w] \in [Questions -> Grades \cup {Null}]
          BY ParametersAssumption DEF TypeOK
        <5>2. [answers[w] EXCEPT ![q] = g] \in [Questions -> Grades \cup {Null}]
          BY <5>1
        <5>3. answers' = [answers EXCEPT ![w] = [answers[w] EXCEPT ![q] = g]]
          BY <2>1, <3>2
        <5>4. QED BY <5>2, <5>3 DEF TypeOK
      <4>2. QED BY <2>1, <3>1, <3>2, <4>1, EnterType DEF TypeOK, Instances
    <3>3. CASE answers[w][q] # Null
      BY <2>1, <3>3, EndType DEF TypeOK
    <3>4. QED BY <3>2, <3>3
  <2>3. QED BY <1>5, <2>2 DEF ReplyInsert, TypeOK, Instances
<1>6. ASSUME NEW c \in Calls, ReplyTally(c) PROVE TypeOK'
  BY <1>6, TallyType DEF ReplyTally, TypeOK, data, ghost, vars, GoTo, End, Places,
     ReplyPlaces
<1>7. ASSUME NEW c \in Calls, ReplyFind(c) PROVE TypeOK'
  <2>1. /\ pc' \in [Calls -> Places] /\ inst' \in [Calls -> Instances]
        /\ tally' \in [Calls -> Stats]
    <3>1. week \in Weeks
      BY DEF TypeOK
    <3>2. CASE ReadStats(c, week) /\ GoTo(c, "found") /\ UNCHANGED tally
      BY <3>1, <3>2, ReadType DEF TypeOK, GoTo, Places, ReplyPlaces
    <3>3. CASE tally' = [tally EXCEPT ![c] = Blank] /\ End(c)
      BY <3>3, EndType, Typed DEF TypeOK
    <3>4. QED BY <1>7, <3>2, <3>3 DEF ReplyFind
  <2>2. QED BY <1>7, <2>1 DEF ReplyFind, TypeOK, data, ghost, Instances
<1>8. ASSUME NEW c \in Calls, ReplySave(c) PROVE TypeOK'
  BY <1>8, Typed, UpdatedType DEF ReplySave, TypeOK, data, ghost, vars, GoTo, End, Places
<1>9. ASSUME NEW c \in Calls, FinishRead(c) PROVE TypeOK'
  <2>1. /\ pc' \in [Calls -> Places] /\ inst' \in [Calls -> Instances]
        /\ overlap' \subseteq SUBSET Roles
    <3>1. "finish" \in Roles /\ "scoring" \in Places
      BY DEF Roles, Places, FinishPlaces
    <3>2. PICK w \in Weeks : IF ended[w] THEN End(c) /\ UNCHANGED overlap
                             ELSE Enter(c, "finish", "scoring") /\ ReadId(c, w)
      BY <1>9 DEF FinishRead
    <3>3. CASE ended[w]
      BY <3>2, <3>3, EndType DEF TypeOK
    <3>4. CASE ~ended[w]
      BY <3>1, <3>2, <3>4, EnterType, ReadType
    <3>5. QED BY <3>3, <3>4
  <2>2. QED BY <1>9, <2>1 DEF FinishRead, TypeOK, data, Instances
<1>10. ASSUME NEW c \in Calls, FinishScore(c) PROVE TypeOK'
  BY <1>10, ScoreType DEF FinishScore, FinishPlaces, TypeOK, data, ghost, vars, GoTo,
     End, Places
<1>11. ASSUME NEW c \in Calls, FinishEnd(c) PROVE TypeOK'
  BY <1>11 DEF FinishEnd, FinishPlaces, TypeOK, data, ghost, vars, GoTo, End, Places
<1>12. ASSUME NEW c \in Calls, FinishAward(c) PROVE TypeOK'
  BY <1>12, Typed DEF FinishAward, TypeOK, data, ghost, vars, GoTo, End, Places
<1>13. ASSUME NEW c \in Calls, Fail(c) PROVE TypeOK'
  BY <1>13, Typed DEF Fail, TypeOK, data, ghost, vars, GoTo, End, Places
<1>14. CASE WeekTurns
  BY <1>14, ParametersAssumption DEF WeekTurns, Weeks, TypeOK, data, ghost, vars, GoTo,
     End, Places
<1>15. CASE Quiet
  BY <1>15 DEF Quiet, TypeOK, vars
<1>16. CASE UNCHANGED vars
  BY <1>16 DEF TypeOK, vars
<1>17. QED BY <1>1, <1>2, <1>3, <1>4, <1>5, <1>6, <1>7, <1>8, <1>9, <1>10, <1>11, <1>12,
              <1>13, <1>14, <1>15, <1>16 DEF Next, Start, Reply, Finish

(* Calls in flight together have met. *)
LEMMA MeetingsStep ==
  ASSUME IInv, [Next]_vars PROVE Meetings'
<1>1. ASSUME NEW c \in Calls, StartFind(c) PROVE Meetings'
  <2>1. \A d \in Calls : d # c => pc'[d] = pc[d]
    BY <1>1 DEF StartFind, IInv, TypeOK, Enter, End
  <2>2. overlap \subseteq overlap'
    BY <1>1 DEF StartFind, Enter
  <2>3. CASE pc'[c] \in StartPlaces /\ overlap' = overlap \cup Met("start")
    BY <2>1, <2>2, <2>3, MetRoles DEF IInv, Meetings, Roles, StartPlaces, ReplyPlaces,
       FinishPlaces
  <2>4. CASE pc'[c] = "done"
    BY <2>1, <2>2, <2>4 DEF IInv, Meetings, StartPlaces, FinishPlaces
  <2>5. QED BY <1>1, <2>3, <2>4 DEF StartFind, IInv, TypeOK, Enter, End, StartPlaces
<1>2. ASSUME NEW c \in Calls, StartCreate(c) PROVE Meetings'
  BY <1>2 DEF StartCreate, IInv, TypeOK, Meetings, data, ghost, GoTo, End, StartPlaces,
     ReplyPlaces, FinishPlaces
<1>3. ASSUME NEW c \in Calls, StartClear(c) PROVE Meetings'
  BY <1>3 DEF StartClear, IInv, TypeOK, Meetings, data, ghost, GoTo, End, StartPlaces,
     ReplyPlaces, FinishPlaces
<1>4. ASSUME NEW c \in Calls, StartReset(c) PROVE Meetings'
  BY <1>4 DEF StartReset, IInv, TypeOK, Meetings, data, ghost, GoTo, End, StartPlaces,
     ReplyPlaces, FinishPlaces
<1>5. ASSUME NEW c \in Calls, ReplyInsert(c) PROVE Meetings'
  <2>1. \A d \in Calls : d # c => pc'[d] = pc[d]
    BY <1>5 DEF ReplyInsert, IInv, TypeOK, Enter, End
  <2>2. overlap \subseteq overlap'
    BY <1>5 DEF ReplyInsert, Enter
  <2>3. CASE pc'[c] \in ReplyPlaces /\ overlap' = overlap \cup Met("reply")
    BY <2>1, <2>2, <2>3, MetRoles DEF IInv, Meetings, Roles, StartPlaces, ReplyPlaces,
       FinishPlaces
  <2>4. CASE pc'[c] = "done"
    BY <2>1, <2>2, <2>4 DEF IInv, Meetings, StartPlaces, FinishPlaces
  <2>5. QED BY <1>5, <2>3, <2>4 DEF ReplyInsert, IInv, TypeOK, Enter, End, ReplyPlaces
<1>6. ASSUME NEW c \in Calls, ReplyTally(c) PROVE Meetings'
  BY <1>6 DEF ReplyTally, IInv, TypeOK, Meetings, data, ghost, GoTo, End, StartPlaces,
     ReplyPlaces, FinishPlaces
<1>7. ASSUME NEW c \in Calls, ReplyFind(c) PROVE Meetings'
  BY <1>7 DEF ReplyFind, IInv, TypeOK, Meetings, data, ghost, GoTo, End, StartPlaces,
     ReplyPlaces, FinishPlaces
<1>8. ASSUME NEW c \in Calls, ReplySave(c) PROVE Meetings'
  BY <1>8 DEF ReplySave, IInv, TypeOK, Meetings, data, ghost, GoTo, End, StartPlaces,
     ReplyPlaces, FinishPlaces
<1>9. ASSUME NEW c \in Calls, FinishRead(c) PROVE Meetings'
  <2>1. \A d \in Calls : d # c => pc'[d] = pc[d]
    BY <1>9 DEF FinishRead, IInv, TypeOK, Enter, End
  <2>2. overlap \subseteq overlap'
    BY <1>9 DEF FinishRead, Enter
  <2>3. CASE pc'[c] \in FinishPlaces /\ overlap' = overlap \cup Met("finish")
    BY <2>1, <2>2, <2>3, MetRoles DEF IInv, Meetings, Roles, StartPlaces, ReplyPlaces,
       FinishPlaces
  <2>4. CASE pc'[c] = "done"
    BY <2>1, <2>2, <2>4 DEF IInv, Meetings, StartPlaces, FinishPlaces
  <2>5. QED BY <1>9, <2>3, <2>4 DEF FinishRead, IInv, TypeOK, Enter, End, FinishPlaces
<1>10. ASSUME NEW c \in Calls, FinishScore(c) PROVE Meetings'
  BY <1>10 DEF FinishScore, IInv, TypeOK, Meetings, data, ghost, GoTo, End, StartPlaces,
     ReplyPlaces, FinishPlaces
<1>11. ASSUME NEW c \in Calls, FinishEnd(c) PROVE Meetings'
  BY <1>11 DEF FinishEnd, IInv, TypeOK, Meetings, data, ghost, GoTo, End, StartPlaces,
     ReplyPlaces, FinishPlaces
<1>12. ASSUME NEW c \in Calls, FinishAward(c) PROVE Meetings'
  BY <1>12 DEF FinishAward, IInv, TypeOK, Meetings, data, ghost, GoTo, End, StartPlaces,
     ReplyPlaces, FinishPlaces
<1>13. ASSUME NEW c \in Calls, Fail(c) PROVE Meetings'
  BY <1>13 DEF Fail, IInv, TypeOK, Meetings, data, ghost, GoTo, End, StartPlaces,
     ReplyPlaces, FinishPlaces
<1>14. CASE WeekTurns
  BY <1>14 DEF WeekTurns, IInv, TypeOK, Meetings, data, ghost, GoTo, End, StartPlaces,
     ReplyPlaces, FinishPlaces
<1>15. CASE Quiet
  BY <1>15 DEF Quiet, vars, IInv, Meetings
<1>16. CASE UNCHANGED vars
  BY <1>16 DEF vars, IInv, Meetings
<1>17. QED BY <1>1, <1>2, <1>3, <1>4, <1>5, <1>6, <1>7, <1>8, <1>9, <1>10, <1>11, <1>12,
              <1>13, <1>14, <1>15, <1>16 DEF Next, Start, Reply, Finish

(* No record, nothing ended. *)
LEMMA NoRecordStep ==
  ASSUME IInv, [Next]_vars PROVE NoRecord'
<1>1. ASSUME NEW c \in Calls, StartFind(c) PROVE NoRecord'
  BY <1>1 DEF StartFind, IInv, TypeOK, NoRecord, data, ghost
<1>2. ASSUME NEW c \in Calls, StartCreate(c) PROVE NoRecord'
  <2>1. CASE UNCHANGED <<attempt, ended>>
    BY <2>1 DEF IInv, NoRecord
  <2>2. ASSUME NEW row \in Rows, Inserts(row) PROVE NoRecord'
    BY <2>2, InsertsHere DEF IInv, NoRecord
  <2>3. QED BY <1>2, <2>1, <2>2, Created DEF IInv
<1>3. ASSUME NEW c \in Calls, StartClear(c) PROVE NoRecord'
  BY <1>3 DEF StartClear, IInv, TypeOK, NoRecord, data, ghost
<1>4. ASSUME NEW c \in Calls, StartReset(c) PROVE NoRecord'
  BY <1>4 DEF StartReset, IInv, TypeOK, NoRecord, data, ghost
<1>5. ASSUME NEW c \in Calls, ReplyInsert(c) PROVE NoRecord'
  BY <1>5 DEF ReplyInsert, IInv, TypeOK, NoRecord, data, ghost
<1>6. ASSUME NEW c \in Calls, ReplyTally(c) PROVE NoRecord'
  BY <1>6 DEF ReplyTally, IInv, TypeOK, NoRecord, data, ghost
<1>7. ASSUME NEW c \in Calls, ReplyFind(c) PROVE NoRecord'
  BY <1>7 DEF ReplyFind, IInv, TypeOK, NoRecord, data, ghost
<1>8. ASSUME NEW c \in Calls, ReplySave(c) PROVE NoRecord'
  BY <1>8 DEF ReplySave, IInv, TypeOK, NoRecord, data, ghost
<1>9. ASSUME NEW c \in Calls, FinishRead(c) PROVE NoRecord'
  BY <1>9 DEF FinishRead, IInv, TypeOK, NoRecord, data, ghost
<1>10. ASSUME NEW c \in Calls, FinishScore(c) PROVE NoRecord'
  BY <1>10 DEF FinishScore, IInv, TypeOK, NoRecord, data, ghost
<1>11. ASSUME NEW c \in Calls, FinishEnd(c) PROVE NoRecord'
  BY <1>11 DEF FinishEnd, Completing, FinishPlaces, IInv, TypeOK, NoRecord, data, ghost
<1>12. ASSUME NEW c \in Calls, FinishAward(c) PROVE NoRecord'
  BY <1>12 DEF FinishAward, IInv, TypeOK, NoRecord, data, ghost
<1>13. ASSUME NEW c \in Calls, Fail(c) PROVE NoRecord'
  BY <1>13 DEF Fail, IInv, TypeOK, NoRecord, data, ghost
<1>14. CASE WeekTurns
  BY <1>14 DEF WeekTurns, IInv, TypeOK, NoRecord, data, ghost
<1>15. CASE Quiet
  BY <1>15 DEF Quiet, vars, IInv, NoRecord
<1>16. CASE UNCHANGED vars
  BY <1>16 DEF vars, IInv, NoRecord
<1>17. QED BY <1>1, <1>2, <1>3, <1>4, <1>5, <1>6, <1>7, <1>8, <1>9, <1>10, <1>11, <1>12,
              <1>13, <1>14, <1>15, <1>16 DEF Next, Start, Reply, Finish

(* What a restart has read stays so. *)
LEMMA RestartingStep ==
  ASSUME IInv, [Next]_vars PROVE Restarting'
<1>1. ASSUME NEW c \in Calls, StartFind(c) PROVE Restarting'
  BY <1>1, ParametersAssumption DEF StartFind, Enter, Read, ReadId, IInv, TypeOK,
     Restarting, data, ghost, GoTo, End, StartPlaces, FinishPlaces
<1>2. ASSUME NEW c \in Calls, StartCreate(c) PROVE Restarting'
  <2>1. \A w \in Weeks : attempt[w] > 0 => attempt'[w] = attempt[w] /\ ended'[w] = ended[w]
    <3>1. ASSUME NEW row \in Rows, Inserts(row), NEW w \in Weeks, attempt[w] > 0
          PROVE  attempt'[w] = attempt[w] /\ ended'[w] = ended[w]
      BY <3>1, InsertsHere DEF IInv
    <3>2. QED BY <1>2, <3>1, Created DEF IInv
  <2>2. \A s \in Calls : pc'[s] \in {"restarting", "cleared"} =>
          pc'[s] = pc[s] /\ inst'[s] = inst[s] /\ inst[s].week \in Weeks
    BY <1>2 DEF StartCreate, IInv, TypeOK, End
  <2>3. UNCHANGED <<kind, overlap>>
    BY <1>2 DEF StartCreate
  <2>4. QED BY <2>1, <2>2, <2>3 DEF IInv, Restarting
<1>3. ASSUME NEW c \in Calls, StartClear(c) PROVE Restarting'
  BY <1>3 DEF StartClear, IInv, TypeOK, Restarting, data, ghost, GoTo, End, StartPlaces,
     FinishPlaces
<1>4. ASSUME NEW c \in Calls, StartReset(c) PROVE Restarting'
  BY <1>4 DEF StartReset, Meetings, IInv, TypeOK, Restarting, data, ghost, GoTo, End,
     StartPlaces, FinishPlaces
<1>5. ASSUME NEW c \in Calls, ReplyInsert(c) PROVE Restarting'
  BY <1>5 DEF ReplyInsert, Enter, IInv, TypeOK, Restarting, data, ghost, GoTo, End,
     StartPlaces, FinishPlaces
<1>6. ASSUME NEW c \in Calls, ReplyTally(c) PROVE Restarting'
  BY <1>6 DEF ReplyTally, IInv, TypeOK, Restarting, data, ghost, GoTo, End, StartPlaces,
     FinishPlaces
<1>7. ASSUME NEW c \in Calls, ReplyFind(c) PROVE Restarting'
  <2>1. \A d \in Calls : pc'[d] \in {"restarting", "cleared"} =>
          pc[d] = pc'[d] /\ inst'[d] = inst[d]
    <3>1. (\E p : pc' = [pc EXCEPT ![c] = p] /\ p \in {"found", "done"})
          /\ \E x : inst' = [inst EXCEPT ![c] = x]
      BY <1>7 DEF ReplyFind, GoTo, End, ReadStats
    <3>2. \A f \in Calls : f # c => pc'[f] = pc[f] /\ inst'[f] = inst[f]
      BY <3>1 DEF IInv, TypeOK
    <3>3. pc'[c] \in {"found", "done"} /\ \A f \in Calls : inst[f].week \in Weeks
      BY <3>1 DEF IInv, TypeOK
    <3>4. QED BY <1>7, <3>2, <3>3 DEF ReplyFind
  <2>2. QED BY <1>7, <2>1 DEF ReplyFind, data, ghost, IInv, TypeOK, Restarting
<1>8. ASSUME NEW c \in Calls, ReplySave(c) PROVE Restarting'
  BY <1>8 DEF ReplySave, IInv, TypeOK, Restarting, data, ghost, GoTo, End, StartPlaces,
     FinishPlaces
<1>9. ASSUME NEW c \in Calls, FinishRead(c) PROVE Restarting'
  <2>1. PICK p, x : /\ pc' = [pc EXCEPT ![c] = p] /\ p \in {"scoring", "done"}
                    /\ inst' = [inst EXCEPT ![c] = x]
    BY <1>9 DEF FinishRead, Enter, ReadId, End
  <2>2. \A d \in Calls : pc'[d] \in {"restarting", "cleared"} =>
          pc'[d] = pc[d] /\ inst'[d] = inst[d]
    BY <2>1 DEF IInv, TypeOK
  <2>3. UNCHANGED data /\ overlap \subseteq overlap'
    BY <1>9 DEF FinishRead, Enter
  <2>4. QED BY <2>2, <2>3 DEF data, Restarting, IInv
<1>10. ASSUME NEW c \in Calls, FinishScore(c) PROVE Restarting'
  BY <1>10 DEF FinishScore, IInv, TypeOK, Restarting, data, ghost, GoTo, End,
     StartPlaces, FinishPlaces
<1>11. ASSUME NEW c \in Calls, FinishEnd(c) PROVE Restarting'
  BY <1>11 DEF FinishEnd, Meetings, IInv, TypeOK, Restarting, data, ghost, GoTo, End,
     StartPlaces, FinishPlaces
<1>12. ASSUME NEW c \in Calls, FinishAward(c) PROVE Restarting'
  BY <1>12 DEF FinishAward, IInv, TypeOK, Restarting, data, ghost, GoTo, End,
     StartPlaces, FinishPlaces
<1>13. ASSUME NEW c \in Calls, Fail(c) PROVE Restarting'
  BY <1>13 DEF Fail, IInv, TypeOK, Restarting, data, ghost, GoTo, End, StartPlaces,
     FinishPlaces
<1>14. CASE WeekTurns
  BY <1>14 DEF WeekTurns, IInv, TypeOK, Restarting, data, ghost, GoTo, End, StartPlaces,
     FinishPlaces
<1>15. CASE Quiet
  BY <1>15 DEF Quiet, vars, IInv, Restarting
<1>16. CASE UNCHANGED vars
  BY <1>16 DEF vars, IInv, Restarting
<1>17. QED BY <1>1, <1>2, <1>3, <1>4, <1>5, <1>6, <1>7, <1>8, <1>9, <1>10, <1>11, <1>12,
              <1>13, <1>14, <1>15, <1>16 DEF Next, Start, Reply, Finish

(* When a record is given to a new attempt, nobody has claimed that one. *)
LEMMA NewAttempt ==
  ASSUME IInv, NEW w \in Weeks, NEW n \in Nat, n > attempt[w],
         attempt' = [attempt EXCEPT ![w] = n], UNCHANGED claim,
         \A v \in Weeks : v # w => ended'[v] = ended[v]
  PROVE  /\ \A f \in Calls : claim'[f] # Null =>
              claim'[f].attempt <= attempt'[claim'[f].week]
         /\ \A f \in Calls : claim'[f] # Here(w)'
         /\ \A f \in Calls, v \in Weeks : claim'[f] = Here(v)' => ended'[v]
<1>1. \A f \in Calls : claim[f] # Null =>
        /\ claim[f] \in [week : Weeks, attempt : Nat]
        /\ claim[f].attempt <= attempt[claim[f].week]
  BY DEF IInv, TypeOK, Claims
<1>2. \A v \in Weeks : attempt[v] \in Nat /\ attempt'[v] = IF v = w THEN n ELSE attempt[v]
  BY DEF IInv, TypeOK
<1>3. \A f \in Calls : claim'[f] # Null => claim'[f].attempt <= attempt'[claim'[f].week]
  BY <1>1, <1>2
<1>4. ASSUME NEW f \in Calls PROVE claim'[f] # Here(w)'
  <2>1. SUFFICES ASSUME claim[f] = [week |-> w, attempt |-> n] PROVE FALSE
    BY <1>2 DEF Here
  <2>2. claim[f] # Null
    BY <2>1, ParametersAssumption
  <2>3. QED BY <1>1, <1>2, <2>1, <2>2
<1>5. ASSUME NEW f \in Calls, NEW v \in Weeks, claim'[f] = Here(v)' PROVE ended'[v]
  <2>1. v # w
    BY <1>4, <1>5
  <2>2. claim[f] = Here(v)
    BY <1>2, <1>5, <2>1 DEF Here
  <2>3. QED BY <2>1, <2>2 DEF IInv, Claims
<1>6. QED BY <1>3, <1>4, <1>5

(* A completed attempt stays ended. *)
LEMMA ClaimsStep ==
  ASSUME IInv, [Next]_vars PROVE Claims'
<1>1. ASSUME NEW c \in Calls, StartFind(c) PROVE Claims'
  BY <1>1 DEF StartFind, Enter, Read, ReadId, IInv, TypeOK, Claims, Here, data, ghost,
     GoTo, End
<1>2. ASSUME NEW c \in Calls, StartCreate(c) PROVE Claims'
  <2>1. CASE UNCHANGED <<attempt, ended>>
    BY <1>2, <2>1 DEF StartCreate, IInv, TypeOK, Claims, Here, data, ghost, GoTo, End
  <2>2. ASSUME NEW row \in Rows, Inserts(row) PROVE Claims'
    <3>1. /\ \A f \in Calls : claim'[f] # Null => claim'[f].attempt <= attempt'[claim'[f].week]
          /\ \A f \in Calls, v \in Weeks : claim'[f] = Here(v)' => ended'[v]
      <4>1. /\ week \in Weeks /\ 1 \in Nat /\ 1 > attempt[week]
            /\ UNCHANGED claim /\ \A v \in Weeks : v # week => ended'[v] = ended[v]
        BY <1>2, <2>2, InsertsHere DEF StartCreate, IInv
      <4>2. QED BY <2>2, <4>1, NewAttempt DEF Inserts
    <3>2. QED BY <1>2, <3>1 DEF StartCreate, IInv, TypeOK, Claims, ghost, GoTo, End
  <2>3. QED BY <1>2, <2>1, <2>2, Created DEF IInv
<1>3. ASSUME NEW c \in Calls, StartClear(c) PROVE Claims'
  BY <1>3 DEF StartClear, IInv, TypeOK, Claims, Here, data, ghost, GoTo, End
<1>4. ASSUME NEW c \in Calls, StartReset(c) PROVE Claims'
  <2>1. /\ \A f \in Calls : claim'[f] # Null => claim'[f].attempt <= attempt'[claim'[f].week]
        /\ \A f \in Calls, v \in Weeks : claim'[f] = Here(v)' => ended'[v]
    <3>1. /\ inst[c].week \in Weeks /\ attempt[inst[c].week] + 1 \in Nat
          /\ attempt[inst[c].week] + 1 > attempt[inst[c].week]
      BY DEF IInv, TypeOK
    <3>2. /\ attempt' = [attempt EXCEPT ![inst[c].week] = attempt[inst[c].week] + 1]
          /\ \A v \in Weeks : v # inst[c].week => ended'[v] = ended[v]
          /\ UNCHANGED claim
      BY <1>4 DEF StartReset, IInv, TypeOK, ghost
    <3>3. QED BY <3>1, <3>2, NewAttempt
  <2>2. QED BY <1>4, <2>1 DEF StartReset, IInv, TypeOK, Claims, ghost, End
<1>5. ASSUME NEW c \in Calls, ReplyInsert(c) PROVE Claims'
  BY <1>5 DEF ReplyInsert, Enter, IInv, TypeOK, Claims, Here, data, ghost, GoTo, End
<1>6. ASSUME NEW c \in Calls, ReplyTally(c) PROVE Claims'
  BY <1>6 DEF ReplyTally, IInv, TypeOK, Claims, Here, data, ghost, GoTo, End
<1>7. ASSUME NEW c \in Calls, ReplyFind(c) PROVE Claims'
  BY <1>7 DEF ReplyFind, IInv, TypeOK, Claims, Here, data, ghost, GoTo, End
<1>8. ASSUME NEW c \in Calls, ReplySave(c) PROVE Claims'
  BY <1>8 DEF ReplySave, IInv, TypeOK, Claims, Here, data, ghost, GoTo, End
<1>9. ASSUME NEW c \in Calls, FinishRead(c) PROVE Claims'
  BY <1>9 DEF FinishRead, Enter, ReadId, IInv, TypeOK, Claims, Here, data, ghost, GoTo,
     End
<1>10. ASSUME NEW c \in Calls, FinishScore(c) PROVE Claims'
  BY <1>10 DEF FinishScore, IInv, TypeOK, Claims, Here, data, ghost, GoTo, End
<1>11. ASSUME NEW c \in Calls, FinishEnd(c) PROVE Claims'
  BY <1>11, ParametersAssumption DEF FinishEnd, IInv, TypeOK, Claims, Here, data, ghost,
     GoTo, End
<1>12. ASSUME NEW c \in Calls, FinishAward(c) PROVE Claims'
  BY <1>12 DEF FinishAward, IInv, TypeOK, Claims, Here, data, ghost, GoTo, End
<1>13. ASSUME NEW c \in Calls, Fail(c) PROVE Claims'
  BY <1>13 DEF Fail, InFlight, IInv, TypeOK, Claims, Here, data, ghost, GoTo, End
<1>14. CASE WeekTurns
  BY <1>14 DEF WeekTurns, IInv, TypeOK, Claims, Here, data, ghost, GoTo, End
<1>15. CASE Quiet
  BY <1>15 DEF Quiet, vars, IInv, Claims, Here
<1>16. CASE UNCHANGED vars
  BY <1>16 DEF vars, IInv, Claims, Here
<1>17. QED BY <1>1, <1>2, <1>3, <1>4, <1>5, <1>6, <1>7, <1>8, <1>9, <1>10, <1>11, <1>12,
              <1>13, <1>14, <1>15, <1>16 DEF Next, Start, Reply, Finish

(* Before it writes, a completion is the first of its attempt. *)
LEMMA CompletingStep ==
  ASSUME IInv, [Next]_vars PROVE Completing'
<1>1. ASSUME NEW c \in Calls, StartFind(c) PROVE Completing'
  BY <1>1 DEF StartFind, Enter, Read, ReadId, IInv, TypeOK, Completing, Here, data,
     ghost, GoTo, End, FinishPlaces
<1>2. ASSUME NEW c \in Calls, StartCreate(c) PROVE Completing'
  <2>1. \A f \in Calls : pc'[f] \in FinishPlaces =>
          f # c /\ pc'[f] = pc[f] /\ inst'[f] = inst[f] /\ inst[f].week \in Weeks
    BY <1>2 DEF StartCreate, IInv, TypeOK, ghost, GoTo, End, FinishPlaces
  <2>2. \A w \in Weeks : attempt[w] > 0 =>
          /\ attempt'[w] > 0
          /\ (\A g \in Calls : claim[g] # Here(w)) => (\A g \in Calls : claim'[g] # Here(w)')
    <3>1. CASE UNCHANGED attempt
      BY <1>2, <3>1 DEF StartCreate, IInv, TypeOK, ghost, Here
    <3>2. ASSUME NEW row \in Rows, Inserts(row), NEW w \in Weeks, attempt[w] > 0
          PROVE  /\ attempt'[w] > 0
                 /\ (\A g \in Calls : claim[g] # Here(w)) =>
                      (\A g \in Calls : claim'[g] # Here(w)')
      <4>1. attempt'[w] = attempt[w] /\ UNCHANGED claim
        BY <1>2, <3>2, InsertsHere DEF StartCreate, IInv
      <4>2. QED BY <3>2, <4>1 DEF Here
    <3>3. QED BY <1>2, <3>1, <3>2, Created DEF IInv
  <2>3. UNCHANGED overlap
    BY <1>2 DEF StartCreate, ghost
  <2>4. QED BY <2>1, <2>2, <2>3 DEF IInv, Completing, FinishPlaces
<1>3. ASSUME NEW c \in Calls, StartClear(c) PROVE Completing'
  BY <1>3 DEF StartClear, IInv, TypeOK, Completing, Here, data, ghost, GoTo, End,
     FinishPlaces
<1>4. ASSUME NEW c \in Calls, StartReset(c) PROVE Completing'
  <2>1. \A f \in Calls : pc'[f] \in FinishPlaces =>
          f # c /\ pc'[f] = pc[f] /\ inst'[f] = inst[f] /\ inst[f].week \in Weeks
    BY <1>4 DEF StartReset, IInv, TypeOK, ghost, GoTo, End, FinishPlaces
  <2>2. \A w \in Weeks : attempt[w] > 0 =>
          /\ attempt'[w] > 0
          /\ (\A g \in Calls : claim[g] # Here(w)) => (\A g \in Calls : claim'[g] # Here(w)')
    <3>1. PICK w \in Weeks : w = inst[c].week
      BY DEF IInv, TypeOK
    <3>2. /\ attempt[w] + 1 \in Nat /\ attempt[w] + 1 > attempt[w]
          /\ attempt' = [attempt EXCEPT ![w] = attempt[w] + 1]
          /\ \A v \in Weeks : v # w => ended'[v] = ended[v]
          /\ UNCHANGED claim
      BY <1>4, <3>1 DEF StartReset, IInv, TypeOK, ghost
    <3>3. \A f \in Calls : claim'[f] # Here(w)'
      BY <3>2, NewAttempt
    <3>4. ASSUME NEW v \in Weeks, attempt[v] > 0
          PROVE  /\ attempt'[v] > 0
                 /\ (\A g \in Calls : claim[g] # Here(v)) => (\A g \in Calls : claim'[g] # Here(v)')
      <4>1. CASE v = w
        BY <3>2, <3>3, <4>1 DEF IInv, TypeOK
      <4>2. CASE v # w
        BY <3>2, <3>4, <4>2 DEF IInv, TypeOK, Here
      <4>3. QED BY <4>1, <4>2
    <3>5. QED BY <3>4
  <2>3. UNCHANGED overlap
    BY <1>4 DEF StartReset, ghost
  <2>4. QED BY <2>1, <2>2, <2>3 DEF IInv, Completing, FinishPlaces
<1>5. ASSUME NEW c \in Calls, ReplyInsert(c) PROVE Completing'
  BY <1>5 DEF ReplyInsert, Enter, IInv, TypeOK, Completing, Here, data, ghost, GoTo,
     End, FinishPlaces
<1>6. ASSUME NEW c \in Calls, ReplyTally(c) PROVE Completing'
  BY <1>6 DEF ReplyTally, IInv, TypeOK, Completing, Here, data, ghost, GoTo, End,
     FinishPlaces
<1>7. ASSUME NEW c \in Calls, ReplyFind(c) PROVE Completing'
  <2>1. \A f \in Calls : pc'[f] \in FinishPlaces =>
          f # c /\ pc'[f] = pc[f] /\ inst'[f] = inst[f] /\ inst[f].week \in Weeks
    <3>1. (\E p : pc' = [pc EXCEPT ![c] = p] /\ p \in {"found", "done"})
          /\ \E x : inst' = [inst EXCEPT ![c] = x]
      BY <1>7 DEF ReplyFind, GoTo, End, ReadStats
    <3>2. \A f \in Calls : f # c => pc'[f] = pc[f] /\ inst'[f] = inst[f]
      BY <3>1 DEF IInv, TypeOK
    <3>3. pc'[c] \in {"found", "done"} /\ \A f \in Calls : inst[f].week \in Weeks
      BY <3>1 DEF IInv, TypeOK
    <3>4. QED BY <1>7, <3>2, <3>3 DEF ReplyFind, FinishPlaces
  <2>2. QED BY <1>7, <2>1 DEF ReplyFind, data, ghost, IInv, Completing, Here, FinishPlaces
<1>8. ASSUME NEW c \in Calls, ReplySave(c) PROVE Completing'
  BY <1>8 DEF ReplySave, IInv, TypeOK, Completing, Here, data, ghost, GoTo, End,
     FinishPlaces
<1>9. ASSUME NEW c \in Calls, FinishRead(c) PROVE Completing'
  <2>1. PICK w \in Weeks :
          /\ attempt[w] > 0
          /\ IF ended[w] THEN End(c) /\ UNCHANGED overlap
             ELSE Enter(c, "finish", "scoring") /\ ReadId(c, w)
    BY <1>9 DEF FinishRead
  <2>2. UNCHANGED <<attempt, claim>> /\ overlap \subseteq overlap'
    BY <1>9, <2>1 DEF FinishRead, data, Enter
  <2>3. \A f \in Calls : f # c => pc'[f] = pc[f] /\ inst'[f] = inst[f]
    BY <2>1 DEF IInv, TypeOK, End, Enter, ReadId
  <2>4. CASE ended[w]
    BY <2>1, <2>2, <2>3, <2>4 DEF IInv, TypeOK, Completing, End, Here, FinishPlaces
  <2>5. CASE ~ended[w]
    <3>1. pc'[c] = "scoring" /\ inst'[c].week = w
      BY <2>1, <2>5, Typed DEF IInv, TypeOK, Enter, ReadId
    <3>2. \A g \in Calls : claim[g] # Here(w)
      BY <2>5 DEF IInv, Claims
    <3>3. QED BY <2>1, <2>2, <2>3, <3>1, <3>2 DEF IInv, TypeOK, Completing, Here,
                 FinishPlaces
  <2>6. QED BY <2>4, <2>5
<1>10. ASSUME NEW c \in Calls, FinishScore(c) PROVE Completing'
  BY <1>10 DEF FinishScore, IInv, TypeOK, Completing, Here, data, ghost, GoTo, End,
     FinishPlaces
<1>11. ASSUME NEW c \in Calls, FinishEnd(c) PROVE Completing'
  BY <1>11 DEF FinishEnd, Meetings, IInv, TypeOK, Completing, Here, data, ghost, GoTo,
     End, FinishPlaces
<1>12. ASSUME NEW c \in Calls, FinishAward(c) PROVE Completing'
  BY <1>12 DEF FinishAward, IInv, TypeOK, Completing, Here, data, ghost, GoTo, End,
     FinishPlaces
<1>13. ASSUME NEW c \in Calls, Fail(c) PROVE Completing'
  BY <1>13 DEF Fail, IInv, TypeOK, Completing, Here, data, ghost, GoTo, End, FinishPlaces
<1>14. CASE WeekTurns
  BY <1>14 DEF WeekTurns, IInv, TypeOK, Completing, Here, data, ghost, GoTo, End,
     FinishPlaces
<1>15. CASE Quiet
  BY <1>15 DEF Quiet, vars, IInv, Completing, Here
<1>16. CASE UNCHANGED vars
  BY <1>16 DEF vars, IInv, Completing, Here
<1>17. QED BY <1>1, <1>2, <1>3, <1>4, <1>5, <1>6, <1>7, <1>8, <1>9, <1>10, <1>11, <1>12,
              <1>13, <1>14, <1>15, <1>16 DEF Next, Start, Reply, Finish

(* An attempt that was inserted ended is left to itself until it is        *)
(* restarted as a later one.                                               *)
LEMMA BornOverStep ==
  ASSUME IInv, [Next]_vars PROVE BornOver'
<1> USE DEF IInv, TypeOK
<1>a. ASSUME UNCHANGED <<attempt, born, ended, claim>>,
             \A f \in Calls : pc'[f] \in FinishPlaces =>
               pc[f] \in FinishPlaces /\ inst'[f] = inst[f]
      PROVE  BornOver'
  BY <1>a DEF BornOver, SentOver, Here
<1>1. ASSUME NEW c \in Calls, StartFind(c) \/ StartClear(c) PROVE BornOver'
  BY <1>1, <1>a DEF StartFind, StartClear, Enter, Read, End, GoTo, data, ghost,
     FinishPlaces
<1>2. ASSUME NEW c \in Calls, StartCreate(c) PROVE BornOver'
  <2>1. \A f \in Calls : pc'[f] \in FinishPlaces =>
          pc[f] \in FinishPlaces /\ inst'[f] = inst[f]
    BY <1>2 DEF StartCreate, End, FinishPlaces
  <2>2. CASE UNCHANGED <<attempt, ended, born>>
    BY <1>2, <1>a, <2>1, <2>2 DEF StartCreate
  <2>3. ASSUME NEW row \in Rows, Inserts(row) PROVE BornOver'
    <3>1. attempt' = [attempt EXCEPT ![week] = 1]
      BY <2>3 DEF Inserts
    <3>2. week \in Weeks /\ 1 \in Nat /\ 1 > attempt[week] /\ UNCHANGED <<week, claim>>
      BY <1>2, <2>3, InsertsHere DEF StartCreate
    <3>3. \A v \in Weeks : v # week =>
            attempt'[v] = attempt[v] /\ ended'[v] = ended[v] /\ born'[v] = born[v]
      BY <2>3, InsertsHere
    <3>4. \A f \in Calls : claim'[f] # Here(week)'
      BY <3>1, <3>2, <3>3, NewAttempt
    <3>5. SentOver(week)' => ended'[week]
      BY <2>3, <3>2, InsertsHere DEF SentOver
    <3>6. \A f \in Calls : pc[f] \in FinishPlaces => inst[f].week # week
      BY <2>3 DEF Completing, Inserts
    <3>7. \A f \in Calls : pc'[f] \in FinishPlaces => inst'[f].week # week
      BY <2>1, <3>6
    <3>8. ASSUME NEW v \in Weeks, v # week, SentOver(v)'
          PROVE  /\ ended'[v]
                 /\ \A f \in Calls : claim'[f] # Here(v)'
                      /\ ~(pc'[f] \in FinishPlaces /\ inst'[f].week = v)
      <4>1. SentOver(v) /\ Here(v)' = Here(v) /\ ended'[v] = ended[v]
        BY <3>3, <3>8 DEF SentOver, Here
      <4>2. QED BY <2>1, <3>2, <4>1 DEF BornOver
    <3>9. ASSUME NEW v \in Weeks, v = week, SentOver(v)'
          PROVE  /\ ended'[v]
                 /\ \A f \in Calls : claim'[f] # Here(v)'
                      /\ ~(pc'[f] \in FinishPlaces /\ inst'[f].week = v)
      <4>1. v = week'
        BY <3>2, <3>9
      <4>2. ended'[v]
        BY <3>5, <3>9, <4>1 DEF SentOver
      <4>3. \A f \in Calls : claim'[f] # Here(v)'
        BY <3>4, <4>1 DEF Here
      <4>4. QED BY <3>7, <3>9, <4>2, <4>3
    <3>10. QED BY <3>8, <3>9 DEF BornOver
  <2>4. QED BY <1>2, <2>2, <2>3, Created
<1>3. ASSUME NEW c \in Calls, StartReset(c) PROVE BornOver'
  <2>1. \A f \in Calls : pc'[f] \in FinishPlaces =>
          pc[f] \in FinishPlaces /\ inst'[f] = inst[f]
    BY <1>3 DEF StartReset, End, FinishPlaces
  <2>2. PICK w \in Weeks : w = inst[c].week
    OBVIOUS
  <2>3. /\ UNCHANGED <<born, claim>> /\ attempt' = [attempt EXCEPT ![w] = attempt[w] + 1]
        /\ \A v \in Weeks : v # w => attempt'[v] = attempt[v] /\ ended'[v] = ended[v]
    BY <1>3, <2>2 DEF StartReset, ghost
  <2>4. ~SentOver(w)'
    <3>1. attempt[w] > 0 /\ attempt[w] \in Nat
      BY <1>3, <2>2 DEF StartReset, Restarting
    <3>2. attempt'[w] = attempt[w] + 1
      BY <2>3
    <3>3. QED BY <3>1, <3>2 DEF SentOver
  <2>5. ASSUME NEW v \in Weeks, SentOver(v)'
        PROVE  /\ ended'[v]
               /\ \A f \in Calls : claim'[f] # Here(v)'
                    /\ ~(pc'[f] \in FinishPlaces /\ inst'[f].week = v)
    <3>1. v # w /\ SentOver(v) /\ Here(v)' = Here(v)
      BY <2>3, <2>4, <2>5 DEF SentOver, Here
    <3>2. QED BY <2>1, <2>3, <3>1 DEF BornOver
  <2>6. QED BY <2>5 DEF BornOver
<1>4. ASSUME NEW c \in Calls, Reply(c) PROVE BornOver'
  <2>1. /\ UNCHANGED <<attempt, born, ended, claim>>
        /\ \A f \in Calls : f # c => pc'[f] = pc[f] /\ inst'[f] = inst[f]
        /\ pc'[c] \notin FinishPlaces
    BY <1>4 DEF Reply, ReplyInsert, ReplyTally, ReplyFind, ReplySave, Enter, ReadStats,
       End, GoTo, data, ghost, FinishPlaces
  <2>2. QED BY <1>a, <2>1
<1>5. ASSUME NEW c \in Calls, FinishRead(c) PROVE BornOver'
  <2>1. PICK w \in Weeks :
          IF ended[w] THEN End(c) /\ UNCHANGED overlap
          ELSE Enter(c, "finish", "scoring") /\ ReadId(c, w)
    BY <1>5 DEF FinishRead
  <2>2. /\ UNCHANGED <<attempt, born, ended, claim>>
        /\ \A f \in Calls : f # c => pc'[f] = pc[f] /\ inst'[f] = inst[f]
    BY <1>5, <2>1 DEF FinishRead, Enter, ReadId, End, data
  <2>3. pc'[c] \in FinishPlaces => ~ended[w] /\ inst'[c].week = w
    BY <2>1, Typed DEF Enter, ReadId, End, FinishPlaces
  <2>4. QED BY <2>2, <2>3 DEF BornOver, SentOver, Here
<1>6. ASSUME NEW c \in Calls, FinishScore(c) \/ FinishAward(c) \/ Fail(c) PROVE BornOver'
  BY <1>6, <1>a DEF FinishScore, FinishAward, Fail, GoTo, End, data, ghost, FinishPlaces
<1>7. ASSUME NEW c \in Calls, FinishEnd(c) PROVE BornOver'
  <2>1. /\ UNCHANGED <<attempt, born, inst>> /\ inst[c].week \in Weeks
        /\ \A f \in Calls : f # c => pc'[f] = pc[f] /\ claim'[f] = claim[f]
        /\ claim'[c] = Here(inst[c].week) /\ pc[c] \in FinishPlaces
        /\ \A v \in Weeks : ended[v] => ended'[v]
    BY <1>7 DEF FinishEnd, GoTo, FinishPlaces, Here
  <2>2. ~SentOver(inst[c].week)
    BY <2>1 DEF BornOver
  <2>3. ASSUME NEW v \in Weeks, SentOver(v)'
        PROVE  /\ ended'[v]
               /\ \A f \in Calls : claim'[f] # Here(v)'
                    /\ ~(pc'[f] \in FinishPlaces /\ inst'[f].week = v)
    <3>1. v # inst[c].week /\ SentOver(v) /\ Here(v)' = Here(v)
      BY <2>1, <2>2, <2>3 DEF SentOver, Here
    <3>2. Here(v) # Here(inst[c].week)
      BY <3>1 DEF Here
    <3>3. /\ ended[v]
          /\ \A f \in Calls :
               claim[f] # Here(v) /\ ~(pc[f] \in FinishPlaces /\ inst[f].week = v)
      BY <3>1 DEF BornOver
    <3>4. ended'[v]
      BY <2>1, <3>3
    <3>5. ASSUME NEW f \in Calls PROVE claim'[f] # Here(v)'
      BY <2>1, <3>1, <3>2, <3>3
    <3>6. ASSUME NEW f \in Calls, pc'[f] \in FinishPlaces PROVE inst'[f].week # v
      BY <2>1, <3>1, <3>3, <3>6
    <3>7. QED BY <3>4, <3>5, <3>6
  <2>4. QED BY <2>3 DEF BornOver
<1>8. CASE WeekTurns \/ Quiet \/ UNCHANGED vars
  BY <1>8, <1>a DEF WeekTurns, Quiet, vars, ghost
<1>9. QED BY <1>1, <1>2, <1>3, <1>4, <1>5, <1>6, <1>7, <1>8 DEF Next, Start, Finish

(* Two completions of one attempt have met. *)
LEMMA ClaimsDifferStep ==
  ASSUME IInv, [Next]_vars PROVE ClaimsDiffer'
<1>1. ASSUME NEW c \in Calls, StartFind(c) PROVE ClaimsDiffer'
  BY <1>1 DEF StartFind, Enter, IInv, TypeOK, ClaimsDiffer, ghost
<1>2. ASSUME NEW c \in Calls, StartCreate(c) PROVE ClaimsDiffer'
  BY <1>2 DEF StartCreate, IInv, TypeOK, ClaimsDiffer, ghost
<1>3. ASSUME NEW c \in Calls, StartClear(c) PROVE ClaimsDiffer'
  BY <1>3 DEF StartClear, IInv, TypeOK, ClaimsDiffer, ghost
<1>4. ASSUME NEW c \in Calls, StartReset(c) PROVE ClaimsDiffer'
  BY <1>4 DEF StartReset, IInv, TypeOK, ClaimsDiffer, ghost
<1>5. ASSUME NEW c \in Calls, ReplyInsert(c) PROVE ClaimsDiffer'
  BY <1>5 DEF ReplyInsert, Enter, IInv, TypeOK, ClaimsDiffer, ghost
<1>6. ASSUME NEW c \in Calls, ReplyTally(c) PROVE ClaimsDiffer'
  BY <1>6 DEF ReplyTally, IInv, TypeOK, ClaimsDiffer, ghost
<1>7. ASSUME NEW c \in Calls, ReplyFind(c) PROVE ClaimsDiffer'
  BY <1>7 DEF ReplyFind, IInv, TypeOK, ClaimsDiffer, ghost
<1>8. ASSUME NEW c \in Calls, ReplySave(c) PROVE ClaimsDiffer'
  BY <1>8 DEF ReplySave, IInv, TypeOK, ClaimsDiffer, ghost
<1>9. ASSUME NEW c \in Calls, FinishRead(c) PROVE ClaimsDiffer'
  BY <1>9 DEF FinishRead, Enter, IInv, TypeOK, ClaimsDiffer, ghost
<1>10. ASSUME NEW c \in Calls, FinishScore(c) PROVE ClaimsDiffer'
  BY <1>10 DEF FinishScore, IInv, TypeOK, ClaimsDiffer, ghost
<1>11. ASSUME NEW c \in Calls, FinishEnd(c) PROVE ClaimsDiffer'
  <2>1. claim' = [claim EXCEPT ![c] = Here(inst[c].week)] /\ UNCHANGED overlap
    BY <1>11 DEF FinishEnd, Here
  <2>2. {"finish"} \notin overlap => \A g \in Calls : claim[g] # Here(inst[c].week)
    BY <1>11 DEF FinishEnd, IInv, Completing
  <2>3. QED BY <2>1, <2>2 DEF IInv, TypeOK, ClaimsDiffer
<1>12. ASSUME NEW c \in Calls, FinishAward(c) PROVE ClaimsDiffer'
  BY <1>12 DEF FinishAward, IInv, TypeOK, ClaimsDiffer, ghost
<1>13. ASSUME NEW c \in Calls, Fail(c) PROVE ClaimsDiffer'
  BY <1>13 DEF Fail, IInv, TypeOK, ClaimsDiffer, ghost
<1>14. CASE WeekTurns
  BY <1>14 DEF WeekTurns, IInv, TypeOK, ClaimsDiffer, ghost
<1>15. CASE Quiet
  BY <1>15 DEF Quiet, vars, IInv, ClaimsDiffer
<1>16. CASE UNCHANGED vars
  BY <1>16 DEF vars, IInv, ClaimsDiffer
<1>17. QED BY <1>1, <1>2, <1>3, <1>4, <1>5, <1>6, <1>7, <1>8, <1>9, <1>10, <1>11, <1>12,
              <1>13, <1>14, <1>15, <1>16 DEF Next, Start, Reply, Finish

(* Every step keeps the link from an ended attempt to its completion. *)
LEMMA EndedStep ==
  ASSUME IInv, [Next]_vars PROVE EndedByItsCompletion'
<1>1. ASSUME NEW c \in Calls, StartFind(c) PROVE EndedByItsCompletion'
  <2>1. \A f \in Calls : f # c => pc'[f] = pc[f]
    BY <1>1 DEF StartFind, IInv, TypeOK, Enter, GoTo, End
  <2>2. \A f \in Calls : f \in paid \/ pc[f] \in {"awarding", "failed"} =>
          f \in paid' \/ pc'[f] \in {"awarding", "failed"}
    BY <1>1, <2>1 DEF StartFind, IInv, TypeOK, Claims, InFlight, data, ghost, GoTo, End
  <2>3. UNCHANGED <<kind, attempt, ended, born, claim>> /\ overlap \subseteq overlap'
    BY <1>1 DEF StartFind, data, ghost, Enter
  <2>4. QED BY <2>2, <2>3 DEF IInv, EndedByItsCompletion, SentOver
<1>2. ASSUME NEW c \in Calls, StartCreate(c) PROVE EndedByItsCompletion'
  <2>1. \A f \in Calls : f \in paid \/ pc[f] \in {"awarding", "failed"} =>
          f \in paid' \/ pc'[f] \in {"awarding", "failed"}
    BY <1>2 DEF StartCreate, IInv, TypeOK, Claims, ghost, GoTo, End
  <2>2. UNCHANGED <<kind, week, claim, overlap>>
    BY <1>2 DEF StartCreate
  <2>3. CASE UNCHANGED <<attempt, ended, born>>
    BY <2>1, <2>2, <2>3 DEF IInv, EndedByItsCompletion, SentOver
  <2>4. ASSUME NEW row \in Rows, Inserts(row) PROVE EndedByItsCompletion'
    <3>1. attempt' = [attempt EXCEPT ![week] = 1]
      BY <2>4 DEF Inserts
    <3>2. week \in Weeks /\ 1 \in Nat /\ 1 > attempt[week]
      BY <2>4, InsertsHere DEF IInv
    <3>3. \A f \in Calls : claim'[f] # Here(week)'
      <4>1. \A v \in Weeks : v # week => ended'[v] = ended[v]
        BY <2>4, InsertsHere DEF IInv
      <4>2. QED BY <2>2, <3>1, <3>2, <4>1, NewAttempt
    <3>4. ended'[week] => SentOver(week)'
      BY <1>2, <2>4, InsertsHere DEF StartCreate, IInv, SentOver
    <3>5. \A w \in Weeks : w # week =>
            attempt'[w] = attempt[w] /\ ended'[w] = ended[w] /\ born'[w] = born[w]
      BY <2>4, InsertsHere DEF IInv
    <3>6. QED BY <2>1, <2>2, <3>3, <3>4, <3>5 DEF IInv, EndedByItsCompletion,
                 SentOver, Here
  <2>5. QED BY <1>2, <2>3, <2>4, Created DEF IInv
<1>3. ASSUME NEW c \in Calls, StartClear(c) PROVE EndedByItsCompletion'
  <2>1. \A f \in Calls : f # c => pc'[f] = pc[f]
    BY <1>3 DEF StartClear, IInv, TypeOK, GoTo, End
  <2>2. \A f \in Calls : f \in paid \/ pc[f] \in {"awarding", "failed"} =>
          f \in paid' \/ pc'[f] \in {"awarding", "failed"}
    BY <1>3, <2>1 DEF StartClear, IInv, TypeOK, Claims, InFlight, data, ghost, GoTo, End
  <2>3. UNCHANGED <<kind, attempt, ended, born, claim>> /\ overlap \subseteq overlap'
    BY <1>3 DEF StartClear, data, ghost, Enter
  <2>4. QED BY <2>2, <2>3 DEF IInv, EndedByItsCompletion, SentOver
<1>4. ASSUME NEW c \in Calls, StartReset(c) PROVE EndedByItsCompletion'
  <2>1. \A f \in Calls : f \in paid \/ pc[f] \in {"awarding", "failed"} =>
          f \in paid' \/ pc'[f] \in {"awarding", "failed"}
    BY <1>4 DEF StartReset, IInv, TypeOK, Claims, ghost, End
  <2>2. UNCHANGED <<kind, born, claim, overlap>> /\ inst[c].week \in Weeks
    BY <1>4 DEF StartReset, IInv, TypeOK, ghost
  <2>3. \A w \in Weeks : w # inst[c].week => attempt'[w] = attempt[w] /\ ended'[w] = ended[w]
    BY <1>4 DEF StartReset, IInv, TypeOK
  <2>4. kind = "quiz" \/ {"start", "finish"} \notin overlap => ~ended'[inst[c].week]
    <3>1. CASE inst[c].ended
      BY <1>4, <2>2, <3>1 DEF StartReset, IInv, TypeOK
    <3>2. CASE ~inst[c].ended
      BY <1>4, <2>2, <3>2 DEF StartReset, IInv, Restarting
    <3>3. QED BY <3>1, <3>2
  <2>5. QED BY <2>1, <2>2, <2>3, <2>4 DEF IInv, EndedByItsCompletion, SentOver
<1>5. ASSUME NEW c \in Calls, ReplyInsert(c) PROVE EndedByItsCompletion'
  <2>1. \A f \in Calls : f # c => pc'[f] = pc[f]
    BY <1>5 DEF ReplyInsert, IInv, TypeOK, Enter, GoTo, End
  <2>2. \A f \in Calls : f \in paid \/ pc[f] \in {"awarding", "failed"} =>
          f \in paid' \/ pc'[f] \in {"awarding", "failed"}
    BY <1>5, <2>1 DEF ReplyInsert, IInv, TypeOK, Claims, InFlight, data, ghost, GoTo, End
  <2>3. UNCHANGED <<kind, attempt, ended, born, claim>> /\ overlap \subseteq overlap'
    BY <1>5 DEF ReplyInsert, data, ghost, Enter
  <2>4. QED BY <2>2, <2>3 DEF IInv, EndedByItsCompletion, SentOver
<1>6. ASSUME NEW c \in Calls, ReplyTally(c) PROVE EndedByItsCompletion'
  <2>1. \A f \in Calls : f # c => pc'[f] = pc[f]
    BY <1>6 DEF ReplyTally, IInv, TypeOK, GoTo, End
  <2>2. \A f \in Calls : f \in paid \/ pc[f] \in {"awarding", "failed"} =>
          f \in paid' \/ pc'[f] \in {"awarding", "failed"}
    BY <1>6, <2>1 DEF ReplyTally, IInv, TypeOK, Claims, InFlight, data, ghost, GoTo, End
  <2>3. UNCHANGED <<kind, attempt, ended, born, claim>> /\ overlap \subseteq overlap'
    BY <1>6 DEF ReplyTally, data, ghost, Enter
  <2>4. QED BY <2>2, <2>3 DEF IInv, EndedByItsCompletion, SentOver
<1>7. ASSUME NEW c \in Calls, ReplyFind(c) PROVE EndedByItsCompletion'
  <2>1. \A f \in Calls : f # c => pc'[f] = pc[f]
    BY <1>7 DEF ReplyFind, IInv, TypeOK, GoTo, End
  <2>2. \A f \in Calls : f \in paid \/ pc[f] \in {"awarding", "failed"} =>
          f \in paid' \/ pc'[f] \in {"awarding", "failed"}
    BY <1>7, <2>1 DEF ReplyFind, IInv, TypeOK, Claims, InFlight, data, ghost, GoTo, End
  <2>3. UNCHANGED <<kind, attempt, ended, born, claim>> /\ overlap \subseteq overlap'
    BY <1>7 DEF ReplyFind, data, ghost, Enter
  <2>4. QED BY <2>2, <2>3 DEF IInv, EndedByItsCompletion, SentOver
<1>8. ASSUME NEW c \in Calls, ReplySave(c) PROVE EndedByItsCompletion'
  <2>1. \A f \in Calls : f # c => pc'[f] = pc[f]
    BY <1>8 DEF ReplySave, IInv, TypeOK, GoTo, End
  <2>2. \A f \in Calls : f \in paid \/ pc[f] \in {"awarding", "failed"} =>
          f \in paid' \/ pc'[f] \in {"awarding", "failed"}
    BY <1>8, <2>1 DEF ReplySave, IInv, TypeOK, Claims, InFlight, data, ghost, GoTo, End
  <2>3. UNCHANGED <<kind, attempt, ended, born, claim>> /\ overlap \subseteq overlap'
    BY <1>8 DEF ReplySave, data, ghost, Enter
  <2>4. QED BY <2>2, <2>3 DEF IInv, EndedByItsCompletion, SentOver
<1>9. ASSUME NEW c \in Calls, FinishRead(c) PROVE EndedByItsCompletion'
  <2>1. \A f \in Calls : f # c => pc'[f] = pc[f]
    BY <1>9 DEF FinishRead, IInv, TypeOK, Enter, GoTo, End
  <2>2. \A f \in Calls : f \in paid \/ pc[f] \in {"awarding", "failed"} =>
          f \in paid' \/ pc'[f] \in {"awarding", "failed"}
    BY <1>9, <2>1 DEF FinishRead, IInv, TypeOK, Claims, InFlight, data, ghost, GoTo, End
  <2>3. UNCHANGED <<kind, attempt, ended, born, claim>> /\ overlap \subseteq overlap'
    BY <1>9 DEF FinishRead, data, ghost, Enter
  <2>4. QED BY <2>2, <2>3 DEF IInv, EndedByItsCompletion, SentOver
<1>10. ASSUME NEW c \in Calls, FinishScore(c) PROVE EndedByItsCompletion'
  <2>1. \A f \in Calls : f # c => pc'[f] = pc[f]
    BY <1>10 DEF FinishScore, IInv, TypeOK, GoTo, End
  <2>2. \A f \in Calls : f \in paid \/ pc[f] \in {"awarding", "failed"} =>
          f \in paid' \/ pc'[f] \in {"awarding", "failed"}
    BY <1>10, <2>1 DEF FinishScore, IInv, TypeOK, Claims, InFlight, data, ghost, GoTo, End
  <2>3. UNCHANGED <<kind, attempt, ended, born, claim>> /\ overlap \subseteq overlap'
    BY <1>10 DEF FinishScore, data, ghost, Enter
  <2>4. QED BY <2>2, <2>3 DEF IInv, EndedByItsCompletion, SentOver
<1>11. ASSUME NEW c \in Calls, FinishEnd(c) PROVE EndedByItsCompletion'
  <2>1. \A f \in Calls : f # c /\ (f \in paid \/ pc[f] \in {"awarding", "failed"}) =>
          /\ f \in paid' \/ pc'[f] \in {"awarding", "failed"}
          /\ claim'[f] = claim[f]
    BY <1>11 DEF FinishEnd, IInv, TypeOK, GoTo
  <2>2. c \notin paid /\ pc[c] \notin {"awarding", "failed"}
    BY <1>11 DEF FinishEnd, IInv, Claims
  <2>3. pc'[c] = "awarding" /\ claim'[c] = [week |-> inst[c].week, attempt |-> attempt[inst[c].week]]
    BY <1>11 DEF FinishEnd, IInv, TypeOK, GoTo
  <2>4. UNCHANGED <<kind, attempt, born, overlap>> /\ inst[c].week \in Weeks
    BY <1>11 DEF FinishEnd, IInv, TypeOK
  <2>5. \A w \in Weeks : w # inst[c].week => ended'[w] = ended[w]
    BY <1>11 DEF FinishEnd, IInv, TypeOK
  <2>6. ~SentOver(inst[c].week)
    BY <1>11, <2>4 DEF FinishEnd, FinishPlaces, IInv, BornOver
  <2>7. \A f \in Calls : f # c => claim'[f] = claim[f]
    BY <1>11 DEF FinishEnd, IInv, TypeOK
  <2>8. QED BY <2>1, <2>2, <2>3, <2>4, <2>5, <2>6, <2>7 DEF IInv, EndedByItsCompletion,
               SentOver
<1>12. ASSUME NEW c \in Calls, FinishAward(c) PROVE EndedByItsCompletion'
  <2>1. \A f \in Calls : f # c => pc'[f] = pc[f]
    BY <1>12 DEF FinishAward, IInv, TypeOK, GoTo, End
  <2>2. \A f \in Calls : f \in paid \/ pc[f] \in {"awarding", "failed"} =>
          f \in paid' \/ pc'[f] \in {"awarding", "failed"}
    BY <1>12, <2>1 DEF FinishAward, IInv, TypeOK, Claims, InFlight, data, ghost, GoTo, End
  <2>3. UNCHANGED <<kind, attempt, ended, born, claim>> /\ overlap \subseteq overlap'
    BY <1>12 DEF FinishAward, data, ghost, Enter
  <2>4. QED BY <2>2, <2>3 DEF IInv, EndedByItsCompletion, SentOver
<1>13. ASSUME NEW c \in Calls, Fail(c) PROVE EndedByItsCompletion'
  <2>1. \A f \in Calls : f # c => pc'[f] = pc[f]
    BY <1>13 DEF Fail, IInv, TypeOK, GoTo, End
  <2>2. \A f \in Calls : f \in paid \/ pc[f] \in {"awarding", "failed"} =>
          f \in paid' \/ pc'[f] \in {"awarding", "failed"}
    BY <1>13, <2>1 DEF Fail, IInv, TypeOK, Claims, InFlight, data, ghost, GoTo, End
  <2>3. UNCHANGED <<kind, attempt, ended, born, claim>> /\ overlap \subseteq overlap'
    BY <1>13 DEF Fail, data, ghost, Enter
  <2>4. QED BY <2>2, <2>3 DEF IInv, EndedByItsCompletion, SentOver
<1>14. CASE WeekTurns
  BY <1>14 DEF WeekTurns, ghost, IInv, EndedByItsCompletion, SentOver
<1>15. CASE Quiet
  BY <1>15 DEF Quiet, vars, IInv, EndedByItsCompletion, SentOver
<1>16. CASE UNCHANGED vars
  BY <1>16 DEF vars, IInv, EndedByItsCompletion, SentOver
<1>17. QED BY <1>1, <1>2, <1>3, <1>4, <1>5, <1>6, <1>7, <1>8, <1>9, <1>10, <1>11, <1>12,
              <1>13, <1>14, <1>15, <1>16 DEF Next, Start, Reply, Finish

(* An answer is added: none that is there is changed. *)
LEMMA InsertKeeps ==
  ASSUME TypeOK, NEW c \in Calls, ReplyInsert(c)
  PROVE  \A w \in Weeks, q \in Questions :
           answers[w][q] # Null => answers'[w][q] = answers[w][q]
<1>1. CASE UNCHANGED answers
  BY <1>1
<1>2. CASE \E w \in Weeks, q \in Questions, g \in Given :
             answers[w][q] = Null /\ answers' = [answers EXCEPT ![w][q] = g]
  BY <1>2 DEF TypeOK
<1>3. QED BY <1>1, <1>2 DEF ReplyInsert

(* A score that is computed stays covered by the answers. *)
LEMMA ScoreStep ==
  ASSUME IInv, [Next]_vars PROVE ScoreStands'
<1>1. ASSUME NEW c \in Calls, StartFind(c) PROVE ScoreStands'
  <2>1. \A f \in Calls : pc'[f] \in {"ending", "awarding"} =>
          /\ pc[f] \in {"ending", "awarding"}
          /\ inst'[f] = inst[f] /\ score'[f] = score[f]
    BY <1>1 DEF StartFind, Enter, Read, ReadId, IInv, TypeOK, data, ghost, GoTo, End
  <2>2. UNCHANGED answers /\ overlap \subseteq overlap'
    BY <1>1 DEF StartFind, Enter, Read, ReadId, data, ghost
  <2>3. QED BY <2>1, <2>2 DEF IInv, ScoreStands, ScoreOf
<1>2. ASSUME NEW c \in Calls, StartCreate(c) PROVE ScoreStands'
  <2>1. \A f \in Calls : pc'[f] \in {"ending", "awarding"} =>
          /\ pc[f] \in {"ending", "awarding"}
          /\ inst'[f] = inst[f] /\ score'[f] = score[f]
    BY <1>2 DEF StartCreate, IInv, TypeOK, data, ghost, GoTo, End
  <2>2. UNCHANGED answers /\ overlap \subseteq overlap'
    BY <1>2 DEF StartCreate, data, ghost
  <2>3. QED BY <2>1, <2>2 DEF IInv, ScoreStands, ScoreOf
<1>3. ASSUME NEW c \in Calls, StartClear(c) PROVE ScoreStands'
  <2>1. /\ pc[c] \in StartPlaces /\ UNCHANGED overlap
        /\ \A f \in Calls : pc'[f] \in {"ending", "awarding"} => pc[f] \in FinishPlaces
    BY <1>3 DEF StartClear, IInv, TypeOK, ghost, GoTo, StartPlaces, FinishPlaces
  <2>2. QED BY <2>1 DEF IInv, Meetings, ScoreStands
<1>4. ASSUME NEW c \in Calls, StartReset(c) PROVE ScoreStands'
  <2>1. \A f \in Calls : pc'[f] \in {"ending", "awarding"} =>
          /\ pc[f] \in {"ending", "awarding"}
          /\ inst'[f] = inst[f] /\ score'[f] = score[f]
    BY <1>4 DEF StartReset, IInv, TypeOK, data, ghost, GoTo, End
  <2>2. UNCHANGED answers /\ overlap \subseteq overlap'
    BY <1>4 DEF StartReset, data, ghost
  <2>3. QED BY <2>1, <2>2 DEF IInv, ScoreStands, ScoreOf
<1>5. ASSUME NEW c \in Calls, ReplyInsert(c) PROVE ScoreStands'
  <2>1. \A f \in Calls : pc'[f] \in {"ending", "awarding"} =>
          /\ pc[f] \in {"ending", "awarding"}
          /\ inst'[f] = inst[f] /\ score'[f] = score[f]
    BY <1>5 DEF ReplyInsert, Enter, IInv, TypeOK, data, ghost, GoTo, End
  <2>2. overlap \subseteq overlap'
    BY <1>5 DEF ReplyInsert, Enter
  <2>3. \A w \in Weeks, q \in Questions : answers[w][q] # Null => answers'[w][q] = answers[w][q]
    BY <1>5, InsertKeeps DEF IInv
  <2>4. ASSUME NEW w \in Weeks
        PROVE  ScoreOf(w) <= ScoreOf(w)' /\ ScoreOf(w) \in Nat /\ ScoreOf(w)' \in Nat
    <3>1. \A q \in Questions :
            answers[w][q] \in {"exact", "folded"} => answers'[w][q] = answers[w][q]
      BY <2>3, ParametersAssumption DEF Grades
    <3>2. QED BY <3>1, ScoreGrows
  <2>5. \A f \in Calls : inst[f].week \in Weeks /\ score[f] \in Nat
    BY DEF IInv, TypeOK
  <2>6. ASSUME {"start", "finish"} \notin overlap',
               NEW f \in Calls, pc'[f] \in {"ending", "awarding"}
        PROVE  score'[f] <= ScoreOf(inst[f].week)'
    <3>1. PICK w \in Weeks : w = inst[f].week
      BY <2>5
    <3>2. score[f] <= ScoreOf(w)
      BY <2>1, <2>2, <2>6, <3>1 DEF IInv, ScoreStands
    <3>3. score[f] <= ScoreOf(w)'
      BY <2>4, <2>5, <3>2
    <3>4. inst'[f].week = w /\ score'[f] = score[f]
      BY <2>1, <2>6, <3>1
    <3>5. QED BY <3>3, <3>4 DEF ScoreOf
  <2>7. QED BY <2>6 DEF ScoreStands
<1>6. ASSUME NEW c \in Calls, ReplyTally(c) PROVE ScoreStands'
  <2>1. \A f \in Calls : pc'[f] \in {"ending", "awarding"} =>
          /\ pc[f] \in {"ending", "awarding"}
          /\ inst'[f] = inst[f] /\ score'[f] = score[f]
    BY <1>6 DEF ReplyTally, IInv, TypeOK, data, ghost, GoTo, End
  <2>2. UNCHANGED answers /\ overlap \subseteq overlap'
    BY <1>6 DEF ReplyTally, data, ghost
  <2>3. QED BY <2>1, <2>2 DEF IInv, ScoreStands, ScoreOf
<1>7. ASSUME NEW c \in Calls, ReplyFind(c) PROVE ScoreStands'
  <2>1. \A f \in Calls : pc'[f] \in {"ending", "awarding"} =>
          /\ pc[f] \in {"ending", "awarding"}
          /\ inst'[f] = inst[f] /\ score'[f] = score[f]
    <3>1. (\E p : pc' = [pc EXCEPT ![c] = p] /\ p \in {"found", "done"})
          /\ \E x : inst' = [inst EXCEPT ![c] = x]
      BY <1>7 DEF ReplyFind, GoTo, End, ReadStats
    <3>2. \A f \in Calls : f # c => pc'[f] = pc[f] /\ inst'[f] = inst[f]
      BY <3>1 DEF IInv, TypeOK
    <3>3. pc'[c] \in {"found", "done"} /\ \A f \in Calls : inst[f].week \in Weeks
      BY <3>1 DEF IInv, TypeOK
    <3>4. QED BY <1>7, <3>2, <3>3 DEF ReplyFind
  <2>2. UNCHANGED answers /\ overlap \subseteq overlap'
    BY <1>7 DEF ReplyFind, data, ghost
  <2>3. QED BY <2>1, <2>2 DEF IInv, ScoreStands, ScoreOf
<1>8. ASSUME NEW c \in Calls, ReplySave(c) PROVE ScoreStands'
  <2>1. \A f \in Calls : pc'[f] \in {"ending", "awarding"} =>
          /\ pc[f] \in {"ending", "awarding"}
          /\ inst'[f] = inst[f] /\ score'[f] = score[f]
    BY <1>8 DEF ReplySave, IInv, TypeOK, data, ghost, GoTo, End
  <2>2. UNCHANGED answers /\ overlap \subseteq overlap'
    BY <1>8 DEF ReplySave, data, ghost
  <2>3. QED BY <2>1, <2>2 DEF IInv, ScoreStands, ScoreOf
<1>9. ASSUME NEW c \in Calls, FinishRead(c) PROVE ScoreStands'
  <2>1. \A f \in Calls : pc'[f] \in {"ending", "awarding"} =>
          /\ pc[f] \in {"ending", "awarding"}
          /\ inst'[f] = inst[f] /\ score'[f] = score[f]
    BY <1>9 DEF FinishRead, Enter, ReadId, IInv, TypeOK, data, ghost, GoTo, End
  <2>2. UNCHANGED answers /\ overlap \subseteq overlap'
    BY <1>9 DEF FinishRead, Enter, ReadId, data, ghost
  <2>3. QED BY <2>1, <2>2 DEF IInv, ScoreStands, ScoreOf
<1>10. ASSUME NEW c \in Calls, FinishScore(c) PROVE ScoreStands'
  <2>1. /\ inst[c].week \in Weeks /\ UNCHANGED <<inst, answers, overlap>>
        /\ score'[c] = ScoreOf(inst[c].week)
        /\ \A f \in Calls : f # c => pc'[f] = pc[f] /\ score'[f] = score[f]
    BY <1>10 DEF FinishScore, IInv, TypeOK, data, ghost, GoTo, End
  <2>2. score'[c] <= ScoreOf(inst[c].week)'
    <3>1. PICK w \in Weeks : w = inst[c].week
      BY <2>1
    <3>2. score'[c] = ScoreOf(w) /\ ScoreOf(w) \in Nat
      BY <2>1, <3>1, ScoreType
    <3>3. score'[c] <= ScoreOf(w)
      BY <3>2
    <3>4. QED BY <2>1, <3>1, <3>3 DEF ScoreOf
  <2>3. QED BY <2>1, <2>2 DEF IInv, ScoreStands, ScoreOf
<1>11. ASSUME NEW c \in Calls, FinishEnd(c) PROVE ScoreStands'
  <2>1. \A f \in Calls : pc'[f] \in {"ending", "awarding"} =>
          /\ pc[f] \in {"ending", "awarding"}
          /\ inst'[f] = inst[f] /\ score'[f] = score[f]
    BY <1>11 DEF FinishEnd, IInv, TypeOK, data, ghost, GoTo, End
  <2>2. UNCHANGED answers /\ overlap \subseteq overlap'
    BY <1>11 DEF FinishEnd, data, ghost
  <2>3. QED BY <2>1, <2>2 DEF IInv, ScoreStands, ScoreOf
<1>12. ASSUME NEW c \in Calls, FinishAward(c) PROVE ScoreStands'
  <2>1. \A f \in Calls : pc'[f] \in {"ending", "awarding"} =>
          /\ pc[f] \in {"ending", "awarding"}
          /\ inst'[f] = inst[f] /\ score'[f] = score[f]
    BY <1>12 DEF FinishAward, IInv, TypeOK, data, ghost, GoTo, End
  <2>2. UNCHANGED answers /\ overlap \subseteq overlap'
    BY <1>12 DEF FinishAward, data, ghost
  <2>3. QED BY <2>1, <2>2 DEF IInv, ScoreStands, ScoreOf
<1>13. ASSUME NEW c \in Calls, Fail(c) PROVE ScoreStands'
  <2>1. \A f \in Calls : pc'[f] \in {"ending", "awarding"} =>
          /\ pc[f] \in {"ending", "awarding"}
          /\ inst'[f] = inst[f] /\ score'[f] = score[f]
    BY <1>13 DEF Fail, IInv, TypeOK, data, ghost, GoTo, End
  <2>2. UNCHANGED answers /\ overlap \subseteq overlap'
    BY <1>13 DEF Fail, data, ghost
  <2>3. QED BY <2>1, <2>2 DEF IInv, ScoreStands, ScoreOf
<1>14. CASE WeekTurns
  BY <1>14 DEF WeekTurns, ghost, IInv, ScoreStands, ScoreOf
<1>15. CASE Quiet
  BY <1>15 DEF Quiet, vars, IInv, ScoreStands, ScoreOf
<1>16. CASE UNCHANGED vars
  BY <1>16 DEF vars, IInv, ScoreStands, ScoreOf
<1>17. QED BY <1>1, <1>2, <1>3, <1>4, <1>5, <1>6, <1>7, <1>8, <1>9, <1>10, <1>11, <1>12,
              <1>13, <1>14, <1>15, <1>16 DEF Next, Start, Reply, Finish

(* Initially nothing is in flight, claimed or ended. *)
LEMMA InvInit == ASSUME Init PROVE IInv
<1>1. TypeOK
  BY Typed, ParametersAssumption DEF Init, TypeOK, Places
<1>2. Meetings /\ NoRecord /\ Restarting /\ Completing
  BY Typed DEF Init, Meetings, NoRecord, Restarting, Completing, StartPlaces, FinishPlaces
<1>3. Claims
  <2>1. \A w \in Weeks : Here(w) # Null
    BY <1>1, ParametersAssumption DEF Here, TypeOK
  <2>2. QED BY <2>1 DEF Init, Claims
<1>4. BornOver /\ ClaimsDiffer /\ EndedByItsCompletion /\ ScoreStands
  BY DEF Init, BornOver, SentOver, ClaimsDiffer, EndedByItsCompletion, ScoreStands
<1>5. QED BY <1>1, <1>2, <1>3, <1>4 DEF IInv

(* IInv is inductive. *)
LEMMA InvStep == ASSUME IInv, [Next]_vars PROVE IInv'
<1>1. TypeOK'
  BY TypeStep DEF IInv
<1>2. QED BY <1>1, MeetingsStep, NoRecordStep, RestartingStep, ClaimsStep,
             BornOverStep, CompletingStep, ClaimsDifferStep, EndedStep, ScoreStep DEF IInv

(* Answers go away in StartClear only, and in a quiz create clears only a  *)
(* record that it read as ended and that, unmet, still is.                 *)
LEMMA KeptStep == ASSUME IInv, [Next]_vars PROVE OpenAnswersKept
<1>1. ASSUME NEW c \in Calls, StartClear(c) PROVE OpenAnswersKept
  BY <1>1 DEF StartClear, IInv, TypeOK, Restarting, OpenAnswersKept
<1>2. ASSUME NEW c \in Calls, ReplyInsert(c) PROVE OpenAnswersKept
  BY <1>2, InsertKeeps DEF IInv, OpenAnswersKept
<1>3. CASE UNCHANGED answers
  BY <1>3 DEF OpenAnswersKept
<1>4. ASSUME NEW c \in Calls, StartFind(c) \/ StartCreate(c) \/ StartReset(c)
      PROVE  UNCHANGED answers
  BY <1>4 DEF StartFind, StartCreate, StartReset, data
<1>5. ASSUME NEW c \in Calls, ReplyTally(c) \/ ReplyFind(c) \/ ReplySave(c)
      PROVE  UNCHANGED answers
  BY <1>5 DEF ReplyTally, ReplyFind, ReplySave, data
<1>6. ASSUME NEW c \in Calls, Finish(c) \/ Fail(c)
      PROVE  UNCHANGED answers
  BY <1>6 DEF Finish, FinishRead, FinishScore, FinishEnd, FinishAward, Fail, data
<1>7. CASE WeekTurns \/ Quiet \/ UNCHANGED vars
  BY <1>3, <1>7 DEF WeekTurns, Quiet, vars
<1>8. QED BY <1>1, <1>2, <1>3, <1>4, <1>5, <1>6, <1>7 DEF Next, Start, Reply

(* Two completions whose XP is logged and that ended one attempt are one,  *)
(* or two of them have met.                                                *)
LEMMA Once == ASSUME IInv PROVE AwardedOnceInTurn
<1>1. \A f \in paid : f \in Calls /\ claim[f] # Null
  BY DEF IInv, TypeOK, Claims
<1>2. QED BY <1>1 DEF IInv, ClaimsDiffer, AwardedOnceInTurn, AwardedOnce

(* The invariant holds of every reachable state of quizzes and of exams,   *)
(* for any number of calls, questions, weeks and failures.                 *)
THEOREM InvariantHolds == Spec => []IInv
<1>1. Init => IInv
  BY InvInit
<1>2. IInv /\ [Next]_vars => IInv'
  BY InvStep
<1>3. QED BY <1>1, <1>2, PTL DEF Spec

(* The types are right. *)
THEOREM TypeCorrect == Spec => []TypeOK
<1>1. IInv => TypeOK
  BY DEF IInv
<1>2. QED BY <1>1, InvariantHolds, PTL

(* updateCompleted awards an attempt once, whatever is restarted, retried  *)
(* or fails, as long as no two completions are in flight together.         *)
THEOREM AwardsOnceInTurn == Spec => []AwardedOnceInTurn
<1>1. IInv => AwardedOnceInTurn
  BY Once
<1>2. QED BY <1>1, InvariantHolds, PTL

(* endedAt is set by a completion of the attempt it stands for, and that   *)
(* completion logs the XP unless it fails; or it was inserted by create    *)
(* for the client, and no completion ends that attempt.  In mock exams     *)
(* only while no restart meets a completion.                               *)
THEOREM EndedIsCompleted == Spec => []EndedByItsCompletion
<1>1. IInv => EndedByItsCompletion
  BY DEF IInv
<1>2. QED BY <1>1, InvariantHolds, PTL

(* updateCompleted awards no points that the answers to the record do not  *)
(* carry when endedAt is set and when XP is logged.                        *)
THEOREM ScoreIsCovered == Spec => []ScoreStands
<1>1. IInv => ScoreStands
  BY DEF IInv
<1>2. QED BY <1>1, InvariantHolds, PTL

(* A quiz in progress keeps its answers through create, unless two calls   *)
(* of create have met.                                                     *)
THEOREM QuizInProgressKept == Spec => InProgressKept
<1>1. IInv /\ [Next]_vars => [OpenAnswersKept]_vars
  BY KeptStep
<1>2. QED BY <1>1, InvariantHolds, PTL DEF Spec, InProgressKept
-----------------------------------------------------------------------------
(* No answer or restart has met another one, and no call failed before it  *)
(* had completed an attempt: both stay false once they are false.          *)
Calm == overlap \cap SUBSET {"start", "reply"} = {}
Undisturbed == Calm /\ \A c \in Calls : pc[c] = "failed" => claim[c] # Null

(* Calls that change answers or statistics, and those among them that have *)
(* changed answers the statistics do not tell of yet.                      *)
Busy(c)  == pc[c] \in StartPlaces \cup ReplyPlaces
Dirty(c) == pc[c] \in ReplyPlaces \cup {"cleared"}

(* Weeks to come have no record, and a week without a record no statistics. *)
Unbegun ==
  /\ \A w \in Weeks : w > week => attempt[w] = 0
  /\ \A w \in Weeks : attempt[w] = 0 => stats[w] = Blank

(* A call that has read a record has read one that exists; a call that has *)
(* completed an attempt has only the award left to do.                     *)
Held ==
  /\ \A c \in Calls : pc[c] \in {"restarting", "cleared", "found"} =>
       attempt[inst[c].week] > 0
  /\ \A c \in Calls : claim[c] # Null => pc[c] \in {"awarding", "done", "failed"}

(* While all is calm, one call at a time changes answers or statistics. *)
Lone == Calm => \A c, d \in Calls : Busy(c) /\ Busy(d) => c = d

(* And then what such a call has read and counted is still so, a week that *)
(* has begun meanwhile has no statistics, and once the call is through the *)
(* statistics are right again.                                             *)
Reads ==
  \A c \in Calls : pc[c] \in {"restarting", "cleared", "found"} =>
    /\ inst[c].stats = stats[inst[c].week]
    /\ inst[c].week # week => stats[week] = Blank
Counts  == \A c \in Calls : pc[c] \in {"tallied", "found"} => tally[c] = Tally
AsBorn  == attempt[week] = 1 /\ stats[week] = born[week].stats
Settles == (\A c \in Calls : ~Dirty(c)) => stats[week] \in {Blank, Tally} \/ AsBorn
InStep  == Undisturbed => Reads /\ Counts /\ Settles

SInv == Unbegun /\ Held /\ Lone /\ InStep

(* The statistics are computed from the answers alone. *)
LEMMA TallyKept == ASSUME UNCHANGED answers PROVE Tally' = Tally
BY DEF Tally, Answered

(* update on top of what was read writes all it is given. *)
LEMMA UpdatedFresh ==
  ASSUME NEW row \in Stats, NEW new \in Stats PROVE Updated(row, row, new) = new
BY DEF Updated, Stats

(* A restart or an answer that begins while another is under way meets it. *)
LEMMA MetBusy ==
  ASSUME NEW role \in {"start", "reply"}, NEW g \in Calls, Busy(g)
  PROVE  Met(role) \cap SUBSET {"start", "reply"} # {}
<1>1. InFlight(g) /\ Role(g) \in {"start", "reply"}
  BY DEF Busy, InFlight, Role, StartPlaces, ReplyPlaces
<1>2. {role, Role(g)} \in SUBSET {"start", "reply"}
  BY <1>1
<1>3. {role, Role(g)} # {"reply", "finish"}
  BY <1>2
<1>4. {role, Role(g)} \in Met(role)
  BY <1>1, <1>3 DEF Met
<1>5. QED BY <1>2, <1>4

(* What is disturbed stays so. *)
LEMMA CalmBefore ==
  ASSUME IInv, [Next]_vars
  PROVE  /\ Calm' => Calm
         /\ Undisturbed' => Undisturbed
<1>1. overlap \subseteq overlap'
  BY DEF Next, vars, Start, StartFind, StartCreate, StartClear, StartReset, Reply,
     ReplyInsert, ReplyTally, ReplyFind, ReplySave, Finish, FinishRead, FinishScore,
     FinishEnd, FinishAward, Fail, WeekTurns, Quiet, Enter, ghost
<1>2. ASSUME NEW c \in Calls, pc[c] = "failed"
      PROVE  pc'[c] = "failed" /\ claim'[c] = claim[c]
  <2> USE <1>2 DEF IInv, TypeOK, ghost, Enter, End, GoTo
  <2>1. ASSUME NEW d \in Calls, Start(d) PROVE pc'[c] = "failed" /\ claim'[c] = claim[c]
    BY <2>1 DEF Start, StartFind, StartCreate, StartClear, StartReset
  <2>2. ASSUME NEW d \in Calls, Reply(d) PROVE pc'[c] = "failed" /\ claim'[c] = claim[c]
    BY <2>2 DEF Reply, ReplyInsert, ReplyTally, ReplyFind, ReplySave
  <2>3. ASSUME NEW d \in Calls, Finish(d) \/ Fail(d)
        PROVE  pc'[c] = "failed" /\ claim'[c] = claim[c]
    BY <2>3 DEF Finish, FinishRead, FinishScore, FinishEnd, FinishAward, Fail
  <2>4. CASE WeekTurns \/ Quiet \/ UNCHANGED vars
    BY <2>4 DEF WeekTurns, Quiet, vars
  <2>5. QED BY <2>1, <2>2, <2>3, <2>4 DEF Next
<1>3. Calm' => Calm
  BY <1>1 DEF Calm
<1>4. QED BY <1>2, <1>3 DEF Undisturbed

(* A record is of a week that has begun, and gets its statistics later. *)
LEMMA UnbegunStep ==
  ASSUME IInv, SInv, [Next]_vars PROVE Unbegun'
<1>1. ASSUME NEW c \in Calls, StartFind(c) PROVE Unbegun'
  BY <1>1 DEF StartFind, IInv, TypeOK, SInv, Unbegun, Held, data, Weeks
<1>2. ASSUME NEW c \in Calls, StartCreate(c) PROVE Unbegun'
  <2>1. UNCHANGED week /\ week \in Weeks
    BY <1>2 DEF StartCreate, IInv, TypeOK
  <2>2. CASE UNCHANGED <<attempt, stats>>
    BY <2>1, <2>2 DEF SInv, Unbegun
  <2>3. ASSUME NEW row \in Rows, Inserts(row) PROVE Unbegun'
    <3>1. \A w \in Weeks : w # week => attempt'[w] = attempt[w] /\ stats'[w] = stats[w]
      BY <2>3, InsertsHere DEF IInv
    <3>2. attempt'[week] = 1
      BY <2>3, InsertsHere DEF IInv
    <3>3. QED BY <2>1, <3>1, <3>2 DEF SInv, Unbegun, Weeks
  <2>4. QED BY <1>2, <2>2, <2>3, Created DEF IInv
<1>3. ASSUME NEW c \in Calls, StartClear(c) PROVE Unbegun'
  BY <1>3 DEF StartClear, IInv, TypeOK, SInv, Unbegun, Held, data, Weeks
<1>4. ASSUME NEW c \in Calls, StartReset(c) PROVE Unbegun'
  BY <1>4 DEF StartReset, IInv, TypeOK, SInv, Unbegun, Held, data, Weeks
<1>5. ASSUME NEW c \in Calls, ReplyInsert(c) PROVE Unbegun'
  BY <1>5 DEF ReplyInsert, IInv, TypeOK, SInv, Unbegun, Held, data, Weeks
<1>6. ASSUME NEW c \in Calls, ReplyTally(c) PROVE Unbegun'
  BY <1>6 DEF ReplyTally, IInv, TypeOK, SInv, Unbegun, Held, data, Weeks
<1>7. ASSUME NEW c \in Calls, ReplyFind(c) PROVE Unbegun'
  BY <1>7 DEF ReplyFind, IInv, TypeOK, SInv, Unbegun, Held, data, Weeks
<1>8. ASSUME NEW c \in Calls, ReplySave(c) PROVE Unbegun'
  BY <1>8 DEF ReplySave, IInv, TypeOK, SInv, Unbegun, Held, data, Weeks
<1>9. ASSUME NEW c \in Calls, FinishRead(c) PROVE Unbegun'
  BY <1>9 DEF FinishRead, IInv, TypeOK, SInv, Unbegun, Held, data, Weeks
<1>10. ASSUME NEW c \in Calls, FinishScore(c) PROVE Unbegun'
  BY <1>10 DEF FinishScore, IInv, TypeOK, SInv, Unbegun, Held, data, Weeks
<1>11. ASSUME NEW c \in Calls, FinishEnd(c) PROVE Unbegun'
  BY <1>11 DEF FinishEnd, IInv, TypeOK, SInv, Unbegun, Held, data, Weeks
<1>12. ASSUME NEW c \in Calls, FinishAward(c) PROVE Unbegun'
  BY <1>12 DEF FinishAward, IInv, TypeOK, SInv, Unbegun, Held, data, Weeks
<1>13. ASSUME NEW c \in Calls, Fail(c) PROVE Unbegun'
  BY <1>13 DEF Fail, IInv, TypeOK, SInv, Unbegun, Held, data, Weeks
<1>14. CASE WeekTurns
  BY <1>14 DEF WeekTurns, IInv, TypeOK, SInv, Unbegun, Held, data, Weeks
<1>15. CASE Quiet \/ UNCHANGED vars
  BY <1>15 DEF Quiet, vars, IInv, TypeOK, SInv, Unbegun, Held, data, Weeks
<1>16. QED BY <1>1, <1>2, <1>3, <1>4, <1>5, <1>6, <1>7, <1>8, <1>9, <1>10, <1>11, <1>12,
              <1>13, <1>14, <1>15 DEF Next, Start, Reply, Finish

(* Records do not go away, and a completion that has ended an attempt goes on. *)
LEMMA HeldStep ==
  ASSUME IInv, SInv, [Next]_vars PROVE Held'
<1>1. ASSUME NEW c \in Calls, StartFind(c) PROVE Held'
  <2>1. /\ \A d \in Calls : d # c => pc'[d] = pc[d] /\ inst'[d] = inst[d]
        /\ UNCHANGED <<attempt, claim>> /\ pc[c] = "idle" /\ week \in Weeks
    BY <1>1 DEF StartFind, IInv, TypeOK, Enter, End, Read, data
  <2>2. CASE pc'[c] \in {"creating", "done"}
    BY <2>1, <2>2 DEF SInv, Held
  <2>3. CASE pc'[c] = "restarting" /\ Read(c, week) /\ attempt[week] > 0
    <3>1. inst'[c].week = week
      BY <2>3 DEF IInv, TypeOK, Read
    <3>2. QED BY <2>1, <2>3, <3>1 DEF SInv, Held
  <2>4. QED BY <1>1, <2>2, <2>3 DEF StartFind, IInv, TypeOK, Enter, End
<1>2. ASSUME NEW c \in Calls, StartCreate(c) PROVE Held'
  <2>1. \A w \in Weeks : attempt[w] > 0 => attempt'[w] > 0
    <3>1. ASSUME NEW row \in Rows, Inserts(row), NEW w \in Weeks, attempt[w] > 0
          PROVE  attempt'[w] > 0
      BY <3>1, InsertsHere DEF IInv
    <3>2. QED BY <1>2, <3>1, Created DEF IInv
  <2>2. \A d \in Calls : d # c => pc'[d] = pc[d] /\ inst'[d] = inst[d]
    BY <1>2 DEF StartCreate, IInv, TypeOK, End
  <2>3. pc[c] = "creating" /\ pc'[c] = "done" /\ UNCHANGED claim
    BY <1>2 DEF StartCreate, IInv, TypeOK, End
  <2>4. QED BY <2>1, <2>2, <2>3 DEF IInv, TypeOK, SInv, Held
<1>3. ASSUME NEW c \in Calls, StartClear(c) PROVE Held'
  BY <1>3 DEF StartClear, IInv, TypeOK, Restarting, SInv, Held, data, ghost, GoTo, End, Enter,
     Read, ReadId, ReadStats, StartPlaces, ReplyPlaces, FinishPlaces
<1>4. ASSUME NEW c \in Calls, StartReset(c) PROVE Held'
  BY <1>4 DEF StartReset, IInv, TypeOK, Restarting, SInv, Held, data, ghost, GoTo, End, Enter,
     Read, ReadId, ReadStats, StartPlaces, ReplyPlaces, FinishPlaces
<1>5. ASSUME NEW c \in Calls, ReplyInsert(c) PROVE Held'
  BY <1>5 DEF ReplyInsert, IInv, TypeOK, Restarting, SInv, Held, data, ghost, GoTo, End, Enter,
     Read, ReadId, ReadStats, StartPlaces, ReplyPlaces, FinishPlaces
<1>6. ASSUME NEW c \in Calls, ReplyTally(c) PROVE Held'
  BY <1>6 DEF ReplyTally, IInv, TypeOK, Restarting, SInv, Held, data, ghost, GoTo, End, Enter,
     Read, ReadId, ReadStats, StartPlaces, ReplyPlaces, FinishPlaces
<1>7. ASSUME NEW c \in Calls, ReplyFind(c) PROVE Held'
  <2>1. /\ \A d \in Calls : d # c => pc'[d] = pc[d] /\ inst'[d] = inst[d]
        /\ UNCHANGED <<attempt, claim>> /\ pc[c] = "tallied"
    BY <1>7 DEF ReplyFind, IInv, TypeOK, GoTo, End, ReadStats, data, ghost
  <2>2. CASE pc'[c] = "done"
    BY <2>1, <2>2 DEF SInv, Held
  <2>3. CASE pc'[c] = "found" /\ ReadStats(c, week) /\ attempt[week] > 0
    <3>1. inst'[c].week = week
      BY <2>3 DEF IInv, TypeOK, ReadStats, Instance0
    <3>2. QED BY <2>1, <2>3, <3>1 DEF SInv, Held
  <2>4. QED BY <1>7, <2>2, <2>3 DEF ReplyFind, IInv, TypeOK, GoTo, End
<1>8. ASSUME NEW c \in Calls, ReplySave(c) PROVE Held'
  BY <1>8 DEF ReplySave, IInv, TypeOK, Restarting, SInv, Held, data, ghost, GoTo, End, Enter,
     Read, ReadId, ReadStats, StartPlaces, ReplyPlaces, FinishPlaces
<1>9. ASSUME NEW c \in Calls, FinishRead(c) PROVE Held'
  <2>1. PICK p, x : /\ pc' = [pc EXCEPT ![c] = p] /\ p \in {"scoring", "done"}
                    /\ inst' = [inst EXCEPT ![c] = x]
    BY <1>9 DEF FinishRead, Enter, ReadId, End
  <2>2. \A d \in Calls : d # c => pc'[d] = pc[d] /\ inst'[d] = inst[d]
    BY <2>1 DEF IInv, TypeOK
  <2>3. pc[c] = "idle" /\ pc'[c] \in {"scoring", "done"} /\ UNCHANGED <<attempt, claim>>
    BY <1>9, <2>1 DEF FinishRead, data, IInv, TypeOK
  <2>4. QED BY <2>2, <2>3 DEF SInv, Held
<1>10. ASSUME NEW c \in Calls, FinishScore(c) PROVE Held'
  BY <1>10 DEF FinishScore, IInv, TypeOK, Restarting, SInv, Held, data, ghost, GoTo, End, Enter,
     Read, ReadId, ReadStats, StartPlaces, ReplyPlaces, FinishPlaces
<1>11. ASSUME NEW c \in Calls, FinishEnd(c) PROVE Held'
  BY <1>11 DEF FinishEnd, IInv, TypeOK, Restarting, SInv, Held, data, ghost, GoTo, End, Enter,
     Read, ReadId, ReadStats, StartPlaces, ReplyPlaces, FinishPlaces
<1>12. ASSUME NEW c \in Calls, FinishAward(c) PROVE Held'
  BY <1>12 DEF FinishAward, IInv, TypeOK, Restarting, SInv, Held, data, ghost, GoTo, End, Enter,
     Read, ReadId, ReadStats, StartPlaces, ReplyPlaces, FinishPlaces
<1>13. ASSUME NEW c \in Calls, Fail(c) PROVE Held'
  BY <1>13 DEF Fail, IInv, TypeOK, Restarting, SInv, Held, data, ghost, GoTo, End, Enter, Read,
     ReadId, ReadStats, StartPlaces, ReplyPlaces, FinishPlaces
<1>14. CASE WeekTurns
  BY <1>14 DEF WeekTurns, IInv, TypeOK, Restarting, SInv, Held, data, ghost, GoTo, End, Enter,
     Read, ReadId, ReadStats, StartPlaces, ReplyPlaces, FinishPlaces
<1>15. CASE Quiet \/ UNCHANGED vars
  BY <1>15 DEF Quiet, vars, IInv, TypeOK, Restarting, SInv, Held, data, ghost, GoTo, End, Enter,
     Read, ReadId, ReadStats, StartPlaces, ReplyPlaces, FinishPlaces
<1>16. QED BY <1>1, <1>2, <1>3, <1>4, <1>5, <1>6, <1>7, <1>8, <1>9, <1>10, <1>11, <1>12,
              <1>13, <1>14, <1>15 DEF Next, Start, Reply, Finish

(* Whoever begins beside a busy call is recorded as having met it. *)
LEMMA LoneStep ==
  ASSUME IInv, SInv, [Next]_vars PROVE Lone'
<1>1. ASSUME NEW c \in Calls, StartFind(c) PROVE Lone'
  <2>1. \A d \in Calls : d # c => pc'[d] = pc[d]
    BY <1>1 DEF StartFind, IInv, TypeOK, Enter, End
  <2>2. CASE overlap' = overlap \cup Met("start")
    <3>1. Calm' => \A d \in Calls : ~Busy(d)
      BY <2>2, MetBusy DEF Calm
    <3>2. \A d \in Calls : d # c /\ Busy(d)' => Busy(d)
      BY <2>1 DEF Busy
    <3>3. QED BY <3>1, <3>2 DEF Lone
  <2>3. CASE pc'[c] = "done" /\ UNCHANGED overlap
    <3>1. ~Busy(c)' /\ (Calm' => Calm)
      BY <2>3 DEF Busy, Calm, StartPlaces, ReplyPlaces
    <3>2. \A d \in Calls : d # c /\ Busy(d)' => Busy(d)
      BY <2>1 DEF Busy
    <3>3. QED BY <3>1, <3>2 DEF SInv, Lone
  <2>4. QED BY <1>1, <2>2, <2>3 DEF StartFind, IInv, TypeOK, Enter, End
<1>2. ASSUME NEW c \in Calls, StartCreate(c) PROVE Lone'
  BY <1>2 DEF StartCreate, IInv, TypeOK, SInv, Lone, Busy, Calm, data, ghost, GoTo, End, Enter,
     StartPlaces, ReplyPlaces, FinishPlaces
<1>3. ASSUME NEW c \in Calls, StartClear(c) PROVE Lone'
  BY <1>3 DEF StartClear, IInv, TypeOK, SInv, Lone, Busy, Calm, data, ghost, GoTo, End, Enter,
     StartPlaces, ReplyPlaces, FinishPlaces
<1>4. ASSUME NEW c \in Calls, StartReset(c) PROVE Lone'
  BY <1>4 DEF StartReset, IInv, TypeOK, SInv, Lone, Busy, Calm, data, ghost, GoTo, End, Enter,
     StartPlaces, ReplyPlaces, FinishPlaces
<1>5. ASSUME NEW c \in Calls, ReplyInsert(c) PROVE Lone'
  <2>1. \A d \in Calls : d # c => pc'[d] = pc[d]
    BY <1>5 DEF ReplyInsert, IInv, TypeOK, Enter, End
  <2>2. CASE overlap' = overlap \cup Met("reply")
    <3>1. Calm' => \A d \in Calls : ~Busy(d)
      BY <2>2, MetBusy DEF Calm
    <3>2. \A d \in Calls : d # c /\ Busy(d)' => Busy(d)
      BY <2>1 DEF Busy
    <3>3. QED BY <3>1, <3>2 DEF Lone
  <2>3. CASE pc'[c] = "done" /\ UNCHANGED overlap
    <3>1. ~Busy(c)' /\ (Calm' => Calm)
      BY <2>3 DEF Busy, Calm, StartPlaces, ReplyPlaces
    <3>2. \A d \in Calls : d # c /\ Busy(d)' => Busy(d)
      BY <2>1 DEF Busy
    <3>3. QED BY <3>1, <3>2 DEF SInv, Lone
  <2>4. QED BY <1>5, <2>2, <2>3 DEF ReplyInsert, IInv, TypeOK, Enter, End
<1>6. ASSUME NEW c \in Calls, ReplyTally(c) PROVE Lone'
  BY <1>6 DEF ReplyTally, IInv, TypeOK, SInv, Lone, Busy, Calm, data, ghost, GoTo, End, Enter,
     StartPlaces, ReplyPlaces, FinishPlaces
<1>7. ASSUME NEW c \in Calls, ReplyFind(c) PROVE Lone'
  BY <1>7 DEF ReplyFind, IInv, TypeOK, SInv, Lone, Busy, Calm, data, ghost, GoTo, End, Enter,
     StartPlaces, ReplyPlaces, FinishPlaces
<1>8. ASSUME NEW c \in Calls, ReplySave(c) PROVE Lone'
  BY <1>8 DEF ReplySave, IInv, TypeOK, SInv, Lone, Busy, Calm, data, ghost, GoTo, End, Enter,
     StartPlaces, ReplyPlaces, FinishPlaces
<1>9. ASSUME NEW c \in Calls, FinishRead(c) PROVE Lone'
  <2>1. \A d \in Calls : Busy(d)' => Busy(d)
    <3>1. \A d \in Calls : d # c => pc'[d] = pc[d]
      BY <1>9 DEF FinishRead, IInv, TypeOK, Enter, End
    <3>2. pc'[c] \in {"scoring", "done"}
      BY <1>9 DEF FinishRead, IInv, TypeOK, Enter, End
    <3>3. QED BY <3>1, <3>2 DEF Busy, StartPlaces, ReplyPlaces
  <2>2. QED BY <2>1, CalmBefore DEF SInv, Lone
<1>10. ASSUME NEW c \in Calls, FinishScore(c) PROVE Lone'
  BY <1>10 DEF FinishScore, IInv, TypeOK, SInv, Lone, Busy, Calm, data, ghost, GoTo, End, Enter,
     StartPlaces, ReplyPlaces, FinishPlaces
<1>11. ASSUME NEW c \in Calls, FinishEnd(c) PROVE Lone'
  BY <1>11 DEF FinishEnd, IInv, TypeOK, SInv, Lone, Busy, Calm, data, ghost, GoTo, End, Enter,
     StartPlaces, ReplyPlaces, FinishPlaces
<1>12. ASSUME NEW c \in Calls, FinishAward(c) PROVE Lone'
  BY <1>12 DEF FinishAward, IInv, TypeOK, SInv, Lone, Busy, Calm, data, ghost, GoTo, End, Enter,
     StartPlaces, ReplyPlaces, FinishPlaces
<1>13. ASSUME NEW c \in Calls, Fail(c) PROVE Lone'
  BY <1>13 DEF Fail, IInv, TypeOK, SInv, Lone, Busy, Calm, data, ghost, GoTo, End, Enter,
     StartPlaces, ReplyPlaces, FinishPlaces
<1>14. CASE WeekTurns
  BY <1>14 DEF WeekTurns, IInv, TypeOK, SInv, Lone, Busy, Calm, data, ghost, GoTo, End, Enter,
     StartPlaces, ReplyPlaces, FinishPlaces
<1>15. CASE Quiet \/ UNCHANGED vars
  BY <1>15 DEF Quiet, vars, IInv, TypeOK, SInv, Lone, Busy, Calm, data, ghost, GoTo, End, Enter,
     StartPlaces, ReplyPlaces, FinishPlaces
<1>16. QED BY <1>1, <1>2, <1>3, <1>4, <1>5, <1>6, <1>7, <1>8, <1>9, <1>10, <1>11, <1>12,
              <1>13, <1>14, <1>15 DEF Next, Start, Reply, Finish

(* A step that changes no statistics and no answers keeps them in step. *)
LEMMA SteadyKept ==
  ASSUME Reads, Counts, Settles, UNCHANGED <<week, stats, answers, attempt, born>>,
         \A c \in Calls : pc'[c] \in {"restarting", "tallied", "cleared", "found"} =>
           pc'[c] = pc[c] /\ inst'[c] = inst[c] /\ tally'[c] = tally[c],
         \A c \in Calls : Dirty(c) => Dirty(c)'
  PROVE  Reads' /\ Counts' /\ Settles'
<1>1. Tally' = Tally
  BY TallyKept
<1>2. Reads'
  BY DEF Reads
<1>3. Counts'
  BY <1>1 DEF Counts
<1>4. Settles'
  BY <1>1 DEF Settles, AsBorn
<1>5. QED BY <1>2, <1>3, <1>4

(* A call that is alone writes what it counted, or blanks what it cleared. *)
LEMMA InStepStep ==
  ASSUME IInv, SInv, [Next]_vars PROVE InStep'
<1> SUFFICES ASSUME Undisturbed' PROVE Reads' /\ Counts' /\ Settles'
  BY DEF InStep
<1> USE DEF GoTo, End
<1>a. Reads /\ Counts /\ Settles /\ Undisturbed
  BY CalmBefore DEF SInv, InStep
<1>b. TypeOK /\ TypeOK' /\ Unbegun /\ Held
  BY TypeStep DEF IInv, SInv
<1>c. \A c, d \in Calls : Busy(c) /\ Busy(d) => c = d
  BY <1>a DEF SInv, Lone, Undisturbed
<1>d. \A c, d \in Calls : Busy(c)' /\ Busy(d)' => c = d
  BY LoneStep DEF Lone, Undisturbed
<1>e. \A c \in Calls :
        pc[c] \in {"restarting", "cleared", "inserted", "tallied", "found"} => Busy(c)
  BY DEF Busy, StartPlaces, ReplyPlaces
<1>f. \A c \in Calls :
        pc'[c] \in {"restarting", "cleared", "inserted", "tallied", "found"} => Busy(c)'
  BY DEF Busy, StartPlaces, ReplyPlaces
<1>g. \A c \in Calls : Dirty(c) <=> pc[c] \in {"cleared", "inserted", "tallied", "found"}
  BY DEF Dirty, ReplyPlaces
<1>h. \A c \in Calls : Dirty(c)' <=> pc'[c] \in {"cleared", "inserted", "tallied", "found"}
  BY DEF Dirty, ReplyPlaces
<1>1. ASSUME NEW c \in Calls, StartFind(c) PROVE Reads' /\ Counts' /\ Settles'
  <2>1. /\ \A d \in Calls : d # c => pc'[d] = pc[d] /\ inst'[d] = inst[d]
        /\ UNCHANGED <<week, stats, answers, attempt, born, tally>> /\ pc[c] = "idle"
    BY <1>1, <1>b DEF StartFind, TypeOK, Enter, Read, data
  <2>2. CASE pc'[c] \in {"creating", "done"}
    BY <1>a, <1>g, <1>h, <2>1, <2>2, SteadyKept
  <2>3. CASE pc'[c] = "restarting" /\ Read(c, week)
    <3>1. inst'[c].stats = stats[week] /\ inst'[c].week = week
      BY <1>b, <2>3 DEF Read, TypeOK
    <3>2. Tally' = Tally
      BY <2>1, TallyKept
    <3>3. Reads'
      BY <1>a, <2>1, <2>3, <3>1 DEF Reads
    <3>4. Counts'
      BY <1>a, <2>1, <2>3, <3>2 DEF Counts
    <3>5. Settles'
      BY <1>a, <1>g, <1>h, <2>1, <2>3, <3>2 DEF Settles, AsBorn
    <3>6. QED BY <3>3, <3>4, <3>5
  <2>4. QED BY <1>1, <1>b, <2>2, <2>3 DEF StartFind, TypeOK, Enter
<1>2. ASSUME NEW c \in Calls, StartCreate(c) PROVE Reads' /\ Counts' /\ Settles'
  <2>1. /\ \A d \in Calls : d # c => pc'[d] = pc[d] /\ inst'[d] = inst[d]
        /\ UNCHANGED <<week, answers, tally>> /\ pc[c] = "creating" /\ pc'[c] = "done"
    BY <1>2, <1>b DEF StartCreate, TypeOK
  <2>2. CASE UNCHANGED <<attempt, stats, born>>
    BY <1>a, <1>g, <1>h, <2>1, <2>2, SteadyKept
  <2>3. ASSUME NEW row \in Rows, Inserts(row) PROVE Reads' /\ Counts' /\ Settles'
    <3>1. \A d \in Calls : pc'[d] \notin {"restarting", "cleared", "tallied", "found"}
      <4>1. Busy(c)
        BY <2>1 DEF Busy, StartPlaces
      <4>2. QED BY <1>c, <1>e, <2>1, <4>1
    <3>2. AsBorn'
      BY <1>b, <2>1, <2>3, InsertsHere DEF AsBorn
    <3>3. QED BY <3>1, <3>2 DEF Reads, Counts, Settles
  <2>4. QED BY <1>2, <1>b, <2>2, <2>3, Created
<1>3. ASSUME NEW c \in Calls, StartClear(c) PROVE Reads' /\ Counts' /\ Settles'
  <2>1. /\ \A d \in Calls : d # c => pc'[d] = pc[d]
        /\ UNCHANGED <<week, stats, inst, tally>>
        /\ pc[c] = "restarting" /\ pc'[c] = "cleared"
    BY <1>3, <1>b DEF StartClear, TypeOK
  <2>2. \A d \in Calls : d # c => ~Busy(d)
    BY <1>c, <1>e, <2>1
  <2>3. Reads'
    BY <1>a, <2>1 DEF Reads
  <2>4. Counts'
    BY <1>e, <2>1, <2>2 DEF Counts
  <2>5. Settles'
    BY <1>h, <2>1 DEF Settles
  <2>6. QED BY <2>3, <2>4, <2>5
<1>4. ASSUME NEW c \in Calls, StartReset(c) PROVE Reads' /\ Counts' /\ Settles'
  <2>1. /\ \A d \in Calls : d # c => pc'[d] = pc[d]
        /\ UNCHANGED <<week, answers>> /\ pc[c] = "cleared" /\ pc'[c] = "done"
    BY <1>4, <1>b DEF StartReset, TypeOK
  <2>2. \A d \in Calls : pc'[d] \notin {"restarting", "cleared", "tallied", "found"}
    BY <1>c, <1>e, <2>1
  <2>3. inst[c].week \in Weeks /\ inst[c].stats = stats[inst[c].week]
        /\ (inst[c].week # week => stats[week] = Blank) /\ week \in Weeks
    BY <1>a, <1>b, <2>1 DEF Reads, TypeOK
  <2>4. stats' = [stats EXCEPT ![inst[c].week] = Blank]
    <3>1. Updated(stats[inst[c].week], inst[c].stats, Blank) = Blank
      BY <1>b, <2>3, Typed, UpdatedFresh DEF TypeOK
    <3>2. stats' = [stats EXCEPT ![inst[c].week] =
                      Updated(stats[inst[c].week], inst[c].stats, Blank)]
      BY <1>4 DEF StartReset
    <3>3. QED BY <3>1, <3>2
  <2>5. stats'[week] = Blank
    BY <1>b, <2>3, <2>4 DEF TypeOK
  <2>6. QED BY <2>1, <2>2, <2>5 DEF Reads, Counts, Settles
<1>5. ASSUME NEW c \in Calls, ReplyInsert(c) PROVE Reads' /\ Counts' /\ Settles'
  <2>1. /\ \A d \in Calls : d # c => pc'[d] = pc[d] /\ inst'[d] = inst[d]
        /\ UNCHANGED <<week, stats, attempt, born, tally>> /\ pc[c] = "idle"
    BY <1>5, <1>b DEF ReplyInsert, TypeOK, Enter
  <2>2. CASE pc'[c] = "inserted"
    <3>1. \A d \in Calls : d # c => ~Busy(d)'
      BY <1>d, <1>f, <2>2
    <3>2. \A d \in Calls : pc'[d] \notin {"restarting", "cleared", "tallied", "found"}
      BY <1>f, <2>2, <3>1
    <3>3. QED BY <1>h, <2>2, <3>2 DEF Reads, Counts, Settles
  <2>3. CASE pc'[c] = "done" /\ UNCHANGED answers
    BY <1>a, <1>g, <1>h, <2>1, <2>3, SteadyKept
  <2>4. QED BY <1>5, <1>b, <2>2, <2>3 DEF ReplyInsert, TypeOK, Enter
<1>6. ASSUME NEW c \in Calls, ReplyTally(c) PROVE Reads' /\ Counts' /\ Settles'
  <2>1. /\ \A d \in Calls : d # c => pc'[d] = pc[d]
        /\ UNCHANGED answers /\ pc[c] = "inserted" /\ pc'[c] = "tallied" /\ tally'[c] = Tally
    BY <1>6, <1>b DEF ReplyTally, TypeOK, data
  <2>2. \A d \in Calls : d # c => ~Busy(d)'
    BY <1>d, <1>f, <2>1
  <2>3. QED BY <1>f, <1>h, <2>1, <2>2, TallyKept DEF Reads, Counts, Settles
<1>7. ASSUME NEW c \in Calls, ReplyFind(c) PROVE Reads' /\ Counts' /\ Settles'
  <2>1. /\ \A d \in Calls : d # c => pc'[d] = pc[d]
        /\ UNCHANGED <<week, stats, answers>> /\ pc[c] = "tallied" /\ pc'[c] \in {"found", "done"}
    BY <1>7, <1>b DEF ReplyFind, TypeOK, data
  <2>2. \A d \in Calls : d # c => ~Busy(d)
    BY <1>c, <1>e, <2>1
  <2>3. \A d \in Calls : d # c => pc'[d] \notin {"restarting", "cleared", "tallied", "found"}
    BY <1>e, <2>1, <2>2
  <2>4. Tally' = Tally /\ tally[c] = Tally
    BY <1>a, <2>1, TallyKept DEF Counts
  <2>5. CASE pc'[c] = "found"
    <3>1. ReadStats(c, week) /\ UNCHANGED tally
      BY <1>7, <1>b, <2>5 DEF ReplyFind, TypeOK
    <3>2. inst'[c].stats = stats[week] /\ inst'[c].week = week
      BY <1>b, <3>1 DEF ReadStats, TypeOK, Instance0
    <3>3. QED BY <1>h, <2>1, <2>3, <2>4, <2>5, <3>1, <3>2 DEF Reads, Counts, Settles
  <2>6. CASE pc'[c] = "done"
    <3>1. attempt[week] = 0 /\ week \in Weeks
      BY <1>7, <1>b, <2>6 DEF ReplyFind, TypeOK
    <3>2. stats[week] = Blank
      BY <1>b, <3>1 DEF Unbegun
    <3>3. QED BY <2>1, <2>3, <2>6, <3>2 DEF Reads, Counts, Settles
  <2>7. QED BY <2>1, <2>5, <2>6
<1>8. ASSUME NEW c \in Calls, ReplySave(c) PROVE Reads' /\ Counts' /\ Settles'
  <2>1. /\ \A d \in Calls : d # c => pc'[d] = pc[d]
        /\ UNCHANGED <<week, answers>> /\ pc[c] = "found" /\ pc'[c] = "done"
    BY <1>8, <1>b DEF ReplySave, TypeOK
  <2>2. \A d \in Calls : pc'[d] \notin {"restarting", "cleared", "tallied", "found"}
    BY <1>c, <1>e, <2>1
  <2>3. inst[c].week \in Weeks /\ inst[c].stats = stats[inst[c].week]
        /\ (inst[c].week # week => stats[week] = Blank) /\ week \in Weeks
    BY <1>a, <1>b, <2>1 DEF Reads, TypeOK
  <2>4. tally[c] = Tally /\ Tally' = Tally
    BY <1>a, <2>1, TallyKept DEF Counts
  <2>5. stats' = [stats EXCEPT ![inst[c].week] = tally[c]]
    <3>1. Updated(stats[inst[c].week], inst[c].stats, tally[c]) = tally[c]
      BY <1>b, <2>3, UpdatedFresh DEF TypeOK
    <3>2. stats' = [stats EXCEPT ![inst[c].week] =
                      Updated(stats[inst[c].week], inst[c].stats, tally[c])]
      BY <1>8 DEF ReplySave
    <3>3. QED BY <3>1, <3>2
  <2>6. stats'[week] \in {Blank, Tally}
    BY <1>b, <2>3, <2>4, <2>5 DEF TypeOK
  <2>7. QED BY <2>1, <2>2, <2>4, <2>6 DEF Reads, Counts, Settles
<1>9. ASSUME NEW c \in Calls, Finish(c) PROVE Reads' /\ Counts' /\ Settles'
  <2>1. /\ \A d \in Calls : d # c => pc'[d] = pc[d] /\ inst'[d] = inst[d]
        /\ UNCHANGED <<week, stats, answers, attempt, born, tally>>
        /\ pc[c] \in {"idle"} \cup FinishPlaces /\ pc'[c] \in {"done"} \cup FinishPlaces
    BY <1>9, <1>b DEF Finish, FinishRead, FinishScore, FinishEnd, FinishAward, TypeOK, Enter,
       ReadId, data, ghost, FinishPlaces
  <2>2. QED BY <1>a, <1>g, <1>h, <2>1, SteadyKept DEF FinishPlaces
<1>10. ASSUME NEW c \in Calls, Fail(c) PROVE Reads' /\ Counts' /\ Settles'
  <2>1. /\ \A d \in Calls : d # c => pc'[d] = pc[d] /\ inst'[d] = inst[d] /\ tally'[d] = tally[d]
        /\ UNCHANGED <<week, stats, answers, attempt, born, claim>> /\ pc'[c] = "failed"
    BY <1>10, <1>b DEF Fail, TypeOK, data, ghost
  <2>2. claim[c] # Null
    BY <2>1 DEF Undisturbed
  <2>3. ~Dirty(c)
    BY <1>b, <1>g, <2>2 DEF Held
  <2>4. \A d \in Calls : Dirty(d) => Dirty(d)'
    BY <1>g, <1>h, <2>1, <2>3
  <2>5. QED BY <1>a, <2>1, <2>4, SteadyKept
<1>11. CASE WeekTurns
  <2>1. UNCHANGED <<stats, answers, attempt, pc, inst, tally>> /\ week' = week + 1
        /\ week' \in Weeks /\ week' > week
    BY <1>11, <1>b DEF WeekTurns, TypeOK, Weeks
  <2>2. stats'[week'] = Blank /\ Tally' = Tally
    BY <1>b, <2>1, TallyKept DEF Unbegun
  <2>3. QED BY <1>a, <2>1, <2>2 DEF Reads, Counts, Settles
<1>12. CASE Quiet \/ UNCHANGED vars
  <2>1. UNCHANGED vars
    BY <1>12 DEF Quiet
  <2>2. QED BY <1>a, <1>g, <1>h, <2>1, SteadyKept DEF vars
<1>13. QED BY <1>1, <1>2, <1>3, <1>4, <1>5, <1>6, <1>7, <1>8, <1>9, <1>10, <1>11, <1>12
           DEF Next, Start, Reply

(* At the start no record has statistics and no call has begun. *)
LEMMA SInvInit == ASSUME Init PROVE SInv
<1>1. Unbegun
  BY ParametersAssumption DEF Init, Unbegun, Weeks
<1>2. Held /\ Lone
  BY DEF Init, Held, Lone, Busy, StartPlaces, ReplyPlaces
<1>3. InStep
  BY Typed DEF Init, InStep, Reads, Counts, Settles
<1>4. QED BY <1>1, <1>2, <1>3 DEF SInv

(* Every step keeps it. *)
LEMMA SInvStep == ASSUME IInv, SInv, [Next]_vars PROVE SInv'
<1>1. Unbegun' /\ Held' /\ Lone' /\ InStep'
  BY UnbegunStep, HeldStep, LoneStep, InStepStep
<1>2. QED BY <1>1 DEF SInv

(* As long as answers and restarts follow each other undisturbed, the week's
   record says what the answers are, or nothing yet, or still what the client
   sent when it was inserted. *)
THEOREM StatisticsAreRight == Spec => []StatsMatchAnswers
<1>1. Init => IInv /\ SInv
  BY InvInit, SInvInit
<1>2. IInv /\ SInv /\ [Next]_vars => IInv' /\ SInv'
  BY InvStep, SInvStep
<1>3. IInv /\ SInv => StatsMatchAnswers
  <2> SUFFICES ASSUME IInv, SInv, Calm,
                      \A c \in Calls : pc[c] \in {"idle", "done"} \/ claim[c] # Null
               PROVE  stats[week] \in {Blank, Tally} \/ AsBorn
    BY DEF StatsMatchAnswers, Calm, AsBorn
  <2>1. Undisturbed
    BY DEF Undisturbed
  <2>2. \A c \in Calls : ~Dirty(c)
    BY DEF SInv, Held, Dirty, ReplyPlaces
  <2>3. QED BY <2>1, <2>2 DEF SInv, InStep, Settles
<1>4. QED BY <1>1, <1>2, <1>3, PTL DEF Spec
-----------------------------------------------------------------------------
weekly == <<kind, attempt, ended, Completed, Awarded, Entries>>

(* A finite number of completions have been awarded. *)
FewPaid == IsFiniteSet(paid)

(* What overlapped has overlapped, and the kind stays as it is. *)
LEMMA InTurnBefore ==
  ASSUME [Next]_vars, InTurn' PROVE InTurn /\ kind' = kind
<1>1. overlap \subseteq overlap' /\ kind' = kind
  BY DEF Next, vars, Start, StartFind, StartCreate, StartClear, StartReset, Reply,
     ReplyInsert, ReplyTally, ReplyFind, ReplySave, Finish, FinishRead, FinishScore,
     FinishEnd, FinishAward, Fail, WeekTurns, Quiet, Enter, data, ghost
<1>2. QED BY <1>1 DEF InTurn

(* Insertion of a record, or its restart, begins an attempt, unless what is
   inserted is over. *)
LEMMA Begins ==
  ASSUME IInv, InTurn, NEW c \in Calls, StartCreate(c) \/ StartReset(c)
  PROVE  [Weekly!Next]_weekly
<1> USE DEF IInv, TypeOK
<1>1. UNCHANGED <<Completed, Awarded, Entries>> /\ UNCHANGED kind
  BY DEF StartCreate, StartReset, Completed, Awarded, Entries, ghost
<1>2. CASE StartCreate(c)
  <2>1. CASE UNCHANGED <<attempt, ended>>
    BY <1>1, <2>1 DEF weekly
  <2>2. ASSUME NEW row \in Rows, Inserts(row) PROVE Weekly!Next
    <3>1. week \in Weeks /\ row.ended \in BOOLEAN /\ attempt[week] = 0
      BY <2>2, InsertsHere
    <3>2. attempt' = [attempt EXCEPT ![week] = attempt[week] + 1]
      BY <2>2 DEF Inserts
    <3>3. CASE ~row.ended
      <4>1. ended' = [ended EXCEPT ![week] = FALSE]
        BY <2>2, <3>1, <3>3 DEF Inserts
      <4>2. Weekly!Begin(week)
        BY <1>1, <3>1, <3>2, <4>1 DEF Weekly!Begin
      <4>3. QED BY <3>1, <4>2 DEF Weekly!Next
    <3>4. CASE row.ended
      <4>1. ended' = [ended EXCEPT ![week] = TRUE]
        BY <2>2, <3>1, <3>4 DEF Inserts
      <4>2. Weekly!Record(week)
        BY <1>1, <2>2, <3>1, <4>1 DEF Inserts, Weekly!Record
      <4>3. QED BY <3>1, <4>2 DEF Weekly!Next
    <3>5. QED BY <3>1, <3>3, <3>4
  <2>3. QED BY <1>2, <2>1, <2>2, Created
<1>3. CASE StartReset(c)
  <2> DEFINE w == inst[c].week
  <2>1. w \in Weeks /\ kind \in {"quiz", "mock"}
    BY ParametersAssumption
  <2>2. attempt' = [attempt EXCEPT ![w] = attempt[w] + 1]
    BY <1>3 DEF StartReset
  <2>3. ended[w] \/ kind = "mock"
    BY <1>3, <2>1 DEF StartReset, Restarting, InTurn
  <2>4. ~inst[c].ended => ~ended[w]
    BY <1>3, <2>1 DEF StartReset, Restarting, InTurn
  <2>5. ended' = [ended EXCEPT ![w] = FALSE]
    BY <1>3, <2>1, <2>4 DEF StartReset
  <2>6. Weekly!Begin(w)
    BY <1>1, <2>2, <2>3, <2>5 DEF Weekly!Begin
  <2>7. QED BY <2>1, <2>6 DEF Weekly!Next
<1>4. QED BY <1>2, <1>3

(* endedAt is set on an attempt in progress only. *)
LEMMA Completes ==
  ASSUME IInv, Held, InTurn, NEW f \in Calls, FinishEnd(f)
  PROVE  [Weekly!Next]_weekly
<1> DEFINE w == inst[f].week
<1> USE DEF IInv, TypeOK
<1>1. w \in Weeks /\ kind \in {"quiz", "mock"} /\ pc[f] = "ending"
  BY ParametersAssumption DEF FinishEnd
<1>2. attempt[w] > 0 /\ \A g \in Calls : claim[g] # Here(w)
  BY <1>1 DEF Completing, InTurn, FinishPlaces
<1>3. ~ended[w]
  <2>1. ~SentOver(w)
    BY <1>1 DEF BornOver, FinishPlaces
  <2>2. QED BY <1>1, <1>2, <2>1 DEF EndedByItsCompletion, InTurn, Here
<1>4. claim[f] = Null /\ Here(w) # Null
  <2>1. attempt[w] \in Nat
    BY <1>1
  <2>2. Here(w) \in [week : Weeks, attempt : Nat]
    BY <1>1, <2>1 DEF Here
  <2>3. Here(w) # Null
    BY ONLY <2>2, ParametersAssumption
  <2>4. QED BY <1>1, <2>3 DEF Held
<1>5. claim' = [claim EXCEPT ![f] = Here(w)] /\ UNCHANGED paid
  BY DEF FinishEnd, Here
<1>6. Completed' = Completed \cup {Here(w)}
  <2>1. claim'[f] = Here(w) /\ \A g \in Calls \ {f} : claim'[g] = claim[g]
    BY <1>5
  <2>2. ASSUME NEW x \in Completed' PROVE x \in Completed \cup {Here(w)}
    <3>1. PICK g \in Calls : x = claim'[g] /\ x # Null
      BY ONLY <2>2 DEF Completed
    <3>2. QED BY ONLY <2>1, <3>1 DEF Completed
  <2>3. ASSUME NEW x \in Completed \cup {Here(w)} PROVE x \in Completed'
    <3>1. CASE x = Here(w)
      BY ONLY <1>4, <2>1, <3>1, f \in Calls DEF Completed
    <3>2. CASE x \in Completed
      <4>1. PICK g \in Calls : x = claim[g] /\ x # Null
        BY ONLY <3>2 DEF Completed
      <4>2. g # f
        BY ONLY <1>4, <4>1
      <4>3. QED BY ONLY <2>1, <4>1, <4>2 DEF Completed
    <3>3. QED BY <2>3, <3>1, <3>2
  <2>4. QED BY ONLY <2>2, <2>3
<1>7. f \notin paid
  BY <1>1 DEF Claims
<1>8. UNCHANGED <<Awarded, Entries>>
  <2>1. \A g \in paid : claim'[g] = claim[g]
    BY <1>5, <1>7
  <2>2. QED BY <1>5, <2>1 DEF Awarded, Entries
<1>9. Weekly!Complete(w)
  BY <1>2, <1>3, <1>6, <1>8 DEF FinishEnd, Weekly!Complete, Weekly!Last, Here
<1>10. QED BY <1>1, <1>9 DEF Weekly!Next

(* XP is logged for a completed attempt that had none. *)
LEMMA Awards ==
  ASSUME IInv, InTurn, FewPaid, NEW f \in Calls, FinishAward(f)
  PROVE  [Weekly!Next]_weekly
<1> USE DEF IInv, TypeOK
<1>1. pc[f] = "awarding" /\ paid' = paid \cup {f} /\ UNCHANGED <<claim, kind, attempt, ended>>
  BY DEF FinishAward, data
<1>2. f \notin paid /\ claim[f] # Null
  BY <1>1 DEF Claims
<1>3. claim[f] \in Completed
  BY <1>2 DEF Completed
<1>4. claim[f] \notin Awarded
  BY <1>2 DEF Awarded, ClaimsDiffer, InTurn
<1>5. Awarded' = Awarded \cup {claim[f]} /\ Completed' = Completed
  BY <1>1 DEF Awarded, Completed
<1>6. Entries' = Entries + 1
  BY <1>1, <1>2, FS_AddElement DEF Entries, FewPaid
<1>7. Weekly!Award(claim[f])
  BY <1>1, <1>3, <1>4, <1>5, <1>6 DEF Weekly!Award
<1>8. QED BY <1>3, <1>7 DEF Weekly!Next

(* Every other step leaves all this as it is. *)
LEMMA WeeklyStep ==
  ASSUME IInv, SInv, FewPaid, InTurn', [Next]_vars
  PROVE  [Weekly!Next]_weekly
<1>1. InTurn
  BY InTurnBefore
<1>2. ASSUME NEW c \in Calls, StartCreate(c) \/ StartReset(c) PROVE [Weekly!Next]_weekly
  BY <1>1, <1>2, Begins
<1>3. ASSUME NEW c \in Calls, FinishEnd(c) PROVE [Weekly!Next]_weekly
  BY <1>1, <1>3, Completes DEF SInv
<1>4. ASSUME NEW c \in Calls, FinishAward(c) PROVE [Weekly!Next]_weekly
  BY <1>1, <1>4, Awards
<1>5. ASSUME UNCHANGED <<kind, attempt, ended, claim, paid>> PROVE [Weekly!Next]_weekly
  BY <1>5 DEF weekly, Completed, Awarded, Entries
<1>6. ASSUME NEW c \in Calls, StartFind(c) \/ StartClear(c) \/ Reply(c)
      PROVE  [Weekly!Next]_weekly
  BY <1>5, <1>6 DEF StartFind, StartClear, Reply, ReplyInsert, ReplyTally, ReplyFind,
     ReplySave, data, ghost
<1>7. ASSUME NEW c \in Calls, FinishRead(c) \/ FinishScore(c) \/ Fail(c)
      PROVE  [Weekly!Next]_weekly
  BY <1>5, <1>7 DEF FinishRead, FinishScore, Fail, data, ghost
<1>8. CASE WeekTurns \/ Quiet \/ UNCHANGED vars
  BY <1>5, <1>8 DEF WeekTurns, Quiet, vars, ghost
<1>9. QED BY <1>2, <1>3, <1>4, <1>6, <1>7, <1>8 DEF Next, Start, Finish

(* Each step logs XP once at most. *)
LEMMA FewPaidStep == ASSUME FewPaid, [Next]_vars PROVE FewPaid'
<1> SUFFICES ASSUME paid' # paid PROVE IsFiniteSet(paid')
  BY DEF FewPaid
<1>1. PICK f \in Calls : FinishAward(f)
  BY DEF Next, vars, Start, StartFind, StartCreate, StartClear, StartReset, Reply,
     ReplyInsert, ReplyTally, ReplyFind, ReplySave, Finish, FinishRead, FinishScore,
     FinishEnd, Fail, WeekTurns, Quiet, ghost
<1>2. QED BY <1>1, FS_AddElement DEF FinishAward, FewPaid

(* All that these steps rest on. *)
LEMMA AllInvariants == Spec => [](IInv /\ SInv /\ FewPaid)
<1>1. Init => IInv /\ SInv
  BY InvInit, SInvInit
<1>2. Init => FewPaid
  BY FS_EmptySet DEF Init, FewPaid
<1>3. IInv /\ SInv /\ FewPaid /\ [Next]_vars => IInv' /\ SInv' /\ FewPaid'
  BY InvStep, SInvStep, FewPaidStep
<1>4. QED BY <1>1, <1>2, <1>3, PTL DEF Spec

(* Until calls have overlapped that spoil it, every statement of create,
   of the answer service and of updateCompleted begins, records, completes or
   awards an attempt as WeeklyAttempts has it, or leaves all that alone. *)
THEOREM StepsWeekly == Spec => WeeklyInTurn
<1>1. IInv /\ SInv /\ FewPaid /\ [Next]_vars =>
        [InTurn' => [Weekly!Next]_<<kind, attempt, ended, Completed, Awarded, Entries>>]_vars
  BY WeeklyStep DEF weekly
<1>2. QED BY <1>1, AllInvariants, PTL DEF Spec, WeeklyInTurn

(* And so, if they never overlap, the records are what they are meant to be. *)
THEOREM ImplementsWeekly == Spec /\ []InTurn => Weekly!Spec
<1>1. Init => Weekly!Init
  <2> SUFFICES ASSUME Init PROVE Weekly!Init
    OBVIOUS
  <2>1. kind \in {"quiz", "mock"} /\ attempt \in [Weeks -> {0, 1}]
    BY ParametersAssumption DEF Init
  <2>2. Completed = {} /\ Awarded = {} /\ Entries = 0
    BY FS_EmptySet DEF Init, Completed, Awarded, Entries
  <2>3. QED BY <2>1, <2>2 DEF Init, Weekly!Init
<1>2. IInv /\ SInv /\ FewPaid /\ InTurn' /\ [Next]_vars =>
        [Weekly!Next]_<<kind, attempt, ended, Completed, Awarded, Entries>>
  BY WeeklyStep DEF weekly
<1>3. QED BY <1>1, <1>2, AllInvariants, PTL DEF Spec, Weekly!Spec, Weekly!vars
=============================================================================
