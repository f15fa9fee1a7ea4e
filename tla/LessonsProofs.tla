--------------------------- MODULE LessonsProofs ---------------------------
(***************************************************************************)
(* Theorems about Lessons for any number of calls, subjects, lessons,      *)
(* titles and pictures.                                                    *)
(***************************************************************************)
EXTENDS Lessons, TLAPS

(* The type invariant by the part of the system it is about. *)
SubjectTypes ==
  /\ status \in [SubjectIds -> {"none", "named", "live", "deleted", "gone"}]
  /\ subject \in [SubjectIds -> Row]
  /\ linked \subseteq SubjectIds
  /\ images \subseteq Images
  /\ sid \in [Calls -> SubjectIds \cup {Null}]
  /\ twin \in [Calls -> SubjectIds \cup {Null}]
  /\ seen \in [Calls -> Row]
  /\ wish \in [Calls -> Row]
  /\ shown \in [Images -> SubjectIds \cup {Null}]
  /\ overlap \subseteq SubjectIds
  /\ cut \subseteq SubjectIds
LessonTypes ==
  /\ lstatus \in [LessonIds -> {"none", "named", "live", "gone"}]
  /\ lesson \in [LessonIds -> LRow]
  /\ track \in [LessonIds -> TRow]
  /\ paid \in [LessonIds -> Nat]
  /\ lid \in [Calls -> LessonIds \cup {Null}]
  /\ draft \in [Calls -> LRow]
  /\ plan \in [Calls -> LRow]
  /\ inst \in [Calls -> TRow]
  /\ doomed \in [Calls -> SUBSET LessonIds]
  /\ met \subseteq LessonIds
  /\ unsaved \subseteq LessonIds
  /\ strayed \subseteq LessonIds

(* Where a call works on a subject, on a soft-deleted one, or on a lesson. *)
AddPlaces    == {"purging", "inserting"}
HoldPlaces   == ChangePlaces \cup RemovePlaces
LessonsCalls == CompletePlaces \cup LessonPlaces

HoldsAt(c) ==
  /\ pc[c] \in SubjectPlaces => sid[c] \in SubjectIds
  /\ pc[c] = "purging" => twin[c] \in SubjectIds
  /\ pc[c] \in LessonsCalls => lid[c] \in LessonIds

TypesInv ==
  /\ SubjectTypes
  /\ LessonTypes
  /\ pc \in [Calls -> Places]
  /\ \A c \in Calls : HoldsAt(c)

(* The parts make up the type invariant. *)
LEMMA Parts == LearningTypeOK <=> SubjectTypes /\ LessonTypes /\ pc \in [Calls -> Places]
BY DEF LearningTypeOK, SubjectTypes, LessonTypes

(* The empty rows are rows, and rows' fields have their types. *)
LEMMA RowTypes ==
  /\ NoRow \in Row /\ NoLRow \in LRow /\ NoTRow \in TRow /\ Tracked \in TRow
  /\ \A r \in Row : r.title \in Titles \cup {Null} /\ r.avatar \in Images \cup {Null}
  /\ \A r \in LRow : r.title \in Titles \cup {Null} /\ r.subject \in SubjectIds \cup {Null}
  /\ \A r \in TRow : /\ r.there \in BOOLEAN /\ r.date \in Calls \cup {Null}
                     /\ r.earned \in BOOLEAN
<1>1. NoRow \in Row /\ NoLRow \in LRow /\ NoTRow \in TRow /\ Tracked \in TRow
  BY DEF NoRow, Row, NoLRow, LRow, NoTRow, TRow, Tracked
<1>2. \A r \in Row : r.title \in Titles \cup {Null} /\ r.avatar \in Images \cup {Null}
  BY DEF Row
<1>3. \A r \in LRow : r.title \in Titles \cup {Null} /\ r.subject \in SubjectIds \cup {Null}
  BY DEF LRow
<1>4. \A r \in TRow : /\ r.there \in BOOLEAN /\ r.date \in Calls \cup {Null}
                      /\ r.earned \in BOOLEAN
  BY DEF TRow
<1>5. QED BY <1>1, <1>2, <1>3, <1>4

(* The kinds of places are places, and have none in common. *)
LEMMA PlacesDiffer ==
  /\ SubjectPlaces \subseteq Places /\ LessonsCalls \subseteq Places
  /\ {"idle", "done"} \subseteq Places
  /\ SubjectPlaces = AddPlaces \cup HoldPlaces /\ AddPlaces \cap HoldPlaces = {}
  /\ SubjectPlaces \cap (LessonsCalls \cup {"idle", "done"}) = {}
  /\ LessonsCalls \cap {"idle", "done"} = {}
BY DEF Places, SubjectPlaces, AddPlaces, HoldPlaces, ChangePlaces, RemovePlaces,
       LessonsCalls, CompletePlaces, LessonPlaces

(* The calls that leave the lessons, and the steps that leave the subjects. *)
SubjectsOwn(c) ==
  \/ SubjectStep(c) /\ UNCHANGED lvars
  \/ Purge(c) \/ RemoveRead(c) \/ RemovePicture(c)
LessonsOwn(c) == Teach(c) \/ Complete(c) \/ RemoveSelect(c) \/ RemoveLessons(c)

(* What a call of the subjects' holds. *)
Untouched(d) ==
  /\ pc'[d] = pc[d] /\ sid'[d] = sid[d] /\ twin'[d] = twin[d]
  /\ seen'[d] = seen[d] /\ wish'[d] = wish[d]
(* What a call of the lessons' holds. *)
LUntouched(d) ==
  /\ pc'[d] = pc[d] /\ lid'[d] = lid[d] /\ draft'[d] = draft[d] /\ plan'[d] = plan[d]
  /\ inst'[d] = inst[d] /\ doomed'[d] = doomed[d]

(* Every step is one of these. *)
LEMMA NextCases ==
  ASSUME [Next]_vars
  PROVE  \/ UNCHANGED vars
         \/ \E c \in Calls : SubjectsOwn(c) \/ LessonsOwn(c) \/ RemoveCommit(c) \/ Stop(c)
<1>1. CASE UNCHANGED vars
  BY <1>1
<1>2. CASE Quiet
  BY <1>2 DEF Quiet
<1>3. ASSUME NEW c \in Calls,
             \/ SubjectStep(c) /\ UNCHANGED lvars
             \/ Purge(c) \/ Teach(c) \/ Complete(c) \/ Remove(c) \/ Stop(c)
      PROVE  SubjectsOwn(c) \/ LessonsOwn(c) \/ RemoveCommit(c) \/ Stop(c)
  BY ONLY <1>3, Zenon DEF SubjectsOwn, LessonsOwn, Remove
<1>4. QED BY ONLY <1>1, <1>2, <1>3, [Next]_vars, Zenon DEF Next

(* The lessons' steps leave the subjects and what a call holds of them. *)
LEMMA LessonsSide ==
  ASSUME NEW c \in Calls, LessonsOwn(c)
  PROVE  /\ UNCHANGED <<stored, working, pictured>>
         /\ \E p : /\ pc' = [pc EXCEPT ![c] = p]
                   /\ \/ pc[c] \in LessonsCalls \cup {"idle"} /\ p \in LessonsCalls \cup {"done"}
                      \/ pc[c] = "selecting" /\ p = "deleting"
                      \/ pc[c] = "deleting" /\ p = "dropping"
<1> USE DEF GoTo, LContinue, LLeave, LessonsCalls, LessonPlaces, CompletePlaces
<1>1. CASE LessonFind(c)
  BY <1>1 DEF LessonFind
<1>2. CASE LessonInsert(c)
  BY <1>2 DEF LessonInsert
<1>3. CASE LessonRead(c)
  BY <1>3 DEF LessonRead
<1>4. CASE LessonSave(c)
  BY <1>4 DEF LessonSave
<1>5. CASE LessonUnread(c)
  BY <1>5 DEF LessonUnread
<1>6. CASE LessonDelete(c)
  BY <1>6 DEF LessonDelete
<1>7. CASE Track(c)
  BY <1>7 DEF Track
<1>8. CASE CompleteRead(c)
  BY <1>8 DEF CompleteRead
<1>9. CASE CompleteFind(c)
  BY <1>9 DEF CompleteFind
<1>10. CASE CompleteOpen(c)
  BY <1>10 DEF CompleteOpen
<1>11. CASE CompleteAward(c)
  BY <1>11 DEF CompleteAward
<1>12. CASE CompleteClose(c)
  BY <1>12 DEF CompleteClose
<1>13. CASE RemoveSelect(c)
  BY <1>13 DEF RemoveSelect
<1>14. CASE RemoveLessons(c)
  BY <1>14 DEF RemoveLessons
<1>15. QED
  BY <1>1, <1>2, <1>3, <1>4, <1>5, <1>6, <1>7, <1>8, <1>9, <1>10, <1>11, <1>12, <1>13, <1>14
     DEF LessonsOwn, Teach, Complete

(* The subjects' steps leave the lessons, and what other calls hold. *)
LEMMA SubjectsSide ==
  ASSUME SubjectTypes, NEW c \in Calls, SubjectsOwn(c)
  PROVE  /\ UNCHANGED lvars
         /\ \E p : /\ pc' = [pc EXCEPT ![c] = p]
                   /\ pc[c] \in {"idle", "unpicturing"} \cup AddPlaces \cup ChangePlaces
                   /\ p \in {"done", "selecting"} \cup AddPlaces \cup ChangePlaces
         /\ \A d \in Calls : d # c => sid'[d] = sid[d]
<1> USE DEF GoTo, Continue, Leave, AddPlaces, ChangePlaces, SubjectTypes, working
<1>1. CASE AddFind(c) /\ UNCHANGED lvars
  BY <1>1 DEF AddFind
<1>2. CASE Purge(c)
  BY <1>2 DEF Purge, AddPurge
<1>3. CASE AddInsert(c) /\ UNCHANGED lvars
  BY <1>3 DEF AddInsert
<1>4. CASE ChangeRead(c) /\ UNCHANGED lvars
  BY <1>4 DEF ChangeRead, ReadSubject
<1>5. CASE ChangePicture(c) /\ UNCHANGED lvars
  BY <1>5 DEF ChangePicture
<1>6. CASE ChangeSave(c) /\ UNCHANGED lvars
  BY <1>6 DEF ChangeSave
<1>7. CASE (Link(c) \/ Unlink(c)) /\ UNCHANGED lvars
  BY <1>7 DEF Link, Unlink
<1>8. CASE RemoveRead(c)
  BY <1>8 DEF RemoveRead, ReadSubject
<1>9. CASE RemovePicture(c)
  BY <1>9 DEF RemovePicture
<1>10. QED
  BY <1>1, <1>2, <1>3, <1>4, <1>5, <1>6, <1>7, <1>8, <1>9 DEF SubjectsOwn, SubjectStep

-----------------------------------------------------------------------------
(***************************************************************************)
(* Types.                                                                  *)
(***************************************************************************)

(* Each step keeps the types of the subjects' part. *)
LEMMA SubjectTypesStep ==
  ASSUME TypesInv, NEW c \in Calls, SubjectsOwn(c) \/ RemoveCommit(c) \/ Stop(c)
  PROVE  SubjectTypes'
<1>0. /\ SubjectTypes /\ HoldsAt(c)
      /\ pc[c] \in SubjectPlaces => sid[c] \in SubjectIds
      /\ pc[c] = "purging" => twin[c] \in SubjectIds
  BY DEF TypesInv, HoldsAt
<1>1. SubjectPlaces = {"purging", "inserting", "picturing", "saving", "selecting", "deleting",
                       "dropping", "unpicturing"}
  BY DEF SubjectPlaces, ChangePlaces, RemovePlaces
<1>2. ASSUME Leave(c)
      PROVE  /\ sid' \in [Calls -> SubjectIds \cup {Null}]
             /\ twin' \in [Calls -> SubjectIds \cup {Null}]
             /\ seen' \in [Calls -> Row] /\ wish' \in [Calls -> Row]
  BY <1>0, <1>2, RowTypes DEF Leave, SubjectTypes
<1>3. ASSUME NEW s \in SubjectIds, ReadSubject(c, s)
      PROVE  /\ sid' \in [Calls -> SubjectIds \cup {Null}]
             /\ twin' \in [Calls -> SubjectIds \cup {Null}]
             /\ seen' \in [Calls -> Row] /\ overlap' \subseteq SubjectIds
  BY <1>0, <1>3 DEF ReadSubject, SubjectTypes
<1>4. \A t \in Titles, i \in Images \cup {Null} : [title |-> t, avatar |-> i] \in Row
  BY DEF Row
<1>5. Unused \subseteq Images
  BY <1>0 DEF Unused, SubjectTypes
<1> USE <1>0, <1>1 DEF stored, pictured
<1>6. CASE AddFind(c)
  <2>1. PICK s \in SubjectIds, t \in Titles, i \in Unused \cup {Null} :
          /\ status[s] = "none"
          /\ status' = [status EXCEPT ![s] = "named"]
          /\ sid' = [sid EXCEPT ![c] = s]
          /\ seen' = [seen EXCEPT ![c] = [title |-> t, avatar |-> i]]
          /\ \/ /\ ~Taken(t, s)
                /\ GoTo(c, "inserting")
                /\ UNCHANGED twin
             \/ /\ \E r \in SubjectIds :
                     /\ status[r] = "deleted" /\ subject[r].title = t
                     /\ twin' = [twin EXCEPT ![c] = r]
                /\ GoTo(c, "purging")
    BY ONLY <1>6, Zenon DEF AddFind
  <2>2. twin' \in [Calls -> SubjectIds \cup {Null}]
    BY <2>1 DEF SubjectTypes
  <2>3. seen' \in [Calls -> Row]
    BY <2>1, <1>4, <1>5 DEF SubjectTypes
  <2>4. QED BY <1>6, <2>1, <2>2, <2>3 DEF AddFind, SubjectTypes
<1>7. CASE Purge(c)
  BY <1>7, RowTypes DEF Purge, AddPurge, Continue, working, SubjectTypes
<1>8. CASE AddInsert(c)
  BY <1>8, <1>2 DEF AddInsert, SubjectTypes
<1>9. CASE ChangeRead(c)
  <2>1. PICK s \in SubjectIds, t \in Titles, i \in Images \cup {Null} :
          /\ i \in Unused \cup {Null, subject[s].avatar}
          /\ ReadSubject(c, s)
          /\ wish' = [wish EXCEPT ![c] = [title |-> t, avatar |-> i]]
          /\ GoTo(c, IF subject[s].avatar \notin {i, Null} THEN "picturing" ELSE "saving")
    BY ONLY <1>9, Zenon DEF ChangeRead
  <2>2. wish' \in [Calls -> Row]
    BY <2>1, <1>4 DEF SubjectTypes
  <2>3. QED BY <1>9, <2>1, <2>2, <1>3 DEF ChangeRead, SubjectTypes
<1>10. CASE ChangePicture(c)
  BY <1>10 DEF ChangePicture, Continue, working, SubjectTypes
<1>11. CASE ChangeSave(c)
  <2>1. Written(sid[c], seen[c], wish[c]) \in Row
    BY <1>11, RowTypes DEF ChangeSave, Written, Changed, Row, SubjectTypes
  <2>2. QED BY <1>11, <2>1, <1>2 DEF ChangeSave, SubjectTypes
<1>12. CASE Link(c) \/ Unlink(c)
  BY <1>12 DEF Link, Unlink, working, SubjectTypes
<1>13. CASE RemoveRead(c)
  BY <1>13, <1>3 DEF RemoveRead, SubjectTypes
<1>14. CASE RemovePicture(c)
  BY <1>14, <1>2 DEF RemovePicture, SubjectTypes
<1>15. CASE RemoveCommit(c)
  <2>1. Leave(c) \/ Continue(c, "unpicturing")
    BY <1>15 DEF RemoveCommit
  <2>2. QED BY <1>15, <2>1, <1>2, RowTypes DEF RemoveCommit, Continue, working, SubjectTypes
<1>16. CASE Stop(c)
  BY <1>16, <1>2 DEF Stop, SubjectTypes
<1>17. QED
  BY <1>6, <1>7, <1>8, <1>9, <1>10, <1>11, <1>12, <1>13, <1>14, <1>15, <1>16
     DEF SubjectsOwn, SubjectStep

(* Each step keeps the types of the lessons' part. *)
LEMMA LessonTypesStep ==
  ASSUME TypesInv, NEW c \in Calls, LessonsOwn(c) \/ RemoveCommit(c) \/ Stop(c)
  PROVE  LessonTypes'
<1>0. /\ LessonTypes /\ HoldsAt(c)
      /\ pc[c] \in LessonsCalls => lid[c] \in LessonIds
      /\ Null \notin Calls
  BY LessonsAssumption DEF TypesInv, HoldsAt
<1>1. LessonsCalls = {"tracking", "opening", "awarding", "closing", "lessoning",
                      "relessoning", "unlessoning"}
  BY DEF LessonsCalls, LessonPlaces, CompletePlaces
<1>2. ASSUME LLeave(c)
      PROVE  /\ lid' \in [Calls -> LessonIds \cup {Null}]
             /\ draft' \in [Calls -> LRow] /\ plan' \in [Calls -> LRow]
             /\ inst' \in [Calls -> TRow] /\ doomed' \in [Calls -> SUBSET LessonIds]
  BY <1>0, <1>2, RowTypes DEF LLeave, LessonTypes
<1>3. ASSUME NEW ls, Delete(ls)
      PROVE  /\ lstatus' \in [LessonIds -> {"none", "named", "live", "gone"}]
             /\ lesson' \in [LessonIds -> LRow] /\ track' \in [LessonIds -> TRow]
  BY <1>0, <1>3, RowTypes DEF Delete, LessonTypes
<1>4. \A s \in SubjectIds, t \in Titles : [subject |-> s, title |-> t] \in LRow
  BY DEF LRow
<1> USE <1>0, <1>1 DEF lessons, lghosts, lworking, LContinue
<1>5. CASE LessonFind(c)
  BY <1>5, <1>4 DEF LessonFind, LessonTypes
<1>6. CASE LessonInsert(c)
  BY <1>6, <1>2 DEF LessonInsert, LessonTypes
<1>7. CASE LessonRead(c)
  BY <1>7, <1>4 DEF LessonRead, LessonTypes
<1>8. CASE LessonSave(c)
  <2>1. LWritten(c) \in LRow
    BY <1>8, RowTypes DEF LessonSave, LWritten, Changed, LRow, LessonTypes
  <2>2. QED BY <1>8, <2>1, <1>2 DEF LessonSave, LessonTypes
<1>9. CASE LessonUnread(c)
  BY <1>9 DEF LessonUnread, LessonTypes
<1>10. CASE LessonDelete(c)
  BY <1>10, <1>2, <1>3 DEF LessonDelete, LessonTypes
<1>11. CASE Track(c)
  <2>1. \A t \in TRow : [t EXCEPT !.there = TRUE] \in TRow
    BY DEF TRow
  <2>2. PICK l \in LessonIds : track' = [track EXCEPT ![l].there = TRUE]
    BY <1>11 DEF Track
  <2>3. track' \in [LessonIds -> TRow]
    BY <2>1, <2>2 DEF LessonTypes
  <2>4. QED BY <1>11, <2>3 DEF Track, LessonTypes
<1>12. CASE CompleteRead(c)
  BY <1>12 DEF CompleteRead, LessonTypes
<1>13. CASE CompleteFind(c)
  BY <1>13 DEF CompleteFind, LessonTypes
<1>14. CASE CompleteOpen(c)
  <2>1. [there |-> TRUE, date |-> c, earned |-> FALSE] \in TRow
    BY DEF TRow
  <2>2. \/ /\ track' = [track EXCEPT ![lid[c]] = [there |-> TRUE, date |-> c, earned |-> FALSE]]
           /\ inst' = [inst EXCEPT ![c] = [there |-> TRUE, date |-> c, earned |-> FALSE]]
           /\ UNCHANGED <<lid, draft, plan, doomed>>
        \/ LLeave(c) /\ UNCHANGED track
    BY <1>14 DEF CompleteOpen
  <2>3. track' \in [LessonIds -> TRow]
    BY <2>1, <2>2 DEF LessonTypes
  <2>4. inst' \in [Calls -> TRow]
    BY <2>1, <2>2, <1>2 DEF LessonTypes
  <2>5. QED BY <1>14, <2>2, <2>3, <2>4, <1>2 DEF CompleteOpen, LessonTypes
<1>15. CASE CompleteAward(c)
  BY <1>15 DEF CompleteAward, LessonTypes
<1>16. CASE CompleteClose(c)
  <2>1. PICK x \in Calls \cup {Null} :
          track' = IF track[lid[c]].there
                   THEN [track EXCEPT ![lid[c]] = [there |-> TRUE, date |-> x, earned |-> TRUE]]
                   ELSE track
    BY <1>16, RowTypes DEF CompleteClose, LessonTypes
  <2>2. [there |-> TRUE, date |-> x, earned |-> TRUE] \in TRow
    BY DEF TRow
  <2>3. track' \in [LessonIds -> TRow]
    BY <2>1, <2>2 DEF LessonTypes
  <2>4. QED BY <1>16, <2>3, <1>2 DEF CompleteClose, LessonTypes
<1>17. CASE RemoveSelect(c)
  BY <1>17 DEF RemoveSelect, LessonTypes
<1>18. CASE RemoveLessons(c)
  BY <1>18 DEF RemoveLessons, LessonTypes
<1>19. CASE RemoveCommit(c)
  BY <1>19, <1>3 DEF RemoveCommit, LessonTypes
<1>20. CASE Stop(c)
  BY <1>20, <1>2 DEF Stop, LessonTypes
<1>21. QED
  BY <1>5, <1>6, <1>7, <1>8, <1>9, <1>10, <1>11, <1>12, <1>13, <1>14, <1>15, <1>16, <1>17,
     <1>18, <1>19, <1>20 DEF LessonsOwn, Teach, Complete

(* A call holds what its place asks for. *)
LEMMA HoldsStep ==
  ASSUME TypesInv, NEW c \in Calls,
         SubjectsOwn(c) \/ LessonsOwn(c) \/ RemoveCommit(c) \/ Stop(c)
  PROVE  pc' \in [Calls -> Places] /\ \A d \in Calls : HoldsAt(d)'
<1>0. /\ SubjectTypes /\ LessonTypes /\ pc \in [Calls -> Places]
      /\ \A d \in Calls : HoldsAt(d)
  BY DEF TypesInv
<1>1. ASSUME NEW p, pc' = [pc EXCEPT ![c] = p], p \in Places,
             \A d \in Calls : d # c => /\ sid'[d] = sid[d] /\ twin'[d] = twin[d]
                                       /\ lid'[d] = lid[d],
             p \in SubjectPlaces => sid'[c] \in SubjectIds,
             p = "purging" => twin'[c] \in SubjectIds,
             p \in LessonsCalls => lid'[c] \in LessonIds
      PROVE  pc' \in [Calls -> Places] /\ \A d \in Calls : HoldsAt(d)'
  <2>1. pc' \in [Calls -> Places]
    BY <1>0, <1>1
  <2>2. \A d \in Calls : d # c => HoldsAt(d)'
    BY <1>0, <1>1 DEF HoldsAt
  <2>3. HoldsAt(c)'
    BY <1>0, <1>1 DEF HoldsAt
  <2>4. QED BY <2>1, <2>2, <2>3
<1>2. CASE LessonsOwn(c)
  <2> USE <1>0 DEF GoTo, LContinue, LLeave, LessonTypes, lworking
  <2>1. UNCHANGED <<sid, twin>>
    BY <1>2, LessonsSide DEF working
  <2>2. PICK p : /\ pc' = [pc EXCEPT ![c] = p]
                 /\ \/ pc[c] \in LessonsCalls \cup {"idle"} /\ p \in LessonsCalls \cup {"done"}
                    \/ pc[c] = "selecting" /\ p = "deleting"
                    \/ pc[c] = "deleting" /\ p = "dropping"
    BY <1>2, LessonsSide
  <2>3. p \in SubjectPlaces => sid'[c] \in SubjectIds
    BY <2>1, <2>2, PlacesDiffer DEF HoldsAt, SubjectPlaces, RemovePlaces
  <2>4. p \in Places /\ p # "purging"
    BY <2>2, PlacesDiffer DEF SubjectPlaces, RemovePlaces, LessonsCalls, LessonPlaces,
                              CompletePlaces
  <2>5. /\ \A d \in Calls : d # c => lid'[d] = lid[d]
        /\ p \in LessonsCalls => lid'[c] \in LessonIds
    <3> USE <2>2, PlacesDiffer DEF HoldsAt, LessonsCalls, LessonPlaces, CompletePlaces
    <3>1. CASE LessonFind(c)
      BY <3>1 DEF LessonFind
    <3>2. CASE LessonInsert(c)
      BY <3>2 DEF LessonInsert
    <3>3. CASE LessonRead(c)
      BY <3>3 DEF LessonRead
    <3>4. CASE LessonSave(c)
      BY <3>4 DEF LessonSave
    <3>5. CASE LessonUnread(c)
      BY <3>5 DEF LessonUnread
    <3>6. CASE LessonDelete(c)
      BY <3>6 DEF LessonDelete
    <3>7. CASE Track(c)
      BY <3>7 DEF Track
    <3>8. CASE CompleteRead(c)
      BY <3>8 DEF CompleteRead
    <3>9. CASE CompleteFind(c)
      BY <3>9 DEF CompleteFind
    <3>10. CASE CompleteOpen(c)
      BY <3>10 DEF CompleteOpen
    <3>11. CASE CompleteAward(c)
      BY <3>11 DEF CompleteAward
    <3>12. CASE CompleteClose(c)
      BY <3>12 DEF CompleteClose
    <3>13. CASE RemoveSelect(c)
      BY <3>13 DEF RemoveSelect
    <3>14. CASE RemoveLessons(c)
      BY <3>14 DEF RemoveLessons
    <3>15. QED
      BY ONLY <1>2, <3>1, <3>2, <3>3, <3>4, <3>5, <3>6, <3>7, <3>8, <3>9, <3>10, <3>11, <3>12,
              <3>13, <3>14, Zenon DEF LessonsOwn, Teach, Complete
  <2>6. QED BY <1>1, <2>1, <2>2, <2>3, <2>4, <2>5
<1>3. CASE SubjectsOwn(c)
  <2> USE <1>0 DEF GoTo, Continue, Leave, SubjectTypes, working
  <2>1. UNCHANGED lid /\ \A d \in Calls : d # c => sid'[d] = sid[d]
    BY <1>3, SubjectsSide DEF lvars, lworking
  <2>2. PICK p : /\ pc' = [pc EXCEPT ![c] = p]
                 /\ pc[c] \in {"idle", "unpicturing"} \cup AddPlaces \cup ChangePlaces
                 /\ p \in {"done", "selecting"} \cup AddPlaces \cup ChangePlaces
    BY <1>3, SubjectsSide
  <2>3. p \in Places /\ p \notin LessonsCalls /\ {"done"} \cap SubjectPlaces = {}
    BY <2>2, PlacesDiffer DEF HoldPlaces, RemovePlaces
  <2>4. /\ \A d \in Calls : d # c => twin'[d] = twin[d]
        /\ p = "purging" => twin'[c] \in SubjectIds
        /\ p \in SubjectPlaces => sid'[c] \in SubjectIds
    <3> USE <2>2, <2>3 DEF HoldsAt
    <3>1. CASE AddFind(c)
      BY <3>1 DEF AddFind
    <3>2. CASE Purge(c)
      BY <3>2, PlacesDiffer DEF Purge, AddPurge, AddPlaces
    <3>3. CASE AddInsert(c)
      BY <3>3 DEF AddInsert
    <3>4. CASE ChangeRead(c)
      BY <3>4 DEF ChangeRead, ReadSubject
    <3>5. CASE ChangePicture(c)
      BY <3>5, PlacesDiffer DEF ChangePicture, ChangePlaces, HoldPlaces
    <3>6. CASE ChangeSave(c)
      BY <3>6 DEF ChangeSave
    <3>7. CASE Link(c) \/ Unlink(c)
      BY <3>7 DEF Link, Unlink
    <3>8. CASE RemoveRead(c)
      BY <3>8 DEF RemoveRead, ReadSubject
    <3>9. CASE RemovePicture(c)
      BY <3>9 DEF RemovePicture
    <3>10. QED
      BY ONLY <1>3, <3>1, <3>2, <3>3, <3>4, <3>5, <3>6, <3>7, <3>8, <3>9, Zenon
         DEF SubjectsOwn, SubjectStep
  <2>5. QED BY <1>1, <2>1, <2>2, <2>3, <2>4
<1>4. CASE RemoveCommit(c)
  <2> USE <1>0 DEF GoTo, Continue, Leave, working, SubjectTypes
  <2>1. UNCHANGED lid /\ pc[c] = "dropping"
    BY <1>4 DEF RemoveCommit
  <2>2. Leave(c) \/ Continue(c, "unpicturing")
    BY <1>4 DEF RemoveCommit
  <2>3. sid[c] \in SubjectIds
    BY <2>1 DEF HoldsAt, SubjectPlaces, RemovePlaces
  <2>4. CASE Leave(c)
    BY <1>1, <2>1, <2>4, PlacesDiffer
  <2>5. CASE Continue(c, "unpicturing")
    BY <1>1, <2>1, <2>3, <2>5, PlacesDiffer DEF SubjectPlaces, RemovePlaces, HoldPlaces
  <2>6. QED BY <2>2, <2>4, <2>5
<1>5. CASE Stop(c)
  BY <1>0, <1>1, <1>5, PlacesDiffer DEF Stop, Leave, LLeave, GoTo, SubjectTypes, LessonTypes
<1>6. QED BY <1>2, <1>3, <1>4, <1>5

(* What the rest of the proof uses of the start, with the types. *)
OpeningOK ==
  /\ \A s \in SubjectIds : ~Stands(s) => subject[s] = NoRow
  /\ \A r, s \in SubjectIds :
       r # s /\ subject[r].avatar = subject[s].avatar => subject[r].avatar = Null
  /\ \A i \in Images, s \in SubjectIds : shown[i] = s => subject[s].avatar = i
  /\ \A l \in LessonIds : /\ track[l].there => lstatus[l] = "live"
                          /\ track[l].date = Null /\ ~track[l].earned

(* The start has the types and those facts. *)
LEMMA Opening == Init => TypesInv /\ OpeningOK
<1> SUFFICES ASSUME Init PROVE TypesInv /\ OpeningOK
  OBVIOUS
<1>1. PICK live \in SUBSET SubjectIds, deleted \in {{}} \cup {{s} : s \in SubjectIds} :
        /\ live # SubjectIds
        /\ live = {} \/ deleted = {}
        /\ status = [s \in SubjectIds |-> IF s \in live THEN "live"
                                          ELSE IF s \in deleted THEN "deleted" ELSE "none"]
        /\ \E name \in [live \cup deleted -> Titles],
              face \in [live \cup deleted -> Images \cup {Null}] :
             /\ \A r, s \in live \cup deleted :
                  r # s => name[r] # name[s] /\ Null \in {face[r], face[s]}
             /\ subject = [s \in SubjectIds |->
                  IF s \in live \cup deleted
                  THEN [title |-> name[s], avatar |-> face[s]] ELSE NoRow]
             /\ shown \in [Images -> live \cup deleted \cup {Null}]
             /\ \A i \in Images, s \in SubjectIds \cup {Null} :
                  shown[i] = s => IF s = Null THEN \A r \in live \cup deleted : face[r] # i
                                  ELSE face[s] = i
  BY DEF Init
<1>2. PICK name \in [live \cup deleted -> Titles],
           face \in [live \cup deleted -> Images \cup {Null}] :
        /\ \A r, s \in live \cup deleted :
             r # s => name[r] # name[s] /\ Null \in {face[r], face[s]}
        /\ subject = [s \in SubjectIds |->
             IF s \in live \cup deleted
             THEN [title |-> name[s], avatar |-> face[s]] ELSE NoRow]
        /\ shown \in [Images -> live \cup deleted \cup {Null}]
        /\ \A i \in Images, s \in SubjectIds \cup {Null} :
             shown[i] = s => IF s = Null THEN \A r \in live \cup deleted : face[r] # i
                             ELSE face[s] = i
  BY ONLY <1>1, Zenon
<1>3. PICK taught \in SUBSET LessonIds :
        /\ lstatus = [l \in LessonIds |-> IF l \in taught THEN "live" ELSE "none"]
        /\ \E home \in [taught -> {s \in SubjectIds : Stands(s)}], lname \in [taught -> Titles] :
             /\ \A k, l \in taught : k # l => lname[k] # lname[l]
             /\ lesson = [l \in LessonIds |->
                  IF l \in taught THEN [subject |-> home[l], title |-> lname[l]] ELSE NoLRow]
        /\ track \in [LessonIds -> {NoTRow, Tracked}]
        /\ \A l \in LessonIds : track[l].there => taught = {l}
  BY DEF Init
<1>4. PICK home \in [taught -> {s \in SubjectIds : Stands(s)}], lname \in [taught -> Titles] :
        lesson = [l \in LessonIds |->
                  IF l \in taught THEN [subject |-> home[l], title |-> lname[l]] ELSE NoLRow]
  BY <1>3
<1>5. SubjectTypes
  <2>1. deleted \subseteq SubjectIds
    BY <1>1
  <2>2. \A s \in live \cup deleted : [title |-> name[s], avatar |-> face[s]] \in Row
    BY DEF Row
  <2>3. subject \in [SubjectIds -> Row]
    BY <1>2, <2>1, <2>2, RowTypes
  <2>4. QED BY <1>1, <1>2, <2>1, <2>3, RowTypes DEF Init, SubjectTypes
<1>6. LessonTypes
  <2>1. \A l \in taught : [subject |-> home[l], title |-> lname[l]] \in LRow
    BY DEF LRow
  <2>2. lesson \in [LessonIds -> LRow]
    BY <1>4, <2>1, RowTypes
  <2>3. track \in [LessonIds -> TRow]
    BY <1>3, RowTypes
  <2>4. QED BY <1>3, <2>2, <2>3, RowTypes DEF Init, LessonTypes
<1>7. pc \in [Calls -> Places] /\ \A c \in Calls : HoldsAt(c)
  BY PlacesDiffer DEF Init, HoldsAt
<1>8. OpeningOK
  <2>1. \A s \in SubjectIds : ~Stands(s) => subject[s] = NoRow
    BY <1>1, <1>2 DEF Stands
  <2>2. \A r, s \in SubjectIds :
          r # s /\ subject[r].avatar = subject[s].avatar => subject[r].avatar = Null
    BY <1>2 DEF NoRow
  <2>3. \A i \in Images, s \in SubjectIds : shown[i] = s => subject[s].avatar = i
    <3>1. ASSUME NEW i \in Images, NEW s \in SubjectIds, shown[i] = s
          PROVE  subject[s].avatar = i
      <4>1. s \in live \cup deleted /\ face[s] = i
        BY <1>2, <3>1, SubjectsAssumption
      <4>2. QED BY <1>2, <4>1
    <3>2. QED BY <3>1
  <2>4. \A l \in LessonIds : /\ track[l].there => lstatus[l] = "live"
                            /\ track[l].date = Null /\ ~track[l].earned
    BY <1>3 DEF NoTRow, Tracked
  <2>5. QED BY <2>1, <2>2, <2>3, <2>4 DEF OpeningOK
<1>9. QED BY <1>5, <1>6, <1>7, <1>8 DEF TypesInv

(* A call's step keeps the types. *)
LEMMA TypesOfCall ==
  ASSUME TypesInv, NEW c \in Calls,
         SubjectsOwn(c) \/ LessonsOwn(c) \/ RemoveCommit(c) \/ Stop(c)
  PROVE  TypesInv'
<1>1. SubjectTypes'
  <2>1. CASE LessonsOwn(c)
    BY <2>1, LessonsSide DEF TypesInv, SubjectTypes, stored, working, pictured
  <2>2. QED BY <2>1, SubjectTypesStep
<1>2. LessonTypes'
  <2>1. CASE SubjectsOwn(c)
    BY <2>1, SubjectsSide DEF TypesInv, LessonTypes, lvars, lessons, lworking, lghosts
  <2>2. QED BY <2>1, LessonTypesStep
<1>3. pc' \in [Calls -> Places] /\ \A d \in Calls : HoldsAt(d)'
  BY HoldsStep
<1>4. QED BY <1>1, <1>2, <1>3 DEF TypesInv

(* Every step keeps the types. *)
LEMMA TypesStep == TypesInv /\ [Next]_vars => TypesInv'
<1> SUFFICES ASSUME TypesInv, [Next]_vars PROVE TypesInv'
  OBVIOUS
<1>1. CASE UNCHANGED vars
  BY <1>1 DEF TypesInv, SubjectTypes, LessonTypes, HoldsAt, vars, stored, working, pictured,
              lvars, lessons, lworking, lghosts
<1>2. QED BY <1>1, NextCases, TypesOfCall

-----------------------------------------------------------------------------
(***************************************************************************)
(* A step is one call's, and each subject and lesson goes through its      *)
(* states one way.                                                         *)
(***************************************************************************)

(* The step of a call leaves what the others hold. *)
LEMMA OneCall ==
  ASSUME TypesInv, NEW c \in Calls,
         SubjectsOwn(c) \/ LessonsOwn(c) \/ RemoveCommit(c) \/ Stop(c)
  PROVE  \A d \in Calls : d # c => Untouched(d) /\ LUntouched(d)
<1> USE DEF TypesInv, SubjectTypes, LessonTypes, Untouched, LUntouched, GoTo, Leave, LLeave,
            Continue, LContinue, working, lworking
<1>1. CASE SubjectsOwn(c)
  <2>1. UNCHANGED lworking
    BY <1>1, SubjectsSide DEF lvars
  <2> USE <2>1
  <2>2. CASE AddFind(c)
    BY <2>2 DEF AddFind
  <2>3. CASE Purge(c)
    BY <2>3 DEF Purge, AddPurge
  <2>4. CASE AddInsert(c)
    BY <2>4 DEF AddInsert
  <2>5. CASE ChangeRead(c)
    BY <2>5 DEF ChangeRead, ReadSubject
  <2>6. CASE ChangePicture(c)
    BY <2>6 DEF ChangePicture
  <2>7. CASE ChangeSave(c)
    BY <2>7 DEF ChangeSave
  <2>8. CASE Link(c) \/ Unlink(c)
    BY <2>8 DEF Link, Unlink
  <2>9. CASE RemoveRead(c)
    BY <2>9 DEF RemoveRead, ReadSubject
  <2>10. CASE RemovePicture(c)
    BY <2>10 DEF RemovePicture
  <2>11. QED
    BY ONLY <1>1, <2>2, <2>3, <2>4, <2>5, <2>6, <2>7, <2>8, <2>9, <2>10, Zenon
       DEF SubjectsOwn, SubjectStep
<1>2. CASE LessonsOwn(c)
  <2>1. UNCHANGED working
    BY <1>2, LessonsSide
  <2> USE <2>1
  <2>2. CASE LessonFind(c) \/ LessonRead(c) \/ LessonUnread(c)
    BY <2>2 DEF LessonFind, LessonRead, LessonUnread
  <2>3. CASE LessonInsert(c) \/ LessonSave(c) \/ LessonDelete(c)
    BY <2>3 DEF LessonInsert, LessonSave, LessonDelete
  <2>4. CASE Track(c) \/ CompleteRead(c)
    BY <2>4 DEF Track, CompleteRead
  <2>5. CASE CompleteFind(c)
    BY <2>5 DEF CompleteFind
  <2>6. CASE CompleteOpen(c)
    BY <2>6 DEF CompleteOpen
  <2>7. CASE CompleteAward(c)
    BY <2>7 DEF CompleteAward
  <2>8. CASE CompleteClose(c)
    BY <2>8 DEF CompleteClose
  <2>9. CASE RemoveSelect(c)
    BY <2>9 DEF RemoveSelect
  <2>10. CASE RemoveLessons(c)
    BY <2>10 DEF RemoveLessons
  <2>11. QED
    BY ONLY <1>2, <2>2, <2>3, <2>4, <2>5, <2>6, <2>7, <2>8, <2>9, <2>10, Zenon
       DEF LessonsOwn, Teach, Complete
<1>3. CASE RemoveCommit(c)
  BY <1>3 DEF RemoveCommit
<1>4. CASE Stop(c)
  BY <1>4 DEF Stop
<1>5. QED BY <1>1, <1>2, <1>3, <1>4

(* A create has an id of its own, a twin is soft-deleted or gone, and what *)
(* a call changes or removes was live.  Only rows in the table have values.*)
NameAt(c) ==
  /\ pc[c] \in AddPlaces =>
       /\ status[sid[c]] = "named"
       /\ \A d \in Calls : pc[d] \in AddPlaces /\ sid[d] = sid[c] => d = c
  /\ pc[c] = "purging" => status[twin[c]] \in {"deleted", "gone"}
  /\ pc[c] \in HoldPlaces => status[sid[c]] \in {"live", "gone"}
  /\ pc[c] = "unpicturing" => status[sid[c]] = "gone"

NamesInv ==
  /\ \A c \in Calls : NameAt(c)
  /\ \A s \in SubjectIds : ~Stands(s) => subject[s] = NoRow

(* How the states of subjects follow each other in a step of c. *)
StatusMoves(c) ==
  \A s \in SubjectIds :
    /\ status[s] = "gone" => status'[s] = "gone"
    /\ status[s] = "deleted" => status'[s] \in {"deleted", "gone"}
    /\ status[s] = "live" => status'[s] \in {"live", "gone"}
    /\ status[s] = "named" => status'[s] = "named" \/ (pc[c] = "inserting" /\ sid[c] = s)

(* Subjects go through their states one way. *)
LEMMA SubjectsMove ==
  ASSUME TypesInv, NamesInv, NEW c \in Calls,
         SubjectsOwn(c) \/ LessonsOwn(c) \/ RemoveCommit(c) \/ Stop(c)
  PROVE  StatusMoves(c)
<1>0. /\ status \in [SubjectIds -> {"none", "named", "live", "deleted", "gone"}]
      /\ NameAt(c) /\ HoldsAt(c)
  BY DEF TypesInv, SubjectTypes, NamesInv
<1>1. CASE UNCHANGED status
  BY <1>1 DEF StatusMoves
<1>2. CASE AddFind(c)
  BY <1>0, <1>2 DEF AddFind, StatusMoves
<1>3. CASE Purge(c)
  BY <1>0, <1>3 DEF Purge, AddPurge, StatusMoves, NameAt
<1>4. CASE AddInsert(c)
  BY <1>0, <1>4 DEF AddInsert, StatusMoves, NameAt, AddPlaces
<1>5. CASE RemoveCommit(c)
  BY <1>0, <1>5 DEF RemoveCommit, StatusMoves, NameAt, HoldPlaces, RemovePlaces
<1>6. UNCHANGED status \/ AddFind(c) \/ Purge(c) \/ AddInsert(c) \/ RemoveCommit(c)
  <2>1. CASE LessonsOwn(c)
    BY <2>1, LessonsSide DEF stored
  <2>2. CASE Stop(c)
    BY <2>2 DEF Stop, stored
  <2>3. CASE SubjectsOwn(c)
    BY <2>3 DEF SubjectsOwn, SubjectStep, ChangeRead, ChangePicture, ChangeSave, Link, Unlink,
                RemoveRead, RemovePicture, stored
  <2>4. QED BY <2>1, <2>2, <2>3
<1>7. QED BY <1>1, <1>2, <1>3, <1>4, <1>5, <1>6

(* The other calls' subjects stay as their places ask for. *)
LEMMA NamesOfOthers ==
  ASSUME TypesInv, NamesInv, NEW c \in Calls, StatusMoves(c),
         \A d \in Calls : d # c => Untouched(d),
         pc'[c] \in AddPlaces => \/ pc[c] \in AddPlaces /\ sid'[c] = sid[c]
                                 \/ status[sid'[c]] = "none"
  PROVE  \A d \in Calls : d # c => NameAt(d)'
<1> SUFFICES ASSUME NEW d \in Calls, d # c PROVE NameAt(d)'
  OBVIOUS
<1>0. /\ NameAt(c) /\ NameAt(d) /\ HoldsAt(d) /\ Untouched(d)
      /\ SubjectPlaces = AddPlaces \cup HoldPlaces
  BY PlacesDiffer DEF TypesInv, NamesInv
<1> USE <1>0 DEF HoldsAt, NameAt, StatusMoves
<1>1. pc'[d] = "purging" => status'[twin'[d]] \in {"deleted", "gone"}
  BY DEF Untouched
<1>2. /\ pc'[d] \in HoldPlaces => status'[sid'[d]] \in {"live", "gone"}
      /\ pc'[d] = "unpicturing" => status'[sid'[d]] = "gone"
  BY DEF HoldPlaces, RemovePlaces, Untouched
<1>3. ASSUME pc'[d] \in AddPlaces
      PROVE  /\ status'[sid'[d]] = "named"
             /\ \A e \in Calls : pc'[e] \in AddPlaces /\ sid'[e] = sid'[d] => e = d
  <2>1. pc[d] \in AddPlaces /\ sid'[d] = sid[d] /\ status[sid[d]] = "named"
    BY <1>3 DEF Untouched
  <2>2. status'[sid'[d]] = "named"
    BY <2>1 DEF AddPlaces
  <2>3. \A e \in Calls : e # c => pc'[e] = pc[e] /\ sid'[e] = sid[e]
    BY DEF Untouched
  <2>4. ~(pc'[c] \in AddPlaces /\ sid'[c] = sid'[d])
    BY <2>1
  <2>5. QED BY <2>1, <2>2, <2>3, <2>4
<1>4. QED BY <1>1, <1>2, <1>3

(* A call's step keeps the names. *)
LEMMA NamesOfCall ==
  ASSUME TypesInv, NamesInv, NEW c \in Calls,
         SubjectsOwn(c) \/ LessonsOwn(c) \/ RemoveCommit(c) \/ Stop(c)
  PROVE  NamesInv'
<1>0. /\ SubjectTypes /\ pc \in [Calls -> Places]
      /\ NameAt(c) /\ HoldsAt(c) /\ HoldsAt(c)'
      /\ SubjectPlaces = AddPlaces \cup HoldPlaces /\ AddPlaces \cap HoldPlaces = {}
      /\ SubjectPlaces \cap (LessonsCalls \cup {"idle", "done"}) = {}
      /\ \A s \in SubjectIds : ~Stands(s) => subject[s] = NoRow
  BY TypesOfCall, PlacesDiffer DEF TypesInv, NamesInv
<1>1. StatusMoves(c) /\ \A d \in Calls : d # c => Untouched(d)
  BY SubjectsMove, OneCall
<1>2. AddPlaces = {"purging", "inserting"}
      /\ HoldPlaces = {"picturing", "saving", "selecting", "deleting", "dropping", "unpicturing"}
  BY DEF AddPlaces, HoldPlaces, ChangePlaces, RemovePlaces
<1>3. ASSUME NameAt(c)',
             pc'[c] \in AddPlaces => \/ pc[c] \in AddPlaces /\ sid'[c] = sid[c]
                                     \/ status[sid'[c]] = "none"
      PROVE  \A d \in Calls : NameAt(d)'
  BY <1>1, <1>3, NamesOfOthers
<1>4. ASSUME pc'[c] = "done" PROVE \A d \in Calls : NameAt(d)'
  BY <1>0, <1>2, <1>3, <1>4 DEF NameAt
<1>5. CASE LessonsOwn(c)
  <2>1. UNCHANGED <<status, subject, sid, twin>>
    BY <1>5, LessonsSide DEF stored, working
  <2>2. PICK p : /\ pc' = [pc EXCEPT ![c] = p]
                 /\ \/ pc[c] \in LessonsCalls \cup {"idle"} /\ p \in LessonsCalls \cup {"done"}
                    \/ pc[c] = "selecting" /\ p = "deleting"
                    \/ pc[c] = "deleting" /\ p = "dropping"
    BY <1>5, LessonsSide
  <2>3. pc'[c] = p
    BY <1>0, <2>2
  <2>4. NameAt(c)' /\ pc'[c] \notin AddPlaces
    <3>1. CASE p \in LessonsCalls \cup {"done"}
      BY <1>0, <1>2, <2>3, <3>1 DEF NameAt
    <3>2. CASE p \in {"deleting", "dropping"} /\ pc[c] \in {"selecting", "deleting"}
      BY <1>0, <1>2, <2>1, <2>3, <3>2 DEF NameAt
    <3>3. QED BY <2>2, <3>1, <3>2
  <2>5. \A d \in Calls : NameAt(d)'
    BY <1>3, <2>4
  <2>6. QED BY <1>0, <2>1, <2>5 DEF NamesInv, Stands
<1> USE <1>0, <1>2 DEF GoTo, Leave, Continue, SubjectTypes, working, stored, NamesInv, Stands
<1>6. CASE AddFind(c)
  <2>1. PICK s \in SubjectIds :
          /\ status[s] = "none" /\ status' = [status EXCEPT ![s] = "named"]
          /\ sid' = [sid EXCEPT ![c] = s]
          /\ \/ pc' = [pc EXCEPT ![c] = "inserting"]
             \/ /\ pc' = [pc EXCEPT ![c] = "purging"]
                /\ \E r \in SubjectIds :
                     status[r] = "deleted" /\ twin' = [twin EXCEPT ![c] = r]
    BY <1>6 DEF AddFind
  <2>2. \A d \in Calls : d # c => ~(pc[d] \in AddPlaces /\ sid[d] = s)
    BY <2>1 DEF NameAt
  <2>3. NameAt(c)'
    BY <1>1, <2>1, <2>2 DEF NameAt, Untouched
  <2>4. \A d \in Calls : NameAt(d)'
    BY <1>3, <2>1, <2>3
  <2>5. UNCHANGED subject
    BY <1>6 DEF AddFind
  <2>6. QED BY <2>1, <2>4, <2>5
<1>7. CASE Purge(c)
  <2>1. /\ pc[c] = "purging" /\ pc' = [pc EXCEPT ![c] = "inserting"] /\ UNCHANGED sid
        /\ status' = [status EXCEPT ![twin[c]] = "gone"]
        /\ subject' = [subject EXCEPT ![twin[c]] = NoRow]
        /\ sid[c] \in SubjectIds /\ twin[c] \in SubjectIds /\ sid[c] # twin[c]
    BY <1>7 DEF Purge, AddPurge, HoldsAt, NameAt
  <2>2. NameAt(c)'
    BY <1>1, <2>1 DEF NameAt, Untouched
  <2>3. \A d \in Calls : NameAt(d)'
    BY <1>3, <2>1, <2>2
  <2>4. QED BY <2>1, <2>3
<1>8. CASE AddInsert(c)
  <2>1. \A d \in Calls : NameAt(d)'
    BY <1>4, <1>8 DEF AddInsert
  <2>2. QED BY <1>8, <2>1 DEF AddInsert
<1>9. ASSUME NEW s \in SubjectIds, NEW p \in HoldPlaces \ {"unpicturing"}, ReadSubject(c, s),
             GoTo(c, p), UNCHANGED <<status, subject>>
      PROVE  NamesInv'
  <2>1. NameAt(c)' /\ pc'[c] \notin AddPlaces
    BY <1>9 DEF ReadSubject, NameAt
  <2>2. QED BY <1>3, <1>9, <2>1
<1>10. CASE ChangeRead(c)
  BY <1>9, <1>10 DEF ChangeRead
<1>11. CASE RemoveRead(c)
  BY <1>9, <1>11 DEF RemoveRead
<1>12. CASE ChangePicture(c)
  <2>1. NameAt(c)' /\ pc'[c] \notin AddPlaces
    BY <1>12 DEF ChangePicture, NameAt
  <2>2. QED BY <1>3, <1>12, <2>1 DEF ChangePicture
<1>13. CASE ChangeSave(c)
  <2>1. \A d \in Calls : NameAt(d)'
    BY <1>4, <1>13 DEF ChangeSave
  <2>2. QED BY <1>13, <2>1 DEF ChangeSave
<1>14. CASE Link(c) \/ Unlink(c) \/ RemovePicture(c) \/ Stop(c)
  <2>1. pc'[c] = "done" /\ UNCHANGED <<status, subject>>
    BY <1>14 DEF Link, Unlink, RemovePicture, Stop
  <2>2. QED BY <1>4, <2>1
<1>15. CASE RemoveCommit(c)
  <2>1. /\ pc[c] = "dropping" /\ sid[c] \in SubjectIds
        /\ \/ UNCHANGED <<status, subject>> /\ Leave(c)
           \/ /\ status' = [status EXCEPT ![sid[c]] = "gone"]
              /\ subject' = [subject EXCEPT ![sid[c]] = NoRow]
              /\ Leave(c) \/ Continue(c, "unpicturing")
    BY <1>15 DEF RemoveCommit, HoldsAt
  <2>2. \A d \in Calls : NameAt(d)'
    <3>1. CASE Leave(c)
      BY <1>4, <3>1
    <3>2. CASE ~Leave(c)
      <4>1. NameAt(c)' /\ pc'[c] \notin AddPlaces
        BY <2>1, <3>2 DEF NameAt
      <4>2. QED BY <1>3, <4>1
    <3>3. QED BY <3>1, <3>2
  <2>3. QED BY <2>1, <2>2
<1>16. QED
  BY ONLY <1>5, <1>6, <1>7, <1>8, <1>10, <1>11, <1>12, <1>13, <1>14, <1>15, Zenon,
          SubjectsOwn(c) \/ LessonsOwn(c) \/ RemoveCommit(c) \/ Stop(c)
     DEF SubjectsOwn, SubjectStep

(* The same of lessons.  And the lessons a removal has read are the        *)
(* subject's, but for those that have left it since; only a live lesson is *)
(* tracked, and only what is tracked has a date or XP.                     *)
LNameAt(c) ==
  /\ pc[c] = "lessoning" =>
       /\ lstatus[lid[c]] = "named"
       /\ \A d \in Calls : pc[d] = "lessoning" /\ lid[d] = lid[c] => d = c
  /\ pc[c] \in LessonsCalls \ {"lessoning"} => lstatus[lid[c]] \in {"live", "gone"}
DoomsAt(c) ==
  \A l \in doomed[c] :
    /\ lstatus[l] \in {"live", "gone"}
    /\ pc[c] \in {"deleting", "dropping"} /\ lstatus[l] = "live" /\ l \notin strayed =>
         lesson[l].subject = sid[c]
TrackOK(l) ==
  /\ track[l].there => lstatus[l] = "live"
  /\ ~track[l].there => track[l].date = Null /\ ~track[l].earned

LNamesInv ==
  /\ \A c \in Calls : LNameAt(c) /\ DoomsAt(c)
  /\ \A l \in LessonIds : TrackOK(l)

(* How the states of lessons, and their subjects, change in a step of c. *)
LessonMoves(c) ==
  \A l \in LessonIds :
    /\ lstatus[l] = "gone" => lstatus'[l] = "gone"
    /\ lstatus[l] = "live" => lstatus'[l] \in {"live", "gone"}
    /\ lstatus[l] = "named" => \/ lstatus'[l] = "named"
                               \/ pc[c] = "lessoning" /\ lid[c] = l
    /\ lstatus[l] = "live" /\ lstatus'[l] = "live" =>
         \/ lesson'[l].subject = lesson[l].subject
         \/ ~Locked(l) /\ (Dooming(l) # {} => l \in strayed')

(* Lessons go through their states one way, and leave a subject that is    *)
(* being removed only as strays.                                           *)
LEMMA LessonsMove ==
  ASSUME TypesInv, LNamesInv, NEW c \in Calls,
         SubjectsOwn(c) \/ LessonsOwn(c) \/ RemoveCommit(c) \/ Stop(c)
  PROVE  LessonMoves(c) /\ strayed \subseteq strayed'
<1>0. /\ lstatus \in [LessonIds -> {"none", "named", "live", "gone"}]
      /\ lesson \in [LessonIds -> LRow]
      /\ LNameAt(c) /\ DoomsAt(c) /\ HoldsAt(c)
      /\ pc[c] \in LessonsCalls => lid[c] \in LessonIds
      /\ doomed \in [Calls -> SUBSET LessonIds]
  BY DEF TypesInv, LessonTypes, LNamesInv, HoldsAt
<1>1. LessonsCalls = {"tracking", "opening", "awarding", "closing", "lessoning",
                      "relessoning", "unlessoning"}
  BY DEF LessonsCalls, LessonPlaces, CompletePlaces
<1> USE <1>0, <1>1 DEF LessonMoves, lghosts
<1>2. CASE UNCHANGED <<lstatus, lesson, strayed>>
  BY <1>2
<1>3. CASE LessonFind(c)
  BY <1>3 DEF LessonFind
<1>4. CASE LessonInsert(c)
  BY <1>4 DEF LessonInsert, LNameAt
<1>5. CASE LessonSave(c)
  BY <1>5 DEF LessonSave
<1>6. ASSUME NEW ls \in SUBSET LessonIds, Delete(ls), UNCHANGED strayed,
             \A l \in ls : lstatus[l] \in {"live", "gone"}
      PROVE  LessonMoves(c) /\ strayed \subseteq strayed'
  BY <1>6 DEF Delete
<1>7. CASE LessonDelete(c)
  BY <1>6, <1>7 DEF LessonDelete, LNameAt
<1>8. CASE RemoveCommit(c)
  BY <1>6, <1>8 DEF RemoveCommit, DoomsAt
<1>9. \/ UNCHANGED <<lstatus, lesson, strayed>> \/ LessonFind(c) \/ LessonInsert(c)
      \/ LessonSave(c) \/ LessonDelete(c) \/ RemoveCommit(c)
  <2>1. CASE SubjectsOwn(c)
    BY <2>1, SubjectsSide DEF TypesInv, lvars, lessons
  <2>2. CASE Stop(c)
    BY <2>2 DEF Stop, lessons
  <2>3. CASE LessonsOwn(c)
    BY <2>3 DEF LessonsOwn, Teach, Complete, LessonRead, LessonUnread, Track, CompleteRead,
                CompleteFind, CompleteOpen, CompleteAward, CompleteClose, RemoveSelect,
                RemoveLessons, lessons
  <2>4. QED BY <2>1, <2>2, <2>3
<1>10. QED BY <1>2, <1>3, <1>4, <1>5, <1>7, <1>8, <1>9

(* The other calls' lessons stay as their places ask for. *)
LEMMA LessonsOfOthers ==
  ASSUME TypesInv, LNamesInv, NEW c \in Calls, LessonMoves(c), strayed \subseteq strayed',
         \A d \in Calls : d # c => Untouched(d) /\ LUntouched(d),
         pc'[c] = "lessoning" => lstatus[lid'[c]] = "none"
  PROVE  \A d \in Calls : d # c => LNameAt(d)' /\ DoomsAt(d)'
<1> SUFFICES ASSUME NEW d \in Calls, d # c PROVE LNameAt(d)' /\ DoomsAt(d)'
  OBVIOUS
<1>0. /\ LNameAt(c) /\ LNameAt(d) /\ DoomsAt(d) /\ HoldsAt(d)
      /\ pc'[d] = pc[d] /\ lid'[d] = lid[d] /\ doomed'[d] = doomed[d] /\ sid'[d] = sid[d]
      /\ doomed[d] \subseteq LessonIds
      /\ lstatus \in [LessonIds -> {"none", "named", "live", "gone"}]
      /\ "lessoning" \in LessonsCalls
  BY DEF TypesInv, LNamesInv, LessonTypes, Untouched, LUntouched, LessonsCalls, LessonPlaces
<1> USE <1>0 DEF HoldsAt, LessonMoves
<1>1. ASSUME pc[d] = "lessoning"
      PROVE  /\ lstatus'[lid[d]] = "named"
             /\ \A e \in Calls : pc'[e] = "lessoning" /\ lid'[e] = lid[d] => e = d
  <2>1. lstatus[lid[d]] = "named" /\ lid[d] \in LessonIds
    BY <1>1 DEF LNameAt
  <2>2. lstatus'[lid[d]] = "named"
    BY <1>1, <2>1 DEF LNameAt
  <2>3. \A e \in Calls : e # c => pc'[e] = pc[e] /\ lid'[e] = lid[e]
    BY DEF Untouched, LUntouched
  <2>4. QED BY <1>1, <2>1, <2>2, <2>3 DEF LNameAt
<1>2. pc[d] \in LessonsCalls \ {"lessoning"} => lstatus'[lid[d]] \in {"live", "gone"}
  BY DEF LNameAt
<1>3. ASSUME NEW l \in doomed[d]
      PROVE  /\ lstatus'[l] \in {"live", "gone"}
             /\ pc[d] \in {"deleting", "dropping"} /\ lstatus'[l] = "live"
                  /\ l \notin strayed' => lesson'[l].subject = sid[d]
  <2>1. lstatus[l] \in {"live", "gone"} /\ l \in LessonIds
    BY <1>3 DEF DoomsAt
  <2>2. lstatus'[l] \in {"live", "gone"} /\ (lstatus'[l] = "live" => lstatus[l] = "live")
    BY <2>1
  <2>3. CASE pc[d] = "deleting" /\ lstatus'[l] = "live" /\ l \notin strayed'
    <3>1. d \in Dooming(l)
      BY <2>3 DEF Dooming
    <3>2. lesson'[l].subject = lesson[l].subject /\ l \notin strayed
      BY <2>1, <2>2, <2>3, <3>1
    <3>3. QED BY <2>1, <2>2, <2>3, <3>2 DEF DoomsAt
  <2>4. CASE pc[d] = "dropping" /\ lstatus'[l] = "live" /\ l \notin strayed'
    <3>1. Locked(l)
      BY <2>1, <2>2, <2>4 DEF Locked
    <3>2. lesson'[l].subject = lesson[l].subject /\ l \notin strayed
      BY <2>1, <2>2, <2>4, <3>1
    <3>3. QED BY <2>1, <2>2, <2>4, <3>2 DEF DoomsAt
  <2>5. QED BY <2>2, <2>3, <2>4
<1>4. LNameAt(d)'
  BY <1>1, <1>2 DEF LNameAt
<1>5. DoomsAt(d)'
  BY <1>3 DEF DoomsAt
<1>6. QED BY <1>4, <1>5

(* Each step keeps the trackings with live lessons. *)
LEMMA TracksOfCall ==
  ASSUME TypesInv, LNamesInv, NEW c \in Calls,
         SubjectsOwn(c) \/ LessonsOwn(c) \/ RemoveCommit(c) \/ Stop(c)
  PROVE  \A l \in LessonIds : TrackOK(l)'
<1>0. /\ lstatus \in [LessonIds -> {"none", "named", "live", "gone"}]
      /\ track \in [LessonIds -> TRow]
      /\ \A l \in LessonIds : TrackOK(l)
      /\ LNameAt(c) /\ HoldsAt(c) /\ (pc[c] \in LessonsCalls => lid[c] \in LessonIds)
  BY DEF TypesInv, LessonTypes, LNamesInv, HoldsAt
<1>1. LessonsCalls = {"tracking", "opening", "awarding", "closing", "lessoning",
                      "relessoning", "unlessoning"}
  BY DEF LessonsCalls, LessonPlaces, CompletePlaces
<1> USE <1>0, <1>1 DEF TrackOK, lessons
<1>2. CASE UNCHANGED <<lstatus, track>>
  BY <1>2
<1>3. CASE LessonFind(c)
  BY <1>3 DEF LessonFind
<1>4. CASE LessonInsert(c)
  BY <1>4 DEF LessonInsert, LNameAt
<1>5. ASSUME NEW ls, Delete(ls) PROVE \A l \in LessonIds : TrackOK(l)'
  BY <1>5 DEF Delete, NoTRow
<1>6. CASE Track(c)
  <2>1. PICK k \in LessonIds : lstatus[k] = "live" /\ track' = [track EXCEPT ![k].there = TRUE]
    BY <1>6 DEF Track
  <2>2. \A l \in LessonIds \ {k} : track'[l] = track[l]
    BY <2>1
  <2>3. track'[k].there = TRUE
    BY <2>1 DEF TRow
  <2>4. UNCHANGED lstatus
    BY <1>6 DEF Track
  <2>5. QED BY <2>1, <2>2, <2>3, <2>4
<1>7. CASE CompleteOpen(c)
  BY <1>7 DEF CompleteOpen
<1>8. CASE CompleteClose(c)
  BY <1>8 DEF CompleteClose
<1>9. \/ UNCHANGED <<lstatus, track>> \/ LessonFind(c) \/ LessonInsert(c)
      \/ Track(c) \/ CompleteOpen(c) \/ CompleteClose(c) \/ \E ls : Delete(ls)
  <2>1. CASE SubjectsOwn(c)
    BY <2>1, SubjectsSide DEF TypesInv, lvars
  <2>2. CASE Stop(c)
    BY <2>2 DEF Stop
  <2>3. CASE LessonDelete(c)
    BY <2>3 DEF LessonDelete
  <2>4. CASE RemoveCommit(c)
    BY <2>4 DEF RemoveCommit
  <2>5. CASE LessonsOwn(c) /\ ~LessonDelete(c)
    BY <2>5 DEF LessonsOwn, Teach, Complete, LessonRead, LessonUnread, LessonSave, CompleteRead,
                CompleteFind, CompleteAward, RemoveSelect, RemoveLessons
  <2>6. QED BY <2>1, <2>2, <2>3, <2>4, <2>5
<1>10. QED BY <1>2, <1>3, <1>4, <1>5, <1>6, <1>7, <1>8, <1>9

(* A call's step keeps all of it. *)
LEMMA LNamesOfCall ==
  ASSUME TypesInv, LNamesInv, NEW c \in Calls,
         SubjectsOwn(c) \/ LessonsOwn(c) \/ RemoveCommit(c) \/ Stop(c)
  PROVE  LNamesInv'
<1>0. /\ pc \in [Calls -> Places] /\ LessonTypes /\ SubjectTypes
      /\ LNameAt(c) /\ DoomsAt(c) /\ HoldsAt(c)
      /\ (pc[c] \in LessonsCalls => lid[c] \in LessonIds)
      /\ \A d \in Calls : d # c => LUntouched(d)
  BY OneCall DEF TypesInv, LNamesInv, HoldsAt
<1>1. LessonsCalls = {"tracking", "opening", "awarding", "closing", "lessoning",
                      "relessoning", "unlessoning"}
  BY DEF LessonsCalls, LessonPlaces, CompletePlaces
<1>2. /\ LessonMoves(c) /\ strayed \subseteq strayed'
      /\ \A d \in Calls : d # c => Untouched(d) /\ LUntouched(d)
  BY LessonsMove, OneCall
<1>3. ASSUME LNameAt(c)', DoomsAt(c)', pc'[c] = "lessoning" => lstatus[lid'[c]] = "none"
      PROVE  LNamesInv'
  BY <1>2, <1>3, LessonsOfOthers, TracksOfCall DEF LNamesInv
<1>4. ASSUME pc'[c] \notin LessonsCalls \cup {"deleting", "dropping"}, doomed'[c] \subseteq doomed[c]
      PROVE  LNamesInv'
  <2>1. LNameAt(c)' /\ pc'[c] # "lessoning"
    BY <1>1, <1>4 DEF LNameAt
  <2>2. DoomsAt(c)'
    BY <1>0, <1>2, <1>4 DEF DoomsAt, LessonMoves, LessonTypes
  <2>3. QED BY <1>3, <2>1, <2>2
<1>5. CASE SubjectsOwn(c)
  <2>1. UNCHANGED doomed /\ pc'[c] \notin LessonsCalls \cup {"deleting", "dropping"}
    BY <1>0, <1>1, <1>5, SubjectsSide
       DEF lvars, lworking, AddPlaces, ChangePlaces
  <2>2. QED BY <1>4, <2>1
<1> USE <1>0, <1>1 DEF GoTo, LLeave, LContinue, lessons, lworking, LessonTypes
<1>6. ASSUME LLeave(c) PROVE LNamesInv'
  BY <1>4, <1>6
<1>7. ASSUME UNCHANGED doomed, NEW p \in LessonsCalls, GoTo(c, p), LNameAt(c)',
             p = "lessoning" => lstatus[lid'[c]] = "none"
      PROVE  LNamesInv'
  <2>1. DoomsAt(c)'
    BY <1>2, <1>7 DEF DoomsAt, LessonMoves
  <2>2. QED BY <1>3, <1>7, <2>1
<1>8. CASE LessonFind(c)
  <2>1. PICK l \in LessonIds : /\ lstatus[l] = "none" /\ lid' = [lid EXCEPT ![c] = l]
                               /\ lstatus' = [lstatus EXCEPT ![l] = "named"]
    BY <1>8 DEF LessonFind
  <2>2. UNCHANGED doomed /\ GoTo(c, "lessoning")
    BY <1>8 DEF LessonFind
  <2>3. \A d \in Calls : d # c => ~(pc[d] = "lessoning" /\ lid[d] = l)
    BY <2>1 DEF LNamesInv, LNameAt
  <2>4. LNameAt(c)'
    BY <1>2, <2>1, <2>2, <2>3 DEF LNameAt, Untouched, LUntouched
  <2>5. QED BY <1>7, <2>1, <2>2, <2>4
<1>9. CASE LessonInsert(c) \/ LessonSave(c) \/ LessonDelete(c) \/ CompleteClose(c) \/ Stop(c)
  BY <1>6, <1>9 DEF LessonInsert, LessonSave, LessonDelete, CompleteClose, Stop
<1>10. CASE Track(c)
  BY <1>4, <1>10 DEF Track
<1>11. CASE LessonRead(c) \/ LessonUnread(c) \/ CompleteRead(c)
  <2>1. PICK l \in LessonIds : lstatus[l] = "live" /\ lid' = [lid EXCEPT ![c] = l]
    BY <1>11 DEF LessonRead, LessonUnread, CompleteRead
  <2>2. PICK p \in {"relessoning", "unlessoning", "tracking"} : GoTo(c, p)
    BY <1>11 DEF LessonRead, LessonUnread, CompleteRead
  <2>3. UNCHANGED <<doomed, lstatus>>
    BY <1>11 DEF LessonRead, LessonUnread, CompleteRead
  <2>4. LNameAt(c)'
    BY <2>1, <2>2, <2>3 DEF LNameAt
  <2>5. QED BY <1>7, <2>2, <2>3, <2>4
<1>12. CASE CompleteFind(c) \/ CompleteAward(c)
  <2>1. PICK p \in {"opening", "awarding", "closing"} : GoTo(c, p)
    BY <1>12 DEF CompleteFind, CompleteAward
  <2>2. UNCHANGED <<lid, doomed, lstatus>>
    BY <1>12 DEF CompleteFind, CompleteAward
  <2>3. pc[c] \in {"tracking", "awarding"}
    BY <1>12 DEF CompleteFind, CompleteAward
  <2>4. LNameAt(c)'
    BY <2>1, <2>2, <2>3 DEF LNameAt
  <2>5. QED BY <1>7, <2>1, <2>2, <2>4
<1>13. CASE CompleteOpen(c)
  <2>1. \/ LLeave(c)
        \/ GoTo(c, "awarding") /\ UNCHANGED <<lid, doomed>> /\ lstatus[lid[c]] = "live"
    BY <1>13 DEF CompleteOpen
  <2>2. CASE GoTo(c, "awarding") /\ UNCHANGED <<lid, doomed>> /\ lstatus[lid[c]] = "live"
    <3>1. UNCHANGED lstatus
      BY <1>13 DEF CompleteOpen
    <3>2. LNameAt(c)'
      BY <2>2, <3>1 DEF LNameAt
    <3>3. QED BY <1>7, <2>2, <3>2
  <2>3. QED BY <1>6, <2>1, <2>2
<1>14. CASE RemoveSelect(c)
  <2>1. LNameAt(c)' /\ pc'[c] = "deleting"
    BY <1>14 DEF RemoveSelect, LNameAt
  <2>2. DoomsAt(c)'
    BY <1>14 DEF RemoveSelect, DoomsAt, working
  <2>3. QED BY <1>3, <2>1, <2>2
<1>15. CASE RemoveLessons(c)
  <2>1. LNameAt(c)' /\ pc'[c] = "dropping"
    BY <1>15 DEF RemoveLessons, LNameAt
  <2>2. DoomsAt(c)'
    BY <1>15 DEF RemoveLessons, DoomsAt, working, lghosts
  <2>3. QED BY <1>3, <2>1, <2>2
<1>16. CASE RemoveCommit(c)
  <2>1. doomed'[c] = {} /\ pc'[c] \in {"done", "unpicturing"}
    BY <1>16 DEF RemoveCommit, Leave, Continue
  <2>2. QED BY <1>4, <2>1
<1>17. QED
  BY ONLY <1>5, <1>8, <1>9, <1>10, <1>11, <1>12, <1>13, <1>14, <1>15, <1>16, Zenon,
          SubjectsOwn(c) \/ LessonsOwn(c) \/ RemoveCommit(c) \/ Stop(c)
     DEF LessonsOwn, Teach, Complete

-----------------------------------------------------------------------------
(***************************************************************************)
(* Completions.                                                            *)
(***************************************************************************)

(* Completions of a lesson do not meet.  XP that is logged is on the       *)
(* tracking, or about to be saved, or its lesson is gone.                  *)
Alone(l) == l \notin met => \A c, d \in Completing(l) : c = d
AwardOK(l) ==
  l \notin met \cup unsaved =>
    /\ paid[l] <= 1
    /\ paid[l] = 1 => \/ lstatus[l] = "gone" \/ track[l].earned
                      \/ \E c \in Calls : pc[c] = "closing" /\ lid[c] = l
(* What a completion holds of the tracking, and what it knows of the XP.   *)
HeldAt(c) ==
  pc[c] \in {"awarding", "closing"} =>
    lstatus[lid[c]] = "gone" \/ track[lid[c]].there
DatedAt(c) ==
  pc[c] \in {"awarding", "closing"} /\ lid[c] \notin met =>
    lstatus[lid[c]] = "gone" \/ inst[c].date = track[lid[c]].date
UnpaidAt(c) ==
  lid[c] \notin met \cup unsaved =>
    /\ pc[c] = "awarding" => paid[lid[c]] = 0
    /\ pc[c] = "opening" => paid[lid[c]] = 0 \/ lstatus[lid[c]] = "gone"

AwardsInv ==
  /\ \A l \in LessonIds : Alone(l) /\ AwardOK(l)
  /\ \A c \in Calls : HeldAt(c) /\ DatedAt(c) /\ UnpaidAt(c)

(* A step that is no completion's, and that sets no date and no XP of a    *)
(* lesson that stays, keeps this.                                          *)
LEMMA AwardsFrame ==
  ASSUME TypesInv, AwardsInv, NEW c \in Calls, LessonMoves(c),
         \A d \in Calls : d # c => Untouched(d) /\ LUntouched(d),
         pc[c] \notin CompletePlaces, pc'[c] \notin CompletePlaces,
         UNCHANGED <<paid, met, unsaved>>,
         \A l \in LessonIds : \/ lstatus[l] # "gone" /\ lstatus'[l] = "gone"
                              \/ /\ track'[l].date = track[l].date
                                 /\ track'[l].earned = track[l].earned
                                 /\ track[l].there => track'[l].there
  PROVE  AwardsInv'
<1>0. /\ \A d \in Calls : d # c => /\ pc'[d] = pc[d] /\ lid'[d] = lid[d]
                                   /\ inst'[d] = inst[d]
      /\ \A l \in LessonIds : lstatus[l] = "gone" => lstatus'[l] = "gone"
      /\ CompletePlaces = {"tracking", "opening", "awarding", "closing"}
      /\ \A d \in Calls : pc[d] \in CompletePlaces => lid[d] \in LessonIds
  BY DEF Untouched, LUntouched, LessonMoves, CompletePlaces, TypesInv, HoldsAt, LessonsCalls
<1>1. \A l \in LessonIds : Completing(l)' = Completing(l)
  BY <1>0 DEF Completing
<1>2. \A l \in LessonIds : Alone(l)'
  BY <1>1 DEF Alone, AwardsInv
<1>3. ASSUME NEW l \in LessonIds PROVE AwardOK(l)'
  <2>1. AwardOK(l)
    BY DEF AwardsInv
  <2>2. (\E d \in Calls : pc[d] = "closing" /\ lid[d] = l) =>
          \E d \in Calls : pc'[d] = "closing" /\ lid'[d] = l
    BY <1>0
  <2>3. QED BY <1>0, <2>1, <2>2 DEF AwardOK
<1>4. ASSUME NEW d \in Calls PROVE HeldAt(d)' /\ DatedAt(d)' /\ UnpaidAt(d)'
  <2>1. HeldAt(d) /\ DatedAt(d) /\ UnpaidAt(d)
    BY DEF AwardsInv
  <2>2. CASE d = c
    BY <1>0, <2>2 DEF HeldAt, DatedAt, UnpaidAt
  <2>3. CASE d # c
    <3>1. HeldAt(d)'
      BY <1>0, <2>1, <2>3 DEF HeldAt
    <3>2. DatedAt(d)'
      BY <1>0, <2>1, <2>3 DEF DatedAt
    <3>3. UnpaidAt(d)'
      BY <1>0, <2>1, <2>3 DEF UnpaidAt
    <3>4. QED BY <3>1, <3>2, <3>3
  <2>4. QED BY <2>2, <2>3
<1>5. QED BY <1>2, <1>3, <1>4 DEF AwardsInv

(* A step of a completion of lesson k concerns k alone, and no other       *)
(* completion of it unless they have met.                                  *)
LEMMA AwardsOfOthers ==
  ASSUME TypesInv, AwardsInv, NEW c \in Calls, NEW k \in LessonIds,
         \A d \in Calls : d # c => LUntouched(d),
         UNCHANGED lstatus, met \subseteq met', unsaved \subseteq unsaved',
         \A l \in LessonIds : l # k => track'[l] = track[l] /\ paid'[l] = paid[l],
         track[k].there => track'[k].there,
         k \notin met' => Completing(k) \subseteq {c},
         pc[c] \in CompletePlaces => lid[c] = k,
         pc'[c] \in CompletePlaces => lid'[c] = k
  PROVE  /\ \A l \in LessonIds : Alone(l)' /\ (l # k => AwardOK(l)')
         /\ \A d \in Calls : d # c => HeldAt(d)' /\ DatedAt(d)' /\ UnpaidAt(d)'
<1>0. /\ \A d \in Calls : d # c => /\ pc'[d] = pc[d] /\ lid'[d] = lid[d]
                                   /\ inst'[d] = inst[d]
      /\ CompletePlaces = {"tracking", "opening", "awarding", "closing"}
      /\ \A d \in Calls : pc[d] \in CompletePlaces => lid[d] \in LessonIds
  BY DEF LUntouched, CompletePlaces, TypesInv, HoldsAt, LessonsCalls
<1>1. ASSUME NEW l \in LessonIds PROVE Alone(l)'
  <2>1. CASE l = k
    <3>1. l \notin met' => Completing(l)' \subseteq {c}
      BY <1>0, <2>1 DEF Completing
    <3>2. QED BY <3>1 DEF Alone
  <2>2. CASE l # k
    <3>1. Completing(l)' = Completing(l)
      BY <1>0, <2>2 DEF Completing
    <3>2. QED BY <3>1 DEF Alone, AwardsInv
  <2>3. QED BY <2>1, <2>2
<1>2. ASSUME NEW l \in LessonIds, l # k PROVE AwardOK(l)'
  <2>1. AwardOK(l)
    BY DEF AwardsInv
  <2>2. (\E d \in Calls : pc[d] = "closing" /\ lid[d] = l) =>
          \E d \in Calls : pc'[d] = "closing" /\ lid'[d] = l
    BY <1>0, <1>2
  <2>3. QED BY <1>2, <2>1, <2>2 DEF AwardOK
<1>3. ASSUME NEW d \in Calls, d # c PROVE HeldAt(d)' /\ DatedAt(d)' /\ UnpaidAt(d)'
  <2>1. HeldAt(d) /\ DatedAt(d) /\ UnpaidAt(d)
    BY DEF AwardsInv
  <2>2. pc[d] \in CompletePlaces /\ lid[d] = k => k \in met'
    BY <1>3 DEF Completing
  <2>3. HeldAt(d)'
    BY <1>0, <1>3, <2>1 DEF HeldAt
  <2>4. DatedAt(d)'
    BY <1>0, <1>3, <2>1, <2>2 DEF DatedAt
  <2>5. UnpaidAt(d)'
    BY <1>0, <1>3, <2>1, <2>2 DEF UnpaidAt
  <2>6. QED BY <2>3, <2>4, <2>5
<1>4. QED BY <1>1, <1>2, <1>3

(* The steps that are no completion's. *)
LEMMA AwardsBystand ==
  ASSUME TypesInv, LNamesInv, AwardsInv, NEW c \in Calls,
         \/ SubjectsOwn(c) \/ RemoveCommit(c) \/ Teach(c) \/ Track(c)
         \/ RemoveSelect(c) \/ RemoveLessons(c)
         \/ Stop(c) /\ pc[c] \notin CompletePlaces
  PROVE  AwardsInv'
<1>0. /\ pc \in [Calls -> Places] /\ LessonTypes /\ LNameAt(c) /\ DoomsAt(c)
      /\ LessonsCalls = {"tracking", "opening", "awarding", "closing", "lessoning",
                         "relessoning", "unlessoning"}
      /\ CompletePlaces = {"tracking", "opening", "awarding", "closing"}
  BY DEF TypesInv, LNamesInv, LessonsCalls, LessonPlaces, CompletePlaces
<1>1. /\ LessonMoves(c)
      /\ \A d \in Calls : d # c => Untouched(d) /\ LUntouched(d)
  BY LessonsMove, OneCall DEF LessonsOwn, Complete
<1> DEFINE Kept(l) == \/ lstatus[l] # "gone" /\ lstatus'[l] = "gone"
                      \/ /\ track'[l].date = track[l].date
                         /\ track'[l].earned = track[l].earned
                         /\ track[l].there => track'[l].there
<1>2. ASSUME pc[c] \notin CompletePlaces, pc'[c] \notin CompletePlaces,
             UNCHANGED <<paid, met, unsaved>>, \A l \in LessonIds : Kept(l)
      PROVE  AwardsInv'
  BY <1>1, <1>2, AwardsFrame
<1> HIDE DEF Kept
<1>3. ASSUME UNCHANGED track PROVE \A l \in LessonIds : Kept(l)
  BY <1>3 DEF Kept
<1>4. ASSUME NEW ls \in SUBSET LessonIds, Delete(ls)
      PROVE  \A l \in LessonIds : Kept(l)
  <2>1. \A l \in LessonIds : lstatus[l] = "gone" =>
          track[l].there = FALSE /\ track[l].date = Null /\ track[l].earned = FALSE
    <3>1. \A l \in LessonIds : track[l].there \in BOOLEAN /\ track[l].earned \in BOOLEAN
      BY RowTypes DEF TypesInv, LessonTypes
    <3>2. QED BY <3>1 DEF LNamesInv, TrackOK
  <2>2. \A l \in LessonIds : l \notin ls => track'[l] = track[l]
    BY <1>4 DEF Delete
  <2>3. \A l \in ls : lstatus'[l] = "gone" /\ track'[l] = NoTRow
    BY <1>4 DEF Delete
  <2>4. \A l \in ls : /\ track'[l].there = FALSE /\ track'[l].date = Null
                      /\ track'[l].earned = FALSE
    BY <2>3 DEF NoTRow
  <2>5. \A l \in ls : Kept(l)
    BY <2>1, <2>3, <2>4 DEF Kept
  <2>6. \A l \in LessonIds \ ls : Kept(l)
    BY <2>2 DEF Kept
  <2>7. QED BY <2>5, <2>6
<1> USE <1>0 DEF GoTo, LContinue, LLeave, lessons, lghosts, lvars
<1>5. CASE SubjectsOwn(c)
  <2>1. UNCHANGED lvars
    BY <1>5, SubjectsSide DEF TypesInv
  <2>2. pc[c] \notin CompletePlaces /\ pc'[c] \notin CompletePlaces
    BY <1>5, SubjectsSide DEF TypesInv, AddPlaces, ChangePlaces
  <2>3. QED BY <1>2, <1>3, <2>1, <2>2
<1>6. CASE RemoveCommit(c)
  <2>1. pc[c] = "dropping" /\ pc'[c] \in {"done", "unpicturing"}
    BY <1>6 DEF RemoveCommit, Leave, Continue
  <2>2. \E ls \in SUBSET LessonIds : Delete(ls)
    BY <1>6 DEF RemoveCommit, LessonTypes
  <2>3. UNCHANGED <<paid, met, unsaved>>
    BY <1>6 DEF RemoveCommit
  <2>4. \A l \in LessonIds : Kept(l)
    BY <1>4, <2>2
  <2>5. QED BY <1>2, <2>1, <2>3, <2>4
<1>7. CASE LessonDelete(c)
  <2>1. pc[c] = "unlessoning" /\ pc'[c] = "done" /\ UNCHANGED <<paid, met, unsaved>>
    BY <1>7 DEF LessonDelete
  <2>2. Delete({lid[c]}) /\ lid[c] \in LessonIds
    BY <1>7 DEF LessonDelete, TypesInv, HoldsAt
  <2>3. QED BY <1>2, <1>4, <2>1, <2>2
<1>8. CASE LessonFind(c) \/ LessonRead(c) \/ LessonUnread(c)
  BY <1>2, <1>3, <1>8 DEF LessonFind, LessonRead, LessonUnread
<1>9. CASE LessonInsert(c) \/ LessonSave(c)
  BY <1>2, <1>3, <1>9 DEF LessonInsert, LessonSave
<1>10. CASE Track(c)
  <2>1. PICK k \in LessonIds : track' = [track EXCEPT ![k].there = TRUE]
    BY <1>10 DEF Track
  <2>2. \A t \in TRow : /\ [t EXCEPT !.there = TRUE].date = t.date
                        /\ [t EXCEPT !.there = TRUE].earned = t.earned
                        /\ [t EXCEPT !.there = TRUE].there
    BY DEF TRow
  <2>3. /\ \A l \in LessonIds : l # k => track'[l] = track[l]
        /\ track'[k] = [track[k] EXCEPT !.there = TRUE] /\ track[k] \in TRow
    BY <2>1 DEF LessonTypes
  <2>4. /\ track'[k].date = track[k].date /\ track'[k].earned = track[k].earned
        /\ track'[k].there
    BY <2>2, <2>3
  <2>5. \A l \in LessonIds : Kept(l)
    BY <2>3, <2>4 DEF Kept
  <2>6. QED BY <1>2, <1>10, <2>5 DEF Track
<1>11. CASE RemoveSelect(c) \/ RemoveLessons(c)
  BY <1>2, <1>3, <1>11 DEF RemoveSelect, RemoveLessons
<1>12. CASE Stop(c) /\ pc[c] \notin CompletePlaces
  BY <1>2, <1>3, <1>12 DEF Stop
<1>13. QED BY <1>5, <1>6, <1>7, <1>8, <1>9, <1>10, <1>11, <1>12 DEF Teach

(* The steps of completions. *)
LEMMA AwardsOfCall ==
  ASSUME TypesInv, LNamesInv, AwardsInv, NEW c \in Calls,
         SubjectsOwn(c) \/ LessonsOwn(c) \/ RemoveCommit(c) \/ Stop(c)
  PROVE  AwardsInv'
<1>0. /\ pc \in [Calls -> Places] /\ LessonTypes /\ LNameAt(c)
      /\ HeldAt(c) /\ DatedAt(c) /\ UnpaidAt(c)
      /\ CompletePlaces = {"tracking", "opening", "awarding", "closing"}
      /\ pc[c] \in CompletePlaces => lid[c] \in LessonIds /\ lstatus[lid[c]] \in {"live", "gone"}
      /\ \A l \in LessonIds : Alone(l) /\ AwardOK(l) /\ TrackOK(l)
      /\ \A d \in Calls : d # c => LUntouched(d)
  BY OneCall DEF TypesInv, LNamesInv, AwardsInv, HoldsAt, LNameAt, LessonsCalls, LessonPlaces,
                 CompletePlaces
<1>1. ASSUME NEW k \in LessonIds,
             UNCHANGED lstatus, met \subseteq met', unsaved \subseteq unsaved',
             \A l \in LessonIds : l # k => track'[l] = track[l] /\ paid'[l] = paid[l],
             track[k].there => track'[k].there,
             k \notin met' => Completing(k) \subseteq {c},
             pc[c] \in CompletePlaces => lid[c] = k,
             pc'[c] \in CompletePlaces => lid'[c] = k,
             AwardOK(k)', HeldAt(c)', DatedAt(c)', UnpaidAt(c)'
      PROVE  AwardsInv'
  BY <1>0, <1>1, AwardsOfOthers DEF AwardsInv
<1>2. ASSUME pc[c] \in CompletePlaces
      PROVE  /\ \A k \in LessonIds : lid[c] = k /\ k \notin met => Completing(k) \subseteq {c}
             /\ \A d \in Calls : d # c /\ lid[d] = lid[c] /\ pc[d] = "closing" => lid[c] \in met
  BY <1>0, <1>2 DEF Alone, Completing
<1> USE <1>0 DEF GoTo, LContinue, LLeave, lessons, lghosts, LessonTypes
<1>3. CASE CompleteRead(c)
  <2>1. PICK l \in LessonIds :
          /\ lstatus[l] = "live" /\ lid' = [lid EXCEPT ![c] = l]
          /\ met' = IF Completing(l) # {} THEN met \cup {l} ELSE met
    BY <1>3 DEF CompleteRead
  <2>2. pc[c] = "idle" /\ pc'[c] = "tracking" /\ UNCHANGED <<lstatus, track, paid, unsaved>>
    BY <1>3 DEF CompleteRead
  <2>3. l \notin met' => Completing(l) \subseteq {c}
    BY <2>1
  <2>4. AwardOK(l)'
    <3>1. (\E d \in Calls : pc[d] = "closing" /\ lid[d] = l) =>
            \E d \in Calls : pc'[d] = "closing" /\ lid'[d] = l
      BY <2>2 DEF LUntouched
    <3>2. QED BY <2>1, <2>2, <3>1 DEF AwardOK
  <2>5. HeldAt(c)' /\ DatedAt(c)' /\ UnpaidAt(c)'
    BY <2>2 DEF HeldAt, DatedAt, UnpaidAt
  <2>6. QED BY <1>1, <2>1, <2>2, <2>3, <2>4, <2>5
<1>4. CASE CompleteFind(c)
  <2>1. PICK k \in LessonIds : lid[c] = k /\ lid'[c] = k
    BY <1>4 DEF CompleteFind
  <2>2. /\ pc[c] = "tracking" /\ UNCHANGED <<lstatus, track, paid, met, unsaved>>
        /\ inst'[c] = track[k]
        /\ pc'[c] = IF ~track[k].there THEN "opening"
                    ELSE IF track[k].earned THEN "closing" ELSE "awarding"
    BY <1>4, <2>1 DEF CompleteFind
  <2>3. AwardOK(k)'
    <3>1. (\E d \in Calls : pc[d] = "closing" /\ lid[d] = k) =>
            \E d \in Calls : pc'[d] = "closing" /\ lid'[d] = k
      BY <2>2 DEF LUntouched
    <3>2. QED BY <2>2, <3>1 DEF AwardOK
  <2>4. HeldAt(c)' /\ DatedAt(c)'
    BY <2>1, <2>2 DEF HeldAt, DatedAt
  <2>5. UnpaidAt(c)'
    <3>1. ASSUME k \notin met \cup unsaved
          PROVE  paid[k] = 0 \/ lstatus[k] = "gone" \/ track[k].earned
      <4>1. ~\E d \in Calls : pc[d] = "closing" /\ lid[d] = k
        BY <1>2, <2>1, <2>2, <3>1
      <4>2. QED BY <3>1, <4>1 DEF AwardOK
    <3>2. track[k].there => lstatus[k] = "live"
      BY DEF TrackOK
    <3>3. track[k].earned => track[k].there
      BY DEF TrackOK, TRow
    <3>4. QED BY <2>1, <2>2, <3>1, <3>2, <3>3 DEF UnpaidAt
  <2>6. Completing(k) \subseteq {c} \/ k \in met
    BY <1>2, <2>1, <2>2
  <2>7. QED BY <1>1, <2>1, <2>2, <2>3, <2>4, <2>5, <2>6
<1>5. ASSUME pc[c] \in CompletePlaces, pc'[c] = "done", NEW k \in LessonIds, lid[c] = k,
             UNCHANGED <<lstatus, paid, met>>, unsaved \subseteq unsaved',
             \A l \in LessonIds : l # k => track'[l] = track[l],
             track[k].there => track'[k].there,
             track[k].earned => track'[k].earned,
             pc[c] = "closing" => lstatus[k] = "gone" \/ track'[k].earned \/ k \in unsaved'
      PROVE  AwardsInv'
  <2>1. AwardOK(k)'
    <3>1. (\E d \in Calls : pc[d] = "closing" /\ lid[d] = k) =>
            \/ lstatus[k] = "gone" \/ track'[k].earned \/ k \in unsaved'
            \/ \E d \in Calls : pc'[d] = "closing" /\ lid'[d] = k
      BY <1>5 DEF LUntouched
    <3>2. QED BY <1>5, <3>1 DEF AwardOK
  <2>2. HeldAt(c)' /\ DatedAt(c)' /\ UnpaidAt(c)'
    BY <1>5 DEF HeldAt, DatedAt, UnpaidAt
  <2>3. k \notin met => Completing(k) \subseteq {c}
    BY <1>2, <1>5
  <2>4. QED BY <1>1, <1>5, <2>1, <2>2, <2>3
<1>6. CASE CompleteOpen(c)
  <2>1. PICK k \in LessonIds : lid[c] = k
    BY <1>6 DEF CompleteOpen
  <2>2. pc[c] = "opening" /\ UNCHANGED <<lstatus, paid, met, unsaved>>
    BY <1>6 DEF CompleteOpen
  <2>3. \/ /\ lstatus[k] = "live" /\ ~track[k].there
           /\ track' = [track EXCEPT ![k] = [there |-> TRUE, date |-> c, earned |-> FALSE]]
           /\ inst' = [inst EXCEPT ![c] = [there |-> TRUE, date |-> c, earned |-> FALSE]]
           /\ pc'[c] = "awarding" /\ UNCHANGED lid
        \/ LLeave(c) /\ UNCHANGED track
    BY <1>6, <2>1 DEF CompleteOpen
  <2>4. CASE LLeave(c) /\ UNCHANGED track
    BY <1>5, <2>1, <2>2, <2>4
  <2>5. CASE /\ lstatus[k] = "live" /\ ~track[k].there
             /\ track' = [track EXCEPT ![k] = [there |-> TRUE, date |-> c, earned |-> FALSE]]
             /\ inst' = [inst EXCEPT ![c] = [there |-> TRUE, date |-> c, earned |-> FALSE]]
             /\ pc'[c] = "awarding" /\ UNCHANGED lid
    <3>1. track'[k] = [there |-> TRUE, date |-> c, earned |-> FALSE] /\ inst'[c] = track'[k]
      BY <2>5
    <3>2. \A l \in LessonIds : l # k => track'[l] = track[l]
      BY <2>5
    <3>3. HeldAt(c)' /\ DatedAt(c)'
      BY <2>1, <2>5, <3>1 DEF HeldAt, DatedAt
    <3>4. k \notin met \cup unsaved => paid[k] = 0
      BY <2>1, <2>2, <2>5 DEF UnpaidAt
    <3>5. UnpaidAt(c)'
      BY <2>1, <2>2, <2>5, <3>4 DEF UnpaidAt
    <3>6. AwardOK(k)'
      BY <2>2, <3>4 DEF AwardOK
    <3>7. k \notin met => Completing(k) \subseteq {c}
      BY <1>2, <2>1, <2>2
    <3>8. QED BY <1>1, <2>1, <2>2, <2>5, <3>1, <3>2, <3>3, <3>5, <3>6, <3>7
  <2>6. QED BY <2>3, <2>4, <2>5
<1>7. CASE CompleteAward(c)
  <2>1. PICK k \in LessonIds : lid[c] = k /\ lid'[c] = k
    BY <1>7 DEF CompleteAward, lworking
  <2>2. /\ pc[c] = "awarding" /\ pc'[c] = "closing" /\ inst'[c] = inst[c]
        /\ UNCHANGED <<lstatus, track, met, unsaved>>
        /\ paid' = [paid EXCEPT ![k] = @ + 1]
    BY <1>7, <2>1 DEF CompleteAward, lworking
  <2>3. AwardOK(k)'
    BY <2>1, <2>2 DEF AwardOK, UnpaidAt
  <2>4. HeldAt(c)' /\ DatedAt(c)' /\ UnpaidAt(c)'
    BY <2>1, <2>2 DEF HeldAt, DatedAt, UnpaidAt
  <2>5. k \notin met => Completing(k) \subseteq {c}
    BY <1>2, <2>1, <2>2
  <2>6. QED BY <1>1, <2>1, <2>2, <2>3, <2>4, <2>5
<1>8. CASE CompleteClose(c)
  <2>1. PICK k \in LessonIds :
          /\ lid[c] = k
          /\ \E x : track' =
               IF track[k].there
               THEN [track EXCEPT ![k] = [there |-> TRUE, date |-> x, earned |-> TRUE]]
               ELSE track
    BY <1>8 DEF CompleteClose
  <2>2. pc[c] = "closing" /\ pc'[c] = "done" /\ UNCHANGED <<lstatus, paid, met, unsaved>>
    BY <1>8 DEF CompleteClose
  <2>3. lstatus[k] = "gone" \/ track[k].there
    BY <2>1, <2>2 DEF HeldAt
  <2>4. track[k].there => track'[k].there /\ track'[k].earned
    BY <2>1
  <2>5. \A l \in LessonIds : l # k => track'[l] = track[l]
    BY <2>1
  <2>6. track[k].earned => track'[k].earned
    BY <2>1, <2>4
  <2>7. QED BY <1>5, <2>1, <2>2, <2>3, <2>4, <2>5, <2>6
<1>9. CASE Stop(c) /\ pc[c] \in CompletePlaces
  <2>1. PICK k \in LessonIds : lid[c] = k
    BY <1>9
  <2>2. /\ pc'[c] = "done" /\ UNCHANGED <<lstatus, track, paid, met>>
        /\ unsaved' = IF pc[c] = "closing" THEN unsaved \cup {k} ELSE unsaved
    BY <1>9, <2>1 DEF Stop
  <2>3. QED BY <1>5, <1>9, <2>1, <2>2
<1>10. QED
  BY <1>3, <1>4, <1>6, <1>7, <1>8, <1>9, AwardsBystand DEF LessonsOwn, Complete

-----------------------------------------------------------------------------
(***************************************************************************)
(* Pictures.                                                               *)
(***************************************************************************)

(* The picture a call is about to show, and the one it has found shown.    *)
New(c) == IF pc[c] \in AddPlaces THEN seen[c].avatar
          ELSE IF pc[c] \in ChangePlaces /\ Replaces(c) THEN wish[c].avatar ELSE Null
Old(c) == IF pc[c] \in HoldPlaces THEN seen[c].avatar ELSE Null

(* A picture is one subject's.  What a call has found shown is shown by no *)
(* other subject; what it is about to show is there, and nobody else's.    *)
OwnPictures ==
  \A r, s \in SubjectIds :
    r # s /\ subject[r].avatar = subject[s].avatar => subject[r].avatar = Null
OldAt(c) ==
  Old(c) # Null => \A r \in SubjectIds : subject[r].avatar = Old(c) => r = sid[c]
NewAt(c) ==
  New(c) # Null =>
    /\ New(c) \in images
    /\ \A r \in SubjectIds : subject[r].avatar # New(c)
    /\ \A d \in Calls : Old(d) # New(c) /\ (d # c => New(d) # New(c))

PicturesInv ==
  /\ OwnPictures
  /\ \A c \in Calls : OldAt(c) /\ NewAt(c)

(* Another call's step leaves these pictures. *)
LEMMA PicturesOfOthers ==
  ASSUME NEW c \in Calls, \A d \in Calls : d # c => Untouched(d)
  PROVE  \A d \in Calls : d # c => New(d)' = New(d) /\ Old(d)' = Old(d)
BY DEF New, Old, Replaces, Untouched

(* A step that shows what it was about to show, and deletes no picture     *)
(* that a call is about to show.                                           *)
LEMMA PicturesShown ==
  ASSUME TypesInv, PicturesInv, NEW c \in Calls, NEW k,
         \A d \in Calls : d # c => Untouched(d),
         New(c)' \in {New(c), Null},
         Old(c)' = Null \/ (Old(c)' = Old(c) /\ sid'[c] = sid[c]),
         \A r \in SubjectIds :
           \/ subject'[r].avatar \in {subject[r].avatar, Null}
           \/ r = k /\ subject'[r].avatar = New(c) /\ New(c)' = Null,
         \A d \in Calls : New(d)' \in images => New(d)' \in images'
  PROVE  PicturesInv'
<1>0. /\ \A d \in Calls : d # c => New(d)' = New(d) /\ Old(d)' = Old(d) /\ sid'[d] = sid[d]
      /\ OwnPictures /\ \A d \in Calls : OldAt(d) /\ NewAt(d)
  BY PicturesOfOthers DEF PicturesInv, Untouched
<1>1. \A d \in Calls : \/ Old(d)' = Null \/ (Old(d)' = Old(d) /\ sid'[d] = sid[d])
  BY <1>0
<1>2. \A d \in Calls : New(d)' = Null \/ New(d)' = New(d)
  BY <1>0
<1>3. OwnPictures'
  BY <1>0 DEF OwnPictures, NewAt
<1>4. ASSUME NEW d \in Calls PROVE OldAt(d)'
  BY <1>0, <1>1 DEF OldAt, NewAt
<1>5. ASSUME NEW d \in Calls, New(d)' # Null
      PROVE  /\ New(d)' \in images'
             /\ \A r \in SubjectIds : subject'[r].avatar # New(d)'
             /\ \A e \in Calls : Old(e)' # New(d)' /\ (e # d => New(e)' # New(d)')
  <2>1. New(d)' = New(d) /\ NewAt(d)
    BY <1>0, <1>2, <1>5
  <2>2. New(d)' \in images'
    BY <1>5, <2>1 DEF NewAt
  <2>3. \A r \in SubjectIds : subject'[r].avatar # New(d)'
    BY <1>0, <1>5, <2>1 DEF NewAt
  <2>4. \A e \in Calls : Old(e)' # New(d)' /\ (e # d => New(e)' # New(d)')
    BY <1>1, <1>2, <1>5, <2>1 DEF NewAt
  <2>5. QED BY <2>2, <2>3, <2>4
<1>6. \A d \in Calls : NewAt(d)'
  BY <1>5 DEF NewAt
<1>7. QED BY <1>3, <1>4, <1>6 DEF PicturesInv

(* A step that reads what a subject shows, and comes with a new picture.   *)
LEMMA PicturesRead ==
  ASSUME TypesInv, PicturesInv, NEW c \in Calls,
         \A d \in Calls : d # c => Untouched(d),
         New(c)' \in Unused \cup {Null},
         \/ Old(c)' = Null
         \/ sid'[c] \in SubjectIds /\ Old(c)' = subject[sid'[c]].avatar,
         UNCHANGED <<subject, images>>
  PROVE  PicturesInv'
<1>0. /\ \A d \in Calls : d # c => New(d)' = New(d) /\ Old(d)' = Old(d) /\ sid'[d] = sid[d]
      /\ OwnPictures /\ \A d \in Calls : OldAt(d) /\ NewAt(d)
  BY PicturesOfOthers DEF PicturesInv, Untouched
<1>1. \A i \in Unused : /\ i \in images
                        /\ \A r \in SubjectIds : subject[r].avatar # i
                        /\ \A d \in Calls : seen[d].avatar # i /\ wish[d].avatar # i
  BY DEF Unused
<1>2. \A i \in Unused, d \in Calls : i # Null => New(d) # i /\ Old(d) # i
  BY <1>1 DEF New, Old
<1>3. OwnPictures'
  BY <1>0 DEF OwnPictures
<1>4. ASSUME NEW d \in Calls PROVE OldAt(d)'
  <2>1. CASE d # c
    BY <1>0, <2>1 DEF OldAt
  <2>2. CASE d = c
    BY <1>0, <2>2 DEF OldAt, OwnPictures
  <2>3. QED BY <2>1, <2>2
<1>5. ASSUME NEW d \in Calls, New(d)' # Null
      PROVE  /\ New(d)' \in images
             /\ \A r \in SubjectIds : subject[r].avatar # New(d)'
             /\ \A e \in Calls : Old(e)' # New(d)' /\ (e # d => New(e)' # New(d)')
  <2>1. CASE d = c
    BY <1>0, <1>1, <1>2, <1>5, <2>1
  <2>2. CASE d # c
    <3>1. NewAt(d) /\ New(d)' = New(d)
      BY <1>0, <2>2
    <3>2. Old(c)' # New(d) /\ New(c)' # New(d)
      BY <1>2, <1>5, <3>1 DEF NewAt
    <3>3. QED BY <1>0, <1>5, <3>1, <3>2 DEF NewAt
  <2>3. QED BY <2>1, <2>2
<1>6. \A d \in Calls : NewAt(d)'
  BY <1>5 DEF NewAt
<1>7. QED BY <1>3, <1>4, <1>6 DEF PicturesInv

(* A call's step keeps the pictures apart. *)
LEMMA PicturesOfCall ==
  ASSUME TypesInv, PicturesInv, NEW c \in Calls,
         SubjectsOwn(c) \/ LessonsOwn(c) \/ RemoveCommit(c) \/ Stop(c)
  PROVE  PicturesInv'
<1>0. /\ pc \in [Calls -> Places] /\ SubjectTypes /\ HoldsAt(c)
      /\ \A d \in Calls : NewAt(d)
      /\ Null \notin images
  BY SubjectsAssumption DEF TypesInv, PicturesInv, SubjectTypes
<1>1. \A d \in Calls : d # c => Untouched(d)
  BY OneCall
<1>2. AddPlaces = {"purging", "inserting"} /\ ChangePlaces = {"picturing", "saving"}
      /\ HoldPlaces = {"picturing", "saving", "selecting", "deleting", "dropping", "unpicturing"}
      /\ LessonsCalls = {"tracking", "opening", "awarding", "closing", "lessoning",
                         "relessoning", "unlessoning"}
  BY DEF AddPlaces, HoldPlaces, ChangePlaces, RemovePlaces, LessonsCalls, LessonPlaces,
         CompletePlaces
<1>3. ASSUME New(c)' \in {New(c), Null},
             Old(c)' = Null \/ (Old(c)' = Old(c) /\ sid'[c] = sid[c]),
             \A r \in SubjectIds :
               \/ subject'[r].avatar \in {subject[r].avatar, Null}
               \/ r = sid[c] /\ subject'[r].avatar = New(c) /\ New(c)' = Null,
             images' = images \/ images' = images \ {Old(c)}
      PROVE  PicturesInv'
  <2>1. \A d \in Calls : New(d)' \in images => New(d)' \in images'
    <3>1. ASSUME NEW d \in Calls, New(d)' \in images PROVE New(d)' # Old(c)
      <4>1. New(d)' = New(d) /\ New(d) # Null
        BY <1>0, <1>1, <1>3, <3>1, PicturesOfOthers
      <4>2. QED BY <1>0, <4>1 DEF NewAt
    <3>2. QED BY <1>3, <3>1
  <2>2. QED BY <1>1, <1>3, <2>1, PicturesShown
<1>4. ASSUME pc'[c] = "done",
             \A r \in SubjectIds : subject'[r].avatar \in {subject[r].avatar, Null},
             images' = images \/ images' = images \ {Old(c)}
      PROVE  PicturesInv'
  <2>1. New(c)' = Null /\ Old(c)' = Null
    BY <1>2, <1>4 DEF New, Old
  <2>2. QED BY <1>3, <1>4, <2>1
<1>5. CASE LessonsOwn(c)
  <2>1. UNCHANGED <<subject, images, sid, seen, wish>>
    BY <1>5, LessonsSide DEF stored, working
  <2>2. PICK p : /\ pc' = [pc EXCEPT ![c] = p]
                 /\ \/ pc[c] \in LessonsCalls \cup {"idle"} /\ p \in LessonsCalls \cup {"done"}
                    \/ pc[c] = "selecting" /\ p = "deleting"
                    \/ pc[c] = "deleting" /\ p = "dropping"
    BY <1>5, LessonsSide
  <2>3. pc'[c] = p
    BY <1>0, <2>2
  <2>4. New(c)' = Null /\ Old(c)' \in {Old(c), Null}
    BY <1>2, <2>1, <2>2, <2>3 DEF New, Old
  <2>5. QED BY <1>3, <2>1, <2>4
<1> USE <1>0, <1>2 DEF GoTo, Leave, Continue, working, stored, SubjectTypes
<1>6. CASE AddFind(c)
  <2>1. PICK s \in SubjectIds, t \in Titles, i \in Unused \cup {Null} :
          /\ status[s] = "none"
          /\ status' = [status EXCEPT ![s] = "named"]
          /\ sid' = [sid EXCEPT ![c] = s]
          /\ seen' = [seen EXCEPT ![c] = [title |-> t, avatar |-> i]]
          /\ \/ /\ ~Taken(t, s)
                /\ GoTo(c, "inserting")
                /\ UNCHANGED twin
             \/ /\ \E r \in SubjectIds :
                     /\ status[r] = "deleted" /\ subject[r].title = t
                     /\ twin' = [twin EXCEPT ![c] = r]
                /\ GoTo(c, "purging")
    BY ONLY <1>6, Zenon DEF AddFind
  <2>2. New(c)' = i /\ Old(c)' = Null
    BY <2>1 DEF New, Old
  <2>3. UNCHANGED <<subject, images>>
    BY <1>6 DEF AddFind
  <2>4. QED BY <1>1, <2>2, <2>3, PicturesRead
<1>7. CASE Purge(c)
  <2>1. New(c)' = New(c) /\ Old(c)' = Null
    BY <1>7 DEF Purge, AddPurge, New, Old
  <2>2. \A r \in SubjectIds : subject'[r].avatar \in {subject[r].avatar, Null}
    BY <1>7 DEF Purge, AddPurge, NoRow
  <2>3. UNCHANGED images
    BY <1>7 DEF Purge, AddPurge
  <2>4. QED BY <1>3, <2>1, <2>2, <2>3
<1>8. CASE AddInsert(c)
  <2>1. New(c) = seen[c].avatar /\ New(c)' = Null /\ Old(c)' = Null
    BY <1>8 DEF AddInsert, New, Old
  <2>2. \A r \in SubjectIds : \/ subject'[r].avatar = subject[r].avatar
                              \/ r = sid[c] /\ subject'[r].avatar = seen[c].avatar
    BY <1>8 DEF AddInsert
  <2>3. UNCHANGED images
    BY <1>8 DEF AddInsert
  <2>4. QED BY <1>3, <2>1, <2>2, <2>3
<1>9. CASE ChangeRead(c)
  <2>1. PICK s \in SubjectIds, t \in Titles, i \in Images \cup {Null} :
          /\ i \in Unused \cup {Null, subject[s].avatar}
          /\ ReadSubject(c, s)
          /\ wish' = [wish EXCEPT ![c] = [title |-> t, avatar |-> i]]
          /\ GoTo(c, IF subject[s].avatar \notin {i, Null} THEN "picturing" ELSE "saving")
    BY ONLY <1>9, Zenon DEF ChangeRead
  <2>2. /\ sid'[c] = s /\ seen'[c].avatar = subject[s].avatar /\ wish'[c].avatar = i
        /\ pc'[c] \in ChangePlaces
    BY <2>1 DEF ReadSubject
  <2>3. New(c)' \in Unused \cup {Null} /\ Old(c)' = subject[s].avatar
    BY <2>1, <2>2 DEF New, Old, Replaces
  <2>4. UNCHANGED <<subject, images>>
    BY <1>9 DEF ChangeRead
  <2>5. QED BY <1>1, <2>2, <2>3, <2>4, PicturesRead
<1>10. CASE RemoveRead(c)
  <2>1. PICK s \in SubjectIds : ReadSubject(c, s)
    BY <1>10 DEF RemoveRead
  <2>2. sid'[c] = s /\ seen'[c].avatar = subject[s].avatar /\ pc'[c] = "selecting"
    BY <1>10, <2>1 DEF RemoveRead, ReadSubject
  <2>3. New(c)' = Null /\ Old(c)' = subject[s].avatar
    BY <2>2 DEF New, Old
  <2>4. UNCHANGED <<subject, images>>
    BY <1>10 DEF RemoveRead
  <2>5. QED BY <1>1, <2>2, <2>3, <2>4, PicturesRead
<1>11. CASE ChangePicture(c)
  <2>1. New(c)' = New(c) /\ Old(c)' = Old(c) /\ Old(c) = seen[c].avatar
    BY <1>11 DEF ChangePicture, New, Old, Replaces
  <2>2. images' = images \ {Old(c)} /\ UNCHANGED <<subject, sid>>
    BY <1>11, <2>1 DEF ChangePicture
  <2>3. QED BY <1>3, <2>1, <2>2
<1>12. CASE ChangeSave(c)
  <2>1. New(c)' = Null /\ Old(c)' = Null /\ UNCHANGED images
    BY <1>12 DEF ChangeSave, New, Old
  <2>2. \A r \in SubjectIds : \/ subject'[r].avatar = subject[r].avatar
                              \/ /\ r = sid[c]
                                 /\ subject'[r].avatar = Written(r, seen[c], wish[c]).avatar
    BY <1>12 DEF ChangeSave
  <2>3. Written(sid[c], seen[c], wish[c]).avatar \in {subject[sid[c]].avatar, New(c)}
    BY <1>12 DEF ChangeSave, Written, Changed, New, Replaces
  <2>4. QED BY <1>3, <2>1, <2>2, <2>3
<1>13. CASE Link(c) \/ Unlink(c) \/ Stop(c)
  BY <1>4, <1>13 DEF Link, Unlink, Stop
<1>14. CASE RemovePicture(c)
  <2>1. Old(c) = seen[c].avatar
    BY <1>14 DEF RemovePicture, Old
  <2>2. QED BY <1>4, <1>14, <2>1 DEF RemovePicture
<1>15. CASE RemoveCommit(c)
  <2>1. \A r \in SubjectIds : subject'[r].avatar \in {subject[r].avatar, Null}
    BY <1>15 DEF RemoveCommit, NoRow
  <2>2. Leave(c) \/ Continue(c, "unpicturing")
    BY <1>15 DEF RemoveCommit
  <2>3. UNCHANGED images /\ pc[c] = "dropping"
    BY <1>15 DEF RemoveCommit
  <2>4. CASE Leave(c)
    BY <1>4, <2>1, <2>3, <2>4
  <2>5. CASE Continue(c, "unpicturing")
    <3>1. New(c)' = Null /\ Old(c)' = Old(c) /\ sid'[c] = sid[c]
      BY <2>3, <2>5 DEF New, Old
    <3>2. QED BY <1>3, <2>1, <2>3, <3>1
  <2>6. QED BY <2>2, <2>4, <2>5
<1>16. QED
  BY ONLY <1>5, <1>6, <1>7, <1>8, <1>9, <1>10, <1>11, <1>12, <1>13, <1>14, <1>15, Zenon,
          SubjectsOwn(c) \/ LessonsOwn(c) \/ RemoveCommit(c) \/ Stop(c)
     DEF SubjectsOwn, SubjectStep

(* An update that replaces a picture deletes the old one before it saves.  *)
PicturingAt(c) ==
  /\ pc[c] = "picturing" => Replaces(c) /\ seen[c].avatar # Null
  /\ pc[c] = "saving" /\ Replaces(c) => seen[c].avatar \notin images

ShownInv == PictureShown /\ \A c \in Calls : PicturingAt(c)

(* A step that deletes no picture, and shows none that is not there. *)
LEMMA ShownFrame ==
  ASSUME ShownInv, NEW c \in Calls, \A d \in Calls : d # c => Untouched(d),
         UNCHANGED images, cut \subseteq cut', PicturingAt(c)',
         \A s \in SubjectIds : status'[s] = "live" /\ s \notin cut' =>
           \/ subject'[s].avatar \in images \cup {Null}
           \/ /\ status[s] = "live" /\ subject'[s].avatar = subject[s].avatar
              /\ ~(pc[c] = "saving" /\ Replaces(c) /\ sid[c] = s)
  PROVE  ShownInv'
<1>1. \A d \in Calls : d # c => PicturingAt(d)'
  BY DEF ShownInv, PicturingAt, Untouched, Replaces
<1>2. ASSUME NEW s \in SubjectIds, s \notin cut', status'[s] = "live",
             subject'[s].avatar \notin images \cup {Null}
      PROVE  \E d \in Calls : /\ pc'[d] = "saving" /\ sid'[d] = s /\ Replaces(d)'
                              /\ seen'[d].avatar = subject'[s].avatar
  <2>1. /\ status[s] = "live" /\ subject'[s].avatar = subject[s].avatar
        /\ ~(pc[c] = "saving" /\ Replaces(c) /\ sid[c] = s) /\ s \notin cut
    BY <1>2
  <2>2. PICK d \in Calls : /\ pc[d] = "saving" /\ sid[d] = s /\ Replaces(d)
                           /\ seen[d].avatar = subject[s].avatar
    BY <1>2, <2>1 DEF ShownInv, PictureShown
  <2>3. d # c
    BY <2>1, <2>2
  <2>4. QED BY <2>1, <2>2, <2>3 DEF Untouched, Replaces
<1>3. PictureShown'
  BY <1>2 DEF PictureShown
<1>4. QED BY <1>1, <1>3 DEF ShownInv

(* A call's step keeps what is shown. *)
LEMMA ShownOfCall ==
  ASSUME TypesInv, NamesInv, PicturesInv, ShownInv, NEW c \in Calls,
         SubjectsOwn(c) \/ LessonsOwn(c) \/ RemoveCommit(c) \/ Stop(c)
  PROVE  ShownInv'
<1>0. /\ pc \in [Calls -> Places] /\ SubjectTypes /\ HoldsAt(c)
      /\ Null \notin images /\ NameAt(c) /\ NewAt(c) /\ OldAt(c) /\ PicturingAt(c)
      /\ \A d \in Calls : PicturingAt(d)
      /\ AddPlaces = {"purging", "inserting"} /\ ChangePlaces = {"picturing", "saving"}
      /\ HoldPlaces = {"picturing", "saving", "selecting", "deleting", "dropping", "unpicturing"}
      /\ LessonsCalls = {"tracking", "opening", "awarding", "closing", "lessoning",
                         "relessoning", "unlessoning"}
  BY SubjectsAssumption
     DEF TypesInv, NamesInv, PicturesInv, ShownInv, SubjectTypes, AddPlaces, HoldPlaces,
         ChangePlaces, RemovePlaces, LessonsCalls, LessonPlaces, CompletePlaces
<1>1. \A d \in Calls : d # c => Untouched(d)
  BY OneCall
<1>2. ASSUME UNCHANGED images, cut \subseteq cut', PicturingAt(c)',
             \A s \in SubjectIds : status'[s] = "live" /\ s \notin cut' =>
               \/ subject'[s].avatar \in images \cup {Null}
               \/ /\ status[s] = "live" /\ subject'[s].avatar = subject[s].avatar
                  /\ ~(pc[c] = "saving" /\ Replaces(c) /\ sid[c] = s)
      PROVE  ShownInv'
  BY <1>1, <1>2, ShownFrame
<1>3. ASSUME pc'[c] \notin ChangePlaces PROVE PicturingAt(c)'
  BY <1>0, <1>3 DEF PicturingAt
<1>4. CASE LessonsOwn(c)
  <2>1. UNCHANGED <<status, subject, images, cut>>
    BY <1>4, LessonsSide DEF stored, pictured
  <2>2. pc[c] \notin ChangePlaces /\ pc'[c] \notin ChangePlaces
    BY <1>0, <1>4, LessonsSide
  <2>3. QED BY <1>0, <1>2, <1>3, <2>1, <2>2
<1> USE <1>0 DEF GoTo, Leave, Continue, working, stored, pictured, SubjectTypes
<1>5. CASE AddFind(c) \/ Link(c) \/ Unlink(c)
  <2>1. /\ pc[c] = "idle" /\ pc'[c] \notin ChangePlaces
        /\ UNCHANGED <<subject, images, cut>>
        /\ \A s \in SubjectIds : status'[s] = "live" => status[s] = "live"
    BY <1>5 DEF AddFind, Link, Unlink
  <2>2. QED BY <1>2, <1>3, <2>1
<1>6. CASE Purge(c)
  <2>1. /\ pc[c] = "purging" /\ pc'[c] = "inserting" /\ UNCHANGED images
        /\ cut \subseteq cut'
        /\ \A s \in SubjectIds : status'[s] = "live" =>
             status[s] = "live" /\ subject'[s] = subject[s]
    BY <1>6 DEF Purge, AddPurge
  <2>2. QED BY <1>2, <1>3, <2>1
<1>7. CASE AddInsert(c)
  <2>1. New(c) = seen[c].avatar
    BY <1>7 DEF AddInsert, New
  <2>2. seen[c].avatar \in images \cup {Null}
    BY <2>1 DEF NewAt
  <2>3. /\ pc[c] = "inserting" /\ pc'[c] = "done" /\ UNCHANGED <<images, cut>>
        /\ \A s \in SubjectIds : status'[s] = "live" =>
             \/ status[s] = "live" /\ subject'[s] = subject[s]
             \/ subject'[s] = seen[c]
    BY <1>7 DEF AddInsert
  <2>4. QED BY <1>2, <1>3, <2>2, <2>3
<1>8. CASE ChangeRead(c)
  <2>1. PICK s \in SubjectIds, t \in Titles, i \in Images \cup {Null} :
          /\ i \in Unused \cup {Null, subject[s].avatar}
          /\ ReadSubject(c, s)
          /\ wish' = [wish EXCEPT ![c] = [title |-> t, avatar |-> i]]
          /\ GoTo(c, IF subject[s].avatar \notin {i, Null} THEN "picturing" ELSE "saving")
    BY ONLY <1>8, Zenon DEF ChangeRead
  <2>2. /\ seen'[c].avatar = subject[s].avatar /\ wish'[c].avatar = i
        /\ pc'[c] = IF subject[s].avatar \notin {i, Null} THEN "picturing" ELSE "saving"
    BY <2>1 DEF ReadSubject
  <2>3. UNCHANGED <<status, subject, images, cut>> /\ pc[c] = "idle"
    BY <1>8 DEF ChangeRead
  <2>4. PicturingAt(c)'
    BY <2>2, <2>3 DEF PicturingAt, Replaces
  <2>5. QED BY <1>2, <2>3, <2>4
<1>9. CASE RemoveRead(c)
  <2>1. /\ pc[c] = "idle" /\ pc'[c] = "selecting"
        /\ UNCHANGED <<status, subject, images, cut>>
    BY <1>9 DEF RemoveRead
  <2>2. QED BY <1>2, <1>3, <2>1
<1>10. ASSUME NEW i, images' = images \ {i}, i = Old(c), UNCHANGED <<status, subject, cut>>,
              pc[c] # "saving", PicturingAt(c)',
              \/ status[sid[c]] # "live"
              \/ pc'[c] = "saving" /\ Replaces(c)' /\ seen'[c].avatar = i /\ sid'[c] = sid[c]
       PROVE  ShownInv'
  <2>1. \A d \in Calls : PicturingAt(d)'
    <3>1. \A d \in Calls : d # c => PicturingAt(d)'
      BY <1>1, <1>10 DEF PicturingAt, Untouched, Replaces
    <3>2. QED BY <1>10, <3>1
  <2>2. ASSUME NEW s \in SubjectIds, s \notin cut, status[s] = "live",
               subject[s].avatar \notin (images \ {i}) \cup {Null}
        PROVE  \E d \in Calls : /\ pc'[d] = "saving" /\ sid'[d] = s /\ Replaces(d)'
                                /\ seen'[d].avatar = subject[s].avatar
    <3>1. CASE subject[s].avatar = i
      <4>1. s = sid[c]
        BY <1>10, <2>2, <3>1 DEF OldAt
      <4>2. QED BY <1>10, <2>2, <3>1, <4>1
    <3>2. CASE subject[s].avatar # i
      <4>1. PICK d \in Calls : /\ pc[d] = "saving" /\ sid[d] = s /\ Replaces(d)
                               /\ seen[d].avatar = subject[s].avatar
        BY <2>2, <3>2 DEF ShownInv, PictureShown
      <4>2. d # c
        BY <1>10, <4>1
      <4>3. QED BY <1>1, <4>1, <4>2 DEF Untouched, Replaces
    <3>3. QED BY <3>1, <3>2
  <2>3. PictureShown'
    BY <1>10, <2>2 DEF PictureShown
  <2>4. QED BY <2>1, <2>3 DEF ShownInv
<1>11. CASE ChangePicture(c)
  <2>1. /\ pc[c] = "picturing" /\ pc'[c] = "saving" /\ images' = images \ {seen[c].avatar}
        /\ UNCHANGED <<status, subject, cut, sid, seen, wish>>
    BY <1>11 DEF ChangePicture
  <2>2. Old(c) = seen[c].avatar /\ Replaces(c)' /\ seen'[c].avatar = seen[c].avatar
    BY <2>1 DEF Old, PicturingAt, Replaces
  <2>3. PicturingAt(c)'
    BY <2>1, <2>2 DEF PicturingAt
  <2>4. QED BY <1>10, <2>1, <2>2, <2>3
<1>12. CASE RemovePicture(c)
  <2>1. /\ pc[c] = "unpicturing" /\ pc'[c] = "done" /\ images' = images \ {seen[c].avatar}
        /\ UNCHANGED <<status, subject, cut>>
    BY <1>12 DEF RemovePicture
  <2>2. Old(c) = seen[c].avatar /\ status[sid[c]] # "live"
    BY <2>1 DEF Old, NameAt
  <2>3. QED BY <1>3, <1>10, <2>1, <2>2
<1>13. CASE ChangeSave(c)
  <2>1. pc[c] = "saving" /\ pc'[c] = "done" /\ UNCHANGED <<images, status>> /\ cut \subseteq cut'
    BY <1>13 DEF ChangeSave
  <2>2. ASSUME NEW s \in SubjectIds, s # sid[c] PROVE subject'[s] = subject[s]
    BY <1>13, <2>2 DEF ChangeSave
  <2>3. \/ subject'[sid[c]] = subject[sid[c]] /\ (Replaces(c) => sid[c] \in cut')
        \/ subject'[sid[c]] = subject[sid[c]] /\ status[sid[c]] # "live"
        \/ subject'[sid[c]] = Written(sid[c], seen[c], wish[c])
    <3>1. sid[c] \in SubjectIds
      BY <2>1 DEF HoldsAt, SubjectPlaces
    <3>2. CASE status[sid[c]] # "live"
      BY <1>13, <3>2 DEF ChangeSave
    <3>3. CASE /\ status[sid[c]] = "live" /\ wish[c].title # seen[c].title
               /\ Taken(wish[c].title, sid[c])
      BY <1>13, <3>3 DEF ChangeSave
    <3>4. CASE /\ status[sid[c]] = "live"
               /\ wish[c].title = seen[c].title \/ ~Taken(wish[c].title, sid[c])
      BY <1>13, <3>1, <3>4 DEF ChangeSave
    <3>5. QED BY <3>2, <3>3, <3>4
  <2>4. Written(sid[c], seen[c], wish[c]).avatar =
          IF Replaces(c) THEN wish[c].avatar ELSE subject[sid[c]].avatar
    BY DEF Written, Changed, Replaces
  <2>5. Replaces(c) => wish[c].avatar \in images \cup {Null}
    BY <2>1 DEF NewAt, New
  <2>6. \A s \in SubjectIds : status[s] = "live" /\ s \notin cut' =>
          \/ subject'[s].avatar \in images \cup {Null}
          \/ /\ status[s] = "live" /\ subject'[s].avatar = subject[s].avatar
             /\ ~(pc[c] = "saving" /\ Replaces(c) /\ sid[c] = s)
    <3>1. CASE Replaces(c)
      BY <2>2, <2>3, <2>4, <2>5, <3>1
    <3>2. CASE ~Replaces(c)
      BY <2>2, <2>3, <2>4, <3>2
    <3>3. QED BY <3>1, <3>2
  <2>7. QED BY <1>2, <1>3, <2>1, <2>6
<1>14. CASE RemoveCommit(c)
  <2>1. /\ pc[c] = "dropping" /\ pc'[c] \notin ChangePlaces /\ UNCHANGED <<images, cut>>
        /\ \A s \in SubjectIds : status'[s] = "live" =>
             status[s] = "live" /\ subject'[s] = subject[s]
    BY <1>14 DEF RemoveCommit
  <2>2. QED BY <1>2, <1>3, <2>1
<1>15. CASE Stop(c)
  <2>1. /\ pc'[c] = "done" /\ UNCHANGED <<status, subject, images>> /\ cut \subseteq cut'
        /\ pc[c] = "saving" => sid[c] \in cut'
    BY <1>15 DEF Stop
  <2>2. QED BY <1>2, <1>3, <2>1
<1>16. QED
  BY ONLY <1>4, <1>5, <1>6, <1>7, <1>8, <1>9, <1>11, <1>12, <1>13, <1>14, <1>15, Zenon,
          SubjectsOwn(c) \/ LessonsOwn(c) \/ RemoveCommit(c) \/ Stop(c)
     DEF SubjectsOwn, SubjectStep

(* As long as two calls do not change a subject at a time, each of them    *)
(* holds its row as it is.                                                 *)
AloneIn(s) == s \notin overlap => \A c, d \in Changing(s) : c = d
CurrentAt(c) ==
  pc[c] \in HoldPlaces \ {"unpicturing"} /\ sid[c] \notin overlap =>
    status[sid[c]] = "live" /\ seen[c] = subject[sid[c]]

FormerInv ==
  /\ \A s \in SubjectIds : AloneIn(s)
  /\ \A c \in Calls : CurrentAt(c)
  /\ FormerPicturesGone

(* What a step has to show to keep that. *)
LEMMA FormerFrame ==
  ASSUME TypesInv, FormerInv, NEW c \in Calls, \A d \in Calls : d # c => Untouched(d),
         overlap \subseteq overlap', cut \subseteq cut', images' \subseteq images,
         \A s \in SubjectIds :
           \/ status'[s] = status[s] /\ subject'[s] = subject[s]
           \/ status[s] # "live"
           \/ c \in Changing(s),
         pc'[c] \in HoldPlaces =>
           \/ pc[c] \in HoldPlaces /\ sid'[c] = sid[c]
           \/ Changing(sid'[c]) # {} => sid'[c] \in overlap',
         CurrentAt(c)',
         \A s \in SubjectIds, i \in images' :
           s \notin overlap' \cup cut' /\ shown'[i] = s =>
             \/ subject'[s].avatar = i
             \/ /\ shown[i] = s /\ subject[s].avatar # i
                /\ ~(pc[c] = "unpicturing" /\ sid[c] = s /\ seen[c].avatar = i)
             \/ pc'[c] = "unpicturing" /\ sid'[c] = s /\ seen'[c].avatar = i
  PROVE  FormerInv'
<1>0. /\ \A d \in Calls : d # c => /\ pc'[d] = pc[d] /\ sid'[d] = sid[d]
                                   /\ seen'[d] = seen[d]
      /\ \A s \in SubjectIds : AloneIn(s)
      /\ \A d \in Calls : CurrentAt(d)
      /\ \A d \in Calls : pc[d] \in HoldPlaces => sid[d] \in SubjectIds
  BY PlacesDiffer DEF FormerInv, Untouched, TypesInv, HoldsAt
<1>1. ASSUME NEW s \in SubjectIds PROVE AloneIn(s)'
  <2>1. SUFFICES ASSUME s \notin overlap', NEW d \in Calls, NEW e \in Calls,
                        pc'[d] \in HoldPlaces, sid'[d] = s,
                        pc'[e] \in HoldPlaces, sid'[e] = s
                 PROVE  d = e
    BY DEF AloneIn, Changing, HoldPlaces
  <2>2. s \notin overlap /\ AloneIn(s)
    BY <1>0, <2>1
  <2>3. CASE d # c /\ e # c
    BY <1>0, <2>1, <2>2, <2>3 DEF AloneIn, Changing, HoldPlaces
  <2>4. ASSUME NEW f \in Calls, f # c, pc[f] \in HoldPlaces, sid[f] = s,
               pc'[c] \in HoldPlaces, sid'[c] = s
        PROVE  FALSE
    <3>1. f \in Changing(s)
      BY <2>4 DEF Changing, HoldPlaces
    <3>2. c \in Changing(s)
      BY <2>1, <2>4, <3>1 DEF Changing, HoldPlaces
    <3>3. QED BY <2>2, <2>4, <3>1, <3>2 DEF AloneIn
  <2>5. QED BY <1>0, <2>1, <2>3, <2>4
<1>2. ASSUME NEW d \in Calls, d # c PROVE CurrentAt(d)'
  <2>1. SUFFICES ASSUME pc[d] \in HoldPlaces \ {"unpicturing"}, sid[d] \notin overlap'
                 PROVE  status'[sid[d]] = "live" /\ seen[d] = subject'[sid[d]]
    BY <1>0, <1>2 DEF CurrentAt
  <2>2. /\ status[sid[d]] = "live" /\ seen[d] = subject[sid[d]]
        /\ sid[d] \in SubjectIds /\ sid[d] \notin overlap
    BY <1>0, <2>1 DEF CurrentAt
  <2>3. d \in Changing(sid[d])
    BY <2>1 DEF Changing, HoldPlaces
  <2>4. c \notin Changing(sid[d])
    BY <1>0, <1>2, <2>2, <2>3 DEF AloneIn
  <2>5. QED BY <2>2, <2>4
<1>3. ASSUME NEW i \in images', NEW s \in SubjectIds, s \notin overlap' \cup cut', shown'[i] = s,
             subject'[s].avatar # i
      PROVE  \E d \in Calls : pc'[d] = "unpicturing" /\ sid'[d] = s /\ seen'[d].avatar = i
  <2>1. CASE pc'[c] = "unpicturing" /\ sid'[c] = s /\ seen'[c].avatar = i
    BY <2>1
  <2>2. CASE /\ shown[i] = s /\ subject[s].avatar # i
             /\ ~(pc[c] = "unpicturing" /\ sid[c] = s /\ seen[c].avatar = i)
    <3>1. PICK d \in Calls : pc[d] = "unpicturing" /\ sid[d] = s /\ seen[d].avatar = i
      BY <1>3, <2>2 DEF FormerInv, FormerPicturesGone
    <3>2. QED BY <1>0, <2>2, <3>1
  <2>3. QED BY <1>3, <2>1, <2>2
<1>4. FormerPicturesGone'
  BY <1>3 DEF FormerPicturesGone
<1>5. \A d \in Calls : CurrentAt(d)'
  BY <1>2
<1>6. QED BY <1>1, <1>4, <1>5 DEF FormerInv

(* A call's step keeps former pictures gone. *)
LEMMA FormerOfCall ==
  ASSUME TypesInv, NamesInv, ShownInv, FormerInv, NEW c \in Calls,
         SubjectsOwn(c) \/ LessonsOwn(c) \/ RemoveCommit(c) \/ Stop(c)
  PROVE  FormerInv'
<1>0. /\ pc \in [Calls -> Places] /\ SubjectTypes /\ HoldsAt(c)
      /\ Null \notin images /\ NameAt(c) /\ PicturingAt(c) /\ CurrentAt(c)
      /\ images \subseteq Images
      /\ AddPlaces = {"purging", "inserting"} /\ ChangePlaces = {"picturing", "saving"}
      /\ HoldPlaces = {"picturing", "saving", "selecting", "deleting", "dropping", "unpicturing"}
      /\ LessonsCalls = {"tracking", "opening", "awarding", "closing", "lessoning",
                         "relessoning", "unlessoning"}
      /\ pc[c] \in HoldPlaces => sid[c] \in SubjectIds /\ c \in Changing(sid[c])
  BY SubjectsAssumption
     DEF TypesInv, NamesInv, ShownInv, FormerInv, SubjectTypes, AddPlaces, HoldPlaces,
         ChangePlaces, RemovePlaces, LessonsCalls, LessonPlaces, CompletePlaces, HoldsAt,
         SubjectPlaces, Changing
<1>1. \A d \in Calls : d # c => Untouched(d)
  BY OneCall
<1> DEFINE Still(s) == status'[s] = status[s] /\ subject'[s] = subject[s]
           Former(s, i) ==
             s \notin overlap' \cup cut' /\ shown'[i] = s =>
               \/ subject'[s].avatar = i
               \/ /\ shown[i] = s /\ subject[s].avatar # i
                  /\ ~(pc[c] = "unpicturing" /\ sid[c] = s /\ seen[c].avatar = i)
               \/ pc'[c] = "unpicturing" /\ sid'[c] = s /\ seen'[c].avatar = i
           Moves ==
             pc'[c] \in HoldPlaces =>
               \/ pc[c] \in HoldPlaces /\ sid'[c] = sid[c]
               \/ Changing(sid'[c]) # {} => sid'[c] \in overlap'
<1>2. ASSUME overlap \subseteq overlap', cut \subseteq cut', images' \subseteq images,
             \A s \in SubjectIds : Still(s) \/ status[s] # "live" \/ c \in Changing(s),
             Moves, CurrentAt(c)', \A s \in SubjectIds, i \in images' : Former(s, i)
      PROVE  FormerInv'
  BY <1>1, <1>2, FormerFrame
<1> HIDE DEF Still, Former, Moves
<1>3. ASSUME pc'[c] \notin HoldPlaces PROVE CurrentAt(c)' /\ Moves
  BY <1>3 DEF CurrentAt, Moves
<1>4. ASSUME UNCHANGED <<subject, shown>>, pc[c] # "unpicturing",
             NEW s \in SubjectIds, NEW i \in images'
      PROVE  Former(s, i)
  BY <1>4 DEF Former
<1>5. CASE LessonsOwn(c)
  <2>1. UNCHANGED <<status, subject, images, shown, cut, overlap, sid, seen>>
    BY <1>5, LessonsSide DEF stored, pictured, working
  <2>2. \/ pc'[c] \notin HoldPlaces /\ pc[c] \notin HoldPlaces
        \/ /\ pc'[c] \in HoldPlaces \ {"unpicturing"}
           /\ pc[c] \in HoldPlaces \ {"unpicturing"}
    BY <1>0, <1>5, LessonsSide
  <2>3. CurrentAt(c)' /\ Moves
    <3>1. CASE pc'[c] \notin HoldPlaces
      BY <1>3, <3>1
    <3>2. CASE /\ pc'[c] \in HoldPlaces \ {"unpicturing"}
               /\ pc[c] \in HoldPlaces \ {"unpicturing"}
      BY <1>0, <2>1, <3>2 DEF CurrentAt, Moves
    <3>3. QED BY <2>2, <3>1, <3>2
  <2>4. pc[c] # "unpicturing"
    BY <1>0, <2>2
  <2>5. \A s \in SubjectIds, i \in images' : Former(s, i)
    BY <1>4, <2>1, <2>4
  <2>6. QED BY <1>2, <2>1, <2>3, <2>5 DEF Still
<1> USE <1>0 DEF GoTo, Leave, Continue, working, stored, pictured, SubjectTypes
<1>6. CASE AddFind(c) \/ Link(c) \/ Unlink(c)
  <2>1. /\ pc[c] = "idle" /\ pc'[c] \notin HoldPlaces
        /\ UNCHANGED <<subject, images, shown, cut, overlap>>
        /\ \A s \in SubjectIds : status[s] = "live" => status'[s] = "live"
    BY <1>6 DEF AddFind, Link, Unlink
  <2>2. \A s \in SubjectIds, i \in images' : Former(s, i)
    BY <1>4, <2>1
  <2>3. \A s \in SubjectIds : Still(s) \/ status[s] # "live" \/ c \in Changing(s)
    BY <2>1 DEF Still
  <2>4. QED BY <1>2, <1>3, <2>1, <2>2, <2>3
<1>7. CASE Purge(c)
  <2>1. /\ pc[c] = "purging" /\ pc'[c] = "inserting" /\ UNCHANGED <<images, shown, overlap>>
        /\ cut' = cut \cup {twin[c]} /\ status[twin[c]] # "live"
        /\ \A s \in SubjectIds : s = twin[c] \/ Still(s)
    BY <1>7 DEF Purge, AddPurge, NameAt, Still
  <2>2. \A s \in SubjectIds, i \in images' : Former(s, i)
    BY <2>1 DEF Former, Still
  <2>3. QED BY <1>2, <1>3, <2>1, <2>2
<1>8. CASE AddInsert(c)
  <2>1. /\ pc[c] = "inserting" /\ pc'[c] = "done" /\ UNCHANGED <<images, overlap, cut>>
        /\ status[sid[c]] = "named" /\ sid[c] \in SubjectIds
        /\ \A s \in SubjectIds : s = sid[c] \/ Still(s)
    BY <1>8 DEF AddInsert, NameAt, HoldsAt, SubjectPlaces, Still
  <2>2. subject[sid[c]].avatar = Null
    BY <2>1 DEF NamesInv, Stands, NoRow
  <2>3. \/ UNCHANGED <<subject, shown>>
        \/ /\ subject'[sid[c]] = seen[c]
           /\ \A i \in images : shown'[i] = IF i = seen[c].avatar THEN sid[c] ELSE shown[i]
    BY <1>8, <2>1 DEF AddInsert
  <2>4. \A s \in SubjectIds, i \in images' : Former(s, i)
    BY <2>1, <2>2, <2>3 DEF Former, Still
  <2>5. QED BY <1>2, <1>3, <2>1, <2>4
<1>9. ASSUME NEW s \in SubjectIds, NEW p \in HoldPlaces, ReadSubject(c, s), GoTo(c, p),
             pc[c] = "idle", UNCHANGED <<status, subject, images, shown, cut>>
      PROVE  FormerInv'
  <2>1. /\ pc'[c] = p /\ sid'[c] = s /\ seen'[c] = subject[s] /\ status[s] = "live"
        /\ overlap' = IF Changing(s) # {} THEN overlap \cup {s} ELSE overlap
    BY <1>9 DEF ReadSubject
  <2>2. CurrentAt(c)' /\ Moves /\ overlap \subseteq overlap'
    BY <1>9, <2>1 DEF CurrentAt, Moves
  <2>3. \A r \in SubjectIds, i \in images' : Former(r, i)
    BY <1>4, <1>9
  <2>4. \A r \in SubjectIds : Still(r)
    BY <1>9 DEF Still
  <2>5. QED BY <1>2, <1>9, <2>2, <2>3, <2>4
<1>10. CASE ChangeRead(c)
  BY <1>9, <1>10 DEF ChangeRead
<1>11. CASE RemoveRead(c)
  BY <1>9, <1>11 DEF RemoveRead
<1>12. CASE ChangePicture(c)
  <2>1. /\ pc[c] = "picturing" /\ pc'[c] = "saving" /\ images' \subseteq images
        /\ UNCHANGED <<status, subject, shown, cut, overlap, sid, seen>>
    BY <1>12 DEF ChangePicture
  <2>2. CurrentAt(c)' /\ Moves
    BY <2>1 DEF CurrentAt, Moves
  <2>3. \A s \in SubjectIds, i \in images' : Former(s, i)
    BY <1>4, <2>1
  <2>4. QED BY <1>2, <2>1, <2>2, <2>3 DEF Still
<1>13. CASE ChangeSave(c)
  <2>1. /\ pc[c] = "saving" /\ pc'[c] = "done" /\ UNCHANGED <<images, status, overlap>>
        /\ cut \subseteq cut' /\ sid[c] \in SubjectIds
    BY <1>13 DEF ChangeSave
  <2>2. ASSUME NEW s \in SubjectIds, s # sid[c]
        PROVE  Still(s) /\ \A i \in images : shown'[i] = s => shown[i] = s
    BY <1>13, <2>2 DEF ChangeSave, Still
  <2>3. \/ UNCHANGED <<subject, shown>>
        \/ /\ subject'[sid[c]] = Written(sid[c], seen[c], wish[c])
           /\ \A i \in images :
                shown'[i] = IF Replaces(c) /\ i = wish[c].avatar THEN sid[c] ELSE shown[i]
    <3>1. CASE status[sid[c]] # "live"
      BY <1>13, <3>1 DEF ChangeSave
    <3>2. CASE /\ status[sid[c]] = "live" /\ wish[c].title # seen[c].title
               /\ Taken(wish[c].title, sid[c])
      BY <1>13, <3>2 DEF ChangeSave
    <3>3. CASE /\ status[sid[c]] = "live"
               /\ wish[c].title = seen[c].title \/ ~Taken(wish[c].title, sid[c])
      BY <1>13, <2>1, <3>3 DEF ChangeSave
    <3>4. QED BY <3>1, <3>2, <3>3
  <2>4. Written(sid[c], seen[c], wish[c]).avatar =
          IF Replaces(c) THEN wish[c].avatar ELSE subject[sid[c]].avatar
    BY DEF Written, Changed, Replaces
  <2>5. Replaces(c) /\ sid[c] \notin overlap => subject[sid[c]].avatar \notin images
    BY <2>1 DEF PicturingAt, CurrentAt
  <2>6. ASSUME NEW s \in SubjectIds, NEW i \in images PROVE Former(s, i)
    <3>1. CASE s # sid[c]
      BY <2>1, <2>2, <3>1 DEF Former, Still
    <3>2. CASE s = sid[c] /\ UNCHANGED <<subject, shown>>
      BY <2>1, <3>2 DEF Former
    <3>3. CASE /\ s = sid[c] /\ subject'[sid[c]] = Written(sid[c], seen[c], wish[c])
               /\ \A j \in images :
                    shown'[j] = IF Replaces(c) /\ j = wish[c].avatar THEN sid[c] ELSE shown[j]
      <4>1. CASE Replaces(c)
        BY <2>1, <2>4, <2>5, <2>6, <3>3, <4>1 DEF Former
      <4>2. CASE ~Replaces(c)
        BY <2>1, <2>4, <2>6, <3>3, <4>2 DEF Former
      <4>3. QED BY <4>1, <4>2
    <3>4. QED BY <2>3, <3>1, <3>2, <3>3
  <2>7. \A s \in SubjectIds : Still(s) \/ c \in Changing(s)
    BY <2>1, <2>2
  <2>8. QED BY <1>2, <1>3, <2>1, <2>6, <2>7
<1>14. CASE RemovePicture(c)
  <2>1. /\ pc[c] = "unpicturing" /\ pc'[c] = "done" /\ images' = images \ {seen[c].avatar}
        /\ UNCHANGED <<status, subject, shown, cut, overlap>>
    BY <1>14 DEF RemovePicture
  <2>2. \A s \in SubjectIds, i \in images' : Former(s, i)
    BY <2>1 DEF Former
  <2>3. QED BY <1>2, <1>3, <2>1, <2>2 DEF Still
<1>15. CASE RemoveCommit(c)
  <2>1. /\ pc[c] = "dropping" /\ sid[c] \in SubjectIds
        /\ UNCHANGED <<images, shown, cut, overlap>>
        /\ \A s \in SubjectIds : s = sid[c] \/ Still(s)
    BY <1>15 DEF RemoveCommit, Still
  <2>2. \/ UNCHANGED subject /\ Leave(c)
        \/ seen[c].avatar = Null /\ Leave(c)
        \/ seen[c].avatar # Null /\ Continue(c, "unpicturing")
    BY <1>15 DEF RemoveCommit
  <2>3. CurrentAt(c)' /\ Moves
    BY <2>1, <2>2 DEF CurrentAt, Moves
  <2>4. ASSUME NEW s \in SubjectIds, NEW i \in images PROVE Former(s, i)
    <3>1. CASE s # sid[c]
      BY <2>1, <3>1 DEF Former, Still
    <3>2. CASE s = sid[c]
      <4>1. s \notin overlap => seen[c] = subject[s]
        BY <2>1, <3>2 DEF CurrentAt
      <4>2. QED BY <2>1, <2>2, <2>4, <3>2, <4>1 DEF Former
    <3>3. QED BY <3>1, <3>2
  <2>5. QED BY <1>2, <2>1, <2>3, <2>4
<1>16. CASE Stop(c)
  <2>1. /\ pc'[c] = "done" /\ UNCHANGED <<status, subject, images, shown, overlap>>
        /\ cut \subseteq cut'
        /\ pc[c] = "unpicturing" => sid[c] \in cut'
    BY <1>16 DEF Stop
  <2>2. \A s \in SubjectIds, i \in images' : Former(s, i)
    BY <2>1 DEF Former
  <2>3. QED BY <1>2, <1>3, <2>1, <2>2 DEF Still
<1>17. QED
  BY ONLY <1>5, <1>6, <1>7, <1>8, <1>10, <1>11, <1>12, <1>13, <1>14, <1>15, <1>16, Zenon,
          SubjectsOwn(c) \/ LessonsOwn(c) \/ RemoveCommit(c) \/ Stop(c)
     DEF SubjectsOwn, SubjectStep

-----------------------------------------------------------------------------
(***************************************************************************)
(* The theorems.                                                           *)
(***************************************************************************)

IInv ==
  /\ TypesInv /\ NamesInv /\ LNamesInv
  /\ AwardsInv /\ PicturesInv /\ ShownInv /\ FormerInv

(* All of it holds at the start. *)
LEMMA Initial == Init => IInv
<1> SUFFICES ASSUME Init PROVE IInv
  OBVIOUS
<1>0. /\ TypesInv /\ OpeningOK /\ SubjectTypes /\ LessonTypes
      /\ \A c \in Calls : pc[c] = "idle"
      /\ images = Images /\ doomed = [c \in Calls |-> {}]
      /\ paid = [l \in LessonIds |-> 0]
  BY Opening DEF Init, TypesInv
<1>1. "idle" \notin AddPlaces \cup HoldPlaces \cup LessonsCalls \cup SubjectPlaces
  BY DEF AddPlaces, HoldPlaces, LessonsCalls, SubjectPlaces, ChangePlaces, RemovePlaces,
         LessonPlaces, CompletePlaces
<1>2. "idle" \notin ChangePlaces \cup RemovePlaces \cup CompletePlaces
  BY <1>1 DEF HoldPlaces, LessonsCalls
<1>3. NamesInv
  BY <1>0, <1>1 DEF NamesInv, NameAt, OpeningOK
<1>4. LNamesInv
  <2>1. \A c \in Calls : LNameAt(c) /\ DoomsAt(c)
    BY <1>0, <1>1 DEF LNameAt, DoomsAt
  <2>2. \A l \in LessonIds : TrackOK(l)
    BY <1>0 DEF OpeningOK, TrackOK
  <2>3. QED BY <2>1, <2>2 DEF LNamesInv
<1>5. AwardsInv
  <2>1. \A l \in LessonIds : Alone(l)
    BY <1>0, <1>2 DEF Alone, Completing
  <2>2. \A l \in LessonIds : AwardOK(l)
    BY <1>0 DEF AwardOK
  <2>3. \A c \in Calls : HeldAt(c) /\ DatedAt(c) /\ UnpaidAt(c)
    BY <1>0 DEF HeldAt, DatedAt, UnpaidAt
  <2>4. QED BY <2>1, <2>2, <2>3 DEF AwardsInv
<1>6. PicturesInv
  <2>1. \A c \in Calls : New(c) = Null /\ Old(c) = Null
    BY <1>0, <1>1, <1>2 DEF New, Old
  <2>2. QED BY <1>0, <2>1 DEF PicturesInv, OldAt, NewAt, OwnPictures, OpeningOK
<1>7. ShownInv
  <2>1. \A s \in SubjectIds : subject[s].avatar \in images \cup {Null}
    BY <1>0, RowTypes DEF SubjectTypes
  <2>2. \A c \in Calls : PicturingAt(c)
    BY <1>0 DEF PicturingAt
  <2>3. QED BY <2>1, <2>2 DEF ShownInv, PictureShown
<1>8. FormerInv
  <2>1. \A s \in SubjectIds : AloneIn(s)
    BY <1>0, <1>2 DEF AloneIn, Changing
  <2>2. \A c \in Calls : CurrentAt(c)
    BY <1>0, <1>1 DEF CurrentAt
  <2>3. FormerPicturesGone
    BY <1>0 DEF FormerPicturesGone, OpeningOK
  <2>4. QED BY <2>1, <2>2, <2>3 DEF FormerInv
<1>9. QED BY <1>0, <1>3, <1>4, <1>5, <1>6, <1>7, <1>8 DEF IInv

(* Each step keeps all of it. *)
LEMMA Inductive == IInv /\ [Next]_vars => IInv'
<1> SUFFICES ASSUME IInv, [Next]_vars PROVE IInv'
  OBVIOUS
<1>1. CASE UNCHANGED vars
  <2> USE <1>1 DEF vars, stored, working, pictured, lvars, lessons, lworking, lghosts, IInv
  <2>1. TypesInv'
    BY DEF TypesInv, SubjectTypes, LessonTypes, HoldsAt
  <2>2. NamesInv'
    BY DEF NamesInv, NameAt, Stands
  <2>3. LNamesInv'
    BY DEF LNamesInv, LNameAt, DoomsAt, TrackOK
  <2>4. AwardsInv'
    BY DEF AwardsInv, Alone, Completing, AwardOK, HeldAt, DatedAt, UnpaidAt
  <2>5. PicturesInv'
    BY DEF PicturesInv, OwnPictures, OldAt, NewAt, New, Old, Replaces
  <2>6. ShownInv'
    BY DEF ShownInv, PictureShown, PicturingAt, Replaces
  <2>7. FormerInv'
    BY DEF FormerInv, AloneIn, Changing, CurrentAt, FormerPicturesGone
  <2>8. QED BY <2>1, <2>2, <2>3, <2>4, <2>5, <2>6, <2>7
<1>2. ASSUME NEW c \in Calls, SubjectsOwn(c) \/ LessonsOwn(c) \/ RemoveCommit(c) \/ Stop(c)
      PROVE  IInv'
  BY <1>2, TypesOfCall, NamesOfCall, LNamesOfCall, AwardsOfCall, PicturesOfCall, ShownOfCall,
     FormerOfCall DEF IInv
<1>3. QED BY <1>1, <1>2, NextCases

(* Type correctness.  Of the code: each step leaves the tables, the calls' *)
(* instances and the image service with values of their kinds.             *)
THEOREM LearningTypeCorrect == Spec => []LearningTypeOK
<1>1. IInv => LearningTypeOK
  BY Parts DEF IInv, TypesInv
<1>2. QED BY Initial, Inductive, <1>1, PTL DEF Spec

(* The XP for completing a lesson is logged once, however often it is      *)
(* tracked and completed: what xpEarned says of the log is right.          *)
THEOREM LessonsAwardedOnce == Spec => []LessonAwardedOnce
<1>1. IInv => LessonAwardedOnce
  BY DEF IInv, AwardsInv, AwardOK, LessonAwardedOnce
<1>2. QED BY Initial, Inductive, <1>1, PTL DEF Spec

(* A live subject's picture is at the image service, but while an update   *)
(* is between deleting the old one and saving the new.                     *)
THEOREM PicturesAreShown == Spec => []PictureShown
<1>1. IInv => PictureShown
  BY DEF IInv, ShownInv
<1>2. QED BY Initial, Inductive, <1>1, PTL DEF Spec

(* update and remove leave no former picture at the image service.         *)
THEOREM FormerPicturesAreGone == Spec => []FormerPicturesGone
<1>1. IInv => FormerPicturesGone
  BY DEF IInv, FormerInv
<1>2. QED BY Initial, Inductive, <1>1, PTL DEF Spec

(* Of the subjects that are live, only a removal's goes. *)
LEMMA SubjectsGo ==
  ASSUME IInv, NEW c \in Calls,
         SubjectsOwn(c) \/ LessonsOwn(c) \/ RemoveCommit(c) \/ Stop(c),
         NEW s \in SubjectIds, status[s] = "live", status'[s] # "live"
  PROVE  pc[c] = "dropping" /\ sid[c] = s
<1>0. /\ status \in [SubjectIds -> {"none", "named", "live", "deleted", "gone"}]
      /\ NameAt(c) /\ HoldsAt(c)
  BY DEF IInv, TypesInv, SubjectTypes, NamesInv
<1>1. CASE AddFind(c)
  BY <1>0, <1>1 DEF AddFind
<1>2. CASE Purge(c)
  BY <1>0, <1>2 DEF Purge, AddPurge, NameAt
<1>3. CASE AddInsert(c)
  BY <1>0, <1>3 DEF AddInsert
<1>4. CASE RemoveCommit(c)
  BY <1>0, <1>4 DEF RemoveCommit
<1>5. UNCHANGED status \/ AddFind(c) \/ Purge(c) \/ AddInsert(c) \/ RemoveCommit(c)
  <2>1. CASE LessonsOwn(c)
    BY <2>1, LessonsSide DEF stored
  <2>2. CASE Stop(c)
    BY <2>2 DEF Stop, stored
  <2>3. CASE SubjectsOwn(c)
    BY <2>3 DEF SubjectsOwn, SubjectStep, ChangeRead, ChangePicture, ChangeSave, Link, Unlink,
                RemoveRead, RemovePicture, stored
  <2>4. QED BY <2>1, <2>2, <2>3
<1>6. QED BY <1>1, <1>2, <1>3, <1>4, <1>5

(* Of the lessons that are live, only a removed one goes, or the lessons   *)
(* of the subject that goes.                                               *)
LEMMA LessonsGo ==
  ASSUME IInv, NEW c \in Calls,
         SubjectsOwn(c) \/ LessonsOwn(c) \/ RemoveCommit(c) \/ Stop(c),
         NEW l \in LessonIds \ strayed, lstatus[l] = "live", lstatus'[l] # "live"
  PROVE  status'[lesson[l].subject] = "gone" \/ (pc[c] = "unlessoning" /\ lid[c] = l)
<1>0. /\ lstatus \in [LessonIds -> {"none", "named", "live", "gone"}]
      /\ status \in [SubjectIds -> {"none", "named", "live", "deleted", "gone"}]
      /\ LNameAt(c) /\ DoomsAt(c) /\ HoldsAt(c)
  BY DEF IInv, TypesInv, SubjectTypes, LessonTypes, LNamesInv
<1>1. CASE LessonFind(c)
  BY <1>0, <1>1 DEF LessonFind
<1>2. CASE LessonInsert(c)
  BY <1>0, <1>2 DEF LessonInsert
<1>3. CASE LessonDelete(c)
  BY <1>0, <1>3 DEF LessonDelete, Delete
<1>4. CASE RemoveCommit(c)
  <2>1. pc[c] = "dropping" /\ sid[c] \in SubjectIds
    BY <1>0, <1>4 DEF RemoveCommit, HoldsAt, SubjectPlaces, RemovePlaces
  <2>2. Others(sid[c], doomed[c]) = {} /\ l \in doomed[c]
    BY <1>4 DEF RemoveCommit, Delete
  <2>3. status'[sid[c]] = "gone"
    BY <1>0, <1>4, <2>1, <2>2 DEF RemoveCommit
  <2>4. lesson[l].subject = sid[c]
    BY <1>0, <2>1, <2>2 DEF DoomsAt
  <2>5. QED BY <2>3, <2>4
<1>5. \/ UNCHANGED lstatus \/ LessonFind(c) \/ LessonInsert(c) \/ LessonDelete(c)
      \/ RemoveCommit(c)
  <2>1. CASE SubjectsOwn(c)
    BY <2>1, SubjectsSide DEF IInv, TypesInv, lvars, lessons
  <2>2. CASE Stop(c)
    BY <2>2 DEF Stop, lessons
  <2>3. CASE LessonsOwn(c)
    BY <2>3 DEF LessonsOwn, Teach, Complete, LessonRead, LessonSave, LessonUnread, Track,
                CompleteRead, CompleteFind, CompleteOpen, CompleteAward, CompleteClose,
                RemoveSelect, RemoveLessons, lessons
  <2>4. QED BY <2>1, <2>2, <2>3
<1>6. QED BY <1>1, <1>2, <1>3, <1>4, <1>5

(* A removal of a subject takes that subject and its lessons and nothing   *)
(* else, and nothing at all if it is refused; a create takes no live one.  *)
THEOREM NothingElseIsRemoved == Spec => NothingElseGoes
<1>1. ASSUME IInv, [Next]_vars
      PROVE  [/\ \A s \in SubjectIds : status[s] = "live" /\ status'[s] # "live" =>
                   \E c \in Calls : pc[c] = "dropping" /\ sid[c] = s
              /\ \A l \in LessonIds \ strayed : lstatus[l] = "live" /\ lstatus'[l] # "live" =>
                   \/ status'[lesson[l].subject] = "gone"
                   \/ \E c \in Calls : pc[c] = "unlessoning" /\ lid[c] = l
             ]_vars
  <2>1. CASE UNCHANGED vars
    BY <2>1
  <2>2. ASSUME NEW c \in Calls, SubjectsOwn(c) \/ LessonsOwn(c) \/ RemoveCommit(c) \/ Stop(c)
        PROVE  /\ \A s \in SubjectIds : status[s] = "live" /\ status'[s] # "live" =>
                    pc[c] = "dropping" /\ sid[c] = s
               /\ \A l \in LessonIds \ strayed : lstatus[l] = "live" /\ lstatus'[l] # "live" =>
                    \/ status'[lesson[l].subject] = "gone"
                    \/ pc[c] = "unlessoning" /\ lid[c] = l
    BY <1>1, <2>2, SubjectsGo, LessonsGo
  <2>3. QED BY <1>1, <2>1, <2>2, NextCases
<1>2. QED BY Initial, Inductive, <1>1, PTL DEF Spec, NothingElseGoes

(* Of the trackings, a step of a call changes no date that is set. *)
LEMMA DatesStand ==
  ASSUME IInv, NEW c \in Calls,
         SubjectsOwn(c) \/ LessonsOwn(c) \/ RemoveCommit(c) \/ Stop(c),
         NEW l \in LessonIds \ met, track[l].date # Null, lstatus'[l] = "live"
  PROVE  track'[l].date = track[l].date
<1>0. /\ track \in [LessonIds -> TRow]
      /\ TrackOK(l) /\ DatedAt(c) /\ LNameAt(c) /\ HoldsAt(c)
  BY DEF IInv, TypesInv, LessonTypes, LNamesInv, AwardsInv
<1>1. ASSUME NEW ls, Delete(ls)
      PROVE  track'[l].date = track[l].date
  BY <1>1 DEF Delete
<1>2. CASE Track(c)
  <2>1. PICK k \in LessonIds : track' = [track EXCEPT ![k].there = TRUE]
    BY <1>2 DEF Track
  <2>2. \A t \in TRow : [t EXCEPT !.there = TRUE].date = t.date
    BY DEF TRow
  <2>3. QED BY <1>0, <2>1, <2>2
<1>3. CASE CompleteOpen(c)
  BY <1>0, <1>3 DEF CompleteOpen, TrackOK
<1>4. CASE CompleteClose(c)
  <2>1. pc[c] = "closing" /\ UNCHANGED lstatus
    BY <1>4 DEF CompleteClose
  <2>2. CASE lid[c] = l
    <3>1. inst[c].date = track[l].date
      BY <1>0, <2>1, <2>2 DEF DatedAt
    <3>2. QED BY <1>0, <1>4, <2>2, <3>1 DEF CompleteClose
  <2>3. CASE lid[c] # l
    BY <1>0, <1>4, <2>3 DEF CompleteClose
  <2>4. QED BY <2>2, <2>3
<1>5. \/ UNCHANGED track \/ Track(c) \/ CompleteOpen(c) \/ CompleteClose(c)
      \/ \E ls : Delete(ls)
  <2>1. CASE SubjectsOwn(c)
    BY <2>1, SubjectsSide DEF IInv, TypesInv, lvars, lessons
  <2>2. CASE Stop(c)
    BY <2>2 DEF Stop, lessons
  <2>3. CASE LessonDelete(c)
    BY <2>3 DEF LessonDelete
  <2>4. CASE RemoveCommit(c)
    BY <2>4 DEF RemoveCommit
  <2>5. CASE LessonsOwn(c) /\ ~LessonDelete(c)
    BY <2>5 DEF LessonsOwn, Teach, Complete, LessonFind, LessonInsert, LessonRead, LessonUnread,
                LessonSave, CompleteRead, CompleteFind, CompleteAward, RemoveSelect,
                RemoveLessons, lessons
  <2>6. QED BY <2>1, <2>2, <2>3, <2>4, <2>5
<1>6. QED BY <1>1, <1>2, <1>3, <1>4, <1>5

(* What createTracking upserts and completeLessonTracking saves leaves the *)
(* date of the first completion.                                           *)
THEOREM FirstCompletionsStand == Spec => FirstCompletionStands
<1>1. ASSUME IInv, [Next]_vars
      PROVE  [\A l \in LessonIds \ met :
                track[l].date # Null /\ lstatus'[l] = "live" =>
                  track'[l].date = track[l].date]_vars
  <2>1. CASE UNCHANGED vars
    BY <2>1
  <2>2. ASSUME NEW c \in Calls, SubjectsOwn(c) \/ LessonsOwn(c) \/ RemoveCommit(c) \/ Stop(c)
        PROVE  \A l \in LessonIds \ met :
                 track[l].date # Null /\ lstatus'[l] = "live" =>
                   track'[l].date = track[l].date
    BY <1>1, <2>2, DatesStand
  <2>3. QED BY <1>1, <2>1, <2>2, NextCases
<1>2. QED BY Initial, Inductive, <1>1, PTL DEF Spec, FirstCompletionStands
=============================================================================
