------------------------------ MODULE Lessons ------------------------------
(***************************************************************************)
(* The lessons of the subjects, a student's tracking of them, the XP for   *)
(* completing one, and the removal of a subject with all that it has.      *)
(*                                                                         *)
(*   lesson/services/lesson.service.ts       LessonService                 *)
(*   lesson/models/lesson.model.ts           title: unique                 *)
(*   lesson/models/lesson_tracking.model.ts  lesson and user: unique       *)
(*   subject/services/subject.service.ts     remove                        *)
(*                                                                         *)
(* One student stands for all: every query for a tracking is keyed by one. *)
(* The topics, the comments and the trackings of a lesson go with it (ON   *)
(* DELETE CASCADE), while a subject with lessons cannot be deleted (NO     *)
(* ACTION).  Only the removal of a subject is a transaction, and it is     *)
(* READ COMMITTED: each of its statements sees what is committed by then,  *)
(* and what it deletes is locked until it commits.  Its quizzes and exams  *)
(* are read, deleted and guarded as the lessons are, which stand for them. *)
(***************************************************************************)
EXTENDS Subjects

CONSTANT LessonIds

ASSUME LessonsAssumption ==
  /\ Null \notin LessonIds
  /\ Null \notin Calls

VARIABLES
  lstatus,  \* of each lesson: none, named (being created), live, gone
  lesson,   \* its row: subject and title
  track,    \* the student's tracking: is it there, the completion that set
            \* its date, and whether it has its XP
  paid,     \* XP entries in the log for completing each lesson
  lid,      \* the lesson each call works on
  draft,    \* the lesson row it has read, or is to insert
  plan,     \* the lesson row an update wants
  inst,     \* the tracking row a completion holds
  doomed,   \* the lessons a removal has read
  met,      \* history: lessons that two calls were completing at a time
  unsaved,  \* history: lessons whose completion ended with its XP logged and
            \* its tracking not saved
  strayed   \* history: lessons that left their subject after a removal of it
            \* had read them

lessons  == <<lstatus, lesson, track>>
lworking == <<lid, draft, plan, inst, doomed>>
lghosts  == <<met, unsaved, strayed>>
lvars    == <<lessons, paid, lworking, lghosts>>
vars     == <<stored, pc, working, pictured, lvars>>

LRow    == [subject : SubjectIds \cup {Null}, title : Titles \cup {Null}]
NoLRow  == [subject |-> Null, title |-> Null]
TRow    == [there : BOOLEAN, date : Calls \cup {Null}, earned : BOOLEAN]
NoTRow  == [there |-> FALSE, date |-> Null, earned |-> FALSE]
Tracked == [there |-> TRUE, date |-> Null, earned |-> FALSE]

CompletePlaces == {"tracking", "opening", "awarding", "closing"}
LessonPlaces   == {"lessoning", "relessoning", "unlessoning"}
Places == {"idle", "done"} \cup SubjectPlaces \cup CompletePlaces \cup LessonPlaces

LearningTypeOK ==
  /\ status \in [SubjectIds -> {"none", "named", "live", "deleted", "gone"}]
  /\ subject \in [SubjectIds -> Row]
  /\ linked \subseteq SubjectIds
  /\ images \subseteq Images
  /\ pc \in [Calls -> Places]
  /\ sid \in [Calls -> SubjectIds \cup {Null}]
  /\ twin \in [Calls -> SubjectIds \cup {Null}]
  /\ seen \in [Calls -> Row] /\ wish \in [Calls -> Row]
  /\ shown \in [Images -> SubjectIds \cup {Null}]
  /\ overlap \subseteq SubjectIds /\ cut \subseteq SubjectIds
  /\ lstatus \in [LessonIds -> {"none", "named", "live", "gone"}]
  /\ lesson \in [LessonIds -> LRow]
  /\ track \in [LessonIds -> TRow]
  /\ paid \in [LessonIds -> Nat]
  /\ lid \in [Calls -> LessonIds \cup {Null}]
  /\ draft \in [Calls -> LRow] /\ plan \in [Calls -> LRow]
  /\ inst \in [Calls -> TRow]
  /\ doomed \in [Calls -> SUBSET LessonIds]
  /\ met \subseteq LessonIds /\ unsaved \subseteq LessonIds
  /\ strayed \subseteq LessonIds

(* There may be subjects already, live or soft-deleted, lessons of them,   *)
(* and a tracking.  Titles differ.  To bound the cases, there is an id     *)
(* left, only one subject is soft-deleted, and then no other is there; at  *)
(* most one has a picture; a lesson that is tracked is the only one.       *)
Init ==
  /\ \E live \in SUBSET SubjectIds, deleted \in {{}} \cup {{s} : s \in SubjectIds} :
       /\ live # SubjectIds
       /\ live = {} \/ deleted = {}
       /\ status = [s \in SubjectIds |-> IF s \in live THEN "live"
                                         ELSE IF s \in deleted THEN "deleted" ELSE "none"]
       /\ \E name \in [live \cup deleted -> Titles],
             face \in [live \cup deleted -> Images \cup {Null}] :
            /\ \A r, s \in live \cup deleted :
                 r # s => name[r] # name[s] /\ Null \in {face[r], face[s]}
            /\ subject = [s \in SubjectIds |->
                 IF s \in live \cup deleted
                 THEN [title |-> name[s], avatar |-> face[s]] ELSE NoRow]
            /\ shown \in [Images -> live \cup deleted \cup {Null}]
            /\ \A i \in Images, s \in SubjectIds \cup {Null} :
                 shown[i] = s => IF s = Null THEN \A r \in live \cup deleted : face[r] # i
                                 ELSE face[s] = i
  /\ \E taught \in SUBSET LessonIds :
       /\ lstatus = [l \in LessonIds |-> IF l \in taught THEN "live" ELSE "none"]
       /\ \E home \in [taught -> {s \in SubjectIds : Stands(s)}], name \in [taught -> Titles] :
            /\ \A k, l \in taught : k # l => name[k] # name[l]
            /\ lesson = [l \in LessonIds |->
                 IF l \in taught THEN [subject |-> home[l], title |-> name[l]] ELSE NoLRow]
       /\ track \in [LessonIds -> {NoTRow, Tracked}]
       /\ \A l \in LessonIds : track[l].there => taught = {l}
  /\ linked = {}
  /\ images = Images
  /\ pc = [c \in Calls |-> "idle"]
  /\ sid = [c \in Calls |-> Null]
  /\ twin = [c \in Calls |-> Null]
  /\ seen = [c \in Calls |-> NoRow] /\ wish = [c \in Calls |-> NoRow]
  /\ overlap = {} /\ cut = {}
  /\ paid = [l \in LessonIds |-> 0]
  /\ lid = [c \in Calls |-> Null]
  /\ draft = [c \in Calls |-> NoLRow] /\ plan = [c \in Calls |-> NoLRow]
  /\ inst = [c \in Calls |-> NoTRow]
  /\ doomed = [c \in Calls |-> {}]
  /\ met = {} /\ unsaved = {} /\ strayed = {}

InFlight(c) == pc[c] \notin {"idle", "done"}

(* The call goes on, with what it holds. *)
LContinue(c, p) == GoTo(c, p) /\ UNCHANGED lworking

(* The call returns or throws, and what it held is garbage. *)
LLeave(c) ==
  /\ GoTo(c, "done")
  /\ lid' = [lid EXCEPT ![c] = Null]
  /\ draft' = [draft EXCEPT ![c] = NoLRow]
  /\ plan' = [plan EXCEPT ![c] = NoLRow]
  /\ inst' = [inst EXCEPT ![c] = NoTRow]
  /\ doomed' = [doomed EXCEPT ![c] = {}]

(* A removal under way has deleted the lesson and not committed yet. *)
Locked(l) == lstatus[l] = "live" /\ \E d \in Calls : pc[d] = "dropping" /\ l \in doomed[d]

LTaken(t, l)  == \E k \in LessonIds \ {l} : lstatus[k] = "live" /\ lesson[k].title = t

(* INSERT or UPDATE of a title waits for a removal that has deleted it. *)
LWaits(t, l) == \E k \in LessonIds \ {l} : Locked(k) /\ lesson[k].title = t

(***************************************************************************)
(* create, update and remove of a lesson                                   *)
(***************************************************************************)

(* The subject is live, and has no lesson with the title. *)
LessonFind(c) ==
  /\ pc[c] = "idle"
  /\ \E l \in LessonIds, s \in SubjectIds, t \in Titles :
       /\ lstatus[l] = "none" /\ status[s] = "live"
       /\ \A k \in LessonIds : lstatus[k] = "live" => lesson[k] # [subject |-> s, title |-> t]
       /\ lstatus' = [lstatus EXCEPT ![l] = "named"]
       /\ lid' = [lid EXCEPT ![c] = l]
       /\ draft' = [draft EXCEPT ![c] = [subject |-> s, title |-> t]]
  /\ GoTo(c, "lessoning")
  /\ UNCHANGED <<stored, working, pictured, lesson, track, paid, plan, inst, doomed, lghosts>>

(* The row is inserted; but the title may be another subject's lesson's,   *)
(* for the index goes by the title alone, and the subject may be gone.     *)
LessonInsert(c) ==
  /\ pc[c] = "lessoning"
  /\ LET l == lid[c]  r == draft[c] IN
       /\ ~LWaits(r.title, l)
       /\ IF Stands(r.subject) /\ ~LTaken(r.title, l)
          THEN /\ lstatus' = [lstatus EXCEPT ![l] = "live"]
               /\ lesson' = [lesson EXCEPT ![l] = r]
          ELSE UNCHANGED <<lstatus, lesson>>
  /\ LLeave(c)
  /\ UNCHANGED <<stored, working, pictured, track, paid, lghosts>>

(* The lesson is read.  To bound the cases, an update changes one column. *)
LessonRead(c) ==
  /\ pc[c] = "idle"
  /\ \E l \in LessonIds, s \in SubjectIds, t \in Titles :
       /\ lstatus[l] = "live"
       /\ (lesson[l].subject # s) # (lesson[l].title # t)
       /\ lid' = [lid EXCEPT ![c] = l]
       /\ draft' = [draft EXCEPT ![c] = lesson[l]]
       /\ plan' = [plan EXCEPT ![c] = [subject |-> s, title |-> t]]
  /\ GoTo(c, "relessoning")
  /\ UNCHANGED <<stored, working, pictured, lessons, paid, inst, doomed, lghosts>>

(* What the update wants, on the row as it is by now. *)
LWritten(c) ==
  LET l == lid[c] IN
  [subject |-> Changed(lesson[l].subject, draft[c].subject, plan[c].subject),
   title   |-> Changed(lesson[l].title, draft[c].title, plan[c].title)]

(* Removals that have read the lesson and not deleted it yet. *)
Dooming(l) == {d \in Calls : pc[d] = "deleting" /\ l \in doomed[d]}

(* A lesson's row is saved; it may move to another subject. *)
LessonSave(c) ==
  /\ pc[c] = "relessoning"
  /\ LET l == lid[c]
         r == LWritten(c)
         saved == /\ lstatus[l] = "live" /\ ~LTaken(r.title, l)
                  /\ r.subject # lesson[l].subject => Stands(r.subject)
     IN  /\ ~Locked(l) /\ ~LWaits(r.title, l)
         /\ lesson' = IF saved THEN [lesson EXCEPT ![l] = r] ELSE lesson
         /\ strayed' = IF saved /\ r.subject # lesson[l].subject /\ Dooming(l) # {}
                       THEN strayed \cup {l} ELSE strayed
  /\ LLeave(c)
  /\ UNCHANGED <<stored, working, pictured, lstatus, track, paid, met, unsaved>>

(* remove: the lesson is read, and then deleted. *)
LessonUnread(c) ==
  /\ pc[c] = "idle"
  /\ \E l \in LessonIds :
       /\ lstatus[l] = "live"
       /\ lid' = [lid EXCEPT ![c] = l]
  /\ GoTo(c, "unlessoning")
  /\ UNCHANGED <<stored, working, pictured, lessons, paid, draft, plan, inst, doomed, lghosts>>

(* DELETE of lessons, and of what refers to them. *)
Delete(ls) ==
  /\ lstatus' = [l \in LessonIds |-> IF l \in ls THEN "gone" ELSE lstatus[l]]
  /\ lesson' = [l \in LessonIds |-> IF l \in ls THEN NoLRow ELSE lesson[l]]
  /\ track' = [l \in LessonIds |-> IF l \in ls THEN NoTRow ELSE track[l]]

LessonDelete(c) ==
  /\ pc[c] = "unlessoning"
  /\ ~Locked(lid[c])
  /\ Delete({lid[c]})
  /\ LLeave(c)
  /\ UNCHANGED <<stored, working, pictured, paid, lghosts>>

(***************************************************************************)
(* createTracking and completeLessonTracking                               *)
(***************************************************************************)

(* Mutant: the upsert writes the columns' defaults over a row. *)
TrackFresh(c) ==
  /\ pc[c] = "idle"
  /\ \E l \in LessonIds :
       /\ lstatus[l] = "live" /\ ~Locked(l)
       /\ track' = [track EXCEPT ![l] = Tracked]
  /\ GoTo(c, "done")
  /\ UNCHANGED <<stored, working, pictured, lstatus, lesson, paid, lworking, lghosts>>

(* The upsert inserts a row, or touches nothing but the keys of one.  The  *)
(* foreign key waits for a lesson that is being deleted.                   *)
Track(c) ==
  /\ pc[c] = "idle"
  /\ \E l \in LessonIds :
       /\ lstatus[l] = "live" /\ ~Locked(l)
       /\ track' = [track EXCEPT ![l].there = TRUE]
  /\ GoTo(c, "done")
  /\ UNCHANGED <<stored, working, pictured, lstatus, lesson, paid, lworking, lghosts>>

Completing(l) == {c \in Calls : lid[c] = l /\ pc[c] \in CompletePlaces}

(* The lesson is read, and the sum of its topics' durations. *)
CompleteRead(c) ==
  /\ pc[c] = "idle"
  /\ \E l \in LessonIds :
       /\ lstatus[l] = "live"
       /\ lid' = [lid EXCEPT ![c] = l]
       /\ met' = IF Completing(l) # {} THEN met \cup {l} ELSE met
  /\ GoTo(c, "tracking")
  /\ UNCHANGED <<stored, working, pictured, lessons, paid, draft, plan, inst, doomed,
                 unsaved, strayed>>

(* Mutant: the lesson is completed anew each time. *)
CompleteFindDates(c) ==
  /\ pc[c] = "tracking"
  /\ LET t == track[lid[c]] IN
       /\ inst' = [inst EXCEPT ![c] = [t EXCEPT !.date = Null]]
       /\ GoTo(c, IF ~t.there THEN "opening" ELSE IF t.earned THEN "closing" ELSE "awarding")
  /\ UNCHANGED <<stored, working, pictured, lessons, paid, lid, draft, plan, doomed, lghosts>>

(* Mutant: the null that findOne returns is held as the tracking. *)
CompleteFindNull(c) ==
  /\ pc[c] = "tracking"
  /\ LET t == track[lid[c]] IN
       /\ inst' = [inst EXCEPT ![c] = IF t.there THEN t ELSE Null]
       /\ GoTo(c, IF ~t.there THEN "opening" ELSE IF t.earned THEN "closing" ELSE "awarding")
  /\ UNCHANGED <<stored, working, pictured, lessons, paid, lid, draft, plan, doomed, lghosts>>

(* The student's tracking is read.  Who has the XP is not awarded again. *)
CompleteFind(c) ==
  /\ pc[c] = "tracking"
  /\ LET t == track[lid[c]] IN
       /\ inst' = [inst EXCEPT ![c] = t]
       /\ GoTo(c, IF ~t.there THEN "opening" ELSE IF t.earned THEN "closing" ELSE "awarding")
  /\ UNCHANGED <<stored, working, pictured, lessons, paid, lid, draft, plan, doomed, lghosts>>

(* Without one it is created: refused if there is one by now, or if the    *)
(* lesson is gone.                                                         *)
CompleteOpen(c) ==
  /\ pc[c] = "opening"
  /\ LET l == lid[c]
         new == [there |-> TRUE, date |-> c, earned |-> FALSE]
     IN  /\ ~Locked(l)
         /\ \/ /\ lstatus[l] = "live" /\ ~track[l].there
               /\ track' = [track EXCEPT ![l] = new]
               /\ inst' = [inst EXCEPT ![c] = new]
               /\ GoTo(c, "awarding")
               /\ UNCHANGED <<lid, draft, plan, doomed>>
            \/ /\ lstatus[l] # "live" \/ track[l].there
               /\ LLeave(c)
               /\ UNCHANGED track
  /\ UNCHANGED <<stored, working, pictured, lstatus, lesson, paid, lghosts>>

(* The XP is logged. *)
CompleteAward(c) ==
  /\ pc[c] = "awarding"
  /\ paid' = [paid EXCEPT ![lid[c]] = @ + 1]
  /\ LContinue(c, "closing")
  /\ UNCHANGED <<stored, working, pictured, lessons, lghosts>>

(* Mutant: that the XP is earned is set after the save. *)
CompleteCloseUnearned(c) ==
  /\ pc[c] = "closing"
  /\ LET l == lid[c] IN
       /\ ~Locked(l)
       /\ track' = IF track[l].there
                   THEN [track EXCEPT ![l].date = IF inst[c].date = Null THEN c ELSE @]
                   ELSE track
  /\ LLeave(c)
  /\ UNCHANGED <<stored, working, pictured, lstatus, lesson, paid, lghosts>>

(* The tracking is saved: its date if there was none, and its XP. *)
CompleteClose(c) ==
  /\ pc[c] = "closing"
  /\ LET l == lid[c]
         t == track[l]
         date == IF inst[c].date = Null THEN c ELSE t.date
     IN  /\ ~Locked(l)
         /\ track' = IF t.there
                     THEN [track EXCEPT ![l] = [there |-> TRUE, date |-> date, earned |-> TRUE]]
                     ELSE track
  /\ LLeave(c)
  /\ UNCHANGED <<stored, working, pictured, lstatus, lesson, paid, lghosts>>

(***************************************************************************)
(* remove of a subject                                                     *)
(***************************************************************************)

RemoveRead(c) ==
  /\ pc[c] = "idle"
  /\ \E s \in SubjectIds : ReadSubject(c, s)
  /\ GoTo(c, "selecting")
  /\ UNCHANGED <<stored, wish, shown, cut, lvars>>

(* The ids of its lessons are read. *)
RemoveSelect(c) ==
  /\ pc[c] = "selecting"
  /\ doomed' = [doomed EXCEPT ![c] =
       {l \in LessonIds : lstatus[l] = "live" /\ lesson[l].subject = sid[c]}]
  /\ GoTo(c, "deleting")
  /\ UNCHANGED <<stored, working, pictured, lessons, paid, lid, draft, plan, inst, lghosts>>

(* The lessons with these ids are deleted, with all that is theirs, once   *)
(* no other removal holds one of them.                                     *)
RemoveLessons(c) ==
  /\ pc[c] = "deleting"
  /\ \A l \in doomed[c] : ~Locked(l)
  /\ LContinue(c, "dropping")
  /\ UNCHANGED <<stored, working, pictured, lessons, paid, lghosts>>

(* Lessons of subject s other than those. *)
Others(s, ls) == {l \in LessonIds \ ls : lstatus[l] = "live" /\ lesson[l].subject = s}

(* Mutant: there is no transaction to roll back. *)
RemoveCommitAnyway(c) ==
  /\ pc[c] = "dropping"
  /\ LET s == sid[c]  refused == Others(s, doomed[c]) # {} IN
       /\ Delete(doomed[c])
       /\ status' = IF refused THEN status ELSE [status EXCEPT ![s] = "gone"]
       /\ subject' = IF refused THEN subject ELSE [subject EXCEPT ![s] = NoRow]
       /\ linked' = IF refused THEN linked ELSE linked \ {s}
       /\ IF refused \/ seen[c].avatar = Null
          THEN Leave(c) ELSE GoTo(c, "unpicturing") /\ UNCHANGED working
       /\ doomed' = [doomed EXCEPT ![c] = {}]
  /\ UNCHANGED <<images, pictured, paid, lid, draft, plan, inst, lghosts>>

(* The subject is deleted and all is committed; or a lesson that came in   *)
(* since forbids it, and all is rolled back.                               *)
RemoveCommit(c) ==
  /\ pc[c] = "dropping"
  /\ LET s == sid[c]  refused == Others(s, doomed[c]) # {} IN
       /\ Delete(IF refused THEN {} ELSE doomed[c])
       /\ status' = IF refused THEN status ELSE [status EXCEPT ![s] = "gone"]
       /\ subject' = IF refused THEN subject ELSE [subject EXCEPT ![s] = NoRow]
       /\ linked' = IF refused THEN linked ELSE linked \ {s}
       /\ IF refused \/ seen[c].avatar = Null
          THEN Leave(c) ELSE Continue(c, "unpicturing")
       /\ doomed' = [doomed EXCEPT ![c] = {}]
  /\ UNCHANGED <<images, pictured, paid, lid, draft, plan, inst, lghosts>>

(* Mutant: the picture is not deleted. *)
RemovePictureKept(c) ==
  /\ pc[c] = "unpicturing"
  /\ Leave(c)
  /\ UNCHANGED <<stored, pictured, lvars>>

RemovePicture(c) ==
  /\ pc[c] = "unpicturing"
  /\ images' = images \ {seen[c].avatar}
  /\ Leave(c)
  /\ UNCHANGED <<status, subject, linked, pictured, lvars>>

-----------------------------------------------------------------------------

(* A create destroys a soft-deleted twin, unless it has lessons. *)
Purge(c) == /\ Others(twin[c], {}) = {}
            /\ AddPurge(c)
            /\ UNCHANGED lvars

(* An awaited request or statement fails, or the process ends. *)
Stop(c) ==
  /\ InFlight(c)
  /\ cut' = IF pc[c] \in {"saving", "unpicturing"} THEN cut \cup {sid[c]} ELSE cut
  /\ unsaved' = IF pc[c] = "closing" THEN unsaved \cup {lid[c]} ELSE unsaved
  /\ Leave(c)
  /\ LLeave(c)
  /\ UNCHANGED <<stored, shown, overlap, lessons, paid, met, strayed>>

(* The server waits for the next call. *)
Quiet ==
  /\ \A c \in Calls : ~InFlight(c)
  /\ UNCHANGED vars

Teach(c)    == \/ LessonFind(c) \/ LessonInsert(c) \/ LessonRead(c) \/ LessonSave(c)
               \/ LessonUnread(c) \/ LessonDelete(c)
Complete(c) == \/ Track(c) \/ CompleteRead(c) \/ CompleteFind(c) \/ CompleteOpen(c)
               \/ CompleteAward(c) \/ CompleteClose(c)
Remove(c)   == \/ RemoveRead(c) \/ RemoveSelect(c) \/ RemoveLessons(c)
               \/ RemoveCommit(c) \/ RemovePicture(c)

Next ==
  \/ \E c \in Calls :
       \/ SubjectStep(c) /\ UNCHANGED lvars
       \/ Purge(c)
       \/ Teach(c) \/ Complete(c) \/ Remove(c)
       \/ Stop(c)
  \/ Quiet

Spec == Init /\ [][Next]_vars
-----------------------------------------------------------------------------

(***************************************************************************)
(* Properties.                                                             *)
(***************************************************************************)

(* A subject that is shown has a picture that is there.  Unless an update  *)
(* of it is about to save another one, or ended between deleting the old   *)
(* picture and saving the new one: by a failure, or by a title that was    *)
(* taken.  Two updates that overlap are no reason.                         *)
PictureShown ==
  \A s \in SubjectIds \ cut :
    status[s] = "live" /\ subject[s].avatar \notin images \cup {Null} =>
      \E c \in Calls : /\ pc[c] = "saving" /\ sid[c] = s /\ Replaces(c)
                       /\ seen[c].avatar = subject[s].avatar

(* A picture that was replaced, or whose subject was removed, is deleted.  *)
(* Unless two calls were changing the subject at a time, a removal ended   *)
(* before it, or the subject was destroyed to make way for its title.      *)
FormerPicturesGone ==
  \A i \in images, s \in SubjectIds \ (overlap \cup cut) :
    shown[i] = s =>
      \/ subject[s].avatar = i
      \/ \E c \in Calls : pc[c] = "unpicturing" /\ sid[c] = s /\ seen[c].avatar = i

(* A live subject goes only by its own removal, not by a create of another *)
(* one; and a lesson goes only by its own removal, or together with the    *)
(* subject it is in.  Unless it left a subject that was being removed: its *)
(* id had been read by then.  A removal that is refused removes nothing.   *)
NothingElseGoes ==
  [][/\ \A s \in SubjectIds : status[s] = "live" /\ status'[s] # "live" =>
          \E c \in Calls : pc[c] = "dropping" /\ sid[c] = s
     /\ \A l \in LessonIds \ strayed : lstatus[l] = "live" /\ lstatus'[l] # "live" =>
          \/ status'[lesson[l].subject] = "gone"
          \/ \E c \in Calls : pc[c] = "unlessoning" /\ lid[c] = l
    ]_vars

(* The XP for completing a lesson is logged once, however often and in     *)
(* whatever order it is tracked and completed.  Unless two completions of  *)
(* it overlapped, or one failed between logging the XP and saving that.    *)
LessonAwardedOnce ==
  \A l \in LessonIds \ (met \cup unsaved) : paid[l] <= 1

(* The date of the first completion stands: neither a later completion nor *)
(* a new tracking changes it.  Unless two completions overlapped.          *)
FirstCompletionStands ==
  [][\A l \in LessonIds \ met :
       track[l].date # Null /\ lstatus'[l] = "live" => track'[l].date = track[l].date]_vars
=============================================================================
