------------------------------ MODULE Subjects ------------------------------
(***************************************************************************)
(* The subjects, their pictures at the image service (Cloudinary), and a   *)
(* student's links to them.                                                *)
(*                                                                         *)
(*   subject/services/subject.service.ts     create, update, linkOne,      *)
(*                                           unlinkOne                     *)
(*   subject/models/subject.model.ts         title: unique, paranoid       *)
(*   subject/models/user-subject.model.ts    user and subject: unique      *)
(*                                                                         *)
(* Soft-deleted rows are there from the beginning at most: nothing makes   *)
(* or restores one today, so that when an insert is refused, the second    *)
(* look at the title, for a soft-deleted row, finds none.                  *)
(* The client uploads a picture by itself, under a name of its own, before *)
(* it sends the address.                                                   *)
(*                                                                         *)
(* A call runs in steps, one awaited request or statement each, and calls  *)
(* interleave between them.  A subject is removed with its lessons: module *)
(* Lessons composes that with what is here.                                *)
(***************************************************************************)
EXTENDS Naturals

CONSTANTS
  Calls,
  SubjectIds,
  Titles,
  Images,     \* addresses of uploaded pictures
  Null        \* SQL's NULL

ASSUME SubjectsAssumption ==
  /\ Null \notin SubjectIds /\ Null \notin Titles /\ Null \notin Images

VARIABLES
  status,   \* of each subject: none, named (being created), live, deleted
            \* (softly), gone
  subject,  \* its row: title and avatar
  linked,   \* the subjects the student is linked to
  images,   \* the pictures at the image service
  pc,       \* where each call is
  sid,      \* the subject it works on
  twin,     \* the soft-deleted subject a create has found
  seen,     \* the row it has read, or is to insert
  wish,     \* the row an update wants
  shown,    \* history: the subject that each picture was last shown with
  overlap,  \* history: subjects that two calls were changing at a time
  cut       \* history: subjects with which a call ended between two steps,
            \* and soft-deleted ones that were destroyed for their title

stored   == <<status, subject, linked, images>>
working  == <<sid, twin, seen, wish>>
pictured == <<shown, overlap, cut>>

Row   == [title : Titles \cup {Null}, avatar : Images \cup {Null}]
NoRow == [title |-> Null, avatar |-> Null]

ChangePlaces  == {"picturing", "saving"}
RemovePlaces  == {"selecting", "deleting", "dropping", "unpicturing"}
SubjectPlaces == {"purging", "inserting"} \cup ChangePlaces \cup RemovePlaces

GoTo(c, p) == pc' = [pc EXCEPT ![c] = p]

(* The call awaits its next request or statement. *)
Continue(c, p) == GoTo(c, p) /\ UNCHANGED working

(* The call returns or throws, and what it held is garbage. *)
Leave(c) ==
  /\ GoTo(c, "done")
  /\ sid' = [sid EXCEPT ![c] = Null]
  /\ twin' = [twin EXCEPT ![c] = Null]
  /\ seen' = [seen EXCEPT ![c] = NoRow]
  /\ wish' = [wish EXCEPT ![c] = NoRow]

(* The table's rows, which the unique index goes by. *)
Stands(s)   == status[s] \in {"live", "deleted"}
Taken(t, s) == \E r \in SubjectIds \ {s} : Stands(r) /\ subject[r].title = t

(* Pictures that no row and no call has: those just uploaded. *)
Unused ==
  {i \in images : /\ \A s \in SubjectIds : subject[s].avatar # i
                  /\ \A c \in Calls : seen[c].avatar # i /\ wish[c].avatar # i
                  /\ shown[i] = Null}

(* Calls that are changing or removing subject s. *)
Changing(s) == {c \in Calls : sid[c] = s /\ pc[c] \in ChangePlaces \cup RemovePlaces}

(* findByPk of a live subject by a call that is going to change it. *)
ReadSubject(c, s) ==
  /\ status[s] = "live"
  /\ sid' = [sid EXCEPT ![c] = s]
  /\ seen' = [seen EXCEPT ![c] = subject[s]]
  /\ overlap' = IF Changing(s) # {} THEN overlap \cup {s} ELSE overlap
  /\ UNCHANGED twin

(***************************************************************************)
(* create                                                                  *)
(***************************************************************************)

(* The title is looked up, among soft-deleted rows too. *)
AddFind(c) ==
  /\ pc[c] = "idle"
  /\ \E s \in SubjectIds, t \in Titles, i \in Unused \cup {Null} :
       /\ status[s] = "none"
       /\ status' = [status EXCEPT ![s] = "named"]
       /\ sid' = [sid EXCEPT ![c] = s]
       /\ seen' = [seen EXCEPT ![c] = [title |-> t, avatar |-> i]]
       /\ \/ /\ ~Taken(t, s)
             /\ GoTo(c, "inserting")
             /\ UNCHANGED twin
          \/ /\ \E r \in SubjectIds :
                  /\ status[r] = "deleted" /\ subject[r].title = t
                  /\ twin' = [twin EXCEPT ![c] = r]
             /\ GoTo(c, "purging")
  /\ UNCHANGED <<subject, linked, images, wish, pictured>>

(* Mutant: the twin is destroyed by its title. *)
AddPurgeByTitle(c) ==
  /\ pc[c] = "purging"
  /\ status' = [s \in SubjectIds |->
                  IF Stands(s) /\ subject[s].title = seen[c].title THEN "gone" ELSE status[s]]
  /\ subject' = [subject EXCEPT ![twin[c]] = NoRow]
  /\ linked' = linked \ {twin[c]}
  /\ cut' = cut \cup {twin[c]}
  /\ Continue(c, "inserting")
  /\ UNCHANGED <<images, shown, overlap>>

(* The soft-deleted twin is destroyed for good, and its links with it, but *)
(* not its picture.                                                        *)
AddPurge(c) ==
  /\ pc[c] = "purging"
  /\ status' = [status EXCEPT ![twin[c]] = "gone"]
  /\ subject' = [subject EXCEPT ![twin[c]] = NoRow]
  /\ linked' = linked \ {twin[c]}
  /\ cut' = cut \cup {twin[c]}
  /\ Continue(c, "inserting")
  /\ UNCHANGED <<images, shown, overlap>>

(* The row is inserted, unless its title is taken by now. *)
AddInsert(c) ==
  /\ pc[c] = "inserting"
  /\ IF Taken(seen[c].title, sid[c])
     THEN UNCHANGED <<status, subject, shown>>
     ELSE /\ status' = [status EXCEPT ![sid[c]] = "live"]
          /\ subject' = [subject EXCEPT ![sid[c]] = seen[c]]
          /\ shown' = [i \in Images |-> IF i = seen[c].avatar THEN sid[c] ELSE shown[i]]
  /\ Leave(c)
  /\ UNCHANGED <<linked, images, overlap, cut>>

(***************************************************************************)
(* update                                                                  *)
(***************************************************************************)

(* Mutant: an avatar that is sent again unchanged counts as a new one. *)
ChangeReadAlways(c) ==
  /\ pc[c] = "idle"
  /\ \E s \in SubjectIds, t \in Titles, i \in Images \cup {Null} :
       /\ i \in Unused \cup {Null, subject[s].avatar}
       /\ ReadSubject(c, s)
       /\ wish' = [wish EXCEPT ![c] = [title |-> t, avatar |-> i]]
       /\ GoTo(c, IF subject[s].avatar # Null THEN "picturing" ELSE "saving")
  /\ UNCHANGED <<stored, shown, cut>>

(* The subject is read; a picture that is to be replaced goes first. *)
ChangeRead(c) ==
  /\ pc[c] = "idle"
  /\ \E s \in SubjectIds, t \in Titles, i \in Images \cup {Null} :
       /\ i \in Unused \cup {Null, subject[s].avatar}
       /\ ReadSubject(c, s)
       /\ wish' = [wish EXCEPT ![c] = [title |-> t, avatar |-> i]]
       /\ GoTo(c, IF subject[s].avatar \notin {i, Null} THEN "picturing" ELSE "saving")
  /\ UNCHANGED <<stored, shown, cut>>

(* deleteByUrl of the picture that was read. *)
ChangePicture(c) ==
  /\ pc[c] = "picturing"
  /\ images' = images \ {seen[c].avatar}
  /\ Continue(c, "saving")
  /\ UNCHANGED <<status, subject, linked, pictured>>

(* instance.update: of the new values, those that differ from what the     *)
(* instance read are written; a row that is gone is not.                   *)
Changed(is, read, new) == IF new = read THEN is ELSE new
Written(s, read, new) ==
  [title  |-> Changed(subject[s].title, read.title, new.title),
   avatar |-> Changed(subject[s].avatar, read.avatar, new.avatar)]

Replaces(c) == wish[c].avatar # seen[c].avatar

(* Mutant: the save writes the whole row back. *)
ChangeSaveWhole(c) ==
  /\ pc[c] = "saving"
  /\ LET s == sid[c] IN
       /\ subject' = IF status[s] = "live" THEN [subject EXCEPT ![s] = wish[c]] ELSE subject
       /\ shown' = [i \in Images |-> IF status[s] = "live" /\ i = wish[c].avatar
                                     THEN s ELSE shown[i]]
  /\ Leave(c)
  /\ UNCHANGED <<status, linked, images, overlap, cut>>

(* The row is saved, unless the new title is taken: then the picture that  *)
(* was to be replaced is gone already.                                     *)
ChangeSave(c) ==
  /\ pc[c] = "saving"
  /\ LET s == sid[c]
         refused == /\ status[s] = "live" /\ wish[c].title # seen[c].title
                    /\ Taken(wish[c].title, s)
         saved == ~refused /\ status[s] = "live"
     IN  /\ subject' = IF saved THEN [subject EXCEPT ![s] = Written(s, seen[c], wish[c])]
                                ELSE subject
         /\ shown' = [i \in Images |-> IF saved /\ Replaces(c) /\ i = wish[c].avatar
                                       THEN s ELSE shown[i]]
         /\ cut' = IF refused /\ Replaces(c) THEN cut \cup {s} ELSE cut
  /\ Leave(c)
  /\ UNCHANGED <<status, linked, images, overlap>>

(***************************************************************************)
(* linkOne, unlinkOne: one statement each                                  *)
(***************************************************************************)

(* The student is linked to a subject whose row is there, once. *)
Link(c) ==
  /\ pc[c] = "idle"
  /\ \E s \in SubjectIds \ linked : Stands(s) /\ linked' = linked \cup {s}
  /\ GoTo(c, "done")
  /\ UNCHANGED <<status, subject, images, working, pictured>>

Unlink(c) ==
  /\ pc[c] = "idle"
  /\ \E s \in linked : linked' = linked \ {s}
  /\ GoTo(c, "done")
  /\ UNCHANGED <<status, subject, images, working, pictured>>

SubjectStep(c) ==
  \/ AddFind(c) \/ AddInsert(c)
  \/ ChangeRead(c) \/ ChangePicture(c) \/ ChangeSave(c)
  \/ Link(c) \/ Unlink(c)
=============================================================================
