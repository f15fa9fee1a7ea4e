------------------------------ MODULE Classes ------------------------------
(***************************************************************************)
(* The tutor's live classes and private lessons: scheduling one, enrolling *)
(* and joining, moving and removing it, the sweep that takes its room down *)
(* when it is over, and the purge of rooms and classes to come.            *)
(*                                                                         *)
(*   classes/services/classes.service.ts     ClassesService                *)
(*   classes/entities/class.entity.ts        title: unique                 *)
(*   classes/models/class-enrollment.model.ts   user and class: unique     *)
(*   rooms/services/rooms.service.ts         composed from VideoRooms      *)
(*                                                                         *)
(* There are no transactions.  Meeting tokens are what the provider makes  *)
(* of a room's name, and are called by it: a request for one is part of    *)
(* the wait for the next statement, and its failure a Stop there.  A class *)
(* and the hour its room is kept after it last one unit of time.           *)
(***************************************************************************)
EXTENDS VideoRooms

CONSTANTS
  Students,
  Tutor,     \* who classes are scheduled for
  Admin,
  Titles,
  Starts,    \* when classes may be scheduled
  MaxTime,   \* bound on the time that passes
  Blank      \* the empty string, the owner token in a class room's row

Users == Students \cup {Tutor, Admin}

ASSUME ClassesAssumption ==
  /\ Tutor \notin Students /\ Admin \notin Students /\ Tutor # Admin
  /\ Null \notin Users /\ Null \notin Titles
  /\ MaxTime \in Nat \ {0} /\ Starts \subseteq 1..MaxTime
  /\ Blank \notin Rooms /\ Blank # Null

VARIABLES
  now,
  state,    \* of each class: none, named (being created), live, gone
  class,    \* its row: title, tutor, start, room, url, owner (the owner's token)
  enrolled, \* its column enrolledStudents
  private,  \* its column isPrivate
  seats,    \* class_enrollments: the token of a user's row, Null without row
  cid,      \* the class each call works on
  who,      \* the user it serves
  seen,     \* the class row it has read, or is to insert
  list,     \* the enrolledStudents it has read
  wish,     \* the class row an update wants
  token,    \* the token it has answered
  job,      \* what the call is for
  invited,  \* history: who asked for the lesson or enrolled by themselves
  crossed,  \* history: classes where a list was saved that another call had
            \* read, and was going to save
  moved,    \* history: classes moved while somebody held the way to the room,
            \* or a token was saved; or to a room without a row; or given
            \* to another tutor after a move
  retimed,  \* history: classes put to another time
  reused    \* history: rooms that classes were moved to

rooms   == <<hosted, row, key, left>>
classes == <<state, class, enrolled, private, seats>>
held    == <<cid, who, seen, list, wish, token, job>>
ghosts  == <<invited, crossed, moved, retimed, reused>>
cvars   == <<now, classes, held, ghosts>>
vars    == <<hosted, row, pc, room, key, left, stray, cvars>>

Jobs  == {"create", "request", "enroll", "join", "sweep", "update", "remove"}
Row   == [title : Titles \cup {Null}, tutor : Users \cup {Null}, start : 0..MaxTime,
          room : Rooms \cup {Null}, url : Rooms \cup {Null},
          owner : Rooms \cup {Null, Blank}]
NoRow == [title |-> Null, tutor |-> Null, start |-> 0,
          room |-> Null, url |-> Null, owner |-> Null]

CreatePlaces == {"inserting", "checking", "scheduling", "seating"}
EnrollPlaces == {"entering", "listing", "filing"}
JoinPlaces   == {"saving", "finding"}
SweepPlaces  == {"unhosting", "clearing"}
OtherPlaces  == {"altering", "writing", "removing", "destroying"}
Places == {"idle", "done", "answered"} \cup RoomPlaces \cup CreatePlaces
            \cup EnrollPlaces \cup JoinPlaces \cup SweepPlaces \cup OtherPlaces

ClassesTypeOK ==
  /\ hosted \subseteq Rooms
  /\ row \in [Rooms -> Calls \cup {Earlier, Null}]
  /\ pc \in [Calls -> Places]
  /\ room \in [Calls -> Rooms \cup {Null}]
  /\ key \in [Calls -> Calls \cup {Earlier, Null}]
  /\ left \in [Calls -> SUBSET Rooms]
  /\ stray \subseteq Rooms
  /\ now \in 0..MaxTime
  /\ state \in [ClassIds -> {"none", "named", "live", "gone"}]
  /\ class \in [ClassIds -> Row]
  /\ enrolled \in [ClassIds -> SUBSET Users]
  /\ private \in [ClassIds -> BOOLEAN]
  /\ seats \in [ClassIds -> [Users -> Rooms \cup {Null}]]
  /\ cid \in [Calls -> ClassIds \cup {Null}]
  /\ who \in [Calls -> Users \cup {Null}]
  /\ seen \in [Calls -> Row] /\ wish \in [Calls -> Row]
  /\ list \in [Calls -> SUBSET Users]
  /\ token \in [Calls -> Rooms \cup {Null, Blank}]
  /\ job \in [Calls -> Jobs \cup {Null}]
  /\ invited \in [ClassIds -> SUBSET Users]
  /\ crossed \subseteq ClassIds /\ moved \subseteq ClassIds
  /\ retimed \subseteq ClassIds /\ reused \subseteq Rooms

NoSeats == [u \in Users |-> Null]

(* A class there is already: nobody else has its title, its room is there, *)
(* the tutor has a seat, and so has the guest of a private lesson, if it   *)
(* is one of the students.                                                 *)
(* To bound the cases, when every class is there none is a private lesson, *)
(* and the administrators' rooms are there too.                            *)
Begun(k, title) == [title |-> title, tutor |-> Tutor, start |-> 1,
                    room |-> k, url |-> k, owner |-> k]

Init ==
  /\ now = 0
  /\ \E old \in SUBSET ClassIds, guest \in {{}} \cup {{u} : u \in Students}, lesson \in BOOLEAN :
     \E title \in [old -> Titles] :
       /\ \A j, k \in old : title[j] = title[k] => j = k
       /\ hosted = IF old = ClassIds THEN Rooms ELSE old
       /\ row = [r \in Rooms |-> IF r \in hosted THEN Earlier ELSE Null]
       /\ state = [k \in ClassIds |-> IF k \in old THEN "live" ELSE "none"]
       /\ class = [k \in ClassIds |-> IF k \in old THEN Begun(k, title[k]) ELSE NoRow]
       /\ seats = [k \in ClassIds |-> [u \in Users |->
                     IF k \in old /\ u \in guest \cup {Tutor} THEN k ELSE Null]]
       /\ enrolled = [k \in ClassIds |-> IF k \in old THEN guest ELSE {}]
       /\ guest # {} => lesson
       /\ lesson => old # ClassIds
       /\ private = [k \in ClassIds |-> k \in old /\ lesson]
       /\ invited = [k \in ClassIds |-> IF k \in old THEN guest ELSE {}]
  /\ pc = [c \in Calls |-> "idle"]
  /\ room = [c \in Calls |-> Null]
  /\ key = [c \in Calls |-> Null]
  /\ left = [c \in Calls |-> {}]
  /\ cid = [c \in Calls |-> Null]
  /\ who = [c \in Calls |-> Null]
  /\ seen = [c \in Calls |-> NoRow]
  /\ wish = [c \in Calls |-> NoRow]
  /\ list = [c \in Calls |-> {}]
  /\ token = [c \in Calls |-> Null]
  /\ job = [c \in Calls |-> Null]
  /\ stray = {} /\ crossed = {} /\ moved = {} /\ retimed = {} /\ reused = {}

InFlight(c) == pc[c] \notin {"idle", "done", "answered"}

(* Calls that have read or inserted the row of class k and will use it. *)
Holding(k) ==
  {c \in Calls : InFlight(c) /\ cid[c] = k /\ pc[c] \notin CreatePlaces \ {"seating"}}

(* Calls that have read the list of class k and may save it.  Of those     *)
(* that stand before the sweep only the joins do.                          *)
Extending(k) ==
  {c \in Calls : cid[c] = k /\ \/ pc[c] \in {"finding", "listing"}
                               \/ pc[c] = "unhosting" /\ job[c] = "join"}

(* The call returns or throws, and what it held is garbage. *)
End(c) ==
  /\ GoTo(c, "done")
  /\ cid' = [cid EXCEPT ![c] = Null]
  /\ who' = [who EXCEPT ![c] = Null]
  /\ seen' = [seen EXCEPT ![c] = NoRow]
  /\ wish' = [wish EXCEPT ![c] = NoRow]
  /\ list' = [list EXCEPT ![c] = {}]
  /\ token' = [token EXCEPT ![c] = Null]
  /\ job' = [job EXCEPT ![c] = Null]

(* The call awaits its next request or statement. *)
Continue(c, p) == GoTo(c, p) /\ UNCHANGED held

(* Join information is answered: the room and the url of this row, and     *)
(* this token.                                                             *)
Answer(c, k, r, t) ==
  /\ GoTo(c, "answered")
  /\ cid' = [cid EXCEPT ![c] = k]
  /\ token' = [token EXCEPT ![c] = t]
  /\ seen' = [seen EXCEPT ![c] = [NoRow EXCEPT !.room = r.room, !.url = r.url]]
  /\ who' = [who EXCEPT ![c] = Null]
  /\ list' = [list EXCEPT ![c] = {}]
  /\ job' = [job EXCEPT ![c] = Null]
  /\ UNCHANGED wish

(* findByPk of a class for a call of this kind and user.  Calls without a  *)
(* user have no use for the list.                                          *)
ReadClass(c, j, k, u) ==
  /\ state[k] = "live"
  /\ cid' = [cid EXCEPT ![c] = k]
  /\ who' = [who EXCEPT ![c] = u]
  /\ seen' = [seen EXCEPT ![c] = class[k]]
  /\ list' = [list EXCEPT ![c] = IF u = Null THEN {} ELSE enrolled[k]]
  /\ job' = [job EXCEPT ![c] = j]
  /\ UNCHANGED token

(* INSERT and UPDATE of a title: the index lets no two classes have one. *)
TitleFree(t, k) == \A j \in ClassIds \ {k} : state[j] = "live" => class[j].title # t

(* instance.update: of the new values, those that differ from what the     *)
(* instance read are written; a row that is gone is not.                   *)
Changed(is, read, new) == IF new = read THEN is ELSE new
Written(k, read, new) ==
  [title |-> Changed(class[k].title, read.title, new.title),
   tutor |-> Changed(class[k].tutor, read.tutor, new.tutor),
   start |-> Changed(class[k].start, read.start, new.start),
   room  |-> Changed(class[k].room, read.room, new.room),
   url   |-> Changed(class[k].url, read.url, new.url),
   owner |-> Changed(class[k].owner, read.owner, new.owner)]

WriteRow(k, new) ==
  class' = IF state[k] = "live" THEN [class EXCEPT ![k] = new] ELSE class

(***************************************************************************)
(* create and requestPrivateLesson                                         *)
(***************************************************************************)

(* The start is to come.  The room is made first, under its new name, and  *)
(* then its row.  A request names the student, who gets a private lesson.  *)
CreatePost(c) ==
  /\ pc[c] = "idle"
  /\ \E k \in ClassIds, t \in Titles, s \in Starts, u \in Students \cup {Null} :
       /\ state[k] = "none"
       /\ s > now
       /\ state' = [state EXCEPT ![k] = "named"]
       /\ hosted' = hosted \cup {k}
       /\ stray' = IF Purging THEN stray \cup {k} ELSE stray
       /\ cid' = [cid EXCEPT ![c] = k]
       /\ who' = [who EXCEPT ![c] = u]
       /\ job' = [job EXCEPT ![c] = IF u = Null THEN "create" ELSE "request"]
       /\ seen' = [seen EXCEPT ![c] = [title |-> t, tutor |-> Tutor, start |-> s,
                                       room |-> k, url |-> k, owner |-> k]]
  /\ GoTo(c, "inserting")
  /\ UNCHANGED <<row, room, key, left, now, class, enrolled, private, seats,
                 list, wish, token, ghosts>>

CreateRoomRow(c) ==
  /\ pc[c] = "inserting"
  /\ row' = [row EXCEPT ![cid[c]] = c]
  /\ Continue(c, "checking")
  /\ UNCHANGED <<hosted, room, key, left, stray, now, classes, ghosts>>

(* A title that is taken ends the call, and leaves room and row behind. *)
CreateCheck(c) ==
  /\ pc[c] = "checking"
  /\ IF TitleFree(seen[c].title, cid[c])
     THEN Continue(c, "scheduling") /\ UNCHANGED stray
     ELSE End(c) /\ stray' = stray \cup {cid[c]}
  /\ UNCHANGED <<rooms, room, now, classes, ghosts>>

(* The class is inserted, unless another has its title by now. *)
CreateInsert(c) ==
  /\ pc[c] = "scheduling"
  /\ LET k == cid[c] IN
       IF TitleFree(seen[c].title, k)
       THEN /\ state' = [state EXCEPT ![k] = "live"]
            /\ class' = [class EXCEPT ![k] = seen[c]]
            /\ private' = [private EXCEPT ![k] = job[c] = "request"]
            /\ invited' = [invited EXCEPT ![k] = {who[c]} \ {Null}]
            /\ Continue(c, "seating")
            /\ UNCHANGED stray
       ELSE /\ stray' = stray \cup {k}
            /\ End(c)
            /\ UNCHANGED <<state, class, private, invited>>
  /\ UNCHANGED <<rooms, room, now, enrolled, seats, crossed, moved, retimed, reused>>

(* The enrolment of the tutor the class was scheduled for: refused if the  *)
(* class is gone or has it already.                                        *)
(* A request goes on to enrol the student.                                 *)
CreateSeat(c) ==
  /\ pc[c] = "seating"
  /\ LET k == cid[c] IN
       IF state[k] = "live" /\ seats[k][Tutor] = Null
       THEN /\ seats' = [seats EXCEPT ![k] = [@ EXCEPT ![Tutor] = seen[c].owner]]
            /\ IF job[c] = "request" THEN Continue(c, "entering") ELSE End(c)
       ELSE End(c) /\ UNCHANGED seats
  /\ UNCHANGED <<rooms, room, stray, now, state, class, enrolled, private, ghosts>>

(***************************************************************************)
(* enroll                                                                  *)
(***************************************************************************)

(* The class is read, by a call of its own or for a request.  (That an     *)
(* administrator may enrol as well is left out: nothing tells one apart.)  *)
EnrollRead(c) ==
  /\ \/ /\ pc[c] = "idle"
        /\ \E k \in ClassIds, u \in Users \ {Admin} :
             /\ ReadClass(c, "enroll", k, u)
             /\ invited' = [invited EXCEPT ![k] = @ \cup {u}]
        /\ GoTo(c, "listing")
        /\ UNCHANGED wish
     \/ /\ pc[c] = "entering"
        /\ ReadClass(c, "request", cid[c], who[c])
        /\ GoTo(c, "listing")
        /\ UNCHANGED <<wish, invited>>
     \/ /\ pc[c] = "entering"
        /\ state[cid[c]] # "live"
        /\ End(c)
        /\ UNCHANGED invited
  /\ UNCHANGED <<rooms, room, stray, now, classes, crossed, moved, retimed, reused>>

(* Mutant: the list is saved after the enrolment is inserted. *)
SaveListLate(c) ==
  /\ pc[c] = "listing"
  /\ GoTo(c, "filing")
  /\ UNCHANGED <<rooms, room, stray, now, classes, held, ghosts>>

(* The user is added to the list that was read, and the list saved whole:  *)
(* unless the user is in it, or the class is gone.                         *)
SaveList(c) ==
  /\ pc[c] = "listing"
  /\ LET k == cid[c]
         saved == who[c] \notin list[c] /\ state[k] = "live"
     IN  /\ enrolled' = IF saved THEN [enrolled EXCEPT ![k] = list[c] \cup {who[c]}]
                                 ELSE enrolled
         /\ crossed' = IF saved /\ Extending(k) # {c} THEN crossed \cup {k} ELSE crossed
  /\ Continue(c, "filing")
  /\ UNCHANGED <<rooms, room, stray, now, state, class, private, seats,
                 invited, moved, retimed, reused>>

(* Mutant: the enrolment's token is for the room the class is in by now. *)
FileNewRoom(c) ==
  /\ pc[c] = "filing"
  /\ LET k == cid[c] IN
       /\ state[k] = "live" /\ seats[k][who[c]] = Null /\ seen[c].room # Null
       /\ seats' = [seats EXCEPT ![k] = [@ EXCEPT ![who[c]] = class[k].owner]]
       /\ IF job[c] = "join" THEN Answer(c, k, seen[c], class[k].owner) ELSE End(c)
  /\ UNCHANGED <<rooms, room, stray, now, state, class, enrolled, private, ghosts>>

(* createEnrollment: refused if the class is gone, the user has a seat, or *)
(* the class had no room.  A join is answered, an enrolment is through.    *)
File(c) ==
  /\ pc[c] = "filing"
  /\ LET k == cid[c] IN
       IF state[k] = "live" /\ seats[k][who[c]] = Null /\ seen[c].room # Null
       THEN /\ seats' = [seats EXCEPT ![k] = [@ EXCEPT ![who[c]] = seen[c].room]]
            /\ IF job[c] = "join" THEN Answer(c, k, seen[c], seen[c].room) ELSE End(c)
       ELSE End(c) /\ UNCHANGED seats
  /\ UNCHANGED <<rooms, room, stray, now, state, class, enrolled, private, ghosts>>

(***************************************************************************)
(* getJoinInfo, cleanupClassRoomIfExpired, cleanupExpiredRooms             *)
(***************************************************************************)

Expired(r) == r.room # Null /\ now >= r.start + 1

(* The token of who is the tutor now is in the row, whoever was the tutor  *)
(* when it was made; an administrator's is a new one.                      *)
HostToken(u, r) == IF u = r.tutor THEN r.owner ELSE r.room

(* Who has read a row with room and url is answered at once; but a new     *)
(* token of the tutor's is saved first, and a student is looked up.        *)
AtOnce(u, r) == IF u = r.tutor THEN r.owner \notin {Null, Blank} ELSE u = Admin
Onward(u, r) == IF u = r.tutor THEN "saving" ELSE "finding"

(* The class is read, and if it has expired, its room is swept first. *)
JoinRead(c) ==
  /\ pc[c] = "idle"
  /\ \E k \in ClassIds, u \in Users :
       LET r == class[k] IN
       \/ /\ Expired(r)
          /\ ReadClass(c, "join", k, u)
          /\ GoTo(c, "unhosting")
       \/ /\ ~Expired(r) /\ r.room # Null /\ r.url # Null /\ ~AtOnce(u, r)
          /\ ReadClass(c, "join", k, u)
          /\ GoTo(c, Onward(u, r))
       \/ /\ state[k] = "live"
          /\ ~Expired(r) /\ r.room # Null /\ r.url # Null /\ AtOnce(u, r)
          /\ Answer(c, k, r, HostToken(u, r))
  /\ UNCHANGED <<rooms, room, stray, now, classes, wish, ghosts>>

(* Mutant: the sweep goes by the time a class starts. *)
SweepReadByStart(c) ==
  /\ pc[c] = "idle"
  /\ \E k \in ClassIds :
       /\ class[k].room # Null /\ now >= class[k].start
       /\ ReadClass(c, "sweep", k, Null)
  /\ GoTo(c, "unhosting")
  /\ UNCHANGED <<rooms, room, stray, now, classes, wish, ghosts>>

(* A list of classes sweeps those that have expired: here one of them. *)
SweepRead(c) ==
  /\ pc[c] = "idle"
  /\ \E k \in ClassIds :
       /\ Expired(class[k])
       /\ ReadClass(c, "sweep", k, Null)
  /\ GoTo(c, "unhosting")
  /\ UNCHANGED <<rooms, room, stray, now, classes, wish, ghosts>>

(* Mutant: a refusal of the provider does not keep the row. *)
SweepUnhostAnyway(c) ==
  /\ pc[c] = "unhosting"
  /\ Unhost(seen[c].room) \/ UNCHANGED hosted
  /\ Continue(c, "clearing")
  /\ UNCHANGED <<row, room, key, left, stray, now, classes, ghosts>>

(* The room is deleted at the provider.  If it refuses, the row stays as   *)
(* it is, and a join goes on with it.                                      *)
SweepUnhost(c) ==
  /\ pc[c] = "unhosting"
  /\ LET u == who[c]  r == seen[c] IN
       \/ Unhost(r.room) /\ Continue(c, "clearing")
       \/ /\ job[c] = "join" /\ r.url # Null /\ AtOnce(u, r)
          /\ Answer(c, cid[c], r, HostToken(u, r))
          /\ UNCHANGED hosted
       \/ /\ job[c] = "join" /\ r.url # Null /\ ~AtOnce(u, r)
          /\ Continue(c, Onward(u, r))
          /\ UNCHANGED hosted
       \/ /\ job[c] = "sweep" \/ r.url = Null
          /\ End(c)
          /\ UNCHANGED hosted
  /\ UNCHANGED <<row, room, key, left, stray, now, classes, ghosts>>

(* Room, url and token are set to null, whichever they are by now; a join  *)
(* is refused: the class has ended.                                        *)
SweepClear(c) ==
  /\ pc[c] = "clearing"
  /\ LET k == cid[c] IN
       /\ WriteRow(k, Written(k, seen[c], [seen[c] EXCEPT !.room = Null, !.url = Null,
                                                         !.owner = Null]))
       /\ stray' = IF class[k].room = seen[c].room THEN stray
                   ELSE stray \cup ({class[k].room} \ {Null})
  /\ End(c)
  /\ UNCHANGED <<rooms, room, now, state, enrolled, private, seats, ghosts>>

(* The tutor's new token is saved in the row. *)
SaveOwner(c) ==
  /\ pc[c] = "saving"
  /\ WriteRow(cid[c], [class[cid[c]] EXCEPT !.owner = seen[c].room])
  /\ Answer(c, cid[c], seen[c], seen[c].room)
  /\ UNCHANGED <<rooms, room, stray, now, state, enrolled, private, seats, ghosts>>

(* Mutant: a private lesson enrols whoever joins. *)
FindSeatOpen(c) ==
  /\ pc[c] = "finding"
  /\ LET seat == seats[cid[c]][who[c]] IN
       IF seat # Null THEN Answer(c, cid[c], seen[c], seat) ELSE Continue(c, "listing")
  /\ UNCHANGED <<rooms, room, stray, now, classes, ghosts>>

(* A student joins with the seat's token; without a seat, and on the list  *)
(* of a private lesson or for a class, by being enrolled.                  *)
FindSeat(c) ==
  /\ pc[c] = "finding"
  /\ LET k    == cid[c]
         seat == seats[k][who[c]]
     IN  \/ seat # Null /\ Answer(c, cid[c], seen[c], seat)
         \/ /\ seat = Null
            /\ private[k] => who[c] \in list[c]
            /\ Continue(c, "listing")
         \/ /\ seat = Null
            /\ private[k] /\ who[c] \notin list[c]
            /\ End(c)
  /\ UNCHANGED <<rooms, room, stray, now, classes, ghosts>>

(***************************************************************************)
(* update                                                                  *)
(***************************************************************************)

(* The class is read.  An update changes its room, its title, its time or  *)
(* its tutor, who may be any user there is.                                *)
UpdateRead(c) ==
  /\ pc[c] = "idle"
  /\ \E k \in ClassIds :
       /\ ReadClass(c, "update", k, Null)
       /\ \/ /\ \E r \in Rooms : room' = [room EXCEPT ![c] = r]
             /\ GoTo(c, "altering")
             /\ UNCHANGED wish
          \/ /\ \E t \in Titles \ {class[k].title} :
                  wish' = [wish EXCEPT ![c] = [class[k] EXCEPT !.title = t]]
             /\ GoTo(c, "altering")
             /\ UNCHANGED room
          \/ /\ \E s \in Starts :
                  wish' = [wish EXCEPT ![c] = [class[k] EXCEPT !.start = s]]
             /\ GoTo(c, "writing")
             /\ UNCHANGED room
          \/ /\ \E u \in Users :
                  wish' = [wish EXCEPT ![c] = [class[k] EXCEPT !.tutor = u]]
             /\ GoTo(c, "writing")
             /\ UNCHANGED room
  /\ UNCHANGED <<rooms, stray, now, classes, ghosts>>

(* Mutant: the owner's token is not copied from the room's row. *)
UpdateAlterKeepsOwner(c) ==
  /\ pc[c] = "altering" /\ wish[c] = NoRow
  /\ wish' = [wish EXCEPT ![c] =
                 IF row[room[c]] = Null
                 THEN [seen[c] EXCEPT !.room = room[c]]
                 ELSE [seen[c] EXCEPT !.room = room[c], !.url = room[c]]]
  /\ GoTo(c, "writing")
  /\ room' = [room EXCEPT ![c] = Null]
  /\ UNCHANGED <<rooms, stray, now, classes, cid, who, seen, list, token, job, ghosts>>

(* A room with a row brings its url and its owner's token, which for the   *)
(* room drawn for a class is empty; a name without a row is written as it  *)
(* is.  A title must be free.                                              *)
UpdateAlter(c) ==
  /\ pc[c] = "altering"
  /\ \/ /\ wish[c] = NoRow
        /\ LET r == room[c] IN
             wish' = [wish EXCEPT ![c] =
                        IF row[r] = Null
                        THEN [seen[c] EXCEPT !.room = r]
                        ELSE [seen[c] EXCEPT !.room = r, !.url = r,
                                !.owner = IF r \in ClassIds THEN Blank ELSE r]]
        /\ GoTo(c, "writing")
        /\ room' = [room EXCEPT ![c] = Null]
        /\ UNCHANGED <<cid, who, seen, list, token, job>>
     \/ /\ wish[c] # NoRow
        /\ UNCHANGED room
        /\ IF TitleFree(wish[c].title, Null) THEN Continue(c, "writing") ELSE End(c)
  /\ UNCHANGED <<rooms, stray, now, classes, ghosts>>

(* Who holds the way to a class's room: the other calls that have its row, *)
(* and who joins by a seat: all but the tutor.                             *)
Bound(k, c) == Holding(k) # {c} \/ \E u \in Users \ {class[k].tutor} : seats[k][u] # Null

(* A tutor who gives the class away joins by the seat, which may be of a   *)
(* room before.                                                            *)
Unseated(k, new) ==
  /\ new.tutor # class[k].tutor
  /\ seats[k][class[k].tutor] \notin {Null, new.room}

(* The row is written, unless the title has been taken by now. *)
UpdateWrite(c) ==
  /\ pc[c] = "writing"
  /\ LET k   == cid[c]
         new == Written(k, seen[c], wish[c])
         old == class[k]
         effect == state[k] = "live"
                     /\ (wish[c].title = seen[c].title \/ TitleFree(wish[c].title, k))
     IN  IF effect
         THEN /\ WriteRow(k, new)
              /\ stray' = IF new.room # old.room THEN stray \cup ({old.room} \ {Null})
                                                 ELSE stray
              /\ reused' = IF new.room # old.room THEN reused \cup ({new.room} \ {Null})
                                                 ELSE reused
              /\ moved' = IF \/ /\ wish[c].room # Null
                                /\ wish[c].room # seen[c].room \/ wish[c].owner # seen[c].owner
                                /\ \/ Bound(k, c) \/ wish[c].url # wish[c].room
                                   \/ old.owner # seen[c].owner
                             \/ Unseated(k, new)
                          THEN moved \cup {k} ELSE moved
              /\ retimed' = IF /\ new.start # old.start
                               /\ \E d \in Holding(k) : pc[d] \in SweepPlaces
                            THEN retimed \cup {k} ELSE retimed
         ELSE UNCHANGED <<class, stray, reused, moved, retimed>>
  /\ End(c)
  /\ UNCHANGED <<rooms, room, now, state, enrolled, private, seats, invited, crossed>>

(***************************************************************************)
(* remove, and what a purge does to classes                                *)
(***************************************************************************)

(* Mutant: the class is removed and its room left to expire. *)
RemoveReadKeepsRoom(c) ==
  /\ pc[c] = "idle"
  /\ \E k \in ClassIds : ReadClass(c, "remove", k, Null)
  /\ GoTo(c, "destroying")
  /\ UNCHANGED <<rooms, room, stray, now, classes, wish, ghosts>>

RemoveRead(c) ==
  /\ pc[c] = "idle"
  /\ \E k \in ClassIds : ReadClass(c, "remove", k, Null)
  /\ GoTo(c, "removing")
  /\ UNCHANGED <<rooms, room, stray, now, classes, wish, ghosts>>

(* The room is deleted at the provider, whose refusal is only logged. *)
RemoveUnhost(c) ==
  /\ pc[c] = "removing"
  /\ \/ Unhost(seen[c].room) /\ UNCHANGED stray
     \/ stray' = stray \cup ({seen[c].room} \ {Null}) /\ UNCHANGED hosted
  /\ Continue(c, "destroying")
  /\ UNCHANGED <<row, room, key, left, now, classes, ghosts>>

(* Rows of these classes are deleted, and with them their enrolments. *)
Destroy(ks) ==
  /\ state' = [k \in ClassIds |-> IF k \in ks THEN "gone" ELSE state[k]]
  /\ class' = [k \in ClassIds |-> IF k \in ks THEN NoRow ELSE class[k]]
  /\ enrolled' = [k \in ClassIds |-> IF k \in ks THEN {} ELSE enrolled[k]]
  /\ private' = [k \in ClassIds |-> k \notin ks /\ private[k]]
  /\ seats' = [k \in ClassIds |-> IF k \in ks THEN NoSeats ELSE seats[k]]

RemoveRow(c) ==
  /\ pc[c] = "destroying"
  /\ Destroy({cid[c]})
  /\ stray' = IF class[cid[c]].room # seen[c].room
              THEN stray \cup ({class[cid[c]].room} \ {Null}) ELSE stray
  /\ End(c)
  /\ UNCHANGED <<rooms, room, now, ghosts>>

(* The purge ends with the classes that are yet to start. *)
PurgeClasses(c) ==
  /\ pc[c] = "dismissing"
  /\ Destroy({k \in ClassIds : state[k] = "live" /\ class[k].start > now})
  /\ GoTo(c, "done")
  /\ UNCHANGED <<rooms, room, stray, now, held, ghosts>>

-----------------------------------------------------------------------------

(* An awaited request or statement fails, or the process ends: the call    *)
(* ends there, and a room it was making is left behind.                    *)
Stop(c) ==
  /\ InFlight(c)
  /\ stray' = CASE pc[c] \in {"equipping", "recording"} -> stray \cup {room[c]}
                 [] pc[c] \in CreatePlaces \ {"seating"} -> stray \cup {cid[c]}
                 [] OTHER -> stray
  /\ left' = [left EXCEPT ![c] = {}]
  /\ room' = [room EXCEPT ![c] = Null]
  /\ key' = [key EXCEPT ![c] = Null]
  /\ End(c)
  /\ UNCHANGED <<hosted, row, now, classes, ghosts>>

Tick ==
  /\ now < MaxTime
  /\ now' = now + 1
  /\ UNCHANGED <<rooms, pc, room, stray, classes, held, ghosts>>

(* The server waits for the next call. *)
Quiet ==
  /\ \A c \in Calls : ~InFlight(c)
  /\ UNCHANGED vars

Create(c) == \/ CreatePost(c) \/ CreateRoomRow(c) \/ CreateCheck(c)
             \/ CreateInsert(c) \/ CreateSeat(c)
Enroll(c) == EnrollRead(c) \/ SaveList(c) \/ File(c)
Join(c)   == JoinRead(c) \/ SaveOwner(c) \/ FindSeat(c)
Sweep(c)  == SweepRead(c) \/ SweepUnhost(c) \/ SweepClear(c)
Update(c) == UpdateRead(c) \/ UpdateAlter(c) \/ UpdateWrite(c)
Remove(c) == RemoveRead(c) \/ RemoveUnhost(c) \/ RemoveRow(c) \/ PurgeClasses(c)

Next ==
  \/ \E c \in Calls :
       \/ RoomsStep(c) /\ UNCHANGED cvars
       \/ Create(c) \/ Enroll(c) \/ Join(c) \/ Sweep(c) \/ Update(c) \/ Remove(c)
       \/ Stop(c)
  \/ Tick
  \/ Quiet

Spec == Init /\ [][Next]_vars
-----------------------------------------------------------------------------

(***************************************************************************)
(* Properties.                                                             *)
(***************************************************************************)

(* Whoever has a seat in a class is on its list, which is what tells the   *)
(* student's classes and lets a retried join into a private lesson: after  *)
(* failures, retries, moves, sweeps.  Only a list saved over another that  *)
(* had been read and not saved yet can lose a name.                        *)
SeatsListed ==
  \A k \in ClassIds \ crossed, u \in Students :
    seats[k][u] # Null => u \in enrolled[k]

(* "Private lessons must not auto-enrol strangers" (classes.service.ts):   *)
(* on the list of a private lesson, and in its seats, are only the tutor   *)
(* it was scheduled for, who keeps the seat when it is given to another,   *)
(* the student who asked for it and who enrolled expressly.  Nobody gets   *)
(* in by being made its tutor, or by joining while it changes hands.       *)
PrivateSealed ==
  \A k \in ClassIds, u \in Users :
    /\ private[k]
    /\ u \in enrolled[k] \/ seats[k][u] # Null
    => u \in invited[k] \cup {Tutor}

(* Who is told to join a room is given a token for that room.  Unless the  *)
(* class was moved after somebody was given a seat, or while somebody was  *)
(* on the way to one or the tutor's token was saved, or to a name that has *)
(* no row, or was given to another tutor after its move: seats, snapshots  *)
(* and the row keep tokens of the room before.                             *)
JoinTokenFitsRoom ==
  \A c \in Calls : pc[c] = "answered" /\ cid[c] \notin moved =>
    token[c] = seen[c].room /\ seen[c].url = seen[c].room

(* No sweep takes a room away from a class that is to come, is on, or is   *)
(* in the hour after it.  Unless that class was put to another time while  *)
(* it was being swept, or was moved into the room of another class.        *)
SweepSparesLiveClasses ==
  \A c \in Calls, k \in ClassIds :
    /\ pc[c] = "unhosting"
    /\ state[k] = "live" /\ class[k].room = seen[c].room
    /\ now < class[k].start + 1
    => IF k = cid[c] THEN k \in retimed ELSE seen[c].room \in reused

(* A call has the provider's room and not yet its row. *)
Making(c, r) == \/ pc[c] \in {"equipping", "recording"} /\ room[c] = r
                \/ pc[c] = "inserting" /\ cid[c] = r

(* Every room the provider hosts has its row, is being made, or was left   *)
(* behind: by a call that stopped half-way, by one whose clean-up was      *)
(* refused or whose row came late, or by a purge that missed it.           *)
ProviderRoomKnown ==
  \A r \in hosted : \/ row[r] # Null
                    \/ r \in stray
                    \/ \E c \in Calls : Making(c, r)

(* Every room drawn for a class that the provider hosts is in the row of a *)
(* class, is being made, or was left behind as before, by a title that was *)
(* taken, by the class's move to another room, or by a refused removal.    *)
ProviderRoomUsed ==
  \A r \in hosted \cap ClassIds : \/ \E k \in ClassIds : class[k].room = r
                                \/ r \in stray
                                \/ \E c \in Calls : cid[c] = r /\ pc[c] \in CreatePlaces
=============================================================================
