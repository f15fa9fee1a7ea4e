--------------------------- MODULE ClassesProofs ---------------------------
(***************************************************************************)
(* Theorems about Classes for any number of calls, classes, rooms and      *)
(* students.                                                               *)
(***************************************************************************)
EXTENDS Classes, TLAPS

(* The type invariant by the part of the system it is about. *)
TablesOK ==
  /\ hosted \subseteq Rooms
  /\ row \in [Rooms -> Calls \cup {Earlier, Null}]
  /\ stray \subseteq Rooms
RoomCallsOK ==
  /\ room \in [Calls -> Rooms \cup {Null}]
  /\ key \in [Calls -> Calls \cup {Earlier, Null}]
  /\ left \in [Calls -> SUBSET Rooms]
ClassTablesOK ==
  /\ now \in 0..MaxTime
  /\ state \in [ClassIds -> {"none", "named", "live", "gone"}]
  /\ class \in [ClassIds -> Row]
  /\ enrolled \in [ClassIds -> SUBSET Users]
  /\ private \in [ClassIds -> BOOLEAN]
  /\ seats \in [ClassIds -> [Users -> Rooms \cup {Null}]]
HeldOK ==
  /\ pc \in [Calls -> Places]
  /\ cid \in [Calls -> ClassIds \cup {Null}]
  /\ who \in [Calls -> Users \cup {Null}]
  /\ seen \in [Calls -> Row]
  /\ wish \in [Calls -> Row]
  /\ list \in [Calls -> SUBSET Users]
  /\ token \in [Calls -> Rooms \cup {Null, Blank}]
  /\ job \in [Calls -> Jobs \cup {Null}]
GhostsOK ==
  /\ invited \in [ClassIds -> SUBSET Users]
  /\ crossed \subseteq ClassIds
  /\ moved \subseteq ClassIds
  /\ retimed \subseteq ClassIds
  /\ reused \subseteq Rooms

(* Which classes, users, rooms and rows a call holds where. *)
ClassPlaces == CreatePlaces \cup EnrollPlaces \cup JoinPlaces \cup SweepPlaces
                 \cup OtherPlaces \cup {"answered"}
NamedPlaces == {"posting", "equipping", "recording", "dropping", "erasing"}

HoldsAt(c) ==
  /\ pc[c] \in ClassPlaces => cid[c] \in ClassIds
  /\ pc[c] \in {"entering", "listing", "filing", "finding"} => who[c] \in Users
  /\ pc[c] = "unhosting" /\ job[c] = "join" => who[c] \in Users
  /\ pc[c] \in CreatePlaces /\ job[c] = "request" => who[c] \in Users
  /\ pc[c] \in NamedPlaces => room[c] \in Rooms
  /\ pc[c] = "altering" /\ wish[c] = NoRow => room[c] \in Rooms
  /\ pc[c] \in CreatePlaces => seen[c].owner \in Rooms

HoldsOK == \A c \in Calls : HoldsAt(c)

(* The parts make up the type invariant. *)
LEMMA Parts ==
  ClassesTypeOK <=> TablesOK /\ RoomCallsOK /\ ClassTablesOK /\ HeldOK /\ GhostsOK
BY DEF ClassesTypeOK, TablesOK, RoomCallsOK, ClassTablesOK, HeldOK, GhostsOK

(* Fields of rows have their types, and rows are made of them. *)
LEMMA RowFields ==
  ASSUME NEW r \in Row
  PROVE  /\ r.title \in Titles \cup {Null} /\ r.tutor \in Users \cup {Null}
         /\ r.start \in 0..MaxTime
         /\ r.room \in Rooms \cup {Null} /\ r.url \in Rooms \cup {Null}
         /\ r.owner \in Rooms \cup {Null, Blank}
BY DEF Row

(* The empty row is a row. *)
LEMMA NoRowType == NoRow \in Row
BY ClassesAssumption DEF NoRow, Row

(* What an update writes is a row. *)
LEMMA WrittenType ==
  ASSUME ClassTablesOK, NEW k \in ClassIds, NEW read \in Row, NEW new \in Row
  PROVE  Written(k, read, new) \in Row
BY RowFields DEF ClassTablesOK, Written, Changed, Row

(* The call's places tell the classes' calls from the rooms'. *)
LEMMA PlacesDiffer ==
  /\ ClassPlaces \subseteq Places /\ NamedPlaces \subseteq Places
  /\ RoomPlaces \subseteq Places /\ {"idle", "done", "answered"} \subseteq Places
  /\ ClassPlaces \cap ({"idle", "done"} \cup RoomPlaces) = {}
BY DEF Places, ClassPlaces, NamedPlaces, RoomPlaces, AddPlaces, DropPlaces, PurgePlaces,
       CreatePlaces, EnrollPlaces, JoinPlaces, SweepPlaces, OtherPlaces

(* What a call holds. *)
Untouched(d) ==
  /\ pc'[d] = pc[d] /\ cid'[d] = cid[d] /\ who'[d] = who[d] /\ seen'[d] = seen[d]
  /\ wish'[d] = wish[d] /\ list'[d] = list[d] /\ token'[d] = token[d]
  /\ job'[d] = job[d] /\ room'[d] = room[d] /\ key'[d] = key[d] /\ left'[d] = left[d]

(* A step of one call leaves what the others hold. *)
LEMMA OneCall ==
  ASSUME HeldOK, RoomCallsOK, NEW c \in Calls,
         \/ RoomsStep(c) /\ UNCHANGED cvars
         \/ Create(c) \/ Enroll(c) \/ Join(c) \/ Sweep(c) \/ Update(c) \/ Remove(c)
         \/ Stop(c)
  PROVE  \A d \in Calls : d # c => Untouched(d)
<1> USE DEF HeldOK, RoomCallsOK, Untouched, GoTo, held, rooms
<1>1. CASE RoomsStep(c) /\ UNCHANGED cvars
  BY <1>1 DEF RoomsStep, AddFind, AddPost, AddTokens, AddRow, DropFind, DropDelete,
              DropRow, PurgeList, PurgeDelete, PurgeRows, Proceed, Leave, cvars
<1>2. CASE Create(c)
  BY <1>2 DEF Create, CreatePost, CreateRoomRow, CreateCheck, CreateInsert, CreateSeat,
              Continue, End
<1>3. CASE Enroll(c)
  BY <1>3 DEF Enroll, EnrollRead, SaveList, File, Continue, End, ReadClass, Answer
<1>4. CASE Join(c)
  <2>1. CASE JoinRead(c)
    BY <2>1 DEF JoinRead, ReadClass, Answer
  <2>2. CASE SaveOwner(c)
    BY <2>2 DEF SaveOwner, Answer
  <2>3. CASE FindSeat(c)
    <3>1. \/ \E t : Answer(c, cid[c], seen[c], t)
          \/ Continue(c, "listing")
          \/ End(c)
      BY <2>3 DEF FindSeat
    <3>2. QED BY <2>3, <3>1 DEF FindSeat, Answer, Continue, End
  <2>4. QED BY <1>4, <2>1, <2>2, <2>3 DEF Join
<1>5. CASE Sweep(c)
  BY <1>5 DEF Sweep, SweepRead, SweepUnhost, SweepClear, Continue, End, ReadClass, Answer
<1>6. CASE Update(c)
  BY <1>6 DEF Update, UpdateRead, UpdateAlter, UpdateWrite, Continue, End, ReadClass
<1>7. CASE Remove(c)
  BY <1>7 DEF Remove, RemoveRead, RemoveUnhost, RemoveRow, PurgeClasses, Continue, End,
              ReadClass
<1>8. CASE Stop(c)
  BY <1>8 DEF Stop, End
<1>9. QED BY <1>1, <1>2, <1>3, <1>4, <1>5, <1>6, <1>7, <1>8

(* Ending, continuing, answering and reading keep the types of what a call *)
(* holds.                                                                  *)
LEMMA HeldTypes ==
  ASSUME HeldOK, ClassTablesOK, NEW c \in Calls
  PROVE  /\ End(c) => HeldOK' /\ HoldsAt(c)'
         /\ \A p \in Places : Continue(c, p) => HeldOK'
         /\ \A k \in ClassIds, r \in Row, t \in Rooms \cup {Null, Blank} :
              Answer(c, k, r, t) => HeldOK' /\ HoldsAt(c)'
         /\ \A j \in Jobs, k \in ClassIds, u \in Users \cup {Null}, p \in Places :
              ReadClass(c, j, k, u) /\ GoTo(c, p) /\ UNCHANGED wish => HeldOK'
<1> USE DEF HeldOK, GoTo
<1>1. ASSUME End(c) PROVE HeldOK' /\ HoldsAt(c)'
  <2>1. HeldOK'
    BY <1>1, NoRowType, PlacesDiffer DEF End
  <2>2. pc'[c] = "done"
    BY <1>1 DEF End
  <2>3. QED BY <2>1, <2>2, PlacesDiffer DEF HoldsAt, NamedPlaces, CreatePlaces
<1>2. ASSUME NEW p \in Places, Continue(c, p) PROVE HeldOK'
  BY <1>2 DEF Continue, held
<1>3. ASSUME NEW k \in ClassIds, NEW r \in Row, NEW t \in Rooms \cup {Null, Blank},
             Answer(c, k, r, t)
      PROVE  HeldOK' /\ HoldsAt(c)'
  <2>1. [NoRow EXCEPT !.room = r.room, !.url = r.url] \in Row
    BY RowFields, NoRowType DEF NoRow, Row
  <2>2. HeldOK'
    BY <1>3, <2>1, PlacesDiffer DEF Answer
  <2>3. pc'[c] = "answered" /\ cid'[c] = k
    BY <1>3 DEF Answer
  <2>4. QED BY <2>2, <2>3, PlacesDiffer DEF HoldsAt, NamedPlaces, CreatePlaces
<1>4. ASSUME NEW j \in Jobs, NEW k \in ClassIds, NEW u \in Users \cup {Null},
             NEW p \in Places, ReadClass(c, j, k, u), GoTo(c, p), UNCHANGED wish
      PROVE  HeldOK'
  BY <1>4 DEF ReadClass, ClassTablesOK
<1>5. QED BY <1>1, <1>2, <1>3, <1>4

(* What a room service's call holds is the room it has named. *)
LEMMA RoomHolds ==
  ASSUME NEW c \in Calls, pc'[c] \in RoomPlaces \cup {"done"},
         pc'[c] \in NamedPlaces => room'[c] \in Rooms
  PROVE  HoldsAt(c)'
BY DEF HoldsAt, RoomPlaces, AddPlaces, DropPlaces, PurgePlaces, ClassPlaces, CreatePlaces,
       EnrollPlaces, JoinPlaces, SweepPlaces, OtherPlaces

(* The room service's calls keep the types. *)
LEMMA RoomsTypes ==
  ASSUME TablesOK, RoomCallsOK, HeldOK, HoldsOK, NEW c \in Calls, RoomsStep(c), UNCHANGED cvars
  PROVE  TablesOK' /\ RoomCallsOK' /\ HeldOK' /\ HoldsAt(c)'
<1> DEFINE RoomOf(p) == p \in NamedPlaces => room'[c] \in Rooms
           Tables == TablesOK' /\ RoomCallsOK'
<1>1. pc \in [Calls -> Places] /\ (pc[c] \in NamedPlaces => room[c] \in Rooms)
  BY DEF HoldsOK, HoldsAt, HeldOK
<1>2. Null \notin Rooms /\ RoomNames \subseteq Rooms
  BY RoomsAssumption DEF Rooms
<1>3. PICK p \in RoomPlaces \cup {"done"} : pc' = [pc EXCEPT ![c] = p] /\ RoomOf(p)
  <2> USE <1>1 DEF GoTo, Proceed, Leave, RoomPlaces, AddPlaces, DropPlaces, PurgePlaces,
                   NamedPlaces, RoomCallsOK
  <2>1. CASE AddFind(c)
    BY <1>2, <2>1 DEF AddFind
  <2>2. CASE AddPost(c)
    BY <1>2, <2>2 DEF AddPost
  <2>3. CASE AddTokens(c)
    BY <1>2, <2>3 DEF AddTokens
  <2>4. CASE AddRow(c)
    BY <1>2, <2>4 DEF AddRow
  <2>5. CASE DropFind(c)
    BY <1>2, <2>5 DEF DropFind
  <2>6. CASE DropDelete(c)
    BY <1>2, <2>6 DEF DropDelete
  <2>7. CASE DropRow(c)
    BY <1>2, <2>7 DEF DropRow
  <2>8. CASE PurgeList(c)
    BY <1>2, <2>8 DEF PurgeList
  <2>9. CASE PurgeDelete(c)
    BY <1>2, <2>9 DEF PurgeDelete
  <2>10. CASE PurgeRows(c)
    BY <1>2, <2>10 DEF PurgeRows
  <2>11. QED BY <2>1, <2>2, <2>3, <2>4, <2>5, <2>6, <2>7, <2>8, <2>9, <2>10 DEF RoomsStep
<1>4. Tables
  <2> USE <1>1, <1>2 DEF Proceed, Leave, Unhost, TablesOK, RoomCallsOK
  <2>1. CASE AddFind(c)
    BY <2>1 DEF AddFind, NamedPlaces
  <2>2. CASE AddPost(c)
    BY <2>2 DEF AddPost, NamedPlaces
  <2>3. CASE AddTokens(c)
    BY <2>3 DEF AddTokens, NamedPlaces
  <2>4. CASE AddRow(c)
    BY <2>4 DEF AddRow, NamedPlaces
  <2>5. CASE DropFind(c)
    BY <2>5 DEF DropFind, NamedPlaces
  <2>6. CASE DropDelete(c)
    BY <2>6 DEF DropDelete, NamedPlaces
  <2>7. CASE DropRow(c)
    BY <2>7 DEF DropRow, NamedPlaces
  <2>8. CASE PurgeList(c)
    BY <2>8 DEF PurgeList, NamedPlaces
  <2>9. CASE PurgeDelete(c)
    BY <2>9 DEF PurgeDelete, NamedPlaces
  <2>10. CASE PurgeRows(c)
    BY <2>10 DEF PurgeRows, NamedPlaces
  <2>11. QED BY <2>1, <2>2, <2>3, <2>4, <2>5, <2>6, <2>7, <2>8, <2>9, <2>10 DEF RoomsStep
<1>5. HeldOK'
  BY <1>1, <1>3, PlacesDiffer DEF HeldOK, cvars, held
<1>6. pc'[c] = p
  BY <1>1, <1>3
<1>7. QED BY <1>3, <1>4, <1>5, <1>6, RoomHolds

(* What the calls of the classes' service hold keeps its types. *)
LEMMA ClassesHeld ==
  ASSUME ClassesTypeOK, HoldsOK, NEW c \in Calls,
         \/ Create(c) \/ Enroll(c) \/ Join(c) \/ Sweep(c) \/ Update(c) \/ Remove(c) \/ Stop(c)
  PROVE  HeldOK' /\ HoldsAt(c)'
<1>0. /\ HeldOK /\ ClassTablesOK /\ RoomCallsOK /\ HoldsAt(c)
      /\ Null \notin Users /\ Tutor \in Users /\ Students \subseteq Users
      /\ ClassIds \subseteq Rooms /\ Starts \subseteq 0..MaxTime /\ Null \notin ClassIds
  BY Parts, ClassesAssumption, RoomsAssumption DEF HoldsOK, Users, Rooms
<1> USE <1>0
<1>1. CASE CreatePost(c)
  <2>1. PICK k \in ClassIds, t \in Titles, s \in Starts, u \in Students \cup {Null} :
          /\ state[k] = "none"
          /\ s > now
          /\ state' = [state EXCEPT ![k] = "named"]
          /\ hosted' = hosted \cup {k}
          /\ stray' = IF Purging THEN stray \cup {k} ELSE stray
          /\ cid' = [cid EXCEPT ![c] = k]
          /\ who' = [who EXCEPT ![c] = u]
          /\ job' = [job EXCEPT ![c] = IF u = Null THEN "create" ELSE "request"]
          /\ seen' = [seen EXCEPT ![c] = [title |-> t, tutor |-> Tutor, start |-> s,
                                         room |-> k, url |-> k, owner |-> k]]
    BY ONLY <1>1, Zenon DEF CreatePost
  <2>2. [title |-> t, tutor |-> Tutor, start |-> s, room |-> k, url |-> k, owner |-> k] \in Row
    BY DEF Row
  <2>3. pc' = [pc EXCEPT ![c] = "inserting"] /\ UNCHANGED <<room, list, wish, token>>
    BY <1>1 DEF CreatePost, GoTo
  <2>4. HeldOK'
    BY <2>1, <2>2, <2>3, PlacesDiffer DEF HeldOK, Jobs, ClassPlaces, CreatePlaces
  <2>5. HoldsAt(c)'
    BY <2>1, <2>3 DEF HeldOK, HoldsAt, NamedPlaces
  <2>6. QED BY <2>4, <2>5
<1>2. ASSUME NEW p \in {"checking", "scheduling", "seating"}, pc[c] \in CreatePlaces, Continue(c, p)
      PROVE  HeldOK' /\ HoldsAt(c)'
  <2>1. p \in Places /\ p \in CreatePlaces
    BY DEF Places, CreatePlaces
  <2>2. HeldOK'
    BY <1>2, <2>1, HeldTypes
  <2>3. QED
    BY <1>2, <2>1, <2>2 DEF Continue, held, GoTo, HeldOK, HoldsAt, ClassPlaces, NamedPlaces
<1>3. CASE CreateRoomRow(c)
  BY <1>2, <1>3 DEF CreateRoomRow, CreatePlaces
<1>4. CASE CreateCheck(c)
  BY <1>2, <1>4, HeldTypes DEF CreateCheck, CreatePlaces
<1>5. CASE CreateInsert(c)
  BY <1>2, <1>5, HeldTypes DEF CreateInsert, CreatePlaces
<1>6. CASE CreateSeat(c)
  <2>1. End(c) \/ (Continue(c, "entering") /\ pc[c] = "seating" /\ job[c] = "request")
    BY <1>6 DEF CreateSeat
  <2>2. CASE Continue(c, "entering") /\ pc[c] = "seating" /\ job[c] = "request"
    <3>1. "entering" \in Places /\ HeldOK'
      BY <2>2, HeldTypes DEF Places, EnrollPlaces
    <3>2. QED
      BY <2>2, <3>1 DEF Continue, held, GoTo, HeldOK, HoldsAt, ClassPlaces, NamedPlaces,
                        CreatePlaces
  <2>3. QED BY <2>1, <2>2, HeldTypes
<1>7. ASSUME NEW j \in Jobs, NEW k \in ClassIds, NEW u \in Users \cup {Null},
             NEW p \in EnrollPlaces \cup JoinPlaces \cup SweepPlaces \cup {"removing"},
             ReadClass(c, j, k, u), GoTo(c, p), UNCHANGED <<wish, room>>,
             u \in Users \/ p \in {"clearing", "removing"} \/ (p = "unhosting" /\ j # "join")
      PROVE  HeldOK' /\ HoldsAt(c)'
  <2>1. p \in Places /\ p \in ClassPlaces /\ p \notin NamedPlaces \cup CreatePlaces
    BY DEF Places, ClassPlaces, NamedPlaces, CreatePlaces, EnrollPlaces, JoinPlaces, SweepPlaces,
           OtherPlaces
  <2>2. HeldOK'
    BY <1>7, <2>1, HeldTypes
  <2>3. pc'[c] = p /\ cid'[c] = k /\ who'[c] = u /\ job'[c] = j
    BY <1>7 DEF ReadClass, GoTo, HeldOK
  <2>4. p # "altering"
    BY DEF EnrollPlaces, JoinPlaces, SweepPlaces
  <2>5. QED
    BY <1>7, <2>1, <2>2, <2>3, <2>4 DEF HoldsAt
<1>8. CASE EnrollRead(c)
  <2>1. UNCHANGED room /\ "listing" \in EnrollPlaces /\ {"enroll", "request"} \subseteq Jobs
    BY <1>8 DEF EnrollRead, EnrollPlaces, Jobs
  <2>2. CASE \E k \in ClassIds, u \in Users :
               ReadClass(c, "enroll", k, u) /\ GoTo(c, "listing") /\ UNCHANGED wish
    BY <1>7, <2>1, <2>2
  <2>3. CASE pc[c] = "entering" /\ ReadClass(c, "request", cid[c], who[c])
               /\ GoTo(c, "listing") /\ UNCHANGED wish
    <3>1. cid[c] \in ClassIds /\ who[c] \in Users
      BY <2>3 DEF HoldsAt, ClassPlaces, EnrollPlaces
    <3>2. QED BY <1>7, <2>1, <2>3, <3>1
  <2>4. QED BY <1>8, <2>2, <2>3, HeldTypes DEF EnrollRead
<1>9. ASSUME pc[c] \in {"listing", "finding", "unhosting"},
             NEW p \in {"listing", "filing", "clearing", "saving", "finding"},
             p \in {"listing", "filing", "finding"} => who[c] \in Users,
             Continue(c, p), UNCHANGED room
      PROVE  HeldOK' /\ HoldsAt(c)'
  <2>1. /\ p \in Places /\ p \in ClassPlaces /\ p \notin NamedPlaces \cup CreatePlaces
        /\ pc[c] \in ClassPlaces
    BY <1>9 DEF Places, ClassPlaces, NamedPlaces, CreatePlaces, EnrollPlaces, JoinPlaces, SweepPlaces,
           OtherPlaces
  <2>2. HeldOK'
    BY <1>9, <2>1, HeldTypes
  <2>3. QED
    BY <1>9, <2>1, <2>2 DEF Continue, held, GoTo, HeldOK, HoldsAt
<1>10. CASE SaveList(c)
  <2>1. pc[c] = "listing" /\ Continue(c, "filing") /\ UNCHANGED room /\ who[c] \in Users
    BY <1>10 DEF SaveList, HoldsAt
  <2>2. QED BY <1>9, <2>1
<1>11. ASSUME NEW t \in Rooms \cup {Null, Blank}, pc[c] \in ClassPlaces,
              Answer(c, cid[c], seen[c], t)
       PROVE  HeldOK' /\ HoldsAt(c)'
  BY <1>11, HeldTypes DEF HoldsAt, HeldOK
<1>12. seen[c].room \in Rooms \cup {Null} /\ seen[c].owner \in Rooms \cup {Null, Blank}
  BY RowFields DEF HeldOK
<1>13. CASE File(c)
  BY <1>11, <1>12, <1>13, HeldTypes DEF File, ClassPlaces, EnrollPlaces
<1>14. ASSUME NEW u \in Users, NEW r \in Row PROVE HostToken(u, r) \in Rooms \cup {Null, Blank}
  BY RowFields DEF HostToken
<1>15. CASE JoinRead(c)
  <2>1. PICK k \in ClassIds, u \in Users :
          \/ ReadClass(c, "join", k, u) /\ GoTo(c, "unhosting")
          \/ ReadClass(c, "join", k, u) /\ GoTo(c, Onward(u, class[k]))
          \/ Answer(c, k, class[k], HostToken(u, class[k]))
    BY <1>15 DEF JoinRead
  <2>2. UNCHANGED <<wish, room>> /\ "join" \in Jobs /\ class[k] \in Row
    BY <1>15 DEF JoinRead, Jobs, ClassTablesOK
  <2>3. "unhosting" \in SweepPlaces /\ Onward(u, class[k]) \in JoinPlaces
    BY DEF SweepPlaces, JoinPlaces, Onward
  <2>4. QED BY <1>7, <1>14, <2>1, <2>2, <2>3, HeldTypes
<1>16. CASE SaveOwner(c)
  BY <1>11, <1>12, <1>16 DEF SaveOwner, ClassPlaces, JoinPlaces
<1>17. CASE FindSeat(c)
  <2>1. /\ pc[c] = "finding" /\ UNCHANGED room
        /\ \/ Answer(c, cid[c], seen[c], seats[cid[c]][who[c]])
           \/ Continue(c, "listing")
           \/ End(c)
    BY <1>17 DEF FindSeat
  <2>2. who[c] \in Users /\ cid[c] \in ClassIds /\ pc[c] \in ClassPlaces
    BY <2>1 DEF HoldsAt, ClassPlaces, JoinPlaces
  <2>3. seats[cid[c]][who[c]] \in Rooms \cup {Null}
    BY <2>2 DEF ClassTablesOK
  <2>4. QED BY <1>9, <1>11, <2>1, <2>2, <2>3, HeldTypes
<1>18. CASE SweepRead(c)
  <2>1. PICK k \in ClassIds : ReadClass(c, "sweep", k, Null)
    BY <1>18 DEF SweepRead
  <2>2. "sweep" \in Jobs /\ "unhosting" \in SweepPlaces
    BY DEF Jobs, SweepPlaces
  <2>3. GoTo(c, "unhosting") /\ UNCHANGED <<wish, room>>
    BY <1>18 DEF SweepRead
  <2>4. QED BY <1>7, <2>1, <2>2, <2>3
<1>19. CASE SweepUnhost(c)
  <2>1. /\ pc[c] = "unhosting" /\ UNCHANGED room
        /\ \/ Continue(c, "clearing")
           \/ job[c] = "join" /\ Answer(c, cid[c], seen[c], HostToken(who[c], seen[c]))
           \/ job[c] = "join" /\ Continue(c, Onward(who[c], seen[c]))
           \/ End(c)
    BY <1>19 DEF SweepUnhost
  <2>2. pc[c] \in ClassPlaces /\ (job[c] = "join" => who[c] \in Users)
    BY <2>1 DEF HoldsAt, ClassPlaces, SweepPlaces
  <2>3. seen[c] \in Row /\ Onward(who[c], seen[c]) \in {"saving", "finding"}
    BY DEF HeldOK, Onward
  <2>4. QED BY <1>9, <1>11, <1>14, <2>1, <2>2, <2>3, HeldTypes
<1>20. CASE SweepClear(c)
  BY <1>20, HeldTypes DEF SweepClear
<1>21. CASE UpdateRead(c)
  <2>1. PICK k \in ClassIds : ReadClass(c, "update", k, Null)
    BY <1>21 DEF UpdateRead
  <2>2. class[k] \in Row /\ "update" \in Jobs
    BY DEF ClassTablesOK, Jobs
  <2>3. PICK p \in {"altering", "writing"} : GoTo(c, p)
    BY <1>21 DEF UpdateRead
  <2>4. CASE UNCHANGED wish /\ \E r \in Rooms : room' = [room EXCEPT ![c] = r]
    <3>1. HeldOK'
      BY <2>1, <2>2, <2>3, <2>4, HeldTypes DEF Places, OtherPlaces
    <3>2. room'[c] \in Rooms /\ cid'[c] = k /\ pc'[c] = p
      BY <2>1, <2>3, <2>4 DEF ReadClass, GoTo, HeldOK, RoomCallsOK
    <3>3. QED BY <2>3, <3>1, <3>2 DEF HoldsAt, CreatePlaces
  <2>5. ASSUME NEW w \in Row, wish' = [wish EXCEPT ![c] = w], p = "altering" => w # NoRow
        PROVE  HeldOK' /\ HoldsAt(c)'
    <3>1. p \in Places /\ p \notin NamedPlaces \cup CreatePlaces
      BY DEF Places, OtherPlaces, NamedPlaces, CreatePlaces
    <3>2. HeldOK'
      BY <2>1, <2>2, <2>3, <2>5, <3>1 DEF ReadClass, GoTo, HeldOK, ClassTablesOK
    <3>3. wish'[c] = w /\ cid'[c] = k /\ pc'[c] = p
      BY <2>1, <2>3, <2>5 DEF ReadClass, GoTo, HeldOK
    <3>4. QED BY <2>3, <2>5, <3>1, <3>2, <3>3 DEF HoldsAt
  <2>6. CASE GoTo(c, "altering") /\ \E j \in ClassIds, t \in Titles :
               wish' = [wish EXCEPT ![c] = [class[j] EXCEPT !.title = t]]
    <3>1. PICK j \in ClassIds, t \in Titles :
            wish' = [wish EXCEPT ![c] = [class[j] EXCEPT !.title = t]]
      BY <2>6
    <3>2. class[j] \in Row
      BY DEF ClassTablesOK
    <3>3. [class[j] EXCEPT !.title = t] \in Row
      BY <3>2 DEF Row
    <3>4. [class[j] EXCEPT !.title = t] # NoRow
      <4>1. [class[j] EXCEPT !.title = t].title = t
        BY <3>2 DEF Row
      <4>2. NoRow.title = Null /\ t # Null
        BY ClassesAssumption DEF NoRow
      <4>3. QED BY <4>1, <4>2
    <3>5. QED BY <2>5, <3>1, <3>3, <3>4
  <2>7. CASE GoTo(c, "writing") /\ \E j \in ClassIds, s \in Starts :
               wish' = [wish EXCEPT ![c] = [class[j] EXCEPT !.start = s]]
    <3>1. PICK j \in ClassIds, s \in Starts :
            wish' = [wish EXCEPT ![c] = [class[j] EXCEPT !.start = s]]
      BY <2>7
    <3>2. class[j] \in Row
      BY DEF ClassTablesOK
    <3>3. [class[j] EXCEPT !.start = s] \in Row
      BY <3>2 DEF Row
    <3>4. p = "writing"
      BY <2>3, <2>7 DEF GoTo, HeldOK
    <3>5. QED BY <2>5, <3>1, <3>3, <3>4
  <2>8. CASE GoTo(c, "writing") /\ \E j \in ClassIds, u \in Users :
               wish' = [wish EXCEPT ![c] = [class[j] EXCEPT !.tutor = u]]
    <3>1. PICK j \in ClassIds, u \in Users :
            wish' = [wish EXCEPT ![c] = [class[j] EXCEPT !.tutor = u]]
      BY <2>8
    <3>2. class[j] \in Row
      BY DEF ClassTablesOK
    <3>3. [class[j] EXCEPT !.tutor = u] \in Row
      BY <3>2 DEF Row
    <3>4. p = "writing"
      BY <2>3, <2>8 DEF GoTo, HeldOK
    <3>5. QED BY <2>5, <3>1, <3>3, <3>4
  <2>9. QED BY <1>21, <2>4, <2>6, <2>7, <2>8 DEF UpdateRead
<1>22. CASE UpdateAlter(c)
  <2>1. CASE wish[c] = NoRow
    <3>1. room[c] \in Rooms /\ cid[c] \in ClassIds /\ seen[c] \in Row
      BY <1>22, <2>1 DEF UpdateAlter, HoldsAt, HeldOK, ClassPlaces, OtherPlaces
    <3>2. /\ [seen[c] EXCEPT !.room = room[c]] \in Row
          /\ [seen[c] EXCEPT !.room = room[c], !.url = room[c],
                !.owner = IF room[c] \in ClassIds THEN Blank ELSE room[c]] \in Row
      <4>1. [seen[c] EXCEPT !.room = room[c]] \in Row
        BY <3>1 DEF Row
      <4>2. ASSUME NEW o \in Rooms \cup {Blank}
            PROVE [seen[c] EXCEPT !.room = room[c], !.url = room[c], !.owner = o] \in Row
        BY <3>1 DEF Row
      <4>3. QED BY <3>1, <4>1, <4>2
    <3>3. PICK w \in Row : wish' = [wish EXCEPT ![c] = w]
      BY <1>22, <2>1, <3>2 DEF UpdateAlter
    <3>4. GoTo(c, "writing") /\ UNCHANGED <<cid, who, seen, list, token, job>>
      BY <1>22, <2>1 DEF UpdateAlter
    <3>5. HeldOK' /\ pc'[c] = "writing" /\ cid'[c] \in ClassIds
      BY <3>1, <3>3, <3>4, PlacesDiffer DEF GoTo, HeldOK, ClassPlaces, OtherPlaces
    <3>6. QED BY <3>5 DEF HoldsAt, CreatePlaces, NamedPlaces
  <2>2. CASE wish[c] # NoRow /\ Continue(c, "writing")
    <3>1. HeldOK' /\ cid[c] \in ClassIds
      BY <1>22, <2>2, HeldTypes, PlacesDiffer DEF UpdateAlter, HoldsAt, ClassPlaces, OtherPlaces
    <3>2. pc'[c] = "writing" /\ cid'[c] = cid[c]
      BY <2>2 DEF Continue, held, GoTo, HeldOK
    <3>3. QED BY <3>1, <3>2 DEF HoldsAt, CreatePlaces, NamedPlaces
  <2>3. QED BY <1>22, <2>1, <2>2, HeldTypes DEF UpdateAlter
<1>23. CASE UpdateWrite(c)
  BY <1>23, HeldTypes DEF UpdateWrite
<1>24. CASE RemoveRead(c)
  <2>1. PICK k \in ClassIds : ReadClass(c, "remove", k, Null)
    BY <1>24 DEF RemoveRead
  <2>2. "remove" \in Jobs /\ GoTo(c, "removing") /\ UNCHANGED <<wish, room>>
    BY <1>24 DEF RemoveRead, Jobs
  <2>3. QED BY <1>7, <2>1, <2>2
<1>25. CASE RemoveUnhost(c)
  <2>1. HeldOK' /\ cid[c] \in ClassIds
    BY <1>25, HeldTypes, PlacesDiffer DEF RemoveUnhost, HoldsAt, ClassPlaces, OtherPlaces
  <2>2. pc'[c] = "destroying" /\ cid'[c] = cid[c]
    BY <1>25 DEF RemoveUnhost, Continue, held, GoTo, HeldOK
  <2>3. QED BY <2>1, <2>2 DEF HoldsAt, CreatePlaces, NamedPlaces
<1>26. CASE RemoveRow(c)
  BY <1>26, HeldTypes DEF RemoveRow
<1>27. CASE PurgeClasses(c)
  <2>1. GoTo(c, "done") /\ UNCHANGED held
    BY <1>27 DEF PurgeClasses
  <2>2. HeldOK' /\ pc'[c] = "done"
    BY <2>1, PlacesDiffer DEF held, GoTo, HeldOK
  <2>3. QED BY <2>2, PlacesDiffer DEF HoldsAt, NamedPlaces, CreatePlaces
<1>28. CASE Stop(c)
  BY <1>28, HeldTypes DEF Stop
<1>29. QED
  BY <1>1, <1>3, <1>4, <1>5, <1>6, <1>8, <1>10, <1>13, <1>15, <1>16, <1>17, <1>18, <1>19, <1>20,
     <1>21, <1>22, <1>23, <1>24, <1>25, <1>26, <1>27, <1>28
     DEF Create, Enroll, Join, Sweep, Update, Remove
(* The calls of the classes' service keep the types of the tables. *)
LEMMA ClassesTables ==
  ASSUME ClassesTypeOK, HoldsOK, NEW c \in Calls,
         \/ Create(c) \/ Enroll(c) \/ Join(c) \/ Sweep(c) \/ Update(c) \/ Remove(c) \/ Stop(c)
  PROVE  TablesOK' /\ RoomCallsOK' /\ ClassTablesOK' /\ GhostsOK'
<1>0. /\ HeldOK /\ ClassTablesOK /\ RoomCallsOK /\ TablesOK /\ GhostsOK /\ HoldsAt(c)
      /\ Null \notin Users /\ Tutor \in Users /\ Students \subseteq Users
      /\ ClassIds \subseteq Rooms
  BY Parts, ClassesAssumption, RoomsAssumption DEF HoldsOK, Users, Rooms
<1>h. /\ pc[c] \in ClassPlaces => cid[c] \in ClassIds
      /\ pc[c] \in {"entering", "listing", "filing", "finding"} => who[c] \in Users
      /\ seen[c] \in Row /\ wish[c] \in Row /\ list[c] \subseteq Users
  BY <1>0 DEF HoldsAt, HeldOK
<1>p. {"inserting", "checking", "scheduling", "seating", "entering", "listing", "filing",
       "saving", "finding", "unhosting", "clearing", "altering", "writing", "removing",
       "destroying"} \subseteq ClassPlaces
  BY DEF ClassPlaces, CreatePlaces, EnrollPlaces, JoinPlaces, SweepPlaces, OtherPlaces
<1>r. seen[c].room \in Rooms \cup {Null} /\ seen[c].owner \in Rooms \cup {Null, Blank}
  BY <1>h, RowFields
<1> DEFINE Tables == TablesOK' /\ RoomCallsOK'
           Rest == ClassTablesOK' /\ GhostsOK'
<1>u. /\ UNCHANGED <<rooms, room, stray>> => Tables
      /\ UNCHANGED <<now, classes, ghosts>> => Rest
      /\ UNCHANGED ghosts => GhostsOK'
      /\ UNCHANGED <<now, classes>> => ClassTablesOK'
  BY <1>0 DEF rooms, classes, ghosts, TablesOK, RoomCallsOK, ClassTablesOK, GhostsOK
<1>w. ASSUME NEW k \in ClassIds, NEW r \in Row, WriteRow(k, r),
             UNCHANGED <<now, state, enrolled, private, seats>>
      PROVE  ClassTablesOK'
  BY <1>0, <1>w DEF WriteRow, ClassTablesOK
<1>s. ASSUME NEW k \in ClassIds, NEW u \in Users, NEW t \in Rooms \cup {Null},
             seats' = [seats EXCEPT ![k] = [@ EXCEPT ![u] = t]],
             UNCHANGED <<now, state, class, enrolled, private>>
      PROVE  ClassTablesOK'
  BY <1>0, <1>s DEF ClassTablesOK
<1>d. ASSUME NEW ks \in SUBSET ClassIds, Destroy(ks), UNCHANGED now PROVE ClassTablesOK'
  BY <1>0, <1>d, NoRowType DEF Destroy, ClassTablesOK, NoSeats
<1>1. CASE CreatePost(c)
  <2>1. PICK k \in ClassIds :
          /\ state' = [state EXCEPT ![k] = "named"]
          /\ hosted' = hosted \cup {k}
          /\ stray' = IF Purging THEN stray \cup {k} ELSE stray
    BY <1>1 DEF CreatePost
  <2>2. UNCHANGED <<row, room, key, left, now, class, enrolled, private, seats, ghosts>>
    BY <1>1 DEF CreatePost
  <2>3. Tables
    BY <1>0, <2>1, <2>2 DEF TablesOK, RoomCallsOK
  <2>4. ClassTablesOK'
    BY <1>0, <2>1, <2>2 DEF ClassTablesOK
  <2>5. QED BY <1>u, <2>2, <2>3, <2>4
<1>2. CASE CreateRoomRow(c)
  <2>1. cid[c] \in ClassIds
    BY <1>2, <1>h, <1>p DEF CreateRoomRow
  <2>2. Tables
    BY <1>0, <1>2, <2>1 DEF CreateRoomRow, TablesOK, RoomCallsOK
  <2>3. QED BY <1>2, <1>u, <2>2 DEF CreateRoomRow
<1>3. CASE CreateCheck(c)
  <2>1. cid[c] \in ClassIds
    BY <1>3, <1>h, <1>p DEF CreateCheck
  <2>2. UNCHANGED <<rooms, room>> /\ stray' \subseteq stray \cup {cid[c]}
    BY <1>3 DEF CreateCheck
  <2>3. Tables
    BY <1>0, <2>1, <2>2 DEF rooms, TablesOK, RoomCallsOK
  <2>4. QED BY <1>3, <1>u, <2>3 DEF CreateCheck
<1>4. CASE CreateInsert(c)
  <2>1. cid[c] \in ClassIds
    BY <1>4, <1>h, <1>p DEF CreateInsert
  <2>2. UNCHANGED <<rooms, room, now, enrolled, seats, crossed, moved, retimed, reused>>
        /\ stray' \subseteq stray \cup {cid[c]}
    BY <1>4 DEF CreateInsert
  <2>3. Tables
    BY <1>0, <2>1, <2>2 DEF rooms, TablesOK, RoomCallsOK
  <2>4. \/ /\ state' = [state EXCEPT ![cid[c]] = "live"]
           /\ class' = [class EXCEPT ![cid[c]] = seen[c]]
           /\ private' = [private EXCEPT ![cid[c]] = job[c] = "request"]
           /\ invited' = [invited EXCEPT ![cid[c]] = {who[c]} \ {Null}]
        \/ UNCHANGED <<state, class, private, invited>>
    BY <1>4 DEF CreateInsert
  <2>5. {who[c]} \ {Null} \subseteq Users
    BY <1>0 DEF HeldOK
  <2>6. ClassTablesOK'
    <3>1. CASE UNCHANGED <<state, class, private, invited>>
      BY <1>0, <2>2, <3>1 DEF ClassTablesOK
    <3>2. CASE /\ state' = [state EXCEPT ![cid[c]] = "live"]
               /\ class' = [class EXCEPT ![cid[c]] = seen[c]]
               /\ private' = [private EXCEPT ![cid[c]] = job[c] = "request"]
      <4>1. private' \in [ClassIds -> BOOLEAN]
        BY <1>0, <3>2, Zenon DEF ClassTablesOK
      <4>2. QED BY <1>0, <1>h, <2>1, <2>2, <3>2, <4>1 DEF ClassTablesOK
    <3>3. QED BY <2>4, <3>1, <3>2
  <2>7. GhostsOK'
    BY <1>0, <2>2, <2>4, <2>5 DEF GhostsOK
  <2>8. QED BY <2>3, <2>6, <2>7
<1>5. CASE CreateSeat(c)
  <2>1. pc[c] \in CreatePlaces
    BY <1>5 DEF CreateSeat, CreatePlaces
  <2>2. cid[c] \in ClassIds /\ seen[c].owner \in Rooms
    BY <1>0, <2>1 DEF HoldsAt, ClassPlaces
  <2>3. \/ seats' = [seats EXCEPT ![cid[c]] = [@ EXCEPT ![Tutor] = seen[c].owner]]
        \/ UNCHANGED seats
    BY <1>5 DEF CreateSeat
  <2>4. UNCHANGED <<rooms, room, stray, now, state, class, enrolled, private, ghosts>>
    BY <1>5 DEF CreateSeat
  <2>5. ClassTablesOK'
    BY <1>0, <1>u, <1>s, <2>2, <2>3, <2>4 DEF classes
  <2>6. QED BY <1>u, <2>4, <2>5
<1>6. CASE EnrollRead(c)
  <2>1. /\ UNCHANGED <<rooms, room, stray, now, classes, crossed, moved, retimed, reused>>
        /\ \/ \E k \in ClassIds, u \in Users : invited' = [invited EXCEPT ![k] = @ \cup {u}]
           \/ UNCHANGED invited
    BY <1>6 DEF EnrollRead
  <2>2. GhostsOK'
    BY <1>0, <2>1 DEF GhostsOK
  <2>3. QED BY <1>u, <2>1, <2>2
<1>7. CASE SaveList(c)
  <2>1. cid[c] \in ClassIds /\ who[c] \in Users
    BY <1>7, <1>h, <1>p DEF SaveList
  <2>2. /\ \/ enrolled' = [enrolled EXCEPT ![cid[c]] = list[c] \cup {who[c]}]
           \/ UNCHANGED enrolled
        /\ crossed' \subseteq crossed \cup {cid[c]}
        /\ UNCHANGED <<rooms, room, stray, now, state, class, private, seats,
                       invited, moved, retimed, reused>>
    BY <1>7 DEF SaveList
  <2>3. ClassTablesOK'
    BY <1>0, <1>h, <2>1, <2>2 DEF ClassTablesOK
  <2>4. GhostsOK'
    BY <1>0, <2>1, <2>2 DEF GhostsOK
  <2>5. QED BY <1>u, <2>2, <2>3, <2>4
<1>8. CASE File(c)
  <2>1. cid[c] \in ClassIds /\ who[c] \in Users
    BY <1>8, <1>h, <1>p DEF File
  <2>2. /\ UNCHANGED <<rooms, room, stray, now, state, class, enrolled, private, ghosts>>
        /\ \/ seats' = [seats EXCEPT ![cid[c]] = [@ EXCEPT ![who[c]] = seen[c].room]]
           \/ UNCHANGED seats
    BY <1>8 DEF File
  <2>3. ClassTablesOK'
    BY <1>r, <1>s, <1>u, <2>1, <2>2 DEF classes
  <2>4. QED BY <1>u, <2>2, <2>3
<1>9. CASE Join(c)
  <2>1. CASE JoinRead(c)
    BY <1>u, <2>1 DEF JoinRead
  <2>2. CASE FindSeat(c)
    BY <1>u, <2>2 DEF FindSeat
  <2>3. CASE SaveOwner(c)
    <3>1. cid[c] \in ClassIds
      BY <2>3, <1>h, <1>p DEF SaveOwner
    <3>2. class[cid[c]] \in Row
      BY <1>0, <3>1 DEF ClassTablesOK
    <3>3. [class[cid[c]] EXCEPT !.owner = seen[c].room] \in Row
      BY <1>r, <3>2 DEF Row
    <3>4. QED BY <1>u, <1>w, <2>3, <3>1, <3>3 DEF SaveOwner
  <2>4. QED BY <1>9, <2>1, <2>2, <2>3 DEF Join
<1>10. CASE SweepRead(c)
  BY <1>u, <1>10 DEF SweepRead
<1>11. CASE SweepUnhost(c)
  <2>1. /\ hosted' \subseteq hosted
        /\ UNCHANGED <<row, room, key, left, stray, now, classes, ghosts>>
    BY <1>11 DEF SweepUnhost, Unhost
  <2>2. Tables
    BY <1>0, <2>1 DEF TablesOK, RoomCallsOK
  <2>3. QED BY <1>u, <2>1, <2>2
<1>12. CASE SweepClear(c)
  <2>1. cid[c] \in ClassIds
    BY <1>12, <1>h, <1>p DEF SweepClear
  <2> DEFINE new == [seen[c] EXCEPT !.room = Null, !.url = Null, !.owner = Null]
  <2>2. new \in Row
    BY <1>h DEF Row
  <2>3. Written(cid[c], seen[c], new) \in Row
    BY <1>0, <1>h, <2>1, <2>2, WrittenType
  <2>4. ClassTablesOK'
    BY <1>12, <1>w, <2>1, <2>3 DEF SweepClear
  <2>5. class[cid[c]].room \in Rooms \cup {Null}
    BY <1>0, <2>1, RowFields DEF ClassTablesOK
  <2>6. /\ UNCHANGED <<rooms, room, ghosts>>
        /\ stray' \subseteq stray \cup ({class[cid[c]].room} \ {Null})
    BY <1>12 DEF SweepClear
  <2>7. Tables
    BY <1>0, <2>5, <2>6 DEF rooms, TablesOK, RoomCallsOK
  <2>8. QED BY <1>u, <2>4, <2>6, <2>7
<1>13. CASE UpdateRead(c)
  <2>1. /\ UNCHANGED <<rooms, stray, now, classes, ghosts>>
        /\ \/ \E r \in Rooms : room' = [room EXCEPT ![c] = r]
           \/ UNCHANGED room
    BY <1>13 DEF UpdateRead
  <2>2. Tables
    BY <1>0, <2>1 DEF rooms, TablesOK, RoomCallsOK
  <2>3. QED BY <1>u, <2>1, <2>2
<1>14. CASE UpdateAlter(c)
  <2>1. /\ UNCHANGED <<rooms, stray, now, classes, ghosts>>
        /\ room' = [room EXCEPT ![c] = Null] \/ UNCHANGED room
    BY <1>14 DEF UpdateAlter
  <2>2. Tables
    BY <1>0, <2>1 DEF rooms, TablesOK, RoomCallsOK
  <2>3. QED BY <1>u, <2>1, <2>2
<1>15. CASE UpdateWrite(c)
  <2>1. cid[c] \in ClassIds
    BY <1>15, <1>h, <1>p DEF UpdateWrite
  <2> DEFINE new == Written(cid[c], seen[c], wish[c])
  <2>2. new \in Row
    BY <1>0, <1>h, <2>1, WrittenType
  <2>3. UNCHANGED <<rooms, room, now, state, enrolled, private, seats, invited, crossed>>
    BY <1>15 DEF UpdateWrite
  <2>4. \/ /\ WriteRow(cid[c], new)
           /\ stray' \subseteq stray \cup ({class[cid[c]].room} \ {Null})
           /\ reused' \subseteq reused \cup ({new.room} \ {Null})
           /\ moved' \subseteq moved \cup {cid[c]}
           /\ retimed' \subseteq retimed \cup {cid[c]}
        \/ UNCHANGED <<class, stray, reused, moved, retimed>>
    BY <1>15 DEF UpdateWrite
  <2>5. class[cid[c]].room \in Rooms \cup {Null} /\ new.room \in Rooms \cup {Null}
    BY <1>0, <2>1, <2>2, RowFields DEF ClassTablesOK
  <2>6. Tables
    BY <1>0, <2>3, <2>4, <2>5 DEF rooms, TablesOK, RoomCallsOK
  <2>7. ClassTablesOK'
    BY <1>u, <1>w, <2>1, <2>2, <2>3, <2>4 DEF classes
  <2>8. GhostsOK'
    BY <1>0, <2>1, <2>3, <2>4, <2>5 DEF GhostsOK
  <2>9. QED BY <2>6, <2>7, <2>8
<1>16. CASE RemoveRead(c)
  BY <1>u, <1>16 DEF RemoveRead
<1>17. CASE RemoveUnhost(c)
  <2>1. /\ hosted' \subseteq hosted /\ stray' \subseteq stray \cup ({seen[c].room} \ {Null})
        /\ UNCHANGED <<row, room, key, left, now, classes, ghosts>>
    BY <1>17 DEF RemoveUnhost, Unhost
  <2>2. Tables
    BY <1>0, <1>r, <2>1 DEF TablesOK, RoomCallsOK
  <2>3. QED BY <1>u, <2>1, <2>2
<1>18. CASE RemoveRow(c)
  <2>1. cid[c] \in ClassIds
    BY <1>18, <1>h, <1>p DEF RemoveRow
  <2>2. class[cid[c]].room \in Rooms \cup {Null}
    BY <1>0, <2>1, RowFields DEF ClassTablesOK
  <2>3. /\ stray' \subseteq stray \cup ({class[cid[c]].room} \ {Null})
        /\ UNCHANGED <<rooms, room, now, ghosts>> /\ Destroy({cid[c]})
    BY <1>18 DEF RemoveRow
  <2>4. Tables
    BY <1>0, <2>2, <2>3 DEF rooms, TablesOK, RoomCallsOK
  <2>5. QED BY <1>d, <1>u, <2>1, <2>3, <2>4
<1>19. CASE PurgeClasses(c)
  BY <1>19, <1>d, <1>u DEF PurgeClasses
<1>20. CASE Stop(c)
  <2>1. /\ UNCHANGED <<hosted, row, now, classes, ghosts>>
        /\ left' = [left EXCEPT ![c] = {}]
        /\ room' = [room EXCEPT ![c] = Null]
        /\ key' = [key EXCEPT ![c] = Null]
    BY <1>20 DEF Stop
  <2>2. stray' \subseteq Rooms
    <3>1. CASE pc[c] \in {"equipping", "recording"}
      <4>1. room[c] \in Rooms
        BY <1>0, <3>1 DEF HoldsAt, NamedPlaces
      <4>2. stray' = stray \cup {room[c]}
        BY <1>20, <3>1 DEF Stop, CreatePlaces
      <4>3. QED BY <1>0, <4>1, <4>2 DEF TablesOK
    <3>2. CASE pc[c] \notin {"equipping", "recording"} /\ pc[c] \in CreatePlaces \ {"seating"}
      <4>1. cid[c] \in ClassIds
        BY <1>h, <3>2 DEF ClassPlaces
      <4>2. stray' = stray \cup {cid[c]}
        BY <1>20, <3>2 DEF Stop
      <4>3. QED BY <1>0, <4>1, <4>2 DEF TablesOK
    <3>3. CASE pc[c] \notin {"equipping", "recording"} /\ pc[c] \notin CreatePlaces \ {"seating"}
      BY <1>0, <1>20, <3>3 DEF Stop, TablesOK
    <3>4. QED BY <3>1, <3>2, <3>3
  <2>3. Tables
    BY <1>0, <2>1, <2>2 DEF TablesOK, RoomCallsOK
  <2>4. QED BY <1>u, <2>1, <2>3
<1>21. QED
  BY <1>1, <1>2, <1>3, <1>4, <1>5, <1>6, <1>7, <1>8, <1>9, <1>10, <1>11, <1>12, <1>13, <1>14,
     <1>15, <1>16, <1>17, <1>18, <1>19, <1>20
     DEF Create, Enroll, Sweep, Update, Remove

(* What the other calls hold is as before. *)
LEMMA HoldsOthers ==
  ASSUME HoldsOK, NEW d \in Calls, Untouched(d)
  PROVE  HoldsAt(d)'
BY DEF HoldsOK, HoldsAt, Untouched

(* The inductive invariant of the types: rows and calls have them, and in  *)
(* its places each call holds the class, the user and the room it uses.    *)
TypesInv == ClassesTypeOK /\ HoldsOK

(* It holds at the beginning. *)
LEMMA TypesInit == Init => TypesInv
<1> SUFFICES ASSUME Init PROVE TypesInv
  OBVIOUS
<1> USE ClassesAssumption, RoomsAssumption
<1>1. \A k \in ClassIds, t \in Titles : Begun(k, t) \in Row
  BY DEF Begun, Row, Rooms, Users
<1>2. PICK old \in SUBSET ClassIds, guest \in {{}} \cup {{u} : u \in Students},
           lesson \in BOOLEAN :
        \E title \in [old -> Titles] :
          /\ \A j, k \in old : title[j] = title[k] => j = k
          /\ hosted = IF old = ClassIds THEN Rooms ELSE old
          /\ row = [r \in Rooms |-> IF r \in hosted THEN Earlier ELSE Null]
          /\ state = [k \in ClassIds |-> IF k \in old THEN "live" ELSE "none"]
          /\ class = [k \in ClassIds |-> IF k \in old THEN Begun(k, title[k]) ELSE NoRow]
          /\ seats = [k \in ClassIds |-> [u \in Users |->
                        IF k \in old /\ u \in guest \cup {Tutor} THEN k ELSE Null]]
          /\ enrolled = [k \in ClassIds |-> IF k \in old THEN guest ELSE {}]
          /\ guest # {} => lesson
          /\ lesson => old # ClassIds
          /\ private = [k \in ClassIds |-> k \in old /\ lesson]
          /\ invited = [k \in ClassIds |-> IF k \in old THEN guest ELSE {}]
  BY Zenon DEF Init
<1>3. PICK title \in [old -> Titles] :
          class = [k \in ClassIds |-> IF k \in old THEN Begun(k, title[k]) ELSE NoRow]
  BY <1>2
<1>4. guest \subseteq Users /\ ClassIds \subseteq Rooms
  BY DEF Users, Rooms
<1>5. class \in [ClassIds -> Row]
  BY <1>1, <1>3, NoRowType
<1>6. TablesOK
  BY <1>2, <1>4 DEF Init, TablesOK
<1>7. ClassTablesOK
  <2>1. now \in 0..MaxTime
    BY DEF Init
  <2>2. private \in [ClassIds -> BOOLEAN]
    BY <1>2, Zenon
  <2>3. seats \in [ClassIds -> [Users -> Rooms \cup {Null}]]
    BY <1>2, <1>4
  <2>4. QED BY <1>2, <1>4, <1>5, <2>1, <2>2, <2>3 DEF ClassTablesOK
<1>8. RoomCallsOK /\ HeldOK
  BY NoRowType, PlacesDiffer DEF Init, RoomCallsOK, HeldOK
<1>9. GhostsOK
  BY <1>2, <1>4 DEF Init, GhostsOK
<1>10. HoldsOK
  <2>1. \A c \in Calls : pc[c] = "idle"
    BY DEF Init
  <2>2. "idle" \notin ClassPlaces /\ "idle" \notin NamedPlaces /\ "idle" \notin CreatePlaces
    BY PlacesDiffer DEF NamedPlaces, CreatePlaces
  <2>3. QED BY <2>1, <2>2 DEF HoldsOK, HoldsAt
<1>11. QED BY <1>6, <1>7, <1>8, <1>9, <1>10, Parts DEF TypesInv

(* Every step keeps it. *)
LEMMA TypesStep == TypesInv /\ [Next]_vars => TypesInv'
<1> SUFFICES ASSUME TypesInv, [Next]_vars PROVE TypesInv'
  OBVIOUS
<1>0. ClassesTypeOK /\ HoldsOK /\ TablesOK /\ RoomCallsOK /\ ClassTablesOK /\ HeldOK /\ GhostsOK
  BY Parts DEF TypesInv
<1>1. ASSUME NEW c \in Calls, RoomsStep(c), UNCHANGED cvars PROVE TypesInv'
  <2>1. TablesOK' /\ RoomCallsOK' /\ HeldOK' /\ HoldsAt(c)'
    BY <1>0, <1>1, RoomsTypes
  <2>2. ClassTablesOK' /\ GhostsOK'
    BY <1>0, <1>1 DEF cvars, classes, ghosts, ClassTablesOK, GhostsOK
  <2>3. \A d \in Calls : HoldsAt(d)'
    BY <1>0, <1>1, <2>1, OneCall, HoldsOthers
  <2>4. HoldsOK'
    BY <2>3 DEF HoldsOK
  <2>5. ClassesTypeOK'
    BY <2>1, <2>2 DEF ClassesTypeOK, TablesOK, RoomCallsOK, ClassTablesOK, HeldOK, GhostsOK
  <2>6. QED BY <2>4, <2>5 DEF TypesInv
<1>2. ASSUME NEW c \in Calls,
             \/ Create(c) \/ Enroll(c) \/ Join(c) \/ Sweep(c) \/ Update(c) \/ Remove(c)
             \/ Stop(c)
      PROVE  TypesInv'
  <2>1. HeldOK' /\ HoldsAt(c)'
    BY <1>0, <1>2, ClassesHeld
  <2>2. TablesOK' /\ RoomCallsOK' /\ ClassTablesOK' /\ GhostsOK'
    BY <1>0, <1>2, ClassesTables
  <2>3. \A d \in Calls : HoldsAt(d)'
    BY <1>0, <1>2, <2>1, OneCall, HoldsOthers
  <2>4. HoldsOK'
    BY <2>3 DEF HoldsOK
  <2>5. ClassesTypeOK'
    BY <2>1, <2>2 DEF ClassesTypeOK, TablesOK, RoomCallsOK, ClassTablesOK, HeldOK, GhostsOK
  <2>6. QED BY <2>4, <2>5 DEF TypesInv
<1>3. CASE Tick
  <2>1. now' \in 0..MaxTime
    BY <1>0, <1>3, ClassesAssumption DEF Tick, ClassTablesOK
  <2>2. UNCHANGED <<rooms, pc, room, stray, classes, held, ghosts>>
    BY <1>3 DEF Tick
  <2>3. ClassesTypeOK'
    BY <1>0, <2>1, <2>2 DEF ClassesTypeOK, rooms, classes, held, ghosts
  <2>4. HoldsOK'
    BY <1>0, <2>2 DEF HoldsOK, HoldsAt, held
  <2>5. QED BY <2>3, <2>4 DEF TypesInv
<1>4. CASE UNCHANGED vars
  <2>1. ClassesTypeOK'
    BY <1>0, <1>4 DEF vars, cvars, ClassesTypeOK, classes, held, ghosts
  <2>2. HoldsOK'
    BY <1>0, <1>4 DEF vars, cvars, held, HoldsOK, HoldsAt
  <2>3. QED BY <2>1, <2>2 DEF TypesInv
<1>5. QED BY <1>1, <1>2, <1>3, <1>4 DEF Next, Quiet

(* Rooms, classes, lists, seats and calls keep their types, whatever calls *)
(* interleave and stop.                                                    *)
THEOREM ClassesTypeCorrect == Spec => []ClassesTypeOK
<1>1. TypesInv => ClassesTypeOK
  BY DEF TypesInv
<1>2. QED BY TypesInit, TypesStep, <1>1, PTL DEF Spec
(* What a call that works on a class may rely on until its last step:   *)
(* the class it makes is its own; one it has read is made; the user it     *)
(* serves, and the list it has read, belong to a private lesson; and the   *)
(* list is as it was read, unless somebody has crossed it.                 *)
Drafting == {"inserting", "checking", "scheduling"}
SafePlaces == Drafting \cup {"seating", "entering", "listing", "filing", "finding",
                             "unhosting", "removing", "destroying"}
Opened(k) == state[k] \in {"live", "gone"}
Extends(c) == \/ pc[c] \in {"finding", "listing"}
              \/ pc[c] = "unhosting" /\ job[c] = "join"

CallSafe(c) ==
  /\ pc[c] \in Drafting => state[cid[c]] = "named"
  /\ pc[c] \in {"seating", "entering", "removing", "destroying"} => Opened(cid[c])
  /\ pc[c] = "seating" /\ job[c] = "request" => who[c] \in invited[cid[c]]
  /\ pc[c] = "entering" => who[c] \in invited[cid[c]]
  /\ pc[c] \in {"listing", "filing"} =>
       /\ Opened(cid[c])
       /\ private[cid[c]] => who[c] \in invited[cid[c]] \cup {Tutor}
  /\ Extends(c) =>
       /\ Opened(cid[c])
       /\ private[cid[c]] => list[c] \subseteq invited[cid[c]] \cup {Tutor}
       /\ state[cid[c]] = "live" /\ cid[c] \notin crossed => list[c] = enrolled[cid[c]]
  /\ pc[c] = "filing" /\ state[cid[c]] = "live" /\ cid[c] \notin crossed =>
       who[c] \in enrolled[cid[c]]

Drafts == \A c, d \in Calls :
  c # d /\ pc[c] \in Drafting /\ pc[d] \in Drafting => cid[c] # cid[d]
Unborn == \A k \in ClassIds :
  ~Opened(k) => enrolled[k] = {} /\ ~private[k] /\ \A u \in Users : seats[k][u] = Null

(* The inductive invariant of lists and seats. *)
SeatsInv ==
  /\ TypesInv
  /\ \A c \in Calls : CallSafe(c)
  /\ Drafts /\ Unborn
  /\ SeatsListed /\ PrivateSealed

(* What a step of call c may do to the classes others work on. *)
Benign(c) ==
  \A k \in ClassIds :
    /\ Opened(k) => /\ Opened(k)'
                    /\ private'[k] => private[k]
                    /\ invited[k] \subseteq invited'[k]
                    /\ state'[k] = "live" => state[k] = "live"
    /\ \/ state[k] = "named" => state'[k] = "named"
       \/ cid[c] = k /\ pc[c] \in Drafting
    /\ k \notin crossed' =>
         /\ k \notin crossed
         /\ \/ enrolled'[k] = enrolled[k]
            \/ state'[k] # "live"
            \/ /\ enrolled[k] \subseteq enrolled'[k]
               /\ \A d \in Calls \ {c} : Extends(d) => cid[d] # k

(* A step that leaves lists, seats and classes alone is benign. *)
LEMMA FrameBenign ==
  ASSUME NEW c \in Calls, UNCHANGED <<state, enrolled, private, invited, crossed>>
  PROVE  Benign(c)
BY DEF Benign, Opened

(* After a benign step the other calls may rely on what they relied on. *)
LEMMA OthersSafe ==
  ASSUME HoldsOK, Drafts, NEW c \in Calls, NEW d \in Calls, d # c,
         CallSafe(d), Untouched(d), Benign(c)
  PROVE  CallSafe(d)'
<1>1. pc[d] \in SafePlaces => cid[d] \in ClassIds
  BY DEF HoldsOK, HoldsAt, SafePlaces, Drafting, ClassPlaces, CreatePlaces, EnrollPlaces,
         JoinPlaces, SweepPlaces, OtherPlaces
<1>2. CASE pc[d] \notin SafePlaces
  BY <1>2 DEF CallSafe, Untouched, SafePlaces, Extends
<1>3. CASE pc[d] \in SafePlaces
  <2>1. PICK k \in ClassIds : k = cid[d]
    BY <1>1, <1>3
  <2>2. /\ Opened(k) => /\ Opened(k)'
                        /\ private'[k] => private[k]
                        /\ invited[k] \subseteq invited'[k]
                        /\ state'[k] = "live" => state[k] = "live"
        /\ \/ state[k] = "named" => state'[k] = "named"
           \/ cid[c] = k /\ pc[c] \in Drafting
        /\ k \notin crossed' =>
             /\ k \notin crossed
             /\ \/ enrolled'[k] = enrolled[k]
                \/ state'[k] # "live"
                \/ /\ enrolled[k] \subseteq enrolled'[k]
                   /\ ~Extends(d)
    BY <2>1 DEF Benign
  <2>3. pc[d] \in Drafting => ~(cid[c] = k /\ pc[c] \in Drafting)
    BY <2>1 DEF Drafts
  <2>4. cid'[d] = k /\ pc'[d] = pc[d] /\ job'[d] = job[d] /\ who'[d] = who[d] /\ list'[d] = list[d]
    BY <2>1 DEF Untouched
  <2>5. Extends(d)' <=> Extends(d)
    BY <2>4 DEF Extends
  <2>6. CallSafe(d) <=>
          /\ pc[d] \in Drafting => state[k] = "named"
          /\ pc[d] \in {"seating", "entering", "removing", "destroying"} => Opened(k)
          /\ pc[d] = "seating" /\ job[d] = "request" => who[d] \in invited[k]
          /\ pc[d] = "entering" => who[d] \in invited[k]
          /\ pc[d] \in {"listing", "filing"} =>
               /\ Opened(k)
               /\ private[k] => who[d] \in invited[k] \cup {Tutor}
          /\ Extends(d) =>
               /\ Opened(k)
               /\ private[k] => list[d] \subseteq invited[k] \cup {Tutor}
               /\ state[k] = "live" /\ k \notin crossed => list[d] = enrolled[k]
          /\ pc[d] = "filing" /\ state[k] = "live" /\ k \notin crossed => who[d] \in enrolled[k]
    BY <2>1 DEF CallSafe
  <2>7. QED
    BY <2>2, <2>3, <2>4, <2>5, <2>6 DEF CallSafe
<1>4. QED BY <1>2, <1>3

(* At a place that relies on nothing a call is safe. *)
LEMMA FreeSafe ==
  ASSUME NEW c \in Calls, pc'[c] \notin SafePlaces PROVE CallSafe(c)'
BY DEF CallSafe, SafePlaces, Extends

(* Drafts remain apart: a step makes at most one, of a class without one.  *)
LEMMA DraftsApart ==
  ASSUME Drafts, NEW c \in Calls, \A d \in Calls : d # c => Untouched(d) /\ CallSafe(d),
         \/ pc'[c] \notin Drafting
         \/ pc[c] \in Drafting /\ cid'[c] = cid[c]
         \/ state[cid'[c]] # "named"
  PROVE  Drafts'
BY DEF Drafts, Untouched, CallSafe

(* A step whose effect on classes is benign, and after which the call that *)
(* takes it is safe, keeps the calls safe.                                 *)
LEMMA CallsSafe ==
  ASSUME SeatsInv, NEW c \in Calls, Benign(c), CallSafe(c)',
         \A d \in Calls : d # c => Untouched(d),
         \/ pc'[c] \notin Drafting
         \/ pc[c] \in Drafting /\ cid'[c] = cid[c]
         \/ state[cid'[c]] # "named"
  PROVE  Drafts' /\ \A d \in Calls : CallSafe(d)'
<1>1. HoldsOK /\ Drafts /\ \A d \in Calls : CallSafe(d)
  BY DEF SeatsInv, TypesInv
<1>2. Drafts'
  BY <1>1, DraftsApart
<1>3. \A d \in Calls : CallSafe(d)'
  BY <1>1, OthersSafe
<1>4. QED BY <1>2, <1>3

(* Steps after which no seat, list or class is other than before. *)
LEMMA TablesKept ==
  ASSUME SeatsInv, UNCHANGED <<state, enrolled, private, seats>>,
         \A k \in ClassIds : invited[k] \subseteq invited'[k], crossed \subseteq crossed'
  PROVE  Unborn' /\ SeatsListed' /\ PrivateSealed'
<1>1. Unborn'
  BY DEF SeatsInv, Unborn, Opened
<1>2. SeatsListed'
  BY DEF SeatsInv, SeatsListed
<1>3. PrivateSealed'
  BY DEF SeatsInv, PrivateSealed
<1>4. QED BY <1>1, <1>2, <1>3

(* Steps that take classes away. *)
LEMMA DestroyKeeps ==
  ASSUME SeatsInv, NEW c \in Calls, NEW ks \in SUBSET ClassIds, Destroy(ks), UNCHANGED ghosts,
         \A k \in ks : Opened(k)
  PROVE  Benign(c) /\ Unborn' /\ SeatsListed' /\ PrivateSealed'
<1>0. UNCHANGED <<invited, crossed>> /\ Null \notin Users
  BY ClassesAssumption DEF ghosts
<1>1. \A k \in ClassIds \ ks : /\ state'[k] = state[k] /\ enrolled'[k] = enrolled[k]
                               /\ private'[k] = private[k] /\ seats'[k] = seats[k]
  <2>1. \A k \in ClassIds \ ks : private'[k] <=> private[k]
    BY DEF Destroy
  <2>2. private \in [ClassIds -> BOOLEAN]
    BY DEF SeatsInv, TypesInv, ClassesTypeOK
  <2>3. \A k \in ClassIds \ ks : private'[k] = private[k]
    <3> TAKE k \in ClassIds \ ks
    <3>1. private'[k] = (k \notin ks /\ private[k])
      BY DEF Destroy
    <3>2. private[k] \in BOOLEAN
      BY <2>2
    <3>3. k \notin ks
      OBVIOUS
    <3>4. CASE private[k] = TRUE
      BY <3>1, <3>3, <3>4
    <3>5. CASE private[k] = FALSE
      BY <3>1, <3>3, <3>5
    <3>6. QED BY <3>2, <3>4, <3>5
  <2>4. QED BY <2>3 DEF Destroy
<1>2. \A k \in ks : /\ state'[k] = "gone" /\ enrolled'[k] = {} /\ ~private'[k]
                    /\ \A u \in Users : seats'[k][u] = Null
  <2>1. \A k \in ks : ~private'[k]
    BY DEF Destroy
  <2>2. QED BY <2>1 DEF Destroy, NoSeats
<1>3. Benign(c)
  BY <1>0, <1>1, <1>2 DEF Benign, Opened
<1>4. Unborn'
  BY <1>1, <1>2 DEF SeatsInv, Unborn, Opened
<1>5. SeatsListed'
  <2>0. Students \subseteq Users
    BY DEF Users
  <2>1. QED BY <1>0, <1>1, <1>2, <2>0 DEF SeatsInv, SeatsListed
<1>6. PrivateSealed'
  BY <1>0, <1>1, <1>2 DEF SeatsInv, PrivateSealed
<1>7. QED BY <1>3, <1>4, <1>5, <1>6

(* The invariant of lists and seats, step by step. *)
LEMMA SeatsStep ==
  ASSUME SeatsInv, TypesInv', NEW c \in Calls,
         \/ RoomsStep(c) /\ UNCHANGED cvars
         \/ Create(c) \/ Enroll(c) \/ Join(c) \/ Sweep(c) \/ Update(c) \/ Remove(c) \/ Stop(c)
  PROVE  SeatsInv'
<1>0. /\ ClassesTypeOK /\ HoldsOK /\ HoldsAt(c) /\ HeldOK /\ ClassTablesOK /\ GhostsOK
      /\ RoomCallsOK /\ CallSafe(c) /\ Drafts /\ Unborn /\ SeatsListed /\ PrivateSealed
      /\ Null \notin Users /\ Tutor \in Users /\ Tutor \notin Students /\ Students \subseteq Users
  BY Parts, ClassesAssumption DEF SeatsInv, TypesInv, HoldsOK, Users
<1>c. /\ pc[c] \in ClassPlaces => cid[c] \in ClassIds
      /\ pc[c] \in SafePlaces => pc[c] \in ClassPlaces
      /\ pc[c] \in SafePlaces => cid[c] \in ClassIds
  BY <1>0 DEF HoldsAt, SafePlaces, Drafting, ClassPlaces, CreatePlaces, EnrollPlaces,
              JoinPlaces, SweepPlaces, OtherPlaces
<1>o. \A d \in Calls : d # c => Untouched(d)
  BY <1>0, OneCall
<1>q. ASSUME Benign(c), CallSafe(c)', Unborn', SeatsListed', PrivateSealed',
             \/ pc'[c] \notin Drafting
             \/ pc[c] \in Drafting /\ cid'[c] = cid[c]
             \/ state[cid'[c]] # "named"
      PROVE  SeatsInv'
  <2>1. Drafts' /\ \A d \in Calls : CallSafe(d)'
    BY <1>o, <1>q, CallsSafe
  <2>2. QED BY <1>q, <2>1 DEF SeatsInv
<1>k. ASSUME UNCHANGED <<state, enrolled, private, seats, invited, crossed>>, CallSafe(c)',
             \/ pc'[c] \notin Drafting
             \/ pc[c] \in Drafting /\ cid'[c] = cid[c]
      PROVE  SeatsInv'
  <2>1. Benign(c)
    BY <1>k, FrameBenign
  <2>2. Unborn' /\ SeatsListed' /\ PrivateSealed'
    BY <1>k, TablesKept
  <2>3. QED BY <1>k, <1>q, <2>1, <2>2
<1>e. ASSUME UNCHANGED <<state, enrolled, private, seats, invited, crossed>>,
             pc'[c] \notin SafePlaces
      PROVE  SeatsInv'
  BY <1>e, <1>k, FreeSafe DEF SafePlaces
<1>f. /\ End(c) => pc'[c] \notin SafePlaces /\ pc'[c] \notin Drafting
      /\ \A k, r, t : Answer(c, k, r, t) => pc'[c] \notin SafePlaces /\ pc'[c] \notin Drafting
      /\ \A p : GoTo(c, p) => pc'[c] = p
      /\ \A p : Continue(c, p) => /\ pc'[c] = p /\ cid'[c] = cid[c] /\ who'[c] = who[c]
                                  /\ list'[c] = list[c] /\ job'[c] = job[c]
  BY <1>0 DEF End, Answer, Continue, GoTo, held, HeldOK, SafePlaces, Drafting
<1>g. UNCHANGED <<classes, ghosts>> =>
        UNCHANGED <<state, enrolled, private, seats, invited, crossed>>
  BY DEF classes, ghosts
<1>t. /\ {"done", "answered", "clearing", "saving", "altering", "writing"} \cap SafePlaces = {}
      /\ RoomPlaces \cap SafePlaces = {}
      /\ {"seating", "entering", "listing", "filing", "finding", "unhosting", "removing",
          "destroying"} \cap Drafting = {}
      /\ Drafting \subseteq SafePlaces
  BY DEF SafePlaces, Drafting, RoomPlaces, AddPlaces, DropPlaces, PurgePlaces
<1>1. CASE RoomsStep(c) /\ UNCHANGED cvars
  <2>1. UNCHANGED <<state, enrolled, private, seats, invited, crossed>>
    BY <1>1 DEF cvars, classes, ghosts
  <2>2. pc'[c] \in RoomPlaces \cup {"done"}
    BY <1>0, <1>1 DEF RoomsStep, AddFind, AddPost, AddTokens, AddRow, DropFind, DropDelete,
       DropRow, PurgeList, PurgeDelete, PurgeRows, Proceed, Leave, GoTo, HeldOK,
       RoomPlaces, AddPlaces, DropPlaces, PurgePlaces
  <2>3. QED BY <1>e, <1>t, <2>1, <2>2
<1>2. CASE CreatePost(c)
  <2>1. PICK k \in ClassIds :
          /\ state[k] = "none" /\ state' = [state EXCEPT ![k] = "named"]
          /\ cid' = [cid EXCEPT ![c] = k]
    BY <1>2 DEF CreatePost
  <2>2. /\ UNCHANGED <<enrolled, private, seats, invited, crossed>>
        /\ pc'[c] = "inserting" /\ cid'[c] = k
    BY <1>0, <1>2, <2>1 DEF CreatePost, GoTo, HeldOK, ghosts
  <2>3. state'[k] = "named" /\ \A j \in ClassIds \ {k} : state'[j] = state[j]
    BY <1>0, <2>1 DEF ClassTablesOK
  <2>4. Benign(c)
    BY <2>1, <2>2, <2>3 DEF Benign, Opened
  <2>5. Unborn'
    BY <1>0, <2>1, <2>2, <2>3 DEF Unborn, Opened
  <2>6. SeatsListed' /\ PrivateSealed'
    BY <1>0, <2>2 DEF SeatsListed, PrivateSealed
  <2>7. CallSafe(c)'
    BY <2>2, <2>3 DEF CallSafe, Drafting, Extends
  <2>8. QED BY <1>q, <2>1, <2>2, <2>4, <2>5, <2>6, <2>7
<1>3. CASE CreateRoomRow(c) \/ CreateCheck(c)
  <2>1. UNCHANGED <<state, enrolled, private, seats, invited, crossed>>
    BY <1>3, <1>g DEF CreateRoomRow, CreateCheck
  <2>2. CASE End(c)
    BY <1>e, <1>f, <2>1, <2>2
  <2>3. CASE pc[c] \in Drafting /\ \E p \in {"checking", "scheduling"} : Continue(c, p)
    <3>1. pc'[c] \in {"checking", "scheduling"} /\ cid'[c] = cid[c]
      BY <1>f, <2>3
    <3>2. CallSafe(c)'
      BY <1>0, <2>1, <2>3, <3>1 DEF CallSafe, Drafting, Extends
    <3>3. QED BY <1>k, <2>1, <2>3, <3>1, <3>2
  <2>4. QED BY <1>3, <2>2, <2>3 DEF CreateRoomRow, CreateCheck, Drafting
<1>4. CASE CreateInsert(c)
  <2> DEFINE k == cid[c]
  <2>1. pc[c] \in Drafting /\ k \in ClassIds /\ state[k] = "named"
    BY <1>0, <1>4, <1>c DEF CreateInsert, Drafting, SafePlaces, CallSafe
  <2>2. CASE End(c) /\ UNCHANGED <<state, class, private, invited>>
    BY <1>4, <1>e, <1>f, <2>2 DEF CreateInsert
  <2>3. CASE /\ state' = [state EXCEPT ![k] = "live"]
             /\ private' = [private EXCEPT ![k] = job[c] = "request"]
             /\ invited' = [invited EXCEPT ![k] = {who[c]} \ {Null}]
             /\ Continue(c, "seating")
    <3>1. UNCHANGED <<enrolled, seats, crossed>>
      BY <1>4 DEF CreateInsert
    <3>2. /\ state'[k] = "live" /\ invited'[k] = {who[c]} \ {Null}
          /\ \A j \in ClassIds \ {k} : /\ state'[j] = state[j] /\ private'[j] = private[j]
                                       /\ invited'[j] = invited[j]
      <4>1. state'[k] = "live" /\ invited'[k] = {who[c]} \ {Null}
        BY <1>0, <2>1, <2>3 DEF ClassTablesOK, GhostsOK
      <4>2. \A j \in ClassIds \ {k} : state'[j] = state[j] /\ invited'[j] = invited[j]
        BY <1>0, <2>3 DEF ClassTablesOK, GhostsOK
      <4>3. \A j \in ClassIds \ {k} : private'[j] = private[j]
        BY <1>0, <2>3 DEF ClassTablesOK
      <4>4. QED BY <4>1, <4>2, <4>3
    <3>3. enrolled[k] = {} /\ \A u \in Users : seats[k][u] = Null
      BY <1>0, <2>1 DEF Unborn, Opened
    <3>4. Benign(c)
      BY <2>1, <3>1, <3>2 DEF Benign, Opened
    <3>5. Unborn'
      BY <1>0, <3>1, <3>2 DEF Unborn, Opened
    <3>6. SeatsListed'
      BY <1>0, <3>1 DEF SeatsListed
    <3>7. PrivateSealed'
      BY <1>0, <3>1, <3>2, <3>3 DEF PrivateSealed
    <3>8. pc'[c] = "seating" /\ cid'[c] = k /\ who'[c] = who[c] /\ job'[c] = job[c]
      BY <1>f, <2>3
    <3>9. job[c] = "request" => who[c] \in Users
      BY <1>0, <1>4 DEF HoldsAt, CreateInsert, CreatePlaces
    <3>10. CallSafe(c)'
      BY <1>0, <3>2, <3>8, <3>9 DEF CallSafe, Drafting, Extends, Opened
    <3>11. QED BY <1>q, <1>t, <3>4, <3>5, <3>6, <3>7, <3>8, <3>10
  <2>4. QED BY <1>4, <2>2, <2>3 DEF CreateInsert
<1>5. CASE CreateSeat(c)
  <2> DEFINE k == cid[c]
  <2>1. pc[c] = "seating" /\ k \in ClassIds /\ Opened(k)
    BY <1>0, <1>5, <1>c DEF CreateSeat, SafePlaces, CallSafe
  <2>2. UNCHANGED <<state, enrolled, private, invited, crossed>>
    BY <1>5 DEF CreateSeat, ghosts
  <2>3. \A j \in ClassIds, u \in Users : seats'[j][u] # seats[j][u] => j = k /\ u = Tutor
    <3>1. CASE seats' = [seats EXCEPT ![k] = [@ EXCEPT ![Tutor] = seen[c].owner]]
      <4>1. seats' = [seats EXCEPT ![k] = [seats[k] EXCEPT ![Tutor] = seen[c].owner]]
        BY <3>1
      <4>2. QED BY <1>0, <2>1, <4>1 DEF ClassTablesOK
    <3>2. CASE UNCHANGED seats
      BY <3>2
    <3>3. QED BY <1>5, <3>1, <3>2 DEF CreateSeat
  <2>4. Benign(c)
    BY <2>2, FrameBenign
  <2>5. Unborn'
    BY <1>0, <2>1, <2>2, <2>3 DEF Unborn, Opened
  <2>6. SeatsListed'
    BY <1>0, <2>2, <2>3 DEF SeatsListed
  <2>7. PrivateSealed'
    BY <1>0, <2>2, <2>3 DEF PrivateSealed
  <2>8. CASE End(c)
    BY <1>f, <1>q, <2>4, <2>5, <2>6, <2>7, <2>8, FreeSafe
  <2>9. CASE Continue(c, "entering") /\ job[c] = "request"
    <3>1. pc'[c] = "entering" /\ cid'[c] = k /\ who'[c] = who[c]
      BY <1>f, <2>9
    <3>2. CallSafe(c)'
      BY <1>0, <2>1, <2>2, <2>9, <3>1 DEF CallSafe, Drafting, Extends, Opened
    <3>3. QED BY <1>q, <1>t, <2>4, <2>5, <2>6, <2>7, <3>1, <3>2
  <2>10. QED BY <1>5, <2>8, <2>9 DEF CreateSeat
<1>6. ASSUME NEW j \in Jobs, NEW k \in ClassIds, NEW u \in Users \cup {Null},
             ReadClass(c, j, k, u), pc'[c] \notin Drafting,
             pc'[c] # "filing",
             UNCHANGED <<state, enrolled, private, seats, crossed>>,
             \A i \in ClassIds : invited[i] \subseteq invited'[i],
             pc'[c] \in {"entering", "listing", "seating"} => u \in invited'[k],
             pc'[c] = "unhosting" /\ j = "join" => u # Null,
             pc'[c] \in {"listing", "finding"} => u # Null
      PROVE  SeatsInv'
  <2>1. /\ cid'[c] = k /\ who'[c] = u /\ job'[c] = j /\ state[k] = "live"
        /\ u # Null => list'[c] = enrolled[k]
    BY <1>0, <1>6 DEF ReadClass, HeldOK
  <2>2. private[k] => enrolled[k] \subseteq invited[k] \cup {Tutor}
    BY <1>0 DEF PrivateSealed, ClassTablesOK
  <2>3. CallSafe(c)'
    BY <1>6, <2>1, <2>2 DEF CallSafe, Extends, Opened
  <2>4. Benign(c)
    BY <1>6 DEF Benign, Opened
  <2>5. Unborn' /\ SeatsListed' /\ PrivateSealed'
    BY <1>6, TablesKept
  <2>6. QED BY <1>6, <1>q, <2>3, <2>4, <2>5
<1>7. CASE EnrollRead(c)
  <2>1. UNCHANGED <<state, enrolled, private, seats, crossed>>
    BY <1>7 DEF EnrollRead, classes
  <2>2. ASSUME NEW k \in ClassIds, NEW u \in Users \ {Admin},
               ReadClass(c, "enroll", k, u), invited' = [invited EXCEPT ![k] = @ \cup {u}],
               GoTo(c, "listing")
        PROVE  SeatsInv'
    <3>1. u \in invited'[k] /\ \A i \in ClassIds : invited[i] \subseteq invited'[i]
      BY <1>0, <2>2 DEF GhostsOK
    <3>2. pc'[c] = "listing" /\ "enroll" \in Jobs
      BY <1>f, <2>2 DEF Jobs
    <3>3. QED BY <1>0, <1>6, <1>t, <2>1, <2>2, <3>1, <3>2
  <2>3. CASE /\ pc[c] = "entering" /\ ReadClass(c, "request", cid[c], who[c])
             /\ GoTo(c, "listing") /\ UNCHANGED invited
    <3>1. cid[c] \in ClassIds /\ who[c] \in Users /\ who[c] \in invited[cid[c]]
      BY <1>0, <1>c, <2>3 DEF CallSafe, HoldsAt, SafePlaces
    <3>2. pc'[c] = "listing" /\ "request" \in Jobs
      BY <1>f, <2>3 DEF Jobs
    <3>3. QED BY <1>0, <1>6, <1>t, <2>1, <2>3, <3>1, <3>2
  <2>4. CASE End(c) /\ UNCHANGED invited
    BY <1>e, <1>f, <2>1, <2>4
  <2>5. QED
    <3>1. \/ \E k \in ClassIds, u \in Users \ {Admin} :
                /\ ReadClass(c, "enroll", k, u) /\ invited' = [invited EXCEPT ![k] = @ \cup {u}]
                /\ GoTo(c, "listing")
          \/ /\ pc[c] = "entering" /\ ReadClass(c, "request", cid[c], who[c])
             /\ GoTo(c, "listing") /\ UNCHANGED invited
          \/ End(c) /\ UNCHANGED invited
      BY <1>7 DEF EnrollRead
    <3>2. QED BY <2>2, <2>3, <2>4, <3>1
<1>8. CASE SaveList(c)
  <2> DEFINE k == cid[c]
             saved == who[c] \notin list[c] /\ state[k] = "live"
  <2>1. /\ pc[c] = "listing" /\ k \in ClassIds /\ Opened(k) /\ who[c] \in Users
        /\ private[k] => who[c] \in invited[k] \cup {Tutor}
        /\ private[k] => list[c] \subseteq invited[k] \cup {Tutor}
        /\ state[k] = "live" /\ k \notin crossed => list[c] = enrolled[k]
    BY <1>0, <1>8, <1>c DEF SaveList, SafePlaces, CallSafe, HoldsAt, Extends
  <2>2. /\ enrolled' = IF saved THEN [enrolled EXCEPT ![k] = list[c] \cup {who[c]}]
                                ELSE enrolled
        /\ crossed' = IF saved /\ Extending(k) # {c} THEN crossed \cup {k} ELSE crossed
        /\ UNCHANGED <<state, private, seats, invited>>
    BY <1>8 DEF SaveList
  <2>3. \A j \in ClassIds \ {k} : enrolled'[j] = enrolled[j]
    BY <1>0, <2>2 DEF ClassTablesOK
  <2>4. saved => enrolled'[k] = list[c] \cup {who[c]}
    BY <1>0, <2>1, <2>2 DEF ClassTablesOK
  <2>5. ~saved => enrolled'[k] = enrolled[k]
    BY <2>2
  <2>6. saved /\ k \notin crossed' => \A d \in Calls \ {c} : Extends(d) => cid[d] # k
    BY <2>2 DEF Extending, Extends
  <2>7. crossed \subseteq crossed'
    BY <2>2
  <2>8. k \notin crossed' /\ state[k] = "live" => enrolled[k] \subseteq enrolled'[k]
    BY <2>1, <2>4, <2>5, <2>7
  <2>9. state[k] # "live" => enrolled'[k] = enrolled[k]
    BY <2>5
  <2> HIDE DEF saved
  <2>10. Benign(c)
    BY <2>2, <2>3, <2>4, <2>5, <2>6, <2>7, <2>8, <2>9 DEF Benign, Opened
  <2>11. Unborn'
    BY <1>0, <2>1, <2>2, <2>3 DEF Unborn, Opened
  <2>12. SeatsListed'
    BY <1>0, <2>1, <2>2, <2>3, <2>7, <2>8, <2>9 DEF SeatsListed
  <2>13. PrivateSealed'
    BY <1>0, <2>1, <2>2, <2>3, <2>4, <2>5 DEF PrivateSealed
  <2>14. pc'[c] = "filing" /\ cid'[c] = k /\ who'[c] = who[c]
    BY <1>f, <1>8 DEF SaveList
  <2>15. state[k] = "live" /\ k \notin crossed' => who[c] \in enrolled'[k]
    BY <2>1, <2>4, <2>5, <2>7 DEF saved
  <2>16. CallSafe(c)'
    BY <2>1, <2>2, <2>14, <2>15 DEF CallSafe, Drafting, Extends, Opened
  <2>17. QED BY <1>q, <1>t, <2>10, <2>11, <2>12, <2>13, <2>14, <2>16
<1>9. CASE File(c)
  <2> DEFINE k == cid[c]
  <2>1. /\ pc[c] = "filing" /\ k \in ClassIds /\ Opened(k) /\ who[c] \in Users
        /\ private[k] => who[c] \in invited[k] \cup {Tutor}
        /\ state[k] = "live" /\ k \notin crossed => who[c] \in enrolled[k]
    BY <1>0, <1>9, <1>c DEF File, SafePlaces, CallSafe, HoldsAt
  <2>2. UNCHANGED <<state, enrolled, private, invited, crossed>>
    BY <1>9 DEF File, ghosts
  <2>3. \A j \in ClassIds, u \in Users :
          seats'[j][u] # seats[j][u] => j = k /\ u = who[c] /\ state[k] = "live"
    <3>1. CASE /\ seats' = [seats EXCEPT ![k] = [@ EXCEPT ![who[c]] = seen[c].room]]
               /\ state[k] = "live"
      <4>1. seats' = [seats EXCEPT ![k] = [seats[k] EXCEPT ![who[c]] = seen[c].room]]
        BY <3>1
      <4>2. QED BY <1>0, <2>1, <3>1, <4>1 DEF ClassTablesOK
    <3>2. CASE UNCHANGED seats
      BY <3>2
    <3>3. QED BY <1>9, <3>1, <3>2 DEF File
  <2>4. Benign(c)
    BY <2>2, FrameBenign
  <2>5. Unborn'
    BY <1>0, <2>1, <2>2, <2>3 DEF Unborn, Opened
  <2>6. SeatsListed'
    BY <1>0, <2>1, <2>2, <2>3 DEF SeatsListed
  <2>7. PrivateSealed'
    BY <1>0, <2>1, <2>2, <2>3 DEF PrivateSealed
  <2>8. pc'[c] \notin SafePlaces /\ pc'[c] \notin Drafting
    BY <1>9, <1>f DEF File
  <2>9. QED BY <1>q, <2>4, <2>5, <2>6, <2>7, <2>8, FreeSafe
<1>10. CASE JoinRead(c)
  <2>1. UNCHANGED <<state, enrolled, private, seats, invited, crossed>>
    BY <1>10, <1>g DEF JoinRead
  <2>2. PICK k \in ClassIds, u \in Users :
          \/ /\ ReadClass(c, "join", k, u)
             /\ GoTo(c, "unhosting") \/ GoTo(c, Onward(u, class[k]))
          \/ Answer(c, k, class[k], HostToken(u, class[k]))
    BY <1>10 DEF JoinRead
  <2>3. "join" \in Jobs /\ Onward(u, class[k]) \in {"saving", "finding"}
    BY DEF Jobs, Onward
  <2>4. CASE ReadClass(c, "join", k, u) /\ (GoTo(c, "unhosting") \/ GoTo(c, Onward(u, class[k])))
    <3>1. pc'[c] \in {"unhosting", "saving", "finding"}
      BY <1>f, <2>3, <2>4
    <3>2. pc'[c] \notin Drafting
      BY <3>1 DEF Drafting
    <3>3. QED BY <1>0, <1>6, <2>1, <2>3, <2>4, <3>1, <3>2
  <2>5. CASE Answer(c, k, class[k], HostToken(u, class[k]))
    BY <1>e, <1>f, <2>1, <2>5
  <2>6. QED BY <2>2, <2>4, <2>5
<1>11. CASE SaveOwner(c)
  BY <1>11, <1>e, <1>f DEF SaveOwner, ghosts
<1>12. ASSUME UNCHANGED <<state, enrolled, private, seats, invited, crossed>>, Extends(c),
              NEW p \in {"finding", "listing"}, Continue(c, p),
              p = "listing" /\ private[cid[c]] => who[c] \in list[c]
       PROVE  SeatsInv'
  <2>1. /\ Opened(cid[c])
        /\ private[cid[c]] => list[c] \subseteq invited[cid[c]] \cup {Tutor}
        /\ state[cid[c]] = "live" /\ cid[c] \notin crossed => list[c] = enrolled[cid[c]]
    BY <1>0, <1>12 DEF CallSafe
  <2>2. pc'[c] = p /\ cid'[c] = cid[c] /\ who'[c] = who[c] /\ list'[c] = list[c]
    BY <1>f, <1>12
  <2>3. CallSafe(c)'
    BY <1>12, <2>1, <2>2 DEF CallSafe, Drafting, Extends, Opened
  <2>4. QED BY <1>12, <1>k, <1>t, <2>2, <2>3
<1>13. CASE FindSeat(c)
  <2>1. UNCHANGED <<state, enrolled, private, seats, invited, crossed>> /\ Extends(c)
    BY <1>13, <1>g DEF FindSeat, Extends
  <2>2. \/ Answer(c, cid[c], seen[c], seats[cid[c]][who[c]])
        \/ (private[cid[c]] => who[c] \in list[c]) /\ Continue(c, "listing")
        \/ End(c)
    BY <1>13 DEF FindSeat
  <2>3. QED BY <1>12, <1>e, <1>f, <2>1, <2>2
<1>14. CASE SweepRead(c)
  <2>1. UNCHANGED <<state, enrolled, private, seats, invited, crossed>>
    BY <1>14, <1>g DEF SweepRead
  <2>2. PICK k \in ClassIds : ReadClass(c, "sweep", k, Null)
    BY <1>14 DEF SweepRead
  <2>3. pc'[c] = "unhosting" /\ "sweep" \in Jobs /\ "sweep" # "join"
    BY <1>14, <1>f DEF SweepRead, Jobs
  <2>4. QED BY <1>6, <1>t, <2>1, <2>2, <2>3
<1>15. CASE SweepUnhost(c)
  <2>1. UNCHANGED <<state, enrolled, private, seats, invited, crossed>>
    BY <1>15, <1>g DEF SweepUnhost
  <2>2. /\ pc[c] = "unhosting"
        /\ \/ Continue(c, "clearing")
           \/ Answer(c, cid[c], seen[c], HostToken(who[c], seen[c]))
           \/ job[c] = "join" /\ Continue(c, Onward(who[c], seen[c]))
           \/ End(c)
    BY <1>15 DEF SweepUnhost
  <2>3. CASE job[c] = "join" /\ Continue(c, Onward(who[c], seen[c]))
    <3>1. Extends(c) /\ Onward(who[c], seen[c]) \in {"saving", "finding"}
      BY <2>2, <2>3 DEF Extends, Onward
    <3>2. QED BY <1>12, <1>e, <1>f, <1>t, <2>1, <2>3, <3>1
  <2>4. QED BY <1>e, <1>f, <1>t, <2>1, <2>2, <2>3
<1>16. CASE SweepClear(c)
  BY <1>16, <1>e, <1>f DEF SweepClear, ghosts
<1>17. CASE Update(c)
  <2>1. UNCHANGED <<state, enrolled, private, seats, invited, crossed>>
    BY <1>17 DEF Update, UpdateRead, UpdateAlter, UpdateWrite, classes, ghosts
  <2>2. pc'[c] \in {"altering", "writing", "done"}
    <3>1. \/ \E p \in {"altering", "writing"} : GoTo(c, p)
          \/ Continue(c, "writing")
          \/ End(c)
      BY <1>17 DEF Update, UpdateRead, UpdateAlter, UpdateWrite
    <3>2. QED BY <1>f, <3>1 DEF End
  <2>3. QED BY <1>e, <1>t, <2>1, <2>2
<1>18. CASE RemoveRead(c)
  <2>1. UNCHANGED <<state, enrolled, private, seats, invited, crossed>>
    BY <1>18, <1>g DEF RemoveRead
  <2>2. PICK k \in ClassIds : ReadClass(c, "remove", k, Null)
    BY <1>18 DEF RemoveRead
  <2>3. pc'[c] = "removing" /\ "remove" \in Jobs
    BY <1>18, <1>f DEF RemoveRead, Jobs
  <2>4. QED BY <1>6, <1>t, <2>1, <2>2, <2>3
<1>19. CASE RemoveUnhost(c)
  <2>1. UNCHANGED <<state, enrolled, private, seats, invited, crossed>>
    BY <1>19, <1>g DEF RemoveUnhost
  <2>2. pc'[c] = "destroying" /\ cid'[c] = cid[c] /\ Opened(cid[c])
    BY <1>0, <1>19, <1>f DEF RemoveUnhost, CallSafe
  <2>3. CallSafe(c)'
    BY <2>1, <2>2 DEF CallSafe, Drafting, Extends, Opened
  <2>4. QED BY <1>k, <1>t, <2>1, <2>2, <2>3
<1>20. CASE RemoveRow(c)
  <2>1. cid[c] \in ClassIds /\ Opened(cid[c])
    BY <1>0, <1>20, <1>c DEF RemoveRow, CallSafe, SafePlaces
  <2>2. Destroy({cid[c]}) /\ UNCHANGED ghosts /\ pc'[c] \notin SafePlaces /\ pc'[c] \notin Drafting
    BY <1>20, <1>f DEF RemoveRow
  <2>3. QED BY <1>q, <2>1, <2>2, DestroyKeeps, FreeSafe
<1>21. CASE PurgeClasses(c)
  <2> DEFINE ks == {k \in ClassIds : state[k] = "live" /\ class[k].start > now}
  <2>1. Destroy(ks) /\ UNCHANGED ghosts /\ pc'[c] = "done"
    BY <1>21, <1>f DEF PurgeClasses
  <2>2. \A k \in ks : Opened(k)
    BY DEF Opened
  <2>3. QED BY <1>q, <1>t, <2>1, <2>2, DestroyKeeps, FreeSafe
<1>22. CASE Stop(c)
  BY <1>22, <1>e, <1>f, <1>g DEF Stop
<1>23. QED
  BY <1>1, <1>2, <1>3, <1>4, <1>5, <1>7, <1>8, <1>9, <1>10, <1>11, <1>13, <1>14, <1>15, <1>16,
     <1>17, <1>18, <1>19, <1>20, <1>21, <1>22
     DEF Create, Enroll, Join, Sweep, Remove

(* The invariant of lists and seats holds at the beginning. *)
LEMMA SeatsInit == Init => SeatsInv
<1> SUFFICES ASSUME Init PROVE SeatsInv
  OBVIOUS
<1>1. TypesInv
  BY TypesInit
<1>2. \A c \in Calls : pc[c] = "idle"
  BY DEF Init
<1>3. (\A c \in Calls : CallSafe(c)) /\ Drafts
  BY <1>2 DEF CallSafe, Drafts, Drafting, Extends
<1>4. PICK old \in SUBSET ClassIds, guest \in {{}} \cup {{u} : u \in Students},
           lesson \in BOOLEAN :
        \E title \in [old -> Titles] :
          /\ \A j, k \in old : title[j] = title[k] => j = k
          /\ hosted = IF old = ClassIds THEN Rooms ELSE old
          /\ row = [r \in Rooms |-> IF r \in hosted THEN Earlier ELSE Null]
          /\ state = [k \in ClassIds |-> IF k \in old THEN "live" ELSE "none"]
          /\ class = [k \in ClassIds |-> IF k \in old THEN Begun(k, title[k]) ELSE NoRow]
          /\ seats = [k \in ClassIds |-> [u \in Users |->
                        IF k \in old /\ u \in guest \cup {Tutor} THEN k ELSE Null]]
          /\ enrolled = [k \in ClassIds |-> IF k \in old THEN guest ELSE {}]
          /\ guest # {} => lesson
          /\ lesson => old # ClassIds
          /\ private = [k \in ClassIds |-> k \in old /\ lesson]
          /\ invited = [k \in ClassIds |-> IF k \in old THEN guest ELSE {}]
  BY Zenon DEF Init
<1>5. /\ state = [k \in ClassIds |-> IF k \in old THEN "live" ELSE "none"]
      /\ seats = [k \in ClassIds |-> [u \in Users |->
                    IF k \in old /\ u \in guest \cup {Tutor} THEN k ELSE Null]]
      /\ enrolled = [k \in ClassIds |-> IF k \in old THEN guest ELSE {}]
      /\ private = [k \in ClassIds |-> k \in old /\ lesson]
      /\ invited = [k \in ClassIds |-> IF k \in old THEN guest ELSE {}]
  BY <1>4
<1>6. \A k \in ClassIds : k \notin old => ~private[k]
  BY <1>5
<1>7. Tutor \notin Students /\ Students \subseteq Users
  BY ClassesAssumption DEF Users
<1>8. Unborn
  BY <1>5, <1>6 DEF Unborn, Opened
<1>9. SeatsListed
  BY <1>5, <1>7 DEF SeatsListed
<1>10. PrivateSealed
  BY <1>5, <1>6 DEF PrivateSealed
<1>11. QED BY <1>1, <1>3, <1>8, <1>9, <1>10 DEF SeatsInv

(* Every step keeps it. *)
LEMMA SeatsNext == SeatsInv /\ [Next]_vars => SeatsInv'
<1> SUFFICES ASSUME SeatsInv, [Next]_vars PROVE SeatsInv'
  OBVIOUS
<1>1. TypesInv /\ TypesInv'
  BY TypesStep DEF SeatsInv
<1>2. ASSUME NEW c \in Calls,
             \/ RoomsStep(c) /\ UNCHANGED cvars
             \/ Create(c) \/ Enroll(c) \/ Join(c) \/ Sweep(c) \/ Update(c) \/ Remove(c)
             \/ Stop(c)
      PROVE  SeatsInv'
  BY <1>1, <1>2, SeatsStep
<1>3. ASSUME UNCHANGED <<pc, classes, held, ghosts>> PROVE SeatsInv'
  <2>1. UNCHANGED <<pc, state, enrolled, private, seats, cid, who, list, job, invited, crossed>>
    BY <1>3 DEF classes, held, ghosts
  <2>2. (\A c \in Calls : CallSafe(c)') /\ Drafts'
    BY <2>1 DEF SeatsInv, CallSafe, Drafts, Drafting, Extends, Opened
  <2>3. Unborn' /\ SeatsListed' /\ PrivateSealed'
    BY <2>1, TablesKept
  <2>4. QED BY <1>1, <2>2, <2>3 DEF SeatsInv
<1>4. CASE Tick
  BY <1>3, <1>4 DEF Tick
<1>5. CASE UNCHANGED vars
  BY <1>3, <1>5 DEF vars, cvars
<1>6. QED BY <1>2, <1>4, <1>5 DEF Next, Quiet

(* Whoever has a seat is on the list of the class, unless two calls        *)
(* crossed: whatever stops, is retried, moved or swept.                    *)
THEOREM SeatsAreListed == Spec => []SeatsListed
<1>1. SeatsInv => SeatsListed
  BY DEF SeatsInv
<1>2. QED BY SeatsInit, SeatsNext, <1>1, PTL DEF Spec

(* No stranger gets onto the list or into a seat of a private lesson, nor  *)
(* does who is made its tutor: only the tutor it was scheduled for, its    *)
(* student and who enrolled expressly, though the tutor may change.        *)
THEOREM PrivateLessonsSealed == Spec => []PrivateSealed
<1>1. SeatsInv => PrivateSealed
  BY DEF SeatsInv
<1>2. QED BY SeatsInit, SeatsNext, <1>1, PTL DEF Spec
(* A call that has not inserted its row; the calls that make a room.       *)
FreshPlaces == {"idle", "posting", "equipping", "recording", "inserting"}
MakePlaces  == {"equipping", "recording", "inserting"}

(* A room is accounted for without its row. *)
Accounted(r) == \/ r \notin hosted
                \/ r \in stray
                \/ \E c \in Calls : Making(c, r)

(* No row is a call's that has not inserted one. *)
Fresh == \A c \in Calls : pc[c] \in FreshPlaces =>
           /\ \A r \in Rooms : row[r] # c
           /\ \A d \in Calls : key[d] # c
KeysFound == \A c \in Calls : pc[c] \in {"dropping", "erasing"} => key[c] # Null

(* A row that is about to be deleted is of a room deleted already. *)
Erased == \A c \in Calls : pc[c] = "erasing" /\ row[room[c]] = key[c] => Accounted(room[c])

(* What is on a purge's list, or was missed by it. *)
Listed == \A p \in Calls : pc[p] = "purging" =>
            \A r \in RoomNames \cap hosted : r \in left[p] \cup stray

(* The inductive invariant of rooms. *)
RoomsInv == /\ TypesInv
            /\ Fresh /\ KeysFound /\ Erased /\ Listed
            /\ ProviderRoomKnown

(* What a step of call c may do to rooms and rows. *)
RoomEffect(c) ==
  /\ \A r \in Rooms : Accounted(r) =>
       \/ Accounted(r)'
       \/ row'[r] = c /\ pc[c] \in FreshPlaces
  /\ \A r \in Rooms :
       \/ row'[r] = row[r]
       \/ row'[r] = c /\ pc[c] \in FreshPlaces /\ pc'[c] \notin FreshPlaces
       \/ row'[r] = Null /\ Accounted(r)'
  /\ stray \subseteq stray'
  /\ hosted' \subseteq hosted \/ Purging => hosted' \subseteq hosted \cup stray'

(* A call that makes no room leaves those accounted for that others make,  *)
(* and those it takes down.                                                *)
LEMMA MakersRemain ==
  ASSUME NEW c \in Calls, \A d \in Calls : d # c => Untouched(d),
         pc[c] \notin MakePlaces, hosted' \subseteq hosted, stray \subseteq stray'
  PROVE  \A r \in Rooms : Accounted(r) => Accounted(r)'
BY DEF Accounted, Making, MakePlaces, Untouched

(* So it does if it touches no row. *)
LEMMA NoRowsTouched ==
  ASSUME NEW c \in Calls, \A d \in Calls : d # c => Untouched(d),
         pc[c] \notin MakePlaces, hosted' \subseteq hosted, stray \subseteq stray', row' = row
  PROVE  RoomEffect(c)
BY MakersRemain DEF RoomEffect

(* A room that c is done with is accounted for as long as it is stray, not *)
(* hosted, or has c's row; the others are as before.                       *)
LEMMA MakerLeaves ==
  ASSUME NEW c \in Calls, \A d \in Calls : d # c => Untouched(d), NEW x \in Rooms,
         \A r \in Rooms : Making(c, r) => r = x,
         x \notin hosted' \/ x \in stray' \/ row'[x] = c,
         hosted' \subseteq hosted, stray \subseteq stray'
  PROVE  \A r \in Rooms : Accounted(r) => Accounted(r)' \/ row'[r] = c
BY DEF Accounted, Making, Untouched

(* Every step has only such effects. *)
LEMMA RoomEffects ==
  ASSUME RoomsInv, NEW c \in Calls,
         \/ RoomsStep(c) /\ UNCHANGED cvars
         \/ Create(c) \/ Enroll(c) \/ Join(c) \/ Sweep(c) \/ Update(c) \/ Remove(c) \/ Stop(c)
  PROVE  RoomEffect(c)
<1>0. /\ TypesInv /\ ClassesTypeOK /\ HoldsOK /\ HoldsAt(c) /\ HeldOK /\ RoomCallsOK /\ TablesOK
      /\ Fresh /\ KeysFound /\ Erased /\ Listed
      /\ ClassIds \subseteq Rooms
  BY Parts, RoomsAssumption DEF RoomsInv, TypesInv, HoldsOK, Rooms
<1>o. \A d \in Calls : d # c => Untouched(d)
  BY <1>0, OneCall
<1>m. {"posting", "equipping", "recording", "idle", "inserting"} \subseteq FreshPlaces
  BY DEF FreshPlaces
<1>f. /\ End(c) => pc'[c] = "done"
      /\ Leave(c) => pc'[c] = "done"
      /\ \A p : GoTo(c, p) => pc'[c] = p
      /\ \A p : Continue(c, p) => pc'[c] = p
      /\ \A p : Proceed(c, p) => pc'[c] = p /\ room'[c] = room[c]
  BY <1>0 DEF End, Leave, Proceed, Continue, GoTo, HeldOK
<1>1. CASE AddFind(c) \/ DropFind(c) \/ PurgeList(c)
  BY <1>o, <1>1, NoRowsTouched DEF AddFind, DropFind, PurgeList, MakePlaces
<1>2. CASE AddPost(c)
  <2>1. pc[c] = "posting" /\ room[c] \in Rooms
    BY <1>0, <1>2 DEF AddPost, HoldsAt, NamedPlaces
  <2>2. CASE room[c] \in hosted
    BY <1>o, <1>2, <2>1, <2>2, NoRowsTouched DEF AddPost, MakePlaces
  <2>3. CASE room[c] \notin hosted
    <3>1. /\ hosted' = hosted \cup {room[c]} /\ row' = row
          /\ stray' = IF Purging THEN stray \cup {room[c]} ELSE stray
          /\ pc'[c] = "equipping" /\ room'[c] = room[c]
      BY <1>f, <1>2, <2>3 DEF AddPost
    <3>3. ASSUME NEW r \in Rooms, Accounted(r) PROVE Accounted(r)'
      <4>1. CASE r = room[c]
        BY <3>1, <4>1 DEF Accounted, Making
      <4>2. CASE r # room[c]
        BY <1>o, <2>1, <3>1, <3>3, <4>2 DEF Accounted, Making, Untouched
      <4>3. QED BY <4>1, <4>2
    <3>4. QED BY <3>1, <3>3 DEF RoomEffect
  <2>4. QED BY <2>2, <2>3
<1>3. CASE AddTokens(c)
  <2>1. pc[c] = "equipping" /\ room[c] \in Rooms /\ row' = row
    BY <1>0, <1>3 DEF AddTokens, HoldsAt, NamedPlaces
  <2>2. CASE Proceed(c, "recording") /\ UNCHANGED <<hosted, stray>>
    <3>1. pc'[c] = "recording" /\ room'[c] = room[c]
      BY <1>f, <2>2
    <3>2. \A r \in Rooms : Making(c, r) => Making(c, r)'
      BY <2>1, <3>1 DEF Making
    <3>3. \A r \in Rooms : Accounted(r) => Accounted(r)'
      BY <1>o, <2>2, <3>2 DEF Accounted, Making, Untouched
    <3>4. QED BY <2>1, <2>2, <3>3 DEF RoomEffect
  <2>3. CASE \/ Unhost(room[c]) /\ UNCHANGED stray
             \/ stray' = stray \cup {room[c]} /\ UNCHANGED hosted
    <3>1. \A r \in Rooms : Making(c, r) => r = room[c]
      BY <2>1 DEF Making
    <3>2. /\ room[c] \notin hosted' \/ room[c] \in stray'
          /\ hosted' \subseteq hosted /\ stray \subseteq stray'
      BY <2>3 DEF Unhost
    <3>3. \A r \in Rooms : Accounted(r) => Accounted(r)' \/ row'[r] = c
      BY <1>o, <2>1, <3>1, <3>2, MakerLeaves
    <3>4. QED BY <1>m, <2>1, <3>2, <3>3 DEF RoomEffect
  <2>4. QED BY <1>3, <2>2, <2>3 DEF AddTokens
<1>4. CASE AddRow(c)
  <2>1. pc[c] = "recording" /\ room[c] \in Rooms /\ pc'[c] = "done" /\ UNCHANGED hosted
    BY <1>0, <1>4, <1>f DEF AddRow, HoldsAt, NamedPlaces
  <2>2. \A r \in Rooms : Making(c, r) => r = room[c]
    BY <2>1 DEF Making
  <2>3. \/ row' = [row EXCEPT ![room[c]] = c] /\ UNCHANGED stray
        \/ stray' = stray \cup {room[c]} /\ row' = row
    BY <1>4 DEF AddRow
  <2>4. /\ room[c] \in stray' \/ row'[room[c]] = c
        /\ stray \subseteq stray'
        /\ \A r \in Rooms : row'[r] = row[r] \/ row'[r] = c
    BY <1>0, <2>1, <2>3 DEF TablesOK
  <2>5. \A r \in Rooms : Accounted(r) => Accounted(r)' \/ row'[r] = c
    BY <1>o, <2>1, <2>2, <2>4, MakerLeaves
  <2>6. "done" \notin FreshPlaces
    BY DEF FreshPlaces
  <2>7. QED BY <1>m, <2>1, <2>4, <2>5, <2>6 DEF RoomEffect
<1>5. CASE DropDelete(c) \/ PurgeDelete(c)
  <2>1. pc[c] \notin MakePlaces /\ hosted' \subseteq hosted /\ UNCHANGED <<row, stray>>
    BY <1>5 DEF DropDelete, PurgeDelete, Unhost, MakePlaces
  <2>2. QED BY <1>o, <2>1, NoRowsTouched
<1>6. CASE DropRow(c)
  <2>1. pc[c] = "erasing" /\ room[c] \in Rooms /\ UNCHANGED <<hosted, stray>>
    BY <1>0, <1>6 DEF DropRow, HoldsAt, NamedPlaces
  <2>2. \A r \in Rooms : Accounted(r) => Accounted(r)'
    BY <1>o, <2>1, MakersRemain DEF MakePlaces
  <2>3. \A r \in Rooms : row'[r] = row[r] \/ (row'[r] = Null /\ Accounted(r)')
    <3>1. CASE row[room[c]] = key[c]
      <4>1. Accounted(room[c])
        BY <1>0, <2>1, <3>1 DEF Erased
      <4>2. row' = [row EXCEPT ![room[c]] = Null]
        BY <1>6, <3>1 DEF DropRow
      <4>3. QED BY <1>0, <2>1, <2>2, <4>1, <4>2 DEF TablesOK
    <3>2. CASE row[room[c]] # key[c]
      BY <1>6, <3>2 DEF DropRow
    <3>3. QED BY <3>1, <3>2
  <2>4. QED BY <2>1, <2>2, <2>3 DEF RoomEffect
<1>7. CASE PurgeRows(c)
  <2>1. pc[c] = "purging" /\ left[c] = {} /\ UNCHANGED <<hosted, stray>>
    BY <1>7 DEF PurgeRows
  <2>2. \A r \in Rooms : Accounted(r) => Accounted(r)'
    BY <1>o, <2>1, MakersRemain DEF MakePlaces
  <2>3. \A r \in RoomNames : Accounted(r)
    BY <1>0, <2>1 DEF Listed, Accounted
  <2>4. \A r \in Rooms : row'[r] = row[r] \/ (row'[r] = Null /\ r \in RoomNames)
    BY <1>7 DEF PurgeRows
  <2>5. QED BY <2>1, <2>2, <2>3, <2>4 DEF RoomEffect
<1>8. CASE CreatePost(c)
  <2>1. PICK k \in ClassIds :
          /\ hosted' = hosted \cup {k}
          /\ stray' = IF Purging THEN stray \cup {k} ELSE stray
          /\ cid' = [cid EXCEPT ![c] = k]
    BY <1>8 DEF CreatePost
  <2>2. pc[c] = "idle" /\ pc'[c] = "inserting" /\ cid'[c] = k /\ row' = row
    BY <1>0, <1>8, <1>f, <2>1 DEF CreatePost, HeldOK
  <2>3. ASSUME NEW r \in Rooms, Accounted(r) PROVE Accounted(r)'
    <3>1. CASE r = k
      BY <2>2, <3>1 DEF Accounted, Making
    <3>2. CASE r # k
      BY <1>o, <2>1, <2>2, <2>3, <3>2 DEF Accounted, Making, Untouched
    <3>3. QED BY <3>1, <3>2
  <2>4. QED BY <2>1, <2>2, <2>3 DEF RoomEffect
<1>9. CASE CreateRoomRow(c)
  <2>1. pc[c] = "inserting" /\ cid[c] \in ClassIds /\ pc'[c] = "checking"
    BY <1>0, <1>9, <1>f DEF CreateRoomRow, HoldsAt, ClassPlaces, CreatePlaces
  <2>2. row' = [row EXCEPT ![cid[c]] = c] /\ UNCHANGED <<hosted, stray>>
    BY <1>9 DEF CreateRoomRow
  <2>3. row'[cid[c]] = c /\ \A r \in Rooms : row'[r] = row[r] \/ row'[r] = c
    BY <1>0, <2>1, <2>2 DEF TablesOK
  <2>4. \A r \in Rooms : Making(c, r) => r = cid[c]
    BY <2>1 DEF Making
  <2>5. \A r \in Rooms : Accounted(r) => Accounted(r)' \/ row'[r] = c
    BY <1>0, <1>o, <2>1, <2>2, <2>3, <2>4, MakerLeaves
  <2>6. "checking" \notin FreshPlaces
    BY DEF FreshPlaces
  <2>7. QED BY <1>m, <2>1, <2>2, <2>3, <2>5, <2>6 DEF RoomEffect
<1>10. CASE CreateCheck(c) \/ CreateInsert(c) \/ CreateSeat(c)
  <2>1. pc[c] \notin MakePlaces /\ stray \subseteq stray' /\ UNCHANGED <<hosted, row>>
    BY <1>10 DEF CreateCheck, CreateInsert, CreateSeat, MakePlaces, rooms
  <2>2. QED BY <1>o, <2>1, NoRowsTouched
<1>11. CASE Enroll(c)
  <2>1. pc[c] \notin MakePlaces /\ UNCHANGED <<hosted, row, stray>>
    BY <1>11 DEF Enroll, EnrollRead, SaveList, File, MakePlaces, rooms
  <2>2. QED BY <1>o, <2>1, NoRowsTouched
<1>12. CASE Join(c)
  <2>1. pc[c] \notin MakePlaces /\ UNCHANGED <<hosted, row, stray>>
    BY <1>12 DEF Join, JoinRead, SaveOwner, FindSeat, MakePlaces, rooms
  <2>2. QED BY <1>o, <2>1, NoRowsTouched
<1>13. CASE Sweep(c)
  <2>1. pc[c] \notin MakePlaces /\ row' = row
    BY <1>13 DEF Sweep, SweepRead, SweepUnhost, SweepClear, MakePlaces, rooms
  <2>2. hosted' \subseteq hosted
    BY <1>13 DEF Sweep, SweepRead, SweepUnhost, SweepClear, Unhost, rooms
  <2>3. stray \subseteq stray'
    BY <1>13 DEF Sweep, SweepRead, SweepUnhost, SweepClear
  <2>4. QED BY <1>o, <2>1, <2>2, <2>3, NoRowsTouched
<1>14. CASE Update(c)
  <2>1. pc[c] \notin MakePlaces /\ UNCHANGED <<hosted, row>>
    BY <1>14 DEF Update, UpdateRead, UpdateAlter, UpdateWrite, MakePlaces, rooms
  <2>2. stray \subseteq stray'
    BY <1>14 DEF Update, UpdateRead, UpdateAlter, UpdateWrite
  <2>3. QED BY <1>o, <2>1, <2>2, NoRowsTouched
<1>15. CASE Remove(c)
  <2>1. pc[c] \notin MakePlaces /\ row' = row
    BY <1>15 DEF Remove, RemoveRead, RemoveUnhost, RemoveRow, PurgeClasses, MakePlaces, rooms
  <2>2. hosted' \subseteq hosted /\ stray \subseteq stray'
    BY <1>15 DEF Remove, RemoveRead, RemoveUnhost, RemoveRow, PurgeClasses, Unhost, rooms
  <2>3. QED BY <1>o, <2>1, <2>2, NoRowsTouched
<1>16. CASE Stop(c)
  <2>1. UNCHANGED <<hosted, row>> /\ stray \subseteq stray'
    BY <1>16 DEF Stop
  <2>2. CASE pc[c] \notin MakePlaces
    BY <1>o, <2>1, <2>2, NoRowsTouched
  <2>3. CASE pc[c] \in {"equipping", "recording"}
    <3>1. room[c] \in Rooms /\ stray' = stray \cup {room[c]}
      BY <1>0, <1>16, <2>3 DEF Stop, HoldsAt, NamedPlaces, CreatePlaces
    <3>2. \A r \in Rooms : Making(c, r) => r = room[c]
      BY <2>3 DEF Making
    <3>3. \A r \in Rooms : Accounted(r) => Accounted(r)' \/ row'[r] = c
      BY <1>o, <2>1, <3>1, <3>2, MakerLeaves
    <3>4. QED BY <1>m, <2>1, <2>3, <3>3 DEF RoomEffect
  <2>4. CASE pc[c] = "inserting"
    <3>1. cid[c] \in Rooms /\ stray' = stray \cup {cid[c]}
      BY <1>0, <1>16, <2>4 DEF Stop, HoldsAt, ClassPlaces, CreatePlaces
    <3>2. \A r \in Rooms : Making(c, r) => r = cid[c]
      BY <2>4 DEF Making
    <3>3. \A r \in Rooms : Accounted(r) => Accounted(r)' \/ row'[r] = c
      BY <1>o, <2>1, <3>1, <3>2, MakerLeaves
    <3>4. QED BY <1>m, <2>1, <2>4, <3>3 DEF RoomEffect
  <2>5. QED BY <2>2, <2>3, <2>4 DEF MakePlaces
<1>17. QED
  BY <1>1, <1>2, <1>3, <1>4, <1>5, <1>6, <1>7, <1>8, <1>9, <1>10, <1>11, <1>12, <1>13, <1>14,
     <1>15, <1>16 DEF RoomsStep, Create

(* What a step does to the calls that hold rooms' rows and lists. *)
CallEffect(c) ==
  /\ pc'[c] \in FreshPlaces => pc[c] \in FreshPlaces
  /\ \/ key'[c] = key[c]
     \/ key'[c] = Null
     \/ key'[c] # Null /\ \E r \in Rooms : key'[c] = row[r]
  /\ pc'[c] \in {"dropping", "erasing"} => key'[c] # Null
  /\ pc'[c] = "erasing" => room'[c] \notin hosted'
  /\ pc'[c] = "purging" => \/ pc[c] = "idle" /\ left'[c] = hosted /\ hosted' = hosted
                           \/ /\ pc[c] = "purging"
                              /\ \E r \in left[c] : /\ left'[c] = left[c] \ {r}
                                                    /\ hosted' = hosted \ {r}

(* Every step has only such effects. *)
LEMMA CallEffects ==
  ASSUME RoomsInv, NEW c \in Calls,
         \/ RoomsStep(c) /\ UNCHANGED cvars
         \/ Create(c) \/ Enroll(c) \/ Join(c) \/ Sweep(c) \/ Update(c) \/ Remove(c) \/ Stop(c)
  PROVE  CallEffect(c)
<1>0. /\ ClassesTypeOK /\ HoldsAt(c) /\ HeldOK /\ RoomCallsOK /\ KeysFound
  BY Parts DEF RoomsInv, TypesInv, HoldsOK
<1>d. "done" \notin FreshPlaces /\ {"dropping", "erasing", "purging", "dismissing"} \cap FreshPlaces = {}
      /\ {"posting", "equipping", "recording", "idle", "inserting"} \subseteq FreshPlaces
  BY DEF FreshPlaces
<1>f. /\ \A p : GoTo(c, p) => pc'[c] = p
      /\ \A p : Proceed(c, p) => pc'[c] = p /\ room'[c] = room[c] /\ key'[c] = key[c]
      /\ Leave(c) => pc'[c] = "done" /\ key'[c] = Null
      /\ End(c) => pc'[c] = "done"
      /\ \A p : Continue(c, p) => pc'[c] = p
      /\ \A k, r, t : Answer(c, k, r, t) => pc'[c] = "answered"
  BY <1>0 DEF GoTo, Proceed, Leave, End, Continue, Answer, HeldOK, RoomCallsOK
<1>q. ASSUME pc'[c] \notin {"dropping", "erasing", "purging"}, key'[c] \in {key[c], Null},
             pc'[c] \in FreshPlaces => pc[c] \in FreshPlaces
      PROVE  CallEffect(c)
  BY <1>q DEF CallEffect
<1>1. CASE AddFind(c) \/ AddPost(c) \/ AddTokens(c) \/ AddRow(c)
  <2>1. pc[c] \in FreshPlaces /\ pc'[c] \in {"posting", "equipping", "recording", "done"}
    BY <1>1, <1>d, <1>f DEF AddFind, AddPost, AddTokens, AddRow
  <2>2. key'[c] \in {key[c], Null}
    BY <1>1, <1>f DEF AddFind, AddPost, AddTokens, AddRow
  <2>3. QED BY <1>q, <2>1, <2>2
<1>2. CASE DropFind(c)
  <2>1. PICK r \in Rooms : row[r] # Null /\ key' = [key EXCEPT ![c] = row[r]]
    BY <1>2 DEF DropFind
  <2>2. key'[c] = row[r] /\ pc'[c] = "dropping"
    BY <1>0, <1>2, <1>f, <2>1 DEF DropFind, RoomCallsOK
  <2>3. QED BY <1>d, <2>1, <2>2 DEF CallEffect
<1>3. CASE DropDelete(c)
  <2>1. CASE Proceed(c, "erasing") /\ Unhost(room[c])
    <3>1. pc'[c] = "erasing" /\ room'[c] = room[c] /\ key'[c] = key[c] /\ room[c] \notin hosted'
      BY <1>f, <2>1 DEF Unhost
    <3>2. key[c] # Null
      BY <1>0, <1>3 DEF KeysFound, DropDelete
    <3>3. QED BY <1>d, <3>1, <3>2 DEF CallEffect
  <2>2. CASE Leave(c)
    BY <1>d, <1>f, <1>q, <2>2
  <2>3. QED BY <1>3, <2>1, <2>2 DEF DropDelete
<1>4. CASE DropRow(c)
  BY <1>4, <1>d, <1>f, <1>q DEF DropRow
<1>5. CASE PurgeList(c)
  <2>1. left' = [left EXCEPT ![c] = hosted] /\ pc[c] = "idle" /\ pc'[c] = "purging"
        /\ UNCHANGED <<hosted, key>>
    BY <1>5, <1>f DEF PurgeList
  <2>2. left'[c] = hosted
    BY <1>0, <2>1 DEF RoomCallsOK
  <2>3. QED BY <1>d, <2>1, <2>2 DEF CallEffect
<1>6. CASE PurgeDelete(c)
  <2>0. pc[c] = "purging" /\ UNCHANGED key
    BY <1>6 DEF PurgeDelete
  <2>1. CASE \E r \in left[c] : /\ Unhost(r)
                                /\ left' = [left EXCEPT ![c] = @ \ {r}]
                                /\ UNCHANGED pc
    <3>1. PICK r \in left[c] : /\ Unhost(r) /\ left' = [left EXCEPT ![c] = left[c] \ {r}]
                               /\ UNCHANGED pc
      BY <2>1
    <3>2. left'[c] = left[c] \ {r} /\ hosted' = hosted \ {r} /\ pc'[c] = "purging"
      BY <1>0, <2>0, <3>1 DEF RoomCallsOK, Unhost
    <3>3. QED BY <1>d, <2>0, <3>2 DEF CallEffect
  <2>2. CASE GoTo(c, "done")
    BY <1>d, <1>f, <1>q, <2>0, <2>2
  <2>3. QED BY <1>6, <2>1, <2>2 DEF PurgeDelete
<1>7. CASE PurgeRows(c)
  BY <1>7, <1>d, <1>f, <1>q DEF PurgeRows
<1>8. CASE Create(c)
  <2>1. key'[c] = key[c]
    BY <1>8 DEF Create, CreatePost, CreateRoomRow, CreateCheck, CreateInsert, CreateSeat, rooms
  <2>2. \/ pc[c] = "idle" /\ pc'[c] = "inserting"
        \/ pc'[c] \in {"checking", "scheduling", "seating", "entering", "done"}
    BY <1>8, <1>f DEF Create, CreatePost, CreateRoomRow, CreateCheck, CreateInsert, CreateSeat
  <2>3. QED BY <1>d, <1>q, <2>1, <2>2 DEF FreshPlaces
<1>9. CASE Enroll(c)
  <2>1. key'[c] = key[c] /\ pc'[c] \in {"listing", "filing", "answered", "done"}
    BY <1>9, <1>f DEF Enroll, EnrollRead, SaveList, File, rooms
  <2>2. QED BY <1>q, <2>1 DEF FreshPlaces
<1>10. CASE Join(c)
  <2>1. key'[c] = key[c]
    BY <1>10 DEF Join, JoinRead, SaveOwner, FindSeat, rooms
  <2>2. pc'[c] \in {"unhosting", "saving", "finding", "listing", "answered", "done"}
    <3>1. CASE JoinRead(c)
      BY <1>f, <3>1 DEF JoinRead, Onward
    <3>2. CASE SaveOwner(c)
      BY <1>f, <3>2 DEF SaveOwner
    <3>3. CASE FindSeat(c)
      <4>1. \/ \E t : Answer(c, cid[c], seen[c], t)
            \/ Continue(c, "listing")
            \/ End(c)
        BY <3>3 DEF FindSeat
      <4>2. QED BY <1>f, <4>1
    <3>4. QED BY <1>10, <3>1, <3>2, <3>3 DEF Join
  <2>3. QED BY <1>q, <2>1, <2>2 DEF FreshPlaces
<1>11. CASE Sweep(c)
  <2>1. key'[c] = key[c]
    BY <1>11 DEF Sweep, SweepRead, SweepUnhost, SweepClear, rooms
  <2>2. pc'[c] \in {"unhosting", "clearing", "saving", "finding", "answered", "done"}
    BY <1>11, <1>f DEF Sweep, SweepRead, SweepUnhost, SweepClear, Onward
  <2>3. QED BY <1>q, <2>1, <2>2 DEF FreshPlaces
<1>12. CASE Update(c)
  <2>1. key'[c] = key[c]
    BY <1>12 DEF Update, UpdateRead, UpdateAlter, UpdateWrite, rooms
  <2>2. pc'[c] \in {"altering", "writing", "done"}
    <3>1. \/ \E p \in {"altering", "writing"} : GoTo(c, p)
          \/ Continue(c, "writing")
          \/ End(c)
      BY <1>12 DEF Update, UpdateRead, UpdateAlter, UpdateWrite
    <3>2. QED BY <1>f, <3>1
  <2>3. QED BY <1>q, <2>1, <2>2 DEF FreshPlaces
<1>13. CASE Remove(c)
  <2>1. key'[c] = key[c]
    BY <1>13 DEF Remove, RemoveRead, RemoveUnhost, RemoveRow, PurgeClasses, rooms
  <2>2. pc'[c] \in {"removing", "destroying", "done"}
    BY <1>13, <1>f DEF Remove, RemoveRead, RemoveUnhost, RemoveRow, PurgeClasses
  <2>3. QED BY <1>q, <2>1, <2>2 DEF FreshPlaces
<1>14. CASE Stop(c)
  <2>1. pc'[c] = "done" /\ key' = [key EXCEPT ![c] = Null]
    BY <1>14, <1>f DEF Stop
  <2>2. key'[c] = Null
    BY <1>0, <2>1 DEF RoomCallsOK
  <2>3. QED BY <1>d, <1>q, <2>1, <2>2
<1>15. QED
  BY <1>1, <1>2, <1>3, <1>4, <1>5, <1>6, <1>7, <1>8, <1>9, <1>10, <1>11, <1>12, <1>13, <1>14
     DEF RoomsStep

(* The invariant of rooms is kept. *)
LEMMA RoomsNext == RoomsInv /\ [Next]_vars => RoomsInv'
<1> SUFFICES ASSUME RoomsInv, [Next]_vars PROVE RoomsInv'
  OBVIOUS
<1>0. /\ TypesInv /\ TypesInv' /\ ClassesTypeOK /\ HoldsOK
      /\ Fresh /\ KeysFound /\ Erased /\ Listed /\ ProviderRoomKnown
      /\ Null \notin Calls
  BY TypesStep, RoomsAssumption DEF RoomsInv, TypesInv
<1>1. ASSUME NEW c \in Calls,
             \/ RoomsStep(c) /\ UNCHANGED cvars
             \/ Create(c) \/ Enroll(c) \/ Join(c) \/ Sweep(c) \/ Update(c) \/ Remove(c)
             \/ Stop(c)
      PROVE  RoomsInv'
  <2>1. RoomEffect(c) /\ CallEffect(c) /\ \A d \in Calls : d # c => Untouched(d)
    BY <1>0, <1>1, RoomEffects, CallEffects, OneCall, Parts
  <2>2. Fresh'
    <3> SUFFICES ASSUME NEW d \in Calls, pc'[d] \in FreshPlaces
                 PROVE  /\ \A r \in Rooms : row'[r] # d
                        /\ \A e \in Calls : key'[e] # d
      BY DEF Fresh
    <3>1. pc[d] \in FreshPlaces
      BY <2>1 DEF CallEffect, Untouched
    <3>2. (\A r \in Rooms : row[r] # d) /\ \A e \in Calls : key[e] # d
      BY <1>0, <3>1 DEF Fresh
    <3>3. \A r \in Rooms : row'[r] # d
      BY <1>0, <2>1, <3>2 DEF RoomEffect
    <3>4. \A e \in Calls : key'[e] # d
      BY <1>0, <2>1, <3>2 DEF CallEffect, Untouched
    <3>5. QED BY <3>3, <3>4
  <2>3. KeysFound'
    <3>1. pc'[c] \in {"dropping", "erasing"} => key'[c] # Null
      BY <2>1 DEF CallEffect
    <3>2. QED BY <1>0, <2>1, <3>1 DEF KeysFound, Untouched
  <2>4. Erased'
    <3> SUFFICES ASSUME NEW d \in Calls, NEW r \in Rooms, r = room'[d],
                        pc'[d] = "erasing", row'[r] = key'[d]
                 PROVE  Accounted(r)'
      <4>1. \A d \in Calls : pc'[d] = "erasing" => room'[d] \in Rooms
        BY <1>0 DEF TypesInv, HoldsOK, HoldsAt, NamedPlaces
      <4>2. QED BY <4>1 DEF Erased, Accounted, Making
    <3>1. CASE d = c
      BY <2>1, <3>1 DEF CallEffect, Accounted
    <3>2. CASE d # c
      <4>1. pc[d] = "erasing" /\ room'[d] = room[d] /\ key'[d] = key[d]
        BY <2>1, <3>2 DEF Untouched
      <4>2. r = room[d]
        BY <4>1
      <4>3. key[d] # Null /\ (pc[c] \in FreshPlaces => key[d] # c)
        BY <1>0, <4>1 DEF KeysFound, Fresh
      <4>4. row'[r] = row[r]
        BY <2>1, <4>1, <4>2, <4>3 DEF RoomEffect
      <4>5. Accounted(r)
        BY <1>0, <4>1, <4>2, <4>4 DEF Erased
      <4>6. QED
        BY <2>1, <4>1, <4>2, <4>3, <4>5 DEF RoomEffect
    <3>3. QED BY <3>1, <3>2
  <2>5. Listed'
    <3> SUFFICES ASSUME NEW p \in Calls, pc'[p] = "purging", NEW r \in RoomNames \cap hosted'
                 PROVE  r \in left'[p] \cup stray'
      BY DEF Listed
    <3>1. CASE p = c /\ pc[c] = "idle" /\ left'[c] = hosted /\ hosted' = hosted
      BY <3>1
    <3>2. CASE p = c /\ pc[c] = "purging"
      <4>1. PICK x \in left[c] : left'[c] = left[c] \ {x} /\ hosted' = hosted \ {x}
        BY <2>1, <3>2 DEF CallEffect
      <4>2. r \in left[c] \cup stray /\ stray \subseteq stray'
        BY <1>0, <2>1, <3>2, <4>1 DEF Listed, RoomEffect
      <4>3. QED BY <3>2, <4>1, <4>2
    <3>3. CASE p # c
      <4>1. pc[p] = "purging" /\ left'[p] = left[p] /\ Purging
        BY <2>1, <3>3 DEF Untouched, Purging, PurgePlaces
      <4>2. stray \subseteq stray' /\ (r \in hosted \/ r \in stray')
        BY <2>1, <4>1 DEF RoomEffect
      <4>3. QED BY <1>0, <4>1, <4>2 DEF Listed
    <3>4. QED BY <2>1, <3>1, <3>2, <3>3 DEF CallEffect
  <2>6. ProviderRoomKnown'
    <3> SUFFICES ASSUME NEW r \in Rooms, row'[r] = Null PROVE Accounted(r)'
      BY <1>0 DEF ProviderRoomKnown, Accounted, TypesInv, ClassesTypeOK
    <3>1. CASE row'[r] = row[r]
      <4>1. Accounted(r)
        BY <1>0, <3>1 DEF ProviderRoomKnown, Accounted
      <4>2. QED BY <1>0, <2>1, <4>1 DEF RoomEffect
    <3>2. CASE row'[r] # row[r]
      BY <1>0, <2>1, <3>2 DEF RoomEffect
    <3>3. QED BY <3>1, <3>2
  <2>7. QED BY <1>0, <2>2, <2>3, <2>4, <2>5, <2>6 DEF RoomsInv
<1>2. ASSUME UNCHANGED <<hosted, row, pc, room, key, left, stray, cid>> PROVE RoomsInv'
  BY <1>0, <1>2 DEF RoomsInv, Fresh, KeysFound, Erased, Listed, ProviderRoomKnown, Accounted, Making
<1>3. CASE Tick
  BY <1>2, <1>3 DEF Tick, rooms, held
<1>4. CASE UNCHANGED vars
  BY <1>2, <1>4 DEF vars, cvars, held
<1>5. QED BY <1>1, <1>3, <1>4 DEF Next, Quiet

(* It holds at the beginning: every hosted room has its row. *)
LEMMA RoomsInit == Init => RoomsInv
<1> SUFFICES ASSUME Init PROVE RoomsInv
  OBVIOUS
<1>1. TypesInv
  BY TypesInit
<1>2. \A c \in Calls : pc[c] = "idle" /\ key[c] = Null
  BY DEF Init
<1>3. row = [r \in Rooms |-> IF r \in hosted THEN Earlier ELSE Null]
  BY DEF Init
<1>4. Earlier \notin Calls /\ Null \notin Calls /\ Earlier # Null
  BY RoomsAssumption
<1>5. Fresh
  BY <1>2, <1>3, <1>4 DEF Fresh
<1>6. KeysFound /\ Erased /\ Listed
  BY <1>2 DEF KeysFound, Erased, Listed
<1>7. hosted \subseteq Rooms
  BY <1>1 DEF TypesInv, ClassesTypeOK
<1>8. ProviderRoomKnown
  BY <1>3, <1>4, <1>7 DEF ProviderRoomKnown
<1>9. QED BY <1>1, <1>5, <1>6, <1>8 DEF RoomsInv

(* No room is forgotten at the provider but by a call that stopped, was    *)
(* refused its clean-up or was overtaken.                                  *)
THEOREM RoomsAreKnown == Spec => []ProviderRoomKnown
<1>1. RoomsInv => ProviderRoomKnown
  BY DEF RoomsInv
<1>2. QED BY RoomsInit, RoomsNext, <1>1, PTL DEF Spec
=============================================================================
