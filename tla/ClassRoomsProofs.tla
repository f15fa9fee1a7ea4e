-------------------------- MODULE ClassRoomsProofs --------------------------
(***************************************************************************)
(* Theorems about the rooms of classes: which tokens fit, which rooms a    *)
(* sweep takes down, and which rooms at the provider belong to a class;    *)
(* for any number of calls, classes, rooms and users.                      *)
(***************************************************************************)
EXTENDS ClassesProofs

(* Where a call uses the row of a class it has read. *)
ReadPlaces == {"listing", "filing"} \cup JoinPlaces \cup SweepPlaces \cup OtherPlaces

(* What an update wants of the room: what it has read, a name that has no  *)
(* row, or a room with its url and token.                                  *)
WishKeeps(c) ==
  /\ wish[c].room = seen[c].room
  /\ wish[c].url = seen[c].url
  /\ wish[c].owner = seen[c].owner
WishFits(c) ==
  \/ WishKeeps(c)
  \/ /\ wish[c].room # Null
     /\ wish[c].url = seen[c].url
     /\ wish[c].owner = seen[c].owner
  \/ /\ wish[c].room # Null
     /\ wish[c].url = wish[c].room
     /\ wish[c].owner \in {Blank, wish[c].room}

(* What a call's place says of the rows it holds. *)
KeepsOf(c) ==
  /\ pc[c] \in Drafting =>
       seen[c].room = cid[c] /\ seen[c].url = cid[c] /\ seen[c].owner = cid[c]
  /\ pc[c] \in ReadPlaces => Opened(cid[c])
  /\ pc[c] \in JoinPlaces \cup SweepPlaces => seen[c].room # Null
  /\ pc[c] = "finding" => who[c] # seen[c].tutor
  /\ pc[c] = "idle" => wish[c] = NoRow
  /\ pc[c] = "altering" /\ wish[c] # NoRow => WishKeeps(c)
  /\ pc[c] = "writing" => WishFits(c)

Blanks == \A k \in ClassIds : state[k] # "live" => class[k] = NoRow

KeepInv == SeatsInv /\ Blanks /\ \A c \in Calls : KeepsOf(c)

(* At a place that holds nothing there is nothing to keep. *)
LEMMA KeepsNothing ==
  ASSUME NEW c \in Calls, pc'[c] \notin Drafting \cup ReadPlaces \cup {"idle"}
  PROVE  KeepsOf(c)'
BY DEF KeepsOf, ReadPlaces, JoinPlaces, SweepPlaces, OtherPlaces

(* The places of ending, answering and the rooms' calls are such. *)
LEMMA FreePlaces ==
  /\ (RoomPlaces \cup {"done", "answered", "seating", "entering"})
       \cap (Drafting \cup ReadPlaces \cup {"idle"}) = {}
  /\ "answered" \notin RoomPlaces
BY DEF RoomPlaces, AddPlaces, DropPlaces, PurgePlaces, Drafting, ReadPlaces, JoinPlaces,
       SweepPlaces, OtherPlaces

(* At a place where a row that was read is used, these are the facts about *)
(* it.                                                                     *)
LEMMA KeepsAt ==
  ASSUME NEW c \in Calls, pc'[c] \in ReadPlaces, state'[cid'[c]] \in {"live", "gone"},
         pc'[c] \in JoinPlaces \cup SweepPlaces => seen'[c].room # Null,
         pc'[c] = "finding" => who'[c] # seen'[c].tutor,
         pc'[c] = "altering" => wish'[c] = NoRow \/ WishKeeps(c)',
         pc'[c] = "writing" => WishFits(c)'
  PROVE  KeepsOf(c)'
<1>1. pc'[c] \notin Drafting /\ pc'[c] # "idle"
  BY DEF ReadPlaces, Drafting, JoinPlaces, SweepPlaces, OtherPlaces
<1>2. (Opened(cid[c]))'
  BY DEF Opened
<1>3. QED BY <1>1, <1>2 DEF KeepsOf

(* Classes that are made stay made, so that other calls keep what they     *)
(* hold.                                                                   *)
LEMMA OthersKeep ==
  ASSUME HoldsOK, NEW d \in Calls, KeepsOf(d), Untouched(d),
         \A k \in ClassIds : Opened(k) => Opened(k)'
  PROVE  KeepsOf(d)'
<1>1. pc[d] \in ReadPlaces => cid[d] \in ClassIds
  BY DEF HoldsOK, HoldsAt, ReadPlaces, ClassPlaces, EnrollPlaces
<1>2. pc[d] \in ReadPlaces => state'[cid[d]] \in {"live", "gone"}
  BY <1>1 DEF KeepsOf, Opened
<1>4. pc'[d] \in ReadPlaces => (Opened(cid[d]))'
  BY <1>2 DEF Untouched, Opened
<1>5. (WishKeeps(d))' <=> WishKeeps(d)
  BY DEF Untouched, WishKeeps
<1>6. (WishFits(d))' <=> WishFits(d)
  BY <1>5 DEF Untouched, WishFits
<1>7. QED BY <1>4, <1>5, <1>6 DEF KeepsOf, Untouched

(* What ending, continuing, answering and reading do to the call. *)
LEMMA Held ==
  ASSUME HeldOK, NEW c \in Calls
  PROVE  /\ \A p : GoTo(c, p) => pc'[c] = p
         /\ \A p : Proceed(c, p) => pc'[c] = p
         /\ Leave(c) => pc'[c] = "done"
         /\ End(c) => pc'[c] = "done"
         /\ \A k, r, t : Answer(c, k, r, t) =>
              /\ pc'[c] = "answered" /\ cid'[c] = k /\ token'[c] = t
              /\ seen'[c].room = r.room /\ seen'[c].url = r.url
         /\ \A p : Continue(c, p) =>
              /\ pc'[c] = p /\ cid'[c] = cid[c] /\ who'[c] = who[c] /\ seen'[c] = seen[c]
              /\ wish'[c] = wish[c] /\ job'[c] = job[c] /\ token'[c] = token[c]
         /\ \A j, k, u : ReadClass(c, j, k, u) =>
              /\ state[k] = "live" /\ cid'[c] = k /\ who'[c] = u /\ seen'[c] = class[k]
              /\ job'[c] = j
<1> USE DEF HeldOK, GoTo
<1>1. /\ \A p : GoTo(c, p) => pc'[c] = p
      /\ \A p : Proceed(c, p) => pc'[c] = p
      /\ Leave(c) => pc'[c] = "done"
      /\ End(c) => pc'[c] = "done"
  BY DEF Proceed, Leave, End
<1>2. ASSUME NEW k, NEW r, NEW t, Answer(c, k, r, t)
      PROVE  /\ pc'[c] = "answered" /\ cid'[c] = k /\ token'[c] = t
             /\ seen'[c].room = r.room /\ seen'[c].url = r.url
  <2>1. seen'[c] = [NoRow EXCEPT !.room = r.room, !.url = r.url]
    BY <1>2 DEF Answer
  <2>2. QED BY <1>2, <2>1 DEF Answer, NoRow
<1>3. \A p : Continue(c, p) =>
              /\ pc'[c] = p /\ cid'[c] = cid[c] /\ who'[c] = who[c] /\ seen'[c] = seen[c]
              /\ wish'[c] = wish[c] /\ job'[c] = job[c] /\ token'[c] = token[c]
  BY DEF Continue, held
<1>4. \A j, k, u : ReadClass(c, j, k, u) =>
              /\ state[k] = "live" /\ cid'[c] = k /\ who'[c] = u /\ seen'[c] = class[k]
              /\ job'[c] = j
  BY DEF ReadClass
<1>5. QED BY <1>1, <1>2, <1>3, <1>4

(* The rooms' calls stay among their places. *)
LEMMA RoomCallsStay ==
  ASSUME HeldOK, NEW c \in Calls, RoomsStep(c)
  PROVE  pc'[c] \in RoomPlaces \cup {"done"}
<1> USE Held DEF RoomPlaces, AddPlaces, DropPlaces, PurgePlaces
<1>1. CASE AddFind(c) \/ AddPost(c) \/ AddTokens(c) \/ AddRow(c)
  BY <1>1 DEF AddFind, AddPost, AddTokens, AddRow
<1>2. CASE DropFind(c) \/ DropDelete(c) \/ DropRow(c)
  BY <1>2 DEF DropFind, DropDelete, DropRow
<1>3. CASE PurgeList(c) \/ PurgeDelete(c) \/ PurgeRows(c)
  BY <1>3 DEF PurgeList, PurgeDelete, PurgeRows
<1>4. QED BY <1>1, <1>2, <1>3 DEF RoomsStep

(* What the call that takes a step keeps after it. *)
LEMMA CallKeeps ==
  ASSUME KeepInv, NEW c \in Calls,
         \/ RoomsStep(c) /\ UNCHANGED cvars
         \/ Create(c) \/ Enroll(c) \/ Join(c) \/ Sweep(c) \/ Update(c) \/ Remove(c) \/ Stop(c)
  PROVE  KeepsOf(c)'
<1>0. /\ TypesInv /\ ClassesTypeOK /\ HoldsAt(c) /\ HeldOK /\ ClassTablesOK
      /\ KeepsOf(c) /\ CallSafe(c)
      /\ Students \subseteq Users /\ Null \notin Users
  BY Parts, ClassesAssumption DEF KeepInv, SeatsInv, TypesInv, HoldsOK, Users
<1>h. /\ \A p : GoTo(c, p) => pc'[c] = p
      /\ \A p : Proceed(c, p) => pc'[c] = p
      /\ Leave(c) => pc'[c] = "done"
      /\ End(c) => pc'[c] = "done"
      /\ \A k, r, t : Answer(c, k, r, t) => pc'[c] = "answered"
      /\ \A p : Continue(c, p) =>
           /\ pc'[c] = p /\ cid'[c] = cid[c] /\ who'[c] = who[c] /\ seen'[c] = seen[c]
           /\ wish'[c] = wish[c]
      /\ \A j, k, u : ReadClass(c, j, k, u) =>
           state[k] = "live" /\ cid'[c] = k /\ who'[c] = u /\ seen'[c] = class[k]
  BY <1>0, Held
<1>n. pc'[c] \in RoomPlaces \cup {"done", "answered", "seating", "entering"} => KeepsOf(c)'
  BY KeepsNothing, FreePlaces
<1>p. /\ {"saving", "finding"} = JoinPlaces /\ {"unhosting", "clearing"} = SweepPlaces
      /\ {"altering", "writing", "removing", "destroying"} = OtherPlaces
      /\ ReadPlaces = {"listing", "filing", "saving", "finding", "unhosting", "clearing",
                       "altering", "writing", "removing", "destroying"}
      /\ ReadPlaces \cap (Drafting \cup {"idle"}) = {} /\ "idle" \notin Drafting
      /\ "checking" \in Drafting /\ "scheduling" \in Drafting /\ "inserting" \in Drafting
  BY DEF JoinPlaces, SweepPlaces, OtherPlaces, ReadPlaces, Drafting
<1>1. CASE RoomsStep(c) /\ UNCHANGED cvars
  <2>1. pc'[c] \in RoomPlaces \cup {"done"}
    BY <1>0, <1>1, RoomCallsStay
  <2>2. QED BY <1>n, <2>1
<1>2. CASE CreatePost(c)
  <2>1. PICK k \in ClassIds, t \in Titles, s \in Starts, u \in Students \cup {Null} :
          /\ state[k] = "none"
          /\ s > now
          /\ state' = [state EXCEPT ![k] = "named"]
          /\ hosted' = hosted \cup {k}
          /\ stray' = IF Purging THEN stray \cup {k} ELSE stray
          /\ cid' = [cid EXCEPT ![c] = k]
          /\ who' = [who EXCEPT ![c] = u]
          /\ job' = [job EXCEPT ![c] = IF u = Null THEN "create" ELSE "request"]
          /\ seen' = [seen EXCEPT ![c] = [title |-> t, tutor |-> Tutor, start |-> s,
                                         room |-> k, url |-> k, owner |-> k]]
    BY ONLY <1>2, Zenon DEF CreatePost
  <2>2. pc'[c] = "inserting" /\ cid'[c] = k
    BY <1>0, <1>2, <1>h, <2>1 DEF CreatePost, HeldOK
  <2>3. seen'[c].room = k /\ seen'[c].url = k /\ seen'[c].owner = k
    BY <1>0, <2>1 DEF HeldOK
  <2>4. pc'[c] \notin ReadPlaces \cup JoinPlaces \cup SweepPlaces
    BY <1>p, <2>2
  <2>5. QED BY <2>2, <2>3, <2>4 DEF KeepsOf
<1>3. ASSUME NEW p \in {"checking", "scheduling"}, pc[c] \in Drafting, Continue(c, p)
      PROVE  KeepsOf(c)'
  BY <1>0, <1>3, <1>h, <1>p DEF KeepsOf
<1>4. CASE CreateRoomRow(c) \/ CreateCheck(c) \/ CreateInsert(c)
  <2>1. pc[c] \in Drafting
    BY <1>4 DEF CreateRoomRow, CreateCheck, CreateInsert, Drafting
  <2>2. Continue(c, "checking") \/ Continue(c, "scheduling") \/ Continue(c, "seating") \/ End(c)
    BY <1>4 DEF CreateRoomRow, CreateCheck, CreateInsert
  <2>3. QED BY <1>3, <1>h, <1>n, <2>1, <2>2
<1>5. CASE CreateSeat(c)
  BY <1>5, <1>h, <1>n DEF CreateSeat
<1>6. ASSUME NEW k \in ClassIds, state[k] = "live", cid'[c] = k, state'[k] = state[k],
             pc'[c] \in {"listing", "removing"}
      PROVE  KeepsOf(c)'
  BY <1>6, <1>p, KeepsAt
<1>7. CASE EnrollRead(c)
  <2>1. UNCHANGED state
    BY <1>7 DEF EnrollRead, classes
  <2>2. CASE \E k \in ClassIds : \E u : ReadClass(c, "enroll", k, u) /\ GoTo(c, "listing")
    BY <1>6, <1>h, <2>1, <2>2
  <2>3. CASE pc[c] = "entering" /\ ReadClass(c, "request", cid[c], who[c]) /\ GoTo(c, "listing")
    <3>1. cid[c] \in ClassIds
      BY <1>0, <2>3 DEF HoldsAt, ClassPlaces, EnrollPlaces
    <3>2. QED BY <1>6, <1>h, <2>1, <2>3, <3>1
  <2>4. QED BY <1>7, <1>h, <1>n, <2>2, <2>3 DEF EnrollRead
<1>8. ASSUME pc[c] \in ReadPlaces, cid'[c] = cid[c], UNCHANGED state 
      PROVE  state'[cid'[c]] \in {"live", "gone"}
  BY <1>0, <1>8 DEF KeepsOf, Opened
<1>9. CASE SaveList(c)
  <2>1. pc[c] = "listing" /\ Continue(c, "filing") /\ UNCHANGED state
    BY <1>9 DEF SaveList
  <2>2. pc'[c] = "filing" /\ state'[cid'[c]] \in {"live", "gone"}
    BY <1>8, <1>h, <2>1 DEF ReadPlaces
  <2>3. QED BY <1>p, <2>2, KeepsAt
<1>10. CASE File(c)
  BY <1>10, <1>h, <1>n DEF File
<1>11. \A u, r : Onward(u, r) = "finding" => u # r.tutor
  BY DEF Onward
<1>12. \A u, r : Onward(u, r) \in {"saving", "finding"}
  BY DEF Onward
<1>13. CASE JoinRead(c)
  <2>1. PICK k \in ClassIds, u \in Users :
          \/ /\ Expired(class[k])
             /\ ReadClass(c, "join", k, u)
             /\ GoTo(c, "unhosting")
          \/ /\ class[k].room # Null /\ ~AtOnce(u, class[k])
             /\ ReadClass(c, "join", k, u)
             /\ GoTo(c, Onward(u, class[k]))
          \/ Answer(c, k, class[k], HostToken(u, class[k]))
    BY <1>13 DEF JoinRead
  <2>2. UNCHANGED state
    BY <1>13 DEF JoinRead, classes
  <2>3. CASE Answer(c, k, class[k], HostToken(u, class[k]))
    BY <1>h, <1>n, <2>3
  <2>4. CASE ReadClass(c, "join", k, u) /\ class[k].room # Null
             /\ \/ GoTo(c, "unhosting")
                \/ GoTo(c, Onward(u, class[k])) /\ ~AtOnce(u, class[k])
    <3>1. /\ state[k] = "live" /\ cid'[c] = k /\ who'[c] = u /\ seen'[c] = class[k]
          /\ pc'[c] \in {"unhosting", "saving", "finding"}
          /\ pc'[c] = "finding" => u # class[k].tutor
      BY <1>h, <1>11, <1>12, <2>4
    <3>2. state'[cid'[c]] \in {"live", "gone"}
      BY <2>2, <3>1
    <3>3. QED BY <1>p, <2>4, <3>1, <3>2, KeepsAt
  <2>5. QED BY <2>1, <2>3, <2>4 DEF Expired
<1>14. CASE SaveOwner(c)
  BY <1>14, <1>h, <1>n DEF SaveOwner
<1>15. CASE FindSeat(c)
  <2>1. /\ pc[c] = "finding" /\ UNCHANGED state
        /\ \/ \E t : Answer(c, cid[c], seen[c], t)
           \/ Continue(c, "listing")
           \/ End(c)
    BY <1>15 DEF FindSeat, classes
  <2>2. CASE Continue(c, "listing")
    <3>1. pc'[c] = "listing" /\ state'[cid'[c]] \in {"live", "gone"}
      BY <1>8, <1>h, <1>p, <2>1, <2>2 DEF ReadPlaces
    <3>2. QED BY <1>p, <3>1, KeepsAt
  <2>3. QED BY <1>h, <1>n, <2>1, <2>2
<1>16. CASE SweepRead(c)
  <2>1. PICK k \in ClassIds : Expired(class[k]) /\ ReadClass(c, "sweep", k, Null)
    BY <1>16 DEF SweepRead
  <2>2. /\ state[k] = "live" /\ cid'[c] = k /\ seen'[c] = class[k] /\ UNCHANGED state
        /\ pc'[c] = "unhosting" /\ class[k].room # Null
    BY <1>16, <1>h, <2>1 DEF SweepRead, classes, Expired
  <2>3. state'[cid'[c]] \in {"live", "gone"}
    BY <2>2
  <2>4. QED BY <1>p, <2>2, <2>3, KeepsAt
<1>17. CASE SweepUnhost(c)
  <2>1. /\ pc[c] = "unhosting" /\ UNCHANGED state
        /\ \/ Continue(c, "clearing")
           \/ \E t : Answer(c, cid[c], seen[c], t)
           \/ job[c] = "join" /\ ~AtOnce(who[c], seen[c]) /\ Continue(c, Onward(who[c], seen[c]))
           \/ End(c)
    BY <1>17 DEF SweepUnhost, classes
  <2>2. CASE \/ Continue(c, "clearing")
             \/ job[c] = "join" /\ ~AtOnce(who[c], seen[c]) /\ Continue(c, Onward(who[c], seen[c]))
    <3>1. who[c] \in Users \/ job[c] # "join"
      BY <1>0, <2>1 DEF HoldsAt
    <3>2. /\ pc'[c] \in {"clearing", "saving", "finding"}
          /\ pc'[c] = "finding" => who[c] # seen[c].tutor
          /\ who'[c] = who[c] /\ seen'[c] = seen[c] /\ cid'[c] = cid[c]
      BY <1>h, <1>11, <1>12, <2>2, <3>1
    <3>3. state'[cid'[c]] \in {"live", "gone"} /\ seen[c].room # Null
      BY <1>0, <1>8, <1>p, <2>1, <3>2 DEF ReadPlaces, KeepsOf
    <3>4. QED BY <1>p, <3>2, <3>3, KeepsAt
  <2>3. QED BY <1>h, <1>n, <2>1, <2>2
<1>18. CASE SweepClear(c)
  BY <1>18, <1>h, <1>n DEF SweepClear
<1>19. CASE UpdateRead(c)
  <2>1. PICK k \in ClassIds :
          /\ ReadClass(c, "update", k, Null)
          /\ \/ GoTo(c, "altering") /\ UNCHANGED wish
             \/ /\ \E t \in Titles : wish' = [wish EXCEPT ![c] = [class[k] EXCEPT !.title = t]]
                /\ GoTo(c, "altering")
             \/ /\ \E s \in Starts : wish' = [wish EXCEPT ![c] = [class[k] EXCEPT !.start = s]]
                /\ GoTo(c, "writing")
             \/ /\ \E u \in Users : wish' = [wish EXCEPT ![c] = [class[k] EXCEPT !.tutor = u]]
                /\ GoTo(c, "writing")
    BY <1>19 DEF UpdateRead
  <2>2. pc[c] = "idle" /\ UNCHANGED state /\ class[k] \in Row
    BY <1>0, <1>19 DEF UpdateRead, classes, ClassTablesOK
  <2>3. /\ state[k] = "live" /\ cid'[c] = k /\ seen'[c] = class[k]
        /\ pc'[c] \in {"altering", "writing"}
    BY <1>h, <2>1
  <2>4. state'[cid'[c]] \in {"live", "gone"}
    BY <2>2, <2>3
  <2>5. wish[c] = NoRow
    BY <1>0, <2>2 DEF KeepsOf
  <2>6. CASE pc'[c] = "altering" /\ UNCHANGED wish
    BY <1>p, <2>3, <2>4, <2>5, <2>6, KeepsAt
  <2>7. CASE \/ \E t \in Titles : wish' = [wish EXCEPT ![c] = [class[k] EXCEPT !.title = t]]
             \/ \E s \in Starts : wish' = [wish EXCEPT ![c] = [class[k] EXCEPT !.start = s]]
             \/ \E u \in Users : wish' = [wish EXCEPT ![c] = [class[k] EXCEPT !.tutor = u]]
    <3>1. \/ \E t \in Titles : wish'[c] = [class[k] EXCEPT !.title = t]
          \/ \E s \in Starts : wish'[c] = [class[k] EXCEPT !.start = s]
          \/ \E u \in Users : wish'[c] = [class[k] EXCEPT !.tutor = u]
      BY <1>0, <2>7 DEF HeldOK
    <3>2. /\ wish'[c].room = class[k].room /\ wish'[c].url = class[k].url
          /\ wish'[c].owner = class[k].owner
      BY <2>2, <3>1 DEF Row
    <3>3. (WishKeeps(c))'
      BY <2>3, <3>2 DEF WishKeeps
    <3>4. (WishFits(c))'
      BY <3>3 DEF WishFits
    <3>5. QED BY <1>p, <2>3, <2>4, <3>3, <3>4, KeepsAt
  <2>8. QED BY <1>h, <2>1, <2>6, <2>7
<1>20. CASE UpdateAlter(c)
  <2>1. pc[c] = "altering" /\ UNCHANGED state
    BY <1>20 DEF UpdateAlter, classes
  <2>2. CASE wish[c] = NoRow
    <3>1. /\ wish' = [wish EXCEPT ![c] =
                        IF row[room[c]] = Null
                        THEN [seen[c] EXCEPT !.room = room[c]]
                        ELSE [seen[c] EXCEPT !.room = room[c], !.url = room[c],
                                !.owner = IF room[c] \in ClassIds THEN Blank ELSE room[c]]]
          /\ pc'[c] = "writing"
          /\ UNCHANGED <<cid, seen>>
      BY <1>20, <1>h, <2>2 DEF UpdateAlter
    <3>2. room[c] \in Rooms /\ room[c] # Null /\ seen[c] \in Row
      BY <1>0, <2>1, <2>2, RoomsAssumption DEF HoldsAt, HeldOK
    <3>3. wish'[c] = IF row[room[c]] = Null
                     THEN [seen[c] EXCEPT !.room = room[c]]
                     ELSE [seen[c] EXCEPT !.room = room[c], !.url = room[c],
                             !.owner = IF room[c] \in ClassIds THEN Blank ELSE room[c]]
      BY <1>0, <3>1 DEF HeldOK
    <3>4. CASE row[room[c]] = Null
      <4>1. /\ wish'[c].room = room[c] /\ wish'[c].url = seen[c].url
            /\ wish'[c].owner = seen[c].owner
        BY <3>2, <3>3, <3>4 DEF Row
      <4>2. (WishFits(c))'
        BY <3>1, <3>2, <4>1 DEF WishFits
      <4>3. QED BY <1>8, <1>p, <2>1, <3>1, <4>2, KeepsAt
    <3>5. CASE row[room[c]] # Null
      <4>1. /\ wish'[c].room = room[c] /\ wish'[c].url = room[c]
            /\ wish'[c].owner \in {Blank, room[c]}
        BY <3>2, <3>3, <3>5 DEF Row
      <4>2. (WishFits(c))'
        BY <3>1, <3>2, <4>1 DEF WishFits
      <4>3. QED BY <1>8, <1>p, <2>1, <3>1, <4>2, KeepsAt
    <3>6. QED BY <3>4, <3>5
  <2>3. CASE wish[c] # NoRow
    <3>1. Continue(c, "writing") \/ End(c)
      BY <1>20, <2>3 DEF UpdateAlter
    <3>2. CASE Continue(c, "writing")
      <4>1. WishKeeps(c)
        BY <1>0, <2>1, <2>3 DEF KeepsOf
      <4>2. (WishFits(c))'
        BY <1>h, <3>2, <4>1 DEF WishKeeps, WishFits
      <4>3. pc'[c] = "writing" /\ state'[cid'[c]] \in {"live", "gone"}
        BY <1>8, <1>h, <1>p, <2>1, <3>2 DEF ReadPlaces
      <4>4. QED BY <1>p, <4>2, <4>3, KeepsAt
    <3>3. QED BY <1>h, <1>n, <3>1, <3>2
  <2>4. QED BY <2>2, <2>3
<1>21. CASE UpdateWrite(c) \/ RemoveRow(c) \/ PurgeClasses(c) \/ Stop(c)
  BY <1>21, <1>h, <1>n DEF UpdateWrite, RemoveRow, PurgeClasses, Stop
<1>22. CASE RemoveRead(c)
  <2>1. PICK k \in ClassIds : ReadClass(c, "remove", k, Null)
    BY <1>22 DEF RemoveRead
  <2>2. UNCHANGED state /\ pc'[c] = "removing"
    BY <1>22, <1>h DEF RemoveRead, classes
  <2>3. QED BY <1>6, <1>h, <2>1, <2>2
<1>23. CASE RemoveUnhost(c)
  <2>1. pc[c] = "removing" /\ Continue(c, "destroying") /\ UNCHANGED state
    BY <1>23 DEF RemoveUnhost, classes
  <2>2. pc'[c] = "destroying" /\ state'[cid'[c]] \in {"live", "gone"}
    BY <1>8, <1>h, <1>p, <2>1 DEF ReadPlaces
  <2>3. QED BY <1>p, <2>2, KeepsAt
<1>24. QED
  BY <1>1, <1>2, <1>4, <1>5, <1>7, <1>9, <1>10, <1>13, <1>14, <1>15, <1>16, <1>17, <1>18, <1>19,
     <1>20, <1>21, <1>22, <1>23
     DEF Create, Enroll, Join, Sweep, Update, Remove

(* Steps that leave the tables of classes alone, whatever else they do.    *)
LEMMA QuietSteps ==
  ASSUME NEW c \in Calls,
         \/ RoomsStep(c) /\ UNCHANGED cvars
         \/ CreateRoomRow(c) \/ CreateCheck(c) \/ JoinRead(c) \/ FindSeat(c) \/ EnrollRead(c)
         \/ SweepRead(c) \/ SweepUnhost(c) \/ UpdateRead(c) \/ UpdateAlter(c)
         \/ RemoveRead(c) \/ RemoveUnhost(c) \/ Stop(c)
  PROVE  UNCHANGED classes
BY DEF cvars, CreateRoomRow, CreateCheck, JoinRead, FindSeat, EnrollRead, SweepRead,
       SweepUnhost, UpdateRead, UpdateAlter, RemoveRead, RemoveUnhost, Stop

(* What a step does to the life and the row of class k: nothing, or it     *)
(* names, makes, destroys the class, or writes the row of a live one.      *)
LifeEffect(c, k) ==
  \/ state'[k] = state[k] /\ class'[k] = class[k]
  \/ state[k] = "none" /\ state'[k] = "named" /\ class'[k] = class[k]
  \/ state[k] = "named" /\ state'[k] = "live"
  \/ state[k] = "live" /\ state'[k] = "live"
  \/ state'[k] = "gone" /\ class'[k] = NoRow

(* No step does anything else. *)
LEMMA LifeEffects ==
  ASSUME SeatsInv, NEW c \in Calls, NEW k \in ClassIds,
         \/ RoomsStep(c) /\ UNCHANGED cvars
         \/ Create(c) \/ Enroll(c) \/ Join(c) \/ Sweep(c) \/ Update(c) \/ Remove(c) \/ Stop(c)
  PROVE  LifeEffect(c, k)
<1>0. /\ ClassTablesOK /\ HoldsAt(c) /\ CallSafe(c)
      /\ state \in [ClassIds -> {"none", "named", "live", "gone"}]
  BY Parts DEF SeatsInv, TypesInv, HoldsOK, ClassTablesOK
<1>1. ASSUME UNCHANGED <<state, class>> PROVE LifeEffect(c, k)
  BY <1>1 DEF LifeEffect
<1>2. ASSUME NEW j, NEW new, WriteRow(j, new), UNCHANGED state PROVE LifeEffect(c, k)
  BY <1>0, <1>2 DEF LifeEffect, WriteRow, ClassTablesOK
<1>3. CASE \/ RoomsStep(c) /\ UNCHANGED cvars
           \/ CreateRoomRow(c) \/ CreateCheck(c) \/ JoinRead(c) \/ FindSeat(c) \/ EnrollRead(c)
           \/ SweepRead(c) \/ SweepUnhost(c) \/ UpdateRead(c) \/ UpdateAlter(c)
           \/ RemoveRead(c) \/ RemoveUnhost(c) \/ Stop(c)
  BY <1>1, <1>3, QuietSteps DEF classes
<1>4. CASE CreatePost(c)
  <2>1. PICK j \in ClassIds : state[j] = "none" /\ state' = [state EXCEPT ![j] = "named"]
    BY <1>4 DEF CreatePost
  <2>2. UNCHANGED class
    BY <1>4 DEF CreatePost
  <2>3. QED BY <1>0, <2>1, <2>2 DEF LifeEffect
<1>5. CASE CreateInsert(c)
  <2>1. pc[c] = "scheduling" /\ cid[c] \in ClassIds /\ state[cid[c]] = "named"
    BY <1>0, <1>5 DEF CreateInsert, HoldsAt, CallSafe, ClassPlaces, CreatePlaces, Drafting
  <2>2. \/ /\ state' = [state EXCEPT ![cid[c]] = "live"]
           /\ class' = [class EXCEPT ![cid[c]] = seen[c]]
        \/ UNCHANGED <<state, class>>
    BY <1>5 DEF CreateInsert
  <2>3. QED BY <1>0, <2>1, <2>2 DEF LifeEffect, ClassTablesOK
<1>6. CASE CreateSeat(c) \/ SaveList(c) \/ File(c)
  BY <1>1, <1>6 DEF CreateSeat, SaveList, File
<1>7. CASE SaveOwner(c) \/ SweepClear(c)
  BY <1>2, <1>7 DEF SaveOwner, SweepClear
<1>8. CASE UpdateWrite(c)
  BY <1>1, <1>2, <1>8 DEF UpdateWrite
<1>9. ASSUME NEW ks, Destroy(ks) PROVE LifeEffect(c, k)
  BY <1>9 DEF Destroy, LifeEffect
<1>10. CASE RemoveRow(c) \/ PurgeClasses(c)
  BY <1>9, <1>10 DEF RemoveRow, PurgeClasses
<1>11. QED
  BY <1>3, <1>4, <1>5, <1>6, <1>7, <1>8, <1>10 DEF Create, Enroll, Join, Sweep, Update, Remove

(* What there is at the beginning. *)
LEMMA Begins ==
  ASSUME Init
  PROVE  /\ \E old \in SUBSET ClassIds :
              /\ \A r \in hosted \cap ClassIds : r \in old
              /\ \A k \in old :
                   /\ class[k].room = k /\ class[k].url = k /\ class[k].owner = k
                   /\ state[k] = "live"
                   /\ \A u \in Users : seats[k][u] \in {k, Null}
              /\ \A k \in ClassIds \ old :
                   class[k] = NoRow /\ \A u \in Users : seats[k][u] = Null
         /\ \A c \in Calls : pc[c] = "idle" /\ wish[c] = NoRow
<1>1. PICK old \in SUBSET ClassIds, guest \in {{}} \cup {{u} : u \in Students},
           lesson \in BOOLEAN :
        \E title \in [old -> Titles] :
          /\ \A j, k \in old : title[j] = title[k] => j = k
          /\ hosted = IF old = ClassIds THEN Rooms ELSE old
          /\ row = [r \in Rooms |-> IF r \in hosted THEN Earlier ELSE Null]
          /\ state = [k \in ClassIds |-> IF k \in old THEN "live" ELSE "none"]
          /\ class = [k \in ClassIds |-> IF k \in old THEN Begun(k, title[k]) ELSE NoRow]
          /\ seats = [k \in ClassIds |-> [u \in Users |->
                        IF k \in old /\ u \in guest \cup {Tutor} THEN k ELSE Null]]
          /\ enrolled = [k \in ClassIds |-> IF k \in old THEN guest ELSE {}]
          /\ guest # {} => lesson
          /\ lesson => old # ClassIds
          /\ private = [k \in ClassIds |-> k \in old /\ lesson]
          /\ invited = [k \in ClassIds |-> IF k \in old THEN guest ELSE {}]
  BY Zenon DEF Init
<1>2. PICK title :
          /\ hosted = IF old = ClassIds THEN Rooms ELSE old
          /\ state = [k \in ClassIds |-> IF k \in old THEN "live" ELSE "none"]
          /\ class = [k \in ClassIds |-> IF k \in old THEN Begun(k, title[k]) ELSE NoRow]
          /\ seats = [k \in ClassIds |-> [u \in Users |->
                        IF k \in old /\ u \in guest \cup {Tutor} THEN k ELSE Null]]
  BY <1>1, Zenon
<1>3. \A k \in old : class[k] = Begun(k, title[k]) /\ state[k] = "live"
  BY <1>2
<1>4. ASSUME NEW k \in old PROVE class[k].room = k /\ class[k].url = k /\ class[k].owner = k
  <2>1. class[k] = [title |-> title[k], tutor |-> Tutor, start |-> 1,
                    room |-> k, url |-> k, owner |-> k]
    BY <1>3, Zenon DEF Begun
  <2>2. QED BY <2>1
<1>5. /\ \A k \in old : \A u \in Users : seats[k][u] \in {k, Null}
      /\ \A k \in ClassIds \ old :
           class[k] = NoRow /\ \A u \in Users : seats[k][u] = Null
  BY <1>2
<1>6. \A r \in hosted \cap ClassIds : r \in old
  BY <1>2
<1>7. pc = [c \in Calls |-> "idle"] /\ wish = [c \in Calls |-> NoRow]
  BY DEF Init
<1>8. QED BY <1>3, <1>4, <1>5, <1>6, <1>7

(* The first calls are idle and hold nothing. *)
LEMMA KeepInit == Init => KeepInv
<1> SUFFICES ASSUME Init PROVE KeepInv
  OBVIOUS
<1>1. SeatsInv
  BY SeatsInit
<1>2. Blanks
  BY Begins DEF Blanks
<1>3. ASSUME NEW c \in Calls PROVE KeepsOf(c)
  <2>1. pc[c] = "idle" /\ wish[c] = NoRow
    BY Begins
  <2>2. QED
    BY <2>1 DEF KeepsOf, Drafting, ReadPlaces, JoinPlaces, SweepPlaces, OtherPlaces
<1>4. QED BY <1>1, <1>2, <1>3 DEF KeepInv

(* Every step keeps what calls hold in order. *)
LEMMA KeepNext == KeepInv /\ [Next]_vars => KeepInv'
<1> SUFFICES ASSUME KeepInv, [Next]_vars PROVE KeepInv'
  OBVIOUS
<1>1. SeatsInv /\ SeatsInv'
  BY SeatsNext DEF KeepInv
<1>2. ASSUME NEW c \in Calls,
             \/ RoomsStep(c) /\ UNCHANGED cvars
             \/ Create(c) \/ Enroll(c) \/ Join(c) \/ Sweep(c) \/ Update(c) \/ Remove(c)
             \/ Stop(c)
      PROVE  KeepInv'
  <2>1. \A k \in ClassIds : LifeEffect(c, k)
    BY <1>1, <1>2, LifeEffects
  <2>2. Blanks'
    BY <2>1 DEF KeepInv, Blanks, LifeEffect
  <2>3. \A k \in ClassIds : Opened(k) => Opened(k)'
    BY <2>1 DEF LifeEffect, Opened
  <2>4. HoldsOK /\ HeldOK /\ RoomCallsOK
    BY <1>1, Parts DEF SeatsInv, TypesInv
  <2>5. ASSUME NEW d \in Calls PROVE KeepsOf(d)'
    <3>1. CASE d = c
      BY <1>2, <3>1, CallKeeps
    <3>2. CASE d # c
      BY <1>2, <2>3, <2>4, <3>2, OneCall, OthersKeep DEF KeepInv
    <3>3. QED BY <3>1, <3>2
  <2>6. QED BY <1>1, <2>2, <2>5 DEF KeepInv
<1>3. ASSUME UNCHANGED <<pc, classes, held>> PROVE KeepInv'
  <2>1. Blanks'
    BY <1>3 DEF KeepInv, Blanks, classes
  <2>2. \A c \in Calls : KeepsOf(c)'
    BY <1>3 DEF KeepInv, KeepsOf, WishKeeps, WishFits, Opened, classes, held
  <2>3. QED BY <1>1, <2>1, <2>2 DEF KeepInv
<1>4. CASE Tick
  BY <1>3, <1>4 DEF Tick
<1>5. CASE UNCHANGED vars
  BY <1>3, <1>5 DEF vars, cvars
<1>6. QED BY <1>2, <1>4, <1>5 DEF Next, Quiet
-----------------------------------------------------------------------------

(* A room of which nothing is left at the provider, or that is stray; a    *)
(* call that makes the class it was drawn for.                             *)
Spared(r) == r \notin hosted \/ r \in stray
DraftOf(r) == \E c \in Calls : cid[c] = r /\ pc[c] \in Drafting
Used(r) == Spared(r) \/ DraftOf(r) \/ \E k \in ClassIds : class[k].room = r

(* A class that is about to lose its room, which has been taken down: it   *)
(* can be hosted again only by the class it was drawn for.                 *)
TakenPlaces == {"clearing", "destroying"}
TakenDown(c) ==
  \A r \in ClassIds : pc[c] \in TakenPlaces /\ seen[c].room = r =>
    IF cid[c] = r THEN Spared(r) ELSE Spared(r) \/ DraftOf(r) \/ class[r].room = r

(* What a purge has not deleted is on its list, or it missed it; and who   *)
(* adds a room has named it.                                               *)
ListsAll(c) ==
  /\ pc[c] = "purging" => hosted \subseteq left[c] \cup stray
  /\ pc[c] = "dismissing" => hosted \subseteq stray
  /\ pc[c] = "posting" => room[c] \in RoomNames

(* The inductive invariant of the rooms that are in use. *)
UsedInv ==
  /\ KeepInv /\ RoomsInv
  /\ \A c \in Calls : TakenDown(c) /\ ListsAll(c)
  /\ \A r \in ClassIds : Used(r)

(* What a step of call c does to the classes' rooms at the provider, to    *)
(* the class it makes, and to the rooms in the rows of classes.            *)
Hosts(c) == \A r \in ClassIds : r \in hosted' =>
  \/ r \in hosted
  \/ pc[c] = "idle" /\ pc'[c] = "inserting" /\ cid'[c] = r /\ state[r] = "none"
Makes(c) == pc[c] \in Drafting =>
  \/ pc'[c] \in Drafting /\ cid'[c] = cid[c]
  \/ cid[c] \in stray'
  \/ class'[cid[c]].room = cid[c]
Empties(c) == \A k \in ClassIds : class[k].room \in ClassIds =>
  \/ class'[k].room = class[k].room
  \/ class[k].room \in stray'
  \/ pc[c] \in TakenPlaces /\ cid[c] = k /\ seen[c].room = class[k].room
  \/ pc[c] = "dismissing" /\ hosted' = hosted

(* Every step has only such effects. *)
LEMMA HostsOnly ==
  ASSUME UsedInv, NEW c \in Calls,
         \/ RoomsStep(c) /\ UNCHANGED cvars
         \/ Create(c) \/ Enroll(c) \/ Join(c) \/ Sweep(c) \/ Update(c) \/ Remove(c) \/ Stop(c)
  PROVE  Hosts(c)
<1>0. /\ ListsAll(c) /\ HeldOK /\ RoomsAssumption
  BY Parts, RoomsAssumption DEF UsedInv, KeepInv, SeatsInv, TypesInv
<1>1. ASSUME hosted' \subseteq hosted PROVE Hosts(c)
  BY <1>1 DEF Hosts
<1>2. CASE AddPost(c)
  <2>1. room[c] \in RoomNames /\ hosted' \subseteq hosted \cup {room[c]}
    BY <1>0, <1>2 DEF AddPost, ListsAll
  <2>2. QED BY <1>0, <2>1 DEF Hosts, RoomsAssumption
<1>3. CASE RoomsStep(c) /\ ~AddPost(c)
  BY <1>1, <1>3 DEF RoomsStep, AddFind, AddTokens, AddRow, DropFind, DropDelete, DropRow,
                    PurgeList, PurgeDelete, PurgeRows, Unhost
<1>4. CASE CreatePost(c)
  <2>1. PICK k \in ClassIds : /\ state[k] = "none"
                             /\ hosted' = hosted \cup {k}
                             /\ cid' = [cid EXCEPT ![c] = k]
    BY <1>4 DEF CreatePost
  <2>2. pc[c] = "idle" /\ pc'[c] = "inserting" /\ cid'[c] = k
    BY <1>0, <1>4, <2>1 DEF CreatePost, GoTo, HeldOK
  <2>3. QED BY <2>1, <2>2 DEF Hosts
<1>5. CASE CreateRoomRow(c) \/ CreateCheck(c) \/ CreateInsert(c) \/ CreateSeat(c) \/ Enroll(c)
  BY <1>1, <1>5 DEF CreateRoomRow, CreateCheck, CreateInsert, CreateSeat, Enroll, EnrollRead,
                    SaveList, File, rooms
<1>6. CASE Join(c) \/ Update(c) \/ Stop(c)
  BY <1>1, <1>6 DEF Join, JoinRead, SaveOwner, FindSeat, Update, UpdateRead, UpdateAlter,
                    UpdateWrite, Stop, rooms
<1>7. CASE Sweep(c) \/ Remove(c)
  BY <1>1, <1>7 DEF Sweep, SweepRead, SweepUnhost, SweepClear, Remove, RemoveRead, RemoveUnhost,
                    RemoveRow, PurgeClasses, Unhost, rooms
<1>8. QED BY <1>2, <1>3, <1>4, <1>5, <1>6, <1>7 DEF Create

(* The class a call makes is inserted, or its room is stray. *)
LEMMA MakesOnly ==
  ASSUME UsedInv, NEW c \in Calls,
         \/ RoomsStep(c) /\ UNCHANGED cvars
         \/ Create(c) \/ Enroll(c) \/ Join(c) \/ Sweep(c) \/ Update(c) \/ Remove(c) \/ Stop(c)
  PROVE  Makes(c)
<1>0. /\ KeepsOf(c) /\ HoldsAt(c) /\ HeldOK /\ ClassTablesOK
  BY Parts DEF UsedInv, KeepInv, SeatsInv, TypesInv, HoldsOK
<1>1. ASSUME pc[c] \notin Drafting PROVE Makes(c)
  BY <1>1 DEF Makes
<1>2. CASE CreateRoomRow(c)
  BY <1>0, <1>2 DEF CreateRoomRow, Continue, held, GoTo, HeldOK, Makes, Drafting
<1>3. CASE CreateCheck(c)
  BY <1>0, <1>3 DEF CreateCheck, Continue, held, GoTo, HeldOK, Makes, Drafting
<1>4. CASE CreateInsert(c)
  <2>1. cid[c] \in ClassIds /\ seen[c].room = cid[c]
    BY <1>0, <1>4 DEF CreateInsert, HoldsAt, KeepsOf, ClassPlaces, CreatePlaces, Drafting
  <2>2. class' = [class EXCEPT ![cid[c]] = seen[c]] \/ stray' = stray \cup {cid[c]}
    BY <1>4 DEF CreateInsert
  <2>3. QED BY <1>0, <2>1, <2>2 DEF Makes, ClassTablesOK
<1>5. CASE Stop(c)
  BY <1>5 DEF Stop, Makes, Drafting, CreatePlaces
<1>6. CASE CreatePost(c) \/ CreateSeat(c) \/ Enroll(c) \/ Join(c)
  BY <1>1, <1>6 DEF CreatePost, CreateSeat, Enroll, EnrollRead, SaveList, File, Join, JoinRead,
                    SaveOwner, FindSeat, Drafting
<1>7. CASE Sweep(c) \/ Update(c) \/ Remove(c)
  BY <1>1, <1>7 DEF Sweep, SweepRead, SweepUnhost, SweepClear, Update, UpdateRead, UpdateAlter,
                    UpdateWrite, Remove, RemoveRead, RemoveUnhost, RemoveRow, PurgeClasses,
                    Drafting
<1>8. CASE RoomsStep(c)
  BY <1>1, <1>8 DEF RoomsStep, AddFind, AddPost, AddTokens, AddRow, DropFind, DropDelete, DropRow,
                    PurgeList, PurgeDelete, PurgeRows, Drafting
<1>9. QED BY <1>2, <1>3, <1>4, <1>5, <1>6, <1>7, <1>8 DEF Create

(* A class's row loses a room that is stray, or that has been taken down.  *)
LEMMA EmptiesOnly ==
  ASSUME UsedInv, NEW c \in Calls,
         \/ RoomsStep(c) /\ UNCHANGED cvars
         \/ Create(c) \/ Enroll(c) \/ Join(c) \/ Sweep(c) \/ Update(c) \/ Remove(c) \/ Stop(c)
  PROVE  /\ Empties(c)
         /\ pc[c] \in TakenPlaces => \A k \in ClassIds : k # cid[c] => class'[k] = class[k]
<1> DEFINE Rest ==
      pc[c] \in TakenPlaces => \A k \in ClassIds : k # cid[c] => class'[k] = class[k]
<1>0. /\ KeepsOf(c) /\ HoldsAt(c) /\ CallSafe(c) /\ Blanks /\ HeldOK /\ ClassTablesOK
      /\ Null \notin ClassIds /\ class \in [ClassIds -> Row] /\ seen \in [Calls -> Row]
      /\ DOMAIN class = ClassIds
  BY Parts, RoomsAssumption
     DEF UsedInv, KeepInv, SeatsInv, TypesInv, HoldsOK, ClassTablesOK, HeldOK, Rooms
<1>1. ASSUME UNCHANGED class PROVE Empties(c) /\ Rest
  BY <1>1 DEF Empties
<1>2. CASE \/ RoomsStep(c) /\ UNCHANGED cvars
           \/ CreateRoomRow(c) \/ CreateCheck(c) \/ JoinRead(c) \/ FindSeat(c) \/ EnrollRead(c)
           \/ SweepRead(c) \/ SweepUnhost(c) \/ UpdateRead(c) \/ UpdateAlter(c)
           \/ RemoveRead(c) \/ RemoveUnhost(c) \/ Stop(c)
  BY <1>1, <1>2, QuietSteps DEF classes
<1>3. CASE CreatePost(c) \/ CreateSeat(c) \/ SaveList(c) \/ File(c)
  BY <1>1, <1>3 DEF CreatePost, CreateSeat, SaveList, File
<1>4. CASE CreateInsert(c)
  <2>1. pc[c] = "scheduling" /\ cid[c] \in ClassIds /\ state[cid[c]] = "named"
    BY <1>0, <1>4 DEF CreateInsert, HoldsAt, CallSafe, ClassPlaces, CreatePlaces, Drafting
  <2>2. class[cid[c]].room \notin ClassIds
    BY <1>0, <2>1 DEF Blanks, NoRow
  <2>3. \A k \in ClassIds : k # cid[c] => class'[k] = class[k]
    BY <1>0, <1>4, <2>1 DEF CreateInsert
  <2>4. QED BY <2>1, <2>2, <2>3 DEF Empties, TakenPlaces
<1>5. CASE SaveOwner(c)
  <2>1. pc[c] = "saving" /\ cid[c] \in ClassIds
    BY <1>0, <1>5 DEF SaveOwner, HoldsAt, ClassPlaces, JoinPlaces
  <2>2. \A k \in ClassIds : class'[k].room = class[k].room
    BY <1>0, <1>5, <2>1 DEF SaveOwner, WriteRow, Row
  <2>3. QED BY <2>1, <2>2 DEF Empties, TakenPlaces
<1>6. CASE SweepClear(c)
  <2>1. pc[c] = "clearing" /\ cid[c] \in ClassIds
    BY <1>0, <1>6 DEF SweepClear, HoldsAt, ClassPlaces, SweepPlaces
  <2>2. \A k \in ClassIds : k # cid[c] => class'[k] = class[k]
    BY <1>0, <1>6, <2>1 DEF SweepClear, WriteRow
  <2>3. \/ class[cid[c]].room = seen[c].room
        \/ class[cid[c]].room \in ClassIds => class[cid[c]].room \in stray'
    BY <1>0, <1>6 DEF SweepClear
  <2>4. QED BY <2>1, <2>2, <2>3 DEF Empties, TakenPlaces
<1>7. CASE UpdateWrite(c)
  <2>1. pc[c] = "writing" /\ cid[c] \in ClassIds
    BY <1>0, <1>7 DEF UpdateWrite, HoldsAt, ClassPlaces, OtherPlaces
  <2>2. \/ UNCHANGED class
        \/ \E new : /\ WriteRow(cid[c], new)
                    /\ new.room # class[cid[c]].room =>
                         stray' = stray \cup ({class[cid[c]].room} \ {Null})
    BY <1>7 DEF UpdateWrite
  <2>3. CASE \E new : /\ WriteRow(cid[c], new)
                      /\ new.room # class[cid[c]].room =>
                           stray' = stray \cup ({class[cid[c]].room} \ {Null})
    <3>1. PICK new : /\ WriteRow(cid[c], new)
                     /\ new.room # class[cid[c]].room =>
                          stray' = stray \cup ({class[cid[c]].room} \ {Null})
      BY <2>3
    <3>2. /\ \A k \in ClassIds : k # cid[c] => class'[k] = class[k]
          /\ class'[cid[c]] = class[cid[c]] \/ class'[cid[c]] = new
      BY <1>0, <2>1, <3>1 DEF WriteRow
    <3>3. QED BY <1>0, <2>1, <3>1, <3>2 DEF Empties, TakenPlaces
  <2>4. QED BY <1>1, <2>2, <2>3
<1>8. CASE RemoveRow(c)
  <2>1. pc[c] = "destroying" /\ cid[c] \in ClassIds
    BY <1>0, <1>8 DEF RemoveRow, HoldsAt, ClassPlaces, OtherPlaces
  <2>2. \A k \in ClassIds : k # cid[c] => class'[k] = class[k]
    BY <1>8 DEF RemoveRow, Destroy
  <2>3. \/ class[cid[c]].room = seen[c].room
        \/ class[cid[c]].room \in ClassIds => class[cid[c]].room \in stray'
    BY <1>0, <1>8 DEF RemoveRow
  <2>4. QED BY <2>1, <2>2, <2>3 DEF Empties, TakenPlaces
<1>9. CASE PurgeClasses(c)
  BY <1>9 DEF PurgeClasses, Empties, TakenPlaces, rooms
<1>10. QED
  BY <1>2, <1>3, <1>4, <1>5, <1>6, <1>7, <1>8, <1>9
     DEF Create, Enroll, Join, Sweep, Update, Remove

(* A call that is about to empty a class's row has taken its room down;    *)
(* a purge keeps track of all rooms.                                       *)
LEMMA TakesOnly ==
  ASSUME UsedInv, NEW c \in Calls,
         \/ RoomsStep(c) /\ UNCHANGED cvars
         \/ Create(c) \/ Enroll(c) \/ Join(c) \/ Sweep(c) \/ Update(c) \/ Remove(c) \/ Stop(c)
  PROVE  /\ pc'[c] \in TakenPlaces =>
              seen'[c].room \notin hosted' \/ seen'[c].room \in stray' \cup {Null}
         /\ ListsAll(c)'
<1> DEFINE Down == pc'[c] \in TakenPlaces =>
                     seen'[c].room \notin hosted' \/ seen'[c].room \in stray' \cup {Null}
<1>0. HeldOK /\ RoomCallsOK /\ ListsAll(c)
  BY Parts DEF UsedInv, KeepInv, SeatsInv, TypesInv
<1>h. /\ \A p : GoTo(c, p) => pc'[c] = p
      /\ \A p : Proceed(c, p) => pc'[c] = p
      /\ Leave(c) => pc'[c] = "done"
      /\ End(c) => pc'[c] = "done"
      /\ \A k, r, t : Answer(c, k, r, t) => pc'[c] = "answered"
      /\ \A p : Continue(c, p) => pc'[c] = p /\ seen'[c] = seen[c]
  BY <1>0, Held
<1>n. ASSUME pc'[c] \notin {"clearing", "destroying", "purging", "dismissing", "posting"}
      PROVE  Down /\ ListsAll(c)'
  BY <1>n DEF TakenPlaces, ListsAll
<1>1. CASE AddFind(c)
  <2>1. \E r \in RoomNames : room' = [room EXCEPT ![c] = r]
    BY <1>1 DEF AddFind
  <2>2. room'[c] \in RoomNames /\ pc'[c] = "posting"
    BY <1>0, <1>1, <1>h, <2>1 DEF AddFind, RoomCallsOK
  <2>3. QED BY <2>2 DEF TakenPlaces, ListsAll
<1>2. CASE AddPost(c) \/ AddTokens(c) \/ AddRow(c) \/ DropFind(c) \/ DropDelete(c) \/ DropRow(c)
  BY <1>2, <1>h, <1>n DEF AddPost, AddTokens, AddRow, DropFind, DropDelete, DropRow
<1>3. CASE PurgeList(c)
  <2>1. pc'[c] = "purging" /\ left'[c] = hosted /\ hosted' = hosted
    BY <1>0, <1>3, <1>h DEF PurgeList, RoomCallsOK
  <2>2. QED BY <2>1 DEF TakenPlaces, ListsAll
<1>4. CASE PurgeDelete(c)
  <2>1. CASE \E r \in left[c] : /\ Unhost(r)
                                /\ left' = [left EXCEPT ![c] = @ \ {r}]
                                /\ UNCHANGED pc
    <3>1. PICK r \in left[c] : /\ hosted' = hosted \ {r}
                               /\ left' = [left EXCEPT ![c] = @ \ {r}]
                               /\ UNCHANGED pc
      BY <2>1 DEF Unhost
    <3>2. pc'[c] = "purging" /\ left'[c] = left[c] \ {r} /\ stray' = stray
      BY <1>0, <1>4, <3>1 DEF PurgeDelete, RoomCallsOK
    <3>3. hosted \subseteq left[c] \cup stray
      BY <1>0, <1>4 DEF PurgeDelete, ListsAll
    <3>4. QED BY <3>1, <3>2, <3>3 DEF TakenPlaces, ListsAll
  <2>2. CASE GoTo(c, "done")
    BY <1>h, <1>n, <2>2
  <2>3. QED BY <1>4, <2>1, <2>2 DEF PurgeDelete
<1>5. CASE PurgeRows(c)
  <2>1. pc'[c] = "dismissing" /\ UNCHANGED <<hosted, stray>> /\ pc[c] = "purging" /\ left[c] = {}
    BY <1>5, <1>h DEF PurgeRows
  <2>2. QED BY <1>0, <2>1 DEF TakenPlaces, ListsAll
<1>6. CASE Create(c)
  BY <1>6, <1>h, <1>n
     DEF Create, CreatePost, CreateRoomRow, CreateCheck, CreateInsert, CreateSeat
<1>7. CASE Enroll(c)
  BY <1>7, <1>h, <1>n DEF Enroll, EnrollRead, SaveList, File
<1>8. CASE JoinRead(c) \/ SaveOwner(c)
  BY <1>8, <1>h, <1>n DEF JoinRead, SaveOwner, Onward
<1>9. CASE FindSeat(c)
  <2>1. \/ \E t : Answer(c, cid[c], seen[c], t)
        \/ Continue(c, "listing")
        \/ End(c)
    BY <1>9 DEF FindSeat
  <2>2. QED BY <1>h, <1>n, <2>1
<1>10. CASE SweepRead(c)
  BY <1>10, <1>h, <1>n DEF SweepRead
<1>11. CASE SweepUnhost(c)
  <2>1. \/ hosted' = hosted \ {seen[c].room} /\ Continue(c, "clearing")
        \/ \E t : Answer(c, cid[c], seen[c], t)
        \/ Continue(c, Onward(who[c], seen[c]))
        \/ End(c)
    BY <1>11 DEF SweepUnhost, Unhost
  <2>2. CASE hosted' = hosted \ {seen[c].room} /\ Continue(c, "clearing")
    BY <1>h, <2>2 DEF TakenPlaces, ListsAll
  <2>3. Onward(who[c], seen[c]) \in {"saving", "finding"}
    BY DEF Onward
  <2>4. QED BY <1>h, <1>n, <2>1, <2>2, <2>3
<1>12. CASE SweepClear(c) \/ UpdateWrite(c) \/ RemoveRow(c) \/ PurgeClasses(c) \/ Stop(c)
  BY <1>12, <1>h, <1>n DEF SweepClear, UpdateWrite, RemoveRow, PurgeClasses, Stop
<1>13. CASE UpdateRead(c) \/ UpdateAlter(c) \/ RemoveRead(c)
  BY <1>13, <1>h, <1>n DEF UpdateRead, UpdateAlter, RemoveRead
<1>14. CASE RemoveUnhost(c)
  <2>1. \/ hosted' = hosted \ {seen[c].room}
        \/ stray' = stray \cup ({seen[c].room} \ {Null})
    BY <1>14 DEF RemoveUnhost, Unhost
  <2>2. pc'[c] = "destroying" /\ seen'[c] = seen[c]
    BY <1>14, <1>h DEF RemoveUnhost
  <2>3. QED BY <2>1, <2>2 DEF TakenPlaces, ListsAll
<1>15. QED
  BY <1>1, <1>2, <1>3, <1>4, <1>5, <1>6, <1>7, <1>8, <1>9, <1>10, <1>11, <1>12, <1>13, <1>14
     DEF RoomsStep, Join, Sweep, Update, Remove

(* What is in use or about to be emptied stays so, whoever steps.          *)
LEMMA UsedStep ==
  ASSUME UsedInv, NEW c \in Calls,
         \/ RoomsStep(c) /\ UNCHANGED cvars
         \/ Create(c) \/ Enroll(c) \/ Join(c) \/ Sweep(c) \/ Update(c) \/ Remove(c) \/ Stop(c)
  PROVE  /\ \A d \in Calls : TakenDown(d)' /\ ListsAll(d)'
         /\ \A r \in ClassIds : Used(r)'
<1>0. /\ HeldOK /\ RoomCallsOK /\ HoldsOK /\ Null \notin ClassIds /\ ClassIds \subseteq Rooms
      /\ \A d \in Calls : KeepsOf(d) /\ TakenDown(d) /\ ListsAll(d)
  BY Parts, RoomsAssumption DEF UsedInv, KeepInv, SeatsInv, TypesInv, Rooms
<1>o. \A d \in Calls : d # c => Untouched(d)
  BY <1>0, OneCall
<1>e. Hosts(c) /\ Makes(c) /\ Empties(c)
      /\ (pc[c] \in TakenPlaces => \A k \in ClassIds : k # cid[c] => class'[k] = class[k])
      /\ (pc'[c] \in TakenPlaces =>
            seen'[c].room \notin hosted' \/ seen'[c].room \in stray' \cup {Null})
      /\ ListsAll(c)'
  BY HostsOnly, MakesOnly, EmptiesOnly, TakesOnly
<1>r. /\ stray \subseteq stray'
      /\ hosted' \subseteq hosted \/ Purging => hosted' \subseteq hosted \cup stray'
  BY RoomEffects DEF UsedInv, RoomEffect
<1>1. ASSUME NEW r \in ClassIds, Spared(r) PROVE Spared(r)' \/ (DraftOf(r)' /\ ~Opened(r))
  <2>1. CASE r \in hosted' /\ r \notin hosted
    <3>1. pc[c] = "idle" /\ pc'[c] = "inserting" /\ cid'[c] = r /\ state[r] = "none"
      BY <1>e, <2>1 DEF Hosts
    <3>2. QED BY <3>1 DEF DraftOf, Drafting, Opened
  <2>2. CASE ~(r \in hosted' /\ r \notin hosted)
    BY <1>1, <1>r, <2>2 DEF Spared
  <2>3. QED BY <2>1, <2>2
<1>2. ASSUME NEW r \in ClassIds, Spared(r), pc[c] # "idle" PROVE Spared(r)'
  BY <1>2, <1>e, <1>r DEF Hosts, Spared
<1>3. ASSUME NEW r \in ClassIds, DraftOf(r) PROVE DraftOf(r)' \/ Spared(r)' \/ class'[r].room = r
  <2>1. PICK d \in Calls : cid[d] = r /\ pc[d] \in Drafting
    BY <1>3 DEF DraftOf
  <2>2. CASE d = c
    BY <1>e, <2>1, <2>2 DEF Makes, DraftOf, Spared
  <2>3. CASE d # c
    BY <1>o, <2>1, <2>3 DEF Untouched, DraftOf
  <2>4. QED BY <2>2, <2>3
<1>4. ASSUME NEW r \in ClassIds, NEW k \in ClassIds, class[k].room = r
      PROVE  \/ class'[k].room = r
             \/ Spared(r)'
             \/ k # r /\ DraftOf(r)'
             \/ k # r /\ class'[r].room = r
  <2>1. CASE pc[c] \in TakenPlaces /\ cid[c] = k /\ seen[c].room = r
    <3>1. IF k = r THEN Spared(r) ELSE Spared(r) \/ DraftOf(r) \/ class[r].room = r
      BY <1>0, <2>1 DEF TakenDown
    <3>2. pc[c] # "idle"
      BY <2>1 DEF TakenPlaces
    <3>3. CASE Spared(r)
      BY <1>2, <3>2, <3>3
    <3>4. CASE k # r /\ DraftOf(r)
      BY <1>3, <3>4
    <3>5. CASE k # r /\ class[r].room = r
      BY <1>e, <2>1, <3>5
    <3>6. QED BY <3>1, <3>3, <3>4, <3>5
  <2>2. CASE pc[c] = "dismissing" /\ hosted' = hosted
    BY <1>0, <1>r, <2>2 DEF ListsAll, Spared
  <2>3. CASE r \in stray'
    BY <2>3 DEF Spared
  <2>4. QED BY <1>4, <1>e, <2>1, <2>2, <2>3 DEF Empties
<1>5. ASSUME NEW r \in ClassIds PROVE Used(r)'
  <2>1. Used(r)
    BY DEF UsedInv
  <2>2. CASE Spared(r)
    BY <1>1, <2>2 DEF Used
  <2>3. CASE DraftOf(r)
    BY <1>3, <2>3 DEF Used
  <2>4. CASE \E k \in ClassIds : class[k].room = r
    BY <1>4, <2>4 DEF Used
  <2>5. QED BY <2>1, <2>2, <2>3, <2>4 DEF Used
<1>6. TakenDown(c)'
  <2>1. ASSUME NEW r \in ClassIds, pc'[c] \in TakenPlaces, seen'[c].room = r PROVE Spared(r)'
    BY <1>0, <1>e, <2>1 DEF Spared
  <2>2. QED BY <2>1 DEF TakenDown
<1>7. ASSUME NEW d \in Calls, d # c PROVE TakenDown(d)'
  <2>1. /\ pc'[d] = pc[d] /\ cid'[d] = cid[d] /\ seen'[d] = seen[d]
    BY <1>o, <1>7 DEF Untouched
  <2>2. ASSUME NEW r \in ClassIds, pc[d] \in TakenPlaces, seen[d].room = r
        PROVE  IF cid[d] = r THEN Spared(r)' ELSE Spared(r)' \/ DraftOf(r)' \/ class'[r].room = r
    <3>1. Opened(cid[d])
      BY <1>0, <2>2 DEF KeepsOf, TakenPlaces, ReadPlaces, SweepPlaces, OtherPlaces
    <3>2. IF cid[d] = r THEN Spared(r) ELSE Spared(r) \/ DraftOf(r) \/ class[r].room = r
      BY <1>0, <2>2 DEF TakenDown
    <3>3. CASE Spared(r)
      BY <1>1, <3>1, <3>3
    <3>4. CASE cid[d] # r /\ DraftOf(r)
      BY <1>3, <3>4
    <3>5. CASE cid[d] # r /\ class[r].room = r
      BY <1>4, <3>5
    <3>6. QED BY <3>2, <3>3, <3>4, <3>5
  <2>3. QED BY <2>1, <2>2 DEF TakenDown
<1>8. ASSUME NEW d \in Calls, d # c PROVE ListsAll(d)'
  <2>1. pc'[d] = pc[d] /\ left'[d] = left[d] /\ room'[d] = room[d]
    BY <1>o, <1>8 DEF Untouched
  <2>2. ASSUME pc[d] \in {"purging", "dismissing"} PROVE hosted' \subseteq hosted \cup stray'
    BY <1>r, <2>2 DEF Purging, PurgePlaces
  <2>3. ListsAll(d)
    BY <1>0
  <2>4. QED BY <1>r, <2>1, <2>2, <2>3 DEF ListsAll
<1>9. QED BY <1>5, <1>6, <1>7, <1>8, <1>e

(* The first rooms are in the rows of classes. *)
LEMMA UsedInit == Init => UsedInv
<1> SUFFICES ASSUME Init PROVE UsedInv
  OBVIOUS
<1>1. KeepInv /\ RoomsInv
  BY KeepInit, RoomsInit
<1>2. \A c \in Calls : pc[c] = "idle"
  BY Begins
<1>3. ASSUME NEW r \in ClassIds PROVE Used(r)
  BY Begins DEF Used, Spared
<1>4. QED BY <1>1, <1>2, <1>3 DEF UsedInv, TakenDown, TakenPlaces, ListsAll

(* Every step keeps rooms in use. *)
LEMMA UsedNext == UsedInv /\ [Next]_vars => UsedInv'
<1> SUFFICES ASSUME UsedInv, [Next]_vars PROVE UsedInv'
  OBVIOUS
<1>1. KeepInv' /\ RoomsInv'
  BY KeepNext, RoomsNext DEF UsedInv
<1>2. ASSUME NEW c \in Calls,
             \/ RoomsStep(c) /\ UNCHANGED cvars
             \/ Create(c) \/ Enroll(c) \/ Join(c) \/ Sweep(c) \/ Update(c) \/ Remove(c)
             \/ Stop(c)
      PROVE  UsedInv'
  BY <1>1, <1>2, UsedStep DEF UsedInv
<1>3. ASSUME UNCHANGED <<hosted, stray, left, room, pc, classes, held>> PROVE UsedInv'
  <2>1. (\A r \in ClassIds : Used(r)') /\ \A c \in Calls : TakenDown(c)' /\ ListsAll(c)'
    BY <1>3 DEF UsedInv, Used, Spared, DraftOf, TakenDown, ListsAll, classes, held
  <2>2. QED BY <1>1, <2>1 DEF UsedInv
<1>4. CASE Tick
  BY <1>3, <1>4 DEF Tick, rooms
<1>5. CASE UNCHANGED vars
  BY <1>3, <1>5 DEF vars, cvars
<1>6. QED BY <1>2, <1>4, <1>5 DEF Next, Quiet

(* Every room drawn for a class that the provider hosts is in the row of a *)
(* class, is being made, or is known to have been left behind: whatever    *)
(* stops, and however moves, sweeps, removals and purges overlap.          *)
THEOREM RoomsAreUsed == Spec => []ProviderRoomUsed
<1>1. UsedInv => ProviderRoomUsed
  BY DEF UsedInv, Used, Spared, DraftOf, ProviderRoomUsed, Drafting, CreatePlaces
<1>2. QED BY UsedInit, UsedNext, <1>1, PTL DEF Spec
-----------------------------------------------------------------------------

(* A call that is about to take a room down has read a class that was over *)
(* and in that room.                                                       *)
Sweeps(c) ==
  pc[c] = "unhosting" =>
    /\ now >= seen[c].start + 1
    /\ state[cid[c]] = "live" /\ cid[c] \notin retimed => class[cid[c]].start = seen[c].start
    /\ seen[c].room \in {cid[c]} \cup reused

OwnRooms == \A k \in ClassIds : class[k].room \in {Null, k} \cup reused

(* The inductive invariant of sweeps. *)
SweepInv == KeepInv /\ OwnRooms /\ \A c \in Calls : Sweeps(c)

(* What a step does to the start and the room of a class: it stays, unless *)
(* the class is made or destroyed, or it is put to another time.           *)
TimeEffect(k) ==
  /\ state[k] = "live" /\ state'[k] = "live" =>
       \/ class'[k].start = class[k].start
       \/ k \in retimed'
       \/ \A d \in Calls : pc[d] = "unhosting" => cid[d] # k
  /\ class'[k].room \in {class[k].room, k, Null} \cup reused'

(* Every step has only such effects. *)
LEMMA TimeEffects ==
  ASSUME SweepInv, NEW c \in Calls, NEW k \in ClassIds,
         \/ RoomsStep(c) /\ UNCHANGED cvars
         \/ Create(c) \/ Enroll(c) \/ Join(c) \/ Sweep(c) \/ Update(c) \/ Remove(c) \/ Stop(c)
  PROVE  TimeEffect(k)
<1>0. /\ KeepsOf(c) /\ HoldsAt(c) /\ CallSafe(c) /\ HeldOK /\ ClassTablesOK
      /\ class \in [ClassIds -> Row] /\ seen \in [Calls -> Row]
      /\ state \in [ClassIds -> {"none", "named", "live", "gone"}]
  BY Parts DEF SweepInv, KeepInv, SeatsInv, TypesInv, HoldsOK, ClassTablesOK, HeldOK
<1>1. ASSUME class'[k] = class[k] PROVE TimeEffect(k)
  BY <1>1 DEF TimeEffect
<1>2. CASE \/ RoomsStep(c) /\ UNCHANGED cvars
           \/ CreateRoomRow(c) \/ CreateCheck(c) \/ JoinRead(c) \/ FindSeat(c) \/ EnrollRead(c)
           \/ SweepRead(c) \/ SweepUnhost(c) \/ UpdateRead(c) \/ UpdateAlter(c)
           \/ RemoveRead(c) \/ RemoveUnhost(c) \/ Stop(c)
  BY <1>1, <1>2, QuietSteps DEF classes
<1>3. CASE CreatePost(c) \/ CreateSeat(c) \/ SaveList(c) \/ File(c)
  BY <1>1, <1>3 DEF CreatePost, CreateSeat, SaveList, File
<1>4. CASE CreateInsert(c)
  <2>1. pc[c] = "scheduling" /\ cid[c] \in ClassIds /\ state[cid[c]] = "named"
    BY <1>0, <1>4 DEF CreateInsert, HoldsAt, CallSafe, ClassPlaces, CreatePlaces, Drafting
  <2>2. seen[c].room = cid[c]
    BY <1>0, <2>1 DEF KeepsOf, Drafting
  <2>3. class' = class \/ class' = [class EXCEPT ![cid[c]] = seen[c]]
    BY <1>4 DEF CreateInsert
  <2>4. QED BY <1>0, <1>1, <2>1, <2>2, <2>3 DEF TimeEffect
<1>5. CASE SaveOwner(c)
  <2>1. class'[k].room = class[k].room /\ class'[k].start = class[k].start
    BY <1>0, <1>5 DEF SaveOwner, WriteRow, Row
  <2>2. QED BY <2>1 DEF TimeEffect
<1>6. CASE SweepClear(c)
  <2>1. cid[c] \in ClassIds
    BY <1>0, <1>6 DEF SweepClear, HoldsAt, ClassPlaces, SweepPlaces
  <2>2. PICK new : /\ new = [seen[c] EXCEPT !.room = Null, !.url = Null, !.owner = Null]
                   /\ WriteRow(cid[c], Written(cid[c], seen[c], new))
    BY <1>6 DEF SweepClear
  <2>3. new.start = seen[c].start /\ new.room = Null
    BY <1>0, <2>2 DEF Row
  <2>4. class'[cid[c]] \in {class[cid[c]], Written(cid[c], seen[c], new)}
    BY <1>0, <2>1, <2>2 DEF WriteRow
  <2>5. class'[cid[c]].start = class[cid[c]].start
        /\ class'[cid[c]].room \in {class[cid[c]].room, Null}
    BY <2>3, <2>4 DEF Written, Changed
  <2>6. k # cid[c] => class'[k] = class[k]
    BY <1>0, <2>1, <2>2 DEF WriteRow
  <2>7. QED BY <1>1, <2>5, <2>6 DEF TimeEffect
<1>7. CASE UpdateWrite(c)
  <2>1. pc[c] = "writing" /\ cid[c] \in ClassIds
    BY <1>0, <1>7 DEF UpdateWrite, HoldsAt, ClassPlaces, OtherPlaces
  <2>2. \/ UNCHANGED class
        \/ \E new : /\ WriteRow(cid[c], new)
                    /\ reused' = IF new.room # class[cid[c]].room
                                 THEN reused \cup ({new.room} \ {Null}) ELSE reused
                    /\ retimed' = IF /\ new.start # class[cid[c]].start
                                     /\ \E d \in Holding(cid[c]) : pc[d] \in SweepPlaces
                                  THEN retimed \cup {cid[c]} ELSE retimed
    BY <1>7 DEF UpdateWrite
  <2>3. CASE \E new : /\ WriteRow(cid[c], new)
                      /\ reused' = IF new.room # class[cid[c]].room
                                   THEN reused \cup ({new.room} \ {Null}) ELSE reused
                      /\ retimed' = IF /\ new.start # class[cid[c]].start
                                       /\ \E d \in Holding(cid[c]) : pc[d] \in SweepPlaces
                                    THEN retimed \cup {cid[c]} ELSE retimed
    <3>1. PICK new : /\ WriteRow(cid[c], new)
                     /\ reused' = IF new.room # class[cid[c]].room
                                  THEN reused \cup ({new.room} \ {Null}) ELSE reused
                     /\ retimed' = IF /\ new.start # class[cid[c]].start
                                      /\ \E d \in Holding(cid[c]) : pc[d] \in SweepPlaces
                                   THEN retimed \cup {cid[c]} ELSE retimed
      BY <2>3
    <3>2. /\ k # cid[c] => class'[k] = class[k]
          /\ class'[cid[c]] = class[cid[c]] \/ class'[cid[c]] = new
      BY <1>0, <2>1, <3>1 DEF WriteRow
    <3>3. \A d \in Calls : pc[d] = "unhosting" /\ cid[d] = cid[c] =>
            d \in Holding(cid[c]) /\ pc[d] \in SweepPlaces
      BY DEF Holding, InFlight, SweepPlaces, CreatePlaces
    <3>4. CASE k = cid[c] /\ class'[cid[c]] = new
      BY <3>1, <3>3, <3>4 DEF TimeEffect
    <3>5. QED BY <1>1, <3>2, <3>4
  <2>4. QED BY <1>1, <2>2, <2>3
<1>8. ASSUME NEW ks, Destroy(ks) PROVE TimeEffect(k)
  <2>1. \/ class'[k] = class[k]
        \/ class'[k] = NoRow /\ state'[k] = "gone"
    BY <1>8 DEF Destroy
  <2>2. QED BY <1>1, <2>1 DEF TimeEffect, NoRow
<1>9. CASE RemoveRow(c) \/ PurgeClasses(c)
  BY <1>8, <1>9 DEF RemoveRow, PurgeClasses
<1>10. QED
  BY <1>2, <1>3, <1>4, <1>5, <1>6, <1>7, <1>9
     DEF Create, Enroll, Join, Sweep, Update, Remove

(* A call begins a sweep only of a class that is over, whose row it holds. *)
LEMMA SweepsBegin ==
  ASSUME SweepInv, NEW c \in Calls, pc'[c] = "unhosting",
         \/ RoomsStep(c) /\ UNCHANGED cvars
         \/ Create(c) \/ Enroll(c) \/ Join(c) \/ Sweep(c) \/ Update(c) \/ Remove(c) \/ Stop(c)
  PROVE  \E k \in ClassIds :
           /\ class[k].room # Null /\ now >= class[k].start + 1
           /\ cid'[c] = k /\ seen'[c] = class[k] /\ UNCHANGED classes
<1>0. HeldOK /\ RoomCallsOK
  BY Parts DEF SweepInv, KeepInv, SeatsInv, TypesInv
<1>h. /\ \A p : GoTo(c, p) => pc'[c] = p
      /\ \A p : Proceed(c, p) => pc'[c] = p
      /\ Leave(c) => pc'[c] = "done"
      /\ End(c) => pc'[c] = "done"
      /\ \A k, r, t : Answer(c, k, r, t) => pc'[c] = "answered"
      /\ \A p : Continue(c, p) => pc'[c] = p
      /\ \A j, k, u : ReadClass(c, j, k, u) => cid'[c] = k /\ seen'[c] = class[k]
      /\ \A u, r : Onward(u, r) # "unhosting"
  BY <1>0, Held DEF Onward
<1>1. CASE JoinRead(c)
  <2>1. PICK k \in ClassIds, u \in Users :
          \/ Expired(class[k]) /\ ReadClass(c, "join", k, u)
          \/ GoTo(c, Onward(u, class[k]))
          \/ Answer(c, k, class[k], HostToken(u, class[k]))
    BY <1>1 DEF JoinRead
  <2>2. Expired(class[k]) /\ ReadClass(c, "join", k, u)
    BY <1>h, <2>1
  <2>3. QED BY <1>1, <1>h, <2>2 DEF Expired, JoinRead
<1>2. CASE SweepRead(c)
  BY <1>2, <1>h DEF SweepRead, Expired
<1>3. ASSUME SweepUnhost(c) PROVE FALSE
  <2>1. \/ Continue(c, "clearing")
        \/ \E t : Answer(c, cid[c], seen[c], t)
        \/ Continue(c, Onward(who[c], seen[c]))
        \/ End(c)
    BY <1>3 DEF SweepUnhost
  <2>2. QED BY <1>h, <2>1
<1>4. ASSUME FindSeat(c) PROVE FALSE
  <2>1. \/ \E t : Answer(c, cid[c], seen[c], t)
        \/ Continue(c, "listing")
        \/ End(c)
    BY <1>4 DEF FindSeat
  <2>2. QED BY <1>h, <2>1
<1>5. ASSUME SaveOwner(c) \/ SweepClear(c) \/ Update(c) \/ Remove(c) \/ Stop(c) PROVE FALSE
  BY <1>5, <1>h DEF SaveOwner, SweepClear, Update, UpdateRead, UpdateAlter, UpdateWrite, Remove,
                    RemoveRead, RemoveUnhost, RemoveRow, PurgeClasses, Stop
<1>6. ASSUME Create(c) \/ Enroll(c) PROVE FALSE
  BY <1>6, <1>h DEF Create, CreatePost, CreateRoomRow, CreateCheck, CreateInsert, CreateSeat,
                    Enroll, EnrollRead, SaveList, File
<1>7. ASSUME RoomsStep(c) PROVE FALSE
  BY <1>7, <1>h DEF RoomsStep, AddFind, AddPost, AddTokens, AddRow, DropFind, DropDelete, DropRow,
                    PurgeList, PurgeDelete, PurgeRows
<1>8. QED BY <1>1, <1>2, <1>3, <1>4, <1>5, <1>6, <1>7 DEF Join, Sweep

(* Time goes by, and what is remembered of classes stays.                  *)
LEMMA GhostsGrow ==
  ASSUME NEW c \in Calls,
         \/ RoomsStep(c) /\ UNCHANGED cvars
         \/ Create(c) \/ Enroll(c) \/ Join(c) \/ Sweep(c) \/ Update(c) \/ Remove(c) \/ Stop(c)
  PROVE  /\ now' = now /\ retimed \subseteq retimed' /\ reused \subseteq reused'
         /\ moved \subseteq moved'
<1> USE DEF ghosts, cvars
<1>1. CASE UpdateWrite(c)
  BY <1>1 DEF UpdateWrite
<1>2. CASE Create(c)
  BY <1>2 DEF Create, CreatePost, CreateRoomRow, CreateCheck, CreateInsert, CreateSeat
<1>3. CASE Enroll(c) \/ Join(c)
  BY <1>3 DEF Enroll, EnrollRead, SaveList, File, Join, JoinRead, SaveOwner, FindSeat
<1>4. CASE Sweep(c) \/ Remove(c) \/ Stop(c)
  BY <1>4 DEF Sweep, SweepRead, SweepUnhost, SweepClear, Remove, RemoveRead, RemoveUnhost,
              RemoveRow, PurgeClasses, Stop
<1>5. CASE UpdateRead(c) \/ UpdateAlter(c)
  BY <1>5 DEF UpdateRead, UpdateAlter
<1>6. QED BY <1>1, <1>2, <1>3, <1>4, <1>5 DEF Update

(* Every step keeps sweeps in order. *)
LEMMA SweepStep ==
  ASSUME SweepInv, NEW c \in Calls,
         \/ RoomsStep(c) /\ UNCHANGED cvars
         \/ Create(c) \/ Enroll(c) \/ Join(c) \/ Sweep(c) \/ Update(c) \/ Remove(c) \/ Stop(c)
  PROVE  OwnRooms' /\ \A d \in Calls : Sweeps(d)'
<1>0. /\ HeldOK /\ RoomCallsOK /\ HoldsOK /\ OwnRooms /\ SeatsInv
      /\ \A d \in Calls : KeepsOf(d) /\ Sweeps(d)
  BY Parts DEF SweepInv, KeepInv, SeatsInv, TypesInv
<1>o. \A d \in Calls : d # c => Untouched(d)
  BY <1>0, OneCall
<1>t. \A k \in ClassIds : TimeEffect(k) /\ LifeEffect(c, k)
  BY <1>0, TimeEffects, LifeEffects
<1>g. now' = now /\ retimed \subseteq retimed' /\ reused \subseteq reused'
  BY GhostsGrow
<1>1. OwnRooms'
  BY <1>0, <1>t, <1>g DEF OwnRooms, TimeEffect
<1>2. ASSUME NEW d \in Calls, d # c PROVE Sweeps(d)'
  <2>1. pc'[d] = pc[d] /\ cid'[d] = cid[d] /\ seen'[d] = seen[d]
    BY <1>o, <1>2 DEF Untouched
  <2>2. ASSUME pc[d] = "unhosting"
        PROVE  /\ now' >= seen[d].start + 1
               /\ state'[cid[d]] = "live" /\ cid[d] \notin retimed' =>
                    class'[cid[d]].start = seen[d].start
               /\ seen[d].room \in {cid[d]} \cup reused'
    <3>1. PICK k \in ClassIds : k = cid[d]
      BY <1>0, <2>2 DEF HoldsOK, HoldsAt, ClassPlaces, SweepPlaces
    <3>2. Opened(k)
      BY <1>0, <2>2, <3>1 DEF KeepsOf, ReadPlaces, SweepPlaces
    <3>3. /\ now >= seen[d].start + 1
          /\ state[k] = "live" /\ k \notin retimed => class[k].start = seen[d].start
          /\ seen[d].room \in {k} \cup reused
      BY <1>0, <2>2, <3>1 DEF Sweeps
    <3>4. state'[k] = "live" => state[k] = "live"
      BY <1>t, <3>2 DEF LifeEffect, Opened
    <3>5. state[k] = "live" /\ state'[k] = "live" =>
             class'[k].start = class[k].start \/ k \in retimed'
      BY <1>t, <2>2, <3>1 DEF TimeEffect
    <3>6. QED BY <1>g, <3>1, <3>3, <3>4, <3>5
  <2>3. QED BY <2>1, <2>2 DEF Sweeps
<1>3. Sweeps(c)'
  <2>1. ASSUME pc'[c] = "unhosting"
        PROVE  /\ now' >= seen'[c].start + 1
               /\ state'[cid'[c]] = "live" /\ cid'[c] \notin retimed' =>
                    class'[cid'[c]].start = seen'[c].start
               /\ seen'[c].room \in {cid'[c]} \cup reused'
    <3>1. PICK k \in ClassIds :
             /\ class[k].room # Null /\ now >= class[k].start + 1
             /\ cid'[c] = k /\ seen'[c] = class[k] /\ UNCHANGED classes
      BY <2>1, SweepsBegin
    <3>2. class' = class /\ class[k].room \in {k} \cup reused
      BY <1>0, <3>1 DEF classes, OwnRooms
    <3>3. QED BY <1>g, <3>1, <3>2
  <2>2. QED BY <2>1 DEF Sweeps
<1>4. QED BY <1>1, <1>2, <1>3

(* No sweep has begun, and classes are in their own rooms. *)
LEMMA SweepInit == Init => SweepInv
<1> SUFFICES ASSUME Init PROVE SweepInv
  OBVIOUS
<1>1. KeepInv
  BY KeepInit
<1>2. OwnRooms
  BY Begins DEF OwnRooms, NoRow
<1>3. \A c \in Calls : Sweeps(c)
  BY Begins DEF Sweeps
<1>4. QED BY <1>1, <1>2, <1>3 DEF SweepInv

(* Every step keeps the invariant, and so does time that passes. *)
LEMMA SweepNext == SweepInv /\ [Next]_vars => SweepInv'
<1> SUFFICES ASSUME SweepInv, [Next]_vars PROVE SweepInv'
  OBVIOUS
<1>1. KeepInv'
  BY KeepNext DEF SweepInv
<1>2. ASSUME NEW c \in Calls,
             \/ RoomsStep(c) /\ UNCHANGED cvars
             \/ Create(c) \/ Enroll(c) \/ Join(c) \/ Sweep(c) \/ Update(c) \/ Remove(c)
             \/ Stop(c)
      PROVE  SweepInv'
  BY <1>1, <1>2, SweepStep DEF SweepInv
<1>3. ASSUME UNCHANGED <<pc, classes, held, retimed, reused>>, now' = now \/ now' = now + 1
      PROVE  SweepInv'
  <2>1. OwnRooms'
    BY <1>3 DEF SweepInv, OwnRooms, classes
  <2>2. ASSUME NEW c \in Calls PROVE Sweeps(c)'
    <3>1. Sweeps(c) /\ (pc[c] = "unhosting" => seen[c].start \in Nat) /\ now \in Nat
      BY Parts, RowFields, ClassesAssumption
         DEF SweepInv, KeepInv, SeatsInv, TypesInv, HeldOK, ClassTablesOK
    <3>2. QED BY <1>3, <3>1 DEF Sweeps, classes, held
  <2>3. QED BY <1>1, <2>1, <2>2 DEF SweepInv
<1>4. CASE Tick
  BY <1>3, <1>4 DEF Tick, ghosts
<1>5. CASE UNCHANGED vars
  BY <1>3, <1>5 DEF vars, cvars, ghosts
<1>6. QED BY <1>2, <1>4, <1>5 DEF Next, Quiet

(* A sweep takes no room from a class that is to come, is on or is in its  *)
(* last hour, unless the class was put to another time meanwhile or shares *)
(* the room with another: whoever else joins, moves or removes it.         *)
THEOREM SweepsSpare == Spec => []SweepSparesLiveClasses
<1>1. SweepInv => SweepSparesLiveClasses
  <2> SUFFICES ASSUME SweepInv, NEW c \in Calls, NEW k \in ClassIds, pc[c] = "unhosting",
                      state[k] = "live", class[k].room = seen[c].room, now < class[k].start + 1
               PROVE  IF k = cid[c] THEN k \in retimed ELSE seen[c].room \in reused
    BY DEF SweepSparesLiveClasses
  <2>1. /\ Sweeps(c) /\ OwnRooms /\ KeepsOf(c) /\ class[k] \in Row /\ seen[c] \in Row
        /\ now \in Nat
    BY Parts, ClassesAssumption
       DEF SweepInv, KeepInv, SeatsInv, TypesInv, HeldOK, ClassTablesOK
  <2>2. class[k].start \in Nat /\ seen[c].start \in Nat
    BY <2>1, RowFields, ClassesAssumption
  <2>3. CASE k = cid[c]
    BY <2>1, <2>2, <2>3 DEF Sweeps
  <2>4. CASE k # cid[c]
    <3>1. seen[c].room # Null
      BY <2>1 DEF KeepsOf, SweepPlaces
    <3>2. seen[c].room \in {Null, k} \cup reused /\ seen[c].room \in {cid[c]} \cup reused
      BY <2>1 DEF OwnRooms, Sweeps
    <3>3. QED BY <2>4, <3>1, <3>2
  <2>5. QED BY <2>3, <2>4
<1>2. QED BY SweepInit, SweepNext, <1>1, PTL DEF Spec
-----------------------------------------------------------------------------

(* A row's url and token are for its room. *)
Fit(r) ==
  /\ r.url = r.room
  /\ r.room # Null => r.owner \in {r.room, Null, Blank}

(* The way to class k is w: its row, the rows calls hold of it, and the    *)
(* seats of all but its tutor, and of who joins as another, are for no     *)
(* other room.                                                             *)
Way(k, w) ==
  /\ class[k].room \in {Null, w} /\ Fit(class[k])
  /\ \A d \in Calls : pc[d] \in ReadPlaces /\ cid[d] = k =>
       /\ seen[d].room \in {Null, w} /\ Fit(seen[d])
       /\ who[d] \in Users \ {seen[d].tutor} => seats[k][who[d]] \in {Null, w}
  /\ \A d \in Calls : pc[d] = "seating" /\ cid[d] = k => seen[d].owner = w
  /\ \A u \in Users \ {class[k].tutor} : seats[k][u] \in {Null, w}

Answered(c) == pc[c] = "answered" /\ cid[c] \notin moved =>
  token[c] = seen[c].room /\ seen[c].url = seen[c].room

(* The inductive invariant of joining. *)
WayInv ==
  /\ KeepInv
  /\ \A k \in ClassIds \ moved : \E w : Way(k, w)
  /\ \A c \in Calls : Answered(c)

(* What a step does to the seats of class k: they stay, or are made from   *)
(* what the call holds.                                                    *)
SeatEffect(c, k) ==
  \A u \in Users :
    \/ seats'[k][u] \in {seats[k][u], Null}
    \/ pc[c] = "filing" /\ cid[c] = k /\ seats'[k][u] = seen[c].room
    \/ pc[c] = "seating" /\ cid[c] = k /\ seats'[k][u] = seen[c].owner

(* Every step has only such effects. *)
LEMMA SeatEffects ==
  ASSUME KeepInv, NEW c \in Calls, NEW k \in ClassIds,
         \/ RoomsStep(c) /\ UNCHANGED cvars
         \/ Create(c) \/ Enroll(c) \/ Join(c) \/ Sweep(c) \/ Update(c) \/ Remove(c) \/ Stop(c)
  PROVE  SeatEffect(c, k)
<1>0. ClassTablesOK /\ HoldsAt(c) /\ Tutor \in Users
  BY Parts, ClassesAssumption DEF KeepInv, SeatsInv, TypesInv, HoldsOK, Users
<1>1. ASSUME UNCHANGED seats PROVE SeatEffect(c, k)
  BY <1>1 DEF SeatEffect
<1>2. CASE \/ RoomsStep(c) /\ UNCHANGED cvars
           \/ CreateRoomRow(c) \/ CreateCheck(c) \/ JoinRead(c) \/ FindSeat(c) \/ EnrollRead(c)
           \/ SweepRead(c) \/ SweepUnhost(c) \/ UpdateRead(c) \/ UpdateAlter(c)
           \/ RemoveRead(c) \/ RemoveUnhost(c) \/ Stop(c)
  BY <1>1, <1>2, QuietSteps DEF classes
<1>3. CASE CreatePost(c) \/ CreateInsert(c) \/ SaveList(c)
  BY <1>1, <1>3 DEF CreatePost, CreateInsert, SaveList
<1>4. CASE CreateSeat(c)
  <2>1. \/ UNCHANGED seats
        \/ seats' = [seats EXCEPT ![cid[c]] = [@ EXCEPT ![Tutor] = seen[c].owner]]
    BY <1>4 DEF CreateSeat
  <2>2. pc[c] = "seating" /\ cid[c] \in ClassIds
    BY <1>0, <1>4 DEF CreateSeat, HoldsAt, ClassPlaces, CreatePlaces
  <2>3. \A u \in Users : \/ seats'[k][u] = seats[k][u]
                         \/ cid[c] = k /\ seats'[k][u] = seen[c].owner
    BY <1>0, <2>1, <2>2 DEF ClassTablesOK
  <2>4. QED BY <2>2, <2>3 DEF SeatEffect
<1>5. CASE File(c)
  <2>1. \/ UNCHANGED seats
        \/ seats' = [seats EXCEPT ![cid[c]] = [@ EXCEPT ![who[c]] = seen[c].room]]
    BY <1>5 DEF File
  <2>2. pc[c] = "filing" /\ cid[c] \in ClassIds /\ who[c] \in Users
    BY <1>0, <1>5 DEF File, HoldsAt, ClassPlaces, EnrollPlaces
  <2>3. \A u \in Users : \/ seats'[k][u] = seats[k][u]
                         \/ cid[c] = k /\ seats'[k][u] = seen[c].room
    BY <1>0, <2>1, <2>2 DEF ClassTablesOK
  <2>4. QED BY <2>2, <2>3 DEF SeatEffect
<1>6. CASE SaveOwner(c) \/ SweepClear(c) \/ UpdateWrite(c)
  BY <1>1, <1>6 DEF SaveOwner, SweepClear, UpdateWrite
<1>7. ASSUME NEW ks, Destroy(ks) PROVE SeatEffect(c, k)
  BY <1>0, <1>7 DEF Destroy, SeatEffect, NoSeats
<1>8. CASE RemoveRow(c) \/ PurgeClasses(c)
  BY <1>7, <1>8 DEF RemoveRow, PurgeClasses
<1>9. QED
  BY <1>2, <1>3, <1>4, <1>5, <1>6, <1>8
     DEF Create, Enroll, Join, Sweep, Update, Remove

(* What a call holds of a class it goes on with, it has held before or has *)
(* just read.                                                              *)
HoldEffect(c) ==
  pc'[c] \in ReadPlaces =>
    \/ /\ pc[c] \in ReadPlaces
       /\ cid'[c] = cid[c] /\ seen'[c] = seen[c] /\ who'[c] = who[c]
    \/ cid'[c] \in ClassIds /\ seen'[c] = class[cid'[c]] /\ UNCHANGED class

(* Every step has only such effects. *)
LEMMA HoldEffects ==
  ASSUME KeepInv, NEW c \in Calls,
         \/ RoomsStep(c) /\ UNCHANGED cvars
         \/ Create(c) \/ Enroll(c) \/ Join(c) \/ Sweep(c) \/ Update(c) \/ Remove(c) \/ Stop(c)
  PROVE  HoldEffect(c)
<1>0. HeldOK /\ RoomCallsOK /\ HoldsAt(c)
  BY Parts DEF KeepInv, SeatsInv, TypesInv, HoldsOK
<1>h. /\ \A p : GoTo(c, p) => pc'[c] = p
      /\ \A p : Proceed(c, p) => pc'[c] = p
      /\ Leave(c) => pc'[c] = "done"
      /\ End(c) => pc'[c] = "done"
      /\ \A k, r, t : Answer(c, k, r, t) => pc'[c] = "answered"
      /\ \A p : Continue(c, p) =>
           pc'[c] = p /\ cid'[c] = cid[c] /\ seen'[c] = seen[c] /\ who'[c] = who[c]
      /\ \A j, k, u : ReadClass(c, j, k, u) => cid'[c] = k /\ seen'[c] = class[k]
  BY <1>0, Held
<1>p. ReadPlaces = {"listing", "filing", "saving", "finding", "unhosting", "clearing",
                    "altering", "writing", "removing", "destroying"}
  BY DEF JoinPlaces, SweepPlaces, OtherPlaces, ReadPlaces
<1>n. pc'[c] \notin ReadPlaces => HoldEffect(c)
  BY DEF HoldEffect
<1>r. ASSUME NEW j, NEW k \in ClassIds, NEW u, ReadClass(c, j, k, u), UNCHANGED class
      PROVE  HoldEffect(c)
  BY <1>h, <1>r DEF HoldEffect
<1>1. CASE RoomsStep(c)
  BY <1>0, <1>1, <1>n, FreePlaces, RoomCallsStay
<1>2. CASE Create(c)
  BY <1>2, <1>h, <1>n, <1>p
     DEF Create, CreatePost, CreateRoomRow, CreateCheck, CreateInsert, CreateSeat
<1>3. CASE EnrollRead(c)
  <2>1. pc[c] = "entering" => cid[c] \in ClassIds
    BY <1>0 DEF HoldsAt, ClassPlaces, EnrollPlaces
  <2>2. \/ \E k \in ClassIds, u \in Users : ReadClass(c, "enroll", k, u)
        \/ pc[c] = "entering" /\ ReadClass(c, "request", cid[c], who[c])
        \/ End(c)
    BY <1>3 DEF EnrollRead
  <2>3. UNCHANGED class
    BY <1>3 DEF EnrollRead, classes
  <2>4. QED BY <1>h, <1>n, <1>p, <1>r, <2>1, <2>2, <2>3
<1>4. CASE SaveList(c)
  BY <1>4, <1>h, <1>p DEF SaveList, HoldEffect
<1>5. CASE File(c) \/ SaveOwner(c) \/ SweepClear(c) \/ UpdateWrite(c) \/ RemoveRow(c)
           \/ PurgeClasses(c) \/ Stop(c)
  BY <1>5, <1>h, <1>n, <1>p
     DEF File, SaveOwner, SweepClear, UpdateWrite, RemoveRow, PurgeClasses, Stop
<1>6. CASE JoinRead(c)
  <2>1. \E k \in ClassIds, u \in Users :
           ReadClass(c, "join", k, u) \/ Answer(c, k, class[k], HostToken(u, class[k]))
    BY <1>6 DEF JoinRead
  <2>2. UNCHANGED class
    BY <1>6 DEF JoinRead, classes
  <2>3. QED BY <1>h, <1>n, <1>p, <1>r, <2>1, <2>2
<1>7. CASE FindSeat(c)
  <2>1. /\ pc[c] = "finding"
        /\ \/ \E t : Answer(c, cid[c], seen[c], t)
           \/ Continue(c, "listing")
           \/ End(c)
    BY <1>7 DEF FindSeat
  <2>2. QED BY <1>h, <1>n, <1>p, <2>1 DEF HoldEffect
<1>8. CASE SweepRead(c)
  <2>1. \E k \in ClassIds : ReadClass(c, "sweep", k, Null)
    BY <1>8 DEF SweepRead
  <2>2. UNCHANGED class
    BY <1>8 DEF SweepRead, classes
  <2>3. QED BY <1>r, <2>1, <2>2
<1>9. CASE SweepUnhost(c)
  <2>1. /\ pc[c] = "unhosting"
        /\ \/ \E t : Answer(c, cid[c], seen[c], t)
           \/ Continue(c, "clearing") \/ Continue(c, Onward(who[c], seen[c]))
           \/ End(c)
    BY <1>9 DEF SweepUnhost
  <2>2. QED BY <1>h, <1>n, <1>p, <2>1 DEF HoldEffect
<1>10. CASE UpdateRead(c)
  <2>1. \E k \in ClassIds : ReadClass(c, "update", k, Null)
    BY <1>10 DEF UpdateRead
  <2>2. UNCHANGED class
    BY <1>10 DEF UpdateRead, classes
  <2>3. QED BY <1>r, <2>1, <2>2
<1>11. CASE UpdateAlter(c)
  <2>1. /\ pc[c] = "altering"
        /\ \/ UNCHANGED <<cid, seen, who>>
           \/ Continue(c, "writing")
           \/ End(c)
    BY <1>11 DEF UpdateAlter
  <2>2. QED BY <1>h, <1>n, <1>p, <2>1 DEF HoldEffect
<1>12. CASE RemoveRead(c)
  <2>1. \E k \in ClassIds : ReadClass(c, "remove", k, Null)
    BY <1>12 DEF RemoveRead
  <2>2. UNCHANGED class
    BY <1>12 DEF RemoveRead, classes
  <2>3. QED BY <1>r, <2>1, <2>2
<1>13. CASE RemoveUnhost(c)
  BY <1>13, <1>h, <1>p DEF RemoveUnhost, HoldEffect
<1>14. QED
  BY <1>1, <1>2, <1>3, <1>4, <1>5, <1>6, <1>7, <1>8, <1>9, <1>10, <1>11, <1>12, <1>13
     DEF Enroll, Join, Sweep, Update, Remove

(* Whose seat a call is about to file has the room in its row, and is the  *)
(* one who has just inserted it.                                           *)
SeatingEffect(c) ==
  pc'[c] = "seating" =>
    cid'[c] \in ClassIds /\ class'[cid'[c]].room = seen'[c].owner /\ seen'[c].owner # Null

(* Every step has only such effects. *)
LEMMA SeatingEffects ==
  ASSUME KeepInv, NEW c \in Calls,
         \/ RoomsStep(c) /\ UNCHANGED cvars
         \/ Create(c) \/ Enroll(c) \/ Join(c) \/ Sweep(c) \/ Update(c) \/ Remove(c) \/ Stop(c)
  PROVE  SeatingEffect(c)
<1>0. /\ HeldOK /\ RoomCallsOK /\ ClassTablesOK /\ HoldsAt(c) /\ KeepsOf(c)
      /\ Null \notin Rooms
  BY Parts, RoomsAssumption DEF KeepInv, SeatsInv, TypesInv, HoldsOK
<1>h. /\ \A p : GoTo(c, p) => pc'[c] = p
      /\ End(c) => pc'[c] = "done"
      /\ \A k, r, t : Answer(c, k, r, t) => pc'[c] = "answered"
      /\ \A p : Continue(c, p) => pc'[c] = p /\ cid'[c] = cid[c] /\ seen'[c] = seen[c]
  BY <1>0, Held
<1>n. pc'[c] # "seating" => SeatingEffect(c)
  BY DEF SeatingEffect
<1>1. CASE RoomsStep(c)
  BY <1>0, <1>1, <1>n, FreePlaces, RoomCallsStay DEF RoomPlaces, AddPlaces, DropPlaces, PurgePlaces
<1>2. CASE CreateInsert(c)
  <2>1. cid[c] \in ClassIds /\ seen[c].owner = cid[c] /\ seen[c].room = cid[c]
    BY <1>0, <1>2 DEF CreateInsert, HoldsAt, KeepsOf, ClassPlaces, CreatePlaces, Drafting
  <2>2. \/ class' = [class EXCEPT ![cid[c]] = seen[c]] /\ Continue(c, "seating")
        \/ End(c)
    BY <1>2 DEF CreateInsert
  <2>3. cid[c] # Null
    BY <1>0, <2>1 DEF Rooms
  <2>4. QED BY <1>0, <1>h, <1>n, <2>1, <2>2, <2>3 DEF SeatingEffect, ClassTablesOK
<1>3. CASE CreatePost(c) \/ CreateRoomRow(c) \/ CreateCheck(c) \/ CreateSeat(c)
  BY <1>3, <1>h, <1>n DEF CreatePost, CreateRoomRow, CreateCheck, CreateSeat
<1>4. CASE Enroll(c)
  BY <1>4, <1>h, <1>n DEF Enroll, EnrollRead, SaveList, File
<1>5. CASE JoinRead(c)
  <2>1. PICK k \in ClassIds, u \in Users :
          \/ GoTo(c, "unhosting")
          \/ GoTo(c, Onward(u, class[k]))
          \/ Answer(c, k, class[k], HostToken(u, class[k]))
    BY <1>5 DEF JoinRead
  <2>2. Onward(u, class[k]) # "seating"
    BY DEF Onward
  <2>3. QED BY <1>h, <1>n, <2>1, <2>2
<1>6. CASE FindSeat(c)
  <2>1. \/ \E t : Answer(c, cid[c], seen[c], t)
        \/ Continue(c, "listing")
        \/ End(c)
    BY <1>6 DEF FindSeat
  <2>2. QED BY <1>h, <1>n, <2>1
<1>7. CASE SweepUnhost(c)
  <2>1. \/ Continue(c, "clearing") \/ Continue(c, Onward(who[c], seen[c])) \/ End(c)
        \/ \E t : Answer(c, cid[c], seen[c], t)
    BY <1>7 DEF SweepUnhost
  <2>2. Onward(who[c], seen[c]) # "seating"
    BY DEF Onward
  <2>3. QED BY <1>h, <1>n, <2>1, <2>2
<1>8. CASE SaveOwner(c) \/ SweepRead(c) \/ SweepClear(c) \/ Stop(c)
  BY <1>8, <1>h, <1>n DEF SaveOwner, SweepRead, SweepClear, Stop
<1>9. CASE Update(c) \/ Remove(c)
  BY <1>9, <1>h, <1>n DEF Update, UpdateRead, UpdateAlter, UpdateWrite, Remove, RemoveRead,
                          RemoveUnhost, RemoveRow, PurgeClasses
<1>10. QED
  BY <1>1, <1>2, <1>3, <1>4, <1>5, <1>6, <1>7, <1>8, <1>9 DEF Create, Join, Sweep

(* An update that moves a class nobody is on the way to leaves a row that  *)
(* fits; one that does not move it leaves the room.  A tutor who gives it  *)
(* away has no seat of another room.                                       *)
LEMMA UpdatesFit ==
  ASSUME WayInv, NEW c \in Calls, UpdateWrite(c), NEW k \in ClassIds \ moved', cid[c] = k,
         NEW w, Way(k, w)
  PROVE  /\ \/ class'[k].room = class[k].room /\ Fit(class'[k])
            \/ /\ Fit(class'[k]) /\ \A u \in Users \ {class[k].tutor} : seats[k][u] = Null
               /\ Holding(k) = {c}
         /\ \/ class'[k].tutor = class[k].tutor
            \/ seats[k][class[k].tutor] \in {Null, class'[k].room}
<1> DEFINE old == class[k]
           read == seen[c]
           want == wish[c]
           new == Written(k, read, want)
<1>0. /\ KeepsOf(c) /\ class \in [ClassIds -> Row] /\ pc[c] = "writing"
      /\ old \in Row /\ read \in Row /\ want \in Row /\ c \in Calls
  BY Parts DEF WayInv, KeepInv, SeatsInv, TypesInv, ClassTablesOK, HeldOK, UpdateWrite
<1>1. WishFits(c)
  BY <1>0 DEF KeepsOf
<1>2. /\ old.room \in {Null, w} /\ Fit(old)
      /\ read.room \in {Null, w} /\ Fit(read)
  BY <1>0 DEF Way, ReadPlaces, OtherPlaces
<1>3. \/ class' = class
      \/ /\ class' = [class EXCEPT ![k] = new]
         /\ moved' = IF \/ /\ want.room # Null
                           /\ want.room # read.room \/ want.owner # read.owner
                           /\ \/ Bound(k, c) \/ want.url # want.room
                              \/ old.owner # read.owner
                        \/ Unseated(k, new)
                     THEN moved \cup {k} ELSE moved
  BY DEF UpdateWrite, WriteRow
<1>4. CASE class' = class
  BY <1>2, <1>4
<1>5. CASE /\ class' = [class EXCEPT ![k] = new]
           /\ moved' = IF \/ /\ want.room # Null
                             /\ want.room # read.room \/ want.owner # read.owner
                             /\ \/ Bound(k, c) \/ want.url # want.room
                                \/ old.owner # read.owner
                          \/ Unseated(k, new)
                       THEN moved \cup {k} ELSE moved
  <2>1. class'[k] = new
    BY <1>0, <1>5
  <2>u. new.tutor = old.tutor \/ seats[k][old.tutor] \in {Null, new.room}
    BY <1>5 DEF Unseated
  <2>2. /\ new.room = (IF want.room = read.room THEN old.room ELSE want.room)
        /\ new.url = (IF want.url = read.url THEN old.url ELSE want.url)
        /\ new.owner = (IF want.owner = read.owner THEN old.owner ELSE want.owner)
        /\ new.title = (IF want.title = read.title THEN old.title ELSE want.title)
        /\ new.start = (IF want.start = read.start THEN old.start ELSE want.start)
    BY DEF Written, Changed
  <2>3. CASE want.room = Null \/ (want.room = read.room /\ want.owner = read.owner)
    <3>1. want.room = read.room /\ want.url = read.url /\ want.owner = read.owner
      BY <1>1, <1>2, <2>3 DEF WishFits, WishKeeps, Fit
    <3>2. new.room = old.room /\ new.url = old.url /\ new.owner = old.owner
      BY <2>2, <3>1
    <3>3. Fit(new)
      BY <1>2, <3>2 DEF Fit
    <3>4. QED BY <2>1, <2>u, <3>2, <3>3
  <2>4. CASE /\ want.room # Null /\ (want.room # read.room \/ want.owner # read.owner)
             /\ ~Bound(k, c) /\ want.url = want.room /\ old.owner = read.owner
    <3>1. Holding(k) = {c} /\ \A u \in Users \ {old.tutor} : seats[k][u] = Null
      BY <2>4 DEF Bound
    <3>2. want.owner \in {Blank, want.room}
      BY <1>1, <1>2, <2>4 DEF WishFits, WishKeeps, Fit
    <3>3. new.owner = want.owner
      BY <2>2, <2>4
    <3>4. new.url = new.room
      BY <1>2, <2>2, <2>4 DEF Fit
    <3>5. new.room \in {Null, want.room}
      BY <1>2, <2>2, <2>4
    <3>6. Fit(new)
      BY <3>2, <3>3, <3>4, <3>5 DEF Fit
    <3>7. QED BY <2>1, <2>u, <3>1, <3>6
  <2>5. QED BY <1>5, <2>3, <2>4
<1>6. QED BY <1>3, <1>4, <1>5

(* A step keeps a class's row to its way; or it makes or moves a class     *)
(* that nobody is on the way to, and leaves a row that fits.               *)
LEMMA RowsFit ==
  ASSUME WayInv, NEW c \in Calls,
         \/ RoomsStep(c) /\ UNCHANGED cvars
         \/ Create(c) \/ Enroll(c) \/ Join(c) \/ Sweep(c) \/ Update(c) \/ Remove(c) \/ Stop(c),
         NEW k \in ClassIds \ moved', NEW w, Way(k, w)
  PROVE  \/ /\ class'[k].room \in {Null, w} /\ Fit(class'[k])
            /\ \A u \in Users \ {class'[k].tutor} :
                 seats[k][u] \in {Null, w} \/ seats'[k][u] = Null
         \/ /\ Fit(class'[k])
            /\ \A u \in Users \ {class'[k].tutor} : seats[k][u] \in {Null, class'[k].room}
            /\ \A d \in Calls : pc[d] \in ReadPlaces \cup {"seating"} /\ cid[d] = k =>
                 d = c /\ pc[c] = "writing"
            /\ pc'[c] \notin ReadPlaces
<1> DEFINE Kept == /\ class'[k].room \in {Null, w} /\ Fit(class'[k])
                   /\ \A u \in Users \ {class'[k].tutor} :
                        seats[k][u] \in {Null, w} \/ seats'[k][u] = Null
<1>0. /\ HoldsAt(c) /\ CallSafe(c) /\ HeldOK /\ ClassTablesOK /\ Unborn
      /\ \A d \in Calls : KeepsOf(d) /\ CallSafe(d)
      /\ class \in [ClassIds -> Row] /\ seen \in [Calls -> Row]
      /\ class[k].room \in {Null, w} /\ Fit(class[k])
      /\ \A u \in Users \ {class[k].tutor} : seats[k][u] \in {Null, w}
      /\ Null \notin Rooms /\ Null # Blank
  BY Parts, RoomsAssumption, ClassesAssumption
     DEF WayInv, KeepInv, SeatsInv, TypesInv, HoldsOK, ClassTablesOK, HeldOK, Way, Users
<1>1. ASSUME class'[k] = class[k] PROVE Kept
  BY <1>0, <1>1
<1>2. CASE \/ RoomsStep(c) /\ UNCHANGED cvars
           \/ CreateRoomRow(c) \/ CreateCheck(c) \/ JoinRead(c) \/ FindSeat(c) \/ EnrollRead(c)
           \/ SweepRead(c) \/ SweepUnhost(c) \/ UpdateRead(c) \/ UpdateAlter(c)
           \/ RemoveRead(c) \/ RemoveUnhost(c) \/ Stop(c)
  BY <1>1, <1>2, QuietSteps DEF classes
<1>3. CASE CreatePost(c) \/ CreateSeat(c) \/ SaveList(c) \/ File(c)
  BY <1>1, <1>3 DEF CreatePost, CreateSeat, SaveList, File
<1>4. CASE CreateInsert(c)
  <2>1. pc[c] = "scheduling" /\ cid[c] \in ClassIds /\ state[cid[c]] = "named"
    BY <1>0, <1>4 DEF CreateInsert, HoldsAt, CallSafe, ClassPlaces, CreatePlaces, Drafting
  <2>2. seen[c].room = cid[c] /\ seen[c].url = cid[c] /\ seen[c].owner = cid[c]
    BY <1>0, <2>1 DEF KeepsOf, Drafting
  <2>3. class' = class \/ class' = [class EXCEPT ![cid[c]] = seen[c]]
    BY <1>4 DEF CreateInsert
  <2>4. CASE k # cid[c] \/ class' = class
    BY <1>0, <1>1, <2>1, <2>3, <2>4
  <2>5. CASE k = cid[c] /\ class' = [class EXCEPT ![cid[c]] = seen[c]]
    <3>1. class'[k] = seen[c]
      BY <1>0, <2>1, <2>5
    <3>2. Fit(class'[k])
      BY <2>2, <3>1 DEF Fit
    <3>3. ~Opened(k)
      BY <2>1, <2>5 DEF Opened
    <3>4. \A u \in Users : seats[k][u] = Null
      BY <1>0, <3>3 DEF Unborn
    <3>5. \A d \in Calls : pc[d] \in ReadPlaces \cup {"seating"} => cid[d] # k
      BY <1>0, <3>3 DEF KeepsOf, CallSafe
    <3>6. pc'[c] \in {"seating", "done"}
      BY <1>0, <1>4, Held DEF CreateInsert
    <3>7. pc'[c] \notin ReadPlaces
      BY <3>6 DEF ReadPlaces, JoinPlaces, SweepPlaces, OtherPlaces
    <3>8. QED BY <3>2, <3>4, <3>5, <3>7
  <2>6. QED BY <2>3, <2>4, <2>5
<1>5. CASE SaveOwner(c)
  <2>1. pc[c] = "saving" /\ cid[c] \in ClassIds
    BY <1>0, <1>5 DEF SaveOwner, HoldsAt, ClassPlaces, JoinPlaces
  <2>2. CASE k = cid[c] /\ class'[k] # class[k]
    <3>1. class'[k] = [class[k] EXCEPT !.owner = seen[c].room]
      BY <1>0, <1>5, <2>1, <2>2 DEF SaveOwner, WriteRow
    <3>2. /\ class'[k].room = class[k].room /\ class'[k].url = class[k].url
          /\ class'[k].owner = seen[c].room /\ class'[k].tutor = class[k].tutor
      BY <1>0, <3>1 DEF Row
    <3>3. seen[c].room # Null /\ seen[c].room \in {Null, w}
      BY <1>0, <2>1, <2>2 DEF KeepsOf, JoinPlaces, Way, ReadPlaces
    <3>4. QED BY <1>0, <3>2, <3>3 DEF Fit
  <2>3. CASE k # cid[c]
    BY <1>0, <1>1, <1>5, <2>1, <2>3 DEF SaveOwner, WriteRow
  <2>4. QED BY <1>1, <2>2, <2>3
<1>6. CASE SweepClear(c)
  <2>1. pc[c] = "clearing" /\ cid[c] \in ClassIds
    BY <1>0, <1>6 DEF SweepClear, HoldsAt, ClassPlaces, SweepPlaces
  <2>2. CASE k = cid[c] /\ class'[k] # class[k]
    <3>1. PICK new : /\ new = [seen[c] EXCEPT !.room = Null, !.url = Null, !.owner = Null]
                     /\ WriteRow(k, Written(k, seen[c], new))
      BY <1>6, <2>2 DEF SweepClear
    <3>2. new.room = Null /\ new.url = Null /\ new.tutor = seen[c].tutor
      BY <1>0, <3>1 DEF Row
    <3>3. class'[k] = Written(k, seen[c], new)
      BY <1>0, <2>2, <3>1 DEF WriteRow
    <3>4. /\ class'[k].room = (IF Null = seen[c].room THEN class[k].room ELSE Null)
          /\ class'[k].url = (IF Null = seen[c].url THEN class[k].url ELSE Null)
          /\ class'[k].tutor = class[k].tutor
      BY <3>2, <3>3 DEF Written, Changed
    <3>5. seen[c].room # Null /\ Fit(seen[c])
      BY <1>0, <2>1, <2>2 DEF KeepsOf, SweepPlaces, Way, ReadPlaces
    <3>6. QED BY <1>0, <3>4, <3>5 DEF Fit
  <2>3. CASE k # cid[c]
    BY <1>0, <1>1, <1>6, <2>1, <2>3 DEF SweepClear, WriteRow
  <2>4. QED BY <1>1, <2>2, <2>3
<1>7. CASE UpdateWrite(c)
  <2>1. pc[c] = "writing" /\ cid[c] \in ClassIds /\ pc'[c] = "done"
    BY <1>0, <1>7, Held DEF UpdateWrite, HoldsAt, ClassPlaces, OtherPlaces
  <2>2. CASE k = cid[c]
    <3>t. \/ class'[k].tutor = class[k].tutor
          \/ seats[k][class[k].tutor] \in {Null, class'[k].room}
      BY <1>7, <2>2, UpdatesFit
    <3>1. CASE class'[k].room = class[k].room /\ Fit(class'[k])
      BY <1>0, <3>1, <3>t
    <3>2. CASE /\ Fit(class'[k]) /\ \A u \in Users \ {class[k].tutor} : seats[k][u] = Null
               /\ Holding(k) = {c}
      <4>1. ASSUME NEW d \in Calls, pc[d] \in ReadPlaces \cup {"seating"}, cid[d] = k PROVE d = c
        <5>1. d \in Holding(k)
          BY <4>1 DEF Holding, InFlight, ReadPlaces, JoinPlaces, SweepPlaces, OtherPlaces,
                      CreatePlaces
        <5>2. QED BY <3>2, <5>1
      <4>2. "done" \notin ReadPlaces
        BY DEF ReadPlaces, JoinPlaces, SweepPlaces, OtherPlaces
      <4>3. \A u \in Users \ {class'[k].tutor} : seats[k][u] \in {Null, class'[k].room}
        BY <3>2, <3>t
      <4>4. QED BY <2>1, <3>2, <4>1, <4>2, <4>3
    <3>3. QED BY <1>7, <2>2, <3>1, <3>2, UpdatesFit
  <2>3. CASE k # cid[c]
    <3>1. class'[k] = class[k]
      BY <1>0, <1>7, <2>1, <2>3 DEF UpdateWrite, WriteRow
    <3>2. QED BY <1>1, <3>1
  <2>4. QED BY <2>2, <2>3
<1>8. ASSUME NEW ks, Destroy(ks) PROVE Kept
  <2>1. \/ class'[k] = class[k]
        \/ class'[k] = NoRow /\ \A u \in Users : seats'[k][u] = Null
    BY <1>8 DEF Destroy, NoSeats
  <2>2. QED BY <1>1, <2>1 DEF NoRow, Fit
<1>9. CASE RemoveRow(c) \/ PurgeClasses(c)
  BY <1>8, <1>9 DEF RemoveRow, PurgeClasses
<1>10. QED
  BY <1>2, <1>3, <1>4, <1>5, <1>6, <1>7, <1>9
     DEF Create, Enroll, Join, Sweep, Update, Remove

(* There is a way to every class that was not moved, whoever steps. *)
LEMMA WaysKept ==
  ASSUME WayInv, NEW c \in Calls,
         \/ RoomsStep(c) /\ UNCHANGED cvars
         \/ Create(c) \/ Enroll(c) \/ Join(c) \/ Sweep(c) \/ Update(c) \/ Remove(c) \/ Stop(c),
         NEW k \in ClassIds \ moved'
  PROVE  \E w : Way(k, w)'
<1>0. HeldOK /\ RoomCallsOK /\ KeepInv
  BY Parts DEF WayInv, KeepInv, SeatsInv, TypesInv
<1>o. \A d \in Calls : d # c => Untouched(d)
  BY <1>0, OneCall
<1>e. SeatEffect(c, k) /\ HoldEffect(c) /\ SeatingEffect(c)
  BY <1>0, SeatEffects, HoldEffects, SeatingEffects
<1>1. k \in ClassIds \ moved
  BY GhostsGrow
<1>2. PICK w : Way(k, w)
  BY <1>1 DEF WayInv
<1>3. /\ \A d \in Calls : pc[d] \in ReadPlaces /\ cid[d] = k =>
           /\ seen[d].room \in {Null, w} /\ Fit(seen[d])
           /\ who[d] \in Users \ {seen[d].tutor} => seats[k][who[d]] \in {Null, w}
      /\ \A d \in Calls : pc[d] = "seating" /\ cid[d] = k => seen[d].owner = w
      /\ class[k].room \in {Null, w} /\ Fit(class[k])
      /\ \A u \in Users \ {class[k].tutor} : seats[k][u] \in {Null, w}
  BY <1>2 DEF Way
<1>4. "filing" \in ReadPlaces
  BY DEF ReadPlaces
<1>5. CASE /\ class'[k].room \in {Null, w} /\ Fit(class'[k])
           /\ \A u \in Users \ {class'[k].tutor} :
                seats[k][u] \in {Null, w} \/ seats'[k][u] = Null
  <2>0. \A u \in Users : seats[k][u] \in {Null, w} \/ seats'[k][u] = Null
          => seats'[k][u] \in {Null, w}
    BY <1>3, <1>4, <1>e DEF SeatEffect
  <2>1. \A u \in Users \ {class'[k].tutor} : seats'[k][u] \in {Null, w}
    BY <1>5, <2>0
  <2>2. ASSUME NEW d \in Calls, pc'[d] \in ReadPlaces, cid'[d] = k
        PROVE  /\ seen'[d].room \in {Null, w} /\ Fit(seen'[d])
               /\ who'[d] \in Users \ {seen'[d].tutor} => seats'[k][who'[d]] \in {Null, w}
    <3>1. CASE d # c
      BY <1>3, <1>o, <2>0, <2>2, <3>1 DEF Untouched
    <3>2. CASE d = c
      <4>1. CASE /\ pc[c] \in ReadPlaces
                 /\ cid'[c] = cid[c] /\ seen'[c] = seen[c] /\ who'[c] = who[c]
        BY <1>3, <2>0, <2>2, <3>2, <4>1
      <4>2. CASE seen'[c] = class[k]
        BY <1>3, <2>0, <3>2, <4>2
      <4>3. QED BY <1>e, <2>2, <3>2, <4>1, <4>2 DEF HoldEffect
    <3>3. QED BY <3>1, <3>2
  <2>3. ASSUME NEW d \in Calls, pc'[d] = "seating", cid'[d] = k PROVE seen'[d].owner = w
    <3>1. CASE d # c
      BY <1>3, <1>o, <2>3, <3>1 DEF Untouched
    <3>2. CASE d = c
      BY <1>5, <1>e, <2>3, <3>2 DEF SeatingEffect
    <3>3. QED BY <3>1, <3>2
  <2>4. Way(k, w)'
    BY <1>5, <2>1, <2>2, <2>3 DEF Way, Fit
  <2>5. QED BY <2>4
<1>6. CASE /\ Fit(class'[k])
           /\ \A u \in Users \ {class'[k].tutor} : seats[k][u] \in {Null, class'[k].room}
           /\ \A d \in Calls : pc[d] \in ReadPlaces \cup {"seating"} /\ cid[d] = k =>
                d = c /\ pc[c] = "writing"
           /\ pc'[c] \notin ReadPlaces
  <2>1. \A u \in Users \ {class'[k].tutor} : seats'[k][u] \in {Null, class'[k].room}
    BY <1>4, <1>6, <1>e DEF SeatEffect
  <2>2. \A d \in Calls : ~(pc'[d] \in ReadPlaces /\ cid'[d] = k)
    BY <1>6, <1>o DEF Untouched
  <2>3. \A d \in Calls : pc'[d] = "seating" /\ cid'[d] = k => seen'[d].owner = class'[k].room
    BY <1>6, <1>e, <1>o DEF Untouched, SeatingEffect
  <2>4. PICK w2 : w2 = class'[k].room
    OBVIOUS
  <2>5. Way(k, w2)'
    BY <1>6, <2>1, <2>2, <2>3, <2>4 DEF Way, Fit
  <2>6. QED BY <2>5
<1>7. QED BY <1>2, <1>5, <1>6, RowsFit

(* Who is answered gets a token for the room, whichever way it went.       *)
LEMMA AnswersFit ==
  ASSUME WayInv, NEW c \in Calls,
         \/ RoomsStep(c) /\ UNCHANGED cvars
         \/ Create(c) \/ Enroll(c) \/ Join(c) \/ Sweep(c) \/ Update(c) \/ Remove(c) \/ Stop(c)
  PROVE  Answered(c)'
<1>0. /\ HoldsAt(c) /\ HeldOK /\ RoomCallsOK /\ KeepsOf(c)
  BY Parts DEF WayInv, KeepInv, SeatsInv, TypesInv, HoldsOK
<1>h. /\ \A p : GoTo(c, p) => pc'[c] = p
      /\ \A p : Proceed(c, p) => pc'[c] = p
      /\ Leave(c) => pc'[c] = "done"
      /\ End(c) => pc'[c] = "done"
      /\ \A p : Continue(c, p) => pc'[c] = p
      /\ \A k, r, t : Answer(c, k, r, t) =>
           /\ cid'[c] = k /\ token'[c] = t
           /\ seen'[c].room = r.room /\ seen'[c].url = r.url
  BY <1>0, Held
<1>n. pc'[c] # "answered" => Answered(c)'
  BY DEF Answered
<1>g. moved \subseteq moved'
  BY GhostsGrow
<1>a. ASSUME NEW k \in ClassIds, NEW r, NEW t, Answer(c, k, r, t),
             k \notin moved => t = r.room /\ r.url = r.room
      PROVE  Answered(c)'
  BY <1>a, <1>g, <1>h DEF Answered
<1>w. ASSUME pc[c] \in ReadPlaces, cid[c] \in ClassIds \ moved
      PROVE  \E w : /\ seen[c].room \in {Null, w} /\ Fit(seen[c])
                    /\ who[c] \in Users \ {seen[c].tutor} => seats[cid[c]][who[c]] \in {Null, w}
  BY <1>w DEF WayInv, Way
<1>t. ASSUME NEW u, NEW r, AtOnce(u, r), Fit(r), r.room # Null PROVE HostToken(u, r) = r.room
  BY <1>0, <1>t DEF AtOnce, HostToken, Fit
<1>p. ReadPlaces = {"listing", "filing", "saving", "finding", "unhosting", "clearing",
                    "altering", "writing", "removing", "destroying"}
  BY DEF JoinPlaces, SweepPlaces, OtherPlaces, ReadPlaces
<1>1. CASE RoomsStep(c)
  BY <1>0, <1>1, <1>n, FreePlaces, RoomCallsStay
<1>2. CASE Create(c) \/ EnrollRead(c) \/ SaveList(c)
  BY <1>2, <1>h, <1>n
     DEF Create, CreatePost, CreateRoomRow, CreateCheck, CreateInsert, CreateSeat, EnrollRead,
         SaveList
<1>3. CASE File(c)
  <2>1. pc[c] \in ReadPlaces /\ cid[c] \in ClassIds
    BY <1>0, <1>3, <1>p DEF File, HoldsAt, ClassPlaces, EnrollPlaces
  <2>2. Answer(c, cid[c], seen[c], seen[c].room) \/ End(c)
    BY <1>3 DEF File
  <2>3. CASE Answer(c, cid[c], seen[c], seen[c].room)
    BY <1>a, <1>w, <2>1, <2>3 DEF Fit
  <2>4. QED BY <1>h, <1>n, <2>2, <2>3
<1>4. CASE JoinRead(c)
  <2>1. PICK k \in ClassIds, u \in Users :
          \/ GoTo(c, "unhosting")
          \/ GoTo(c, Onward(u, class[k]))
          \/ /\ class[k].room # Null /\ AtOnce(u, class[k])
             /\ Answer(c, k, class[k], HostToken(u, class[k]))
    BY <1>4 DEF JoinRead, Expired
  <2>2. CASE /\ class[k].room # Null /\ AtOnce(u, class[k])
             /\ Answer(c, k, class[k], HostToken(u, class[k]))
    <3>1. k \notin moved => Fit(class[k])
      BY DEF WayInv, Way
    <3>2. k \notin moved => HostToken(u, class[k]) = class[k].room
      BY <1>t, <2>2, <3>1
    <3>3. QED BY <1>a, <2>2, <3>1, <3>2 DEF Fit
  <2>3. Onward(u, class[k]) # "answered"
    BY DEF Onward
  <2>4. QED BY <1>h, <1>n, <2>1, <2>2, <2>3
<1>5. CASE SaveOwner(c)
  <2>1. pc[c] \in ReadPlaces /\ cid[c] \in ClassIds
    BY <1>0, <1>5, <1>p DEF SaveOwner, HoldsAt, ClassPlaces, JoinPlaces
  <2>2. Answer(c, cid[c], seen[c], seen[c].room)
    BY <1>5 DEF SaveOwner
  <2>3. QED BY <1>a, <1>w, <2>1, <2>2 DEF Fit
<1>6. CASE FindSeat(c)
  <2>1. /\ pc[c] = "finding"
        /\ \/ /\ seats[cid[c]][who[c]] # Null
              /\ Answer(c, cid[c], seen[c], seats[cid[c]][who[c]])
           \/ Continue(c, "listing")
           \/ End(c)
    BY <1>6 DEF FindSeat
  <2>2. /\ pc[c] \in ReadPlaces /\ cid[c] \in ClassIds
        /\ who[c] \in Users \ {seen[c].tutor} /\ seen[c].room # Null
    BY <1>0, <1>p, <2>1 DEF HoldsAt, ClassPlaces, JoinPlaces, KeepsOf
  <2>3. CASE /\ seats[cid[c]][who[c]] # Null
             /\ Answer(c, cid[c], seen[c], seats[cid[c]][who[c]])
    <3>1. ASSUME cid[c] \notin moved
          PROVE  seats[cid[c]][who[c]] = seen[c].room /\ seen[c].url = seen[c].room
      <4>1. PICK w : /\ seen[c].room \in {Null, w} /\ Fit(seen[c])
                     /\ seats[cid[c]][who[c]] \in {Null, w}
        BY <1>w, <2>2, <3>1
      <4>2. QED BY <2>2, <2>3, <4>1 DEF Fit
    <3>2. QED BY <1>a, <2>2, <2>3, <3>1
  <2>4. QED BY <1>h, <1>n, <2>1, <2>3
<1>7. CASE SweepUnhost(c)
  <2>1. /\ pc[c] = "unhosting"
        /\ \/ Continue(c, "clearing") \/ Continue(c, Onward(who[c], seen[c])) \/ End(c)
           \/ /\ AtOnce(who[c], seen[c])
              /\ Answer(c, cid[c], seen[c], HostToken(who[c], seen[c]))
    BY <1>7 DEF SweepUnhost
  <2>2. pc[c] \in ReadPlaces /\ cid[c] \in ClassIds /\ seen[c].room # Null
    BY <1>0, <1>p, <2>1 DEF HoldsAt, ClassPlaces, SweepPlaces, KeepsOf
  <2>3. CASE /\ AtOnce(who[c], seen[c])
             /\ Answer(c, cid[c], seen[c], HostToken(who[c], seen[c]))
    <3>1. cid[c] \notin moved => Fit(seen[c])
      BY <1>w, <2>2
    <3>2. cid[c] \notin moved => HostToken(who[c], seen[c]) = seen[c].room
      BY <1>t, <2>2, <2>3, <3>1
    <3>3. QED BY <1>a, <2>2, <2>3, <3>1, <3>2 DEF Fit
  <2>4. Onward(who[c], seen[c]) # "answered"
    BY DEF Onward
  <2>5. QED BY <1>h, <1>n, <2>1, <2>3, <2>4
<1>8. CASE SweepRead(c) \/ SweepClear(c) \/ Stop(c)
  BY <1>8, <1>h, <1>n DEF SweepRead, SweepClear, Stop
<1>9. CASE Update(c) \/ Remove(c)
  BY <1>9, <1>h, <1>n DEF Update, UpdateRead, UpdateAlter, UpdateWrite, Remove, RemoveRead,
                          RemoveUnhost, RemoveRow, PurgeClasses
<1>10. QED
  BY <1>1, <1>2, <1>3, <1>4, <1>5, <1>6, <1>7, <1>8, <1>9 DEF Enroll, Join, Sweep

(* The way to a class that is there is its own room. *)
LEMMA WayInit == Init => WayInv
<1> SUFFICES ASSUME Init PROVE WayInv
  OBVIOUS
<1>1. KeepInv /\ \A c \in Calls : Answered(c)
  BY KeepInit, Begins DEF Answered
<1>2. \A d \in Calls : pc[d] \notin ReadPlaces \cup {"seating"}
  BY Begins DEF ReadPlaces, JoinPlaces, SweepPlaces, OtherPlaces
<1>3. ASSUME NEW k \in ClassIds PROVE Way(k, k)
  <2>1. \/ class[k] = NoRow /\ \A u \in Users : seats[k][u] = Null
        \/ /\ class[k].room = k /\ class[k].url = k /\ class[k].owner = k
           /\ \A u \in Users : seats[k][u] \in {k, Null}
    BY Begins
  <2>2. QED BY <1>2, <2>1 DEF Way, Fit, NoRow
<1>4. QED BY <1>1, <1>3 DEF WayInv

(* Every step keeps ways and answers. *)
LEMMA WayNext == WayInv /\ [Next]_vars => WayInv'
<1> SUFFICES ASSUME WayInv, [Next]_vars PROVE WayInv'
  OBVIOUS
<1>1. KeepInv' /\ HeldOK /\ RoomCallsOK
  BY KeepNext, Parts DEF WayInv, KeepInv, SeatsInv, TypesInv
<1>2. ASSUME NEW c \in Calls,
             \/ RoomsStep(c) /\ UNCHANGED cvars
             \/ Create(c) \/ Enroll(c) \/ Join(c) \/ Sweep(c) \/ Update(c) \/ Remove(c)
             \/ Stop(c)
      PROVE  WayInv'
  <2>1. \A k \in ClassIds \ moved' : \E w : Way(k, w)'
    BY <1>2, WaysKept
  <2>2. ASSUME NEW d \in Calls PROVE Answered(d)'
    <3>1. CASE d = c
      BY <1>2, <3>1, AnswersFit
    <3>2. CASE d # c
      BY <1>1, <1>2, <3>2, OneCall, GhostsGrow DEF WayInv, Answered, Untouched
    <3>3. QED BY <3>1, <3>2
  <2>3. QED BY <1>1, <2>1, <2>2 DEF WayInv
<1>3. ASSUME UNCHANGED <<pc, classes, held, moved>> PROVE WayInv'
  <2>1. ASSUME NEW k \in ClassIds \ moved' PROVE \E w : Way(k, w)'
    BY <1>3, <2>1 DEF WayInv, Way, Fit, classes, held
  <2>2. \A c \in Calls : Answered(c)'
    BY <1>3 DEF WayInv, Answered, held
  <2>3. QED BY <1>1, <2>1, <2>2 DEF WayInv
<1>4. CASE Tick
  BY <1>3, <1>4 DEF Tick, ghosts
<1>5. CASE UNCHANGED vars
  BY <1>3, <1>5 DEF vars, cvars, ghosts
<1>6. QED BY <1>2, <1>4, <1>5 DEF Next, Quiet

(* Who is told to join a room is given a token for it, unless the class    *)
(* was moved under somebody's way, or given away by a tutor with a seat in *)
(* another room: whoever joins, enrols, sweeps, removes.                   *)
THEOREM JoinTokensFit == Spec => []JoinTokenFitsRoom
<1>1. WayInv => JoinTokenFitsRoom
  BY DEF WayInv, Answered, JoinTokenFitsRoom
<1>2. QED BY WayInit, WayNext, <1>1, PTL DEF Spec
=============================================================================
