----------------------------- MODULE VideoRooms -----------------------------
(***************************************************************************)
(* The video rooms: those the provider (Daily.co) hosts, the table that    *)
(* knows them, and the calls that make and unmake them.                    *)
(*                                                                         *)
(*   rooms/services/rooms.service.ts         create, removeByName, the     *)
(*                                           first half of the purge       *)
(*   rooms/models/room.model.ts              name, dailyRoomName: unique   *)
(*                                                                         *)
(* Administrators name their rooms.  A class has a room of its own, with a *)
(* name drawn at random: it goes by the id of the class it was drawn for.  *)
(* The provider also drops a class's room by itself after the class (exp); *)
(* it does here no earlier than the code asks it to.                       *)
(*                                                                         *)
(* A call runs in steps, one awaited request or statement each, and calls  *)
(* interleave between them.  The actions here leave the classes alone:     *)
(* module Classes composes them with its own.                              *)
(***************************************************************************)
EXTENDS Integers, FiniteSets

CONSTANTS
  Calls,      \* requests to the two services
  ClassIds,   \* classes, and the rooms drawn for them
  RoomNames,  \* names administrators give to rooms
  Null,       \* SQL's NULL
  Earlier     \* whoever made the rows that are there at the beginning

Rooms == ClassIds \cup RoomNames

ASSUME RoomsAssumption ==
  /\ ClassIds \cap RoomNames = {}
  /\ Null \notin Rooms /\ Null \notin Calls
  /\ Earlier \notin Calls /\ Earlier # Null

VARIABLES
  hosted,  \* the rooms at the provider
  row,     \* rooms.name -> the call that inserted the row (its primary key)
  pc,      \* where each call is
  room,    \* the room a call makes, drops or moves a class to
  key,     \* the row a drop has found
  left,    \* the rooms a purge has listed and not deleted yet
  stray    \* history: rooms left behind by a call that did not finish,
           \* or that another call overtook

AddPlaces   == {"posting", "equipping", "recording"}
DropPlaces  == {"dropping", "erasing"}
PurgePlaces == {"purging", "dismissing"}
RoomPlaces  == AddPlaces \cup DropPlaces \cup PurgePlaces

GoTo(c, p) == pc' = [pc EXCEPT ![c] = p]

(* The call goes on to p with its room and its row. *)
Proceed(c, p) == GoTo(c, p) /\ UNCHANGED <<room, key>>

(* The call returns or throws. *)
Leave(c) ==
  /\ GoTo(c, "done")
  /\ room' = [room EXCEPT ![c] = Null]
  /\ key' = [key EXCEPT ![c] = Null]

(* A purge is under way: rooms made meanwhile escape its list, but their   *)
(* rows and classes do not escape its DELETE.                              *)
Purging == \E p \in Calls : pc[p] \in PurgePlaces

(* DELETE /rooms/r: done, or 404 if there is none; or refused. *)
Unhost(r) == hosted' = hosted \ {r}

(***************************************************************************)
(* create                                                                  *)
(***************************************************************************)

(* The name is looked up among the rows. *)
AddFind(c) ==
  /\ pc[c] = "idle"
  /\ \E r \in RoomNames :
       /\ row[r] = Null
       /\ room' = [room EXCEPT ![c] = r]
  /\ GoTo(c, "posting")
  /\ UNCHANGED <<hosted, row, key, left, stray>>

(* POST /rooms: the provider refuses a name it hosts. *)
AddPost(c) ==
  /\ pc[c] = "posting"
  /\ IF room[c] \in hosted
     THEN Leave(c) /\ UNCHANGED <<hosted, stray>>
     ELSE /\ hosted' = hosted \cup {room[c]}
          /\ stray' = IF Purging THEN stray \cup {room[c]} ELSE stray
          /\ Proceed(c, "equipping")
  /\ UNCHANGED <<row, left>>

(* Mutant: a token fails, and the room is not taken down again. *)
AddTokensNoCleanup(c) ==
  /\ pc[c] = "equipping"
  /\ Proceed(c, "recording") \/ Leave(c)
  /\ UNCHANGED <<hosted, row, left, stray>>

(* The owner's and the students' token.  If one fails the room is deleted, *)
(* and a failure of that is only logged.                                   *)
AddTokens(c) ==
  /\ pc[c] = "equipping"
  /\ \/ Proceed(c, "recording") /\ UNCHANGED <<hosted, stray>>
     \/ Leave(c) /\ Unhost(room[c]) /\ UNCHANGED stray
     \/ Leave(c) /\ stray' = stray \cup {room[c]} /\ UNCHANGED hosted
  /\ UNCHANGED <<row, left>>

(* The row is inserted last; the unique name may refuse it by now, and the *)
(* room at the provider is left to the row of another call.                *)
AddRow(c) ==
  /\ pc[c] = "recording"
  /\ IF row[room[c]] = Null
     THEN row' = [row EXCEPT ![room[c]] = c] /\ UNCHANGED stray
     ELSE stray' = stray \cup {room[c]} /\ UNCHANGED row
  /\ Leave(c)
  /\ UNCHANGED <<hosted, left>>

(***************************************************************************)
(* removeByName                                                            *)
(***************************************************************************)

DropFind(c) ==
  /\ pc[c] = "idle"
  /\ \E r \in Rooms :
       /\ row[r] # Null
       /\ room' = [room EXCEPT ![c] = r]
       /\ key' = [key EXCEPT ![c] = row[r]]
  /\ GoTo(c, "dropping")
  /\ UNCHANGED <<hosted, row, left, stray>>

(* Mutant: whatever the provider answers, the row goes. *)
DropDeleteAnyway(c) ==
  /\ pc[c] = "dropping"
  /\ \/ Unhost(room[c])
     \/ UNCHANGED hosted
  /\ Proceed(c, "erasing")
  /\ UNCHANGED <<row, left, stray>>

(* The provider's refusal ends the call. *)
DropDelete(c) ==
  /\ pc[c] = "dropping"
  /\ \/ Proceed(c, "erasing") /\ Unhost(room[c])
     \/ Leave(c) /\ UNCHANGED hosted
  /\ UNCHANGED <<row, left, stray>>

(* DELETE of the row that was found, by its primary key. *)
DropRow(c) ==
  /\ pc[c] = "erasing"
  /\ row' = IF row[room[c]] = key[c] THEN [row EXCEPT ![room[c]] = Null] ELSE row
  /\ Leave(c)
  /\ UNCHANGED <<hosted, left, stray>>

(***************************************************************************)
(* deleteAllDailyRooms                                                     *)
(***************************************************************************)

PurgeList(c) ==
  /\ pc[c] = "idle"
  /\ left' = [left EXCEPT ![c] = hosted]
  /\ GoTo(c, "purging")
  /\ UNCHANGED <<hosted, row, room, key, stray>>

(* One by one; any answer but "deleted" and 404 ends the purge. *)
PurgeDelete(c) ==
  /\ pc[c] = "purging"
  /\ \/ \E r \in left[c] :
          /\ Unhost(r)
          /\ left' = [left EXCEPT ![c] = @ \ {r}]
          /\ UNCHANGED pc
     \/ /\ left[c] # {}
        /\ left' = [left EXCEPT ![c] = {}]
        /\ GoTo(c, "done")
        /\ UNCHANGED hosted
  /\ UNCHANGED <<row, room, key, stray>>

(* The rows of the administrators' rooms ("daily.co") go, listed or not;   *)
(* those of the classes' rooms ("daily") stay.                             *)
PurgeRows(c) ==
  /\ pc[c] = "purging" /\ left[c] = {}
  /\ row' = [r \in Rooms |-> IF r \in RoomNames THEN Null ELSE row[r]]
  /\ GoTo(c, "dismissing")
  /\ UNCHANGED <<hosted, room, key, left, stray>>

RoomsStep(c) ==
  \/ AddFind(c) \/ AddPost(c) \/ AddTokens(c) \/ AddRow(c)
  \/ DropFind(c) \/ DropDelete(c) \/ DropRow(c)
  \/ PurgeList(c) \/ PurgeDelete(c) \/ PurgeRows(c)
=============================================================================
