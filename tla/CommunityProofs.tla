-------------------------- MODULE CommunityProofs --------------------------
(***************************************************************************)
(* Theorems about Community for any number of calls, users and devices.    *)
(***************************************************************************)
EXTENDS Community, FiniteSetTheorems, TLAPS

RequestsOK == pc \in [Calls -> Places] /\ user \in [Calls -> Users \cup {Null}]

(* Places where a call serves a user, marks a notice, or holds a token. *)
MarkPlaces  == {"updating", "opening", "retrying"}
TokenPlaces == {"repointing", "registering"}
UserPlaces  == {"owning", "inviting"} \cup MarkPlaces \cup TokenPlaces

HoldsAt(c) ==
  /\ pc[c] \in UserPlaces => user[c] \in Users
  /\ pc[c] \in MarkPlaces => mark[c] \in Calls
  /\ pc[c] \in TokenPlaces => token[c] \in Tokens

TypesInv == CommunityTypeOK /\ \A c \in Calls : HoldsAt(c)

(* A call moves from one of these places, or begins, or ends. *)
Moves(c, ps) ==
  \E p \in ps \cup {"done"}, u \in Users \cup {Null} :
    /\ pc[c] \in ps \cup {"idle"}
    /\ pc' = [pc EXCEPT ![c] = p]
    /\ user' = [user EXCEPT ![c] = u]

(* The kinds of places are places, and have none in common. *)
LEMMA PlacesDiffer ==
  /\ CrewPlaces \cup NoticePlaces \cup DevicePlaces \cup {"idle", "done"} = Places
  /\ CrewPlaces \cap NoticePlaces = {} /\ CrewPlaces \cap DevicePlaces = {}
  /\ NoticePlaces \cap DevicePlaces = {}
  /\ {"idle", "done"} \cap (CrewPlaces \cup NoticePlaces \cup DevicePlaces) = {}
BY DEF Places, CrewPlaces, ReadPlaces, NoticePlaces, DevicePlaces, PushPlaces

(* Every step is one of these. *)
LEMMA NextCases ==
  ASSUME [Next]_vars
  PROVE  \/ UNCHANGED vars
         \/ Expire /\ UNCHANGED <<requests, crewVars, noticeVars>>
         \/ \E c \in Calls : \/ CrewsStep(c) /\ UNCHANGED <<noticeVars, deviceVars>>
                             \/ NoticesStep(c) /\ UNCHANGED <<crewVars, deviceVars>>
                             \/ DevicesStep(c) /\ UNCHANGED <<crewVars, noticeVars>>
                             \/ Stop(c)
BY Zenon DEF Next, Quiet

(* A step of a crew's call. *)
LEMMA CrewsMove ==
  ASSUME NEW c \in Calls, CommunityTypeOK, CrewsStep(c)
  PROVE  Moves(c, CrewPlaces) /\ CrewsTypeOK'
<1> USE DEF CommunityTypeOK, CrewsTypeOK, CrewPlaces, ReadPlaces
<1>1. \A u \in Users \cup {Null}, p \in CrewPlaces \cup {"done"} :
        /\ Begin(c, u, p) => Moves(c, CrewPlaces)
        /\ pc[c] \in CrewPlaces \cup {"idle"} /\ Leave(c) => Moves(c, CrewPlaces)
        /\ pc[c] \in CrewPlaces /\ Continue(c, p) => Moves(c, CrewPlaces)
  BY DEF Begin, Leave, Continue, Moves
<1>2. AtOnce(c) => Moves(c, CrewPlaces)
  BY <1>1 DEF AtOnce
<1>3. CASE CrewInsert(c)
  <2>1. PICK u \in Users : Begin(c, u, "owning")
    BY <1>3 DEF CrewInsert
  <2>2. Moves(c, CrewPlaces)
    BY <1>1, <2>1
  <2> QED BY <1>3, <2>2 DEF CrewInsert, crewGhosts
<1>4. CASE CrewOwn(c)
  <2>1. Moves(c, CrewPlaces)
    BY <1>1, <1>4 DEF CrewOwn
  <2> QED BY <1>4, <2>1 DEF CrewOwn, crewGhosts, Status
<1>5. CASE Join(c) \/ Part(c) \/ SetStatus(c) \/ CrewRemove(c)
  <2>1. Moves(c, CrewPlaces)
    BY <1>2, <1>5 DEF Join, Part, SetStatus, CrewRemove
  <2>2. member' \in [Users -> Status \cup {Null}]
    BY <1>5 DEF Join, Part, SetStatus, CrewRemove, Status
  <2> QED BY <1>5, <2>1, <2>2 DEF Join, Part, SetStatus, CrewRemove, crewGhosts
<1>6. CASE ChatPost(c) \/ ChatPatch(c) \/ ChatRemove(c)
  <2>1. Moves(c, CrewPlaces)
    BY <1>2, <1>6 DEF ChatPost, ChatPatch, ChatRemove
  <2>2. chat' \in Chat
    BY <1>6 DEF ChatPost, ChatPatch, ChatRemove, Chat
  <2> QED BY <1>6, <2>1, <2>2 DEF ChatPost, ChatPatch, ChatRemove, crewGhosts
<1>7. CASE MarkRead(c)
  <2>1. Moves(c, CrewPlaces)
    BY <1>1, <1>7 DEF MarkRead
  <2> QED BY <1>7, <2>1 DEF MarkRead, crewTables
<1>8. CASE MarkCount(c)
  <2>1. Moves(c, CrewPlaces)
    BY <1>1, <1>8 DEF MarkCount
  <2>2. IsFiniteSet(Members) /\ Cardinality(Members) \in Nat
    BY FS_Subset, FS_CardinalityType, RequestsAssumption DEF Members
  <2> QED BY <1>8, <2>1, <2>2 DEF MarkCount, crewTables, crewGhosts
<1>9. CASE MarkSave(c)
  <2>1. Moves(c, CrewPlaces)
    BY <1>1, <1>9 DEF MarkSave, Marked
  <2>2. chat' \in Chat
    <3>1. held[c] \in Chat /\ held[c].count + 1 \in Nat
      BY DEF Chat
    <3>2. \A n \in Nat, b \in BOOLEAN :
            [chat EXCEPT !.count = n, !.status = IF b THEN "READ" ELSE @] \in Chat
      BY DEF Chat
    <3>3. (held[c].status = "UNREAD" /\ Half(c)) \in BOOLEAN
      OBVIOUS
    <3> QED BY <1>9, <3>1, <3>2, <3>3 DEF MarkSave, Marked
  <2>3. held' \in [Calls -> Chat] /\ total' \in [Calls -> Nat]
    BY <1>9 DEF MarkSave, Marked, NoChat, Chat
  <2>4. reads' \in Nat /\ halved' \subseteq Calls /\ UNCHANGED <<crew, member, crossed, patched>>
    BY <1>9 DEF MarkSave, Marked
  <2> QED BY <2>1, <2>2, <2>3, <2>4
<1> QED BY <1>3, <1>4, <1>5, <1>6, <1>7, <1>8, <1>9 DEF CrewsStep

(* A step of a call about notices. *)
LEMMA NoticesMove ==
  ASSUME NEW c \in Calls, CommunityTypeOK, HoldsAt(c), NoticesStep(c)
  PROVE  Moves(c, NoticePlaces) /\ NoticesTypeOK'
<1> USE DEF CommunityTypeOK, NoticesTypeOK, NoticePlaces
<1>1. \A u \in Users \cup {Null}, p \in NoticePlaces \cup {"done"} :
        /\ Begin(c, u, p) => Moves(c, NoticePlaces)
        /\ pc[c] \in NoticePlaces \cup {"idle"} /\ Leave(c) => Moves(c, NoticePlaces)
        /\ pc[c] \in NoticePlaces /\ Continue(c, p) => Moves(c, NoticePlaces)
  BY DEF Begin, Leave, Continue, Moves
<1>2. \A e \in Calls, u \in Users, r \in {"unread", "read", Null} :
        Write(e, u, r) => notice' \in [Calls -> [Users -> {"unread", "read", Null}]]
  BY DEF Write
<1>3. \A e \in Calls, u \in Users :
        Tell(c, e, u) => /\ told' \subseteq Calls \X Users
                         /\ mark' \in [Calls -> Calls \cup {Null}]
  BY DEF Tell
<1>4. CASE TellResolve(c)
  <2>1. Moves(c, NoticePlaces)
    BY <1>1, <1>4 DEF TellResolve
  <2> QED BY <1>4, <2>1 DEF TellResolve
<1>5. CASE TellStore(c)
  <2>1. Moves(c, NoticePlaces)
    BY <1>1, <1>5 DEF TellStore
  <2> QED BY <1>5, <2>1 DEF TellStore
<1>6. CASE TellAll(c)
  <2>1. Moves(c, NoticePlaces)
    BY <1>1, <1>6 DEF TellAll
  <2> QED BY <1>6, <2>1 DEF TellAll
<1>7. CASE InvitePost(c)
  <2>1. Moves(c, NoticePlaces)
    BY <1>1, <1>7 DEF InvitePost, AtOnce
  <2> QED BY <1>7, <2>1 DEF InvitePost
<1>8. CASE Invite(c)
  <2>1. Moves(c, NoticePlaces) /\ user[c] \in Users
    BY <1>1, <1>8 DEF Invite, HoldsAt, UserPlaces
  <2>2. notice' \in [Calls -> [Users -> {"unread", "read", Null}]]
    BY <1>2, <1>8, <2>1 DEF Invite
  <2> QED BY <1>8, <2>1, <2>2 DEF Invite
<1>9. CASE ReadFind(c)
  <2>1. PICK e \in Calls, u \in Users :
          \/ Tell(c, e, u) /\ pc[c] = "idle"
          \/ /\ Begin(c, u, IF notice[e][u] = Null THEN "opening" ELSE "updating")
             /\ mark' = [mark EXCEPT ![c] = e]
             /\ UNCHANGED told
    BY <1>9 DEF ReadFind
  <2>2. Moves(c, NoticePlaces)
    BY <1>1, <2>1 DEF Tell
  <2>3. told' \subseteq Calls \X Users /\ mark' \in [Calls -> Calls \cup {Null}]
    BY <1>3, <2>1
  <2> QED BY <1>9, <2>2, <2>3 DEF ReadFind
<1>10. CASE ReadUpdate(c) \/ ReadOpen(c) \/ ReadRetry(c)
  <2>1. user[c] \in Users /\ mark[c] \in Calls
    BY <1>10 DEF ReadUpdate, ReadOpen, ReadRetry, HoldsAt, UserPlaces, MarkPlaces
  <2>2. Moves(c, NoticePlaces)
    BY <1>1, <1>10 DEF ReadUpdate, ReadOpen, ReadRetry, Tell
  <2>3. notice' \in [Calls -> [Users -> {"unread", "read", Null}]]
    BY <1>2, <1>10, <2>1 DEF ReadUpdate, ReadOpen, ReadRetry
  <2>4. told' \subseteq Calls \X Users /\ mark' \in [Calls -> Calls \cup {Null}]
    BY <1>3, <1>10, <2>1 DEF ReadUpdate, ReadOpen, ReadRetry
  <2> QED BY <1>10, <2>2, <2>3, <2>4 DEF ReadUpdate, ReadOpen, ReadRetry
<1> QED BY <1>4, <1>5, <1>6, <1>7, <1>8, <1>9, <1>10 DEF NoticesStep

(* A step of a call about devices. *)
LEMMA DevicesMove ==
  ASSUME NEW c \in Calls, CommunityTypeOK, HoldsAt(c), DevicesStep(c)
  PROVE  Moves(c, DevicePlaces) /\ DevicesTypeOK'
<1> USE DEF CommunityTypeOK, DevicesTypeOK, DevicePlaces, PushPlaces
<1>1. \A u \in Users \cup {Null}, p \in DevicePlaces \cup {"done"} :
        /\ Begin(c, u, p) => Moves(c, DevicePlaces)
        /\ pc[c] \in DevicePlaces \cup {"idle"} /\ Leave(c) => Moves(c, DevicePlaces)
        /\ pc[c] \in DevicePlaces /\ Continue(c, p) => Moves(c, DevicePlaces)
  BY DEF Begin, Leave, Continue, Moves
<1>2. NoDevice \in Device
  BY DEF NoDevice, Device
<1>3. \A ts \in SUBSET Tokens : Stir(ts) => stirred' \subseteq Tokens
  BY DEF Stir
<1>4. \A ts \in SUBSET Tokens : Drop(ts) => /\ device' \in [Tokens -> Device]
                                            /\ cut' \subseteq Tokens /\ stirred' \subseteq Tokens
  BY <1>2, <1>3 DEF Drop
<1>5. Registered(c) => /\ token' \in [Calls -> Tokens \cup {Null}]
                       /\ row' \in [Calls -> Device]
                       /\ UNCHANGED <<off, dead, asked, allowed, batch>>
  BY <1>2 DEF Registered
<1>6. Sent(c) => /\ asked' \in [Calls -> SUBSET Users] /\ allowed' \in [Calls -> SUBSET Users]
                 /\ batch' \in [Calls -> SUBSET Tokens]
  BY DEF Sent
<1>7. CASE RegisterFind(c)
  <2>1. Moves(c, DevicePlaces)
    BY <1>1, <1>7 DEF RegisterFind, AtOnce
  <2> QED BY <1>7, <2>1 DEF RegisterFind, deviceTables
<1>8. CASE RegisterRepoint(c)
  <2>1. user[c] \in Users /\ token[c] \in Tokens
    BY <1>8 DEF RegisterRepoint, HoldsAt, UserPlaces, TokenPlaces
  <2>2. Moves(c, DevicePlaces)
    BY <1>1, <1>8 DEF RegisterRepoint, Registered
  <2>3. device' \in [Tokens -> Device] /\ cut' \subseteq Tokens /\ stirred' \subseteq Tokens
    BY <1>3, <1>8, <2>1 DEF RegisterRepoint, Device
  <2>4. owner' \in [Tokens -> Users \cup {Null}]
    BY <1>8, <2>1 DEF RegisterRepoint
  <2> QED BY <1>5, <1>8, <2>2, <2>3, <2>4 DEF RegisterRepoint
<1>9. CASE RegisterInsert(c)
  <2>1. user[c] \in Users /\ token[c] \in Tokens
    BY <1>9 DEF RegisterInsert, HoldsAt, UserPlaces, TokenPlaces
  <2>2. Moves(c, DevicePlaces)
    BY <1>1, <1>9 DEF RegisterInsert, Registered
  <2>3. device' \in [Tokens -> Device] /\ stirred' \subseteq Tokens
    <3>1. [user |-> user[c], by |-> c] \in Device
      BY <2>1 DEF Device
    <3> QED BY <1>3, <1>9, <2>1, <3>1 DEF RegisterInsert
  <2>4. owner' \in [Tokens -> Users \cup {Null}]
    BY <1>9, <2>1 DEF RegisterInsert
  <2> QED BY <1>5, <1>9, <2>2, <2>3, <2>4 DEF RegisterInsert
<1>10. CASE Unregister(c)
  <2>1. Moves(c, DevicePlaces)
    BY <1>1, <1>10 DEF Unregister, AtOnce
  <2>2. PICK t \in Tokens : Drop({t}) /\ owner' = [owner EXCEPT ![t] = Null]
    BY <1>10 DEF Unregister
  <2> QED BY <1>4, <1>10, <2>1, <2>2 DEF Unregister, deviceHeld
<1>11. CASE SetPush(c)
  <2>1. Moves(c, DevicePlaces)
    BY <1>1, <1>11 DEF SetPush, AtOnce
  <2>2. off' \subseteq Users /\ stirred' \subseteq Tokens
    BY <1>3, <1>11 DEF SetPush
  <2> QED BY <1>11, <2>1, <2>2 DEF SetPush, deviceHeld
<1>12. CASE PushFilter(c)
  <2>1. Moves(c, DevicePlaces)
    BY <1>1, <1>12 DEF PushFilter
  <2> QED BY <1>12, <2>1 DEF PushFilter, deviceTables, deviceGhosts
<1>13. CASE PushResolve(c)
  <2>1. Moves(c, DevicePlaces)
    BY <1>1, <1>13 DEF PushResolve, Sent
  <2> QED BY <1>6, <1>13, <2>1 DEF PushResolve, deviceTables, deviceGhosts
<1>14. CASE PushSend(c)
  <2>1. Moves(c, DevicePlaces)
    BY <1>1, <1>14 DEF PushSend, Sent
  <2> QED BY <1>6, <1>14, <2>1 DEF PushSend, deviceTables, deviceGhosts
<1>15. CASE PushPrune(c)
  <2>1. Moves(c, DevicePlaces)
    BY <1>1, <1>15 DEF PushPrune, Sent
  <2> QED BY <1>4, <1>6, <1>15, <2>1 DEF PushPrune
<1> QED BY <1>7, <1>8, <1>9, <1>10, <1>11, <1>12, <1>13, <1>14, <1>15 DEF DevicesStep

(* A call that stops leaves the tables as they are. *)
LEMMA StopMove ==
  ASSUME NEW c \in Calls, CommunityTypeOK, Stop(c)
  PROVE  /\ pc[c] \notin {"idle", "done"} /\ pc' = [pc EXCEPT ![c] = "done"]
         /\ user' = [user EXCEPT ![c] = Null]
         /\ CrewsTypeOK' /\ NoticesTypeOK' /\ DevicesTypeOK'
<1>1. NoChat \in Chat /\ NoDevice \in Device
  BY DEF NoChat, Chat, NoDevice, Device
<1> QED BY <1>1 DEF CommunityTypeOK, CrewsTypeOK, NoticesTypeOK, DevicesTypeOK, Stop, InFlight,
              Leave, crewTables, crewGhosts, deviceTables, deviceGhosts

(* What a crew's call holds. *)
LEMMA CrewsHold ==
  ASSUME NEW c \in Calls, CommunityTypeOK, CrewsStep(c)
  PROVE  HoldsAt(c)'
<1>1. Moves(c, CrewPlaces)
  BY CrewsMove
<1>2. pc'[c] \in CrewPlaces \cup {"done"}
  BY <1>1 DEF Moves, CommunityTypeOK
<1>3. pc'[c] = "owning" => user'[c] \in Users
  <2>1. CASE CrewInsert(c)
    BY <2>1 DEF CrewInsert, Begin, CommunityTypeOK
  <2>2. CASE ~CrewInsert(c)
    BY <2>2 DEF CrewsStep, CrewOwn, Join, Part, SetStatus, CrewRemove, ChatPost, ChatPatch,
                ChatRemove, MarkRead, MarkCount, MarkSave, Marked, AtOnce, Leave, Begin,
                Continue, CommunityTypeOK
  <2> QED BY <2>1, <2>2
<1> QED BY <1>2, <1>3 DEF HoldsAt, UserPlaces, MarkPlaces, TokenPlaces, CrewPlaces, ReadPlaces

(* What a call about notices holds. *)
LEMMA NoticesHold ==
  ASSUME NEW c \in Calls, CommunityTypeOK, HoldsAt(c), NoticesStep(c)
  PROVE  HoldsAt(c)'
<1> USE DEF HoldsAt, UserPlaces, MarkPlaces, TokenPlaces, CommunityTypeOK, NoticesTypeOK
<1>1. CASE TellResolve(c) \/ TellStore(c) \/ TellAll(c) \/ Invite(c)
  BY <1>1 DEF TellResolve, TellStore, TellAll, Invite, Begin, Continue, Leave
<1>2. CASE InvitePost(c)
  BY <1>2 DEF InvitePost, AtOnce, Begin, Leave
<1>3. CASE ReadFind(c)
  <2>1. PICK e \in Calls, u \in Users :
          \/ Tell(c, e, u)
          \/ /\ Begin(c, u, IF notice[e][u] = Null THEN "opening" ELSE "updating")
             /\ mark' = [mark EXCEPT ![c] = e]
    BY <1>3 DEF ReadFind
  <2> QED BY <2>1 DEF Tell, Leave, Begin
<1>4. CASE ReadUpdate(c) \/ ReadOpen(c) \/ ReadRetry(c)
  BY <1>4 DEF ReadUpdate, ReadOpen, ReadRetry, Tell, Leave, Continue
<1> QED BY <1>1, <1>2, <1>3, <1>4 DEF NoticesStep

(* What a call about devices holds. *)
LEMMA DevicesHold ==
  ASSUME NEW c \in Calls, CommunityTypeOK, HoldsAt(c), DevicesStep(c)
  PROVE  HoldsAt(c)'
<1> USE DEF HoldsAt, UserPlaces, MarkPlaces, TokenPlaces, CommunityTypeOK, DevicesTypeOK
<1>1. CASE RegisterFind(c)
  BY <1>1 DEF RegisterFind, AtOnce, Begin, Leave
<1>2. CASE RegisterRepoint(c) \/ RegisterInsert(c)
  BY <1>2 DEF RegisterRepoint, RegisterInsert, Registered, Leave
<1>3. CASE Unregister(c) \/ SetPush(c)
  BY <1>3 DEF Unregister, SetPush, AtOnce, Leave
<1>4. CASE PushFilter(c) \/ PushResolve(c) \/ PushSend(c) \/ PushPrune(c)
  BY <1>4 DEF PushFilter, PushResolve, PushSend, PushPrune, Sent, Begin, Continue, Leave
<1> QED BY <1>1, <1>2, <1>3, <1>4 DEF DevicesStep

(* A call leaves alone what another one holds. *)
LEMMA OthersHold ==
  ASSUME NEW c \in Calls, CommunityTypeOK,
         \/ CrewsStep(c) /\ UNCHANGED <<noticeVars, deviceVars>>
         \/ NoticesStep(c) /\ UNCHANGED <<crewVars, deviceVars>>
         \/ DevicesStep(c) /\ UNCHANGED <<crewVars, noticeVars>>
         \/ Stop(c),
         NEW d \in Calls \ {c}
  PROVE  mark'[d] = mark[d] /\ token'[d] = token[d]
<1> USE DEF CommunityTypeOK, NoticesTypeOK, DevicesTypeOK
<1>1. CASE Stop(c)
  BY <1>1 DEF Stop
<1>2. CASE CrewsStep(c) /\ UNCHANGED <<noticeVars, deviceVars>>
  BY <1>2 DEF noticeVars, deviceVars, deviceHeld
<1>3. CASE NoticesStep(c) /\ UNCHANGED <<crewVars, deviceVars>>
  <2>1. mark'[d] = mark[d]
    BY <1>3 DEF NoticesStep, TellResolve, TellStore, TellAll, InvitePost, Invite, ReadFind,
                ReadUpdate, ReadOpen, ReadRetry, Tell
  <2> QED BY <1>3, <2>1 DEF deviceVars, deviceHeld
<1>4. CASE DevicesStep(c) /\ UNCHANGED <<crewVars, noticeVars>>
  <2>1. token'[d] = token[d]
    BY <1>4 DEF DevicesStep, RegisterFind, RegisterRepoint, RegisterInsert, Registered,
                Unregister, SetPush, PushFilter, PushResolve, PushSend, PushPrune, deviceHeld
  <2> QED BY <1>4, <2>1 DEF noticeVars
<1> QED BY <1>1, <1>2, <1>3, <1>4

(* Every step keeps the types. *)
LEMMA TypesStep == TypesInv /\ [Next]_vars => TypesInv'
<1> SUFFICES ASSUME TypesInv, [Next]_vars PROVE TypesInv'
  OBVIOUS
<1>1. CASE UNCHANGED vars
  BY <1>1 DEF TypesInv, CommunityTypeOK, CrewsTypeOK, NoticesTypeOK, DevicesTypeOK, HoldsAt,
              vars, requests, crewVars, crewTables, crewGhosts, noticeVars, deviceVars,
              deviceTables, deviceHeld, deviceGhosts
<1>2. CASE Expire /\ UNCHANGED <<requests, crewVars, noticeVars>>
  BY <1>2 DEF Expire, TypesInv, CommunityTypeOK, CrewsTypeOK, NoticesTypeOK, DevicesTypeOK,
              HoldsAt, requests, crewVars, crewTables, crewGhosts, noticeVars,
              deviceHeld, deviceGhosts
<1>3. ASSUME NEW c \in Calls,
             \/ CrewsStep(c) /\ UNCHANGED <<noticeVars, deviceVars>>
             \/ NoticesStep(c) /\ UNCHANGED <<crewVars, deviceVars>>
             \/ DevicesStep(c) /\ UNCHANGED <<crewVars, noticeVars>>
             \/ Stop(c)
      PROVE  TypesInv'
  <2>1. CommunityTypeOK /\ HoldsAt(c)
    BY DEF TypesInv
  <2>2. /\ Moves(c, CrewPlaces \cup NoticePlaces \cup DevicePlaces)
        /\ CrewsTypeOK' /\ NoticesTypeOK' /\ DevicesTypeOK' /\ HoldsAt(c)'
    <3>1. CASE CrewsStep(c) /\ UNCHANGED <<noticeVars, deviceVars>>
      <4>1. NoticesTypeOK' /\ DevicesTypeOK'
        BY <2>1, <3>1 DEF CommunityTypeOK, NoticesTypeOK, DevicesTypeOK, noticeVars,
                          deviceVars, deviceTables, deviceHeld, deviceGhosts
      <4>2. Moves(c, CrewPlaces) /\ CrewsTypeOK' /\ HoldsAt(c)'
        BY <2>1, <3>1, CrewsMove, CrewsHold
      <4> QED BY <4>1, <4>2 DEF Moves
    <3>2. CASE NoticesStep(c) /\ UNCHANGED <<crewVars, deviceVars>>
      <4>1. CrewsTypeOK' /\ DevicesTypeOK'
        BY <2>1, <3>2 DEF CommunityTypeOK, CrewsTypeOK, DevicesTypeOK, crewVars, crewTables,
                          crewGhosts, deviceVars, deviceTables, deviceHeld, deviceGhosts
      <4>2. Moves(c, NoticePlaces) /\ NoticesTypeOK' /\ HoldsAt(c)'
        BY <2>1, <3>2, NoticesMove, NoticesHold
      <4> QED BY <4>1, <4>2 DEF Moves
    <3>3. CASE DevicesStep(c) /\ UNCHANGED <<crewVars, noticeVars>>
      <4>1. CrewsTypeOK' /\ NoticesTypeOK'
        BY <2>1, <3>3 DEF CommunityTypeOK, CrewsTypeOK, NoticesTypeOK, crewVars, crewTables,
                          crewGhosts, noticeVars
      <4>2. Moves(c, DevicePlaces) /\ DevicesTypeOK' /\ HoldsAt(c)'
        BY <2>1, <3>3, DevicesMove, DevicesHold
      <4> QED BY <4>1, <4>2 DEF Moves
    <3>4. CASE Stop(c)
      <4>1. /\ pc[c] \notin {"idle", "done"} /\ pc' = [pc EXCEPT ![c] = "done"]
            /\ user' = [user EXCEPT ![c] = Null]
            /\ CrewsTypeOK' /\ NoticesTypeOK' /\ DevicesTypeOK'
        BY <2>1, <3>4, StopMove
      <4>2. pc[c] \in CrewPlaces \cup NoticePlaces \cup DevicePlaces
        BY <2>1, <4>1 DEF CommunityTypeOK, Places
      <4>3. HoldsAt(c)'
        BY <2>1, <4>1 DEF HoldsAt, UserPlaces, MarkPlaces, TokenPlaces, CommunityTypeOK
      <4> QED BY <4>1, <4>2, <4>3 DEF Moves
    <3> QED BY <1>3, <3>1, <3>2, <3>3, <3>4
  <2>3. CommunityTypeOK'
    BY <2>1, <2>2, PlacesDiffer DEF CommunityTypeOK, Moves
  <2>4. ASSUME NEW d \in Calls \ {c} PROVE HoldsAt(d)'
    <3>1. mark'[d] = mark[d] /\ token'[d] = token[d]
      BY <1>3, <2>1, OthersHold
    <3>2. pc'[d] = pc[d] /\ user'[d] = user[d]
      BY <2>1, <2>2 DEF Moves, CommunityTypeOK
    <3> QED BY <3>1, <3>2 DEF HoldsAt, TypesInv
  <2> QED BY <2>2, <2>3, <2>4 DEF TypesInv
<1> QED BY <1>1, <1>2, <1>3, NextCases

(***************************************************************************)
(* The inductive invariants                                                *)
(***************************************************************************)

(* The count is no larger than the reads, nor is what a reader has read of *)
(* it.  While no two readers have overlapped, there is one at most, and it *)
(* has read the count as it is.                                            *)
CountInv ==
  /\ chat.state = "none" => reads = 0 /\ chat = NoChat /\ Readers = {}
  /\ chat.state = "live" => chat.count <= reads
  /\ \A c \in Readers : held[c].count <= reads
  /\ crossed = {} =>
       /\ chat.state = "live" => chat.count = reads
       /\ \A c \in Readers : held[c].count = reads
       /\ \A c, d \in Readers : c = d

(* A reader has read READ only if half had been counted.                   *)
HalfInv ==
  /\ chat.state = "none" => halved = {}
  /\ patched = {} => /\ chat.state = "live" => (chat.status = "READ" <=> halved # {})
                     /\ \A c \in Readers : held[c].status = "READ" => halved # {}

(* What a call has posted, by its place; only what is posted has rows and  *)
(* is marked.                                                              *)
ReachOf(e) ==
  /\ pc[e] \in {"idle", "storing"} => posted[e] = Null
  /\ pc[e] = "telling" => posted[e] = "message"
  /\ pc[e] = "inviting" => posted[e] = "battle"
  /\ pc[e] \in MarkPlaces => posted[mark[e]] # Null
  /\ \A u \in Users : notice[e][u] # Null => posted[e] # Null
  /\ e \in halted => posted[e] = "message" /\ pc[e] = "done"
ReachInv == \A e \in Calls : ReachOf(e)

(* A device has both user and inserter or neither.  A registration has     *)
(* found a row, which is still there and still its user's, unless the      *)
(* device was cut; and tokens to be pruned are dead.                       *)
KeepOf(c) ==
  /\ pc[c] = "repointing" =>
       /\ row[c].by # Null
       /\ token[c] \notin cut => device[token[c]].by = row[c].by
       /\ token[c] \notin cut /\ user[c] = row[c].user => device[token[c]].user = row[c].user
  /\ pc[c] = "pruning" => batch[c] \subseteq dead
KeepInv ==
  /\ \A t \in Tokens : device[t].by = Null <=> device[t].user = Null
  /\ \A c \in Calls : KeepOf(c)

(* The users a push has allowed are those who have push on, as far as the  *)
(* devices that have not changed tell.                                     *)
PushInv ==
  \A c \in Calls, t \in Tokens \ stirred :
    pc[c] = "resolving" => (device[t].user \in allowed[c] <=> device[t].user \in asked[c] \ off)

(* A call, in a step of another one. *)
LEMMA OneMoves ==
  ASSUME CommunityTypeOK, NEW c \in Calls, NEW ps, Moves(c, ps), NEW d \in Calls \ {c}
  PROVE  pc'[d] = pc[d] /\ user'[d] = user[d]
BY DEF CommunityTypeOK, Moves

(***************************************************************************)
(* The count                                                               *)
(***************************************************************************)

(* What does not touch the message keeps its invariants, if nobody begins  *)
(* to read it.                                                             *)
LEMMA ReadersFrame ==
  ASSUME CountInv, HalfInv, UNCHANGED <<chat, reads, crossed, halved, patched>>,
         Readers' \subseteq Readers, \A d \in Readers' : held'[d] = held[d]
  PROVE  CountInv' /\ HalfInv'
<1>1. CountInv'
  BY DEF CountInv, NoChat
<1>2. HalfInv'
  BY DEF HalfInv
<1> QED BY <1>1, <1>2

(* Steps of calls that are not a crew's. *)
LEMMA ReadersOfOthers ==
  ASSUME TypesInv, CountInv, HalfInv, NEW c \in Calls, UNCHANGED crewVars,
         NEW ps, Moves(c, ps), ps \cap ReadPlaces = {}
  PROVE  CountInv' /\ HalfInv'
<1>1. Readers' = Readers
  BY DEF Readers, Moves, TypesInv, CommunityTypeOK, ReadPlaces
<1> QED BY <1>1, ReadersFrame DEF crewVars, crewTables, crewGhosts

(* Where the readers are after a step of a crew's call. *)
LEMMA ReadersMove ==
  ASSUME TypesInv, NEW c \in Calls, Moves(c, CrewPlaces)
  PROVE  /\ Readers' = IF pc'[c] \in ReadPlaces THEN Readers \cup {c} ELSE Readers \ {c}
         /\ pc[c] = "idle" => c \notin Readers
BY DEF Readers, Moves, TypesInv, CommunityTypeOK, ReadPlaces

(* Each step of a crew's call keeps what is said of the count.             *)
LEMMA CountStep ==
  ASSUME TypesInv, CountInv, HalfInv, NEW c \in Calls, CrewsStep(c)
  PROVE  CountInv' /\ HalfInv'
<1> USE DEF TypesInv, CommunityTypeOK, CrewsTypeOK
<1>1. Moves(c, CrewPlaces)
  BY CrewsMove
<1>2. /\ Readers' = IF pc'[c] \in ReadPlaces THEN Readers \cup {c} ELSE Readers \ {c}
      /\ pc[c] = "idle" => c \notin Readers
  BY <1>1, ReadersMove
<1>3. \A r \in Chat : r.count \in Nat
  BY DEF Chat
<1>4. CASE CrewInsert(c) \/ CrewOwn(c) \/ Join(c) \/ Part(c) \/ SetStatus(c) \/ CrewRemove(c)
  <2>1. UNCHANGED <<chat, reads, crossed, halved, patched, held>>
    BY <1>4 DEF CrewInsert, CrewOwn, Join, Part, SetStatus, CrewRemove, crewGhosts
  <2>2. pc'[c] \notin ReadPlaces
    BY <1>4 DEF CrewInsert, CrewOwn, Join, Part, SetStatus, CrewRemove, AtOnce, Begin, Leave,
                ReadPlaces
  <2> QED BY <1>2, <2>1, <2>2, ReadersFrame
<1>5. CASE ChatPost(c) \/ ChatPatch(c) \/ ChatRemove(c)
  <2>1. UNCHANGED <<reads, crossed, halved, held>> /\ pc'[c] \notin ReadPlaces /\ pc[c] = "idle"
    BY <1>5 DEF ChatPost, ChatPatch, ChatRemove, crewGhosts, AtOnce, Leave, ReadPlaces
  <2>2. Readers' = Readers
    BY <1>2, <2>1
  <2>3. /\ chat'.count = chat.count /\ chat'.state \in {"live", "gone"}
        /\ \/ chat.state = "live"
           \/ chat.state = "none" /\ chat'.state = "live"
        /\ patched' = {} => patched = {} /\ chat'.status = chat.status
    BY <1>5 DEF ChatPost, ChatPatch, ChatRemove, Chat, crewGhosts
  <2>4. CountInv'
    <3>1. chat.state = "none" => chat.count = reads /\ Readers = {}
      BY DEF CountInv, NoChat
    <3>2. chat'.state # "none" /\ chat'.count <= reads'
      BY <2>1, <2>3, <3>1 DEF CountInv
    <3>3. crossed = {} => chat'.count = reads
      BY <2>1, <2>3, <3>1 DEF CountInv
    <3> QED BY <2>1, <2>2, <3>2, <3>3 DEF CountInv
  <2>5. HalfInv'
    BY <2>1, <2>2, <2>3 DEF HalfInv, CountInv, NoChat
  <2> QED BY <2>4, <2>5
<1>6. CASE MarkRead(c)
  <2>1. /\ chat.state = "live" /\ UNCHANGED <<chat, reads, halved, patched>>
        /\ held' = [held EXCEPT ![c] = chat]
        /\ crossed' = IF Readers = {} THEN crossed ELSE crossed \cup {c}
        /\ pc[c] = "idle" /\ pc'[c] \in ReadPlaces
    BY <1>6 DEF MarkRead, Begin, crewTables, ReadPlaces
  <2>2. Readers' = Readers \cup {c} /\ c \notin Readers
    BY <1>2, <2>1
  <2>3. Readers \subseteq Calls
    BY DEF Readers
  <2>4. CountInv'
    BY <2>1, <2>2, <2>3 DEF CountInv
  <2>5. HalfInv'
    BY <2>1, <2>2, <2>3 DEF HalfInv
  <2> QED BY <2>4, <2>5
<1>7. CASE MarkCount(c)
  <2>1. UNCHANGED <<chat, reads, crossed, halved, patched, held>>
    BY <1>7 DEF MarkCount, crewTables, crewGhosts
  <2>2. c \in Readers
    BY <1>7 DEF MarkCount, Readers, ReadPlaces
  <2> QED BY <1>2, <2>1, <2>2, ReadersFrame
<1>8. CASE MarkSave(c)
  <2>1. /\ c \in Readers /\ held[c] \in Chat /\ pc'[c] \notin ReadPlaces
        /\ UNCHANGED <<crossed, patched>> /\ held' = [held EXCEPT ![c] = NoChat]
    BY <1>8 DEF MarkSave, Marked, Readers, ReadPlaces, Leave
  <2>2. Readers' = Readers \ {c} /\ Readers \subseteq Calls
    BY <1>2, <2>1 DEF Readers
  <2>3. \A d \in Readers' : held'[d] = held[d]
    BY <2>1, <2>2
  <2>4. CASE chat.state # "live"
    <3>1. UNCHANGED <<chat, reads, halved>>
      BY <1>8, <2>4 DEF MarkSave
    <3> QED BY <2>1, <2>2, <2>3, <3>1, ReadersFrame
  <2>5. CASE chat.state = "live"
    <3>1. /\ chat'.state = "live" /\ chat'.count = held[c].count + 1 /\ reads' = reads + 1
          /\ chat'.status = IF held[c].status = "UNREAD" /\ Half(c) THEN "READ" ELSE chat.status
          /\ halved' = IF Half(c) THEN halved \cup {c} ELSE halved
      BY <1>8, <2>5 DEF MarkSave, Chat
    <3>2. CountInv'
      BY <1>3, <2>1, <2>2, <2>3, <2>5, <3>1 DEF CountInv
    <3>3. held[c].status \in {"READ", "UNREAD"} /\ chat.status \in {"READ", "UNREAD"}
      BY <2>1 DEF Chat
    <3>4. HalfInv'
      BY <2>1, <2>2, <2>3, <2>5, <3>1, <3>3 DEF HalfInv
    <3> QED BY <3>2, <3>4
  <2> QED BY <2>4, <2>5
<1> QED BY <1>4, <1>5, <1>6, <1>7, <1>8, CrewsStep(c) DEF CrewsStep

(* Every step keeps what is said of the count.                             *)
LEMMA CountInvariant ==
  ASSUME TypesInv, CountInv, HalfInv, [Next]_vars
  PROVE  CountInv' /\ HalfInv'
<1> CommunityTypeOK
  BY DEF TypesInv
<1>1. CASE UNCHANGED vars \/ (Expire /\ UNCHANGED <<requests, crewVars, noticeVars>>)
  <2>1. UNCHANGED <<pc, crewVars>>
    BY <1>1 DEF vars, requests
  <2> QED BY <2>1, ReadersFrame DEF Readers, crewVars, crewTables, crewGhosts
<1>2. ASSUME NEW c \in Calls, CrewsStep(c) PROVE CountInv' /\ HalfInv'
  BY <1>2, CountStep
<1>3. ASSUME NEW c \in Calls, NoticesStep(c), UNCHANGED <<crewVars, deviceVars>>
      PROVE  CountInv' /\ HalfInv'
  <2>1. Moves(c, NoticePlaces)
    BY <1>3, NoticesMove DEF TypesInv
  <2> QED BY <1>3, <2>1, ReadersOfOthers DEF NoticePlaces, ReadPlaces
<1>4. ASSUME NEW c \in Calls, DevicesStep(c), UNCHANGED <<crewVars, noticeVars>>
      PROVE  CountInv' /\ HalfInv'
  <2>1. Moves(c, DevicePlaces)
    BY <1>4, DevicesMove DEF TypesInv
  <2> QED BY <1>4, <2>1, ReadersOfOthers DEF DevicePlaces, PushPlaces, ReadPlaces
<1>5. ASSUME NEW c \in Calls, Stop(c) PROVE CountInv' /\ HalfInv'
  <2>1. UNCHANGED <<chat, reads, crossed, halved, patched>> /\ held' = [held EXCEPT ![c] = NoChat]
    BY <1>5 DEF Stop, crewTables, crewGhosts
  <2>2. Readers' = Readers \ {c}
    BY <1>5, StopMove DEF Readers, CommunityTypeOK, ReadPlaces
  <2>3. \A d \in Readers' : held'[d] = held[d]
    BY <2>1, <2>2 DEF Readers, CommunityTypeOK, CrewsTypeOK
  <2> QED BY <2>1, <2>2, <2>3, ReadersFrame
<1>6. \/ UNCHANGED vars
      \/ Expire /\ UNCHANGED <<requests, crewVars, noticeVars>>
      \/ \E c \in Calls : \/ CrewsStep(c)
                          \/ NoticesStep(c) /\ UNCHANGED <<crewVars, deviceVars>>
                          \/ DevicesStep(c) /\ UNCHANGED <<crewVars, noticeVars>>
                          \/ Stop(c)
  BY NextCases
<1> QED BY ONLY <1>1, <1>2, <1>3, <1>4, <1>5, <1>6

(***************************************************************************)
(* The notices                                                             *)
(***************************************************************************)

(* Steps that leave the notices alone. *)
LEMMA NoticesOfOthers ==
  ASSUME TypesInv, ReachInv, MarkedIsRead, MessagesReach, NEW c \in Calls,
         UNCHANGED noticeVars, NEW ps, Moves(c, ps), ps \cap NoticePlaces = {},
         {"idle", "done"} \cap ps = {}
  PROVE  ReachInv' /\ MarkedIsRead' /\ MessagesReach'
<1> USE DEF noticeVars
<1>1. pc[c] \notin NoticePlaces /\ pc'[c] \notin NoticePlaces \cup {"idle"}
  BY PlacesDiffer DEF Moves, TypesInv, CommunityTypeOK, NoticePlaces
<1>2. \A d \in Calls \ {c} : pc'[d] = pc[d] /\ user'[d] = user[d]
  BY OneMoves DEF TypesInv
<1>3. ReachInv'
  <2>1. ASSUME NEW d \in Calls \ {c} PROVE ReachOf(d)'
    BY <1>2 DEF ReachInv, ReachOf
  <2>2. c \notin halted
    BY DEF Moves, ReachInv, ReachOf
  <2>3. ReachOf(c)'
    BY <1>1, <2>2 DEF ReachInv, ReachOf, NoticePlaces, MarkPlaces
  <2> QED BY <2>1, <2>3 DEF ReachInv
<1>4. MarkedIsRead'
  BY DEF MarkedIsRead
<1>5. MessagesReach'
  BY <1>1, <1>2 DEF MessagesReach, NoticePlaces
<1> QED BY <1>3, <1>4, <1>5

(* Each step of a call about notices keeps what is said of them. *)
LEMMA NoticesStepKeeps ==
  ASSUME TypesInv, ReachInv, MarkedIsRead, MessagesReach, NEW c \in Calls, NoticesStep(c)
  PROVE  ReachInv' /\ MarkedIsRead' /\ MessagesReach'
<1> USE DEF TypesInv, CommunityTypeOK, NoticesTypeOK
<1>1. Moves(c, NoticePlaces)
  BY NoticesMove
<1>2. \A d \in Calls \ {c} : pc'[d] = pc[d] /\ user'[d] = user[d]
  BY <1>1, OneMoves
<1>3. \A d \in Calls : pc[d] \in MarkPlaces => user[d] \in Users /\ mark[d] \in Calls
  BY DEF HoldsAt, UserPlaces
<1>n. \A e \in Calls, u \in Users : <<e, u>> \in told => notice[e][u] # Null
  BY NoticesAssumption DEF MarkedIsRead
<1>4. CASE TellResolve(c)
  <2>1. /\ pc[c] = "idle" /\ pc' = [pc EXCEPT ![c] = "storing"]
        /\ UNCHANGED <<posted, notice, mark, told, halted>>
        /\ \A d \in Calls \ {c} : reach'[d] = reach[d]
    BY <1>4 DEF TellResolve, Begin
  <2>2. posted[c] = Null /\ \A u \in Users : notice[c][u] = Null
    BY <2>1 DEF ReachInv, ReachOf
  <2>3. \A d \in Calls : pc[d] \in MarkPlaces => mark[d] # c
    BY <2>2 DEF ReachInv, ReachOf
  <2>4. ReachInv'
    BY <1>2, <1>3, <2>1, <2>2, <2>3, NoticesAssumption DEF ReachInv, ReachOf, MarkPlaces
  <2>5. MessagesReach'
    BY <1>2, <2>1, <2>2, NoticesAssumption DEF MessagesReach
  <2> QED BY <2>1, <2>4, <2>5 DEF MarkedIsRead
<1>5. CASE TellStore(c)
  <2>1. /\ pc[c] = "storing" /\ pc' = [pc EXCEPT ![c] = "telling"]
        /\ UNCHANGED <<user, reach, notice, mark, told, halted>>
        /\ posted' = [posted EXCEPT ![c] = "message"]
    BY <1>5 DEF TellStore, Continue
  <2>2. posted[c] = Null /\ \A u \in Users : notice[c][u] = Null
    BY <2>1 DEF ReachInv, ReachOf
  <2>3. \A d \in Calls : pc[d] \in MarkPlaces => mark[d] # c
    BY <2>2 DEF ReachInv, ReachOf
  <2>4. ReachInv'
    BY <1>2, <1>3, <2>1, <2>2, <2>3 DEF ReachInv, ReachOf, MarkPlaces
  <2>5. MessagesReach'
    BY <1>2, <1>n, <2>1, <2>2 DEF MessagesReach
  <2> QED BY <2>1, <2>4, <2>5 DEF MarkedIsRead
<1>6. CASE TellAll(c)
  <2>1. /\ pc[c] = "telling" /\ pc' = [pc EXCEPT ![c] = "done"]
        /\ UNCHANGED <<posted, reach, mark, told, halted>>
        /\ \A d \in Calls \ {c} : notice'[d] = notice[d]
        /\ \A u \in Users : notice'[c][u] = IF u \in reach[c] /\ notice[c][u] = Null
                                            THEN "unread" ELSE notice[c][u]
    BY <1>6 DEF TellAll, Leave
  <2>2. posted[c] = "message"
    BY <2>1 DEF ReachInv, ReachOf
  <2>3. ReachInv'
    <3>1. ASSUME NEW e \in Calls \ {c} PROVE ReachOf(e)'
      BY <1>2, <2>1 DEF ReachInv, ReachOf, MarkPlaces
    <3>2. ReachOf(c)'
      BY <2>1, <2>2, NoticesAssumption DEF ReachInv, ReachOf, MarkPlaces
    <3> QED BY <3>1, <3>2 DEF ReachInv
  <2>4. MessagesReach'
    <3>1. ASSUME NEW e \in Calls, NEW u \in Users, posted'[e] = "message"
          PROVE  notice'[e][u] # Null <=>
                   \/ <<e, u>> \in told'
                   \/ u \in reach'[e] /\ pc'[e] # "telling" /\ e \notin halted'
      <4>1. CASE e = c
        <5>1. c \notin halted
          BY <2>1 DEF ReachInv, ReachOf
        <5>2. notice[c][u] # Null <=> <<c, u>> \in told
          BY <2>1, <2>2 DEF MessagesReach
        <5> QED BY <2>1, <4>1, <5>1, <5>2, NoticesAssumption
      <4>2. CASE e # c
        BY <1>2, <2>1, <3>1, <4>2 DEF MessagesReach
      <4> QED BY <4>1, <4>2
    <3> QED BY <3>1 DEF MessagesReach
  <2>5. MarkedIsRead'
    BY <2>1, NoticesAssumption DEF MarkedIsRead
  <2> QED BY <2>3, <2>4, <2>5
<1>7. CASE InvitePost(c)
  <2>1. /\ pc[c] = "idle" /\ pc'[c] \in {"inviting", "done"}
        /\ UNCHANGED <<notice, mark, told, halted>>
        /\ posted' = [posted EXCEPT ![c] = "battle"]
        /\ \A d \in Calls \ {c} : reach'[d] = reach[d]
    <3>1. CASE AtOnce(c) /\ UNCHANGED reach
      BY <1>7, <3>1 DEF InvitePost, AtOnce, Leave
    <3>2. ASSUME NEW u \in Users, Begin(c, u, "inviting"), reach' = [reach EXCEPT ![c] = {u}]
          PROVE  <2>1!:
      BY <1>7, <3>2 DEF InvitePost, Begin
    <3> QED BY <1>7, <3>1, <3>2 DEF InvitePost
  <2>2. posted[c] = Null /\ \A u \in Users : notice[c][u] = Null
    BY <2>1 DEF ReachInv, ReachOf
  <2>3. \A d \in Calls : pc[d] \in MarkPlaces => mark[d] # c
    BY <2>2 DEF ReachInv, ReachOf
  <2>4. ReachInv'
    <3>1. ASSUME NEW e \in Calls \ {c} PROVE ReachOf(e)'
      BY <1>2, <1>3, <2>1, <2>3 DEF ReachInv, ReachOf, MarkPlaces
    <3>2. c \notin halted
      BY <2>1 DEF ReachInv, ReachOf
    <3>3. posted'[c] = "battle"
      BY <2>1
    <3>4. ReachOf(c)'
      BY <2>1, <2>2, <3>2, <3>3, NoticesAssumption DEF ReachOf, MarkPlaces
    <3> QED BY <3>1, <3>4 DEF ReachInv
  <2>5. MessagesReach'
    BY <1>2, <2>1, <2>2 DEF MessagesReach
  <2> QED BY <2>1, <2>4, <2>5 DEF MarkedIsRead
<1>8. CASE Invite(c)
  <2>1. /\ pc[c] = "inviting" /\ pc' = [pc EXCEPT ![c] = "done"] /\ user[c] \in Users
        /\ UNCHANGED <<posted, reach, mark, told, halted>>
        /\ \A e \in Calls, u \in Users :
             \/ notice'[e][u] = notice[e][u]
             \/ e = c /\ u = user[c] /\ notice[e][u] = Null /\ notice'[e][u] = "unread"
    BY <1>8 DEF Invite, Leave, Write, HoldsAt, UserPlaces
  <2>2. posted[c] = "battle"
    BY <2>1 DEF ReachInv, ReachOf
  <2>3. ReachInv'
    <3>1. ASSUME NEW e \in Calls \ {c} PROVE ReachOf(e)'
      BY <1>2, <2>1 DEF ReachInv, ReachOf, MarkPlaces
    <3>2. ReachOf(c)'
      BY <2>1, <2>2, NoticesAssumption DEF ReachInv, ReachOf, MarkPlaces
    <3> QED BY <3>1, <3>2 DEF ReachInv
  <2>4. MessagesReach'
    BY <1>2, <2>1, <2>2, NoticesAssumption DEF MessagesReach
  <2>5. MarkedIsRead'
    BY <2>1, NoticesAssumption DEF MarkedIsRead
  <2> QED BY <2>3, <2>4, <2>5
<1>9. CASE ReadFind(c)
  <2>1. PICK e \in Calls, u \in Users :
          /\ posted[e] # Null /\ pc[c] = "idle"
          /\ \/ notice[e][u] = "read" /\ Tell(c, e, u)
             \/ /\ Begin(c, u, IF notice[e][u] = Null THEN "opening" ELSE "updating")
                /\ mark' = [mark EXCEPT ![c] = e]
                /\ UNCHANGED told
    BY <1>9 DEF ReadFind
  <2>2. UNCHANGED <<posted, reach, notice, halted>> /\ \A d \in Calls \ {c} : mark'[d] = mark[d]
    BY <1>9, <2>1 DEF ReadFind, Tell
  <2>3. told' = told \/ (told' = told \cup {<<e, u>>} /\ notice[e][u] = "read")
    BY <2>1 DEF Tell
  <2>4. /\ pc'[c] \in MarkPlaces \cup {"done"}
        /\ pc'[c] \in MarkPlaces => user'[c] = u /\ mark'[c] = e
    BY <2>1 DEF Tell, Leave, Begin, MarkPlaces
  <2>5. ReachInv'
    <3>1. ASSUME NEW d \in Calls \ {c} PROVE ReachOf(d)'
      BY <1>2, <2>2 DEF ReachInv, ReachOf, MarkPlaces
    <3>2. ReachOf(c)'
      BY <2>1, <2>2, <2>4 DEF ReachInv, ReachOf, MarkPlaces
    <3> QED BY <3>1, <3>2 DEF ReachInv
  <2>6. MarkedIsRead'
    BY <2>2, <2>3 DEF MarkedIsRead
  <2>7. MessagesReach'
    <3>1. ASSUME NEW d \in Calls PROVE pc'[d] = "telling" <=> pc[d] = "telling"
      BY <1>2, <2>1, <2>4 DEF MarkPlaces
    <3>2. ASSUME NEW v \in Users, NEW d \in Calls, <<d, v>> \in told' PROVE notice[d][v] # Null
      BY <1>n, <2>3, <3>2, NoticesAssumption
    <3>3. told \subseteq told'
      BY <2>3
    <3> QED BY <2>2, <3>1, <3>2, <3>3 DEF MessagesReach
  <2> QED BY <2>5, <2>6, <2>7
<1>10. CASE ReadUpdate(c) \/ ReadOpen(c) \/ ReadRetry(c)
  <2> DEFINE e == mark[c]  u == user[c]
  <2>1. /\ pc[c] \in MarkPlaces /\ pc'[c] \in MarkPlaces \cup {"done"}
        /\ pc'[c] \in MarkPlaces => UNCHANGED <<user, mark>>
        /\ UNCHANGED <<posted, reach, halted>> /\ \A d \in Calls \ {c} : mark'[d] = mark[d]
    BY <1>10 DEF ReadUpdate, ReadOpen, ReadRetry, Tell, Leave, Continue, MarkPlaces
  <2>2. e \in Calls /\ u \in Users /\ posted[e] # Null
    BY <1>3, <2>1 DEF ReachInv, ReachOf
  <2>3. \/ notice' = notice
        \/ notice' = [notice EXCEPT ![e][u] = "read"]
    BY <1>10 DEF ReadUpdate, ReadOpen, ReadRetry, Write
  <2>n. notice'[e][u] = notice[e][u] \/ <<e, u>> \in told'
    BY <1>10, <2>2 DEF ReadUpdate, ReadOpen, ReadRetry, Write, Tell
  <2>4. told' = told \/ (told' = told \cup {<<e, u>>} /\ notice'[e][u] = "read")
    BY <1>10, <2>2 DEF ReadUpdate, ReadOpen, ReadRetry, Write, Tell
  <2>5. /\ notice'[e][u] = "read" \/ notice'[e][u] = notice[e][u]
        /\ \A f \in Calls, v \in Users : notice'[f][v] = notice[f][v] \/ (f = e /\ v = u)
    BY <2>2, <2>3
  <2> HIDE DEF e, u
  <2>6. ReachInv'
    <3>1. ASSUME NEW d \in Calls \ {c} PROVE ReachOf(d)'
      BY <1>2, <2>1, <2>2, <2>5 DEF ReachInv, ReachOf, MarkPlaces
    <3>2. ReachOf(c)'
      BY <2>1, <2>2, <2>5 DEF ReachInv, ReachOf, MarkPlaces
    <3> QED BY <3>1, <3>2 DEF ReachInv
  <2>7. MarkedIsRead'
    BY <2>2, <2>4, <2>5 DEF MarkedIsRead
  <2>8. MessagesReach'
    <3>1. ASSUME NEW d \in Calls PROVE pc'[d] = "telling" <=> pc[d] = "telling"
      BY <1>2, <2>1 DEF MarkPlaces
    <3>2. ASSUME NEW f \in Calls, NEW v \in Users, posted[f] = "message"
          PROVE  notice'[f][v] # Null <=>
                   \/ <<f, v>> \in told'
                   \/ v \in reach[f] /\ pc[f] # "telling" /\ f \notin halted
      <4>1. CASE f = e /\ v = u
        BY <2>n, <2>4, <2>5, <3>2, <4>1, <1>n, NoticesAssumption DEF MessagesReach
      <4>2. CASE ~(f = e /\ v = u)
        <5>1. notice'[f][v] = notice[f][v] /\ (<<f, v>> \in told' <=> <<f, v>> \in told)
          BY <2>4, <2>5, <4>2
        <5> QED BY <3>2, <5>1 DEF MessagesReach
      <4> QED BY <4>1, <4>2
    <3> QED BY <2>1, <3>1, <3>2 DEF MessagesReach
  <2> QED BY <2>6, <2>7, <2>8
<1> QED BY <1>4, <1>5, <1>6, <1>7, <1>8, <1>9, <1>10, NoticesStep(c) DEF NoticesStep

(***************************************************************************)
(* The devices                                                             *)
(***************************************************************************)

(* What is said of the devices. *)
DeviceInv == KeepInv /\ PushInv /\ RegisteredDeviceKept /\ PushFindsDevices

(* What a call holds of the devices. *)
DKeeps(d) ==
  /\ pc'[d] = pc[d] /\ user'[d] = user[d] /\ token'[d] = token[d] /\ row'[d] = row[d]
  /\ asked'[d] = asked[d] /\ allowed'[d] = allowed[d] /\ batch'[d] = batch[d]

(* Steps that leave the devices alone. *)
LEMMA DevicesOfOthers ==
  ASSUME TypesInv, DeviceInv, NEW c \in Calls,
         UNCHANGED deviceVars, NEW ps, Moves(c, ps), ps \cap DevicePlaces = {}
  PROVE  DeviceInv'
<1> USE DEF deviceVars, deviceTables, deviceHeld, deviceGhosts
<1>1. pc'[c] \notin DevicePlaces
  BY PlacesDiffer DEF Moves, TypesInv, CommunityTypeOK
<1>2. \A d \in Calls \ {c} : pc'[d] = pc[d] /\ user'[d] = user[d]
  BY OneMoves DEF TypesInv
<1>3. KeepInv'
  BY <1>1, <1>2 DEF DeviceInv, KeepInv, KeepOf, DevicePlaces
<1>4. PushInv' /\ PushFindsDevices'
  BY <1>1, <1>2 DEF DeviceInv, PushInv, PushFindsDevices, DevicePlaces, PushPlaces
<1>5. RegisteredDeviceKept'
  BY DEF DeviceInv, RegisteredDeviceKept
<1> QED BY <1>3, <1>4, <1>5 DEF DeviceInv

(* What a step of a call about devices leaves another call. *)
LEMMA DevicesOfOne ==
  ASSUME TypesInv, NEW c \in Calls, DevicesStep(c), NEW d \in Calls \ {c}
  PROVE  DKeeps(d)
<1> USE DEF TypesInv, CommunityTypeOK, DevicesTypeOK
<1>1. pc'[d] = pc[d] /\ user'[d] = user[d]
  <2>1. Moves(c, DevicePlaces)
    BY DevicesMove
  <2> QED BY <2>1, OneMoves
<1>2. token'[d] = token[d] /\ row'[d] = row[d]
  BY DEF DevicesStep, RegisterFind, RegisterRepoint, RegisterInsert, Registered,
         Unregister, SetPush, PushFilter, PushResolve, PushSend, PushPrune, deviceHeld
<1>3. asked'[d] = asked[d] /\ allowed'[d] = allowed[d] /\ batch'[d] = batch[d]
  BY DEF DevicesStep, RegisterFind, RegisterRepoint, RegisterInsert, Registered,
         Unregister, SetPush, PushFilter, PushResolve, PushSend, PushPrune, Sent, deviceHeld
<1> QED BY <1>1, <1>2, <1>3 DEF DKeeps

(* Pushes under way find the devices, if those that change are stirred.    *)
LEMMA PushesKept ==
  ASSUME TypesInv, DeviceInv, NEW c \in Calls, \A d \in Calls \ {c} : DKeeps(d),
         pc'[c] \notin PushPlaces, stirred \subseteq stirred',
         \A t \in Tokens : \/ t \in stirred' \/ Pushing = {}
                           \/ /\ device'[t].user = device[t].user
                              /\ device[t].user \in off <=> device[t].user \in off'
  PROVE  PushInv' /\ PushFindsDevices'
<1>1. \A d \in Calls : pc'[d] \in PushPlaces => d \in Pushing /\ DKeeps(d)
  BY DEF Pushing, DKeeps
<1>2. \A d \in Calls, t \in Tokens \ stirred' : pc'[d] \in PushPlaces =>
        /\ pc[d] = pc'[d] /\ t \notin stirred
        /\ asked'[d] = asked[d] /\ allowed'[d] = allowed[d] /\ batch'[d] = batch[d]
        /\ device'[t].user = device[t].user
        /\ device[t].user \in off <=> device[t].user \in off'
  BY <1>1 DEF DKeeps
<1>3. PushInv'
  BY <1>2 DEF DeviceInv, PushInv, PushPlaces
<1>4. PushFindsDevices'
  BY <1>2 DEF DeviceInv, PushFindsDevices, PushPlaces
<1> QED BY <1>3, <1>4

(* A device that is dropped has no row, and is cut if a registration has   *)
(* found it; the others stay.                                              *)
LEMMA DropDrops ==
  ASSUME TypesInv, NEW ts \in SUBSET Tokens, Drop(ts)
  PROVE  /\ \A t \in Tokens : device'[t] = IF t \in ts THEN NoDevice ELSE device[t]
         /\ \A t \in ts : Finding(t) # {} => t \in cut'
         /\ \A t \in Tokens \ ts : t \in cut' <=> t \in cut
         /\ cut \subseteq cut' /\ stirred \subseteq stirred'
         /\ \A t \in ts : t \in stirred' \/ Pushing = {}
BY DEF Drop, Stir, TypesInv, CommunityTypeOK, DevicesTypeOK

(* After a drop, what has been said of registrations that are under way is *)
(* so still.                                                               *)
LEMMA DropKeeps ==
  ASSUME TypesInv, DeviceInv, NEW c \in Calls, \A d \in Calls \ {c} : DKeeps(d),
         pc'[c] = "done", NEW ts \in SUBSET Tokens, Drop(ts), UNCHANGED dead
  PROVE  KeepInv'
<1>1. \A t \in Tokens : device'[t].by = Null <=> device'[t].user = Null
  BY DropDrops DEF DeviceInv, KeepInv, NoDevice
<1>2. ASSUME NEW d \in Calls \ {c} PROVE KeepOf(d)'
  <2>1. DKeeps(d) /\ KeepOf(d)
    BY DEF DeviceInv, KeepInv
  <2>2. pc[d] = "repointing" => token[d] \in Tokens /\ d \in Finding(token[d])
    BY DEF TypesInv, HoldsAt, TokenPlaces, Finding
  <2>3. pc[d] = "repointing" /\ token[d] \notin cut' =>
          token[d] \notin cut /\ device'[token[d]] = device[token[d]]
    BY <2>2, DropDrops
  <2> QED BY <2>1, <2>3 DEF DKeeps, KeepOf
<1>3. KeepOf(c)'
  BY DEF KeepOf
<1> QED BY <1>1, <1>2, <1>3 DEF KeepInv

(* Each step of a call about devices keeps what is said of them. *)
LEMMA DevicesStepKeeps ==
  ASSUME TypesInv, DeviceInv, NEW c \in Calls, DevicesStep(c)
  PROVE  DeviceInv'
<1> USE DEF TypesInv, CommunityTypeOK, DevicesTypeOK
<1>1. \A d \in Calls \ {c} : DKeeps(d)
  BY DevicesOfOne
<1>2. \A d \in Calls \ {c} : KeepOf(d) /\ HoldsAt(d)
  BY DEF DeviceInv, KeepInv
<1>3. CASE RegisterFind(c)
  <2>1. PICK t \in Tokens, u \in Users :
          \/ /\ device[t].user = u /\ AtOnce(c)
             /\ owner' = [owner EXCEPT ![t] = u]
             /\ UNCHANGED <<token, row>>
          \/ /\ Begin(c, u, IF device[t] = NoDevice THEN "registering" ELSE "repointing")
             /\ token' = [token EXCEPT ![c] = t] /\ row' = [row EXCEPT ![c] = device[t]]
             /\ UNCHANGED owner
    BY <1>3 DEF RegisterFind
  <2>2. UNCHANGED <<device, off, dead, asked, allowed, batch, cut, stirred>>
    BY <1>3 DEF RegisterFind, deviceTables
  <2>3. pc'[c] \notin PushPlaces \cup {"pruning"}
    BY <2>1 DEF AtOnce, Leave, Begin, PushPlaces
  <2>4. PushInv' /\ PushFindsDevices'
    BY <1>1, <2>2, <2>3, PushesKept
  <2>5. pc'[c] = "repointing" => /\ token'[c] = t /\ row'[c] = device[t]
                                 /\ device[t] # NoDevice
    BY <2>1 DEF AtOnce, Leave, Begin
  <2>6. device[t] # NoDevice => device[t].by # Null
    BY DEF DeviceInv, KeepInv, Device, NoDevice
  <2>7. KeepOf(c)'
    BY <2>2, <2>3, <2>5, <2>6 DEF KeepOf
  <2>8. KeepInv'
    BY <1>1, <1>2, <2>2, <2>7 DEF KeepOf, KeepInv, DKeeps, DeviceInv
  <2>9. RegisteredDeviceKept'
    BY <2>1, <2>2 DEF RegisteredDeviceKept, DeviceInv
  <2> QED BY <2>4, <2>8, <2>9 DEF DeviceInv
<1>4. CASE RegisterRepoint(c)
  <2> DEFINE t == token[c]  u == user[c]
  <2>1. pc[c] = "repointing" /\ t \in Tokens /\ u \in Users /\ c \in Finding(t) /\ KeepOf(c)
    BY <1>4 DEF RegisterRepoint, HoldsAt, UserPlaces, TokenPlaces, Finding, DeviceInv, KeepInv
  <2>2. UNCHANGED <<off, dead>> /\ owner' = [owner EXCEPT ![t] = u] /\ pc'[c] = "done"
    BY <1>4 DEF RegisterRepoint, Registered, Leave
  <2>3. \/ UNCHANGED <<device, cut, stirred>> /\ ~(device[t].by = row[c].by /\ u # row[c].user)
        \/ /\ device[t].by = row[c].by /\ u # row[c].user
           /\ device' = [device EXCEPT ![t].user = u]
           /\ cut' = IF Settling(t) # {} THEN cut \cup {t} ELSE cut
           /\ stirred' = IF Pushing = {} THEN stirred ELSE stirred \cup {t}
    BY <1>4 DEF RegisterRepoint, Stir
  <2>4. /\ \A s \in Tokens \ {t} : device'[s] = device[s]
        /\ device'[t].by = device[t].by
    BY <2>1, <2>3 DEF Device
  <2>5. device'[t].user = device[t].user \/ (device'[t].user = u /\ device[t].by = row[c].by)
    BY <2>1, <2>3 DEF Device
  <2> HIDE DEF t, u
  <2>6. PushInv' /\ PushFindsDevices'
    <3>1. pc'[c] \notin PushPlaces /\ stirred \subseteq stirred'
      BY <2>2, <2>3 DEF PushPlaces
    <3>2. \A s \in Tokens : s \in stirred' \/ Pushing = {} \/ device'[s].user = device[s].user
      BY <2>1, <2>3, <2>4
    <3> QED BY <1>1, <2>2, <3>1, <3>2, PushesKept
  <2>7. \A s \in Tokens : device'[s].by = Null <=> device'[s].user = Null
    <3>1. device[t].by = row[c].by => t \in cut \/ device[t].by # Null
      BY <2>1 DEF KeepOf, t
    <3>2. row[c].by # Null
      BY <2>1 DEF KeepOf
    <3> QED BY <2>1, <2>4, <2>5, <3>2, RequestsAssumption DEF DeviceInv, KeepInv
  <2>8. ASSUME NEW d \in Calls \ {c} PROVE KeepOf(d)'
    <3>1. pc[d] = "repointing" => token[d] \in Tokens
      BY <1>2 DEF HoldsAt, TokenPlaces
    <3>2. pc[d] = "repointing" /\ token[d] = t /\ user[d] = row[d].user => d \in Settling(t)
      BY DEF Settling, Finding
    <3>3. cut \subseteq cut'
      BY <2>3
    <3>4. \A s \in Tokens : device'[s].by = device[s].by
      BY <2>4
    <3>5. pc[d] = "repointing" /\ user[d] = row[d].user /\ token[d] \notin cut' =>
            device'[token[d]].user = device[token[d]].user
      BY <2>1, <2>3, <2>4, <3>1, <3>2
    <3> QED BY <1>1, <1>2, <2>2, <3>1, <3>3, <3>4, <3>5 DEF DKeeps, KeepOf
  <2>9. KeepInv'
    BY <2>2, <2>7, <2>8 DEF KeepInv, KeepOf
  <2>10. RegisteredDeviceKept'
    <3>1. ASSUME NEW s \in Tokens \ (cut' \cup dead') PROVE device'[s].user = owner'[s]
      <4>1. s \notin cut /\ s \notin dead
        BY <2>2, <2>3, <3>1
      <4>2. CASE s # t
        BY <2>1, <2>2, <2>4, <4>1, <4>2 DEF DeviceInv, RegisteredDeviceKept
      <4>3. CASE s = t
        <5>1. owner'[t] = u
          BY <2>1, <2>2
        <5>2. device[t].by = row[c].by /\ (u = row[c].user => device[t].user = u)
          BY <2>1, <4>1, <4>3 DEF KeepOf, t, u
        <5>3. device'[t].user = u
          BY <2>1, <2>3, <5>2 DEF Device
        <5> QED BY <4>3, <5>1, <5>3
      <4> QED BY <4>2, <4>3
    <3> QED BY <3>1 DEF RegisteredDeviceKept
  <2> QED BY <2>6, <2>9, <2>10 DEF DeviceInv
<1>5. CASE RegisterInsert(c)
  <2> DEFINE t == token[c]  u == user[c]
  <2>1. pc[c] = "registering" /\ t \in Tokens /\ u \in Users
    BY <1>5 DEF RegisterInsert, HoldsAt, UserPlaces, TokenPlaces
  <2>2. UNCHANGED <<off, dead, cut>> /\ pc'[c] = "done"
    BY <1>5 DEF RegisterInsert, Registered, Leave
  <2>3. \/ UNCHANGED <<device, owner, stirred>>
        \/ /\ device[t] = NoDevice
           /\ device' = [device EXCEPT ![t] = [user |-> u, by |-> c]]
           /\ owner' = [owner EXCEPT ![t] = u]
           /\ stirred' = IF Pushing = {} THEN stirred ELSE stirred \cup {t}
    BY <1>5 DEF RegisterInsert, Stir
  <2> HIDE DEF t, u
  <2>4. CASE UNCHANGED <<device, owner, stirred>>
    <3>1. PushInv' /\ PushFindsDevices'
      BY <1>1, <2>2, <2>4, PushesKept DEF PushPlaces
    <3>2. KeepInv'
      BY <1>1, <1>2, <2>2, <2>4 DEF KeepInv, KeepOf, DKeeps, DeviceInv
    <3> QED BY <2>2, <2>4, <3>1, <3>2 DEF DeviceInv, RegisteredDeviceKept
  <2>5. CASE device[t] = NoDevice /\ device' = [device EXCEPT ![t] = [user |-> u, by |-> c]]
               /\ owner' = [owner EXCEPT ![t] = u]
               /\ stirred' = IF Pushing = {} THEN stirred ELSE stirred \cup {t}
    <3>1. /\ \A s \in Tokens \ {t} : device'[s] = device[s]
          /\ device'[t].user = u /\ device'[t].by = c /\ device[t].by = Null
      BY <2>1, <2>5 DEF NoDevice
    <3>2. PushInv' /\ PushFindsDevices'
      <4>1. pc'[c] \notin PushPlaces /\ stirred \subseteq stirred'
        BY <2>2, <2>5 DEF PushPlaces
      <4>2. \A s \in Tokens : s \in stirred' \/ Pushing = {} \/ device'[s].user = device[s].user
        BY <2>1, <2>5, <3>1
      <4> QED BY <1>1, <2>2, <4>1, <4>2, PushesKept
    <3>3. \A s \in Tokens : device'[s].by = Null <=> device'[s].user = Null
      BY <2>1, <3>1, RequestsAssumption DEF DeviceInv, KeepInv
    <3>4. ASSUME NEW d \in Calls \ {c} PROVE KeepOf(d)'
      <4>1. pc[d] = "repointing" => token[d] \in Tokens
        BY <1>2 DEF HoldsAt, TokenPlaces
      <4>2. pc[d] = "repointing" /\ token[d] \notin cut => token[d] # t
        BY <1>2, <3>1 DEF KeepOf
      <4> QED BY <1>1, <1>2, <2>2, <3>1, <4>1, <4>2 DEF DKeeps, KeepOf
    <3>5. KeepInv'
      BY <2>2, <3>3, <3>4 DEF KeepInv, KeepOf
    <3>6. RegisteredDeviceKept'
      BY <2>1, <2>2, <2>5, <3>1 DEF RegisteredDeviceKept, DeviceInv
    <3> QED BY <3>2, <3>5, <3>6 DEF DeviceInv
  <2> QED BY <2>3, <2>4, <2>5
<1>6. CASE Unregister(c)
  <2>1. PICK t \in Tokens : Drop({t}) /\ owner' = [owner EXCEPT ![t] = Null]
    BY <1>6 DEF Unregister
  <2>2. UNCHANGED <<off, dead>> /\ pc'[c] = "done"
    BY <1>6 DEF Unregister, AtOnce, Leave
  <2>3. /\ \A s \in Tokens : device'[s] = IF s \in {t} THEN NoDevice ELSE device[s]
        /\ cut \subseteq cut' /\ stirred \subseteq stirred'
        /\ \A s \in {t} : s \in stirred' \/ Pushing = {}
    BY <2>1, DropDrops
  <2>4. PushInv' /\ PushFindsDevices'
    BY <1>1, <2>2, <2>3, PushesKept DEF PushPlaces
  <2>5. KeepInv'
    BY <1>1, <2>1, <2>2, DropKeeps
  <2>6. RegisteredDeviceKept'
    BY <2>1, <2>2, <2>3 DEF RegisteredDeviceKept, DeviceInv, NoDevice
  <2> QED BY <2>4, <2>5, <2>6 DEF DeviceInv
<1>7. CASE SetPush(c)
  <2>1. PICK u \in Users : /\ off' = IF u \in off THEN off \ {u} ELSE off \cup {u}
                           /\ Stir({t \in Tokens : device[t].user = u})
    BY <1>7 DEF SetPush
  <2>2. /\ UNCHANGED <<device, dead, owner, cut, token, row, asked, allowed, batch>>
        /\ pc'[c] = "done"
    BY <1>7 DEF SetPush, AtOnce, Leave, deviceHeld
  <2>3. PushInv' /\ PushFindsDevices'
    BY <1>1, <2>1, <2>2, PushesKept DEF PushPlaces, Stir
  <2>4. KeepInv'
    BY <1>1, <1>2, <2>2 DEF KeepInv, KeepOf, DKeeps, DeviceInv
  <2> QED BY <2>2, <2>3, <2>4 DEF DeviceInv, RegisteredDeviceKept
<1>8. CASE PushFilter(c) \/ PushResolve(c) \/ PushSend(c)
  <2>1. UNCHANGED <<device, off, dead, token, row, owner, cut, stirred>>
    BY <1>8 DEF PushFilter, PushResolve, PushSend, deviceTables, deviceGhosts
  <2>2. pc'[c] \in {"resolving", "sending", "pruning", "done"}
    BY <1>8 DEF PushFilter, PushResolve, PushSend, Begin, Continue, Sent, Leave
  <2>3. pc'[c] = "pruning" => batch'[c] \subseteq dead
    BY <1>8 DEF PushFilter, PushResolve, PushSend, Begin, Continue, Sent, Leave
  <2>4. KeepInv'
    BY <1>1, <1>2, <2>1, <2>2, <2>3 DEF KeepInv, KeepOf, DKeeps, DeviceInv
  <2>5. \A d \in Calls \ {c}, t \in Tokens \ stirred :
          /\ pc'[d] = "resolving" =>
               (device'[t].user \in allowed'[d] <=> device'[t].user \in asked'[d] \ off')
          /\ pc'[d] = "sending" => (t \in batch'[d] <=> device'[t].user \in asked'[d] \ off')
    BY <1>1, <2>1 DEF DKeeps, DeviceInv, PushInv, PushFindsDevices
  <2>6. ASSUME NEW t \in Tokens \ stirred
        PROVE  /\ pc'[c] = "resolving" =>
                    (device[t].user \in allowed'[c] <=> device[t].user \in asked'[c] \ off)
               /\ pc'[c] = "sending" => (t \in batch'[c] <=> device[t].user \in asked'[c] \ off)
    <3>1. CASE PushFilter(c)
      BY <3>1 DEF PushFilter, Begin
    <3>2. CASE PushResolve(c)
      BY <3>2 DEF PushResolve, Continue, Sent, Leave, DeviceInv, PushInv
    <3>3. CASE PushSend(c)
      BY <3>3 DEF PushSend, Continue, Sent, Leave
    <3> QED BY <1>8, <3>1, <3>2, <3>3
  <2>7. PushInv' /\ PushFindsDevices'
    BY <2>1, <2>5, <2>6 DEF PushInv, PushFindsDevices
  <2> QED BY <2>1, <2>4, <2>7 DEF DeviceInv, RegisteredDeviceKept
<1>9. CASE PushPrune(c)
  <2>1. Drop(batch[c]) /\ pc'[c] = "done" /\ UNCHANGED <<off, dead, owner>>
    BY <1>9 DEF PushPrune, Sent, Leave
  <2>2. batch[c] \subseteq dead /\ batch[c] \in SUBSET Tokens
    BY <1>9 DEF PushPrune, DeviceInv, KeepInv, KeepOf
  <2>3. /\ \A s \in Tokens : device'[s] = IF s \in batch[c] THEN NoDevice ELSE device[s]
        /\ cut \subseteq cut' /\ stirred \subseteq stirred'
        /\ \A s \in batch[c] : s \in stirred' \/ Pushing = {}
    BY <2>1, <2>2, DropDrops
  <2>4. PushInv' /\ PushFindsDevices'
    BY <1>1, <2>1, <2>3, PushesKept DEF PushPlaces
  <2>5. KeepInv'
    BY <1>1, <2>1, <2>2, DropKeeps
  <2>6. RegisteredDeviceKept'
    BY <2>1, <2>2, <2>3 DEF RegisteredDeviceKept, DeviceInv
  <2> QED BY <2>4, <2>5, <2>6 DEF DeviceInv
<1> QED BY <1>3, <1>4, <1>5, <1>6, <1>7, <1>8, <1>9, DevicesStep(c) DEF DevicesStep

(***************************************************************************)
(* The theorems                                                            *)
(***************************************************************************)

IInv ==
  /\ TypesInv
  /\ CountInv /\ HalfInv
  /\ ReachInv /\ MarkedIsRead /\ MessagesReach
  /\ DeviceInv

(* The invariant holds initially. *)
LEMMA Initial == Init => IInv
<1> SUFFICES ASSUME Init PROVE IInv
  OBVIOUS
<1> USE DEF Init, CrewsInit, NoticesInit, DevicesInit
<1>1. CrewsTypeOK
  BY DEF CrewsTypeOK, Chat, NoChat, Status
<1>2. NoticesTypeOK
  BY DEF NoticesTypeOK
<1>3. \A t \in Tokens : /\ owner[t] = Null => device[t] = NoDevice
                        /\ owner[t] # Null => device[t] = [user |-> owner[t], by |-> Earlier]
  OBVIOUS
<1>4. DevicesTypeOK
  BY DEF DevicesTypeOK, Device, NoDevice
<1>5. TypesInv
  BY <1>1, <1>2, <1>4 DEF TypesInv, CommunityTypeOK, Places, HoldsAt, UserPlaces, MarkPlaces,
                          TokenPlaces
<1>6. Readers = {}
  BY DEF Readers, ReadPlaces
<1>7. CountInv /\ HalfInv
  BY <1>6 DEF CountInv, HalfInv, NoChat
<1>8. ReachInv
  BY NoticesAssumption DEF ReachInv, ReachOf, MarkPlaces
<1>9. MarkedIsRead
  BY DEF MarkedIsRead
<1>10. MessagesReach
  BY NoticesAssumption DEF MessagesReach
<1>11. KeepInv
  BY <1>3, DevicesAssumption DEF KeepInv, KeepOf, NoDevice
<1>12. PushInv /\ PushFindsDevices
  BY DEF PushInv, PushFindsDevices
<1>13. RegisteredDeviceKept
  BY <1>3 DEF RegisteredDeviceKept, NoDevice
<1> QED BY <1>5, <1>7, <1>8, <1>9, <1>10, <1>11, <1>12, <1>13 DEF IInv, DeviceInv

(* A call that stops leaves what is said of notices and devices. *)
LEMMA StopKeeps ==
  ASSUME IInv, NEW c \in Calls, Stop(c)
  PROVE  ReachInv' /\ MarkedIsRead' /\ MessagesReach' /\ DeviceInv'
<1> USE DEF IInv, TypesInv, CommunityTypeOK, NoticesTypeOK, DevicesTypeOK
<1>1. pc' = [pc EXCEPT ![c] = "done"] /\ user' = [user EXCEPT ![c] = Null]
  BY StopMove
<1>2. \A d \in Calls \ {c} : DKeeps(d) /\ mark'[d] = mark[d]
  BY <1>1 DEF Stop, DKeeps
<1>3. UNCHANGED <<posted, reach, notice, told, device, off, dead, owner, cut, stirred>>
  BY DEF Stop, deviceTables, deviceGhosts
<1>4. halted' = IF pc[c] = "telling" THEN halted \cup {c} ELSE halted
  BY DEF Stop
<1>5. ReachInv'
  <2>1. ASSUME NEW d \in Calls \ {c} PROVE ReachOf(d)'
    <3>1. d \in halted' => d \in halted
      BY <1>4
    <3> QED BY <1>2, <1>3, <3>1 DEF ReachInv, ReachOf, DKeeps, MarkPlaces
  <2>2. pc'[c] = "done"
    BY <1>1
  <2>3. c \in halted' => posted[c] = "message"
    BY <1>4 DEF ReachInv, ReachOf
  <2>4. ReachOf(c)'
    BY <1>3, <2>2, <2>3 DEF ReachInv, ReachOf, MarkPlaces
  <2> QED BY <2>1, <2>4 DEF ReachInv
<1>6. MessagesReach'
  BY <1>1, <1>2, <1>3, <1>4 DEF MessagesReach, DKeeps
<1>7. MarkedIsRead' /\ RegisteredDeviceKept'
  BY <1>3 DEF MarkedIsRead, RegisteredDeviceKept, DeviceInv
<1>8. KeepInv'
  BY <1>1, <1>2, <1>3 DEF KeepInv, KeepOf, DKeeps, DeviceInv
<1>9. PushInv' /\ PushFindsDevices'
  BY <1>1, <1>2, <1>3, PushesKept DEF PushPlaces
<1> QED BY <1>5, <1>6, <1>7, <1>8, <1>9 DEF DeviceInv

(* Every step keeps the invariant. *)
LEMMA Inductive == IInv /\ [Next]_vars => IInv'
<1> SUFFICES ASSUME IInv, [Next]_vars PROVE IInv'
  OBVIOUS
<1> DEFINE Rest == ReachInv /\ MarkedIsRead /\ MessagesReach /\ DeviceInv
<1>1. TypesInv' /\ CountInv' /\ HalfInv'
  BY TypesStep, CountInvariant DEF IInv
<1>2. ASSUME UNCHANGED <<requests, noticeVars, device, off, deviceHeld, deviceGhosts>>,
             dead \subseteq dead'
      PROVE  Rest'
  <2> USE <1>2 DEF requests, noticeVars, deviceHeld, deviceGhosts, IInv, DeviceInv
  <2>1. ReachInv'
    BY DEF ReachInv, ReachOf
  <2>2. MarkedIsRead' /\ MessagesReach'
    BY DEF MarkedIsRead, MessagesReach
  <2>3. KeepInv'
    BY DEF KeepInv, KeepOf
  <2>4. PushInv' /\ PushFindsDevices' /\ RegisteredDeviceKept'
    BY DEF PushInv, PushFindsDevices, RegisteredDeviceKept
  <2> QED BY <2>1, <2>2, <2>3, <2>4
<1>3. ASSUME UNCHANGED vars \/ (Expire /\ UNCHANGED <<requests, crewVars, noticeVars>>)
      PROVE  Rest'
  <2>1. /\ UNCHANGED <<requests, noticeVars, device, off, deviceHeld, deviceGhosts>>
        /\ dead \subseteq dead'
    BY <1>3 DEF Expire, vars, deviceVars, deviceTables
  <2> QED BY <1>2, <2>1
<1>4. ASSUME NEW c \in Calls, CrewsStep(c), UNCHANGED <<noticeVars, deviceVars>> PROVE Rest'
  <2>1. Moves(c, CrewPlaces)
    BY <1>4, CrewsMove DEF IInv, TypesInv
  <2>2. /\ CrewPlaces \cap (NoticePlaces \cup DevicePlaces) = {}
        /\ {"idle", "done"} \cap CrewPlaces = {}
    BY PlacesDiffer
  <2>3. ReachInv' /\ MarkedIsRead' /\ MessagesReach'
    BY <1>4, <2>1, <2>2, NoticesOfOthers DEF IInv
  <2>4. DeviceInv'
    BY <1>4, <2>1, <2>2, DevicesOfOthers DEF IInv
  <2> QED BY <2>3, <2>4
<1>5. ASSUME NEW c \in Calls, NoticesStep(c), UNCHANGED <<crewVars, deviceVars>> PROVE Rest'
  <2>1. Moves(c, NoticePlaces)
    BY <1>5, NoticesMove DEF IInv, TypesInv
  <2>2. NoticePlaces \cap DevicePlaces = {}
    BY PlacesDiffer
  <2>3. ReachInv' /\ MarkedIsRead' /\ MessagesReach'
    BY <1>5, NoticesStepKeeps DEF IInv
  <2>4. DeviceInv'
    BY <1>5, <2>1, <2>2, DevicesOfOthers DEF IInv
  <2> QED BY <2>3, <2>4
<1>6. ASSUME NEW c \in Calls, DevicesStep(c), UNCHANGED <<crewVars, noticeVars>> PROVE Rest'
  <2>1. Moves(c, DevicePlaces)
    BY <1>6, DevicesMove DEF IInv, TypesInv
  <2>2. DevicePlaces \cap NoticePlaces = {} /\ {"idle", "done"} \cap DevicePlaces = {}
    BY PlacesDiffer
  <2>3. ReachInv' /\ MarkedIsRead' /\ MessagesReach'
    BY <1>6, <2>1, <2>2, NoticesOfOthers DEF IInv
  <2>4. DeviceInv'
    BY <1>6, DevicesStepKeeps DEF IInv
  <2> QED BY <2>3, <2>4
<1>7. ASSUME NEW c \in Calls, Stop(c) PROVE Rest'
  BY <1>7, StopKeeps
<1> HIDE DEF Rest
<1>8. Rest'
  BY ONLY <1>3, <1>4, <1>5, <1>6, <1>7, NextCases, [Next]_vars
<1> QED BY <1>1, <1>8 DEF IInv, Rest

(* The invariant holds always. *)
LEMMA Always == Spec => []IInv
BY Initial, Inductive, PTL DEF Spec

(* Every variable keeps its type, whatever calls of the community run. *)
THEOREM CommunityTypeCorrect == Spec => []CommunityTypeOK
<1>1. IInv => CommunityTypeOK
  BY DEF IInv, TypesInv
<1> QED BY <1>1, Always, PTL

(* Unless readers overlapped, a message's readCount is the number of the   *)
(* reads that were saved, for any number of readers and members; and it    *)
(* never exceeds that.                                                     *)
THEOREM ReadsAreCounted == Spec => []ReadsCounted
<1>1. IInv => ReadsCounted
  BY DEF IInv, CountInv, ReadsCounted
<1> QED BY <1>1, Always, PTL

(* Unless an update sets it, a message's status is READ if, and only if,   *)
(* markAsRead has found half of the members to have read it, however       *)
(* readers overlap.                                                        *)
THEOREM ReadOnceHalved == Spec => []ReadWhenHalved
<1>1. IInv => ReadWhenHalved
  BY DEF IInv, HalfInv, ReadWhenHalved
<1> QED BY <1>1, Always, PTL

(* What markAsRead has told a user to be read is read from then on.        *)
THEOREM MarkedStaysRead == Spec => []MarkedIsRead
<1>1. IInv => MarkedIsRead
  BY DEF IInv
<1> QED BY <1>1, Always, PTL

(* Once its call is through, a tutor's message is listed for all its       *)
(* recipients, whoever marks it meanwhile, or, if the call stopped before, *)
(* for none of them; beyond these it is listed only for who marked it.     *)
THEOREM MessagesDoReach == Spec => []MessagesReach
<1>1. IInv => MessagesReach
  BY DEF IInv
<1> QED BY <1>1, Always, PTL

(* A device stays with the user who was last told that it is registered,   *)
(* but for the provider, and registrations that found a row that changed.  *)
THEOREM DevicesAreKept == Spec => []RegisteredDeviceKept
<1>1. IInv => RegisteredDeviceKept
  BY DEF IInv, DeviceInv
<1> QED BY <1>1, Always, PTL

(* A push goes to the devices of those who have push on, and to no others, *)
(* but for the devices that changed under way.                             *)
THEOREM PushesFindDevices == Spec => []PushFindsDevices
<1>1. IInv => PushFindsDevices
  BY DEF IInv, DeviceInv
<1> QED BY <1>1, Always, PTL
=============================================================================
