------------------------------ MODULE Notices -------------------------------
(***************************************************************************)
(* What users are notified of: a tutor's messages and invitations to       *)
(* battles; and which of these they have read.                             *)
(*                                                                         *)
(*   messages/services/tutor-message.service.ts     create                 *)
(*   v1-battle/controllers/v1-battle.controller.ts  create                 *)
(*   notification-tracking/services/notification-read.service.ts           *)
(*   notification-tracking/services/notification-aggregator.service.ts     *)
(*   notification-tracking/models/notification-recipient.model.ts          *)
(*                                           entity and user: unique       *)
(*                                                                         *)
(* A message or a battle goes by the call that posts it.  TutorMessage has *)
(* many NotificationTracking by entityId, without constraints: false, so   *)
(* that a table made from the models has a foreign key there which refuses *)
(* battles; a table that was made before may have none.                    *)
(***************************************************************************)
EXTENDS Requests

ASSUME NoticesAssumption == Null \notin {"unread", "read", "message", "battle"}

VARIABLES
  takes,    \* the kinds of entities that the table of notices takes
  posted,   \* of each call: what it has posted, message or battle
  reach,    \* the users it has resolved, or the battle's opponent
  notice,   \* of each posted entity: each user's row, unread or read
  mark,     \* the entity a reader marks
  told,     \* history: readers who were told that they have read it
  halted    \* history: calls that stopped after the message was stored

noticeVars == <<takes, posted, reach, notice, mark, told, halted>>

NoticePlaces == {"storing", "telling", "inviting", "updating", "opening", "retrying"}

NoticesTypeOK ==
  /\ takes \in {{"message"}, {"message", "battle"}}
  /\ posted \in [Calls -> {"message", "battle", Null}]
  /\ reach \in [Calls -> SUBSET Users]
  /\ notice \in [Calls -> [Users -> {"unread", "read", Null}]]
  /\ mark \in [Calls -> Calls \cup {Null}]
  /\ told \subseteq Calls \X Users
  /\ halted \subseteq Calls

NoticesInit ==
  /\ takes \in {{"message"}, {"message", "battle"}}
  /\ posted = [c \in Calls |-> Null]
  /\ reach = [c \in Calls |-> {}]
  /\ notice = [c \in Calls |-> [u \in Users |-> Null]]
  /\ mark = [c \in Calls |-> Null]
  /\ told = {} /\ halted = {}

Write(e, u, r) == notice' = [notice EXCEPT ![e][u] = r]

(***************************************************************************)
(* create of a tutor's message                                             *)
(***************************************************************************)

(* The recipients are resolved; none at all is refused. *)
TellResolve(c) ==
  /\ Begin(c, Null, "storing")
  /\ \E us \in (SUBSET Users) \ {{}} : reach' = [reach EXCEPT ![c] = us]
  /\ UNCHANGED <<takes, posted, notice, mark, told, halted>>

TellStore(c) ==
  /\ pc[c] = "storing"
  /\ posted' = [posted EXCEPT ![c] = "message"]
  /\ Continue(c, "telling")
  /\ UNCHANGED <<takes, reach, notice, mark, told, halted>>

(* Mutant: without ignoreDuplicates, one recipient's row refuses them all. *)
TellAllOrNobody(c) ==
  /\ pc[c] = "telling"
  /\ notice' = IF \E u \in reach[c] : notice[c][u] # Null THEN notice
               ELSE [notice EXCEPT ![c] =
                      [u \in Users |-> IF u \in reach[c] THEN "unread" ELSE @[u]]]
  /\ Leave(c)
  /\ UNCHANGED <<takes, posted, reach, mark, told, halted>>

(* One row for each recipient who has none: who has marked the message by  *)
(* now has one, and keeps it.                                              *)
TellAll(c) ==
  /\ pc[c] = "telling"
  /\ notice' = [notice EXCEPT ![c] =
       [u \in Users |-> IF u \in reach[c] /\ @[u] = Null THEN "unread" ELSE @[u]]]
  /\ Leave(c)
  /\ UNCHANGED <<takes, posted, reach, mark, told, halted>>

(***************************************************************************)
(* create of a battle                                                      *)
(***************************************************************************)

(* The battle is inserted, with an opponent or without. *)
InvitePost(c) ==
  /\ posted' = [posted EXCEPT ![c] = "battle"]
  /\ \/ AtOnce(c) /\ UNCHANGED reach
     \/ \E u \in Users : /\ Begin(c, u, "inviting")
                         /\ reach' = [reach EXCEPT ![c] = {u}]
  /\ UNCHANGED <<takes, notice, mark, told, halted>>

(* createNotification: refused by the foreign key, or if the opponent has  *)
(* read it already.                                                        *)
Invite(c) ==
  /\ pc[c] = "inviting"
  /\ IF notice[c][user[c]] = Null /\ "battle" \in takes
     THEN Write(c, user[c], "unread") ELSE UNCHANGED notice
  /\ Leave(c)
  /\ UNCHANGED <<takes, posted, reach, mark, told, halted>>

(***************************************************************************)
(* markAsRead                                                              *)
(***************************************************************************)

(* The reader is told that the notice is read. *)
Tell(c, e, u) ==
  /\ told' = told \cup {<<e, u>>}
  /\ Leave(c)
  /\ mark' = [mark EXCEPT ![c] = Null]

(* The reader's row is looked up.  Any user may mark any entity that is    *)
(* posted, and by that gets a row: nobody asks if it was meant for them.   *)
ReadFind(c) ==
  /\ pc[c] = "idle"
  /\ \E e \in Calls, u \in Users :
       /\ posted[e] # Null
       /\ \/ /\ notice[e][u] = "read"
             /\ Tell(c, e, u)
          \/ /\ notice[e][u] # "read"
             /\ Begin(c, u, IF notice[e][u] = Null THEN "opening" ELSE "updating")
             /\ mark' = [mark EXCEPT ![c] = e]
             /\ UNCHANGED told
  /\ UNCHANGED <<takes, posted, reach, notice, halted>>

(* The row that was found is set to read. *)
ReadUpdate(c) ==
  /\ pc[c] = "updating"
  /\ Write(mark[c], user[c], "read")
  /\ Tell(c, mark[c], user[c])
  /\ UNCHANGED <<takes, posted, reach, halted>>

(* A row is inserted; or there is one by now; or the foreign key refuses.  *)
ReadOpen(c) ==
  /\ pc[c] = "opening"
  /\ LET e == mark[c]  u == user[c] IN
       \/ /\ notice[e][u] = Null /\ posted[e] \in takes
          /\ Write(e, u, "read")
          /\ Tell(c, e, u)
       \/ /\ notice[e][u] # Null
          /\ Continue(c, "retrying")
          /\ UNCHANGED <<notice, mark, told>>
       \/ /\ notice[e][u] = Null /\ posted[e] \notin takes
          /\ Leave(c)
          /\ mark' = [mark EXCEPT ![c] = Null]
          /\ UNCHANGED <<notice, told>>
  /\ UNCHANGED <<takes, posted, reach, halted>>

(* Mutant: the row of the other request is taken to be read. *)
ReadTrust(c) ==
  /\ pc[c] = "retrying"
  /\ Tell(c, mark[c], user[c])
  /\ UNCHANGED <<takes, posted, reach, notice, halted>>

(* The row that another request has created is looked up, and set to read  *)
(* if it is not.                                                           *)
ReadRetry(c) ==
  /\ pc[c] = "retrying"
  /\ IF notice[mark[c]][user[c]] = "read"
     THEN Tell(c, mark[c], user[c])
     ELSE Continue(c, "updating") /\ UNCHANGED <<mark, told>>
  /\ UNCHANGED <<takes, posted, reach, notice, halted>>

NoticesStep(c) ==
  \/ TellResolve(c) \/ TellStore(c) \/ TellAll(c)
  \/ InvitePost(c) \/ Invite(c)
  \/ ReadFind(c) \/ ReadUpdate(c) \/ ReadOpen(c) \/ ReadRetry(c)

(* Who was told to have read a notice finds it read from then on: neither  *)
(* a rival for its row nor the row's late creation sets it back.           *)
MarkedIsRead ==
  \A e \in Calls, u \in Users : <<e, u>> \in told => notice[e][u] = "read"

(* A message is listed for who has a row: those who marked it themselves,  *)
(* and, once its call is through, all its recipients, though some marked   *)
(* it while it was being told.  A call that stops before has told nobody:  *)
(* never a part of the recipients; and nobody else is ever told.           *)
MessagesReach ==
  \A e \in Calls, u \in Users : posted[e] = "message" =>
    (notice[e][u] # Null <=>
       \/ <<e, u>> \in told
       \/ u \in reach[e] /\ pc[e] # "telling" /\ e \notin halted)
=============================================================================
