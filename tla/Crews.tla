------------------------------- MODULE Crews --------------------------------
(***************************************************************************)
(* A study crew, its members, and a message of its chat with the count of  *)
(* those who have read it.                                                 *)
(*                                                                         *)
(*   study-crew/services/group.service.ts        GroupsService             *)
(*   study-crew/controllers/group.controller.ts  create                    *)
(*   study-crew/services/group-chats.service.ts  GroupChatsService         *)
(*   study-crew/models/user-group.model.ts       user and crew: unique     *)
(*                                                                         *)
(* One crew and one message stand for all: every query is keyed by one.    *)
(* Memberships go with their crew; messages do not refer to it, and stay.  *)
(***************************************************************************)
EXTENDS Requests

VARIABLES
  crew,     \* none, live, gone
  member,   \* users_groups: the status of each user's row
  chat,     \* the message: its state, readCount, and status
  held,     \* the message as a reader has read it
  total,    \* the members it has counted
  reads,    \* history: how many reads were saved
  crossed,  \* history: readers who began while another was under way
  halved,   \* history: readers who saved, having counted half of the members
  patched   \* history: updates of the status

crewTables == <<crew, member, chat>>
crewGhosts == <<reads, crossed, halved, patched>>
crewVars   == <<crewTables, held, total, crewGhosts>>

Status == {"ACCEPTED", "DECLINED", "PENDING"}
Chat   == [state : {"none", "live", "gone"}, count : Nat, status : {"READ", "UNREAD"}]
NoChat == [state |-> "none", count |-> 0, status |-> "UNREAD"]

ReadPlaces == {"counting", "marking"}
CrewPlaces == {"owning"} \cup ReadPlaces

CrewsTypeOK ==
  /\ crew \in {"none", "live", "gone"}
  /\ member \in [Users -> Status \cup {Null}]
  /\ chat \in Chat
  /\ held \in [Calls -> Chat]
  /\ total \in [Calls -> Nat]
  /\ reads \in Nat
  /\ crossed \subseteq Calls /\ halved \subseteq Calls /\ patched \subseteq Calls

(* There may be a crew already, with accepted members and a message. *)
CrewsInit ==
  /\ \E accepted \in SUBSET Users :
       /\ crew \in {"none", "live"}
       /\ accepted # {} => crew = "live"
       /\ member = [u \in Users |-> IF u \in accepted THEN "ACCEPTED" ELSE Null]
  /\ chat = [NoChat EXCEPT !.state = crew]
  /\ held = [c \in Calls |-> NoChat]
  /\ total = [c \in Calls |-> 0]
  /\ reads = 0 /\ crossed = {} /\ halved = {} /\ patched = {}

Members == {u \in Users : member[u] # Null}

(***************************************************************************)
(* The crew and its members                                                *)
(***************************************************************************)

(* create: the crew is inserted, and then its creator's membership. *)
CrewInsert(c) ==
  /\ crew = "none"
  /\ crew' = "live"
  /\ \E u \in Users : Begin(c, u, "owning")
  /\ UNCHANGED <<member, chat, held, total, crewGhosts>>

(* Refused if somebody has added the creator meanwhile, or removed the     *)
(* crew.                                                                   *)
CrewOwn(c) ==
  /\ pc[c] = "owning"
  /\ member' = IF crew = "live" /\ member[user[c]] = Null
               THEN [member EXCEPT ![user[c]] = "ACCEPTED"] ELSE member
  /\ Leave(c)
  /\ UNCHANGED <<crew, chat, held, total, crewGhosts>>

(* linkOne, linkMany *)
Join(c) ==
  /\ AtOnce(c)
  /\ crew = "live"
  /\ \E u \in Users \ Members : member' = [member EXCEPT ![u] = "PENDING"]
  /\ UNCHANGED <<crew, chat, held, total, crewGhosts>>

(* unlinkOne, unlinkMany *)
Part(c) ==
  /\ AtOnce(c)
  /\ \E u \in Members : member' = [member EXCEPT ![u] = Null]
  /\ UNCHANGED <<crew, chat, held, total, crewGhosts>>

(* Mutant: the status that the listing of those rejected asks for is set.  *)
SetStatusRejected(c) ==
  /\ AtOnce(c)
  /\ \E u \in Members, s \in {"ACCEPTED", "REJECTED", "PENDING"} :
       member' = [member EXCEPT ![u] = s]
  /\ UNCHANGED <<crew, chat, held, total, crewGhosts>>

(* updateUserGroupStatus *)
SetStatus(c) ==
  /\ AtOnce(c)
  /\ \E u \in Members, s \in Status : member' = [member EXCEPT ![u] = s]
  /\ UNCHANGED <<crew, chat, held, total, crewGhosts>>

CrewRemove(c) ==
  /\ AtOnce(c)
  /\ crew = "live"
  /\ crew' = "gone"
  /\ member' = [u \in Users |-> Null]
  /\ UNCHANGED <<chat, held, total, crewGhosts>>

(***************************************************************************)
(* The message                                                             *)
(***************************************************************************)

(* create: whoever knows the crew's id may write, and it need not exist    *)
(* any more.                                                               *)
ChatPost(c) ==
  /\ AtOnce(c)
  /\ crew # "none" /\ chat.state = "none"
  /\ chat' = [chat EXCEPT !.state = "live"]
  /\ UNCHANGED <<crew, member, held, total, crewGhosts>>

(* update of the status *)
ChatPatch(c) ==
  /\ AtOnce(c)
  /\ chat.state = "live"
  /\ \E s \in {"READ", "UNREAD"} : chat' = [chat EXCEPT !.status = s]
  /\ patched' = patched \cup {c}
  /\ UNCHANGED <<crew, member, held, total, reads, crossed, halved>>

ChatRemove(c) ==
  /\ AtOnce(c)
  /\ chat.state = "live"
  /\ chat' = [chat EXCEPT !.state = "gone"]
  /\ UNCHANGED <<crew, member, held, total, crewGhosts>>

Readers == {c \in Calls : pc[c] \in ReadPlaces}

(* markAsRead: the message is read. *)
MarkRead(c) ==
  /\ chat.state = "live"
  /\ Begin(c, Null, "counting")
  /\ held' = [held EXCEPT ![c] = chat]
  /\ crossed' = IF Readers = {} THEN crossed ELSE crossed \cup {c}
  /\ UNCHANGED <<crewTables, total, reads, halved, patched>>

(* getTotalUsersInGroup: rows of any status, or 1 if there is none. *)
MarkCount(c) ==
  /\ pc[c] = "counting"
  /\ total' = [total EXCEPT ![c] = IF Members = {} THEN 1 ELSE Cardinality(Members)]
  /\ Continue(c, "marking")
  /\ UNCHANGED <<crewTables, held, crewGhosts>>

Half(c) == 2 * (held[c].count + 1) >= total[c]

Marked(c) ==
  /\ held' = [held EXCEPT ![c] = NoChat]
  /\ total' = [total EXCEPT ![c] = 0]
  /\ Leave(c)
  /\ UNCHANGED <<crew, member, crossed, patched>>

(* Mutant: the status that was read is saved with the count. *)
MarkSaveWhole(c) ==
  /\ pc[c] = "marking"
  /\ IF chat.state = "live"
     THEN /\ chat' = [chat EXCEPT !.count = held[c].count + 1,
                 !.status = IF Half(c) THEN "READ" ELSE held[c].status]
          /\ reads' = reads + 1
          /\ halved' = IF Half(c) THEN halved \cup {c} ELSE halved
     ELSE UNCHANGED <<chat, reads, halved>>
  /\ Marked(c)

(* Mutant: the count is only saved with the status. *)
MarkSaveStatus(c) ==
  /\ pc[c] = "marking"
  /\ IF chat.state = "live"
     THEN /\ chat' = IF Half(c)
                     THEN [chat EXCEPT !.count = held[c].count + 1, !.status = "READ"]
                     ELSE chat
          /\ reads' = reads + 1
          /\ halved' = IF Half(c) THEN halved \cup {c} ELSE halved
     ELSE UNCHANGED <<chat, reads, halved>>
  /\ Marked(c)

(* instance.save writes what differs from what was read: the count, and    *)
(* the status if it becomes READ.                                          *)
MarkSave(c) ==
  /\ pc[c] = "marking"
  /\ IF chat.state = "live"
     THEN /\ chat' = [chat EXCEPT !.count = held[c].count + 1,
                 !.status = IF held[c].status = "UNREAD" /\ Half(c) THEN "READ" ELSE @]
          /\ reads' = reads + 1
          /\ halved' = IF Half(c) THEN halved \cup {c} ELSE halved
     ELSE UNCHANGED <<chat, reads, halved>>
  /\ Marked(c)

CrewsStep(c) ==
  \/ CrewInsert(c) \/ CrewOwn(c) \/ Join(c) \/ Part(c) \/ SetStatus(c) \/ CrewRemove(c)
  \/ ChatPost(c) \/ ChatPatch(c) \/ ChatRemove(c)
  \/ MarkRead(c) \/ MarkCount(c) \/ MarkSave(c)

(* Every read that was saved is counted, and no other, whoever joins or    *)
(* leaves.  Unless two readers overlapped: then some may not be counted,   *)
(* but never too many are.                                                 *)
ReadsCounted ==
  chat.state = "live" =>
    /\ chat.count <= reads
    /\ crossed = {} => chat.count = reads

(* A message is READ once a reader has counted half of the members, and    *)
(* from then on, whichever members come and whoever else is reading it;    *)
(* and not before.  Unless an update sets the status.                      *)
ReadWhenHalved ==
  chat.state = "live" /\ patched = {} => (chat.status = "READ" <=> halved # {})
=============================================================================
