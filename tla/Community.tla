----------------------------- MODULE Community ------------------------------
(***************************************************************************)
(* What the users of the app do with one another, and are told of: study   *)
(* crews, notices, and push messages.  The three have tables of their own, *)
(* and share the server: any of its calls may be of any kind, and may end  *)
(* between two of its steps.                                               *)
(***************************************************************************)
EXTENDS Crews, Notices, Devices

vars == <<requests, crewVars, noticeVars, deviceVars>>

Places == {"idle", "done"} \cup CrewPlaces \cup NoticePlaces \cup DevicePlaces

CommunityTypeOK ==
  /\ pc \in [Calls -> Places]
  /\ user \in [Calls -> Users \cup {Null}]
  /\ CrewsTypeOK /\ NoticesTypeOK /\ DevicesTypeOK

Init ==
  /\ pc = [c \in Calls |-> "idle"]
  /\ user = [c \in Calls |-> Null]
  /\ CrewsInit /\ NoticesInit /\ DevicesInit

InFlight(c) == pc[c] \notin {"idle", "done"}

(* An awaited request or statement fails, or the process ends: what the    *)
(* call held is garbage.                                                   *)
Stop(c) ==
  /\ InFlight(c)
  /\ Leave(c)
  /\ held' = [held EXCEPT ![c] = NoChat]
  /\ total' = [total EXCEPT ![c] = 0]
  /\ mark' = [mark EXCEPT ![c] = Null]
  /\ halted' = IF pc[c] = "telling" THEN halted \cup {c} ELSE halted
  /\ token' = [token EXCEPT ![c] = Null]
  /\ row' = [row EXCEPT ![c] = NoDevice]
  /\ asked' = [asked EXCEPT ![c] = {}]
  /\ allowed' = [allowed EXCEPT ![c] = {}]
  /\ batch' = [batch EXCEPT ![c] = {}]
  /\ UNCHANGED <<crewTables, crewGhosts, takes, posted, reach, notice, told,
                 deviceTables, deviceGhosts>>

(* The server waits for the next call. *)
Quiet ==
  /\ \A c \in Calls : ~InFlight(c)
  /\ UNCHANGED vars

Next ==
  \/ \E c \in Calls :
       \/ CrewsStep(c) /\ UNCHANGED <<noticeVars, deviceVars>>
       \/ NoticesStep(c) /\ UNCHANGED <<crewVars, deviceVars>>
       \/ DevicesStep(c) /\ UNCHANGED <<crewVars, noticeVars>>
       \/ Stop(c)
  \/ Expire /\ UNCHANGED <<requests, crewVars, noticeVars>>
  \/ Quiet

Spec == Init /\ [][Next]_vars
=============================================================================
