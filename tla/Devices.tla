------------------------------ MODULE Devices -------------------------------
(***************************************************************************)
(* The devices users have registered for push messages, and sending these  *)
(* by way of an external provider (FCM).                                   *)
(*                                                                         *)
(*   push/services/device-token.service.ts                                 *)
(*   push/services/push.service.ts                                         *)
(*   push/models/device-token.model.ts              token: unique          *)
(*   notification/services/notification-settings.service.ts                *)
(*                                                                         *)
(* A device is its token, and one that the provider no longer knows never  *)
(* comes back: the app asks it for another token.  More than 500 tokens    *)
(* are sent in batches, one after the other; here there is one batch.      *)
(***************************************************************************)
EXTENDS Requests

CONSTANTS
  Tokens,
  Earlier  \* whoever inserted the rows that are there at the beginning

ASSUME DevicesAssumption == Earlier \notin Calls /\ Earlier # Null

VARIABLES
  device,   \* of each token its row: the user, and the call that inserted it
  off,      \* users whose settings say no push
  dead,     \* tokens the provider no longer knows
  token,    \* the token a registration is for
  row,      \* the row it has found
  asked,    \* the users a push is for
  allowed,  \* those of them who had push on
  batch,    \* the tokens it goes to, and then those to be pruned
  owner,    \* history: the user who was last told that the device is theirs
  cut,      \* history: devices that were removed, or given to another user,
            \* before a registration that had found the row wrote it
  stirred   \* history: devices whose row or setting changed during a push

deviceTables == <<device, off, dead>>
deviceHeld   == <<token, row, asked, allowed, batch>>
deviceGhosts == <<owner, cut, stirred>>
deviceVars   == <<deviceTables, deviceHeld, deviceGhosts>>

Device   == [user : Users \cup {Null}, by : Calls \cup {Earlier, Null}]
NoDevice == [user |-> Null, by |-> Null]

PushPlaces   == {"resolving", "sending"}
DevicePlaces == {"repointing", "registering", "pruning"} \cup PushPlaces

DevicesTypeOK ==
  /\ device \in [Tokens -> Device]
  /\ off \subseteq Users
  /\ dead \subseteq Tokens
  /\ token \in [Calls -> Tokens \cup {Null}]
  /\ row \in [Calls -> Device]
  /\ asked \in [Calls -> SUBSET Users] /\ allowed \in [Calls -> SUBSET Users]
  /\ batch \in [Calls -> SUBSET Tokens]
  /\ owner \in [Tokens -> Users \cup {Null}]
  /\ cut \subseteq Tokens /\ stirred \subseteq Tokens

(* Devices may be registered already. *)
DevicesInit ==
  /\ owner \in [Tokens -> Users \cup {Null}]
  /\ device = [t \in Tokens |-> IF owner[t] = Null THEN NoDevice
                                ELSE [user |-> owner[t], by |-> Earlier]]
  /\ off = {} /\ dead = {}
  /\ token = [c \in Calls |-> Null]
  /\ row = [c \in Calls |-> NoDevice]
  /\ asked = [c \in Calls |-> {}] /\ allowed = [c \in Calls |-> {}]
  /\ batch = [c \in Calls |-> {}]
  /\ cut = {} /\ stirred = {}

(* Registrations that have found the row of token t; and those of them     *)
(* that are only going to write its platform, which is not modelled.       *)
Finding(t)  == {c \in Calls : pc[c] = "repointing" /\ token[c] = t}
Settling(t) == {c \in Finding(t) : user[c] = row[c].user}

Pushing == {c \in Calls : pc[c] \in PushPlaces}
Stir(ts) == stirred' = IF Pushing = {} THEN stirred ELSE stirred \cup ts

(***************************************************************************)
(* register and remove                                                     *)
(***************************************************************************)

(* The token is looked up.  A row of the same user is left as it is, or    *)
(* brought up to date about the platform.                                  *)
RegisterFind(c) ==
  /\ \E t \in Tokens, u \in Users :
       LET r == device[t] IN
       \/ /\ r.user = u
          /\ AtOnce(c)
          /\ owner' = [owner EXCEPT ![t] = u]
          /\ UNCHANGED <<token, row>>
       \/ /\ Begin(c, u, IF r = NoDevice THEN "registering" ELSE "repointing")
          /\ token' = [token EXCEPT ![c] = t]
          /\ row' = [row EXCEPT ![c] = r]
          /\ UNCHANGED owner
  /\ UNCHANGED <<deviceTables, asked, allowed, batch, cut, stirred>>

Registered(c) ==
  /\ Leave(c)
  /\ token' = [token EXCEPT ![c] = Null]
  /\ row' = [row EXCEPT ![c] = NoDevice]
  /\ UNCHANGED <<off, dead, asked, allowed, batch>>

(* The row that was found is pointed to the user, if it is still there; if *)
(* it is not, nobody is told.                                              *)
RegisterRepoint(c) ==
  /\ pc[c] = "repointing"
  /\ LET t == token[c]  u == user[c] IN
       /\ IF device[t].by = row[c].by /\ u # row[c].user
          THEN /\ device' = [device EXCEPT ![t].user = u]
               /\ cut' = IF Settling(t) # {} THEN cut \cup {t} ELSE cut
               /\ Stir({t})
          ELSE UNCHANGED <<device, cut, stirred>>
       /\ owner' = [owner EXCEPT ![t] = u]
  /\ Registered(c)

(* A row is inserted, unless the token has one by now. *)
RegisterInsert(c) ==
  /\ pc[c] = "registering"
  /\ LET t == token[c]  u == user[c] IN
       IF device[t] = NoDevice
       THEN /\ device' = [device EXCEPT ![t] = [user |-> u, by |-> c]]
            /\ owner' = [owner EXCEPT ![t] = u]
            /\ Stir({t})
       ELSE UNCHANGED <<device, owner, stirred>>
  /\ Registered(c)
  /\ UNCHANGED cut

(* DELETE of the rows of these tokens. *)
Drop(ts) ==
  /\ device' = [t \in Tokens |-> IF t \in ts THEN NoDevice ELSE device[t]]
  /\ cut' = cut \cup {t \in ts : Finding(t) # {}}
  /\ Stir(ts)

Unregister(c) ==
  /\ AtOnce(c)
  /\ \E t \in Tokens : Drop({t}) /\ owner' = [owner EXCEPT ![t] = Null]
  /\ UNCHANGED <<off, dead, deviceHeld>>

(* create, update and remove of the settings: without a row, push is on.   *)
SetPush(c) ==
  /\ AtOnce(c)
  /\ \E u \in Users :
       /\ off' = IF u \in off THEN off \ {u} ELSE off \cup {u}
       /\ Stir({t \in Tokens : device[t].user = u})
  /\ UNCHANGED <<device, dead, deviceHeld, owner, cut>>

(***************************************************************************)
(* sendToUsers                                                             *)
(***************************************************************************)

(* Mutant: the users' settings are not looked at. *)
PushFilterNone(c) ==
  /\ Begin(c, Null, "resolving")
  /\ \E us \in (SUBSET Users) \ {{}} :
       /\ asked' = [asked EXCEPT ![c] = us]
       /\ allowed' = [allowed EXCEPT ![c] = us]
  /\ UNCHANGED <<deviceTables, token, row, batch, deviceGhosts>>

(* filterByPreference: those who have push on.  Without any, that is all.  *)
PushFilter(c) ==
  /\ Begin(c, Null, "resolving")
  /\ \E us \in SUBSET Users :
       /\ us \ off # {}
       /\ asked' = [asked EXCEPT ![c] = us]
       /\ allowed' = [allowed EXCEPT ![c] = us \ off]
  /\ UNCHANGED <<deviceTables, token, row, batch, deviceGhosts>>

Sent(c) ==
  /\ Leave(c)
  /\ asked' = [asked EXCEPT ![c] = {}]
  /\ allowed' = [allowed EXCEPT ![c] = {}]
  /\ batch' = [batch EXCEPT ![c] = {}]

(* tokensForUsers *)
PushResolve(c) ==
  /\ pc[c] = "resolving"
  /\ LET ts == {t \in Tokens : device[t].user \in allowed[c]} IN
       IF ts = {}
       THEN Sent(c)
       ELSE /\ batch' = [batch EXCEPT ![c] = ts]
            /\ Continue(c, "sending")
            /\ UNCHANGED <<asked, allowed>>
  /\ UNCHANGED <<deviceTables, token, row, deviceGhosts>>

(* Mutant: one invalid token condemns its batch. *)
PushSendBatch(c) ==
  /\ pc[c] = "sending"
  /\ IF batch[c] \cap dead = {}
     THEN Sent(c)
     ELSE Continue(c, "pruning") /\ UNCHANGED <<asked, allowed, batch>>
  /\ UNCHANGED <<deviceTables, token, row, deviceGhosts>>

(* The provider says which tokens are invalid. *)
PushSend(c) ==
  /\ pc[c] = "sending"
  /\ IF batch[c] \cap dead = {}
     THEN Sent(c)
     ELSE /\ batch' = [batch EXCEPT ![c] = @ \cap dead]
          /\ Continue(c, "pruning")
          /\ UNCHANGED <<asked, allowed>>
  /\ UNCHANGED <<deviceTables, token, row, deviceGhosts>>

(* pruneInvalidTokens *)
PushPrune(c) ==
  /\ pc[c] = "pruning"
  /\ Drop(batch[c])
  /\ Sent(c)
  /\ UNCHANGED <<off, dead, token, row, owner>>

(* An app that is registered is uninstalled, or given a new token. *)
Expire ==
  /\ \E t \in Tokens \ dead : device[t] # NoDevice /\ dead' = dead \cup {t}
  /\ UNCHANGED <<device, off, deviceHeld, deviceGhosts>>

DevicesStep(c) ==
  \/ RegisterFind(c) \/ RegisterRepoint(c) \/ RegisterInsert(c) \/ Unregister(c) \/ SetPush(c)
  \/ PushFilter(c) \/ PushResolve(c) \/ PushSend(c) \/ PushPrune(c)

(* A device stays with the user who was last told so, and a removed one    *)
(* stays removed, until the provider gives its token up: no push takes it  *)
(* away, and no registration that overlaps.  Unless the row was removed,   *)
(* or its user changed, under a registration that had found it.            *)
RegisteredDeviceKept ==
  \A t \in Tokens \ (cut \cup dead) : device[t].user = owner[t]

(* A push goes to all devices of the users it is for who have push on, and *)
(* to no other device.  Except for devices that were registered, removed,  *)
(* or whose user switched push, since the push began.                      *)
PushFindsDevices ==
  \A c \in Calls, t \in Tokens \ stirred :
    pc[c] = "sending" => (t \in batch[c] <=> device[t].user \in asked[c] \ off)
=============================================================================
