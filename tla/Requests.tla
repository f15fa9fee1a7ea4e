------------------------------ MODULE Requests ------------------------------
(***************************************************************************)
(* The calls of the server, for the modules of the community: each runs in *)
(* steps, one awaited request or statement each, and calls interleave      *)
(* between them.  A call may be of any kind, and is made once.             *)
(***************************************************************************)
EXTENDS Naturals, FiniteSets

CONSTANTS
  Calls,
  Users,
  Null    \* SQL's NULL, and no row

ASSUME RequestsAssumption ==
  Null \notin Users /\ Null \notin Calls /\ IsFiniteSet(Users)

VARIABLES
  pc,   \* where each call is
  user  \* the user it serves

requests == <<pc, user>>

(* The call awaits its next request or statement, for the same user. *)
Continue(c, p) == pc' = [pc EXCEPT ![c] = p] /\ UNCHANGED user

(* The call begins for user u, and awaits its second statement. *)
Begin(c, u, p) ==
  /\ pc[c] = "idle"
  /\ pc' = [pc EXCEPT ![c] = p]
  /\ user' = [user EXCEPT ![c] = u]

(* The call returns or throws. *)
Leave(c) ==
  /\ pc' = [pc EXCEPT ![c] = "done"]
  /\ user' = [user EXCEPT ![c] = Null]

(* A call of one statement, or one whose reads and write are as good as    *)
(* one: it reads a row and writes one column of it by its primary key.     *)
AtOnce(c) == pc[c] = "idle" /\ Leave(c)
=============================================================================
