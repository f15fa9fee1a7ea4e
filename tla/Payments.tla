------------------------------ MODULE Payments ------------------------------
(***************************************************************************)
(* One user's subscription payments: PaymentsService, its                  *)
(* subscription_transactions rows, and the payment gateway.                *)
(*                                                                         *)
(*   payment-gateway-notifications/services/payments.service.ts            *)
(*   payment-gateway-notifications/gateways/paystack.gateway.ts            *)
(*                                                                         *)
(* Calls of initialize and confirm and deliveries of webhooks run          *)
(* concurrently, one step per awaited statement or gateway request.        *)
(* The gateway is external: its checkouts, the reports verify gives and    *)
(* the events it sends are modelled from what the code sends it and reads. *)
(***************************************************************************)
EXTENDS Naturals

CONSTANTS
  Calls,       \* calls of initialize; also the references the gateway gives them
  Keys,        \* idempotency keys
  Confirms,    \* confirm calls that can be under way at once
  Hooks,       \* webhook deliveries that can be under way at once
  MayRetry,    \* a checkout the gateway has reported failed can still be paid
  MaxCrashes,  \* bound on the ends of the process
  None         \* no key, no reference, no event

ASSUME PaymentsAssumption ==
  None \notin Calls /\ None \notin Keys /\ MayRetry \in BOOLEAN /\ MaxCrashes \in Nat

VARIABLES
  row,     \* status of the transaction row with each reference
  gw,      \* the gateway's checkout with each reference
  pc,      \* where each initialize call is
  key,     \* the idempotency key of each initialize call
  out,     \* the reference, and with it the checkout URL, each call returned
  conf,    \* the confirm calls under way: what each will write, and where
  hook,    \* the webhook deliveries under way: the event each will write
  events,  \* events the gateway has to deliver
  acked,   \* events answered with 200; the gateway may deliver them again
  crashes

vars == <<row, gw, pc, key, out, conf, hook, events, acked, crashes>>

Final    == {"PAID", "FAILED"}
RowState == {"none", "PENDING"} \cup Final
Event    == [ref : Calls, status : Final]
Confirm  == [ref : Calls, status : {"PENDING"} \cup Final]

TypeOK ==
  /\ row \in [Calls -> RowState]
  /\ gw \in [Calls -> {"none", "open", "success", "failed"}]
  /\ pc \in [Calls -> {"idle", "new", "opened", "conflict", "done"}]
  /\ key \in [Calls -> Keys \cup {None}]
  /\ out \in [Calls -> Calls \cup {None}]
  /\ conf \in [Confirms -> Confirm \cup {None}]
  /\ hook \in [Hooks -> Event \cup {None}]
  /\ events \subseteq Event
  /\ acked \subseteq events
  /\ crashes \in 0..MaxCrashes

Init ==
  /\ row = [c \in Calls |-> "none"]
  /\ gw = [c \in Calls |-> "none"]
  /\ pc = [c \in Calls |-> "idle"]
  /\ key = [c \in Calls |-> None]
  /\ out = [c \in Calls |-> None]
  /\ conf = [f \in Confirms |-> None]
  /\ hook = [h \in Hooks |-> None]
  /\ events = {}
  /\ acked = {}
  /\ crashes = 0

(* The rows of the user's key k: WHERE userId AND idempotencyKey. *)
RowsOf(k) == {r \in Calls : row[r] # "none" /\ key[r] = k}

(***************************************************************************)
(* PaymentsService.initialize                                              *)
(***************************************************************************)

Return(c, r) ==
  /\ pc' = [pc EXCEPT ![c] = "done"]
  /\ out' = [out EXCEPT ![c] = r]

(* A known key returns its row; otherwise the request is priced. *)
InitLookup(c) ==
  /\ pc[c] = "idle"
  /\ \E k \in Keys \cup {None} :
       /\ key' = [key EXCEPT ![c] = k]
       /\ IF k # None /\ RowsOf(k) # {}
          THEN \E r \in RowsOf(k) : Return(c, r)
          ELSE pc' = [pc EXCEPT ![c] = "new"] /\ UNCHANGED out
  /\ UNCHANGED <<row, gw, conf, hook, events, acked, crashes>>

(* No such subscription, no email, or the gateway refuses. *)
InitReject(c) ==
  /\ pc[c] = "new"
  /\ Return(c, None)
  /\ UNCHANGED <<row, gw, key, conf, hook, events, acked, crashes>>

(* gateway.initialize creates a checkout. *)
InitGateway(c) ==
  /\ pc[c] = "new"
  /\ gw' = [gw EXCEPT ![c] = "open"]
  /\ pc' = [pc EXCEPT ![c] = "opened"]
  /\ UNCHANGED <<row, key, out, conf, hook, events, acked, crashes>>

(* Mutant: no unique index on (userId, idempotencyKey). *)
InitCreateTwice(c) ==
  /\ pc[c] = "opened"
  /\ row' = [row EXCEPT ![c] = "PENDING"]
  /\ Return(c, c)
  /\ UNCHANGED <<gw, key, conf, hook, events, acked, crashes>>

(* INSERT the PENDING row; the unique index refuses a second row of a key. *)
InitCreate(c) ==
  /\ pc[c] = "opened"
  /\ IF key[c] = None \/ RowsOf(key[c]) = {}
     THEN row' = [row EXCEPT ![c] = "PENDING"] /\ Return(c, c)
     ELSE pc' = [pc EXCEPT ![c] = "conflict"] /\ UNCHANGED <<row, out>>
  /\ UNCHANGED <<gw, key, conf, hook, events, acked, crashes>>

(* Mutant: the loser of the race returns the checkout it opened. *)
InitConflictOwn(c) ==
  /\ pc[c] = "conflict"
  /\ Return(c, c)
  /\ UNCHANGED <<row, gw, key, conf, hook, events, acked, crashes>>

(* The loser of the race returns the winner's row. *)
InitConflict(c) ==
  /\ pc[c] = "conflict"
  /\ \E r \in RowsOf(key[c]) : Return(c, r)
  /\ UNCHANGED <<row, gw, key, conf, hook, events, acked, crashes>>

(***************************************************************************)
(* PaymentsService.confirm                                                 *)
(***************************************************************************)

(* findOne by reference; only a PENDING row goes on to the gateway. *)
ConfirmLoad(f) ==
  /\ conf[f] = None
  /\ \E r \in Calls :
       /\ row[r] = "PENDING"
       /\ conf' = [conf EXCEPT ![f] = [ref |-> r, status |-> "PENDING"]]
  /\ UNCHANGED <<row, gw, pc, key, out, hook, events, acked, crashes>>

(* Mutant: a checkout that is still open counts as failed. *)
VerdictPendingFails(r) == IF gw[r] = "success" THEN "PAID" ELSE "FAILED"

(* The status verify reports: normalise of the gateway's own. *)
Verdict(r) ==
  CASE gw[r] = "success" -> "PAID"
    [] gw[r] = "failed" -> "FAILED"
    [] OTHER -> "PENDING"

(* Mutant: verify answers that it was reached, and that is taken for paid. *)
ConfirmVerifyReached(f) ==
  /\ conf[f] # None
  /\ conf[f].status = "PENDING"
  /\ conf' = [conf EXCEPT ![f].status = "PAID"]
  /\ UNCHANGED <<row, gw, pc, key, out, hook, events, acked, crashes>>

(* gateway.verify; a checkout that is still open changes nothing. *)
ConfirmVerify(f) ==
  /\ conf[f] # None
  /\ conf[f].status = "PENDING"
  /\ LET v == Verdict(conf[f].ref) IN
       conf' = [conf EXCEPT ![f] =
         IF v = "PENDING" THEN None ELSE [ref |-> conf[f].ref, status |-> v]]
  /\ UNCHANGED <<row, gw, pc, key, out, hook, events, acked, crashes>>

(* verify throws. *)
ConfirmFail(f) ==
  /\ conf[f] # None
  /\ conf[f].status = "PENDING"
  /\ conf' = [conf EXCEPT ![f] = None]
  /\ UNCHANGED <<row, gw, pc, key, out, hook, events, acked, crashes>>

(* save: UPDATE ... WHERE id, whatever the status is by now. *)
ConfirmSave(f) ==
  /\ conf[f] # None
  /\ conf[f].status \in Final
  /\ row' = [row EXCEPT ![conf[f].ref] = conf[f].status]
  /\ conf' = [conf EXCEPT ![f] = None]
  /\ UNCHANGED <<gw, pc, key, out, hook, events, acked, crashes>>

(***************************************************************************)
(* PaymentsService.handleWebhook                                           *)
(***************************************************************************)

(* Mutant: the event is acknowledged before it is handled. *)
HookFindAcked(h, e) ==
  /\ hook[h] = None
  /\ e \in events
  /\ acked' = acked \cup {e}
  /\ IF row[e.ref] = "PENDING" THEN hook' = [hook EXCEPT ![h] = e] ELSE UNCHANGED hook
  /\ UNCHANGED <<row, gw, pc, key, out, conf, events, crashes>>

(* A PENDING row with the event's reference, or the answer is 200 already. *)
HookFind(h, e) ==
  /\ hook[h] = None
  /\ e \in events
  /\ IF row[e.ref] = "PENDING"
     THEN hook' = [hook EXCEPT ![h] = e] /\ UNCHANGED acked
     ELSE acked' = acked \cup {e} /\ UNCHANGED hook
  /\ UNCHANGED <<row, gw, pc, key, out, conf, events, crashes>>

(* Mutant: the gateway's own status is stored. *)
HookSaveRaw(h) ==
  /\ hook[h] # None
  /\ row' = [row EXCEPT ![hook[h].ref] = gw[hook[h].ref]]
  /\ acked' = acked \cup {hook[h]}
  /\ hook' = [hook EXCEPT ![h] = None]
  /\ UNCHANGED <<gw, pc, key, out, conf, events, crashes>>

(* save, then 200. *)
HookSave(h) ==
  /\ hook[h] # None
  /\ row' = [row EXCEPT ![hook[h].ref] = hook[h].status]
  /\ acked' = acked \cup {hook[h]}
  /\ hook' = [hook EXCEPT ![h] = None]
  /\ UNCHANGED <<gw, pc, key, out, conf, events, crashes>>

(***************************************************************************)
(* The process ends; the database, the gateway and the clients remain.     *)
(***************************************************************************)
Crash ==
  /\ crashes < MaxCrashes
  /\ crashes' = crashes + 1
  /\ pc' = [c \in Calls |-> IF pc[c] = "idle" THEN "idle" ELSE "done"]
  /\ conf' = [f \in Confirms |-> None]
  /\ hook' = [h \in Hooks |-> None]
  /\ UNCHANGED <<row, gw, key, out, events, acked>>

(***************************************************************************)
(* The gateway (external).  A customer can only use a checkout whose URL   *)
(* some call has returned.                                                 *)
(***************************************************************************)
Visible(r) == \E c \in Calls : out[c] = r

Pay(r) ==
  /\ Visible(r)
  /\ gw[r] = "open" \/ (MayRetry /\ gw[r] = "failed")
  /\ gw' = [gw EXCEPT ![r] = "success"]
  /\ events' = events \cup {[ref |-> r, status |-> "PAID"]}
  /\ UNCHANGED <<row, pc, key, out, conf, hook, acked, crashes>>

(* A charge fails, or the customer leaves and the checkout is abandoned; *)
(* there is an event only for the former.                                *)
Fail(r) ==
  /\ gw[r] = "open"
  /\ gw' = [gw EXCEPT ![r] = "failed"]
  /\ \/ Visible(r) /\ events' = events \cup {[ref |-> r, status |-> "FAILED"]}
     \/ UNCHANGED events
  /\ UNCHANGED <<row, pc, key, out, conf, hook, acked, crashes>>

-----------------------------------------------------------------------------

(* Every checkout is settled and nobody calls. *)
Quiet ==
  /\ \A c \in Calls : pc[c] = "done"
  /\ UNCHANGED vars

Initialize(c) == \/ InitReject(c) \/ InitGateway(c)
                 \/ InitCreate(c) \/ InitConflict(c)

Next ==
  \/ \E c \in Calls : InitLookup(c) \/ Initialize(c)
  \/ \E f \in Confirms : \/ ConfirmLoad(f) \/ ConfirmVerify(f)
                         \/ ConfirmFail(f) \/ ConfirmSave(f)
  \/ \E h \in Hooks : HookSave(h) \/ \E e \in Event : HookFind(h, e)
  \/ \E r \in Calls : Pay(r) \/ Fail(r)
  \/ Crash
  \/ Quiet

(* A delivery under way is driven on; the gateway delivers an event until  *)
(* it is answered with 200 ("at-least-once delivery",                      *)
(* payments.service.ts:175).  Nothing is assumed of clients: they need not *)
(* confirm, pay or retry.                                                  *)
Fairness ==
  /\ \A h \in Hooks : WF_vars(HookSave(h))
  /\ \A e \in Event : WF_vars(e \notin acked /\ \E h \in Hooks : HookFind(h, e))

Spec == Init /\ [][Next]_vars
FairSpec == Spec /\ Fairness
-----------------------------------------------------------------------------

(***************************************************************************)
(* Properties.                                                             *)
(***************************************************************************)

(* "the same key never creates [...] a second gateway charge"              *)
(* (payments.service.ts:67).  Racing calls and retries after a crash do    *)
(* open several checkouts for a key, but only one can ever be paid.        *)
NoSecondCharge ==
  \A r, s \in Calls :
    gw[r] = "success" /\ gw[s] = "success" /\ key[r] = key[s] /\ key[r] # None => r = s

(* Whatever becomes of the racing calls, all that return for one key       *)
(* return the same checkout, and it has a row that can be settled.         *)
SameAnswer ==
  \A c, d \in Calls : out[c] # None =>
    /\ row[out[c]] # "none"
    /\ key[c] # None /\ key[c] = key[d] /\ out[d] # None => out[c] = out[d]

(* Access is given only for money: a row is PAID only when the gateway has *)
(* been paid for it, also when confirm and webhooks overlap.               *)
PaidIsCharged == \A r \in Calls : row[r] = "PAID" => gw[r] = "success"

(* The status of the purchase a key stands for, if that is well defined. *)
StateOf(k) ==
  CASE RowsOf(k) = {} -> "none"
    [] \E r \in Calls : RowsOf(k) = {r} -> row[CHOOSE r \in Calls : RowsOf(k) = {r}]
    [] OTHER -> "ambiguous"

Promise == INSTANCE Settlement WITH Purchases <- Keys, state <- [k \in Keys |-> StateOf(k)]

(* The service keeps the promise of Settlement as long as the gateway's    *)
(* failures are final: one transaction per key, settled once.              *)
KeepsPromise == Promise!Spec

(* Money is never taken for nothing: a charge is followed by a PAID row,   *)
(* even when nobody confirms and the process dies while a webhook is       *)
(* handled.                                                                *)
ChargeIsHonoured == \A r \in Calls : gw[r] = "success" ~> row[r] = "PAID"

(* "PENDING transitions to PAID/FAILED exactly once" (payments.service.ts: *)
(* 154): a row that is settled stays as it is.                             *)
SettledForGood == [][\A r \in Calls : row[r] \in Final => row'[r] = row[r]]_vars
=============================================================================
