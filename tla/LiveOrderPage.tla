--------------------------- MODULE LiveOrderPage ----------------------------
(***************************************************************************)
(* The live-order page: readiness and orders of a typed profile, a dry run *)
(* of a typed preview, and buttons that reconcile or cancel the selected   *)
(* order, over the API's dry run, reconciliation and cancellation.  The    *)
(* autonomous worker prepares and sends the same orders meanwhile; the     *)
(* detail of that is the module ExecutionClaims.                           *)
(*                                                                         *)
(* A preview has at most one order, so orders are named by their preview.  *)
(***************************************************************************)
EXTENDS PageRequests, FiniteSets

CONSTANTS
  ProfileOf,    \* the trading profile each preview belongs to
  ReadinessOf,  \* profiles: [verdict, dryRun, passed], the checks that pass
  Tokens        \* idempotency tokens typed

Previews == DOMAIN ProfileOf
Blank == ""
DryRunStates == {"DRY_RUN_READY", "DRY_RUN_BLOCKED"}

\* The checks the wizard looks at.
Checks == {"production_connection_configured", "trade_permission_present", "balance_available",
           "risk_engine_healthy", "submission_feature_flag_disabled",
           "withdrawal_permission_not_required"}

Order(preview, status) == [preview |-> preview, status |-> status]

LiveInit ==
  /\ ui = [profile |-> Blank, preview |-> Blank, token |-> CHOOSE t \in Tokens : TRUE, phrase |-> TRUE,
           readiness |-> Null, orders |-> <<>>, selected |-> Null, dryRun |-> Null, check |-> Null,
           error |-> FALSE, loading |-> FALSE, dryRunning |-> FALSE, reconciling |-> FALSE,
           cancelling |-> FALSE, clicks |-> 0]
  /\ net = <<>>
  /\ db = [orders |-> <<>>, dry |-> {}, exchange |-> [v \in Previews |-> "none"], audit |-> <<>>,
           failures |-> 0]
  /\ wire \in Wires

----------------------------------------------------------------------------
(* What the page derives from its state. *)

CanDryRun ==
  /\ ui.readiness # Null /\ ui.readiness[1].dryRun
  /\ ui.profile # Blank /\ ui.preview # Blank

Passed == IF ui.readiness = Null THEN {} ELSE ui.readiness[1].passed

\* The wizard: the withdrawal check counts only once it is loaded.
Reasons ==
  {c \in Checks \ Passed : c # "withdrawal_permission_not_required" \/ ui.readiness # Null}
    \cup {r \in {"preview", "phrase", "dry run"} :
            \/ r = "preview" /\ ui.preview = Blank
            \/ r = "phrase" /\ ~ui.phrase
            \/ r = "dry run" /\ (ui.dryRun = Null \/ ui.dryRun[1].status # "DRY_RUN_READY")}

Wizard ==
  IF Reasons = {} THEN "READY FOR OPERATOR REVIEW"
  ELSE IF ui.readiness # Null /\ ui.readiness[1].verdict \in {"READY_FOR_DRY_RUN", "READY_FOR_PREVIEW"}
  THEN ui.readiness[1].verdict ELSE "BLOCKED"

\* The colour of an order's status.
Tone(status) ==
  IF status \in {"FILLED", "DRY_RUN_READY"} THEN "green"
  ELSE IF status \in {"REJECTED", "RISK_REJECTED"} THEN "red"
  ELSE IF status = "CANCELLED" THEN "grey"
  ELSE IF status \in {"RECONCILIATION_REQUIRED", "DRY_RUN_BLOCKED"} THEN "amber" ELSE "blue"

ReadinessSection == IF ui.readiness = Null THEN "Not loaded" ELSE ui.readiness[1].verdict
OrderList == IF ui.orders = <<>> THEN "empty" ELSE "rows"
SelectedSection == IF ui.selected = Null THEN "none" ELSE Tone(ui.selected[1].status)

----------------------------------------------------------------------------
(* Handlers: each of the four requests has its own flag. *)

\* What names the profile, the preview and the order costs no click.
Type(view) == ui' = view /\ UNCHANGED <<net, db, wire>>

TypeProfile(profile) == profile # ui.profile /\ Type([ui EXCEPT !.profile = profile])
TypePreview(preview) == preview # ui.preview /\ Type([ui EXCEPT !.preview = preview])
SelectOrder(i) == i \in DOMAIN ui.orders /\ Type([ui EXCEPT !.selected = <<ui.orders[i]>>])

TypeToken(token) == CanClick /\ token # ui.token /\ Type([Clicked EXCEPT !.token = token])
TypePhrase == CanClick /\ Type([Clicked EXCEPT !.phrase = ~@])
SelectCheck(c) ==
  CanClick /\ ui.readiness # Null /\ <<c>> # ui.check /\ Type([Clicked EXCEPT !.check = <<c>>])

Ask(flag, op, arg) ==
  /\ CanClick /\ ~ui[flag]
  /\ ui' = [Clicked EXCEPT ![flag] = TRUE, !.error = FALSE]
  /\ net' = Issue(net, op, arg)
  /\ UNCHANGED <<db, wire>>

LoadWorkspace ==
  \/ ui.profile # Blank /\ Ask("loading", "load", ui.profile)
  \/ ui.profile = Blank /\ ~ui.loading /\ Type([ui EXCEPT !.error = TRUE])

RunDryRun ==
  CanDryRun /\ Ask("dryRunning", "dryRun", [profile |-> ui.profile, preview |-> ui.preview, token |-> ui.token])

ReconcileOrder == ui.selected # Null /\ Ask("reconciling", "reconcile", ui.selected[1].preview)
CancelOrder == ui.selected # Null /\ Ask("cancelling", "cancel", ui.selected[1].preview)

----------------------------------------------------------------------------
(* Answers. *)

Failed(flag) == [ui EXCEPT ![flag] = FALSE, !.error = TRUE]

\* A failed load keeps the readiness and the orders of the profile before.
DeliverLoad(r) ==
  /\ r.op = "load"
  /\ ui' = IF ~r.ok THEN Failed("loading")
           ELSE [ui EXCEPT !.loading = FALSE, !.readiness = <<r.val[1].readiness>>,
                           !.orders = r.val[1].orders,
                           !.selected = IF r.val[1].orders = <<>> THEN Null
                                        ELSE <<r.val[1].orders[1]>>]

Others(orders, preview) == Kept(orders, {i \in DOMAIN orders : orders[i].preview # preview})

\* The order of a dry run goes to the top of the list.
DeliverDryRun(r) ==
  /\ r.op = "dryRun"
  /\ ui' = IF ~r.ok THEN Failed("dryRunning")
           ELSE [ui EXCEPT !.dryRunning = FALSE, !.dryRun = r.val, !.selected = r.val,
                           !.orders = r.val \o Others(@, r.val[1].preview)]

Replaced(orders, order) ==
  [i \in DOMAIN orders |-> IF orders[i].preview = order.preview THEN order ELSE orders[i]]

\* Mutant: the list keeps the order as it was.
DeliverOrderToDetail(r, op, flag) ==
  /\ r.op = op
  /\ ui' = IF ~r.ok THEN Failed(flag) ELSE [ui EXCEPT ![flag] = FALSE, !.selected = r.val]

DeliverOrder(r, op, flag) ==
  /\ r.op = op
  /\ ui' = IF ~r.ok THEN Failed(flag)
           ELSE [ui EXCEPT ![flag] = FALSE, !.selected = r.val, !.orders = Replaced(@, r.val[1])]

DeliverReconciled(r) == DeliverOrder(r, "reconcile", "reconciling")
DeliverCancelled(r) == DeliverOrder(r, "cancel", "cancelling")

Deliver ==
  /\ \E i \in Deliverable : LET r == net[i] IN
       /\ DeliverLoad(r) \/ DeliverDryRun(r) \/ DeliverReconciled(r) \/ DeliverCancelled(r)
       /\ net' = Handled(i)
  /\ UNCHANGED <<db, wire>>

----------------------------------------------------------------------------
(* The API.  The stored orders are in order of creation. *)

Stored(v) == Kept(db.orders, {i \in DOMAIN db.orders : db.orders[i].preview = v})
With(order) == IF Stored(order.preview) = <<>> THEN Append(db.orders, order) ELSE Replaced(db.orders, order)

\* Newest first, of the profile's previews.
ListOrders(profile) ==
  Reverse(Kept(db.orders, {i \in DOMAIN db.orders : ProfileOf[db.orders[i].preview] = profile}))

ServeLoad(r, i) ==
  /\ r.op = "load"
  /\ net' = Served(i, [readiness |-> ReadinessOf[r.arg], orders |-> ListOrders(r.arg)])
  /\ UNCHANGED db

\* The order of the preview, created for confirmation if there is none.
GetOrCreate(v) == IF Stored(v) = <<>> THEN Order(v, "PENDING_CONFIRMATION") ELSE Stored(v)[1]

Replayed(arg) == \E k \in DOMAIN db.audit : db.audit[k].arg = arg

\* A dry run that was made is answered again while the evidence is the same; a
\* token used before is refused; any other order becomes a dry run, whatever
\* its status.  The audit keeps the status found.
ServeDryRun(r, i) ==
  /\ r.op = "dryRun"
  /\ \E passes \in BOOLEAN :
       LET found == GetOrCreate(r.arg.preview)
           status == IF passes THEN "DRY_RUN_READY" ELSE "DRY_RUN_BLOCKED"
           made == Order(r.arg.preview, status)
       IN  IF found.status \in DryRunStates /\ r.arg.preview \in db.dry
           THEN /\ net' = IF found.status = status THEN Served(i, found) ELSE Refused(i)
                /\ UNCHANGED db
           ELSE IF Replayed(r.arg) THEN net' = Refused(i) /\ UNCHANGED db
           ELSE /\ net' = Served(i, made)
                /\ db' = [db EXCEPT !.orders = With(made), !.dry = @ \cup {r.arg.preview},
                                    !.audit = Append(@, [arg |-> r.arg, from |-> found.status])]

\* What the exchange says decides; a balance that does not fit leaves the order
\* to be reconciled again, but never one that was FILLED.
ReconciledStatuses(v) ==
  CASE db.exchange[v] = "none" -> {"RECONCILIATION_REQUIRED"}
    [] db.exchange[v] = "open" -> {"ACKNOWLEDGED"}
    [] db.exchange[v] = "canceled" -> {"CANCELLED"}
    [] db.exchange[v] = "filled" -> {"FILLED", "RECONCILIATION_REQUIRED"}

ServeReconcile(r, i) ==
  /\ r.op = "reconcile"
  /\ \E status \in (IF Stored(r.arg)[1].status = "FILLED" THEN {"FILLED"} ELSE ReconciledStatuses(r.arg)) :
       /\ net' = Served(i, Order(r.arg, status))
       /\ db' = [db EXCEPT !.orders = With(Order(r.arg, status))]

\* The exchange is asked to cancel; the CANCELLED status of the answer is only
\* flushed, and rolled back as the request's session closes.
ServeCancel(r, i) ==
  /\ r.op = "cancel"
  /\ IF db.exchange[r.arg] = "none" THEN net' = Refused(i) /\ UNCHANGED db
     ELSE /\ net' = Served(i, Order(r.arg, "CANCELLED"))
          /\ db' = [db EXCEPT !.exchange[r.arg] = IF @ = "open" THEN "canceled" ELSE @]

Serve ==
  /\ \E i \in Servable : LET r == net[i] IN
       ServeLoad(r, i) \/ ServeDryRun(r, i) \/ ServeReconcile(r, i) \/ ServeCancel(r, i)
  /\ UNCHANGED <<ui, wire>>

\* The worker: an order never sent is prepared for confirmation and sent.
WorkerPrepares(v) ==
  /\ db.exchange[v] = "none"
  /\ \A i \in DOMAIN db.orders :
       db.orders[i].preview = v => db.orders[i].status = "DRY_RUN_READY"
  /\ db' = [db EXCEPT !.orders = With(Order(v, "PENDING_CONFIRMATION"))]
  /\ UNCHANGED <<ui, net, wire>>

WorkerSends(v) ==
  /\ Order(v, "PENDING_CONFIRMATION") \in ToSet(db.orders)
  /\ db.exchange[v] = "none"
  /\ db' = [db EXCEPT !.orders = With(Order(v, "ACKNOWLEDGED")), !.exchange[v] = "open"]
  /\ UNCHANGED <<ui, net, wire>>

ExchangeFills(v) ==
  /\ db.exchange[v] = "open"
  /\ db' = [db EXCEPT !.exchange[v] = "filled"]
  /\ UNCHANGED <<ui, net, wire>>

LiveNext ==
  \/ \E profile \in DOMAIN ReadinessOf : TypeProfile(profile)
  \/ \E v \in Previews :
       TypePreview(v) \/ WorkerPrepares(v) \/ WorkerSends(v) \/ ExchangeFills(v)
  \/ \E token \in Tokens : TypeToken(token)
  \/ \E i \in 1..Cardinality(Previews) : SelectOrder(i)
  \/ \E c \in Checks : SelectCheck(c)
  \/ TypePhrase \/ LoadWorkspace \/ RunDryRun \/ ReconcileOrder \/ CancelOrder
  \/ Deliver \/ Serve \/ RequestFails

----------------------------------------------------------------------------
(* Properties. *)

\* The order in the detail and its row in the list agree: a load, a dry run, a
\* reconciliation and a cancellation may be on their way at once and be answered
\* in any order, while the worker and the exchange move the order.
DetailAgreesWithList ==
  ui.selected # Null =>
    \A i \in DOMAIN ui.orders :
      ui.orders[i].preview = ui.selected[1].preview => ui.orders[i] = ui.selected[1]

\* The audit of a dry run says that it started from PENDING_CONFIRMATION: no dry
\* run takes an order in any other status.
DryRunsStartPending ==
  \A k \in DOMAIN db.audit : db.audit[k].from = "PENDING_CONFIRMATION"
=============================================================================
