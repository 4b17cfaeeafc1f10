-------------------------- MODULE RiskMonitorPage ---------------------------
(***************************************************************************)
(* The risk monitor: status and rules of a loaded account, a 20 s status   *)
(* poll, kill-switch actions and rule changes behind a modal confirmation. *)
(*                                                                         *)
(* Of the rules the module keeps whose they are, and of the draft whether  *)
(* it is looser than the rules loaded.  The API refuses every change of    *)
(* the page: to look up the account it names begins the transaction that   *)
(* is to begin next.  What other clients change is in RiskRules.           *)
(***************************************************************************)
EXTENDS PageRequests

CONSTANT Accounts   \* paper accounts

Intents == {"none", "rules-save", "enable-global", "disable-global", "enable-account", "disable-account"}
Enables(intent) == intent \in {"enable-global", "enable-account"}
GlobalScope(intent) == intent \in {"enable-global", "disable-global"}

RiskInit ==
  /\ ui = [loaded |-> Null, status |-> Null, statusLoading |-> FALSE, statusError |-> FALSE,
           statusUnknown |-> FALSE, rules |-> Null, draft |-> Null, rulesLoading |-> FALSE,
           rulesSaving |-> FALSE, rulesError |-> FALSE, intent |-> "none", acknowledged |-> FALSE,
           confirmError |-> FALSE, mutating |-> FALSE, clicks |-> 0]
  /\ net = <<>>
  /\ \E global \in {Null, <<FALSE>>} : db = [global |-> global, paused |-> {}, failures |-> 0]
  /\ wire \in Wires

\* The confirmation covers the page: its controls take no click while it is open.
PageFree == CanClick /\ ui.intent = "none"

StartStatus(view) == [view EXCEPT !.statusLoading = TRUE, !.statusError = FALSE]
StartRules(view) == [view EXCEPT !.rulesLoading = TRUE, !.rulesError = FALSE]

\* Loading an account costs no click: the next one waits for its answers.
LoadAccount(a) ==
  /\ PageFree /\ ~ui.statusLoading /\ ~ui.rulesLoading
  /\ ui' = StartRules(StartStatus([ui EXCEPT !.loaded = <<a>>]))
  /\ net' = Issue(Issue(net, "status", a), "rules", a)
  /\ UNCHANGED <<db, wire>>

\* The interval has no guard; its load is taken to answer within the 20 s here.
StatusTick ==
  /\ ui.loaded # Null /\ ~Pending("status")
  /\ ui' = StartStatus(ui)
  /\ net' = Issue(net, "status", ui.loaded[1])
  /\ UNCHANGED <<db, wire>>

EditDraft(looser) ==
  /\ PageFree /\ ui.rules # Null /\ ui.draft # Null
  /\ ui' = [ui EXCEPT !.draft = <<looser>>]
  /\ UNCHANGED <<net, db, wire>>

\* Revert puts the loaded rules back into the form.
RevertDraft == ~ui.rulesSaving /\ ~ui.mutating /\ EditDraft(FALSE)

\* Saving waits for a running save, not for a running load.
OpenConfirm(intent) ==
  /\ PageFree /\ ~ui.mutating
  /\ IF intent = "rules-save" THEN ui.rules # Null /\ ui.draft # Null /\ ~ui.rulesSaving
     ELSE ui.loaded # Null /\ ~ui.statusLoading
  /\ ui' = [ui EXCEPT !.intent = intent, !.acknowledged = FALSE, !.confirmError = FALSE]
  /\ UNCHANGED <<net, db, wire>>

CloseConfirm ==
  /\ ui.intent # "none" /\ ~ui.mutating
  /\ ui' = [ui EXCEPT !.intent = "none", !.acknowledged = FALSE, !.confirmError = FALSE]
  /\ UNCHANGED <<net, db, wire>>

DraftLoosens == ui.rules # Null /\ ui.draft = <<TRUE>>

Acknowledge ==
  /\ ui.intent = "rules-save" /\ DraftLoosens
  /\ ui' = [ui EXCEPT !.acknowledged = ~@]
  /\ UNCHANGED <<net, db, wire>>

\* reason: whether the operator gave one.  The request carries the draft and, when it
\* loosens, the confirmation, which the API does not come to look at.
SaveRules(reason) ==
  /\ CanClick /\ ui.intent = "rules-save" /\ ~ui.mutating
  /\ ui.loaded # Null /\ ui.rules # Null /\ ui.draft # Null
  /\ IF (DraftLoosens /\ ~ui.acknowledged) \/ ~reason
     THEN ui' = [ui EXCEPT !.confirmError = TRUE] /\ UNCHANGED net
     ELSE /\ ui' = [Clicked EXCEPT !.mutating = TRUE, !.rulesSaving = TRUE, !.rulesError = FALSE]
          /\ net' = Issue(net, "patch", ui.loaded[1])
  /\ UNCHANGED <<db, wire>>

ApplyKillSwitch(reason) ==
  /\ ui.intent \notin {"none", "rules-save"} /\ CanClick /\ ~ui.mutating
  /\ ui.loaded # Null
  /\ IF ~reason
     THEN ui' = [ui EXCEPT !.confirmError = TRUE] /\ UNCHANGED net
     ELSE /\ ui' = [Clicked EXCEPT !.mutating = TRUE, !.confirmError = FALSE]
          /\ net' = Issue(net, "switch", [account |-> ui.loaded[1], intent |-> ui.intent])
  /\ UNCHANGED <<db, wire>>

----------------------------------------------------------------------------
(* Answers.  A failed status load clears the status: it is never taken as safe. *)

DeliverStatus(r, rest) ==
  /\ r.op = "status"
  /\ ui' = [ui EXCEPT !.statusLoading = FALSE, !.status = r.val, !.statusUnknown = FALSE,
                      !.statusError = @ \/ ~r.ok]
  /\ net' = rest

\* A 503 says the trading state is unknown.
DeliverUnknownStatus(r, rest) ==
  /\ r.op = "status" /\ ~r.ok
  /\ ui' = [ui EXCEPT !.statusLoading = FALSE, !.status = Null, !.statusUnknown = TRUE,
                      !.statusError = TRUE]
  /\ net' = rest

DeliverRules(r, rest) ==
  /\ r.op = "rules"
  /\ ui' = [ui EXCEPT !.rulesLoading = FALSE, !.rules = r.val, !.rulesError = @ \/ ~r.ok,
                      !.draft = IF r.ok THEN <<FALSE>> ELSE Null]
  /\ net' = rest

DeliverPatch(r, rest) ==
  /\ r.op = "patch"
  /\ ui' = [ui EXCEPT !.rulesSaving = FALSE, !.mutating = FALSE, !.rulesError = @ \/ ~r.ok,
                      !.intent = IF r.ok THEN "none" ELSE @,
                      !.rules = IF r.ok THEN r.val ELSE @, !.draft = IF r.ok THEN <<FALSE>> ELSE @]
  /\ net' = rest

\* The handler of a successful change reloads the status before it ends; its
\* mutating flag falls with that load's answer, which carries the flag here.
DeliverSwitch(r, rest) ==
  /\ r.op = "switch"
  /\ IF r.ok
     THEN /\ ui' = StartStatus([ui EXCEPT !.intent = "none"])
          /\ net' = Issue(rest, "reload", r.arg.account)
     ELSE /\ ui' = [ui EXCEPT !.mutating = FALSE, !.confirmError = TRUE]
          /\ net' = rest

DeliverReload(r, rest) ==
  /\ r.op = "reload"
  /\ ui' = [ui EXCEPT !.statusLoading = FALSE, !.status = r.val, !.statusUnknown = FALSE,
                      !.statusError = @ \/ ~r.ok, !.mutating = FALSE]
  /\ net' = rest

Deliver ==
  /\ \E i \in Deliverable : LET r == net[i] rest == Handled(i) IN
       \/ DeliverStatus(r, rest) \/ DeliverUnknownStatus(r, rest) \/ DeliverRules(r, rest)
       \/ DeliverPatch(r, rest) \/ DeliverSwitch(r, rest) \/ DeliverReload(r, rest)
  /\ UNCHANGED <<db, wire>>

----------------------------------------------------------------------------
(* The API. *)

StatusAnswer(a) == [account |-> a, global |-> db.global, paused |-> a \in db.paused]

Switched(arg) ==
  IF GlobalScope(arg.intent) THEN [db EXCEPT !.global = <<Enables(arg.intent)>>]
  ELSE [db EXCEPT !.paused = IF Enables(arg.intent) THEN @ \cup {arg.account} ELSE @ \ {arg.account}]

\* patch_risk_rules, for a request that names an account.
ServePatch(r, i) ==
  /\ r.op = "patch"
  /\ net' = Refused(i)
  /\ UNCHANGED db

ServeSwitch(r, i) ==
  /\ r.op = "switch"
  /\ db' = Switched(r.arg)
  /\ net' = Served(i, r.arg.intent)

ServeRules(r, i) ==
  /\ r.op = "rules"
  /\ net' = Served(i, [account |-> r.arg])
  /\ UNCHANGED db

\* The status is unavailable until the switches were set once, and while the
\* account's equity cannot be trusted.
ServeStatus(r, i) ==
  /\ r.op \in {"status", "reload"}
  /\ \/ net' = Refused(i)
     \/ db.global # Null /\ net' = Served(i, StatusAnswer(r.arg))
  /\ UNCHANGED db

Serve ==
  /\ \E i \in Servable : LET r == net[i] IN
       ServePatch(r, i) \/ ServeSwitch(r, i) \/ ServeRules(r, i) \/ ServeStatus(r, i)
  /\ UNCHANGED <<ui, wire>>

RiskNext ==
  \/ \E a \in Accounts : LoadAccount(a)
  \/ \E looser \in BOOLEAN : EditDraft(looser)
  \/ \E intent \in Intents \ {"none"} : OpenConfirm(intent)
  \/ \E reason \in BOOLEAN : SaveRules(reason) \/ ApplyKillSwitch(reason)
  \/ StatusTick \/ RevertDraft \/ CloseConfirm \/ Acknowledge \/ Deliver \/ Serve \/ RequestFails

----------------------------------------------------------------------------
(* Properties. *)

\* Once the rules are not loading, the form is of the loaded account, and on an
\* ordered wire so is the status once no load of it is due, although polls, account
\* loads and the reloads after a kill-switch change overlap.
RiskAgrees ==
  /\ ~ui.rulesLoading /\ ui.rules # Null => ui.rules[1].account = ui.loaded[1]
  /\ wire = "ordered" /\ ui.status # Null /\ ~Pending("status") /\ ~Pending("reload") =>
       ui.status[1].account = ui.loaded[1]
=============================================================================
