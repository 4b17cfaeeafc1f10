------------------------ MODULE OrderReconciliation ------------------------
(***************************************************************************)
(* One submitted live order under reconciliation: a pass reads the order   *)
(* row, the balance snapshot and the provider's answer, and later appends  *)
(* to the append-only event log, books the listed fills, maps the answer   *)
(* to an order status and commits.  The order row is read without a lock,  *)
(* so passes of the scheduler and of an operator may overlap.              *)
(*                                                                         *)
(* Of the event log the module keeps what later decisions read: which      *)
(* unresolved events were ever appended (their idempotency keys) and       *)
(* whether the latest event is a resolved or an unresolved one.            *)
(***************************************************************************)
EXTENDS Integers, FiniteSets

CONSTANTS
  FillCount,    \* number of fills that execute the order in full
  Sizes,        \* the order sizes a provider may state, in fills; 0: it states none
  Reconcilers,  \* concurrently live passes
  Schedulers,   \* those driven by the orchestration worker; the others by the API
  Anomalies     \* what may go wrong around the order, from AnomalyNames

\* missing: the provider does not find the order; unknown: it reports a status
\* outside the contract; conflict: another client or provider order id;
\* identity: another product or side; stale: an earlier status is reported;
\* lag: the fill list omits fills; partial: the order ends partly executed;
\* lost: the request never arrived; unproven: no balance was recorded at the
\* submission; uncorrelated: the order's campaign is contradictory.
AnomalyNames == {"missing", "unknown", "conflict", "identity", "stale", "lag",
                 "partial", "lost", "unproven", "uncorrelated"}

ASSUME FillCountAssumption == FillCount \in Nat \ {0}
ASSUME SizesAssumption == Sizes \subseteq Nat
ASSUME SchedulersAssumption == Schedulers \subseteq Reconcilers
ASSUME AnomaliesAssumption == Anomalies \subseteq AnomalyNames

Fills == 1..FillCount

TerminalOrders == {"FILLED", "CANCELLED", "REJECTED"}
OrderStates == TerminalOrders \cup
  {"ACKNOWLEDGED", "PARTIALLY_FILLED", "RECONCILIATION_REQUIRED", "UNKNOWN"}

\* Normalized provider statuses, and the answers that carry none.
FinalStatuses == {"filled", "canceled"}
Statuses == FinalStatuses \cup {"open", "partially_filled", "unknown"}
Answers == Statuses \cup {"missing", "conflict", "identity"}

Evidence == {"ok", "missing_balance", "stale_balance", "mismatch"}

\* Keys of the events that leave an order unresolved.
Keys == (Answers \ FinalStatuses) \cup (Evidence \ {"ok"})

VARIABLES
  exch,       \* state of the order at the exchange
  executed,   \* its fills so far
  status,     \* the local order row's status
  log,        \* [keys, latest]: the reconciliation events of the order
  booked,     \* accounting rows per fill
  claim,      \* held, or the outcome the execution claim was released with
  balance,    \* the connection's balance snapshot: fills it reflects, recent or not
  origin,     \* what the submission left: whether a balance and a campaign that agrees
              \* were recorded, and the size the provider states, Kraken's "vol", which
              \* is FillCount unless the order was sized in quote currency
  pass        \* each reconciler's pass in progress

exchange == <<exch, executed>>
rows     == <<status, log, booked>>
vars     == <<exchange, rows, claim, balance, origin, pass>>

NoPass == [active |-> FALSE, loaded |-> "ACKNOWLEDGED", answer |-> "missing",
           reflects |-> {}, recent |-> FALSE]

Init ==
  /\ exch \in {"live"} \cup (IF "lost" \in Anomalies THEN {"none"} ELSE {})
  /\ executed = {}
  /\ origin \in [baseline : IF "unproven" \in Anomalies THEN BOOLEAN ELSE {TRUE},
                 correlated : IF "uncorrelated" \in Anomalies THEN BOOLEAN ELSE {TRUE},
                 size : Sizes]
  /\ status = IF origin.baseline /\ exch = "live" THEN "ACKNOWLEDGED" ELSE "RECONCILIATION_REQUIRED"
  /\ log = [keys |-> {}, latest |-> "none"]
  /\ booked = [f \in Fills |-> 0]
  /\ claim = "held"
  /\ balance = [reflects |-> {}, recent |-> TRUE]
  /\ pass = [r \in Reconcilers |-> NoPass]

-----------------------------------------------------------------------------
(* The exchange and the clock.                                              *)

Fill ==
  /\ exch = "live"
  /\ executed' = executed \cup {Cardinality(executed) + 1}
  /\ exch' = IF executed' = Fills THEN "filled" ELSE exch
  /\ UNCHANGED <<rows, claim, balance, origin, pass>>

\* The order is cancelled, or closed without being executed in full.
Close ==
  /\ exch = "live"
  /\ executed # {} => "partial" \in Anomalies
  /\ exch' \in {"canceled", "closed"}
  /\ UNCHANGED <<executed, rows, claim, balance, origin, pass>>

\* live_crypto_balance_max_age_seconds pass, for loaded copies too.
BalanceAges ==
  /\ balance.recent
  /\ balance' = [balance EXCEPT !.recent = FALSE]
  /\ pass' = [r \in Reconcilers |-> [pass[r] EXCEPT !.recent = FALSE]]
  /\ UNCHANGED <<exchange, rows, claim, origin>>

-----------------------------------------------------------------------------
(* Beginning a pass.                                                        *)

\* lookup_order, normalized: a closed order counts as filled unless it is
\* known to be partly executed.
TrueAnswer ==
  CASE exch = "none"     -> "missing"
    [] exch = "live"     -> "open"
    [] exch = "canceled" -> "canceled"
    [] exch = "closed" /\ executed # {} -> "partially_filled"
    [] OTHER             -> "filled"

StaleAnswers ==
  IF "stale" \notin Anomalies \/ exch = "none" THEN {}
  ELSE {"open"} \cup (IF executed # {} THEN {"partially_filled"} ELSE {})

PossibleAnswers ==
  {TrueAnswer} \cup StaleAnswers \cup (Anomalies \cap {"missing", "unknown", "conflict", "identity"})

Start(r, answer, snapshot) ==
  pass' = [pass EXCEPT ![r] = [active |-> TRUE, loaded |-> status, answer |-> answer,
                               reflects |-> snapshot.reflects, recent |-> snapshot.recent]]

\* Mutant: terminal orders are never looked at again.
CandidateOpen == status \notin TerminalOrders

\* discover_reconciliation_candidates; a held claim of a terminal order is
\* released instead.
Candidate ==
  \/ status \notin TerminalOrders
  \/ log.latest = "unresolved" /\ claim # "held"

Refreshed == [reflects |-> executed, recent |-> TRUE]

\* A candidate whose status is terminal has its balance evidence refreshed
\* first; a refresh that is not authenticated keeps the old balances but is
\* dated now.
BeginScheduled(r, answer) ==
  /\ ~pass[r].active
  /\ Candidate
  /\ balance' \in IF status \in TerminalOrders
                  THEN {Refreshed, [balance EXCEPT !.recent = TRUE]}
                  ELSE {balance}
  /\ Start(r, answer, balance')
  /\ UNCHANGED <<exchange, rows, claim, origin>>

BeginRequested(r, answer) ==
  /\ ~pass[r].active
  /\ Start(r, answer, balance)
  /\ UNCHANGED <<exchange, rows, claim, balance, origin>>

Begin(r) ==
  \E answer \in PossibleAnswers :
    IF r \in Schedulers THEN BeginScheduled(r, answer) ELSE BeginRequested(r, answer)

\* The operator refreshes the connection's balances.
RefreshBalances ==
  /\ balance # Refreshed
  /\ balance' = Refreshed
  /\ UNCHANGED <<exchange, rows, claim, origin, pass>>

-----------------------------------------------------------------------------
(* record_live_order_reconciliation: an unresolved event is appended once   *)
(* per key; a resolved one also whenever the latest event is unresolved.    *)

Noted(l, key) ==
  IF key \in l.keys THEN l ELSE [keys |-> l.keys \cup {key}, latest |-> "unresolved"]

Resolved(l) == [l EXCEPT !.latest = "resolved"]

\* An UPDATE is emitted only when the value differs from the loaded one.
Stored(loaded, new) == IF new = loaded THEN status ELSE new

EndPass(r) == pass' = [pass EXCEPT ![r] = NoPass]

(* _reaffirm_filled_and_block_regression: whatever a pass observes, an      *)
(* order it loaded as FILLED stays FILLED.                                  *)
Reaffirm(r) ==
  /\ pass[r].active
  /\ pass[r].loaded = "FILLED"
  /\ pass[r].answer \notin {"filled", "identity"}
  /\ log' = Resolved(log)
  /\ EndPass(r)
  /\ UNCHANGED <<exchange, status, booked, claim, balance, origin>>

\* Mutant: an order loaded as FILLED is not exempt.
FailClosedAlways(r) ==
  /\ pass[r].active
  /\ pass[r].answer \in {"identity", "missing", "conflict"}
  /\ log' = Noted(log, pass[r].answer)
  /\ status' = Stored(pass[r].loaded, "RECONCILIATION_REQUIRED")
  /\ EndPass(r)
  /\ UNCHANGED <<exchange, booked, claim, balance, origin>>

\* The provider's answer is missing or names another order.
FailClosed(r) ==
  /\ pass[r].active
  /\ \/ pass[r].answer = "identity"
     \/ pass[r].answer \in {"missing", "conflict"} /\ pass[r].loaded # "FILLED"
  /\ log' = Noted(log, pass[r].answer)
  /\ status' = Stored(pass[r].loaded, "RECONCILIATION_REQUIRED")
  /\ EndPass(r)
  /\ UNCHANGED <<exchange, booked, claim, balance, origin>>

-----------------------------------------------------------------------------
(* The main path: status event, fills, balance evidence, status mapping.    *)

Listings == IF "lag" \in Anomalies THEN SUBSET executed ELSE {executed}

Booked == {f \in Fills : booked[f] > 0}
\* Mutant: listed fills are booked without looking for their key.
UnbookedAll(listed) == listed

Unbooked(listed) == listed \ Booked

AfterStatus(answer) == IF answer \in FinalStatuses THEN Resolved(log) ELSE Noted(log, answer)

\* Mutant: the listed fills are always taken for the whole order.
AfterFillsListed(l, answer, listed) ==
  LET last == CHOOSE f \in Unbooked(listed) : \A g \in Unbooked(listed) : g <= f
  IN IF Unbooked(listed) = {} THEN l
     ELSE IF Cardinality({f \in listed : f <= last}) < Cardinality(listed)
          THEN [l EXCEPT !.latest = "unresolved"]
          ELSE Resolved(l)

\* The listed fills count as the whole order when the provider says filled, and
\* when it states no size.
OrderQuantity(answer, listed) ==
  IF answer # "filled" /\ origin.size > 0 THEN origin.size ELSE Cardinality(listed)

\* record_live_fill_reconciliation: the event of the last new fill says filled
\* when the fills listed up to it make up the order's quantity.
AfterFills(l, answer, listed) ==
  LET last == CHOOSE f \in Unbooked(listed) : \A g \in Unbooked(listed) : g <= f
  IN IF Unbooked(listed) = {} THEN l
     ELSE IF Cardinality({f \in listed : f <= last}) < OrderQuantity(answer, listed)
          THEN [l EXCEPT !.latest = "unresolved"]
          ELSE Resolved(l)

\* The balance movement since the submission must be that of the booked fills.
BalanceEvidence(m, total) ==
  IF total = {} THEN "ok"
  ELSE IF ~m.recent THEN "stale_balance"
  ELSE IF ~origin.baseline THEN "missing_balance"
  ELSE IF m.reflects # total THEN "mismatch" ELSE "ok"

AfterBalance(l, evidence) == IF evidence = "ok" THEN l ELSE Noted(l, evidence)

Complete(answer, evidence) == answer \in FinalStatuses /\ evidence = "ok" /\ origin.correlated

\* Mutant: the provider's spelling of a cancelled order is stored.
MappedStatusRaw(answer, total) ==
  CASE answer = "filled"           -> IF total # {} THEN "FILLED" ELSE "REJECTED"
    [] answer = "canceled"         -> "CANCELED"
    [] OTHER                       -> "ACKNOWLEDGED"

\* Mutant: a cancelled order is CANCELLED, executed in part or not.
MappedStatusCancelled(answer, total) ==
  CASE answer = "filled"           -> IF total # {} THEN "FILLED" ELSE "REJECTED"
    [] answer = "canceled"         -> "CANCELLED"
    [] OTHER                       -> "ACKNOWLEDGED"

\* Mutant: the first fill counts as the execution of the order.
MappedStatusEager(answer, total) ==
  IF total # {} THEN "FILLED"
  ELSE IF answer = "canceled" THEN "CANCELLED" ELSE "ACKNOWLEDGED"

MappedStatus(answer, total) ==
  CASE answer = "filled"           -> IF total # {} THEN "FILLED" ELSE "REJECTED"
    [] answer = "canceled"         -> IF total # {} THEN "PARTIALLY_FILLED" ELSE "CANCELLED"
    [] answer = "partially_filled" -> IF total # {} THEN "PARTIALLY_FILLED" ELSE "RECONCILIATION_REQUIRED"
    [] answer = "unknown"          -> "UNKNOWN"
    [] OTHER                       -> "ACKNOWLEDGED"

\* A balance mismatch or a contradictory campaign overrides the mapping, but
\* not for an order loaded as FILLED, which is restored.
Conclude(r, listed) ==
  LET m        == pass[r]
      total    == Booked \cup listed
      evidence == BalanceEvidence(m, total)
      noted    == AfterBalance(AfterFills(AfterStatus(m.answer), m.answer, listed), evidence)
      checked  == IF evidence = "mismatch" \/ ~origin.correlated
                  THEN "RECONCILIATION_REQUIRED" ELSE MappedStatus(m.answer, total)
  IN /\ m.active
     /\ m.answer \in Statuses
     /\ m.loaded = "FILLED" => m.answer = "filled"
     /\ booked' = [f \in Fills |-> IF f \in Unbooked(listed) THEN booked[f] + 1 ELSE booked[f]]
     /\ log' = IF Complete(m.answer, evidence) THEN Resolved(noted) ELSE noted
     /\ status' = IF m.loaded = "FILLED" /\ checked # "FILLED" THEN "FILLED"
                  ELSE Stored(m.loaded, checked)
     /\ EndPass(r)
     /\ UNCHANGED <<exchange, claim, balance, origin>>

\* The pass fails (provider outage, missing credentials, a unique-key
\* collision with another pass) or its process dies: everything rolls back.
Abort(r) ==
  /\ pass[r].active
  /\ EndPass(r)
  /\ UNCHANGED <<exchange, rows, claim, balance, origin>>

Finish(r) == Reaffirm(r) \/ FailClosed(r) \/ \E listed \in Listings : Conclude(r, listed)

\* Mutant: only a filled order releases its claim.
ReleaseFilled(r) ==
  /\ r \in Schedulers
  /\ ~pass[r].active
  /\ claim = "held"
  /\ status = "FILLED"
  /\ claim' = "executed"
  /\ UNCHANGED <<exchange, rows, balance, origin, pass>>

\* release_execution_claim_scope_if_order_resolved, committed by the
\* scheduler only.
Release(r) ==
  /\ r \in Schedulers
  /\ ~pass[r].active
  /\ claim = "held"
  /\ status \in TerminalOrders
  /\ claim' = IF status = "FILLED" THEN "executed" ELSE "unexecuted"
  /\ UNCHANGED <<exchange, rows, balance, origin, pass>>

-----------------------------------------------------------------------------
Next ==
  \/ Fill \/ Close \/ BalanceAges \/ RefreshBalances
  \/ \E r \in Reconcilers : Begin(r) \/ Finish(r) \/ Abort(r) \/ Release(r)

Spec == Init /\ [][Next]_vars

\* The scheduler polls every cycle; now and then its refresh succeeds, the
\* provider answers truthfully and that pass is carried through in time.
TruthfulBegin(r) ==
  BeginScheduled(r, TrueAnswer) /\ (status \in TerminalOrders => balance' = Refreshed)
TruthfulFinish(r) ==
  /\ Finish(r)
  /\ pass[r].answer = TrueAnswer
  /\ status \in TerminalOrders => pass[r].reflects = executed /\ pass[r].recent

Fairness ==
  /\ WF_vars(Fill)
  /\ WF_vars(BalanceAges)
  /\ \A r \in Schedulers :
       /\ SF_vars(TruthfulBegin(r))
       /\ SF_vars(TruthfulFinish(r))
       /\ WF_vars(Finish(r))
       /\ WF_vars(Release(r))

FairSpec == Spec /\ Fairness

-----------------------------------------------------------------------------
(* Properties.                                                              *)

\* The variables keep their types (column domains of the order, event and
\* accounting rows).
TypeOK ==
  /\ exch \in {"none", "live", "filled", "canceled", "closed"}
  /\ executed \subseteq Fills
  /\ status \in OrderStates
  /\ log \in [keys : SUBSET Keys, latest : {"none", "resolved", "unresolved"}]
  /\ booked \in [Fills -> Nat]
  /\ claim \in {"held", "executed", "unexecuted"}
  /\ balance \in [reflects : SUBSET Fills, recent : BOOLEAN]
  /\ origin \in [baseline : BOOLEAN, correlated : BOOLEAN, size : Nat]
  /\ pass \in [Reconcilers -> [active : BOOLEAN, loaded : OrderStates, answer : Answers,
                               reflects : SUBSET Fills, recent : BOOLEAN]]

\* No fill is accounted twice, or before it happened, however passes overlap,
\* abort and repeat (record_live_fill_reconciliation).
BookedOnce == \A f \in Fills : booked[f] <= 1 /\ (booked[f] = 1 => f \in executed)

\* Once FILLED, no later observation downgrades the order (comment on
\* _AUTHORITATIVE_FILLED_STATUS).
FilledNeverDowngraded == [][status = "FILLED" => status' = "FILLED"]_vars

\* An order recorded FILLED was executed in full and all of it is booked
\* (status mapping of reconcile_live_order_and_fills).
FilledIsAccounted == status = "FILLED" => exch = "filled" /\ Booked = Fills

\* The reconciliation guard reads the latest event of an order the exchange has
\* not decided as resolved (has_unresolved_reconciliation) only when the order
\* is partly executed and its provider states no size for it, or one below its own:
\* never without a fill, and never where the size is stated, however stale the
\* answers and however passes overlap.
GuardClosedWhileUndecided ==
  log.latest = "resolved" /\ exch \in {"none", "live"} =>
    executed # {} /\ origin.size < FillCount

\* The reconciliation promise of the module OrderOutcome: the claim's verdict
\* is given once, after the exchange's decision, and is true.
Outcome == INSTANCE OrderOutcome WITH
  outcome <- CASE exch = "filled" -> "executed"
               [] exch \in {"canceled", "closed"} /\ executed = {} -> "unexecuted"
               [] exch \in {"canceled", "closed"} /\ executed # {} -> "partly_executed"
               [] OTHER -> "undecided",
  verdict <- IF claim = "held" THEN "none" ELSE claim
VerdictIsTrue == Outcome!Spec

\* Once the exchange has executed an order in full, or ended it unexecuted, the
\* scheduler eventually releases its claim, unless the order's campaign is
\* contradictory (scheduler and claim docstrings).
DecidedOrderIsReleased ==
  /\ exch = "filled" \/ (exch \in {"canceled", "closed"} /\ executed = {})
  /\ origin.correlated
  ~> claim # "held"

\* The guard reopens after an execution is proved: an order executed in full,
\* with balances recorded at its submission, ends with a resolved latest event
\* (terminal_with_unresolved_evidence).
ExecutedOrderIsCleared ==
  exch = "filled" /\ origin.baseline /\ origin.correlated ~> [](log.latest = "resolved")

=============================================================================
