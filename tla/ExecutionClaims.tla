-------------------------- MODULE ExecutionClaims --------------------------
(***************************************************************************)
(* The autonomous execution claim: how one activated canonical package of  *)
(* one campaign version becomes at most one order at the exchange.         *)
(*                                                                         *)
(* A worker (an orchestration process) claims an activated package,        *)
(* prepares its dry-run order, records the attempt in the campaign's       *)
(* commissioned-execution slot, starts the submission, calls the provider, *)
(* records the reply, settles the slot and finally updates the claim.      *)
(* Each action below is one committed database transaction (or the         *)
(* provider call between two of them), so a crash is possible between any  *)
(* two actions.  Reconciliation, by the worker or by an operator through   *)
(* the API, moves the order to what the exchange reports and the worker    *)
(* then releases the claim.                                                *)
(*                                                                         *)
(* All packages share one campaign version and one provider, environment   *)
(* and product: the scope the claims compete for.                          *)
(***************************************************************************)
EXTENDS Integers, FiniteSets

CONSTANTS
  Packages,    \* the activated packages of the campaign version
  Buys,        \* those whose side is BUY; the others are SELL
  Production,  \* BUY packages of an ordinary production mandate (custody hand-off)
  Historical,  \* packages that have a claim written by an earlier release
  NoPackage,   \* the holder of a commissioned slot nobody has used
  Workers,     \* concurrently live orchestration processes
  Stresses,    \* which of the circumstances in StressNames are in play
  MaxCrashes   \* bound: how many times a worker is killed mid-attempt

\* redrive: a later cycle advances the claim of a package again;
\* veto: the execution-time risk evaluation may reject;
\* partial: an order may end partly executed;
\* lag: the fill list of the provider may lag behind its order status.
StressNames == {"redrive", "veto", "partial", "lag"}

ASSUME PackagesAssumption == IsFiniteSet(Packages)
ASSUME BuysAssumption == Buys \subseteq Packages
ASSUME ProductionAssumption == Production \subseteq Buys
ASSUME HistoricalAssumption == Historical \subseteq Packages /\ \A g, h \in Historical : g = h
ASSUME NoPackageAssumption == NoPackage \notin Packages
ASSUME StressesAssumption == Stresses \subseteq StressNames
ASSUME MaxCrashesAssumption == MaxCrashes \in Nat

NonterminalClaims ==
  {"CLAIMED", "EXECUTION_STARTED", "SUBMISSION_PENDING", "RECONCILIATION_REQUIRED"}
ReleasedClaims ==
  {"SAFETY_DISABLED", "FAILED_PRE_PROVIDER", "COMPLETED", "CANCELLED", "BUY_RECONCILED"}
ClaimStates == {"NONE"} \cup NonterminalClaims \cup ReleasedClaims

OpenOrders == {"PENDING_CONFIRMATION", "SUBMISSION_PENDING", "ACKNOWLEDGED",
               "PARTIALLY_FILLED", "RECONCILIATION_REQUIRED"}
TerminalOrders == {"FILLED", "CANCELLED", "REJECTED"}
OrderStates == {"DRY_RUN_READY", "CONFIRMATION_EXPIRED"} \cup OpenOrders \cup TerminalOrders

Sides == {"BUY", "SELL"}
Side(p) == IF p \in Buys THEN "BUY" ELSE "SELL"

VARIABLES
  claim,      \* claim_status of the package's claim, NONE before there is one
  order,      \* status of the package's live order
  submitted,  \* the order has a submitted_at
  acked,      \* a submit audit row with the replay key exists
  event,      \* latest reconciliation event of the order
  booked,     \* fills of the order are in live_accounting_records
  custody,    \* packages with a position custody row
  effective,  \* the package's activation is ACTIVE and unexpired
  exch,       \* what the exchange knows of the order
  calls,      \* create-order requests sent for the package's order
  slot,       \* entry_execution / exit_execution of the campaign version
  session,    \* each worker's attempt: program counter and loaded rows
  halted,     \* a kill switch covering the account is engaged
  enabled,    \* live_crypto_order_submission_enabled
  crashes     \* how many workers were killed so far

rows  == <<claim, order, submitted, acked, event, booked, custody, effective>>
world == <<exch, calls, halted, enabled>>
vars  == <<rows, world, slot, session, crashes>>

-----------------------------------------------------------------------------
(* A worker's attempt.  expire_on_commit is False and no query refreshes    *)
(* rows already loaded, so after a commit the worker keeps deciding on the  *)
(* claim and the order as it last saw them: session[w].claim and .order.    *)

Points == {"idle", "execute", "submit", "failing", "call", "record", "settle", "tail"}
Replies == {"none", "accepted", "rejected", "ambiguous"}
Sessions == [pc : Points, pkg : Packages \cup {NoPackage},
             claim : ClaimStates, order : OrderStates, reply : Replies]

IdleSession == [pc |-> "idle", pkg |-> NoPackage, claim |-> "NONE",
                order |-> "DRY_RUN_READY", reply |-> "none"]
Idle(w) == session[w].pc = "idle"
At(w, point) == session[w].pc = point
EndAttempt(w) == session' = [session EXCEPT ![w] = IdleSession]

\* An UPDATE is emitted only for an attribute whose loaded value changes.
Stored(stored, loaded, new) == IF new = loaded THEN stored ELSE new

\* Mutant: the index is not there.
ScopeUnguarded(p) == TRUE

\* uq_aec_active_campaign_scope: no other claim holds the campaign version.
ScopeFree(p) == \A q \in Packages \ {p} : claim[q] \notin NonterminalClaims

\* Mutant: ownership is read off the orders, not off the accounting rows.
OwnedByOrders == Cardinality({p \in Buys : submitted[p]})
                 - Cardinality({p \in Packages \ Buys : submitted[p]})

\* Signed owned quantity in units of one position, from the accounting rows;
\* a partly executed SELL leaves the position open.
Owned == Cardinality({p \in Buys : booked[p]})
         - Cardinality({p \in Packages \ Buys : booked[p] /\ exch[p] = "filled"})

OwnershipAllows(p) == IF p \in Buys THEN Owned <= 0 ELSE Owned > 0
Unresolved == \E q \in Packages : event[q] = "unresolved"

\* mark_pre_provider_blocked: a prepared order that was never submitted is
\* cancelled with its claim.
Withdrawn(status, sent) == IF status = "PENDING_CONFIRMATION" /\ ~sent THEN "CANCELLED" ELSE status

-----------------------------------------------------------------------------
Init ==
  /\ claim \in [Packages -> {"NONE", "FAILED_PRE_PROVIDER", "CLAIMED"}]
  /\ \A p \in Packages : claim[p] = "NONE" <=> p \notin Historical
  /\ order = [p \in Packages |->
                IF claim[p] = "FAILED_PRE_PROVIDER" THEN "PENDING_CONFIRMATION" ELSE "DRY_RUN_READY"]
  /\ submitted = [p \in Packages |-> FALSE]
  /\ acked = [p \in Packages |-> FALSE]
  /\ event = [p \in Packages |-> "none"]
  /\ booked = [p \in Packages |-> FALSE]
  /\ custody = {}
  /\ effective = [p \in Packages |-> TRUE]
  /\ exch = [p \in Packages |-> "none"]
  /\ calls = [p \in Packages |-> 0]
  /\ slot = [s \in Sides |-> [holder |-> NoPackage, terminal |-> FALSE]]
  /\ session = [w \in Workers |-> IdleSession]
  /\ halted = FALSE
  /\ enabled \in BOOLEAN
  /\ crashes = 0

-----------------------------------------------------------------------------
(* advance_claimed_execution up to its first commit: prepare the order, or  *)
(* end the claim.  c is the loaded claim status, ord the orders as this     *)
(* transaction sees them.                                                   *)

CanPrepare(p, c) ==
  /\ c # "RECONCILIATION_REQUIRED"
  /\ effective[p]
  /\ ~halted
  /\ ~Unresolved
  /\ OwnershipAllows(p)

PrepareRefused(w, p, c, ord) ==
  /\ claim' = [claim EXCEPT ![p] = "FAILED_PRE_PROVIDER"]
  /\ order' = [ord EXCEPT ![p] = Withdrawn(ord[p], submitted[p])]
  /\ UNCHANGED session

\* The balance refresh fails in the transaction that prepared the order.
ReadinessRefused(w, p, c, ord) ==
  /\ CanPrepare(p, c)
  /\ enabled
  /\ ord[p] = "DRY_RUN_READY"
  /\ claim' = [claim EXCEPT ![p] = "FAILED_PRE_PROVIDER"]
  /\ order' = [ord EXCEPT ![p] = "CANCELLED"]
  /\ UNCHANGED session

PreparedOrder(p, ord) == IF ord[p] = "DRY_RUN_READY" THEN "PENDING_CONFIRMATION" ELSE ord[p]

SafetyDisabled(w, p, c, ord) ==
  /\ CanPrepare(p, c)
  /\ ~enabled
  /\ claim' = [claim EXCEPT ![p] = "SAFETY_DISABLED"]
  /\ order' = [ord EXCEPT ![p] = PreparedOrder(p, ord)]
  /\ UNCHANGED session

Prepared(w, p, c, ord) ==
  LET status == IF ord[p] = "DRY_RUN_READY" THEN "EXECUTION_STARTED" ELSE c
  IN /\ CanPrepare(p, c)
     /\ enabled
     /\ claim' = [claim EXCEPT ![p] = status]
     /\ order' = [ord EXCEPT ![p] = PreparedOrder(p, ord)]
     /\ session' = [session EXCEPT ![w] = [pc |-> "execute", pkg |-> p, claim |-> status,
                                           order |-> PreparedOrder(p, ord), reply |-> "none"]]

Advance(w, p, c, ord) ==
  /\ \/ PrepareRefused(w, p, c, ord)
     \/ ReadinessRefused(w, p, c, ord)
     \/ SafetyDisabled(w, p, c, ord)
     \/ Prepared(w, p, c, ord)
  /\ UNCHANGED <<submitted, acked, event, booked, custody, effective, world, slot, crashes>>

\* The historical order _recover_failed_pre_provider_order_for_scope would
\* terminalize, and the orders after it did.
Recoverable == {h \in Packages : /\ claim[h] = "FAILED_PRE_PROVIDER"
                                 /\ order[h] = "PENDING_CONFIRMATION"
                                 /\ ~submitted[h]}
RecoveredOrders == IF Recoverable = {} THEN {order}
                   ELSE {[order EXCEPT ![h] = "CANCELLED"] : h \in Recoverable}

ClaimAllowed(p, ord) ==
  /\ \A q \in Packages : ord[q] \notin OpenOrders
  /\ ~Unresolved
  /\ OwnershipAllows(p)
  /\ ScopeFree(p)

ClaimEligible(w, p) == Idle(w) /\ claim[p] = "NONE" /\ effective[p] /\ ~halted

\* claim_activated_package followed by advance_claimed_execution.
ClaimPackage(w, p) ==
  /\ ClaimEligible(w, p)
  /\ \E ord \in RecoveredOrders : ClaimAllowed(p, ord) /\ Advance(w, p, "CLAIMED", ord)

\* The claim is blocked after the recovery of a historical order.
ClaimBlocked(w, p) ==
  /\ ClaimEligible(w, p)
  /\ \E ord \in RecoveredOrders : ord # order /\ ~ClaimAllowed(p, ord) /\ order' = ord
  /\ UNCHANGED <<claim, submitted, acked, event, booked, custody, effective, world,
                 slot, session, crashes>>

\* Mutant: advance does not check that the claim is nonterminal.
RedriveAny(w, p) ==
  /\ "redrive" \in Stresses
  /\ Idle(w)
  /\ claim[p] # "NONE"
  /\ Advance(w, p, claim[p], order)

\* A later cycle finds the package's claim and advances it again.
Redrive(w, p) ==
  /\ "redrive" \in Stresses
  /\ Idle(w)
  /\ claim[p] \in NonterminalClaims
  /\ Advance(w, p, claim[p], order)

\* Mutant: the sweep takes every nonterminal claim.
SweepAll(w, p) ==
  /\ Idle(w)
  /\ claim[p] \in NonterminalClaims
  /\ Advance(w, p, claim[p], order)

\* Mutant: the sweep takes only claims without an order.
SweepClaimed(w, p) ==
  /\ Idle(w)
  /\ claim[p] = "CLAIMED"
  /\ Advance(w, p, claim[p], order)

\* sweep_stale_autonomous_execution_claims.
Sweep(w, p) ==
  /\ Idle(w)
  /\ claim[p] \in {"CLAIMED", "EXECUTION_STARTED"}
  /\ Advance(w, p, claim[p], order)

-----------------------------------------------------------------------------
(* execute_prepared_autonomous_claim and execute_commissioned_entry.        *)

\* Ending of advance_claimed_execution by its exception handler: the claim
\* and the order are judged on the loaded rows.
Blocked(w) ==
  LET p == session[w].pkg
      m == session[w]
  IN /\ IF m.claim \in ReleasedClaims
        THEN UNCHANGED <<claim, order>>
        ELSE /\ claim' = [claim EXCEPT ![p] = "FAILED_PRE_PROVIDER"]
             /\ order' = [order EXCEPT ![p] = Stored(@, m.order, Withdrawn(m.order, FALSE))]
     /\ EndAttempt(w)

Fail(w) ==
  /\ At(w, "failing")
  /\ Blocked(w)
  /\ UNCHANGED <<submitted, acked, event, booked, custody, effective, world, slot, crashes>>

\* A readiness, identity or activation check refuses before the slot is
\* recorded, or the slot belongs to an attempt that cannot be superseded.
ExecuteRefused(w) ==
  /\ At(w, "execute")
  /\ Blocked(w)
  /\ UNCHANGED <<submitted, acked, event, booked, custody, effective, world, slot, crashes>>

\* _is_recoverable_pre_provider_attempt.
RecoverableAttempts == {h \in Packages : order[h] = "CANCELLED" /\ ~submitted[h]}

SlotAvailable(p) == slot[Side(p)].holder \in {NoPackage, p} \cup RecoverableAttempts

SlotSpent(p) == slot[Side(p)] = [holder |-> p, terminal |-> TRUE]

\* The slot already holds this package's finished attempt.
ExecuteReplayed(w) ==
  /\ At(w, "execute")
  /\ effective[session[w].pkg]
  /\ SlotSpent(session[w].pkg)
  /\ session' = [session EXCEPT ![w].pc = "tail", ![w].reply = "accepted"]
  /\ UNCHANGED <<rows, world, slot, crashes>>

\* The execution-time risk evaluation rejects the order.
ExecuteVetoed(w) ==
  /\ "veto" \in Stresses
  /\ At(w, "execute")
  /\ effective[session[w].pkg]
  /\ SlotAvailable(session[w].pkg)
  /\ ~SlotSpent(session[w].pkg)
  /\ session' = [session EXCEPT ![w].pc = "tail", ![w].reply = "accepted"]
  /\ UNCHANGED <<rows, world, slot, crashes>>

\* Mutant: a superseded attempt keeps the slot.
ExecuteRecordedOnce(w) ==
  LET p == session[w].pkg
  IN /\ At(w, "execute")
     /\ effective[p]
     /\ SlotAvailable(p)
     /\ ~SlotSpent(p)
     /\ slot' = [slot EXCEPT ![Side(p)].holder = IF @ = NoPackage THEN p ELSE @]
     /\ session' = [session EXCEPT ![w].pc = "submit"]
     /\ UNCHANGED <<rows, world, crashes>>

\* The attempt is recorded in the slot before the submission.
ExecuteRecorded(w) ==
  LET p == session[w].pkg
  IN /\ At(w, "execute")
     /\ effective[p]
     /\ SlotAvailable(p)
     /\ ~SlotSpent(p)
     /\ slot' = [slot EXCEPT ![Side(p)] = [holder |-> p, terminal |-> FALSE]]
     /\ session' = [session EXCEPT ![w].pc = "submit"]
     /\ UNCHANGED <<rows, world, crashes>>

-----------------------------------------------------------------------------
(* LiveCryptoOrderService.submit.                                           *)

\* Mutant: a refused submission is settled as an ambiguous one.
SubmitRefusedAmbiguous(w) ==
  /\ At(w, "submit")
  /\ session' = [session EXCEPT ![w].pc = "settle", ![w].reply = "ambiguous"]
  /\ UNCHANGED <<rows, world, slot, crashes>>

\* Any check of submit raises, before anything is written.
SubmitRefused(w) ==
  /\ At(w, "submit")
  /\ Blocked(w)
  /\ UNCHANGED <<submitted, acked, event, booked, custody, effective, world, slot, crashes>>

\* The order already has a provider result: no call, the stored response is
\* returned.  Only a rejected or an acknowledged order has recorded that the
\* provider responded, and an acknowledged one is stopped by its replay key.
SubmitExisting(w) ==
  LET m == session[w]
  IN /\ At(w, "submit")
     /\ ~acked[m.pkg]
     /\ m.order \in {"ACKNOWLEDGED", "PARTIALLY_FILLED"} \cup TerminalOrders
     /\ session' = [session EXCEPT ![w].pc = "settle",
                                   ![w].reply = IF m.order = "REJECTED" THEN "rejected" ELSE "ambiguous"]
     /\ UNCHANGED <<rows, world, slot, crashes>>

\* The confirmation window is over: the order is closed in a commit of its
\* own, before the exception reaches the claim.
SubmitExpired(w) ==
  LET p == session[w].pkg
  IN /\ At(w, "submit")
     /\ ~acked[p]
     /\ session[w].order = "PENDING_CONFIRMATION"
     /\ ~effective[p]
     /\ order' = [order EXCEPT ![p] = "CONFIRMATION_EXPIRED"]
     /\ session' = [session EXCEPT ![w].pc = "failing", ![w].order = "CONFIRMATION_EXPIRED"]
     /\ UNCHANGED <<claim, submitted, acked, event, booked, custody, effective, world, slot, crashes>>

\* _validate_autonomous_one_shot_submission and the SELL quantity check.
OneShotAllowed(w) ==
  LET p == session[w].pkg
  IN /\ session[w].claim \in {"EXECUTION_STARTED", "SAFETY_DISABLED"}
     /\ effective[p]
     /\ ~halted
     /\ p \notin Buys => Owned > 0

\* Mutant: nothing is committed before the provider is called.
SubmitUncommitted(w) ==
  /\ At(w, "submit")
  /\ ~acked[session[w].pkg]
  /\ session[w].order = "PENDING_CONFIRMATION"
  /\ OneShotAllowed(w)
  /\ session' = [session EXCEPT ![w].pc = "call", ![w].order = "SUBMISSION_PENDING",
                                ![w].claim = "SUBMISSION_PENDING"]
  /\ UNCHANGED <<rows, world, slot, crashes>>

\* SUBMISSION_PENDING is committed on the order and the claim before the
\* provider is called.
SubmitStarted(w) ==
  LET p == session[w].pkg
  IN /\ At(w, "submit")
     /\ ~acked[p]
     /\ session[w].order = "PENDING_CONFIRMATION"
     /\ OneShotAllowed(w)
     /\ ScopeFree(p)
     /\ order' = [order EXCEPT ![p] = "SUBMISSION_PENDING"]
     /\ claim' = [claim EXCEPT ![p] = "SUBMISSION_PENDING"]
     /\ submitted' = [submitted EXCEPT ![p] = TRUE]
     /\ session' = [session EXCEPT ![w].pc = "call", ![w].order = "SUBMISSION_PENDING",
                                   ![w].claim = "SUBMISSION_PENDING"]
     /\ UNCHANGED <<acked, event, booked, custody, effective, world, slot, crashes>>

\* The create-order request is sent and answered; arrival is what becomes of
\* it at the exchange.
CallAnswered(w, reply, arrival) ==
  LET p == session[w].pkg
  IN /\ At(w, "call")
     /\ session' = [session EXCEPT ![w].pc = "record", ![w].reply = reply]
     /\ exch' = [exch EXCEPT ![p] = arrival]
     /\ calls' = [calls EXCEPT ![p] = @ + 1]
     /\ UNCHANGED <<rows, slot, halted, enabled, crashes>>

\* Accepted, rejected, or answered ambiguously with the request lost or still
\* on its way.
CallProvider(w) ==
  \/ CallAnswered(w, "accepted", "live")
  \/ CallAnswered(w, "ambiguous", "in_flight")
  \/ \E reply \in {"rejected", "ambiguous"} : CallAnswered(w, reply, exch[session[w].pkg])

\* The request cannot be built or sent.  A service-unavailable error is
\* settled as ambiguous, any other reaches the claim.
CallNotSent(w) ==
  /\ At(w, "call")
  /\ \/ session' = [session EXCEPT ![w].pc = "settle", ![w].reply = "ambiguous"]
     \/ session' = [session EXCEPT ![w].pc = "failing"]
  /\ UNCHANGED <<rows, world, slot, crashes>>

\* An explicit rejection resolves the order and releases the claim in the
\* same commit.
RecordRejected(w) ==
  LET p == session[w].pkg
  IN /\ At(w, "record")
     /\ session[w].reply = "rejected"
     /\ order' = [order EXCEPT ![p] = "REJECTED"]
     /\ claim' = [claim EXCEPT ![p] = "CANCELLED"]
     /\ effective' = [effective EXCEPT ![p] = FALSE]
     /\ session' = [session EXCEPT ![w].pc = "settle", ![w].order = "REJECTED", ![w].claim = "CANCELLED"]
     /\ UNCHANGED <<submitted, acked, event, booked, custody, world, slot, crashes>>

RecordAmbiguous(w) ==
  LET p == session[w].pkg
  IN /\ At(w, "record")
     /\ session[w].reply = "ambiguous"
     /\ order' = [order EXCEPT ![p] = "RECONCILIATION_REQUIRED"]
     /\ session' = [session EXCEPT ![w].pc = "settle", ![w].order = "RECONCILIATION_REQUIRED"]
     /\ UNCHANGED <<claim, submitted, acked, event, booked, custody, effective, world, slot, crashes>>

RecordAccepted(w) ==
  LET p == session[w].pkg
  IN /\ At(w, "record")
     /\ session[w].reply = "accepted"
     /\ order' = [order EXCEPT ![p] = "ACKNOWLEDGED"]
     /\ acked' = [acked EXCEPT ![p] = TRUE]
     /\ session' = [session EXCEPT ![w].pc = "settle", ![w].order = "ACKNOWLEDGED"]
     /\ UNCHANGED <<claim, submitted, event, booked, custody, effective, world, slot, crashes>>

\* The slot is finished unless the outcome is ambiguous.
Settle(w) ==
  LET m == session[w]
  IN /\ At(w, "settle")
     /\ slot' = [slot EXCEPT ![Side(m.pkg)] = [holder |-> m.pkg, terminal |-> m.reply # "ambiguous"]]
     /\ session' = [session EXCEPT ![w].pc = "tail"]
     /\ UNCHANGED <<rows, world, crashes>>

\* advance_claimed_execution after the execution returned.
Conclude(w) ==
  LET m == session[w]
      final == IF m.reply = "ambiguous" THEN "RECONCILIATION_REQUIRED" ELSE "SUBMISSION_PENDING"
  IN /\ At(w, "tail")
     /\ IF m.claim \in ReleasedClaims
        THEN UNCHANGED claim
        ELSE /\ final # m.claim => ScopeFree(m.pkg)
             /\ claim' = [claim EXCEPT ![m.pkg] = Stored(@, m.claim, final)]
     /\ EndAttempt(w)
     /\ UNCHANGED <<order, submitted, acked, event, booked, custody, effective, world, slot, crashes>>

\* The process dies mid-attempt; a new one starts with an empty session.
Crash(w) ==
  /\ ~Idle(w)
  /\ crashes < MaxCrashes
  /\ crashes' = crashes + 1
  /\ EndAttempt(w)
  /\ UNCHANGED <<rows, world, slot>>

Attempt(w) ==
  \/ ExecuteReplayed(w) \/ ExecuteVetoed(w) \/ ExecuteRecorded(w) \/ ExecuteRefused(w)
  \/ SubmitRefused(w) \/ SubmitExisting(w) \/ SubmitExpired(w) \/ SubmitStarted(w)
  \/ CallProvider(w) \/ CallNotSent(w)
  \/ RecordRejected(w) \/ RecordAmbiguous(w) \/ RecordAccepted(w)
  \/ Settle(w) \/ Conclude(w) \/ Fail(w)

-----------------------------------------------------------------------------
(* The exchange, and the operators around the workers.                      *)

\* A market order that reached the exchange is executed in full, in part or
\* not at all; a request on its way arrives.
ExchangeMoves(p) ==
  /\ \/ exch[p] = "in_flight" /\ exch' = [exch EXCEPT ![p] = "live"]
     \/ /\ exch[p] = "live"
        /\ \E outcome \in {"filled", "closed"} \cup
                          (IF "partial" \in Stresses THEN {"partly_filled"} ELSE {}) :
             exch' = [exch EXCEPT ![p] = outcome]
  /\ UNCHANGED <<rows, calls, halted, enabled, slot, session, crashes>>

ToggleKillSwitch ==
  /\ halted' = ~halted
  /\ UNCHANGED <<rows, exch, calls, enabled, slot, session, crashes>>

\* The setting is cached for the life of a process: it changes by redeploy.
Redeploy ==
  /\ \A w \in Workers : Idle(w)
  /\ enabled' = ~enabled
  /\ UNCHANGED <<rows, exch, calls, halted, slot, session, crashes>>

\* The activation's window ends, or an operator pauses or revokes it.
ActivationLapses(p) ==
  /\ effective[p]
  /\ effective' = [effective EXCEPT ![p] = FALSE]
  /\ UNCHANGED <<claim, order, submitted, acked, event, booked, custody, world, slot, session, crashes>>

-----------------------------------------------------------------------------
(* Reconciliation of one submitted order, by the scheduler of a worker or   *)
(* by an operator at any time.  One pass is one step here; the module       *)
(* OrderReconciliation takes a pass apart.                                  *)

Reconciled(p, status, evidence, fills) ==
  /\ submitted[p]
  /\ order' = [order EXCEPT ![p] = status]
  /\ event' = [event EXCEPT ![p] = evidence]
  /\ booked' = [booked EXCEPT ![p] = @ \/ fills]
  /\ UNCHANGED <<claim, submitted, acked, custody, effective, world, slot, session, crashes>>

\* Mutant: an order the provider does not find is taken as cancelled.
ReconcileMissingCancels(p) ==
  IF order[p] = "FILLED" THEN Reconciled(p, "FILLED", "resolved", FALSE)
  ELSE Reconciled(p, "CANCELLED", "resolved", FALSE)

\* The provider does not find the order.  Its event is appended only once.
ReconcileMissing(p) ==
  \/ order[p] = "FILLED" /\ Reconciled(p, "FILLED", "resolved", FALSE)
  \/ /\ order[p] # "FILLED"
     /\ \E evidence \in {"unresolved", event[p]} :
          Reconciled(p, "RECONCILIATION_REQUIRED", evidence, FALSE)

ReconcileOpen(p) ==
  /\ exch[p] = "live"
  /\ \E evidence \in {"unresolved", event[p]} : Reconciled(p, "ACKNOWLEDGED", evidence, FALSE)

\* The order is executed and its fills are listed.  Balance evidence may be
\* missing or stale, or contradict the fills.
ReconcileFilled(p) == exch[p] = "filled" /\ Reconciled(p, "FILLED", "resolved", TRUE)

ReconcileUnproven(p) == exch[p] = "filled" /\ Reconciled(p, "FILLED", "unresolved", TRUE)

ReconcileMismatch(p) ==
  /\ exch[p] = "filled"
  /\ Reconciled(p, IF order[p] = "FILLED" THEN "FILLED" ELSE "RECONCILIATION_REQUIRED", "unresolved", TRUE)

ReconcileClosed(p) == exch[p] = "closed" /\ Reconciled(p, "CANCELLED", "resolved", FALSE)

ReconcilePartlyFilled(p) ==
  /\ exch[p] = "partly_filled"
  /\ \E evidence \in {"resolved", "unresolved"} : Reconciled(p, "PARTIALLY_FILLED", evidence, TRUE)

\* No fill of the order is listed yet and none was booked before.
ReconcileLagging(p) ==
  /\ "lag" \in Stresses
  /\ ~booked[p]
  /\ \/ exch[p] = "filled" /\ Reconciled(p, "REJECTED", "resolved", FALSE)
     \/ exch[p] = "partly_filled" /\ Reconciled(p, "CANCELLED", "resolved", FALSE)

Reconcile(p) ==
  \/ ReconcileMissing(p) \/ ReconcileOpen(p) \/ ReconcileFilled(p) \/ ReconcileUnproven(p)
  \/ ReconcileMismatch(p) \/ ReconcileClosed(p) \/ ReconcilePartlyFilled(p) \/ ReconcileLagging(p)

\* Mutant: the order's outcome is stored as the claim's.
ReleasedStatusRaw(p) == IF order[p] = "FILLED" THEN "FILLED" ELSE "CANCELLED"

ReleasedStatus(p) ==
  IF order[p] # "FILLED" THEN "CANCELLED"
  ELSE IF p \in Buys THEN "BUY_RECONCILED" ELSE "COMPLETED"

\* Mutant: only a filled order releases its claim.
ReleaseFilled(w, p) ==
  /\ Idle(w)
  /\ order[p] = "FILLED" /\ booked[p]
  /\ claim[p] \in NonterminalClaims
  /\ custody' = custody \cup ({p} \cap Production)
  /\ claim' = [claim EXCEPT ![p] = ReleasedStatus(p)]
  /\ effective' = [effective EXCEPT ![p] = FALSE]
  /\ UNCHANGED <<order, submitted, acked, event, booked, world, slot, session, crashes>>

\* Mutant: the claim is released without the custody hand-off.
ReleaseWithoutCustody(w, p) ==
  /\ Idle(w)
  /\ submitted[p]
  /\ order[p] \in TerminalOrders
  /\ claim[p] \in NonterminalClaims
  /\ claim' = [claim EXCEPT ![p] = ReleasedStatus(p)]
  /\ effective' = [effective EXCEPT ![p] = FALSE]
  /\ UNCHANGED <<order, submitted, acked, event, booked, custody, world, slot, session, crashes>>

\* release_execution_claim_scope_if_order_resolved, in the scheduler's
\* transaction.  A production BUY enters custody first, or not at all.
Release(w, p) ==
  LET handoff == order[p] = "FILLED" /\ p \in Production
  IN /\ Idle(w)
     /\ submitted[p]
     /\ order[p] \in TerminalOrders
     /\ claim[p] \in NonterminalClaims
     /\ handoff => booked[p] /\ Owned = 1
     /\ custody' = IF handoff THEN custody \cup {p} ELSE custody
     /\ claim' = [claim EXCEPT ![p] = ReleasedStatus(p)]
     /\ effective' = [effective EXCEPT ![p] = FALSE]
     /\ UNCHANGED <<order, submitted, acked, event, booked, world, slot, session, crashes>>

-----------------------------------------------------------------------------
Next ==
  \/ \E w \in Workers : Attempt(w) \/ Crash(w)
  \/ \E w \in Workers, p \in Packages :
       ClaimPackage(w, p) \/ ClaimBlocked(w, p) \/ Redrive(w, p) \/ Sweep(w, p) \/ Release(w, p)
  \/ \E p \in Packages : Reconcile(p) \/ ExchangeMoves(p) \/ ActivationLapses(p)
  \/ ToggleKillSwitch
  \/ Redeploy

Spec == Init /\ [][Next]_vars

\* Processes run, the sweep and the reconciliation poll are part of every
\* cycle, the exchange decides market orders, and its final answer is
\* eventually looked up with good balance evidence.
Fairness ==
  /\ \A w \in Workers : WF_vars(Attempt(w))
  /\ \A p \in Packages : /\ WF_vars(\E w \in Workers : Sweep(w, p))
                         /\ SF_vars(\E w \in Workers : Release(w, p))
                         /\ WF_vars(ExchangeMoves(p))
                         /\ WF_vars(ReconcileFilled(p))
                         /\ WF_vars(ReconcileClosed(p))

FairSpec == Spec /\ Fairness

-----------------------------------------------------------------------------
(* Properties.                                                              *)

\* The model's variables keep their types (the status columns' domains).
TypeOK ==
  /\ claim \in [Packages -> ClaimStates]
  /\ order \in [Packages -> OrderStates]
  /\ submitted \in [Packages -> BOOLEAN]
  /\ acked \in [Packages -> BOOLEAN]
  /\ event \in [Packages -> {"none", "resolved", "unresolved"}]
  /\ booked \in [Packages -> BOOLEAN]
  /\ custody \subseteq Packages
  /\ effective \in [Packages -> BOOLEAN]
  /\ exch \in [Packages -> {"none", "in_flight", "live", "filled", "partly_filled", "closed"}]
  /\ calls \in [Packages -> Nat]
  /\ slot \in [Sides -> [holder : Packages \cup {NoPackage}, terminal : BOOLEAN]]
  /\ session \in [Workers -> Sessions]
  /\ \A w \in Workers : session[w].pc = "idle" <=> session[w].pkg = NoPackage
  /\ halted \in BOOLEAN
  /\ enabled \in BOOLEAN
  /\ crashes \in 0..MaxCrashes

\* At most one claim holds the campaign version's execution scope, whatever
\* expiries, crashes, sweeps and releases came before (autonomous_execution_claims).
OneScopeHolder ==
  \A p, q \in Packages :
    claim[p] \in NonterminalClaims /\ claim[q] \in NonterminalClaims => p = q

\* No package is ever sent to the provider twice, across crashes between the
\* call and its record, sweeps and repeated drives (LiveCryptoOrderService.submit).
OneProviderCall == \A p \in Packages : calls[p] <= 1

Executed(p) == exch[p] = "filled" \/ (exch[p] = "partly_filled" /\ p \in Buys)

\* What was really executed never exceeds one position and never goes short,
\* although the gates only see the booked part of it (claim_activated_package,
\* prepare_autonomous_claimed_order).
ExposureBound ==
  Cardinality({p \in Buys : Executed(p)}) - Cardinality({p \in Packages \ Buys : Executed(p)}) \in 0..1

\* A claim's final status never contradicts the exchange: a claim recorded as
\* executed was executed, one recorded as cancelled was not
\* (release_execution_claim_scope_if_order_resolved).
ClaimOutcomeIsTrue ==
  \A p \in Packages :
    /\ claim[p] \in {"BUY_RECONCILED", "COMPLETED"} => exch[p] = "filled"
    /\ claim[p] = "CANCELLED" => exch[p] \in {"none", "closed"}

\* An order withdrawn before its submission was never sent, so its attempt may
\* be superseded (mark_pre_provider_blocked, _is_recoverable_pre_provider_attempt).
WithdrawnOrderNeverSent ==
  \A p \in Packages : order[p] = "CANCELLED" /\ ~submitted[p] => calls[p] = 0

\* A claim that left the scope never changes again: no late write of a stale
\* attempt undoes a recorded outcome (advance_claimed_execution).
ReleasedIsFinal ==
  [][\A p \in Packages : claim[p] \in ReleasedClaims => claim'[p] = claim[p]]_vars

\* When a request goes out, the package is the one the commissioned slot
\* names and its claim holds the scope: nothing intervened since both were
\* recorded (execute_commissioned_entry, submit).
CallMatchesRecord ==
  [][\A p \in Packages : calls'[p] > calls[p] =>
       claim[p] = "SUBMISSION_PENDING" /\ slot[Side(p)] = [holder |-> p, terminal |-> FALSE]]_vars

\* A claim that left the scope without an order outcome never reached the
\* provider (comment on _CLAIM_SCOPE_RELEASED_STATES).
ReleasedMeansUncalledOrResolved ==
  \A p \in Packages : claim[p] \in {"FAILED_PRE_PROVIDER", "SAFETY_DISABLED"} => calls[p] = 0

\* A claim awaiting a provider outcome has started its submission (comment on
\* _CLAIM_SCOPE_NONTERMINAL_STATES).
PendingMeansSubmitted ==
  \A p \in Packages : claim[p] \in {"SUBMISSION_PENDING", "RECONCILIATION_REQUIRED"} => submitted[p]

\* Once the exchange has decided an order, its claim stops holding the scope
\* (release_execution_claim_scope_if_order_resolved).
ResolvedOrderReleasesScope ==
  \A p \in Packages :
    (claim[p] \in NonterminalClaims /\ exch[p] \in {"filled", "closed"})
      ~> claim[p] \in ReleasedClaims

\* A production BUY recorded as executed under a held claim ends up in position
\* custody, whatever happens to its worker (establish_buy_custody).
FilledBuyReachesCustody ==
  \A p \in Production :
    order[p] = "FILLED" /\ claim[p] \in NonterminalClaims ~> p \in custody

\* A claim whose worker died before the submission is eventually moved on
\* (sweep_stale_autonomous_execution_claims).
StartedClaimsMoveOn ==
  \A p \in Packages :
    claim[p] \in {"CLAIMED", "EXECUTION_STARTED"} ~> claim[p] \notin {"CLAIMED", "EXECUTION_STARTED"}

=============================================================================
