---------------------------- MODULE PositionExit ----------------------------
(***************************************************************************)
(* The autonomous exit of one owned position: the custody a production BUY *)
(* left behind, its periodic evaluation, the exit authority armed on an    *)
(* evaluation, and the one proof-sell attempt of the campaign that turns   *)
(* the authority into a package, a claim, an order, one provider call and  *)
(* a reconciliation.  The ordinary reconciliation of live orders polls the *)
(* same order, and each cycle revalidates the authority, whatever stage    *)
(* the attempt is at.                                                      *)
(*                                                                         *)
(* Each action is one transaction.  The parts of a worker cycle commit or  *)
(* fail on their own, so any of them may be skipped in a cycle; while a    *)
(* provider call is out, a second worker or an operator may act.  The      *)
(* links between the rows of the one exit, equal once written, are left    *)
(* out, with the checks that they agree.                                   *)
(***************************************************************************)
EXTENDS Integers

CONSTANTS
  Units,           \* bought quantity
  OtherSales,      \* units an operator may sell by other orders
  MaxEvaluations   \* bound: evaluations of the custody

ASSUME UnitsAssumption == Units \in Nat \ {0}
ASSUME OtherSalesAssumption == OtherSales \in Nat
ASSUME MaxEvaluationsAssumption == MaxEvaluations \in Nat

VARIABLES
  custody,    \* [state, observed, sold, refs]: the custody row and its active_sell_* links
  evaluation, \* [version, disposition, quantity]: the persisted latest_exit_evaluation
  authority,  \* [state, evaluation, maximum]: the exit authority
  attempt,    \* [stage, retries]: the proof-sell attempt
  claim,      \* [status, quantity]: the execution claim of the SELL
  order,      \* [status, normalized]: the SELL order
  exchange,   \* [state, executed]: the request and the order at the exchange
  books,      \* [sale, others]: units booked as sold, by the order and otherwise
  worker,     \* "calling": it waits for the provider's reply
  calls,      \* observation: submissions so far
  elapsed     \* deadlines that have passed

local == <<custody, evaluation, authority, attempt, claim, order>>
vars == <<local, exchange, books, worker, calls, elapsed>>

Stages == {"none", "SELECTED", "EVALUATED", "AUTHORIZED", "PACKAGED", "CLAIMED",
           "ORDERED", "RECONCILING", "TERMINAL"}
Dispositions == {"none", "EXIT_RECOMMENDED", "HOLD", "BLOCKED", "CLOSED_CANDIDATE"}
Deadlines == {"evaluation", "authority", "reservation", "preview"}
Nonterminal == {"ACTIVE", "EXIT_PENDING", "BLOCKED"}
Unreleased == {"CLAIMED", "EXECUTION_STARTED", "SUBMISSION_PENDING", "RECONCILIATION_REQUIRED",
               "RECOVERY_REQUIRED"}
TerminalOrders == {"FILLED", "CANCELLED", "REJECTED"}
Uncertain == {"SUBMISSION_PENDING", "RECONCILIATION_REQUIRED", "UNKNOWN"}
Unsent == {"none", "PENDING_CONFIRMATION"}

\* What the books say is owned; what the exchange account really holds.
Owned == Units - books.sale - books.others
Held == Units - exchange.executed - books.others

\* A claim expires with its authority or its preview, whichever is first.
ClaimExpired == elapsed \cap {"authority", "preview"} # {}

Init ==
  /\ custody = [state |-> "ACTIVE", observed |-> Units, sold |-> 0, refs |-> {}]
  /\ evaluation = [version |-> 0, disposition |-> "none", quantity |-> Units]
  /\ authority = [state |-> "none", evaluation |-> 0, maximum |-> 0]
  /\ attempt = [stage |-> "none", retries |-> 0]
  /\ claim = [status |-> "none", quantity |-> 0]
  /\ order = [status |-> "none", normalized |-> 0]
  /\ exchange = [state |-> "none", executed |-> 0]
  /\ books = [sale |-> 0, others |-> 0]
  /\ worker = "idle"
  /\ calls = 0
  /\ elapsed = {"evaluation"}

-----------------------------------------------------------------------------
(* The exchange, the operator's other sales and the clock.                  *)

\* The request reaches the exchange, is refused, or is lost on the way.
Arrive ==
  /\ exchange.state = "sent"
  /\ \E s \in {"live", "refused", "lost"} :
       /\ s = "live" => order.normalized <= Held
       /\ exchange' = [exchange EXCEPT !.state = s]
  /\ UNCHANGED <<local, books, worker, calls, elapsed>>

\* The order is executed unit by unit, or what is left of it is cancelled.
Execute ==
  /\ exchange.state = "live"
  /\ \/ /\ Held > 0
        /\ exchange' = [state |-> IF exchange.executed + 1 = order.normalized THEN "filled" ELSE "live",
                        executed |-> exchange.executed + 1]
     \/ exchange' = [exchange EXCEPT !.state = "canceled"]
  /\ UNCHANGED <<local, books, worker, calls, elapsed>>

SellElsewhere ==
  /\ books.others < OtherSales
  /\ Held > (IF exchange.state = "live" THEN order.normalized - exchange.executed ELSE 0)
  /\ books' = [books EXCEPT !.others = @ + 1]
  /\ UNCHANGED <<local, exchange, worker, calls, elapsed>>

\* Deadlines pass: the 15 minutes after an evaluation, and after an authority
\* was armed (on an evaluation not younger than it), the 5 minutes of a
\* reservation, the validity of the preview.  The last two are read before the
\* order is sent only.
Elapse(d) ==
  /\ d \notin elapsed
  /\ CASE d = "evaluation" -> evaluation.version > 0
       [] d = "authority" ->
            /\ authority.state \in {"ARMED", "RESERVED"}
            /\ "evaluation" \in elapsed \/ evaluation.version # authority.evaluation
       [] d = "reservation" -> attempt.stage = "PACKAGED"
       [] d = "preview" -> attempt.stage \in {"PACKAGED", "CLAIMED", "ORDERED"} /\ order.status \in Unsent
  /\ elapsed' = elapsed \cup {d}
  /\ UNCHANGED <<local, exchange, books, worker, calls>>

-----------------------------------------------------------------------------
(* evaluate_due_custodies and revalidate_active_exit_authorities, committed *)
(* together.                                                                *)

PossibleDispositions ==
  IF custody.refs \cap {"claim", "order"} # {} THEN {"BLOCKED"}
  ELSE IF Owned = 0 THEN {"CLOSED_CANDIDATE", "BLOCKED"}
  ELSE {"EXIT_RECOMMENDED", "HOLD", "BLOCKED"}

EvaluationDue == custody.state \in Nonterminal /\ "evaluation" \in elapsed

\* The first condition that holds ends an active authority; the recovery of a
\* reservation without a package is never met, since both are written at once.
Revalidated(latest) ==
  LET superseded == Owned < authority.maximum \/ latest.version # authority.evaluation
      ended == IF "authority" \in elapsed THEN "EXPIRED"
               ELSE IF custody.state \notin Nonterminal THEN "REVOKED"
               ELSE IF Owned = 0 THEN "CONSUMED"
               ELSE IF superseded THEN "REVOKED" ELSE authority.state
  IN IF authority.state \in {"ARMED", "RESERVED"} THEN [authority EXCEPT !.state = ended]
     ELSE authority

Evaluate ==
  /\ EvaluationDue
  /\ evaluation.version < MaxEvaluations
  /\ \E d \in PossibleDispositions :
       evaluation' = [version |-> evaluation.version + 1, disposition |-> d, quantity |-> Owned]
  /\ custody' = [custody EXCEPT !.observed = Owned]
  /\ elapsed' = elapsed \ {"evaluation"}
  /\ authority' = Revalidated(evaluation')
  /\ UNCHANGED <<attempt, claim, order, exchange, books, worker, calls>>

Revalidate ==
  /\ ~EvaluationDue
  /\ authority' = Revalidated(evaluation)
  /\ authority' # authority
  /\ UNCHANGED <<custody, evaluation, attempt, claim, order, exchange, books, worker, calls, elapsed>>

-----------------------------------------------------------------------------
(* advance_one_autonomous_proof_sell_stage: one stage per cycle.            *)

AtMost4(n) == IF n < 4 THEN n ELSE 4
Retried == [attempt EXCEPT !.retries = AtMost4(@ + 1)]
At(stage) == [attempt EXCEPT !.stage = stage]
Failed == IF attempt.retries >= 4 THEN At("TERMINAL") ELSE Retried

Select ==
  /\ attempt.stage = "none"
  /\ custody.state \in {"ACTIVE", "EXIT_PENDING"}
  /\ custody.refs \cap {"claim", "order"} = {}
  /\ attempt' = [stage |-> "SELECTED", retries |-> 0]
  /\ UNCHANGED <<custody, evaluation, authority, claim, order, exchange, books, worker, calls, elapsed>>

AwaitEvaluation ==
  /\ attempt.stage = "SELECTED"
  /\ attempt' = IF evaluation.disposition = "EXIT_RECOMMENDED" THEN At("EVALUATED") ELSE Retried
  /\ UNCHANGED <<custody, evaluation, authority, claim, order, exchange, books, worker, calls, elapsed>>

\* issue_exit_authority; a conflict of the exit policy with the position's size
\* also blocks.  Nothing is stored when nothing is owned.
Authorize ==
  /\ attempt.stage = "EVALUATED"
  /\ \E conflict \in BOOLEAN :
       LET blocked == \/ conflict
                      \/ custody.state \notin Nonterminal
                      \/ evaluation.disposition # "EXIT_RECOMMENDED"
                      \/ "evaluation" \in elapsed
                      \/ evaluation.quantity # Owned
                      \/ custody.refs \cap {"claim", "order"} # {}
       IN /\ authority' = IF Owned <= 0 THEN authority
                          ELSE [state |-> IF blocked THEN "BLOCKED" ELSE "ARMED",
                                evaluation |-> evaluation.version, maximum |-> Owned]
          /\ attempt' = At(IF blocked \/ Owned <= 0 THEN "TERMINAL" ELSE "AUTHORIZED")
  /\ UNCHANGED <<custody, evaluation, claim, order, exchange, books, worker, calls, elapsed>>

\* The evaluation an exit was armed on still stands.
EvaluationStands ==
  evaluation.disposition = "EXIT_RECOMMENDED" /\ evaluation.version = authority.evaluation

\* construct_exit_paperwork
Construct ==
  /\ attempt.stage = "AUTHORIZED"
  /\ authority.state = "ARMED" /\ "authority" \notin elapsed
  /\ custody.state \in Nonterminal /\ custody.refs = {}
  /\ EvaluationStands
  /\ Owned > 0 /\ Owned = evaluation.quantity /\ Owned <= authority.maximum
  /\ authority' = [authority EXCEPT !.state = "RESERVED"]
  /\ custody' = [custody EXCEPT !.state = "EXIT_PENDING", !.refs = {"package"}]
  /\ claim' = [claim EXCEPT !.quantity = Owned]
  /\ attempt' = At("PACKAGED")
  /\ UNCHANGED <<evaluation, order, exchange, books, worker, calls, elapsed>>

\* activate_exit_package_and_claim
Activate ==
  /\ attempt.stage = "PACKAGED"
  /\ authority.state = "RESERVED"
  /\ elapsed \cap {"authority", "reservation", "preview"} = {}
  /\ custody.state \in Nonterminal
  /\ EvaluationStands
  /\ Owned > 0 /\ Owned = custody.observed /\ Owned = claim.quantity
  /\ claim' = [claim EXCEPT !.status = "CLAIMED"]
  /\ custody' = [custody EXCEPT !.refs = @ \cup {"claim"}]
  /\ attempt' = At("CLAIMED")
  /\ UNCHANGED <<evaluation, authority, order, exchange, books, worker, calls, elapsed>>

\* construct_autonomous_exit_order; the provider's step rounds the quantity down.
ConstructOrder ==
  /\ attempt.stage = "CLAIMED"
  /\ claim.status = "CLAIMED" /\ ~ClaimExpired
  /\ custody.state \in Nonterminal /\ "order" \notin custody.refs
  /\ authority.state = "RESERVED"
  /\ EvaluationStands
  /\ Owned > 0 /\ Owned = custody.observed /\ Owned = claim.quantity /\ Owned <= authority.maximum
  /\ \E n \in 1..Owned : order' = [status |-> "PENDING_CONFIRMATION", normalized |-> n]
  /\ claim' = [claim EXCEPT !.status = "EXECUTION_STARTED"]
  /\ custody' = [custody EXCEPT !.refs = @ \cup {"order"}]
  /\ attempt' = At("ORDERED")
  /\ UNCHANGED <<evaluation, authority, exchange, books, worker, calls, elapsed>>

\* Any stage may be refused by a check left out here, find its gate closed or
\* meet an error; its savepoint is rolled back.
StageFails ==
  /\ attempt.stage \notin {"none", "TERMINAL"}
  /\ attempt' = Failed
  /\ UNCHANGED <<custody, evaluation, authority, claim, order, exchange, books, worker, calls, elapsed>>

-----------------------------------------------------------------------------
(* submit_autonomous_exit_order: the intent is committed, which ends the    *)
(* locks, and the provider called; the reply is stored by the same worker.  *)

\* Mutant: an order whose reply never came is sent again, with the checks of a
\* first submission.
SendableAgain ==
  /\ order.status \in {"PENDING_CONFIRMATION"} \cup Uncertain
  /\ claim.status \in Unreleased /\ ~ClaimExpired
  /\ authority.state = "RESERVED"

Sendable ==
  /\ order.status = "PENDING_CONFIRMATION"
  /\ claim.status = "EXECUTION_STARTED" /\ ~ClaimExpired
  /\ custody.state \in Nonterminal /\ {"claim", "order"} \subseteq custody.refs
  /\ authority.state = "RESERVED"
  /\ EvaluationStands
  /\ Owned = claim.quantity /\ Owned = custody.observed /\ order.normalized <= authority.maximum

Submit ==
  /\ attempt.stage = "ORDERED"
  /\ Sendable
  /\ order' = [order EXCEPT !.status = "SUBMISSION_PENDING"]
  /\ claim' = [claim EXCEPT !.status = "SUBMISSION_PENDING"]
  /\ exchange' = [exchange EXCEPT !.state = "sent"]
  /\ worker' = "calling"
  /\ calls' = calls + 1
  /\ UNCHANGED <<custody, evaluation, authority, attempt, books, elapsed>>

Known == exchange.state \in {"live", "filled", "canceled"}

(* The reply meets whatever others have stored meanwhile.  A terminal       *)
(* attempt stays so: the row's check refuses another stage.                 *)
AfterCall(next) == IF attempt.stage = "TERMINAL" THEN attempt ELSE next

Acknowledged ==
  /\ worker = "calling"
  /\ Known
  /\ order' = [order EXCEPT !.status = "ACKNOWLEDGED"]
  /\ attempt' = AfterCall(At("RECONCILING"))
  /\ worker' = "idle"
  /\ UNCHANGED <<custody, evaluation, authority, claim, exchange, books, calls, elapsed>>

ReplyUnknown ==
  /\ worker = "calling"
  /\ order' = [order EXCEPT !.status = "RECONCILIATION_REQUIRED"]
  /\ claim' = [claim EXCEPT !.status = "RECOVERY_REQUIRED"]
  /\ attempt' = AfterCall(Retried)
  /\ worker' = "idle"
  /\ UNCHANGED <<custody, evaluation, authority, exchange, books, calls, elapsed>>

\* The worker dies, before or after the provider got the request.
Crash ==
  /\ worker = "calling"
  /\ worker' = "idle"
  /\ \/ UNCHANGED exchange
     \/ exchange.state = "sent" /\ exchange' = [exchange EXCEPT !.state = "lost"]
  /\ UNCHANGED <<local, books, calls, elapsed>>

\* A later stage step on an order already acknowledged goes on; on an uncertain
\* one it looks the order up by its client id and never sends again.
Resume ==
  /\ attempt.stage = "ORDERED"
  /\ order.status = "ACKNOWLEDGED"
  /\ attempt' = At("RECONCILING")
  /\ UNCHANGED <<custody, evaluation, authority, claim, order, exchange, books, worker, calls, elapsed>>

Recover ==
  /\ attempt.stage = "ORDERED"
  /\ order.status \in Uncertain
  /\ \/ /\ Known
        /\ order' = [order EXCEPT !.status = "ACKNOWLEDGED"]
        /\ claim' = [claim EXCEPT !.status = "SUBMISSION_PENDING"]
        /\ attempt' = At("RECONCILING")
     \/ /\ order' = [order EXCEPT !.status = "RECONCILIATION_REQUIRED"]
        /\ claim' = [claim EXCEPT !.status = "RECOVERY_REQUIRED"]
        /\ attempt' = Retried
  /\ UNCHANGED <<custody, evaluation, authority, exchange, books, worker, calls, elapsed>>

-----------------------------------------------------------------------------
(* reconcile_live_order_and_fills, for this order.                          *)

\* A pass: the provider's answer, the units its fill list shows, and how the
\* balance evidence compares.
Passes ==
  LET answers == {"missing"} \cup
                 (IF ~Known THEN {} ELSE {"open", IF exchange.state = "live" THEN "open" ELSE exchange.state})
  IN {p \in [answer : answers, listed : 0..exchange.executed, evidence : {"ok", "stale", "mismatch"}] :
        p.answer = "missing" => p.listed = 0 /\ p.evidence = "ok"}

\* Mutant: the fills a pass lists are booked, also those booked before.
BookedAfterAgain(p) == books.sale + p.listed

BookedAfter(p) == IF p.listed > books.sale THEN p.listed ELSE books.sale

\* The balance evidence is looked at once something was executed.
EvidenceOf(p) == IF BookedAfter(p) = 0 THEN "ok" ELSE p.evidence

\* Mutant: an order the provider does not show is taken as cancelled.
MappedStatusMissing(p) ==
  IF p.answer \in {"missing", "canceled"} THEN "CANCELLED"
  ELSE IF EvidenceOf(p) = "mismatch" THEN "RECONCILIATION_REQUIRED"
  ELSE IF p.answer = "filled" THEN "FILLED" ELSE "ACKNOWLEDGED"

MappedStatus(p) ==
  IF p.answer = "missing" \/ EvidenceOf(p) = "mismatch" THEN "RECONCILIATION_REQUIRED"
  ELSE CASE p.answer = "filled" -> "FILLED"
         [] p.answer = "canceled" -> IF BookedAfter(p) > 0 THEN "PARTIALLY_FILLED" ELSE "CANCELLED"
         [] p.answer = "open" -> "ACKNOWLEDGED"

\* A FILLED order is never downgraded; an order that filled with nothing listed
\* would be REJECTED, which the row's check refuses: the pass fails.
StatusAfter(p) == IF order.status = "FILLED" THEN "FILLED" ELSE MappedStatus(p)

Storable(p) == p.answer = "filled" => BookedAfter(p) > 0

AccountingComplete(p) == p.answer \in {"filled", "canceled"} /\ EvidenceOf(p) = "ok"

Sent == order.status \notin Unsent

\* Mutant: only a claim that still waits for the provider is released.
ReleasedPending(status) ==
  IF status \in TerminalOrders /\ claim.status = "SUBMISSION_PENDING"
  THEN [claim EXCEPT !.status = IF status = "FILLED" THEN "COMPLETED" ELSE "CANCELLED"]
  ELSE claim

\* release_execution_claim_scope_if_order_resolved
Released(status) ==
  IF status \in TerminalOrders /\ claim.status \in Unreleased
  THEN [claim EXCEPT !.status = IF status = "FILLED" THEN "COMPLETED" ELSE "CANCELLED"]
  ELSE claim

\* The poll of the worker: a terminal order whose claim is held has it
\* released, any other is reconciled, and its claim released when it is decided.
\* A terminal order with a released claim is looked at again while its latest
\* evidence is unresolved, which is not kept here: it may be.
PollRelease ==
  /\ order.status \in TerminalOrders
  /\ claim.status \in Unreleased
  /\ claim' = Released(order.status)
  /\ UNCHANGED <<order, books>>

PollReconcile(p) ==
  /\ Sent
  /\ order.status \notin TerminalOrders \/ claim.status \notin Unreleased
  /\ Storable(p)
  /\ order' = [order EXCEPT !.status = StatusAfter(p)]
  /\ books' = [books EXCEPT !.sale = BookedAfter(p)]
  /\ claim' = Released(order'.status)

Poll(passes) ==
  /\ PollRelease \/ \E p \in passes : PollReconcile(p)
  /\ <<order, books, claim>>' # <<order, books, claim>>
  /\ UNCHANGED <<custody, evaluation, authority, attempt, exchange, worker, calls, elapsed>>

-----------------------------------------------------------------------------
(* reconcile_autonomous_exit_order, in the RECONCILING stage or at once     *)
(* after a rejection.                                                       *)

Reconcilable ==
  /\ {"claim", "order"} \subseteq custody.refs
  /\ custody.state \in {"EXIT_PENDING", "BLOCKED"}
  /\ authority.state \in {"RESERVED", "BLOCKED"}
  /\ Owned = custody.observed

\* A rejection or cancellation leaves the position to an operator.
Blocked ==
  /\ claim' = [claim EXCEPT !.status = "CANCELLED"]
  /\ authority' = [authority EXCEPT !.state = "BLOCKED"]
  /\ attempt' = At("TERMINAL")

Rejected ==
  /\ worker = "calling"
  /\ exchange.state = "refused"
  /\ order' = [order EXCEPT !.status = "REJECTED"]
  /\ IF attempt.stage = "ORDERED" /\ Reconcilable
     THEN /\ Blocked
          /\ custody' = [custody EXCEPT !.state = "BLOCKED", !.refs = {"package"}]
     ELSE /\ claim' = [claim EXCEPT !.status = "CANCELLED"]
          /\ attempt' = AfterCall(Failed)
          /\ UNCHANGED <<custody, authority>>
  /\ worker' = "idle"
  /\ UNCHANGED <<evaluation, exchange, books, calls, elapsed>>

\* Mutant: an exit is whole when all that was ordered is sold, whatever the
\* rounding to the provider's step left over.
WholeOrder(p) ==
  /\ StatusAfter(p) = "FILLED" /\ AccountingComplete(p)
  /\ BookedAfter(p) = order.normalized

\* All that is owned is sold, and shown to be.
Whole(p) ==
  /\ StatusAfter(p) = "FILLED" /\ AccountingComplete(p)
  /\ BookedAfter(p) = order.normalized
  /\ Owned - (BookedAfter(p) - books.sale) = 0

\* The fills this pass books are exactly those the custody has not counted.
ExitReconcile ==
  /\ attempt.stage = "RECONCILING"
  /\ order.status \in {"ACKNOWLEDGED", "PARTIALLY_FILLED", "RECONCILIATION_REQUIRED", "UNKNOWN",
                       "CANCELLED", "FILLED"}
  /\ Reconcilable
  /\ \E p \in Passes :
       LET sold == BookedAfter(p)
           left == Owned - (sold - books.sale)
       IN /\ Storable(p)
          /\ custody.sold = books.sale
          /\ books' = [books EXCEPT !.sale = sold]
          /\ order' = [order EXCEPT !.status = StatusAfter(p)]
          /\ CASE Whole(p) ->
                    /\ custody' = [state |-> "CLOSED", observed |-> left, sold |-> sold, refs |-> {"package"}]
                    /\ claim' = [claim EXCEPT !.status = "COMPLETED"]
                    /\ authority' = [authority EXCEPT !.state = "CONSUMED"]
                    /\ attempt' = At("TERMINAL")
               [] ~Whole(p) /\ StatusAfter(p) = "CANCELLED" ->
                    /\ custody' = [state |-> "BLOCKED", observed |-> left, sold |-> sold, refs |-> {"package"}]
                    /\ Blocked
               [] OTHER ->
                    /\ custody' = [custody EXCEPT !.state = "EXIT_PENDING", !.observed = left, !.sold = sold]
                    /\ claim' = [claim EXCEPT !.status = "RECONCILIATION_REQUIRED"]
                    /\ authority' = [authority EXCEPT !.state = "RESERVED"]
                    /\ attempt' = Retried
  /\ UNCHANGED <<evaluation, exchange, worker, calls, elapsed>>

-----------------------------------------------------------------------------
Stage ==
  \/ Select \/ AwaitEvaluation \/ Authorize \/ Construct \/ Activate \/ ConstructOrder
  \/ Submit \/ Resume \/ Recover \/ ExitReconcile \/ StageFails

Next ==
  \/ Arrive \/ Execute \/ SellElsewhere \/ \E d \in Deadlines : Elapse(d)
  \/ Evaluate \/ Revalidate \/ Poll(Passes)
  \/ Acknowledged \/ ReplyUnknown \/ Rejected \/ Crash
  \/ Stage

Spec == Init /\ [][Next]_vars

\* What is true at the exchange, read with all its fills and fresh balances.
TruePass == [answer |-> IF exchange.state = "live" THEN "open" ELSE exchange.state,
             listed |-> exchange.executed, evidence |-> "ok"]

\* Every cycle polls; the provider answers truly again and again; a call ends,
\* by its reply, its timeout or the worker's death.
Fairness ==
  /\ WF_vars(Known /\ Poll({TruePass}))
  /\ WF_vars(Acknowledged \/ ReplyUnknown \/ Rejected \/ Crash)

FairSpec == Spec /\ Fairness

-----------------------------------------------------------------------------
(* Properties.                                                              *)

\* The variables keep their types (column domains of the rows).
TypeOK ==
  /\ custody \in [state : Nonterminal \cup {"CLOSED"}, observed : 0..Units, sold : 0..Units,
                  refs : SUBSET {"package", "claim", "order"}]
  /\ evaluation \in [version : 0..MaxEvaluations, disposition : Dispositions, quantity : 0..Units]
  /\ authority \in [state : {"none", "ARMED", "RESERVED", "BLOCKED", "EXPIRED", "REVOKED", "CONSUMED"},
                    evaluation : 0..MaxEvaluations, maximum : 0..Units]
  /\ attempt \in [stage : Stages, retries : 0..4]
  /\ claim \in [status : Unreleased \cup {"none", "COMPLETED", "CANCELLED"}, quantity : 0..Units]
  /\ order \in [status : Unsent \cup TerminalOrders \cup Uncertain \cup {"ACKNOWLEDGED", "PARTIALLY_FILLED"},
                normalized : 0..Units]
  /\ exchange \in [state : {"none", "sent", "live", "refused", "lost", "filled", "canceled"},
                   executed : 0..Units]
  /\ books \in [sale : 0..Units, others : 0..Units]
  /\ worker \in {"idle", "calling"}
  /\ calls \in Nat
  /\ elapsed \subseteq Deadlines

\* One position is sold by one submission, and never below what the account
\* holds: whatever crashes, lost replies, late stages, polls and operator sales
\* come between, no stage calls the provider a second time
\* (submit_autonomous_exit_order looks an uncertain order up instead).
SoldOnce == calls <= 1 /\ Held >= 0

\* While the request is out or the order open, nothing lets go of it: the claim
\* holds its scope, the custody is EXIT_PENDING and still names the order, so
\* neither a new exit nor a new purchase can start beside it.  The writers are
\* the submission, the poll and the exit reconciliation.
SellIsSupervised ==
  exchange.state \in {"sent", "live"} =>
    /\ claim.status \in Unreleased
    /\ "order" \in custody.refs /\ custody.state = "EXIT_PENDING"

\* A custody reconcile_autonomous_exit_order closed is sold at the exchange, all
\* of it, by the quantity it states, and its authority is used up: rounding, a
\* partial execution or stale evidence does not close it.
ClosedIsSold ==
  custody.state = "CLOSED" =>
    /\ Held = 0 /\ Owned = 0 /\ exchange.state = "filled"
    /\ custody.sold = exchange.executed
    /\ authority.state = "CONSUMED"

\* Custody, books and exchange lag in one direction only, although the poll, the
\* exit reconciliation and the evaluation update them each on its own: custody
\* never believes less than the books, nor the books less than the account.
CustodyFollowsBooks == custody.observed >= Owned /\ Owned >= Held /\ custody.sold <= books.sale

\* An executed exit ends up FILLED, its claim completed and its scope free, also
\* when the worker died in the call, the reply was lost, or the late reply
\* or the exit reconciliation overwrote what the poll had stored.
FilledExitReleasesScope ==
  exchange.state = "filled" ~>
    order.status = "FILLED" /\ claim.status = "COMPLETED"

\* An exit the books show as filled, with nothing left, is one the RECONCILING
\* stage can still close (reconcile_autonomous_exit_order).
FilledExitCanClose ==
  attempt.stage = "RECONCILING" /\ order.status = "FILLED" /\ Owned = 0 => Reconcilable
=============================================================================
