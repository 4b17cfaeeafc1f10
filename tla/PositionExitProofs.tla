------------------------- MODULE PositionExitProofs -------------------------
(***************************************************************************)
(* The safety properties of PositionExit, for every bought quantity, every *)
(* amount sold otherwise and every number of evaluations.  They hold       *)
(* together or not at all: what the custody says rests on what the order   *)
(* says, that on what the exchange did, and that on the order having been  *)
(* sent once.  ExitInv adds these links to the properties.                 *)
(***************************************************************************)
EXTENDS PositionExit, TLAPS

\* Before the ORDERED stage there is no order.
Early == {"none", "SELECTED", "EVALUATED", "AUTHORIZED", "PACKAGED", "CLAIMED"}
EarlyUnordered == attempt.stage \in Early => order.status = "none"

\* An order that was not sent has left no trace at the exchange.
UnsentUncalled ==
  order.status \in Unsent =>
    calls = 0 /\ worker = "idle" /\ exchange.state = "none" /\ exchange.executed = 0

\* What was executed fits the exchange's state and the quantity ordered; what is
\* booked was executed.
QuantitiesAgree ==
  /\ order.status = "PENDING_CONFIRMATION" \/ exchange.state = "sent" => order.normalized >= 1
  /\ exchange.state \in {"none", "sent", "refused", "lost"} => exchange.executed = 0
  /\ exchange.state \in {"live", "canceled"} => exchange.executed < order.normalized
  /\ exchange.state = "filled" => exchange.executed = order.normalized
  /\ books.sale <= exchange.executed

\* A terminal order is one the exchange decided that way.
DecidedAtExchange ==
  /\ order.status = "FILLED" => exchange.state = "filled"
  /\ order.status = "CANCELLED" => exchange.state = "canceled"
  /\ order.status = "REJECTED" => exchange.state = "refused"

\* An exit under way is pending in the custody, a closed one at its last stage.
CustodyFollowsAttempt ==
  /\ attempt.stage \in {"PACKAGED", "CLAIMED"} \/ "order" \in custody.refs => custody.state = "EXIT_PENDING"
  /\ custody.state = "CLOSED" => attempt.stage = "TERMINAL"

ExitInv ==
  /\ TypeOK
  /\ EarlyUnordered /\ UnsentUncalled /\ QuantitiesAgree /\ DecidedAtExchange /\ CustodyFollowsAttempt
  /\ SoldOnce /\ SellIsSupervised /\ ClosedIsSold /\ CustodyFollowsBooks

-----------------------------------------------------------------------------
\* Every proof below opens the invariant and the sets its parts range over.
USE UnitsAssumption, OtherSalesAssumption, MaxEvaluationsAssumption
USE DEF ExitInv, TypeOK, EarlyUnordered, UnsentUncalled, QuantitiesAgree, DecidedAtExchange,
        CustodyFollowsAttempt, SoldOnce, SellIsSupervised, ClosedIsSold, CustodyFollowsBooks,
        Owned, Held, Early, Unsent, Nonterminal, Unreleased, TerminalOrders, Uncertain, local

\* Nothing is owned twice before anything happened.
LEMMA InitInv == Init => ExitInv
<1> SUFFICES ASSUME Init PROVE ExitInv
  OBVIOUS
<1>1. TypeOK
  <2>1. /\ custody \in [state : Nonterminal \cup {"CLOSED"}, observed : 0..Units, sold : 0..Units,
                       refs : SUBSET {"package", "claim", "order"}]
        /\ evaluation \in [version : 0..MaxEvaluations, disposition : Dispositions, quantity : 0..Units]
    BY DEF Init, Dispositions
  <2>2. worker \in {"idle", "calling"} /\ calls \in Nat /\ elapsed \subseteq Deadlines
    BY DEF Init, Deadlines
  <2> QED BY <2>1, <2>2 DEF Init, Stages
<1>2. SellIsSupervised /\ ClosedIsSold /\ CustodyFollowsBooks /\ SoldOnce
  BY DEF Init
<1> QED BY <1>1, <1>2 DEF Init

\* The exchange, the operator's sales and the clock.
LEMMA OutsideStep ==
  ASSUME ExitInv, Arrive \/ Execute \/ SellElsewhere \/ \E d \in Deadlines : Elapse(d)
  PROVE  ExitInv'
<1>1. CASE Arrive
  BY <1>1 DEF Arrive
<1>2. CASE Execute
  BY <1>2 DEF Execute
<1>3. CASE SellElsewhere
  BY <1>3 DEF SellElsewhere
<1>4. CASE \E d \in Deadlines : Elapse(d)
  BY <1>4 DEF Elapse
<1> QED BY <1>1, <1>2, <1>3, <1>4

\* What revalidation leaves: an authority that stays or ends.
LEMMA RevalidatedType ==
  ASSUME TypeOK, NEW latest
  PROVE  /\ Revalidated(latest) \in [state : {"none", "ARMED", "RESERVED", "BLOCKED", "EXPIRED", "REVOKED", "CONSUMED"},
                                     evaluation : 0..MaxEvaluations, maximum : 0..Units]
         /\ authority.state = "CONSUMED" => Revalidated(latest) = authority
<1> DEFINE ended == IF "authority" \in elapsed THEN "EXPIRED"
                   ELSE IF custody.state \notin Nonterminal THEN "REVOKED"
                   ELSE IF Owned = 0 THEN "CONSUMED"
                   ELSE IF Owned < authority.maximum \/ latest.version # authority.evaluation
                   THEN "REVOKED" ELSE authority.state
<1>1. ended \in {"EXPIRED", "REVOKED", "CONSUMED", authority.state}
  OBVIOUS
<1> HIDE DEF ended
<1>2. Revalidated(latest) = IF authority.state \in {"ARMED", "RESERVED"}
                           THEN [authority EXCEPT !.state = ended] ELSE authority
  BY DEF Revalidated, ended
<1> QED BY <1>1, <1>2

\* Evaluation and revalidation refresh custody and authority.
LEMMA EvaluationStep ==
  ASSUME ExitInv, Evaluate \/ Revalidate
  PROVE  ExitInv'
<1>1. CASE Evaluate
  <2>1. Revalidated(evaluation') \in [state : {"none", "ARMED", "RESERVED", "BLOCKED", "EXPIRED", "REVOKED", "CONSUMED"},
                                     evaluation : 0..MaxEvaluations, maximum : 0..Units]
    BY RevalidatedType
  <2>2. evaluation' \in [version : 0..MaxEvaluations, disposition : Dispositions, quantity : 0..Units]
    BY <1>1 DEF Evaluate, PossibleDispositions, Dispositions
  <2>3. custody.state \in Nonterminal /\ custody' = [custody EXCEPT !.observed = Owned]
    BY <1>1 DEF Evaluate, EvaluationDue
  <2>4. authority' = Revalidated(evaluation') /\ elapsed' = elapsed \ {"evaluation"}
        /\ UNCHANGED <<attempt, claim, order, exchange, books, worker, calls>>
    BY <1>1 DEF Evaluate
  <2> QED BY <2>1, <2>2, <2>3, <2>4
<1>2. CASE Revalidate
  BY <1>2, RevalidatedType DEF Revalidate
<1> QED BY <1>1, <1>2

-----------------------------------------------------------------------------
\* The stages up to the order: nothing is at the exchange.
LEMMA EarlyStageStep ==
  ASSUME ExitInv, Select \/ AwaitEvaluation \/ Authorize \/ Construct \/ Activate \/ ConstructOrder \/ StageFails
  PROVE  ExitInv'
<1>1. CASE Select
  BY <1>1 DEF Select, Stages
<1>2. CASE AwaitEvaluation
  BY <1>2 DEF AwaitEvaluation, Stages, At, Retried, AtMost4
<1>3. CASE Authorize
  BY <1>3 DEF Authorize, Stages, At
<1>4. CASE Construct
  BY <1>4 DEF Construct, Stages, At
<1>5. CASE Activate
  BY <1>5 DEF Activate, Stages, At
<1>6. CASE ConstructOrder
  BY <1>6 DEF ConstructOrder, Stages, At
<1>7. CASE StageFails
  BY <1>7 DEF StageFails, Stages, Failed, At, Retried, AtMost4
<1> QED BY <1>1, <1>2, <1>3, <1>4, <1>5, <1>6, <1>7

\* While a call is out the order was sent, so the early stages are over.
LEMMA CallingSent ==
  ASSUME ExitInv, worker = "calling"
  PROVE  /\ order.status \notin Unsent
         /\ attempt.stage \notin Early
  OBVIOUS

\* The call, its reply, and the later look-ups.
LEMMA CallStep ==
  ASSUME ExitInv, Submit \/ Acknowledged \/ ReplyUnknown \/ Crash \/ Resume \/ Recover
  PROVE  ExitInv'
<1>1. CASE Submit
  BY <1>1 DEF Submit, Sendable
<1>2. CASE Acknowledged
  <2>1. worker = "calling" /\ Known /\ worker' = "idle"
    BY <1>2 DEF Acknowledged
  <2>2. order' = [order EXCEPT !.status = "ACKNOWLEDGED"]
        /\ UNCHANGED <<custody, evaluation, authority, claim, exchange, books, calls, elapsed>>
    BY <1>2 DEF Acknowledged
  <2>3. \/ attempt' = attempt /\ attempt.stage = "TERMINAL"
        \/ attempt' = [attempt EXCEPT !.stage = "RECONCILING"] /\ attempt.stage # "TERMINAL"
    BY <1>2 DEF Acknowledged, AfterCall, At
  <2>4. order.status \notin Unsent /\ attempt.stage \notin Early
    BY <2>1, CallingSent
  <2>5. attempt' \in [stage : Stages, retries : 0..4] /\ attempt'.stage \notin Early
        /\ (attempt.stage = "TERMINAL" => attempt'.stage = "TERMINAL")
    BY <2>3, <2>4 DEF Stages
  <2> QED BY <2>1, <2>2, <2>4, <2>5 DEF Known
<1>3. CASE ReplyUnknown
  <2>1. worker = "calling" /\ worker' = "idle"
    BY <1>3 DEF ReplyUnknown
  <2>2. /\ order' = [order EXCEPT !.status = "RECONCILIATION_REQUIRED"]
        /\ claim' = [claim EXCEPT !.status = "RECOVERY_REQUIRED"]
        /\ UNCHANGED <<custody, evaluation, authority, exchange, books, calls, elapsed>>
    BY <1>3 DEF ReplyUnknown
  <2>3. attempt' = attempt \/ attempt' = [attempt EXCEPT !.retries = AtMost4(@ + 1)]
    BY <1>3 DEF ReplyUnknown, AfterCall, Retried
  <2>4. order.status \notin Unsent /\ attempt.stage \notin Early
    BY <2>1, CallingSent
  <2> QED BY <2>1, <2>2, <2>3, <2>4 DEF AtMost4
<1>4. CASE Crash
  <2>1. \/ exchange' = exchange
        \/ exchange.state = "sent" /\ exchange' = [exchange EXCEPT !.state = "lost"]
    BY <1>4 DEF Crash
  <2>2. worker' = "idle" /\ UNCHANGED <<local, books, calls, elapsed>>
    BY <1>4 DEF Crash
  <2> QED BY <2>1, <2>2
<1>5. CASE Resume
  BY <1>5 DEF Resume, At, Stages
<1>6. CASE Recover
  BY <1>6 DEF Recover, Known, At, Retried, AtMost4, Stages
<1> QED BY <1>1, <1>2, <1>3, <1>4, <1>5, <1>6

\* A refusal, by which the exit is given back to an operator or the stage retried.
LEMMA RejectedStep ==
  ASSUME ExitInv, Rejected
  PROVE  ExitInv'
<1>1. worker = "calling" /\ exchange.state = "refused" /\ worker' = "idle"
  BY DEF Rejected
<1>2. order.status \notin Unsent /\ attempt.stage \notin Early
  BY <1>1, CallingSent
<1>3. /\ order' = [order EXCEPT !.status = "REJECTED"]
      /\ UNCHANGED <<evaluation, exchange, books, calls, elapsed>>
      /\ claim' = [claim EXCEPT !.status = "CANCELLED"]
  BY DEF Rejected, Blocked
<1>4. \/ /\ custody' = [custody EXCEPT !.state = "BLOCKED", !.refs = {"package"}]
         /\ authority' = [authority EXCEPT !.state = "BLOCKED"]
         /\ attempt' = [attempt EXCEPT !.stage = "TERMINAL"]
      \/ /\ UNCHANGED <<custody, authority>>
         /\ attempt' \in {attempt, [attempt EXCEPT !.stage = "TERMINAL"],
                         [attempt EXCEPT !.retries = AtMost4(@ + 1)]}
  BY DEF Rejected, Blocked, AfterCall, Failed, At, Retried
<1>5. attempt' \in [stage : Stages, retries : 0..4] /\ attempt'.stage \notin Early
      /\ (attempt.stage = "TERMINAL" => attempt'.stage = "TERMINAL")
  BY <1>2, <1>4 DEF Stages, AtMost4
<1>6. \/ /\ custody' = [custody EXCEPT !.state = "BLOCKED", !.refs = {"package"}]
         /\ authority' = [authority EXCEPT !.state = "BLOCKED"]
      \/ UNCHANGED <<custody, authority>>
  BY <1>4
<1>7. CASE UNCHANGED <<custody, authority>>
  BY <1>1, <1>2, <1>3, <1>5, <1>7
<1>8. CASE /\ custody' = [custody EXCEPT !.state = "BLOCKED", !.refs = {"package"}]
           /\ authority' = [authority EXCEPT !.state = "BLOCKED"]
  <2>1. custody' \in [state : Nonterminal \cup {"CLOSED"}, observed : 0..Units, sold : 0..Units,
                     refs : SUBSET {"package", "claim", "order"}]
    BY <1>8
  <2>2. /\ custody'.observed = custody.observed /\ custody'.sold = custody.sold
        /\ custody'.state = "BLOCKED" /\ custody'.refs = {"package"}
    BY <1>8
  <2>3. TypeOK'
    BY <1>1, <1>3, <1>5, <1>8, <2>1
  <2> QED BY <1>1, <1>2, <1>3, <1>5, <2>2, <2>3
<1> QED BY <1>6, <1>7, <1>8

-----------------------------------------------------------------------------
\* What a pass of the reconciliation can answer and store.
LEMMA PassFacts ==
  ASSUME ExitInv, NEW p \in Passes
  PROVE  /\ p.answer = "filled" => exchange.state = "filled"
         /\ p.answer = "canceled" => exchange.state = "canceled"
         /\ BookedAfter(p) \in books.sale..exchange.executed
<1>1. /\ p.answer = "filled" => exchange.state = "filled"
      /\ p.answer = "canceled" => exchange.state = "canceled"
  BY DEF Passes, Known
<1>2. p.listed \in 0..exchange.executed
  BY DEF Passes
<1> QED BY <1>1, <1>2 DEF BookedAfter

\* The status a pass stores is terminal only when the exchange decided so, and
\* an order once sent stays so.
LEMMA StatusFacts ==
  ASSUME ExitInv, NEW p \in Passes
  PROVE  /\ StatusAfter(p) \in {"FILLED", "CANCELLED", "RECONCILIATION_REQUIRED", "PARTIALLY_FILLED", "ACKNOWLEDGED"}
         /\ StatusAfter(p) = "FILLED" => exchange.state = "filled"
         /\ StatusAfter(p) = "CANCELLED" => exchange.state = "canceled"
<1>1. p.answer \in {"missing", "open", "filled", "canceled"}
  BY DEF Passes, Known
<1>2. MappedStatus(p) \in {"FILLED", "CANCELLED", "RECONCILIATION_REQUIRED", "PARTIALLY_FILLED", "ACKNOWLEDGED"}
  BY <1>1 DEF MappedStatus
<1>3. MappedStatus(p) = "FILLED" => p.answer = "filled"
  BY <1>1 DEF MappedStatus
<1>4. MappedStatus(p) = "CANCELLED" => p.answer = "canceled"
  BY <1>1 DEF MappedStatus
<1> QED BY <1>2, <1>3, <1>4, PassFacts DEF StatusAfter

\* The poll books and releases; it never touches the custody.
LEMMA PollStep ==
  ASSUME ExitInv, Poll(Passes)
  PROVE  ExitInv'
<1>1. UNCHANGED <<custody, evaluation, authority, attempt, exchange, worker, calls, elapsed>>
  BY DEF Poll
<1>2. CASE PollRelease
  BY <1>1, <1>2 DEF PollRelease, Released
<1>3. CASE \E p \in Passes : PollReconcile(p)
  <2>1. PICK p \in Passes : PollReconcile(p)
    BY <1>3
  <2>2. /\ order.status \notin Unsent
        /\ order' = [order EXCEPT !.status = StatusAfter(p)]
        /\ books' = [books EXCEPT !.sale = BookedAfter(p)]
        /\ claim' = Released(order'.status)
    BY <2>1 DEF PollReconcile, Sent
  <2>3. order'.status = StatusAfter(p)
    BY <2>2
  <2>4. \/ claim' = claim
        \/ /\ StatusAfter(p) \in {"FILLED", "CANCELLED"}
           /\ \E s \in {"COMPLETED", "CANCELLED"} : claim' = [claim EXCEPT !.status = s]
    BY <2>2, <2>3, StatusFacts DEF Released
  <2> QED BY <1>1, <2>2, <2>4, PassFacts, StatusFacts
<1> QED BY <1>2, <1>3 DEF Poll

\* The exit reconciliation: closed on a whole sale, blocked on a cancellation,
\* pending otherwise.
LEMMA ReconcileStep ==
  ASSUME ExitInv, ExitReconcile
  PROVE  ExitInv'
<1>1. /\ attempt.stage = "RECONCILING"
      /\ order.status \notin Unsent
      /\ custody.state \in {"EXIT_PENDING", "BLOCKED"} /\ {"claim", "order"} \subseteq custody.refs
      /\ UNCHANGED <<evaluation, exchange, worker, calls, elapsed>>
  BY DEF ExitReconcile, Reconcilable
<1>2. PICK p \in Passes :
        LET sold == BookedAfter(p)
            left == Owned - (sold - books.sale)
        IN /\ books' = [books EXCEPT !.sale = sold]
           /\ order' = [order EXCEPT !.status = StatusAfter(p)]
           /\ \/ /\ Whole(p)
                 /\ custody' = [state |-> "CLOSED", observed |-> left, sold |-> sold, refs |-> {"package"}]
                 /\ claim' = [claim EXCEPT !.status = "COMPLETED"]
                 /\ authority' = [authority EXCEPT !.state = "CONSUMED"]
                 /\ attempt' = At("TERMINAL")
              \/ /\ StatusAfter(p) = "CANCELLED"
                 /\ custody' = [state |-> "BLOCKED", observed |-> left, sold |-> sold, refs |-> {"package"}]
                 /\ Blocked
              \/ /\ custody' = [custody EXCEPT !.state = "EXIT_PENDING", !.observed = left, !.sold = sold]
                 /\ claim' = [claim EXCEPT !.status = "RECONCILIATION_REQUIRED"]
                 /\ authority' = [authority EXCEPT !.state = "RESERVED"]
                 /\ attempt' = Retried
  BY DEF ExitReconcile
<1> DEFINE sold == BookedAfter(p)
           left == Owned - (sold - books.sale)
<1>3. sold \in books.sale..exchange.executed /\ left = Units - sold - books.others
      /\ left \in 0..Units /\ sold \in 0..Units
  BY PassFacts
<1> HIDE DEF sold, left
<1>4. /\ books' = [books EXCEPT !.sale = sold]
      /\ order' = [order EXCEPT !.status = StatusAfter(p)]
  BY <1>2 DEF sold
<1>5. CASE /\ Whole(p)
           /\ custody' = [state |-> "CLOSED", observed |-> left, sold |-> sold, refs |-> {"package"}]
           /\ claim' = [claim EXCEPT !.status = "COMPLETED"]
           /\ authority' = [authority EXCEPT !.state = "CONSUMED"]
           /\ attempt' = At("TERMINAL")
  <2>1. exchange.state = "filled" /\ sold = exchange.executed /\ left = 0
    BY <1>5, StatusFacts DEF Whole, sold, left
  <2> QED BY <1>1, <1>3, <1>4, <1>5, <2>1, StatusFacts DEF At, Stages
<1>6. CASE /\ StatusAfter(p) = "CANCELLED"
           /\ custody' = [state |-> "BLOCKED", observed |-> left, sold |-> sold, refs |-> {"package"}]
           /\ Blocked
  BY <1>1, <1>3, <1>4, <1>6, StatusFacts DEF Blocked, At, Stages
<1>7. CASE /\ custody' = [custody EXCEPT !.state = "EXIT_PENDING", !.observed = left, !.sold = sold]
           /\ claim' = [claim EXCEPT !.status = "RECONCILIATION_REQUIRED"]
           /\ authority' = [authority EXCEPT !.state = "RESERVED"]
           /\ attempt' = Retried
  <2>1. attempt' \in [stage : Stages, retries : 0..4] /\ attempt'.stage = "RECONCILING"
    BY <1>1, <1>7 DEF Retried, AtMost4, Stages
  <2>2. TypeOK'
    BY <1>1, <1>3, <1>4, <1>7, <2>1, StatusFacts
  <2> QED BY <1>1, <1>3, <1>4, <1>7, <2>1, <2>2, StatusFacts
<1> QED BY <1>2, <1>5, <1>6, <1>7 DEF sold, left

-----------------------------------------------------------------------------
\* Every step of the system keeps the invariant.
LEMMA NextStep == ExitInv /\ [Next]_vars => ExitInv'
<1> SUFFICES ASSUME ExitInv, [Next]_vars PROVE ExitInv'
  OBVIOUS
<1>1. CASE UNCHANGED vars
  BY <1>1 DEF vars
<1>2. CASE Next
  BY <1>2, OutsideStep, EvaluationStep, EarlyStageStep, CallStep, RejectedStep, PollStep, ReconcileStep, Zenon
  DEF Next, Stage
<1> QED BY <1>1, <1>2

HIDE DEF ExitInv

\* The invariant holds throughout.
LEMMA InvHolds == Spec => []ExitInv
  BY InitInv, NextStep, PTL DEF Spec

HIDE DEF TypeOK, SoldOnce, SellIsSupervised, ClosedIsSold, CustodyFollowsBooks

\* The rows of an exit keep their column domains, the books never leave
\* 0..Units.
THEOREM TypeCorrect == Spec => []TypeOK
<1>1. ExitInv => TypeOK
  BY DEF ExitInv
<1> QED BY <1>1, InvHolds, PTL

\* Whatever quantity was bought, however often the exit is retried, resumed or
\* raced, the provider is called at most once for it and never for more than the
\* account holds (submit_autonomous_exit_order).
THEOREM SoldByOneSubmission == Spec => []SoldOnce
<1>1. ExitInv => SoldOnce
  BY DEF ExitInv
<1> QED BY <1>1, InvHolds, PTL

\* While the request is out or the order open, claim and custody hold on to it,
\* against the poll, the reply, recovery and both reconciliations.
THEOREM SupervisedWhileOpen == Spec => []SellIsSupervised
<1>1. ExitInv => SellIsSupervised
  BY DEF ExitInv
<1> QED BY <1>1, InvHolds, PTL

\* A custody reconcile_autonomous_exit_order closed is sold whole at the exchange.
THEOREM ClosedMeansSold == Spec => []ClosedIsSold
<1>1. ExitInv => ClosedIsSold
  BY DEF ExitInv
<1> QED BY <1>1, InvHolds, PTL

\* Custody never believes less than the books, nor the books less than the account.
THEOREM BooksLagOneWay == Spec => []CustodyFollowsBooks
<1>1. ExitInv => CustodyFollowsBooks
  BY DEF ExitInv
<1> QED BY <1>1, InvHolds, PTL

=============================================================================
