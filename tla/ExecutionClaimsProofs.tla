----------------------- MODULE ExecutionClaimsProofs -----------------------
(***************************************************************************)
(* Theorems about ExecutionClaims, for any packages, workers and bounds.   *)
(* The types and the scope lock hold for any number of workers.            *)
(*                                                                         *)
(* The rest is about one worker: with two, one request per package and the *)
(* finality of a released claim do not hold (for the request, the run      *)
(* overlapping_workers_send_twice shows it).  A request leaves only from a *)
(* recorded attempt, a claim that awaits an outcome was submitted, and one *)
(* that ended before the provider never reached it.  If the fill list does *)
(* not lag behind the order status, an outcome that was recorded is the    *)
(* true one, and what was executed never exceeds one position and never    *)
(* goes short.  With a lagging list neither holds (the run                 *)
(* lagging_fills_cancel shows it for the outcome).                         *)
(***************************************************************************)
EXTENDS ExecutionClaims, FiniteSetTheorems, TLAPS

-----------------------------------------------------------------------------
(* Types.                                                                   *)

\* The initial states are typed, whatever claims an earlier release left.
LEMMA InitTypeOK == Init => TypeOK
<1> SUFFICES ASSUME Init PROVE TypeOK
  OBVIOUS
<1>1. claim \in [Packages -> ClaimStates]
  BY DEF Init, ClaimStates, NonterminalClaims, ReleasedClaims
<1>2. order \in [Packages -> OrderStates]
  BY DEF Init, OrderStates, OpenOrders, TerminalOrders
<1>3. IdleSession \in Sessions
  BY DEF IdleSession, Sessions, Points, Replies, ClaimStates, OrderStates
<1>4. session \in [Workers -> Sessions] /\ \A w \in Workers : session[w].pc = "idle" <=> session[w].pkg = NoPackage
  BY <1>3 DEF Init, IdleSession
<1>5. slot \in [Sides -> [holder : Packages \cup {NoPackage}, terminal : BOOLEAN]]
  BY DEF Init, Sides
<1>6. /\ submitted \in [Packages -> BOOLEAN] /\ acked \in [Packages -> BOOLEAN]
      /\ event \in [Packages -> {"none", "resolved", "unresolved"}]
      /\ booked \in [Packages -> BOOLEAN] /\ effective \in [Packages -> BOOLEAN]
      /\ exch \in [Packages -> {"none", "in_flight", "live", "filled", "partly_filled", "closed"}]
  BY DEF Init
<1>7. calls \in [Packages -> Nat] /\ crashes \in 0..MaxCrashes
  BY MaxCrashesAssumption, SMT DEF Init
<1>8. custody \subseteq Packages /\ halted \in BOOLEAN /\ enabled \in BOOLEAN
  BY DEF Init
<1> QED
  BY <1>1, <1>2, <1>4, <1>5, <1>6, <1>7, <1>8 DEF TypeOK

\* The four endings of advance_claimed_execution's first transaction.
LEMMA AdvanceTypeOK ==
  ASSUME TypeOK, NEW w \in Workers, NEW p \in Packages, NEW c \in NonterminalClaims,
         NEW ord \in [Packages -> OrderStates], Advance(w, p, c, ord)
  PROVE  TypeOK'
<1> USE DEF TypeOK, rows, world
<1>0. /\ {"FAILED_PRE_PROVIDER", "SAFETY_DISABLED", "EXECUTION_STARTED", c} \subseteq ClaimStates
      /\ {"CANCELLED", "PENDING_CONFIRMATION"} \subseteq OrderStates
  BY DEF ClaimStates, NonterminalClaims, ReleasedClaims, OrderStates, OpenOrders, TerminalOrders
<1>1. Withdrawn(ord[p], submitted[p]) \in OrderStates /\ PreparedOrder(p, ord) \in OrderStates
  BY <1>0 DEF Withdrawn, PreparedOrder
<1>2. CASE PrepareRefused(w, p, c, ord)
  BY <1>0, <1>1, <1>2 DEF PrepareRefused, Advance
<1>3. CASE ReadinessRefused(w, p, c, ord)
  BY <1>0, <1>3 DEF ReadinessRefused, Advance
<1>4. CASE SafetyDisabled(w, p, c, ord)
  BY <1>0, <1>1, <1>4 DEF SafetyDisabled, Advance
<1>5. CASE Prepared(w, p, c, ord)
  <2> DEFINE started == IF ord[p] = "DRY_RUN_READY" THEN "EXECUTION_STARTED" ELSE c
             attempt == [pc |-> "execute", pkg |-> p, claim |-> started,
                         order |-> PreparedOrder(p, ord), reply |-> "none"]
  <2>1. started \in ClaimStates
    BY <1>0
  <2>2. attempt \in Sessions /\ attempt.pc # "idle" /\ attempt.pkg # NoPackage
    BY <2>1, <1>1, NoPackageAssumption DEF Sessions, Points, Replies
  <2>3. /\ claim' = [claim EXCEPT ![p] = started]
        /\ order' = [ord EXCEPT ![p] = PreparedOrder(p, ord)]
        /\ session' = [session EXCEPT ![w] = attempt]
    BY <1>5 DEF Prepared
  <2>4. session' \in [Workers -> Sessions]
        /\ \A v \in Workers : session'[v].pc = "idle" <=> session'[v].pkg = NoPackage
    BY <2>2, <2>3
  <2> QED
    BY <1>1, <2>1, <2>3, <2>4 DEF Advance
<1> QED
  BY <1>2, <1>3, <1>4, <1>5 DEF Advance

\* Terminalizing a historical order keeps the orders typed.
LEMMA RecoveredTypeOK ==
  ASSUME TypeOK, NEW ord \in RecoveredOrders
  PROVE  ord \in [Packages -> OrderStates]
<1>1. "CANCELLED" \in OrderStates
  BY DEF OrderStates, TerminalOrders
<1> QED
  BY <1>1 DEF TypeOK, RecoveredOrders

\* The part of TypeOK about the workers' attempts.
SessionsOK ==
  /\ session \in [Workers -> Sessions]
  /\ \A w \in Workers : session[w].pc = "idle" <=> session[w].pkg = NoPackage

\* An attempt that has begun is about a package.
LEMMA BusyPackage ==
  ASSUME TypeOK, NEW w \in Workers, ~Idle(w)
  PROVE  session[w].pkg \in Packages
BY DEF TypeOK, Idle, Sessions

\* Ending an attempt, or moving it on, keeps the sessions typed.
LEMMA SessionEnds ==
  ASSUME TypeOK, NEW w \in Workers, EndAttempt(w)
  PROVE  SessionsOK'
<1>1. IdleSession \in Sessions /\ IdleSession.pc = "idle" /\ IdleSession.pkg = NoPackage
  BY DEF IdleSession, Sessions, Points, Replies, ClaimStates, OrderStates
<1> QED
  BY <1>1 DEF EndAttempt, TypeOK, SessionsOK

LEMMA SessionMoves ==
  ASSUME TypeOK, NEW w \in Workers, NEW m \in Sessions, m.pc # "idle", m.pkg \in Packages,
         session' = [session EXCEPT ![w] = m]
  PROVE  SessionsOK'
BY NoPackageAssumption DEF TypeOK, SessionsOK

-----------------------------------------------------------------------------
(* Every step of an attempt keeps the types.                                *)

\* Ending an attempt by its exception handler.
LEMMA BlockedTypeOK ==
  ASSUME TypeOK, NEW w \in Workers, ~Idle(w), Blocked(w),
         UNCHANGED <<submitted, acked, event, booked, custody, effective, world, slot, crashes>>
  PROVE  TypeOK'
<1>1. session[w].pkg \in Packages
  BY BusyPackage
<1>2. SessionsOK'
  BY SessionEnds DEF Blocked
<1>3. session[w].order \in OrderStates /\ session[w].claim \in ClaimStates
  BY DEF TypeOK, Sessions
<1>4. Withdrawn(session[w].order, FALSE) \in OrderStates
  BY <1>3 DEF Withdrawn, OrderStates, TerminalOrders
<1>5. claim' \in [Packages -> ClaimStates] /\ order' \in [Packages -> OrderStates]
  <2>1. "FAILED_PRE_PROVIDER" \in ClaimStates
    BY DEF ClaimStates, ReleasedClaims
  <2>2. \A status \in OrderStates :
          Stored(status, session[w].order, Withdrawn(session[w].order, FALSE)) \in OrderStates
    BY <1>4 DEF Stored
  <2>3. CASE session[w].claim \in ReleasedClaims
    BY <2>3 DEF Blocked, TypeOK
  <2>4. CASE session[w].claim \notin ReleasedClaims
    <3> DEFINE p == session[w].pkg
               new == Stored(order[p], session[w].order, Withdrawn(session[w].order, FALSE))
    <3>1. claim' = [claim EXCEPT ![p] = "FAILED_PRE_PROVIDER"] /\ order' = [order EXCEPT ![p] = new]
      BY <2>4 DEF Blocked
    <3>2. new \in OrderStates
      BY <1>1, <2>2 DEF TypeOK
    <3> QED
      BY <1>1, <2>1, <3>1, <3>2 DEF TypeOK
  <2> QED
    BY <2>3, <2>4
<1> QED
  BY <1>2, <1>5 DEF TypeOK, SessionsOK, world

\* Before the submission.
LEMMA ExecuteTypeOK ==
  ASSUME TypeOK, NEW w \in Workers,
         ExecuteRefused(w) \/ ExecuteReplayed(w) \/ ExecuteVetoed(w) \/ ExecuteRecorded(w)
  PROVE  TypeOK'
<1>1. ~Idle(w) /\ session[w].pkg \in Packages
  BY BusyPackage DEF ExecuteRefused, ExecuteReplayed, ExecuteVetoed, ExecuteRecorded, At, Idle
<1>2. session[w] \in Sessions
  BY DEF TypeOK
<1>3. CASE ExecuteRefused(w)
  BY <1>1, <1>3, BlockedTypeOK DEF ExecuteRefused
<1>4. CASE ExecuteReplayed(w) \/ ExecuteVetoed(w)
  <2> DEFINE m == [session[w] EXCEPT !.pc = "tail", !.reply = "accepted"]
  <2>1. m \in Sessions /\ m.pc # "idle" /\ m.pkg = session[w].pkg
    BY <1>2 DEF Sessions, Points, Replies
  <2>2. session' = [session EXCEPT ![w] = m]
    BY <1>4 DEF ExecuteReplayed, ExecuteVetoed
  <2>3. SessionsOK'
    BY <1>1, <2>1, <2>2, SessionMoves
  <2> QED
    BY <1>4, <2>3 DEF ExecuteReplayed, ExecuteVetoed, TypeOK, SessionsOK, rows, world
<1>5. CASE ExecuteRecorded(w)
  <2> DEFINE m == [session[w] EXCEPT !.pc = "submit"]
  <2>1. m \in Sessions /\ m.pc # "idle" /\ m.pkg = session[w].pkg
    BY <1>2 DEF Sessions, Points
  <2>2. session' = [session EXCEPT ![w] = m]
    BY <1>5 DEF ExecuteRecorded
  <2>3. SessionsOK'
    BY <1>1, <2>1, <2>2, SessionMoves
  <2>4. slot' \in [Sides -> [holder : Packages \cup {NoPackage}, terminal : BOOLEAN]]
    BY <1>1, <1>5 DEF ExecuteRecorded, TypeOK
  <2> QED
    BY <1>5, <2>3, <2>4 DEF ExecuteRecorded, TypeOK, SessionsOK, rows, world
<1> QED
  BY <1>3, <1>4, <1>5

\* The submission.
LEMMA SubmitTypeOK ==
  ASSUME TypeOK, NEW w \in Workers,
         SubmitRefused(w) \/ SubmitExisting(w) \/ SubmitExpired(w) \/ SubmitStarted(w)
  PROVE  TypeOK'
<1>1. ~Idle(w) /\ session[w].pkg \in Packages
  BY BusyPackage DEF SubmitRefused, SubmitExisting, SubmitExpired, SubmitStarted, At, Idle
<1>2. session[w] \in Sessions
  BY DEF TypeOK
<1>3. CASE SubmitRefused(w)
  BY <1>1, <1>3, BlockedTypeOK DEF SubmitRefused
<1>4. CASE SubmitExisting(w)
  <2> DEFINE answer == IF session[w].order = "REJECTED" THEN "rejected" ELSE "ambiguous"
             m == [session[w] EXCEPT !.pc = "settle", !.reply = answer]
  <2>1. m \in Sessions /\ m.pc # "idle" /\ m.pkg = session[w].pkg
    BY <1>2 DEF Sessions, Points, Replies
  <2>2. session' = [session EXCEPT ![w] = m]
    BY <1>4 DEF SubmitExisting
  <2>3. SessionsOK'
    BY <1>1, <2>1, <2>2, SessionMoves
  <2> QED
    BY <1>4, <2>3 DEF SubmitExisting, TypeOK, SessionsOK, rows, world
<1>5. CASE SubmitExpired(w)
  <2> DEFINE m == [session[w] EXCEPT !.pc = "failing", !.order = "CONFIRMATION_EXPIRED"]
  <2>1. m \in Sessions /\ m.pc # "idle" /\ m.pkg = session[w].pkg
    BY <1>2 DEF Sessions, Points, OrderStates
  <2>2. session' = [session EXCEPT ![w] = m]
    BY <1>5 DEF SubmitExpired
  <2>3. SessionsOK'
    BY <1>1, <2>1, <2>2, SessionMoves
  <2>4. order' \in [Packages -> OrderStates]
    BY <1>1, <1>5 DEF SubmitExpired, TypeOK, OrderStates
  <2> QED
    BY <1>5, <2>3, <2>4 DEF SubmitExpired, TypeOK, SessionsOK, world
<1>6. CASE SubmitStarted(w)
  <2> DEFINE m == [session[w] EXCEPT !.pc = "call", !.order = "SUBMISSION_PENDING",
                                     !.claim = "SUBMISSION_PENDING"]
  <2>1. m \in Sessions /\ m.pc # "idle" /\ m.pkg = session[w].pkg
    BY <1>2 DEF Sessions, Points, OrderStates, OpenOrders, ClaimStates, NonterminalClaims
  <2>2. session' = [session EXCEPT ![w] = m]
    BY <1>6 DEF SubmitStarted
  <2>3. SessionsOK'
    BY <1>1, <2>1, <2>2, SessionMoves
  <2>4. order' \in [Packages -> OrderStates] /\ claim' \in [Packages -> ClaimStates]
        /\ submitted' \in [Packages -> BOOLEAN]
    BY <1>1, <1>6 DEF SubmitStarted, TypeOK, OrderStates, OpenOrders, ClaimStates, NonterminalClaims
  <2> QED
    BY <1>6, <2>3, <2>4 DEF SubmitStarted, TypeOK, SessionsOK, world
<1> QED
  BY <1>3, <1>4, <1>5, <1>6

\* The provider call, its record, the slot and the claim's last update.
LEMMA CallTypeOK ==
  ASSUME TypeOK, NEW w \in Workers, CallProvider(w) \/ CallNotSent(w)
  PROVE  TypeOK'
<1>1. session[w].pkg \in Packages
  BY BusyPackage DEF CallProvider, CallAnswered, CallNotSent, At, Idle
<1>2. session[w] \in Sessions
  BY DEF TypeOK
<1>3. CASE CallProvider(w)
  <2> DEFINE Arrivals == {"none", "in_flight", "live", "filled", "partly_filled", "closed"}
  <2>0. exch[session[w].pkg] \in Arrivals
    BY <1>1 DEF TypeOK
  <2>1. PICK reply \in {"accepted", "rejected", "ambiguous"}, arrival \in Arrivals :
          CallAnswered(w, reply, arrival)
    BY <1>3, <2>0 DEF CallProvider
  <2> DEFINE m == [session[w] EXCEPT !.pc = "record", !.reply = reply]
  <2>2. m \in Sessions /\ m.pc # "idle" /\ m.pkg = session[w].pkg
    BY <1>2 DEF Sessions, Points, Replies
  <2>3. session' = [session EXCEPT ![w] = m]
    BY <2>1 DEF CallAnswered
  <2>4. SessionsOK'
    BY <1>1, <2>2, <2>3, SessionMoves
  <2>5. exch' \in [Packages -> {"none", "in_flight", "live", "filled", "partly_filled", "closed"}]
    BY <1>1, <2>1 DEF CallAnswered, TypeOK
  <2>6. calls' \in [Packages -> Nat]
    BY <1>1, <2>1 DEF CallAnswered, TypeOK
  <2> QED
    BY <2>1, <2>4, <2>5, <2>6 DEF CallAnswered, TypeOK, SessionsOK, rows
<1>4. CASE CallNotSent(w)
  <2>1. PICK pc \in {"settle", "failing"}, reply \in Replies :
          session' = [session EXCEPT ![w].pc = pc, ![w].reply = reply]
    <3>1. CASE session' = [session EXCEPT ![w].pc = "settle", ![w].reply = "ambiguous"]
      BY <3>1 DEF Replies
    <3>2. CASE session' = [session EXCEPT ![w].pc = "failing"]
      <4>1. session' = [session EXCEPT ![w].pc = "failing", ![w].reply = session[w].reply]
        BY <1>2, <3>2 DEF Sessions, TypeOK
      <4> QED
        BY <1>2, <4>1 DEF Sessions
    <3> QED
      BY <1>4, <3>1, <3>2 DEF CallNotSent
  <2> DEFINE m == [session[w] EXCEPT !.pc = pc, !.reply = reply]
  <2>2. m \in Sessions /\ m.pc # "idle" /\ m.pkg = session[w].pkg
    BY <1>2 DEF Sessions, Points
  <2>3. session' = [session EXCEPT ![w] = m]
    BY <2>1
  <2>4. SessionsOK'
    BY <1>1, <2>2, <2>3, SessionMoves
  <2> QED
    BY <1>4, <2>4 DEF CallNotSent, TypeOK, SessionsOK, rows, world
<1> QED
  BY <1>3, <1>4

\* Recording the provider's reply on the order, and on the claim if rejected.
LEMMA RecordTypeOK ==
  ASSUME TypeOK, NEW w \in Workers, RecordRejected(w) \/ RecordAmbiguous(w) \/ RecordAccepted(w)
  PROVE  TypeOK'
<1>1. session[w].pkg \in Packages
  BY BusyPackage DEF RecordRejected, RecordAmbiguous, RecordAccepted, At, Idle
<1>2. session[w] \in Sessions
  BY DEF TypeOK
<1>3. PICK status \in {"REJECTED", "RECONCILIATION_REQUIRED", "ACKNOWLEDGED"}, c \in ClaimStates :
        session' = [session EXCEPT ![w].pc = "settle", ![w].order = status, ![w].claim = c]
  <2>1. CASE RecordRejected(w)
    BY <2>1 DEF RecordRejected, ClaimStates, ReleasedClaims
  <2>2. CASE RecordAmbiguous(w) \/ RecordAccepted(w)
    <3>1. PICK status \in {"REJECTED", "RECONCILIATION_REQUIRED", "ACKNOWLEDGED"} :
            session' = [session EXCEPT ![w].pc = "settle", ![w].order = status]
      BY <2>2 DEF RecordAmbiguous, RecordAccepted
    <3>2. session' = [session EXCEPT ![w].pc = "settle", ![w].order = status, ![w].claim = session[w].claim]
      BY <1>2, <3>1 DEF Sessions, TypeOK
    <3> QED
      BY <1>2, <3>2 DEF Sessions
  <2> QED
    BY <2>1, <2>2
<1> DEFINE m == [session[w] EXCEPT !.pc = "settle", !.order = status, !.claim = c]
<1>4. m \in Sessions /\ m.pc # "idle" /\ m.pkg = session[w].pkg
  BY <1>2 DEF Sessions, Points, OrderStates, OpenOrders, TerminalOrders
<1>5. SessionsOK'
  <2>1. session' = [session EXCEPT ![w] = m]
    BY <1>3
  <2> QED
    BY <1>1, <1>4, <2>1, SessionMoves
<1>6. /\ order' \in [Packages -> OrderStates] /\ claim' \in [Packages -> ClaimStates]
      /\ acked' \in [Packages -> BOOLEAN] /\ effective' \in [Packages -> BOOLEAN]
  BY <1>1 DEF RecordRejected, RecordAmbiguous, RecordAccepted, TypeOK, OrderStates, OpenOrders,
              TerminalOrders, ClaimStates, ReleasedClaims
<1>7. UNCHANGED <<submitted, event, booked, custody, world, slot, crashes>>
  BY DEF RecordRejected, RecordAmbiguous, RecordAccepted
<1> QED
  BY <1>5, <1>6, <1>7 DEF TypeOK, SessionsOK, world

\* The endings of an attempt: slot, claim, exception, killed process.
LEMMA ConcludeTypeOK ==
  ASSUME TypeOK, NEW w \in Workers, Settle(w) \/ Conclude(w) \/ Fail(w) \/ Crash(w)
  PROVE  TypeOK'
<1>1. ~Idle(w) /\ session[w].pkg \in Packages
  BY BusyPackage DEF Settle, Conclude, Fail, Crash, At, Idle
<1>2. session[w] \in Sessions
  BY DEF TypeOK
<1>3. CASE Settle(w)
  <2> DEFINE m == [session[w] EXCEPT !.pc = "tail"]
  <2>1. m \in Sessions /\ m.pc # "idle" /\ m.pkg = session[w].pkg
    BY <1>2 DEF Sessions, Points
  <2>2. session' = [session EXCEPT ![w] = m]
    BY <1>3 DEF Settle
  <2>3. SessionsOK'
    BY <1>1, <2>1, <2>2, SessionMoves
  <2>4. slot' \in [Sides -> [holder : Packages \cup {NoPackage}, terminal : BOOLEAN]]
    BY <1>1, <1>3 DEF Settle, TypeOK
  <2> QED
    BY <1>3, <2>3, <2>4 DEF Settle, TypeOK, SessionsOK, rows, world
<1>4. CASE Conclude(w)
  <2>1. claim' \in [Packages -> ClaimStates]
    BY <1>1, <1>4 DEF Conclude, Stored, TypeOK, ClaimStates, NonterminalClaims
  <2>2. SessionsOK'
    BY <1>4, SessionEnds DEF Conclude
  <2> QED
    BY <1>4, <2>1, <2>2 DEF Conclude, TypeOK, SessionsOK, world
<1>5. CASE Fail(w)
  BY <1>1, <1>5, BlockedTypeOK DEF Fail
<1>6. CASE Crash(w)
  <2>1. SessionsOK'
    BY <1>6, SessionEnds DEF Crash
  <2>2. crashes' \in 0..MaxCrashes
    BY <1>6, MaxCrashesAssumption DEF Crash, TypeOK
  <2> QED
    BY <1>6, <2>1, <2>2 DEF Crash, TypeOK, SessionsOK, rows, world
<1> QED
  BY <1>3, <1>4, <1>5, <1>6

-----------------------------------------------------------------------------
(* Steps outside an attempt.                                                *)

\* The exchange, the operators and the activation's window.
LEMMA EnvironmentTypeOK ==
  ASSUME TypeOK, NEW p \in Packages,
         ExchangeMoves(p) \/ ActivationLapses(p) \/ ToggleKillSwitch \/ Redeploy
  PROVE  TypeOK'
<1>1. CASE ExchangeMoves(p)
  <2>1. exch' \in [Packages -> {"none", "in_flight", "live", "filled", "partly_filled", "closed"}]
    BY <1>1 DEF ExchangeMoves, TypeOK
  <2> QED
    BY <1>1, <2>1 DEF ExchangeMoves, TypeOK, rows
<1>2. CASE ActivationLapses(p)
  BY <1>2 DEF ActivationLapses, TypeOK, world
<1>3. CASE ToggleKillSwitch
  BY <1>3 DEF ToggleKillSwitch, TypeOK, rows
<1>4. CASE Redeploy
  BY <1>4 DEF Redeploy, TypeOK, rows
<1> QED
  BY <1>1, <1>2, <1>3, <1>4

\* A reconciliation pass that stores a legal status and its evidence.
LEMMA ReconciledTypeOK ==
  ASSUME TypeOK, NEW p \in Packages, NEW status \in OrderStates,
         NEW evidence \in {"none", "resolved", "unresolved"}, NEW fills \in BOOLEAN,
         Reconciled(p, status, evidence, fills)
  PROVE  TypeOK'
<1>1. /\ order' \in [Packages -> OrderStates]
      /\ event' \in [Packages -> {"none", "resolved", "unresolved"}]
  BY DEF Reconciled, TypeOK
<1>2. booked' \in [Packages -> BOOLEAN]
  BY DEF Reconciled, TypeOK
<1> QED
  BY <1>1, <1>2 DEF Reconciled, TypeOK, world

\* Every reconciliation outcome is a Reconciled step.
LEMMA ReconcileCases ==
  ASSUME TypeOK, NEW p \in Packages, Reconcile(p)
  PROVE  \E status \in OrderStates \ {"DRY_RUN_READY", "PENDING_CONFIRMATION"},
            evidence \in {"none", "resolved", "unresolved"}, fills \in BOOLEAN :
           Reconciled(p, status, evidence, fills)
<1>1. event[p] \in {"none", "resolved", "unresolved"}
  BY DEF TypeOK
<1>2. {"FILLED", "CANCELLED", "REJECTED", "ACKNOWLEDGED", "PARTIALLY_FILLED", "RECONCILIATION_REQUIRED"}
        \subseteq OrderStates \ {"DRY_RUN_READY", "PENDING_CONFIRMATION"}
  BY DEF OrderStates, OpenOrders, TerminalOrders
<1>3. CASE ReconcileMissing(p)
  BY <1>1, <1>2, <1>3 DEF ReconcileMissing
<1>4. CASE ReconcileOpen(p)
  BY <1>1, <1>2, <1>4 DEF ReconcileOpen
<1>5. CASE ReconcileFilled(p) \/ ReconcileUnproven(p)
  BY <1>2, <1>5 DEF ReconcileFilled, ReconcileUnproven
<1>6. CASE ReconcileMismatch(p)
  BY <1>2, <1>6 DEF ReconcileMismatch
<1>7. CASE ReconcileClosed(p) \/ ReconcilePartlyFilled(p)
  BY <1>2, <1>7 DEF ReconcileClosed, ReconcilePartlyFilled
<1>8. CASE ReconcileLagging(p)
  BY <1>2, <1>8 DEF ReconcileLagging
<1> QED
  BY <1>3, <1>4, <1>5, <1>6, <1>7, <1>8 DEF Reconcile

\* The worker's steps that begin an attempt or release a claim.
LEMMA ClaimTypeOK ==
  ASSUME TypeOK, NEW w \in Workers, NEW p \in Packages,
         \/ ClaimPackage(w, p) \/ ClaimBlocked(w, p) \/ Redrive(w, p) \/ Sweep(w, p)
         \/ Release(w, p)
  PROVE  TypeOK'
<1>1. CASE ClaimPackage(w, p)
  <2>1. PICK ord \in RecoveredOrders : Advance(w, p, "CLAIMED", ord)
    BY <1>1 DEF ClaimPackage
  <2>2. "CLAIMED" \in NonterminalClaims /\ ord \in [Packages -> OrderStates]
    BY RecoveredTypeOK DEF NonterminalClaims
  <2> QED
    BY <2>1, <2>2, AdvanceTypeOK
<1>2. CASE ClaimBlocked(w, p)
  <2>1. order' \in [Packages -> OrderStates]
    BY <1>2, RecoveredTypeOK DEF ClaimBlocked
  <2> QED
    BY <1>2, <2>1 DEF ClaimBlocked, TypeOK, world
<1>3. CASE Redrive(w, p)
  BY <1>3, AdvanceTypeOK DEF Redrive, TypeOK
<1>4. CASE Sweep(w, p)
  <2>1. claim[p] \in NonterminalClaims
    BY <1>4 DEF Sweep, NonterminalClaims
  <2> QED
    BY <1>4, <2>1, AdvanceTypeOK DEF Sweep, TypeOK
<1>5. CASE Release(w, p)
  <2>1. ReleasedStatus(p) \in ClaimStates
    BY DEF ReleasedStatus, ClaimStates, ReleasedClaims
  <2> QED
    BY <1>5, <2>1 DEF Release, TypeOK, world
<1> QED
  BY <1>1, <1>2, <1>3, <1>4, <1>5

\* TypeOK is inductive.
LEMMA NextTypeOK == TypeOK /\ [Next]_vars => TypeOK'
<1> SUFFICES ASSUME TypeOK, [Next]_vars PROVE TypeOK'
  OBVIOUS
<1>1. ASSUME NEW w \in Workers, Attempt(w) \/ Crash(w) PROVE TypeOK'
  BY <1>1, ExecuteTypeOK, SubmitTypeOK, CallTypeOK, RecordTypeOK, ConcludeTypeOK DEF Attempt
<1>2. ASSUME NEW w \in Workers, NEW p \in Packages,
             \/ ClaimPackage(w, p) \/ ClaimBlocked(w, p) \/ Redrive(w, p) \/ Sweep(w, p)
             \/ Release(w, p)
      PROVE  TypeOK'
  BY <1>2, ClaimTypeOK
<1>3. ASSUME NEW p \in Packages, Reconcile(p) PROVE TypeOK'
  BY <1>3, ReconcileCases, ReconciledTypeOK
<1>4. ASSUME NEW p \in Packages, ExchangeMoves(p) \/ ActivationLapses(p) PROVE TypeOK'
  BY <1>4, EnvironmentTypeOK
<1>5. CASE ToggleKillSwitch \/ Redeploy
  BY <1>5 DEF ToggleKillSwitch, Redeploy, TypeOK, rows
<1>6. CASE UNCHANGED vars
  BY <1>6 DEF vars, rows, world, TypeOK
<1> QED
  BY <1>1, <1>2, <1>3, <1>4, <1>5, <1>6 DEF Next

\* The status columns, the slot and the workers' attempts stay in their
\* domains, for any packages, workers and bounds.
THEOREM TypeCorrect == Spec => []TypeOK
<1> QED
  BY InitTypeOK, NextTypeOK, PTL DEF Spec

-----------------------------------------------------------------------------
(* The scope lock.                                                          *)

\* Storing a status in one claim keeps the lock when the status is released,
\* the claim held the scope already, or nobody else does.
LEMMA ScopeKept ==
  ASSUME TypeOK, OneScopeHolder, NEW p \in Packages, NEW c \in ClaimStates,
         claim' = [claim EXCEPT ![p] = c],
         c \in NonterminalClaims => claim[p] \in NonterminalClaims \/ ScopeFree(p)
  PROVE  OneScopeHolder'
BY DEF TypeOK, OneScopeHolder, ScopeFree

\* The scope lock does not depend on anything but the claims.
LEMMA ScopeUnchanged == OneScopeHolder /\ claim' = claim => OneScopeHolder'
BY DEF OneScopeHolder

\* No released status is a nonterminal one.
LEMMA ReleasedNotNonterminal ==
  /\ \A c \in ReleasedClaims : c \notin NonterminalClaims /\ c \in ClaimStates
  /\ NonterminalClaims \subseteq ClaimStates
  /\ "NONE" \notin NonterminalClaims
BY DEF ReleasedClaims, NonterminalClaims, ClaimStates

\* advance_claimed_execution writes a released status or one that holds the
\* scope; c is then a claim that held it, or one being inserted.
LEMMA AdvanceScope ==
  ASSUME TypeOK, OneScopeHolder, NEW w \in Workers, NEW p \in Packages,
         NEW c \in NonterminalClaims, NEW ord \in [Packages -> OrderStates],
         Advance(w, p, c, ord), claim[p] \in NonterminalClaims \/ ScopeFree(p)
  PROVE  OneScopeHolder'
<1>1. CASE PrepareRefused(w, p, c, ord) \/ ReadinessRefused(w, p, c, ord)
  <2>1. claim' = [claim EXCEPT ![p] = "FAILED_PRE_PROVIDER"]
    BY <1>1 DEF PrepareRefused, ReadinessRefused
  <2>2. "FAILED_PRE_PROVIDER" \in ReleasedClaims
    BY DEF ReleasedClaims
  <2> QED
    BY <2>1, <2>2, ReleasedNotNonterminal, ScopeKept
<1>2. CASE SafetyDisabled(w, p, c, ord)
  <2>1. claim' = [claim EXCEPT ![p] = "SAFETY_DISABLED"]
    BY <1>2 DEF SafetyDisabled
  <2>2. "SAFETY_DISABLED" \in ReleasedClaims
    BY DEF ReleasedClaims
  <2> QED
    BY <2>1, <2>2, ReleasedNotNonterminal, ScopeKept
<1>3. CASE Prepared(w, p, c, ord)
  <2> DEFINE status == IF ord[p] = "DRY_RUN_READY" THEN "EXECUTION_STARTED" ELSE c
  <2>1. claim' = [claim EXCEPT ![p] = status]
    BY <1>3 DEF Prepared
  <2>2. status \in ClaimStates
    BY ReleasedNotNonterminal DEF NonterminalClaims
  <2> HIDE DEF status
  <2> QED
    BY <2>1, <2>2, ScopeKept
<1> QED
  BY <1>1, <1>2, <1>3 DEF Advance

\* The exception handler releases the claim or leaves it.
LEMMA BlockedScope ==
  ASSUME TypeOK, OneScopeHolder, NEW w \in Workers, ~Idle(w), Blocked(w)
  PROVE  OneScopeHolder'
<1>1. session[w].pkg \in Packages
  BY BusyPackage
<1>2. CASE session[w].claim \in ReleasedClaims
  BY <1>2, ScopeUnchanged DEF Blocked
<1>3. CASE session[w].claim \notin ReleasedClaims
  <2>1. claim' = [claim EXCEPT ![session[w].pkg] = "FAILED_PRE_PROVIDER"]
    BY <1>3 DEF Blocked
  <2>2. "FAILED_PRE_PROVIDER" \in ReleasedClaims
    BY DEF ReleasedClaims
  <2> QED
    BY <1>1, <2>1, <2>2, ReleasedNotNonterminal, ScopeKept
<1> QED
  BY <1>2, <1>3

\* The steps of an attempt that write the claim, and those that do not.
LEMMA AttemptScope ==
  ASSUME TypeOK, OneScopeHolder, NEW w \in Workers, Attempt(w)
  PROVE  OneScopeHolder'
<1>1. CASE ExecuteRefused(w) \/ SubmitRefused(w) \/ Fail(w)
  BY <1>1, BlockedScope DEF ExecuteRefused, SubmitRefused, Fail, At, Idle
<1>2. CASE SubmitStarted(w)
  <2>1. session[w].pkg \in Packages
    BY <1>2, BusyPackage DEF SubmitStarted, At, Idle
  <2>2. /\ claim' = [claim EXCEPT ![session[w].pkg] = "SUBMISSION_PENDING"]
        /\ ScopeFree(session[w].pkg)
    BY <1>2 DEF SubmitStarted
  <2>3. "SUBMISSION_PENDING" \in ClaimStates
    BY DEF ClaimStates, NonterminalClaims
  <2> QED
    BY <2>1, <2>2, <2>3, ScopeKept
<1>3. CASE RecordRejected(w)
  <2>1. session[w].pkg \in Packages
    BY <1>3, BusyPackage DEF RecordRejected, At, Idle
  <2>2. claim' = [claim EXCEPT ![session[w].pkg] = "CANCELLED"]
    BY <1>3 DEF RecordRejected
  <2>3. "CANCELLED" \in ReleasedClaims
    BY DEF ReleasedClaims
  <2> QED
    BY <2>1, <2>2, <2>3, ReleasedNotNonterminal, ScopeKept
<1>4. CASE Conclude(w)
  <2> DEFINE p == session[w].pkg
             final == IF session[w].reply = "ambiguous" THEN "RECONCILIATION_REQUIRED"
                      ELSE "SUBMISSION_PENDING"
  <2>1. p \in Packages
    BY <1>4, BusyPackage DEF Conclude, At, Idle
  <2>2. final \in ClaimStates
    BY DEF ClaimStates, NonterminalClaims
  <2>3. CASE claim' = claim
    BY <2>3, ScopeUnchanged
  <2>4. CASE claim' # claim
    <3>1. /\ claim' = [claim EXCEPT ![p] = Stored(claim[p], session[w].claim, final)]
          /\ final # session[w].claim => ScopeFree(p)
      BY <1>4, <2>4 DEF Conclude
    <3>2. claim' = [claim EXCEPT ![p] = final] /\ ScopeFree(p)
      BY <2>1, <2>4, <3>1 DEF Stored, TypeOK
    <3> QED
      BY <2>1, <2>2, <3>2, ScopeKept
  <2> QED
    BY <2>3, <2>4
<1>5. CASE \/ ExecuteReplayed(w) \/ ExecuteVetoed(w) \/ ExecuteRecorded(w)
           \/ SubmitExisting(w) \/ SubmitExpired(w) \/ CallProvider(w) \/ CallNotSent(w)
           \/ RecordAmbiguous(w) \/ RecordAccepted(w) \/ Settle(w)
  <2>1. claim' = claim
    BY <1>5 DEF ExecuteReplayed, ExecuteVetoed, ExecuteRecorded, SubmitExisting, SubmitExpired,
                CallProvider, CallAnswered, CallNotSent, RecordAmbiguous, RecordAccepted, Settle, rows
  <2> QED
    BY <2>1, ScopeUnchanged
<1> QED
  BY <1>1, <1>2, <1>3, <1>4, <1>5 DEF Attempt

\* Claiming, advancing again, sweeping and releasing.
LEMMA ClaimScope ==
  ASSUME TypeOK, OneScopeHolder, NEW w \in Workers, NEW p \in Packages,
         \/ ClaimPackage(w, p) \/ ClaimBlocked(w, p) \/ Redrive(w, p) \/ Sweep(w, p)
         \/ Release(w, p)
  PROVE  OneScopeHolder'
<1>1. CASE ClaimPackage(w, p)
  <2>1. PICK ord \in RecoveredOrders : Advance(w, p, "CLAIMED", ord) /\ ScopeFree(p)
    BY <1>1 DEF ClaimPackage, ClaimAllowed
  <2>2. "CLAIMED" \in NonterminalClaims /\ ord \in [Packages -> OrderStates]
    BY RecoveredTypeOK DEF NonterminalClaims
  <2> QED
    BY <2>1, <2>2, AdvanceScope
<1>2. CASE ClaimBlocked(w, p)
  BY <1>2, ScopeUnchanged DEF ClaimBlocked
<1>3. CASE Redrive(w, p)
  BY <1>3, AdvanceScope DEF Redrive, TypeOK
<1>4. CASE Sweep(w, p)
  <2>1. claim[p] \in NonterminalClaims
    BY <1>4 DEF Sweep, NonterminalClaims
  <2> QED
    BY <1>4, <2>1, AdvanceScope DEF Sweep, TypeOK
<1>5. CASE Release(w, p)
  <2>1. ReleasedStatus(p) \in ReleasedClaims
    BY DEF ReleasedStatus, ReleasedClaims
  <2>2. claim' = [claim EXCEPT ![p] = ReleasedStatus(p)]
    BY <1>5 DEF Release
  <2> QED
    BY <2>1, <2>2, ReleasedNotNonterminal, ScopeKept
<1> QED
  BY <1>1, <1>2, <1>3, <1>4, <1>5

\* The claims written by an earlier release are at most one.
LEMMA InitScope == Init => OneScopeHolder
<1> SUFFICES ASSUME Init PROVE OneScopeHolder
  OBVIOUS
<1>1. \A p \in Packages : claim[p] \in NonterminalClaims => p \in Historical
  BY ReleasedNotNonterminal DEF Init
<1> QED
  BY <1>1, HistoricalAssumption DEF OneScopeHolder

\* At most one claim holds the campaign version's execution scope, for any
\* number of packages and of concurrent workers (the partial unique index
\* with the guards of claim_activated_package, submit and advance).
THEOREM ScopeLockHolds == Spec => []OneScopeHolder
<1>1. TypeOK /\ OneScopeHolder /\ [Next]_vars => OneScopeHolder'
  <2> SUFFICES ASSUME TypeOK, OneScopeHolder, [Next]_vars PROVE OneScopeHolder'
    OBVIOUS
  <2>1. ASSUME NEW w \in Workers, Attempt(w) PROVE OneScopeHolder'
    BY <2>1, AttemptScope
  <2>2. ASSUME NEW w \in Workers, Crash(w) PROVE OneScopeHolder'
    BY <2>2, ScopeUnchanged DEF Crash, rows
  <2>3. ASSUME NEW w \in Workers, NEW p \in Packages,
               \/ ClaimPackage(w, p) \/ ClaimBlocked(w, p) \/ Redrive(w, p) \/ Sweep(w, p)
               \/ Release(w, p)
        PROVE  OneScopeHolder'
    BY <2>3, ClaimScope
  <2>4. ASSUME NEW p \in Packages, Reconcile(p) PROVE OneScopeHolder'
    <3>1. claim' = claim
      BY <2>4, ReconcileCases DEF Reconciled
    <3> QED
      BY <3>1, ScopeUnchanged
  <2>5. ASSUME NEW p \in Packages, ExchangeMoves(p) \/ ActivationLapses(p) PROVE OneScopeHolder'
    BY <2>5, ScopeUnchanged DEF ExchangeMoves, ActivationLapses, rows
  <2>6. CASE ToggleKillSwitch \/ Redeploy \/ UNCHANGED vars
    BY <2>6, ScopeUnchanged DEF ToggleKillSwitch, Redeploy, vars, rows
  <2> QED
    BY <2>1, <2>2, <2>3, <2>4, <2>5, <2>6 DEF Next
<1> QED
  BY <1>1, InitScope, TypeCorrect, PTL DEF Spec

-----------------------------------------------------------------------------
(* One worker.  Its loaded rows are then current, which the code relies on  *)
(* where it decides on them after a commit.                                 *)

OneWorker == \A v, w \in Workers : v = w

BeforeReply == {"execute", "submit", "failing", "call", "record"}

\* What a worker remembers of its package is what is stored, and a package is
\* not sent before its submission is recorded.
AttemptCurrent(w) ==
  /\ ~Idle(w) => session[w].claim = claim[session[w].pkg]
  /\ session[w].pc \in BeforeReply => session[w].claim \in NonterminalClaims
  /\ session[w].pc \in {"execute", "submit"} /\ session[w].order = "PENDING_CONFIRMATION"
       => order[session[w].pkg] = "PENDING_CONFIRMATION"
  /\ At(w, "call") => calls[session[w].pkg] = 0 /\ submitted[session[w].pkg]

CallsRecorded == \A p \in Packages : calls[p] = 0 \/ (calls[p] = 1 /\ submitted[p])

PreparedUnsubmitted ==
  \A p \in Packages : order[p] \in {"DRY_RUN_READY", "PENDING_CONFIRMATION"} => ~submitted[p]

AttemptInv ==
  /\ \A w \in Workers : AttemptCurrent(w)
  /\ CallsRecorded
  /\ PreparedUnsubmitted

\* An idle worker satisfies its part of the invariant.
LEMMA IdleCurrent == ASSUME NEW w \in Workers, Idle(w) PROVE AttemptCurrent(w)
BY DEF Idle, AttemptCurrent, BeforeReply, At

\* An ended attempt satisfies its part of the invariant.
LEMMA EndedCurrent ==
  ASSUME TypeOK, NEW w \in Workers, EndAttempt(w)
  PROVE  AttemptCurrent(w)'
<1>1. session'[w].pc = "idle"
  BY DEF EndAttempt, IdleSession, TypeOK
<1> QED
  BY <1>1 DEF Idle, AttemptCurrent, BeforeReply, At

\* With one worker, what it does keeps every attempt current if it keeps its
\* own current.
LEMMA OnlyAttempt ==
  ASSUME OneWorker, NEW w \in Workers, AttemptCurrent(w)'
  PROVE  (\A v \in Workers : AttemptCurrent(v))'
BY DEF OneWorker

\* An order withdrawn by the exception handler becomes CANCELLED or stays.
LEMMA BlockedInv ==
  ASSUME TypeOK, OneWorker, AttemptInv, NEW w \in Workers, ~Idle(w), Blocked(w),
         UNCHANGED <<submitted, calls>>
  PROVE  AttemptInv'
<1>1. AttemptCurrent(w)'
  BY EndedCurrent DEF Blocked
<1>2. session[w].pkg \in Packages
  BY BusyPackage
<1>3. PreparedUnsubmitted'
  <2>1. \A p \in Packages : order'[p] \in {"CANCELLED", order[p]}
    <3>1. CASE session[w].claim \in ReleasedClaims
      BY <3>1 DEF Blocked
    <3>2. CASE session[w].claim \notin ReleasedClaims
      BY <1>2, <3>2 DEF Blocked, Stored, Withdrawn, TypeOK
    <3> QED
      BY <3>1, <3>2
  <2> QED
    BY <2>1 DEF AttemptInv, PreparedUnsubmitted
<1>4. CallsRecorded'
  BY DEF AttemptInv, CallsRecorded
<1> QED
  BY <1>1, <1>3, <1>4, OnlyAttempt DEF AttemptInv

\* The four endings of advance's first transaction begin at most one attempt.
LEMMA AdvanceInv ==
  ASSUME TypeOK, OneWorker, AttemptInv, NEW w \in Workers, NEW p \in Packages,
         NEW c \in NonterminalClaims, NEW ord \in [Packages -> OrderStates],
         Idle(w), Advance(w, p, c, ord),
         \A q \in Packages : ord[q] \in {"CANCELLED", order[q]}
  PROVE  AttemptInv'
<1>1. UNCHANGED <<submitted, calls>>
  BY DEF Advance, world
<1>2. CallsRecorded'
  BY <1>1 DEF AttemptInv, CallsRecorded
<1>3. PreparedUnsubmitted'
  <2>1. \A q \in Packages : ord[q] \in {"DRY_RUN_READY", "PENDING_CONFIRMATION"} => ~submitted[q]
    BY DEF AttemptInv, PreparedUnsubmitted
  <2>2. order' \in { [ord EXCEPT ![p] = "CANCELLED"], [ord EXCEPT ![p] = ord[p]],
                     [ord EXCEPT ![p] = PreparedOrder(p, ord)] }
    BY DEF Advance, PrepareRefused, ReadinessRefused, SafetyDisabled, Prepared, Withdrawn
  <2>3. ~submitted[p] \/ order'[p] \notin {"DRY_RUN_READY", "PENDING_CONFIRMATION"}
    BY <2>1, <2>2 DEF PreparedOrder
  <2>4. \A q \in Packages \ {p} : order'[q] = ord[q]
    BY <2>2
  <2> QED
    BY <1>1, <2>1, <2>3, <2>4 DEF PreparedUnsubmitted
<1>4. AttemptCurrent(w)'
  <2>1. CASE UNCHANGED session
    BY <2>1 DEF Idle, AttemptCurrent, BeforeReply, At
  <2>2. CASE Prepared(w, p, c, ord)
    <3> DEFINE status == IF ord[p] = "DRY_RUN_READY" THEN "EXECUTION_STARTED" ELSE c
               m == [pc |-> "execute", pkg |-> p, claim |-> status,
                     order |-> PreparedOrder(p, ord), reply |-> "none"]
    <3>1. /\ claim' = [claim EXCEPT ![p] = status]
          /\ order' = [ord EXCEPT ![p] = PreparedOrder(p, ord)]
          /\ session' = [session EXCEPT ![w] = m]
      BY <2>2 DEF Prepared
    <3>2. session'[w] = m
      BY <3>1 DEF TypeOK
    <3>3. claim'[p] = status /\ order'[p] = PreparedOrder(p, ord)
      BY <3>1 DEF TypeOK
    <3>4. status \in NonterminalClaims
      BY DEF NonterminalClaims
    <3>5. /\ session'[w].pc = "execute" /\ session'[w].pkg = p
          /\ session'[w].claim = status /\ session'[w].order = PreparedOrder(p, ord)
      BY <3>2
    <3> HIDE DEF m, status
    <3> QED
      BY <3>3, <3>4, <3>5 DEF AttemptCurrent, At
  <2> QED
    BY <2>1, <2>2 DEF Advance, PrepareRefused, ReadinessRefused, SafetyDisabled
<1> QED
  BY <1>2, <1>3, <1>4, OnlyAttempt DEF AttemptInv

\* The steps of an attempt that write neither its package's claim nor its
\* order: the attempt moves to a point where nothing more is asked of it, or
\* from execute to submit.
LEMMA QuietInv ==
  ASSUME TypeOK, OneWorker, AttemptInv, NEW w \in Workers,
         \/ ExecuteReplayed(w) \/ ExecuteVetoed(w) \/ ExecuteRecorded(w) \/ SubmitExisting(w)
         \/ CallNotSent(w) \/ Settle(w)
  PROVE  AttemptInv'
<1>1. UNCHANGED <<claim, order, submitted, calls>>
  BY DEF ExecuteReplayed, ExecuteVetoed, ExecuteRecorded, SubmitExisting, CallNotSent, Settle, rows, world
<1>2. ~Idle(w) /\ AttemptCurrent(w)
  BY DEF ExecuteReplayed, ExecuteVetoed, ExecuteRecorded, SubmitExisting, CallNotSent, Settle,
         At, Idle, AttemptInv
<1>3. /\ session'[w].pkg = session[w].pkg /\ session'[w].claim = session[w].claim
      /\ session'[w].order = session[w].order
      /\ \/ session'[w].pc \in {"tail", "settle"}
         \/ session[w].pc = "execute" /\ session'[w].pc = "submit"
         \/ session[w].pc = "call" /\ session'[w].pc = "failing"
  <2>1. session[w] \in Sessions /\ w \in DOMAIN session
    BY DEF TypeOK
  <2>2. CASE ExecuteReplayed(w) \/ ExecuteVetoed(w)
    <3>1. session' = [session EXCEPT ![w] = [session[w] EXCEPT !.pc = "tail", !.reply = "accepted"]]
      BY <2>2 DEF ExecuteReplayed, ExecuteVetoed
    <3> QED
      BY <2>1, <3>1 DEF Sessions
  <2>3. CASE ExecuteRecorded(w)
    <3>1. session' = [session EXCEPT ![w] = [session[w] EXCEPT !.pc = "submit"]] /\ session[w].pc = "execute"
      BY <2>3 DEF ExecuteRecorded, At
    <3> QED
      BY <2>1, <3>1 DEF Sessions
  <2>4. CASE SubmitExisting(w)
    <3>1. PICK reply \in Replies :
            session' = [session EXCEPT ![w] = [session[w] EXCEPT !.pc = "settle", !.reply = reply]]
      BY <2>4 DEF SubmitExisting, Replies
    <3> QED
      BY <2>1, <3>1 DEF Sessions
  <2>5. CASE CallNotSent(w)
    <3>1. \/ session' = [session EXCEPT ![w] = [session[w] EXCEPT !.pc = "settle", !.reply = "ambiguous"]]
          \/ session' = [session EXCEPT ![w] = [session[w] EXCEPT !.pc = "failing"]]
      BY <2>5 DEF CallNotSent
    <3>2. session[w].pc = "call"
      BY <2>5 DEF CallNotSent, At
    <3> QED
      BY <2>1, <3>1, <3>2 DEF Sessions
  <2>6. CASE Settle(w)
    <3>1. session' = [session EXCEPT ![w] = [session[w] EXCEPT !.pc = "tail"]]
      BY <2>6 DEF Settle
    <3> QED
      BY <2>1, <3>1 DEF Sessions
  <2> QED
    BY <2>2, <2>3, <2>4, <2>5, <2>6
<1>4. AttemptCurrent(w)'
  BY <1>1, <1>2, <1>3 DEF AttemptCurrent, BeforeReply, At, Idle
<1> QED
  BY <1>1, <1>4, OnlyAttempt DEF AttemptInv, CallsRecorded, PreparedUnsubmitted

\* The submission expires, or is recorded before the provider is called.
LEMMA SubmitInv ==
  ASSUME TypeOK, OneWorker, AttemptInv, NEW w \in Workers, SubmitExpired(w) \/ SubmitStarted(w)
  PROVE  AttemptInv'
<1> DEFINE p == session[w].pkg
<1>1. p \in Packages /\ AttemptCurrent(w) /\ session[w] \in Sessions /\ ~Idle(w)
  BY BusyPackage DEF SubmitExpired, SubmitStarted, At, Idle, AttemptInv, TypeOK
<1>2. order[p] = "PENDING_CONFIRMATION" /\ session[w].claim \in NonterminalClaims
      /\ session[w].claim = claim[p]
  BY <1>1 DEF SubmitExpired, SubmitStarted, At, AttemptCurrent, BeforeReply, Idle
<1>3. ~submitted[p] /\ calls[p] = 0
  BY <1>1, <1>2 DEF AttemptInv, PreparedUnsubmitted, CallsRecorded
<1>4. CASE SubmitExpired(w)
  <2>1. session' = [session EXCEPT ![w] = [session[w] EXCEPT !.pc = "failing", !.order = "CONFIRMATION_EXPIRED"]]
    BY <1>4 DEF SubmitExpired
  <2>2. session'[w].pc = "failing" /\ session'[w].pkg = p /\ session'[w].claim = session[w].claim
    BY <1>1, <2>1 DEF TypeOK, Sessions
  <2>3. UNCHANGED <<claim, submitted, calls>> /\ order' = [order EXCEPT ![p] = "CONFIRMATION_EXPIRED"]
    BY <1>4 DEF SubmitExpired, world
  <2>4. AttemptCurrent(w)'
    BY <1>2, <2>2, <2>3 DEF AttemptCurrent, At
  <2>5. PreparedUnsubmitted'
    BY <1>1, <2>3 DEF PreparedUnsubmitted, AttemptInv, TypeOK
  <2> QED
    BY <2>3, <2>4, <2>5, OnlyAttempt DEF AttemptInv, CallsRecorded
<1>5. CASE SubmitStarted(w)
  <2>1. session' = [session EXCEPT ![w] = [session[w] EXCEPT !.pc = "call", !.order = "SUBMISSION_PENDING",
                                                             !.claim = "SUBMISSION_PENDING"]]
    BY <1>5 DEF SubmitStarted
  <2>2. session'[w].pc = "call" /\ session'[w].pkg = p /\ session'[w].claim = "SUBMISSION_PENDING"
    BY <1>1, <2>1 DEF TypeOK, Sessions
  <2>3. /\ calls' = calls /\ submitted' = [submitted EXCEPT ![p] = TRUE]
        /\ order' = [order EXCEPT ![p] = "SUBMISSION_PENDING"]
        /\ claim' = [claim EXCEPT ![p] = "SUBMISSION_PENDING"]
    BY <1>5 DEF SubmitStarted, world
  <2>4. claim'[p] = "SUBMISSION_PENDING" /\ submitted'[p] /\ calls'[p] = 0
    BY <1>1, <1>3, <2>3 DEF TypeOK
  <2>5. AttemptCurrent(w)'
    BY <2>2, <2>4 DEF AttemptCurrent, At, NonterminalClaims
  <2>6. PreparedUnsubmitted' /\ CallsRecorded'
    BY <1>1, <1>3, <2>3 DEF PreparedUnsubmitted, CallsRecorded, AttemptInv, TypeOK
  <2> QED
    BY <2>5, <2>6, OnlyAttempt DEF AttemptInv
<1> QED
  BY <1>4, <1>5

\* The call is the package's first, and its submission is on record.
LEMMA CallInv ==
  ASSUME TypeOK, OneWorker, AttemptInv, NEW w \in Workers, CallProvider(w)
  PROVE  AttemptInv'
<1> DEFINE p == session[w].pkg
<1>1. PICK reply, arrival : CallAnswered(w, reply, arrival)
  BY DEF CallProvider
<1>2. p \in Packages /\ AttemptCurrent(w) /\ session[w] \in Sessions /\ At(w, "call")
  BY <1>1, BusyPackage DEF CallAnswered, At, Idle, AttemptInv, TypeOK
<1>3. calls[p] = 0 /\ submitted[p] /\ session[w].claim \in NonterminalClaims /\ session[w].claim = claim[p]
  BY <1>2 DEF AttemptCurrent, BeforeReply, At, Idle
<1>4. UNCHANGED <<claim, order, submitted>> /\ calls' = [calls EXCEPT ![p] = calls[p] + 1]
  BY <1>1 DEF CallAnswered, rows
<1>5. session'[w].pc = "record" /\ session'[w].pkg = p /\ session'[w].claim = session[w].claim
  <2>1. session' = [session EXCEPT ![w] = [session[w] EXCEPT !.pc = "record", !.reply = reply]]
    BY <1>1 DEF CallAnswered
  <2> QED
    BY <1>2, <2>1 DEF TypeOK, Sessions
<1>6. AttemptCurrent(w)'
  BY <1>3, <1>4, <1>5 DEF AttemptCurrent, At
<1>7. CallsRecorded'
  BY <1>2, <1>3, <1>4 DEF CallsRecorded, AttemptInv, TypeOK
<1> QED
  BY <1>4, <1>6, <1>7, OnlyAttempt DEF AttemptInv, PreparedUnsubmitted

\* The reply is recorded on rows the worker still holds as they are stored.
LEMMA RecordInv ==
  ASSUME TypeOK, OneWorker, AttemptInv, NEW w \in Workers,
         RecordRejected(w) \/ RecordAmbiguous(w) \/ RecordAccepted(w)
  PROVE  AttemptInv'
<1> DEFINE p == session[w].pkg
<1>1. p \in Packages /\ AttemptCurrent(w) /\ session[w] \in Sessions /\ ~Idle(w)
  BY BusyPackage DEF RecordRejected, RecordAmbiguous, RecordAccepted, At, Idle, AttemptInv, TypeOK
<1>2. UNCHANGED <<submitted, calls>>
  BY DEF RecordRejected, RecordAmbiguous, RecordAccepted, world
<1>3. PICK status \in {"REJECTED", "RECONCILIATION_REQUIRED", "ACKNOWLEDGED"} :
        order' = [order EXCEPT ![p] = status]
  BY DEF RecordRejected, RecordAmbiguous, RecordAccepted
<1>4. PreparedUnsubmitted'
  BY <1>1, <1>2, <1>3 DEF PreparedUnsubmitted, AttemptInv, TypeOK
<1>5. session'[w].pc = "settle" /\ session'[w].pkg = p /\ session'[w].claim = claim'[p]
  <2>1. CASE RecordRejected(w)
    <3>1. /\ claim' = [claim EXCEPT ![p] = "CANCELLED"]
          /\ session' = [session EXCEPT ![w] = [session[w] EXCEPT !.pc = "settle", !.order = "REJECTED",
                                                                  !.claim = "CANCELLED"]]
      BY <2>1 DEF RecordRejected
    <3> QED
      BY <1>1, <3>1 DEF TypeOK, Sessions
  <2>2. CASE RecordAmbiguous(w) \/ RecordAccepted(w)
    <3>1. PICK new \in {"RECONCILIATION_REQUIRED", "ACKNOWLEDGED"} :
            session' = [session EXCEPT ![w] = [session[w] EXCEPT !.pc = "settle", !.order = new]]
      BY <2>2 DEF RecordAmbiguous, RecordAccepted
    <3>2. claim' = claim /\ session[w].claim = claim[p]
      BY <1>1, <2>2 DEF RecordAmbiguous, RecordAccepted, AttemptCurrent
    <3> QED
      BY <1>1, <3>1, <3>2 DEF TypeOK, Sessions
  <2> QED
    BY <2>1, <2>2
<1>6. AttemptCurrent(w)'
  BY <1>5 DEF AttemptCurrent, BeforeReply, At
<1> QED
  BY <1>2, <1>4, <1>6, OnlyAttempt DEF AttemptInv, CallsRecorded

\* The attempt ends.
LEMMA ConcludeInv ==
  ASSUME TypeOK, OneWorker, AttemptInv, NEW w \in Workers, Conclude(w) \/ Crash(w)
  PROVE  AttemptInv'
<1>1. UNCHANGED <<order, submitted, calls>> /\ EndAttempt(w)
  BY DEF Conclude, Crash, rows, world
<1>2. AttemptCurrent(w)'
  BY <1>1, EndedCurrent
<1> QED
  BY <1>1, <1>2, OnlyAttempt DEF AttemptInv, CallsRecorded, PreparedUnsubmitted

\* Reconciliation touches submitted orders only, so never one that an attempt
\* still expects to be unsubmitted.
LEMMA ReconcileInv ==
  ASSUME TypeOK, AttemptInv, NEW p \in Packages, Reconcile(p)
  PROVE  AttemptInv'
<1>1. PICK status \in OrderStates \ {"DRY_RUN_READY", "PENDING_CONFIRMATION"},
           evidence \in {"none", "resolved", "unresolved"}, fills \in BOOLEAN :
        Reconciled(p, status, evidence, fills)
  BY ReconcileCases
<1>2. /\ UNCHANGED <<claim, submitted, calls, session>> /\ submitted[p]
      /\ order' = [order EXCEPT ![p] = status]
  BY <1>1 DEF Reconciled, world
<1>3. PreparedUnsubmitted'
  BY <1>2 DEF AttemptInv, PreparedUnsubmitted, TypeOK
<1>4. ASSUME NEW w \in Workers PROVE AttemptCurrent(w)'
  <2>1. AttemptCurrent(w)
    BY DEF AttemptInv
  <2>2. ASSUME session[w].pc \in {"execute", "submit"}, session[w].order = "PENDING_CONFIRMATION"
        PROVE  order'[session[w].pkg] = "PENDING_CONFIRMATION"
    <3>1. session[w].pkg \in Packages
      BY <2>2, BusyPackage DEF Idle
    <3>2. order[session[w].pkg] = "PENDING_CONFIRMATION"
      BY <2>1, <2>2 DEF AttemptCurrent
    <3>3. session[w].pkg # p
      BY <1>2, <3>1, <3>2 DEF AttemptInv, PreparedUnsubmitted
    <3> QED
      BY <1>2, <3>1, <3>2, <3>3 DEF TypeOK
  <2> QED
    BY <1>2, <2>1, <2>2 DEF AttemptCurrent, Idle, At
<1> QED
  BY <1>2, <1>3, <1>4 DEF AttemptInv, CallsRecorded

\* Claiming, advancing again, sweeping and releasing happen between attempts.
LEMMA ClaimInv ==
  ASSUME TypeOK, OneWorker, AttemptInv, NEW w \in Workers, NEW p \in Packages,
         \/ ClaimPackage(w, p) \/ ClaimBlocked(w, p) \/ Redrive(w, p) \/ Sweep(w, p)
         \/ Release(w, p)
  PROVE  AttemptInv'
<1>0. ASSUME NEW ord \in RecoveredOrders, NEW q \in Packages
      PROVE  ord[q] \in {"CANCELLED", order[q]}
  BY <1>0 DEF RecoveredOrders, TypeOK
<1>1. CASE ClaimPackage(w, p)
  <2>1. PICK ord \in RecoveredOrders : Advance(w, p, "CLAIMED", ord)
    BY <1>1 DEF ClaimPackage
  <2>2. "CLAIMED" \in NonterminalClaims /\ ord \in [Packages -> OrderStates] /\ Idle(w)
    BY <1>1, RecoveredTypeOK DEF NonterminalClaims, ClaimPackage, ClaimEligible
  <2> QED
    BY <1>0, <2>1, <2>2, AdvanceInv
<1>2. CASE ClaimBlocked(w, p)
  <2>1. Idle(w) /\ UNCHANGED <<claim, submitted, calls, session>> /\ order' \in RecoveredOrders
    BY <1>2 DEF ClaimBlocked, ClaimEligible, world
  <2>2. AttemptCurrent(w)'
    BY <2>1 DEF Idle, AttemptCurrent, BeforeReply, At
  <2>3. \A q \in Packages : order'[q] \in {"CANCELLED", order[q]}
    BY <1>0, <2>1
  <2> QED
    BY <2>1, <2>2, <2>3, OnlyAttempt DEF AttemptInv, CallsRecorded, PreparedUnsubmitted
<1>3. CASE Redrive(w, p)
  BY <1>3, AdvanceInv DEF Redrive, TypeOK
<1>4. CASE Sweep(w, p)
  <2>1. claim[p] \in NonterminalClaims
    BY <1>4 DEF Sweep, NonterminalClaims
  <2> QED
    BY <1>4, <2>1, AdvanceInv DEF Sweep, TypeOK
<1>5. CASE Release(w, p)
  <2>1. Idle(w) /\ UNCHANGED <<order, submitted, calls, session>>
    BY <1>5 DEF Release, world
  <2>2. AttemptCurrent(w)'
    BY <2>1 DEF Idle, AttemptCurrent, BeforeReply, At
  <2> QED
    BY <2>1, <2>2, OnlyAttempt DEF AttemptInv, CallsRecorded, PreparedUnsubmitted
<1> QED
  BY <1>1, <1>2, <1>3, <1>4, <1>5

\* The exchange and the operators touch nothing the invariant is about.
LEMMA EnvironmentInv ==
  ASSUME AttemptInv, UNCHANGED <<claim, order, submitted, calls, session>>
  PROVE  AttemptInv'
BY DEF AttemptInv, AttemptCurrent, CallsRecorded, PreparedUnsubmitted, Idle, At

\* AttemptInv is inductive, given the types.
LEMMA NextAttemptInv ==
  ASSUME OneWorker
  PROVE  TypeOK /\ AttemptInv /\ [Next]_vars => AttemptInv'
<1> SUFFICES ASSUME TypeOK, AttemptInv, [Next]_vars PROVE AttemptInv'
  OBVIOUS
<1>1. ASSUME NEW w \in Workers, Attempt(w) \/ Crash(w) PROVE AttemptInv'
  <2>1. CASE ExecuteRefused(w) \/ SubmitRefused(w) \/ Fail(w)
    BY <2>1, BlockedInv DEF ExecuteRefused, SubmitRefused, Fail, At, Idle, world
  <2> QED
    BY <1>1, <2>1, QuietInv, SubmitInv, CallInv, RecordInv, ConcludeInv DEF Attempt
<1>2. ASSUME NEW w \in Workers, NEW p \in Packages,
             \/ ClaimPackage(w, p) \/ ClaimBlocked(w, p) \/ Redrive(w, p) \/ Sweep(w, p)
             \/ Release(w, p)
      PROVE  AttemptInv'
  BY <1>2, ClaimInv
<1>3. ASSUME NEW p \in Packages, Reconcile(p) PROVE AttemptInv'
  BY <1>3, ReconcileInv
<1>4. ASSUME NEW p \in Packages, ExchangeMoves(p) \/ ActivationLapses(p) PROVE AttemptInv'
  BY <1>4, EnvironmentInv DEF ExchangeMoves, ActivationLapses, rows, world
<1>5. CASE ToggleKillSwitch \/ Redeploy \/ UNCHANGED vars
  BY <1>5, EnvironmentInv DEF ToggleKillSwitch, Redeploy, vars, rows, world
<1> QED
  BY <1>1, <1>2, <1>3, <1>4, <1>5 DEF Next

\* Nothing is submitted or called at first, and every worker is idle.
LEMMA InitAttemptInv == Init => AttemptInv
<1> SUFFICES ASSUME Init PROVE AttemptInv
  OBVIOUS
<1>1. \A w \in Workers : Idle(w)
  BY DEF Init, Idle, IdleSession
<1>2. CallsRecorded /\ PreparedUnsubmitted
  BY DEF Init, CallsRecorded, PreparedUnsubmitted
<1> QED
  BY <1>1, <1>2, IdleCurrent DEF AttemptInv

\* With one worker no package is sent to the provider twice, however often it
\* is swept, driven again, or killed (LiveCryptoOrderService.submit commits
\* SUBMISSION_PENDING before the call and refuses an order that has it).
THEOREM SentOnce ==
  ASSUME OneWorker
  PROVE  Spec => []OneProviderCall
<1>1. AttemptInv => OneProviderCall
  BY DEF AttemptInv, CallsRecorded, OneProviderCall
<1>2. TypeOK /\ AttemptInv /\ [Next]_vars => AttemptInv'
  BY NextAttemptInv
<1> QED
  BY <1>1, <1>2, InitAttemptInv, TypeCorrect, PTL DEF Spec

-----------------------------------------------------------------------------
(* Finality.                                                                *)

FinalStep == \A p \in Packages : claim[p] \in ReleasedClaims => claim'[p] = claim[p]

\* Storing a status in a claim that is not released, or restoring its own.
LEMMA FinalKept ==
  ASSUME TypeOK, NEW q \in Packages, NEW c, claim' = [claim EXCEPT ![q] = c],
         claim[q] \notin ReleasedClaims \/ c = claim[q]
  PROVE  FinalStep
BY DEF TypeOK, FinalStep

\* advance_claimed_execution is only entered with a claim that is not released.
LEMMA AdvanceFinal ==
  ASSUME TypeOK, NEW w \in Workers, NEW p \in Packages, NEW c, NEW ord,
         Advance(w, p, c, ord), claim[p] \notin ReleasedClaims
  PROVE  FinalStep
<1>1. \E status : claim' = [claim EXCEPT ![p] = status]
  BY DEF Advance, PrepareRefused, ReadinessRefused, SafetyDisabled, Prepared
<1> QED
  BY <1>1, FinalKept

\* With one worker a released claim is recognised as such by the attempt that
\* still holds it.
LEMMA AttemptFinal ==
  ASSUME TypeOK, AttemptInv, NEW w \in Workers, Attempt(w)
  PROVE  FinalStep
<1> DEFINE p == session[w].pkg
<1>1. CASE claim' = claim
  BY <1>1 DEF FinalStep
<1>2. CASE claim' # claim
  <2>1. PICK c : claim' = [claim EXCEPT ![p] = c] /\ ~Idle(w)
                 /\ (session[w].claim \notin ReleasedClaims \/ session[w].pc \in BeforeReply)
    <3>1. CASE ExecuteRefused(w) \/ SubmitRefused(w) \/ Fail(w)
      BY <1>2, <3>1 DEF ExecuteRefused, SubmitRefused, Fail, Blocked, At, Idle
    <3>2. CASE SubmitStarted(w) \/ RecordRejected(w)
      BY <3>2 DEF SubmitStarted, RecordRejected, At, Idle, BeforeReply
    <3>3. CASE Conclude(w)
      BY <1>2, <3>3 DEF Conclude, At, Idle
    <3>4. CASE \/ ExecuteReplayed(w) \/ ExecuteVetoed(w) \/ ExecuteRecorded(w)
               \/ SubmitExisting(w) \/ SubmitExpired(w) \/ CallProvider(w) \/ CallNotSent(w)
               \/ RecordAmbiguous(w) \/ RecordAccepted(w) \/ Settle(w)
      BY <1>2, <3>4 DEF ExecuteReplayed, ExecuteVetoed, ExecuteRecorded, SubmitExisting,
         SubmitExpired, CallProvider, CallAnswered, CallNotSent, RecordAmbiguous, RecordAccepted,
         Settle, rows
    <3> QED
      BY <3>1, <3>2, <3>3, <3>4 DEF Attempt
  <2>2. p \in Packages
    BY <2>1, BusyPackage
  <2>3. claim[p] = session[w].claim /\ (session[w].pc \in BeforeReply => claim[p] \in NonterminalClaims)
    BY <2>1 DEF AttemptInv, AttemptCurrent
  <2>4. claim[p] \notin ReleasedClaims
    BY <2>1, <2>3, ReleasedNotNonterminal
  <2> QED
    BY <2>1, <2>2, <2>4, FinalKept
<1> QED
  BY <1>1, <1>2

\* Claiming, advancing again, sweeping and releasing look at the stored claim.
LEMMA ClaimFinal ==
  ASSUME TypeOK, NEW w \in Workers, NEW p \in Packages,
         \/ ClaimPackage(w, p) \/ ClaimBlocked(w, p) \/ Redrive(w, p) \/ Sweep(w, p)
         \/ Release(w, p)
  PROVE  FinalStep
<1>0. "NONE" \notin ReleasedClaims /\ {"CLAIMED", "EXECUTION_STARTED"} \subseteq NonterminalClaims
  BY DEF ReleasedClaims, NonterminalClaims
<1>1. CASE ClaimPackage(w, p)
  <2>1. PICK ord : Advance(w, p, "CLAIMED", ord)
    BY <1>1 DEF ClaimPackage
  <2> QED
    BY <1>0, <1>1, <2>1, AdvanceFinal DEF ClaimPackage, ClaimEligible
<1>2. CASE ClaimBlocked(w, p)
  BY <1>2 DEF ClaimBlocked, FinalStep
<1>3. CASE Redrive(w, p)
  BY <1>3, ReleasedNotNonterminal, AdvanceFinal DEF Redrive
<1>4. CASE Sweep(w, p)
  BY <1>0, <1>4, ReleasedNotNonterminal, AdvanceFinal DEF Sweep
<1>5. CASE Release(w, p)
  BY <1>5, ReleasedNotNonterminal, FinalKept DEF Release
<1> QED
  BY <1>1, <1>2, <1>3, <1>4, <1>5

\* With one worker, a claim that left the scope never changes again: the late
\* writes of an attempt find it released (advance_claimed_execution).
THEOREM ReleasedStaysReleased ==
  ASSUME OneWorker
  PROVE  Spec => ReleasedIsFinal
<1>1. TypeOK /\ AttemptInv /\ [Next]_vars => [FinalStep]_vars
  <2> SUFFICES ASSUME TypeOK, AttemptInv, Next PROVE FinalStep
    OBVIOUS
  <2>1. ASSUME NEW w \in Workers, Attempt(w) PROVE FinalStep
    BY <2>1, AttemptFinal
  <2>2. ASSUME NEW w \in Workers, Crash(w) PROVE FinalStep
    BY <2>2 DEF Crash, rows, FinalStep
  <2>3. ASSUME NEW w \in Workers, NEW p \in Packages,
               \/ ClaimPackage(w, p) \/ ClaimBlocked(w, p) \/ Redrive(w, p) \/ Sweep(w, p)
               \/ Release(w, p)
        PROVE  FinalStep
    BY <2>3, ClaimFinal
  <2>4. ASSUME NEW p \in Packages, Reconcile(p) PROVE FinalStep
    BY <2>4, ReconcileCases DEF Reconciled, FinalStep
  <2>5. ASSUME NEW p \in Packages, ExchangeMoves(p) \/ ActivationLapses(p) PROVE FinalStep
    BY <2>5 DEF ExchangeMoves, ActivationLapses, rows, FinalStep
  <2>6. CASE ToggleKillSwitch \/ Redeploy
    BY <2>6 DEF ToggleKillSwitch, Redeploy, rows, FinalStep
  <2> QED
    BY <2>1, <2>2, <2>3, <2>4, <2>5, <2>6 DEF Next
<1>2. TypeOK /\ AttemptInv /\ [Next]_vars => AttemptInv'
  BY NextAttemptInv
<1>3. Spec => [][FinalStep]_vars
  BY <1>1, <1>2, InitAttemptInv, TypeCorrect, PTL DEF Spec
<1> QED
  BY <1>3 DEF ReleasedIsFinal, FinalStep

-----------------------------------------------------------------------------
(* What each step leaves alone.                                             *)

\* The attempt of w goes on at another point; c, ord and answer are what it
\* then remembers.
MovesTo(w, point, c, ord, answer) ==
  /\ session'[w].pc = point
  /\ session'[w].pkg = session[w].pkg
  /\ session'[w].claim = c
  /\ session'[w].order = ord
  /\ session'[w].reply = answer

\* The session updates of an attempt, read field by field.
LEMMA Moved ==
  ASSUME TypeOK, NEW w \in Workers, NEW point, NEW c, NEW ord, NEW answer
  PROVE  /\ session' = [session EXCEPT ![w].pc = point]
              => MovesTo(w, point, session[w].claim, session[w].order, session[w].reply)
         /\ session' = [session EXCEPT ![w].pc = point, ![w].reply = answer]
              => MovesTo(w, point, session[w].claim, session[w].order, answer)
         /\ session' = [session EXCEPT ![w].pc = point, ![w].order = ord]
              => MovesTo(w, point, session[w].claim, ord, session[w].reply)
         /\ session' = [session EXCEPT ![w].pc = point, ![w].order = ord, ![w].claim = c]
              => MovesTo(w, point, c, ord, session[w].reply)
<1>1. session[w] \in Sessions /\ session \in [Workers -> Sessions]
  BY DEF TypeOK
<1>2. ASSUME NEW m, session' = [session EXCEPT ![w] = m] PROVE session'[w] = m
  BY <1>1, <1>2
<1>3. ASSUME session' = [session EXCEPT ![w].pc = point]
      PROVE  MovesTo(w, point, session[w].claim, session[w].order, session[w].reply)
  <2>1. session'[w] = [session[w] EXCEPT !.pc = point]
    BY <1>2, <1>3
  <2> QED
    BY <1>1, <2>1 DEF Sessions, MovesTo
<1>4. ASSUME session' = [session EXCEPT ![w].pc = point, ![w].reply = answer]
      PROVE  MovesTo(w, point, session[w].claim, session[w].order, answer)
  <2>1. session'[w] = [session[w] EXCEPT !.pc = point, !.reply = answer]
    BY <1>1, <1>4
  <2> QED
    BY <1>1, <2>1 DEF Sessions, MovesTo
<1>5. ASSUME session' = [session EXCEPT ![w].pc = point, ![w].order = ord]
      PROVE  MovesTo(w, point, session[w].claim, ord, session[w].reply)
  <2>1. session'[w] = [session[w] EXCEPT !.pc = point, !.order = ord]
    BY <1>1, <1>5
  <2> QED
    BY <1>1, <2>1 DEF Sessions, MovesTo
<1>6. ASSUME session' = [session EXCEPT ![w].pc = point, ![w].order = ord, ![w].claim = c]
      PROVE  MovesTo(w, point, c, ord, session[w].reply)
  <2>1. session'[w] = [session[w] EXCEPT !.pc = point, !.order = ord, !.claim = c]
    BY <1>1, <1>6
  <2> QED
    BY <1>1, <2>1 DEF Sessions, MovesTo
<1> QED
  BY <1>3, <1>4, <1>5, <1>6

\* Where each step of an attempt leads.
LEMMA AttemptMoves ==
  ASSUME TypeOK, NEW w \in Workers
  PROVE  /\ ExecuteReplayed(w) \/ ExecuteVetoed(w)
              => MovesTo(w, "tail", session[w].claim, session[w].order, "accepted")
         /\ ExecuteRecorded(w)
              => MovesTo(w, "submit", session[w].claim, session[w].order, session[w].reply)
         /\ SubmitExisting(w)
              => MovesTo(w, "settle", session[w].claim, session[w].order,
                         IF session[w].order = "REJECTED" THEN "rejected" ELSE "ambiguous")
         /\ SubmitExpired(w)
              => MovesTo(w, "failing", session[w].claim, "CONFIRMATION_EXPIRED", session[w].reply)
         /\ SubmitStarted(w)
              => MovesTo(w, "call", "SUBMISSION_PENDING", "SUBMISSION_PENDING", session[w].reply)
         /\ \A reply, arrival : CallAnswered(w, reply, arrival)
              => MovesTo(w, "record", session[w].claim, session[w].order, reply)
         /\ CallNotSent(w)
              => \/ MovesTo(w, "settle", session[w].claim, session[w].order, "ambiguous")
                 \/ MovesTo(w, "failing", session[w].claim, session[w].order, session[w].reply)
         /\ RecordRejected(w)
              => MovesTo(w, "settle", "CANCELLED", "REJECTED", session[w].reply)
         /\ RecordAmbiguous(w)
              => MovesTo(w, "settle", session[w].claim, "RECONCILIATION_REQUIRED", session[w].reply)
         /\ RecordAccepted(w)
              => MovesTo(w, "settle", session[w].claim, "ACKNOWLEDGED", session[w].reply)
         /\ Settle(w)
              => MovesTo(w, "tail", session[w].claim, session[w].order, session[w].reply)
<1>1. ExecuteReplayed(w) \/ ExecuteVetoed(w)
        => MovesTo(w, "tail", session[w].claim, session[w].order, "accepted")
  BY Moved DEF ExecuteReplayed, ExecuteVetoed
<1>2. ExecuteRecorded(w)
        => MovesTo(w, "submit", session[w].claim, session[w].order, session[w].reply)
  BY Moved DEF ExecuteRecorded
<1>3. SubmitExisting(w)
        => MovesTo(w, "settle", session[w].claim, session[w].order,
                   IF session[w].order = "REJECTED" THEN "rejected" ELSE "ambiguous")
  BY Moved DEF SubmitExisting
<1>4. SubmitExpired(w)
        => MovesTo(w, "failing", session[w].claim, "CONFIRMATION_EXPIRED", session[w].reply)
  BY Moved DEF SubmitExpired
<1>5. SubmitStarted(w)
        => MovesTo(w, "call", "SUBMISSION_PENDING", "SUBMISSION_PENDING", session[w].reply)
  BY Moved DEF SubmitStarted
<1>6. ASSUME NEW reply, NEW arrival, CallAnswered(w, reply, arrival)
      PROVE  MovesTo(w, "record", session[w].claim, session[w].order, reply)
  BY <1>6, Moved DEF CallAnswered
<1>7. CallNotSent(w)
        => \/ MovesTo(w, "settle", session[w].claim, session[w].order, "ambiguous")
           \/ MovesTo(w, "failing", session[w].claim, session[w].order, session[w].reply)
  BY Moved DEF CallNotSent
<1>8. /\ RecordRejected(w)
           => MovesTo(w, "settle", "CANCELLED", "REJECTED", session[w].reply)
      /\ RecordAmbiguous(w)
           => MovesTo(w, "settle", session[w].claim, "RECONCILIATION_REQUIRED", session[w].reply)
      /\ RecordAccepted(w)
           => MovesTo(w, "settle", session[w].claim, "ACKNOWLEDGED", session[w].reply)
  BY Moved DEF RecordRejected, RecordAmbiguous, RecordAccepted
<1>9. Settle(w)
        => MovesTo(w, "tail", session[w].claim, session[w].order, session[w].reply)
  BY Moved DEF Settle
<1> QED
  BY <1>1, <1>2, <1>3, <1>4, <1>5, <1>6, <1>7, <1>8, <1>9

\* The rows of q, and what the exchange knows of it, stay as they are.
Untouched(q) ==
  /\ claim'[q] = claim[q] /\ order'[q] = order[q] /\ submitted'[q] = submitted[q]
  /\ exch'[q] = exch[q] /\ calls'[q] = calls[q]

\* An attempt touches its own package only, and books nothing.
LEMMA AttemptFrame ==
  ASSUME TypeOK, NEW w \in Workers, Attempt(w) \/ Crash(w)
  PROVE  /\ ~Idle(w) /\ session[w].pkg \in Packages
         /\ \A q \in Packages \ {session[w].pkg} : Untouched(q)
         /\ UNCHANGED <<event, booked>>
<1> DEFINE p == session[w].pkg
<1>1. ~Idle(w)
  BY DEF Attempt, Crash, ExecuteReplayed, ExecuteVetoed, ExecuteRecorded, ExecuteRefused,
         SubmitRefused, SubmitExisting, SubmitExpired, SubmitStarted, CallProvider, CallAnswered,
         CallNotSent, RecordRejected, RecordAmbiguous, RecordAccepted, Settle, Conclude, Fail, At, Idle
<1>2. p \in Packages
  BY <1>1, BusyPackage
<1>3. CASE ExecuteRefused(w) \/ SubmitRefused(w) \/ Fail(w)
  <2>1. UNCHANGED <<submitted, event, booked, exch, calls>> /\ Blocked(w)
    BY <1>3 DEF ExecuteRefused, SubmitRefused, Fail, world
  <2>2. \A q \in Packages \ {p} : claim'[q] = claim[q] /\ order'[q] = order[q]
    BY <1>2, <2>1 DEF Blocked, TypeOK
  <2> QED
    BY <1>1, <1>2, <2>1, <2>2 DEF Untouched
<1>4. CASE \/ ExecuteReplayed(w) \/ ExecuteVetoed(w) \/ ExecuteRecorded(w)
           \/ SubmitExisting(w) \/ CallNotSent(w) \/ Settle(w) \/ Crash(w)
  BY <1>1, <1>2, <1>4 DEF ExecuteReplayed, ExecuteVetoed, ExecuteRecorded, SubmitExisting,
     CallNotSent, Settle, Crash, rows, world, Untouched
<1>5. CASE SubmitExpired(w) \/ SubmitStarted(w)
  BY <1>1, <1>2, <1>5 DEF SubmitExpired, SubmitStarted, world, Untouched, TypeOK
<1>6. CASE CallProvider(w)
  <2>1. PICK reply, arrival : CallAnswered(w, reply, arrival)
    BY <1>6 DEF CallProvider
  <2> QED
    BY <1>1, <1>2, <2>1 DEF CallAnswered, rows, Untouched, TypeOK
<1>7. CASE RecordRejected(w) \/ RecordAmbiguous(w) \/ RecordAccepted(w)
  BY <1>1, <1>2, <1>7 DEF RecordRejected, RecordAmbiguous, RecordAccepted, world, Untouched, TypeOK
<1>8. CASE Conclude(w)
  <2>1. UNCHANGED <<order, submitted, event, booked, exch, calls>>
    BY <1>8 DEF Conclude, world
  <2>2. \A q \in Packages \ {p} : claim'[q] = claim[q]
    BY <1>2, <1>8 DEF Conclude, TypeOK
  <2> QED
    BY <1>1, <1>2, <2>1, <2>2 DEF Untouched
<1> QED
  BY <1>3, <1>4, <1>5, <1>6, <1>7, <1>8 DEF Attempt


\* An attempt begins on p; c and ord are what it remembers.
Begins(w, p, c, ord) ==
  /\ session'[w].pc = "execute"
  /\ session'[w].pkg = p
  /\ session'[w].claim = c
  /\ session'[w].order = ord

\* What advance_claimed_execution's first transaction makes of p's rows.
Advanced(w, p, c) ==
  \/ /\ claim'[p] \in {"FAILED_PRE_PROVIDER", "SAFETY_DISABLED"}
     /\ session' = session
     /\ \/ order'[p] = order[p]
        \/ /\ order[p] \in {"DRY_RUN_READY", "PENDING_CONFIRMATION"}
           /\ ~submitted[p]
           /\ order'[p] \in {"CANCELLED", "PENDING_CONFIRMATION"}
  \/ /\ CanPrepare(p, c)
     /\ claim'[p] = IF order[p] = "DRY_RUN_READY" THEN "EXECUTION_STARTED" ELSE c
     /\ order'[p] = IF order[p] = "DRY_RUN_READY" THEN "PENDING_CONFIRMATION" ELSE order[p]
     /\ Begins(w, p, claim'[p], order'[p])

\* The transaction that claims, sweeps or drives p, given the order rows it
\* sees, in which p's own is as stored.
LEMMA AdvanceOutcome ==
  ASSUME TypeOK, PreparedUnsubmitted, NEW w \in Workers, NEW p \in Packages,
         NEW c \in NonterminalClaims, NEW ord \in [Packages -> OrderStates],
         Advance(w, p, c, ord), ord[p] = order[p]
  PROVE  /\ Advanced(w, p, c)
         /\ UNCHANGED <<submitted, exch, calls, event, booked, slot>>
         /\ \A q \in Packages \ {p} : claim'[q] = claim[q] /\ order'[q] = ord[q]
<1>1. UNCHANGED <<submitted, exch, calls, event, booked, slot>>
  BY DEF Advance, world
<1>2. CASE PrepareRefused(w, p, c, ord)
  BY <1>1, <1>2 DEF PrepareRefused, Withdrawn, Advanced, TypeOK
<1>3. CASE ReadinessRefused(w, p, c, ord)
  BY <1>1, <1>3 DEF ReadinessRefused, Advanced, TypeOK, PreparedUnsubmitted
<1>4. CASE SafetyDisabled(w, p, c, ord)
  BY <1>1, <1>4 DEF SafetyDisabled, PreparedOrder, Advanced, TypeOK, PreparedUnsubmitted
<1>5. CASE Prepared(w, p, c, ord)
  <2> DEFINE status == IF ord[p] = "DRY_RUN_READY" THEN "EXECUTION_STARTED" ELSE c
             m == [pc |-> "execute", pkg |-> p, claim |-> status,
                   order |-> PreparedOrder(p, ord), reply |-> "none"]
  <2>1. /\ claim' = [claim EXCEPT ![p] = status]
        /\ order' = [ord EXCEPT ![p] = PreparedOrder(p, ord)]
        /\ session' = [session EXCEPT ![w] = m]
        /\ CanPrepare(p, c)
    BY <1>5 DEF Prepared
  <2>2. claim'[p] = status /\ order'[p] = PreparedOrder(p, ord)
    BY <2>1 DEF TypeOK
  <2>3. session'[w] = m
    BY <2>1 DEF TypeOK
  <2>4. Begins(w, p, status, PreparedOrder(p, ord))
    BY <2>3 DEF Begins
  <2>5. \A q \in Packages \ {p} : claim'[q] = claim[q] /\ order'[q] = ord[q]
    BY <2>1 DEF TypeOK
  <2> QED
    BY <1>1, <2>1, <2>2, <2>4, <2>5 DEF Advanced, PreparedOrder
<1> QED
  BY <1>2, <1>3, <1>4, <1>5 DEF Advance

\* The claim of p is released with its resolved order.
ReleasedWithOrder(p) ==
  /\ submitted[p]
  /\ order[p] \in TerminalOrders
  /\ claim[p] \in NonterminalClaims
  /\ claim'[p] = ReleasedStatus(p)
  /\ order'[p] = order[p]
  /\ session' = session

\* q is left alone, or is the historical order that is terminalized.
KeptOrRecovered(q) ==
  \/ order'[q] = order[q]
  \/ /\ claim[q] = "FAILED_PRE_PROVIDER"
     /\ order[q] = "PENDING_CONFIRMATION"
     /\ ~submitted[q]
     /\ order'[q] = "CANCELLED"

\* The steps a worker takes between attempts: it advances p, releases it, or
\* only terminalizes a historical order.
LEMMA ClaimCases ==
  ASSUME TypeOK, PreparedUnsubmitted, NEW w \in Workers, NEW p \in Packages,
         \/ ClaimPackage(w, p) \/ ClaimBlocked(w, p) \/ Redrive(w, p) \/ Sweep(w, p)
         \/ Release(w, p)
  PROVE  /\ Idle(w)
         /\ UNCHANGED <<submitted, exch, calls, event, booked, slot>>
         /\ \A q \in Packages \ {p} : claim'[q] = claim[q] /\ KeptOrRecovered(q)
         /\ \/ /\ ClaimPackage(w, p)
               /\ claim[p] = "NONE"
               /\ Advanced(w, p, "CLAIMED")
            \/ /\ Redrive(w, p) \/ Sweep(w, p)
               /\ claim[p] \in NonterminalClaims
               /\ Advanced(w, p, claim[p])
            \/ Release(w, p) /\ ReleasedWithOrder(p)
            \/ ClaimBlocked(w, p) /\ claim' = claim /\ session' = session /\ KeptOrRecovered(p)
<1>0. ASSUME NEW ord \in RecoveredOrders, NEW q \in Packages, ord[q] # order[q]
      PROVE  /\ claim[q] = "FAILED_PRE_PROVIDER" /\ order[q] = "PENDING_CONFIRMATION"
             /\ ~submitted[q] /\ ord[q] = "CANCELLED"
  BY <1>0 DEF RecoveredOrders, Recoverable, TypeOK
<1>1. CASE ClaimPackage(w, p)
  <2>1. PICK ord \in RecoveredOrders : Advance(w, p, "CLAIMED", ord)
    BY <1>1 DEF ClaimPackage
  <2>2. /\ "CLAIMED" \in NonterminalClaims /\ ord \in [Packages -> OrderStates]
        /\ Idle(w) /\ claim[p] = "NONE"
    BY <1>1, RecoveredTypeOK DEF NonterminalClaims, ClaimPackage, ClaimEligible
  <2>3. ord[p] = order[p]
    BY <1>0, <2>2
  <2>4. /\ Advanced(w, p, "CLAIMED")
        /\ UNCHANGED <<submitted, exch, calls, event, booked, slot>>
        /\ \A q \in Packages \ {p} : claim'[q] = claim[q] /\ order'[q] = ord[q]
    BY <2>1, <2>2, <2>3, AdvanceOutcome
  <2> QED
    BY <1>0, <1>1, <2>2, <2>4 DEF KeptOrRecovered
<1>2. CASE ClaimBlocked(w, p)
  BY <1>0, <1>2 DEF ClaimBlocked, ClaimEligible, world, KeptOrRecovered
<1>3. CASE Redrive(w, p) \/ Sweep(w, p)
  <2>1. claim[p] \in NonterminalClaims /\ Idle(w) /\ Advance(w, p, claim[p], order)
    BY <1>3 DEF Redrive, Sweep, NonterminalClaims
  <2>2. /\ Advanced(w, p, claim[p])
        /\ UNCHANGED <<submitted, exch, calls, event, booked, slot>>
        /\ \A q \in Packages \ {p} : claim'[q] = claim[q] /\ order'[q] = order[q]
    BY <2>1, AdvanceOutcome DEF TypeOK
  <2> QED
    BY <1>3, <2>1, <2>2 DEF KeptOrRecovered
<1>4. CASE Release(w, p)
  <2>1. /\ Idle(w) /\ UNCHANGED <<order, submitted, exch, calls, event, booked, slot, session>>
        /\ submitted[p] /\ order[p] \in TerminalOrders /\ claim[p] \in NonterminalClaims
        /\ claim' = [claim EXCEPT ![p] = ReleasedStatus(p)]
    BY <1>4 DEF Release, world
  <2>2. claim'[p] = ReleasedStatus(p) /\ \A q \in Packages \ {p} : claim'[q] = claim[q]
    BY <2>1 DEF TypeOK
  <2> QED
    BY <1>4, <2>1, <2>2 DEF KeptOrRecovered, ReleasedWithOrder
<1> QED
  BY <1>1, <1>2, <1>3, <1>4

\* An attempt ended by the exception handler withdraws an order that was
\* prepared and not submitted, and nothing else.
LEMMA BlockedOutcome ==
  ASSUME TypeOK, NEW w \in Workers, AttemptCurrent(w), ~Idle(w), Blocked(w)
  PROVE  /\ session'[w].pc = "idle"
         /\ \/ claim'[session[w].pkg] = "FAILED_PRE_PROVIDER"
            \/ /\ claim[session[w].pkg] \in ReleasedClaims
               /\ claim' = claim /\ order' = order
         /\ \/ order'[session[w].pkg] = order[session[w].pkg]
            \/ /\ session[w].order = "PENDING_CONFIRMATION"
               /\ order'[session[w].pkg] = "CANCELLED"
<1>1. session[w].pkg \in Packages /\ session[w].claim = claim[session[w].pkg]
  BY BusyPackage DEF AttemptCurrent
<1>2. session'[w].pc = "idle"
  BY DEF Blocked, EndAttempt, IdleSession, TypeOK
<1> QED
  BY <1>1, <1>2 DEF Blocked, Stored, Withdrawn, TypeOK

-----------------------------------------------------------------------------
(* The withdrawn order.                                                     *)

\* With one worker, an order withdrawn before its submission was never sent,
\* so the attempt it belonged to may be superseded: a request leaves only
\* after the commit that records its submission (mark_pre_provider_blocked,
\* _is_recoverable_pre_provider_attempt).
THEOREM WithdrawnNeverSent ==
  ASSUME OneWorker
  PROVE  Spec => []WithdrawnOrderNeverSent
<1>1. AttemptInv => WithdrawnOrderNeverSent
  BY DEF AttemptInv, CallsRecorded, WithdrawnOrderNeverSent
<1>2. TypeOK /\ AttemptInv /\ [Next]_vars => AttemptInv'
  BY NextAttemptInv
<1> QED
  BY <1>1, <1>2, InitAttemptInv, TypeCorrect, PTL DEF Spec

-----------------------------------------------------------------------------
(* The recorded attempt.                                                    *)

\* The commissioned slot names the attempt that is submitting, and the claim
\* is SUBMISSION_PENDING when the provider is about to be called.
AttemptRecorded(w) ==
  /\ session[w].pc \in {"submit", "call"}
       => slot[Side(session[w].pkg)] = [holder |-> session[w].pkg, terminal |-> FALSE]
  /\ At(w, "call") => claim[session[w].pkg] = "SUBMISSION_PENDING"

RecordedInv == \A w \in Workers : AttemptRecorded(w)

\* An attempt that is at neither point satisfies its part.
LEMMA ElsewhereRecorded ==
  ASSUME NEW w \in Workers, session'[w].pc \notin {"submit", "call"}
  PROVE  AttemptRecorded(w)'
BY DEF AttemptRecorded, At

\* With one worker nothing comes between the record of the attempt and the
\* submission, nor between the submission and the call.
LEMMA NextRecordedInv ==
  ASSUME OneWorker, TypeOK, AttemptInv, RecordedInv, [Next]_vars
  PROVE  RecordedInv'
<1>1. ASSUME NEW w \in Workers, Attempt(w) \/ Crash(w) PROVE RecordedInv'
  <2>1. session[w].pkg \in Packages /\ ~Idle(w) /\ Side(session[w].pkg) \in Sides
    BY <1>1, AttemptFrame DEF Side, Sides
  <2>2. CASE ExecuteRecorded(w)
    <3>1. MovesTo(w, "submit", session[w].claim, session[w].order, session[w].reply)
      BY <2>2, AttemptMoves
    <3>2. slot'[Side(session[w].pkg)] = [holder |-> session[w].pkg, terminal |-> FALSE]
      BY <2>1, <2>2 DEF ExecuteRecorded, TypeOK
    <3>3. AttemptRecorded(w)'
      BY <3>1, <3>2 DEF AttemptRecorded, MovesTo, At
    <3> QED
      BY <3>3 DEF OneWorker, RecordedInv
  <2>3. CASE SubmitStarted(w)
    <3>1. MovesTo(w, "call", "SUBMISSION_PENDING", "SUBMISSION_PENDING", session[w].reply)
      BY <2>3, AttemptMoves
    <3>2. slot' = slot /\ claim'[session[w].pkg] = "SUBMISSION_PENDING" /\ session[w].pc = "submit"
      BY <2>1, <2>3 DEF SubmitStarted, TypeOK, At
    <3>3. AttemptRecorded(w)'
      BY <3>1, <3>2 DEF AttemptRecorded, RecordedInv, MovesTo, At
    <3> QED
      BY <3>3 DEF OneWorker, RecordedInv
  <2>4. CASE ExecuteRefused(w) \/ SubmitRefused(w) \/ Fail(w) \/ Conclude(w) \/ Crash(w)
    <3>1. EndAttempt(w)
      BY <2>4 DEF ExecuteRefused, SubmitRefused, Fail, Blocked, Conclude, Crash
    <3>2. session'[w].pc = "idle"
      BY <3>1 DEF EndAttempt, IdleSession, TypeOK
    <3> QED
      BY <3>2, ElsewhereRecorded DEF OneWorker, RecordedInv
  <2>5. CASE \/ ExecuteReplayed(w) \/ ExecuteVetoed(w) \/ SubmitExisting(w) \/ SubmitExpired(w)
             \/ CallProvider(w) \/ CallNotSent(w) \/ RecordRejected(w) \/ RecordAmbiguous(w)
             \/ RecordAccepted(w) \/ Settle(w)
    <3>1. session'[w].pc \notin {"submit", "call"}
      BY <2>5, AttemptMoves DEF MovesTo, CallProvider
    <3> QED
      BY <3>1, ElsewhereRecorded DEF OneWorker, RecordedInv
  <2> QED
    BY <1>1, <2>2, <2>3, <2>4, <2>5 DEF Attempt
<1>2. ASSUME NEW w \in Workers, NEW p \in Packages,
             \/ ClaimPackage(w, p) \/ ClaimBlocked(w, p) \/ Redrive(w, p) \/ Sweep(w, p)
             \/ Release(w, p)
      PROVE  RecordedInv'
  <2>1. /\ Idle(w)
        /\ session' = session \/ session'[w].pc = "execute"
    BY <1>2, ClaimCases DEF AttemptInv, Advanced, Begins, ReleasedWithOrder
  <2>2. session'[w].pc \notin {"submit", "call"}
    BY <2>1 DEF Idle
  <2> QED
    BY <2>2, ElsewhereRecorded DEF OneWorker, RecordedInv
<1>3. ASSUME UNCHANGED <<slot, claim, session>> PROVE RecordedInv'
  BY <1>3 DEF RecordedInv, AttemptRecorded, At
<1>4. ASSUME NEW p \in Packages, Reconcile(p) PROVE UNCHANGED <<slot, claim, session>>
  BY <1>4, ReconcileCases DEF Reconciled
<1>5. CASE \/ \E p \in Packages : ExchangeMoves(p) \/ ActivationLapses(p)
           \/ ToggleKillSwitch \/ Redeploy \/ UNCHANGED vars
  BY <1>3, <1>5 DEF ExchangeMoves, ActivationLapses, ToggleKillSwitch, Redeploy, vars, rows
<1> QED
  BY <1>1, <1>2, <1>3, <1>4, <1>5 DEF Next

\* A step that sends a request is a call of the attempt the record names.
CallStep == \A p \in Packages : calls'[p] > calls[p] =>
              claim[p] = "SUBMISSION_PENDING" /\ slot[Side(p)] = [holder |-> p, terminal |-> FALSE]

\* With one worker, when a request goes out the package is the one the
\* commissioned slot names and its claim is SUBMISSION_PENDING, so it holds
\* the scope: nothing intervened since both were recorded
\* (execute_commissioned_entry, submit).
THEOREM CalledAsRecorded ==
  ASSUME OneWorker
  PROVE  Spec => CallMatchesRecord
<1>1. TypeOK /\ AttemptInv /\ RecordedInv /\ [Next]_vars => [CallStep]_vars
  <2> SUFFICES ASSUME TypeOK, AttemptInv, RecordedInv, Next, NEW p \in Packages, calls'[p] > calls[p]
               PROVE  claim[p] = "SUBMISSION_PENDING"
                      /\ slot[Side(p)] = [holder |-> p, terminal |-> FALSE]
    BY DEF CallStep
  <2>1. calls' # calls
    BY DEF TypeOK
  <2>2. PICK w \in Workers : CallProvider(w)
    <3>1. ASSUME NEW w \in Workers, Attempt(w) \/ Crash(w) PROVE CallProvider(w)
      BY <2>1, <3>1 DEF Attempt, Crash, ExecuteReplayed, ExecuteVetoed, ExecuteRecorded,
         ExecuteRefused, SubmitRefused, SubmitExisting, SubmitExpired, SubmitStarted,
         CallNotSent, RecordRejected, RecordAmbiguous, RecordAccepted, Settle, Conclude, Fail, world
    <3>2. ASSUME NEW w \in Workers, NEW q \in Packages,
                 \/ ClaimPackage(w, q) \/ ClaimBlocked(w, q) \/ Redrive(w, q) \/ Sweep(w, q)
                 \/ Release(w, q)
          PROVE  FALSE
      BY <2>1, <3>2, ClaimCases DEF AttemptInv
    <3>3. ASSUME NEW q \in Packages, Reconcile(q) PROVE FALSE
      BY <2>1, <3>3, ReconcileCases DEF Reconciled, world
    <3>4. ASSUME NEW q \in Packages, ExchangeMoves(q) \/ ActivationLapses(q) PROVE FALSE
      BY <2>1, <3>4 DEF ExchangeMoves, ActivationLapses, world
    <3>5. ~ToggleKillSwitch /\ ~Redeploy
      BY <2>1 DEF ToggleKillSwitch, Redeploy
    <3> QED
      BY <3>1, <3>2, <3>3, <3>4, <3>5 DEF Next
  <2>3. At(w, "call")
    BY <2>2 DEF CallProvider, CallAnswered
  <2>4. \A q \in Packages \ {session[w].pkg} : calls'[q] = calls[q]
    BY <2>2, AttemptFrame DEF Attempt, Untouched
  <2>5. session[w].pkg = p
    BY <2>4 DEF TypeOK
  <2> QED
    BY <2>3, <2>5 DEF RecordedInv, AttemptRecorded, At
<1>2. Init => RecordedInv
  BY DEF Init, IdleSession, RecordedInv, AttemptRecorded, At
<1>3. OneWorker /\ TypeOK /\ AttemptInv /\ RecordedInv /\ [Next]_vars => RecordedInv'
  BY NextRecordedInv
<1>4. TypeOK /\ AttemptInv /\ [Next]_vars => AttemptInv'
  BY NextAttemptInv
<1>5. OneWorker
  OBVIOUS
<1>6. TypeOK /\ AttemptInv /\ RecordedInv /\ [Next]_vars => RecordedInv'
  BY <1>3, <1>5
<1>7. Spec => [][CallStep]_vars
  BY <1>1, <1>2, <1>4, <1>6, InitAttemptInv, TypeCorrect, PTL DEF Spec
<1> QED
  BY <1>7 DEF CallMatchesRecord, CallStep

-----------------------------------------------------------------------------
(* Before the submission.                                                   *)

\* A package without a claim has an untouched order, and one whose claim is
\* only started has not been submitted.
Fresh(p) ==
  /\ claim[p] = "NONE" => order[p] = "DRY_RUN_READY"
  /\ claim[p] \in {"NONE", "CLAIMED", "EXECUTION_STARTED"} => ~submitted[p]

FreshInv == \A p \in Packages : Fresh(p)

\* The statuses a reconciliation pass stores, with what the exchange said.
ReconciledTruly(p, status) ==
  \/ status = "FILLED" /\ order[p] = "FILLED" /\ booked' = booked
  \/ status = "FILLED" /\ exch[p] = "filled" /\ booked'[p]
  \/ status = "CANCELLED" /\ exch[p] = "closed" /\ booked' = booked
  \/ status \in {"ACKNOWLEDGED", "PARTIALLY_FILLED", "RECONCILIATION_REQUIRED"}
     /\ (booked'[p] => booked[p] \/ exch[p] \in {"filled", "partly_filled"})
  \/ "lag" \in Stresses /\ status \in TerminalOrders

\* A reconciliation pass writes one submitted order and books its fills.
LEMMA ReconcileOutcome ==
  ASSUME TypeOK, NEW p \in Packages, Reconcile(p)
  PROVE  /\ submitted[p]
         /\ UNCHANGED <<claim, submitted, exch, calls, slot, session>>
         /\ \A q \in Packages \ {p} : order'[q] = order[q] /\ booked'[q] = booked[q]
         /\ booked[p] => booked'[p]
         /\ order'[p] \in TerminalOrders
                \cup {"ACKNOWLEDGED", "PARTIALLY_FILLED", "RECONCILIATION_REQUIRED"}
         /\ ReconciledTruly(p, order'[p])
<1>1. ASSUME NEW status, NEW evidence, NEW fills \in BOOLEAN, Reconciled(p, status, evidence, fills)
      PROVE  /\ submitted[p]
             /\ UNCHANGED <<claim, submitted, exch, calls, slot, session>>
             /\ \A q \in Packages \ {p} : order'[q] = order[q] /\ booked'[q] = booked[q]
             /\ booked[p] => booked'[p]
             /\ order'[p] = status
             /\ ~fills => booked' = booked
             /\ fills => booked'[p]
  BY <1>1 DEF Reconciled, TypeOK, world
<1>2. CASE ReconcileMissing(p)
  BY <1>1, <1>2 DEF ReconcileMissing, ReconciledTruly, TerminalOrders
<1>3. CASE ReconcileOpen(p)
  BY <1>1, <1>3 DEF ReconcileOpen, ReconciledTruly
<1>4. CASE ReconcileFilled(p) \/ ReconcileUnproven(p)
  BY <1>1, <1>4 DEF ReconcileFilled, ReconcileUnproven, ReconciledTruly, TerminalOrders
<1>5. CASE ReconcileMismatch(p)
  BY <1>1, <1>5 DEF ReconcileMismatch, ReconciledTruly, TerminalOrders
<1>6. CASE ReconcileClosed(p)
  BY <1>1, <1>6 DEF ReconcileClosed, ReconciledTruly, TerminalOrders
<1>7. CASE ReconcilePartlyFilled(p)
  BY <1>1, <1>7 DEF ReconcilePartlyFilled, ReconciledTruly
<1>8. CASE ReconcileLagging(p)
  BY <1>1, <1>8 DEF ReconcileLagging, ReconciledTruly, TerminalOrders
<1> QED
  BY <1>2, <1>3, <1>4, <1>5, <1>6, <1>7, <1>8 DEF Reconcile

\* The steps of an attempt move the claim forward with the submission.
LEMMA AttemptFresh ==
  ASSUME OneWorker, TypeOK, AttemptInv, FreshInv, NEW w \in Workers, Attempt(w) \/ Crash(w)
  PROVE  FreshInv'
<1>0. PICK p \in Packages : p = session[w].pkg
  BY AttemptFrame
<1>1. /\ ~Idle(w) /\ AttemptCurrent(w) /\ Fresh(p)
      /\ \A q \in Packages \ {p} : Untouched(q)
  BY <1>0, AttemptFrame DEF AttemptInv, FreshInv
<1>2. SUFFICES Fresh(p)'
  BY <1>1 DEF FreshInv, Fresh, Untouched
<1>3. CASE ExecuteRefused(w) \/ SubmitRefused(w) \/ Fail(w)
  <2>1. Blocked(w) /\ submitted' = submitted
    BY <1>3 DEF ExecuteRefused, SubmitRefused, Fail
  <2> QED
    BY <1>0, <1>1, <2>1, BlockedOutcome DEF Fresh, ReleasedClaims
<1>4. CASE \/ ExecuteReplayed(w) \/ ExecuteVetoed(w) \/ ExecuteRecorded(w)
           \/ SubmitExisting(w) \/ CallProvider(w) \/ CallNotSent(w) \/ Settle(w) \/ Crash(w)
  <2>1. UNCHANGED <<claim, order, submitted>>
    BY <1>4 DEF ExecuteReplayed, ExecuteVetoed, ExecuteRecorded, SubmitExisting, CallProvider,
       CallAnswered, CallNotSent, Settle, Crash, rows
  <2> QED
    BY <1>1, <2>1 DEF Fresh
<1>5. CASE SubmitExpired(w) \/ RecordAmbiguous(w) \/ RecordAccepted(w)
  <2>1. claim' = claim /\ submitted' = submitted /\ claim[p] \in NonterminalClaims
    BY <1>0, <1>1, <1>5 DEF SubmitExpired, RecordAmbiguous, RecordAccepted, AttemptCurrent, BeforeReply, At
  <2> QED
    BY <1>1, <2>1 DEF Fresh, NonterminalClaims
<1>6. CASE SubmitStarted(w) \/ RecordRejected(w)
  <2>1. claim'[p] \in {"SUBMISSION_PENDING", "CANCELLED"}
    BY <1>0, <1>1, <1>6 DEF SubmitStarted, RecordRejected, TypeOK
  <2> QED
    BY <2>1 DEF Fresh
<1>7. CASE Conclude(w)
  <2>1. /\ UNCHANGED <<order, submitted>>
        /\ claim'[p] \in {claim[p], "RECONCILIATION_REQUIRED", "SUBMISSION_PENDING"}
    BY <1>0, <1>1, <1>7 DEF Conclude, Stored, TypeOK
  <2> QED
    BY <1>1, <2>1 DEF Fresh
<1> QED
  BY <1>3, <1>4, <1>5, <1>6, <1>7 DEF Attempt

\* FreshInv is inductive with AttemptInv.
LEMMA NextFreshInv ==
  ASSUME OneWorker, TypeOK, AttemptInv, FreshInv, [Next]_vars
  PROVE  FreshInv'
<1>1. ASSUME NEW w \in Workers, Attempt(w) \/ Crash(w) PROVE FreshInv'
  BY <1>1, AttemptFresh
<1>2. ASSUME NEW w \in Workers, NEW p \in Packages,
             \/ ClaimPackage(w, p) \/ ClaimBlocked(w, p) \/ Redrive(w, p) \/ Sweep(w, p)
             \/ Release(w, p)
      PROVE  FreshInv'
  <2>1. PreparedUnsubmitted /\ Fresh(p) /\ claim[p] \in ClaimStates
    BY DEF AttemptInv, FreshInv, TypeOK
  <2>2. submitted' = submitted /\ \A q \in Packages \ {p} : claim'[q] = claim[q] /\ KeptOrRecovered(q)
    BY <1>2, <2>1, ClaimCases
  <2>3. \A q \in Packages \ {p} : Fresh(q)'
    BY <2>2 DEF FreshInv, Fresh, KeptOrRecovered
  <2>4. SUFFICES Fresh(p)'
    BY <2>3 DEF FreshInv
  <2>5. CASE Advanced(w, p, "CLAIMED") /\ claim[p] = "NONE"
    BY <2>1, <2>2, <2>5 DEF Advanced, Fresh, PreparedUnsubmitted
  <2>6. CASE Advanced(w, p, claim[p]) /\ claim[p] \in NonterminalClaims
    BY <2>1, <2>2, <2>6 DEF Advanced, Fresh, PreparedUnsubmitted, NonterminalClaims
  <2>7. CASE ReleasedWithOrder(p)
    BY <2>7 DEF ReleasedWithOrder, ReleasedStatus, Fresh
  <2>8. CASE claim' = claim /\ KeptOrRecovered(p)
    BY <2>1, <2>2, <2>8 DEF KeptOrRecovered, Fresh
  <2> QED
    BY <1>2, <2>1, <2>5, <2>6, <2>7, <2>8, ClaimCases
<1>3. ASSUME NEW p \in Packages, Reconcile(p) PROVE FreshInv'
  BY <1>3, ReconcileOutcome DEF FreshInv, Fresh
<1>4. CASE \/ \E p \in Packages : ExchangeMoves(p) \/ ActivationLapses(p)
           \/ ToggleKillSwitch \/ Redeploy \/ UNCHANGED vars
  BY <1>4 DEF ExchangeMoves, ActivationLapses, ToggleKillSwitch, Redeploy, vars, rows, FreshInv, Fresh
<1> QED
  BY <1>1, <1>2, <1>3, <1>4 DEF Next

\* No package has been submitted at first.
LEMMA InitFreshInv == Init => FreshInv
BY DEF Init, FreshInv, Fresh

-----------------------------------------------------------------------------
(* Claims released before the provider.                                     *)

\* No attempt is redriven: it is then about a claim that was only started,
\* and one that fails after the submission has not called.
Uncalled(w) ==
  /\ session[w].pc \in {"execute", "submit"} => session[w].claim \in {"CLAIMED", "EXECUTION_STARTED"}
  /\ At(w, "failing") => calls[session[w].pkg] = 0

ReleasedUncalled(p) == claim[p] \in {"FAILED_PRE_PROVIDER", "SAFETY_DISABLED"} => calls[p] = 0

UncalledInv ==
  /\ \A w \in Workers : Uncalled(w)
  /\ \A p \in Packages : ReleasedUncalled(p)

\* Only an attempt that has not called ends in FAILED_PRE_PROVIDER.
LEMMA AttemptUncalled ==
  ASSUME OneWorker, TypeOK, AttemptInv, FreshInv, UncalledInv, NEW w \in Workers,
         Attempt(w) \/ Crash(w)
  PROVE  UncalledInv'
<1>0. PICK p \in Packages : p = session[w].pkg
  BY AttemptFrame
<1>1. /\ ~Idle(w) /\ AttemptCurrent(w) /\ Uncalled(w) /\ ReleasedUncalled(p)
      /\ \A q \in Packages \ {p} : Untouched(q)
  BY <1>0, AttemptFrame DEF AttemptInv, UncalledInv
<1>2. SUFFICES Uncalled(w)' /\ ReleasedUncalled(p)'
  BY <1>1 DEF UncalledInv, ReleasedUncalled, Untouched, OneWorker
<1>3. session[w].pc \in {"execute", "submit"} => calls[p] = 0
  BY <1>0, <1>1 DEF AttemptInv, AttemptCurrent, FreshInv, Fresh, CallsRecorded, Uncalled, Idle
<1>4. CASE ExecuteRefused(w) \/ SubmitRefused(w) \/ Fail(w)
  <2>1. Blocked(w) /\ calls' = calls /\ calls[p] = 0
    BY <1>0, <1>1, <1>3, <1>4 DEF ExecuteRefused, SubmitRefused, Fail, world, At, Uncalled
  <2> QED
    BY <1>0, <1>1, <2>1, BlockedOutcome DEF Uncalled, ReleasedUncalled, At
<1>5. CASE ExecuteReplayed(w) \/ ExecuteVetoed(w) \/ SubmitExisting(w) \/ Settle(w)
  <2>1. UNCHANGED <<claim, calls>> /\ session'[w].pc \in {"tail", "settle"}
    BY <1>5, AttemptMoves DEF ExecuteReplayed, ExecuteVetoed, SubmitExisting, Settle, rows, world,
       MovesTo
  <2> QED
    BY <1>1, <2>1 DEF Uncalled, ReleasedUncalled, At
<1>6. CASE ExecuteRecorded(w)
  <2>1. UNCHANGED <<claim, calls>> /\ session[w].pc = "execute"
        /\ MovesTo(w, "submit", session[w].claim, session[w].order, session[w].reply)
    BY <1>6, AttemptMoves DEF ExecuteRecorded, rows, world, At
  <2> QED
    BY <1>1, <2>1 DEF Uncalled, ReleasedUncalled, At, MovesTo
<1>7. CASE CallNotSent(w)
  <2>1. UNCHANGED <<claim, calls>> /\ calls[p] = 0 /\ session'[w].pkg = p
        /\ session'[w].pc \in {"settle", "failing"}
    BY <1>0, <1>1, <1>7, AttemptMoves DEF CallNotSent, rows, world, MovesTo, AttemptCurrent
  <2> QED
    BY <1>1, <2>1 DEF Uncalled, ReleasedUncalled, At
<1>8. CASE SubmitExpired(w)
  <2>1. UNCHANGED <<claim, calls>> /\ calls[p] = 0 /\ session'[w].pkg = p /\ session'[w].pc = "failing"
    BY <1>0, <1>3, <1>8, AttemptMoves DEF SubmitExpired, world, At, MovesTo
  <2> QED
    BY <1>1, <2>1 DEF Uncalled, ReleasedUncalled, At
<1>9. CASE SubmitStarted(w) \/ RecordRejected(w)
  <2>1. claim'[p] \in {"SUBMISSION_PENDING", "CANCELLED"} /\ session'[w].pc \in {"call", "settle"}
    BY <1>0, <1>9, AttemptMoves DEF SubmitStarted, RecordRejected, TypeOK, MovesTo
  <2> QED
    BY <2>1 DEF Uncalled, ReleasedUncalled, At
<1>10. CASE CallProvider(w) \/ RecordAmbiguous(w) \/ RecordAccepted(w)
  <2>1. claim' = claim /\ session[w].pc \in {"call", "record"}
    BY <1>10 DEF CallProvider, CallAnswered, RecordAmbiguous, RecordAccepted, rows, At
  <2>2. session'[w].pc \in {"record", "settle"}
    BY <1>10, AttemptMoves DEF CallProvider, MovesTo
  <2>3. claim[p] \in NonterminalClaims
    BY <1>0, <1>1, <2>1 DEF AttemptCurrent, BeforeReply
  <2> QED
    BY <2>1, <2>2, <2>3 DEF Uncalled, ReleasedUncalled, At, NonterminalClaims
<1>11. CASE Conclude(w) \/ Crash(w)
  <2>1. calls' = calls /\ EndAttempt(w)
        /\ claim'[p] \in {claim[p], "RECONCILIATION_REQUIRED", "SUBMISSION_PENDING"}
    BY <1>0, <1>11 DEF Conclude, Crash, Stored, TypeOK, rows, world
  <2>2. session'[w].pc = "idle"
    BY <2>1 DEF EndAttempt, IdleSession, TypeOK
  <2> QED
    BY <1>1, <2>1, <2>2 DEF Uncalled, ReleasedUncalled, At
<1> QED
  BY <1>4, <1>5, <1>6, <1>7, <1>8, <1>9, <1>10, <1>11 DEF Attempt

\* UncalledInv is inductive when no claim is driven again.
LEMMA NextUncalledInv ==
  ASSUME OneWorker, "redrive" \notin Stresses, TypeOK, AttemptInv, FreshInv, UncalledInv, [Next]_vars
  PROVE  UncalledInv'
<1>1. ASSUME NEW w \in Workers, Attempt(w) \/ Crash(w) PROVE UncalledInv'
  BY <1>1, AttemptUncalled
<1>2. ASSUME NEW w \in Workers, NEW p \in Packages,
             \/ ClaimPackage(w, p) \/ ClaimBlocked(w, p) \/ Redrive(w, p) \/ Sweep(w, p)
             \/ Release(w, p)
      PROVE  UncalledInv'
  <2>1. /\ PreparedUnsubmitted /\ Fresh(p) /\ ReleasedUncalled(p)
        /\ calls[p] = 0 \/ submitted[p]
    BY DEF AttemptInv, FreshInv, UncalledInv, CallsRecorded
  <2>2. /\ Idle(w) /\ calls' = calls
        /\ \A q \in Packages \ {p} : claim'[q] = claim[q]
    BY <1>2, <2>1, ClaimCases
  <2>3. SUFFICES Uncalled(w)' /\ ReleasedUncalled(p)'
    BY <2>2 DEF UncalledInv, ReleasedUncalled, OneWorker
  <2>4. ASSUME NEW c \in {"CLAIMED", "EXECUTION_STARTED"}, Advanced(w, p, c), calls[p] = 0
        PROVE  Uncalled(w)' /\ ReleasedUncalled(p)'
    BY <2>2, <2>4 DEF Advanced, Begins, Uncalled, ReleasedUncalled, At, Idle
  <2>5. CASE ClaimPackage(w, p) /\ claim[p] = "NONE" /\ Advanced(w, p, "CLAIMED")
    BY <2>1, <2>4, <2>5 DEF Fresh
  <2>6. CASE (Redrive(w, p) \/ Sweep(w, p)) /\ Advanced(w, p, claim[p])
    BY <2>1, <2>4, <2>6 DEF Redrive, Sweep, Fresh
  <2>7. CASE ReleasedWithOrder(p) \/ (claim' = claim /\ session' = session)
    BY <2>1, <2>2, <2>7 DEF ReleasedWithOrder, ReleasedStatus, Uncalled, ReleasedUncalled, At, Idle
  <2> QED
    BY <1>2, <2>1, <2>5, <2>6, <2>7, ClaimCases
<1>3. ASSUME UNCHANGED <<claim, calls, session>> PROVE UncalledInv'
  BY <1>3 DEF UncalledInv, Uncalled, ReleasedUncalled, At
<1>4. ASSUME NEW p \in Packages, Reconcile(p) PROVE UNCHANGED <<claim, calls, session>>
  BY <1>4, ReconcileOutcome
<1>5. CASE \/ \E p \in Packages : ExchangeMoves(p) \/ ActivationLapses(p)
           \/ ToggleKillSwitch \/ Redeploy \/ UNCHANGED vars
  BY <1>3, <1>5 DEF ExchangeMoves, ActivationLapses, ToggleKillSwitch, Redeploy, vars, rows, world
<1> QED
  BY <1>1, <1>2, <1>3, <1>4, <1>5 DEF Next

\* With one worker, and as long as no later cycle drives a claim again, a
\* claim that left the scope without an order outcome never reached the
\* provider (comment on _CLAIM_SCOPE_RELEASED_STATES).  The hypothesis on
\* redriving is needed: the run redrive_releases_sent shows the claim of a
\* sent order released by it.
THEOREM ReleasedUncalledOrResolved ==
  ASSUME OneWorker, "redrive" \notin Stresses
  PROVE  Spec => []ReleasedMeansUncalledOrResolved
<1>1. UncalledInv => ReleasedMeansUncalledOrResolved
  BY DEF UncalledInv, ReleasedUncalled, ReleasedMeansUncalledOrResolved
<1>2. Init => UncalledInv
  BY DEF Init, IdleSession, UncalledInv, Uncalled, ReleasedUncalled, At
<1>3. TypeOK /\ AttemptInv /\ [Next]_vars => AttemptInv'
  BY NextAttemptInv
<1>4. TypeOK /\ AttemptInv /\ FreshInv /\ [Next]_vars => FreshInv'
  BY NextFreshInv
<1>5. TypeOK /\ AttemptInv /\ FreshInv /\ UncalledInv /\ [Next]_vars => UncalledInv'
  BY NextUncalledInv
<1> QED
  BY <1>1, <1>2, <1>3, <1>4, <1>5, InitAttemptInv, InitFreshInv, TypeCorrect, PTL DEF Spec

-----------------------------------------------------------------------------
(* Claims that await an outcome.                                            *)

Unsent == {"DRY_RUN_READY", "PENDING_CONFIRMATION", "CONFIRMATION_EXPIRED"}

\* From the call on, the attempt's order has been submitted; before, the
\* order it remembers has no provider result unless it was submitted.
PendingAttempt(w) ==
  /\ session[w].pc \in {"call", "record", "settle", "tail"} => submitted[session[w].pkg]
  /\ session[w].pc \in {"execute", "submit"} /\ ~submitted[session[w].pkg]
       => session[w].order \in Unsent

PendingClaim(p) ==
  /\ claim[p] \in {"SUBMISSION_PENDING", "RECONCILIATION_REQUIRED"} => submitted[p]
  /\ claim[p] \in NonterminalClaims /\ ~submitted[p] => order[p] \in Unsent

\* A slot is finished by an attempt that was submitted.
SpentSlot(s) == slot[s].terminal => slot[s].holder \in Packages /\ submitted[slot[s].holder]

PendingInv ==
  /\ \A w \in Workers : PendingAttempt(w)
  /\ \A p \in Packages : PendingClaim(p)
  /\ \A s \in Sides : SpentSlot(s)

\* The sides have different slots, and a submission is never taken back.
LEMMA SpentKept ==
  ASSUME PendingInv, slot' = slot, \A p \in Packages : submitted[p] => submitted'[p]
  PROVE  \A s \in Sides : SpentSlot(s)'
BY DEF PendingInv, SpentSlot

\* The steps of an attempt, when none is vetoed after its slot was checked.
LEMMA AttemptPending ==
  ASSUME OneWorker, "veto" \notin Stresses, TypeOK, AttemptInv, FreshInv, PendingInv,
         NEW w \in Workers, Attempt(w) \/ Crash(w)
  PROVE  PendingInv'
<1>0. PICK p \in Packages : p = session[w].pkg
  BY AttemptFrame
<1>1. /\ ~Idle(w) /\ AttemptCurrent(w) /\ PendingAttempt(w) /\ PendingClaim(p)
      /\ \A q \in Packages \ {p} : Untouched(q)
  BY <1>0, AttemptFrame DEF AttemptInv, PendingInv
<1>2. \A q \in Packages \ {p} : PendingClaim(q)'
  BY <1>1 DEF PendingInv, PendingClaim, Untouched
<1>3. ASSUME PendingAttempt(w)', PendingClaim(p)', slot' = slot,
             submitted[p] => submitted'[p]
      PROVE  PendingInv'
  BY <1>1, <1>2, <1>3, SpentKept DEF PendingInv, Untouched, OneWorker
<1>4. CASE ExecuteRefused(w) \/ SubmitRefused(w) \/ Fail(w)
  <2>1. Blocked(w) /\ UNCHANGED <<submitted, slot>>
    BY <1>4 DEF ExecuteRefused, SubmitRefused, Fail
  <2>2. /\ session'[w].pc = "idle"
        /\ claim'[p] = "FAILED_PRE_PROVIDER" \/ (claim[p] \in ReleasedClaims /\ claim' = claim)
    BY <1>0, <1>1, <2>1, BlockedOutcome
  <2>3. PendingAttempt(w)' /\ PendingClaim(p)'
    BY <2>2 DEF PendingAttempt, PendingClaim, NonterminalClaims, ReleasedClaims
  <2> QED
    BY <1>3, <2>1, <2>3
<1>5. CASE ExecuteReplayed(w)
  <2>1. /\ UNCHANGED <<claim, order, submitted, slot>> /\ SlotSpent(p)
        /\ session'[w].pc = "tail" /\ session'[w].pkg = p
    BY <1>0, <1>5, AttemptMoves DEF ExecuteReplayed, rows, MovesTo
  <2>2. submitted[p]
    BY <2>1 DEF SlotSpent, PendingInv, SpentSlot, Side, Sides
  <2>3. PendingAttempt(w)' /\ PendingClaim(p)'
    BY <1>1, <2>1, <2>2 DEF PendingAttempt, PendingClaim
  <2> QED
    BY <1>3, <2>1, <2>3
<1>6. CASE ExecuteRecorded(w)
  <2>1. /\ UNCHANGED <<claim, order, submitted>> /\ session[w].pc = "execute"
        /\ MovesTo(w, "submit", session[w].claim, session[w].order, session[w].reply)
        /\ slot' = [slot EXCEPT ![Side(p)] = [holder |-> p, terminal |-> FALSE]]
    BY <1>0, <1>6, AttemptMoves DEF ExecuteRecorded, rows, At
  <2>2. PendingAttempt(w)' /\ PendingClaim(p)'
    BY <1>1, <2>1 DEF PendingAttempt, PendingClaim, MovesTo
  <2>3. \A s \in Sides : SpentSlot(s)'
    BY <2>1 DEF PendingInv, SpentSlot, TypeOK
  <2> QED
    BY <1>2, <2>2, <2>3 DEF PendingInv, OneWorker
<1>7. CASE SubmitExisting(w) \/ CallNotSent(w)
  <2>1. /\ UNCHANGED <<claim, order, submitted, slot>> /\ session'[w].pkg = p
        /\ session'[w].pc \in {"settle", "failing"}
    BY <1>0, <1>7, AttemptMoves DEF SubmitExisting, CallNotSent, rows, MovesTo
  <2>2. submitted[p]
    <3>1. CASE SubmitExisting(w)
      <4>1. session[w].pc = "submit" /\ session[w].order \notin Unsent
        BY <3>1 DEF SubmitExisting, At, Unsent, TerminalOrders
      <4> QED
        BY <1>0, <1>1, <4>1 DEF PendingAttempt
    <3>2. CASE CallNotSent(w)
      BY <1>0, <1>1, <3>2 DEF CallNotSent, At, PendingAttempt
    <3> QED
      BY <1>7, <3>1, <3>2
  <2>3. PendingAttempt(w)' /\ PendingClaim(p)'
    BY <1>1, <2>1, <2>2 DEF PendingAttempt, PendingClaim
  <2> QED
    BY <1>3, <2>1, <2>3
<1>8. CASE SubmitExpired(w)
  <2>1. /\ UNCHANGED <<claim, submitted, slot>> /\ session'[w].pc = "failing"
        /\ order'[p] = "CONFIRMATION_EXPIRED"
    BY <1>0, <1>8, AttemptMoves DEF SubmitExpired, MovesTo, TypeOK
  <2>2. PendingAttempt(w)' /\ PendingClaim(p)'
    BY <1>1, <2>1 DEF PendingAttempt, PendingClaim, Unsent
  <2> QED
    BY <1>3, <2>1, <2>2
<1>9. CASE SubmitStarted(w)
  <2>1. slot' = slot /\ submitted'[p] /\ session'[w].pkg = p /\ session'[w].pc = "call"
    BY <1>0, <1>9, AttemptMoves DEF SubmitStarted, MovesTo, TypeOK
  <2>2. PendingAttempt(w)' /\ PendingClaim(p)'
    BY <2>1 DEF PendingAttempt, PendingClaim
  <2> QED
    BY <1>3, <2>1, <2>2
<1>10. CASE CallProvider(w) \/ RecordRejected(w) \/ RecordAmbiguous(w) \/ RecordAccepted(w)
  <2>1. UNCHANGED <<submitted, slot>> /\ session[w].pc \in {"call", "record"}
    BY <1>10 DEF CallProvider, CallAnswered, RecordRejected, RecordAmbiguous, RecordAccepted,
       rows, At
  <2>2. session'[w].pkg = p
    BY <1>0, <1>10, AttemptMoves DEF CallProvider, MovesTo
  <2>3. submitted[p]
    BY <1>0, <1>1, <2>1 DEF PendingAttempt
  <2>4. PendingAttempt(w)' /\ PendingClaim(p)'
    BY <2>1, <2>2, <2>3 DEF PendingAttempt, PendingClaim
  <2> QED
    BY <1>3, <2>1, <2>4
<1>11. CASE Settle(w)
  <2>1. UNCHANGED <<claim, order, submitted>> /\ submitted[p] /\ session'[w].pkg = p
    BY <1>0, <1>1, <1>11, AttemptMoves DEF Settle, rows, At, PendingAttempt, MovesTo
  <2>2. \A s \in Sides : SpentSlot(s)'
    <3>1. slot' = [slot EXCEPT ![Side(p)] = [holder |-> p, terminal |-> session[w].reply # "ambiguous"]]
      BY <1>0, <1>11 DEF Settle
    <3> QED
      BY <2>1, <3>1 DEF PendingInv, SpentSlot, TypeOK
  <2>3. PendingAttempt(w)' /\ PendingClaim(p)'
    BY <1>1, <2>1 DEF PendingAttempt, PendingClaim
  <2> QED
    BY <1>2, <2>2, <2>3 DEF PendingInv, OneWorker
<1>12. CASE Conclude(w) \/ Crash(w)
  <2>1. UNCHANGED <<order, submitted, slot>> /\ EndAttempt(w)
    BY <1>12 DEF Conclude, Crash, rows
  <2>2. claim' = claim \/ submitted[p]
    BY <1>0, <1>1, <1>12 DEF Conclude, Crash, rows, At, PendingAttempt
  <2>3. session'[w].pc = "idle"
    BY <2>1 DEF EndAttempt, IdleSession, TypeOK
  <2>4. PendingAttempt(w)' /\ PendingClaim(p)'
    BY <1>1, <2>1, <2>2, <2>3 DEF PendingAttempt, PendingClaim
  <2> QED
    BY <1>3, <2>1, <2>4
<1> QED
  BY <1>4, <1>5, <1>6, <1>7, <1>8, <1>9, <1>10, <1>11, <1>12 DEF Attempt, ExecuteVetoed

\* PendingInv is inductive when no attempt is vetoed.
LEMMA NextPendingInv ==
  ASSUME OneWorker, "veto" \notin Stresses, TypeOK, AttemptInv, FreshInv, PendingInv, [Next]_vars
  PROVE  PendingInv'
<1>1. ASSUME NEW w \in Workers, Attempt(w) \/ Crash(w) PROVE PendingInv'
  BY <1>1, AttemptPending
<1>2. ASSUME NEW w \in Workers, NEW p \in Packages,
             \/ ClaimPackage(w, p) \/ ClaimBlocked(w, p) \/ Redrive(w, p) \/ Sweep(w, p)
             \/ Release(w, p)
      PROVE  PendingInv'
  <2>1. PreparedUnsubmitted /\ Fresh(p) /\ PendingClaim(p) /\ PendingAttempt(w)
    BY DEF AttemptInv, FreshInv, PendingInv
  <2>2. /\ Idle(w) /\ UNCHANGED <<submitted, slot>>
        /\ \A q \in Packages \ {p} : claim'[q] = claim[q] /\ KeptOrRecovered(q)
    BY <1>2, <2>1, ClaimCases
  <2>3. SUFFICES PendingAttempt(w)' /\ PendingClaim(p)'
    <3>1. \A q \in Packages \ {p} : PendingClaim(q)'
      BY <2>2 DEF PendingInv, PendingClaim, KeptOrRecovered, NonterminalClaims
    <3> QED
      BY <2>2, <3>1, SpentKept DEF PendingInv, OneWorker
  <2>4. CASE Advanced(w, p, "CLAIMED") /\ claim[p] = "NONE"
    BY <2>1, <2>2, <2>4 DEF Advanced, Begins, Fresh, PendingAttempt, PendingClaim, Unsent, Idle,
       NonterminalClaims
  <2>5. CASE Advanced(w, p, claim[p]) /\ claim[p] \in NonterminalClaims
    BY <2>1, <2>2, <2>5 DEF Advanced, Begins, PendingAttempt, PendingClaim, Unsent, Idle,
       NonterminalClaims
  <2>6. CASE ReleasedWithOrder(p) \/ (claim' = claim /\ session' = session /\ KeptOrRecovered(p))
    BY <2>1, <2>2, <2>6 DEF ReleasedWithOrder, ReleasedStatus, KeptOrRecovered, PendingAttempt,
       PendingClaim, Idle, NonterminalClaims
  <2> QED
    BY <1>2, <2>1, <2>4, <2>5, <2>6, ClaimCases
<1>3. ASSUME NEW p \in Packages, Reconcile(p) PROVE PendingInv'
  BY <1>3, ReconcileOutcome DEF PendingInv, PendingAttempt, PendingClaim, SpentSlot
<1>4. CASE \/ \E p \in Packages : ExchangeMoves(p) \/ ActivationLapses(p)
           \/ ToggleKillSwitch \/ Redeploy \/ UNCHANGED vars
  <2>1. UNCHANGED <<claim, order, submitted, slot, session>>
    BY <1>4 DEF ExchangeMoves, ActivationLapses, ToggleKillSwitch, Redeploy, vars, rows
  <2> QED
    BY <2>1 DEF PendingInv, PendingAttempt, PendingClaim, SpentSlot
<1> QED
  BY <1>1, <1>2, <1>3, <1>4 DEF Next

\* Nothing is submitted, and nothing awaits an outcome, at first.
LEMMA InitPendingInv == Init => PendingInv
BY DEF Init, IdleSession, PendingInv, PendingAttempt, PendingClaim, SpentSlot, Unsent, Sides

\* With one worker, and unless the execution-time risk evaluation vetoes an
\* attempt, a claim awaiting a provider outcome has started its submission,
\* also when it is swept or driven again (comment on
\* _CLAIM_SCOPE_NONTERMINAL_STATES).
THEOREM PendingWasSubmitted ==
  ASSUME OneWorker, "veto" \notin Stresses
  PROVE  Spec => []PendingMeansSubmitted
<1>1. PendingInv => PendingMeansSubmitted
  BY DEF PendingInv, PendingClaim, PendingMeansSubmitted
<1>2. TypeOK /\ AttemptInv /\ [Next]_vars => AttemptInv'
  BY NextAttemptInv
<1>3. TypeOK /\ AttemptInv /\ FreshInv /\ [Next]_vars => FreshInv'
  BY NextFreshInv
<1>4. TypeOK /\ AttemptInv /\ FreshInv /\ PendingInv /\ [Next]_vars => PendingInv'
  BY NextPendingInv
<1> QED
  BY <1>1, <1>2, <1>3, <1>4, InitAttemptInv, InitFreshInv, InitPendingInv, TypeCorrect,
     PTL DEF Spec

-----------------------------------------------------------------------------
(* The recorded outcome.                                                    *)

SentOrders == (OpenOrders \ {"PENDING_CONFIRMATION"}) \cup TerminalOrders

\* What an order's row says of the exchange.
OrderTruth(p) ==
  /\ submitted[p] => order[p] \in SentOrders
  /\ exch[p] # "none" => calls[p] = 1
  /\ booked[p] => exch[p] \in {"filled", "partly_filled"}
  /\ order[p] = "FILLED" => exch[p] = "filled" /\ booked[p]
  /\ order[p] = "CANCELLED" /\ submitted[p] => exch[p] = "closed"
  /\ order[p] = "REJECTED" => exch[p] = "none" /\ calls[p] = 1

\* What a claim's row says of the exchange.
ClaimTruth(p) ==
  /\ claim[p] \in {"BUY_RECONCILED", "COMPLETED"} => exch[p] = "filled"
  /\ claim[p] = "CANCELLED" => exch[p] = "closed" \/ (exch[p] = "none" /\ calls[p] = 1)

\* What an attempt that is calling, or recording a reply, knows of the order.
ReplyTruth(w) ==
  /\ session[w].pc \in {"call", "failing"} => session[w].order # "PENDING_CONFIRMATION"
  /\ At(w, "record") =>
       /\ calls[session[w].pkg] = 1
       /\ session[w].reply = "rejected" => exch[session[w].pkg] = "none"

TruthInv ==
  /\ \A p \in Packages : OrderTruth(p) /\ ClaimTruth(p)
  /\ \A w \in Workers : ReplyTruth(w)

\* The steps of an attempt.  A call is made for an order that nothing is known
\* of at the exchange, so no recorded outcome is falsified by it.
LEMMA AttemptTruth ==
  ASSUME OneWorker, TypeOK, AttemptInv, TruthInv, NEW w \in Workers, Attempt(w) \/ Crash(w)
  PROVE  TruthInv'
<1>0. PICK p \in Packages : p = session[w].pkg
  BY AttemptFrame
<1>1. /\ ~Idle(w) /\ AttemptCurrent(w) /\ ReplyTruth(w) /\ OrderTruth(p) /\ ClaimTruth(p)
      /\ booked' = booked
      /\ \A q \in Packages \ {p} : Untouched(q)
  BY <1>0, AttemptFrame DEF AttemptInv, TruthInv
<1>2. SUFFICES ReplyTruth(w)' /\ OrderTruth(p)' /\ ClaimTruth(p)'
  BY <1>1 DEF TruthInv, OrderTruth, ClaimTruth, Untouched, OneWorker
<1>3. session[w].pc \in {"execute", "submit"} /\ session[w].order = "PENDING_CONFIRMATION"
        => ~submitted[p]
  BY <1>0, <1>1 DEF AttemptInv, AttemptCurrent, PreparedUnsubmitted
<1>4. CASE ExecuteRefused(w) \/ SubmitRefused(w) \/ Fail(w)
  <2>1. /\ Blocked(w) /\ UNCHANGED <<submitted, exch, calls>>
        /\ session[w].pc \in {"execute", "submit", "failing"}
    BY <1>4 DEF ExecuteRefused, SubmitRefused, Fail, world, At
  <2>2. /\ session'[w].pc = "idle"
        /\ claim'[p] = "FAILED_PRE_PROVIDER" \/ claim'[p] = claim[p]
        /\ order'[p] = order[p] \/ (~submitted[p] /\ order'[p] = "CANCELLED")
    BY <1>0, <1>1, <1>3, <2>1, BlockedOutcome DEF ReplyTruth
  <2> QED
    BY <1>1, <2>1, <2>2 DEF ReplyTruth, OrderTruth, ClaimTruth, At
<1>5. CASE \/ ExecuteReplayed(w) \/ ExecuteVetoed(w) \/ ExecuteRecorded(w)
           \/ SubmitExisting(w) \/ CallNotSent(w) \/ Settle(w)
  <2>1. UNCHANGED <<claim, order, submitted, exch, calls>>
    BY <1>5 DEF ExecuteReplayed, ExecuteVetoed, ExecuteRecorded, SubmitExisting, CallNotSent,
       Settle, rows, world
  <2>2. \/ session'[w].pc \in {"tail", "submit", "settle"}
        \/ session'[w].pc = "failing" /\ session[w].pc = "call" /\ session'[w].order = session[w].order
    BY <1>5, AttemptMoves DEF MovesTo, CallNotSent, At
  <2> QED
    BY <1>1, <2>1, <2>2 DEF ReplyTruth, OrderTruth, ClaimTruth, At
<1>6. CASE SubmitExpired(w)
  <2>1. /\ UNCHANGED <<claim, submitted, exch, calls>> /\ ~submitted[p]
        /\ order'[p] = "CONFIRMATION_EXPIRED"
    BY <1>0, <1>3, <1>6 DEF SubmitExpired, world, At, TypeOK
  <2>2. session'[w].pc = "failing" /\ session'[w].order = "CONFIRMATION_EXPIRED"
    BY <1>6, AttemptMoves DEF MovesTo
  <2> QED
    BY <1>1, <2>1, <2>2 DEF ReplyTruth, OrderTruth, ClaimTruth, At
<1>7. CASE SubmitStarted(w)
  <2>1. /\ UNCHANGED <<exch, calls>> /\ order'[p] = "SUBMISSION_PENDING"
        /\ claim'[p] = "SUBMISSION_PENDING"
    BY <1>0, <1>7 DEF SubmitStarted, world, TypeOK
  <2>2. session'[w].pc = "call" /\ session'[w].order = "SUBMISSION_PENDING"
    BY <1>7, AttemptMoves DEF MovesTo
  <2> QED
    BY <1>1, <2>1, <2>2 DEF ReplyTruth, OrderTruth, ClaimTruth, At, SentOrders, OpenOrders
<1>8. CASE CallProvider(w)
  <2>1. PICK reply, arrival :
          /\ CallAnswered(w, reply, arrival)
          /\ reply = "rejected" => arrival = exch[p]
    BY <1>0, <1>8 DEF CallProvider
  <2>2. /\ UNCHANGED <<claim, order, submitted>> /\ calls'[p] = calls[p] + 1 /\ exch'[p] = arrival
        /\ session[w].pc = "call"
    BY <1>0, <2>1 DEF CallAnswered, rows, At, TypeOK
  <2>3. calls[p] = 0 /\ submitted[p] /\ claim[p] \in NonterminalClaims
    BY <1>0, <1>1, <2>2 DEF AttemptCurrent, BeforeReply, At, Idle
  <2>4. exch[p] = "none" /\ ~booked[p] /\ order[p] \notin TerminalOrders
    BY <1>1, <2>3 DEF OrderTruth, TerminalOrders
  <2>5. session'[w].pc = "record" /\ session'[w].pkg = p /\ session'[w].reply = reply
    BY <1>0, <2>1, AttemptMoves DEF MovesTo
  <2>6. ReplyTruth(w)'
    BY <2>1, <2>2, <2>3, <2>4, <2>5 DEF ReplyTruth, At
  <2>7. OrderTruth(p)'
    BY <1>1, <2>2, <2>3, <2>4 DEF OrderTruth, TerminalOrders
  <2>8. ClaimTruth(p)'
    BY <2>2, <2>3 DEF ClaimTruth, NonterminalClaims
  <2> QED
    BY <2>6, <2>7, <2>8
<1>9. CASE RecordRejected(w)
  <2>1. /\ UNCHANGED <<submitted, exch, calls>> /\ order'[p] = "REJECTED" /\ claim'[p] = "CANCELLED"
        /\ session[w].reply = "rejected" /\ At(w, "record")
    BY <1>0, <1>9 DEF RecordRejected, world, TypeOK
  <2>2. session'[w].pc = "settle"
    BY <1>9, AttemptMoves DEF MovesTo
  <2>3. exch[p] = "none" /\ calls[p] = 1
    BY <1>0, <1>1, <2>1 DEF ReplyTruth
  <2> QED
    BY <1>1, <2>1, <2>2, <2>3 DEF ReplyTruth, OrderTruth, ClaimTruth, At, SentOrders, TerminalOrders
<1>10. CASE RecordAmbiguous(w) \/ RecordAccepted(w)
  <2>1. /\ UNCHANGED <<claim, submitted, exch, calls>>
        /\ order'[p] \in {"ACKNOWLEDGED", "RECONCILIATION_REQUIRED"}
    BY <1>0, <1>10 DEF RecordAmbiguous, RecordAccepted, world, TypeOK
  <2>2. session'[w].pc = "settle"
    BY <1>10, AttemptMoves DEF MovesTo
  <2> QED
    BY <1>1, <2>1, <2>2 DEF ReplyTruth, OrderTruth, ClaimTruth, At, SentOrders, OpenOrders
<1>11. CASE Conclude(w) \/ Crash(w)
  <2>1. /\ UNCHANGED <<order, submitted, exch, calls>> /\ EndAttempt(w)
        /\ claim'[p] \in {claim[p], "RECONCILIATION_REQUIRED", "SUBMISSION_PENDING"}
    BY <1>0, <1>11 DEF Conclude, Crash, Stored, TypeOK, rows, world
  <2>2. session'[w].pc = "idle"
    BY <2>1 DEF EndAttempt, IdleSession, TypeOK
  <2> QED
    BY <1>1, <2>1, <2>2 DEF ReplyTruth, OrderTruth, ClaimTruth, At
<1> QED
  BY <1>4, <1>5, <1>6, <1>7, <1>8, <1>9, <1>10, <1>11 DEF Attempt

\* Between attempts, a claim is released with the outcome its order records.
LEMMA ClaimStepTruth ==
  ASSUME OneWorker, TypeOK, AttemptInv, TruthInv, NEW w \in Workers, NEW p \in Packages,
         \/ ClaimPackage(w, p) \/ ClaimBlocked(w, p) \/ Redrive(w, p) \/ Sweep(w, p)
         \/ Release(w, p)
  PROVE  TruthInv'
<1>1. PreparedUnsubmitted /\ OrderTruth(p) /\ ClaimTruth(p)
  BY DEF AttemptInv, TruthInv
<1>2. /\ Idle(w) /\ UNCHANGED <<submitted, exch, calls, booked>>
      /\ \A q \in Packages \ {p} : claim'[q] = claim[q] /\ KeptOrRecovered(q)
  BY <1>1, ClaimCases
<1>3. \A q \in Packages \ {p} : OrderTruth(q)' /\ ClaimTruth(q)'
  BY <1>2 DEF TruthInv, OrderTruth, ClaimTruth, KeptOrRecovered
<1>4. session'[w].pc \in {"idle", "execute"}
  BY <1>1, <1>2, ClaimCases DEF Advanced, Begins, ReleasedWithOrder, Idle
<1>5. SUFFICES OrderTruth(p)' /\ ClaimTruth(p)'
  BY <1>3, <1>4 DEF TruthInv, ReplyTruth, At, OneWorker
<1>6. ASSUME NEW c \in NonterminalClaims, Advanced(w, p, c)
      PROVE  OrderTruth(p)' /\ ClaimTruth(p)'
  <2>1. claim'[p] \in {"FAILED_PRE_PROVIDER", "SAFETY_DISABLED"} \cup NonterminalClaims
    BY <1>6 DEF Advanced, NonterminalClaims
  <2>2. ClaimTruth(p)'
    BY <2>1 DEF ClaimTruth, NonterminalClaims
  <2>3. \/ order'[p] = order[p]
        \/ ~submitted[p] /\ order'[p] \in {"CANCELLED", "PENDING_CONFIRMATION"}
    BY <1>1, <1>6 DEF Advanced, PreparedUnsubmitted
  <2> QED
    BY <1>1, <1>2, <2>2, <2>3 DEF OrderTruth
<1>7. CASE ReleasedWithOrder(p)
  BY <1>1, <1>2, <1>7 DEF ReleasedWithOrder, ReleasedStatus, OrderTruth, ClaimTruth, TerminalOrders
<1>8. CASE claim' = claim /\ KeptOrRecovered(p)
  BY <1>1, <1>2, <1>8 DEF KeptOrRecovered, OrderTruth, ClaimTruth
<1>9. "CLAIMED" \in NonterminalClaims
  BY DEF NonterminalClaims
<1> QED
  BY <1>1, <1>6, <1>7, <1>8, <1>9, ClaimCases

\* TruthInv is inductive when the fill list does not lag.
LEMMA NextTruthInv ==
  ASSUME OneWorker, "lag" \notin Stresses, TypeOK, AttemptInv, TruthInv, [Next]_vars
  PROVE  TruthInv'
<1>1. ASSUME NEW w \in Workers, Attempt(w) \/ Crash(w) PROVE TruthInv'
  BY <1>1, AttemptTruth
<1>2. ASSUME NEW w \in Workers, NEW p \in Packages,
             \/ ClaimPackage(w, p) \/ ClaimBlocked(w, p) \/ Redrive(w, p) \/ Sweep(w, p)
             \/ Release(w, p)
      PROVE  TruthInv'
  BY <1>2, ClaimStepTruth
<1>3. ASSUME NEW p \in Packages, Reconcile(p) PROVE TruthInv'
  <2>1. /\ submitted[p] /\ UNCHANGED <<claim, submitted, exch, calls, session>>
        /\ \A q \in Packages \ {p} : order'[q] = order[q] /\ booked'[q] = booked[q]
        /\ order'[p] \in TerminalOrders
               \cup {"ACKNOWLEDGED", "PARTIALLY_FILLED", "RECONCILIATION_REQUIRED"}
        /\ ReconciledTruly(p, order'[p])
    BY <1>3, ReconcileOutcome
  <2>2. OrderTruth(p)'
    BY <2>1 DEF TruthInv, OrderTruth, ReconciledTruly, SentOrders, OpenOrders, TerminalOrders
  <2> QED
    BY <2>1, <2>2 DEF TruthInv, OrderTruth, ClaimTruth, ReplyTruth, At
<1>4. ASSUME NEW p \in Packages, ExchangeMoves(p) PROVE TruthInv'
  <2>1. /\ UNCHANGED <<claim, order, submitted, booked, calls, session>>
        /\ exch[p] \in {"in_flight", "live"} /\ exch'[p] # "none"
        /\ \A q \in Packages \ {p} : exch'[q] = exch[q]
    BY <1>4 DEF ExchangeMoves, rows, TypeOK
  <2>2. OrderTruth(p)' /\ ClaimTruth(p)'
    BY <2>1 DEF TruthInv, OrderTruth, ClaimTruth
  <2>3. \A w \in Workers : ReplyTruth(w)'
    <3> SUFFICES ASSUME NEW w \in Workers PROVE ReplyTruth(w)'
      OBVIOUS
    <3>1. At(w, "record") => session[w].pkg \in Packages
      BY BusyPackage DEF At, Idle
    <3> QED
      BY <2>1, <3>1 DEF TruthInv, ReplyTruth, At
  <2> QED
    BY <2>1, <2>2, <2>3 DEF TruthInv, OrderTruth, ClaimTruth
<1>5. CASE \/ \E p \in Packages : ActivationLapses(p)
           \/ ToggleKillSwitch \/ Redeploy \/ UNCHANGED vars
  <2>1. UNCHANGED <<claim, order, submitted, booked, exch, calls, session>>
    BY <1>5 DEF ActivationLapses, ToggleKillSwitch, Redeploy, vars, rows, world
  <2> QED
    BY <2>1 DEF TruthInv, OrderTruth, ClaimTruth, ReplyTruth, At
<1> QED
  BY <1>1, <1>2, <1>3, <1>4, <1>5 DEF Next

\* No order is known to the exchange at first.
LEMMA InitTruthInv == Init => TruthInv
BY DEF Init, IdleSession, TruthInv, OrderTruth, ClaimTruth, ReplyTruth, At

\* With one worker and no lag of the fill list, a claim recorded as executed
\* was executed and one recorded as cancelled was not, whatever crashes,
\* reconciliations, vetoes and repeated drives came in between
\* (release_execution_claim_scope_if_order_resolved).  The run
\* lagging_fills_cancel shows that the hypothesis on the lag is needed.
THEOREM OutcomeIsTrue ==
  ASSUME OneWorker, "lag" \notin Stresses
  PROVE  Spec => []ClaimOutcomeIsTrue
<1>1. TruthInv => ClaimOutcomeIsTrue
  BY DEF TruthInv, ClaimTruth, ClaimOutcomeIsTrue
<1>2. TypeOK /\ AttemptInv /\ [Next]_vars => AttemptInv'
  BY NextAttemptInv
<1>3. TypeOK /\ AttemptInv /\ TruthInv /\ [Next]_vars => TruthInv'
  BY NextTruthInv
<1> QED
  BY <1>1, <1>2, <1>3, InitAttemptInv, InitTruthInv, TypeCorrect, PTL DEF Spec

-----------------------------------------------------------------------------
(* One order at stake.                                                      *)

\* What the accounting does not show yet of an order, or may not show soon.
Unaccounted(p) == exch[p] \in {"in_flight", "live"} \/ (Executed(p) /\ ~booked[p])

\* A package whose claim holds the scope, or whose order is still open or
\* unbooked although its claim was released.
AtStake(p) == Unaccounted(p) \/ claim[p] \in NonterminalClaims

OneAtStake == \A p, q \in Packages : AtStake(p) /\ AtStake(q) => p = q

\* What claim_activated_package requires of the other packages.
LEMMA ClaimGate ==
  ASSUME TypeOK, AttemptInv, TruthInv, NEW w \in Workers, NEW p \in Packages, ClaimPackage(w, p)
  PROVE  \A q \in Packages \ {p} : ~AtStake(q)
<1>1. PICK ord \in RecoveredOrders : ClaimAllowed(p, ord)
  BY DEF ClaimPackage
<1>2. SUFFICES ASSUME NEW q \in Packages \ {p}, Unaccounted(q) PROVE FALSE
  BY <1>1 DEF ClaimAllowed, ScopeFree, AtStake
<1>3. OrderTruth(q) /\ exch[q] # "none"
  BY <1>2 DEF TruthInv, Unaccounted, Executed
<1>4. submitted[q]
  BY <1>3 DEF OrderTruth, AttemptInv, CallsRecorded
<1>5. ord[q] = order[q]
  BY <1>4 DEF RecoveredOrders, Recoverable, TypeOK
<1>6. order[q] \notin OpenOrders
  BY <1>1, <1>5 DEF ClaimAllowed
<1> QED
  BY <1>2, <1>3, <1>4, <1>6 DEF OrderTruth, SentOrders, TerminalOrders, Unaccounted, Executed

\* An attempt is about a package that has a claim.
AttemptsClaimed == \A w \in Workers : ~Idle(w) => session[w].claim # "NONE"

\* An attempt begins with a claim and only moves it forward.
LEMMA NextAttemptsClaimed ==
  ASSUME OneWorker, TypeOK, AttemptInv, AttemptsClaimed, [Next]_vars
  PROVE  AttemptsClaimed'
<1>1. ASSUME NEW w \in Workers, Attempt(w) \/ Crash(w) PROVE AttemptsClaimed'
  <2>1. ~Idle(w)
    BY <1>1, AttemptFrame
  <2>2. CASE ExecuteRefused(w) \/ SubmitRefused(w) \/ Fail(w) \/ Conclude(w) \/ Crash(w)
    <3>1. EndAttempt(w)
      BY <2>2 DEF ExecuteRefused, SubmitRefused, Fail, Blocked, Conclude, Crash
    <3>2. session'[w].pc = "idle"
      BY <3>1 DEF EndAttempt, IdleSession, TypeOK
    <3> QED
      BY <3>2 DEF AttemptsClaimed, Idle, OneWorker
  <2>3. CASE \/ ExecuteReplayed(w) \/ ExecuteVetoed(w) \/ ExecuteRecorded(w) \/ SubmitExisting(w)
             \/ SubmitExpired(w) \/ SubmitStarted(w) \/ CallProvider(w) \/ CallNotSent(w)
             \/ RecordRejected(w) \/ RecordAmbiguous(w) \/ RecordAccepted(w) \/ Settle(w)
    <3>1. session'[w].claim \in {session[w].claim, "SUBMISSION_PENDING", "CANCELLED"}
      BY <2>3, AttemptMoves DEF MovesTo, CallProvider
    <3> QED
      BY <2>1, <3>1 DEF AttemptsClaimed, OneWorker
  <2> QED
    BY <1>1, <2>2, <2>3 DEF Attempt
<1>2. ASSUME NEW w \in Workers, NEW p \in Packages,
             \/ ClaimPackage(w, p) \/ ClaimBlocked(w, p) \/ Redrive(w, p) \/ Sweep(w, p)
             \/ Release(w, p)
      PROVE  AttemptsClaimed'
  <2>1. PreparedUnsubmitted /\ "CLAIMED" \in NonterminalClaims
    BY DEF AttemptInv, NonterminalClaims
  <2>2. session' = session \/ session'[w].claim # "NONE"
    BY <1>2, <2>1, ClaimCases DEF Advanced, Begins, ReleasedWithOrder, NonterminalClaims
  <2> QED
    BY <2>2 DEF AttemptsClaimed, Idle, OneWorker
<1>3. ASSUME session' = session PROVE AttemptsClaimed'
  BY <1>3 DEF AttemptsClaimed, Idle
<1>4. ASSUME NEW p \in Packages, Reconcile(p) PROVE session' = session
  BY <1>4, ReconcileOutcome
<1>5. CASE \/ \E p \in Packages : ExchangeMoves(p) \/ ActivationLapses(p)
           \/ ToggleKillSwitch \/ Redeploy \/ UNCHANGED vars
  BY <1>3, <1>5 DEF ExchangeMoves, ActivationLapses, ToggleKillSwitch, Redeploy, vars
<1> QED
  BY <1>1, <1>2, <1>3, <1>4, <1>5 DEF Next

\* Nothing but a new claim puts a package at stake.
LEMMA StakeShrinks ==
  ASSUME OneWorker, TypeOK, AttemptInv, TruthInv, AttemptsClaimed, [Next]_vars,
         NEW q \in Packages, AtStake(q)', ~AtStake(q)
  PROVE  \E w \in Workers : ClaimPackage(w, q)
<1>1. /\ claim[q] \notin NonterminalClaims /\ exch[q] \notin {"in_flight", "live"}
      /\ Executed(q) => booked[q]
  BY DEF AtStake, Unaccounted
<1>2. ASSUME claim'[q] \notin NonterminalClaims, exch'[q] = exch[q], booked[q] => booked'[q] PROVE FALSE
  BY <1>1, <1>2 DEF AtStake, Unaccounted, Executed
<1>3. ASSUME NEW w \in Workers, Attempt(w) \/ Crash(w) PROVE FALSE
  <2>1. PICK p \in Packages : p = session[w].pkg
    BY <1>3, AttemptFrame
  <2>2. /\ ~Idle(w) /\ AttemptCurrent(w) /\ booked' = booked
        /\ \A r \in Packages \ {p} : Untouched(r)
    BY <1>3, <2>1, AttemptFrame DEF AttemptInv
  <2>3. q = p
    BY <1>1, <1>2, <2>2 DEF Untouched
  <2>4. session[w].pc \notin BeforeReply
    BY <1>1, <2>1, <2>2, <2>3 DEF AttemptCurrent
  <2>5. Settle(w) \/ Conclude(w) \/ Crash(w)
    BY <1>3, <2>4 DEF Attempt, BeforeReply, At, Fail, ExecuteReplayed, ExecuteVetoed, ExecuteRecorded,
       ExecuteRefused, SubmitRefused, SubmitExisting, SubmitExpired, SubmitStarted, CallProvider,
       CallAnswered, CallNotSent, RecordRejected, RecordAmbiguous, RecordAccepted
  <2>6. exch' = exch
    BY <2>5 DEF Settle, Conclude, Crash, world
  <2>7. claim'[q] = claim[q]
    <3>1. CASE Settle(w) \/ Crash(w)
      BY <3>1 DEF Settle, Crash, rows
    <3>2. CASE Conclude(w)
      <4>1. session[w].claim \in ReleasedClaims
        BY <1>1, <2>1, <2>2, <2>3 DEF AttemptCurrent, AttemptsClaimed, TypeOK, ClaimStates
      <4> QED
        BY <3>2, <4>1 DEF Conclude
    <3> QED
      BY <2>5, <3>1, <3>2
  <2> QED
    BY <1>1, <1>2, <2>2, <2>6, <2>7
<1>4. ASSUME NEW w \in Workers, NEW p \in Packages,
             \/ ClaimPackage(w, p) \/ ClaimBlocked(w, p) \/ Redrive(w, p) \/ Sweep(w, p)
             \/ Release(w, p)
      PROVE  \E v \in Workers : ClaimPackage(v, q)
  <2>1. PreparedUnsubmitted
    BY DEF AttemptInv
  <2>2. UNCHANGED <<exch, booked>> /\ \A r \in Packages \ {p} : claim'[r] = claim[r]
    BY <1>4, <2>1, ClaimCases
  <2>3. claim'[q] \in NonterminalClaims /\ q = p
    BY <1>1, <1>2, <2>2
  <2> QED
    BY <1>1, <1>4, <2>1, <2>3, ClaimCases DEF ReleasedWithOrder
<1>5. ASSUME NEW p \in Packages, Reconcile(p) PROVE FALSE
  BY <1>1, <1>2, <1>5, ReconcileOutcome
<1>6. ASSUME NEW p \in Packages, ExchangeMoves(p) PROVE FALSE
  <2>1. UNCHANGED <<claim, booked>> /\ exch[p] \in {"in_flight", "live"}
        /\ \A r \in Packages \ {p} : exch'[r] = exch[r]
    BY <1>6 DEF ExchangeMoves, rows, TypeOK
  <2> QED
    BY <1>1, <1>2, <2>1
<1>7. ASSUME \/ \E p \in Packages : ActivationLapses(p)
             \/ ToggleKillSwitch \/ Redeploy \/ UNCHANGED vars
      PROVE  FALSE
  BY <1>1, <1>2, <1>7 DEF ActivationLapses, ToggleKillSwitch, Redeploy, vars, rows, world
<1> QED
  BY <1>3, <1>4, <1>5, <1>6, <1>7 DEF Next

\* One package at most is at stake: a claim is only made when no other claim
\* holds the scope and no order of another is open.
LEMMA NextOneAtStake ==
  ASSUME OneWorker, TypeOK, AttemptInv, TruthInv, AttemptsClaimed, OneAtStake, [Next]_vars
  PROVE  OneAtStake'
<1> SUFFICES ASSUME NEW p \in Packages, NEW q \in Packages, AtStake(p)', AtStake(q)', p # q
             PROVE  FALSE
  BY DEF OneAtStake
<1>1. ASSUME NEW r \in Packages, NEW w \in Workers, ClaimPackage(w, r), NEW o \in Packages \ {r},
             AtStake(o)'
      PROVE  FALSE
  <2>1. ~AtStake(o)
    BY <1>1, ClaimGate
  <2>2. PreparedUnsubmitted
    BY DEF AttemptInv
  <2>3. UNCHANGED <<exch, booked>> /\ claim'[o] = claim[o]
    BY <1>1, <2>2, ClaimCases
  <2> QED
    BY <1>1, <2>1, <2>3 DEF AtStake, Unaccounted, Executed
<1>2. AtStake(p) /\ AtStake(q)
  BY <1>1, StakeShrinks
<1> QED
  BY <1>2 DEF OneAtStake

-----------------------------------------------------------------------------
(* The exposure.                                                            *)

Exposure == Cardinality({p \in Buys : Executed(p)})
            - Cardinality({p \in Packages \ Buys : Executed(p)})

\* The exposure the execution of p starts from.
Room(p) == Exposure = (IF p \in Buys THEN 0 ELSE 1)

\* The attempt may still send its order for the first time.
Sendable(w) ==
  \/ At(w, "call")
  \/ session[w].pc \in {"execute", "submit"} /\ session[w].order = "PENDING_CONFIRMATION"

RoomInv ==
  /\ Exposure \in 0..1
  /\ \A p \in Packages : exch[p] \in {"in_flight", "live"} => Room(p)
  /\ \A w \in Workers : Sendable(w) => Room(session[w].pkg)

\* The sets counted by the exposure and by the ownership gate are finite.
LEMMA CountedFinite ==
  ASSUME NEW S \in SUBSET Packages
  PROVE  IsFiniteSet(S) /\ Cardinality(S) \in Nat
BY PackagesAssumption, FS_Subset, FS_CardinalityType

\* The owned quantity the gates compute is the real exposure once every
\* executed order is booked.
LEMMA OwnedIsExposure ==
  ASSUME TruthInv, \A q \in Packages : Executed(q) => booked[q]
  PROVE  Owned = Exposure
<1>1. {p \in Buys : booked[p]} = {p \in Buys : Executed(p)}
  BY BuysAssumption DEF TruthInv, OrderTruth, Executed
<1>2. {p \in Packages \ Buys : booked[p] /\ exch[p] = "filled"} = {p \in Packages \ Buys : Executed(p)}
  BY DEF Executed
<1> QED
  BY <1>1, <1>2 DEF Owned, Exposure

\* The exposure changes only when an order is executed.
LEMMA ExposureKept ==
  ASSUME \A q \in Packages : Executed(q)' <=> Executed(q)
  PROVE  Exposure' = Exposure
<1>1. /\ {p \in Buys : Executed(p)'} = {p \in Buys : Executed(p)}
      /\ {p \in Packages \ Buys : Executed(p)'} = {p \in Packages \ Buys : Executed(p)}
  BY BuysAssumption
<1> QED
  BY <1>1 DEF Exposure

\* Executing an order adds one position or closes one.
LEMMA ExposureMoves ==
  ASSUME NEW p \in Packages, ~Executed(p), Executed(p)',
         \A q \in Packages \ {p} : Executed(q)' <=> Executed(q),
         Room(p)
  PROVE  Exposure' \in 0..1
<1> DEFINE B == {q \in Buys : Executed(q)}
           S == {q \in Packages \ Buys : Executed(q)}
<1>0. B \in SUBSET Packages /\ S \in SUBSET Packages /\ p \notin B /\ p \notin S
  BY BuysAssumption
<1>1. CASE p \in Buys
  <2>1. B' = B \cup {p} /\ S' = S
    BY <1>1, BuysAssumption
  <2>2. Cardinality(B') = Cardinality(B) + 1 /\ Cardinality(S') = Cardinality(S)
    BY <1>0, <2>1, CountedFinite, FS_AddElement
  <2>3. Cardinality(B) - Cardinality(S) = 0
    BY <1>1 DEF Room, Exposure
  <2>4. Exposure' = Cardinality(B') - Cardinality(S')
    BY DEF Exposure
  <2> HIDE DEF B, S
  <2> QED
    BY <1>0, <2>2, <2>3, <2>4, CountedFinite
<1>2. CASE p \notin Buys
  <2>1. S' = S \cup {p} /\ B' = B
    BY <1>2, BuysAssumption
  <2>2. Cardinality(S') = Cardinality(S) + 1 /\ Cardinality(B') = Cardinality(B)
    BY <1>0, <2>1, CountedFinite, FS_AddElement
  <2>3. Cardinality(B) - Cardinality(S) = 1
    BY <1>2 DEF Room, Exposure
  <2>4. Exposure' = Cardinality(B') - Cardinality(S')
    BY DEF Exposure
  <2> HIDE DEF B, S
  <2> QED
    BY <1>0, <2>2, <2>3, <2>4, CountedFinite
<1> QED
  BY <1>1, <1>2

\* An attempt that may send its order has the scope, and the exchange does not
\* know the order yet.
LEMMA SendableUnsent ==
  ASSUME TypeOK, AttemptInv, TruthInv, NEW w \in Workers, Sendable(w)
  PROVE  /\ session[w].pkg \in Packages
         /\ AtStake(session[w].pkg)
         /\ exch[session[w].pkg] = "none"
<1>1. ~Idle(w) /\ session[w].pkg \in Packages /\ AttemptCurrent(w)
  BY BusyPackage DEF Sendable, At, Idle, AttemptInv
<1>2. claim[session[w].pkg] \in NonterminalClaims
  BY <1>1 DEF Sendable, At, AttemptCurrent, BeforeReply
<1>3. calls[session[w].pkg] = 0
  BY <1>1 DEF Sendable, At, AttemptCurrent, AttemptInv, CallsRecorded, PreparedUnsubmitted
<1> QED
  BY <1>1, <1>2, <1>3 DEF AtStake, TruthInv, OrderTruth

\* When nothing is executed, the exposure bound is kept if the attempts keep
\* their room and no order goes out without it.
LEMMA RoomKept ==
  ASSUME RoomInv, \A q \in Packages : Executed(q)' <=> Executed(q),
         \A q \in Packages : exch'[q] \in {"in_flight", "live"} =>
                               exch[q] \in {"in_flight", "live"} \/ Room(q),
         \A w \in Workers : Sendable(w)' => Room(session'[w].pkg)
  PROVE  RoomInv'
<1>1. Exposure' = Exposure
  BY ExposureKept
<1>2. ASSUME NEW q, Room(q) PROVE Room(q)'
  BY <1>1, <1>2 DEF Room
<1>3. ASSUME NEW w \in Workers, Room(session'[w].pkg)
      PROVE  (Exposure' = (IF session'[w].pkg \in Buys THEN 0 ELSE 1))
  BY <1>1, <1>3 DEF Room
<1> QED
  BY <1>1, <1>2, <1>3 DEF RoomInv, Room

\* A worker prepares an order with no other order at stake, so the ownership
\* gate sees the real exposure.
LEMMA PreparedWithRoom ==
  ASSUME TypeOK, AttemptInv, TruthInv, RoomInv, NEW p \in Packages, NEW c,
         CanPrepare(p, c), ~submitted[p], \A q \in Packages \ {p} : ~AtStake(q)
  PROVE  Room(p)
<1>1. exch[p] = "none"
  BY DEF AttemptInv, CallsRecorded, TruthInv, OrderTruth
<1>2. \A q \in Packages : Executed(q) => booked[q]
  BY <1>1 DEF AtStake, Unaccounted, Executed
<1>3. Owned = Exposure /\ Exposure \in 0..1
  BY <1>2, OwnedIsExposure DEF RoomInv
<1>4. IF p \in Buys THEN Owned <= 0 ELSE Owned > 0
  BY DEF CanPrepare, OwnershipAllows
<1> QED
  BY <1>3, <1>4 DEF Room

\* The steps of an attempt.
LEMMA AttemptRoom ==
  ASSUME OneWorker, TypeOK, AttemptInv, TruthInv, RoomInv, NEW w \in Workers, Attempt(w) \/ Crash(w)
  PROVE  RoomInv'
<1>1. ASSUME exch' = exch, Sendable(w)' => Sendable(w) /\ session'[w].pkg = session[w].pkg
      PROVE  RoomInv'
  <2>1. \A v \in Workers : Sendable(v)' => Room(session'[v].pkg)
    BY <1>1 DEF RoomInv, OneWorker
  <2>2. \A q \in Packages : Executed(q)' <=> Executed(q)
    BY <1>1 DEF Executed
  <2> QED
    BY <1>1, <2>1, <2>2, RoomKept
<1>2. CASE CallProvider(w)
  <2>1. PICK p, reply, arrival :
          /\ p \in Packages
          /\ p = session[w].pkg /\ CallAnswered(w, reply, arrival)
          /\ arrival \in {"live", "in_flight", exch[p]}
    BY <1>2, AttemptFrame DEF Attempt, CallProvider
  <2>2. /\ Sendable(w) /\ exch' = [exch EXCEPT ![p] = arrival]
    BY <2>1 DEF CallAnswered, Sendable
  <2>3. exch[p] = "none" /\ Room(p)
    BY <2>1, <2>2, SendableUnsent DEF RoomInv
  <2>4. session'[w].pc = "record"
    BY <2>1, AttemptMoves DEF MovesTo
  <2>5. \A v \in Workers : ~Sendable(v)'
    BY <2>4 DEF Sendable, At, OneWorker
  <2>6. \A q \in Packages : Executed(q)' <=> Executed(q)
    BY <2>1, <2>2, <2>3 DEF Executed, TypeOK
  <2>7. \A q \in Packages : exch'[q] \in {"in_flight", "live"} =>
                              exch[q] \in {"in_flight", "live"} \/ Room(q)
    BY <2>2, <2>3 DEF TypeOK
  <2> QED
    BY <2>5, <2>6, <2>7, RoomKept
<1>3. CASE ExecuteRefused(w) \/ SubmitRefused(w) \/ Fail(w) \/ Conclude(w) \/ Crash(w)
  <2>1. EndAttempt(w) /\ exch' = exch
    BY <1>3 DEF ExecuteRefused, SubmitRefused, Fail, Blocked, Conclude, Crash, world
  <2>2. session'[w].pc = "idle"
    BY <2>1 DEF EndAttempt, IdleSession, TypeOK
  <2> QED
    BY <1>1, <2>1, <2>2 DEF Sendable, At
<1>4. CASE ExecuteRecorded(w) \/ SubmitStarted(w)
  <2>1. /\ exch' = exch /\ session'[w].pkg = session[w].pkg
        /\ \/ At(w, "execute") /\ session'[w].order = session[w].order /\ session'[w].pc = "submit"
           \/ At(w, "submit") /\ session[w].order = "PENDING_CONFIRMATION"
    BY <1>4, AttemptMoves DEF ExecuteRecorded, SubmitStarted, world, MovesTo
  <2> QED
    BY <1>1, <2>1 DEF Sendable, At
<1>5. CASE \/ ExecuteReplayed(w) \/ ExecuteVetoed(w) \/ SubmitExisting(w) \/ SubmitExpired(w)
           \/ CallNotSent(w) \/ RecordRejected(w) \/ RecordAmbiguous(w) \/ RecordAccepted(w)
           \/ Settle(w)
  <2>1. exch' = exch
    BY <1>5 DEF ExecuteReplayed, ExecuteVetoed, SubmitExisting, SubmitExpired, CallNotSent,
       RecordRejected, RecordAmbiguous, RecordAccepted, Settle, world
  <2>2. session'[w].pc \in {"tail", "settle", "failing"}
    BY <1>5, AttemptMoves DEF MovesTo
  <2> QED
    BY <1>1, <2>1, <2>2 DEF Sendable, At
<1> QED
  BY <1>2, <1>3, <1>4, <1>5 DEF Attempt

\* Between attempts: an attempt begins with room for its execution.
LEMMA ClaimRoom ==
  ASSUME OneWorker, TypeOK, AttemptInv, TruthInv, OneAtStake, RoomInv,
         NEW w \in Workers, NEW p \in Packages,
         \/ ClaimPackage(w, p) \/ ClaimBlocked(w, p) \/ Redrive(w, p) \/ Sweep(w, p)
         \/ Release(w, p)
  PROVE  RoomInv'
<1>1. PreparedUnsubmitted
  BY DEF AttemptInv
<1>2. exch' = exch
  BY <1>1, ClaimCases
<1>3. \A q \in Packages : Executed(q)' <=> Executed(q)
  BY <1>2 DEF Executed
<1>4. ASSUME Sendable(w)' PROVE Room(session'[w].pkg)
  <2>1. CASE session' = session
    BY <1>4, <2>1 DEF RoomInv, Sendable, At
  <2>2. ASSUME NEW c, Advanced(w, p, c), session' # session, \A q \in Packages \ {p} : ~AtStake(q)
        PROVE  Room(session'[w].pkg)
    <3>1. CanPrepare(p, c) /\ session'[w].pkg = p /\ session'[w].order = order'[p]
          /\ session'[w].pc = "execute"
          /\ order'[p] = IF order[p] = "DRY_RUN_READY" THEN "PENDING_CONFIRMATION" ELSE order[p]
      BY <2>2 DEF Advanced, Begins
    <3>2. order[p] \in {"DRY_RUN_READY", "PENDING_CONFIRMATION"}
      BY <1>4, <3>1 DEF Sendable, At
    <3>3. ~submitted[p]
      BY <1>1, <3>2 DEF PreparedUnsubmitted
    <3> QED
      BY <2>2, <3>1, <3>3, PreparedWithRoom
  <2>3. CASE ClaimPackage(w, p) /\ Advanced(w, p, "CLAIMED")
    BY <2>1, <2>2, <2>3, ClaimGate
  <2>4. CASE claim[p] \in NonterminalClaims /\ Advanced(w, p, claim[p])
    <3>1. \A q \in Packages \ {p} : ~AtStake(q)
      BY <2>4 DEF OneAtStake, AtStake
    <3> QED
      BY <2>1, <2>2, <2>4, <3>1
  <2> QED
    BY <1>1, <2>1, <2>3, <2>4, ClaimCases DEF ReleasedWithOrder
<1>5. \A v \in Workers : Sendable(v)' => Room(session'[v].pkg)
  BY <1>4 DEF OneWorker
<1> QED
  BY <1>2, <1>3, <1>5, RoomKept

\* The exchange executes the one order at stake, which had room for it.
LEMMA ExchangeRoom ==
  ASSUME TypeOK, AttemptInv, TruthInv, OneAtStake, RoomInv, NEW p \in Packages, ExchangeMoves(p)
  PROVE  RoomInv'
<1>1. /\ session' = session /\ \A q \in Packages \ {p} : exch'[q] = exch[q]
      /\ exch[p] \in {"in_flight", "live"}
      /\ exch'[p] = "live" \/ (exch[p] = "live" /\ exch'[p] \in {"filled", "closed", "partly_filled"})
  BY DEF ExchangeMoves, TypeOK
<1>2. Room(p) /\ ~Executed(p)
  BY <1>1 DEF RoomInv, Executed
<1>3. \A q \in Packages \ {p} : (Executed(q)' <=> Executed(q)) /\ exch[q] \notin {"in_flight", "live"}
  BY <1>1 DEF OneAtStake, AtStake, Unaccounted, Executed
<1>4. \A w \in Workers : ~Sendable(w)
  BY <1>1, SendableUnsent DEF OneAtStake, AtStake, Unaccounted
<1>5. \A w \in Workers : ~Sendable(w)'
  BY <1>1, <1>4 DEF Sendable, At
<1>6. CASE Executed(p)'
  <2>1. Exposure' \in 0..1
    BY <1>2, <1>3, <1>6, ExposureMoves
  <2>2. \A q \in Packages : exch'[q] \notin {"in_flight", "live"}
    BY <1>1, <1>3, <1>6 DEF Executed
  <2> QED
    BY <1>5, <2>1, <2>2 DEF RoomInv
<1>7. CASE ~Executed(p)'
  BY <1>1, <1>2, <1>3, <1>5, <1>7, RoomKept
<1> QED
  BY <1>6, <1>7

\* RoomInv is inductive with the invariants above.
LEMMA NextRoomInv ==
  ASSUME OneWorker, TypeOK, AttemptInv, TruthInv, OneAtStake, RoomInv, [Next]_vars
  PROVE  RoomInv'
<1>1. ASSUME NEW w \in Workers, Attempt(w) \/ Crash(w) PROVE RoomInv'
  BY <1>1, AttemptRoom
<1>2. ASSUME NEW w \in Workers, NEW p \in Packages,
             \/ ClaimPackage(w, p) \/ ClaimBlocked(w, p) \/ Redrive(w, p) \/ Sweep(w, p)
             \/ Release(w, p)
      PROVE  RoomInv'
  BY <1>2, ClaimRoom
<1>3. ASSUME NEW p \in Packages, ExchangeMoves(p) PROVE RoomInv'
  BY <1>3, ExchangeRoom
<1>4. ASSUME UNCHANGED <<exch, session>> PROVE RoomInv'
  <2>1. \A q \in Packages : Executed(q)' <=> Executed(q)
    BY <1>4 DEF Executed
  <2>2. \A w \in Workers : Sendable(w)' => Room(session'[w].pkg)
    BY <1>4 DEF RoomInv, Sendable, At
  <2> QED
    BY <1>4, <2>1, <2>2, RoomKept
<1>5. ASSUME NEW p \in Packages, Reconcile(p) PROVE UNCHANGED <<exch, session>>
  BY <1>5, ReconcileOutcome
<1>6. CASE \/ \E p \in Packages : ActivationLapses(p)
           \/ ToggleKillSwitch \/ Redeploy \/ UNCHANGED vars
  BY <1>4, <1>6 DEF ActivationLapses, ToggleKillSwitch, Redeploy, vars, world
<1> QED
  BY <1>1, <1>2, <1>3, <1>4, <1>5, <1>6 DEF Next

\* Nothing is executed at first, and one claim at most is left over.
LEMMA InitRoomInv == Init => AttemptsClaimed /\ OneAtStake /\ RoomInv
<1> SUFFICES ASSUME Init PROVE AttemptsClaimed /\ OneAtStake /\ RoomInv
  OBVIOUS
<1>1. \A p \in Packages : exch[p] = "none" /\ ~Executed(p) /\ ~Unaccounted(p)
  BY DEF Init, Executed, Unaccounted
<1>2. \A w \in Workers : Idle(w) /\ ~Sendable(w)
  BY DEF Init, IdleSession, Idle, Sendable, At
<1>3. OneAtStake
  BY <1>1, InitScope DEF OneAtStake, AtStake, OneScopeHolder
<1>4. {p \in Buys : Executed(p)} = {} /\ {p \in Packages \ Buys : Executed(p)} = {}
  BY <1>1, BuysAssumption
<1>5. Exposure = 0
  BY <1>4, FS_EmptySet DEF Exposure
<1> QED
  BY <1>1, <1>2, <1>3, <1>5 DEF AttemptsClaimed, RoomInv

\* With one worker and no lag of the fill list, what was really executed
\* never exceeds one position and never goes short, although the gates only
\* see the booked part of it (claim_activated_package,
\* prepare_autonomous_claimed_order): one order at most is at stake, and it
\* was prepared when everything executed before was booked.
THEOREM ExposureBounded ==
  ASSUME OneWorker, "lag" \notin Stresses
  PROVE  Spec => []ExposureBound
<1> DEFINE Inv == AttemptInv /\ TruthInv /\ AttemptsClaimed /\ OneAtStake /\ RoomInv
<1>1. Init => Inv
  BY InitAttemptInv, InitTruthInv, InitRoomInv
<1>2. TypeOK /\ Inv /\ [Next]_vars => Inv'
  BY NextAttemptInv, NextTruthInv, NextAttemptsClaimed, NextOneAtStake, NextRoomInv
<1>3. Inv => ExposureBound
  BY DEF RoomInv, Exposure, ExposureBound
<1> HIDE DEF Inv
<1> QED
  BY <1>1, <1>2, <1>3, TypeCorrect, PTL DEF Spec

=============================================================================
