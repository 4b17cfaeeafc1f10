--------------------- MODULE OrderReconciliationProofs ---------------------
(***************************************************************************)
(* One order under reconciliation, for any number of fills, of overlapping *)
(* passes and of anomalies: what is booked and recorded never runs ahead   *)
(* of the exchange, and the module implements OrderOutcome.  The thread of *)
(* the argument is that an answer is a fact about the exchange when it is  *)
(* read, and that facts about a decided order do not age.                  *)
(***************************************************************************)
EXTENDS OrderReconciliation, FiniteSetTheorems, TLAPS

Undecided == {"none", "live"}
\* Fills that were executed may pass for the whole order.
Undersized == executed # {} /\ origin.size < FillCount
Unexecuted == exch \in {"canceled", "closed"} /\ executed = {}

\* Fills come one after the other and the last one closes the order.
FillsInOrder ==
  /\ \E n \in 0..FillCount : executed = 1..n
  /\ exch = "none" => executed = {}
  /\ exch = "live" => executed # Fills
  /\ exch = "filled" => executed = Fills

\* What a final answer says of the exchange.
AnswerHolds(answer) ==
  /\ answer = "filled" => exch = "filled" \/ Unexecuted
  /\ answer = "canceled" => exch = "canceled"
AnswersHold == \A r \in Reconcilers : pass[r].active => AnswerHolds(pass[r].answer)

\* What a terminal status says of the exchange and, unless the fill lists may
\* lag, of the books.
StatusHolds(st) ==
  /\ st = "FILLED" => exch = "filled"
  /\ "lag" \notin Anomalies =>
       /\ st = "FILLED" => Booked = Fills
       /\ st \in {"CANCELLED", "REJECTED"} => Unexecuted
StatusesHold ==
  /\ StatusHolds(status)
  /\ \A r \in Reconcilers : pass[r].active => StatusHolds(pass[r].loaded)

\* What the verdict on the claim says of the exchange.
VerdictHolds ==
  /\ claim = "executed" => exch = "filled"
  /\ "lag" \notin Anomalies /\ claim = "unexecuted" => Unexecuted

OrderInv ==
  /\ TypeOK /\ FillsInOrder /\ BookedOnce
  /\ AnswersHold /\ StatusesHold /\ VerdictHolds
  /\ GuardClosedWhileUndecided

\* One pass at a time: what it loaded is still the order's status.
LoadedIsCurrent == \A r \in Reconcilers : pass[r].active =>
  pass[r].loaded = status /\ (pass[r].answer = "identity" => "identity" \in Anomalies)

-----------------------------------------------------------------------------
(* The exchange.                                                            *)

USE FillCountAssumption, SizesAssumption, SchedulersAssumption, AnomaliesAssumption

\* A submitted order is live or lost, with nothing executed, booked or known.
LEMMA InitInv == Init => OrderInv
<1> SUFFICES ASSUME Init PROVE OrderInv
  OBVIOUS
<1>1. executed = 1..0 /\ 0 \in 0..FillCount /\ executed # Fills
  <2>1. 1 \in Fills /\ 1..0 = {}
    BY DEF Fills
  <2> QED
    BY <2>1 DEF Init
<1>2. TypeOK
  BY DEF Init, TypeOK, NoPass, OrderStates, TerminalOrders, Answers
<1>3. FillsInOrder
  BY <1>1 DEF Init, FillsInOrder
<1>4. BookedOnce
  BY DEF Init, BookedOnce
<1>5. AnswersHold /\ StatusesHold /\ VerdictHolds /\ GuardClosedWhileUndecided
  BY DEF Init, AnswersHold, StatusesHold, StatusHolds, VerdictHolds, GuardClosedWhileUndecided, NoPass
<1> QED
  BY <1>2, <1>3, <1>4, <1>5 DEF OrderInv

\* The next fill is the one after the last, and exists while the order is live.
LEMMA NextFill ==
  ASSUME FillsInOrder, exch = "live"
  PROVE  \E n \in 1..FillCount : /\ executed = 1..(n - 1)
                                 /\ executed \cup {Cardinality(executed) + 1} = 1..n
<1>1. PICK m \in 0..FillCount : executed = 1..m
  BY DEF FillsInOrder
<1>2. m # FillCount
  BY <1>1 DEF FillsInOrder, Fills
<1>3. Cardinality(executed) = m
  BY <1>1, FS_Interval
<1>4. m + 1 \in 1..FillCount /\ executed = 1..((m + 1) - 1)
  BY <1>1, <1>2
<1>5. executed \cup {m + 1} = 1..(m + 1)
  BY <1>1
<1> QED
  BY <1>3, <1>4, <1>5

\* What holds of the exchange keeps holding while the order is filled or closed.
LEMMA ExchangeInv ==
  ASSUME OrderInv, Fill \/ Close
  PROVE  OrderInv'
<1>1. CASE Fill
  <2>1. PICK n \in 1..FillCount : executed = 1..(n - 1) /\ executed' = 1..n
    BY <1>1, NextFill DEF Fill, OrderInv
  <2>2. n \in 0..FillCount /\ executed \subseteq executed' /\ executed' # {}
    <3>1. 1..(n - 1) \subseteq 1..n /\ n \in 1..n
      OBVIOUS
    <3>2. n \in 0..FillCount
      OBVIOUS
    <3> QED
      BY <2>1, <3>1, <3>2, Zenon
  <2>3. exch = "live" /\ exch' = (IF executed' = Fills THEN "filled" ELSE "live")
    BY <1>1 DEF Fill
  <2>4. UNCHANGED <<status, log, booked, claim, balance, origin, pass>>
    BY <1>1 DEF Fill, rows
  <2>5. TypeOK'
    <3>1. executed' \subseteq Fills
      BY <2>1 DEF Fills
    <3> QED
      BY <3>1, <2>3, <2>4 DEF OrderInv, TypeOK
  <2>6. FillsInOrder'
    BY <2>1, <2>2, <2>3 DEF FillsInOrder
  <2>7. BookedOnce'
    BY <2>2, <2>4 DEF OrderInv, BookedOnce
  <2>8. AnswersHold' /\ StatusesHold' /\ VerdictHolds' /\ GuardClosedWhileUndecided'
    BY <2>2, <2>3, <2>4 DEF OrderInv, AnswersHold, AnswerHolds, Unexecuted, StatusesHold, StatusHolds,
                      VerdictHolds, GuardClosedWhileUndecided, Booked
  <2> QED
    BY <2>5, <2>6, <2>7, <2>8 DEF OrderInv
<1>2. CASE Close
  <2>1. exch = "live" /\ exch' \in {"canceled", "closed"}
        /\ UNCHANGED <<executed, status, log, booked, claim, balance, origin, pass>>
    BY <1>2 DEF Close, rows
  <2>2. TypeOK' /\ FillsInOrder' /\ BookedOnce'
    BY <2>1 DEF OrderInv, TypeOK, FillsInOrder, BookedOnce
  <2>3. AnswersHold' /\ StatusesHold' /\ VerdictHolds' /\ GuardClosedWhileUndecided'
    BY <2>1 DEF OrderInv, AnswersHold, AnswerHolds, Unexecuted, StatusesHold, StatusHolds,
                VerdictHolds, GuardClosedWhileUndecided, Booked
  <2> QED
    BY <2>2, <2>3 DEF OrderInv
<1> QED
  BY <1>1, <1>2

-----------------------------------------------------------------------------
(* Beginning and ending a pass.                                             *)

\* A step that leaves exchange, books, log, claim and origin alone keeps the invariant
\* when every pass it leaves active, and the status, hold.
LEMMA PassStep ==
  ASSUME OrderInv, TypeOK', UNCHANGED <<exchange, log, booked, claim, origin>>,
         StatusHolds(status)',
         \A r \in Reconcilers : pass'[r].active =>
           AnswerHolds(pass'[r].answer) /\ StatusHolds(pass'[r].loaded)
  PROVE  OrderInv'
BY DEF OrderInv, exchange, FillsInOrder, BookedOnce, AnswersHold, AnswerHolds, StatusesHold,
       StatusHolds, Unexecuted, VerdictHolds, GuardClosedWhileUndecided, Booked

\* A final answer is only given of an order the exchange decided that way.
LEMMA PossibleAnswersHold ==
  ASSUME OrderInv, NEW answer \in PossibleAnswers
  PROVE  answer \in Answers /\ AnswerHolds(answer)
BY DEF OrderInv, TypeOK, PossibleAnswers, TrueAnswer, StaleAnswers, Answers, Statuses, FinalStatuses,
       AnswerHolds, Unexecuted

\* A pass loads the status and takes an answer that holds now.
LEMMA BeginInv ==
  ASSUME OrderInv, NEW r \in Reconcilers, Begin(r)
  PROVE  OrderInv'
<1>1. PICK answer \in PossibleAnswers :
        /\ Start(r, answer, balance') /\ balance' \in [reflects : SUBSET Fills, recent : BOOLEAN]
        /\ UNCHANGED <<exchange, rows, claim, origin>>
  <2>1. PICK answer \in PossibleAnswers : BeginScheduled(r, answer) \/ BeginRequested(r, answer)
    BY DEF Begin
  <2>2. balance' \in {balance, Refreshed, [balance EXCEPT !.recent = TRUE]}
        /\ Start(r, answer, balance') /\ UNCHANGED <<exchange, rows, claim, origin>>
    BY <2>1 DEF BeginScheduled, BeginRequested
  <2>3. balance' \in [reflects : SUBSET Fills, recent : BOOLEAN]
    <3>1. executed \in SUBSET Fills /\ balance \in [reflects : SUBSET Fills, recent : BOOLEAN]
      BY DEF OrderInv, TypeOK
    <3>2. Refreshed \in [reflects : SUBSET Fills, recent : BOOLEAN]
      BY <3>1 DEF Refreshed
    <3>3. [balance EXCEPT !.recent = TRUE] \in [reflects : SUBSET Fills, recent : BOOLEAN]
      BY <3>1
    <3> QED
      BY <2>2, <3>1, <3>2, <3>3
  <2> QED
    BY <2>2, <2>3
<1>2. answer \in Answers /\ AnswerHolds(answer)
  BY PossibleAnswersHold
<1>3. TypeOK'
  BY <1>1, <1>2 DEF Start, OrderInv, TypeOK, exchange, rows
<1>4. \A q \in Reconcilers : pass'[q].active => AnswerHolds(pass'[q].answer) /\ StatusHolds(pass'[q].loaded)
  BY <1>1, <1>2 DEF Start, OrderInv, TypeOK, AnswersHold, StatusesHold
<1>5. StatusHolds(status)'
  BY <1>1 DEF OrderInv, StatusesHold, StatusHolds, Unexecuted, Booked, exchange, rows
<1> QED
  BY <1>1, <1>3, <1>4, <1>5, PassStep DEF rows

\* Snapshots age or are renewed; a pass gives up.
LEMMA OtherPassInv ==
  ASSUME OrderInv,
         \/ BalanceAges \/ RefreshBalances
         \/ \E r \in Reconcilers : Abort(r)
  PROVE  OrderInv'
<1>1. UNCHANGED <<exchange, rows, claim, origin>>
  BY DEF BalanceAges, RefreshBalances, Abort
<1>2. \A q \in Reconcilers : pass'[q].active =>
        pass[q].active /\ pass'[q].answer = pass[q].answer /\ pass'[q].loaded = pass[q].loaded
  BY DEF BalanceAges, RefreshBalances, Abort, EndPass, NoPass, OrderInv, TypeOK
<1>3. TypeOK'
  <2>1. CASE BalanceAges
    BY <1>1, <2>1 DEF BalanceAges, OrderInv, TypeOK, exchange, rows
  <2>2. CASE RefreshBalances
    BY <1>1, <2>2 DEF RefreshBalances, Refreshed, OrderInv, TypeOK, exchange, rows
  <2>3. ASSUME NEW r \in Reconcilers, Abort(r) PROVE TypeOK'
    BY <1>1, <2>3 DEF Abort, EndPass, NoPass, OrderInv, TypeOK, exchange, rows, Answers, OrderStates
  <2> QED
    BY <2>1, <2>2, <2>3
<1>4. \A q \in Reconcilers : pass'[q].active => AnswerHolds(pass'[q].answer) /\ StatusHolds(pass'[q].loaded)
  BY <1>2 DEF OrderInv, AnswersHold, StatusesHold
<1>5. StatusHolds(status)'
  BY <1>1 DEF OrderInv, StatusesHold, StatusHolds, Unexecuted, Booked, exchange, rows
<1> QED
  BY <1>1, <1>3, <1>4, <1>5, PassStep DEF rows

-----------------------------------------------------------------------------
(* Passes that end early.                                                   *)

\* Reaffirming resolves the log of an order that was executed.
LEMMA ReaffirmInv ==
  ASSUME OrderInv, NEW r \in Reconcilers, Reaffirm(r)
  PROVE  OrderInv'
<1>1. /\ pass[r].active /\ pass[r].loaded = "FILLED"
      /\ log' = [log EXCEPT !.latest = "resolved"]
      /\ pass' = [pass EXCEPT ![r] = NoPass]
      /\ UNCHANGED <<exch, executed, status, booked, claim, balance, origin>>
  BY DEF Reaffirm, Resolved, EndPass, exchange
<1>2. exch = "filled"
  BY <1>1 DEF OrderInv, StatusesHold, StatusHolds
<1>3. TypeOK'
  BY <1>1 DEF OrderInv, TypeOK, NoPass, Answers, OrderStates
<1>4. GuardClosedWhileUndecided' /\ FillsInOrder' /\ BookedOnce' /\ VerdictHolds'
  BY <1>1, <1>2 DEF OrderInv, GuardClosedWhileUndecided, FillsInOrder, BookedOnce, VerdictHolds, Unexecuted
<1>5. AnswersHold' /\ StatusesHold'
  BY <1>1 DEF OrderInv, TypeOK, NoPass, AnswersHold, AnswerHolds, StatusesHold, StatusHolds,
              Unexecuted, Booked
<1> QED
  BY <1>3, <1>4, <1>5 DEF OrderInv

\* An unresolved event never resolves the log.
LEMMA NotedKeeps ==
  ASSUME NEW l \in [keys : SUBSET Keys, latest : {"none", "resolved", "unresolved"}], NEW key \in Keys
  PROVE  /\ Noted(l, key) \in [keys : SUBSET Keys, latest : {"none", "resolved", "unresolved"}]
         /\ Noted(l, key).latest = "resolved" => l.latest = "resolved"
BY DEF Noted

\* Failing closed stores no terminal status and resolves nothing.
LEMMA FailClosedInv ==
  ASSUME OrderInv, NEW r \in Reconcilers, FailClosed(r)
  PROVE  OrderInv'
<1>1. /\ pass[r].answer \in Keys
      /\ log' = Noted(log, pass[r].answer)
      /\ status' \in {status, "RECONCILIATION_REQUIRED"}
      /\ pass' = [pass EXCEPT ![r] = NoPass]
      /\ UNCHANGED <<exch, executed, booked, claim, balance, origin>>
  BY DEF FailClosed, Stored, EndPass, exchange, Keys, Answers, FinalStatuses
<1>2. log' \in [keys : SUBSET Keys, latest : {"none", "resolved", "unresolved"}]
      /\ (log'.latest = "resolved" => log.latest = "resolved")
  BY <1>1, NotedKeeps DEF OrderInv, TypeOK
<1>3. TypeOK'
  BY <1>1, <1>2 DEF OrderInv, TypeOK, NoPass, Answers, OrderStates
<1>4. GuardClosedWhileUndecided' /\ FillsInOrder' /\ BookedOnce' /\ VerdictHolds'
  BY <1>1, <1>2 DEF OrderInv, GuardClosedWhileUndecided, FillsInOrder, BookedOnce, VerdictHolds, Unexecuted
<1>5. AnswersHold' /\ StatusesHold'
  BY <1>1 DEF OrderInv, TypeOK, NoPass, AnswersHold, AnswerHolds, StatusesHold, StatusHolds,
              Unexecuted, Booked
<1> QED
  BY <1>3, <1>4, <1>5 DEF OrderInv

\* A release turns what the status says into the verdict.
LEMMA ReleaseInv ==
  ASSUME OrderInv, NEW r \in Reconcilers, Release(r)
  PROVE  OrderInv'
<1>1. /\ claim = "held" /\ status \in TerminalOrders
      /\ claim' = (IF status = "FILLED" THEN "executed" ELSE "unexecuted")
      /\ UNCHANGED <<exch, executed, status, log, booked, balance, origin, pass>>
  BY DEF Release, exchange, rows
<1>2. VerdictHolds'
  BY <1>1 DEF OrderInv, StatusesHold, StatusHolds, VerdictHolds, Unexecuted, TerminalOrders
<1>3. TypeOK' /\ FillsInOrder' /\ BookedOnce' /\ GuardClosedWhileUndecided'
  BY <1>1 DEF OrderInv, TypeOK, FillsInOrder, BookedOnce, GuardClosedWhileUndecided
<1>4. AnswersHold' /\ StatusesHold'
  BY <1>1 DEF OrderInv, AnswersHold, AnswerHolds, StatusesHold, StatusHolds, Unexecuted, Booked
<1> QED
  BY <1>2, <1>3, <1>4 DEF OrderInv

-----------------------------------------------------------------------------
(* The main path of a pass.                                                 *)

\* A fill list that counts as the whole order is the whole order.
LEMMA WholeListing ==
  ASSUME NEW listed \in SUBSET Fills, NEW last,
         Cardinality({f \in listed : f <= last}) >= FillCount
  PROVE  listed = Fills
<1> DEFINE upTo == {f \in listed : f <= last}
<1>1. IsFiniteSet(Fills) /\ Cardinality(Fills) = FillCount
  BY FS_Interval DEF Fills
<1>2. upTo \in SUBSET Fills
  OBVIOUS
<1>3. /\ Cardinality(upTo) \in Nat /\ Cardinality(upTo) <= FillCount
      /\ Cardinality(upTo) = FillCount => upTo = Fills
  BY <1>1, <1>2, FS_Subset, FS_CardinalityType
<1>4. upTo = Fills
  BY <1>3
<1> QED
  BY <1>4

\* Each listed fill is booked once, and only listed ones are.
LEMMA ConcludeBooks ==
  ASSUME TypeOK, BookedOnce, NEW listed \in SUBSET executed,
         booked' = [f \in Fills |-> IF f \in Unbooked(listed) THEN booked[f] + 1 ELSE booked[f]],
         UNCHANGED executed
  PROVE  booked' \in [Fills -> Nat] /\ BookedOnce' /\ Booked' = Booked \cup listed
         /\ Booked \cup listed \subseteq executed
<1>1. \A f \in Fills : booked[f] \in Nat /\ booked[f] <= 1 /\ (booked[f] = 1 => f \in executed)
  BY DEF TypeOK, BookedOnce
<1>2. \A f \in Fills : f \in Booked <=> booked[f] = 1
  BY <1>1 DEF Booked
<1>3. \A f \in Fills : booked'[f] = IF f \in listed /\ booked[f] = 0 THEN 1 ELSE booked[f]
  BY <1>1, <1>2 DEF Unbooked
<1>4. booked' \in [Fills -> Nat] /\ BookedOnce'
  BY <1>1, <1>3 DEF BookedOnce
<1>5. Booked' = Booked \cup listed
  BY <1>1, <1>3 DEF Booked, TypeOK
<1> QED
  BY <1>1, <1>2, <1>4, <1>5 DEF Booked

\* The log is resolved only by an order that is decided, or by listed fills of one
\* whose stated size they make up.
LEMMA ConcludeGuard ==
  ASSUME OrderInv, NEW r \in Reconcilers, NEW listed \in SUBSET executed, Conclude(r, listed)
  PROVE  /\ log' \in [keys : SUBSET Keys, latest : {"none", "resolved", "unresolved"}]
         /\ log'.latest = "resolved" => exch \notin Undecided \/ Undersized
<1> DEFINE Log == [keys : SUBSET Keys, latest : {"none", "resolved", "unresolved"}]
           Decided(l) == l \in Log /\ (l.latest = "resolved" => exch \notin Undecided \/ Undersized)
           answer == pass[r].answer
           evidence == BalanceEvidence(pass[r], Booked \cup listed)
<1>1. answer \in Statuses /\ (answer \in FinalStatuses => exch \notin Undecided)
  BY DEF Conclude, OrderInv, AnswersHold, AnswerHolds, Unexecuted, FinalStatuses, Undecided
<1>2. Decided(log)
  BY DEF OrderInv, TypeOK, GuardClosedWhileUndecided, Undecided, Undersized
<1>3. \A l \in Log : Resolved(l) \in Log /\ (exch \notin Undecided \/ Undersized => Decided(Resolved(l)))
  BY DEF Resolved
<1>4. \A l, key : Decided(l) /\ key \in Keys => Decided(Noted(l, key))
  BY NotedKeeps
<1>5. Decided(AfterStatus(answer))
  <2>1. answer \notin FinalStatuses => answer \in Keys
    BY <1>1 DEF Keys, Answers
  <2> QED
    BY <1>1, <1>2, <1>3, <1>4, <2>1 DEF AfterStatus
<1>6. ASSUME NEW l, Decided(l) PROVE Decided(AfterFills(l, answer, listed))
  <2> DEFINE last == CHOOSE f \in Unbooked(listed) : \A g \in Unbooked(listed) : g <= f
             whole == ~(Cardinality({f \in listed : f <= last}) < OrderQuantity(answer, listed))
  <2>1. CASE Unbooked(listed) = {}
    BY <1>6, <2>1 DEF AfterFills
  <2>2. CASE Unbooked(listed) # {} /\ ~whole
    BY <1>6, <2>2 DEF AfterFills
  <2>3. CASE Unbooked(listed) # {} /\ whole
    <3>1. listed \in SUBSET Fills /\ listed # {} /\ executed # {}
      BY <2>3 DEF OrderInv, TypeOK, Unbooked
    <3>2. Cardinality({f \in listed : f <= last}) \in Nat
      <4>1. IsFiniteSet(Fills)
        BY FS_Interval DEF Fills
      <4>2. {f \in listed : f <= last} \in SUBSET Fills
        BY <3>1
      <4> QED
        BY <4>1, <4>2, FS_Subset, FS_CardinalityType
    <3>3. exch \notin Undecided \/ Undersized
      <4>1. CASE answer = "filled"
        BY <1>1, <4>1 DEF FinalStatuses
      <4>2. CASE origin.size < FillCount
        BY <3>1, <4>2 DEF Undersized
      <4>3. CASE answer # "filled" /\ ~(origin.size < FillCount)
        <5>1. origin.size \in Nat /\ FillCount \in Nat \ {0}
          BY DEF OrderInv, TypeOK
        <5>2. Cardinality({f \in listed : f <= last}) >= FillCount
          <6>1. OrderQuantity(answer, listed) = origin.size
            BY <4>3, <5>1 DEF OrderQuantity
          <6> QED
            BY <2>3, <3>2, <4>3, <5>1, <6>1
        <5> HIDE DEF last
        <5>3. listed = Fills
          BY <3>1, <5>2, WholeListing
        <5> QED
          BY <5>3 DEF OrderInv, FillsInOrder, Undecided, Fills
      <4> QED
        BY <4>1, <4>2, <4>3
    <3> QED
      BY <1>3, <1>6, <2>3, <3>3 DEF AfterFills
  <2> QED
    BY <2>1, <2>2, <2>3
<1>7. evidence # "ok" => evidence \in Keys
  BY DEF BalanceEvidence, Keys, Evidence
<1>8. Decided(AfterBalance(AfterFills(AfterStatus(answer), answer, listed), evidence))
  BY <1>4, <1>5, <1>6, <1>7 DEF AfterBalance
<1>9. Decided(log')
  BY <1>1, <1>3, <1>8 DEF Conclude, Complete
<1> QED
  BY <1>9

\* The status stored is backed by the exchange and, if the lists do not lag, by
\* the books: in every case of the mapping, and for an order restored to FILLED.
LEMMA ConcludeStatus ==
  ASSUME OrderInv, NEW r \in Reconcilers, NEW listed \in Listings, Conclude(r, listed),
         listed \subseteq executed, Booked' = Booked \cup listed, Booked' \subseteq executed
  PROVE  status' \in OrderStates /\ StatusHolds(status)'
<1> DEFINE answer == pass[r].answer
           loaded == pass[r].loaded
           total == Booked \cup listed
           evidence == BalanceEvidence(pass[r], total)
           checked == IF evidence = "mismatch" \/ ~origin.correlated
                      THEN "RECONCILIATION_REQUIRED" ELSE MappedStatus(answer, total)
<1>1. /\ pass[r].active
      /\ status' = IF loaded = "FILLED" /\ checked # "FILLED" THEN "FILLED" ELSE Stored(loaded, checked)
      /\ UNCHANGED <<exch, executed>>
  BY DEF Conclude, exchange
<1>2. StatusHolds(status) /\ StatusHolds(loaded) /\ AnswerHolds(answer)
  BY <1>1 DEF OrderInv, StatusesHold, AnswersHold
<1>3. "lag" \notin Anomalies => listed = executed /\ total = executed
  BY DEF Listings
<1>4. checked \in OrderStates
  BY DEF MappedStatus, OrderStates, TerminalOrders
<1>5. \A st : st = checked => StatusHolds(st)'
  <2>1. checked = "FILLED" => answer = "filled" /\ total # {}
    BY DEF MappedStatus
  <2>2. checked = "REJECTED" => answer = "filled" /\ total = {}
    BY DEF MappedStatus
  <2>3. checked = "CANCELLED" => answer = "canceled" /\ total = {}
    BY DEF MappedStatus
  <2>4. checked = "FILLED" => exch = "filled"
    BY <1>2, <2>1 DEF AnswerHolds, Unexecuted
  <2>5. checked = "FILLED" /\ "lag" \notin Anomalies => Booked' = Fills
    BY <1>3, <2>4 DEF OrderInv, FillsInOrder
  <2>6. checked \in {"CANCELLED", "REJECTED"} /\ "lag" \notin Anomalies => Unexecuted
    <3>1. exch = "filled" => executed # {}
      <4>1. 1 \in Fills
        BY DEF Fills
      <4> QED
        BY <4>1 DEF OrderInv, FillsInOrder
    <3> QED
      BY <1>2, <1>3, <2>2, <2>3, <3>1 DEF AnswerHolds, Unexecuted
  <2> QED
    BY <1>1, <2>4, <2>5, <2>6 DEF StatusHolds, Unexecuted
<1>6. \A st : StatusHolds(st) => StatusHolds(st)'
  BY <1>1 DEF OrderInv, TypeOK, StatusHolds, Unexecuted, Booked
<1>7. \/ status' \in {status, checked}
      \/ status' = "FILLED" /\ loaded = "FILLED"
  BY <1>1 DEF Stored
<1>8. \A st : st = status' => StatusHolds(st)'
  BY <1>2, <1>5, <1>6, <1>7
<1> QED
  BY <1>4, <1>7, <1>8 DEF OrderInv, TypeOK, OrderStates, TerminalOrders, StatusHolds, Unexecuted

\* The main path, from its books, its log and its status.
LEMMA ConcludeInv ==
  ASSUME OrderInv, NEW r \in Reconcilers, NEW listed \in Listings, Conclude(r, listed)
  PROVE  OrderInv'
<1>1. listed \in SUBSET executed
  BY DEF Listings
<1>2. /\ booked' = [f \in Fills |-> IF f \in Unbooked(listed) THEN booked[f] + 1 ELSE booked[f]]
      /\ pass' = [pass EXCEPT ![r] = NoPass]
      /\ UNCHANGED <<exch, executed, claim, balance, origin>>
  BY DEF Conclude, EndPass, exchange
<1>3. /\ booked' \in [Fills -> Nat] /\ BookedOnce'
      /\ Booked' = Booked \cup listed /\ Booked' \subseteq executed
  BY <1>1, <1>2, ConcludeBooks DEF OrderInv
<1>4. /\ log' \in [keys : SUBSET Keys, latest : {"none", "resolved", "unresolved"}]
      /\ log'.latest = "resolved" => exch \notin Undecided \/ Undersized
  BY <1>1, ConcludeGuard
<1>5. status' \in OrderStates /\ StatusHolds(status)'
  BY <1>1, <1>3, ConcludeStatus
<1>6. TypeOK'
  BY <1>2, <1>3, <1>4, <1>5 DEF OrderInv, TypeOK, NoPass, Answers, OrderStates
<1>7. FillsInOrder' /\ VerdictHolds' /\ GuardClosedWhileUndecided' /\ AnswersHold'
  BY <1>2, <1>4 DEF OrderInv, TypeOK, FillsInOrder, VerdictHolds, Unexecuted, GuardClosedWhileUndecided,
                    Undecided, Undersized, AnswersHold, AnswerHolds, NoPass
<1>8. \A q \in Reconcilers : pass'[q].active => pass'[q] = pass[q]
  BY <1>2 DEF NoPass, OrderInv, TypeOK
<1>9. Booked = Fills => Booked' = Fills
  BY <1>3 DEF Booked
<1>10. \A st : StatusHolds(st) => StatusHolds(st)'
  BY <1>2, <1>9 DEF StatusHolds, Unexecuted
<1>11. \A q \in Reconcilers : pass'[q].active => StatusHolds(pass[q].loaded)
  BY <1>8 DEF OrderInv, StatusesHold
<1>12. StatusesHold'
  BY <1>5, <1>8, <1>10, <1>11 DEF StatusesHold, StatusHolds, Unexecuted
<1> QED
  BY <1>3, <1>6, <1>7, <1>12 DEF OrderInv

\* Every step keeps the invariant.
LEMMA NextInv == OrderInv /\ [Next]_vars => OrderInv'
<1> SUFFICES ASSUME OrderInv, [Next]_vars PROVE OrderInv'
  OBVIOUS
<1>1. CASE Fill \/ Close
  BY <1>1, ExchangeInv
<1>2. CASE BalanceAges \/ RefreshBalances
  BY <1>2, OtherPassInv
<1>3. ASSUME NEW r \in Reconcilers, Begin(r) PROVE OrderInv'
  BY <1>3, BeginInv
<1>4. ASSUME NEW r \in Reconcilers, Finish(r) PROVE OrderInv'
  BY <1>4, ReaffirmInv, FailClosedInv, ConcludeInv DEF Finish
<1>5. ASSUME NEW r \in Reconcilers, Abort(r) PROVE OrderInv'
  BY <1>5, OtherPassInv
<1>6. ASSUME NEW r \in Reconcilers, Release(r) PROVE OrderInv'
  BY <1>6, ReleaseInv
<1>7. CASE UNCHANGED vars
  <2>1. UNCHANGED <<exch, executed, status, log, booked, claim, balance, origin, pass>>
    BY <1>7 DEF vars, exchange, rows
  <2>2. TypeOK' /\ FillsInOrder' /\ BookedOnce' /\ VerdictHolds' /\ GuardClosedWhileUndecided'
    BY ZenonT(60), <2>1 DEF OrderInv, TypeOK, FillsInOrder, BookedOnce, VerdictHolds, Unexecuted,
                GuardClosedWhileUndecided
  <2>3. AnswersHold' /\ StatusesHold'
    BY <2>1 DEF OrderInv, AnswersHold, AnswerHolds, StatusesHold, StatusHolds, Unexecuted, Booked
  <2> QED
    BY <2>2, <2>3 DEF OrderInv
<1> QED
  BY <1>1, <1>2, <1>3, <1>4, <1>5, <1>6, <1>7 DEF Next

\* The invariant holds throughout.
LEMMA InvHolds == Spec => []OrderInv
  BY InitInv, NextInv, PTL DEF Spec

-----------------------------------------------------------------------------
(* The theorems.                                                            *)

\* The columns of the order, event and accounting rows keep their domains.
THEOREM TypeCorrect == Spec => []TypeOK
<1>1. OrderInv => TypeOK
  BY DEF OrderInv
<1> QED BY <1>1, InvHolds, PTL

\* However many passes overlap, abort and repeat, and however their fill lists
\* lag, no fill is booked twice or before it happened
\* (record_live_fill_reconciliation).
THEOREM FillsBookedOnce == Spec => []BookedOnce
<1>1. OrderInv => BookedOnce
  BY DEF OrderInv
<1> QED BY <1>1, InvHolds, PTL

\* No anomaly and no overlap makes the guard read a resolved event of an order
\* the exchange has not decided (has_unresolved_reconciliation), unless the order
\* is partly executed and its provider states no size for it or one below its own.
THEOREM GuardStaysClosed == Spec => []GuardClosedWhileUndecided
<1>1. OrderInv => GuardClosedWhileUndecided
  BY DEF OrderInv
<1> QED BY <1>1, InvHolds, PTL

\* Where the provider's fill lists do not lag, FILLED means executed in full and
\* booked in full (status mapping of reconcile_live_order_and_fills).
THEOREM FilledMeansAccounted ==
  ASSUME "lag" \notin Anomalies
  PROVE  Spec => []FilledIsAccounted
<1>1. OrderInv => FilledIsAccounted
  BY DEF OrderInv, StatusesHold, StatusHolds, FilledIsAccounted
<1> QED BY <1>1, InvHolds, PTL

\* The module implements OrderOutcome: also with overlapping passes and statuses
\* that are downgraded meanwhile, the verdict is given once, after the
\* exchange's decision, and is the exchange's.
THEOREM ImplementsOutcome ==
  ASSUME "lag" \notin Anomalies
  PROVE  Spec => VerdictIsTrue
<1> DEFINE outcomeBar == CASE exch = "filled" -> "executed"
                           [] exch \in {"canceled", "closed"} /\ executed = {} -> "unexecuted"
                           [] exch \in {"canceled", "closed"} /\ executed # {} -> "partly_executed"
                           [] OTHER -> "undecided"
           verdictBar == IF claim = "held" THEN "none" ELSE claim
<1>1. Init => Outcome!Init
  BY DEF Init, Outcome!Init
<1>2. OrderInv /\ OrderInv' /\ [Next]_vars => [Outcome!Next]_<<outcomeBar, verdictBar>>
  <2> SUFFICES ASSUME OrderInv, OrderInv', [Next]_vars
               PROVE  [Outcome!Next]_<<outcomeBar, verdictBar>>
    OBVIOUS
  <2>1. CASE Fill
    <3>1. exch = "live" /\ exch' \in {"live", "filled"} /\ UNCHANGED claim
      BY <2>1 DEF Fill
    <3>2. outcomeBar = "undecided" /\ outcomeBar' \in {"undecided", "executed"} /\ UNCHANGED verdictBar
      BY <3>1
    <3> QED
      BY <3>2 DEF Outcome!Next, Outcome!Decide, Outcome!Outcomes
  <2>2. CASE Close
    <3>1. exch = "live" /\ exch' \in {"canceled", "closed"} /\ UNCHANGED claim
      BY <2>2 DEF Close
    <3>2. /\ outcomeBar = "undecided" /\ outcomeBar' \in {"unexecuted", "partly_executed"}
          /\ UNCHANGED verdictBar
      BY <3>1
    <3> QED
      BY <3>2 DEF Outcome!Next, Outcome!Decide, Outcome!Outcomes
  <2>3. ASSUME NEW r \in Reconcilers, Release(r) PROVE [Outcome!Next]_<<outcomeBar, verdictBar>>
    <3>1. claim = "held" /\ claim' \in {"executed", "unexecuted"} /\ UNCHANGED <<exch, executed>>
      BY <2>3 DEF Release, exchange
    <3>2. (claim' = "executed" => exch = "filled") /\ (claim' = "unexecuted" => Unexecuted)
      BY <3>1 DEF OrderInv, VerdictHolds, Unexecuted
    <3>3. verdictBar = "none" /\ verdictBar' = claim' /\ UNCHANGED outcomeBar
      BY <3>1
    <3>4. outcomeBar = claim'
      <4>1. CASE exch = "filled"
        BY <3>1, <3>2, <4>1 DEF Unexecuted
      <4>2. CASE exch # "filled"
        <5>1. claim' = "unexecuted" /\ exch \in {"canceled", "closed"} /\ executed = {}
          BY <3>1, <3>2, <4>2 DEF Unexecuted
        <5>2. outcomeBar = "unexecuted"
          BY <5>1
        <5> QED
          BY <5>1, <5>2
      <4> QED
        BY <4>1, <4>2
    <3> QED
      BY <3>1, <3>3, <3>4 DEF Outcome!Next, Outcome!Pronounce, Outcome!Outcomes
  <2>4. ASSUME UNCHANGED <<exch, executed, claim>> PROVE [Outcome!Next]_<<outcomeBar, verdictBar>>
    BY <2>4
  <2>5. CASE BalanceAges \/ RefreshBalances \/ UNCHANGED vars
    BY <2>4, <2>5 DEF BalanceAges, RefreshBalances, vars, exchange, rows
  <2>6. ASSUME NEW r \in Reconcilers, Begin(r) \/ Finish(r) \/ Abort(r)
        PROVE  UNCHANGED <<exch, executed, claim>>
    BY <2>6 DEF Begin, BeginScheduled, BeginRequested, Finish, Reaffirm, FailClosed, Conclude, Abort,
                exchange, rows
  <2> QED
    BY <2>1, <2>2, <2>3, <2>4, <2>5, <2>6 DEF Next
<1> QED
  BY <1>1, <1>2, InvHolds, PTL DEF Spec, VerdictIsTrue, Outcome!Spec

\* With one pass at a time, and no answer that names another product or side, an
\* order once FILLED stays FILLED whatever later passes observe (comment on
\* _AUTHORITATIVE_FILLED_STATUS).  Both assumptions are needed: the run
\* overlapping_passes_downgrade breaks it with two passes.
THEOREM FilledIsFinal ==
  ASSUME "identity" \notin Anomalies, \A r, q \in Reconcilers : r = q
  PROVE  Spec => FilledNeverDowngraded
<1> DEFINE FilledKept == status = "FILLED" => status' = "FILLED"
<1>1. Init => LoadedIsCurrent
  BY DEF Init, LoadedIsCurrent, NoPass
<1>2. OrderInv /\ LoadedIsCurrent /\ [Next]_vars => LoadedIsCurrent' /\ (FilledKept \/ UNCHANGED vars)
  <2> SUFFICES ASSUME OrderInv, LoadedIsCurrent, [Next]_vars
               PROVE  LoadedIsCurrent' /\ FilledKept
    OBVIOUS
  <2>1. ASSUME UNCHANGED <<status, pass>> PROVE LoadedIsCurrent' /\ FilledKept
    BY <2>1 DEF LoadedIsCurrent
  <2>2. CASE Fill \/ Close \/ RefreshBalances \/ UNCHANGED vars
    BY <2>1, <2>2 DEF Fill, Close, RefreshBalances, rows, vars
  <2>3. CASE BalanceAges
    BY <2>3 DEF BalanceAges, rows, OrderInv, TypeOK, LoadedIsCurrent
  <2>4. ASSUME NEW r \in Reconcilers, Begin(r) PROVE LoadedIsCurrent' /\ FilledKept
    <3>1. PICK answer \in PossibleAnswers : BeginScheduled(r, answer) \/ BeginRequested(r, answer)
      BY <2>4 DEF Begin
    <3>2. answer # "identity"
      BY DEF PossibleAnswers, TrueAnswer, StaleAnswers
    <3>3. UNCHANGED status /\ Start(r, answer, balance')
      BY <3>1 DEF BeginScheduled, BeginRequested, rows
    <3> QED
      BY <3>2, <3>3 DEF Start, LoadedIsCurrent, OrderInv, TypeOK
  <2>5. ASSUME NEW r \in Reconcilers, Finish(r) \/ Abort(r) PROVE LoadedIsCurrent' /\ FilledKept
    <3>1. pass[r].active /\ pass[r].loaded = status /\ pass[r].answer # "identity"
      BY <2>5 DEF Finish, Reaffirm, FailClosed, Conclude, Abort, LoadedIsCurrent
    <3>2. LoadedIsCurrent'
      <4>1. pass' = [pass EXCEPT ![r] = NoPass]
        BY <2>5 DEF Finish, Reaffirm, FailClosed, Conclude, Abort, EndPass
      <4>2. \A q \in Reconcilers : ~pass'[q].active
        BY <4>1 DEF NoPass, OrderInv, TypeOK
      <4> QED
        BY <4>2 DEF LoadedIsCurrent
    <3>3. FilledKept
      BY <2>5, <3>1 DEF Finish, Reaffirm, FailClosed, Conclude, Abort, Stored, rows
    <3> QED
      BY <3>2, <3>3
  <2>6. ASSUME NEW r \in Reconcilers, Release(r) PROVE LoadedIsCurrent' /\ FilledKept
    BY <2>1, <2>6 DEF Release, rows
  <2> QED
    BY <2>2, <2>3, <2>4, <2>5, <2>6 DEF Next
<1>3. OrderInv /\ LoadedIsCurrent /\ [Next]_vars => [FilledKept]_vars
  BY <1>2
<1>4. Spec => [][FilledKept]_vars
  BY <1>1, <1>2, <1>3, InvHolds, PTL DEF Spec
<1> QED
  BY <1>4 DEF FilledNeverDowngraded
=============================================================================
