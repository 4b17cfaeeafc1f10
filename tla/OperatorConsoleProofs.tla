----------------------- MODULE OperatorConsoleProofs ------------------------
(***************************************************************************)
(* Theorems about the front end: what PageProofs, ReviewPageProofs and     *)
(* ListPageProofs show of a page on its own holds of it when it is the one *)
(* that is mounted.                                                        *)
(***************************************************************************)
EXTENDS OperatorConsole, TLAPS

\* A page stays mounted, and the steps are its own.
LEMMA Mounted ==
  ASSUME [Next]_vars
  PROVE  /\ mounted' = mounted
         /\ mounted = "dashboard" => Dashboard!DashNext \/ UNCHANGED <<ui, net, db, wire>>
         /\ mounted = "markets" => Markets!MarketsNext \/ UNCHANGED <<ui, net, db, wire>>
         /\ mounted = "paper" => Paper!PaperNext \/ UNCHANGED <<ui, net, db, wire>>
         /\ mounted = "preview" => Preview!PreviewNext \/ UNCHANGED <<ui, net, db, wire>>
         /\ mounted = "instant" => Instant!InstantNext \/ UNCHANGED <<ui, net, db, wire>>
         /\ mounted = "lab" => Lab!LabNext \/ UNCHANGED <<ui, net, db, wire>>
         /\ mounted = "live" => Live!LiveNext \/ UNCHANGED <<ui, net, db, wire>>
         /\ mounted = "decisions" => Decisions!DecisionsNext \/ UNCHANGED <<ui, net, db, wire>>
         /\ mounted = "records" => Records!RecordsNext \/ UNCHANGED <<ui, net, db, wire>>
         /\ mounted = "risk" => Risk!RiskNext \/ UNCHANGED <<ui, net, db, wire>>
         /\ mounted = "rules" => Rules!RulesNext \/ UNCHANGED <<ui, net, db, wire>>
         /\ mounted = "backtests" => Simulations!BacktestsNext \/ UNCHANGED <<ui, net, db, wire>>
         /\ mounted = "mission" => Mission!MissionNext \/ UNCHANGED <<ui, net, db, wire>>
         /\ mounted = "arena" => Arena!ArenaNext \/ UNCHANGED <<ui, net, db, wire>>
BY DEF Next, On, vars

----------------------------------------------------------------------------
(* The pages that preview and buy, and the strategy lab. *)

OrderProofs == INSTANCE PageProofs
  WITH PreviewClicks <- Clicks.preview, PreviewFailures <- Failures.preview,
       InstantClicks <- Clicks.instant, InstantFailures <- Failures.instant,
       LabClicks <- Clicks.lab, LabFailures <- Failures.lab

\* The proofs are about this page.
LEMMA SamePreview ==
  /\ Preview!PreviewInit <=> OrderProofs!Preview!PreviewInit
  /\ Preview!PreviewNext <=> OrderProofs!Preview!PreviewNext
  /\ Preview!PreviewedOnce <=> OrderProofs!Preview!PreviewedOnce
BY ZenonT(60) DEF
  Preview!PreviewInit, OrderProofs!Preview!PreviewInit, Preview!Null, OrderProofs!Preview!Null,
  Preview!Issue, OrderProofs!Preview!Issue, Preview!NewRequest, OrderProofs!Preview!NewRequest,
  Preview!Wires, OrderProofs!Preview!Wires, Preview!PreviewNext, OrderProofs!Preview!PreviewNext,
  Preview!ChooseSide, OrderProofs!Preview!ChooseSide, Preview!Type, OrderProofs!Preview!Type,
  Preview!CanClick, OrderProofs!Preview!CanClick, Preview!Clicked, OrderProofs!Preview!Clicked,
  Preview!ChooseCurrency, OrderProofs!Preview!ChooseCurrency, Preview!TypeAmount,
  OrderProofs!Preview!TypeAmount, Preview!ChooseConnection, OrderProofs!Preview!ChooseConnection,
  Preview!GeneratePreview, OrderProofs!Preview!GeneratePreview, Preview!Buttons,
  OrderProofs!Preview!Buttons, Preview!Ask, OrderProofs!Preview!Ask, Preview!RefreshPreview,
  OrderProofs!Preview!RefreshPreview, Preview!CancelPreview, OrderProofs!Preview!CancelPreview,
  Preview!Deliver, OrderProofs!Preview!Deliver, Preview!Deliverable, OrderProofs!Preview!Deliverable,
  Preview!DeliverLoad, OrderProofs!Preview!DeliverLoad, Preview!Coinbase, OrderProofs!Preview!Coinbase,
  Preview!DeliverGenerated, OrderProofs!Preview!DeliverGenerated, Preview!DeliverPreview,
  OrderProofs!Preview!DeliverPreview, Preview!DeliverRefreshed, OrderProofs!Preview!DeliverRefreshed,
  Preview!DeliverCancelled, OrderProofs!Preview!DeliverCancelled, Preview!Handled,
  OrderProofs!Preview!Handled, Preview!RemoveAt, OrderProofs!Preview!RemoveAt, Preview!ConnectionLost,
  OrderProofs!Preview!ConnectionLost, Preview!Servable, OrderProofs!Preview!Servable, Preview!Serve,
  OrderProofs!Preview!Serve, Preview!ServeLoad, OrderProofs!Preview!ServeLoad, Preview!Served,
  OrderProofs!Preview!Served, Preview!Response, OrderProofs!Preview!Response, Preview!ComputedStatus,
  OrderProofs!Preview!ComputedStatus, Preview!LookUp, OrderProofs!Preview!LookUp, Preview!Requested,
  OrderProofs!Preview!Requested, Preview!Key, OrderProofs!Preview!Key, Preview!Versions,
  OrderProofs!Preview!Versions, Preview!PreviewIds, OrderProofs!Preview!PreviewIds, Preview!Refused,
  OrderProofs!Preview!Refused, Preview!Alive, OrderProofs!Preview!Alive, Preview!Newest,
  OrderProofs!Preview!Newest, Preview!StorePreview, OrderProofs!Preview!StorePreview, Preview!Taken,
  OrderProofs!Preview!Taken, Preview!ServeCancel, OrderProofs!Preview!ServeCancel, Preview!RequestFails,
  OrderProofs!Preview!RequestFails, Preview!Expires, OrderProofs!Preview!Expires, Preview!NextWindow,
  OrderProofs!Preview!NextWindow, Preview!PreviewedOnce, OrderProofs!Preview!PreviewedOnce

\* The proofs are about this page.
LEMMA SameInstant ==
  /\ Instant!InstantInit <=> OrderProofs!Instant!InstantInit
  /\ Instant!InstantNext <=> OrderProofs!Instant!InstantNext
  /\ Instant!BoughtOnce <=> OrderProofs!Instant!BoughtOnce
BY ZenonT(60) DEF
  Instant!InstantInit, OrderProofs!Instant!InstantInit, Instant!Null, OrderProofs!Instant!Null,
  Instant!Issue, OrderProofs!Instant!Issue, Instant!NewRequest, OrderProofs!Instant!NewRequest,
  Instant!Wires, OrderProofs!Instant!Wires, Instant!InstantNext, OrderProofs!Instant!InstantNext,
  Instant!TypeAmount, OrderProofs!Instant!TypeAmount, Instant!Type, OrderProofs!Instant!Type,
  Instant!TypeKey, OrderProofs!Instant!TypeKey, Instant!CanClick, OrderProofs!Instant!CanClick,
  Instant!Clicked, OrderProofs!Instant!Clicked, Instant!ChooseConnection,
  OrderProofs!Instant!ChooseConnection, Instant!Confirm, OrderProofs!Instant!Confirm, Instant!BuyNow,
  OrderProofs!Instant!BuyNow, Instant!Adopt, OrderProofs!Instant!Adopt, Instant!CanAdopt,
  OrderProofs!Instant!CanAdopt, Instant!PollTick, OrderProofs!Instant!PollTick, Instant!Pending,
  OrderProofs!Instant!Pending, Instant!Deliver, OrderProofs!Instant!Deliver, Instant!Deliverable,
  OrderProofs!Instant!Deliverable, Instant!DeliverConnections, OrderProofs!Instant!DeliverConnections,
  Instant!Eligible, OrderProofs!Instant!Eligible, Instant!DeliverBuy, OrderProofs!Instant!DeliverBuy,
  Instant!DeliverGet, OrderProofs!Instant!DeliverGet, Instant!DeliverAdopt,
  OrderProofs!Instant!DeliverAdopt, Instant!Handled, OrderProofs!Instant!Handled, Instant!RemoveAt,
  OrderProofs!Instant!RemoveAt, Instant!Serve, OrderProofs!Instant!Serve, Instant!Servable,
  OrderProofs!Instant!Servable, Instant!ServeConnections, OrderProofs!Instant!ServeConnections,
  Instant!Served, OrderProofs!Instant!Served, Instant!ServeGet, OrderProofs!Instant!ServeGet,
  Instant!Receipt, OrderProofs!Instant!Receipt, Instant!Lifecycle, OrderProofs!Instant!Lifecycle,
  Instant!ServeAdopt, OrderProofs!Instant!ServeAdopt, Instant!Refused, OrderProofs!Instant!Refused,
  Instant!LookUp, OrderProofs!Instant!LookUp, Instant!Existing, OrderProofs!Instant!Existing, Instant!Same,
  OrderProofs!Instant!Same, Instant!OrderIds, OrderProofs!Instant!OrderIds, Instant!At,
  OrderProofs!Instant!At, Instant!Locked, OrderProofs!Instant!Locked, Instant!Resumable,
  OrderProofs!Instant!Resumable, Instant!BoundedReconcile, OrderProofs!Instant!BoundedReconcile,
  Instant!Terminal, OrderProofs!Instant!Terminal, Instant!Reconciled, OrderProofs!Instant!Reconciled,
  Instant!StoreOrder, OrderProofs!Instant!StoreOrder, Instant!Submit, OrderProofs!Instant!Submit,
  Instant!Recorded, OrderProofs!Instant!Recorded, Instant!AnswerBuy, OrderProofs!Instant!AnswerBuy,
  Instant!RequestFails, OrderProofs!Instant!RequestFails, Instant!Scheduled, OrderProofs!Instant!Scheduled,
  Instant!ExchangeTrades, OrderProofs!Instant!ExchangeTrades, Instant!BoughtOnce,
  OrderProofs!Instant!BoughtOnce

\* The coach judges configurations by these rules.
LEMMA SameRules ==
  /\ \A slug : Lab!Definitions(slug) = OrderProofs!Lab!Definitions(slug)
  /\ \A slug : Lab!DefaultValues(slug) = OrderProofs!Lab!DefaultValues(slug)
  /\ \A key : Lab!IsNumeric(key) <=> OrderProofs!Lab!IsNumeric(key)
  /\ \A slug, values : Lab!FormErrors(slug, values) = OrderProofs!Lab!FormErrors(slug, values)
  /\ \A slug, values, beginner : Lab!CoachCards(slug, values, beginner) = OrderProofs!Lab!CoachCards(slug, values, beginner)
  /\ \A slug, key, stored : Lab!Coerced(slug, key, stored) = OrderProofs!Lab!Coerced(slug, key, stored)
<1>1. Lab!Metadata = OrderProofs!Lab!Metadata
  BY DEF
    Lab!Metadata, OrderProofs!Lab!Metadata, Lab!Whole, OrderProofs!Lab!Whole, Lab!Numeric,
    OrderProofs!Lab!Numeric, Lab!OneOf, OrderProofs!Lab!OneOf, Lab!Percent, OrderProofs!Lab!Percent
<1>2. Lab!Defaults = OrderProofs!Lab!Defaults
  BY DEF
    Lab!Defaults, OrderProofs!Lab!Defaults
<1>3. \A slug : Lab!Definitions(slug) = OrderProofs!Lab!Definitions(slug)
  BY <1>2 DEF
    Lab!Definitions, OrderProofs!Lab!Definitions
<1>4. \A slug : Lab!DefaultValues(slug) = OrderProofs!Lab!DefaultValues(slug)
  BY <1>2, <1>3 DEF
    Lab!DefaultValues, OrderProofs!Lab!DefaultValues
<1>5. \A key : Lab!IsNumeric(key) <=> OrderProofs!Lab!IsNumeric(key)
  BY <1>1 DEF
    Lab!IsNumeric, OrderProofs!Lab!IsNumeric
<1>6. \A key, value : Lab!Errors(key, value) = OrderProofs!Lab!Errors(key, value)
  BY <1>1, <1>5 DEF
    Lab!Errors, OrderProofs!Lab!Errors
<1>7. \A key, value : Lab!Warned(key, value) <=> OrderProofs!Lab!Warned(key, value)
  BY <1>1, <1>5 DEF
    Lab!Warned, OrderProofs!Lab!Warned
<1>8. \A slug, values : Lab!FormErrors(slug, values) = OrderProofs!Lab!FormErrors(slug, values)
  BY <1>3, <1>6 DEF
    Lab!FormErrors, OrderProofs!Lab!FormErrors
<1>9. \A slug, values : Lab!FormWarnings(slug, values) = OrderProofs!Lab!FormWarnings(slug, values)
  BY <1>3, <1>7 DEF
    Lab!FormWarnings, OrderProofs!Lab!FormWarnings
<1>10. \A slug, values : Lab!Missing(slug, values) = OrderProofs!Lab!Missing(slug, values)
  BY <1>3 DEF
    Lab!Missing, OrderProofs!Lab!Missing
<1>11. \A slug, values : Lab!HealthState(slug, values) = OrderProofs!Lab!HealthState(slug, values)
  BY <1>8, <1>9 DEF
    Lab!HealthState, OrderProofs!Lab!HealthState
<1>12. \A set : Lab!Cardinality(set) = OrderProofs!Lab!Cardinality(set)
  BY ZenonT(60) DEF
    Lab!Cardinality, OrderProofs!Lab!Cardinality
<1>13. \A slug, values : Lab!Readiness(slug, values) = OrderProofs!Lab!Readiness(slug, values)
  BY <1>8, <1>9, <1>10, <1>12 DEF
    Lab!Readiness, OrderProofs!Lab!Readiness
<1>14. \A slug : Lab!HasBehavior(slug) <=> OrderProofs!Lab!HasBehavior(slug)
  BY DEF
    Lab!HasBehavior, OrderProofs!Lab!HasBehavior
<1>15. \A slug, values : Lab!Behavior(slug, values) = OrderProofs!Lab!Behavior(slug, values)
  BY DEF
    Lab!Behavior, OrderProofs!Lab!Behavior, Lab!Frequency, OrderProofs!Lab!Frequency, Lab!Against,
    OrderProofs!Lab!Against, Lab!Responsiveness, OrderProofs!Lab!Responsiveness, Lab!Filtering,
    OrderProofs!Lab!Filtering, Lab!With, OrderProofs!Lab!With, Lab!Sensitivity, OrderProofs!Lab!Sensitivity
<1>16. \A slug, values : Lab!Changed(slug, values) = OrderProofs!Lab!Changed(slug, values)
  BY <1>2, <1>3 DEF
    Lab!Changed, OrderProofs!Lab!Changed
<1>17. \A slug, key, value : Lab!Effect(slug, key, value) = OrderProofs!Lab!Effect(slug, key, value)
  BY <1>2, <1>5 DEF
    Lab!Effect, OrderProofs!Lab!Effect
<1>18. \A key, value : Lab!Impact(key, value) = OrderProofs!Lab!Impact(key, value)
  BY <1>6, <1>7 DEF
    Lab!Impact, OrderProofs!Lab!Impact
<1>19. \A slug, values : Lab!Explained(slug, values) = OrderProofs!Lab!Explained(slug, values)
  BY <1>3, <1>8, <1>9 DEF
    Lab!Explained, OrderProofs!Lab!Explained
<1>20. \A slug, values : Lab!TopObservations(slug, values) = OrderProofs!Lab!TopObservations(slug, values)
  BY <1>11, <1>14, <1>19 DEF
    Lab!TopObservations, OrderProofs!Lab!TopObservations
<1>21. \A slug, values, beginner : Lab!CoachCards(slug, values, beginner) = OrderProofs!Lab!CoachCards(slug, values, beginner)
  BY <1>11, <1>13, <1>14, <1>15, <1>16, <1>17, <1>18, <1>19, <1>20 DEF
    Lab!CoachCards, OrderProofs!Lab!CoachCards
<1>22. \A slug, key, stored : Lab!Coerced(slug, key, stored) = OrderProofs!Lab!Coerced(slug, key, stored)
  BY <1>1, <1>2 DEF
    Lab!Coerced, OrderProofs!Lab!Coerced
<1> QED
  BY <1>3, <1>4, <1>5, <1>8, <1>21, <1>22

\* The proofs are about this page.
LEMMA SameLab ==
  /\ Lab!LabInit <=> OrderProofs!Lab!LabInit
  /\ Lab!LabNext <=> OrderProofs!Lab!LabNext
<1> \A slug : Lab!SelectStrategy(slug) <=> OrderProofs!Lab!SelectStrategy(slug)
  BY ZenonT(60), SameRules DEF
    Lab!SelectStrategy, OrderProofs!Lab!SelectStrategy, Lab!Free, OrderProofs!Lab!Free, Lab!CanClick,
    OrderProofs!Lab!CanClick, Lab!StrategyCards, OrderProofs!Lab!StrategyCards, Lab!Listed,
    OrderProofs!Lab!Listed, Lab!Chosen, OrderProofs!Lab!Chosen, Lab!Null, OrderProofs!Lab!Null, Lab!Clicked,
    OrderProofs!Lab!Clicked, Lab!Stay, OrderProofs!Lab!Stay
<1> \A key, value : Lab!EditValue(key, value) <=> OrderProofs!Lab!EditValue(key, value)
  BY SameRules DEF
    Lab!EditValue, OrderProofs!Lab!EditValue, Lab!Free, OrderProofs!Lab!Free, Lab!CanClick,
    OrderProofs!Lab!CanClick, Lab!ParameterCards, OrderProofs!Lab!ParameterCards, Lab!Null,
    OrderProofs!Lab!Null, Lab!Clicked, OrderProofs!Lab!Clicked, Lab!Stay, OrderProofs!Lab!Stay
<1> \A name : Lab!TypeName(name) <=> OrderProofs!Lab!TypeName(name)
  BY ZenonT(60) DEF
    Lab!TypeName, OrderProofs!Lab!TypeName, Lab!Free, OrderProofs!Lab!Free, Lab!CanClick,
    OrderProofs!Lab!CanClick, Lab!Null, OrderProofs!Lab!Null, Lab!Clicked, OrderProofs!Lab!Clicked,
    Lab!Stay, OrderProofs!Lab!Stay
<1> \A capital : Lab!TypeCapital(capital) <=> OrderProofs!Lab!TypeCapital(capital)
  BY ZenonT(60) DEF
    Lab!TypeCapital, OrderProofs!Lab!TypeCapital, Lab!Free, OrderProofs!Lab!Free, Lab!CanClick,
    OrderProofs!Lab!CanClick, Lab!Clicked, OrderProofs!Lab!Clicked, Lab!Stay, OrderProofs!Lab!Stay
<1> \A i : Lab!ViewSnapshot(i) <=> OrderProofs!Lab!ViewSnapshot(i)
  BY ZenonT(60) DEF
    Lab!ViewSnapshot, OrderProofs!Lab!ViewSnapshot, Lab!Free, OrderProofs!Lab!Free, Lab!CanClick,
    OrderProofs!Lab!CanClick, Lab!PresetLibrary, OrderProofs!Lab!PresetLibrary, Lab!Listed,
    OrderProofs!Lab!Listed, Lab!StrategySets, OrderProofs!Lab!StrategySets, Lab!Null, OrderProofs!Lab!Null,
    Lab!Kept, OrderProofs!Lab!Kept, Lab!Cardinality, OrderProofs!Lab!Cardinality, Lab!Before,
    OrderProofs!Lab!Before, Lab!Clicked, OrderProofs!Lab!Clicked, Lab!Stay, OrderProofs!Lab!Stay
<1> \A i : Lab!ApplySnapshot(i) <=> OrderProofs!Lab!ApplySnapshot(i)
  <2>1. SUFFICES ASSUME NEW i
                 PROVE  Lab!ApplySnapshot(i) <=> OrderProofs!Lab!ApplySnapshot(i)
    OBVIOUS
  <2> DEFINE R(slug, stored) == [key \in Lab!Definitions(slug) |-> Lab!Coerced(slug, key, stored[key])]
             S(slug, stored) == [key \in OrderProofs!Lab!Definitions(slug) |->
                                   OrderProofs!Lab!Coerced(slug, key, stored[key])]
  <2>2. \A slug, stored : R(slug, stored) = S(slug, stored)
    BY SameRules
  <2> HIDE DEF R, S
  <2>3. Lab!ApplySnapshot(i) <=>
          /\ Lab!Free /\ Lab!PresetLibrary = "rows" /\ i \in DOMAIN Lab!StrategySets
          /\ ui' = [Lab!Clicked EXCEPT !.snapshot = <<Lab!StrategySets[i].id>>, !.saveError = FALSE,
                                       !.values = <<R(ui.strategy[1], Lab!StrategySets[i].values)>>]
          /\ Lab!Stay
    BY DEF Lab!ApplySnapshot, R
  <2>4. OrderProofs!Lab!ApplySnapshot(i) <=>
          /\ OrderProofs!Lab!Free /\ OrderProofs!Lab!PresetLibrary = "rows"
          /\ i \in DOMAIN OrderProofs!Lab!StrategySets
          /\ ui' = [OrderProofs!Lab!Clicked EXCEPT
                      !.snapshot = <<OrderProofs!Lab!StrategySets[i].id>>, !.saveError = FALSE,
                      !.values = <<S(ui.strategy[1], OrderProofs!Lab!StrategySets[i].values)>>]
          /\ OrderProofs!Lab!Stay
    BY DEF OrderProofs!Lab!ApplySnapshot, S
  <2>5. /\ Lab!StrategySets = OrderProofs!Lab!StrategySets
        /\ Lab!PresetLibrary = OrderProofs!Lab!PresetLibrary
        /\ Lab!Free <=> OrderProofs!Lab!Free
        /\ Lab!Clicked = OrderProofs!Lab!Clicked
        /\ Lab!Stay <=> OrderProofs!Lab!Stay
    BY ZenonT(60) DEF
      Lab!StrategySets, OrderProofs!Lab!StrategySets, Lab!Null, OrderProofs!Lab!Null, Lab!Kept,
      OrderProofs!Lab!Kept, Lab!Cardinality, OrderProofs!Lab!Cardinality, Lab!Before,
      OrderProofs!Lab!Before, Lab!PresetLibrary, OrderProofs!Lab!PresetLibrary, Lab!Listed,
      OrderProofs!Lab!Listed, Lab!Free, OrderProofs!Lab!Free, Lab!CanClick, OrderProofs!Lab!CanClick,
      Lab!Clicked, OrderProofs!Lab!Clicked, Lab!Stay, OrderProofs!Lab!Stay
  <2> QED
    BY ZenonT(60), <2>2, <2>3, <2>4, <2>5
<1> \A id : Lab!ToggleComparison(id) <=> OrderProofs!Lab!ToggleComparison(id)
  BY ZenonT(60) DEF
    Lab!ToggleComparison, OrderProofs!Lab!ToggleComparison, Lab!Free, OrderProofs!Lab!Free, Lab!CanClick,
    OrderProofs!Lab!CanClick, Lab!RunSelection, OrderProofs!Lab!RunSelection, Lab!Listed,
    OrderProofs!Lab!Listed, Lab!Cardinality, OrderProofs!Lab!Cardinality, Lab!MaxCompared,
    OrderProofs!Lab!MaxCompared, Lab!Clicked, OrderProofs!Lab!Clicked, Lab!Stay, OrderProofs!Lab!Stay
<1> Lab!SaveSnapshot <=> OrderProofs!Lab!SaveSnapshot
  BY ZenonT(60) DEF
    Lab!SaveSnapshot, OrderProofs!Lab!SaveSnapshot, Lab!Free, OrderProofs!Lab!Free, Lab!CanClick,
    OrderProofs!Lab!CanClick, Lab!Null, OrderProofs!Lab!Null, Lab!DuplicateName,
    OrderProofs!Lab!DuplicateName, Lab!StrategySets, OrderProofs!Lab!StrategySets, Lab!Kept,
    OrderProofs!Lab!Kept, Lab!Cardinality, OrderProofs!Lab!Cardinality, Lab!Before, OrderProofs!Lab!Before,
    Lab!Clicked, OrderProofs!Lab!Clicked, Lab!Issue, OrderProofs!Lab!Issue, Lab!NewRequest,
    OrderProofs!Lab!NewRequest
<1> Lab!FormIsValid <=> OrderProofs!Lab!FormIsValid
  BY SameRules DEF
    Lab!FormIsValid, OrderProofs!Lab!FormIsValid, Lab!Null, OrderProofs!Lab!Null
<1> Lab!CanLaunch <=> OrderProofs!Lab!CanLaunch
  BY ZenonT(60) DEF
    Lab!CanLaunch, OrderProofs!Lab!CanLaunch, Lab!Null, OrderProofs!Lab!Null, Lab!LaunchSet,
    OrderProofs!Lab!LaunchSet, Lab!SelectedSnapshot, OrderProofs!Lab!SelectedSnapshot, Lab!StrategySets,
    OrderProofs!Lab!StrategySets, Lab!Kept, OrderProofs!Lab!Kept, Lab!Cardinality,
    OrderProofs!Lab!Cardinality, Lab!Before, OrderProofs!Lab!Before, Lab!MinCapital,
    OrderProofs!Lab!MinCapital
<1> Lab!LaunchBacktest <=> OrderProofs!Lab!LaunchBacktest
  BY ZenonT(60) DEF
    Lab!LaunchBacktest, OrderProofs!Lab!LaunchBacktest, Lab!Free, OrderProofs!Lab!Free, Lab!CanClick,
    OrderProofs!Lab!CanClick, Lab!Clicked, OrderProofs!Lab!Clicked, Lab!Issue, OrderProofs!Lab!Issue,
    Lab!NewRequest, OrderProofs!Lab!NewRequest, Lab!Null, OrderProofs!Lab!Null, Lab!LaunchSet,
    OrderProofs!Lab!LaunchSet, Lab!SelectedSnapshot, OrderProofs!Lab!SelectedSnapshot, Lab!StrategySets,
    OrderProofs!Lab!StrategySets, Lab!Kept, OrderProofs!Lab!Kept, Lab!Cardinality,
    OrderProofs!Lab!Cardinality, Lab!Before, OrderProofs!Lab!Before, Lab!Reviewed, OrderProofs!Lab!Reviewed
<1> Lab!CreateLogEntry <=> OrderProofs!Lab!CreateLogEntry
  BY ZenonT(60) DEF
    Lab!CreateLogEntry, OrderProofs!Lab!CreateLogEntry, Lab!Free, OrderProofs!Lab!Free, Lab!CanClick,
    OrderProofs!Lab!CanClick, Lab!ExperimentLog, OrderProofs!Lab!ExperimentLog, Lab!ComparedRuns,
    OrderProofs!Lab!ComparedRuns, Lab!Kept, OrderProofs!Lab!Kept, Lab!Cardinality,
    OrderProofs!Lab!Cardinality, Lab!Before, OrderProofs!Lab!Before, Lab!Clicked, OrderProofs!Lab!Clicked,
    Lab!KeyDifferences, OrderProofs!Lab!KeyDifferences, Lab!Null, OrderProofs!Lab!Null, Lab!Distinguished,
    OrderProofs!Lab!Distinguished, Lab!Known, OrderProofs!Lab!Known, Lab!Extreme, OrderProofs!Lab!Extreme,
    Lab!Value, OrderProofs!Lab!Value, Lab!PickWinner, OrderProofs!Lab!PickWinner, Lab!Min,
    OrderProofs!Lab!Min, Lab!Observations, OrderProofs!Lab!Observations, Lab!Stay, OrderProofs!Lab!Stay
<1> \A r : Lab!DeliverStrategies(r) <=> OrderProofs!Lab!DeliverStrategies(r)
  BY ZenonT(60), SameRules DEF
    Lab!DeliverStrategies, OrderProofs!Lab!DeliverStrategies, Lab!Null, OrderProofs!Lab!Null, Lab!Chosen,
    OrderProofs!Lab!Chosen
<1> \A r : Lab!DeliverBacktests(r) <=> OrderProofs!Lab!DeliverBacktests(r)
  BY ZenonT(60) DEF
    Lab!DeliverBacktests, OrderProofs!Lab!DeliverBacktests, Lab!Completed, OrderProofs!Lab!Completed,
    Lab!Kept, OrderProofs!Lab!Kept, Lab!Cardinality, OrderProofs!Lab!Cardinality, Lab!Before,
    OrderProofs!Lab!Before
<1> \A r : Lab!DeliverSets(r) <=> OrderProofs!Lab!DeliverSets(r)
  BY DEF
    Lab!DeliverSets, OrderProofs!Lab!DeliverSets
<1> \A r : Lab!DeliverSave(r) <=> OrderProofs!Lab!DeliverSave(r)
  BY DEF
    Lab!DeliverSave, OrderProofs!Lab!DeliverSave, Lab!Null, OrderProofs!Lab!Null
<1> \A r : Lab!DeliverLaunch(r) <=> OrderProofs!Lab!DeliverLaunch(r)
  BY DEF
    Lab!DeliverLaunch, OrderProofs!Lab!DeliverLaunch
<1> \A i : Lab!Handled(i) = OrderProofs!Lab!Handled(i)
  BY DEF
    Lab!Handled, OrderProofs!Lab!Handled, Lab!RemoveAt, OrderProofs!Lab!RemoveAt
<1> Lab!Deliverable = OrderProofs!Lab!Deliverable
  BY DEF
    Lab!Deliverable, OrderProofs!Lab!Deliverable
<1> Lab!Deliver <=> OrderProofs!Lab!Deliver
  BY DEF
    Lab!Deliver, OrderProofs!Lab!Deliver
<1> Lab!Serve <=> OrderProofs!Lab!Serve
  BY ZenonT(60) DEF
    Lab!Serve, OrderProofs!Lab!Serve, Lab!Servable, OrderProofs!Lab!Servable, Lab!ServeList,
    OrderProofs!Lab!ServeList, Lab!Served, OrderProofs!Lab!Served, Lab!ServeSave, OrderProofs!Lab!ServeSave,
    Lab!Taken, OrderProofs!Lab!Taken, Lab!Refused, OrderProofs!Lab!Refused, Lab!Null, OrderProofs!Lab!Null,
    Lab!SetOf, OrderProofs!Lab!SetOf, Lab!ServeLaunch, OrderProofs!Lab!ServeLaunch
<1> Lab!RequestFails <=> OrderProofs!Lab!RequestFails
  BY DEF
    Lab!RequestFails, OrderProofs!Lab!RequestFails, Lab!Servable, OrderProofs!Lab!Servable, Lab!Refused,
    OrderProofs!Lab!Refused, Lab!Null, OrderProofs!Lab!Null
<1> Lab!LabInit <=> OrderProofs!Lab!LabInit
  BY DEF
    Lab!LabInit, OrderProofs!Lab!LabInit, Lab!Null, OrderProofs!Lab!Null, Lab!MinCapital,
    OrderProofs!Lab!MinCapital, Lab!Issue, OrderProofs!Lab!Issue, Lab!NewRequest,
    OrderProofs!Lab!NewRequest, Lab!Wires, OrderProofs!Lab!Wires
<1> Lab!LabNext <=> OrderProofs!Lab!LabNext
  BY ZenonT(60) DEF
    Lab!LabNext, OrderProofs!Lab!LabNext, Lab!ToSet, OrderProofs!Lab!ToSet, Lab!StrategySets,
    OrderProofs!Lab!StrategySets, Lab!Null, OrderProofs!Lab!Null, Lab!Kept, OrderProofs!Lab!Kept,
    Lab!Cardinality, OrderProofs!Lab!Cardinality, Lab!Before, OrderProofs!Lab!Before
<1> QED
  OBVIOUS

\* What is proved is what is claimed of the page.
LEMMA SameLabProperty == Lab!LabAgrees <=> OrderProofs!Lab!LabAgrees
<1>1. Lab!ReadinessRanksConfigurations <=> OrderProofs!Lab!ReadinessRanksConfigurations
  BY ZenonT(60), SameRules DEF
    Lab!ReadinessRanksConfigurations, OrderProofs!Lab!ReadinessRanksConfigurations, Lab!Null,
    OrderProofs!Lab!Null, Lab!ToSet, OrderProofs!Lab!ToSet
<1>2. Lab!ComparedRuns = OrderProofs!Lab!ComparedRuns
  BY ZenonT(60) DEF
    Lab!ComparedRuns, OrderProofs!Lab!ComparedRuns, Lab!Kept, OrderProofs!Lab!Kept, Lab!Cardinality,
    OrderProofs!Lab!Cardinality, Lab!Before, OrderProofs!Lab!Before
<1>3. \A runs : Lab!ComparisonCards(runs) = OrderProofs!Lab!ComparisonCards(runs)
  BY ZenonT(60) DEF
    Lab!ComparisonCards, OrderProofs!Lab!ComparisonCards, Lab!Null, OrderProofs!Lab!Null,
    Lab!ComparisonCard, OrderProofs!Lab!ComparisonCard, Lab!Winners, OrderProofs!Lab!Winners,
    Lab!PickWinner, OrderProofs!Lab!PickWinner, Lab!Known, OrderProofs!Lab!Known, Lab!Min,
    OrderProofs!Lab!Min, Lab!Extreme, OrderProofs!Lab!Extreme, Lab!Value, OrderProofs!Lab!Value,
    Lab!KeyDifferences, OrderProofs!Lab!KeyDifferences, Lab!Distinguished, OrderProofs!Lab!Distinguished,
    Lab!Cardinality, OrderProofs!Lab!Cardinality
<1>4. \A runs : Lab!InsightsWorkspace(runs) = OrderProofs!Lab!InsightsWorkspace(runs)
  BY ZenonT(60) DEF
    Lab!InsightsWorkspace, OrderProofs!Lab!InsightsWorkspace, Lab!Null, OrderProofs!Lab!Null, Lab!Winners,
    OrderProofs!Lab!Winners, Lab!PickWinner, OrderProofs!Lab!PickWinner, Lab!Known, OrderProofs!Lab!Known,
    Lab!Min, OrderProofs!Lab!Min, Lab!Extreme, OrderProofs!Lab!Extreme, Lab!Value, OrderProofs!Lab!Value,
    Lab!Widths, OrderProofs!Lab!Widths, Lab!Max, OrderProofs!Lab!Max, Lab!Magnitude,
    OrderProofs!Lab!Magnitude, Lab!Observations, OrderProofs!Lab!Observations, Lab!WhatImproved,
    OrderProofs!Lab!WhatImproved
<1>5. Lab!ExperimentLog = OrderProofs!Lab!ExperimentLog
  BY ZenonT(60) DEF
    Lab!ExperimentLog, OrderProofs!Lab!ExperimentLog, Lab!ComparedRuns, OrderProofs!Lab!ComparedRuns,
    Lab!Kept, OrderProofs!Lab!Kept, Lab!Cardinality, OrderProofs!Lab!Cardinality, Lab!Before,
    OrderProofs!Lab!Before
<1>6. Lab!ComparisonIsCoherent <=> OrderProofs!Lab!ComparisonIsCoherent
  <2> DEFINE Coherent(runs, comparison, insights, log) ==
        /\ comparison # Lab!Null =>
             LET cards == comparison[1].cards differences == comparison[1].differences IN
             /\ differences.maxDrawdown # Lab!Null =>
                  "maxDrawdown" \in cards[differences.maxDrawdown[1]].badges
             /\ differences.feeDrag # Lab!Null => "feeDrag" \notin cards[differences.feeDrag[1]].badges
             /\ \A i \in DOMAIN cards : cards[i].badges \subseteq cards[i].shown
        /\ insights # Lab!Null =>
             \A metric \in DOMAIN insights[1].bars : \A i, j \in Lab!Known(runs, metric) :
               LET widths == insights[1].bars[metric] IN
               /\ widths[i] <= 100
               /\ widths[i] > widths[j] => Lab!Magnitude(runs, metric, i) > Lab!Magnitude(runs, metric, j)
        /\ \A k \in DOMAIN log.entries :
             LET entry == log.entries[k] IN
             entry.runs = [i \in DOMAIN runs |-> runs[i].id] /\ insights # Lab!Null
               => entry.observations = insights[1].observations
  <2>1. Lab!ComparisonIsCoherent <=>
          Coherent(Lab!ComparedRuns, Lab!ComparisonCards(Lab!ComparedRuns),
                   Lab!InsightsWorkspace(Lab!ComparedRuns), Lab!ExperimentLog)
    BY DEF Lab!ComparisonIsCoherent
  <2>2. OrderProofs!Lab!ComparisonIsCoherent <=>
          Coherent(OrderProofs!Lab!ComparedRuns,
                   OrderProofs!Lab!ComparisonCards(OrderProofs!Lab!ComparedRuns),
                   OrderProofs!Lab!InsightsWorkspace(OrderProofs!Lab!ComparedRuns),
                   OrderProofs!Lab!ExperimentLog)
    BY ZenonT(60) DEF
      OrderProofs!Lab!ComparisonIsCoherent, Lab!Known, OrderProofs!Lab!Known, Lab!Magnitude,
      OrderProofs!Lab!Magnitude, Lab!Value, OrderProofs!Lab!Value, Lab!Null, OrderProofs!Lab!Null
  <2> HIDE DEF Coherent
  <2> QED
    BY <1>2, <1>3, <1>4, <1>5, <2>1, <2>2
<1>7. Lab!LabAgrees <=> OrderProofs!Lab!LabAgrees
  BY <1>1, <1>6 DEF
    Lab!LabAgrees, OrderProofs!Lab!LabAgrees
<1> QED
  BY <1>7

\* What the lab is given is what its proofs ask for.
LEMMA LabGiven == OrderProofs!LabStored
<1>1. OrderProofs!RunsMeasured
  <2>1. Lab!ToSet(Backtests) = OrderProofs!Range(Backtests)
    BY DEF Lab!ToSet, OrderProofs!Range
  <2>2. ASSUME NEW i \in DOMAIN Backtests
        PROVE  OrderProofs!Measured(Backtests[i])
    <3>1. PICK metrics : metrics = Backtests[i].metrics
      OBVIOUS
    <3>2. /\ DOMAIN metrics = OrderProofs!Metrics
          /\ \A metric \in DOMAIN metrics :
               metrics[metric] = <<>> \/ (metrics[metric] = <<metrics[metric][1]>> /\ metrics[metric][1] \in Int)
      BY <3>1, BacktestsAssumption DEF OrderProofs!Metrics
    <3>3. \A metric \in OrderProofs!Metrics :
            metrics[metric] = <<>> \/ \E x \in Int : metrics[metric] = <<x>>
      BY <3>2
    <3> QED
      BY <3>1, <3>2, <3>3 DEF OrderProofs!Measured
  <2> QED
    BY <2>1, <2>2, BacktestsAssumption DEF OrderProofs!RunsMeasured
<1>2. OrderProofs!FitSets(StoredSets)
  <2>1. Lab!ToSet(StoredSets) = OrderProofs!Range(StoredSets)
    BY DEF Lab!ToSet, OrderProofs!Range
  <2>2. ASSUME NEW i \in DOMAIN StoredSets
        PROVE  OrderProofs!FitSet(StoredSets[i])
    <3>1. SUFFICES ASSUME NEW key \in OrderProofs!Lab!Definitions(StoredSets[i].strategy)
                   PROVE  OrderProofs!FitValue(key, StoredSets[i].values[key])
      BY DEF OrderProofs!FitSet
    <3>2. PICK stored : stored = StoredSets[i].values[key]
      OBVIOUS
    <3>3. key \in Lab!Definitions(StoredSets[i].strategy)
      BY SameRules
    <3>4. stored = <<>> \/ (stored = <<stored[1]>> /\ (Lab!IsNumeric(key) => stored[1] \in Int))
      BY <3>2, <3>3, ParametersAssumption
    <3>5. OrderProofs!FitValue(key, stored)
      BY <3>4, SameRules DEF OrderProofs!FitValue, OrderProofs!Numbered
    <3> QED
      BY <3>2, <3>5
  <2> QED
    BY <2>1, <2>2, ParametersAssumption DEF OrderProofs!FitSets
<1>3. \A key \in DOMAIN Typed : \A x \in Typed[key] : OrderProofs!Numbered(key, x)
  BY SameRules, ParametersAssumption DEF OrderProofs!Numbered
<1> QED
  BY <1>1, <1>2, <1>3 DEF OrderProofs!LabStored

----------------------------------------------------------------------------
(* The pages with lists and charts. *)

ListProofs == INSTANCE ListPageProofs
  WITH LiveClicks <- Clicks.live, LiveFailures <- Failures.live,
       DecisionsClicks <- Clicks.decisions, DecisionsFailures <- Failures.decisions,
       RecordsClicks <- Clicks.records, RecordsFailures <- Failures.records,
       MarketsClicks <- Clicks.markets, MarketsFailures <- Failures.markets,
       PaperClicks <- Clicks.paper, PaperFailures <- Failures.paper

\* The proofs are about this page.
LEMMA SameLive ==
  /\ Live!LiveInit <=> ListProofs!Live!LiveInit
  /\ Live!LiveNext <=> ListProofs!Live!LiveNext
  /\ Live!DetailAgreesWithList <=> ListProofs!Live!DetailAgreesWithList
BY ZenonT(60) DEF
  Live!LiveInit, ListProofs!Live!LiveInit, Live!Blank, ListProofs!Live!Blank, Live!Null,
  ListProofs!Live!Null, Live!Previews, ListProofs!Live!Previews, Live!Wires, ListProofs!Live!Wires,
  Live!LiveNext, ListProofs!Live!LiveNext, Live!TypeProfile, ListProofs!Live!TypeProfile, Live!Type,
  ListProofs!Live!Type, Live!TypePreview, ListProofs!Live!TypePreview, Live!WorkerPrepares,
  ListProofs!Live!WorkerPrepares, Live!With, ListProofs!Live!With, Live!Stored, ListProofs!Live!Stored,
  Live!Kept, ListProofs!Live!Kept, Live!Cardinality, ListProofs!Live!Cardinality, Live!Before,
  ListProofs!Live!Before, Live!Replaced, ListProofs!Live!Replaced, Live!Order, ListProofs!Live!Order,
  Live!WorkerSends, ListProofs!Live!WorkerSends, Live!ToSet, ListProofs!Live!ToSet, Live!ExchangeFills,
  ListProofs!Live!ExchangeFills, Live!TypeToken, ListProofs!Live!TypeToken, Live!CanClick,
  ListProofs!Live!CanClick, Live!Clicked, ListProofs!Live!Clicked, Live!SelectOrder,
  ListProofs!Live!SelectOrder, Live!Checks, ListProofs!Live!Checks, Live!SelectCheck,
  ListProofs!Live!SelectCheck, Live!TypePhrase, ListProofs!Live!TypePhrase, Live!LoadWorkspace,
  ListProofs!Live!LoadWorkspace, Live!Ask, ListProofs!Live!Ask, Live!Issue, ListProofs!Live!Issue,
  Live!NewRequest, ListProofs!Live!NewRequest, Live!RunDryRun, ListProofs!Live!RunDryRun, Live!CanDryRun,
  ListProofs!Live!CanDryRun, Live!ReconcileOrder, ListProofs!Live!ReconcileOrder, Live!CancelOrder,
  ListProofs!Live!CancelOrder, Live!Deliver, ListProofs!Live!Deliver, Live!Deliverable,
  ListProofs!Live!Deliverable, Live!DeliverLoad, ListProofs!Live!DeliverLoad, Live!Failed,
  ListProofs!Live!Failed, Live!DeliverDryRun, ListProofs!Live!DeliverDryRun, Live!Others,
  ListProofs!Live!Others, Live!DeliverReconciled, ListProofs!Live!DeliverReconciled, Live!DeliverOrder,
  ListProofs!Live!DeliverOrder, Live!DeliverCancelled, ListProofs!Live!DeliverCancelled, Live!Handled,
  ListProofs!Live!Handled, Live!RemoveAt, ListProofs!Live!RemoveAt, Live!Serve, ListProofs!Live!Serve,
  Live!Servable, ListProofs!Live!Servable, Live!ServeLoad, ListProofs!Live!ServeLoad, Live!Served,
  ListProofs!Live!Served, Live!ListOrders, ListProofs!Live!ListOrders, Live!Reverse,
  ListProofs!Live!Reverse, Live!ServeDryRun, ListProofs!Live!ServeDryRun, Live!GetOrCreate,
  ListProofs!Live!GetOrCreate, Live!DryRunStates, ListProofs!Live!DryRunStates, Live!Refused,
  ListProofs!Live!Refused, Live!Replayed, ListProofs!Live!Replayed, Live!ServeReconcile,
  ListProofs!Live!ServeReconcile, Live!ReconciledStatuses, ListProofs!Live!ReconciledStatuses,
  Live!ServeCancel, ListProofs!Live!ServeCancel, Live!RequestFails, ListProofs!Live!RequestFails,
  Live!DetailAgreesWithList, ListProofs!Live!DetailAgreesWithList

\* The proofs are about this page.
LEMMA SameDecisions ==
  /\ Decisions!DecisionsInit <=> ListProofs!Decisions!DecisionsInit
  /\ Decisions!DecisionsNext <=> ListProofs!Decisions!DecisionsNext
  /\ Decisions!ViewsMatchControls <=> ListProofs!Decisions!ViewsMatchControls
BY ZenonT(60) DEF
  Decisions!DecisionsInit, ListProofs!Decisions!DecisionsInit, Decisions!ToSet, ListProofs!Decisions!ToSet,
  Decisions!Views, ListProofs!Decisions!Views, Decisions!Null, ListProofs!Decisions!Null,
  Decisions!AfterFilter, ListProofs!Decisions!AfterFilter, Decisions!Loading, ListProofs!Decisions!Loading,
  Decisions!FilterRuns, ListProofs!Decisions!FilterRuns, Decisions!RunLists, ListProofs!Decisions!RunLists,
  Decisions!ListRequest, ListProofs!Decisions!ListRequest, Decisions!FixedRequest,
  ListProofs!Decisions!FixedRequest, Decisions!Captured, ListProofs!Decisions!Captured, Decisions!PageOf,
  ListProofs!Decisions!PageOf, Decisions!Min, ListProofs!Decisions!Min, Decisions!Wires,
  ListProofs!Decisions!Wires, Decisions!DecisionsNext, ListProofs!Decisions!DecisionsNext,
  Decisions!TypeFilter, ListProofs!Decisions!TypeFilter, Decisions!CanClick, ListProofs!Decisions!CanClick,
  Decisions!Clicked, ListProofs!Decisions!Clicked, Decisions!Asks, ListProofs!Decisions!Asks,
  Decisions!MaxPage, ListProofs!Decisions!MaxPage, Decisions!PageCount, ListProofs!Decisions!PageCount,
  Decisions!Max, ListProofs!Decisions!Max, Decisions!TurnPage, ListProofs!Decisions!TurnPage,
  Decisions!PageRuns, ListProofs!Decisions!PageRuns, Decisions!Rows, ListProofs!Decisions!Rows,
  Decisions!Timeline, ListProofs!Decisions!Timeline, Decisions!SelectDecision,
  ListProofs!Decisions!SelectDecision, Decisions!Select, ListProofs!Decisions!Select,
  Decisions!AfterSelection, ListProofs!Decisions!AfterSelection, Decisions!SelectionRuns,
  ListProofs!Decisions!SelectionRuns, Decisions!RunDetails, ListProofs!Decisions!RunDetails,
  Decisions!DetailRequest, ListProofs!Decisions!DetailRequest, Decisions!ApplyFilters,
  ListProofs!Decisions!ApplyFilters, Decisions!Kept, ListProofs!Decisions!Kept, Decisions!Cardinality,
  ListProofs!Decisions!Cardinality, Decisions!Before, ListProofs!Decisions!Before, Decisions!Deliver,
  ListProofs!Decisions!Deliver, Decisions!Deliverable, ListProofs!Decisions!Deliverable,
  Decisions!DeliverTimeline, ListProofs!Decisions!DeliverTimeline, Decisions!Loaded,
  ListProofs!Decisions!Loaded, Decisions!Handled, ListProofs!Decisions!Handled, Decisions!RemoveAt,
  ListProofs!Decisions!RemoveAt, Decisions!DeliverView, ListProofs!Decisions!DeliverView,
  Decisions!RequestFails, ListProofs!Decisions!RequestFails, Decisions!Servable,
  ListProofs!Decisions!Servable, Decisions!Refused, ListProofs!Decisions!Refused,
  Decisions!ViewsMatchControls, ListProofs!Decisions!ViewsMatchControls, Decisions!DetailOf,
  ListProofs!Decisions!DetailOf

\* The proofs are about this page.
LEMMA SameScreens ==
  /\ Records!RecordsInit <=> ListProofs!Records!RecordsInit
  /\ Records!RecordsNext <=> ListProofs!Records!RecordsNext
  /\ Records!ScreensShowTheirRecords <=> ListProofs!Records!ScreensShowTheirRecords
BY ZenonT(60) DEF
  Records!RecordsInit, ListProofs!Records!RecordsInit, Records!Mounted, ListProofs!Records!Mounted,
  Records!NewScreen, ListProofs!Records!NewScreen, Records!All, ListProofs!Records!All, Records!Null,
  ListProofs!Records!Null, Records!Starting, ListProofs!Records!Starting, Records!MountRequests,
  ListProofs!Records!MountRequests, Records!LoadRequests, ListProofs!Records!LoadRequests, Records!Issue,
  ListProofs!Records!Issue, Records!NewRequest, ListProofs!Records!NewRequest, Records!Query,
  ListProofs!Records!Query, Records!RowsPerPage, ListProofs!Records!RowsPerPage, Records!Wires,
  ListProofs!Records!Wires, Records!RecordsNext, ListProofs!Records!RecordsNext, Records!OpenInspector,
  ListProofs!Records!OpenInspector, Records!GoTo, ListProofs!Records!GoTo, Records!CanClick,
  ListProofs!Records!CanClick, Records!BackToExplorer, ListProofs!Records!BackToExplorer,
  Records!TypeAction, ListProofs!Records!TypeAction, Records!Edit, ListProofs!Records!Edit, Records!Clicked,
  ListProofs!Records!Clicked, Records!Sorts, ListProofs!Records!Sorts, Records!ChooseSort,
  ListProofs!Records!ChooseSort, Records!TypeSize, ListProofs!Records!TypeSize, Records!ApplyFilters,
  ListProofs!Records!ApplyFilters, Records!LoadPage, ListProofs!Records!LoadPage, Records!PreviousPage,
  ListProofs!Records!PreviousPage, Records!CanTurn, ListProofs!Records!CanTurn, Records!NextPage,
  ListProofs!Records!NextPage, Records!MaxPage, ListProofs!Records!MaxPage, Records!RunCoachReview,
  ListProofs!Records!RunCoachReview, Records!LoadLearnQueue, ListProofs!Records!LoadLearnQueue,
  Records!Learning, ListProofs!Records!Learning, Records!LearnRequests, ListProofs!Records!LearnRequests,
  Records!Deliver, ListProofs!Records!Deliver, Records!Deliverable, ListProofs!Records!Deliverable,
  Records!DeliverHalf, ListProofs!Records!DeliverHalf, Records!Kept, ListProofs!Records!Kept,
  Records!Cardinality, ListProofs!Records!Cardinality, Records!Before, ListProofs!Records!Before,
  Records!Handled, ListProofs!Records!Handled, Records!RemoveAt, ListProofs!Records!RemoveAt,
  Records!DeliverRecords, ListProofs!Records!DeliverRecords, Records!DeliverInspection,
  ListProofs!Records!DeliverInspection, Records!DeliverCoach, ListProofs!Records!DeliverCoach,
  Records!DeliverLearn, ListProofs!Records!DeliverLearn, Records!Serve, ListProofs!Records!Serve,
  Records!Servable, ListProofs!Records!Servable, Records!Served, ListProofs!Records!Served, Records!Payload,
  ListProofs!Records!Payload, Records!Records, ListProofs!Records!Records, Records!MatchingIds,
  ListProofs!Records!MatchingIds, Records!Reverse, ListProofs!Records!Reverse, Records!FirstN,
  ListProofs!Records!FirstN, Records!Summary, ListProofs!Records!Summary, Records!Reviewed,
  ListProofs!Records!Reviewed, Records!ToSet, ListProofs!Records!ToSet, Records!LearnPage,
  ListProofs!Records!LearnPage, Records!RecordDecision, ListProofs!Records!RecordDecision,
  Records!RequestFails, ListProofs!Records!RequestFails, Records!Refused, ListProofs!Records!Refused,
  Records!ScreensShowTheirRecords, ListProofs!Records!ScreensShowTheirRecords,
  Records!ExplorerShowsItsFilters, ListProofs!Records!ExplorerShowsItsFilters, Records!Quiet,
  ListProofs!Records!Quiet, Records!InspectorShowsItsDecision, ListProofs!Records!InspectorShowsItsDecision,
  Records!InspectorView, ListProofs!Records!InspectorView, Records!Gaps, ListProofs!Records!Gaps,
  Records!Blank, ListProofs!Records!Blank, Records!Listed, ListProofs!Records!Listed

\* The proofs are about this page.
LEMMA SameMarkets ==
  /\ Markets!MarketsInit <=> ListProofs!Markets!MarketsInit
  /\ Markets!MarketsNext <=> ListProofs!Markets!MarketsNext
  /\ Markets!ChartIsTrue <=> ListProofs!Markets!ChartIsTrue
BY ZenonT(60) DEF
  Markets!MarketsInit, ListProofs!Markets!MarketsInit, Markets!Null, ListProofs!Markets!Null,
  Markets!FirstInterval, ListProofs!Markets!FirstInterval, Markets!Issue, ListProofs!Markets!Issue,
  Markets!NewRequest, ListProofs!Markets!NewRequest, Markets!Wires, ListProofs!Markets!Wires,
  Markets!MarketsNext, ListProofs!Markets!MarketsNext, Markets!SelectAsset, ListProofs!Markets!SelectAsset,
  Markets!CanClick, ListProofs!Markets!CanClick, Markets!Show, ListProofs!Markets!Show, Markets!AfterFetch,
  ListProofs!Markets!AfterFetch, Markets!CacheHit, ListProofs!Markets!CacheHit, Markets!FetchIssues,
  ListProofs!Markets!FetchIssues, Markets!Clicked, ListProofs!Markets!Clicked, Markets!SelectInterval,
  ListProofs!Markets!SelectInterval, Markets!TypePeriod, ListProofs!Markets!TypePeriod, Markets!ToggleSma,
  ListProofs!Markets!ToggleSma, Markets!Retry, ListProofs!Markets!Retry, Markets!Deliver,
  ListProofs!Markets!Deliver, Markets!Deliverable, ListProofs!Markets!Deliverable, Markets!DeliverAssets,
  ListProofs!Markets!DeliverAssets, Markets!Handled, ListProofs!Markets!Handled, Markets!RemoveAt,
  ListProofs!Markets!RemoveAt, Markets!DeliverCandles, ListProofs!Markets!DeliverCandles, Markets!Cached,
  ListProofs!Markets!Cached, Markets!Serve, ListProofs!Markets!Serve, Markets!Servable,
  ListProofs!Markets!Servable, Markets!Served, ListProofs!Markets!Served, Markets!Payload,
  ListProofs!Markets!Payload, Markets!RequestFails, ListProofs!Markets!RequestFails, Markets!Refused,
  ListProofs!Markets!Refused, Markets!ChartIsTrue, ListProofs!Markets!ChartIsTrue, Markets!CandleCacheTrue,
  ListProofs!Markets!CandleCacheTrue, Markets!SmaIsAverage, ListProofs!Markets!SmaIsAverage,
  Markets!SmaSums, ListProofs!Markets!SmaSums, Markets!RunningSum, ListProofs!Markets!RunningSum,
  Markets!ChartPoints, ListProofs!Markets!ChartPoints, Markets!Kept, ListProofs!Markets!Kept,
  Markets!Cardinality, ListProofs!Markets!Cardinality, Markets!Before, ListProofs!Markets!Before,
  Markets!Total, ListProofs!Markets!Total

\* The proofs are about this page.
LEMMA SamePaper ==
  /\ Paper!PaperInit <=> ListProofs!Paper!PaperInit
  /\ Paper!PaperNext <=> ListProofs!Paper!PaperNext
  /\ Paper!AnalyticsOfAccount <=> ListProofs!Paper!AnalyticsOfAccount
BY ZenonT(60) DEF
  Paper!PaperInit, ListProofs!Paper!PaperInit, Paper!Null, ListProofs!Paper!Null, Paper!NoId,
  ListProofs!Paper!NoId, Paper!NoFilter, ListProofs!Paper!NoFilter, Paper!Issue, ListProofs!Paper!Issue,
  Paper!NewRequest, ListProofs!Paper!NewRequest, Paper!FreshAccount, ListProofs!Paper!FreshAccount,
  Paper!Wires, ListProofs!Paper!Wires, Paper!PaperNext, ListProofs!Paper!PaperNext, Paper!LoadAccount,
  ListProofs!Paper!LoadAccount, Paper!PageFree, ListProofs!Paper!PageFree, Paper!CanClick,
  ListProofs!Paper!CanClick, Paper!Render, ListProofs!Paper!Render, Paper!IdChanged,
  ListProofs!Paper!IdChanged, Paper!StartTrades, ListProofs!Paper!StartTrades, Paper!TradesRequest,
  ListProofs!Paper!TradesRequest, Paper!Clicked, ListProofs!Paper!Clicked, Paper!Filters,
  ListProofs!Paper!Filters, Paper!ApplyFilters, ListProofs!Paper!ApplyFilters, Paper!LoadTrades,
  ListProofs!Paper!LoadTrades, Paper!CreateAccount, ListProofs!Paper!CreateAccount, Paper!MinBalance,
  ListProofs!Paper!MinBalance, Paper!Trade, ListProofs!Paper!Trade, Paper!RetryTrades,
  ListProofs!Paper!RetryTrades, Paper!ToggleConfirm, ListProofs!Paper!ToggleConfirm, Paper!ConfirmReset,
  ListProofs!Paper!ConfirmReset, Paper!Deliver, ListProofs!Paper!Deliver, Paper!Deliverable,
  ListProofs!Paper!Deliverable, Paper!Handled, ListProofs!Paper!Handled, Paper!RemoveAt,
  ListProofs!Paper!RemoveAt, Paper!DeliverAccount, ListProofs!Paper!DeliverAccount, Paper!Activated,
  ListProofs!Paper!Activated, Paper!DeliverTrades, ListProofs!Paper!DeliverTrades, Paper!DeliverCreate,
  ListProofs!Paper!DeliverCreate, Paper!DeliverReset, ListProofs!Paper!DeliverReset, Paper!Serve,
  ListProofs!Paper!Serve, Paper!Servable, ListProofs!Paper!Servable, Paper!Executes,
  ListProofs!Paper!Executes, Paper!Served, ListProofs!Paper!Served, Paper!Payload, ListProofs!Paper!Payload,
  Paper!AccountAnswer, ListProofs!Paper!AccountAnswer, Paper!Equity, ListProofs!Paper!Equity, Paper!Primary,
  ListProofs!Paper!Primary, Paper!TradesAnswer, ListProofs!Paper!TradesAnswer, Paper!Reverse,
  ListProofs!Paper!Reverse, Paper!Kept, ListProofs!Paper!Kept, Paper!Cardinality,
  ListProofs!Paper!Cardinality, Paper!Before, ListProofs!Paper!Before, Paper!CreatedAnswer,
  ListProofs!Paper!CreatedAnswer, Paper!Effect, ListProofs!Paper!Effect, Paper!Refused,
  ListProofs!Paper!Refused, Paper!RequestFails, ListProofs!Paper!RequestFails, Paper!AnalyticsOfAccount,
  ListProofs!Paper!AnalyticsOfAccount, Paper!PaperTradesOfAccount, ListProofs!Paper!PaperTradesOfAccount,
  Paper!DrawdownIsDeepest, ListProofs!Paper!DrawdownIsDeepest, Paper!ShownTimeline,
  ListProofs!Paper!ShownTimeline, Paper!Timeline, ListProofs!Paper!Timeline, Paper!Drawdown,
  ListProofs!Paper!Drawdown, Paper!Max, ListProofs!Paper!Max, Paper!RisingSteps,
  ListProofs!Paper!RisingSteps

----------------------------------------------------------------------------
(* The pages that are reviewed, simulate and research. *)

ReviewProofs == INSTANCE ReviewPageProofs
  WITH RecordsClicks <- Clicks.records, RecordsFailures <- Failures.records,
       RiskClicks <- Clicks.risk, RiskFailures <- Failures.risk,
       BacktestsClicks <- Clicks.backtests, BacktestsFailures <- Failures.backtests,
       MissionClicks <- Clicks.mission, MissionFailures <- Failures.mission,
       ArenaClicks <- Clicks.arena, ArenaFailures <- Failures.arena,
       DashboardClicks <- Clicks.dashboard, DashboardFailures <- Failures.dashboard

\* The proofs are about this page.
LEMMA SameRecords ==
  /\ Records!RecordsInit <=> ReviewProofs!Records!RecordsInit
  /\ Records!RecordsNext <=> ReviewProofs!Records!RecordsNext
  /\ Records!ReviewedOnce <=> ReviewProofs!Records!ReviewedOnce
BY ZenonT(60) DEF
  Records!RecordsInit, ReviewProofs!Records!RecordsInit, Records!Mounted, ReviewProofs!Records!Mounted,
  Records!NewScreen, ReviewProofs!Records!NewScreen, Records!All, ReviewProofs!Records!All, Records!Null,
  ReviewProofs!Records!Null, Records!Starting, ReviewProofs!Records!Starting, Records!MountRequests,
  ReviewProofs!Records!MountRequests, Records!LoadRequests, ReviewProofs!Records!LoadRequests,
  Records!Issue, ReviewProofs!Records!Issue, Records!NewRequest, ReviewProofs!Records!NewRequest,
  Records!Query, ReviewProofs!Records!Query, Records!RowsPerPage, ReviewProofs!Records!RowsPerPage,
  Records!Wires, ReviewProofs!Records!Wires, Records!RecordsNext, ReviewProofs!Records!RecordsNext,
  Records!OpenInspector, ReviewProofs!Records!OpenInspector, Records!GoTo, ReviewProofs!Records!GoTo,
  Records!CanClick, ReviewProofs!Records!CanClick, Records!BackToExplorer,
  ReviewProofs!Records!BackToExplorer, Records!TypeAction, ReviewProofs!Records!TypeAction, Records!Edit,
  ReviewProofs!Records!Edit, Records!Clicked, ReviewProofs!Records!Clicked, Records!Sorts,
  ReviewProofs!Records!Sorts, Records!ChooseSort, ReviewProofs!Records!ChooseSort, Records!TypeSize,
  ReviewProofs!Records!TypeSize, Records!ApplyFilters, ReviewProofs!Records!ApplyFilters, Records!LoadPage,
  ReviewProofs!Records!LoadPage, Records!PreviousPage, ReviewProofs!Records!PreviousPage, Records!CanTurn,
  ReviewProofs!Records!CanTurn, Records!NextPage, ReviewProofs!Records!NextPage, Records!MaxPage,
  ReviewProofs!Records!MaxPage, Records!RunCoachReview, ReviewProofs!Records!RunCoachReview,
  Records!LoadLearnQueue, ReviewProofs!Records!LoadLearnQueue, Records!Learning,
  ReviewProofs!Records!Learning, Records!LearnRequests, ReviewProofs!Records!LearnRequests, Records!Deliver,
  ReviewProofs!Records!Deliver, Records!Deliverable, ReviewProofs!Records!Deliverable, Records!DeliverHalf,
  ReviewProofs!Records!DeliverHalf, Records!Kept, ReviewProofs!Records!Kept, Records!Cardinality,
  ReviewProofs!Records!Cardinality, Records!Before, ReviewProofs!Records!Before, Records!Handled,
  ReviewProofs!Records!Handled, Records!RemoveAt, ReviewProofs!Records!RemoveAt, Records!DeliverRecords,
  ReviewProofs!Records!DeliverRecords, Records!DeliverInspection, ReviewProofs!Records!DeliverInspection,
  Records!DeliverCoach, ReviewProofs!Records!DeliverCoach, Records!DeliverLearn,
  ReviewProofs!Records!DeliverLearn, Records!Serve, ReviewProofs!Records!Serve, Records!Servable,
  ReviewProofs!Records!Servable, Records!Served, ReviewProofs!Records!Served, Records!Payload,
  ReviewProofs!Records!Payload, Records!Records, ReviewProofs!Records!Records, Records!MatchingIds,
  ReviewProofs!Records!MatchingIds, Records!Reverse, ReviewProofs!Records!Reverse, Records!FirstN,
  ReviewProofs!Records!FirstN, Records!Summary, ReviewProofs!Records!Summary, Records!Reviewed,
  ReviewProofs!Records!Reviewed, Records!ToSet, ReviewProofs!Records!ToSet, Records!LearnPage,
  ReviewProofs!Records!LearnPage, Records!RecordDecision, ReviewProofs!Records!RecordDecision,
  Records!RequestFails, ReviewProofs!Records!RequestFails, Records!Refused, ReviewProofs!Records!Refused,
  Records!ReviewedOnce, ReviewProofs!Records!ReviewedOnce

\* The proofs are about this page.
LEMMA SameRisk ==
  /\ Risk!RiskInit <=> ReviewProofs!Risk!RiskInit
  /\ Risk!RiskNext <=> ReviewProofs!Risk!RiskNext
  /\ Risk!RiskAgrees <=> ReviewProofs!Risk!RiskAgrees
BY ZenonT(60) DEF
  Risk!RiskInit, ReviewProofs!Risk!RiskInit, Risk!Null, ReviewProofs!Risk!Null, Risk!Wires,
  ReviewProofs!Risk!Wires, Risk!RiskNext, ReviewProofs!Risk!RiskNext, Risk!LoadAccount,
  ReviewProofs!Risk!LoadAccount, Risk!PageFree, ReviewProofs!Risk!PageFree, Risk!CanClick,
  ReviewProofs!Risk!CanClick, Risk!StartRules, ReviewProofs!Risk!StartRules, Risk!StartStatus,
  ReviewProofs!Risk!StartStatus, Risk!Issue, ReviewProofs!Risk!Issue, Risk!NewRequest,
  ReviewProofs!Risk!NewRequest, Risk!EditDraft, ReviewProofs!Risk!EditDraft, Risk!Intents,
  ReviewProofs!Risk!Intents, Risk!OpenConfirm, ReviewProofs!Risk!OpenConfirm, Risk!SaveRules,
  ReviewProofs!Risk!SaveRules, Risk!DraftLoosens, ReviewProofs!Risk!DraftLoosens, Risk!Clicked,
  ReviewProofs!Risk!Clicked, Risk!ApplyKillSwitch, ReviewProofs!Risk!ApplyKillSwitch, Risk!StatusTick,
  ReviewProofs!Risk!StatusTick, Risk!Pending, ReviewProofs!Risk!Pending, Risk!RevertDraft,
  ReviewProofs!Risk!RevertDraft, Risk!CloseConfirm, ReviewProofs!Risk!CloseConfirm, Risk!Acknowledge,
  ReviewProofs!Risk!Acknowledge, Risk!Deliver, ReviewProofs!Risk!Deliver, Risk!Deliverable,
  ReviewProofs!Risk!Deliverable, Risk!Handled, ReviewProofs!Risk!Handled, Risk!RemoveAt,
  ReviewProofs!Risk!RemoveAt, Risk!DeliverStatus, ReviewProofs!Risk!DeliverStatus,
  Risk!DeliverUnknownStatus, ReviewProofs!Risk!DeliverUnknownStatus, Risk!DeliverRules,
  ReviewProofs!Risk!DeliverRules, Risk!DeliverPatch, ReviewProofs!Risk!DeliverPatch, Risk!DeliverSwitch,
  ReviewProofs!Risk!DeliverSwitch, Risk!DeliverReload, ReviewProofs!Risk!DeliverReload, Risk!Serve,
  ReviewProofs!Risk!Serve, Risk!Servable, ReviewProofs!Risk!Servable, Risk!ServePatch,
  ReviewProofs!Risk!ServePatch, Risk!Refused, ReviewProofs!Risk!Refused, Risk!ServeSwitch,
  ReviewProofs!Risk!ServeSwitch, Risk!Served, ReviewProofs!Risk!Served, Risk!Switched,
  ReviewProofs!Risk!Switched, Risk!GlobalScope, ReviewProofs!Risk!GlobalScope, Risk!Enables,
  ReviewProofs!Risk!Enables, Risk!ServeRules, ReviewProofs!Risk!ServeRules, Risk!ServeStatus,
  ReviewProofs!Risk!ServeStatus, Risk!StatusAnswer, ReviewProofs!Risk!StatusAnswer, Risk!RequestFails,
  ReviewProofs!Risk!RequestFails, Risk!RiskAgrees, ReviewProofs!Risk!RiskAgrees

\* The proofs are about these changes.
LEMMA SameRuleChanges ==
  /\ Rules!RulesInit <=> ReviewProofs!Rules!RulesInit
  /\ Rules!RulesNext <=> ReviewProofs!Rules!RulesNext
  /\ Rules!RulesWithinAcknowledged <=> ReviewProofs!Rules!RulesWithinAcknowledged
BY ZenonT(60) DEF
  Rules!RulesInit, ReviewProofs!Rules!RulesInit, Rules!RulesNext, ReviewProofs!Rules!RulesNext,
  Rules!BeginChange, ReviewProofs!Rules!BeginChange, Rules!PatchAccepted,
  ReviewProofs!Rules!PatchAccepted, Rules!Loosens, ReviewProofs!Rules!Loosens, Rules!Loosest,
  ReviewProofs!Rules!Loosest, Rules!EndChange, ReviewProofs!Rules!EndChange, Rules!Written,
  ReviewProofs!Rules!Written, Rules!Merged, ReviewProofs!Rules!Merged, Rules!RulesWithinAcknowledged,
  ReviewProofs!Rules!RulesWithinAcknowledged

\* The proofs are about this page.
LEMMA SameSimulations ==
  /\ Simulations!BacktestsInit <=> ReviewProofs!Simulations!BacktestsInit
  /\ Simulations!BacktestsNext <=> ReviewProofs!Simulations!BacktestsNext
  /\ Simulations!ShownIsActive <=> ReviewProofs!Simulations!ShownIsActive
BY ZenonT(60) DEF
  Simulations!BacktestsInit, ReviewProofs!Simulations!BacktestsInit, Simulations!Null,
  ReviewProofs!Simulations!Null, Simulations!Empty, ReviewProofs!Simulations!Empty, Simulations!Issue,
  ReviewProofs!Simulations!Issue, Simulations!NewRequest, ReviewProofs!Simulations!NewRequest,
  Simulations!Earliest, ReviewProofs!Simulations!Earliest, Simulations!Started,
  ReviewProofs!Simulations!Started, Simulations!Wires, ReviewProofs!Simulations!Wires,
  Simulations!BacktestsNext, ReviewProofs!Simulations!BacktestsNext, Simulations!ToSet,
  ReviewProofs!Simulations!ToSet, Simulations!ChooseStrategy, ReviewProofs!Simulations!ChooseStrategy,
  Simulations!Edit, ReviewProofs!Simulations!Edit, Simulations!CanClick, ReviewProofs!Simulations!CanClick,
  Simulations!FormDisabled, ReviewProofs!Simulations!FormDisabled, Simulations!Clicked,
  ReviewProofs!Simulations!Clicked, Simulations!FirstSet, ReviewProofs!Simulations!FirstSet,
  Simulations!ChooseSet, ReviewProofs!Simulations!ChooseSet, Simulations!SetsOf,
  ReviewProofs!Simulations!SetsOf, Simulations!TypeNumbers, ReviewProofs!Simulations!TypeNumbers,
  Simulations!ShowBacktest, ReviewProofs!Simulations!ShowBacktest, Simulations!RunBacktest,
  ReviewProofs!Simulations!RunBacktest, Simulations!FormProblem, ReviewProofs!Simulations!FormProblem,
  Simulations!PollTick, ReviewProofs!Simulations!PollTick, Simulations!Polling,
  ReviewProofs!Simulations!Polling, Simulations!Deliver, ReviewProofs!Simulations!Deliver,
  Simulations!Deliverable, ReviewProofs!Simulations!Deliverable, Simulations!Handled,
  ReviewProofs!Simulations!Handled, Simulations!RemoveAt, ReviewProofs!Simulations!RemoveAt,
  Simulations!DeliverBootstrap, ReviewProofs!Simulations!DeliverBootstrap, Simulations!Goes,
  ReviewProofs!Simulations!Goes, Simulations!Defaulted, ReviewProofs!Simulations!Defaulted,
  Simulations!DeliverFirst, ReviewProofs!Simulations!DeliverFirst, Simulations!DeliverDetail,
  ReviewProofs!Simulations!DeliverDetail, Simulations!DeliverRun, ReviewProofs!Simulations!DeliverRun,
  Simulations!Response, ReviewProofs!Simulations!Response, Simulations!Serve,
  ReviewProofs!Simulations!Serve, Simulations!Servable, ReviewProofs!Simulations!Servable,
  Simulations!ServeRead, ReviewProofs!Simulations!ServeRead, Simulations!Served,
  ReviewProofs!Simulations!Served, Simulations!History, ReviewProofs!Simulations!History,
  Simulations!Reverse, ReviewProofs!Simulations!Reverse, Simulations!CreateRun,
  ReviewProofs!Simulations!CreateRun, Simulations!Fits, ReviewProofs!Simulations!Fits, Simulations!Refused,
  ReviewProofs!Simulations!Refused, Simulations!AnswerRun, ReviewProofs!Simulations!AnswerRun,
  Simulations!Advance, ReviewProofs!Simulations!Advance, Simulations!MarkRunning,
  ReviewProofs!Simulations!MarkRunning, Simulations!FinishBacktest, ReviewProofs!Simulations!FinishBacktest,
  Simulations!RequestFails, ReviewProofs!Simulations!RequestFails, Simulations!ShownIsActive,
  ReviewProofs!Simulations!ShownIsActive

\* The proofs are about this page.
LEMMA SameMission ==
  /\ Mission!MissionInit <=> ReviewProofs!Mission!MissionInit
  /\ Mission!MissionNext <=> ReviewProofs!Mission!MissionNext
  /\ Mission!SelectionFollowed <=> ReviewProofs!Mission!SelectionFollowed
<1> \A s, places : Mission!Kept(s, places) = ReviewProofs!Mission!Kept(s, places)
  BY DEF
    Mission!Kept, ReviewProofs!Mission!Kept, Mission!Cardinality, ReviewProofs!Mission!Cardinality,
    Mission!Before, ReviewProofs!Mission!Before
<1> \A points, date : Mission!Nearest(points, date) = ReviewProofs!Mission!Nearest(points, date)
  BY DEF
    Mission!Nearest, ReviewProofs!Mission!Nearest, Mission!Min, ReviewProofs!Mission!Min, Mission!Distance,
    ReviewProofs!Mission!Distance
<1> \A view : Mission!Followed(view) = ReviewProofs!Mission!Followed(view)
  BY DEF
    Mission!Followed, ReviewProofs!Mission!Followed, Mission!HistoryPoints,
    ReviewProofs!Mission!HistoryPoints, Mission!Null, ReviewProofs!Mission!Null, Mission!Min,
    ReviewProofs!Mission!Min
<1> \A query, exchange : Mission!Payload(query, exchange) = ReviewProofs!Mission!Payload(query, exchange)
  BY DEF
    Mission!Payload, ReviewProofs!Mission!Payload, Mission!History, ReviewProofs!Mission!History,
    Mission!Max, ReviewProofs!Mission!Max
<1> Mission!Points = ReviewProofs!Mission!Points
  BY DEF
    Mission!Points, ReviewProofs!Mission!Points, Mission!HistoryPoints, ReviewProofs!Mission!HistoryPoints,
    Mission!Null, ReviewProofs!Mission!Null
<1> \A range : Mission!SelectRange(range) <=> ReviewProofs!Mission!SelectRange(range)
  BY DEF
    Mission!SelectRange, ReviewProofs!Mission!SelectRange, Mission!CanClick, ReviewProofs!Mission!CanClick,
    Mission!TabContent, ReviewProofs!Mission!TabContent, Mission!Null, ReviewProofs!Mission!Null,
    Mission!Requery, ReviewProofs!Mission!Requery, Mission!Run, ReviewProofs!Mission!Run, Mission!RunStarts,
    ReviewProofs!Mission!RunStarts, Mission!RunIssues, ReviewProofs!Mission!RunIssues, Mission!Issue,
    ReviewProofs!Mission!Issue, Mission!NewRequest, ReviewProofs!Mission!NewRequest, Mission!Query,
    ReviewProofs!Mission!Query, Mission!Clicked, ReviewProofs!Mission!Clicked
<1> \A mode : Mission!SelectMode(mode) <=> ReviewProofs!Mission!SelectMode(mode)
  BY DEF
    Mission!SelectMode, ReviewProofs!Mission!SelectMode, Mission!CanClick, ReviewProofs!Mission!CanClick,
    Mission!TabContent, ReviewProofs!Mission!TabContent, Mission!Null, ReviewProofs!Mission!Null,
    Mission!Requery, ReviewProofs!Mission!Requery, Mission!Run, ReviewProofs!Mission!Run, Mission!RunStarts,
    ReviewProofs!Mission!RunStarts, Mission!RunIssues, ReviewProofs!Mission!RunIssues, Mission!Issue,
    ReviewProofs!Mission!Issue, Mission!NewRequest, ReviewProofs!Mission!NewRequest, Mission!Query,
    ReviewProofs!Mission!Query, Mission!Clicked, ReviewProofs!Mission!Clicked
<1> \A tab : Mission!SelectTab(tab) <=> ReviewProofs!Mission!SelectTab(tab)
  BY DEF
    Mission!SelectTab, ReviewProofs!Mission!SelectTab, Mission!CanClick, ReviewProofs!Mission!CanClick,
    Mission!TabContent, ReviewProofs!Mission!TabContent, Mission!Null, ReviewProofs!Mission!Null,
    Mission!Clicked, ReviewProofs!Mission!Clicked, Mission!Stay, ReviewProofs!Mission!Stay
<1> \A i : Mission!SelectSnapshot(i) <=> ReviewProofs!Mission!SelectSnapshot(i)
  BY DEF
    Mission!SelectSnapshot, ReviewProofs!Mission!SelectSnapshot, Mission!CanClick,
    ReviewProofs!Mission!CanClick, Mission!TabContent, ReviewProofs!Mission!TabContent, Mission!Null,
    ReviewProofs!Mission!Null, Mission!Clicked, ReviewProofs!Mission!Clicked, Mission!Stay,
    ReviewProofs!Mission!Stay
<1> \A i : Mission!SelectProfitPoint(i) <=> ReviewProofs!Mission!SelectProfitPoint(i)
  BY DEF
    Mission!SelectProfitPoint, ReviewProofs!Mission!SelectProfitPoint, Mission!CanClick,
    ReviewProofs!Mission!CanClick, Mission!TabContent, ReviewProofs!Mission!TabContent, Mission!Null,
    ReviewProofs!Mission!Null, Mission!Clicked, ReviewProofs!Mission!Clicked, Mission!Stay,
    ReviewProofs!Mission!Stay
<1> \A date : Mission!JumpToDate(date) <=> ReviewProofs!Mission!JumpToDate(date)
  BY DEF
    Mission!JumpToDate, ReviewProofs!Mission!JumpToDate
<1> \A section : Mission!ToggleAccordion(section) <=> ReviewProofs!Mission!ToggleAccordion(section)
  BY DEF
    Mission!ToggleAccordion, ReviewProofs!Mission!ToggleAccordion, Mission!CanClick,
    ReviewProofs!Mission!CanClick, Mission!TabContent, ReviewProofs!Mission!TabContent, Mission!Null,
    ReviewProofs!Mission!Null, Mission!Clicked, ReviewProofs!Mission!Clicked, Mission!Stay,
    ReviewProofs!Mission!Stay
<1> Mission!Reload <=> ReviewProofs!Mission!Reload
  BY DEF
    Mission!Reload, ReviewProofs!Mission!Reload, Mission!CanClick, ReviewProofs!Mission!CanClick,
    Mission!FreshPage, ReviewProofs!Mission!FreshPage, Mission!FirstRange, ReviewProofs!Mission!FirstRange,
    Mission!Run, ReviewProofs!Mission!Run, Mission!RunStarts, ReviewProofs!Mission!RunStarts, Mission!Null,
    ReviewProofs!Mission!Null, Mission!IdlePoll, ReviewProofs!Mission!IdlePoll, Mission!Clicked,
    ReviewProofs!Mission!Clicked, Mission!Issue, ReviewProofs!Mission!Issue, Mission!NewRequest,
    ReviewProofs!Mission!NewRequest, Mission!Abandon, ReviewProofs!Mission!Abandon, Mission!Query,
    ReviewProofs!Mission!Query
<1> Mission!DeliverFetch <=> ReviewProofs!Mission!DeliverFetch
  <2> \A poll, answer : Mission!FinishRun(poll, answer) = ReviewProofs!Mission!FinishRun(poll, answer)
    BY Zenon DEF Mission!FinishRun, ReviewProofs!Mission!FinishRun
  <2> \A i : Mission!Handled(i) = ReviewProofs!Mission!Handled(i)
    BY Zenon DEF
      Mission!Handled, ReviewProofs!Mission!Handled, Mission!RemoveAt, ReviewProofs!Mission!RemoveAt
  <2> Mission!Deliverable = ReviewProofs!Mission!Deliverable
    BY Zenon DEF Mission!Deliverable, ReviewProofs!Mission!Deliverable
  <2> QED
    BY ZenonT(60) DEF Mission!DeliverFetch, ReviewProofs!Mission!DeliverFetch
<1> Mission!Serve <=> ReviewProofs!Mission!Serve
  BY ZenonT(60) DEF
    Mission!Serve, ReviewProofs!Mission!Serve, Mission!Servable, ReviewProofs!Mission!Servable,
    Mission!Served, ReviewProofs!Mission!Served
<1> Mission!RequestFails <=> ReviewProofs!Mission!RequestFails
  BY DEF
    Mission!RequestFails, ReviewProofs!Mission!RequestFails, Mission!Servable,
    ReviewProofs!Mission!Servable, Mission!Deliverable, ReviewProofs!Mission!Deliverable, Mission!Refused,
    ReviewProofs!Mission!Refused, Mission!Null, ReviewProofs!Mission!Null
<1> Mission!MissionInit <=> ReviewProofs!Mission!MissionInit
  BY DEF
    Mission!MissionInit, ReviewProofs!Mission!MissionInit, Mission!FreshPage,
    ReviewProofs!Mission!FreshPage, Mission!FirstRange, ReviewProofs!Mission!FirstRange, Mission!Run,
    ReviewProofs!Mission!Run, Mission!RunStarts, ReviewProofs!Mission!RunStarts, Mission!Null,
    ReviewProofs!Mission!Null, Mission!IdlePoll, ReviewProofs!Mission!IdlePoll, Mission!Issue,
    ReviewProofs!Mission!Issue, Mission!NewRequest, ReviewProofs!Mission!NewRequest, Mission!Query,
    ReviewProofs!Mission!Query, Mission!Wires, ReviewProofs!Mission!Wires
<1> Mission!MissionNext <=> ReviewProofs!Mission!MissionNext
  BY DEF
    Mission!MissionNext, ReviewProofs!Mission!MissionNext, Mission!PreviousSnapshot,
    ReviewProofs!Mission!PreviousSnapshot, Mission!NextSnapshot, ReviewProofs!Mission!NextSnapshot,
    Mission!LatestSnapshot, ReviewProofs!Mission!LatestSnapshot, Mission!CloseDrawer,
    ReviewProofs!Mission!CloseDrawer, Mission!Null, ReviewProofs!Mission!Null, Mission!Stay,
    ReviewProofs!Mission!Stay, Mission!PollTick, ReviewProofs!Mission!PollTick, Mission!RunStarts,
    ReviewProofs!Mission!RunStarts, Mission!Requery, ReviewProofs!Mission!Requery, Mission!Run,
    ReviewProofs!Mission!Run, Mission!RunIssues, ReviewProofs!Mission!RunIssues, Mission!Issue,
    ReviewProofs!Mission!Issue, Mission!NewRequest, ReviewProofs!Mission!NewRequest, Mission!Query,
    ReviewProofs!Mission!Query, Mission!ToggleHidden, ReviewProofs!Mission!ToggleHidden, Mission!CanClick,
    ReviewProofs!Mission!CanClick, Mission!Clicked, ReviewProofs!Mission!Clicked, Mission!CaptureSnapshot,
    ReviewProofs!Mission!CaptureSnapshot
<1> Mission!SelectionFollowed <=> ReviewProofs!Mission!SelectionFollowed
  BY DEF
    Mission!SelectionFollowed, ReviewProofs!Mission!SelectionFollowed, Mission!SelectedHistoryPoint,
    ReviewProofs!Mission!SelectedHistoryPoint, Mission!Null, ReviewProofs!Mission!Null
<1> QED
  OBVIOUS

\* The proofs are about this page.
LEMMA SameArena ==
  /\ Arena!ArenaInit <=> ReviewProofs!Arena!ArenaInit
  /\ Arena!ArenaNext <=> ReviewProofs!Arena!ArenaNext
  /\ Arena!ArenaAgrees <=> ReviewProofs!Arena!ArenaAgrees
BY ZenonT(60) DEF
  Arena!ArenaInit, ReviewProofs!Arena!ArenaInit, Arena!Null, ReviewProofs!Arena!Null, Arena!Unfinished,
  ReviewProofs!Arena!Unfinished, Arena!Issue, ReviewProofs!Arena!Issue, Arena!NewRequest,
  ReviewProofs!Arena!NewRequest, Arena!Wires, ReviewProofs!Arena!Wires, Arena!ArenaNext,
  ReviewProofs!Arena!ArenaNext, Arena!EvaluateCandidates, ReviewProofs!Arena!EvaluateCandidates,
  Arena!CanClick, ReviewProofs!Arena!CanClick, Arena!AgentsSection, ReviewProofs!Arena!AgentsSection,
  Arena!Shows, ReviewProofs!Arena!Shows, Arena!Ask, ReviewProofs!Arena!Ask, Arena!Busy,
  ReviewProofs!Arena!Busy, Arena!Clicked, ReviewProofs!Arena!Clicked, Arena!GenerateCandidates,
  ReviewProofs!Arena!GenerateCandidates, Arena!AdaptersSection, ReviewProofs!Arena!AdaptersSection,
  Arena!RunLaboratory, ReviewProofs!Arena!RunLaboratory, Arena!RunEvolution,
  ReviewProofs!Arena!RunEvolution, Arena!MemorySection, ReviewProofs!Arena!MemorySection,
  Arena!CreateCampaign, ReviewProofs!Arena!CreateCampaign, Arena!RunCampaign,
  ReviewProofs!Arena!RunCampaign, Arena!CampaignsSection, ReviewProofs!Arena!CampaignsSection,
  Arena!Deliver, ReviewProofs!Arena!Deliver, Arena!Deliverable, ReviewProofs!Arena!Deliverable,
  Arena!Handled, ReviewProofs!Arena!Handled, Arena!RemoveAt, ReviewProofs!Arena!RemoveAt, Arena!DeliverLoad,
  ReviewProofs!Arena!DeliverLoad, Arena!Goes, ReviewProofs!Arena!Goes, Arena!DeliverAgents,
  ReviewProofs!Arena!DeliverAgents, Arena!DeliverEvaluations, ReviewProofs!Arena!DeliverEvaluations,
  Arena!Ended, ReviewProofs!Arena!Ended, Arena!DeliverGenerated, ReviewProofs!Arena!DeliverGenerated,
  Arena!DeliverLaboratory, ReviewProofs!Arena!DeliverLaboratory, Arena!DeliverEvolution,
  ReviewProofs!Arena!DeliverEvolution, Arena!DeliverCampaignRun, ReviewProofs!Arena!DeliverCampaignRun,
  Arena!Updated, ReviewProofs!Arena!Updated, Arena!DeliverCreated, ReviewProofs!Arena!DeliverCreated,
  Arena!Serve, ReviewProofs!Arena!Serve, Arena!Servable, ReviewProofs!Arena!Servable, Arena!ServeRead,
  ReviewProofs!Arena!ServeRead, Arena!Served, ReviewProofs!Arena!Served, Arena!ResearchRead,
  ReviewProofs!Arena!ResearchRead, Arena!StrategyCandidates, ReviewProofs!Arena!StrategyCandidates,
  Arena!Baseline, ReviewProofs!Arena!Baseline, Arena!Candidate, ReviewProofs!Arena!Candidate,
  Arena!Cardinality, ReviewProofs!Arena!Cardinality, Arena!Evolved, ReviewProofs!Arena!Evolved,
  Arena!ServeEvaluate, ReviewProofs!Arena!ServeEvaluate, Arena!Refused, ReviewProofs!Arena!Refused,
  Arena!ServeGenerate, ReviewProofs!Arena!ServeGenerate, Arena!ServeRunLaboratory,
  ReviewProofs!Arena!ServeRunLaboratory, Arena!Laboratory, ReviewProofs!Arena!Laboratory, Arena!ServeEvolve,
  ReviewProofs!Arena!ServeEvolve, Arena!Descendants, ReviewProofs!Arena!Descendants,
  Arena!ServeCreateCampaign, ReviewProofs!Arena!ServeCreateCampaign, Arena!ServeRunCampaign,
  ReviewProofs!Arena!ServeRunCampaign, Arena!RequestFails, ReviewProofs!Arena!RequestFails,
  Arena!ArenaAgrees, ReviewProofs!Arena!ArenaAgrees, Arena!CampaignsAsStored,
  ReviewProofs!Arena!CampaignsAsStored, Arena!EvaluationsAreNamed, ReviewProofs!Arena!EvaluationsAreNamed,
  Arena!EvaluationNamed, ReviewProofs!Arena!EvaluationNamed, Arena!SectionsAgree,
  ReviewProofs!Arena!SectionsAgree, Arena!AnalyticsSection, ReviewProofs!Arena!AnalyticsSection,
  Arena!EvolutionSection, ReviewProofs!Arena!EvolutionSection

\* The proofs are about this page.
LEMMA SameDashboard ==
  /\ Dashboard!DashInit <=> ReviewProofs!Dashboard!DashInit
  /\ Dashboard!DashNext <=> ReviewProofs!Dashboard!DashNext
  /\ Dashboard!PanelsAgree <=> ReviewProofs!Dashboard!PanelsAgree
<1> \A requests, ops : Dashboard!Abandon(requests, ops) = ReviewProofs!Dashboard!Abandon(requests, ops)
  BY ZenonT(60) DEF
    Dashboard!Abandon, ReviewProofs!Dashboard!Abandon, Dashboard!Kept, ReviewProofs!Dashboard!Kept,
    Dashboard!Cardinality, ReviewProofs!Dashboard!Cardinality, Dashboard!Before,
    ReviewProofs!Dashboard!Before
<1> \A tab : Dashboard!OpenTab(tab) <=> ReviewProofs!Dashboard!OpenTab(tab)
  BY ZenonT(60) DEF
    Dashboard!OpenTab, ReviewProofs!Dashboard!OpenTab, Dashboard!CanClick, ReviewProofs!Dashboard!CanClick,
    Dashboard!Clicked, ReviewProofs!Dashboard!Clicked, Dashboard!NewPanel, ReviewProofs!Dashboard!NewPanel,
    Dashboard!Null, ReviewProofs!Dashboard!Null, Dashboard!Run, ReviewProofs!Dashboard!Run,
    Dashboard!RunStarts, ReviewProofs!Dashboard!RunStarts, Dashboard!Enabled,
    ReviewProofs!Dashboard!Enabled, Dashboard!PanelOps, ReviewProofs!Dashboard!PanelOps,
    Dashboard!RunIssues, ReviewProofs!Dashboard!RunIssues, Dashboard!Issue, ReviewProofs!Dashboard!Issue,
    Dashboard!NewRequest, ReviewProofs!Dashboard!NewRequest, Dashboard!PanelArg,
    ReviewProofs!Dashboard!PanelArg
<1> \A range : Dashboard!SelectRange(range) <=> ReviewProofs!Dashboard!SelectRange(range)
  BY ZenonT(60) DEF
    Dashboard!SelectRange, ReviewProofs!Dashboard!SelectRange, Dashboard!CanClick,
    ReviewProofs!Dashboard!CanClick, Dashboard!Clicked, ReviewProofs!Dashboard!Clicked, Dashboard!Run,
    ReviewProofs!Dashboard!Run, Dashboard!RunStarts, ReviewProofs!Dashboard!RunStarts, Dashboard!Null,
    ReviewProofs!Dashboard!Null, Dashboard!RunIssues, ReviewProofs!Dashboard!RunIssues, Dashboard!Issue,
    ReviewProofs!Dashboard!Issue, Dashboard!NewRequest, ReviewProofs!Dashboard!NewRequest
<1> \A offset : Dashboard!TurnPage(offset) <=> ReviewProofs!Dashboard!TurnPage(offset)
  BY ZenonT(60) DEF
    Dashboard!TurnPage, ReviewProofs!Dashboard!TurnPage, Dashboard!CanClick,
    ReviewProofs!Dashboard!CanClick, Dashboard!HasNext, ReviewProofs!Dashboard!HasNext, Dashboard!Null,
    ReviewProofs!Dashboard!Null, Dashboard!Clicked, ReviewProofs!Dashboard!Clicked, Dashboard!Issue,
    ReviewProofs!Dashboard!Issue, Dashboard!NewRequest, ReviewProofs!Dashboard!NewRequest,
    Dashboard!PageCleanup, ReviewProofs!Dashboard!PageCleanup
<1> Dashboard!PollTick <=> ReviewProofs!Dashboard!PollTick
  BY ZenonT(60) DEF
    Dashboard!PollTick, ReviewProofs!Dashboard!PollTick, Dashboard!Enabled, ReviewProofs!Dashboard!Enabled,
    Dashboard!RunStarts, ReviewProofs!Dashboard!RunStarts, Dashboard!Run, ReviewProofs!Dashboard!Run,
    Dashboard!Null, ReviewProofs!Dashboard!Null, Dashboard!RunIssues, ReviewProofs!Dashboard!RunIssues,
    Dashboard!Issue, ReviewProofs!Dashboard!Issue, Dashboard!NewRequest, ReviewProofs!Dashboard!NewRequest
<1> Dashboard!PipelineTick <=> ReviewProofs!Dashboard!PipelineTick
  BY DEF
    Dashboard!PipelineTick, ReviewProofs!Dashboard!PipelineTick, Dashboard!Issue,
    ReviewProofs!Dashboard!Issue, Dashboard!NewRequest, ReviewProofs!Dashboard!NewRequest, Dashboard!Null,
    ReviewProofs!Dashboard!Null
<1> Dashboard!CounterFrame <=> ReviewProofs!Dashboard!CounterFrame
  BY DEF
    Dashboard!CounterFrame, ReviewProofs!Dashboard!CounterFrame, Dashboard!NextFrame,
    ReviewProofs!Dashboard!NextFrame, Dashboard!Counted, ReviewProofs!Dashboard!Counted, Dashboard!Null,
    ReviewProofs!Dashboard!Null
<1> Dashboard!Deliverable = ReviewProofs!Dashboard!Deliverable
  BY DEF
    Dashboard!Deliverable, ReviewProofs!Dashboard!Deliverable
<1> \A i : Dashboard!DeliverScore(i) <=> ReviewProofs!Dashboard!DeliverScore(i)
  BY DEF
    Dashboard!DeliverScore, ReviewProofs!Dashboard!DeliverScore, Dashboard!FinishRun,
    ReviewProofs!Dashboard!FinishRun, Dashboard!Handled, ReviewProofs!Dashboard!Handled, Dashboard!RemoveAt,
    ReviewProofs!Dashboard!RemoveAt
<1> \A i : Dashboard!DeliverPanel(i) <=> ReviewProofs!Dashboard!DeliverPanel(i)
  BY ZenonT(60) DEF
    Dashboard!DeliverPanel, ReviewProofs!Dashboard!DeliverPanel, Dashboard!PanelOps,
    ReviewProofs!Dashboard!PanelOps, Dashboard!Counted, ReviewProofs!Dashboard!Counted, Dashboard!Null,
    ReviewProofs!Dashboard!Null, Dashboard!Retarget, ReviewProofs!Dashboard!Retarget, Dashboard!Handled,
    ReviewProofs!Dashboard!Handled, Dashboard!RemoveAt, ReviewProofs!Dashboard!RemoveAt
<1> Dashboard!Deliver <=> ReviewProofs!Dashboard!Deliver
  BY DEF
    Dashboard!Deliver, ReviewProofs!Dashboard!Deliver
<1> Dashboard!Serve <=> ReviewProofs!Dashboard!Serve
  BY DEF
    Dashboard!Serve, ReviewProofs!Dashboard!Serve, Dashboard!Servable, ReviewProofs!Dashboard!Servable,
    Dashboard!Served, ReviewProofs!Dashboard!Served, Dashboard!Payload, ReviewProofs!Dashboard!Payload,
    Dashboard!PanelOps, ReviewProofs!Dashboard!PanelOps
<1> Dashboard!DataMoves <=> ReviewProofs!Dashboard!DataMoves
  BY DEF
    Dashboard!DataMoves, ReviewProofs!Dashboard!DataMoves, Dashboard!LastVersion,
    ReviewProofs!Dashboard!LastVersion
<1> Dashboard!RequestFails <=> ReviewProofs!Dashboard!RequestFails
  BY DEF
    Dashboard!RequestFails, ReviewProofs!Dashboard!RequestFails, Dashboard!Servable,
    ReviewProofs!Dashboard!Servable, Dashboard!Refused, ReviewProofs!Dashboard!Refused, Dashboard!Null,
    ReviewProofs!Dashboard!Null
<1> Dashboard!DashInit <=> ReviewProofs!Dashboard!DashInit
  BY ZenonT(60) DEF
    Dashboard!DashInit, ReviewProofs!Dashboard!DashInit, Dashboard!Run, ReviewProofs!Dashboard!Run,
    Dashboard!RunStarts, ReviewProofs!Dashboard!RunStarts, Dashboard!Null, ReviewProofs!Dashboard!Null,
    Dashboard!IdlePoll, ReviewProofs!Dashboard!IdlePoll, Dashboard!NewPanel,
    ReviewProofs!Dashboard!NewPanel, Dashboard!Issue, ReviewProofs!Dashboard!Issue, Dashboard!NewRequest,
    ReviewProofs!Dashboard!NewRequest, Dashboard!Wires, ReviewProofs!Dashboard!Wires
<1> Dashboard!DashNext <=> ReviewProofs!Dashboard!DashNext
  BY DEF
    Dashboard!DashNext, ReviewProofs!Dashboard!DashNext, Dashboard!Tabs, ReviewProofs!Dashboard!Tabs,
    Dashboard!ToggleHidden, ReviewProofs!Dashboard!ToggleHidden, Dashboard!CanClick,
    ReviewProofs!Dashboard!CanClick, Dashboard!Clicked, ReviewProofs!Dashboard!Clicked
<1> Dashboard!StatusAgreesWithStages <=> ReviewProofs!Dashboard!StatusAgreesWithStages
  BY DEF
    Dashboard!StatusAgreesWithStages, ReviewProofs!Dashboard!StatusAgreesWithStages, Dashboard!Null,
    ReviewProofs!Dashboard!Null, Dashboard!MachineStatus, ReviewProofs!Dashboard!MachineStatus,
    Dashboard!Tone, ReviewProofs!Dashboard!Tone
<1> Dashboard!PanelsAgree <=> ReviewProofs!Dashboard!PanelsAgree
  BY DEF
    Dashboard!PanelsAgree, ReviewProofs!Dashboard!PanelsAgree, Dashboard!HistoryPageIsSelected,
    ReviewProofs!Dashboard!HistoryPageIsSelected, Dashboard!Null, ReviewProofs!Dashboard!Null,
    Dashboard!CounterShowsItsValue, ReviewProofs!Dashboard!CounterShowsItsValue, Dashboard!Counted,
    ReviewProofs!Dashboard!Counted
<1> QED
  OBVIOUS

----------------------------------------------------------------------------
(* The console.  Whatever page is mounted keeps its invariant. *)

ConsoleInv ==
  /\ mounted = "dashboard" => ReviewProofs!DashInv
  /\ mounted = "markets" => ListProofs!MarketsInv
  /\ mounted = "paper" => ListProofs!PaperInv
  /\ mounted = "preview" => OrderProofs!PreviewInv
  /\ mounted = "instant" => OrderProofs!InstantInv /\ wire \in {"ordered", "unordered"}
  /\ mounted = "lab" => OrderProofs!LabInv
  /\ mounted = "live" => ListProofs!LiveInv
  /\ mounted = "decisions" => ListProofs!ViewsInv
  /\ mounted = "records" => ListProofs!ScreenInv /\ ReviewProofs!LearnedInv
  /\ mounted = "risk" => ReviewProofs!RiskInv
  /\ mounted = "rules" => ReviewProofs!RulesInv
  /\ mounted = "backtests" => ReviewProofs!ShownInv
  /\ mounted = "mission" => ReviewProofs!MissionInv
  /\ mounted = "arena" => ReviewProofs!ArenaInv

\* The lists, the risk rules, the pipeline's counts, the prices and the amounts are
\* what the pages' proofs ask for.
LEMMA ConsoleGiven ==
  /\ ListProofs!ListsApart
  /\ ReviewProofs!HealthGiven /\ ListProofs!PricesGiven /\ ListProofs!MoneyGiven
  /\ RuleSets \subseteq ReviewProofs!RuleRecord
<1>1. ListProofs!ListsApart
  <2>1. /\ ListProofs!ListSet = Decisions!ToSet(Lists)
        /\ ListProofs!DetailSet = Decisions!ToSet(Details)
    BY DEF ListProofs!ListSet, ListProofs!DetailSet, Decisions!ToSet, ListProofs!Decisions!ToSet
  <2> QED
    BY <2>1, ListsAssumption DEF ListProofs!ListsApart
<1>2. RuleSets \subseteq ReviewProofs!RuleRecord
  BY RuleSetsAssumption DEF ReviewProofs!RuleRecord
<1>3. ReviewProofs!HealthGiven
  BY HealthAssumption DEF ReviewProofs!HealthGiven, ReviewProofs!HealthCounts
<1>4. ListProofs!PricesGiven
  <2>1. Markets!ToSet(Assets) = ListProofs!Range(Assets)
    BY DEF Markets!ToSet, ListProofs!Range
  <2> QED
    BY <2>1, PricesAssumption DEF ListProofs!PricesGiven
<1>5. ListProofs!MoneyGiven
  BY MoneyAssumption DEF ListProofs!MoneyGiven
<1> QED
  BY <1>1, <1>2, <1>3, <1>4, <1>5

\* Every page starts in its invariant.
LEMMA ConsoleStarts ==
  ASSUME Init
  PROVE  ConsoleInv
<1> mounted = "dashboard" => ReviewProofs!DashInv
  BY ConsoleGiven, SameDashboard, ReviewProofs!DashStarts DEF Init
<1> mounted = "markets" => ListProofs!MarketsInv
  BY ConsoleGiven, SameMarkets, ListProofs!MarketsStarts DEF Init
<1> mounted = "paper" => ListProofs!PaperInv
  BY SamePaper, ListProofs!PaperStarts DEF Init
<1> mounted = "preview" => OrderProofs!PreviewInv
  BY SamePreview, OrderProofs!PreviewStarts DEF Init
<1> mounted = "instant" => OrderProofs!InstantInv /\ wire \in {"ordered", "unordered"}
  BY SameInstant, OrderProofs!InstantStarts DEF Init, Instant!InstantInit, Instant!Wires
<1> mounted = "lab" => OrderProofs!LabInv
  BY SameLab, LabGiven, OrderProofs!LabStarts DEF Init
<1> mounted = "live" => ListProofs!LiveInv
  BY SameLive, ListProofs!LiveStarts DEF Init
<1> mounted = "decisions" => ListProofs!ViewsInv
  BY ConsoleGiven, SameDecisions, ListProofs!ViewsStart DEF Init
<1> mounted = "records" => ListProofs!ScreenInv /\ ReviewProofs!LearnedInv
  BY SameScreens, SameRecords, ListProofs!ScreenStarts, ReviewProofs!LearnedStarts DEF Init
<1> mounted = "risk" => ReviewProofs!RiskInv
  BY SameRisk, ReviewProofs!RiskStarts DEF Init
<1> mounted = "rules" => ReviewProofs!RulesInv
  BY ConsoleGiven, SameRuleChanges, ReviewProofs!RulesStarts DEF Init
<1> mounted = "backtests" => ReviewProofs!ShownInv
  BY SameSimulations, ReviewProofs!ShownStarts DEF Init
<1> mounted = "mission" => ReviewProofs!MissionInv
  BY SameMission, ReviewProofs!MissionStarts DEF Init
<1> mounted = "arena" => ReviewProofs!ArenaInv
  BY SameArena, ReviewProofs!ArenaStarts DEF Init
<1> QED
  BY DEF ConsoleInv

\* Every step of a page keeps its invariant.
LEMMA ConsoleKeeps ==
  ASSUME ConsoleInv, [Next]_vars
  PROVE  ConsoleInv'
<1> mounted' = mounted
  BY Mounted
<1> mounted = "dashboard" => ReviewProofs!DashInv'
  BY Mounted, ConsoleGiven, SameDashboard, ReviewProofs!DashKeeps DEF ConsoleInv
<1> mounted = "markets" => ListProofs!MarketsInv'
  BY Mounted, ConsoleGiven, SameMarkets, ListProofs!MarketsKeeps DEF ConsoleInv
<1> mounted = "paper" => ListProofs!PaperInv'
  BY Mounted, ConsoleGiven, SamePaper, ListProofs!PaperKeeps DEF ConsoleInv
<1> mounted = "preview" => OrderProofs!PreviewInv'
  BY Mounted, SamePreview, OrderProofs!PreviewKeeps DEF ConsoleInv
<1> mounted = "instant" => OrderProofs!InstantInv' /\ wire' \in {"ordered", "unordered"}
  BY Mounted, SameInstant, OrderProofs!InstantKeeps DEF ConsoleInv
<1> mounted = "lab" => OrderProofs!LabInv'
  BY Mounted, SameLab, LabGiven, OrderProofs!LabKeeps DEF ConsoleInv
<1> mounted = "live" => ListProofs!LiveInv'
  BY Mounted, SameLive, ListProofs!LiveKeeps DEF ConsoleInv
<1> mounted = "decisions" => ListProofs!ViewsInv'
  BY Mounted, ConsoleGiven, SameDecisions, ListProofs!ViewsKeep DEF ConsoleInv
<1> mounted = "records" => ListProofs!ScreenInv' /\ ReviewProofs!LearnedInv'
  BY Mounted, SameScreens, SameRecords, ListProofs!ScreenKeeps, ReviewProofs!LearnedKeeps DEF ConsoleInv
<1> mounted = "risk" => ReviewProofs!RiskInv'
  BY Mounted, SameRisk, ReviewProofs!RiskKeeps DEF ConsoleInv
<1> mounted = "rules" => ReviewProofs!RulesInv'
  BY Mounted, ConsoleGiven, SameRuleChanges, ReviewProofs!RulesKeeps DEF ConsoleInv
<1> mounted = "backtests" => ReviewProofs!ShownInv'
  BY Mounted, SameSimulations, ReviewProofs!ShownKeeps DEF ConsoleInv
<1> mounted = "mission" => ReviewProofs!MissionInv'
  BY Mounted, SameMission, ReviewProofs!MissionKeeps DEF ConsoleInv
<1> mounted = "arena" => ReviewProofs!ArenaInv'
  BY Mounted, SameArena, ReviewProofs!ArenaKeeps DEF ConsoleInv
<1> QED
  BY DEF ConsoleInv

\* So it holds of the page that is mounted, whichever that is.
LEMMA ConsoleKept == Spec => []ConsoleInv
<1>1. Init => ConsoleInv
  BY ConsoleStarts
<1>2. ConsoleInv /\ [Next]_vars => ConsoleInv'
  BY ConsoleKeeps
<1> QED
  BY <1>1, <1>2, PTL DEF Spec

----------------------------------------------------------------------------
(* Theorems: what the invariants say of each page. *)

\* A preview request has at most one preview that is ready and has not expired,
\* however requests are repeated, lost and carried out at the same time: the versions
\* of a request form a chain (PreviewInv) that the unique constraint keeps unbroken.
THEOREM PreviewsAreOnce == Spec => []PreviewedOnce
<1>1. ConsoleInv => PreviewedOnce
  BY SamePreview, OrderProofs!PreviewHolds DEF ConsoleInv, PreviewedOnce
<1> QED
  BY <1>1, ConsoleKept, PTL

\* The exchange accepts an instant order at most once, and at most one per key unless
\* two purchases of different amounts overtake each other: an order that is stored or
\* being resumed belongs to one purchase and has not been sent (InstantInv).
THEOREM OrdersAreBoughtOnce == Spec => []BoughtOnce
<1>1. ConsoleInv => BoughtOnce
  BY SameInstant, OrderProofs!InstantHolds DEF ConsoleInv, BoughtOnce
<1> QED
  BY <1>1, ConsoleKept, PTL

\* The coach holds one recommendation per set of decisions, however reviews are
\* repeated, lost and carried out at the same time: the look-up for an earlier one and
\* the insertion are one step, so the list stays free of repetitions (LearnedInv).
THEOREM ReviewsAreOnce == Spec => []ReviewedOnce
<1>1. ConsoleInv => ReviewedOnce
  BY SameRecords DEF ConsoleInv, ReviewedOnce, ReviewProofs!LearnedInv
<1> QED
  BY <1>1, ConsoleKept, PTL

\* No field of the stored risk rules is looser than where it started and than what some
\* operator acknowledged for it, however changes overlap: what an open change asks for
\* is within that too, so whichever of its fields it writes over whatever others have
\* committed by then leave it so (RulesInv).
THEOREM RulesStayWithinAcknowledged == Spec => []RulesWithinAcknowledged
<1>1. ConsoleInv => RulesWithinAcknowledged
  BY SameRuleChanges DEF ConsoleInv, RulesWithinAcknowledged, ReviewProofs!RulesInv,
                   ReviewProofs!Rules!RulesWithinAcknowledged
<1> QED
  BY <1>1, ConsoleKept, PTL

\* The backtest shown is the active one once every answer has come, on an ordered wire
\* and without failures: the last answer that is due and will be shown is always of the
\* active backtest, and none is due only when it is shown (ShownInv).
THEOREM ShownBecomesActive == Spec => []ShownIsActive
<1>1. ConsoleInv => ShownIsActive
  BY SameSimulations, ReviewProofs!ShownHolds DEF ConsoleInv, ShownIsActive
<1> QED
  BY <1>1, ConsoleKept, PTL

\* The live order shown in detail is the row of its preview in the list, however
\* loads, dry runs, reconciliations and cancellations overtake each other and fail: an
\* answer replaces the detail and the row together, and no list that is loaded or
\* stored has two rows of one preview (LiveInv).
THEOREM DetailStaysListed == Spec => []DetailAgreesWithList
<1>1. ConsoleInv => DetailAgreesWithList
  BY SameLive, ListProofs!LiveHolds DEF ConsoleInv, DetailAgreesWithList
<1> QED
  BY <1>1, ConsoleKept, PTL

\* Once every answer has come on an ordered wire, the decision pages show what their
\* controls say, although no load is cancelled: the last answer due for a view was
\* asked with its controls (ViewsInv), and so was the last load due of the explorer,
\* whose two halves are handled together (ScreenInv).  The inspector's evidence is of
\* its decision at all times.
THEOREM DecisionsAgree == Spec => []DecisionPagesAgree
<1>1. ConsoleInv => DecisionPagesAgree
  BY SameDecisions, SameScreens, ListProofs!ViewsHold, ListProofs!ScreenHolds
  DEF ConsoleInv, DecisionPagesAgree
<1> QED
  BY <1>1, ConsoleKept, PTL

\* The research pages agree.  The lab's readiness scores rank its configurations, for
\* numbers of any size, and its comparison of any number of measured runs does not
\* contradict itself, nor the log (LabInv); the arena's campaigns end up as the API's
\* and its evaluations are of candidates it lists (ArenaInv); mission control's cursor
\* stands on the snapshot selected last, wherever polls and ranges move it (MissionInv).
THEOREM ResearchAgrees == Spec => []ResearchPagesAgree
<1>1. ConsoleInv => ResearchPagesAgree
  BY LabGiven, SameLabProperty, SameMission, SameArena, OrderProofs!InvariantAgrees,
     ReviewProofs!ArenaHolds
  DEF ConsoleInv, ResearchPagesAgree, ReviewProofs!MissionInv
<1> QED
  BY <1>1, ConsoleKept, PTL

\* The trading pages agree.  The dashboard's panel is of the tab and the page it names,
\* its status agrees with the stages and its counters end on their values (DashInv); the
\* markets page's cache and chart are of their key, and its sliding sum is the window's
\* (MarketsInv); on an ordered wire the paper page's trades end up being the active
\* account's, because the last load due of them is always of that account, and its
\* drawdown is the deepest fall of a timeline of any length (PaperInv); the risk monitor's
\* form is the loaded account's because none other is loaded while its rules are, and on
\* an ordered wire so is its status, whose last load due is always of it (RiskInv).
THEOREM TradingAgrees == Spec => []TradingPagesAgree
<1>1. ConsoleInv => TradingPagesAgree
  BY ConsoleGiven, SameDashboard, SameMarkets, SamePaper, SameRisk, ReviewProofs!PanelsHold,
     ListProofs!ChartHolds, ListProofs!AnalyticsHold, ReviewProofs!RiskHolds
  DEF ConsoleInv, TradingPagesAgree
<1> QED
  BY <1>1, ConsoleKept, PTL
=============================================================================
