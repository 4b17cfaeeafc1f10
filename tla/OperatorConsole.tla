-------------------------- MODULE OperatorConsole ---------------------------
(***************************************************************************)
(* The web front end: one page is mounted at a time, each with the state,  *)
(* the requests and the part of the API's data that it uses.  A page that  *)
(* is left loses its state, so a behaviour follows one page from its mount. *)
(* The pages differ in size: each has bounds of its own.  "rules" is no    *)
(* page but other clients of the API, who change the risk rules.           *)
(***************************************************************************)
EXTENDS Integers, Sequences

CONSTANTS
  Pages,              \* the pages an instance mounts
  Clicks, Failures,   \* per page: bounds on the operator's actions and on failures
  Ranges, Health, HistoryPages, Frames,
  Assets, Intervals, CandlesOf, Periods,
  PaperAssets, Balances, NewAccount, TradeSize, TradeFee, MaxTrades,
  Accounts, RuleSets, RuleChanges,
  Queries, EventPages, Endings, MaxRuns,
  Strategies, StoredSets, Backtests, Typed, Names, Capitals,
  Ranking, Adapters, MaxGeneration,
  Windows, ExpectedGap, CapturedAt, Modes, Dates, Sections,
  Lists, Details, Matching, PageSize,
  Actions, TypedSizes, DefaultSize, LargestSize, Evidence, MaxDecisions,
  BtStrategies, BtSets, Outcomes, Earlier, MaxBacktests,
  ProfileOf, ReadinessOf, Tokens,
  Connections, BuyAmounts, BuyKeys,
  PreviewAmounts, MaxWindow

VARIABLES
  mounted,   \* the page the operator navigated to
  ui, net, db, wire

vars == <<mounted, ui, net, db, wire>>

Dashboard == INSTANCE DashboardConsole
  WITH MaxClicks <- Clicks.dashboard, MaxFailures <- Failures.dashboard
Markets == INSTANCE MarketsPage
  WITH MaxClicks <- Clicks.markets, MaxFailures <- Failures.markets
Paper == INSTANCE PaperTradingPage
  WITH MaxClicks <- Clicks.paper, MaxFailures <- Failures.paper
Risk == INSTANCE RiskMonitorPage
  WITH MaxClicks <- Clicks.risk, MaxFailures <- Failures.risk
Rules == INSTANCE RiskRules
Validation == INSTANCE ValidationRunsPage
  WITH MaxClicks <- Clicks.validation, MaxFailures <- Failures.validation
Lab == INSTANCE StrategyLabPage
  WITH MaxClicks <- Clicks.lab, MaxFailures <- Failures.lab
Arena == INSTANCE DecisionArenaPage
  WITH MaxClicks <- Clicks.arena, MaxFailures <- Failures.arena
Mission == INSTANCE MissionControlPage
  WITH MaxClicks <- Clicks.mission, MaxFailures <- Failures.mission
Decisions == INSTANCE DecisionIntelligencePage
  WITH MaxClicks <- Clicks.decisions, MaxFailures <- Failures.decisions
Records == INSTANCE DecisionRecordsPages
  WITH MaxClicks <- Clicks.records, MaxFailures <- Failures.records
Simulations == INSTANCE BacktestsPage
  WITH MaxClicks <- Clicks.backtests, MaxFailures <- Failures.backtests
Live == INSTANCE LiveOrderPage
  WITH MaxClicks <- Clicks.live, MaxFailures <- Failures.live
Instant == INSTANCE InstantBuyPage
  WITH MaxClicks <- Clicks.instant, MaxFailures <- Failures.instant
Preview == INSTANCE OrderPreviewPage
  WITH MaxClicks <- Clicks.preview, MaxFailures <- Failures.preview

\* The pipeline's counts are numbers, reported by versions from 0 on; a counter runs
\* for at least one frame.
ASSUME HealthAssumption ==
  /\ Frames \in Nat \ {0}
  /\ \E last \in DOMAIN Health : last \in Nat /\ DOMAIN Health = 0..last
  /\ \A v \in DOMAIN Health :
       \A count \in {"candles", "signals", "candidates", "attempted", "riskEvents", "rejected",
                    "trades", "decisions"} : Health[v][count] \in Nat

\* The API holds a sequence of closes of every asset and interval; a period is a number.
ASSUME PricesAssumption ==
  /\ Assets \in Seq(Markets!ToSet(Assets)) /\ Intervals # {}
  /\ Periods # {} /\ Periods \subseteq Int
  /\ \A key \in Markets!ToSet(Assets) \X Intervals : CandlesOf[key] \in Seq(Int)

\* Amounts of money are numbers.
ASSUME MoneyAssumption == Balances \subseteq Int /\ TradeSize \in Int /\ TradeFee \in Int

\* Risk rules are numbers.
ASSUME RuleSetsAssumption == RuleSets \subseteq [limit : Int, cooldown : Int]

\* Backtests have ids of their own; a metric of theirs is a number or missing.
ASSUME BacktestsAssumption ==
  /\ Backtests \in Seq(Lab!ToSet(Backtests))
  /\ \A i, j \in DOMAIN Backtests : Backtests[i].id = Backtests[j].id => i = j
  /\ \A i \in DOMAIN Backtests :
       LET metrics == Backtests[i].metrics IN
       /\ DOMAIN metrics = {"trades", "totalReturn", "winRate", "maxDrawdown", "feeDrag"}
       /\ \A metric \in DOMAIN metrics :
            metrics[metric] = <<>> \/ (metrics[metric] = <<metrics[metric][1]>> /\ metrics[metric][1] \in Int)

\* What is typed for a number is one, and what a set holds for it is one or missing:
\* the page reads a stored value that is no number as if it were missing.
ASSUME ParametersAssumption ==
  /\ \A key \in DOMAIN Typed : Lab!IsNumeric(key) => Typed[key] \subseteq Int
  /\ StoredSets \in Seq(Lab!ToSet(StoredSets))
  /\ \A i \in DOMAIN StoredSets : \A key \in Lab!Definitions(StoredSets[i].strategy) :
       LET stored == StoredSets[i].values[key] IN
       stored = <<>> \/ (stored = <<stored[1]>> /\ (Lab!IsNumeric(key) => stored[1] \in Int))

\* The lists of decisions and the views of the selected one are apart.
ASSUME ListsAssumption ==
  /\ Lists \in Seq(Decisions!ToSet(Lists)) /\ Lists # <<>>
  /\ Details \in Seq(Decisions!ToSet(Details))
  /\ Decisions!ToSet(Lists) \cap Decisions!ToSet(Details) = {}

Init ==
  /\ mounted \in Pages
  /\ mounted = "dashboard" => Dashboard!DashInit
  /\ mounted = "markets" => Markets!MarketsInit
  /\ mounted = "paper" => Paper!PaperInit
  /\ mounted = "risk" => Risk!RiskInit
  /\ mounted = "rules" => Rules!RulesInit /\ ui = <<>> /\ net = <<>> /\ wire = "ordered"
  /\ mounted = "validation" => Validation!ValidationInit
  /\ mounted = "lab" => Lab!LabInit
  /\ mounted = "arena" => Arena!ArenaInit
  /\ mounted = "mission" => Mission!MissionInit
  /\ mounted = "decisions" => Decisions!DecisionsInit
  /\ mounted = "records" => Records!RecordsInit
  /\ mounted = "backtests" => Simulations!BacktestsInit
  /\ mounted = "live" => Live!LiveInit
  /\ mounted = "instant" => Instant!InstantInit
  /\ mounted = "preview" => Preview!PreviewInit

On(page) == mounted = page /\ UNCHANGED mounted

Next ==
  \/ On("dashboard") /\ Dashboard!DashNext
  \/ On("markets") /\ Markets!MarketsNext
  \/ On("paper") /\ Paper!PaperNext
  \/ On("risk") /\ Risk!RiskNext
  \/ On("rules") /\ Rules!RulesNext /\ UNCHANGED <<ui, net, wire>>
  \/ On("validation") /\ Validation!ValidationNext
  \/ On("lab") /\ Lab!LabNext
  \/ On("arena") /\ Arena!ArenaNext
  \/ On("mission") /\ Mission!MissionNext
  \/ On("decisions") /\ Decisions!DecisionsNext
  \/ On("records") /\ Records!RecordsNext
  \/ On("backtests") /\ Simulations!BacktestsNext
  \/ On("live") /\ Live!LiveNext
  \/ On("instant") /\ Instant!InstantNext
  \/ On("preview") /\ Preview!PreviewNext

Spec == Init /\ [][Next]_vars

----------------------------------------------------------------------------
(* The pages that poll.  Their intervals fire, the API serves what it is   *)
(* asked, answers are handled, and a backtest or a run that was started is *)
(* worked on; the operator need not do anything.                           *)

Polls ==
  \/ On("dashboard") /\ Dashboard!PollTick
  \/ On("mission") /\ Mission!PollTick
  \/ On("validation") /\ Validation!PollTick
  \/ On("backtests") /\ Simulations!PollTick

Serves ==
  \/ On("dashboard") /\ Dashboard!Serve
  \/ On("mission") /\ Mission!Serve
  \/ On("validation") /\ (Validation!Serve \/ Validation!Refuse)
  \/ On("backtests") /\ Simulations!Serve

Delivers ==
  \/ On("dashboard") /\ Dashboard!Deliver
  \/ On("mission") /\ Mission!DeliverFetch
  \/ On("validation") /\ Validation!Deliver
  \/ On("backtests") /\ Simulations!Deliver

Works == On("backtests") /\ Simulations!Advance

Fairness == WF_vars(Polls) /\ WF_vars(Serves) /\ WF_vars(Delivers) /\ WF_vars(Works)

PollingSpec == Spec /\ Fairness

----------------------------------------------------------------------------
(* Properties: of the page that is mounted.  The comments that state them  *)
(* in full are in the page's module.                                       *)

\* Of the trading pages, the dashboard shows the history page it names, a machine
\* status that agrees with the stages below it and counters that end on their
\* values; the markets chart draws candles of the selected key and their true
\* averages; the paper page's trades and drawdown are the active account's; the risk
\* monitor's form and status are the loaded account's.
TradingPagesAgree ==
  /\ mounted = "dashboard" => Dashboard!PanelsAgree
  /\ mounted = "markets" => Markets!ChartIsTrue
  /\ mounted = "paper" => Paper!AnalyticsOfAccount
  /\ mounted = "risk" => Risk!RiskAgrees

\* Stored risk rules are nowhere looser than they started or than was acknowledged.
RulesWithinAcknowledged == mounted = "rules" => Rules!RulesWithinAcknowledged

\* Of the research pages, the strategy lab's readiness scores rank its configurations
\* and its comparison of runs does not contradict itself; the arena's campaigns end
\* up as the API's, its evaluations are of candidates it lists, and its sections
\* agree; mission control's cursor stands on the snapshot selected last.
ResearchPagesAgree ==
  /\ mounted = "lab" => Lab!LabAgrees
  /\ mounted = "arena" => Arena!ArenaAgrees
  /\ mounted = "mission" => Mission!SelectionFollowed

\* Of the decision pages, the lists end up showing the page and filter of their
\* controls; the explorer's rows, page number and summary are of the filters shown,
\* the inspector's evidence is of its decision.
DecisionPagesAgree ==
  /\ mounted = "decisions" => Decisions!ViewsMatchControls
  /\ mounted = "records" => Records!ScreensShowTheirRecords

\* The coach holds one recommendation per set of decisions.
ReviewedOnce == mounted = "records" => Records!ReviewedOnce

\* The backtest shown is the active one once every answer has come.
ShownIsActive == mounted = "backtests" => Simulations!ShownIsActive

\* The selected live order and its row in the list agree.
DetailAgreesWithList == mounted = "live" => Live!DetailAgreesWithList

\* The exchange accepts an instant order at most once, and one per idempotency key.
BoughtOnce == mounted = "instant" => Instant!BoughtOnce

\* One preview request has at most one preview that is ready and has not expired.
PreviewedOnce == mounted = "preview" => Preview!PreviewedOnce

\* Once the operator leaves the dashboard alone, the score of a visible tab ends up
\* being that of the selected range, although a range selected during a fetch
\* starts none.
RangeSettles == <>[](mounted = "dashboard" => Dashboard!ScoreOfRange)

\* The hero's equity card ends up with a value of the range and mode it is labelled
\* with, although a selection made during a fetch starts none.
EquityCardSettles == <>[](mounted = "mission" => Mission!EquityCardCurrent)

\* The validation page's detail and events end up being the selected run's, although
\* refreshes, selections and pages overtake each other.
ValidationSettles == <>[](mounted = "validation" => Validation!ShowsSelected)

\* A backtest shown as running is refreshed until it shows how it ended, although
\* failures of the poll are not handled and its answers may arrive out of order.
RunningRefreshes == <>[](mounted = "backtests" => ~Simulations!Polling)

\* A dry run's audit says its order was PENDING_CONFIRMATION.  No run lists this: a
\* dry run takes an order in any status, and TLC refutes it.
DryRunsStartPending == mounted = "live" => Live!DryRunsStartPending

\* Relaxing a risk limit requires confirm_loosening.  No run lists this: a change is
\* judged on the rules it read, and TLC refutes it.
LooseningConfirmed == [][mounted = "rules" => Rules!LooseningStep]_vars

\* The strategy lab's review "confirms exactly what will be tested".  No run lists
\* this: a launch names the saved set and the review shows the form.
LaunchTestsReviewed == mounted = "lab" => Lab!LaunchTestsReviewed
=============================================================================
