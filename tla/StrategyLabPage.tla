-------------------------- MODULE StrategyLabPage ---------------------------
(***************************************************************************)
(* The strategy lab: strategies, saved parameter sets (snapshots) and      *)
(* completed backtests are loaded side by side when the page mounts; the   *)
(* operator edits a configuration, saves and applies snapshots, launches a *)
(* backtest and compares up to three completed runs.                       *)
(***************************************************************************)
EXTENDS PageRequests, ParameterRules, FiniteSetsExt

CONSTANTS
  Strategies,   \* the API's strategies, in order: slugs
  StoredSets,   \* the API's parameter sets, in order: [id, strategy, name, values]
  Backtests,    \* the API's backtests, in order: [id, strategy, set, status, metrics]
  Typed,        \* the values typed, by parameter
  Names,        \* snapshot names typed
  Capitals      \* starting capitals typed

MinCapital == 25
MaxCompared == 3

LabInit ==
  /\ ui = [strategies |-> <<>>, loadingStrategies |-> TRUE, strategiesError |-> FALSE,
           sets |-> <<>>, loadingSets |-> TRUE, setsError |-> FALSE,
           runs |-> <<>>, loadingRuns |-> TRUE, runsError |-> FALSE,
           strategy |-> Null, values |-> Null, snapshot |-> Null, name |-> Null,
           saveError |-> FALSE, saving |-> FALSE, capital |-> MinCapital,
           launchError |-> FALSE, launching |-> FALSE, compared |-> {}, log |-> <<>>,
           left |-> FALSE, clicks |-> 0]
  /\ net = Issue(Issue(Issue(<<>>, "strategies", 0), "backtests", 0), "sets", 0)
  /\ db = [sets |-> StoredSets, launched |-> <<>>, failures |-> 0]
  /\ wire \in Wires

Free == CanClick /\ ~ui.left

----------------------------------------------------------------------------
(* What the page derives from its state. *)

\* Selecting a strategy puts its defaults into the form and drops the snapshot.
Chosen(view, slug) ==
  [view EXCEPT !.strategy = <<slug>>, !.values = <<DefaultValues(slug)>>, !.snapshot = Null]

StrategySets == IF ui.strategy = Null THEN <<>>
                ELSE Kept(ui.sets, {i \in DOMAIN ui.sets : ui.sets[i].strategy = ui.strategy[1]})

\* The selected snapshot, if it is one of the strategy's.
SelectedSnapshot ==
  LET sets == StrategySets IN Kept(sets, {i \in DOMAIN sets : <<sets[i].id>> = ui.snapshot})

\* A launch falls back on the strategy's first set.
LaunchSet == IF SelectedSnapshot # <<>> THEN <<SelectedSnapshot[1].id>>
             ELSE IF StrategySets # <<>> THEN <<StrategySets[1].id>> ELSE Null

DuplicateName == ui.name # Null /\ \E i \in DOMAIN StrategySets : <<StrategySets[i].name>> = ui.name

FormIsValid == ui.strategy = Null \/ FormErrors(ui.strategy[1], ui.values[1]) = {}

\* The checklist and the fields a launch requires.
CanLaunch ==
  /\ ui.strategy # Null /\ LaunchSet # Null
  /\ ui.capital >= MinCapital
  /\ FormIsValid

\* What the review section shows of the configuration.
Reviewed == [strategy |-> ui.strategy, values |-> ui.values,
             snapshot |-> IF SelectedSnapshot = <<>> THEN Null ELSE <<SelectedSnapshot[1].name>>]

\* What the strategy, preset and comparison sections show.
StrategyCards == Listed(ui.loadingStrategies, ui.strategiesError, ui.strategies)
PresetLibrary == Listed(ui.loadingSets, ui.setsError, StrategySets)
RunSelection == Listed(ui.loadingRuns, ui.runsError, ui.runs)
ParameterCards == IF ui.strategy = Null THEN {} ELSE Definitions(ui.strategy[1])

----------------------------------------------------------------------------
(* The comparison of the selected runs, in the order of the run list. *)

ComparedRuns == Kept(ui.runs, {i \in DOMAIN ui.runs : ui.runs[i].id \in ui.compared})

Known(runs, metric) == {i \in DOMAIN runs : runs[i].metrics[metric] # Null}
Value(runs, metric, i) == runs[i].metrics[metric][1]

\* The first run with the extreme value of a metric, among those that have one.
Extreme(runs, metric, mode) ==
  {i \in Known(runs, metric) : \A j \in Known(runs, metric) :
     /\ mode = "max" => Value(runs, metric, i) >= Value(runs, metric, j)
     /\ mode = "min" => Value(runs, metric, i) <= Value(runs, metric, j)}

PickWinner(runs, metric, mode) ==
  IF Known(runs, metric) = {} THEN Null ELSE <<Min(Extreme(runs, metric, mode))>>

\* The badges of the cards.
Winners(runs) ==
  [totalReturn |-> PickWinner(runs, "totalReturn", "max"),
   winRate |-> PickWinner(runs, "winRate", "max"),
   maxDrawdown |-> PickWinner(runs, "maxDrawdown", "min"),
   feeDrag |-> PickWinner(runs, "feeDrag", "min")]

\* A run that differs: two runs have the metric and the extremes differ.
Distinguished(runs, metric, mode) ==
  IF Cardinality(Known(runs, metric)) >= 2
     /\ Extreme(runs, metric, "max") # Extreme(runs, metric, "min")
  THEN PickWinner(runs, metric, mode) ELSE Null

KeyDifferences(runs) ==
  IF Len(runs) < 2 THEN [trades |-> Null, maxDrawdown |-> Null, feeDrag |-> Null]
  ELSE [trades |-> Distinguished(runs, "trades", "max"),
        maxDrawdown |-> Distinguished(runs, "maxDrawdown", "min"),
        feeDrag |-> Distinguished(runs, "feeDrag", "max")]

Observations(runs) ==
  [totalReturn |-> PickWinner(runs, "totalReturn", "max"),
   maxDrawdown |-> PickWinner(runs, "maxDrawdown", "min"),
   trades |-> PickWinner(runs, "trades", "max")]

\* The first selected run is the baseline of the second.
WhatImproved(runs) ==
  [metric \in {"trades", "maxDrawdown", "feeDrag", "totalReturn"} |->
     IF Len(runs) >= 2 /\ {1, 2} \subseteq Known(runs, metric)
     THEN <<Value(runs, metric, 2) - Value(runs, metric, 1)>> ELSE Null]

\* Bar widths in percent: by magnitude, at least 8, rounded half up.
Magnitude(runs, metric, i) ==
  IF Value(runs, metric, i) < 0 THEN -Value(runs, metric, i) ELSE Value(runs, metric, i)

Widths(runs, metric) ==
  LET top == Max({Magnitude(runs, metric, i) : i \in Known(runs, metric)} \cup {0})
  IN  [i \in DOMAIN runs |->
         IF i \notin Known(runs, metric) \/ top = 0 THEN 0
         ELSE Max({8, (200 * Magnitude(runs, metric, i) + top) \div (2 * top)})]

\* A card: the badges the run carries and the metrics it has.
ComparisonCard(runs, i) ==
  [badges |-> {metric \in DOMAIN Winners(runs) : Winners(runs)[metric] = <<i>>},
   shown |-> {metric \in DOMAIN runs[i].metrics : runs[i].metrics[metric] # Null}]

\* The cards of the selected runs and their differences.
ComparisonCards(runs) ==
  IF runs = <<>> THEN Null
  ELSE <<[cards |-> [i \in DOMAIN runs |-> ComparisonCard(runs, i)],
          differences |-> KeyDifferences(runs)]>>

\* The insights: bars and observations of any selection, changes of two runs.
InsightsWorkspace(runs) ==
  IF runs = <<>> THEN Null
  ELSE <<[bars |-> [metric \in DOMAIN Winners(runs) |-> Widths(runs, metric)],
          observations |-> Observations(runs),
          improved |-> IF Len(runs) < 2 THEN Null ELSE <<WhatImproved(runs)>>]>>

\* The log, newest entry first; an entry can be created when runs are selected.
ExperimentLog == [canCreate |-> ComparedRuns # <<>>, entries |-> ui.log]

----------------------------------------------------------------------------
(* Handlers. *)

Stay == UNCHANGED <<net, db, wire>>

\* A new selection resets the form; selecting the same strategy changes nothing.
SelectStrategy(slug) ==
  /\ Free /\ StrategyCards = "rows"
  /\ \E i \in DOMAIN ui.strategies : ui.strategies[i] = slug
  /\ <<slug>> # ui.strategy
  /\ ui' = Chosen(Clicked, slug)
  /\ Stay

\* An edit keeps the selected snapshot.
EditValue(key, value) ==
  /\ Free /\ key \in ParameterCards
  /\ ui' = [Clicked EXCEPT !.values[1][key] = <<value>>]
  /\ Stay

TypeName(name) ==
  /\ Free /\ ui.strategy # Null
  /\ ui' = [Clicked EXCEPT !.name = <<name>>]
  /\ Stay

TypeCapital(capital) ==
  /\ Free
  /\ ui' = [Clicked EXCEPT !.capital = capital]
  /\ Stay

ViewSnapshot(i) ==
  /\ Free /\ PresetLibrary = "rows" /\ i \in DOMAIN StrategySets
  /\ ui' = [Clicked EXCEPT !.snapshot = <<StrategySets[i].id>>]
  /\ Stay

ApplySnapshot(i) ==
  /\ Free /\ PresetLibrary = "rows" /\ i \in DOMAIN StrategySets
  /\ LET slug == ui.strategy[1] stored == StrategySets[i].values IN
     ui' = [Clicked EXCEPT !.snapshot = <<StrategySets[i].id>>, !.saveError = FALSE,
                           !.values = <<[key \in Definitions(slug) |-> Coerced(slug, key, stored[key])]>>]
  /\ Stay

SaveSnapshot ==
  /\ Free /\ ui.strategy # Null /\ ~ui.saving /\ ~DuplicateName
  /\ IF ui.name = Null THEN ui' = [Clicked EXCEPT !.saveError = TRUE] /\ UNCHANGED net
     ELSE /\ ui' = [Clicked EXCEPT !.saving = TRUE, !.saveError = FALSE]
          /\ net' = Issue(net, "save", [strategy |-> ui.strategy[1], name |-> ui.name[1],
                                        values |-> ui.values[1]])
  /\ UNCHANGED <<db, wire>>

LaunchBacktest ==
  /\ Free /\ ~ui.launching /\ CanLaunch
  /\ ui' = [Clicked EXCEPT !.launching = TRUE, !.launchError = FALSE]
  /\ net' = Issue(net, "launch", [strategy |-> ui.strategy[1], set |-> LaunchSet[1],
                                  reviewed |-> Reviewed])
  /\ UNCHANGED <<db, wire>>

\* The checkbox of a fourth run is disabled, and the handler refuses it too.
ToggleComparison(id) ==
  /\ Free /\ RunSelection = "rows"
  /\ \E i \in DOMAIN ui.runs : ui.runs[i].id = id
  /\ id \in ui.compared \/ Cardinality(ui.compared) < MaxCompared
  /\ ui' = [Clicked EXCEPT !.compared = IF id \in @ THEN @ \ {id} ELSE @ \cup {id}]
  /\ Stay

\* The entry copies what is compared now.
CreateLogEntry ==
  /\ Free /\ ExperimentLog.canCreate
  /\ ui' = [Clicked EXCEPT !.log = <<[runs |-> [i \in DOMAIN ComparedRuns |-> ComparedRuns[i].id],
                                      differences |-> KeyDifferences(ComparedRuns),
                                      observations |-> Observations(ComparedRuns)]>> \o @]
  /\ Stay

----------------------------------------------------------------------------
(* Answers. *)

\* The first strategy is selected unless one is already.
DeliverStrategies(r) ==
  /\ r.op = "strategies"
  /\ LET loaded == [ui EXCEPT !.loadingStrategies = FALSE, !.strategiesError = ~r.ok,
                              !.strategies = IF r.ok THEN r.val[1] ELSE @]
     IN  ui' = IF loaded.strategies # <<>> /\ ui.strategy = Null
               THEN Chosen(loaded, loaded.strategies[1]) ELSE loaded

Completed(list) == Kept(list, {i \in DOMAIN list : list[i].status = "completed"})

DeliverBacktests(r) ==
  /\ r.op = "backtests"
  /\ ui' = [ui EXCEPT !.loadingRuns = FALSE, !.runsError = ~r.ok,
                      !.runs = IF r.ok THEN Completed(r.val[1]) ELSE @]

\* The list replaces what is there, a set saved meanwhile included.
DeliverSets(r) ==
  /\ r.op = "sets"
  /\ ui' = [ui EXCEPT !.loadingSets = FALSE, !.setsError = ~r.ok,
                      !.sets = IF r.ok THEN r.val[1] ELSE @]

DeliverSave(r) ==
  /\ r.op = "save"
  /\ ui' = IF r.ok
           THEN [ui EXCEPT !.saving = FALSE, !.sets = Append(@, r.val[1]), !.name = Null,
                           !.snapshot = <<r.val[1].id>>]
           ELSE [ui EXCEPT !.saving = FALSE, !.saveError = TRUE]

\* A launched backtest leads to the backtests page.
DeliverLaunch(r) ==
  /\ r.op = "launch"
  /\ ui' = [ui EXCEPT !.launching = FALSE, !.launchError = ~r.ok, !.left = @ \/ r.ok]

Deliver ==
  /\ \E i \in Deliverable : LET r == net[i] IN
       /\ \/ DeliverStrategies(r) \/ DeliverBacktests(r) \/ DeliverSets(r)
          \/ DeliverSave(r) \/ DeliverLaunch(r)
       /\ net' = Handled(i)
  /\ UNCHANGED <<db, wire>>

----------------------------------------------------------------------------
(* The API: lists, a set saved under a free name, a launched backtest. *)

SetOf(arg) == [id |-> Len(db.sets) + 1, strategy |-> arg.strategy, name |-> arg.name,
               values |-> arg.values]

Taken(arg) == \E i \in DOMAIN db.sets : db.sets[i].strategy = arg.strategy /\ db.sets[i].name = arg.name

ServeList(r, i) ==
  /\ r.op \in {"strategies", "backtests", "sets"}
  /\ net' = Served(i, CASE r.op = "strategies" -> Strategies
                        [] r.op = "backtests" -> Backtests
                        [] r.op = "sets" -> db.sets)
  /\ UNCHANGED db

ServeSave(r, i) ==
  /\ r.op = "save"
  /\ IF Taken(r.arg) THEN net' = Refused(i) /\ UNCHANGED db
     ELSE /\ net' = Served(i, SetOf(r.arg))
          /\ db' = [db EXCEPT !.sets = Append(@, SetOf(r.arg))]

ServeLaunch(r, i) ==
  /\ r.op = "launch"
  /\ net' = Served(i, 0)
  /\ db' = [db EXCEPT !.launched = Append(@, r.arg)]

Serve ==
  /\ \E i \in Servable : ServeList(net[i], i) \/ ServeSave(net[i], i) \/ ServeLaunch(net[i], i)
  /\ UNCHANGED <<ui, wire>>

LabNext ==
  \/ \E slug \in ToSet(Strategies) : SelectStrategy(slug)
  \/ \E key \in DOMAIN Typed : \E value \in Typed[key] : EditValue(key, value)
  \/ \E name \in Names : TypeName(name)
  \/ \E capital \in Capitals : TypeCapital(capital)
  \/ \E i \in DOMAIN StrategySets : ViewSnapshot(i) \/ ApplySnapshot(i)
  \/ \E i \in DOMAIN Backtests : ToggleComparison(Backtests[i].id)
  \/ SaveSnapshot \/ LaunchBacktest \/ CreateLogEntry \/ Deliver \/ Serve \/ RequestFails

----------------------------------------------------------------------------
(* Properties. *)

\* The readiness score never ranks a configuration that cannot be launched
\* with, or above, one that can.  For a strategy whose parameters the page knows, the
\* defaults have the full score, the coach explains exactly the configurations that
\* are not ready, and a beginner sees that there is an explanation; one it does not
\* know is invalid for that alone, and nothing is explained.  An estimate that comes
\* from one parameter is not high in responsiveness and low in frequency, or the
\* reverse.
ReadinessRanksConfigurations ==
  ui.strategy # Null =>
    LET slug == ui.strategy[1]
        coach == CoachCards(slug, ui.values[1], TRUE)
    IN
    /\ coach.health = "invalid" <=> coach.readiness < 70
    /\ coach.health = "ready" <=> coach.readiness = 100
    /\ Definitions(slug) # {} =>
         /\ DOMAIN coach.changes = {} => coach.readiness = 100
         /\ coach.health = "ready" <=> coach.why = {}
         /\ coach.health # "ready" <=> "explanation" \in ToSet(coach.know)
    /\ slug \in {"ma_crossover", "breakout"} =>
         <<coach.behavior[1].responsiveness, coach.behavior[1].frequency>>
           \notin {<<"High", "Low">>, <<"Low", "High">>}

\* The comparison does not contradict itself: the run named as having the lower
\* drawdown carries that badge, the one with the higher fees does not carry the
\* low-fee badge, a badge is for a metric the card shows, and a longer bar never
\* stands for a smaller magnitude.  A log entry of these runs agrees.
ComparisonIsCoherent ==
  LET runs == ComparedRuns
      comparison == ComparisonCards(runs)
      insights == InsightsWorkspace(runs)
  IN  /\ comparison # Null =>
           LET cards == comparison[1].cards differences == comparison[1].differences IN
           /\ differences.maxDrawdown # Null =>
                "maxDrawdown" \in cards[differences.maxDrawdown[1]].badges
           /\ differences.feeDrag # Null => "feeDrag" \notin cards[differences.feeDrag[1]].badges
           /\ \A i \in DOMAIN cards : cards[i].badges \subseteq cards[i].shown
      /\ insights # Null =>
           \A metric \in DOMAIN insights[1].bars : \A i, j \in Known(runs, metric) :
             LET widths == insights[1].bars[metric] IN
             /\ widths[i] <= 100
             /\ widths[i] > widths[j] => Magnitude(runs, metric, i) > Magnitude(runs, metric, j)
      /\ \A k \in DOMAIN ExperimentLog.entries :
           LET entry == ExperimentLog.entries[k] IN
           entry.runs = [i \in DOMAIN runs |-> runs[i].id] /\ insights # Null
             => entry.observations = insights[1].observations

\* The lab does not contradict itself: in its readiness scores, nor in comparing runs.
LabAgrees == ReadinessRanksConfigurations /\ ComparisonIsCoherent

\* The review "confirms exactly what will be tested": a launched backtest runs
\* with the parameter values the review showed.
LaunchTestsReviewed ==
  \A i \in DOMAIN db.launched : \A j \in DOMAIN db.sets :
    db.sets[j].id = db.launched[i].set =>
      LET slug == db.launched[i].strategy IN
      \A key \in Definitions(slug) :
        db.launched[i].reviewed.values[1][key] = Coerced(slug, key, db.sets[j].values[key])
=============================================================================
