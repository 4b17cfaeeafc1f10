------------------------- MODULE MCOperatorConsole -------------------------
(* Model values for checking the pages of the front end. *)
EXTENDS OperatorConsole, Integers, TLC

NoClicks == [dashboard |-> 0, markets |-> 0, paper |-> 0, risk |-> 0, validation |-> 0, lab |-> 0,
             arena |-> 0, mission |-> 0, decisions |-> 0, records |-> 0, backtests |-> 0, live |-> 0,
             instant |-> 0, preview |-> 0]

PagesClicks ==
  [NoClicks EXCEPT !.dashboard = 3, !.markets = 3, !.paper = 2, !.risk = 1, !.lab = 4, !.arena = 2,
                   !.mission = 2, !.decisions = 2, !.records = 2, !.backtests = 3, !.live = 3,
                   !.instant = 2, !.preview = 3]
PagesFailures ==
  [NoClicks EXCEPT !.dashboard = 1, !.markets = 1, !.paper = 1, !.arena = 1, !.mission = 1,
                   !.risk = 1, !.records = 1, !.live = 1, !.instant = 1, !.preview = 1]

PollingClicks ==
  [NoClicks EXCEPT !.dashboard = 2, !.mission = 2, !.validation = 1, !.backtests = 1]
PollingFailures == [NoClicks EXCEPT !.dashboard = 1, !.mission = 1, !.backtests = 1]

----------------------------------------------------------------------------
\* Dashboard: a pipeline with signals and no candidates, then one that trades.
MCHealth ==
  (0 :> [candles |-> 1, signals |-> 1, candidates |-> 0, attempted |-> 0, riskEvents |-> 0,
         rejected |-> 0, trades |-> 0, decisions |-> 1])
    @@ (1 :> [candles |-> 2, signals |-> 1, candidates |-> 1, attempted |-> 1, riskEvents |-> 1,
              rejected |-> 0, trades |-> 1, decisions |-> 3])

\* Markets: an asset with a close that is not a number, and one without candles.
MCAssets == <<"x", "y">>
MCCandles == [k \in {"x", "y"} \X {"1h", "1d"} |-> IF k[1] = "x" THEN <<1, 3, -1, 2, 5>> ELSE <<>>]

\* Risk: three limits, so that a change can tighten one that others tightened further,
\* and a looser cooldown.
MCRules == {[limit |-> 3, cooldown |-> 2], [limit |-> 2, cooldown |-> 2], [limit |-> 1, cooldown |-> 2],
            [limit |-> 1, cooldown |-> 1]}

\* Strategy lab: a strategy whose parameters the page does not know; a stored set with a
\* default missing and a value to round.
MCStrategies == <<"ma_crossover", "breakout", "momentum">>
MCSets ==
  <<[id |-> 1, strategy |-> "ma_crossover", name |-> "s1",
     values |-> [fast_period |-> <<2050>>, slow_period |-> <<>>, ma_type |-> <<"ema">>]]>>
MCTyped == [fast_period |-> {50, 4000}, slow_period |-> {12000}, min_volume_multiple |-> {1100}]

Metrics(return, wins, drawdown, fees, trades) ==
  [totalReturn |-> return, winRate |-> wins, maxDrawdown |-> drawdown, feeDrag |-> fees,
   trades |-> trades]
Run(id, status, metrics) ==
  [id |-> id, strategy |-> "breakout", set |-> 1, status |-> status, metrics |-> metrics]

MCBacktests ==
  <<Run(1, "completed", Metrics(<<5>>, <<3>>, <<2>>, <<1>>, <<4>>)),
    Run(2, "failed", Metrics(<<>>, <<>>, <<>>, <<>>, <<>>)),
    Run(3, "completed", Metrics(<<-20>>, <<3>>, <<>>, <<2>>, <<4>>)),
    Run(4, "completed", Metrics(<<0>>, <<1>>, <<1>>, <<1>>, <<2>>))>>

\* Arena and mission control.
MCRanking == <<"s1", "s2">>
MCAdapters == {[provider |-> "openai", status |-> "AVAILABLE"]}
MCWindows == [short |-> 2, long |-> 3]
MCGaps == [short |-> 1, long |-> 3]
MCCaptures == <<1, 2, 4>>

\* Decisions: three that match everything, one that a filter keeps.
MCLists == <<"timeline">>
MCDetails == <<"explainability">>
MCMatching == [all |-> <<1, 2, 3>>, paper |-> <<2>>]
MCEvidence ==
  [a \in {"buy", "hold"} |->
     [gaps |-> <<"", "g">>, warnings |-> <<>>, checks |-> <<"c">>, audit |-> <<>>, outcomes |-> <<>>]]

\* Backtests: the only set belongs to the second strategy.
MCBtStrategies == <<"s1", "s2">>
MCBtSets == <<[id |-> "p2", strategy |-> "s2"]>>
MCOutcomes ==
  {[status |-> "completed", trades |-> <<[side |-> "buy", value |-> 3], [side |-> "sell", value |-> 2]>>]}

\* Live orders: one preview of one profile whose checks pass.
MCProfiles == [v1 |-> "A"]
MCReadiness ==
  [A |-> [verdict |-> "READY_FOR_DRY_RUN", dryRun |-> TRUE,
          passed |-> {"production_connection_configured", "trade_permission_present",
                      "balance_available", "risk_engine_healthy",
                      "submission_feature_flag_disabled", "withdrawal_permission_not_required"}]]

\* Instant buy and order preview: two connections of the provider of each.
MCConnections ==
  <<[id |-> "c1", provider |-> "kraken_spot", environment |-> "production"],
    [id |-> "c2", provider |-> "kraken_spot", environment |-> "production"],
    [id |-> "c3", provider |-> "kraken_spot", environment |-> "sandbox"],
    [id |-> "c4", provider |-> "coinbase_advanced", environment |-> "production"],
    [id |-> "c5", provider |-> "coinbase_advanced", environment |-> "sandbox"]>>
=============================================================================
