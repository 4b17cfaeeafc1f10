--------------------------- MODULE ParameterRules ---------------------------
(***************************************************************************)
(* What the strategy lab knows of a strategy's parameters: their           *)
(* definitions and rules, and the coach's health, readiness and behaviour  *)
(* of a configuration.                                                     *)
(*                                                                         *)
(* Numbers are in hundredths.  A value that may be missing is <<>> or      *)
(* <<v>>; the messages are left out, what is counted and told apart kept.  *)
(***************************************************************************)
EXTENDS Integers, FiniteSets, Sequences

Numeric(kind, least, most, low, high) ==
  [kind |-> kind, least |-> least * 100, most |-> most * 100, low |-> low, high |-> high]
Whole(least, most, low, high) == Numeric("integer", least, most, low * 100, high * 100)
Percent(low, high) == Numeric("percentage", 0, 100, low, high)
OneOf(allowed) == [kind |-> "enum", allowed |-> allowed]

Metadata == [
  fast_period |-> Whole(2, 200, 5, 30),
  slow_period |-> Whole(5, 400, 20, 100),
  ma_type |-> OneOf({"sma", "ema"}),
  rsi_period |-> Whole(2, 100, 7, 21),
  oversold |-> Percent(2000, 4000),
  overbought |-> Percent(6000, 8000),
  lookback |-> Whole(2, 300, 10, 60),
  volume_confirmation |-> [kind |-> "boolean"],
  min_volume_multiple |-> Numeric("decimal", 0, 10, 100, 300),
  atr_period |-> Whole(2, 200, 10, 30),
  min_atr_pct |-> Percent(10, 200),
  max_atr_pct |-> Percent(200, 800),
  adx_period |-> Whole(2, 200, 10, 30),
  adx_trend_threshold |-> Whole(0, 100, 20, 35),
  ma_slope_period |-> Whole(2, 400, 20, 100),
  min_strategies_agreeing |-> Whole(1, 10, 1, 4),
  conflict_resolution |-> OneOf({"net_strength", "majority_vote"})]

Defaults == [
  ma_crossover |-> [fast_period |-> 1000, slow_period |-> 5000, ma_type |-> "sma"],
  rsi_mean_reversion |-> [rsi_period |-> 1400, oversold |-> 3000, overbought |-> 7000],
  breakout |-> [lookback |-> 2000, volume_confirmation |-> TRUE, min_volume_multiple |-> 150],
  volatility_filter |-> [atr_period |-> 1400, min_atr_pct |-> 20, max_atr_pct |-> 500],
  trend_regime_filter |-> [adx_period |-> 1400, adx_trend_threshold |-> 2500,
                           ma_slope_period |-> 5000],
  ensemble_scorer |-> [min_strategies_agreeing |-> 100, conflict_resolution |-> "net_strength"]]

\* The parameters of a strategy; none for a slug the page does not know.
Definitions(slug) == IF slug \in DOMAIN Defaults THEN DOMAIN Defaults[slug] ELSE {}

DefaultValues(slug) ==
  [key \in Definitions(slug) |-> <<Defaults[slug][key]>>]

IsNumeric(key) == Metadata[key].kind \in {"integer", "decimal", "percentage"}

\* The rules a value breaks.  Every parameter is required.
Errors(key, value) ==
  IF value = <<>> THEN {"required"}
  ELSE IF IsNumeric(key)
  THEN {rule \in {"whole", "minimum", "maximum"} :
          \/ rule = "whole" /\ Metadata[key].kind = "integer" /\ value[1] % 100 # 0
          \/ rule = "minimum" /\ value[1] < Metadata[key].least
          \/ rule = "maximum" /\ value[1] > Metadata[key].most}
  ELSE IF Metadata[key].kind = "enum" /\ value[1] \notin Metadata[key].allowed
  THEN {"allowedValues"} ELSE {}

\* A number outside its recommended range, valid or not, is warned about.
Warned(key, value) ==
  value # <<>> /\ IsNumeric(key) /\
  (value[1] < Metadata[key].low \/ value[1] > Metadata[key].high)

\* A form: its errors and warnings as pairs of a parameter and a rule.
FormErrors(slug, values) ==
  IF Definitions(slug) = {} THEN {<<slug, "unknown">>}
  ELSE UNION {{<<key, rule>> : rule \in Errors(key, values[key])} : key \in Definitions(slug)}

FormWarnings(slug, values) == {key \in Definitions(slug) : Warned(key, values[key])}

Missing(slug, values) == {key \in Definitions(slug) : values[key] = <<>>}

----------------------------------------------------------------------------
(* The coach. *)

HealthState(slug, values) ==
  IF FormErrors(slug, values) # {} THEN "invalid"
  ELSE IF FormWarnings(slug, values) # {} THEN "needs-attention" ELSE "ready"

\* A missing value counts as an error and again as missing.
Readiness(slug, values) ==
  LET score == 100 - 35 * Cardinality(FormErrors(slug, values))
                   - 10 * Cardinality(FormWarnings(slug, values))
                   - 10 * Cardinality(Missing(slug, values))
  IN  IF score < 0 THEN 0 ELSE score

\* Three bands of a quantity that works against what is judged.
Against(value, low, high) ==
  IF value <= low THEN "High" ELSE IF value >= high THEN "Low" ELSE "Medium"

With(value, medium, high) ==
  IF value >= high THEN "High" ELSE IF value >= medium THEN "Medium" ELSE "Low"

\* Behaviour estimates: trade frequency and responsiveness.
Frequency(slug, values) ==
  CASE slug = "ma_crossover" -> Against(values.fast_period[1], 1200, 3000)
    [] slug = "rsi_mean_reversion" ->
         LET gap == values.overbought[1] - values.oversold[1]
         IN  IF gap <= 3500 THEN "High" ELSE IF gap <= 5000 THEN "Medium" ELSE "Low"
    [] slug = "breakout" ->
         IF values.lookback[1] <= 1500 /\
            (~values.volume_confirmation[1] \/ values.min_volume_multiple[1] <= 120)
         THEN "High" ELSE IF values.lookback[1] <= 3000 THEN "Medium" ELSE "Low"

Responsiveness(slug, values) ==
  CASE slug = "ma_crossover" -> Against(values.fast_period[1], 1000, 3500)
    [] slug = "rsi_mean_reversion" -> Against(values.rsi_period[1], 800, 2100)
    [] slug = "breakout" -> Against(values.lookback[1], 1200, 4000)

\* Noise filtering and trend sensitivity.
Filtering(slug, values) ==
  CASE slug = "ma_crossover" -> With(values.slow_period[1], 5000, 10000)
    [] slug = "rsi_mean_reversion" -> With(values.rsi_period[1], 1200, 2100)
    [] slug = "breakout" ->
         IF ~values.volume_confirmation[1] THEN "Low"
         ELSE IF values.min_volume_multiple[1] >= 150 THEN "High" ELSE "Medium"

Sensitivity(slug, values) ==
  CASE slug = "ma_crossover" -> With(values.slow_period[1], 3000, 8000)
    [] slug = "rsi_mean_reversion" -> "Low"
    [] slug = "breakout" -> "High"

\* Only three strategies have estimates.
HasBehavior(slug) == slug \in {"ma_crossover", "rsi_mean_reversion", "breakout"}

Behavior(slug, values) ==
  [frequency |-> Frequency(slug, values), responsiveness |-> Responsiveness(slug, values),
   filtering |-> Filtering(slug, values), sensitivity |-> Sensitivity(slug, values)]

\* What the coach lists as changed, and why each issue matters.
Changed(slug, values) ==
  {key \in Definitions(slug) : values[key] # <<>> /\ values[key] # <<Defaults[slug][key]>>}

\* The direction whose notes are shown; at the default, the increasing ones.
Effect(slug, key, value) ==
  IF ~IsNumeric(key) THEN "option"
  ELSE IF value < Defaults[slug][key] THEN "decreasing" ELSE "increasing"

\* What the change of a parameter does to the form.
Impact(key, value) ==
  IF Errors(key, value) # {} THEN "invalid"
  ELSE IF Warned(key, value) THEN "needs-attention" ELSE "none"

\* Every error and warning of a parameter is explained; an unknown strategy has none.
Explained(slug, values) ==
  IF Definitions(slug) = {} THEN {}
  ELSE FormErrors(slug, values) \cup (FormWarnings(slug, values) \X {"recommended"})

\* The first three of up to four observations: the score may be left out.
TopObservations(slug, values) ==
  LET explanation == IF Explained(slug, values) = {} THEN <<>> ELSE <<"explanation">>
      behavior == IF HasBehavior(slug) THEN <<"behavior">> ELSE <<>>
      all == <<HealthState(slug, values)>> \o explanation \o behavior \o <<"readiness">>
  IN  SubSeq(all, 1, IF Len(all) < 3 THEN Len(all) ELSE 3)

CoachCards(slug, values, beginner) ==
  [health |-> HealthState(slug, values),
   readiness |-> Readiness(slug, values),
   changes |-> [key \in Changed(slug, values) |->
                  [effect |-> Effect(slug, key, values[key][1]),
                   impact |-> Impact(key, values[key])]],
   behavior |-> IF HasBehavior(slug) THEN <<Behavior(slug, values)>> ELSE <<>>,
   why |-> Explained(slug, values),
   know |-> IF beginner THEN TopObservations(slug, values) ELSE <<>>]

\* Reading a stored value: numbers of an integer parameter are rounded, what is
\* no number (or absent) becomes the default.
Coerced(slug, key, stored) ==
  IF stored = <<>> THEN <<Defaults[slug][key]>>
  ELSE IF Metadata[key].kind = "integer" THEN <<((stored[1] + 50) \div 100) * 100>>
  ELSE stored
=============================================================================
