---------------------------- MODULE MarketsPage -----------------------------
(***************************************************************************)
(* The markets page: an asset list that selects its first asset, a candle  *)
(* cache per asset and interval, and a fetch whose answer is used only if  *)
(* no later fetch was issued.  A cached selection issues no fetch.         *)
(***************************************************************************)
EXTENDS PageRequests, Integers

CONSTANTS
  Assets,       \* the API's active assets, in order (a sequence)
  Intervals,    \* candle intervals
  CandlesOf,    \* the closes the API holds per asset and interval; -1 is not a number
  Periods       \* moving-average periods the operator types

FirstInterval == CHOOSE n \in Intervals : TRUE
MarketsInit ==
  /\ ui = [asset |-> Null, interval |-> FirstInterval, candles |-> Null, loading |-> FALSE,
           error |-> FALSE, cache |-> [k \in {} |-> k], latest |-> 0,
           assets |-> <<>>, listLoading |-> TRUE, listError |-> FALSE,
           showSma |-> TRUE, period |-> CHOOSE p \in Periods : TRUE, clicks |-> 0]
  /\ net = Issue(<<>>, "assets", 0)
  /\ db = [failures |-> 0]
  /\ wire \in Wires

\* fetchCandles for a page whose asset and interval are those of view: nothing
\* selected, cached, or a fetch under the next request id.
CacheHit(view) == view.asset # Null /\ <<view.asset[1], view.interval>> \in DOMAIN view.cache

AfterFetch(view) ==
  IF view.asset = Null THEN [view EXCEPT !.candles = Null, !.error = FALSE]
  ELSE LET key == <<view.asset[1], view.interval>> IN
       IF CacheHit(view)
       THEN [view EXCEPT !.candles = <<view.cache[key]>>, !.error = FALSE, !.loading = FALSE]
       ELSE [view EXCEPT !.latest = @ + 1, !.loading = TRUE, !.error = FALSE]

FetchIssues(view) ==
  IF view.asset = Null \/ CacheHit(view) THEN net
  ELSE Issue(net, "candles", [id |-> view.latest + 1, key |-> <<view.asset[1], view.interval>>])

\* A changed asset or interval makes a new fetchCandles, which its effect calls.
Show(view) ==
  /\ ui' = AfterFetch(view)
  /\ net' = FetchIssues(view)
  /\ UNCHANGED <<db, wire>>

\* The list shows the loaded assets; clicking the selected one changes nothing.
SelectAsset(i) ==
  /\ CanClick /\ i \in DOMAIN ui.assets
  /\ ui.asset # <<ui.assets[i]>>
  /\ Show([Clicked EXCEPT !.asset = <<ui.assets[i]>>])

SelectInterval(interval) ==
  /\ CanClick /\ interval # ui.interval
  /\ Show([Clicked EXCEPT !.interval = interval])

Retry == CanClick /\ ui.error /\ Show(Clicked)

\* The period is typed and floored to at least 2, while the average is shown.
ToggleSma ==
  /\ CanClick
  /\ ui' = [Clicked EXCEPT !.showSma = ~@]
  /\ UNCHANGED <<net, db, wire>>

TypePeriod(period) ==
  /\ CanClick /\ ui.showSma
  /\ ui' = [Clicked EXCEPT !.period = IF period < 2 THEN 2 ELSE period]
  /\ UNCHANGED <<net, db, wire>>

----------------------------------------------------------------------------
(* What the chart draws. *)

\* Points whose numbers are not finite are dropped.
ChartPoints ==
  IF ui.candles = Null THEN <<>>
  ELSE LET closes == ui.candles[1].closes IN Kept(closes, {i \in DOMAIN closes : closes[i] # -1})

\* The running sum over a sliding window: the sums the averages divide by the
\* period, one per point from the period-th on.
RunningSum(points, period) ==
  LET sum[i \in 0..Len(points)] ==
        IF i = 0 THEN 0
        ELSE sum[i - 1] + points[i] - (IF i > period THEN points[i - period] ELSE 0)
  IN  IF period < 2 \/ Len(points) < period THEN <<>>
      ELSE [j \in 1..(Len(points) - period + 1) |-> sum[j + period - 1]]

SmaSums == RunningSum(ChartPoints, ui.period)

----------------------------------------------------------------------------
(* Answers. *)

\* The list loads once; a non-empty list selects its first asset.
DeliverAssets(i) ==
  /\ net[i].op = "assets"
  /\ LET listed == [ui EXCEPT !.listLoading = FALSE, !.listError = ~net[i].ok,
                              !.assets = IF net[i].ok THEN net[i].val[1] ELSE @]
         chosen == [listed EXCEPT !.asset = <<listed.assets[1]>>]
         selects == net[i].ok /\ listed.assets # <<>>
     IN  /\ ui' = IF selects THEN AfterFetch(chosen) ELSE listed
         /\ net' = LET rest == Handled(i) IN
                   IF selects THEN Issue(rest, "candles", [id |-> 1, key |-> <<chosen.asset[1], chosen.interval>>])
                   ELSE rest
  /\ UNCHANGED <<db, wire>>

\* What is cached once the candles of a key are loaded.
Cached(key, candles) ==
  [k \in DOMAIN ui.cache \cup {key} |-> IF k = key THEN candles ELSE ui.cache[k]]

\* An answer counts only while its id is the latest; it is cached under the key
\* the fetch was issued for.
DeliverCandles(i) ==
  /\ net[i].op = "candles"
  /\ LET r == net[i]
         current == ui.latest = r.arg.id
     IN  ui' = IF ~current THEN ui
               ELSE IF r.ok THEN [ui EXCEPT !.cache = Cached(r.arg.key, r.val[1]),
                                            !.candles = r.val, !.loading = FALSE]
               ELSE [ui EXCEPT !.error = TRUE, !.loading = FALSE]
  /\ net' = Handled(i)
  /\ UNCHANGED <<db, wire>>

Deliver == \E i \in Deliverable : DeliverAssets(i) \/ DeliverCandles(i)

\* The API returns the assets, or the candles of the asset and interval asked for.
Payload(r) ==
  CASE r.op = "assets" -> Assets
    [] r.op = "candles" -> [key |-> r.arg.key, closes |-> CandlesOf[r.arg.key]]

Serve ==
  /\ \E i \in Servable : net' = Served(i, Payload(net[i]))
  /\ UNCHANGED <<ui, db, wire>>

MarketsNext ==
  \/ \E i \in 1..Len(Assets) : SelectAsset(i)
  \/ \E interval \in Intervals : SelectInterval(interval)
  \/ \E period \in Periods : TypePeriod(period)
  \/ ToggleSma \/ Retry \/ Deliver \/ Serve \/ RequestFails

----------------------------------------------------------------------------
(* Properties. *)

\* A candle answer is kept under the asset and the interval it was fetched for,
\* whichever of them is selected when it arrives.
CandleCacheTrue == \A key \in DOMAIN ui.cache : ui.cache[key].key = key

\* The sum of the points from one place to another.
Total(points, first, last) ==
  LET sum[i \in (first - 1)..last] == IF i = first - 1 THEN 0 ELSE sum[i - 1] + points[i]
  IN  sum[last]

\* The moving average's running sums are the sums of the period's points.
SmaIsAverage ==
  \A j \in DOMAIN SmaSums : SmaSums[j] = Total(ChartPoints, j, j + ui.period - 1)

\* The chart draws cached candles of the right key and their true averages.
ChartIsTrue == CandleCacheTrue /\ SmaIsAverage
=============================================================================
