-------------------------- MODULE DashboardConsole --------------------------
(***************************************************************************)
(* The dashboard: an intelligence tab polled for the selected range and    *)
(* four tabs whose panels load when they mount.  The panels' requests die  *)
(* with the panel; the hook's fetch outlives its tab.                      *)
(***************************************************************************)
EXTENDS StablePolling

CONSTANTS
  Ranges,        \* selectable ranges of the intelligence score
  Health,        \* pipeline counts the API reports, by database version
  HistoryPages,  \* pages of trade history
  Frames         \* animation frames of a counter (12 in the source)

Tabs == {"intelligence", "equity", "strategy", "pipeline", "activity"}
PanelOps == {"equity", "strategy", "pipeline", "activity"}
LastVersion == CHOOSE v \in DOMAIN Health : \A w \in DOMAIN Health : w <= v

\* A panel as it mounts: counter is the animated number of the pipeline
\* panel, offset the page of the history panel.
NewPanel == [data |-> Null, loading |-> TRUE, refreshing |-> FALSE, error |-> FALSE,
             offset |-> 0, counter |-> [from |-> 0, shown |-> 0, step |-> Frames]]

PanelArg(tab, panel) == IF tab = "activity" THEN panel.offset ELSE 0

DashInit ==
  /\ ui = [tab |-> "intelligence", range |-> CHOOSE r \in Ranges : TRUE, hidden |-> FALSE,
           poll |-> Run(IdlePoll, TRUE), panel |-> NewPanel, clicks |-> 0]
  /\ net = Issue(<<>>, "score", ui.range)
  /\ db = [version |-> 0, failures |-> 0]
  /\ wire \in Wires

Enabled(tab) == tab = "intelligence"

----------------------------------------------------------------------------
(* Counters and stages of the pipeline panel. *)

\* A new value restarts the animation from the last value it completed.
Retarget(counter) == [counter EXCEPT !.step = 0]

Counted(panel) == IF panel.data = Null THEN 0 ELSE Health[panel.data[1]].decisions

\* One frame: the last one also moves the start of the next animation.
NextFrame(counter, value) ==
  LET step == counter.step + 1
      part == (((IF value >= counter.from THEN value - counter.from ELSE 0) * step) \div Frames)
      back == (((IF value < counter.from THEN counter.from - value ELSE 0) * step) \div Frames)
  IN  [from |-> IF step >= Frames THEN value ELSE counter.from,
       shown |-> (counter.from + part) - back,
       step |-> step]

\* The tone of each stage of the pipeline.
Tone(h, stage) ==
  CASE stage = "candles" -> IF h.candles > 0 THEN "green" ELSE "gray"
    [] stage = "signals" -> IF h.signals > 0 THEN "green" ELSE "gray"
    [] stage = "candidates" -> IF h.candidates > 0 THEN "green"
                               ELSE IF h.signals > 0 THEN "yellow" ELSE "gray"
    [] stage = "attempted" -> IF h.attempted > 0 THEN "green"
                              ELSE IF h.candidates > 0 THEN "yellow" ELSE "gray"
    [] stage = "risk" -> IF h.rejected > 0 THEN "red"
                         ELSE IF h.riskEvents > 0 THEN "green"
                         ELSE IF h.attempted > 0 THEN "yellow" ELSE "gray"
    [] stage = "trades" -> IF h.trades > 0 THEN "green"
                           ELSE IF h.riskEvents > 0 \/ h.attempted > 0 THEN "yellow" ELSE "gray"
    [] stage = "decisions" -> IF h.decisions > 0 THEN "green" ELSE "gray"

MachineStatus(h) ==
  CASE h.candles = 0 -> "waiting_market"
    [] h.candles # 0 /\ h.candidates = 0 -> "waiting_signal"
    [] h.candles # 0 /\ h.candidates # 0 /\ h.rejected > 0 /\ h.trades = 0 -> "risk_blocking"
    [] h.candles # 0 /\ h.candidates # 0 /\ h.trades > 0 -> "trading"
    [] h.candles # 0 /\ h.candidates # 0 /\ h.rejected = 0 /\ h.trades = 0 ->
         IF h.attempted > 0 THEN "executing" ELSE "active"

----------------------------------------------------------------------------
(* Handlers and effects. *)

\* A tab is opened: the old panel's cleanup runs, the new one mounts and loads,
\* and the hook runs at once when its tab comes back.
OpenTab(tab) ==
  /\ CanClick /\ tab # ui.tab
  /\ ui' = [Clicked EXCEPT !.tab = tab, !.panel = NewPanel, !.poll = Run(@, Enabled(tab))]
  /\ net' = LET kept == Abandon(net, PanelOps) IN
            IF Enabled(tab) THEN RunIssues(kept, ui.poll, TRUE, "score", ui.range)
                            ELSE Issue(kept, tab, PanelArg(tab, NewPanel))
  /\ UNCHANGED <<db, wire>>

\* The range buttons exist on the intelligence tab only; a new fetcher runs at once.
SelectRange(range) ==
  /\ CanClick /\ ui.tab = "intelligence" /\ range # ui.range
  /\ ui' = [Clicked EXCEPT !.range = range, !.poll = Run(@, TRUE)]
  /\ net' = RunIssues(net, ui.poll, TRUE, "score", range)
  /\ UNCHANGED <<db, wire>>

\* The hook's interval: skipped while the document is hidden.
PollTick ==
  /\ Enabled(ui.tab) /\ ~ui.hidden
  /\ RunStarts(ui.poll, TRUE)
  /\ ui' = [ui EXCEPT !.poll = Run(@, TRUE)]
  /\ net' = RunIssues(net, ui.poll, TRUE, "score", ui.range)
  /\ UNCHANGED <<db, wire>>

ToggleHidden ==
  /\ CanClick
  /\ ui' = [Clicked EXCEPT !.hidden = ~@]
  /\ UNCHANGED <<net, db, wire>>

\* The pipeline panel's own interval has no in-flight guard; at most two of its
\* requests are let pile up here.
PipelineTick ==
  /\ ui.tab = "pipeline"
  /\ \A i, j \in DOMAIN net : net[i].op = "pipeline" /\ net[j].op = "pipeline" => i = j
  /\ ui' = [ui EXCEPT !.panel.refreshing = TRUE]
  /\ net' = Issue(net, "pipeline", 1)
  /\ UNCHANGED <<db, wire>>

CounterFrame ==
  /\ ui.tab = "pipeline" /\ ui.panel.counter.step < Frames
  /\ ui' = [ui EXCEPT !.panel.counter = NextFrame(@, Counted(ui.panel))]
  /\ UNCHANGED <<net, db, wire>>

\* The cleanup of the history's effect when its offset changes.
PageCleanup(requests) == Abandon(requests, {"activity"})

\* Paging the history: the effect of the old offset is cleaned up, the new
\* one loads.  Next trusts the page shown, which may belong to another offset.
HasNext == ui.panel.data # Null /\ ui.panel.data[1].more

TurnPage(offset) ==
  /\ CanClick /\ ui.tab = "activity"
  /\ \/ offset = ui.panel.offset + 1 /\ HasNext
     \/ offset = ui.panel.offset - 1 /\ ui.panel.offset > 0
  /\ offset <= HistoryPages + 1
  /\ ui' = [Clicked EXCEPT !.panel.offset = offset, !.panel.loading = TRUE, !.panel.error = FALSE]
  /\ net' = Issue(PageCleanup(net), "activity", offset)
  /\ UNCHANGED <<db, wire>>

----------------------------------------------------------------------------
(* Answers. *)

DeliverScore(i) ==
  /\ net[i].op = "score"
  /\ ui' = [ui EXCEPT !.poll = FinishRun(@, net[i])]
  /\ net' = Handled(i)
  /\ UNCHANGED <<db, wire>>

\* A panel's answer: data on success, an error otherwise, and the flag of the
\* load that ended.  The pipeline panel's counter restarts when its value moves.
DeliverPanel(i) ==
  /\ net[i].op \in PanelOps
  /\ LET initial == net[i].op # "pipeline" \/ net[i].arg = 0
         loaded == [ui.panel EXCEPT !.data = IF net[i].ok THEN net[i].val ELSE @,
                                    !.error = ~net[i].ok,
                                    !.loading = @ /\ ~initial,
                                    !.refreshing = @ /\ initial]
         moved == net[i].op = "pipeline" /\ Counted(loaded) # Counted(ui.panel)
     IN  ui' = [ui EXCEPT !.panel = IF moved THEN [loaded EXCEPT !.counter = Retarget(@)]
                                             ELSE loaded]
  /\ net' = Handled(i)
  /\ UNCHANGED <<db, wire>>

Deliver == \E i \in Deliverable : DeliverScore(i) \/ DeliverPanel(i)

----------------------------------------------------------------------------
(* The API. *)

\* What the API answers: the score names the range it was computed for, the
\* history says whether another page follows.
Payload(r) ==
  CASE r.op = "score" -> r.arg
    [] r.op = "activity" -> [offset |-> r.arg, more |-> r.arg < HistoryPages]
    [] r.op \in PanelOps \ {"activity"} -> db.version

Serve ==
  /\ \E i \in Servable : net' = Served(i, Payload(net[i]))
  /\ UNCHANGED <<ui, db, wire>>

DataMoves ==
  /\ db.version < LastVersion
  /\ db' = [db EXCEPT !.version = @ + 1]
  /\ UNCHANGED <<ui, net, wire>>

DashNext ==
  \/ \E tab \in Tabs : OpenTab(tab)
  \/ \E range \in Ranges : SelectRange(range)
  \/ \E offset \in 0..(HistoryPages + 1) : TurnPage(offset)
  \/ PollTick \/ ToggleHidden \/ PipelineTick \/ CounterFrame
  \/ Deliver \/ Serve \/ DataMoves \/ RequestFails

----------------------------------------------------------------------------
(* Properties. *)

\* The history tab shows the page whose number it shows: a page turned away from
\* before its answer came never replaces the selected one.
HistoryPageIsSelected ==
  ui.tab = "activity" /\ ui.panel.data # Null /\ ~ui.panel.loading /\ ~ui.panel.error =>
    ui.panel.data[1].offset = ui.panel.offset

\* The machine's status never contradicts the stages drawn below it.
StatusAgreesWithStages ==
  ui.tab = "pipeline" /\ ui.panel.data # Null =>
    LET h == Health[ui.panel.data[1]] status == MachineStatus(h) IN
    /\ status = "waiting_market" <=> Tone(h, "candles") = "gray"
    /\ status = "risk_blocking" => Tone(h, "risk") = "red"
    /\ status = "trading" => Tone(h, "trades") = "green" /\ Tone(h, "candidates") = "green"
    /\ status = "executing" => Tone(h, "attempted") = "green" /\ Tone(h, "risk") # "red"

\* When its animation has ended the counter shows the value polled last, although
\* values arrive in the middle of earlier animations.
CounterShowsItsValue ==
  ui.tab = "pipeline" /\ ui.panel.counter.step = Frames =>
    ui.panel.counter.shown = Counted(ui.panel)

\* What the panels of the dashboard show is consistent.
PanelsAgree == HistoryPageIsSelected /\ StatusAgreesWithStages /\ CounterShowsItsValue

\* The score of a visible intelligence tab is that of the selected range.
ScoreOfRange == ui.hidden \/ ui.tab # "intelligence" \/ ui.poll.data = <<ui.range>>
=============================================================================
