------------------------- MODULE ValidationRunsPage -------------------------
(***************************************************************************)
(* The validation-runs page: a polled list of runs, a selection that the   *)
(* refresh may move, the detail and the event timeline of the selected     *)
(* run, and handlers that start and cancel runs and then refresh.  A       *)
(* refresh is three requests long and may be in progress for the poll, a   *)
(* start and a cancel at once.                                             *)
(***************************************************************************)
EXTENDS StablePolling

CONSTANTS
  Queries,      \* filters of the event timeline
  EventPages,   \* pages of events a run has
  Endings,      \* statuses a run ends in by itself: COMPLETED, FAILED
  MaxRuns       \* bound on the runs created

Terminal == {"COMPLETED", "CANCELLED"}
\* A list of runs is a sequence of statuses: the index is the run, the last one
\* the newest, and the API lists the newest first.
RunningIn(list) == {r \in DOMAIN list : list[r] = "RUNNING"}
Newest(ids) == CHOOSE r \in ids : \A s \in ids : s <= r

EventsRequest(run, query, page, reset) ==
  [run |-> run, query |-> query, page |-> page, reset |-> reset,
   metricsNext |-> FALSE]

\* Who a refresh is for, and the query its closure captured.
Refresh(source, query) == [source |-> source, query |-> query]

ValidationInit ==
  /\ ui = [runs |-> <<>>, selected |-> Null, detail |-> Null, events |-> <<>>, page |-> 1,
           hasMore |-> FALSE, timelineLoading |-> FALSE, metrics |-> {},
           query |-> CHOOSE q \in Queries : TRUE, poll |-> Run(IdlePoll, TRUE),
           starting |-> FALSE, cancelling |-> FALSE, error |-> FALSE, clicks |-> 0]
  /\ net = Issue(<<>>, "list", Refresh("poll", ui.query))
  /\ db = [status |-> <<"RUNNING">>, failures |-> 0]
  /\ wire \in Wires

----------------------------------------------------------------------------
(* Effects.  The selection, the query and the loaded page make a new       *)
(* loadTimeline, which an effect calls from the first page; the query and  *)
(* the presence of running runs make a new poll, which runs at once.       *)

Reloads(view) ==
  view.selected # Null /\
  (view.selected # ui.selected \/ view.query # ui.query \/ view.page # ui.page)

Repolls(view) ==
  view.query # ui.query \/ (RunningIn(view.runs) = {}) # (RunningIn(ui.runs) = {})

Render(view, rest) ==
  LET polled == IF Repolls(view) THEN RunIssues(rest, view.poll, TRUE, "list", Refresh("poll", view.query)) ELSE rest
  IN  /\ ui' = [view EXCEPT !.poll = IF Repolls(view) THEN Run(@, TRUE) ELSE @,
                            !.timelineLoading = @ \/ Reloads(view),
                            !.error = @ /\ ~Reloads(view)]
      /\ net' = IF Reloads(view)
                THEN IssueFixed(polled, "timeline",
                                EventsRequest(view.selected[1], view.query, 1, TRUE), Null)
                ELSE polled
      /\ UNCHANGED <<db, wire>>

----------------------------------------------------------------------------
(* Handlers. *)

PollTick ==
  /\ RunStarts(ui.poll, TRUE)
  /\ Render([ui EXCEPT !.poll = Run(@, TRUE)], Issue(net, "list", Refresh("poll", ui.query)))

StartRun ==
  /\ CanClick /\ ~ui.starting /\ Len(db.status) < MaxRuns
  /\ Render([Clicked EXCEPT !.starting = TRUE, !.error = FALSE],
            Issue(net, "create", [run |-> 0, query |-> ui.query]))

CancelRun(run) ==
  /\ CanClick /\ ~ui.cancelling /\ run \in RunningIn(ui.runs)
  /\ Render([Clicked EXCEPT !.cancelling = TRUE, !.error = FALSE],
            Issue(net, "cancel", [run |-> run, query |-> ui.query]))

\* The handler goes on with the query and the metrics it saw at the click.
SelectRun(run) ==
  /\ CanClick /\ run \in DOMAIN ui.runs
  /\ Render([Clicked EXCEPT !.selected = <<run>>],
            IssueFixed(net, "detail", [run |-> run, query |-> ui.query, known |-> run \in ui.metrics], Null))

ChangeQuery(query) ==
  /\ CanClick /\ query # ui.query
  /\ Render([Clicked EXCEPT !.query = query], net)

LoadMore ==
  /\ CanClick /\ ui.hasMore /\ ui.selected # Null
  /\ Render([Clicked EXCEPT !.timelineLoading = TRUE],
            IssueFixed(net, "timeline",
                       EventsRequest(ui.selected[1], ui.query, ui.page + 1, FALSE), Null))

----------------------------------------------------------------------------
(* Answers. *)

\* A refresh ends for the poll, a start or a cancel.
Ended(view, source, ok) ==
  CASE source = "poll" -> [view EXCEPT !.poll = FinishRun(@, [ok |-> ok, val |-> <<TRUE>>]),
                                       !.error = @ \/ ~ok]
    [] source = "start" -> [view EXCEPT !.starting = FALSE, !.error = @ \/ ~ok]
    [] source = "cancel" -> [view EXCEPT !.cancelling = FALSE, !.error = @ \/ ~ok]

\* The selection is kept unless its run is gone or terminal; then the newest
\* running run is preferred to the newest of all.
Preferred(list, selected) ==
  IF selected # Null /\ selected[1] \in DOMAIN list /\ list[selected[1]] \notin Terminal
  THEN selected
  ELSE IF RunningIn(list) # {} THEN <<Newest(RunningIn(list))>>
  ELSE IF list # <<>> THEN <<Newest(DOMAIN list)>> ELSE Null

\* Mutant: the detail of the preferred run is loaded, the selection is kept.
ChooseRunUnseen(view, list, refresh, rest) ==
  LET preferred == Preferred(list, view.selected)
      chosen == [view EXCEPT !.metrics = RunningIn(list),
                             !.selected = IF @ = Null THEN preferred ELSE @]
  IN  IF preferred = Null
      THEN Render(Ended([chosen EXCEPT !.detail = Null, !.events = <<>>, !.page = 1,
                                       !.hasMore = FALSE], refresh.source, TRUE), rest)
      ELSE Render(chosen, IssueFixed(rest, "pair", [run |-> preferred[1], query |-> refresh.query,
                                                    source |-> refresh.source], Null))

\* The second half of a refresh, once the metrics of the running runs are in.
ChooseRun(view, list, refresh, rest) ==
  LET preferred == Preferred(list, view.selected)
      chosen == [view EXCEPT !.metrics = RunningIn(list), !.selected = preferred]
  IN  IF preferred = Null
      THEN Render(Ended([chosen EXCEPT !.detail = Null, !.events = <<>>, !.page = 1,
                                       !.hasMore = FALSE], refresh.source, TRUE), rest)
      ELSE Render(chosen, IssueFixed(rest, "pair", [run |-> preferred[1], query |-> refresh.query,
                                                    source |-> refresh.source], Null))

DeliverList(r, rest) ==
  /\ r.op = "list"
  /\ IF ~r.ok THEN Render(Ended(ui, r.arg.source, FALSE), rest)
     ELSE LET view == [ui EXCEPT !.runs = r.val[1]] IN
          IF RunningIn(r.val[1]) = {} THEN ChooseRun(view, r.val[1], r.arg, rest)
          ELSE Render(view, IssueFixed(rest, "metrics", [list |-> r.val[1], refresh |-> r.arg], Null))

DeliverMetrics(r, rest) ==
  /\ r.op = "metrics"
  /\ IF r.ok THEN ChooseRun(ui, r.arg.list, r.arg.refresh, rest)
     ELSE Render(Ended(ui, r.arg.refresh.source, FALSE), rest)

PageOf(arg) == [run |-> arg.run, query |-> arg.query, page |-> arg.page]

\* The detail and the first page of events of the preferred run, looked at by no guard.
DeliverPair(r, rest) ==
  /\ r.op = "pair"
  /\ LET view == IF r.ok
                 THEN [ui EXCEPT !.detail = <<r.arg.run>>, !.page = 1, !.hasMore = EventPages > 1,
                                 !.events = <<[run |-> r.arg.run, query |-> r.arg.query, page |-> 1]>>]
                 ELSE ui
     IN  Render(Ended(view, r.arg.source, r.ok), rest)

\* An answered timeline load; the selection handler's one is followed by the metrics.
DeliverTimeline(r, rest) ==
  /\ r.op = "timeline"
  /\ Render(IF r.ok
            THEN [ui EXCEPT !.timelineLoading = FALSE, !.page = r.arg.page,
                            !.hasMore = r.arg.page < EventPages,
                            !.events = IF r.arg.reset THEN <<PageOf(r.arg)>>
                                       ELSE Append(@, PageOf(r.arg))]
            ELSE [ui EXCEPT !.timelineLoading = FALSE, !.error = TRUE],
            IF r.ok /\ r.arg.metricsNext THEN IssueFixed(rest, "runMetrics", [run |-> r.arg.run], Null) ELSE rest)

DeliverDetail(r, rest) ==
  /\ r.op = "detail"
  /\ IF r.ok
     THEN Render([ui EXCEPT !.detail = <<r.arg.run>>, !.timelineLoading = TRUE],
                 IssueFixed(rest, "timeline",
                            [EventsRequest(r.arg.run, r.arg.query, 1, TRUE)
                               EXCEPT !.metricsNext = ~r.arg.known], Null))
     ELSE Render([ui EXCEPT !.error = TRUE], rest)

DeliverRunMetrics(r, rest) ==
  /\ r.op = "runMetrics"
  /\ Render(IF r.ok THEN [ui EXCEPT !.metrics = @ \cup {r.arg.run}] ELSE [ui EXCEPT !.error = TRUE], rest)

\* A created run is started; a started or cancelled one is followed by a refresh.
DeliverCommand(r, rest) ==
  /\ r.op \in {"create", "start", "cancel"}
  /\ LET source == IF r.op = "cancel" THEN "cancel" ELSE "start" IN
     IF ~r.ok THEN Render(Ended(ui, source, FALSE), rest)
     ELSE Render(ui, IF r.op = "create"
                     THEN Issue(rest, "start", [run |-> Len(r.val[1]), query |-> r.arg.query])
                     ELSE Issue(rest, "list", Refresh(source, r.arg.query)))

Deliver ==
  \E i \in Deliverable : LET r == net[i] rest == Handled(i) IN
    \/ DeliverList(r, rest) \/ DeliverMetrics(r, rest) \/ DeliverPair(r, rest)
    \/ DeliverTimeline(r, rest) \/ DeliverDetail(r, rest) \/ DeliverRunMetrics(r, rest)
    \/ DeliverCommand(r, rest)

----------------------------------------------------------------------------
(* The API.  What it knows of a run's detail, metrics and events is fixed *)
(* here: those requests are answered by the run, the query and the page.   *)

Accepts(r) ==
  CASE r.op = "start" -> db.status[r.arg.run] = "DRAFT"
    [] r.op = "cancel" -> db.status[r.arg.run] \in {"DRAFT", "RUNNING"}
    [] r.op \in {"create", "list"} -> TRUE

StatusAfter(r) ==
  CASE r.op = "create" -> Append(db.status, "DRAFT")
    [] r.op = "start" -> [db.status EXCEPT ![r.arg.run] = "RUNNING"]
    [] r.op = "cancel" -> [db.status EXCEPT ![r.arg.run] = "CANCELLED"]
    [] r.op = "list" -> db.status

\* A created run is the last of those there are then.
Payload(r) == StatusAfter(r)

Serve ==
  /\ \E i \in Servable : LET r == net[i] IN
       /\ Accepts(r)
       /\ net' = Served(i, Payload(r))
       /\ db' = [db EXCEPT !.status = StatusAfter(r)]
  /\ UNCHANGED <<ui, wire>>

Refuse ==
  /\ \E i \in Servable : ~Accepts(net[i]) /\ net' = Refused(i)
  /\ UNCHANGED <<ui, db, wire>>

RunEnds(run) ==
  /\ db.status[run] = "RUNNING"
  /\ \E status \in Endings : db' = [db EXCEPT !.status[run] = status]
  /\ UNCHANGED <<ui, net, wire>>

ValidationNext ==
  \/ \E run \in 1..MaxRuns : CancelRun(run) \/ SelectRun(run)
  \/ \E run \in DOMAIN db.status : RunEnds(run)
  \/ \E query \in Queries : ChangeQuery(query)
  \/ PollTick \/ StartRun \/ LoadMore \/ Deliver \/ Serve \/ Refuse \/ RequestFails

----------------------------------------------------------------------------
(* Properties. *)

\* The detail and the events are those of the selected run.
ShowsSelected ==
  ui.selected # Null => /\ ui.detail = ui.selected
                        /\ \A i \in DOMAIN ui.events : ui.events[i].run = ui.selected[1]
=============================================================================
