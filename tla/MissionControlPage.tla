------------------------- MODULE MissionControlPage -------------------------
(***************************************************************************)
(* Mission control: intelligence, profit and snapshot history polled       *)
(* together for the selected range and profit mode, a cursor over the      *)
(* snapshots, a detail drawer and accordion sections kept in local         *)
(* storage.  The API captures a snapshot per interval; a range shows the   *)
(* last few.  The reads of one fetch are answered together.                *)
(***************************************************************************)
EXTENDS StablePolling, FiniteSetsExt

CONSTANTS
  Windows,        \* ranges: how many of the last snapshots each one shows
  ExpectedGap,    \* ranges: the longest time between two snapshots drawn as a line
  CapturedAt,     \* when the n-th snapshot was captured
  Modes,          \* profit modes
  Dates,          \* dates the operator may jump to
  Sections        \* accordion sections that toggle

FirstRange == CHOOSE r \in DOMAIN Windows : \A s \in DOMAIN Windows : Windows[r] <= Windows[s]

FreshPage(open) ==
  [range |-> FirstRange, mode |-> CHOOSE m \in Modes : TRUE, tab |-> "overall", hidden |-> FALSE,
   poll |-> Run(IdlePoll, TRUE), cursor |-> 1, last |-> Null, drawer |-> Null,
   open |-> open, stored |-> open, clicks |-> 0]

Query(view) == [range |-> view.range, mode |-> view.mode]

MissionInit ==
  /\ ui = FreshPage({})
  /\ net = Issue(<<>>, "fetch", Query(ui))
  /\ db = [captured |-> 1, failures |-> 0]
  /\ wire \in Wires

Stay == UNCHANGED <<net, db, wire>>

----------------------------------------------------------------------------
(* What the page derives from the polled data. *)

\* The snapshots in order of capture.
HistoryPoints(data) == IF data = Null THEN <<>> ELSE data[1].points
Points == HistoryPoints(ui.poll.data)

SelectedHistoryPoint == IF ui.cursor \in DOMAIN Points THEN <<Points[ui.cursor]>> ELSE Null

\* The chart draws no line over a gap: the places after which one is missing.
Gaps(points, range) ==
  {i \in 1..(Len(points) - 1) :
     CapturedAt[points[i + 1]] - CapturedAt[points[i]] > ExpectedGap[range]}

\* The equity card of the hero: the polled value under the selected query.
EquityCard ==
  [label |-> Query(ui), value |-> IF ui.poll.data = Null THEN Null ELSE <<ui.poll.data[1].query>>]

ExchangeCard ==
  IF ui.poll.data # Null /\ ui.poll.data[1].exchange THEN "connected" ELSE "disconnected"

\* The profit tab shows nothing before the first profit.
TabContent == IF ui.poll.data = Null THEN "none" ELSE ui.tab

----------------------------------------------------------------------------
(* Handlers and effects. *)

\* A new fetcher runs at once, unless a fetch is in flight.
Requery(view) ==
  /\ ui' = [view EXCEPT !.poll = Run(@, TRUE)]
  /\ net' = RunIssues(net, ui.poll, TRUE, "fetch", Query(view))
  /\ UNCHANGED <<db, wire>>

SelectRange(range) ==
  /\ CanClick /\ TabContent # "none" /\ range # ui.range
  /\ Requery([Clicked EXCEPT !.range = range])

SelectMode(mode) ==
  /\ CanClick /\ TabContent = "profit" /\ mode # ui.mode
  /\ Requery([Clicked EXCEPT !.mode = mode])

SelectTab(tab) ==
  /\ CanClick /\ TabContent # "none" /\ tab # ui.tab
  /\ ui' = [Clicked EXCEPT !.tab = tab]
  /\ Stay

PollTick ==
  /\ ~ui.hidden /\ RunStarts(ui.poll, TRUE)
  /\ Requery(ui)

ToggleHidden ==
  /\ CanClick
  /\ ui' = [Clicked EXCEPT !.hidden = ~@]
  /\ Stay

\* Selecting a snapshot moves the cursor and opens its detail.
SelectSnapshot(i) ==
  /\ CanClick /\ TabContent = "overall" /\ i \in DOMAIN Points
  /\ ui' = [Clicked EXCEPT !.cursor = i, !.last = <<Points[i]>>,
                           !.drawer = <<[source |-> "snapshot", id |-> Points[i]]>>]
  /\ Stay

PreviousSnapshot == ui.cursor > 1 /\ SelectSnapshot(ui.cursor - 1)
NextSnapshot == ui.cursor < Len(Points) /\ SelectSnapshot(ui.cursor + 1)
LatestSnapshot == SelectSnapshot(Len(Points))

\* The first of the snapshots nearest to the date.
Distance(point, date) ==
  IF CapturedAt[point] > date THEN CapturedAt[point] - date ELSE date - CapturedAt[point]

Nearest(points, date) ==
  Min({i \in DOMAIN points :
         \A j \in DOMAIN points : Distance(points[i], date) <= Distance(points[j], date)})

JumpToDate(date) ==
  /\ Points # <<>>
  /\ SelectSnapshot(Nearest(Points, date))

\* The detail takes its equity by the mode of the polled profit.
SelectProfitPoint(i) ==
  /\ CanClick /\ TabContent = "profit" /\ i \in DOMAIN Points
  /\ ui' = [Clicked EXCEPT !.drawer = <<[source |-> "profit", id |-> Points[i],
                                         mode |-> ui.poll.data[1].query.mode]>>]
  /\ Stay

CloseDrawer ==
  /\ ui.drawer # Null
  /\ ui' = [ui EXCEPT !.drawer = Null]
  /\ Stay

\* Every change of the sections is stored.
ToggleAccordion(section) ==
  /\ CanClick /\ TabContent # "none"
  /\ LET open == IF section \in ui.open THEN ui.open \ {section} ELSE ui.open \cup {section} IN
     ui' = [Clicked EXCEPT !.open = open, !.stored = open]
  /\ Stay

\* A new mount reads the stored sections and polls afresh.
Reload ==
  /\ CanClick
  /\ ui' = [FreshPage(ui.stored) EXCEPT !.clicks = Clicked.clicks, !.hidden = ui.hidden]
  /\ net' = Issue(Abandon(net, {"fetch"}), "fetch", Query(ui'))
  /\ UNCHANGED <<db, wire>>

----------------------------------------------------------------------------
(* Answers and the API. *)

\* After an answer the cursor follows the snapshot selected last, if it is
\* still shown, and goes to the latest one otherwise.
Followed(view) ==
  LET points == HistoryPoints(view.poll.data)
      places == {i \in 1..Len(points) : <<points[i]>> = view.last}
  IN  IF points = <<>> THEN [view EXCEPT !.cursor = 1]
      ELSE IF places # {} THEN [view EXCEPT !.cursor = Min(places)]
      ELSE [view EXCEPT !.cursor = Len(points), !.last = <<points[Len(points)]>>]

DeliverFetch ==
  /\ \E i \in Deliverable :
       /\ ui' = LET next == [ui EXCEPT !.poll = FinishRun(@, net[i])] IN
                IF net[i].ok THEN Followed(next) ELSE next
       /\ net' = Handled(i)
  /\ UNCHANGED <<db, wire>>

\* The last snapshots of the range.
History(range) ==
  LET first == Max({0, db.captured - Windows[range]}) IN
  [i \in 1..(db.captured - first) |-> first + i]

Payload(query, exchange) ==
  [query |-> query, points |-> History(query.range), exchange |-> exchange]

\* The exchange and preview cards' own requests may fail without the fetch.
Serve ==
  /\ \E i \in Servable : \E exchange \in BOOLEAN :
       /\ net' = Served(i, Payload(net[i].arg, exchange))
       /\ ~exchange => db.failures < MaxFailures
       /\ db' = IF exchange THEN db ELSE [db EXCEPT !.failures = @ + 1]
  /\ UNCHANGED <<ui, wire>>

CaptureSnapshot ==
  /\ db.captured < Len(CapturedAt)
  /\ db' = [db EXCEPT !.captured = @ + 1]
  /\ UNCHANGED <<ui, net, wire>>

MissionNext ==
  \/ \E range \in DOMAIN Windows : SelectRange(range)
  \/ \E mode \in Modes : SelectMode(mode)
  \/ \E tab \in {"overall", "profit"} : SelectTab(tab)
  \/ \E i \in DOMAIN Points : SelectSnapshot(i) \/ SelectProfitPoint(i)
  \/ \E date \in Dates : JumpToDate(date)
  \/ \E section \in Sections : ToggleAccordion(section)
  \/ PreviousSnapshot \/ NextSnapshot \/ LatestSnapshot \/ CloseDrawer \/ Reload
  \/ PollTick \/ ToggleHidden \/ DeliverFetch \/ Serve \/ RequestFails \/ CaptureSnapshot

----------------------------------------------------------------------------
(* Properties. *)

\* The snapshot the cursor stands on is the one selected last, however the
\* window slid and the range changed meanwhile.
SelectionFollowed == SelectedHistoryPoint # Null => SelectedHistoryPoint = ui.last

\* The equity card of a visible page has a value of the range and mode it is
\* labelled with.
EquityCardCurrent == ui.hidden \/ EquityCard.value = <<EquityCard.label>>
=============================================================================
