------------------------ MODULE DecisionRecordsPages ------------------------
(***************************************************************************)
(* The three screens that read decision records: the explorer, which loads *)
(* a page and a summary together whenever its filters change; the          *)
(* inspector it links to; and the dashboard's record browser, which loads  *)
(* on demand and can ask for a batch review by the coach.                  *)
(***************************************************************************)
EXTENDS PageRequests

CONSTANTS
  Actions,       \* actions a decision may have taken
  TypedSizes,    \* page sizes the operator types (0 is no number)
  DefaultSize, LargestSize,
  Evidence,      \* per action: what the inspector's sections have to show
  MaxDecisions   \* bound on the decisions recorded

All == "all"
Sorts == {"newest", "oldest"}
Blank == ""
LearnPage == 20

RowsPerPage(typed) ==
  IF typed <= 0 THEN DefaultSize ELSE IF typed > LargestSize THEN LargestSize ELSE typed

NewScreen(name, n, clicks) ==
  [screen |-> name, filter |-> [action |-> All, sort |-> "newest", size |-> DefaultSize],
   records |-> Null, summary |-> Null, page |-> 1, loading |-> FALSE, error |-> FALSE,
   loads |-> 0, halves |-> {},
   decision |-> n, data |-> Null, clicks |-> clicks,
   coach |-> [loading |-> FALSE, error |-> FALSE, result |-> Null],
   learn |-> [loading |-> FALSE, error |-> FALSE, items |-> <<>>]]

\* Mutant: a load that captured the filters before the edit.
QueryStale(view, page) ==
  [load |-> view.loads + 1, filter |-> ui.filter, page |-> page,
   size |-> RowsPerPage(ui.filter.size)]

\* The query a load captures.
Query(view, page) ==
  [load |-> view.loads + 1, filter |-> view.filter, page |-> page,
   size |-> RowsPerPage(view.filter.size)]

\* The explorer's loadData and the browser's loadRecords.
Starting(view) == [view EXCEPT !.loading = TRUE, !.error = FALSE, !.loads = @ + 1]

LoadRequests(requests, view, page) ==
  LET records == Issue(requests, "records", Query(view, page)) IN
  IF view.screen = "explorer" THEN Issue(records, "summary", Query(view, page)) ELSE records

MaxPage ==
  IF ui.records = Null \/ ui.records[1].total = 0 THEN 1
  ELSE ((ui.records[1].total - 1) \div ui.records[1].size) + 1

----------------------------------------------------------------------------
(* The API: decisions are numbered as they were recorded. *)

MatchingIds(filter) ==
  LET ids == SelectSeq([n \in DOMAIN db.decisions |-> n],
                       LAMBDA n : filter.action \in {All, db.decisions[n]})
  IN  IF filter.sort = "newest" THEN Reverse(ids) ELSE ids

FirstN(s, n) == SubSeq(s, 1, IF n < Len(s) THEN n ELSE Len(s))

Records(q) ==
  LET ids == MatchingIds(q.filter)
      upTo(page) == FirstN(ids, page * q.size)
  IN
  [items |-> SubSeq(upTo(q.page), ((q.page - 1) * q.size) + 1, Len(upTo(q.page))),
   total |-> Len(ids), size |-> q.size, of |-> q.filter, page |-> q.page]

Summary(q) == [total |-> Len(MatchingIds(q.filter)), of |-> q.filter]

\* Mutant: a review that does not look for an earlier one.
ReviewedAlways == IF db.decisions = <<>> THEN "none" ELSE "inserted"

\* A batch review: a recommendation for this set of decisions, unless there is one.
Reviewed == IF db.decisions = <<>> THEN "none"
            ELSE IF Len(db.decisions) \in ToSet(db.learned) THEN "skipped" ELSE "inserted"

Payload(r) ==
  CASE r.op = "records" -> Records(r.arg)
    [] r.op = "summary" -> Summary(r.arg)
    [] r.op = "inspect" -> [id |-> r.arg, evidence |-> Evidence[db.decisions[r.arg]]]
    [] r.op = "coach" -> [scanned |-> Len(db.decisions), outcome |-> Reviewed]
    [] r.op = "learn" -> FirstN(db.learned, LearnPage)

Serve ==
  /\ \E i \in Servable :
       /\ net' = Served(i, Payload(net[i]))
       /\ db' = IF net[i].op = "coach" /\ Reviewed = "inserted"
                THEN [db EXCEPT !.learned = <<Len(db.decisions)>> \o @] ELSE db
  /\ UNCHANGED <<ui, wire>>

RecordDecision ==
  /\ Len(db.decisions) < MaxDecisions
  /\ \E action \in Actions : db' = [db EXCEPT !.decisions = Append(@, action)]
  /\ UNCHANGED <<ui, net, wire>>

----------------------------------------------------------------------------
(* Handlers and effects. *)

\* The explorer loads as it mounts, the inspector loads its decision, the
\* browser waits for a click.
Mounted(name, n, clicks) ==
  LET fresh == NewScreen(name, n, clicks) IN IF name = "browser" THEN fresh ELSE Starting(fresh)

MountRequests(name, n) ==
  CASE name = "explorer" -> LoadRequests(<<>>, NewScreen(name, n, 0), 1)
    [] name = "inspector" -> Issue(<<>>, "inspect", n)
    [] name = "browser" -> <<>>

RecordsInit ==
  /\ \E name \in {"explorer", "browser"} :
       ui = Mounted(name, 0, 0) /\ net = MountRequests(name, 0)
  /\ \E action \in Actions : db = [decisions |-> <<action>>, learned |-> <<>>, failures |-> 0]
  /\ wire \in Wires

\* A link to another screen: the old one unmounts, its answers are dropped.
GoTo(name, n) ==
  /\ CanClick
  /\ ui' = Mounted(name, n, ui.clicks + 1)
  /\ net' = MountRequests(name, n)
  /\ UNCHANGED <<db, wire>>

OpenInspector(k) == ui.screen = "explorer" /\ ui.records # Null
                    /\ k \in DOMAIN ui.records[1].items /\ GoTo("inspector", ui.records[1].items[k])
BackToExplorer == ui.screen = "inspector" /\ GoTo("explorer", 0)

\* A changed filter makes a new loadData, which the explorer's effect calls for
\* page 1; the browser keeps what it shows.
Edit(filter) ==
  /\ CanClick /\ ui.screen \in {"explorer", "browser"} /\ filter # ui.filter
  /\ LET edited == [Clicked EXCEPT !.filter = filter] IN
     IF ui.screen = "explorer"
     THEN ui' = Starting(edited) /\ net' = LoadRequests(net, edited, 1)
     ELSE ui' = edited /\ net' = net
  /\ UNCHANGED <<db, wire>>

TypeAction(action) == Edit([ui.filter EXCEPT !.action = action])
ChooseSort(sort) == ui.screen = "explorer" /\ Edit([ui.filter EXCEPT !.sort = sort])
TypeSize(size) == Edit([ui.filter EXCEPT !.size = size])

\* Apply or load, Previous and Next: with the filters of the moment.
LoadPage(page) ==
  /\ CanClick /\ ui.screen \in {"explorer", "browser"} /\ ~ui.loading
  /\ ui' = Starting(Clicked) /\ net' = LoadRequests(net, ui, page)
  /\ UNCHANGED <<db, wire>>

ApplyFilters == LoadPage(1)
CanTurn == ui.screen = "explorer" \/ ui.records # Null
PreviousPage == CanTurn /\ ui.page > 1 /\ LoadPage(ui.page - 1)
NextPage == CanTurn /\ ui.page < MaxPage /\ LoadPage(ui.page + 1)

RunCoachReview ==
  /\ CanClick /\ ui.screen = "browser" /\ ~ui.coach.loading
  /\ ui' = [Clicked EXCEPT !.coach = [loading |-> TRUE, error |-> FALSE, result |-> Null]]
  /\ net' = Issue(net, "coach", 0)
  /\ UNCHANGED <<db, wire>>

\* loadCoachRecommendations, called by its button or at the end of a review.
LearnRequests(requests, caller) == Issue(requests, "learn", caller)
Learning(view) == [view EXCEPT !.learn.loading = TRUE, !.learn.error = FALSE]

LoadLearnQueue ==
  /\ CanClick /\ ui.screen = "browser" /\ ~ui.learn.loading
  /\ ui' = Learning(Clicked) /\ net' = LearnRequests(net, "button")
  /\ UNCHANGED <<db, wire>>

----------------------------------------------------------------------------
(* Answers. *)

\* Promise.all: the page and the summary of a load are taken together, the
\* first failure ends the load and the other half is dropped.
DeliverHalf(i) ==
  /\ ui.screen = "explorer" /\ net[i].op \in {"records", "summary"}
  /\ LET r == net[i]
         other == {h \in ui.halves : h.load = r.arg.load}
         value(op) == IF r.op = op THEN r.val ELSE (CHOOSE h \in other : TRUE).val
     IN  IF ~r.ok
         THEN /\ ui' = [ui EXCEPT !.error = TRUE, !.loading = FALSE, !.records = Null,
                                  !.summary = Null, !.halves = @ \ other]
              /\ net' = Kept(Handled(i), {j \in DOMAIN Handled(i) : Handled(i)[j].arg.load # r.arg.load})
         ELSE /\ net' = Handled(i)
              /\ ui' = IF other = {}
                       THEN [ui EXCEPT !.halves = @ \cup {[load |-> r.arg.load, val |-> r.val]}]
                       ELSE [ui EXCEPT !.records = value("records"), !.summary = value("summary"),
                                       !.page = r.arg.page, !.loading = FALSE, !.halves = @ \ other]
  /\ UNCHANGED <<db, wire>>

\* The browser keeps its rows when a load fails.
DeliverRecords(i) ==
  /\ ui.screen = "browser" /\ net[i].op = "records"
  /\ LET r == net[i] IN
     ui' = IF r.ok THEN [ui EXCEPT !.records = r.val, !.page = r.arg.page, !.loading = FALSE]
           ELSE [ui EXCEPT !.error = TRUE, !.loading = FALSE]
  /\ net' = Handled(i)
  /\ UNCHANGED <<db, wire>>

DeliverInspection(i) ==
  /\ net[i].op = "inspect"
  /\ ui' = [ui EXCEPT !.data = net[i].val, !.error = ~net[i].ok, !.loading = FALSE]
  /\ net' = Handled(i)
  /\ UNCHANGED <<db, wire>>

\* A review that succeeded awaits the queue before its button is free again.
DeliverCoach(i) ==
  /\ net[i].op = "coach"
  /\ IF net[i].ok
     THEN /\ ui' = Learning([ui EXCEPT !.coach.result = net[i].val])
          /\ net' = LearnRequests(Handled(i), "coach")
     ELSE /\ ui' = [ui EXCEPT !.coach.error = TRUE, !.coach.loading = FALSE]
          /\ net' = Handled(i)
  /\ UNCHANGED <<db, wire>>

DeliverLearn(i) ==
  /\ net[i].op = "learn"
  /\ LET r == net[i] IN
     ui' = [ui EXCEPT !.learn = [loading |-> FALSE, error |-> ~r.ok,
                                 items |-> IF r.ok THEN r.val[1] ELSE @.items],
                      !.coach.loading = @ /\ r.arg # "coach"]
  /\ net' = Handled(i)
  /\ UNCHANGED <<db, wire>>

Deliver == \E i \in Deliverable :
  DeliverHalf(i) \/ DeliverRecords(i) \/ DeliverInspection(i) \/ DeliverCoach(i) \/ DeliverLearn(i)

----------------------------------------------------------------------------
(* What is shown. *)

Rows == IF ui.records = Null \/ ui.records[1].items = <<>> THEN "none" ELSE ui.records[1].items
SummaryTotal == IF ui.summary = Null THEN 0 ELSE ui.summary[1].total
LearnQueue == IF ui.learn.items = <<>> THEN "none loaded" ELSE ui.learn.items

\* The inspector: each section has rows or says that it has none; blank gaps
\* are left out, and the two warning boxes appear only when they have lines.
Gaps(evidence) == SelectSeq(evidence.gaps, LAMBDA g : g # Blank)
InspectorView ==
  IF ui.data = Null THEN [id |-> 0]
  ELSE LET e == ui.data[1].evidence IN
       [id |-> ui.data[1].id, warnings |-> e.warnings # <<>>, gaps |-> Gaps(e) # <<>>,
        sections |-> [s \in {"checks", "audit", "outcomes"} |-> Listed(FALSE, FALSE, e[s])]]

RecordsNext ==
  \/ \E k \in 1..MaxDecisions : OpenInspector(k)
  \/ BackToExplorer
  \/ \E action \in Actions : TypeAction(action)
  \/ \E sort \in Sorts : ChooseSort(sort)
  \/ \E size \in TypedSizes : TypeSize(size)
  \/ ApplyFilters \/ PreviousPage \/ NextPage \/ RunCoachReview \/ LoadLearnQueue
  \/ Deliver \/ Serve \/ RecordDecision \/ RequestFails

----------------------------------------------------------------------------
(* Properties. *)

Quiet == net = <<>> /\ wire = "ordered"

\* The explorer's filters act at once, while earlier loads may still be on their
\* way: with answers in order, once nothing is in flight the rows, the page
\* number and the summary all belong to the filters shown.
ExplorerShowsItsFilters ==
  (ui.screen = "explorer" /\ Quiet /\ ~ui.error) =>
    /\ ui.records # Null /\ ui.records[1].of = ui.filter /\ ui.page = ui.records[1].page
    /\ ui.summary # Null /\ ui.summary[1].of = ui.filter /\ ui.halves = {}

\* The inspector shows the decision it was opened for, whatever was inspected before.
InspectorShowsItsDecision ==
  ui.screen = "inspector" /\ ui.data # Null => InspectorView.id = ui.decision

\* Each screen shows what it was asked for.
ScreensShowTheirRecords == ExplorerShowsItsFilters /\ InspectorShowsItsDecision

\* However often the operator repeats a review whose answer was lost, the API
\* holds one recommendation per set of decisions.
ReviewedOnce == \A j, k \in DOMAIN db.learned : db.learned[j] = db.learned[k] => j = k

=============================================================================
