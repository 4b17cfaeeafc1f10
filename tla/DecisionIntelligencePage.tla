---------------------- MODULE DecisionIntelligencePage ----------------------
(***************************************************************************)
(* The decision intelligence page: lists of decisions read page by page    *)
(* under common filters, and the details of one selected decision.  Its    *)
(* loaders are not guarded: every change of what a loader captured runs it *)
(* again through the effects that depend on it, twice as a rule, and each  *)
(* answer is taken whenever it comes.  The API's data does not change.     *)
(***************************************************************************)
EXTENDS PageRequests, FiniteSetsExt

CONSTANTS
  Lists,      \* the lists, in order, the timeline first
  Details,    \* the views of the selected decision
  Matching,   \* filters: the decisions each one matches, in order
  PageSize

Timeline == Lists[1]
Views == ToSet(Lists) \cup ToSet(Details)

PageCount(total) == Max({1, (total + PageSize - 1) \div PageSize})

\* A page of a list: beyond the last one it is empty.
PageOf(filter, page) ==
  [filter |-> filter, page |-> page, total |-> Len(Matching[filter]),
   items |-> SubSeq(Matching[filter], (page - 1) * PageSize + 1,
                    Min({page * PageSize, Len(Matching[filter])}))]

----------------------------------------------------------------------------
(* Loaders: what they capture, and which of them an effect runs. *)

Captured(view, list) ==
  [filter |-> view.filter, page |-> view.page[list], none |-> view.selected = Null]

ListRequest(view, list) ==
  FixedRequest(list, Captured(view, list), PageOf(view.filter, view.page[list]))

DetailRequest(view, detail) == FixedRequest(detail, view.selected, view.selected[1])

RunLists(view, lists) == [i \in DOMAIN lists |-> ListRequest(view, lists[i])]
RunDetails(view) ==
  IF view.selected = Null THEN <<>>
  ELSE [i \in DOMAIN Details |-> DetailRequest(view, Details[i])]

Loading(view, views) ==
  [view EXCEPT !.loading = [v \in Views |-> @[v] \/ v \in views],
               !.error = [v \in Views |-> @[v] /\ v \notin views]]

\* A new filter changes every loader: all of them run, and each on its own.
AfterFilter(view) == Loading(view, ToSet(Lists))
FilterRuns(view) == RunLists(view, Lists \o Lists)

\* New pages run all of them and those with a new page on their own.
PageRuns(view, lists) == RunLists(view, Lists \o lists)

\* A new selection changes the timeline's loader too: its details load, then
\* all lists, then the timeline on its own.
AfterSelection(view) == Loading(view, Views)
SelectionRuns(view) == PageRuns(view, <<Timeline>>) \o RunDetails(view)

\* The empty filter matches most.
DecisionsInit ==
  LET first == CHOOSE f \in DOMAIN Matching :
                 \A g \in DOMAIN Matching : Len(Matching[g]) <= Len(Matching[f])
      view == [filter |-> first, page |-> [l \in ToSet(Lists) |-> 1],
               data |-> [v \in Views |-> Null], selected |-> Null,
               loading |-> [v \in Views |-> FALSE], error |-> [v \in Views |-> FALSE], clicks |-> 0]
  IN  /\ ui = AfterFilter(view)
      /\ net = FilterRuns(view)
      /\ db = [failures |-> 0]
      /\ wire \in Wires

----------------------------------------------------------------------------
(* What the sections show. *)

Rows(list) == IF ui.data[list] = Null THEN <<>> ELSE ui.data[list][1].items
TableOf(list) == Listed(ui.loading[list], ui.error[list], Rows(list))
DetailOf(detail) == IF ui.loading[detail] THEN Null ELSE ui.data[detail]

MaxPage(list) == IF ui.data[list] = Null THEN 1 ELSE PageCount(ui.data[list][1].total)

----------------------------------------------------------------------------
(* Handlers. *)

Asks(view, runs) ==
  /\ ui' = view
  /\ net' = net \o runs
  /\ UNCHANGED <<db, wire>>

\* Typing a filter loads at once, and keeps the pages.
TypeFilter(filter) ==
  /\ CanClick /\ filter # ui.filter
  /\ LET view == [Clicked EXCEPT !.filter = filter] IN Asks(AfterFilter(view), FilterRuns(view))

\* The first pages: loaded by the handler, and by the effects of pages that moved.
ApplyFilters ==
  /\ CanClick /\ \A v \in Views : ~ui.loading[v]
  /\ LET view == [Clicked EXCEPT !.page = [l \in ToSet(Lists) |-> 1]]
         moved == Kept(Lists, {i \in DOMAIN Lists : ui.page[Lists[i]] # 1})
     IN  Asks(AfterFilter(view),
              RunLists(view, Lists) \o (IF moved = <<>> THEN <<>> ELSE PageRuns(view, moved)))

TurnPage(list, page) ==
  /\ CanClick /\ ~ui.loading[list]
  /\ \/ page = ui.page[list] - 1 /\ page >= 1
     \/ ui.page[list] < MaxPage(list) /\ page = ui.page[list] + 1
  /\ LET view == [Clicked EXCEPT !.page[list] = page] IN
     Asks(AfterFilter(view), PageRuns(view, <<list>>))

Select(view, decision) == [view EXCEPT !.selected = <<decision>>]

SelectDecision(decision) ==
  /\ CanClick /\ decision \in ToSet(Rows(Timeline))
  /\ LET view == Select(Clicked, decision) IN
     IF ui.selected = <<decision>> THEN Asks(view, <<>>)
     ELSE Asks(AfterSelection(view), SelectionRuns(view))

----------------------------------------------------------------------------
(* Answers: a failure empties the view. *)

Loaded(r) ==
  [ui EXCEPT !.data[r.op] = IF r.ok THEN r.val ELSE Null,
             !.error[r.op] = ~r.ok, !.loading[r.op] = FALSE]

\* A timeline load issued before there was a selection selects its first row.
DeliverTimeline(r, rest) ==
  /\ r.op = Timeline
  /\ LET first == IF r.ok /\ r.arg.none /\ r.val[1].items # <<>> THEN <<r.val[1].items[1]>>
                  ELSE ui.selected
         view == [Loaded(r) EXCEPT !.selected = first]
     IN  IF first = ui.selected THEN ui' = view /\ net' = rest
         ELSE ui' = AfterSelection(view) /\ net' = rest \o SelectionRuns(view)

DeliverView(r, rest) ==
  /\ r.op # Timeline
  /\ ui' = Loaded(r)
  /\ net' = rest

Deliver ==
  /\ \E i \in Deliverable : DeliverTimeline(net[i], Handled(i)) \/ DeliverView(net[i], Handled(i))
  /\ UNCHANGED <<db, wire>>

DecisionsNext ==
  \/ \E filter \in DOMAIN Matching : TypeFilter(filter)
  \/ \E list \in ToSet(Lists) : \E page \in 1..MaxPage(list) : TurnPage(list, page)
  \/ \E decision \in ToSet(Rows(Timeline)) : SelectDecision(decision)
  \/ ApplyFilters \/ Deliver \/ RequestFails

----------------------------------------------------------------------------
(* Properties. *)

\* On an ordered wire, once every answer has come, nothing is left loading, each
\* list that did not fail shows the page and the filter of the controls, and the
\* details are those of the selected decision: the repeated loads end with the
\* right one.
ViewsMatchControls ==
  wire = "ordered" /\ net = <<>> =>
    /\ \A v \in Views : ~ui.loading[v]
    /\ \A l \in ToSet(Lists) :
         ui.data[l] # Null => /\ ui.data[l][1].filter = ui.filter
                              /\ ui.data[l][1].page = ui.page[l]
    /\ \A d \in ToSet(Details) : DetailOf(d) # Null => DetailOf(d) = ui.selected
=============================================================================
