---------------------------- MODULE PageRequests ----------------------------
(***************************************************************************)
(* What the pages of the web front end have in common: the state of the    *)
(* mounted page, the requests it has in flight (oldest first) and what the *)
(* API holds.  A request is issued by a handler or an effect with the      *)
(* values its closure captured, served by the API at some later point, and *)
(* answered (resolved or rejected) at a still later one.                   *)
(*                                                                         *)
(* On an "ordered" wire requests are served and answered in the order they *)
(* were issued, as on one connection to one worker; on an "unordered" wire *)
(* they overtake each other, as parallel fetches do.                       *)
(***************************************************************************)
EXTENDS Naturals, Sequences, SequencesExt, FiniteSets

CONSTANTS
  MaxClicks,     \* bound on the operator's actions
  MaxFailures    \* bound on the requests that fail

VARIABLES
  ui,    \* the React state of the page, and the operator's clicks so far
  net,   \* requests in flight
  db,    \* the API's data, and the failures so far
  wire   \* how requests are ordered

vars == <<ui, net, db, wire>>

Wires == {"ordered", "unordered"}

\* A value that may be absent (null in the source): <<>> or <<v>>.
Null == <<>>

\* What a list section of a page shows.
Listed(loading, error, rows) ==
  IF loading THEN "loading" ELSE IF error THEN "error" ELSE IF rows = <<>> THEN "empty" ELSE "rows"

CanClick == ui.clicks < MaxClicks
Clicked == [ui EXCEPT !.clicks = @ + 1]

\* The entries of s at some of its places, in their order.  This is SelectSeq with
\* its test given as the places that pass it, written without recursion.
Before(places, i) == Cardinality({j \in places : j <= i})
Kept(s, places) == [k \in 1..Cardinality(places) |-> s[CHOOSE i \in places : Before(places, i) = k]]

\* A request before the API has seen it.  val holds the answer's payload.
NewRequest(op, arg) ==
  [op |-> op, arg |-> arg, back |-> FALSE, ok |-> FALSE, val |-> Null]

Issue(requests, op, arg) == Append(requests, NewRequest(op, arg))

\* A request whose answer does not depend on when it is served.
FixedRequest(op, arg, payload) ==
  [op |-> op, arg |-> arg, back |-> TRUE, ok |-> TRUE, val |-> <<payload>>]

IssueFixed(requests, op, arg, payload) == Append(requests, FixedRequest(op, arg, payload))

\* The requests the API may serve next.
Servable ==
  {i \in DOMAIN net : ~net[i].back /\ (wire = "ordered" => \A j \in 1..(i - 1) : net[j].back)}

Served(i, payload) == [net EXCEPT ![i].back = TRUE, ![i].ok = TRUE, ![i].val = <<payload>>]
Refused(i) == [net EXCEPT ![i].back = TRUE, ![i].ok = FALSE, ![i].val = Null]

\* The answers the browser may hand to their handler next.
Deliverable == {i \in DOMAIN net : net[i].back /\ (wire = "ordered" => i = 1)}

Handled(i) == RemoveAt(net, i)

\* Requests whose answers no handler looks at any more: the cleanup of their
\* effect cleared the flag every branch of the handler tests first.
Abandon(requests, ops) ==
  Kept(requests, {i \in DOMAIN requests : requests[i].op \notin ops})

Pending(op) == \E i \in DOMAIN net : net[i].op = op

\* A request fails: the API never carries it out, or its answer is lost after.
RequestFails ==
  /\ db.failures < MaxFailures
  /\ \E i \in DOMAIN net :
       /\ i \in Servable \/ (i \in Deliverable /\ net[i].ok)
       /\ net' = Refused(i)
  /\ db' = [db EXCEPT !.failures = @ + 1]
  /\ UNCHANGED <<ui, wire>>
=============================================================================
