--------------------------- MODULE ListPageProofs ---------------------------
(***************************************************************************)
(* Proofs about the pages that show lists and charts: the live orders, the *)
(* decision intelligence page, the decision explorer, the markets and the  *)
(* paper-trading page, each on its own, whatever its bounds.               *)
(* OperatorConsoleProofs puts them on the page that is mounted.            *)
(***************************************************************************)
EXTENDS RequestProofs, Integers, FiniteSets, FiniteSetTheorems

CONSTANTS
  LiveClicks, LiveFailures, ProfileOf, ReadinessOf, Tokens,
  DecisionsClicks, DecisionsFailures, Lists, Details, Matching, PageSize,
  RecordsClicks, RecordsFailures, Actions, TypedSizes, DefaultSize, LargestSize, Evidence, MaxDecisions,
  MarketsClicks, MarketsFailures, Assets, Intervals, CandlesOf, Periods,
  PaperClicks, PaperFailures, PaperAssets, Balances, NewAccount, TradeSize, TradeFee, MaxTrades

VARIABLES ui, net, db, wire

Live == INSTANCE LiveOrderPage
  WITH MaxClicks <- LiveClicks, MaxFailures <- LiveFailures
Decisions == INSTANCE DecisionIntelligencePage
  WITH MaxClicks <- DecisionsClicks, MaxFailures <- DecisionsFailures
Records == INSTANCE DecisionRecordsPages
  WITH MaxClicks <- RecordsClicks, MaxFailures <- RecordsFailures

----------------------------------------------------------------------------
(* Filtered sequences. *)

\* The page counts as this module does.
LEMMA SameCount == \A S : Live!Cardinality(S) = Cardinality(S)
BY DEF Live!Cardinality, Cardinality

\* The page keeps entries as this module does.
LEMMA EntriesKept == \A s, I : Live!Kept(s, I) = Keeping(s, I)
BY DEF Live!Kept, Live!Before, Live!Cardinality, Keeping, Place, Cardinality

\* Every entry that is kept was at one of the places, two of them at two.
LEMMA KeptProperties ==
  ASSUME NEW s, NEW n \in Nat, NEW I \in SUBSET (1..n)
  PROVE  /\ Cardinality(I) \in Nat /\ IsFiniteSet(I)
         /\ DOMAIN Live!Kept(s, I) = 1..Cardinality(I)
         /\ Cardinality(I) = 0 <=> I = {}
         /\ Enumerated(Live!Kept(s, I), s, I)
BY EntriesKept, KeepingProperties

\* What is kept of a sequence is a sequence of entries of it, in places of its own.
LEMMA KeptEntries ==
  ASSUME NEW s, s \in Seq(Range(s)), NEW I \in SUBSET DOMAIN s
  PROVE  LET n == Live!Kept(s, I) IN
         /\ n \in Seq(Range(n))
         /\ n = <<>> => I = {}
         /\ Enumerated(n, s, I)
<1>1. Len(s) \in Nat /\ DOMAIN s = 1..Len(s)
  BY LenProperties
<1>2. I \in SUBSET (1..Len(s))
  BY <1>1
<1> DEFINE m == Live!Kept(s, I)
           c == Cardinality(I)
<1>3. c \in Nat /\ DOMAIN m = 1..c /\ (c = 0 <=> I = {}) /\ Enumerated(m, s, I)
  BY <1>1, <1>2, KeptProperties
<1>4. m = [k \in 1..c |-> m[k]]
  BY <1>3 DEF Live!Kept
<1> HIDE DEF m, c
<1>5. m \in Seq(Range(m))
  <2>1. m \in [1..c -> Range(m)]
    BY <1>3, <1>4 DEF Range
  <2> QED
    BY <1>3, <2>1, SeqDef
<1>6. ASSUME m = <<>> PROVE I = {}
  <2>1. DOMAIN m = {}
    BY <1>6
  <2> QED
    BY <1>3, <2>1
<1> QED
  BY <1>3, <1>5, <1>6 DEF m

----------------------------------------------------------------------------
(* Live orders.  The API lists one order per preview, and the page keeps it *)
(* so: whichever answer comes next, the order it puts into the detail is    *)
(* the only one of its preview in the list.                                 *)

\* A list of orders, at most one for a preview.
Listing(q) ==
  q \in Seq(Range(q)) /\ \A i, j \in DOMAIN q : q[i].preview = q[j].preview => i = j

\* The answers that are due hold an order, or the orders of a profile.
LiveRequest(r) ==
  r.ok => r.val = <<r.val[1]>> /\ (r.op = "load" => Listing(r.val[1].orders))

LiveRequests(q) == InFlight(q) /\ \A i \in DOMAIN q : LiveRequest(q[i])

\* What the page shows: the list, and the detail beside it.
DetailShown(view) ==
  /\ {"orders", "selected"} \subseteq DOMAIN view
  /\ Listing(view.orders)
  /\ view.selected # <<>> =>
       \A i \in DOMAIN view.orders :
         view.orders[i].preview = view.selected[1].preview => view.orders[i] = view.selected[1]

LiveStored(data) ==
  /\ data = [orders |-> data.orders, dry |-> data.dry, exchange |-> data.exchange,
             audit |-> data.audit, failures |-> data.failures]
  /\ Listing(data.orders)

LiveInv == LiveRequests(net) /\ DetailShown(ui) /\ LiveStored(db)

\* Some of the orders of a list are a list.
LEMMA KeptListing ==
  ASSUME NEW s, Listing(s), NEW I \in SUBSET DOMAIN s
  PROVE  LET n == Live!Kept(s, I) IN
         Listing(n) /\ (n = <<>> => I = {}) /\ \A k \in DOMAIN n : \E i \in I : n[k] = s[i]
<1>1. s \in Seq(Range(s))
  BY DEF Listing
<1>2. PICK n : n = Live!Kept(s, I)
  OBVIOUS
<1>3. /\ n \in Seq(Range(n))
      /\ n = <<>> => I = {}
      /\ Enumerated(n, s, I)
  BY <1>1, <1>2, KeptEntries
<1>4. PICK at \in [DOMAIN n -> I] :
           /\ \A k, l \in DOMAIN n : at[k] = at[l] => k = l
           /\ \A k \in DOMAIN n : n[k] = s[at[k]]
  BY <1>3 DEF Enumerated
<1>5. \A k \in DOMAIN n : at[k] \in I /\ n[k] = s[at[k]]
  BY <1>4
<1>6. ASSUME NEW k \in DOMAIN n, NEW l \in DOMAIN n, n[k].preview = n[l].preview
      PROVE  k = l
  <2>1. at[k] = at[l]
    BY <1>5, <1>6 DEF Listing
  <2> QED
    BY <1>4, <2>1
<1> QED
  BY <1>2, <1>3, <1>5, <1>6 DEF Listing

\* A list is one in the other direction.
LEMMA ReversedListing ==
  ASSUME NEW s, Listing(s)
  PROVE  Listing(Live!Reverse(s))
<1>1. Len(s) \in Nat /\ DOMAIN s = 1..Len(s) /\ s \in Seq(Range(s))
  BY LenProperties DEF Listing
<1>2. PICK n : n = Live!Reverse(s)
  OBVIOUS
<1>3. n = [i \in 1..Len(s) |-> s[Len(s) - i + 1]]
  BY <1>2 DEF Live!Reverse
<1>4. n \in Seq(Range(n))
  <2>1. n \in [1..Len(s) -> Range(n)]
    BY <1>3 DEF Range
  <2> QED
    BY <1>1, <2>1, SeqDef
<1>5. ASSUME NEW i \in DOMAIN n, NEW j \in DOMAIN n, n[i].preview = n[j].preview
      PROVE  i = j
  <2>1. i \in 1..Len(s) /\ j \in 1..Len(s)
    BY <1>3
  <2>2. /\ Len(s) - i + 1 \in DOMAIN s /\ Len(s) - j + 1 \in DOMAIN s
        /\ n[i] = s[Len(s) - i + 1] /\ n[j] = s[Len(s) - j + 1]
    BY <1>1, <1>3, <2>1
  <2>3. Len(s) - i + 1 = Len(s) - j + 1
    BY <1>5, <2>2 DEF Listing
  <2> QED
    BY <1>1, <2>1, <2>3
<1> QED
  BY <1>2, <1>4, <1>5 DEF Listing

\* An order takes the place of the order of its preview.
LEMMA ReplacedListing ==
  ASSUME NEW s, Listing(s), NEW order
  PROVE  LET n == Live!Replaced(s, order) IN
         Listing(n) /\ \A i \in DOMAIN n : n[i].preview = order.preview => n[i] = order
<1>1. Len(s) \in Nat /\ DOMAIN s = 1..Len(s) /\ s \in Seq(Range(s))
  BY LenProperties DEF Listing
<1>2. PICK n : n = Live!Replaced(s, order)
  OBVIOUS
<1>3. n = [i \in DOMAIN s |-> IF s[i].preview = order.preview THEN order ELSE s[i]]
  BY <1>2 DEF Live!Replaced
<1>4. n \in Seq(Range(n)) /\ DOMAIN n = DOMAIN s
  <2>1. n \in [1..Len(s) -> Range(n)] /\ DOMAIN n = DOMAIN s
    BY <1>1, <1>3 DEF Range
  <2> QED
    BY <1>1, <2>1, SeqDef
<1>5. \A i \in DOMAIN n : n[i].preview = s[i].preview /\ (n[i].preview = order.preview => n[i] = order)
  BY <1>3
<1>6. \A i, j \in DOMAIN n : n[i].preview = n[j].preview => i = j
  BY <1>4, <1>5 DEF Listing
<1> QED
  BY <1>2, <1>4, <1>5, <1>6 DEF Listing

\* An order goes to the head or the end of a list that has none of its preview.
LEMMA ListedOnce ==
  ASSUME NEW s, Listing(s), NEW order, \A i \in DOMAIN s : s[i].preview # order.preview
  PROVE  /\ Listing(Append(s, order))
         /\ LET n == <<order>> \o s IN
            Listing(n) /\ \A i \in DOMAIN n : n[i].preview = order.preview => n[i] = order
<1> DEFINE S == Range(s) \cup {order}
<1>1. s \in Seq(S) /\ Len(s) \in Nat /\ DOMAIN s = 1..Len(s)
  BY SeqMonotonic, LenProperties DEF Listing
<1>2. PICK h : h = <<order>>
  OBVIOUS
<1>3. h \in Seq(S) /\ Len(h) = 1 /\ h[1] = order
  BY <1>2
<1>4. PICK m : m = h \o s
  OBVIOUS
<1>5. PICK a : a = Append(s, order)
  OBVIOUS
<1>6. /\ a \in Seq(S) /\ DOMAIN a = 1..(Len(s) + 1)
      /\ \A i \in 1..Len(s) : a[i] = s[i]
      /\ a[Len(s) + 1] = order
  BY <1>1, <1>5, AppendProperties
<1> HIDE DEF S
<1>7. /\ m \in Seq(S) /\ Len(m) = 1 + Len(s)
      /\ \A j \in 1..(1 + Len(s)) : m[j] = IF j <= 1 THEN h[j] ELSE s[j - 1]
  <2>1. /\ h \o s \in Seq(S) /\ Len(h \o s) = Len(h) + Len(s)
        /\ \A j \in 1..(Len(h) + Len(s)) : (h \o s)[j] = IF j <= Len(h) THEN h[j] ELSE s[j - Len(h)]
    <3>1. h \in Seq(S) /\ s \in Seq(S)
      BY <1>1, <1>3
    <3> QED
      BY <3>1, ConcatProperties
  <2> QED
    BY <1>3, <1>4, <2>1
<1>8. DOMAIN m = 1..(1 + Len(s)) /\ m \in Seq(Range(m)) /\ a \in Seq(Range(a))
  BY <1>6, <1>7, LenProperties, SeqOfRange
<1>9. m[1] = order /\ \A j \in 2..(1 + Len(s)) : j - 1 \in DOMAIN s /\ m[j] = s[j - 1]
  BY <1>1, <1>3, <1>7
<1>13. \A i \in DOMAIN m : i = 1 \/ (i \in 2..(1 + Len(s)) /\ m[i].preview # order.preview)
  <2>1. \A i \in DOMAIN m : i = 1 \/ i \in 2..(1 + Len(s))
    BY <1>1, <1>8
  <2> QED
    BY <1>9, <2>1
<1>10. ASSUME NEW i \in DOMAIN m, NEW j \in DOMAIN m, m[i].preview = m[j].preview
       PROVE  i = j
  <2>1. CASE i = 1 \/ j = 1
    BY <1>9, <1>10, <1>13, <2>1
  <2>2. CASE i # 1 /\ j # 1
    <3>1. i \in 2..(1 + Len(s)) /\ j \in 2..(1 + Len(s))
      BY <1>1, <1>8, <2>2
    <3>2. i - 1 = j - 1
      BY <1>9, <1>10, <3>1 DEF Listing
    <3> QED
      BY <3>1, <3>2
  <2> QED
    BY <2>1, <2>2
<1>11. ASSUME NEW i \in DOMAIN a, NEW j \in DOMAIN a, a[i].preview = a[j].preview
       PROVE  i = j
  BY <1>1, <1>6, <1>11 DEF Listing
<1>12. ASSUME NEW i \in DOMAIN m, m[i].preview = order.preview
       PROVE  m[i] = order
  BY <1>9, <1>12, <1>13
<1> QED
  BY <1>2, <1>4, <1>5, <1>8, <1>10, <1>11, <1>12 DEF Listing

\* A request that is issued has no answer yet.
LEMMA LiveIssued ==
  ASSUME NEW q, LiveRequests(q), NEW op, NEW arg
  PROVE  LiveRequests(Live!Issue(q, op, arg))
<1> DEFINE r == Live!NewRequest(op, arg)
           n == Append(q, r)
<1>1. IsRequest(r) /\ LiveRequest(r)
  BY DEF IsRequest, LiveRequest, Live!NewRequest
<1> HIDE DEF r
<1>2. InFlight(q) /\ \A i \in DOMAIN q : LiveRequest(q[i])
  BY DEF LiveRequests
<1>3. /\ InFlight(n) /\ Len(q) \in Nat /\ DOMAIN q = 1..Len(q) /\ DOMAIN n = 1..(Len(q) + 1)
      /\ \A j \in 1..Len(q) : n[j] = q[j]
      /\ n[Len(q) + 1] = r
  BY <1>1, <1>2, Issued
<1> HIDE DEF n
<1>4. ASSUME NEW j \in DOMAIN n
      PROVE  LiveRequest(n[j])
  <2>1. CASE j = Len(q) + 1
    BY <1>1, <1>3, <2>1
  <2>2. CASE j \in 1..Len(q)
    BY <1>2, <1>3, <2>2
  <2> QED
    BY <1>3, <2>1, <2>2
<1>5. LiveRequests(n)
  BY <1>3, <1>4 DEF LiveRequests
<1> QED
  BY <1>5 DEF n, r, Live!Issue

\* An answer that is handled is no longer on its way; the rest are what they were.
LEMMA LiveHandled ==
  ASSUME LiveRequests(net), NEW i \in DOMAIN net
  PROVE  LiveRequests(Live!Handled(i))
<1> DEFINE n == Without(net, i)
<1>1. InFlight(net) /\ \A k \in DOMAIN net : LiveRequest(net[k])
  BY DEF LiveRequests
<1>2. /\ InFlight(n) /\ Len(net) \in Nat /\ DOMAIN net = 1..Len(net) /\ DOMAIN n = 1..(Len(net) - 1)
      /\ \A j \in 1..(Len(net) - 1) : n[j] = net[IF j < i THEN j ELSE j + 1]
  BY <1>1, Removed
<1> HIDE DEF n
<1>3. \A j \in DOMAIN n : \E k \in DOMAIN net : n[j] = net[k]
  BY <1>2
<1>4. LiveRequests(n)
  BY <1>1, <1>2, <1>3 DEF LiveRequests
<1> QED
  BY <1>4 DEF n, Without, Live!Handled, Live!RemoveAt

\* A request is refused, or answered with an order or the orders of a profile.
LEMMA LiveAnswered ==
  ASSUME LiveRequests(net), NEW i \in DOMAIN net
  PROVE  /\ LiveRequests(Live!Refused(i))
         /\ \A v : (net[i].op = "load" => Listing(v.orders)) => LiveRequests(Live!Served(i, v))
<1>1. InFlight(net) /\ \A k \in DOMAIN net : LiveRequest(net[k])
  BY DEF LiveRequests
<1>2. ASSUME NEW okay \in BOOLEAN, NEW v,
             okay => v = <<v[1]>> /\ (net[i].op = "load" => Listing(v[1].orders))
      PROVE  LiveRequests(Answer(net, i, okay, v))
  <2> DEFINE n == Answer(net, i, okay, v)
             r == [op |-> net[i].op, arg |-> net[i].arg, back |-> TRUE, ok |-> okay, val |-> v]
  <2>1. /\ InFlight(n) /\ DOMAIN net = 1..Len(net) /\ DOMAIN n = 1..Len(net)
        /\ \A j \in 1..Len(net) : j # i => n[j] = net[j]
        /\ n[i] = r
    BY <1>1, Answered
  <2>2. LiveRequest(r)
    BY <1>2 DEF LiveRequest
  <2> HIDE DEF n, r
  <2>3. LiveRequests(n)
    BY <1>1, <2>1, <2>2 DEF LiveRequests
  <2> QED
    BY <2>3 DEF n
<1>3. LiveRequests(Live!Refused(i))
  <2>1. PICK okay \in BOOLEAN : okay = FALSE
    OBVIOUS
  <2>2. PICK v : v = <<>>
    OBVIOUS
  <2>3. LiveRequests(Answer(net, i, okay, v))
    BY <1>2, <2>1
  <2> QED
    BY <2>1, <2>2, <2>3 DEF Answer, Live!Refused, Live!Null
<1>4. ASSUME NEW v, net[i].op = "load" => Listing(v.orders)
      PROVE  LiveRequests(Live!Served(i, v))
  <2>1. PICK okay \in BOOLEAN : okay = TRUE
    OBVIOUS
  <2>2. PICK w : w = <<v>>
    OBVIOUS
  <2>3. w[1] = v /\ w = <<w[1]>>
    BY <2>2
  <2>4. LiveRequests(Answer(net, i, okay, w))
    BY <1>2, <1>4, <2>3
  <2> QED
    BY <2>1, <2>2, <2>4 DEF Answer, Live!Served
<1> QED
  BY <1>3, <1>4

\* The list and the detail stay.
LEMMA DetailStays ==
  ASSUME DetailShown(ui), DOMAIN ui' = DOMAIN ui, ui'.orders = ui.orders, ui'.selected = ui.selected
  PROVE  DetailShown(ui')
BY DEF DetailShown

\* A handler sets its flag and sends its request.
LEMMA LiveAsks ==
  ASSUME LiveInv, NEW flag \in {"loading", "dryRunning", "reconciling", "cancelling"}, NEW op, NEW arg,
         Live!Ask(flag, op, arg)
  PROVE  LiveInv'
<1>1. LiveRequests(net')
  BY LiveIssued DEF LiveInv, Live!Ask
<1>2. DOMAIN ui' = DOMAIN ui /\ ui'.orders = ui.orders /\ ui'.selected = ui.selected
  BY DEF LiveInv, DetailShown, Live!Ask, Live!Clicked
<1>3. DetailShown(ui')
  BY <1>2, DetailStays DEF LiveInv
<1>4. db' = db
  BY DEF Live!Ask
<1> QED
  BY <1>1, <1>3, <1>4 DEF LiveInv

\* What the operator types stays beside the list; the order selected is in it.
LEMMA LiveTyped ==
  ASSUME LiveInv,
         \/ \E profile \in DOMAIN ReadinessOf : Live!TypeProfile(profile)
         \/ \E v \in Live!Previews : Live!TypePreview(v)
         \/ \E token \in Tokens : Live!TypeToken(token)
         \/ \E c \in Live!Checks : Live!SelectCheck(c)
         \/ Live!TypePhrase
         \/ Live!LoadWorkspace
         \/ \E i : Live!SelectOrder(i)
  PROVE  LiveInv'
<1>1. CASE ui.profile # Live!Blank /\ Live!Ask("loading", "load", ui.profile)
  BY <1>1, LiveAsks
<1>2. CASE \E i : Live!SelectOrder(i)
  <2>1. PICK i \in DOMAIN ui.orders : Live!Type([ui EXCEPT !.selected = <<ui.orders[i]>>])
    BY <1>2 DEF Live!SelectOrder
  <2> DEFINE X == <<ui.orders[i]>>
  <2>2. X[1] = ui.orders[i]
    OBVIOUS
  <2> HIDE DEF X
  <2>3. ui' = [ui EXCEPT !.selected = X] /\ UNCHANGED <<net, db>>
    BY <2>1 DEF Live!Type, X
  <2>4. DOMAIN ui' = DOMAIN ui /\ ui'.orders = ui.orders /\ ui'.selected = X
    BY <2>3 DEF LiveInv, DetailShown
  <2>5. DetailShown(ui')
    BY <2>2, <2>4 DEF LiveInv, DetailShown, Listing
  <2> QED
    BY <2>3, <2>5 DEF LiveInv
<1>3. CASE /\ DOMAIN ui' = DOMAIN ui /\ ui'.orders = ui.orders /\ ui'.selected = ui.selected
           /\ UNCHANGED <<net, db>>
  BY <1>3, DetailStays DEF LiveInv
<1>4. {"orders", "selected"} \subseteq DOMAIN ui
  BY DEF LiveInv, DetailShown
<1>5. CASE Live!LoadWorkspace
  BY <1>1, <1>3, <1>4, <1>5 DEF Live!LoadWorkspace, Live!Type
<1>6. CASE \/ \E profile \in DOMAIN ReadinessOf : Live!TypeProfile(profile)
           \/ \E v \in Live!Previews : Live!TypePreview(v)
           \/ \E token \in Tokens : Live!TypeToken(token)
           \/ \E c \in Live!Checks : Live!SelectCheck(c)
           \/ Live!TypePhrase
  BY <1>3, <1>4, <1>6 DEF Live!TypeProfile, Live!TypePreview, Live!TypeToken, Live!SelectCheck,
    Live!TypePhrase, Live!Type, Live!Clicked
<1> QED
  BY <1>2, <1>5, <1>6

\* Every answer puts into the detail the one order of its preview that it puts
\* into the list; a failure changes neither.
LEMMA LiveDelivered ==
  ASSUME LiveInv, Live!Deliver
  PROVE  LiveInv'
<1>1. PICK i \in DOMAIN net :
        /\ \/ Live!DeliverLoad(net[i]) \/ Live!DeliverDryRun(net[i])
           \/ Live!DeliverReconciled(net[i]) \/ Live!DeliverCancelled(net[i])
        /\ net' = Live!Handled(i)
        /\ UNCHANGED <<db, wire>>
  BY DEF Live!Deliver, Live!Deliverable
<1>2. LiveRequests(net') /\ LiveRequest(net[i])
  BY <1>1, LiveHandled DEF LiveInv, LiveRequests
<1>3. PICK r : r = net[i]
  OBVIOUS
<1>4. LiveRequest(r) /\ {"orders", "selected"} \subseteq DOMAIN ui /\ Listing(ui.orders)
  BY <1>2, <1>3 DEF LiveInv, DetailShown
<1>5. ASSUME NEW flag \in {"loading", "dryRunning", "reconciling", "cancelling"}, ui' = Live!Failed(flag)
      PROVE  DetailShown(ui')
  <2>1. DOMAIN ui' = DOMAIN ui /\ ui'.orders = ui.orders /\ ui'.selected = ui.selected
    BY <1>4, <1>5 DEF Live!Failed
  <2> QED
    BY <2>1, DetailStays DEF LiveInv
<1>6. ASSUME NEW X, NEW O, {"orders", "selected"} \subseteq DOMAIN ui', ui'.orders = O, ui'.selected = X,
             Listing(O), X # <<>> => \A j \in DOMAIN O : O[j].preview = X[1].preview => O[j] = X[1]
      PROVE  DetailShown(ui')
  BY <1>6 DEF DetailShown
<1>7. CASE Live!DeliverLoad(r)
  <2> DEFINE O == r.val[1].orders
             X == IF O = <<>> THEN <<>> ELSE <<O[1]>>
  <2>1. SUFFICES ASSUME r.ok PROVE DetailShown(ui')
    BY <1>2, <1>1, <1>5, <1>7 DEF Live!DeliverLoad, LiveInv
  <2>2. Listing(O) /\ r.op = "load"
    BY <1>4, <1>7, <2>1 DEF LiveRequest, Live!DeliverLoad
  <2>3. X # <<>> => X[1] = O[1] /\ 1 \in DOMAIN O
    <3>1. ASSUME O # <<>>
          PROVE  1 \in DOMAIN O
      BY <2>2, <3>1, EmptySeq, LenProperties DEF Listing
    <3> QED
      BY <3>1
  <2>4. /\ {"orders", "selected"} \subseteq DOMAIN ui'
        /\ ui'.orders = O /\ ui'.selected = X
    BY <1>4, <1>7, <2>1 DEF Live!DeliverLoad, Live!Null
  <2> HIDE DEF O, X
  <2>5. X # <<>> => \A j \in DOMAIN O : O[j].preview = X[1].preview => O[j] = X[1]
    BY <2>2, <2>3 DEF Listing
  <2> QED
    BY <1>6, <2>2, <2>4, <2>5
<1>8. CASE Live!DeliverDryRun(r)
  <2> DEFINE x == r.val[1]
             I == {j \in DOMAIN ui.orders : ui.orders[j].preview # x.preview}
  <2>1. SUFFICES ASSUME r.ok PROVE DetailShown(ui')
    BY <1>2, <1>1, <1>5, <1>8 DEF Live!DeliverDryRun, LiveInv
  <2>2. r.val = <<x>>
    BY <1>4, <2>1 DEF LiveRequest
  <2>3. PICK rest : rest = Live!Kept(ui.orders, I)
    OBVIOUS
  <2>4. Listing(rest) /\ \A j \in DOMAIN rest : rest[j].preview # x.preview
    <3>1. I \in SUBSET DOMAIN ui.orders /\ \A j \in I : ui.orders[j].preview # x.preview
      OBVIOUS
    <3> HIDE DEF I
    <3>2. Listing(rest) /\ \A k \in DOMAIN rest : \E j \in I : rest[k] = ui.orders[j]
      BY <1>4, <2>3, <3>1, KeptListing
    <3> QED
      BY <3>1, <3>2
  <2>5. rest = Live!Others(ui.orders, x.preview)
    BY <2>3 DEF Live!Others
  <2> HIDE DEF x, I
  <2>6. PICK O : O = <<x>> \o rest
    OBVIOUS
  <2>7. Listing(O) /\ \A j \in DOMAIN O : O[j].preview = x.preview => O[j] = x
    BY <2>4, <2>6, ListedOnce
  <2>8. PICK X : X = <<x>>
    OBVIOUS
  <2>9. X[1] = x
    BY <2>8
  <2>10. ui' = [ui EXCEPT !.dryRunning = FALSE, !.dryRun = X, !.selected = X, !.orders = O]
    BY <1>8, <2>1, <2>2, <2>5, <2>6, <2>8 DEF Live!DeliverDryRun, x
  <2>11. {"orders", "selected"} \subseteq DOMAIN ui' /\ ui'.orders = O /\ ui'.selected = X
    BY <1>4, <2>10
  <2> QED
    BY <1>6, <2>7, <2>9, <2>11
<1>9. ASSUME NEW op, NEW flag \in {"reconciling", "cancelling"}, Live!DeliverOrder(r, op, flag)
      PROVE  DetailShown(ui')
  <2> DEFINE x == r.val[1]
  <2>1. SUFFICES ASSUME r.ok PROVE DetailShown(ui')
    BY <1>5, <1>9 DEF Live!DeliverOrder
  <2>2. PICK O : O = Live!Replaced(ui.orders, x)
    OBVIOUS
  <2>3. Listing(O) /\ \A j \in DOMAIN O : O[j].preview = x.preview => O[j] = x
    BY <1>4, <2>2, ReplacedListing
  <2>4. PICK X : X = r.val
    OBVIOUS
  <2>5. X[1] = x
    BY <2>4
  <2>6. ui' = [ui EXCEPT ![flag] = FALSE, !.selected = X, !.orders = O]
    BY <1>9, <2>1, <2>2, <2>4 DEF Live!DeliverOrder
  <2>7. {"orders", "selected"} \subseteq DOMAIN ui' /\ ui'.orders = O /\ ui'.selected = X
    BY <1>4, <2>6
  <2> QED
    BY <1>6, <2>3, <2>5, <2>7
<1>10. CASE Live!DeliverReconciled(r) \/ Live!DeliverCancelled(r)
  BY <1>1, <1>2, <1>9, <1>10 DEF Live!DeliverReconciled, Live!DeliverCancelled, LiveInv
<1> QED
  BY <1>1, <1>3, <1>7, <1>8, <1>10

\* An order is stored in the place of the one its preview has, or as a new one.
LEMMA StoredListing ==
  ASSUME Listing(db.orders), NEW order
  PROVE  Listing(Live!With(order))
<1> DEFINE I == {i \in DOMAIN db.orders : db.orders[i].preview = order.preview}
<1>1. I \in SUBSET DOMAIN db.orders /\ Live!Stored(order.preview) = Live!Kept(db.orders, I)
  BY DEF Live!Stored
<1>2. CASE Live!Stored(order.preview) = <<>>
  <2>1. I = {}
    <3> HIDE DEF I
    <3> QED
      BY <1>1, <1>2, KeptListing
  <2>2. \A i \in DOMAIN db.orders : db.orders[i].preview # order.preview
    BY <2>1
  <2>3. Listing(Append(db.orders, order))
    BY <2>2, ListedOnce
  <2> QED
    BY <1>2, <2>3 DEF Live!With
<1>3. CASE Live!Stored(order.preview) # <<>>
  BY <1>3, ReplacedListing DEF Live!With
<1> QED
  BY <1>2, <1>3

\* The API's data after a step that stores one order at most.
LEMMA LiveStoredStep ==
  ASSUME LiveStored(db), NEW order,
         \/ UNCHANGED db
         \/ \E n : db' = [db EXCEPT !.failures = n]
         \/ db' = [db EXCEPT !.orders = Live!With(order)]
         \/ \E d, a : db' = [db EXCEPT !.orders = Live!With(order), !.dry = d, !.audit = a]
         \/ \E e : db' = [db EXCEPT !.exchange = e]
         \/ \E e : db' = [db EXCEPT !.orders = Live!With(order), !.exchange = e]
  PROVE  LiveStored(db')
<1> DEFINE O == db.orders
           D == db.dry
           E == db.exchange
           A == db.audit
           F == db.failures
<1>1. db = [orders |-> O, dry |-> D, exchange |-> E, audit |-> A, failures |-> F] /\ Listing(O)
  BY DEF LiveStored
<1>2. PICK N : N = Live!With(order) /\ Listing(N)
  BY <1>1, StoredListing
<1> HIDE DEF O, D, E, A, F
<1>5. \E o, d, e, a, n :
        /\ o = O \/ o = N
        /\ db' = [orders |-> o, dry |-> d, exchange |-> e, audit |-> a, failures |-> n]
  <2>1. CASE \E n : db' = [db EXCEPT !.failures = n]
    BY <1>1, <2>1
  <2>2. CASE db' = [db EXCEPT !.orders = N]
    BY <1>1, <2>2
  <2>3. CASE \E d, a : db' = [db EXCEPT !.orders = N, !.dry = d, !.audit = a]
    BY <1>1, <2>3
  <2>4. CASE \E e : db' = [db EXCEPT !.exchange = e]
    BY <1>1, <2>4
  <2>5. CASE \E e : db' = [db EXCEPT !.orders = N, !.exchange = e]
    BY <1>1, <2>5
  <2> QED
    BY <1>1, <1>2, <2>1, <2>2, <2>3, <2>4, <2>5
<1>3. /\ db' = [orders |-> db'.orders, dry |-> db'.dry, exchange |-> db'.exchange,
                audit |-> db'.audit, failures |-> db'.failures]
      /\ db'.orders = O \/ db'.orders = N
  <2>1. PICK o, d, e, a, n :
          /\ o = O \/ o = N
          /\ db' = [orders |-> o, dry |-> d, exchange |-> e, audit |-> a, failures |-> n]
    BY <1>5
  <2> QED
    BY <2>1
<1>4. Listing(db'.orders)
  BY <1>1, <1>2, <1>3
<1> QED
  BY <1>3, <1>4 DEF LiveStored

\* The API answers and stores, the worker and the exchange move the orders.
LEMMA LiveServed ==
  ASSUME LiveInv, Live!Serve
  PROVE  LiveInv'
<1>1. PICK i \in DOMAIN net :
        /\ \/ Live!ServeLoad(net[i], i) \/ Live!ServeDryRun(net[i], i)
           \/ Live!ServeReconcile(net[i], i) \/ Live!ServeCancel(net[i], i)
        /\ UNCHANGED <<ui, wire>>
  BY DEF Live!Serve, Live!Servable
<1>2. LiveRequests(net) /\ LiveStored(db) /\ Listing(db.orders)
  BY DEF LiveInv, LiveStored
<1>3. /\ LiveRequests(Live!Refused(i))
      /\ \A v : (net[i].op = "load" => Listing(v.orders)) => LiveRequests(Live!Served(i, v))
  BY <1>2, LiveAnswered
<1>4. PICK r : r = net[i]
  OBVIOUS
<1>5. CASE Live!ServeLoad(r, i)
  <2> DEFINE I == {j \in DOMAIN db.orders : ProfileOf[db.orders[j].preview] = r.arg}
  <2>1. I \in SUBSET DOMAIN db.orders
    OBVIOUS
  <2>2. Live!ListOrders(r.arg) = Live!Reverse(Live!Kept(db.orders, I))
    BY DEF Live!ListOrders
  <2> HIDE DEF I
  <2>3. Listing(Live!Kept(db.orders, I))
    BY <1>2, <2>1, KeptListing
  <2>4. PICK L : L = Live!ListOrders(r.arg) /\ Listing(L)
    BY <2>2, <2>3, ReversedListing
  <2>5. PICK v : v = [readiness |-> ReadinessOf[r.arg], orders |-> L]
    OBVIOUS
  <2>6. v.orders = L
    BY <2>5
  <2>7. net' = Live!Served(i, v) /\ db' = db
    BY <1>5, <2>4, <2>5 DEF Live!ServeLoad
  <2>8. LiveRequests(net')
    BY <1>3, <2>4, <2>6, <2>7
  <2> QED
    BY <1>1, <2>7, <2>8 DEF LiveInv
<1>6. CASE Live!ServeDryRun(r, i)
  <2>1. PICK passes \in BOOLEAN :
          LET found == Live!GetOrCreate(r.arg.preview)
              status == IF passes THEN "DRY_RUN_READY" ELSE "DRY_RUN_BLOCKED"
              made == Live!Order(r.arg.preview, status)
          IN  \/ net' = Live!Served(i, found) /\ UNCHANGED db
              \/ net' = Live!Refused(i) /\ UNCHANGED db
              \/ /\ net' = Live!Served(i, made)
                 /\ db' = [db EXCEPT !.orders = Live!With(made), !.dry = @ \cup {r.arg.preview},
                                     !.audit = Append(@, [arg |-> r.arg, from |-> found.status])]
    BY <1>6 DEF Live!ServeDryRun
  <2>2. PICK made : made = Live!Order(r.arg.preview, IF passes THEN "DRY_RUN_READY" ELSE "DRY_RUN_BLOCKED")
    OBVIOUS
  <2>3. r.op = "dryRun"
    BY <1>6 DEF Live!ServeDryRun
  <2>4. LiveRequests(net')
    <3>1. net' = Live!Refused(i) \/ \E v : net' = Live!Served(i, v)
      BY <2>1
    <3> QED
      BY <1>3, <1>4, <2>3, <3>1
  <2>5. \/ UNCHANGED db
        \/ \E d, a : db' = [db EXCEPT !.orders = Live!With(made), !.dry = d, !.audit = a]
    BY <2>1, <2>2
  <2>6. LiveStored(db')
    BY <1>2, <2>5, LiveStoredStep
  <2> QED
    BY <1>1, <2>4, <2>6 DEF LiveInv
<1>7. CASE Live!ServeReconcile(r, i)
  <2>1. PICK order : net' = Live!Served(i, order) /\ db' = [db EXCEPT !.orders = Live!With(order)]
    BY <1>7 DEF Live!ServeReconcile
  <2>2. r.op # "load"
    BY <1>7 DEF Live!ServeReconcile
  <2>3. LiveRequests(net')
    BY <1>3, <1>4, <2>1, <2>2
  <2>4. LiveStored(db')
    BY <1>2, <2>1, LiveStoredStep
  <2> QED
    BY <1>1, <2>3, <2>4 DEF LiveInv
<1>8. CASE Live!ServeCancel(r, i)
  <2>1. \/ net' = Live!Refused(i) /\ UNCHANGED db
        \/ /\ \E v : net' = Live!Served(i, v)
           /\ \E e : db' = [db EXCEPT !.exchange = e]
    BY <1>8 DEF Live!ServeCancel
  <2>2. r.op # "load"
    BY <1>8 DEF Live!ServeCancel
  <2>3. LiveRequests(net')
    BY <1>3, <1>4, <2>1, <2>2
  <2>4. LiveStored(db')
    BY <1>2, <2>1, LiveStoredStep
  <2> QED
    BY <1>1, <2>3, <2>4 DEF LiveInv
<1> QED
  BY <1>1, <1>4, <1>5, <1>6, <1>7, <1>8

\* The worker and the exchange move the stored orders, not their list.
LEMMA LiveMoves ==
  ASSUME LiveInv,
         \E v \in Live!Previews : Live!WorkerPrepares(v) \/ Live!WorkerSends(v) \/ Live!ExchangeFills(v)
  PROVE  LiveInv'
<1>1. PICK v : Live!WorkerPrepares(v) \/ Live!WorkerSends(v) \/ Live!ExchangeFills(v)
  OBVIOUS
<1>2. /\ UNCHANGED <<ui, net>>
      /\ \E order : \/ db' = [db EXCEPT !.orders = Live!With(order)]
                    \/ \E e : db' = [db EXCEPT !.exchange = e]
                    \/ \E e : db' = [db EXCEPT !.orders = Live!With(order), !.exchange = e]
  BY <1>1 DEF Live!WorkerPrepares, Live!WorkerSends, Live!ExchangeFills
<1>3. LiveStored(db')
  BY <1>2, LiveStoredStep DEF LiveInv
<1> QED
  BY <1>2, <1>3 DEF LiveInv

\* Every step of the page, of the API and of the world around keeps the lists.
LEMMA LiveKeeps ==
  ASSUME LiveInv, Live!LiveNext \/ UNCHANGED <<ui, net, db, wire>>
  PROVE  LiveInv'
<1>1. CASE UNCHANGED <<ui, net, db, wire>>
  BY <1>1 DEF LiveInv
<1>2. CASE Live!RequestFails
  <2>1. /\ \E i \in DOMAIN net : net' = Live!Refused(i)
        /\ \E n : db' = [db EXCEPT !.failures = n]
        /\ ui' = ui
    BY <1>2 DEF Live!RequestFails
  <2>2. LiveRequests(net')
    BY <2>1, LiveAnswered DEF LiveInv
  <2>3. LiveStored(db')
    BY <2>1, LiveStoredStep DEF LiveInv
  <2> QED
    BY <2>1, <2>2, <2>3 DEF LiveInv
<1>3. CASE Live!RunDryRun \/ Live!ReconcileOrder \/ Live!CancelOrder
  BY <1>3, LiveAsks DEF Live!RunDryRun, Live!ReconcileOrder, Live!CancelOrder
<1> QED
  BY <1>1, <1>2, <1>3, LiveTyped, LiveDelivered, LiveServed, LiveMoves DEF Live!LiveNext

\* The page mounts with nothing to show.
LEMMA LiveStarts ==
  ASSUME Live!LiveInit
  PROVE  LiveInv
<1>1. PICK none : none = <<>>
  OBVIOUS
<1>2. Listing(none) /\ InFlight(none) /\ DOMAIN none = {}
  BY <1>1, EmptySeq, SeqOfRange DEF Listing, InFlight
<1>3. net = none /\ LiveRequests(net)
  BY <1>1, <1>2 DEF Live!LiveInit, LiveRequests
<1>4. {"orders", "selected"} \subseteq DOMAIN ui /\ ui.orders = none /\ ui.selected = none
  BY <1>1 DEF Live!LiveInit, Live!Null
<1>5. PICK E : db = [orders |-> none, dry |-> {}, exchange |-> E, audit |-> none, failures |-> 0]
  BY <1>1 DEF Live!LiveInit
<1>6. LiveStored(db)
  BY <1>2, <1>5 DEF LiveStored
<1>7. DetailShown(ui)
  BY <1>1, <1>2, <1>4 DEF DetailShown
<1> QED
  BY <1>3, <1>6, <1>7 DEF LiveInv

\* The detail and its row agree.
LEMMA LiveHolds ==
  ASSUME LiveInv
  PROVE  Live!DetailAgreesWithList
BY DEF LiveInv, DetailShown, Live!DetailAgreesWithList, Live!Null

----------------------------------------------------------------------------
(* Decision intelligence.  Loads are repeated and none is cancelled, but    *)
(* every change of a control issues the loads it concerns behind the others: *)
(* with answers in order, the last answer due for a view is of its controls. *)

ListSet == Decisions!ToSet(Lists)
DetailSet == Decisions!ToSet(Details)

\* No view of the selected decision is a list.
ListsApart ==
  /\ Lists \in Seq(ListSet) /\ Lists # <<>> /\ Details \in Seq(DetailSet)
  /\ ListSet \cap DetailSet = {}

\* An answer is of what its request captured.
ViewRequest(r) ==
  /\ r.op \in Decisions!Views
  /\ r.ok => r.val = <<r.val[1]>>
  /\ r.ok /\ r.op \in ListSet => r.val[1].filter = r.arg.filter /\ r.val[1].page = r.arg.page
  /\ r.ok /\ r.op \in DetailSet => r.val = r.arg

ViewRequests(q) == InFlight(q) /\ \A k \in DOMAIN q : ViewRequest(q[k])

\* The page has its parts.
ViewTyped(view) ==
  /\ {"filter", "page", "data", "selected", "loading", "error"} \subseteq DOMAIN view
  /\ DOMAIN view.page = ListSet
  /\ DOMAIN view.data = Decisions!Views
  /\ view.loading \in [Decisions!Views -> BOOLEAN]
  /\ view.selected # <<>> => view.selected = <<view.selected[1]>>

\* The request captured what the controls of its view say.
Wanted(r, view) ==
  /\ r.op \in ListSet => r.arg.filter = view.filter /\ r.arg.page = view.page[r.op]
  /\ r.op \in DetailSet => r.arg = view.selected

LastWanted(q, view) ==
  \A k \in DOMAIN q : (\A j \in DOMAIN q : j > k => q[j].op # q[k].op) => Wanted(q[k], view)

\* What a view shows is what its controls say.
Fits(v, view) ==
  view.data[v] # <<>> =>
    /\ v \in ListSet => view.data[v][1].filter = view.filter /\ view.data[v][1].page = view.page[v]
    /\ v \in DetailSet => view.data[v] = view.selected

Settled(q, view) ==
  \A v \in Decisions!Views :
    (\A k \in DOMAIN q : q[k].op # v) => view.loading[v] = FALSE /\ Fits(v, view)

ViewsInv ==
  /\ ViewRequests(net) /\ ViewTyped(ui)
  /\ wire = "ordered" => LastWanted(net, ui) /\ Settled(net, ui)

\* A change of the controls leaves this view alone.
SameView(v, old, new) ==
  /\ v \in ListSet => new.filter = old.filter /\ new.page[v] = old.page[v]
  /\ v \in DetailSet => new.selected = old.selected
  /\ new.loading[v] = old.loading[v] /\ new.data[v] = old.data[v]

\* Requests go behind others.
LEMMA Queued ==
  ASSUME NEW q, InFlight(q), NEW p, InFlight(p)
  PROVE  LET n == q \o p IN
         /\ InFlight(n)
         /\ Len(q) \in Nat /\ DOMAIN q = 1..Len(q) /\ Len(p) \in Nat /\ DOMAIN p = 1..Len(p)
         /\ DOMAIN n = 1..(Len(q) + Len(p))
         /\ \A j \in 1..Len(q) : n[j] = q[j]
         /\ \A j \in 1..Len(p) : n[Len(q) + j] = p[j]
<1> DEFINE S == Range(q) \cup Range(p)
<1>1. /\ q \in Seq(S) /\ p \in Seq(S)
      /\ Len(q) \in Nat /\ DOMAIN q = 1..Len(q) /\ Len(p) \in Nat /\ DOMAIN p = 1..Len(p)
  BY SeqMonotonic, LenProperties DEF InFlight
<1>2. PICK n : n = q \o p
  OBVIOUS
<1> HIDE DEF S
<1>3. /\ n \in Seq(S) /\ Len(n) = Len(q) + Len(p)
      /\ \A j \in 1..(Len(q) + Len(p)) : n[j] = IF j <= Len(q) THEN q[j] ELSE p[j - Len(q)]
  <2>1. /\ q \o p \in Seq(S) /\ Len(q \o p) = Len(q) + Len(p)
        /\ \A j \in 1..(Len(q) + Len(p)) : (q \o p)[j] = IF j <= Len(q) THEN q[j] ELSE p[j - Len(q)]
    <3>1. q \in Seq(S) /\ p \in Seq(S)
      BY <1>1
    <3> QED
      BY <3>1, ConcatProperties
  <2> QED
    BY <1>2, <2>1
<1>4. DOMAIN n = 1..(Len(q) + Len(p)) /\ n \in Seq(Range(n))
  BY <1>3, LenProperties, SeqOfRange
<1>5. /\ \A j \in 1..Len(q) : n[j] = q[j]
      /\ \A j \in 1..Len(p) : n[Len(q) + j] = p[j]
  <2>1. ASSUME NEW j \in 1..Len(q)
        PROVE  n[j] = q[j]
    <3>1. j \in 1..(Len(q) + Len(p)) /\ j <= Len(q)
      BY <1>1
    <3> QED
      BY <1>3, <3>1
  <2>2. ASSUME NEW j \in 1..Len(p)
        PROVE  n[Len(q) + j] = p[j]
    <3>1. PICK i : i = Len(q) + j
      OBVIOUS
    <3>2. i \in 1..(Len(q) + Len(p)) /\ ~(i <= Len(q)) /\ i - Len(q) = j
      BY <1>1, <3>1
    <3> QED
      BY <1>3, <3>1, <3>2
  <2> QED
    BY <2>1, <2>2
<1>6. \A j \in DOMAIN n : j \in 1..Len(q) \/ \E i \in 1..Len(p) : j = Len(q) + i
  <2> SUFFICES ASSUME NEW j \in 1..(Len(q) + Len(p)), j \notin 1..Len(q)
               PROVE  \E i \in 1..Len(p) : j = Len(q) + i
    BY <1>4
  <2>1. j - Len(q) \in 1..Len(p) /\ j = Len(q) + (j - Len(q))
    BY <1>1
  <2> QED
    BY <2>1
<1>7. \A j \in DOMAIN n : IsRequest(n[j])
  BY <1>1, <1>5, <1>6 DEF InFlight
<1> QED
  BY <1>1, <1>2, <1>4, <1>5, <1>7 DEF InFlight

\* Every view either is loaded anew with what the controls say, or stays.
LEMMA RunsKeep ==
  ASSUME NEW q, ViewRequests(q), NEW old, NEW runs, ViewRequests(runs), NEW new,
         \A k \in DOMAIN runs : Wanted(runs[k], new),
         \A v \in Decisions!Views : (\E k \in DOMAIN runs : runs[k].op = v) \/ SameView(v, old, new)
  PROVE  /\ ViewRequests(q \o runs)
         /\ LastWanted(q, old) => LastWanted(q \o runs, new)
         /\ Settled(q, old) => Settled(q \o runs, new)
<1>1. PICK n : n = q \o runs
  OBVIOUS
<1>2. /\ InFlight(n)
      /\ Len(q) \in Nat /\ DOMAIN q = 1..Len(q) /\ Len(runs) \in Nat /\ DOMAIN runs = 1..Len(runs)
      /\ DOMAIN n = 1..(Len(q) + Len(runs))
      /\ \A j \in 1..Len(q) : n[j] = q[j]
      /\ \A j \in 1..Len(runs) : n[Len(q) + j] = runs[j]
  <2>1. InFlight(q) /\ InFlight(runs)
    BY DEF ViewRequests
  <2> QED
    BY <1>1, <2>1, Queued
<1>3. ASSUME NEW j \in DOMAIN n
      PROVE  j \in 1..Len(q) \/ \E i \in 1..Len(runs) : j = Len(q) + i
  <2> SUFFICES ASSUME j \notin 1..Len(q)
               PROVE  \E i \in 1..Len(runs) : j = Len(q) + i
    OBVIOUS
  <2>1. j - Len(q) \in 1..Len(runs) /\ j = Len(q) + (j - Len(q))
    BY <1>2
  <2> QED
    BY <2>1
<1>4. ViewRequests(n)
  BY <1>2, <1>3 DEF ViewRequests
<1>5. ASSUME LastWanted(q, old), NEW k \in DOMAIN n, \A j \in DOMAIN n : j > k => n[j].op # n[k].op
      PROVE  Wanted(n[k], new)
  <2>1. CASE \E i \in 1..Len(runs) : k = Len(q) + i
    BY <1>2, <2>1
  <2>2. CASE k \in 1..Len(q)
    <3>1. \A j \in DOMAIN q : j > k => q[j].op # q[k].op
      BY <1>2, <1>5, <2>2
    <3>2. Wanted(q[k], old) /\ n[k] = q[k] /\ q[k].op \in Decisions!Views
      BY <1>2, <1>5, <2>2, <3>1 DEF LastWanted, ViewRequests, ViewRequest
    <3>3. \A i \in DOMAIN runs : Len(q) + i \in DOMAIN n /\ Len(q) + i > k /\ n[Len(q) + i] = runs[i]
      BY <1>2, <2>2
    <3>4. \A i \in DOMAIN runs : runs[i].op # q[k].op
      BY <1>5, <3>2, <3>3
    <3>5. SameView(q[k].op, old, new)
      BY <3>2, <3>4
    <3> QED
      BY <3>2, <3>5 DEF SameView, Wanted
  <2> QED
    BY <1>3, <2>1, <2>2
<1>6. ASSUME Settled(q, old), NEW v \in Decisions!Views, \A k \in DOMAIN n : n[k].op # v
      PROVE  new.loading[v] = FALSE /\ Fits(v, new)
  <2>1. \A k \in DOMAIN q : k \in DOMAIN n /\ n[k] = q[k]
    BY <1>2
  <2>2. \A i \in DOMAIN runs : Len(q) + i \in DOMAIN n /\ n[Len(q) + i] = runs[i]
    BY <1>2
  <2>3. (\A k \in DOMAIN q : q[k].op # v) /\ (\A i \in DOMAIN runs : runs[i].op # v)
    BY <1>6, <2>1, <2>2
  <2>4. old.loading[v] = FALSE /\ Fits(v, old) /\ SameView(v, old, new)
    BY <1>6, <2>3 DEF Settled
  <2> QED
    BY <2>4 DEF SameView, Fits
<1> QED
  BY <1>1, <1>4, <1>5, <1>6 DEF LastWanted, Settled

\* Loads of lists capture what the controls say.
LEMMA ListRuns ==
  ASSUME ListsApart, NEW view, ViewTyped(view), NEW lists, lists \in Seq(ListSet)
  PROVE  LET runs == Decisions!RunLists(view, lists) IN
         /\ ViewRequests(runs)
         /\ DOMAIN runs = DOMAIN lists
         /\ \A k \in DOMAIN runs : runs[k].op = lists[k] /\ Wanted(runs[k], view)
<1>1. Len(lists) \in Nat /\ DOMAIN lists = 1..Len(lists) /\ \A k \in DOMAIN lists : lists[k] \in ListSet
  BY LenProperties
<1>2. PICK runs : runs = Decisions!RunLists(view, lists)
  OBVIOUS
<1>3. runs = [k \in DOMAIN lists |-> Decisions!ListRequest(view, lists[k])]
  BY <1>2 DEF Decisions!RunLists
<1>4. runs \in Seq(Range(runs)) /\ DOMAIN runs = DOMAIN lists
  <2>1. runs \in [1..Len(lists) -> Range(runs)] /\ DOMAIN runs = DOMAIN lists
    BY <1>1, <1>3 DEF Range
  <2> QED
    BY <1>1, <2>1, SeqDef
<1>5. ASSUME NEW k \in DOMAIN runs
      PROVE  IsRequest(runs[k]) /\ ViewRequest(runs[k]) /\ runs[k].op = lists[k] /\ Wanted(runs[k], view)
  <2>1. PICK l \in ListSet : l = lists[k]
    BY <1>1, <1>4
  <2>2. PICK page : page = Decisions!PageOf(view.filter, view.page[l])
    OBVIOUS
  <2>3. page.filter = view.filter /\ page.page = view.page[l]
    BY <2>2 DEF Decisions!PageOf
  <2>4. PICK arg : arg = Decisions!Captured(view, l)
    OBVIOUS
  <2>5. arg.filter = view.filter /\ arg.page = view.page[l]
    BY <2>4 DEF Decisions!Captured
  <2>6. PICK w : w = <<page>>
    OBVIOUS
  <2>7. w = <<w[1]>> /\ w[1] = page
    BY <2>6
  <2>8. PICK r : r = runs[k]
    OBVIOUS
  <2>9. r = [op |-> l, arg |-> arg, back |-> TRUE, ok |-> TRUE, val |-> w]
    BY <1>3, <1>4, <2>1, <2>2, <2>4, <2>6, <2>8 DEF Decisions!ListRequest, Decisions!FixedRequest
  <2>10. /\ IsRequest(r) /\ r.op = l /\ r.arg = arg /\ r.val = w
    BY <2>9 DEF IsRequest
  <2>11. l \notin DetailSet /\ l \in Decisions!Views
    BY DEF ListsApart, Decisions!Views, ListSet, DetailSet
  <2>12. ViewRequest(r)
    BY <2>3, <2>5, <2>7, <2>10, <2>11 DEF ViewRequest
  <2>13. Wanted(r, view)
    BY <2>5, <2>10, <2>11 DEF Wanted
  <2> QED
    BY <2>1, <2>8, <2>10, <2>12, <2>13
<1> QED
  BY <1>2, <1>4, <1>5 DEF ViewRequests, InFlight

\* Loads of details capture the selected decision; with none there are no loads.
LEMMA DetailRuns ==
  ASSUME ListsApart, NEW view, ViewTyped(view)
  PROVE  LET runs == Decisions!RunDetails(view) IN
         /\ ViewRequests(runs)
         /\ \A k \in DOMAIN runs : Wanted(runs[k], view)
         /\ view.selected # <<>> => \A d \in DetailSet : \E k \in DOMAIN runs : runs[k].op = d
<1>1. Len(Details) \in Nat /\ DOMAIN Details = 1..Len(Details) /\ \A k \in DOMAIN Details : Details[k] \in DetailSet
  BY LenProperties DEF ListsApart
<1>2. PICK runs : runs = Decisions!RunDetails(view)
  OBVIOUS
<1>3. CASE view.selected = <<>>
  <2>1. runs = <<>>
    BY <1>2, <1>3 DEF Decisions!RunDetails, Decisions!Null
  <2>2. DOMAIN runs = {} /\ InFlight(runs)
    BY <2>1, EmptySeq, SeqOfRange DEF InFlight
  <2> QED
    BY <1>2, <1>3, <2>2 DEF ViewRequests
<1>4. CASE view.selected # <<>>
  <2>1. runs = [k \in DOMAIN Details |-> Decisions!DetailRequest(view, Details[k])]
    BY <1>2, <1>4 DEF Decisions!RunDetails, Decisions!Null
  <2>2. runs \in Seq(Range(runs)) /\ DOMAIN runs = DOMAIN Details
    <3>1. runs \in [1..Len(Details) -> Range(runs)] /\ DOMAIN runs = DOMAIN Details
      BY <1>1, <2>1 DEF Range
    <3> QED
      BY <1>1, <3>1, SeqDef
  <2>3. ASSUME NEW k \in DOMAIN runs
        PROVE  IsRequest(runs[k]) /\ ViewRequest(runs[k]) /\ runs[k].op = Details[k] /\ Wanted(runs[k], view)
    <3>1. PICK d \in DetailSet : d = Details[k]
      BY <1>1, <2>2
    <3>2. PICK w : w = view.selected
      OBVIOUS
    <3>3. w = <<w[1]>>
      BY <1>4, <3>2 DEF ViewTyped
    <3>4. PICK r : r = runs[k]
      OBVIOUS
    <3>5. r = [op |-> d, arg |-> w, back |-> TRUE, ok |-> TRUE, val |-> w]
      BY <2>1, <2>2, <3>1, <3>2, <3>3, <3>4 DEF Decisions!DetailRequest, Decisions!FixedRequest
    <3>6. IsRequest(r) /\ r.op = d /\ r.arg = w /\ r.val = w
      BY <3>5 DEF IsRequest
    <3>7. d \notin ListSet /\ d \in Decisions!Views
      BY DEF ListsApart, Decisions!Views, ListSet, DetailSet
    <3>8. ViewRequest(r)
      BY <3>3, <3>6, <3>7 DEF ViewRequest
    <3>9. Wanted(r, view)
      BY <3>2, <3>6, <3>7 DEF Wanted
    <3> QED
      BY <3>1, <3>4, <3>6, <3>8, <3>9
  <2>4. ViewRequests(runs)
    BY <2>2, <2>3 DEF ViewRequests, InFlight
  <2>5. \A d \in DetailSet : \E k \in DOMAIN runs : runs[k].op = d
    BY <2>2, <2>3 DEF DetailSet, Decisions!ToSet
  <2> QED
    BY <1>2, <2>3, <2>4, <2>5
<1> QED
  BY <1>3, <1>4

\* What was loaded before a change of the controls, and what is loaded after it.
Reloaded(q, old, runs, new) ==
  /\ ViewRequests(q \o runs) /\ ViewTyped(new)
  /\ LastWanted(q, old) => LastWanted(q \o runs, new)
  /\ Settled(q, old) => Settled(q \o runs, new)

\* Every list is loaded with what the controls say, maybe with more.
Covering(runs, view) ==
  /\ ViewRequests(runs)
  /\ \A k \in DOMAIN runs : Wanted(runs[k], view)
  /\ \A l \in ListSet : \E k \in DOMAIN runs : runs[k].op = l

\* More loads behind them.
LEMMA CoveringMore ==
  ASSUME NEW view, NEW a, Covering(a, view), NEW b, ViewRequests(b),
         \A k \in DOMAIN b : Wanted(b[k], view)
  PROVE  /\ Covering(a \o b, view)
         /\ \A i \in DOMAIN b : \E k \in DOMAIN (a \o b) : (a \o b)[k].op = b[i].op
<1>1. PICK n : n = a \o b
  OBVIOUS
<1>2. InFlight(a) /\ InFlight(b)
  BY DEF Covering, ViewRequests
<1>3. /\ InFlight(n)
      /\ Len(a) \in Nat /\ DOMAIN a = 1..Len(a) /\ Len(b) \in Nat /\ DOMAIN b = 1..Len(b)
      /\ DOMAIN n = 1..(Len(a) + Len(b))
      /\ \A j \in 1..Len(a) : n[j] = a[j]
      /\ \A j \in 1..Len(b) : n[Len(a) + j] = b[j]
  BY <1>1, <1>2, Queued
<1>4. ASSUME NEW j \in DOMAIN n
      PROVE  (\E i \in DOMAIN a : n[j] = a[i]) \/ (\E i \in DOMAIN b : n[j] = b[i])
  <2>1. CASE j \in 1..Len(a)
    BY <1>3, <2>1
  <2>2. CASE j \notin 1..Len(a)
    <3>1. j - Len(a) \in 1..Len(b) /\ j = Len(a) + (j - Len(a))
      BY <1>3, <2>2
    <3> QED
      BY <1>3, <3>1
  <2> QED
    BY <2>1, <2>2
<1>5. /\ \A i \in DOMAIN a : i \in DOMAIN n /\ n[i] = a[i]
      /\ \A i \in DOMAIN b : Len(a) + i \in DOMAIN n /\ n[Len(a) + i] = b[i]
  BY <1>3
<1>6. \A i \in DOMAIN b : \E k \in DOMAIN n : n[k].op = b[i].op
  BY <1>5
<1>7. Covering(n, view)
  <2>1. ViewRequests(n)
    BY <1>3, <1>4 DEF Covering, ViewRequests
  <2>2. \A k \in DOMAIN n : Wanted(n[k], view)
    BY <1>4 DEF Covering
  <2>3. \A l \in ListSet : \E k \in DOMAIN n : n[k].op = l
    BY <1>5 DEF Covering
  <2> QED
    BY <2>1, <2>2, <2>3 DEF Covering
<1> QED
  BY <1>1, <1>6, <1>7

\* The loads of all lists, and of some a second time.
LEMMA ListsCovered ==
  ASSUME ListsApart, NEW view, ViewTyped(view), NEW lists, lists \in Seq(ListSet)
  PROVE  /\ Covering(Decisions!RunLists(view, Lists), view)
         /\ Covering(Decisions!RunLists(view, Lists \o lists), view)
<1>1. Lists \in Seq(ListSet) /\ ListSet = {Lists[k] : k \in DOMAIN Lists}
  BY DEF ListsApart, ListSet, Decisions!ToSet
<1>2. /\ Len(Lists) \in Nat /\ DOMAIN Lists = 1..Len(Lists)
      /\ Len(lists) \in Nat /\ DOMAIN lists = 1..Len(lists)
  BY <1>1, LenProperties
<1>3. PICK n : n = Lists \o lists
  OBVIOUS
<1>4. /\ n \in Seq(ListSet) /\ Len(n) = Len(Lists) + Len(lists)
      /\ \A j \in 1..(Len(Lists) + Len(lists)) : n[j] = IF j <= Len(Lists) THEN Lists[j] ELSE lists[j - Len(Lists)]
  <2>1. /\ Lists \o lists \in Seq(ListSet) /\ Len(Lists \o lists) = Len(Lists) + Len(lists)
        /\ \A j \in 1..(Len(Lists) + Len(lists)) :
             (Lists \o lists)[j] = IF j <= Len(Lists) THEN Lists[j] ELSE lists[j - Len(Lists)]
    BY <1>1, ConcatProperties
  <2> QED
    BY <1>3, <2>1
<1>5. \A j \in DOMAIN Lists : j \in DOMAIN n /\ n[j] = Lists[j]
  <2>1. DOMAIN n = 1..(Len(Lists) + Len(lists))
    BY <1>4, LenProperties
  <2> QED
    BY <1>2, <1>4, <2>1
<1>6. ASSUME NEW m, m \in Seq(ListSet), \A j \in DOMAIN Lists : j \in DOMAIN m /\ m[j] = Lists[j]
      PROVE  Covering(Decisions!RunLists(view, m), view)
  <2>1. PICK runs : runs = Decisions!RunLists(view, m)
    OBVIOUS
  <2>2. /\ ViewRequests(runs) /\ DOMAIN runs = DOMAIN m
        /\ \A k \in DOMAIN runs : runs[k].op = m[k] /\ Wanted(runs[k], view)
    BY <1>6, <2>1, ListRuns
  <2>3. \A l \in ListSet : \E k \in DOMAIN runs : runs[k].op = l
    BY <1>1, <1>6, <2>2
  <2> QED
    BY <2>1, <2>2, <2>3 DEF Covering
<1> QED
  BY <1>1, <1>3, <1>4, <1>5, <1>6

\* The loads of all lists follow a change of the filter or of the pages; the details
\* stay.
LEMMA ListsReloaded ==
  ASSUME ListsApart, NEW q, ViewRequests(q), NEW old, NEW view, ViewTyped(old), ViewTyped(view),
         view.selected = old.selected, view.loading = old.loading, view.data = old.data,
         NEW runs, Covering(runs, view)
  PROVE  Reloaded(q, old, runs, Decisions!AfterFilter(view))
<1> DEFINE new == Decisions!AfterFilter(view)
<1>1. /\ new.filter = view.filter /\ new.page = view.page /\ new.data = view.data
      /\ new.selected = view.selected /\ DOMAIN new = DOMAIN view
      /\ new.loading = [v \in Decisions!Views |-> view.loading[v] \/ v \in ListSet]
  BY DEF ViewTyped, Decisions!AfterFilter, Decisions!Loading, ListSet
<1> HIDE DEF new
<1>2. ViewTyped(new)
  BY <1>1 DEF ViewTyped
<1>3. \A k \in DOMAIN runs : Wanted(runs[k], new)
  BY <1>1 DEF Wanted, Covering
<1>4. ASSUME NEW v \in Decisions!Views, ~\E k \in DOMAIN runs : runs[k].op = v
      PROVE  SameView(v, old, new)
  <2>1. v \notin ListSet
    BY <1>4 DEF Covering
  <2>2. new.loading[v] = view.loading[v]
    BY <1>1, <2>1 DEF ViewTyped
  <2> QED
    BY <1>1, <2>1, <2>2 DEF SameView
<1>5. Reloaded(q, old, runs, new)
  BY <1>2, <1>3, <1>4, RunsKeep DEF Reloaded, Covering
<1> QED
  BY <1>5 DEF new

\* The loads of all views follow a change of the selection.
LEMMA ViewsReloaded ==
  ASSUME ListsApart, NEW q, ViewRequests(q), NEW old, NEW view, ViewTyped(view), view.selected # <<>>
  PROVE  Reloaded(q, old, Decisions!SelectionRuns(view), Decisions!AfterSelection(view))
<1> DEFINE new == Decisions!AfterSelection(view)
<1>1. /\ new.filter = view.filter /\ new.page = view.page /\ new.data = view.data
      /\ new.selected = view.selected /\ DOMAIN new = DOMAIN view
      /\ new.loading = [v \in Decisions!Views |-> view.loading[v] \/ v \in Decisions!Views]
  BY DEF ViewTyped, Decisions!AfterSelection, Decisions!Loading
<1> HIDE DEF new
<1>2. ViewTyped(new)
  BY <1>1 DEF ViewTyped
<1>3. PICK one : one = <<Decisions!Timeline>>
  OBVIOUS
<1>4. one \in Seq(ListSet)
  <2>1. 1 \in DOMAIN Lists
    BY EmptySeq, LenProperties DEF ListsApart
  <2>2. Decisions!Timeline \in ListSet
    BY <2>1 DEF Decisions!Timeline, ListSet, Decisions!ToSet
  <2> QED
    BY <1>3, <2>2
<1>5. PICK a : a = Decisions!RunLists(view, Lists \o one)
  OBVIOUS
<1>6. PICK b : b = Decisions!RunDetails(view)
  OBVIOUS
<1>7. Covering(a, view)
  BY <1>4, <1>5, ListsCovered
<1>8. /\ ViewRequests(b)
      /\ \A k \in DOMAIN b : Wanted(b[k], view)
      /\ \A d \in DetailSet : \E k \in DOMAIN b : b[k].op = d
  BY <1>6, DetailRuns
<1>9. PICK runs : runs = a \o b
  OBVIOUS
<1>10. Covering(runs, view) /\ \A i \in DOMAIN b : \E k \in DOMAIN runs : runs[k].op = b[i].op
  BY <1>7, <1>8, <1>9, CoveringMore
<1>11. \A v \in Decisions!Views : \E k \in DOMAIN runs : runs[k].op = v
  BY <1>8, <1>10 DEF Covering, Decisions!Views, ListSet, DetailSet
<1>12. \A k \in DOMAIN runs : Wanted(runs[k], new)
  BY <1>1, <1>10 DEF Wanted, Covering
<1>13. Reloaded(q, old, runs, new)
  BY <1>2, <1>10, <1>11, <1>12, RunsKeep DEF Reloaded, Covering
<1>14. runs = Decisions!SelectionRuns(view)
  BY <1>3, <1>5, <1>6, <1>9 DEF Decisions!SelectionRuns, Decisions!PageRuns
<1> QED
  BY <1>13, <1>14 DEF new

\* The page's sequences are kept as this module's are.
LEMMA SameKept == \A s, I : Decisions!Kept(s, I) = Live!Kept(s, I)
BY DEF Decisions!Kept, Live!Kept, Decisions!Before, Live!Before, Decisions!Cardinality, Live!Cardinality

\* A handler that changed a control asks for what it concerns.
LEMMA ViewsAsk ==
  ASSUME ViewsInv, NEW view, NEW runs, Reloaded(net, ui, runs, view), Decisions!Asks(view, runs)
  PROVE  ViewsInv'
<1>1. net' = net \o runs /\ ui' = view /\ wire' = wire
  BY DEF Decisions!Asks
<1> QED
  BY <1>1 DEF ViewsInv, Reloaded

\* A click on the filter or on a page changes no view and no selection.
LEMMA ViewClicked ==
  ASSUME ViewTyped(ui), NEW view,
         \/ \E f : view = [Decisions!Clicked EXCEPT !.filter = f]
         \/ \E p : DOMAIN p = ListSet /\ view = [Decisions!Clicked EXCEPT !.page = p]
         \/ \E l, p : view = [Decisions!Clicked EXCEPT !.page[l] = p]
  PROVE  /\ ViewTyped(view) /\ view.selected = ui.selected
         /\ view.loading = ui.loading /\ view.data = ui.data
<1>1. PICK c : c = Decisions!Clicked
  OBVIOUS
<1>2. /\ DOMAIN c = DOMAIN ui /\ c.filter = ui.filter /\ c.page = ui.page /\ c.data = ui.data
      /\ c.selected = ui.selected /\ c.loading = ui.loading
  BY <1>1 DEF Decisions!Clicked, ViewTyped
<1>3. /\ DOMAIN view = DOMAIN c /\ DOMAIN view.page = ListSet /\ view.data = c.data
      /\ view.selected = c.selected /\ view.loading = c.loading
  BY <1>1, <1>2 DEF ViewTyped
<1> QED
  BY <1>2, <1>3 DEF ViewTyped

\* Typing a filter loads every list with it.
LEMMA FilterTyped ==
  ASSUME ListsApart, ViewsInv, NEW filter, Decisions!TypeFilter(filter)
  PROVE  ViewsInv'
<1>1. PICK view : view = [Decisions!Clicked EXCEPT !.filter = filter]
  OBVIOUS
<1>2. PICK runs : runs = Decisions!FilterRuns(view)
  OBVIOUS
<1>3. Decisions!Asks(Decisions!AfterFilter(view), runs)
  BY <1>1, <1>2 DEF Decisions!TypeFilter
<1>4. /\ ViewTyped(view) /\ view.selected = ui.selected
      /\ view.loading = ui.loading /\ view.data = ui.data
  BY <1>1, ViewClicked DEF ViewsInv
<1>5. Covering(runs, view)
  BY <1>2, <1>4, ListsCovered DEF ListsApart, Decisions!FilterRuns
<1>6. Reloaded(net, ui, runs, Decisions!AfterFilter(view))
  BY <1>4, <1>5, ListsReloaded DEF ViewsInv
<1> QED
  BY <1>3, <1>6, ViewsAsk

\* Turning a page loads every list, and the one turned a second time.
LEMMA PageTurned ==
  ASSUME ListsApart, ViewsInv, NEW list \in ListSet, NEW page, Decisions!TurnPage(list, page)
  PROVE  ViewsInv'
<1>1. PICK view : view = [Decisions!Clicked EXCEPT !.page[list] = page]
  OBVIOUS
<1>2. PICK runs : runs = Decisions!PageRuns(view, <<list>>)
  OBVIOUS
<1>3. Decisions!Asks(Decisions!AfterFilter(view), runs)
  BY <1>1, <1>2 DEF Decisions!TurnPage
<1>4. /\ ViewTyped(view) /\ view.selected = ui.selected
      /\ view.loading = ui.loading /\ view.data = ui.data
  BY <1>1, ViewClicked DEF ViewsInv
<1>5. Covering(runs, view)
  <2>1. PICK one : one = <<list>>
    OBVIOUS
  <2>2. one \in Seq(ListSet)
    BY <2>1
  <2>3. runs = Decisions!RunLists(view, Lists \o one)
    BY <1>2, <2>1 DEF Decisions!PageRuns
  <2> QED
    BY <1>4, <2>2, <2>3, ListsCovered
<1>6. Reloaded(net, ui, runs, Decisions!AfterFilter(view))
  BY <1>4, <1>5, ListsReloaded DEF ViewsInv
<1> QED
  BY <1>3, <1>6, ViewsAsk

\* Back to the first pages: every list is loaded, by the handler and by the effects.
LEMMA FiltersApplied ==
  ASSUME ListsApart, ViewsInv, Decisions!ApplyFilters
  PROVE  ViewsInv'
<1> DEFINE I == {i \in DOMAIN Lists : ui.page[Lists[i]] # 1}
<1>1. PICK view : view = [Decisions!Clicked EXCEPT !.page = [l \in ListSet |-> 1]]
  OBVIOUS
<1>2. PICK moved : moved = Decisions!Kept(Lists, I)
  OBVIOUS
<1>3. PICK a : a = Decisions!RunLists(view, Lists)
  OBVIOUS
<1>4. PICK b : b = IF moved = <<>> THEN <<>> ELSE Decisions!PageRuns(view, moved)
  OBVIOUS
<1>5. PICK runs : runs = a \o b
  OBVIOUS
<1>6. Decisions!Asks(Decisions!AfterFilter(view), runs)
  BY <1>1, <1>2, <1>3, <1>4, <1>5 DEF Decisions!ApplyFilters, ListSet
<1>7. /\ ViewTyped(view) /\ view.selected = ui.selected
      /\ view.loading = ui.loading /\ view.data = ui.data
  <2>1. PICK p : p = [l \in ListSet |-> 1]
    OBVIOUS
  <2>2. DOMAIN p = ListSet /\ view = [Decisions!Clicked EXCEPT !.page = p]
    BY <1>1, <2>1
  <2> QED
    BY <2>2, ViewClicked DEF ViewsInv
<1>8. moved \in Seq(ListSet)
  <2>1. Lists \in Seq(ListSet) /\ Lists \in Seq(Range(Lists)) /\ \A i \in DOMAIN Lists : Lists[i] \in ListSet
    BY SeqOfRange, LenProperties DEF ListsApart
  <2>2. moved = Live!Kept(Lists, I) /\ I \in SUBSET DOMAIN Lists
    BY <1>2, SameKept
  <2> HIDE DEF I
  <2>3. moved \in Seq(Range(moved)) /\ Enumerated(moved, Lists, I)
    BY <2>1, <2>2, KeptEntries
  <2>4. \A k \in DOMAIN moved : moved[k] \in ListSet
    BY <2>1, <2>2, <2>3 DEF Enumerated
  <2>5. Range(moved) \subseteq ListSet
    BY <2>4 DEF Range
  <2> QED
    BY <2>3, <2>5, SeqMonotonic
<1>9. Covering(a, view)
  BY <1>3, <1>7, <1>8, ListsCovered
<1>10. Covering(runs, view)
  <2>1. CASE moved = <<>>
    <3>1. b = <<>>
      BY <1>4, <2>1
    <3>2. DOMAIN b = {} /\ InFlight(b)
      BY <3>1, EmptySeq, SeqOfRange DEF InFlight
    <3>3. ViewRequests(b) /\ \A k \in DOMAIN b : Wanted(b[k], view)
      BY <3>2 DEF ViewRequests
    <3> QED
      BY <1>5, <1>9, <3>3, CoveringMore
  <2>2. CASE moved # <<>>
    <3>1. b = Decisions!RunLists(view, Lists \o moved)
      BY <1>4, <2>2 DEF Decisions!PageRuns
    <3>2. Covering(b, view)
      BY <1>7, <1>8, <3>1, ListsCovered
    <3>3. ViewRequests(b) /\ \A k \in DOMAIN b : Wanted(b[k], view)
      BY <3>2 DEF Covering
    <3> QED
      BY <1>5, <1>9, <3>3, CoveringMore
  <2> QED
    BY <2>1, <2>2
<1>11. Reloaded(net, ui, runs, Decisions!AfterFilter(view))
  BY <1>7, <1>10, ListsReloaded DEF ViewsInv
<1> QED
  BY <1>6, <1>11, ViewsAsk

\* A decision that is selected anew loads every view; the same one loads none.
LEMMA DecisionSelected ==
  ASSUME ListsApart, ViewsInv, NEW decision, Decisions!SelectDecision(decision)
  PROVE  ViewsInv'
<1>1. PICK w : w = <<decision>>
  OBVIOUS
<1>2. PICK c : c = Decisions!Clicked
  OBVIOUS
<1>3. /\ DOMAIN c = DOMAIN ui /\ c.filter = ui.filter /\ c.page = ui.page /\ c.data = ui.data
      /\ c.selected = ui.selected /\ c.loading = ui.loading
  BY <1>2 DEF Decisions!Clicked, ViewTyped, ViewsInv
<1>4. PICK view : view = [c EXCEPT !.selected = w]
  OBVIOUS
<1>5. /\ DOMAIN view = DOMAIN ui /\ view.filter = ui.filter /\ view.page = ui.page /\ view.data = ui.data
      /\ view.selected = w /\ view.loading = ui.loading
  BY <1>3, <1>4 DEF ViewTyped, ViewsInv
<1>6. ViewTyped(view) /\ view.selected # <<>>
  BY <1>1, <1>5 DEF ViewTyped, ViewsInv
<1>7. /\ ui.selected = w => Decisions!Asks(view, <<>>)
      /\ ui.selected # w => Decisions!Asks(Decisions!AfterSelection(view), Decisions!SelectionRuns(view))
  BY <1>1, <1>2, <1>4 DEF Decisions!SelectDecision, Decisions!Select
<1>8. CASE ui.selected # w
  <2>1. Reloaded(net, ui, Decisions!SelectionRuns(view), Decisions!AfterSelection(view))
    BY <1>6, ViewsReloaded DEF ViewsInv
  <2> QED
    BY <1>7, <1>8, <2>1, ViewsAsk
<1>9. CASE ui.selected = w
  <2>1. PICK b : b = <<>>
    OBVIOUS
  <2>2. DOMAIN b = {} /\ InFlight(b)
    BY <2>1, EmptySeq, SeqOfRange DEF InFlight
  <2>3. ViewRequests(b)
    BY <2>2 DEF ViewRequests
  <2>4. \A v \in Decisions!Views : SameView(v, ui, view)
    BY <1>5, <1>9 DEF SameView
  <2>5. Reloaded(net, ui, b, view)
    BY <1>6, <2>2, <2>3, <2>4, RunsKeep DEF Reloaded, ViewsInv
  <2> QED
    BY <1>7, <1>9, <2>1, <2>5, ViewsAsk
<1> QED
  BY <1>8, <1>9

\* The controls of a page, and what it shows of its views.
SameControls(a, b) ==
  /\ DOMAIN a = DOMAIN b /\ a.filter = b.filter /\ a.page = b.page /\ a.data = b.data
  /\ a.selected = b.selected /\ a.loading = b.loading

\* An answer is taken.  With answers in order it is the oldest; if no other is due
\* for its view, it is the last of them, so it is what the controls say.
LEMMA ViewTaken ==
  ASSUME ViewsInv, NEW i \in Decisions!Deliverable
  PROVE  LET rest == Decisions!Handled(i)
             new == Decisions!Loaded(net[i])
         IN  /\ ViewRequests(rest) /\ ViewTyped(new) /\ DOMAIN new = DOMAIN ui
             /\ new.filter = ui.filter /\ new.page = ui.page /\ new.selected = ui.selected
             /\ wire = "ordered" => LastWanted(rest, new) /\ Settled(rest, new)
<1>1. PICK rest : rest = Decisions!Handled(i)
  OBVIOUS
<1>2. i \in DOMAIN net /\ (wire = "ordered" => i = 1) /\ InFlight(net)
  BY DEF Decisions!Deliverable, ViewsInv, ViewRequests
<1>3. rest = Without(net, i)
  BY <1>1 DEF Decisions!Handled, Decisions!RemoveAt, Without
<1>4. /\ InFlight(rest) /\ Len(net) \in Nat /\ DOMAIN net = 1..Len(net)
      /\ DOMAIN rest = 1..(Len(net) - 1)
      /\ \A j \in 1..(Len(net) - 1) : rest[j] = net[IF j < i THEN j ELSE j + 1]
  BY <1>2, <1>3, Removed
<1>5. ViewRequests(rest)
  <2>1. \A j \in DOMAIN rest : \E k \in DOMAIN net : rest[j] = net[k]
    BY <1>2, <1>4
  <2> QED
    BY <1>4, <2>1 DEF ViewRequests, ViewsInv
<1>6. PICK r : r = net[i]
  OBVIOUS
<1>7. ViewRequest(r)
  BY <1>2, <1>6 DEF ViewRequests, ViewsInv
<1>8. PICK X : X = IF r.ok THEN r.val ELSE Decisions!Null
  OBVIOUS
<1>9. PICK new : new = Decisions!Loaded(r)
  OBVIOUS
<1>10. /\ DOMAIN new = DOMAIN ui
       /\ new.filter = ui.filter /\ new.page = ui.page /\ new.selected = ui.selected
       /\ new.data = [ui.data EXCEPT ![r.op] = X]
       /\ new.loading = [ui.loading EXCEPT ![r.op] = FALSE]
  <2>1. PICK fine : fine = r.ok
    OBVIOUS
  <2>2. new = [ui EXCEPT !.data[r.op] = X, !.error[r.op] = ~fine, !.loading[r.op] = FALSE]
    BY <1>8, <1>9, <2>1 DEF Decisions!Loaded
  <2> QED
    BY <2>2 DEF ViewTyped, ViewsInv
<1>11. ViewTyped(new)
  BY <1>7, <1>10 DEF ViewTyped, ViewsInv, ViewRequest
<1>12. ASSUME wire = "ordered", NEW k \in DOMAIN rest,
              \A j \in DOMAIN rest : j > k => rest[j].op # rest[k].op
       PROVE  Wanted(rest[k], new)
  <2>1. k + 1 \in DOMAIN net /\ rest[k] = net[k + 1]
    BY <1>2, <1>4, <1>12
  <2>2. ASSUME NEW j \in DOMAIN net, j > k + 1
        PROVE  net[j].op # net[k + 1].op
    <3>1. j - 1 \in DOMAIN rest /\ j - 1 > k /\ rest[j - 1] = net[j]
      BY <1>2, <1>4, <1>12, <2>1, <2>2
    <3> QED
      BY <1>12, <2>1, <3>1
  <2>3. Wanted(net[k + 1], ui)
    BY <1>12, <2>1, <2>2 DEF ViewsInv, LastWanted
  <2> QED
    BY <1>10, <2>1, <2>3 DEF Wanted
<1>13. ASSUME wire = "ordered", NEW v \in Decisions!Views, \A k \in DOMAIN rest : rest[k].op # v
       PROVE  new.loading[v] = FALSE /\ Fits(v, new)
  <2>1. \A j \in DOMAIN net : j > 1 => net[j].op # v
    <3>1. \A j \in DOMAIN net : j > 1 => j - 1 \in DOMAIN rest /\ rest[j - 1] = net[j]
      BY <1>2, <1>4, <1>13
    <3> QED
      BY <1>13, <3>1
  <2>2. i = 1 /\ 1 \in DOMAIN net /\ r = net[1]
    BY <1>2, <1>6, <1>13
  <2>3. CASE r.op = v
    <3>1. Wanted(r, ui)
      BY <1>13, <2>1, <2>2, <2>3 DEF ViewsInv, LastWanted
    <3>2. new.data[v] = X /\ new.loading[v] = FALSE
      BY <1>7, <1>10, <2>3 DEF ViewTyped, ViewsInv, ViewRequest
    <3>3. X # <<>> => r.ok /\ X = r.val
      BY <1>8 DEF Decisions!Null
    <3>4. Fits(v, new)
      BY <1>7, <1>10, <2>3, <3>1, <3>2, <3>3 DEF Fits, Wanted, ViewRequest
    <3> QED
      BY <3>2, <3>4
  <2>4. CASE r.op # v
    <3>1. \A j \in DOMAIN net : net[j].op # v
      BY <1>4, <2>1, <2>2, <2>4
    <3>2. ui.loading[v] = FALSE /\ Fits(v, ui)
      BY <1>13, <3>1 DEF ViewsInv, Settled
    <3>3. new.data[v] = ui.data[v] /\ new.loading[v] = ui.loading[v]
      BY <1>10, <2>4 DEF ViewTyped, ViewsInv
    <3> QED
      BY <1>10, <3>2, <3>3 DEF Fits
  <2> QED
    BY <2>3, <2>4
<1>14. wire = "ordered" => LastWanted(rest, new) /\ Settled(rest, new)
  BY <1>12, <1>13 DEF LastWanted, Settled
<1> QED
  BY <1>1, <1>5, <1>6, <1>9, <1>10, <1>11, <1>14

\* The answers: the timeline's may select a decision, and then every view is loaded.
LEMMA ViewsDelivered ==
  ASSUME ListsApart, ViewsInv, Decisions!Deliver
  PROVE  ViewsInv'
<1>1. PICK i \in Decisions!Deliverable :
        Decisions!DeliverTimeline(net[i], Decisions!Handled(i))
        \/ Decisions!DeliverView(net[i], Decisions!Handled(i))
  BY DEF Decisions!Deliver
<1>2. wire' = wire
  BY DEF Decisions!Deliver
<1>3. PICK rest, new : rest = Decisions!Handled(i) /\ new = Decisions!Loaded(net[i])
  OBVIOUS
<1>4. /\ ViewRequests(rest) /\ ViewTyped(new) /\ DOMAIN new = DOMAIN ui
      /\ new.selected = ui.selected
      /\ wire = "ordered" => LastWanted(rest, new) /\ Settled(rest, new)
  BY <1>3, ViewTaken
<1>5. CASE Decisions!DeliverView(net[i], rest)
  <2>1. ui' = new /\ net' = rest
    BY <1>3, <1>5 DEF Decisions!DeliverView
  <2> QED
    BY <1>2, <1>4, <2>1 DEF ViewsInv
<1>6. CASE Decisions!DeliverTimeline(net[i], rest)
  <2>1. PICK r : r = net[i]
    OBVIOUS
  <2> DEFINE First == IF r.ok /\ r.arg.none /\ r.val[1].items # <<>> THEN <<r.val[1].items[1]>>
                      ELSE ui.selected
  <2>2. PICK first : first = First
    OBVIOUS
  <2>3. first = ui.selected \/ (first # <<>> /\ first = <<first[1]>>)
    BY <2>2
  <2>4. PICK view : view = [new EXCEPT !.selected = first]
    OBVIOUS
  <2>5. \/ first = ui.selected /\ ui' = view /\ net' = rest
        \/ /\ first # ui.selected
           /\ ui' = Decisions!AfterSelection(view) /\ net' = rest \o Decisions!SelectionRuns(view)
    BY <1>3, <1>6, <2>1, <2>2, <2>4 DEF Decisions!DeliverTimeline
  <2>6. /\ DOMAIN view = DOMAIN new /\ view.filter = new.filter /\ view.page = new.page
        /\ view.data = new.data /\ view.selected = first /\ view.loading = new.loading
    BY <1>4, <2>4 DEF ViewTyped
  <2> HIDE DEF First
  <2>7. CASE first = ui.selected
    <3>1. SameControls(view, new) /\ ui' = view /\ net' = rest
      BY <1>4, <2>5, <2>6, <2>7 DEF SameControls
    <3>2. ViewTyped(view)
      BY <1>4, <3>1 DEF ViewTyped, SameControls
    <3>3. LastWanted(rest, new) => LastWanted(rest, view)
      BY <3>1 DEF LastWanted, Wanted, SameControls
    <3>4. Settled(rest, new) => Settled(rest, view)
      BY <3>1 DEF Settled, Fits, SameControls
    <3> QED
      BY <1>2, <1>4, <3>1, <3>2, <3>3, <3>4 DEF ViewsInv
  <2>8. CASE first # ui.selected
    <3>1. ViewTyped(view) /\ view.selected # <<>>
      BY <1>4, <2>3, <2>6, <2>8 DEF ViewTyped
    <3>2. Reloaded(rest, new, Decisions!SelectionRuns(view), Decisions!AfterSelection(view))
      BY <1>4, <3>1, ViewsReloaded
    <3>3. ui' = Decisions!AfterSelection(view) /\ net' = rest \o Decisions!SelectionRuns(view)
      BY <2>5, <2>8
    <3> QED
      BY <1>2, <1>4, <3>2, <3>3 DEF ViewsInv, Reloaded
  <2> QED
    BY <2>7, <2>8
<1> QED
  BY <1>1, <1>3, <1>5, <1>6

\* A request that fails still answers for the controls it captured, with nothing.
LEMMA ViewFails ==
  ASSUME ViewsInv, Decisions!RequestFails
  PROVE  ViewsInv'
<1>1. PICK i \in DOMAIN net : net' = Decisions!Refused(i)
  BY DEF Decisions!RequestFails
<1>2. ui' = ui /\ wire' = wire
  BY DEF Decisions!RequestFails
<1>3. InFlight(net) /\ \A k \in DOMAIN net : ViewRequest(net[k])
  BY DEF ViewsInv, ViewRequests
<1>4. PICK n : n = net'
  OBVIOUS
<1>5. PICK none : none = <<>>
  OBVIOUS
<1>12. PICK okay \in BOOLEAN : okay = FALSE
  OBVIOUS
<1>6. n = Answer(net, i, okay, none)
  BY <1>1, <1>4, <1>5, <1>12 DEF Answer, Decisions!Refused, Decisions!Null
<1>7. /\ InFlight(n)
      /\ DOMAIN net = 1..Len(net) /\ DOMAIN n = 1..Len(net)
      /\ \A j \in 1..Len(net) : j # i => n[j] = net[j]
      /\ n[i] = [op |-> net[i].op, arg |-> net[i].arg, back |-> TRUE, ok |-> okay, val |-> none]
  BY <1>3, <1>6, Answered
<1>8. /\ DOMAIN n = DOMAIN net
      /\ \A j \in DOMAIN net : n[j].op = net[j].op /\ n[j].arg = net[j].arg
      /\ n[i].ok = FALSE
  BY <1>7, <1>12
<1>9. ViewRequests(n)
  <2>1. ASSUME NEW j \in DOMAIN n
        PROVE  ViewRequest(n[j])
    <3>1. CASE j = i
      BY <1>3, <1>8, <3>1 DEF ViewRequest
    <3>2. CASE j # i
      BY <1>3, <1>7, <3>2
    <3> QED
      BY <3>1, <3>2
  <2> QED
    BY <1>7, <2>1 DEF ViewRequests
<1>10. LastWanted(net, ui) => LastWanted(n, ui)
  BY <1>8 DEF LastWanted, Wanted
<1>11. Settled(net, ui) => Settled(n, ui)
  BY <1>8 DEF Settled
<1> QED
  BY <1>2, <1>4, <1>9, <1>10, <1>11 DEF ViewsInv

\* Every step of the page keeps its loads and its controls together.
LEMMA ViewsKeep ==
  ASSUME ListsApart, ViewsInv, Decisions!DecisionsNext \/ UNCHANGED <<ui, net, db, wire>>
  PROVE  ViewsInv'
<1>1. CASE UNCHANGED <<ui, net, db, wire>>
  BY <1>1 DEF ViewsInv
<1> QED
  BY <1>1, FilterTyped, PageTurned, FiltersApplied, DecisionSelected, ViewsDelivered, ViewFails
    DEF Decisions!DecisionsNext, ListSet

\* The page mounts with the loads of every list.
LEMMA ViewsStart ==
  ASSUME ListsApart, Decisions!DecisionsInit
  PROVE  ViewsInv
<1>1. PICK first :
        LET view == [filter |-> first, page |-> [l \in ListSet |-> 1],
                     data |-> [v \in Decisions!Views |-> Decisions!Null], selected |-> Decisions!Null,
                     loading |-> [v \in Decisions!Views |-> FALSE],
                     error |-> [v \in Decisions!Views |-> FALSE], clicks |-> 0]
        IN  ui = Decisions!AfterFilter(view) /\ net = Decisions!FilterRuns(view)
  BY DEF Decisions!DecisionsInit, ListSet
<1>2. PICK none : none = <<>>
  OBVIOUS
<1>3. PICK p, d, l : /\ p = [x \in ListSet |-> 1] /\ d = [v \in Decisions!Views |-> none]
                     /\ l = [v \in Decisions!Views |-> FALSE]
  OBVIOUS
<1>4. PICK view : view = [filter |-> first, page |-> p, data |-> d, selected |-> none,
                          loading |-> l, error |-> l, clicks |-> 0]
  OBVIOUS
<1>5. ui = Decisions!AfterFilter(view) /\ net = Decisions!FilterRuns(view)
  BY <1>1, <1>2, <1>3, <1>4 DEF Decisions!Null
<1>6. ViewTyped(view)
  BY <1>2, <1>3, <1>4 DEF ViewTyped
<1>7. Covering(net, view)
  BY <1>5, <1>6, ListsCovered DEF ListsApart, Decisions!FilterRuns
<1>8. DOMAIN none = {} /\ InFlight(none)
  BY <1>2, EmptySeq, SeqOfRange DEF InFlight
<1>9. ViewRequests(none) /\ LastWanted(none, view)
  BY <1>8 DEF ViewRequests, LastWanted
<1>10. Settled(none, view)
  BY <1>2, <1>3, <1>4 DEF Settled, Fits
<1>11. Reloaded(none, view, net, ui)
  BY <1>5, <1>6, <1>7, <1>9, ListsReloaded
<1>12. none \o net = net
  <2>1. net \in Seq(Range(net))
    BY <1>7 DEF Covering, ViewRequests, InFlight
  <2> QED
    BY <1>2, <2>1, ConcatEmptySeq
<1> QED
  BY <1>9, <1>10, <1>11, <1>12 DEF Reloaded, ViewsInv

\* Once every answer has come, the views are those of the controls.
LEMMA ViewsHold ==
  ASSUME ViewsInv
  PROVE  Decisions!ViewsMatchControls
<1> SUFFICES ASSUME wire = "ordered", net = <<>>
             PROVE  /\ \A v \in Decisions!Views : ~ui.loading[v]
                    /\ \A v \in Decisions!Views : Fits(v, ui)
  BY DEF Decisions!ViewsMatchControls, Decisions!DetailOf, Decisions!Null, Fits, Decisions!Views,
         ListSet, DetailSet
<1>1. DOMAIN net = {}
  OBVIOUS
<1> QED
  BY <1>1 DEF ViewsInv, Settled

----------------------------------------------------------------------------
(* The decision explorer and the inspector.  Each load of the explorer asks *)
(* for a page and for a summary; with answers in order the loads in flight  *)
(* are pairs, the first of which may have lost its page to the halves kept, *)
(* and the last of them captured the filters shown.                         *)

\* An answer is of what its request captured.
RecordRequest(r) ==
  /\ r.ok => r.val = <<r.val[1]>>
  /\ r.ok /\ r.op \in {"records", "summary"} => r.val[1].of = r.arg.filter
  /\ r.ok /\ r.op = "records" => r.val[1].page = r.arg.page
  /\ r.op = "inspect" /\ r.val # <<>> => r.val[1].id = r.arg

RecordRequests(q) == InFlight(q) /\ \A k \in DOMAIN q : RecordRequest(q[k])

\* A screen has its parts.
ScreenTyped(view) ==
  /\ {"screen", "filter", "records", "summary", "page", "loading", "error", "loads", "halves",
      "decision", "data"} \subseteq DOMAIN view
  /\ view.loads \in Nat

\* Loads are numbered in their order, two requests to each.
InPairs(q) ==
  /\ \A k \in DOMAIN q : q[k].op = "records" =>
       k + 1 \in DOMAIN q /\ q[k + 1].op = "summary" /\ q[k + 1].arg = q[k].arg
  /\ \A k \in DOMAIN q : q[k].op = "summary" /\ k + 1 \in DOMAIN q => q[k + 1].op = "records"
  /\ \A j, k \in DOMAIN q : j < k =>
       \/ q[j].arg.load < q[k].arg.load
       \/ k = j + 1 /\ q[j].op = "records" /\ q[k].arg = q[j].arg

\* The last load is the page's own, and captured its filters.
LastLoad(q, view) ==
  /\ \A k \in DOMAIN q : /\ q[k].op \in {"records", "summary"}
                         /\ q[k].arg.load \in Nat /\ q[k].arg.load <= view.loads
                         /\ q[k].arg.load = view.loads => q[k].arg.filter = view.filter
  /\ \A k \in DOMAIN q : k + 1 \notin DOMAIN q => q[k].arg.load = view.loads

\* The page of the load whose summary is awaited is kept, and no other.
HalfKept(q, view) ==
  IF 1 \in DOMAIN q /\ q[1].op = "summary"
  THEN \E v : /\ view.halves = {[load |-> q[1].arg.load, val |-> v]}
              /\ v = <<v[1]>> /\ v[1].of = q[1].arg.filter /\ v[1].page = q[1].arg.page
  ELSE view.halves = {}

\* With no load on its way the rows and the summary are those of the filters shown.
LoadShown(q, view) ==
  DOMAIN q = {} /\ ~view.error =>
    /\ view.records # <<>> /\ view.records[1].of = view.filter /\ view.page = view.records[1].page
    /\ view.summary # <<>> /\ view.summary[1].of = view.filter

Explored(q, view) == InPairs(q) /\ LastLoad(q, view) /\ HalfKept(q, view) /\ LoadShown(q, view)

\* The inspector waits for its own decision only.
Inspected(q, view) ==
  /\ \A k \in DOMAIN q : q[k].op = "inspect" /\ q[k].arg = view.decision
  /\ view.data # <<>> => view.data[1].id = view.decision

Screens(q, view, order) ==
  /\ RecordRequests(q) /\ ScreenTyped(view)
  /\ view.screen = "explorer" => /\ \A k \in DOMAIN q : q[k].op \in {"records", "summary"}
                                 /\ order = "ordered" => Explored(q, view)
  /\ view.screen = "inspector" => Inspected(q, view)

ScreenInv == Screens(net, ui, wire)

\* A request that is issued has no answer yet.
LEMMA RecordIssued ==
  ASSUME NEW q, RecordRequests(q), NEW op, NEW arg
  PROVE  LET n == Records!Issue(q, op, arg) IN
         /\ RecordRequests(n)
         /\ Len(q) \in Nat /\ DOMAIN q = 1..Len(q) /\ DOMAIN n = 1..(Len(q) + 1) /\ Len(n) = Len(q) + 1
         /\ \A j \in 1..Len(q) : n[j] = q[j]
         /\ n[Len(q) + 1].op = op /\ n[Len(q) + 1].arg = arg
<1>1. PICK none : none = <<>>
  OBVIOUS
<1>2. PICK r : r = [op |-> op, arg |-> arg, back |-> FALSE, ok |-> FALSE, val |-> none]
  OBVIOUS
<1>3. r = Records!NewRequest(op, arg)
  BY <1>1, <1>2 DEF Records!NewRequest, Records!Null
<1>4. IsRequest(r) /\ RecordRequest(r) /\ r.op = op /\ r.arg = arg
  BY <1>1, <1>2 DEF IsRequest, RecordRequest
<1>5. PICK n : n = Append(q, r)
  OBVIOUS
<1>6. InFlight(q) /\ \A j \in DOMAIN q : RecordRequest(q[j])
  BY DEF RecordRequests
<1>7. /\ InFlight(n) /\ Len(q) \in Nat /\ DOMAIN q = 1..Len(q) /\ DOMAIN n = 1..(Len(q) + 1)
      /\ Len(n) = Len(q) + 1
      /\ \A j \in 1..Len(q) : n[j] = q[j]
      /\ n[Len(q) + 1] = r
  BY <1>4, <1>5, <1>6, Issued
<1>8. ASSUME NEW j \in DOMAIN n
      PROVE  RecordRequest(n[j])
  <2>1. CASE j = Len(q) + 1
    BY <1>4, <1>7, <2>1
  <2>2. CASE j \in 1..Len(q)
    BY <1>6, <1>7, <2>2
  <2> QED
    BY <1>7, <2>1, <2>2
<1>9. RecordRequests(n)
  BY <1>7, <1>8 DEF RecordRequests
<1> QED
  BY <1>3, <1>4, <1>5, <1>7, <1>9 DEF Records!Issue

\* A load of the explorer is the last one, of the filters it captured.
LEMMA LoadStarted ==
  ASSUME NEW q, RecordRequests(q), \A k \in DOMAIN q : q[k].op \in {"records", "summary"},
         NEW old, ScreenTyped(old), NEW view, view.loads = old.loads + 1, view.halves = old.halves,
         NEW arg, arg.load = old.loads + 1, arg.filter = view.filter
  PROVE  LET n == Records!Issue(Records!Issue(q, "records", arg), "summary", arg) IN
         /\ RecordRequests(n)
         /\ \A k \in DOMAIN n : n[k].op \in {"records", "summary"}
         /\ InPairs(q) /\ LastLoad(q, old) /\ HalfKept(q, old) => Explored(n, view)
<1>1. PICK m : m = Records!Issue(q, "records", arg)
  OBVIOUS
<1>2. PICK n : n = Records!Issue(m, "summary", arg)
  OBVIOUS
<1>3. PICK c : c = Len(q)
  OBVIOUS
<1>4. /\ RecordRequests(m)
      /\ c \in Nat /\ DOMAIN q = 1..c /\ DOMAIN m = 1..(c + 1) /\ Len(m) = c + 1
      /\ \A j \in 1..c : m[j] = q[j]
      /\ m[c + 1].op = "records" /\ m[c + 1].arg = arg
  BY <1>1, <1>3, RecordIssued
<1>5. /\ RecordRequests(n)
      /\ DOMAIN n = 1..(c + 2)
      /\ \A j \in 1..(c + 1) : n[j] = m[j]
      /\ n[c + 2].op = "summary" /\ n[c + 2].arg = arg
  <2>1. /\ RecordRequests(n)
        /\ DOMAIN n = 1..(Len(m) + 1)
        /\ \A j \in 1..Len(m) : n[j] = m[j]
        /\ n[Len(m) + 1].op = "summary" /\ n[Len(m) + 1].arg = arg
    BY <1>2, <1>4, RecordIssued
  <2>2. (c + 1) + 1 = c + 2
    BY <1>4
  <2> QED
    BY <1>4, <2>1, <2>2
<1>6. /\ \A j \in 1..c : n[j] = q[j]
      /\ n[c + 1].op = "records" /\ n[c + 1].arg = arg
  BY <1>4, <1>5
<1>7. \A k \in DOMAIN n : k \in 1..c \/ k = c + 1 \/ k = c + 2
  BY <1>4, <1>5
<1>8. \A k \in DOMAIN n : n[k].op \in {"records", "summary"}
  BY <1>4, <1>5, <1>6, <1>7
<1>9. ASSUME InPairs(q), LastLoad(q, old), HalfKept(q, old)
      PROVE  Explored(n, view)
  <2>1. \A k \in DOMAIN n : n[k].op = "records" =>
          k + 1 \in DOMAIN n /\ n[k + 1].op = "summary" /\ n[k + 1].arg = n[k].arg
    BY <1>4, <1>5, <1>6, <1>7, <1>9 DEF InPairs
  <2>2. \A k \in DOMAIN n : n[k].op = "summary" /\ k + 1 \in DOMAIN n => n[k + 1].op = "records"
    <3> SUFFICES ASSUME NEW k \in DOMAIN n, n[k].op = "summary", k + 1 \in DOMAIN n
                 PROVE  n[k + 1].op = "records"
      OBVIOUS
    <3>1. k \in 1..c
      BY <1>4, <1>5, <1>6, <1>7
    <3>2. CASE k + 1 \in 1..c
      BY <1>4, <1>6, <1>9, <3>1, <3>2 DEF InPairs
    <3>3. CASE k + 1 = c + 1
      BY <1>6, <3>3
    <3> QED
      BY <1>4, <3>1, <3>2, <3>3
  <2>3. \A k \in DOMAIN n : /\ n[k].arg.load \in Nat /\ n[k].arg.load <= view.loads
                            /\ k \in 1..c => n[k].arg.load < view.loads
                            /\ k \notin 1..c => n[k].arg = arg
    BY <1>4, <1>5, <1>6, <1>7, <1>9 DEF LastLoad, ScreenTyped
  <2>4. ASSUME NEW j \in DOMAIN n, NEW k \in DOMAIN n, j < k
        PROVE  \/ n[j].arg.load < n[k].arg.load
               \/ k = j + 1 /\ n[j].op = "records" /\ n[k].arg = n[j].arg
    <3>1. CASE k \in 1..c
      <4>1. j \in 1..c
        BY <1>4, <1>5, <2>4, <3>1
      <4> QED
        BY <1>4, <1>6, <1>9, <2>4, <3>1, <4>1 DEF InPairs
    <3>2. CASE k \notin 1..c /\ j \in 1..c
      BY <2>3, <3>2
    <3>3. CASE k \notin 1..c /\ j \notin 1..c
      <4>1. j = c + 1 /\ k = c + 2
        BY <1>4, <1>7, <2>4, <3>3
      <4> QED
        BY <1>4, <1>5, <1>6, <4>1
    <3> QED
      BY <3>1, <3>2, <3>3
  <2>5. InPairs(n)
    BY <2>1, <2>2, <2>4 DEF InPairs
  <2>6. LastLoad(n, view)
    <3>1. ASSUME NEW k \in DOMAIN n
          PROVE  n[k].arg.load = view.loads => n[k].arg.filter = view.filter
      BY <2>3 DEF ScreenTyped
    <3>2. ASSUME NEW k \in DOMAIN n, k + 1 \notin DOMAIN n
          PROVE  n[k].arg.load = view.loads
      <4>1. k = c + 2
        BY <1>4, <1>5, <1>7, <3>2
      <4> QED
        BY <1>5, <4>1
    <3> QED
      BY <1>8, <2>3, <3>1, <3>2 DEF LastLoad
  <2>7. HalfKept(n, view)
    <3>1. CASE c = 0
      <4>1. 1 \notin DOMAIN q /\ n[1].op = "records"
        BY <1>4, <1>6, <3>1
      <4> QED
        BY <1>9, <4>1 DEF HalfKept
    <3>2. CASE c # 0
      <4>1. 1 \in DOMAIN q /\ 1 \in DOMAIN n /\ n[1] = q[1]
        BY <1>4, <1>5, <1>6, <3>2
      <4> QED
        BY <1>9, <4>1 DEF HalfKept
    <3> QED
      BY <3>1, <3>2
  <2>8. 1 \in DOMAIN n
    BY <1>4, <1>5
  <2> QED
    BY <2>5, <2>6, <2>7, <2>8 DEF Explored, LoadShown
<1> QED
  BY <1>1, <1>2, <1>5, <1>8, <1>9

\* The last of a sequence, kept from a place on.
LEMMA KeptTail ==
  ASSUME NEW s, NEW n \in Nat, NEW a \in 1..(n + 1)
  PROVE  LET m == Live!Kept(s, a..n) IN
         DOMAIN m = 1..(n - a + 1) /\ \A k \in 1..(n - a + 1) : m[k] = s[k + a - 1]
<1> DEFINE I == a..n
<1>1. Cardinality(I) = n - a + 1
  <2>1. Cardinality(a..n) = IF a > n THEN 0 ELSE n - a + 1
    BY FS_Interval
  <2> QED
    BY <2>1
<1>2. ASSUME NEW i \in I
      PROVE  Live!Before(I, i) = i - a + 1
  <2>1. {j \in I : j <= i} = a..i
    OBVIOUS
  <2>2. Cardinality(a..i) = IF a > i THEN 0 ELSE i - a + 1
    BY FS_Interval
  <2>3. Cardinality(a..i) = i - a + 1
    BY <2>2
  <2>4. Live!Before(I, i) = Cardinality({j \in I : j <= i})
    BY SameCount DEF Live!Before
  <2> QED
    BY <2>1, <2>3, <2>4
<1>3. DOMAIN Live!Kept(s, I) = 1..(n - a + 1)
  BY <1>1, SameCount DEF Live!Kept
<1>4. ASSUME NEW k \in 1..(n - a + 1)
      PROVE  Live!Kept(s, I)[k] = s[k + a - 1]
  <2>1. Live!Kept(s, I)[k] = s[CHOOSE i \in I : Live!Before(I, i) = k]
    BY <1>1, <1>4, SameCount DEF Live!Kept
  <2>2. k + a - 1 \in I /\ (k + a - 1) - a + 1 = k /\ \A i \in I : i - a + 1 = k => i = k + a - 1
    OBVIOUS
  <2> HIDE DEF I
  <2>3. Live!Before(I, k + a - 1) = k /\ \A i \in I : Live!Before(I, i) = k => i = k + a - 1
    BY <1>2, <2>2
  <2>4. (CHOOSE i \in I : Live!Before(I, i) = k) = k + a - 1
    BY <2>2, <2>3
  <2> QED
    BY <2>1, <2>4
<1> QED
  BY <1>3, <1>4

\* The records screens keep their sequences as this module does.
LEMMA SameRecordsKept == \A s, I : Records!Kept(s, I) = Live!Kept(s, I)
BY DEF Records!Kept, Live!Kept, Records!Before, Live!Before, Records!Cardinality, Live!Cardinality

\* What is left when the first requests went is in pairs still.
LEMMA PairsLeft ==
  ASSUME NEW q, NEW n, NEW c \in Nat, NEW d \in 1..c, DOMAIN q = 1..c, DOMAIN n = 1..(c - d),
         \A k \in 1..(c - d) : n[k] = q[k + d],
         NEW old, NEW new, new.loads = old.loads, new.filter = old.filter,
         InPairs(q), LastLoad(q, old)
  PROVE  InPairs(n) /\ LastLoad(n, new)
<1>1. \A k \in DOMAIN n : k + d \in DOMAIN q /\ n[k] = q[k + d] /\ (k + 1) + d = (k + d) + 1
  OBVIOUS
<1>2. \A k \in DOMAIN n : k + 1 \in DOMAIN n <=> (k + d) + 1 \in DOMAIN q
  OBVIOUS
<1>3. \A k \in DOMAIN n : k + 1 \in DOMAIN n => n[k + 1] = q[(k + d) + 1]
  BY <1>1
<1>4. \A j, k \in DOMAIN n : /\ j < k => j + d < k + d
                             /\ k + d = (j + d) + 1 => k = j + 1
  OBVIOUS
<1>5. InPairs(n)
  <2>1. \A k \in DOMAIN n : n[k].op = "records" =>
          k + 1 \in DOMAIN n /\ n[k + 1].op = "summary" /\ n[k + 1].arg = n[k].arg
    <3> SUFFICES ASSUME NEW k \in DOMAIN n, n[k].op = "records"
                 PROVE  k + 1 \in DOMAIN n /\ n[k + 1].op = "summary" /\ n[k + 1].arg = n[k].arg
      OBVIOUS
    <3>1. PICK x \in DOMAIN q : x = k + d
      BY <1>1
    <3>2. /\ n[k] = q[x]
          /\ k + 1 \in DOMAIN n <=> x + 1 \in DOMAIN q
          /\ k + 1 \in DOMAIN n => n[k + 1] = q[x + 1]
      BY <1>1, <1>2, <1>3, <3>1
    <3> QED
      BY <3>2 DEF InPairs
  <2>2. \A k \in DOMAIN n : n[k].op = "summary" /\ k + 1 \in DOMAIN n => n[k + 1].op = "records"
    <3> SUFFICES ASSUME NEW k \in DOMAIN n, n[k].op = "summary", k + 1 \in DOMAIN n
                 PROVE  n[k + 1].op = "records"
      OBVIOUS
    <3>1. PICK x \in DOMAIN q : x = k + d
      BY <1>1
    <3>2. n[k] = q[x] /\ x + 1 \in DOMAIN q /\ n[k + 1] = q[x + 1]
      BY <1>1, <1>2, <1>3, <3>1
    <3> QED
      BY <3>2 DEF InPairs
  <2>3. ASSUME NEW j \in DOMAIN n, NEW k \in DOMAIN n, j < k
        PROVE  \/ n[j].arg.load < n[k].arg.load
               \/ k = j + 1 /\ n[j].op = "records" /\ n[k].arg = n[j].arg
    <3>1. PICK x \in DOMAIN q : x = j + d
      BY <1>1
    <3>2. PICK y \in DOMAIN q : y = k + d
      BY <1>1
    <3>3. n[j] = q[x] /\ n[k] = q[y] /\ x < y /\ (y = x + 1 => k = j + 1)
      BY <1>1, <1>4, <2>3, <3>1, <3>2
    <3> QED
      BY <3>3 DEF InPairs
  <2> QED
    BY <2>1, <2>2, <2>3 DEF InPairs
<1>6. LastLoad(n, new)
  BY SMTT(30), <1>1, <1>2 DEF LastLoad
<1> QED
  BY <1>5, <1>6

\* A half is taken: the requests left are some of those there were, and the
\* screen, its filters and its loads stay.
LEMMA HalfTaken ==
  ASSUME RecordRequests(net), ScreenTyped(ui), NEW i \in DOMAIN net, Records!DeliverHalf(i)
  PROVE  /\ RecordRequests(net')
         /\ \A k \in DOMAIN net' : \E j \in DOMAIN net : net'[k] = net[j]
         /\ DOMAIN ui' = DOMAIN ui /\ ui'.screen = ui.screen /\ ui'.filter = ui.filter
         /\ ui'.loads = ui.loads /\ (ui'.error = ui.error \/ ui'.error = TRUE)
<1>1. PICK rest : rest = Records!Handled(i)
  OBVIOUS
<1>2. rest = Without(net, i)
  BY <1>1 DEF Records!Handled, Records!RemoveAt, Without
<1>3. InFlight(net) /\ \A k \in DOMAIN net : RecordRequest(net[k])
  BY DEF RecordRequests
<1>4. /\ InFlight(rest) /\ Len(net) \in Nat /\ DOMAIN net = 1..Len(net)
      /\ DOMAIN rest = 1..(Len(net) - 1)
      /\ \A j \in 1..(Len(net) - 1) : rest[j] = net[IF j < i THEN j ELSE j + 1]
  BY <1>2, <1>3, Removed
<1>5. \A k \in DOMAIN rest : \E j \in DOMAIN net : rest[k] = net[j]
  BY <1>4
<1> DEFINE I == {j \in DOMAIN rest : rest[j].arg.load # net[i].arg.load}
<1>6. PICK n : n = net'
  OBVIOUS
<1>7. n = rest \/ n = Live!Kept(rest, I)
  BY <1>1, <1>6, SameRecordsKept DEF Records!DeliverHalf
<1>8. /\ n \in Seq(Range(n))
      /\ \A k \in DOMAIN n : \E j \in DOMAIN rest : n[k] = rest[j]
  <2>1. CASE n = rest
    BY <1>4, <2>1 DEF InFlight
  <2>2. CASE n = Live!Kept(rest, I)
    <3>1. I \in SUBSET DOMAIN rest /\ rest \in Seq(Range(rest))
      BY <1>4 DEF InFlight
    <3> HIDE DEF I
    <3>2. n \in Seq(Range(n)) /\ Enumerated(n, rest, I)
      BY <2>2, <3>1, KeptEntries
    <3> QED
      BY <3>1, <3>2 DEF Enumerated
  <2> QED
    BY <1>7, <2>1, <2>2
<1>9. \A k \in DOMAIN n : \E j \in DOMAIN net : n[k] = net[j]
  BY <1>5, <1>8
<1>10. RecordRequests(n)
  BY <1>3, <1>8, <1>9 DEF RecordRequests, InFlight
<1>11. /\ DOMAIN ui' = DOMAIN ui /\ ui'.screen = ui.screen /\ ui'.filter = ui.filter
       /\ ui'.loads = ui.loads /\ (ui'.error = ui.error \/ ui'.error = TRUE)
  <2> DEFINE r == net[i]
             other == {h \in ui.halves : h.load = r.arg.load}
             value(op) == IF r.op = op THEN r.val ELSE (CHOOSE h \in other : TRUE).val
  <2> HIDE DEF r, other, value
  <2>3. PICK a : a = value("records")
    OBVIOUS
  <2>4. PICK b : b = value("summary")
    OBVIOUS
  <2>5. PICK p : p = r.arg.page
    OBVIOUS
  <2>6. PICK h : h = ui.halves \ other
    OBVIOUS
  <2>7. PICK g : g = ui.halves \cup {[load |-> r.arg.load, val |-> r.val]}
    OBVIOUS
  <2>8. PICK f : f = Records!Null
    OBVIOUS
  <2>2. \/ ui' = [ui EXCEPT !.error = TRUE, !.loading = FALSE, !.records = f, !.summary = f, !.halves = h]
        \/ ui' = [ui EXCEPT !.halves = g]
        \/ ui' = [ui EXCEPT !.records = a, !.summary = b, !.page = p, !.loading = FALSE, !.halves = h]
    <3>1. /\ ~r.ok => ui' = [ui EXCEPT !.error = TRUE, !.loading = FALSE, !.records = Records!Null,
                                       !.summary = Records!Null, !.halves = @ \ other]
          /\ r.ok => ui' = IF other = {}
                           THEN [ui EXCEPT !.halves = @ \cup {[load |-> r.arg.load, val |-> r.val]}]
                           ELSE [ui EXCEPT !.records = value("records"), !.summary = value("summary"),
                                           !.page = r.arg.page, !.loading = FALSE, !.halves = @ \ other]
      BY DEF Records!DeliverHalf, r, other, value
    <3> QED
      BY <2>3, <2>4, <2>5, <2>6, <2>7, <2>8, <3>1
  <2> QED
    BY <2>2 DEF ScreenTyped
<1> QED
  BY <1>6, <1>9, <1>10, <1>11

\* With answers in order the half is of the first load: its page is kept for its
\* summary, or shown with it, or the whole load has failed.
LEMMA HalfInOrder ==
  ASSUME RecordRequests(net), ScreenTyped(ui), 1 \in DOMAIN net, Explored(net, ui),
         Records!DeliverHalf(1)
  PROVE  Explored(net', ui')
<1>1. PICK rest : rest = Records!Handled(1)
  OBVIOUS
<1>2. rest = Without(net, 1)
  BY <1>1 DEF Records!Handled, Records!RemoveAt, Without
<1>3. InFlight(net) /\ \A k \in DOMAIN net : RecordRequest(net[k])
  BY DEF RecordRequests
<1>4. PICK c : c = Len(net)
  OBVIOUS
<1>5. /\ c \in Nat /\ DOMAIN net = 1..c
      /\ DOMAIN rest = 1..(c - 1)
      /\ \A j \in 1..(c - 1) : rest[j] = net[j + 1]
  BY <1>2, <1>3, <1>4, Removed
<1>6. PICK r : r = net[1]
  OBVIOUS
<1>7. /\ r.op \in {"records", "summary"} /\ RecordRequest(r)
      /\ InPairs(net) /\ LastLoad(net, ui) /\ HalfKept(net, ui) /\ LoadShown(net, ui)
      /\ {"filter", "records", "summary", "page", "loading", "error", "halves", "loads"} \subseteq DOMAIN ui
  BY <1>3, <1>6 DEF Explored, LastLoad, ScreenTyped
<1> DEFINE I == {j \in DOMAIN rest : rest[j].arg.load # r.arg.load}
           other == {h \in ui.halves : h.load = r.arg.load}
           value(op) == IF r.op = op THEN r.val ELSE (CHOOSE h \in other : TRUE).val
<1>8. IF ~r.ok
      THEN /\ ui' = [ui EXCEPT !.error = TRUE, !.loading = FALSE, !.records = Records!Null,
                               !.summary = Records!Null, !.halves = @ \ other]
           /\ net' = Live!Kept(rest, I)
      ELSE /\ net' = rest
           /\ ui' = IF other = {}
                    THEN [ui EXCEPT !.halves = @ \cup {[load |-> r.arg.load, val |-> r.val]}]
                    ELSE [ui EXCEPT !.records = value("records"), !.summary = value("summary"),
                                    !.page = r.arg.page, !.loading = FALSE, !.halves = @ \ other]
  BY <1>1, <1>6, SameRecordsKept DEF Records!DeliverHalf
<1>9. DOMAIN ui' = DOMAIN ui /\ ui'.filter = ui.filter /\ ui'.loads = ui.loads
  BY HalfTaken
<1> HIDE DEF I
<1>10. ASSUME r.op = "records"
       PROVE  2 \in DOMAIN net /\ net[2].op = "summary" /\ net[2].arg = r.arg
  BY <1>6, <1>7, <1>10 DEF InPairs
<1>11. ASSUME NEW j \in DOMAIN net, j > 2 \/ (j > 1 /\ r.op = "summary")
       PROVE  net[j].arg.load # r.arg.load
  <2>1. r.arg.load < net[j].arg.load
    BY <1>5, <1>6, <1>7, <1>11 DEF InPairs
  <2>2. r.arg.load \in Nat /\ net[j].arg.load \in Nat
    BY <1>6, <1>7 DEF LastLoad
  <2> QED
    BY <2>1, <2>2
<1>12. CASE r.op = "records" /\ r.ok
  <2>1. ui.halves = {} /\ other = {}
    BY <1>6, <1>7, <1>12 DEF HalfKept
  <2>2. net' = rest /\ ui' = [ui EXCEPT !.halves = @ \cup {[load |-> r.arg.load, val |-> r.val]}]
    BY <1>8, <1>12, <2>1
  <2> HIDE DEF other, value
  <2>3. PICK v : v = r.val
    OBVIOUS
  <2>4. PICK H : H = {[load |-> r.arg.load, val |-> v]}
    OBVIOUS
  <2>5. ui'.halves = H
    BY <1>7, <2>1, <2>2, <2>3, <2>4
  <2>6. InPairs(net') /\ LastLoad(net', ui')
    <3>1. net' = rest
      BY <2>2
    <3> QED
      BY <1>5, <1>7, <1>9, <3>1, PairsLeft
  <2>7. 1 \in DOMAIN net' /\ net'[1].op = "summary" /\ net'[1].arg = r.arg
    BY <1>5, <1>10, <1>12, <2>2
  <2>8. v = <<v[1]>> /\ v[1].of = r.arg.filter /\ v[1].page = r.arg.page
    BY <1>7, <1>12, <2>3 DEF RecordRequest
  <2>9. HalfKept(net', ui')
    BY <2>4, <2>5, <2>7, <2>8 DEF HalfKept
  <2> QED
    BY <2>6, <2>7, <2>9 DEF Explored, LoadShown
<1>13. CASE r.op = "summary" /\ r.ok
  <2>1. PICK v : /\ ui.halves = {[load |-> r.arg.load, val |-> v]}
                 /\ v = <<v[1]>> /\ v[1].of = r.arg.filter /\ v[1].page = r.arg.page
    BY <1>6, <1>7, <1>13 DEF HalfKept
  <2>2. PICK h : h = [load |-> r.arg.load, val |-> v]
    OBVIOUS
  <2>3. ui.halves = {h} /\ h.load = r.arg.load /\ h.val = v
    BY <2>1, <2>2
  <2>4. other = {h} /\ (CHOOSE x \in other : TRUE) = h
    BY <2>3
  <2>5. value("records") = v /\ value("summary") = r.val
    BY <1>13, <2>3, <2>4
  <2>6. PICK b : b = r.val
    OBVIOUS
  <2>7. PICK p : p = r.arg.page
    OBVIOUS
  <2>8. PICK none : none = ui.halves \ other /\ none = {}
    BY <2>3, <2>4
  <2>9. net' = rest /\ ui' = [ui EXCEPT !.records = v, !.summary = b, !.page = p,
                                        !.loading = FALSE, !.halves = none]
    BY <1>8, <1>13, <2>4, <2>5, <2>6, <2>7, <2>8
  <2> HIDE DEF other, value
  <2>10. ui'.records = v /\ ui'.summary = b /\ ui'.page = p /\ ui'.halves = {}
    BY <1>7, <2>8, <2>9
  <2>11. InPairs(net') /\ LastLoad(net', ui')
    <3>1. net' = rest
      BY <2>9
    <3> QED
      BY <1>5, <1>7, <1>9, <3>1, PairsLeft
  <2>12. HalfKept(net', ui')
    <3>1. ASSUME 1 \in DOMAIN net'
          PROVE  net'[1].op = "records"
      BY <1>5, <1>6, <1>7, <1>13, <2>9, <3>1 DEF InPairs
    <3> QED
      BY <2>10, <3>1 DEF HalfKept
  <2>13. ASSUME DOMAIN net' = {}
         PROVE  r.arg.filter = ui.filter
    <3>1. 2 \notin DOMAIN net
      BY <1>5, <2>9, <2>13
    <3> QED
      BY <1>6, <1>7, <3>1 DEF LastLoad
  <2>14. v # <<>> /\ b # <<>> /\ b[1].of = r.arg.filter
    <3>1. b = <<b[1]>> /\ b[1].of = r.arg.filter
      BY <1>7, <1>13, <2>6 DEF RecordRequest
    <3> QED
      BY <2>1, <3>1
  <2>15. LoadShown(net', ui')
    BY <1>9, <2>1, <2>7, <2>10, <2>13, <2>14 DEF LoadShown
  <2> QED
    BY <2>11, <2>12, <2>15 DEF Explored
<1>14. CASE ~r.ok
  <2>1. PICK none : none = <<>>
    OBVIOUS
  <2>2. PICK H : H = ui.halves \ other
    OBVIOUS
  <2>3. H = {}
    <3>1. CASE r.op = "records"
      BY <1>6, <1>7, <2>2, <3>1 DEF HalfKept
    <3>2. CASE r.op = "summary"
      <4>1. PICK v : ui.halves = {[load |-> r.arg.load, val |-> v]}
        BY <1>6, <1>7, <3>2 DEF HalfKept
      <4> QED
        BY <2>2, <4>1
    <3> QED
      BY <1>7, <3>1, <3>2
  <2>4. ui' = [ui EXCEPT !.error = TRUE, !.loading = FALSE, !.records = none, !.summary = none,
                         !.halves = H]
    BY <1>8, <1>14, <2>1, <2>2 DEF Records!Null
  <2> HIDE DEF other, value
  <2>5. ui'.halves = {} /\ ui'.error = TRUE
    BY <1>7, <2>3, <2>4
  <2>6. PICK d \in {1, 2} : d = IF r.op = "records" THEN 2 ELSE 1
    OBVIOUS
  <2>7. d <= c
    BY <1>5, <1>10, <2>6
  <2>8. I = d..(c - 1)
    <3>1. \A j \in 1..(c - 1) : rest[j].arg.load # r.arg.load <=> j >= d
      BY <1>5, <1>7, <1>10, <1>11, <2>6
    <3> QED
      BY <1>5, <2>6, <2>7, <3>1 DEF I
  <2>9. PICK b : b = c - 1
    OBVIOUS
  <2>10. b \in Nat /\ d \in 1..(b + 1) /\ b - d + 1 = c - d
    BY <1>5, <2>6, <2>7, <2>9
  <2>11. PICK n : n = Live!Kept(rest, d..b)
    OBVIOUS
  <2>17. net' = n
    BY <1>8, <1>14, <2>8, <2>9, <2>11
  <2>18. DOMAIN n = 1..(b - d + 1) /\ \A k \in 1..(b - d + 1) : n[k] = rest[k + d - 1]
    <3>1. b \in Nat /\ d \in 1..(b + 1)
      BY <2>10
    <3>2. /\ DOMAIN Live!Kept(rest, d..b) = 1..(b - d + 1)
          /\ \A k \in 1..(b - d + 1) : Live!Kept(rest, d..b)[k] = rest[k + d - 1]
      BY <3>1, KeptTail
    <3> QED
      BY <2>11, <3>2
  <2>12. DOMAIN net' = 1..(b - d + 1) /\ \A k \in 1..(b - d + 1) : net'[k] = rest[k + d - 1]
    BY <2>17, <2>18
  <2>13. DOMAIN net' = 1..(c - d) /\ \A k \in 1..(c - d) : net'[k] = net[k + d]
    BY <1>5, <2>6, <2>7, <2>10, <2>12
  <2>14. InPairs(net') /\ LastLoad(net', ui')
    <3>1. d \in 1..c
      BY <1>5, <2>6, <2>7
    <3> QED
      BY <1>5, <1>7, <1>9, <2>13, <3>1, PairsLeft
  <2>15. ASSUME 1 \in DOMAIN net'
         PROVE  net'[1].op = "records"
    <3>1. net'[1] = net[1 + d] /\ 1 + d \in DOMAIN net
      BY <1>5, <2>6, <2>7, <2>13, <2>15
    <3>2. net[d].op = "summary" /\ d \in DOMAIN net
      BY <1>5, <1>6, <1>7, <1>10, <2>6, <2>7
    <3>3. d + 1 = 1 + d
      BY <2>6
    <3> QED
      BY <1>7, <3>1, <3>2, <3>3 DEF InPairs
  <2>16. HalfKept(net', ui')
    BY <2>5, <2>15 DEF HalfKept
  <2> QED
    BY <2>5, <2>14, <2>16 DEF Explored, LoadShown
<1> QED
  BY <1>7, <1>12, <1>13, <1>14

\* An answer arrives or fails: what is asked for stays.
LEMMA RecordAnswered ==
  ASSUME ScreenInv, NEW i \in DOMAIN net, NEW okay \in BOOLEAN, NEW v,
         okay => v = <<v[1]>>,
         okay /\ net[i].op \in {"records", "summary"} => v[1].of = net[i].arg.filter,
         okay /\ net[i].op = "records" => v[1].page = net[i].arg.page,
         net[i].op = "inspect" /\ v # <<>> => v[1].id = net[i].arg,
         net' = Answer(net, i, okay, v), ui' = ui, wire' = wire
  PROVE  ScreenInv'
<1>1. InFlight(net) /\ \A k \in DOMAIN net : RecordRequest(net[k])
  BY DEF ScreenInv, Screens, RecordRequests
<1>2. PICK n : n = Answer(net, i, okay, v)
  OBVIOUS
<1>3. /\ InFlight(n)
      /\ DOMAIN net = 1..Len(net) /\ DOMAIN n = 1..Len(net)
      /\ \A j \in 1..Len(net) : j # i => n[j] = net[j]
      /\ n[i] = [op |-> net[i].op, arg |-> net[i].arg, back |-> TRUE, ok |-> okay, val |-> v]
  BY <1>1, <1>2, Answered
<1>4. /\ DOMAIN n = DOMAIN net
      /\ \A j \in DOMAIN net : n[j].op = net[j].op /\ n[j].arg = net[j].arg
      /\ n[i].ok = okay /\ n[i].val = v
  BY <1>3
<1>5. ASSUME NEW j \in DOMAIN n
      PROVE  RecordRequest(n[j])
  <2>1. CASE j = i
    BY <1>4, <2>1 DEF RecordRequest
  <2>2. CASE j # i
    BY <1>1, <1>3, <2>2
  <2> QED
    BY <2>1, <2>2
<1>6. RecordRequests(n)
  BY <1>3, <1>5 DEF RecordRequests
<1>7. Explored(net, ui) => Explored(n, ui)
  <2>1. InPairs(net) => InPairs(n)
    BY <1>4 DEF InPairs
  <2>2. LastLoad(net, ui) => LastLoad(n, ui)
    BY <1>4 DEF LastLoad
  <2>3. HalfKept(net, ui) => HalfKept(n, ui)
    BY <1>4 DEF HalfKept
  <2>4. LoadShown(net, ui) => LoadShown(n, ui)
    BY <1>4 DEF LoadShown
  <2> QED
    BY <2>1, <2>2, <2>3, <2>4 DEF Explored
<1>8. Inspected(net, ui) => Inspected(n, ui)
  BY <1>4 DEF Inspected
<1>9. Screens(n, ui, wire)
  BY <1>4, <1>6, <1>7, <1>8 DEF ScreenInv, Screens
<1> QED
  BY <1>2, <1>9 DEF ScreenInv

\* The API answers for what the request captured.
LEMMA RecordServed ==
  ASSUME ScreenInv, Records!Serve
  PROVE  ScreenInv'
<1>1. PICK i \in DOMAIN net : net' = Records!Served(i, Records!Payload(net[i]))
  BY DEF Records!Serve, Records!Servable
<1>2. ui' = ui /\ wire' = wire
  BY DEF Records!Serve
<1>3. PICK r : r = net[i]
  OBVIOUS
<1>4. PICK x : x = Records!Payload(r)
  OBVIOUS
<1>5. PICK v : v = <<x>>
  OBVIOUS
<1>6. v[1] = x /\ v = <<v[1]>>
  BY <1>5
<1>7. PICK okay \in BOOLEAN : okay = TRUE
  OBVIOUS
<1>8. net' = Answer(net, i, okay, v)
  BY <1>1, <1>3, <1>4, <1>5, <1>7 DEF Records!Served, Answer
<1>9. CASE r.op = "records"
  <2>1. x = Records!Records(r.arg)
    BY <1>4, <1>9 DEF Records!Payload
  <2>2. x.of = r.arg.filter /\ x.page = r.arg.page
    BY <2>1 DEF Records!Records
  <2> QED
    BY <1>2, <1>3, <1>6, <1>8, <1>9, <2>2, RecordAnswered
<1>10. CASE r.op = "summary"
  <2>1. x = Records!Summary(r.arg)
    BY <1>4, <1>10 DEF Records!Payload
  <2>2. x.of = r.arg.filter
    BY <2>1 DEF Records!Summary
  <2> QED
    BY <1>2, <1>3, <1>6, <1>8, <1>10, <2>2, RecordAnswered
<1>11. CASE r.op = "inspect"
  <2>1. PICK e : e = Evidence[db.decisions[r.arg]]
    OBVIOUS
  <2>2. x = [id |-> r.arg, evidence |-> e]
    BY <1>4, <1>11, <2>1 DEF Records!Payload
  <2>3. x.id = r.arg
    BY <2>2
  <2> QED
    BY <1>2, <1>3, <1>6, <1>8, <1>11, <2>3, RecordAnswered
<1>12. CASE r.op \notin {"records", "summary", "inspect"}
  BY <1>2, <1>3, <1>6, <1>8, <1>12, RecordAnswered
<1> QED
  BY <1>9, <1>10, <1>11, <1>12

\* A request that fails holds nothing.
LEMMA RecordFails ==
  ASSUME ScreenInv, Records!RequestFails
  PROVE  ScreenInv'
<1>1. PICK i \in DOMAIN net : net' = Records!Refused(i)
  BY DEF Records!RequestFails
<1>2. ui' = ui /\ wire' = wire
  BY DEF Records!RequestFails
<1>3. PICK none : none = <<>>
  OBVIOUS
<1>4. PICK okay \in BOOLEAN : okay = FALSE
  OBVIOUS
<1>5. net' = Answer(net, i, okay, none)
  BY <1>1, <1>3, <1>4 DEF Records!Refused, Records!Null, Answer
<1> QED
  BY <1>2, <1>3, <1>4, <1>5, RecordAnswered

\* A screen mounts: the explorer with its first load, the inspector with its
\* decision, the browser with nothing.
LEMMA ScreenMounted ==
  ASSUME NEW name \in {"explorer", "inspector", "browser"}, NEW n, NEW clicks, NEW order
  PROVE  Screens(Records!MountRequests(name, n), Records!Mounted(name, n, clicks), order)
<1>1. PICK none : none = <<>>
  OBVIOUS
<1>2. RecordRequests(none) /\ DOMAIN none = {}
  BY <1>1, EmptySeq, SeqOfRange DEF RecordRequests, InFlight
<1>3. PICK filter : filter = [action |-> Records!All, sort |-> "newest", size |-> DefaultSize]
  OBVIOUS
<1>4. PICK coach, learn :
        /\ coach = [loading |-> FALSE, error |-> FALSE, result |-> none]
        /\ learn = [loading |-> FALSE, error |-> FALSE, items |-> none]
  OBVIOUS
<1>5. PICK fresh : fresh = Records!NewScreen(name, n, clicks)
  OBVIOUS
<1>6. fresh = [screen |-> name, filter |-> filter,
               records |-> none, summary |-> none, page |-> 1, loading |-> FALSE, error |-> FALSE,
               loads |-> 0, halves |-> {},
               decision |-> n, data |-> none, clicks |-> clicks, coach |-> coach, learn |-> learn]
  BY <1>1, <1>3, <1>4, <1>5 DEF Records!NewScreen, Records!Null
<1>7. ScreenTyped(fresh) /\ fresh.screen = name /\ fresh.loads = 0 /\ fresh.halves = {} /\ fresh.data = none
      /\ fresh.decision = n /\ fresh.filter = filter
  BY <1>6 DEF ScreenTyped
<1>8. PICK started : started = Records!Starting(fresh)
  OBVIOUS
<1>9. /\ ScreenTyped(started) /\ started.screen = name /\ started.loads = 1 /\ started.halves = {}
      /\ started.data = none /\ started.decision = n /\ started.filter = filter
  BY <1>7, <1>8 DEF ScreenTyped, Records!Starting
<1>10. CASE name = "browser"
  <2>1. Records!MountRequests(name, n) = none /\ Records!Mounted(name, n, clicks) = fresh
    BY <1>1, <1>5, <1>10 DEF Records!MountRequests, Records!Mounted
  <2> QED
    BY <1>2, <1>7, <1>10, <2>1 DEF Screens
<1>11. CASE name = "inspector"
  <2>1. PICK q : q = Records!Issue(none, "inspect", n)
    OBVIOUS
  <2>2. Records!MountRequests(name, n) = q /\ Records!Mounted(name, n, clicks) = started
    BY <1>1, <1>5, <1>8, <1>11, <2>1 DEF Records!MountRequests, Records!Mounted
  <2>3. /\ RecordRequests(q) /\ Len(none) \in Nat /\ DOMAIN none = 1..Len(none)
        /\ DOMAIN q = 1..(Len(none) + 1)
        /\ q[Len(none) + 1].op = "inspect" /\ q[Len(none) + 1].arg = n
    <3>1. RecordRequests(none)
      BY <1>2
    <3> QED
      BY <2>1, <3>1, RecordIssued
  <2>4. Len(none) = 0
    BY <1>1
  <2>5. \A k \in DOMAIN q : q[k].op = "inspect" /\ q[k].arg = n
    BY <2>3, <2>4
  <2>6. Inspected(q, started)
    BY <1>1, <1>9, <2>5 DEF Inspected
  <2> QED
    BY <1>9, <1>11, <2>2, <2>3, <2>6 DEF Screens
<1>12. CASE name = "explorer"
  <2>1. PICK blank : blank = Records!NewScreen(name, n, 0)
    OBVIOUS
  <2>2. /\ blank.screen = "explorer" /\ blank.loads = 0 /\ blank.filter = filter
    BY <1>3, <1>12, <2>1 DEF Records!NewScreen
  <2>3. PICK size : size = Records!RowsPerPage(blank.filter.size)
    OBVIOUS
  <2>4. PICK arg : arg = [load |-> 1, filter |-> filter, page |-> 1, size |-> size]
    OBVIOUS
  <2>5. Records!Query(blank, 1) = arg
    BY <2>2, <2>3, <2>4 DEF Records!Query
  <2>6. PICK q : q = Records!Issue(Records!Issue(none, "records", arg), "summary", arg)
    OBVIOUS
  <2>7. Records!MountRequests(name, n) = q /\ Records!Mounted(name, n, clicks) = started
    BY <1>1, <1>5, <1>8, <1>12, <2>1, <2>2, <2>5, <2>6
      DEF Records!MountRequests, Records!Mounted, Records!LoadRequests
  <2>8. /\ started.loads = fresh.loads + 1 /\ started.halves = fresh.halves
        /\ arg.load = fresh.loads + 1 /\ arg.filter = started.filter
    BY <1>7, <1>9, <2>4
  <2>9. InPairs(none) /\ LastLoad(none, fresh) /\ HalfKept(none, fresh)
    BY <1>2, <1>7 DEF InPairs, LastLoad, HalfKept
  <2>10. /\ RecordRequests(q)
         /\ \A k \in DOMAIN q : q[k].op \in {"records", "summary"}
         /\ Explored(q, started)
    BY ZenonT(60), <1>2, <1>7, <2>6, <2>8, <2>9, LoadStarted
  <2> QED
    BY <1>9, <1>12, <2>7, <2>10 DEF Screens
<1> QED
  BY <1>10, <1>11, <1>12

\* A request that was handled leaves the others.
LEMMA RecordHandled ==
  ASSUME RecordRequests(net), NEW i \in DOMAIN net
  PROVE  LET n == Records!Handled(i) IN
         RecordRequests(n) /\ \A k \in DOMAIN n : \E j \in DOMAIN net : n[k] = net[j]
<1>1. PICK n : n = Without(net, i)
  OBVIOUS
<1>2. InFlight(net) /\ \A k \in DOMAIN net : RecordRequest(net[k])
  BY DEF RecordRequests
<1>3. /\ InFlight(n) /\ Len(net) \in Nat /\ DOMAIN net = 1..Len(net)
      /\ DOMAIN n = 1..(Len(net) - 1)
      /\ \A j \in 1..(Len(net) - 1) : n[j] = net[IF j < i THEN j ELSE j + 1]
  BY <1>1, <1>2, Removed
<1>4. \A k \in DOMAIN n : \E j \in DOMAIN net : n[k] = net[j]
  BY <1>3
<1>5. RecordRequests(n)
  BY <1>2, <1>3, <1>4 DEF RecordRequests
<1> QED
  BY <1>1, <1>4, <1>5 DEF Without, Records!Handled, Records!RemoveAt

\* The browser asks and shows on its own.
LEMMA ScreenBrowses ==
  ASSUME ScreenInv, ui.screen \notin {"explorer", "inspector"}, RecordRequests(net'),
         DOMAIN ui' = DOMAIN ui, ui'.screen = ui.screen, ui'.loads \in Nat
  PROVE  ScreenInv'
BY DEF ScreenInv, Screens, ScreenTyped

\* A load of the explorer.
LEMMA ExplorerLoads ==
  ASSUME ScreenInv, ui.screen = "explorer", DOMAIN ui' = DOMAIN ui, ui'.screen = ui.screen,
         ui'.loads = ui.loads + 1, ui'.halves = ui.halves,
         NEW arg, arg.load = ui.loads + 1, arg.filter = ui'.filter,
         net' = Records!Issue(Records!Issue(net, "records", arg), "summary", arg), wire' = wire
  PROVE  ScreenInv'
<1>1. /\ RecordRequests(net) /\ \A k \in DOMAIN net : net[k].op \in {"records", "summary"}
      /\ ScreenTyped(ui)
      /\ wire = "ordered" => InPairs(net) /\ LastLoad(net, ui) /\ HalfKept(net, ui)
  BY DEF ScreenInv, Screens, Explored
<1>2. PICK view : view = ui'
  OBVIOUS
<1>3. view.loads = ui.loads + 1 /\ view.halves = ui.halves /\ arg.filter = view.filter
  BY <1>2
<1>4. PICK n : n = Records!Issue(Records!Issue(net, "records", arg), "summary", arg)
  OBVIOUS
<1>5. /\ RecordRequests(n)
      /\ \A k \in DOMAIN n : n[k].op \in {"records", "summary"}
      /\ InPairs(net) /\ LastLoad(net, ui) /\ HalfKept(net, ui) => Explored(n, view)
  BY <1>1, <1>3, <1>4, LoadStarted
<1>6. ScreenTyped(view) /\ view.screen = "explorer"
  BY <1>1, <1>2 DEF ScreenTyped
<1>7. Screens(n, view, wire)
  BY <1>1, <1>5, <1>6 DEF Screens
<1> QED
  BY <1>2, <1>4, <1>7 DEF ScreenInv

\* Every edit of the explorer's filters starts a load with them; the browser waits.
LEMMA FilterEdited ==
  ASSUME ScreenInv, NEW filter, Records!Edit(filter)
  PROVE  ScreenInv'
<1>1. PICK edited : edited = [Records!Clicked EXCEPT !.filter = filter]
  OBVIOUS
<1>2. /\ ui.screen \in {"explorer", "browser"} /\ wire' = wire
      /\ ui.screen = "explorer" => ui' = Records!Starting(edited) /\ net' = Records!LoadRequests(net, edited, 1)
      /\ ui.screen # "explorer" => ui' = edited /\ net' = net
  BY <1>1 DEF Records!Edit
<1>3. ScreenTyped(ui) /\ RecordRequests(net)
  BY DEF ScreenInv, Screens
<1>4. /\ DOMAIN edited = DOMAIN ui /\ edited.screen = ui.screen /\ edited.loads = ui.loads
      /\ edited.halves = ui.halves /\ edited.filter = filter
  BY <1>1, <1>3 DEF Records!Clicked, ScreenTyped
<1>5. CASE ui.screen = "browser"
  <2>1. ui' = edited /\ net' = net
    BY <1>2, <1>5
  <2> QED
    BY <1>3, <1>4, <1>5, <2>1, ScreenBrowses DEF ScreenTyped
<1>6. CASE ui.screen = "explorer"
  <2>1. PICK arg : arg = Records!Query(edited, 1)
    OBVIOUS
  <2>2. arg.load = ui.loads + 1 /\ arg.filter = filter
    BY <1>4, <2>1 DEF Records!Query
  <2>3. net' = Records!Issue(Records!Issue(net, "records", arg), "summary", arg)
    BY <1>2, <1>4, <1>6, <2>1 DEF Records!LoadRequests
  <2>4. /\ DOMAIN ui' = DOMAIN ui /\ ui'.screen = ui.screen /\ ui'.loads = ui.loads + 1
        /\ ui'.halves = ui.halves /\ ui'.filter = filter
    BY <1>2, <1>3, <1>4, <1>6 DEF Records!Starting, ScreenTyped
  <2> QED
    BY <1>2, <1>6, <2>2, <2>3, <2>4, ExplorerLoads
<1> QED
  BY <1>2, <1>5, <1>6

\* Apply, Previous and Next load with the filters of the moment.
LEMMA PageLoaded ==
  ASSUME ScreenInv, NEW page, Records!LoadPage(page)
  PROVE  ScreenInv'
<1>1. PICK c : c = Records!Clicked
  OBVIOUS
<1>2. /\ ui.screen \in {"explorer", "browser"} /\ wire' = wire
      /\ ui' = Records!Starting(c) /\ net' = Records!LoadRequests(net, ui, page)
  BY <1>1 DEF Records!LoadPage
<1>3. ScreenTyped(ui) /\ RecordRequests(net)
  BY DEF ScreenInv, Screens
<1>4. /\ DOMAIN c = DOMAIN ui /\ c.screen = ui.screen /\ c.loads = ui.loads
      /\ c.halves = ui.halves /\ c.filter = ui.filter
  BY <1>1, <1>3 DEF Records!Clicked, ScreenTyped
<1>5. /\ DOMAIN ui' = DOMAIN ui /\ ui'.screen = ui.screen /\ ui'.loads = ui.loads + 1
      /\ ui'.halves = ui.halves /\ ui'.filter = ui.filter
  BY <1>2, <1>3, <1>4 DEF Records!Starting, ScreenTyped
<1>6. PICK arg : arg = Records!Query(ui, page)
  OBVIOUS
<1>7. arg.load = ui.loads + 1 /\ arg.filter = ui.filter
  BY <1>6 DEF Records!Query
<1>8. CASE ui.screen = "browser"
  <2>1. net' = Records!Issue(net, "records", arg)
    BY <1>2, <1>6, <1>8 DEF Records!LoadRequests
  <2>2. RecordRequests(net')
    BY <1>3, <2>1, RecordIssued
  <2> QED
    BY <1>3, <1>5, <1>8, <2>2, ScreenBrowses DEF ScreenTyped
<1>9. CASE ui.screen = "explorer"
  <2>1. net' = Records!Issue(Records!Issue(net, "records", arg), "summary", arg)
    BY <1>2, <1>6, <1>9 DEF Records!LoadRequests
  <2> QED
    BY <1>2, <1>5, <1>7, <1>9, <2>1, ExplorerLoads
<1> QED
  BY <1>2, <1>8, <1>9

\* The browser asks for a review and for the queue of its recommendations.
LEMMA BrowserAsks ==
  ASSUME ScreenInv, Records!RunCoachReview \/ Records!LoadLearnQueue
  PROVE  ScreenInv'
<1>1. ScreenTyped(ui) /\ RecordRequests(net)
  BY DEF ScreenInv, Screens
<1>2. PICK c : c = Records!Clicked
  OBVIOUS
<1>3. DOMAIN c = DOMAIN ui /\ c.screen = ui.screen /\ c.loads = ui.loads
  BY <1>1, <1>2 DEF Records!Clicked, ScreenTyped
<1>4. CASE Records!RunCoachReview
  <2>1. PICK x : x = [loading |-> TRUE, error |-> FALSE, result |-> Records!Null]
    OBVIOUS
  <2>2. ui.screen = "browser" /\ ui' = [c EXCEPT !.coach = x] /\ net' = Records!Issue(net, "coach", 0)
    BY <1>2, <1>4, <2>1 DEF Records!RunCoachReview
  <2>3. DOMAIN ui' = DOMAIN ui /\ ui'.screen = ui.screen /\ ui'.loads = ui.loads
    BY <1>1, <1>3, <2>2 DEF ScreenTyped
  <2>4. RecordRequests(net')
    BY <1>1, <2>2, RecordIssued
  <2> QED
    BY <1>1, <2>2, <2>3, <2>4, ScreenBrowses DEF ScreenTyped
<1>5. CASE Records!LoadLearnQueue
  <2>1. ui.screen = "browser" /\ ui' = Records!Learning(c) /\ net' = Records!Issue(net, "learn", "button")
    BY <1>2, <1>5 DEF Records!LoadLearnQueue, Records!LearnRequests
  <2>2. DOMAIN ui' = DOMAIN ui /\ ui'.screen = ui.screen /\ ui'.loads = ui.loads
    BY <1>1, <1>3, <2>1 DEF ScreenTyped, Records!Learning
  <2>3. RecordRequests(net')
    BY <1>1, <2>1, RecordIssued
  <2> QED
    BY <1>1, <2>1, <2>2, <2>3, ScreenBrowses DEF ScreenTyped
<1> QED
  BY <1>4, <1>5

\* The answers, each of the screen that waits for it.
LEMMA ScreenDelivered ==
  ASSUME ScreenInv, Records!Deliver
  PROVE  ScreenInv'
<1>1. PICK i \in DOMAIN net :
        /\ wire = "ordered" => i = 1
        /\ \/ Records!DeliverHalf(i) \/ Records!DeliverRecords(i) \/ Records!DeliverInspection(i)
           \/ Records!DeliverCoach(i) \/ Records!DeliverLearn(i)
  BY DEF Records!Deliver, Records!Deliverable
<1>2. PICK r : r = net[i]
  OBVIOUS
<1>3. /\ RecordRequests(net) /\ ScreenTyped(ui) /\ RecordRequest(r)
      /\ ui.screen = "explorer" => r.op \in {"records", "summary"}
      /\ ui.screen = "inspector" => r.op = "inspect" /\ r.arg = ui.decision
  BY <1>2 DEF ScreenInv, Screens, RecordRequests, Inspected
<1>4. PICK rest : rest = Records!Handled(i)
  OBVIOUS
<1>5. RecordRequests(rest) /\ \A k \in DOMAIN rest : \E j \in DOMAIN net : rest[k] = net[j]
  BY <1>3, <1>4, RecordHandled
<1>6. CASE Records!DeliverHalf(i)
  <2>1. /\ RecordRequests(net')
        /\ \A k \in DOMAIN net' : \E j \in DOMAIN net : net'[k] = net[j]
        /\ DOMAIN ui' = DOMAIN ui /\ ui'.screen = ui.screen /\ ui'.loads = ui.loads
    BY <1>3, <1>6, HalfTaken
  <2>2. ui.screen = "explorer" /\ wire' = wire
    BY <1>6 DEF Records!DeliverHalf
  <2>3. ASSUME wire = "ordered"
        PROVE  Explored(net', ui')
    <3>1. Records!DeliverHalf(1) /\ 1 \in DOMAIN net
      BY <1>1, <1>6, <2>3
    <3>2. Explored(net, ui)
      BY <2>2, <2>3 DEF ScreenInv, Screens
    <3> QED
      BY <1>3, <3>1, <3>2, HalfInOrder
  <2>4. \A k \in DOMAIN net' : net'[k].op \in {"records", "summary"}
    BY <2>1, <2>2 DEF ScreenInv, Screens
  <2>5. ScreenTyped(ui')
    BY <1>3, <2>1 DEF ScreenTyped
  <2> QED
    BY <2>1, <2>2, <2>3, <2>4, <2>5 DEF ScreenInv, Screens
<1>7. CASE Records!DeliverRecords(i)
  <2>1. ui.screen = "browser" /\ net' = rest
    BY <1>4, <1>7 DEF Records!DeliverRecords
  <2>2. DOMAIN ui' = DOMAIN ui /\ ui'.screen = ui.screen /\ ui'.loads = ui.loads
    <3>1. PICK a, p : a = r.val /\ p = r.arg.page
      OBVIOUS
    <3>2. \/ ui' = [ui EXCEPT !.records = a, !.page = p, !.loading = FALSE]
          \/ ui' = [ui EXCEPT !.error = TRUE, !.loading = FALSE]
      BY <1>2, <1>7, <3>1 DEF Records!DeliverRecords
    <3> QED
      BY <1>3, <3>2 DEF ScreenTyped
  <2> QED
    BY <1>3, <1>5, <2>1, <2>2, ScreenBrowses DEF ScreenTyped
<1>8. CASE Records!DeliverInspection(i)
  <2>1. PICK a : a = r.val
    OBVIOUS
  <2>2. PICK f : f = r.ok
    OBVIOUS
  <2>3. r.op = "inspect" /\ net' = rest /\ wire' = wire
        /\ ui' = [ui EXCEPT !.data = a, !.error = ~f, !.loading = FALSE]
    BY <1>2, <1>4, <1>8, <2>1, <2>2 DEF Records!DeliverInspection
  <2>4. /\ DOMAIN ui' = DOMAIN ui /\ ui'.screen = ui.screen /\ ui'.loads = ui.loads
        /\ ui'.data = a /\ ui'.decision = ui.decision
    BY <1>3, <2>3 DEF ScreenTyped
  <2>5. CASE ui.screen = "inspector"
    <3>1. Inspected(net', ui')
      BY <1>3, <1>5, <2>1, <2>3, <2>4, <2>5 DEF Inspected, RecordRequest, ScreenInv, Screens
    <3> QED
      BY <1>3, <1>5, <2>3, <2>4, <2>5, <3>1 DEF ScreenInv, Screens, ScreenTyped
  <2>6. CASE ui.screen \notin {"explorer", "inspector"}
    BY <1>3, <1>5, <2>3, <2>4, <2>6, ScreenBrowses DEF ScreenTyped
  <2> QED
    BY <1>3, <2>3, <2>5, <2>6
<1>9. CASE Records!DeliverCoach(i)
  <2>1. ui.screen \notin {"explorer", "inspector"}
    BY <1>2, <1>3, <1>9 DEF Records!DeliverCoach
  <2>2. PICK a : a = r.val
    OBVIOUS
  <2>3. PICK c : c = [ui EXCEPT !.coach.result = a]
    OBVIOUS
  <2>4. DOMAIN c = DOMAIN ui /\ c.screen = ui.screen /\ c.loads = ui.loads
    BY <1>3, <2>3 DEF ScreenTyped
  <2>5. \/ ui' = Records!Learning(c) /\ net' = Records!Issue(rest, "learn", "coach")
        \/ ui' = [ui EXCEPT !.coach.error = TRUE, !.coach.loading = FALSE] /\ net' = rest
    BY <1>2, <1>4, <1>9, <2>2, <2>3 DEF Records!DeliverCoach, Records!LearnRequests
  <2>6. RecordRequests(net')
    BY <1>5, <2>5, RecordIssued
  <2>7. DOMAIN ui' = DOMAIN ui /\ ui'.screen = ui.screen /\ ui'.loads = ui.loads
    BY <1>3, <2>4, <2>5 DEF ScreenTyped, Records!Learning
  <2> QED
    BY <1>3, <2>1, <2>6, <2>7, ScreenBrowses DEF ScreenTyped
<1>10. CASE Records!DeliverLearn(i)
  <2>1. ui.screen \notin {"explorer", "inspector"} /\ net' = rest
    BY <1>2, <1>3, <1>4, <1>10 DEF Records!DeliverLearn
  <2>4. DOMAIN ui' = DOMAIN ui /\ ui'.screen = ui.screen /\ ui'.loads = ui.loads
    BY <1>2, <1>3, <1>10 DEF Records!DeliverLearn, ScreenTyped
  <2> QED
    BY <1>3, <1>5, <2>1, <2>4, ScreenBrowses DEF ScreenTyped
<1> QED
  BY <1>1, <1>6, <1>7, <1>8, <1>9, <1>10

\* Every step of the screens and of their API keeps what they wait for and show.
LEMMA ScreenKeeps ==
  ASSUME ScreenInv, Records!RecordsNext \/ UNCHANGED <<ui, net, db, wire>>
  PROVE  ScreenInv'
<1>1. CASE UNCHANGED <<ui, net, wire>>
  BY <1>1 DEF ScreenInv
<1>2. ASSUME NEW name \in {"explorer", "inspector", "browser"}, NEW n, Records!GoTo(name, n)
      PROVE  ScreenInv'
  <2>1. PICK c : c = ui.clicks + 1
    OBVIOUS
  <2>2. ui' = Records!Mounted(name, n, c) /\ net' = Records!MountRequests(name, n) /\ wire' = wire
    BY <1>2, <2>1 DEF Records!GoTo
  <2>3. Screens(Records!MountRequests(name, n), Records!Mounted(name, n, c), wire)
    BY ScreenMounted
  <2> QED
    BY <2>2, <2>3 DEF ScreenInv
<1>3. CASE (\E k \in 1..MaxDecisions : Records!OpenInspector(k)) \/ Records!BackToExplorer
  BY <1>2, <1>3 DEF Records!OpenInspector, Records!BackToExplorer
<1>4. CASE \/ \E action \in Actions : Records!TypeAction(action)
           \/ \E sort \in Records!Sorts : Records!ChooseSort(sort)
           \/ \E size \in TypedSizes : Records!TypeSize(size)
  BY <1>4, FilterEdited DEF Records!TypeAction, Records!ChooseSort, Records!TypeSize
<1>5. CASE Records!ApplyFilters \/ Records!PreviousPage \/ Records!NextPage
  BY <1>5, PageLoaded DEF Records!ApplyFilters, Records!PreviousPage, Records!NextPage
<1>6. CASE Records!RecordDecision
  BY <1>1, <1>6 DEF Records!RecordDecision
<1> QED
  BY <1>1, <1>3, <1>4, <1>5, <1>6, BrowserAsks, ScreenDelivered, RecordServed, RecordFails
    DEF Records!RecordsNext

\* The explorer and the browser are mounted first.
LEMMA ScreenStarts ==
  ASSUME Records!RecordsInit
  PROVE  ScreenInv
<1>1. PICK name \in {"explorer", "inspector", "browser"} :
        ui = Records!Mounted(name, 0, 0) /\ net = Records!MountRequests(name, 0)
  BY DEF Records!RecordsInit
<1> QED
  BY <1>1, ScreenMounted DEF ScreenInv

\* Each screen shows what it was asked for.
LEMMA ScreenHolds ==
  ASSUME ScreenInv
  PROVE  Records!ScreensShowTheirRecords
<1>1. Records!ExplorerShowsItsFilters
  <2> SUFFICES ASSUME ui.screen = "explorer", net = <<>>, wire = "ordered", ~ui.error
               PROVE  /\ ui.records # <<>> /\ ui.records[1].of = ui.filter /\ ui.page = ui.records[1].page
                      /\ ui.summary # <<>> /\ ui.summary[1].of = ui.filter /\ ui.halves = {}
    BY DEF Records!ExplorerShowsItsFilters, Records!Quiet, Records!Null
  <2>1. DOMAIN net = {} /\ Explored(net, ui)
    BY DEF ScreenInv, Screens
  <2> QED
    BY <2>1 DEF Explored, LoadShown, HalfKept
<1>2. Records!InspectorShowsItsDecision
  <2> SUFFICES ASSUME ui.screen = "inspector", ui.data # <<>>
               PROVE  Records!InspectorView.id = ui.decision
    BY DEF Records!InspectorShowsItsDecision, Records!Null
  <2>1. PICK e : e = ui.data[1].evidence
    OBVIOUS
  <2>2. PICK a, b, s :
          /\ a = (e.warnings # <<>>) /\ b = (Records!Gaps(e) # <<>>)
          /\ s = [x \in {"checks", "audit", "outcomes"} |-> Records!Listed(FALSE, FALSE, e[x])]
    OBVIOUS
  <2>3. PICK id : id = ui.data[1].id
    OBVIOUS
  <2>4. Records!InspectorView = [id |-> id, warnings |-> a, gaps |-> b, sections |-> s]
    BY <2>1, <2>2, <2>3 DEF Records!InspectorView, Records!Null
  <2>5. id = ui.decision
    BY <2>3 DEF ScreenInv, Screens, Inspected
  <2> QED
    BY <2>4, <2>5
<1> QED
  BY <1>1, <1>2 DEF Records!ScreensShowTheirRecords

----------------------------------------------------------------------------
(* The moving average.  Its window slides over the points: the sum gains a  *)
(* point and loses the one that is a period behind.                         *)

Markets == INSTANCE MarketsPage
  WITH MaxClicks <- MarketsClicks, MaxFailures <- MarketsFailures

\* What the running sum adds at a place.
Gain(p, period, i) == p[i] - (IF i > period THEN p[i - period] ELSE 0)

\* The running sum exists, and is a number.
LEMMA SumRuns ==
  ASSUME NEW p \in Seq(Int), NEW period \in Nat
  PROVE  LET sum == CHOOSE f : f = [i \in 0..Len(p) |->
                       IF i = 0 THEN 0
                       ELSE f[i - 1] + p[i] - (IF i > period THEN p[i - period] ELSE 0)] IN
         /\ sum[0] = 0
         /\ \A i \in 1..Len(p) : sum[i - 1] \in Int /\ sum[i] = sum[i - 1] + Gain(p, period, i)
<1> DEFINE n == Len(p)
           next == [x \in (1..n) \X Int |-> x[2] + Gain(p, period, x[1])]
           Solves(f) == f = [i \in 0..n |->
             IF i = 0 THEN 0 ELSE f[i - 1] + p[i] - (IF i > period THEN p[i - period] ELSE 0)]
<1>1. n \in Nat /\ \A i \in 1..n : p[i] \in Int
  BY LenProperties
<1>2. \A i \in 1..n : Gain(p, period, i) \in Int
  <2> SUFFICES ASSUME NEW i \in 1..n
               PROVE  Gain(p, period, i) \in Int
    OBVIOUS
  <2>1. CASE i > period
    <3>1. i - period \in 1..n
      BY <1>1, <2>1
    <3>2. p[i] \in Int /\ p[i - period] \in Int
      BY <1>1, <3>1
    <3> QED
      BY <2>1, <3>2 DEF Gain
  <2>2. CASE ~(i > period)
    BY <1>1, <2>2 DEF Gain
  <2> QED
    BY <2>1, <2>2
<1>3. next \in [(1..n) \X Int -> Int]
  BY <1>2
<1>4. \E f : Solves(f)
  <2>1. PICK f \in [0..n -> Int] : Iterates(f, 0, n, 0, next)
    <3>1. next \in [((0 + 1)..n) \X Int -> Int]
      BY <1>3
    <3>2. 0 <= n /\ 0 \in Int /\ n \in Int
      BY <1>1
    <3> HIDE DEF next, n
    <3> QED
      BY <3>1, <3>2, Iteration
  <2>2. ASSUME NEW i \in 1..n
        PROVE  f[i] = f[i - 1] + p[i] - (IF i > period THEN p[i - period] ELSE 0)
    <3>1. i - 1 \in 0..n /\ f[i - 1] \in Int
      <4>1. i - 1 \in 0..n
        BY <1>1
      <4> HIDE DEF n, next
      <4> QED
        BY <2>1, <4>1
    <3>2. f[i] = next[<<i, f[i - 1]>>]
      <4>1. i \in (0 + 1)..n
        OBVIOUS
      <4> HIDE DEF next, n
      <4> QED
        BY <2>1, <4>1 DEF Iterates
    <3>3. f[i] = f[i - 1] + Gain(p, period, i)
      BY <3>1, <3>2
    <3>4. CASE i > period
      <4>1. p[i] \in Int /\ p[i - period] \in Int
        BY <1>1, <3>4
      <4> QED
        BY <3>1, <3>3, <3>4, <4>1 DEF Gain
    <3>5. CASE ~(i > period)
      <4>1. p[i] \in Int
        BY <1>1
      <4> QED
        BY <3>1, <3>3, <3>5, <4>1 DEF Gain
    <3> QED
      BY <3>4, <3>5
  <2>3. f[0] = 0
    BY <2>1 DEF Iterates
  <2> HIDE DEF n
  <2>4. Solves(f)
    BY <2>1, <2>2, <2>3
  <2> QED
    BY <2>4
<1>5. PICK sum : sum = CHOOSE f : Solves(f)
  OBVIOUS
<1>6. Solves(sum)
  BY <1>4, <1>5
<1>7. sum[0] = 0
  BY <1>1, <1>6
<1>8. ASSUME NEW i \in 1..n
      PROVE  sum[i] = sum[i - 1] + p[i] - (IF i > period THEN p[i - period] ELSE 0)
  <2>1. i \in 0..n /\ i # 0
    BY <1>1
  <2>2. sum = [j \in 0..n |->
          IF j = 0 THEN 0 ELSE sum[j - 1] + p[j] - (IF j > period THEN p[j - period] ELSE 0)]
    BY <1>6
  <2> HIDE DEF n
  <2> QED
    BY <2>1, <2>2
<1> DEFINE Whole == {i \in Int : sum[i] \in Int}
<1>9. \A i \in 0..n : i \in Whole
  <2>1. 0 \in Whole
    BY <1>7
  <2>2. ASSUME NEW i \in 0..(n - 1), i \in Whole
        PROVE  i + 1 \in Whole
    <3>1. i + 1 \in 1..n /\ (i + 1) - 1 = i /\ sum[i] \in Int
      BY <1>1, <2>2
    <3>2. CASE i + 1 > period
      <4>1. p[i + 1] \in Int /\ p[(i + 1) - period] \in Int
        BY <1>1, <3>1, <3>2
      <4> QED
        BY <1>8, <3>1, <3>2, <4>1
    <3>3. CASE ~(i + 1 > period)
      <4>1. p[i + 1] \in Int
        BY <1>1, <3>1
      <4> QED
        BY <1>8, <3>1, <3>3, <4>1
    <3> QED
      BY <3>2, <3>3
  <2>3. 0 \in Int /\ n \in Int
    BY <1>1
  <2> HIDE DEF Whole, n
  <2>4. \A i \in 0..(n - 1) : i \in Whole => i + 1 \in Whole
    BY <2>2
  <2> QED
    BY <2>1, <2>3, <2>4, RangeInduction
<1>10. ASSUME NEW i \in 1..n
       PROVE  sum[i - 1] \in Int /\ sum[i] = sum[i - 1] + Gain(p, period, i)
  <2>1. sum[i - 1] \in Int
    BY <1>1, <1>9
  <2>2. CASE i > period
    <3>1. p[i] \in Int /\ p[i - period] \in Int
      BY <1>1, <2>2
    <3> QED
      BY <1>8, <2>1, <2>2, <3>1 DEF Gain
  <2>3. CASE ~(i > period)
    <3>1. p[i] \in Int
      BY <1>1
    <3> QED
      BY <1>8, <2>1, <2>3, <3>1 DEF Gain
  <2> QED
    BY <2>1, <2>2, <2>3
<1> QED
  BY <1>5, <1>7, <1>10

\* The sums of the points from the first on.
Prefixes(P, p) ==
  /\ P \in [0..Len(p) -> Int] /\ P[0] = 0
  /\ \A i \in 1..Len(p) : P[i] = P[i - 1] + p[i]

\* They exist.
LEMMA PrefixesExist ==
  ASSUME NEW p \in Seq(Int)
  PROVE  \E P : Prefixes(P, p)
<1> DEFINE n == Len(p)
           next == [x \in (1..n) \X Int |-> x[2] + p[x[1]]]
<1>1. n \in Nat /\ \A i \in 1..n : p[i] \in Int
  BY LenProperties
<1>2. next \in [((0 + 1)..n) \X Int -> Int]
  BY <1>1
<1>3. PICK P \in [0..n -> Int] : Iterates(P, 0, n, 0, next)
  <2>1. 0 <= n /\ 0 \in Int /\ n \in Int
    BY <1>1
  <2> HIDE DEF next, n
  <2> QED
    BY <1>2, <2>1, Iteration
<1>4. ASSUME NEW i \in 1..n
      PROVE  P[i] = P[i - 1] + p[i]
  <2>1. i - 1 \in 0..n
    BY <1>1
  <2>2. P[i - 1] \in Int
    <3> HIDE DEF n, next
    <3> QED
      BY <2>1
  <2>3. P[i] = next[<<i, P[i - 1]>>]
    <3>1. i \in (0 + 1)..n
      OBVIOUS
    <3> HIDE DEF next, n
    <3> QED
      BY <1>3, <3>1 DEF Iterates
  <2> QED
    BY <2>2, <2>3
<1>5. P[0] = 0
  BY <1>3 DEF Iterates
<1> HIDE DEF next
<1> QED
  BY <1>3, <1>4, <1>5 DEF Prefixes

\* A sum of consecutive points is a difference of those.
LEMMA TotalIs ==
  ASSUME NEW p \in Seq(Int), NEW P, Prefixes(P, p), NEW j \in Int, NEW k \in Int,
         1 <= j, j <= k, k <= Len(p)
  PROVE  Markets!Total(p, j, k) = P[k] - P[j - 1]
<1> DEFINE Solves(f) == f = [i \in (j - 1)..k |-> IF i = j - 1 THEN 0 ELSE f[i - 1] + p[i]]
<1>1. /\ Len(p) \in Nat
      /\ \A i \in 0..Len(p) : P[i] \in Int
      /\ \A i \in 1..Len(p) : p[i] \in Int /\ P[i] = P[i - 1] + p[i]
  BY LenProperties DEF Prefixes
<1>2. \E f : Solves(f)
  <2> DEFINE f == [i \in (j - 1)..k |-> P[i] - P[j - 1]]
  <2>1. ASSUME NEW i \in (j - 1)..k
        PROVE  f[i] = IF i = j - 1 THEN 0 ELSE f[i - 1] + p[i]
    <3>1. CASE i = j - 1
      <4>1. P[i] \in Int
        BY <1>1
      <4> QED
        BY <3>1, <4>1
    <3>2. CASE i # j - 1
      <4>1. i - 1 \in (j - 1)..k /\ i \in 1..Len(p) /\ i - 1 \in 0..Len(p) /\ j - 1 \in 0..Len(p)
        BY <1>1, <3>2
      <4>2. f[i - 1] = P[i - 1] - P[j - 1] /\ P[i] = P[i - 1] + p[i] /\ f[i] = P[i] - P[j - 1]
        BY <1>1, <4>1
      <4>3. P[i - 1] \in Int /\ P[j - 1] \in Int /\ p[i] \in Int
        BY <1>1, <4>1
      <4> HIDE DEF f
      <4> QED
        BY <3>2, <4>2, <4>3
    <3> QED
      BY <3>1, <3>2
  <2>2. Solves(f)
    BY <2>1
  <2> HIDE DEF f
  <2> QED
    BY <2>2
<1>3. PICK sum : sum = CHOOSE f : Solves(f)
  OBVIOUS
<1>4. sum = [i \in (j - 1)..k |-> IF i = j - 1 THEN 0 ELSE sum[i - 1] + p[i]]
  BY <1>2, <1>3
<1> DEFINE Same == {i \in Int : sum[i] = P[i] - P[j - 1]}
<1>5. j - 1 \in Same
  <2>1. j - 1 \in (j - 1)..k /\ P[j - 1] \in Int
    BY <1>1
  <2> QED
    BY <1>4, <2>1
<1>6. ASSUME NEW i \in (j - 1)..(k - 1), i \in Same
      PROVE  i + 1 \in Same
  <2>1. PICK m : m = i + 1
    OBVIOUS
  <2>2. m \in (j - 1)..k /\ m # j - 1 /\ m - 1 = i /\ m \in 1..Len(p) /\ i \in 0..Len(p) /\ j - 1 \in 0..Len(p)
    BY <1>1, <2>1
  <2>3. sum[m] = sum[m - 1] + p[m]
    BY <1>4, <2>2
  <2>4. P[m] = P[i] + p[m] /\ P[i] \in Int /\ P[j - 1] \in Int /\ p[m] \in Int
    BY <1>1, <2>2
  <2>5. sum[i] = P[i] - P[j - 1]
    BY <1>6
  <2>6. sum[m] = (P[i] - P[j - 1]) + p[m]
    BY <2>2, <2>3, <2>5
  <2>7. sum[m] = P[m] - P[j - 1]
    <3>1. PICK x \in Int, y \in Int, z \in Int : x = P[i] /\ y = P[j - 1] /\ z = p[m]
      BY <2>4
    <3>2. sum[m] = (x - y) + z /\ P[m] = x + z
      BY <2>4, <2>6, <3>1
    <3>3. (x - y) + z = (x + z) - y
      OBVIOUS
    <3> QED
      BY Zenon, <3>1, <3>2, <3>3
  <2> QED
    BY <2>1, <2>2, <2>7
<1>7. k \in Same
  <2>1. j - 1 \in Int /\ k \in (j - 1)..k /\ \A i \in (j - 1)..(k - 1) : i \in Same => i + 1 \in Same
    BY <1>6
  <2> HIDE DEF Same
  <2>2. PICK a \in Int : a = j - 1
    BY <2>1
  <2>3. \A i \in a..k : i \in Same
    BY <1>5, <2>1, <2>2, RangeInduction
  <2> QED
    BY <2>1, <2>2, <2>3
<1>8. Markets!Total(p, j, k) = sum[k]
  BY <1>3 DEF Markets!Total
<1> QED
  BY <1>7, <1>8

\* The running sum over a window is the sum of the points in it.
LEMMA WindowSums ==
  ASSUME NEW p \in Seq(Int), NEW period \in Int
  PROVE  LET sums == Markets!RunningSum(p, period) IN
         \A j \in DOMAIN sums : sums[j] = Markets!Total(p, j, j + period - 1)
<1> DEFINE n == Len(p)
           sums == Markets!RunningSum(p, period)
<1>1. n \in Nat /\ \A i \in 1..n : p[i] \in Int
  BY LenProperties
<1>2. CASE period < 2 \/ n < period
  <2>1. sums = <<>>
    BY <1>2 DEF Markets!RunningSum
  <2> QED
    BY <2>1
<1>3. CASE ~(period < 2 \/ n < period)
  <2>1. period \in Nat /\ period >= 2 /\ period <= n
    BY <1>1, <1>3
  <2>2. PICK sum : sum = CHOOSE f : f = [i \in 0..Len(p) |->
                     IF i = 0 THEN 0
                     ELSE f[i - 1] + p[i] - (IF i > period THEN p[i - period] ELSE 0)]
    OBVIOUS
  <2>3. /\ sum[0] = 0
        /\ \A i \in 1..n : sum[i - 1] \in Int /\ sum[i] = sum[i - 1] + Gain(p, period, i)
    BY <2>1, <2>2, SumRuns
  <2>4. sums = [j \in 1..(n - period + 1) |-> sum[j + period - 1]]
    BY <1>3, <2>2 DEF Markets!RunningSum
  <2>5. PICK P : Prefixes(P, p)
    BY PrefixesExist
  <2>6. /\ \A i \in 0..n : P[i] \in Int
        /\ \A i \in 1..n : P[i] = P[i - 1] + p[i]
    BY <2>5 DEF Prefixes
  <2> DEFINE Begin(i) == IF i > period THEN i - period ELSE 0
             Same == {i \in Int : sum[i] = P[i] - P[Begin(i)]}
  <2>7. 0 \in Same
    <3>1. 0 \in 0..n /\ P[0] \in Int /\ Begin(0) = 0
      BY <1>1, <2>1, <2>6
    <3>2. sum[0] = P[0] - P[Begin(0)]
      BY <2>3, <3>1
    <3> QED
      BY <3>2
  <2>8. ASSUME NEW i \in 0..(n - 1), i \in Same
        PROVE  i + 1 \in Same
    <3>1. PICK m : m = i + 1
      OBVIOUS
    <3>2. m \in 1..n /\ m - 1 = i /\ i \in 0..n /\ m \in Int
      BY <1>1, <3>1
    <3>3. /\ sum[m] = sum[i] + Gain(p, period, m)
          /\ P[m] = P[i] + p[m] /\ P[i] \in Int /\ p[m] \in Int
          /\ sum[i] = P[i] - P[Begin(i)]
      BY <1>1, <2>3, <2>6, <2>8, <3>2
    <3>4. CASE m > period
      <4>1. Begin(i) = i - period /\ Begin(m) = m - period
        BY <2>1, <3>2, <3>4
      <4>2. PICK b : b = m - period
        OBVIOUS
      <4>3. b \in 1..n /\ b - 1 = i - period /\ i - period \in 0..n
        BY <2>1, <3>2, <3>4, <4>2
      <4>4. P[b] = P[b - 1] + p[b] /\ P[b - 1] \in Int /\ p[b] \in Int
        BY <1>1, <2>6, <4>3
      <4>5. Gain(p, period, m) = p[m] - p[b]
        BY <3>4, <4>2 DEF Gain
      <4>6. sum[i] = P[i] - P[b - 1]
        BY <3>3, <4>1, <4>3
      <4>7. sum[m] = (P[i] - P[b - 1]) + (p[m] - p[b])
        BY <3>3, <4>5, <4>6
      <4>8. sum[m] = P[m] - P[b]
        <5>1. PICK x \in Int, y \in Int, z \in Int, w \in Int :
                x = P[i] /\ y = P[b - 1] /\ z = p[m] /\ w = p[b]
          BY <3>3, <4>4
        <5>2. sum[m] = (x - y) + (z - w) /\ P[m] = x + z /\ P[b] = y + w
          BY <3>3, <4>4, <4>7, <5>1
        <5>3. (x - y) + (z - w) = (x + z) - (y + w)
          OBVIOUS
        <5> QED
          BY Zenon, <5>1, <5>2, <5>3
      <4> QED
        BY <3>1, <3>2, <4>1, <4>2, <4>8
    <3>5. CASE ~(m > period)
      <4>1. Begin(i) = 0 /\ Begin(m) = 0
        BY <2>1, <3>2, <3>5
      <4>2. Gain(p, period, m) = p[m] /\ P[0] \in Int
        BY <1>1, <2>6, <3>3, <3>5 DEF Gain
      <4>3. sum[m] = (P[i] - P[0]) + p[m]
        BY <3>3, <4>1, <4>2
      <4>4. sum[m] = P[m] - P[0]
        <5>1. PICK x \in Int, y \in Int, z \in Int : x = P[i] /\ y = P[0] /\ z = p[m]
          BY <3>3, <4>2
        <5>2. sum[m] = (x - y) + z /\ P[m] = x + z
          BY <3>3, <4>3, <5>1
        <5>3. (x - y) + z = (x + z) - y
          OBVIOUS
        <5> QED
          BY Zenon, <5>1, <5>2, <5>3
      <4> QED
        BY <3>1, <3>2, <4>1, <4>4
    <3> QED
      BY <3>4, <3>5
  <2>9. \A i \in 0..n : i \in Same
    <3>1. 0 \in Int /\ n \in Int /\ \A i \in 0..(n - 1) : i \in Same => i + 1 \in Same
      BY <1>1, <2>8
    <3> HIDE DEF Same, n
    <3> QED
      BY <2>7, <3>1, RangeInduction
  <2>10. ASSUME NEW j \in 1..(n - period + 1)
         PROVE  sum[j + period - 1] = Markets!Total(p, j, j + period - 1)
    <3>1. PICK k : k = j + period - 1
      OBVIOUS
    <3>2. k \in 0..n /\ k \in Int /\ 1 <= j /\ j <= k /\ k <= n /\ Begin(k) = j - 1
      BY <1>1, <2>1, <3>1
    <3>3. sum[k] = P[k] - P[j - 1]
      BY <2>9, <3>2
    <3>4. Markets!Total(p, j, k) = P[k] - P[j - 1]
      BY <2>5, <3>2, TotalIs
    <3> QED
      BY <3>1, <3>3, <3>4
  <2> HIDE DEF n
  <2> QED
    BY <2>4, <2>10
<1> QED
  BY <1>2, <1>3
----------------------------------------------------------------------------
(* The markets page: its cache keeps candles under their own key. *)

\* Prices are numbers; there is an interval and a period to begin with.
PricesGiven ==
  /\ Assets \in Seq(Range(Assets)) /\ Intervals # {}
  /\ Periods # {} /\ Periods \subseteq Int
  /\ \A key \in Range(Assets) \X Intervals : CandlesOf[key] \in Seq(Int)

Priced(c) == c.closes \in Seq(Int)

MarketsFields ==
  {"asset", "interval", "candles", "loading", "error", "cache", "latest", "assets", "listLoading",
   "listError", "showSma", "period", "clicks"}

MarketsView(u) ==
  /\ MarketsFields \subseteq DOMAIN u
  /\ u.interval \in Intervals /\ u.period \in Int
  /\ u.assets = <<>> \/ u.assets = Assets
  /\ u.asset # <<>> => u.asset[1] \in Range(Assets)
  /\ u.candles # <<>> => Priced(u.candles[1])
  /\ \A key \in DOMAIN u.cache : Priced(u.cache[key]) /\ u.cache[key].key = key

MarketsRequest(r) ==
  /\ r.op = "assets" /\ r.ok => r.val[1] = Assets
  /\ r.op = "candles" =>
       /\ r.arg.key \in Range(Assets) \X Intervals
       /\ r.ok => r.val[1].key = r.arg.key /\ Priced(r.val[1])

MarketsInv ==
  /\ MarketsView(ui)
  /\ InFlight(net) /\ \A r \in Range(net) : MarketsRequest(r)

\* The points of the chart are numbers.
LEMMA ChartOfNumbers ==
  ASSUME MarketsInv
  PROVE  Markets!ChartPoints \in Seq(Int)
<1>1. CASE ui.candles = <<>>
  BY <1>1 DEF Markets!ChartPoints, Markets!Null
<1>2. CASE ui.candles # <<>>
  <2>1. PICK closes \in Seq(Int) : closes = ui.candles[1].closes
    BY <1>2 DEF MarketsInv, MarketsView, Priced
  <2>2. PICK I : I = {i \in DOMAIN closes : closes[i] # -1}
    OBVIOUS
  <2>3. Len(closes) \in Nat /\ DOMAIN closes = 1..Len(closes) /\ I \in SUBSET (1..Len(closes))
    BY <2>2, LenProperties
  <2>4. PICK m : m = Keeping(closes, I)
    OBVIOUS
  <2>5. Cardinality(I) \in Nat /\ DOMAIN m = 1..Cardinality(I) /\ Enumerated(m, closes, I)
    BY <2>3, <2>4, KeepingProperties
  <2>6. \A k \in 1..Cardinality(I) : m[k] \in Int
    <3> SUFFICES ASSUME NEW k \in 1..Cardinality(I)
                 PROVE  m[k] \in Int
      OBVIOUS
    <3>1. PICK i \in I : m[k] = closes[i]
      BY <2>5 DEF Enumerated
    <3> QED
      BY <2>3, <3>1, ElementOfSeq
  <2>7. m = [k \in 1..Cardinality(I) |-> m[k]]
    BY <2>4 DEF Keeping
  <2>8. m \in Seq(Int)
    BY <2>5, <2>6, <2>7, IsASeq
  <2>9. Markets!Kept(closes, I) = m
    BY <2>4 DEF Markets!Kept, Markets!Before, Markets!Cardinality, Keeping, Place, Cardinality
  <2>10. Markets!ChartPoints = Markets!Kept(closes, I)
    BY <1>2, <2>1, <2>2 DEF Markets!ChartPoints, Markets!Null
  <2> QED
    BY <2>8, <2>9, <2>10
<1> QED
  BY <1>1, <1>2

\* The chart draws what it should.
LEMMA ChartHolds ==
  ASSUME MarketsInv
  PROVE  Markets!ChartIsTrue
<1>1. Markets!CandleCacheTrue
  BY DEF MarketsInv, MarketsView, Markets!CandleCacheTrue
<1>2. Markets!SmaIsAverage
  <2>1. PICK p \in Seq(Int) : p = Markets!ChartPoints
    BY ChartOfNumbers
  <2>2. PICK period \in Int : period = ui.period
    BY DEF MarketsInv, MarketsView
  <2>3. PICK sums : sums = Markets!RunningSum(p, period)
    OBVIOUS
  <2>4. \A j \in DOMAIN sums : sums[j] = Markets!Total(p, j, j + period - 1)
    BY <2>3, WindowSums
  <2>5. Markets!SmaSums = sums
    BY <2>1, <2>2, <2>3 DEF Markets!SmaSums
  <2> QED
    BY <2>1, <2>2, <2>4, <2>5 DEF Markets!SmaIsAverage
<1> QED
  BY <1>1, <1>2 DEF Markets!ChartIsTrue

\* Fetching keeps the view: cached candles are the key's own.
LEMMA FetchFits ==
  ASSUME NEW view, MarketsView(view)
  PROVE  MarketsView(Markets!AfterFetch(view))
<1>1. PICK n : n = Markets!AfterFetch(view)
  OBVIOUS
<1>2. /\ n.asset = view.asset /\ n.interval = view.interval /\ n.assets = view.assets
      /\ n.period = view.period /\ n.cache = view.cache /\ DOMAIN n = DOMAIN view
      /\ n.candles = view.candles \/ n.candles = <<>>
         \/ \E key \in DOMAIN view.cache : n.candles = <<view.cache[key]>>
  BY <1>1 DEF Markets!AfterFetch, Markets!CacheHit, Markets!Null, MarketsView, MarketsFields
<1>3. n.candles # <<>> => Priced(n.candles[1])
  <2>1. CASE n.candles = view.candles
    BY <2>1 DEF MarketsView
  <2>2. CASE \E key \in DOMAIN view.cache : n.candles = <<view.cache[key]>>
    BY <2>2 DEF MarketsView
  <2> QED
    BY <1>2, <2>1, <2>2
<1> QED
  BY <1>1, <1>2, <1>3 DEF MarketsView

\* A request for candles of what is selected.
LEMMA FetchAsked ==
  ASSUME NEW q, InFlight(q), \A r \in Range(q) : MarketsRequest(r), NEW id, NEW key,
         key \in Range(Assets) \X Intervals
  PROVE  LET n == Markets!Issue(q, "candles", [id |-> id, key |-> key]) IN
         InFlight(n) /\ \A r \in Range(n) : MarketsRequest(r)
<1>1. PICK arg : arg = [id |-> id, key |-> key]
  OBVIOUS
<1>2. PICK r : r = [op |-> "candles", arg |-> arg, back |-> FALSE, ok |-> FALSE, val |-> <<>>]
  OBVIOUS
<1>3. arg.key = key
  BY <1>1
<1>4. r.op = "candles" /\ r.arg = arg /\ r.ok = FALSE /\ r.back = FALSE
  BY <1>2
<1>5. IsRequest(r) /\ MarketsRequest(r)
  BY <1>2, <1>3, <1>4 DEF IsRequest, MarketsRequest
<1>6. InFlight(Append(q, r)) /\ Range(Append(q, r)) \subseteq Range(q) \cup {r}
  BY <1>5, IssuedRange
<1>7. Markets!Issue(q, "candles", [id |-> id, key |-> key]) = Append(q, r)
  BY <1>1, <1>2 DEF Markets!Issue, Markets!NewRequest, Markets!Null
<1> QED
  BY <1>5, <1>6, <1>7

\* A selection that changed, or a retry, shows or fetches its candles.
LEMMA ShowKeeps ==
  ASSUME MarketsInv, NEW view, MarketsView(view), Markets!Show(view)
  PROVE  MarketsInv'
<1>1. ui' = Markets!AfterFetch(view) /\ net' = Markets!FetchIssues(view)
  BY DEF Markets!Show
<1>2. MarketsView(ui')
  BY <1>1, FetchFits
<1>3. InFlight(net) /\ \A r \in Range(net) : MarketsRequest(r)
  BY DEF MarketsInv
<1>4. InFlight(net') /\ \A r \in Range(net') : MarketsRequest(r)
  <2>1. CASE net' = net
    BY <1>3, <2>1
  <2>2. CASE net' # net
    <3>1. PICK id : id = view.latest + 1
      OBVIOUS
    <3>2. view.asset # <<>> /\ net' = Markets!Issue(net, "candles", [id |-> id, key |-> <<view.asset[1], view.interval>>])
      BY <1>1, <2>2, <3>1 DEF Markets!FetchIssues, Markets!Null
    <3>3. PICK key \in Range(Assets) \X Intervals : key = <<view.asset[1], view.interval>>
      BY <3>2 DEF MarketsView
    <3>4. PICK n : n = Markets!Issue(net, "candles", [id |-> id, key |-> key])
      OBVIOUS
    <3>5. InFlight(n) /\ \A r \in Range(n) : MarketsRequest(r)
      BY <1>3, <3>4, FetchAsked
    <3>6. net' = n
      BY <3>2, <3>3, <3>4
    <3> QED
      BY <3>5, <3>6
  <2> QED
    BY <2>1, <2>2
<1> QED
  BY <1>2, <1>4 DEF MarketsInv

\* The rest of the requests when one was handled.
LEMMA MarketsHandled ==
  ASSUME MarketsInv, NEW i \in DOMAIN net
  PROVE  LET n == Markets!Handled(i) IN InFlight(n) /\ \A r \in Range(n) : MarketsRequest(r)
<1>1. InFlight(net) /\ \A r \in Range(net) : MarketsRequest(r)
  BY DEF MarketsInv
<1>2. PICK n : n = Without(net, i)
  OBVIOUS
<1>3. InFlight(n) /\ Range(n) \subseteq Range(net)
  BY <1>1, <1>2, RemovedRange
<1>4. Markets!Handled(i) = n
  BY <1>2 DEF Markets!Handled, Markets!RemoveAt, Without
<1> QED
  BY <1>1, <1>3, <1>4

\* The list of assets, and the candles that are asked for then.
LEMMA AssetsDelivered ==
  ASSUME PricesGiven, MarketsInv, NEW i \in DOMAIN net, Markets!DeliverAssets(i)
  PROVE  MarketsInv'
<1>1. PICK rest : rest = Markets!Handled(i)
  OBVIOUS
<1>2. InFlight(rest) /\ \A r \in Range(rest) : MarketsRequest(r)
  BY <1>1, MarketsHandled
<1>3. net[i].op = "assets" /\ (net[i].ok => net[i].val[1] = Assets)
  BY DEF Markets!DeliverAssets, MarketsInv, MarketsRequest, Range
<1>4. MarketsView(ui)
  BY DEF MarketsInv
<1>5. PICK listed : listed = [ui EXCEPT !.listLoading = FALSE, !.listError = ~net[i].ok,
                              !.assets = IF net[i].ok THEN net[i].val[1] ELSE @]
  OBVIOUS
<1>6. /\ DOMAIN listed = DOMAIN ui /\ listed.interval = ui.interval /\ listed.period = ui.period
      /\ listed.asset = ui.asset /\ listed.candles = ui.candles /\ listed.cache = ui.cache
      /\ listed.assets = IF net[i].ok THEN net[i].val[1] ELSE ui.assets
  BY <1>4, <1>5 DEF MarketsView, MarketsFields
<1>7. MarketsView(listed)
  BY <1>3, <1>4, <1>6 DEF MarketsView
<1>8. PICK chosen : chosen = [listed EXCEPT !.asset = <<listed.assets[1]>>]
  OBVIOUS
<1>9. /\ ui' = IF net[i].ok /\ listed.assets # <<>> THEN Markets!AfterFetch(chosen) ELSE listed
      /\ net' = IF net[i].ok /\ listed.assets # <<>>
                THEN Markets!Issue(rest, "candles", [id |-> 1, key |-> <<chosen.asset[1], chosen.interval>>])
                ELSE rest
  BY <1>1, <1>5, <1>8 DEF Markets!DeliverAssets
<1>10. CASE net[i].ok /\ listed.assets # <<>>
  <2>1. listed.assets = Assets /\ Assets # <<>>
    BY <1>3, <1>6, <1>10
  <2>2. listed.assets[1] \in Range(Assets)
    <3>1. 1 \in DOMAIN Assets
      BY <2>1 DEF PricesGiven
    <3> QED
      BY <2>1, <3>1 DEF Range
  <2>3. /\ DOMAIN chosen = DOMAIN listed /\ chosen.asset = <<listed.assets[1]>>
        /\ chosen.interval = listed.interval /\ chosen.period = listed.period
        /\ chosen.candles = listed.candles /\ chosen.cache = listed.cache
        /\ chosen.assets = listed.assets
    BY <1>7, <1>8 DEF MarketsView, MarketsFields
  <2>4. chosen.asset[1] \in Range(Assets)
    BY <2>2, <2>3
  <2>5. MarketsView(chosen)
    BY <1>7, <2>3, <2>4 DEF MarketsView
  <2>6. PICK key \in Range(Assets) \X Intervals : key = <<chosen.asset[1], chosen.interval>>
    BY <2>4, <2>5 DEF MarketsView
  <2>7. PICK n, id : n = Markets!Issue(rest, "candles", [id |-> id, key |-> key]) /\ id = 1
    OBVIOUS
  <2>8. InFlight(n) /\ \A r \in Range(n) : MarketsRequest(r)
    BY <1>2, <2>7, FetchAsked
  <2>9. net' = n /\ ui' = Markets!AfterFetch(chosen)
    BY <1>9, <1>10, <2>6, <2>7
  <2>10. MarketsView(ui')
    BY <2>5, <2>9, FetchFits
  <2> QED
    BY <2>8, <2>9, <2>10 DEF MarketsInv
<1>11. CASE ~(net[i].ok /\ listed.assets # <<>>)
  BY <1>2, <1>7, <1>9, <1>11 DEF MarketsInv
<1> QED
  BY <1>10, <1>11

\* Candles are cached under the key they were fetched for.
LEMMA CandlesDelivered ==
  ASSUME MarketsInv, NEW i \in DOMAIN net, Markets!DeliverCandles(i)
  PROVE  MarketsInv'
<1>1. PICK rest : rest = Markets!Handled(i)
  OBVIOUS
<1>2. InFlight(rest) /\ (\A r \in Range(rest) : MarketsRequest(r)) /\ net' = rest
  BY <1>1, MarketsHandled DEF Markets!DeliverCandles
<1>3. MarketsView(ui)
  BY DEF MarketsInv
<1>4. PICK key, c : key = net[i].arg.key /\ c = net[i].val[1]
  OBVIOUS
<1>5. net[i].ok => c.key = key /\ Priced(c)
  BY <1>4 DEF Markets!DeliverCandles, MarketsInv, MarketsRequest, Range
<1>6. \/ ui' = ui
      \/ net[i].ok /\ ui' = [ui EXCEPT !.cache = Markets!Cached(key, c), !.candles = net[i].val, !.loading = FALSE]
      \/ ui' = [ui EXCEPT !.error = TRUE, !.loading = FALSE]
  BY <1>4 DEF Markets!DeliverCandles
<1>7. CASE ui' = ui
  BY <1>2, <1>3, <1>7 DEF MarketsInv
<1>8. CASE net[i].ok /\ ui' = [ui EXCEPT !.cache = Markets!Cached(key, c), !.candles = net[i].val, !.loading = FALSE]
  <2>1. PICK cache : cache = Markets!Cached(key, c)
    OBVIOUS
  <2>2. /\ DOMAIN cache = DOMAIN ui.cache \cup {key}
        /\ \A k \in DOMAIN cache : cache[k] = IF k = key THEN c ELSE ui.cache[k]
    BY <2>1 DEF Markets!Cached
  <2>3. \A k \in DOMAIN cache : Priced(cache[k]) /\ cache[k].key = k
    BY <1>3, <1>5, <1>8, <2>2 DEF MarketsView
  <2>4. /\ DOMAIN ui' = DOMAIN ui /\ ui'.interval = ui.interval /\ ui'.period = ui.period
        /\ ui'.asset = ui.asset /\ ui'.assets = ui.assets
        /\ ui'.candles = net[i].val /\ ui'.cache = cache
    BY <1>3, <1>8, <2>1 DEF MarketsView, MarketsFields
  <2>5. MarketsView(ui')
    BY <1>3, <1>4, <1>5, <1>8, <2>3, <2>4 DEF MarketsView
  <2> QED
    BY <1>2, <2>5 DEF MarketsInv
<1>9. CASE ui' = [ui EXCEPT !.error = TRUE, !.loading = FALSE]
  <2>1. /\ DOMAIN ui' = DOMAIN ui /\ ui'.interval = ui.interval /\ ui'.period = ui.period
        /\ ui'.asset = ui.asset /\ ui'.assets = ui.assets
        /\ ui'.candles = ui.candles /\ ui'.cache = ui.cache
    BY <1>3, <1>9 DEF MarketsView, MarketsFields
  <2>2. MarketsView(ui')
    BY <1>3, <2>1 DEF MarketsView
  <2> QED
    BY <1>2, <2>2 DEF MarketsInv
<1> QED
  BY <1>6, <1>7, <1>8, <1>9

\* What the API answers, well or not.
LEMMA MarketsAnswered ==
  ASSUME PricesGiven, MarketsInv, Markets!Serve \/ Markets!RequestFails
  PROVE  MarketsInv'
<1>1. ui' = ui
  BY DEF Markets!Serve, Markets!RequestFails
<1>2. InFlight(net) /\ \A r \in Range(net) : MarketsRequest(r)
  BY DEF MarketsInv
<1>3. PICK i \in DOMAIN net :
        net' = Markets!Served(i, Markets!Payload(net[i])) \/ net' = Markets!Refused(i)
  BY DEF Markets!Serve, Markets!RequestFails, Markets!Servable
<1>4. \E okay \in BOOLEAN : \E v :
        net' = Answer(net, i, okay, v) /\ (okay => v = <<Markets!Payload(net[i])>>)
  <2>1. CASE net' = Markets!Served(i, Markets!Payload(net[i]))
    <3>1. PICK okay \in BOOLEAN : okay = TRUE
      OBVIOUS
    <3>2. PICK v : v = <<Markets!Payload(net[i])>>
      OBVIOUS
    <3>3. net' = Answer(net, i, okay, v)
      BY <2>1, <3>1, <3>2 DEF Markets!Served, Answer
    <3> QED
      BY <3>2, <3>3
  <2>2. CASE net' = Markets!Refused(i)
    <3>1. PICK okay \in BOOLEAN : okay = FALSE
      OBVIOUS
    <3>2. PICK v : v = Markets!Null
      OBVIOUS
    <3>3. net' = Answer(net, i, okay, v)
      BY <2>2, <3>1, <3>2 DEF Markets!Refused, Answer
    <3> QED
      BY <3>1, <3>3
  <2> QED
    BY <1>3, <2>1, <2>2
<1>4aa. PICK okay \in BOOLEAN : \E v :
         net' = Answer(net, i, okay, v) /\ (okay => v = <<Markets!Payload(net[i])>>)
  BY <1>4
<1>4a. PICK v : net' = Answer(net, i, okay, v) /\ (okay => v = <<Markets!Payload(net[i])>>)
  BY <1>4aa
<1>5. PICK r : r = [op |-> net[i].op, arg |-> net[i].arg, back |-> TRUE, ok |-> okay, val |-> v]
  OBVIOUS
<1>6. PICK n : n = Answer(net, i, okay, v)
  OBVIOUS
<1>7. InFlight(n) /\ Range(n) \subseteq Range(net) \cup {r}
  BY <1>2, <1>5, <1>6, AnsweredRange
<1>8. r.op = net[i].op /\ r.arg = net[i].arg /\ r.ok = okay /\ r.val = v
  BY <1>5
<1>9. MarketsRequest(net[i])
  BY <1>2 DEF Range
<1>10. MarketsRequest(r)
  <2>1. ASSUME r.op = "assets", r.ok
        PROVE  r.val[1] = Assets
    BY <1>4a, <1>8, <2>1 DEF Markets!Payload
  <2>2. ASSUME r.op = "candles"
        PROVE  /\ r.arg.key \in Range(Assets) \X Intervals
               /\ r.ok => r.val[1].key = r.arg.key /\ Priced(r.val[1])
    <3>1. net[i].arg.key \in Range(Assets) \X Intervals
      BY <1>8, <1>9, <2>2 DEF MarketsRequest
    <3>2. CandlesOf[net[i].arg.key] \in Seq(Int)
      BY <3>1 DEF PricesGiven
    <3>3. ASSUME r.ok
          PROVE  r.val[1].key = r.arg.key /\ Priced(r.val[1])
      <4>1. PICK c : c = Markets!Payload(net[i])
        OBVIOUS
      <4>2. c.key = net[i].arg.key /\ c.closes = CandlesOf[net[i].arg.key]
        BY <1>8, <2>2, <4>1 DEF Markets!Payload
      <4>3. r.val = <<c>>
        BY <1>4a, <1>8, <3>3, <4>1
      <4> QED
        BY <1>8, <3>2, <4>2, <4>3 DEF Priced
    <3> QED
      BY <1>8, <3>1, <3>3
  <2> QED
    BY <2>1, <2>2 DEF MarketsRequest
<1> QED
  BY <1>1, <1>2, <1>4a, <1>6, <1>7, <1>10 DEF MarketsInv

\* Every step of the page and of its API keeps the invariant.
LEMMA MarketsKeeps ==
  ASSUME PricesGiven, MarketsInv, Markets!MarketsNext \/ UNCHANGED <<ui, net, db, wire>>
  PROVE  MarketsInv'
<1>1. MarketsView(ui)
  BY DEF MarketsInv
<1>2. CASE \E i \in 1..Len(Assets) : Markets!SelectAsset(i)
  <2>1. PICK i \in DOMAIN ui.assets : Markets!Show([Markets!Clicked EXCEPT !.asset = <<ui.assets[i]>>])
    BY <1>2 DEF Markets!SelectAsset
  <2>2. PICK view : view = [Markets!Clicked EXCEPT !.asset = <<ui.assets[i]>>]
    OBVIOUS
  <2>3. /\ DOMAIN view = DOMAIN ui /\ view.interval = ui.interval /\ view.period = ui.period
        /\ view.asset = <<ui.assets[i]>> /\ view.assets = ui.assets
        /\ view.candles = ui.candles /\ view.cache = ui.cache
    BY <1>1, <2>2 DEF Markets!Clicked, MarketsView, MarketsFields
  <2>4. ui.assets[i] \in Range(Assets)
    <3>1. ui.assets = Assets
      BY <1>1, <2>1 DEF MarketsView
    <3> QED
      BY <2>1, <3>1 DEF Range
  <2>5. MarketsView(view)
    BY <1>1, <2>3, <2>4 DEF MarketsView
  <2> QED
    BY <2>1, <2>2, <2>5, ShowKeeps
<1>3. CASE \E interval \in Intervals : Markets!SelectInterval(interval)
  <2>1. PICK interval \in Intervals : Markets!Show([Markets!Clicked EXCEPT !.interval = interval])
    BY <1>3 DEF Markets!SelectInterval
  <2>2. PICK view : view = [Markets!Clicked EXCEPT !.interval = interval]
    OBVIOUS
  <2>3. /\ DOMAIN view = DOMAIN ui /\ view.interval = interval /\ view.period = ui.period
        /\ view.asset = ui.asset /\ view.assets = ui.assets
        /\ view.candles = ui.candles /\ view.cache = ui.cache
    BY <1>1, <2>2 DEF Markets!Clicked, MarketsView, MarketsFields
  <2>4. MarketsView(view)
    BY <1>1, <2>3 DEF MarketsView
  <2> QED
    BY <2>1, <2>2, <2>4, ShowKeeps
<1>4. CASE Markets!Retry
  <2>1. PICK view : view = Markets!Clicked /\ Markets!Show(view)
    BY <1>4 DEF Markets!Retry
  <2>2. /\ DOMAIN view = DOMAIN ui /\ view.interval = ui.interval /\ view.period = ui.period
        /\ view.asset = ui.asset /\ view.assets = ui.assets
        /\ view.candles = ui.candles /\ view.cache = ui.cache
    BY <1>1, <2>1 DEF Markets!Clicked, MarketsView, MarketsFields
  <2>3. MarketsView(view)
    BY <1>1, <2>2 DEF MarketsView
  <2> QED
    BY <2>1, <2>3, ShowKeeps
<1>5. ASSUME DOMAIN ui' = DOMAIN ui, ui'.interval = ui.interval,
             ui'.asset = ui.asset, ui'.assets = ui.assets,
             ui'.candles = ui.candles, ui'.cache = ui.cache,
             ui'.period \in Int, net' = net
      PROVE  MarketsInv'
  <2>1. MarketsView(ui')
    BY <1>1, <1>5 DEF MarketsView
  <2> QED
    BY <1>5, <2>1 DEF MarketsInv
<1>5a. CASE Markets!ToggleSma
  <2>1. /\ DOMAIN ui' = DOMAIN ui /\ ui'.interval = ui.interval
        /\ ui'.asset = ui.asset /\ ui'.assets = ui.assets
        /\ ui'.candles = ui.candles /\ ui'.cache = ui.cache
        /\ ui'.period = ui.period /\ net' = net
    BY <1>1, <1>5a DEF Markets!ToggleSma, Markets!Clicked, MarketsView, MarketsFields
  <2>2. ui'.period \in Int
    BY <1>1, <2>1 DEF MarketsView
  <2> QED
    BY <1>5, <2>1, <2>2
<1>5b. CASE \E period \in Periods : Markets!TypePeriod(period)
  <2>1. PICK period \in Periods : Markets!TypePeriod(period)
    BY <1>5b
  <2>2. /\ DOMAIN ui' = DOMAIN ui /\ ui'.interval = ui.interval
        /\ ui'.asset = ui.asset /\ ui'.assets = ui.assets
        /\ ui'.candles = ui.candles /\ ui'.cache = ui.cache
        /\ net' = net
    BY <1>1, <2>1 DEF Markets!TypePeriod, Markets!Clicked, MarketsView, MarketsFields
  <2>3. ui'.period = IF period < 2 THEN 2 ELSE period
    BY <1>1, <2>1 DEF Markets!TypePeriod, Markets!Clicked, MarketsView, MarketsFields
  <2>4. ui'.period \in Int
    <3>1. period \in Int
      BY DEF PricesGiven
    <3> QED
      BY <2>3, <3>1
  <2> QED
    BY <1>5, <2>2, <2>4
<1>6. CASE Markets!Deliver
  <2>1. PICK i \in DOMAIN net : Markets!DeliverAssets(i) \/ Markets!DeliverCandles(i)
    BY <1>6 DEF Markets!Deliver, Markets!Deliverable
  <2> QED
    BY <2>1, AssetsDelivered, CandlesDelivered
<1>7. CASE UNCHANGED <<ui, net, db, wire>>
  BY <1>1, <1>7 DEF MarketsInv
<1> QED
  BY <1>2, <1>3, <1>4, <1>5a, <1>5b, <1>6, <1>7, MarketsAnswered DEF Markets!MarketsNext

\* The page mounts with nothing cached.
LEMMA MarketsStarts ==
  ASSUME PricesGiven, Markets!MarketsInit
  PROVE  MarketsInv
<1>1. /\ MarketsFields \subseteq DOMAIN ui /\ ui.asset = <<>> /\ ui.candles = <<>> /\ ui.assets = <<>>
      /\ ui.interval = Markets!FirstInterval /\ ui.period = CHOOSE p \in Periods : TRUE
      /\ DOMAIN ui.cache = {}
  BY DEF Markets!MarketsInit, Markets!Null, MarketsFields
<1>2. Markets!FirstInterval \in Intervals
  BY DEF PricesGiven, Markets!FirstInterval
<1>3. (CHOOSE p \in Periods : TRUE) \in Periods
  BY DEF PricesGiven
<1>4. ui.period \in Int
  BY <1>1, <1>3 DEF PricesGiven
<1>5. MarketsView(ui)
  BY <1>1, <1>2, <1>4 DEF MarketsView
<1>6. PICK r : r = [op |-> "assets", arg |-> 0, back |-> FALSE, ok |-> FALSE, val |-> <<>>]
  OBVIOUS
<1>7. r.op = "assets" /\ r.ok = FALSE /\ r.back = FALSE
  BY <1>6
<1>8. IsRequest(r) /\ MarketsRequest(r)
  BY <1>6, <1>7 DEF IsRequest, MarketsRequest
<1>9. PICK n : n = Append(<<>>, r)
  OBVIOUS
<1>10. InFlight(n) /\ DOMAIN n = 1..1 /\ n[1] = r
  BY <1>8, <1>9, FirstRequest
<1>11. net = n
  BY <1>6, <1>9 DEF Markets!MarketsInit, Markets!Issue, Markets!NewRequest, Markets!Null
<1>12. \A x \in Range(n) : MarketsRequest(x)
  BY <1>8, <1>10 DEF Range
<1> QED
  BY <1>5, <1>10, <1>11, <1>12 DEF MarketsInv

----------------------------------------------------------------------------
(* The drawdown of a timeline. *)

Paper == INSTANCE PaperTradingPage
  WITH MaxClicks <- PaperClicks, MaxFailures <- PaperFailures

\* What the pass over the points remembers.
DrawdownState == [peak : Int, top : Int, bottom : Int, worst : Int]

\* The pass after a further point.
Deepen(before, point) ==
  LET peak == IF point > before.peak THEN point ELSE before.peak IN
  IF peak - point > before.worst
  THEN [peak |-> peak, top |-> peak, bottom |-> point, worst |-> peak - point]
  ELSE [before EXCEPT !.peak = peak]

\* After i points the peak is the highest of them and worst the deepest fall to one

\* of them from an earlier one; when none of them fell, the last is the peak.
DeepestOf(s, p, i) ==
  /\ s \in DrawdownState
  /\ \A j \in 1..i : p[j] <= s.peak
  /\ \E j \in 1..i : s.peak = p[j]
  /\ s.worst >= 0
  /\ \A k, j \in 1..i : k <= j => p[k] - p[j] <= s.worst
  /\ s.worst = 0 \/ \E k, j \in 1..i : k <= j /\ s.worst = p[k] - p[j]
  /\ s.top - s.bottom = s.worst
  /\ (\A j \in 2..i : p[j] >= p[j - 1]) => s.worst = 0 /\ s.peak = p[i]

\* The first point is the peak, and nothing has fallen.
LEMMA DeepestStarts ==
  ASSUME NEW p \in Seq(Int), 1 <= Len(p)
  PROVE  DeepestOf([peak |-> p[1], top |-> p[1], bottom |-> p[1], worst |-> 0], p, 1)
<1>1. PICK x \in Int : x = p[1]
  BY LenProperties, ElementOfSeq
<1>2. PICK s : s = [peak |-> x, top |-> x, bottom |-> x, worst |-> 0]
  OBVIOUS
<1>3. s \in DrawdownState /\ s.peak = x /\ s.top = x /\ s.bottom = x /\ s.worst = 0
  BY <1>2 DEF DrawdownState
<1>4. \A j \in 1..1 : j = 1
  OBVIOUS
<1>5. 1 \in 1..1 /\ x - x = 0 /\ x <= x
  OBVIOUS
<1> QED
  BY <1>1, <1>2, <1>3, <1>4, <1>5 DEF DeepestOf

\* A further point moves the peak, or deepens the fall, or neither.
LEMMA DeepestGoesOn ==
  ASSUME NEW p \in Seq(Int), NEW i \in Int, 1 <= i, i < Len(p), NEW s, DeepestOf(s, p, i)
  PROVE  DeepestOf(Deepen(s, p[i + 1]), p, i + 1)
<1>1. PICK m \in Int : m = i + 1
  OBVIOUS
<1>2. m \in 1..Len(p) /\ i \in 1..m /\ m - 1 = i /\ \A j \in 1..m : j = m \/ j \in 1..i
  BY <1>1, LenProperties
<1>3. \A j \in 1..m : p[j] \in Int
  BY <1>2, LenProperties, ElementOfSeq
<1>4. PICK x \in Int : x = p[m]
  BY <1>2, <1>3
<1>5. /\ s.peak \in Int /\ s.worst \in Int /\ s.top \in Int /\ s.bottom \in Int
      /\ s.worst >= 0 /\ s.top - s.bottom = s.worst
  BY DEF DeepestOf, DrawdownState
<1>6. PICK peak \in Int : peak = IF x > s.peak THEN x ELSE s.peak
  BY <1>5
<1>7. x <= peak /\ s.peak <= peak
  BY <1>5, <1>6
<1>8. PICK n : n = Deepen(s, x)
  OBVIOUS
<1>9. n = IF peak - x > s.worst
          THEN [peak |-> peak, top |-> peak, bottom |-> x, worst |-> peak - x]
          ELSE [s EXCEPT !.peak = peak]
  BY <1>6, <1>8 DEF Deepen
<1>10. /\ n \in DrawdownState /\ n.peak = peak
       /\ n.worst = (IF peak - x > s.worst THEN peak - x ELSE s.worst)
       /\ n.top - n.bottom = n.worst
  <2>1. CASE peak - x > s.worst
    BY <1>9, <2>1 DEF DrawdownState
  <2>2. CASE ~(peak - x > s.worst)
    <3>1. n = [s EXCEPT !.peak = peak] /\ s \in DrawdownState
      BY <1>9, <2>2 DEF DeepestOf
    <3>2. n \in DrawdownState /\ n.peak = peak /\ n.worst = s.worst /\ n.top = s.top /\ n.bottom = s.bottom
      BY <3>1 DEF DrawdownState
    <3> QED
      BY <1>5, <2>2, <3>2
  <2> QED
    BY <2>1, <2>2
<1>11. n.worst \in Int /\ n.worst >= s.worst /\ n.worst >= peak - x /\ n.worst >= 0
  <2>1. PICK w \in Int : w = s.worst
    BY <1>5
  <2>2. PICK d : d = n.worst /\ d = IF peak - x > w THEN peak - x ELSE w
    BY <1>10, <2>1
  <2>3. w >= 0
    BY <1>5, <2>1
  <2>4. d \in Int /\ d >= w /\ d >= peak - x /\ d >= 0
    BY <2>2, <2>3
  <2> QED
    BY <2>1, <2>2, <2>4
<1>12. \A j \in 1..m : p[j] <= n.peak
  <2> SUFFICES ASSUME NEW j \in 1..m
               PROVE  p[j] <= n.peak
    OBVIOUS
  <2>1. CASE j = m
    BY <1>4, <1>7, <1>10, <2>1
  <2>2. CASE j \in 1..i
    <3>1. PICK y \in Int : y = p[j]
      BY <1>3
    <3>2. y <= s.peak
      BY <2>2, <3>1 DEF DeepestOf
    <3>3. y <= peak
      BY <1>5, <1>7, <3>2
    <3> QED
      BY <1>10, <3>1, <3>3
  <2> QED
    BY <1>2, <2>1, <2>2
<1>13. \E j \in 1..m : n.peak = p[j]
  <2>1. CASE peak = x
    <3>1. m \in 1..m
      BY <1>2
    <3> QED
      BY <1>4, <1>10, <2>1, <3>1
  <2>2. CASE peak = s.peak
    <3>1. PICK j \in 1..i : s.peak = p[j]
      BY DEF DeepestOf
    <3>2. j \in 1..m
      BY <1>1
    <3> QED
      BY <1>10, <2>2, <3>1, <3>2
  <2> QED
    BY <1>6, <2>1, <2>2
<1>14. \A k, j \in 1..m : k <= j => p[k] - p[j] <= n.worst
  <2> SUFFICES ASSUME NEW k \in 1..m, NEW j \in 1..m, k <= j
               PROVE  p[k] - p[j] <= n.worst
    OBVIOUS
  <2>1. PICK y \in Int, z \in Int : y = p[k] /\ z = p[j]
    BY <1>3
  <2>2. CASE j = m
    <3>1. z = x
      BY <1>4, <2>1, <2>2
    <3>2. y <= peak
      BY <1>10, <1>12, <2>1
    <3>3. y - z <= n.worst
      BY <1>11, <3>1, <3>2
    <3> QED
      BY <2>1, <3>3
  <2>3. CASE j \in 1..i
    <3>1. k \in 1..i
      BY <2>3
    <3>2. p[k] - p[j] <= s.worst
      BY <2>3, <3>1 DEF DeepestOf
    <3>3. y - z <= n.worst
      <4>1. PICK w \in Int, d \in Int : w = s.worst /\ d = n.worst
        BY <1>5, <1>11
      <4>2. y - z <= w /\ w <= d
        BY <1>11, <2>1, <3>2, <4>1
      <4>3. y - z <= d
        BY <4>2
      <4> QED
        BY <4>1, <4>3
    <3> QED
      BY <2>1, <3>3
  <2> QED
    BY <1>2, <2>2, <2>3
<1>15. n.worst = 0 \/ \E k, j \in 1..m : k <= j /\ n.worst = p[k] - p[j]
  <2>1. CASE n.worst = s.worst
    <3>1. CASE s.worst = 0
      BY <2>1, <3>1
    <3>2. CASE s.worst # 0
      <4>1. PICK k \in 1..i : \E j \in 1..i : k <= j /\ s.worst = p[k] - p[j]
        BY <3>2 DEF DeepestOf
      <4>2. PICK j \in 1..i : k <= j /\ s.worst = p[k] - p[j]
        BY <4>1
      <4>3. k \in 1..m /\ j \in 1..m
        BY <1>1
      <4> QED
        BY <2>1, <4>2, <4>3
    <3> QED
      BY <3>1, <3>2
  <2>2. CASE n.worst = peak - x
    <3>1. PICK k \in 1..m : peak = p[k]
      BY <1>10, <1>13
    <3>2. m \in 1..m /\ k <= m /\ n.worst = p[k] - p[m]
      BY <1>2, <1>4, <2>2, <3>1
    <3> QED
      BY <3>2
  <2> QED
    BY <1>10, <2>1, <2>2
<1>16. ASSUME \A j \in 2..m : p[j] >= p[j - 1]
       PROVE  n.worst = 0 /\ n.peak = p[m]
  <2>1. \A j \in 2..i : p[j] >= p[j - 1]
    <3>1. \A j \in 2..i : j \in 2..m
      BY <1>1
    <3> QED
      BY <1>16, <3>1
  <2>2. s.worst = 0 /\ s.peak = p[i]
    BY <2>1 DEF DeepestOf
  <2>3. p[m] >= p[m - 1]
    <3>1. m \in 2..m
      BY <1>1
    <3> QED
      BY <1>16, <3>1
  <2>4. x >= s.peak
    BY <1>2, <1>4, <2>2, <2>3
  <2>5. peak = x
    BY <1>5, <1>6, <2>4
  <2>6. n.worst = 0
    BY <1>10, <2>2, <2>5
  <2> QED
    BY <1>4, <1>10, <2>5, <2>6
<1>17. DeepestOf(n, p, m)
  BY <1>10, <1>11, <1>12, <1>13, <1>14, <1>15, <1>16 DEF DeepestOf
<1> QED
  BY <1>1, <1>4, <1>8, <1>17

\* The pass exists, and what it remembers is right after every point.
LEMMA DrawdownPasses ==
  ASSUME NEW p \in Seq(Int), p # <<>>
  PROVE  DeepestOf(Paper!Drawdown(p), p, Len(p))
<1> DEFINE n == Len(p)
           first == [peak |-> p[1], top |-> p[1], bottom |-> p[1], worst |-> 0]
           next == [x \in (2..n) \X DrawdownState |-> Deepen(x[2], p[x[1]])]
           Solves(f) == f = [i \in 1..n |-> IF i = 1 THEN first ELSE Deepen(f[i - 1], p[i])]
<1>1. n \in Nat /\ n >= 1 /\ \A i \in 1..n : p[i] \in Int
  <2>1. Len(p) \in Nat /\ Len(p) # 0
    BY EmptySeq, LenProperties
  <2> QED
    BY <2>1, ElementOfSeq
<1>2. first \in DrawdownState
  BY <1>1 DEF DrawdownState
<1>3. \A s \in DrawdownState : \A x \in Int : Deepen(s, x) \in DrawdownState
  <2> SUFFICES ASSUME NEW s \in DrawdownState, NEW x \in Int
               PROVE  Deepen(s, x) \in DrawdownState
    OBVIOUS
  <2>1. PICK peak \in Int : peak = IF x > s.peak THEN x ELSE s.peak
    BY DEF DrawdownState
  <2>2. Deepen(s, x) = IF peak - x > s.worst
                       THEN [peak |-> peak, top |-> peak, bottom |-> x, worst |-> peak - x]
                       ELSE [s EXCEPT !.peak = peak]
    BY <2>1 DEF Deepen
  <2> QED
    BY <2>2 DEF DrawdownState
<1>4. next \in [((1 + 1)..n) \X DrawdownState -> DrawdownState]
  BY <1>1, <1>3
<1>5. \E f : Solves(f)
  <2>1. PICK f \in [1..n -> DrawdownState] : Iterates(f, 1, n, first, next)
    <3>1. 1 \in Int /\ n \in Int /\ 1 <= n
      BY <1>1
    <3> HIDE DEF next, first, n
    <3> QED
      BY <1>2, <1>4, <3>1, Iteration
  <2>2. ASSUME NEW i \in 2..n
        PROVE  f[i] = Deepen(f[i - 1], p[i])
    <3>1. i - 1 \in 1..n
      BY <1>1
    <3>2. f[i - 1] \in DrawdownState
      <4> HIDE DEF n, next
      <4> QED
        BY <2>1, <3>1
    <3>3. f[i] = next[<<i, f[i - 1]>>]
      <4>1. i \in (1 + 1)..n
        OBVIOUS
      <4> HIDE DEF next, n, first
      <4> QED
        BY <2>1, <4>1 DEF Iterates
    <3> QED
      BY <3>2, <3>3
  <2>3. f[1] = first
    BY <2>1 DEF Iterates
  <2> HIDE DEF first
  <2>4. \A i \in 1..n : i = 1 \/ i \in 2..n
    BY <1>1
  <2>5. Solves(f)
    <3>1. \A i \in 1..n : f[i] = IF i = 1 THEN first ELSE Deepen(f[i - 1], p[i])
      BY <2>2, <2>3, <2>4
    <3>2. f = [i \in 1..n |-> f[i]]
      BY <2>1
    <3> HIDE DEF n
    <3> QED
      BY <3>1, <3>2
  <2> HIDE DEF Solves
  <2> QED
    BY <2>5
<1>6. PICK step : step = CHOOSE f : Solves(f)
  OBVIOUS
<1>7. Solves(step)
  BY <1>5, <1>6
<1>8. step[1] = first /\ \A i \in 2..n : step[i] = Deepen(step[i - 1], p[i])
  <2>1. 1 \in 1..n /\ \A i \in 2..n : i \in 1..n /\ i # 1
    BY <1>1
  <2>2. \A i \in 1..n : step[i] = IF i = 1 THEN first ELSE Deepen(step[i - 1], p[i])
    <3> HIDE DEF n, first
    <3> QED
      BY <1>7
  <2> HIDE DEF n, first
  <2> QED
    BY <2>1, <2>2
<1> DEFINE Right == {i \in Int : DeepestOf(step[i], p, i)}
<1>9. 1 \in Right
  <2>1. DeepestOf(step[1], p, 1)
    BY <1>1, <1>8, DeepestStarts
  <2> QED
    BY <2>1
<1>10. ASSUME NEW i \in 1..(n - 1), i \in Right
       PROVE  i + 1 \in Right
  <2>1. PICK k, s : k = i + 1 /\ s = step[i]
    OBVIOUS
  <2>2. k \in 2..n /\ k - 1 = i /\ i \in Int /\ 1 <= i /\ i < Len(p) /\ k \in Int
    BY <1>1, <2>1
  <2>3. DeepestOf(s, p, i)
    BY <1>10, <2>1
  <2>4. DeepestOf(Deepen(s, p[i + 1]), p, i + 1)
    BY <2>2, <2>3, DeepestGoesOn
  <2>5. step[k] = Deepen(s, p[k])
    BY <1>8, <2>1, <2>2
  <2> QED
    BY <2>1, <2>2, <2>4, <2>5
<1>11. n \in Right
  <2>1. 1 \in Int /\ n \in Int /\ n \in 1..n
    BY <1>1
  <2> HIDE DEF Right, n
  <2>2. \A i \in 1..(n - 1) : i \in Right => i + 1 \in Right
    BY <1>10
  <2>3. \A i \in 1..n : i \in Right
    BY <1>9, <2>1, <2>2, RangeInduction
  <2> QED
    BY <2>1, <2>3
<1>12. Paper!Drawdown(p) = step[n]
  BY <1>6 DEF Paper!Drawdown, Deepen
<1> QED
  BY <1>11, <1>12

\* The deepest fall is the greatest of all falls, and there is none exactly when no

\* step falls.
LEMMA DeepestIs ==
  ASSUME NEW p \in Seq(Int)
  PROVE  LET places == {q \in (DOMAIN p) \X (DOMAIN p) : q[1] <= q[2]}
             found == Paper!Drawdown(p)
         IN  /\ found.worst = Paper!Max({p[q[1]] - p[q[2]] : q \in places} \cup {0})
             /\ found.worst = 0 <=> Paper!RisingSteps(p) = 2..Len(p)
             /\ found.top - found.bottom = found.worst
<1> DEFINE places == {q \in (DOMAIN p) \X (DOMAIN p) : q[1] <= q[2]}
           Falls == {p[q[1]] - p[q[2]] : q \in places} \cup {0}
<1>1. PICK found : found = Paper!Drawdown(p)
  OBVIOUS
<1>2. Len(p) \in Nat /\ DOMAIN p = 1..Len(p) /\ \A i \in 1..Len(p) : p[i] \in Int
  BY LenProperties, ElementOfSeq
<1>3. CASE p = <<>>
  <2>1. Len(p) = 0 /\ DOMAIN p = {}
    BY <1>2, <1>3
  <2>2. found = [peak |-> 0, top |-> 0, bottom |-> 0, worst |-> 0]
    BY <1>1, <1>3 DEF Paper!Drawdown
  <2>3. found.worst = 0 /\ found.top - found.bottom = 0
    BY <2>2
  <2>4. Falls = {0}
    BY <2>1
  <2>5. Paper!Max({0}) = 0
    <3>1. \A y \in {0} : 0 >= y
      OBVIOUS
    <3> QED
      BY <3>1 DEF Paper!Max
  <2>6. Paper!RisingSteps(p) = 2..Len(p)
    BY <2>1 DEF Paper!RisingSteps
  <2> QED
    BY <1>1, <2>3, <2>4, <2>5, <2>6
<1>4. CASE p # <<>>
  <2>1. DeepestOf(found, p, Len(p))
    BY <1>1, <1>4, DrawdownPasses
  <2>2. PICK worst \in Int : worst = found.worst
    BY <2>1 DEF DeepestOf, DrawdownState
  <2>3. \A y \in Falls : y \in Int /\ worst >= y
    <3> SUFFICES ASSUME NEW y \in Falls
                 PROVE  y \in Int /\ worst >= y
      OBVIOUS
    <3>1. CASE y = 0
      BY <2>1, <2>2, <3>1 DEF DeepestOf
    <3>2. CASE y # 0
      <4>1. PICK q \in places : y = p[q[1]] - p[q[2]]
        BY <3>2
      <4>2. PICK k \in 1..Len(p), j \in 1..Len(p) : k = q[1] /\ j = q[2] /\ k <= j
        BY <1>2, <4>1
      <4>3. p[k] - p[j] <= worst
        BY <2>1, <2>2, <4>2 DEF DeepestOf
      <4>4. p[k] \in Int /\ p[j] \in Int
        BY <1>2, <4>2
      <4>5. y = p[k] - p[j]
        BY <4>1, <4>2
      <4> HIDE DEF places
      <4> QED
        BY <4>3, <4>4, <4>5
    <3> QED
      BY <3>1, <3>2
  <2>4. worst \in Falls
    <3>1. CASE worst = 0
      BY <3>1
    <3>2. CASE worst # 0
      <4>1. PICK k \in 1..Len(p) : \E j \in 1..Len(p) : k <= j /\ worst = p[k] - p[j]
        BY <2>1, <2>2, <3>2 DEF DeepestOf
      <4>2. PICK j \in 1..Len(p) : k <= j /\ worst = p[k] - p[j]
        BY <4>1
      <4>3. PICK q : q = <<k, j>>
        OBVIOUS
      <4>4. q \in places /\ worst = p[q[1]] - p[q[2]]
        BY <1>2, <4>2, <4>3
      <4> HIDE DEF places
      <4> QED
        BY <4>4
    <3> QED
      BY <3>1, <3>2
  <2>5. Paper!Max(Falls) = worst
    <3> HIDE DEF Falls
    <3>1. PICK m : m = Paper!Max(Falls)
      OBVIOUS
    <3>2. m \in Falls /\ \A y \in Falls : m >= y
      BY <2>3, <2>4, <3>1 DEF Paper!Max
    <3>3. m \in Int /\ m >= worst /\ worst >= m
      BY <2>3, <2>4, <3>2
    <3> QED
      BY <3>1, <3>3
  <2>6. worst = 0 <=> Paper!RisingSteps(p) = 2..Len(p)
    <3>1. ASSUME worst = 0
          PROVE  \A i \in 2..Len(p) : p[i] >= p[i - 1]
      <4> SUFFICES ASSUME NEW i \in 2..Len(p)
                   PROVE  p[i] >= p[i - 1]
        OBVIOUS
      <4>1. PICK k : k = i - 1
        OBVIOUS
      <4>2. k \in 1..Len(p) /\ i \in 1..Len(p) /\ k <= i
        BY <1>2, <4>1
      <4>3. PICK y \in Int, z \in Int : y = p[k] /\ z = p[i]
        BY <1>2, <4>2
      <4>4. y - z <= 0
        BY <2>1, <2>2, <3>1, <4>2, <4>3 DEF DeepestOf
      <4>5. z >= y
        BY <4>4
      <4> QED
        BY <4>1, <4>3, <4>5
    <3>2. ASSUME \A i \in 2..Len(p) : p[i] >= p[i - 1]
          PROVE  worst = 0
      BY <2>1, <2>2, <3>2 DEF DeepestOf
    <3>3. Paper!RisingSteps(p) = {i \in 2..Len(p) : p[i] >= p[i - 1]}
      BY DEF Paper!RisingSteps
    <3> QED
      BY <3>1, <3>2, <3>3
  <2>7. found.top - found.bottom = worst
    BY <2>1, <2>2 DEF DeepestOf
  <2> QED
    BY <1>1, <2>2, <2>5, <2>6, <2>7
<1> QED
  BY <1>3, <1>4

----------------------------------------------------------------------------
(* The timeline. *)

\* Trades whose sizes and fees are numbers.
NumberTrades(trades) ==
  trades \in Seq(Range(trades)) /\ \A t \in Range(trades) : t.notional \in Int /\ t.fee \in Int

\* The running balance is a sequence of numbers.
LEMMA TimelineOfNumbers ==
  ASSUME NEW account, account.start \in Int, account.equity \in Int, NEW trades, NumberTrades(trades)
  PROVE  Paper!Timeline(account, trades) \in Seq(Int)
<1> DEFINE past == Paper!Reverse(trades)
           n == Len(past)
           Gains(t) == (IF t.side = "sell" THEN t.notional ELSE -t.notional) - t.fee
           next == [x \in (1..n) \X Int |-> x[2] + Gains(past[x[1]])]
           Solves(f) == f = [i \in 0..n |->
             IF i = 0 THEN account.start
             ELSE f[i - 1] + (IF past[i].side = "sell" THEN past[i].notional ELSE -past[i].notional)
                           - past[i].fee]
<1>1. n \in Nat /\ \A i \in 1..n : past[i].notional \in Int /\ past[i].fee \in Int
  <2>1. Len(trades) \in Nat /\ DOMAIN trades = 1..Len(trades)
    BY LenProperties DEF NumberTrades
  <2>2. /\ past = [i \in 1..Len(trades) |-> trades[(Len(trades) - i) + 1]]
    BY DEF Paper!Reverse
  <2>3. DOMAIN past = 1..Len(trades) /\ \A i \in 1..Len(trades) : past[i] \in Range(trades)
    <3>1. \A i \in 1..Len(trades) : (Len(trades) - i) + 1 \in DOMAIN trades
      BY <2>1
    <3> QED
      BY <2>2, <3>1 DEF Range
  <2>4. past \in Seq(Range(trades))
    <3>1. past = [i \in 1..Len(trades) |-> past[i]]
      BY <2>2
    <3> HIDE DEF past
    <3> QED
      BY <2>1, <2>3, <3>1, IsASeq
  <2>5. n \in Nat /\ DOMAIN past = 1..n
    <3> HIDE DEF past
    <3> QED
      BY <2>4, LenProperties
  <2> HIDE DEF past, n
  <2> QED
    BY <2>3, <2>5 DEF NumberTrades
<1> HIDE DEF past
<1>2. \A i \in 1..n : Gains(past[i]) \in Int
  <2> SUFFICES ASSUME NEW i \in 1..n
               PROVE  Gains(past[i]) \in Int
    OBVIOUS
  <2>1. PICK v \in Int, g \in Int : v = past[i].notional /\ g = past[i].fee
    BY <1>1
  <2>2. v - g \in Int /\ (-v) - g \in Int
    OBVIOUS
  <2>3. Gains(past[i]) = IF past[i].side = "sell" THEN v - g ELSE (-v) - g
    BY <2>1
  <2> QED
    BY <2>2, <2>3
<1>3. next \in [((0 + 1)..n) \X Int -> Int]
  BY <1>2
<1>4. \E f : Solves(f)
  <2>1. PICK f \in [0..n -> Int] : Iterates(f, 0, n, account.start, next)
    <3>1. 0 \in Int /\ n \in Int /\ 0 <= n
      BY <1>1
    <3> HIDE DEF next, n
    <3>2. PICK start \in Int : start = account.start
      OBVIOUS
    <3>3. \E f \in [0..n -> Int] : Iterates(f, 0, n, start, next)
      BY <1>3, <3>1, Iteration
    <3> QED
      BY <3>2, <3>3
  <2>2. ASSUME NEW i \in 1..n
        PROVE  f[i] = f[i - 1] + (IF past[i].side = "sell" THEN past[i].notional ELSE -past[i].notional)
                               - past[i].fee
    <3>1. i - 1 \in 0..n
      BY <1>1
    <3>2. f[i - 1] \in Int
      <4> HIDE DEF n, next
      <4> QED
        BY <2>1, <3>1
    <3>3. f[i] = next[<<i, f[i - 1]>>]
      <4>1. i \in (0 + 1)..n
        OBVIOUS
      <4> HIDE DEF next, n
      <4> QED
        BY <2>1, <4>1 DEF Iterates
    <3>4. f[i] = f[i - 1] + Gains(past[i])
      BY <3>2, <3>3
    <3>5. PICK y \in Int, v \in Int, g \in Int : y = f[i - 1] /\ v = past[i].notional /\ g = past[i].fee
      BY <1>1, <3>2
    <3>6. CASE past[i].side = "sell"
      <4>1. f[i] = y + (v - g)
        BY <3>4, <3>5, <3>6
      <4>2. y + (v - g) = y + v - g
        OBVIOUS
      <4> QED
        BY <3>5, <3>6, <4>1, <4>2
    <3>7. CASE past[i].side # "sell"
      <4>1. f[i] = y + ((-v) - g)
        BY <3>4, <3>5, <3>7
      <4>2. y + ((-v) - g) = y + (-v) - g
        OBVIOUS
      <4> QED
        BY <3>5, <3>7, <4>1, <4>2
    <3> QED
      BY <3>6, <3>7
  <2>3. f[0] = account.start
    BY <2>1 DEF Iterates
  <2> HIDE DEF n
  <2>4. Solves(f)
    BY <2>1, <2>2, <2>3
  <2> HIDE DEF Solves
  <2> QED
    BY <2>4
<1>5. PICK moved : moved = CHOOSE f : Solves(f)
  OBVIOUS
<1>6. Solves(moved)
  BY <1>4, <1>5
<1>7. /\ moved[0] = account.start
      /\ \A i \in 1..n :
           moved[i] = moved[i - 1] + (IF past[i].side = "sell" THEN past[i].notional ELSE -past[i].notional)
                                   - past[i].fee
  <2>1. 0 \in 0..n /\ \A i \in 1..n : i \in 0..n /\ i # 0
    BY <1>1
  <2> HIDE DEF n
  <2> QED
    BY <1>6, <2>1
<1> DEFINE Whole == {i \in Int : moved[i] \in Int}
<1>8. 0 \in Whole
  BY <1>7
<1>9. ASSUME NEW i \in 0..(n - 1), i \in Whole
      PROVE  i + 1 \in Whole
  <2>1. PICK k : k = i + 1
    OBVIOUS
  <2>2. k \in 1..n /\ k - 1 = i /\ k \in Int
    BY <1>1, <2>1
  <2>3. PICK y \in Int, v \in Int, g \in Int : y = moved[i] /\ v = past[k].notional /\ g = past[k].fee
    BY <1>1, <1>9, <2>2
  <2>4. moved[k] = y + (IF past[k].side = "sell" THEN v ELSE -v) - g
    BY <1>7, <2>2, <2>3
  <2>5. y + v - g \in Int /\ y + (-v) - g \in Int
    OBVIOUS
  <2>6. moved[k] \in Int
    BY <2>4, <2>5
  <2> QED
    BY <2>1, <2>2, <2>6
<1>10. \A i \in 0..n : moved[i] \in Int
  <2>1. 0 \in Int /\ n \in Int
    BY <1>1
  <2>2. \A i \in 0..(n - 1) : i \in Whole => i + 1 \in Whole
    BY <1>9
  <2> HIDE DEF Whole, n
  <2>3. \A i \in 0..n : i \in Whole
    BY <1>8, <2>1, <2>2, RangeInduction
  <2> QED
    BY <2>3 DEF Whole
<1>11. Paper!Timeline(account, trades) =
         [i \in 1..(n + 2) |-> IF i = n + 2 THEN account.equity ELSE moved[i - 1]]
  BY <1>5 DEF Paper!Timeline, past
<1>12. \A i \in 1..(n + 2) : (IF i = n + 2 THEN account.equity ELSE moved[i - 1]) \in Int
  <2> SUFFICES ASSUME NEW i \in 1..(n + 2), i # n + 2
               PROVE  moved[i - 1] \in Int
    OBVIOUS
  <2>1. i - 1 \in 0..n
    BY <1>1
  <2> QED
    BY <1>10, <2>1
<1>13. n + 2 \in Nat
  BY <1>1
<1> HIDE DEF n
<1> QED
  BY <1>11, <1>12, <1>13, IsASeq

----------------------------------------------------------------------------
(* The paper page: whose trades it shows. *)

PaperFields == {"account", "selected", "loading", "pageError", "formError", "resetError", "creating",
                "resetting", "confirmOpen", "trades", "filter", "tradesLoading", "tradesError", "clicks"}

\* Balances, sizes and fees are numbers.
MoneyGiven == Balances \subseteq Int /\ TradeSize \in Int /\ TradeFee \in Int

\* The trades of an account.
TradesOf(trades, a) == NumberTrades(trades) /\ \A t \in Range(trades) : t.account = a

\* An account the API holds.
AccountHeld(a, account) ==
  /\ DOMAIN account = {"start", "cash", "position", "trades"}
  /\ account.start \in Int /\ account.cash \in Int /\ account.position \in Int
  /\ TradesOf(account.trades, a)

AccountsHeld(accounts) ==
  Paper!Primary \in DOMAIN accounts /\ \A a \in DOMAIN accounts : AccountHeld(a, accounts[a])

\* An account as the page has it: one of those the API holds.
AccountShown(ids, account) ==
  /\ DOMAIN account = {"id", "start", "cash", "equity"}
  /\ account.id \in ids /\ account.start \in Int /\ account.equity \in Int

PaperView(ids, view) ==
  /\ DOMAIN view = PaperFields
  /\ view.account # <<>> => AccountShown(ids, view.account[1])
  /\ NumberTrades(view.trades)

\* What requests ask for, and what their answers carry.
PaperRequest(ids, r) ==
  /\ r.op = "account" => (r.ok => AccountShown(ids, r.val[1]))
  /\ r.op = "create" => r.arg \in Int /\ (r.ok => AccountShown(ids, r.val[1]))
  /\ r.op = "reset" => AccountShown(ids, r.arg)
  /\ r.op = "trades" => r.arg.account \in ids /\ (r.ok => TradesOf(r.val[1], r.arg.account))

PaperRequests(ids, q) == InFlight(q) /\ \A r \in Range(q) : PaperRequest(ids, r)

\* The last of the requests for trades is for the active account; when none is on

\* its way, the trades shown are that account's.
Synced(q, account, trades) ==
  account # <<>> =>
    /\ \A i \in DOMAIN q :
         q[i].op = "trades" /\ (\A j \in DOMAIN q : j > i => q[j].op # "trades") =>
           q[i].arg.account = account[1].id
    /\ (\A i \in DOMAIN q : q[i].op # "trades") =>
         \A t \in Range(trades) : t.account = account[1].id

PaperInv ==
  /\ DOMAIN db = {"accounts", "failures"} /\ AccountsHeld(db.accounts)
  /\ PaperView(DOMAIN db.accounts, ui)
  /\ PaperRequests(DOMAIN db.accounts, net)
  /\ wire = "ordered" => Synced(net, ui.account, ui.trades)

\* The analytics are of the active account.
LEMMA AnalyticsHold ==
  ASSUME PaperInv
  PROVE  Paper!AnalyticsOfAccount
<1>1. Paper!PaperTradesOfAccount
  <2> SUFFICES ASSUME wire = "ordered", net = <<>>, ui.account # <<>>, NEW i \in DOMAIN ui.trades
               PROVE  ui.trades[i].account = ui.account[1].id
    BY DEF Paper!PaperTradesOfAccount, Paper!Null
  <2>1. DOMAIN net = {}
    <3>1. Len(net) = 0 /\ DOMAIN net = 1..Len(net)
      OBVIOUS
    <3> QED
      BY <3>1
  <2>2. Synced(net, ui.account, ui.trades)
    BY DEF PaperInv
  <2>3. \A t \in Range(ui.trades) : t.account = ui.account[1].id
    BY <2>1, <2>2 DEF Synced
  <2> QED
    BY <2>3 DEF Range
<1>2. PICK p \in Seq(Int) : p = Paper!ShownTimeline
  <2>1. CASE ui.account = <<>>
    <3>1. Paper!ShownTimeline = <<>>
      BY <2>1 DEF Paper!ShownTimeline, Paper!Null
    <3> QED
      BY <3>1, EmptySeq
  <2>2. CASE ui.account # <<>>
    <3>1. PICK account, trades : account = ui.account[1] /\ trades = ui.trades
      OBVIOUS
    <3>2. account.start \in Int /\ account.equity \in Int /\ NumberTrades(trades)
      BY <2>2, <3>1 DEF PaperInv, PaperView, AccountShown
    <3>3. Paper!Timeline(account, trades) \in Seq(Int)
      BY <3>2, TimelineOfNumbers
    <3>4. Paper!ShownTimeline = Paper!Timeline(account, trades)
      BY <2>2, <3>1 DEF Paper!ShownTimeline, Paper!Null
    <3> QED
      BY <3>3, <3>4
  <2> QED
    BY <2>1, <2>2
<1>3. Paper!DrawdownIsDeepest
  BY <1>2, DeepestIs DEF Paper!DrawdownIsDeepest
<1> QED
  BY <1>1, <1>3 DEF Paper!AnalyticsOfAccount

\* A request for something else changes nothing about the trades.
LEMMA SyncedOther ==
  ASSUME NEW q, InFlight(q), NEW r, IsRequest(r), r.op # "trades",
         NEW account, NEW trades, Synced(q, account, trades)
  PROVE  Synced(Append(q, r), account, trades)
<1>1. PICK n, k : n = Append(q, r) /\ k = Len(q)
  OBVIOUS
<1>2. /\ k \in Nat /\ DOMAIN q = 1..k /\ DOMAIN n = 1..(k + 1)
      /\ \A j \in 1..k : n[j] = q[j]
      /\ n[k + 1] = r
  BY <1>1, Issued
<1>3. \A j \in 1..k : j \in DOMAIN n
  BY <1>2
<1>4. \A j \in DOMAIN n : n[j].op = "trades" => j \in 1..k
  BY <1>2
<1> SUFFICES ASSUME account # <<>>
             PROVE  Synced(n, account, trades)
  BY <1>1 DEF Synced
<1>5. ASSUME NEW i \in DOMAIN n, n[i].op = "trades", \A j \in DOMAIN n : j > i => n[j].op # "trades"
      PROVE  n[i].arg.account = account[1].id
  <2>1. i \in 1..k
    BY <1>4, <1>5
  <2>2. \A j \in DOMAIN q : j > i => q[j].op # "trades"
    BY <1>2, <1>3, <1>5
  <2>3. n[i] = q[i] /\ i \in DOMAIN q
    BY <1>2, <2>1
  <2> QED
    BY <1>5, <2>2, <2>3 DEF Synced
<1>6. ASSUME \A i \in DOMAIN n : n[i].op # "trades"
      PROVE  \A t \in Range(trades) : t.account = account[1].id
  <2>1. \A i \in DOMAIN q : q[i].op # "trades"
    BY <1>2, <1>3, <1>6
  <2> QED
    BY <2>1 DEF Synced
<1> QED
  BY <1>5, <1>6 DEF Synced

\* A request for the trades of the active account is the last one.
LEMMA SyncedAsked ==
  ASSUME NEW q, InFlight(q), NEW r, IsRequest(r), r.op = "trades",
         NEW account, r.arg.account = account[1].id, NEW trades
  PROVE  Synced(Append(q, r), account, trades)
<1>1. PICK n, k : n = Append(q, r) /\ k = Len(q)
  OBVIOUS
<1>2. k \in Nat /\ DOMAIN n = 1..(k + 1) /\ n[k + 1] = r
  BY <1>1, Issued
<1>3. k + 1 \in DOMAIN n /\ \A i \in DOMAIN n : i # k + 1 => k + 1 > i
  BY <1>2
<1>4. ASSUME NEW i \in DOMAIN n, \A j \in DOMAIN n : j > i => n[j].op # "trades"
      PROVE  i = k + 1
  BY <1>2, <1>3, <1>4
<1>5. ~ \A i \in DOMAIN n : n[i].op # "trades"
  BY <1>2, <1>3
<1>6. Synced(n, account, trades)
  BY <1>2, <1>4, <1>5 DEF Synced
<1> QED
  BY <1>1, <1>6

\* The oldest request was answered: when it was the last for trades, they are shown.
LEMMA SyncedHandled ==
  ASSUME NEW q, InFlight(q), 1 \in DOMAIN q, NEW account, NEW trades, Synced(q, account, trades), NEW shown,
         q[1].op # "trades" => shown = trades,
         q[1].op = "trades" => \A t \in Range(shown) : t.account = q[1].arg.account
  PROVE  Synced(Without(q, 1), account, shown)
<1>1. PICK one \in DOMAIN q : one = 1
  OBVIOUS
<1>2. PICK n, k : n = Without(q, one) /\ k = Len(q)
  OBVIOUS
<1>3. /\ k \in Nat /\ DOMAIN q = 1..k /\ DOMAIN n = 1..(k - 1)
      /\ \A j \in 1..(k - 1) : n[j] = q[IF j < one THEN j ELSE j + 1]
  BY <1>2, Removed
<1>4. \A j \in DOMAIN n : j \in Int /\ j + 1 \in DOMAIN q /\ n[j] = q[j + 1]
  <2> SUFFICES ASSUME NEW j \in DOMAIN n
               PROVE  j \in Int /\ j + 1 \in DOMAIN q /\ n[j] = q[j + 1]
    OBVIOUS
  <2>1. j \in 1..(k - 1) /\ ~(j < one)
    BY <1>1, <1>3
  <2> QED
    BY <1>3, <2>1
<1>5. \A j \in DOMAIN q : j # 1 => j - 1 \in DOMAIN n /\ (j - 1) + 1 = j
  BY <1>3
<1> SUFFICES ASSUME account # <<>>
             PROVE  Synced(n, account, shown)
  BY <1>1, <1>2 DEF Synced
<1>6. ASSUME NEW i \in DOMAIN n, n[i].op = "trades", \A j \in DOMAIN n : j > i => n[j].op # "trades"
      PROVE  n[i].arg.account = account[1].id
  <2>1. PICK m \in DOMAIN q : m = i + 1 /\ n[i] = q[m]
    BY <1>4
  <2>2. ASSUME NEW j \in DOMAIN q, j > m
        PROVE  q[j].op # "trades"
    <3>1. PICK l : l = j - 1
      OBVIOUS
    <3>2. i \in Int /\ j \in 1..k /\ j > i + 1
      BY <1>3, <1>4, <2>1, <2>2
    <3>3. l \in 1..(k - 1) /\ l > i /\ j = l + 1
      BY <1>3, <3>1, <3>2
    <3> QED
      BY <1>3, <1>4, <1>6, <3>3
  <2> QED
    BY <1>6, <2>1, <2>2 DEF Synced
<1>7. ASSUME \A i \in DOMAIN n : n[i].op # "trades"
      PROVE  \A t \in Range(shown) : t.account = account[1].id
  <2>1. \A j \in DOMAIN q : j # 1 => q[j].op # "trades"
    <3> SUFFICES ASSUME NEW j \in DOMAIN q, j # 1
                 PROVE  q[j].op # "trades"
      OBVIOUS
    <3>1. PICK l : l = j - 1
      OBVIOUS
    <3>2. l \in DOMAIN n /\ l + 1 = j
      BY <1>5, <3>1
    <3> QED
      BY <1>4, <1>7, <3>2
  <2>2. CASE q[1].op = "trades"
    <3>1. \A j \in DOMAIN q : j > 1 => q[j].op # "trades"
      BY <2>1
    <3>2. q[1].arg.account = account[1].id
      BY <2>2, <3>1 DEF Synced
    <3> QED
      BY <2>2, <3>2
  <2>3. CASE q[1].op # "trades"
    <3>1. \A j \in DOMAIN q : q[j].op # "trades"
      BY <2>1, <2>3
    <3> QED
      BY <2>3, <3>1 DEF Synced
  <2> QED
    BY <2>2, <2>3
<1> QED
  BY <1>6, <1>7 DEF Synced

\* The API's answer leaves what was asked as it was.
LEMMA SyncedAnswered ==
  ASSUME NEW q, InFlight(q), NEW i \in DOMAIN q, NEW okay \in BOOLEAN, NEW v,
         NEW account, NEW trades, Synced(q, account, trades)
  PROVE  Synced(Answer(q, i, okay, v), account, trades)
<1>1. PICK n : n = Answer(q, i, okay, v)
  OBVIOUS
<1>2. PICK r : r = [op |-> q[i].op, arg |-> q[i].arg, back |-> TRUE, ok |-> okay, val |-> v]
  OBVIOUS
<1>3. /\ DOMAIN q = 1..Len(q) /\ DOMAIN n = 1..Len(q)
      /\ \A j \in 1..Len(q) : j # i => n[j] = q[j]
      /\ n[i] = r
  BY <1>1, <1>2, Answered
<1>4. r.op = q[i].op /\ r.arg = q[i].arg
  BY <1>2
<1>5. DOMAIN n = DOMAIN q /\ \A j \in DOMAIN q : n[j].op = q[j].op /\ n[j].arg = q[j].arg
  BY <1>3, <1>4
<1>6. Synced(n, account, trades)
  BY <1>5 DEF Synced
<1> QED
  BY <1>1, <1>6

\* A request that is issued.
LEMMA PaperIssued ==
  ASSUME NEW ids, NEW q, PaperRequests(ids, q), NEW r, IsRequest(r), PaperRequest(ids, r)
  PROVE  PaperRequests(ids, Append(q, r))
<1>1. InFlight(q) /\ \A x \in Range(q) : PaperRequest(ids, x)
  BY DEF PaperRequests
<1>2. PICK n : n = Append(q, r)
  OBVIOUS
<1>3. InFlight(n) /\ Range(n) \subseteq Range(q) \cup {r}
  BY <1>1, <1>2, IssuedRange
<1>4. PaperRequests(ids, n)
  BY <1>1, <1>3 DEF PaperRequests
<1> QED
  BY <1>2, <1>4

\* A request before the API has seen it.
New(r, op, arg) == IsRequest(r) /\ r.op = op /\ r.arg = arg /\ r.ok = FALSE

\* What is issued is one.
LEMMA PaperNew ==
  ASSUME NEW q, NEW op, NEW arg
  PROVE  \E r : New(r, op, arg) /\ Paper!Issue(q, op, arg) = Append(q, r)
<1>1. PICK r : r = [op |-> op, arg |-> arg, back |-> FALSE, ok |-> FALSE, val |-> <<>>]
  OBVIOUS
<1>2. New(r, op, arg)
  BY <1>1 DEF IsRequest, New
<1>3. Paper!Issue(q, op, arg) = Append(q, r)
  BY <1>1 DEF Paper!Issue, Paper!NewRequest, Paper!Null
<1> QED
  BY <1>2, <1>3

\* Rendering a view: the effect asks for the trades of an account that became active.
LEMMA Rendered ==
  ASSUME PaperInv, NEW view, PaperView(DOMAIN db.accounts, view),
         NEW rest, PaperRequests(DOMAIN db.accounts, rest), Paper!Render(view, rest),
         ~Paper!IdChanged(view) /\ wire = "ordered" => Synced(rest, view.account, view.trades)
  PROVE  PaperInv'
<1>1. PICK ids : ids = DOMAIN db.accounts
  OBVIOUS
<1>2. db' = db /\ wire' = wire
  BY DEF Paper!Render
<1>3. CASE ~Paper!IdChanged(view)
  <2>1. ui' = view /\ net' = rest
    BY <1>3 DEF Paper!Render
  <2> QED
    BY <1>2, <1>3, <2>1 DEF PaperInv
<1>4. CASE Paper!IdChanged(view)
  <2>1. PICK n : n = [view EXCEPT !.tradesLoading = TRUE, !.tradesError = FALSE]
    OBVIOUS
  <2>2. DOMAIN n = PaperFields /\ n.account = view.account /\ n.trades = view.trades
    BY <2>1 DEF PaperView, PaperFields
  <2>3. view.account # <<>> /\ AccountShown(ids, view.account[1])
    BY <1>1, <1>4 DEF Paper!IdChanged, Paper!Null, PaperView
  <2>4. PICK id, filter : id = view.account[1].id /\ filter = Paper!NoFilter
    OBVIOUS
  <2>5. PICK op, arg : op = "trades" /\ arg = [account |-> id, filter |-> filter]
    OBVIOUS
  <2>6. arg.account = id /\ id \in ids
    BY <2>3, <2>4, <2>5 DEF AccountShown
  <2>7. PICK r : New(r, op, arg) /\ Paper!Issue(rest, op, arg) = Append(rest, r)
    BY PaperNew
  <2>8. /\ IsRequest(r) /\ r.op = op /\ r.arg = arg /\ r.ok = FALSE
        /\ Paper!Issue(rest, op, arg) = Append(rest, r)
    BY <2>7 DEF New
  <2>9. ui' = n /\ net' = Append(rest, r)
    BY <1>4, <2>1, <2>4, <2>5, <2>8 DEF Paper!Render, Paper!StartTrades, Paper!TradesRequest
  <2>10. PaperRequest(ids, r)
    BY <2>5, <2>6, <2>8 DEF PaperRequest
  <2>11. PaperRequests(ids, Append(rest, r))
    BY <1>1, <2>8, <2>10, PaperIssued
  <2>12. Synced(Append(rest, r), view.account, view.trades)
    <3>1. PICK account, trades : account = view.account /\ trades = view.trades
      OBVIOUS
    <3>2. InFlight(rest) /\ r.op = "trades" /\ r.arg.account = account[1].id
      BY <2>4, <2>5, <2>6, <2>8, <3>1 DEF PaperRequests
    <3>3. Synced(Append(rest, r), account, trades)
      BY <2>8, <3>2, SyncedAsked
    <3> QED
      BY <3>1, <3>3
  <2>13. PaperView(ids, n)
    BY <1>1, <2>2, <2>3 DEF PaperView
  <2> QED
    BY <1>1, <1>2, <2>2, <2>9, <2>11, <2>12, <2>13 DEF PaperInv
<1> QED
  BY <1>3, <1>4

\* What the page holds that no account and no trades depend on.
LEMMA ViewKept ==
  ASSUME PaperInv, NEW view, DOMAIN view = PaperFields,
         view.account = ui.account, view.trades = ui.trades
  PROVE  /\ PaperView(DOMAIN db.accounts, view)
         /\ ~Paper!IdChanged(view)
<1>1. PaperView(DOMAIN db.accounts, view)
  BY DEF PaperInv, PaperView
<1>2. ~Paper!IdChanged(view)
  BY DEF Paper!IdChanged, Paper!Null
<1> QED
  BY <1>1, <1>2

\* Clicks that leave the account and the trades alone, and what they ask for.
LEMMA ClickRenders ==
  ASSUME PaperInv, NEW view, DOMAIN view = PaperFields,
         view.account = ui.account, view.trades = ui.trades, Paper!Render(view, net)
  PROVE  PaperInv'
<1>1. PaperRequests(DOMAIN db.accounts, net)
  BY DEF PaperInv
<1>2. wire = "ordered" => Synced(net, view.account, view.trades)
  BY DEF PaperInv
<1>3. PaperView(DOMAIN db.accounts, view)
  BY ViewKept
<1> QED
  BY <1>1, <1>2, <1>3, Rendered

\* A click on a control that asks for anything but trades.
LEMMA ClickAsks ==
  ASSUME PaperInv, NEW view, DOMAIN view = PaperFields,
         view.account = ui.account, view.trades = ui.trades,
         NEW r, IsRequest(r), PaperRequest(DOMAIN db.accounts, r), r.op # "trades",
         Paper!Render(view, Append(net, r))
  PROVE  PaperInv'
<1>1. PICK rest, ids : rest = Append(net, r) /\ ids = DOMAIN db.accounts
  OBVIOUS
<1>2. PaperRequests(ids, net)
  BY <1>1 DEF PaperInv
<1>3. PaperRequests(ids, rest)
  BY <1>1, <1>2, PaperIssued
<1>4. ASSUME wire = "ordered"
      PROVE  Synced(rest, view.account, view.trades)
  <2>1. PICK account, trades : account = view.account /\ trades = view.trades
    OBVIOUS
  <2>2. Synced(net, account, trades) /\ InFlight(net)
    BY <1>4, <2>1 DEF PaperInv, PaperRequests
  <2>3. Synced(Append(net, r), account, trades)
    BY <2>2, SyncedOther
  <2> QED
    BY <1>1, <2>1, <2>3
<1>5. PaperView(DOMAIN db.accounts, view)
  BY ViewKept
<1> QED
  BY <1>1, <1>3, <1>4, <1>5, Rendered

\* An account is loaded, created or reset.
LEMMA AccountClicks ==
  ASSUME MoneyGiven, PaperInv,
         \/ \E id : Paper!LoadAccount(id)
         \/ \E balance \in Balances : Paper!CreateAccount(balance)
         \/ Paper!ToggleConfirm
         \/ Paper!ConfirmReset
  PROVE  PaperInv'
<1>1. DOMAIN ui = PaperFields
  BY DEF PaperInv, PaperView
<1>2. ASSUME NEW id, Paper!LoadAccount(id)
      PROVE  PaperInv'
  <2>1. PICK view : view = [Paper!Clicked EXCEPT !.loading = TRUE, !.pageError = FALSE]
    OBVIOUS
  <2>2. DOMAIN view = PaperFields /\ view.account = ui.account /\ view.trades = ui.trades
    BY <1>1, <2>1 DEF Paper!Clicked, PaperFields
  <2>3. PICK op : op = "account"
    OBVIOUS
  <2>3a. PICK r : New(r, op, id) /\ Paper!Issue(net, op, id) = Append(net, r)
    BY PaperNew
  <2>4. IsRequest(r) /\ r.op = op /\ r.ok = FALSE /\ Paper!Issue(net, op, id) = Append(net, r)
    BY <2>3a DEF New
  <2>5. PaperRequest(DOMAIN db.accounts, r) /\ r.op # "trades"
    BY <2>3, <2>4 DEF PaperRequest
  <2>6. Paper!Render(view, Append(net, r))
    BY <1>2, <2>1, <2>3, <2>4 DEF Paper!LoadAccount
  <2> QED
    BY <2>2, <2>4, <2>5, <2>6, ClickAsks
<1>3. ASSUME NEW balance \in Balances, Paper!CreateAccount(balance)
      PROVE  PaperInv'
  <2>1. CASE balance < Paper!MinBalance
    <3>1. PICK view : view = [Paper!Clicked EXCEPT !.formError = TRUE]
      OBVIOUS
    <3>2. DOMAIN view = PaperFields /\ view.account = ui.account /\ view.trades = ui.trades
      BY <1>1, <3>1 DEF Paper!Clicked, PaperFields
    <3>3. Paper!Render(view, net)
      BY <1>3, <2>1, <3>1 DEF Paper!CreateAccount
    <3> QED
      BY <3>2, <3>3, ClickRenders
  <2>2. CASE ~(balance < Paper!MinBalance)
    <3>1. PICK view : view = [Paper!Clicked EXCEPT !.creating = TRUE, !.formError = FALSE]
      OBVIOUS
    <3>2. DOMAIN view = PaperFields /\ view.account = ui.account /\ view.trades = ui.trades
      BY <1>1, <3>1 DEF Paper!Clicked, PaperFields
    <3>3. PICK op : op = "create"
      OBVIOUS
    <3>3a. PICK r : New(r, op, balance) /\ Paper!Issue(net, op, balance) = Append(net, r)
      BY PaperNew
    <3>4. /\ IsRequest(r) /\ r.op = op /\ r.arg = balance /\ r.ok = FALSE
          /\ Paper!Issue(net, op, balance) = Append(net, r)
      BY <3>3a DEF New
    <3>5. PaperRequest(DOMAIN db.accounts, r) /\ r.op # "trades"
      BY <3>3, <3>4 DEF PaperRequest, MoneyGiven
    <3>6. Paper!Render(view, Append(net, r))
      BY <1>3, <2>2, <3>1, <3>3, <3>4 DEF Paper!CreateAccount
    <3> QED
      BY <3>2, <3>4, <3>5, <3>6, ClickAsks
  <2> QED
    BY <2>1, <2>2
<1>4. CASE Paper!ToggleConfirm
  <2>1. PICK view : view = [Paper!Clicked EXCEPT !.confirmOpen = ~@]
    OBVIOUS
  <2>2. DOMAIN view = PaperFields /\ view.account = ui.account /\ view.trades = ui.trades
    BY <1>1, <2>1 DEF Paper!Clicked, PaperFields
  <2>3. Paper!Render(view, net)
    BY <1>4, <2>1 DEF Paper!ToggleConfirm
  <2> QED
    BY <2>2, <2>3, ClickRenders
<1>5. CASE Paper!ConfirmReset
  <2>1. CASE ui.account = <<>>
    <3>1. PICK view : view = [Paper!Clicked EXCEPT !.resetError = TRUE]
      OBVIOUS
    <3>2. DOMAIN view = PaperFields /\ view.account = ui.account /\ view.trades = ui.trades
      BY <1>1, <3>1 DEF Paper!Clicked, PaperFields
    <3>3. Paper!Render(view, net)
      BY <1>5, <2>1, <3>1 DEF Paper!ConfirmReset, Paper!Null
    <3> QED
      BY <3>2, <3>3, ClickRenders
  <2>2. CASE ui.account # <<>>
    <3>1. PICK view : view = [Paper!Clicked EXCEPT !.resetting = TRUE, !.resetError = FALSE]
      OBVIOUS
    <3>2. DOMAIN view = PaperFields /\ view.account = ui.account /\ view.trades = ui.trades
      BY <1>1, <3>1 DEF Paper!Clicked, PaperFields
    <3>3. PICK account : account = ui.account[1]
      OBVIOUS
    <3>4. PICK op : op = "reset"
      OBVIOUS
    <3>4a. PICK r : New(r, op, account) /\ Paper!Issue(net, op, account) = Append(net, r)
      BY PaperNew
    <3>5. /\ IsRequest(r) /\ r.op = op /\ r.arg = account /\ r.ok = FALSE
          /\ Paper!Issue(net, op, account) = Append(net, r)
      BY <3>4a DEF New
    <3>6. AccountShown(DOMAIN db.accounts, account)
      BY <2>2, <3>3 DEF PaperInv, PaperView
    <3>7. PaperRequest(DOMAIN db.accounts, r) /\ r.op # "trades"
      BY <3>4, <3>5, <3>6 DEF PaperRequest
    <3>8. Paper!Render(view, Append(net, r))
      BY <1>5, <2>2, <3>1, <3>3, <3>4, <3>5 DEF Paper!ConfirmReset, Paper!Null
    <3> QED
      BY <3>2, <3>5, <3>7, <3>8, ClickAsks
  <2> QED
    BY <2>1, <2>2
<1> QED
  BY <1>2, <1>3, <1>4, <1>5

\* Trades are loaded again, under a filter.
LEMMA TradesClicks ==
  ASSUME PaperInv, NEW filter, Paper!LoadTrades(filter)
  PROVE  PaperInv'
<1>1. PICK ids : ids = DOMAIN db.accounts
  OBVIOUS
<1>2. DOMAIN ui = PaperFields /\ ui.account # <<>> /\ AccountShown(ids, ui.account[1])
  BY <1>1 DEF PaperInv, PaperView, Paper!LoadTrades, Paper!Null
<1>3. PICK id : id = ui.account[1].id
  OBVIOUS
<1>4. PICK op, arg : op = "trades" /\ arg = [account |-> id, filter |-> filter]
  OBVIOUS
<1>5. arg.account = id /\ id \in ids
  BY <1>2, <1>3, <1>4 DEF AccountShown
<1>6. PICK r : New(r, op, arg) /\ Paper!Issue(net, op, arg) = Append(net, r)
  BY PaperNew
<1>7. /\ IsRequest(r) /\ r.op = op /\ r.arg = arg /\ r.ok = FALSE
      /\ Paper!Issue(net, op, arg) = Append(net, r)
  BY <1>6 DEF New
<1>8. net' = Append(net, r) /\ db' = db /\ wire' = wire
  BY <1>3, <1>4, <1>7 DEF Paper!LoadTrades, Paper!TradesRequest
<1>9. DOMAIN ui' = PaperFields /\ ui'.account = ui.account /\ ui'.trades = ui.trades
  BY <1>2 DEF Paper!LoadTrades, Paper!StartTrades, Paper!Clicked, PaperFields
<1>10. PaperRequest(ids, r)
  BY <1>4, <1>5, <1>7 DEF PaperRequest
<1>11. PaperRequests(ids, net) /\ InFlight(net)
  BY <1>1 DEF PaperInv, PaperRequests
<1>12. PaperRequests(ids, net')
  BY <1>7, <1>8, <1>10, <1>11, PaperIssued
<1>13. Synced(net', ui.account, ui.trades)
  <2>1. PICK account, trades : account = ui.account /\ trades = ui.trades
    OBVIOUS
  <2>2. r.op = "trades" /\ r.arg.account = account[1].id
    BY <1>3, <1>4, <1>5, <1>7, <2>1
  <2>3. Synced(Append(net, r), account, trades)
    BY <1>7, <1>11, <2>2, SyncedAsked
  <2> QED
    BY <1>8, <2>1, <2>3
<1>14. PaperView(ids, ui')
  BY <1>1, <1>9 DEF PaperInv, PaperView
<1> QED
  BY <1>1, <1>8, <1>9, <1>12, <1>13, <1>14 DEF PaperInv

\* An account with the same id is as much in step.
LEMMA SyncedSameId ==
  ASSUME NEW q, NEW account, NEW trades, Synced(q, account, trades), NEW other,
         other = <<>> \/ (account # <<>> /\ other[1].id = account[1].id)
  PROVE  Synced(q, other, trades)
<1>1. CASE other = <<>>
  BY <1>1 DEF Synced
<1>2. CASE other # <<>>
  BY <1>2 DEF Synced
<1> QED
  BY <1>1, <1>2

\* No trades are anyone's.
LEMMA NoTrades == \A a : TradesOf(<<>>, a)
<1>1. PICK s : s = <<>>
  OBVIOUS
<1>2. Len(s) = 0 /\ DOMAIN s = 1..Len(s) /\ s \in Seq(Range(s))
  BY <1>1, EmptySeq
<1>3. DOMAIN s = {}
  BY <1>2
<1>4. Range(s) = {}
  BY <1>3 DEF Range
<1>5. \A a : TradesOf(s, a)
  BY <1>2, <1>4 DEF TradesOf, NumberTrades
<1> QED
  BY <1>1, <1>5

\* The rest of the requests when one was handled.
LEMMA PaperRest ==
  ASSUME PaperInv, NEW i \in DOMAIN net
  PROVE  PaperRequests(DOMAIN db.accounts, Paper!Handled(i))
<1>1. PICK ids, q : ids = DOMAIN db.accounts /\ q = net
  OBVIOUS
<1>2. InFlight(q) /\ \A r \in Range(q) : PaperRequest(ids, r)
  BY <1>1 DEF PaperInv, PaperRequests
<1>3. PICK n : n = Without(q, i)
  OBVIOUS
<1>4. InFlight(n) /\ Range(n) \subseteq Range(q)
  BY <1>1, <1>2, <1>3, RemovedRange
<1>5. Paper!Handled(i) = n
  BY <1>1, <1>3 DEF Paper!Handled, Paper!RemoveAt, Without
<1> QED
  BY <1>1, <1>2, <1>4, <1>5 DEF PaperRequests

\* On an ordered wire the oldest answer is handled, and the trades stay in step.
LEMMA SyncedRest ==
  ASSUME PaperInv, wire = "ordered", NEW i \in Paper!Deliverable, NEW shown,
         net[i].op # "trades" => shown = ui.trades,
         net[i].op = "trades" => \A t \in Range(shown) : t.account = net[i].arg.account
  PROVE  Synced(Paper!Handled(i), ui.account, shown)
<1>1. PICK q, account, trades : q = net /\ account = ui.account /\ trades = ui.trades
  OBVIOUS
<1>2. InFlight(q) /\ Synced(q, account, trades)
  BY <1>1 DEF PaperInv, PaperRequests
<1>3. i = 1 /\ 1 \in DOMAIN q
  BY <1>1 DEF Paper!Deliverable
<1>4. /\ q[1].op # "trades" => shown = trades
      /\ q[1].op = "trades" => \A t \in Range(shown) : t.account = q[1].arg.account
  BY <1>1, <1>3
<1>5. Synced(Without(q, 1), account, shown)
  BY <1>2, <1>3, <1>4, SyncedHandled
<1>6. Paper!Handled(i) = Without(q, 1)
  BY <1>1, <1>3 DEF Paper!Handled, Paper!RemoveAt, Without
<1> QED
  BY <1>1, <1>5, <1>6

\* An answer is rendered.
LEMMA AnswerRenders ==
  ASSUME PaperInv, NEW i \in Paper!Deliverable, NEW view, DOMAIN view = PaperFields,
         view.account # <<>> => AccountShown(DOMAIN db.accounts, view.account[1]),
         NumberTrades(view.trades),
         view.account # <<>> /\ net[i].op # "trades" => view.trades = ui.trades,
         net[i].op = "trades" => \A t \in Range(view.trades) : t.account = net[i].arg.account,
         Paper!Render(view, Paper!Handled(i))
  PROVE  PaperInv'
<1>1. PICK rest : rest = Paper!Handled(i)
  OBVIOUS
<1>2. PaperRequests(DOMAIN db.accounts, rest)
  BY <1>1, PaperRest DEF Paper!Deliverable
<1>3. PaperView(DOMAIN db.accounts, view)
  BY DEF PaperView
<1>4. ASSUME ~Paper!IdChanged(view), wire = "ordered"
      PROVE  Synced(rest, view.account, view.trades)
  <2>1. CASE view.account = <<>>
    BY <2>1 DEF Synced
  <2>2. CASE view.account # <<>>
    <3>1. PICK shown : shown = view.trades
      OBVIOUS
    <3>2. /\ net[i].op # "trades" => shown = ui.trades
          /\ net[i].op = "trades" => \A t \in Range(shown) : t.account = net[i].arg.account
      BY <2>2, <3>1
    <3>3. Synced(rest, ui.account, shown)
      BY <1>1, <1>4, <3>2, SyncedRest
    <3>4. PICK account, other : account = ui.account /\ other = view.account
      OBVIOUS
    <3>5. account # <<>> /\ other[1].id = account[1].id
      BY <1>4, <2>2, <3>4 DEF Paper!IdChanged, Paper!Null
    <3>6. Synced(rest, other, shown)
      BY <3>3, <3>4, <3>5, SyncedSameId
    <3> QED
      BY <3>1, <3>4, <3>6
  <2> QED
    BY <2>1, <2>2
<1> QED
  BY <1>1, <1>2, <1>3, <1>4, Rendered

\* Answers are handled.
LEMMA PaperDelivered ==
  ASSUME PaperInv, Paper!Deliver
  PROVE  PaperInv'
<1>1. PICK i \in Paper!Deliverable :
        \/ Paper!DeliverAccount(net[i], Paper!Handled(i))
        \/ Paper!DeliverTrades(net[i], Paper!Handled(i))
        \/ Paper!DeliverCreate(net[i], Paper!Handled(i))
        \/ Paper!DeliverReset(net[i], Paper!Handled(i))
  BY DEF Paper!Deliver
<1>2. PICK r, rest, ids : r = net[i] /\ rest = Paper!Handled(i) /\ ids = DOMAIN db.accounts
  OBVIOUS
<1>3. PaperRequest(ids, r)
  BY <1>2 DEF PaperInv, PaperRequests, Range, Paper!Deliverable
<1>4. DOMAIN ui = PaperFields /\ NumberTrades(ui.trades)
      /\ (ui.account # <<>> => AccountShown(ids, ui.account[1]))
  BY <1>2 DEF PaperInv, PaperView
<1>5. NumberTrades(<<>>)
  BY NoTrades DEF TradesOf
<1>6. CASE Paper!DeliverAccount(r, rest)
  <2>1. CASE r.ok
    <3>1. PICK account, loaded : account = r.val[1] /\ loaded = [ui EXCEPT !.loading = FALSE]
      OBVIOUS
    <3>2. PICK view : view = [loaded EXCEPT !.account = <<account>>, !.selected = account.id,
                                            !.resetError = FALSE]
      OBVIOUS
    <3>3. DOMAIN view = PaperFields /\ view.account = <<account>> /\ view.trades = ui.trades
      BY <1>4, <3>1, <3>2 DEF PaperFields
    <3>4. Paper!Render(view, rest) /\ r.op = "account"
      BY <1>6, <2>1, <3>1, <3>2 DEF Paper!DeliverAccount, Paper!Activated
    <3>5. AccountShown(ids, view.account[1])
      BY <1>3, <2>1, <3>1, <3>3, <3>4 DEF PaperRequest
    <3> QED
      BY <1>2, <1>4, <3>3, <3>4, <3>5, AnswerRenders
  <2>2. CASE ~r.ok
    <3>1. PICK view : view = [ui EXCEPT !.loading = FALSE, !.pageError = TRUE, !.account = <<>>,
                                        !.trades = <<>>]
      OBVIOUS
    <3>2. DOMAIN view = PaperFields /\ view.account = <<>> /\ view.trades = <<>>
      BY <1>4, <3>1 DEF PaperFields
    <3>3. Paper!Render(view, rest) /\ r.op = "account"
      BY <1>6, <2>2, <3>1 DEF Paper!DeliverAccount, Paper!Null
    <3> QED
      BY <1>2, <1>5, <3>2, <3>3, AnswerRenders
  <2> QED
    BY <2>1, <2>2
<1>7. CASE Paper!DeliverTrades(r, rest)
  <2>1. PICK trades : trades = IF r.ok THEN r.val[1] ELSE <<>>
    OBVIOUS
  <2>2. r.op = "trades"
    BY <1>7 DEF Paper!DeliverTrades
  <2>3. TradesOf(trades, r.arg.account)
    <3>1. CASE r.ok
      BY <1>3, <2>1, <2>2, <3>1 DEF PaperRequest
    <3>2. CASE ~r.ok
      BY <2>1, <3>2, NoTrades
    <3> QED
      BY <3>1, <3>2
  <2>4. PICK view : view = [ui EXCEPT !.tradesLoading = FALSE, !.tradesError = @ \/ ~r.ok,
                                      !.trades = trades]
    OBVIOUS
  <2>5. DOMAIN view = PaperFields /\ view.account = ui.account /\ view.trades = trades
    BY <1>4, <2>4 DEF PaperFields
  <2>6. Paper!Render(view, rest)
    BY <1>7, <2>1, <2>4 DEF Paper!DeliverTrades
  <2>7. NumberTrades(view.trades) /\ \A t \in Range(view.trades) : t.account = r.arg.account
    BY <2>3, <2>5 DEF TradesOf
  <2>8. view.account # <<>> => AccountShown(ids, view.account[1])
    BY <1>4, <2>5
  <2> QED
    BY <1>2, <2>2, <2>5, <2>6, <2>7, <2>8, AnswerRenders
<1>8. CASE Paper!DeliverCreate(r, rest)
  <2>1. CASE r.ok
    <3>1. PICK account, created : /\ account = r.val[1]
                                  /\ created = [ui EXCEPT !.creating = FALSE, !.pageError = FALSE]
      OBVIOUS
    <3>2. PICK view : view = [created EXCEPT !.account = <<account>>, !.selected = account.id,
                                             !.resetError = FALSE]
      OBVIOUS
    <3>3. DOMAIN view = PaperFields /\ view.account = <<account>> /\ view.trades = ui.trades
      BY <1>4, <3>1, <3>2 DEF PaperFields
    <3>4. Paper!Render(view, rest) /\ r.op = "create"
      BY <1>8, <2>1, <3>1, <3>2 DEF Paper!DeliverCreate, Paper!Activated
    <3>5. AccountShown(ids, view.account[1])
      BY <1>3, <2>1, <3>1, <3>3, <3>4 DEF PaperRequest
    <3> QED
      BY <1>2, <1>4, <3>3, <3>4, <3>5, AnswerRenders
  <2>2. CASE ~r.ok
    <3>1. PICK view : view = [ui EXCEPT !.creating = FALSE, !.formError = TRUE]
      OBVIOUS
    <3>2. DOMAIN view = PaperFields /\ view.account = ui.account /\ view.trades = ui.trades
      BY <1>4, <3>1 DEF PaperFields
    <3>3. Paper!Render(view, rest) /\ r.op = "create"
      BY <1>8, <2>2, <3>1 DEF Paper!DeliverCreate
    <3>4. view.account # <<>> => AccountShown(ids, view.account[1])
      BY <1>4, <3>2
    <3> QED
      BY <1>2, <1>4, <3>2, <3>3, <3>4, AnswerRenders
  <2> QED
    BY <2>1, <2>2
<1>9. CASE Paper!DeliverReset(r, rest)
  <2>1. CASE r.ok
    <3>1. PICK account : account = [r.arg EXCEPT !.cash = r.val[1]]
      OBVIOUS
    <3>2. AccountShown(ids, r.arg) /\ r.op = "reset"
      BY <1>3, <1>9 DEF PaperRequest, Paper!DeliverReset
    <3>3. AccountShown(ids, account)
      BY <3>1, <3>2 DEF AccountShown
    <3>4. PICK view : view = [ui EXCEPT !.resetting = FALSE, !.pageError = FALSE, !.confirmOpen = FALSE,
                                        !.account = <<account>>]
      OBVIOUS
    <3>5. DOMAIN view = PaperFields /\ view.account = <<account>> /\ view.trades = ui.trades
      BY <1>4, <3>4 DEF PaperFields
    <3>6. Paper!Render(view, rest)
      BY <1>9, <2>1, <3>1, <3>4 DEF Paper!DeliverReset
    <3>7. AccountShown(ids, view.account[1])
      BY <3>3, <3>5
    <3> QED
      BY <1>2, <1>4, <3>2, <3>5, <3>6, <3>7, AnswerRenders
  <2>2. CASE ~r.ok
    <3>1. PICK view : view = [ui EXCEPT !.resetting = FALSE, !.resetError = TRUE]
      OBVIOUS
    <3>2. DOMAIN view = PaperFields /\ view.account = ui.account /\ view.trades = ui.trades
      BY <1>4, <3>1 DEF PaperFields
    <3>3. Paper!Render(view, rest) /\ r.op = "reset"
      BY <1>9, <2>2, <3>1 DEF Paper!DeliverReset
    <3>4. view.account # <<>> => AccountShown(ids, view.account[1])
      BY <1>4, <3>2
    <3> QED
      BY <1>2, <1>4, <3>2, <3>3, <3>4, AnswerRenders
  <2> QED
    BY <2>1, <2>2
<1> QED
  BY <1>1, <1>2, <1>6, <1>7, <1>8, <1>9

\* Accounts are added, and none goes.
LEMMA MoreAccounts ==
  ASSUME NEW ids, NEW more, ids \subseteq more
  PROVE  /\ \A view : PaperView(ids, view) => PaperView(more, view)
         /\ \A r : PaperRequest(ids, r) => PaperRequest(more, r)
         /\ \A q : PaperRequests(ids, q) => PaperRequests(more, q)
<1>1. \A account : AccountShown(ids, account) => AccountShown(more, account)
  BY DEF AccountShown
<1>2. \A view : PaperView(ids, view) => PaperView(more, view)
  BY <1>1 DEF PaperView
<1>3. \A r : PaperRequest(ids, r) => PaperRequest(more, r)
  BY <1>1 DEF PaperRequest
<1>4. \A q : PaperRequests(ids, q) => PaperRequests(more, q)
  BY <1>3 DEF PaperRequests
<1> QED
  BY <1>2, <1>3, <1>4

\* An account as it is created or reset.
LEMMA FreshIsHeld ==
  ASSUME NEW a, NEW start \in Int
  PROVE  AccountHeld(a, Paper!FreshAccount(start))
<1>1. PICK none : none = <<>>
  OBVIOUS
<1>2. TradesOf(none, a)
  BY <1>1, NoTrades
<1>3. PICK account : account = [start |-> start, cash |-> start, position |-> 0, trades |-> none]
  OBVIOUS
<1>4. AccountHeld(a, account)
  BY <1>2, <1>3 DEF AccountHeld
<1> QED
  BY <1>1, <1>3, <1>4 DEF Paper!FreshAccount

\* What a request does to the accounts.
LEMMA EffectHolds ==
  ASSUME AccountsHeld(db.accounts), NEW r, PaperRequest(DOMAIN db.accounts, r), Paper!Executes(r)
  PROVE  /\ AccountsHeld(Paper!Effect(r)) /\ DOMAIN db.accounts \subseteq DOMAIN Paper!Effect(r)
         /\ r.op = "create" => NewAccount \in DOMAIN Paper!Effect(r)
<1>1. PICK accounts : accounts = db.accounts
  OBVIOUS
<1>2. r.op \in {"account", "trades", "create", "reset"}
  BY DEF Paper!Executes
<1>3. CASE r.op \in {"account", "trades"}
  <2>1. Paper!Effect(r) = db.accounts
    BY <1>3 DEF Paper!Effect
  <2> QED
    BY <1>3, <2>1
<1>4. CASE r.op = "create"
  <2>1. PICK fresh, more : fresh = Paper!FreshAccount(r.arg) /\ more = Paper!Effect(r)
    OBVIOUS
  <2>2. more = [a \in DOMAIN accounts \cup {NewAccount} |-> IF a = NewAccount THEN fresh ELSE accounts[a]]
    BY <1>1, <1>4, <2>1 DEF Paper!Effect
  <2>3. AccountHeld(NewAccount, fresh)
    <3>1. PICK start \in Int : start = r.arg
      BY <1>4 DEF PaperRequest
    <3> QED
      BY <2>1, <3>1, FreshIsHeld
  <2>4. AccountsHeld(more)
    BY <1>1, <2>2, <2>3 DEF AccountsHeld
  <2> QED
    BY <1>1, <2>1, <2>2, <2>4
<1>5. CASE r.op = "reset"
  <2>1. PICK id : id = r.arg.id
    OBVIOUS
  <2>2. id \in DOMAIN accounts
    BY <1>1, <1>5, <2>1 DEF PaperRequest, AccountShown
  <2>3. PICK start \in Int : start = accounts[id].start
    BY <1>1, <2>2 DEF AccountsHeld, AccountHeld
  <2>4. PICK fresh, more : fresh = Paper!FreshAccount(start) /\ more = Paper!Effect(r)
    OBVIOUS
  <2>5. more = [accounts EXCEPT ![id] = fresh]
    BY <1>1, <1>5, <2>1, <2>3, <2>4 DEF Paper!Effect
  <2>6. DOMAIN more = DOMAIN accounts /\ \A a \in DOMAIN accounts : more[a] = IF a = id THEN fresh ELSE accounts[a]
    BY <2>2, <2>5
  <2>7. AccountHeld(id, fresh)
    BY <2>4, FreshIsHeld
  <2>8. AccountsHeld(more)
    BY <1>1, <2>6, <2>7 DEF AccountsHeld
  <2> QED
    BY <1>1, <1>5, <2>4, <2>6, <2>8
<1> QED
  BY <1>2, <1>3, <1>4, <1>5

\* Some of the trades of an account, the newest first, are trades of that account.
LEMMA SomeTrades ==
  ASSUME NEW trades, NEW a, TradesOf(trades, a), NEW I \in SUBSET DOMAIN trades
  PROVE  TradesOf(Paper!Reverse(Paper!Kept(trades, I)), a)
<1>1. trades \in Seq(Range(trades)) /\ \A t \in Range(trades) : t.notional \in Int /\ t.fee \in Int /\ t.account = a
  BY DEF TradesOf, NumberTrades
<1>2. Len(trades) \in Nat /\ DOMAIN trades = 1..Len(trades)
  BY <1>1, LenProperties
<1>3. PICK m, c : m = Keeping(trades, I) /\ c = Cardinality(I)
  OBVIOUS
<1>4. c \in Nat /\ DOMAIN m = 1..c /\ Enumerated(m, trades, I)
  BY <1>2, <1>3, KeepingProperties
<1>5. \A k \in 1..c : m[k] \in Range(trades)
  <2>1. \A k \in 1..c : \E i \in I : m[k] = trades[i]
    BY <1>4 DEF Enumerated
  <2> QED
    BY <2>1 DEF Range
<1>6. m = [k \in 1..c |-> m[k]]
  BY <1>3 DEF Keeping
<1>7. m \in Seq(Range(trades))
  BY <1>4, <1>5, <1>6, IsASeq
<1>8. Len(m) = c
  BY <1>4, <1>7, LenProperties
<1>9. PICK n : n = Paper!Reverse(m)
  OBVIOUS
<1>10. n = [i \in 1..c |-> m[(c - i) + 1]]
  BY <1>8, <1>9 DEF Paper!Reverse
<1>11. \A i \in 1..c : n[i] \in Range(trades)
  <2>1. \A i \in 1..c : (c - i) + 1 \in 1..c
    BY <1>4
  <2> QED
    BY <1>5, <1>10, <2>1
<1>12. DOMAIN n = 1..c /\ n = [i \in 1..c |-> n[i]]
  BY <1>10
<1>13. \A i \in 1..c : n[i] \in Range(n)
  BY <1>12 DEF Range
<1>14. n \in Seq(Range(n))
  BY <1>4, <1>12, <1>13, IsASeq
<1>15. \A t \in Range(n) : t \in Range(trades)
  BY <1>11, <1>12 DEF Range
<1>16. TradesOf(n, a)
  BY <1>1, <1>14, <1>15 DEF TradesOf, NumberTrades
<1>17. Paper!Kept(trades, I) = m
  BY <1>3 DEF Paper!Kept, Paper!Before, Paper!Cardinality, Keeping, Place, Cardinality
<1> QED
  BY <1>9, <1>16, <1>17

\* What the API answers a request it carries out.
LEMMA PayloadFits ==
  ASSUME AccountsHeld(db.accounts), NEW r, PaperRequest(DOMAIN db.accounts, r), Paper!Executes(r)
  PROVE  /\ r.op \in {"account", "create"} =>
              AccountShown(DOMAIN Paper!Effect(r), Paper!Payload(r))
         /\ r.op = "trades" => TradesOf(Paper!Payload(r), r.arg.account)
<1>1. PICK accounts, more : accounts = db.accounts /\ more = DOMAIN Paper!Effect(r)
  OBVIOUS
<1>2. DOMAIN accounts \subseteq more /\ (r.op = "create" => NewAccount \in more)
  BY <1>1, EffectHolds
<1>3. ASSUME r.op = "account"
      PROVE  AccountShown(more, Paper!Payload(r))
  <2>1. PICK a : a = IF r.arg = Paper!NoId THEN Paper!Primary ELSE r.arg
    OBVIOUS
  <2>2. a \in DOMAIN accounts
    BY <1>1, <1>3, <2>1 DEF Paper!Executes, AccountsHeld
  <2>3. accounts[a].start \in Int /\ accounts[a].cash \in Int /\ accounts[a].position \in Int
    BY <1>1, <2>2 DEF AccountsHeld, AccountHeld
  <2>4. PICK start \in Int, cash \in Int, position \in Int :
          start = accounts[a].start /\ cash = accounts[a].cash /\ position = accounts[a].position
    BY <2>3
  <2>5. PICK equity \in Int : equity = cash + position
    OBVIOUS
  <2>6. Paper!Payload(r) = [id |-> a, start |-> start, cash |-> cash, equity |-> equity]
    BY <1>1, <1>3, <2>1, <2>4, <2>5 DEF Paper!Payload, Paper!AccountAnswer, Paper!Equity
  <2> QED
    BY <1>2, <2>2, <2>6 DEF AccountShown
<1>4. ASSUME r.op = "create"
      PROVE  AccountShown(more, Paper!Payload(r))
  <2>1. PICK start \in Int : start = r.arg
    BY <1>4 DEF PaperRequest
  <2>2. Paper!Payload(r) = [id |-> NewAccount, start |-> start, cash |-> start, equity |-> 0]
    BY <1>4, <2>1 DEF Paper!Payload, Paper!CreatedAnswer
  <2> QED
    BY <1>2, <1>4, <2>2 DEF AccountShown
<1>5. ASSUME r.op = "trades"
      PROVE  TradesOf(Paper!Payload(r), r.arg.account)
  <2>1. PICK a, arg : a = r.arg.account /\ arg = r.arg
    OBVIOUS
  <2>2. PICK trades : trades = accounts[a].trades
    OBVIOUS
  <2>3. a \in DOMAIN accounts
    BY <1>1, <1>5, <2>1 DEF PaperRequest
  <2>4. TradesOf(trades, a)
    BY <1>1, <2>2, <2>3 DEF AccountsHeld, AccountHeld
  <2>5. PICK I : I = {i \in DOMAIN trades : arg.filter \in {Paper!NoFilter, trades[i].asset}}
    OBVIOUS
  <2>6. TradesOf(Paper!Reverse(Paper!Kept(trades, I)), a)
    <3>1. I \in SUBSET DOMAIN trades
      BY <2>5
    <3> QED
      BY <2>4, <3>1, SomeTrades
  <2>7. Paper!Payload(r) = Paper!TradesAnswer(arg)
    BY <1>5, <2>1 DEF Paper!Payload
  <2>8. Paper!TradesAnswer(arg) = Paper!Reverse(Paper!Kept(trades, I))
    BY <1>1, <2>1, <2>2, <2>5 DEF Paper!TradesAnswer
  <2> QED
    BY <2>1, <2>6, <2>7, <2>8
<1> QED
  BY <1>1, <1>3, <1>4, <1>5

\* An answer, with the accounts as they are after it.
LEMMA AnswerKeeps ==
  ASSUME PaperInv, NEW i \in DOMAIN net, NEW okay \in BOOLEAN, NEW v, net' = Answer(net, i, okay, v),
         ui' = ui, wire' = wire, DOMAIN db' = {"accounts", "failures"}, AccountsHeld(db'.accounts),
         DOMAIN db.accounts \subseteq DOMAIN db'.accounts,
         okay => /\ net[i].op \in {"account", "create"} => AccountShown(DOMAIN db'.accounts, v[1])
                 /\ net[i].op = "trades" => TradesOf(v[1], net[i].arg.account)
  PROVE  PaperInv'
<1>1. PICK ids, more, q : ids = DOMAIN db.accounts /\ more = DOMAIN db'.accounts /\ q = net
  OBVIOUS
<1>2. PaperView(more, ui) /\ PaperRequests(more, q)
  BY <1>1, MoreAccounts DEF PaperInv
<1>3. InFlight(q) /\ \A r \in Range(q) : PaperRequest(more, r)
  BY <1>2 DEF PaperRequests
<1>4. PICK r : r = [op |-> q[i].op, arg |-> q[i].arg, back |-> TRUE, ok |-> okay, val |-> v]
  OBVIOUS
<1>5. r.op = q[i].op /\ r.arg = q[i].arg /\ r.ok = okay /\ r.val = v
  BY <1>4
<1>6. PaperRequest(more, q[i])
  BY <1>1, <1>3 DEF Range
<1>7. PaperRequest(more, r)
  BY <1>1, <1>5, <1>6 DEF PaperRequest
<1>8. PICK n : n = Answer(q, i, okay, v)
  OBVIOUS
<1>9. InFlight(n) /\ Range(n) \subseteq Range(q) \cup {r}
  BY <1>1, <1>3, <1>4, <1>8, AnsweredRange
<1>10. PaperRequests(more, n)
  BY <1>3, <1>7, <1>9 DEF PaperRequests
<1>11. ASSUME wire = "ordered"
       PROVE  Synced(n, ui.account, ui.trades)
  <2>1. PICK account, trades : account = ui.account /\ trades = ui.trades
    OBVIOUS
  <2>2. Synced(q, account, trades)
    BY <1>1, <1>11, <2>1 DEF PaperInv
  <2>3. Synced(n, account, trades)
    BY <1>1, <1>3, <1>8, <2>2, SyncedAnswered
  <2> QED
    BY <2>1, <2>3
<1>12. net' = n
  BY <1>1, <1>8
<1> QED
  BY <1>1, <1>2, <1>10, <1>11, <1>12 DEF PaperInv

\* The API refuses a request, or it fails.
LEMMA PaperRefused ==
  ASSUME PaperInv, NEW i \in DOMAIN net, net' = Paper!Refused(i), ui' = ui, wire' = wire,
         DOMAIN db' = {"accounts", "failures"}, db'.accounts = db.accounts
  PROVE  PaperInv'
<1>1. PICK okay \in BOOLEAN : okay = FALSE
  OBVIOUS
<1>2. PICK v : v = <<>>
  OBVIOUS
<1>3. net' = Answer(net, i, okay, v)
  BY <1>1, <1>2 DEF Paper!Refused, Paper!Null, Answer
<1>4. AccountsHeld(db'.accounts) /\ DOMAIN db.accounts \subseteq DOMAIN db'.accounts
  BY DEF PaperInv
<1> QED
  BY <1>1, <1>3, <1>4, AnswerKeeps

\* The API carries out what it is asked, or refuses it.
LEMMA PaperServed ==
  ASSUME PaperInv, Paper!Serve \/ Paper!RequestFails
  PROVE  PaperInv'
<1>1. DOMAIN db = {"accounts", "failures"} /\ AccountsHeld(db.accounts)
  BY DEF PaperInv
<1>2. CASE Paper!Serve
  <2>1. PICK i \in Paper!Servable :
          /\ \/ /\ Paper!Executes(net[i]) /\ net' = Paper!Served(i, Paper!Payload(net[i]))
                /\ db' = [db EXCEPT !.accounts = Paper!Effect(net[i])]
             \/ ~Paper!Executes(net[i]) /\ net' = Paper!Refused(i) /\ UNCHANGED db
          /\ UNCHANGED <<ui, wire>>
    BY <1>2 DEF Paper!Serve
  <2>2. i \in DOMAIN net /\ ui' = ui /\ wire' = wire
    BY <2>1 DEF Paper!Servable
  <2>3. CASE ~Paper!Executes(net[i])
    BY <1>1, <2>1, <2>2, <2>3, PaperRefused
  <2>4. CASE Paper!Executes(net[i])
    <3>1. PICK r, effect, payload : r = net[i] /\ effect = Paper!Effect(net[i]) /\ payload = Paper!Payload(net[i])
      OBVIOUS
    <3>2. net' = Paper!Served(i, payload) /\ db' = [db EXCEPT !.accounts = effect]
      BY <2>1, <2>4, <3>1
    <3>3. DOMAIN db' = {"accounts", "failures"} /\ db'.accounts = effect
      BY <1>1, <3>2
    <3>4. PaperRequest(DOMAIN db.accounts, r)
      BY <2>2, <3>1 DEF PaperInv, PaperRequests, Range
    <3>5. AccountsHeld(effect) /\ DOMAIN db.accounts \subseteq DOMAIN effect
      BY <1>1, <2>4, <3>1, <3>4, EffectHolds
    <3>6. /\ r.op \in {"account", "create"} => AccountShown(DOMAIN effect, payload)
          /\ r.op = "trades" => TradesOf(payload, r.arg.account)
      BY <1>1, <2>4, <3>1, <3>4, PayloadFits
    <3>7. PICK okay \in BOOLEAN : okay = TRUE
      OBVIOUS
    <3>8. PICK v : v = <<payload>>
      OBVIOUS
    <3>9. net' = Answer(net, i, okay, v)
      BY <3>2, <3>7, <3>8 DEF Paper!Served, Answer
    <3>10. /\ net[i].op \in {"account", "create"} => AccountShown(DOMAIN db'.accounts, v[1])
           /\ net[i].op = "trades" => TradesOf(v[1], net[i].arg.account)
      BY <3>1, <3>3, <3>6, <3>8
    <3> QED
      BY <2>2, <3>3, <3>5, <3>9, <3>10, AnswerKeeps
  <2> QED
    BY <2>3, <2>4
<1>3. CASE Paper!RequestFails
  <2>1. PICK i \in DOMAIN net : net' = Paper!Refused(i)
    BY <1>3 DEF Paper!RequestFails
  <2>2. ui' = ui /\ wire' = wire /\ db' = [db EXCEPT !.failures = @ + 1]
    BY <1>3 DEF Paper!RequestFails
  <2>3. DOMAIN db' = {"accounts", "failures"} /\ db'.accounts = db.accounts
    BY <1>1, <2>2
  <2> QED
    BY <2>1, <2>2, <2>3, PaperRefused
<1> QED
  BY <1>2, <1>3

\* A trade behind the page's back is one of its account's.
LEMMA TradeHolds ==
  ASSUME MoneyGiven, PaperInv, NEW a \in DOMAIN db.accounts, NEW asset, NEW side, Paper!Trade(a, asset, side)
  PROVE  PaperInv'
<1>1. PICK accounts, account : accounts = db.accounts /\ account = db.accounts[a]
  OBVIOUS
<1>2. /\ DOMAIN db = {"accounts", "failures"} /\ AccountsHeld(accounts) /\ a \in DOMAIN accounts
      /\ AccountHeld(a, account) /\ account = accounts[a]
  BY <1>1 DEF PaperInv, AccountsHeld
<1>3. PICK sign \in Int : sign = IF side = "buy" THEN 1 ELSE -1
  OBVIOUS
<1>4. PICK t : t = [account |-> a, asset |-> asset, side |-> side, notional |-> TradeSize, fee |-> TradeFee]
  OBVIOUS
<1>5. db' = [db EXCEPT !.accounts[a].cash = @ - sign * TradeSize - TradeFee,
                       !.accounts[a].position = @ + sign * TradeSize,
                       !.accounts[a].trades = Append(@, t)]
  BY <1>3, <1>4 DEF Paper!Trade
<1>6. ui' = ui /\ net' = net /\ wire' = wire
  BY DEF Paper!Trade
<1>7. PICK after : after = db'.accounts[a]
  OBVIOUS
<1>8. /\ DOMAIN db' = {"accounts", "failures"} /\ DOMAIN db'.accounts = DOMAIN accounts
      /\ \A b \in DOMAIN accounts : b # a => db'.accounts[b] = accounts[b]
  BY <1>1, <1>2, <1>5
<1>9. /\ DOMAIN after = {"start", "cash", "position", "trades"}
      /\ after.start = account.start
      /\ after.cash = account.cash - sign * TradeSize - TradeFee
      /\ after.position = account.position + sign * TradeSize
      /\ after.trades = Append(account.trades, t)
  BY <1>1, <1>2, <1>5, <1>7 DEF AccountHeld
<1>10. after.cash \in Int /\ after.position \in Int
  <2>1. PICK x \in Int, y \in Int, size \in Int, fee \in Int :
          x = account.cash /\ y = account.position /\ size = TradeSize /\ fee = TradeFee
    BY <1>2 DEF AccountHeld, MoneyGiven
  <2>2. x - sign * size - fee \in Int /\ y + sign * size \in Int
    OBVIOUS
  <2> QED
    BY Zenon, <1>9, <2>1, <2>2
<1>11. TradesOf(after.trades, a)
  <2>1. PICK trades, n : trades = account.trades /\ n = Append(trades, t)
    OBVIOUS
  <2>2. TradesOf(trades, a)
    BY <1>2, <2>1 DEF AccountHeld
  <2>3. t.account = a /\ t.notional \in Int /\ t.fee \in Int
    BY <1>4 DEF MoneyGiven
  <2>4. PICK S : S = Range(trades) \cup {t}
    OBVIOUS
  <2>5. trades \in Seq(S) /\ t \in S
    <3>1. trades \in Seq(Range(trades)) /\ Range(trades) \subseteq S /\ t \in S
      BY <2>2, <2>4 DEF TradesOf, NumberTrades
    <3> QED
      BY <3>1, SeqMonotonic
  <2>6. n \in Seq(S)
    BY <2>1, <2>5, AppendProperties
  <2>7. Range(n) \subseteq S /\ n \in Seq(Range(n))
    <3>1. DOMAIN n = 1..Len(n) /\ \A i \in 1..Len(n) : n[i] \in S
      BY <2>6, LenProperties, ElementOfSeq
    <3>2. n \in Seq(Range(n))
      BY <2>6, SeqOfRange
    <3> QED
      BY <3>1, <3>2 DEF Range
  <2>8. TradesOf(n, a)
    BY <2>2, <2>3, <2>4, <2>7 DEF TradesOf, NumberTrades
  <2> QED
    BY <1>9, <2>1, <2>8
<1>12. AccountHeld(a, after)
  BY <1>2, <1>9, <1>10, <1>11 DEF AccountHeld
<1>13. AccountsHeld(db'.accounts)
  BY <1>2, <1>7, <1>8, <1>12 DEF AccountsHeld
<1>14. DOMAIN db'.accounts = DOMAIN db.accounts
  BY <1>1, <1>8
<1> QED
  BY <1>6, <1>8, <1>13, <1>14 DEF PaperInv

\* Every step of the page and of its API keeps the invariant.
LEMMA PaperKeeps ==
  ASSUME MoneyGiven, PaperInv, Paper!PaperNext \/ UNCHANGED <<ui, net, db, wire>>
  PROVE  PaperInv'
<1>1. CASE UNCHANGED <<ui, net, db, wire>>
  BY <1>1 DEF PaperInv
<1>2. CASE \E filter \in Paper!Filters : Paper!ApplyFilters(filter)
  BY <1>2, TradesClicks DEF Paper!ApplyFilters
<1>3. CASE Paper!RetryTrades
  <2>1. PICK filter : filter = ui.filter
    OBVIOUS
  <2>2. Paper!LoadTrades(filter)
    BY <1>3, <2>1 DEF Paper!RetryTrades
  <2> QED
    BY <2>2, TradesClicks
<1>4. CASE \/ \E id \in {Paper!NoId, "A", "B"} : Paper!LoadAccount(id)
           \/ \E balance \in Balances : Paper!CreateAccount(balance)
           \/ Paper!ToggleConfirm
           \/ Paper!ConfirmReset
  BY <1>4, AccountClicks
<1>5. CASE \E a \in DOMAIN db.accounts, asset \in PaperAssets, side \in {"buy", "sell"} : Paper!Trade(a, asset, side)
  BY <1>5, TradeHolds
<1> QED
  BY <1>1, <1>2, <1>3, <1>4, <1>5, PaperDelivered, PaperServed DEF Paper!PaperNext

\* The page mounts without an account, and loads one.
LEMMA PaperStarts ==
  ASSUME Paper!PaperInit
  PROVE  PaperInv
<1>1. PICK accounts, fresh : accounts = db.accounts /\ fresh = Paper!FreshAccount(50)
  OBVIOUS
<1>2. DOMAIN db = {"accounts", "failures"} /\ accounts = [a \in {"A", "B"} |-> fresh]
  BY <1>1 DEF Paper!PaperInit
<1>3. AccountsHeld(accounts)
  <2>1. PICK start \in Int : start = 50
    OBVIOUS
  <2>2. \A a : AccountHeld(a, fresh)
    BY <1>1, <2>1, FreshIsHeld
  <2> QED
    BY <1>2, <2>2 DEF AccountsHeld, Paper!Primary
<1>4. DOMAIN ui = PaperFields /\ ui.account = <<>> /\ ui.trades = <<>>
  BY DEF Paper!PaperInit, PaperFields, Paper!Null
<1>5. PaperView(DOMAIN accounts, ui)
  BY <1>4, NoTrades DEF PaperView, TradesOf
<1>6. PaperRequests(DOMAIN accounts, net)
  <2>1. PICK op, arg, empty : op = "account" /\ arg = Paper!NoId /\ empty = <<>>
    OBVIOUS
  <2>2. PICK r : New(r, op, arg) /\ Paper!Issue(empty, op, arg) = Append(empty, r)
    BY PaperNew
  <2>3. IsRequest(r) /\ r.op = "account" /\ r.ok = FALSE
    BY <2>1, <2>2 DEF New
  <2>4. PICK n : n = Append(<<>>, r)
    OBVIOUS
  <2>5. InFlight(n) /\ DOMAIN n = 1..1 /\ n[1] = r
    BY <2>3, <2>4, FirstRequest
  <2>6. net = n
    BY <2>1, <2>2, <2>4 DEF Paper!PaperInit
  <2>7. PaperRequest(DOMAIN accounts, r)
    BY <2>3 DEF PaperRequest
  <2>8. \A x \in Range(n) : x = r
    BY <2>5 DEF Range
  <2> QED
    BY <2>5, <2>6, <2>7, <2>8 DEF PaperRequests
<1>7. Synced(net, ui.account, ui.trades)
  BY <1>4 DEF Synced
<1> QED
  BY <1>1, <1>2, <1>3, <1>5, <1>6, <1>7 DEF PaperInv
=============================================================================
