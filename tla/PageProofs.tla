----------------------------- MODULE PageProofs -----------------------------
(***************************************************************************)
(* What the API's data and a page's own state keep, whatever is asked and  *)
(* in whatever order it is answered: proofs about the pages that preview   *)
(* and buy and about the strategy lab, each on its own, whatever its bounds. *)
(* OperatorConsoleProofs puts them on the page that is mounted.            *)
(***************************************************************************)
EXTENDS RequestProofs

CONSTANTS
  PreviewClicks, PreviewFailures, InstantClicks, InstantFailures,
  Connections, BuyAmounts, BuyKeys, PreviewAmounts, MaxWindow,
  LabClicks, LabFailures, Strategies, StoredSets, Backtests, Typed, Names, Capitals

VARIABLES ui, net, db, wire

Preview == INSTANCE OrderPreviewPage
  WITH MaxClicks <- PreviewClicks, MaxFailures <- PreviewFailures
Instant == INSTANCE InstantBuyPage
  WITH MaxClicks <- InstantClicks, MaxFailures <- InstantFailures

----------------------------------------------------------------------------
(* Previews.  The versions of a request's previews form an unbroken chain   *)
(* of which only the last may still be ready, and a version that is being   *)
(* made continues that chain: that is what the unique constraint, checked   *)
(* after the look-up, keeps true when requests overlap.                     *)

PreviewOps == {"create", "orphan", "refresh"}

\* The previews that were looked for and are about to be stored.
Making(q) ==
  {q[k].val[1] : k \in {n \in DOMAIN q : ~q[n].back /\ q[n].op \in PreviewOps /\ q[n].val # <<>>}}

HasVersion(key, v) ==
  \E id \in Preview!PreviewIds : db.previews[id].key = key /\ db.previews[id].version = v

\* The earlier versions of a request's preview are expired, cancelled or failed.
Retired(key, v) ==
  \A id \in Preview!PreviewIds :
    db.previews[id].key = key /\ db.previews[id].version < v => ~Preview!Alive(id)

PreviewRow(p) ==
  /\ p = [key |-> p.key, version |-> p.version, status |-> p.status, expired |-> p.expired]
  /\ p.version \in Nat \ {0}

PreviewsStored ==
  /\ db = [previews |-> db.previews, window |-> db.window, failures |-> db.failures]
  /\ db.previews \in Seq(Range(db.previews))
  /\ \A id \in Preview!PreviewIds : PreviewRow(db.previews[id])

PreviewChain ==
  /\ \A i, j \in Preview!PreviewIds :
       i # j /\ db.previews[i].key = db.previews[j].key => db.previews[i].version # db.previews[j].version
  /\ \A i \in Preview!PreviewIds : \A v \in 1..db.previews[i].version : HasVersion(db.previews[i].key, v)
  /\ \A i \in Preview!PreviewIds : \E n \in Preview!PreviewIds :
       /\ db.previews[n].key = db.previews[i].key
       /\ \A j \in Preview!PreviewIds :
            db.previews[j].key = db.previews[i].key => db.previews[j].version <= db.previews[n].version
  /\ \A i \in Preview!PreviewIds : Retired(db.previews[i].key, db.previews[i].version)

Continues(m) ==
  /\ m.version \in Nat \ {0}
  /\ \A v \in 1..(m.version - 1) : HasVersion(m.key, v)
  /\ Retired(m.key, m.version)

PreviewInv ==
  InFlight(net) /\ PreviewsStored /\ PreviewChain /\ \A m \in Making(net) : Continues(m)

\* A step that adds no preview, revives none and looks for none keeps the chain.
LEMMA PreviewsKept ==
  ASSUME PreviewInv,
         InFlight(net'), PreviewsStored', Making(net') \subseteq Making(net),
         DOMAIN db'.previews = DOMAIN db.previews,
         \A id \in DOMAIN db.previews :
           /\ db'.previews[id].key = db.previews[id].key
           /\ db'.previews[id].version = db.previews[id].version
           /\ Preview!Alive(id)' => Preview!Alive(id)
  PROVE  PreviewInv'
<1> USE DEF Preview!PreviewIds
<1>1. \A key, v : (HasVersion(key, v) => HasVersion(key, v)') /\ (Retired(key, v) => Retired(key, v)')
  BY DEF HasVersion, Retired
<1>2. PreviewChain /\ \A m \in Making(net) : Continues(m)
  BY DEF PreviewInv
<1>3. PreviewChain'
  BY <1>1, <1>2 DEF PreviewChain
<1>4. \A m \in Making(net') : Continues(m)'
  BY <1>1, <1>2 DEF Continues
<1> QED
  BY <1>3, <1>4 DEF PreviewInv

\* No page and no answer adds a preview that is being made; only a look-up does.
LEMMA MakingMoves ==
  ASSUME NEW q, InFlight(q)
  PROVE  /\ \A r : IsRequest(r) /\ r.val = <<>> => Making(Append(q, r)) \subseteq Making(q)
         /\ \A i \in DOMAIN q : Making(Without(q, i)) \subseteq Making(q)
         /\ \A i \in DOMAIN q, okay \in BOOLEAN : \A v :
              Making(Answer(q, i, okay, v)) \subseteq Making(q)
         /\ \A i \in DOMAIN q :
              q[i].op \in PreviewOps => Making(Rename(q, i, "orphan")) \subseteq Making(q)
         /\ \A i \in DOMAIN q : \A m : Making(GoOn(q, i, <<m>>)) \subseteq Making(q) \cup {m}
<1>1. ASSUME NEW r, IsRequest(r), r.val = <<>>
      PROVE  Making(Append(q, r)) \subseteq Making(q)
  <2> DEFINE n == Append(q, r)
  <2>1. /\ Len(q) \in Nat /\ DOMAIN q = 1..Len(q) /\ DOMAIN n = 1..(Len(q) + 1)
        /\ \A j \in 1..Len(q) : n[j] = q[j]
        /\ n[Len(q) + 1] = r
    BY <1>1, Issued
  <2> HIDE DEF n
  <2>2. Making(n) \subseteq Making(q)
    BY <1>1, <2>1 DEF Making
  <2> QED
    BY <2>2 DEF n
<1>2. ASSUME NEW i \in DOMAIN q
      PROVE  Making(Without(q, i)) \subseteq Making(q)
  <2> DEFINE n == Without(q, i)
  <2>1. /\ Len(q) \in Nat /\ DOMAIN q = 1..Len(q) /\ DOMAIN n = 1..(Len(q) - 1)
        /\ \A j \in 1..(Len(q) - 1) : n[j] = q[IF j < i THEN j ELSE j + 1]
    BY Removed
  <2> HIDE DEF n
  <2>2. \A j \in DOMAIN n : \E k \in DOMAIN q : n[j] = q[k]
    BY <2>1
  <2>3. Making(n) \subseteq Making(q)
    BY <2>2 DEF Making
  <2> QED
    BY <2>3 DEF n
<1>3. ASSUME NEW i \in DOMAIN q, NEW okay \in BOOLEAN, NEW v
      PROVE  Making(Answer(q, i, okay, v)) \subseteq Making(q)
  <2> DEFINE n == Answer(q, i, okay, v)
  <2>1. /\ DOMAIN q = 1..Len(q) /\ DOMAIN n = 1..Len(q)
        /\ \A j \in 1..Len(q) : j # i => n[j] = q[j]
        /\ n[i] = [op |-> q[i].op, arg |-> q[i].arg, back |-> TRUE, ok |-> okay, val |-> v]
    BY Answered
  <2> HIDE DEF n
  <2>2. Making(n) \subseteq Making(q)
    BY <2>1 DEF Making
  <2> QED
    BY <2>2 DEF n
<1>4. ASSUME NEW i \in DOMAIN q, q[i].op \in PreviewOps
      PROVE  Making(Rename(q, i, "orphan")) \subseteq Making(q)
  <2> DEFINE n == Rename(q, i, "orphan")
  <2>1. /\ DOMAIN q = 1..Len(q) /\ DOMAIN n = 1..Len(q)
        /\ \A j \in 1..Len(q) : j # i => n[j] = q[j]
        /\ n[i] = [op |-> "orphan", arg |-> q[i].arg, back |-> q[i].back, ok |-> q[i].ok,
                   val |-> q[i].val]
    BY Renamed
  <2> HIDE DEF n
  <2>2. Making(n) \subseteq Making(q)
    BY <1>4, <2>1 DEF Making
  <2> QED
    BY <2>2 DEF n
<1>5. ASSUME NEW i \in DOMAIN q, NEW m
      PROVE  Making(GoOn(q, i, <<m>>)) \subseteq Making(q) \cup {m}
  <2> DEFINE n == GoOn(q, i, <<m>>)
  <2>1. /\ DOMAIN q = 1..Len(q) /\ DOMAIN n = 1..Len(q)
        /\ \A j \in 1..Len(q) : j # i => n[j] = q[j]
        /\ n[i] = [op |-> q[i].op, arg |-> q[i].arg, back |-> q[i].back, ok |-> q[i].ok,
                   val |-> <<m>>]
    BY Progressed
  <2> HIDE DEF n
  <2>2. Making(n) \subseteq Making(q) \cup {m}
    BY <2>1 DEF Making
  <2> QED
    BY <2>2 DEF n
<1> QED
  BY <1>1, <1>2, <1>3, <1>4, <1>5

\* What the API's answers and the losses do to the requests.
LEMMA PreviewAnswers ==
  ASSUME InFlight(net), NEW i \in DOMAIN net
  PROVE  /\ \A payload : InFlight(Preview!Served(i, payload))
                         /\ Making(Preview!Served(i, payload)) \subseteq Making(net)
         /\ InFlight(Preview!Refused(i)) /\ Making(Preview!Refused(i)) \subseteq Making(net)
         /\ InFlight(Preview!Handled(i)) /\ Making(Preview!Handled(i)) \subseteq Making(net)
<1>1. ASSUME NEW payload
      PROVE  InFlight(Preview!Served(i, payload)) /\ Making(Preview!Served(i, payload)) \subseteq Making(net)
  BY Answered, MakingMoves DEF Preview!Served, Answer
<1>2. InFlight(Preview!Refused(i)) /\ Making(Preview!Refused(i)) \subseteq Making(net)
  BY Answered, MakingMoves DEF Preview!Refused, Answer
<1>3. InFlight(Preview!Handled(i)) /\ Making(Preview!Handled(i)) \subseteq Making(net)
  BY Removed, MakingMoves DEF Preview!Handled, Preview!RemoveAt, Without
<1> QED
  BY <1>1, <1>2, <1>3

\* A stored preview is the newest of its request, and the ones before it are over.
LEMMA PreviewStoredNext ==
  ASSUME PreviewInv,
         NEW i \in DOMAIN net, Preview!StorePreview(net[i], i), ~net[i].back
  PROVE  PreviewInv'
<1> USE DEF Preview!PreviewIds
<1> DEFINE made == net[i].val[1]
<1>1. CASE Preview!Taken(made)
  <2>1. UNCHANGED db /\ net' = Preview!Refused(i)
    BY <1>1 DEF Preview!StorePreview
  <2>2. InFlight(net') /\ Making(net') \subseteq Making(net) /\ PreviewsStored'
    BY <2>1, PreviewAnswers DEF PreviewInv, PreviewsStored, PreviewRow
  <2> QED
    BY <2>1, <2>2, PreviewsKept DEF Preview!Alive, Preview!ComputedStatus
<1>2. CASE ~Preview!Taken(made)
  <2> DEFINE N == Len(db.previews) + 1
  <2>1. PICK status :
          LET row == [key |-> made.key, version |-> made.version, status |-> status, expired |-> FALSE] IN
          /\ net' = Preview!Served(i, Preview!Response(N, row))
          /\ db' = [db EXCEPT !.previews = Append(@, row)]
    BY <1>2 DEF Preview!StorePreview
  <2> DEFINE row == [key |-> made.key, version |-> made.version, status |-> status, expired |-> FALSE]
  <2>2. made \in Making(net)
    BY DEF Making, Preview!StorePreview, PreviewOps, Preview!Null
  <2>3. Continues(made) /\ PreviewsStored /\ InFlight(net) /\ PreviewChain
        /\ \A m \in Making(net) : Continues(m)
    BY <2>2 DEF PreviewInv
  <2>4. InFlight(net') /\ Making(net') \subseteq Making(net)
    BY <2>1, <2>3, PreviewAnswers
  <2>5. db' = [previews |-> Append(db.previews, row), window |-> db.window, failures |-> db.failures]
    BY <2>1, <2>3 DEF PreviewsStored
  <2>6. /\ Len(db.previews) \in Nat /\ DOMAIN db.previews = 1..Len(db.previews)
        /\ db'.previews \in Seq(Range(db'.previews))
        /\ DOMAIN db'.previews = 1..N
        /\ \A id \in 1..Len(db.previews) : db'.previews[id] = db.previews[id]
        /\ db'.previews[N] = row
    <3> DEFINE S == Range(db.previews) \cup {row}
    <3> HIDE DEF row
    <3>1. db.previews \in Seq(S)
      BY <2>3, SeqMonotonic DEF PreviewsStored
    <3>2. /\ Append(db.previews, row) \in Seq(S)
          /\ Len(Append(db.previews, row)) = N
          /\ \A id \in 1..Len(db.previews) : Append(db.previews, row)[id] = db.previews[id]
          /\ Append(db.previews, row)[N] = row
      BY <3>1, AppendProperties
    <3>3. db'.previews = Append(db.previews, row)
      BY <2>5
    <3> QED
      BY <3>1, <3>2, <3>3, LenProperties, SeqOfRange
  <2> HIDE DEF row
  <2>7. PreviewRow(row) /\ row.key = made.key /\ row.version = made.version
    BY <2>3 DEF Continues, PreviewRow, row
  <2>8. PreviewsStored'
    <3>1. db' = [previews |-> db'.previews, window |-> db'.window, failures |-> db'.failures]
      BY <2>5
    <3>2. \A id \in DOMAIN db'.previews : PreviewRow(db'.previews[id])
      BY <2>3, <2>6, <2>7 DEF PreviewsStored
    <3> QED
      BY <2>6, <3>1, <3>2 DEF PreviewsStored
  <2> DEFINE Ids == 1..Len(db.previews)
  <2>9. \A id \in Ids : db.previews[id].version \in Nat \ {0}
    BY <2>3, <2>6 DEF PreviewsStored, PreviewRow
  <2>10. made.version \in Nat \ {0}
    BY <2>3 DEF Continues
  <2>11. ASSUME NEW id \in Ids, db.previews[id].key = made.key
         PROVE  db.previews[id].version < made.version
    <3>1. db.previews[id].version # made.version
      BY <1>2, <2>6, <2>11 DEF Preview!Taken
    <3>2. ~(made.version < db.previews[id].version)
      <4>1. SUFFICES ASSUME made.version \in 1..db.previews[id].version PROVE FALSE
        BY <2>9, <2>10
      <4>2. HasVersion(db.previews[id].key, made.version)
        BY <2>3, <2>6, <4>1 DEF PreviewChain
      <4> QED
        BY <1>2, <2>11, <4>2 DEF HasVersion, Preview!Taken
    <3> QED
      BY <2>9, <2>10, <3>1, <3>2
  <2>12. \A id \in Ids : Preview!Alive(id)' <=> Preview!Alive(id)
    BY <2>6 DEF Preview!Alive, Preview!ComputedStatus
  <2>13. \A key, v : HasVersion(key, v) => HasVersion(key, v)'
    BY <2>6 DEF HasVersion
  <2>14. ASSUME NEW key, NEW top, key = made.key, top = made.version
         PROVE  HasVersion(key, top)'
    BY SMTT(30), <2>6, <2>7, <2>14 DEF HasVersion
  <2>15. ASSUME NEW key, NEW v, Retired(key, v),
                key = made.key => ~(made.version < v)
         PROVE  Retired(key, v)'
    BY <2>6, <2>7, <2>12, <2>15 DEF Retired
  <2>16. PreviewChain'
    <3>1. \A a, b \in 1..N :
            a # b /\ db'.previews[a].key = db'.previews[b].key
              => db'.previews[a].version # db'.previews[b].version
      <4>1. SUFFICES ASSUME NEW a \in 1..N, NEW b \in 1..N, a # b,
                            db'.previews[a].key = db'.previews[b].key
                     PROVE  db'.previews[a].version # db'.previews[b].version
        OBVIOUS
      <4>2. CASE a \in Ids /\ b \in Ids
        BY <2>3, <2>6, <4>1, <4>2 DEF PreviewChain
      <4>3. CASE a \in Ids /\ b = N
        <5>1. db'.previews[a] = db.previews[a] /\ db'.previews[b].version = made.version
          BY <2>6, <2>7, <4>3
        <5>2. db.previews[a].version < made.version
          BY <2>6, <2>7, <2>11, <4>1, <4>3, <5>1
        <5> QED
          BY <2>9, <2>10, <4>3, <5>1, <5>2
      <4>4. CASE a = N /\ b \in Ids
        <5>1. db'.previews[b] = db.previews[b] /\ db'.previews[a].version = made.version
          BY <2>6, <2>7, <4>4
        <5>2. db.previews[b].version < made.version
          BY <2>6, <2>7, <2>11, <4>1, <4>4, <5>1
        <5> QED
          BY <2>9, <2>10, <4>4, <5>1, <5>2
      <4> QED
        BY <2>6, <4>1, <4>2, <4>3, <4>4
    <3>2. ASSUME NEW a \in 1..N, NEW v \in 1..db'.previews[a].version
          PROVE  HasVersion(db.previews[a].key, v)'
      <4>1. PICK key, top : key = db'.previews[a].key /\ top = made.version
        OBVIOUS
      <4>2. SUFFICES HasVersion(key, v)'
        BY <2>6, <4>1 DEF HasVersion
      <4>3. CASE a \in Ids
        BY <2>3, <2>6, <2>13, <4>1, <4>3 DEF PreviewChain
      <4>4. CASE a = N /\ v = top
        BY <2>6, <2>7, <2>14, <4>1, <4>4
      <4>5. CASE a = N /\ v # top
        <5>1. v \in 1..(made.version - 1) /\ key = made.key
          BY <2>6, <2>7, <2>10, <4>1, <4>5
        <5> QED
          BY <2>3, <2>13, <5>1 DEF Continues
      <4> QED
        BY <2>6, <4>3, <4>4, <4>5
    <3>3. ASSUME NEW a \in 1..N
          PROVE  \E n \in 1..N :
                   /\ db'.previews[n].key = db'.previews[a].key
                   /\ \A b \in 1..N : db'.previews[b].key = db'.previews[a].key
                        => db'.previews[b].version <= db'.previews[n].version
      <4>1. CASE db'.previews[a].key = made.key
        <5>1. ASSUME NEW b \in 1..N, db'.previews[b].key = made.key
              PROVE  db'.previews[b].version <= made.version
          <6>1. CASE b \in Ids
            <7>1. db'.previews[b] = db.previews[b]
              BY <2>6, <6>1
            <7>2. db.previews[b].version < made.version
              BY <2>11, <5>1, <6>1, <7>1
            <7> QED
              BY <2>9, <2>10, <6>1, <7>1, <7>2
          <6>2. CASE b = N
            BY <2>6, <2>7, <2>10, <6>2
          <6> QED
            BY <2>6, <6>1, <6>2
        <5>2. N \in 1..N /\ db'.previews[N].key = made.key /\ db'.previews[N].version = made.version
          BY <2>6, <2>7
        <5> QED
          BY <4>1, <5>1, <5>2
      <4>2. CASE db'.previews[a].key # made.key
        <5>1. a \in Ids /\ db'.previews[a] = db.previews[a]
          BY <2>6, <2>7, <4>2
        <5>2. PICK n \in Ids :
                /\ db.previews[n].key = db.previews[a].key
                /\ \A b \in Ids : db.previews[b].key = db.previews[a].key
                     => db.previews[b].version <= db.previews[n].version
          BY <2>3, <2>6, <5>1 DEF PreviewChain
        <5>3. n \in 1..N /\ db'.previews[n] = db.previews[n]
          BY <2>6, <5>2
        <5>4. ASSUME NEW b \in 1..N, db'.previews[b].key = db'.previews[a].key
              PROVE  db'.previews[b].version <= db'.previews[n].version
          <6>1. b \in Ids
            BY <2>6, <2>7, <4>2, <5>4
          <6> QED
            BY <2>6, <5>1, <5>2, <5>3, <5>4, <6>1
        <5> QED
          BY <5>1, <5>2, <5>3, <5>4
      <4> QED
        BY <4>1, <4>2
    <3>4. ASSUME NEW a \in 1..N
          PROVE  Retired(db.previews[a].key, db.previews[a].version)'
      <4>1. PICK key, v : key = db'.previews[a].key /\ v = db'.previews[a].version
        OBVIOUS
      <4>2. SUFFICES Retired(key, v)'
        BY <2>6, <4>1 DEF Retired
      <4>3. CASE a \in Ids
        <5>1. key = db.previews[a].key /\ v = db.previews[a].version
          BY <2>6, <4>1, <4>3
        <5>2. Retired(key, v)
          BY <2>3, <2>6, <4>3, <5>1 DEF PreviewChain
        <5>3. key = made.key => ~(made.version < v)
          <6>1. SUFFICES ASSUME key = made.key PROVE ~(made.version < v)
            OBVIOUS
          <6>2. db.previews[a].version < made.version
            BY <2>11, <4>3, <5>1, <6>1
          <6> QED
            BY <2>9, <2>10, <4>3, <5>1, <6>2
        <5> QED
          BY <2>15, <5>2, <5>3
      <4>4. CASE a = N
        <5>1. key = made.key /\ v = made.version
          BY <2>6, <2>7, <4>1, <4>4
        <5>2. Retired(key, v) /\ ~(made.version < v)
          BY <2>3, <2>10, <5>1 DEF Continues
        <5> QED
          BY <2>15, <5>2
      <4> QED
        BY <2>6, <4>3, <4>4
    <3> QED
      BY <2>6, <3>1, <3>2, <3>3, <3>4 DEF PreviewChain
  <2>17. ASSUME NEW m \in Making(net')
         PROVE  Continues(m)'
    <3>1. Continues(m)
      BY <2>3, <2>4, <2>17
    <3>2. m.key = made.key => ~(made.version < m.version)
      <4>1. SUFFICES ASSUME m.key = made.key, made.version \in 1..(m.version - 1) PROVE FALSE
        BY <2>10, <3>1 DEF Continues
      <4>2. HasVersion(made.key, made.version)
        BY <3>1, <4>1 DEF Continues
      <4> QED
        BY <1>2, <4>2 DEF HasVersion, Preview!Taken
    <3> QED
      BY <2>13, <2>15, <3>1, <3>2 DEF Continues
  <2> QED
    BY <2>4, <2>8, <2>16, <2>17 DEF PreviewInv
<1> QED
  BY <1>1, <1>2

\* A look-up continues the chain: it finds the newest version, and that one is over.
LEMMA PreviewLookedUp ==
  ASSUME PreviewInv, NEW i \in DOMAIN net, Preview!LookUp(net[i], i), ~net[i].back
  PROVE  PreviewInv'
<1> USE DEF Preview!PreviewIds
<1>1. InFlight(net) /\ PreviewsStored /\ PreviewChain /\ \A m \in Making(net) : Continues(m)
  BY DEF PreviewInv
<1>2. UNCHANGED db
  BY DEF Preview!LookUp
<1>3. ASSUME InFlight(net'), Making(net') \subseteq Making(net)
      PROVE  PreviewInv'
  <2>1. PreviewsStored'
    BY <1>1, <1>2 DEF PreviewsStored, PreviewRow
  <2> QED
    BY <1>2, <1>3, <2>1, PreviewsKept DEF Preview!Alive, Preview!ComputedStatus
<1>4. PICK key : key = Preview!Key(Preview!Requested(net[i]))
  OBVIOUS
<1> DEFINE found == Preview!Versions(key) # {}
           top == Preview!Newest(key)
           made == [key |-> key, version |-> IF found THEN db.previews[top].version + 1 ELSE 1]
<1>5. \/ net' = Preview!Refused(i)
      \/ \E payload : net' = Preview!Served(i, payload)
      \/ ~(found /\ Preview!Alive(top)) /\ net' = [net EXCEPT ![i].val = <<made>>]
  BY <1>4 DEF Preview!LookUp
<1>6. CASE net' = Preview!Refused(i)
  BY <1>1, <1>3, <1>6, PreviewAnswers
<1>7. CASE \E payload : net' = Preview!Served(i, payload)
  BY <1>1, <1>3, <1>7, PreviewAnswers
<1>8. CASE ~(found /\ Preview!Alive(top)) /\ net' = [net EXCEPT ![i].val = <<made>>]
  <2>1. made.key = key /\ made.version = IF found THEN db.previews[top].version + 1 ELSE 1
    OBVIOUS
  <2> DEFINE m0 == made
  <2> HIDE DEF m0
  <2>2. net' = GoOn(net, i, <<m0>>)
    BY <1>8 DEF GoOn, m0
  <2>3. InFlight(net') /\ Making(net') \subseteq Making(net) \cup {m0}
    BY <1>1, <2>2, Progressed, MakingMoves
  <2>4. Continues(m0)
    <3> DEFINE Ids == DOMAIN db.previews
    <3>1. m0.key = key /\ m0.version = IF found THEN db.previews[top].version + 1 ELSE 1
      BY <2>1 DEF m0
    <3>2. CASE ~found
      <4>1. m0.version = 1 /\ \A id \in Ids : db.previews[id].key # key
        BY <3>1, <3>2 DEF Preview!Versions
      <4> QED
        BY <3>1, <4>1 DEF Continues, Retired
    <3>3. CASE found
      <4>1. PICK id \in Ids : db.previews[id].key = key
        BY <3>3 DEF Preview!Versions
      <4>2. PICK n \in Ids :
              /\ db.previews[n].key = db.previews[id].key
              /\ \A j \in Ids : db.previews[j].key = db.previews[id].key
                   => db.previews[j].version <= db.previews[n].version
        BY <1>1 DEF PreviewChain
      <4>3. \E n1 \in Preview!Versions(key) :
              \A other \in Preview!Versions(key) : db.previews[other].version <= db.previews[n1].version
        BY <4>1, <4>2 DEF Preview!Versions
      <4>4. top \in Ids /\ db.previews[top].key = key
            /\ \A j \in Ids : db.previews[j].key = key => db.previews[j].version <= db.previews[top].version
        BY <4>3 DEF Preview!Newest, Preview!Versions
      <4> DEFINE V == db.previews[top].version
      <4>5. V \in Nat \ {0} /\ \A j \in Ids : db.previews[j].version \in Nat \ {0}
        BY <1>1, <4>4 DEF PreviewsStored, PreviewRow
      <4>6. ~Preview!Alive(top)
        BY <1>8, <3>3
      <4>7. m0.version = V + 1
        BY <3>1, <3>3
      <4>8. (\A v \in 1..V : HasVersion(key, v)) /\ Retired(key, V)
        BY <1>1, <4>4 DEF PreviewChain
      <4> HIDE DEF top
      <4>9. Retired(key, V + 1)
        <5>1. SUFFICES ASSUME NEW j \in Ids, db.previews[j].key = key, db.previews[j].version < V + 1
                       PROVE  ~Preview!Alive(j)
          BY DEF Retired
        <5>2. CASE j = top
          BY <4>6, <5>2
        <5>3. CASE j # top
          <6>1. db.previews[j].version # V
            BY <1>1, <4>4, <5>1, <5>3 DEF PreviewChain
          <6>2. db.previews[j].version < V
            BY <4>5, <5>1, <6>1
          <6> QED
            BY <4>8, <5>1, <6>2 DEF Retired
        <5> QED
          BY <5>2, <5>3
      <4>10. m0.version \in Nat \ {0} /\ 1..(m0.version - 1) = 1..V
        BY <4>5, <4>7
      <4> QED
        BY <3>1, <4>7, <4>8, <4>9, <4>10 DEF Continues
    <3> QED
      BY <3>2, <3>3
  <2>5. \A m \in Making(net') : Continues(m)
    BY <1>1, <2>3, <2>4
  <2>6. PreviewsStored' /\ PreviewChain' /\ \A m \in Making(net') : Continues(m)'
    BY <1>1, <1>2, <2>5
      DEF PreviewsStored, PreviewRow, PreviewChain, Continues, Retired, HasVersion, Preview!Alive,
          Preview!ComputedStatus
  <2> QED
    BY <2>3, <2>6 DEF PreviewInv
<1> QED
  BY <1>5, <1>6, <1>7, <1>8

\* A preview that is cancelled or expires in its place revives none.
LEMMA PreviewRetires ==
  ASSUME PreviewInv, InFlight(net'), Making(net') \subseteq Making(net), NEW id, NEW row,
         db' = [db EXCEPT !.previews[id] = row],
         id \in DOMAIN db.previews =>
           \/ row = [db.previews[id] EXCEPT !.status = "CANCELLED"]
           \/ row = [db.previews[id] EXCEPT !.expired = TRUE]
  PROVE  PreviewInv'
<1> USE DEF Preview!PreviewIds
<1> DEFINE ps == db.previews
           qs == [ps EXCEPT ![id] = row]
<1>1. db = [previews |-> ps, window |-> db.window, failures |-> db.failures]
      /\ ps \in Seq(Range(ps)) /\ \A k \in DOMAIN ps : PreviewRow(ps[k])
  BY DEF PreviewInv, PreviewsStored
<1> HIDE DEF ps
<1>2. db' = [previews |-> qs, window |-> db.window, failures |-> db.failures]
  BY <1>1 DEF ps
<1>3. /\ Len(ps) \in Nat /\ DOMAIN ps = 1..Len(ps)
      /\ ps = [k \in 1..Len(ps) |-> ps[k]]
  BY <1>1, LenProperties
<1>4. DOMAIN qs = DOMAIN ps /\ \A k \in DOMAIN ps : qs[k] = IF k = id THEN row ELSE ps[k]
  BY <1>3
<1>5. qs \in Seq(Range(qs))
  <2> DEFINE S == Range(ps) \cup {row}
  <2>1. ps \in Seq(S)
    BY <1>1, SeqMonotonic
  <2>2. CASE id \in DOMAIN ps
    <3>1. qs \in Seq(S)
      BY <1>3, <2>1, <2>2, ExceptSeq
    <3> QED
      BY <3>1, SeqOfRange
  <2>3. CASE id \notin DOMAIN ps
    <3>1. qs = ps
      BY <1>3, <2>3
    <3> QED
      BY <1>1, <3>1
  <2> QED
    BY <2>2, <2>3
<1> HIDE DEF qs
<1>6. ASSUME NEW k \in DOMAIN ps
      PROVE  /\ PreviewRow(qs[k]) /\ qs[k].key = ps[k].key /\ qs[k].version = ps[k].version
             /\ \/ qs[k] = ps[k]
                \/ qs[k].status = "CANCELLED" /\ qs[k].expired = ps[k].expired
                \/ qs[k].status = ps[k].status /\ qs[k].expired = TRUE
  <2>1. CASE k # id
    BY <1>1, <1>4, <2>1
  <2>2. CASE k = id
    <3> DEFINE p == ps[k]
               K == p.key
               V == p.version
               T == p.status
               X == p.expired
    <3>1. p = [key |-> K, version |-> V, status |-> T, expired |-> X] /\ V \in Nat \ {0}
      BY <1>1 DEF PreviewRow
    <3> HIDE DEF K, V, T, X
    <3>2. \/ row = [key |-> K, version |-> V, status |-> "CANCELLED", expired |-> X]
          \/ row = [key |-> K, version |-> V, status |-> T, expired |-> TRUE]
      BY <2>2, <3>1 DEF ps
    <3>3. qs[k] = row
      BY <1>4, <2>2
    <3>4. K = p.key /\ V = p.version /\ T = p.status /\ X = p.expired
      BY DEF K, V, T, X
    <3> QED
      BY <3>1, <3>2, <3>3, <3>4 DEF PreviewRow
  <2> QED
    BY <2>1, <2>2
<1>7. db.previews = ps /\ db'.previews = qs
  BY <1>2 DEF ps
<1>8. PreviewsStored'
  <2>1. db' = [previews |-> db'.previews, window |-> db'.window, failures |-> db'.failures]
    BY <1>2
  <2> QED
    BY <2>1, <1>4, <1>5, <1>6, <1>7 DEF PreviewsStored
<1>9. ASSUME NEW k \in DOMAIN ps, Preview!Alive(k)'
      PROVE  Preview!Alive(k)
  <2>1. Preview!ComputedStatus(qs[k]) = "PREVIEW_READY"
    BY <1>7, <1>9 DEF Preview!Alive, Preview!ComputedStatus
  <2>2. Preview!ComputedStatus(ps[k]) = "PREVIEW_READY"
    BY <1>6, <2>1 DEF Preview!ComputedStatus
  <2> QED
    BY <1>7, <2>2 DEF Preview!Alive
<1> QED
  BY <1>4, <1>6, <1>7, <1>8, <1>9, PreviewsKept

\* A step that leaves the stored previews alone.
LEMMA PreviewsAlone ==
  ASSUME PreviewInv, InFlight(net'), Making(net') \subseteq Making(net), NEW n,
         db' = db \/ db' = [db EXCEPT !.failures = n] \/ db' = [db EXCEPT !.window = n]
  PROVE  PreviewInv'
<1> DEFINE P == db.previews
           W == db.window
           F == db.failures
<1>1. db = [previews |-> P, window |-> W, failures |-> F]
  BY DEF PreviewInv, PreviewsStored
<1>2. /\ P \in Seq(Range(P))
      /\ \A id \in DOMAIN P : PreviewRow(P[id])
  BY DEF PreviewInv, PreviewsStored, Preview!PreviewIds
<1> HIDE DEF P, W, F
<1>3. /\ db' = [previews |-> db'.previews, window |-> db'.window, failures |-> db'.failures]
      /\ db'.previews = P
  BY <1>1
<1>4. db'.previews = db.previews
  BY <1>3 DEF P
<1>5. PreviewsStored'
  BY <1>2, <1>3 DEF PreviewsStored, Preview!PreviewIds
<1> QED
  BY <1>4, <1>5, PreviewsKept DEF Preview!Alive, Preview!ComputedStatus

\* A handler issues one request.
LEMMA PreviewIssues ==
  ASSUME InFlight(net), NEW op, NEW arg
  PROVE  InFlight(Preview!Issue(net, op, arg)) /\ Making(Preview!Issue(net, op, arg)) \subseteq Making(net)
<1> DEFINE r == Preview!NewRequest(op, arg)
<1>1. IsRequest(r) /\ r.val = <<>>
  BY DEF IsRequest, Preview!NewRequest, Preview!Null
<1> HIDE DEF r
<1>2. InFlight(Append(net, r)) /\ Making(Append(net, r)) \subseteq Making(net)
  BY <1>1, Issued, MakingMoves
<1> QED
  BY <1>2 DEF Preview!Issue, r

\* Every step of the preview page and of its API keeps the chain.
LEMMA PreviewKeeps ==
  ASSUME PreviewInv, Preview!PreviewNext \/ UNCHANGED <<ui, net, db, wire>>
  PROVE  PreviewInv'
<1>1. InFlight(net)
  BY DEF PreviewInv
<1>2. CASE UNCHANGED <<net, db>>
  BY <1>1, <1>2, PreviewsAlone
<1>3. ASSUME NEW flag, NEW op, NEW arg, Preview!Ask(flag, op, arg)
      PROVE  PreviewInv'
  BY <1>1, <1>3, PreviewIssues, PreviewsAlone DEF Preview!Ask
<1>4. CASE Preview!GeneratePreview \/ Preview!RefreshPreview \/ Preview!CancelPreview
  BY <1>3, <1>4 DEF Preview!GeneratePreview, Preview!RefreshPreview, Preview!CancelPreview
<1>5. CASE Preview!Deliver
  <2>1. PICK i \in DOMAIN net : net' = Preview!Handled(i) /\ UNCHANGED db
    BY <1>5 DEF Preview!Deliver, Preview!Deliverable
  <2> QED
    BY <1>1, <2>1, PreviewAnswers, PreviewsAlone
<1>6. CASE Preview!ConnectionLost
  <2>1. PICK i \in DOMAIN net : net[i].op = "create" /\ net' = [net EXCEPT ![i].op = "orphan"]
    BY <1>6 DEF Preview!ConnectionLost, Preview!Servable
  <2>2. net' = Rename(net, i, "orphan") /\ net[i].op \in PreviewOps
    BY <2>1 DEF Rename, PreviewOps
  <2>3. InFlight(net') /\ Making(net') \subseteq Making(net)
    BY <1>1, <2>2, Renamed, MakingMoves
  <2>4. \E n : db' = [db EXCEPT !.failures = n]
    BY <1>6 DEF Preview!ConnectionLost
  <2> QED
    BY <2>3, <2>4, PreviewsAlone
<1>7. CASE Preview!RequestFails
  <2>1. PICK i \in DOMAIN net : net' = Preview!Refused(i)
    BY <1>7 DEF Preview!RequestFails, Preview!Servable, Preview!Deliverable
  <2>2. \E n : db' = [db EXCEPT !.failures = n]
    BY <1>7 DEF Preview!RequestFails
  <2> QED
    BY <1>1, <2>1, <2>2, PreviewAnswers, PreviewsAlone
<1>8. CASE Preview!Serve
  <2>1. PICK i \in DOMAIN net :
          /\ ~net[i].back
          /\ \/ Preview!ServeLoad(net[i], i) \/ Preview!LookUp(net[i], i)
             \/ Preview!StorePreview(net[i], i) \/ Preview!ServeCancel(net[i], i)
    BY <1>8 DEF Preview!Serve, Preview!Servable
  <2>2. CASE Preview!ServeLoad(net[i], i)
    <3>1. UNCHANGED db /\ \E payload : net' = Preview!Served(i, payload)
      BY <2>2 DEF Preview!ServeLoad
    <3> QED
      BY <1>1, <3>1, PreviewAnswers, PreviewsAlone
  <2>3. CASE Preview!LookUp(net[i], i)
    BY <2>1, <2>3, PreviewLookedUp
  <2>4. CASE Preview!StorePreview(net[i], i)
    BY <2>1, <2>4, PreviewStoredNext
  <2>5. CASE Preview!ServeCancel(net[i], i)
    <3>1. PICK id : id = net[i].arg.id
      OBVIOUS
    <3>2. PICK row : row = [db.previews[id] EXCEPT !.status = "CANCELLED"]
      OBVIOUS
    <3>3. (\E payload : net' = Preview!Served(i, payload)) /\ db' = [db EXCEPT !.previews[id] = row]
      BY <2>5, <3>1, <3>2 DEF Preview!ServeCancel
    <3>4. InFlight(net') /\ Making(net') \subseteq Making(net)
      BY <1>1, <3>3, PreviewAnswers
    <3> QED
      BY <3>2, <3>3, <3>4, PreviewRetires
  <2> QED
    BY <2>1, <2>2, <2>3, <2>4, <2>5
<1>9. ASSUME NEW id \in Preview!PreviewIds, Preview!Expires(id)
      PROVE  PreviewInv'
  <2>1. PICK row : row = [db.previews[id] EXCEPT !.expired = TRUE]
    OBVIOUS
  <2>2. db' = [db EXCEPT !.previews[id] = row] /\ UNCHANGED net
    BY <1>9, <2>1 DEF Preview!Expires
  <2> QED
    BY <1>1, <2>1, <2>2, PreviewRetires
<1>10. CASE Preview!NextWindow
  <2>1. UNCHANGED net /\ \E n : db' = [db EXCEPT !.window = n]
    BY <1>10 DEF Preview!NextWindow
  <2> QED
    BY <1>1, <2>1, PreviewsAlone
<1>11. ASSUME NEW view, Preview!Type(view)
       PROVE  PreviewInv'
  BY <1>2, <1>11 DEF Preview!Type
<1>12. CASE \/ \E side \in {"BUY", "SELL"} : Preview!ChooseSide(side)
            \/ \E currency \in {"USD", "BTC"} : Preview!ChooseCurrency(currency)
            \/ \E amount \in PreviewAmounts : Preview!TypeAmount(amount)
            \/ \E i \in DOMAIN Connections : Preview!ChooseConnection(i)
  BY <1>11, <1>12
    DEF Preview!ChooseSide, Preview!ChooseCurrency, Preview!TypeAmount, Preview!ChooseConnection
<1> QED
  BY <1>2, <1>4, <1>5, <1>6, <1>7, <1>8, <1>9, <1>10, <1>12 DEF Preview!PreviewNext

\* Mounting the page starts with no previews.
LEMMA PreviewStarts ==
  ASSUME Preview!PreviewInit
  PROVE  PreviewInv
<1> DEFINE r == Preview!NewRequest("load", Preview!Null)
<1>1. IsRequest(r) /\ r.op = "load"
  BY DEF IsRequest, Preview!NewRequest, Preview!Null
<1> HIDE DEF r
<1>2. net = Append(<<>>, r)
  BY DEF Preview!PreviewInit, Preview!Issue, r
<1>3. InFlight(net) /\ DOMAIN net = 1..1 /\ net[1] = r
  BY <1>1, <1>2, FirstRequest
<1>4. Making(net) = {}
  BY <1>1, <1>3 DEF Making, PreviewOps
<1>5. db.previews = <<>> /\ db = [previews |-> <<>>, window |-> 0, failures |-> 0]
  BY DEF Preview!PreviewInit
<1>6. DOMAIN db.previews = {}
  BY <1>5
<1>7. db.previews \in Seq(Range(db.previews))
  BY <1>5, EmptySeq, SeqOfRange
<1>8. PreviewsStored
  BY <1>5, <1>6, <1>7 DEF PreviewsStored, Preview!PreviewIds
<1>9. PreviewChain
  BY <1>6 DEF PreviewChain, Preview!PreviewIds
<1> QED
  BY <1>3, <1>4, <1>8, <1>9 DEF PreviewInv

\* Of two previews of a request, the chain has retired the earlier version.
LEMMA PreviewHolds ==
  ASSUME PreviewInv
  PROVE  Preview!PreviewedOnce
<1>1. SUFFICES ASSUME NEW i \in Preview!PreviewIds, NEW j \in Preview!PreviewIds,
                      i # j, Preview!Alive(i), Preview!Alive(j),
                      db.previews[i].key = db.previews[j].key
               PROVE  FALSE
  BY DEF Preview!PreviewedOnce
<1>2. db.previews[i].version \in Nat /\ db.previews[j].version \in Nat
      /\ db.previews[i].version # db.previews[j].version
  BY <1>1 DEF PreviewInv, PreviewChain, PreviewsStored, PreviewRow
<1>3. Retired(db.previews[i].key, db.previews[i].version)
      /\ Retired(db.previews[j].key, db.previews[j].version)
  BY DEF PreviewInv, PreviewChain
<1> QED
  BY <1>1, <1>2, <1>3 DEF Retired

----------------------------------------------------------------------------
(* Instant orders.  A purchase that is under way has reached a step with an *)
(* order.  No two have checked or stored the same order: a resumed order is *)
(* locked until it is stored, and an order that is stored is not rejected,  *)
(* which it would have to be to be resumed.  That is why the exchange hears *)
(* of an order once.                                                        *)

\* The purchases under way.
Waiting(q) == {k \in DOMAIN q : ~q[k].back /\ q[k].val # <<>>}

Reached(q, k, step, id) == k \in Waiting(q) /\ q[k].val = <<[step |-> step, order |-> id]>>

OrderRow(o) ==
  o = [key |-> o.key, amount |-> o.amount, status |-> o.status, legacy |-> o.legacy, adopted |-> o.adopted]

OrdersStored ==
  /\ db = [orders |-> db.orders, exchange |-> db.exchange, accepted |-> db.accepted, failures |-> db.failures]
  /\ db.orders \in Seq(Range(db.orders))
  /\ \A id \in Instant!OrderIds : OrderRow(db.orders[id])
  /\ db.exchange \in Seq({"none", "open", "partial", "filled"}) /\ Len(db.exchange) = Len(db.orders)
  /\ db.accepted \in Seq({0, 1}) /\ Len(db.accepted) = Len(db.orders)

StepsReached ==
  \A k \in Waiting(net) : \E step \in {"checked", "stored", "recorded"}, id \in {0} \cup Instant!OrderIds :
    Reached(net, k, step, id) /\ (id = 0 => step = "checked")

OneBuyer ==
  \A id \in Instant!OrderIds, s, t \in {"checked", "stored"}, k, l \in Waiting(net) :
    Reached(net, k, s, id) /\ Reached(net, l, t, id) => k = l

StoredUnsent ==
  \A id \in Instant!OrderIds, k \in Waiting(net) :
    Reached(net, k, "stored", id) => db.accepted[id] = 0 /\ db.orders[id].status # "REJECTED"

CheckedResumable ==
  \A id \in Instant!OrderIds, k \in Waiting(net) :
    Reached(net, k, "checked", id) => Instant!Resumable(id)

ResumableUnsent == \A id \in Instant!OrderIds : Instant!Resumable(id) => db.accepted[id] = 0

OrdersDiffer ==
  \A i, j \in Instant!OrderIds :
    i # j /\ db.orders[i].key = db.orders[j].key => db.orders[i].amount # db.orders[j].amount

\* On an ordered wire one request is served at a time, so a key has one order.
OneAtATime == wire = "ordered" => \A k \in Waiting(net) : \A j \in 1..(k - 1) : net[j].back

CheckedNew ==
  wire = "ordered" => \A k \in Waiting(net) :
    Reached(net, k, "checked", 0) => \A id \in Instant!OrderIds : db.orders[id].key # net[k].arg.key

KeysDiffer ==
  wire = "ordered" => \A i, j \in Instant!OrderIds : i # j => db.orders[i].key # db.orders[j].key

InstantInv ==
  /\ InFlight(net) /\ OrdersStored /\ StepsReached
  /\ OneBuyer /\ StoredUnsent /\ CheckedResumable /\ ResumableUnsent /\ OrdersDiffer
  /\ OneAtATime /\ CheckedNew /\ KeysDiffer

\* No purchase of n is news to q, and none is overtaken by an unanswered request.
Fewer(n, q) ==
  /\ InFlight(n)
  /\ \E f \in [Waiting(n) -> Waiting(q)] :
       /\ \A k, l \in Waiting(n) : f[k] = f[l] => k = l
       /\ \A k \in Waiting(n) : n[k] = q[f[k]]
       /\ \A k \in Waiting(n) :
            (\A j \in 1..(f[k] - 1) : q[j].back) => \A j \in 1..(k - 1) : n[j].back

\* A request that is issued, answered or handled is no purchase further on.
LEMMA FewerWaiting ==
  ASSUME NEW q, InFlight(q)
  PROVE  /\ Fewer(q, q)
         /\ \A r : IsRequest(r) /\ r.val = <<>> => Fewer(Append(q, r), q)
         /\ \A i \in DOMAIN q, okay \in BOOLEAN : \A v : Fewer(Answer(q, i, okay, v), q)
         /\ \A i \in DOMAIN q : Fewer(Without(q, i), q)
<1>1. Len(q) \in Nat /\ DOMAIN q = 1..Len(q)
  BY LenProperties DEF InFlight
<1>2. ASSUME NEW n, InFlight(n), Waiting(n) \subseteq Waiting(q),
             \A k \in Waiting(n) : n[k] = q[k],
             \A j \in DOMAIN q : q[j].back => n[j].back
      PROVE  Fewer(n, q)
  <2> DEFINE f == [k \in Waiting(n) |-> k]
  <2>1. f \in [Waiting(n) -> Waiting(q)]
    BY <1>2
  <2>2. ASSUME NEW k \in Waiting(n), \A j \in 1..(k - 1) : q[j].back
        PROVE  \A j \in 1..(k - 1) : n[j].back
    <3>1. k \in 1..Len(q)
      BY <1>1, <1>2 DEF Waiting
    <3>2. \A j \in 1..(k - 1) : j \in DOMAIN q
      BY <1>1, <3>1
    <3> QED
      BY <1>2, <2>2, <3>2
  <2>3. \A k \in Waiting(n) : f[k] = k
    OBVIOUS
  <2> HIDE DEF f
  <2> QED
    BY <1>2, <2>1, <2>2, <2>3 DEF Fewer
<1>3. Fewer(q, q)
  BY <1>2
<1>4. ASSUME NEW r, IsRequest(r), r.val = <<>>
      PROVE  Fewer(Append(q, r), q)
  <2> DEFINE n == Append(q, r)
  <2>1. /\ InFlight(n) /\ DOMAIN n = 1..(Len(q) + 1)
        /\ \A j \in 1..Len(q) : n[j] = q[j]
        /\ n[Len(q) + 1] = r
    BY <1>4, Issued
  <2> HIDE DEF n
  <2>2. Waiting(n) \subseteq Waiting(q) /\ \A k \in Waiting(n) : n[k] = q[k]
    BY <1>1, <1>4, <2>1 DEF Waiting
  <2>3. Fewer(n, q)
    BY <1>1, <1>2, <2>1, <2>2
  <2> QED
    BY <2>3 DEF n
<1>5. ASSUME NEW i \in DOMAIN q, NEW okay \in BOOLEAN, NEW v
      PROVE  Fewer(Answer(q, i, okay, v), q)
  <2> DEFINE n == Answer(q, i, okay, v)
  <2>1. /\ InFlight(n) /\ DOMAIN n = 1..Len(q)
        /\ \A j \in 1..Len(q) : j # i => n[j] = q[j]
        /\ n[i] = [op |-> q[i].op, arg |-> q[i].arg, back |-> TRUE, ok |-> okay, val |-> v]
    BY Answered
  <2> HIDE DEF n
  <2>2. n[i].back = TRUE
    BY <2>1
  <2>3. Waiting(n) \subseteq Waiting(q) /\ \A k \in Waiting(n) : n[k] = q[k]
    BY <1>1, <2>1, <2>2 DEF Waiting
  <2>4. \A j \in DOMAIN q : q[j].back => n[j].back
    BY <1>1, <2>1, <2>2
  <2>5. Fewer(n, q)
    BY <1>2, <2>1, <2>3, <2>4
  <2> QED
    BY <2>5 DEF n
<1>6. ASSUME NEW i \in DOMAIN q
      PROVE  Fewer(Without(q, i), q)
  <2> DEFINE n == Without(q, i)
             f == [k \in Waiting(n) |-> IF k < i THEN k ELSE k + 1]
  <2>1. /\ InFlight(n) /\ DOMAIN n = 1..(Len(q) - 1)
        /\ \A j \in 1..(Len(q) - 1) : n[j] = q[IF j < i THEN j ELSE j + 1]
    BY Removed
  <2> HIDE DEF n
  <2>2. \A k \in Waiting(n) : /\ k \in 1..(Len(q) - 1)
                              /\ f[k] = IF k < i THEN k ELSE k + 1
    BY <2>1 DEF Waiting
  <2> HIDE DEF f
  <2>3. \A k \in Waiting(n) : f[k] \in Waiting(q) /\ n[k] = q[f[k]]
    BY <1>1, <2>1, <2>2 DEF Waiting
  <2>4. f \in [Waiting(n) -> Waiting(q)]
    BY <2>3 DEF f
  <2>5. \A k, l \in Waiting(n) : f[k] = f[l] => k = l
    BY <1>1, <2>2
  <2>6. ASSUME NEW k \in Waiting(n), \A j \in 1..(f[k] - 1) : q[j].back,
               NEW j \in 1..(k - 1)
        PROVE  n[j].back
    <3>1. PICK m : m = IF j < i THEN j ELSE j + 1
      OBVIOUS
    <3>2. n[j] = q[m]
      BY <1>1, <2>1, <2>2, <3>1
    <3>3. m \in 1..(f[k] - 1)
      BY <1>1, <2>2, <3>1
    <3> QED
      BY <2>6, <3>2, <3>3
  <2>7. Fewer(n, q)
    BY <2>1, <2>3, <2>4, <2>5, <2>6 DEF Fewer
  <2> QED
    BY <2>7 DEF n
<1> QED
  BY <1>3, <1>4, <1>5, <1>6

\* A step that takes no purchase further, tells the exchange nothing, stores no order
\* and rejects or resumes none.
LEMMA OrdersKept ==
  ASSUME InstantInv, Fewer(net', net), wire' = wire, OrdersStored',
         DOMAIN db'.orders = DOMAIN db.orders, db'.accepted = db.accepted,
         \A id \in DOMAIN db.orders :
           /\ db'.orders[id].key = db.orders[id].key
           /\ db'.orders[id].amount = db.orders[id].amount
           /\ db'.orders[id].legacy = db.orders[id].legacy
           /\ (db'.orders[id].status = "REJECTED") <=> (db.orders[id].status = "REJECTED")
  PROVE  InstantInv'
<1> USE DEF Instant!OrderIds
<1>1. PICK f \in [Waiting(net') -> Waiting(net)] :
        /\ \A k, l \in Waiting(net') : f[k] = f[l] => k = l
        /\ \A k \in Waiting(net') : net'[k] = net[f[k]]
        /\ \A k \in Waiting(net') :
             (\A j \in 1..(f[k] - 1) : net[j].back) => \A j \in 1..(k - 1) : net'[j].back
  BY DEF Fewer
<1>2. \A step, id : \A k \in Waiting(net') : Reached(net', k, step, id) <=> Reached(net, f[k], step, id)
  BY <1>1 DEF Reached
<1>3. \A id \in DOMAIN db.orders : Instant!Resumable(id)' <=> Instant!Resumable(id)
  BY DEF Instant!Resumable
<1>4. InFlight(net') /\ \A step, id : \A k : Reached(net, k, step, id)' <=> Reached(net', k, step, id)
  BY DEF Fewer, Reached, Waiting
<1>5. StepsReached'
  <2>1. SUFFICES ASSUME NEW k \in Waiting(net')
                 PROVE  \E step \in {"checked", "stored", "recorded"}, id \in {0} \cup DOMAIN db.orders :
                          Reached(net', k, step, id) /\ (id = 0 => step = "checked")
    BY DEF StepsReached, Waiting, Reached
  <2>2. \E step \in {"checked", "stored", "recorded"}, id \in {0} \cup DOMAIN db.orders :
          Reached(net, f[k], step, id) /\ (id = 0 => step = "checked")
    BY <1>1 DEF InstantInv, StepsReached
  <2> QED
    BY <1>2, <2>2
<1>6. OneBuyer'
  <2>1. SUFFICES ASSUME NEW id \in DOMAIN db.orders, NEW s \in {"checked", "stored"},
                        NEW t \in {"checked", "stored"}, NEW k \in Waiting(net'), NEW l \in Waiting(net'),
                        Reached(net', k, s, id), Reached(net', l, t, id)
                 PROVE  k = l
    BY DEF OneBuyer, Waiting, Reached
  <2>2. f[k] = f[l]
    BY <1>1, <1>2, <2>1 DEF InstantInv, OneBuyer
  <2> QED
    BY <1>1, <2>2
<1>7. StoredUnsent'
  <2>1. SUFFICES ASSUME NEW id \in DOMAIN db.orders, NEW k \in Waiting(net'),
                        Reached(net', k, "stored", id)
                 PROVE  db'.accepted[id] = 0 /\ db'.orders[id].status # "REJECTED"
    BY DEF StoredUnsent, Waiting, Reached
  <2> QED
    BY <1>1, <1>2, <2>1 DEF InstantInv, StoredUnsent
<1>8. CheckedResumable'
  <2>1. SUFFICES ASSUME NEW id \in DOMAIN db.orders, NEW k \in Waiting(net'),
                        Reached(net', k, "checked", id)
                 PROVE  Instant!Resumable(id)'
    BY DEF CheckedResumable, Waiting, Reached
  <2> QED
    BY <1>1, <1>2, <1>3, <2>1 DEF InstantInv, CheckedResumable
<1>9. ResumableUnsent' /\ OrdersDiffer' /\ KeysDiffer'
  BY <1>3 DEF InstantInv, ResumableUnsent, OrdersDiffer, KeysDiffer
<1>10. OneAtATime'
  <2>1. SUFFICES ASSUME wire = "ordered", NEW k \in Waiting(net')
                 PROVE  \A j \in 1..(k - 1) : net'[j].back
    BY DEF OneAtATime, Waiting
  <2> QED
    BY <1>1, <2>1 DEF InstantInv, OneAtATime
<1>11. CheckedNew'
  <2>1. SUFFICES ASSUME wire = "ordered", NEW k \in Waiting(net'), Reached(net', k, "checked", 0),
                        NEW id \in DOMAIN db.orders
                 PROVE  db'.orders[id].key # net'[k].arg.key
    BY DEF CheckedNew, Waiting, Reached
  <2> QED
    BY <1>1, <1>2, <2>1 DEF InstantInv, CheckedNew
<1> QED
  BY <1>4, <1>5, <1>6, <1>7, <1>8, <1>9, <1>10, <1>11 DEF InstantInv

\* A row of a table that changes does so in its place, if there is such a row.
LEMMA RowChanged ==
  ASSUME NEW os, NEW S, os \in Seq(S), NEW id, NEW row, id \in DOMAIN os => row \in S
  PROVE  LET qs == [os EXCEPT ![id] = row] IN
         /\ qs \in Seq(S)
         /\ DOMAIN qs = DOMAIN os /\ Len(qs) = Len(os)
         /\ \A k \in DOMAIN os : qs[k] = IF k = id THEN row ELSE os[k]
<1> DEFINE qs == [os EXCEPT ![id] = row]
<1>1. Len(os) \in Nat /\ DOMAIN os = 1..Len(os) /\ os = [k \in 1..Len(os) |-> os[k]]
  BY LenProperties
<1>2. DOMAIN qs = DOMAIN os /\ \A k \in DOMAIN os : qs[k] = IF k = id THEN row ELSE os[k]
  BY <1>1
<1>3. CASE id \in DOMAIN os
  <2>1. qs \in Seq(S) /\ Len(qs) = Len(os)
    BY <1>1, <1>3, ExceptSeq
  <2> QED
    BY <1>2, <2>1
<1>4. CASE id \notin DOMAIN os
  <2>1. qs = os
    BY <1>1, <1>4
  <2> QED
    BY <1>2, <2>1
<1> QED
  BY <1>3, <1>4

\* The tables after a change of one order's row, and of what the exchange made of it.
Rewritten(id, row, xs, as, n) ==
  db' = [orders |-> [db.orders EXCEPT ![id] = row], exchange |-> xs, accepted |-> as, failures |-> n]

\* What a change of one order's row, of its state at the exchange and of the number
\* of times it was accepted keeps of the tables.
LEMMA OrderChanged ==
  ASSUME OrdersStored, NEW id, NEW row, NEW xs, NEW as, NEW n,
         id \in Instant!OrderIds => OrderRow(row),
         xs \in Seq({"none", "open", "partial", "filled"}), Len(xs) = Len(db.exchange),
         as \in Seq({0, 1}), Len(as) = Len(db.accepted),
         Rewritten(id, row, xs, as, n)
  PROVE  /\ OrdersStored' /\ db'.accepted = as
         /\ DOMAIN db'.orders = DOMAIN db.orders
         /\ \A k \in DOMAIN db.orders : db'.orders[k] = IF k = id THEN row ELSE db.orders[k]
<1> USE DEF Instant!OrderIds
<1> DEFINE O == db.orders
           qs == [O EXCEPT ![id] = row]
           S == Range(O) \cup {row}
<1>1. O \in Seq(S)
  BY SeqMonotonic DEF OrdersStored
<1> HIDE DEF O
<1>2. /\ qs \in Seq(S) /\ DOMAIN qs = DOMAIN O /\ Len(qs) = Len(O)
      /\ \A k \in DOMAIN O : qs[k] = IF k = id THEN row ELSE O[k]
  BY <1>1, RowChanged
<1>3. qs \in Seq(Range(qs))
  BY <1>2, SeqOfRange
<1>4. db' = [orders |-> qs, exchange |-> xs, accepted |-> as, failures |-> n]
  BY DEF Rewritten, O
<1> HIDE DEF qs
<1>5. \A k \in DOMAIN qs : OrderRow(qs[k])
  BY <1>2 DEF OrdersStored, O
<1>6. Len(xs) = Len(O) /\ Len(as) = Len(O)
  BY DEF OrdersStored, O
<1>7. /\ db' = [orders |-> db'.orders, exchange |-> db'.exchange, accepted |-> db'.accepted,
                failures |-> db'.failures]
      /\ db'.orders = qs /\ db'.exchange = xs /\ db'.accepted = as
  BY <1>4
<1>8. OrdersStored'
  BY <1>2, <1>3, <1>5, <1>6, <1>7 DEF OrdersStored
<1> QED
  BY <1>2, <1>7, <1>8 DEF O

\* The status of an order changes.
LEMMA StatusChanged ==
  ASSUME OrdersStored, NEW id \in Instant!OrderIds, NEW status,
         db' = [db EXCEPT !.orders[id].status = status]
  PROVE  LET o == db.orders[id]
             row == [key |-> o.key, amount |-> o.amount, status |-> status, legacy |-> o.legacy,
                     adopted |-> o.adopted]
         IN  /\ OrdersStored' /\ db'.accepted = db.accepted
             /\ DOMAIN db'.orders = DOMAIN db.orders
             /\ \A k \in DOMAIN db.orders : db'.orders[k] = IF k = id THEN row ELSE db.orders[k]
<1> USE DEF Instant!OrderIds
<1> DEFINE O == db.orders
           X == db.exchange
           A == db.accepted
           F == db.failures
           o == O[id]
           K == o.key
           M == o.amount
           T == o.status
           L == o.legacy
           D == o.adopted
           row == [key |-> K, amount |-> M, status |-> status, legacy |-> L, adopted |-> D]
<1>1. db = [orders |-> O, exchange |-> X, accepted |-> A, failures |-> F]
  BY DEF OrdersStored
<1>2. o = [key |-> K, amount |-> M, status |-> T, legacy |-> L, adopted |-> D]
  BY DEF OrdersStored, OrderRow
<1> HIDE DEF K, M, T, L, D
<1>3. [o EXCEPT !.status = status] = row
  BY <1>2
<1> HIDE DEF O, X, A, F
<1>4. db' = [db EXCEPT !.orders = [O EXCEPT ![id] = [o EXCEPT !.status = status]]]
  BY DEF O
<1> HIDE DEF o, row
<1>5. db' = [orders |-> [O EXCEPT ![id] = row], exchange |-> X, accepted |-> A, failures |-> F]
  BY <1>1, <1>3, <1>4
<1>6. OrderRow(row)
  BY DEF OrderRow, row
<1>7. /\ OrdersStored' /\ db'.accepted = A
      /\ DOMAIN db'.orders = DOMAIN O
      /\ \A k \in DOMAIN O : db'.orders[k] = IF k = id THEN row ELSE O[k]
  <2>1. Rewritten(id, row, X, A, F)
    BY <1>5 DEF Rewritten, O
  <2> QED
    BY <1>6, <2>1, OrderChanged DEF OrdersStored, O, X, A
<1> QED
  BY <1>7 DEF O, A, o, row, K, M, L, D

\* What the exchange's answer changes of the tables.
LEMMA AnswerRecorded ==
  ASSUME OrdersStored, NEW id \in Instant!OrderIds, NEW status, NEW accepts \in BOOLEAN, NEW legacy,
         db.accepted[id] = 0, Instant!Recorded(id, status, accepts, legacy)
  PROVE  LET o == db.orders[id]
             row == [key |-> o.key, amount |-> o.amount, status |-> status, legacy |-> legacy,
                     adopted |-> o.adopted]
         IN  /\ OrdersStored'
             /\ DOMAIN db'.orders = DOMAIN db.orders
             /\ \A k \in DOMAIN db.orders : db'.orders[k] = IF k = id THEN row ELSE db.orders[k]
             /\ \A k \in DOMAIN db.orders :
                  db'.accepted[k] = IF k = id /\ accepts THEN 1 ELSE db.accepted[k]
<1> USE DEF Instant!OrderIds
<1> DEFINE O == db.orders
           X == db.exchange
           A == db.accepted
           F == db.failures
           row == [key |-> O[id].key, amount |-> O[id].amount, status |-> status, legacy |-> legacy,
                   adopted |-> O[id].adopted]
           xs == [X EXCEPT ![id] = IF accepts THEN "open" ELSE X[id]]
           as == [A EXCEPT ![id] = IF accepts THEN A[id] + 1 ELSE A[id]]
<1>1. db = [orders |-> O, exchange |-> X, accepted |-> A, failures |-> F]
  BY DEF OrdersStored
<1>2. /\ O \in Seq(Range(O)) /\ OrderRow(O[id]) /\ id \in DOMAIN O
      /\ X \in Seq({"none", "open", "partial", "filled"}) /\ Len(X) = Len(O)
      /\ A \in Seq({0, 1}) /\ Len(A) = Len(O) /\ A[id] = 0
  BY DEF OrdersStored
<1>3. DOMAIN O = 1..Len(O) /\ DOMAIN X = 1..Len(O) /\ DOMAIN A = 1..Len(O)
  BY <1>2, LenProperties
<1> HIDE DEF O, X, A, F
<1>4. db' = [orders |-> [O EXCEPT ![id].status = status, ![id].legacy = legacy],
             exchange |-> xs, accepted |-> as, failures |-> F]
  BY <1>1 DEF Instant!Recorded
<1>5. [O EXCEPT ![id].status = status, ![id].legacy = legacy] = [O EXCEPT ![id] = row]
  <2> DEFINE n == [O EXCEPT ![id].status = status, ![id].legacy = legacy]
  <2>1. O = [k \in 1..Len(O) |-> O[k]]
    BY <1>2, LenProperties
  <2>2. n[id] = row
    BY <1>2 DEF OrderRow
  <2>3. n = [k \in 1..Len(O) |-> n[k]] /\ \A k \in 1..Len(O) : k # id => n[k] = O[k]
    BY <1>2, <2>1
  <2> HIDE DEF n, row
  <2> QED
    BY <1>2, <2>1, <2>2, <2>3 DEF n
<1>6. X[id] \in {"none", "open", "partial", "filled"}
  BY <1>2, <1>3
<1>7. xs \in Seq({"none", "open", "partial", "filled"}) /\ Len(xs) = Len(X)
  <2>1. (IF accepts THEN "open" ELSE X[id]) \in {"none", "open", "partial", "filled"}
    BY <1>6
  <2> QED
    BY <1>2, <2>1, RowChanged
<1>8. /\ as \in Seq({0, 1}) /\ Len(as) = Len(A)
      /\ \A k \in DOMAIN A : as[k] = IF k = id /\ accepts THEN 1 ELSE A[k]
  <2>1. (IF accepts THEN A[id] + 1 ELSE A[id]) \in {0, 1}
    BY <1>2
  <2>2. /\ as \in Seq({0, 1}) /\ Len(as) = Len(A)
        /\ \A k \in DOMAIN A : as[k] = IF k = id THEN (IF accepts THEN A[id] + 1 ELSE A[id]) ELSE A[k]
    BY <1>2, <2>1, RowChanged
  <2> QED
    BY <1>2, <2>2
<1>9. OrderRow(row)
  BY DEF OrderRow
<1> HIDE DEF xs, as, row
<1>10. Rewritten(id, row, xs, as, F)
  BY <1>4, <1>5 DEF Rewritten, O
<1>11. /\ OrdersStored' /\ db'.accepted = as
       /\ DOMAIN db'.orders = DOMAIN O
       /\ \A k \in DOMAIN O : db'.orders[k] = IF k = id THEN row ELSE O[k]
  BY <1>7, <1>8, <1>9, <1>10, OrderChanged DEF O, X, A
<1> QED
  BY <1>3, <1>8, <1>11 DEF O, A, row

\* Other changes of the tables.
Adopts(id) == db' = [db EXCEPT !.orders[id].adopted = TRUE]
Trades(id, state) == db' = [db EXCEPT !.exchange[id] = state]
Stores(row) ==
  db' = [db EXCEPT !.orders = Append(@, row), !.exchange = Append(@, "none"), !.accepted = Append(@, 0)]

\* Adopting an order and trading at the exchange change neither what was ordered,
\* nor what became of it.
LEMMA OrderAdopted ==
  ASSUME OrdersStored, NEW id, Adopts(id)
  PROVE  /\ OrdersStored' /\ db'.accepted = db.accepted
         /\ DOMAIN db'.orders = DOMAIN db.orders
         /\ \A k \in DOMAIN db.orders :
              /\ db'.orders[k].key = db.orders[k].key /\ db'.orders[k].amount = db.orders[k].amount
              /\ db'.orders[k].legacy = db.orders[k].legacy /\ db'.orders[k].status = db.orders[k].status
<1> USE DEF Instant!OrderIds
<1> DEFINE O == db.orders
           X == db.exchange
           A == db.accepted
           F == db.failures
           o == O[id]
           row == [o EXCEPT !.adopted = TRUE]
<1>1. db = [orders |-> O, exchange |-> X, accepted |-> A, failures |-> F]
  BY DEF OrdersStored
<1> HIDE DEF O, X, A, F
<1>2. db' = [db EXCEPT !.orders = [O EXCEPT ![id] = row]]
  BY DEF O, Adopts
<1>3. id \in DOMAIN O => row = [key |-> o.key, amount |-> o.amount, status |-> o.status,
                                legacy |-> o.legacy, adopted |-> TRUE]
  <2>1. ASSUME NEW x, NEW t, OrderRow(x)
        PROVE  [x EXCEPT !.adopted = t]
                 = [key |-> x.key, amount |-> x.amount, status |-> x.status, legacy |-> x.legacy,
                    adopted |-> t]
    <3> DEFINE K == x.key
               M == x.amount
               T == x.status
               L == x.legacy
               D == x.adopted
    <3>1. x = [key |-> K, amount |-> M, status |-> T, legacy |-> L, adopted |-> D]
      BY <2>1 DEF OrderRow
    <3> HIDE DEF K, M, T, L, D
    <3> QED
      BY <3>1
  <2> QED
    BY <2>1 DEF OrdersStored, O
<1> HIDE DEF row
<1>4. db' = [orders |-> [O EXCEPT ![id] = row], exchange |-> X, accepted |-> A, failures |-> F]
  BY <1>1, <1>2
<1>5. Rewritten(id, row, X, A, F)
  BY <1>4 DEF Rewritten, O
<1>6. id \in DOMAIN O => OrderRow(row)
  BY <1>3 DEF OrderRow
<1>7. /\ OrdersStored' /\ db'.accepted = A
      /\ DOMAIN db'.orders = DOMAIN O
      /\ \A k \in DOMAIN O : db'.orders[k] = IF k = id THEN row ELSE O[k]
  <2>1. /\ X \in Seq({"none", "open", "partial", "filled"}) /\ Len(X) = Len(db.exchange)
        /\ A \in Seq({0, 1}) /\ Len(A) = Len(db.accepted)
    BY DEF OrdersStored, X, A
  <2>2. id \in DOMAIN db.orders => OrderRow(row)
    BY <1>6 DEF O
  <2> HIDE DEF O, X, A
  <2>3. /\ OrdersStored' /\ db'.accepted = A
        /\ DOMAIN db'.orders = DOMAIN db.orders
        /\ \A k \in DOMAIN db.orders : db'.orders[k] = IF k = id THEN row ELSE db.orders[k]
    BY <1>5, <2>1, <2>2, OrderChanged
  <2> QED
    BY <2>3 DEF O
<1>8. id \in DOMAIN O => /\ row.key = o.key /\ row.amount = o.amount
                         /\ row.legacy = o.legacy /\ row.status = o.status
  BY <1>3
<1> QED
  BY <1>7, <1>8 DEF O, A

\* A trade of the exchange stores no order and accepts none: only the state of the
\* one traded changes.
LEMMA ExchangeTraded ==
  ASSUME OrdersStored, NEW id \in Instant!OrderIds, NEW state \in {"partial", "filled"},
         Trades(id, state)
  PROVE  OrdersStored' /\ db'.accepted = db.accepted /\ db'.orders = db.orders
<1> DEFINE O == db.orders
           X == db.exchange
           A == db.accepted
           F == db.failures
           xs == [X EXCEPT ![id] = state]
<1>1. db = [orders |-> O, exchange |-> X, accepted |-> A, failures |-> F]
  BY DEF OrdersStored
<1>2. xs \in Seq({"none", "open", "partial", "filled"}) /\ Len(xs) = Len(X)
  BY RowChanged DEF OrdersStored
<1> HIDE DEF O, X, A, F, xs
<1>3. db' = [orders |-> O, exchange |-> xs, accepted |-> A, failures |-> F]
  BY <1>1 DEF xs, X, Trades
<1>4. /\ db' = [orders |-> db'.orders, exchange |-> db'.exchange, accepted |-> db'.accepted,
                failures |-> db'.failures]
      /\ db'.orders = O /\ db'.exchange = xs /\ db'.accepted = A
  BY <1>3
<1>5. /\ O \in Seq(Range(O)) /\ \A k \in DOMAIN O : OrderRow(O[k])
      /\ Len(X) = Len(O) /\ A \in Seq({0, 1}) /\ Len(A) = Len(O)
  BY DEF OrdersStored, O, X, A, Instant!OrderIds
<1>6. OrdersStored'
  BY <1>2, <1>4, <1>5 DEF OrdersStored, Instant!OrderIds
<1> QED
  BY <1>4, <1>6 DEF O, A

\* An order that is stored comes after the others, which stay as they were.
LEMMA OrderAppended ==
  ASSUME OrdersStored, NEW row, OrderRow(row), Stores(row)
  PROVE  /\ OrdersStored'
         /\ Len(db.orders) \in Nat /\ DOMAIN db.orders = 1..Len(db.orders)
         /\ DOMAIN db'.orders = 1..(Len(db.orders) + 1)
         /\ \A k \in DOMAIN db.orders : db'.orders[k] = db.orders[k] /\ db'.accepted[k] = db.accepted[k]
         /\ db'.orders[Len(db.orders) + 1] = row /\ db'.accepted[Len(db.orders) + 1] = 0
<1> DEFINE O == db.orders
           X == db.exchange
           A == db.accepted
           F == db.failures
           os == Append(O, row)
           xs == Append(X, "none")
           as == Append(A, 0)
           N == Len(O)
<1>1. db = [orders |-> O, exchange |-> X, accepted |-> A, failures |-> F]
  BY DEF OrdersStored
<1>2. /\ O \in Seq(Range(O)) /\ \A k \in DOMAIN O : OrderRow(O[k])
      /\ X \in Seq({"none", "open", "partial", "filled"}) /\ Len(X) = N
      /\ A \in Seq({0, 1}) /\ Len(A) = N
  BY DEF OrdersStored, Instant!OrderIds
<1>3. N \in Nat /\ DOMAIN O = 1..N
  BY <1>2, LenProperties
<1>4. /\ os \in Seq(Range(O) \cup {row}) /\ Len(os) = N + 1 /\ DOMAIN os = 1..(N + 1)
      /\ os[N + 1] = row /\ \A k \in 1..N : os[k] = O[k]
  <2> HIDE DEF O
  <2>1. O \in Seq(Range(O) \cup {row}) /\ row \in Range(O) \cup {row}
    BY <1>2, SeqMonotonic
  <2> QED
    BY <2>1, AppendProperties
<1>5. xs \in Seq({"none", "open", "partial", "filled"}) /\ Len(xs) = N + 1
  BY <1>2, AppendProperties
<1>6. /\ as \in Seq({0, 1}) /\ Len(as) = N + 1
      /\ as[N + 1] = 0 /\ \A k \in 1..N : as[k] = A[k]
  <2> HIDE DEF A
  <2>1. PICK zero : zero = 0
    OBVIOUS
  <2>2. A \in Seq({0, 1}) /\ zero \in {0, 1}
    BY <1>2, <2>1
  <2>3. /\ Append(A, zero) \in Seq({0, 1}) /\ Len(Append(A, zero)) = Len(A) + 1
        /\ \A k \in 1..Len(A) : Append(A, zero)[k] = A[k]
        /\ Append(A, zero)[Len(A) + 1] = zero
    BY <2>2, AppendProperties
  <2> QED
    BY <1>2, <2>1, <2>3
<1> HIDE DEF O, X, A, F, os, xs, as
<1>7. db' = [orders |-> os, exchange |-> xs, accepted |-> as, failures |-> F]
  BY <1>1 DEF os, xs, as, Stores
<1>8. /\ db' = [orders |-> db'.orders, exchange |-> db'.exchange, accepted |-> db'.accepted,
                failures |-> db'.failures]
      /\ db'.orders = os /\ db'.exchange = xs /\ db'.accepted = as
  BY <1>7
<1>9. os \in Seq(Range(os)) /\ \A k \in DOMAIN os : OrderRow(os[k])
  <2>1. os \in Seq(Range(os))
    BY <1>4, SeqOfRange
  <2>2. \A k \in 1..(N + 1) : OrderRow(os[k])
    <3>1. \A k \in 1..(N + 1) : k = N + 1 \/ k \in 1..N
      BY <1>3
    <3> QED
      BY <1>2, <1>3, <1>4, <3>1
  <2> QED
    BY <1>4, <2>1, <2>2
<1>10. OrdersStored'
  BY <1>4, <1>5, <1>6, <1>8, <1>9 DEF OrdersStored, Instant!OrderIds
<1> QED
  BY <1>3, <1>4, <1>6, <1>8, <1>10 DEF O, A

\* A step of request i: the other purchases stay where they are, this one is now at a
\* step with an order, if it is under way.
Elsewhere(i) ==
  /\ InFlight(net') /\ DOMAIN net' = DOMAIN net
  /\ Waiting(net') \subseteq Waiting(net) \cup {i}
  /\ \A k \in Waiting(net') \ {i} : \A s, d : Reached(net', k, s, d) <=> Reached(net, k, s, d)
  /\ \A k \in DOMAIN net : net'[k].arg = net[k].arg /\ (net[k].back => net'[k].back)

Now(i, step, id) ==
  /\ Elsewhere(i)
  /\ i \in Waiting(net') => Reached(net', i, step, id)
  /\ \A s, d : Reached(net', i, s, d) => s = step /\ d = id

\* Moving the request that is served one step on leaves every other request as it
\* was, and sets the step and the order of this one.
LEMMA WentOn ==
  ASSUME InFlight(net), NEW i \in DOMAIN net, ~net[i].back, NEW step, NEW id, net' = Instant!At(i, step, id)
  PROVE  Now(i, step, id)
<1> DEFINE n == net'
           v == [step |-> step, order |-> id]
<1>1. n = GoOn(net, i, <<v>>)
  BY DEF Instant!At, GoOn
<1>2. Len(net) \in Nat /\ DOMAIN net = 1..Len(net) /\ IsRequest(net[i])
  BY LenProperties DEF InFlight
<1> HIDE DEF v
<1> HIDE DEF n
<1>3. /\ InFlight(n) /\ DOMAIN n = 1..Len(net)
      /\ \A j \in 1..Len(net) : j # i => n[j] = net[j]
      /\ n[i] = [op |-> net[i].op, arg |-> net[i].arg, back |-> net[i].back, ok |-> net[i].ok,
                 val |-> <<v>>]
  BY <1>1, Progressed
<1>4. n[i].arg = net[i].arg /\ n[i].back = net[i].back /\ n[i].val = <<v>>
  BY <1>3
<1>5. Waiting(n) \subseteq Waiting(net) \cup {i} /\ i \in Waiting(n)
  <2>1. ~n[i].back /\ n[i].val # <<>>
    BY <1>4
  <2> QED
    BY <1>2, <1>3, <2>1 DEF Waiting
<1>6. \A k \in Waiting(n) \ {i} : \A s, d : Reached(n, k, s, d) <=> Reached(net, k, s, d)
  BY <1>2, <1>3, <1>5 DEF Waiting, Reached
<1>7. \A k \in DOMAIN net : n[k].arg = net[k].arg /\ (net[k].back => n[k].back)
  BY <1>2, <1>3, <1>4
<1>8. Reached(n, i, step, id)
  BY <1>4, <1>5 DEF Reached, v
<1>9. ASSUME NEW s, NEW d, Reached(n, i, s, d)
      PROVE  s = step /\ d = id
  <2>1. <<v>> = <<[step |-> s, order |-> d]>>
    BY <1>4, <1>9 DEF Reached
  <2>2. v = [step |-> s, order |-> d]
    BY <2>1
  <2> QED
    BY <2>2 DEF v
<1> QED
  BY <1>2, <1>3, <1>5, <1>6, <1>7, <1>8, <1>9 DEF Now, Elsewhere, n

\* Answering the request that is served leaves no other request at a step it was
\* not at before.
LEMMA WasServed ==
  ASSUME InFlight(net), NEW i \in DOMAIN net, NEW payload, net' = Instant!Served(i, payload)
  PROVE  \A step, id : Now(i, step, id)
<1> DEFINE n == net'
<1>1. PICK okay \in BOOLEAN : n = Answer(net, i, okay, <<payload>>)
  BY DEF Instant!Served, Answer
<1>2. Len(net) \in Nat /\ DOMAIN net = 1..Len(net)
  BY LenProperties DEF InFlight
<1> HIDE DEF n
<1>3. /\ InFlight(n) /\ DOMAIN n = 1..Len(net)
      /\ \A j \in 1..Len(net) : j # i => n[j] = net[j]
      /\ n[i] = [op |-> net[i].op, arg |-> net[i].arg, back |-> TRUE, ok |-> okay, val |-> <<payload>>]
  BY <1>1, Answered
<1>4. n[i].arg = net[i].arg /\ n[i].back = TRUE
  BY <1>3
<1>5. Waiting(n) \subseteq Waiting(net) /\ i \notin Waiting(n)
  BY <1>2, <1>3, <1>4 DEF Waiting
<1>6. \A k \in Waiting(n) \ {i} : \A s, d : Reached(n, k, s, d) <=> Reached(net, k, s, d)
  BY <1>2, <1>3, <1>5 DEF Waiting, Reached
<1>7. \A k \in DOMAIN net : n[k].arg = net[k].arg /\ (net[k].back => n[k].back)
  BY <1>2, <1>3, <1>4
<1>8. \A s, d : ~Reached(n, i, s, d)
  BY <1>5 DEF Reached
<1> QED
  BY <1>2, <1>3, <1>5, <1>6, <1>7, <1>8 DEF Now, Elsewhere, n

\* On an ordered wire a request is served when those before it were.
LEMMA TurnsKept ==
  ASSUME InstantInv, wire' = wire, NEW i \in Instant!Servable, Elsewhere(i)
  PROVE  OneAtATime'
<1>1. SUFFICES ASSUME wire = "ordered", NEW k \in Waiting(net'), NEW j \in 1..(k - 1)
               PROVE  net'[j].back
  BY DEF OneAtATime, Waiting
<1>2. Len(net) \in Nat /\ DOMAIN net = 1..Len(net)
  BY LenProperties DEF InstantInv, InFlight
<1>3. k \in Waiting(net) \cup {i} /\ i \in DOMAIN net
  BY DEF Elsewhere, Instant!Servable
<1>4. net[j].back
  BY <1>1, <1>3 DEF InstantInv, OneAtATime, Instant!Servable
<1>5. k \in 1..Len(net)
  BY <1>2, <1>3 DEF Waiting
<1>6. j \in DOMAIN net
  BY <1>2, <1>5
<1> QED
  BY <1>4, <1>6 DEF Elsewhere

\* What the steps with an order need of the others.
LEMMA OthersReached ==
  ASSUME InstantInv, NEW i, NEW step, NEW id, Now(i, step, id), NEW k \in Waiting(net'), NEW s, NEW d,
         Reached(net', k, s, d)
  PROVE  IF k = i THEN s = step /\ d = id ELSE k \in Waiting(net) /\ Reached(net, k, s, d)
BY DEF Now, Elsewhere

\* A purchase finds no order, and checks whether it may make one.
LEMMA NewChecked ==
  ASSUME InstantInv, wire' = wire, db' = db, NEW i \in Instant!Servable, Now(i, "checked", 0),
         \A id \in Instant!OrderIds : db.orders[id].key # net[i].arg.key
  PROVE  InstantInv'
<1> USE DEF Instant!OrderIds
<1> DEFINE Ids == DOMAIN db.orders
<1>1. 0 \notin Ids
  BY LenProperties DEF InstantInv, OrdersStored
<1>2. InFlight(net') /\ DOMAIN net' = DOMAIN net /\ i \in DOMAIN net
      /\ \A k \in DOMAIN net : net'[k].arg = net[k].arg
  BY DEF Now, Elsewhere, Instant!Servable
<1>3. ASSUME NEW k \in Waiting(net'), NEW s, NEW d \in Ids, Reached(net', k, s, d)
      PROVE  k \in Waiting(net) /\ Reached(net, k, s, d)
  BY <1>1, <1>3, OthersReached
<1>4. StepsReached'
  <2>1. SUFFICES ASSUME NEW k \in Waiting(net')
                 PROVE  \E s \in {"checked", "stored", "recorded"}, d \in {0} \cup Ids :
                          Reached(net', k, s, d) /\ (d = 0 => s = "checked")
    BY DEF StepsReached, Waiting, Reached
  <2>2. CASE k = i
    BY <2>2 DEF Now
  <2>3. CASE k # i
    BY <2>3 DEF Now, Elsewhere, InstantInv, StepsReached
  <2> QED
    BY <2>2, <2>3
<1>5. OneBuyer' /\ StoredUnsent' /\ CheckedResumable'
  <2>1. \A s, d, k : Reached(net, k, s, d)' <=> Reached(net', k, s, d)
    BY DEF Reached, Waiting
  <2>2. OneBuyer'
    BY <1>3, <2>1 DEF InstantInv, OneBuyer, Waiting
  <2>3. StoredUnsent'
    BY <1>3, <2>1 DEF InstantInv, StoredUnsent, Waiting
  <2>4. CheckedResumable'
    BY <1>3, <2>1 DEF InstantInv, CheckedResumable, Waiting, Instant!Resumable
  <2> QED
    BY <2>2, <2>3, <2>4
<1>6. ResumableUnsent' /\ OrdersDiffer' /\ KeysDiffer'
  BY DEF InstantInv, ResumableUnsent, OrdersDiffer, KeysDiffer, Instant!Resumable
<1>7. CheckedNew'
  <2>1. SUFFICES ASSUME wire = "ordered", NEW k \in Waiting(net'), Reached(net', k, "checked", 0),
                        NEW id \in Ids
                 PROVE  db.orders[id].key # net'[k].arg.key
    BY DEF CheckedNew, Waiting, Reached
  <2>2. k \in DOMAIN net
    BY <1>2 DEF Waiting
  <2>3. k = i \/ (k \in Waiting(net) /\ Reached(net, k, "checked", 0))
    BY <2>1, OthersReached
  <2> QED
    BY <1>2, <2>1, <2>2, <2>3 DEF InstantInv, CheckedNew
<1>8. OneAtATime'
  BY TurnsKept DEF Now
<1>9. OrdersStored'
  BY DEF InstantInv, OrdersStored, OrderRow
<1> QED
  BY <1>2, <1>4, <1>5, <1>6, <1>7, <1>8, <1>9 DEF InstantInv

\* A purchase finds an order it may resume, which no other purchase is resuming.
LEMMA OldChecked ==
  ASSUME InstantInv, wire' = wire, db' = db, NEW i \in Instant!Servable, NEW id \in Instant!OrderIds,
         Now(i, "checked", id), Instant!Resumable(id), ~Instant!Locked(id)
  PROVE  InstantInv'
<1> USE DEF Instant!OrderIds
<1> DEFINE Ids == DOMAIN db.orders
<1>1. 0 \notin Ids
  BY LenProperties DEF InstantInv, OrdersStored
<1>2. InFlight(net') /\ DOMAIN net' = DOMAIN net /\ i \in DOMAIN net
      /\ \A k \in DOMAIN net : net'[k].arg = net[k].arg
  BY DEF Now, Elsewhere, Instant!Servable
<1>3. \A k \in Waiting(net) : \A s \in {"checked", "stored"} : ~Reached(net, k, s, id)
  <2>1. \A k \in Waiting(net) : ~Reached(net, k, "checked", id)
    BY DEF Instant!Locked, Reached, Waiting
  <2>2. \A k \in Waiting(net) : ~Reached(net, k, "stored", id)
    BY DEF InstantInv, StoredUnsent, Instant!Resumable
  <2> QED
    BY <2>1, <2>2
<1>4. \A s, d, k : Reached(net, k, s, d)' <=> Reached(net', k, s, d)
  BY DEF Reached, Waiting
<1>5. StepsReached'
  <2>1. SUFFICES ASSUME NEW k \in Waiting(net')
                 PROVE  \E s \in {"checked", "stored", "recorded"}, d \in {0} \cup Ids :
                          Reached(net', k, s, d) /\ (d = 0 => s = "checked")
    BY <1>4 DEF StepsReached, Waiting
  <2>2. CASE k = i
    BY <2>2 DEF Now
  <2>3. CASE k # i
    BY <2>3 DEF Now, Elsewhere, InstantInv, StepsReached
  <2> QED
    BY <2>2, <2>3
<1>6. OneBuyer'
  <2>1. SUFFICES ASSUME NEW d \in Ids, NEW s \in {"checked", "stored"}, NEW t \in {"checked", "stored"},
                        NEW k \in Waiting(net'), NEW l \in Waiting(net'),
                        Reached(net', k, s, d), Reached(net', l, t, d)
                 PROVE  k = l
    BY <1>4 DEF OneBuyer, Waiting
  <2>2. k = i => d = id
    BY <2>1, OthersReached
  <2>3. l = i => d = id
    BY <2>1, OthersReached
  <2>4. k # i => k \in Waiting(net) /\ Reached(net, k, s, d)
    BY <2>1, OthersReached
  <2>5. l # i => l \in Waiting(net) /\ Reached(net, l, t, d)
    BY <2>1, OthersReached
  <2> QED
    BY <1>3, <2>2, <2>3, <2>4, <2>5 DEF InstantInv, OneBuyer
<1>7. StoredUnsent'
  <2>1. SUFFICES ASSUME NEW d \in Ids, NEW k \in Waiting(net'), Reached(net', k, "stored", d)
                 PROVE  db.accepted[d] = 0 /\ db.orders[d].status # "REJECTED"
    BY <1>4 DEF StoredUnsent, Waiting
  <2>2. k \in Waiting(net) /\ Reached(net, k, "stored", d)
    BY <2>1, OthersReached
  <2> QED
    BY <2>2 DEF InstantInv, StoredUnsent
<1>8. CheckedResumable'
  <2>1. SUFFICES ASSUME NEW d \in Ids, NEW k \in Waiting(net'), Reached(net', k, "checked", d)
                 PROVE  Instant!Resumable(d)
    BY <1>4 DEF CheckedResumable, Waiting, Instant!Resumable
  <2>2. d = id \/ (k \in Waiting(net) /\ Reached(net, k, "checked", d))
    BY <2>1, OthersReached
  <2> QED
    BY <2>2 DEF InstantInv, CheckedResumable
<1>9. ResumableUnsent' /\ OrdersDiffer' /\ KeysDiffer'
  BY DEF InstantInv, ResumableUnsent, OrdersDiffer, KeysDiffer, Instant!Resumable
<1>10. CheckedNew'
  <2>1. SUFFICES ASSUME wire = "ordered", NEW k \in Waiting(net'), Reached(net', k, "checked", 0),
                        NEW d \in Ids
                 PROVE  db.orders[d].key # net'[k].arg.key
    BY <1>4 DEF CheckedNew, Waiting
  <2>2. k \in DOMAIN net
    BY <1>2 DEF Waiting
  <2>3. k \in Waiting(net) /\ Reached(net, k, "checked", 0)
    BY <1>1, <2>1, OthersReached
  <2> QED
    BY <1>2, <2>1, <2>2, <2>3 DEF InstantInv, CheckedNew
<1>11. OneAtATime' /\ OrdersStored'
  BY TurnsKept DEF Now, InstantInv, OrdersStored, OrderRow
<1> QED
  BY <1>2, <1>5, <1>6, <1>7, <1>8, <1>9, <1>10, <1>11 DEF InstantInv

\* A purchase that resumes an order stores it again, or hears what became of it at the
\* exchange: the order's row changes, and no other purchase has checked or stored it.
LEMMA OwnOrder ==
  ASSUME InstantInv, wire' = wire, OrdersStored', NEW i \in Instant!Servable, NEW id \in Instant!OrderIds,
         NEW from \in {"checked", "stored"}, Reached(net, i, from, id),
         NEW step \in {"stored", "recorded"}, Now(i, step, id),
         DOMAIN db'.orders = DOMAIN db.orders,
         \A k \in DOMAIN db.orders : db'.orders[k].key = db.orders[k].key
                                     /\ db'.orders[k].amount = db.orders[k].amount,
         \A k \in DOMAIN db.orders : k # id => db'.orders[k] = db.orders[k]
                                               /\ db'.accepted[k] = db.accepted[k],
         step = "stored" => db'.accepted[id] = 0 /\ db'.orders[id].status # "REJECTED",
         Instant!Resumable(id)' => db'.accepted[id] = 0
  PROVE  InstantInv'
<1> USE DEF Instant!OrderIds
<1> DEFINE Ids == DOMAIN db.orders
<1>1. 0 \notin Ids
  BY LenProperties DEF InstantInv, OrdersStored
<1>2. InFlight(net') /\ DOMAIN net' = DOMAIN net /\ i \in DOMAIN net
      /\ \A k \in DOMAIN net : net'[k].arg = net[k].arg
  BY DEF Now, Elsewhere, Instant!Servable
<1>3. \A k \in Waiting(net) : \A s \in {"checked", "stored"} : Reached(net, k, s, id) => k = i
  BY DEF InstantInv, OneBuyer, Reached
<1>4. \A s, d, k : Reached(net, k, s, d)' <=> Reached(net', k, s, d)
  BY DEF Reached, Waiting
<1>5. StepsReached'
  <2>1. SUFFICES ASSUME NEW k \in Waiting(net')
                 PROVE  \E s \in {"checked", "stored", "recorded"}, d \in {0} \cup Ids :
                          Reached(net', k, s, d) /\ (d = 0 => s = "checked")
    BY <1>4 DEF StepsReached, Waiting
  <2>2. CASE k = i
    BY <1>1, <2>2 DEF Now
  <2>3. CASE k # i
    BY <2>3 DEF Now, Elsewhere, InstantInv, StepsReached
  <2> QED
    BY <2>2, <2>3
<1>6. OneBuyer'
  <2>1. SUFFICES ASSUME NEW d \in Ids, NEW s \in {"checked", "stored"}, NEW t \in {"checked", "stored"},
                        NEW k \in Waiting(net'), NEW l \in Waiting(net'),
                        Reached(net', k, s, d), Reached(net', l, t, d)
                 PROVE  k = l
    BY <1>4 DEF OneBuyer, Waiting
  <2>2. k = i => d = id
    BY <2>1, OthersReached
  <2>3. l = i => d = id
    BY <2>1, OthersReached
  <2>4. k # i => k \in Waiting(net) /\ Reached(net, k, s, d)
    BY <2>1, OthersReached
  <2>5. l # i => l \in Waiting(net) /\ Reached(net, l, t, d)
    BY <2>1, OthersReached
  <2> QED
    BY <1>3, <2>2, <2>3, <2>4, <2>5 DEF InstantInv, OneBuyer
<1>7. StoredUnsent'
  <2>1. SUFFICES ASSUME NEW d \in Ids, NEW k \in Waiting(net'), Reached(net', k, "stored", d)
                 PROVE  db'.accepted[d] = 0 /\ db'.orders[d].status # "REJECTED"
    BY <1>4 DEF StoredUnsent, Waiting
  <2>2. CASE k = i
    BY <2>1, <2>2, OthersReached
  <2>3. CASE k # i
    <3>1. k \in Waiting(net) /\ Reached(net, k, "stored", d)
      BY <2>1, <2>3, OthersReached
    <3>2. d # id
      BY <1>3, <2>3, <3>1
    <3> QED
      BY <3>1, <3>2 DEF InstantInv, StoredUnsent
  <2> QED
    BY <2>2, <2>3
<1>8. CheckedResumable'
  <2>1. SUFFICES ASSUME NEW d \in Ids, NEW k \in Waiting(net'), Reached(net', k, "checked", d)
                 PROVE  Instant!Resumable(d)'
    BY <1>4 DEF CheckedResumable, Waiting
  <2>2. k # i
    BY <2>1, OthersReached
  <2>3. k \in Waiting(net) /\ Reached(net, k, "checked", d)
    BY <2>1, <2>2, OthersReached
  <2>4. d # id
    BY <1>3, <2>2, <2>3
  <2> QED
    BY <2>3, <2>4 DEF InstantInv, CheckedResumable, Instant!Resumable
<1>9. ResumableUnsent'
  <2>1. SUFFICES ASSUME NEW d \in Ids, Instant!Resumable(d)'
                 PROVE  db'.accepted[d] = 0
    BY DEF ResumableUnsent
  <2>2. CASE d = id
    BY <2>1, <2>2
  <2>3. CASE d # id
    BY <2>1, <2>3 DEF InstantInv, ResumableUnsent, Instant!Resumable
  <2> QED
    BY <2>2, <2>3
<1>10. OrdersDiffer' /\ KeysDiffer'
  BY DEF InstantInv, OrdersDiffer, KeysDiffer
<1>11. CheckedNew'
  <2>1. SUFFICES ASSUME wire = "ordered", NEW k \in Waiting(net'), Reached(net', k, "checked", 0),
                        NEW d \in Ids
                 PROVE  db.orders[d].key # net'[k].arg.key
    BY <1>4 DEF CheckedNew, Waiting
  <2>2. k \in DOMAIN net
    BY <1>2 DEF Waiting
  <2>3. k \in Waiting(net) /\ Reached(net, k, "checked", 0)
    BY <1>1, <2>1, OthersReached
  <2> QED
    BY <1>2, <2>1, <2>2, <2>3 DEF InstantInv, CheckedNew
<1>12. OneAtATime'
  BY TurnsKept DEF Now
<1> QED
  BY <1>2, <1>5, <1>6, <1>7, <1>8, <1>9, <1>10, <1>11, <1>12 DEF InstantInv

\* A purchase stores a new order: none had its key and amount, and on an ordered wire
\* none had its key, since nothing was served since the purchase looked.
LEMMA NewStored ==
  ASSUME InstantInv, wire' = wire, NEW i \in Instant!Servable, Reached(net, i, "checked", 0),
         Now(i, "stored", Len(db.orders) + 1),
         NEW row, OrderRow(row), row.key = net[i].arg.key, row.amount = net[i].arg.amount,
         row.status = "SUBMISSION_PENDING", Instant!Same(net[i].arg) = {}, Stores(row)
  PROVE  InstantInv'
<1> USE DEF Instant!OrderIds
<1> DEFINE Ids == DOMAIN db.orders
           N == Len(db.orders) + 1
<1>1. /\ OrdersStored' /\ Len(db.orders) \in Nat /\ Ids = 1..Len(db.orders)
      /\ DOMAIN db'.orders = 1..N
      /\ \A k \in Ids : db'.orders[k] = db.orders[k] /\ db'.accepted[k] = db.accepted[k]
      /\ db'.orders[N] = row /\ db'.accepted[N] = 0
  BY OrderAppended DEF InstantInv
<1>2. /\ InFlight(net') /\ DOMAIN net' = DOMAIN net /\ i \in DOMAIN net
      /\ \A k \in DOMAIN net : net'[k].arg = net[k].arg
  BY DEF Now, Elsewhere, Instant!Servable
<1>3. N \notin Ids /\ N # 0 /\ 0 \notin Ids /\ DOMAIN db'.orders = Ids \cup {N}
  BY <1>1
<1> HIDE DEF N
<1>4. \A s, d, k : Reached(net, k, s, d)' <=> Reached(net', k, s, d)
  BY DEF Reached, Waiting
<1>5. ASSUME NEW k \in Waiting(net), NEW s, NEW d, Reached(net, k, s, d)
      PROVE  d # N
  <2>1. PICK t \in {"checked", "stored", "recorded"}, e \in {0} \cup Ids : Reached(net, k, t, e)
    BY DEF InstantInv, StepsReached
  <2>2. <<[step |-> s, order |-> d]>> = <<[step |-> t, order |-> e]>>
    BY <1>5, <2>1 DEF Reached
  <2>3. [step |-> s, order |-> d] = [step |-> t, order |-> e]
    BY <2>2
  <2>4. d = e
    BY <2>3
  <2> QED
    BY <1>3, <2>4
<1>6. StepsReached'
  <2>1. SUFFICES ASSUME NEW k \in Waiting(net')
                 PROVE  \E s \in {"checked", "stored", "recorded"}, d \in {0} \cup Ids \cup {N} :
                          Reached(net', k, s, d) /\ (d = 0 => s = "checked")
    BY <1>3, <1>4 DEF StepsReached, Waiting
  <2>2. CASE k = i
    BY <1>3, <2>2 DEF Now, N
  <2>3. CASE k # i
    BY <2>3 DEF Now, Elsewhere, InstantInv, StepsReached
  <2> QED
    BY <2>2, <2>3
<1>7. ASSUME NEW k \in Waiting(net'), NEW s, NEW d, Reached(net', k, s, d)
      PROVE  IF k = i THEN s = "stored" /\ d = N ELSE k \in Waiting(net) /\ Reached(net, k, s, d)
  BY <1>7, OthersReached DEF N
<1>8. OneBuyer'
  <2>1. SUFFICES ASSUME NEW d \in Ids \cup {N}, NEW s \in {"checked", "stored"},
                        NEW t \in {"checked", "stored"},
                        NEW k \in Waiting(net'), NEW l \in Waiting(net'),
                        Reached(net', k, s, d), Reached(net', l, t, d)
                 PROVE  k = l
    BY <1>3, <1>4 DEF OneBuyer, Waiting
  <2>2. IF k = i THEN d = N ELSE k \in Waiting(net) /\ Reached(net, k, s, d)
    BY <1>7, <2>1
  <2>3. IF l = i THEN d = N ELSE l \in Waiting(net) /\ Reached(net, l, t, d)
    BY <1>7, <2>1
  <2>4. CASE d = N
    BY <1>5, <2>2, <2>3, <2>4
  <2>5. CASE d # N
    BY <2>2, <2>3, <2>5 DEF InstantInv, OneBuyer
  <2> QED
    BY <2>4, <2>5
<1>9. StoredUnsent'
  <2>1. SUFFICES ASSUME NEW d \in Ids \cup {N}, NEW k \in Waiting(net'), Reached(net', k, "stored", d)
                 PROVE  db'.accepted[d] = 0 /\ db'.orders[d].status # "REJECTED"
    BY <1>3, <1>4 DEF StoredUnsent, Waiting
  <2>2. CASE d = N
    BY <1>1, <2>2 DEF N
  <2>3. CASE d # N
    <3>1. k \in Waiting(net) /\ Reached(net, k, "stored", d)
      BY <1>7, <2>1, <2>3
    <3> QED
      BY <1>1, <2>3, <3>1 DEF InstantInv, StoredUnsent
  <2> QED
    BY <2>2, <2>3
<1>10. CheckedResumable'
  <2>1. SUFFICES ASSUME NEW d \in Ids \cup {N}, NEW k \in Waiting(net'), Reached(net', k, "checked", d)
                 PROVE  Instant!Resumable(d)'
    BY <1>3, <1>4 DEF CheckedResumable, Waiting
  <2>2. k \in Waiting(net) /\ Reached(net, k, "checked", d)
    BY <1>7, <2>1
  <2>3. d \in Ids
    BY <1>5, <2>1, <2>2
  <2> QED
    BY <1>1, <2>2, <2>3 DEF InstantInv, CheckedResumable, Instant!Resumable
<1>11. ResumableUnsent'
  <2>1. SUFFICES ASSUME NEW d \in Ids \cup {N}, Instant!Resumable(d)'
                 PROVE  db'.accepted[d] = 0
    BY <1>3 DEF ResumableUnsent
  <2>2. CASE d = N
    BY <1>1, <2>2 DEF N
  <2>3. CASE d # N
    BY <1>1, <2>1, <2>3 DEF InstantInv, ResumableUnsent, Instant!Resumable
  <2> QED
    BY <2>2, <2>3
<1>12. \A d \in Ids : db.orders[d].key = row.key => db.orders[d].amount # row.amount
  BY DEF Instant!Same
<1>13. wire = "ordered" => \A d \in Ids : db.orders[d].key # row.key
  BY DEF InstantInv, CheckedNew, Reached
<1>14. \A d \in Ids \cup {N} : db'.orders[d] = IF d = N THEN row ELSE db.orders[d]
  BY <1>1, <1>3 DEF N
<1>15. OrdersDiffer'
  <2>1. SUFFICES ASSUME NEW a \in Ids \cup {N}, NEW b \in Ids \cup {N}, a # b,
                        db'.orders[a].key = db'.orders[b].key
                 PROVE  db'.orders[a].amount # db'.orders[b].amount
    BY <1>3 DEF OrdersDiffer
  <2>2. CASE a = N
    BY <1>12, <1>14, <2>1, <2>2
  <2>3. CASE b = N
    BY <1>12, <1>14, <2>1, <2>3
  <2>4. CASE a # N /\ b # N
    BY <1>14, <2>1, <2>4 DEF InstantInv, OrdersDiffer
  <2> QED
    BY <2>2, <2>3, <2>4
<1>16. KeysDiffer'
  <2>1. SUFFICES ASSUME wire = "ordered", NEW a \in Ids \cup {N}, NEW b \in Ids \cup {N}, a # b
                 PROVE  db'.orders[a].key # db'.orders[b].key
    BY <1>3 DEF KeysDiffer
  <2>2. CASE a = N
    BY <1>13, <1>14, <2>1, <2>2
  <2>3. CASE b = N
    BY <1>13, <1>14, <2>1, <2>3
  <2>4. CASE a # N /\ b # N
    BY <1>14, <2>1, <2>4 DEF InstantInv, KeysDiffer
  <2> QED
    BY <2>2, <2>3, <2>4
<1>17. CheckedNew'
  <2>1. SUFFICES ASSUME wire = "ordered", NEW k \in Waiting(net'), Reached(net', k, "checked", 0)
                 PROVE  FALSE
    BY <1>4 DEF CheckedNew, Waiting
  <2>2. k # i /\ k \in Waiting(net)
    BY <1>7, <2>1
  <2>3. Len(net) \in Nat /\ DOMAIN net = 1..Len(net)
    BY LenProperties DEF InstantInv, InFlight
  <2>4. k \in 1..Len(net) /\ i \in 1..Len(net) /\ ~net[k].back /\ ~net[i].back
    BY <2>2, <2>3 DEF Waiting, Instant!Servable
  <2>5. \A j \in 1..(k - 1) : net[j].back
    BY <2>1, <2>2 DEF InstantInv, OneAtATime
  <2>6. \A j \in 1..(i - 1) : net[j].back
    BY <2>1 DEF Instant!Servable
  <2>7. ~(i \in 1..(k - 1)) /\ ~(k \in 1..(i - 1))
    BY <2>4, <2>5, <2>6
  <2> QED
    BY <2>2, <2>4, <2>7
<1>18. OneAtATime'
  BY TurnsKept DEF Now
<1> QED
  BY <1>1, <1>2, <1>6, <1>8, <1>9, <1>10, <1>11, <1>15, <1>16, <1>17, <1>18 DEF InstantInv

\* A reconciliation changes the status of an order that is not rejected, to another.
LEMMA Reconciles ==
  ASSUME InstantInv, wire' = wire, Fewer(net', net), NEW id \in Instant!OrderIds,
         db.orders[id].status # "REJECTED", NEW status \in Instant!Reconciled(id),
         db' = [db EXCEPT !.orders[id].status = status]
  PROVE  InstantInv'
<1> USE DEF Instant!OrderIds
<1>1. db.exchange[id] \in {"none", "open", "partial", "filled"}
  BY LenProperties DEF InstantInv, OrdersStored
<1>2. status # "REJECTED"
  BY <1>1 DEF Instant!Reconciled
<1> DEFINE o == db.orders[id]
           row == [key |-> o.key, amount |-> o.amount, status |-> status, legacy |-> o.legacy,
                   adopted |-> o.adopted]
<1>3. /\ OrdersStored' /\ db'.accepted = db.accepted
      /\ DOMAIN db'.orders = DOMAIN db.orders
      /\ \A k \in DOMAIN db.orders : db'.orders[k] = IF k = id THEN row ELSE db.orders[k]
  BY StatusChanged DEF InstantInv
<1>4. row.key = o.key /\ row.amount = o.amount /\ row.legacy = o.legacy /\ row.status = status
  OBVIOUS
<1> HIDE DEF row
<1> QED
  BY <1>2, <1>3, <1>4, OrdersKept

\* A step that leaves the tables alone but for the count of failures.
LEMMA OrdersAlone ==
  ASSUME InstantInv, wire' = wire, Fewer(net', net), NEW n,
         db' = db \/ db' = [db EXCEPT !.failures = n]
  PROVE  InstantInv'
<1> USE DEF Instant!OrderIds
<1> DEFINE O == db.orders
           X == db.exchange
           A == db.accepted
           F == db.failures
<1>1. db = [orders |-> O, exchange |-> X, accepted |-> A, failures |-> F]
  BY DEF InstantInv, OrdersStored
<1> HIDE DEF O, X, A, F
<1>2. /\ db' = [orders |-> db'.orders, exchange |-> db'.exchange, accepted |-> db'.accepted,
                failures |-> db'.failures]
      /\ db'.orders = O /\ db'.exchange = X /\ db'.accepted = A
  BY <1>1
<1>3. db'.orders = db.orders /\ db'.exchange = db.exchange /\ db'.accepted = db.accepted
  BY <1>2 DEF O, X, A
<1>4. OrdersStored'
  BY <1>2, <1>3 DEF InstantInv, OrdersStored
<1> QED
  BY <1>3, <1>4, OrdersKept

\* What the API answers, the browser handles and the pages ask is no purchase further on.
LEMMA InstantAnswers ==
  ASSUME InFlight(net)
  PROVE  /\ \A i \in DOMAIN net : \A payload : Fewer(Instant!Served(i, payload), net)
         /\ \A i \in DOMAIN net : Fewer(Instant!Refused(i), net) /\ Fewer(Instant!Handled(i), net)
         /\ \A op, arg : Fewer(Instant!Issue(net, op, arg), net)
<1>1. ASSUME NEW i \in DOMAIN net, NEW payload
      PROVE  Fewer(Instant!Served(i, payload), net)
  <2>1. PICK okay \in BOOLEAN : Instant!Served(i, payload) = Answer(net, i, okay, <<payload>>)
    BY DEF Instant!Served, Answer
  <2> QED
    BY <2>1, FewerWaiting
<1>2. ASSUME NEW i \in DOMAIN net
      PROVE  Fewer(Instant!Refused(i), net)
  <2>1. PICK okay \in BOOLEAN : Instant!Refused(i) = Answer(net, i, okay, Instant!Null)
    BY DEF Instant!Refused, Answer
  <2> QED
    BY <2>1, FewerWaiting
<1>3. ASSUME NEW i \in DOMAIN net
      PROVE  Fewer(Instant!Handled(i), net)
  <2>1. Instant!Handled(i) = Without(net, i)
    BY DEF Instant!Handled, Instant!RemoveAt, Without
  <2> QED
    BY <2>1, FewerWaiting
<1>4. ASSUME NEW op, NEW arg
      PROVE  Fewer(Instant!Issue(net, op, arg), net)
  <2> DEFINE r == Instant!NewRequest(op, arg)
  <2>1. IsRequest(r) /\ r.val = <<>>
    BY DEF IsRequest, Instant!NewRequest, Instant!Null
  <2> HIDE DEF r
  <2>2. Fewer(Append(net, r), net)
    BY <2>1, FewerWaiting
  <2> QED
    BY <2>2 DEF Instant!Issue, r
<1> QED
  BY <1>1, <1>2, <1>3, <1>4

\* A reconciliation that a purchase runs on an order.
LEMMA ReconciledOnTheWay ==
  ASSUME InstantInv, wire' = wire, NEW i \in DOMAIN net, NEW id \in Instant!OrderIds,
         Instant!BoundedReconcile(i, id)
  PROVE  InstantInv'
<1>1. \E payload : net' = Instant!Served(i, payload)
  BY DEF Instant!BoundedReconcile
<1>2. Fewer(net', net)
  BY <1>1, InstantAnswers DEF InstantInv
<1>3. \/ UNCHANGED db
      \/ /\ db.orders[id].status # "REJECTED"
         /\ \E status \in Instant!Reconciled(id) : db' = [db EXCEPT !.orders[id].status = status]
  BY DEF Instant!BoundedReconcile, Instant!Terminal
<1> QED
  BY <1>2, <1>3, OrdersAlone, Reconciles

\* A purchase looks for its order.
LEMMA PurchaseLooksUp ==
  ASSUME InstantInv, wire' = wire, NEW i \in Instant!Servable, Instant!LookUp(net[i], i)
  PROVE  InstantInv'
<1>1. i \in DOMAIN net /\ ~net[i].back /\ InFlight(net)
  BY DEF Instant!Servable, InstantInv
<1>2. CASE Instant!Existing(net[i].arg) = {} /\ net' = Instant!At(i, "checked", 0) /\ UNCHANGED db
  <2>1. Now(i, "checked", 0)
    BY <1>1, <1>2, WentOn
  <2>2. \A id \in Instant!OrderIds : db.orders[id].key # net[i].arg.key
    BY <1>2 DEF Instant!Existing
  <2> QED
    BY <1>2, <2>1, <2>2, NewChecked
<1>3. ASSUME NEW id \in Instant!Existing(net[i].arg), ~Instant!Locked(id),
             \/ net' = Instant!Refused(i) /\ UNCHANGED db
             \/ Instant!Resumable(id) /\ net' = Instant!At(i, "checked", id) /\ UNCHANGED db
             \/ Instant!BoundedReconcile(i, id)
      PROVE  InstantInv'
  <2>1. id \in Instant!OrderIds
    BY DEF Instant!Existing, Instant!Same
  <2>2. CASE net' = Instant!Refused(i) /\ UNCHANGED db
    BY <1>1, <2>2, InstantAnswers, OrdersAlone
  <2>3. CASE Instant!Resumable(id) /\ net' = Instant!At(i, "checked", id) /\ UNCHANGED db
    <3>1. Now(i, "checked", id)
      BY <1>1, <2>3, WentOn
    <3> QED
      BY <1>3, <2>1, <2>3, <3>1, OldChecked
  <2>4. CASE Instant!BoundedReconcile(i, id)
    BY <1>1, <2>1, <2>4, ReconciledOnTheWay
  <2> QED
    BY <1>3, <2>2, <2>3, <2>4
<1> QED
  BY <1>2, <1>3 DEF Instant!LookUp

\* The step a purchase has reached says which of the API's steps comes next.
LEMMA StepOf ==
  ASSUME InstantInv, NEW i \in Instant!Servable, net[i].val # <<>>
  PROVE  \E step \in {"checked", "stored", "recorded"}, id \in {0} \cup Instant!OrderIds :
           /\ Reached(net, i, step, id) /\ (id = 0 => step = "checked")
           /\ net[i].val[1].step = step /\ net[i].val[1].order = id
<1>1. i \in Waiting(net)
  BY DEF Waiting, Instant!Servable
<1>2. PICK step \in {"checked", "stored", "recorded"}, id \in {0} \cup Instant!OrderIds :
        Reached(net, i, step, id) /\ (id = 0 => step = "checked")
  BY <1>1 DEF InstantInv, StepsReached
<1>3. net[i].val = <<[step |-> step, order |-> id]>>
  BY <1>2 DEF Reached
<1>4. net[i].val[1].step = step /\ net[i].val[1].order = id
  BY <1>3
<1> QED
  BY <1>2, <1>4

\* A purchase stores its order: a new one, or again the one it resumes.
LEMMA PurchaseStores ==
  ASSUME InstantInv, wire' = wire, NEW i \in Instant!Servable, Instant!StoreOrder(net[i], i)
  PROVE  InstantInv'
<1>1. i \in DOMAIN net /\ ~net[i].back /\ InFlight(net)
  BY DEF Instant!Servable, InstantInv
<1>2. PICK step \in {"checked", "stored", "recorded"}, id \in {0} \cup Instant!OrderIds :
        /\ Reached(net, i, step, id) /\ (id = 0 => step = "checked")
        /\ net[i].val[1].step = step /\ net[i].val[1].order = id
  BY StepOf DEF Instant!StoreOrder, Instant!Null
<1>3. step = "checked"
  BY <1>2 DEF Instant!StoreOrder
<1>4. CASE net' = Instant!Refused(i) /\ UNCHANGED db
  BY <1>1, <1>4, InstantAnswers, OrdersAlone
<1>5. CASE /\ id # 0 /\ net' = Instant!At(i, "stored", id)
           /\ db' = [db EXCEPT !.orders[id].status = "SUBMISSION_PENDING"]
  <2>1. Now(i, "stored", id) /\ id \in Instant!OrderIds
    BY <1>1, <1>5, WentOn
  <2>2. db.accepted[id] = 0
    BY <1>2, <1>3, <2>1 DEF InstantInv, CheckedResumable, ResumableUnsent, Reached
  <2> DEFINE o == db.orders[id]
             row == [key |-> o.key, amount |-> o.amount, status |-> "SUBMISSION_PENDING",
                     legacy |-> o.legacy, adopted |-> o.adopted]
  <2>3. /\ OrdersStored' /\ db'.accepted = db.accepted
        /\ DOMAIN db'.orders = DOMAIN db.orders
        /\ \A k \in DOMAIN db.orders : db'.orders[k] = IF k = id THEN row ELSE db.orders[k]
    BY <1>5, <2>1, StatusChanged DEF InstantInv
  <2>4. row.key = o.key /\ row.amount = o.amount /\ row.status = "SUBMISSION_PENDING"
    OBVIOUS
  <2> HIDE DEF row
  <2>5. db'.orders[id] = row /\ id \in DOMAIN db.orders
    BY <2>1, <2>3 DEF Instant!OrderIds
  <2>6. ~(db'.orders[id].status = "REJECTED")
    BY <2>4, <2>5
  <2> QED
    BY <1>2, <1>3, <2>1, <2>2, <2>3, <2>4, <2>5, <2>6, OwnOrder
      DEF Instant!OrderIds, Instant!Resumable
<1>6. CASE \E row : /\ id = 0 /\ Instant!Same(net[i].arg) = {}
                    /\ net' = Instant!At(i, "stored", Len(db.orders) + 1)
                    /\ row = [key |-> net[i].arg.key, amount |-> net[i].arg.amount,
                              status |-> "SUBMISSION_PENDING", legacy |-> FALSE, adopted |-> FALSE]
                    /\ Stores(row)
  <2>1. PICK row : /\ id = 0 /\ Instant!Same(net[i].arg) = {}
                   /\ net' = Instant!At(i, "stored", Len(db.orders) + 1)
                   /\ row = [key |-> net[i].arg.key, amount |-> net[i].arg.amount,
                             status |-> "SUBMISSION_PENDING", legacy |-> FALSE, adopted |-> FALSE]
                   /\ Stores(row)
    BY <1>6
  <2>2. Now(i, "stored", Len(db.orders) + 1)
    BY <1>1, <2>1, WentOn
  <2>3. /\ row.key = net[i].arg.key /\ row.amount = net[i].arg.amount
        /\ row.status = "SUBMISSION_PENDING" /\ OrderRow(row)
    BY <2>1 DEF OrderRow
  <2> QED
    BY <1>2, <1>3, <2>1, <2>2, <2>3, NewStored
<1>7. id # 0 => /\ net' = Instant!At(i, "stored", id)
                /\ db' = [db EXCEPT !.orders[id].status = "SUBMISSION_PENDING"]
                \/ (net' = Instant!Refused(i) /\ UNCHANGED db)
  BY <1>2 DEF Instant!StoreOrder
<1>8. id = 0 => \/ net' = Instant!Refused(i) /\ UNCHANGED db
                \/ \E row : /\ Instant!Same(net[i].arg) = {}
                            /\ net' = Instant!At(i, "stored", Len(db.orders) + 1)
                            /\ row = [key |-> net[i].arg.key, amount |-> net[i].arg.amount,
                                      status |-> "SUBMISSION_PENDING", legacy |-> FALSE, adopted |-> FALSE]
                            /\ Stores(row)
  BY <1>2 DEF Instant!StoreOrder, Stores
<1> QED
  BY <1>4, <1>5, <1>6, <1>7, <1>8

\* A purchase submits the order it stored, once.
LEMMA PurchaseSubmits ==
  ASSUME InstantInv, wire' = wire, NEW i \in Instant!Servable, Instant!Submit(net[i], i)
  PROVE  InstantInv'
<1>1. i \in DOMAIN net /\ ~net[i].back /\ InFlight(net)
  BY DEF Instant!Servable, InstantInv
<1>2. PICK step \in {"checked", "stored", "recorded"}, id \in {0} \cup Instant!OrderIds :
        /\ Reached(net, i, step, id) /\ (id = 0 => step = "checked")
        /\ net[i].val[1].step = step /\ net[i].val[1].order = id
  BY StepOf DEF Instant!Submit, Instant!Null
<1>3. step = "stored" /\ id \in Instant!OrderIds
  BY <1>2 DEF Instant!Submit
<1>4. db.accepted[id] = 0
  BY <1>2, <1>3 DEF InstantInv, StoredUnsent, Reached
<1>5. PICK status \in {"ACKNOWLEDGED", "REJECTED", "RECONCILIATION_REQUIRED"},
           accepts \in BOOLEAN, legacy \in BOOLEAN :
        /\ Instant!Recorded(id, status, accepts, legacy)
        /\ status = "REJECTED" => ~accepts
        /\ net' = Instant!At(i, "recorded", id) \/ \E payload : net' = Instant!Served(i, payload)
  <2>1. \/ Instant!Recorded(id, "ACKNOWLEDGED", TRUE, FALSE) /\ net' = Instant!At(i, "recorded", id)
        \/ \E legacy \in BOOLEAN :
             Instant!Recorded(id, "REJECTED", FALSE, legacy) /\ net' = Instant!At(i, "recorded", id)
        \/ \E accepts \in BOOLEAN :
             /\ Instant!Recorded(id, "RECONCILIATION_REQUIRED", accepts, FALSE)
             /\ net' = Instant!At(i, "recorded", id)
        \/ \E accepts \in BOOLEAN :
             /\ Instant!Recorded(id, "RECONCILIATION_REQUIRED", accepts, FALSE)
             /\ \E payload : net' = Instant!Served(i, payload)
    BY <1>2 DEF Instant!Submit
  <2>2. CASE Instant!Recorded(id, "ACKNOWLEDGED", TRUE, FALSE) /\ net' = Instant!At(i, "recorded", id)
    <3>1. PICK a \in BOOLEAN, b \in BOOLEAN : Instant!Recorded(id, "ACKNOWLEDGED", a, b)
      BY <2>2
    <3> QED
      BY <2>2, <3>1
  <2>3. CASE \E legacy \in BOOLEAN :
               Instant!Recorded(id, "REJECTED", FALSE, legacy) /\ net' = Instant!At(i, "recorded", id)
    <3>1. PICK a \in BOOLEAN, b \in BOOLEAN : ~a /\ Instant!Recorded(id, "REJECTED", a, b)
      BY <2>3
    <3> QED
      BY <2>3, <3>1
  <2>4. CASE \E accepts \in BOOLEAN :
               /\ Instant!Recorded(id, "RECONCILIATION_REQUIRED", accepts, FALSE)
               /\ net' = Instant!At(i, "recorded", id) \/ \E payload : net' = Instant!Served(i, payload)
    <3>1. PICK a \in BOOLEAN, b \in BOOLEAN : Instant!Recorded(id, "RECONCILIATION_REQUIRED", a, b)
      BY <2>4
    <3> QED
      BY <2>4, <3>1
  <2> QED
    BY <2>1, <2>2, <2>3, <2>4
<1>6. Now(i, "recorded", id)
  BY <1>1, <1>5, WentOn, WasServed
<1> DEFINE o == db.orders[id]
           row == [key |-> o.key, amount |-> o.amount, status |-> status, legacy |-> legacy,
                   adopted |-> o.adopted]
<1>7. /\ OrdersStored'
      /\ DOMAIN db'.orders = DOMAIN db.orders
      /\ \A k \in DOMAIN db.orders : db'.orders[k] = IF k = id THEN row ELSE db.orders[k]
      /\ \A k \in DOMAIN db.orders : db'.accepted[k] = IF k = id /\ accepts THEN 1 ELSE db.accepted[k]
  BY <1>3, <1>4, <1>5, AnswerRecorded DEF InstantInv
<1>8. row.key = o.key /\ row.amount = o.amount /\ row.status = status
  OBVIOUS
<1> HIDE DEF row
<1>9. db'.orders[id] = row /\ id \in DOMAIN db.orders
  BY <1>3, <1>7 DEF Instant!OrderIds
<1>10. Instant!Resumable(id)' => db'.accepted[id] = 0
  <2>1. SUFFICES ASSUME db'.orders[id].status = "REJECTED"
                 PROVE  db'.accepted[id] = 0
    BY DEF Instant!Resumable
  <2>2. ~accepts
    BY <1>5, <1>8, <1>9, <2>1
  <2> QED
    BY <1>4, <1>7, <1>9, <2>2
<1>11. /\ \A k \in DOMAIN db.orders : db'.orders[k].key = db.orders[k].key
                                      /\ db'.orders[k].amount = db.orders[k].amount
       /\ \A k \in DOMAIN db.orders : k # id => db'.orders[k] = db.orders[k]
                                               /\ db'.accepted[k] = db.accepted[k]
  BY <1>7, <1>8
<1> QED
  BY <1>2, <1>3, <1>6, <1>7, <1>10, <1>11, OwnOrder

\* Every step of the instant-buy page, of its API and of the exchange keeps the invariant.
LEMMA InstantKeeps ==
  ASSUME InstantInv, Instant!InstantNext \/ UNCHANGED <<ui, net, db, wire>>
  PROVE  InstantInv' /\ wire' = wire
<1>1. InFlight(net)
  BY DEF InstantInv
<1>2. wire' = wire
  BY DEF Instant!InstantNext, Instant!TypeAmount, Instant!TypeKey, Instant!ChooseConnection, Instant!Type,
         Instant!Confirm, Instant!BuyNow, Instant!Adopt, Instant!PollTick, Instant!Deliver, Instant!Serve,
         Instant!RequestFails, Instant!Scheduled, Instant!ExchangeTrades
<1>3. CASE UNCHANGED <<net, db>>
  BY <1>1, <1>2, <1>3, FewerWaiting, OrdersAlone
<1>4. CASE Instant!BuyNow
  BY <1>1, <1>2, <1>3, <1>4, InstantAnswers, OrdersAlone DEF Instant!BuyNow
<1>5. CASE Instant!Adopt \/ Instant!PollTick
  BY <1>1, <1>2, <1>5, InstantAnswers, OrdersAlone DEF Instant!Adopt, Instant!PollTick
<1>6. CASE Instant!Deliver
  <2>1. PICK i \in DOMAIN net : net' = Instant!Handled(i) /\ UNCHANGED db
    BY <1>6 DEF Instant!Deliver, Instant!Deliverable
  <2> QED
    BY <1>1, <1>2, <2>1, InstantAnswers, OrdersAlone
<1>7. CASE Instant!RequestFails
  <2>1. PICK i \in DOMAIN net : net' = Instant!Refused(i)
    BY <1>7 DEF Instant!RequestFails, Instant!Servable, Instant!Deliverable
  <2>2. \E n : db' = [db EXCEPT !.failures = n]
    BY <1>7 DEF Instant!RequestFails
  <2> QED
    BY <1>1, <1>2, <2>1, <2>2, InstantAnswers, OrdersAlone
<1>8. CASE Instant!Serve
  <2>1. PICK i \in Instant!Servable :
          \/ Instant!ServeConnections(net[i], i) \/ Instant!ServeGet(net[i], i)
          \/ Instant!ServeAdopt(net[i], i)
          \/ Instant!LookUp(net[i], i) \/ Instant!StoreOrder(net[i], i)
          \/ Instant!Submit(net[i], i) \/ Instant!AnswerBuy(net[i], i)
    BY <1>8 DEF Instant!Serve
  <2>2. i \in DOMAIN net
    BY DEF Instant!Servable
  <2>3. CASE Instant!ServeConnections(net[i], i) \/ Instant!ServeGet(net[i], i)
    <3>1. UNCHANGED db /\ \E payload : net' = Instant!Served(i, payload)
      BY <2>3 DEF Instant!ServeConnections, Instant!ServeGet
    <3> QED
      BY <1>1, <1>2, <2>2, <3>1, InstantAnswers, OrdersAlone
  <2>4. CASE Instant!ServeAdopt(net[i], i)
    <3>1. CASE net' = Instant!Refused(i) /\ UNCHANGED db
      BY <1>1, <1>2, <2>2, <3>1, InstantAnswers, OrdersAlone
    <3>2. CASE (\E payload : net' = Instant!Served(i, payload)) /\ \E id : Adopts(id)
      <4>1. Fewer(net', net)
        BY <1>1, <2>2, <3>2, InstantAnswers
      <4>2. /\ OrdersStored' /\ db'.accepted = db.accepted
            /\ DOMAIN db'.orders = DOMAIN db.orders
            /\ \A k \in DOMAIN db.orders :
                 /\ db'.orders[k].key = db.orders[k].key /\ db'.orders[k].amount = db.orders[k].amount
                 /\ db'.orders[k].legacy = db.orders[k].legacy
                 /\ db'.orders[k].status = db.orders[k].status
        BY <3>2, OrderAdopted DEF InstantInv
      <4> QED
        BY <1>2, <4>1, <4>2, OrdersKept
    <3> QED
      BY <2>4, <3>1, <3>2 DEF Instant!ServeAdopt, Adopts
  <2>5. CASE Instant!AnswerBuy(net[i], i)
    <3>1. PICK step \in {"checked", "stored", "recorded"}, id \in {0} \cup Instant!OrderIds :
            /\ Reached(net, i, step, id) /\ (id = 0 => step = "checked")
            /\ net[i].val[1].step = step /\ net[i].val[1].order = id
      BY <2>5, StepOf DEF Instant!AnswerBuy, Instant!Null
    <3>2. id \in Instant!OrderIds /\ Instant!BoundedReconcile(i, id)
      BY <2>5, <3>1 DEF Instant!AnswerBuy
    <3> QED
      BY <1>2, <2>2, <3>2, ReconciledOnTheWay
  <2> QED
    BY <1>2, <2>1, <2>3, <2>4, <2>5, PurchaseLooksUp, PurchaseStores, PurchaseSubmits
<1>9. ASSUME NEW id \in Instant!OrderIds, Instant!Scheduled(id)
      PROVE  InstantInv'
  <2>1. /\ db.orders[id].status # "REJECTED" /\ UNCHANGED net
        /\ \E status \in Instant!Reconciled(id) : db' = [db EXCEPT !.orders[id].status = status]
    BY <1>9 DEF Instant!Scheduled
  <2> QED
    BY <1>1, <1>2, <2>1, FewerWaiting, Reconciles
<1>10. ASSUME NEW id \in Instant!OrderIds, Instant!ExchangeTrades(id)
       PROVE  InstantInv'
  <2>1. UNCHANGED net /\ \E state \in {"partial", "filled"} : Trades(id, state)
    BY <1>10 DEF Instant!ExchangeTrades, Trades
  <2>2. OrdersStored' /\ db'.accepted = db.accepted /\ db'.orders = db.orders
    BY <2>1, ExchangeTraded DEF InstantInv
  <2> QED
    BY <1>1, <1>2, <2>1, <2>2, FewerWaiting, OrdersKept
<1>11. CASE \/ \E amount \in BuyAmounts : Instant!TypeAmount(amount)
            \/ \E key \in BuyKeys : Instant!TypeKey(key)
            \/ \E i \in DOMAIN Connections : Instant!ChooseConnection(i)
            \/ Instant!Confirm
  BY <1>3, <1>11
    DEF Instant!TypeAmount, Instant!TypeKey, Instant!ChooseConnection, Instant!Confirm, Instant!Type
<1> QED
  BY <1>2, <1>3, <1>4, <1>5, <1>6, <1>7, <1>8, <1>9, <1>10, <1>11 DEF Instant!InstantNext

\* Mounting the page starts with no orders.
LEMMA InstantStarts ==
  ASSUME Instant!InstantInit
  PROVE  InstantInv
<1> DEFINE r == Instant!NewRequest("connections", Instant!Null)
<1>1. IsRequest(r) /\ r.val = <<>>
  BY DEF IsRequest, Instant!NewRequest, Instant!Null
<1> HIDE DEF r
<1>2. net = Append(<<>>, r)
  BY DEF Instant!InstantInit, Instant!Issue, r
<1>3. InFlight(net) /\ DOMAIN net = 1..1 /\ net[1] = r
  BY <1>1, <1>2, FirstRequest
<1>4. Waiting(net) = {}
  BY <1>1, <1>3 DEF Waiting
<1>5. db = [orders |-> <<>>, exchange |-> <<>>, accepted |-> <<>>, failures |-> 0]
  BY DEF Instant!InstantInit
<1>6. /\ db = [orders |-> db.orders, exchange |-> db.exchange, accepted |-> db.accepted,
               failures |-> db.failures]
      /\ db.orders = <<>> /\ db.exchange = <<>> /\ db.accepted = <<>> /\ DOMAIN db.orders = {}
  BY <1>5
<1>7. /\ db.orders \in Seq(Range(db.orders))
      /\ db.exchange \in Seq({"none", "open", "partial", "filled"}) /\ Len(db.exchange) = Len(db.orders)
      /\ db.accepted \in Seq({0, 1}) /\ Len(db.accepted) = Len(db.orders)
  BY <1>6, EmptySeq, SeqOfRange
<1>8. OrdersStored
  BY <1>6, <1>7 DEF OrdersStored, Instant!OrderIds
<1> QED
  BY <1>3, <1>4, <1>6, <1>8
    DEF InstantInv, StepsReached, OneBuyer, StoredUnsent, CheckedResumable, ResumableUnsent, OrdersDiffer,
        OneAtATime, CheckedNew, KeysDiffer, Instant!OrderIds

\* No order was accepted twice, and two of a key differ in their amounts.
LEMMA InstantHolds ==
  ASSUME InstantInv, wire \in {"ordered", "unordered"}
  PROVE  Instant!BoughtOnce
<1>1. \A id \in Instant!OrderIds : db.accepted[id] \in {0, 1}
  BY LenProperties DEF InstantInv, OrdersStored, Instant!OrderIds
<1> QED
  BY <1>1 DEF InstantInv, OrdersDiffer, KeysDiffer, Instant!BoughtOnce

----------------------------------------------------------------------------
(* The strategy lab.  Its coach: a configuration has at most three         *)
(* parameters, so that warnings alone leave a score of 70, and the defaults *)
(* break no rule.                                                          *)

Lab == INSTANCE StrategyLabPage
  WITH MaxClicks <- LabClicks, MaxFailures <- LabFailures

\* A form holds a value for each parameter, numbers where they are due.
Numbered(key, x) == Lab!IsNumeric(key) => x \in Int

FitForm(slug, v) ==
  \A key \in Lab!Definitions(slug) : v[key] = <<v[key][1]>> /\ Numbered(key, v[key][1])

\* The lab counts and orders as this module does.
LEMMA SameCounts ==
  /\ \A S : Lab!Cardinality(S) = Cardinality(S)
  /\ \A s, I : Lab!Kept(s, I) = Keeping(s, I)
<1>1. \A S : Lab!Cardinality(S) = Cardinality(S)
  BY DEF Lab!Cardinality, Cardinality
<1>2. \A s, I : Lab!Kept(s, I) = Keeping(s, I)
  BY DEF Lab!Kept, Lab!Before, Lab!Cardinality, Keeping, Place, Cardinality
<1> QED
  BY <1>1, <1>2

\* The strategies the page knows, and their parameters.
LEMMA KnownStrategies ==
  ASSUME NEW slug
  PROVE  \/ Lab!Definitions(slug) = {}
         \/ slug = "ma_crossover" /\ Lab!Definitions(slug) = {"fast_period", "slow_period", "ma_type"}
         \/ slug = "rsi_mean_reversion" /\ Lab!Definitions(slug) = {"rsi_period", "oversold", "overbought"}
         \/ slug = "breakout" /\ Lab!Definitions(slug) = {"lookback", "volume_confirmation", "min_volume_multiple"}
         \/ slug = "volatility_filter" /\ Lab!Definitions(slug) = {"atr_period", "min_atr_pct", "max_atr_pct"}
         \/ slug = "trend_regime_filter" /\ Lab!Definitions(slug) = {"adx_period", "adx_trend_threshold", "ma_slope_period"}
         \/ slug = "ensemble_scorer" /\ Lab!Definitions(slug) = {"min_strategies_agreeing", "conflict_resolution"}
<1>1. DOMAIN Lab!Defaults = {"ma_crossover", "rsi_mean_reversion", "breakout", "volatility_filter", "trend_regime_filter", "ensemble_scorer"}
  BY DEF Lab!Defaults
<1>2. CASE slug \notin DOMAIN Lab!Defaults
  BY <1>2 DEF Lab!Definitions
<1>3. CASE slug = "ma_crossover"
  <2>1. DOMAIN Lab!Defaults["ma_crossover"] = {"fast_period", "slow_period", "ma_type"}
    BY DEF Lab!Defaults
  <2> QED
    BY <1>1, <1>3, <2>1 DEF Lab!Definitions
<1>4. CASE slug = "rsi_mean_reversion"
  <2>1. DOMAIN Lab!Defaults["rsi_mean_reversion"] = {"rsi_period", "oversold", "overbought"}
    BY DEF Lab!Defaults
  <2> QED
    BY <1>1, <1>4, <2>1 DEF Lab!Definitions
<1>5. CASE slug = "breakout"
  <2>1. DOMAIN Lab!Defaults["breakout"] = {"lookback", "volume_confirmation", "min_volume_multiple"}
    BY DEF Lab!Defaults
  <2> QED
    BY <1>1, <1>5, <2>1 DEF Lab!Definitions
<1>6. CASE slug = "volatility_filter"
  <2>1. DOMAIN Lab!Defaults["volatility_filter"] = {"atr_period", "min_atr_pct", "max_atr_pct"}
    BY DEF Lab!Defaults
  <2> QED
    BY <1>1, <1>6, <2>1 DEF Lab!Definitions
<1>7. CASE slug = "trend_regime_filter"
  <2>1. DOMAIN Lab!Defaults["trend_regime_filter"] = {"adx_period", "adx_trend_threshold", "ma_slope_period"}
    BY DEF Lab!Defaults
  <2> QED
    BY <1>1, <1>7, <2>1 DEF Lab!Definitions
<1>8. CASE slug = "ensemble_scorer"
  <2>1. DOMAIN Lab!Defaults["ensemble_scorer"] = {"min_strategies_agreeing", "conflict_resolution"}
    BY DEF Lab!Defaults
  <2> QED
    BY <1>1, <1>8, <2>1 DEF Lab!Definitions
<1> QED
  BY <1>1, <1>2, <1>3, <1>4, <1>5, <1>6, <1>7, <1>8

\* A strategy has at most three parameters.
LEMMA FewParameters ==
  ASSUME NEW slug
  PROVE  IsFiniteSet(Lab!Definitions(slug)) /\ Cardinality(Lab!Definitions(slug)) \in 0..3
<1> DEFINE D == Lab!Definitions(slug)
<1>1. \E a, b, c : D \subseteq {a, b, c}
  <2>1. ASSUME NEW a, NEW b, NEW c, D = {a, b, c}
        PROVE  \E x, y, z : D \subseteq {x, y, z}
    BY <2>1
  <2>2. ASSUME NEW a, NEW b, D = {a, b}
        PROVE  \E x, y, z : D \subseteq {x, y, z}
    BY <2>2
  <2>3. ASSUME D = {}
        PROVE  \E x, y, z : D \subseteq {x, y, z}
    BY <2>3
  <2>4. \/ D = {}
        \/ \E a, b : D = {a, b}
        \/ \E a, b, c : D = {a, b, c}
    BY ZenonT(120), KnownStrategies
  <2> HIDE DEF D
  <2> QED
    BY <2>1, <2>2, <2>3, <2>4
<1> HIDE DEF D
<1>2. PICK a, b, c : D \subseteq {a, b, c}
  BY <1>1
<1>3. IsFiniteSet({a, b, c}) /\ Cardinality({a, b, c}) <= 3
  <2>1. IsFiniteSet({a}) /\ Cardinality({a}) = 1
    BY FS_Singleton
  <2> DEFINE A == {a, b}
  <2>3. IsFiniteSet(A) /\ Cardinality(A) \in 0..2
    <3>1. IsFiniteSet({a} \cup {b}) /\ Cardinality({a} \cup {b}) \in 0..2
      BY <2>1, FS_AddElement
    <3>2. {a} \cup {b} = A
      OBVIOUS
    <3> QED
      BY <3>1, <3>2
  <2> HIDE DEF A
  <2>4. IsFiniteSet(A \cup {c}) /\ Cardinality(A \cup {c}) <= 3
    BY <2>3, FS_AddElement
  <2>5. A \cup {c} = {a, b, c}
    BY DEF A
  <2> QED
    BY <2>4, <2>5
<1>4. IsFiniteSet(D) /\ Cardinality(D) <= Cardinality({a, b, c})
  BY <1>2, <1>3, FS_Subset
<1>5. Cardinality(D) \in Nat /\ Cardinality({a, b, c}) \in Nat
  BY <1>3, <1>4, FS_CardinalityType
<1> QED
  BY <1>3, <1>4, <1>5 DEF D

\* A number within its bounds and its recommended range, whole if it must be, breaks
\* no rule and is not warned about.
LEMMA NumberFits ==
  ASSUME NEW key, NEW x \in Int, Lab!IsNumeric(key),
         Lab!Metadata[key].kind = "integer" => x % 100 = 0,
         NEW least \in Int, NEW most \in Int, NEW low \in Int, NEW high \in Int,
         Lab!Metadata[key].least = least, Lab!Metadata[key].most = most,
         Lab!Metadata[key].low = low, Lab!Metadata[key].high = high,
         least <= x, x <= most, low <= x, x <= high
  PROVE  Lab!Errors(key, <<x>>) = {} /\ ~Lab!Warned(key, <<x>>)
<1>1. ~(x < least) /\ ~(x > most) /\ ~(x < low) /\ ~(x > high)
  OBVIOUS
<1>2. PICK v : v = <<x>>
  OBVIOUS
<1>3. v # <<>> /\ v[1] = x
  BY <1>2
<1>4. Lab!Errors(key, v) = {}
  BY <1>1, <1>3 DEF Lab!Errors
<1>5. ~Lab!Warned(key, v)
  BY <1>1, <1>3 DEF Lab!Warned
<1> QED
  BY <1>2, <1>4, <1>5

\* A choice among those that are allowed does not either.
LEMMA ChoiceFits ==
  ASSUME NEW key, NEW x, ~Lab!IsNumeric(key),
         Lab!Metadata[key].kind = "enum" => x \in Lab!Metadata[key].allowed
  PROVE  Lab!Errors(key, <<x>>) = {} /\ ~Lab!Warned(key, <<x>>)
<1>1. PICK v : v = <<x>>
  OBVIOUS
<1>2. v # <<>> /\ v[1] = x
  BY <1>1
<1>3. Lab!Errors(key, v) = {}
  BY <1>2 DEF Lab!Errors
<1>4. ~Lab!Warned(key, v)
  BY DEF Lab!Warned
<1> QED
  BY <1>1, <1>3, <1>4

\* The defaults break no rule, and none is outside its recommended range.
LEMMA DefaultsFit ==
  ASSUME NEW slug, NEW key \in Lab!Definitions(slug)
  PROVE  LET value == <<Lab!Defaults[slug][key]>> IN
         Lab!Errors(key, value) = {} /\ ~Lab!Warned(key, value) /\ Numbered(key, value[1])
<1> DEFINE Fits(k, x) == Lab!Errors(k, <<x>>) = {} /\ ~Lab!Warned(k, <<x>>) /\ Numbered(k, x)
<1>1. Fits("fast_period", 1000)
  <2>1. Lab!Metadata["fast_period"] = [kind |-> "integer", least |-> 200, most |-> 20000, low |-> 500, high |-> 3000]
    BY DEF Lab!Metadata, Lab!Numeric, Lab!Whole, Lab!Percent, Lab!OneOf
  <2>2. Lab!IsNumeric("fast_period")
    BY <2>1 DEF Lab!IsNumeric
  <2> QED
    BY <2>1, <2>2, NumberFits DEF Numbered
<1>2. Fits("slow_period", 5000)
  <2>1. Lab!Metadata["slow_period"] = [kind |-> "integer", least |-> 500, most |-> 40000, low |-> 2000, high |-> 10000]
    BY DEF Lab!Metadata, Lab!Numeric, Lab!Whole, Lab!Percent, Lab!OneOf
  <2>2. Lab!IsNumeric("slow_period")
    BY <2>1 DEF Lab!IsNumeric
  <2> QED
    BY <2>1, <2>2, NumberFits DEF Numbered
<1>3. Fits("rsi_period", 1400)
  <2>1. Lab!Metadata["rsi_period"] = [kind |-> "integer", least |-> 200, most |-> 10000, low |-> 700, high |-> 2100]
    BY DEF Lab!Metadata, Lab!Numeric, Lab!Whole, Lab!Percent, Lab!OneOf
  <2>2. Lab!IsNumeric("rsi_period")
    BY <2>1 DEF Lab!IsNumeric
  <2> QED
    BY <2>1, <2>2, NumberFits DEF Numbered
<1>4. Fits("oversold", 3000)
  <2>1. Lab!Metadata["oversold"] = [kind |-> "percentage", least |-> 0, most |-> 10000, low |-> 2000, high |-> 4000]
    BY DEF Lab!Metadata, Lab!Numeric, Lab!Whole, Lab!Percent, Lab!OneOf
  <2>2. Lab!IsNumeric("oversold")
    BY <2>1 DEF Lab!IsNumeric
  <2> QED
    BY <2>1, <2>2, NumberFits DEF Numbered
<1>5. Fits("overbought", 7000)
  <2>1. Lab!Metadata["overbought"] = [kind |-> "percentage", least |-> 0, most |-> 10000, low |-> 6000, high |-> 8000]
    BY DEF Lab!Metadata, Lab!Numeric, Lab!Whole, Lab!Percent, Lab!OneOf
  <2>2. Lab!IsNumeric("overbought")
    BY <2>1 DEF Lab!IsNumeric
  <2> QED
    BY <2>1, <2>2, NumberFits DEF Numbered
<1>6. Fits("lookback", 2000)
  <2>1. Lab!Metadata["lookback"] = [kind |-> "integer", least |-> 200, most |-> 30000, low |-> 1000, high |-> 6000]
    BY DEF Lab!Metadata, Lab!Numeric, Lab!Whole, Lab!Percent, Lab!OneOf
  <2>2. Lab!IsNumeric("lookback")
    BY <2>1 DEF Lab!IsNumeric
  <2> QED
    BY <2>1, <2>2, NumberFits DEF Numbered
<1>7. Fits("min_volume_multiple", 150)
  <2>1. Lab!Metadata["min_volume_multiple"] = [kind |-> "decimal", least |-> 0, most |-> 1000, low |-> 100, high |-> 300]
    BY DEF Lab!Metadata, Lab!Numeric, Lab!Whole, Lab!Percent, Lab!OneOf
  <2>2. Lab!IsNumeric("min_volume_multiple")
    BY <2>1 DEF Lab!IsNumeric
  <2> QED
    BY <2>1, <2>2, NumberFits DEF Numbered
<1>8. Fits("atr_period", 1400)
  <2>1. Lab!Metadata["atr_period"] = [kind |-> "integer", least |-> 200, most |-> 20000, low |-> 1000, high |-> 3000]
    BY DEF Lab!Metadata, Lab!Numeric, Lab!Whole, Lab!Percent, Lab!OneOf
  <2>2. Lab!IsNumeric("atr_period")
    BY <2>1 DEF Lab!IsNumeric
  <2> QED
    BY <2>1, <2>2, NumberFits DEF Numbered
<1>9. Fits("min_atr_pct", 20)
  <2>1. Lab!Metadata["min_atr_pct"] = [kind |-> "percentage", least |-> 0, most |-> 10000, low |-> 10, high |-> 200]
    BY DEF Lab!Metadata, Lab!Numeric, Lab!Whole, Lab!Percent, Lab!OneOf
  <2>2. Lab!IsNumeric("min_atr_pct")
    BY <2>1 DEF Lab!IsNumeric
  <2> QED
    BY <2>1, <2>2, NumberFits DEF Numbered
<1>10. Fits("max_atr_pct", 500)
  <2>1. Lab!Metadata["max_atr_pct"] = [kind |-> "percentage", least |-> 0, most |-> 10000, low |-> 200, high |-> 800]
    BY DEF Lab!Metadata, Lab!Numeric, Lab!Whole, Lab!Percent, Lab!OneOf
  <2>2. Lab!IsNumeric("max_atr_pct")
    BY <2>1 DEF Lab!IsNumeric
  <2> QED
    BY <2>1, <2>2, NumberFits DEF Numbered
<1>11. Fits("adx_period", 1400)
  <2>1. Lab!Metadata["adx_period"] = [kind |-> "integer", least |-> 200, most |-> 20000, low |-> 1000, high |-> 3000]
    BY DEF Lab!Metadata, Lab!Numeric, Lab!Whole, Lab!Percent, Lab!OneOf
  <2>2. Lab!IsNumeric("adx_period")
    BY <2>1 DEF Lab!IsNumeric
  <2> QED
    BY <2>1, <2>2, NumberFits DEF Numbered
<1>12. Fits("adx_trend_threshold", 2500)
  <2>1. Lab!Metadata["adx_trend_threshold"] = [kind |-> "integer", least |-> 0, most |-> 10000, low |-> 2000, high |-> 3500]
    BY DEF Lab!Metadata, Lab!Numeric, Lab!Whole, Lab!Percent, Lab!OneOf
  <2>2. Lab!IsNumeric("adx_trend_threshold")
    BY <2>1 DEF Lab!IsNumeric
  <2> QED
    BY <2>1, <2>2, NumberFits DEF Numbered
<1>13. Fits("ma_slope_period", 5000)
  <2>1. Lab!Metadata["ma_slope_period"] = [kind |-> "integer", least |-> 200, most |-> 40000, low |-> 2000, high |-> 10000]
    BY DEF Lab!Metadata, Lab!Numeric, Lab!Whole, Lab!Percent, Lab!OneOf
  <2>2. Lab!IsNumeric("ma_slope_period")
    BY <2>1 DEF Lab!IsNumeric
  <2> QED
    BY <2>1, <2>2, NumberFits DEF Numbered
<1>14. Fits("min_strategies_agreeing", 100)
  <2>1. Lab!Metadata["min_strategies_agreeing"] = [kind |-> "integer", least |-> 100, most |-> 1000, low |-> 100, high |-> 400]
    BY DEF Lab!Metadata, Lab!Numeric, Lab!Whole, Lab!Percent, Lab!OneOf
  <2>2. Lab!IsNumeric("min_strategies_agreeing")
    BY <2>1 DEF Lab!IsNumeric
  <2> QED
    BY <2>1, <2>2, NumberFits DEF Numbered
<1>15. Fits("ma_type", "sma")
  <2>1. Lab!Metadata["ma_type"].kind = "enum" /\ Lab!Metadata["ma_type"].allowed = {"sma", "ema"}
    BY DEF Lab!Metadata, Lab!OneOf
  <2>2. ~Lab!IsNumeric("ma_type")
    BY <2>1 DEF Lab!IsNumeric
  <2> QED
    BY <2>1, <2>2, ChoiceFits DEF Numbered
<1>16. Fits("volume_confirmation", Lab!Defaults["breakout"]["volume_confirmation"])
  <2>1. Lab!Metadata["volume_confirmation"].kind = "boolean"
    BY DEF Lab!Metadata, Lab!OneOf
  <2>2. ~Lab!IsNumeric("volume_confirmation")
    BY <2>1 DEF Lab!IsNumeric
  <2> QED
    BY <2>1, <2>2, ChoiceFits DEF Numbered
<1>17. Fits("conflict_resolution", "net_strength")
  <2>1. Lab!Metadata["conflict_resolution"].kind = "enum" /\ Lab!Metadata["conflict_resolution"].allowed = {"net_strength", "majority_vote"}
    BY DEF Lab!Metadata, Lab!OneOf
  <2>2. ~Lab!IsNumeric("conflict_resolution")
    BY <2>1 DEF Lab!IsNumeric
  <2> QED
    BY <2>1, <2>2, ChoiceFits DEF Numbered
<1> HIDE DEF Fits
<1>18. ASSUME slug = "ma_crossover", Lab!Definitions(slug) = {"fast_period", "slow_period", "ma_type"}
      PROVE  Fits(key, Lab!Defaults[slug][key])
  <2>1. Lab!Defaults["ma_crossover"] = [fast_period |-> 1000, slow_period |-> 5000, ma_type |-> "sma"]
    BY DEF Lab!Defaults
  <2> QED
    BY <1>18, <2>1, <1>1, <1>2, <1>15
<1>19. ASSUME slug = "rsi_mean_reversion", Lab!Definitions(slug) = {"rsi_period", "oversold", "overbought"}
      PROVE  Fits(key, Lab!Defaults[slug][key])
  <2>1. Lab!Defaults["rsi_mean_reversion"] = [rsi_period |-> 1400, oversold |-> 3000, overbought |-> 7000]
    BY DEF Lab!Defaults
  <2> QED
    BY <1>19, <2>1, <1>3, <1>4, <1>5
<1>20. ASSUME slug = "breakout", Lab!Definitions(slug) = {"lookback", "volume_confirmation", "min_volume_multiple"}
      PROVE  Fits(key, Lab!Defaults[slug][key])
  <2>1. Lab!Defaults["breakout"]["lookback"] = 2000 /\ Lab!Defaults["breakout"]["min_volume_multiple"] = 150
    BY DEF Lab!Defaults
  <2> QED
    BY <1>20, <2>1, <1>6, <1>16, <1>7
<1>21. ASSUME slug = "volatility_filter", Lab!Definitions(slug) = {"atr_period", "min_atr_pct", "max_atr_pct"}
      PROVE  Fits(key, Lab!Defaults[slug][key])
  <2>1. Lab!Defaults["volatility_filter"] = [atr_period |-> 1400, min_atr_pct |-> 20, max_atr_pct |-> 500]
    BY DEF Lab!Defaults
  <2> QED
    BY <1>21, <2>1, <1>8, <1>9, <1>10
<1>22. ASSUME slug = "trend_regime_filter", Lab!Definitions(slug) = {"adx_period", "adx_trend_threshold", "ma_slope_period"}
      PROVE  Fits(key, Lab!Defaults[slug][key])
  <2>1. Lab!Defaults["trend_regime_filter"] = [adx_period |-> 1400, adx_trend_threshold |-> 2500, ma_slope_period |-> 5000]
    BY DEF Lab!Defaults
  <2> QED
    BY <1>22, <2>1, <1>11, <1>12, <1>13
<1>23. ASSUME slug = "ensemble_scorer", Lab!Definitions(slug) = {"min_strategies_agreeing", "conflict_resolution"}
      PROVE  Fits(key, Lab!Defaults[slug][key])
  <2>1. Lab!Defaults["ensemble_scorer"] = [min_strategies_agreeing |-> 100, conflict_resolution |-> "net_strength"]
    BY DEF Lab!Defaults
  <2> QED
    BY <1>23, <2>1, <1>14, <1>17
<1>24. Fits(key, Lab!Defaults[slug][key])
  BY KnownStrategies, <1>18, <1>19, <1>20, <1>21, <1>22, <1>23
<1> QED
  BY <1>24 DEF Fits

\* The forms' errors can be counted, and so can what is warned about.
LEMMA FormCounted ==
  ASSUME NEW slug, NEW v, FitForm(slug, v)
  PROVE  /\ Lab!Cardinality(Lab!FormErrors(slug, v)) \in Nat
         /\ Lab!Cardinality(Lab!FormErrors(slug, v)) = 0 <=> Lab!FormErrors(slug, v) = {}
         /\ Lab!Cardinality(Lab!FormWarnings(slug, v)) \in 0..3
         /\ Lab!Cardinality(Lab!FormWarnings(slug, v)) = 0 <=> Lab!FormWarnings(slug, v) = {}
         /\ Lab!Cardinality(Lab!Missing(slug, v)) = 0
<1> DEFINE D == Lab!Definitions(slug)
           E == Lab!FormErrors(slug, v)
           W == Lab!FormWarnings(slug, v)
           M == Lab!Missing(slug, v)
<1>1. IsFiniteSet(E)
  <2>1. ASSUME D = {}
        PROVE  IsFiniteSet(E)
    <3>1. E = {<<slug, "unknown">>}
      BY <2>1 DEF Lab!FormErrors
    <3> HIDE DEF E
    <3> QED
      BY <3>1, FS_Singleton
  <2>2. ASSUME D # {}
        PROVE  IsFiniteSet(E)
    <3> DEFINE R == {"required", "whole", "minimum", "maximum", "allowedValues"}
    <3>1. ASSUME NEW key, NEW value
          PROVE  Lab!Errors(key, value) \subseteq R
      BY DEF Lab!Errors
    <3>2. E = UNION {{<<key, rule>> : rule \in Lab!Errors(key, v[key])} : key \in D}
      BY <2>2 DEF Lab!FormErrors
    <3>3. E \subseteq D \X R
      <4> HIDE DEF D, R, E
      <4> QED
        BY <3>1, <3>2
    <3>4. IsFiniteSet(R)
      <4> DEFINE A == {"required", "whole"}
                 B == {"required", "whole", "minimum"}
                 C == {"required", "whole", "minimum", "maximum"}
      <4>1. IsFiniteSet({"required"})
        BY FS_Singleton
      <4>2. IsFiniteSet(A)
        <5>1. IsFiniteSet({"required"} \cup {"whole"})
          BY <4>1, FS_AddElement
        <5>2. {"required"} \cup {"whole"} = A
          OBVIOUS
        <5> QED
          BY <5>1, <5>2
      <4>3. IsFiniteSet(B)
        <5>1. IsFiniteSet(A \cup {"minimum"})
          BY <4>2, FS_AddElement
        <5>2. A \cup {"minimum"} = B
          OBVIOUS
        <5> QED
          BY <5>1, <5>2
      <4>4. IsFiniteSet(C)
        <5>1. IsFiniteSet(B \cup {"maximum"})
          BY <4>3, FS_AddElement
        <5>2. B \cup {"maximum"} = C
          OBVIOUS
        <5> QED
          BY <5>1, <5>2
      <4>5. IsFiniteSet(C \cup {"allowedValues"})
        BY <4>4, FS_AddElement
      <4>6. C \cup {"allowedValues"} = R
        OBVIOUS
      <4> QED
        BY <4>5, <4>6
    <3>5. IsFiniteSet(D)
      BY FewParameters
    <3>6. IsFiniteSet(D \X R)
      <4> HIDE DEF D, R
      <4> QED
        BY <3>4, <3>5, FS_Product
    <3> HIDE DEF D, R, E
    <3> QED
      BY <3>3, <3>6, FS_Subset
  <2> HIDE DEF D, E
  <2> QED
    BY <2>1, <2>2
<1>2. Cardinality(E) \in Nat /\ (Cardinality(E) = 0 <=> E = {})
  <2> HIDE DEF E
  <2> QED
    BY <1>1, FS_CardinalityType, FS_EmptySet
<1>3. IsFiniteSet(W) /\ Cardinality(W) \in 0..3
  <2>1. W \subseteq D
    BY DEF Lab!FormWarnings
  <2>2. IsFiniteSet(D) /\ Cardinality(D) \in 0..3
    BY FewParameters
  <2> HIDE DEF W, D
  <2>3. IsFiniteSet(W) /\ Cardinality(W) <= Cardinality(D)
    BY <2>1, <2>2, FS_Subset
  <2>4. Cardinality(W) \in Nat
    BY <2>3, FS_CardinalityType
  <2> QED
    BY <2>2, <2>3, <2>4
<1>4. Cardinality(W) = 0 <=> W = {}
  <2> HIDE DEF W
  <2> QED
    BY <1>3, FS_EmptySet
<1>5. M = {}
  <2>1. ASSUME NEW key \in D
        PROVE  v[key] # <<>>
    <3>1. PICK x : v[key] = <<x>>
      BY DEF FitForm
    <3> QED
      BY <3>1
  <2> QED
    BY <2>1 DEF Lab!Missing
<1>6. Cardinality(M) = 0
  BY <1>5, FS_EmptySet
<1> HIDE DEF E, W, M
<1>7. Lab!Cardinality(E) = Cardinality(E) /\ Lab!Cardinality(W) = Cardinality(W) /\ Lab!Cardinality(M) = Cardinality(M)
  BY SameCounts
<1>8. /\ Lab!Cardinality(E) \in Nat
      /\ Lab!Cardinality(E) = 0 <=> E = {}
      /\ Lab!Cardinality(W) \in 0..3
      /\ Lab!Cardinality(W) = 0 <=> W = {}
      /\ Lab!Cardinality(M) = 0
  BY <1>2, <1>3, <1>4, <1>6, <1>7
<1> QED
  BY <1>8 DEF E, W, M

\* The score is 65 or less with an error, between 70 and 99 with warnings alone, 100
\* with neither.
LEMMA ScoreRanks ==
  ASSUME NEW slug, NEW v, FitForm(slug, v)
  PROVE  /\ Lab!FormErrors(slug, v) # {} <=> Lab!Readiness(slug, v) < 70
         /\ Lab!FormErrors(slug, v) = {} /\ Lab!FormWarnings(slug, v) = {}
              <=> Lab!Readiness(slug, v) = 100
<1>1. PICK e : e = Lab!Cardinality(Lab!FormErrors(slug, v))
  OBVIOUS
<1>2. PICK w : w = Lab!Cardinality(Lab!FormWarnings(slug, v))
  OBVIOUS
<1>3. Lab!Readiness(slug, v) =
        IF 100 - 35 * e - 10 * w - 10 * 0 < 0 THEN 0 ELSE 100 - 35 * e - 10 * w - 10 * 0
  BY <1>1, <1>2, FormCounted DEF Lab!Readiness
<1>4. PICK E : E = Lab!FormErrors(slug, v)
  OBVIOUS
<1>5. PICK W : W = Lab!FormWarnings(slug, v)
  OBVIOUS
<1>6. PICK score : score = Lab!Readiness(slug, v)
  OBVIOUS
<1>7. e \in Nat /\ (e = 0 <=> E = {}) /\ w \in 0..3 /\ (w = 0 <=> W = {})
  BY <1>1, <1>2, <1>4, <1>5, FormCounted
<1>8. score = IF 100 - 35 * e - 10 * w - 10 * 0 < 0 THEN 0 ELSE 100 - 35 * e - 10 * w - 10 * 0
  BY <1>3, <1>6
<1>9. (e # 0 <=> score < 70) /\ (e = 0 /\ w = 0 <=> score = 100)
  BY <1>7, <1>8
<1>10. (E # {} <=> score < 70) /\ (E = {} /\ W = {} <=> score = 100)
  BY <1>7, <1>9
<1> QED
  BY <1>4, <1>5, <1>6, <1>10

\* A form without changes holds the defaults, which are ready.
LEMMA UnchangedIsReady ==
  ASSUME NEW slug, NEW v, FitForm(slug, v), Lab!Definitions(slug) # {},
         Lab!Changed(slug, v) = {}
  PROVE  Lab!FormErrors(slug, v) = {} /\ Lab!FormWarnings(slug, v) = {}
<1>1. ASSUME NEW key \in Lab!Definitions(slug)
      PROVE  Lab!Errors(key, v[key]) = {} /\ ~Lab!Warned(key, v[key])
  <2>1. PICK x : v[key] = <<x>>
    BY DEF FitForm
  <2>2. v[key] # <<>>
    BY <2>1
  <2>3. v[key] = <<Lab!Defaults[slug][key]>>
    BY <2>2 DEF Lab!Changed
  <2> QED
    BY <2>3, DefaultsFit
<1> QED
  BY <1>1 DEF Lab!FormErrors, Lab!FormWarnings

\* What is explained are the errors and warnings.
LEMMA ExplainedOrReady ==
  ASSUME NEW slug, NEW v, Lab!Definitions(slug) # {}
  PROVE  Lab!Explained(slug, v) = {} <=>
           Lab!FormErrors(slug, v) = {} /\ Lab!FormWarnings(slug, v) = {}
<1>1. PICK W : W = Lab!FormWarnings(slug, v)
  OBVIOUS
<1>2. PICK E : E = Lab!FormErrors(slug, v)
  OBVIOUS
<1>3. PICK X : X = Lab!Explained(slug, v)
  OBVIOUS
<1>4. X = E \cup (W \X {"recommended"})
  BY <1>1, <1>2, <1>3 DEF Lab!Explained
<1>5. ASSUME NEW w \in W
      PROVE  <<w, "recommended">> \in X
  BY <1>4
<1>6. X = {} <=> E = {} /\ W = {}
  BY <1>4, <1>5
<1> QED
  BY <1>1, <1>2, <1>3, <1>6

\* Observations without an explanation, one after the other.
LEMMA UnexplainedTogether ==
  ASSUME NEW S, NEW s \in Seq(S), NEW t \in Seq(S),
         \A i \in 1..Len(s) : s[i] # "explanation",
         \A i \in 1..Len(t) : t[i] # "explanation"
  PROVE  /\ s \o t \in Seq(S)
         /\ \A i \in 1..Len(s \o t) : (s \o t)[i] # "explanation"
<1>1. /\ s \o t \in Seq(S)
      /\ Len(s \o t) = Len(s) + Len(t)
      /\ \A i \in 1 .. Len(s) + Len(t) : (s \o t)[i] = IF i <= Len(s) THEN s[i] ELSE t[i - Len(s)]
  BY ConcatProperties
<1>2. ASSUME NEW i \in 1..Len(s \o t)
      PROVE  (s \o t)[i] # "explanation"
  <2>1. Len(s) \in Nat /\ Len(t) \in Nat
    BY LenProperties
  <2>2. CASE i <= Len(s)
    <3>1. i \in 1..Len(s)
      BY <1>1, <2>1, <2>2
    <3> QED
      BY <1>1, <2>2, <3>1
  <2>3. CASE ~(i <= Len(s))
    <3>1. PICK j \in 1..Len(t) : j = i - Len(s)
      BY <1>1, <2>1, <2>3
    <3> QED
      BY <1>1, <2>3, <3>1
  <2> QED
    BY <2>2, <2>3
<1> QED
  BY <1>1, <1>2

\* The first three observations include an explanation when there is one.
LEMMA ExplanationShown ==
  ASSUME NEW slug, NEW v
  PROVE  Lab!Explained(slug, v) # {} <=>
           "explanation" \in Lab!ToSet(Lab!TopObservations(slug, v))
<1> DEFINE S == {"invalid", "needs-attention", "ready", "explanation", "behavior", "readiness"}
           Health == Lab!HealthState(slug, v)
           Explanation == IF Lab!Explained(slug, v) = {} THEN <<>> ELSE <<"explanation">>
           Estimates == IF Lab!HasBehavior(slug) THEN <<"behavior">> ELSE <<>>
<1>a. Health \in S /\ Health # "explanation"
  <2>1. \/ Lab!HealthState(slug, v) = "invalid"
        \/ Lab!HealthState(slug, v) = "needs-attention"
        \/ Lab!HealthState(slug, v) = "ready"
    BY DEF Lab!HealthState
  <2> QED
    BY <2>1
<1>b. /\ <<>> \in Seq(S) /\ <<"explanation">> \in Seq(S) /\ <<"behavior">> \in Seq(S)
      /\ <<"readiness">> \in Seq(S) /\ <<Health>> \in Seq(S)
  <2>1. \A x \in S : <<x>> \in Seq(S)
    <3> HIDE DEF S, Health
    <3> QED
      OBVIOUS
  <2>2. <<>> \in Seq(S)
    <3> HIDE DEF S, Health
    <3> QED
      OBVIOUS
  <2>3. "explanation" \in S /\ "behavior" \in S /\ "readiness" \in S
    BY DEF S
  <2> HIDE DEF S, Health
  <2> QED
    BY <2>1, <2>2, <2>3, <1>a
<1>s. (\A n \in 0..1 : 2 \in 1 .. 2 + n /\ 2 + n \in 2..3) /\ (\A n \in 2..3 : 2 \in 1 .. n + 1 /\ n + 1 \in 3..4 /\ 2 <= n)
  OBVIOUS
<1>c. Explanation \in Seq(S)
  <2>1. CASE Lab!Explained(slug, v) = {}
    BY <1>b, <2>1
  <2>2. CASE Lab!Explained(slug, v) # {}
    BY <1>b, <2>2
  <2> QED
    BY <2>1, <2>2
<1>d. Estimates \in Seq(S)
  <2>1. CASE Lab!HasBehavior(slug)
    BY <1>b, <2>1
  <2>2. CASE ~Lab!HasBehavior(slug)
    BY <1>b, <2>2
  <2> QED
    BY <2>1, <2>2
<1> HIDE DEF S, Health, Explanation, Estimates
<1>1. PICK a \in Seq(S) : a = <<Health>>
  BY <1>a, <1>b
<1>2. Len(a) = 1 /\ \A i \in 1..Len(a) : a[i] # "explanation"
  BY <1>1, <1>a
<1>3. PICK b \in Seq(S) : b = Explanation
  BY <1>c
<1>4. PICK c \in Seq(S) : c = Estimates
  BY <1>d
<1>5. Len(c) \in 0..1 /\ \A i \in 1..Len(c) : c[i] # "explanation"
  <2>1. CASE Lab!HasBehavior(slug)
    BY <1>4, <2>1 DEF Estimates
  <2>2. CASE ~Lab!HasBehavior(slug)
    BY <1>4, <2>2 DEF Estimates
  <2> QED
    BY <2>1, <2>2
<1>6. PICK d \in Seq(S) : d = <<"readiness">>
  BY <1>b
<1>7. Len(d) = 1 /\ \A i \in 1..Len(d) : d[i] # "explanation"
  BY <1>6
<1>8. PICK ab \in Seq(S) : ab = a \o b
  BY ConcatProperties
<1>9. PICK abc \in Seq(S) : abc = ab \o c
  BY ConcatProperties
<1>10. PICK all \in Seq(S) : all = abc \o d
  BY ConcatProperties
<1>11. PICK m : m = IF Len(all) < 3 THEN Len(all) ELSE 3
  OBVIOUS
<1>12. Len(all) \in Nat
  BY LenProperties
<1>13. m \in Nat /\ m <= Len(all)
  BY <1>11, <1>12
<1>14. Lab!TopObservations(slug, v) = SubSeq(all, 1, m)
  BY <1>1, <1>3, <1>4, <1>6, <1>8, <1>9, <1>10, <1>11 DEF Lab!TopObservations, Health, Explanation, Estimates
<1>15. PICK top : top = SubSeq(all, 1, m)
  OBVIOUS
<1>16. Len(top) = m /\ DOMAIN top = 1..m /\ \A i \in 1..m : top[i] = all[i]
  <2>1. ASSUME NEW i \in 1..m
        PROVE  all[i] \in S
    <3>1. PICK n \in Nat : n = Len(all)
      BY <1>12
    <3>2. i \in 1..n
      BY <1>13, <3>1
    <3> QED
      BY <3>1, <3>2, ElementOfSeq
  <2>2. /\ top \in Seq(S)
        /\ Len(top) = IF 1 <= m THEN m - 1 + 1 ELSE 0
        /\ \A i \in 1 .. m - 1 + 1 : top[i] = all[1 + i - 1]
    <3>1. PICK one \in Int : one = 1
      OBVIOUS
    <3>2. m \in Int
      BY <1>13
    <3>3. \A i \in one .. m : all[i] \in S
      BY <2>1, <3>1
    <3>4. /\ SubSeq(all, one, m) \in Seq(S)
          /\ Len(SubSeq(all, one, m)) = IF one <= m THEN m - one + 1 ELSE 0
          /\ \A i \in 1 .. m - one + 1 : SubSeq(all, one, m)[i] = all[one + i - 1]
      BY <3>2, <3>3, SubSeqProperties
    <3> QED
      BY <1>15, <3>1, <3>4
  <2>3. Len(top) = m
    BY <1>13, <2>2
  <2>4. ASSUME NEW i \in 1..m
        PROVE  top[i] = all[i]
    <3>1. i \in 1 .. m - 1 + 1 /\ 1 + i - 1 = i
      BY <1>13
    <3> QED
      BY <2>2, <3>1
  <2> QED
    BY <2>2, <2>3, <2>4, LenProperties
<1>17. ASSUME Lab!Explained(slug, v) = {}
       PROVE  "explanation" \notin Lab!ToSet(top)
  <2>1. \A i \in 1..Len(b) : b[i] # "explanation"
    BY <1>3, <1>17 DEF Explanation
  <2>2. \A i \in 1..Len(ab) : ab[i] # "explanation"
    BY <1>2, <1>8, <2>1, UnexplainedTogether
  <2>3. \A i \in 1..Len(abc) : abc[i] # "explanation"
    BY <1>5, <1>9, <2>2, UnexplainedTogether
  <2>4. \A i \in 1..Len(all) : all[i] # "explanation"
    BY <1>7, <1>10, <2>3, UnexplainedTogether
  <2>5. ASSUME NEW i \in DOMAIN top
        PROVE  top[i] # "explanation"
    <3>1. PICK n \in Nat : n = Len(all)
      BY <1>12
    <3>2. i \in 1..m /\ i \in 1..n
      BY <1>13, <1>16, <3>1
    <3> QED
      BY <1>16, <2>4, <3>1, <3>2
  <2> QED
    BY <2>5 DEF Lab!ToSet
<1>18. ASSUME Lab!Explained(slug, v) # {}
       PROVE  "explanation" \in Lab!ToSet(top)
  <2>1. Len(b) = 1 /\ b[1] = "explanation"
    BY <1>3, <1>18 DEF Explanation
  <2>2. /\ Len(ab) = Len(a) + Len(b)
        /\ \A i \in 1 .. Len(a) + Len(b) : ab[i] = IF i <= Len(a) THEN a[i] ELSE b[i - Len(a)]
    BY <1>8, ConcatProperties
  <2>3. Len(ab) = 2 /\ ab[2] = "explanation"
    BY <1>2, <2>1, <2>2
  <2>4. /\ Len(abc) = Len(ab) + Len(c)
        /\ \A i \in 1 .. Len(ab) + Len(c) : abc[i] = IF i <= Len(ab) THEN ab[i] ELSE c[i - Len(ab)]
    BY <1>9, ConcatProperties
  <2>5. Len(abc) \in 2..3 /\ abc[2] = "explanation"
    <3>1. PICK n \in 0..1 : n = Len(c)
      BY <1>5
    <3>2. 2 \in 1 .. 2 + n /\ 2 + n \in 2..3
      BY <1>s
    <3>3. Len(abc) = 2 + n /\ abc[2] = IF 2 <= 2 THEN ab[2] ELSE c[0]
      BY <2>3, <2>4, <3>1, <3>2
    <3> QED
      BY <2>3, <3>2, <3>3
  <2>6. /\ Len(all) = Len(abc) + Len(d)
        /\ \A i \in 1 .. Len(abc) + Len(d) : all[i] = IF i <= Len(abc) THEN abc[i] ELSE d[i - Len(abc)]
    BY <1>10, ConcatProperties
  <2>7. Len(all) \in 3..4 /\ all[2] = "explanation"
    <3>1. PICK n \in 2..3 : n = Len(abc)
      BY <2>5
    <3>2. 2 \in 1 .. n + 1 /\ n + 1 \in 3..4 /\ 2 <= n
      BY <1>s
    <3>3. Len(all) = n + 1 /\ all[2] = abc[2]
      BY <1>7, <2>6, <3>1, <3>2
    <3> QED
      BY <2>5, <3>2, <3>3
  <2>8. 2 \in 1..m
    <3>1. PICK n \in 3..4 : n = Len(all)
      BY <2>7
    <3>2. m = IF n < 3 THEN n ELSE 3
      BY <1>11, <3>1
    <3> QED
      BY <3>1, <3>2
  <2> QED
    BY <1>16, <2>7, <2>8 DEF Lab!ToSet
<1> QED
  BY <1>14, <1>15, <1>17, <1>18

\* What one parameter drives is not estimated in two directions.
LEMMA EstimatesAgree ==
  ASSUME NEW slug, NEW v, FitForm(slug, v), slug \in {"ma_crossover", "breakout"}
  PROVE  <<Lab!Responsiveness(slug, v), Lab!Frequency(slug, v)>>
           \notin {<<"High", "Low">>, <<"Low", "High">>}
<1>1. CASE slug = "ma_crossover"
  <2>1. Lab!Definitions(slug) = {"fast_period", "slow_period", "ma_type"}
    <3>1. slug \in DOMAIN Lab!Defaults /\ DOMAIN Lab!Defaults["ma_crossover"] = {"fast_period", "slow_period", "ma_type"}
      BY <1>1 DEF Lab!Defaults
    <3> QED
      BY <1>1, <3>1 DEF Lab!Definitions
  <2>2. Lab!IsNumeric("fast_period")
    <3>1. Lab!Metadata["fast_period"] = [kind |-> "integer", least |-> 200, most |-> 20000, low |-> 500, high |-> 3000]
      BY DEF Lab!Metadata, Lab!Numeric, Lab!Whole, Lab!Percent, Lab!OneOf
    <3> QED
      BY <3>1 DEF Lab!IsNumeric
  <2>3. PICK x \in Int : x = v.fast_period[1]
    BY <2>1, <2>2 DEF FitForm, Numbered
  <2>4. Lab!Responsiveness(slug, v) = IF x <= 1000 THEN "High" ELSE IF x >= 3500 THEN "Low" ELSE "Medium"
    BY <1>1, <2>3 DEF Lab!Responsiveness, Lab!Against
  <2>5. Lab!Frequency(slug, v) = IF x <= 1200 THEN "High" ELSE IF x >= 3000 THEN "Low" ELSE "Medium"
    BY <1>1, <2>3 DEF Lab!Frequency, Lab!Against
  <2> QED
    BY <2>4, <2>5
<1>2. CASE slug = "breakout"
  <2>1. Lab!Definitions(slug) = {"lookback", "volume_confirmation", "min_volume_multiple"}
    <3>1. slug \in DOMAIN Lab!Defaults /\ DOMAIN Lab!Defaults["breakout"] = {"lookback", "volume_confirmation", "min_volume_multiple"}
      BY <1>2 DEF Lab!Defaults
    <3> QED
      BY <1>2, <3>1 DEF Lab!Definitions
  <2>2. Lab!IsNumeric("lookback")
    <3>1. Lab!Metadata["lookback"] = [kind |-> "integer", least |-> 200, most |-> 30000, low |-> 1000, high |-> 6000]
      BY DEF Lab!Metadata, Lab!Numeric, Lab!Whole, Lab!Percent, Lab!OneOf
    <3> QED
      BY <3>1 DEF Lab!IsNumeric
  <2>3. PICK x \in Int : x = v.lookback[1]
    BY <2>1, <2>2 DEF FitForm, Numbered
  <2>5. Lab!Responsiveness(slug, v) = IF x <= 1200 THEN "High" ELSE IF x >= 4000 THEN "Low" ELSE "Medium"
    BY <1>2, <2>3 DEF Lab!Responsiveness, Lab!Against
  <2>6. PICK frequency : frequency = Lab!Frequency(slug, v)
    OBVIOUS
  <2>7. \/ x <= 1500 /\ frequency = "High"
        \/ x <= 3000 /\ frequency = "Medium"
        \/ ~(x <= 3000) /\ frequency = "Low"
    BY <1>2, <2>3, <2>6 DEF Lab!Frequency
  <2> QED
    BY <2>5, <2>6, <2>7
<1> QED
  BY <1>1, <1>2

\* The coach of a form that holds a value for each parameter does not contradict itself.
LEMMA CoachRanks ==
  ASSUME NEW slug, NEW v, FitForm(slug, v)
  PROVE  LET coach == Lab!CoachCards(slug, v, TRUE) IN
         /\ coach.health = "invalid" <=> coach.readiness < 70
         /\ coach.health = "ready" <=> coach.readiness = 100
         /\ Lab!Definitions(slug) # {} =>
              /\ DOMAIN coach.changes = {} => coach.readiness = 100
              /\ coach.health = "ready" <=> coach.why = {}
              /\ coach.health # "ready" <=> "explanation" \in Lab!ToSet(coach.know)
         /\ slug \in {"ma_crossover", "breakout"} =>
              <<coach.behavior[1].responsiveness, coach.behavior[1].frequency>>
                \notin {<<"High", "Low">>, <<"Low", "High">>}
<1> DEFINE coach == Lab!CoachCards(slug, v, TRUE)
<1>1. coach.health = Lab!HealthState(slug, v) /\ coach.readiness = Lab!Readiness(slug, v)
  BY DEF Lab!CoachCards
<1>2. coach.why = Lab!Explained(slug, v) /\ coach.know = Lab!TopObservations(slug, v)
  BY DEF Lab!CoachCards
<1>3. DOMAIN coach.changes = Lab!Changed(slug, v)
  BY DEF Lab!CoachCards
<1>4. slug \in {"ma_crossover", "breakout"} =>
        /\ coach.behavior[1].responsiveness = Lab!Responsiveness(slug, v)
        /\ coach.behavior[1].frequency = Lab!Frequency(slug, v)
  BY DEF Lab!CoachCards, Lab!Behavior, Lab!HasBehavior
<1> HIDE DEF coach
<1>5. Lab!HealthState(slug, v) = "invalid" <=> Lab!FormErrors(slug, v) # {}
  BY DEF Lab!HealthState
<1>6. Lab!HealthState(slug, v) = "ready" <=> Lab!FormErrors(slug, v) = {} /\ Lab!FormWarnings(slug, v) = {}
  BY DEF Lab!HealthState
<1>7. coach.health = "invalid" <=> coach.readiness < 70
  BY <1>1, <1>5, ScoreRanks
<1>8. coach.health = "ready" <=> coach.readiness = 100
  BY <1>1, <1>6, ScoreRanks
<1>9. ASSUME Lab!Definitions(slug) # {}
      PROVE  /\ DOMAIN coach.changes = {} => coach.readiness = 100
             /\ coach.health = "ready" <=> coach.why = {}
             /\ coach.health # "ready" <=> "explanation" \in Lab!ToSet(coach.know)
  <2>1. DOMAIN coach.changes = {} => coach.readiness = 100
    BY <1>1, <1>3, <1>6, <1>8, <1>9, UnchangedIsReady
  <2>2. coach.health = "ready" <=> coach.why = {}
    BY <1>1, <1>2, <1>6, <1>9, ExplainedOrReady
  <2>3. coach.health # "ready" <=> "explanation" \in Lab!ToSet(coach.know)
    BY <1>2, <2>2, ExplanationShown
  <2> QED
    BY <2>1, <2>2, <2>3
<1>10. slug \in {"ma_crossover", "breakout"} =>
        <<coach.behavior[1].responsiveness, coach.behavior[1].frequency>>
          \notin {<<"High", "Low">>, <<"Low", "High">>}
  BY <1>4, EstimatesAgree
<1>11. /\ coach.health = "invalid" <=> coach.readiness < 70
       /\ coach.health = "ready" <=> coach.readiness = 100
       /\ Lab!Definitions(slug) # {} =>
            /\ DOMAIN coach.changes = {} => coach.readiness = 100
            /\ coach.health = "ready" <=> coach.why = {}
            /\ coach.health # "ready" <=> "explanation" \in Lab!ToSet(coach.know)
       /\ slug \in {"ma_crossover", "breakout"} =>
            <<coach.behavior[1].responsiveness, coach.behavior[1].frequency>>
              \notin {<<"High", "Low">>, <<"Low", "High">>}
  BY <1>7, <1>8, <1>9, <1>10
<1> QED
  BY <1>11 DEF coach

----------------------------------------------------------------------------
(* The comparison.  A run has five metrics, each a number or none.          *)

Metrics == {"trades", "totalReturn", "winRate", "maxDrawdown", "feeDrag"}

Measured(run) ==
  /\ DOMAIN run.metrics = Metrics
  /\ \A metric \in Metrics :
       run.metrics[metric] = <<>> \/ \E x \in Int : run.metrics[metric] = <<x>>

Metered(runs) ==
  /\ \E n \in Nat : DOMAIN runs = 1..n
  /\ \A i \in DOMAIN runs : Measured(runs[i])

\* The runs that have a metric are finitely many, with numbers.
LEMMA KnownNumbers ==
  ASSUME NEW runs, Metered(runs), NEW metric \in Metrics
  PROVE  LET known == Lab!Known(runs, metric) IN
         /\ known \subseteq DOMAIN runs /\ known \in SUBSET Nat /\ IsFiniteSet(known)
         /\ \A i \in known : Lab!Value(runs, metric, i) \in Int
         /\ \A i \in known : Lab!Magnitude(runs, metric, i) \in Nat
<1>1. PICK n \in Nat : DOMAIN runs = 1..n
  BY DEF Metered
<1>2. PICK known : known = Lab!Known(runs, metric)
  OBVIOUS
<1>3. known \subseteq DOMAIN runs
  BY <1>2 DEF Lab!Known
<1>4. IsFiniteSet(known)
  <2>1. IsFiniteSet(1..n)
    BY FS_Interval
  <2> QED
    BY <1>1, <1>3, <2>1, FS_Subset
<1>5. known \in SUBSET Nat
  BY <1>1, <1>3
<1>6. ASSUME NEW i \in known
      PROVE  Lab!Value(runs, metric, i) \in Int
  <2>1. runs[i].metrics[metric] # <<>>
    BY <1>2 DEF Lab!Known, Lab!Null
  <2>2. PICK x \in Int : runs[i].metrics[metric] = <<x>>
    BY <1>3, <2>1 DEF Metered, Measured
  <2> QED
    BY <2>2 DEF Lab!Value
<1>7. ASSUME NEW i \in known
      PROVE  Lab!Magnitude(runs, metric, i) \in Nat
  <2>1. PICK x \in Int : x = Lab!Value(runs, metric, i)
    BY <1>6
  <2> QED
    BY <2>1 DEF Lab!Magnitude
<1> QED
  BY <1>2, <1>3, <1>4, <1>5, <1>6, <1>7

\* Where some run has a metric, the winner is one with the extreme value.
LEMMA WinnerIsExtreme ==
  ASSUME NEW runs, Metered(runs), NEW metric \in Metrics, NEW mode \in {"max", "min"}
  PROVE  \/ Lab!PickWinner(runs, metric, mode) = <<>>
         \/ \E w \in Lab!Extreme(runs, metric, mode) : Lab!PickWinner(runs, metric, mode) = <<w>>
<1> DEFINE known == Lab!Known(runs, metric)
           values == {Lab!Value(runs, metric, i) : i \in known}
           extreme == Lab!Extreme(runs, metric, mode)
<1>1. known \in SUBSET Nat /\ IsFiniteSet(known)
  BY KnownNumbers
<1>2. \A i \in known : Lab!Value(runs, metric, i) \in Int
  BY KnownNumbers
<1>3. CASE known = {}
  BY <1>3 DEF Lab!PickWinner, Lab!Null
<1>4. CASE known # {}
  <2>1. IsFiniteSet(values)
    <3> DEFINE value == [i \in known |-> Lab!Value(runs, metric, i)]
    <3> HIDE DEF known
    <3>1. value \in Surjection(known, values)
      BY DEF Surjection
    <3> HIDE DEF value, values
    <3> QED
      BY <1>1, <3>1, FS_Surjection
  <2>2. values # {} /\ Integral(values)
    <3> HIDE DEF known
    <3> QED
      BY <1>2, <1>4 DEF Integral
  <2>3. extreme # {}
    <3>1. CASE mode = "max"
      <4> HIDE DEF values
      <4>1. PICK m \in values : \A x \in values : m >= x
        BY <2>1, <2>2, FiniteMax
      <4>2. PICK i \in known : Lab!Value(runs, metric, i) = m
        BY DEF values
      <4>3. ASSUME NEW j \in known
            PROVE  Lab!Value(runs, metric, i) >= Lab!Value(runs, metric, j)
        <5>1. Lab!Value(runs, metric, j) \in values
          BY DEF values
        <5> HIDE DEF known
        <5> QED
          BY <4>1, <4>2, <5>1
      <4>4. i \in extreme
        BY <3>1, <4>3 DEF Lab!Extreme
      <4> QED
        BY <4>4
    <3>2. CASE mode = "min"
      <4> HIDE DEF values
      <4>1. PICK m \in values : \A x \in values : m <= x
        BY <2>1, <2>2, FiniteMin
      <4>2. PICK i \in known : Lab!Value(runs, metric, i) = m
        BY DEF values
      <4>3. ASSUME NEW j \in known
            PROVE  Lab!Value(runs, metric, i) <= Lab!Value(runs, metric, j)
        <5>1. Lab!Value(runs, metric, j) \in values
          BY DEF values
        <5> HIDE DEF known
        <5> QED
          BY <4>1, <4>2, <5>1
      <4>4. i \in extreme
        BY <3>2, <4>3 DEF Lab!Extreme
      <4> QED
        BY <4>4
    <3> QED
      BY <3>1, <3>2
  <2>4. extreme \in SUBSET Nat
    <3>1. extreme \subseteq known
      BY DEF Lab!Extreme
    <3> HIDE DEF extreme, known
    <3> QED
      BY <1>1, <3>1
  <2>5. \E m \in extreme : \A x \in extreme : m <= x
    <3> HIDE DEF extreme
    <3> QED
      BY <2>3, <2>4, LeastNat
  <2>6. Lab!Min(extreme) \in extreme
    <3> HIDE DEF extreme
    <3> QED
      BY <2>5 DEF Lab!Min
  <2>7. Lab!PickWinner(runs, metric, mode) = <<Lab!Min(extreme)>>
    BY <1>4 DEF Lab!PickWinner
  <2> HIDE DEF extreme
  <2>8. \E w \in extreme : Lab!PickWinner(runs, metric, mode) = <<w>>
    BY <2>6, <2>7
  <2> QED
    BY <2>8 DEF extreme
<1> QED
  BY <1>3, <1>4

\* A quotient: how often the divisor fits, and what remains.
LEMMA Quotient ==
  ASSUME NEW a \in Nat, NEW b \in Nat, b > 0
  PROVE  /\ a \div b \in Nat
         /\ \E r \in 0..(b - 1) : a = b * (a \div b) + r
<1>1. a = b * (a \div b) + (a % b)
  OBVIOUS
<1>2. a % b \in 0..(b - 1)
  OBVIOUS
<1>3. a \div b \in Nat
  OBVIOUS
<1> QED
  BY <1>1, <1>2, <1>3

\* It grows with what is divided.
LEMMA QuotientGrows ==
  ASSUME NEW a \in Nat, NEW c \in Nat, NEW b \in Nat, b > 0, a <= c
  PROVE  a \div b <= c \div b
<1>1. PICK q \in Nat : q = a \div b
  BY Quotient
<1>2. PICK p \in Nat : p = c \div b
  BY Quotient
<1>3. PICK r \in 0..(b - 1) : a = b * q + r
  BY <1>1, Quotient
<1>4. PICK s \in 0..(b - 1) : c = b * p + s
  BY <1>2, Quotient
<1>5. ASSUME q > p
      PROVE  FALSE
  <2>1. PICK d \in Nat : q = p + 1 + d
    BY <1>5
  <2>2. b * q = b * p + b + b * d
    BY <2>1
  <2>3. b * d >= 0
    OBVIOUS
  <2>4. a >= b * p + b
    BY <1>3, <2>2, <2>3
  <2>5. c < b * p + b
    BY <1>4
  <2>6. b * p \in Int
    OBVIOUS
  <2> QED
    BY <2>4, <2>5, <2>6
<1> QED
  BY <1>1, <1>2, <1>5

\* A share of the greatest, in percent and rounded half up, is at most 100 and grows
\* with what it is the share of.
Share(m, top) == (200 * m + top) \div (2 * top)

LEMMA SharesGrow ==
  ASSUME NEW top \in Nat, top > 0, NEW m \in 0..top, NEW n \in 0..top
  PROVE  /\ Share(m, top) \in 0..100
         /\ m <= n => Share(m, top) <= Share(n, top)
<1>1. PICK b \in Nat : b = 2 * top /\ b > 0
  OBVIOUS
<1>2. PICK a \in Nat : a = 200 * m + top
  OBVIOUS
<1>3. PICK c \in Nat : c = 200 * n + top
  OBVIOUS
<1>4. Share(m, top) = a \div b /\ Share(n, top) = c \div b
  BY <1>1, <1>2, <1>3 DEF Share
<1>5. m <= n => a <= c
  BY <1>2, <1>3
<1>6. m <= n => a \div b <= c \div b
  BY <1>1, <1>5, QuotientGrows
<1>7. PICK q \in Nat : q = a \div b
  BY <1>1, Quotient
<1>8. PICK r \in 0..(b - 1) : a = b * q + r
  BY <1>1, <1>7, Quotient
<1>9. q <= 100
  <2>1. ASSUME q > 100
        PROVE  FALSE
    <3>1. PICK d \in Nat : q = 101 + d
      BY <2>1
    <3>2. b * q = 101 * b + b * d
      BY <3>1
    <3>3. b * d \in Nat
      OBVIOUS
    <3>4. a >= 101 * b
      BY <1>8, <3>2, <3>3
    <3> QED
      BY <1>1, <1>2, <3>4
  <2> QED
    BY <2>1
<1> QED
  BY <1>4, <1>6, <1>7, <1>9

\* The greatest of a finite set of numbers.
LEMMA Greatest ==
  ASSUME NEW S, Integral(S), IsFiniteSet(S), S # {}
  PROVE  Lab!Max(S) \in S /\ \A x \in S : Lab!Max(S) >= x
<1>1. \E m \in S : \A x \in S : m >= x
  BY FiniteMax
<1> QED
  BY <1>1 DEF Lab!Max

\* A width is at most 100, and a longer bar stands for a greater magnitude.
LEMMA WidthsFollow ==
  ASSUME NEW runs, Metered(runs), NEW metric \in Metrics,
         NEW i \in Lab!Known(runs, metric), NEW j \in Lab!Known(runs, metric)
  PROVE  LET widths == Lab!Widths(runs, metric) IN
         /\ widths[i] <= 100
         /\ widths[i] > widths[j] => Lab!Magnitude(runs, metric, i) > Lab!Magnitude(runs, metric, j)
<1> DEFINE known == Lab!Known(runs, metric)
           magnitudes == {Lab!Magnitude(runs, metric, k) : k \in known}
           all == magnitudes \cup {0}
           Width(m, top) == Lab!Max({8, Share(m, top)})
<1>1. IsFiniteSet(known) /\ known \subseteq DOMAIN runs
  BY KnownNumbers
<1>2. \A k \in known : Lab!Magnitude(runs, metric, k) \in Nat
  BY KnownNumbers
<1>3. IsFiniteSet(magnitudes)
  <2> DEFINE magnitude == [k \in known |-> Lab!Magnitude(runs, metric, k)]
  <2> HIDE DEF known
  <2>1. magnitude \in Surjection(known, magnitudes)
    BY DEF Surjection
  <2> HIDE DEF magnitude, magnitudes
  <2> QED
    BY <1>1, <2>1, FS_Surjection
<1>4. IsFiniteSet(all)
  <2> HIDE DEF magnitudes
  <2> QED
    BY <1>3, FS_AddElement
<1>5. Integral(all) /\ all # {}
  <2> HIDE DEF known
  <2> QED
    BY <1>2 DEF Integral
<1>6. Lab!Max(all) \in all /\ \A x \in all : Lab!Max(all) >= x
  <2> HIDE DEF all
  <2> QED
    BY <1>4, <1>5, Greatest
<1>7. PICK top : top = Lab!Max(all)
  OBVIOUS
<1>8. top \in Nat /\ \A k \in known : Lab!Magnitude(runs, metric, k) <= top
  <2> HIDE DEF known
  <2>1. top \in Int /\ top >= 0
    BY <1>5, <1>6, <1>7 DEF Integral
  <2>2. ASSUME NEW k \in known
        PROVE  Lab!Magnitude(runs, metric, k) <= top
    <3>1. Lab!Magnitude(runs, metric, k) \in all
      OBVIOUS
    <3>2. PICK x \in Nat : x = Lab!Magnitude(runs, metric, k)
      BY <1>2
    <3>3. top >= x
      BY <1>6, <1>7, <3>1, <3>2
    <3> QED
      BY <2>1, <3>2, <3>3
  <2> QED
    BY <2>1, <2>2
<1>9. PICK m \in 0..top : m = Lab!Magnitude(runs, metric, i)
  BY <1>2, <1>8
<1>10. PICK n \in 0..top : n = Lab!Magnitude(runs, metric, j)
  BY <1>2, <1>8
<1>11. CASE top = 0
  <2>1. Lab!Widths(runs, metric)[i] = 0 /\ Lab!Widths(runs, metric)[j] = 0
    BY <1>1, <1>7, <1>11 DEF Lab!Widths
  <2> QED
    BY <2>1
<1>12. CASE top > 0
  <2>1. Lab!Widths(runs, metric)[i] = Width(m, top)
    BY <1>1, <1>7, <1>9, <1>12 DEF Lab!Widths, Share
  <2>2. Lab!Widths(runs, metric)[j] = Width(n, top)
    BY <1>1, <1>7, <1>10, <1>12 DEF Lab!Widths, Share
  <2>3. /\ Share(m, top) \in 0..100 /\ Share(n, top) \in 0..100
        /\ m <= n => Share(m, top) <= Share(n, top)
    <3>1. Share(m, top) \in 0..100 /\ (m <= n => Share(m, top) <= Share(n, top))
      BY <1>8, <1>12, SharesGrow
    <3>2. Share(n, top) \in 0..100
      BY <1>8, <1>12, SharesGrow
    <3> QED
      BY <3>1, <3>2
  <2>4. PICK a \in 0..100 : a = Share(m, top)
    BY <2>3
  <2>5. PICK b \in 0..100 : b = Share(n, top)
    BY <2>3
  <2>6. ASSUME NEW x \in 0..100
        PROVE  Lab!Max({8, x}) = IF x >= 8 THEN x ELSE 8
    BY DEF Lab!Max
  <2>7. Width(m, top) = IF a >= 8 THEN a ELSE 8
    BY <2>4, <2>6
  <2>8. Width(n, top) = IF b >= 8 THEN b ELSE 8
    BY <2>5, <2>6
  <2>9. m <= n => a <= b
    BY <2>3, <2>4, <2>5
  <2> HIDE DEF Width, all, magnitudes, known
  <2>10. Width(m, top) <= 100 /\ (Width(m, top) > Width(n, top) => m > n)
    BY <2>7, <2>8, <2>9
  <2> QED
    BY <1>9, <1>10, <2>1, <2>2, <2>10
<1> QED
  BY <1>8, <1>11, <1>12

\* Of runs that were measured, the differences agree with the badges, the badges are
\* for metrics shown, and the bars are drawn to their magnitudes.
LEMMA ComparisonHolds ==
  ASSUME NEW runs, Metered(runs)
  PROVE  LET comparison == Lab!ComparisonCards(runs)
             insights == Lab!InsightsWorkspace(runs)
         IN
         /\ comparison # Lab!Null =>
              LET cards == comparison[1].cards differences == comparison[1].differences IN
              /\ differences.maxDrawdown # Lab!Null =>
                   "maxDrawdown" \in cards[differences.maxDrawdown[1]].badges
              /\ differences.feeDrag # Lab!Null => "feeDrag" \notin cards[differences.feeDrag[1]].badges
              /\ \A i \in DOMAIN cards : cards[i].badges \subseteq cards[i].shown
         /\ insights # Lab!Null =>
              \A metric \in DOMAIN insights[1].bars : \A i, j \in Lab!Known(runs, metric) :
                LET widths == insights[1].bars[metric] IN
                /\ widths[i] <= 100
                /\ widths[i] > widths[j] => Lab!Magnitude(runs, metric, i) > Lab!Magnitude(runs, metric, j)
<1> DEFINE comparison == Lab!ComparisonCards(runs)
           insights == Lab!InsightsWorkspace(runs)
           winners == Lab!Winners(runs)
           differences == Lab!KeyDifferences(runs)
           cards == [i \in DOMAIN runs |-> Lab!ComparisonCard(runs, i)]
<1>1. DOMAIN winners = {"totalReturn", "winRate", "maxDrawdown", "feeDrag"} /\ DOMAIN winners \subseteq Metrics
  BY DEF Lab!Winners, Metrics
<1>2. winners.maxDrawdown = Lab!PickWinner(runs, "maxDrawdown", "min")
  BY DEF Lab!Winners
<1>3. winners.feeDrag = Lab!PickWinner(runs, "feeDrag", "min")
  BY DEF Lab!Winners
<1>4. ASSUME NEW metric \in DOMAIN winners
      PROVE  \E mode \in {"max", "min"} : winners[metric] = Lab!PickWinner(runs, metric, mode)
  BY <1>1 DEF Lab!Winners
<1>5. ASSUME NEW metric \in DOMAIN winners, NEW w, winners[metric] = <<w>>
      PROVE  w \in Lab!Known(runs, metric)
  <2>1. PICK mode \in {"max", "min"} : winners[metric] = Lab!PickWinner(runs, metric, mode)
    BY <1>4
  <2>2. metric \in Metrics
    BY <1>1
  <2> HIDE DEF winners
  <2>3. Lab!PickWinner(runs, metric, mode) # <<>>
    <3>1. <<w>> # <<>>
      OBVIOUS
    <3> QED
      BY Zenon, <1>5, <2>1, <3>1
  <2>4. PICK x \in Lab!Extreme(runs, metric, mode) : Lab!PickWinner(runs, metric, mode) = <<x>>
    BY <2>2, <2>3, WinnerIsExtreme
  <2>5. x = w
    BY <1>5, <2>1, <2>4
  <2> QED
    BY <2>4, <2>5 DEF Lab!Extreme
<1>6. ASSUME NEW i \in DOMAIN runs
      PROVE  /\ cards[i].badges = {metric \in DOMAIN winners : winners[metric] = <<i>>}
             /\ cards[i].shown = {metric \in DOMAIN runs[i].metrics : runs[i].metrics[metric] # Lab!Null}
  BY DEF Lab!ComparisonCard
<1>7. comparison # Lab!Null =>
        comparison[1].cards = cards /\ comparison[1].differences = differences
  BY DEF Lab!ComparisonCards
<1>8. insights # Lab!Null =>
        insights[1].bars = [metric \in DOMAIN winners |-> Lab!Widths(runs, metric)]
  BY DEF Lab!InsightsWorkspace
<1>9. ASSUME NEW metric \in Metrics, NEW w \in Lab!Known(runs, metric)
      PROVE  w \in DOMAIN runs
  BY KnownNumbers
<1>10. ASSUME differences.maxDrawdown # Lab!Null
       PROVE  "maxDrawdown" \in cards[differences.maxDrawdown[1]].badges
  <2>1. differences.maxDrawdown = Lab!PickWinner(runs, "maxDrawdown", "min")
    BY <1>10 DEF Lab!KeyDifferences, Lab!Distinguished
  <2>2. PICK metric \in Metrics : metric = "maxDrawdown"
    BY DEF Metrics
  <2>3. PICK mode \in {"max", "min"} : mode = "min"
    OBVIOUS
  <2>4. PICK w \in Lab!Extreme(runs, metric, mode) : Lab!PickWinner(runs, metric, mode) = <<w>>
    BY <1>10, <2>1, <2>2, <2>3, WinnerIsExtreme DEF Lab!Null
  <2>5. w \in Lab!Known(runs, metric)
    BY <2>4 DEF Lab!Extreme
  <2>6. w \in DOMAIN runs
    BY <1>9, <2>5
  <2>7. differences.maxDrawdown[1] = w /\ winners["maxDrawdown"] = <<w>>
    BY <1>2, <2>1, <2>2, <2>3, <2>4
  <2> HIDE DEF winners, differences, cards
  <2> QED
    BY <1>1, <1>6, <2>6, <2>7
<1>11. ASSUME differences.feeDrag # Lab!Null
       PROVE  "feeDrag" \notin cards[differences.feeDrag[1]].badges
  <2>1. /\ differences.feeDrag = Lab!PickWinner(runs, "feeDrag", "max")
        /\ Lab!Extreme(runs, "feeDrag", "max") # Lab!Extreme(runs, "feeDrag", "min")
    BY <1>11 DEF Lab!KeyDifferences, Lab!Distinguished
  <2>2. PICK metric \in Metrics : metric = "feeDrag"
    BY DEF Metrics
  <2>3. PICK most \in {"max", "min"} : most = "max"
    OBVIOUS
  <2>4. PICK least \in {"max", "min"} : least = "min"
    OBVIOUS
  <2>5. PICK w \in Lab!Extreme(runs, metric, most) : Lab!PickWinner(runs, metric, most) = <<w>>
    BY <1>11, <2>1, <2>2, <2>3, WinnerIsExtreme DEF Lab!Null
  <2>6. w \in Lab!Known(runs, metric)
    BY <2>5 DEF Lab!Extreme
  <2>7. w \in DOMAIN runs
    BY <1>9, <2>6
  <2>8. differences.feeDrag[1] = w
    BY <2>1, <2>2, <2>3, <2>5
  <2>9. ASSUME winners["feeDrag"] = <<w>>
        PROVE  FALSE
    <3>1. Lab!PickWinner(runs, metric, least) = <<w>>
      BY <1>3, <2>2, <2>4, <2>9
    <3> HIDE DEF winners, differences, cards
    <3>2. Lab!PickWinner(runs, metric, least) # <<>>
      BY <3>1
    <3>3. PICK u \in Lab!Extreme(runs, metric, least) : Lab!PickWinner(runs, metric, least) = <<u>>
      BY <3>2, WinnerIsExtreme
    <3>4. u = w
      BY <3>1, <3>3
    <3>5. \A k \in Lab!Known(runs, metric) : Lab!Value(runs, metric, k) \in Int
      BY KnownNumbers
    <3>6. \A k \in Lab!Known(runs, metric) : Lab!Value(runs, metric, w) >= Lab!Value(runs, metric, k)
      BY <2>3, <2>5 DEF Lab!Extreme
    <3>7. \A k \in Lab!Known(runs, metric) : Lab!Value(runs, metric, w) <= Lab!Value(runs, metric, k)
      BY <2>4, <3>3, <3>4 DEF Lab!Extreme
    <3>8. \A k \in Lab!Known(runs, metric) : Lab!Value(runs, metric, k) = Lab!Value(runs, metric, w)
      BY <2>6, <3>5, <3>6, <3>7
    <3>9. Lab!Extreme(runs, metric, most) = Lab!Known(runs, metric)
      BY <2>3, <2>6, <3>5, <3>8 DEF Lab!Extreme
    <3>10. Lab!Extreme(runs, metric, least) = Lab!Known(runs, metric)
      BY <2>4, <2>6, <3>5, <3>8 DEF Lab!Extreme
    <3> QED
      BY <2>1, <2>2, <2>3, <2>4, <3>9, <3>10
  <2> HIDE DEF winners, differences, cards
  <2> QED
    BY <1>6, <2>7, <2>8, <2>9
<1>12. ASSUME NEW i \in DOMAIN cards
       PROVE  cards[i].badges \subseteq cards[i].shown
  <2>1. i \in DOMAIN runs
    OBVIOUS
  <2>2. ASSUME NEW metric \in DOMAIN winners, winners[metric] = <<i>>
        PROVE  metric \in DOMAIN runs[i].metrics /\ runs[i].metrics[metric] # Lab!Null
    <3>1. i \in Lab!Known(runs, metric)
      BY <1>5, <2>2
    <3>2. DOMAIN runs[i].metrics = Metrics
      BY <2>1 DEF Metered, Measured
    <3> HIDE DEF winners
    <3> QED
      BY <1>1, <3>1, <3>2 DEF Lab!Known
  <2> HIDE DEF winners, cards
  <2> QED
    BY <1>6, <2>1, <2>2
<1>13. ASSUME insights # Lab!Null, NEW metric \in DOMAIN insights[1].bars,
              NEW i \in Lab!Known(runs, metric), NEW j \in Lab!Known(runs, metric)
       PROVE  LET widths == insights[1].bars[metric] IN
              /\ widths[i] <= 100
              /\ widths[i] > widths[j] => Lab!Magnitude(runs, metric, i) > Lab!Magnitude(runs, metric, j)
  <2> HIDE DEF insights, winners
  <2>1. metric \in Metrics /\ insights[1].bars[metric] = Lab!Widths(runs, metric)
    BY <1>1, <1>8, <1>13
  <2> QED
    BY <2>1, WidthsFollow
<1> HIDE DEF comparison, insights, differences, cards
<1>14. comparison # Lab!Null =>
         /\ comparison[1].differences.maxDrawdown # Lab!Null =>
              "maxDrawdown" \in comparison[1].cards[comparison[1].differences.maxDrawdown[1]].badges
         /\ comparison[1].differences.feeDrag # Lab!Null =>
              "feeDrag" \notin comparison[1].cards[comparison[1].differences.feeDrag[1]].badges
         /\ \A i \in DOMAIN comparison[1].cards : comparison[1].cards[i].badges \subseteq comparison[1].cards[i].shown
  BY <1>7, <1>10, <1>11, <1>12
<1> QED
  BY <1>13, <1>14 DEF comparison, insights

\* The API's backtests: measured, each with an id of its own.
RunsMeasured ==
  /\ Backtests \in Seq(Range(Backtests))
  /\ \A i, j \in DOMAIN Backtests : Backtests[i].id = Backtests[j].id => i = j
  /\ \A i \in DOMAIN Backtests : Measured(Backtests[i])

\* Runs drawn from them, in any order.
Drawn(runs) ==
  /\ \E n \in Nat : DOMAIN runs = 1..n
  /\ runs = [k \in DOMAIN runs |-> runs[k]]
  /\ \A k \in DOMAIN runs : \E i \in DOMAIN Backtests : runs[k] = Backtests[i]

\* What a log entry holds of the runs that were compared.
Logged(entry) ==
  \E runs :
    /\ Drawn(runs)
    /\ entry.runs = [i \in DOMAIN runs |-> runs[i].id]
    /\ entry.observations = Lab!Observations(runs)

\* Runs that are drawn are measured.
LEMMA DrawnMetered ==
  ASSUME RunsMeasured, NEW runs, Drawn(runs)
  PROVE  Metered(runs)
BY DEF RunsMeasured, Drawn, Metered

\* Runs kept among runs that are drawn are drawn.
LEMMA KeptDrawn ==
  ASSUME NEW runs, Drawn(runs), NEW I, I \subseteq DOMAIN runs
  PROVE  Drawn(Lab!Kept(runs, I))
<1>1. PICK n \in Nat : DOMAIN runs = 1..n
  BY DEF Drawn
<1>2. I \in SUBSET (1..n)
  BY <1>1
<1>3. PICK m : m = Keeping(runs, I)
  OBVIOUS
<1>4. Cardinality(I) \in Nat /\ DOMAIN m = 1..Cardinality(I) /\ Enumerated(m, runs, I)
  BY <1>2, <1>3, KeepingProperties
<1>5. \A k \in DOMAIN m : \E i \in I : m[k] = runs[i]
  BY <1>4 DEF Enumerated
<1>6. m = [k \in DOMAIN m |-> m[k]]
  BY <1>3 DEF Keeping
<1>7. Drawn(m)
  BY <1>4, <1>5, <1>6 DEF Drawn
<1> QED
  BY <1>3, <1>7, SameCounts

\* The completed runs of the list are.
LEMMA CompletedDrawn ==
  ASSUME RunsMeasured
  PROVE  Drawn(Lab!Completed(Backtests)) /\ Drawn(<<>>)
<1>1. Drawn(Backtests)
  <2>1. Len(Backtests) \in Nat /\ DOMAIN Backtests = 1..Len(Backtests)
    BY LenProperties DEF RunsMeasured
  <2>2. Backtests = [k \in DOMAIN Backtests |-> Backtests[k]]
    BY DEF RunsMeasured
  <2> QED
    BY <2>1, <2>2 DEF Drawn
<1>2. Drawn(Lab!Completed(Backtests))
  <2> DEFINE I == {i \in DOMAIN Backtests : Backtests[i].status = "completed"}
  <2>1. I \subseteq DOMAIN Backtests
    OBVIOUS
  <2>2. Lab!Completed(Backtests) = Lab!Kept(Backtests, I)
    BY DEF Lab!Completed
  <2> HIDE DEF I
  <2> QED
    BY <1>1, <2>1, <2>2, KeptDrawn
<1>3. Drawn(<<>>)
  BY DEF Drawn
<1> QED
  BY <1>2, <1>3

\* Runs with the same ids are the same runs, and their observations agree.
LEMMA LogAgrees ==
  ASSUME RunsMeasured, NEW runs, Drawn(runs), NEW entry, Logged(entry),
         entry.runs = [i \in DOMAIN runs |-> runs[i].id]
  PROVE  entry.observations = Lab!Observations(runs)
<1>1. PICK then :
        /\ Drawn(then)
        /\ entry.runs = [i \in DOMAIN then |-> then[i].id]
        /\ entry.observations = Lab!Observations(then)
  BY DEF Logged
<1>2. DOMAIN then = DOMAIN runs
  <2>1. DOMAIN [i \in DOMAIN then |-> then[i].id] = DOMAIN then
    OBVIOUS
  <2>2. DOMAIN [i \in DOMAIN runs |-> runs[i].id] = DOMAIN runs
    OBVIOUS
  <2> QED
    BY Zenon, <1>1, <2>1, <2>2
<1>3. ASSUME NEW k \in DOMAIN runs
      PROVE  then[k] = runs[k]
  <2>1. then[k].id = runs[k].id
    BY <1>1, <1>2
  <2>2. PICK i \in DOMAIN Backtests : runs[k] = Backtests[i]
    BY DEF Drawn
  <2>3. PICK j \in DOMAIN Backtests : then[k] = Backtests[j]
    BY <1>1, <1>2 DEF Drawn
  <2>4. i = j
    BY <2>1, <2>2, <2>3 DEF RunsMeasured
  <2> QED
    BY <2>2, <2>3, <2>4
<1>4. then = runs
  <2>1. then = [k \in DOMAIN then |-> then[k]] /\ runs = [k \in DOMAIN runs |-> runs[k]]
    BY <1>1 DEF Drawn
  <2> QED
    BY <1>2, <1>3, <2>1
<1> QED
  BY <1>1, <1>4

----------------------------------------------------------------------------
(* The lab's state: the form of the selected strategy, the sets that can be *)
(* applied to it, the runs that can be compared and the log.                *)

\* A stored value is one of a form, or missing.
FitValue(key, x) == x = <<>> \/ (x = <<x[1]>> /\ Numbered(key, x[1]))
FitSet(set) == \A key \in Lab!Definitions(set.strategy) : FitValue(key, set.values[key])
FitSets(sets) == sets \in Seq(Range(sets)) /\ \A i \in DOMAIN sets : FitSet(sets[i])

\* What the API holds when the page mounts, and what is typed.
LabStored ==
  /\ RunsMeasured
  /\ FitSets(StoredSets)
  /\ \A key \in DOMAIN Typed : \A x \in Typed[key] : Numbered(key, x)

\* The form of the selected strategy.
Form(slug, v) == DOMAIN v = Lab!Definitions(slug) /\ FitForm(slug, v)
FormHolds(strategy, values) ==
  strategy = <<>> \/ \E slug, v : strategy = <<slug>> /\ values = <<v>> /\ Form(slug, v)

LogFits(log) == log \in Seq(Range(log)) /\ \A k \in DOMAIN log : Logged(log[k])

LabFields == {"strategy", "values", "sets", "runs", "log"}

ViewFits(view) ==
  /\ LabFields \subseteq DOMAIN view
  /\ FormHolds(view.strategy, view.values)
  /\ FitSets(view.sets) /\ Drawn(view.runs) /\ LogFits(view.log)

\* A request carries a form to be saved, and its answer what the API holds.
LabRequest(r) ==
  /\ r.op = "save" => FitSet(r.arg)
  /\ r.ok => /\ r.op = "save" => FitSet(r.val[1])
             /\ r.op = "sets" => FitSets(r.val[1])
             /\ r.op = "backtests" => r.val[1] = Backtests

LabRequests(q) == InFlight(q) /\ \A i \in DOMAIN q : LabRequest(q[i])

LabInv ==
  /\ ViewFits(ui)
  /\ LabRequests(net)
  /\ "sets" \in DOMAIN db /\ FitSets(db.sets)

\* From it: the coach does not contradict itself, nor does the comparison.
LEMMA InvariantAgrees ==
  ASSUME LabStored, LabInv
  PROVE  Lab!LabAgrees
<1>1. Lab!ReadinessRanksConfigurations
  <2> SUFFICES ASSUME ui.strategy # Lab!Null
               PROVE  Lab!ReadinessRanksConfigurations
    BY DEF Lab!ReadinessRanksConfigurations
  <2>1. ui.strategy # <<>>
    BY DEF Lab!Null
  <2>2. FormHolds(ui.strategy, ui.values)
    BY DEF LabInv, ViewFits
  <2>3. PICK slug, v : ui.strategy = <<slug>> /\ ui.values = <<v>> /\ Form(slug, v)
    BY <2>1, <2>2 DEF FormHolds
  <2>4. ui.strategy[1] = slug /\ ui.values[1] = v /\ FitForm(slug, v)
    BY <2>3 DEF Form
  <2> QED
    BY <2>4, CoachRanks DEF Lab!ReadinessRanksConfigurations
<1>2. Lab!ComparisonIsCoherent
  <2> DEFINE I == {i \in DOMAIN ui.runs : ui.runs[i].id \in ui.compared}
  <2>1. Drawn(ui.runs) /\ I \subseteq DOMAIN ui.runs
    BY DEF LabInv, ViewFits
  <2>2. PICK runs : runs = Lab!ComparedRuns
    OBVIOUS
  <2>3. runs = Lab!Kept(ui.runs, I)
    BY <2>2 DEF Lab!ComparedRuns
  <2> HIDE DEF I
  <2>4. RunsMeasured
    BY DEF LabStored
  <2>5. Drawn(runs)
    BY <2>1, <2>3, KeptDrawn
  <2>6. Metered(runs)
    BY <2>4, <2>5, DrawnMetered
  <2>7. ASSUME NEW k \in DOMAIN ui.log, ui.log[k].runs = [i \in DOMAIN runs |-> runs[i].id]
        PROVE  ui.log[k].observations = Lab!Observations(runs)
    <3>1. PICK entry : entry = ui.log[k]
      OBVIOUS
    <3>2. Logged(entry)
      BY <3>1 DEF LabInv, ViewFits, LogFits
    <3>3. entry.runs = [i \in DOMAIN runs |-> runs[i].id]
      BY <2>7, <3>1
    <3> QED
      BY <2>4, <2>5, <3>1, <3>2, <3>3, LogAgrees
  <2>8. Lab!InsightsWorkspace(runs) # Lab!Null =>
          Lab!InsightsWorkspace(runs)[1].observations = Lab!Observations(runs)
    BY DEF Lab!InsightsWorkspace
  <2>9. ASSUME NEW k \in DOMAIN ui.log, ui.log[k].runs = [i \in DOMAIN runs |-> runs[i].id],
               Lab!InsightsWorkspace(runs) # Lab!Null
        PROVE  ui.log[k].observations = Lab!InsightsWorkspace(runs)[1].observations
    BY <2>7, <2>8, <2>9
  <2>10. Lab!ExperimentLog.entries = ui.log
    BY DEF Lab!ExperimentLog
  <2> QED
    BY <2>2, <2>6, <2>9, <2>10, ComparisonHolds DEF Lab!ComparisonIsCoherent
<1> QED
  BY <1>1, <1>2 DEF Lab!LabAgrees

\* The defaults are a form.
LEMMA DefaultsForm ==
  ASSUME NEW slug
  PROVE  Form(slug, Lab!DefaultValues(slug))
<1>1. PICK v : v = Lab!DefaultValues(slug)
  OBVIOUS
<1>2. DOMAIN v = Lab!Definitions(slug)
  BY <1>1 DEF Lab!DefaultValues
<1>3. ASSUME NEW key \in Lab!Definitions(slug)
      PROVE  v[key] = <<v[key][1]>> /\ Numbered(key, v[key][1])
  <2>1. PICK x : x = Lab!Defaults[slug][key]
    OBVIOUS
  <2>2. v[key] = <<x>>
    BY <1>1, <2>1 DEF Lab!DefaultValues
  <2>3. Numbered(key, x)
    <3>1. PICK value : value = <<Lab!Defaults[slug][key]>>
      OBVIOUS
    <3>2. value[1] = x
      BY <2>1, <3>1
    <3>3. Numbered(key, value[1])
      BY <3>1, DefaultsFit
    <3> QED
      BY <3>2, <3>3
  <2>4. v[key][1] = x
    BY <2>2
  <2> QED
    BY <2>2, <2>3, <2>4
<1> QED
  BY <1>1, <1>2, <1>3 DEF Form, FitForm

\* What keeps the form, the sets, the runs and the log keeps the view.
LEMMA ViewAlone ==
  ASSUME NEW view, ViewFits(view), NEW n, LabFields \subseteq DOMAIN n,
         n.strategy = view.strategy, n.values = view.values, n.sets = view.sets,
         n.runs = view.runs, n.log = view.log
  PROVE  ViewFits(n)
BY DEF ViewFits

\* A strategy that is chosen fills the form with its defaults.
LEMMA ChosenFits ==
  ASSUME NEW view, ViewFits(view), NEW slug
  PROVE  ViewFits(Lab!Chosen(view, slug))
<1>1. PICK v : v = Lab!DefaultValues(slug)
  OBVIOUS
<1>2. Form(slug, v)
  BY <1>1, DefaultsForm
<1>3. PICK n : n = Lab!Chosen(view, slug)
  OBVIOUS
<1>4. n = [view EXCEPT !.strategy = <<slug>>, !.values = <<v>>, !.snapshot = <<>>]
  BY <1>1, <1>3 DEF Lab!Chosen, Lab!Null
<1>5. /\ LabFields \subseteq DOMAIN n
      /\ n.strategy = <<slug>> /\ n.values = <<v>>
      /\ n.sets = view.sets /\ n.runs = view.runs /\ n.log = view.log
  BY <1>4 DEF ViewFits, LabFields
<1>6. FormHolds(n.strategy, n.values)
  BY <1>2, <1>5 DEF FormHolds
<1>7. ViewFits(n)
  BY <1>5, <1>6 DEF ViewFits
<1> QED
  BY <1>3, <1>7

\* A value that is typed is one of the form.
LEMMA EditFits ==
  ASSUME LabStored, ViewFits(ui), NEW key \in DOMAIN Typed, NEW x \in Typed[key],
         Lab!EditValue(key, x)
  PROVE  ViewFits(ui')
<1>1. ui.strategy # <<>> /\ key \in Lab!Definitions(ui.strategy[1])
  BY DEF Lab!EditValue, Lab!ParameterCards, Lab!Null
<1>2. PICK slug, v : ui.strategy = <<slug>> /\ ui.values = <<v>> /\ Form(slug, v)
  BY <1>1 DEF ViewFits, FormHolds
<1>3. key \in Lab!Definitions(slug)
  BY <1>1, <1>2
<1>4. PICK w : w = [v EXCEPT ![key] = <<x>>]
  OBVIOUS
<1>5. Numbered(key, x)
  BY DEF LabStored
<1>6. Form(slug, w)
  <2>1. DOMAIN w = Lab!Definitions(slug)
    BY <1>2, <1>4 DEF Form
  <2>2. w[key] = <<x>>
    BY <1>2, <1>3, <1>4 DEF Form
  <2>3. w[key][1] = x
    BY <2>2
  <2>4. ASSUME NEW k \in Lab!Definitions(slug), k # key
        PROVE  w[k] = v[k]
    BY <1>2, <1>4, <2>4 DEF Form
  <2>5. ASSUME NEW k \in Lab!Definitions(slug)
        PROVE  w[k] = <<w[k][1]>> /\ Numbered(k, w[k][1])
    <3>1. CASE k = key
      BY <1>5, <2>2, <2>3, <3>1
    <3>2. CASE k # key
      BY <1>2, <2>4, <3>2 DEF Form, FitForm
    <3> QED
      BY <3>1, <3>2
  <2> QED
    BY <2>1, <2>5 DEF Form, FitForm
<1>7. PICK view : view = Lab!Clicked
  OBVIOUS
<1>8. /\ LabFields \subseteq DOMAIN view
      /\ view.strategy = ui.strategy /\ view.values = ui.values
      /\ view.sets = ui.sets /\ view.runs = ui.runs /\ view.log = ui.log
  BY <1>7 DEF ViewFits, LabFields, Lab!Clicked
<1>9. ui' = [view EXCEPT !.values = <<w>>]
  <2>1. ui' = [view EXCEPT !.values[1][key] = <<x>>]
    BY <1>7 DEF Lab!EditValue
  <2>2. view.values = <<v>>
    BY <1>2, <1>8
  <2>3. [view.values EXCEPT ![1][key] = <<x>>] = <<w>>
    <3>1. PICK forms : forms = view.values
      OBVIOUS
    <3>2. forms[1] = v
      BY <2>2, <3>1
    <3>3. [forms EXCEPT ![1] = w] = <<w>>
      BY <2>2, <3>1
    <3> QED
      BY Zenon, <1>4, <3>1, <3>2, <3>3
  <2> QED
    BY <2>1, <2>3
<1>10. /\ LabFields \subseteq DOMAIN ui'
       /\ ui'.strategy = <<slug>> /\ ui'.values = <<w>>
       /\ ui'.sets = ui.sets /\ ui'.runs = ui.runs /\ ui'.log = ui.log
  BY <1>2, <1>8, <1>9 DEF LabFields
<1>11. FormHolds(ui'.strategy, ui'.values)
  BY <1>6, <1>10 DEF FormHolds
<1> QED
  BY <1>10, <1>11 DEF ViewFits

\* The sets shown are the selected strategy's, and can be applied to its form.
LEMMA SetsShown ==
  ASSUME ViewFits(ui), NEW i \in DOMAIN Lab!StrategySets
  PROVE  /\ ui.strategy # <<>>
         /\ FitSet(Lab!StrategySets[i]) /\ Lab!StrategySets[i].strategy = ui.strategy[1]
<1> DEFINE I == {j \in DOMAIN ui.sets : ui.sets[j].strategy = ui.strategy[1]}
<1>1. ui.strategy # <<>>
  <2>1. ASSUME ui.strategy = <<>>
        PROVE  Lab!StrategySets = <<>>
    BY <2>1 DEF Lab!StrategySets, Lab!Null
  <2>2. DOMAIN <<>> = {}
    OBVIOUS
  <2> QED
    BY <2>1, <2>2
<1>2. PICK m : m = Lab!StrategySets
  OBVIOUS
<1>3. m = Keeping(ui.sets, I)
  <2>1. m = Lab!Kept(ui.sets, I)
    BY <1>1, <1>2 DEF Lab!StrategySets, Lab!Null
  <2> QED
    BY <2>1, SameCounts
<1>4. FitSets(ui.sets)
  BY DEF ViewFits
<1>5. PICK n \in Nat : DOMAIN ui.sets = 1..n
  <2>1. Len(ui.sets) \in Nat /\ DOMAIN ui.sets = 1..Len(ui.sets)
    BY <1>4, LenProperties DEF FitSets
  <2> QED
    BY <2>1
<1>6. I \in SUBSET (1..n)
  BY <1>5
<1>7. \A j \in I : j \in DOMAIN ui.sets /\ ui.sets[j].strategy = ui.strategy[1]
  OBVIOUS
<1> HIDE DEF I
<1>8. Enumerated(m, ui.sets, I)
  BY <1>3, <1>6, KeepingProperties
<1>9. PICK j \in I : m[i] = ui.sets[j]
  BY <1>2, <1>8 DEF Enumerated
<1>10. FitSet(ui.sets[j]) /\ ui.sets[j].strategy = ui.strategy[1]
  BY <1>4, <1>7 DEF FitSets
<1> QED
  BY <1>1, <1>2, <1>9, <1>10

\* A stored value that is read is one of the form.
LEMMA CoercedFits ==
  ASSUME NEW slug, NEW key \in Lab!Definitions(slug), NEW stored, FitValue(key, stored)
  PROVE  \E x : Lab!Coerced(slug, key, stored) = <<x>> /\ Numbered(key, x)
<1>1. CASE stored = <<>>
  <2>1. Lab!Coerced(slug, key, stored) = <<Lab!Defaults[slug][key]>>
    BY <1>1 DEF Lab!Coerced
  <2>2. PICK x : x = Lab!Defaults[slug][key]
    OBVIOUS
  <2>3. PICK value : value = <<x>>
    OBVIOUS
  <2>4. value[1] = x
    BY <2>3
  <2>5. Numbered(key, value[1])
    BY <2>2, <2>3, DefaultsFit
  <2>6. Numbered(key, x)
    BY <2>4, <2>5
  <2> QED
    BY <2>1, <2>2, <2>6
<1>2. CASE stored # <<>> /\ Lab!Metadata[key].kind = "integer"
  <2>1. Lab!IsNumeric(key)
    BY <1>2 DEF Lab!IsNumeric
  <2>2. PICK y \in Int : y = stored[1]
    BY <1>2, <2>1 DEF FitValue, Numbered
  <2>3. PICK x \in Int : x = ((y + 50) \div 100) * 100
    OBVIOUS
  <2>4. Lab!Coerced(slug, key, stored) = <<x>>
    BY <1>2, <2>2, <2>3 DEF Lab!Coerced
  <2> QED
    BY <2>4 DEF Numbered
<1>3. CASE stored # <<>> /\ Lab!Metadata[key].kind # "integer"
  <2>1. Lab!Coerced(slug, key, stored) = stored
    BY <1>3 DEF Lab!Coerced
  <2>2. stored = <<stored[1]>> /\ Numbered(key, stored[1])
    BY <1>3 DEF FitValue
  <2> QED
    BY <2>1, <2>2
<1> QED
  BY <1>1, <1>2, <1>3

\* What a click changes besides.
LEMMA ClickKeeps ==
  ASSUME ViewFits(ui)
  PROVE  /\ LabFields \subseteq DOMAIN Lab!Clicked
         /\ Lab!Clicked.strategy = ui.strategy /\ Lab!Clicked.values = ui.values
         /\ Lab!Clicked.sets = ui.sets /\ Lab!Clicked.runs = ui.runs /\ Lab!Clicked.log = ui.log
BY DEF ViewFits, LabFields, Lab!Clicked

\* A set that is applied fills the form.
LEMMA ApplyFits ==
  ASSUME ViewFits(ui), NEW i \in DOMAIN Lab!StrategySets, Lab!ApplySnapshot(i)
  PROVE  ViewFits(ui')
<1>1. ui.strategy # <<>> /\ FitSet(Lab!StrategySets[i]) /\ Lab!StrategySets[i].strategy = ui.strategy[1]
  BY SetsShown
<1>2. PICK slug, old : ui.strategy = <<slug>> /\ ui.values = <<old>> /\ Form(slug, old)
  BY <1>1 DEF ViewFits, FormHolds
<1>3. PICK set : set = Lab!StrategySets[i]
  OBVIOUS
<1>4. FitSet(set) /\ set.strategy = slug
  BY <1>1, <1>2, <1>3
<1>5. PICK v : v = [key \in Lab!Definitions(slug) |-> Lab!Coerced(slug, key, set.values[key])]
  OBVIOUS
<1>6. Form(slug, v)
  <2>1. ASSUME NEW key \in Lab!Definitions(slug)
        PROVE  v[key] = <<v[key][1]>> /\ Numbered(key, v[key][1])
    <3>1. FitValue(key, set.values[key])
      BY <1>4 DEF FitSet
    <3>2. PICK x : Lab!Coerced(slug, key, set.values[key]) = <<x>> /\ Numbered(key, x)
      BY <3>1, CoercedFits
    <3>3. v[key] = <<x>>
      BY <1>5, <3>2
    <3>4. v[key][1] = x
      BY <3>3
    <3> QED
      BY <3>2, <3>3, <3>4
  <2>2. DOMAIN v = Lab!Definitions(slug)
    BY <1>5
  <2> QED
    BY <2>1, <2>2 DEF Form, FitForm
<1>7. PICK view : view = Lab!Clicked
  OBVIOUS
<1>8. /\ LabFields \subseteq DOMAIN view
      /\ view.strategy = ui.strategy /\ view.values = ui.values
      /\ view.sets = ui.sets /\ view.runs = ui.runs /\ view.log = ui.log
  BY <1>7, ClickKeeps
<1>9. ui.strategy[1] = slug
  BY <1>2
<1>10. ui' = [view EXCEPT !.snapshot = <<set.id>>, !.saveError = FALSE, !.values = <<v>>]
  BY <1>3, <1>5, <1>7, <1>9 DEF Lab!ApplySnapshot
<1>11. /\ LabFields \subseteq DOMAIN ui'
       /\ ui'.strategy = <<slug>> /\ ui'.values = <<v>>
       /\ ui'.sets = ui.sets /\ ui'.runs = ui.runs /\ ui'.log = ui.log
  BY <1>2, <1>8, <1>10 DEF LabFields
<1>12. FormHolds(ui'.strategy, ui'.values)
  BY <1>6, <1>11 DEF FormHolds
<1> QED
  BY <1>11, <1>12 DEF ViewFits

\* What is saved is the form.
LEMMA SavedFits ==
  ASSUME ViewFits(ui), ui.strategy # <<>>, NEW name,
         NEW arg, arg = [strategy |-> ui.strategy[1], name |-> name, values |-> ui.values[1]]
  PROVE  FitSet(arg)
<1>1. PICK slug, v : ui.strategy = <<slug>> /\ ui.values = <<v>> /\ Form(slug, v)
  BY DEF ViewFits, FormHolds
<1>2. ui.strategy[1] = slug /\ ui.values[1] = v
  BY <1>1
<1>3. arg.strategy = slug /\ arg.values = v
  BY <1>2
<1> QED
  BY <1>1, <1>3 DEF FitSet, FitValue, Form, FitForm

\* An entry of the log holds the runs that are compared.
LEMMA EntryFits ==
  ASSUME RunsMeasured, ViewFits(ui), Lab!CreateLogEntry
  PROVE  ViewFits(ui')
<1> DEFINE I == {i \in DOMAIN ui.runs : ui.runs[i].id \in ui.compared}
<1>1. Drawn(ui.runs) /\ I \subseteq DOMAIN ui.runs
  BY DEF ViewFits
<1>2. PICK runs : runs = Lab!ComparedRuns
  OBVIOUS
<1>3. runs = Lab!Kept(ui.runs, I)
  BY <1>2 DEF Lab!ComparedRuns
<1> HIDE DEF I
<1>4. Drawn(runs)
  BY <1>1, <1>3, KeptDrawn
<1>5. PICK entry : entry = [runs |-> [i \in DOMAIN runs |-> runs[i].id],
                            differences |-> Lab!KeyDifferences(runs),
                            observations |-> Lab!Observations(runs)]
  OBVIOUS
<1>6. Logged(entry)
  BY <1>4, <1>5 DEF Logged
<1>7. PICK view : view = Lab!Clicked
  OBVIOUS
<1>8. /\ LabFields \subseteq DOMAIN view
      /\ view.strategy = ui.strategy /\ view.values = ui.values
      /\ view.sets = ui.sets /\ view.runs = ui.runs /\ view.log = ui.log
  BY <1>7, ClickKeeps
<1>9. ui' = [view EXCEPT !.log = <<entry>> \o view.log]
  BY <1>2, <1>5, <1>7 DEF Lab!CreateLogEntry
<1>10. PICK log : log = <<entry>> \o ui.log
  OBVIOUS
<1>11. LogFits(log)
  <2> DEFINE S == Range(ui.log) \cup {entry}
  <2>1. ui.log \in Seq(Range(ui.log)) /\ \A k \in DOMAIN ui.log : Logged(ui.log[k])
    BY DEF ViewFits, LogFits
  <2>2. Len(ui.log) \in Nat /\ DOMAIN ui.log = 1..Len(ui.log)
    BY <2>1, LenProperties
  <2>3. ui.log \in Seq(S)
    <3>1. \A k \in DOMAIN ui.log : ui.log[k] \in S
      BY DEF Range
    <3> HIDE DEF S
    <3> QED
      BY <2>1, <3>1
  <2>4. entry \in S
    OBVIOUS
  <2> HIDE DEF S
  <2>5. <<entry>> \in Seq(S) /\ Len(<<entry>>) = 1 /\ <<entry>>[1] = entry
    BY <2>4
  <2>6. PICK first \in Seq(S) : first = <<entry>>
    BY <2>5
  <2>7. /\ first \o ui.log \in Seq(S)
        /\ Len(first \o ui.log) = Len(first) + Len(ui.log)
        /\ \A k \in 1 .. Len(first) + Len(ui.log) :
             (first \o ui.log)[k] = IF k <= Len(first) THEN first[k] ELSE ui.log[k - Len(first)]
    BY <2>3, ConcatProperties
  <2>8. Len(first) = 1 /\ first[1] = entry
    BY <2>5, <2>6
  <2>9. log \in Seq(S) /\ log = first \o ui.log
    BY <1>10, <2>6, <2>7
  <2>10. log \in Seq(Range(log))
    BY <2>9, SeqOfRange
  <2>11. DOMAIN log = 1 .. 1 + Len(ui.log)
    BY <2>7, <2>8, <2>9, LenProperties
  <2>12. ASSUME NEW k \in DOMAIN log
         PROVE  Logged(log[k])
    <3>1. k \in 1 .. 1 + Len(ui.log)
      BY <2>11
    <3>2. CASE k = 1
      <4>1. log[k] = entry
        BY <2>7, <2>8, <2>9, <3>1, <3>2
      <4> QED
        BY <1>6, <4>1
    <3>3. CASE k # 1
      <4>1. PICK j \in 1..Len(ui.log) : j = k - 1
        BY <2>2, <3>1, <3>3
      <4>2. ~(k <= 1)
        BY <2>2, <3>1, <3>3
      <4>3. log[k] = ui.log[j]
        BY <2>7, <2>8, <2>9, <3>1, <4>1, <4>2
      <4> QED
        BY <2>1, <2>2, <4>3
    <3> QED
      BY <3>2, <3>3
  <2> QED
    BY <2>10, <2>12 DEF LogFits
<1>12. /\ LabFields \subseteq DOMAIN ui'
       /\ ui'.strategy = ui.strategy /\ ui'.values = ui.values
       /\ ui'.sets = ui.sets /\ ui'.runs = ui.runs /\ ui'.log = log
  BY <1>8, <1>9, <1>10 DEF LabFields
<1> QED
  BY <1>11, <1>12 DEF ViewFits

----------------------------------------------------------------------------
(* Steps of the lab.                                                        *)

\* A request that is issued.
LEMMA LabIssued ==
  ASSUME NEW q, LabRequests(q), NEW op, NEW arg, op = "save" => FitSet(arg)
  PROVE  LabRequests(Lab!Issue(q, op, arg))
<1>1. PICK r : r = [op |-> op, arg |-> arg, back |-> FALSE, ok |-> FALSE, val |-> <<>>]
  OBVIOUS
<1>2. r.op = op /\ r.arg = arg /\ ~r.ok /\ r.back \in BOOLEAN
  BY <1>1
<1>3. IsRequest(r)
  BY <1>1, <1>2 DEF IsRequest
<1>4. LabRequest(r)
  BY <1>2 DEF LabRequest
<1>5. PICK n : n = Append(q, r)
  OBVIOUS
<1>6. InFlight(q) /\ \A i \in DOMAIN q : LabRequest(q[i])
  BY DEF LabRequests
<1>7. /\ InFlight(n) /\ Len(q) \in Nat /\ DOMAIN q = 1..Len(q)
      /\ DOMAIN n = 1..(Len(q) + 1)
      /\ \A j \in 1..Len(q) : n[j] = q[j]
      /\ n[Len(q) + 1] = r
  BY <1>3, <1>5, <1>6, Issued
<1>8. ASSUME NEW i \in DOMAIN n
      PROVE  LabRequest(n[i])
  <2>1. i \in 1..Len(q) \/ i = Len(q) + 1
    BY <1>7
  <2> QED
    BY <1>4, <1>6, <1>7, <2>1
<1>9. Lab!Issue(q, op, arg) = n
  BY <1>1, <1>5 DEF Lab!Issue, Lab!NewRequest, Lab!Null
<1> QED
  BY <1>7, <1>8, <1>9 DEF LabRequests

\* One that is handled.
LEMMA LabHandled ==
  ASSUME LabRequests(net), NEW i \in DOMAIN net
  PROVE  LabRequests(Lab!Handled(i))
<1>1. PICK n : n = Without(net, i)
  OBVIOUS
<1>2. InFlight(net) /\ \A j \in DOMAIN net : LabRequest(net[j])
  BY DEF LabRequests
<1>3. /\ InFlight(n) /\ Len(net) \in Nat /\ DOMAIN net = 1..Len(net)
      /\ DOMAIN n = 1..(Len(net) - 1)
      /\ \A j \in 1..(Len(net) - 1) : n[j] = net[IF j < i THEN j ELSE j + 1]
  BY <1>1, <1>2, Removed
<1>4. ASSUME NEW j \in DOMAIN n
      PROVE  LabRequest(n[j])
  <2>1. PICK k \in DOMAIN net : k = IF j < i THEN j ELSE j + 1
    BY <1>3
  <2>2. n[j] = net[k]
    BY <1>3, <2>1
  <2> QED
    BY <1>2, <2>2
<1>5. Lab!Handled(i) = n
  BY <1>1 DEF Lab!Handled, Lab!RemoveAt, Without
<1> QED
  BY <1>3, <1>4, <1>5 DEF LabRequests

\* One that is answered with what the API holds.
LEMMA LabServed ==
  ASSUME LabRequests(net), NEW i \in DOMAIN net, NEW payload,
         net[i].op = "save" => FitSet(payload),
         net[i].op = "sets" => FitSets(payload),
         net[i].op = "backtests" => payload = Backtests
  PROVE  LabRequests(Lab!Served(i, payload))
<1>1. PICK n : n = Lab!Served(i, payload)
  OBVIOUS
<1>2. InFlight(net) /\ \A j \in DOMAIN net : LabRequest(net[j])
  BY DEF LabRequests
<1>3. PICK okay \in BOOLEAN : okay = TRUE
  OBVIOUS
<1>4. PICK v : v = <<payload>>
  OBVIOUS
<1>5. n = Answer(net, i, okay, v)
  BY <1>1, <1>3, <1>4 DEF Lab!Served, Answer
<1>6. /\ InFlight(n)
      /\ Len(net) \in Nat /\ DOMAIN net = 1..Len(net) /\ DOMAIN n = 1..Len(net)
      /\ \A j \in 1..Len(net) : j # i => n[j] = net[j]
      /\ n[i].op = net[i].op /\ n[i].arg = net[i].arg
      /\ n[i].ok = okay /\ n[i].val = v
  <2>1. InFlight(net)
    BY <1>2
  <2>2. /\ InFlight(n)
        /\ Len(net) \in Nat /\ DOMAIN net = 1..Len(net) /\ DOMAIN n = 1..Len(net)
        /\ \A j \in 1..Len(net) : j # i => n[j] = net[j]
        /\ n[i] = [op |-> net[i].op, arg |-> net[i].arg, back |-> TRUE, ok |-> okay, val |-> v]
    BY <1>5, <2>1, Answered
  <2>3. PICK entry : entry = n[i]
    OBVIOUS
  <2>4. /\ entry.op = net[i].op /\ entry.arg = net[i].arg
        /\ entry.ok = okay /\ entry.val = v
    BY <2>2, <2>3
  <2> QED
    BY <2>2, <2>3, <2>4
<1>7. LabRequest(n[i])
  <2>1. v[1] = payload
    BY <1>4
  <2>2. LabRequest(net[i])
    BY <1>2
  <2> QED
    BY <1>6, <2>1, <2>2 DEF LabRequest
<1>8. ASSUME NEW j \in DOMAIN n
      PROVE  LabRequest(n[j])
  BY <1>2, <1>6, <1>7
<1> QED
  BY <1>1, <1>6, <1>8 DEF LabRequests

\* One that is refused, or whose answer is lost.
LEMMA LabRefused ==
  ASSUME LabRequests(net), NEW i \in DOMAIN net
  PROVE  LabRequests(Lab!Refused(i))
<1>1. PICK n : n = Lab!Refused(i)
  OBVIOUS
<1>2. InFlight(net) /\ \A j \in DOMAIN net : LabRequest(net[j])
  BY DEF LabRequests
<1>3. PICK okay \in BOOLEAN : okay = FALSE
  OBVIOUS
<1>4. PICK v : v = <<>>
  OBVIOUS
<1>5. n = Answer(net, i, okay, v)
  BY <1>1, <1>3, <1>4 DEF Lab!Refused, Lab!Null, Answer
<1>6. /\ InFlight(n)
      /\ Len(net) \in Nat /\ DOMAIN net = 1..Len(net) /\ DOMAIN n = 1..Len(net)
      /\ \A j \in 1..Len(net) : j # i => n[j] = net[j]
      /\ n[i].op = net[i].op /\ n[i].arg = net[i].arg
      /\ n[i].ok = okay
  <2>1. InFlight(net)
    BY <1>2
  <2>2. /\ InFlight(n)
        /\ Len(net) \in Nat /\ DOMAIN net = 1..Len(net) /\ DOMAIN n = 1..Len(net)
        /\ \A j \in 1..Len(net) : j # i => n[j] = net[j]
        /\ n[i] = [op |-> net[i].op, arg |-> net[i].arg, back |-> TRUE, ok |-> okay, val |-> v]
    BY <1>5, <2>1, Answered
  <2>3. PICK entry : entry = n[i]
    OBVIOUS
  <2>4. /\ entry.op = net[i].op /\ entry.arg = net[i].arg
        /\ entry.ok = okay /\ entry.val = v
    BY <2>2, <2>3
  <2> QED
    BY <2>2, <2>3, <2>4
<1>7. LabRequest(n[i])
  <2>1. LabRequest(net[i])
    BY <1>2
  <2> QED
    BY <1>3, <1>6, <2>1 DEF LabRequest
<1>8. ASSUME NEW j \in DOMAIN n
      PROVE  LabRequest(n[j])
  BY <1>2, <1>6, <1>7
<1> QED
  BY <1>1, <1>6, <1>8 DEF LabRequests

\* A set at the end of others.
LEMMA SetAdded ==
  ASSUME NEW sets, FitSets(sets), NEW set, FitSet(set)
  PROVE  FitSets(Append(sets, set))
<1> DEFINE S == Range(sets) \cup {set}
<1>1. sets \in Seq(Range(sets)) /\ \A i \in DOMAIN sets : FitSet(sets[i])
  BY DEF FitSets
<1>2. Len(sets) \in Nat /\ DOMAIN sets = 1..Len(sets)
  BY <1>1, LenProperties
<1>3. sets \in Seq(S)
  <2>1. \A k \in DOMAIN sets : sets[k] \in S
    BY DEF Range
  <2> HIDE DEF S
  <2> QED
    BY <1>1, <2>1
<1>4. set \in S
  OBVIOUS
<1> HIDE DEF S
<1>5. PICK n : n = Append(sets, set)
  OBVIOUS
<1>6. /\ n \in Seq(S) /\ Len(n) = Len(sets) + 1
      /\ \A i \in 1..Len(sets) : n[i] = sets[i]
      /\ n[Len(sets) + 1] = set
  BY <1>3, <1>4, <1>5, AppendProperties
<1>7. n \in Seq(Range(n)) /\ DOMAIN n = 1..(Len(sets) + 1)
  BY <1>6, SeqOfRange, LenProperties
<1>8. ASSUME NEW i \in DOMAIN n
      PROVE  FitSet(n[i])
  <2>1. i \in 1..Len(sets) \/ i = Len(sets) + 1
    BY <1>2, <1>7
  <2> QED
    BY <1>1, <1>2, <1>6, <2>1
<1> QED
  BY <1>5, <1>7, <1>8 DEF FitSets

\* What answers do to the view.
LEMMA LabDelivered ==
  ASSUME LabStored, LabInv, Lab!Deliver
  PROVE  ViewFits(ui') /\ LabRequests(net')
<1>1. PICK i \in Lab!Deliverable :
        /\ \/ Lab!DeliverStrategies(net[i]) \/ Lab!DeliverBacktests(net[i]) \/ Lab!DeliverSets(net[i])
           \/ Lab!DeliverSave(net[i]) \/ Lab!DeliverLaunch(net[i])
        /\ net' = Lab!Handled(i)
  BY DEF Lab!Deliver
<1>2. i \in DOMAIN net
  BY DEF Lab!Deliverable
<1>3. LabRequests(net')
  BY <1>1, <1>2, LabHandled DEF LabInv
<1>4. PICK r : r = net[i]
  OBVIOUS
<1>5. LabRequest(r)
  BY <1>2, <1>4 DEF LabInv, LabRequests
<1>6. ViewFits(ui)
  BY DEF LabInv
<1>7. LabFields \subseteq DOMAIN ui
  BY <1>6 DEF ViewFits
<1>8. CASE Lab!DeliverStrategies(r)
  <2>1. PICK list : list = IF r.ok THEN r.val[1] ELSE ui.strategies
    OBVIOUS
  <2>2. PICK failed : failed = (~r.ok)
    OBVIOUS
  <2>3. PICK loaded : loaded = [ui EXCEPT !.loadingStrategies = FALSE, !.strategiesError = failed, !.strategies = list]
    OBVIOUS
  <2>4. /\ LabFields \subseteq DOMAIN loaded
        /\ loaded.strategy = ui.strategy /\ loaded.values = ui.values
        /\ loaded.sets = ui.sets /\ loaded.runs = ui.runs /\ loaded.log = ui.log
    BY <1>7, <2>3 DEF LabFields
  <2>5. ViewFits(loaded)
    BY <1>6, <2>4, ViewAlone
  <2>6. ui' = loaded \/ \E slug : ui' = Lab!Chosen(loaded, slug)
    BY <1>8, <2>1, <2>2, <2>3 DEF Lab!DeliverStrategies
  <2>7. CASE ui' = loaded
    BY <1>3, <2>5, <2>7
  <2>8. CASE \E slug : ui' = Lab!Chosen(loaded, slug)
    BY <1>3, <2>5, <2>8, ChosenFits
  <2> QED
    BY <1>3, <2>6, <2>7, <2>8
<1>9. CASE Lab!DeliverBacktests(r)
  <2>1. PICK list : list = IF r.ok THEN Lab!Completed(r.val[1]) ELSE ui.runs
    OBVIOUS
  <2>2. PICK failed : failed = (~r.ok)
    OBVIOUS
  <2>3. ui' = [ui EXCEPT !.loadingRuns = FALSE, !.runsError = failed, !.runs = list]
    BY <1>9, <2>1, <2>2 DEF Lab!DeliverBacktests
  <2>4. Drawn(list)
    <3>1. CASE r.ok
      <4>1. r.op = "backtests"
        BY <1>9 DEF Lab!DeliverBacktests
      <4>2. r.val[1] = Backtests
        BY <1>5, <3>1, <4>1 DEF LabRequest
      <4>3. Drawn(Lab!Completed(Backtests))
        BY CompletedDrawn DEF LabStored
      <4> QED
        BY <2>1, <3>1, <4>2, <4>3
    <3>2. CASE ~r.ok
      BY <1>6, <2>1, <3>2 DEF ViewFits
    <3> QED
      BY <3>1, <3>2
  <2>5. /\ LabFields \subseteq DOMAIN ui'
        /\ ui'.strategy = ui.strategy /\ ui'.values = ui.values
        /\ ui'.sets = ui.sets /\ ui'.runs = list /\ ui'.log = ui.log
    BY <1>7, <2>3 DEF LabFields
  <2>6. ViewFits(ui')
    BY <1>6, <2>4, <2>5 DEF ViewFits
  <2> QED
    BY <1>3, <2>6
<1>10. CASE Lab!DeliverSets(r)
  <2>1. PICK list : list = IF r.ok THEN r.val[1] ELSE ui.sets
    OBVIOUS
  <2>2. PICK failed : failed = (~r.ok)
    OBVIOUS
  <2>3. ui' = [ui EXCEPT !.loadingSets = FALSE, !.setsError = failed, !.sets = list]
    BY <1>10, <2>1, <2>2 DEF Lab!DeliverSets
  <2>4. FitSets(list)
    BY <1>5, <1>6, <1>10, <2>1 DEF LabRequest, ViewFits, Lab!DeliverSets
  <2>5. /\ LabFields \subseteq DOMAIN ui'
        /\ ui'.strategy = ui.strategy /\ ui'.values = ui.values
        /\ ui'.sets = list /\ ui'.runs = ui.runs /\ ui'.log = ui.log
    BY <1>7, <2>3 DEF LabFields
  <2>6. ViewFits(ui')
    BY <1>6, <2>4, <2>5 DEF ViewFits
  <2> QED
    BY <1>3, <2>6
<1>11. CASE Lab!DeliverSave(r) /\ r.ok
  <2>1. PICK set : set = r.val[1]
    OBVIOUS
  <2>2. PICK list : list = Append(ui.sets, set)
    OBVIOUS
  <2>3. ui' = [ui EXCEPT !.saving = FALSE, !.sets = list, !.name = <<>>, !.snapshot = <<set.id>>]
    BY <1>11, <2>1, <2>2 DEF Lab!DeliverSave, Lab!Null
  <2>4. FitSet(set)
    BY <1>5, <1>11, <2>1 DEF LabRequest, Lab!DeliverSave
  <2>5. FitSets(ui.sets)
    BY <1>6 DEF ViewFits
  <2>6. FitSets(list)
    BY <2>2, <2>4, <2>5, SetAdded
  <2>7. /\ LabFields \subseteq DOMAIN ui'
        /\ ui'.strategy = ui.strategy /\ ui'.values = ui.values
        /\ ui'.sets = list /\ ui'.runs = ui.runs /\ ui'.log = ui.log
    BY <1>7, <2>3 DEF LabFields
  <2>8. ViewFits(ui')
    BY <1>6, <2>6, <2>7 DEF ViewFits
  <2> QED
    BY <1>3, <2>8
<1>12. CASE Lab!DeliverSave(r) /\ ~r.ok
  <2>1. ui' = [ui EXCEPT !.saving = FALSE, !.saveError = TRUE]
    BY <1>12 DEF Lab!DeliverSave
  <2>2. /\ LabFields \subseteq DOMAIN ui'
        /\ ui'.strategy = ui.strategy /\ ui'.values = ui.values
        /\ ui'.sets = ui.sets /\ ui'.runs = ui.runs /\ ui'.log = ui.log
    BY <1>7, <2>1 DEF LabFields
  <2> QED
    BY <1>3, <1>6, <2>2, ViewAlone
<1>13. CASE Lab!DeliverLaunch(r)
  <2>1. PICK failed : failed = (~r.ok)
    OBVIOUS
  <2>4. PICK left : left = (ui.left \/ r.ok)
    OBVIOUS
  <2>5. ui' = [ui EXCEPT !.launching = FALSE, !.launchError = failed, !.left = left]
    BY Zenon, <1>13, <2>1, <2>4 DEF Lab!DeliverLaunch
  <2>2. /\ LabFields \subseteq DOMAIN ui'
        /\ ui'.strategy = ui.strategy /\ ui'.values = ui.values
        /\ ui'.sets = ui.sets /\ ui'.runs = ui.runs /\ ui'.log = ui.log
    BY <1>7, <2>5 DEF LabFields
  <2> QED
    BY <1>3, <1>6, <2>2, ViewAlone
<1> QED
  BY <1>1, <1>4, <1>8, <1>9, <1>10, <1>11, <1>12, <1>13

\* What the API does.
LEMMA LabAnswered ==
  ASSUME LabStored, LabInv, Lab!Serve
  PROVE  LabRequests(net') /\ "sets" \in DOMAIN db' /\ FitSets(db'.sets)
<1>1. PICK i \in Lab!Servable :
        Lab!ServeList(net[i], i) \/ Lab!ServeSave(net[i], i) \/ Lab!ServeLaunch(net[i], i)
  BY DEF Lab!Serve
<1>2. i \in DOMAIN net
  BY DEF Lab!Servable
<1>3. PICK r : r = net[i]
  OBVIOUS
<1>4. LabRequests(net) /\ "sets" \in DOMAIN db /\ FitSets(db.sets)
  BY DEF LabInv
<1>5. LabRequest(r)
  BY <1>2, <1>3, <1>4 DEF LabRequests
<1>6. CASE Lab!ServeList(r, i)
  <2>1. db' = db
    BY <1>6 DEF Lab!ServeList
  <2>2. CASE r.op = "strategies"
    <3>1. net' = Lab!Served(i, Strategies)
      BY <1>6, <2>2 DEF Lab!ServeList
    <3>2. LabRequests(Lab!Served(i, Strategies))
      BY <1>2, <1>3, <1>4, <2>2, LabServed
    <3> QED
      BY <1>4, <2>1, <3>1, <3>2
  <2>3. CASE r.op = "backtests"
    <3>1. net' = Lab!Served(i, Backtests)
      BY <1>6, <2>3 DEF Lab!ServeList
    <3>2. LabRequests(Lab!Served(i, Backtests))
      BY <1>2, <1>3, <1>4, <2>3, LabServed
    <3> QED
      BY <1>4, <2>1, <3>1, <3>2
  <2>4. CASE r.op = "sets"
    <3>1. PICK sets : sets = db.sets
      OBVIOUS
    <3>2. net' = Lab!Served(i, sets)
      BY <1>6, <2>4, <3>1 DEF Lab!ServeList
    <3>3. FitSets(sets)
      BY <1>4, <3>1
    <3>4. LabRequests(Lab!Served(i, sets))
      BY <1>2, <1>3, <1>4, <2>4, <3>3, LabServed
    <3> QED
      BY <1>4, <2>1, <3>2, <3>4
  <2> QED
    BY <1>6, <2>2, <2>3, <2>4 DEF Lab!ServeList
<1>7. CASE Lab!ServeSave(r, i)
  <2>1. CASE Lab!Taken(r.arg)
    <3>1. net' = Lab!Refused(i) /\ db' = db
      BY <1>7, <2>1 DEF Lab!ServeSave
    <3> QED
      BY <1>2, <1>4, <3>1, LabRefused
  <2>2. CASE ~Lab!Taken(r.arg)
    <3>1. PICK set : set = Lab!SetOf(r.arg)
      OBVIOUS
    <3>2. PICK sets : sets = Append(db.sets, set)
      OBVIOUS
    <3>3. net' = Lab!Served(i, set) /\ db' = [db EXCEPT !.sets = sets]
      BY <1>7, <2>2, <3>1, <3>2 DEF Lab!ServeSave
    <3>4. r.op = "save" /\ FitSet(r.arg)
      BY <1>5, <1>7 DEF Lab!ServeSave, LabRequest
    <3>5. FitSet(set)
      <4>1. set.strategy = r.arg.strategy /\ set.values = r.arg.values
        BY <3>1 DEF Lab!SetOf
      <4> QED
        BY <3>4, <4>1 DEF FitSet
    <3>6. LabRequests(Lab!Served(i, set))
      BY <1>2, <1>3, <1>4, <3>4, <3>5, LabServed
    <3>7. FitSets(sets)
      BY <1>4, <3>2, <3>5, SetAdded
    <3>8. "sets" \in DOMAIN db' /\ db'.sets = sets
      BY <1>4, <3>3
    <3> QED
      BY <3>3, <3>6, <3>7, <3>8
  <2> QED
    BY <2>1, <2>2
<1>8. CASE Lab!ServeLaunch(r, i)
  <2>1. r.op = "launch" /\ net' = Lab!Served(i, 0)
    BY <1>8 DEF Lab!ServeLaunch
  <2>2. PICK payload : payload = 0
    OBVIOUS
  <2>3. LabRequests(Lab!Served(i, payload))
    BY <1>2, <1>3, <1>4, <2>1, LabServed
  <2>4. PICK launched : db' = [db EXCEPT !.launched = launched]
    BY <1>8 DEF Lab!ServeLaunch
  <2>5. "sets" \in DOMAIN db' /\ db'.sets = db.sets
    BY <1>4, <2>4
  <2> QED
    BY <1>4, <2>1, <2>2, <2>3, <2>5
<1> QED
  BY <1>1, <1>3, <1>6, <1>7, <1>8

\* What the operator does.
LEMMA LabClicked ==
  ASSUME LabStored, LabInv,
         \/ \E slug : Lab!SelectStrategy(slug)
         \/ \E key \in DOMAIN Typed : \E x \in Typed[key] : Lab!EditValue(key, x)
         \/ \E name : Lab!TypeName(name)
         \/ \E capital : Lab!TypeCapital(capital)
         \/ \E i \in DOMAIN Lab!StrategySets : Lab!ViewSnapshot(i) \/ Lab!ApplySnapshot(i)
         \/ \E id : Lab!ToggleComparison(id)
         \/ Lab!CreateLogEntry
  PROVE  ViewFits(ui') /\ net' = net /\ db' = db
<1>1. ViewFits(ui)
  BY DEF LabInv
<1>2. PICK view : view = Lab!Clicked
  OBVIOUS
<1>3. /\ LabFields \subseteq DOMAIN view
      /\ view.strategy = ui.strategy /\ view.values = ui.values
      /\ view.sets = ui.sets /\ view.runs = ui.runs /\ view.log = ui.log
  BY <1>1, <1>2, ClickKeeps
<1>4. ViewFits(view)
  BY <1>1, <1>3, ViewAlone
<1>5. CASE \E slug : Lab!SelectStrategy(slug)
  <2>1. PICK slug : ui' = Lab!Chosen(view, slug) /\ net' = net /\ db' = db
    BY <1>2, <1>5 DEF Lab!SelectStrategy, Lab!Stay
  <2> QED
    BY <1>4, <2>1, ChosenFits
<1>6. CASE \E key \in DOMAIN Typed : \E x \in Typed[key] : Lab!EditValue(key, x)
  <2>1. net' = net /\ db' = db
    BY <1>6 DEF Lab!EditValue, Lab!Stay
  <2> QED
    BY <1>1, <1>6, <2>1, EditFits
<1>7. CASE \E name : Lab!TypeName(name)
  <2>1. PICK name : ui' = [view EXCEPT !.name = <<name>>] /\ net' = net /\ db' = db
    BY <1>2, <1>7 DEF Lab!TypeName, Lab!Stay
  <2>2. /\ LabFields \subseteq DOMAIN ui'
        /\ ui'.strategy = view.strategy /\ ui'.values = view.values
        /\ ui'.sets = view.sets /\ ui'.runs = view.runs /\ ui'.log = view.log
    BY <1>3, <2>1 DEF LabFields
  <2> QED
    BY <1>4, <2>1, <2>2, ViewAlone
<1>8. CASE \E capital : Lab!TypeCapital(capital)
  <2>1. PICK capital : ui' = [view EXCEPT !.capital = capital] /\ net' = net /\ db' = db
    BY <1>2, <1>8 DEF Lab!TypeCapital, Lab!Stay
  <2>2. /\ LabFields \subseteq DOMAIN ui'
        /\ ui'.strategy = view.strategy /\ ui'.values = view.values
        /\ ui'.sets = view.sets /\ ui'.runs = view.runs /\ ui'.log = view.log
    BY <1>3, <2>1 DEF LabFields
  <2> QED
    BY <1>4, <2>1, <2>2, ViewAlone
<1>9. ASSUME NEW i \in DOMAIN Lab!StrategySets, Lab!ViewSnapshot(i) \/ Lab!ApplySnapshot(i)
      PROVE  ViewFits(ui') /\ net' = net /\ db' = db
  <2>1. CASE Lab!ViewSnapshot(i)
    <3>1. PICK snapshot : ui' = [view EXCEPT !.snapshot = snapshot] /\ net' = net /\ db' = db
      BY <1>2, <2>1 DEF Lab!ViewSnapshot, Lab!Stay
    <3>2. /\ LabFields \subseteq DOMAIN ui'
          /\ ui'.strategy = view.strategy /\ ui'.values = view.values
          /\ ui'.sets = view.sets /\ ui'.runs = view.runs /\ ui'.log = view.log
      BY <1>3, <3>1 DEF LabFields
    <3> QED
      BY <1>4, <3>1, <3>2, ViewAlone
  <2>2. CASE Lab!ApplySnapshot(i)
    <3>1. net' = net /\ db' = db
      BY ZenonT(30), <2>2 DEF Lab!ApplySnapshot, Lab!Stay
    <3> QED
      BY <1>1, <2>2, <3>1, ApplyFits
  <2> QED
    BY <1>9, <2>1, <2>2
<1>10. CASE \E id : Lab!ToggleComparison(id)
  <2>1. PICK compared : ui' = [view EXCEPT !.compared = compared] /\ net' = net /\ db' = db
    BY <1>2, <1>10 DEF Lab!ToggleComparison, Lab!Stay
  <2>2. /\ LabFields \subseteq DOMAIN ui'
        /\ ui'.strategy = view.strategy /\ ui'.values = view.values
        /\ ui'.sets = view.sets /\ ui'.runs = view.runs /\ ui'.log = view.log
    BY <1>3, <2>1 DEF LabFields
  <2> QED
    BY <1>4, <2>1, <2>2, ViewAlone
<1>11. CASE Lab!CreateLogEntry
  <2>1. net' = net /\ db' = db
    BY <1>11 DEF Lab!CreateLogEntry, Lab!Stay
  <2>2. ViewFits(ui')
    BY <1>1, <1>11, EntryFits DEF LabStored
  <2> QED
    BY <2>1, <2>2
<1> QED
  BY <1>5, <1>6, <1>7, <1>8, <1>9, <1>10, <1>11

\* What the operator asks the API for.
LEMMA LabAsked ==
  ASSUME LabInv, Lab!SaveSnapshot \/ Lab!LaunchBacktest
  PROVE  ViewFits(ui') /\ LabRequests(net') /\ db' = db
<1>1. ViewFits(ui) /\ LabRequests(net)
  BY DEF LabInv
<1>2. PICK view : view = Lab!Clicked
  OBVIOUS
<1>3. /\ LabFields \subseteq DOMAIN view
      /\ view.strategy = ui.strategy /\ view.values = ui.values
      /\ view.sets = ui.sets /\ view.runs = ui.runs /\ view.log = ui.log
  BY <1>1, <1>2, ClickKeeps
<1>4. ViewFits(view)
  BY <1>1, <1>3, ViewAlone
<1>5. CASE Lab!SaveSnapshot /\ ui.name = Lab!Null
  <2>1. ui' = [view EXCEPT !.saveError = TRUE] /\ net' = net /\ db' = db
    BY <1>2, <1>5 DEF Lab!SaveSnapshot
  <2>2. /\ LabFields \subseteq DOMAIN ui'
        /\ ui'.strategy = view.strategy /\ ui'.values = view.values
        /\ ui'.sets = view.sets /\ ui'.runs = view.runs /\ ui'.log = view.log
    BY <1>3, <2>1 DEF LabFields
  <2> QED
    BY <1>1, <1>4, <2>1, <2>2, ViewAlone
<1>6. CASE Lab!SaveSnapshot /\ ui.name # Lab!Null
  <2>1. PICK name : name = ui.name[1]
    OBVIOUS
  <2>2. PICK arg : arg = [strategy |-> ui.strategy[1], name |-> name, values |-> ui.values[1]]
    OBVIOUS
  <2>3. /\ ui.strategy # <<>>
        /\ ui' = [view EXCEPT !.saving = TRUE, !.saveError = FALSE]
        /\ net' = Lab!Issue(net, "save", arg) /\ db' = db
    BY <1>2, <1>6, <2>1, <2>2 DEF Lab!SaveSnapshot, Lab!Null
  <2>4. FitSet(arg)
    BY <1>1, <2>2, <2>3, SavedFits
  <2>5. LabRequests(Lab!Issue(net, "save", arg))
    BY <1>1, <2>4, LabIssued
  <2>6. /\ LabFields \subseteq DOMAIN ui'
        /\ ui'.strategy = view.strategy /\ ui'.values = view.values
        /\ ui'.sets = view.sets /\ ui'.runs = view.runs /\ ui'.log = view.log
    BY <1>3, <2>3 DEF LabFields
  <2> QED
    BY <1>4, <2>3, <2>5, <2>6, ViewAlone
<1>7. CASE Lab!LaunchBacktest
  <2>1. PICK arg :
          /\ ui' = [view EXCEPT !.launching = TRUE, !.launchError = FALSE]
          /\ net' = Lab!Issue(net, "launch", arg) /\ db' = db
    BY <1>2, <1>7 DEF Lab!LaunchBacktest
  <2>2. PICK op : op = "launch"
    OBVIOUS
  <2>3. LabRequests(Lab!Issue(net, op, arg))
    BY <1>1, <2>2, LabIssued
  <2>4. /\ LabFields \subseteq DOMAIN ui'
        /\ ui'.strategy = view.strategy /\ ui'.values = view.values
        /\ ui'.sets = view.sets /\ ui'.runs = view.runs /\ ui'.log = view.log
    BY <1>3, <2>1 DEF LabFields
  <2> QED
    BY <1>4, <2>1, <2>2, <2>3, <2>4, ViewAlone
<1> QED
  BY <1>5, <1>6, <1>7

\* Every step of the page and of its API keeps the invariant.
LEMMA LabKeeps ==
  ASSUME LabStored, LabInv, Lab!LabNext \/ UNCHANGED <<ui, net, db, wire>>
  PROVE  LabInv'
<1>1. ViewFits(ui) /\ LabRequests(net) /\ "sets" \in DOMAIN db /\ FitSets(db.sets)
  BY DEF LabInv
<1>2. CASE UNCHANGED <<ui, net, db, wire>>
  BY <1>1, <1>2 DEF LabInv
<1>3. CASE \/ \E slug \in Lab!ToSet(Strategies) : Lab!SelectStrategy(slug)
           \/ \E key \in DOMAIN Typed : \E value \in Typed[key] : Lab!EditValue(key, value)
           \/ \E name \in Names : Lab!TypeName(name)
           \/ \E capital \in Capitals : Lab!TypeCapital(capital)
           \/ \E i \in DOMAIN Lab!StrategySets : Lab!ViewSnapshot(i) \/ Lab!ApplySnapshot(i)
           \/ \E i \in DOMAIN Backtests : Lab!ToggleComparison(Backtests[i].id)
           \/ Lab!CreateLogEntry
  <2>1. \/ \E slug : Lab!SelectStrategy(slug)
        \/ \E key \in DOMAIN Typed : \E x \in Typed[key] : Lab!EditValue(key, x)
        \/ \E name : Lab!TypeName(name)
        \/ \E capital : Lab!TypeCapital(capital)
        \/ \E i \in DOMAIN Lab!StrategySets : Lab!ViewSnapshot(i) \/ Lab!ApplySnapshot(i)
        \/ \E id : Lab!ToggleComparison(id)
        \/ Lab!CreateLogEntry
    BY Zenon, <1>3
  <2>2. ViewFits(ui') /\ net' = net /\ db' = db
    BY <2>1, LabClicked
  <2> QED
    BY <1>1, <2>2 DEF LabInv
<1>4. CASE Lab!SaveSnapshot \/ Lab!LaunchBacktest
  BY <1>1, <1>4, LabAsked DEF LabInv
<1>5. CASE Lab!Deliver
  <2>1. db' = db
    BY <1>5 DEF Lab!Deliver
  <2> QED
    BY <1>1, <1>5, <2>1, LabDelivered DEF LabInv
<1>6. CASE Lab!Serve
  <2>1. ui' = ui
    BY <1>6 DEF Lab!Serve
  <2> QED
    BY <1>1, <1>6, <2>1, LabAnswered DEF LabInv
<1>7. CASE Lab!RequestFails
  <2>1. PICK i \in DOMAIN net : net' = Lab!Refused(i)
    BY <1>7 DEF Lab!RequestFails
  <2>2. PICK n : db' = [db EXCEPT !.failures = n]
    BY <1>7 DEF Lab!RequestFails
  <2>3. ui' = ui
    BY <1>7 DEF Lab!RequestFails
  <2>4. LabRequests(net')
    BY <1>1, <2>1, LabRefused
  <2>5. "sets" \in DOMAIN db' /\ db'.sets = db.sets
    BY <1>1, <2>2
  <2> QED
    BY <1>1, <2>3, <2>4, <2>5 DEF LabInv
<1> QED
  BY <1>2, <1>3, <1>4, <1>5, <1>6, <1>7 DEF Lab!LabNext

\* The lab mounts with nothing selected, three lists on their way.
LEMMA LabStarts ==
  ASSUME LabStored, Lab!LabInit
  PROVE  LabInv
<1>1. /\ LabFields \subseteq DOMAIN ui
      /\ ui.strategy = <<>> /\ ui.sets = <<>> /\ ui.runs = <<>> /\ ui.log = <<>>
  BY DEF Lab!LabInit, LabFields, Lab!Null
<1>2. <<>> \in Seq(Range(<<>>)) /\ DOMAIN <<>> = {}
  OBVIOUS
<1>3. FitSets(<<>>) /\ LogFits(<<>>)
  BY <1>2 DEF FitSets, LogFits
<1>4. Drawn(<<>>)
  BY CompletedDrawn DEF LabStored
<1>5. ViewFits(ui)
  BY <1>1, <1>3, <1>4 DEF ViewFits, FormHolds
<1>6. LabRequests(net)
  <2>1. LabRequests(<<>>)
    BY <1>2 DEF LabRequests, InFlight
  <2>2. PICK arg : arg = 0
    OBVIOUS
  <2>3. PICK first : first = Lab!Issue(<<>>, "strategies", arg)
    OBVIOUS
  <2>4. LabRequests(first)
    BY <2>1, <2>3, LabIssued
  <2>5. PICK second : second = Lab!Issue(first, "backtests", arg)
    OBVIOUS
  <2>6. LabRequests(second)
    BY <2>4, <2>5, LabIssued
  <2>7. PICK third : third = Lab!Issue(second, "sets", arg)
    OBVIOUS
  <2>8. LabRequests(third)
    BY <2>6, <2>7, LabIssued
  <2>9. net = third
    BY <2>2, <2>3, <2>5, <2>7 DEF Lab!LabInit
  <2> QED
    BY <2>8, <2>9
<1>7. "sets" \in DOMAIN db /\ FitSets(db.sets)
  BY DEF Lab!LabInit, LabStored
<1> QED
  BY <1>5, <1>6, <1>7 DEF LabInv
=============================================================================
