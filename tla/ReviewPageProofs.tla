-------------------------- MODULE ReviewPageProofs --------------------------
(***************************************************************************)
(* Proofs about the pages that review and research: the decision records,  *)
(* the risk rules, the backtests, mission control, the arena and the       *)
(* dashboard, each on its own, whatever its bounds.  OperatorConsoleProofs *)
(* puts them on the page that is mounted.                                  *)
(***************************************************************************)
EXTENDS RequestProofs

CONSTANTS
  RecordsClicks, RecordsFailures, RiskClicks, RiskFailures,
  Actions, TypedSizes, DefaultSize, LargestSize, Evidence, MaxDecisions,
  Accounts, RuleSets, RuleChanges,
  BacktestsClicks, BacktestsFailures, BtStrategies, BtSets, Outcomes, Earlier, MaxBacktests,
  MissionClicks, MissionFailures, Windows, ExpectedGap, CapturedAt, Modes, Dates, Sections,
  ArenaClicks, ArenaFailures, Ranking, Adapters, MaxGeneration,
  DashboardClicks, DashboardFailures, Ranges, Health, HistoryPages, Frames

VARIABLES ui, net, db, wire

----------------------------------------------------------------------------
(* The arena on an ordered wire, where the load is answered before anything *)
(* is asked of it.                                                          *)

Arena == INSTANCE DecisionArenaPage
  WITH MaxClicks <- ArenaClicks, MaxFailures <- ArenaFailures

\* What the page shows that the properties are about.
ArenaFields ==
  {"fixed", "candidates", "evaluated", "status", "memory", "evolution", "evolved", "analytics",
   "campaigns"}

\* Requests are answered in the order they were issued, and only the answers that
\* are good carry something.
InOrder(q) ==
  /\ InFlight(q)
  /\ \A i \in DOMAIN q : /\ q[i].ok \in BOOLEAN
                         /\ q[i].ok => q[i].back
                         /\ q[i].val = IF q[i].ok THEN <<q[i].val[1]>> ELSE <<>>
  /\ \A i, j \in DOMAIN q : j < i /\ q[i].back => q[j].back

\* Nothing was run, remembered or created; the page shows nothing.
Pristine(d) == d.runs = 0 /\ d.memory = {} /\ d.campaigns = <<>>
Unloaded(u) ==
  /\ u.fixed = <<>> /\ u.candidates = {} /\ u.evaluated = <<>> /\ u.status = <<>>
  /\ u.memory = {} /\ u.evolved = <<>> /\ u.analytics = <<>> /\ u.campaigns = <<>>

\* The load is the oldest request, and served before anything else.
LoadFirst(q, u, d) ==
  \A i \in DOMAIN q : q[i].op = "load" =>
    /\ i = 1 /\ Unloaded(u)
    /\ ~q[i].back => Pristine(d)
    /\ q[i].ok => Pristine(q[i].val[1]) /\ q[i].val[1].analytics.runs = 0

\* Candidates that are evaluated are listed.
Named(q, u) ==
  /\ \A i \in DOMAIN q : q[i].op = "evaluate" =>
       q[i].arg \subseteq u.candidates /\ (q[i].ok => q[i].val[1] = q[i].arg)
  /\ u.evaluated # <<>> => u.evaluated[1] \subseteq u.candidates

\* The reads that follow a run, an evolution or a campaign.
Reads == {"laboratoryRead", "laboratoryAnalytics", "evolutionRead", "campaignRead"}
Evolving == {"evolve", "evolutionRead"}

Working(u) == u.status # <<>> /\ u.status[1] > 0

\* All of them are of a laboratory that has run.
RunsBefore(q, u, d) ==
  /\ d.runs \in Nat /\ (d.memory # {} <=> d.runs > 0)
  /\ \A i \in DOMAIN q :
       /\ q[i].op \in Reads \/ (q[i].op \in {"runLaboratory", "runCampaign"} /\ q[i].ok) => d.runs > 0
       /\ q[i].op \in Reads /\ q[i].ok => q[i].val[1].runs > 0 /\ q[i].val[1].analytics.runs > 0
       /\ q[i].op = "laboratoryAnalytics" => q[i].arg.runs > 0
       /\ q[i].op \in Evolving => Working(u)
  /\ u.memory # {} => Working(u)
  /\ Working(u) => d.runs > 0
  /\ u.status # <<>> => (u.status[1] > 0 <=> u.analytics # <<>> /\ u.analytics[1].runs > 0)

\* The memory of an answer, or of the answer a request goes on from, holds E.
Holds(r, E) ==
  /\ r.op \in Reads /\ r.ok => E \subseteq r.val[1].memory
  /\ r.op = "laboratoryAnalytics" => E \subseteq r.arg.memory

\* One evolution at a time: its descendants are remembered by the API as soon as it
\* answers, by every read answered after that, and by the page once it is done.
Descended(q, u, d) ==
  /\ \A i, j \in DOMAIN q : q[i].op \in Evolving /\ q[j].op \in Evolving => i = j
  /\ \A i \in DOMAIN q : q[i].op \in Evolving => u.evolution.busy
  /\ ~u.evolution.busy /\ u.evolved # <<>> =>
       /\ u.evolved[1] \subseteq u.memory /\ u.evolved[1] \subseteq d.memory
       /\ \A i \in DOMAIN q : Holds(q[i], u.evolved[1])
  /\ \A i \in DOMAIN q : q[i].op = "evolve" /\ q[i].ok =>
       /\ q[i].val[1] \subseteq d.memory
       /\ \A j \in DOMAIN q : j > i /\ q[j].op \in Reads /\ q[j].ok =>
            q[i].val[1] \subseteq q[j].val[1].memory
  /\ \A i \in DOMAIN q : q[i].op = "evolutionRead" =>
       /\ u.evolved # <<>> /\ u.evolved[1] \subseteq d.memory
       /\ \A j \in DOMAIN q : q[j].op \in Reads /\ q[j].ok => u.evolved[1] \subseteq q[j].val[1].memory
       /\ \A j \in DOMAIN q : j > i => Holds(q[j], u.evolved[1])

\* A list of campaigns, newest first, and the campaign of an id.
Listing(s) ==
  /\ s \in Seq(Range(s))
  /\ \A j \in DOMAIN s : {"id", "runs"} \subseteq DOMAIN s[j] /\ s[j].id = Len(s) + 1 - j
Entry(s, id) == s[Len(s) + 1 - id]

\* A campaign's run that was answered, and the one that was answered last.
Ran(q, i, id) == i \in DOMAIN q /\ q[i].op = "runCampaign" /\ q[i].back /\ q[i].arg = id
RanLast(q, i, id) == Ran(q, i, id) /\ \A j \in DOMAIN q : Ran(q, j, id) => j <= i
Created(q, i) == i \in DOMAIN q /\ q[i].op = "createCampaign" /\ q[i].back

\* The answers on their way are what the page's list lacks of the API's: the
\* campaigns created since, in order, and the last run of each campaign.
Catching(q, u, d) ==
  /\ Listing(d.campaigns) /\ Listing(u.campaigns) /\ Len(u.campaigns) <= Len(d.campaigns)
  /\ \A i \in DOMAIN q : q[i].op \in {"load", "createCampaign", "runCampaign"} /\ q[i].back => q[i].ok
  /\ \A i \in DOMAIN q : Created(q, i) =>
       /\ q[i].val[1].id \in (Len(u.campaigns) + 1)..Len(d.campaigns)
       /\ q[i].val[1] = Entry(d.campaigns, q[i].val[1].id)
  /\ \A i, j \in DOMAIN q : Created(q, i) /\ Created(q, j) /\ i < j => q[i].val[1].id < q[j].val[1].id
  /\ \A id \in (Len(u.campaigns) + 1)..Len(d.campaigns) :
       \E i \in DOMAIN q : Created(q, i) /\ q[i].val[1].id = id
  /\ \A i \in DOMAIN q : q[i].op = "runCampaign" =>
       /\ q[i].arg \in 1..Len(u.campaigns)
       /\ q[i].back => {"id", "runs"} \subseteq DOMAIN q[i].val[1] /\ q[i].val[1].id = q[i].arg
  /\ \A id \in 1..Len(u.campaigns) :
       /\ (\A i \in DOMAIN q : ~Ran(q, i, id)) => Entry(u.campaigns, id) = Entry(d.campaigns, id)
       /\ \A i \in DOMAIN q : RanLast(q, i, id) => q[i].val[1] = Entry(d.campaigns, id)

Stored(d) ==
  /\ d = [runs |-> d.runs, memory |-> d.memory, generated |-> d.generated,
          campaigns |-> d.campaigns, failures |-> d.failures]
  /\ d.failures \in Nat

ArenaFacts(q, u, d) ==
  /\ ArenaFields \subseteq DOMAIN u /\ Stored(d)
  /\ InOrder(q) /\ LoadFirst(q, u, d) /\ Named(q, u) /\ RunsBefore(q, u, d) /\ Descended(q, u, d)
  /\ d.failures = 0 => Catching(q, u, d)

ArenaInv == wire = "ordered" => ArenaFacts(net, ui, db)

\* What the page shows agrees.
LEMMA ArenaHolds ==
  ASSUME ArenaInv
  PROVE  Arena!ArenaAgrees
<1> SUFFICES ASSUME wire = "ordered"
             PROVE  Arena!ArenaAgrees
  BY DEF Arena!ArenaAgrees, Arena!CampaignsAsStored, Arena!EvaluationsAreNamed, Arena!SectionsAgree
<1>1. ArenaFacts(net, ui, db)
  BY DEF ArenaInv
<1>2. Arena!CampaignsAsStored
  <2>1. SUFFICES ASSUME net = <<>>, db.failures = 0
                 PROVE  ui.campaigns = db.campaigns
    BY DEF Arena!CampaignsAsStored
  <2> DEFINE s == ui.campaigns
             t == db.campaigns
  <2>2. DOMAIN net = {}
    BY <2>1
  <2>3. Catching(net, ui, db)
    BY <1>1, <2>1 DEF ArenaFacts
  <2>4. /\ s \in Seq(Range(s)) /\ t \in Seq(Range(t)) /\ Len(s) <= Len(t)
        /\ \A id \in (Len(s) + 1)..Len(t) : FALSE
        /\ \A id \in 1..Len(s) : Entry(s, id) = Entry(t, id)
    BY <2>2, <2>3 DEF Catching, Listing
  <2> HIDE DEF s, t
  <2>5. /\ Len(s) \in Nat /\ Len(t) \in Nat /\ DOMAIN s = 1..Len(s) /\ DOMAIN t = 1..Len(t)
        /\ s = [j \in 1..Len(s) |-> s[j]] /\ t = [j \in 1..Len(t) |-> t[j]]
    BY <2>4, LenProperties
  <2>6. Len(s) = Len(t)
    <3>1. PICK m \in Nat, n \in Nat : m = Len(s) /\ n = Len(t)
      BY <2>5
    <3>2. m <= n /\ \A id \in (m + 1)..n : FALSE
      BY <2>4, <3>1
    <3>3. n \notin (m + 1)..n
      BY <3>2
    <3> QED
      BY <3>1, <3>2, <3>3
  <2>7. ASSUME NEW j \in 1..Len(s)
        PROVE  s[j] = t[j]
    <3>1. PICK id \in 1..Len(s) : id = Len(s) + 1 - j
      BY <2>5
    <3>2. Len(s) + 1 - id = j
      BY <2>5, <3>1
    <3> QED
      BY <2>4, <2>6, <3>2 DEF Entry
  <2>8. s = t
    BY <2>5, <2>6, <2>7
  <2> QED
    BY <2>8 DEF s, t
<1>3. Arena!EvaluationsAreNamed
  BY <1>1 DEF Arena!EvaluationsAreNamed, Arena!EvaluationNamed, ArenaFacts, Named, Arena!Null
<1>4. Arena!SectionsAgree
  BY <1>1 DEF Arena!SectionsAgree, Arena!AnalyticsSection, Arena!EvolutionSection, Arena!Shows,
    ArenaFacts, RunsBefore, Descended, Arena!Null
<1> QED
  BY <1>2, <1>3, <1>4 DEF Arena!ArenaAgrees

\* A request that is issued is the last, and not answered.
LEMMA ArenaIssued ==
  ASSUME NEW q, InOrder(q), NEW op, NEW arg
  PROVE  LET n == Arena!Issue(q, op, arg)
             k == Len(q) + 1 IN
         /\ InOrder(n) /\ Len(q) \in Nat /\ DOMAIN q = 1..Len(q) /\ DOMAIN n = 1..k
         /\ \A j \in 1..Len(q) : n[j] = q[j]
         /\ n[k].op = op /\ n[k].arg = arg /\ ~n[k].back /\ ~n[k].ok /\ n[k].val = <<>>
<1> DEFINE r == Arena!NewRequest(op, arg)
           n == Append(q, r)
<1>1. /\ IsRequest(r)
      /\ r.op = op /\ r.arg = arg /\ r.back = FALSE /\ r.ok = FALSE /\ r.val = <<>>
  BY DEF IsRequest, Arena!NewRequest, Arena!Null
<1> HIDE DEF r
<1>2. InFlight(q)
  BY DEF InOrder
<1>3. /\ InFlight(n) /\ Len(q) \in Nat /\ DOMAIN q = 1..Len(q) /\ DOMAIN n = 1..(Len(q) + 1)
      /\ \A j \in 1..Len(q) : n[j] = q[j]
      /\ n[Len(q) + 1] = r
  BY <1>1, <1>2, Issued
<1> HIDE DEF n
<1>4. InOrder(n)
  <2> DEFINE k == Len(q) + 1
  <2>1. \A j \in DOMAIN n : j = k \/ (j \in DOMAIN q /\ n[j] = q[j])
    BY <1>3
  <2>2. /\ n[k].ok = FALSE /\ n[k].val = <<>> /\ ~n[k].back
        /\ \A j \in DOMAIN n : ~(k < j)
    BY <1>1, <1>3
  <2> HIDE DEF k
  <2>3. ASSUME NEW i \in DOMAIN n, NEW j \in DOMAIN n, j < i, n[i].back
        PROVE  n[j].back
    BY <2>1, <2>2, <2>3 DEF InOrder
  <2>4. \A j \in DOMAIN n : /\ n[j].ok \in BOOLEAN
                            /\ n[j].ok => n[j].back
                            /\ n[j].val = IF n[j].ok THEN <<n[j].val[1]>> ELSE <<>>
    BY <2>1, <2>2 DEF InOrder
  <2> QED
    BY <1>3, <2>3, <2>4 DEF InOrder
<1> QED
  BY <1>1, <1>3, <1>4 DEF n, r, Arena!Issue

\* The oldest request leaves.
LEMMA ArenaHandled ==
  ASSUME NEW q, InOrder(q), 1 \in DOMAIN q
  PROVE  LET n == Without(q, 1) IN
         /\ InOrder(n) /\ Len(q) \in Nat /\ DOMAIN q = 1..Len(q) /\ DOMAIN n = 1..(Len(q) - 1)
         /\ \A j \in 1..(Len(q) - 1) : n[j] = q[j + 1]
<1> DEFINE n == Without(q, 1)
<1>1. InFlight(q)
  BY DEF InOrder
<1>2. /\ InFlight(n) /\ Len(q) \in Nat /\ DOMAIN q = 1..Len(q) /\ DOMAIN n = 1..(Len(q) - 1)
      /\ \A j \in 1..(Len(q) - 1) : n[j] = q[IF j < 1 THEN j ELSE j + 1]
  BY <1>1, Removed
<1> HIDE DEF n
<1>3. \A j \in 1..(Len(q) - 1) : j + 1 \in 1..Len(q) /\ n[j] = q[j + 1]
  BY <1>2
<1>4. InOrder(n)
  <2>1. \A j \in DOMAIN n : j + 1 \in DOMAIN q /\ n[j] = q[j + 1]
    BY <1>2, <1>3
  <2>2. ASSUME NEW i \in DOMAIN n, NEW j \in DOMAIN n, j < i, n[i].back
        PROVE  n[j].back
    <3>1. i \in Int /\ j \in Int /\ j + 1 < i + 1
      BY <1>2, <2>2
    <3> QED
      BY <2>1, <2>2, <3>1 DEF InOrder
  <2> QED
    BY <1>2, <2>1, <2>2 DEF InOrder
<1> QED
  BY <1>2, <1>3, <1>4 DEF n

\* A request is answered after those issued before it.
LEMMA ArenaAnswered ==
  ASSUME NEW q, InOrder(q), NEW i \in DOMAIN q, NEW okay \in BOOLEAN, NEW v,
         v = IF okay THEN <<v[1]>> ELSE <<>>, \A j \in 1..(i - 1) : q[j].back
  PROVE  LET n == Answer(q, i, okay, v) IN
         /\ InOrder(n) /\ Len(q) \in Nat /\ DOMAIN q = 1..Len(q) /\ DOMAIN n = 1..Len(q)
         /\ \A j \in 1..Len(q) : j # i => n[j] = q[j]
         /\ n[i].op = q[i].op /\ n[i].arg = q[i].arg /\ n[i].back /\ n[i].ok = okay
         /\ n[i].val = v
<1> DEFINE n == Answer(q, i, okay, v)
<1>1. InFlight(q)
  BY DEF InOrder
<1>2. /\ InFlight(n) /\ Len(q) \in Nat /\ DOMAIN q = 1..Len(q) /\ DOMAIN n = 1..Len(q)
      /\ \A j \in 1..Len(q) : j # i => n[j] = q[j]
      /\ n[i] = [op |-> q[i].op, arg |-> q[i].arg, back |-> TRUE, ok |-> okay, val |-> v]
  BY <1>1, Answered
<1> HIDE DEF n
<1>3. /\ n[i].op = q[i].op /\ n[i].arg = q[i].arg /\ n[i].back /\ n[i].ok = okay
      /\ n[i].val = v
  BY <1>2
<1>4. InOrder(n)
  <2>1. \A k \in DOMAIN n : /\ n[k].ok \in BOOLEAN
                            /\ n[k].ok => n[k].back
                            /\ n[k].val = IF n[k].ok THEN <<n[k].val[1]>> ELSE <<>>
    BY <1>2, <1>3 DEF InOrder
  <2>2. ASSUME NEW k \in DOMAIN n, NEW j \in DOMAIN n, j < k, n[k].back
        PROVE  n[j].back
    <3>1. CASE j = i
      BY <1>3, <3>1
    <3>2. CASE j # i /\ k = i
      BY <1>2, <2>2, <3>2
    <3>3. CASE j # i /\ k # i
      BY <1>2, <2>2, <3>3 DEF InOrder
    <3> QED
      BY <3>1, <3>2, <3>3
  <2> QED
    BY <1>2, <2>1, <2>2 DEF InOrder
<1> QED
  BY <1>2, <1>3, <1>4 DEF n

\* What a request may be when it is issued.
MayAsk(q, u, d, op, arg) ==
  /\ op # "load"
  /\ op = "evaluate" => arg \subseteq u.candidates
  /\ op \in Reads => d.runs > 0
  /\ op = "laboratoryAnalytics" =>
       /\ arg.runs > 0
       /\ ~u.evolution.busy /\ u.evolved # <<>> => u.evolved[1] \subseteq arg.memory
       /\ \A i \in DOMAIN q : q[i].op = "evolutionRead" => u.evolved[1] \subseteq arg.memory
  /\ op \in Evolving =>
       /\ Working(u) /\ u.evolution.busy
       /\ \A i \in DOMAIN q : q[i].op \notin Evolving
  /\ op = "evolutionRead" =>
       /\ u.evolved # <<>> /\ u.evolved[1] \subseteq d.memory
       /\ \A j \in DOMAIN q : q[j].op \in Reads /\ q[j].ok => u.evolved[1] \subseteq q[j].val[1].memory
  /\ op = "runCampaign" /\ d.failures = 0 => arg \in 1..Len(u.campaigns)

\* The page asks for one thing more.
LEMMA ArenaAsks ==
  ASSUME NEW q, NEW u, NEW d, ArenaFacts(q, u, d), NEW op, NEW arg, MayAsk(q, u, d, op, arg)
  PROVE  ArenaFacts(Arena!Issue(q, op, arg), u, d)
<1> DEFINE n == Arena!Issue(q, op, arg)
           k == Len(q) + 1
<1>1. /\ InOrder(n) /\ Len(q) \in Nat /\ DOMAIN q = 1..Len(q) /\ DOMAIN n = 1..k
      /\ \A j \in 1..Len(q) : n[j] = q[j]
      /\ n[k].op = op /\ n[k].arg = arg /\ ~n[k].back /\ ~n[k].ok /\ n[k].val = <<>>
  <2>1. InOrder(q)
    BY DEF ArenaFacts
  <2> QED
    BY <2>1, ArenaIssued
<1> HIDE DEF n
<1>2. \A j \in DOMAIN n : j = k \/ (j \in DOMAIN q /\ n[j] = q[j])
  BY <1>1
<1>3. /\ k \in DOMAIN n /\ \A j \in DOMAIN n : ~(k < j)
      /\ \A j \in DOMAIN q : j \in DOMAIN n /\ n[j] = q[j] /\ j # k
  BY <1>1
<1>4. n[k].op = op /\ n[k].arg = arg /\ ~n[k].back /\ ~n[k].ok
  BY <1>1
<1> HIDE DEF k
<1>5. LoadFirst(n, u, d)
  BY <1>2, <1>4 DEF LoadFirst, ArenaFacts, MayAsk
<1>6. Named(n, u)
  BY <1>2, <1>4 DEF Named, ArenaFacts, MayAsk
<1>7. RunsBefore(n, u, d)
  BY <1>2, <1>4 DEF RunsBefore, ArenaFacts, MayAsk
<1>8. Descended(n, u, d)
  <2>1. Descended(q, u, d)
    BY DEF ArenaFacts
  <2>2. ASSUME NEW i \in DOMAIN n, NEW j \in DOMAIN n, n[i].op \in Evolving, n[j].op \in Evolving
        PROVE  i = j
    BY <1>2, <1>4, <2>1, <2>2 DEF MayAsk, Descended
  <2>3. ASSUME NEW i \in DOMAIN n, n[i].op \in Evolving
        PROVE  u.evolution.busy
    BY <1>2, <1>4, <2>1, <2>3 DEF MayAsk, Descended
  <2>4. ASSUME ~u.evolution.busy, u.evolved # <<>>
        PROVE  /\ u.evolved[1] \subseteq u.memory /\ u.evolved[1] \subseteq d.memory
               /\ \A i \in DOMAIN n : Holds(n[i], u.evolved[1])
    <3>1. Holds(n[k], u.evolved[1])
      BY <1>4, <2>4 DEF MayAsk, Holds
    <3> QED
      BY <1>2, <2>1, <2>4, <3>1 DEF Descended
  <2>5. ASSUME NEW i \in DOMAIN n, n[i].op = "evolve", n[i].ok
        PROVE  /\ n[i].val[1] \subseteq d.memory
               /\ \A j \in DOMAIN n : j > i /\ n[j].op \in Reads /\ n[j].ok =>
                    n[i].val[1] \subseteq n[j].val[1].memory
    BY <1>2, <1>4, <2>1, <2>5 DEF Descended
  <2>6. ASSUME NEW i \in DOMAIN n, n[i].op = "evolutionRead"
        PROVE  /\ u.evolved # <<>> /\ u.evolved[1] \subseteq d.memory
               /\ \A j \in DOMAIN n : n[j].op \in Reads /\ n[j].ok => u.evolved[1] \subseteq n[j].val[1].memory
               /\ \A j \in DOMAIN n : j > i => Holds(n[j], u.evolved[1])
    <3>1. CASE i = k
      <4>1. \A j \in DOMAIN n : ~(j > i)
        BY <1>1, <1>3, <3>1 DEF k
      <4> QED
        BY <1>2, <1>4, <2>6, <3>1, <4>1 DEF MayAsk
    <3>2. CASE i # k
      <4>1. i \in DOMAIN q /\ q[i].op = "evolutionRead"
        BY <1>2, <2>6, <3>2
      <4>2. Holds(n[k], u.evolved[1])
        BY <1>4, <4>1 DEF MayAsk, Holds, Evolving
      <4> QED
        BY <1>2, <1>4, <2>1, <4>1, <4>2 DEF Descended
    <3> QED
      BY <3>1, <3>2
  <2> QED
    BY <2>2, <2>3, <2>4, <2>5, <2>6 DEF Descended
<1>9. ASSUME d.failures = 0
      PROVE  Catching(n, u, d)
  <2>1. Catching(q, u, d)
    BY <1>9 DEF ArenaFacts
  <2>2. \A i : Created(n, i) <=> Created(q, i)
    BY <1>2, <1>3, <1>4 DEF Created
  <2>3. \A i, id : Ran(n, i, id) <=> Ran(q, i, id)
    BY <1>2, <1>3, <1>4 DEF Ran
  <2>4. \A i : Created(n, i) => i \in DOMAIN q /\ n[i] = q[i]
    BY <1>2, <1>3, <2>2 DEF Created
  <2>5. \A i, id : RanLast(n, i, id) => RanLast(q, i, id) /\ n[i] = q[i]
    BY <1>2, <1>3, <2>3 DEF RanLast, Ran
  <2>6. \A i \in DOMAIN n : n[i].op \in {"load", "createCampaign", "runCampaign"} /\ n[i].back => n[i].ok
    BY <1>2, <1>4, <2>1 DEF Catching
  <2>7. \A i \in DOMAIN n : n[i].op = "runCampaign" =>
          /\ n[i].arg \in 1..Len(u.campaigns)
          /\ n[i].back => {"id", "runs"} \subseteq DOMAIN n[i].val[1] /\ n[i].val[1].id = n[i].arg
    BY <1>2, <1>4, <1>9, <2>1 DEF Catching, MayAsk
  <2>8. \A id \in (Len(u.campaigns) + 1)..Len(d.campaigns) :
          \E i \in DOMAIN n : Created(n, i) /\ n[i].val[1].id = id
    <3>1. ASSUME NEW id \in (Len(u.campaigns) + 1)..Len(d.campaigns)
          PROVE  \E i \in DOMAIN n : Created(n, i) /\ n[i].val[1].id = id
      <4>1. PICK i \in DOMAIN q : Created(q, i) /\ q[i].val[1].id = id
        BY <2>1 DEF Catching
      <4> QED
        BY <1>3, <2>2, <4>1
    <3> QED
      BY <3>1
  <2>9. \A id \in 1..Len(u.campaigns) :
          /\ (\A i \in DOMAIN n : ~Ran(n, i, id)) => Entry(u.campaigns, id) = Entry(d.campaigns, id)
          /\ \A i \in DOMAIN n : RanLast(n, i, id) => n[i].val[1] = Entry(d.campaigns, id)
    <3>1. \A id : (\A i \in DOMAIN n : ~Ran(n, i, id)) => \A i \in DOMAIN q : ~Ran(q, i, id)
      BY <1>3, <2>3
    <3>2. \A id, i : RanLast(n, i, id) => i \in DOMAIN q
      BY <2>5 DEF RanLast, Ran
    <3> QED
      BY <2>1, <2>5, <3>1, <3>2 DEF Catching
  <2>10. /\ \A i \in DOMAIN n : Created(n, i) =>
             /\ n[i].val[1].id \in (Len(u.campaigns) + 1)..Len(d.campaigns)
             /\ n[i].val[1] = Entry(d.campaigns, n[i].val[1].id)
         /\ \A i, j \in DOMAIN n : Created(n, i) /\ Created(n, j) /\ i < j => n[i].val[1].id < n[j].val[1].id
    BY <2>1, <2>2, <2>4 DEF Catching
  <2> QED
    BY <2>1, <2>6, <2>7, <2>8, <2>9, <2>10 DEF Catching
<1>10. ArenaFacts(n, u, d)
  BY <1>1, <1>5, <1>6, <1>7, <1>8, <1>9 DEF ArenaFacts
<1> QED
  BY <1>10 DEF n

\* The facts are about what the page shows of what they name.
LEMMA ArenaShows ==
  ASSUME NEW q, NEW u, NEW d, ArenaFacts(q, u, d), NEW v, ArenaFields \subseteq DOMAIN v,
         v.fixed = u.fixed, v.candidates = u.candidates, v.evaluated = u.evaluated,
         v.status = u.status, v.memory = u.memory, v.analytics = u.analytics,
         v.campaigns = u.campaigns, v.evolved = u.evolved,
         v.evolution = u.evolution
           \/ (v.evolution.busy /\ \A i \in DOMAIN q : q[i].op \notin Evolving)
  PROVE  ArenaFacts(q, v, d)
<1>1. LoadFirst(q, v, d) /\ Named(q, v)
  BY DEF ArenaFacts, LoadFirst, Named, Unloaded
<1>2. Working(u) <=> Working(v)
  BY DEF Working
<1>3. RunsBefore(q, v, d)
  BY <1>2 DEF ArenaFacts, RunsBefore
<1>4. Descended(q, v, d)
  <2>1. Descended(q, u, d)
    BY DEF ArenaFacts
  <2>2. CASE v.evolution = u.evolution
    BY <2>1, <2>2 DEF Descended
  <2>3. CASE v.evolution.busy /\ \A i \in DOMAIN q : q[i].op \notin Evolving
    BY <2>1, <2>3 DEF Descended, Evolving
  <2> QED
    BY <2>2, <2>3
<1>5. ASSUME d.failures = 0
      PROVE  Catching(q, v, d)
  BY <1>5 DEF ArenaFacts, Catching
<1> QED
  BY <1>1, <1>3, <1>4, <1>5 DEF ArenaFacts

\* What the page may show when the oldest answer was handled.
MayShow(q, u, d, v) ==
  /\ ArenaFields \subseteq DOMAIN v
  /\ u.candidates \subseteq v.candidates
  /\ v.evaluated # <<>> => v.evaluated[1] \subseteq v.candidates
  /\ Working(u) => Working(v)
  /\ v.memory # {} => Working(v)
  /\ Working(v) => d.runs > 0
  /\ v.status # <<>> => (v.status[1] > 0 <=> v.analytics # <<>> /\ v.analytics[1].runs > 0)
  /\ \A j \in DOMAIN q : j # 1 /\ q[j].op \in Evolving => v.evolution.busy
  /\ ~v.evolution.busy /\ v.evolved # <<>> =>
       /\ v.evolved[1] \subseteq v.memory /\ v.evolved[1] \subseteq d.memory
       /\ \A j \in DOMAIN q : j # 1 => Holds(q[j], v.evolved[1])
  /\ \A j \in DOMAIN q : j # 1 /\ q[j].op = "evolutionRead" => v.evolved = u.evolved
  /\ d.failures = 0 => Catching(Without(q, 1), v, d)

\* The oldest answer was handled.
LEMMA ArenaTakes ==
  ASSUME NEW q, NEW u, NEW d, ArenaFacts(q, u, d), 1 \in DOMAIN q, NEW v, MayShow(q, u, d, v)
  PROVE  ArenaFacts(Without(q, 1), v, d)
<1> DEFINE n == Without(q, 1)
<1>1. InOrder(q) /\ LoadFirst(q, u, d) /\ Named(q, u) /\ RunsBefore(q, u, d) /\ Descended(q, u, d)
  BY DEF ArenaFacts
<1>2. /\ InOrder(n) /\ Len(q) \in Nat /\ DOMAIN q = 1..Len(q) /\ DOMAIN n = 1..(Len(q) - 1)
      /\ \A j \in 1..(Len(q) - 1) : n[j] = q[j + 1]
  BY <1>1, ArenaHandled
<1>3. d.failures = 0 => Catching(n, v, d)
  BY DEF MayShow
<1> HIDE DEF n
<1>4. \A j \in DOMAIN n : j \in Nat /\ j + 1 \in DOMAIN q /\ j + 1 # 1 /\ n[j] = q[j + 1]
  BY <1>2
<1>5. LoadFirst(n, v, d)
  BY <1>1, <1>4 DEF LoadFirst
<1>6. Named(n, v)
  BY <1>1, <1>4 DEF Named, MayShow
<1>7. RunsBefore(n, v, d)
  BY <1>1, <1>4 DEF RunsBefore, MayShow
<1>8. Descended(n, v, d)
  <2>1. ASSUME NEW i \in DOMAIN n, NEW j \in DOMAIN n, n[i].op \in Evolving, n[j].op \in Evolving
        PROVE  i = j
    <3>1. i + 1 = j + 1
      BY <1>1, <1>4, <2>1 DEF Descended
    <3> QED
      BY <1>4, <3>1
  <2>2. ASSUME NEW i \in DOMAIN n, n[i].op \in Evolving
        PROVE  v.evolution.busy
    BY <1>4, <2>2 DEF MayShow
  <2>3. ASSUME ~v.evolution.busy, v.evolved # <<>>
        PROVE  /\ v.evolved[1] \subseteq v.memory /\ v.evolved[1] \subseteq d.memory
               /\ \A i \in DOMAIN n : Holds(n[i], v.evolved[1])
    BY <1>4, <2>3 DEF MayShow
  <2>4. ASSUME NEW i \in DOMAIN n, n[i].op = "evolve", n[i].ok
        PROVE  /\ n[i].val[1] \subseteq d.memory
               /\ \A j \in DOMAIN n : j > i /\ n[j].op \in Reads /\ n[j].ok =>
                    n[i].val[1] \subseteq n[j].val[1].memory
    <3>1. \A j \in DOMAIN n : j > i => j + 1 > i + 1
      BY <1>4
    <3> QED
      BY <1>1, <1>4, <2>4, <3>1 DEF Descended
  <2>5. ASSUME NEW i \in DOMAIN n, n[i].op = "evolutionRead"
        PROVE  /\ v.evolved # <<>> /\ v.evolved[1] \subseteq d.memory
               /\ \A j \in DOMAIN n : n[j].op \in Reads /\ n[j].ok => v.evolved[1] \subseteq n[j].val[1].memory
               /\ \A j \in DOMAIN n : j > i => Holds(n[j], v.evolved[1])
    <3>1. \A j \in DOMAIN n : j > i => j + 1 > i + 1
      BY <1>4
    <3>2. i + 1 \in DOMAIN q /\ q[i + 1].op = "evolutionRead" /\ v.evolved = u.evolved
      BY <1>4, <2>5 DEF MayShow
    <3> QED
      BY <1>1, <1>4, <3>1, <3>2 DEF Descended
  <2> QED
    BY <2>1, <2>2, <2>3, <2>4, <2>5 DEF Descended
<1>9. ArenaFacts(n, v, d)
  BY <1>2, <1>3, <1>5, <1>6, <1>7, <1>8 DEF ArenaFacts, MayShow
<1> QED
  BY <1>9 DEF n

\* What was created, what ran and what ran last keep their order.
LEMMA Shifted ==
  ASSUME NEW q, InOrder(q), 1 \in DOMAIN q
  PROVE  LET n == Without(q, 1) IN
         /\ \A j \in DOMAIN n : j \in Nat /\ j + 1 \in DOMAIN q /\ j + 1 # 1 /\ n[j] = q[j + 1]
         /\ \A j \in DOMAIN q : j \in Nat /\ (j # 1 => j - 1 \in DOMAIN n /\ n[j - 1] = q[j])
         /\ \A j \in DOMAIN n : Created(n, j) <=> Created(q, j + 1)
         /\ \A j \in DOMAIN n : \A id :
              /\ Ran(n, j, id) <=> Ran(q, j + 1, id)
              /\ RanLast(n, j, id) => RanLast(q, j + 1, id)
         /\ \A id : (\A j \in DOMAIN n : ~Ran(n, j, id)) => \A j \in DOMAIN q : Ran(q, j, id) => j = 1
<1> DEFINE n == Without(q, 1)
<1>1. /\ InOrder(n) /\ Len(q) \in Nat /\ DOMAIN q = 1..Len(q) /\ DOMAIN n = 1..(Len(q) - 1)
      /\ \A j \in 1..(Len(q) - 1) : n[j] = q[j + 1]
  BY ArenaHandled
<1> HIDE DEF n
<1>2. \A j \in DOMAIN n : j \in Nat /\ j + 1 \in DOMAIN q /\ j + 1 # 1 /\ n[j] = q[j + 1]
  BY <1>1
<1>3. ASSUME NEW j \in DOMAIN q
      PROVE  j \in Nat /\ (j # 1 => j - 1 \in DOMAIN n /\ n[j - 1] = q[j])
  <2>1. j \in Nat /\ (j # 1 => j - 1 \in 1..(Len(q) - 1) /\ (j - 1) + 1 = j)
    BY <1>1
  <2> QED
    BY <1>1, <2>1
<1>4. \A j \in DOMAIN n : Created(n, j) <=> Created(q, j + 1)
  BY <1>2 DEF Created
<1>5. \A j \in DOMAIN n : \A id : Ran(n, j, id) <=> Ran(q, j + 1, id)
  BY <1>2 DEF Ran
<1>6. ASSUME NEW j \in DOMAIN n, NEW id, RanLast(n, j, id)
      PROVE  RanLast(q, j + 1, id)
  <2>1. ASSUME NEW k \in DOMAIN q, Ran(q, k, id)
        PROVE  k <= j + 1
    <3>1. CASE k = 1
      BY <1>2, <3>1
    <3>2. CASE k # 1
      <4>1. k - 1 \in DOMAIN n /\ (k - 1) + 1 = k /\ k \in Nat /\ j \in Nat
        BY <1>2, <1>3, <3>2
      <4>2. k - 1 <= j
        BY <1>5, <1>6, <2>1, <4>1 DEF RanLast
      <4> QED
        BY <4>1, <4>2
    <3> QED
      BY <3>1, <3>2
  <2> QED
    BY <1>2, <1>5, <1>6, <2>1 DEF RanLast
<1>7. ASSUME NEW id, \A j \in DOMAIN n : ~Ran(n, j, id), NEW j \in DOMAIN q, Ran(q, j, id), j # 1
      PROVE  FALSE
  <2>1. j - 1 \in DOMAIN n /\ (j - 1) + 1 = j
    BY <1>3, <1>7
  <2> QED
    BY <1>5, <1>7, <2>1
<1> QED
  BY <1>2, <1>3, <1>4, <1>5, <1>6, <1>7 DEF n

\* Answers that are not about campaigns.
LEMMA OthersCatching ==
  ASSUME NEW q, NEW u, NEW d, Catching(q, u, d), InOrder(q), 1 \in DOMAIN q,
         q[1].op \notin {"createCampaign", "runCampaign"}, NEW v, v.campaigns = u.campaigns
  PROVE  Catching(Without(q, 1), v, d)
<1> DEFINE n == Without(q, 1)
<1>1. /\ \A j \in DOMAIN n : j \in Nat /\ j + 1 \in DOMAIN q /\ j + 1 # 1 /\ n[j] = q[j + 1]
      /\ \A j \in DOMAIN q : j \in Nat /\ (j # 1 => j - 1 \in DOMAIN n /\ n[j - 1] = q[j])
      /\ \A j \in DOMAIN n : Created(n, j) <=> Created(q, j + 1)
      /\ \A j \in DOMAIN n : \A id :
           /\ Ran(n, j, id) <=> Ran(q, j + 1, id)
           /\ RanLast(n, j, id) => RanLast(q, j + 1, id)
      /\ \A id : (\A j \in DOMAIN n : ~Ran(n, j, id)) => \A j \in DOMAIN q : Ran(q, j, id) => j = 1
  BY Shifted
<1> HIDE DEF n
<1>2. \A i \in DOMAIN n : n[i].op \in {"load", "createCampaign", "runCampaign"} /\ n[i].back => n[i].ok
  BY <1>1 DEF Catching
<1>3. \A i \in DOMAIN n : Created(n, i) =>
        /\ n[i].val[1].id \in (Len(v.campaigns) + 1)..Len(d.campaigns)
        /\ n[i].val[1] = Entry(d.campaigns, n[i].val[1].id)
  BY <1>1 DEF Catching
<1>4. ASSUME NEW i \in DOMAIN n, NEW j \in DOMAIN n, Created(n, i), Created(n, j), i < j
      PROVE  n[i].val[1].id < n[j].val[1].id
  <2>1. PICK a \in DOMAIN q, b \in DOMAIN q : a = i + 1 /\ b = j + 1
    BY <1>1
  <2>2. a < b /\ Created(q, a) /\ Created(q, b) /\ n[i] = q[a] /\ n[j] = q[b]
    BY <1>1, <1>4, <2>1
  <2> QED
    BY <2>2 DEF Catching
<1>5. ASSUME NEW id \in (Len(v.campaigns) + 1)..Len(d.campaigns)
      PROVE  \E i \in DOMAIN n : Created(n, i) /\ n[i].val[1].id = id
  <2>1. PICK j \in DOMAIN q : Created(q, j) /\ q[j].val[1].id = id
    BY DEF Catching
  <2>2. j # 1 /\ j - 1 \in DOMAIN n /\ n[j - 1] = q[j] /\ (j - 1) + 1 = j
    BY <1>1, <2>1 DEF Created
  <2>3. Created(n, j - 1) /\ n[j - 1].val[1].id = id
    BY <1>1, <2>1, <2>2
  <2> QED
    BY <2>2, <2>3
<1>6. \A i \in DOMAIN n : n[i].op = "runCampaign" =>
        /\ n[i].arg \in 1..Len(v.campaigns)
        /\ n[i].back => {"id", "runs"} \subseteq DOMAIN n[i].val[1] /\ n[i].val[1].id = n[i].arg
  BY <1>1 DEF Catching
<1>7. ASSUME NEW id \in 1..Len(v.campaigns)
      PROVE  /\ (\A i \in DOMAIN n : ~Ran(n, i, id)) => Entry(v.campaigns, id) = Entry(d.campaigns, id)
             /\ \A i \in DOMAIN n : RanLast(n, i, id) => n[i].val[1] = Entry(d.campaigns, id)
  <2>1. ASSUME \A i \in DOMAIN n : ~Ran(n, i, id)
        PROVE  Entry(v.campaigns, id) = Entry(d.campaigns, id)
    <3>1. \A j \in DOMAIN q : ~Ran(q, j, id)
      BY <1>1, <2>1 DEF Ran
    <3> QED
      BY <3>1 DEF Catching
  <2>2. ASSUME NEW i \in DOMAIN n, RanLast(n, i, id)
        PROVE  n[i].val[1] = Entry(d.campaigns, id)
    BY <1>1, <2>2 DEF Catching
  <2> QED
    BY <2>1, <2>2
<1>8. Listing(d.campaigns) /\ Listing(v.campaigns) /\ Len(v.campaigns) <= Len(d.campaigns)
  BY DEF Catching
<1>9. Catching(n, v, d)
  BY <1>2, <1>3, <1>4, <1>5, <1>6, <1>7, <1>8 DEF Catching
<1> QED
  BY <1>9 DEF n

\* An entry at the head of a list.
LEMMA Headed ==
  ASSUME NEW s, s \in Seq(Range(s)), NEW x
  PROVE  LET n == <<x>> \o s IN
         /\ n \in Seq(Range(n)) /\ Len(s) \in Nat /\ DOMAIN s = 1..Len(s)
         /\ Len(n) = Len(s) + 1 /\ DOMAIN n = 1..(Len(s) + 1)
         /\ n[1] = x /\ \A j \in 1..Len(s) : n[j + 1] = s[j]
<1> DEFINE S == Range(s) \cup {x}
           n == <<x>> \o s
<1>1. s \in Seq(S) /\ Len(s) \in Nat /\ DOMAIN s = 1..Len(s)
  BY SeqMonotonic, LenProperties
<1>2. PICK h : h = <<x>>
  OBVIOUS
<1>3. h \in Seq(S) /\ Len(h) = 1 /\ h[1] = x
  BY <1>2
<1> HIDE DEF S
<1>4. PICK m : m = h \o s
  OBVIOUS
<1>5. /\ m \in Seq(S) /\ Len(m) = 1 + Len(s)
      /\ \A j \in 1..(1 + Len(s)) : m[j] = IF j <= 1 THEN h[j] ELSE s[j - 1]
  <2>1. /\ h \o s \in Seq(S) /\ Len(h \o s) = Len(h) + Len(s)
        /\ \A j \in 1..(Len(h) + Len(s)) : (h \o s)[j] = IF j <= Len(h) THEN h[j] ELSE s[j - Len(h)]
    <3>1. h \in Seq(S) /\ s \in Seq(S)
      BY <1>1, <1>3
    <3> QED
      BY <3>1, ConcatProperties
  <2> QED
    BY <1>3, <1>4, <2>1
<1>6. DOMAIN m = 1..(Len(s) + 1) /\ Len(m) = Len(s) + 1 /\ m \in Seq(Range(m))
  BY <1>1, <1>5, LenProperties, SeqOfRange
<1>7. m[1] = x
  BY <1>1, <1>3, <1>5
<1>8. ASSUME NEW j \in 1..Len(s)
      PROVE  m[j + 1] = s[j]
  <2>1. j + 1 \in 1..(1 + Len(s)) /\ ~(j + 1 <= 1) /\ (j + 1) - 1 = j
    BY <1>1
  <2> QED
    BY <1>5, <2>1
<1> QED
  BY <1>1, <1>2, <1>4, <1>6, <1>7, <1>8

\* A campaign at the head of the list, with the next id.
LEMMA Listed ==
  ASSUME NEW s, Listing(s), NEW c, {"id", "runs"} \subseteq DOMAIN c, c.id = Len(s) + 1
  PROVE  LET n == <<c>> \o s IN
         /\ Listing(n) /\ Len(s) \in Nat /\ Len(n) = Len(s) + 1
         /\ Entry(n, Len(s) + 1) = c
         /\ \A id \in 1..Len(s) : Entry(n, id) = Entry(s, id)
<1> DEFINE n == <<c>> \o s
<1>1. s \in Seq(Range(s))
  BY DEF Listing
<1>2. /\ n \in Seq(Range(n)) /\ Len(s) \in Nat /\ DOMAIN s = 1..Len(s)
      /\ Len(n) = Len(s) + 1 /\ DOMAIN n = 1..(Len(s) + 1)
      /\ n[1] = c /\ \A j \in 1..Len(s) : n[j + 1] = s[j]
  BY <1>1, Headed
<1> HIDE DEF n
<1>3. PICK m \in Nat : m = Len(s)
  BY <1>2
<1>4. ASSUME NEW j \in DOMAIN n
      PROVE  {"id", "runs"} \subseteq DOMAIN n[j] /\ n[j].id = Len(n) + 1 - j
  <2>1. CASE j = 1
    <3>1. n[j] = c /\ c.id = m + 1 /\ Len(n) + 1 - 1 = m + 1
      BY <1>2, <1>3, <2>1
    <3> QED
      BY <2>1, <3>1
  <2>2. CASE j # 1
    <3>1. PICK k \in 1..m : k = j - 1
      BY <1>2, <1>3, <2>2
    <3>2. n[j] = s[k] /\ k \in DOMAIN s
      <4>1. k + 1 = j
        BY <1>2, <1>3, <3>1
      <4> QED
        BY <1>2, <1>3, <4>1
    <3>3. {"id", "runs"} \subseteq DOMAIN s[k] /\ s[k].id = m + 1 - k
      BY <1>3, <3>2 DEF Listing
    <3>4. m + 1 - k = Len(n) + 1 - j
      BY <1>2, <1>3, <3>1
    <3> QED
      BY <3>2, <3>3, <3>4
  <2> QED
    BY <2>1, <2>2
<1>5. Entry(n, Len(s) + 1) = c
  BY <1>2, <1>3 DEF Entry
<1>6. ASSUME NEW id \in 1..Len(s)
      PROVE  Entry(n, id) = Entry(s, id)
  <2>1. PICK k \in 1..m : k = m + 1 - id
    BY <1>3
  <2>2. n[k + 1] = s[k] /\ Len(n) + 1 - id = k + 1 /\ Len(s) + 1 - id = k
    BY <1>2, <1>3, <2>1
  <2> QED
    BY <2>2 DEF Entry
<1>7. Listing(n)
  BY <1>2, <1>4 DEF Listing
<1> QED
  BY <1>2, <1>5, <1>6, <1>7 DEF n

\* A campaign that changes does so in its place.
LEMMA Relisted ==
  ASSUME NEW s, Listing(s), NEW c, {"id", "runs"} \subseteq DOMAIN c, c.id \in 1..Len(s)
  PROVE  LET n == Arena!Updated(s, c) IN
         /\ Listing(n) /\ Len(n) = Len(s)
         /\ Entry(n, c.id) = c
         /\ \A id \in 1..Len(s) : id # c.id => Entry(n, id) = Entry(s, id)
         /\ \A j \in DOMAIN s : s[j].id = c.id => n = [s EXCEPT ![j] = c]
<1> DEFINE n == Arena!Updated(s, c)
<1>1. /\ s \in Seq(Range(s)) /\ Len(s) \in Nat /\ DOMAIN s = 1..Len(s)
      /\ s = [j \in 1..Len(s) |-> s[j]]
  BY LenProperties DEF Listing
<1>2. PICK m \in Nat : m = Len(s)
  BY <1>1
<1>3. n = [j \in 1..m |-> IF s[j].id = c.id THEN c ELSE s[j]]
  BY <1>1, <1>2 DEF Arena!Updated
<1>4. \A j \in 1..m : {"id", "runs"} \subseteq DOMAIN s[j] /\ s[j].id = m + 1 - j
  BY <1>1, <1>2 DEF Listing
<1> HIDE DEF n
<1>5. n \in Seq(Range(n)) /\ Len(n) = m /\ DOMAIN n = 1..m
  <2>1. \A j \in 1..m : n[j] \in Range(n)
    BY <1>3 DEF Range
  <2>2. n = [j \in 1..m |-> n[j]]
    BY <1>3
  <2> HIDE DEF Range
  <2>3. PICK R : R = Range(n)
    OBVIOUS
  <2>4. n \in [1..m -> R]
    BY <2>1, <2>2, <2>3
  <2>5. n \in Seq(R)
    BY <2>4
  <2>6. Len(n) = m
    BY <2>4, <2>5
  <2> QED
    BY <2>3, <2>4, <2>5, <2>6
<1>6. \A j \in 1..m : {"id", "runs"} \subseteq DOMAIN n[j] /\ n[j].id = m + 1 - j
  BY <1>3, <1>4
<1>7. Listing(n)
  BY <1>5, <1>6 DEF Listing
<1>8. ASSUME NEW id \in 1..m
      PROVE  Entry(n, id) = IF id = c.id THEN c ELSE Entry(s, id)
  <2>1. PICK k \in 1..m : k = m + 1 - id
    OBVIOUS
  <2>2. s[k].id = id
    BY <1>4, <2>1
  <2>3. n[k] = IF id = c.id THEN c ELSE s[k]
    BY <1>3, <2>1, <2>2
  <2>4. Entry(n, id) = n[k] /\ Entry(s, id) = s[k]
    BY <1>2, <1>5, <2>1 DEF Entry
  <2> QED
    BY <2>3, <2>4
<1>9. ASSUME NEW j \in DOMAIN s, s[j].id = c.id
      PROVE  n = [s EXCEPT ![j] = c]
  <2>1. \A k \in 1..m : s[k].id = c.id <=> k = j
    <3>1. j \in 1..m
      BY <1>1, <1>2
    <3>2. c.id = m + 1 - j
      BY <1>4, <1>9, <3>1
    <3> QED
      BY <1>4, <3>1, <3>2
  <2>2. n = [k \in 1..m |-> IF k = j THEN c ELSE s[k]]
    BY <1>3, <2>1
  <2>3. [s EXCEPT ![j] = c] = [k \in DOMAIN s |-> IF k = j THEN c ELSE s[k]]
    OBVIOUS
  <2> QED
    BY <1>1, <1>2, <2>2, <2>3
<1>10. Listing(n) /\ Len(n) = Len(s) /\ Entry(n, c.id) = c
       /\ \A id \in 1..Len(s) : id # c.id => Entry(n, id) = Entry(s, id)
  BY <1>2, <1>5, <1>7, <1>8
<1> QED
  BY <1>9, <1>10 DEF n

\* The oldest answer is a creation: the campaign is the next of the page's list.
LEMMA CreatedCatching ==
  ASSUME NEW q, NEW u, NEW d, Catching(q, u, d), InOrder(q), 1 \in DOMAIN q, Created(q, 1),
         NEW v, v.campaigns = q[1].val \o u.campaigns
  PROVE  Catching(Without(q, 1), v, d)
<1> DEFINE n == Without(q, 1)
<1>1. /\ \A j \in DOMAIN n : j \in Nat /\ j + 1 \in DOMAIN q /\ j + 1 # 1 /\ n[j] = q[j + 1]
      /\ \A j \in DOMAIN q : j \in Nat /\ (j # 1 => j - 1 \in DOMAIN n /\ n[j - 1] = q[j])
      /\ \A j \in DOMAIN n : Created(n, j) <=> Created(q, j + 1)
      /\ \A j \in DOMAIN n : \A id :
           /\ Ran(n, j, id) <=> Ran(q, j + 1, id)
           /\ RanLast(n, j, id) => RanLast(q, j + 1, id)
      /\ \A id : (\A j \in DOMAIN n : ~Ran(n, j, id)) => \A j \in DOMAIN q : Ran(q, j, id) => j = 1
  BY Shifted
<1> HIDE DEF n
<1>2. PICK s, t, c : s = u.campaigns /\ t = d.campaigns /\ c = q[1].val[1]
  OBVIOUS
<1>3. Listing(s) /\ Listing(t) /\ Len(s) <= Len(t)
  BY <1>2 DEF Catching
<1>4. Len(s) \in Nat /\ Len(t) \in Nat /\ DOMAIN t = 1..Len(t)
  BY <1>3, LenProperties DEF Listing
<1>5. PICK l \in Nat, m \in Nat : l = Len(s) /\ m = Len(t)
  BY <1>4
<1>6. /\ c.id \in (l + 1)..m /\ c = Entry(t, c.id)
      /\ \A id \in (l + 1)..m : \E i \in DOMAIN q : Created(q, i) /\ q[i].val[1].id = id
  BY <1>2, <1>5 DEF Catching
<1>7. c.id = l + 1
  <2>1. PICK i \in DOMAIN q : Created(q, i) /\ q[i].val[1].id = l + 1
    <3>1. l + 1 \in (l + 1)..m
      BY <1>6
    <3> QED
      BY <1>6, <3>1
  <2>2. CASE i = 1
    BY <1>2, <2>1, <2>2
  <2>3. CASE i # 1
    <3>1. 1 < i
      <4>1. i \in Nat /\ 1 \in DOMAIN q /\ i - 1 \in DOMAIN n
        BY <1>1, <2>3
      <4>2. i - 1 \in Nat /\ (i - 1) + 1 # 1
        BY <1>1, <4>1
      <4> QED
        BY <4>1, <4>2
    <3>2. c.id < l + 1
      BY <1>2, <2>1, <3>1 DEF Catching
    <3> QED
      BY <1>6, <3>2
  <2> QED
    BY <2>2, <2>3
<1>8. {"id", "runs"} \subseteq DOMAIN c
  <2>1. PICK k \in DOMAIN t : k = m + 1 - c.id
    BY <1>4, <1>5, <1>6
  <2>2. c = t[k]
    BY <1>5, <1>6, <2>1 DEF Entry
  <2> QED
    BY <1>3, <2>2 DEF Listing
<1>9. PICK w : w = <<c>> \o s
  OBVIOUS
<1>10. /\ Listing(w) /\ Len(w) = l + 1 /\ Entry(w, l + 1) = c
       /\ \A id \in 1..l : Entry(w, id) = Entry(s, id)
  <2>1. c.id = Len(s) + 1
    BY <1>5, <1>7
  <2> QED
    BY <1>3, <1>5, <1>8, <1>9, <2>1, Listed
<1>11. v.campaigns = w
  <2>1. q[1].ok
    BY DEF Catching, Created
  <2>2. q[1].val = <<c>>
    BY <1>2, <2>1 DEF InOrder
  <2> QED
    BY <1>2, <1>9, <2>2
<1>12. \A i \in DOMAIN n : n[i].op \in {"load", "createCampaign", "runCampaign"} /\ n[i].back => n[i].ok
  BY <1>1 DEF Catching
<1>13. ASSUME NEW i \in DOMAIN n, NEW j \in DOMAIN n, Created(n, i), Created(n, j), i < j
       PROVE  n[i].val[1].id < n[j].val[1].id
  <2>1. PICK a \in DOMAIN q, b \in DOMAIN q : a = i + 1 /\ b = j + 1
    BY <1>1
  <2>2. a < b /\ Created(q, a) /\ Created(q, b) /\ n[i] = q[a] /\ n[j] = q[b]
    BY <1>1, <1>13, <2>1
  <2> QED
    BY <2>2 DEF Catching
<1>14. ASSUME NEW i \in DOMAIN n, Created(n, i)
       PROVE  n[i].val[1].id \in (l + 2)..m /\ n[i].val[1] = Entry(t, n[i].val[1].id)
  <2>1. PICK a \in DOMAIN q : a = i + 1 /\ a # 1 /\ 1 < a
    BY <1>1
  <2>2. Created(q, a) /\ n[i] = q[a]
    BY <1>1, <1>14, <2>1
  <2>3. c.id < q[a].val[1].id
    BY <1>2, <2>1, <2>2 DEF Catching
  <2>4. q[a].val[1].id \in (l + 1)..m /\ q[a].val[1] = Entry(t, q[a].val[1].id)
    BY <1>2, <1>5, <2>2 DEF Catching
  <2> QED
    BY <1>7, <2>2, <2>3, <2>4
<1>15. ASSUME NEW id \in (l + 2)..m
       PROVE  \E i \in DOMAIN n : Created(n, i) /\ n[i].val[1].id = id
  <2>1. PICK j \in DOMAIN q : Created(q, j) /\ q[j].val[1].id = id
    BY <1>6
  <2>2. j # 1
    BY <1>2, <1>7, <2>1
  <2>3. j - 1 \in DOMAIN n /\ n[j - 1] = q[j] /\ (j - 1) + 1 = j
    BY <1>1, <2>2
  <2>4. Created(n, j - 1) /\ n[j - 1].val[1].id = id
    BY <1>1, <2>1, <2>3
  <2> QED
    BY <2>3, <2>4
<1>16. ASSUME NEW i \in DOMAIN n, n[i].op = "runCampaign"
       PROVE  /\ n[i].arg \in 1..(l + 1)
              /\ n[i].back => {"id", "runs"} \subseteq DOMAIN n[i].val[1] /\ n[i].val[1].id = n[i].arg
  <2>1. PICK a \in DOMAIN q : n[i] = q[a]
    BY <1>1
  <2>2. q[a].arg \in 1..l
    BY <1>2, <1>5, <1>16, <2>1 DEF Catching
  <2> QED
    BY <1>16, <2>1, <2>2 DEF Catching
<1>17. ASSUME NEW id \in 1..(l + 1)
       PROVE  /\ (\A i \in DOMAIN n : ~Ran(n, i, id)) => Entry(w, id) = Entry(t, id)
              /\ \A i \in DOMAIN n : RanLast(n, i, id) => n[i].val[1] = Entry(t, id)
  <2>1. CASE id = l + 1
    <3>1. Entry(w, id) = Entry(t, id)
      BY <1>6, <1>7, <1>10, <2>1
    <3>2. \A i \in DOMAIN n : ~RanLast(n, i, id)
      <4>1. ASSUME NEW i \in DOMAIN n, RanLast(n, i, id)
            PROVE  FALSE
        <5>1. PICK a \in DOMAIN q : Ran(q, a, id)
          BY <1>1, <4>1 DEF RanLast
        <5>2. id \in 1..l
          BY <1>2, <1>5, <5>1 DEF Ran, Catching
        <5> QED
          BY <2>1, <5>2
      <4> QED
        BY <4>1
    <3> QED
      BY <3>1, <3>2
  <2>2. CASE id # l + 1
    <3>1. id \in 1..l /\ Entry(w, id) = Entry(s, id)
      BY <1>10, <2>2
    <3>2. ASSUME \A i \in DOMAIN n : ~Ran(n, i, id)
          PROVE  Entry(s, id) = Entry(t, id)
      <4>1. \A j \in DOMAIN q : ~Ran(q, j, id)
        <5>1. \A j \in DOMAIN q : Ran(q, j, id) => j = 1
          BY <1>1, <3>2
        <5>2. q[1].op = "createCampaign"
          BY DEF Created
        <5> QED
          BY <5>1, <5>2 DEF Ran
      <4> QED
        BY <1>2, <1>5, <3>1, <4>1 DEF Catching
    <3>3. ASSUME NEW i \in DOMAIN n, RanLast(n, i, id)
          PROVE  n[i].val[1] = Entry(t, id)
      <4>1. PICK a \in DOMAIN q : RanLast(q, a, id) /\ n[i] = q[a]
        BY <1>1, <3>3
      <4> QED
        BY <1>2, <1>5, <3>1, <4>1 DEF Catching
    <3> QED
      BY <3>1, <3>2, <3>3
  <2> QED
    BY <2>1, <2>2
<1>18. Len(v.campaigns) = l + 1 /\ Len(d.campaigns) = m /\ l + 1 <= m /\ (l + 1) + 1 = l + 2
  BY <1>2, <1>5, <1>6, <1>10, <1>11
<1>19. Catching(n, v, d)
  BY <1>2, <1>3, <1>10, <1>11, <1>12, <1>13, <1>14, <1>15, <1>16, <1>17, <1>18 DEF Catching
<1> QED
  BY <1>19 DEF n

\* The oldest answer is a campaign's run: the page's list takes it.
LEMMA RanCatching ==
  ASSUME NEW q, NEW u, NEW d, Catching(q, u, d), InOrder(q), 1 \in DOMAIN q,
         q[1].op = "runCampaign", q[1].back,
         NEW v, v.campaigns = Arena!Updated(u.campaigns, q[1].val[1])
  PROVE  Catching(Without(q, 1), v, d)
<1> DEFINE n == Without(q, 1)
<1>1. /\ \A j \in DOMAIN n : j \in Nat /\ j + 1 \in DOMAIN q /\ j + 1 # 1 /\ n[j] = q[j + 1]
      /\ \A j \in DOMAIN q : j \in Nat /\ (j # 1 => j - 1 \in DOMAIN n /\ n[j - 1] = q[j])
      /\ \A j \in DOMAIN n : Created(n, j) <=> Created(q, j + 1)
      /\ \A j \in DOMAIN n : \A id :
           /\ Ran(n, j, id) <=> Ran(q, j + 1, id)
           /\ RanLast(n, j, id) => RanLast(q, j + 1, id)
      /\ \A id : (\A j \in DOMAIN n : ~Ran(n, j, id)) => \A j \in DOMAIN q : Ran(q, j, id) => j = 1
  BY Shifted
<1> HIDE DEF n
<1>2. PICK s, t, c : s = u.campaigns /\ t = d.campaigns /\ c = q[1].val[1]
  OBVIOUS
<1>3. Listing(s) /\ Listing(t) /\ Len(s) <= Len(t)
  BY <1>2 DEF Catching
<1>4. {"id", "runs"} \subseteq DOMAIN c /\ c.id \in 1..Len(s) /\ q[1].arg = c.id
  BY <1>2 DEF Catching
<1>5. PICK w : w = Arena!Updated(s, c)
  OBVIOUS
<1>6. /\ Listing(w) /\ Len(w) = Len(s) /\ Entry(w, c.id) = c
      /\ \A id \in 1..Len(s) : id # c.id => Entry(w, id) = Entry(s, id)
  BY <1>3, <1>4, <1>5, Relisted
<1>7. v.campaigns = w
  BY <1>2, <1>5
<1>8. \A i \in DOMAIN n : n[i].op \in {"load", "createCampaign", "runCampaign"} /\ n[i].back => n[i].ok
  BY <1>1 DEF Catching
<1>9. \A i \in DOMAIN n : Created(n, i) =>
        /\ n[i].val[1].id \in (Len(w) + 1)..Len(t)
        /\ n[i].val[1] = Entry(t, n[i].val[1].id)
  BY <1>1, <1>2, <1>6 DEF Catching
<1>10. ASSUME NEW i \in DOMAIN n, NEW j \in DOMAIN n, Created(n, i), Created(n, j), i < j
       PROVE  n[i].val[1].id < n[j].val[1].id
  <2>1. PICK a \in DOMAIN q, b \in DOMAIN q : a = i + 1 /\ b = j + 1
    BY <1>1
  <2>2. a < b /\ Created(q, a) /\ Created(q, b) /\ n[i] = q[a] /\ n[j] = q[b]
    BY <1>1, <1>10, <2>1
  <2> QED
    BY <2>2 DEF Catching
<1>11. ASSUME NEW id \in (Len(w) + 1)..Len(t)
       PROVE  \E i \in DOMAIN n : Created(n, i) /\ n[i].val[1].id = id
  <2>1. PICK j \in DOMAIN q : Created(q, j) /\ q[j].val[1].id = id
    BY <1>2, <1>6 DEF Catching
  <2>2. j # 1 /\ j - 1 \in DOMAIN n /\ n[j - 1] = q[j] /\ (j - 1) + 1 = j
    BY <1>1, <2>1 DEF Created
  <2>3. Created(n, j - 1) /\ n[j - 1].val[1].id = id
    BY <1>1, <2>1, <2>2
  <2> QED
    BY <2>2, <2>3
<1>12. \A i \in DOMAIN n : n[i].op = "runCampaign" =>
         /\ n[i].arg \in 1..Len(w)
         /\ n[i].back => {"id", "runs"} \subseteq DOMAIN n[i].val[1] /\ n[i].val[1].id = n[i].arg
  BY <1>1, <1>2, <1>6 DEF Catching
<1>13. ASSUME NEW id \in 1..Len(w)
       PROVE  /\ (\A i \in DOMAIN n : ~Ran(n, i, id)) => Entry(w, id) = Entry(t, id)
              /\ \A i \in DOMAIN n : RanLast(n, i, id) => n[i].val[1] = Entry(t, id)
  <2>1. ASSUME \A i \in DOMAIN n : ~Ran(n, i, id)
        PROVE  Entry(w, id) = Entry(t, id)
    <3>1. \A j \in DOMAIN q : Ran(q, j, id) => j = 1
      BY <1>1, <2>1
    <3>2. CASE id = c.id
      <4>1. Ran(q, 1, id)
        BY <1>4, <3>2 DEF Ran
      <4>2. RanLast(q, 1, id)
        BY <1>1, <3>1, <4>1 DEF RanLast
      <4>3. c = Entry(t, id)
        BY <1>2, <1>6, <4>2 DEF Catching
      <4> QED
        BY <1>6, <3>2, <4>3
    <3>3. CASE id # c.id
      <4>1. \A j \in DOMAIN q : ~Ran(q, j, id)
        BY <1>4, <3>1, <3>3 DEF Ran
      <4>2. Entry(s, id) = Entry(t, id)
        BY <1>2, <1>6, <4>1 DEF Catching
      <4> QED
        BY <1>6, <3>3, <4>2
    <3> QED
      BY <3>2, <3>3
  <2>2. ASSUME NEW i \in DOMAIN n, RanLast(n, i, id)
        PROVE  n[i].val[1] = Entry(t, id)
    <3>1. PICK a \in DOMAIN q : RanLast(q, a, id) /\ n[i] = q[a]
      BY <1>1, <2>2
    <3> QED
      BY <1>2, <1>6, <3>1 DEF Catching
  <2> QED
    BY <2>1, <2>2
<1>14. Catching(n, v, d)
  BY <1>2, <1>3, <1>6, <1>7, <1>8, <1>9, <1>10, <1>11, <1>12, <1>13 DEF Catching
<1> QED
  BY <1>14 DEF n

\* What the API may answer to a request when the ones before it were answered.
MayAnswer(q, d, i, okay, v, e) ==
  /\ \A j \in 1..(i - 1) : q[j].back
  /\ okay => ~q[i].back
  /\ v = IF okay THEN <<v[1]>> ELSE <<>>
  /\ Stored(e)
  /\ q[i].op = "load" /\ okay => Pristine(v[1]) /\ v[1].analytics.runs = 0
  /\ q[i].op = "evaluate" /\ okay => v[1] = q[i].arg
  /\ e.runs \in Nat /\ (e.memory # {} <=> e.runs > 0) /\ (d.runs > 0 => e.runs > 0)
  /\ q[i].op \in {"runLaboratory", "runCampaign"} /\ okay => e.runs > 0
  /\ d.memory \subseteq e.memory
  /\ q[i].op \in Reads /\ okay => /\ v[1].runs > 0 /\ v[1].analytics.runs > 0
                                  /\ d.memory \subseteq v[1].memory
  /\ q[i].op = "evolve" /\ okay => v[1] \subseteq e.memory

\* The API answers a request.
LEMMA ArenaAnswers ==
  ASSUME NEW q, NEW u, NEW d, ArenaFacts(q, u, d), NEW i \in DOMAIN q, NEW okay \in BOOLEAN,
         NEW v, NEW e, MayAnswer(q, d, i, okay, v, e),
         e.failures = 0 => Catching(Answer(q, i, okay, v), u, e)
  PROVE  ArenaFacts(Answer(q, i, okay, v), u, e)
<1> DEFINE n == Answer(q, i, okay, v)
<1>1. InOrder(q) /\ LoadFirst(q, u, d) /\ Named(q, u) /\ RunsBefore(q, u, d) /\ Descended(q, u, d)
  BY DEF ArenaFacts
<1>2. /\ InOrder(n) /\ Len(q) \in Nat /\ DOMAIN q = 1..Len(q) /\ DOMAIN n = 1..Len(q)
      /\ \A j \in 1..Len(q) : j # i => n[j] = q[j]
      /\ n[i].op = q[i].op /\ n[i].arg = q[i].arg /\ n[i].back /\ n[i].ok = okay
      /\ n[i].val = v
  <2>1. v = IF okay THEN <<v[1]>> ELSE <<>>
    BY DEF MayAnswer
  <2>2. \A j \in 1..(i - 1) : q[j].back
    BY DEF MayAnswer
  <2> QED
    BY <1>1, <2>1, <2>2, ArenaAnswered
<1>3. e.failures = 0 => Catching(n, u, e)
  OBVIOUS
<1> HIDE DEF n
<1>4. /\ DOMAIN n = DOMAIN q
      /\ \A j \in DOMAIN n : j \in Nat /\ (j # i => n[j] = q[j]) /\ n[j].op = q[j].op /\ n[j].arg = q[j].arg
      /\ n[i].back /\ n[i].ok = okay /\ n[i].val = v
  BY <1>2
<1>5. LoadFirst(n, u, e)
  <2>1. ASSUME NEW j \in DOMAIN n, n[j].op = "load"
        PROVE  /\ j = 1 /\ Unloaded(u)
               /\ ~n[j].back => Pristine(e)
               /\ n[j].ok => Pristine(n[j].val[1]) /\ n[j].val[1].analytics.runs = 0
    <3>1. q[j].op = "load" /\ j = 1 /\ Unloaded(u)
      BY <1>1, <1>4, <2>1 DEF LoadFirst
    <3>2. CASE j = i
      BY <1>4, <3>1, <3>2 DEF MayAnswer
    <3>3. CASE j # i
      <4>1. q[1].back
        <5>1. 1 \in 1..(i - 1)
          BY <1>2, <3>1, <3>3
        <5> QED
          BY <5>1 DEF MayAnswer
      <4> QED
        BY <1>1, <1>4, <3>1, <3>3, <4>1 DEF LoadFirst
    <3> QED
      BY <3>2, <3>3
  <2> QED
    BY <2>1 DEF LoadFirst
<1>6. Named(n, u)
  <2>1. ASSUME NEW j \in DOMAIN n, n[j].op = "evaluate"
        PROVE  n[j].arg \subseteq u.candidates /\ (n[j].ok => n[j].val[1] = n[j].arg)
    <3>1. CASE j = i
      BY <1>1, <1>4, <2>1, <3>1 DEF Named, MayAnswer
    <3>2. CASE j # i
      BY <1>1, <1>4, <2>1, <3>2 DEF Named
    <3> QED
      BY <3>1, <3>2
  <2> QED
    BY <1>1, <2>1 DEF Named
<1>7. RunsBefore(n, u, e)
  <2>1. ASSUME NEW j \in DOMAIN n
        PROVE  /\ n[j].op \in Reads \/ (n[j].op \in {"runLaboratory", "runCampaign"} /\ n[j].ok) => e.runs > 0
               /\ n[j].op \in Reads /\ n[j].ok => n[j].val[1].runs > 0 /\ n[j].val[1].analytics.runs > 0
               /\ n[j].op = "laboratoryAnalytics" => n[j].arg.runs > 0
               /\ n[j].op \in Evolving => Working(u)
    <3>1. CASE j = i
      BY <1>1, <1>4, <3>1 DEF RunsBefore, MayAnswer
    <3>2. CASE j # i
      BY <1>1, <1>4, <3>2 DEF RunsBefore, MayAnswer
    <3> QED
      BY <3>1, <3>2
  <2> QED
    BY <1>1, <2>1 DEF RunsBefore, MayAnswer
<1>8. Descended(n, u, e)
  <2>1. ASSUME NEW E, E \subseteq d.memory, NEW j \in DOMAIN n, Holds(q[j], E)
        PROVE  Holds(n[j], E)
    <3>1. CASE j = i
      BY <1>4, <2>1, <3>1 DEF Holds, MayAnswer
    <3>2. CASE j # i
      BY <1>4, <2>1, <3>2 DEF Holds
    <3> QED
      BY <3>1, <3>2
  <2>2. ASSUME NEW E, E \subseteq d.memory, NEW j \in DOMAIN n,
               q[j].op \in Reads /\ q[j].ok => E \subseteq q[j].val[1].memory,
               n[j].op \in Reads, n[j].ok
        PROVE  E \subseteq n[j].val[1].memory
    <3>1. CASE j = i
      BY <1>4, <2>2, <3>1 DEF MayAnswer
    <3>2. CASE j # i
      BY <1>4, <2>2, <3>2
    <3> QED
      BY <3>1, <3>2
  <2>3. d.memory \subseteq e.memory
    BY DEF MayAnswer
  <2>4. ASSUME ~u.evolution.busy, u.evolved # <<>>
        PROVE  /\ u.evolved[1] \subseteq u.memory /\ u.evolved[1] \subseteq e.memory
               /\ \A j \in DOMAIN n : Holds(n[j], u.evolved[1])
    <3>1. /\ u.evolved[1] \subseteq u.memory /\ u.evolved[1] \subseteq d.memory
          /\ \A j \in DOMAIN n : Holds(q[j], u.evolved[1])
      BY <1>1, <1>4, <2>4 DEF Descended
    <3> QED
      BY <2>1, <2>3, <3>1
  <2>5. ASSUME NEW k \in DOMAIN n, n[k].op = "evolve", n[k].ok
        PROVE  /\ n[k].val[1] \subseteq e.memory
               /\ \A j \in DOMAIN n : j > k /\ n[j].op \in Reads /\ n[j].ok =>
                    n[k].val[1] \subseteq n[j].val[1].memory
    <3>1. CASE k = i
      <4>1. ~q[i].back /\ n[k].val[1] \subseteq e.memory
        BY <1>4, <2>5, <3>1 DEF MayAnswer
      <4>2. ASSUME NEW j \in DOMAIN n, j > k
            PROVE  ~n[j].ok
        <5>1. n[j] = q[j] /\ j \in DOMAIN q /\ k \in DOMAIN q /\ k < j
          BY <1>4, <3>1, <4>2
        <5>2. ~q[j].back
          BY <1>1, <3>1, <4>1, <5>1 DEF InOrder
        <5> QED
          BY <1>1, <5>1, <5>2 DEF InOrder
      <4> QED
        BY <4>1, <4>2
    <3>2. CASE k # i
      <4>1. n[k] = q[k] /\ k \in DOMAIN q
        BY <1>4, <3>2
      <4>2. /\ q[k].val[1] \subseteq d.memory
            /\ \A j \in DOMAIN n : j > k /\ q[j].op \in Reads /\ q[j].ok =>
                 q[k].val[1] \subseteq q[j].val[1].memory
        BY <1>1, <1>4, <2>5, <4>1 DEF Descended
      <4> QED
        BY <1>4, <2>2, <2>3, <4>1, <4>2
    <3> QED
      BY <3>1, <3>2
  <2>6. ASSUME NEW k \in DOMAIN n, n[k].op = "evolutionRead"
        PROVE  /\ u.evolved # <<>> /\ u.evolved[1] \subseteq e.memory
               /\ \A j \in DOMAIN n : n[j].op \in Reads /\ n[j].ok => u.evolved[1] \subseteq n[j].val[1].memory
               /\ \A j \in DOMAIN n : j > k => Holds(n[j], u.evolved[1])
    <3>1. /\ u.evolved # <<>> /\ u.evolved[1] \subseteq d.memory
          /\ \A j \in DOMAIN n : q[j].op \in Reads /\ q[j].ok => u.evolved[1] \subseteq q[j].val[1].memory
          /\ \A j \in DOMAIN n : j > k => Holds(q[j], u.evolved[1])
      BY <1>1, <1>4, <2>6 DEF Descended
    <3> QED
      BY <1>4, <2>1, <2>2, <2>3, <3>1
  <2>7. /\ \A k, j \in DOMAIN n : n[k].op \in Evolving /\ n[j].op \in Evolving => k = j
        /\ \A k \in DOMAIN n : n[k].op \in Evolving => u.evolution.busy
    BY <1>1, <1>4 DEF Descended
  <2> QED
    BY <2>4, <2>5, <2>6, <2>7 DEF Descended
<1>9. ArenaFacts(n, u, e)
  BY <1>2, <1>3, <1>5, <1>6, <1>7, <1>8 DEF ArenaFacts, MayAnswer
<1> QED
  BY <1>9 DEF n

\* The API answered the i-th of the requests q, which are now n.
Replied(q, n, i, okay, v) ==
  /\ i \in DOMAIN q /\ DOMAIN n = DOMAIN q
  /\ \A j \in DOMAIN q : j \in Nat /\ (j # i => n[j] = q[j])
  /\ n[i].op = q[i].op /\ n[i].arg = q[i].arg /\ n[i].back /\ n[i].ok = okay /\ n[i].val = v

\* Answers that are not about campaigns.
LEMMA OthersReplied ==
  ASSUME NEW q, NEW u, NEW d, Catching(q, u, d), NEW n, NEW i, NEW okay, NEW v,
         Replied(q, n, i, okay, v), q[i].op \notin {"createCampaign", "runCampaign"},
         q[i].op = "load" => okay, NEW e, e.campaigns = d.campaigns
  PROVE  Catching(n, u, e)
<1>1. \A j : Created(n, j) <=> Created(q, j)
  BY DEF Replied, Created
<1>2. \A j, id : Ran(n, j, id) <=> Ran(q, j, id)
  BY DEF Replied, Ran
<1>3. \A j, id : RanLast(n, j, id) <=> RanLast(q, j, id)
  BY <1>2 DEF Replied, RanLast
<1>4. /\ DOMAIN n = DOMAIN q
      /\ \A j \in DOMAIN n : n[j].op \in {"createCampaign", "runCampaign"} => n[j] = q[j]
  BY DEF Replied
<1>5. \A j \in DOMAIN n : n[j].op \in {"load", "createCampaign", "runCampaign"} /\ n[j].back => n[j].ok
  BY DEF Replied, Catching
<1>6. \A j : Created(n, j) => j \in DOMAIN n /\ n[j] = q[j]
  BY <1>4 DEF Created
<1>7. \A j, id : RanLast(n, j, id) => j \in DOMAIN n /\ n[j] = q[j]
  BY <1>4 DEF RanLast, Ran
<1>8. \A j \in DOMAIN n : Created(n, j) =>
        /\ n[j].val[1].id \in (Len(u.campaigns) + 1)..Len(e.campaigns)
        /\ n[j].val[1] = Entry(e.campaigns, n[j].val[1].id)
  BY <1>1, <1>4, <1>6 DEF Catching
<1>9. \A j, k \in DOMAIN n : Created(n, j) /\ Created(n, k) /\ j < k => n[j].val[1].id < n[k].val[1].id
  BY <1>1, <1>4, <1>6 DEF Catching
<1>10. ASSUME NEW id \in (Len(u.campaigns) + 1)..Len(e.campaigns)
       PROVE  \E j \in DOMAIN n : Created(n, j) /\ n[j].val[1].id = id
  <2>1. PICK j \in DOMAIN q : Created(q, j) /\ q[j].val[1].id = id
    BY DEF Catching
  <2> QED
    BY <1>1, <1>4, <1>6, <2>1
<1>11. \A j \in DOMAIN n : n[j].op = "runCampaign" =>
         /\ n[j].arg \in 1..Len(u.campaigns)
         /\ n[j].back => {"id", "runs"} \subseteq DOMAIN n[j].val[1] /\ n[j].val[1].id = n[j].arg
  BY <1>4 DEF Catching
<1>12. ASSUME NEW id \in 1..Len(u.campaigns)
       PROVE  /\ (\A j \in DOMAIN n : ~Ran(n, j, id)) => Entry(u.campaigns, id) = Entry(e.campaigns, id)
              /\ \A j \in DOMAIN n : RanLast(n, j, id) => n[j].val[1] = Entry(e.campaigns, id)
  <2>1. (\A j \in DOMAIN n : ~Ran(n, j, id)) => \A j \in DOMAIN q : ~Ran(q, j, id)
    BY <1>2, <1>4
  <2>2. \A j \in DOMAIN n : RanLast(n, j, id) => RanLast(q, j, id) /\ j \in DOMAIN q /\ n[j] = q[j]
    BY <1>3, <1>4, <1>7
  <2> QED
    BY <2>1, <2>2 DEF Catching
<1>13. Listing(e.campaigns) /\ Listing(u.campaigns) /\ Len(u.campaigns) <= Len(e.campaigns)
  BY DEF Catching
<1> QED
  BY <1>5, <1>8, <1>9, <1>10, <1>11, <1>12, <1>13 DEF Catching

\* The API creates a campaign: it is the last answer to a creation.
LEMMA CreationReplied ==
  ASSUME NEW q, NEW u, NEW d, Catching(q, u, d), NEW n, NEW i, NEW c,
         Replied(q, n, i, TRUE, <<c>>), q[i].op = "createCampaign",
         \A j \in DOMAIN q : q[j].back => j < i,
         {"id", "runs"} \subseteq DOMAIN c, c.id = Len(d.campaigns) + 1,
         NEW e, e.campaigns = <<c>> \o d.campaigns
  PROVE  Catching(n, u, e)
<1>1. PICK s, t, w : s = u.campaigns /\ t = d.campaigns /\ w = <<c>> \o t
  OBVIOUS
<1>2. Listing(s) /\ Listing(t) /\ Len(s) <= Len(t) /\ Len(s) \in Nat
  <2>1. Listing(s) /\ Listing(t) /\ Len(s) <= Len(t)
    BY <1>1 DEF Catching
  <2> QED
    BY <2>1, LenProperties DEF Listing
<1>3. /\ Listing(w) /\ Len(t) \in Nat /\ Len(w) = Len(t) + 1 /\ Entry(w, Len(t) + 1) = c
      /\ \A id \in 1..Len(t) : Entry(w, id) = Entry(t, id)
  <2>1. c.id = Len(t) + 1 /\ Listing(t)
    BY <1>1, <1>2
  <2>2. /\ Listing(<<c>> \o t) /\ Len(t) \in Nat /\ Len(<<c>> \o t) = Len(t) + 1
        /\ Entry(<<c>> \o t, Len(t) + 1) = c
        /\ \A id \in 1..Len(t) : Entry(<<c>> \o t, id) = Entry(t, id)
    BY ZenonT(60), <2>1, Listed
  <2> QED
    BY <1>1, <2>2
<1>4. PICK l \in Nat, m \in Nat : l = Len(s) /\ m = Len(t) /\ l <= m
  BY <1>2, <1>3
<1>5. e.campaigns = w /\ Len(w) = m + 1 /\ c.id = m + 1 /\ Entry(w, m + 1) = c
  BY <1>1, <1>3, <1>4
<1>6. /\ DOMAIN n = DOMAIN q /\ i \in DOMAIN n
      /\ \A j \in DOMAIN n : j \in Nat /\ (j # i => n[j] = q[j])
      /\ n[i].op = "createCampaign" /\ n[i].back /\ n[i].ok /\ n[i].val[1] = c
  BY DEF Replied
<1>7. ~Created(q, i) /\ \A j \in DOMAIN n : j # i => (Created(n, j) <=> Created(q, j))
  <2>1. ~q[i].back
    BY <1>6
  <2> QED
    BY <1>6, <2>1 DEF Created
<1>8. \A j, id : Ran(n, j, id) <=> Ran(q, j, id)
  <2>1. q[i].op # "runCampaign" /\ n[i].op # "runCampaign"
    BY <1>6
  <2> QED
    BY <1>6, <2>1 DEF Ran
<1>9. \A j \in DOMAIN n : n[j].op \in {"load", "createCampaign", "runCampaign"} /\ n[j].back => n[j].ok
  BY <1>6 DEF Catching
<1>10. ASSUME NEW j \in DOMAIN n, Created(n, j)
       PROVE  n[j].val[1].id \in (l + 1)..(m + 1) /\ n[j].val[1] = Entry(w, n[j].val[1].id)
  <2>1. CASE j = i
    BY <1>4, <1>5, <1>6, <2>1
  <2>2. CASE j # i
    <3>1. n[j] = q[j] /\ Created(q, j) /\ j \in DOMAIN q
      BY <1>6, <1>7, <1>10, <2>2
    <3>2. q[j].val[1].id \in (l + 1)..m /\ q[j].val[1] = Entry(t, q[j].val[1].id)
      BY <1>1, <1>4, <3>1 DEF Catching
    <3>3. q[j].val[1].id \in 1..Len(t) /\ q[j].val[1].id \in (l + 1)..(m + 1)
      BY <1>4, <3>2
    <3> QED
      BY <1>3, <3>1, <3>2, <3>3
  <2> QED
    BY <2>1, <2>2
<1>11. ASSUME NEW j \in DOMAIN n, NEW k \in DOMAIN n, Created(n, j), Created(n, k), j < k
       PROVE  n[j].val[1].id < n[k].val[1].id
  <2>1. j # i
    <3>1. j = i => k # i /\ Created(q, k)
      BY <1>6, <1>7, <1>11
    <3>2. j = i => k < i
      BY <1>6, <3>1 DEF Created
    <3> QED
      BY <1>6, <1>11, <3>2
  <2>2. n[j] = q[j] /\ Created(q, j) /\ j \in DOMAIN q
    BY <1>6, <1>7, <1>11, <2>1
  <2>3. CASE k = i
    <3>1. q[j].val[1].id \in (l + 1)..m
      BY <1>1, <1>4, <2>2 DEF Catching
    <3> QED
      BY <1>5, <1>6, <2>2, <2>3, <3>1
  <2>4. CASE k # i
    <3>1. n[k] = q[k] /\ Created(q, k) /\ k \in DOMAIN q
      BY <1>6, <1>7, <1>11, <2>4
    <3> QED
      BY <1>11, <2>2, <3>1 DEF Catching
  <2> QED
    BY <2>3, <2>4
<1>12. ASSUME NEW id \in (l + 1)..(m + 1)
       PROVE  \E j \in DOMAIN n : Created(n, j) /\ n[j].val[1].id = id
  <2>1. CASE id = m + 1
    <3>1. Created(n, i) /\ n[i].val[1].id = id
      BY <1>5, <1>6, <2>1 DEF Created
    <3> QED
      BY <1>6, <3>1
  <2>2. CASE id # m + 1
    <3>1. id \in (l + 1)..m
      BY <2>2
    <3>2. PICK j \in DOMAIN q : Created(q, j) /\ q[j].val[1].id = id
      BY <1>1, <1>4, <3>1 DEF Catching
    <3>3. j # i
      BY <1>7, <3>2
    <3> QED
      BY <1>6, <1>7, <3>2, <3>3
  <2> QED
    BY <2>1, <2>2
<1>13. \A j \in DOMAIN n : n[j].op = "runCampaign" =>
         /\ n[j].arg \in 1..l
         /\ n[j].back => {"id", "runs"} \subseteq DOMAIN n[j].val[1] /\ n[j].val[1].id = n[j].arg
  <2>1. \A j \in DOMAIN n : n[j].op = "runCampaign" => n[j] = q[j] /\ j \in DOMAIN q
    BY <1>6
  <2> QED
    BY <1>1, <1>4, <2>1 DEF Catching
<1>14. ASSUME NEW id \in 1..l
       PROVE  /\ (\A j \in DOMAIN n : ~Ran(n, j, id)) => Entry(s, id) = Entry(w, id)
              /\ \A j \in DOMAIN n : RanLast(n, j, id) => n[j].val[1] = Entry(w, id)
  <2>1. id \in 1..Len(s) /\ id \in 1..Len(t) /\ Entry(w, id) = Entry(t, id)
    BY <1>3, <1>4
  <2>2. (\A j \in DOMAIN n : ~Ran(n, j, id)) => \A j \in DOMAIN q : ~Ran(q, j, id)
    BY <1>6, <1>8
  <2>3. ASSUME NEW j \in DOMAIN n, RanLast(n, j, id)
        PROVE  RanLast(q, j, id) /\ j \in DOMAIN q /\ n[j] = q[j]
    <3>1. n[j].op = "runCampaign"
      BY <2>3 DEF RanLast, Ran
    <3>2. j # i
      BY <1>6, <3>1
    <3> QED
      BY <1>6, <1>8, <2>3, <3>2 DEF RanLast
  <2> QED
    BY <1>1, <2>1, <2>2, <2>3 DEF Catching
<1>15. Len(u.campaigns) = l /\ Len(e.campaigns) = m + 1 /\ l <= m + 1
  BY <1>1, <1>4, <1>5
<1> QED
  BY <1>1, <1>2, <1>3, <1>5, <1>9, <1>10, <1>11, <1>12, <1>13, <1>14, <1>15 DEF Catching

\* The API runs a campaign: it is the last answer to a run of it.
LEMMA RunReplied ==
  ASSUME NEW q, NEW u, NEW d, Catching(q, u, d), NEW n, NEW i, NEW c,
         Replied(q, n, i, TRUE, <<c>>), q[i].op = "runCampaign",
         \A j \in DOMAIN q : q[j].back => j < i,
         {"id", "runs"} \subseteq DOMAIN c, c.id = q[i].arg,
         NEW e, e.campaigns = Arena!Updated(d.campaigns, c)
  PROVE  Catching(n, u, e)
<1>1. PICK s, t, w : s = u.campaigns /\ t = d.campaigns /\ w = Arena!Updated(t, c)
  OBVIOUS
<1>2. Listing(s) /\ Listing(t) /\ Len(s) <= Len(t) /\ Len(s) \in Nat /\ Len(t) \in Nat /\ c.id \in 1..Len(s)
  <2>1. Listing(s) /\ Listing(t) /\ Len(s) <= Len(t) /\ c.id \in 1..Len(s)
    BY <1>1 DEF Catching, Replied
  <2> QED
    BY <2>1, LenProperties DEF Listing
<1>3. /\ Listing(w) /\ Len(w) = Len(t) /\ Entry(w, c.id) = c
      /\ \A id \in 1..Len(t) : id # c.id => Entry(w, id) = Entry(t, id)
  <2>1. c.id \in 1..Len(t)
    BY <1>2
  <2> QED
    BY <1>1, <1>2, <2>1, Relisted
<1>4. e.campaigns = w
  BY <1>1
<1>5. /\ DOMAIN n = DOMAIN q /\ i \in DOMAIN n
      /\ \A j \in DOMAIN n : j \in Nat /\ (j # i => n[j] = q[j])
      /\ n[i].op = "runCampaign" /\ n[i].back /\ n[i].ok /\ n[i].val[1] = c /\ n[i].arg = c.id
  BY DEF Replied
<1>6. \A j : Created(n, j) <=> Created(q, j)
  <2>1. q[i].op # "createCampaign" /\ n[i].op # "createCampaign"
    BY <1>5
  <2> QED
    BY <1>5, <2>1 DEF Created
<1>7. \A j : Created(n, j) => j \in DOMAIN q /\ n[j] = q[j]
  BY <1>5 DEF Created
<1>8. Ran(n, i, c.id) /\ \A j, id : j # i \/ id # c.id => (Ran(n, j, id) <=> Ran(q, j, id))
  <2>1. ~q[i].back /\ q[i].arg = c.id
    BY <1>5
  <2> QED
    BY <1>5, <2>1 DEF Ran
<1>9. \A j \in DOMAIN n : n[j].op \in {"load", "createCampaign", "runCampaign"} /\ n[j].back => n[j].ok
  BY <1>5 DEF Catching
<1>10. ASSUME NEW j \in DOMAIN n, Created(n, j)
       PROVE  n[j].val[1].id \in (Len(s) + 1)..Len(w) /\ n[j].val[1] = Entry(w, n[j].val[1].id)
  <2>1. j \in DOMAIN q /\ n[j] = q[j] /\ Created(q, j)
    BY <1>6, <1>7, <1>10
  <2>2. PICK id : id = q[j].val[1].id
    OBVIOUS
  <2>3. id \in (Len(s) + 1)..Len(t) /\ q[j].val[1] = Entry(t, id)
    BY <1>1, <2>1, <2>2 DEF Catching
  <2>4. id # c.id /\ id \in 1..Len(t)
    BY <1>2, <2>3
  <2> QED
    BY <1>3, <2>1, <2>2, <2>3, <2>4
<1>11. \A j, l \in DOMAIN n : Created(n, j) /\ Created(n, l) /\ j < l => n[j].val[1].id < n[l].val[1].id
  BY <1>5, <1>6, <1>7 DEF Catching
<1>12. ASSUME NEW id \in (Len(s) + 1)..Len(w)
       PROVE  \E j \in DOMAIN n : Created(n, j) /\ n[j].val[1].id = id
  <2>1. PICK j \in DOMAIN q : Created(q, j) /\ q[j].val[1].id = id
    BY <1>1, <1>3 DEF Catching
  <2> QED
    BY <1>5, <1>6, <1>7, <2>1
<1>13. \A j \in DOMAIN n : n[j].op = "runCampaign" =>
         /\ n[j].arg \in 1..Len(s)
         /\ n[j].back => {"id", "runs"} \subseteq DOMAIN n[j].val[1] /\ n[j].val[1].id = n[j].arg
  <2>1. ASSUME NEW j \in DOMAIN n, n[j].op = "runCampaign"
        PROVE  /\ n[j].arg \in 1..Len(s)
               /\ n[j].back => {"id", "runs"} \subseteq DOMAIN n[j].val[1] /\ n[j].val[1].id = n[j].arg
    <3>1. CASE j = i
      BY <1>2, <1>5, <3>1
    <3>2. CASE j # i
      BY <1>1, <1>5, <2>1, <3>2 DEF Catching
    <3> QED
      BY <3>1, <3>2
  <2> QED
    BY <2>1
<1>14. ASSUME NEW id \in 1..Len(s)
       PROVE  /\ (\A j \in DOMAIN n : ~Ran(n, j, id)) => Entry(s, id) = Entry(w, id)
              /\ \A j \in DOMAIN n : RanLast(n, j, id) => n[j].val[1] = Entry(w, id)
  <2>1. CASE id = c.id
    <3>1. ASSUME NEW j \in DOMAIN n, RanLast(n, j, id)
          PROVE  n[j].val[1] = Entry(w, id)
      <4>1. i <= j
        BY <1>5, <1>8, <2>1, <3>1 DEF RanLast
      <4>2. j # i => j < i
        <5>1. j # i => Ran(q, j, id)
          BY <1>8, <3>1 DEF RanLast
        <5> QED
          BY <1>5, <5>1 DEF Ran
      <4>3. j = i
        BY <1>5, <4>1, <4>2
      <4> QED
        BY <1>3, <1>5, <2>1, <4>3
    <3> QED
      BY <1>5, <1>8, <2>1, <3>1
  <2>2. CASE id # c.id
    <3>1. Entry(w, id) = Entry(t, id)
      <4>1. id \in 1..Len(t)
        BY <1>2
      <4> QED
        BY <1>3, <2>2, <4>1
    <3>2. \A j : Ran(n, j, id) <=> Ran(q, j, id)
      BY <1>8, <2>2
    <3>3. \A j \in DOMAIN n : RanLast(n, j, id) => RanLast(q, j, id) /\ j \in DOMAIN q
      BY <1>5, <3>2 DEF RanLast
    <3>4. \A j \in DOMAIN n : RanLast(n, j, id) => j # i
      BY <1>5, <2>2 DEF RanLast, Ran
    <3>5. (\A j \in DOMAIN n : ~Ran(n, j, id)) => Entry(s, id) = Entry(t, id)
      BY <1>1, <1>5, <3>2 DEF Catching
    <3>6. ASSUME NEW j \in DOMAIN n, RanLast(n, j, id)
          PROVE  n[j].val[1] = Entry(t, id)
      BY <1>1, <1>5, <3>3, <3>4, <3>6 DEF Catching
    <3> QED
      BY <3>1, <3>5, <3>6
  <2> QED
    BY <2>1, <2>2
<1> QED
  BY <1>1, <1>2, <1>3, <1>4, <1>9, <1>10, <1>11, <1>12, <1>13, <1>14 DEF Catching

----------------------------------------------------------------------------
\* The page's handlers.
LEMMA ArenaClicked ==
  ASSUME ArenaFacts(net, ui, db),
         \/ Arena!EvaluateCandidates \/ Arena!GenerateCandidates \/ Arena!RunLaboratory
         \/ Arena!RunEvolution \/ Arena!CreateCampaign
         \/ \E i \in DOMAIN ui.campaigns : Arena!RunCampaign(i)
  PROVE  ArenaFacts(net', ui', db')
<1>1. ArenaFields \subseteq DOMAIN ui
  BY DEF ArenaFacts
<1>2. ASSUME NEW op, NEW arg, net' = Arena!Issue(net, op, arg), db' = db,
             ArenaFields \subseteq DOMAIN ui',
             ui'.fixed = ui.fixed, ui'.candidates = ui.candidates, ui'.evaluated = ui.evaluated,
             ui'.status = ui.status, ui'.memory = ui.memory, ui'.analytics = ui.analytics,
             ui'.campaigns = ui.campaigns, ui'.evolved = ui.evolved,
             ui'.evolution = ui.evolution
               \/ (ui'.evolution.busy /\ \A i \in DOMAIN net : net[i].op \notin Evolving),
             MayAsk(net, ui', db, op, arg)
      PROVE  ArenaFacts(net', ui', db')
  <2>1. ArenaFacts(net, ui', db)
    BY <1>2, ArenaShows
  <2>2. ArenaFacts(Arena!Issue(net, op, arg), ui', db)
    BY <1>2, <2>1, ArenaAsks
  <2> QED
    BY <1>2, <2>2
<1>3. CASE Arena!EvaluateCandidates
  <2>1. /\ ui' = [[ui EXCEPT !.clicks = @ + 1] EXCEPT !["evaluation"] = [busy |-> TRUE, error |-> FALSE]]
        /\ net' = Arena!Issue(net, "evaluate", ui.candidates) /\ db' = db
    BY <1>3 DEF Arena!EvaluateCandidates, Arena!Ask, Arena!Busy, Arena!Clicked
  <2>2. /\ ArenaFields \subseteq DOMAIN ui'
        /\ ui'.fixed = ui.fixed /\ ui'.candidates = ui.candidates /\ ui'.evaluated = ui.evaluated
        /\ ui'.status = ui.status /\ ui'.memory = ui.memory /\ ui'.analytics = ui.analytics
        /\ ui'.campaigns = ui.campaigns /\ ui'.evolved = ui.evolved /\ ui'.evolution = ui.evolution
    BY <1>1, <2>1 DEF ArenaFields
  <2>3. MayAsk(net, ui', db, "evaluate", ui.candidates)
    BY <2>2 DEF MayAsk, Reads, Evolving
  <2> QED
    BY <1>2, <2>1, <2>2, <2>3
<1>4. CASE Arena!GenerateCandidates
  <2>1. /\ ui' = [[ui EXCEPT !.clicks = @ + 1] EXCEPT !["generation"] = [busy |-> TRUE, error |-> FALSE]]
        /\ net' = Arena!Issue(net, "generate", 0) /\ db' = db
    BY <1>4 DEF Arena!GenerateCandidates, Arena!Ask, Arena!Busy, Arena!Clicked
  <2>2. /\ ArenaFields \subseteq DOMAIN ui'
        /\ ui'.fixed = ui.fixed /\ ui'.candidates = ui.candidates /\ ui'.evaluated = ui.evaluated
        /\ ui'.status = ui.status /\ ui'.memory = ui.memory /\ ui'.analytics = ui.analytics
        /\ ui'.campaigns = ui.campaigns /\ ui'.evolved = ui.evolved /\ ui'.evolution = ui.evolution
    BY <1>1, <2>1 DEF ArenaFields
  <2>3. MayAsk(net, ui', db, "generate", 0)
    BY DEF MayAsk, Reads, Evolving
  <2> QED
    BY <1>2, <2>1, <2>2, <2>3
<1>5. CASE Arena!RunLaboratory
  <2>1. /\ ui' = [[ui EXCEPT !.clicks = @ + 1] EXCEPT !["laboratory"] = [busy |-> TRUE, error |-> FALSE]]
        /\ net' = Arena!Issue(net, "runLaboratory", 0) /\ db' = db
    BY <1>5 DEF Arena!RunLaboratory, Arena!Ask, Arena!Busy, Arena!Clicked
  <2>2. /\ ArenaFields \subseteq DOMAIN ui'
        /\ ui'.fixed = ui.fixed /\ ui'.candidates = ui.candidates /\ ui'.evaluated = ui.evaluated
        /\ ui'.status = ui.status /\ ui'.memory = ui.memory /\ ui'.analytics = ui.analytics
        /\ ui'.campaigns = ui.campaigns /\ ui'.evolved = ui.evolved /\ ui'.evolution = ui.evolution
    BY <1>1, <2>1 DEF ArenaFields
  <2>3. MayAsk(net, ui', db, "runLaboratory", 0)
    BY DEF MayAsk, Reads, Evolving
  <2> QED
    BY <1>2, <2>1, <2>2, <2>3
<1>6. CASE Arena!RunEvolution
  <2>1. /\ ui' = [[ui EXCEPT !.clicks = @ + 1] EXCEPT !["evolution"] = [busy |-> TRUE, error |-> FALSE]]
        /\ net' = Arena!Issue(net, "evolve", 0) /\ db' = db
        /\ ~ui.evolution.busy /\ ui.memory # {}
    BY <1>6 DEF Arena!RunEvolution, Arena!Ask, Arena!Busy, Arena!Clicked, Arena!MemorySection, Arena!Shows
  <2>2. /\ ArenaFields \subseteq DOMAIN ui'
        /\ ui'.fixed = ui.fixed /\ ui'.candidates = ui.candidates /\ ui'.evaluated = ui.evaluated
        /\ ui'.status = ui.status /\ ui'.memory = ui.memory /\ ui'.analytics = ui.analytics
        /\ ui'.campaigns = ui.campaigns /\ ui'.evolved = ui.evolved /\ ui'.evolution.busy
    BY <1>1, <2>1 DEF ArenaFields
  <2>3. \A i \in DOMAIN net : net[i].op \notin Evolving
    BY <2>1 DEF ArenaFacts, Descended
  <2>4. Working(ui')
    BY <2>1, <2>2 DEF ArenaFacts, RunsBefore, Working
  <2>5. MayAsk(net, ui', db, "evolve", 0)
    BY <2>2, <2>3, <2>4 DEF MayAsk, Reads, Evolving
  <2> QED
    BY <1>2, <2>1, <2>2, <2>3, <2>5
<1>7. CASE Arena!CreateCampaign
  <2>1. /\ ui' = [[ui EXCEPT !.clicks = @ + 1] EXCEPT !.campaignError = FALSE]
        /\ net' = Arena!Issue(net, "createCampaign", Len(ui.campaigns) + 1) /\ db' = db
    BY <1>7 DEF Arena!CreateCampaign, Arena!Ask, Arena!Clicked
  <2>2. /\ ArenaFields \subseteq DOMAIN ui'
        /\ ui'.fixed = ui.fixed /\ ui'.candidates = ui.candidates /\ ui'.evaluated = ui.evaluated
        /\ ui'.status = ui.status /\ ui'.memory = ui.memory /\ ui'.analytics = ui.analytics
        /\ ui'.campaigns = ui.campaigns /\ ui'.evolved = ui.evolved /\ ui'.evolution = ui.evolution
    BY <1>1, <2>1 DEF ArenaFields
  <2>3. MayAsk(net, ui', db, "createCampaign", Len(ui.campaigns) + 1)
    BY DEF MayAsk, Reads, Evolving
  <2> QED
    BY <1>2, <2>1, <2>2, <2>3
<1>8. ASSUME NEW i \in DOMAIN ui.campaigns, Arena!RunCampaign(i)
      PROVE  ArenaFacts(net', ui', db')
  <2> DEFINE id == ui.campaigns[i].id
  <2>1. /\ ui' = [[ui EXCEPT !.clicks = @ + 1] EXCEPT !.campaignError = FALSE, !.running = <<id>>]
        /\ net' = Arena!Issue(net, "runCampaign", id) /\ db' = db
    BY <1>8 DEF Arena!RunCampaign, Arena!Ask, Arena!Clicked
  <2>2. /\ ArenaFields \subseteq DOMAIN ui'
        /\ ui'.fixed = ui.fixed /\ ui'.candidates = ui.candidates /\ ui'.evaluated = ui.evaluated
        /\ ui'.status = ui.status /\ ui'.memory = ui.memory /\ ui'.analytics = ui.analytics
        /\ ui'.campaigns = ui.campaigns /\ ui'.evolved = ui.evolved /\ ui'.evolution = ui.evolution
    BY <1>1, <2>1 DEF ArenaFields
  <2>3. ASSUME db.failures = 0
        PROVE  id \in 1..Len(ui'.campaigns)
    <3>1. PICK s : s = ui.campaigns
      OBVIOUS
    <3>2. Listing(s)
      BY <2>3, <3>1 DEF ArenaFacts, Catching
    <3>3. Len(s) \in Nat /\ i \in 1..Len(s) /\ s[i].id = Len(s) + 1 - i
      BY <1>8, <3>1, <3>2, LenProperties DEF Listing
    <3>4. s[i].id \in 1..Len(s)
      BY <3>3
    <3> QED
      BY <2>2, <3>1, <3>4
  <2> HIDE DEF id
  <2>4. MayAsk(net, ui', db, "runCampaign", id)
    BY <2>3 DEF MayAsk, Reads, Evolving
  <2> QED
    BY <1>2, <2>1, <2>2, <2>4
<1> QED
  BY <1>3, <1>4, <1>5, <1>6, <1>7, <1>8

\* What is about the laboratory and the evolution stays shown.
LEMMA ArenaKeepsShown ==
  ASSUME NEW q, NEW u, NEW d, ArenaFacts(q, u, d), 1 \in DOMAIN q,
         NEW v, ArenaFields \subseteq DOMAIN v, u.candidates \subseteq v.candidates,
         v.evaluated # <<>> => v.evaluated[1] \subseteq v.candidates,
         v.status = u.status, v.memory = u.memory, v.analytics = u.analytics,
         v.evolved = u.evolved, v.evolution = u.evolution,
         d.failures = 0 => Catching(Without(q, 1), v, d)
  PROVE  MayShow(q, u, d, v)
<1>1. Working(u) <=> Working(v)
  BY DEF Working
<1>2. RunsBefore(q, u, d) /\ Descended(q, u, d)
  BY DEF ArenaFacts
<1>3. /\ v.memory # {} => Working(v)
      /\ Working(v) => d.runs > 0
      /\ v.status # <<>> => (v.status[1] > 0 <=> v.analytics # <<>> /\ v.analytics[1].runs > 0)
  BY <1>1, <1>2 DEF RunsBefore
<1>4. /\ \A j \in DOMAIN q : j # 1 /\ q[j].op \in Evolving => v.evolution.busy
      /\ ~v.evolution.busy /\ v.evolved # <<>> =>
           /\ v.evolved[1] \subseteq v.memory /\ v.evolved[1] \subseteq d.memory
           /\ \A j \in DOMAIN q : j # 1 => Holds(q[j], v.evolved[1])
  BY <1>2 DEF Descended
<1> QED
  BY <1>1, <1>3, <1>4 DEF MayShow

\* The load's answer is handled.
LEMMA LoadShown ==
  ASSUME NEW q, NEW u, NEW d, ArenaFacts(q, u, d), 1 \in DOMAIN q, q[1].op = "load",
         NEW v, ArenaFields \subseteq DOMAIN v, v.evolved = u.evolved, v.evolution = u.evolution,
         v.evaluated = <<>>, d.failures = 0 => Catching(Without(q, 1), v, d),
         IF q[1].ok
         THEN /\ v.candidates = q[1].val[1].candidates /\ v.status = <<q[1].val[1].runs>>
              /\ v.memory = q[1].val[1].memory /\ v.analytics = <<q[1].val[1].analytics>>
         ELSE /\ v.candidates = u.candidates /\ v.status = u.status
              /\ v.memory = u.memory /\ v.analytics = u.analytics
  PROVE  MayShow(q, u, d, v)
<1>1. /\ Unloaded(u)
      /\ q[1].ok => Pristine(q[1].val[1]) /\ q[1].val[1].analytics.runs = 0
  BY DEF ArenaFacts, LoadFirst
<1>2. CASE q[1].ok
  <2>1. /\ v.status = <<0>> /\ v.memory = {} /\ v.analytics # <<>> /\ v.analytics[1].runs = 0
        /\ v.evolved = <<>>
    <3>1. PICK a : a = q[1].val[1]
      OBVIOUS
    <3>2. a.runs = 0 /\ a.memory = {} /\ a.analytics.runs = 0
      BY <1>1, <1>2, <3>1 DEF Pristine
    <3>3. v.status = <<a.runs>> /\ v.memory = a.memory /\ v.analytics = <<a.analytics>>
      BY <1>2, <3>1
    <3>4. v.evolved = <<>>
      BY <1>1 DEF Unloaded
    <3> HIDE <3>1
    <3> QED
      BY <3>2, <3>3, <3>4
  <2>2. ~Working(u) /\ ~Working(v)
    BY <1>1, <2>1 DEF Working, Unloaded
  <2>3. \A j \in DOMAIN q : q[j].op \in Evolving => v.evolution.busy
    BY DEF ArenaFacts, Descended
  <2>4. u.candidates \subseteq v.candidates
    BY <1>1 DEF Unloaded
  <2>5. \A j \in DOMAIN q : j # 1 /\ q[j].op = "evolutionRead" => v.evolved = u.evolved
    OBVIOUS
  <2> QED
    BY <2>1, <2>2, <2>3, <2>4, <2>5 DEF MayShow
<1>3. CASE ~q[1].ok
  BY <1>3, ArenaKeepsShown
<1> QED
  BY <1>2, <1>3

\* The laboratory's analytics are handled, or what is read after a campaign.
LEMMA LaboratoryShown ==
  ASSUME NEW q, NEW u, NEW d, ArenaFacts(q, u, d), 1 \in DOMAIN q, q[1].ok,
         NEW v, ArenaFields \subseteq DOMAIN v, v.evolved = u.evolved, v.evolution = u.evolution,
         v.candidates = u.candidates, v.evaluated = u.evaluated,
         d.failures = 0 => Catching(Without(q, 1), v, d),
         v.analytics = <<q[1].val[1].analytics>>,
         \/ q[1].op = "laboratoryAnalytics" /\ v.status = <<q[1].arg.runs>> /\ v.memory = q[1].arg.memory
         \/ q[1].op = "campaignRead" /\ v.status = <<q[1].val[1].runs>> /\ v.memory = q[1].val[1].memory
  PROVE  MayShow(q, u, d, v)
<1>1. RunsBefore(q, u, d) /\ Descended(q, u, d) /\ Named(q, u)
  BY DEF ArenaFacts
<1>2. q[1].op \in Reads
  BY DEF Reads
<1>3. v.status # <<>> /\ v.status[1] > 0 /\ v.analytics # <<>> /\ v.analytics[1].runs > 0 /\ d.runs > 0
  <2>1. PICK a, b : a = q[1].val[1] /\ b = q[1].arg
    OBVIOUS
  <2>2. d.runs > 0 /\ a.runs > 0 /\ a.analytics.runs > 0
    BY <1>1, <1>2, <2>1 DEF RunsBefore
  <2>3. q[1].op = "laboratoryAnalytics" => b.runs > 0
    BY <1>1, <2>1 DEF RunsBefore
  <2>4. /\ v.analytics = <<a.analytics>>
        /\ (q[1].op = "laboratoryAnalytics" /\ v.status = <<b.runs>>) \/ v.status = <<a.runs>>
    BY <2>1
  <2>5. \E m, k : v.status = <<m>> /\ m > 0 /\ v.analytics = <<k>> /\ k.runs > 0
    BY ZenonT(30), <2>2, <2>3, <2>4
  <2>6. PICK m, k : v.status = <<m>> /\ m > 0 /\ v.analytics = <<k>> /\ k.runs > 0
    BY <2>5
  <2>7. <<m>> # <<>> /\ <<m>>[1] = m /\ <<k>> # <<>> /\ <<k>>[1] = k
    OBVIOUS
  <2>8. v.status # <<>> /\ v.status[1] > 0
    BY <2>6, <2>7
  <2>9. v.analytics # <<>> /\ v.analytics[1].runs > 0
    BY <2>6, <2>7
  <2> QED
    BY <2>2, <2>8, <2>9
<1>4. Working(v)
  BY <1>3 DEF Working
<1>5. ASSUME ~v.evolution.busy, v.evolved # <<>>
      PROVE  /\ v.evolved[1] \subseteq v.memory /\ v.evolved[1] \subseteq d.memory
             /\ \A j \in DOMAIN q : Holds(q[j], v.evolved[1])
  <2>1. /\ v.evolved[1] \subseteq d.memory
        /\ \A j \in DOMAIN q : Holds(q[j], v.evolved[1])
    BY <1>1, <1>5 DEF Descended
  <2> QED
    BY <1>2, <2>1 DEF Holds
<1>6. \A j \in DOMAIN q : q[j].op \in Evolving => v.evolution.busy
  BY <1>1 DEF Descended
<1>7. v.evaluated # <<>> => v.evaluated[1] \subseteq v.candidates
  BY <1>1 DEF Named
<1> QED
  BY <1>3, <1>4, <1>5, <1>6, <1>7 DEF MayShow

\* Descendants are shown, the memory they are in, or neither.
LEMMA EvolutionShown ==
  ASSUME NEW q, NEW u, NEW d, ArenaFacts(q, u, d), 1 \in DOMAIN q, q[1].op \in Evolving,
         NEW v, ArenaFields \subseteq DOMAIN v,
         v.candidates = u.candidates, v.evaluated = u.evaluated, v.status = u.status,
         d.failures = 0 => Catching(Without(q, 1), v, d),
         \/ /\ q[1].op = "evolve" /\ q[1].ok /\ v.evolved = q[1].val /\ v.evolution = u.evolution
            /\ v.memory = u.memory /\ v.analytics = u.analytics
         \/ /\ q[1].op = "evolutionRead" /\ q[1].ok /\ v.evolved = u.evolved
            /\ v.memory = q[1].val[1].memory /\ v.analytics = <<q[1].val[1].analytics>>
         \/ v.evolved = <<>> /\ v.memory = u.memory /\ v.analytics = u.analytics
  PROVE  MayShow(q, u, d, v)
<1>1. RunsBefore(q, u, d) /\ Descended(q, u, d) /\ Named(q, u)
  BY DEF ArenaFacts
<1>2. \A j \in DOMAIN q : j # 1 => q[j].op \notin Evolving
  BY <1>1 DEF Descended
<1>3. u.evolution.busy /\ Working(u)
  BY <1>1 DEF Descended, RunsBefore
<1>4. Working(v) /\ d.runs > 0
  BY <1>1, <1>3 DEF Working, RunsBefore
<1>5. v.evaluated # <<>> => v.evaluated[1] \subseteq v.candidates
  BY <1>1 DEF Named
<1>6. v.status[1] > 0 /\ v.analytics # <<>> /\ v.analytics[1].runs > 0
  <2>1. v.status # <<>> /\ v.status[1] > 0
    BY <1>4 DEF Working
  <2>2. u.analytics # <<>> /\ u.analytics[1].runs > 0
    BY <1>1, <2>1 DEF RunsBefore
  <2>3. q[1].op = "evolutionRead" /\ q[1].ok => q[1].val[1].analytics.runs > 0
    BY <1>1 DEF RunsBefore, Reads
  <2> QED
    BY <2>1, <2>2, <2>3
<1>7. ASSUME ~v.evolution.busy, v.evolved # <<>>
      PROVE  /\ v.evolved[1] \subseteq v.memory /\ v.evolved[1] \subseteq d.memory
             /\ \A j \in DOMAIN q : j # 1 => Holds(q[j], v.evolved[1])
  <2>1. q[1].op = "evolutionRead" /\ q[1].ok /\ v.evolved = u.evolved /\ v.memory = q[1].val[1].memory
    BY <1>3, <1>7
  <2>2. /\ u.evolved[1] \subseteq d.memory
        /\ \A j \in DOMAIN q : q[j].op \in Reads /\ q[j].ok => u.evolved[1] \subseteq q[j].val[1].memory
        /\ \A j \in DOMAIN q : j > 1 => Holds(q[j], u.evolved[1])
    BY <1>1, <2>1 DEF Descended
  <2>3. \A j \in DOMAIN q : j # 1 => j > 1
    <3>1. InOrder(q)
      BY DEF ArenaFacts
    <3>2. Len(q) \in Nat /\ DOMAIN q = 1..Len(q)
      BY <3>1, ArenaHandled
    <3> QED
      BY <3>2
  <2> QED
    BY <2>1, <2>2, <2>3 DEF Reads
<1>8. /\ Working(u) => Working(v)
      /\ \A j \in DOMAIN q : j # 1 /\ q[j].op \in Evolving => v.evolution.busy
      /\ \A j \in DOMAIN q : j # 1 /\ q[j].op = "evolutionRead" => v.evolved = u.evolved
  BY <1>2, <1>4 DEF Evolving
<1> QED
  BY <1>4, <1>5, <1>6, <1>7, <1>8 DEF MayShow

\* What a section's handler leaves behind.
LEMMA EndedShows ==
  ASSUME NEW view, NEW section, NEW okay
  PROVE  \E e : Arena!Ended(view, section, okay) = [view EXCEPT ![section] = [busy |-> FALSE, error |-> e]]
<1>1. Arena!Ended(view, section, okay) = [view EXCEPT ![section] = [busy |-> FALSE, error |-> ~okay]]
  BY Zenon DEF Arena!Ended
<1> QED
  BY Zenon, <1>1

\* The oldest answer is handled.
LEMMA ArenaDelivered ==
  ASSUME wire = "ordered", ArenaFacts(net, ui, db), Arena!Deliver
  PROVE  ArenaFacts(net', ui', db')
<1> DEFINE rest == Without(net, 1)
<1>1. PICK i \in Arena!Deliverable : LET r == net[i] n == Arena!Handled(i) IN
        \/ Arena!DeliverLoad(r, n) \/ Arena!DeliverAgents(r, n) \/ Arena!DeliverEvaluations(r, n)
        \/ Arena!DeliverGenerated(r, n) \/ Arena!DeliverLaboratory(r, n) \/ Arena!DeliverEvolution(r, n)
        \/ Arena!DeliverCampaignRun(r, n) \/ Arena!DeliverCreated(r, n)
  BY DEF Arena!Deliver
<1>2. i = 1 /\ 1 \in DOMAIN net /\ net[1].back
  BY <1>1 DEF Arena!Deliverable
<1>3. PICK r, n : r = net[1] /\ n = rest
  OBVIOUS
<1>4. Arena!Handled(1) = n
  BY <1>3 DEF Arena!Handled, Arena!RemoveAt, Without
<1>5. \/ Arena!DeliverLoad(r, n) \/ Arena!DeliverAgents(r, n) \/ Arena!DeliverEvaluations(r, n)
      \/ Arena!DeliverGenerated(r, n) \/ Arena!DeliverLaboratory(r, n) \/ Arena!DeliverEvolution(r, n)
      \/ Arena!DeliverCampaignRun(r, n) \/ Arena!DeliverCreated(r, n)
  BY <1>1, <1>2, <1>3, <1>4
<1>6. db' = db
  BY DEF Arena!Deliver
<1>7. /\ ArenaFields \subseteq DOMAIN ui /\ InOrder(net) /\ r.back
      /\ Named(net, ui) /\ RunsBefore(net, ui, db) /\ Descended(net, ui, db)
      /\ db.failures = 0 => Catching(net, ui, db)
  BY <1>2, <1>3 DEF ArenaFacts
<1> HIDE DEF rest
<1>8. ASSUME net' = n, MayShow(net, ui, db, ui')
      PROVE  ArenaFacts(net', ui', db')
  <2>1. ArenaFacts(Without(net, 1), ui', db)
    BY <1>2, <1>8, ArenaTakes
  <2> QED
    BY <1>3, <1>6, <1>8, <2>1 DEF rest
<1>9. ASSUME NEW op, NEW arg, net' = Arena!Issue(n, op, arg), MayShow(net, ui, db, ui'),
             MayAsk(n, ui', db, op, arg)
      PROVE  ArenaFacts(net', ui', db')
  <2>1. ArenaFacts(Without(net, 1), ui', db)
    BY <1>2, <1>9, ArenaTakes
  <2>2. ArenaFacts(n, ui', db)
    BY <1>3, <2>1 DEF rest
  <2>3. ArenaFacts(Arena!Issue(n, op, arg), ui', db)
    BY <1>9, <2>2, ArenaAsks
  <2> QED
    BY <1>6, <1>9, <2>3
<1>10. ASSUME r.op \notin {"createCampaign", "runCampaign"}, ui'.campaigns = ui.campaigns
       PROVE  db.failures = 0 => Catching(Without(net, 1), ui', db)
  <2>1. net[1].op \notin {"createCampaign", "runCampaign"}
    BY <1>3, <1>10
  <2> QED
    BY <1>2, <1>7, <1>10, <2>1, OthersCatching
<1>11. \A j \in DOMAIN n : \E k \in DOMAIN net : k # 1 /\ n[j] = net[k]
  BY <1>2, <1>3, <1>7, Shifted DEF rest
<1>12. CASE Arena!DeliverLoad(r, n)
  <2>1. r.op = "load" /\ net' = n
    BY <1>12 DEF Arena!DeliverLoad, Arena!Goes
  <2>2. CASE r.ok
    <3>1. ui' = [ui EXCEPT !.loading = FALSE, !.fixed = <<TRUE>>,
                           !.candidates = r.val[1].candidates, !.evaluated = <<>>,
                           !.status = <<r.val[1].runs>>, !.summary = <<r.val[1].summary>>,
                           !.memory = r.val[1].memory, !.analytics = <<r.val[1].analytics>>,
                           !.campaigns = r.val[1].campaigns]
      BY <1>12, <2>2 DEF Arena!DeliverLoad, Arena!Goes, Arena!Null
    <3>2. /\ ArenaFields \subseteq DOMAIN ui' /\ ui'.evolved = ui.evolved /\ ui'.evolution = ui.evolution
          /\ ui'.evaluated = <<>> /\ ui'.campaigns = r.val[1].campaigns
          /\ ui'.candidates = r.val[1].candidates /\ ui'.status = <<r.val[1].runs>>
          /\ ui'.memory = r.val[1].memory /\ ui'.analytics = <<r.val[1].analytics>>
      BY <1>7, <3>1 DEF ArenaFields
    <3>3. ui'.campaigns = ui.campaigns
      BY <1>2, <1>3, <2>1, <2>2, <3>2 DEF ArenaFacts, LoadFirst, Pristine, Unloaded
    <3>4. MayShow(net, ui, db, ui')
      <4>1. db.failures = 0 => Catching(Without(net, 1), ui', db)
        BY <1>10, <2>1, <3>3
      <4>2. /\ net[1].op = "load" /\ net[1].ok
            /\ ui'.candidates = net[1].val[1].candidates /\ ui'.status = <<net[1].val[1].runs>>
            /\ ui'.memory = net[1].val[1].memory /\ ui'.analytics = <<net[1].val[1].analytics>>
        BY <1>3, <2>1, <2>2, <3>2
      <4> QED
        BY <1>2, <3>2, <4>1, <4>2, LoadShown
    <3> QED
      BY <1>8, <2>1, <3>4
  <2>3. CASE ~r.ok
    <3>1. ui' = [ui EXCEPT !.loading = FALSE, !.error = TRUE, !.memoryError = TRUE,
                           !.analyticsError = TRUE, !.campaignError = TRUE]
      BY <1>12, <2>3 DEF Arena!DeliverLoad, Arena!Goes
    <3>2. /\ ArenaFields \subseteq DOMAIN ui' /\ ui'.evolved = ui.evolved /\ ui'.evolution = ui.evolution
          /\ ui'.evaluated = ui.evaluated /\ ui'.campaigns = ui.campaigns
          /\ ui'.candidates = ui.candidates /\ ui'.status = ui.status
          /\ ui'.memory = ui.memory /\ ui'.analytics = ui.analytics
      BY <1>7, <3>1 DEF ArenaFields
    <3>3. MayShow(net, ui, db, ui')
      <4>1. db.failures = 0 => Catching(Without(net, 1), ui', db)
        BY <1>10, <2>1, <3>2
      <4>2. ui'.evaluated # <<>> => ui'.evaluated[1] \subseteq ui'.candidates
        BY <1>7, <3>2 DEF Named
      <4> QED
        BY <1>2, <3>2, <4>1, <4>2, ArenaKeepsShown
    <3> QED
      BY <1>8, <2>1, <3>3
  <2> QED
    BY <2>2, <2>3
<1>13. ASSUME r.op \in {"agents", "evaluate", "generate", "runLaboratory", "laboratoryRead",
                        "laboratoryAnalytics", "campaignRead", "createCampaign", "runCampaign"},
              ArenaFields \subseteq DOMAIN ui', ui.candidates \subseteq ui'.candidates,
              ui'.evaluated = ui.evaluated \/ (r.op = "evaluate" /\ ui'.evaluated = r.val),
              ui'.status = ui.status, ui'.memory = ui.memory, ui'.analytics = ui.analytics,
              ui'.evolved = ui.evolved, ui'.evolution = ui.evolution,
              IF r.op \in {"createCampaign", "runCampaign"}
              THEN db.failures = 0 => Catching(Without(net, 1), ui', db)
              ELSE ui'.campaigns = ui.campaigns
       PROVE  MayShow(net, ui, db, ui')
  <2>1. db.failures = 0 => Catching(Without(net, 1), ui', db)
    BY <1>10, <1>13
  <2>2. ui'.evaluated # <<>> => ui'.evaluated[1] \subseteq ui'.candidates
    <3>1. CASE ui'.evaluated = ui.evaluated
      BY <1>7, <1>13, <3>1 DEF Named
    <3>2. CASE r.op = "evaluate" /\ ui'.evaluated = r.val
      <4>1. net[1].op = "evaluate" /\ ui'.evaluated = net[1].val
        BY <1>3, <3>2
      <4>2. ui'.evaluated # <<>> => net[1].ok
        BY <1>2, <1>7, <4>1 DEF InOrder
      <4>3. net[1].ok => net[1].val[1] \subseteq ui.candidates
        BY <1>2, <1>7, <4>1 DEF Named
      <4> QED
        BY <1>13, <4>1, <4>2, <4>3
    <3> QED
      BY <1>13, <3>1, <3>2
  <2> QED
    BY <1>2, <1>13, <2>1, <2>2, ArenaKeepsShown
<1>14. CASE Arena!DeliverAgents(r, n)
  <2>1. r.op = "agents" /\ net' = n /\ ui' = ui
    BY <1>14 DEF Arena!DeliverAgents, Arena!Goes
  <2>2. MayShow(net, ui, db, ui')
    BY <1>7, <1>13, <2>1
  <2> QED
    BY <1>8, <2>1, <2>2
<1>15. CASE Arena!DeliverEvaluations(r, n)
  <2>1. /\ r.op = "evaluate" /\ net' = n
        /\ ui' = [Arena!Ended(ui, "evaluation", r.ok) EXCEPT !.evaluated = r.val]
    BY <1>15 DEF Arena!DeliverEvaluations, Arena!Goes
  <2>0. PICK e : Arena!Ended(ui, "evaluation", r.ok) = [ui EXCEPT !["evaluation"] = [busy |-> FALSE, error |-> e]]
    BY EndedShows
  <2>2. /\ ArenaFields \subseteq DOMAIN ui' /\ ui'.candidates = ui.candidates /\ ui'.evaluated = r.val
        /\ ui'.status = ui.status /\ ui'.memory = ui.memory /\ ui'.analytics = ui.analytics
        /\ ui'.evolved = ui.evolved /\ ui'.evolution = ui.evolution /\ ui'.campaigns = ui.campaigns
    BY <1>7, <2>0, <2>1 DEF ArenaFields
  <2>3. MayShow(net, ui, db, ui')
    BY <1>13, <2>1, <2>2
  <2> QED
    BY <1>8, <2>1, <2>3
<1>16. CASE Arena!DeliverGenerated(r, n)
  <2>1. /\ r.op = "generate" /\ net' = n
        /\ ui' = [Arena!Ended(ui, "generation", r.ok)
                    EXCEPT !.generated = r.val, !.candidates = @ \cup IF r.ok THEN r.val[1] ELSE {}]
    BY Zenon, <1>16 DEF Arena!DeliverGenerated, Arena!Goes
  <2>5. PICK listed :
          ui' = [Arena!Ended(ui, "generation", r.ok)
                   EXCEPT !.generated = r.val, !.candidates = @ \cup listed]
    BY Zenon, <2>1
  <2>0. PICK e : Arena!Ended(ui, "generation", r.ok) = [ui EXCEPT !["generation"] = [busy |-> FALSE, error |-> e]]
    BY EndedShows
  <2>2. /\ ArenaFields \subseteq DOMAIN ui' /\ ui'.candidates = ui.candidates \cup listed
        /\ ui'.evaluated = ui.evaluated
        /\ ui'.status = ui.status /\ ui'.memory = ui.memory /\ ui'.analytics = ui.analytics
        /\ ui'.evolved = ui.evolved /\ ui'.evolution = ui.evolution /\ ui'.campaigns = ui.campaigns
    BY <1>7, <2>0, <2>5 DEF ArenaFields
  <2>3. ui.candidates \subseteq ui'.candidates
    BY <2>2
  <2>4. MayShow(net, ui, db, ui')
    BY <1>13, <2>1, <2>2, <2>3
  <2> QED
    BY <1>8, <2>1, <2>4
<1>17. CASE Arena!DeliverLaboratory(r, n)
  <2>1. CASE r.op \in {"runLaboratory", "laboratoryRead"} /\ r.ok
    <3>1. /\ ui' = ui
          /\ \/ r.op = "runLaboratory" /\ net' = Arena!Issue(n, "laboratoryRead", 0)
             \/ r.op = "laboratoryRead" /\ net' = Arena!Issue(n, "laboratoryAnalytics", r.val[1])
      BY <1>17, <2>1 DEF Arena!DeliverLaboratory, Arena!Goes
    <3>2. MayShow(net, ui, db, ui')
      BY <1>7, <1>13, <2>1, <3>1
    <3>3. db.runs > 0
      BY <1>2, <1>3, <1>7, <2>1 DEF RunsBefore, Reads
    <3>4. CASE r.op = "runLaboratory" /\ net' = Arena!Issue(n, "laboratoryRead", 0)
      <4>1. MayAsk(n, ui', db, "laboratoryRead", 0)
        BY <3>3 DEF MayAsk, Reads, Evolving
      <4> QED
        BY <1>9, <3>2, <3>4, <4>1
    <3>5. CASE r.op = "laboratoryRead" /\ net' = Arena!Issue(n, "laboratoryAnalytics", r.val[1])
      <4>1. r.op \in Reads
        BY <3>5 DEF Reads
      <4>2. r.val[1].runs > 0
        BY <1>2, <1>3, <1>7, <2>1, <4>1 DEF RunsBefore
      <4>3. ~ui.evolution.busy /\ ui.evolved # <<>> => ui.evolved[1] \subseteq r.val[1].memory
        <5>1. ~ui.evolution.busy /\ ui.evolved # <<>> => Holds(net[1], ui.evolved[1])
          BY <1>2, <1>7 DEF Descended
        <5>2. ~ui.evolution.busy /\ ui.evolved # <<>> => Holds(r, ui.evolved[1])
          BY <1>3, <5>1
        <5> QED
          BY <2>1, <4>1, <5>2 DEF Holds
      <4>4. ASSUME NEW j \in DOMAIN n, n[j].op = "evolutionRead"
            PROVE  ui.evolved[1] \subseteq r.val[1].memory
        <5>1. PICK k \in DOMAIN net : net[k].op = "evolutionRead"
          BY <1>11, <4>4
        <5>2. net[1].op \in Reads /\ net[1].ok => ui.evolved[1] \subseteq net[1].val[1].memory
          BY <1>2, <1>7, <5>1 DEF Descended
        <5> QED
          BY <1>3, <2>1, <4>1, <5>2
      <4>5. MayAsk(n, ui', db, "laboratoryAnalytics", r.val[1])
        BY <3>1, <3>3, <4>2, <4>3, <4>4 DEF MayAsk, Evolving
      <4> QED
        BY <1>9, <3>2, <3>5, <4>5
    <3> QED
      BY <3>1, <3>4, <3>5
  <2>2. CASE r.op = "laboratoryAnalytics" /\ r.ok
    <3>1. /\ net' = n
          /\ ui' = [Arena!Ended(ui, "laboratory", TRUE) EXCEPT
                      !.status = <<r.arg.runs>>, !.summary = <<r.arg.summary>>, !.memory = r.arg.memory,
                      !.analytics = <<r.val[1].analytics>>]
      BY <1>17, <2>2 DEF Arena!DeliverLaboratory, Arena!Goes
    <3>0. PICK e : Arena!Ended(ui, "laboratory", TRUE) = [ui EXCEPT !["laboratory"] = [busy |-> FALSE, error |-> e]]
      BY EndedShows
    <3>2. /\ ArenaFields \subseteq DOMAIN ui' /\ ui'.candidates = ui.candidates
          /\ ui'.evaluated = ui.evaluated /\ ui'.campaigns = ui.campaigns
          /\ ui'.evolved = ui.evolved /\ ui'.evolution = ui.evolution
          /\ ui'.status = <<r.arg.runs>> /\ ui'.memory = r.arg.memory
          /\ ui'.analytics = <<r.val[1].analytics>>
      BY <1>7, <3>0, <3>1 DEF ArenaFields
    <3>3. db.failures = 0 => Catching(Without(net, 1), ui', db)
      BY <1>10, <2>2, <3>2
    <3>4. /\ net[1].ok /\ net[1].op = "laboratoryAnalytics" /\ ui'.status = <<net[1].arg.runs>>
          /\ ui'.memory = net[1].arg.memory /\ ui'.analytics = <<net[1].val[1].analytics>>
      BY <1>3, <2>2, <3>2
    <3>5. MayShow(net, ui, db, ui')
      BY <1>2, <3>2, <3>3, <3>4, LaboratoryShown
    <3> QED
      BY <1>8, <3>1, <3>5
  <2>3. CASE r.op \in {"runLaboratory", "laboratoryRead", "laboratoryAnalytics"} /\ ~r.ok
    <3>1. /\ net' = n
          /\ ui' = Arena!Ended(ui, "laboratory", FALSE)
      BY <1>17, <2>3 DEF Arena!DeliverLaboratory, Arena!Goes
    <3>0. PICK e : Arena!Ended(ui, "laboratory", FALSE) = [ui EXCEPT !["laboratory"] = [busy |-> FALSE, error |-> e]]
      BY EndedShows
    <3>2. /\ ArenaFields \subseteq DOMAIN ui' /\ ui'.candidates = ui.candidates
          /\ ui'.evaluated = ui.evaluated /\ ui'.campaigns = ui.campaigns
          /\ ui'.status = ui.status /\ ui'.memory = ui.memory /\ ui'.analytics = ui.analytics
          /\ ui'.evolved = ui.evolved /\ ui'.evolution = ui.evolution
      BY <1>7, <3>0, <3>1 DEF ArenaFields
    <3>3. MayShow(net, ui, db, ui')
      BY <1>13, <2>3, <3>2
    <3> QED
      BY <1>8, <3>1, <3>3
  <2> QED
    BY <1>17, <2>1, <2>2, <2>3 DEF Arena!DeliverLaboratory
<1>18. CASE Arena!DeliverEvolution(r, n)
  <2>1. r.op \in Evolving /\ net[1].op \in Evolving
    BY <1>3, <1>18 DEF Arena!DeliverEvolution, Evolving
  <2>2. ASSUME NEW j \in DOMAIN n
        PROVE  n[j].op \notin Evolving
    BY <1>2, <1>7, <1>11, <2>1 DEF Descended
  <2>3. CASE r.op = "evolve" /\ r.ok
    <3>1. net' = Arena!Issue(n, "evolutionRead", 0) /\ ui' = [ui EXCEPT !.evolved = r.val]
      BY <1>18, <2>3 DEF Arena!DeliverEvolution, Arena!Goes
    <3>2. /\ ArenaFields \subseteq DOMAIN ui' /\ ui'.candidates = ui.candidates
          /\ ui'.evaluated = ui.evaluated /\ ui'.campaigns = ui.campaigns
          /\ ui'.status = ui.status /\ ui'.memory = ui.memory /\ ui'.analytics = ui.analytics
          /\ ui'.evolved = r.val /\ ui'.evolution = ui.evolution
      BY <1>7, <3>1 DEF ArenaFields
    <3>3. db.failures = 0 => Catching(Without(net, 1), ui', db)
      <4>1. r.op \notin {"createCampaign", "runCampaign"}
        BY <2>3
      <4> QED
        BY <1>10, <3>2, <4>1
    <3>4. net[1].op = "evolve" /\ net[1].ok /\ ui'.evolved = net[1].val
      BY <1>3, <2>3, <3>2
    <3>5. MayShow(net, ui, db, ui')
      BY <1>2, <2>1, <3>2, <3>3, <3>4, EvolutionShown
    <3>6. Working(ui') /\ ui'.evolution.busy
      BY <1>2, <1>7, <2>1, <3>2 DEF RunsBefore, Descended, Working
    <3>7. ui'.evolved # <<>> /\ ui'.evolved[1] \subseteq db.memory
      <4>1. net[1].val # <<>>
        <5>1. net[1].val = <<net[1].val[1]>>
          BY <1>2, <1>7, <3>4 DEF InOrder
        <5> QED
          BY <5>1
      <4>2. net[1].val[1] \subseteq db.memory
        BY <1>2, <1>7, <3>4 DEF Descended
      <4> QED
        BY <3>4, <4>1, <4>2
    <3>8. ASSUME NEW j \in DOMAIN n, n[j].op \in Reads, n[j].ok
          PROVE  ui'.evolved[1] \subseteq n[j].val[1].memory
      <4>1. PICK k \in DOMAIN net : k # 1 /\ n[j] = net[k]
        BY <1>11
      <4>2. k > 1
        BY <1>2, <1>7, <4>1, Shifted, ArenaHandled
      <4>3. net[1].val[1] \subseteq net[k].val[1].memory
        BY <1>2, <1>7, <3>4, <3>8, <4>1, <4>2 DEF Descended
      <4> QED
        BY <3>4, <4>1, <4>3
    <3>9. db.runs > 0
      BY <1>7, <1>2, <2>1 DEF RunsBefore
    <3>10. MayAsk(n, ui', db, "evolutionRead", 0)
      BY <2>2, <3>6, <3>7, <3>8, <3>9 DEF MayAsk
    <3> QED
      BY <1>9, <3>1, <3>5, <3>10
  <2>4. CASE r.op = "evolutionRead" /\ r.ok
    <3>1. /\ net' = n
          /\ ui' = [Arena!Ended(ui, "evolution", TRUE) EXCEPT
                      !.memory = r.val[1].memory, !.analytics = <<r.val[1].analytics>>]
      BY <1>18, <2>4 DEF Arena!DeliverEvolution, Arena!Goes
    <3>0. PICK e : Arena!Ended(ui, "evolution", TRUE) = [ui EXCEPT !["evolution"] = [busy |-> FALSE, error |-> e]]
      BY EndedShows
    <3>2. /\ ArenaFields \subseteq DOMAIN ui' /\ ui'.candidates = ui.candidates
          /\ ui'.evaluated = ui.evaluated /\ ui'.campaigns = ui.campaigns
          /\ ui'.status = ui.status /\ ui'.evolved = ui.evolved
          /\ ui'.memory = r.val[1].memory /\ ui'.analytics = <<r.val[1].analytics>>
      BY <1>7, <3>0, <3>1 DEF ArenaFields
    <3>3. db.failures = 0 => Catching(Without(net, 1), ui', db)
      <4>1. r.op \notin {"createCampaign", "runCampaign"}
        BY <2>4
      <4> QED
        BY <1>10, <3>2, <4>1
    <3>4. /\ net[1].op = "evolutionRead" /\ net[1].ok /\ ui'.memory = net[1].val[1].memory
          /\ ui'.analytics = <<net[1].val[1].analytics>>
      BY <1>3, <2>4, <3>2
    <3>5. MayShow(net, ui, db, ui')
      BY <1>2, <2>1, <3>2, <3>3, <3>4, EvolutionShown
    <3> QED
      BY <1>8, <3>1, <3>5
  <2>5. CASE r.op \in {"evolve", "evolutionRead"} /\ ~r.ok
    <3>1. /\ net' = n
          /\ ui' = [Arena!Ended(ui, "evolution", FALSE) EXCEPT !.evolved = <<>>]
      BY <1>18, <2>5 DEF Arena!DeliverEvolution, Arena!Goes, Arena!Null
    <3>0. PICK e : Arena!Ended(ui, "evolution", FALSE) = [ui EXCEPT !["evolution"] = [busy |-> FALSE, error |-> e]]
      BY EndedShows
    <3>2. /\ ArenaFields \subseteq DOMAIN ui' /\ ui'.candidates = ui.candidates
          /\ ui'.evaluated = ui.evaluated /\ ui'.campaigns = ui.campaigns
          /\ ui'.status = ui.status /\ ui'.evolved = <<>>
          /\ ui'.memory = ui.memory /\ ui'.analytics = ui.analytics
      BY <1>7, <3>0, <3>1 DEF ArenaFields
    <3>3. db.failures = 0 => Catching(Without(net, 1), ui', db)
      <4>1. r.op \notin {"createCampaign", "runCampaign"}
        BY <2>5
      <4> QED
        BY <1>10, <3>2, <4>1
    <3>4. MayShow(net, ui, db, ui')
      BY <1>2, <2>1, <3>2, <3>3, EvolutionShown
    <3> QED
      BY <1>8, <3>1, <3>4
  <2> QED
    BY <1>18, <2>3, <2>4, <2>5 DEF Arena!DeliverEvolution
<1>19. CASE Arena!DeliverCampaignRun(r, n)
  <2>1. CASE r.op = "runCampaign" /\ r.ok
    <3>1. /\ net' = Arena!Issue(n, "campaignRead", 0)
          /\ ui' = [ui EXCEPT !.campaigns = Arena!Updated(@, r.val[1])]
      BY <1>19, <2>1 DEF Arena!DeliverCampaignRun, Arena!Goes
    <3>2. /\ ArenaFields \subseteq DOMAIN ui' /\ ui'.candidates = ui.candidates
          /\ ui'.evaluated = ui.evaluated /\ ui'.campaigns = Arena!Updated(ui.campaigns, r.val[1])
          /\ ui'.status = ui.status /\ ui'.memory = ui.memory /\ ui'.analytics = ui.analytics
          /\ ui'.evolved = ui.evolved /\ ui'.evolution = ui.evolution
      BY <1>7, <3>1 DEF ArenaFields
    <3>3. ASSUME db.failures = 0
          PROVE  Catching(Without(net, 1), ui', db)
      <4>1. /\ Catching(net, ui, db) /\ net[1].op = "runCampaign"
            /\ ui'.campaigns = Arena!Updated(ui.campaigns, net[1].val[1])
        BY <1>3, <1>7, <2>1, <3>2, <3>3
      <4> QED
        BY <1>2, <1>7, <4>1, RanCatching
    <3>4. MayShow(net, ui, db, ui')
      BY <1>13, <2>1, <3>2, <3>3
    <3>5. db.runs > 0
      BY <1>2, <1>3, <1>7, <2>1 DEF RunsBefore
    <3>6. MayAsk(n, ui', db, "campaignRead", 0)
      BY <3>5 DEF MayAsk, Reads, Evolving
    <3> QED
      BY <1>9, <3>1, <3>4, <3>6
  <2>2. CASE r.op = "campaignRead" /\ r.ok
    <3>1. /\ net' = n
          /\ ui' = [ui EXCEPT !.running = <<>>, !.status = <<r.val[1].runs>>,
                              !.summary = <<r.val[1].summary>>, !.memory = r.val[1].memory,
                              !.analytics = <<r.val[1].analytics>>]
      BY <1>19, <2>2 DEF Arena!DeliverCampaignRun, Arena!Goes, Arena!Null
    <3>2. /\ ArenaFields \subseteq DOMAIN ui' /\ ui'.candidates = ui.candidates
          /\ ui'.evaluated = ui.evaluated /\ ui'.campaigns = ui.campaigns
          /\ ui'.evolved = ui.evolved /\ ui'.evolution = ui.evolution
          /\ ui'.status = <<r.val[1].runs>> /\ ui'.memory = r.val[1].memory
          /\ ui'.analytics = <<r.val[1].analytics>>
      BY <1>7, <3>1 DEF ArenaFields
    <3>3. db.failures = 0 => Catching(Without(net, 1), ui', db)
      BY <1>10, <2>2, <3>2
    <3>4. /\ net[1].ok /\ net[1].op = "campaignRead" /\ ui'.status = <<net[1].val[1].runs>>
          /\ ui'.memory = net[1].val[1].memory /\ ui'.analytics = <<net[1].val[1].analytics>>
      BY <1>3, <2>2, <3>2
    <3>5. MayShow(net, ui, db, ui')
      BY <1>2, <3>2, <3>3, <3>4, LaboratoryShown
    <3> QED
      BY <1>8, <3>1, <3>5
  <2>3. CASE r.op \in {"runCampaign", "campaignRead"} /\ ~r.ok
    <3>1. net' = n /\ ui' = [ui EXCEPT !.running = <<>>, !.campaignError = TRUE]
      BY <1>19, <2>3 DEF Arena!DeliverCampaignRun, Arena!Goes, Arena!Null
    <3>2. /\ ArenaFields \subseteq DOMAIN ui' /\ ui'.candidates = ui.candidates
          /\ ui'.evaluated = ui.evaluated /\ ui'.campaigns = ui.campaigns
          /\ ui'.status = ui.status /\ ui'.memory = ui.memory /\ ui'.analytics = ui.analytics
          /\ ui'.evolved = ui.evolved /\ ui'.evolution = ui.evolution
      BY <1>7, <3>1 DEF ArenaFields
    <3>3. r.op = "runCampaign" => db.failures # 0
      BY <1>2, <1>3, <1>7, <2>3 DEF Catching
    <3>4. MayShow(net, ui, db, ui')
      BY <1>13, <2>3, <3>2, <3>3
    <3> QED
      BY <1>8, <3>1, <3>4
  <2> QED
    BY <1>19, <2>1, <2>2, <2>3 DEF Arena!DeliverCampaignRun
<1>20. CASE Arena!DeliverCreated(r, n)
  <2>1. r.op = "createCampaign" /\ net' = n
    BY <1>20 DEF Arena!DeliverCreated, Arena!Goes
  <2>2. ui' = IF r.ok THEN [ui EXCEPT !.campaigns = r.val \o @] ELSE [ui EXCEPT !.campaignError = TRUE]
    BY <1>20 DEF Arena!DeliverCreated, Arena!Goes
  <2>3. /\ ArenaFields \subseteq DOMAIN ui' /\ ui'.candidates = ui.candidates
        /\ ui'.evaluated = ui.evaluated
        /\ ui'.status = ui.status /\ ui'.memory = ui.memory /\ ui'.analytics = ui.analytics
        /\ ui'.evolved = ui.evolved /\ ui'.evolution = ui.evolution
        /\ r.ok => ui'.campaigns = r.val \o ui.campaigns
    BY <1>7, <2>2 DEF ArenaFields
  <2>4. ASSUME db.failures = 0
        PROVE  Catching(Without(net, 1), ui', db)
    <3>1. Catching(net, ui, db) /\ net[1].op = "createCampaign"
      BY <1>3, <1>7, <2>1, <2>4
    <3>2. r.ok
      BY <1>2, <1>3, <3>1 DEF Catching
    <3>3. ui'.campaigns = net[1].val \o ui.campaigns /\ Created(net, 1)
      BY <1>2, <1>3, <2>3, <3>1, <3>2 DEF Created
    <3> QED
      BY <1>2, <1>7, <3>1, <3>3, CreatedCatching
  <2>5. MayShow(net, ui, db, ui')
    BY <1>13, <2>1, <2>3, <2>4
  <2> QED
    BY <1>8, <2>1, <2>5
<1> QED
  BY <1>5, <1>12, <1>14, <1>15, <1>16, <1>17, <1>18, <1>19, <1>20

\* The API answers the oldest request it has not answered.
LEMMA ArenaServed ==
  ASSUME wire = "ordered", ArenaFacts(net, ui, db), Arena!Serve
  PROVE  ArenaFacts(net', ui', db')
<1>1. PICK i \in Arena!Servable : LET r == net[i] IN
        \/ Arena!ServeRead(r, i) \/ Arena!ServeEvaluate(r, i) \/ Arena!ServeGenerate(r, i)
        \/ Arena!ServeRunLaboratory(r, i) \/ Arena!ServeEvolve(r, i)
        \/ Arena!ServeCreateCampaign(r, i) \/ Arena!ServeRunCampaign(r, i)
  BY DEF Arena!Serve
<1>2. i \in DOMAIN net /\ ~net[i].back /\ \A j \in 1..(i - 1) : net[j].back
  BY <1>1 DEF Arena!Servable
<1>3. PICK r : r = net[i]
  OBVIOUS
<1>4. \/ Arena!ServeRead(r, i) \/ Arena!ServeEvaluate(r, i) \/ Arena!ServeGenerate(r, i)
      \/ Arena!ServeRunLaboratory(r, i) \/ Arena!ServeEvolve(r, i)
      \/ Arena!ServeCreateCampaign(r, i) \/ Arena!ServeRunCampaign(r, i)
  BY <1>1, <1>3
<1>5. ui' = ui
  BY DEF Arena!Serve
<1>6. /\ InOrder(net) /\ LoadFirst(net, ui, db) /\ RunsBefore(net, ui, db) /\ Stored(db)
      /\ db.failures = 0 => Catching(net, ui, db)
  BY DEF ArenaFacts
<1>7. \A j \in DOMAIN net : net[j].back => j < i
  <2>1. \A j, k \in DOMAIN net : j < k /\ net[k].back => net[j].back
    BY <1>6 DEF InOrder
  <2>2. Len(net) \in Nat /\ DOMAIN net = 1..Len(net)
    <3>1. PICK okay \in BOOLEAN : okay = FALSE
      OBVIOUS
    <3>2. PICK v : v = <<>>
      OBVIOUS
    <3>3. v = IF okay THEN <<v[1]>> ELSE <<>>
      BY <3>1, <3>2
    <3> QED
      BY <1>2, <1>6, <3>3, ArenaAnswered
  <2> QED
    BY <1>2, <2>1, <2>2
<1>8. ASSUME NEW okay \in BOOLEAN, NEW v, v = IF okay THEN <<v[1]>> ELSE <<>>
      PROVE  Replied(net, Answer(net, i, okay, v), i, okay, v)
  <2> DEFINE n == Answer(net, i, okay, v)
  <2>1. /\ InOrder(n) /\ Len(net) \in Nat /\ DOMAIN net = 1..Len(net) /\ DOMAIN n = 1..Len(net)
        /\ \A j \in 1..Len(net) : j # i => n[j] = net[j]
        /\ n[i].op = net[i].op /\ n[i].arg = net[i].arg /\ n[i].back /\ n[i].ok = okay
        /\ n[i].val = v
    BY <1>2, <1>6, <1>8, ArenaAnswered
  <2> HIDE DEF n
  <2>2. Replied(net, n, i, okay, v)
    BY <1>2, <2>1 DEF Replied
  <2> QED
    BY <2>2 DEF n
<1>9. ASSUME NEW okay \in BOOLEAN, NEW v, net' = Answer(net, i, okay, v),
             MayAnswer(net, db, i, okay, v, db'), db'.failures = 0 => Catching(net', ui, db')
      PROVE  ArenaFacts(net', ui', db')
  <2>1. db'.failures = 0 => Catching(Answer(net, i, okay, v), ui, db')
    BY <1>9
  <2>2. ArenaFacts(Answer(net, i, okay, v), ui, db')
    BY <1>2, <1>9, <2>1, ArenaAnswers
  <2> QED
    BY <1>5, <1>9, <2>2
<1>10. ASSUME NEW payload, net' = Arena!Served(i, payload)
       PROVE  \E okay \in BOOLEAN : \E v : /\ okay = TRUE /\ v = <<payload>>
                                           /\ net' = Answer(net, i, okay, v)
                                           /\ Replied(net, net', i, okay, v)
  <2>10. PICK okay \in BOOLEAN : okay = TRUE
    OBVIOUS
  <2>1. PICK v : okay = TRUE /\ v = <<payload>>
    BY <2>10
  <2>2. net' = Answer(net, i, okay, v)
    BY <1>10, <2>1 DEF Arena!Served, Answer
  <2>3. v = IF okay THEN <<v[1]>> ELSE <<>>
    BY <2>1
  <2> QED
    BY <1>8, <2>1, <2>2, <2>3
<1>11. ASSUME NEW okay \in BOOLEAN, NEW v, Replied(net, net', i, okay, v),
              r.op \notin {"createCampaign", "runCampaign"}, r.op = "load" => okay,
              db'.campaigns = db.campaigns, db'.failures = db.failures, db'.failures = 0
       PROVE  Catching(net', ui, db')
  <2>1. /\ net[i].op \notin {"createCampaign", "runCampaign"}
        /\ net[i].op = "load" => okay
        /\ Catching(net, ui, db)
    BY <1>3, <1>6, <1>11
  <2> QED
    BY <1>11, <2>1, OthersReplied
<1>12. db.runs \in Nat /\ (db.memory # {} <=> db.runs > 0)
  BY <1>6 DEF RunsBefore
<1>13. ASSUME NEW okay \in BOOLEAN, NEW v, v = IF okay THEN <<v[1]>> ELSE <<>>,
              r.op \in {"evaluate", "generate"}, r.op = "evaluate" /\ okay => v[1] = r.arg,
              Stored(db'), db'.runs = db.runs, db'.memory = db.memory
       PROVE  MayAnswer(net, db, i, okay, v, db')
  BY <1>2, <1>3, <1>12, <1>13 DEF MayAnswer, Reads
<1>14. CASE Arena!ServeRead(r, i)
  <2> DEFINE R == Arena!ResearchRead
  <2>1. /\ net' = Arena!Served(i, R) /\ db' = db
        /\ r.op \in {"load", "laboratoryRead", "laboratoryAnalytics", "evolutionRead", "campaignRead", "agents"}
    BY <1>14 DEF Arena!ServeRead
  <2>2. R.runs = db.runs /\ R.memory = db.memory /\ R.analytics.runs = db.runs /\ R.campaigns = db.campaigns
    BY DEF Arena!ResearchRead
  <2> HIDE DEF R
  <2>30. PICK okay \in BOOLEAN : \E v :
        /\ okay = TRUE /\ v = <<R>> /\ net' = Answer(net, i, okay, v)
        /\ Replied(net, net', i, okay, v)
    BY <1>10, <2>1
  <2>3. PICK v : /\ okay = TRUE /\ v = <<R>> /\ net' = Answer(net, i, okay, v)
                 /\ Replied(net, net', i, okay, v)
    BY <2>30
  <2>4. v = <<v[1]>> /\ v[1] = R
    BY <2>3
  <2>5. r.op = "load" => Pristine(v[1]) /\ v[1].analytics.runs = 0
    BY <1>2, <1>3, <1>6, <2>2, <2>4 DEF LoadFirst, Pristine
  <2>6. r.op \in Reads => v[1].runs > 0 /\ v[1].analytics.runs > 0 /\ db.memory \subseteq v[1].memory
    BY <1>2, <1>3, <1>6, <2>2, <2>4 DEF RunsBefore
  <2>7. MayAnswer(net, db, i, okay, v, db')
    BY <1>2, <1>3, <1>6, <1>12, <2>1, <2>3, <2>4, <2>5, <2>6 DEF MayAnswer
  <2>8. db'.failures = 0 => Catching(net', ui, db')
    BY <1>11, <2>1, <2>3
  <2> QED
    BY <1>9, <2>3, <2>7, <2>8
<1>15. CASE Arena!ServeEvaluate(r, i)
  <2>1. /\ r.op = "evaluate" /\ db' = db
        /\ net' = Arena!Served(i, r.arg) \/ net' = Arena!Refused(i)
    BY <1>15 DEF Arena!ServeEvaluate
  <2>20. PICK okay \in BOOLEAN : \E v :
        /\ v = IF okay THEN <<v[1]>> ELSE <<>>
        /\ okay => v[1] = r.arg
        /\ net' = Answer(net, i, okay, v)
        /\ Replied(net, net', i, okay, v)
    <3>1. CASE net' = Arena!Served(i, r.arg)
      <4>10. PICK okay \in BOOLEAN : \E v :
              /\ okay = TRUE /\ v = <<r.arg>> /\ net' = Answer(net, i, okay, v)
              /\ Replied(net, net', i, okay, v)
        BY <1>10, <3>1
      <4>1. PICK v : /\ okay = TRUE /\ v = <<r.arg>> /\ net' = Answer(net, i, okay, v)
                     /\ Replied(net, net', i, okay, v)
        BY <4>10
      <4>2. v = <<v[1]>> /\ v[1] = r.arg
        BY <4>1
      <4> QED
        BY <4>1, <4>2
    <3>2. CASE net' = Arena!Refused(i)
      <4>10. PICK okay \in BOOLEAN : okay = FALSE
        OBVIOUS
      <4>1. PICK v : okay = FALSE /\ v = <<>>
        BY <4>10
      <4>2. net' = Answer(net, i, okay, v)
        BY <3>2, <4>1 DEF Arena!Refused, Answer, Arena!Null
      <4>3. v = IF okay THEN <<v[1]>> ELSE <<>>
        BY <4>1
      <4> QED
        BY <1>8, <4>1, <4>2, <4>3
    <3> QED
      BY <2>1, <3>1, <3>2
  <2>2. PICK v : /\ v = IF okay THEN <<v[1]>> ELSE <<>>
                 /\ okay => v[1] = r.arg
                 /\ net' = Answer(net, i, okay, v)
                 /\ Replied(net, net', i, okay, v)
    BY <2>20
  <2>3. MayAnswer(net, db, i, okay, v, db')
    BY <1>6, <1>13, <2>1, <2>2
  <2>4. db'.failures = 0 => Catching(net', ui, db')
    BY <1>11, <2>1, <2>2
  <2> QED
    BY <1>9, <2>2, <2>3, <2>4
<1>16. CASE Arena!ServeGenerate(r, i)
  <2>1. /\ r.op = "generate" /\ db' = [db EXCEPT !.generated = @ + 1]
        /\ \E payload : net' = Arena!Served(i, payload)
    BY <1>16 DEF Arena!ServeGenerate
  <2>2. /\ Stored(db') /\ db'.runs = db.runs /\ db'.memory = db.memory
        /\ db'.campaigns = db.campaigns /\ db'.failures = db.failures
    BY <1>6, <2>1 DEF Stored
  <2>7. PICK payload : net' = Arena!Served(i, payload)
    BY <2>1
  <2>30. PICK okay \in BOOLEAN : \E v :
        /\ okay = TRUE /\ v = <<payload>> /\ net' = Answer(net, i, okay, v)
        /\ Replied(net, net', i, okay, v)
    BY <1>10, <2>7
  <2>3. PICK v : /\ okay = TRUE /\ v = <<payload>> /\ net' = Answer(net, i, okay, v)
                 /\ Replied(net, net', i, okay, v)
    BY <2>30
  <2>4. v = IF okay THEN <<v[1]>> ELSE <<>>
    BY <2>3
  <2>5. MayAnswer(net, db, i, okay, v, db')
    BY <1>13, <2>1, <2>2, <2>4
  <2>6. db'.failures = 0 => Catching(net', ui, db')
    BY <1>11, <2>1, <2>2, <2>3
  <2> QED
    BY <1>9, <2>3, <2>5, <2>6
<1>17. CASE Arena!ServeRunLaboratory(r, i)
  <2>1. /\ r.op = "runLaboratory" /\ net' = Arena!Served(i, 0)
        /\ db' = [db EXCEPT !.runs = @ + 1, !.memory = @ \cup {Arena!Baseline}]
    BY <1>17 DEF Arena!ServeRunLaboratory, Arena!Laboratory
  <2>2. /\ Stored(db') /\ db'.runs = db.runs + 1 /\ db'.memory = db.memory \cup {Arena!Baseline}
        /\ db'.campaigns = db.campaigns /\ db'.failures = db.failures
    BY <1>6, <2>1 DEF Stored
  <2>3. /\ db'.runs \in Nat /\ db'.runs > 0 /\ db'.memory # {} /\ db.memory \subseteq db'.memory
    BY <1>12, <2>2
  <2>40. PICK okay \in BOOLEAN : \E v :
        /\ okay = TRUE /\ v = <<0>> /\ net' = Answer(net, i, okay, v)
        /\ Replied(net, net', i, okay, v)
    BY <1>10, <2>1
  <2>4. PICK v : /\ okay = TRUE /\ v = <<0>> /\ net' = Answer(net, i, okay, v)
                 /\ Replied(net, net', i, okay, v)
    BY <2>40
  <2>5. v = IF okay THEN <<v[1]>> ELSE <<>>
    BY <2>4
  <2>6. MayAnswer(net, db, i, okay, v, db')
    BY <1>2, <1>3, <2>1, <2>2, <2>3, <2>5 DEF MayAnswer, Reads
  <2>7. db'.failures = 0 => Catching(net', ui, db')
    BY <1>11, <2>1, <2>2, <2>4
  <2> QED
    BY <1>9, <2>4, <2>6, <2>7
<1>18. CASE Arena!ServeEvolve(r, i)
  <2>10. PICK parent \in db.memory : \E D :
          /\ r.op = "evolve" /\ net' = Arena!Served(i, D)
          /\ db' = [db EXCEPT !.memory = @ \cup D]
    BY <1>18 DEF Arena!ServeEvolve
  <2>1. PICK D : /\ r.op = "evolve" /\ net' = Arena!Served(i, D)
                 /\ db' = [db EXCEPT !.memory = @ \cup D]
    BY <2>10
  <2>2. /\ Stored(db') /\ db'.runs = db.runs /\ db'.memory = db.memory \cup D
        /\ db'.campaigns = db.campaigns /\ db'.failures = db.failures
    BY <1>6, <2>1 DEF Stored
  <2>30. PICK okay \in BOOLEAN : \E v :
        /\ okay = TRUE /\ v = <<D>> /\ net' = Answer(net, i, okay, v)
        /\ Replied(net, net', i, okay, v)
    BY <1>10, <2>1
  <2>3. PICK v : /\ okay = TRUE /\ v = <<D>> /\ net' = Answer(net, i, okay, v)
                 /\ Replied(net, net', i, okay, v)
    BY <2>30
  <2>4. v = <<v[1]>> /\ v[1] = D
    BY <2>3
  <2>5. db.runs > 0 /\ db'.memory # {} /\ db.memory \subseteq db'.memory /\ v[1] \subseteq db'.memory
    BY <1>12, <2>2, <2>4
  <2>6. MayAnswer(net, db, i, okay, v, db')
    BY <1>2, <1>3, <1>12, <2>1, <2>2, <2>3, <2>4, <2>5 DEF MayAnswer, Reads
  <2>7. db'.failures = 0 => Catching(net', ui, db')
    BY <1>11, <2>1, <2>2, <2>3
  <2> QED
    BY <1>9, <2>3, <2>6, <2>7
<1>19. CASE Arena!ServeCreateCampaign(r, i)
  <2>1. PICK c : /\ c = [id |-> Len(db.campaigns) + 1, name |-> r.arg, runs |-> 0]
                 /\ net' = Arena!Served(i, c) /\ r.op = "createCampaign"
                 /\ db' = [db EXCEPT !.campaigns = <<c>> \o @]
    BY <1>19 DEF Arena!ServeCreateCampaign
  <2>2. /\ Stored(db') /\ db'.runs = db.runs /\ db'.memory = db.memory
        /\ db'.campaigns = <<c>> \o db.campaigns /\ db'.failures = db.failures
    BY <1>6, <2>1 DEF Stored
  <2>3. {"id", "runs"} \subseteq DOMAIN c /\ c.id = Len(db.campaigns) + 1
    BY <2>1
  <2>40. PICK okay \in BOOLEAN : \E v :
        /\ okay = TRUE /\ v = <<c>> /\ net' = Answer(net, i, okay, v)
        /\ Replied(net, net', i, okay, v)
    BY <1>10, <2>1
  <2>4. PICK v : /\ okay = TRUE /\ v = <<c>> /\ net' = Answer(net, i, okay, v)
                 /\ Replied(net, net', i, okay, v)
    BY <2>40
  <2>5. v = IF okay THEN <<v[1]>> ELSE <<>>
    BY <2>4
  <2>6. MayAnswer(net, db, i, okay, v, db')
    BY <1>2, <1>3, <1>12, <2>1, <2>2, <2>5 DEF MayAnswer, Reads
  <2>7. ASSUME db'.failures = 0
        PROVE  Catching(net', ui, db')
    <3>1. Catching(net, ui, db) /\ net[i].op = "createCampaign"
      BY <1>3, <1>6, <2>1, <2>2, <2>7
    <3>2. Replied(net, net', i, TRUE, <<c>>)
      BY <2>4
    <3> QED
      BY <1>7, <2>2, <2>3, <3>1, <3>2, CreationReplied
  <2> QED
    BY <1>9, <2>4, <2>6, <2>7
<1>20. CASE Arena!ServeRunCampaign(r, i)
  <2>0. PICK parent \in Arena!Laboratory(db).memory, j \in DOMAIN db.campaigns :
          /\ db.campaigns[j].id = r.arg
          /\ LET campaign == [db.campaigns[j] EXCEPT !.runs = @ + 1] IN
               /\ net' = Arena!Served(i, campaign)
               /\ db' = [Arena!Laboratory(db) EXCEPT !.memory = @ \cup Arena!Descendants(parent),
                                                     !.campaigns[j] = campaign]
    BY Zenon, <1>20 DEF Arena!ServeRunCampaign
  <2>10. r.op = "runCampaign"
    BY <1>20 DEF Arena!ServeRunCampaign
  <2>1. PICK c, D :
          /\ db.campaigns[j].id = r.arg
          /\ c = [db.campaigns[j] EXCEPT !.runs = @ + 1] /\ net' = Arena!Served(i, c)
          /\ db' = [Arena!Laboratory(db) EXCEPT !.memory = @ \cup D, !.campaigns[j] = c]
    BY Zenon, <2>0
  <2>8. PICK lab : /\ lab = Arena!Laboratory(db)
                   /\ lab = [db EXCEPT !.runs = @ + 1, !.memory = @ \cup {Arena!Baseline}]
    BY DEF Arena!Laboratory
  <2>9. db' = [lab EXCEPT !.memory = @ \cup D, !.campaigns[j] = c]
    BY <2>1, <2>8
  <2>2. /\ Stored(db') /\ db'.runs = db.runs + 1
        /\ db'.memory = (db.memory \cup {Arena!Baseline}) \cup D
        /\ db'.campaigns = [db.campaigns EXCEPT ![j] = c] /\ db'.failures = db.failures
    BY <1>6, <2>8, <2>9 DEF Stored
  <2>3. /\ db'.runs \in Nat /\ db'.runs > 0 /\ db'.memory # {} /\ db.memory \subseteq db'.memory
    BY <1>12, <2>2
  <2>40. PICK okay \in BOOLEAN : \E v :
        /\ okay = TRUE /\ v = <<c>> /\ net' = Answer(net, i, okay, v)
        /\ Replied(net, net', i, okay, v)
    BY <1>10, <2>1
  <2>4. PICK v : /\ okay = TRUE /\ v = <<c>> /\ net' = Answer(net, i, okay, v)
                 /\ Replied(net, net', i, okay, v)
    BY <2>40
  <2>5. v = IF okay THEN <<v[1]>> ELSE <<>>
    BY <2>4
  <2>6. MayAnswer(net, db, i, okay, v, db')
    BY <1>2, <1>3, <2>1, <2>2, <2>3, <2>5, <2>10 DEF MayAnswer, Reads
  <2>7. ASSUME db'.failures = 0
        PROVE  Catching(net', ui, db')
    <3>1. Catching(net, ui, db) /\ net[i].op = "runCampaign"
      BY <1>3, <1>6, <2>2, <2>7, <2>10
    <3>2. Replied(net, net', i, TRUE, <<c>>)
      BY <2>4
    <3>3. /\ {"id", "runs"} \subseteq DOMAIN c /\ c.id = net[i].arg
          /\ db.campaigns[j].id = c.id
      <4>1. {"id", "runs"} \subseteq DOMAIN db.campaigns[j]
        BY <3>1 DEF Catching, Listing
      <4> QED
        BY <1>3, <2>1, <4>1
    <3>4. db'.campaigns = Arena!Updated(db.campaigns, c)
      <4>1. PICK t : t = db.campaigns
        OBVIOUS
      <4>2. Listing(t) /\ c.id \in 1..Len(t)
        <5>1. Listing(t)
          BY <3>1, <4>1 DEF Catching
        <5>2. j \in 1..Len(t) /\ t[j].id = Len(t) + 1 - j /\ Len(t) \in Nat
          BY <4>1, <5>1, LenProperties DEF Listing
        <5> QED
          BY <3>3, <4>1, <5>1, <5>2
      <4>3. Arena!Updated(t, c) = [t EXCEPT ![j] = c]
        BY <3>3, <4>1, <4>2, Relisted
      <4> QED
        BY <2>2, <4>1, <4>3
    <3> QED
      BY <1>7, <3>1, <3>2, <3>3, <3>4, RunReplied
  <2> QED
    BY <1>9, <2>4, <2>6, <2>7
<1> QED
  BY <1>4, <1>14, <1>15, <1>16, <1>17, <1>18, <1>19, <1>20

\* A request is refused, or its answer lost.
LEMMA ArenaRefused ==
  ASSUME wire = "ordered", ArenaFacts(net, ui, db), Arena!RequestFails
  PROVE  ArenaFacts(net', ui', db')
<1>1. PICK i \in DOMAIN net : /\ i \in Arena!Servable \/ (i \in Arena!Deliverable /\ net[i].ok)
                              /\ net' = Arena!Refused(i)
  BY DEF Arena!RequestFails
<1>2. ui' = ui /\ db' = [db EXCEPT !.failures = @ + 1]
  BY DEF Arena!RequestFails
<1>3. RunsBefore(net, ui, db) /\ Stored(db)
  BY DEF ArenaFacts
<1>4. \A j \in 1..(i - 1) : net[j].back
  <2>1. CASE i \in Arena!Servable
    BY <2>1 DEF Arena!Servable
  <2>2. CASE i \in Arena!Deliverable
    <3>1. i = 1
      BY <2>2 DEF Arena!Deliverable
    <3> QED
      BY <3>1
  <2> QED
    BY <1>1, <2>1, <2>2
<1>5. /\ Stored(db') /\ db'.runs = db.runs /\ db'.memory = db.memory /\ db'.failures = db.failures + 1
  BY <1>2, <1>3 DEF Stored
<1>6. db'.failures # 0
  BY <1>3, <1>5 DEF Stored
<1>70. PICK okay \in BOOLEAN : okay = FALSE
  OBVIOUS
<1>7. PICK v : okay = FALSE /\ v = <<>>
  BY <1>70
<1>8. v = IF okay THEN <<v[1]>> ELSE <<>>
  BY <1>7
<1>9. net' = Answer(net, i, okay, v)
  BY <1>1, <1>7 DEF Arena!Refused, Answer, Arena!Null
<1>10. db.runs \in Nat /\ (db.memory # {} <=> db.runs > 0)
  BY <1>3 DEF RunsBefore
<1>11. MayAnswer(net, db, i, okay, v, db')
  BY <1>4, <1>5, <1>7, <1>8, <1>10 DEF MayAnswer
<1>12. db'.failures = 0 => Catching(Answer(net, i, okay, v), ui, db')
  BY <1>6
<1>13. ArenaFacts(Answer(net, i, okay, v), ui, db')
  BY <1>1, <1>11, <1>12, ArenaAnswers
<1> QED
  BY <1>2, <1>9, <1>13

\* Every step of the page and of its API keeps the arena's facts.
LEMMA ArenaKeeps ==
  ASSUME ArenaInv, Arena!ArenaNext \/ UNCHANGED <<ui, net, db, wire>>
  PROVE  ArenaInv'
<1>1. wire' = wire
  <2>1. ASSUME NEW view, NEW op, NEW arg, Arena!Ask(view, op, arg)
        PROVE  wire' = wire
    BY <2>1 DEF Arena!Ask
  <2>2. ASSUME \/ Arena!EvaluateCandidates \/ Arena!GenerateCandidates \/ Arena!RunLaboratory
               \/ Arena!RunEvolution \/ Arena!CreateCampaign
        PROVE  wire' = wire
    BY <2>1, <2>2 DEF Arena!EvaluateCandidates, Arena!GenerateCandidates, Arena!RunLaboratory,
      Arena!RunEvolution, Arena!CreateCampaign
  <2>3. ASSUME NEW i \in DOMAIN ui.campaigns, Arena!RunCampaign(i)
        PROVE  wire' = wire
    BY <2>1, <2>3 DEF Arena!RunCampaign
  <2>4. ASSUME Arena!Deliver \/ Arena!Serve \/ Arena!RequestFails
        PROVE  wire' = wire
    BY <2>4 DEF Arena!Deliver, Arena!Serve, Arena!RequestFails
  <2> QED
    BY <2>2, <2>3, <2>4 DEF Arena!ArenaNext
<1>2. SUFFICES ASSUME wire = "ordered"
               PROVE  ArenaFacts(net', ui', db')
  BY <1>1 DEF ArenaInv, ArenaFacts
<1>3. ArenaFacts(net, ui, db)
  BY <1>2 DEF ArenaInv
<1>4. CASE UNCHANGED <<ui, net, db, wire>>
  BY <1>3, <1>4
<1>5. CASE \/ Arena!EvaluateCandidates \/ Arena!GenerateCandidates \/ Arena!RunLaboratory
           \/ Arena!RunEvolution \/ Arena!CreateCampaign
           \/ \E i \in DOMAIN ui.campaigns : Arena!RunCampaign(i)
  BY <1>3, <1>5, ArenaClicked
<1>6. CASE Arena!Deliver
  BY <1>2, <1>3, <1>6, ArenaDelivered
<1>7. CASE Arena!Serve
  BY <1>2, <1>3, <1>7, ArenaServed
<1>8. CASE Arena!RequestFails
  BY <1>2, <1>3, <1>8, ArenaRefused
<1> QED
  BY <1>4, <1>5, <1>6, <1>7, <1>8 DEF Arena!ArenaNext

\* The page mounts with its load and its agents on their way.
LEMMA ArenaStarts ==
  ASSUME Arena!ArenaInit
  PROVE  ArenaInv
<1>1. SUFFICES ArenaFacts(net, ui, db)
  BY DEF ArenaInv
<1>2. PICK b : b = Arena!Unfinished /\ b.busy = FALSE
  <2>1. Arena!Unfinished.busy = FALSE
    BY DEF Arena!Unfinished
  <2> QED
    BY <2>1
<1>3. ui = [loading |-> TRUE, error |-> FALSE, fixed |-> <<>>, candidates |-> {},
            evaluation |-> b, evaluated |-> <<>>, generation |-> b, generated |-> <<>>,
            laboratory |-> b, status |-> <<>>,
            summary |-> <<>>, memory |-> {}, memoryError |-> FALSE,
            evolution |-> b, evolved |-> <<>>,
            analytics |-> <<>>, analyticsError |-> FALSE,
            campaigns |-> <<>>, campaignError |-> FALSE, running |-> <<>>, clicks |-> 0]
  BY <1>2 DEF Arena!ArenaInit, Arena!Null
<1>4. /\ ArenaFields \subseteq DOMAIN ui /\ Unloaded(ui) /\ ui.evolution.busy = FALSE
      /\ ui.campaigns = <<>> /\ ui.status = <<>> /\ ui.memory = {} /\ ui.evolved = <<>>
      /\ ui.evaluated = <<>>
  BY <1>2, <1>3 DEF ArenaFields, Unloaded
<1>5. db = [runs |-> 0, memory |-> {}, generated |-> 0, campaigns |-> <<>>, failures |-> 0]
  BY DEF Arena!ArenaInit
<1>6. Stored(db) /\ Pristine(db) /\ db.campaigns = <<>> /\ db.runs = 0 /\ db.memory = {}
  BY <1>5 DEF Stored, Pristine
<1>7. PICK q : q = Arena!Issue(<<>>, "load", 0)
  OBVIOUS
<1>8. InOrder(<<>>)
  <2>1. <<>> \in Seq(Range(<<>>))
    OBVIOUS
  <2> QED
    BY <2>1 DEF InOrder, InFlight
<1>9. /\ InOrder(q) /\ DOMAIN q = 1..1
      /\ q[1].op = "load" /\ ~q[1].back /\ ~q[1].ok
  <2>1. PICK e : e = <<>> /\ Len(e) = 0 /\ InOrder(e)
    BY <1>8
  <2>2. q = Arena!Issue(e, "load", 0)
    BY <1>7, <2>1
  <2>3. /\ InOrder(q) /\ DOMAIN q = 1..(Len(e) + 1)
        /\ q[Len(e) + 1].op = "load" /\ ~q[Len(e) + 1].back /\ ~q[Len(e) + 1].ok
    <3>1. InOrder(e)
      BY <2>1
    <3>2. PICK op, arg : op = "load" /\ arg = 0
      OBVIOUS
    <3> DEFINE n == Arena!Issue(e, op, arg)
    <3>3. /\ InOrder(n) /\ DOMAIN n = 1..(Len(e) + 1)
          /\ n[Len(e) + 1].op = op /\ ~n[Len(e) + 1].back /\ ~n[Len(e) + 1].ok
      BY <3>1, ArenaIssued
    <3>4. n = q
      BY <2>2, <3>2
    <3> HIDE DEF n
    <3> QED
      BY <3>2, <3>3, <3>4
  <2>4. Len(e) + 1 = 1
    BY <2>1
  <2> QED
    BY <2>3, <2>4
<1>10. /\ InOrder(net) /\ DOMAIN net = 1..2
       /\ net[1].op = "load" /\ ~net[1].back /\ ~net[1].ok
       /\ net[2].op = "agents" /\ ~net[2].back /\ ~net[2].ok
  <2>1. net = Arena!Issue(q, "agents", 0)
    BY <1>7 DEF Arena!ArenaInit
  <2>2. /\ InOrder(net) /\ Len(q) \in Nat /\ DOMAIN q = 1..Len(q) /\ DOMAIN net = 1..(Len(q) + 1)
        /\ \A j \in 1..Len(q) : net[j] = q[j]
        /\ net[Len(q) + 1].op = "agents" /\ ~net[Len(q) + 1].back /\ ~net[Len(q) + 1].ok
    BY <1>9, <2>1, ArenaIssued
  <2>3. Len(q) = 1
    BY <1>9, <2>2
  <2> QED
    BY <1>9, <2>2, <2>3
<1>11. /\ DOMAIN net = {1, 2}
       /\ \A i \in DOMAIN net : net[i].op \in {"load", "agents"} /\ ~net[i].back /\ ~net[i].ok
       /\ \A i \in DOMAIN net : net[i].op = "load" => i = 1
  <2>1. 1..2 = {1, 2}
    OBVIOUS
  <2> QED
    BY <1>10, <2>1
<1>12. LoadFirst(net, ui, db) /\ Named(net, ui)
  BY <1>4, <1>6, <1>11 DEF LoadFirst, Named
<1>13. RunsBefore(net, ui, db) /\ Descended(net, ui, db)
  <2>1. \A i \in DOMAIN net :
          /\ net[i].op \notin Reads /\ net[i].op \notin Evolving
          /\ net[i].op \notin {"runLaboratory", "runCampaign"}
    BY <1>11 DEF Reads, Evolving
  <2>2. ~Working(ui)
    BY <1>4 DEF Working
  <2>3. \A i \in DOMAIN net : net[i].op \notin {"evolve", "evolutionRead", "laboratoryAnalytics"}
    BY <1>11
  <2> QED
    BY <1>4, <1>6, <2>1, <2>2, <2>3 DEF RunsBefore, Descended
<1>14. Catching(net, ui, db)
  <2>1. \A i : ~Created(net, i) /\ \A id : ~Ran(net, i, id)
    BY <1>11 DEF Created, Ran
  <2>2. PICK s : s = <<>>
    OBVIOUS
  <2>3. Len(s) = 0 /\ DOMAIN s = {} /\ s \in Seq(Range(s))
    BY <2>2
  <2>4. Listing(s)
    BY <2>3 DEF Listing
  <2>5. (Len(s) + 1)..Len(s) = {} /\ 1..Len(s) = {} /\ Len(s) <= Len(s)
    BY <2>3
  <2>6. ui.campaigns = s /\ db.campaigns = s
    BY <1>4, <1>6, <2>2
  <2>7. \A i \in DOMAIN net : net[i].op # "runCampaign"
    BY <1>11
  <2> HIDE <2>2
  <2> QED
    BY <1>11, <2>1, <2>4, <2>5, <2>6, <2>7 DEF Catching
<1> QED
  BY <1>4, <1>6, <1>10, <1>12, <1>13, <1>14 DEF ArenaFacts

----------------------------------------------------------------------------
(* Mission control.  The cursor and the snapshot selected last change       *)
(* together, and the polled snapshots only with both of them.               *)

Mission == INSTANCE MissionControlPage
  WITH MaxClicks <- MissionClicks, MaxFailures <- MissionFailures

MissionInv ==
  /\ {"poll", "cursor", "last"} \subseteq DOMAIN ui /\ "data" \in DOMAIN ui.poll
  /\ Mission!SelectionFollowed

\* What keeps the polled data, the cursor and the selected snapshot keeps them together.
LEMMA SelectionAlone ==
  ASSUME MissionInv, {"poll", "cursor", "last"} \subseteq DOMAIN ui', "data" \in DOMAIN ui'.poll,
         ui'.poll.data = ui.poll.data, ui'.cursor = ui.cursor, ui'.last = ui.last
  PROVE  MissionInv'
BY DEF MissionInv, Mission!SelectionFollowed, Mission!SelectedHistoryPoint, Mission!Points,
  Mission!HistoryPoints

\* A snapshot that is selected is under the cursor.
LEMMA SnapshotSelected ==
  ASSUME MissionInv, NEW i, Mission!SelectSnapshot(i)
  PROVE  MissionInv'
<1>1. /\ {"poll", "cursor", "last"} \subseteq DOMAIN ui'
      /\ ui'.poll = ui.poll /\ ui'.cursor = i /\ ui'.last = <<Mission!Points[i]>>
  BY DEF Mission!SelectSnapshot, Mission!Clicked, MissionInv
<1> QED
  BY <1>1 DEF MissionInv, Mission!SelectionFollowed, Mission!SelectedHistoryPoint, Mission!Points,
    Mission!HistoryPoints

\* Polling again keeps the data that is shown.
LEMMA RequeryKeeps ==
  ASSUME MissionInv, NEW view, Mission!Requery(view), {"poll", "cursor", "last"} \subseteq DOMAIN view,
         view.poll = ui.poll, view.cursor = ui.cursor, view.last = ui.last
  PROVE  MissionInv'
<1> DEFINE poll == Mission!Run(ui.poll, TRUE)
<1>1. "data" \in DOMAIN poll /\ poll.data = ui.poll.data
  BY DEF Mission!Run, MissionInv
<1> HIDE DEF poll
<1>2. ui' = [view EXCEPT !.poll = poll]
  BY DEF Mission!Requery, poll
<1>3. /\ {"poll", "cursor", "last"} \subseteq DOMAIN ui'
      /\ ui'.poll = poll /\ ui'.cursor = ui.cursor /\ ui'.last = ui.last
  BY <1>2
<1> QED
  BY <1>1, <1>3, SelectionAlone

\* After an answer the cursor stands on the snapshot selected last, or selects one.
LEMMA CursorFollows ==
  ASSUME NEW view, {"poll", "cursor", "last"} \subseteq DOMAIN view
  PROVE  LET n == Mission!Followed(view)
             points == Mission!HistoryPoints(view.poll.data) IN
         /\ {"poll", "cursor", "last"} \subseteq DOMAIN n /\ n.poll = view.poll
         /\ n.cursor \in DOMAIN points => <<points[n.cursor]>> = n.last
<1> DEFINE n == Mission!Followed(view)
           points == Mission!HistoryPoints(view.poll.data)
           places == {i \in 1..Len(points) : <<points[i]>> = view.last}
<1> HIDE DEF points
<1>1. CASE points = <<>>
  <2>1. n = [view EXCEPT !.cursor = 1]
    BY <1>1 DEF Mission!Followed, points
  <2>2. 1 \notin DOMAIN points
    BY <1>1
  <2> QED
    BY <2>1, <2>2 DEF points
<1>2. CASE points # <<>> /\ places # {}
  <2>1. n = [view EXCEPT !.cursor = Mission!Min(places)]
    BY <1>2 DEF Mission!Followed, points
  <2>2. Mission!Min(places) \in places
    <3>1. places \in SUBSET Nat /\ places # {}
      BY <1>2
    <3> HIDE DEF places
    <3>2. \E m \in places : \A x \in places : m <= x
      BY <3>1, LeastNat
    <3> QED
      BY <3>2 DEF Mission!Min
  <2>3. <<points[Mission!Min(places)]>> = view.last
    BY <2>2
  <2> HIDE DEF places
  <2> QED
    BY <2>1, <2>3 DEF points
<1>3. CASE points # <<>> /\ places = {}
  <2>1. n = [view EXCEPT !.cursor = Len(points), !.last = <<points[Len(points)]>>]
    BY <1>3 DEF Mission!Followed, points
  <2> QED
    BY <2>1 DEF points
<1> QED
  BY <1>1, <1>2, <1>3 DEF points

\* The answer to a fetch.
LEMMA FetchDelivered ==
  ASSUME MissionInv, Mission!DeliverFetch
  PROVE  MissionInv'
<1>1. PICK i \in Mission!Deliverable :
        ui' = LET next == [ui EXCEPT !.poll = Mission!FinishRun(@, net[i])] IN
              IF net[i].ok THEN Mission!Followed(next) ELSE next
  BY DEF Mission!DeliverFetch
<1> DEFINE poll == Mission!FinishRun(ui.poll, net[i])
<1>2. "data" \in DOMAIN poll /\ (~net[i].ok => poll.data = ui.poll.data)
  BY DEF Mission!FinishRun
<1> HIDE DEF poll
<1>3. PICK next : next = [ui EXCEPT !.poll = poll]
  OBVIOUS
<1>4. /\ {"poll", "cursor", "last"} \subseteq DOMAIN next
      /\ next.poll = poll /\ next.cursor = ui.cursor /\ next.last = ui.last
  BY <1>3 DEF MissionInv
<1>5. ui' = IF net[i].ok THEN Mission!Followed(next) ELSE next
  BY <1>1, <1>3 DEF poll
<1>6. CASE net[i].ok
  <2>1. /\ {"poll", "cursor", "last"} \subseteq DOMAIN ui' /\ ui'.poll = poll
        /\ LET points == Mission!HistoryPoints(poll.data) IN
           ui'.cursor \in DOMAIN points => <<points[ui'.cursor]>> = ui'.last
    <3>1. ui' = Mission!Followed(next)
      BY <1>5, <1>6
    <3> QED
      BY <1>4, <3>1, CursorFollows
  <2> QED
    BY <1>2, <2>1 DEF MissionInv, Mission!SelectionFollowed, Mission!SelectedHistoryPoint, Mission!Points
<1>7. CASE ~net[i].ok
  <2>1. /\ {"poll", "cursor", "last"} \subseteq DOMAIN ui' /\ "data" \in DOMAIN ui'.poll
        /\ ui'.poll.data = ui.poll.data /\ ui'.cursor = ui.cursor /\ ui'.last = ui.last
    BY <1>2, <1>4, <1>5, <1>7
  <2> QED
    BY <2>1, SelectionAlone
<1> QED
  BY <1>6, <1>7

\* A page that mounts shows no snapshots.
LEMMA FreshMission ==
  ASSUME NEW open, NEW view,
         \/ view = Mission!FreshPage(open)
         \/ \E n, h : view = [Mission!FreshPage(open) EXCEPT !.clicks = n, !.hidden = h]
  PROVE  /\ {"poll", "cursor", "last"} \subseteq DOMAIN view /\ "data" \in DOMAIN view.poll
         /\ view.poll.data = <<>>
<1>1. "data" \in DOMAIN Mission!Run(Mission!IdlePoll, TRUE) /\ Mission!Run(Mission!IdlePoll, TRUE).data = <<>>
  BY DEF Mission!Run, Mission!IdlePoll, Mission!Null
<1>2. PICK f : f = Mission!FreshPage(open)
  OBVIOUS
<1>3. /\ {"poll", "cursor", "last"} \subseteq DOMAIN f /\ "data" \in DOMAIN f.poll
      /\ f.poll.data = <<>>
  BY <1>1, <1>2 DEF Mission!FreshPage
<1>4. CASE view = f
  BY <1>3, <1>4
<1>5. CASE \E n, h : view = [f EXCEPT !.clicks = n, !.hidden = h]
  BY <1>3, <1>5
<1> QED
  BY <1>2, <1>4, <1>5

\* Every step of the page and of its API keeps the cursor on the selection.
LEMMA MissionKeeps ==
  ASSUME MissionInv, Mission!MissionNext \/ UNCHANGED <<ui, net, db, wire>>
  PROVE  MissionInv'
<1>1. CASE UNCHANGED ui
  BY <1>1, SelectionAlone DEF MissionInv
<1>2. CASE \E range \in DOMAIN Windows : Mission!SelectRange(range)
  <2>1. PICK range : Mission!Requery([Mission!Clicked EXCEPT !.range = range])
    BY <1>2 DEF Mission!SelectRange
  <2>2. PICK view : view = [Mission!Clicked EXCEPT !.range = range]
    OBVIOUS
  <2>3. /\ {"poll", "cursor", "last"} \subseteq DOMAIN view
        /\ view.poll = ui.poll /\ view.cursor = ui.cursor /\ view.last = ui.last
    BY <2>2 DEF Mission!Clicked, MissionInv
  <2> QED
    BY <2>1, <2>2, <2>3, RequeryKeeps
<1>3. CASE \E mode \in Modes : Mission!SelectMode(mode)
  <2>1. PICK mode : Mission!Requery([Mission!Clicked EXCEPT !.mode = mode])
    BY <1>3 DEF Mission!SelectMode
  <2>2. PICK view : view = [Mission!Clicked EXCEPT !.mode = mode]
    OBVIOUS
  <2>3. /\ {"poll", "cursor", "last"} \subseteq DOMAIN view
        /\ view.poll = ui.poll /\ view.cursor = ui.cursor /\ view.last = ui.last
    BY <2>2 DEF Mission!Clicked, MissionInv
  <2> QED
    BY <2>1, <2>2, <2>3, RequeryKeeps
<1>4. CASE Mission!PollTick
  <2>1. Mission!Requery(ui) /\ {"poll", "cursor", "last"} \subseteq DOMAIN ui
    BY <1>4 DEF Mission!PollTick, MissionInv
  <2> QED
    BY <2>1, RequeryKeeps
<1>5. ASSUME NEW i, Mission!SelectSnapshot(i) \/ Mission!SelectProfitPoint(i)
      PROVE  MissionInv'
  <2>1. CASE Mission!SelectProfitPoint(i)
    BY <2>1, SelectionAlone DEF Mission!SelectProfitPoint, Mission!Clicked, MissionInv
  <2> QED
    BY <1>5, <2>1, SnapshotSelected
<1>6. CASE \/ \E date \in Dates : Mission!JumpToDate(date)
           \/ Mission!PreviousSnapshot \/ Mission!NextSnapshot \/ Mission!LatestSnapshot
  <2>1. PICK i : Mission!SelectSnapshot(i)
    BY <1>6 DEF Mission!JumpToDate, Mission!PreviousSnapshot, Mission!NextSnapshot, Mission!LatestSnapshot
  <2> QED
    BY <2>1, SnapshotSelected
<1>7. CASE \E tab \in {"overall", "profit"} : Mission!SelectTab(tab)
  BY <1>7, SelectionAlone DEF Mission!SelectTab, Mission!Clicked, MissionInv
<1>8. CASE \E section \in Sections : Mission!ToggleAccordion(section)
  BY <1>8, SelectionAlone DEF Mission!ToggleAccordion, Mission!Clicked, MissionInv
<1>9. CASE Mission!CloseDrawer \/ Mission!ToggleHidden
  BY <1>9, SelectionAlone DEF Mission!CloseDrawer, Mission!ToggleHidden, Mission!Clicked, MissionInv
<1>10. CASE Mission!Reload
  <2>1. PICK open, n, h : ui' = [Mission!FreshPage(open) EXCEPT !.clicks = n, !.hidden = h]
    BY <1>10 DEF Mission!Reload
  <2>2. /\ {"poll", "cursor", "last"} \subseteq DOMAIN ui' /\ "data" \in DOMAIN ui'.poll
        /\ ui'.poll.data = <<>>
    BY <2>1, FreshMission
  <2> QED
    BY <2>2 DEF MissionInv, Mission!SelectionFollowed, Mission!SelectedHistoryPoint, Mission!Points,
      Mission!HistoryPoints, Mission!Null
<1>11. CASE Mission!Serve \/ Mission!RequestFails \/ Mission!CaptureSnapshot
  BY <1>1, <1>11 DEF Mission!Serve, Mission!RequestFails, Mission!CaptureSnapshot
<1> QED
  BY <1>1, <1>2, <1>3, <1>4, <1>5, <1>6, <1>7, <1>8, <1>9, <1>10, <1>11, FetchDelivered
    DEF Mission!MissionNext

\* The page mounts with nothing selected.
LEMMA MissionStarts ==
  ASSUME Mission!MissionInit
  PROVE  MissionInv
<1>1. /\ {"poll", "cursor", "last"} \subseteq DOMAIN ui /\ "data" \in DOMAIN ui.poll
      /\ ui.poll.data = <<>>
  BY FreshMission DEF Mission!MissionInit
<1> QED
  BY <1>1 DEF MissionInv, Mission!SelectionFollowed, Mission!SelectedHistoryPoint, Mission!Points,
    Mission!HistoryPoints, Mission!Null

----------------------------------------------------------------------------
(* Decision records.  The coach's recommendations name sets of decisions by *)
(* how many there were.                                                     *)

Records == INSTANCE DecisionRecordsPages
  WITH MaxClicks <- RecordsClicks, MaxFailures <- RecordsFailures

LearnedInv ==
  /\ db = [decisions |-> db.decisions, learned |-> db.learned, failures |-> db.failures]
  /\ db.learned \in Seq(Range(db.learned))
  /\ Records!ReviewedOnce

\* A new recommendation at the head of a list that does not hold it yet.
LEMMA Recommended ==
  ASSUME NEW s, s \in Seq(Range(s)), NEW x, x \notin Range(s),
         \A j, k \in DOMAIN s : s[j] = s[k] => j = k
  PROVE  LET n == <<x>> \o s IN
         /\ n \in Seq(Range(n))
         /\ \A j, k \in DOMAIN n : n[j] = n[k] => j = k
<1> DEFINE S == Range(s) \cup {x}
           n == <<x>> \o s
<1>1. s \in Seq(S) /\ Len(s) \in Nat /\ DOMAIN s = 1..Len(s)
  BY SeqMonotonic, LenProperties
<1>2. PICK h : h = <<x>>
  OBVIOUS
<1>3. h \in Seq(S) /\ Len(h) = 1 /\ h[1] = x
  BY <1>2
<1> HIDE DEF S
<1>4. PICK m : m = h \o s
  OBVIOUS
<1>5. /\ m \in Seq(S) /\ Len(m) = 1 + Len(s)
      /\ \A j \in 1..(1 + Len(s)) : m[j] = IF j <= 1 THEN h[j] ELSE s[j - 1]
  <2>1. /\ h \o s \in Seq(S) /\ Len(h \o s) = Len(h) + Len(s)
        /\ \A j \in 1..(Len(h) + Len(s)) : (h \o s)[j] = IF j <= Len(h) THEN h[j] ELSE s[j - Len(h)]
    <3>1. h \in Seq(S) /\ s \in Seq(S)
      BY <1>1, <1>3
    <3> QED
      BY <3>1, ConcatProperties
  <2> QED
    BY <1>3, <1>4, <2>1
<1>6. DOMAIN m = 1..(1 + Len(s)) /\ m \in Seq(Range(m))
  BY <1>5, LenProperties, SeqOfRange
<1>7. m[1] = x /\ \A j \in 2..(1 + Len(s)) : j - 1 \in DOMAIN s /\ m[j] = s[j - 1]
  BY <1>1, <1>3, <1>5
<1>8. \A j \in 2..(1 + Len(s)) : m[j] # x
  BY <1>7 DEF Range
<1>9. ASSUME NEW j \in DOMAIN m, NEW k \in DOMAIN m, m[j] = m[k]
      PROVE  j = k
  <2>1. CASE j = 1 \/ k = 1
    BY <1>1, <1>6, <1>7, <1>8, <1>9, <2>1
  <2>2. CASE j # 1 /\ k # 1
    <3>1. j \in 2..(1 + Len(s)) /\ k \in 2..(1 + Len(s))
      BY <1>1, <1>6, <2>2
    <3>2. j - 1 = k - 1
      BY <1>7, <1>9, <3>1
    <3> QED
      BY <3>1, <3>2
  <2> QED
    BY <2>1, <2>2
<1> QED
  BY <1>2, <1>4, <1>6, <1>9

\* What the page asks for and is answered leaves the recommendations alone.
LEMMA LearnedAlone ==
  ASSUME LearnedInv,
         \/ UNCHANGED db
         \/ \E n : db' = [db EXCEPT !.failures = n]
         \/ \E s : db' = [db EXCEPT !.decisions = s]
  PROVE  LearnedInv'
<1> DEFINE D == db.decisions
           L == db.learned
           F == db.failures
<1>1. db = [decisions |-> D, learned |-> L, failures |-> F]
  BY DEF LearnedInv
<1> HIDE DEF D, L, F
<1>2. /\ db' = [decisions |-> db'.decisions, learned |-> db'.learned, failures |-> db'.failures]
      /\ db'.learned = L
  BY <1>1
<1> QED
  BY <1>2 DEF LearnedInv, Records!ReviewedOnce, L

\* Every step of the three screens and of their API keeps the recommendations distinct.
LEMMA LearnedKeeps ==
  ASSUME LearnedInv, Records!RecordsNext \/ UNCHANGED <<ui, net, db, wire>>
  PROVE  LearnedInv'
<1>1. CASE UNCHANGED db
  BY <1>1, LearnedAlone
<1>2. CASE Records!RecordDecision
  BY <1>2, LearnedAlone DEF Records!RecordDecision
<1>3. CASE Records!RequestFails
  BY <1>3, LearnedAlone DEF Records!RequestFails
<1>4. CASE Records!Serve
  <2> DEFINE x == Len(db.decisions)
             L == db.learned
             N == <<x>> \o L
  <2>1. \/ UNCHANGED db
        \/ Records!Reviewed = "inserted" /\ db' = [db EXCEPT !.learned = N]
    BY <1>4 DEF Records!Serve
  <2>2. SUFFICES ASSUME Records!Reviewed = "inserted", db' = [db EXCEPT !.learned = N]
                 PROVE  LearnedInv'
    BY <1>1, <2>1
  <2>3. x \notin Range(L)
    BY <2>2 DEF Records!Reviewed, Records!ToSet, Range
  <2>4. N \in Seq(Range(N)) /\ \A j, k \in DOMAIN N : N[j] = N[k] => j = k
    BY <2>3, Recommended DEF LearnedInv, Records!ReviewedOnce
  <2> HIDE DEF N
  <2>5. /\ db' = [decisions |-> db'.decisions, learned |-> db'.learned, failures |-> db'.failures]
        /\ db'.learned = N
    BY <2>2 DEF LearnedInv
  <2> QED
    BY <2>4, <2>5 DEF LearnedInv, Records!ReviewedOnce
<1>5. ASSUME NEW filter, Records!Edit(filter)
      PROVE  UNCHANGED db
  BY <1>5 DEF Records!Edit
<1>6. CASE \/ \E action \in Actions : Records!TypeAction(action)
           \/ \E sort \in Records!Sorts : Records!ChooseSort(sort)
           \/ \E size \in TypedSizes : Records!TypeSize(size)
  BY <1>1, <1>5, <1>6 DEF Records!TypeAction, Records!ChooseSort, Records!TypeSize
<1>7. ASSUME NEW page, Records!LoadPage(page)
      PROVE  UNCHANGED db
  BY <1>7 DEF Records!LoadPage
<1>8. CASE Records!ApplyFilters \/ Records!PreviousPage \/ Records!NextPage
  BY <1>1, <1>7, <1>8 DEF Records!ApplyFilters, Records!PreviousPage, Records!NextPage
<1>9. ASSUME NEW name, NEW n, Records!GoTo(name, n)
      PROVE  UNCHANGED db
  BY <1>9 DEF Records!GoTo
<1>10. CASE Records!BackToExplorer \/ \E k \in 1..MaxDecisions : Records!OpenInspector(k)
  BY <1>1, <1>9, <1>10 DEF Records!BackToExplorer, Records!OpenInspector
<1>11. CASE Records!RunCoachReview \/ Records!LoadLearnQueue
  BY <1>1, <1>11 DEF Records!RunCoachReview, Records!LoadLearnQueue
<1>12. CASE Records!Deliver
  BY <1>1, <1>12 DEF Records!Deliver, Records!DeliverHalf, Records!DeliverRecords,
    Records!DeliverInspection, Records!DeliverCoach, Records!DeliverLearn
<1> QED
  BY <1>1, <1>2, <1>3, <1>4, <1>6, <1>8, <1>10, <1>11, <1>12 DEF Records!RecordsNext

\* The pages mount before any review.
LEMMA LearnedStarts ==
  ASSUME Records!RecordsInit
  PROVE  LearnedInv
<1>1. PICK action \in Actions : db = [decisions |-> <<action>>, learned |-> <<>>, failures |-> 0]
  BY DEF Records!RecordsInit
<1>2. PICK d : d = <<action>>
  OBVIOUS
<1>3. db = [decisions |-> d, learned |-> <<>>, failures |-> 0]
  BY <1>1, <1>2
<1>4. db.learned = <<>> /\ DOMAIN db.learned = {}
  BY <1>3
<1>5. db.learned \in Seq(Range(db.learned))
  BY <1>4, EmptySeq, SeqOfRange
<1> QED
  BY <1>3, <1>4, <1>5 DEF LearnedInv, Records!ReviewedOnce

----------------------------------------------------------------------------
(* Risk rules.  A change that is accepted and not confirmed asks for nothing *)
(* looser than the rules it read, and those are within what was              *)
(* acknowledged; what it writes is, field by field, what it asks for or what *)
(* is stored.  So changes may overlap as they like.                          *)

Rules == INSTANCE RiskRules

RuleRecord == [limit : Int, cooldown : Int]

\* What is stored, and what the open changes ask for, is within what was acknowledged.
RulesInv ==
  /\ db = [rules |-> db.rules, granted |-> db.granted, open |-> db.open, begun |-> db.begun]
  /\ db.rules \in RuleRecord /\ db.granted \in RuleRecord
  /\ ~Rules!Loosens(db.granted, db.rules)
  /\ \A c \in db.open : /\ c.before \in RuleRecord /\ c.rules \in RuleRecord
                        /\ ~Rules!Loosens(db.granted, c.rules)

\* The loosest of two rules is within neither's reach, and what is within one of
\* them is within it.
LEMMA LoosestIsLooser ==
  ASSUME NEW r \in RuleRecord, NEW s \in RuleRecord
  PROVE  /\ Rules!Loosest(r, s) \in RuleRecord
         /\ ~Rules!Loosens(Rules!Loosest(r, s), s)
         /\ \A t \in RuleRecord : ~Rules!Loosens(r, t) => ~Rules!Loosens(Rules!Loosest(r, s), t)
BY DEF RuleRecord, Rules!Loosest, Rules!Loosens

\* Rules that are not looser than rules within what was acknowledged are within it.
LEMMA TighterIsWithin ==
  ASSUME NEW g \in RuleRecord, NEW r \in RuleRecord, NEW s \in RuleRecord,
         ~Rules!Loosens(g, r), ~Rules!Loosens(r, s)
  PROVE  ~Rules!Loosens(g, s)
BY DEF RuleRecord, Rules!Loosens

\* A change begins on the rules that are stored, and asks for nothing beyond what was
\* acknowledged by then.
LEMMA ChangeBegins ==
  ASSUME RuleSets \subseteq RuleRecord, RulesInv,
         NEW rules \in RuleSets, NEW confirm \in BOOLEAN, Rules!BeginChange(rules, confirm)
  PROVE  RulesInv'
<1> DEFINE R == db.rules
           G == db.granted
           O == db.open
           B == db.begun
           new == [id |-> B, before |-> R, rules |-> rules]
           H == IF confirm THEN Rules!Loosest(G, rules) ELSE G
<1>1. /\ db = [rules |-> R, granted |-> G, open |-> O, begun |-> B]
      /\ R \in RuleRecord /\ G \in RuleRecord /\ rules \in RuleRecord
      /\ ~Rules!Loosens(G, R)
      /\ \A c \in O : c.before \in RuleRecord /\ c.rules \in RuleRecord /\ ~Rules!Loosens(G, c.rules)
  BY DEF RulesInv
<1>2. Rules!Loosens(R, rules) => confirm
  BY DEF Rules!BeginChange, Rules!PatchAccepted
<1>3. db' = [db EXCEPT !.begun = B + 1, !.open = O \cup {new}, !.granted = H]
  BY DEF Rules!BeginChange
<1>4. new.before = R /\ new.rules = rules
  OBVIOUS
<1>5. /\ H \in RuleRecord /\ ~Rules!Loosens(H, R) /\ ~Rules!Loosens(H, rules)
      /\ \A c \in O : ~Rules!Loosens(H, c.rules)
  <2>1. CASE confirm
    <3>1. H = Rules!Loosest(G, rules)
      BY <2>1
    <3> HIDE DEF H, R, G, O, B, new
    <3>2. /\ H \in RuleRecord /\ ~Rules!Loosens(H, rules)
          /\ \A t \in RuleRecord : ~Rules!Loosens(G, t) => ~Rules!Loosens(H, t)
      BY <1>1, <3>1, LoosestIsLooser
    <3> QED
      BY <1>1, <3>2
  <2>2. CASE ~confirm
    <3>1. H = G
      BY <2>2
    <3> HIDE DEF H, R, G, O, B, new
    <3>2. ~Rules!Loosens(G, rules)
      BY <1>1, <1>2, <2>2, TighterIsWithin
    <3> QED
      BY <1>1, <3>1, <3>2
  <2> QED
    BY <2>1, <2>2
<1> HIDE DEF R, G, O, B, new, H
<1>6. db' = [rules |-> R, granted |-> H, open |-> O \cup {new}, begun |-> B + 1]
  BY <1>1, <1>3
<1>7. db'.rules = R /\ db'.granted = H /\ db'.open = O \cup {new} /\ db'.begun = B + 1
  BY <1>6
<1>8. \A c \in O \cup {new} : /\ c.before \in RuleRecord /\ c.rules \in RuleRecord
                              /\ ~Rules!Loosens(H, c.rules)
  BY <1>1, <1>4, <1>5
<1> QED
  BY <1>1, <1>5, <1>6, <1>7, <1>8 DEF RulesInv

\* A change is written over what is stored by then, or rolled back.
LEMMA ChangeEnds ==
  ASSUME RulesInv, NEW change \in db.open, Rules!EndChange(change)
  PROVE  RulesInv'
<1> DEFINE R == db.rules
           G == db.granted
           O == db.open
           B == db.begun
<1>1. /\ db = [rules |-> R, granted |-> G, open |-> O, begun |-> B]
      /\ R \in RuleRecord /\ G \in RuleRecord
      /\ ~Rules!Loosens(G, R)
      /\ \A c \in O : c.before \in RuleRecord /\ c.rules \in RuleRecord /\ ~Rules!Loosens(G, c.rules)
      /\ change \in O
  BY DEF RulesInv
<1>2. PICK rules \in {Rules!Written(change), R} :
        db' = [db EXCEPT !.rules = rules, !.open = O \ {change}]
  BY DEF Rules!EndChange
<1>3. rules \in RuleRecord /\ ~Rules!Loosens(G, rules)
  <2>1. CASE rules = R
    BY <1>1, <2>1
  <2>2. CASE rules = Rules!Written(change)
    <3>1. /\ rules = [limit |-> rules.limit, cooldown |-> rules.cooldown]
          /\ rules.limit = change.rules.limit \/ rules.limit = R.limit
          /\ rules.cooldown = change.rules.cooldown \/ rules.cooldown = R.cooldown
      BY <2>2 DEF Rules!Written, Rules!Merged
    <3> HIDE DEF R, G, O, B
    <3>2. /\ rules.limit \in Int /\ rules.cooldown \in Int
          /\ ~(rules.limit > G.limit) /\ ~(rules.cooldown < G.cooldown)
      BY <1>1, <3>1 DEF RuleRecord, Rules!Loosens
    <3> QED
      BY <3>1, <3>2 DEF RuleRecord, Rules!Loosens
  <2> QED
    BY <1>2, <2>1, <2>2
<1> HIDE DEF R, G, O, B
<1>4. db' = [rules |-> rules, granted |-> G, open |-> O \ {change}, begun |-> B]
  BY <1>1, <1>2
<1>5. db'.rules = rules /\ db'.granted = G /\ db'.open = O \ {change} /\ db'.begun = B
  BY <1>4
<1> QED
  BY <1>1, <1>3, <1>4, <1>5 DEF RulesInv

\* Changes begin and end in any order.
LEMMA RulesKeeps ==
  ASSUME RuleSets \subseteq RuleRecord, RulesInv,
         Rules!RulesNext \/ UNCHANGED <<ui, net, db, wire>>
  PROVE  RulesInv'
<1>1. CASE Rules!RulesNext
  BY <1>1, ChangeBegins, ChangeEnds DEF Rules!RulesNext
<1>2. CASE UNCHANGED <<ui, net, db, wire>>
  BY <1>2 DEF RulesInv
<1> QED
  BY <1>1, <1>2

\* The rules that are stored first count as acknowledged.
LEMMA RulesStarts ==
  ASSUME RuleSets \subseteq RuleRecord, Rules!RulesInit
  PROVE  RulesInv
<1>1. PICK rules \in RuleSets : db = [rules |-> rules, granted |-> rules, open |-> {}, begun |-> 0]
  BY DEF Rules!RulesInit
<1>2. rules \in RuleRecord /\ ~Rules!Loosens(rules, rules)
  BY <1>1 DEF RuleRecord, Rules!Loosens
<1>3. db.rules = rules /\ db.granted = rules /\ db.open = {} /\ db.begun = 0
  BY <1>1
<1> QED
  BY <1>1, <1>2, <1>3 DEF RulesInv

----------------------------------------------------------------------------
(* Backtests.  Whatever becomes the active backtest is asked for at once,   *)
(* so on an ordered wire the last answer that will be shown is of the       *)
(* active one, and when no such answer is due, it is shown.                 *)

Simulations == INSTANCE BacktestsPage
  WITH MaxClicks <- BacktestsClicks, MaxFailures <- BacktestsFailures

\* The requests whose answers are shown: those of a backtest, and those of a status,
\* which another page asks for in the same way.
ShowOps == {"first", "detail", "runDetail", "status", "reload"}

\* The last request whose answer will be shown is of this one; if there is none, it is
\* what is shown.
ToShow(q, id, shown) ==
  /\ \A k \in DOMAIN q :
       q[k].op \in ShowOps /\ (\A j \in DOMAIN q : q[j].op \in ShowOps => j <= k) => q[k].arg = id
  /\ (\A k \in DOMAIN q : q[k].op \notin ShowOps) => shown = id

\* While nothing fails, such requests are answered with what they asked for.
Honest(r) == r.op \in ShowOps /\ r.back => r.ok /\ r.val # <<>> /\ r.val[1].id = r.arg

BacktestsStored ==
  /\ db = [backtests |-> db.backtests, failures |-> db.failures]
  /\ db.failures \in Nat

ShownId(view) == IF view.active = <<>> THEN 0 ELSE view.active[1].id

ShownInv ==
  /\ InFlight(net) /\ BacktestsStored
  /\ {"active", "activeId"} \subseteq DOMAIN ui
  /\ wire = "ordered" /\ db.failures = 0 =>
       /\ \A i \in DOMAIN net : Honest(net[i])
       /\ ToShow(net, ui.activeId, ShownId(ui))

\* A request that is issued is the last one: it is shown last if it is to be shown.
LEMMA ShowIssued ==
  ASSUME NEW q, InFlight(q), NEW op, NEW arg
  PROVE  LET n == Simulations!Issue(q, op, arg) IN
         /\ InFlight(n)
         /\ (\A i \in DOMAIN q : Honest(q[i])) => \A i \in DOMAIN n : Honest(n[i])
         /\ \A shown : op \in ShowOps => ToShow(n, arg, shown)
         /\ \A id, shown : op \notin ShowOps /\ ToShow(q, id, shown) => ToShow(n, id, shown)
<1> DEFINE r == Simulations!NewRequest(op, arg)
           n == Append(q, r)
<1>1. IsRequest(r) /\ Honest(r) /\ r.op = op /\ r.arg = arg
  BY DEF IsRequest, Honest, Simulations!NewRequest, Simulations!Null
<1> HIDE DEF r
<1>2. /\ InFlight(n) /\ Len(q) \in Nat /\ DOMAIN q = 1..Len(q) /\ DOMAIN n = 1..(Len(q) + 1)
      /\ \A j \in 1..Len(q) : n[j] = q[j]
      /\ n[Len(q) + 1] = r
  BY <1>1, Issued
<1> HIDE DEF n
<1>3. ASSUME \A i \in DOMAIN q : Honest(q[i]), NEW i \in DOMAIN n
      PROVE  Honest(n[i])
  <2>1. CASE i = Len(q) + 1
    BY <1>1, <1>2, <2>1
  <2>2. CASE i \in 1..Len(q)
    BY <1>2, <1>3, <2>2
  <2> QED
    BY <1>2, <2>1, <2>2
<1>4. ASSUME NEW shown, op \in ShowOps
      PROVE  ToShow(n, arg, shown)
  <2>1. Len(q) + 1 \in DOMAIN n /\ n[Len(q) + 1].op \in ShowOps
    BY <1>1, <1>2, <1>4
  <2>2. ASSUME NEW k \in DOMAIN n, \A j \in DOMAIN n : n[j].op \in ShowOps => j <= k
        PROVE  n[k].arg = arg
    <3>1. k = Len(q) + 1
      BY <1>2, <2>1, <2>2
    <3> QED
      BY <1>1, <1>2, <3>1
  <2> QED
    BY <2>1, <2>2 DEF ToShow
<1>5. ASSUME NEW id, NEW shown, op \notin ShowOps, ToShow(q, id, shown)
      PROVE  ToShow(n, id, shown)
  <2>1. \A k \in DOMAIN n : n[k].op \in ShowOps => k \in DOMAIN q /\ n[k] = q[k]
    BY <1>1, <1>2, <1>5
  <2>2. \A k \in DOMAIN q : k \in DOMAIN n /\ n[k] = q[k]
    BY <1>2
  <2>3. ASSUME NEW k \in DOMAIN n, n[k].op \in ShowOps,
               \A j \in DOMAIN n : n[j].op \in ShowOps => j <= k
        PROVE  n[k].arg = id
    BY <1>5, <2>1, <2>2, <2>3 DEF ToShow
  <2>4. (\A k \in DOMAIN n : n[k].op \notin ShowOps) => shown = id
    BY <1>5, <2>2 DEF ToShow
  <2> QED
    BY <2>3, <2>4 DEF ToShow
<1> QED
  BY <1>2, <1>3, <1>4, <1>5 DEF n, r, Simulations!Issue

\* When the first request was handled, the rest shows the same last, or, if it was
\* the last to be shown, it is shown.
LEMMA ShowHandled ==
  ASSUME NEW q, InFlight(q), 1 \in DOMAIN q
  PROVE  LET n == Without(q, 1) IN
         /\ InFlight(n)
         /\ (\A i \in DOMAIN q : Honest(q[i])) => \A i \in DOMAIN n : Honest(n[i])
         /\ \A id, shown : q[1].op \notin ShowOps /\ ToShow(q, id, shown) => ToShow(n, id, shown)
         /\ \A id, shown : q[1].op \in ShowOps /\ ToShow(q, id, shown) => ToShow(n, id, q[1].arg)
<1> DEFINE n == Without(q, 1)
<1>1. /\ InFlight(n) /\ Len(q) \in Nat /\ DOMAIN q = 1..Len(q) /\ DOMAIN n = 1..(Len(q) - 1)
      /\ \A j \in 1..(Len(q) - 1) : n[j] = q[IF j < 1 THEN j ELSE j + 1]
  BY Removed
<1> HIDE DEF n
<1>2. \A j \in DOMAIN n : j + 1 \in DOMAIN q /\ n[j] = q[j + 1]
  BY <1>1
<1>3. \A k \in DOMAIN q : k = 1 \/ (k - 1 \in DOMAIN n /\ n[k - 1] = q[k])
  BY <1>1
<1>4. \A k \in DOMAIN q : k \in Nat
  BY <1>1
<1>5. ASSUME NEW id, NEW shown, ToShow(q, id, shown),
             NEW k \in DOMAIN n, n[k].op \in ShowOps,
             \A j \in DOMAIN n : n[j].op \in ShowOps => j <= k
      PROVE  n[k].arg = id
  <2>1. k \in Nat /\ k + 1 \in DOMAIN q /\ n[k] = q[k + 1]
    BY <1>1, <1>2, <1>5
  <2>2. ASSUME NEW j \in DOMAIN q, q[j].op \in ShowOps
        PROVE  j <= k + 1
    <3>1. CASE j = 1
      BY <2>1, <3>1
    <3>2. CASE j # 1
      <4>1. j - 1 \in DOMAIN n /\ n[j - 1] = q[j]
        BY <1>3, <3>2
      <4>2. j - 1 <= k
        BY <1>5, <2>2, <4>1
      <4> QED
        BY <1>4, <2>1, <4>2
    <3> QED
      BY <3>1, <3>2
  <2> QED
    BY <1>5, <2>1, <2>2 DEF ToShow
<1>6. ASSUME NEW id, NEW shown, q[1].op \notin ShowOps, ToShow(q, id, shown)
      PROVE  ToShow(n, id, shown)
  <2>1. (\A k \in DOMAIN n : n[k].op \notin ShowOps) => shown = id
    <3>1. SUFFICES ASSUME \A k \in DOMAIN n : n[k].op \notin ShowOps PROVE shown = id
      OBVIOUS
    <3>2. \A k \in DOMAIN q : q[k].op \notin ShowOps
      BY <1>3, <1>6, <3>1
    <3> QED
      BY <1>6, <3>2 DEF ToShow
  <2> QED
    BY <1>5, <1>6, <2>1 DEF ToShow
<1>7. ASSUME NEW id, NEW shown, q[1].op \in ShowOps, ToShow(q, id, shown)
      PROVE  ToShow(n, id, q[1].arg)
  <2>1. (\A k \in DOMAIN n : n[k].op \notin ShowOps) => q[1].arg = id
    <3>1. SUFFICES ASSUME \A k \in DOMAIN n : n[k].op \notin ShowOps PROVE q[1].arg = id
      OBVIOUS
    <3>2. \A k \in DOMAIN q : q[k].op \in ShowOps => k <= 1
      BY <1>3, <3>1
    <3> QED
      BY <1>7, <3>2 DEF ToShow
  <2> QED
    BY <1>5, <1>7, <2>1 DEF ToShow
<1> QED
  BY <1>1, <1>2, <1>6, <1>7 DEF n

\* The API works on a request: what it asks for stays.
LEMMA ShowServed ==
  ASSUME NEW q, NEW n, DOMAIN n = DOMAIN q,
         \A k \in DOMAIN q : n[k].op = q[k].op /\ (q[k].op \in ShowOps => n[k].arg = q[k].arg)
  PROVE  \A id, shown : ToShow(q, id, shown) => ToShow(n, id, shown)
BY DEF ToShow

\* Backtests are made and worked on; only a failed request counts as one.
LEMMA BacktestsKept ==
  ASSUME BacktestsStored,
         \/ UNCHANGED db
         \/ \E s : db' = [db EXCEPT !.backtests = s]
         \/ \E n, row : db' = [db EXCEPT !.backtests[n] = row]
  PROVE  BacktestsStored' /\ db'.failures = db.failures
<1> DEFINE B == db.backtests
           F == db.failures
<1>1. db = [backtests |-> B, failures |-> F] /\ F \in Nat
  BY DEF BacktestsStored
<1> HIDE DEF B, F
<1>2. db' = [backtests |-> db'.backtests, failures |-> db'.failures] /\ db'.failures = F
  <2>1. CASE UNCHANGED db \/ \E s : db' = [db EXCEPT !.backtests = s]
    BY <1>1, <2>1
  <2>2. ASSUME NEW n, NEW row, db' = [db EXCEPT !.backtests[n] = row]
        PROVE  db' = [backtests |-> db'.backtests, failures |-> db'.failures] /\ db'.failures = F
    BY <1>1, <2>2
  <2> QED
    BY <2>1, <2>2
<1> QED
  BY <1>1, <1>2 DEF BacktestsStored, F

\* What is shown stays when neither it nor the active backtest changes.
LEMMA SameShown ==
  ASSUME {"active", "activeId"} \subseteq DOMAIN ui',
         ui'.active = ui.active, ui'.activeId = ui.activeId,
         ShownInv, InFlight(net'), BacktestsStored',
         wire' = wire, db'.failures = 0 => db.failures = 0,
         wire = "ordered" /\ db.failures = 0 /\ db'.failures = 0 =>
           ((\A i \in DOMAIN net : Honest(net[i])) => \A i \in DOMAIN net' : Honest(net'[i])),
         wire = "ordered" /\ db.failures = 0 /\ db'.failures = 0 =>
           \A id, shown : ToShow(net, id, shown) => ToShow(net', id, shown)
  PROVE  ShownInv'
<1>1. ShownId(ui') = ShownId(ui)
  BY DEF ShownId
<1> QED
  BY <1>1 DEF ShownInv

\* An answer is handled, and what comes of it asked for.
LEMMA ShownDelivered ==
  ASSUME ShownInv, Simulations!Deliver
  PROVE  ShownInv'
<1>1. PICK i \in DOMAIN net :
        /\ net[i].back /\ (wire = "ordered" => i = 1)
        /\ LET r == net[i] rest == Simulations!Handled(i) IN
           \/ Simulations!DeliverBootstrap(r, rest) \/ Simulations!DeliverFirst(r, rest)
           \/ Simulations!DeliverDetail(r, rest) \/ Simulations!DeliverRun(r, rest)
  BY DEF Simulations!Deliver, Simulations!Deliverable
<1> DEFINE r == net[i]
           rest == Simulations!Handled(i)
           Calm == wire = "ordered" /\ db.failures = 0
           Due(q, id, shown) == (\A k \in DOMAIN q : Honest(q[k])) /\ ToShow(q, id, shown)
<1>2. InFlight(net) /\ BacktestsStored /\ {"active", "activeId"} \subseteq DOMAIN ui
      /\ (Calm => Due(net, ui.activeId, ShownId(ui)))
  BY DEF ShownInv
<1>3. /\ InFlight(rest)
      /\ Calm => /\ \A k \in DOMAIN rest : Honest(rest[k])
                 /\ r.op \notin ShowOps => ToShow(rest, ui.activeId, ShownId(ui))
                 /\ r.op \in ShowOps => /\ ToShow(rest, ui.activeId, r.arg)
                                        /\ r.ok /\ r.val # <<>> /\ r.val[1].id = r.arg
  <2>1. rest = Without(net, i)
    BY DEF Without, Simulations!Handled, Simulations!RemoveAt
  <2>2. InFlight(rest)
    BY <1>2, <2>1, Removed
  <2>3. CASE Calm
    <3>1. i = 1 /\ 1 \in DOMAIN net /\ Honest(r)
      BY <1>1, <1>2, <2>3
    <3>2. /\ \A k \in DOMAIN rest : Honest(rest[k])
          /\ r.op \notin ShowOps => ToShow(rest, ui.activeId, ShownId(ui))
          /\ r.op \in ShowOps => ToShow(rest, ui.activeId, r.arg)
      BY <1>2, <2>1, <2>3, <3>1, ShowHandled
    <3> QED
      BY <1>1, <2>2, <3>1, <3>2 DEF Honest
  <2> QED
    BY <2>2, <2>3
<1>4. UNCHANGED <<db, wire>>
  BY DEF Simulations!Deliver
<1>5. BacktestsStored'
  BY <1>2, <1>4 DEF BacktestsStored
<1>6. ASSUME {"active", "activeId"} \subseteq DOMAIN ui', InFlight(net'),
             Calm => Due(net', ui'.activeId, ShownId(ui'))
      PROVE  ShownInv'
  BY <1>4, <1>5, <1>6 DEF ShownInv
<1>7. ASSUME {"active", "activeId"} \subseteq DOMAIN ui', ui'.active = ui.active,
             ui'.activeId = ui.activeId, r.op \notin ShowOps, net' = rest
      PROVE  ShownInv'
  <2>1. ShownId(ui') = ShownId(ui)
    BY <1>7 DEF ShownId
  <2> QED
    BY <1>3, <1>6, <1>7, <2>1
<1>8. ASSUME {"active", "activeId"} \subseteq DOMAIN ui', NEW op, NEW arg,
             net' = Simulations!Issue(rest, op, arg), op \in ShowOps, ui'.activeId = arg
      PROVE  ShownInv'
  <2>1. InFlight(net') /\ (Calm => \A k \in DOMAIN net' : Honest(net'[k]))
        /\ ToShow(net', ui'.activeId, ShownId(ui'))
    BY <1>3, <1>8, ShowIssued
  <2> QED
    BY <1>6, <1>8, <2>1
<1>9. ASSUME {"active", "activeId"} \subseteq DOMAIN ui', ui'.activeId = ui.activeId,
             r.op \in ShowOps, r.ok => ui'.active = r.val,
             \/ net' = rest
             \/ net' = Simulations!Issue(rest, "runHistory", 0)
      PROVE  ShownInv'
  <2>1. Calm => ShownId(ui') = r.arg
    BY <1>3, <1>9 DEF ShownId
  <2>2. CASE net' = rest
    BY <1>3, <1>6, <1>9, <2>1, <2>2
  <2>3. CASE net' = Simulations!Issue(rest, "runHistory", 0)
    <3>1. "runHistory" \notin ShowOps
      BY DEF ShowOps
    <3>2. InFlight(net') /\ (Calm => \A k \in DOMAIN net' : Honest(net'[k]))
          /\ (Calm => ToShow(net', ui.activeId, r.arg))
      BY <1>3, <1>9, <2>3, <3>1, ShowIssued
    <3> QED
      BY <1>6, <1>9, <2>1, <3>2
  <2> QED
    BY <1>9, <2>2, <2>3
<1> HIDE DEF r, rest, Calm, Due
<1>10. CASE Simulations!DeliverBootstrap(r, rest)
  <2> USE DEF Simulations!DeliverBootstrap, Simulations!Goes
  <2>1. r.op \notin ShowOps
    BY <1>10 DEF ShowOps
  <2>2. CASE ~r.ok
    BY <1>2, <1>7, <1>10, <2>1, <2>2
  <2>3. CASE r.ok /\ r.val[1] = <<>>
    BY <1>2, <1>7, <1>10, <2>1, <2>3
  <2>4. CASE r.ok /\ r.val[1] # <<>>
    <3>1. PICK id : id = r.val[1][1].id
      OBVIOUS
    <3>2. net' = Simulations!Issue(rest, "first", id) /\ ui'.activeId = id
          /\ {"active", "activeId"} \subseteq DOMAIN ui'
      BY <1>2, <1>10, <2>4, <3>1
    <3> QED
      BY <1>8, <3>2 DEF ShowOps
  <2> QED
    BY <2>2, <2>3, <2>4
<1>11. CASE Simulations!DeliverFirst(r, rest)
  <2> USE DEF Simulations!DeliverFirst, Simulations!Goes
  <2>1. net' = rest /\ r.op \in ShowOps
    BY <1>11 DEF ShowOps
  <2>2. /\ {"active", "activeId"} \subseteq DOMAIN ui' /\ ui'.activeId = ui.activeId
        /\ r.ok => ui'.active = r.val
    BY <1>2, <1>11
  <2> QED
    BY <1>9, <2>1, <2>2
<1>12. CASE Simulations!DeliverDetail(r, rest)
  <2> USE DEF Simulations!DeliverDetail, Simulations!Goes
  <2>1. net' = rest /\ r.op \in ShowOps
    BY <1>12 DEF ShowOps
  <2>2. /\ {"active", "activeId"} \subseteq DOMAIN ui' /\ ui'.activeId = ui.activeId
        /\ r.ok => ui'.active = r.val
    BY <1>2, <1>12
  <2> QED
    BY <1>9, <2>1, <2>2
<1>13. CASE Simulations!DeliverRun(r, rest)
  <2> USE DEF Simulations!Goes
  <2>1. CASE r.op = "run" /\ r.ok
    <3>1. PICK n, view : n = r.val[1] /\ net' = Simulations!Issue(rest, "runDetail", n)
            /\ ui' = [ui EXCEPT !.activeId = n, !.active = view]
      BY <1>13, <2>1 DEF Simulations!DeliverRun
    <3>2. {"active", "activeId"} \subseteq DOMAIN ui' /\ ui'.activeId = n
      BY <1>2, <3>1
    <3> QED
      BY <1>8, <3>1, <3>2 DEF ShowOps
  <2>2. CASE r.op = "runDetail" /\ r.ok
    <3>1. net' = Simulations!Issue(rest, "runHistory", 0) /\ ui' = [ui EXCEPT !.active = r.val]
      BY <1>13, <2>2 DEF Simulations!DeliverRun
    <3>2. {"active", "activeId"} \subseteq DOMAIN ui' /\ ui'.activeId = ui.activeId /\ ui'.active = r.val
      BY <1>2, <3>1
    <3> QED
      BY <1>9, <2>2, <3>1, <3>2 DEF ShowOps
  <2>3. CASE r.op = "runHistory" /\ r.ok
    <3>1. net' = rest /\ ui' = [ui EXCEPT !.history = r.val[1], !.submitting = FALSE]
      BY <1>13, <2>3 DEF Simulations!DeliverRun
    <3>2. {"active", "activeId"} \subseteq DOMAIN ui' /\ ui'.activeId = ui.activeId /\ ui'.active = ui.active
      BY <1>2, <3>1
    <3> QED
      BY <1>7, <2>3, <3>1, <3>2 DEF ShowOps
  <2>4. CASE r.op \in {"run", "runDetail", "runHistory"} /\ ~r.ok
    <3>1. net' = rest /\ ui' = [ui EXCEPT !.formError = TRUE, !.submitting = FALSE]
      BY <1>13, <2>4 DEF Simulations!DeliverRun
    <3>2. {"active", "activeId"} \subseteq DOMAIN ui' /\ ui'.activeId = ui.activeId /\ ui'.active = ui.active
      BY <1>2, <3>1
    <3>3. CASE r.op = "runDetail"
      BY <1>9, <2>4, <3>1, <3>2, <3>3 DEF ShowOps
    <3>4. CASE r.op # "runDetail"
      BY <1>7, <2>4, <3>1, <3>2, <3>4 DEF ShowOps
    <3> QED
      BY <3>3, <3>4
  <2> QED
    BY <1>13, <2>1, <2>2, <2>3, <2>4 DEF Simulations!DeliverRun
<1> QED
  BY <1>1, <1>10, <1>11, <1>12, <1>13 DEF r, rest

\* The API answers what is asked, and starts what is to be run.
LEMMA ShownServed ==
  ASSUME ShownInv, Simulations!Serve
  PROVE  ShownInv'
<1>1. PICK i \in DOMAIN net :
        LET r == net[i] IN
        Simulations!ServeRead(r, i) \/ Simulations!CreateRun(r, i) \/ Simulations!AnswerRun(r, i)
  BY DEF Simulations!Serve, Simulations!Servable
<1> DEFINE r == net[i]
<1>2. /\ InFlight(net) /\ BacktestsStored /\ {"active", "activeId"} \subseteq DOMAIN ui
      /\ IsRequest(r) /\ UNCHANGED <<ui, wire>>
  BY DEF ShownInv, InFlight, Simulations!Serve
<1>3. ASSUME NEW n, InFlight(n), DOMAIN n = DOMAIN net, net' = n,
             \A j \in DOMAIN net : j # i => n[j] = net[j],
             n[i].op = r.op, r.op \in ShowOps => n[i].arg = r.arg /\ Honest(n[i]),
             BacktestsStored', db'.failures = db.failures
      PROVE  ShownInv'
  <2>1. \A id, shown : ToShow(net, id, shown) => ToShow(n, id, shown)
    <3>1. \A k \in DOMAIN net :
            n[k].op = net[k].op /\ (net[k].op \in ShowOps => n[k].arg = net[k].arg)
      BY <1>3
    <3> QED
      BY <1>3, <3>1, ShowServed
  <2>2. (\A k \in DOMAIN net : Honest(net[k])) => \A k \in DOMAIN n : Honest(n[k])
    BY <1>3 DEF Honest
  <2> QED
    BY <1>2, <1>3, <2>1, <2>2, SameShown
<1>4. ASSUME NEW v, net' = Simulations!Served(i, v), r.op \in ShowOps => v.id = r.arg,
             UNCHANGED db
      PROVE  ShownInv'
  <2>1. PICK okay \in BOOLEAN : okay = TRUE
    OBVIOUS
  <2>2. PICK w : w = <<v>>
    OBVIOUS
  <2> DEFINE n == Answer(net, i, okay, w)
  <2>3. net' = n
    BY <1>4, <2>1, <2>2 DEF Answer, Simulations!Served
  <2>4. /\ InFlight(n) /\ DOMAIN net = 1..Len(net) /\ DOMAIN n = 1..Len(net)
        /\ \A j \in 1..Len(net) : j # i => n[j] = net[j]
        /\ n[i] = [op |-> r.op, arg |-> r.arg, back |-> TRUE, ok |-> okay, val |-> w]
    BY <1>2, Answered
  <2> HIDE DEF n
  <2>5. n[i].op = r.op /\ n[i].arg = r.arg /\ n[i].ok = okay /\ n[i].val = w
    BY <2>4
  <2>6. w # <<>> /\ w[1] = v
    BY <2>2
  <2>7. r.op \in ShowOps => Honest(n[i])
    BY <1>4, <2>1, <2>5, <2>6 DEF Honest
  <2>8. BacktestsStored' /\ db'.failures = db.failures
    BY <1>2, <1>4, BacktestsKept
  <2> QED
    BY <1>3, <2>3, <2>4, <2>5, <2>7, <2>8
<1>5. CASE Simulations!ServeRead(r, i)
  <2>1. PICK v : v = IF r.op \in {"bootstrap", "runHistory"} THEN Simulations!History
                     ELSE Simulations!Response(r.arg, db.backtests[r.arg])
    OBVIOUS
  <2>2. net' = Simulations!Served(i, v) /\ UNCHANGED db
    BY <1>5, <2>1 DEF Simulations!ServeRead
  <2>3. r.op \in ShowOps => v.id = r.arg
    BY <2>1 DEF ShowOps, Simulations!Response
  <2> QED
    BY <1>4, <2>2, <2>3
<1>6. CASE Simulations!AnswerRun(r, i)
  <2>1. r.op \notin ShowOps /\ net' = Simulations!Served(i, r.arg.id) /\ UNCHANGED db
    BY <1>6 DEF Simulations!AnswerRun, ShowOps
  <2> QED
    BY <1>4, <2>1
<1>7. CASE Simulations!CreateRun(r, i)
  <2>1. r.op = "run" /\ r.op \notin ShowOps
    BY <1>7 DEF Simulations!CreateRun, ShowOps
  <2>2. CASE net' = Simulations!Refused(i) /\ UNCHANGED db
    <3>1. PICK okay \in BOOLEAN : okay = FALSE
      OBVIOUS
    <3>2. PICK w : w = <<>>
      OBVIOUS
    <3> DEFINE n == Answer(net, i, okay, w)
    <3>3. net' = n
      BY <2>2, <3>1, <3>2 DEF Answer, Simulations!Refused, Simulations!Null
    <3>4. /\ InFlight(n) /\ DOMAIN net = 1..Len(net) /\ DOMAIN n = 1..Len(net)
          /\ \A j \in 1..Len(net) : j # i => n[j] = net[j]
          /\ n[i] = [op |-> r.op, arg |-> r.arg, back |-> TRUE, ok |-> okay, val |-> w]
      BY <1>2, Answered
    <3> HIDE DEF n
    <3>5. n[i].op = r.op
      BY <3>4
    <3>6. BacktestsStored' /\ db'.failures = db.failures
      BY <1>2, <2>2, BacktestsKept
    <3> QED
      BY <1>3, <2>1, <3>3, <3>4, <3>5, <3>6
  <2>3. CASE /\ db' = [db EXCEPT !.backtests = Append(@, Simulations!Started(r.arg.form))]
             /\ net' = [net EXCEPT ![i].arg.id = Len(db.backtests) + 1]
    <3>1. PICK arg, m : arg = [r.arg EXCEPT !.id = Len(db.backtests) + 1]
            /\ m = [op |-> r.op, arg |-> arg, back |-> r.back, ok |-> r.ok, val |-> r.val]
      OBVIOUS
    <3>2. m = [r EXCEPT !.arg = arg]
      <4> DEFINE O == r.op
                 A == r.arg
                 B == r.back
                 K == r.ok
                 V == r.val
      <4>1. r = [op |-> O, arg |-> A, back |-> B, ok |-> K, val |-> V]
            /\ m = [op |-> O, arg |-> arg, back |-> B, ok |-> K, val |-> V]
        BY <1>2, <3>1 DEF IsRequest
      <4> HIDE DEF O, A, B, K, V, r
      <4> QED
        BY <4>1
    <3> DEFINE n == [net EXCEPT ![i] = m]
    <3>3. net' = n
      BY <2>3, <3>1, <3>2, Zenon
    <3>4. IsRequest(m) /\ m.op = r.op
      BY <1>2, <3>1 DEF IsRequest
    <3>5. /\ InFlight(n) /\ DOMAIN net = 1..Len(net) /\ DOMAIN n = 1..Len(net)
          /\ \A j \in 1..Len(net) : n[j] = IF j = i THEN m ELSE net[j]
      BY <1>2, <3>4, Replaced
    <3> HIDE DEF n
    <3>6. \E s : db' = [db EXCEPT !.backtests = s]
      BY <2>3
    <3>7. BacktestsStored' /\ db'.failures = db.failures
      BY <1>2, <3>6, BacktestsKept
    <3> QED
      BY <1>3, <2>1, <3>3, <3>4, <3>5, <3>7
  <2> QED
    BY <1>7, <2>2, <2>3 DEF Simulations!CreateRun
<1> QED
  BY <1>1, <1>5, <1>6, <1>7

\* Every step of the backtests page and of its API keeps the invariant.
LEMMA ShownKeeps ==
  ASSUME ShownInv, Simulations!BacktestsNext \/ UNCHANGED <<ui, net, db, wire>>
  PROVE  ShownInv'
<1>1. InFlight(net) /\ BacktestsStored /\ {"active", "activeId"} \subseteq DOMAIN ui
  BY DEF ShownInv
<1>2. ASSUME {"active", "activeId"} \subseteq DOMAIN ui', ui'.active = ui.active,
             ui'.activeId = ui.activeId, UNCHANGED <<net, wire>>,
             BacktestsStored', db'.failures = db.failures
      PROVE  ShownInv'
  <2>1. InFlight(net')
    BY <1>1, <1>2
  <2> QED
    BY <1>2, <2>1, SameShown
<1>3. ASSUME UNCHANGED db
      PROVE  BacktestsStored' /\ db'.failures = db.failures
  BY <1>1, <1>3, BacktestsKept
<1>4. CASE UNCHANGED <<ui, net, db, wire>>
  BY <1>1, <1>2, <1>3, <1>4
<1>5. ASSUME NEW form, Simulations!Edit(form)
      PROVE  ShownInv'
  <2>1. /\ {"active", "activeId"} \subseteq DOMAIN ui'
        /\ ui'.active = ui.active /\ ui'.activeId = ui.activeId
    BY <1>1, <1>5 DEF Simulations!Edit, Simulations!Clicked
  <2> QED
    BY <1>2, <1>3, <1>5, <2>1 DEF Simulations!Edit
<1>6. CASE \/ \E strategy \in Simulations!ToSet(BtStrategies) \cup {Simulations!Empty} :
                Simulations!ChooseStrategy(strategy)
           \/ \E k \in DOMAIN BtSets : Simulations!ChooseSet(BtSets[k].id)
           \/ \E valid \in BOOLEAN : Simulations!TypeNumbers(valid)
  BY <1>5, <1>6, Zenon
    DEF Simulations!ChooseStrategy, Simulations!ChooseSet, Simulations!TypeNumbers
<1>7. ASSUME NEW op, NEW arg, net' = Simulations!Issue(net, op, arg), UNCHANGED <<db, wire>>,
             {"active", "activeId"} \subseteq DOMAIN ui', ui'.active = ui.active,
             \/ op \notin ShowOps /\ ui'.activeId = ui.activeId
             \/ op \in ShowOps /\ ui'.activeId = arg
      PROVE  ShownInv'
  <2>1. InFlight(net') /\ ((\A i \in DOMAIN net : Honest(net[i])) => \A i \in DOMAIN net' : Honest(net'[i]))
    BY <1>1, <1>7, ShowIssued
  <2>2. CASE op \notin ShowOps /\ ui'.activeId = ui.activeId
    <3>1. \A id, shown : ToShow(net, id, shown) => ToShow(net', id, shown)
      BY <1>1, <1>7, <2>2, ShowIssued
    <3> QED
      BY <1>3, <1>7, <2>1, <2>2, <3>1, SameShown
  <2>3. CASE op \in ShowOps /\ ui'.activeId = arg
    <3>1. ToShow(net', ui'.activeId, ShownId(ui'))
      BY <1>1, <1>7, <2>3, ShowIssued
    <3> QED
      BY <1>3, <1>7, <2>1, <3>1 DEF ShownInv
  <2> QED
    BY <1>7, <2>2, <2>3
<1>8. CASE Simulations!RunBacktest
  <2>1. /\ {"active", "activeId"} \subseteq DOMAIN ui'
        /\ ui'.active = ui.active /\ ui'.activeId = ui.activeId
    <3>1. CASE Simulations!FormProblem
      BY <1>1, <1>8, <3>1 DEF Simulations!RunBacktest, Simulations!Clicked
    <3>2. CASE ~Simulations!FormProblem
      BY <1>1, <1>8, <3>2 DEF Simulations!RunBacktest, Simulations!Clicked
    <3> QED
      BY <3>1, <3>2
  <2>2. UNCHANGED <<db, wire>>
        /\ (UNCHANGED net \/ net' = Simulations!Issue(net, "run", [form |-> ui.form, id |-> 0]))
    BY <1>8 DEF Simulations!RunBacktest
  <2>3. CASE UNCHANGED net
    BY <1>2, <1>3, <2>1, <2>2, <2>3
  <2>4. CASE net' = Simulations!Issue(net, "run", [form |-> ui.form, id |-> 0])
    BY <1>7, <2>1, <2>2, <2>4 DEF ShowOps
  <2> QED
    BY <2>2, <2>3, <2>4
<1>9. ASSUME NEW k, Simulations!ShowBacktest(k)
      PROVE  ShownInv'
  <2>1. PICK id : id = ui.history[k].id
    OBVIOUS
  <2>2. /\ {"active", "activeId"} \subseteq DOMAIN ui'
        /\ ui'.active = ui.active /\ ui'.activeId = id
    BY <1>1, <1>9, <2>1 DEF Simulations!ShowBacktest, Simulations!Clicked
  <2>3. net' = Simulations!Issue(net, "detail", id) /\ UNCHANGED <<db, wire>>
    BY <1>9, <2>1 DEF Simulations!ShowBacktest
  <2> QED
    BY <1>7, <2>2, <2>3 DEF ShowOps
<1>10. CASE Simulations!PollTick
  <2>1. net' = Simulations!Issue(net, "detail", ui.activeId) /\ UNCHANGED <<ui, db, wire>>
    BY <1>10 DEF Simulations!PollTick
  <2> QED
    BY <1>1, <1>7, <2>1 DEF ShowOps
<1>11. CASE Simulations!Deliver
  BY <1>11, ShownDelivered
<1>12. CASE Simulations!Serve
  BY <1>12, ShownServed
<1>13. CASE Simulations!Advance
  <2>1. PICK n \in DOMAIN db.backtests : Simulations!MarkRunning(n) \/ Simulations!FinishBacktest(n)
    BY <1>13 DEF Simulations!Advance
  <2>2. \E row : db' = [db EXCEPT !.backtests[n] = row]
    <3>1. CASE Simulations!MarkRunning(n)
      <4>1. PICK row : row = [db.backtests[n] EXCEPT !.status = "running"]
        OBVIOUS
      <4>2. db' = [db EXCEPT !.backtests[n] = row]
        BY <3>1, <4>1 DEF Simulations!MarkRunning
      <4> QED
        BY <4>2
    <3>2. CASE Simulations!FinishBacktest(n)
      BY <3>2, Zenon DEF Simulations!FinishBacktest
    <3> QED
      BY <2>1, <3>1, <3>2
  <2>3. BacktestsStored' /\ db'.failures = db.failures
    BY <1>1, <2>2, BacktestsKept
  <2>4. UNCHANGED <<ui, net, wire>>
    BY <2>1, Zenon DEF Simulations!MarkRunning, Simulations!FinishBacktest
  <2> QED
    BY <1>1, <1>2, <2>3, <2>4
<1>14. CASE Simulations!RequestFails
  <2>1. PICK i \in DOMAIN net : net' = Simulations!Refused(i)
    BY <1>14 DEF Simulations!RequestFails, Simulations!Servable, Simulations!Deliverable
  <2>2. InFlight(net')
    <3>1. PICK okay \in BOOLEAN : okay = FALSE
      OBVIOUS
    <3>2. PICK w : w = <<>>
      OBVIOUS
    <3>3. net' = Answer(net, i, okay, w)
      BY <2>1, <3>1, <3>2 DEF Answer, Simulations!Refused, Simulations!Null
    <3> QED
      BY <1>1, <3>3, Answered
  <2>3. BacktestsStored' /\ db'.failures # 0
    <3> DEFINE B == db.backtests
               F == db.failures
    <3>1. db = [backtests |-> B, failures |-> F] /\ F \in Nat
      BY <1>1 DEF BacktestsStored
    <3>2. db' = [db EXCEPT !.failures = F + 1]
      BY <1>14 DEF Simulations!RequestFails
    <3> HIDE DEF B, F
    <3>3. db' = [backtests |-> db'.backtests, failures |-> db'.failures] /\ db'.failures = F + 1
      BY <3>1, <3>2
    <3> QED
      BY <3>1, <3>3 DEF BacktestsStored
  <2>4. UNCHANGED <<ui, wire>>
    BY <1>14 DEF Simulations!RequestFails
  <2> QED
    BY <1>1, <2>2, <2>3, <2>4 DEF ShownInv
<1> QED
  BY <1>4, <1>6, <1>8, <1>9, <1>10, <1>11, <1>12, <1>13, <1>14, Zenon DEF Simulations!BacktestsNext

\* The page mounts with nothing active and nothing shown.
LEMMA ShownStarts ==
  ASSUME Simulations!BacktestsInit
  PROVE  ShownInv
<1> DEFINE r == Simulations!NewRequest("bootstrap", 0)
<1>1. IsRequest(r) /\ r.op \notin ShowOps
  BY DEF IsRequest, ShowOps, Simulations!NewRequest, Simulations!Null
<1> HIDE DEF r
<1>2. net = Append(<<>>, r)
  BY DEF Simulations!BacktestsInit, Simulations!Issue, r
<1>3. InFlight(net) /\ DOMAIN net = 1..1 /\ net[1] = r
  BY <1>1, <1>2, FirstRequest
<1>4. {"active", "activeId"} \subseteq DOMAIN ui /\ ui.active = <<>> /\ ui.activeId = 0
  BY DEF Simulations!BacktestsInit, Simulations!Null
<1>5. BacktestsStored
  <2>1. PICK s : db = [backtests |-> s, failures |-> 0]
    BY DEF Simulations!BacktestsInit
  <2> QED
    BY <2>1 DEF BacktestsStored
<1>6. ToShow(net, ui.activeId, ShownId(ui)) /\ \A i \in DOMAIN net : Honest(net[i])
  BY <1>1, <1>3, <1>4 DEF ToShow, Honest, ShownId
<1> QED
  BY <1>3, <1>4, <1>5, <1>6 DEF ShownInv

\* When nothing is in flight, no answer is due.
LEMMA ShownHolds ==
  ASSUME ShownInv
  PROVE  Simulations!ShownIsActive
<1>1. SUFFICES ASSUME wire = "ordered", net = <<>>, db.failures = 0
               PROVE  ShownId(ui) = ui.activeId
  BY DEF Simulations!ShownIsActive, ShownId, Simulations!Null
<1>2. DOMAIN net = {}
  BY <1>1
<1> QED
  BY <1>1, <1>2 DEF ShownInv, ToShow

----------------------------------------------------------------------------
(* The risk monitor.  The rules a page loads are of the account it has      *)
(* loaded, since none other is loaded while they are; of the statuses it    *)
(* asks for, the last it will show is.  A kill-switch change is of it too:  *)
(* its confirmation is open until it is answered, and loads wait for that.  *)

Risk == INSTANCE RiskMonitorPage
  WITH MaxClicks <- RiskClicks, MaxFailures <- RiskFailures

RiskFields == {"loaded", "status", "rules", "rulesLoading", "intent", "mutating"}

\* The requests of a change, which the page makes one at a time.
Changing == {"patch", "switch", "reload"}
RiskOps == Changing \cup {"status", "rules"}

None(q, ops) == \A i \in DOMAIN q : q[i].op \notin ops
Alone(q, ops) == \A i, j \in DOMAIN q : q[i].op \in ops /\ q[j].op \in ops => i = j

\* What is read is answered for the account it was asked of; no rules are changed;
\* what the page waits for, it shows.
RiskRequest(r, u) ==
  /\ r.op \in RiskOps
  /\ r.op \in {"status", "reload", "rules"} /\ r.val # <<>> => r.val[1].account = r.arg
  /\ r.op = "patch" => ~r.ok
  /\ r.op = "rules" => u.rulesLoading /\ r.arg = u.loaded[1]
  /\ r.op = "switch" => u.intent # "none" /\ r.arg.account = u.loaded[1]
  /\ r.op \in Changing => u.mutating

RiskRequests(q, u) ==
  /\ InFlight(q)
  /\ \A i \in DOMAIN q : RiskRequest(q[i], u)
  /\ Alone(q, {"rules"}) /\ Alone(q, Changing)

RulesShown(u) ==
  /\ RiskFields \subseteq DOMAIN u
  /\ ~u.rulesLoading /\ u.rules # <<>> => u.rules[1].account = u.loaded[1]

\* The account of the status that is shown; of no status it is the loaded one.
StatusOf(u) == IF u.status = <<>> THEN u.loaded[1] ELSE u.status[1].account

StatusDue(q, u) == ToShow(q, u.loaded[1], StatusOf(u))

RiskInv ==
  /\ RiskRequests(net, ui) /\ RulesShown(ui)
  /\ wire = "ordered" => StatusDue(net, ui)

\* The page waits for what is on its way.
LEMMA NoneWaited ==
  ASSUME NEW q, NEW u, RiskRequests(q, u)
  PROVE  /\ ~u.rulesLoading => None(q, {"rules"})
         /\ ~u.mutating => None(q, Changing)
         /\ u.intent = "none" => None(q, {"switch"})
BY DEF RiskRequests, RiskRequest, None

\* A page that goes on waiting, or waits for something that is not on its way.
LEMMA RiskMoved ==
  ASSUME NEW q, NEW u, NEW w, RiskRequests(q, u),
         None(q, {"rules"}) \/ (w.rulesLoading = u.rulesLoading /\ w.loaded = u.loaded),
         None(q, {"switch"}) \/ (w.intent = u.intent /\ w.loaded = u.loaded),
         None(q, Changing) \/ w.mutating = u.mutating
  PROVE  RiskRequests(q, w)
BY DEF RiskRequests, RiskRequest, None, Changing

\* A request is issued.
LEMMA RiskIssued ==
  ASSUME NEW q, NEW u, RiskRequests(q, u), NEW op \in RiskOps, NEW arg,
         op = "rules" => None(q, {"rules"}) /\ u.rulesLoading /\ arg = u.loaded[1],
         op \in Changing => None(q, Changing) /\ u.mutating,
         op = "switch" => u.intent # "none" /\ arg.account = u.loaded[1]
  PROVE  RiskRequests(Risk!Issue(q, op, arg), u)
<1> DEFINE r == Risk!NewRequest(op, arg)
           n == Append(q, r)
<1>1. IsRequest(r) /\ RiskRequest(r, u) /\ r.op = op
  BY DEF IsRequest, RiskRequest, Changing, Risk!NewRequest, Risk!Null
<1> HIDE DEF r
<1>2. InFlight(q) /\ (\A i \in DOMAIN q : RiskRequest(q[i], u))
      /\ Alone(q, {"rules"}) /\ Alone(q, Changing)
  BY DEF RiskRequests
<1>3. /\ InFlight(n) /\ Len(q) \in Nat /\ DOMAIN q = 1..Len(q) /\ DOMAIN n = 1..(Len(q) + 1)
      /\ \A j \in 1..Len(q) : n[j] = q[j]
      /\ n[Len(q) + 1] = r
  BY <1>1, <1>2, Issued
<1> HIDE DEF n
<1>4. \A i \in DOMAIN n : (i \in DOMAIN q /\ n[i] = q[i]) \/ (i = Len(q) + 1 /\ n[i] = r)
  BY <1>3
<1>5. \A i \in DOMAIN n : RiskRequest(n[i], u)
  BY <1>1, <1>2, <1>4
<1>6. ASSUME NEW ops, Alone(q, ops), op \in ops => None(q, ops)
      PROVE  Alone(n, ops)
  BY <1>1, <1>4, <1>6 DEF Alone, None
<1>7. op \in {"rules"} => None(q, {"rules"})
  OBVIOUS
<1>8. Alone(n, {"rules"}) /\ Alone(n, Changing)
  BY <1>2, <1>6, <1>7
<1>9. RiskRequests(n, u)
  BY <1>3, <1>5, <1>8 DEF RiskRequests
<1> QED
  BY <1>9 DEF n, r, Risk!Issue

\* An answer that is handled is no longer on its way, nor is another of its kind.
LEMMA RiskHandled ==
  ASSUME NEW u, RiskRequests(net, u), NEW i \in DOMAIN net
  PROVE  LET n == Risk!Handled(i) IN
         /\ RiskRequests(n, u)
         /\ net[i].op = "rules" => None(n, {"rules"})
         /\ net[i].op \in Changing => None(n, Changing)
<1> DEFINE n == Without(net, i)
<1>1. InFlight(net) /\ (\A k \in DOMAIN net : RiskRequest(net[k], u))
      /\ Alone(net, {"rules"}) /\ Alone(net, Changing)
  BY DEF RiskRequests
<1>2. /\ InFlight(n) /\ Len(net) \in Nat /\ DOMAIN net = 1..Len(net) /\ DOMAIN n = 1..(Len(net) - 1)
      /\ \A j \in 1..(Len(net) - 1) : n[j] = net[IF j < i THEN j ELSE j + 1]
  BY <1>1, Removed
<1> HIDE DEF n
<1> DEFINE at(j) == IF j < i THEN j ELSE j + 1
<1>3. \A j \in DOMAIN n : at(j) \in DOMAIN net /\ n[j] = net[at(j)] /\ at(j) # i
  BY <1>2
<1>4. \A j, k \in DOMAIN n : at(j) = at(k) => j = k
  BY <1>2
<1> HIDE DEF at
<1>5. \A j \in DOMAIN n : RiskRequest(n[j], u)
  BY <1>1, <1>3
<1>6. ASSUME NEW ops, Alone(net, ops)
      PROVE  Alone(n, ops) /\ (net[i].op \in ops => None(n, ops))
  BY <1>3, <1>4, <1>6 DEF Alone, None
<1>7. RiskRequests(n, u)
  BY <1>1, <1>2, <1>5, <1>6 DEF RiskRequests
<1>8. net[i].op = "rules" => net[i].op \in {"rules"}
  OBVIOUS
<1>9. /\ net[i].op = "rules" => None(n, {"rules"})
      /\ net[i].op \in Changing => None(n, Changing)
  BY <1>1, <1>6, <1>8
<1> QED
  BY <1>7, <1>9 DEF n, Without, Risk!Handled, Risk!RemoveAt

\* The API answers: reads with the account they are of, and no change of the rules well.
LEMMA RiskAnswered ==
  ASSUME NEW u, RiskRequests(net, u), NEW i \in DOMAIN net, NEW okay \in BOOLEAN, NEW v,
         net[i].op \in {"status", "reload", "rules"} /\ v # <<>> => v[1].account = net[i].arg,
         net[i].op = "patch" => ~okay
  PROVE  LET n == Answer(net, i, okay, v) IN
         /\ RiskRequests(n, u)
         /\ \A id, shown : ToShow(net, id, shown) => ToShow(n, id, shown)
<1> DEFINE n == Answer(net, i, okay, v)
           r == [op |-> net[i].op, arg |-> net[i].arg, back |-> TRUE, ok |-> okay, val |-> v]
<1>1. InFlight(net) /\ (\A k \in DOMAIN net : RiskRequest(net[k], u))
      /\ Alone(net, {"rules"}) /\ Alone(net, Changing)
  BY DEF RiskRequests
<1>2. /\ InFlight(n) /\ DOMAIN net = 1..Len(net) /\ DOMAIN n = 1..Len(net)
      /\ \A j \in 1..Len(net) : j # i => n[j] = net[j]
      /\ n[i] = r
  BY <1>1, Answered
<1>3. r.op = net[i].op /\ r.arg = net[i].arg /\ RiskRequest(r, u)
  BY <1>1 DEF RiskRequest
<1> HIDE DEF n, r
<1>4. DOMAIN n = DOMAIN net /\ \A k \in DOMAIN net : n[k].op = net[k].op /\ n[k].arg = net[k].arg
  BY <1>2, <1>3
<1>5. \A k \in DOMAIN n : RiskRequest(n[k], u)
  BY <1>1, <1>2, <1>3
<1>6. Alone(n, {"rules"}) /\ Alone(n, Changing)
  BY <1>1, <1>4 DEF Alone
<1>7. RiskRequests(n, u)
  BY <1>2, <1>5, <1>6 DEF RiskRequests
<1>8. \A id, shown : ToShow(net, id, shown) => ToShow(n, id, shown)
  BY <1>4, ShowServed
<1> QED
  BY <1>7, <1>8 DEF n

\* A request that was refused carries nothing.
LEMMA RiskRefused ==
  ASSUME NEW u, RiskRequests(net, u), NEW i \in DOMAIN net
  PROVE  /\ RiskRequests(Risk!Refused(i), u)
         /\ \A id, shown : ToShow(net, id, shown) => ToShow(Risk!Refused(i), id, shown)
<1>1. PICK okay \in BOOLEAN : okay = FALSE
  OBVIOUS
<1>2. PICK v : v = <<>>
  OBVIOUS
<1>3. /\ RiskRequests(Answer(net, i, okay, v), u)
      /\ \A id, shown : ToShow(net, id, shown) => ToShow(Answer(net, i, okay, v), id, shown)
  BY <1>1, <1>2, RiskAnswered
<1>4. Risk!Refused(i) = Answer(net, i, okay, v)
  BY <1>1, <1>2 DEF Answer, Risk!Refused, Risk!Null
<1> QED
  BY <1>3, <1>4

\* So does one that was served.
LEMMA RiskServed ==
  ASSUME NEW u, RiskRequests(net, u), NEW i \in DOMAIN net, NEW payload,
         net[i].op \in {"status", "reload", "rules"} => payload.account = net[i].arg,
         net[i].op # "patch"
  PROVE  /\ RiskRequests(Risk!Served(i, payload), u)
         /\ \A id, shown : ToShow(net, id, shown) => ToShow(Risk!Served(i, payload), id, shown)
<1>1. PICK okay \in BOOLEAN : okay = TRUE
  OBVIOUS
<1>2. PICK v : v = <<payload>>
  OBVIOUS
<1>3. v[1] = payload
  BY <1>2
<1>4. /\ RiskRequests(Answer(net, i, okay, v), u)
      /\ \A id, shown : ToShow(net, id, shown) => ToShow(Answer(net, i, okay, v), id, shown)
  BY <1>3, RiskAnswered
<1>5. Risk!Served(i, payload) = Answer(net, i, okay, v)
  BY <1>1, <1>2 DEF Answer, Risk!Served
<1> QED
  BY <1>4, <1>5

\* What is issued last is shown last if it is a status.
LEMMA StatusIssued ==
  ASSUME NEW q, InFlight(q), NEW op, NEW arg
  PROVE  LET n == Risk!Issue(q, op, arg) IN
         /\ op \in {"status", "reload"} => \A shown : ToShow(n, arg, shown)
         /\ op \in {"patch", "rules", "switch"} =>
              \A id, shown : ToShow(q, id, shown) => ToShow(n, id, shown)
<1>1. Risk!Issue(q, op, arg) = Simulations!Issue(q, op, arg)
  BY DEF Risk!Issue, Risk!NewRequest, Risk!Null,
         Simulations!Issue, Simulations!NewRequest, Simulations!Null
<1>2. /\ op \in {"status", "reload"} => op \in ShowOps
      /\ op \in {"patch", "rules", "switch"} => op \notin ShowOps
  BY DEF ShowOps
<1> QED
  BY <1>1, <1>2, ShowIssued

\* An account is loaded: its status is asked for last, and its rules alone.
LEMMA AccountLoaded ==
  ASSUME RiskInv, NEW a, Risk!LoadAccount(a)
  PROVE  RiskInv'
<1> DEFINE n == Risk!Issue(net, "status", a)
<1>1. RiskRequests(net, ui) /\ RulesShown(ui)
  BY DEF RiskInv
<1>2. ui.intent = "none" /\ ~ui.rulesLoading
      /\ net' = Risk!Issue(n, "rules", a) /\ wire' = wire
  BY DEF Risk!LoadAccount, Risk!PageFree
<1>3. /\ DOMAIN ui' = DOMAIN ui
      /\ ui'.loaded = <<a>> /\ ui'.rulesLoading = TRUE /\ ui'.status = ui.status
      /\ ui'.intent = ui.intent /\ ui'.mutating = ui.mutating
  BY <1>1 DEF Risk!LoadAccount, Risk!StartRules, Risk!StartStatus, RulesShown, RiskFields
<1>4. None(net, {"rules"}) /\ None(net, {"switch"})
  BY <1>1, <1>2, NoneWaited
<1>5. RiskRequests(net, ui')
  BY <1>1, <1>3, <1>4, RiskMoved
<1>6. PICK op : op = "status"
  OBVIOUS
<1>7. RiskRequests(Risk!Issue(net, op, a), ui')
  BY <1>5, <1>6, RiskIssued DEF RiskOps, Changing
<1>8. RiskRequests(n, ui') /\ InFlight(net) /\ InFlight(n)
  BY <1>1, <1>6, <1>7 DEF RiskRequests
<1>9. None(n, {"rules"})
  <2>1. n = Append(net, Risk!NewRequest("status", a))
    BY DEF Risk!Issue
  <2>2. PICK r : r = Risk!NewRequest("status", a)
    OBVIOUS
  <2>3. r.op = "status" /\ IsRequest(r)
    BY <2>2 DEF IsRequest, Risk!NewRequest, Risk!Null
  <2>4. /\ DOMAIN net = 1..Len(net) /\ DOMAIN n = 1..(Len(net) + 1) /\ Len(net) \in Nat
        /\ \A j \in 1..Len(net) : n[j] = net[j]
        /\ n[Len(net) + 1] = r
    BY <1>8, <2>1, <2>2, <2>3, Issued
  <2> HIDE DEF n
  <2>5. \A j \in DOMAIN n : (j \in DOMAIN net /\ n[j] = net[j]) \/ n[j] = r
    BY <2>4
  <2> QED
    BY <1>4, <2>3, <2>5 DEF None
<1>10. \A shown : ToShow(n, a, shown)
  BY <1>6, <1>8, StatusIssued
<1> HIDE DEF n
<1>11. PICK rd : rd = "rules"
  OBVIOUS
<1>12. RiskRequests(Risk!Issue(n, rd, a), ui')
  BY <1>3, <1>8, <1>9, <1>11, RiskIssued DEF RiskOps, Changing
<1>13. \A shown : ToShow(Risk!Issue(n, rd, a), a, shown)
  BY <1>8, <1>10, <1>11, StatusIssued
<1>14. RiskRequests(net', ui') /\ StatusDue(net', ui')
  BY <1>2, <1>3, <1>11, <1>12, <1>13 DEF StatusDue
<1>15. RulesShown(ui')
  BY <1>1, <1>3 DEF RulesShown
<1> QED
  BY <1>14, <1>15 DEF RiskInv

\* What the page shows of its account stays.
SameAccount(u, w) ==
  /\ DOMAIN w = DOMAIN u
  /\ w.loaded = u.loaded /\ w.rules = u.rules /\ w.rulesLoading = u.rulesLoading

\* So do the properties of it, when the status is also what it was.
LEMMA SameRules ==
  ASSUME NEW u, NEW w, SameAccount(u, w)
  PROVE  /\ RulesShown(u) => RulesShown(w)
         /\ w.status = u.status => \A q : StatusDue(q, u) => StatusDue(q, w)
BY DEF SameAccount, RulesShown, StatusDue, StatusOf

\* Steps of the form and of the confirmation leave the requests alone.
LEMMA FormMoves ==
  ASSUME RiskInv, UNCHANGED <<net, wire>>, SameAccount(ui, ui'), ui'.status = ui.status,
         ui'.mutating = ui.mutating,
         ui'.intent = ui.intent \/ ui.intent = "none" \/ ~ui.mutating
  PROVE  RiskInv'
<1>1. RiskRequests(net, ui) /\ RulesShown(ui)
  BY DEF RiskInv
<1>2. None(net, {"switch"}) \/ ui'.intent = ui.intent
  <2>1. CASE ~ui.mutating
    <3>1. None(net, Changing)
      BY <1>1, <2>1, NoneWaited
    <3> QED
      BY <3>1 DEF None, Changing
  <2> QED
    BY <1>1, <2>1, NoneWaited
<1>3. RiskRequests(net, ui')
  BY <1>1, <1>2, RiskMoved DEF SameAccount
<1> QED
  BY <1>1, <1>3, SameRules DEF RiskInv

\* The page's poll of the status asks for the loaded account.
LEMMA StatusPolled ==
  ASSUME RiskInv, Risk!StatusTick
  PROVE  RiskInv'
<1>1. RiskRequests(net, ui) /\ RulesShown(ui) /\ InFlight(net)
  BY DEF RiskInv, RiskRequests
<1>2. /\ SameAccount(ui, ui') /\ ui'.status = ui.status
      /\ ui'.intent = ui.intent /\ ui'.mutating = ui.mutating
      /\ net' = Risk!Issue(net, "status", ui.loaded[1])
  BY <1>1 DEF Risk!StatusTick, Risk!StartStatus, SameAccount, RulesShown, RiskFields
<1>3. RiskRequests(net, ui') /\ RulesShown(ui')
  BY <1>1, <1>2, RiskMoved, SameRules DEF SameAccount
<1>4. PICK op, a : op = "status" /\ a = ui.loaded[1]
  OBVIOUS
<1>5. /\ RiskRequests(Risk!Issue(net, op, a), ui')
      /\ \A shown : ToShow(Risk!Issue(net, op, a), a, shown)
  BY <1>1, <1>3, <1>4, RiskIssued, StatusIssued DEF RiskOps, Changing
<1>6. ui'.loaded[1] = a
  BY <1>2, <1>4 DEF SameAccount
<1> QED
  BY <1>2, <1>3, <1>4, <1>5, <1>6 DEF RiskInv, StatusDue

\* A change is asked of the loaded account while none is under way.
LEMMA ChangeAsked ==
  ASSUME RiskInv, SameAccount(ui, ui'), ui'.status = ui.status, wire' = wire,
         ui'.intent = ui.intent,
         \/ UNCHANGED net /\ ui'.mutating = ui.mutating
         \/ \E op \in {"patch", "switch"} : \E arg :
              /\ net' = Risk!Issue(net, op, arg)
              /\ ~ui.mutating /\ ui'.mutating
              /\ op = "switch" => ui.intent # "none" /\ arg.account = ui.loaded[1]
  PROVE  RiskInv'
<1>1. RiskRequests(net, ui) /\ RulesShown(ui) /\ InFlight(net)
  BY DEF RiskInv, RiskRequests
<1>2. CASE UNCHANGED net /\ ui'.mutating = ui.mutating
  BY <1>2, FormMoves
<1>3. ASSUME NEW op \in {"patch", "switch"}, NEW arg,
             net' = Risk!Issue(net, op, arg), ~ui.mutating, ui'.mutating,
             op = "switch" => ui.intent # "none" /\ arg.account = ui.loaded[1]
      PROVE  RiskInv'
  <2>1. None(net, Changing)
    BY <1>1, <1>3, NoneWaited
  <2>2. RiskRequests(net, ui') /\ RulesShown(ui')
    BY <1>1, <2>1, RiskMoved, SameRules DEF SameAccount
  <2>3. ui'.loaded = ui.loaded
    BY DEF SameAccount
  <2>4. RiskRequests(net', ui')
    BY <1>3, <2>1, <2>2, <2>3, RiskIssued DEF RiskOps, Changing
  <2>5. \A id, shown : ToShow(net, id, shown) => ToShow(net', id, shown)
    BY <1>1, <1>3, StatusIssued
  <2>6. wire = "ordered" => StatusDue(net, ui')
    BY SameRules DEF RiskInv
  <2> QED
    BY <2>2, <2>4, <2>5, <2>6 DEF RiskInv, StatusDue
<1> QED
  BY <1>2, <1>3

\* A status is shown: it is of the account it was asked of, if there is one.
LEMMA StatusShown ==
  ASSUME RiskInv, NEW i \in DOMAIN net, wire = "ordered" => i = 1,
         net[i].op \in {"status", "reload"}, wire' = wire, net' = Risk!Handled(i),
         SameAccount(ui, ui'), ui'.intent = ui.intent,
         ui'.status = net[i].val \/ ui'.status = <<>>,
         ui'.mutating = ui.mutating \/ net[i].op = "reload"
  PROVE  RiskInv'
<1>1. RiskRequests(net, ui) /\ RulesShown(ui) /\ InFlight(net) /\ RiskRequest(net[i], ui)
  BY DEF RiskInv, RiskRequests
<1>2. /\ RiskRequests(net', ui)
      /\ net[i].op \in Changing => None(net', Changing)
  BY <1>1, RiskHandled
<1>3. RiskRequests(net', ui') /\ RulesShown(ui')
  BY <1>1, <1>2, RiskMoved, SameRules DEF SameAccount, Changing
<1>4. CASE wire = "ordered"
  <2>1. i = 1 /\ 1 \in DOMAIN net /\ ToShow(net, ui.loaded[1], StatusOf(ui)) /\ net[1].op \in ShowOps
    BY <1>4 DEF RiskInv, StatusDue, ShowOps
  <2>2. net' = Without(net, 1)
    BY <2>1 DEF Without, Risk!Handled, Risk!RemoveAt
  <2>3. ToShow(net', ui.loaded[1], net[1].arg)
    BY <1>1, <2>1, <2>2, ShowHandled
  <2>4. ui'.loaded = ui.loaded
    BY DEF SameAccount
  <2>5. CASE ui'.status = <<>>
    <3>1. ToShow(net', ui.loaded[1], ui.loaded[1])
      BY <2>3 DEF ToShow
    <3> QED
      BY <1>3, <2>4, <2>5, <3>1 DEF RiskInv, StatusDue, StatusOf
  <2>6. CASE ui'.status = net[i].val /\ ui'.status # <<>>
    <3>1. ui'.status[1].account = net[1].arg
      BY <1>1, <2>1, <2>6 DEF RiskRequest
    <3> QED
      BY <1>3, <2>3, <2>4, <2>6, <3>1 DEF RiskInv, StatusDue, StatusOf
  <2> QED
    BY <2>5, <2>6
<1>5. CASE wire # "ordered"
  BY <1>3, <1>5 DEF RiskInv
<1> QED
  BY <1>4, <1>5

\* An answer that is no status is handled: the statuses that are due stay.
LEMMA StatusStays ==
  ASSUME RiskInv, NEW i \in DOMAIN net, wire = "ordered" => i = 1,
         net[i].op \notin {"status", "reload"},
         net[i].op \in {"patch", "rules", "switch"}
  PROVE  wire = "ordered" => StatusDue(Risk!Handled(i), ui)
<1>1. SUFFICES ASSUME wire = "ordered" PROVE StatusDue(Risk!Handled(i), ui)
  OBVIOUS
<1>2. i = 1 /\ 1 \in DOMAIN net /\ StatusDue(net, ui) /\ net[1].op \notin ShowOps /\ InFlight(net)
  BY <1>1 DEF RiskInv, RiskRequests, ShowOps
<1>3. Risk!Handled(i) = Without(net, 1)
  BY <1>2 DEF Without, Risk!Handled, Risk!RemoveAt
<1> QED
  BY <1>2, <1>3, ShowHandled DEF StatusDue

\* The page handles an answer.
LEMMA RiskDelivered ==
  ASSUME RiskInv, Risk!Deliver
  PROVE  RiskInv'
<1>1. PICK i \in DOMAIN net :
        /\ wire = "ordered" => i = 1
        /\ LET r == net[i] rest == Risk!Handled(i) IN
           \/ Risk!DeliverStatus(r, rest) \/ Risk!DeliverUnknownStatus(r, rest)
           \/ Risk!DeliverRules(r, rest) \/ Risk!DeliverPatch(r, rest)
           \/ Risk!DeliverSwitch(r, rest) \/ Risk!DeliverReload(r, rest)
  BY DEF Risk!Deliver, Risk!Deliverable
<1> DEFINE r == net[i]
           rest == Risk!Handled(i)
<1>2. RiskRequests(net, ui) /\ RulesShown(ui) /\ RiskRequest(r, ui)
  BY DEF RiskInv, RiskRequests
<1>3. /\ RiskRequests(rest, ui)
      /\ r.op = "rules" => None(rest, {"rules"})
      /\ r.op \in Changing => None(rest, Changing)
  BY <1>2, RiskHandled
<1>4. wire' = wire
  BY DEF Risk!Deliver
<1>5. r.op \in {"patch", "rules", "switch"} => (wire = "ordered" => StatusDue(rest, ui))
  BY <1>1, StatusStays
<1>6. RiskFields \subseteq DOMAIN ui
  BY <1>2 DEF RulesShown
<1> HIDE DEF r, rest
<1>7. CASE Risk!DeliverStatus(r, rest)
  <2>1. /\ r.op \in {"status", "reload"} /\ net' = rest
        /\ SameAccount(ui, ui') /\ ui'.intent = ui.intent /\ ui'.mutating = ui.mutating
        /\ ui'.status = r.val
    BY <1>6, <1>7 DEF Risk!DeliverStatus, SameAccount, RiskFields
  <2> QED
    BY <1>1, <1>4, <2>1, StatusShown DEF r, rest
<1>8. CASE Risk!DeliverUnknownStatus(r, rest)
  <2>1. /\ r.op \in {"status", "reload"} /\ net' = rest
        /\ SameAccount(ui, ui') /\ ui'.intent = ui.intent /\ ui'.mutating = ui.mutating
        /\ ui'.status = <<>>
    BY <1>6, <1>8 DEF Risk!DeliverUnknownStatus, SameAccount, RiskFields, Risk!Null
  <2> QED
    BY <1>1, <1>4, <2>1, StatusShown DEF r, rest
<1>9. CASE Risk!DeliverReload(r, rest)
  <2>1. /\ r.op \in {"status", "reload"} /\ r.op = "reload" /\ net' = rest
        /\ SameAccount(ui, ui') /\ ui'.intent = ui.intent /\ ui'.status = r.val
    BY <1>6, <1>9 DEF Risk!DeliverReload, SameAccount, RiskFields
  <2> QED
    BY <1>1, <1>4, <2>1, StatusShown DEF r, rest
<1>10. CASE Risk!DeliverRules(r, rest)
  <2>1. /\ r.op = "rules" /\ net' = rest /\ DOMAIN ui' = DOMAIN ui
        /\ ui'.loaded = ui.loaded /\ ui'.status = ui.status /\ ui'.rules = r.val
        /\ ui'.intent = ui.intent /\ ui'.mutating = ui.mutating
    BY <1>6, <1>10 DEF Risk!DeliverRules, RiskFields
  <2>2. RiskRequests(net', ui')
    BY <1>3, <2>1, RiskMoved
  <2>3. RulesShown(ui')
    BY <1>2, <2>1 DEF RulesShown, RiskRequest
  <2>4. wire = "ordered" => StatusDue(net', ui')
    BY <1>5, <2>1 DEF StatusDue, StatusOf
  <2> QED
    BY <1>4, <2>2, <2>3, <2>4 DEF RiskInv
<1>11. CASE Risk!DeliverPatch(r, rest)
  <2>1. r.op = "patch" /\ net' = rest /\ ~r.ok
    BY <1>2, <1>11 DEF Risk!DeliverPatch, RiskRequest
  <2>2. /\ SameAccount(ui, ui') /\ ui'.status = ui.status /\ ui'.intent = ui.intent
    BY <1>6, <1>11, <2>1 DEF Risk!DeliverPatch, SameAccount, RiskFields
  <2>3. None(rest, Changing)
    BY <1>3, <2>1 DEF Changing
  <2>4. RiskRequests(net', ui') /\ RulesShown(ui')
    BY <1>2, <1>3, <2>1, <2>2, <2>3, RiskMoved, SameRules DEF SameAccount
  <2>5. wire = "ordered" => StatusDue(net', ui')
    BY <1>5, <2>1, <2>2, SameRules
  <2> QED
    BY <1>4, <2>4, <2>5 DEF RiskInv
<1>12. CASE Risk!DeliverSwitch(r, rest)
  <2>1. r.op = "switch" /\ None(rest, Changing) /\ ui.mutating /\ r.arg.account = ui.loaded[1]
    BY <1>2, <1>3, <1>12 DEF Risk!DeliverSwitch, RiskRequest, Changing
  <2>2. None(rest, {"switch"})
    BY <2>1 DEF None, Changing
  <2>3. CASE r.ok
    <3>1. /\ SameAccount(ui, ui') /\ ui'.status = ui.status /\ ui'.mutating = ui.mutating
          /\ net' = Risk!Issue(rest, "reload", r.arg.account)
      BY <1>6, <1>12, <2>3 DEF Risk!DeliverSwitch, Risk!StartStatus, SameAccount, RiskFields
    <3>2. RiskRequests(rest, ui') /\ RulesShown(ui') /\ InFlight(rest)
      BY <1>2, <1>3, <2>2, <3>1, RiskMoved, SameRules DEF SameAccount, RiskRequests
    <3>3. PICK op, a : op = "reload" /\ a = ui.loaded[1]
      OBVIOUS
    <3>4. /\ RiskRequests(Risk!Issue(rest, op, a), ui')
          /\ \A shown : ToShow(Risk!Issue(rest, op, a), a, shown)
      BY <2>1, <3>1, <3>2, <3>3, RiskIssued, StatusIssued DEF RiskOps, Changing
    <3>5. ui'.loaded[1] = a /\ net' = Risk!Issue(rest, op, a)
      BY <2>1, <3>1, <3>3 DEF SameAccount
    <3> QED
      BY <3>2, <3>4, <3>5 DEF RiskInv, StatusDue
  <2>4. CASE ~r.ok
    <3>1. /\ SameAccount(ui, ui') /\ ui'.status = ui.status /\ ui'.intent = ui.intent
          /\ net' = rest
      BY <1>6, <1>12, <2>4 DEF Risk!DeliverSwitch, SameAccount, RiskFields
    <3>2. RiskRequests(net', ui') /\ RulesShown(ui')
      BY <1>2, <1>3, <2>1, <3>1, RiskMoved, SameRules DEF SameAccount
    <3>3. wire = "ordered" => StatusDue(net', ui')
      BY <1>5, <2>1, <3>1, SameRules
    <3> QED
      BY <1>4, <3>2, <3>3 DEF RiskInv
  <2> QED
    BY <2>3, <2>4
<1> QED
  BY <1>1, <1>7, <1>8, <1>9, <1>10, <1>11, <1>12 DEF r, rest

\* Answers leave the page as it is until they are handled.
LEMMA RiskAnswersCome ==
  ASSUME RiskInv, UNCHANGED <<ui, wire>>, RiskRequests(net', ui),
         \A id, shown : ToShow(net, id, shown) => ToShow(net', id, shown)
  PROVE  RiskInv'
<1>1. ui' = ui /\ wire' = wire
  OBVIOUS
<1>2. wire = "ordered" => StatusDue(net', ui)
  BY DEF RiskInv, StatusDue
<1> QED
  BY <1>1, <1>2 DEF RiskInv

\* The API serves a request, or refuses it.
LEMMA RiskIsServed ==
  ASSUME RiskInv, Risk!Serve
  PROVE  RiskInv'
<1>1. PICK i \in DOMAIN net :
        LET r == net[i] IN
        Risk!ServePatch(r, i) \/ Risk!ServeSwitch(r, i) \/ Risk!ServeRules(r, i) \/ Risk!ServeStatus(r, i)
  BY DEF Risk!Serve, Risk!Servable
<1> DEFINE r == net[i]
<1>2. RiskRequests(net, ui) /\ UNCHANGED <<ui, wire>>
  BY DEF RiskInv, Risk!Serve
<1>3. ASSUME net' = Risk!Refused(i)
      PROVE  RiskInv'
  BY <1>2, <1>3, RiskRefused, RiskAnswersCome
<1>4. ASSUME NEW payload, net' = Risk!Served(i, payload), r.op # "patch",
             r.op \in {"status", "reload", "rules"} => payload.account = r.arg
      PROVE  RiskInv'
  BY <1>2, <1>4, RiskServed, RiskAnswersCome
<1>5. CASE Risk!ServePatch(r, i)
  BY <1>3, <1>5 DEF Risk!ServePatch
<1>6. CASE Risk!ServeSwitch(r, i)
  <2>1. r.op = "switch" /\ net' = Risk!Served(i, r.arg.intent)
    BY <1>6 DEF Risk!ServeSwitch
  <2> HIDE DEF r
  <2>2. PICK payload : payload = r.arg.intent
    OBVIOUS
  <2> QED
    BY <1>4, <2>1, <2>2
<1>7. CASE Risk!ServeRules(r, i)
  <2>1. r.op = "rules" /\ net' = Risk!Served(i, [account |-> r.arg])
    BY <1>7 DEF Risk!ServeRules
  <2> HIDE DEF r
  <2>2. PICK payload : payload = [account |-> r.arg]
    OBVIOUS
  <2>3. payload.account = r.arg
    BY <2>2
  <2> QED
    BY <1>4, <2>1, <2>2, <2>3
<1>8. CASE Risk!ServeStatus(r, i)
  <2>1. CASE net' = Risk!Refused(i)
    BY <1>3, <2>1
  <2>2. CASE net' = Risk!Served(i, Risk!StatusAnswer(r.arg))
    <3>1. r.op \in {"status", "reload"}
      BY <1>8 DEF Risk!ServeStatus
    <3> HIDE DEF r
    <3>2. PICK payload : payload = Risk!StatusAnswer(r.arg)
      OBVIOUS
    <3>3. payload.account = r.arg
      BY <3>2 DEF Risk!StatusAnswer
    <3> QED
      BY <1>4, <2>2, <3>1, <3>2, <3>3
  <2> QED
    BY <1>8, <2>1, <2>2 DEF Risk!ServeStatus
<1> QED
  BY <1>1, <1>5, <1>6, <1>7, <1>8

\* Every step keeps it.
LEMMA RiskKeeps ==
  ASSUME RiskInv, Risk!RiskNext \/ UNCHANGED <<ui, net, db, wire>>
  PROVE  RiskInv'
<1>1. RiskFields \subseteq DOMAIN ui
  BY DEF RiskInv, RulesShown
<1>2. ASSUME NEW a, Risk!LoadAccount(a)
      PROVE  RiskInv'
  BY <1>2, AccountLoaded
<1>3. ASSUME NEW looser, Risk!EditDraft(looser)
      PROVE  RiskInv'
  <2>1. /\ SameAccount(ui, ui') /\ ui'.status = ui.status /\ ui'.mutating = ui.mutating
        /\ ui'.intent = ui.intent /\ UNCHANGED <<net, wire>>
    BY <1>1, <1>3 DEF Risk!EditDraft, SameAccount, RiskFields
  <2> QED
    BY <2>1, FormMoves
<1>4. ASSUME NEW intent, Risk!OpenConfirm(intent)
      PROVE  RiskInv'
  <2>1. /\ SameAccount(ui, ui') /\ ui'.status = ui.status /\ ui'.mutating = ui.mutating
        /\ ui.intent = "none" /\ UNCHANGED <<net, wire>>
    BY <1>1, <1>4 DEF Risk!OpenConfirm, Risk!PageFree, SameAccount, RiskFields
  <2> QED
    BY <2>1, FormMoves
<1>5. CASE Risk!CloseConfirm
  <2>1. /\ SameAccount(ui, ui') /\ ui'.status = ui.status /\ ui'.mutating = ui.mutating
        /\ ~ui.mutating /\ UNCHANGED <<net, wire>>
    BY <1>1, <1>5 DEF Risk!CloseConfirm, SameAccount, RiskFields
  <2> QED
    BY <2>1, FormMoves
<1>6. CASE Risk!Acknowledge
  <2>1. /\ SameAccount(ui, ui') /\ ui'.status = ui.status /\ ui'.mutating = ui.mutating
        /\ ui'.intent = ui.intent /\ UNCHANGED <<net, wire>>
    BY <1>1, <1>6 DEF Risk!Acknowledge, SameAccount, RiskFields
  <2> QED
    BY <2>1, FormMoves
<1>7. ASSUME NEW reason, Risk!SaveRules(reason)
      PROVE  RiskInv'
  <2>1. /\ SameAccount(ui, ui') /\ ui'.status = ui.status /\ ui'.intent = ui.intent /\ wire' = wire
    BY <1>1, <1>7 DEF Risk!SaveRules, Risk!Clicked, SameAccount, RiskFields
  <2>2. \/ UNCHANGED net /\ ui'.mutating = ui.mutating
        \/ /\ net' = Risk!Issue(net, "patch", ui.loaded[1])
           /\ ~ui.mutating /\ ui'.mutating
    BY <1>1, <1>7 DEF Risk!SaveRules, Risk!Clicked, RiskFields
  <2>3. CASE UNCHANGED net /\ ui'.mutating = ui.mutating
    BY <2>1, <2>3, ChangeAsked
  <2>4. CASE net' = Risk!Issue(net, "patch", ui.loaded[1]) /\ ~ui.mutating /\ ui'.mutating
    <3>1. PICK op \in {"patch", "switch"} : op = "patch"
      OBVIOUS
    <3>2. net' = Risk!Issue(net, op, ui.loaded[1])
      BY <2>4, <3>1
    <3> QED
      BY <2>1, <2>4, <3>1, <3>2, ChangeAsked
  <2> QED
    BY <2>2, <2>3, <2>4
<1>8. ASSUME NEW reason, Risk!ApplyKillSwitch(reason)
      PROVE  RiskInv'
  <2>1. /\ SameAccount(ui, ui') /\ ui'.status = ui.status /\ ui'.intent = ui.intent /\ wire' = wire
        /\ ui.intent # "none"
    BY <1>1, <1>8 DEF Risk!ApplyKillSwitch, Risk!Clicked, SameAccount, RiskFields
  <2> DEFINE change == [account |-> ui.loaded[1], intent |-> ui.intent]
  <2>2. \/ UNCHANGED net /\ ui'.mutating = ui.mutating
        \/ /\ net' = Risk!Issue(net, "switch", change)
           /\ ~ui.mutating /\ ui'.mutating
    BY <1>1, <1>8 DEF Risk!ApplyKillSwitch, Risk!Clicked, RiskFields
  <2>3. change.account = ui.loaded[1]
    OBVIOUS
  <2> HIDE DEF change
  <2>4. CASE UNCHANGED net /\ ui'.mutating = ui.mutating
    BY <2>1, <2>4, ChangeAsked
  <2>5. CASE net' = Risk!Issue(net, "switch", change) /\ ~ui.mutating /\ ui'.mutating
    <3>1. PICK op \in {"patch", "switch"} : op = "switch"
      OBVIOUS
    <3>2. net' = Risk!Issue(net, op, change)
      BY <2>5, <3>1
    <3> QED
      BY <2>1, <2>3, <2>5, <3>1, <3>2, ChangeAsked
  <2> QED
    BY <2>2, <2>4, <2>5
<1>9. CASE Risk!RequestFails
  <2>1. PICK i \in DOMAIN net : net' = Risk!Refused(i)
    BY <1>9 DEF Risk!RequestFails, Risk!Servable, Risk!Deliverable
  <2>2. UNCHANGED <<ui, wire>> /\ RiskRequests(net, ui)
    BY <1>9 DEF Risk!RequestFails, RiskInv
  <2> QED
    BY <2>1, <2>2, RiskRefused, RiskAnswersCome
<1>10. CASE Risk!RevertDraft
  BY <1>3, <1>10 DEF Risk!RevertDraft
<1>11. CASE UNCHANGED <<ui, net, db, wire>>
  <2>1. SameAccount(ui, ui')
    BY <1>11 DEF SameAccount
  <2> QED
    BY <1>11, <2>1, FormMoves
<1> QED
  BY <1>2, <1>3, <1>4, <1>5, <1>6, <1>7, <1>8, <1>9, <1>10, <1>11,
     StatusPolled, RiskDelivered, RiskIsServed DEF Risk!RiskNext

\* The page mounts with nothing loaded.
LEMMA RiskStarts ==
  ASSUME Risk!RiskInit
  PROVE  RiskInv
<1>1. net = <<>> /\ DOMAIN net = {}
  BY EmptySeq DEF Risk!RiskInit
<1>2. /\ RiskFields \subseteq DOMAIN ui /\ ui.rules = <<>> /\ ui.status = <<>>
  BY DEF Risk!RiskInit, RiskFields, Risk!Null
<1>3. InFlight(net)
  BY <1>1, EmptySeq, SeqOfRange DEF InFlight
<1>4. RiskRequests(net, ui)
  BY <1>1, <1>3 DEF RiskRequests, Alone
<1>5. RulesShown(ui) /\ StatusDue(net, ui)
  BY <1>1, <1>2 DEF RulesShown, StatusDue, StatusOf, ToShow
<1> QED
  BY <1>4, <1>5 DEF RiskInv

\* What the page shows is of its account.
LEMMA RiskHolds ==
  ASSUME RiskInv
  PROVE  Risk!RiskAgrees
<1>1. ~ui.rulesLoading /\ ui.rules # <<>> => ui.rules[1].account = ui.loaded[1]
  BY DEF RiskInv, RulesShown
<1>2. ASSUME wire = "ordered", ui.status # <<>>, ~Risk!Pending("status"), ~Risk!Pending("reload")
      PROVE  ui.status[1].account = ui.loaded[1]
  <2>1. ToShow(net, ui.loaded[1], ui.status[1].account)
    BY <1>2 DEF RiskInv, StatusDue, StatusOf
  <2>2. \A k \in DOMAIN net : net[k].op \in RiskOps /\ net[k].op \notin {"status", "reload"}
    BY <1>2 DEF RiskInv, RiskRequests, RiskRequest, Risk!Pending
  <2>3. \A k \in DOMAIN net : net[k].op \notin ShowOps
    BY <2>2 DEF RiskOps, Changing, ShowOps
  <2> QED
    BY <2>1, <2>3 DEF ToShow
<1> QED
  BY <1>1, <1>2 DEF Risk!RiskAgrees, Risk!Null

----------------------------------------------------------------------------
(* The dashboard: the panel of its tab. *)

Dashboard == INSTANCE DashboardConsole
  WITH MaxClicks <- DashboardClicks, MaxFailures <- DashboardFailures

DashFields == {"tab", "range", "hidden", "poll", "panel", "clicks"}
PanelFields == {"data", "loading", "refreshing", "error", "offset", "counter"}
HealthCounts == {"candles", "signals", "candidates", "attempted", "riskEvents", "rejected", "trades", "decisions"}

\* The pipeline's counts are numbers, reported by versions from 0 on; a counter
\* takes a positive number of frames.
HealthGiven ==
  /\ Frames \in Nat \ {0}
  /\ \E n \in Nat : DOMAIN Health = 0..n
  /\ \A v \in DOMAIN Health : \A c \in HealthCounts : Health[v][c] \in Nat

\* A counter whose animation has ended shows the value, one that runs is on its way.
Counts(counter, value) ==
  /\ DOMAIN counter = {"from", "shown", "step"}
  /\ counter.from \in Nat /\ counter.step \in 0..Frames
  /\ counter.step = Frames => counter.shown = value

\* The history panel's page, once loaded, is the one it names; the pipeline panel has

\* counts that were reported.
PanelShows(tab, panel) ==
  /\ DOMAIN panel = PanelFields
  /\ tab = "activity" /\ panel.data # <<>> /\ ~panel.loading /\ ~panel.error =>
       panel.data[1].offset = panel.offset
  /\ tab = "pipeline" =>
       /\ panel.data # <<>> => panel.data[1] \in DOMAIN Health
       /\ Counts(panel.counter, Dashboard!Counted(panel))

\* A panel's request is of the panel that is mounted and, in the history, of its page.
DashRequest(tab, offset, r) ==
  r.op \in Dashboard!PanelOps =>
    /\ r.op = tab
    /\ r.op = "activity" => r.arg = offset /\ (r.ok => r.val[1].offset = offset)
    /\ r.op = "pipeline" => (r.ok => r.val[1] \in DOMAIN Health)

DashRequests(tab, offset, q) == InFlight(q) /\ \A r \in Range(q) : DashRequest(tab, offset, r)

DashInv ==
  /\ DOMAIN ui = DashFields
  /\ PanelShows(ui.tab, ui.panel)
  /\ DOMAIN db = {"version", "failures"} /\ db.version \in DOMAIN Health
  /\ DashRequests(ui.tab, ui.panel.offset, net)

\* The value of the pipeline panel's counter is a number.
LEMMA CountedIsNumber ==
  ASSUME HealthGiven, NEW panel, panel.data # <<>> => panel.data[1] \in DOMAIN Health
  PROVE  Dashboard!Counted(panel) \in Nat
<1>1. CASE panel.data = <<>>
  BY <1>1 DEF Dashboard!Counted, Dashboard!Null
<1>2. CASE panel.data # <<>>
  <2>1. PICK v \in DOMAIN Health : v = panel.data[1]
    BY <1>2
  <2>2. Health[v].decisions \in Nat
    BY DEF HealthGiven, HealthCounts
  <2> QED
    BY <1>2, <2>1, <2>2 DEF Dashboard!Counted, Dashboard!Null
<1> QED
  BY <1>1, <1>2

\* A frame leaves the counter on its way, and the last one on the value.
LEMMA FrameCounts ==
  ASSUME HealthGiven, NEW counter, NEW value \in Nat, Counts(counter, value), counter.step < Frames
  PROVE  Counts(Dashboard!NextFrame(counter, value), value)
<1>1. PICK from \in Nat, step \in Nat : from = counter.from /\ step = counter.step + 1
  BY DEF Counts
<1>2. step \in 0..Frames /\ Frames \in Nat /\ Frames > 0 /\ (step >= Frames <=> step = Frames)
  BY <1>1 DEF Counts, HealthGiven
<1>3. PICK up, down : /\ up = IF value >= from THEN value - from ELSE 0
                      /\ down = IF value < from THEN from - value ELSE 0
  OBVIOUS
<1>4. up \in Nat /\ down \in Nat /\ (from + up) - down = value
  BY <1>3
<1>5. PICK n : n = Dashboard!NextFrame(counter, value)
  OBVIOUS
<1>6. n = [from |-> IF step >= Frames THEN value ELSE from,
           shown |-> (from + ((up * step) \div Frames)) - ((down * step) \div Frames),
           step |-> step]
  BY <1>1, <1>3, <1>5 DEF Dashboard!NextFrame
<1>7. ASSUME step = Frames
      PROVE  n.shown = value
  <2>1. \A x \in Nat : (x * Frames) \div Frames = x
    BY <1>2
  <2>2. (up * step) \div Frames = up /\ (down * step) \div Frames = down
    BY <1>4, <1>7, <2>1
  <2>3. n.shown = (from + ((up * step) \div Frames)) - ((down * step) \div Frames)
    BY <1>6
  <2> QED
    BY <1>4, <2>2, <2>3
<1>8. DOMAIN n = {"from", "shown", "step"} /\ n.step = step /\ n.from = IF step >= Frames THEN value ELSE from
  BY <1>6
<1> QED
  BY <1>1, <1>2, <1>5, <1>7, <1>8 DEF Counts

\* The status of the machine and the stages drawn below it.
LEMMA StatusHolds ==
  ASSUME HealthGiven, NEW v \in DOMAIN Health
  PROVE  LET h == Health[v] status == Dashboard!MachineStatus(h) IN
         /\ status = "waiting_market" <=> Dashboard!Tone(h, "candles") = "gray"
         /\ status = "risk_blocking" => Dashboard!Tone(h, "risk") = "red"
         /\ status = "trading" => /\ Dashboard!Tone(h, "trades") = "green"
                                  /\ Dashboard!Tone(h, "candidates") = "green"
         /\ status = "executing" => /\ Dashboard!Tone(h, "attempted") = "green"
                                    /\ Dashboard!Tone(h, "risk") # "red"
<1>1. PICK h : h = Health[v]
  OBVIOUS
<1>2. /\ h.candles \in Nat /\ h.signals \in Nat /\ h.candidates \in Nat /\ h.attempted \in Nat
      /\ h.riskEvents \in Nat /\ h.rejected \in Nat /\ h.trades \in Nat
  BY <1>1 DEF HealthGiven, HealthCounts
<1>3. Dashboard!Tone(h, "candles") = IF h.candles > 0 THEN "green" ELSE "gray"
  BY DEF Dashboard!Tone
<1>4. h.rejected > 0 <=> Dashboard!Tone(h, "risk") = "red"
  BY DEF Dashboard!Tone
<1>5. h.trades > 0 => Dashboard!Tone(h, "trades") = "green"
  BY DEF Dashboard!Tone
<1>6. h.candidates > 0 => Dashboard!Tone(h, "candidates") = "green"
  BY DEF Dashboard!Tone
<1>7. h.attempted > 0 => Dashboard!Tone(h, "attempted") = "green"
  BY DEF Dashboard!Tone
<1>8. PICK status : status = Dashboard!MachineStatus(h)
  OBVIOUS
<1>9. CASE h.candles = 0
  <2>1. status = "waiting_market"
    BY <1>8, <1>9 DEF Dashboard!MachineStatus
  <2> QED
    BY <1>1, <1>3, <1>8, <1>9, <2>1
<1>10. CASE h.candles # 0 /\ h.candidates = 0
  <2>1. status = "waiting_signal"
    BY <1>8, <1>10 DEF Dashboard!MachineStatus
  <2>2. h.candles > 0
    BY <1>2, <1>10
  <2> QED
    BY <1>1, <1>3, <1>8, <2>1, <2>2
<1>11. CASE h.candles # 0 /\ h.candidates # 0
  <2>1. h.candles > 0 /\ h.candidates > 0 /\ (h.trades = 0 \/ h.trades > 0) /\ (h.rejected = 0 \/ h.rejected > 0)
    BY <1>2, <1>11
  <2>2. CASE h.trades > 0
    <3>1. status = "trading"
      BY <1>2, <1>8, <1>11, <2>2 DEF Dashboard!MachineStatus
    <3> QED
      BY <1>1, <1>3, <1>5, <1>6, <1>8, <2>1, <2>2, <3>1
  <2>3. CASE h.trades = 0 /\ h.rejected > 0
    <3>1. status = "risk_blocking"
      BY <1>2, <1>8, <1>11, <2>3 DEF Dashboard!MachineStatus
    <3> QED
      BY <1>1, <1>3, <1>4, <1>8, <2>1, <2>3, <3>1
  <2>4. CASE h.trades = 0 /\ h.rejected = 0
    <3>1. status = IF h.attempted > 0 THEN "executing" ELSE "active"
      BY <1>2, <1>8, <1>11, <2>4 DEF Dashboard!MachineStatus
    <3>2. ~(h.rejected > 0)
      BY <2>4
    <3> QED
      BY <1>1, <1>3, <1>4, <1>7, <1>8, <2>1, <3>1, <3>2
  <2> QED
    BY <2>1, <2>2, <2>3, <2>4
<1> QED
  BY <1>9, <1>10, <1>11

\* What the panels show is consistent.
LEMMA PanelsHold ==
  ASSUME HealthGiven, DashInv
  PROVE  Dashboard!PanelsAgree
<1>1. Dashboard!HistoryPageIsSelected
  BY DEF DashInv, PanelShows, Dashboard!HistoryPageIsSelected, Dashboard!Null
<1>2. Dashboard!CounterShowsItsValue
  BY DEF DashInv, PanelShows, Counts, Dashboard!CounterShowsItsValue
<1>3. ASSUME ui.tab = "pipeline", ui.panel.data # <<>>
      PROVE  ui.panel.data[1] \in DOMAIN Health
  BY <1>3 DEF DashInv, PanelShows
<1>4. Dashboard!StatusAgreesWithStages
  BY <1>3, StatusHolds DEF Dashboard!StatusAgreesWithStages, Dashboard!Null
<1> QED
  BY <1>1, <1>2, <1>4 DEF Dashboard!PanelsAgree

\* A request that is issued for the panel, or for the score.
LEMMA DashIssued ==
  ASSUME NEW tab, NEW offset, NEW q, DashRequests(tab, offset, q), NEW op, NEW arg,
         op \in Dashboard!PanelOps => op = tab /\ (op = "activity" => arg = offset)
  PROVE  DashRequests(tab, offset, Dashboard!Issue(q, op, arg))
<1>1. PICK r : r = [op |-> op, arg |-> arg, back |-> FALSE, ok |-> FALSE, val |-> <<>>]
  OBVIOUS
<1>2. r.op = op /\ r.arg = arg /\ r.ok = FALSE /\ IsRequest(r)
  BY <1>1 DEF IsRequest
<1>3. DashRequest(tab, offset, r)
  BY <1>2 DEF DashRequest
<1>4. InFlight(q) /\ \A x \in Range(q) : DashRequest(tab, offset, x)
  BY DEF DashRequests
<1>5. PICK n : n = Append(q, r)
  OBVIOUS
<1>6. InFlight(n) /\ Range(n) \subseteq Range(q) \cup {r}
  BY <1>2, <1>4, <1>5, IssuedRange
<1>7. Dashboard!Issue(q, op, arg) = n
  BY <1>1, <1>5 DEF Dashboard!Issue, Dashboard!NewRequest, Dashboard!Null
<1> QED
  BY <1>3, <1>4, <1>6, <1>7 DEF DashRequests

\* The hook's fetch is of no panel.
LEMMA DashRuns ==
  ASSUME NEW tab, NEW offset, NEW q, DashRequests(tab, offset, q), NEW poll, NEW enabled, NEW arg
  PROVE  DashRequests(tab, offset, Dashboard!RunIssues(q, poll, enabled, "score", arg))
<1>1. PICK op : op = "score"
  OBVIOUS
<1>2. op \notin Dashboard!PanelOps
  BY <1>1 DEF Dashboard!PanelOps
<1>3. DashRequests(tab, offset, Dashboard!Issue(q, op, arg))
  BY <1>2, DashIssued
<1> QED
  BY <1>1, <1>3 DEF Dashboard!RunIssues

\* A panel that is left takes its requests with it: any other panel starts with none.
LEMMA DashAbandoned ==
  ASSUME NEW tab, NEW offset, NEW q, DashRequests(tab, offset, q), NEW ops,
         tab \in Dashboard!PanelOps => tab \in ops, NEW other, NEW page
  PROVE  DashRequests(other, page, Dashboard!Abandon(q, ops))
<1>1. InFlight(q) /\ \A r \in Range(q) : DashRequest(tab, offset, r)
  BY DEF DashRequests
<1>2. PICK I \in SUBSET DOMAIN q : I = {i \in DOMAIN q : q[i].op \notin ops}
  OBVIOUS
<1>3. PICK n : n = Keeping(q, I)
  OBVIOUS
<1>4. InFlight(n) /\ \A r \in Range(n) : \E i \in I : r = q[i]
  BY <1>1, <1>3, KeptRange
<1>5. Dashboard!Abandon(q, ops) = n
  BY <1>2, <1>3 DEF Dashboard!Abandon, Dashboard!Kept, Dashboard!Before, Dashboard!Cardinality,
                    Keeping, Place, Cardinality
<1>6. ASSUME NEW r \in Range(n)
      PROVE  DashRequest(other, page, r)
  <2>1. PICK i \in I : r = q[i]
    BY <1>4
  <2>2. DashRequest(tab, offset, r) /\ r.op \notin ops
    BY <1>1, <1>2, <2>1 DEF Range
  <2> QED
    BY <2>2 DEF DashRequest
<1> QED
  BY <1>4, <1>5, <1>6 DEF DashRequests

\* The rest of the requests when one was handled.
LEMMA DashHandled ==
  ASSUME NEW tab, NEW offset, DashRequests(tab, offset, net), NEW i \in DOMAIN net
  PROVE  DashRequests(tab, offset, Dashboard!Handled(i))
<1>1. InFlight(net) /\ \A r \in Range(net) : DashRequest(tab, offset, r)
  BY DEF DashRequests
<1>2. PICK n : n = Without(net, i)
  OBVIOUS
<1>3. InFlight(n) /\ Range(n) \subseteq Range(net)
  BY <1>1, <1>2, RemovedRange
<1>4. Dashboard!Handled(i) = n
  BY <1>2 DEF Dashboard!Handled, Dashboard!RemoveAt, Without
<1> QED
  BY <1>1, <1>3, <1>4 DEF DashRequests

\* A tab mounts its panel.
LEMMA NewPanelShows ==
  ASSUME HealthGiven, NEW tab
  PROVE  PanelShows(tab, Dashboard!NewPanel)
<1>1. PICK counter : counter = [from |-> 0, shown |-> 0, step |-> Frames]
  OBVIOUS
<1>2. PICK panel : panel = [data |-> <<>>, loading |-> TRUE, refreshing |-> FALSE, error |-> FALSE,
                            offset |-> 0, counter |-> counter]
  OBVIOUS
<1>3. Dashboard!Counted(panel) = 0
  BY <1>2 DEF Dashboard!Counted, Dashboard!Null
<1>4. Counts(counter, 0)
  BY <1>1 DEF Counts, HealthGiven
<1>5. PanelShows(tab, panel)
  BY <1>2, <1>3, <1>4 DEF PanelShows, PanelFields
<1>6. Dashboard!NewPanel = panel
  BY <1>1, <1>2 DEF Dashboard!NewPanel, Dashboard!Null
<1> QED
  BY <1>5, <1>6

\* The counter of a panel that got other data: it restarts when its value moves.
LEMMA LoadedCounts ==
  ASSUME HealthGiven, NEW counter, NEW value, NEW now, Counts(counter, value)
  PROVE  /\ now = value => Counts(counter, now)
         /\ Counts(Dashboard!Retarget(counter), now)
<1>1. PICK n : n = Dashboard!Retarget(counter)
  OBVIOUS
<1>2. DOMAIN n = {"from", "shown", "step"} /\ n.from = counter.from /\ n.step = 0
  BY <1>1 DEF Dashboard!Retarget, Counts
<1>3. 0 \in 0..Frames /\ Frames # 0
  BY DEF HealthGiven
<1> QED
  BY <1>1, <1>2, <1>3 DEF Counts

\* A panel's answer: of the tab and the page that wait for it.
LEMMA PanelDelivered ==
  ASSUME HealthGiven, DashInv, NEW i \in DOMAIN net, Dashboard!DeliverPanel(i)
  PROVE  DashInv'
<1>1. PICK r : r = net[i]
  OBVIOUS
<1>2. PICK panel, tab : panel = ui.panel /\ tab = ui.tab
  OBVIOUS
<1>3. r.op \in Dashboard!PanelOps /\ DashRequest(tab, panel.offset, r)
  BY <1>1, <1>2 DEF Dashboard!DeliverPanel, DashInv, DashRequests, Range
<1>4. PanelShows(tab, panel) /\ DOMAIN ui = DashFields
  BY <1>2 DEF DashInv
<1> DEFINE initial == net[i].op # "pipeline" \/ net[i].arg = 0
           Loaded == [ui.panel EXCEPT !.data = IF net[i].ok THEN net[i].val ELSE @,
                                      !.error = ~net[i].ok,
                                      !.loading = @ /\ ~initial,
                                      !.refreshing = @ /\ initial]
           Moved == net[i].op = "pipeline" /\ Dashboard!Counted(Loaded) # Dashboard!Counted(ui.panel)
           After == IF Moved THEN [Loaded EXCEPT !.counter = Dashboard!Retarget(@)] ELSE Loaded
<1>5. ui' = [ui EXCEPT !.panel = After] /\ net' = Dashboard!Handled(i) /\ db' = db
  BY DEF Dashboard!DeliverPanel
<1>6. PICK loaded : loaded = Loaded
  OBVIOUS
<1>7. PICK after : after = After
  OBVIOUS
<1>8. /\ DOMAIN loaded = PanelFields
      /\ loaded.data = (IF r.ok THEN r.val ELSE panel.data)
      /\ loaded.error = (~r.ok)
      /\ r.op # "pipeline" => loaded.loading = FALSE
      /\ loaded.offset = panel.offset /\ loaded.counter = panel.counter
  BY <1>1, <1>2, <1>4, <1>6 DEF PanelShows, PanelFields
<1>9. PICK moved \in BOOLEAN :
        moved = (r.op = "pipeline" /\ Dashboard!Counted(loaded) # Dashboard!Counted(panel))
  OBVIOUS
<1> HIDE DEF Loaded
<1>10. after = IF moved THEN [loaded EXCEPT !.counter = Dashboard!Retarget(@)] ELSE loaded
  BY <1>1, <1>2, <1>6, <1>7, <1>9
<1> HIDE DEF After
<1>11. DOMAIN ui' = DashFields /\ ui'.panel = after /\ ui'.tab = tab
  BY <1>2, <1>4, <1>7, <1>5 DEF DashFields
<1>12. /\ DOMAIN after = PanelFields /\ after.data = loaded.data /\ after.error = loaded.error
       /\ r.op # "pipeline" => after.loading = FALSE
       /\ after.offset = panel.offset
       /\ after.counter = IF moved THEN Dashboard!Retarget(panel.counter) ELSE panel.counter
  BY <1>8, <1>10 DEF PanelFields
<1>13. ASSUME tab = "activity", after.data # <<>>, ~after.loading, ~after.error
       PROVE  after.data[1].offset = after.offset
  <2>1. r.op = "activity" /\ r.ok
    BY <1>3, <1>8, <1>12, <1>13 DEF DashRequest
  <2> QED
    BY <1>3, <1>8, <1>12, <2>1 DEF DashRequest
<1>14. ASSUME tab = "pipeline"
       PROVE  /\ after.data # <<>> => after.data[1] \in DOMAIN Health
              /\ Counts(after.counter, Dashboard!Counted(after))
  <2>1. r.op = "pipeline" /\ (r.ok => r.val[1] \in DOMAIN Health)
    BY <1>3, <1>14 DEF DashRequest
  <2>2. after.data # <<>> => after.data[1] \in DOMAIN Health
    BY <1>4, <1>8, <1>12, <1>14, <2>1 DEF PanelShows
  <2>3. Counts(panel.counter, Dashboard!Counted(panel))
    BY <1>4, <1>14 DEF PanelShows
  <2>4. Dashboard!Counted(after) = Dashboard!Counted(loaded)
    BY <1>12 DEF Dashboard!Counted
  <2>5. PICK counter, value, now : /\ counter = panel.counter
                                   /\ value = Dashboard!Counted(panel)
                                   /\ now = Dashboard!Counted(loaded)
    OBVIOUS
  <2>6. (now = value => Counts(counter, now)) /\ Counts(Dashboard!Retarget(counter), now)
    BY <2>3, <2>5, LoadedCounts
  <2>7. moved <=> now # value
    BY <1>9, <2>1, <2>5
  <2> QED
    BY <1>12, <2>2, <2>4, <2>5, <2>6, <2>7
<1>15. PanelShows(ui'.tab, ui'.panel)
  BY <1>11, <1>12, <1>13, <1>14 DEF PanelShows
<1>16. DashRequests(ui'.tab, ui'.panel.offset, net')
  <2>1. DashRequests(tab, panel.offset, net)
    BY <1>2 DEF DashInv
  <2>2. PICK offset : offset = panel.offset
    OBVIOUS
  <2>3. DashRequests(tab, offset, Dashboard!Handled(i))
    BY <2>1, <2>2, DashHandled
  <2> QED
    BY <1>5, <1>11, <1>12, <2>2, <2>3
<1>17. db' = db
  BY <1>5
<1> QED
  BY <1>11, <1>15, <1>16, <1>17 DEF DashInv

\* What the API answers, well or not.
LEMMA DashAnswered ==
  ASSUME DashInv, Dashboard!Serve \/ Dashboard!RequestFails
  PROVE  DashInv'
<1>1. ui' = ui /\ DOMAIN db' = DOMAIN db /\ db'.version = db.version
  BY DEF Dashboard!Serve, Dashboard!RequestFails, DashInv
<1>2. PICK tab, offset : tab = ui.tab /\ offset = ui.panel.offset
  OBVIOUS
<1>3. InFlight(net) /\ \A r \in Range(net) : DashRequest(tab, offset, r)
  BY <1>2 DEF DashInv, DashRequests
<1>4. PICK i \in DOMAIN net :
        net' = Dashboard!Served(i, Dashboard!Payload(net[i])) \/ net' = Dashboard!Refused(i)
  BY DEF Dashboard!Serve, Dashboard!RequestFails, Dashboard!Servable
<1>5. \E okay \in BOOLEAN : \E v :
        net' = Answer(net, i, okay, v) /\ (okay => v = <<Dashboard!Payload(net[i])>>)
  <2>1. CASE net' = Dashboard!Served(i, Dashboard!Payload(net[i]))
    <3>1. PICK okay \in BOOLEAN : okay = TRUE
      OBVIOUS
    <3>2. PICK v : v = <<Dashboard!Payload(net[i])>>
      OBVIOUS
    <3>3. net' = Answer(net, i, okay, v)
      BY <2>1, <3>1, <3>2 DEF Dashboard!Served, Answer
    <3> QED
      BY <3>2, <3>3
  <2>2. CASE net' = Dashboard!Refused(i)
    <3>1. PICK okay \in BOOLEAN : okay = FALSE
      OBVIOUS
    <3>2. PICK v : v = Dashboard!Null
      OBVIOUS
    <3>3. net' = Answer(net, i, okay, v)
      BY <2>2, <3>1, <3>2 DEF Dashboard!Refused, Answer
    <3> QED
      BY <3>1, <3>3
  <2> QED
    BY <1>4, <2>1, <2>2
<1>6a. PICK okay \in BOOLEAN : \E v :
         net' = Answer(net, i, okay, v) /\ (okay => v = <<Dashboard!Payload(net[i])>>)
  BY <1>5
<1>6. PICK v : net' = Answer(net, i, okay, v) /\ (okay => v = <<Dashboard!Payload(net[i])>>)
  BY <1>6a
<1>7. PICK r : r = [op |-> net[i].op, arg |-> net[i].arg, back |-> TRUE, ok |-> okay, val |-> v]
  OBVIOUS
<1>8. PICK n : n = Answer(net, i, okay, v)
  OBVIOUS
<1>9. InFlight(n) /\ Range(n) \subseteq Range(net) \cup {r}
  BY <1>3, <1>7, <1>8, AnsweredRange
<1>10. r.op = net[i].op /\ r.arg = net[i].arg /\ r.ok = okay /\ r.val = v
  BY <1>7
<1>11. DashRequest(tab, offset, net[i])
  BY <1>3 DEF Range
<1>12. DashRequest(tab, offset, r)
  <2>1. ASSUME r.op = "activity", r.ok
        PROVE  r.val[1].offset = r.arg
    BY <1>6, <1>10, <2>1 DEF Dashboard!Payload
  <2>2. ASSUME r.op = "pipeline", r.ok
        PROVE  r.val[1] = db.version
    BY <1>6, <1>10, <2>2 DEF Dashboard!Payload, Dashboard!PanelOps
  <2>3. db.version \in DOMAIN Health
    BY DEF DashInv
  <2> QED
    BY <1>10, <1>11, <2>1, <2>2, <2>3 DEF DashRequest
<1>13. DashRequests(tab, offset, net')
  BY <1>3, <1>6, <1>8, <1>9, <1>12 DEF DashRequests
<1> QED
  BY <1>1, <1>2, <1>13 DEF DashInv

\* Every step of the dashboard and of its API keeps the invariant.
LEMMA DashKeeps ==
  ASSUME HealthGiven, DashInv, Dashboard!DashNext \/ UNCHANGED <<ui, net, db, wire>>
  PROVE  DashInv'
<1>1. PICK tab, panel, offset : tab = ui.tab /\ panel = ui.panel /\ offset = ui.panel.offset
  OBVIOUS
<1>2. DOMAIN ui = DashFields /\ PanelShows(tab, panel) /\ DashRequests(tab, offset, net)
  BY <1>1 DEF DashInv
<1>3. ASSUME DOMAIN ui' = DashFields, ui'.tab = tab, ui'.panel = panel, db' = db,
             DashRequests(tab, offset, net')
      PROVE  DashInv'
  BY <1>1, <1>2, <1>3 DEF DashInv
<1>4. ASSUME NEW other \in Dashboard!Tabs, Dashboard!OpenTab(other)
      PROVE  DashInv'
  <2>1. PICK fresh : fresh = Dashboard!NewPanel
    OBVIOUS
  <2>2. PanelShows(other, fresh) /\ fresh.offset = 0
    BY <2>1, NewPanelShows DEF Dashboard!NewPanel
  <2>3. DOMAIN ui' = DashFields /\ ui'.tab = other /\ ui'.panel = fresh /\ db' = db
    BY <1>2, <1>4, <2>1 DEF Dashboard!OpenTab, Dashboard!Clicked, DashFields
  <2>4. PICK page, ops : page = 0 /\ ops = Dashboard!PanelOps
    OBVIOUS
  <2>5. PICK kept : kept = Dashboard!Abandon(net, ops)
    OBVIOUS
  <2>6. DashRequests(other, page, kept)
    BY <1>2, <2>4, <2>5, DashAbandoned
  <2>7. CASE Dashboard!Enabled(other)
    <3>1. PICK poll, range, yes : poll = ui.poll /\ range = ui.range /\ yes = TRUE
      OBVIOUS
    <3>2. net' = Dashboard!RunIssues(kept, poll, yes, "score", range)
      BY <1>4, <2>4, <2>5, <2>7, <3>1 DEF Dashboard!OpenTab
    <3>3. DashRequests(other, page, net')
      BY <2>6, <3>2, DashRuns
    <3> QED
      BY <2>2, <2>3, <2>4, <3>3 DEF DashInv
  <2>8. CASE ~Dashboard!Enabled(other)
    <3>1. PICK arg : arg = Dashboard!PanelArg(other, fresh)
      OBVIOUS
    <3>2. arg = 0
      BY <2>2, <3>1 DEF Dashboard!PanelArg
    <3>3. net' = Dashboard!Issue(kept, other, arg)
      BY <1>4, <2>1, <2>4, <2>5, <2>8, <3>1 DEF Dashboard!OpenTab
    <3>4. DashRequests(other, page, net')
      BY <2>4, <2>6, <3>2, <3>3, DashIssued
    <3> QED
      BY <2>2, <2>3, <2>4, <3>4 DEF DashInv
  <2> QED
    BY <2>7, <2>8
<1>5. ASSUME NEW range \in Ranges, Dashboard!SelectRange(range)
      PROVE  DashInv'
  <2>1. DOMAIN ui' = DashFields /\ ui'.tab = tab /\ ui'.panel = panel /\ db' = db
    BY <1>1, <1>2, <1>5 DEF Dashboard!SelectRange, Dashboard!Clicked, DashFields
  <2>2. PICK poll, yes : poll = ui.poll /\ yes = TRUE
    OBVIOUS
  <2>3. net' = Dashboard!RunIssues(net, poll, yes, "score", range)
    BY <1>5, <2>2 DEF Dashboard!SelectRange
  <2>4. DashRequests(tab, offset, net')
    BY <1>2, <2>3, DashRuns
  <2> QED
    BY <1>3, <2>1, <2>4
<1>6. ASSUME NEW page \in 0..(HistoryPages + 1), Dashboard!TurnPage(page)
      PROVE  DashInv'
  <2>1. tab = "activity"
    BY <1>1, <1>6 DEF Dashboard!TurnPage
  <2>2. PICK turned : turned = [panel EXCEPT !.offset = page, !.loading = TRUE, !.error = FALSE]
    OBVIOUS
  <2>3. DOMAIN turned = PanelFields /\ turned.offset = page /\ turned.loading
    BY <1>2, <2>2 DEF PanelShows, PanelFields
  <2>4. DOMAIN ui' = DashFields /\ ui'.tab = tab /\ ui'.panel = turned /\ db' = db
    BY <1>1, <1>2, <1>6, <2>2 DEF Dashboard!TurnPage, Dashboard!Clicked, DashFields
  <2>5. PanelShows(tab, turned)
    BY <2>1, <2>3 DEF PanelShows
  <2>6. PICK ops, op : ops = {"activity"} /\ op = "activity"
    OBVIOUS
  <2>7. PICK kept : kept = Dashboard!Abandon(net, ops)
    OBVIOUS
  <2>8. DashRequests(tab, page, kept)
    BY <1>2, <2>1, <2>6, <2>7, DashAbandoned
  <2>9. net' = Dashboard!Issue(kept, op, page)
    BY <1>6, <2>6, <2>7 DEF Dashboard!TurnPage, Dashboard!PageCleanup
  <2>10. DashRequests(tab, page, net')
    BY <2>1, <2>6, <2>8, <2>9, DashIssued
  <2> QED
    BY <2>3, <2>4, <2>5, <2>10 DEF DashInv
<1>7. CASE Dashboard!PollTick
  <2>1. DOMAIN ui' = DashFields /\ ui'.tab = tab /\ ui'.panel = panel /\ db' = db
    BY <1>1, <1>2, <1>7 DEF Dashboard!PollTick, DashFields
  <2>2. PICK poll, yes, range : poll = ui.poll /\ yes = TRUE /\ range = ui.range
    OBVIOUS
  <2>3. net' = Dashboard!RunIssues(net, poll, yes, "score", range)
    BY <1>7, <2>2 DEF Dashboard!PollTick
  <2>4. DashRequests(tab, offset, net')
    BY <1>2, <2>3, DashRuns
  <2> QED
    BY <1>3, <2>1, <2>4
<1>8. CASE Dashboard!ToggleHidden
  <2>1. DOMAIN ui' = DashFields /\ ui'.tab = tab /\ ui'.panel = panel /\ db' = db /\ net' = net
    BY <1>1, <1>2, <1>8 DEF Dashboard!ToggleHidden, Dashboard!Clicked, DashFields
  <2> QED
    BY <1>2, <1>3, <2>1
<1>9. CASE Dashboard!PipelineTick
  <2>1. tab = "pipeline"
    BY <1>1, <1>9 DEF Dashboard!PipelineTick
  <2>2. PICK busy : busy = [panel EXCEPT !.refreshing = TRUE]
    OBVIOUS
  <2>3. /\ DOMAIN busy = PanelFields /\ busy.offset = panel.offset /\ busy.data = panel.data
        /\ busy.counter = panel.counter
    BY <1>2, <2>2 DEF PanelShows, PanelFields
  <2>4. DOMAIN ui' = DashFields /\ ui'.tab = tab /\ ui'.panel = busy /\ db' = db
    BY <1>1, <1>2, <1>9, <2>2 DEF Dashboard!PipelineTick, DashFields
  <2>5. PanelShows(tab, busy)
    <3>1. Dashboard!Counted(busy) = Dashboard!Counted(panel)
      BY <2>3 DEF Dashboard!Counted
    <3> QED
      BY <1>2, <2>1, <2>3, <3>1 DEF PanelShows
  <2>6. PICK op, arg : op = "pipeline" /\ arg = 1
    OBVIOUS
  <2>7. net' = Dashboard!Issue(net, op, arg)
    BY <1>9, <2>6 DEF Dashboard!PipelineTick
  <2>8. DashRequests(tab, offset, net')
    BY <1>2, <2>1, <2>6, <2>7, DashIssued
  <2> QED
    BY <1>1, <2>3, <2>4, <2>5, <2>8 DEF DashInv
<1>10. CASE Dashboard!CounterFrame
  <2>1. tab = "pipeline" /\ panel.counter.step < Frames
    BY <1>1, <1>10 DEF Dashboard!CounterFrame
  <2>2. PICK counter, value : counter = panel.counter /\ value = Dashboard!Counted(panel)
    OBVIOUS
  <2>3. PICK next : next = Dashboard!NextFrame(counter, value)
    OBVIOUS
  <2>4. PICK after : after = [panel EXCEPT !.counter = next]
    OBVIOUS
  <2>5. /\ DOMAIN after = PanelFields /\ after.offset = panel.offset /\ after.data = panel.data
        /\ after.counter = next
    BY <1>2, <2>4 DEF PanelShows, PanelFields
  <2>6. DOMAIN ui' = DashFields /\ ui'.tab = tab /\ ui'.panel = after /\ db' = db /\ net' = net
    BY <1>1, <1>2, <1>10, <2>2, <2>3, <2>4 DEF Dashboard!CounterFrame, DashFields
  <2>7. value \in Nat
    BY <1>2, <2>1, <2>2, CountedIsNumber DEF PanelShows
  <2>8. Counts(counter, value)
    BY <1>2, <2>1, <2>2 DEF PanelShows
  <2>9. Counts(next, value)
    BY <2>1, <2>2, <2>3, <2>7, <2>8, FrameCounts
  <2>10. Dashboard!Counted(after) = value
    BY <2>2, <2>5 DEF Dashboard!Counted
  <2>11. PanelShows(tab, after)
    BY <1>2, <2>1, <2>5, <2>9, <2>10 DEF PanelShows
  <2> QED
    BY <1>1, <1>2, <2>5, <2>6, <2>11 DEF DashInv
<1>11. CASE Dashboard!Deliver
  <2>1. PICK i \in DOMAIN net : Dashboard!DeliverScore(i) \/ Dashboard!DeliverPanel(i)
    BY <1>11 DEF Dashboard!Deliver, Dashboard!Deliverable
  <2>2. CASE Dashboard!DeliverScore(i)
    <3>1. DOMAIN ui' = DashFields /\ ui'.tab = tab /\ ui'.panel = panel /\ db' = db
      BY <1>1, <1>2, <2>2 DEF Dashboard!DeliverScore, DashFields
    <3>2. net' = Dashboard!Handled(i)
      BY <2>2 DEF Dashboard!DeliverScore
    <3>3. DashRequests(tab, offset, Dashboard!Handled(i))
      BY <1>2, <2>1, DashHandled
    <3> QED
      BY <1>3, <3>1, <3>2, <3>3
  <2> QED
    BY <2>1, <2>2, PanelDelivered
<1>12. CASE Dashboard!DataMoves
  <2>1. PICK n \in Nat : DOMAIN Health = 0..n
    BY DEF HealthGiven
  <2>2. Dashboard!LastVersion = n
    <3>1. n \in DOMAIN Health /\ \A w \in DOMAIN Health : w <= n
      BY <2>1
    <3>2. /\ Dashboard!LastVersion \in DOMAIN Health
          /\ \A w \in DOMAIN Health : w <= Dashboard!LastVersion
      BY <3>1 DEF Dashboard!LastVersion
    <3> QED
      BY <2>1, <3>1, <3>2
  <2>3. db.version \in 0..n /\ db.version < n /\ DOMAIN db = {"version", "failures"}
    BY <1>12, <2>1, <2>2 DEF Dashboard!DataMoves, DashInv
  <2>4. db' = [db EXCEPT !.version = db.version + 1] /\ ui' = ui /\ net' = net
    BY <1>12 DEF Dashboard!DataMoves
  <2>5. DOMAIN db' = {"version", "failures"} /\ db'.version = db.version + 1
    BY <2>3, <2>4
  <2>6. db'.version \in DOMAIN Health
    BY <2>1, <2>3, <2>5
  <2> QED
    BY <2>4, <2>5, <2>6 DEF DashInv
<1>13. CASE UNCHANGED <<ui, net, db, wire>>
  BY <1>1, <1>2, <1>3, <1>13
<1> QED
  BY <1>4, <1>5, <1>6, <1>7, <1>8, <1>9, <1>10, <1>11, <1>12, <1>13, DashAnswered DEF Dashboard!DashNext

\* The dashboard mounts on its intelligence tab.
LEMMA DashStarts ==
  ASSUME HealthGiven, Dashboard!DashInit
  PROVE  DashInv
<1>1. PICK fresh : fresh = Dashboard!NewPanel
  OBVIOUS
<1>2. DOMAIN ui = DashFields /\ ui.tab = "intelligence" /\ ui.panel = fresh
  BY <1>1 DEF Dashboard!DashInit, DashFields
<1>3. PICK tab, offset, op, range : /\ tab = ui.tab /\ offset = fresh.offset
                                    /\ op = "score" /\ range = ui.range
  OBVIOUS
<1>4. PanelShows(tab, fresh)
  BY <1>1, NewPanelShows
<1>5. DashRequests(tab, offset, net)
  <2>1. PICK r : r = [op |-> op, arg |-> range, back |-> FALSE, ok |-> FALSE, val |-> <<>>]
    OBVIOUS
  <2>2. IsRequest(r) /\ r.op = "score"
    BY <1>3, <2>1 DEF IsRequest
  <2>3. PICK n : n = Append(<<>>, r)
    OBVIOUS
  <2>4. InFlight(n) /\ DOMAIN n = 1..1 /\ n[1] = r
    BY <2>2, <2>3, FirstRequest
  <2>5. net = n
    BY <1>3, <2>1, <2>3 DEF Dashboard!DashInit, Dashboard!Issue, Dashboard!NewRequest, Dashboard!Null
  <2>6. DashRequest(tab, offset, r)
    BY <2>2 DEF DashRequest, Dashboard!PanelOps
  <2>7. \A x \in Range(n) : x = r
    BY <2>4 DEF Range
  <2> QED
    BY <2>4, <2>5, <2>6, <2>7 DEF DashRequests
<1>6. DOMAIN db = {"version", "failures"} /\ db.version \in DOMAIN Health
  <2>1. PICK n \in Nat : DOMAIN Health = 0..n
    BY DEF HealthGiven
  <2>2. DOMAIN db = {"version", "failures"} /\ db.version = 0
    BY DEF Dashboard!DashInit
  <2> QED
    BY <2>1, <2>2
<1> QED
  BY <1>2, <1>3, <1>4, <1>5, <1>6 DEF DashInv
=============================================================================
