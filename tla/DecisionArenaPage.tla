------------------------- MODULE DecisionArenaPage --------------------------
(***************************************************************************)
(* The decision arena: one load fills every section when the page mounts,  *)
(* all or nothing; the operator then evaluates candidates, generates some  *)
(* with a model, runs the laboratory, evolves candidates and creates and   *)
(* runs campaigns, and each handler refreshes the sections it thinks of.   *)
(*                                                                         *)
(* A candidate is the baseline agent's, one evolved over n generations or  *)
(* the n-th generated one; lists of candidates are sets.  The reads of one *)
(* Promise.all are answered together: no property compares two of them.    *)
(***************************************************************************)
EXTENDS PageRequests, FiniteSets

CONSTANTS
  Ranking,         \* the tournament's ranking: strategies, best first
  Adapters,        \* adapters: [provider, status]
  MaxGeneration    \* bound on the generations evolved

Candidate(kind, n) == [kind |-> kind, n |-> n]
Baseline == Candidate("baseline", 0)

Unfinished == [busy |-> FALSE, error |-> FALSE]

ArenaInit ==
  /\ ui = [loading |-> TRUE, error |-> FALSE, fixed |-> Null, candidates |-> {},
           evaluation |-> Unfinished, evaluated |-> Null,
           generation |-> Unfinished, generated |-> Null,
           laboratory |-> Unfinished, status |-> Null,
           summary |-> Null, memory |-> {}, memoryError |-> FALSE,
           evolution |-> Unfinished, evolved |-> Null,
           analytics |-> Null, analyticsError |-> FALSE,
           campaigns |-> <<>>, campaignError |-> FALSE, running |-> Null, clicks |-> 0]
  /\ net = Issue(Issue(<<>>, "load", 0), "agents", 0)
  /\ db = [runs |-> 0, memory |-> {}, generated |-> 0, campaigns |-> <<>>, failures |-> 0]
  /\ wire \in Wires

----------------------------------------------------------------------------
(* What the sections show. *)

Shows(rows) == IF rows THEN "rows" ELSE "empty"

CapitalSection == Shows(ui.fixed # Null /\ Ranking # <<>>)
AgentsSection == Shows(ui.fixed # Null \/ ui.candidates # {})
AdaptersSection == Shows(ui.fixed # Null /\ Adapters # {})
CampaignsSection == Shows(ui.campaigns # <<>>)
LaboratorySection == Shows(ui.status # Null)
MemorySection == Shows(ui.memory # {})
EvolutionSection == Shows(ui.evolved # Null /\ ui.evolved[1] # {})
AnalyticsSection == Shows(ui.analytics # Null /\ ui.analytics[1].runs > 0)
IntelligenceSection == Shows(ui.fixed # Null)
TournamentSection == IF ui.loading THEN "loading" ELSE Shows(ui.fixed # Null /\ Ranking # <<>>)
ReplayAgentsSection == IF Pending("agents") THEN "loading" ELSE "empty"

\* The champion and the runner-up of the summary.
Placed(rank) == IF TournamentSection = "rows" /\ Len(Ranking) >= rank THEN <<Ranking[rank]>> ELSE Null

\* An evaluation is shown under its candidate's name, or under its bare id.
EvaluationNamed(candidate) == candidate \in ui.candidates

----------------------------------------------------------------------------
(* Handlers. *)

Busy(view, section) == [view EXCEPT ![section] = [busy |-> TRUE, error |-> FALSE]]
Ended(view, section, ok) == [view EXCEPT ![section] = [busy |-> FALSE, error |-> ~ok]]

Ask(view, op, arg) ==
  /\ ui' = view
  /\ net' = Issue(net, op, arg)
  /\ UNCHANGED <<db, wire>>

\* The batch holds the candidates listed when the button was clicked.
EvaluateCandidates ==
  /\ CanClick /\ AgentsSection = "rows" /\ ui.candidates # {} /\ ~ui.evaluation.busy
  /\ Ask(Busy(Clicked, "evaluation"), "evaluate", ui.candidates)

GenerateCandidates ==
  /\ CanClick /\ AdaptersSection = "rows" /\ ~ui.generation.busy
  /\ [provider |-> "openai", status |-> "AVAILABLE"] \in Adapters
  /\ Ask(Busy(Clicked, "generation"), "generate", 0)

RunLaboratory ==
  /\ CanClick /\ ~ui.laboratory.busy
  /\ Ask(Busy(Clicked, "laboratory"), "runLaboratory", 0)

RunEvolution ==
  /\ CanClick /\ ~ui.evolution.busy /\ MemorySection = "rows"
  /\ Ask(Busy(Clicked, "evolution"), "evolve", 0)

\* The name counts the campaigns listed at the click.
CreateCampaign ==
  /\ CanClick
  /\ Ask([Clicked EXCEPT !.campaignError = FALSE], "createCampaign", Len(ui.campaigns) + 1)

\* Only the campaign started last counts as running.
RunCampaign(i) ==
  /\ CanClick /\ CampaignsSection = "rows" /\ i \in DOMAIN ui.campaigns
  /\ ui.running # <<ui.campaigns[i].id>>
  /\ Ask([Clicked EXCEPT !.campaignError = FALSE, !.running = <<ui.campaigns[i].id>>],
         "runCampaign", ui.campaigns[i].id)

----------------------------------------------------------------------------
(* Answers: a handler that goes on issues its next request. *)

Goes(view, requests) == ui' = view /\ net' = requests

\* The load replaces the candidates and drops their evaluations.
DeliverLoad(r, rest) ==
  /\ r.op = "load"
  /\ Goes(IF r.ok
          THEN [ui EXCEPT !.loading = FALSE, !.fixed = <<TRUE>>,
                          !.candidates = r.val[1].candidates, !.evaluated = Null,
                          !.status = <<r.val[1].runs>>, !.summary = <<r.val[1].summary>>,
                          !.memory = r.val[1].memory, !.analytics = <<r.val[1].analytics>>,
                          !.campaigns = r.val[1].campaigns]
          ELSE [ui EXCEPT !.loading = FALSE, !.error = TRUE, !.memoryError = TRUE,
                          !.analyticsError = TRUE, !.campaignError = TRUE],
          rest)

DeliverAgents(r, rest) == r.op = "agents" /\ Goes(ui, rest)

DeliverEvaluations(r, rest) ==
  /\ r.op = "evaluate"
  /\ Goes([Ended(ui, "evaluation", r.ok) EXCEPT !.evaluated = r.val], rest)

DeliverGenerated(r, rest) ==
  /\ r.op = "generate"
  /\ LET listed == IF r.ok THEN r.val[1] ELSE {} IN
     Goes([Ended(ui, "generation", r.ok) EXCEPT !.generated = r.val, !.candidates = @ \cup listed],
          rest)

\* Run, then status, summary and memory, then analytics: shown together.
DeliverLaboratory(r, rest) ==
  \/ /\ r.op \in {"runLaboratory", "laboratoryRead"} /\ r.ok
     /\ Goes(ui, IF r.op = "runLaboratory" THEN Issue(rest, "laboratoryRead", 0)
                 ELSE Issue(rest, "laboratoryAnalytics", r.val[1]))
  \/ /\ r.op = "laboratoryAnalytics" /\ r.ok
     /\ Goes([Ended(ui, "laboratory", TRUE) EXCEPT
                !.status = <<r.arg.runs>>, !.summary = <<r.arg.summary>>, !.memory = r.arg.memory,
                !.analytics = <<r.val[1].analytics>>], rest)
  \/ /\ r.op \in {"runLaboratory", "laboratoryRead", "laboratoryAnalytics"} /\ ~r.ok
     /\ Goes(Ended(ui, "laboratory", FALSE), rest)

\* The descendants are shown at once; a refresh that fails takes them away again.
DeliverEvolution(r, rest) ==
  \/ /\ r.op = "evolve" /\ r.ok
     /\ Goes([ui EXCEPT !.evolved = r.val], Issue(rest, "evolutionRead", 0))
  \/ /\ r.op = "evolutionRead" /\ r.ok
     /\ Goes([Ended(ui, "evolution", TRUE) EXCEPT !.memory = r.val[1].memory,
                                                  !.analytics = <<r.val[1].analytics>>], rest)
  \/ /\ r.op \in {"evolve", "evolutionRead"} /\ ~r.ok
     /\ Goes([Ended(ui, "evolution", FALSE) EXCEPT !.evolved = Null], rest)

\* Mutant: the campaign that ran is not put back into the list.
NotUpdated(campaigns, campaign) == campaigns

\* The list read when the answer arrives, with the campaign that ran replaced.
Updated(campaigns, campaign) ==
  [i \in DOMAIN campaigns |-> IF campaigns[i].id = campaign.id THEN campaign ELSE campaigns[i]]

DeliverCampaignRun(r, rest) ==
  \/ /\ r.op = "runCampaign" /\ r.ok
     /\ Goes([ui EXCEPT !.campaigns = Updated(@, r.val[1])], Issue(rest, "campaignRead", 0))
  \/ /\ r.op = "campaignRead" /\ r.ok
     /\ Goes([ui EXCEPT !.running = Null, !.status = <<r.val[1].runs>>,
                        !.summary = <<r.val[1].summary>>, !.memory = r.val[1].memory,
                        !.analytics = <<r.val[1].analytics>>], rest)
  \/ /\ r.op \in {"runCampaign", "campaignRead"} /\ ~r.ok
     /\ Goes([ui EXCEPT !.running = Null, !.campaignError = TRUE], rest)

DeliverCreated(r, rest) ==
  /\ r.op = "createCampaign"
  /\ Goes(IF r.ok THEN [ui EXCEPT !.campaigns = r.val \o @] ELSE [ui EXCEPT !.campaignError = TRUE],
          rest)

Deliver ==
  /\ \E i \in Deliverable : LET r == net[i] rest == Handled(i) IN
       \/ DeliverLoad(r, rest) \/ DeliverAgents(r, rest) \/ DeliverEvaluations(r, rest)
       \/ DeliverGenerated(r, rest) \/ DeliverLaboratory(r, rest) \/ DeliverEvolution(r, rest)
       \/ DeliverCampaignRun(r, rest) \/ DeliverCreated(r, rest)
  /\ UNCHANGED <<db, wire>>

----------------------------------------------------------------------------
(* The API. *)

\* The persisted candidates, or the baseline agent's while there is none.
StrategyCandidates == IF db.memory = {} THEN {Baseline} ELSE db.memory

Evolved == {c \in db.memory : c.kind = "evolved"}

ResearchRead ==
  [runs |-> db.runs, memory |-> db.memory, candidates |-> StrategyCandidates,
   summary |-> [runs |-> db.runs, candidates |-> Cardinality(db.memory)],
   analytics |-> [runs |-> db.runs, evolved |-> Cardinality(Evolved)],
   campaigns |-> db.campaigns]

ServeRead(r, i) ==
  /\ r.op \in {"load", "laboratoryRead", "laboratoryAnalytics", "evolutionRead", "campaignRead", "agents"}
  /\ net' = Served(i, ResearchRead)
  /\ UNCHANGED db

\* Candidates to evaluate are looked for among the baseline agent's only: one
\* that is not refuses the batch.
ServeEvaluate(r, i) ==
  /\ r.op = "evaluate"
  /\ net' = IF r.arg \subseteq {Baseline} THEN Served(i, r.arg) ELSE Refused(i)
  /\ UNCHANGED db

\* Generated candidates are not persisted.
ServeGenerate(r, i) ==
  /\ r.op = "generate"
  /\ net' = Served(i, {Candidate("generated", db.generated + 1)})
  /\ db' = [db EXCEPT !.generated = @ + 1]

\* The best candidates' descendants: the same parent has the same descendant.
Descendants(parent) ==
  IF parent.n < MaxGeneration THEN {Candidate("evolved", parent.n + 1)} ELSE {}

Laboratory(data) == [data EXCEPT !.runs = @ + 1, !.memory = @ \cup {Baseline}]

ServeRunLaboratory(r, i) ==
  /\ r.op = "runLaboratory"
  /\ net' = Served(i, 0)
  /\ db' = Laboratory(db)

ServeEvolve(r, i) ==
  /\ r.op = "evolve"
  /\ \E parent \in db.memory :
       /\ net' = Served(i, Descendants(parent))
       /\ db' = [db EXCEPT !.memory = @ \cup Descendants(parent)]

ServeCreateCampaign(r, i) ==
  /\ r.op = "createCampaign"
  /\ LET campaign == [id |-> Len(db.campaigns) + 1, name |-> r.arg, runs |-> 0] IN
       /\ net' = Served(i, campaign)
       /\ db' = [db EXCEPT !.campaigns = <<campaign>> \o @]

\* A campaign runs the laboratory and evolves what is remembered then.
ServeRunCampaign(r, i) ==
  /\ r.op = "runCampaign"
  /\ \E parent \in Laboratory(db).memory, j \in DOMAIN db.campaigns :
       /\ db.campaigns[j].id = r.arg
       /\ LET campaign == [db.campaigns[j] EXCEPT !.runs = @ + 1] IN
            /\ net' = Served(i, campaign)
            /\ db' = [Laboratory(db) EXCEPT !.memory = @ \cup Descendants(parent),
                                            !.campaigns[j] = campaign]

Serve ==
  /\ \E i \in Servable : LET r == net[i] IN
       \/ ServeRead(r, i) \/ ServeEvaluate(r, i) \/ ServeGenerate(r, i) \/ ServeRunLaboratory(r, i)
       \/ ServeEvolve(r, i) \/ ServeCreateCampaign(r, i) \/ ServeRunCampaign(r, i)
  /\ UNCHANGED <<ui, wire>>

ArenaNext ==
  \/ EvaluateCandidates \/ GenerateCandidates \/ RunLaboratory \/ RunEvolution \/ CreateCampaign
  \/ \E i \in DOMAIN ui.campaigns : RunCampaign(i)
  \/ Deliver \/ Serve \/ RequestFails

----------------------------------------------------------------------------
(* Properties. *)

\* On an ordered wire the campaign list is what the API holds once nothing is
\* in flight and nothing failed, although campaigns are created and run while
\* the list, a creation or another run is on its way.
CampaignsAsStored ==
  wire = "ordered" /\ net = <<>> /\ db.failures = 0 => ui.campaigns = db.campaigns

\* On an ordered wire every evaluation shown is of a candidate in the list,
\* although candidates are generated while a batch is evaluated.
EvaluationsAreNamed ==
  wire = "ordered" /\ ui.evaluated # Null => \A c \in ui.evaluated[1] : EvaluationNamed(c)

\* On an ordered wire the sections agree: the analytics have runs exactly when the
\* laboratory's status has, although they are refreshed by different handlers,
\* and descendants shown are in the memory once it was refreshed.
SectionsAgree ==
  wire = "ordered" /\ ui.status # Null =>
    /\ ui.status[1] > 0 <=> AnalyticsSection = "rows"
    /\ EvolutionSection = "rows" /\ ~ui.evolution.busy => ui.evolved[1] \subseteq ui.memory

\* What the arena shows agrees with itself and with the API.
ArenaAgrees == CampaignsAsStored /\ EvaluationsAreNamed /\ SectionsAgree
=============================================================================
