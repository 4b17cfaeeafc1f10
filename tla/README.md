# OmniTrade legacy engine: TLA+ models, checks and proofs

OmniTrade is a crypto trading engine (Python, FastAPI and SQLAlchemy under
`src/apps/api`) with a web front end. The part that can lose money is the path
from an *activated canonical package* (a signed-off intention to buy or sell one
product) to an order at the exchange, and from what the exchange reports back to
the engine's books. That path is spread over several database transactions, one
unretractable HTTP call, a timer-driven worker, an API process and an operator.
This directory models that path, checks it with TLC and proves its safety
properties with TLAPS. It also models the front end (`src/apps/web`): pages that keep asynchronous
requests in flight, and through which an operator buys, previews, dry-runs,
reconciles and cancels orders, switches trading off and changes risk rules.

Paths below are relative to `src/apps/api/app/services/` unless they start with
`src/` or, ending in `.ts` or `.tsx`, are relative to `src/apps/web/`. `PROJECT.json` maps every definition to the lines it stands for.

## 1. Inventory

### Trading path (the core)

| Component | State it keeps | Operations | Interacts with | What is hard | What makes it correct |
|---|---|---|---|---|---|
| Execution claims, `orchestration/autonomous_execution_claims.py` | `autonomous_execution_claims.claim_status`; the partial unique index on the campaign scope | claim, recover a historical order, advance, block before the provider, sweep, release | preparation, commissioned entry, orders, reconciliation (which releases it) | five commits per attempt, exception handlers writing stale rows, crashes between commits | one holder of the scope; a released claim is final and tells the truth |
| Order preparation, `orchestration/autonomous_order_preparation.py` | the `DRY_RUN_READY`/`PENDING_CONFIRMATION` order | prepare, re-prepare, readiness refresh | activation, kill switch, ownership, reconciliation guard | gates read state that reconciliation has not caught up with | no entry while a position is owned, no exit without one |
| Commissioned entry, `capital_campaign_domain/commissioned_entry_execution.py` | `entry_execution`/`exit_execution` slot in the campaign version's JSON | replay, veto, record before submission, outcome | order service | slot written before the call and settled after it, in different transactions | the request that goes out is the one the slot names |
| Live crypto orders, `live_crypto_orders.py` | `live_crypto_orders` row, submit audit row (replay key) | dry run, confirm, submit, cancel, reconcile | provider, claims, activation | at-most-once over an unreliable call; stale rows after `FOR UPDATE` | an order is sent at most once, and recorded before it is sent |
| Live accounting reconciliation, `live/accounting_reconciliation.py` | append-only events, fills, balance evidence, order status | one pass; record event; record fill; FILLED reaffirmation | provider lookups, order row, guard | missing, stale, conflicting or partial answers; overlapping passes | fills are booked once; FILLED is final; status is true |
| Reconciliation guard, `orchestration/reconciliation_guard.py` | none (reads the latest event) | has_unresolved, counts | claim, preparation | idempotent events make "latest" subtle | the guard is closed while an outcome is open, and reopens |
| Reconciliation scheduler, `orchestration/reconciliation_scheduler.py` | none (reads candidates) | discover, refresh balances, pass, release | accounting, claims, custody | terminal orders that must stay candidates; bounded batches | every decided order is released |
| Position custody, `orchestration/autonomous_position_custody.py` | custody rows | establish, disqualify, close | release of a production BUY | hand-off and release must be one transaction | an executed production BUY is in custody |
| Autonomous position exit, `orchestration/autonomous_position_exit_*.py`, `orchestration/autonomous_proof_sell_worker.py` | latest evaluation, exit authority, proof-sell attempt, custody links | evaluate, revalidate, the eight stages from selection to reconciliation, recovery of an uncertain order | custody, claims, orders, the poll | the poll and the exit reconcile the same order, each counting fills its own way; a reply stored after others moved on | sold once; supervised while it may execute; closed only when sold |
| Owned quantity, `live/position_quantity.py` | none (folds accounting rows) | signed owned quantity | every gate | counts only what is booked | exposure stays within one position |
| Continuous pipeline worker, `orchestration/continuous_pipeline_worker.py` | leases, cycle records | cycle: research, package, claim, advance, sweep, poll; controlled-proof dispatch | all of the above | restarts; the API process dispatches proofs beside the timer loop | stages rerun safely |
| Exchange connections, `exchange_connections/` | connection, balance snapshot | create order, lookup, list fills, refresh | order service, reconciliation | ambiguous replies, lagging lists | classification of replies is conservative |

### Web front end, and the services its pages act on

Every page keeps React state, issues requests from handlers, effects and
intervals with the values their closures captured, and handles each answer when it
comes. What is hard is the same on every page: answers of requests that overlap,
late answers, a handler that refreshes one section and not another, a click in the
middle of a request. The column "also" names what is hard beyond that.

| Component (main source) | State and operations | Also | What makes it correct |
|---|---|---|---|
| Shell and polling hook (`lib/useStablePolling.ts`) | one fetch at a time, kept data, rerun on change | a selection made during a fetch starts none | a later poll repairs it |
| Dashboard (`components/domain/Dashboard*.tsx`, `Paper*.tsx`) | tabs, polled score, panels, history pages, counters | panels die with their tab, the hook's fetch does not | a panel shows the page it names, status agrees with its stages |
| Markets (`app/markets/page.tsx`) | selection, candle cache, request ids, retry | a cached selection issues no fetch | the chart is of the selected asset and interval |
| Paper trading (`app/paper-trading/page.tsx`, paper routes and simulation) | account, trades, filter, timeline, analytics, create, reset | trades reload only when the account's id changes | analytics are the active account's |
| Risk monitor (`app/risk-monitor/page.tsx`, `risk_monitor.py`) | status poll, rules draft, kill switches, confirmation; the rules' changes | polls, loads and reloads overlap; a change is judged on rules that others replace before it is written | form and status are the loaded account's; no rule is looser than was acknowledged |
| Validation runs (`app/validation-runs/`) | polled list, detail, events, start, cancel | a refresh is three requests long and moves the selection | detail and events end up the selected run's |
| Strategy lab and coach (`app/strategy-lab/page.tsx`) | form, snapshots, launch, comparison, insights, log, readiness | the launch names a saved set, the review shows the form | readiness ranks configurations, comparison is coherent |
| Decision arena (`app/decision-arena/page.tsx`) | sections, evaluation, generation, evolution, campaigns | handlers refresh different sections | sections agree with each other and with the API |
| Mission control (`components/domain/MissionControlIntelligenceCenter.tsx`) | range, mode, cursor over snapshots, drawer, accordion | a window of snapshots that slides | the cursor stands on what was selected |
| Decision intelligence (`app/decision-intelligence/page.tsx`) | lists, filters, pages, selected decision | every loader runs twice per change, none is guarded | lists end up as their controls say |
| Explorer, inspector, record browser, batch review (`coach.py`) | filters, sorting, pages, evidence, review | halves of one load fail apart; reviews overlap | rows, numbers and summary are of one query; one review per set |
| Backtests (`app/backtests/`, run persistence) | bootstrap, form, history, 2 s poll | the API commits a run three times before it answers | what is shown is what is active |
| Live orders (`LiveCryptoOrderCenter.tsx`, `live_crypto_orders.py`) | readiness, dry run, reconcile, cancel | the worker sends the same orders meanwhile | the selected order and its row agree |
| Instant trades (`InstantBuyCard.tsx`, `instant_trades.py`) | amount, idempotency key, look-up, commit, submission, adoption | overlapping purchases, lost answers, a death between the commits | the exchange accepts once per order and key |
| Order previews (`CryptoOrderPreviewCenter.tsx`, `crypto_order_previews/service.py`) | create, refresh, cancel, list | expiry and the idempotency window move meanwhile | one live preview per request inside a window |

### Around them (not modelled yet, or not at all)

| Component | State and operations | Hard behaviour | Plan |
|---|---|---|---|
| Controlled proof and exit recovery | proof run state machine, exposure, recovery of a stuck exit | immediate dispatch beside the worker; recovery after a crash | second |
| Mandates (lifecycle, replacement, eligibility) | mandate states, replacement chain | a replacement racing use of the old mandate | third |
| Canonical packages, activation, inspection | package states until ACTIVATED | expiry between stages, repeated evaluation | with mandates |
| Commissioned campaign state machine | operator-driven campaign phases | illegal transition after partial failure | later |
| Capital ledger | projection of accounting rows | repeated projection | later |
| Reconciliation correction; operator submit and cancel | operator corrections of events and orders | correction racing a pass | with the operator paths |
| Asset and venue commissioning, operator actions | evidence workflow, thin dispatch | little concurrency of its own | low priority |
| Risk engine | numeric rules, kill switch | only the switch and a possible veto matter to the path, both are inputs of the model | not planned |
| Campaign orchestration, autonomous cycle | decisions upstream of a package | composition of read-only decisions | not planned |
| Strategies, signals, roster, replay, research, evolution | numeric or read-only; inputs of the pages that show them | none of its own | not planned |
| Live trading page, exchange connections, capital and campaign pages, settings and signals placeholders | load and show, or a form over one request | the campaign pages need the campaign state machine behind them | with the state machine |
| API routes, CLI, tooling | input and output | none of its own | not planned |

`hazards` in `PROJECT.json` lists, at its line, what can go wrong in the
modelled parts and which property would notice.

## 2. The modules

| Module | Role |
|---|---|
| `ExecutionClaims` | claims, preparation, commissioned slot, submission, release, for all packages of one campaign version |
| `OrderReconciliation` | one submitted order: overlapping reconciliation passes against the exchange |
| `OrderOutcome` | what reconciliation promises; `OrderReconciliation` implements it |
| `MCExecutionClaims`, `MCOrderReconciliation` | model-checking instances |
| `ExecutionClaimsProofs` | type correctness, scope lock, single submission, finality; what a call, a released claim and a recorded outcome say of the order; the bound on the exposure, proved |
| `OrderReconciliationProofs` | type, bookings, guard, FILLED, and the refinement of `OrderOutcome`, proved |
| `PositionExit` | the autonomous exit of one owned position: evaluation, authority, the proof-sell attempt, submission and reconciliation, beside the ordinary poll |
| `MCPositionExit` | model-checking instance |
| `PositionExitProofs` | all safety properties of the exit, proved |
| `PageRequests` | requests in flight, answers, failures: what every page extends |
| `StablePolling` | the polling hook, for the dashboard, mission control and the validation runs |
| `ParameterRules` | strategy parameters, their rules, the coach's health, readiness and observations (operators, no state) |
| `DashboardConsole`, `MarketsPage`, `PaperTradingPage`, `RiskMonitorPage`, `ValidationRunsPage`, `StrategyLabPage`, `DecisionArenaPage`, `MissionControlPage`, `DecisionIntelligencePage`, `DecisionRecordsPages`, `BacktestsPage` | one page each, with what it uses of the API |
| `RiskRules` | the API's changes of the default risk rules: read and judged, then written or rolled back |
| `LiveOrderPage`, `InstantBuyPage`, `OrderPreviewPage` | one page each, over the service that acts on orders, purchases and previews |
| `OperatorConsole` | the shell: instantiates the pages and mounts one of them; fairness of the pages that poll |
| `MCOperatorConsole` | model-checking values |
| `RequestProofs` | lemmas about requests in flight, about kept sequences, and induction over the natural numbers |
| `PageProofs`, `ReviewPageProofs`, `ListPageProofs` | the invariants of the previews, instant purchases and the strategy lab; of the risk monitor and the risk rules, reviews, backtests, mission control and the arena; of the live orders, decision lists and decision explorer, proved page by page |
| `OperatorConsoleProofs` | the same properties of `OperatorConsole`, proved |

Definitions whose comment starts with "Mutant:" are wrong variants of the
definition below them (a dropped guard, a missing reset). No specification uses
them; substituting one makes the property it belongs to fail, which shows that
the property depends on the code.

### ExecutionClaims

**State.** `claim`, `order`, `submitted`, `acked`, `event`, `booked`, `custody`
and `effective` are database columns (claim status, order status, `submitted_at`,
the submit audit row, the latest reconciliation event, the presence of accounting
rows, custody rows, the activation). `slot` is the campaign version's JSON slot
per side. `session[w]` is a worker's attempt: its program counter and the claim
and order **as loaded**. `exch` and `calls` are what the exchange knows; no code
reads them except through a reply.

**Granularity.** One action is one committed transaction, or the provider call
between two of them. `advance_claimed_execution` becomes the steps

    Advance -> ExecuteRecorded -> SubmitStarted -> CallProvider -> Record... -> Settle -> Conclude

with a failing alternative at each (`PrepareRefused`, `ReadinessRefused`,
`SafetyDisabled`, `ExecuteRefused`, `ExecuteVetoed`, `ExecuteReplayed`,
`SubmitRefused`, `SubmitExpired`, `SubmitExisting`, `CallNotSent`), and `Crash`
between any two.

**Stale rows.** Sessions are opened with `expire_on_commit=False` and
`SELECT ... FOR UPDATE` is issued without `populate_existing`, so a session that
already holds a row keeps the old attribute values. Actions therefore decide on
`session[w].claim` and `.order`, and `Stored` writes a column only when the new
value differs from the loaded one, as the unit of work does.

**Reconciliation** is one step per pass here, by the worker or by an operator, at
any time; `OrderReconciliation` takes a pass apart. `Release` is the scheduler's
release with the custody hand-off in the same transaction.

**Abstractions.** Quantities are whole positions (a package buys or sells one);
fingerprints and identity checks are consistent, their failure is a refusal; the
activation covers package, mandate and confirmation window (their expiry is
`ActivationLapses`). Claims written with `provider_submission_connected=False`
are never advanced and are not among the packages. Statuses `RECOVERY_REQUIRED`,
`BLOCKED` and `POSITION_OPENED` exist in the schema but nothing writes them.

### OrderReconciliation

**State.** `exch`, `executed`: the order and its fills at the exchange. `status`,
`log`, `booked`: the order row, the event log, accounting rows per fill. `log`
keeps only what later decisions read: the idempotency keys of unresolved events
and whether the latest event is resolved. `claim`: held, or how it was released.
`balance`: which fills the connection's snapshot reflects and whether it is
recent. `origin`: whether a balance baseline and a consistent campaign were
recorded at submission. `pass[r]`: a pass in progress with the order, answer and
balances it loaded.

**Actions.** `Begin` is the read half of `reconcile_live_order_and_fills`
(scheduler: candidate rule and balance refresh; operator: any order). It ends in
`Reaffirm` (a FILLED order with a later, weaker answer), `FailClosed` (no answer
or another identity), `Conclude` (status event, fills, balance evidence, mapping)
or `Abort` (an outage, an audit-evidence failure, a unique-key collision, a dead
process: everything rolls back). Decimal arithmetic is replaced by sets of fills:
quantities are only compared for "all", "some" or "none". `origin.size` is the
quantity the provider states for the order, in fills: none (0) from an adapter whose
normalized answer has no "vol" (`providers/coinbase_advanced.py:622-638`, 689-698), that
of the order from Kraken, another one for its quote-sized orders, whose "vol" is money
(`providers/kraken_spot.py:76-87`). `OrderQuantity` falls back on the listed fills where
it is none, as the code does (`accounting_reconciliation.py:676-679`).

**Abstract specification.** `OrderOutcome`: the exchange decides once, the
verdict is given once, after it, and agrees with it. The refinement mapping in
`Outcome` reads the decision from `exch` and `executed` and the verdict from
`claim`; `VerdictIsTrue` is the refinement.

### PositionExit

**State.** `custody`, `authority`, `attempt`, `claim` and `order` are rows;
`evaluation` is the custody's persisted `latest_exit_evaluation`; `books.sale` and
`books.others` are what the accounting rows say was sold by this exit and by an
operator's other orders. `custody.refs` is the set of `active_sell_*` links that are
not null. `exchange` is the request and the order there, which the code sees only
through a reply or a lookup. `worker` says whether a worker waits for the
provider's reply, `elapsed` which of four deadlines have passed, and `calls` counts
the submissions.

**Actions.** `Evaluate` and `Revalidate` are the custody evaluation and the
revalidation of authorities, which one cycle commits together. `Select`,
`AwaitEvaluation`, `Authorize`, `Construct`, `Activate`, `ConstructOrder`, `Submit`
and `ExitReconcile` are the stages of `autonomous_proof_sell_worker.py`, one per
cycle, each under its own savepoint; `StageFails` is its refusal or error, which
rolls back and counts a retry. A submission commits its intent, calls the provider
and stores the reply: `Acknowledged`, `Rejected`, `ReplyUnknown`, or `Crash`.
`Resume` and `Recover` are what a later stage step does with an order that was
already sent. `Poll` is the ordinary reconciliation of the same order, with the
release of its claim. `Arrive`, `Execute`, `SellElsewhere` and `Elapse` are the
network, the exchange, an operator and the clock.

**What interferes.** The stages and the reply do not exclude each other: while a
call is out, a second worker, an operator's reconciliation or the next cycle after
a restart may poll, evaluate, revalidate or take a stage step; the reply then meets
what they stored.

**Abstractions.** Which disposition an evaluation reaches (prices, fees, policy) is
a choice, limited by what the code derives from ownership and links. Identity
checks between the rows of the one exit are left out, since these are written
together; so are the gates of a stage that only stop it (`StageFails`). Quantities
are units; rounding to the provider's step is a choice of a smaller quantity.

### The pages and OperatorConsole

**State.** Every page uses the same four variables. `ui` is the mounted page's
React state: its `useState` values, the refs that outlive a render (request ids,
in-flight flags), and the clicks so far. `net` is the sequence of requests in
flight, oldest first; a request carries the arguments its closure captured, and,
once served, the answer. `db` is the part of the API's data the page uses and the
failures so far. `wire` says how the requests are ordered and never changes:
"ordered" as on one connection to one worker, "unordered" as parallel fetches.
Both are checked, since some pages are right only on the former.

**Actions.** An operator's action is the whole handler up to its first `await`,
with the requests it issues. `Serve` is the API carrying out one request: where
the route commits more than once (a backtest, an instant purchase) there is one
step per commit. `Deliver` is the code after the `await`: the state updates, the
tests on request ids or cleared flags, the requests issued next, and the effects
that run because a state they depend on changed. An effect whose cleanup clears
the flag its handler tests is `Abandon`: the answer is dropped. `RequestFails`
loses a request before it is carried out, or its answer after. Reads that one
`Promise.all` joins and that no property tells apart are one request.

**Granularity of the services.** `LiveOrderPage` has the service's `dry_run`,
operator reconciliation and cancellation each as one transaction, with the worker
and the exchange reduced to the statuses they write; the detail of those is
`ExecutionClaims`. `InstantBuyPage` takes a purchase apart: look-up by key, the
insertion, resumption of an earlier one, the commit before submission, the
submission, the answer, and adoption by the reconciliation; a lost answer and a
death of the process are possible between them. `OrderPreviewPage` has the key
(a hash of the request, the actor and the time window), its unique constraint with
the version, and the rows' expiry, with a window that moves at any time.

**Risk rules.** A change of the page names an account, and `patch_risk_rules` looks it
up before `db.begin()`, which then raises: `RiskMonitorPage` has the API refuse it
(section 6), and keeps of the rules whose they are. Changes that name no account do
go through, and `RiskRules` has them in two steps: `BeginChange` is the unlocked read
and the judgement on it, `EndChange` the UPDATE of the fields that differ from what
was read, over what is stored by then, with the commit, or a rollback. `db.granted`
is an auxiliary: per field, the loosest value stored first or confirmed since.
`OperatorConsole` treats these clients as one more page, `rules`.

**Composition.** `OperatorConsole` mounts one page; leaving it loses its state, so
a behaviour follows one page from its mount and its state space is the sum of the
pages', not their product. Each page has bounds of its own.

**Abstractions.** Layout, wording and number formats are left out except where one
of them is what a property is about (which counter, which status, which page
number is shown). Numbers become a few values of each kind; scores and simulation
results are inputs. Each module's header says what else it leaves out.

## 3. The runs

| Run | Instance | Distinct states | Shows |
|---|---|---|---|
| `core` | 2 BUY, 1 SELL, 1 worker, redrive + veto + partial, 1 crash, one historical claim | 1.19 M | scope lock, one call, exposure, truthful outcomes, finality |
| `progress` | BUY + SELL, 1 worker, lag + partial, 1 crash, fairness | 50 k | comments on claim statuses hold when only the sweep revisits a claim; claims, custody and scope move on |
| `reconcile` | 1 scheduler, 2 fills, a quote-sized order, eight anomalies, fairness | 293 k | FILLED is final, verdict true, release and clearance happen |
| `reconcile_overlapping` | scheduler + operator, 2 fills, stated size 0 to 2, stale + identity + partial | 2.16 M | booked once, FILLED accounted, guard closed unless the stated size falls short |
| `console_pages` | thirteen pages, ordered and unordered requests; 3 rule changes, 4 rule sets | 1.48 M | what a page shows agrees with itself and with what was asked; purchases, previews and reviews happen once; no stored rule is looser than was acknowledged |
| `console_polling` | the four pages that poll, fairness | 99 k | whatever was selected during a fetch or failed, each page ends up showing what its controls say |
| `redrive_releases_sent` | violation | | section 6, 1 |
| `overlapping_workers_send_twice` | violation | | section 6, 2 |
| `lagging_fills_cancel` | violation | | section 6, 3 |
| `overlapping_passes_downgrade` | violation | | section 6, 4 |
| `position_exit` | 2 units, 1 sold otherwise, 3 evaluations, fairness | 189 k | one submission, supervised while it may execute, closed only when sold; custody, books and account lag one way; an executed exit ends FILLED with its scope free |
| `filled_exit_stays_open` | violation: 1 unit, 1 evaluation | | section 6, 5 |

**Bounds and why they are enough.**
- Packages: a second BUY is needed for the scope race, slot superseding and double
  exposure; a SELL for the other slot and for ownership. Of two further packages
  of one side the second would repeat what the first does.
- `Historical` holds at most one package: a campaign version has at most one claim
  from the release before the provider was connected.
- `MaxCrashes = 1`: a crash empties the session and changes no row, so what a
  second crash can add is another restart from a state one crash already reaches;
  sweeps and redrives are unbounded.
- `FillCount = 2`: the first number at which a partial execution, and a first fill
  that is not the last, exist.
- Two reconcilers: the least number that overlaps. Passes per reconciler are
  unbounded.
- `Sizes`: with two fills, 0 is no stated size, 1 one that falls short, 2 the order's
  own; 3, in `reconcile`, is one that no fills reach.
- `RuleChanges = 3`: one that is overtaken, the one that overtakes it, and one more
  that reads what they leave. The four rule sets have three limits, since with two no
  change can tighten what it reads and loosen what it is written over.
- `Stresses` and `Anomalies` name the circumstances in play. They are inputs, not
  fixes: a run leaves one out when it is the subject of a violation run (section
  6), or to keep the run small, and the table says which are in.
- `Clicks` bounds an operator's actions, per page, from one (risk monitor, where
  only changes count, and loading an account is free) to four (strategy
  lab). It is the least number at which the page's hazard occurs: three on the
  dashboard (open a tab, turn two pages: the first answer may come last), three
  for the live orders (dry run, select, cancel), two overlapping purchases, two
  selections during one fetch.
- `Failures` is one on the pages that handle a failure by keeping or clearing
  data; two failures of one request are a failure of its retry, which the pages
  do not distinguish.
- The instant purchase has one poll in flight and the pipeline panel at most two
  requests: a further one would repeat what the second can do. `MaxWindow = 1`
  lets the idempotency window move once, enough to cross its boundary.
- `HistoryPages`, `EventPages`, `MaxRuns`, `MaxBacktests`, `MaxDecisions` are two,
  the first number with an order; a run, a page or a decision that is not the
  first is what their hazards need. `MaxGeneration` likewise.

- `Units = 2` is the first quantity with a partial execution and with a rounding
  that leaves something; `OtherSales = 1` lets ownership change under an exit at
  any stage; `MaxEvaluations = 3` lets an evaluation replace the one an authority
  was armed on, and one more follow the sale. Retries need no bound of the
  model's: the code stops at five.

`calls` of `ExecutionClaims` has no cap: it is bounded by `OneProviderCall` itself where that holds.

**Fairness.** The worker's cycle runs the sweep and the reconciliation poll every
time (`orchestration/continuous_pipeline_worker.py:2441-2475`) and a restarted
process enters the same loop, so attempts, sweeps and polls are weakly fair. The
release is strongly fair because a worker in the middle of an attempt disables
it. A market order at the exchange is decided. A truthful answer with a
successful balance refresh is given *infinitely often if infinitely often
possible* (`TruthfulBegin`, `TruthfulFinish`), not always. Nothing is assumed of
operators, kill switch, redrives, new claims or of the order of events at the
exchange.

In `position_exit` a truthful poll of an order the exchange knows is weakly fair,
since every cycle polls (`continuous_pipeline_worker.py:2458`), and a call ends, by
its reply, its time-out or the worker's death. Nothing is assumed of the exit's own
stages: `FilledExitReleasesScope` holds by the poll alone, even where a late reply
or the exit's reconciliation overwrites what the poll had stored.

In `console_polling` the intervals of a visible page fire (`setInterval`), the API
carries out what it was asked (a request it refuses is a failure, which is
bounded), the browser hands answers to their handlers, and a backtest that was
started is worked on. These four groups are weakly fair, not each page action:
which answer comes next is left open. The operator need not do anything, and does
only finitely much; all four properties are of the form "from some time on", and
start to hold when the clicks and the failures have ended.

**Deadlock** is checked in every run of `ExecutionClaims` and
`OrderReconciliation`. The runs of `PositionExit` switch it off, since an exit ends
with its attempt terminal and its bounded evaluations used. So do the runs of the
console: an operator may stop, and with a bounded number of clicks does, on a
page that does not poll.

## 4. Proofs

Assumptions on constants are the named `ASSUME`s of `ExecutionClaims`
(`Packages` finite, `Production \subseteq Buys \subseteq Packages`, at most one
historical package, `NoPackage` not a package, `Stresses \subseteq StressNames`,
`MaxCrashes` a natural number) and of `PositionExit`
(`Units` a positive natural number, `OtherSales` and `MaxEvaluations` natural
numbers). `OrderReconciliation` has `FillCount` positive, `Schedulers \subseteq
Reconcilers`, `Anomalies \subseteq AnomalyNames` and `Sizes` a set of natural numbers.
`OperatorConsole` assumes that
a rule set is a pair of integers (limit and cooldown), and that the decision page has a list and no view of the
selected decision is one (the source names them one by one). Of the strategy lab it
assumes that runs have ids of their own and each metric of a run is a number or
missing (`parseFiniteNumber` reads anything else as missing, `page.tsx:364-375`), and
that what is typed or stored for a numeric parameter is an integer or missing
(`coerceParameterValue` reads a stored value that is no number as the default,
498-530; numbers are in hundredths). Of the trading pages it assumes that prices,
moving-average periods and amounts are integers, that the pipeline's counts are
natural numbers (they are row counts), and that a counter takes at least one frame
(12 in the source). Where a theorem needs more, its statement says so: `OneWorker` (one session drives claims), or that a
stress (`redrive`, `veto`, `lag`) is absent. Each of those hypotheses is the subject of a
violation run, of a finding in section 6, or both.

`ExecutionClaimsProofs`:

- `TypeCorrect`: `Spec => []TypeOK`, for any packages, workers and stresses. One
  lemma per group of actions. The conjunct of `TypeOK` that ties a busy session to
  a package is what makes it inductive: every step of an attempt writes at
  `session[w].pkg`.
- `ScopeLockHolds`: `Spec => []OneScopeHolder`, **any number of workers**. The
  invariant is inductive with `TypeOK`: each write into the nonterminal set is of
  a claim already in it, or is guarded by the unique index (`ScopeFree`). The
  index, not the code around it, is what every case comes down to.
- `SentOnce`: `Spec => []OneProviderCall`, **assuming `OneWorker`**. By itself it
  is not inductive: a session about to call must be known not to have called. The
  strengthening `AttemptInv` has three parts. `AttemptCurrent`: a worker's loaded
  claim is the stored one, a prepared order it has not submitted yet is still a
  prepared order in the database, and between the commit and the call the order
  is submitted and uncalled.
  `CallsRecorded`: one call implies `submitted`. `PreparedUnsubmitted`: an order
  still being prepared was not submitted. `OneWorker` is necessary:
  `overlapping_workers_send_twice` is the counterexample for two.
- `ReleasedStaysReleased`: `Spec => ReleasedIsFinal`, assuming `OneWorker`, from
  the same invariant. The late writes of an attempt (the exception handler, the
  conclusion) look at the loaded claim, which `AttemptCurrent` ties to the row.
- What the records say about the exchange, all with `OneWorker`, on top of
  `AttemptInv`:
  - `WithdrawnNeverSent`: `[]WithdrawnOrderNeverSent`. It is a consequence of
    `AttemptInv` and of what a withdrawal looks at.
  - `CalledAsRecorded`: every provider call satisfies `CallMatchesRecord`.
    `RecordedInv` carries the row and the slot that `SubmitStarted` committed to the
    call that follows: the worker is the only one who could change them.
  - `ReleasedUncalledOrResolved`: `[]ReleasedMeansUncalledOrResolved` if claims are
    not driven a second time. `FreshInv`: the order of a claim that is only started
    was not submitted. `UncalledInv`: every attempt is about such a claim, and
    one that fails has not called. `redrive_releases_sent` shows why the
    hypothesis is needed.
  - `PendingWasSubmitted`: `[]PendingMeansSubmitted` if the risk veto after
    preparation is left out (with it a claim concludes as `SUBMISSION_PENDING`
    without an order sent, section 6). `PendingInv` adds that a spent slot belongs
    to a submitted order.
  - `OutcomeIsTrue`: `[]ClaimOutcomeIsTrue` if fill lists do not lag.
    `TruthInv` follows a verdict backwards: a terminal order status is the
    exchange's own, and a decided order stays decided.
    `lagging_fills_cancel` shows why the hypothesis is needed.
  - `ExposureBounded`: `[]ExposureBound` if fill lists do not lag: what was really
    executed, booked or not, is one position or none, for **any number of
    packages**. `AttemptsClaimed` ties an attempt to a nonterminal claim, so with
    the scope lock and the gates of a claim at most one order is at stake, that is,
    claimed, open or executed and not booked (`OneAtStake`). So everything else was
    booked when that order was prepared, and `RoomInv` keeps what the gate found:
    an order that is open or may still be sent fits into what was executed. The sum
    over packages is a count of a finite set, whence `PackagesAssumption`.
- `OrderReconciliationProofs`, for any number of fills and **any number of
  overlapping passes**: `TypeCorrect`, `FillsBookedOnce` and `GuardStaysClosed` with
  every anomaly; `FilledMeansAccounted` and `ImplementsOutcome`, the refinement of
  `OrderOutcome`, assuming that fill lists do not lag (with lag a filled
  order becomes REJECTED, as in `lagging_fills_cancel`); `FilledIsFinal` assuming one pass at a time and no
  answer that names another product or side (`overlapping_passes_downgrade` is the
  counterexample with two passes). The inductive invariant `OrderInv` carries a fact
  from where it is read to where it is used: `AnswersHold` (a final answer that a
  pass holds is still true of the exchange, since a decided order stays decided),
  `StatusesHold` (so is a terminal status, stored or loaded), `VerdictHolds` (so is
  the verdict of a released claim). `FillsInOrder` says that a complete fill list
  means a decided order. `GuardStaysClosed` depends on it: unless the order is partly
  executed and its provider states no size or one below its own, which the property
  excludes, only a complete list makes the event of a fill a resolved one. The refinement holds
  although overlapping passes may downgrade the status, because the release happens
  on a status that was true when it was stored and cannot become false.
- `PositionExitProofs`: `TypeCorrect`, `SoldByOneSubmission`, `SupervisedWhileOpen`,
  `ClosedMeansSold` and `BooksLagOneWay` prove the type invariant and the four safety
  properties of `position_exit`, assuming only that the quantity bought is a
  positive natural number and the other two bounds natural numbers. The properties
  are not inductive one by one: a custody that closes relies on a FILLED order being
  executed, and that on the order having been sent once. `ExitInv` is their
  conjunction with five links. `EarlyUnordered`: no order before the ORDERED stage,
  so no stage overwrites one. `UnsentUncalled`: an order that was not sent has left
  no trace at the exchange, which makes the one submission the first.
  `QuantitiesAgree`: what was executed fits the order, what is booked was executed.
  `DecidedAtExchange`: a terminal status is the exchange's own decision, so a
  released claim belongs to an order that is no longer open. `CustodyFollowsAttempt`:
  an exit under way is pending in the custody. One lemma per action, then one
  theorem per property.

Nine properties of the pages and the services behind them, for **any clicks,
failures, products, actors and rule sets**. Each page is first treated alone, in
`PageProofs`, `ReviewPageProofs` and `ListPageProofs`, with the page's own `Init` and
`Next`;
`OperatorConsoleProofs` then carries the invariant over to `OperatorConsole`: the page
that is mounted takes its steps, the others keep what they hold, and the lemmas
`Same...` say that the instance of a page in the console and the one in the proofs
are the same formulas. `ConsoleInv` is the inductive invariant of the console:
whichever page is mounted keeps its own.

- `PreviewsAreOnce`: `Spec => []PreviewedOnce`. `PreviewInv`: the previews of a
  request form a chain of versions, of which only the last can be current. A
  creation that was carried out meanwhile makes the next one find either a current
  preview or the same version taken, so the unique constraint does the work, as
  the index does for `ScopeLockHolds`.
- `OrdersAreBoughtOnce`: `Spec => []BoughtOnce`. `InstantInv`: a purchase between
  its look-up and its commit has not been sent; an order that is stored and not
  submitted belongs to at most one purchase that is about to submit it. The
  exception that `BoughtOnce` makes (overtaken purchases with one key and
  different amounts) is the finding of section 6.
- `ReviewsAreOnce`: `Spec => []ReviewedOnce`, from `LearnedInv`.
- `RulesStayWithinAcknowledged`: `Spec => []RulesWithinAcknowledged`, for any rule sets
  and any number of overlapping changes. `RulesInv`: what an open change asks for is
  within what was acknowledged too, since a change that was not confirmed asks for
  nothing looser than the rules it read. What it writes is, field by field, what it
  asks for or what is stored, so the order of the commits does not matter.
- `ShownBecomesActive`: `Spec => []ShownIsActive`. `ShownInv` is about the whole
  sequence of requests: on an ordered wire the last answer that will be shown is of
  the active backtest, whatever precedes it.

- `DetailStaysListed`: `Spec => []DetailAgreesWithList`. The page checks nothing when
  an answer comes, and its requests overtake each other and fail. `LiveInv`: every
  answer that names an order replaces the detail and the order's row together, and a
  list is loaded with its detail. A dry run puts its order before the others, so the
  detail agrees as long as the filter that keeps the others drops every earlier row
  of the preview. A list that is loaded has one row per preview, since the API
  stores one order per preview.
- `DecisionsAgree`: `Spec => []DecisionPagesAgree`. Nothing on the decision page
  cancels a load or numbers its answers. `ViewsInv` says why the lists end up right
  on an ordered wire all the same: the last load due for a view was asked with its
  controls (`LastWanted`), and a view for which none is due shows its controls
  (`Settled`). So every change of a control must issue the loads of every view that
  depends on it, behind the others; a timeline answer that selects a decision issues
  those of the details. `ScreenInv` does the same for the explorer, whose loads come
  in halves: on an ordered wire the halves of one load are neighbours, only a load
  both of whose halves were handled is shown, and the last one was asked with the
  filters shown. The inspector waits for its own decision only.

- `ResearchAgrees`: `Spec => []ResearchPagesAgree`, three pages in one property.
  *Strategy lab* (`LabInv`): the form always holds one value, or none, for each
  parameter of its strategy (`FormHolds`), whichever of typing, a default, a snapshot
  or a saved set put it there; sets, runs and log entries keep their shape from the
  answer to the screen. `CoachRanks` shows that in every such form the score and the
  health are bounded by the rules that are broken, for all six strategies;
  `InvariantAgrees` adds the comparison: a winner is an extreme of what is compared,
  a minimum or maximum that exists since the set is finite and not empty. A strategy the page does not
  know has no parameters; it is invalid for that alone and the coach explains
  nothing, which the property says. *Decision arena* (`ArenaInv`): the property is
  about what is shown when nothing is in flight, the invariant about the whole
  sequence of requests on an ordered wire. `Catching`: the campaigns the list lacks are,
  in order, in the creations' answers on their way, and the last answered run of a
  campaign has it as stored. `RunsBefore`: whatever refreshes a section is of a
  laboratory that has run. `Descended`: descendants are in the API's memory as soon as
  an evolution answers, so every read answered after it has them, and one such read
  is due until the page's memory has. `Named`: candidates under evaluation are listed. *Mission control*
  (`MissionInv`): the cursor, the polled snapshots and the selected one change
  together.
- `TradingAgrees`: `Spec => []TradingPagesAgree`, four pages. *Dashboard*
  (`DashInv`): an answer for a panel is always for the panel that is mounted and, in
  the history, for the page it names, because opening a tab and turning a page abandon
  the requests before them; a counter that has run all its frames shows the value
  polled last, wherever in an animation that value moved. That the status agrees with
  the stages (`StatusHolds`) needs the counts to be natural numbers and nothing else.
  *Markets* (`MarketsInv`): what the cache holds, and what an answer carries, is of its
  own key, whichever request is answered first. The moving average is computed by a window that slides over the points:
  `WindowSums` shows that its running sum is, from a full window on, the sum of the
  points in it, for any series and period. *Paper trading* (`PaperInv`): trades are
  reloaded only when the account's id changes, and nothing numbers the answers.
  `Synced` is why that is enough on an ordered wire: of the loads of trades on their
  way the last is for the active account, and when none is on its way the trades shown
  are that account's. `DrawdownPasses` follows the one pass that computes the drawdown
  over a timeline of any length: after each point the peak is the highest so far and
  the fall remembered is the deepest from an earlier point (`DeepestOf`), so at the
  end it is the maximum the property names (`DeepestIs`). *Risk monitor* (`RiskInv`):
  no account is loaded while the rules of another are on their way, nor while a
  kill-switch change waits for its answer, so that both are of the loaded one; the
  reload such a change ends with may come after a load, and on an ordered wire it is
  shown before it.

Filters of sequences are written with `Kept` (the entries at some of the places, in
order), which means what `SelectSeq` does with the test given as the places that pass
it: `SelectSeq` is recursive, and the provers cannot expand it. `KeepingProperties`
(`RequestProofs`) is the lemma that the proofs cite: each entry kept comes from one
place, two of them from two, and no place is left out. It needs induction, and so do
the least and the greatest of a finite set of numbers. The library's induction theorems
take an operator as a parameter and cannot be used here. `SmallestSubset` gets the
same from one that takes a set: strict inclusion is well-founded on the subsets of a
finite set, so among some of these one includes no other. A property then becomes the
*set* of the numbers that have it, which the provers can instantiate (`FiniteMax`,
`FiniteMin`, `LeastNat`, `Induction`). The recursive functions of the models (the running sum, the
timeline, the drawdown) are instances of one lemma, `Iteration`: a function that
starts at a value and goes on by a step exists, and stays in what the step preserves
(`IterationStays`).

**Only model-checked:** the liveness properties. They need fairness and `ENABLED`,
for which the prover has no rule. Every safety property of a passing run, invariant or
action property, has a theorem.

## 5. Limits of the model

- Operators may reconcile an order at any time and refresh balances; dry run,
  operator reconciliation and cancellation are in `LiveOrderPage`; operator
  confirmation, operator submission and correction of orders are not modelled.
- A page that is left and mounted again starts afresh; what the requests of the
  page left behind still do to the API's data is not followed.
- One operator in one browser: two tabs of the same page are not modelled (what
  the API then does is the overlap of requests that one page already produces).
- The web pages under "Around them" have no module: `app/live-trading/page.tsx` and
  `lib/api/live.ts`, `ExchangeConnectionsCenter.tsx`, `CapitalLedgerCenter.tsx`, the
  capital-campaign centers, and the settings and signals placeholders.
- A rejection by the adapter is truthful, which the classification of a 4xx
  status or of an unreadable body in `providers/kraken_spot.py` need not be. The
  provider status `rejected` is not among the answers: the Kraken lookup never
  produces it.
- In `ExecutionClaims` another package's balance movement does not disturb balance
  evidence except through the nondeterministic `ReconcileMismatch` and
  `ReconcileUnproven`.
- The poll's batch (oldest first, bounded) has one order here, so starvation of
  newer orders is not visible.
- There is no property "at most one live order": the slot, the open-order check
  and the ownership check each imply it, so no single bug could break it.
- Package creation, mandates, research and the numeric risk rules are inputs.

## 6. Where code and documentation disagree

With a run:

1. **A second drive releases a sent order's scope** (`redrive_releases_sent`).
   `advance_claimed_execution` admits `SUBMISSION_PENDING` and
   `RECONCILIATION_REQUIRED` claims; preparation refuses them and the claim
   becomes `FAILED_PRE_PROVIDER`, against the comment on
   `_CLAIM_SCOPE_RELEASED_STATES`.
2. **Two workers send one order twice** (`overlapping_workers_send_twice`). The
   worker that waited for the row lock decides on the rows it loaded before. The
   controlled-proof dispatch runs in the API process beside the worker's loop.
3. **Filled without listed fills becomes CANCELLED** (`lagging_fills_cancel`). The
   order becomes `REJECTED` and the claim is released as cancelled although the
   order was executed.
4. **An overlapping pass downgrades FILLED** (`overlapping_passes_downgrade`). The
   order is read without a lock and the regression check looks at that copy.
5. **A filled exit stays open** (`filled_exit_stays_open`). Every worker cycle
   polls live orders and revalidates exit authorities before it runs the exit
   stage (`orchestration/continuous_pipeline_worker.py:2458-2495`). The poll books
   the fills of the SELL and marks it FILLED. From then on the exit's own
   reconciliation refuses: the owned quantity differs from the one the custody
   observed, and the authority, with nothing left to sell, was CONSUMED. A later
   evaluation refreshes the observed quantity but not the sold one. After five
   refusals the attempt is TERMINAL and the custody EXIT_PENDING for good, since
   `close_custody_if_unowned` has no caller. The tests that show a filled order
   closing its custody have no poll in between.

Seen while modelling, without a run of its own. Three are stated as definitions of
`OperatorConsole` that no run lists:

- `DryRunsStartPending`: `dry_run` sets the status of whatever order the preview has
  to a dry-run status, an order open at the exchange included, and its audit row
  says it was `PENDING_CONFIRMATION` (`live_crypto_orders.py:2102`, 2152).
- `LaunchTestsReviewed`: the strategy lab's review "confirms exactly what will be
  tested" (`app/strategy-lab/page.tsx:1937`) and shows the form; the launch sends
  the id of a saved parameter set (1300), whose values may differ.
- `LooseningConfirmed`: relaxing a limit needs `confirm_loosening`
  (`src/docs/RISK_AND_AUDIT_API_CONTRACTS.md:159`, `risk_monitor.py:542-546`). The rules are
  read without a lock and judged as read: with 3 stored, an unconfirmed change to 2 is
  accepted, a change to 1 commits, and the write of the first loosens 1 to 2. What does
  hold, and is proved, is `RulesWithinAcknowledged`.

On the trading path:

- `SAFETY_DISABLED` releases the claim but leaves its order
  `PENDING_CONFIRMATION`, which blocks every later claim of the product.
- A risk veto, or the replay of a finished slot, concludes the claim as
  `SUBMISSION_PENDING` although its order was not submitted.
- With two workers, a late conclusion can overwrite a released claim.
- The product/side conflict branch of a pass has no FILLED protection.
- A repeated unresolved observation appends nothing, so after a resolved event it
  does not close the guard again.
- For a provider that states no size (Coinbase Advanced), or a size in money (Kraken,
  quote-sized), the listed fills of an open, partly executed order may count as the
  whole order (`accounting_reconciliation.py:676-679`): the latest event says filled and
  the guard opens while the order is open, against "the reconciliation guard fails
  closed on any unresolved/ambiguous order state"
  (`src/docs/AUTHORITY_AND_ACCOUNTABILITY_MODEL.md:225`). Its status stays open, so its
  claim keeps the scope; `GuardClosedWhileUndecided` names the exception.
- A partly executed order, and an ambiguous submission that never arrived, keep
  their claim's scope forever: nothing turns either into a terminal status.
- A slot whose attempt ended `CONFIRMATION_EXPIRED`, `REJECTED` or `FILLED` is
  never free for another package of that side and campaign version.

In the services behind the pages:

- A cancelled order is only flushed, not committed, and reads as its old status
  again (`src/docs/CONTROLLED_PROOF_ACTIVATION.md:286-290` describes the
  release that follows a cancellation). An operator's reconciliation commits before the release of the
  claim's scope that follows it, which is then lost.
- Two concurrent instant purchases with one key and different amounts make two
  orders. The status of a failed reconciliation of a purchase is only flushed
  (`instant_trades.py:730-741`). `PARTIALLY_FILLED` is final to the API and
  pending to the page, which polls it for ever.
- A preview request repeated across the boundary of the idempotency window gets a
  second live preview (`crypto_order_previews/service.py:150-169`). Refreshed
  previews get version 1 and no link to what they refresh; a SELL preview from the
  page is always refused.
- A candidate other than the baseline's cannot be evaluated
  (`src/docs/CANDIDATE_EVALUATION_PIPELINE.md:4`). The API has no route that saves
  a parameter set, which the strategy lab calls. `/paper/reset` deletes trades.
  Risk status answers 503 until the global switch is first set. A losing paper
  sell in a backtest leaves phantom value in the equity.

In the pages:

- Live orders: "ready for operator review" keeps the dry-run result of another
  preview or profile; a failed load of another profile keeps the previous orders;
  reconciling a dry-run order makes it `RECONCILIATION_REQUIRED`.
- Instant trades: a late poll answer replaces a newer receipt
  (`InstantBuyCard.tsx:117`); a purchase is shown as failed although its order
  exists (172-175). Previews: a late load or cancel answer replaces the latest one.
- Decision intelligence: a late timeline answer replaces the selection
  (`app/decision-intelligence/page.tsx:587`); typing a filter does not reset the
  page. Markets: a cached selection is replaced by the answer in flight.
- Mission control: gaps are drawn by the selected, not the polled range; the cursor
  stays on the first snapshot it selected by itself; the drawer is stale after a
  change of range.
- Validation runs: a late refresh moves the selection. Backtests: a pending one is
  never polled, against "This panel will refresh automatically."
  (`BacktestResultPanel.tsx:171`).
- Strategy lab: a strategy without saved sets launches another strategy's first
  set; a list that arrives late replaces a set saved meanwhile; the coach's four
  observations drop the readiness score.
- Arena: the summary is stale after an evolution, load errors are never cleared,
  and a campaign can be run twice at once.
- Paper trading: filters change the analytics; the page keeps its trades after a
  reset; a created account shows equity 0.
- Risk: no rule change of the page succeeds, against "Update per-account risk limits
  from the API" (`app/risk-monitor/page.tsx:563`). `patch_risk_rules` looks the account
  up (`risk_monitor.py:513`), which begins a transaction, and then begins one (515),
  which raises, as `db/session.py:35-37` says; the tests of the route use a session
  without that rule (`test_risk_routes.py:241`).
- Records: a failed load leaves "Page 2 of 1"; Next after a change of the filters
  turns the page of the new ones.

## 7. Plan

1. Done: `ExecutionClaims`, `OrderReconciliation`, `OrderOutcome`, the first proofs.
2. Done: the front end with instant trades, previews and the operator's side of
   live orders.
3. Done: proofs for `OrderReconciliation`, the refinement of `OrderOutcome`
   included, and for every safety property of `ExecutionClaims`.
4. Done: proofs of every property of the pages except the liveness properties.
5. `OneShot`: an abstract at-most-once execution under a scope lock, implemented
   by `ExecutionClaims` with one worker.
6. Done: `PositionExit` with its proofs. Left of it: disqualification of a custody,
   the hand-off states, manual revocation, several custodies in one due batch.
7. `ControlledProof`: proof runs, immediate dispatch, exit recovery. Properties:
   one BUY and one SELL per run, a recovered run never opens exposure.
8. `Mandates` with package activation: lifecycle and replacement. Properties: one
   effective mandate per scope, no execution under a replaced one.
9. `ReconciliationScheduler`: several orders, bounded batch, starvation.
10. Operator submission and correction, added to `OrderReconciliation`.
11. Campaign state machine and capital ledger, as far as they interact with 7 and 8,
    and the capital pages over them.

Runs for 7-9 use two of each actor and the smallest number of packages with both
sides present; each new module gets one run for safety, with liveness in the same
run where its state space allows.
