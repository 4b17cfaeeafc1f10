--------------------------- MODULE BacktestsPage ----------------------------
(***************************************************************************)
(* The backtests page: a bootstrap that fills the form and the history and *)
(* shows the most recent backtest, a form that runs one, history buttons   *)
(* that show another, and a 2 s poll of the shown one while it is running. *)
(* Every detail that arrives becomes the one shown.  The API commits a run *)
(* as pending, running and finished before it answers the request.         *)
(*                                                                         *)
(* The reads of the bootstrap's Promise.all are answered together.  The    *)
(* capital, the costs and the times of the form are valid together or not. *)
(***************************************************************************)
EXTENDS PageRequests, Integers

CONSTANTS
  BtStrategies,   \* the API's strategies, in order
  BtSets,         \* its parameter sets, in order: [id, strategy]
  Outcomes,       \* how a run may end: [status, trades]
  Earlier,        \* statuses a backtest made before the page mounts may have
  MaxBacktests    \* bound on the backtests made

Empty == ""    \* nothing selected in a control of the form

Started(form) == [strategy |-> form.strategy, set |-> form.set, status |-> "pending", trades |-> <<>>]

Earliest(status) ==
  [Started([strategy |-> BtStrategies[1], set |-> BtSets[1].id]) EXCEPT !.status = status]

\* A backtest as the API answers a request for it.
Response(n, backtest) ==
  [id |-> n, strategy |-> backtest.strategy, set |-> backtest.set,
   status |-> backtest.status, trades |-> backtest.trades]

BacktestsInit ==
  /\ ui = [loaded |-> FALSE, history |-> <<>>, active |-> Null, activeId |-> 0,
           form |-> [strategy |-> Empty, set |-> Empty, valid |-> TRUE],
           metadataError |-> FALSE, formError |-> FALSE, bootstrapping |-> TRUE,
           submitting |-> FALSE, clicks |-> 0]
  /\ net = Issue(<<>>, "bootstrap", 0)
  /\ \E status \in Earlier : db = [backtests |-> <<Earliest(status)>>, failures |-> 0]
  /\ wire \in Wires

----------------------------------------------------------------------------
(* What the page derives from its state. *)

FormDisabled == ui.bootstrapping \/ ui.submitting

\* The parameter sets the form offers: all of them while no strategy is selected.
SetsOf(strategy) == SelectSeq(BtSets, LAMBDA s : strategy \in {Empty, s.strategy})

FirstSet(sets) == IF sets = <<>> THEN Empty ELSE sets[1].id

\* The bootstrap keeps what is selected; a strategy without sets gets the first
\* set of all.
Defaulted(form) ==
  LET strategy == IF form.strategy # Empty THEN form.strategy ELSE BtStrategies[1]
      fitting == SelectSeq(BtSets, LAMBDA s : s.strategy = strategy)
  IN  [form EXCEPT !.strategy = strategy,
                   !.set = IF @ # Empty THEN @ ELSE FirstSet(fitting \o BtSets)]

FormProblem == Empty \in {ui.form.strategy, ui.form.set} \/ ~ui.form.valid

Polling == ui.active # Null /\ ui.active[1].status = "running"

\* What the result panel says of the shown backtest.
InProgress == ui.active # Null /\ ui.active[1].status \in {"pending", "running"}

Panel == IF ui.active = Null THEN "none" ELSE IF InProgress THEN "in progress"
         ELSE IF ui.active[1].status = "failed" THEN "failed" ELSE "results"

\* The estimated timeline of a result: a row per trade from the initial capital.
Row(row, trade) ==
  IF trade.side = "buy"
  THEN [cash |-> row.cash - trade.value, position |-> row.position + trade.value]
  ELSE [cash |-> row.cash + trade.value,
        position |-> IF trade.value > row.position THEN 0 ELSE row.position - trade.value]

Timeline(initial, ending, trades) ==
  LET row[i \in 0..Len(trades)] ==
        IF i = 0 THEN [cash |-> initial, position |-> 0] ELSE Row(row[i - 1], trades[i])
  IN  [i \in 1..(Len(trades) + 2) |->
         IF i = Len(trades) + 2 THEN [cash |-> ending, position |-> 0] ELSE row[i - 1]]

----------------------------------------------------------------------------
(* Handlers. *)

Edit(form) ==
  /\ CanClick /\ ~FormDisabled
  /\ ui' = [Clicked EXCEPT !.form = form, !.formError = FALSE]
  /\ UNCHANGED <<net, db, wire>>

\* Another strategy brings its first parameter set along.
ChooseStrategy(strategy) ==
  /\ strategy # ui.form.strategy /\ ui.loaded
  /\ Edit([ui.form EXCEPT !.strategy = strategy,
                          !.set = FirstSet(SelectSeq(BtSets, LAMBDA s : s.strategy = strategy))])

ChooseSet(set) ==
  /\ ui.loaded /\ \E i \in DOMAIN SetsOf(ui.form.strategy) : SetsOf(ui.form.strategy)[i].id = set
  /\ Edit([ui.form EXCEPT !.set = set])

TypeNumbers(valid) == valid # ui.form.valid /\ Edit([ui.form EXCEPT !.valid = valid])

RunBacktest ==
  /\ CanClick /\ ~FormDisabled /\ Len(db.backtests) < MaxBacktests
  /\ IF FormProblem THEN ui' = [Clicked EXCEPT !.formError = TRUE] /\ UNCHANGED net
     ELSE /\ ui' = [Clicked EXCEPT !.submitting = TRUE, !.formError = FALSE]
          /\ net' = Issue(net, "run", [form |-> ui.form, id |-> 0])
  /\ UNCHANGED <<db, wire>>

\* The history buttons are never disabled.
ShowBacktest(k) ==
  /\ CanClick /\ k \in DOMAIN ui.history
  /\ ui' = [Clicked EXCEPT !.activeId = ui.history[k].id]
  /\ net' = Issue(net, "detail", ui.history[k].id)
  /\ UNCHANGED <<db, wire>>

\* Mutant: an interval that looks at the history instead of the backtest shown.
PollTickOfHistory ==
  /\ Polling /\ ui.activeId # 0
  /\ \E k \in DOMAIN ui.history : ui.history[k].status = "running"
  /\ Len(SelectSeq(net, LAMBDA r : r.op = "detail")) < 2
  /\ net' = Issue(net, "detail", ui.activeId)
  /\ UNCHANGED <<ui, db, wire>>

\* The interval has no guard; it is let overlap one other detail here.
PollTick ==
  /\ Polling /\ ui.activeId # 0
  /\ Len(SelectSeq(net, LAMBDA r : r.op = "detail")) < 2
  /\ net' = Issue(net, "detail", ui.activeId)
  /\ UNCHANGED <<ui, db, wire>>

----------------------------------------------------------------------------
(* Answers: a handler that goes on issues its next request. *)

Goes(view, requests) == ui' = view /\ net' = requests

\* Mutant: the most recent backtest is loaded without becoming the active one.
DeliverBootstrapInactive(r, rest) ==
  /\ r.op = "bootstrap"
  /\ IF ~r.ok THEN Goes([ui EXCEPT !.metadataError = TRUE, !.bootstrapping = FALSE], rest)
     ELSE LET list == r.val[1]
              loaded == [ui EXCEPT !.loaded = TRUE, !.history = list, !.form = Defaulted(@)]
          IN  IF list = <<>> THEN Goes([loaded EXCEPT !.bootstrapping = FALSE], rest)
              ELSE Goes(loaded, Issue(rest, "first", list[1].id))

\* The list is newest first; the most recent backtest becomes the active one.
DeliverBootstrap(r, rest) ==
  /\ r.op = "bootstrap"
  /\ IF ~r.ok THEN Goes([ui EXCEPT !.metadataError = TRUE, !.bootstrapping = FALSE], rest)
     ELSE LET list == r.val[1]
              loaded == [ui EXCEPT !.loaded = TRUE, !.history = list, !.form = Defaulted(@)]
          IN  IF list = <<>> THEN Goes([loaded EXCEPT !.bootstrapping = FALSE], rest)
              ELSE Goes([loaded EXCEPT !.activeId = list[1].id], Issue(rest, "first", list[1].id))

DeliverFirst(r, rest) ==
  /\ r.op = "first"
  /\ Goes([ui EXCEPT !.bootstrapping = FALSE, !.metadataError = ~r.ok,
                     !.active = IF r.ok THEN r.val ELSE @], rest)

\* Nobody handles the failure of a poll's or a button's detail.
DeliverDetail(r, rest) ==
  /\ r.op = "detail"
  /\ Goes(IF r.ok THEN [ui EXCEPT !.active = r.val] ELSE ui, rest)

\* An accepted run is shown as the API calls it, running, until its detail comes;
\* the detail is followed by the history.
DeliverRun(r, rest) ==
  \/ /\ r.op = "run" /\ r.ok
     /\ LET n == r.val[1] IN
        Goes([ui EXCEPT !.activeId = n,
                        !.active = <<Response(n, [Started(r.arg.form) EXCEPT !.status = "running"])>>],
             Issue(rest, "runDetail", n))
  \/ /\ r.op = "runDetail" /\ r.ok
     /\ Goes([ui EXCEPT !.active = r.val], Issue(rest, "runHistory", 0))
  \/ /\ r.op = "runHistory" /\ r.ok
     /\ Goes([ui EXCEPT !.history = r.val[1], !.submitting = FALSE], rest)
  \/ /\ r.op \in {"run", "runDetail", "runHistory"} /\ ~r.ok
     /\ Goes([ui EXCEPT !.formError = TRUE, !.submitting = FALSE], rest)

Deliver ==
  /\ \E i \in Deliverable : LET r == net[i] rest == Handled(i) IN
       DeliverBootstrap(r, rest) \/ DeliverFirst(r, rest) \/ DeliverDetail(r, rest) \/ DeliverRun(r, rest)
  /\ UNCHANGED <<db, wire>>

----------------------------------------------------------------------------
(* The API. *)

History ==
  Reverse([n \in DOMAIN db.backtests |-> [id |-> n, status |-> db.backtests[n].status]])

ServeRead(r, i) ==
  /\ r.op \notin {"run"}
  /\ net' = Served(i, IF r.op \in {"bootstrap", "runHistory"} THEN History
                      ELSE Response(r.arg, db.backtests[r.arg]))
  /\ UNCHANGED db

\* A run is refused for a set of another strategy, and created as pending else.
Fits(form) == \E i \in DOMAIN BtSets : BtSets[i] = [id |-> form.set, strategy |-> form.strategy]

CreateRun(r, i) ==
  /\ r.op = "run" /\ r.arg.id = 0
  /\ IF ~Fits(r.arg.form) THEN net' = Refused(i) /\ UNCHANGED db
     ELSE /\ db' = [db EXCEPT !.backtests = Append(@, Started(r.arg.form))]
          /\ net' = [net EXCEPT ![i].arg.id = Len(db.backtests) + 1]

\* The answer comes when the run has ended, well or not.
AnswerRun(r, i) ==
  /\ r.op = "run" /\ r.arg.id # 0
  /\ db.backtests[r.arg.id].status \notin {"pending", "running"}
  /\ net' = Served(i, r.arg.id)
  /\ UNCHANGED db

Serve ==
  /\ \E i \in Servable : LET r == net[i] IN ServeRead(r, i) \/ CreateRun(r, i) \/ AnswerRun(r, i)
  /\ UNCHANGED <<ui, wire>>

MarkRunning(n) ==
  /\ db.backtests[n].status = "pending"
  /\ db' = [db EXCEPT !.backtests[n].status = "running"]
  /\ UNCHANGED <<ui, net, wire>>

FinishBacktest(n) ==
  /\ db.backtests[n].status = "running"
  /\ \E outcome \in Outcomes :
       db' = [db EXCEPT !.backtests[n] = outcome @@ @]
  /\ UNCHANGED <<ui, net, wire>>

Advance == \E n \in DOMAIN db.backtests : MarkRunning(n) \/ FinishBacktest(n)

BacktestsNext ==
  \/ \E strategy \in ToSet(BtStrategies) \cup {Empty} : ChooseStrategy(strategy)
  \/ \E k \in DOMAIN BtSets : ChooseSet(BtSets[k].id)
  \/ \E valid \in BOOLEAN : TypeNumbers(valid)
  \/ \E k \in 1..MaxBacktests : ShowBacktest(k)
  \/ RunBacktest \/ PollTick \/ Deliver \/ Serve \/ Advance \/ RequestFails

----------------------------------------------------------------------------
(* Properties. *)

\* On an ordered wire, once every answer has come and none failed, the backtest
\* shown is the active one (the one highlighted and polled), although the
\* bootstrap, a poll, a button and a run may all have had a detail on its way.
ShownIsActive ==
  wire = "ordered" /\ net = <<>> /\ db.failures = 0 =>
    (IF ui.active = Null THEN 0 ELSE ui.active[1].id) = ui.activeId
=============================================================================
