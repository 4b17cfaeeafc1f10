-------------------------- MODULE PaperTradingPage --------------------------
(***************************************************************************)
(* The paper-trading page: one active account, its trade history under a   *)
(* filter, a portfolio timeline and analytics computed from both, a form   *)
(* that creates an account and a confirmed reset.  Trades are reloaded by  *)
(* an effect only when the id of the active account changes.               *)
(*                                                                         *)
(* Every asset trades at one price, so a position is worth what it cost.   *)
(***************************************************************************)
EXTENDS PageRequests, Integers, FiniteSetsExt

CONSTANTS
  PaperAssets,   \* assets traded on paper
  Balances,      \* balances typed in the create form
  NewAccount,    \* the account the form creates; "A" and "B" exist
  TradeSize,     \* notional of a trade
  TradeFee,      \* its fee
  MaxTrades      \* bound on an account's trades (the page asks for at most 100)

MinBalance == 25
Primary == "A"

\* No account is named: the API answers with the primary one.
NoId == ""

NoFilter == "all"
Filters == {NoFilter} \cup PaperAssets

FreshAccount(start) == [start |-> start, cash |-> start, position |-> 0, trades |-> <<>>]

PaperInit ==
  /\ ui = [account |-> Null, selected |-> NoId, loading |-> TRUE, pageError |-> FALSE,
           formError |-> FALSE, resetError |-> FALSE, creating |-> FALSE, resetting |-> FALSE,
           confirmOpen |-> FALSE, trades |-> <<>>, filter |-> NoFilter,
           tradesLoading |-> FALSE, tradesError |-> FALSE, clicks |-> 0]
  /\ net = Issue(<<>>, "account", NoId)
  /\ db = [accounts |-> [a \in {"A", "B"} |-> FreshAccount(50)], failures |-> 0]
  /\ wire \in Wires

----------------------------------------------------------------------------
(* The API. *)

Equity(a) == db.accounts[a].cash + db.accounts[a].position

AccountAnswer(a) == [id |-> a, start |-> db.accounts[a].start, cash |-> db.accounts[a].cash, equity |-> Equity(a)]

\* A created account is returned without its equity: the page reads 0.
CreatedAnswer(a, start) == [id |-> a, start |-> start, cash |-> start, equity |-> 0]

\* Newest first, of one asset when the filter names one.
TradesAnswer(arg) ==
  LET trades == db.accounts[arg.account].trades
  IN  Reverse(Kept(trades, {i \in DOMAIN trades : arg.filter \in {NoFilter, trades[i].asset}}))

Executes(r) ==
  \/ r.op = "account" /\ (r.arg = NoId \/ r.arg \in DOMAIN db.accounts)
  \/ r.op = "trades"
  \/ r.op = "create" /\ NewAccount \notin DOMAIN db.accounts
  \/ r.op = "reset"

Effect(r) ==
  CASE r.op = "create" -> [a \in DOMAIN db.accounts \cup {NewAccount} |->
                             IF a = NewAccount THEN FreshAccount(r.arg) ELSE db.accounts[a]]
    [] r.op = "reset" -> [db.accounts EXCEPT ![r.arg.id] = FreshAccount(@.start)]
    [] r.op \in {"account", "trades"} -> db.accounts

Payload(r) ==
  CASE r.op = "account" -> AccountAnswer(IF r.arg = NoId THEN Primary ELSE r.arg)
    [] r.op = "trades" -> TradesAnswer(r.arg)
    [] r.op = "create" -> CreatedAnswer(NewAccount, r.arg)
    [] r.op = "reset" -> db.accounts[r.arg.id].start

Serve ==
  \E i \in Servable : LET r == net[i] IN
    /\ \/ Executes(r) /\ net' = Served(i, Payload(r)) /\ db' = [db EXCEPT !.accounts = Effect(r)]
       \/ ~Executes(r) /\ net' = Refused(i) /\ UNCHANGED db
    /\ UNCHANGED <<ui, wire>>

\* Paper execution trades an account behind the page's back.
Trade(a, asset, side) ==
  /\ Len(db.accounts[a].trades) < MaxTrades
  /\ side = "sell" => db.accounts[a].position >= TradeSize
  /\ db' = LET sign == IF side = "buy" THEN 1 ELSE -1 IN
           [db EXCEPT !.accounts[a].cash = @ - sign * TradeSize - TradeFee,
                      !.accounts[a].position = @ + sign * TradeSize,
                      !.accounts[a].trades = Append(@, [account |-> a, asset |-> asset, side |-> side,
                                               notional |-> TradeSize, fee |-> TradeFee])]
  /\ UNCHANGED <<ui, net, wire>>

----------------------------------------------------------------------------
(* Loads, and the effect on the active account's id. *)

\* The confirmation covers the page: its controls take no click while it is open.
PageFree == CanClick /\ ~ui.confirmOpen

StartTrades(view) == [view EXCEPT !.tradesLoading = TRUE, !.tradesError = FALSE]

TradesRequest(account, filter) == [account |-> account, filter |-> filter]

\* Mutant: an effect that runs for the first account only.
FirstIdOnly(view) == view.account # Null /\ ui.account = Null

\* After a step that makes view of ui: a new account id loads its unfiltered trades.
IdChanged(view) ==
  view.account # Null /\ (ui.account = Null \/ ui.account[1].id # view.account[1].id)

Render(view, rest) ==
  /\ ui' = IF IdChanged(view) THEN StartTrades(view) ELSE view
  /\ net' = IF IdChanged(view)
            THEN Issue(rest, "trades", TradesRequest(view.account[1].id, NoFilter)) ELSE rest
  /\ UNCHANGED <<db, wire>>

\* Load, load primary and refresh are never disabled.
LoadAccount(id) ==
  /\ PageFree
  /\ Render([Clicked EXCEPT !.loading = TRUE, !.pageError = FALSE], Issue(net, "account", id))

LoadTrades(filter) ==
  /\ PageFree /\ ui.account # Null
  /\ ui' = StartTrades([Clicked EXCEPT !.filter = filter])
  /\ net' = Issue(net, "trades", TradesRequest(ui.account[1].id, filter))
  /\ UNCHANGED <<db, wire>>

\* Apply and clear wait for the running load; retry does not.
ApplyFilters(filter) == ~ui.tradesLoading /\ LoadTrades(filter)
RetryTrades == ui.tradesError /\ LoadTrades(ui.filter)

\* The form is refused on the page below the small-account floor.
CreateAccount(balance) ==
  /\ PageFree /\ ~ui.creating
  /\ IF balance < MinBalance
     THEN Render([Clicked EXCEPT !.formError = TRUE], net)
     ELSE Render([Clicked EXCEPT !.creating = TRUE, !.formError = FALSE], Issue(net, "create", balance))

ToggleConfirm ==
  /\ CanClick /\ (ui.confirmOpen \/ ui.account # Null)
  /\ Render([Clicked EXCEPT !.confirmOpen = ~@], net)

ConfirmReset ==
  /\ CanClick /\ ui.confirmOpen /\ ~ui.resetting
  /\ IF ui.account = Null
     THEN Render([Clicked EXCEPT !.resetError = TRUE], net)
     ELSE Render([Clicked EXCEPT !.resetting = TRUE, !.resetError = FALSE],
                 Issue(net, "reset", ui.account[1]))

----------------------------------------------------------------------------
(* Answers. *)

Activated(view, account) ==
  [view EXCEPT !.account = <<account>>, !.selected = account.id, !.resetError = FALSE]

DeliverAccount(r, rest) ==
  /\ r.op = "account"
  /\ Render(IF r.ok THEN Activated([ui EXCEPT !.loading = FALSE], r.val[1])
            ELSE [ui EXCEPT !.loading = FALSE, !.pageError = TRUE, !.account = Null,
                            !.trades = <<>>],
            rest)

DeliverTrades(r, rest) ==
  /\ r.op = "trades"
  /\ Render([ui EXCEPT !.tradesLoading = FALSE, !.tradesError = @ \/ ~r.ok,
                       !.trades = IF r.ok THEN r.val[1] ELSE <<>>],
            rest)

DeliverCreate(r, rest) ==
  /\ r.op = "create"
  /\ Render(IF r.ok THEN Activated([ui EXCEPT !.creating = FALSE, !.pageError = FALSE], r.val[1])
            ELSE [ui EXCEPT !.creating = FALSE, !.formError = TRUE],
            rest)

\* The reset account is the one the handler's closure holds, with the new cash.
DeliverReset(r, rest) ==
  /\ r.op = "reset"
  /\ Render(IF r.ok
            THEN [ui EXCEPT !.resetting = FALSE, !.pageError = FALSE, !.confirmOpen = FALSE,
                            !.account = <<[r.arg EXCEPT !.cash = r.val[1]]>>]
            ELSE [ui EXCEPT !.resetting = FALSE, !.resetError = TRUE],
            rest)

Deliver ==
  \E i \in Deliverable : LET r == net[i] rest == Handled(i) IN
    DeliverAccount(r, rest) \/ DeliverTrades(r, rest) \/ DeliverCreate(r, rest) \/ DeliverReset(r, rest)

PaperNext ==
  \/ \E id \in {NoId, "A", "B"} : LoadAccount(id)
  \/ \E filter \in Filters : ApplyFilters(filter)
  \/ \E balance \in Balances : CreateAccount(balance)
  \/ \E a \in DOMAIN db.accounts, asset \in PaperAssets, side \in {"buy", "sell"} : Trade(a, asset, side)
  \/ RetryTrades \/ ToggleConfirm \/ ConfirmReset \/ Deliver \/ Serve \/ RequestFails

----------------------------------------------------------------------------
(* What the page computes from the account and the trades it shows. *)

\* The running balance: from the starting balance, a point per trade in order of
\* execution, and the account's equity snapshot last.
Timeline(account, trades) ==
  LET past == Reverse(trades)
      moved[i \in 0..Len(past)] ==
        IF i = 0 THEN account.start
        ELSE moved[i - 1] + (IF past[i].side = "sell" THEN past[i].notional ELSE -past[i].notional)
                          - past[i].fee
  IN  [i \in 1..(Len(past) + 2) |-> IF i = Len(past) + 2 THEN account.equity ELSE moved[i - 1]]

ShownTimeline == IF ui.account = Null THEN <<>> ELSE Timeline(ui.account[1], ui.trades)

\* One pass over the points with a rolling peak, remembering where it was worst.
Drawdown(points) ==
  LET step[i \in 1..Len(points)] ==
        IF i = 1 THEN [peak |-> points[1], top |-> points[1], bottom |-> points[1], worst |-> 0]
        ELSE LET before == step[i - 1]
                 peak == IF points[i] > before.peak THEN points[i] ELSE before.peak
             IN  IF peak - points[i] > before.worst
                 THEN [peak |-> peak, top |-> peak, bottom |-> points[i], worst |-> peak - points[i]]
                 ELSE [before EXCEPT !.peak = peak]
  IN  IF points = <<>> THEN [peak |-> 0, top |-> 0, bottom |-> 0, worst |-> 0]
      ELSE step[Len(points)]

\* Steps of the timeline inside a band of three percent of the previous point.
StableSteps(points) ==
  {i \in 2..Len(points) :
     LET move == points[i] - points[i - 1]
         size == IF move < 0 THEN -move ELSE move
         base == IF points[i - 1] > 0 THEN points[i - 1] ELSE 1
     IN  100 * size <= 3 * base}

RisingSteps(points) == {i \in 2..Len(points) : points[i] >= points[i - 1]}

NetReturn == IF ui.account = Null THEN 0 ELSE ui.account[1].equity - ui.account[1].start

----------------------------------------------------------------------------
(* Properties. *)

\* On an ordered wire, once every answer has come and no trade load failed, the
\* trades shown are those of the active account, although accounts are loaded,
\* created and reset while trades are on their way.
PaperTradesOfAccount ==
  wire = "ordered" /\ net = <<>> /\ ui.account # Null =>
    \A i \in DOMAIN ui.trades : ui.trades[i].account = ui.account[1].id

\* The drawdown is the deepest fall from an earlier point of the timeline,
\* and there is none exactly when no step falls.
DrawdownIsDeepest ==
  LET points == ShownTimeline
      places == {p \in (DOMAIN points) \times (DOMAIN points) : p[1] <= p[2]}
      found == Drawdown(points)
  IN  /\ found.worst = Max({points[p[1]] - points[p[2]] : p \in places} \cup {0})
      /\ found.worst = 0 <=> RisingSteps(points) = 2..Len(points)
      /\ found.top - found.bottom = found.worst

\* What the page shows and computes is of the active account.
AnalyticsOfAccount == PaperTradesOfAccount /\ DrawdownIsDeepest
=============================================================================
