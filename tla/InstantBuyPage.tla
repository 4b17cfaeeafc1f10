-------------------------- MODULE InstantBuyPage ----------------------------
(***************************************************************************)
(* The instant-buy card over the API's instant trades: an amount typed and *)
(* confirmed is bought at once under an idempotency key that the page      *)
(* makes when it is mounted.  The button stays enabled while a purchase is *)
(* under way, so purchases overlap; the API takes several steps for each,  *)
(* with a commit before the exchange is asked, and may die between them.   *)
(***************************************************************************)
EXTENDS PageRequests

CONSTANTS
  Connections,   \* the exchange connections: [id, provider, environment]
  BuyAmounts,    \* amounts typed
  BuyKeys        \* idempotency keys; the page makes one of them

InstantInit ==
  /\ ui = [connections |-> <<>>, chosen |-> Null, amount |-> CHOOSE a \in BuyAmounts : TRUE,
           key |-> CHOOSE k \in BuyKeys : TRUE, confirmed |-> FALSE, status |-> "IDLE",
           receipt |-> Null, polling |-> FALSE, error |-> FALSE, message |-> "none",
           loading |-> TRUE, clicks |-> 0]
  /\ net = Issue(<<>>, "connections", Null)
  /\ db = [orders |-> <<>>, exchange |-> <<>>, accepted |-> <<>>, failures |-> 0]
  /\ wire \in Wires

\* The price hints give an estimate to any positive amount, one in fees of 0.4 %.
EstimatedFees == IF ui.amount > 0 THEN (ui.amount * 4) \div 1000 ELSE 0
CanAdopt == ui.receipt # Null /\ ui.receipt[1].status = "FILLED"
ShownOrder == IF ui.receipt = Null THEN Null ELSE <<ui.receipt[1].order>>

----------------------------------------------------------------------------
(* Handlers.  The amount and the confirmation cost no click. *)

Type(view) == ui' = view /\ UNCHANGED <<net, db, wire>>

TypeAmount(amount) == amount # ui.amount /\ Type([ui EXCEPT !.amount = amount])
Confirm == Type([ui EXCEPT !.confirmed = ~@])
TypeKey(key) == CanClick /\ key # ui.key /\ Type([Clicked EXCEPT !.key = key])
ChooseConnection(i) ==
  /\ CanClick /\ i \in DOMAIN ui.connections /\ <<ui.connections[i].id>> # ui.chosen
  /\ Type([Clicked EXCEPT !.chosen = <<ui.connections[i].id>>])

BuyNow ==
  /\ CanClick
  /\ IF ui.chosen = Null \/ ~ui.confirmed
     THEN ui' = [Clicked EXCEPT !.error = TRUE] /\ UNCHANGED net
     ELSE /\ ui' = [Clicked EXCEPT !.error = FALSE, !.message = "none", !.status = "SUBMITTING"]
          /\ net' = Issue(net, "buy", [key |-> ui.key, amount |-> ui.amount])
  /\ UNCHANGED <<db, wire>>

Adopt ==
  /\ CanClick /\ CanAdopt
  /\ ui' = Clicked
  /\ net' = Issue(net, "adopt", ui.receipt[1].order)
  /\ UNCHANGED <<db, wire>>

\* The interval; one poll in flight is enough for its answers to come late.
PollTick ==
  /\ ui.polling /\ ui.receipt # Null /\ ~Pending("get")
  /\ net' = Issue(net, "get", ui.receipt[1].order)
  /\ UNCHANGED <<ui, db, wire>>

----------------------------------------------------------------------------
(* Answers. *)

Eligible(rows) == SelectSeq(rows, LAMBDA c : c.provider = "kraken_spot" /\ c.environment = "production")

DeliverConnections(r) ==
  /\ r.op = "connections"
  /\ ui' = IF ~r.ok THEN [ui EXCEPT !.loading = FALSE, !.error = TRUE]
           ELSE LET rows == Eligible(r.val[1])
                IN  [ui EXCEPT !.loading = FALSE, !.connections = rows,
                               !.chosen = IF rows = <<>> THEN Null ELSE <<rows[1].id>>]

\* A purchase that failed for the page may still have been made.
DeliverBuy(r) ==
  /\ r.op = "buy"
  /\ LET unsettled == r.ok /\ r.val[1].status \in {"PENDING", "RECONCILIATION_REQUIRED"}
     IN  ui' = IF ~r.ok THEN [ui EXCEPT !.status = "FAILED", !.polling = FALSE, !.error = TRUE]
               ELSE [ui EXCEPT !.receipt = r.val, !.status = r.val[1].status, !.polling = unsettled,
                               !.message = IF unsettled THEN "polling" ELSE @]

\* The answer of a poll is taken whichever order is shown by then.
DeliverGet(r) ==
  /\ r.op = "get"
  /\ ui' = IF ~r.ok THEN [ui EXCEPT !.error = TRUE]
           ELSE [ui EXCEPT !.receipt = r.val, !.status = r.val[1].status,
                           !.polling = @ /\ r.val[1].status \notin {"FILLED", "REJECTED", "FAILED"}]

DeliverAdopt(r) ==
  /\ r.op = "adopt"
  /\ ui' = IF ~r.ok THEN [ui EXCEPT !.error = TRUE]
           ELSE [ui EXCEPT !.receipt = r.val, !.message = "adopted"]

Deliver ==
  /\ \E i \in Deliverable : LET r == net[i] IN
       /\ DeliverConnections(r) \/ DeliverBuy(r) \/ DeliverGet(r) \/ DeliverAdopt(r)
       /\ net' = Handled(i)
  /\ UNCHANGED <<db, wire>>

----------------------------------------------------------------------------
(* The API.  An order's place in the sequence is its internal id. *)

OrderIds == DOMAIN db.orders
Terminal == {"FILLED", "REJECTED", "CANCELLED", "PARTIALLY_FILLED"}

\* A partially filled order is terminal to the API and pending to the page.
Lifecycle(status) ==
  CASE status \in {"FILLED", "RECONCILIATION_REQUIRED"} -> status
    [] status \in {"REJECTED", "CANCELLED"} -> "REJECTED"
    [] OTHER -> "PENDING"

Receipt(id, status) == [order |-> id, status |-> Lifecycle(status)]

\* The orders of this very request (of its client order id).
Same(request) ==
  {id \in OrderIds : db.orders[id].key = request.key /\ db.orders[id].amount = request.amount}

\* The orders of this very request, or else of its key.
Existing(request) ==
  IF Same(request) # {} THEN Same(request) ELSE {id \in OrderIds : db.orders[id].key = request.key}

At(i, step, id) == [net EXCEPT ![i].val = <<[step |-> step, order |-> id]>>]

\* What the exchange says decides.  A pass that fails or times out is answered as
\* RECONCILIATION_REQUIRED, which is flushed and rolled back.
Reconciled(id) ==
  CASE db.exchange[id] = "none" -> {"RECONCILIATION_REQUIRED"}
    [] db.exchange[id] = "open" -> {"ACKNOWLEDGED"}
    [] db.exchange[id] = "partial" -> {"PARTIALLY_FILLED"}
    [] db.exchange[id] = "filled" -> {"FILLED", "RECONCILIATION_REQUIRED"}

BoundedReconcile(i, id) ==
  IF db.orders[id].status \in Terminal
  THEN net' = Served(i, Receipt(id, db.orders[id].status)) /\ UNCHANGED db
  ELSE \/ net' = Served(i, Receipt(id, "RECONCILIATION_REQUIRED")) /\ UNCHANGED db
       \/ \E status \in Reconciled(id) :
            /\ net' = Served(i, Receipt(id, status))
            /\ db' = [db EXCEPT !.orders[id].status = status]

ServeConnections(r, i) ==
  r.op = "connections" /\ net' = Served(i, Connections) /\ UNCHANGED db

Resumable(id) == db.orders[id].status = "REJECTED" /\ db.orders[id].legacy

\* Rows found are locked: a purchase that resumes one holds the lock until its commit.
Locked(id) == \E j \in DOMAIN net : ~net[j].back /\ net[j].val = <<[step |-> "checked", order |-> id]>>

LookUp(r, i) ==
  /\ r.op = "buy" /\ r.val = Null
  /\ \/ /\ Existing(r.arg) = {}
        /\ net' = At(i, "checked", 0) /\ UNCHANGED db
     \/ \E id \in Existing(r.arg) :
          /\ ~Locked(id)
          /\ IF db.orders[id].amount # r.arg.amount THEN net' = Refused(i) /\ UNCHANGED db
             ELSE IF Resumable(id) THEN net' = At(i, "checked", id) /\ UNCHANGED db
             ELSE BoundedReconcile(i, id)

\* The balance, the kill switches, the exchange's preview or the risk engine refuse;
\* or the order is stored and committed, unless one with its client order id was
\* stored since it was looked for.
StoreOrder(r, i) ==
  /\ r.op = "buy" /\ r.val # Null /\ r.val[1].step = "checked"
  /\ \/ net' = Refused(i) /\ UNCHANGED db
     \/ LET id == r.val[1].order IN
        IF id # 0
        THEN /\ net' = At(i, "stored", id)
             /\ db' = [db EXCEPT !.orders[id].status = "SUBMISSION_PENDING"]
        ELSE IF Same(r.arg) # {} THEN net' = Refused(i) /\ UNCHANGED db
        ELSE /\ net' = At(i, "stored", Len(db.orders) + 1)
             /\ db' = [db EXCEPT !.orders = Append(@, [key |-> r.arg.key, amount |-> r.arg.amount,
                                                       status |-> "SUBMISSION_PENDING", legacy |-> FALSE,
                                                       adopted |-> FALSE]),
                                 !.exchange = Append(@, "none"), !.accepted = Append(@, 0)]

\* The exchange accepts the order or not, and the API hears so or not.
Recorded(id, status, accepts, legacy) ==
  db' = [db EXCEPT !.orders[id].status = status, !.orders[id].legacy = legacy,
                   !.exchange[id] = IF accepts THEN "open" ELSE @,
                   !.accepted[id] = IF accepts THEN @ + 1 ELSE @]

Submit(r, i) ==
  /\ r.op = "buy" /\ r.val # Null /\ r.val[1].step = "stored"
  /\ LET id == r.val[1].order IN
       \/ Recorded(id, "ACKNOWLEDGED", TRUE, FALSE) /\ net' = At(i, "recorded", id)
       \/ \E legacy \in BOOLEAN :
            Recorded(id, "REJECTED", FALSE, legacy) /\ net' = At(i, "recorded", id)
       \/ \E accepts \in BOOLEAN : \* an ambiguous answer
            Recorded(id, "RECONCILIATION_REQUIRED", accepts, FALSE) /\ net' = At(i, "recorded", id)
       \/ \E accepts \in BOOLEAN : \* no answer in time
            /\ Recorded(id, "RECONCILIATION_REQUIRED", accepts, FALSE)
            /\ net' = Served(i, Receipt(id, "RECONCILIATION_REQUIRED"))

AnswerBuy(r, i) ==
  /\ r.op = "buy" /\ r.val # Null /\ r.val[1].step = "recorded"
  /\ BoundedReconcile(i, r.val[1].order)

ServeGet(r, i) ==
  /\ r.op = "get"
  /\ net' = Served(i, Receipt(r.arg, db.orders[r.arg].status))
  /\ UNCHANGED db

ServeAdopt(r, i) ==
  /\ r.op = "adopt"
  /\ IF db.orders[r.arg].status \in {"FILLED", "PARTIALLY_FILLED"}
     THEN /\ net' = Served(i, Receipt(r.arg, db.orders[r.arg].status))
          /\ db' = [db EXCEPT !.orders[r.arg].adopted = TRUE]
     ELSE net' = Refused(i) /\ UNCHANGED db

Serve ==
  /\ \E i \in Servable : LET r == net[i] IN
       \/ ServeConnections(r, i) \/ ServeGet(r, i) \/ ServeAdopt(r, i)
       \/ LookUp(r, i) \/ StoreOrder(r, i) \/ Submit(r, i) \/ AnswerBuy(r, i)
  /\ UNCHANGED <<ui, wire>>

\* The reconciliation scheduler takes up what is not terminal; the exchange trades.
Scheduled(id) ==
  /\ db.orders[id].status \in {"SUBMISSION_PENDING", "ACKNOWLEDGED", "RECONCILIATION_REQUIRED"}
  /\ \E status \in Reconciled(id) : db' = [db EXCEPT !.orders[id].status = status]
  /\ UNCHANGED <<ui, net, wire>>

ExchangeTrades(id) ==
  /\ db.exchange[id] = "open"
  /\ \E state \in {"partial", "filled"} : db' = [db EXCEPT !.exchange[id] = state]
  /\ UNCHANGED <<ui, net, wire>>

InstantNext ==
  \/ \E amount \in BuyAmounts : TypeAmount(amount)
  \/ \E key \in BuyKeys : TypeKey(key)
  \/ \E i \in DOMAIN Connections : ChooseConnection(i)
  \/ Confirm \/ BuyNow \/ Adopt \/ PollTick
  \/ Deliver \/ Serve \/ RequestFails
  \/ \E id \in OrderIds : Scheduled(id) \/ ExchangeTrades(id)

----------------------------------------------------------------------------
(* Property. *)

\* However often the button is pressed, answers are lost and the API dies between
\* its steps, the exchange accepts an order at most once, and at most one order per
\* idempotency key; only two purchases served at the same time, with one key and
\* two amounts, can become two orders.
BoughtOnce ==
  /\ \A id \in OrderIds : db.accepted[id] <= 1
  /\ \A i, j \in OrderIds :
       i # j /\ db.orders[i].key = db.orders[j].key /\ db.accepted[i] + db.accepted[j] = 2 =>
         wire = "unordered" /\ db.orders[i].amount # db.orders[j].amount
=============================================================================
