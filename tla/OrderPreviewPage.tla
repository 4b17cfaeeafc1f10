------------------------- MODULE OrderPreviewPage ---------------------------
(***************************************************************************)
(* The crypto-order-preview page over the API's previews: an estimate of a *)
(* typed order is generated, refreshed and cancelled.  The page keeps one  *)
(* client request id for every preview it generates, so that a repeated    *)
(* request finds the preview that an earlier one made.                     *)
(***************************************************************************)
EXTENDS PageRequests, TLC

CONSTANTS
  Connections,      \* the exchange connections: [id, provider, environment]
  PreviewAmounts,   \* quote sizes typed
  MaxWindow         \* bound on the idempotency windows that pass

PreviewInit ==
  /\ ui = [connections |-> <<>>, chosen |-> Null, amount |-> CHOOSE a \in PreviewAmounts : TRUE,
           side |-> "BUY", currency |-> "USD", latest |-> Null, error |-> FALSE, message |-> "none",
           loading |-> TRUE, generating |-> FALSE, refreshing |-> FALSE, cancelling |-> FALSE,
           clicks |-> 0]
  /\ net = Issue(<<>>, "load", Null)
  /\ db = [previews |-> <<>>, window |-> 0, failures |-> 0]
  /\ wire \in Wires

----------------------------------------------------------------------------
(* What the page shows of the latest preview. *)

Tone(status) ==
  IF status = "PREVIEW_READY" THEN "green"
  ELSE IF status \in {"RISK_REJECTED", "PREVIEW_FAILED"} THEN "red"
  ELSE IF status = "EXPIRED" THEN "amber" ELSE IF status = "CANCELLED" THEN "grey" ELSE "blue"

ResultSection == IF ui.latest = Null THEN "none" ELSE Tone(ui.latest[1].status)
EvidenceSection == IF ui.latest = Null THEN Null ELSE <<ui.latest[1].amount>>
Buttons ==
  [generate |-> ~ui.generating /\ ui.chosen # Null,
   refresh |-> ~ui.refreshing /\ ui.latest # Null, cancel |-> ~ui.cancelling /\ ui.latest # Null]

----------------------------------------------------------------------------
(* Handlers. *)

Type(view) == CanClick /\ ui' = view /\ UNCHANGED <<net, db, wire>>

\* Choosing BUY resets the currency.
ChooseSide(side) ==
  /\ side # ui.side
  /\ Type([Clicked EXCEPT !.side = side, !.currency = IF side = "BUY" THEN "USD" ELSE @])
ChooseCurrency(currency) == currency # ui.currency /\ Type([Clicked EXCEPT !.currency = currency])
TypeAmount(amount) == amount # ui.amount /\ Type([Clicked EXCEPT !.amount = amount])
ChooseConnection(i) ==
  /\ i \in DOMAIN ui.connections /\ <<ui.connections[i].id>> # ui.chosen
  /\ Type([Clicked EXCEPT !.chosen = <<ui.connections[i].id>>])

Ask(flag, op, arg) ==
  /\ CanClick
  /\ ui' = [Clicked EXCEPT ![flag] = TRUE, !.error = FALSE, !.message = "none"]
  /\ net' = Issue(net, op, arg)
  /\ UNCHANGED <<db, wire>>

\* The client request id is made once (request 0); a refresh makes a new one.
GeneratePreview ==
  /\ Buttons.generate
  /\ Ask("generating", "create",
         [connection |-> ui.chosen[1], amount |-> ui.amount, side |-> ui.side,
          currency |-> ui.currency, request |-> 0])

RefreshPreview ==
  Buttons.refresh /\ Ask("refreshing", "refresh", [id |-> ui.latest[1].id, request |-> ui.clicks + 1])

CancelPreview == Buttons.cancel /\ Ask("cancelling", "cancel", [id |-> ui.latest[1].id])

----------------------------------------------------------------------------
(* Answers. *)

Coinbase(rows) == SelectSeq(rows, LAMBDA c : c.provider = "coinbase_advanced")

DeliverLoad(r) ==
  /\ r.op = "load"
  /\ ui' = IF ~r.ok THEN [ui EXCEPT !.loading = FALSE, !.error = TRUE]
           ELSE LET rows == Coinbase(r.val[1].connections)
                IN  [ui EXCEPT !.loading = FALSE, !.connections = rows, !.latest = r.val[1].latest,
                               !.chosen = IF @ # Null \/ rows = <<>> THEN @ ELSE <<rows[1].id>>]

DeliverPreview(r, op, flag, message) ==
  /\ r.op = op
  /\ ui' = IF ~r.ok THEN [ui EXCEPT ![flag] = FALSE, !.error = TRUE]
           ELSE [ui EXCEPT ![flag] = FALSE, !.latest = r.val, !.message = message]

DeliverGenerated(r) == DeliverPreview(r, "create", "generating", "generated")
DeliverRefreshed(r) == DeliverPreview(r, "refresh", "refreshing", "refreshed")
DeliverCancelled(r) == DeliverPreview(r, "cancel", "cancelling", "cancelled")

Deliver ==
  /\ \E i \in Deliverable : LET r == net[i] IN
       /\ DeliverLoad(r) \/ DeliverGenerated(r) \/ DeliverRefreshed(r) \/ DeliverCancelled(r)
            \/ (r.op = "orphan" /\ UNCHANGED ui)
       /\ net' = Handled(i)
  /\ UNCHANGED <<db, wire>>

\* The connection of a request that is being served breaks: the page is told that
\* it failed, the API carries on.
ConnectionLost ==
  /\ db.failures < MaxFailures
  /\ \E i \in Servable :
       /\ net[i].op = "create"
       /\ ui' = [ui EXCEPT !.generating = FALSE, !.error = TRUE]
       /\ net' = [net EXCEPT ![i].op = "orphan"]
  /\ db' = [db EXCEPT !.failures = @ + 1]
  /\ UNCHANGED wire

----------------------------------------------------------------------------
(* The API.  A preview's place in the sequence is its id. *)

PreviewIds == DOMAIN db.previews

ComputedStatus(p) ==
  IF p.status \in {"CANCELLED", "PREVIEW_FAILED", "RISK_REJECTED"} THEN p.status
  ELSE IF p.expired THEN "EXPIRED" ELSE p.status

Response(id, p) == [id |-> id, amount |-> p.key.amount, status |-> ComputedStatus(p)]

ServeLoad(r, i) ==
  /\ r.op = "load"
  /\ LET n == Len(db.previews) IN
       net' = Served(i, [connections |-> Connections,
                         latest |-> IF n = 0 THEN Null ELSE <<Response(n, db.previews[n])>>])
  /\ UNCHANGED db

\* The hash of the request, the actor and the time window.
Key(arg) ==
  [connection |-> arg.connection, amount |-> arg.amount, request |-> arg.request, window |-> db.window]

\* The request of a refresh is that of the preview, under its own request id.
Requested(r) ==
  IF r.op = "refresh"
  THEN [db.previews[r.arg.id].key EXCEPT !.request = r.arg.request] @@ [side |-> "BUY", currency |-> "USD"]
  ELSE r.arg

Versions(key) == {id \in PreviewIds : db.previews[id].key = key}
Newest(key) ==
  CHOOSE id \in Versions(key) :
    \A other \in Versions(key) : db.previews[other].version <= db.previews[id].version
Alive(id) == ComputedStatus(db.previews[id]) = "PREVIEW_READY"

\* Unsellable (a sale needs a size in base currency, which the page never sends),
\* not quoted in dollars, or refused for the connection, the price or the balance;
\* the preview of an earlier request that is still alive; or a version to make.
LookUp(r, i) ==
  /\ r.op \in {"create", "orphan", "refresh"} /\ r.val = Null
  /\ LET arg == Requested(r)
         key == Key(arg)
         found == Versions(key) # {}
     IN  \/ net' = Refused(i)
         \/ /\ arg.side = "BUY" /\ arg.currency = "USD"
            /\ r.op = "refresh" => ComputedStatus(db.previews[r.arg.id]) # "CANCELLED"
            /\ net' = IF found /\ Alive(Newest(key))
                      THEN Served(i, Response(Newest(key), db.previews[Newest(key)]))
                      ELSE [net EXCEPT ![i].val =
                              <<[key |-> key,
                                 version |-> IF found THEN db.previews[Newest(key)].version + 1 ELSE 1]>>]
  /\ UNCHANGED db

\* Mutant: no constraint on the stored previews.
NeverTaken(made) == FALSE

\* The unique constraint on idempotency key and version.
Taken(made) == \E id \in PreviewIds : db.previews[id].key = made.key /\ db.previews[id].version = made.version

\* The risk engine rejects, or the exchange's preview fails or is ready.
StorePreview(r, i) ==
  /\ r.op \in {"create", "orphan", "refresh"} /\ r.val # Null
  /\ IF Taken(r.val[1]) THEN net' = Refused(i) /\ UNCHANGED db
     ELSE \E status \in {"RISK_REJECTED", "PREVIEW_FAILED", "PREVIEW_READY"} :
            LET made == [key |-> r.val[1].key, version |-> r.val[1].version, status |-> status,
                         expired |-> FALSE]
            IN  /\ net' = Served(i, Response(Len(db.previews) + 1, made))
                /\ db' = [db EXCEPT !.previews = Append(@, made)]

\* A preview is cancelled whatever its status.
ServeCancel(r, i) ==
  /\ r.op = "cancel"
  /\ LET cancelled == [db.previews[r.arg.id] EXCEPT !.status = "CANCELLED"] IN
       /\ net' = Served(i, Response(r.arg.id, cancelled))
       /\ db' = [db EXCEPT !.previews[r.arg.id] = cancelled]

Serve ==
  /\ \E i \in Servable : LET r == net[i] IN
       ServeLoad(r, i) \/ LookUp(r, i) \/ StorePreview(r, i) \/ ServeCancel(r, i)
  /\ UNCHANGED <<ui, wire>>

\* Time passes.
Expires(id) ==
  /\ ~db.previews[id].expired
  /\ db' = [db EXCEPT !.previews[id].expired = TRUE]
  /\ UNCHANGED <<ui, net, wire>>

NextWindow ==
  /\ db.window < MaxWindow
  /\ db' = [db EXCEPT !.window = @ + 1]
  /\ UNCHANGED <<ui, net, wire>>

PreviewNext ==
  \/ \E side \in {"BUY", "SELL"} : ChooseSide(side)
  \/ \E currency \in {"USD", "BTC"} : ChooseCurrency(currency)
  \/ \E amount \in PreviewAmounts : TypeAmount(amount)
  \/ \E i \in DOMAIN Connections : ChooseConnection(i)
  \/ GeneratePreview \/ RefreshPreview \/ CancelPreview
  \/ Deliver \/ ConnectionLost \/ Serve \/ RequestFails
  \/ \E id \in PreviewIds : Expires(id)
  \/ NextWindow

----------------------------------------------------------------------------
(* Property. *)

\* One request has at most one preview that is ready and has not expired, although
\* the operator repeats it while the API still carries out the first, and cancels
\* and refreshes previews meanwhile.
PreviewedOnce ==
  \A i, j \in PreviewIds :
    i # j /\ Alive(i) /\ Alive(j) => db.previews[i].key # db.previews[j].key
=============================================================================
