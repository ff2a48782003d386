---------------------------- MODULE SellLifecycle ----------------------------
(***************************************************************************)
(* The sell order of one user's position in one symbol: placed at market   *)
(* open, followed every minute by monitor_and_update of sell_engine.py,    *)
(* corrected, replaced, converted or deferred, and at last executed.       *)
(*                                                                         *)
(* A DAY order lives at the broker (external), as a row of the orders      *)
(* table, and in the memory of the engine (active_sell_orders); what it    *)
(* sells lives in the positions table.  No transaction spans them: the     *)
(* broker, the user in the broker's own application, the status verifier   *)
(* and a restart come between any two steps of a cycle.                    *)
(*                                                                         *)
(* Prices are left out: a target above the circuit limit, a falling EMA9   *)
(* and an RSI10 above 50 may occur at any time the scenario allows them.   *)
(* An order fills completely or not at all.                                *)
(*                                                                         *)
(* Definitions named Mut... are deliberately wrong forms of the definition *)
(* that follows them; no action uses them (see the README).                *)
(***************************************************************************)
EXTENDS Integers, FiniteSets, Totals

CONSTANTS
    MaxOrders,   \* bound: sell orders in one behaviour
    Shares,      \* shares of the position at the start
    Added,       \* shares of a further buy
    LastDay,     \* bound: trading days
    MaxEvents,   \* bound: buys, restarts and acts of the user
    Exposures    \* the combinations of events to explore

EventKinds == {"userCancel", "userSale", "circuit", "outage", "modifyFails",
               "placeFails", "buy", "rsi", "crash"}

ASSUME SellAssumption == /\ MaxOrders \in Nat \ {0} /\ Shares \in Nat \ {0}
                         /\ Added \in Nat \ {0} /\ LastDay \in Nat \ {0} /\ MaxEvents \in Nat
                         /\ Exposures \subseteq SUBSET EventKinds

Orders == 1 .. MaxOrders

VARIABLES
    day, open,   \* the trading day, and whether the market is open
    book,        \* the broker's record of each sell order
    held,        \* shares of the symbol in the account
    fresh,       \* shares bought that the buy monitor has not recorded yet
    pos,         \* DURABLE: the positions row
    row,         \* DURABLE: status of each order's row in the orders table
    defer,       \* DURABLE: quantity of the circuit_defer row
    active,      \* active_sell_orders
    waiting,     \* waiting_for_circuit_expansion, as a quantity
    converted,   \* the symbol is in converted_to_market
    verified,    \* the verifier's EXECUTED results
    pc,          \* the step the engine takes next
    report,      \* the cycle's order report
    sales,       \* completed untracked sales of the report, to be handled
    events, exposed

market == <<day, open, book, held, fresh>>
tables == <<pos, row, defer>>
memory == <<active, waiting, converted, verified>>
locals == <<report, sales>>
vars   == <<market, tables, memory, pc, locals, events, exposed>>

-----------------------------------------------------------------------------
(* The broker *)

NoOrder  == [st |-> "none", qty |-> 0, on |-> 0, by |-> "none"]
Live(b)  == {o \in Orders : b[o].st = "open"}
Load(b)  == Total([o \in Orders |-> b[o].qty], Live(b))
Free(b)  == held - Load(b)
Refused  == {"noShares", "circuit"}
Spare    == {o \in Orders : book[o].st = "none" /\ \A p \in 1 .. o - 1 : book[p].st # "none"}

\* Shares that open orders have reserved cannot be sold twice; a price beyond
\* the circuit limit is refused after the order was accepted.
Answers(b, q) == IF q <= Free(b) THEN {"open"} \cup ({"circuit"} \cap exposed) ELSE {"noShares"}

Entered(b, o, q, st, who) == [b EXCEPT ![o] = [st |-> st, qty |-> q, on |-> day, by |-> who]]
Enter(b, q, o) == \E st \in Answers(b, q) : book' = Entered(b, o, q, st, "system")

Happens(kind) == kind \in exposed /\ events < MaxEvents /\ events' = events + 1

Fill(o) ==
    /\ open /\ book[o].st = "open"
    /\ book' = [book EXCEPT ![o].st = "complete"]
    /\ held' = held - book[o].qty
    /\ UNCHANGED <<day, open, fresh, tables, memory, pc, locals, events, exposed>>

UserCancel(o) ==
    /\ open /\ book[o].st = "open" /\ Happens("userCancel")
    /\ book' = [book EXCEPT ![o].st = "cancelled"]
    /\ UNCHANGED <<day, open, held, fresh, tables, memory, pc, locals, exposed>>

\* The user sells in the broker's own application, at the market price.
UserSale(q) ==
    /\ open /\ q <= Free(book) /\ Happens("userSale")
    /\ \E o \in Spare : book' = Entered(book, o, q, "complete", "user")
    /\ held' = held - q
    /\ UNCHANGED <<day, open, fresh, tables, memory, pc, locals, exposed>>

\* A re-entry into the position, or a new entry after it was closed, fills.
BuyFills ==
    /\ open /\ fresh = 0 /\ Happens("buy")
    /\ held' = held + Added
    /\ fresh' = Added
    /\ UNCHANGED <<day, open, book, tables, memory, pc, locals, exposed>>

CloseMarket ==
    /\ open /\ pc = "idle"
    /\ open' = FALSE
    /\ UNCHANGED <<day, book, held, fresh, tables, memory, pc, locals, events, exposed>>

\* DAY orders lapse; the service opens the next day with the memory it has.
NextDay ==
    /\ ~open /\ day < LastDay
    /\ day' = day + 1 /\ open' = TRUE
    /\ book' = [o \in Orders |-> IF o \in Live(book) THEN [book[o] EXCEPT !.st = "cancelled"]
                                                     ELSE book[o]]
    /\ pc' = "morning"
    /\ UNCHANGED <<held, fresh, tables, memory, locals, events, exposed>>

-----------------------------------------------------------------------------
(* Placing, changing and following an order *)

NoSell      == [id |-> 0, qty |-> 0]
Tracking    == active # NoSell
Track(o, q) == active' = [id |-> o, qty |-> q]

MutUntrack == UNCHANGED active                 \* an order that ended stays in memory
Untrack == active' = NoSell

MutNewRow(base, o) == base                     \* the order is placed, no row is written
NewRow(base, o) == [base EXCEPT ![o] = "pending"]

Withdrawn(o) == [book EXCEPT ![o].st = "cancelled"]

\* place_sell_order: an order with its row; or a deferral when the target is
\* known to lie beyond the limit; or nothing.
PlaceSell(q, followed, base) ==
    \/ \E o \in Spare :
           /\ Enter(book, q, o)
           /\ row' = NewRow(base, o)
           /\ IF followed THEN Track(o, q) ELSE Untrack
           /\ UNCHANGED <<waiting, defer>>
    \/ /\ "circuit" \in exposed
       /\ waiting' = q /\ defer' = q
       /\ Untrack /\ row' = base /\ UNCHANGED book
    \/ /\ "placeFails" \in exposed \/ Spare = {}
       /\ Untrack /\ row' = base
       /\ UNCHANGED <<book, waiting, defer>>

Modifiable(o, q) == book[o].st = "open" /\ q <= Free(Withdrawn(o))

\* update_sell_order: modify, or else _cancel_and_replace_order, whose new
\* order has no row; a sale that is over can be neither.  The replacement is
\* registered; some callers then register, with the new quantity, the id they
\* had asked to change.
UpdateSell(o, q, registers) ==
    \/ /\ Modifiable(o, q)
       /\ book' = [book EXCEPT ![o].qty = q]
       /\ IF registers THEN Track(o, q) ELSE UNCHANGED active
    \/ /\ book[o].st = "open" /\ (Modifiable(o, q) => "modifyFails" \in exposed)
       /\ \/ \E n \in Spare : /\ Enter(Withdrawn(o), q, n)
                              /\ IF registers THEN Track(o, q) ELSE Track(n, q)
          \/ /\ "placeFails" \in exposed \/ Spare = {}
             /\ book' = Withdrawn(o) /\ UNCHANGED active
    \/ /\ book[o].st # "open"
       /\ UNCHANGED <<book, active>>

-----------------------------------------------------------------------------
(* Reading the tables and the reports *)

NoPosition == [open |-> FALSE, qty |-> 0, since |-> 0, last |-> 0, first |-> 1]
CloseIf(c) == IF c THEN NoPosition ELSE pos
Bought(q)  == IF pos.open THEN [pos EXCEPT !.qty = @ + q, !.last = day]
              ELSE [open |-> TRUE, qty |-> q, since |-> day, last |-> day,
                    first |-> 1 + Cardinality({o \in Orders : book[o].st # "none"})]

Outage == "outage" \in exposed

\* get_open_positions: what can be sold of an open position, by the shares the broker
\* reports; reports of holdings and positions that both fail count as none.
Sellable(shares) == IF ~pos.open THEN 0
                    ELSE IF shares > 0 THEN (IF pos.qty < shares THEN pos.qty ELSE shares)
                    ELSE IF pos.since = day THEN pos.qty ELSE 0
Listings == {Sellable(held)} \cup IF Outage THEN {Sellable(0)} ELSE {}

MutExisting == {}                              \* the order book is not asked
\* get_existing_sell_orders keeps the last open order; a failed report reads
\* as no orders.
Existing  == {o \in Live(book) : \A p \in Live(book) : p <= o}

Today     == {o \in Orders : book[o].on = day}
Complete  == {o \in Today : book[o].st = "complete"}
Pending   == {o \in Orders : row[o] = "pending"}

\* has_completed_sell_order: the verifier's results first, then any completed
\* sale of the symbol in the report.
SaleKnown(sold) == verified # {} \/ sold # {}

\* A refusal for want of shares means that the position was sold elsewhere.
MutGone(o) == book[o].st # "open"              \* any order that has ended
Gone(o) == book[o].st = "noShares"

At(step, next) == /\ open /\ pc = step /\ pc' = next
                  /\ UNCHANGED <<day, open, held, events, exposed>>

-----------------------------------------------------------------------------
(* Market open: run_at_market_open *)

\* _restore_circuit_defer_queue
Restored == IF defer > 0 THEN defer ELSE waiting

\* _reconcile_positions_with_broker_holdings, which leaves a position alone
\* that opened today, was bought lately, or has a pending sell row of any day.
Reconcilable == pos.open /\ pos.last # day /\ fresh = 0 /\ Pending = {}

Reconcile ==
    /\ At("morning", "orphans")
    /\ waiting' = Restored
    /\ \/ /\ Reconcilable /\ held < pos.qty
          /\ pos' = IF held = 0 THEN NoPosition ELSE [pos EXCEPT !.qty = held]
       \/ /\ Reconcilable /\ held < pos.qty => Outage
          /\ UNCHANGED pos
    /\ UNCHANGED <<book, fresh, row, defer, active, converted, verified, locals>>

Orphan(o) == row[o] = "pending" /\ ~pos.open

\* _cancel_orphaned_sell_orders
CancelOrphans ==
    /\ At("orphans", "opening")
    /\ book' = [o \in Orders |-> IF Orphan(o) /\ book[o].st = "open"
                                 THEN [book[o] EXCEPT !.st = "cancelled"] ELSE book[o]]
    /\ row' = [o \in Orders |-> IF Orphan(o) THEN "cancelled" ELSE row[o]]
    /\ UNCHANGED <<fresh, pos, defer, memory, locals>>

\* Once the first minutes of the session are over, a service that starts does neither.
Resume ==
    /\ At("restart", "opening")
    /\ waiting' = Restored
    /\ UNCHANGED <<book, fresh, tables, active, converted, verified, locals>>

MutWithRow(o) == [row EXCEPT ![o] = book[o].st]   \* the broker's word for it
WithRow(o) == [row EXCEPT ![o] = IF @ = "none" THEN "pending" ELSE @]

\* A completed sale is only taken off the tracking; an order that is there is
\* followed, or enlarged; otherwise the order of the day is placed.
Opening ==
    /\ At("opening", "tidy")
    /\ \E listed \in Listings :
       \/ /\ listed = 0
          /\ UNCHANGED <<book, row, active, waiting, defer>>
       \/ /\ listed > 0 /\ SaleKnown(Complete)
          /\ Untrack /\ UNCHANGED <<book, row, waiting, defer>>
       \/ /\ listed > 0 /\ ~SaleKnown(Complete)
          /\ \E o \in Existing :
                /\ row' = WithRow(o)
                /\ IF listed > book[o].qty THEN UpdateSell(o, pos.qty, TRUE)
                   ELSE Track(o, book[o].qty) /\ UNCHANGED book
          /\ UNCHANGED <<waiting, defer>>
       \/ /\ listed > 0 /\ ~SaleKnown(Complete) /\ (Existing = {} \/ Outage)
          /\ PlaceSell(listed, TRUE, row)
    /\ UNCHANGED <<fresh, pos, converted, verified, locals>>

-----------------------------------------------------------------------------
(* A minute: the buy monitor, then monitor_and_update *)

\* _create_position_from_executed_order: the order of a position that grew is
\* enlarged, what the engine remembers of it is not.
RecordBuy ==
    /\ At("idle", "adopt")
    /\ \/ /\ fresh = 0
          /\ UNCHANGED <<pos, book, active>>
       \/ /\ fresh > 0
          /\ pos' = Bought(fresh)
          /\ \/ /\ pos.open
                /\ \E o \in Existing : UpdateSell(o, pos.qty + fresh, FALSE)
             \/ /\ ~pos.open \/ Existing = {} \/ Outage
                /\ UNCHANGED <<book, active>>
    /\ fresh' = 0
    /\ UNCHANGED <<row, defer, waiting, converted, verified, locals>>

\* _detect_and_track_pending_manual_sell_orders: the last open order that is
\* not tracked replaces the one that is.
Adopt ==
    /\ At("adopt", "clean")
    /\ \E listed \in Listings :
       \/ /\ listed > 0
          /\ \E o \in Live(book) \ {active.id} :
                /\ \A p \in Live(book) \ {active.id} : p <= o
                /\ Track(o, book[o].qty)
       \/ /\ listed = 0 \/ Live(book) \subseteq {active.id} \/ Outage
          /\ UNCHANGED active
    /\ UNCHANGED <<book, fresh, tables, waiting, converted, verified, locals>>

\* _remove_rejected_orders, on a report of its own.  (No order that executed is cancelled,
\* so _reopen_positions_for_cancelled_sell_orders finds none.)
Mine == IF Tracking THEN book[active.id] ELSE NoOrder
CleanUp ==
    LET o       == active.id
        ended(st) == [row EXCEPT ![o] = IF @ = "none" THEN @ ELSE st] IN
    \/ /\ Mine.on # day \/ Mine.st \in {"open", "complete"} \/ Outage
       /\ UNCHANGED <<book, tables, active, waiting>>
    \/ /\ Mine.on = day /\ Mine.st \in Refused
       /\ Untrack
       /\ row' = ended("failed")
       /\ pos' = CloseIf(Gone(o) /\ row[o] # "none")
       /\ \/ UNCHANGED waiting
          \/ Mine.st = "circuit" /\ waiting' = active.qty
       /\ UNCHANGED <<book, defer>>
    \/ /\ Mine.on = day /\ Mine.st = "cancelled"
       /\ IF pos.open THEN PlaceSell(active.qty, FALSE, ended("cancelled"))
          ELSE Untrack /\ row' = ended("cancelled") /\ UNCHANGED <<book, waiting, defer>>
       /\ UNCHANGED pos

Clean ==
    /\ \/ At("tidy", "idle")
       \/ At("clean", "stale")
    /\ CleanUp
    /\ UNCHANGED <<fresh, converted, verified, locals>>

\* _reconcile_stale_pending_sell_orders: pending rows the engine does not follow.
Untracked == Pending \ {active.id}
Stale ==
    /\ At("stale", "retry")
    /\ \/ /\ pos.open /\ Untracked # {}
          /\ row' = [o \in Orders |->
                        IF o \notin Untracked THEN row[o]
                        ELSE IF book[o].on # day \/ book[o].st \in Refused THEN "failed"
                        ELSE IF book[o].st = "cancelled" THEN "cancelled"
                        ELSE row[o]]
          /\ pos' = CloseIf(\E o \in Untracked : book[o].on = day /\ Gone(o))
       \/ /\ ~pos.open \/ Untracked = {} \/ Outage
          /\ UNCHANGED <<row, pos>>
    /\ UNCHANGED <<book, fresh, defer, memory, locals>>

\* _check_and_retry_circuit_expansion: place_sell_order does not ask whether
\* an order is there.
Queued == IF waiting > 0 THEN waiting ELSE Restored
Retry ==
    /\ At("retry", "sync")
    /\ \/ /\ Queued > 0
          /\ \E o \in Spare :
                /\ Enter(book, Queued, o)
                /\ row' = [row EXCEPT ![o] = "pending"]
                /\ Track(o, Queued)
          /\ waiting' = 0 /\ defer' = 0
       \/ /\ waiting' = Queued
          /\ UNCHANGED <<book, row, active, defer>>
    /\ UNCHANGED <<fresh, pos, converted, verified, locals>>

\* _sync_active_sell_orders_from_broker_for_monitoring
Sync ==
    /\ At("sync", "missing")
    /\ \E listed \in Listings :
       \/ /\ ~Tracking /\ listed > 0
          /\ \E o \in Existing : row' = WithRow(o) /\ Track(o, book[o].qty)
       \/ /\ Tracking \/ listed = 0 \/ Existing = {} \/ Outage
          /\ UNCHANGED <<row, active>>
    /\ UNCHANGED <<book, fresh, pos, defer, waiting, converted, verified, locals>>

\* _place_sell_orders_for_missing_positions; the cycle ends without an order
\* that was followed before.
Missing ==
    /\ ~Tracking
    /\ At("missing", "idle")
    /\ \E listed \in Listings :
       \/ listed > 0 /\ (Existing = {} \/ Outage) /\ PlaceSell(listed, TRUE, row)
       \/ /\ listed = 0 \/ Existing # {}
          /\ UNCHANGED <<book, row, defer, active, waiting>>
    /\ UNCHANGED <<fresh, pos, converted, verified, locals>>

\* Sales of the report that are not the tracked order.
ReadReport ==
    /\ Tracking
    /\ At("missing", "detect")
    /\ \/ report' = book /\ sales' = IF pos.open THEN Complete \ {active.id} ELSE {}
       \/ Outage /\ report' = [o \in Orders |-> NoOrder] /\ sales' = {}
    /\ UNCHANGED <<book, fresh, tables, memory>>

Reported(st) == {o \in Orders : report[o].on = day /\ report[o].st = st}

\* A sale reported before the position opened on the same day is another's.
Takes(o) == pos.open /\ (pos.since = day => o >= pos.first)

Reduced(q) == IF q >= pos.qty THEN NoPosition ELSE [pos EXCEPT !.qty = @ - q]

\* _detect_manual_sells_from_orders
Detect(o) ==
    /\ At("detect", "detect")
    /\ o \in sales /\ sales' = sales \ {o}
    /\ IF Takes(o)
       THEN /\ Track(o, report[o].qty)
            /\ pos' = Reduced(report[o].qty)
       ELSE UNCHANGED <<active, pos>>
    /\ UNCHANGED <<book, fresh, row, defer, waiting, converted, verified, report>>

\* _check_and_fix_sell_order_mismatches, in every fifteenth minute: the last
\* order of the report that did not complete.
Unsold == {o \in Orders : report[o].on = day /\ report[o].st \notin {"none", "complete"}}
Fix ==
    /\ At("detect", "settle") /\ sales = {}
    /\ \/ UNCHANGED <<book, active>>
       \/ /\ Tracking /\ pos.open
          /\ \E o \in Unsold : /\ \A p \in Unsold : p <= o
                               /\ report[o].qty # pos.qty
                               /\ UpdateSell(o, pos.qty, TRUE)
    /\ UNCHANGED <<fresh, tables, waiting, converted, verified, locals>>

\* A completed sale of the symbol, whichever it is, closes the position.
Settle ==
    /\ At("settle", IF SaleKnown(Reported("complete")) \/ ~Tracking THEN "idle" ELSE "convert")
    /\ IF Tracking /\ SaleKnown(Reported("complete")) THEN pos' = NoPosition /\ Untrack
       ELSE UNCHANGED <<pos, active>>
    /\ report' = [o \in Orders |-> NoOrder]
    /\ UNCHANGED <<book, fresh, row, defer, waiting, converted, verified, sales>>

\* _check_rsi_exit_condition: the order becomes a market order, or is replaced
\* by one that has no row.
Convert ==
    /\ At("convert", "update")
    /\ \/ UNCHANGED <<book, active, converted>>
       \/ /\ "rsi" \in exposed /\ ~converted
          /\ \/ /\ Modifiable(active.id, active.qty)
                /\ book' = [book EXCEPT ![active.id].qty = active.qty]
                /\ Untrack /\ converted' = TRUE
             \/ /\ book[active.id].st = "open"
                /\ Modifiable(active.id, active.qty) => "modifyFails" \in exposed
                /\ \/ \E n \in Spare : /\ Enter(Withdrawn(active.id), active.qty, n)
                                       /\ Untrack /\ converted' = TRUE
                   \/ /\ "placeFails" \in exposed \/ Spare = {}
                      /\ book' = Withdrawn(active.id) /\ UNCHANGED <<active, converted>>
    /\ UNCHANGED <<fresh, tables, waiting, verified, locals>>

\* _check_and_update_single_stock: a closed position is no longer followed; a
\* lower EMA9 moves the order, with the quantity that is remembered.
Update ==
    /\ At("update", "idle")
    /\ \/ UNCHANGED <<book, active>>
       \/ /\ Tracking /\ ~converted
          /\ IF pos.open THEN UpdateSell(active.id, active.qty, FALSE)
             ELSE Untrack /\ UNCHANGED book
    /\ UNCHANGED <<fresh, tables, waiting, converted, verified, locals>>

-----------------------------------------------------------------------------
(* The verifier, and a restart *)

\* order_status_verifier.py, in a thread of its own: every half hour.
Verify(o) ==
    /\ open /\ row[o] = "pending" /\ book[o].st # "open" /\ book[o].on = day
    /\ row' = [row EXCEPT ![o] = CASE book[o].st = "complete"  -> "closed"
                                   [] book[o].st = "cancelled" -> "cancelled"
                                   [] OTHER                    -> "failed"]
    /\ verified' = verified \cup ({o} \cap Complete)
    /\ UNCHANGED <<market, pos, defer, active, waiting, converted, pc, locals, events, exposed>>

Crash ==
    /\ Happens("crash") /\ pc \notin {"morning", "restart"}
    /\ active' = NoSell /\ waiting' = 0 /\ converted' = FALSE /\ verified' = {}
    /\ pc' \in IF open THEN {"morning", "restart"} ELSE {"idle"}
    /\ report' = [o \in Orders |-> NoOrder] /\ sales' = {}
    /\ UNCHANGED <<market, tables, exposed>>

-----------------------------------------------------------------------------
(* The specification *)

Init ==
    /\ day = 1 /\ open = TRUE /\ pc = "morning"
    /\ book = [o \in Orders |-> NoOrder]
    /\ held = Shares /\ fresh = 0
    /\ pos = [NoPosition EXCEPT !.open = TRUE, !.qty = Shares]
    /\ row = [o \in Orders |-> "none"]
    /\ defer = 0
    /\ active = NoSell /\ waiting = 0 /\ converted = FALSE /\ verified = {}
    /\ report = [o \in Orders |-> NoOrder] /\ sales = {}
    /\ events = 0 /\ exposed \in Exposures

Market == \/ CloseMarket \/ NextDay \/ BuyFills
          \/ \E o \in Orders : Fill(o) \/ UserCancel(o)
          \/ \E q \in 1 .. Shares : UserSale(q)

Morning == Reconcile \/ CancelOrphans \/ Resume \/ Opening

Cycle == \/ RecordBuy \/ Adopt \/ Clean \/ Stale \/ Retry \/ Sync \/ Missing \/ ReadReport
         \/ \E o \in Orders : Detect(o)
         \/ Fix \/ Settle \/ Convert \/ Update

Engine == Morning \/ Cycle
Next   == Market \/ Engine \/ Crash \/ \E o \in Orders : Verify(o)
Spec   == Init /\ [][Next]_vars

\* The minute tick runs while the market is open; the market need not close
\* before an order has been tried, and nobody has to fill an order.
FairSpec == Spec /\ WF_vars(Engine)

-----------------------------------------------------------------------------
Quantities == 0 .. Shares + MaxEvents * Added

\* Every variable has its type.
TypeOK ==
    /\ day \in 1 .. LastDay /\ open \in BOOLEAN /\ converted \in BOOLEAN
    /\ book \in [Orders -> [st : {"none", "open", "complete", "cancelled"} \cup Refused,
                            qty : Quantities, on : 0 .. LastDay,
                            by : {"none", "system", "user"}]]
    /\ report \in [Orders -> [st : {"none", "open", "complete", "cancelled"} \cup Refused,
                              qty : Quantities, on : 0 .. LastDay,
                              by : {"none", "system", "user"}]]
    /\ held \in Quantities /\ fresh \in {0, Added}
    /\ pos \in [open : BOOLEAN, qty : Quantities, since : 0 .. LastDay,
               last : 0 .. LastDay, first : 1 .. MaxOrders + 1]
    /\ row \in [Orders -> {"none", "pending", "closed", "cancelled", "failed"}]
    /\ defer \in Quantities /\ waiting \in Quantities
    /\ active \in [id : 0 .. MaxOrders, qty : Quantities]
    /\ verified \subseteq Orders /\ sales \subseteq Orders
    /\ pc \in {"idle", "morning", "restart", "orphans", "opening", "tidy", "adopt", "clean",
               "stale", "retry", "sync", "missing", "detect", "settle", "convert", "update"}

\* Nothing but these events occurs in this behaviour.
Only(K) == exposed \subseteq K

\* A position that is closed has been sold: the account holds no share of it.
SoldOutWhenClosed == ~pos.open => held = fresh

\* The user may cancel, modifications and placements may fail, the RSI may
\* convert and the process may restart; or the broker's reports may fail.
Steady ==
    \/ Only({"userCancel", "modifyFails", "placeFails", "rsi", "crash"})
    \/ Only({"outage"})

\* Steady events, in any order within a cycle, never make the engine close a
\* position it still holds.  (It does after a sale by the user, a buy while the
\* sell order is out, and a deferral that was retried twice.)
ClosedMeansSold == Steady => SoldOutWhenClosed

\* Between two cycles every order that can still fill is followed, or has a
\* pending row from which a restarted engine and the verifier know it.
\* (Replacements have no row: only memory knows them.)
LiveIsKnown ==
    pc = "idle" /\ Only(EventKinds \ {"modifyFails", "rsi"}) =>
        \A o \in Live(book) : active.id = o \/ row[o] = "pending"

\* What is sold and what is still for sale is known: no position is closed with shares in
\* it, and no order is out that nobody follows.
SalesFollowed == ClosedMeansSold /\ LiveIsKnown

\* Each step that places an order sees the order that is out, although it is
\* placed by five functions, each with a report of its own: the broker never
\* has to refuse a second sale of the same shares.  (It has to after the user
\* cancelled the order and sold a part: the cleanup asks for the whole again.)
SoldOnce ==
    Steady => \A o \in Orders : book[o].st = "none" => book'[o].st # "noShares"

NoSecondSell == [][SoldOnce]_vars

\* While the market is open, a position with shares is not left without a
\* sell order, whoever cancelled or refused the last one.  (It is where the
\* broker's reports of the account fail, for as long as they do.)
OffersSell ==
    /\ open /\ pos.open /\ held > 0
    /\ Only({"userCancel", "modifyFails", "circuit", "rsi", "crash"})
    ~> \/ Live(book) # {} \/ waiting > 0
       \/ ~pos.open \/ held = 0 \/ ~open
       \/ Spare = {}                       \* the bound on orders is reached

\* A sale of the whole position closes it before the market closes, whichever
\* of the cycle's steps it comes between.  (A conversion, a replacement by the
\* cleanup and a restart lose an order that fills at once.)
SaleCloses ==
    /\ open /\ Complete # {} /\ held = 0
    /\ Only({"modifyFails", "circuit"})
    ~> ~pos.open \/ ~open \/ Spare = {}

\* A deferred sale survives a restart: it is waiting again, or was placed.
DeferRestored == open /\ defer > 0 ~> waiting = defer \/ ~open

\* The shares of an open position go back on offer whatever happened to their order (it
\* was withdrawn, refused, deferred or forgotten by a restart), and their sale closes it.
SharesOffered == OffersSell /\ DeferRestored /\ SaleCloses
=============================================================================
