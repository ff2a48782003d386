----------------------------- MODULE PaperAccount -----------------------------
(***************************************************************************)
(* The paper broker of one user and its service (paper_trading_adapter.py, *)
(* paper_trading_service_adapter.py), for one symbol at a price of one.    *)
(*                                                                         *)
(* The money and the orders are in files, the shares in memory, and the    *)
(* rows of the orders and the position in the database.  An order executes *)
(* in steps: shares and money, then rows and position in one commit whose  *)
(* failure is swallowed, then the file of orders.  A start takes the       *)
(* shares from the position and everything else from the files.            *)
(*                                                                         *)
(* An entry is bought under the name of the symbol, a re-entry under the   *)
(* name of the ticker, and the memory keeps the two apart.  Whether a      *)
(* price is known, reaches a limit or the day's high does, is left open,   *)
(* and so is the order in which a pass takes the orders.                   *)
(*                                                                         *)
(* Definitions named Mut... are deliberately wrong forms of the definition *)
(* that follows them; no action uses them (see the README).                *)
(***************************************************************************)
EXTENDS Integers, FiniteSets

CONSTANTS
    Capital,    \* paper_trading_initial_capital, in shares
    MaxOrders,  \* bound: orders that are not settled
    Exposures   \* bound: the events of a behaviour

NoOrder == 0
Orders  == 1 .. MaxOrders
Keys    == {"symbol", "ticker"}   \* RELIANCE, RELIANCE.NS

\* Each happens once, except "amo", "reentry" and "resize", which say how the
\* behaviour goes.
EventKinds == {"amo", "reentry", "resize", "rsi", "noema", "missed", "restart", "crash",
               "dbfails", "norow"}

ASSUME PaperAssumption ==
    Capital \in Nat \ {0} /\ MaxOrders \in Nat \ {0} /\ Exposures \subseteq SUBSET EventKinds

VARIABLES
    cash,       \* account.json: available_cash
    orders,     \* orders.json (file) and the table of orders (row, fills)
    held,       \* PortfolioManager: shares under each name
    position,   \* the open position: its quantity
    tracked,    \* active_sell_orders, in memory and its file
    converted,  \* converted_to_market
    tasks,      \* tasks_completed
    phase,      \* before 9:15, until 15:30, after
    job,        \* what the service does: its step, the orders it goes through
    events, exposed

store == <<cash, orders>>
vars  == <<store, held, position, tracked, converted, tasks, phase, job, events, exposed>>

-----------------------------------------------------------------------------
Happens(kind) == kind \in exposed \ events /\ events' = events \cup {kind}

Blank  == [side |-> "buy", kind |-> "limit", amo |-> FALSE, key |-> "symbol", qty |-> 0,
           file |-> "none", row |-> "none", fills |-> 0]
Untracked == [id |-> NoOrder, qty |-> 0]
Ready  == [pc |-> "ready", todo |-> {}, doing |-> NoOrder, step |-> "none",
           filled |-> FALSE]

Open(side) == {o \in Orders : orders[o].file = "open" /\ orders[o].side = side}

\* An order nobody looks at any more leaves its number to another.
Tidy(os) == [o \in Orders |-> IF os[o].file # "open" /\ os[o].row # "pending" THEN Blank
                                                                          ELSE os[o]]
Free == {o \in Orders : orders[o] = Blank /\ o # tracked.id}
NewOrder == CHOOSE o \in Free : TRUE

\* cancel_order: the file where the order is open, and its row.
Cancel(os, S) ==
    [o \in Orders |->
        IF o \in S /\ os[o].file = "open"
        THEN [os[o] EXCEPT !.file = "cancelled",
                           !.row = IF os[o].row = "none" THEN "none" ELSE "cancelled"]
        ELSE os[o]]

\* cancel_active_sell_for_symbol: the rows only.
Replaced(os) ==
    [o \in Orders |-> IF os[o].side = "sell" /\ os[o].row = "pending"
                      THEN [os[o] EXCEPT !.row = "cancelled"] ELSE os[o]]

\* create_amo returns the pending row of an earlier buy under the same name.
RowTaken(os, key) ==
    \E o \in Orders : os[o].side = "buy" /\ os[o].row = "pending" /\ os[o].key = key

\* place_order up to the execution: the rows, whose failure is swallowed, then the file.
\* Bound: as many orders as MaxOrders.
Place(os, o, new) ==
    LET before == IF new.side = "sell" THEN Replaced(os) ELSE os
    IN  /\ Free # {}
        /\ \/ /\ orders' = Tidy([before EXCEPT ![o] =
                     [new EXCEPT !.file = "open",
                                 !.row = IF new.side = "buy" /\ RowTaken(os, new.key)
                                         THEN "none" ELSE "pending"]])
              /\ UNCHANGED events
           \/ /\ \E base \in {os, before} :
                     orders' = Tidy([base EXCEPT ![o] = [new EXCEPT !.file = "open"]])
              /\ Happens("norow")

BuyOrder(kind, amo, key, qty) ==
    [Blank EXCEPT !.kind = kind, !.amo = amo, !.key = key, !.qty = qty]
SellOrder(kind, qty) == [Blank EXCEPT !.side = "sell", !.kind = kind, !.qty = qty]

Shares == held["symbol"] + held["ticker"]

Idle == job = Ready
Step(pc, S) == job' = [Ready EXCEPT !.pc = pc, !.todo = S]

-----------------------------------------------------------------------------
(* The day *)

\* place_new_entries looks for orders under the name of the symbol, place_reentry_orders
\* under both.
Buying(keys) == \E o \in Open("buy") : orders[o].key \in keys
MayEnter   == position = 0 /\ ~Buying({"symbol"})
MayReenter == position > 0 /\ ~Buying(Keys) /\ ~RowTaken(orders, "symbol")

Buy(key) ==
    /\ cash > 0
    /\ Place(orders, NewOrder, BuyOrder("limit", "amo" \in exposed, key, 1))

Enter   == MayEnter /\ Buy("symbol")
Reenter == "reentry" \in exposed /\ MayReenter /\ Buy("ticker")

\* run_buy_orders at 9:01: nothing, an entry, or a re-entry.
BuyOrders ==
    /\ Idle /\ phase = "pre" /\ ~tasks.buys
    /\ tasks' = [tasks EXCEPT !.buys = TRUE]
    /\ \/ UNCHANGED <<orders, events>>
       \/ Enter \/ Reenter
    /\ UNCHANGED <<cash, held, position, tracked, converted, phase, job>>

\* adjust_amo_quantities_premarket, for every buy order that waits.
Adjust ==
    /\ Idle /\ phase = "pre" /\ ~tasks.adjust
    /\ tasks' = [tasks EXCEPT !.adjust = TRUE]
    /\ Step("adjust", Open("buy"))
    /\ UNCHANGED <<store, held, position, tracked, converted, phase, events>>

\* A limit becomes a market order, the quantity may change; or the order is cancelled;
\* or there is no price.
AdjustOrder(o) ==
    /\ job.pc = "adjust" /\ o \in job.todo
    /\ \/ UNCHANGED <<orders, events>>
       \/ orders' = Tidy(Cancel(orders, {o})) /\ UNCHANGED events
       \/ \E qty \in IF "resize" \in exposed THEN {1, 2} ELSE {1} :
              /\ orders[o].kind = "limit" \/ orders[o].qty # qty
              /\ Place(Cancel(orders, {o}), NewOrder,
                       BuyOrder("market", orders[o].amo, orders[o].key, qty))
    /\ job' = [job EXCEPT !.todo = @ \ {o}]
    /\ UNCHANGED <<cash, held, position, tracked, converted, tasks, phase>>

\* run_sell_monitor, the first of the day and the others.
Monitor ==
    /\ Idle /\ phase = "open"
    /\ IF tasks.monitor THEN Step("check", Open("buy") \cup Open("sell"))
                        ELSE Step("limits", {o \in Open("buy") : orders[o].kind = "limit"})
    /\ UNCHANGED <<store, held, position, tracked, converted, tasks, phase, events>>

\* run_eod_cleanup
Lapsed == {o \in Open("buy") : ~orders[o].amo}
Swept(os) ==                                                  \* the rows alone
    [o \in Orders |-> IF os[o].side = "buy" /\ os[o].row = "pending" /\ ~os[o].amo
                      THEN [os[o] EXCEPT !.row = "cancelled"] ELSE os[o]]

Eod ==
    /\ Idle /\ phase = "closed"
    /\ orders' = Tidy(Swept(Cancel(orders, Open("sell") \cup Lapsed)))
    /\ tracked' = Untracked
    /\ tasks' = [buys |-> FALSE, adjust |-> FALSE, monitor |-> FALSE]
    /\ phase' = "cleaned"
    /\ UNCHANGED <<cash, held, position, converted, job, events>>

\* The market is open for hours: the monitor runs.  The cleanup has two minutes.
Clock ==
    /\ Idle
    /\ \/ phase = "pre" /\ phase' = "open" /\ UNCHANGED events
       \/ phase = "open" /\ tasks.monitor /\ phase' = "closed" /\ UNCHANGED events
       \/ phase = "closed" /\ Happens("missed") /\ phase' = "pre"
       \/ phase = "cleaned" /\ phase' = "pre" /\ UNCHANGED events
    /\ UNCHANGED <<store, held, position, tracked, converted, tasks, job>>

-----------------------------------------------------------------------------
(* _execute_order, for an order of the pass *)

Doing(o) == job.pc # "adjust" /\ job.step = "none" /\ o \in job.todo
Drop(o)  == job' = [job EXCEPT !.todo = @ \ {o}]

Marked(o, file, row) ==
    orders' = Tidy([orders EXCEPT ![o].file = file,
                                  ![o].row = IF @ = "none" THEN "none" ELSE row])

MutSellable(o) == TRUE
Sellable(o) == orders[o].qty <= position                      \* _can_sell_from_database
Allowed(o)  == IF orders[o].side = "buy" THEN orders[o].qty <= cash ELSE Sellable(o)

Refuse(o) ==
    /\ Doing(o) /\ ~Allowed(o)
    /\ Marked(o, "rejected", "failed")
    /\ Drop(o)
    /\ UNCHANGED <<cash, held, position, tracked, converted, tasks, phase, events>>

\* No price, a limit that is not met, a closed market.  An after-market order before
\* the market opens fails, and stays in the file.
TooEarly(o) == orders[o].amo /\ phase = "pre"

Wait(o) ==
    /\ Doing(o) /\ job.pc # "high" /\ (orders[o].side = "sell" => Allowed(o))
    /\ \/ UNCHANGED orders
       \/ TooEarly(o) /\ Marked(o, "open", "failed")
    /\ Drop(o)
    /\ UNCHANGED <<cash, held, position, tracked, converted, tasks, phase, events>>

\* _resolve_portfolio_symbol_for_sell
HeldKey == IF held["symbol"] > 0 THEN "symbol" ELSE "ticker"

Executable(o) == Doing(o) /\ Allowed(o) /\ IF orders[o].amo THEN phase # "pre" ELSE phase = "open"

Pay(o) ==
    /\ Executable(o)
    /\ IF orders[o].side = "buy"
       THEN /\ held' = [held EXCEPT ![orders[o].key] = @ + orders[o].qty]
            /\ cash' = cash - orders[o].qty
       ELSE /\ held[HeldKey] >= orders[o].qty
            /\ held' = [held EXCEPT ![HeldKey] = @ - orders[o].qty]
            /\ cash' = cash + orders[o].qty
    /\ job' = [job EXCEPT !.doing = o, !.step = "paid"]
    /\ UNCHANGED <<orders, position, tracked, converted, tasks, phase, events>>

\* The memory has fewer shares under that name: the exception ends the order's turn,
\* at the start that of all orders, and in the RSI exit the exit.
Raise(o) ==
    /\ Executable(o) /\ orders[o].side = "sell" /\ held[HeldKey] < orders[o].qty
    /\ IF job.pc \in {"boot", "rsi"} THEN Step("ready", {}) ELSE Drop(o)
    /\ UNCHANGED <<store, held, position, tracked, converted, tasks, phase, events>>

\* _sync_order_execution_to_db: one commit, or nothing.
Committed(o) ==
    IF orders[o].side = "buy" THEN position + orders[o].qty
    ELSE IF orders[o].row = "none" THEN position ELSE position - orders[o].qty

Commit ==
    /\ job.step = "paid"
    /\ LET o == job.doing IN
           \/ /\ position' = Committed(o)
              /\ orders' = [orders EXCEPT ![o].row = IF @ = "none" THEN "none" ELSE "closed",
                                          ![o].fills = IF orders[o].row = "none" THEN 0 ELSE @ + 1]
              /\ UNCHANGED events
           \/ Happens("dbfails") /\ UNCHANGED <<position, orders>>
    /\ job' = [job EXCEPT !.step = "booked"]
    /\ UNCHANGED <<cash, held, tracked, converted, tasks, phase>>

\* _save_order
MutSaved == "open"                                          \* forgotten
Saved == "executed"

Save ==
    /\ job.step = "booked"
    /\ orders' = Tidy([orders EXCEPT ![job.doing].file = Saved])
    /\ job' = [job EXCEPT !.todo = @ \ {job.doing}, !.doing = NoOrder, !.step = "none",
                          !.filled = TRUE]
    /\ UNCHANGED <<cash, held, position, tracked, converted, tasks, phase, events>>

-----------------------------------------------------------------------------
(* The steps of a monitor pass *)

Through(pc) == job.pc = pc /\ job.todo = {} /\ job.step = "none"

BootDone ==
    /\ Through("boot") \/ Through("adjust")
    /\ Step("ready", {})
    /\ UNCHANGED <<store, held, position, tracked, converted, tasks, phase, events>>

LimitsDone ==
    /\ Through("limits") /\ Step(IF job.filled THEN "resize" ELSE "place", {})
    /\ UNCHANGED <<store, held, position, tracked, converted, tasks, phase, events>>

\* _sync_sell_order_quantities_with_holdings
Grown == tracked.qty > 0 /\ position > tracked.qty

Sync ==
    /\ Through("resize") \/ Through("check")
    /\ Step(IF job.pc = "check" THEN "exit" ELSE "place", {})
    /\ IF Grown
       THEN /\ Place(Cancel(orders, {tracked.id}), NewOrder, SellOrder("limit", position))
            /\ tracked' = [id |-> NewOrder, qty |-> position]
       ELSE UNCHANGED <<orders, tracked, events>>
    /\ UNCHANGED <<cash, held, position, converted, tasks, phase>>

\* _place_sell_orders; the average may be missing.
PlaceSells ==
    /\ Through("place")
    /\ tasks' = [tasks EXCEPT !.monitor = TRUE]
    /\ \/ position = 0 /\ UNCHANGED <<orders, tracked, events>>
       \/ /\ position > 0
          /\ Place(Cancel(orders, Open("sell")), NewOrder, SellOrder("limit", position))
          /\ tracked' = [id |-> NewOrder, qty |-> position]
       \/ /\ position > 0 /\ Happens("noema")
          /\ orders' = Tidy(Cancel(orders, Open("sell")))
          /\ tracked' = Untracked
    /\ Step("check", {o \in Orders : orders'[o].file = "open"})
    /\ UNCHANGED <<cash, held, position, converted, phase>>

\* _monitor_sell_orders, after the orders and the quantity: the day's high fills the
\* limit although the price is below it.
High ==
    /\ Through("exit") /\ tracked.qty > 0 /\ position > 0
    /\ Step("high", {o \in Open("sell") : orders[o].kind = "limit"})
    /\ UNCHANGED <<store, held, position, tracked, converted, tasks, phase, events>>

\* Then the RSI; the limit stays in the file.  Bound: one market sell at a time.
RsiExit ==
    /\ Through("exit") \/ Through("high")
    /\ "rsi" \in exposed /\ ~converted /\ tracked.qty > 0 /\ position > 0
    /\ \A o \in Open("sell") : orders[o].kind = "limit"
    /\ Place(orders, NewOrder, SellOrder("market", tracked.qty))
    /\ Step("rsi", IF orders'[NewOrder].row = "pending" THEN {NewOrder} ELSE {})
    /\ UNCHANGED <<cash, held, position, tracked, converted, tasks, phase>>

PassDone ==
    /\ Through("exit") \/ Through("high") \/ Through("rsi")
    /\ Step("ready", {})
    /\ tracked' = IF position = 0 \/ job.pc = "rsi" THEN Untracked ELSE tracked
    /\ converted' = (converted \/ job.pc = "rsi")
    /\ UNCHANGED <<store, held, position, tasks, phase, events>>

-----------------------------------------------------------------------------
(* A start: the files, the database, and the market orders that are pending *)

MutRestored == [key \in Keys |-> 0]
Restored == [key \in Keys |-> IF key = "symbol" THEN position ELSE 0]    \* _restore_state

Restart ==
    /\ Happens("crash") \/ (Idle /\ Happens("restart"))
    /\ held' = Restored
    /\ converted' = FALSE /\ tasks' = [buys |-> FALSE, adjust |-> FALSE, monitor |-> FALSE]
    /\ tracked' = IF position > 0 \/ Open("sell") # {} THEN tracked ELSE Untracked
    /\ Step("boot", {o \in Open("buy") \cup Open("sell") : orders[o].kind = "market"})
    /\ UNCHANGED <<store, position, phase>>

Init ==
    /\ cash = Capital /\ orders = [o \in Orders |-> Blank]
    /\ held = [key \in Keys |-> 0] /\ position = 0
    /\ tracked = Untracked /\ converted = FALSE
    /\ tasks = [buys |-> FALSE, adjust |-> FALSE, monitor |-> FALSE]
    /\ phase = "pre" /\ job = Ready
    /\ events = {} /\ exposed \in Exposures

Proceed ==
    \/ \E o \in Orders : Refuse(o) \/ Wait(o) \/ Pay(o) \/ Raise(o) \/ AdjustOrder(o)
    \/ Commit \/ Save
    \/ BootDone \/ LimitsDone \/ Sync \/ PlaceSells \/ High \/ RsiExit \/ PassDone

Advance == BuyOrders \/ Adjust \/ Monitor \/ Eod \/ Clock \/ Proceed \/ Restart

Keep(A) == A /\ UNCHANGED exposed
Next == Keep(Advance)
Spec == Init /\ [][Next]_vars

\* The loop goes on and the days pass, however often the monitor runs; and the price
\* reaches the limit again and again, so that a sell that may execute does.
FairSpec ==
    /\ Spec
    /\ WF_vars(Keep(Proceed \/ Monitor)) /\ SF_vars(Keep(Eod \/ Clock))
    /\ SF_vars(Keep(\E o \in Open("sell") : Pay(o)))

-----------------------------------------------------------------------------
(* Properties *)

\* Every variable stays within its type: no money and no shares that are not there.
TypeOK ==
    /\ cash \in Nat /\ position \in Nat /\ held \in [Keys -> Nat]
    /\ orders \in [Orders -> [side : {"buy", "sell"}, kind : {"limit", "market"}, amo : BOOLEAN,
           key : Keys, qty : Nat, file : {"none", "open", "executed", "cancelled", "rejected"},
           row : {"none", "pending", "closed", "cancelled", "failed"}, fills : Nat]]
    /\ tracked \in [id : Orders \cup {NoOrder}, qty : Nat] /\ converted \in BOOLEAN
    /\ tasks \in [buys : BOOLEAN, adjust : BOOLEAN, monitor : BOOLEAN]
    /\ phase \in {"pre", "open", "closed", "cleaned"} /\ job.todo \subseteq Orders
    /\ events \subseteq EventKinds /\ exposed \in Exposures

Unexposed(kinds) == exposed \cap kinds = {}

\* SAFETY

\* One buy order waits under each name, and one row of a sell order is pending.
OneEach ==
    /\ \A key \in Keys : Cardinality({o \in Open("buy") : orders[o].key = key}) <= 1
    /\ Cardinality({o \in Orders : orders[o].side = "sell" /\ orders[o].row = "pending"}) <= 1

\* No share is asked for twice.  And unless the process is killed, whatever is replaced,
\* resized, cancelled, re-entered or started again: an order fills at most once; money
\* and shares add up to the capital, until a start forgets what the database did not
\* get; and where the database got everything, memory and position agree.
BooksAgree ==
    /\ OneEach
    /\ Unexposed({"crash"}) =>
        /\ \A o \in Orders : orders[o].fills <= 1
        /\ job.step = "none" /\ (Unexposed({"restart"}) \/ Unexposed({"dbfails", "norow"}))
               => cash + Shares = Capital
        /\ job.step = "none" /\ Unexposed({"dbfails", "norow"}) => Shares = position

\* LIVENESS, under FairSpec

\* A position is offered whole, or gone; and it is sold in the end where the memory
\* knows its shares by the name of the symbol, as it does after every start.
Offered == position = 0 \/ \E o \in Open("sell") : orders[o].qty = position

SharesSold ==
    /\ position > 0 ~> Offered
    /\ Unexposed({"reentry", "dbfails", "norow"}) => (position > 0 ~> position = 0)
=============================================================================
