---------------------------- MODULE BuyExecution ----------------------------
(***************************************************************************)
(* How an executed buy order of one user and one symbol reaches the        *)
(* positions table, from the broker's order book to the open position, and *)
(* how the position leaves it again when the shares are sold.              *)
(*                                                                         *)
(* The component is modules/kotak_neo_auto_trader/unified_order_monitor.py *)
(* with the parts of sell_engine.py, auto_trade_engine.py and              *)
(* run_trading_service.py that write the same two tables.  The broker is   *)
(* external: it is modelled from what these modules ask of it.             *)
(*                                                                         *)
(* A tick of the clock is a trading day.  A day runs through three phases: *)
(* "pre" (the 9:01 placement task), "open" (the market and the minute-by-  *)
(* minute monitor) and "closed"/"swept" (before/after the 18:00 cleanup).  *)
(* Executions of one symbol detected on the same day count as being within *)
(* the one hour that the duplicate heuristic looks at.                     *)
(*                                                                         *)
(* Definitions named Mut... are deliberately wrong forms of the definition *)
(* that follows them; no action uses them (see the README).                *)
(***************************************************************************)
EXTENDS Integers, FiniteSets, Totals

CONSTANTS
    Buys,           \* system buy orders of the symbol
    Initial,        \* the fresh entries among them; the others are re-entries
    Qty,            \* shares of each order
    LastDay,        \* bound: trading days explored
    Lookback,       \* execution_backfill_days
    OtherHoldings,  \* the account also holds (and is selling) other symbols
    Exposures,      \* the combinations of faults to explore
    MaxFaults,      \* bound: crashes, stops and outages in one behaviour
    NoLeg           \* "no order is being applied"

FaultKinds == {"crash", "stop", "outage", "unfilled", "unseen", "partial"}

ASSUME BuysAssumption == IsFiniteSet(Buys) /\ Initial \subseteq Buys /\ NoLeg \notin Buys
ASSUME QtyAssumption == Qty \in [Buys -> Nat \ {0}]
ASSUME BoundAssumption == /\ LastDay \in Nat /\ MaxFaults \in Nat
                          /\ Lookback \in Nat
                          /\ OtherHoldings \in BOOLEAN
                          /\ Exposures \subseteq SUBSET FaultKinds

VARIABLES
    day, phase,
    book,       \* the broker's record of each order
    held,       \* shares of the symbol the account owns
    settled,    \* shares the holdings report shows (bought before today)
    sold,       \* today's completed sell, and shares sold but still in pos
    row,        \* DURABLE: the orders rows (execution_qty sums the fills)
    saved,      \* DURABLE: position_sync markers, 0 where there is none
    pos,        \* DURABLE: the open position, if any
    mark,       \* the markers as the monitor's database session sees them
    mon,        \* the monitor's program counter and the cycle's locals
    tracked,    \* active_buy_orders
    done,       \* _processed_buy_execution_ids
    faults,
    exposed     \* what may go wrong in this behaviour; no step changes it

market  == <<day, phase, book, held, settled, sold>>
durable == <<row, saved, pos>>
memory  == <<mark, mon, tracked, done>>
vars    == <<market, durable, memory, faults, exposed>>

-----------------------------------------------------------------------------
(* Reading the tables and the broker *)

IsReentry(b) == b \notin Initial
Pending      == {b \in Buys : row[b].st = "pending"}
Up           == mon.pc # "down"
FaultAllowed(kind) == kind \in exposed /\ faults < MaxFaults

Smaller(m, n) == IF m < n THEN m ELSE n
Larger(m, n)  == IF m < n THEN n ELSE m
Gap(m, n)     == Larger(m, n) - Smaller(m, n)

\* Shares in the demat holdings, and net shares of the day in the positions
\* report: a sale consumes settled shares first.
Holdings    == Smaller(settled, held)
NetToday    == held - Holdings
BrokerQty   == Larger(Holdings, NetToday)
HasSellData == "holdings" \in mon.api /\ (OtherHoldings \/ held > 0 \/ settled > 0)
Sellable    == held

\* The broker's order report lists the orders of the current day only.
InReport(b) == "orders" \in mon.api /\ book[b].on = day

ClosedSince(d) == {b \in Buys : row[b].st = "closed" /\ row[b].on >= d}
Executions     == [b \in Buys |-> row[b].qty]
ClosedTotals   == Total(Executions, ClosedSince(pos.since))

\* The open position is at least as large as the closed buys of its cycle.
Reflected     == pos.open /\ pos.qty >= ClosedTotals
Applied(b, q) == mark[b] # 0 /\ mark[b] = q /\ Reflected

\* The "first order, already processed" heuristic: ten percent or one share.
LooksLikeOpener(b, q) ==
    /\ pos.since = row[b].on
    /\ pos.legs = {}
    /\ \/ Gap(pos.qty, q) <= 1
       \/ 10 * Gap(pos.qty, q) <= q

NoPosition == [open |-> FALSE, qty |-> 0, since |-> 0, legs |-> {}]

-----------------------------------------------------------------------------
(* Writing an executed leg to the position *)

AddLeg(b, q) == [pos EXCEPT !.qty = @ + q,
                            !.legs = IF IsReentry(b) THEN @ \cup {b} ELSE @]

\* The caller's commit makes the markers written before it durable; the new
\* marker joins the session's open transaction and waits for the next commit.
Apply(b, q) ==
    \/ /\ \/ Applied(b, q)
          \/ pos.open /\ b \notin pos.legs /\ LooksLikeOpener(b, q)
       /\ UNCHANGED <<pos, mark, saved>>
    \/ /\ ~Applied(b, q) /\ pos.open /\ b \in pos.legs
       /\ mark' = [mark EXCEPT ![b] = q]
       /\ UNCHANGED <<pos, saved>>
    \/ /\ ~Applied(b, q) /\ pos.open /\ b \notin pos.legs /\ ~LooksLikeOpener(b, q)
       /\ pos' = AddLeg(b, q)
       /\ saved' = mark
       /\ mark' = [mark EXCEPT ![b] = q]
    \/ /\ ~pos.open
       /\ pos' = [open |-> TRUE, qty |-> q, since |-> row[b].on, legs |-> {}]
       /\ saved' = mark
       /\ mark' = [mark EXCEPT ![b] = q]

\* Raise the position to the closed buys of its cycle when the broker has
\* the shares; markers and reentries are left as they are.
SyncFromClosedBuys ==
    \E q \in 0 .. BrokerQty :
        /\ q = ClosedTotals /\ q > pos.qty
        /\ pos' = [pos EXCEPT !.qty = q]
        /\ UNCHANGED sold

\* Position against broker quantity.  A mismatch is left alone when the
\* position opened today, a buy executed today, or (not modelled here, hence
\* always possible) a sell row is still pending.
MayReconcile == pos.open /\ pos.qty # BrokerQty /\ pos.since # day
                /\ \A b \in Buys : row[b].on # day
Reconcile ==
    \/ UNCHANGED <<pos, sold>>
    \/ /\ MayReconcile /\ BrokerQty = 0
       /\ pos' = NoPosition
       /\ sold' = [sold EXCEPT !.owed = 0]
    \/ /\ MayReconcile /\ 0 < BrokerQty /\ BrokerQty < pos.qty
       /\ pos' = [pos EXCEPT !.qty = BrokerQty]
       /\ sold' = [sold EXCEPT !.owed = 0]
    \/ MayReconcile /\ BrokerQty > pos.qty /\ SyncFromClosedBuys

-----------------------------------------------------------------------------
(* The 9:01 placement task *)

Place(b) ==
    /\ book[b].st = "none" /\ Pending = {}
    /\ book' = [book EXCEPT ![b] = [st |-> "open", filled |-> 0, on |-> day]]
    /\ row' = [row EXCEPT ![b].st = "pending"]
    /\ saved' = mark

\* check_duplicate_order: a holding, or a pending or filled buy row.
DuplicateEntry == Holdings > 0 \/ \E b \in Buys : row[b].st \in {"pending", "closed"}

PlaceInitial(b) ==
    /\ phase = "pre" /\ mon.pc = "idle" /\ b \in Initial
    /\ ~DuplicateEntry
    /\ Place(b)
    /\ UNCHANGED <<day, phase, held, settled, sold, pos, memory, faults>>

\* Positions are reconciled first; a position that is then open may be added to.
PlaceReentry(b) ==
    /\ phase = "pre" /\ mon.pc = "idle" /\ IsReentry(b)
    /\ Reconcile
    /\ pos'.open
    /\ Place(b)
    /\ UNCHANGED <<day, phase, held, settled, memory, faults>>

MorningReconcile ==
    /\ phase = "pre" /\ mon.pc = "idle"
    /\ Reconcile
    /\ saved' = mark
    /\ UNCHANGED <<day, phase, book, held, settled, row, memory, faults>>

-----------------------------------------------------------------------------
(* The broker and the calendar *)

OpenMarket ==
    /\ phase = "pre" /\ phase' = "open"
    /\ \/ /\ mon.pc = "idle"       \* run_at_market_open, load_pending_buy_orders
          /\ Reconcile
          /\ tracked' = tracked \cup Pending
          /\ saved' = mark
       \/ ~Up /\ UNCHANGED <<pos, sold, tracked, saved>>
    /\ UNCHANGED <<day, book, held, settled, row, mark, mon, done, faults>>

Fill(b) ==
    /\ phase = "open" /\ book[b].st = "open"
    /\ book' = [book EXCEPT ![b].st = "complete", ![b].filled = Qty[b]]
    /\ held' = held + Qty[b]
    /\ UNCHANGED <<day, phase, settled, sold, durable, memory, faults>>

Reject(b) ==
    /\ phase = "open" /\ book[b].st = "open"
    /\ book' = [book EXCEPT ![b].st = "rejected"]
    /\ UNCHANGED <<day, phase, held, settled, sold, durable, memory, faults>>

\* Cancelled by the user or the exchange, possibly after part of it filled.
BrokerCancel(b) ==
    /\ phase = "open" /\ book[b].st = "open"
    /\ \E n \in 0 .. (Qty[b] - 1) :
          /\ n > 0 => "partial" \in exposed
          /\ book' = [book EXCEPT ![b].st = "cancelled", ![b].filled = n]
          /\ held' = held + n
    /\ UNCHANGED <<day, phase, settled, sold, durable, memory, faults>>

\* The target sell order, placed for the position's quantity, fills.
SellFill ==
    /\ phase = "open" /\ pos.open /\ held > 0 /\ sold.today = 0
    /\ LET n == Smaller(pos.qty, held) IN
          /\ held' = held - n
          /\ sold' = [today |-> n, owed |-> sold.owed + n,
                      watch |-> IF Up THEN "tracked" ELSE "unknown"]
    /\ UNCHANGED <<day, phase, book, settled, durable, memory, faults>>

CloseMarket ==
    /\ phase = "open" /\ phase' = "closed"
    /\ mon.pc \in {"idle", "down"}
    /\ "unfilled" \in exposed \/ \A b \in Buys : book[b].st # "open"
    /\ "unseen" \in exposed \/ /\ mon.pc = "idle"
                               /\ \A b \in Pending \cup tracked : book[b].st = "open"
                               /\ sold.watch # "tracked"
    /\ UNCHANGED <<day, book, held, settled, sold, durable, memory, faults>>

\* DAY orders lapse at the exchange after the close.
Lapse ==
    /\ phase \in {"closed", "swept"}
    /\ \E b \in Buys : book[b].st = "open"
    /\ book' = [b \in Buys |-> IF book[b].st = "open"
                               THEN [book[b] EXCEPT !.st = "cancelled"] ELSE book[b]]
    /\ UNCHANGED <<day, phase, held, settled, sold, durable, memory, faults>>

Swept(b) == row[b].st = "pending" /\ book[b].st # "open"

\* run_eod_cleanup: orders still open at the broker are cancelled there and
\* their rows skipped; every other pending row is cancelled unseen.
EodCleanup ==
    /\ phase = "closed" /\ phase' = "swept" /\ mon.pc = "idle"
    /\ book' = [b \in Buys |-> IF book[b].st = "open"
                               THEN [book[b] EXCEPT !.st = "cancelled"] ELSE book[b]]
    /\ row' = [b \in Buys |-> IF Swept(b) THEN [row[b] EXCEPT !.st = "cancelled"] ELSE row[b]]
    /\ saved' = mark
    /\ UNCHANGED <<day, held, settled, sold, pos, memory, faults>>

NextDay ==
    /\ \/ phase = "swept"
       \/ phase = "closed" /\ ~Up
    /\ day < LastDay
    /\ \A b \in Buys : book[b].st # "open"
    /\ day' = day + 1 /\ phase' = "pre"
    /\ settled' = held
    /\ sold' = [sold EXCEPT !.today = 0, !.watch = "none"]
    /\ UNCHANGED <<book, held, durable, memory, faults>>

-----------------------------------------------------------------------------
(* One cycle of the monitor: check_buy_order_status, then                  *)
(* check_and_place_sell_orders_for_new_holdings, then monitor_and_update   *)

IdleMonitor == [pc |-> "idle", todo |-> {}, leg |-> NoLeg, qty |-> 0,
                report |-> FALSE, api |-> {}]

\* Buys executed today with no open position, not yet handled by this process.
Unsynced == {b \in ClosedSince(day) : ~pos.open /\ b \notin done}

StartCycle ==
    /\ phase = "open" /\ mon.pc = "idle"
    /\ tracked' = IF tracked = {} THEN Pending ELSE tracked
    /\ \E api \in SUBSET {"orders", "holdings"} :
          /\ \/ api = {"orders", "holdings"} /\ UNCHANGED faults
             \/ api # {"orders", "holdings"} /\ FaultAllowed("outage") /\ faults' = faults + 1
          /\ mon' = [IdleMonitor EXCEPT !.pc = "check", !.api = api,
                                        !.todo = tracked' \cup Unsynced]
    /\ UNCHANGED <<market, durable, mark, done>>

Checking(b) == phase = "open" /\ mon.pc = "check" /\ mon.leg = NoLeg /\ b \in mon.todo
MutExecuted(b, q) ==       \* the fill is not added to the row
    row' = [row EXCEPT ![b].st = "closed", ![b].on = day]
Executed(b, q) ==          \* mark_executed: a fill is added, the row closes
    row' = [row EXCEPT ![b] = [st |-> "closed", qty |-> @.qty + q, on |-> day]]
Finish(b) ==
    /\ mon' = [mon EXCEPT !.todo = @ \ {b}]
    /\ tracked' = tracked \ {b}

MutAlreadyExecutedNever(b) == FALSE             \* guard against re-aggregation dropped
AlreadyExecuted(b) == row[b].st = "closed"

\* The report says complete: close the row, then write the position.
SeeComplete(b) ==
    /\ Checking(b) /\ InReport(b) /\ book[b].st = "complete"
    /\ IF AlreadyExecuted(b) THEN UNCHANGED row ELSE Executed(b, book[b].filled)
    /\ saved' = mark
    /\ IF b \in done
       THEN Finish(b)
       ELSE /\ mon' = [mon EXCEPT !.leg = b, !.qty = book[b].filled, !.report = TRUE]
            /\ UNCHANGED tracked
    /\ UNCHANGED <<market, pos, mark, done, faults>>

MutRefusedStatus(b) == book[b].st             \* broker wording stored as is
RefusedStatus(b) == IF book[b].st = "rejected" THEN "failed" ELSE "cancelled"

SeeRefused(b) ==
    /\ Checking(b) /\ InReport(b) /\ book[b].st \in {"rejected", "cancelled"}
    /\ row' = [row EXCEPT ![b].st = RefusedStatus(b)]
    /\ saved' = mark
    /\ Finish(b)
    /\ UNCHANGED <<market, pos, mark, done, faults>>

SeeOpen(b) ==
    /\ Checking(b) /\ InReport(b) /\ book[b].st = "open"
    /\ mon' = [mon EXCEPT !.todo = @ \ {b}]
    /\ UNCHANGED <<market, durable, mark, tracked, done, faults>>

InHoldings == "holdings" \in mon.api /\ Holdings > 0

\* Shares an absent order is taken to have bought: its order history when
\* that shows it complete, otherwise the whole holding.
AssumedQty(b) ==
    IF book[b].st = "complete"
    THEN {book[b].filled} \cup (IF "orders" \in mon.api THEN {} ELSE {Holdings})
    ELSE {Holdings}

SeeInHoldings(b) ==
    /\ Checking(b) /\ ~InReport(b) /\ InHoldings
    /\ \E q \in AssumedQty(b) :
          /\ Executed(b, q)
          /\ mon' = [mon EXCEPT !.leg = b, !.qty = q]
    /\ saved' = mark
    /\ UNCHANGED <<market, pos, mark, tracked, done, faults>>

\* In neither report: a row with execution data is replayed, another waits.
SeeNowhere(b) ==
    /\ Checking(b) /\ ~InReport(b) /\ ~InHoldings
    /\ mon' = IF row[b].st = "closed" THEN [mon EXCEPT !.leg = b, !.qty = row[b].qty]
                                      ELSE [mon EXCEPT !.todo = @ \ {b}]
    /\ UNCHANGED <<market, durable, mark, tracked, done, faults>>

MutProcessed == done                          \* the identifier is not kept
Processed == IF mon.report THEN done \cup {mon.leg} ELSE done

ApplyExecution ==
    /\ phase = "open" /\ mon.pc = "check" /\ mon.leg # NoLeg
    /\ Apply(mon.leg, mon.qty)
    /\ done' = Processed
    /\ tracked' = tracked \ {mon.leg}
    /\ mon' = [mon EXCEPT !.todo = @ \ {mon.leg}, !.leg = NoLeg, !.qty = 0, !.report = FALSE]
    /\ UNCHANGED <<market, row, faults>>

MutUnapplied == {b \in ClosedSince(day) : ~Applied(b, row[b].qty)}   \* no look-back
\* Executed rows of the window whose marker does not hold.
Unapplied == {b \in ClosedSince(day - Lookback) : ~Applied(b, row[b].qty)}

StartBackfill ==
    /\ phase = "open" /\ mon.pc = "check" /\ mon.leg = NoLeg /\ mon.todo = {}
    /\ mon' = [mon EXCEPT !.pc = "backfill", !.todo = Unapplied]
    /\ UNCHANGED <<market, durable, mark, tracked, done, faults>>

BackfillBlocked == \/ "orders" \in mon.api /\ sold.today > 0
                   \/ HasSellData /\ Sellable = 0

\* Rows are listed newest first.
Backfill(b) ==
    /\ phase = "open" /\ mon.pc = "backfill" /\ b \in mon.todo
    /\ \A c \in mon.todo : book[c].on <= book[b].on
    /\ IF BackfillBlocked THEN UNCHANGED <<pos, mark, saved>> ELSE Apply(b, row[b].qty)
    /\ mon' = [mon EXCEPT !.todo = @ \ {b}]
    /\ UNCHANGED <<market, row, tracked, done, faults>>

\* The sale is not taken off the list of active sells.
MutSeesSell == "orders" \in mon.api /\ sold.today > 0 /\ pos.open
\* A completed sell the process was tracking closes the position whatever its
\* size; one it finds untracked (after a restart) closes or reduces it, also
\* one older than the position: its time is not in the format the guard parses.
SeesSell == "orders" \in mon.api /\ sold.today > 0 /\ pos.open
            /\ \/ sold.watch = "tracked"
               \/ sold.watch = "unknown" /\ OtherHoldings

RecordSell ==
    /\ phase = "open" /\ mon.pc = "backfill" /\ mon.todo = {}
    /\ \/ /\ ~SeesSell
          /\ mon' = IdleMonitor
          /\ UNCHANGED <<pos, sold, saved>>
       \/ /\ SeesSell
          /\ sold.watch = "tracked" \/ sold.today >= pos.qty
          /\ pos' = NoPosition
          /\ sold' = [sold EXCEPT !.owed = 0, !.watch = "handled"]
          /\ saved' = mark
          /\ mon' = [IdleMonitor EXCEPT !.pc = IF sold.watch = "tracked" THEN "cancel" ELSE "idle"]
       \/ /\ SeesSell
          /\ sold.watch = "unknown" /\ sold.today < pos.qty
          /\ pos' = [pos EXCEPT !.qty = @ - sold.today]
          /\ sold' = [sold EXCEPT !.owed = @ - Smaller(sold.owed, sold.today), !.watch = "handled"]
          /\ saved' = mark
          /\ mon' = IdleMonitor
    /\ UNCHANGED <<day, phase, book, held, settled, row, mark, tracked, done, faults>>

Stale == {b \in Pending : IsReentry(b)}

\* _cancel_pending_reentry_orders: the row is cancelled even if the broker's
\* cancellation fails because the order has already filled.
CancelReentries ==
    /\ phase = "open" /\ mon.pc = "cancel"
    /\ book' = [b \in Buys |-> IF b \in Stale /\ book[b].st = "open"
                               THEN [book[b] EXCEPT !.st = "cancelled"] ELSE book[b]]
    /\ row' = [b \in Buys |-> IF b \in Stale
                              THEN [row[b] EXCEPT !.st = "cancelled"] ELSE row[b]]
    /\ saved' = mark
    /\ mon' = IdleMonitor
    /\ UNCHANGED <<day, phase, held, settled, sold, pos, mark, tracked, done, faults>>

-----------------------------------------------------------------------------
(* The process: heartbeat commits, crashes, stops and starts *)

\* The scheduler's heartbeat commits the session the monitor shares.
Heartbeat ==
    /\ Up /\ saved # mark
    /\ saved' = mark
    /\ UNCHANGED <<market, row, pos, memory, faults>>

Vanish ==
    /\ mon' = [IdleMonitor EXCEPT !.pc = "down"]
    /\ tracked' = {} /\ done' = {}
    /\ sold' = [sold EXCEPT !.watch = IF sold.today > 0 THEN "unknown" ELSE "none"]
    /\ faults' = faults + 1
    /\ UNCHANGED <<day, phase, book, held, settled, row, pos>>

Crash ==
    /\ Up /\ FaultAllowed("crash")
    /\ mark' = saved
    /\ Vanish
    /\ UNCHANGED saved

Stop ==
    /\ mon.pc = "idle" /\ FaultAllowed("stop")
    /\ saved' = mark
    /\ Vanish
    /\ UNCHANGED mark

Start ==
    /\ ~Up
    /\ mon' = IdleMonitor
    /\ tracked' = Pending
    /\ UNCHANGED <<market, durable, mark, done, faults>>

-----------------------------------------------------------------------------
Init ==
    /\ day = 1 /\ phase = "pre"
    /\ book = [b \in Buys |-> [st |-> "none", filled |-> 0, on |-> 0]]
    /\ held = 0 /\ settled = 0
    /\ sold = [today |-> 0, owed |-> 0, watch |-> "none"]
    /\ row = [b \in Buys |-> [st |-> "none", qty |-> 0, on |-> 0]]
    /\ saved = [b \in Buys |-> 0] /\ mark = saved
    /\ pos = NoPosition
    /\ mon = IdleMonitor
    /\ tracked = {} /\ done = {}
    /\ faults = 0
    /\ exposed \in Exposures

Cycle ==
    \/ StartCycle \/ ApplyExecution \/ StartBackfill \/ RecordSell \/ CancelReentries
    \/ \E b \in Buys : \/ SeeComplete(b) \/ SeeRefused(b) \/ SeeOpen(b)
                       \/ SeeInHoldings(b) \/ SeeNowhere(b) \/ Backfill(b)

Broker ==
    \/ OpenMarket \/ CloseMarket \/ Lapse \/ SellFill \/ NextDay
    \/ \E b \in Buys : Fill(b) \/ Reject(b) \/ BrokerCancel(b)

Process ==
    \/ MorningReconcile \/ EodCleanup \/ Heartbeat \/ Crash \/ Stop \/ Start
    \/ \E b \in Buys : PlaceInitial(b) \/ PlaceReentry(b)

Next == (Cycle \/ Broker \/ Process) /\ UNCHANGED exposed

Spec == Init /\ [][Next]_vars

\* The scheduler runs the monitor every minute, a service that was running is
\* started again, and the clock moves on; the broker owes nothing.
Calendar == OpenMarket \/ CloseMarket \/ EodCleanup \/ Lapse \/ NextDay
FairSpec ==
    /\ Spec
    /\ WF_vars(Cycle /\ UNCHANGED exposed) /\ WF_vars(Start /\ UNCHANGED exposed)
    /\ WF_vars(Calendar /\ UNCHANGED exposed)

-----------------------------------------------------------------------------
(* Properties *)

RowStatus  == {"none", "pending", "closed", "cancelled", "failed"}
BookStatus == {"none", "open", "complete", "rejected", "cancelled"}

BookType == [st : BookStatus, filled : Nat, on : Nat]
RowType  == [st : RowStatus, qty : Nat, on : Nat]
SoldType == [today : Nat, owed : Nat, watch : {"none", "tracked", "unknown", "handled"}]
PosType  == [open : BOOLEAN, qty : Nat, since : Nat, legs : SUBSET Buys]
MonType  == [pc : {"down", "idle", "check", "backfill", "cancel"},
             todo : SUBSET Buys, leg : Buys \cup {NoLeg}, qty : Nat,
             report : BOOLEAN, api : SUBSET {"orders", "holdings"}]

FieldsOK ==
    /\ day \in Nat /\ phase \in {"pre", "open", "closed", "swept"}
    /\ book \in [Buys -> BookType] /\ row \in [Buys -> RowType]
    /\ held \in Nat /\ settled \in Nat /\ sold \in SoldType
    /\ saved \in [Buys -> Nat] /\ mark \in [Buys -> Nat]
    /\ pos \in PosType /\ mon \in MonType
    /\ tracked \subseteq Buys /\ done \subseteq Buys
    /\ faults \in Nat

\* Every variable stays within the values the tables and the process can hold.
TypeOK == FieldsOK /\ exposed \in Exposures

\* SAFETY while the process runs undisturbed.

\* A position never shows more shares than the account owns, apart from those
\* of a sale it has not taken off yet: what makes its sell order executable.
PositionBacked == pos.open => pos.qty <= held + sold.owed

\* A position is explained by the executions recorded since it opened: no leg
\* is added twice by the monitor, the backfill and the reconciliation together.
NoDoubleCount == pos.open => pos.qty <= ClosedTotals

\* An order whose row says cancelled bought nothing, unless the monitor still
\* follows it and will correct the row.
CancelledUnfilled ==
    \A b \in Buys \ tracked : row[b].st = "cancelled" => book[b].filled = 0

\* Once the backfill is through, the position holds every executed leg of its
\* cycle that the window reaches, also the ones no cycle had seen.
BackfillCovers ==
    (mon.pc = "backfill" /\ mon.todo = {} /\ ~BackfillBlocked /\ pos.open)
        => pos.qty >= Total(Executions, ClosedSince(Larger(pos.since, day - Lookback)))

\* SAFETY across restarts and partial fills.

\* The executed quantity of a row is what the broker filled: aggregating fills
\* counts no execution twice.
ExecutionFaithful ==
    \A b \in Buys : row[b].st = "closed" => row[b].qty = book[b].filled

\* A durable position_sync marker never survives or precedes the execution it
\* stands for.
MarkerHasExecution ==
    \A b \in Buys : saved[b] # 0 => row[b].st = "closed" /\ saved[b] <= row[b].qty

\* No task takes an executed row back: not the evening sweep, not the
\* cancellation of re-entries, not a late rejection.
ExecutionStays ==
    \A b \in Buys : row[b].st = "closed" => row'[b].st = "closed"

\* The monitor lowers a position only for shares sold and still counted in it.
SaleTakenOff ==
    mon.pc = "backfill" /\ pos.open /\ pos'.qty < pos.qty => sold.owed > 0

\* SAFETY whatever goes wrong.

\* No share is in a position before the execution that bought it is durable in
\* an order row of the same cycle, crashes between the two commits included.
ExecutedBeforePosition ==
    pos.open => /\ \E b \in Buys : row[b].qty > 0 /\ row[b].on >= pos.since
                /\ \A b \in pos.legs : row[b].qty > 0

\* What makes the former inductive: an executed row has its quantity, and
\* nothing without one is in the monitor's hands or on its backfill list.
RowsFirst ==
    \A b \in Buys : /\ book[b].st = "complete" => book[b].filled > 0
                    /\ row[b].st = "closed" => row[b].qty > 0
                    /\ row[b].on <= day
MonitorFirst ==
    /\ mon.leg # NoLeg => row[mon.leg].qty > 0
    /\ mon.pc = "backfill" => \A b \in mon.todo : row[b].qty > 0
ExecutionFirst == RowsFirst /\ MonitorFirst /\ ExecutedBeforePosition

\* After a cycle, a buy executed today has an open position as long as nothing
\* was sold: an outage or a restart does not lose it.
NewBuyHasPosition ==
    (mon.pc = "backfill" /\ mon.todo = {} /\ held > 0 /\ sold.today = 0)
        => \A b \in Buys : row[b].st = "closed" /\ row[b].on = day => pos.open

\* SAFETY of one scenario at a time: each of the above where it holds.  Outside
\* these scenarios the code breaks it (see the README).

\* With nothing else in the account, the holdings are empty after its sale, which the
\* backfill takes for no data.
Undisturbed     == exposed = {} /\ OtherHoldings
ReportsComplete == exposed \cap {"outage", "unfilled", "unseen"} = {}
NeverRestarted  == exposed \cap {"crash", "stop"} = {}

\* While nothing disturbs the process and the broker's reports, the position is
\* exactly what the orders explain: three paths write it, none adds a leg twice,
\* none leaves one out, and the account owns its shares.  Whatever happens, a buy
\* of the day has its position after a cycle.
PositionFaithful ==
    /\ Undisturbed => NoDoubleCount /\ PositionBacked /\ BackfillCovers
    /\ NewBuyHasPosition

\* The orders table is faithful: fills are aggregated once in every scenario of
\* crashes and partial fills; a cancelled row bought nothing while the process
\* stays up, whatever the reports leave out; and markers follow their execution
\* while the order report answers.
OrdersFaithful ==
    /\ ReportsComplete => ExecutionFaithful
    /\ NeverRestarted /\ "partial" \notin exposed => CancelledUnfilled
    /\ "outage" \notin exposed => MarkerHasExecution

\* Both tables are faithful to what the broker executed, each as far as the events of the
\* scenario allow.
TablesFaithful == PositionFaithful /\ OrdersFaithful

\* What is recorded is neither taken back nor counted again: executed rows stay so
\* while the order report answers, and a sale is taken off once while the process
\* stays up.
RecordedOnce ==
    [][/\ "outage" \notin exposed => ExecutionStays
       /\ NeverRestarted => SaleTakenOff]_vars

\* REFINEMENT: whatever goes wrong, both tables together follow the ledger.
Ledger == INSTANCE PositionLedger
            WITH recorded <- {b \in Buys : row[b].qty > 0}, open <- pos.open, legs <- pos.legs

\* Every step of the monitor, of the tasks and of a restart is one step of the
\* ledger or none: no execution is forgotten, and no position opens or takes a
\* leg before its execution is recorded.
LedgerKept == Ledger!Spec

\* LIVENESS, under FairSpec.

\* A fill of an order the monitor follows is recorded in its row, on the same
\* day or a later one, unless the shares are sold first or the process stops.
ExecutionRecorded ==
    \A b \in Buys : (book[b].st = "complete" /\ b \in tracked /\ NeverRestarted)
        ~> (row[b].st = "closed" \/ held = 0 \/ day = LastDay)

\* A recorded execution that a crash kept from the positions table reaches it,
\* on the same day or a later one, unless the shares are sold first.
PositionRecovered ==
    \A b \in Buys : (row[b].st = "closed" /\ ~pos.open /\ mark[b] = 0)
        ~> (pos.open \/ held = 0 \/ sold.today > 0 \/ day = LastDay)

\* What a buy brought reaches both tables in the end: its row, although reports fail or
\* leave it out, and then the position, although the process ended between the two.
BuysSettle == ExecutionRecorded /\ PositionRecovered
=============================================================================
