---------------------------- MODULE OrderPlacement ----------------------------
(***************************************************************************)
(* How the recommendations of a day become buy orders (auto_trade_engine.py *)
(* with its validation and its repositories): entries at 9:01, the retry   *)
(* of failed orders at 9:03, the look at what waits at 9:05, the analysis  *)
(* and the preview of the evening, the clean-up at 18:00.                  *)
(*                                                                         *)
(* An order is accepted by the broker before its signal is marked and its  *)
(* row is written, and the process may end between any two of the three.   *)
(* What is known of an order is its row; an order without one is taken for *)
(* the user's own, and adopted.  Prices and quantities are left open:      *)
(* whether they have changed, and whether the funds suffice, is a choice.  *)
(*                                                                         *)
(* Definitions named Mut... are deliberately wrong forms of the definition *)
(* that follows them; no action uses them (see the README).                *)
(***************************************************************************)
EXTENDS Integers, FiniteSets

CONSTANTS
    Symbols,       \* what the analysis looks at
    MaxPositions,  \* max_portfolio_size
    MaxOrders,     \* bound: orders at the broker that still matter
    MaxRows,       \* bound: order rows that still matter
    Exposures      \* bound: the events of a behaviour

NoSymbol == "none"
None   == 0
Orders == 1 .. MaxOrders
Rows   == 1 .. MaxRows

\* Each happens once in a behaviour.
EventKinds == {"short", "margin", "refused", "uncertain", "rejected", "norow", "noreport",
               "noholdings", "nocancel", "crash", "manual", "drop", "reject", "activate", "above"}

ASSUME PlacementAssumption ==
    /\ NoSymbol \notin Symbols /\ IsFiniteSet(Symbols)
    /\ MaxPositions \in Nat \ {0} /\ MaxOrders \in Nat \ {0} /\ MaxRows \in Nat \ {0}
    /\ Exposures \subseteq SUBSET EventKinds

VARIABLES
    signal,  \* signals (base) and user_signal_status (user)
    rows,    \* orders: buy rows, but the closed ones
    bought,  \* symbols with a CLOSED buy row
    book,    \* the broker's orders
    owned,   \* the account's holdings
    pos,     \* open positions
    phase,   \* before 9:15, until 15:30, after
    done,    \* tasks_completed
    job,     \* the task the worker runs
    events, exposed

vars == <<signal, rows, bought, book, owned, pos, phase, done, job, events, exposed>>

-----------------------------------------------------------------------------
Happens(kind) == kind \in exposed \ events /\ events' = events \cup {kind}

NoRow   == [sym |-> NoSymbol, st |-> "none", order |-> None, age |-> 0]
NotSent == [sym |-> NoSymbol, st |-> "none", by |-> "system"]
Ready   == [task |-> "none", step |-> "next", todo |-> {}, room |-> FALSE, blind |-> FALSE,
            seen |-> {}, sym |-> NoSymbol, row |-> None, order |-> None]
Idle    == job = Ready

Live == {o \in Orders : book[o].st = "open"}
RowsOf(rs, s, sts) == {r \in Rows : rs[r].sym = s /\ rs[r].st \in sts}
Pending(rs, s) == RowsOf(rs, s, {"pending"}) # {}

\* Rows and orders nobody looks at any more leave their numbers to others.
InUse(j)   == {j.row} \cup IF j.task = "retry" THEN j.todo ELSE {}
Tidy(rs, j) ==
    [r \in Rows |-> IF rs[r].st = "cancelled" /\ r \notin InUse(j)
                       /\ (rs[r].order = None \/ book[rs[r].order].st # "open")
                    THEN NoRow ELSE rs[r]]
SpareOrders == {o \in Orders : book[o].st # "open" /\ o # job.order /\ o \notin job.seen
                                /\ \A r \in Rows : rows[r].order # o}
SpareRows   == {r \in Rows : rows[r] = NoRow}
FreeOrder   == CHOOSE o \in SpareOrders : TRUE
FreeRow     == CHOOSE r \in SpareRows : TRUE

\* check_portfolio_capacity
InFlight == {s \in Symbols : s \in pos \/ Pending(rows, s)}
HasCapacity == Cardinality(InFlight) < MaxPositions

\* _check_for_manual_orders: orders whose id no row has, whatever its status.
MutStrangers(s, report) == {}
Strangers(s, report) ==
    {o \in report : book[o].sym = s /\ \A r \in Rows : rows[r].order # o}

\* _mark_signal_as_failed, after a row of the symbol got its new status.
Spent(rs, s) == signal[s].user = "traded" /\ ~Pending(rs, s)
SignalsAfter(rs, S) ==
    [s \in Symbols |-> IF s \in S /\ Spent(rs, s) THEN [signal[s] EXCEPT !.user = "failed"]
                                                  ELSE signal[s]]

\* A row gets a status and its signal fails: mark_failed, mark_rejected, mark_cancelled.
Settle(r, st) ==
    LET rs == [rows EXCEPT ![r].st = st]
    IN  rows' = rs /\ signal' = SignalsAfter(rs, {rows[r].sym})

\* create_amo returns a pending row of the symbol where there is one.
Created(s, o) ==
    IF Pending(rows, s) THEN rows
    ELSE [rows EXCEPT ![FreeRow] = [NoRow EXCEPT !.sym = s, !.st = "pending", !.order = o]]

\* _add_failed_order
AddFailed(s) ==
    LET failed == RowsOf(rows, s, {"failed"})
        rs == Created(s, None)
        r  == IF failed # {} THEN CHOOSE f \in failed : TRUE
                             ELSE CHOOSE p \in RowsOf(rs, s, {"pending"}) : TRUE
        final == IF failed # {} THEN rows ELSE [rs EXCEPT ![r].st = "failed"]
    IN  SpareRows # {} /\ rows' = final /\ signal' = SignalsAfter(final, {s})

-----------------------------------------------------------------------------
(* The start of a task *)

Recommended == {s \in Symbols : signal[s] = [base |-> "active", user |-> "none"]}

\* place_new_entries, or the preview of the evening: the report is read once.
StartEntries ==
    /\ Idle
    /\ \E task \in {"buys", "preview"} :
        /\ ~done[task] /\ phase = IF task = "buys" THEN "pre" ELSE "closed"
        /\ task = "preview" => done["analysis"]
        /\ done' = [done EXCEPT ![task] = TRUE]
        /\ \E blind \in BOOLEAN, seen \in {{}, Live} :
            /\ job' = [Ready EXCEPT !.task = task, !.todo = Recommended,
                                    !.blind = blind, !.seen = seen]
            /\ \/ ~blind /\ seen = Live /\ UNCHANGED events
               \/ blind /\ seen = Live /\ Happens("noholdings")
               \/ ~blind /\ seen = {} /\ Happens("noreport")
    /\ UNCHANGED <<signal, rows, bought, book, owned, pos, phase>>

\* get_retriable_failed_orders: until the close of the next trading day.
MutExpired == {}
Expired == {r \in Rows : rows[r].st = "failed" /\ rows[r].age > 1}

\* retry_pending_orders_from_db: the capacity is read once.
StartRetry ==
    /\ Idle /\ phase = "pre" /\ done["buys"] /\ ~done["retry"]
    /\ done' = [done EXCEPT !["retry"] = TRUE]
    /\ LET rs == [r \in Rows |-> IF r \in Expired THEN [rows[r] EXCEPT !.st = "cancelled"]
                                                  ELSE rows[r]]
       IN  /\ \E blind \in BOOLEAN :
                /\ IF blind THEN Happens("noholdings") ELSE UNCHANGED events
                /\ job' = [Ready EXCEPT !.task = "retry", !.room = HasCapacity, !.blind = blind,
                                        !.todo = {r \in Rows : rs[r].st = "failed"}]
           /\ rows' = Tidy(rs, job')
           /\ signal' = SignalsAfter(rs, {rows[r].sym : r \in Expired})
    /\ UNCHANGED <<bought, book, owned, pos, phase>>

\* adjust_amo_quantities_premarket, where it is enabled: every buy order that waits, the
\* user's too.
StartAdjust ==
    /\ Idle /\ phase = "pre" /\ done["retry"] /\ ~done["adjust"]
    /\ done' = [done EXCEPT !["adjust"] = TRUE]
    /\ job' \in {Ready, [Ready EXCEPT !.task = "adjust", !.todo = Live, !.seen = Live]}
    /\ UNCHANGED <<signal, rows, bought, book, owned, pos, phase, events>>

EndTask ==
    /\ job.task # "none" /\ job.step = "next" /\ job.todo = {}
    /\ job' = Ready
    /\ rows' = Tidy(rows, Ready)
    /\ UNCHANGED <<signal, bought, book, owned, pos, phase, done, events>>

-----------------------------------------------------------------------------
(* An entry *)

Skip(x) == job' = [job EXCEPT !.todo = @ \ {x}]
Funds(s, r, x) == job' = [job EXCEPT !.todo = @ \ {x}, !.step = "funds", !.sym = s, !.row = r]

Entry(s)  == job.task \in {"buys", "preview"} /\ job.step = "next" /\ s \in job.todo
Held(s)   == s \in owned /\ ~job.blind
Open(s)   == ~(s \in pos) /\ HasCapacity /\ ~Held(s)
Known(s)  == RowsOf(rows, s, {"pending", "failed"})

\* A position, no data or a share of the account: the next.  No capacity: the end.
SkipEntry(s) ==
    /\ Entry(s)
    /\ \/ (s \in pos \/ HasCapacity) /\ Skip(s)
       \/ s \notin pos /\ ~HasCapacity /\ job' = [job EXCEPT !.todo = {}]
    /\ UNCHANGED <<signal, rows, bought, book, owned, pos, phase, done, events>>

AdoptEntry(s) ==
    /\ Entry(s) /\ Open(s) /\ SpareRows # {}
    /\ \E o \in Strangers(s, job.seen) : rows' = Created(s, o)
    /\ Skip(s)
    /\ UNCHANGED <<signal, bought, book, owned, pos, phase, done, events>>

\* check_duplicate_order: a closed row is a duplicate as well.
Fresh(s) == Known(s) = {} /\ s \notin bought

PassEntry(s) ==
    /\ Entry(s) /\ Open(s) /\ Strangers(s, job.seen) = {} /\ Fresh(s)
    /\ Funds(s, None, s)
    /\ UNCHANGED <<signal, rows, bought, book, owned, pos, phase, done, events>>

\* The price or the quantity has changed: what waits for the symbol is cancelled at the
\* broker, or not, and the row is cancelled.
Replaced(s) == {o \in Live : book[o].sym = s}

ReplaceEntry(s) ==
    /\ Entry(s) /\ Open(s) /\ Strangers(s, job.seen) = {}
    /\ \E r \in Known(s) : rows' = [rows EXCEPT ![r].st = "cancelled"]
    /\ \/ /\ book' = [o \in Orders |-> IF o \in Replaced(s)
                                       THEN [book[o] EXCEPT !.st = "cancelled"] ELSE book[o]]
          /\ UNCHANGED events
       \/ (Happens("nocancel") \/ Happens("noreport")) /\ UNCHANGED book
    /\ Funds(s, None, s)
    /\ UNCHANGED <<signal, bought, owned, pos, phase, done>>

-----------------------------------------------------------------------------
(* The retry of a row; that the row was dropped meanwhile is not looked at *)

Row(r)   == job.task = "retry" /\ job.step = "next" /\ r \in job.todo
Alike(s) == Pending(rows, s) \/ s \in bought \/ Held(s)

Retriable(r) == Row(r) /\ rows[r].sym \notin pos /\ job.room /\ ~Alike(rows[r].sym)

SkipRow(r) ==
    /\ Row(r)
    /\ \/ /\ rows[r].sym \in pos \/ (job.room /\ Alike(rows[r].sym))
          /\ Settle(r, "cancelled") /\ Skip(r)
       \/ /\ rows[r].sym \notin pos /\ ~job.room
          /\ job' = [job EXCEPT !.todo = {}] /\ UNCHANGED <<rows, signal>>
       \/ rows[r].sym \notin pos /\ Skip(r) /\ UNCHANGED <<rows, signal>>
       \/ Retriable(r) /\ Settle(r, "failed") /\ Skip(r)
    /\ UNCHANGED <<bought, book, owned, pos, phase, done, events>>

AdoptRow(r) ==
    /\ Retriable(r)
    /\ \E o \in Strangers(rows[r].sym, Live) :
           rows' = [rows EXCEPT ![r].st = "pending", ![r].order = o]
    /\ Skip(r)
    /\ UNCHANGED <<signal, bought, book, owned, pos, phase, done, events>>

PassRow(r) ==
    /\ Retriable(r)
    /\ \/ Strangers(rows[r].sym, Live) = {} /\ UNCHANGED events
       \/ Happens("noreport")
    /\ Funds(rows[r].sym, r, r)
    /\ UNCHANGED <<signal, rows, bought, book, owned, pos, phase, done>>

-----------------------------------------------------------------------------
(* Funds, the broker's answer, and _attempt_place_order *)

Over == job' = [job EXCEPT !.step = "next", !.sym = NoSymbol, !.row = None, !.order = None]
Retrying == job.task = "retry"

\* Too little money, or no answer about it: a failed row; a retry leaves its own.
NoFunds ==
    /\ job.step = "funds" /\ Over
    /\ \/ Happens("short")
       \/ Happens("margin")
    /\ IF Retrying \/ (job.task = "preview" /\ "margin" \notin events') THEN UNCHANGED <<rows, signal>>
                                                                    ELSE AddFailed(job.sym)
    /\ UNCHANGED <<bought, book, owned, pos, phase, done>>

PreviewOnly ==
    /\ job.step = "funds" /\ job.task = "preview" /\ Over
    /\ UNCHANGED <<signal, rows, bought, book, owned, pos, phase, done, events>>

Sent(o) == /\ SpareOrders # {}
           /\ book' = [book EXCEPT ![o] = [sym |-> job.sym, st |-> "open", by |-> "system"]]

\* The broker refuses; or it has the order, and its number is lost.
Refused ==
    /\ job.step = "funds" /\ job.task # "preview" /\ Over
    /\ \/ Happens("refused") /\ UNCHANGED book
       \/ Happens("uncertain") /\ Sent(FreeOrder)
    /\ IF Retrying THEN Settle(job.row, "failed") ELSE AddFailed(job.sym)
    /\ UNCHANGED <<bought, owned, pos, phase, done>>

Accepted ==
    /\ job.step = "funds" /\ job.task # "preview"
    /\ Sent(FreeOrder)
    /\ job' = [job EXCEPT !.step = "accepted", !.order = FreeOrder]
    /\ UNCHANGED <<signal, rows, bought, owned, pos, phase, done, events>>

\* mark_as_traded, whatever the status of the signal was.
Trade ==
    /\ job.step = "accepted"
    /\ signal' = [signal EXCEPT ![job.sym].user = "traded"]
    /\ job' = [job EXCEPT !.step = "traded"]
    /\ UNCHANGED <<rows, bought, book, owned, pos, phase, done, events>>

\* add_pending_order, whose failure is swallowed.
Write ==
    /\ job.step = "traded"
    /\ \/ SpareRows # {} /\ rows' = Created(job.sym, job.order) /\ UNCHANGED events
       \/ Happens("norow") /\ UNCHANGED rows
    /\ job' = [job EXCEPT !.step = "written"]
    /\ UNCHANGED <<signal, bought, book, owned, pos, phase, done>>

\* _verify_order_placement, seconds later.
Verify ==
    /\ job.step = "written"
    /\ LET mine == {r \in Rows : rows[r].order = job.order}
       IN  IF book[job.order].st = "rejected" /\ mine # {}
           THEN \E r \in mine : Settle(r, "failed")
           ELSE UNCHANGED <<rows, signal>>
    /\ IF Retrying THEN job' = [job EXCEPT !.step = "verified"] ELSE Over
    /\ UNCHANGED <<bought, book, owned, pos, phase, done, events>>

\* The row that was retried gets the order too.
Relink ==
    /\ job.step = "verified" /\ Over
    /\ rows' = Tidy([rows EXCEPT ![job.row].st = "pending", ![job.row].order = job.order], job')
    /\ UNCHANGED <<signal, bought, book, owned, pos, phase, done, events>>

-----------------------------------------------------------------------------
(* Premarket *)

Waiting(o) == job.task = "adjust" /\ job.step = "next" /\ o \in job.todo

\* No price, nothing to change, a quantity that is changed at the broker and in the row,
\* or a request that fails.
LeaveOrder(o) ==
    /\ Waiting(o) /\ Skip(o)
    /\ UNCHANGED <<signal, rows, bought, book, owned, pos, phase, done, events>>

\* A price above the average: the order is cancelled, then its row is.
CancelAbove(o) ==
    /\ Waiting(o) /\ o \in Live /\ Happens("above")
    /\ book' = [book EXCEPT ![o].st = "cancelled"]
    /\ job' = [job EXCEPT !.todo = @ \ {o}, !.step = "gone", !.order = o]
    /\ UNCHANGED <<signal, rows, bought, owned, pos, phase, done>>

\* The signal is not touched.  get_by_broker_order_id raises where a retry left two rows
\* with the order's number; that and a failing write are swallowed.
WriteOff ==
    /\ job.step = "gone" /\ Over
    /\ LET mine == {r \in Rows : rows[r].order = job.order}
       IN  \/ Cardinality(mine) # 1 /\ UNCHANGED <<rows, events>>
           \/ /\ Cardinality(mine) = 1 /\ UNCHANGED events
              /\ rows' = [r \in Rows |-> IF r \in mine THEN [rows[r] EXCEPT !.st = "cancelled"]
                                                      ELSE rows[r]]
           \/ Cardinality(mine) = 1 /\ Happens("norow") /\ UNCHANGED rows
    /\ UNCHANGED <<signal, bought, book, owned, pos, phase, done>>

-----------------------------------------------------------------------------
(* The broker, the order monitor, the user *)

Fill(o) ==
    /\ phase = "open" /\ o \in Live
    /\ book' = [book EXCEPT ![o].st = "filled"]
    /\ owned' = owned \cup {book[o].sym}
    /\ UNCHANGED <<signal, rows, bought, pos, phase, done, job, events>>

Reject(o) ==
    /\ phase # "closed" /\ o \in Live /\ Happens("rejected")
    /\ book' = [book EXCEPT ![o].st = "rejected"]
    /\ UNCHANGED <<signal, rows, bought, owned, pos, phase, done, job>>

\* The monitor reads the report of an order with a pending row.
Learn(r) ==
    /\ phase = "open" /\ rows[r].st = "pending" /\ rows[r].order # None
    /\ LET s == rows[r].sym  st == book[rows[r].order].st
       IN  \/ /\ st = "filled"
              /\ rows' = [rows EXCEPT ![r] = NoRow] /\ UNCHANGED signal
              /\ bought' = bought \cup {s} /\ pos' = pos \cup {s}
           \/ st = "rejected" /\ Settle(r, "failed") /\ UNCHANGED <<bought, pos>>
           \/ st = "cancelled" /\ Settle(r, "cancelled") /\ UNCHANGED <<bought, pos>>
    /\ UNCHANGED <<book, owned, phase, done, job, events>>

Sale(s) ==
    /\ phase = "open" /\ s \in pos
    /\ pos' = pos \ {s} /\ owned' = owned \ {s}
    /\ UNCHANGED <<signal, rows, bought, book, phase, done, job, events>>

ManualOrder(s) ==
    /\ phase # "closed" /\ Happens("manual") /\ SpareOrders # {}
    /\ book' = [book EXCEPT ![FreeOrder] = [sym |-> s, st |-> "open", by |-> "user"]]
    /\ UNCHANGED <<signal, rows, bought, owned, pos, phase, done, job>>

\* drop_order
Drop(r) ==
    /\ rows[r].st = "failed" /\ Happens("drop")
    /\ Settle(r, "cancelled")
    /\ UNCHANGED <<bought, book, owned, pos, phase, done, job>>

\* reject_signal, activate_signal
Decide(s) ==
    /\ \/ Happens("reject") /\ signal[s].base # "none"
          /\ signal' = [signal EXCEPT ![s].user = "rejected"]
       \/ Happens("activate") /\ signal[s].base = "active"
          /\ signal' = [signal EXCEPT ![s].user = "none"]
    /\ UNCHANGED <<rows, bought, book, owned, pos, phase, done, job>>

-----------------------------------------------------------------------------
(* The day *)

\* The analysis: an active signal stays, or expires; for another a new one comes.
Analysed(s, buy) ==
    IF buy THEN IF signal[s].base = "active" THEN signal[s]
                                             ELSE [base |-> "active", user |-> "none"]
    ELSE IF signal[s].base = "active" THEN [signal[s] EXCEPT !.base = "expired"] ELSE signal[s]

Analysis ==
    /\ Idle /\ phase = "closed" /\ ~done["analysis"]
    /\ done' = [done EXCEPT !["analysis"] = TRUE]
    /\ \E buys \in SUBSET Symbols : signal' = [s \in Symbols |-> Analysed(s, s \in buys)]
    /\ UNCHANGED <<rows, bought, book, owned, pos, phase, job, events>>

Older(age) == IF age < 3 THEN age + 1 ELSE age     \* bound: older is as old

\* The monitor has hours to see what filled.
Seen == \A r \in Rows :
            rows[r].st = "pending" /\ rows[r].order # None /\ book[rows[r].order].st = "filled"
                => rows[r].sym \in bought

Clock ==
    /\ Idle
    /\ \/ phase = "pre" /\ done["adjust"] /\ phase' = "open" /\ UNCHANGED book
       \/ /\ phase = "open" /\ Seen /\ phase' = "closed"
          /\ book' = [o \in Orders |-> IF o \in Live THEN [book[o] EXCEPT !.st = "lapsed"] ELSE book[o]]
    /\ UNCHANGED <<signal, rows, bought, owned, pos, done, job, events>>

\* run_eod_cleanup: signals of positions and pending rows are marked, then the rows
\* are cancelled.
Cleanup ==
    /\ Idle /\ phase = "closed" /\ done["analysis"] /\ done["preview"]
    /\ LET rs == [r \in Rows |-> IF rows[r].st = "pending" THEN [rows[r] EXCEPT !.st = "cancelled"]
                                 ELSE [rows[r] EXCEPT !.age = IF rows[r].st = "failed" THEN Older(@) ELSE @]]
           swept  == {rows[r].sym : r \in {q \in Rows : rows[q].st = "pending"}}
       IN  /\ rows' = Tidy(rs, Ready)
           /\ signal' = [s \in Symbols |->
                  IF signal[s].base = "none" THEN signal[s]
                  ELSE IF s \in swept THEN [signal[s] EXCEPT !.user = "failed"]
                  ELSE IF s \in pos THEN [signal[s] EXCEPT !.user = "traded"] ELSE signal[s]]
    /\ book' = [o \in Orders |-> IF \E r \in Rows : rows'[r].order = o THEN book[o] ELSE NotSent]
    /\ done' = [t \in DOMAIN done |-> FALSE]
    /\ phase' = "pre"
    /\ UNCHANGED <<bought, owned, pos, job, events>>

\* The process ends, it may be between the two commits of _add_failed_order; whether it
\* is back within a task's two minutes is open.
Crash ==
    /\ Happens("crash")
    /\ job' = Ready
    /\ \E late \in BOOLEAN : done' = [t \in DOMAIN done |-> late]
    /\ \/ rows' = Tidy(rows, Ready)
       \/ /\ job.step = "funds" /\ ~Retrying /\ RowsOf(rows, job.sym, {"failed"}) = {}
          /\ SpareRows # {}
          /\ rows' = Created(job.sym, None)
    /\ UNCHANGED <<signal, bought, book, owned, pos, phase>>

Init ==
    /\ signal = [s \in Symbols |-> [base |-> "active", user |-> "none"]]
    /\ rows = [r \in Rows |-> NoRow] /\ bought = {}
    /\ book = [o \in Orders |-> NotSent] /\ owned = {} /\ pos = {}
    /\ phase = "pre"
    /\ done = [t \in {"buys", "retry", "adjust", "analysis", "preview"} |-> FALSE]
    /\ job = Ready /\ events = {} /\ exposed \in Exposures

Proceed ==
    \/ \E s \in Symbols : SkipEntry(s) \/ AdoptEntry(s) \/ PassEntry(s) \/ ReplaceEntry(s)
    \/ \E r \in Rows : SkipRow(r) \/ AdoptRow(r) \/ PassRow(r)
    \/ \E o \in Orders : LeaveOrder(o) \/ CancelAbove(o)
    \/ NoFunds \/ PreviewOnly \/ Refused \/ Accepted \/ Trade \/ Write \/ Verify \/ Relink
    \/ WriteOff \/ EndTask

Tasks == StartEntries \/ StartRetry \/ StartAdjust \/ Analysis \/ Cleanup \/ Clock \/ Proceed

Others ==
    \/ \E o \in Orders : Fill(o) \/ Reject(o)
    \/ \E r \in Rows : Learn(r) \/ Drop(r)
    \/ \E s \in Symbols : Sale(s) \/ ManualOrder(s) \/ Decide(s)
    \/ Crash

Keep(A) == A /\ UNCHANGED exposed
Next == Keep(Tasks \/ Others)
Spec == Init /\ [][Next]_vars

\* The worker goes on, the monitor looks each minute, and the days pass.
FairSpec == Spec /\ WF_vars(Keep(Tasks)) /\ WF_vars(Keep(\E r \in Rows : Learn(r)))

-----------------------------------------------------------------------------
(* Properties *)

\* Every variable stays within its type; and no failed row sees a third evening, unless
\* the process was away when it should have expired.
TypeOK ==
    /\ signal \in [Symbols -> [base : {"none", "active", "expired"},
                               user : {"none", "traded", "failed", "rejected"}]]
    /\ rows \in [Rows -> [sym : Symbols \cup {NoSymbol}, order : Orders \cup {None}, age : 0 .. 3,
                          st : {"none", "pending", "failed", "cancelled"}]]
    /\ book \in [Orders -> [sym : Symbols \cup {NoSymbol}, by : {"system", "user"},
                            st : {"none", "open", "filled", "rejected", "cancelled", "lapsed"}]]
    /\ bought \subseteq Symbols /\ owned \subseteq Symbols /\ pos \subseteq Symbols
    /\ phase \in {"pre", "open", "closed"} /\ events \subseteq exposed /\ exposed \in Exposures
    /\ job.task \in {"none", "buys", "retry", "adjust", "preview"}
    /\ \A r \in Rows : rows[r].age = 3 => "crash" \in events
    /\ job.row \in Rows \cup {None} /\ job.order \in Orders \cup {None}

Unexposed(kinds) == exposed \cap kinds = {}
System(s) == {o \in Live : book[o].by = "system" /\ book[o].sym = s}

Lossless == Unexposed({"crash", "norow", "uncertain", "noreport", "nocancel"})
Failures == {"short", "margin", "refused", "rejected"}

\* SAFETY

\* However entries and retries follow each other, and although orders get lost between
\* broker and table: no symbol has two orders of the system, or one beside its position
\* or beside shares the account owns, unless a report or a cancellation fails or the user
\* buys as well.  Where no order gets lost and one row at most is retried, positions and
\* orders together stay within the limit.
OneOrder(s) ==
    /\ Cardinality(System(s)) <= 1
    /\ Unexposed({"manual"}) => System(s) = {} \/ s \notin pos
    /\ Unexposed({"manual", "noholdings"}) => System(s) = {} \/ s \notin owned

OnePerSymbol == Unexposed({"noreport", "nocancel"}) => \A s \in Symbols : OneOrder(s)

OrdersBounded ==
    /\ OnePerSymbol
    /\ Lossless /\ Cardinality(exposed \cap Failures) <= 1 =>
           Cardinality({s \in Symbols : s \in pos \/ System(s) # {}}) <= MaxPositions

\* Once the market is open, and where no order gets lost, a row follows every order of the
\* system, and a signal shown as traded has an order, a position, or had one (unless 9:05
\* cancelled the order, which leaves the signal as it was).
Accounted ==
    phase = "open" /\ Lossless =>
        /\ \A s \in Symbols : \A o \in System(s) :
               \E r \in Rows : rows[r].st = "pending" /\ rows[r].order = o
        /\ \A s \in Symbols : signal[s].user = "traded" /\ Unexposed({"above"})
                                => Pending(rows, s) \/ s \in bought

\* No order too many, and none that is not accounted for.
OrdersSound == OrdersBounded /\ Accounted

\* LIVENESS, under FairSpec

\* A failed order does not stay one: it is placed, cancelled or expires, whatever happens.
FailedSettles ==
    \A s \in Symbols : RowsOf(rows, s, {"failed"}) # {} ~> RowsOf(rows, s, {"failed"}) = {}
=============================================================================
