----------------------------- MODULE ReentryLadder -----------------------------
(***************************************************************************)
(* How an open position is bought again (auto_trade_engine.py, the guard   *)
(* of reentry_day_guard.py, the legs unified_order_monitor.py writes): at  *)
(* 9:01 the daily RSI decides on a level, 30, 20 or 10; each level is for  *)
(* one re-entry of a cycle, and a recovery above 30 begins a new cycle.    *)
(*                                                                         *)
(* One position, from its entry on.  Cycles are counted as the code        *)
(* compares them: the first or a later one, the current one or an old one. *)
(* Quantities and prices are left out.                                     *)
(*                                                                         *)
(* Definitions named Mut... are deliberately wrong forms of the definition *)
(* that follows them; no action uses them (see the README).                *)
(***************************************************************************)
EXTENDS Integers, FiniteSets

CONSTANTS
    Readings,   \* values of the daily RSI
    MaxOrders,  \* bound: orders of one day
    Exposures   \* bound: the events of a behaviour

Levels == {10, 20, 30}
None   == 0
Orders == 1 .. MaxOrders

\* Each happens once in a behaviour.
EventKinds == {"short", "nometa", "norow", "rejected", "unseen", "crash", "runonce",
               "away"}

ASSUME LadderAssumption ==
    /\ Readings \subseteq Nat /\ MaxOrders \in Nat \ {0}
    /\ Exposures \subseteq SUBSET EventKinds

VARIABLES
    entry,   \* entry_rsi of the position
    meta,    \* _cycle_metadata: RSI was above 30; today's value is noted; the first cycle
    legs,    \* levels of the re-entries recorded in the current cycle
    orders,  \* re-entry orders: at the broker, and their rows
    task,    \* place_reentry_orders at this position
    done,    \* tasks_completed: the buy task of the day
    phase,   \* before 9:15, until 15:30, after
    rsi,     \* the RSI of the day: of the day before, that is
    bought,  \* history: levels bought since RSI was last above 30, the entry's included
    today,   \* history: levels bought today
    events, exposed

vars == <<entry, meta, legs, orders, task, done, phase, rsi, bought, today, events, exposed>>

-----------------------------------------------------------------------------
Happens(kind) == kind \in exposed \ events /\ events' = events \cup {kind}

NoOrder == [level |-> None, st |-> "none", row |-> "none", now |-> TRUE, fresh |-> TRUE]
Ready   == [step |-> "none", meta |-> [above |-> FALSE, seen |-> FALSE, first |-> TRUE],
            legs |-> {}, level |-> None, reset |-> FALSE, order |-> None]
Waiting == {o \in Orders : orders[o].st = "open"}

\* The level a reading reaches: the lowest.
LevelOf(r) ==
    IF \E l \in Levels : r < l THEN CHOOSE l \in Levels : r < l /\ \A k \in Levels : r < k => l <= k
                               ELSE None

\* Levels the entry stands for.
EntryLevels == {l \in Levels : entry < l}

\* Taken: what the entry or a leg reached, and every level above.
MutTaken(reached) == reached \cup EntryLevels
Taken(reached) == {l \in Levels : \E k \in reached \cup EntryLevels : k <= l}

\* A fall below 30 after RSI was above: a reset, and every level is free again.
Fallen(m) == rsi < 30 /\ m.above

\* _determine_reentry_level, on the position as it was read.
NextLevel(m, reached) ==
    IF ~Fallen(m) /\ LevelOf(rsi) \in Taken(reached) THEN None ELSE LevelOf(rsi)

\* _set_position_cycle_metadata: the flag of a recovery is set, and never cleared, for
\* None keeps what is there.
Updated(m) ==
    [above |-> m.above \/ rsi > 30, seen |-> TRUE, first |-> m.first /\ ~Fallen(m)]

\* has_reentry_at_level: of this cycle, or the entry's unless RSI has just fallen.
MutRepeated(level, reset) == level \in legs \cup EntryLevels
Repeated(level, reset) == level \in legs \/ (~reset /\ level \in EntryLevels)

\* has_reentry_at_level_today: rows and legs of today, of whatever cycle.
UsedToday(level) ==
    \E o \in Orders : /\ orders[o].level = level /\ orders[o].fresh
                      /\ orders[o].row \in {"pending", "executed", "recorded"}

\* has_active_buy_order: in the broker's report, or a row that has not been executed.  The
\* report may fail or name its fields otherwise, and shows nothing then.
Active(report) == report # {} \/ \E o \in Orders : orders[o].row = "pending"

FreeOrder == CHOOSE o \in Orders : orders[o] = NoOrder

-----------------------------------------------------------------------------
(* The task *)

\* The list of open positions is read; a run by hand may come at any time of the day.
Start ==
    /\ task.step = "none"
    /\ \/ phase = "pre" /\ ~done /\ UNCHANGED events
       \/ phase # "closed" /\ done /\ Happens("runonce")
    /\ done' = TRUE
    /\ task' = [Ready EXCEPT !.step = "evaluate", !.meta = meta, !.legs = legs]
    /\ UNCHANGED <<entry, meta, legs, orders, phase, rsi, bought, today>>

\* The cycle's data are written with the legs as they were read, in a commit of their own
\* before any check; a failing write is no reason to stop.
Evaluate ==
    /\ task.step = "evaluate"
    /\ LET m == task.meta
           level == NextLevel(m, task.legs)
           news == rsi > 30 \/ Fallen(m) \/ ~m.seen
       IN  /\ \/ ~news /\ UNCHANGED <<meta, legs, orders, events>>
              \/ /\ news /\ UNCHANGED events
                 /\ meta' = Updated(m)
                 /\ legs' = IF Fallen(m) THEN {} ELSE task.legs
                 /\ orders' = [o \in Orders |->
                        [orders[o] EXCEPT !.now = @ /\ (~Fallen(m) \/ orders[o] = NoOrder)]]
              \/ news /\ Happens("nometa") /\ UNCHANGED <<meta, legs, orders>>
           /\ task' = IF level = None THEN Ready
                      ELSE [Ready EXCEPT !.step = "check", !.level = level, !.reset = Fallen(m)]
    /\ UNCHANGED <<entry, done, phase, rsi, bought, today>>

Blocked(report) ==
    \/ Repeated(task.level, task.reset)
    \/ UsedToday(task.level)
    \/ Active(report)

\* A duplicate, or no funds: on to the next position.
Skip ==
    /\ task.step = "check"
    /\ task' = Ready
    /\ \/ Blocked(Waiting) /\ UNCHANGED events
       \/ ~Blocked({}) /\ Happens("short")
    /\ UNCHANGED <<entry, meta, legs, orders, done, phase, rsi, bought, today>>

\* The broker has the order.  Bound: as many as Orders has.
Place ==
    /\ task.step = "check" /\ \E o \in Orders : orders[o] = NoOrder
    /\ \E report \in {Waiting, {}} : ~Blocked(report)
    /\ orders' = [orders EXCEPT ![FreeOrder] = [NoOrder EXCEPT !.level = task.level, !.st = "open"]]
    /\ task' = [task EXCEPT !.step = "accepted", !.order = FreeOrder]
    /\ UNCHANGED <<entry, meta, legs, done, phase, rsi, bought, today, events>>

\* Its row; a failing write is swallowed.
Write ==
    /\ task.step = "accepted"
    /\ \/ orders' = [orders EXCEPT ![task.order].row = "pending"] /\ UNCHANGED events
       \/ Happens("norow") /\ UNCHANGED orders
    /\ task' = Ready
    /\ UNCHANGED <<entry, meta, legs, done, phase, rsi, bought, today>>

-----------------------------------------------------------------------------
(* The broker, the user and the order monitor *)

Fill(o) ==
    /\ phase = "open" /\ o \in Waiting
    /\ orders' = [orders EXCEPT ![o].st = "filled"]
    /\ bought' = bought \cup {orders[o].level}
    /\ today' = today \cup {orders[o].level}
    /\ UNCHANGED <<entry, meta, legs, task, done, phase, rsi, events>>

\* Rejected by the exchange, or cancelled by the user; the monitor closes the row.
Reject(o) ==
    /\ phase # "closed" /\ o \in Waiting /\ task.order # o /\ Happens("rejected")
    /\ orders' = [orders EXCEPT ![o].st = "gone", ![o].row = "none"]
    /\ UNCHANGED <<entry, meta, legs, task, done, phase, rsi, bought, today>>

\* mark_executed
Execute(o) ==
    /\ phase = "open" /\ orders[o].st = "filled" /\ orders[o].row = "pending"
    /\ orders' = [orders EXCEPT ![o].row = "executed"]
    /\ UNCHANGED <<entry, meta, legs, task, done, phase, rsi, bought, today, events>>

\* The leg, with the level and the cycle its order was placed for.
Legs(o) == IF orders[o].now THEN legs \cup {orders[o].level} ELSE legs

Record(o) ==
    /\ phase # "closed" /\ orders[o].row = "executed"
    /\ legs' = Legs(o)
    /\ orders' = [orders EXCEPT ![o].row = "recorded"]
    /\ UNCHANGED <<entry, meta, task, done, phase, rsi, bought, today, events>>

-----------------------------------------------------------------------------
(* The day *)

Unrecorded == {o \in Orders : orders[o].st = "filled" /\ orders[o].row \in {"pending", "executed"}}

\* The service may be away in the morning, or skip its buys for arrears; the monitor has
\* hours to see a fill.
Clock ==
    /\ task.step = "none"
    /\ \/ /\ phase = "pre" /\ phase' = "open"
          /\ (done /\ UNCHANGED events) \/ (~done /\ Happens("away"))
       \/ /\ phase = "open" /\ phase' = "closed"
          /\ (Unrecorded = {} /\ UNCHANGED events) \/ (Unrecorded # {} /\ Happens("unseen"))
    /\ UNCHANGED <<entry, meta, legs, orders, task, done, rsi, bought, today>>

\* DAY orders lapse, and run_eod_cleanup cancels the rows that are still pending.
MutKept(o) == orders[o].row \in {"pending", "executed"}
Kept(o) == orders[o].row = "executed"

NextDay ==
    /\ phase = "closed" /\ phase' = "pre"
    /\ orders' = [o \in Orders |-> IF Kept(o) THEN [orders[o] EXCEPT !.fresh = FALSE] ELSE NoOrder]
    /\ done' = FALSE
    /\ rsi' \in Readings
    /\ bought' = IF rsi' > 30 THEN {} ELSE bought
    /\ today' = {}
    /\ meta' = [meta EXCEPT !.seen = FALSE]
    /\ UNCHANGED <<entry, legs, task, events>>

\* The process ends; the day's task is done again if it is back within two minutes.
Crash ==
    /\ Happens("crash")
    /\ task' = Ready
    /\ done' \in IF phase = "pre" THEN BOOLEAN ELSE {TRUE}
    /\ UNCHANGED <<entry, meta, legs, orders, phase, rsi, bought, today>>

Init ==
    /\ entry \in Readings
    /\ meta = [above |-> FALSE, seen |-> FALSE, first |-> TRUE]
    /\ legs = {} /\ orders = [o \in Orders |-> NoOrder]
    /\ task = Ready /\ done = FALSE /\ phase = "pre"
    /\ rsi \in Readings
    /\ bought = IF rsi > 30 THEN {} ELSE EntryLevels
    /\ today = {}
    /\ events = {} /\ exposed \in Exposures

Task    == Start \/ Evaluate \/ Skip \/ Place \/ Write
Monitor == \E o \in Orders : Execute(o) \/ Record(o)
Days    == Clock \/ NextDay
Others  == Crash \/ \E o \in Orders : Fill(o) \/ Reject(o)

Keep(A) == A /\ UNCHANGED exposed
Next == Keep(Task \/ Monitor \/ Days \/ Others)
Spec == Init /\ [][Next]_vars

\* The worker runs its task to the end, the monitor looks each minute, the days pass.
FairSpec == Spec /\ WF_vars(Keep(Task)) /\ WF_vars(Keep(Monitor)) /\ WF_vars(Keep(Days))

-----------------------------------------------------------------------------
(* Properties *)

\* Every variable stays within its type; every order has a level, and no row of an earlier
\* day is still pending.
TypeOK ==
    /\ entry \in Readings /\ rsi \in Readings
    /\ meta \in [above : BOOLEAN, seen : BOOLEAN, first : BOOLEAN]
    /\ legs \subseteq Levels /\ bought \subseteq Levels /\ today \subseteq Levels
    /\ orders \in [Orders -> [level : Levels \cup {None}, st : {"none", "open", "filled", "gone"},
                              row : {"none", "pending", "executed", "recorded"},
                              now : BOOLEAN, fresh : BOOLEAN]]
    /\ \A o \in Orders : /\ orders[o].st # "none" => orders[o].level \in Levels
                         /\ orders[o].row = "pending" => orders[o].fresh
    /\ task.step \in {"none", "evaluate", "check", "accepted"} /\ task.order \in Orders \cup {None}
    /\ done \in BOOLEAN /\ phase \in {"pre", "open", "closed"}
    /\ events \subseteq exposed /\ exposed \in Exposures

Unexposed(kinds) == exposed \cap kinds = {}

\* SAFETY

\* Every fill becomes a leg before the market closes.
Followed == Unexposed({"crash", "norow", "unseen"})

\* No level is bought twice on one day, and none has two orders, although every run of
\* the task on a day below 30 may begin a new cycle.
OncePerDay ==
    Followed => \A o \in Waiting : /\ orders[o].level \notin today
                                   /\ Cardinality(Waiting) = 1

\* In the first cycle the ladder only goes down: each order is for a level below everything
\* bought since the entry, although levels are skipped, orders lapse and runs are repeated,
\* unless the cycle's data could not be written on a day with a run by hand as well, whose
\* write takes back a leg recorded meanwhile.
Down ==
    Followed /\ meta.first
        /\ (Unexposed({"nometa"}) \/ Unexposed({"runonce"}))
    => \A o \in Waiting : \A l \in bought : orders[o].level < l

LadderDescends == OncePerDay /\ Down

\* What the documents promise: between two recoveries no level is bought twice.  It fails:
\* the flag of the first recovery is never cleared.
OncePerDecline == \A o \in Waiting : orders[o].level \notin bought

\* LIVENESS, under FairSpec

\* A fall below 30 after a recovery is bought if it lasts, although the run that found it
\* had no funds, failed to write or was skipped: the cycle is not used up by it.
DeclineBought ==
    meta.above /\ rsi < 30 ~> rsi >= 30 \/ Waiting # {} \/ today # {}
=============================================================================
