------------------------- MODULE ReentryLadderProofs -------------------------
(***************************************************************************)
(* Proofs about ReentryLadder for any readings of the RSI, any number of   *)
(* orders and every combination of events; and, at the end, about          *)
(* CandleCache, which holds the candles the RSI is computed from.          *)
(***************************************************************************)
EXTENDS ReentryLadder, FiniteSetTheorems, WellFoundedInduction, TLAPS

-----------------------------------------------------------------------------
(* The type invariant: the task holds what it read and decided; one that runs is the    *)
(* day's, or later a run by hand, and none runs when the market has closed.             *)

MetaType  == [above : BOOLEAN, seen : BOOLEAN, first : BOOLEAN]
OrderType == [level : Levels \cup {None}, st : {"none", "open", "filled", "gone"},
              row : {"none", "pending", "executed", "recorded"}, now : BOOLEAN, fresh : BOOLEAN]
TaskType  == [step : {"none", "evaluate", "check", "accepted"}, meta : MetaType, legs : SUBSET Levels,
              level : Levels \cup {None}, reset : BOOLEAN, order : Orders \cup {None}]

TaskOK ==
    /\ task \in TaskType
    /\ phase = "closed" => task.step = "none"
    /\ task.step = "evaluate" => task.meta = meta
    /\ task.step = "check" => task.level = LevelOf(rsi) /\ task.level # None
    /\ task.step = "accepted" => /\ task.order \in Orders
                                 /\ orders[task.order].fresh /\ orders[task.order].st # "none"
    /\ task.step # "accepted" => task.order = None
    /\ task.step # "none" => done
    /\ task.step # "none" /\ phase # "pre" => "runonce" \in events

\* A row belongs to an order.
RowsOK == \A o \in Orders : orders[o].row # "none" => orders[o].st # "none"

Typed == TypeOK /\ TaskOK /\ RowsOK

-----------------------------------------------------------------------------
(* One order a day *)

Bought(o) == orders[o].st = "filled"

\* Where every fill is followed, the orders are those of today and for the level of today's
\* RSI; each that can fill or has filled has its row, but for the one that is being written;
\* what was bought today is in the rows; and no fill is unrecorded when the market closed.
DayOrders ==
    /\ \A o \in Orders : orders[o].st # "none" =>
           /\ orders[o].level = LevelOf(rsi) /\ orders[o].fresh
           /\ orders[o].st # "gone" => orders[o].row # "none" \/ task.order = o
    /\ \A o \in Orders : orders[o].row \in {"executed", "recorded"} => Bought(o)
    /\ \A o \in Orders : orders[o].st = "none" => orders[o] = NoOrder
    /\ \A l \in today : \E o \in Orders : orders[o].level = l /\ Bought(o)
    /\ phase = "pre" => \A o \in Orders : ~Bought(o)
    /\ phase = "closed" => Unrecorded = {}

OneOrder ==
    /\ \A o, p \in Waiting : o = p
    /\ \A o \in Waiting : orders[o].level \notin today

OneADay == DayOrders /\ OneOrder

-----------------------------------------------------------------------------
(* The first cycle *)

FirstCycle == Followed /\ meta.first /\ (Unexposed({"nometa"}) \/ Unexposed({"runonce"}))

\* What was bought since the last recovery is the entry's, a leg, or about to become one.
BoughtKnown ==
    \A l \in bought : \/ l \in legs \cup EntryLevels
                      \/ \E o \in Orders : orders[o].level = l /\ Bought(o) /\ orders[o].row # "recorded"

\* What a run that is deciding has read lacks at most the leg of today, and nothing before
\* the market opens.
LegsRead ==
    task.step = "evaluate" =>
        /\ legs \subseteq task.legs \cup {LevelOf(rsi)} /\ task.legs \subseteq legs
        /\ phase = "pre" => legs = task.legs

\* Once a run has written the data of the day, they are there; only a failing write leaves
\* that to a later run.
Noted ==
    Unexposed({"nometa"}) /\ done /\ (task.step # "evaluate" \/ phase # "pre") => meta.seen

\* After a recovery nothing was bought, unless the fall that begins the next cycle was
\* bought by the one run that could not write it.
Recovered ==
    /\ rsi > 30 => bought = {}
    /\ meta.above /\ (bought # {} \/ Waiting # {} \/ task.step \in {"check", "accepted"})
           => "nometa" \in events
    /\ meta.above /\ bought # {} => Waiting = {} /\ task.step # "check"

\* Without one, a level that is about to be ordered is below the entry's and the legs.
Below ==
    task.step = "check" /\ ~meta.above =>
        /\ ~task.reset
        /\ \A k \in EntryLevels : task.level < k
        /\ \A k \in legs : task.level <= k

BelowBought == \A o \in Waiting : \A l \in bought : orders[o].level < l

Ladder ==
    /\ \A o \in Orders : orders[o].now
    /\ BoughtKnown /\ LegsRead /\ Noted /\ Recovered /\ Below
    /\ BelowBought

LadderInv ==
    /\ Typed
    /\ Followed => OneADay
    /\ FirstCycle => Ladder

-----------------------------------------------------------------------------
\* A reading reaches the lowest level above it, and none from 30 on.
LEMMA LevelIs ==
    ASSUME NEW r \in Nat
    PROVE  LevelOf(r) = IF r < 10 THEN 10 ELSE IF r < 20 THEN 20 ELSE IF r < 30 THEN 30 ELSE None
<1>1. CASE r < 30
  <2> DEFINE P(l) == l \in Levels /\ r < l /\ \A k \in Levels : r < k => l <= k
             low  == IF r < 10 THEN 10 ELSE IF r < 20 THEN 20 ELSE 30
  <2>1. P(low)
    BY <1>1 DEF Levels
  <2>2. \A l : P(l) => l = low
    BY <1>1 DEF Levels
  <2>3. (CHOOSE l \in Levels : r < l /\ \A k \in Levels : r < k => l <= k) = low
    <3>1. \E l \in Levels : r < l /\ \A k \in Levels : r < k => l <= k
      BY <2>1
    <3>2. P(CHOOSE l \in Levels : r < l /\ \A k \in Levels : r < k => l <= k)
      BY <3>1
    <3> QED
      BY <2>2, <3>2
  <2>4. \E l \in Levels : r < l
    BY <2>1
  <2> QED
    BY <1>1, <2>3, <2>4 DEF LevelOf
<1>2. CASE ~(r < 30)
  BY <1>2 DEF LevelOf, Levels
<1> QED
  BY <1>1, <1>2

\* The order that is placed is one that was free.
LEMMA FreeOrderIs ==
    ASSUME \E o \in Orders : orders[o] = NoOrder
    PROVE  FreeOrder \in Orders /\ orders[FreeOrder] = NoOrder
BY DEF FreeOrder

\* An order stays well typed when a field of it changes.
LEMMA OrderFields ==
    ASSUME NEW r \in OrderType
    PROVE  /\ \A x \in {"none", "open", "filled", "gone"} : [r EXCEPT !.st = x] \in OrderType
           /\ \A x \in {"none", "pending", "executed", "recorded"} : [r EXCEPT !.row = x] \in OrderType
           /\ \A b \in BOOLEAN : [r EXCEPT !.now = b] \in OrderType /\ [r EXCEPT !.fresh = b] \in OrderType
BY DEF OrderType

\* What the task starts with.
LEMMA ReadyType == Ready \in TaskType /\ NoOrder \in OrderType
BY DEF Ready, TaskType, MetaType, NoOrder, OrderType

\* The metadata stay of their type when a run writes them.
LEMMA UpdatedType == \A m \in MetaType : Updated(m) \in MetaType
<1> TAKE m \in MetaType
<1> DEFINE a == m.above \/ rsi > 30
           f == m.first /\ ~Fallen(m)
<1>1. a \in BOOLEAN /\ f \in BOOLEAN
  OBVIOUS
<1>2. Updated(m) = [above |-> a, seen |-> TRUE, first |-> f]
  BY DEF Updated
<1> HIDE DEF a, f
<1> QED
  BY <1>1, <1>2 DEF MetaType

\* What a run writes: a recovery is noted for good, a fall ends the cycle.
LEMMA UpdatedFields ==
    \A m : /\ Updated(m).seen = TRUE
           /\ Updated(m).above <=> m.above \/ rsi > 30
           /\ Updated(m).first <=> m.first /\ ~Fallen(m)
<1> TAKE m
<1> DEFINE a == m.above \/ rsi > 30
           f == m.first /\ ~Fallen(m)
<1>1. Updated(m) = [above |-> a, seen |-> TRUE, first |-> f]
  BY DEF Updated
<1>2. Updated(m).seen = TRUE /\ Updated(m).above = a /\ Updated(m).first = f
  <2> HIDE DEF a, f
  <2> QED
    BY <1>1
<1> QED
  BY <1>2, Zenon

\* Deciding changes the orders at most in whether they belong to the current cycle.
LEMMA EvaluatedOrders ==
    orders \in [Orders -> OrderType] /\ Evaluate =>
        /\ orders' \in [Orders -> OrderType]
        /\ \A o \in Orders : /\ orders'[o].st = orders[o].st /\ orders'[o].row = orders[o].row
                             /\ orders'[o].level = orders[o].level /\ orders'[o].fresh = orders[o].fresh
                             /\ orders[o] = NoOrder => orders'[o] = NoOrder
<1> HAVE orders \in [Orders -> OrderType] /\ Evaluate
<1> DEFINE now(o) == orders[o].now /\ (~Fallen(task.meta) \/ orders[o] = NoOrder)
<1>1. CASE orders' = orders
  BY <1>1
<1>2. CASE orders' = [o \in Orders |-> [orders[o] EXCEPT !.now = now(o)]]
  <2>1. \A o \in Orders : now(o) \in BOOLEAN /\ (orders[o] = NoOrder => now(o) = NoOrder.now)
    <3> TAKE o \in Orders
    <3>1. now(o) \in BOOLEAN
      BY Zenon
    <3>2. NoOrder.now = TRUE
      BY DEF NoOrder
    <3>3. orders[o] = NoOrder => now(o) = TRUE
      BY <3>2, Zenon
    <3> QED
      BY <3>1, <3>2, <3>3
  <2> HIDE DEF now
  <2>2. \A o \in Orders : [orders[o] EXCEPT !.now = now(o)] \in OrderType
    BY <2>1, OrderFields
  <2>3. \A o \in Orders : orders'[o] = [orders[o] EXCEPT !.now = now(o)]
    BY <1>2
  <2>4. orders' \in [Orders -> OrderType]
    BY <1>2, <2>2
  <2>5. \A o \in Orders : orders[o] \in OrderType
    OBVIOUS
  <2>6. \A o \in Orders : /\ orders'[o].st = orders[o].st /\ orders'[o].row = orders[o].row
                           /\ orders'[o].level = orders[o].level /\ orders'[o].fresh = orders[o].fresh
    BY <2>3, <2>5 DEF OrderType
  <2>7. [NoOrder EXCEPT !.now = NoOrder.now] = NoOrder
    BY DEF NoOrder
  <2> QED
    BY <2>1, <2>3, <2>4, <2>6, <2>7
<1> QED
  BY <1>1, <1>2 DEF Evaluate

\* The task's steps stay within the types.
LEMMA TaskTyped == Typed /\ Task /\ UNCHANGED exposed => Typed'
<1> SUFFICES ASSUME Typed, Task, UNCHANGED exposed PROVE Typed'
  OBVIOUS
<1> USE LadderAssumption
<1>1. /\ rsi \in Nat /\ LevelOf(rsi) \in Levels \cup {None}
      /\ orders \in [Orders -> OrderType] /\ meta \in MetaType /\ task \in TaskType /\ None \notin Orders
  <2>1. rsi \in Nat
    BY DEF Typed, TypeOK
  <2>2. LevelOf(rsi) \in Levels \cup {None}
    BY <2>1, LevelIs DEF Levels
  <2> QED
    BY <2>1, <2>2 DEF Typed, TypeOK, TaskOK, OrderType, MetaType, Orders, None
<1>2. CASE Start
  <2>1. task' \in TaskType /\ task'.step = "evaluate" /\ task'.order = None /\ task'.meta = meta
    BY <1>1, <1>2 DEF Start, Ready, TaskType, Typed, TypeOK
  <2>2. events' \subseteq exposed /\ done' \in BOOLEAN /\ phase # "closed"
    BY <1>2 DEF Start, Happens, Typed, TypeOK
  <2> QED
    BY <1>2, <2>1, <2>2 DEF Start, Happens, Typed, TypeOK, TaskOK, RowsOK
<1>3. CASE Evaluate
  <2>1. task' \in TaskType
    BY <1>1, <1>3, ReadyType DEF Evaluate, TaskType, NextLevel, Fallen, MetaType
  <2>2. meta' \in MetaType /\ legs' \subseteq Levels
    <3>1. task.meta \in MetaType /\ task.legs \subseteq Levels
      BY <1>1 DEF TaskType
    <3>2. Updated(task.meta) \in MetaType
      BY <3>1, UpdatedType
    <3>3. meta' = meta \/ meta' = Updated(task.meta)
      BY <1>3 DEF Evaluate
    <3>4. legs' \in {legs, {}, task.legs}
      BY <1>3 DEF Evaluate
    <3> QED
      BY <1>1, <3>1, <3>2, <3>3, <3>4 DEF Typed, TypeOK
  <2>3. orders' \in [Orders -> OrderType] /\ \A o \in Orders :
            /\ orders'[o].st = orders[o].st /\ orders'[o].row = orders[o].row
            /\ orders'[o].level = orders[o].level /\ orders'[o].fresh = orders[o].fresh
    BY <1>1, <1>3, EvaluatedOrders
  <2>4. events' \subseteq exposed
    BY <1>3 DEF Evaluate, Happens, Typed, TypeOK
  <2>5. /\ task'.step \in {"none", "check"} /\ task'.order = None
        /\ task'.step = "check" => task'.level = LevelOf(rsi) /\ task'.level # None
    BY <1>3 DEF Evaluate, Ready, NextLevel
  <2>6. TypeOK'
    BY <1>1, <1>3, <2>1, <2>2, <2>3, <2>4, <2>5 DEF Evaluate, Typed, TypeOK, OrderType, MetaType
  <2>7. phase' # "closed" /\ TaskOK'
    BY <1>3, <2>1, <2>5 DEF Evaluate, Happens, Typed, TaskOK
  <2>8. RowsOK'
    BY <2>3 DEF Typed, RowsOK
  <2> QED
    BY <2>6, <2>7, <2>8 DEF Typed
<1>4. CASE Skip
  <2>1. events' \subseteq exposed /\ task' = Ready
    BY <1>4 DEF Skip, Happens, Typed, TypeOK
  <2> QED
    BY <1>4, <2>1, ReadyType DEF Skip, Typed, TypeOK, TaskOK, RowsOK, Ready
<1>5. CASE Place
  <2>1. FreeOrder \in Orders /\ orders[FreeOrder] = NoOrder
    BY <1>5, FreeOrderIs DEF Place
  <2>2. [NoOrder EXCEPT !.level = task.level, !.st = "open"] \in OrderType /\ task.level \in Levels
    BY <1>1, <1>5 DEF Place, NoOrder, OrderType, Typed, TaskOK, TaskType
  <2>3. orders' \in [Orders -> OrderType]
    BY <1>1, <1>5, <2>2 DEF Place
  <2>4. task' \in TaskType /\ task'.step = "accepted" /\ task'.order = FreeOrder
    BY <1>1, <1>5, <2>1 DEF Place, TaskType
  <2>5. orders'[FreeOrder] = [NoOrder EXCEPT !.level = task.level, !.st = "open"]
    BY <1>1, <1>5, <2>1 DEF Place
  <2>6. \A o \in Orders : o # FreeOrder => orders'[o] = orders[o]
    BY <1>1, <1>5, <2>1 DEF Place
  <2>7. \A o \in Orders : /\ orders'[o].st # "none" => orders'[o].level \in Levels
                          /\ orders'[o].row = "pending" => orders'[o].fresh
    <3>1. orders'[FreeOrder].level \in Levels /\ orders'[FreeOrder].fresh
      BY <2>2, <2>5 DEF NoOrder
    <3> QED
      BY <2>6, <3>1 DEF Typed, TypeOK
  <2>8. TypeOK'
    BY <1>5, <2>1, <2>3, <2>4, <2>7 DEF Place, Typed, TypeOK, OrderType
  <2>9. phase' # "closed" /\ TaskOK'
    <3>1. orders'[FreeOrder].fresh /\ orders'[FreeOrder].st # "none"
      BY <2>5 DEF NoOrder
    <3> QED
      BY <1>5, <2>1, <2>4, <3>1 DEF Place, Typed, TaskOK
  <2>10. RowsOK'
    BY <2>1, <2>5, <2>6 DEF Typed, RowsOK, NoOrder
  <2> QED
    BY <2>8, <2>9, <2>10 DEF Typed
<1>6. CASE Write
  <2>1. task.order \in Orders /\ orders[task.order].fresh /\ task' = Ready
    BY <1>6 DEF Write, Typed, TaskOK
  <2>2. orders' \in [Orders -> OrderType]
    <3>1. [orders[task.order] EXCEPT !.row = "pending"] \in OrderType
      BY <1>1, <2>1, OrderFields
    <3> QED
      BY <1>1, <1>6, <3>1 DEF Write
  <2>3. \A o \in Orders : /\ orders'[o].st # "none" => orders'[o].level \in Levels
                          /\ orders'[o].row = "pending" => orders'[o].fresh
    BY <1>1, <1>6, <2>1 DEF Write, OrderType, Typed, TypeOK
  <2>4. events' \subseteq exposed
    BY <1>6 DEF Write, Happens, Typed, TypeOK
  <2>5. orders[task.order].st # "none"
    BY <1>6 DEF Write, Typed, TaskOK
  <2>6. RowsOK'
    BY <1>1, <1>6, <2>1, <2>5 DEF Write, Typed, RowsOK, OrderType
  <2> QED
    BY <1>6, <2>1, <2>2, <2>3, <2>4, <2>6, ReadyType DEF Write, Ready, Typed, TypeOK, TaskOK, OrderType
<1> QED
  BY <1>2, <1>3, <1>4, <1>5, <1>6 DEF Task

\* What the broker, the user and the monitor change of an order stays within the types.
LEMMA OrdersTyped ==
    Typed /\ (Monitor \/ \E o \in Orders : Fill(o) \/ Reject(o)) /\ UNCHANGED exposed => Typed'
<1> SUFFICES ASSUME Typed, UNCHANGED exposed, NEW o \in Orders,
                    Execute(o) \/ Record(o) \/ Fill(o) \/ Reject(o)
             PROVE  Typed'
  BY DEF Monitor
<1> USE LadderAssumption
<1>1. orders \in [Orders -> OrderType] /\ orders[o] \in OrderType
  BY DEF Typed, TypeOK, OrderType
<1>2. PICK new \in OrderType :
        /\ orders' = [orders EXCEPT ![o] = new]
        /\ new.level = orders[o].level /\ new.fresh = orders[o].fresh
        /\ new.st # "none" <=> orders[o].st # "none"
        /\ new.row = "pending" => orders[o].row = "pending"
        /\ new.row # "none" => orders[o].row # "none"
  <2>1. CASE Execute(o)
    <3>1. [orders[o] EXCEPT !.row = "executed"] \in OrderType
      BY <1>1, OrderFields
    <3> QED
      BY <1>1, <2>1, <3>1 DEF Execute, OrderType
  <2>2. CASE Record(o)
    <3>1. [orders[o] EXCEPT !.row = "recorded"] \in OrderType
      BY <1>1, OrderFields
    <3> QED
      BY <1>1, <2>2, <3>1 DEF Record, OrderType
  <2>3. CASE Fill(o)
    <3>1. [orders[o] EXCEPT !.st = "filled"] \in OrderType
      BY <1>1, OrderFields
    <3> QED
      BY <1>1, <2>3, <3>1 DEF Fill, Waiting, OrderType
  <2>4. CASE Reject(o)
    <3>1. [[orders[o] EXCEPT !.st = "gone"] EXCEPT !.row = "none"] \in OrderType
      BY <1>1, OrderFields
    <3>2. orders' = [orders EXCEPT ![o] = [[orders[o] EXCEPT !.st = "gone"] EXCEPT !.row = "none"]]
      BY <1>1, <2>4 DEF Reject, OrderType
    <3> QED
      BY <1>1, <2>4, <3>1, <3>2 DEF Reject, Waiting, OrderType
  <2> QED
    BY <2>1, <2>2, <2>3, <2>4
<1>3. orders' \in [Orders -> OrderType] /\ orders'[o] = new /\ \A p \in Orders \ {o} : orders'[p] = orders[p]
  BY <1>1, <1>2
<1>4. \A p \in Orders : /\ orders'[p].st # "none" => orders'[p].level \in Levels
                        /\ orders'[p].row = "pending" => orders'[p].fresh
                        /\ orders'[p].row # "none" => orders'[p].st # "none"
                        /\ orders'[p].fresh = orders[p].fresh
                        /\ orders[p].st # "none" => orders'[p].st # "none"
  BY <1>2, <1>3 DEF Typed, TypeOK, RowsOK
<1>5. legs' \subseteq Levels /\ bought' \subseteq Levels /\ today' \subseteq Levels /\ events' \subseteq exposed
  <2>1. orders[o].st # "none" => orders[o].level \in Levels
    BY DEF Typed, TypeOK
  <2>2. orders[o].row # "none" => orders[o].st # "none"
    BY DEF Typed, RowsOK
  <2>3. legs' \subseteq Levels
    BY <2>1, <2>2 DEF Execute, Record, Fill, Reject, Legs, Typed, TypeOK
  <2>4. bought' \subseteq Levels /\ today' \subseteq Levels
    BY <2>1 DEF Execute, Record, Fill, Reject, Waiting, Typed, TypeOK
  <2>5. events' \subseteq exposed
    BY DEF Execute, Record, Fill, Reject, Happens, Typed, TypeOK
  <2> QED
    BY <2>3, <2>4, <2>5
<1>6. UNCHANGED <<entry, meta, task, done, phase, rsi>>
  BY DEF Execute, Record, Fill, Reject
<1>7. TypeOK'
  BY <1>3, <1>4, <1>5, <1>6 DEF Typed, TypeOK, OrderType
<1>8. TaskOK' /\ RowsOK'
  <2>1. events \subseteq events'
    BY DEF Execute, Record, Fill, Reject, Happens
  <2> QED
    BY <1>4, <1>6, <2>1 DEF Typed, TaskOK, RowsOK
<1> QED
  BY <1>7, <1>8 DEF Typed

\* The clock, the days and a restart stay within the types.
LEMMA DaysTyped == Typed /\ (Days \/ Crash) /\ UNCHANGED exposed => Typed'
<1> SUFFICES ASSUME Typed, Days \/ Crash, UNCHANGED exposed PROVE Typed'
  OBVIOUS
<1> USE LadderAssumption
<1>1. orders \in [Orders -> OrderType] /\ meta \in MetaType
  BY DEF Typed, TypeOK, OrderType, MetaType
<1>2. CASE Clock
  <2>1. events' \subseteq exposed /\ phase' \in {"open", "closed"}
    BY <1>2 DEF Clock, Happens, Typed, TypeOK
  <2> QED
    BY <1>2, <2>1 DEF Clock, Typed, TypeOK, TaskOK, RowsOK
<1>3. CASE NextDay
  <2>1. orders' \in [Orders -> OrderType]
    <3>1. \A o \in Orders : [orders[o] EXCEPT !.fresh = FALSE] \in OrderType
      BY <1>1, OrderFields
    <3> QED
      BY <1>3, <3>1, ReadyType DEF NextDay
  <2>2. \A o \in Orders : \/ orders'[o] = NoOrder
                          \/ /\ orders'[o].row = "executed" /\ orders'[o].st = orders[o].st
                             /\ orders'[o].level = orders[o].level /\ orders[o].row = "executed"
    BY <1>1, <1>3 DEF NextDay, Kept, OrderType
  <2>3. RowsOK' /\ \A o \in Orders : /\ orders'[o].st # "none" => orders'[o].level \in Levels
                                     /\ orders'[o].row = "pending" => orders'[o].fresh
    BY <2>2 DEF NoOrder, Typed, TypeOK, RowsOK
  <2>4. meta' \in MetaType /\ bought' \subseteq Levels
    BY <1>1, <1>3 DEF NextDay, MetaType, Typed, TypeOK
  <2>5. TypeOK'
    BY <1>3, <2>1, <2>3, <2>4 DEF NextDay, Typed, TypeOK, OrderType, MetaType
  <2>6. TaskOK'
    BY <1>3 DEF NextDay, Typed, TaskOK
  <2> QED
    BY <2>3, <2>5, <2>6 DEF Typed
<1>4. CASE Crash
  <2>1. events' \subseteq exposed /\ done' \in BOOLEAN /\ task' = Ready
    BY <1>4 DEF Crash, Happens, Typed, TypeOK
  <2> QED
    BY <1>4, <2>1, ReadyType DEF Crash, Ready, Typed, TypeOK, TaskOK, RowsOK
<1> QED
  BY <1>2, <1>3, <1>4 DEF Days

\* A behaviour begins within the types.
LEMMA InitTyped == Init => Typed
<1> HAVE Init
<1>1. meta \in MetaType /\ task \in TaskType /\ orders \in [Orders -> OrderType]
  BY ReadyType DEF Init, MetaType
<1>2. bought \subseteq Levels
  BY DEF Init, EntryLevels
<1>3. TypeOK
  BY <1>1, <1>2 DEF Init, TypeOK, MetaType, OrderType, NoOrder, Ready
<1>4. TaskOK /\ RowsOK
  BY <1>1 DEF Init, TaskOK, RowsOK, Ready, NoOrder
<1> QED
  BY <1>3, <1>4 DEF Typed

\* Every step stays within the types.
LEMMA StepTyped == Typed /\ [Next]_vars => Typed'
<1> SUFFICES ASSUME Typed, [Next]_vars PROVE Typed'
  OBVIOUS
<1>1. CASE UNCHANGED vars
  BY <1>1 DEF vars, Typed, TypeOK, TaskOK, RowsOK
<1>2. CASE Next
  BY <1>2, TaskTyped, OrdersTyped, DaysTyped DEF Next, Keep, Others
<1> QED
  BY <1>1, <1>2

\* The variables of ReentryLadder keep their types: what the task has read and decided, the
\* orders and their rows, through fills, rejections, restarts and the days.
THEOREM TypeCorrect == Spec => []TypeOK
<1>1. Typed => TypeOK
  BY DEF Typed
<1> QED
  BY <1>1, InitTyped, StepTyped, PTL DEF Spec

-----------------------------------------------------------------------------
(* One order a day *)

\* A behaviour begins with no order.
LEMMA InitDays == Init => OneADay
BY DEF Init, OneADay, DayOrders, OneOrder, Bought, Waiting, Unrecorded, NoOrder

\* The task orders what the day's RSI reaches, and only if nothing is waiting and the level
\* was not bought today.
LEMMA TaskDays == Typed /\ Followed /\ OneADay /\ Task /\ UNCHANGED exposed => OneADay'
<1> SUFFICES ASSUME Typed, Followed, OneADay, Task, UNCHANGED exposed PROVE OneADay'
  OBVIOUS
<1> USE LadderAssumption
<1>1. orders \in [Orders -> OrderType] /\ None \notin Orders /\ UNCHANGED <<rsi, phase, today>>
  BY DEF Typed, TypeOK, OrderType, Orders, None, Task, Start, Evaluate, Skip, Place, Write
<1>2. ASSUME UNCHANGED orders, task'.order = task.order PROVE OneADay'
  BY <1>1, <1>2 DEF OneADay, DayOrders, OneOrder, Bought, Waiting, Unrecorded, LevelOf
<1>3. CASE Start
  BY <1>2, <1>3 DEF Start, Ready, Typed, TaskOK
<1>4. CASE Skip
  BY <1>2, <1>4 DEF Skip, Ready, Typed, TaskOK
<1>5. CASE Evaluate
  <2>1. \A o \in Orders : /\ orders'[o].st = orders[o].st /\ orders'[o].row = orders[o].row
                          /\ orders'[o].level = orders[o].level /\ orders'[o].fresh = orders[o].fresh
                          /\ orders[o] = NoOrder => orders'[o] = NoOrder
    BY <1>1, <1>5, EvaluatedOrders
  <2>2. task'.order = task.order
    BY <1>5 DEF Evaluate, Ready, Typed, TaskOK
  <2>3. Waiting' = Waiting /\ Unrecorded' = Unrecorded /\ \A o \in Orders : Bought(o)' <=> Bought(o)
    BY <2>1 DEF Waiting, Unrecorded, Bought
  <2>4. OneOrder'
    BY <1>1, <2>1, <2>3 DEF OneADay, OneOrder, Waiting
  <2>5. LevelOf(rsi)' = LevelOf(rsi)
    BY <1>1 DEF LevelOf
  <2>6. DayOrders'
    BY <1>1, <2>1, <2>2, <2>3, <2>5 DEF OneADay, DayOrders
  <2> QED
    BY <2>4, <2>6 DEF OneADay
<1>6. CASE Place
  <2>1. FreeOrder \in Orders /\ orders[FreeOrder] = NoOrder
    BY <1>6, FreeOrderIs DEF Place
  <2>2. /\ orders'[FreeOrder].level = LevelOf(rsi) /\ orders'[FreeOrder].st = "open"
        /\ orders'[FreeOrder].row = "none" /\ orders'[FreeOrder].fresh
    BY <1>1, <1>6, <2>1 DEF Place, NoOrder, Typed, TaskOK
  <2>3. \A o \in Orders : o # FreeOrder => orders'[o] = orders[o]
    BY <1>1, <1>6, <2>1 DEF Place
  <2>4. task'.order = FreeOrder /\ task.order = None
    BY <1>1, <1>6 DEF Place, Typed, TaskOK, TaskType
  <2>5. Waiting = {}
    BY <1>1, <1>6, <2>4 DEF Place, Blocked, Active, Waiting, OneADay, DayOrders, Bought, OrderType
  <2>6. LevelOf(rsi) \notin today
    BY <1>1, <1>6, <2>4 DEF Place, Blocked, UsedToday, OneADay, DayOrders, Bought, OrderType, Typed, TaskOK
  <2>7. orders[FreeOrder].st = "none"
    BY <2>1 DEF NoOrder
  <2>8. DayOrders'
    <3>1. phase # "closed" /\ LevelOf(rsi)' = LevelOf(rsi)
      BY <1>1, <1>6 DEF Place, LevelOf, Typed, TaskOK
    <3>2. \A o \in Orders : Bought(o)' <=> Bought(o)
      BY <2>2, <2>3, <2>7 DEF Bought
    <3>3. \A o \in Orders : Bought(o) => o # FreeOrder
      BY <2>7 DEF Bought
    <3>4. \A l \in today' : \E o \in Orders : orders'[o].level = l /\ Bought(o)'
      BY <1>1, <2>3, <3>2, <3>3 DEF OneADay, DayOrders
    <3>5. \A o \in Orders : /\ orders'[o].row \in {"executed", "recorded"} => Bought(o)'
                            /\ orders'[o].st = "none" => orders'[o] = NoOrder
                            /\ orders'[o].st # "none" =>
                                   /\ orders'[o].level = LevelOf(rsi) /\ orders'[o].fresh
                                   /\ orders'[o].st # "gone" => orders'[o].row # "none" \/ task'.order = o
      <4> TAKE o \in Orders
      <4>1. CASE o = FreeOrder
        BY <2>2, <2>4, <4>1 DEF Bought
      <4>2. CASE o # FreeOrder
        BY <1>1, <2>3, <2>4, <3>2, <4>2 DEF OneADay, DayOrders
      <4> QED
        BY <4>1, <4>2
    <3> QED
      BY <1>1, <3>1, <3>2, <3>4, <3>5 DEF OneADay, DayOrders
  <2>9. OneOrder'
    BY <1>1, <2>1, <2>2, <2>3, <2>5, <2>6 DEF OneOrder, Waiting
  <2> QED
    BY <2>8, <2>9 DEF OneADay
<1>7. CASE Write
  <2>1. task.order \in Orders /\ orders' = [orders EXCEPT ![task.order].row = "pending"] /\ task'.order = None
    BY <1>7 DEF Write, Ready, Happens, Followed, Unexposed, Typed, TaskOK
  <2>2. \A o \in Orders : /\ orders'[o].st = orders[o].st /\ orders'[o].level = orders[o].level
                          /\ orders'[o].fresh = orders[o].fresh
                          /\ orders'[o].row = IF o = task.order THEN "pending" ELSE orders[o].row
                          /\ o # task.order => orders'[o] = orders[o]
    BY <1>1, <2>1 DEF OrderType
  <2>3. orders[task.order].st # "none" /\ phase # "closed"
    BY <1>7 DEF Write, Typed, TaskOK
  <2> QED
    BY <1>1, <2>1, <2>2, <2>3 DEF OneADay, DayOrders, OneOrder, Bought, Waiting, Unrecorded, LevelOf
<1> QED
  BY <1>3, <1>4, <1>5, <1>6, <1>7 DEF Task

\* What becomes of an order leaves the others alone; a fill is in the day's list.
LEMMA OrdersDays ==
    Typed /\ Followed /\ OneADay /\ (Monitor \/ \E o \in Orders : Fill(o) \/ Reject(o)) /\ UNCHANGED exposed
        => OneADay'
<1> SUFFICES ASSUME Typed, Followed, OneADay, UNCHANGED exposed, NEW o \in Orders,
                    Execute(o) \/ Record(o) \/ Fill(o) \/ Reject(o)
             PROVE  OneADay'
  BY DEF Monitor
<1>1. orders \in [Orders -> OrderType] /\ orders[o] \in OrderType /\ UNCHANGED <<rsi, phase, task>> /\ phase # "closed"
  BY DEF Typed, TypeOK, OrderType, Execute, Record, Fill, Reject
<1> USE DEF OneADay, DayOrders, OneOrder, Bought, Waiting, Unrecorded, LevelOf
<1>2. CASE Execute(o)
  BY <1>1, <1>2 DEF Execute, OrderType
<1>3. CASE Record(o)
  BY <1>1, <1>3 DEF Record, OrderType
<1>4. CASE Fill(o)
  BY <1>1, <1>4, SMTT(20) DEF Fill, OrderType
<1>5. CASE Reject(o)
  BY <1>1, <1>5 DEF Reject, OrderType
<1> QED
  BY <1>2, <1>3, <1>4, <1>5

\* At the end of a day that was followed nothing is kept.
LEMMA NothingKept ==
    Typed /\ Followed /\ OneADay /\ NextDay => orders' = [o \in Orders |-> NoOrder]
<1> HAVE Typed /\ Followed /\ OneADay /\ NextDay
<1>1. \A o \in Orders : ~Kept(o)
  BY DEF NextDay, OneADay, DayOrders, Unrecorded, Kept, Bought
<1> QED
  BY <1>1 DEF NextDay

\* The next day begins with no order.
LEMMA ClockDays == Typed /\ Followed /\ OneADay /\ (Days \/ Crash) /\ UNCHANGED exposed => OneADay'
<1> SUFFICES ASSUME Typed, Followed, OneADay, Days \/ Crash, UNCHANGED exposed PROVE OneADay'
  OBVIOUS
<1>1. CASE Clock
  BY <1>1 DEF Clock, Happens, Followed, Unexposed, Typed, TypeOK, OneADay, DayOrders, OneOrder, Bought, Waiting, Unrecorded, LevelOf
<1>2. CASE NextDay
  <2>1. orders' = [o \in Orders |-> NoOrder] /\ today' = {}
    BY <1>2, NothingKept DEF NextDay
  <2> QED
    BY <1>2, <2>1 DEF NextDay, NoOrder, OneADay, DayOrders, OneOrder, Bought, Waiting, Unrecorded
<1>3. ~Crash
  BY DEF Crash, Happens, Followed, Unexposed
<1> QED
  BY <1>1, <1>2, <1>3 DEF Days

\* Every step keeps to one order a day.
LEMMA StepDays == Typed /\ Followed /\ OneADay /\ [Next]_vars => OneADay'
<1> SUFFICES ASSUME Typed, Followed, OneADay, [Next]_vars PROVE OneADay'
  OBVIOUS
<1>1. CASE UNCHANGED vars
  BY <1>1 DEF vars, OneADay, DayOrders, OneOrder, Bought, Waiting, Unrecorded, LevelOf
<1>2. CASE Next
  BY <1>2, TaskDays, OrdersDays, ClockDays DEF Next, Keep, Others
<1> QED
  BY <1>1, <1>2

-----------------------------------------------------------------------------
(* The ladder of the first cycle *)

\* A behaviour begins with the entry's levels and no leg.
LEMMA InitLadder == Init => Ladder
<1> HAVE Init
<1>1. rsi \in Nat /\ bought \subseteq EntryLevels /\ (rsi > 30 => bought = {}) /\ Waiting = {}
  BY LadderAssumption DEF Init, Waiting, NoOrder
<1> QED
  BY <1>1 DEF Init, Ladder, BoughtKnown, LegsRead, Noted, Recovered, Below, BelowBought, Ready, NoOrder

\* The list that is read is the position's.
LEMMA StartLadder == Typed /\ FirstCycle /\ Ladder /\ Start /\ UNCHANGED exposed => Ladder'
<1> SUFFICES ASSUME Typed, FirstCycle, Ladder, Start, UNCHANGED exposed PROVE Ladder'
  OBVIOUS
<1>1. task'.step = "evaluate" /\ task'.legs = legs
  BY DEF Start, Ready
<1>2. UNCHANGED <<entry, meta, legs, orders, phase, rsi, bought>>
  BY DEF Start
<1>3. events \subseteq events' /\ task.step = "none"
  BY DEF Start, Happens
<1>4. Noted'
  <2>1. phase # "pre" => done
    BY DEF Start
  <2> QED
    BY <1>1, <1>2, <1>3, <2>1 DEF Ladder, Noted, Unexposed
<1>5. Waiting' = Waiting /\ EntryLevels' = EntryLevels /\ \A o \in Orders : Bought(o)' = Bought(o)
  BY <1>2 DEF Waiting, EntryLevels, Bought
<1>6. LegsRead' /\ Below'
  BY <1>1, <1>2 DEF LegsRead, Below
<1>7. BoughtKnown' /\ Recovered' /\ BelowBought' /\ \A o \in Orders : orders'[o].now
  BY <1>1, <1>2, <1>3, <1>5 DEF Ladder, BoughtKnown, Recovered, BelowBought
<1> QED
  BY <1>4, <1>6, <1>7 DEF Ladder

\* Data that are written lose no leg, for what was read in the morning is still so; and in
\* the first cycle a level that is chosen is below the entry's and every leg that was read.
LEMMA EvaluateLadder ==
    Typed /\ FirstCycle /\ FirstCycle' /\ OneADay /\ Ladder /\ Evaluate /\ UNCHANGED exposed => Ladder'
<1> SUFFICES ASSUME Typed, FirstCycle, FirstCycle', OneADay, Ladder, Evaluate, UNCHANGED exposed
             PROVE  Ladder'
  OBVIOUS
<1> USE LadderAssumption
<1>1. /\ rsi \in Nat /\ orders \in [Orders -> OrderType] /\ task.meta = meta /\ task.legs \subseteq Levels
      /\ done /\ task.step = "evaluate" /\ meta \in MetaType
      /\ phase # "pre" => "runonce" \in events
      /\ events \subseteq exposed
  BY DEF Typed, TypeOK, TaskOK, TaskType, OrderType, MetaType, Evaluate
<1>2. UNCHANGED <<entry, done, phase, rsi, bought>> /\ events \subseteq events'
  BY DEF Evaluate, Happens
<1>3. \A o \in Orders : /\ orders'[o].st = orders[o].st /\ orders'[o].row = orders[o].row
                        /\ orders'[o].level = orders[o].level
  BY <1>1, EvaluatedOrders
<1>4. Waiting' = Waiting /\ EntryLevels' = EntryLevels /\ \A o \in Orders : Bought(o)' = Bought(o)
  BY <1>2, <1>3 DEF Waiting, EntryLevels, Bought
<1>5. LevelOf(rsi) = None <=> rsi >= 30
  BY <1>1, LevelIs DEF None
<1>6. \/ /\ ~(rsi > 30 \/ Fallen(meta) \/ ~meta.seen)
         /\ UNCHANGED <<meta, legs, events>>
      \/ /\ meta' = Updated(meta) /\ legs' = IF Fallen(meta) THEN {} ELSE task.legs
         /\ UNCHANGED events
      \/ UNCHANGED <<meta, legs>> /\ Happens("nometa")
  <2>1. \/ /\ ~(rsi > 30 \/ Fallen(task.meta) \/ ~task.meta.seen)
           /\ UNCHANGED <<meta, legs, events>>
        \/ /\ meta' = Updated(task.meta) /\ legs' = IF Fallen(task.meta) THEN {} ELSE task.legs
           /\ UNCHANGED events
        \/ UNCHANGED <<meta, legs>> /\ Happens("nometa")
    BY DEF Evaluate
  <2> QED
    BY <1>1, <2>1
<1>7. (meta' = Updated(meta)) =>
           /\ meta'.seen /\ (meta'.first => ~Fallen(meta)) /\ (meta'.above <=> meta.above \/ rsi > 30)
  BY UpdatedFields
<1>8. Fallen(meta) => meta' = meta /\ legs' = legs /\ "nometa" \in events' /\ "nometa" \notin events
  BY <1>6, <1>7 DEF FirstCycle, Happens
<1>9. \A o \in Orders : orders'[o].now
  <2>1. Fallen(meta) => "nometa" \in events' /\ "nometa" \notin events
    BY <1>8
  <2>2. orders' = orders \/ \A o \in Orders : orders'[o] =
            [orders[o] EXCEPT !.now = @ /\ (~Fallen(meta) \/ orders[o] = NoOrder)]
    BY <1>1 DEF Evaluate
  <2>3. Fallen(meta) => orders' = orders
    BY <1>1, <2>1 DEF Evaluate
  <2>4. \A o \in Orders : orders[o].now
    BY DEF Ladder
  <2>5. CASE orders' = orders
    BY <2>4, <2>5
  <2>6. CASE orders' # orders
    <3> TAKE o \in Orders
    <3>1. orders'[o] = [orders[o] EXCEPT !.now = orders[o].now /\ (~Fallen(meta) \/ orders[o] = NoOrder)]
      BY <2>2, <2>6
    <3>2. orders'[o].now = (orders[o].now /\ (~Fallen(meta) \/ orders[o] = NoOrder))
      BY <1>1, <3>1 DEF OrderType
    <3> QED
      BY <2>3, <2>4, <2>6, <3>2
  <2> QED
    BY <2>5, <2>6
<1>10. meta'.above => meta.above \/ rsi > 30
  BY <1>6, <1>7
<1>11. meta.above => meta'.above
  BY <1>6, <1>7
<1>12. legs \subseteq legs' \cup {LevelOf(rsi)} /\ legs' \in {legs, task.legs} /\ legs' \subseteq legs
  <2>1. legs \subseteq task.legs \cup {LevelOf(rsi)} /\ task.legs \subseteq legs
    BY <1>1 DEF Ladder, LegsRead
  <2> QED
    BY <1>8, <1>6, <2>1
<1>13. legs' = legs
  <2>1. CASE rsi >= 30
    <3>1. legs \subseteq Levels /\ LevelOf(rsi) \notin Levels
      BY <1>5, <2>1 DEF Typed, TypeOK, Levels, None
    <3> QED
      BY <1>12, <3>1
  <2>2. CASE phase = "pre"
    BY <1>1, <1>12, <2>2 DEF Ladder, LegsRead
  <2>3. CASE phase # "pre" /\ rsi < 30
    <3>1. meta.seen
      BY <1>1, <2>3 DEF Ladder, Noted, FirstCycle, Unexposed
    <3> QED
      BY <1>1, <1>8, <2>3, <3>1 DEF Evaluate
  <2> QED
    BY <1>1, <2>1, <2>2, <2>3
<1>14. task'.step # "evaluate" /\ LegsRead'
  BY DEF Evaluate, Ready, LegsRead
<1>15. BoughtKnown'
  BY <1>2, <1>3, <1>4, <1>13 DEF Ladder, BoughtKnown
<1>16. Noted'
  <2>1. meta'.seen \/ Happens("nometa")
    BY <1>6, <1>7
  <2>2. Happens("nometa") => ~Unexposed({"nometa"})'
    BY DEF Happens, Unexposed
  <2> QED
    BY <2>1, <2>2 DEF Noted
<1>17. BelowBought'
  <2>1. BelowBought /\ bought' = bought
    BY <1>2 DEF Ladder
  <2>2. \A o \in Waiting : o \in Orders /\ orders'[o].level = orders[o].level
    BY <1>3 DEF Waiting
  <2> QED
    BY <1>4, <2>1, <2>2 DEF BelowBought
<1>18. task'.step = "check" => rsi < 30 /\ task'.level = LevelOf(rsi) /\ task'.reset = Fallen(meta)
                              /\ NextLevel(meta, task.legs) # None
  <2>1. task' = IF NextLevel(meta, task.legs) = None THEN Ready
                ELSE [Ready EXCEPT !.step = "check", !.level = NextLevel(meta, task.legs), !.reset = Fallen(meta)]
    BY <1>1 DEF Evaluate
  <2>2. NextLevel(meta, task.legs) # None => NextLevel(meta, task.legs) = LevelOf(rsi)
    BY DEF NextLevel
  <2>3. CASE NextLevel(meta, task.legs) = None
    BY <2>1, <2>3 DEF Ready
  <2>4. CASE NextLevel(meta, task.legs) # None
    <3>1. task'.step = "check" /\ task'.level = NextLevel(meta, task.legs) /\ task'.reset = Fallen(meta)
      BY <2>1, <2>4 DEF Ready
    <3> QED
      BY <1>1, <1>5, <2>2, <2>4, <3>1
  <2> QED
    BY <2>3, <2>4
<1>19. task'.step # "accepted"
  BY DEF Evaluate, Ready
<1>20. Recovered'
  <2>1. rsi > 30 => bought = {} /\ Waiting = {} /\ task'.step # "check"
    <3>1. rsi > 30 => Waiting = {}
      BY <1>1, <1>5 DEF OneADay, DayOrders, Waiting, Typed, TypeOK, Levels, None
    <3> QED
      BY <1>1, <1>18, <3>1 DEF Ladder, Recovered
  <2>2. meta.above /\ task'.step = "check" => "nometa" \in events' /\ "nometa" \notin events
    BY <1>8, <1>18 DEF Fallen
  <2> QED
    BY <1>2, <1>4, <1>10, <1>19, <2>1, <2>2 DEF Ladder, Recovered
<1>21. Below'
  <2>1. SUFFICES ASSUME task'.step = "check", ~meta'.above
                 PROVE  /\ ~task'.reset /\ \A k \in EntryLevels' : task'.level < k
                        /\ \A k \in legs' : task'.level <= k
    BY DEF Below
  <2>2. ~meta.above
    BY <1>11, <2>1
  <2>3. ~task'.reset /\ LevelOf(rsi) \notin Taken(task.legs) /\ LevelOf(rsi) \in Levels
    BY <1>1, <1>18, <2>1, <2>2, LevelIs DEF Fallen, NextLevel, Levels
  <2>4. \A k \in task.legs \cup EntryLevels : LevelOf(rsi) < k
    BY <1>1, <2>3 DEF Taken, EntryLevels, Levels
  <2>5. legs' \subseteq task.legs \cup {LevelOf(rsi)} /\ LevelOf(rsi) \in Nat
    BY <1>1, <1>13, <2>3 DEF Ladder, LegsRead, Levels
  <2>6. \A k \in task.legs \cup EntryLevels : k \in Nat
    BY <1>1 DEF EntryLevels, Levels
  <2>7. \A k \in legs' : LevelOf(rsi) <= k
    BY <2>4, <2>5, <2>6
  <2> QED
    BY <1>4, <1>18, <2>1, <2>3, <2>4, <2>7
<1> QED
  BY <1>9, <1>14, <1>15, <1>16, <1>17, <1>20, <1>21 DEF Ladder

\* What is placed is below the entry's, the legs, and what was bought and is not yet a leg.
LEMMA PlaceLadder ==
    Typed /\ FirstCycle /\ OneADay /\ Ladder /\ Place /\ UNCHANGED exposed => Ladder'
<1> SUFFICES ASSUME Typed, FirstCycle, OneADay, Ladder, Place, UNCHANGED exposed PROVE Ladder'
  OBVIOUS
<1> USE LadderAssumption
<1>1. /\ orders \in [Orders -> OrderType] /\ task.step = "check" /\ task.order = None /\ None \notin Orders
      /\ task.level = LevelOf(rsi) /\ task.level \in Levels /\ task.level \in Nat /\ bought \subseteq Levels
      /\ task \in TaskType
  BY DEF Typed, TypeOK, TaskOK, TaskType, OrderType, Place, Levels, Orders, None
<1>2. UNCHANGED <<entry, meta, legs, done, phase, rsi, bought, events>>
  BY DEF Place
<1>3. FreeOrder \in Orders /\ orders[FreeOrder] = NoOrder
  BY FreeOrderIs DEF Place
<1>4. orders'[FreeOrder] = [NoOrder EXCEPT !.level = task.level, !.st = "open"]
  BY <1>1, <1>3 DEF Place
<1>5. \A o \in Orders : o # FreeOrder => orders'[o] = orders[o]
  BY <1>1, <1>3 DEF Place
<1>6. orders'[FreeOrder].now /\ orders'[FreeOrder].level = task.level
  BY <1>4 DEF NoOrder
<1>7. orders[FreeOrder].st = "none"
  BY <1>3 DEF NoOrder
<1>8. task'.step = "accepted"
  BY <1>1 DEF Place, TaskType
<1>9. Waiting = {}
  BY <1>1 DEF Place, Blocked, Active, Waiting, OneADay, DayOrders, Bought, OrderType
<1>10. \A l \in bought : task.level < l
  <2> SUFFICES ASSUME NEW l \in bought PROVE task.level < l
    OBVIOUS
  <2>1. ~meta.above
    BY <1>1 DEF Ladder, Recovered
  <2>2. /\ ~task.reset /\ \A k \in EntryLevels : task.level < k
        /\ \A k \in legs : task.level <= k
    BY <1>1, <2>1 DEF Ladder, Below
  <2>3. task.level \notin legs
    BY <2>2 DEF Place, Blocked, Repeated
  <2>4. ~\E o \in Orders : orders[o].level = l /\ Bought(o) /\ orders[o].row # "recorded"
    <3> SUFFICES ASSUME NEW o \in Orders, orders[o].level = l, Bought(o), orders[o].row # "recorded"
                 PROVE  FALSE
      OBVIOUS
    <3>1. orders[o].level = task.level /\ orders[o].fresh /\ orders[o].row # "none"
      BY <1>1 DEF OneADay, DayOrders, Bought
    <3>2. orders[o].row \in {"pending", "executed", "recorded"}
      BY <1>1, <3>1 DEF OrderType
    <3> QED
      BY <3>1, <3>2 DEF Place, Blocked, UsedToday
  <2>5. l \in legs \cup EntryLevels
    BY <2>4 DEF Ladder, BoughtKnown
  <2> QED
    BY <1>1, <2>2, <2>3, <2>5 DEF Levels
<1>11. BelowBought'
  BY <1>2, <1>5, <1>6, <1>9, <1>10 DEF Waiting, BelowBought
<1>12. BoughtKnown'
  <2>1. \A o \in Orders : Bought(o) => Bought(o)' /\ orders'[o] = orders[o]
    BY <1>5, <1>7 DEF Bought
  <2>2. EntryLevels' = EntryLevels
    BY <1>2 DEF EntryLevels
  <2> QED
    BY <1>2, <2>1, <2>2 DEF Ladder, BoughtKnown
<1>13. Recovered'
  BY <1>1, <1>2, <1>8 DEF Ladder, Recovered
<1>14. LegsRead' /\ Below' /\ Noted'
  BY <1>1, <1>2, <1>8 DEF Ladder, LegsRead, Below, Noted, Unexposed
<1>15. \A o \in Orders : orders'[o].now
  BY <1>5, <1>6 DEF Ladder
<1> QED
  BY <1>11, <1>12, <1>13, <1>14, <1>15 DEF Ladder

\* A run that ends changes nothing the ladder rests on.
LEMMA EndLadder ==
    Typed /\ FirstCycle /\ Ladder /\ (Skip \/ Write) /\ UNCHANGED exposed => Ladder'
<1> SUFFICES ASSUME Typed, FirstCycle, Ladder, Skip \/ Write, UNCHANGED exposed PROVE Ladder'
  OBVIOUS
<1>1. /\ task' = Ready /\ UNCHANGED <<entry, meta, legs, done, phase, rsi, bought>>
      /\ events \subseteq events' /\ task.step # "evaluate"
  BY DEF Skip, Write, Happens
<1>2. \A o \in Orders : /\ orders'[o].st = orders[o].st /\ orders'[o].level = orders[o].level
                        /\ orders'[o].now = orders[o].now
                        /\ orders'[o].row \in {orders[o].row, "pending"}
  BY DEF Skip, Write, Typed, TypeOK
<1>3. Waiting' = Waiting /\ EntryLevels' = EntryLevels /\ \A o \in Orders : Bought(o)' <=> Bought(o)
  BY <1>1, <1>2 DEF Waiting, EntryLevels, Bought
<1>4. BoughtKnown'
  BY <1>1, <1>2, <1>3 DEF Ladder, BoughtKnown
<1>5. LegsRead' /\ Below' /\ Noted' /\ Recovered'
  BY <1>1, <1>3 DEF Ladder, LegsRead, Below, Noted, Recovered, Ready, Unexposed
<1>6. BelowBought'
  BY <1>1, <1>2, <1>3 DEF Ladder, BelowBought, Waiting
<1> QED
  BY <1>2, <1>4, <1>5, <1>6 DEF Ladder

\* A fill is on its way to become a leg; after a recovery only the first one of the fall
\* that could not be noted can be bought, and no run then has another.
LEMMA FillLadder ==
    ASSUME NEW o \in Orders
    PROVE  Typed /\ FirstCycle /\ OneADay /\ Ladder /\ Fill(o) /\ UNCHANGED exposed => Ladder'
<1> SUFFICES ASSUME Typed, FirstCycle, OneADay, Ladder, Fill(o), UNCHANGED exposed PROVE Ladder'
  OBVIOUS
<1> USE LadderAssumption
<1>1. /\ UNCHANGED <<entry, meta, legs, task, done, phase, rsi, events>> /\ phase = "open"
      /\ bought' = bought \cup {orders[o].level} /\ o \in Waiting
      /\ orders[o].level = LevelOf(rsi) /\ rsi \in Nat /\ orders[o].level \in Levels
      /\ orders[o].row \notin {"executed", "recorded"}
  BY DEF Fill, OneADay, DayOrders, Waiting, Bought, Typed, TypeOK
<1>2. /\ \A p \in Orders : /\ orders'[p].level = orders[p].level /\ orders'[p].row = orders[p].row
                           /\ orders'[p].now = orders[p].now
                           /\ p # o => orders'[p].st = orders[p].st
      /\ orders'[o].st = "filled"
  BY DEF Fill, Typed, TypeOK
<1>3. Waiting' = {}
  BY <1>1, <1>2 DEF OneADay, OneOrder, Waiting
<1>4. EntryLevels' = EntryLevels /\ Bought(o)' /\ \A p \in Orders : Bought(p) => Bought(p)'
  BY <1>1, <1>2 DEF EntryLevels, Bought
<1>5. BoughtKnown'
  BY <1>1, <1>2, <1>4 DEF Ladder, BoughtKnown
<1>6. rsi < 30
  BY <1>1, LevelIs DEF Levels, None
<1>7. meta.above => "nometa" \in events
  BY <1>1 DEF Ladder, Recovered
<1>8. meta.above => task.step # "check"
  <2> SUFFICES ASSUME meta.above, task.step = "check" PROVE FALSE
    OBVIOUS
  <2>1. "nometa" \in exposed /\ "runonce" \in exposed
    BY <1>1, <1>7 DEF Typed, TypeOK, TaskOK
  <2> QED
    BY <2>1 DEF FirstCycle, Unexposed
<1>9. Recovered'
  BY <1>1, <1>3, <1>6, <1>7, <1>8 DEF Recovered
<1>10. LegsRead' /\ Below' /\ Noted'
  <2>1. LevelOf(rsi)' = LevelOf(rsi)
    BY <1>1 DEF LevelOf
  <2> QED
    BY <1>1, <1>4, <2>1 DEF Ladder, LegsRead, Below, Noted, Unexposed
<1>11. BelowBought'
  BY <1>3 DEF BelowBought
<1> QED
  BY <1>2, <1>5, <1>9, <1>10, <1>11 DEF Ladder

\* A leg is recorded in its cycle, at the level of the day; a rejected order was not bought.
LEMMA MonitorLadder ==
    ASSUME NEW o \in Orders
    PROVE  Typed /\ FirstCycle /\ OneADay /\ Ladder /\ (Execute(o) \/ Record(o) \/ Reject(o)) /\ UNCHANGED exposed
               => Ladder'
<1> SUFFICES ASSUME Typed, FirstCycle, OneADay, Ladder, Execute(o) \/ Record(o) \/ Reject(o), UNCHANGED exposed
             PROVE Ladder'
  OBVIOUS
<1> USE LadderAssumption
<1>1. /\ UNCHANGED <<entry, meta, task, done, phase, rsi, bought>> /\ events \subseteq events'
      /\ legs \subseteq legs' /\ legs' \subseteq legs \cup {orders[o].level}
  BY DEF Execute, Record, Reject, Happens, Legs
<1>2. \A p \in Orders : /\ orders'[p].level = orders[p].level /\ orders'[p].now = orders[p].now
                        /\ p # o => orders'[p] = orders[p]
                        /\ orders'[p].st = "open" => orders[p].st = "open"
                        /\ orders[p].st = "filled" => orders'[p].st = "filled"
  BY DEF Execute, Record, Reject, Waiting, Typed, TypeOK
<1>3. Waiting' \subseteq Waiting /\ EntryLevels' = EntryLevels /\ \A p \in Orders : Bought(p) => Bought(p)'
  BY <1>1, <1>2 DEF EntryLevels, Bought, Waiting
<1>4. LevelOf(rsi)' = LevelOf(rsi) /\ rsi \in Nat
  BY <1>1 DEF LevelOf, Typed, TypeOK
<1>5. legs' # legs => Bought(o) /\ orders[o].level = LevelOf(rsi) /\ phase # "pre" /\ LevelOf(rsi) \in Levels
  <2> SUFFICES ASSUME legs' # legs
               PROVE  Bought(o) /\ orders[o].level = LevelOf(rsi) /\ phase # "pre" /\ LevelOf(rsi) \in Levels
    OBVIOUS
  <2>1. orders[o].row = "executed"
    BY DEF Execute, Record, Reject
  <2>2. Bought(o)
    BY <2>1 DEF OneADay, DayOrders
  <2>3. orders[o].level = LevelOf(rsi) /\ phase # "pre"
    BY <2>2 DEF OneADay, DayOrders, Bought
  <2> QED
    BY <2>2, <2>3 DEF Typed, TypeOK, Bought
<1>6. BoughtKnown'
  <2> SUFFICES ASSUME NEW l \in bought
               PROVE  \/ l \in legs' \cup EntryLevels
                      \/ \E p \in Orders : orders'[p].level = l /\ Bought(p)' /\ orders'[p].row # "recorded"
    BY <1>1, <1>3 DEF BoughtKnown
  <2>1. CASE l \in legs \cup EntryLevels
    BY <1>1, <2>1
  <2>2. ASSUME NEW p \in Orders, orders[p].level = l, Bought(p), orders[p].row # "recorded"
        PROVE  \/ l \in legs'
               \/ orders'[p].level = l /\ Bought(p)' /\ orders'[p].row # "recorded"
    <3>1. orders[o].now
      BY DEF Ladder
    <3>2. CASE Record(o)
      BY <1>2, <1>3, <2>2, <3>1, <3>2 DEF Record, Legs
    <3>3. CASE Execute(o) \/ Reject(o)
      BY <1>2, <1>3, <2>2, <3>3 DEF Execute, Reject, Typed, TypeOK
    <3> QED
      BY <3>2, <3>3
  <2> QED
    BY <2>1, <2>2 DEF Ladder, BoughtKnown
<1>7. LegsRead'
  BY <1>1, <1>4, <1>5 DEF Ladder, LegsRead
<1>8. Below'
  <2>1. task.step = "check" => task.level = LevelOf(rsi)
    BY DEF Typed, TaskOK
  <2>2. legs' # legs => LevelOf(rsi) \in Nat
    BY <1>5 DEF Levels
  <2> QED
    BY <1>1, <1>3, <1>5, <2>1, <2>2 DEF Ladder, Below
<1>9. Noted' /\ Recovered'
  BY <1>1, <1>3 DEF Ladder, Noted, Recovered, Unexposed
<1>10. BelowBought'
  BY <1>1, <1>2, <1>3 DEF Ladder, BelowBought, Waiting
<1> QED
  BY <1>2, <1>6, <1>7, <1>8, <1>9, <1>10 DEF Ladder

\* By the next day every fill is a leg; a reading above 30 is the recovery.
LEMMA DaysLadder ==
    Typed /\ FirstCycle /\ OneADay /\ Ladder /\ (Days \/ Crash) /\ UNCHANGED exposed => Ladder'
<1> SUFFICES ASSUME Typed, FirstCycle, OneADay, Ladder, Days \/ Crash, UNCHANGED exposed PROVE Ladder'
  OBVIOUS
<1>1. CASE Clock
  <2>1. /\ UNCHANGED <<entry, meta, legs, orders, task, done, rsi, bought>> /\ events \subseteq events'
        /\ task.step = "none"
    BY <1>1 DEF Clock, Happens
  <2>2. Waiting' = Waiting /\ EntryLevels' = EntryLevels /\ \A p \in Orders : Bought(p)' <=> Bought(p)
    BY <2>1 DEF EntryLevels, Bought, Waiting
  <2> QED
    BY <2>1, <2>2 DEF Ladder, BoughtKnown, LegsRead, Noted, Recovered, Below, BelowBought, Unexposed
<1>2. CASE NextDay
  <2>1. orders' = [o \in Orders |-> NoOrder]
    BY <1>2, NothingKept DEF FirstCycle
  <2>2. /\ UNCHANGED <<entry, legs, task, events>> /\ phase = "closed" /\ done' = FALSE
        /\ bought' \subseteq bought /\ (rsi' > 30 => bought' = {})
    BY <1>2 DEF NextDay
  <2>3. meta'.above <=> meta.above
    BY <1>2 DEF NextDay, Typed, TypeOK
  <2>4. Waiting' = {} /\ EntryLevels' = EntryLevels /\ \A o \in Orders : orders'[o].now
    BY <2>1, <2>2 DEF EntryLevels, Waiting, NoOrder
  <2>5. task.step = "none"
    BY <2>2 DEF Typed, TaskOK
  <2>6. \A o \in Orders : Bought(o) => orders[o].row = "recorded"
    <3>1. task.order = None /\ None \notin Orders
      BY <2>5 DEF Typed, TaskOK, None, Orders
    <3>2. orders \in [Orders -> OrderType]
      BY DEF Typed, TypeOK, OrderType
    <3> QED
      BY <2>2, <3>1, <3>2 DEF OneADay, DayOrders, Unrecorded, Bought, OrderType
  <2>7. BoughtKnown'
    BY <2>2, <2>4, <2>6 DEF Ladder, BoughtKnown
  <2> QED
    BY <2>2, <2>3, <2>4, <2>5, <2>7 DEF Ladder, LegsRead, Noted, Recovered, Below, BelowBought
<1>3. ~Crash
  BY DEF Crash, Happens, FirstCycle, Followed, Unexposed
<1> QED
  BY <1>1, <1>2, <1>3 DEF Days

\* No step begins the first cycle again.
LEMMA FirstStays == Typed /\ Next /\ FirstCycle' => FirstCycle
<1> SUFFICES ASSUME Typed, Next, FirstCycle' PROVE FirstCycle
  OBVIOUS
<1>1. UNCHANGED exposed
  BY DEF Next, Keep
<1>2. meta'.first => meta.first
  <2>1. CASE Evaluate
    <3>1. task.meta = meta
      BY <2>1 DEF Evaluate, Typed, TaskOK
    <3>2. meta' = meta \/ meta' = Updated(meta)
      BY <2>1, <3>1 DEF Evaluate
    <3> QED
      BY <3>2, UpdatedFields
  <2>2. CASE NextDay
    BY <2>2 DEF NextDay, Typed, TypeOK
  <2>3. CASE ~Evaluate /\ ~NextDay
    <3>1. UNCHANGED meta
      BY <2>3 DEF Next, Keep, Task, Start, Skip, Place, Write, Monitor, Execute, Record, Days, Clock,
                  Others, Crash, Fill, Reject
    <3> QED
      BY <3>1
  <2> QED
    BY <2>1, <2>2, <2>3
<1> QED
  BY <1>1, <1>2 DEF FirstCycle, Followed, Unexposed

\* Every step keeps the ladder.
LEMMA StepLadder == LadderInv /\ [Next]_vars => LadderInv'
<1> SUFFICES ASSUME LadderInv, [Next]_vars PROVE LadderInv'
  OBVIOUS
<1>1. Typed'
  BY StepTyped DEF LadderInv
<1>2. Followed' => OneADay'
  <2>1. UNCHANGED exposed
    BY DEF Next, Keep, vars
  <2>2. Followed' => Followed
    BY <2>1 DEF Followed, Unexposed
  <2> QED
    BY <2>2, StepDays DEF LadderInv
<1>3. FirstCycle' => Ladder'
  <2> SUFFICES ASSUME FirstCycle' PROVE Ladder'
    OBVIOUS
  <2>1. CASE UNCHANGED vars
    <3>1. FirstCycle
      BY <2>1 DEF FirstCycle, Followed, Unexposed, vars
    <3>2. /\ LevelOf(rsi)' = LevelOf(rsi) /\ EntryLevels' = EntryLevels /\ Waiting' = Waiting
          /\ \A o \in Orders : Bought(o)' <=> Bought(o)
      BY <2>1 DEF vars, LevelOf, EntryLevels, Waiting, Bought
    <3> QED
      BY <2>1, <3>1, <3>2 DEF LadderInv, vars, Ladder, BoughtKnown, LegsRead, Noted, Recovered, Below, BelowBought, Unexposed
  <2>2. CASE Next
    <3>1. FirstCycle /\ Typed /\ OneADay /\ Ladder /\ UNCHANGED exposed
      BY <2>2, FirstStays DEF LadderInv, FirstCycle, Next, Keep
    <3>2. CASE Task
      BY <3>1, <3>2, StartLadder, EvaluateLadder, PlaceLadder, EndLadder DEF Task
    <3>3. CASE Monitor
      BY <3>1, <3>3, MonitorLadder DEF Monitor
    <3>4. CASE Days \/ Crash
      BY <3>1, <3>4, DaysLadder
    <3>5. CASE \E o \in Orders : Fill(o) \/ Reject(o)
      BY <3>1, <3>5, FillLadder, MonitorLadder
    <3> QED
      BY <2>2, <3>2, <3>3, <3>4, <3>5 DEF Next, Keep, Others
  <2> QED
    BY <2>1, <2>2
<1> QED
  BY <1>1, <1>2, <1>3 DEF LadderInv

\* No level of the RSI is bought twice on one day, no two re-entries wait at once, and in
\* the first cycle each is for a level below everything bought since the entry: for any
\* readings and through skipped, repeated and failing runs, lapsed and rejected orders.
THEOREM LadderCorrect == Spec => []LadderDescends
<1>1. Init => LadderInv
  BY InitTyped, InitDays, InitLadder DEF LadderInv
<1>2. LadderInv => LadderDescends
  <2> SUFFICES ASSUME LadderInv PROVE LadderDescends
    OBVIOUS
  <2>1. OncePerDay
    <3> SUFFICES ASSUME Followed, NEW o \in Waiting
                 PROVE  orders[o].level \notin today /\ Cardinality(Waiting) = 1
      BY DEF OncePerDay
    <3>1. orders[o].level \notin today /\ Waiting = {o}
      BY DEF LadderInv, OneADay, OneOrder
    <3> QED
      BY <3>1, FS_Singleton
  <2>2. Down
    BY DEF LadderInv, Ladder, BelowBought, Down, FirstCycle
  <2> QED
    BY <2>1, <2>2 DEF LadderDescends
<1> QED
  BY <1>1, <1>2, StepLadder, PTL DEF Spec
-----------------------------------------------------------------------------
(* The candles the RSI is computed from: proofs about CandleCache, for any   *)
(* threads, window and thresholds                                            *)

CONSTANTS Readers, Window, Short, Tail, MinCover, MinGaps, MinBars, Threshold, Sources, Scenes
VARIABLES source, bars, older, status, trading, published, hour, analysed, up, breaker,
          thread, happened, allowed

C == INSTANCE CandleInvariant
         WITH phase <- hour, th <- thread, events <- happened, exposed <- allowed,
              Exposures <- Scenes

\* A set of days has an oldest one.
LEMMA OldestDay ==
    ASSUME Window \in Nat, NEW S \in SUBSET C!Ages, S # {}
    PROVE  C!Max(S) \in S /\ \A y \in S : y <= C!Max(S)
<1>. DEFINE T == {Window - y : y \in S}
<1>1. T \subseteq Nat /\ T # {}
  <2>1. \A y \in S : Window - y \in Nat
    BY DEF C!Ages
  <2>2. PICK y : y \in S
    OBVIOUS
  <2>3. Window - y \in T
    BY <2>2
  <2>. QED  BY <2>1, <2>3
<1>2. \E m \in T : \A n \in T : <<n, m>> \notin OpToRel(<, Nat)
  BY <1>1, NatLessThanWellFounded, WFMin
<1>3. PICK m \in T : \A n \in T : ~(n < m)
  BY <1>1, <1>2 DEF OpToRel
<1>4. PICK x \in S : m = Window - x
  BY <1>3
<1>5. \A y \in S : x >= y
  <2>1. \A y \in S : ~(Window - y < m)
    BY <1>3
  <2>. QED  BY <1>4, <2>1 DEF C!Ages
<1>6. C!Max(S) \in S /\ \A y \in S : C!Max(S) >= y
  BY <1>4, <1>5 DEF C!Max
<1>. QED  BY <1>6 DEF C!Ages

\* The smaller of two numbers.
LEMMA SmallerOne ==
    ASSUME NEW x \in Nat, NEW y \in Nat
    PROVE  C!Min({x, y}) = IF x <= y THEN x ELSE y
<1>1. \E z \in {x, y} : \A w \in {x, y} : z =< w
  OBVIOUS
<1>2. C!Min({x, y}) \in {x, y} /\ \A w \in {x, y} : C!Min({x, y}) =< w
  BY <1>1 DEF C!Min
<1>. QED  BY <1>2

-----------------------------------------------------------------------------
(* Its types *)

\* A thread is one again after a step of it alone.
LEMMA ThreadStep ==
    ASSUME C!Typed, NEW r \in Readers, C!Alone(r), UNCHANGED source,
           thread'[r] \in C!ThreadType, thread'[r].step = "fetch" => source # "yahoo"
    PROVE  C!ThreadsTyped'
  BY DEF C!Typed, C!ThreadsTyped, C!ThreadTyped, C!Alone

\* The idle thread, and one whose call of Yahoo failed.
LEMMA IdleTyped == C!CacheAssumption => C!Idle \in C!ThreadType /\ C!Idle.step # "fetch"
  BY DEF C!CacheAssumption, C!Idle, C!ThreadType, C!Fetched, C!States

LEMMA FailedTyped ==
    ASSUME C!CacheAssumption, NEW p \in C!ThreadType
    PROVE  C!Failed(p) \in C!ThreadType /\ C!Failed(p).step # "fetch"
<1>1. CASE p.goal = "fill"
  BY <1>1 DEF C!Failed, C!ThreadType, C!States
<1>2. CASE p.goal = "refresh"
  BY <1>2 DEF C!Failed, C!ThreadType
<1>3. CASE p.goal = "raw"
  BY <1>3, IdleTyped DEF C!Failed
<1>. QED  BY <1>1, <1>2, <1>3 DEF C!ThreadType

\* What the days of a fill are taken from.
LEMMA DaysOfFill ==
    ASSUME C!Typed, C!CacheAssumption, NEW w \in C!Ages
    PROVE  C!ToFetch(w) \subseteq C!Ages
  BY DEF C!Typed, C!DaysTyped, C!ToFetch, C!Expected

\* What the answer of Yahoo holds is never taken for a file of the exchange.
LEMMA CandlesTyped ==
    ASSUME NEW p PROVE C!Candles(p) \in [C!Ages -> C!Fetched]
  BY DEF C!Candles, C!Fetched

\* Steps that begin, decide, validate and read.
LEMMA ReaderTyped ==
    ASSUME C!Typed, C!CacheAssumption, UNCHANGED allowed, NEW r \in Readers,
           \/ \E ro, live \in BOOLEAN, w \in {Short, Window} : C!Begin(r, ro, live, w)
           \/ C!Decide(r) \/ C!Validate(r) \/ C!Record(r) \/ C!Read(r) \/ C!Refresh(r)
    PROVE  C!Typed'
<1>0. thread[r] \in C!ThreadType /\ Window \in C!Ages /\ Short \in C!Ages
  BY DEF C!Typed, C!ThreadsTyped, C!CacheAssumption, C!Ages
<1>1. ASSUME NEW ro \in BOOLEAN, NEW live \in BOOLEAN, NEW w \in {Short, Window}, C!Begin(r, ro, live, w)
      PROVE  C!Typed'
  <2>1. thread'[r] = [C!Idle EXCEPT !.step = "decide", !.ro = ro, !.live = live, !.back = w] /\ C!Alone(r)
    BY <1>1 DEF C!Begin, C!Alone, C!Typed, C!ThreadsTyped
  <2>2. thread'[r] \in C!ThreadType /\ thread'[r].step = "decide"
    BY <2>1, IdleTyped DEF C!ThreadType
  <2>3. C!ThreadsTyped'
    BY <1>1, <2>1, <2>2, ThreadStep DEF C!Begin, C!world
  <2>. QED  BY <1>1, <2>3 DEF C!Begin, C!table, C!world, C!Typed, C!RestTyped, C!TableTyped,
                              C!FilesThere, C!DaysTyped, C!BreakerTyped
<1>2. CASE C!Decide(r)
  <2>. DEFINE w == thread[r].back
              stp == IF thread[r].ro THEN "read"
                     ELSE IF C!Needed(w) # {} THEN (IF source = "yahoo" THEN "call" ELSE "fetch")
                     ELSE IF thread[r].live THEN "refresh" ELSE "read"
              due == {a \in published : a \in C!Newest({b \in trading : b <= w}) /\ C!IngestAllowed(a)}
  <2>1. /\ thread'[r] = [thread[r] EXCEPT !.step = stp, !.todo = C!ToFetch(w), !.due = due]
        /\ C!Alone(r)
    BY <1>2 DEF C!Decide, C!Alone, C!Typed, C!ThreadsTyped
  <2>2. due \subseteq C!Ages /\ C!ToFetch(w) \subseteq C!Ages
    BY <1>0, DaysOfFill DEF C!ThreadType, C!Typed, C!DaysTyped
  <2>3. stp \in {"read", "call", "fetch", "refresh"} /\ (stp = "fetch" => source # "yahoo")
    OBVIOUS
  <2>. HIDE DEF stp, due
  <2>4. thread'[r] \in C!ThreadType /\ thread'[r].step = stp
    BY <1>0, <2>1, <2>2, <2>3, ZenonT(30) DEF C!ThreadType
  <2>5. C!ThreadsTyped'
    BY <1>2, <2>1, <2>3, <2>4, ThreadStep DEF C!Decide, C!world
  <2>6. status' \in C!States
    BY <1>2 DEF C!Decide, C!Revalidated, C!Typed, C!TableTyped, C!States
  <2>. QED  BY <1>2, <2>5, <2>6 DEF C!Decide, C!table, C!world, C!Typed, C!RestTyped, C!TableTyped,
                                    C!FilesThere, C!DaysTyped, C!BreakerTyped
<1>3. CASE C!Validate(r)
  <2>1. /\ thread'[r] = [thread[r] EXCEPT !.step = "record", !.verdict = C!Verdict(thread[r].back)]
        /\ C!Alone(r)
    BY <1>3 DEF C!Validate, C!Alone, C!Typed, C!ThreadsTyped
  <2>2. C!Verdict(thread[r].back) \in C!States
    BY DEF C!Verdict, C!States
  <2>3. thread'[r] \in C!ThreadType /\ thread'[r].step = "record"
    BY <1>0, <2>1, <2>2 DEF C!ThreadType
  <2>4. C!ThreadsTyped'
    BY <1>3, <2>1, <2>3, ThreadStep DEF C!Validate, C!world
  <2>. QED  BY <1>3, <2>4 DEF C!Validate, C!table, C!world, C!Typed, C!RestTyped, C!TableTyped,
                              C!FilesThere, C!DaysTyped, C!BreakerTyped
<1>4. CASE C!Record(r)
  <2>1. PICK stp \in {"call", "read"} :
            /\ thread'[r] = [thread[r] EXCEPT !.step = stp, !.added = TRUE, !.verdict = "unknown"]
            /\ C!Alone(r)
    BY <1>4 DEF C!Record, C!Alone, C!Typed, C!ThreadsTyped
  <2>2. thread'[r] \in C!ThreadType /\ thread'[r].step # "fetch"
    BY <1>0, <2>1 DEF C!ThreadType, C!States
  <2>3. C!ThreadsTyped'
    BY <1>4, <2>1, <2>2, ThreadStep DEF C!Record, C!world
  <2>4. status' \in C!States
    BY <1>0, <1>4 DEF C!Record, C!ThreadType
  <2>. QED  BY <1>4, <2>3, <2>4 DEF C!Record, C!table, C!world, C!Typed, C!RestTyped, C!TableTyped,
                              C!FilesThere, C!DaysTyped, C!BreakerTyped
<1>5. CASE C!Read(r)
  <2>1. /\ thread'[r] \in {C!Idle, [C!Idle EXCEPT !.step = "call", !.goal = "raw"]}
        /\ C!Alone(r)
    BY <1>5 DEF C!Read, C!Alone, C!Typed, C!ThreadsTyped
  <2>2. thread'[r] \in C!ThreadType /\ thread'[r].step # "fetch"
    BY <2>1, IdleTyped, ZenonT(30) DEF C!ThreadType
  <2>3. C!ThreadsTyped'
    BY <1>5, <2>1, <2>2, ThreadStep DEF C!Read, C!world
  <2>. QED  BY <1>5, <2>3 DEF C!Read, C!table, C!world, C!Typed, C!RestTyped, C!TableTyped,
                              C!FilesThere, C!DaysTyped, C!BreakerTyped
<1>6. CASE C!Refresh(r)
  <2>1. PICK stp \in {"call", "read"} :
            /\ thread'[r] = [thread[r] EXCEPT !.step = stp, !.goal = "refresh"]
            /\ C!Alone(r)
    BY <1>6 DEF C!Refresh, C!Alone, C!Typed, C!ThreadsTyped
  <2>2. thread'[r] \in C!ThreadType /\ thread'[r].step # "fetch"
    BY <1>0, <2>1 DEF C!ThreadType
  <2>3. C!ThreadsTyped'
    BY <1>6, <2>1, <2>2, ThreadStep DEF C!Refresh, C!world
  <2>4. 0 \in C!Ages
    BY DEF C!CacheAssumption, C!Ages
  <2>5. \/ bars' = bars
        \/ bars' = [bars EXCEPT ![0] = "nse"] /\ 0 \in published /\ source # "yahoo"
    BY <1>6 DEF C!Refresh
  <2>6. bars' \in [C!Ages -> C!Kinds] /\ \A a \in C!Ages : bars'[a] = "nse" => a \in published /\ source # "yahoo"
    BY <2>4, <2>5 DEF C!Typed, C!TableTyped, C!FilesThere, C!Kinds
  <2>. QED  BY <1>6, <2>3, <2>6 DEF C!Refresh, C!table, C!world, C!Typed, C!RestTyped, C!TableTyped,
                              C!FilesThere, C!DaysTyped, C!BreakerTyped
<1>. QED  BY <1>1, <1>2, <1>3, <1>4, <1>5, <1>6

\* A file is read, or is not there, or the fill is given up.
LEMMA FetchTyped ==
    ASSUME C!Typed, C!CacheAssumption, UNCHANGED allowed, NEW r \in Readers, C!FetchDay(r)
    PROVE  C!Typed'
<1>. DEFINE a == C!Max(thread[r].todo)
<1>0. thread[r] \in C!ThreadType /\ thread[r].step = "fetch" /\ source # "yahoo" /\ thread[r].todo # {}
  BY DEF C!Typed, C!ThreadsTyped, C!ThreadTyped, C!FetchDay
<1>1. a \in C!Ages
  BY <1>0, OldestDay DEF C!ThreadType, C!CacheAssumption
<1>. HIDE DEF a
<1>2. /\ C!Alone(r)
      /\ \/ thread'[r] = [thread[r] EXCEPT !.todo = thread[r].todo \ {a}, !.added = TRUE]
         \/ thread'[r] = [thread[r] EXCEPT !.todo = thread[r].todo \ {a}, !.due = thread[r].due \ {a}]
         \/ thread'[r] = [thread[r] EXCEPT !.step = "call", !.goal = "raw"]
  BY DEF C!FetchDay, C!Alone, C!Typed, C!ThreadsTyped, a
<1>3. thread'[r] \in C!ThreadType
  <2>1. thread[r].todo \ {a} \subseteq C!Ages /\ thread[r].due \ {a} \subseteq C!Ages
    BY <1>0 DEF C!ThreadType
  <2>2. ASSUME NEW S \in SUBSET C!Ages
        PROVE  [thread[r] EXCEPT !.todo = S, !.added = TRUE] \in C!ThreadType
    BY <1>0 DEF C!ThreadType
  <2>3. [thread[r] EXCEPT !.step = "call", !.goal = "raw"] \in C!ThreadType
    BY <1>0 DEF C!ThreadType
  <2>4. CASE thread'[r] = [thread[r] EXCEPT !.todo = thread[r].todo \ {a}, !.added = TRUE]
    BY <2>1, <2>2, <2>4
  <2>5. CASE thread'[r] = [thread[r] EXCEPT !.todo = thread[r].todo \ {a}, !.due = thread[r].due \ {a}]
    <3>. DEFINE S == thread[r].todo \ {a}
                D == thread[r].due \ {a}
    <3>1. S \in SUBSET C!Ages /\ D \in SUBSET C!Ages
      BY <2>1
    <3>2. thread'[r] = [thread[r] EXCEPT !.todo = S, !.due = D]
      BY <2>5
    <3>. HIDE DEF S, D
    <3>. QED  BY <1>0, <3>1, <3>2 DEF C!ThreadType
  <2>6. CASE thread'[r] = [thread[r] EXCEPT !.step = "call", !.goal = "raw"]
    BY <2>3, <2>6
  <2>. QED  BY <1>2, <2>4, <2>5, <2>6
<1>4. C!ThreadsTyped'
  BY <1>0, <1>2, <1>3, ThreadStep DEF C!FetchDay, C!world
<1>5. \/ bars' = bars
      \/ bars' = [bars EXCEPT ![a] = "nse"] /\ a \in published
  BY DEF C!FetchDay, a
<1>6. bars' \in [C!Ages -> C!Kinds] /\ \A b \in C!Ages : bars'[b] = "nse" => b \in published /\ source # "yahoo"
  BY <1>0, <1>1, <1>5 DEF C!Typed, C!TableTyped, C!FilesThere, C!Kinds
<1>7. happened' \subseteq allowed
  BY DEF C!FetchDay, C!Happens, C!Typed, C!RestTyped
<1>. QED  BY <1>4, <1>6, <1>7 DEF C!FetchDay, C!world, C!Typed, C!RestTyped, C!TableTyped,
                              C!FilesThere, C!DaysTyped, C!BreakerTyped

\* A call of Yahoo, its answer, and what is written of it.
LEMMA YahooTyped ==
    ASSUME C!Typed, C!CacheAssumption, UNCHANGED allowed, NEW r \in Readers,
           C!Call(r) \/ C!Succeeds(r) \/ C!Fails(r) \/ C!Upsert(r)
    PROVE  C!Typed'
<1>. DEFINE p == thread[r]
<1>0. /\ p \in C!ThreadType /\ breaker \in C!BreakerType /\ Threshold \in Nat \ {0}
      /\ C!Failed(p) \in C!ThreadType /\ C!Failed(p).step # "fetch"
  BY FailedTyped DEF C!Typed, C!ThreadsTyped, C!BreakerTyped, C!CacheAssumption
<1>1. CASE C!Call(r)
  <2>1. C!Alone(r) /\ thread'[r] \in {C!Failed(p), [p EXCEPT !.step = "answer"]}
    BY <1>1 DEF C!Call, C!Alone, C!Typed, C!ThreadsTyped
  <2>2. [p EXCEPT !.step = "answer"] \in C!ThreadType /\ [p EXCEPT !.step = "answer"].step = "answer"
    BY <1>0 DEF C!ThreadType
  <2>3. C!ThreadsTyped'
    BY <1>0, <1>1, <2>1, <2>2, ThreadStep DEF C!Call, C!world
  <2>4. breaker' = breaker \/ breaker' = [breaker EXCEPT !.state = "half"]
    BY <1>1 DEF C!Call
  <2>5. C!BreakerTyped'
    BY <1>0, <2>4 DEF C!BreakerTyped, C!BreakerType, C!Typed
  <2>. QED  BY <1>1, <2>3, <2>5 DEF C!Call, C!table, C!world, C!Typed, C!RestTyped, C!TableTyped,
                                    C!FilesThere, C!DaysTyped
<1>2. CASE C!Succeeds(r)
  <2>1. /\ C!Alone(r)
        /\ \/ thread'[r] \in {C!Idle, C!Failed(p)}
           \/ thread'[r] = [p EXCEPT !.step = "upsert", !.got = C!Candles(p)]
           \/ \E a \in C!Ages : thread'[r] = [p EXCEPT !.step = "upsert",
                                                       !.got = [C!Candles(p) EXCEPT ![a] = "none"]]
    BY <1>2 DEF C!Succeeds, C!Alone, C!Typed, C!ThreadsTyped
  <2>2. ASSUME NEW g \in [C!Ages -> C!Fetched]
        PROVE  /\ [p EXCEPT !.step = "upsert", !.got = g] \in C!ThreadType
               /\ [p EXCEPT !.step = "upsert", !.got = g].step # "fetch"
    BY <1>0 DEF C!ThreadType
  <2>3. /\ C!Candles(p) \in [C!Ages -> C!Fetched]
        /\ \A a \in C!Ages : [C!Candles(p) EXCEPT ![a] = "none"] \in [C!Ages -> C!Fetched]
    BY CandlesTyped DEF C!Fetched
  <2>4. thread'[r] \in C!ThreadType /\ thread'[r].step # "fetch"
    <3>1. CASE thread'[r] \in {C!Idle, C!Failed(p)}
      BY <1>0, <3>1, IdleTyped
    <3>2. CASE thread'[r] = [p EXCEPT !.step = "upsert", !.got = C!Candles(p)]
      <4>. DEFINE g == C!Candles(p)
      <4>1. g \in [C!Ages -> C!Fetched]
        BY <2>3
      <4>. HIDE DEF g
      <4>2. /\ [p EXCEPT !.step = "upsert", !.got = g] \in C!ThreadType
            /\ [p EXCEPT !.step = "upsert", !.got = g].step # "fetch"
        BY <2>2, <4>1
      <4>. QED  BY <3>2, <4>2 DEF g
    <3>3. ASSUME NEW a \in C!Ages,
                 thread'[r] = [p EXCEPT !.step = "upsert", !.got = [C!Candles(p) EXCEPT ![a] = "none"]]
          PROVE  thread'[r] \in C!ThreadType /\ thread'[r].step # "fetch"
      <4>. DEFINE g == [C!Candles(p) EXCEPT ![a] = "none"]
      <4>1. g \in [C!Ages -> C!Fetched]
        BY <2>3
      <4>. HIDE DEF g
      <4>2. /\ [p EXCEPT !.step = "upsert", !.got = g] \in C!ThreadType
            /\ [p EXCEPT !.step = "upsert", !.got = g].step # "fetch"
        BY <2>2, <4>1
      <4>. QED  BY <3>3, <4>2 DEF g
    <3>. QED  BY <2>1, <3>1, <3>2, <3>3
  <2>5. C!ThreadsTyped'
    BY <1>2, <2>1, <2>4, ThreadStep DEF C!Succeeds, C!world
  <2>6. C!BreakerTyped'
    <3>1. breaker' = [breaker EXCEPT !.state = IF breaker.state = "half" THEN "closed" ELSE breaker.state,
                                     !.fails = 0]
      BY <1>2 DEF C!Succeeds, C!OnSuccess
    <3>2. 0 \in 0 .. Threshold /\ 0 < Threshold
      BY <1>0
    <3>3. breaker' \in C!BreakerType /\ breaker'.fails = 0
      BY <1>0, <3>1, <3>2 DEF C!BreakerType
    <3>. QED  BY <3>2, <3>3 DEF C!BreakerTyped
  <2>7. happened' \subseteq allowed
    BY <1>2 DEF C!Succeeds, C!Happens, C!Typed, C!RestTyped
  <2>. QED  BY <1>2, <2>5, <2>6, <2>7 DEF C!Succeeds, C!table, C!world, C!Typed, C!RestTyped,
                                          C!TableTyped, C!FilesThere, C!DaysTyped
<1>3. CASE C!Fails(r)
  <2>1. C!Alone(r) /\ thread'[r] = C!Failed(p)
    BY <1>3 DEF C!Fails, C!Alone, C!Typed, C!ThreadsTyped
  <2>2. C!ThreadsTyped'
    BY <1>0, <1>3, <2>1, ThreadStep DEF C!Fails, C!world
  <2>3. C!BreakerTyped'
    <3>1. breaker.fails + 1 \in Nat /\ breaker.fails \in 0 .. Threshold
      BY <1>0 DEF C!BreakerType
    <3>2. breaker' = [state  |-> IF breaker.state = "half" \/ breaker.fails + 1 >= Threshold
                                 THEN "open" ELSE breaker.state,
                      fails  |-> IF breaker.fails + 1 <= Threshold THEN breaker.fails + 1 ELSE Threshold,
                      cooled |-> FALSE]
      BY <1>0, <1>3, <3>1, SmallerOne DEF C!Fails, C!OnFailure
    <3>3. breaker.state \in {"closed", "open", "half"}
      BY <1>0 DEF C!BreakerType
    <3>. QED  BY <1>0, <3>1, <3>2, <3>3 DEF C!BreakerTyped, C!BreakerType
  <2>. QED  BY <1>3, <2>2, <2>3 DEF C!Fails, C!table, C!world, C!Typed, C!RestTyped, C!TableTyped,
                                    C!FilesThere, C!DaysTyped
<1>4. CASE C!Upsert(r)
  <2>1. /\ C!Alone(r)
        /\ \/ thread'[r] = C!Failed(p)
           \/ \E stp \in {"validate", "read"} :
                  thread'[r] = [p EXCEPT !.step = stp, !.got = C!Idle.got, !.added = TRUE]
    BY <1>4 DEF C!Upsert, C!Alone, C!Typed, C!ThreadsTyped
  <2>2. C!Idle.got \in [C!Ages -> C!Fetched]
    BY IdleTyped DEF C!ThreadType
  <2>3. ASSUME NEW stp \in {"validate", "read"}
        PROVE  /\ [p EXCEPT !.step = stp, !.got = C!Idle.got, !.added = TRUE] \in C!ThreadType
               /\ [p EXCEPT !.step = stp, !.got = C!Idle.got, !.added = TRUE].step # "fetch"
    BY <1>0, <2>2 DEF C!ThreadType
  <2>4. thread'[r] \in C!ThreadType /\ thread'[r].step # "fetch"
    BY <1>0, <2>1, <2>3
  <2>5. C!ThreadsTyped'
    BY <1>4, <2>1, <2>4, ThreadStep DEF C!Upsert, C!world
  <2>6. bars' = [a \in C!Ages |-> IF a \in C!Written(p) THEN p.got[a] ELSE bars[a]]
    BY <1>4 DEF C!Upsert
  <2>7. \A a \in C!Ages : p.got[a] \in C!Fetched
    BY <1>0 DEF C!ThreadType
  <2>8. bars' \in [C!Ages -> C!Kinds] /\ \A a \in C!Ages : bars'[a] = "nse" => bars[a] = "nse"
    BY <2>6, <2>7 DEF C!Typed, C!TableTyped, C!Kinds, C!Fetched
  <2>. QED  BY <1>4, <2>5, <2>8 DEF C!Upsert, C!world, C!Typed, C!RestTyped, C!TableTyped,
                                    C!FilesThere, C!DaysTyped, C!BreakerTyped
<1>. QED  BY <1>1, <1>2, <1>3, <1>4

\* What happens around the threads.
LEMMA WorldTyped ==
    ASSUME C!Typed, C!CacheAssumption, UNCHANGED allowed,
           C!World \/ C!YahooDown \/ C!Crash
    PROVE  C!Typed'
<1>0. /\ C!RestTyped /\ C!TableTyped /\ C!FilesThere /\ C!DaysTyped /\ C!BreakerTyped /\ C!ThreadsTyped
      /\ Window \in Nat
  BY DEF C!Typed, C!CacheAssumption
<1>1. CASE C!NextDay
  <2>1. bars' = [a \in C!Ages |-> IF a = 0 THEN "none" ELSE bars[a - 1]]
    BY <1>1 DEF C!NextDay
  <2>2. \A a \in C!Ages : a # 0 => a - 1 \in C!Ages
    BY <1>0 DEF C!Ages
  <2>3. bars' \in [C!Ages -> C!Kinds] /\ \A a \in C!Ages : bars'[a] = "nse" => bars[a - 1] = "nse" /\ a - 1 \in C!Ages
    BY <1>0, <2>1, <2>2 DEF C!TableTyped, C!Kinds
  <2>4. published' = C!Older(published) /\ trading' \in {C!Older(trading) \cup {0}, C!Older(trading)}
    BY <1>1 DEF C!NextDay
  <2>5. published' \subseteq trading' /\ trading' \subseteq C!Ages
    BY <1>0, <2>4 DEF C!Older, C!DaysTyped, C!Ages
  <2>6. C!FilesThere'
    BY <1>0, <1>1, <2>3, <2>4 DEF C!FilesThere, C!Older, C!NextDay
  <2>7. C!ThreadsTyped' /\ C!BreakerTyped'
    BY <1>0, <1>1 DEF C!ThreadsTyped, C!ThreadTyped, C!BreakerTyped, C!NextDay
  <2>8. C!RestTyped'
    BY <1>0, <1>1 DEF C!RestTyped, C!NextDay, C!Happens
  <2>. QED  BY <1>0, <1>1, <2>3, <2>5, <2>6, <2>7, <2>8 DEF C!NextDay, C!Typed, C!TableTyped, C!DaysTyped
<1>2. CASE C!Clock
  BY <1>0, <1>2 DEF C!Clock, C!Happens, C!table, C!Typed, C!RestTyped, C!TableTyped, C!FilesThere,
     C!DaysTyped, C!BreakerTyped, C!ThreadsTyped, C!ThreadTyped
<1>3. ASSUME NEW a \in C!Ages, C!Publish(a) PROVE C!Typed'
  BY <1>0, <1>3 DEF C!Publish, C!table, C!Typed, C!RestTyped, C!TableTyped, C!FilesThere,
     C!DaysTyped, C!BreakerTyped, C!ThreadsTyped, C!ThreadTyped
<1>4. CASE C!YahooUp \/ C!YahooDown
  BY <1>0, <1>4 DEF C!YahooUp, C!YahooDown, C!Happens, C!table, C!world, C!Typed, C!RestTyped,
     C!TableTyped, C!FilesThere, C!DaysTyped, C!BreakerTyped, C!ThreadsTyped, C!ThreadTyped
<1>5. CASE C!CoolsDown
  <2>1. C!BreakerTyped'
    BY <1>0, <1>5 DEF C!CoolsDown, C!BreakerTyped, C!BreakerType
  <2>. QED  BY <1>0, <1>5, <2>1 DEF C!CoolsDown, C!table, C!world, C!Typed, C!RestTyped,
            C!TableTyped, C!FilesThere, C!DaysTyped, C!ThreadsTyped, C!ThreadTyped
<1>6. CASE C!Crash
  <2>1. C!ThreadsTyped'
    BY <1>6, IdleTyped DEF C!Crash, C!ThreadsTyped, C!ThreadTyped
  <2>2. C!BreakerTyped'
    BY <1>6 DEF C!Crash, C!Closed, C!BreakerTyped, C!BreakerType, C!CacheAssumption
  <2>3. C!RestTyped'
    BY <1>0, <1>6 DEF C!Crash, C!RestTyped, C!Happens, C!world
  <2>. QED  BY <1>0, <1>6, <2>1, <2>2, <2>3 DEF C!Crash, C!table, C!world, C!Typed,
            C!TableTyped, C!FilesThere, C!DaysTyped
<1>. QED  BY <1>1, <1>2, <1>3, <1>4, <1>5, <1>6 DEF C!World

\* The types are inductive.
LEMMA CandleTypes ==
    ASSUME C!CacheAssumption
    PROVE  /\ C!Init => C!Typed
           /\ C!Typed /\ [C!Next]_C!vars => C!Typed'
<1>1. ASSUME C!Init PROVE C!Typed
  <2>1. C!ThreadsTyped
    BY <1>1, IdleTyped DEF C!Init, C!ThreadsTyped, C!ThreadTyped
  <2>2. C!BreakerTyped
    BY <1>1 DEF C!Init, C!Closed, C!BreakerTyped, C!BreakerType, C!CacheAssumption
  <2>3. C!TableTyped /\ C!FilesThere
    BY <1>1 DEF C!Init, C!TableTyped, C!FilesThere, C!Kinds, C!States
  <2>. QED  BY <1>1, <2>1, <2>2, <2>3 DEF C!Init, C!Typed, C!RestTyped, C!DaysTyped
<1>2. ASSUME C!Typed, [C!Next]_C!vars PROVE C!Typed'
  <2>1. CASE UNCHANGED C!vars
    BY <1>2, <2>1 DEF C!vars, C!table, C!world, C!Typed, C!RestTyped, C!TableTyped, C!FilesThere,
       C!DaysTyped, C!BreakerTyped, C!ThreadsTyped, C!ThreadTyped
  <2>2. CASE C!Next
    <3>1. UNCHANGED allowed
      BY <2>2 DEF C!Next, C!Keep
    <3>2. ASSUME NEW r \in Readers, C!Step(r) PROVE C!Typed'
      BY <1>2, <3>1, <3>2, ReaderTyped, FetchTyped, YahooTyped DEF C!Step
    <3>. QED  BY <1>2, <2>2, <3>1, <3>2, WorldTyped, ReaderTyped DEF C!Next, C!Keep
  <2>. QED  BY <1>2, <2>1, <2>2
<1>. QED  BY <1>1, <1>2

\* Whatever threads, sources and outages there are: the table and the threads keep their
\* types, a candle of the exchange comes from a file that is there, and a closed breaker has
\* counted fewer failures than open it, although calls that began before it opened end in
\* any state of it.
THEOREM CandleTypeCorrect == ASSUME C!CacheAssumption PROVE C!Spec => []C!TypeOK
<1>1. C!Typed => C!TypeOK
  <2>. SUFFICES ASSUME C!Typed PROVE C!TypeOK
    OBVIOUS
  <2>1. \A r \in Readers :
          /\ thread[r].step \in {"none", "decide", "fetch", "validate", "record", "refresh", "read",
                                 "call", "answer", "upsert"}
          /\ thread[r].todo \cup thread[r].due \subseteq C!Ages /\ thread[r].back \in {Short, Window}
          /\ thread[r].verdict \in C!States
    BY DEF C!Typed, C!ThreadsTyped, C!ThreadType
  <2>. QED  BY <2>1 DEF C!Typed, C!RestTyped, C!TableTyped, C!FilesThere, C!DaysTyped, C!BreakerTyped,
                        C!BreakerType, C!TypeOK
<1>. QED  BY <1>1, CandleTypes, PTL DEF C!Spec

-----------------------------------------------------------------------------
(* No candle of an unfinished day outlives it *)

\* Without a gap, today's candle is there: today is always among the newest days.
LEMMA TodayIsThere ==
    ASSUME C!Typed, C!CacheAssumption, source = "yahoo", C!Needed(Window) = {}, 0 \in trading
    PROVE  bars[0] # "none"
<1>0. Window \in Nat /\ Tail \in Nat \ {0} /\ trading \subseteq C!Ages
  BY DEF C!Typed, C!DaysTyped, C!CacheAssumption
<1>1. C!Missing(Window) = {}
  BY DEF C!Needed
<1>2. C!Rows(Window) /\ C!Newest(C!Expected(Window)) \ C!Cached(Window) = {}
  BY <1>1 DEF C!Missing
<1>3. C!Max(C!Cached(Window)) \in C!Ages
  BY <1>0, <1>2, OldestDay DEF C!Rows, C!Cached, C!Ages
<1>4. 0 \in C!Expected(Window) /\ C!Expected(Window) \subseteq C!Ages
  <2>. DEFINE m == C!Max(C!Cached(Window))
  <2>1. C!Expected(Window) = {a \in trading : a <= m}
    BY <1>2 DEF C!Expected
  <2>2. 0 <= m
    BY <1>0, <1>3 DEF C!Ages
  <2>. HIDE DEF m
  <2>. QED  BY <1>0, <2>1, <2>2
<1>5. {b \in C!Expected(Window) : b < 0} = {}
  BY <1>4 DEF C!Ages
<1>6. C!Cardinality({}) = 0
  <2>1. C!Cardinality({}) = Cardinality({})
    BY DEF C!Cardinality, Cardinality
  <2>. QED  BY <2>1, FS_EmptySet
<1>7. 0 \in C!Newest(C!Expected(Window))
  <2>1. C!Cardinality({b \in C!Expected(Window) : b < 0}) < Tail
    BY <1>0, <1>5, <1>6
  <2>. QED  BY <1>4, <2>1 DEF C!Newest
<1>. QED  BY <1>2, <1>7 DEF C!Cached

\* A step of one thread that leaves the table and the days alone.
LEMMA CarefulStep ==
    ASSUME C!Typed, C!Fresh, NEW r \in Readers, C!Alone(r), UNCHANGED <<bars, trading>>,
           C!Careful(thread'[r])
    PROVE  C!Fresh'
<1>1. \A q \in Readers : C!Careful(thread'[q])
  BY DEF C!Fresh, C!Alone, C!Typed, C!ThreadsTyped
<1>2. \A q \in Readers : C!Careful(thread[q])'
  BY <1>1 DEF C!Careful, C!Refreshes
<1>. QED  BY <1>2 DEF C!Fresh

\* Who is idle or whose call failed writes nothing.
LEMMA CarefulFailed ==
    ASSUME NEW p \in C!ThreadType, p.back = Window, C!CacheAssumption
    PROVE  C!Careful(C!Idle) /\ C!Careful(C!Failed(p))
<1>1. C!Careful(C!Idle)
  BY DEF C!Careful, C!Idle, C!Refreshes
<1>2. CASE p.goal = "fill"
  BY <1>1, <1>2 DEF C!Careful, C!Refreshes, C!Failed, C!ThreadType
<1>3. CASE p.goal = "refresh"
  BY <1>1, <1>3 DEF C!Careful, C!Refreshes, C!Failed, C!ThreadType
<1>4. CASE p.goal = "raw"
  BY <1>1, <1>4 DEF C!Failed
<1>. QED  BY <1>2, <1>3, <1>4 DEF C!ThreadType

\* The steps of a reader that write no candle.
LEMMA ReaderFresh ==
    ASSUME C!Typed, C!CacheAssumption, C!LiveScene, C!Fresh, NEW r \in Readers,
           \/ \E ro, live \in BOOLEAN, w \in {Short, Window} : C!Begin(r, ro, live, w)
           \/ C!Decide(r) \/ C!Validate(r) \/ C!Record(r) \/ C!Read(r) \/ C!Refresh(r)
    PROVE  C!Fresh'
<1>. DEFINE p == thread[r]
<1>0. p \in C!ThreadType /\ C!Careful(p) /\ source = "yahoo" /\ C!Careful(C!Idle) /\ p.back = Window
  BY CarefulFailed DEF C!Typed, C!ThreadsTyped, C!LiveScene, C!Fresh, C!Careful
<1>1. ASSUME NEW ro \in BOOLEAN, NEW live \in BOOLEAN, NEW w \in {Short, Window}, C!Begin(r, ro, live, w)
      PROVE  C!Fresh'
  <2>1. w = Window
    BY <1>1 DEF C!Begin, C!LiveScene, C!Unexposed
  <2>2. thread'[r] = [C!Idle EXCEPT !.step = "decide", !.ro = ro, !.live = live, !.back = w] /\ C!Alone(r)
    BY <1>1 DEF C!Begin, C!Alone, C!Typed, C!ThreadsTyped
  <2>3. C!Careful(thread'[r])
    BY <2>1, <2>2 DEF C!Careful, C!Refreshes, C!Idle
  <2>. QED  BY <1>1, <2>2, <2>3, CarefulStep DEF C!Begin, C!table, C!world
<1>2. CASE C!Decide(r)
  <2>. DEFINE due == {a \in published : a \in C!Newest({b \in trading : b <= p.back}) /\ C!IngestAllowed(a)}
              todo == C!ToFetch(p.back)
  <2>1. PICK stp \in {"read", "call", "refresh"} :
            /\ thread'[r] = [thread[r] EXCEPT !.step = stp, !.todo = todo, !.due = due]
            /\ stp = "refresh" => C!Needed(p.back) = {}
    BY <1>0, <1>2 DEF C!Decide, C!Typed, C!ThreadsTyped
  <2>2. C!Alone(r) /\ UNCHANGED <<bars, trading>>
    BY <1>2 DEF C!Decide, C!Alone, C!Typed, C!ThreadsTyped, C!world
  <2>3. p.step = "decide" /\ p.goal = "fill"
    BY <1>0, <1>2 DEF C!Decide, C!Careful
  <2>. HIDE DEF due, todo
  <2>4. /\ thread'[r].step = stp /\ thread'[r].goal = "fill" /\ thread'[r].back = Window
    BY <1>0, <2>1, <2>3 DEF C!ThreadType
  <2>5. stp = "refresh" => (0 \in trading => bars[0] # "none")
    BY <1>0, <2>1, TodayIsThere
  <2>6. C!Careful(thread'[r])
    BY <2>4, <2>5 DEF C!Careful, C!Refreshes
  <2>. QED  BY <2>2, <2>6, CarefulStep
<1>3. CASE C!Validate(r)
  <2>1. thread'[r] = [p EXCEPT !.step = "record", !.verdict = C!Verdict(p.back)] /\ C!Alone(r)
    BY <1>3 DEF C!Validate, C!Alone, C!Typed, C!ThreadsTyped
  <2>2. thread'[r].step = "record" /\ thread'[r].back = Window
    BY <1>0, <2>1 DEF C!ThreadType
  <2>. QED  BY <1>3, <2>1, <2>2, CarefulStep DEF C!Validate, C!table, C!world, C!Careful, C!Refreshes
<1>4. CASE C!Record(r)
  <2>1. /\ thread'[r] = [p EXCEPT !.step = "read", !.added = TRUE, !.verdict = "unknown"]
        /\ C!Alone(r)
    BY <1>0, <1>4 DEF C!Record, C!Alone, C!Typed, C!ThreadsTyped
  <2>2. thread'[r].step = "read" /\ thread'[r].back = Window
    BY <1>0, <2>1 DEF C!ThreadType
  <2>. QED  BY <1>4, <2>1, <2>2, CarefulStep DEF C!Record, C!table, C!world, C!Careful, C!Refreshes
<1>5. CASE C!Read(r)
  <2>1. /\ thread'[r] \in {C!Idle, [C!Idle EXCEPT !.step = "call", !.goal = "raw"]}
        /\ C!Alone(r)
    BY <1>5 DEF C!Read, C!Alone, C!Typed, C!ThreadsTyped
  <2>2. C!Careful([C!Idle EXCEPT !.step = "call", !.goal = "raw"])
    BY DEF C!Careful, C!Refreshes, C!Idle
  <2>. QED  BY <1>0, <1>5, <2>1, <2>2, CarefulStep DEF C!Read, C!table, C!world
<1>6. CASE C!Refresh(r)
  <2>1. thread'[r] = [p EXCEPT !.step = "call", !.goal = "refresh"] /\ C!Alone(r) /\ p.step = "refresh"
    BY <1>0, <1>6 DEF C!Refresh, C!Alone, C!Typed, C!ThreadsTyped
  <2>2. thread'[r].step = "call" /\ thread'[r].back = Window
    BY <1>0, <2>1 DEF C!ThreadType
  <2>3. 0 \in trading => bars[0] # "none"
    BY <1>0, <2>1 DEF C!Careful, C!Refreshes
  <2>4. UNCHANGED <<bars, trading>>
    BY <1>0, <1>6 DEF C!Refresh, C!world
  <2>. QED  BY <2>1, <2>2, <2>3, <2>4, CarefulStep DEF C!Careful, C!Refreshes
<1>. QED  BY <1>1, <1>2, <1>3, <1>4, <1>5, <1>6

\* A call of Yahoo and its answer.
LEMMA AnswerFresh ==
    ASSUME C!Typed, C!CacheAssumption, C!LiveScene, C!Fresh, NEW r \in Readers,
           C!Call(r) \/ C!Succeeds(r) \/ C!Fails(r)
    PROVE  C!Fresh'
<1>. DEFINE p == thread[r]
<1>0. /\ p \in C!ThreadType /\ C!Careful(p) /\ p.back = Window
      /\ C!Careful(C!Idle) /\ C!Careful(C!Failed(p))
  BY CarefulFailed DEF C!Typed, C!ThreadsTyped, C!Fresh, C!Careful
<1>1. CASE C!Call(r)
  <2>1. C!Alone(r) /\ thread'[r] \in {C!Failed(p), [p EXCEPT !.step = "answer"]} /\ p.step = "call"
    BY <1>1 DEF C!Call, C!Alone, C!Typed, C!ThreadsTyped
  <2>2. C!Careful([p EXCEPT !.step = "answer"])
    BY <1>0, <2>1 DEF C!Careful, C!Refreshes, C!ThreadType
  <2>. QED  BY <1>0, <1>1, <2>1, <2>2, CarefulStep DEF C!Call, C!table, C!world
<1>2. CASE C!Succeeds(r)
  <2>1. /\ C!Alone(r) /\ p.step = "answer"
        /\ \/ thread'[r] \in {C!Idle, C!Failed(p)}
           \/ p.goal # "raw" /\ thread'[r] = [p EXCEPT !.step = "upsert", !.got = C!Candles(p)]
    <3>1. ~C!Happens("hole")
      BY DEF C!Happens, C!LiveScene, C!Unexposed
    <3>. QED  BY <1>2, <3>1 DEF C!Succeeds, C!Answered, C!Alone, C!Typed, C!ThreadsTyped
  <2>2. ASSUME p.goal # "raw", thread'[r] = [p EXCEPT !.step = "upsert", !.got = C!Candles(p)]
        PROVE  C!Careful(thread'[r])
    <3>. DEFINE g == C!Candles(p)
    <3>1. \A a \in C!Ages : (g[a] # "none" => a \in trading) /\ (a \in trading /\ a > 0 => g[a] = "yahoo")
      BY <1>0 DEF C!Candles, C!Ages
    <3>2. trading \subseteq C!Ages
      BY DEF C!Typed, C!DaysTyped
    <3>. HIDE DEF g
    <3>3. thread'[r] = [p EXCEPT !.step = "upsert", !.got = g]
      BY <2>2 DEF g
    <3>4. /\ thread'[r].step = "upsert" /\ thread'[r].got = g /\ thread'[r].goal = p.goal
          /\ thread'[r].back = Window
      BY <1>0, <3>3 DEF C!ThreadType
    <3>5. C!Refreshes(thread'[r]) => C!Refreshes(p)
      BY <2>1, <3>4 DEF C!Refreshes
    <3>6. C!Refreshes(p) => (0 \in trading => bars[0] # "none")
      BY <1>0 DEF C!Careful
    <3>. QED  BY <2>2, <3>1, <3>2, <3>4, <3>5, <3>6 DEF C!Careful
  <2>. QED  BY <1>0, <1>2, <2>1, <2>2, CarefulStep DEF C!Succeeds, C!table, C!world
<1>3. CASE C!Fails(r)
  <2>1. C!Alone(r) /\ thread'[r] = C!Failed(p)
    BY <1>3 DEF C!Fails, C!Alone, C!Typed, C!ThreadsTyped
  <2>. QED  BY <1>0, <1>3, <2>1, CarefulStep DEF C!Fails, C!table, C!world
<1>. QED  BY <1>1, <1>2, <1>3

\* A fill writes the past days' final candles; a refresh finds no live one among them, for
\* today's is in the table already.
LEMMA UpsertFresh ==
    ASSUME C!Typed, C!CacheAssumption, C!LiveScene, C!Fresh, NEW r \in Readers, C!Upsert(r)
    PROVE  C!Fresh'
<1>. DEFINE p == thread[r]
<1>0. /\ p \in C!ThreadType /\ C!Careful(p) /\ p.back = Window /\ C!Careful(C!Failed(p))
      /\ p.step = "upsert" /\ trading \subseteq C!Ages /\ UNCHANGED trading /\ 0 \in C!Ages
      /\ \A a \in C!Ages : a \in Nat
  BY CarefulFailed DEF C!Typed, C!ThreadsTyped, C!DaysTyped, C!Fresh, C!Careful, C!Upsert, C!world,
     C!Ages, C!CacheAssumption
<1>1. \A a \in C!Ages : bars'[a] = IF a \in C!Written(p) THEN p.got[a] ELSE bars[a]
  BY DEF C!Upsert
<1>2. \A a \in C!Ages : bars'[a] # "none" => a \in trading
  BY <1>0, <1>1 DEF C!Written, C!Careful, C!Fresh
<1>3. \A a \in C!Ages : bars[a] # "none" => bars'[a] # "none"
  BY <1>1 DEF C!Written
<1>4. \A a, b \in C!Ages : a < b /\ bars'[a] # "none" => bars'[b] # "live"
  <2>1. CASE p.goal = "fill"
    <3>1. \A b \in trading : b > 0 => p.got[b] = "yahoo" /\ b \in C!Written(p)
      BY <1>0, <2>1 DEF C!Careful, C!Written
    <3>2. \A b \in C!Ages : b > 0 => bars'[b] \in {"none", "yahoo"}
      BY <1>0, <1>1, <1>2, <3>1
    <3>. QED  BY <1>0, <3>2
  <2>2. CASE p.goal = "refresh"
    <3>1. \A a \in C!Ages : a > 0 => bars'[a] = bars[a]
      BY <1>0, <1>1, <2>2 DEF C!Written
    <3>2. 0 \in trading => bars[0] # "none"
      BY <1>0, <2>2 DEF C!Careful, C!Refreshes
    <3>3. \A a \in C!Ages : bars'[a] # "none" => bars[a] # "none"
      BY <1>0, <1>2, <3>1, <3>2
    <3>. QED  BY <1>0, <3>1, <3>3 DEF C!Fresh
  <2>. QED  BY <1>0, <2>1, <2>2 DEF C!Careful, C!ThreadType
<1>5. C!Alone(r) /\ C!Careful(thread'[r])
  <2>1. C!Alone(r) /\ \/ thread'[r] = C!Failed(p)
                      \/ thread'[r] = [p EXCEPT !.step = IF p.goal = "fill" THEN "validate" ELSE "read",
                                                !.got = C!Idle.got, !.added = TRUE]
    BY DEF C!Upsert, C!Alone, C!Typed, C!ThreadsTyped
  <2>2. ASSUME NEW stp \in {"validate", "read"}, NEW g, thread'[r] = [p EXCEPT !.step = stp, !.got = g, !.added = TRUE]
        PROVE  C!Careful(thread'[r])
    <3>1. thread'[r].step = stp /\ thread'[r].back = Window
      BY <1>0, <2>2 DEF C!ThreadType
    <3>. QED  BY <3>1 DEF C!Careful, C!Refreshes
  <2>. QED  BY <1>0, <2>1, <2>2
<1>6. \A q \in Readers : C!Careful(thread'[q])
  BY <1>5 DEF C!Fresh, C!Alone, C!Typed, C!ThreadsTyped
<1>7. \A q \in Readers : C!Careful(thread[q])'
  BY <1>0, <1>3, <1>6 DEF C!Careful, C!Refreshes
<1>8. \A a \in C!Ages : bars'[a] # "none" => a \in trading'
  BY <1>0, <1>2
<1>. QED  BY <1>4, <1>7, <1>8 DEF C!Fresh

\* A day passes while nobody reads, and the threads are gone after a crash.
LEMMA WorldFresh ==
    ASSUME C!Typed, C!CacheAssumption, C!LiveScene, C!Fresh, C!World \/ C!YahooDown \/ C!Crash
    PROVE  C!Fresh'
<1>1. CASE C!NextDay
  <2>1. bars' = [a \in C!Ages |-> IF a = 0 THEN "none" ELSE bars[a - 1]]
    BY <1>1 DEF C!NextDay
  <2>2. \A a \in C!Ages : a \in Nat /\ (a # 0 => a - 1 \in C!Ages)
    BY DEF C!Ages, C!CacheAssumption
  <2>3. \A a \in C!Ages : bars'[a] # "none" => a # 0 /\ bars'[a] = bars[a - 1]
    BY <2>1
  <2>4. C!Older(trading) \subseteq trading'
    BY <1>1 DEF C!NextDay
  <2>5. \A a \in C!Ages : bars'[a] # "none" => a \in trading'
    BY <2>2, <2>3, <2>4 DEF C!Fresh, C!Older
  <2>6. \A a, b \in C!Ages : a < b /\ bars'[a] # "none" => bars'[b] # "live"
    BY <2>2, <2>3 DEF C!Fresh
  <2>7. \A r \in Readers : C!Careful(thread[r])'
    BY <1>1 DEF C!NextDay, C!Fresh, C!Careful, C!Refreshes
  <2>. QED  BY <2>5, <2>6, <2>7 DEF C!Fresh
<1>2. ASSUME UNCHANGED <<bars, trading, thread>> PROVE C!Fresh'
  BY <1>2 DEF C!Fresh, C!Careful, C!Refreshes
<1>3. ASSUME NEW a \in C!Ages, C!Publish(a) PROVE C!Fresh'
  BY <1>2, <1>3 DEF C!Publish, C!table
<1>4. CASE C!Clock \/ C!YahooUp \/ C!YahooDown \/ C!CoolsDown
  BY <1>2, <1>4 DEF C!Clock, C!YahooUp, C!YahooDown, C!CoolsDown, C!table, C!world
<1>5. CASE C!Crash
  <2>1. \A r \in Readers : thread'[r] = C!Idle
    BY <1>5 DEF C!Crash
  <2>2. UNCHANGED <<bars, trading>>
    BY <1>5 DEF C!Crash, C!table, C!world
  <2>3. \A r \in Readers : C!Careful(thread[r])'
    BY <2>1, <2>2 DEF C!Careful, C!Refreshes, C!Idle
  <2>. QED  BY <2>2, <2>3 DEF C!Fresh
<1>. QED  BY <1>1, <1>3, <1>4, <1>5 DEF C!World

\* With Yahoo as the source, and complete answers for one look-back: whatever threads, slow
\* answers, outages, crashes and days nobody reads there are, a candle that was taken while
\* the market was open is written again before a later day is in the table.
THEOREM LiveEndsCorrect == ASSUME C!CacheAssumption PROVE C!Spec => []C!LiveEnds
<1>1. C!Init => C!LiveInv
  BY DEF C!Init, C!LiveInv, C!Fresh, C!Careful, C!Refreshes, C!Idle
<1>2. ASSUME C!Typed, C!LiveInv, [C!Next]_C!vars PROVE C!LiveInv'
  <2>. SUFFICES ASSUME C!LiveScene' PROVE C!Fresh'
    BY DEF C!LiveInv
  <2>1. CASE UNCHANGED C!vars
    BY <1>2, <2>1 DEF C!vars, C!table, C!world, C!LiveInv, C!LiveScene, C!Unexposed, C!Fresh,
       C!Careful, C!Refreshes
  <2>2. CASE C!Next
    <3>1. UNCHANGED <<allowed, source>>
      BY <2>2, ZenonT(30) DEF C!Next, C!Keep, C!Step, C!World, C!Begin, C!Decide, C!FetchDay, C!Validate, C!Record,
         C!Refresh, C!Read, C!Call, C!Succeeds, C!Fails, C!Upsert, C!NextDay, C!Clock, C!YahooUp,
         C!YahooDown, C!CoolsDown, C!Publish, C!Crash, C!world
    <3>2. C!LiveScene /\ C!Fresh
      BY <1>2, <3>1 DEF C!LiveInv, C!LiveScene, C!Unexposed
    <3>3. ASSUME NEW r \in Readers, C!Step(r) PROVE C!Fresh'
      <4>1. ~C!FetchDay(r)
        BY <1>2, <3>2 DEF C!FetchDay, C!LiveScene, C!Typed, C!ThreadsTyped, C!ThreadTyped
      <4>. QED  BY <1>2, <3>2, <3>3, <4>1, ReaderFresh, AnswerFresh, UpsertFresh DEF C!Step
    <3>. QED  BY <1>2, <2>2, <3>2, <3>3, WorldFresh, ReaderFresh DEF C!Next, C!Keep
  <2>. QED  BY <1>2, <2>1, <2>2
<1>3. C!Typed /\ C!LiveInv => C!LiveEnds
  BY DEF C!LiveInv, C!LiveScene, C!Fresh, C!LiveEnds
<1>. QED  BY <1>1, <1>2, <1>3, CandleTypes, PTL DEF C!Spec
=============================================================================
