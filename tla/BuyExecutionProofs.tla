------------------------- MODULE BuyExecutionProofs -------------------------
(***************************************************************************)
(* Proofs about BuyExecution for every set of orders, every quantity and   *)
(* every combination of faults: types, the order of the two commits, the   *)
(* refinement of the ledger, what the orders table and the position of a   *)
(* new buy promise, and that the position of an undisturbed process is the *)
(* sum of the executions behind it.                                        *)
(***************************************************************************)
EXTENDS BuyExecution, FiniteSetTheorems, WellFoundedInduction, TLAPS

-----------------------------------------------------------------------------
(* Types of the values that several actions compute *)

\* The smaller and the larger of two share counts are share counts.
LEMMA ExtremesType ==
    ASSUME NEW m \in Nat, NEW n \in Nat
    PROVE  /\ Smaller(m, n) \in Nat /\ Smaller(m, n) <= m /\ Smaller(m, n) <= n
           /\ Larger(m, n) \in Nat
BY DEF Smaller, Larger

\* What the broker's reports show is never negative.
LEMMA BrokerType ==
    ASSUME FieldsOK
    PROVE  /\ Holdings \in Nat /\ Holdings <= held
           /\ NetToday \in Nat /\ BrokerQty \in Nat
<1>1. Holdings \in Nat /\ Holdings <= held
  BY ExtremesType DEF FieldsOK, Holdings
<1>2. NetToday \in Nat
  BY <1>1 DEF FieldsOK, NetToday
<1> QED
  BY <1>1, <1>2, ExtremesType DEF BrokerQty

\* Adding an executed leg keeps the position and both marker tables well typed.
LEMMA ApplyType ==
    ASSUME FieldsOK, NEW b \in Buys, NEW q \in Nat, Apply(b, q)
    PROVE  /\ pos' \in PosType
           /\ mark' \in [Buys -> Nat] /\ saved' \in [Buys -> Nat]
<1>1. CASE UNCHANGED <<pos, mark, saved>>
  BY <1>1 DEF FieldsOK
<1>2. CASE mark' = [mark EXCEPT ![b] = q] /\ UNCHANGED <<pos, saved>>
  BY <1>2 DEF FieldsOK
<1>3. CASE pos' = AddLeg(b, q) /\ saved' = mark /\ mark' = [mark EXCEPT ![b] = q]
  <2>1. pos.qty + q \in Nat
    BY DEF FieldsOK, PosType
  <2>2. (IF IsReentry(b) THEN pos.legs \cup {b} ELSE pos.legs) \in SUBSET Buys
    BY DEF FieldsOK, PosType
  <2>3. AddLeg(b, q) \in PosType
    BY <2>1, <2>2 DEF FieldsOK, PosType, AddLeg
  <2>4. [mark EXCEPT ![b] = q] \in [Buys -> Nat]
    BY DEF FieldsOK
  <2> QED
    BY <1>3, <2>3, <2>4 DEF FieldsOK
<1>4. CASE /\ pos' = [open |-> TRUE, qty |-> q, since |-> row[b].on, legs |-> {}]
           /\ saved' = mark /\ mark' = [mark EXCEPT ![b] = q]
  BY <1>4 DEF FieldsOK, PosType, RowType
<1> QED
  BY <1>1, <1>2, <1>3, <1>4 DEF Apply

\* Reconciling keeps the position and the sales of the day well typed.
LEMMA ReconcileType ==
    ASSUME FieldsOK, Reconcile
    PROVE  /\ pos' \in PosType
           /\ sold' \in SoldType
<1>1. BrokerQty \in Nat
  BY BrokerType
<1>2. CASE UNCHANGED <<pos, sold>>
  BY <1>2 DEF FieldsOK
<1>3. CASE pos' = NoPosition /\ sold' = [sold EXCEPT !.owed = 0]
  BY <1>3 DEF FieldsOK, PosType, SoldType, NoPosition
<1>4. CASE pos' = [pos EXCEPT !.qty = BrokerQty] /\ sold' = [sold EXCEPT !.owed = 0]
  BY <1>1, <1>4 DEF FieldsOK, PosType, SoldType
<1>5. CASE SyncFromClosedBuys
  <2>1. PICK q \in 0 .. BrokerQty : pos' = [pos EXCEPT !.qty = q] /\ UNCHANGED sold
    BY <1>5 DEF SyncFromClosedBuys
  <2>2. q \in Nat
    BY <1>1
  <2> QED
    BY <2>1, <2>2 DEF FieldsOK, PosType
<1> QED
  BY <1>2, <1>3, <1>4, <1>5 DEF Reconcile

-----------------------------------------------------------------------------
(* The type invariant *)

\* A placed order adds an open order and a pending row.
LEMMA PlaceType ==
    ASSUME FieldsOK, NEW b \in Buys, Place(b)
    PROVE  book' \in [Buys -> BookType] /\ row' \in [Buys -> RowType] /\ saved' \in [Buys -> Nat]
<1>1. [st |-> "open", filled |-> 0, on |-> day] \in BookType
  BY DEF FieldsOK, BookType, BookStatus
<1>2. book' \in [Buys -> BookType]
  BY <1>1 DEF FieldsOK, Place
<1>3. [row[b] EXCEPT !.st = "pending"] \in RowType
  BY DEF FieldsOK, RowType, RowStatus
<1>4. row' \in [Buys -> RowType]
  BY <1>3 DEF FieldsOK, Place
<1> QED
  BY <1>2, <1>4 DEF FieldsOK, Place

\* Recording an execution of a natural quantity keeps the rows well typed.
LEMMA ExecutedType ==
    ASSUME FieldsOK, NEW b \in Buys, NEW q \in Nat, Executed(b, q)
    PROVE  row' \in [Buys -> RowType]
<1>1. [st |-> "closed", qty |-> row[b].qty + q, on |-> day] \in RowType
  BY DEF FieldsOK, RowType, RowStatus
<1> QED
  BY <1>1 DEF FieldsOK, Executed

\* Finishing an order only shrinks the cycle's and the process's sets.
LEMMA FinishType ==
    ASSUME FieldsOK, NEW b \in Buys, Finish(b)
    PROVE  mon' \in MonType /\ tracked' \subseteq Buys
BY DEF FieldsOK, Finish, MonType

\* The monitor between two cycles is well typed.
LEMMA IdleType == IdleMonitor \in MonType
BY DEF IdleMonitor, MonType

\* Recording a sale keeps the position and the day's sales well typed.
LEMMA RecordSellType ==
    ASSUME FieldsOK, RecordSell
    PROVE  pos' \in PosType /\ sold' \in SoldType /\ mon' \in MonType /\ saved' \in [Buys -> Nat]
<1>1. sold.today \in Nat /\ sold.owed \in Nat /\ pos.qty \in Nat
  BY DEF FieldsOK, SoldType, PosType
<1>2. CASE mon' = IdleMonitor /\ UNCHANGED <<pos, sold, saved>>
  BY <1>2, IdleType DEF FieldsOK
<1>3. CASE /\ pos' = NoPosition
           /\ sold' = [sold EXCEPT !.owed = 0, !.watch = "handled"]
           /\ saved' = mark
           /\ mon' = [IdleMonitor EXCEPT !.pc = IF sold.watch = "tracked" THEN "cancel" ELSE "idle"]
  <2>1. mon' \in MonType
    BY <1>3, IdleType DEF MonType
  <2>2. pos' \in PosType /\ sold' \in SoldType
    BY <1>3 DEF FieldsOK, SoldType, PosType, NoPosition
  <2> QED
    BY <1>3, <2>1, <2>2 DEF FieldsOK
<1>4. CASE /\ sold.today < pos.qty
           /\ pos' = [pos EXCEPT !.qty = @ - sold.today]
           /\ sold' = [sold EXCEPT !.owed = @ - Smaller(sold.owed, sold.today), !.watch = "handled"]
           /\ saved' = mark /\ mon' = IdleMonitor
  <2>1. pos.qty - sold.today \in Nat /\ sold.owed - Smaller(sold.owed, sold.today) \in Nat
    BY <1>1, <1>4, ExtremesType
  <2>2. pos' \in PosType
    BY <1>4, <2>1 DEF FieldsOK, PosType
  <2>3. sold' \in SoldType
    BY <1>4, <2>1 DEF FieldsOK, SoldType
  <2> QED
    BY <1>4, <2>2, <2>3, IdleType DEF FieldsOK
<1> QED
  BY <1>2, <1>3, <1>4 DEF RecordSell

\* The monitor's actions keep every variable within its type.
LEMMA CycleType ==
    ASSUME FieldsOK, Cycle
    PROVE  FieldsOK'
<1> USE DEF market, durable, memory
<1>1. CASE StartCycle
  <2>1. tracked' \subseteq Buys
    BY <1>1 DEF FieldsOK, StartCycle, Pending
  <2>2. Unsynced \subseteq Buys
    BY DEF Unsynced, ClosedSince
  <2>3. PICK api \in SUBSET {"orders", "holdings"} :
           /\ faults' \in {faults, faults + 1}
           /\ mon' = [IdleMonitor EXCEPT !.pc = "check", !.api = api,
                                         !.todo = tracked' \cup Unsynced]
    BY <1>1 DEF StartCycle
  <2>4. mon' \in MonType
    BY <2>1, <2>2, <2>3, IdleType DEF MonType
  <2> QED
    BY <1>1, <2>1, <2>3, <2>4 DEF FieldsOK, StartCycle
<1>2. CASE ApplyExecution
  <2>1. mon.leg \in Buys /\ mon.qty \in Nat
    BY <1>2 DEF FieldsOK, MonType, ApplyExecution
  <2>2. pos' \in PosType /\ mark' \in [Buys -> Nat] /\ saved' \in [Buys -> Nat]
    BY <1>2, <2>1, ApplyType DEF ApplyExecution
  <2>3. done' \subseteq Buys /\ tracked' \subseteq Buys
    BY <1>2, <2>1 DEF FieldsOK, ApplyExecution, Processed
  <2>4. mon' \in MonType
    BY <1>2 DEF FieldsOK, MonType, ApplyExecution
  <2> QED
    BY <1>2, <2>2, <2>3, <2>4 DEF FieldsOK, ApplyExecution
<1>3. CASE StartBackfill
  <2>1. Unapplied \subseteq Buys
    BY DEF Unapplied, ClosedSince
  <2>2. mon' \in MonType
    BY <1>3, <2>1 DEF FieldsOK, MonType, StartBackfill
  <2> QED
    BY <1>3, <2>2 DEF FieldsOK, StartBackfill
<1>4. CASE RecordSell
  BY <1>4, RecordSellType DEF FieldsOK, RecordSell
<1>5. CASE CancelReentries
  <2>1. book' \in [Buys -> BookType]
    BY <1>5 DEF FieldsOK, CancelReentries, BookType, BookStatus
  <2>2. row' \in [Buys -> RowType]
    BY <1>5 DEF FieldsOK, CancelReentries, RowType, RowStatus
  <2> QED
    BY <1>5, <2>1, <2>2, IdleType DEF FieldsOK, CancelReentries
<1>6. ASSUME NEW b \in Buys, SeeComplete(b) PROVE FieldsOK'
  <2>1. book[b].filled \in Nat
    BY DEF FieldsOK, BookType
  <2>2. row' \in [Buys -> RowType]
    <3>1. CASE AlreadyExecuted(b)
      BY <1>6, <3>1 DEF FieldsOK, SeeComplete
    <3>2. CASE ~AlreadyExecuted(b)
      BY <1>6, <2>1, <3>2, ExecutedType DEF SeeComplete
    <3> QED
      BY <3>1, <3>2
  <2>3. mon' \in MonType /\ tracked' \subseteq Buys
    <3>1. CASE b \in done
      BY <1>6, <3>1, FinishType DEF SeeComplete
    <3>2. CASE b \notin done
      BY <1>6, <2>1, <3>2 DEF FieldsOK, MonType, SeeComplete
    <3> QED
      BY <3>1, <3>2
  <2> QED
    BY <1>6, <2>2, <2>3 DEF FieldsOK, SeeComplete
<1>7. ASSUME NEW b \in Buys, SeeRefused(b) PROVE FieldsOK'
  <2>1. [row[b] EXCEPT !.st = RefusedStatus(b)] \in RowType
    BY DEF FieldsOK, RowType, RowStatus, RefusedStatus
  <2>2. row' \in [Buys -> RowType]
    BY <1>7, <2>1 DEF FieldsOK, SeeRefused
  <2> QED
    BY <1>7, <2>2, FinishType DEF FieldsOK, SeeRefused
<1>8. ASSUME NEW b \in Buys, SeeOpen(b) PROVE FieldsOK'
  BY <1>8 DEF FieldsOK, MonType, SeeOpen
<1>9. ASSUME NEW b \in Buys, SeeInHoldings(b) PROVE FieldsOK'
  <2>1. PICK q \in AssumedQty(b) : Executed(b, q) /\ mon' = [mon EXCEPT !.leg = b, !.qty = q]
    BY <1>9 DEF SeeInHoldings
  <2>2. q \in Nat
    BY BrokerType DEF AssumedQty, FieldsOK, BookType
  <2>3. row' \in [Buys -> RowType]
    BY <2>1, <2>2, ExecutedType
  <2>4. mon' \in MonType
    BY <2>1, <2>2 DEF FieldsOK, MonType
  <2> QED
    BY <1>9, <2>3, <2>4 DEF FieldsOK, SeeInHoldings
<1>10. ASSUME NEW b \in Buys, SeeNowhere(b) PROVE FieldsOK'
  <2>1. row[b].qty \in Nat
    BY DEF FieldsOK, RowType
  <2>2. mon' \in MonType
    BY <1>10, <2>1 DEF FieldsOK, MonType, SeeNowhere
  <2> QED
    BY <1>10, <2>2 DEF FieldsOK, SeeNowhere
<1>11. ASSUME NEW b \in Buys, Backfill(b) PROVE FieldsOK'
  <2>1. pos' \in PosType /\ mark' \in [Buys -> Nat] /\ saved' \in [Buys -> Nat]
    <3>1. CASE BackfillBlocked
      BY <1>11, <3>1 DEF FieldsOK, Backfill
    <3>2. CASE ~BackfillBlocked
      <4>1. row[b].qty \in Nat /\ Apply(b, row[b].qty)
        BY <1>11, <3>2 DEF FieldsOK, RowType, Backfill
      <4> QED
        BY <4>1, ApplyType
    <3> QED
      BY <3>1, <3>2
  <2>2. mon' \in MonType
    BY <1>11 DEF FieldsOK, MonType, Backfill
  <2> QED
    BY <1>11, <2>1, <2>2 DEF FieldsOK, Backfill
<1> QED
  BY <1>1, <1>2, <1>3, <1>4, <1>5, <1>6, <1>7, <1>8, <1>9, <1>10, <1>11 DEF Cycle

\* The broker and the calendar keep every variable within its type.
LEMMA BrokerStepType ==
    ASSUME FieldsOK, Broker
    PROVE  FieldsOK'
<1> USE DEF market, durable, memory
<1>1. CASE OpenMarket
  <2>1. CASE mon.pc = "idle" /\ Reconcile /\ tracked' = tracked \cup Pending /\ saved' = mark
    BY <1>1, <2>1, ReconcileType DEF FieldsOK, OpenMarket, Pending
  <2>2. CASE UNCHANGED <<pos, sold, tracked, saved>>
    BY <1>1, <2>2 DEF FieldsOK, OpenMarket
  <2> QED
    BY <1>1, <2>1, <2>2 DEF OpenMarket
<1>2. CASE CloseMarket
  BY <1>2 DEF FieldsOK, CloseMarket
<1>3. CASE Lapse
  <2>1. book' \in [Buys -> BookType]
    BY <1>3 DEF FieldsOK, Lapse, BookType, BookStatus
  <2> QED
    BY <1>3, <2>1 DEF FieldsOK, Lapse
<1>4. CASE SellFill
  <2> DEFINE n == Smaller(pos.qty, held)
  <2> HIDE DEF n
  <2>0. pos.qty \in Nat /\ held \in Nat
    BY DEF FieldsOK, PosType
  <2>1. n \in Nat /\ held - n \in Nat
    <3>1. n \in Nat /\ n <= held
      BY <2>0, ExtremesType DEF n
    <3> QED
      BY <2>0, <3>1
  <2>2. sold' \in SoldType
    BY <1>4, <2>1 DEF FieldsOK, SoldType, SellFill, n
  <2>3. held' \in Nat
    BY <1>4, <2>1 DEF SellFill, n
  <2> QED
    BY <1>4, <2>2, <2>3 DEF FieldsOK, SellFill
<1>5. CASE NextDay
  <2>1. sold' \in SoldType
    BY <1>5 DEF FieldsOK, SoldType, NextDay
  <2> QED
    BY <1>5, <2>1 DEF FieldsOK, NextDay
<1>6. ASSUME NEW b \in Buys, Fill(b) PROVE FieldsOK'
  <2>1. Qty[b] \in Nat
    BY QtyAssumption
  <2>2. book' \in [Buys -> BookType]
    BY <1>6, <2>1 DEF FieldsOK, Fill, BookType, BookStatus
  <2> QED
    BY <1>6, <2>1, <2>2 DEF FieldsOK, Fill
<1>7. ASSUME NEW b \in Buys, Reject(b) PROVE FieldsOK'
  BY <1>7 DEF FieldsOK, Reject, BookType, BookStatus
<1>8. ASSUME NEW b \in Buys, BrokerCancel(b) PROVE FieldsOK'
  <2>1. PICK n \in 0 .. (Qty[b] - 1) :
           /\ book' = [book EXCEPT ![b].st = "cancelled", ![b].filled = n]
           /\ held' = held + n
    BY <1>8 DEF BrokerCancel
  <2>2. n \in Nat
    BY QtyAssumption
  <2>3. book' \in [Buys -> BookType]
    BY <2>1, <2>2 DEF FieldsOK, BookType, BookStatus
  <2> QED
    BY <1>8, <2>1, <2>2, <2>3 DEF FieldsOK, BrokerCancel
<1> QED
  BY <1>1, <1>2, <1>3, <1>4, <1>5, <1>6, <1>7, <1>8 DEF Broker

\* The daily tasks and the life of the process keep every variable typed.
LEMMA ProcessType ==
    ASSUME FieldsOK, Process
    PROVE  FieldsOK'
<1> USE DEF market, durable, memory
<1>1. CASE MorningReconcile
  BY <1>1, ReconcileType DEF FieldsOK, MorningReconcile
<1>2. CASE EodCleanup
  <2>1. book' \in [Buys -> BookType]
    BY <1>2 DEF FieldsOK, EodCleanup, BookType, BookStatus
  <2>2. row' \in [Buys -> RowType]
    BY <1>2 DEF FieldsOK, EodCleanup, RowType, RowStatus
  <2> QED
    BY <1>2, <2>1, <2>2 DEF FieldsOK, EodCleanup
<1>3. CASE Heartbeat
  BY <1>3 DEF FieldsOK, Heartbeat
<1>4. ASSUME Vanish PROVE mon' \in MonType /\ sold' \in SoldType /\ tracked' \subseteq Buys
                          /\ done' \subseteq Buys /\ faults' \in Nat
  <2>1. mon' \in MonType
    BY <1>4, IdleType DEF Vanish, MonType
  <2>2. sold' \in SoldType
    BY <1>4 DEF FieldsOK, Vanish, SoldType
  <2> QED
    BY <1>4, <2>1, <2>2 DEF FieldsOK, Vanish
<1>5. CASE Crash
  BY <1>4, <1>5 DEF FieldsOK, Crash, Vanish
<1>6. CASE Stop
  BY <1>4, <1>6 DEF FieldsOK, Stop, Vanish
<1>7. CASE Start
  BY <1>7, IdleType DEF FieldsOK, Start, Pending
<1>8. ASSUME NEW b \in Buys, PlaceInitial(b) PROVE FieldsOK'
  BY <1>8, PlaceType DEF FieldsOK, PlaceInitial
<1>9. ASSUME NEW b \in Buys, PlaceReentry(b) PROVE FieldsOK'
  BY <1>9, PlaceType, ReconcileType DEF FieldsOK, PlaceReentry
<1> QED
  BY <1>1, <1>2, <1>3, <1>5, <1>6, <1>7, <1>8, <1>9 DEF Process

\* The tables, the broker's book and the process's memory are well typed in
\* every reachable state.
THEOREM TypeCorrect == Spec => []TypeOK
<1>1. Init => TypeOK
  <2> SUFFICES ASSUME Init PROVE FieldsOK
    BY DEF TypeOK, Init
  <2>1. mon \in MonType
    BY IdleType DEF Init
  <2>2. pos \in PosType
    BY DEF Init, NoPosition, PosType
  <2> QED
    BY <2>1, <2>2 DEF Init, FieldsOK, BookType, BookStatus, RowType, RowStatus, SoldType
<1>2. TypeOK /\ [Next]_vars => TypeOK'
  <2> SUFFICES ASSUME FieldsOK, [Next]_vars PROVE FieldsOK'
    BY DEF TypeOK, Next, vars
  <2>1. CASE UNCHANGED vars
    BY <2>1 DEF FieldsOK, vars, market, durable, memory
  <2> QED
    BY <2>1, CycleType, BrokerStepType, ProcessType DEF Next
<1> QED
  BY <1>1, <1>2, PTL DEF Spec

-----------------------------------------------------------------------------
(* No share is in a position before its execution is in a row *)

\* A step that forgets no execution, moves none to an earlier day and leaves
\* the opening day and the legs of an open position alone, keeps it backed.
LEMMA StillBacked ==
    ASSUME FieldsOK, FieldsOK', ExecutedBeforePosition,
           \A b \in Buys : row'[b].qty >= row[b].qty /\ row'[b].on >= row[b].on,
           pos'.open => pos.open /\ pos'.since = pos.since /\ pos'.legs = pos.legs
    PROVE  ExecutedBeforePosition'
<1> SUFFICES ASSUME pos'.open
             PROVE  /\ \E b \in Buys : row'[b].qty > 0 /\ row'[b].on >= pos'.since
                    /\ \A b \in pos'.legs : row'[b].qty > 0
  BY DEF ExecutedBeforePosition
<1>0. \A b \in Buys : /\ row[b].qty \in Nat /\ row[b].on \in Nat
                      /\ row'[b].qty \in Nat /\ row'[b].on \in Nat
  BY DEF FieldsOK, RowType
<1>1. PICK b \in Buys : row[b].qty > 0 /\ row[b].on >= pos.since
  BY DEF ExecutedBeforePosition
<1>2. pos.since \in Nat /\ pos.legs \subseteq Buys
  BY DEF FieldsOK, PosType
<1>3. row'[b].qty > 0 /\ row'[b].on >= pos'.since
  BY <1>0, <1>1, <1>2
<1>4. ASSUME NEW c \in pos'.legs PROVE row'[c].qty > 0
  <2>1. c \in Buys /\ row[c].qty > 0
    BY <1>2, <1>4 DEF ExecutedBeforePosition
  <2> QED
    BY <1>0, <2>1
<1> QED
  BY <1>3, <1>4

\* Applying a leg whose row has an execution keeps the position backed.
LEMMA ApplyBacked ==
    ASSUME FieldsOK, FieldsOK', ExecutedBeforePosition, UNCHANGED row,
           NEW b \in Buys, NEW q \in Nat, row[b].qty > 0, Apply(b, q)
    PROVE  ExecutedBeforePosition'
<1>1. CASE UNCHANGED pos
  BY <1>1 DEF ExecutedBeforePosition
<1>2. CASE pos.open /\ pos' = AddLeg(b, q)
  <2>1. pos'.open /\ pos'.since = pos.since /\ pos'.legs \subseteq pos.legs \cup {b}
    BY <1>2 DEF FieldsOK, PosType, AddLeg
  <2> QED
    BY <1>2, <2>1 DEF ExecutedBeforePosition
<1>3. CASE pos' = [open |-> TRUE, qty |-> q, since |-> row[b].on, legs |-> {}]
  <2>1. row[b].on \in Nat
    BY DEF FieldsOK, RowType
  <2> QED
    BY <1>3, <2>1 DEF ExecutedBeforePosition
<1> QED
  BY <1>1, <1>2, <1>3 DEF Apply

\* Reconciling only lowers, raises or closes the position that is there.
LEMMA ReconcileBacked ==
    ASSUME FieldsOK, Reconcile
    PROVE  pos'.open => pos.open /\ pos'.since = pos.since /\ pos'.legs = pos.legs
<1>1. CASE UNCHANGED pos
  BY <1>1
<1>2. CASE pos' = NoPosition
  BY <1>2 DEF NoPosition
<1>3. ASSUME NEW q \in Nat, pos' = [pos EXCEPT !.qty = q]
      PROVE  pos'.open = pos.open /\ pos'.since = pos.since /\ pos'.legs = pos.legs
  BY <1>3 DEF FieldsOK, PosType
<1>4. BrokerQty \in Nat
  BY BrokerType
<1>5. CASE SyncFromClosedBuys
  <2>1. PICK q \in 0 .. BrokerQty : pos' = [pos EXCEPT !.qty = q]
    BY <1>5 DEF SyncFromClosedBuys
  <2>2. q \in Nat
    BY <1>4
  <2> QED
    BY <1>3, <2>1, <2>2
<1>6. CASE pos' = [pos EXCEPT !.qty = BrokerQty]
  BY <1>3, <1>4, <1>6
<1> QED
  BY <1>1, <1>2, <1>5, <1>6 DEF Reconcile

\* Recording an execution of at least one share gives the row an execution of
\* today and takes none from the others.
LEMMA ExecutedFirst ==
    ASSUME FieldsOK, RowsFirst, NEW b \in Buys, NEW q \in Nat \ {0},
           Executed(b, q), UNCHANGED <<book, day>>
    PROVE  /\ RowsFirst' /\ row'[b].qty > 0
           /\ \A c \in Buys : row'[c].qty >= row[c].qty /\ row'[c].on >= row[c].on
<1>1. row \in [Buys -> RowType] /\ day \in Nat
  BY DEF FieldsOK
<1>2. row'[b] = [st |-> "closed", qty |-> row[b].qty + q, on |-> day]
  BY <1>1 DEF Executed
<1>3. \A c \in Buys \ {b} : row'[c] = row[c]
  BY <1>1 DEF Executed
<1>4. \A c \in Buys : row[c].qty \in Nat /\ row[c].on \in Nat
  BY <1>1 DEF RowType
<1>5. row'[b].qty > 0 /\ row'[b].qty >= row[b].qty
  BY <1>2, <1>4
<1>6. row'[b].on = day /\ row[b].on <= day
  BY <1>2 DEF RowsFirst
<1>7. \A c \in Buys : row'[c].qty >= row[c].qty /\ row'[c].on >= row[c].on
  BY <1>1, <1>3, <1>4, <1>5, <1>6
<1>8. RowsFirst'
  BY <1>1, <1>3, <1>5, <1>6 DEF RowsFirst
<1> QED
  BY <1>5, <1>7, <1>8

\* A step that keeps executions and days of rows, hands the monitor no leg and
\* puts no order on its backfill list, keeps the monitor's part.
LEMMA MonitorStays ==
    ASSUME FieldsOK, FieldsOK', MonitorFirst,
           \A b \in Buys : row'[b].qty >= row[b].qty,
           mon'.leg \in {NoLeg, mon.leg},
           mon'.pc = "backfill" => mon.pc = "backfill" /\ mon'.todo \subseteq mon.todo
    PROVE  MonitorFirst'
<1>1. \A b \in Buys : row[b].qty \in Nat /\ row'[b].qty \in Nat
  BY DEF FieldsOK, RowType
<1>2. mon.todo \subseteq Buys /\ mon.leg \in Buys \cup {NoLeg}
  BY DEF FieldsOK, MonType
<1>3. mon'.leg # NoLeg => row'[mon'.leg].qty > 0
  BY <1>1, <1>2 DEF MonitorFirst
<1>4. mon'.pc = "backfill" => \A b \in mon'.todo : row'[b].qty > 0
  BY <1>1, <1>2 DEF MonitorFirst
<1> QED
  BY <1>3, <1>4 DEF MonitorFirst

\* The monitor's actions preserve it.
LEMMA CycleFirst ==
    ASSUME FieldsOK, FieldsOK', ExecutionFirst, Cycle
    PROVE  ExecutionFirst'
<1> USE DEF market, durable, memory
<1>0. RowsFirst /\ MonitorFirst /\ ExecutedBeforePosition
  BY DEF ExecutionFirst
<1>r. ASSUME UNCHANGED <<row, book, day>>
      PROVE  RowsFirst' /\ \A b \in Buys : row'[b].qty >= row[b].qty /\ row'[b].on >= row[b].on
  BY <1>0, <1>r DEF RowsFirst, FieldsOK, RowType
<1>1. CASE StartCycle
  <2>1. UNCHANGED <<row, book, day, pos>>
    BY <1>1 DEF StartCycle
  <2>2. mon'.leg = NoLeg /\ mon'.pc = "check"
    BY <1>1 DEF StartCycle, IdleMonitor
  <2> QED
    BY <1>0, <1>r, <2>1, <2>2, StillBacked, MonitorStays DEF ExecutionFirst
<1>2. CASE ApplyExecution
  <2>1. UNCHANGED <<row, book, day>> /\ mon.pc = "check" /\ mon.leg \in Buys /\ mon.qty \in Nat
    BY <1>2 DEF ApplyExecution, FieldsOK, MonType
  <2>2. row[mon.leg].qty > 0 /\ Apply(mon.leg, mon.qty)
    BY <1>0, <1>2 DEF ApplyExecution, MonitorFirst
  <2>3. ExecutedBeforePosition'
    BY <1>0, <2>1, <2>2, ApplyBacked
  <2>4. mon'.leg = NoLeg /\ mon'.pc = "check"
    BY <1>2 DEF ApplyExecution, FieldsOK, MonType
  <2> QED
    BY <1>0, <1>r, <2>1, <2>3, <2>4, MonitorStays DEF ExecutionFirst
<1>3. CASE StartBackfill
  <2>1. UNCHANGED <<row, book, day, pos>>
    BY <1>3 DEF StartBackfill
  <2>2. mon'.leg = NoLeg /\ mon'.todo = Unapplied
    BY <1>3 DEF StartBackfill, FieldsOK, MonType
  <2>3. \A b \in Unapplied : row[b].qty > 0
    BY <1>0 DEF Unapplied, ClosedSince, RowsFirst
  <2>4. MonitorFirst'
    BY <2>1, <2>2, <2>3 DEF MonitorFirst
  <2> QED
    BY <1>0, <1>r, <2>1, <2>4, StillBacked DEF ExecutionFirst
<1>4. CASE RecordSell
  <2>1. UNCHANGED <<row, book, day>>
    BY <1>4 DEF RecordSell
  <2>2. mon'.leg = NoLeg /\ mon'.pc # "backfill"
    BY <1>4 DEF RecordSell, IdleMonitor
  <2>3. pos'.open => pos.open /\ pos'.since = pos.since /\ pos'.legs = pos.legs
    <3>1. CASE pos' = pos
      BY <3>1
    <3>2. CASE pos' = NoPosition
      BY <3>2 DEF NoPosition
    <3>3. CASE pos' = [pos EXCEPT !.qty = @ - sold.today]
      BY <3>3 DEF FieldsOK, PosType
    <3> QED
      BY <1>4, <3>1, <3>2, <3>3 DEF RecordSell
  <2> QED
    BY <1>0, <1>r, <2>1, <2>2, <2>3, StillBacked, MonitorStays DEF ExecutionFirst
<1>5. CASE CancelReentries
  <2>1. UNCHANGED <<day, pos>> /\ mon' = IdleMonitor
    BY <1>5 DEF CancelReentries
  <2>2. \A b \in Buys : /\ row'[b].qty = row[b].qty /\ row'[b].on = row[b].on
                        /\ row'[b].st = "closed" => row[b].st = "closed"
                        /\ book'[b].filled = book[b].filled
                        /\ book'[b].st = "complete" => book[b].st = "complete"
    BY <1>5 DEF CancelReentries, FieldsOK, RowType, BookType
  <2>3. \A b \in Buys : row'[b].qty >= row[b].qty /\ row'[b].on >= row[b].on
    BY <2>2 DEF FieldsOK, RowType
  <2>4. RowsFirst'
    BY <1>0, <2>1, <2>2 DEF RowsFirst
  <2>5. mon'.leg = NoLeg /\ mon'.pc = "idle"
    BY <2>1 DEF IdleMonitor
  <2> QED
    BY <1>0, <2>1, <2>3, <2>4, <2>5, StillBacked, MonitorStays DEF ExecutionFirst
<1>6. ASSUME NEW b \in Buys, SeeComplete(b) PROVE ExecutionFirst'
  <2>1. UNCHANGED <<book, day, pos>> /\ mon.pc = "check" /\ book[b].st = "complete"
    BY <1>6 DEF SeeComplete, Checking
  <2>2. book[b].filled \in Nat \ {0}
    BY <1>0, <2>1 DEF RowsFirst, FieldsOK, BookType
  <2>3. /\ RowsFirst' /\ row'[b].qty > 0
        /\ \A c \in Buys : row'[c].qty >= row[c].qty /\ row'[c].on >= row[c].on
    <3>1. CASE AlreadyExecuted(b)
      BY <1>0, <1>6, <1>r, <2>1, <3>1 DEF SeeComplete, AlreadyExecuted, RowsFirst
    <3>2. CASE ~AlreadyExecuted(b)
      BY <1>0, <1>6, <2>1, <2>2, <3>2, ExecutedFirst DEF SeeComplete
    <3> QED
      BY <3>1, <3>2
  <2>4. mon'.leg \in {b, mon.leg} /\ mon'.pc = "check"
    BY <1>6, <2>1 DEF SeeComplete, Finish, FieldsOK, MonType
  <2>5. mon.leg = NoLeg
    BY <1>6 DEF SeeComplete, Checking
  <2>6. MonitorFirst'
    BY <2>3, <2>4, <2>5 DEF MonitorFirst
  <2> QED
    BY <1>0, <2>1, <2>3, <2>6, StillBacked DEF ExecutionFirst
<1>7. ASSUME NEW b \in Buys, SeeRefused(b) PROVE ExecutionFirst'
  <2>1. UNCHANGED <<book, day, pos>> /\ mon.pc = "check" /\ mon.leg = NoLeg
    BY <1>7 DEF SeeRefused, Checking
  <2>2. \A c \in Buys : /\ row'[c].qty = row[c].qty /\ row'[c].on = row[c].on
                        /\ row'[c].st = "closed" => row[c].st = "closed"
    BY <1>7 DEF SeeRefused, RefusedStatus, FieldsOK, RowType
  <2>3. \A c \in Buys : row'[c].qty >= row[c].qty /\ row'[c].on >= row[c].on
    BY <2>2 DEF FieldsOK, RowType
  <2>4. RowsFirst'
    BY <1>0, <2>1, <2>2 DEF RowsFirst
  <2>5. mon'.leg = NoLeg /\ mon'.pc = "check"
    BY <1>7, <2>1 DEF SeeRefused, Finish, FieldsOK, MonType
  <2> QED
    BY <1>0, <2>1, <2>3, <2>4, <2>5, StillBacked, MonitorStays DEF ExecutionFirst
<1>8. ASSUME NEW b \in Buys, SeeOpen(b) PROVE ExecutionFirst'
  <2>1. UNCHANGED <<row, book, day, pos>> /\ mon.pc = "check"
    BY <1>8 DEF SeeOpen, Checking
  <2>2. mon'.leg = mon.leg /\ mon'.pc = "check"
    BY <1>8, <2>1 DEF SeeOpen, FieldsOK, MonType
  <2> QED
    BY <1>0, <1>r, <2>1, <2>2, StillBacked, MonitorStays DEF ExecutionFirst
<1>9. ASSUME NEW b \in Buys, SeeInHoldings(b) PROVE ExecutionFirst'
  <2>1. UNCHANGED <<book, day, pos>> /\ mon.pc = "check" /\ Holdings > 0
    BY <1>9 DEF SeeInHoldings, Checking, InHoldings
  <2>2. PICK q \in AssumedQty(b) : Executed(b, q) /\ mon' = [mon EXCEPT !.leg = b, !.qty = q]
    BY <1>9 DEF SeeInHoldings
  <2>3. q \in Nat \ {0}
    BY <1>0, <2>1, BrokerType DEF AssumedQty, RowsFirst, FieldsOK, BookType
  <2>4. /\ RowsFirst' /\ row'[b].qty > 0
        /\ \A c \in Buys : row'[c].qty >= row[c].qty /\ row'[c].on >= row[c].on
    BY <1>0, <2>1, <2>2, <2>3, ExecutedFirst
  <2>5. mon'.leg = b /\ mon'.pc = "check"
    BY <2>1, <2>2 DEF FieldsOK, MonType
  <2>6. MonitorFirst'
    BY <2>4, <2>5 DEF MonitorFirst
  <2> QED
    BY <1>0, <2>1, <2>4, <2>6, StillBacked DEF ExecutionFirst
<1>10. ASSUME NEW b \in Buys, SeeNowhere(b) PROVE ExecutionFirst'
  <2>1. UNCHANGED <<row, book, day, pos>> /\ mon.pc = "check" /\ mon.leg = NoLeg
    BY <1>10 DEF SeeNowhere, Checking
  <2>2. mon'.pc = "check" /\ (mon'.leg = NoLeg \/ (mon'.leg = b /\ row[b].st = "closed"))
    <3>1. CASE row[b].st = "closed"
      BY <1>10, <2>1, <3>1 DEF SeeNowhere, FieldsOK, MonType
    <3>2. CASE row[b].st # "closed"
      <4>1. mon' = [mon EXCEPT !.todo = @ \ {b}]
        BY <1>10, <3>2 DEF SeeNowhere
      <4>2. mon \in MonType
        BY DEF FieldsOK
      <4>3. mon'.pc = mon.pc /\ mon'.leg = mon.leg
        BY <4>1, <4>2 DEF MonType
      <4> QED
        BY <2>1, <4>3
    <3> QED
      BY <3>1, <3>2
  <2>3. MonitorFirst'
    BY <1>0, <2>1, <2>2 DEF MonitorFirst, RowsFirst
  <2> QED
    BY <1>0, <1>r, <2>1, <2>3, StillBacked DEF ExecutionFirst
<1>11. ASSUME NEW b \in Buys, Backfill(b) PROVE ExecutionFirst'
  <2>1. /\ UNCHANGED <<row, book, day>> /\ mon.pc = "backfill" /\ b \in mon.todo
        /\ row[b].qty \in Nat
    BY <1>11 DEF Backfill, FieldsOK, RowType
  <2>2. row[b].qty > 0
    BY <1>0, <2>1 DEF MonitorFirst
  <2>3. ExecutedBeforePosition'
    <3>1. CASE BackfillBlocked
      BY <1>0, <1>11, <2>1, <3>1 DEF Backfill, ExecutedBeforePosition
    <3>2. CASE ~BackfillBlocked
      BY <1>0, <1>11, <2>1, <2>2, <3>2, ApplyBacked DEF Backfill
    <3> QED
      BY <3>1, <3>2
  <2>4. mon'.leg = mon.leg /\ mon'.todo \subseteq mon.todo
    BY <1>11 DEF Backfill, FieldsOK, MonType
  <2> QED
    BY <1>0, <1>r, <2>1, <2>3, <2>4, MonitorStays DEF ExecutionFirst
<1> QED
  BY <1>1, <1>2, <1>3, <1>4, <1>5, <1>6, <1>7, <1>8, <1>9, <1>10, <1>11 DEF Cycle

\* The broker and the calendar preserve it.
LEMMA BrokerFirst ==
    ASSUME FieldsOK, FieldsOK', ExecutionFirst, Broker
    PROVE  ExecutionFirst'
<1> USE DEF market, durable, memory
<1>0. RowsFirst /\ MonitorFirst /\ ExecutedBeforePosition
  BY DEF ExecutionFirst
<1>1. UNCHANGED <<row, mon>>
  BY DEF Broker, OpenMarket, CloseMarket, Lapse, SellFill, NextDay, Fill, Reject, BrokerCancel
<1>2. \A b \in Buys : row'[b].qty >= row[b].qty /\ row'[b].on >= row[b].on
  BY <1>1 DEF FieldsOK, RowType
<1>3. MonitorFirst'
  BY <1>0, <1>1 DEF MonitorFirst
<1>4. pos'.open => pos.open /\ pos'.since = pos.since /\ pos'.legs = pos.legs
  <2>1. CASE UNCHANGED pos
    BY <2>1
  <2>2. CASE Reconcile
    BY <2>2, ReconcileBacked
  <2> QED
    BY <2>1, <2>2 DEF Broker, OpenMarket, CloseMarket, Lapse, SellFill, NextDay,
                      Fill, Reject, BrokerCancel
<1>5. ExecutedBeforePosition'
  BY <1>0, <1>2, <1>4, StillBacked
<1>6. day' >= day
  <2>1. day' = day \/ day' = day + 1
    BY DEF Broker, OpenMarket, CloseMarket, Lapse, SellFill, NextDay, Fill, Reject, BrokerCancel
  <2>2. day \in Nat
    BY DEF FieldsOK
  <2> QED
    BY <2>1, <2>2
<1>7. \A b \in Buys : row[b].on <= day'
  BY <1>0, <1>6 DEF RowsFirst, FieldsOK, RowType
<1>8. \A b \in Buys : book'[b].st = "complete" => book'[b].filled > 0
  <2>1. CASE UNCHANGED book
    BY <1>0, <2>1 DEF RowsFirst
  <2>2. ASSUME NEW b \in Buys, Fill(b)
        PROVE  \A c \in Buys : book'[c].st = "complete" => book'[c].filled > 0
    <3>1. Qty[b] > 0
      BY QtyAssumption
    <3> QED
      BY <1>0, <2>2, <3>1 DEF Fill, RowsFirst, FieldsOK, BookType
  <2>3. ASSUME NEW b \in Buys, Reject(b) \/ BrokerCancel(b)
        PROVE  \A c \in Buys : book'[c].st = "complete" => book'[c].filled > 0
    BY <1>0, <2>3 DEF Reject, BrokerCancel, RowsFirst, FieldsOK, BookType
  <2>4. CASE Lapse
    BY <1>0, <2>4 DEF Lapse, RowsFirst, FieldsOK, BookType
  <2> QED
    BY <2>1, <2>2, <2>3, <2>4 DEF Broker, OpenMarket, CloseMarket, SellFill, NextDay
<1>9. RowsFirst'
  BY <1>0, <1>1, <1>7, <1>8 DEF RowsFirst
<1> QED
  BY <1>3, <1>5, <1>9 DEF ExecutionFirst

\* The daily tasks, crashes and restarts preserve it.
LEMMA ProcessFirst ==
    ASSUME FieldsOK, FieldsOK', ExecutionFirst, Process
    PROVE  ExecutionFirst'
<1> USE DEF market, durable, memory
<1>0. RowsFirst /\ MonitorFirst /\ ExecutedBeforePosition
  BY DEF ExecutionFirst
<1>1. /\ \A b \in Buys : /\ row'[b].qty = row[b].qty /\ row'[b].on = row[b].on
                         /\ row'[b].st = "closed" => row[b].st = "closed"
                         /\ book'[b].st = "complete"
                              => book[b].st = "complete" /\ book'[b].filled = book[b].filled
      /\ day' = day
  <2>1. CASE UNCHANGED <<row, book, day>>
    BY <2>1
  <2>2. CASE EodCleanup
    BY <2>2 DEF EodCleanup, FieldsOK, RowType, BookType
  <2>3. ASSUME NEW b \in Buys, Place(b)
        PROVE  \A c \in Buys : /\ row'[c].qty = row[c].qty /\ row'[c].on = row[c].on
                               /\ row'[c].st = "closed" => row[c].st = "closed"
                               /\ book'[c].st = "complete"
                                    => book[c].st = "complete" /\ book'[c].filled = book[c].filled
    BY <2>3 DEF Place, FieldsOK, RowType, BookType
  <2> QED
    BY <2>1, <2>2, <2>3 DEF Process, MorningReconcile, EodCleanup, Heartbeat, Crash, Stop,
                            Vanish, Start, PlaceInitial, PlaceReentry
<1>2. \A b \in Buys : row'[b].qty >= row[b].qty /\ row'[b].on >= row[b].on
  BY <1>1 DEF FieldsOK, RowType
<1>3. RowsFirst'
  BY <1>0, <1>1 DEF RowsFirst
<1>4. pos'.open => pos.open /\ pos'.since = pos.since /\ pos'.legs = pos.legs
  <2>1. CASE UNCHANGED pos
    BY <2>1
  <2>2. CASE Reconcile
    BY <2>2, ReconcileBacked
  <2> QED
    BY <2>1, <2>2 DEF Process, MorningReconcile, EodCleanup, Heartbeat, Crash, Stop,
                      Vanish, Start, PlaceInitial, PlaceReentry
<1>5. mon'.leg \in {NoLeg, mon.leg} /\ (mon'.pc = "backfill" => mon' = mon)
  BY DEF Process, MorningReconcile, EodCleanup, Heartbeat, Crash, Stop, Vanish, Start,
         PlaceInitial, PlaceReentry, IdleMonitor
<1>6. MonitorFirst'
  BY <1>0, <1>2, <1>5, MonitorStays
<1>7. ExecutedBeforePosition'
  BY <1>0, <1>2, <1>4, StillBacked
<1> QED
  BY <1>3, <1>6, <1>7 DEF ExecutionFirst

\* In every reachable state the execution of whatever the monitor has in hand,
\* or the position holds, is recorded.
LEMMA ExecutionIsFirst == Spec => []ExecutionFirst
<1>1. Init => ExecutionFirst
  BY DEF Init, ExecutionFirst, RowsFirst, MonitorFirst, ExecutedBeforePosition,
         NoPosition, IdleMonitor
<1>2. TypeOK /\ TypeOK' /\ ExecutionFirst /\ [Next]_vars => ExecutionFirst'
  <2> SUFFICES ASSUME FieldsOK, FieldsOK', ExecutionFirst, [Next]_vars PROVE ExecutionFirst'
    BY DEF TypeOK
  <2>1. CASE UNCHANGED vars
    BY <2>1 DEF ExecutionFirst, RowsFirst, MonitorFirst, ExecutedBeforePosition,
                vars, market, durable, memory
  <2> QED
    BY <2>1, CycleFirst, BrokerFirst, ProcessFirst DEF Next
<1> QED
  BY <1>1, <1>2, TypeCorrect, PTL DEF Spec

\* Whatever crashes, stops, outages, partial and unseen fills happen, a share
\* is in the position only after the execution that bought it is in an order
\* row of the position's cycle.
THEOREM ExecutionPrecedesPosition == Spec => []ExecutedBeforePosition
<1>1. ExecutionFirst => ExecutedBeforePosition
  BY DEF ExecutionFirst
<1> QED
  BY <1>1, ExecutionIsFirst, PTL

-----------------------------------------------------------------------------
(* The ledger *)

\* The position is closed, opened, added to or left by every step, and it takes
\* only legs that are recorded.
LEMMA ApplyLedger ==
    ASSUME FieldsOK, UNCHANGED row, NEW b \in Buys, NEW q \in Nat, row[b].qty > 0, Apply(b, q)
    PROVE  \/ pos'.open = pos.open /\ pos'.legs = pos.legs
           \/ ~pos.open /\ pos'.open = TRUE /\ pos'.legs = {}
           \/ pos.open /\ pos'.open = pos.open /\ b \notin pos.legs /\ pos'.legs = pos.legs \cup {b}
<1>1. CASE UNCHANGED pos
  BY <1>1
<1>2. CASE pos.open /\ b \notin pos.legs /\ pos' = AddLeg(b, q)
  BY <1>2 DEF AddLeg, FieldsOK, PosType
<1>3. CASE ~pos.open /\ pos' = [open |-> TRUE, qty |-> q, since |-> row[b].on, legs |-> {}]
  BY <1>3
<1> QED
  BY <1>1, <1>2, <1>3 DEF Apply

\* A step that records nothing closes the position or leaves it and its legs.
LEMMA ReconcileLedger ==
    ASSUME FieldsOK, Reconcile
    PROVE  \/ pos'.open = pos.open /\ pos'.legs = pos.legs
           \/ pos.open /\ pos' = NoPosition
<1>1. CASE pos' = NoPosition /\ MayReconcile
  BY <1>1 DEF MayReconcile
<1>2. ASSUME NEW q, pos' = [pos EXCEPT !.qty = q]
      PROVE  pos'.open = pos.open /\ pos'.legs = pos.legs
  BY <1>2 DEF FieldsOK, PosType
<1> QED
  BY <1>1, <1>2 DEF Reconcile, SyncFromClosedBuys

\* The orders that the ledger counts as recorded.
Recorded == {b \in Buys : row[b].qty > 0}

\* One of the ledger's steps, or none.
Same == Recorded' = Recorded /\ pos'.open = pos.open /\ pos'.legs = pos.legs

\* Every step of the monitor is a step of the ledger or none.
LEMMA CycleLedger ==
    ASSUME FieldsOK, ExecutionFirst, Cycle
    PROVE  Ledger!Next \/ Same
<1> USE DEF market, durable, memory
<1>0. RowsFirst /\ MonitorFirst
  BY DEF ExecutionFirst
<1>1. CASE UNCHANGED <<row, pos>>
  BY <1>1 DEF Same, Recorded
<1>2. ASSUME NEW b \in Buys, NEW q \in Nat, row[b].qty > 0, Apply(b, q), UNCHANGED row
      PROVE  Ledger!Next \/ Same
  <2>1. Recorded' = Recorded /\ b \in Recorded
    BY <1>2 DEF Recorded
  <2>2. CASE pos'.open = pos.open /\ pos'.legs = pos.legs
    BY <2>1, <2>2 DEF Same
  <2>3. CASE ~pos.open /\ pos'.open = TRUE /\ pos'.legs = {}
    BY <2>1, <2>3 DEF Ledger!Next, Ledger!Open, Recorded
  <2>4. CASE pos.open /\ pos'.open = pos.open /\ b \notin pos.legs /\ pos'.legs = pos.legs \cup {b}
    <3>1. Ledger!AddLeg(b)
      BY <2>1, <2>4 DEF Ledger!AddLeg, Recorded
    <3> QED
      BY <3>1 DEF Ledger!Next
  <2> QED
    BY <1>2, <2>2, <2>3, <2>4, ApplyLedger
<1>3. ASSUME UNCHANGED pos, NEW b \in Buys, NEW q \in Nat \ {0}, Executed(b, q)
      PROVE  Ledger!Next \/ Same
  <2>1. Recorded' = Recorded \cup {b}
    BY <1>3, SMTT(20) DEF Recorded, Executed, FieldsOK, RowType
  <2>2. CASE b \in Recorded
    BY <1>3, <2>1, <2>2 DEF Same
  <2>3. CASE b \notin Recorded
    <3>1. Ledger!Record(b)
      BY <1>3, <2>1, <2>3 DEF Ledger!Record, Recorded
    <3> QED
      BY <3>1 DEF Ledger!Next
  <2> QED
    BY <2>2, <2>3
<1>4. CASE ApplyExecution
  <2>1. mon.leg \in Buys /\ mon.qty \in Nat /\ row[mon.leg].qty > 0
    BY <1>0, <1>4 DEF ApplyExecution, FieldsOK, MonType, MonitorFirst
  <2> QED
    BY <1>2, <1>4, <2>1 DEF ApplyExecution
<1>5. CASE RecordSell
  <2>1. \/ UNCHANGED pos
        \/ pos.open /\ pos' = NoPosition
        \/ pos.open /\ pos' = [pos EXCEPT !.qty = @ - sold.today]
    BY <1>5 DEF RecordSell, SeesSell
  <2>2. Recorded' = Recorded
    BY <1>5 DEF RecordSell, Recorded
  <2>3. CASE pos.open /\ pos' = NoPosition
    BY <2>2, <2>3 DEF Ledger!Next, Ledger!Close, Recorded, NoPosition
  <2>4. CASE pos' = [pos EXCEPT !.qty = @ - sold.today]
    BY <2>2, <2>4 DEF Same, FieldsOK, PosType
  <2> QED
    BY <2>1, <2>2, <2>3, <2>4 DEF Same
<1>6. CASE CancelReentries
  BY <1>6 DEF CancelReentries, Same, Recorded, FieldsOK, RowType
<1>7. ASSUME NEW b \in Buys, SeeComplete(b) PROVE Ledger!Next \/ Same
  <2>1. book[b].filled \in Nat \ {0}
    BY <1>0, <1>7 DEF SeeComplete, RowsFirst, FieldsOK, BookType
  <2> QED
    BY <1>1, <1>3, <1>7, <2>1 DEF SeeComplete
<1>8. ASSUME NEW b \in Buys, SeeRefused(b) PROVE Ledger!Next \/ Same
  BY <1>8 DEF SeeRefused, Same, Recorded, FieldsOK, RowType
<1>9. ASSUME NEW b \in Buys, SeeInHoldings(b) PROVE Ledger!Next \/ Same
  <2>1. PICK q \in AssumedQty(b) : Executed(b, q)
    BY <1>9 DEF SeeInHoldings
  <2>2. q \in Nat \ {0}
    BY <1>0, <1>9, BrokerType DEF SeeInHoldings, InHoldings, AssumedQty, RowsFirst, FieldsOK, BookType
  <2> QED
    BY <1>3, <1>9, <2>1, <2>2 DEF SeeInHoldings
<1>10. ASSUME NEW b \in Buys, Backfill(b) PROVE Ledger!Next \/ Same
  <2>1. row[b].qty \in Nat /\ row[b].qty > 0
    BY <1>0, <1>10 DEF Backfill, MonitorFirst, FieldsOK, RowType
  <2> QED
    BY <1>1, <1>2, <1>10, <2>1 DEF Backfill
<1> QED
  BY <1>1, <1>4, <1>5, <1>6, <1>7, <1>8, <1>9, <1>10
  DEF Cycle, StartCycle, StartBackfill, SeeOpen, SeeNowhere

\* So is every step of the broker, of the tasks and of the process.
LEMMA OtherLedger ==
    ASSUME FieldsOK, Broker \/ Process
    PROVE  Ledger!Next \/ Same
<1> USE DEF market, durable, memory
<1>1. Recorded' = Recorded
  <2>1. CASE UNCHANGED row
    BY <2>1 DEF Recorded
  <2>2. CASE EodCleanup
    BY <2>2 DEF EodCleanup, Recorded, FieldsOK, RowType
  <2>3. ASSUME NEW b \in Buys, Place(b) PROVE Recorded' = Recorded
    BY <2>3 DEF Place, Recorded, FieldsOK, RowType
  <2> QED
    BY <2>1, <2>2, <2>3
    DEF Broker, OpenMarket, CloseMarket, Lapse, SellFill, NextDay, Fill, Reject, BrokerCancel,
        Process, MorningReconcile, Heartbeat, Crash, Stop, Vanish, Start, PlaceInitial, PlaceReentry
<1>2. UNCHANGED pos \/ Reconcile
  BY DEF Broker, OpenMarket, CloseMarket, Lapse, SellFill, NextDay, Fill, Reject, BrokerCancel,
         Process, EodCleanup, MorningReconcile, Heartbeat, Crash, Stop, Vanish, Start, PlaceInitial, PlaceReentry
<1>3. CASE pos'.open = pos.open /\ pos'.legs = pos.legs
  BY <1>1, <1>3 DEF Same
<1>4. CASE pos.open /\ pos' = NoPosition
  BY <1>1, <1>4 DEF Ledger!Next, Ledger!Close, Recorded, NoPosition
<1> QED
  BY <1>2, <1>3, <1>4, ReconcileLedger

\* Whatever goes wrong, both tables together follow the ledger: no execution is
\* forgotten, and no position opens or takes a leg before it is recorded.
THEOREM LedgerImplemented == Spec => LedgerKept
<1>1. Init => Ledger!Init
  BY DEF Init, Ledger!Init, NoPosition
<1>2. TypeOK /\ ExecutionFirst /\ [Next]_vars => [Ledger!Next]_(Ledger!ledger)
  <2> SUFFICES ASSUME FieldsOK, ExecutionFirst, [Next]_vars PROVE [Ledger!Next]_(Ledger!ledger)
    BY DEF TypeOK
  <2>1. ASSUME Same PROVE UNCHANGED Ledger!ledger
    BY <2>1 DEF Same, Ledger!ledger, Recorded
  <2>2. CASE UNCHANGED vars
    BY <2>1, <2>2 DEF Same, Recorded, vars, durable
  <2> QED
    BY <2>1, <2>2, CycleLedger, OtherLedger DEF Next
<1> QED
  BY <1>1, <1>2, TypeCorrect, ExecutionIsFirst, PTL DEF Spec, LedgerKept, Ledger!Spec

-----------------------------------------------------------------------------
(* The monitor between its steps *)

\* The orders that were placed.
OnBook == {b \in Buys : book[b].st # "none"}

\* An order has a row when the broker has it, and nothing is followed or
\* looked at that was not placed.
OrderKnown(b) ==
    /\ book[b].st = "none" <=> row[b].st = "none"
    /\ row[b].st = "none" => row[b].qty = 0
    /\ book[b].on <= day
    /\ book[b].st \in {"none", "open"} => book[b].filled = 0
TablesAgree == (\A b \in Buys : OrderKnown(b)) /\ tracked \cup mon.todo \subseteq OnBook

\* A leg that is being applied has shares and a closed row, and the monitor
\* works while the market is open.
Working ==
    /\ pos.open => pos.qty > 0
    /\ mon.leg # NoLeg => mon.pc = "check" /\ mon.qty > 0 /\ row[mon.leg].st = "closed"
    /\ mon.pc \in {"check", "backfill", "cancel"} => phase = "open"

\* Every step keeps the tables in agreement.
LEMMA KeepsTables ==
    ASSUME FieldsOK, TablesAgree, Cycle \/ Broker \/ Process
    PROVE  TablesAgree'
<1> USE DEF market, durable, memory
<1>1. ASSUME UNCHANGED <<book, row, day>>, tracked' \cup mon'.todo \subseteq OnBook PROVE TablesAgree'
  BY <1>1 DEF TablesAgree, OrderKnown, OnBook
<1>2. Pending \subseteq OnBook /\ \A d : ClosedSince(d) \subseteq OnBook
  BY DEF TablesAgree, OrderKnown, OnBook, Pending, ClosedSince
<1>3. tracked \subseteq OnBook /\ mon.todo \subseteq OnBook
  BY DEF TablesAgree
<1>4. ASSUME \A b \in Buys : OrderKnown(b)', tracked' \cup mon'.todo \subseteq tracked \cup mon.todo,
             \A b \in Buys : book[b].st # "none" => book'[b].st # "none"
      PROVE  TablesAgree'
  BY <1>3, <1>4 DEF TablesAgree, OnBook
<1>5. CASE StartCycle
  <2>1. tracked' \subseteq OnBook /\ mon'.todo \subseteq OnBook
    BY <1>2, <1>3, <1>5 DEF StartCycle, Unsynced, IdleMonitor
  <2> QED
    BY <1>1, <1>5, <2>1 DEF StartCycle
<1>6. CASE ApplyExecution \/ StartBackfill
  <2>1. tracked' \subseteq tracked
    BY <1>6 DEF ApplyExecution, StartBackfill
  <2>2. CASE ApplyExecution
    <3>1. mon'.todo = mon.todo \ {mon.leg}
      BY <2>2 DEF ApplyExecution, FieldsOK, MonType
    <3> QED
      BY <1>1, <1>3, <2>1, <2>2, <3>1 DEF ApplyExecution
  <2>3. CASE StartBackfill
    <3>1. mon'.todo = Unapplied
      BY <2>3 DEF StartBackfill, FieldsOK, MonType
    <3> QED
      BY <1>1, <1>2, <1>3, <2>1, <2>3, <3>1 DEF StartBackfill, Unapplied
  <2> QED
    BY <1>6, <2>2, <2>3
<1>7. CASE RecordSell
  <2>1. mon'.todo = {}
    BY <1>7 DEF RecordSell, IdleMonitor
  <2> QED
    BY <1>1, <1>3, <1>7, <2>1 DEF RecordSell
<1>8. CASE CancelReentries
  <2>1. mon'.todo = {}
    BY <1>8 DEF CancelReentries, IdleMonitor
  <2>2. \A b \in Buys : OrderKnown(b)' /\ (book[b].st # "none" => book'[b].st # "none")
    BY <1>8 DEF CancelReentries, TablesAgree, OrderKnown, Stale, Pending, FieldsOK, RowType, BookType
  <2> QED
    BY <1>4, <1>8, <2>1, <2>2 DEF CancelReentries
<1>9. ASSUME NEW b \in Buys, Checking(b), UNCHANGED <<book, day>>, mon'.todo \subseteq mon.todo,
             tracked' \subseteq tracked, NEW s \in {"closed", "failed", "cancelled"}, row'[b].st = s,
             \A c \in Buys \ {b} : row'[c] = row[c]
      PROVE  TablesAgree'
  <2>1. book[b].st # "none"
    BY <1>3, <1>9 DEF Checking, OnBook
  <2>2. \A c \in Buys : OrderKnown(c)'
    BY <1>9, <2>1 DEF TablesAgree, OrderKnown
  <2> QED
    BY <1>4, <1>9, <2>2
<1>10. ASSUME NEW b \in Buys, SeeComplete(b) \/ SeeRefused(b) \/ SeeOpen(b) \/ SeeInHoldings(b)
                              \/ SeeNowhere(b) \/ Backfill(b)
       PROVE  /\ UNCHANGED <<book, day>> /\ tracked' \subseteq tracked /\ mon'.todo \subseteq mon.todo
  BY <1>10 DEF SeeComplete, SeeRefused, SeeOpen, SeeInHoldings, SeeNowhere, Backfill, Finish, FieldsOK, MonType
<1>11. ASSUME NEW b \in Buys, SeeOpen(b) \/ SeeNowhere(b) \/ Backfill(b) PROVE TablesAgree'
  BY <1>1, <1>3, <1>10, <1>11 DEF SeeOpen, SeeNowhere, Backfill
<1>12. ASSUME NEW b \in Buys, NEW q, Checking(b), Executed(b, q),
             UNCHANGED <<book, day>>, mon'.todo \subseteq mon.todo, tracked' \subseteq tracked
       PROVE  TablesAgree'
  <2>1. row'[b].st = "closed" /\ \A c \in Buys \ {b} : row'[c] = row[c]
    BY <1>12 DEF Executed, FieldsOK
  <2> QED
    BY <1>9, <1>12, <2>1
<1>13. ASSUME NEW b \in Buys, SeeComplete(b) PROVE TablesAgree'
  <2>1. CASE AlreadyExecuted(b)
    BY <1>1, <1>3, <1>10, <1>13, <2>1 DEF SeeComplete
  <2>2. CASE ~AlreadyExecuted(b)
    BY <1>10, <1>12, <1>13, <2>2 DEF SeeComplete
  <2> QED
    BY <2>1, <2>2
<1>14. ASSUME NEW b \in Buys, SeeInHoldings(b) PROVE TablesAgree'
  BY <1>10, <1>12, <1>14 DEF SeeInHoldings
<1>15. ASSUME NEW b \in Buys, SeeRefused(b) PROVE TablesAgree'
  <2>1. row'[b].st \in {"failed", "cancelled"} /\ \A c \in Buys \ {b} : row'[c] = row[c]
    BY <1>15 DEF SeeRefused, RefusedStatus, FieldsOK, RowType
  <2>2. Checking(b)
    BY <1>15 DEF SeeRefused
  <2> QED
    BY <1>9, <1>10, <1>15, <2>1, <2>2
<1>16. CASE Broker
  <2>1. UNCHANGED mon /\ tracked' \subseteq tracked \cup Pending /\ UNCHANGED row
    BY <1>16 DEF Broker, OpenMarket, CloseMarket, Lapse, SellFill, NextDay, Fill, Reject, BrokerCancel
  <2>2. CASE UNCHANGED <<book, day>>
    BY <1>1, <1>2, <1>3, <2>1, <2>2
  <2>3. CASE NextDay
    <3>1. \A b \in Buys : OrderKnown(b)'
      BY <2>3 DEF NextDay, TablesAgree, OrderKnown, FieldsOK, BookType
    <3> QED
      BY <1>4, <2>1, <2>3, <3>1 DEF NextDay
  <2>4. CASE Lapse
    <3>1. \A b \in Buys : OrderKnown(b)' /\ (book[b].st # "none" => book'[b].st # "none")
      BY <2>4 DEF Lapse, TablesAgree, OrderKnown, FieldsOK, BookType
    <3> QED
      BY <1>4, <2>1, <2>4, <3>1 DEF Lapse
  <2>5. ASSUME NEW b \in Buys, Fill(b) \/ Reject(b) \/ BrokerCancel(b) PROVE TablesAgree'
    <3>1. \A c \in Buys : OrderKnown(c)' /\ (book[c].st # "none" => book'[c].st # "none")
      BY <2>5 DEF Fill, Reject, BrokerCancel, TablesAgree, OrderKnown, FieldsOK, BookType
    <3> QED
      BY <1>4, <2>1, <2>5, <3>1 DEF Fill, Reject, BrokerCancel
  <2> QED
    BY <1>16, <2>2, <2>3, <2>4, <2>5 DEF Broker, OpenMarket, CloseMarket, SellFill
<1>17. CASE Process
  <2>1. mon'.todo \subseteq mon.todo /\ tracked' \subseteq tracked \cup Pending /\ UNCHANGED day
    BY <1>17 DEF Process, MorningReconcile, EodCleanup, Heartbeat, Crash, Stop, Vanish, Start,
                 PlaceInitial, PlaceReentry, IdleMonitor
  <2>2. CASE UNCHANGED <<book, row>>
    BY <1>1, <1>2, <1>3, <2>1, <2>2
  <2>3. CASE EodCleanup
    <3>1. \A b \in Buys : OrderKnown(b)' /\ (book[b].st # "none" => book'[b].st # "none")
      BY <2>3 DEF EodCleanup, Swept, TablesAgree, OrderKnown, FieldsOK, BookType, RowType
    <3> QED
      BY <1>4, <2>1, <2>3, <3>1 DEF EodCleanup
  <2>4. ASSUME NEW b \in Buys, Place(b), UNCHANGED tracked PROVE TablesAgree'
    <3>1. \A c \in Buys : OrderKnown(c)' /\ (book[c].st # "none" => book'[c].st # "none")
      BY <2>1, <2>4 DEF Place, TablesAgree, OrderKnown, FieldsOK, BookType, RowType
    <3> QED
      BY <1>4, <2>1, <2>4, <3>1
  <2> QED
    BY <1>17, <2>2, <2>3, <2>4 DEF Process, MorningReconcile, Heartbeat, Crash, Stop, Vanish, Start,
                 PlaceInitial, PlaceReentry
<1> QED
  BY <1>5, <1>6, <1>7, <1>8, <1>11, <1>13, <1>14, <1>15, <1>16, <1>17 DEF Cycle

\* A leg leaves an open position that has grown by it or not at all (Apply).
LEMMA ApplyOpens ==
    ASSUME FieldsOK, NEW b \in Buys, NEW q \in Nat, Apply(b, q)
    PROVE  /\ pos'.open
           /\ pos.open => pos'.qty >= pos.qty
           /\ q > 0 /\ (pos.open => pos.qty > 0) => pos'.qty > 0
<1>1. CASE UNCHANGED pos /\ pos.open
  BY <1>1 DEF FieldsOK, PosType
<1>2. CASE pos.open /\ pos' = AddLeg(b, q)
  <2>1. pos'.open /\ pos'.qty = pos.qty + q
    BY <1>2 DEF AddLeg, FieldsOK, PosType
  <2>2. pos.qty \in Nat
    BY DEF FieldsOK, PosType
  <2> QED
    BY <1>2, <2>1, <2>2
<1>3. CASE ~pos.open /\ pos' = [open |-> TRUE, qty |-> q, since |-> row[b].on, legs |-> {}]
  BY <1>3
<1> QED
  BY <1>1, <1>2, <1>3 DEF Apply, Applied, Reflected

\* Reconciling leaves no position without shares.
LEMMA ReconcileQty ==
    ASSUME FieldsOK, Reconcile, pos.open => pos.qty > 0
    PROVE  pos'.open => pos'.qty > 0
<1>1. BrokerQty \in Nat /\ pos.qty \in Nat
  BY BrokerType DEF FieldsOK, PosType
<1>2. CASE UNCHANGED pos
  BY <1>2
<1>3. CASE pos' = NoPosition
  BY <1>3 DEF NoPosition
<1>4. ASSUME NEW q \in Nat \ {0}, pos' = [pos EXCEPT !.qty = q] PROVE pos'.qty > 0
  BY <1>4 DEF FieldsOK, PosType
<1>5. CASE SyncFromClosedBuys
  <2>1. PICK q \in 0 .. BrokerQty : q > pos.qty /\ pos' = [pos EXCEPT !.qty = q]
    BY <1>5 DEF SyncFromClosedBuys
  <2>2. q \in Nat \ {0}
    BY <1>1, <2>1
  <2> QED
    BY <1>4, <2>1, <2>2
<1>6. CASE 0 < BrokerQty /\ pos' = [pos EXCEPT !.qty = BrokerQty]
  BY <1>1, <1>4, <1>6
<1> QED
  BY <1>2, <1>3, <1>5, <1>6 DEF Reconcile

\* Every step keeps the monitor's program counter, leg and position in step.
LEMMA KeepsWorking ==
    ASSUME FieldsOK, FieldsOK', ExecutionFirst, Working, Cycle \/ Broker \/ Process
    PROVE  Working'
<1> USE DEF market, durable, memory
<1>0. /\ pos.open => pos.qty > 0
      /\ mon.leg # NoLeg => mon.pc = "check" /\ mon.qty > 0 /\ row[mon.leg].st = "closed"
      /\ mon.pc \in {"check", "backfill", "cancel"} => phase = "open"
      /\ RowsFirst /\ MonitorFirst /\ mon \in MonType
  BY DEF Working, ExecutionFirst, FieldsOK
<1>1. ASSUME UNCHANGED pos, mon'.leg = NoLeg, UNCHANGED phase,
             mon'.pc \in {"check", "backfill", "cancel"} => phase = "open"
      PROVE  Working'
  BY <1>0, <1>1 DEF Working
<1>2. CASE StartCycle
  BY <1>1, <1>2 DEF StartCycle, IdleMonitor
<1>3. CASE ApplyExecution
  <2>1. mon.leg \in Buys /\ mon.qty \in Nat /\ mon.qty > 0
    BY <1>0, <1>3 DEF ApplyExecution, MonType
  <2>2. pos'.qty > 0
    BY <1>0, <1>3, <2>1, ApplyOpens DEF ApplyExecution
  <2>3. mon'.leg = NoLeg /\ mon'.pc = mon.pc
    BY <1>0, <1>3 DEF ApplyExecution, MonType
  <2> QED
    BY <1>0, <1>3, <2>2, <2>3 DEF Working, ApplyExecution
<1>4. CASE StartBackfill
  <2>1. mon'.leg = NoLeg
    BY <1>0, <1>4 DEF StartBackfill, MonType
  <2> QED
    BY <1>1, <1>4, <2>1 DEF StartBackfill
<1>5. CASE RecordSell
  <2>1. mon'.leg = NoLeg /\ phase = "open" /\ UNCHANGED phase
    BY <1>5 DEF RecordSell, IdleMonitor
  <2>2. pos'.open => pos'.qty > 0
    <3>1. \/ UNCHANGED pos
          \/ pos' = NoPosition
          \/ sold.today < pos.qty /\ pos' = [pos EXCEPT !.qty = @ - sold.today]
      BY <1>5 DEF RecordSell
    <3>2. pos.qty \in Nat /\ sold.today \in Nat /\ pos \in PosType
      BY DEF FieldsOK, PosType, SoldType
    <3>3. CASE sold.today < pos.qty /\ pos' = [pos EXCEPT !.qty = @ - sold.today]
      <4>1. pos'.qty = pos.qty - sold.today
        BY <3>2, <3>3 DEF PosType
      <4> QED
        BY <3>2, <3>3, <4>1
    <3> QED
      BY <1>0, <3>1, <3>3 DEF NoPosition
  <2> QED
    BY <2>1, <2>2 DEF Working
<1>6. CASE CancelReentries
  BY <1>1, <1>6 DEF CancelReentries, IdleMonitor
<1>7. ASSUME NEW b \in Buys, Checking(b), UNCHANGED <<pos, phase>>, NEW q \in Nat \ {0}, NEW r \in BOOLEAN,
             mon' = [mon EXCEPT !.leg = b, !.qty = q, !.report = r],
             row'[b].st = "closed"
      PROVE  Working'
  <2>1. mon'.leg = b /\ mon'.qty = q /\ mon'.pc = "check"
    BY <1>0, <1>7 DEF Checking, MonType
  <2> QED
    BY <1>0, <1>7, <2>1 DEF Working, Checking
<1>8. ASSUME NEW b \in Buys, Checking(b), UNCHANGED <<pos, phase>>, mon' = [mon EXCEPT !.todo = @ \ {b}]
      PROVE  Working'
  <2>1. mon'.leg = NoLeg /\ mon'.pc = "check"
    BY <1>0, <1>8 DEF Checking, MonType
  <2> QED
    BY <1>1, <1>8, <2>1 DEF Checking
<1>9. ASSUME NEW b \in Buys, SeeComplete(b) PROVE Working'
  <2>1. Checking(b) /\ UNCHANGED <<pos, phase>> /\ book[b].filled \in Nat \ {0}
    BY <1>0, <1>9 DEF SeeComplete, RowsFirst, FieldsOK, BookType
  <2>2. row'[b].st = "closed"
    BY <1>9 DEF SeeComplete, AlreadyExecuted, Executed, FieldsOK
  <2> QED
    BY <1>7, <1>8, <1>9, <2>1, <2>2 DEF SeeComplete, Finish
<1>10. ASSUME NEW b \in Buys, SeeRefused(b) \/ SeeOpen(b) PROVE Working'
  BY <1>8, <1>10 DEF SeeRefused, SeeOpen, Finish
<1>11. ASSUME NEW b \in Buys, SeeInHoldings(b) PROVE Working'
  <2>1. PICK q \in AssumedQty(b) : Executed(b, q) /\ mon' = [mon EXCEPT !.leg = b, !.qty = q]
    BY <1>11 DEF SeeInHoldings
  <2>2. q \in Nat \ {0}
    BY <1>0, <1>11, BrokerType DEF SeeInHoldings, InHoldings, AssumedQty, RowsFirst, FieldsOK, BookType
  <2>3. row'[b].st = "closed"
    BY <2>1 DEF Executed, FieldsOK
  <2>4. mon' = [mon EXCEPT !.leg = b, !.qty = q, !.report = mon.report] /\ mon.report \in BOOLEAN
    BY <1>0, <2>1 DEF MonType
  <2> QED
    BY <1>7, <1>11, <2>2, <2>3, <2>4 DEF SeeInHoldings
<1>12. ASSUME NEW b \in Buys, SeeNowhere(b) PROVE Working'
  <2>1. Checking(b) /\ UNCHANGED <<pos, phase, row>>
    BY <1>12 DEF SeeNowhere
  <2>2. CASE row[b].st = "closed"
    <3>1. row[b].qty \in Nat \ {0}
      BY <1>0, <2>2 DEF RowsFirst, FieldsOK, RowType
    <3>2. mon' = [mon EXCEPT !.leg = b, !.qty = row[b].qty, !.report = mon.report] /\ mon.report \in BOOLEAN
      BY <1>0, <1>12, <2>2 DEF SeeNowhere, MonType
    <3> QED
      BY <1>7, <2>1, <2>2, <3>1, <3>2
  <2>3. CASE row[b].st # "closed"
    BY <1>8, <1>12, <2>1, <2>3 DEF SeeNowhere
  <2> QED
    BY <2>2, <2>3
<1>13. ASSUME NEW b \in Buys, Backfill(b) PROVE Working'
  <2>1. mon'.leg = NoLeg /\ phase = "open" /\ UNCHANGED phase
    BY <1>0, <1>13 DEF Backfill, MonType
  <2>2. row[b].qty \in Nat /\ row[b].qty > 0
    BY <1>0, <1>13 DEF Backfill, MonitorFirst, FieldsOK, RowType
  <2>3. pos'.open => pos'.qty > 0
    BY <1>0, <1>13, <2>2, ApplyOpens DEF Backfill
  <2> QED
    BY <2>1, <2>3 DEF Working
<1>14. CASE Broker \/ Process
  <2>1. pos'.open => pos'.qty > 0
    <3>1. UNCHANGED pos \/ Reconcile
      BY <1>14 DEF Broker, OpenMarket, CloseMarket, Lapse, SellFill, NextDay, Fill, Reject, BrokerCancel,
         Process, EodCleanup, MorningReconcile, Heartbeat, Crash, Stop, Vanish, Start, PlaceInitial, PlaceReentry
    <3> QED
      BY <1>0, <3>1, ReconcileQty
  <2>2. \/ UNCHANGED <<mon, phase>>
        \/ UNCHANGED mon /\ mon.pc \in {"idle", "down"}
        \/ mon' = IdleMonitor \/ mon' = [IdleMonitor EXCEPT !.pc = "down"]
        \/ UNCHANGED mon /\ phase' = "open"
        \/ UNCHANGED mon /\ phase # "open"
    BY <1>14 DEF Broker, OpenMarket, CloseMarket, Lapse, SellFill, NextDay, Fill, Reject, BrokerCancel,
         Process, EodCleanup, MorningReconcile, Heartbeat, Crash, Stop, Vanish, Start, PlaceInitial, PlaceReentry
  <2>3. mon'.pc \in {"check", "backfill", "cancel"} => phase' = "open"
    BY <1>0, <2>2 DEF IdleMonitor
  <2>4. mon'.leg # NoLeg => UNCHANGED mon
    BY <2>2 DEF IdleMonitor
  <2>5. mon.leg # NoLeg => \A b \in Buys : row[b].st = "closed" => row'[b].st = "closed"
    <3>1. CASE UNCHANGED row
      BY <3>1
    <3>2. CASE EodCleanup
      BY <3>2 DEF EodCleanup, Swept, FieldsOK, RowType
    <3>3. CASE mon.pc = "idle"
      BY <1>0, <3>3
    <3> QED
      BY <1>14, <3>1, <3>2, <3>3 DEF Broker, OpenMarket, CloseMarket, Lapse, SellFill, NextDay, Fill, Reject, BrokerCancel,
         Process, EodCleanup, MorningReconcile, Heartbeat, Crash, Stop, Vanish, Start, PlaceInitial, PlaceReentry
  <2>6. mon.leg \in Buys \cup {NoLeg}
    BY <1>0 DEF MonType
  <2> QED
    BY <1>0, <2>1, <2>3, <2>4, <2>5, <2>6 DEF Working
<1> QED
  BY <1>2, <1>3, <1>4, <1>5, <1>6, <1>9, <1>10, <1>11, <1>12, <1>13, <1>14 DEF Cycle

-----------------------------------------------------------------------------
(* A buy of the day has its position *)

\* Shares bought today are in the account, or a sale of today took them.
BoughtToday ==
    \A b \in Buys : \/ row[b].st = "closed" /\ row[b].on = day
                    \/ book[b].st = "complete" /\ book[b].on = day
                    => held > 0 \/ sold.today > 0

\* Each of them is on the backfill's list as long as there is no position.
ListedToday ==
    mon.pc = "backfill" =>
        \/ sold.today > 0 \/ pos.open
        \/ \A b \in Buys : row[b].st = "closed" /\ row[b].on = day => b \in mon.todo

\* What one order does in a check leaves the monitor checking.
LEMMA StaysChecking ==
    ASSUME FieldsOK, NEW b \in Buys,
           SeeComplete(b) \/ SeeRefused(b) \/ SeeOpen(b) \/ SeeInHoldings(b) \/ SeeNowhere(b)
    PROVE  mon'.pc = "check"
<1>1. mon.pc = "check" /\ mon \in MonType
  BY DEF SeeComplete, SeeRefused, SeeOpen, SeeInHoldings, SeeNowhere, Checking, FieldsOK
<1>2. \/ mon' = [mon EXCEPT !.todo = @ \ {b}]
      \/ \E q, r : mon' = [mon EXCEPT !.leg = b, !.qty = q, !.report = r]
      \/ \E q : mon' = [mon EXCEPT !.leg = b, !.qty = q]
  BY DEF SeeComplete, SeeRefused, SeeOpen, SeeInHoldings, SeeNowhere, Finish
<1> QED
  BY <1>1, <1>2 DEF MonType

\* No step of the monitor loses a buy of the day.
LEMMA CycleToday ==
    ASSUME FieldsOK, ExecutionFirst, BoughtToday, ListedToday, Cycle
    PROVE  BoughtToday' /\ ListedToday'
<1> USE DEF market, durable, memory
<1>0. mon \in MonType /\ MonitorFirst
  BY DEF FieldsOK, ExecutionFirst
<1>1. ASSUME UNCHANGED <<row, book, day, held>>, sold'.today = sold.today PROVE BoughtToday'
  BY <1>1 DEF BoughtToday
<1>2. ASSUME UNCHANGED <<book, day, held, sold>>, NEW b \in Buys,
             \A c \in Buys \ {b} : row'[c] = row[c],
             row'[b].st = "closed" => held > 0 \/ sold.today > 0
      PROVE  BoughtToday'
  BY <1>2 DEF BoughtToday
<1>3. CASE StartCycle \/ ApplyExecution
  <2>1. BoughtToday'
    BY <1>1, <1>3 DEF StartCycle, ApplyExecution
  <2>2. mon'.pc = "check"
    BY <1>0, <1>3 DEF StartCycle, ApplyExecution, IdleMonitor, MonType
  <2> QED
    BY <2>1, <2>2 DEF ListedToday
<1>4. CASE StartBackfill
  <2>1. BoughtToday'
    BY <1>1, <1>4 DEF StartBackfill
  <2>2. mon'.todo = Unapplied
    BY <1>0, <1>4 DEF StartBackfill, MonType
  <2>3. ASSUME NEW b \in Buys, row[b].st = "closed", row[b].on = day, ~pos.open
        PROVE  b \in Unapplied
    <3>1. row[b].on >= day - Lookback
      BY <2>3, BoundAssumption DEF FieldsOK
    <3> QED
      BY <2>3, <3>1 DEF Unapplied, ClosedSince, Applied, Reflected
  <2> QED
    BY <1>4, <2>1, <2>2, <2>3 DEF StartBackfill, ListedToday
<1>5. CASE RecordSell
  <2>1. sold'.today = sold.today
    BY <1>5 DEF RecordSell, FieldsOK, SoldType
  <2>2. mon'.pc # "backfill"
    BY <1>5 DEF RecordSell, IdleMonitor
  <2> QED
    BY <1>1, <1>5, <2>1, <2>2 DEF RecordSell, ListedToday
<1>6. CASE CancelReentries
  <2>1. BoughtToday'
    BY <1>6 DEF CancelReentries, BoughtToday, FieldsOK, RowType, BookType
  <2> QED
    BY <1>6, <2>1 DEF CancelReentries, ListedToday, IdleMonitor
<1>7. ASSUME NEW b \in Buys, SeeComplete(b) \/ SeeRefused(b) \/ SeeOpen(b) \/ SeeInHoldings(b)
                              \/ SeeNowhere(b)
      PROVE  mon'.pc = "check"
  BY <1>7, StaysChecking
<1>8. ASSUME NEW b \in Buys, SeeComplete(b) PROVE BoughtToday'
  <2>1. held > 0 \/ sold.today > 0
    BY <1>8 DEF SeeComplete, InReport, BoughtToday
  <2>2. \A c \in Buys \ {b} : row'[c] = row[c]
    BY <1>8 DEF SeeComplete, Executed, FieldsOK
  <2> QED
    BY <1>2, <1>8, <2>1, <2>2 DEF SeeComplete
<1>9. ASSUME NEW b \in Buys, SeeInHoldings(b) PROVE BoughtToday'
  <2>1. held > 0
    BY <1>9, BrokerType DEF SeeInHoldings, InHoldings, FieldsOK
  <2>2. \A c \in Buys \ {b} : row'[c] = row[c]
    BY <1>9 DEF SeeInHoldings, Executed, FieldsOK
  <2> QED
    BY <1>2, <1>9, <2>1, <2>2 DEF SeeInHoldings
<1>10. ASSUME NEW b \in Buys, SeeRefused(b) PROVE BoughtToday'
  <2>1. row'[b].st # "closed" /\ \A c \in Buys \ {b} : row'[c] = row[c]
    BY <1>10 DEF SeeRefused, RefusedStatus, FieldsOK, RowType
  <2> QED
    BY <1>2, <1>10, <2>1 DEF SeeRefused
<1>11. ASSUME NEW b \in Buys, SeeOpen(b) \/ SeeNowhere(b) PROVE BoughtToday'
  BY <1>1, <1>11 DEF SeeOpen, SeeNowhere
<1>12. ASSUME NEW b \in Buys, Backfill(b) PROVE BoughtToday' /\ ListedToday'
  <2>1. BoughtToday'
    BY <1>1, <1>12 DEF Backfill
  <2>2. mon'.todo = mon.todo \ {b}
    BY <1>0, <1>12 DEF Backfill, MonType
  <2>3. ASSUME sold.today = 0, row[b].st = "closed", row[b].on = day PROVE pos'.open
    <3>1. held > 0
      BY <2>3 DEF BoughtToday
    <3>2. ~BackfillBlocked
      BY <2>3, <3>1 DEF BackfillBlocked, Sellable
    <3>3. Apply(b, row[b].qty) /\ row[b].qty \in Nat
      BY <1>12, <3>2 DEF Backfill, FieldsOK, RowType
    <3> QED
      BY <3>3, ApplyOpens
  <2>4. pos.open => pos'.open
    <3>1. CASE BackfillBlocked
      BY <1>12, <3>1 DEF Backfill
    <3>2. CASE ~BackfillBlocked
      BY <1>12, <3>2, ApplyOpens DEF Backfill, FieldsOK, RowType
    <3> QED
      BY <3>1, <3>2
  <2>5. sold.today = 0 \/ sold.today > 0
    BY DEF FieldsOK, SoldType
  <2> QED
    BY <1>12, <2>1, <2>2, <2>3, <2>4, <2>5 DEF Backfill, ListedToday
<1> QED
  BY <1>3, <1>4, <1>5, <1>6, <1>7, <1>8, <1>9, <1>10, <1>11, <1>12 DEF Cycle, ListedToday

\* Nor does the broker, a task or the process.
LEMMA OtherToday ==
    ASSUME FieldsOK, RowsFirst, TablesAgree, Working, BoughtToday, ListedToday, Broker \/ Process
    PROVE  BoughtToday' /\ ListedToday'
<1> USE DEF market, durable, memory
<1>0. /\ held \in Nat /\ sold \in SoldType /\ day \in Nat /\ pos.qty \in Nat
      /\ mon.pc = "backfill" => phase = "open"
  BY DEF FieldsOK, PosType, Working
<1>1. CASE NextDay
  <2>1. \A b \in Buys : row[b].on <= day /\ book[b].on <= day /\ row[b].on \in Nat /\ book[b].on \in Nat
    BY DEF RowsFirst, TablesAgree, OrderKnown, FieldsOK, RowType, BookType
  <2>2. \A b \in Buys : row[b].on # day' /\ book[b].on # day'
    BY <1>0, <1>1, <2>1 DEF NextDay
  <2>3. BoughtToday'
    BY <1>1, <2>2 DEF NextDay, BoughtToday
  <2>4. mon'.pc # "backfill"
    BY <1>0, <1>1 DEF NextDay
  <2> QED
    BY <2>3, <2>4 DEF ListedToday
<1>2. CASE SellFill
  <2>1. Smaller(pos.qty, held) > 0
    BY <1>0, <1>2 DEF SellFill, Smaller, Working
  <2>2. sold'.today > 0
    BY <1>2, <2>1 DEF SellFill
  <2> QED
    BY <2>2 DEF BoughtToday, ListedToday
<1>3. ASSUME ~NextDay, ~SellFill
      PROVE  UNCHANGED day /\ sold'.today = sold.today
  <2>1. Reconcile => sold'.today = sold.today
    BY <1>0 DEF Reconcile, SyncFromClosedBuys, SoldType
  <2>2. Vanish => sold'.today = sold.today
    BY <1>0 DEF Vanish, SoldType
  <2> QED
    BY <1>3, <2>1, <2>2 DEF Broker, OpenMarket, CloseMarket, Lapse, Fill, Reject, BrokerCancel,
         Process, EodCleanup, MorningReconcile, Heartbeat, Crash, Stop, Start, PlaceInitial, PlaceReentry, Vanish
<1>4. ASSUME ~NextDay, ~SellFill PROVE BoughtToday'
  <2>1. CASE UNCHANGED <<book, row, held>>
    BY <1>3, <1>4, <2>1 DEF BoughtToday
  <2>2. ASSUME NEW b \in Buys, Fill(b) PROVE BoughtToday'
    <3>1. Qty[b] \in Nat /\ Qty[b] > 0
      BY QtyAssumption
    <3>2. held' > 0
      BY <1>0, <2>2, <3>1 DEF Fill
    <3> QED
      BY <3>2 DEF BoughtToday
  <2>3. ASSUME NEW b \in Buys, Reject(b) \/ BrokerCancel(b) PROVE BoughtToday'
    <3>1. held' >= held
      BY <1>0, <2>3, QtyAssumption DEF Reject, BrokerCancel
    <3>2. \A c \in Buys : book'[c].st = "complete" => book'[c] = book[c]
      BY <2>3 DEF Reject, BrokerCancel, FieldsOK, BookType
    <3>3. held > 0 => held' > 0
      BY <1>0, <2>3, QtyAssumption DEF Reject, BrokerCancel
    <3> QED
      BY <1>3, <1>4, <2>3, <3>2, <3>3 DEF Reject, BrokerCancel, BoughtToday
  <2>4. CASE Lapse
    BY <1>3, <1>4, <2>4 DEF Lapse, BoughtToday, FieldsOK, BookType
  <2>5. CASE EodCleanup
    BY <1>3, <1>4, <2>5 DEF EodCleanup, BoughtToday, FieldsOK, BookType, RowType
  <2>6. ASSUME NEW b \in Buys, Place(b), UNCHANGED held PROVE BoughtToday'
    BY <1>3, <1>4, <2>6 DEF Place, BoughtToday, FieldsOK, BookType, RowType
  <2> QED
    BY <1>4, <2>1, <2>2, <2>3, <2>4, <2>5, <2>6
    DEF Broker, OpenMarket, CloseMarket,
        Process, MorningReconcile, Heartbeat, Crash, Stop, Start, PlaceInitial, PlaceReentry, Vanish
<1>5. ASSUME ~NextDay, ~SellFill PROVE ListedToday'
  <2>1. mon'.pc = "backfill" => UNCHANGED <<mon, row, pos>>
    <3>1. CASE Broker
      BY <1>0, <1>5, <3>1 DEF Broker, OpenMarket, CloseMarket, Lapse, Fill, Reject, BrokerCancel
    <3>2. CASE Process
      BY <1>0, <3>2 DEF IdleMonitor, Process, EodCleanup, MorningReconcile, Heartbeat, Crash,
             Stop, Start, PlaceInitial, PlaceReentry, Vanish, Up
    <3> QED
      BY <3>1, <3>2
  <2> QED
    BY <1>3, <1>5, <2>1 DEF ListedToday
<1> QED
  BY <1>1, <1>2, <1>4, <1>5

-----------------------------------------------------------------------------
(* A process that is never restarted *)

\* It is up, and the sales it follows have not been taken off the position.
Tracking ==
    NeverRestarted => /\ Up /\ sold.watch # "unknown"
                      /\ sold.watch = "tracked" => sold.owed > 0 /\ phase # "pre"

\* No step of a process that is never restarted loses sight of a sale.
LEMMA KeepsTracking ==
    ASSUME FieldsOK, Working, Tracking, Cycle \/ Broker \/ Process, UNCHANGED exposed
    PROVE  Tracking'
<1> USE DEF market, durable, memory, Up
<1> SUFFICES ASSUME NeverRestarted
             PROVE  /\ mon'.pc # "down" /\ sold'.watch # "unknown"
                    /\ sold'.watch = "tracked" => sold'.owed > 0 /\ phase' # "pre"
  BY DEF Tracking, NeverRestarted
<1>0. /\ mon.pc # "down" /\ sold.watch # "unknown"
      /\ sold.watch = "tracked" => sold.owed > 0 /\ phase # "pre"
      /\ sold \in SoldType /\ mon \in MonType /\ held \in Nat /\ pos.qty \in Nat
  BY DEF Tracking, FieldsOK, PosType
<1>1. CASE Cycle
  <2>1. mon'.pc # "down"
    <3>1. CASE StartCycle
      BY <3>1 DEF StartCycle, IdleMonitor
    <3>3. CASE RecordSell \/ CancelReentries
      <4>1. mon' = IdleMonitor \/ mon' = [IdleMonitor EXCEPT !.pc = "cancel"]
                               \/ mon' = [IdleMonitor EXCEPT !.pc = "idle"]
        BY <3>3 DEF RecordSell, CancelReentries
      <4> QED
        BY <4>1 DEF IdleMonitor
    <3>2. CASE ApplyExecution \/ StartBackfill \/ \E b \in Buys : Backfill(b)
      BY <1>0, <3>2 DEF ApplyExecution, StartBackfill, Backfill, MonType
    <3> QED
      BY <1>1, <3>1, <3>2, <3>3, StaysChecking DEF Cycle
  <2>3. UNCHANGED phase
    BY <1>1 DEF Cycle, StartCycle, ApplyExecution, StartBackfill, RecordSell, CancelReentries,
           SeeComplete, SeeRefused, SeeOpen, SeeInHoldings, SeeNowhere, Backfill
  <2>2. UNCHANGED sold \/ sold'.watch = "handled"
    BY <1>0, <1>1 DEF Cycle, StartCycle, ApplyExecution, StartBackfill, CancelReentries,
          SeeComplete, SeeRefused, SeeOpen, SeeInHoldings, SeeNowhere, Backfill, RecordSell, SoldType
  <2> QED
    BY <1>0, <2>1, <2>2, <2>3
<1>2. CASE SellFill
  <2>1. Smaller(pos.qty, held) > 0 /\ Smaller(pos.qty, held) \in Nat
    BY <1>0, <1>2 DEF SellFill, Smaller, Working
  <2>2. sold'.owed > 0
    BY <1>0, <1>2, <2>1 DEF SellFill, SoldType
  <2> QED
    BY <1>0, <1>2, <2>2 DEF SellFill
<1>3. CASE Broker /\ ~SellFill
  <2>1. UNCHANGED mon
    BY <1>3 DEF Broker, OpenMarket, CloseMarket, Lapse, NextDay, Fill, Reject, BrokerCancel
  <2>2. \/ UNCHANGED sold /\ phase' # "pre"
        \/ UNCHANGED <<sold, phase>>
        \/ sold'.watch = "none"
        \/ phase = "pre" /\ sold'.watch = sold.watch
    <3>1. Reconcile => sold'.watch = sold.watch
      BY <1>0 DEF Reconcile, SyncFromClosedBuys, SoldType
    <3> QED
      BY <1>0, <1>3, <3>1 DEF Broker, OpenMarket, CloseMarket, Lapse, NextDay, Fill, Reject, BrokerCancel, SoldType
  <2> QED
    BY <1>0, <2>1, <2>2
<1>4. CASE Process
  <2>1. ~Crash /\ ~Stop /\ ~Start
    BY <1>0 DEF Crash, Stop, Start, FaultAllowed, NeverRestarted
  <2>2. UNCHANGED mon
    BY <1>4, <2>1 DEF Process, EodCleanup, MorningReconcile, Heartbeat, PlaceInitial, PlaceReentry
  <2>3. \/ UNCHANGED sold /\ (phase' = phase \/ phase' # "pre")
        \/ UNCHANGED phase /\ phase = "pre" /\ sold'.watch = sold.watch
    <3>1. Reconcile => sold'.watch = sold.watch
      BY <1>0 DEF Reconcile, SyncFromClosedBuys, SoldType
    <3> QED
      BY <1>4, <2>1, <3>1 DEF Process, EodCleanup, MorningReconcile, Heartbeat, PlaceInitial, PlaceReentry
  <2> QED
    BY <1>0, <2>2, <2>3
<1> QED
  BY <1>1, <1>2, <1>3, <1>4

\* The monitor lowers a position only by shares that were sold (SaleTakenOff).
LEMMA SaleOnce ==
    ASSUME FieldsOK, Working, Tracking, NeverRestarted, Cycle \/ Broker \/ Process
    PROVE  SaleTakenOff
<1> USE DEF market, durable, memory, Up
<1> SUFFICES ASSUME mon.pc = "backfill", pos.open, pos'.qty < pos.qty PROVE sold.owed > 0
  BY DEF SaleTakenOff
<1>0. phase = "open" /\ pos.qty \in Nat
  BY DEF Working, FieldsOK, PosType
<1>1. ~UNCHANGED pos
  BY <1>0
<1>2. \A b \in Buys : ~Backfill(b)
  <2> SUFFICES ASSUME NEW b \in Buys, Backfill(b) PROVE FALSE
    OBVIOUS
  <2>1. Apply(b, row[b].qty) /\ row[b].qty \in Nat
    BY <1>1 DEF Backfill, FieldsOK, RowType
  <2>2. pos'.qty >= pos.qty
    BY <2>1, ApplyOpens
  <2>3. pos'.qty \in Nat
    BY <2>1, ApplyType DEF PosType
  <2> QED
    BY <1>0, <2>2, <2>3
<1>3. RecordSell
  BY <1>0, <1>1, <1>2 DEF Cycle, StartCycle, ApplyExecution, StartBackfill, CancelReentries,
          SeeComplete, SeeRefused, SeeOpen, SeeInHoldings, SeeNowhere, Checking,
          Broker, OpenMarket, CloseMarket, Lapse, SellFill, NextDay, Fill, Reject, BrokerCancel,
         Process, EodCleanup, MorningReconcile, Heartbeat, Crash, Stop, Vanish, Start, PlaceInitial, PlaceReentry
<1>4. SeesSell
  BY <1>1, <1>3 DEF RecordSell
<1> QED
  BY <1>4 DEF SeesSell, Tracking

-----------------------------------------------------------------------------
(* While the reports answer *)

Executes(b) == row[b].st = "closed"

\* A marker has an executed row that is at least as large.
Marked(m) == \A b \in Buys : m[b] # 0 => Executes(b) /\ m[b] <= row[b].qty

\* A row of today closes only for an order that the report shows complete, so
\* nothing later in the day takes it back.
Answers ==
    "outage" \notin exposed =>
        /\ mon.pc \in {"check", "backfill"} => mon.api = {"orders", "holdings"}
        /\ \A b \in Buys : Executes(b) =>
               book[b].on < day \/ (book[b].st = "complete" /\ row[b].qty >= book[b].filled)
        /\ Marked(mark) /\ Marked(saved)
        /\ mon.leg # NoLeg => mon.qty <= row[mon.leg].qty
        /\ mon.pc = "backfill" => \A b \in mon.todo : Executes(b)

\* While the reports answer, an executed row stays executed: no step makes it
\* anything else (ExecutionStays).
LEMMA ExecutedStays ==
    ASSUME FieldsOK, TablesAgree, Working, Answers, "outage" \notin exposed, Cycle \/ Broker \/ Process
    PROVE  /\ ExecutionStays
           /\ \A b \in Buys : Executes(b) => row'[b].qty >= row[b].qty
<1> USE DEF market, durable, memory, Executes
<1> SUFFICES ASSUME NEW c \in Buys, row[c].st = "closed"
             PROVE  row'[c].st = "closed" /\ row'[c].qty >= row[c].qty
  BY DEF ExecutionStays
<1>0. row[c].qty \in Nat /\ row \in [Buys -> RowType] /\ mon.pc \in {"check", "backfill"} => mon.api = {"orders", "holdings"}
  BY DEF FieldsOK, RowType, Answers
<1>1. CASE UNCHANGED row
  BY <1>0, <1>1 DEF FieldsOK, RowType
<1>2. row[c].qty \in Nat /\ row[c].qty >= row[c].qty
  BY DEF FieldsOK, RowType
<1>3. CASE EodCleanup \/ CancelReentries
  BY <1>2, <1>3 DEF EodCleanup, CancelReentries, Swept, Stale, Pending
<1>4. ASSUME NEW b \in Buys, Place(b) PROVE row'[c].st = "closed" /\ row'[c].qty >= row[c].qty
  BY <1>2, <1>4 DEF Place, TablesAgree, OrderKnown, FieldsOK
<1>5. ASSUME NEW b \in Buys, NEW q \in Nat, Executed(b, q)
      PROVE row'[c].st = "closed" /\ row'[c].qty >= row[c].qty
  <2>1. CASE b = c
    <3>1. row'[c] = [st |-> "closed", qty |-> row[c].qty + q, on |-> day]
      BY <1>5, <2>1 DEF Executed, FieldsOK
    <3> QED
      BY <1>2, <3>1
  <2>2. CASE b # c
    BY <1>2, <1>5, <2>2 DEF Executed, FieldsOK
  <2> QED
    BY <2>1, <2>2
<1>6. ASSUME NEW b \in Buys, SeeComplete(b)
      PROVE row'[c].st = "closed" /\ row'[c].qty >= row[c].qty
  BY <1>1, <1>5, <1>6 DEF SeeComplete, FieldsOK, BookType
<1>7. ASSUME NEW b \in Buys, SeeInHoldings(b)
      PROVE row'[c].st = "closed" /\ row'[c].qty >= row[c].qty
  BY <1>5, <1>7, BrokerType DEF SeeInHoldings, AssumedQty, FieldsOK, BookType
<1>8. ASSUME NEW b \in Buys, SeeRefused(b)
      PROVE row'[c].st = "closed" /\ row'[c].qty >= row[c].qty
  <2>1. b # c
    BY <1>8 DEF SeeRefused, InReport, Answers, FieldsOK
  <2> QED
    BY <1>2, <1>8, <2>1 DEF SeeRefused, FieldsOK
<1>9. UNCHANGED row \/ EodCleanup \/ CancelReentries \/ \E b \in Buys : \/ Place(b) \/ SeeComplete(b)
                 \/ SeeInHoldings(b) \/ SeeRefused(b)
  BY DEF Cycle, StartCycle, ApplyExecution, StartBackfill, RecordSell, SeeOpen, SeeNowhere, Backfill,
         Broker, OpenMarket, CloseMarket, Lapse, SellFill, NextDay, Fill, Reject, BrokerCancel,
         Process, MorningReconcile, Heartbeat, Crash, Stop, Vanish, Start, PlaceInitial, PlaceReentry
<1> QED
  BY <1>1, <1>3, <1>4, <1>6, <1>7, <1>8, <1>9

\* Markers follow the executions they stand for.
LEMMA MarksKept ==
    ASSUME FieldsOK, FieldsOK', ExecutionStays, \A b \in Buys : Executes(b) => row'[b].qty >= row[b].qty
    PROVE  \A m \in [Buys -> Nat] : Marked(m) =>
               \A b \in Buys : m[b] # 0 => Executes(b)' /\ m[b] <= row'[b].qty
  BY DEF Marked, Executes, ExecutionStays, FieldsOK, RowType

\* Applying a leg whose row is executed keeps the markers behind it.
LEMMA ApplyMarks ==
    ASSUME FieldsOK, Marked(mark), Marked(saved), UNCHANGED row,
           NEW b \in Buys, NEW q \in Nat, Executes(b), q <= row[b].qty, Apply(b, q)
    PROVE  Marked(mark)' /\ Marked(saved)'
<1>1. \/ UNCHANGED <<mark, saved>>
      \/ mark' = [mark EXCEPT ![b] = q] /\ saved' \in {saved, mark}
  BY DEF Apply
<1> QED
  BY <1>1 DEF Marked, Executes, FieldsOK

\* Every step keeps executed rows and markers together while the reports answer.
LEMMA KeepsAnswers ==
    ASSUME FieldsOK, FieldsOK', TablesAgree, Working, Answers,
           Cycle \/ Broker \/ Process, UNCHANGED exposed
    PROVE  Answers'
<1> USE DEF market, durable, memory
<1> SUFFICES ASSUME "outage" \notin exposed
             PROVE  /\ mon'.pc \in {"check", "backfill"} => mon'.api = {"orders", "holdings"}
                    /\ \A b \in Buys : Executes(b)' =>
                           book'[b].on < day' \/ (book'[b].st = "complete" /\ row'[b].qty >= book'[b].filled)
                    /\ Marked(mark)' /\ Marked(saved)'
                    /\ mon'.leg # NoLeg => mon'.qty <= row'[mon'.leg].qty
                    /\ mon'.pc = "backfill" => \A b \in mon'.todo : Executes(b)'
  BY DEF Answers
<1> DEFINE Good(b) == Executes(b) =>
               book[b].on < day \/ (book[b].st = "complete" /\ row[b].qty >= book[b].filled)
<1>0. /\ mon.pc \in {"check", "backfill"} => mon.api = {"orders", "holdings"}
      /\ \A b \in Buys : Good(b)
      /\ Marked(mark) /\ Marked(saved)
      /\ mon.leg # NoLeg => mon.qty <= row[mon.leg].qty
      /\ mon.pc = "backfill" => \A b \in mon.todo : Executes(b)
      /\ mon \in MonType /\ mon.leg \in Buys \cup {NoLeg} /\ mon.todo \subseteq Buys
  BY DEF Answers, FieldsOK, MonType
<1>1. /\ \A b \in Buys : Executes(b) => Executes(b)' /\ row'[b].qty >= row[b].qty
      /\ \A m \in [Buys -> Nat] : Marked(m) => \A b \in Buys : m[b] # 0 => Executes(b)' /\ m[b] <= row'[b].qty
  BY ExecutedStays, MarksKept DEF ExecutionStays, Executes
<1>2. mark \in [Buys -> Nat] /\ saved \in [Buys -> Nat]
  BY DEF FieldsOK
\* markers
<1>3. Marked(mark)' /\ Marked(saved)'
  <2>1. CASE mark' \in {mark, saved} /\ saved' \in {mark, saved}
    BY <1>0, <1>1, <1>2, <2>1 DEF Marked
  <2>2. CASE ApplyExecution
    <3>1. mon.leg \in Buys /\ mon.qty \in Nat /\ Executes(mon.leg) /\ mon.qty <= row[mon.leg].qty
      BY <1>0, <2>2 DEF ApplyExecution, MonType, Working, Executes
    <3> QED
      BY <1>0, <2>2, <3>1, ApplyMarks DEF ApplyExecution
  <2>3. ASSUME NEW b \in Buys, Backfill(b) PROVE Marked(mark)' /\ Marked(saved)'
    <3>1. Executes(b) /\ row[b].qty \in Nat /\ row[b].qty <= row[b].qty /\ UNCHANGED row
      BY <1>0, <2>3 DEF Backfill, FieldsOK, RowType
    <3>2. CASE BackfillBlocked
      BY <2>1, <2>3, <3>2 DEF Backfill
    <3>3. CASE ~BackfillBlocked
      BY <1>0, <2>3, <3>1, <3>3, ApplyMarks DEF Backfill
    <3> QED
      BY <3>2, <3>3
  <2> QED
    BY <2>1, <2>2, <2>3
    DEF Cycle, StartCycle, StartBackfill, RecordSell, CancelReentries, SeeComplete, SeeRefused,
        SeeOpen, SeeInHoldings, SeeNowhere,
        Broker, OpenMarket, CloseMarket, Lapse, SellFill, NextDay, Fill, Reject, BrokerCancel,
        Process, EodCleanup, MorningReconcile, Heartbeat, Crash, Stop, Vanish, Start, PlaceInitial, PlaceReentry, Place
\* the monitor's own
<1>4. /\ mon'.pc \in {"check", "backfill"} => mon'.api = {"orders", "holdings"}
      /\ mon'.pc = "backfill" => \A b \in mon'.todo : Executes(b)'
  <2>1. CASE UNCHANGED mon
    BY <1>0, <1>1, <2>1
  <2>2. CASE mon'.pc \notin {"check", "backfill"}
    BY <2>2
  <2>3. CASE StartCycle
    <3>1. PICK api \in SUBSET {"orders", "holdings"} :
           /\ \/ api = {"orders", "holdings"}
              \/ FaultAllowed("outage")
           /\ mon' = [IdleMonitor EXCEPT !.pc = "check", !.api = api, !.todo = tracked' \cup Unsynced]
      BY <2>3 DEF StartCycle
    <3> QED
      BY <3>1 DEF FaultAllowed, IdleMonitor
  <2>4. CASE ApplyExecution
    <3>1. mon'.pc = "check" /\ mon'.api = mon.api /\ mon.pc = "check"
      BY <1>0, <2>4 DEF ApplyExecution, MonType
    <3> QED
      BY <1>0, <3>1
  <2>5. CASE StartBackfill
    <3>1. mon'.pc = "backfill" /\ mon'.api = mon.api /\ mon.pc = "check" /\ mon'.todo = Unapplied
      BY <1>0, <2>5 DEF StartBackfill, MonType
    <3> QED
      BY <1>0, <1>1, <3>1 DEF Unapplied, ClosedSince, Executes
  <2>6. ASSUME NEW b \in Buys, SeeComplete(b) \/ SeeRefused(b) \/ SeeOpen(b) \/ SeeInHoldings(b) \/ SeeNowhere(b)
        PROVE  mon'.pc = "check" /\ mon'.api = mon.api /\ mon.pc = "check"
    <3>1. \/ mon' = [mon EXCEPT !.todo = @ \ {b}]
          \/ \E q, r : mon' = [mon EXCEPT !.leg = b, !.qty = q, !.report = r]
          \/ \E q : mon' = [mon EXCEPT !.leg = b, !.qty = q]
      BY <2>6 DEF SeeComplete, SeeRefused, SeeOpen, SeeInHoldings, SeeNowhere, Finish
    <3>2. mon.pc = "check"
      BY <2>6 DEF SeeComplete, SeeRefused, SeeOpen, SeeInHoldings, SeeNowhere, Checking
    <3> QED
      BY <1>0, <3>1, <3>2 DEF MonType
  <2>7. ASSUME NEW b \in Buys, Backfill(b)
        PROVE  mon'.pc = "backfill" /\ mon'.api = mon.api /\ mon.pc = "backfill" /\ mon'.todo \subseteq mon.todo
    BY <1>0, <2>7 DEF Backfill, MonType
  <2>8. CASE RecordSell \/ CancelReentries
    <3>1. mon' = IdleMonitor \/ mon' = [IdleMonitor EXCEPT !.pc = "cancel"]
                             \/ mon' = [IdleMonitor EXCEPT !.pc = "idle"]
      BY <2>8 DEF RecordSell, CancelReentries
    <3> QED
      BY <2>2, <3>1 DEF IdleMonitor
  <2>9. CASE Broker
    BY <2>1, <2>9 DEF Broker, OpenMarket, CloseMarket, Lapse, SellFill, NextDay, Fill, Reject, BrokerCancel
  <2>10. CASE Process
    <3>1. UNCHANGED mon \/ mon' = IdleMonitor \/ mon' = [IdleMonitor EXCEPT !.pc = "down"]
      BY <2>10 DEF Process, EodCleanup, MorningReconcile, Heartbeat, Crash, Stop, Vanish, Start, PlaceInitial, PlaceReentry
    <3> QED
      BY <2>1, <2>2, <3>1 DEF IdleMonitor
  <2> QED
    BY <1>0, <1>1, <2>3, <2>4, <2>5, <2>6, <2>7, <2>8, <2>9, <2>10 DEF Cycle
\* the leg
<1>5. mon'.leg # NoLeg => mon'.qty <= row'[mon'.leg].qty
  <2>1. CASE UNCHANGED <<mon>>
    BY <1>0, <1>1, <2>1 DEF Working, Executes, FieldsOK, RowType, MonType
  <2>2. CASE mon'.leg = NoLeg
    BY <2>2
  <2>3. ASSUME NEW b \in Buys, SeeComplete(b) PROVE mon'.leg # NoLeg => mon'.qty <= row'[mon'.leg].qty
    <3>1. book[b].filled \in Nat /\ row[b].qty \in Nat /\ book[b].on = day /\ day \in Nat
      BY <2>3 DEF SeeComplete, InReport, FieldsOK, BookType, RowType
    <3>2. book[b].filled <= row'[b].qty
      <4>1. CASE AlreadyExecuted(b)
        BY <1>0, <2>3, <3>1, <4>1 DEF SeeComplete, AlreadyExecuted, Executes
      <4>2. CASE ~AlreadyExecuted(b)
        <5>1. row'[b].qty = row[b].qty + book[b].filled
          BY <2>3, <4>2 DEF SeeComplete, Executed, FieldsOK
        <5> QED
          BY <3>1, <5>1
      <4> QED
        BY <4>1, <4>2
    <3>3. \/ mon'.leg = NoLeg
          \/ mon'.leg = b /\ mon'.qty = book[b].filled
      BY <1>0, <2>3 DEF SeeComplete, Checking, Finish, MonType
    <3> QED
      BY <3>2, <3>3
  <2>4. ASSUME NEW b \in Buys, SeeInHoldings(b) PROVE mon'.leg # NoLeg => mon'.qty <= row'[mon'.leg].qty
    <3>1. PICK q \in AssumedQty(b) : Executed(b, q) /\ mon' = [mon EXCEPT !.leg = b, !.qty = q]
      BY <2>4 DEF SeeInHoldings
    <3>2. q \in Nat /\ row[b].qty \in Nat
      BY BrokerType DEF AssumedQty, FieldsOK, BookType, RowType
    <3>3. row'[b].qty = row[b].qty + q
      BY <3>1 DEF Executed, FieldsOK
    <3>4. mon'.leg = b /\ mon'.qty = q
      BY <1>0, <3>1 DEF MonType
    <3> QED
      BY <3>2, <3>3, <3>4
  <2>5. ASSUME NEW b \in Buys, SeeRefused(b) \/ SeeOpen(b) PROVE mon'.leg = NoLeg
    BY <1>0, <2>5 DEF SeeRefused, SeeOpen, Checking, Finish, MonType
  <2>6. ASSUME NEW b \in Buys, SeeNowhere(b)
        PROVE mon'.leg # NoLeg => mon'.qty <= row'[mon'.leg].qty
    <3>1. mon.leg = NoLeg /\ UNCHANGED row /\ row[b].qty \in Nat
      BY <2>6 DEF SeeNowhere, Checking, FieldsOK, RowType
    <3>2. mon' = [mon EXCEPT !.leg = b, !.qty = row[b].qty] \/ mon' = [mon EXCEPT !.todo = @ \ {b}]
      BY <2>6 DEF SeeNowhere
    <3>3. CASE mon' = [mon EXCEPT !.leg = b, !.qty = row[b].qty]
      <4>1. mon'.leg = b /\ mon'.qty = row[b].qty
        BY <1>0, <3>3 DEF MonType
      <4> QED
        BY <3>1, <4>1
    <3>4. CASE mon' = [mon EXCEPT !.todo = @ \ {b}]
      BY <1>0, <3>1, <3>4 DEF MonType
    <3> QED
      BY <3>2, <3>3, <3>4
  <2>7. CASE StartCycle \/ CancelReentries
    <3>1. CASE CancelReentries
      BY <3>1 DEF CancelReentries, IdleMonitor
    <3>2. CASE StartCycle
      <4>1. PICK api \in SUBSET {"orders", "holdings"} :
               mon' = [IdleMonitor EXCEPT !.pc = "check", !.api = api, !.todo = tracked' \cup Unsynced]
        BY <3>2 DEF StartCycle
      <4> QED
        BY <4>1 DEF IdleMonitor
    <3> QED
      BY <2>7, <3>1, <3>2
  <2>8. CASE RecordSell
    BY <2>8 DEF RecordSell, IdleMonitor
  <2>9. CASE ApplyExecution
    BY <1>0, <2>9 DEF ApplyExecution, MonType
  <2>10. CASE StartBackfill
    BY <1>0, <2>10 DEF StartBackfill, MonType
  <2>11. ASSUME NEW b \in Buys, Backfill(b) PROVE mon'.leg = NoLeg
    <3>1. mon.leg = NoLeg /\ mon' = [mon EXCEPT !.todo = @ \ {b}]
      BY <2>11 DEF Backfill, Working
    <3> QED
      BY <1>0, <3>1 DEF MonType
  <2>12. CASE Broker
    <3>1. UNCHANGED mon
      BY <2>12 DEF Broker, OpenMarket, CloseMarket, Lapse, SellFill, NextDay, Fill, Reject, BrokerCancel
    <3> QED
      BY <2>1, <3>1
  <2>13. CASE Process
    <3>1. UNCHANGED mon \/ mon' = IdleMonitor \/ mon' = [IdleMonitor EXCEPT !.pc = "down"]
      BY <2>13 DEF Process, EodCleanup, MorningReconcile, Heartbeat, Crash, Stop, Vanish, Start, PlaceInitial, PlaceReentry
    <3> QED
      BY <2>1, <2>2, <3>1 DEF IdleMonitor
  <2> QED
    BY <2>3, <2>4, <2>5, <2>6, <2>7, <2>8, <2>9, <2>10, <2>11, <2>12, <2>13 DEF Cycle
\* executed rows
<1>6. \A b \in Buys : Good(b)'
  <2>1. CASE UNCHANGED <<book, row, day>>
    BY <1>0, <2>1 DEF Executes
  <2>2. ASSUME NEW b \in Buys, SeeComplete(b) PROVE \A c \in Buys : Good(c)'
    <3>1. book[b].filled \in Nat /\ row[b].qty \in Nat
      BY <2>2 DEF FieldsOK, BookType, RowType
    <3>2. CASE AlreadyExecuted(b)
      BY <2>1, <2>2, <3>2 DEF SeeComplete
    <3>3. CASE ~AlreadyExecuted(b)
      <4>1. row'[b].qty = row[b].qty + book[b].filled /\ \A c \in Buys \ {b} : row'[c] = row[c]
        BY <2>2, <3>3 DEF SeeComplete, Executed, FieldsOK
      <4>2. row'[b].qty >= book[b].filled
        BY <3>1, <4>1
      <4> QED
        BY <1>0, <2>2, <4>1, <4>2 DEF SeeComplete, Executes
    <3> QED
      BY <3>2, <3>3
  <2>3. ASSUME NEW b \in Buys, SeeInHoldings(b) PROVE \A c \in Buys : Good(c)'
    <3>0. Checking(b) /\ ~InReport(b)
      BY <2>3 DEF SeeInHoldings
    <3>1. book[b].on < day
      <4>1. book[b].on # day
        BY <1>0, <3>0 DEF InReport, Checking
      <4>2. book[b].on \in Nat /\ day \in Nat /\ book[b].on <= day
        BY DEF TablesAgree, OrderKnown, FieldsOK, BookType
      <4> QED
        BY <4>1, <4>2
    <3>2. \A c \in Buys \ {b} : row'[c] = row[c]
      BY <2>3 DEF SeeInHoldings, Executed, FieldsOK
    <3> QED
      BY <1>0, <2>3, <3>1, <3>2 DEF SeeInHoldings, Executes
  <2>4. ASSUME NEW b \in Buys, SeeRefused(b) PROVE \A c \in Buys : Good(c)'
    <3>1. row'[b].st # "closed" /\ \A c \in Buys \ {b} : row'[c] = row[c]
      BY <2>4 DEF SeeRefused, RefusedStatus, FieldsOK, RowType
    <3> QED
      BY <1>0, <2>4, <3>1 DEF SeeRefused, Executes
  <2>5. ASSUME \A c \in Buys : /\ row'[c].st = "closed" => row[c].st = "closed" /\ row'[c].qty = row[c].qty
                               /\ book'[c].on = book[c].on
                               /\ book[c].st = "complete" => book'[c] = book[c],
               day' = day
        PROVE  \A c \in Buys : Good(c)'
    BY <1>0, <2>5 DEF Executes
  <2>6. CASE CancelReentries \/ EodCleanup \/ Lapse
    <3>1. \A c \in Buys : /\ row'[c].st = "closed" => row[c].st = "closed" /\ row'[c].qty = row[c].qty
                          /\ book'[c].on = book[c].on
                          /\ book[c].st = "complete" => book'[c] = book[c]
      BY <2>6 DEF CancelReentries, EodCleanup, Lapse, FieldsOK, BookType, RowType
    <3>2. day' = day
      BY <2>6 DEF CancelReentries, EodCleanup, Lapse
    <3> QED
      BY <2>5, <3>1, <3>2
  <2>7. ASSUME NEW b \in Buys, Fill(b) \/ Reject(b) \/ BrokerCancel(b) PROVE \A c \in Buys : Good(c)'
    <3>1. \A c \in Buys : /\ row'[c] = row[c]
                          /\ book'[c].on = book[c].on
                          /\ book[c].st = "complete" => book'[c] = book[c]
      BY <2>7 DEF Fill, Reject, BrokerCancel, FieldsOK, BookType
    <3>2. day' = day
      BY <2>7 DEF Fill, Reject, BrokerCancel
    <3> QED
      BY <2>5, <3>1, <3>2
  <2>8. CASE NextDay
    BY <1>0, <2>8 DEF NextDay, Executes, FieldsOK, BookType
  <2>9. ASSUME NEW b \in Buys, Place(b), day' = day PROVE \A c \in Buys : Good(c)'
    <3>1. row'[b].st # "closed" /\ \A c \in Buys \ {b} : row'[c] = row[c] /\ book'[c] = book[c]
      BY <2>9 DEF Place, FieldsOK, RowType
    <3> QED
      BY <1>0, <2>9, <3>1 DEF Executes
  <2> QED
    BY <2>1, <2>2, <2>3, <2>4, <2>6, <2>7, <2>8, <2>9
    DEF Cycle, StartCycle, ApplyExecution, StartBackfill, RecordSell, SeeOpen, SeeNowhere, Backfill,
        Broker, OpenMarket, CloseMarket, SellFill,
        Process, MorningReconcile, Heartbeat, Crash, Stop, Vanish, Start, PlaceInitial, PlaceReentry
<1> QED
  BY <1>3, <1>4, <1>5, <1>6

-----------------------------------------------------------------------------
(* A cancelled row bought nothing *)

\* While the process stays up and no order fills in part, every pending row is
\* followed once the market has opened, and a cancelled row is either of an
\* order that is over and bought nothing, or still followed.
Attended ==
    NeverRestarted /\ "partial" \notin exposed =>
        /\ phase # "pre" => Pending \subseteq tracked
        /\ \A b \in Buys :
              /\ row[b].st = "cancelled" => /\ book[b].st \notin {"none", "open"}
                                            /\ book[b].filled > 0 => b \in tracked
              /\ book[b].st \in {"rejected", "cancelled"} => book[b].filled = 0

\* Every step leaves the pending rows followed and the cancelled ones empty
\* (CancelledUnfilled).
LEMMA KeepsAttended ==
    ASSUME FieldsOK, FieldsOK', TablesAgree, Working, Tracking, Attended,
           Cycle \/ Broker \/ Process, UNCHANGED exposed
    PROVE  Attended'
<1> USE DEF market, durable, memory
<1> SUFFICES ASSUME NeverRestarted, "partial" \notin exposed
             PROVE  /\ phase' # "pre" => Pending' \subseteq tracked'
                    /\ \A b \in Buys :
                          /\ row'[b].st = "cancelled" => /\ book'[b].st \notin {"none", "open"}
                                                         /\ book'[b].filled > 0 => b \in tracked'
                          /\ book'[b].st \in {"rejected", "cancelled"} => book'[b].filled = 0
  BY DEF Attended, NeverRestarted
<1> DEFINE Fine(b) ==
       /\ row[b].st = "cancelled" => /\ book[b].st \notin {"none", "open"}
                                     /\ book[b].filled > 0 => b \in tracked
       /\ book[b].st \in {"rejected", "cancelled"} => book[b].filled = 0
<1> DEFINE Goal == /\ phase' # "pre" => Pending' \subseteq tracked'
                   /\ \A b \in Buys : Fine(b)'
<1> SUFFICES Goal
  OBVIOUS
<1>0. /\ phase # "pre" => Pending \subseteq tracked
      /\ \A b \in Buys : Fine(b) /\ OrderKnown(b)
      /\ mon \in MonType /\ mon.pc # "down"
  BY DEF Attended, TablesAgree, Tracking, Up, FieldsOK
<1>1. ASSUME UNCHANGED <<book, row, phase>>, UNCHANGED tracked PROVE Goal
  BY <1>0, <1>1 DEF Pending
\* orders leave the list only when their row is final
<1>2. ASSUME UNCHANGED <<book, row, phase>>, NEW b \in Buys, row[b].st = "closed", tracked' = tracked \ {b}
      PROVE  Goal
  BY <1>0, <1>2 DEF Pending
<1>3. CASE StartCycle
  <2>1. tracked' = IF tracked = {} THEN Pending ELSE tracked
    BY <1>3 DEF StartCycle
  <2>2. UNCHANGED <<book, row, phase>>
    BY <1>3 DEF StartCycle
  <2>3. Pending' \subseteq tracked'
    BY <1>0, <1>3, <2>1, <2>2 DEF StartCycle, Pending
  <2>4. \A b \in Buys : Fine(b)'
    BY <1>0, <2>1, <2>2
  <2> QED
    BY <2>3, <2>4
<1>4. CASE ApplyExecution
  <2>1. mon.leg \in Buys /\ row[mon.leg].st = "closed"
    BY <1>0, <1>4 DEF ApplyExecution, MonType, Working
  <2> QED
    BY <1>2, <1>4, <2>1 DEF ApplyExecution
<1>5. CASE StartBackfill \/ RecordSell
  BY <1>1, <1>5 DEF StartBackfill, RecordSell
<1>6. CASE CancelReentries
  <2>1. UNCHANGED <<tracked, phase>> /\ phase = "open"
    BY <1>6 DEF CancelReentries
  <2>2. Pending' \subseteq Pending
    BY <1>6 DEF CancelReentries, Pending, FieldsOK, RowType
  <2>3. ASSUME NEW b \in Buys PROVE Fine(b)'
    <3>1. CASE b \in Stale
      <4>1. b \in tracked
        BY <1>0, <2>1, <3>1 DEF Stale
      <4>2. book[b].st # "none"
        BY <1>0, <3>1 DEF OrderKnown, Stale, Pending
      <4>3. book'[b] = IF book[b].st = "open" THEN [book[b] EXCEPT !.st = "cancelled"] ELSE book[b]
        BY <1>6, <3>1 DEF CancelReentries
      <4>4. book[b] \in BookType
        BY DEF FieldsOK
      <4> QED
        BY <1>0, <2>1, <4>1, <4>2, <4>3, <4>4 DEF OrderKnown, BookType
    <3>2. CASE b \notin Stale
      BY <1>0, <1>6, <2>1, <3>2 DEF CancelReentries
    <3> QED
      BY <3>1, <3>2
  <2> QED
    BY <1>0, <2>1, <2>2, <2>3
<1>7. ASSUME NEW b \in Buys, UNCHANGED <<book, phase>>, NEW t \in SUBSET Buys, tracked' = t,
             t = tracked \/ t = tracked \ {b},
             \A c \in Buys \ {b} : row'[c] = row[c],
             row'[b].st # "pending",
             row'[b].st = "cancelled" => book[b].st = "rejected" \/ book[b].st = "cancelled"
      PROVE  Goal
  BY <1>0, <1>7 DEF Pending
<1>8. ASSUME NEW b \in Buys, SeeComplete(b) PROVE Goal
  <2>1. row'[b].st = "closed" /\ \A c \in Buys \ {b} : row'[c] = row[c]
    BY <1>8 DEF SeeComplete, AlreadyExecuted, Executed, FieldsOK
  <2>2. UNCHANGED <<book, phase>> /\ (tracked' = tracked \/ tracked' = tracked \ {b})
    BY <1>8 DEF SeeComplete, Finish
  <2> QED
    BY <1>7, <2>1, <2>2 DEF FieldsOK
<1>9. ASSUME NEW b \in Buys, SeeRefused(b) PROVE Goal
  <2>1. row'[b].st \in {"failed", "cancelled"} /\ \A c \in Buys \ {b} : row'[c] = row[c]
    BY <1>9 DEF SeeRefused, RefusedStatus, FieldsOK, RowType
  <2>2. UNCHANGED <<book, phase>> /\ tracked' = tracked \ {b} /\ book[b].st \in {"rejected", "cancelled"}
    BY <1>9 DEF SeeRefused, Finish
  <2> QED
    BY <1>7, <2>1, <2>2 DEF FieldsOK
<1>10. ASSUME NEW b \in Buys, SeeInHoldings(b) PROVE Goal
  <2>1. row'[b].st = "closed" /\ \A c \in Buys \ {b} : row'[c] = row[c]
    BY <1>10 DEF SeeInHoldings, Executed, FieldsOK
  <2>2. UNCHANGED <<book, phase, tracked>>
    BY <1>10 DEF SeeInHoldings
  <2> QED
    BY <1>7, <2>1, <2>2 DEF FieldsOK
<1>11. ASSUME NEW b \in Buys, SeeOpen(b) \/ SeeNowhere(b) \/ Backfill(b) PROVE Goal
  BY <1>1, <1>11 DEF SeeOpen, SeeNowhere, Backfill
<1>12. CASE OpenMarket
  <2>1. mon.pc = "idle" /\ tracked' = tracked \cup Pending
    BY <1>0, <1>12 DEF OpenMarket, Up
  <2>2. UNCHANGED <<book, row>>
    BY <1>12 DEF OpenMarket
  <2>3. \A b \in Buys : Fine(b)'
    BY <1>0, <2>1, <2>2
  <2> QED
    BY <2>1, <2>2, <2>3 DEF Pending
<1>13. CASE CloseMarket \/ NextDay
  <2>1. UNCHANGED <<book, row, tracked>>
    BY <1>13 DEF CloseMarket, NextDay
  <2>2. phase # "pre"
    BY <1>13 DEF CloseMarket, NextDay
  <2> QED
    BY <1>0, <2>1, <2>2 DEF Pending
<1>14. ASSUME NEW b \in Buys, UNCHANGED <<row, phase, tracked>>, book[b].st = "open", book'[b].st # "none",
              book'[b].st # "open",
              \A c \in Buys \ {b} : book'[c] = book[c],
              book'[b].st \in {"rejected", "cancelled"} => book'[b].filled = 0
       PROVE  Goal
  BY <1>0, <1>14 DEF Pending
<1>15. ASSUME NEW b \in Buys, Fill(b) PROVE Goal
  <2>1. book'[b].st = "complete" /\ \A c \in Buys \ {b} : book'[c] = book[c]
    BY <1>15 DEF Fill, FieldsOK, BookType
  <2> QED
    BY <1>14, <1>15, <2>1 DEF Fill
<1>16. ASSUME NEW b \in Buys, Reject(b) \/ BrokerCancel(b) PROVE Goal
  <2>1. book[b].filled = 0 /\ book[b].st = "open"
    BY <1>0, <1>16 DEF Reject, BrokerCancel, OrderKnown
  <2>2. CASE Reject(b)
    <3>1. book'[b].st = "rejected" /\ book'[b].filled = 0 /\ \A c \in Buys \ {b} : book'[c] = book[c]
      BY <2>1, <2>2 DEF Reject, FieldsOK, BookType
    <3> QED
      BY <1>14, <2>1, <2>2, <3>1 DEF Reject
  <2>3. CASE BrokerCancel(b)
    <3>1. PICK n \in 0 .. (Qty[b] - 1) :
             /\ n > 0 => "partial" \in exposed
             /\ book' = [book EXCEPT ![b].st = "cancelled", ![b].filled = n]
      BY <2>3 DEF BrokerCancel
    <3>2. n = 0
      BY <3>1, QtyAssumption
    <3>3. book'[b].st = "cancelled" /\ book'[b].filled = 0 /\ \A c \in Buys \ {b} : book'[c] = book[c]
      BY <3>1, <3>2 DEF FieldsOK, BookType
    <3> QED
      BY <1>14, <2>1, <2>3, <3>3 DEF BrokerCancel
  <2> QED
    BY <1>16, <2>2, <2>3
<1>17. CASE Lapse
  <2>1. ASSUME NEW b \in Buys
        PROVE  /\ book[b].st # "open" => book'[b] = book[b]
               /\ book[b].st = "open" => book'[b].st = "cancelled" /\ book'[b].filled = 0
    BY <1>0, <1>17 DEF Lapse, OrderKnown, FieldsOK, BookType
  <2>2. UNCHANGED <<row, phase, tracked>>
    BY <1>17 DEF Lapse
  <2> QED
    BY <1>0, <2>1, <2>2 DEF Pending
<1>18. CASE SellFill \/ MorningReconcile \/ Heartbeat
  BY <1>1, <1>18 DEF SellFill, MorningReconcile, Heartbeat
<1>19. CASE EodCleanup
  <2>1. UNCHANGED tracked /\ phase = "closed"
    BY <1>19 DEF EodCleanup
  <2>2. ASSUME NEW b \in Buys
        PROVE  /\ book[b].st # "open" => book'[b] = book[b]
               /\ book[b].st = "open" => book'[b].st = "cancelled" /\ book'[b].filled = 0
               /\ Swept(b) => row'[b].st = "cancelled"
               /\ ~Swept(b) => row'[b] = row[b]
    BY <1>0, <1>19 DEF EodCleanup, OrderKnown, FieldsOK, BookType, RowType
  <2>3. Pending' \subseteq Pending
    BY <2>2 DEF Pending
  <2>4. ASSUME NEW b \in Buys PROVE Fine(b)'
    <3>1. CASE Swept(b)
      <4>1. b \in tracked /\ book[b].st # "none" /\ book[b].st # "open"
        BY <1>0, <2>1, <3>1 DEF Swept, Pending, OrderKnown
      <4> QED
        BY <1>0, <2>1, <2>2, <3>1, <4>1
    <3>2. CASE ~Swept(b)
      BY <1>0, <2>1, <2>2, <3>2
    <3> QED
      BY <3>1, <3>2
  <2> QED
    BY <1>0, <2>1, <2>3, <2>4
<1>20. ~Crash /\ ~Stop /\ ~Start
  BY <1>0 DEF Crash, Stop, Start, FaultAllowed, NeverRestarted, Up
<1>21. ASSUME NEW b \in Buys, PlaceInitial(b) \/ PlaceReentry(b) PROVE Goal
  <2>1. phase = "pre" /\ UNCHANGED <<phase, tracked>> /\ Place(b)
    BY <1>21 DEF PlaceInitial, PlaceReentry
  <2>2. /\ book'[b].st = "open" /\ row'[b].st = "pending"
        /\ \A c \in Buys \ {b} : book'[c] = book[c] /\ row'[c] = row[c]
    BY <2>1 DEF Place, FieldsOK, RowType
  <2> QED
    BY <1>0, <2>1, <2>2
<1> QED
  BY <1>3, <1>4, <1>5, <1>6, <1>8, <1>9, <1>10, <1>11, <1>12, <1>13, <1>15, <1>16, <1>17, <1>18, <1>19,
     <1>20, <1>21 DEF Cycle, Broker, Process

-----------------------------------------------------------------------------
(* A closed row has what the broker filled *)

\* A row that agrees with its order: executed with its fill on its day, or with
\* no shares.
Agrees(b) ==
    \/ /\ row[b].st = "closed" /\ book[b].st = "complete"
       /\ row[b].qty = book[b].filled /\ row[b].on = book[b].on
    \/ row[b].st # "closed" /\ row[b].qty = 0

\* While every report arrives and no day ends with an order unfilled or unseen,
\* only orders of the day are pending, followed or looked at, and every row
\* agrees with its order.
Reported ==
    ReportsComplete =>
        /\ \A b \in Buys : Agrees(b)
        /\ phase \in {"closed", "swept"} => Pending \cup tracked = {}
        /\ \A b \in Pending \cup tracked : book[b].on = day
        /\ mon.pc = "check" => \A b \in mon.todo : book[b].on = day

\* While the reports are complete, a fill is added to a row once (ExecutionFaithful).
LEMMA KeepsReported ==
    ASSUME FieldsOK, FieldsOK', TablesAgree, Working, Answers, Reported,
           Cycle \/ Broker \/ Process, UNCHANGED exposed
    PROVE  Reported'
<1> USE DEF market, durable, memory
<1> DEFINE Goal == /\ \A b \in Buys : Agrees(b)'
                   /\ phase' \in {"closed", "swept"} => Pending' \cup tracked' = {}
                   /\ \A b \in Pending' \cup tracked' : book'[b].on = day'
                   /\ mon'.pc = "check" => \A b \in mon'.todo : book'[b].on = day'
<1> SUFFICES ASSUME ReportsComplete PROVE Goal
  BY DEF Reported, ReportsComplete
<1>0. /\ \A b \in Buys : Agrees(b) /\ OrderKnown(b)
      /\ phase \in {"closed", "swept"} => Pending \cup tracked = {}
      /\ \A b \in Pending \cup tracked : book[b].on = day
      /\ mon.pc = "check" => \A b \in mon.todo : book[b].on = day
      /\ mon.pc \in {"check", "backfill", "cancel"} => phase = "open"
      /\ mon.pc \in {"check", "backfill"} => mon.api = {"orders", "holdings"}
      /\ mon \in MonType /\ day \in Nat
      /\ "outage" \notin exposed /\ "unfilled" \notin exposed /\ "unseen" \notin exposed
  BY DEF Reported, TablesAgree, Working, Answers, FieldsOK, ReportsComplete
\* steps that leave the tables alone
<1>1. ASSUME UNCHANGED <<book, row, day, phase>>, tracked' \subseteq tracked \cup Pending,
             mon'.pc = "check" => mon.pc = "check" /\ mon'.todo \subseteq mon.todo
      PROVE  Goal
  BY <1>0, <1>1 DEF Agrees, Pending
<1>2. CASE StartCycle
  <2>1. tracked' \subseteq tracked \cup Pending /\ UNCHANGED <<book, row, day, phase>>
    BY <1>2 DEF StartCycle
  <2>2. mon'.todo = tracked' \cup Unsynced
    <3>1. PICK api \in SUBSET {"orders", "holdings"} :
             mon' = [IdleMonitor EXCEPT !.pc = "check", !.api = api, !.todo = tracked' \cup Unsynced]
      BY <1>2 DEF StartCycle
    <3> QED
      BY <3>1 DEF IdleMonitor
  <2>3. ASSUME NEW b \in Unsynced PROVE book[b].on = day
    <3>1. b \in Buys /\ row[b].st = "closed" /\ row[b].on >= day
      BY <2>3 DEF Unsynced, ClosedSince
    <3>2. row[b].on = book[b].on /\ book[b].on <= day /\ book[b].on \in Nat
      BY <1>0, <3>1 DEF Agrees, OrderKnown, FieldsOK, BookType
    <3> QED
      BY <1>0, <3>1, <3>2
  <2>4. \A b \in Buys : Agrees(b)'
    BY <1>0, <2>1 DEF Agrees
  <2>5. Pending' = Pending
    BY <2>1 DEF Pending
  <2> QED
    BY <1>0, <2>1, <2>2, <2>3, <2>4, <2>5
<1>3. CASE ApplyExecution
  <2>1. mon'.todo \subseteq mon.todo /\ mon.pc = "check" /\ UNCHANGED <<book, row, day, phase>>
    BY <1>0, <1>3 DEF ApplyExecution, MonType
  <2> QED
    BY <1>1, <1>3, <2>1 DEF ApplyExecution
<1>4. CASE StartBackfill
  <2>1. mon'.pc = "backfill"
    BY <1>0, <1>4 DEF StartBackfill, MonType
  <2> QED
    BY <1>1, <1>4, <2>1 DEF StartBackfill
<1>5. CASE RecordSell
  <2>1. mon'.pc # "check"
    <3>1. mon' = IdleMonitor \/ mon' = [IdleMonitor EXCEPT !.pc = "cancel"]
                             \/ mon' = [IdleMonitor EXCEPT !.pc = "idle"]
      BY <1>5 DEF RecordSell
    <3> QED
      BY <3>1 DEF IdleMonitor
  <2> QED
    BY <1>1, <1>5, <2>1 DEF RecordSell
\* steps that end orders which no row has recorded
<1>6. ASSUME NEW b \in Buys,
             row'[b] = row[b] \/ (row'[b].st # "closed" /\ row'[b].qty = row[b].qty /\ row[b].st # "closed"),
             book'[b] = book[b] \/ book[b].st = "open",
             book[b].st = "open" => row[b].st # "closed"
      PROVE  Agrees(b)'
  BY <1>0, <1>6 DEF Agrees
<1>7. \A b \in Buys : book[b].st = "open" => row[b].st # "closed"
  BY <1>0 DEF Agrees
<1>8. CASE CancelReentries
  <2>1. UNCHANGED <<tracked, phase, day>> /\ phase = "open" /\ mon'.pc = "idle"
    BY <1>8 DEF CancelReentries, IdleMonitor
  <2>2. ASSUME NEW b \in Buys PROVE Agrees(b)'
    <3>1. row'[b] = row[b] \/ (row'[b].st # "closed" /\ row'[b].qty = row[b].qty /\ row[b].st # "closed")
      BY <1>8 DEF CancelReentries, Stale, Pending, FieldsOK, RowType
    <3>2. book'[b] = book[b] \/ book[b].st = "open"
      BY <1>8 DEF CancelReentries
    <3> QED
      BY <1>6, <1>7, <3>1, <3>2
  <2>3. Pending' \subseteq Pending /\ \A b \in Buys : book'[b].on = book[b].on
    BY <1>8 DEF CancelReentries, Pending, FieldsOK, RowType, BookType
  <2>4. tracked \subseteq Buys /\ Pending \subseteq Buys
    BY DEF FieldsOK, Pending
  <2> QED
    BY <1>0, <2>1, <2>2, <2>3, <2>4
<1>9. ASSUME NEW b \in Buys, Checking(b), UNCHANGED <<book, day, phase>>, tracked' \subseteq tracked,
             mon'.todo \subseteq mon.todo, row'[b].st # "pending",
             \A c \in Buys \ {b} : row'[c] = row[c], Agrees(b)'
      PROVE  Goal
  BY <1>0, <1>9 DEF Agrees, Checking, Pending
<1>10. ASSUME NEW b \in Buys, SeeComplete(b) \/ SeeRefused(b) \/ SeeOpen(b) \/ SeeInHoldings(b) \/ SeeNowhere(b)
       PROVE  /\ Checking(b) /\ UNCHANGED <<book, day, phase>>
              /\ tracked' \subseteq tracked /\ mon'.todo \subseteq mon.todo
              /\ InReport(b)
  <2>1. Checking(b) /\ UNCHANGED <<book, day, phase>>
    BY <1>10 DEF SeeComplete, SeeRefused, SeeOpen, SeeInHoldings, SeeNowhere
  <2>2. tracked' \subseteq tracked /\ mon'.todo \subseteq mon.todo
    <3>1. \/ mon' = [mon EXCEPT !.todo = @ \ {b}]
          \/ \E q, r : mon' = [mon EXCEPT !.leg = b, !.qty = q, !.report = r]
          \/ \E q : mon' = [mon EXCEPT !.leg = b, !.qty = q]
      BY <1>10 DEF SeeComplete, SeeRefused, SeeOpen, SeeInHoldings, SeeNowhere, Finish
    <3>2. tracked' \subseteq tracked
      BY <1>10 DEF SeeComplete, SeeRefused, SeeOpen, SeeInHoldings, SeeNowhere, Finish
    <3>3. mon'.todo = mon.todo \/ mon'.todo = mon.todo \ {b}
      BY <1>0, <3>1 DEF MonType
    <3> QED
      BY <3>2, <3>3
  <2>3. InReport(b)
    BY <1>0, <2>1 DEF Checking, InReport
  <2> QED
    BY <2>1, <2>2, <2>3
<1>11. ASSUME NEW b \in Buys, SeeComplete(b) PROVE Goal
  <2>1. book[b].st = "complete" /\ book[b].on = day
    BY <1>11 DEF SeeComplete, InReport
  <2>2. CASE AlreadyExecuted(b)
    BY <1>1, <1>10, <1>11, <2>2 DEF SeeComplete, Checking
  <2>3. CASE ~AlreadyExecuted(b)
    <3>1. row'[b] = [st |-> "closed", qty |-> row[b].qty + book[b].filled, on |-> day]
          /\ \A c \in Buys \ {b} : row'[c] = row[c]
      BY <1>11, <2>3 DEF SeeComplete, Executed, FieldsOK
    <3>2. row[b].qty = 0 /\ book[b].filled \in Nat
      BY <1>0, <2>3 DEF Agrees, AlreadyExecuted, FieldsOK, BookType
    <3>3. Agrees(b)'
      BY <1>10, <1>11, <2>1, <3>1, <3>2 DEF Agrees
    <3> QED
      BY <1>9, <1>10, <1>11, <3>1, <3>3
  <2> QED
    BY <2>2, <2>3
<1>12. ASSUME NEW b \in Buys, SeeRefused(b) PROVE Goal
  <2>1. row[b].st # "closed"
    BY <1>0, <1>12 DEF SeeRefused, Agrees
  <2>2. row'[b].st \in {"failed", "cancelled"} /\ row'[b].qty = row[b].qty /\ \A c \in Buys \ {b} : row'[c] = row[c]
    BY <1>12 DEF SeeRefused, RefusedStatus, FieldsOK, RowType
  <2>3. Agrees(b)'
    BY <1>0, <2>1, <2>2 DEF Agrees
  <2> QED
    BY <1>9, <1>10, <1>12, <2>2, <2>3
<1>13. ASSUME NEW b \in Buys, SeeOpen(b) PROVE Goal
  BY <1>1, <1>10, <1>13 DEF SeeOpen, Checking
<1>14. ASSUME NEW b \in Buys PROVE ~SeeInHoldings(b) /\ ~SeeNowhere(b)
  BY <1>10 DEF SeeInHoldings, SeeNowhere
<1>15. ASSUME NEW b \in Buys, Backfill(b) PROVE Goal
  <2>1. mon'.pc = "backfill"
    BY <1>0, <1>15 DEF Backfill, MonType
  <2> QED
    BY <1>1, <1>15, <2>1 DEF Backfill
\* the broker
<1>16. CASE OpenMarket
  <2>1. UNCHANGED <<book, row, day, mon>> /\ tracked' \subseteq tracked \cup Pending /\ phase' = "open"
    BY <1>16 DEF OpenMarket
  <2> QED
    BY <1>0, <2>1 DEF Agrees, Pending
<1>17. CASE CloseMarket
  <2>1. UNCHANGED <<book, row, day, mon, tracked>> /\ phase' = "closed"
    BY <1>17 DEF CloseMarket
  <2>2. \A b \in Buys : book[b].st # "open"
    BY <1>0, <1>17 DEF CloseMarket
  <2>3. \A b \in Pending \cup tracked : book[b].st = "open"
    BY <1>0, <1>17 DEF CloseMarket
  <2>4. Pending \cup tracked = {}
    BY <2>2, <2>3 DEF FieldsOK, Pending
  <2> QED
    BY <1>0, <2>1, <2>4 DEF Agrees, Pending
<1>18. CASE NextDay
  <2>1. Pending \cup tracked = {} /\ mon.pc # "check"
    BY <1>0, <1>18 DEF NextDay
  <2>2. UNCHANGED <<book, row, mon, tracked>> /\ phase' = "pre"
    BY <1>18 DEF NextDay
  <2> QED
    BY <1>0, <2>1, <2>2 DEF Agrees, Pending
<1>19. ASSUME UNCHANGED <<row, day, phase, tracked, mon>>,
              \A b \in Buys : /\ book'[b] = book[b] \/ book[b].st = "open"
                              /\ book'[b].on = book[b].on
       PROVE  Goal
  <2>1. \A b \in Buys : Agrees(b)'
    BY <1>6, <1>7, <1>19
  <2>2. tracked \subseteq Buys /\ Pending \subseteq Buys /\ mon.todo \subseteq Buys /\ Pending' = Pending
    BY <1>0, <1>19 DEF FieldsOK, Pending, MonType
  <2> QED
    BY <1>0, <1>19, <2>1, <2>2
<1>20. CASE Lapse
  BY <1>19, <1>20 DEF Lapse, FieldsOK, BookType
<1>21. ASSUME NEW b \in Buys, Fill(b) \/ Reject(b) PROVE Goal
  <2>1. \A c \in Buys : (book'[c] = book[c] \/ book[c].st = "open") /\ book'[c].on = book[c].on
    BY <1>21 DEF Fill, Reject, FieldsOK, BookType
  <2> QED
    BY <1>19, <1>21, <2>1 DEF Fill, Reject
<1>22. ASSUME NEW b \in Buys, BrokerCancel(b) PROVE Goal
  <2>1. PICK n \in Nat : book' = [book EXCEPT ![b].st = "cancelled", ![b].filled = n]
    <3>1. PICK n \in 0 .. (Qty[b] - 1) : book' = [book EXCEPT ![b].st = "cancelled", ![b].filled = n]
      BY <1>22 DEF BrokerCancel
    <3>2. n \in Nat
      BY QtyAssumption
    <3> QED
      BY <3>1, <3>2
  <2>2. \A c \in Buys : (book'[c] = book[c] \/ book[c].st = "open") /\ book'[c].on = book[c].on
    BY <1>22, <2>1 DEF BrokerCancel, FieldsOK, BookType
  <2> QED
    BY <1>19, <1>22, <2>2 DEF BrokerCancel
<1>23. CASE SellFill \/ MorningReconcile \/ Heartbeat
  BY <1>1, <1>23 DEF SellFill, MorningReconcile, Heartbeat
\* the process
<1>24. CASE EodCleanup
  <2>1. UNCHANGED <<tracked, day, mon>> /\ phase = "closed" /\ mon.pc = "idle"
    BY <1>24 DEF EodCleanup
  <2>2. ASSUME NEW b \in Buys PROVE Agrees(b)'
    <3>1. row'[b] = row[b] \/ (row'[b].st # "closed" /\ row'[b].qty = row[b].qty /\ row[b].st # "closed")
      BY <1>24 DEF EodCleanup, Swept, FieldsOK, RowType
    <3>2. book'[b] = book[b] \/ book[b].st = "open"
      BY <1>24 DEF EodCleanup
    <3> QED
      BY <1>6, <1>7, <3>1, <3>2
  <2>3. Pending' \subseteq Pending
    BY <1>24 DEF EodCleanup, Pending, FieldsOK, RowType
  <2> QED
    BY <1>0, <2>1, <2>2, <2>3
<1>25. CASE Crash \/ Stop \/ Start
  <2>1. UNCHANGED <<book, row, day, phase>> /\ tracked' \subseteq Pending
    BY <1>25 DEF Crash, Stop, Start, Vanish
  <2>2. mon'.pc # "check"
    BY <1>25 DEF Crash, Stop, Start, Vanish, IdleMonitor
  <2> QED
    BY <1>1, <2>1, <2>2
<1>26. ASSUME NEW b \in Buys, PlaceInitial(b) \/ PlaceReentry(b) PROVE Goal
  <2>1. phase = "pre" /\ UNCHANGED <<phase, tracked, mon, day>> /\ Place(b) /\ mon.pc = "idle"
    BY <1>26 DEF PlaceInitial, PlaceReentry
  <2>2. /\ book'[b].on = day /\ row'[b].st = "pending" /\ row'[b].qty = row[b].qty
        /\ \A c \in Buys \ {b} : book'[c] = book[c] /\ row'[c] = row[c]
    BY <2>1 DEF Place, FieldsOK, RowType
  <2>3. row[b].st # "closed"
    BY <1>0, <2>1 DEF Place, OrderKnown
  <2>4. \A c \in Buys : Agrees(c)'
    BY <1>0, <2>2, <2>3 DEF Agrees
  <2>5. \A c \in Pending' \cup tracked' : book'[c].on = day'
    BY <1>0, <2>1, <2>2 DEF Pending, FieldsOK
  <2> QED
    BY <1>0, <2>1, <2>4, <2>5
<1> QED
  BY <1>2, <1>3, <1>4, <1>5, <1>8, <1>11, <1>12, <1>13, <1>14, <1>15, <1>16, <1>17, <1>18, <1>20, <1>21,
     <1>22, <1>23, <1>24, <1>25, <1>26 DEF Cycle, Broker, Process

-----------------------------------------------------------------------------
(* What the tables promise *)

\* The inductive invariant behind the theorems that follow.
BuyInv == /\ ExecutionFirst /\ TablesAgree /\ Working
          /\ BoughtToday /\ ListedToday
          /\ Tracking /\ Answers /\ Attended /\ Reported

\* It holds at the start of the first day.
LEMMA BuyInvStarts == Init => BuyInv
<1> SUFFICES ASSUME Init PROVE BuyInv
  OBVIOUS
<1>1. /\ mon.pc = "idle" /\ mon.leg = NoLeg /\ mon.todo = {} /\ ~pos.open
      /\ tracked = {} /\ phase = "pre" /\ sold.watch = "none"
      /\ \A b \in Buys : /\ row[b] = [st |-> "none", qty |-> 0, on |-> 0]
                         /\ book[b] = [st |-> "none", filled |-> 0, on |-> 0]
                         /\ mark[b] = 0 /\ saved[b] = 0
      /\ day = 1
  BY DEF Init, IdleMonitor, NoPosition
<1>2. ExecutionFirst
  BY <1>1 DEF ExecutionFirst, RowsFirst, MonitorFirst, ExecutedBeforePosition
<1>3. TablesAgree /\ Working
  BY <1>1 DEF TablesAgree, OrderKnown, OnBook, Working
<1>4. BoughtToday /\ ListedToday
  BY <1>1 DEF BoughtToday, ListedToday
<1>5. Tracking /\ Answers
  BY <1>1 DEF Tracking, Up, Answers, Executes, Marked
<1>6. Attended /\ Reported
  BY <1>1 DEF Attended, Reported, Agrees, Pending
<1> QED
  BY <1>2, <1>3, <1>4, <1>5, <1>6 DEF BuyInv

\* It holds after every step.
LEMMA BuyInvStays ==
    ASSUME FieldsOK, FieldsOK', BuyInv, ExecutionFirst', [Next]_vars
    PROVE  BuyInv'
<1>1. CASE UNCHANGED vars
  <2>1. UNCHANGED <<day, phase, book, held, settled, sold, row, saved, pos, mark, mon, tracked, done, exposed>>
    BY <1>1 DEF vars, market, durable, memory
  <2>2. TablesAgree' /\ Working' /\ BoughtToday' /\ ListedToday'
    BY <2>1 DEF BuyInv, TablesAgree, OrderKnown, OnBook, Working, BoughtToday, ListedToday
  <2>3. Tracking' /\ Answers'
    BY <2>1 DEF BuyInv, Tracking, Up, NeverRestarted, Answers, Executes, Marked
  <2>4. Attended' /\ Reported'
    BY <2>1 DEF BuyInv, Attended, NeverRestarted, Reported, ReportsComplete, Agrees, Pending
  <2> QED
    BY <2>2, <2>3, <2>4 DEF BuyInv
<1>2. CASE Next
  <2>1. UNCHANGED exposed /\ (Cycle \/ Broker \/ Process) /\ RowsFirst
    BY <1>2 DEF Next, BuyInv, ExecutionFirst
  <2>2. TablesAgree' /\ Working'
    BY <2>1, KeepsTables, KeepsWorking DEF BuyInv
  <2>3. BoughtToday' /\ ListedToday'
    BY <2>1, CycleToday, OtherToday DEF BuyInv
  <2>4. Tracking' /\ Answers'
    BY <2>1, KeepsTracking, KeepsAnswers DEF BuyInv
  <2>5. Attended' /\ Reported'
    BY <2>1, KeepsAttended, KeepsReported DEF BuyInv
  <2> QED
    BY <2>2, <2>3, <2>4, <2>5 DEF BuyInv
<1> QED
  BY <1>1, <1>2

\* Every reachable state satisfies it.
LEMMA BuyInvHolds == Spec => [](FieldsOK /\ BuyInv)
<1>1. TypeOK => FieldsOK
  BY DEF TypeOK
<1>2. FieldsOK /\ FieldsOK' /\ BuyInv /\ ExecutionFirst' /\ [Next]_vars => BuyInv'
  BY BuyInvStays
<1> QED
  BY <1>1, <1>2, BuyInvStarts, TypeCorrect, ExecutionIsFirst, PTL DEF Spec

\* An executed row stays executed while the reports answer, and the monitor
\* takes a sale off the position once while the process is not restarted.
THEOREM RecordingCorrect == Spec => RecordedOnce
<1>1. /\ FieldsOK /\ BuyInv /\ [Next]_vars
      => [/\ "outage" \notin exposed => ExecutionStays
          /\ NeverRestarted => SaleTakenOff]_vars
  <2> SUFFICES ASSUME FieldsOK, BuyInv, Next
               PROVE  /\ "outage" \notin exposed => ExecutionStays
                      /\ NeverRestarted => SaleTakenOff
    OBVIOUS
  <2>1. Cycle \/ Broker \/ Process
    BY DEF Next
  <2>2. "outage" \notin exposed => ExecutionStays
    BY <2>1, ExecutedStays DEF BuyInv
  <2>3. NeverRestarted => SaleTakenOff
    BY <2>1, SaleOnce DEF BuyInv
  <2> QED
    BY <2>2, <2>3
<1> QED
  BY <1>1, BuyInvHolds, PTL DEF Spec, RecordedOnce

\* Whatever goes wrong, a buy executed today has an open position after the
\* cycle, unless shares were sold today.
THEOREM NewBuyCorrect == Spec => []NewBuyHasPosition
<1>1. FieldsOK /\ BuyInv => NewBuyHasPosition
  BY DEF BuyInv, ListedToday, NewBuyHasPosition
<1> QED
  BY <1>1, BuyInvHolds, PTL

\* The orders table says what the broker executed: fills are counted once while
\* the reports are complete, a cancelled row bought nothing while the process
\* stays up, and a durable marker stands for an execution while the report
\* answers.
THEOREM OrdersCorrect == Spec => []OrdersFaithful
<1>1. FieldsOK /\ BuyInv => OrdersFaithful
  <2> SUFFICES ASSUME FieldsOK, BuyInv PROVE OrdersFaithful
    OBVIOUS
  <2>1. ReportsComplete => ExecutionFaithful
    BY DEF BuyInv, Reported, Agrees, ExecutionFaithful
  <2>2. NeverRestarted /\ "partial" \notin exposed => CancelledUnfilled
    <3> SUFFICES ASSUME NeverRestarted, "partial" \notin exposed,
                        NEW b \in Buys \ tracked, row[b].st = "cancelled"
                 PROVE  book[b].filled = 0
      BY DEF CancelledUnfilled
    <3>1. book[b].filled \in Nat /\ ~(book[b].filled > 0)
      BY DEF BuyInv, Attended, FieldsOK, BookType
    <3> QED
      BY <3>1
  <2>3. "outage" \notin exposed => MarkerHasExecution
    BY DEF BuyInv, Answers, Marked, Executes, MarkerHasExecution
  <2> QED
    BY <2>1, <2>2, <2>3 DEF OrdersFaithful
<1> QED
  BY <1>1, BuyInvHolds, PTL

-----------------------------------------------------------------------------
(* Totals: what a sum over a finite set of orders does when the set grows or *)
(* a value changes                                                           *)

\* A set of subsets of a finite set has a smallest one: what induction over data rests on.
LEMMA MinimalSet ==
    ASSUME NEW S, IsFiniteSet(S), NEW B \in SUBSET SUBSET S, B # {}
    PROVE  \E T \in B : \A U \in B : U \subseteq T => U = T
<1>1. IsWellFoundedOn(StrictSubsetOrdering(S), SUBSET S)
  BY FS_StrictSubsetOrderingWellFounded, FS_FiniteSubsetsOfFinite
<1>2. \E T \in B : \A U \in B : <<U, T>> \notin StrictSubsetOrdering(S)
  BY <1>1, WFMin
<1>. QED  BY <1>2 DEF StrictSubsetOrdering

\* Induction over the natural numbers, with the numbers in question as a set.
LEMMA AllNumbers ==
    ASSUME NEW N, 0 \in N, \A n \in Nat : n \in N => n + 1 \in N
    PROVE  Nat \subseteq N
<1>. SUFFICES ASSUME Nat \ N # {} PROVE FALSE
  OBVIOUS
<1>1. \E m \in Nat \ N : \A n \in Nat \ N : <<n, m>> \notin OpToRel(<, Nat)
  BY NatLessThanWellFounded, WFMin
<1>2. PICK m \in Nat \ N : \A n \in Nat \ N : ~(n < m)
  BY <1>1 DEF OpToRel
<1>3. m # 0 /\ m - 1 \in Nat /\ m - 1 < m
  BY <1>2
<1>4. m - 1 \in N
  BY <1>2, <1>3
<1>. QED  BY <1>2, <1>3, <1>4

\* The recursion behind a total: the table g of the sums of all subsets.
First(s) == CHOOSE x \in s : TRUE
Sum(q, g, s) == IF s = {} THEN 0 ELSE q[First(s)] + g[s \ {First(s)}]
Sums(q, S, g) == g = [s \in SUBSET S |-> Sum(q, g, s)]

\* The subsets of a finite set have such a table: by induction on their size.
LEMMA SumExists ==
    ASSUME NEW S, IsFiniteSet(S), NEW q
    PROVE  \E g : g = [s \in SUBSET S |-> Sum(q, g, s)]
<1>. DEFINE Level(n) == {s \in SUBSET S : Cardinality(s) <= n}
           N == {n \in Nat : \E g : g = [s \in Level(n) |-> Sum(q, g, s)]}
<1>0. \A s \in SUBSET S : IsFiniteSet(s) /\ Cardinality(s) \in Nat /\ Cardinality(s) <= Cardinality(S)
  BY FS_Subset, FS_CardinalityType
<1>1. 0 \in N
  <2>. DEFINE g == [s \in Level(0) |-> 0]
  <2>1. Level(0) = {{}}
    BY <1>0, FS_EmptySet
  <2>2. g = [s \in Level(0) |-> Sum(q, g, s)]
    BY <2>1 DEF Sum
  <2>. QED  BY <2>2
<1>2. ASSUME NEW n \in Nat, n \in N
      PROVE  n + 1 \in N
  <2>1. PICK g : g = [s \in Level(n) |-> Sum(q, g, s)]
    BY <1>2
  <2>. DEFINE h == [s \in Level(n + 1) |-> Sum(q, g, s)]
  <2>2. ASSUME NEW s \in Level(n + 1), s # {}
        PROVE  s \ {First(s)} \in Level(n)
    <3>1. First(s) \in s
      BY <2>2 DEF First
    <3>2. Cardinality(s \ {First(s)}) = Cardinality(s) - 1
      BY <3>1, <1>0, FS_RemoveElement
    <3>. QED  BY <3>2, <1>0
  <2>3. \A s \in Level(n) : s \in Level(n + 1)
    BY <1>0
  <2>4. \A s \in Level(n) : h[s] = g[s]
    BY <2>1, <2>3
  <2>5. \A s \in Level(n + 1) : Sum(q, g, s) = Sum(q, h, s)
    BY <2>2, <2>4 DEF Sum
  <2>6. h = [s \in Level(n + 1) |-> Sum(q, h, s)]
    BY <2>5
  <2>. HIDE DEF h
  <2>7. \E f : f = [s \in Level(n + 1) |-> Sum(q, f, s)]
    BY <2>6
  <2>. QED  BY <2>7
<1>3. Cardinality(S) \in N
  BY <1>1, <1>2, AllNumbers, FS_CardinalityType
<1>4. Level(Cardinality(S)) = SUBSET S
  BY <1>0
<1>. QED  BY <1>3, <1>4

\* A total is read from that table.
LEMMA SumDef ==
    ASSUME NEW S, IsFiniteSet(S), NEW q
    PROVE  \E g : Sums(q, S, g) /\ Total(q, S) = g[S]
<1>. DEFINE g == CHOOSE g : g = [s \in SUBSET S |-> Sum(q, g, s)]
<1>1. g = [s \in SUBSET S |-> Sum(q, g, s)]
  BY SumExists
<1>2. Total(q, S) = g[S]
  BY DEF Total, MapThenSumSet, MapThenFoldSet, Sum, First
<1>. HIDE DEF g
<1>. QED  BY <1>1, <1>2 DEF Sums

\* Tables of two sets agree on what both have.
LEMMA SumUnique ==
    ASSUME NEW S, IsFiniteSet(S), NEW T \in SUBSET S, NEW q, NEW g, NEW h,
           Sums(q, S, g), Sums(q, T, h)
    PROVE  \A s \in SUBSET T : g[s] = h[s]
<1>. DEFINE B == {s \in SUBSET T : g[s] # h[s]}
<1>. SUFFICES ASSUME B # {} PROVE FALSE
  OBVIOUS
<1>1. IsFiniteSet(T)
  BY FS_Subset
<1>8. B \in SUBSET SUBSET T
  OBVIOUS
<1>2. PICK s \in B : \A u \in B : u \subseteq s => u = s
  <2>. HIDE DEF B
  <2>. QED  BY <1>1, <1>8, MinimalSet
<1>3. g[s] = Sum(q, g, s) /\ h[s] = Sum(q, h, s)
  <2>1. s \in SUBSET S /\ s \in SUBSET T
    BY <1>2
  <2>. QED  BY <2>1 DEF Sums
<1>4. s # {}
  BY <1>2, <1>3 DEF Sum
<1>5. First(s) \in s
  BY <1>4 DEF First
<1>6. s \ {First(s)} \in SUBSET T /\ s \ {First(s)} \notin B
  BY <1>2, <1>5
<1>7. g[s \ {First(s)}] = h[s \ {First(s)}]
  BY <1>6
<1>. QED  BY <1>2, <1>3, <1>7 DEF Sum

\* Nothing adds up to nothing.
LEMMA TotalEmpty ==
    ASSUME NEW q
    PROVE  Total(q, {}) = 0
<1>1. PICK g : Sums(q, {}, g) /\ Total(q, {}) = g[{}]
  BY SumDef, FS_EmptySet
<1>. QED  BY <1>1 DEF Sums, Sum

\* A total is the element chosen first and the total of the others.
LEMMA TotalFirst ==
    ASSUME NEW S, IsFiniteSet(S), S # {}, NEW q
    PROVE  First(S) \in S /\ Total(q, S) = q[First(S)] + Total(q, S \ {First(S)})
<1>0. First(S) \in S
  BY DEF First
<1>1. IsFiniteSet(S \ {First(S)})
  BY FS_RemoveElement
<1>. DEFINE T == S \ {First(S)}
<1>2. PICK g : Sums(q, S, g) /\ Total(q, S) = g[S]
  BY SumDef
<1>3. PICK h : Sums(q, T, h) /\ Total(q, T) = h[T]
  BY <1>1, SumDef
<1>4. g[T] = h[T]
  <2>1. T \in SUBSET S /\ T \in SUBSET T
    OBVIOUS
  <2>. HIDE DEF T
  <2>. QED  BY <1>2, <1>3, <2>1, SumUnique
<1>5. g[S] = q[First(S)] + g[T]
  BY <1>2 DEF Sums, Sum
<1>. QED  BY <1>0, <1>2, <1>3, <1>4, <1>5

\* Natural numbers add up to a natural number.
LEMMA TotalType ==
    ASSUME NEW S, IsFiniteSet(S), NEW q, \A x \in S : q[x] \in Nat
    PROVE  Total(q, S) \in Nat
<1>. DEFINE B == {s \in SUBSET S : Total(q, s) \notin Nat}
<1>. SUFFICES ASSUME B # {} PROVE FALSE
  OBVIOUS
<1>1. B \in SUBSET SUBSET S
  OBVIOUS
<1>2. PICK s \in B : \A u \in B : u \subseteq s => u = s
  <2>. HIDE DEF B
  <2>. QED  BY <1>1, MinimalSet
<1>3. s # {} /\ IsFiniteSet(s)
  <2>1. Total(q, {}) = 0
    BY TotalEmpty
  <2>2. Total(q, s) \notin Nat
    BY <1>2
  <2>. HIDE DEF B
  <2>3. s # {}
    BY <2>1, <2>2
  <2>4. s \in SUBSET S
    BY <1>1, <1>2
  <2>. QED  BY <2>3, <2>4, FS_Subset
<1>4. First(s) \in s /\ Total(q, s) = q[First(s)] + Total(q, s \ {First(s)})
  BY <1>3, TotalFirst
<1>5. Total(q, s \ {First(s)}) \in Nat
  BY <1>2, <1>4
<1>6. q[First(s)] \in Nat
  BY <1>4
<1>. QED  BY <1>2, <1>4, <1>5, <1>6

\* Any element may be the one that is taken out.
LEMMA TotalPick ==
    ASSUME NEW S, IsFiniteSet(S), NEW q, \A x \in S : q[x] \in Nat, NEW x \in S
    PROVE  Total(q, S) = q[x] + Total(q, S \ {x})
<1>. DEFINE Good(s) == \A y \in s : Total(q, s) = q[y] + Total(q, s \ {y})
           B == {s \in SUBSET S : ~Good(s)}
<1>. SUFFICES ASSUME B # {} PROVE FALSE
  OBVIOUS
<1>0. B \in SUBSET SUBSET S
  OBVIOUS
<1>1. PICK s \in B : \A u \in B : u \subseteq s => u = s
  <2>. HIDE DEF B
  <2>. QED  BY <1>0, MinimalSet
<1>2. PICK y \in s : Total(q, s) # q[y] + Total(q, s \ {y})
  BY <1>1
<1>. DEFINE c == First(s)
<1>3. IsFiniteSet(s) /\ s # {} /\ \A u \in SUBSET s : IsFiniteSet(u) /\ Total(q, u) \in Nat
  BY <1>2, FS_Subset, TotalType
<1>4. c \in s /\ Total(q, s) = q[c] + Total(q, s \ {c})
  BY <1>3, TotalFirst
<1>5. y # c
  BY <1>2, <1>4
<1>6. Good(s \ {c}) /\ Good(s \ {y})
  BY <1>1, <1>2, <1>4
<1>7. Total(q, s \ {c}) = q[y] + Total(q, (s \ {c}) \ {y})
  BY <1>5, <1>6
<1>8. Total(q, s \ {y}) = q[c] + Total(q, (s \ {y}) \ {c})
  BY <1>4, <1>5, <1>6
<1>9. (s \ {c}) \ {y} = (s \ {y}) \ {c}
  OBVIOUS
<1>10. q[c] \in Nat /\ q[y] \in Nat /\ Total(q, (s \ {y}) \ {c}) \in Nat
  BY <1>3, <1>4
<1>11. Total(q, s \ {c}) = q[y] + Total(q, (s \ {y}) \ {c})
  BY <1>7, <1>9
<1>. HIDE DEF B, c
<1>. QED  BY <1>2, <1>4, <1>8, <1>10, <1>11

\* Fewer and smaller values do not add up to more.
LEMMA TotalAtMost ==
    ASSUME NEW T, IsFiniteSet(T), NEW S \in SUBSET T, NEW q, NEW r,
           \A x \in T : r[x] \in Nat, \A x \in S : q[x] \in Nat /\ q[x] <= r[x]
    PROVE  Total(q, S) <= Total(r, T)
<1>. DEFINE B == {s \in SUBSET T : ~(Total(q, s \cap S) <= Total(r, s))}
<1>. SUFFICES ASSUME B # {} PROVE FALSE
  <2>1. T \in SUBSET T /\ T \cap S = S
    OBVIOUS
  <2>. QED  BY <2>1
<1>0. B \in SUBSET SUBSET T
  OBVIOUS
<1>1. PICK s \in B : \A u \in B : u \subseteq s => u = s
  <2>. HIDE DEF B
  <2>. QED  BY <1>0, MinimalSet
<1>2. IsFiniteSet(s) /\ IsFiniteSet(s \cap S)
  BY FS_Subset
<1>11. ~(Total(q, s \cap S) <= Total(r, s))
  BY <1>1
<1>3. s # {}
  <2>. SUFFICES ASSUME s = {} PROVE FALSE
    OBVIOUS
  <2>1. Total(q, {}) = 0 /\ Total(r, {}) = 0
    BY TotalEmpty
  <2>2. Total(q, s \cap S) = Total(q, {}) /\ Total(r, s) = Total(r, {})
    <3>1. s \cap S = {}
      OBVIOUS
    <3>. QED  BY <3>1
  <2>. HIDE DEF B
  <2>. QED  BY <1>11, <2>1, <2>2
<1>10. PICK x \in s : TRUE
  BY <1>3
<1>4. Total(r, s) = r[x] + Total(r, s \ {x})
  BY <1>2, TotalPick
<1>5. Total(q, (s \ {x}) \cap S) <= Total(r, s \ {x})
  BY <1>1
<1>6. IsFiniteSet(s \ {x}) /\ IsFiniteSet((s \ {x}) \cap S)
  BY <1>2, FS_Subset, FS_RemoveElement
<1>7. Total(r, s \ {x}) \in Nat /\ Total(q, (s \ {x}) \cap S) \in Nat /\ r[x] \in Nat
  BY <1>6, TotalType
<1>8. CASE x \in S
  <2>1. Total(q, s \cap S) = q[x] + Total(q, (s \cap S) \ {x})
    BY <1>2, <1>8, TotalPick
  <2>2. (s \cap S) \ {x} = (s \ {x}) \cap S
    OBVIOUS
  <2>3. q[x] \in Nat /\ q[x] <= r[x]
    BY <1>8
  <2>4. Total(q, s \cap S) = q[x] + Total(q, (s \ {x}) \cap S)
    BY <2>1, <2>2
  <2>. HIDE DEF B
  <2>. QED  BY <1>11, <1>4, <1>5, <1>7, <2>3, <2>4
<1>9. CASE x \notin S
  <2>1. (s \ {x}) \cap S = s \cap S
    BY <1>9
  <2>2. Total(q, (s \ {x}) \cap S) = Total(q, s \cap S)
    BY <2>1
  <2>. HIDE DEF B
  <2>. QED  BY <1>11, <1>4, <1>5, <1>7, <2>2
<1>. QED  BY <1>8, <1>9

\* Equal values have equal totals.
LEMMA TotalSame ==
    ASSUME NEW S, IsFiniteSet(S), NEW q, NEW r, \A x \in S : q[x] \in Nat /\ q[x] = r[x]
    PROVE  Total(q, S) = Total(r, S)
<1>1. Total(q, S) <= Total(r, S) /\ Total(r, S) <= Total(q, S)
  BY TotalAtMost
<1>2. Total(q, S) \in Nat /\ Total(r, S) \in Nat
  BY TotalType
<1>. QED  BY <1>1, <1>2

-----------------------------------------------------------------------------
(* The position while nothing disturbs the process *)

\* A fill no marker stands for yet.
Late(b) == book[b].filled > 0 /\ mark[b] = 0

\* One order a day, and before the market opens it waits.
OrderOfDay ==
    /\ \A b, c \in OnBook : book[b].on = book[c].on => b = c
    /\ \A b \in Buys : /\ book[b].st = "open" => book[b].on = day
                       /\ row[b].st = "failed" => book[b].st = "rejected"
    /\ phase = "pre" => /\ \A b \in OnBook : book[b].on = day => row[b].st = "pending"
                        /\ held = settled /\ sold.today = 0 /\ mon.pc = "idle"

\* Executed rows are marked with their quantity and processed, but the one being applied.
MarksOfRows ==
    /\ \A b \in done : Executes(b) /\ mark[b] # 0
    /\ \A b \in Buys : IF Executes(b)
                       THEN \/ b \in done /\ mark[b] = row[b].qty
                            \/ b = mon.leg /\ mark[b] = 0
                       ELSE mark[b] = 0
    /\ mon.leg # NoLeg => /\ mon.qty = row[mon.leg].qty /\ mon.report
                          /\ mark[mon.leg] = 0 /\ book[mon.leg].on = day
    /\ \A b \in Buys : Late(b) => book[b].on = day /\ phase = "open"

\* The position is the sum of the markers of its cycle.
MarkedTotal ==
    pos.open => /\ pos.qty = Total(mark, ClosedSince(pos.since))
                /\ \A b \in pos.legs : mark[b] # 0
                /\ \E b \in Buys : Executes(b) /\ mark[b] # 0 /\ row[b].on = pos.since

\* The account has what the position shows but for a sale it still counts and a fill it
\* does not count yet; without a position, nothing or what the last order bought.
Balance(x) == held + sold.owed = pos.qty + x
Account ==
    /\ pos.open => /\ \A b \in Buys : Late(b) => Balance(book[b].filled)
                   /\ (\A b \in Buys : ~Late(b)) => Balance(0)
    /\ ~pos.open => \/ held = 0 /\ \A b \in Buys : ~Late(b)
                    \/ \E n \in Buys : /\ book[n].filled > 0 /\ held = book[n].filled
                                       /\ \A b \in OnBook : book[b].on <= book[n].on
                                       /\ \A b \in Buys : Late(b) => b = n

\* A sale was for the whole position; what came later is of the order of the day.
SaleOfDay ==
    /\ sold.watch # "tracked" => sold.owed = 0
    /\ sold.today = 0 \/ phase # "open" => sold.watch # "tracked"
    /\ sold.watch = "tracked" =>
        /\ pos.open
        /\ \/ pos.qty = sold.owed
           \/ \E t \in Buys : book[t].on = day /\ mark[t] # 0 /\ pos.qty = sold.owed + book[t].filled

\* Without a position and a sale, an order of the day is the first, and the backfill has
\* every executed row of its window on its list.
Entering ==
    /\ ~pos.open /\ sold.today = 0 =>
        /\ \A b \in OnBook : book[b].on = day => \A c \in Buys : Executes(c) => c = b
        /\ mon.pc = "backfill" /\ held > 0 => ClosedSince(day - Lookback) \subseteq mon.todo
    /\ mon.pc = "backfill" => \A b \in mon.todo : row[b].on >= day - Lookback

CalmInv == /\ OrderOfDay /\ MarksOfRows /\ MarkedTotal
           /\ Account /\ SaleOfDay /\ Entering

\* What the other invariants say of an undisturbed process.
LEMMA CalmFacts ==
    ASSUME FieldsOK, BuyInv, Undisturbed
    PROVE  /\ Up /\ \A kind : ~FaultAllowed(kind)
           /\ mon.pc \in {"check", "backfill"} => mon.api = {"orders", "holdings"}
           /\ mon.leg # NoLeg => mon.pc = "check"
           /\ mon.pc \in {"check", "backfill", "cancel"} => phase = "open"
           /\ pos.open => pos.qty > 0
           /\ sold.watch # "unknown"
           /\ \A b \in Buys :
                /\ Executes(b) => /\ book[b].st = "complete" /\ book[b].filled > 0
                                  /\ row[b].qty = book[b].filled /\ row[b].on = book[b].on
                                  /\ b \in OnBook
                /\ ~Executes(b) => row[b].qty = 0
                /\ book[b].filled > 0 => book[b].st = "complete"
                /\ book[b].st = "none" <=> row[b].st = "none"
                /\ book[b].on <= day /\ row[b].on <= day
           /\ phase # "pre" => Pending \subseteq tracked
           /\ \A b \in Buys : row[b].st = "cancelled" /\ book[b].filled > 0 => b \in tracked
           /\ mon.pc = "check" => \A b \in mon.todo : book[b].on = day
           /\ mon.pc = "backfill" => \A b \in mon.todo : Executes(b)
<1>1. /\ NeverRestarted /\ ReportsComplete /\ "outage" \notin exposed /\ "partial" \notin exposed
      /\ \A kind : ~FaultAllowed(kind)
  BY DEF Undisturbed, NeverRestarted, ReportsComplete, FaultAllowed
<1>2. /\ \A b \in Buys : Agrees(b)
      /\ mon.pc = "check" => \A b \in mon.todo : book[b].on = day
  BY <1>1 DEF BuyInv, Reported
<1>3. Up /\ sold.watch # "unknown"
  BY <1>1 DEF BuyInv, Tracking
<1>4. /\ mon.pc \in {"check", "backfill"} => mon.api = {"orders", "holdings"}
      /\ mon.pc = "backfill" => \A b \in mon.todo : Executes(b)
  BY <1>1 DEF BuyInv, Answers
<1>5. /\ phase # "pre" => Pending \subseteq tracked
      /\ \A b \in Buys :
            /\ row[b].st = "cancelled" => (book[b].filled > 0 => b \in tracked)
            /\ book[b].st \in {"rejected", "cancelled"} => book[b].filled = 0
  BY <1>1 DEF BuyInv, Attended
<1>6. /\ pos.open => pos.qty > 0
      /\ mon.leg # NoLeg => mon.pc = "check"
      /\ mon.pc \in {"check", "backfill", "cancel"} => phase = "open"
  BY DEF BuyInv, Working
<1>7. ASSUME NEW b \in Buys
      PROVE  /\ Executes(b) => /\ book[b].st = "complete" /\ book[b].filled > 0
                               /\ row[b].qty = book[b].filled /\ row[b].on = book[b].on
                               /\ b \in OnBook
             /\ ~Executes(b) => row[b].qty = 0
             /\ book[b].filled > 0 => book[b].st = "complete"
             /\ book[b].st = "none" <=> row[b].st = "none"
             /\ book[b].on <= day /\ row[b].on <= day
  <2>1. Agrees(b) /\ OrderKnown(b) /\ book[b] \in BookType /\ row[b] \in RowType
    BY <1>2 DEF BuyInv, TablesAgree, FieldsOK
  <2>2. row[b].on <= day /\ (book[b].st = "complete" => book[b].filled > 0)
    BY DEF BuyInv, ExecutionFirst, RowsFirst
  <2>3. book[b].filled > 0 => book[b].st = "complete"
    BY <2>1, <1>5 DEF OrderKnown, BookType, BookStatus
  <2>. QED  BY <2>1, <2>2, <2>3 DEF Agrees, OrderKnown, Executes, OnBook
<1>. QED  BY <1>1, <1>2, <1>3, <1>4, <1>5, <1>6, <1>7

\* Before the market opens, position and account agree: there is nothing to reconcile.
LEMMA CalmReconcile ==
    ASSUME FieldsOK, BuyInv, Undisturbed, OrderOfDay, MarksOfRows, Account, SaleOfDay,
           phase = "pre", Reconcile
    PROVE  UNCHANGED <<pos, sold>>
<1>. SUFFICES ASSUME MayReconcile PROVE FALSE
  BY DEF Reconcile
<1>1. pos.open /\ pos.qty # BrokerQty
  BY DEF MayReconcile
<1>2. held = settled /\ sold.owed = 0
  BY DEF OrderOfDay, SaleOfDay
<1>3. held + sold.owed = pos.qty + 0
  BY <1>1 DEF MarksOfRows, Account, Balance
<1>4. held \in Nat /\ pos.qty \in Nat
  BY DEF FieldsOK, PosType
<1>5. BrokerQty = held
  BY <1>2, <1>4 DEF BrokerQty, Holdings, NetToday, Smaller, Larger
<1>. QED  BY <1>1, <1>2, <1>3, <1>4, <1>5

\* A step that moves no shares and writes no execution, marker or position.
Quiet ==
    /\ UNCHANGED <<day, held, settled, sold, pos, mark, done>>
    /\ \A b \in Buys : /\ book'[b].filled = book[b].filled /\ book'[b].on = book[b].on
                       /\ book'[b].st = "none" <=> book[b].st = "none"
                       /\ book'[b].st = "open" => book[b].st = "open"
                       /\ row'[b].st = "failed" => book'[b].st = "rejected"
                       /\ row'[b].on = row[b].on /\ row'[b].qty = row[b].qty
                       /\ Executes(b)' <=> Executes(b)
    /\ mon'.leg = mon.leg
    /\ mon.leg # NoLeg => mon'.qty = mon.qty /\ mon'.report = mon.report
    /\ mon'.pc = "backfill" => mon.pc = "backfill" /\ mon'.todo = mon.todo
    /\ phase' = "pre" => phase = "pre" /\ UNCHANGED row /\ mon'.pc = "idle"
    /\ phase' # "open" => \/ phase # "open"
                          \/ sold.watch # "tracked" /\ \A b \in Buys : ~Late(b)

\* A total over the same rows with the same markers is the same.
LEMMA TotalStays ==
    ASSUME FieldsOK, MarkedTotal, UNCHANGED <<pos, mark>>,
           \A b \in Buys : row'[b].on = row[b].on /\ (Executes(b)' <=> Executes(b))
    PROVE  MarkedTotal'
<1>. SUFFICES ASSUME pos'.open PROVE MarkedTotal'
  BY DEF MarkedTotal
<1>1. /\ pos.qty = Total(mark, ClosedSince(pos.since))
      /\ \A b \in pos.legs : mark[b] # 0
      /\ \E b \in Buys : Executes(b) /\ mark[b] # 0 /\ row[b].on = pos.since
  BY DEF MarkedTotal
<1>2. ClosedSince(pos.since)' = ClosedSince(pos.since)
  BY DEF ClosedSince, Executes
<1>3. pos'.qty = Total(mark, ClosedSince(pos.since))'
  BY <1>1, <1>2
<1>. QED  BY <1>1, <1>3 DEF MarkedTotal

\* Such a step keeps the invariant.
LEMMA QuietKeeps ==
    ASSUME FieldsOK, FieldsOK', BuyInv, Undisturbed, CalmInv, Quiet
    PROVE  CalmInv'
<1>. USE DEF Quiet
<1>0. /\ OnBook' = OnBook
      /\ \A b \in Buys : (Late(b)' <=> Late(b)) /\ (Executes(b)' <=> Executes(b))
  BY DEF OnBook, Late
<1>1. OrderOfDay'
  <2>1. \A b, c \in OnBook' : book'[b].on = book'[c].on => b = c
    BY <1>0 DEF CalmInv, OrderOfDay, OnBook
  <2>2. \A b \in Buys : /\ book'[b].st = "open" => book'[b].on = day'
                        /\ row'[b].st = "failed" => book'[b].st = "rejected"
    BY DEF CalmInv, OrderOfDay
  <2>3. phase' = "pre" => /\ \A b \in OnBook' : book'[b].on = day' => row'[b].st = "pending"
                         /\ held' = settled' /\ sold'.today = 0 /\ mon'.pc = "idle"
    BY <1>0 DEF CalmInv, OrderOfDay, OnBook
  <2>. QED  BY <2>1, <2>2, <2>3 DEF OrderOfDay
<1>2. MarksOfRows'
  <2>1. \A b \in done' : Executes(b)' /\ mark'[b] # 0
    BY DEF CalmInv, MarksOfRows, FieldsOK
  <2>2. ASSUME NEW b \in Buys
        PROVE  IF Executes(b)' THEN (b \in done' /\ mark'[b] = row'[b].qty) \/ (b = mon'.leg /\ mark'[b] = 0)
                               ELSE mark'[b] = 0
    BY DEF CalmInv, MarksOfRows
  <2>3. mon'.leg # NoLeg => /\ mon'.qty = row'[mon'.leg].qty /\ mon'.report
                            /\ mark'[mon'.leg] = 0 /\ book'[mon'.leg].on = day'
    BY DEF CalmInv, MarksOfRows, FieldsOK, MonType
  <2>4. \A b \in Buys : Late(b)' => book'[b].on = day' /\ phase' = "open"
    BY <1>0 DEF CalmInv, MarksOfRows
  <2>. QED  BY <2>1, <2>2, <2>3, <2>4 DEF MarksOfRows
<1>3. MarkedTotal'
  BY TotalStays DEF CalmInv
<1>4. Account'
  <2>. DEFINE Has(x) == held + sold.owed = pos.qty + x
  <2>1. \A x : Has(x)' <=> Has(x)
    OBVIOUS
  <2>2. pos.open => /\ \A b \in Buys : Late(b) => Has(book[b].filled)
                    /\ (\A b \in Buys : ~Late(b)) => Has(0)
    BY DEF CalmInv, Account, Balance
  <2>3. pos'.open => /\ \A b \in Buys : Late(b)' => Has(book[b].filled)'
                     /\ (\A b \in Buys : ~Late(b)') => Has(0)'
    BY <1>0, <2>1, <2>2
  <2>4. ~pos.open => \/ held = 0 /\ \A b \in Buys : ~Late(b)
                     \/ \E n \in Buys : /\ book[n].filled > 0 /\ held = book[n].filled
                                        /\ \A b \in OnBook : book[b].on <= book[n].on
                                        /\ \A b \in Buys : Late(b) => b = n
    BY DEF CalmInv, Account
  <2>5. ASSUME ~pos'.open
        PROVE  \/ held' = 0 /\ \A b \in Buys : ~Late(b)'
               \/ \E n \in Buys : /\ book'[n].filled > 0 /\ held' = book'[n].filled
                                  /\ \A b \in OnBook' : book'[b].on <= book'[n].on
                                  /\ \A b \in Buys : Late(b)' => b = n
    <3>1. CASE held = 0 /\ \A b \in Buys : ~Late(b)
      BY <1>0, <3>1
    <3>2. ASSUME NEW n \in Buys, book[n].filled > 0, held = book[n].filled,
                 \A b \in OnBook : book[b].on <= book[n].on, \A b \in Buys : Late(b) => b = n
          PROVE  /\ book'[n].filled > 0 /\ held' = book'[n].filled
                 /\ \A b \in OnBook' : book'[b].on <= book'[n].on
                 /\ \A b \in Buys : Late(b)' => b = n
      BY <1>0, <3>2 DEF OnBook
    <3>. QED  BY <2>4, <2>5, <3>1, <3>2
  <2>. QED  BY <2>3, <2>5 DEF Account, Balance
<1>5. SaleOfDay'
  BY DEF CalmInv, SaleOfDay
<1>6. Entering'
  <2>1. \A d : ClosedSince(d)' = ClosedSince(d)
    BY DEF ClosedSince, Executes
  <2>2. /\ ~pos.open /\ sold.today = 0 =>
              /\ \A b \in OnBook : book[b].on = day => \A c \in Buys : Executes(c) => c = b
              /\ mon.pc = "backfill" /\ held > 0 => ClosedSince(day - Lookback) \subseteq mon.todo
        /\ mon.pc = "backfill" => \A b \in mon.todo : row[b].on >= day - Lookback
    BY DEF CalmInv, Entering
  <2>3. ASSUME ~pos'.open, sold'.today = 0
        PROVE  /\ \A b \in OnBook' : book'[b].on = day' => \A c \in Buys : Executes(c)' => c = b
               /\ mon'.pc = "backfill" /\ held' > 0 => ClosedSince(day - Lookback)' \subseteq mon'.todo
    BY <1>0, <2>1, <2>2, <2>3 DEF OnBook
  <2>4. mon'.pc = "backfill" => \A b \in mon'.todo : row'[b].on >= day' - Lookback
    BY <2>2 DEF FieldsOK, MonType
  <2>. QED  BY <2>3, <2>4 DEF Entering
<1>. QED  BY <1>1, <1>2, <1>3, <1>4, <1>5, <1>6 DEF CalmInv

\* The broker's and the calendar's quiet steps.
LEMMA CalmBroker ==
    ASSUME FieldsOK, FieldsOK', BuyInv, Undisturbed, CalmInv, UNCHANGED exposed,
           OpenMarket \/ CloseMarket \/ Lapse \/ \E b \in Buys : Reject(b) \/ BrokerCancel(b)
    PROVE  Quiet
<1>. USE DEF durable, memory
<1>0. /\ \A b \in Buys : book[b] \in BookType /\ row[b] \in RowType
      /\ \A b \in Buys : book[b].st = "open" => book[b].filled = 0
      /\ \A b \in Buys : row[b].st = "failed" => book[b].st = "rejected"
  BY DEF FieldsOK, BuyInv, TablesAgree, OrderKnown, CalmInv, OrderOfDay
<1>1. CASE OpenMarket
  <2>1. UNCHANGED <<pos, sold>>
    BY <1>1, CalmReconcile DEF OpenMarket, CalmInv
  <2>. QED  BY <1>0, <1>1, <2>1 DEF OpenMarket, Quiet, Executes
<1>2. CASE CloseMarket
  <2>1. /\ mon.pc = "idle" /\ sold.watch # "tracked" /\ phase = "open"
        /\ \A b \in Pending \cup tracked : book[b].st = "open"
    BY <1>2 DEF CloseMarket, Undisturbed
  <2>2. \A b \in Buys : book[b].st # "open"
    BY <1>2 DEF CloseMarket, Undisturbed
  <2>3. \A b \in Buys : b \notin Pending /\ b \notin tracked
    BY <2>1, <2>2
  <2>4. mon.leg = NoLeg
    BY <2>1, CalmFacts
  <2>5. ASSUME NEW b \in Buys, Late(b) PROVE FALSE
    <3>1. ~Executes(b)
      BY <2>4, <2>5, BuysAssumption DEF CalmInv, MarksOfRows, Late
    <3>2. book[b].st = "complete" /\ book[b].filled > 0
      BY <2>5, CalmFacts DEF Late
    <3>3. row[b].st \in {"none", "pending", "cancelled", "failed"}
      BY <1>0, <3>1 DEF Executes, RowType, RowStatus
    <3>4. row[b].st # "none"
      BY <3>2, CalmFacts
    <3>5. row[b].st # "cancelled"
      BY <2>3, <3>2, CalmFacts
    <3>. QED  BY <1>0, <2>3, <3>2, <3>3, <3>4, <3>5 DEF Pending
  <2>. QED  BY <1>0, <1>2, <2>1, <2>5 DEF CloseMarket, Quiet, Executes
<1>3. CASE Lapse
  BY <1>0, <1>3 DEF Lapse, Quiet, Executes, BookType
<1>4. ASSUME NEW b \in Buys, Reject(b) PROVE Quiet
  BY <1>0, <1>4 DEF Reject, Quiet, Executes, BookType, FieldsOK
<1>5. ASSUME NEW b \in Buys, BrokerCancel(b) PROVE Quiet
  <2>1. PICK n \in 0 .. (Qty[b] - 1) : /\ n > 0 => "partial" \in exposed
                                       /\ book' = [book EXCEPT ![b].st = "cancelled", ![b].filled = n]
                                       /\ held' = held + n
    BY <1>5 DEF BrokerCancel
  <2>2. n = 0
    BY <2>1, QtyAssumption DEF Undisturbed
  <2>3. book' = [book EXCEPT ![b].st = "cancelled", ![b].filled = 0] /\ held' = held
    BY <2>1, <2>2 DEF FieldsOK
  <2>. QED  BY <1>0, <1>5, <2>3 DEF BrokerCancel, Quiet, Executes, BookType, FieldsOK
<1>. QED  BY <1>1, <1>2, <1>3, <1>4, <1>5

\* The quiet steps of the tasks; nothing stops the process.
LEMMA CalmTasks ==
    ASSUME FieldsOK, FieldsOK', BuyInv, Undisturbed, CalmInv, UNCHANGED exposed,
           MorningReconcile \/ EodCleanup \/ Heartbeat \/ Crash \/ Stop \/ Start
    PROVE  Quiet
<1>. USE DEF durable, memory, market
<1>0. /\ \A b \in Buys : book[b] \in BookType /\ row[b] \in RowType
      /\ \A b \in Buys : row[b].st = "failed" => book[b].st = "rejected"
      /\ Up /\ \A kind : ~FaultAllowed(kind)
  BY CalmFacts DEF FieldsOK, BuyInv, CalmInv, OrderOfDay
<1>1. CASE MorningReconcile
  <2>1. UNCHANGED <<pos, sold>>
    BY <1>1, CalmReconcile DEF MorningReconcile, CalmInv
  <2>. QED  BY <1>0, <1>1, <2>1 DEF MorningReconcile, Quiet, Executes
<1>2. CASE EodCleanup
  <2>1. ASSUME NEW b \in Buys
        PROVE  /\ book'[b].filled = book[b].filled /\ book'[b].on = book[b].on
               /\ book'[b].st = "none" <=> book[b].st = "none"
               /\ book'[b].st = "open" => book[b].st = "open"
               /\ book[b].st = "rejected" => book'[b].st = "rejected"
    BY <1>0, <1>2 DEF EodCleanup, BookType
  <2>2. ASSUME NEW b \in Buys
        PROVE  /\ row'[b].on = row[b].on /\ row'[b].qty = row[b].qty
               /\ row'[b].st = "failed" => row[b].st = "failed"
               /\ row'[b].st = "closed" <=> row[b].st = "closed"
    BY <1>0, <1>2 DEF EodCleanup, Swept, RowType
  <2>. QED  BY <1>0, <1>2, <2>1, <2>2 DEF EodCleanup, Quiet, Executes
<1>3. CASE Heartbeat
  BY <1>0, <1>3 DEF Heartbeat, Quiet, Executes, CalmInv, OrderOfDay
<1>. QED  BY <1>0, <1>1, <1>2, <1>3 DEF Crash, Stop, Start

\* The quiet steps of a cycle.
LEMMA CalmCycle ==
    ASSUME FieldsOK, FieldsOK', BuyInv, Undisturbed, CalmInv, UNCHANGED exposed,
           \/ StartCycle \/ CancelReentries \/ (RecordSell /\ ~SeesSell)
           \/ \E b \in Buys : SeeRefused(b) \/ SeeOpen(b) \/ SeeInHoldings(b) \/ SeeNowhere(b)
    PROVE  Quiet
<1>. USE DEF durable, memory, market
<1>0. /\ \A b \in Buys : book[b] \in BookType /\ row[b] \in RowType
      /\ \A b \in Buys : row[b].st = "failed" => book[b].st = "rejected"
      /\ mon \in MonType
  BY DEF FieldsOK, BuyInv, CalmInv, OrderOfDay
<1>f. /\ \A kind : ~FaultAllowed(kind)
      /\ mon.leg # NoLeg => mon.pc = "check"
      /\ mon.pc = "check" => /\ mon.api = {"orders", "holdings"}
                            /\ \A b \in mon.todo : book[b].on = day
      /\ \A b \in Buys : Executes(b) => book[b].st = "complete"
  BY CalmFacts
<1>1. CASE StartCycle
  <2>1. mon.leg = NoLeg /\ mon'.leg = NoLeg /\ mon'.pc = "check"
    BY <1>1, <1>f DEF StartCycle, IdleMonitor
  <2>. QED  BY <1>0, <1>1, <2>1 DEF StartCycle, Quiet, Executes
<1>2. CASE CancelReentries
  <2>1. ASSUME NEW b \in Buys
        PROVE  /\ book'[b].filled = book[b].filled /\ book'[b].on = book[b].on
               /\ book'[b].st = "none" <=> book[b].st = "none"
               /\ book'[b].st = "open" => book[b].st = "open"
               /\ book[b].st = "rejected" => book'[b].st = "rejected"
    BY <1>0, <1>2 DEF CancelReentries, BookType
  <2>2. ASSUME NEW b \in Buys
        PROVE  /\ row'[b].on = row[b].on /\ row'[b].qty = row[b].qty
               /\ row'[b].st = "failed" => row[b].st = "failed"
               /\ row'[b].st = "closed" <=> row[b].st = "closed"
    BY <1>0, <1>2 DEF CancelReentries, Stale, Pending, RowType
  <2>3. mon.leg = NoLeg /\ mon'.leg = NoLeg /\ mon'.pc = "idle"
    BY <1>2, <1>f DEF CancelReentries, IdleMonitor
  <2>. QED  BY <1>0, <1>2, <2>1, <2>2, <2>3 DEF CancelReentries, Quiet, Executes
<1>3. CASE RecordSell /\ ~SeesSell
  <2>1. mon.leg = NoLeg /\ mon'.leg = NoLeg /\ mon'.pc = "idle"
    BY <1>3, <1>f DEF RecordSell, IdleMonitor
  <2>. QED  BY <1>0, <1>3, <2>1 DEF RecordSell, Quiet, Executes
<1>4. ASSUME NEW b \in Buys, SeeRefused(b) PROVE Quiet
  <2>1. /\ mon' = [mon EXCEPT !.todo = @ \ {b}] /\ mon.pc = "check" /\ phase = "open"
        /\ row' = [row EXCEPT ![b].st = RefusedStatus(b)]
        /\ book[b].st \in {"rejected", "cancelled"}
    BY <1>4 DEF SeeRefused, Finish, Checking
  <2>2. mon'.leg = mon.leg /\ mon'.pc = "check" /\ mon'.qty = mon.qty /\ mon'.report = mon.report
    BY <1>0, <2>1 DEF MonType
  <2>3. ASSUME NEW c \in Buys
        PROVE  /\ row'[c].on = row[c].on /\ row'[c].qty = row[c].qty
               /\ row'[c].st = "failed" => book[c].st = "rejected"
               /\ Executes(c)' <=> Executes(c)
    BY <1>0, <1>f, <2>1 DEF RefusedStatus, RowType, FieldsOK, Executes
  <2>. QED  BY <1>0, <1>4, <2>1, <2>2, <2>3 DEF SeeRefused, Quiet
<1>5. ASSUME NEW b \in Buys, SeeOpen(b) PROVE Quiet
  <2>1. mon'.leg = mon.leg /\ mon'.pc = "check" /\ mon'.qty = mon.qty /\ mon'.report = mon.report
    BY <1>0, <1>5 DEF SeeOpen, Checking, MonType
  <2>. QED  BY <1>0, <1>5, <2>1 DEF SeeOpen, Checking, Quiet, Executes
<1>6. ASSUME NEW b \in Buys, SeeInHoldings(b) \/ SeeNowhere(b) PROVE FALSE
  BY <1>6, <1>f DEF SeeInHoldings, SeeNowhere, Checking, InReport
<1>. QED  BY <1>1, <1>2, <1>3, <1>4, <1>5, <1>6

\* A new day finds no fill without its marker and no sale in the position.
LEMMA CalmNextDay ==
    ASSUME FieldsOK, FieldsOK', BuyInv, Undisturbed, CalmInv, NextDay
    PROVE  CalmInv'
<1>. USE DEF durable, memory
<1>0. /\ UNCHANGED <<book, held, row, pos, mark, mon, tracked, done>>
      /\ sold' = [sold EXCEPT !.today = 0, !.watch = "none"]
      /\ day' = day + 1 /\ phase' = "pre" /\ settled' = held /\ phase # "open"
      /\ \A b \in Buys : book[b].st # "open"
  BY DEF NextDay
<1>1. /\ mon.pc = "idle" /\ mon.leg = NoLeg
      /\ \A b \in Buys : book[b].on <= day
  BY <1>0, CalmFacts DEF Up, FieldsOK, MonType
<1>2. /\ sold.owed = 0 /\ sold'.owed = 0 /\ sold'.today = 0 /\ sold'.watch = "none"
      /\ \A b \in Buys : ~Late(b) /\ ~Late(b)'
  BY <1>0 DEF CalmInv, SaleOfDay, MarksOfRows, FieldsOK, SoldType, Late
<1>3. \A b \in Buys : book'[b].on # day'
  BY <1>0, <1>1 DEF FieldsOK, BookType
<1>4. OrderOfDay'
  <2>1. OnBook' = OnBook /\ OnBook \subseteq Buys
    BY <1>0 DEF OnBook
  <2>2. \A b, c \in OnBook : book[b].on = book[c].on => b = c
    BY DEF CalmInv, OrderOfDay
  <2>3. \A b \in Buys : row'[b].st = "failed" => book'[b].st = "rejected"
    BY <1>0 DEF CalmInv, OrderOfDay
  <2>. QED  BY <1>0, <1>1, <1>2, <1>3, <2>1, <2>2, <2>3 DEF OrderOfDay
<1>5. MarksOfRows'
  BY <1>0, <1>1, <1>2 DEF CalmInv, MarksOfRows, Executes
<1>6. MarkedTotal'
  BY <1>0, TotalStays DEF CalmInv, Executes
<1>7. Account'
  <2>1. pos.open => held + sold.owed = pos.qty + 0
    BY <1>2 DEF CalmInv, Account, Balance
  <2>2. ~pos.open => \/ held = 0
                     \/ \E n \in Buys : /\ book[n].filled > 0 /\ held = book[n].filled
                                        /\ \A b \in OnBook : book[b].on <= book[n].on
    BY DEF CalmInv, Account
  <2>3. OnBook' = OnBook
    BY <1>0 DEF OnBook
  <2>4. ~pos'.open => \/ held' = 0 /\ \A b \in Buys : ~Late(b)'
                      \/ \E n \in Buys : /\ book'[n].filled > 0 /\ held' = book'[n].filled
                                         /\ \A b \in OnBook' : book'[b].on <= book'[n].on
                                         /\ \A b \in Buys : Late(b)' => b = n
    BY <1>0, <1>2, <2>2, <2>3
  <2>5. pos'.open => /\ \A b \in Buys : Late(b)' => Balance(book[b].filled)'
                     /\ (\A b \in Buys : ~Late(b)') => Balance(0)'
    BY <1>0, <1>2, <2>1 DEF Balance
  <2>. QED  BY <2>4, <2>5 DEF Account
<1>8. SaleOfDay'
  BY <1>2 DEF SaleOfDay
<1>9. Entering'
  BY <1>0, <1>1, <1>3 DEF Entering, OnBook
<1>. QED  BY <1>4, <1>5, <1>6, <1>7, <1>8, <1>9 DEF CalmInv

\* An order placed before the market opens is the only one of the day; without a position
\* it is placed only when nothing is held and nothing executed.
LEMMA CalmPlace ==
    ASSUME FieldsOK, FieldsOK', BuyInv, Undisturbed, CalmInv, phase = "pre",
           UNCHANGED <<day, phase, held, settled, sold, pos, memory>>,
           NEW b \in Buys, Place(b),
           pos.open \/ (held = 0 /\ \A c \in Buys : ~Executes(c))
    PROVE  CalmInv'
<1>. USE DEF memory
<1>0. /\ book[b].st = "none" /\ Pending = {}
      /\ book'[b] = [st |-> "open", filled |-> 0, on |-> day]
      /\ row'[b].st = "pending" /\ row'[b].on = row[b].on
      /\ \A c \in Buys \ {b} : book'[c] = book[c] /\ row'[c] = row[c]
  BY DEF Place, FieldsOK, RowType
<1>1. /\ mon.pc = "idle" /\ mon.leg = NoLeg /\ held = settled /\ sold.today = 0
      /\ sold.watch # "tracked" /\ sold.owed = 0
      /\ \A c \in Buys : ~Late(c)
  BY CalmFacts DEF CalmInv, OrderOfDay, SaleOfDay, MarksOfRows
<1>2. /\ book[b].filled = 0 /\ row[b].st = "none"
  BY <1>0, CalmFacts DEF BuyInv, TablesAgree, OrderKnown
<1>3. /\ OnBook' = OnBook \cup {b}
      /\ \A c \in Buys : (Executes(c)' <=> Executes(c)) /\ ~Late(c)' /\ row'[c].on = row[c].on
      /\ ~Executes(b)
  BY <1>0, <1>1, <1>2 DEF OnBook, Executes, Late
<1>4. \A c \in OnBook : book[c].on # day
  BY <1>0 DEF CalmInv, OrderOfDay, OnBook, Pending
<1>5. OrderOfDay'
  <2>1. \A c, d \in OnBook' : book'[c].on = book'[d].on => c = d
    BY <1>0, <1>3, <1>4 DEF CalmInv, OrderOfDay, OnBook
  <2>2. \A c \in Buys : /\ book'[c].st = "open" => book'[c].on = day'
                        /\ row'[c].st = "failed" => book'[c].st = "rejected"
    BY <1>0 DEF CalmInv, OrderOfDay
  <2>3. \A c \in OnBook' : book'[c].on = day' => row'[c].st = "pending"
    BY <1>0, <1>3, <1>4 DEF OnBook
  <2>. QED  BY <1>1, <2>1, <2>2, <2>3 DEF OrderOfDay
<1>6. MarksOfRows'
  BY <1>1, <1>3, <1>0 DEF CalmInv, MarksOfRows, FieldsOK, Executes
<1>7. MarkedTotal'
  BY <1>3, TotalStays DEF CalmInv
<1>8. Account'
  <2>1. pos.open => held + sold.owed = pos.qty + 0
    BY <1>1 DEF CalmInv, Account, Balance
  <2>2. ~pos'.open => held' = 0 /\ \A c \in Buys : ~Late(c)'
    BY <1>3
  <2>3. pos'.open => /\ \A c \in Buys : Late(c)' => Balance(book[c].filled)'
                     /\ (\A c \in Buys : ~Late(c)') => Balance(0)'
    BY <1>3, <2>1 DEF Balance
  <2>. QED  BY <2>2, <2>3 DEF Account
<1>9. SaleOfDay'
  BY <1>1 DEF SaleOfDay
<1>10. Entering'
  BY <1>1, <1>3 DEF Entering
<1>. QED  BY <1>5, <1>6, <1>7, <1>8, <1>9, <1>10 DEF CalmInv

\* A fill is the first of its day, and of an order that no marker stands for.
LEMMA CalmFill ==
    ASSUME FieldsOK, FieldsOK', BuyInv, Undisturbed, CalmInv, NEW b \in Buys, Fill(b)
    PROVE  CalmInv'
<1>. USE DEF durable, memory
<1>0. /\ UNCHANGED <<day, phase, settled, sold, row, pos, mark, mon, tracked, done>>
      /\ phase = "open" /\ book[b].st = "open" /\ held' = held + Qty[b]
      /\ book'[b].st = "complete" /\ book'[b].filled = Qty[b] /\ book'[b].on = book[b].on
      /\ \A c \in Buys \ {b} : book'[c] = book[c]
  BY DEF Fill, FieldsOK, BookType
<1>1. /\ book[b].filled = 0 /\ book[b].on = day /\ b \in OnBook
      /\ ~Executes(b) /\ Qty[b] \in Nat /\ Qty[b] > 0
      /\ held \in Nat /\ sold.owed \in Nat /\ pos.qty \in Nat
  BY <1>0, CalmFacts, QtyAssumption DEF BuyInv, TablesAgree, OrderKnown, CalmInv, OrderOfDay, OnBook,
     FieldsOK, PosType, SoldType
<1>2. mark[b] = 0 /\ row[b].st # "failed"
  BY <1>0, <1>1 DEF CalmInv, MarksOfRows, OrderOfDay
<1>3. \A c \in OnBook : /\ book[c].on = day => c = b
                        /\ book[c].on <= day
  BY <1>1, CalmFacts DEF CalmInv, OrderOfDay, OnBook
<1>4. ASSUME NEW c \in Buys, Late(c) PROVE FALSE
  <2>1. book[c].on = day /\ c \in OnBook
    BY <1>4, CalmFacts DEF CalmInv, MarksOfRows, Late, OnBook
  <2>. QED  BY <1>1, <1>3, <1>4, <2>1 DEF Late
<1>5. /\ OnBook' = OnBook
      /\ \A c \in Buys : (Late(c)' <=> c = b) /\ book'[c].on = book[c].on /\ (Executes(c)' <=> Executes(c))
  BY <1>0, <1>1, <1>2, <1>4 DEF OnBook, Late, Executes
<1>6. OrderOfDay'
  <2>1. \A c, d \in OnBook' : book'[c].on = book'[d].on => c = d
    BY <1>5 DEF CalmInv, OrderOfDay, OnBook
  <2>2. \A c \in Buys : /\ book'[c].st = "open" => book'[c].on = day'
                        /\ row'[c].st = "failed" => book'[c].st = "rejected"
    BY <1>0, <1>2 DEF CalmInv, OrderOfDay
  <2>. QED  BY <1>0, <2>1, <2>2 DEF OrderOfDay
<1>7. MarksOfRows'
  <2>. DEFINE Right(c) == IF Executes(c) THEN (c \in done /\ mark[c] = row[c].qty) \/ (c = mon.leg /\ mark[c] = 0)
                                         ELSE mark[c] = 0
  <2>1. \A c \in done' : Executes(c)' /\ mark'[c] # 0
    BY <1>0, <1>5 DEF CalmInv, MarksOfRows, FieldsOK
  <2>2. ASSUME NEW c \in Buys PROVE Right(c)'
    <3>1. Right(c)
      BY DEF CalmInv, MarksOfRows
    <3>. QED  BY <1>0, <1>5, <3>1
  <2>3. mon'.leg # NoLeg => /\ mon'.qty = row'[mon'.leg].qty /\ mon'.report
                            /\ mark'[mon'.leg] = 0 /\ book'[mon'.leg].on = day'
    BY <1>0, <1>5 DEF CalmInv, MarksOfRows, FieldsOK, MonType
  <2>4. \A c \in Buys : Late(c)' => book'[c].on = day' /\ phase' = "open"
    BY <1>0, <1>1, <1>5 DEF CalmInv, MarksOfRows
  <2>. QED  BY <2>1, <2>2, <2>3, <2>4 DEF MarksOfRows
<1>8. MarkedTotal'
  BY <1>0, <1>5, TotalStays DEF CalmInv
<1>9. Account'
  <2>1. pos.open => held + sold.owed = pos.qty + 0
    BY <1>4 DEF CalmInv, Account, Balance
  <2>2. pos'.open => /\ \A c \in Buys : Late(c)' => Balance(book[c].filled)'
                     /\ (\A c \in Buys : ~Late(c)') => Balance(0)'
    BY <1>0, <1>1, <1>5, <2>1 DEF Balance
  <2>3. ~pos.open => held = 0
    <3>1. ASSUME NEW n \in Buys, book[n].filled > 0, \A c \in OnBook : book[c].on <= book[n].on
          PROVE  FALSE
      <4>1. n \in OnBook
        <5>1. book[n].st = "complete"
          BY <3>1, CalmFacts
        <5>. QED  BY <5>1 DEF OnBook
      <4>2. book[n].on = day
        <5>1. day <= book[n].on /\ book[n].on <= day
          BY <1>1, <1>3, <3>1, <4>1
        <5>2. day \in Nat /\ book[n].on \in Nat
          BY <3>1 DEF FieldsOK, BookType
        <5>. QED  BY <5>1, <5>2
      <4>. QED  BY <1>1, <1>3, <3>1, <4>1, <4>2
    <3>. QED  BY <3>1 DEF CalmInv, Account
  <2>4. ~pos'.open => /\ book'[b].filled > 0 /\ held' = book'[b].filled
                      /\ \A c \in OnBook' : book'[c].on <= book'[b].on
                      /\ \A c \in Buys : Late(c)' => c = b
    BY <1>0, <1>1, <1>3, <1>5, <2>3 DEF OnBook
  <2>. QED  BY <2>2, <2>4 DEF Account
<1>10. SaleOfDay'
  <2>1. \A t \in Buys : mark[t] # 0 => book'[t] = book[t]
    BY <1>0, <1>2
  <2>. QED  BY <1>0, <2>1 DEF CalmInv, SaleOfDay
<1>11. Entering'
  <2>1. ASSUME ~pos.open, sold.today = 0 PROVE \A c \in Buys : ~Executes(c)
    BY <1>1, <2>1 DEF CalmInv, Entering
  <2>2. ASSUME ~pos.open, sold.today = 0 PROVE ClosedSince(day - Lookback)' = {}
    BY <1>0, <2>1, <2>2 DEF ClosedSince, Executes
  <2>3. mon'.pc = "backfill" => \A c \in mon'.todo : row'[c].on >= day' - Lookback
    BY <1>0 DEF CalmInv, Entering
  <2>. QED  BY <1>0, <1>5, <2>1, <2>2, <2>3 DEF Entering
<1>. QED  BY <1>6, <1>7, <1>8, <1>9, <1>10, <1>11 DEF CalmInv

\* The account can fill a sell order of the whole position.
LEMMA CalmSale ==
    ASSUME FieldsOK, FieldsOK', BuyInv, Undisturbed, CalmInv, SellFill
    PROVE  CalmInv'
<1>. USE DEF durable, memory
<1>0. /\ UNCHANGED <<day, phase, book, settled, row, pos, mark, mon, tracked, done>>
      /\ phase = "open" /\ pos.open /\ sold.today = 0 /\ Up
      /\ held \in Nat /\ pos.qty \in Nat /\ sold.owed \in Nat /\ pos.qty > 0
  BY CalmFacts DEF SellFill, FieldsOK, PosType, SoldType
<1>1. sold.owed = 0
  BY <1>0 DEF CalmInv, SaleOfDay
<1>2. held >= pos.qty
  <2>1. CASE \A b \in Buys : ~Late(b)
    BY <1>0, <1>1, <2>1 DEF CalmInv, Account, Balance
  <2>2. ASSUME NEW b \in Buys, Late(b) PROVE held >= pos.qty
    BY <1>0, <1>1, <2>2 DEF CalmInv, Account, Balance, FieldsOK, BookType
  <2>. QED  BY <2>1, <2>2
<1>3. held' = held - pos.qty /\ sold' = [today |-> pos.qty, owed |-> pos.qty, watch |-> "tracked"]
  BY <1>0, <1>1, <1>2 DEF SellFill, Smaller
<1>4. /\ OnBook' = OnBook
      /\ \A b \in Buys : (Late(b)' <=> Late(b)) /\ (Executes(b)' <=> Executes(b))
  BY <1>0 DEF OnBook, Late, Executes
<1>5. OrderOfDay'
  BY <1>0, <1>4 DEF CalmInv, OrderOfDay
<1>6. MarksOfRows'
  <2>. DEFINE Right(c) == IF Executes(c) THEN (c \in done /\ mark[c] = row[c].qty) \/ (c = mon.leg /\ mark[c] = 0)
                                         ELSE mark[c] = 0
  <2>1. \A c \in done' : Executes(c)' /\ mark'[c] # 0
    BY <1>0, <1>4 DEF CalmInv, MarksOfRows, FieldsOK
  <2>2. ASSUME NEW c \in Buys PROVE Right(c)'
    <3>1. Right(c)
      BY DEF CalmInv, MarksOfRows
    <3>. QED  BY <1>0, <1>4, <3>1
  <2>3. mon'.leg # NoLeg => /\ mon'.qty = row'[mon'.leg].qty /\ mon'.report
                            /\ mark'[mon'.leg] = 0 /\ book'[mon'.leg].on = day'
    BY <1>0, <1>4 DEF CalmInv, MarksOfRows, FieldsOK, MonType
  <2>4. \A c \in Buys : Late(c)' => book'[c].on = day' /\ phase' = "open"
    BY <1>0, <1>4 DEF CalmInv, MarksOfRows
  <2>. QED  BY <2>1, <2>2, <2>3, <2>4 DEF MarksOfRows
<1>7. MarkedTotal'
  BY <1>0, <1>4, TotalStays DEF CalmInv
<1>8. Account'
  <2>1. /\ \A b \in Buys : Late(b) => held + sold.owed = pos.qty + book[b].filled
        /\ (\A b \in Buys : ~Late(b)) => held + sold.owed = pos.qty + 0
    BY <1>0 DEF CalmInv, Account, Balance
  <2>2. held' + sold'.owed = held + sold.owed
    BY <1>0, <1>1, <1>3
  <2>. QED  BY <1>0, <1>4, <2>1, <2>2 DEF Account, Balance
<1>9. SaleOfDay'
  BY <1>0, <1>3 DEF SaleOfDay
<1>10. Entering'
  BY <1>0 DEF CalmInv, Entering
<1>. QED  BY <1>5, <1>6, <1>7, <1>8, <1>9, <1>10 DEF CalmInv

\* A report of a fill closes the row of the order, the only unmarked one.
LEMMA CalmComplete ==
    ASSUME FieldsOK, FieldsOK', BuyInv, Undisturbed, CalmInv, NEW b \in Buys, SeeComplete(b)
    PROVE  CalmInv'
<1>. USE DEF market
<1>0. /\ UNCHANGED <<day, phase, book, held, settled, sold, pos, mark, done>>
      /\ phase = "open" /\ mon.pc = "check" /\ mon.leg = NoLeg /\ b \in mon.todo
      /\ book[b].on = day /\ book[b].st = "complete" /\ b \in OnBook
  BY DEF SeeComplete, Checking, InReport, OnBook
<1>1. CASE Executes(b)
  <2>1. b \in done /\ b # NoLeg
    BY <1>0, <1>1, BuysAssumption DEF CalmInv, MarksOfRows
  <2>2. UNCHANGED row /\ mon' = [mon EXCEPT !.todo = @ \ {b}]
    BY <1>1, <2>1 DEF SeeComplete, AlreadyExecuted, Executes, Finish
  <2>3. mon'.leg = mon.leg /\ mon'.pc = mon.pc /\ mon'.qty = mon.qty /\ mon'.report = mon.report
    BY <2>2 DEF FieldsOK, MonType
  <2>4. Quiet
    BY <1>0, <2>2, <2>3 DEF Quiet, Executes, CalmInv, OrderOfDay
  <2>. QED  BY <2>4, QuietKeeps
<1>2. CASE ~Executes(b)
  <2>1. b \notin done /\ mark[b] = 0 /\ row[b].qty = 0 /\ book[b].filled \in Nat
    BY <1>2, CalmFacts DEF CalmInv, MarksOfRows, FieldsOK, BookType
  <2>2. /\ row' = [row EXCEPT ![b] = [st |-> "closed", qty |-> book[b].filled, on |-> day]]
        /\ mon' = [mon EXCEPT !.leg = b, !.qty = book[b].filled, !.report = TRUE]
    BY <1>2, <2>1 DEF SeeComplete, AlreadyExecuted, Executes, Executed
  <2>3. mon'.leg = b /\ mon'.qty = book[b].filled /\ mon'.report /\ mon'.pc = "check"
    BY <1>0, <2>2 DEF FieldsOK, MonType
  <2>4. /\ row'[b] = [st |-> "closed", qty |-> book[b].filled, on |-> day]
        /\ \A c \in Buys \ {b} : row'[c] = row[c]
    BY <2>2 DEF FieldsOK
  <2>5. /\ OnBook' = OnBook
        /\ \A c \in Buys : (Late(c)' <=> Late(c)) /\ (Executes(c)' <=> Executes(c) \/ c = b)
    BY <1>0, <2>4 DEF OnBook, Late, Executes
  <2>6. OrderOfDay'
    BY <1>0, <2>4, <2>5 DEF CalmInv, OrderOfDay
  <2>7. MarksOfRows'
    <3>1. \A c \in done' : Executes(c)' /\ mark'[c] # 0
      BY <1>0, <2>5 DEF CalmInv, MarksOfRows, FieldsOK
    <3>2. ASSUME NEW c \in Buys \ {b}
          PROVE  IF Executes(c)' THEN (c \in done' /\ mark'[c] = row'[c].qty) \/ (c = mon'.leg /\ mark'[c] = 0)
                                 ELSE mark'[c] = 0
      <4>1. c # mon.leg
        BY <1>0, BuysAssumption
      <4>2. IF Executes(c) THEN c \in done /\ mark[c] = row[c].qty ELSE mark[c] = 0
        BY <4>1 DEF CalmInv, MarksOfRows
      <4>. QED  BY <1>0, <2>4, <2>5, <4>2
    <3>3. Executes(b)' /\ b = mon'.leg /\ mark'[b] = 0
      BY <1>0, <2>1, <2>3, <2>5
    <3>4. mon'.qty = row'[mon'.leg].qty /\ mon'.report /\ book'[mon'.leg].on = day'
      BY <1>0, <2>3, <2>4
    <3>5. \A c \in Buys : Late(c)' => book'[c].on = day' /\ phase' = "open"
      BY <1>0, <2>5 DEF CalmInv, MarksOfRows
    <3>. QED  BY <3>1, <3>2, <3>3, <3>4, <3>5 DEF MarksOfRows
  <2>8. MarkedTotal'
    <3>. SUFFICES ASSUME pos'.open PROVE MarkedTotal'
      BY DEF MarkedTotal
    <3>. DEFINE S == ClosedSince(pos.since)
                T == ClosedSince(pos.since)'
    <3>1. pos.open
      BY <1>0
    <3>2. /\ pos.qty = Total(mark, S) /\ \A c \in pos.legs : mark[c] # 0
          /\ \E c \in Buys : Executes(c) /\ mark[c] # 0 /\ row[c].on = pos.since
      BY <3>1 DEF CalmInv, MarkedTotal
    <3>3. b \notin S /\ (T = S \/ T = S \cup {b}) /\ T \subseteq Buys
      BY <1>0, <1>2, <2>4 DEF ClosedSince, Executes
    <3>4. IsFiniteSet(T) /\ \A c \in T : mark[c] \in Nat
      BY <3>3, FS_Subset, BuysAssumption DEF FieldsOK
    <3>5. Total(mark, T) = Total(mark, S)
      <4>1. CASE b \in T
        <5>1. Total(mark, T) = mark[b] + Total(mark, T \ {b})
          BY <3>4, <4>1, TotalPick
        <5>2. T \ {b} = S
          BY <3>3, <4>1
        <5>3. IsFiniteSet(S) /\ \A c \in S : mark[c] \in Nat
          BY <3>3, <3>4, FS_Subset
        <5>4. Total(mark, S) \in Nat
          BY <5>3, TotalType
        <5>. QED  BY <2>1, <5>1, <5>2, <5>4
      <4>. QED  BY <3>3, <4>1
    <3>6. pos'.qty = Total(mark, ClosedSince(pos.since))'
      BY <1>0, <3>2, <3>5
    <3>7. \A c \in pos'.legs : mark'[c] # 0
      BY <1>0, <3>2
    <3>8. \E c \in Buys : Executes(c)' /\ mark'[c] # 0 /\ row'[c].on = pos'.since
      BY <1>0, <2>1, <2>4, <2>5, <3>2
    <3>. QED  BY <3>6, <3>7, <3>8 DEF MarkedTotal
  <2>9. Account'
    <3>. DEFINE Alone(n) == /\ book[n].filled > 0 /\ held = book[n].filled
                            /\ \A c \in OnBook : book[c].on <= book[n].on
                            /\ \A c \in Buys : Late(c) => c = n
    <3>1. pos'.open => /\ \A c \in Buys : Late(c)' => Balance(book[c].filled)'
                       /\ (\A c \in Buys : ~Late(c)') => Balance(0)'
      BY <1>0, <2>5 DEF CalmInv, Account, Balance
    <3>2. \A n \in Buys : Alone(n) => Alone(n)'
      BY <1>0, <2>5
    <3>3. ~pos'.open => (held' = 0 /\ \A c \in Buys : ~Late(c)') \/ \E n \in Buys : Alone(n)'
      BY <1>0, <2>5, <3>2 DEF CalmInv, Account
    <3>. QED  BY <3>1, <3>3 DEF Account
  <2>10. SaleOfDay'
    BY <1>0 DEF CalmInv, SaleOfDay
  <2>11. Entering'
    <3>1. ASSUME ~pos'.open, sold'.today = 0, NEW d \in OnBook', book'[d].on = day', NEW c \in Buys, Executes(c)'
          PROVE  c = d
      <4>1. d = b
        BY <1>0, <2>5, <3>1 DEF CalmInv, OrderOfDay
      <4>2. Executes(c) => c = b
        BY <1>0, <3>1 DEF CalmInv, Entering
      <4>. QED  BY <2>5, <3>1, <4>1, <4>2
    <3>. QED  BY <2>3, <3>1 DEF Entering
  <2>. QED  BY <2>6, <2>7, <2>8, <2>9, <2>10, <2>11 DEF CalmInv
<1>. QED  BY <1>1, <1>2

\* A backfill starts with every executed row of its window while there is no position.
LEMMA CalmStartBackfill ==
    ASSUME FieldsOK, FieldsOK', BuyInv, Undisturbed, CalmInv, StartBackfill
    PROVE  CalmInv'
<1>. USE DEF market, durable
<1>0. /\ UNCHANGED <<day, phase, book, held, settled, sold, row, pos, mark, done>>
      /\ phase = "open" /\ mon.leg = NoLeg
      /\ mon' = [mon EXCEPT !.pc = "backfill", !.todo = Unapplied]
  BY DEF StartBackfill
<1>1. mon'.leg = NoLeg /\ mon'.pc = "backfill" /\ mon'.todo = Unapplied
  BY <1>0 DEF FieldsOK, MonType
<1>2. /\ OnBook' = OnBook
      /\ \A b \in Buys : (Late(b)' <=> Late(b)) /\ (Executes(b)' <=> Executes(b))
  BY <1>0 DEF OnBook, Late, Executes
<1>3. OrderOfDay'
  BY <1>0, <1>2 DEF CalmInv, OrderOfDay
<1>4. MarksOfRows'
  <2>. DEFINE Right(c) == IF Executes(c) THEN (c \in done /\ mark[c] = row[c].qty) \/ (c = mon.leg /\ mark[c] = 0)
                                         ELSE mark[c] = 0
  <2>1. \A c \in done' : Executes(c)' /\ mark'[c] # 0
    BY <1>0, <1>2 DEF CalmInv, MarksOfRows, FieldsOK
  <2>2. ASSUME NEW c \in Buys PROVE Right(c)'
    <3>1. Right(c)
      BY DEF CalmInv, MarksOfRows
    <3>. QED  BY <1>0, <1>1, <1>2, <3>1
  <2>3. \A c \in Buys : Late(c)' => book'[c].on = day' /\ phase' = "open"
    BY <1>0, <1>2 DEF CalmInv, MarksOfRows
  <2>. QED  BY <1>1, <2>1, <2>2, <2>3 DEF MarksOfRows
<1>5. MarkedTotal'
  BY <1>0, <1>2, TotalStays DEF CalmInv
<1>6. Account'
  BY <1>0, <1>2 DEF CalmInv, Account, Balance
<1>7. SaleOfDay'
  BY <1>0 DEF CalmInv, SaleOfDay
<1>8. Entering'
  <2>1. ClosedSince(day - Lookback)' = ClosedSince(day - Lookback)
    BY <1>0 DEF ClosedSince
  <2>2. ~pos.open => Unapplied = ClosedSince(day - Lookback)
    BY DEF Unapplied, Applied, Reflected
  <2>3. \A b \in Unapplied : row[b].on >= day - Lookback
    BY DEF Unapplied, ClosedSince
  <2>. QED  BY <1>0, <1>1, <1>2, <2>1, <2>2, <2>3 DEF CalmInv, Entering
<1>. QED  BY <1>3, <1>4, <1>5, <1>6, <1>7, <1>8 DEF CalmInv

\* The sale of the whole position leaves the account with nothing, or with what the
\* order of the day bought.
LEMMA CalmRecordSell ==
    ASSUME FieldsOK, FieldsOK', BuyInv, Undisturbed, CalmInv, RecordSell, SeesSell
    PROVE  CalmInv'
<1>0. /\ UNCHANGED <<day, phase, book, held, settled, row, mark, done>>
      /\ sold.today > 0 /\ sold.watch = "tracked" /\ mon.pc = "backfill" /\ phase = "open"
      /\ pos' = NoPosition /\ sold' = [sold EXCEPT !.owed = 0, !.watch = "handled"]
      /\ mon' = [IdleMonitor EXCEPT !.pc = "cancel"]
  BY CalmFacts DEF RecordSell, SeesSell
<1>1. /\ mon.leg = NoLeg /\ mon'.leg = NoLeg /\ mon'.pc = "cancel" /\ ~pos'.open
      /\ sold'.owed = 0 /\ sold'.watch = "handled" /\ sold'.today = sold.today
      /\ held \in Nat /\ pos.qty \in Nat /\ sold.owed \in Nat
  BY <1>0, CalmFacts DEF IdleMonitor, NoPosition, FieldsOK, SoldType, PosType
<1>2. /\ OnBook' = OnBook
      /\ \A b \in Buys : (Late(b)' <=> Late(b)) /\ (Executes(b)' <=> Executes(b))
  BY <1>0 DEF OnBook, Late, Executes
<1>3. OrderOfDay'
  BY <1>0, <1>2 DEF CalmInv, OrderOfDay
<1>4. MarksOfRows'
  <2>. DEFINE Right(c) == IF Executes(c) THEN (c \in done /\ mark[c] = row[c].qty) \/ (c = mon.leg /\ mark[c] = 0)
                                         ELSE mark[c] = 0
  <2>1. \A c \in done' : Executes(c)' /\ mark'[c] # 0
    BY <1>0, <1>2 DEF CalmInv, MarksOfRows, FieldsOK
  <2>2. ASSUME NEW c \in Buys PROVE Right(c)'
    <3>1. Right(c)
      BY DEF CalmInv, MarksOfRows
    <3>. QED  BY <1>0, <1>1, <1>2, <3>1
  <2>3. \A c \in Buys : Late(c)' => book'[c].on = day' /\ phase' = "open"
    BY <1>0, <1>2 DEF CalmInv, MarksOfRows
  <2>. QED  BY <1>1, <2>1, <2>2, <2>3 DEF MarksOfRows
<1>5. MarkedTotal'
  BY <1>1 DEF MarkedTotal
<1>6. Account'
  <2>. DEFINE Alone(n) == /\ book[n].filled > 0 /\ held = book[n].filled
                          /\ \A c \in OnBook : book[c].on <= book[n].on
                          /\ \A c \in Buys : Late(c) => c = n
  <2>1. \A n \in Buys : Alone(n) => Alone(n)'
    BY <1>0, <1>2
  <2>2. /\ pos.open
        /\ \/ pos.qty = sold.owed
           \/ \E t \in Buys : book[t].on = day /\ mark[t] # 0 /\ pos.qty = sold.owed + book[t].filled
    BY <1>0 DEF CalmInv, SaleOfDay
  <2>3. /\ \A b \in Buys : Late(b) => held + sold.owed = pos.qty + book[b].filled
        /\ (\A b \in Buys : ~Late(b)) => held + sold.owed = pos.qty + 0
    BY <2>2 DEF CalmInv, Account, Balance
  <2>4. \A b \in Buys : book[b].filled \in Nat /\ (book[b].filled > 0 => b \in OnBook) /\ book[b].on <= day
    BY CalmFacts DEF FieldsOK, BookType, OnBook
  <2>5. \A b, c \in OnBook : book[b].on = day /\ book[c].on = day => b = c
    BY DEF CalmInv, OrderOfDay
  <2>6. \A b \in Buys : Late(b) => book[b].on = day /\ b \in OnBook
    BY <2>4 DEF CalmInv, MarksOfRows, Late
  <2>7. ASSUME NEW n \in OnBook, book[n].on = day, book[n].filled > 0, held = book[n].filled PROVE Alone(n)
    BY <2>4, <2>5, <2>6, <2>7 DEF OnBook
  <2>8. CASE pos.qty = sold.owed
    <3>1. ASSUME NEW b \in Buys, Late(b) PROVE Alone(b)
      BY <1>1, <2>3, <2>4, <2>6, <2>7, <2>8, <3>1 DEF Late
    <3>2. (\A b \in Buys : ~Late(b)) => held = 0
      BY <1>1, <2>3, <2>8
    <3>. QED  BY <1>0, <1>1, <1>2, <2>1, <3>1, <3>2 DEF Account
  <2>9. ASSUME NEW t \in Buys, book[t].on = day, mark[t] # 0, pos.qty = sold.owed + book[t].filled
        PROVE  Account'
    <3>1. Executes(t)
      BY <2>9 DEF CalmInv, MarksOfRows
    <3>2. book[t].filled > 0 /\ t \in OnBook
      BY <3>1, CalmFacts
    <3>3. \A b \in Buys : ~Late(b)
      BY <2>5, <2>6, <2>9, <3>2 DEF Late
    <3>4. held = book[t].filled
      BY <1>1, <2>3, <2>4, <2>9, <3>3
    <3>5. Alone(t)'
      BY <2>1, <2>7, <2>9, <3>2, <3>4
    <3>. QED  BY <1>1, <3>5 DEF Account
  <2>. QED  BY <2>2, <2>8, <2>9
<1>7. SaleOfDay'
  BY <1>1 DEF SaleOfDay
<1>8. Entering'
  BY <1>0, <1>1 DEF Entering
<1>. QED  BY <1>3, <1>4, <1>5, <1>6, <1>7, <1>8 DEF CalmInv

\* The leg of the day joins the position once, or opens one with all the account has.
LEMMA CalmApply ==
    ASSUME FieldsOK, FieldsOK', BuyInv, Undisturbed, CalmInv, ApplyExecution,
           NEW b \in Buys, NEW q \in Nat, mon.leg = b, mon.qty = q
    PROVE  CalmInv'
<1>. USE DEF market
<1>0. /\ UNCHANGED <<day, phase, book, held, settled, sold, row>>
      /\ phase = "open" /\ mon.leg # NoLeg /\ mon.pc = "check" /\ Apply(b, q)
      /\ done' = Processed
      /\ mon' = [mon EXCEPT !.todo = @ \ {mon.leg}, !.leg = NoLeg, !.qty = 0, !.report = FALSE]
  BY DEF ApplyExecution
<1>1. mon'.leg = NoLeg /\ mon'.pc = "check"
  BY <1>0 DEF FieldsOK, MonType
<1>2. /\ b \in Buys /\ q = row[b].qty /\ mark[b] = 0 /\ book[b].on = day /\ done' = done \cup {b}
  BY <1>0 DEF CalmInv, MarksOfRows, Processed, FieldsOK, MonType
<1>3. Executes(b)
  BY <1>0 DEF BuyInv, Working, Executes
<1>4. /\ book[b].filled = q /\ q > 0 /\ q \in Nat /\ row[b].on = day /\ b \in OnBook
  BY <1>2, <1>3, CalmFacts DEF FieldsOK, MonType
<1>5. /\ held \in Nat /\ pos.qty \in Nat /\ sold.owed \in Nat /\ day \in Nat
      /\ mark \in [Buys -> Nat]
  BY DEF FieldsOK, PosType, SoldType
<1>6. \A c \in Buys : /\ Late(c) <=> c = b
                      /\ Executes(c) => c \in OnBook /\ book[c].on = row[c].on
                      /\ book[c].on <= day
                      /\ c \in OnBook /\ book[c].on = day => c = b
  <2>1. \A c \in OnBook : book[c].on = day => c = b
    BY <1>2, <1>4 DEF CalmInv, OrderOfDay
  <2>2. \A c \in Buys : Late(c) => c \in OnBook /\ book[c].on = day
    BY CalmFacts DEF CalmInv, MarksOfRows, Late, OnBook
  <2>3. Late(b)
    BY <1>2, <1>4 DEF Late
  <2>4. \A c \in Buys : (Executes(c) => c \in OnBook /\ book[c].on = row[c].on) /\ book[c].on <= day
    BY CalmFacts
  <2>. QED  BY <2>1, <2>2, <2>3, <2>4
<1>7. pos.open => ~LooksLikeOpener(b, q) /\ b \notin pos.legs
  <2>1. SUFFICES ASSUME pos.open PROVE ~LooksLikeOpener(b, q) /\ b \notin pos.legs
    OBVIOUS
  <2>2. \A c \in pos.legs : mark[c] # 0
    BY <2>1 DEF CalmInv, MarkedTotal
  <2>3. PICK c \in Buys : Executes(c) /\ mark[c] # 0 /\ row[c].on = pos.since
    BY <2>1 DEF CalmInv, MarkedTotal
  <2>4. pos.since # row[b].on
    BY <1>2, <1>4, <1>6, <2>3
  <2>. QED  BY <1>2, <2>2, <2>4 DEF LooksLikeOpener
<1>8. ~Applied(b, q)
  BY <1>2 DEF Applied
<1>9. /\ mark' = [mark EXCEPT ![b] = q]
      /\ \/ pos.open /\ pos' = AddLeg(b, q)
         \/ ~pos.open /\ pos' = [open |-> TRUE, qty |-> q, since |-> row[b].on, legs |-> {}]
  BY <1>0, <1>7, <1>8 DEF Apply
<1>10. /\ pos'.open /\ mark'[b] = q /\ \A c \in Buys \ {b} : mark'[c] = mark[c]
       /\ pos.open => /\ pos'.qty = pos.qty + q /\ pos'.since = pos.since
                      /\ pos'.legs \subseteq pos.legs \cup {b}
       /\ ~pos.open => pos'.qty = q /\ pos'.since = day /\ pos'.legs = {}
  <2>1. mark'[b] = q /\ \A c \in Buys \ {b} : mark'[c] = mark[c]
    BY <1>5, <1>9
  <2>2. CASE pos.open
    <3>1. pos' = AddLeg(b, q)
      BY <1>9, <2>2
    <3>2. pos \in PosType
      BY DEF FieldsOK
    <3>. QED  BY <2>1, <2>2, <3>1, <3>2 DEF AddLeg, PosType
  <2>3. CASE ~pos.open
    <3>1. pos' = [open |-> TRUE, qty |-> q, since |-> day, legs |-> {}]
      BY <1>4, <1>9, <2>3
    <3>. QED  BY <2>1, <2>3, <3>1
  <2>. QED  BY <2>2, <2>3
<1>11. /\ OnBook' = OnBook
       /\ \A c \in Buys : ~Late(c)' /\ (Executes(c)' <=> Executes(c))
  BY <1>0, <1>4, <1>6, <1>10 DEF OnBook, Late, Executes
<1>12. ~pos.open => held = q /\ sold.owed = 0
  <2>1. ASSUME ~pos.open PROVE held = q
    BY <1>2, <1>4, <1>6, <2>1 DEF CalmInv, Account
  <2>2. ~pos.open => sold.owed = 0
    BY DEF CalmInv, SaleOfDay
  <2>. QED  BY <2>1, <2>2
<1>13. OrderOfDay'
  BY <1>0, <1>11 DEF CalmInv, OrderOfDay
<1>14. MarksOfRows'
  <2>1. \A c \in done' : Executes(c)' /\ mark'[c] # 0
    BY <1>2, <1>3, <1>4, <1>10, <1>11 DEF CalmInv, MarksOfRows, FieldsOK
  <2>2. ASSUME NEW c \in Buys \ {b}
        PROVE  IF Executes(c)' THEN (c \in done' /\ mark'[c] = row'[c].qty) \/ (c = mon'.leg /\ mark'[c] = 0)
                               ELSE mark'[c] = 0
    <3>1. IF Executes(c) THEN c \in done /\ mark[c] = row[c].qty ELSE mark[c] = 0
      BY DEF CalmInv, MarksOfRows
    <3>. QED  BY <1>0, <1>2, <1>10, <1>11, <3>1
  <2>3. Executes(b)' /\ b \in done' /\ mark'[b] = row'[b].qty
    BY <1>0, <1>2, <1>3, <1>10, <1>11
  <2>. QED  BY <1>1, <1>11, <2>1, <2>2, <2>3 DEF MarksOfRows
<1>15. MarkedTotal'
  <2>. DEFINE T == ClosedSince(pos.since)'
  <2>1. T \in SUBSET Buys /\ IsFiniteSet(T) /\ \A c \in T : mark'[c] \in Nat /\ mark[c] \in Nat
    BY FS_Subset, BuysAssumption DEF ClosedSince, FieldsOK
  <2>2. T = ClosedSince(pos'.since)
    BY <1>0 DEF ClosedSince
  <2>3. pos.open => pos.since <= day /\ \E c \in Buys : Executes(c) /\ mark[c] # 0 /\ row[c].on = pos.since
    BY <1>6 DEF CalmInv, MarkedTotal
  <2>4. b \in T
    BY <1>2, <1>3, <1>4, <1>5, <1>10, <2>2, <2>3 DEF ClosedSince, Executes
  <2>5. /\ Total(mark', T) = mark'[b] + Total(mark', T \ {b})
        /\ Total(mark, T) = mark[b] + Total(mark, T \ {b})
    BY <2>1, <2>4, TotalPick
  <2>6. /\ IsFiniteSet(T \ {b}) /\ \A c \in T \ {b} : mark'[c] \in Nat /\ mark'[c] = mark[c]
    BY <1>10, <2>1, FS_RemoveElement
  <2>7. Total(mark', T \ {b}) = Total(mark, T \ {b}) /\ Total(mark, T \ {b}) \in Nat
    BY <2>6, TotalSame, TotalType
  <2>8. pos'.qty = Total(mark', T)
    <3>1. CASE pos.open
      <4>1. T = ClosedSince(pos.since)
        BY <1>0, <1>10, <3>1 DEF ClosedSince
      <4>2. pos.qty = Total(mark, ClosedSince(pos.since))
        BY <3>1 DEF CalmInv, MarkedTotal
      <4>. QED  BY <1>2, <1>4, <1>10, <2>5, <2>7, <3>1, <4>1, <4>2
    <3>2. CASE ~pos.open
      <4>1. ASSUME NEW c \in T PROVE c = b
        <5>1. Executes(c) /\ row[c].on >= day /\ c \in Buys
          BY <1>10, <2>2, <3>2 DEF ClosedSince, Executes
        <5>2. row[c].on = day
          <6>1. row[c].on \in Nat /\ row[c].on <= day
            BY <1>6, <5>1 DEF FieldsOK, RowType
          <6>. QED  BY <1>5, <5>1, <6>1
        <5>. QED  BY <1>6, <5>1, <5>2
      <4>2. T \ {b} = {}
        BY <4>1
      <4>3. Total(mark', T \ {b}) = 0
        BY <4>2, TotalEmpty
      <4>. QED  BY <1>4, <1>10, <2>5, <3>2, <4>3
    <3>. QED  BY <3>1, <3>2
  <2>9. \A c \in pos'.legs : mark'[c] # 0
    BY <1>4, <1>10 DEF CalmInv, MarkedTotal, FieldsOK, PosType
  <2>10. \E c \in Buys : Executes(c)' /\ mark'[c] # 0 /\ row'[c].on = pos'.since
    <3>1. CASE pos.open
      <4>1. PICK c \in Buys : Executes(c) /\ mark[c] # 0 /\ row[c].on = pos.since
        BY <2>3, <3>1
      <4>. QED  BY <1>0, <1>4, <1>10, <1>11, <3>1, <4>1
    <3>2. CASE ~pos.open
      BY <1>0, <1>2, <1>3, <1>4, <1>10, <1>11, <3>2
    <3>. QED  BY <3>1, <3>2
  <2>. QED  BY <2>8, <2>9, <2>10 DEF MarkedTotal
<1>16. Account'
  <2>1. pos.open => held + sold.owed = pos.qty + q
    BY <1>2, <1>4, <1>6 DEF CalmInv, Account, Balance
  <2>2. held' + sold'.owed = pos'.qty + 0
    BY <1>0, <1>4, <1>5, <1>10, <1>12, <2>1
  <2>. QED  BY <1>10, <1>11, <2>2 DEF Account, Balance
<1>17. SaleOfDay'
  <2>1. ASSUME sold.watch = "tracked" PROVE pos.open /\ pos.qty = sold.owed
    BY <1>2, <1>6, <2>1, CalmFacts DEF CalmInv, SaleOfDay, MarksOfRows
  <2>2. sold.watch = "tracked" => /\ book'[b].on = day' /\ mark'[b] # 0
                                  /\ pos'.qty = sold'.owed + book'[b].filled
    BY <1>0, <1>2, <1>4, <1>10, <2>1
  <2>. QED  BY <1>0, <1>2, <1>10, <2>2 DEF CalmInv, SaleOfDay
<1>18. Entering'
  BY <1>1, <1>10 DEF Entering
<1>. QED  BY <1>13, <1>14, <1>15, <1>16, <1>17, <1>18 DEF CalmInv

\* The backfill leaves a position alone, and reopens a missing one with the newest buy, which
\* is all the account has.
LEMMA CalmBackfill ==
    ASSUME FieldsOK, FieldsOK', BuyInv, Undisturbed, CalmInv, NEW b \in Buys, Backfill(b)
    PROVE  CalmInv'
<1>. USE DEF market
<1>0. /\ UNCHANGED <<day, phase, book, held, settled, sold, row, done>>
      /\ phase = "open" /\ mon.pc = "backfill" /\ b \in mon.todo
      /\ \A c \in mon.todo : book[c].on <= book[b].on
      /\ mon' = [mon EXCEPT !.todo = @ \ {b}]
  BY DEF Backfill
<1>1. /\ mon.leg = NoLeg /\ mon'.leg = NoLeg /\ mon'.pc = "backfill" /\ mon'.todo = mon.todo \ {b}
      /\ mon.api = {"orders", "holdings"}
  BY <1>0, CalmFacts DEF FieldsOK, MonType
<1>2. \A c \in Buys : /\ Executes(c) => /\ mark[c] = row[c].qty /\ row[c].qty > 0
                                       /\ row[c].qty = book[c].filled
                                       /\ c \in OnBook /\ row[c].on = book[c].on
                      /\ ~Executes(c) => mark[c] = 0
  <2>1. \A c \in Buys : Executes(c) => /\ row[c].qty = book[c].filled /\ book[c].filled > 0
                                       /\ c \in OnBook /\ row[c].on = book[c].on
    BY CalmFacts
  <2>2. \A c \in Buys : IF Executes(c) THEN mark[c] = row[c].qty ELSE mark[c] = 0
    BY <1>1, BuysAssumption DEF CalmInv, MarksOfRows
  <2>. QED  BY <2>1, <2>2
<1>3. Executes(b)
  BY <1>0, CalmFacts
<1>4. /\ held \in Nat /\ pos.qty \in Nat /\ sold.owed \in Nat /\ mark \in [Buys -> Nat]
      /\ \A c \in Buys : row[c].qty \in Nat /\ row[c].on \in Nat /\ book[c].on \in Nat
  BY DEF FieldsOK, PosType, SoldType, RowType, BookType
<1>5. /\ OnBook' = OnBook
      /\ \A c \in Buys : Executes(c)' <=> Executes(c)
      /\ OrderOfDay'
  <2>1. /\ OnBook' = OnBook
        /\ \A c \in Buys : Executes(c)' <=> Executes(c)
    BY <1>0 DEF OnBook, Executes
  <2>. QED  BY <1>0, <2>1 DEF CalmInv, OrderOfDay
<1>6. ASSUME UNCHANGED mark PROVE MarksOfRows'
  <2>1. \A c \in done' : Executes(c)' /\ mark'[c] # 0
    BY <1>0, <1>5, <1>6 DEF CalmInv, MarksOfRows, FieldsOK
  <2>2. ASSUME NEW c \in Buys
        PROVE  IF Executes(c)' THEN (c \in done' /\ mark'[c] = row'[c].qty) \/ (c = mon'.leg /\ mark'[c] = 0)
                               ELSE mark'[c] = 0
    <3>1. IF Executes(c) THEN (c \in done /\ mark[c] = row[c].qty) \/ (c = mon.leg /\ mark[c] = 0)
                         ELSE mark[c] = 0
      BY DEF CalmInv, MarksOfRows
    <3>. QED  BY <1>0, <1>1, <1>5, <1>6, <3>1
  <2>3. \A c \in Buys : Late(c)' => book'[c].on = day' /\ phase' = "open"
    BY <1>0, <1>6 DEF CalmInv, MarksOfRows, Late
  <2>. QED  BY <1>1, <2>1, <2>2, <2>3 DEF MarksOfRows
<1>7. mon'.pc = "backfill" => \A c \in mon'.todo : row'[c].on >= day' - Lookback
  BY <1>0, <1>1 DEF CalmInv, Entering
<1>8. HasSellData
  BY <1>1 DEF HasSellData, Undisturbed
<1>9. CASE UNCHANGED <<pos, mark>> /\ (pos.open \/ sold.today > 0 \/ held = 0)
  <2>1. MarkedTotal'
    BY <1>0, <1>5, <1>9, TotalStays DEF CalmInv
  <2>2. \A c \in Buys : Late(c)' <=> Late(c)
    BY <1>0, <1>9 DEF Late
  <2>3. Account'
    BY <1>0, <1>5, <1>9, <2>2 DEF CalmInv, Account, Balance
  <2>4. SaleOfDay'
    BY <1>0, <1>9 DEF CalmInv, SaleOfDay
  <2>5. Entering'
    BY <1>0, <1>5, <1>7, <1>9 DEF CalmInv, Entering, FieldsOK, SoldType
  <2>. QED  BY <1>5, <1>6, <1>9, <2>1, <2>3, <2>4, <2>5 DEF CalmInv
<1>10. CASE BackfillBlocked
  <2>1. UNCHANGED <<pos, mark>>
    BY <1>10 DEF Backfill
  <2>2. sold.today > 0 \/ held = 0
    BY <1>8, <1>10 DEF BackfillBlocked, Sellable
  <2>. QED  BY <1>9, <2>1, <2>2
<1>11. CASE ~BackfillBlocked /\ pos.open
  <2>. DEFINE S == ClosedSince(pos.since)
  <2>1. IsFiniteSet(S) /\ \A c \in S : Executions[c] \in Nat /\ Executions[c] = mark[c]
    BY <1>2, <1>4, FS_Subset, BuysAssumption DEF ClosedSince, Executions, Executes
  <2>2. ClosedTotals = Total(mark, S)
    BY <2>1, TotalSame DEF ClosedTotals
  <2>3. Applied(b, row[b].qty)
    BY <1>2, <1>3, <1>4, <1>11, <2>2 DEF Applied, Reflected, CalmInv, MarkedTotal
  <2>4. UNCHANGED <<pos, mark>>
    BY <1>11, <2>3 DEF Backfill, Apply
  <2>. QED  BY <1>9, <1>11, <2>4
<1>12. CASE ~BackfillBlocked /\ ~pos.open
  <2>1. sold.today = 0 /\ held > 0
    BY <1>1, <1>4, <1>8, <1>12 DEF BackfillBlocked, Sellable, FieldsOK, SoldType
  <2>2. PICK n \in Buys : /\ book[n].filled > 0 /\ held = book[n].filled
                          /\ \A c \in OnBook : book[c].on <= book[n].on
                          /\ \A c \in Buys : Late(c) => c = n
    BY <1>12, <2>1 DEF CalmInv, Account
  <2>3. n \in OnBook
    <3>1. book[n].st = "complete"
      BY <2>2, CalmFacts
    <3>. QED  BY <3>1 DEF OnBook
  <2>4. ~Late(n)
    <3>. SUFFICES ASSUME Late(n) PROVE FALSE
      OBVIOUS
    <3>1. book[n].on = day
      BY DEF CalmInv, MarksOfRows
    <3>2. b = n
      BY <1>3, <1>12, <2>1, <2>3, <3>1 DEF CalmInv, Entering
    <3>. QED  BY <1>2, <1>3, <3>2 DEF Late
  <2>5. Executes(n)
    BY <1>2, <2>2, <2>4 DEF Late
  <2>6. n \in mon.todo
    <3>1. row[b].on >= day - Lookback /\ ClosedSince(day - Lookback) \subseteq mon.todo
      BY <1>0, <1>12, <2>1 DEF CalmInv, Entering
    <3>2. row[b].on <= row[n].on
      BY <1>2, <1>3, <2>2, <2>5
    <3>3. row[n].on >= day - Lookback
      BY <1>4, <3>1, <3>2, BoundAssumption DEF FieldsOK
    <3>. QED  BY <2>5, <3>1, <3>3 DEF ClosedSince, Executes
  <2>7. n = b
    <3>1. book[n].on <= book[b].on /\ book[b].on <= book[n].on /\ b \in OnBook
      BY <1>0, <1>2, <1>3, <2>2, <2>6
    <3>2. book[n].on = book[b].on
      BY <1>4, <3>1
    <3>. QED  BY <2>3, <3>1, <3>2 DEF CalmInv, OrderOfDay
  <2>8. /\ pos' = [open |-> TRUE, qty |-> row[b].qty, since |-> row[b].on, legs |-> {}]
        /\ mark' = [mark EXCEPT ![b] = row[b].qty]
    BY <1>12 DEF Backfill, Apply, Applied, Reflected
  <2>9. UNCHANGED mark
    BY <1>2, <1>3, <1>4, <2>8
  <2>10. /\ pos'.open /\ pos'.qty = row[b].qty /\ pos'.since = row[b].on /\ pos'.legs = {}
         /\ held = row[b].qty /\ sold.owed = 0 /\ sold.watch # "tracked"
    BY <1>2, <1>3, <1>12, <2>2, <2>7, <2>8 DEF CalmInv, SaleOfDay
  <2>11. MarkedTotal'
    <3>. DEFINE T == ClosedSince(pos.since)'
    <3>1. b \in T
      BY <1>0, <1>3, <1>4, <2>10 DEF ClosedSince, Executes
    <3>2. ASSUME NEW c \in T PROVE c = b
      <4>1. Executes(c) /\ row[c].on >= row[b].on /\ c \in Buys
        BY <1>0, <2>10 DEF ClosedSince, Executes
      <4>2. book[c].on >= book[b].on /\ book[c].on <= book[b].on /\ c \in OnBook
        BY <1>2, <1>3, <2>2, <2>7, <4>1
      <4>3. book[c].on = book[b].on
        BY <1>4, <4>1, <4>2
      <4>. QED  BY <2>3, <2>7, <4>2, <4>3 DEF CalmInv, OrderOfDay
    <3>3. T = {b}
      BY <3>1, <3>2
    <3>4. IsFiniteSet(T) /\ \A c \in T : mark'[c] \in Nat
      BY <1>4, <2>9, <3>3, FS_Singleton
    <3>5. Total(mark', T) = mark'[b] + Total(mark', T \ {b})
      BY <3>1, <3>4, TotalPick
    <3>6. Total(mark', T \ {b}) = 0
      <4>1. T \ {b} = {}
        BY <3>3
      <4>. QED  BY <4>1, TotalEmpty
    <3>7. pos'.qty = Total(mark, ClosedSince(pos.since))'
      BY <1>2, <1>3, <1>4, <2>9, <2>10, <3>5, <3>6
    <3>. QED  BY <1>0, <1>2, <1>3, <1>5, <2>9, <2>10, <3>7 DEF MarkedTotal
  <2>12. Account'
    <3>1. \A c \in Buys : ~Late(c)'
      BY <1>0, <2>2, <2>4, <2>9 DEF Late
    <3>2. held' + sold'.owed = pos'.qty + 0
      BY <1>0, <1>4, <2>10
    <3>. QED  BY <2>10, <3>1, <3>2 DEF Account, Balance
  <2>13. SaleOfDay' /\ Entering'
    BY <1>0, <1>7, <2>10 DEF SaleOfDay, Entering
  <2>. QED  BY <1>5, <1>6, <2>9, <2>11, <2>12, <2>13 DEF CalmInv
<1>. QED  BY <1>10, <1>11, <1>12

\* Every step of an undisturbed process keeps position, markers and account in balance.
LEMMA CalmStays ==
    ASSUME FieldsOK, FieldsOK', BuyInv, Undisturbed, CalmInv, [Next]_vars
    PROVE  CalmInv'
<1>1. CASE UNCHANGED vars
  <2>1. Quiet
    BY <1>1 DEF vars, market, durable, memory, Quiet, Executes, CalmInv, OrderOfDay
  <2>. QED  BY <2>1, QuietKeeps
<1>2. CASE Next
  <2>0. UNCHANGED exposed
    BY <1>2 DEF Next
  <2>1. CASE Cycle
    <3>1. CASE \/ StartCycle \/ CancelReentries \/ (RecordSell /\ ~SeesSell)
               \/ \E b \in Buys : SeeRefused(b) \/ SeeOpen(b) \/ SeeInHoldings(b) \/ SeeNowhere(b)
      BY <2>0, <3>1, CalmCycle, QuietKeeps
    <3>2. CASE ApplyExecution
      <4>1. mon.leg \in Buys /\ mon.qty \in Nat
        BY <3>2 DEF ApplyExecution, FieldsOK, MonType
      <4>. QED  BY <3>2, <4>1, CalmApply
    <3>3. CASE StartBackfill
      BY <3>3, CalmStartBackfill
    <3>4. CASE RecordSell /\ SeesSell
      BY <3>4, CalmRecordSell
    <3>5. ASSUME NEW b \in Buys, SeeComplete(b) PROVE CalmInv'
      BY <3>5, CalmComplete
    <3>6. ASSUME NEW b \in Buys, Backfill(b) PROVE CalmInv'
      BY <3>6, CalmBackfill
    <3>. QED  BY <2>1, <3>1, <3>2, <3>3, <3>4, <3>5, <3>6 DEF Cycle
  <2>2. CASE Broker
    <3>1. CASE OpenMarket \/ CloseMarket \/ Lapse \/ \E b \in Buys : Reject(b) \/ BrokerCancel(b)
      BY <2>0, <3>1, CalmBroker, QuietKeeps
    <3>2. CASE SellFill \/ NextDay
      BY <3>2, CalmSale, CalmNextDay
    <3>3. ASSUME NEW b \in Buys, Fill(b) PROVE CalmInv'
      BY <3>3, CalmFill
    <3>. QED  BY <2>2, <3>1, <3>2, <3>3 DEF Broker
  <2>3. CASE Process
    <3>1. CASE MorningReconcile \/ EodCleanup \/ Heartbeat \/ Crash \/ Stop \/ Start
      BY <2>0, <3>1, CalmTasks, QuietKeeps
    <3>2. ASSUME NEW b \in Buys, PlaceInitial(b) PROVE CalmInv'
      <4>1. held = settled /\ held \in Nat
        BY <3>2 DEF PlaceInitial, CalmInv, OrderOfDay, FieldsOK
      <4>2. held = 0 /\ \A c \in Buys : ~Executes(c)
        BY <3>2, <4>1 DEF PlaceInitial, DuplicateEntry, Holdings, Smaller, Executes
      <4>. QED  BY <3>2, <4>2, CalmPlace DEF PlaceInitial
    <3>3. ASSUME NEW b \in Buys, PlaceReentry(b) PROVE CalmInv'
      <4>1. UNCHANGED <<pos, sold>>
        BY <3>3, CalmReconcile DEF PlaceReentry, CalmInv
      <4>. QED  BY <3>3, <4>1, CalmPlace DEF PlaceReentry
    <3>. QED  BY <2>3, <3>1, <3>2, <3>3 DEF Process
  <2>. QED  BY <1>2, <2>1, <2>2, <2>3 DEF Next
<1>. QED  BY <1>1, <1>2

\* It holds before the first order.
LEMMA CalmStarts == Init => CalmInv
<1>. SUFFICES ASSUME Init PROVE CalmInv
  OBVIOUS
<1>1. /\ day = 1 /\ phase = "pre" /\ held = 0 /\ settled = 0 /\ ~pos.open /\ done = {}
      /\ sold.today = 0 /\ sold.owed = 0 /\ sold.watch = "none"
      /\ mon.pc = "idle" /\ mon.leg = NoLeg /\ mon.todo = {}
      /\ \A b \in Buys : /\ row[b].st = "none" /\ book[b].st = "none" /\ book[b].filled = 0
                         /\ mark[b] = 0
  BY DEF Init, IdleMonitor, NoPosition
<1>. QED  BY <1>1 DEF CalmInv, OrderOfDay, MarksOfRows, MarkedTotal, Account, SaleOfDay, Entering,
             OnBook, Late, Executes

\* The invariant of an undisturbed process, in every reachable state.
LEMMA CalmHolds == Spec => [](FieldsOK /\ BuyInv /\ (Undisturbed => CalmInv))
<1>1. FieldsOK /\ FieldsOK' /\ BuyInv /\ (Undisturbed => CalmInv) /\ [Next]_vars => (Undisturbed => CalmInv)'
  <2>. SUFFICES ASSUME FieldsOK, FieldsOK', BuyInv, Undisturbed => CalmInv, [Next]_vars, Undisturbed'
                PROVE  CalmInv'
    OBVIOUS
  <2>1. Undisturbed
    BY DEF Undisturbed, Next, vars
  <2>. QED  BY <2>1, CalmStays
<1>. QED  BY <1>1, CalmStarts, BuyInvHolds, PTL DEF Spec

\* The position of an undisturbed process is backed by the account, counts no execution
\* twice, and after a backfill leaves none out.
LEMMA CalmPosition ==
    ASSUME FieldsOK, BuyInv, Undisturbed, CalmInv
    PROVE  NoDoubleCount /\ PositionBacked /\ BackfillCovers
<1>. SUFFICES ASSUME pos.open PROVE NoDoubleCount /\ PositionBacked /\ BackfillCovers
  BY DEF NoDoubleCount, PositionBacked, BackfillCovers
<1>. DEFINE S == ClosedSince(pos.since)
            T == ClosedSince(Larger(pos.since, day - Lookback))
<1>1. /\ pos.qty = Total(mark, S) /\ \E c \in Buys : row[c].on = pos.since
      /\ pos.qty \in Nat /\ held \in Nat /\ sold.owed \in Nat
  BY DEF CalmInv, MarkedTotal, FieldsOK, PosType, SoldType
<1>2. /\ IsFiniteSet(S) /\ S \subseteq Buys
      /\ \A c \in S : Executes(c) /\ mark[c] \in Nat /\ Executions[c] \in Nat
  BY FS_Subset, BuysAssumption DEF ClosedSince, Executes, FieldsOK, Executions, RowType
<1>3. \A c \in S : mark[c] <= Executions[c]
  BY <1>2 DEF CalmInv, MarksOfRows, Executions
<1>4. NoDoubleCount
  <2>1. Total(mark, S) <= Total(Executions, S)
    BY <1>2, <1>3, TotalAtMost
  <2>. QED  BY <1>1, <2>1 DEF NoDoubleCount, ClosedTotals
<1>5. PositionBacked
  <2>1. CASE \A b \in Buys : ~Late(b)
    BY <1>1, <2>1 DEF CalmInv, Account, Balance, PositionBacked
  <2>2. ASSUME NEW b \in Buys, Late(b) PROVE PositionBacked
    <3>1. held + sold.owed = pos.qty + book[b].filled /\ book[b].filled \in Nat
      BY <2>2 DEF CalmInv, Account, Balance, FieldsOK, BookType
    <3>. QED  BY <1>1, <3>1 DEF PositionBacked
  <2>. QED  BY <2>1, <2>2
<1>6. BackfillCovers
  <2>. SUFFICES ASSUME mon.pc = "backfill" PROVE pos.qty >= Total(Executions, T)
    BY DEF BackfillCovers
  <2>1. mon.leg = NoLeg
    BY CalmFacts
  <2>2. \A c \in S : Executions[c] <= mark[c]
    BY <1>2, <2>1, BuysAssumption DEF CalmInv, MarksOfRows, Executions
  <2>3. T \subseteq S
    <3>1. day \in Nat /\ Lookback \in Nat /\ pos.since \in Nat /\ \A c \in Buys : row[c].on \in Nat
      BY BoundAssumption DEF FieldsOK, PosType, RowType
    <3>2. Larger(pos.since, day - Lookback) >= pos.since /\ Larger(pos.since, day - Lookback) \in Int
      BY <3>1 DEF Larger
    <3>. QED  BY <3>1, <3>2 DEF ClosedSince
  <2>4. Total(Executions, T) <= Total(mark, S)
    BY <1>2, <2>2, <2>3, TotalAtMost
  <2>5. Total(Executions, T) \in Nat
    BY <1>2, <2>3, FS_Subset, TotalType
  <2>. QED  BY <1>1, <2>4, <2>5
<1>. QED  BY <1>4, <1>5, <1>6

\* Both tables are faithful to what the broker executed: the position while nothing
\* disturbs the process, the orders as far as the events of the scenario allow.
THEOREM TablesCorrect == Spec => []TablesFaithful
<1>1. FieldsOK /\ BuyInv /\ (Undisturbed => CalmInv) => (Undisturbed => NoDoubleCount /\ PositionBacked /\ BackfillCovers)
  BY CalmPosition
<1>2. (Undisturbed => NoDoubleCount /\ PositionBacked /\ BackfillCovers) /\ NewBuyHasPosition /\ OrdersFaithful
      => TablesFaithful
  BY DEF TablesFaithful, PositionFaithful
<1>. QED  BY <1>1, <1>2, CalmHolds, NewBuyCorrect, OrdersCorrect, PTL
=============================================================================
