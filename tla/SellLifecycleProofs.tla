------------------------- MODULE SellLifecycleProofs -------------------------
(***************************************************************************)
(* Proofs about SellLifecycle, for any number of orders, shares, days and  *)
(* events, and every combination of events.                                *)
(*                                                                         *)
(* TypeCorrect    no quantity exceeds what was bought, and the orders that *)
(*                are out ask for no more than the account holds.          *)
(* SalesCorrect   the engine closes no position it still holds, and every  *)
(*                order that can still fill is followed or has its row.    *)
(* OneSale        the broker never has to refuse a second sale of the same *)
(*                shares.                                                  *)
(*                                                                         *)
(* The last part is about the orders that buy (OrderPlacement, as the      *)
(* instance P), for any symbols, any limit and any number of orders.       *)
(*                                                                         *)
(* PlacementTypeCorrect   tables, broker and worker keep their types, and  *)
(*                        failed rows expire in time.                      *)
(* OneOrderCorrect        no symbol has two orders of the system, or one   *)
(*                        beside its position or its shares.               *)
(* OrdersCorrect          nor do positions and orders exceed the limit,    *)
(*                        where one row at most is retried; where no order *)
(*                        gets lost, each has its row.                     *)
(*                                                                         *)
(* That a position is closed only after its sale depends on every function *)
(* that places an order doing so when none is out, although each asks the  *)
(* broker, the tables or the memory at a time of its own.  The invariant   *)
(* therefore says what the memory is worth (Followed): an order the engine *)
(* follows is the only one that can be out, and the one that has sold if   *)
(* any has.  A failed report reads as no orders; then the memory alone     *)
(* must tell that none is out (Blind).                                     *)
(***************************************************************************)
EXTENDS SellLifecycle, FiniteSetTheorems, WellFoundedInduction, TLAPS

-----------------------------------------------------------------------------
(* Types, as far as they can be told without adding up the open orders       *)

Statuses  == {"none", "open", "complete", "cancelled"} \cup Refused
OrderType == [st : Statuses, qty : Int, on : Int, by : {"none", "system", "user"}]
BookType  == [Orders -> OrderType]
RowType   == [Orders -> {"none", "pending", "closed", "cancelled", "failed"}]
PosType   == [open : BOOLEAN, qty : Int, since : Int, last : Int, first : Int]
SellType  == {NoSell} \cup [id : Orders, qty : Int]

Typed ==
    /\ book \in BookType /\ report \in BookType
    /\ row \in RowType /\ pos \in PosType /\ active \in SellType
    /\ day \in Int /\ held \in Int /\ fresh \in Int /\ waiting \in Int /\ defer \in Int
    /\ sales \subseteq Orders
    /\ pc = "convert" => Tracking

\* Orders that enter the book, or are withdrawn from it, are orders (Entered,
\* Withdrawn).
LEMMA EnteredType ==
  ASSUME Typed, NEW b \in BookType, NEW o \in Orders, NEW q \in Int, NEW st \in Statuses,
         NEW who \in {"none", "system", "user"}
  PROVE  Entered(b, o, q, st, who) \in BookType
  BY DEF Entered, BookType, OrderType, Typed

LEMMA WithdrawnType ==
  ASSUME Typed, NEW o \in Orders
  PROVE  Withdrawn(o) \in BookType
  BY DEF Withdrawn, BookType, OrderType, Typed, Statuses

\* The answers of the broker are states of an order (Answers).
LEMMA AnswersType == \A b, q : Answers(b, q) \subseteq Statuses
  BY DEF Answers, Statuses, Refused

\* An order that was tracked is one of the broker's (Track, Untrack).
LEMMA SellTypes ==
    /\ NoSell \in SellType
    /\ \A o \in Orders, q \in Int : [id |-> o, qty |-> q] \in SellType
    /\ \A s \in SellType : s # NoSell => s.id \in Orders /\ s.qty \in Int
    /\ \A s \in SellType : s.id \in 0 .. MaxOrders /\ s.qty \in Int
    /\ \A o \in Orders, q \in Int : [id |-> o, qty |-> q] # NoSell
  BY SellAssumption DEF SellType, NoSell, Orders

\* A placement leaves every variable within its type (PlaceSell).
LEMMA PlaceType ==
  ASSUME Typed, NEW q \in Int, NEW followed \in BOOLEAN, NEW base \in RowType,
         PlaceSell(q, followed, base)
  PROVE  /\ book' \in BookType /\ row' \in RowType /\ active' \in SellType
         /\ waiting' \in Int /\ defer' \in Int
<1>1. CASE \E o \in Spare :
               /\ Enter(book, q, o)
               /\ row' = NewRow(base, o)
               /\ IF followed THEN Track(o, q) ELSE Untrack
               /\ UNCHANGED <<waiting, defer>>
  <2>1. PICK o \in Spare :
               /\ Enter(book, q, o)
               /\ row' = NewRow(base, o)
               /\ IF followed THEN Track(o, q) ELSE Untrack
               /\ UNCHANGED <<waiting, defer>>
    BY <1>1
  <2>2. o \in Orders
    BY DEF Spare
  <2>3. book' \in BookType
    BY <2>1, <2>2, EnteredType, AnswersType DEF Enter, Typed
  <2>4. row' \in RowType
    BY <2>1, <2>2 DEF NewRow, RowType
  <2>5. active' \in SellType
    BY <2>1, <2>2, SellTypes DEF Track, Untrack
  <2> QED
    BY <2>1, <2>3, <2>4, <2>5 DEF Typed
<1>2. CASE \/ /\ "circuit" \in exposed
              /\ waiting' = q /\ defer' = q
              /\ Untrack /\ row' = base /\ UNCHANGED book
           \/ /\ "placeFails" \in exposed \/ Spare = {}
              /\ Untrack /\ row' = base
              /\ UNCHANGED <<book, waiting, defer>>
  BY <1>2, SellTypes DEF Untrack, Typed
<1> QED
  BY <1>1, <1>2 DEF PlaceSell

\* So does a change of an order (UpdateSell).
LEMMA UpdateType ==
  ASSUME Typed, NEW o \in Orders, NEW q \in Int, NEW registers \in BOOLEAN,
         UpdateSell(o, q, registers)
  PROVE  /\ book' \in BookType /\ active' \in SellType
         /\ Tracking => active' # NoSell
<1>1. CASE /\ Modifiable(o, q)
           /\ book' = [book EXCEPT ![o].qty = q]
           /\ IF registers THEN Track(o, q) ELSE UNCHANGED active
  <2>1. book' \in BookType
    BY <1>1 DEF Typed, BookType, OrderType
  <2> QED
    BY <1>1, <2>1, SellTypes DEF Track, Typed, Tracking
<1>2. CASE \E n \in Spare : /\ Enter(Withdrawn(o), q, n)
                            /\ IF registers THEN Track(o, q) ELSE Track(n, q)
  <2>1. PICK n \in Spare : /\ Enter(Withdrawn(o), q, n)
                           /\ IF registers THEN Track(o, q) ELSE Track(n, q)
    BY <1>2
  <2>2. n \in Orders
    BY DEF Spare
  <2>3. book' \in BookType
    BY <2>1, <2>2, WithdrawnType, EnteredType, AnswersType DEF Enter
  <2> QED
    BY <2>1, <2>2, <2>3, SellTypes DEF Track, Tracking
<1>3. CASE book' = Withdrawn(o) /\ UNCHANGED active
  BY <1>3, WithdrawnType DEF Typed, Tracking
<1>4. CASE UNCHANGED <<book, active>>
  BY <1>4 DEF Typed, Tracking
<1> QED
  BY <1>1, <1>2, <1>3, <1>4 DEF UpdateSell

\* What can be sold of a position is a number (Sellable), and what the tables say
\* of a position is one (CloseIf, Bought, Reduced).
LEMMA PositionTypes ==
  ASSUME Typed
  PROVE  /\ NoPosition \in PosType /\ Listings \subseteq Int
         /\ \A c \in BOOLEAN : CloseIf(c) \in PosType
         /\ \A q \in Int : Reduced(q) \in PosType /\ Bought(q) \in PosType
         /\ \A q \in Int : [pos EXCEPT !.qty = q] \in PosType
<1>1. pos \in PosType /\ day \in Int /\ held \in Int
  BY DEF Typed
<1>2. NoPosition \in PosType /\ Listings \subseteq Int
  BY <1>1 DEF NoPosition, PosType, Listings, Sellable
<1>3. \A q \in Int : [pos EXCEPT !.qty = q] \in PosType
  BY <1>1 DEF PosType
<1>4. \A q \in Int : Reduced(q) \in PosType
  BY <1>1, <1>2 DEF Reduced, PosType
<1>5. ASSUME NEW q \in Int PROVE Bought(q) \in PosType
  <2> DEFINE entered == {o \in Orders : book[o].st # "none"}
  <2>1. IsFiniteSet(Orders)
    BY FS_Interval, SellAssumption DEF Orders
  <2>2. Cardinality(entered) \in Int
    BY <2>1, FS_Subset, FS_CardinalityType
  <2> DEFINE more  == pos.qty + q
             first == 1 + Cardinality(entered)
  <2>3. more \in Int /\ first \in Int
    BY <1>1, <2>2 DEF PosType
  <2>4. Bought(q) = IF pos.open THEN [pos EXCEPT !.qty = more, !.last = day]
                    ELSE [open |-> TRUE, qty |-> q, since |-> day, last |-> day,
                          first |-> first]
    BY DEF Bought
  <2> HIDE DEF entered, more, first
  <2>5. [pos EXCEPT !.qty = more, !.last = day] \in PosType
    BY <1>1, <2>3 DEF PosType
  <2>6. [open |-> TRUE, qty |-> q, since |-> day, last |-> day, first |-> first] \in PosType
    BY <1>1, <2>3 DEF PosType
  <2> QED
    BY <2>4, <2>5, <2>6
<1> QED
  BY <1>1, <1>2, <1>3, <1>4, <1>5 DEF CloseIf

\* Every variable is within its type in the initial states (Init).
LEMMA InitTyped == Init => Typed
<1> SUFFICES ASSUME Init PROVE Typed
  OBVIOUS
<1>1. book \in BookType /\ report \in BookType /\ row \in RowType
  BY DEF Init, BookType, OrderType, NoOrder, Statuses, RowType
<1>2. pos \in PosType
  <2>1. NoPosition \in PosType
    BY DEF NoPosition, PosType
  <2>2. \A q \in Int : [NoPosition EXCEPT !.open = TRUE, !.qty = q] \in PosType
    BY <2>1 DEF PosType
  <2>3. Shares \in Int
    BY SellAssumption
  <2> QED
    BY <2>2, <2>3 DEF Init
<1> QED
  BY <1>1, <1>2, SellAssumption, SellTypes DEF Init, Typed

\* Every step of the market leaves every variable within its type (Market).
LEMMA MarketTyped == Typed /\ Market => Typed'
<1> SUFFICES ASSUME Typed, Market PROVE Typed'
  OBVIOUS
<1> USE DEF tables, memory, locals, Tracking
<1>1. CASE CloseMarket
  BY <1>1 DEF CloseMarket, Typed
<1>2. CASE NextDay
  <2>1. book' \in BookType
    BY <1>2, SMTT(20) DEF NextDay, Typed, BookType, OrderType, Statuses
  <2> QED
    BY <1>2, <2>1 DEF NextDay, Typed
<1>3. CASE BuyFills
  BY <1>3, SellAssumption DEF BuyFills, Typed
<1>4. ASSUME NEW o \in Orders, Fill(o) PROVE Typed'
  <2>1. book' \in BookType /\ held' \in Int
    BY <1>4 DEF Fill, Typed, BookType, OrderType, Statuses
  <2> QED
    BY <1>4, <2>1 DEF Fill, Typed
<1>5. ASSUME NEW o \in Orders, UserCancel(o) PROVE Typed'
  <2>1. book' \in BookType
    BY <1>5 DEF UserCancel, Typed, BookType, OrderType, Statuses
  <2> QED
    BY <1>5, <2>1 DEF UserCancel, Typed
<1>6. ASSUME NEW q \in 1 .. Shares, UserSale(q) PROVE Typed'
  <2>1. PICK o \in Orders : book' = Entered(book, o, q, "complete", "user")
    BY <1>6 DEF UserSale, Spare
  <2>2. book' \in BookType /\ held' \in Int
    BY <1>6, <2>1, EnteredType, SellAssumption DEF UserSale, Typed, Statuses
  <2> QED
    BY <1>6, <2>2 DEF UserSale, Typed
<1> QED
  BY <1>1, <1>2, <1>3, <1>4, <1>5, <1>6 DEF Market

\* So does every step at market open (Morning).
LEMMA MorningTyped == Typed /\ Morning => Typed'
<1> SUFFICES ASSUME Typed, Morning PROVE Typed'
  OBVIOUS
<1> USE DEF tables, memory, locals, Tracking, At
<1>1. CASE Reconcile
  <2>1. Restored \in Int
    BY DEF Restored, Typed
  <2>2. pos' \in PosType
    BY <1>1, PositionTypes DEF Reconcile, Typed
  <2> QED
    BY <1>1, <2>1, <2>2 DEF Reconcile, Typed
<1>2. CASE CancelOrphans
  <2>1. book' \in BookType
    <3>1. \A o \in Orders : [book[o] EXCEPT !.st = "cancelled"] \in OrderType
      BY DEF Typed, BookType, OrderType, Statuses
    <3>2. book' = [o \in Orders |-> IF Orphan(o) /\ book[o].st = "open"
                                   THEN [book[o] EXCEPT !.st = "cancelled"] ELSE book[o]]
      BY <1>2 DEF CancelOrphans
    <3> QED
      BY <3>1, <3>2 DEF Typed, BookType
  <2>2. row' \in RowType
    BY <1>2 DEF CancelOrphans, Typed, RowType
  <2> QED
    BY <1>2, <2>1, <2>2 DEF CancelOrphans, Typed
<1>3. CASE Opening
  <2> DEFINE Effect == /\ book' \in BookType /\ row' \in RowType /\ active' \in SellType
                       /\ waiting' \in Int /\ defer' \in Int
  <2>1. ASSUME UNCHANGED <<book, row, waiting, defer>>, Untrack \/ UNCHANGED active
        PROVE  Effect
    BY <2>1, SellTypes DEF Typed, Untrack
  <2>2. ASSUME NEW o \in Existing, row' = WithRow(o), UNCHANGED <<waiting, defer>>,
               UpdateSell(o, pos.qty, TRUE) \/ (Track(o, book[o].qty) /\ UNCHANGED book)
        PROVE  Effect
    <3>1. o \in Orders /\ pos.qty \in Int /\ book[o].qty \in Int
      BY DEF Existing, Live, Typed, PosType, BookType, OrderType
    <3>2. row' \in RowType
      BY <2>2, <3>1 DEF WithRow, Typed, RowType
    <3>3. CASE UpdateSell(o, pos.qty, TRUE)
      BY <2>2, <3>1, <3>2, <3>3, UpdateType DEF Typed
    <3>4. CASE Track(o, book[o].qty) /\ UNCHANGED book
      BY <2>2, <3>1, <3>2, <3>4, SellTypes DEF Track, Typed
    <3> QED
      BY <2>2, <3>3, <3>4
  <2>3. ASSUME NEW listed \in Listings, PlaceSell(listed, TRUE, row) PROVE Effect
    BY <2>3, PlaceType, PositionTypes DEF Typed
  <2>4. Effect
    BY <1>3, <2>1, <2>2, <2>3 DEF Opening
  <2> QED
    BY <1>3, <2>4 DEF Opening, Typed
<1>4. CASE Resume
  BY <1>4 DEF Resume, Restored, Typed
<1> QED
  BY <1>1, <1>2, <1>3, <1>4 DEF Morning

\* So does every step of a minute (Cycle).
LEMMA CleanTyped ==
  ASSUME Typed, CleanUp
  PROVE  /\ book' \in BookType /\ row' \in RowType /\ pos' \in PosType
         /\ active' \in SellType /\ waiting' \in Int /\ defer' \in Int
<1> DEFINE o         == active.id
           ended(st) == [row EXCEPT ![o] = IF @ = "none" THEN @ ELSE st]
           Effect    == /\ book' \in BookType /\ row' \in RowType /\ pos' \in PosType
                        /\ active' \in SellType /\ waiting' \in Int /\ defer' \in Int
<1>1. \A st \in {"failed", "cancelled"} : ended(st) \in RowType
  BY DEF Typed, RowType
<1>2. active \in SellType /\ active.qty \in Int
  BY SellTypes DEF Typed
<1>3. ASSUME UNCHANGED <<book, tables, active, waiting>> PROVE Effect
  BY <1>3 DEF Typed, tables
<1>4. ASSUME Untrack, row' = ended("failed"), pos' = CloseIf(Gone(o) /\ row[o] # "none"),
             UNCHANGED waiting \/ waiting' = active.qty, UNCHANGED <<book, defer>>
      PROVE  Effect
  <2>1. pos' \in PosType
    BY <1>4, PositionTypes DEF CloseIf, Typed
  <2> QED
    BY <1>1, <1>2, <1>4, <2>1, SellTypes DEF Typed, Untrack
<1>5. ASSUME PlaceSell(active.qty, FALSE, ended("cancelled")), UNCHANGED pos PROVE Effect
  <2> DEFINE base == ended("cancelled")
  <2>1. base \in RowType
    BY <1>1
  <2>2. PlaceSell(active.qty, FALSE, base)
    BY <1>5
  <2> HIDE DEF base, ended
  <2> QED
    BY <1>2, <1>5, <2>1, <2>2, PlaceType DEF Typed
<1>6. ASSUME Untrack, row' = ended("cancelled"), UNCHANGED <<book, waiting, defer, pos>>
      PROVE  Effect
  BY <1>1, <1>6, SellTypes DEF Typed, Untrack
<1> HIDE DEF ended
<1> QED
  BY <1>3, <1>4, <1>5, <1>6 DEF CleanUp, ended

LEMMA CycleTyped == Typed /\ Cycle => Typed'
<1> SUFFICES ASSUME Typed, Cycle PROVE Typed'
  OBVIOUS
<1> USE DEF tables, memory, locals, Tracking, At
<1>1. CASE RecordBuy
  <2> DEFINE Effect == book' \in BookType /\ active' \in SellType
  <2>1. pos' \in PosType
    BY <1>1, PositionTypes DEF RecordBuy, Typed
  <2>2. ASSUME NEW o \in Existing, UpdateSell(o, pos.qty + fresh, FALSE) PROVE Effect
    <3>1. o \in Orders /\ pos.qty + fresh \in Int
      BY DEF Existing, Live, Typed, PosType
    <3> QED
      BY <2>2, <3>1, UpdateType
  <2>3. Effect
    BY <1>1, <2>2 DEF RecordBuy, Typed
  <2> QED
    BY <1>1, <2>1, <2>3 DEF RecordBuy, Typed
<1>2. CASE Adopt
  <2>1. active' \in SellType
    BY <1>2, SellTypes DEF Adopt, Track, Live, Typed, BookType, OrderType
  <2> QED
    BY <1>2, <2>1 DEF Adopt, Typed
<1>3. CASE Clean
  BY <1>3, CleanTyped DEF Clean, Typed
<1>4. CASE Stale
  <2>1. row' \in RowType
    BY <1>4 DEF Stale, Typed, RowType
  <2>2. pos' \in PosType
    BY <1>4, PositionTypes DEF Stale, Typed, CloseIf
  <2> QED
    BY <1>4, <2>1, <2>2 DEF Stale, Typed
<1>5. CASE Retry
  <2>1. Queued \in Int
    BY DEF Queued, Restored, Typed
  <2>2. ASSUME NEW o \in Spare, Enter(book, Queued, o), row' = [row EXCEPT ![o] = "pending"],
               Track(o, Queued)
        PROVE  book' \in BookType /\ row' \in RowType /\ active' \in SellType
    <3>1. o \in Orders
      BY DEF Spare
    <3>2. book' \in BookType
      BY <2>1, <2>2, <3>1, EnteredType, AnswersType DEF Enter, Typed
    <3>3. row' \in RowType
      BY <2>2, <3>1 DEF Typed, RowType
    <3> QED
      BY <2>1, <2>2, <3>1, <3>2, <3>3, SellTypes DEF Track
  <2>3. book' \in BookType /\ row' \in RowType /\ active' \in SellType
    BY <1>5, <2>2 DEF Retry, Typed
  <2> QED
    BY <1>5, <2>1, <2>3 DEF Retry, Typed
<1>6. CASE Sync
  <2>1. ASSUME NEW o \in Existing, row' = WithRow(o), Track(o, book[o].qty)
        PROVE  row' \in RowType /\ active' \in SellType
    <3>1. o \in Orders /\ book[o].qty \in Int
      BY DEF Existing, Live, Typed, BookType, OrderType
    <3>2. row' \in RowType
      BY <2>1, <3>1 DEF WithRow, Typed, RowType
    <3> QED
      BY <2>1, <3>1, <3>2, SellTypes DEF Track
  <2>2. row' \in RowType /\ active' \in SellType
    BY <1>6, <2>1 DEF Sync, Typed
  <2> QED
    BY <1>6, <2>2 DEF Sync, Typed
<1>7. CASE Missing
  <2>1. ASSUME NEW listed \in Listings, PlaceSell(listed, TRUE, row) PROVE Typed'
    BY <1>7, <2>1, PlaceType, PositionTypes DEF Missing, Typed
  <2> QED
    BY <1>7, <2>1 DEF Missing, Typed
<1>8. CASE ReadReport
  <2>1. report' \in BookType
    BY <1>8 DEF ReadReport, Typed, BookType, OrderType, NoOrder, Statuses
  <2> QED
    BY <1>8, <2>1 DEF ReadReport, Typed, Complete, Today
<1>9. ASSUME NEW o \in Orders, Detect(o) PROVE Typed'
  <2>1. report[o].qty \in Int
    BY DEF Typed, BookType, OrderType
  <2>2. pos' \in PosType /\ active' \in SellType
    BY <1>9, <2>1, PositionTypes, SellTypes DEF Detect, Track, Typed
  <2> QED
    BY <1>9, <2>2 DEF Detect, Typed
<1>10. CASE Fix
  <2>1. ASSUME NEW o \in Unsold, UpdateSell(o, pos.qty, TRUE)
        PROVE  book' \in BookType /\ active' \in SellType
    <3>1. o \in Orders /\ pos.qty \in Int
      BY DEF Unsold, Typed, PosType
    <3> QED
      BY <2>1, <3>1, UpdateType
  <2>2. book' \in BookType /\ active' \in SellType
    BY <1>10, <2>1 DEF Fix, Typed
  <2> QED
    BY <1>10, <2>2 DEF Fix, Typed
<1>11. CASE Settle
  <2>1. report' \in BookType
    BY <1>11 DEF Settle, BookType, OrderType, NoOrder, Statuses
  <2>2. pos' \in PosType /\ active' \in SellType
    BY <1>11, PositionTypes, SellTypes DEF Settle, Untrack, Typed
  <2>3. pc' = "convert" => active' # NoSell
    BY <1>11 DEF Settle
  <2> QED
    BY <1>11, <2>1, <2>2, <2>3 DEF Settle, Typed
<1>12. CASE Convert
  <2>1. active.id \in Orders /\ active.qty \in Int
    BY <1>12, SellTypes DEF Convert, Typed
  <2>2. [book EXCEPT ![active.id].qty = active.qty] \in BookType
    BY <2>1 DEF Typed, BookType, OrderType
  <2>3. ASSUME NEW n \in Spare, Enter(Withdrawn(active.id), active.qty, n)
        PROVE  book' \in BookType
    BY <2>1, <2>3, EnteredType, WithdrawnType, AnswersType DEF Enter, Spare
  <2>5. book' \in BookType
    BY <1>12, <2>1, <2>2, <2>3, WithdrawnType DEF Convert, Typed
  <2>4. active' \in SellType
    BY <1>12, SellTypes DEF Convert, Untrack, Typed
  <2> QED
    BY <1>12, <2>4, <2>5 DEF Convert, Typed
<1>13. CASE Update
  <2>1. ASSUME Tracking, UpdateSell(active.id, active.qty, FALSE)
        PROVE  book' \in BookType /\ active' \in SellType
    <3>1. active.id \in Orders /\ active.qty \in Int
      BY <2>1, SellTypes DEF Typed
    <3> QED
      BY <2>1, <3>1, UpdateType
  <2>2. book' \in BookType /\ active' \in SellType
    BY <1>13, <2>1, SellTypes DEF Update, Untrack, Typed
  <2> QED
    BY <1>13, <2>2 DEF Update, Typed
<1> QED
  BY <1>1, <1>2, <1>3, <1>4, <1>5, <1>6, <1>7, <1>8, <1>9, <1>10, <1>11, <1>12, <1>13
  DEF Cycle

\* Every step leaves every variable within its type.
LEMMA NextTyped == Typed /\ [Next]_vars => Typed'
<1> SUFFICES ASSUME Typed, [Next]_vars PROVE Typed'
  OBVIOUS
<1>1. CASE UNCHANGED vars
  BY <1>1 DEF vars, market, tables, memory, locals, Typed, Tracking
<1>2. CASE Crash
  <2>1. report' \in BookType
    BY <1>2 DEF Crash, BookType, OrderType, NoOrder, Statuses
  <2> QED
    BY <1>2, <2>1, SellTypes DEF Crash, market, tables, Typed
<1>3. ASSUME NEW o \in Orders, Verify(o) PROVE Typed'
  <2>1. row' \in RowType
    BY <1>3 DEF Verify, Typed, RowType
  <2> QED
    BY <1>3, <2>1 DEF Verify, market, locals, Typed, Tracking
<1> QED
  BY <1>1, <1>2, <1>3, MarketTyped, MorningTyped, CycleTyped DEF Next, Engine

-----------------------------------------------------------------------------
(* Totals: what a sum over a finite set of orders does when the set grows or *)
(* a value changes                                                           *)

\* A set of subsets of a finite set has a smallest one: what induction over data rests on.
LEMMA MinimalSet ==
    ASSUME NEW S, IsFiniteSet(S), NEW B \in SUBSET SUBSET S, B # {}
    PROVE  \E T \in B : \A U \in B : U \subseteq T => U = T
<1>1. IsWellFoundedOn(StrictSubsetOrdering(S), SUBSET S)
  BY FS_StrictSubsetOrderingWellFounded, FS_FiniteSubsetsOfFinite
<1>2. \E T \in B : \A U \in B : <<U, T>> \notin StrictSubsetOrdering(S)
  BY <1>1, WFMin
<1>. QED  BY <1>2 DEF StrictSubsetOrdering

\* Induction over the natural numbers, with the numbers in question as a set.
LEMMA AllNumbers ==
    ASSUME NEW N, 0 \in N, \A n \in Nat : n \in N => n + 1 \in N
    PROVE  Nat \subseteq N
<1>. SUFFICES ASSUME Nat \ N # {} PROVE FALSE
  OBVIOUS
<1>1. \E m \in Nat \ N : \A n \in Nat \ N : <<n, m>> \notin OpToRel(<, Nat)
  BY NatLessThanWellFounded, WFMin
<1>2. PICK m \in Nat \ N : \A n \in Nat \ N : ~(n < m)
  BY <1>1 DEF OpToRel
<1>3. m # 0 /\ m - 1 \in Nat /\ m - 1 < m
  BY <1>2
<1>4. m - 1 \in N
  BY <1>2, <1>3
<1>. QED  BY <1>2, <1>3, <1>4

\* The recursion behind a total: the table g of the sums of all subsets.
First(s) == CHOOSE x \in s : TRUE
Sum(q, g, s) == IF s = {} THEN 0 ELSE q[First(s)] + g[s \ {First(s)}]
Sums(q, S, g) == g = [s \in SUBSET S |-> Sum(q, g, s)]

\* The subsets of a finite set have such a table: by induction on their size.
LEMMA SumExists ==
    ASSUME NEW S, IsFiniteSet(S), NEW q
    PROVE  \E g : g = [s \in SUBSET S |-> Sum(q, g, s)]
<1>. DEFINE Level(n) == {s \in SUBSET S : Cardinality(s) <= n}
           N == {n \in Nat : \E g : g = [s \in Level(n) |-> Sum(q, g, s)]}
<1>0. \A s \in SUBSET S : IsFiniteSet(s) /\ Cardinality(s) \in Nat /\ Cardinality(s) <= Cardinality(S)
  BY FS_Subset, FS_CardinalityType
<1>1. 0 \in N
  <2>. DEFINE g == [s \in Level(0) |-> 0]
  <2>1. Level(0) = {{}}
    BY <1>0, FS_EmptySet
  <2>2. g = [s \in Level(0) |-> Sum(q, g, s)]
    BY <2>1 DEF Sum
  <2>. QED  BY <2>2
<1>2. ASSUME NEW n \in Nat, n \in N
      PROVE  n + 1 \in N
  <2>1. PICK g : g = [s \in Level(n) |-> Sum(q, g, s)]
    BY <1>2
  <2>. DEFINE h == [s \in Level(n + 1) |-> Sum(q, g, s)]
  <2>2. ASSUME NEW s \in Level(n + 1), s # {}
        PROVE  s \ {First(s)} \in Level(n)
    <3>1. First(s) \in s
      BY <2>2 DEF First
    <3>2. Cardinality(s \ {First(s)}) = Cardinality(s) - 1
      BY <3>1, <1>0, FS_RemoveElement
    <3>. QED  BY <3>2, <1>0
  <2>3. \A s \in Level(n) : s \in Level(n + 1)
    BY <1>0
  <2>4. \A s \in Level(n) : h[s] = g[s]
    BY <2>1, <2>3
  <2>5. \A s \in Level(n + 1) : Sum(q, g, s) = Sum(q, h, s)
    BY <2>2, <2>4 DEF Sum
  <2>6. h = [s \in Level(n + 1) |-> Sum(q, h, s)]
    BY <2>5
  <2>. HIDE DEF h
  <2>7. \E f : f = [s \in Level(n + 1) |-> Sum(q, f, s)]
    BY <2>6
  <2>. QED  BY <2>7
<1>3. Cardinality(S) \in N
  BY <1>1, <1>2, AllNumbers, FS_CardinalityType
<1>4. Level(Cardinality(S)) = SUBSET S
  BY <1>0
<1>. QED  BY <1>3, <1>4

\* A total is read from that table.
LEMMA SumDef ==
    ASSUME NEW S, IsFiniteSet(S), NEW q
    PROVE  \E g : Sums(q, S, g) /\ Total(q, S) = g[S]
<1>. DEFINE g == CHOOSE g : g = [s \in SUBSET S |-> Sum(q, g, s)]
<1>1. g = [s \in SUBSET S |-> Sum(q, g, s)]
  BY SumExists
<1>2. Total(q, S) = g[S]
  BY DEF Total, MapThenSumSet, MapThenFoldSet, Sum, First
<1>. HIDE DEF g
<1>. QED  BY <1>1, <1>2 DEF Sums

\* Tables of two sets agree on what both have.
LEMMA SumUnique ==
    ASSUME NEW S, IsFiniteSet(S), NEW T \in SUBSET S, NEW q, NEW g, NEW h,
           Sums(q, S, g), Sums(q, T, h)
    PROVE  \A s \in SUBSET T : g[s] = h[s]
<1>. DEFINE B == {s \in SUBSET T : g[s] # h[s]}
<1>. SUFFICES ASSUME B # {} PROVE FALSE
  OBVIOUS
<1>1. IsFiniteSet(T)
  BY FS_Subset
<1>8. B \in SUBSET SUBSET T
  OBVIOUS
<1>2. PICK s \in B : \A u \in B : u \subseteq s => u = s
  <2>. HIDE DEF B
  <2>. QED  BY <1>1, <1>8, MinimalSet
<1>3. g[s] = Sum(q, g, s) /\ h[s] = Sum(q, h, s)
  <2>1. s \in SUBSET S /\ s \in SUBSET T
    BY <1>2
  <2>. QED  BY <2>1 DEF Sums
<1>4. s # {}
  BY <1>2, <1>3 DEF Sum
<1>5. First(s) \in s
  BY <1>4 DEF First
<1>6. s \ {First(s)} \in SUBSET T /\ s \ {First(s)} \notin B
  BY <1>2, <1>5
<1>7. g[s \ {First(s)}] = h[s \ {First(s)}]
  BY <1>6
<1>. QED  BY <1>2, <1>3, <1>7 DEF Sum

\* Nothing adds up to nothing.
LEMMA TotalEmpty ==
    ASSUME NEW q
    PROVE  Total(q, {}) = 0
<1>1. PICK g : Sums(q, {}, g) /\ Total(q, {}) = g[{}]
  BY SumDef, FS_EmptySet
<1>. QED  BY <1>1 DEF Sums, Sum

\* A total is the element chosen first and the total of the others.
LEMMA TotalFirst ==
    ASSUME NEW S, IsFiniteSet(S), S # {}, NEW q
    PROVE  First(S) \in S /\ Total(q, S) = q[First(S)] + Total(q, S \ {First(S)})
<1>0. First(S) \in S
  BY DEF First
<1>1. IsFiniteSet(S \ {First(S)})
  BY FS_RemoveElement
<1>. DEFINE T == S \ {First(S)}
<1>2. PICK g : Sums(q, S, g) /\ Total(q, S) = g[S]
  BY SumDef
<1>3. PICK h : Sums(q, T, h) /\ Total(q, T) = h[T]
  BY <1>1, SumDef
<1>4. g[T] = h[T]
  <2>1. T \in SUBSET S /\ T \in SUBSET T
    OBVIOUS
  <2>. HIDE DEF T
  <2>. QED  BY <1>2, <1>3, <2>1, SumUnique
<1>5. g[S] = q[First(S)] + g[T]
  BY <1>2 DEF Sums, Sum
<1>. QED  BY <1>0, <1>2, <1>3, <1>4, <1>5

\* Natural numbers add up to a natural number.
LEMMA TotalType ==
    ASSUME NEW S, IsFiniteSet(S), NEW q, \A x \in S : q[x] \in Nat
    PROVE  Total(q, S) \in Nat
<1>. DEFINE B == {s \in SUBSET S : Total(q, s) \notin Nat}
<1>. SUFFICES ASSUME B # {} PROVE FALSE
  OBVIOUS
<1>1. B \in SUBSET SUBSET S
  OBVIOUS
<1>2. PICK s \in B : \A u \in B : u \subseteq s => u = s
  <2>. HIDE DEF B
  <2>. QED  BY <1>1, MinimalSet
<1>3. s # {} /\ IsFiniteSet(s)
  <2>1. Total(q, {}) = 0
    BY TotalEmpty
  <2>2. Total(q, s) \notin Nat
    BY <1>2
  <2>. HIDE DEF B
  <2>3. s # {}
    BY <2>1, <2>2
  <2>4. s \in SUBSET S
    BY <1>1, <1>2
  <2>. QED  BY <2>3, <2>4, FS_Subset
<1>4. First(s) \in s /\ Total(q, s) = q[First(s)] + Total(q, s \ {First(s)})
  BY <1>3, TotalFirst
<1>5. Total(q, s \ {First(s)}) \in Nat
  BY <1>2, <1>4
<1>6. q[First(s)] \in Nat
  BY <1>4
<1>. QED  BY <1>2, <1>4, <1>5, <1>6

\* Any element may be the one that is taken out.
LEMMA TotalPick ==
    ASSUME NEW S, IsFiniteSet(S), NEW q, \A x \in S : q[x] \in Nat, NEW x \in S
    PROVE  Total(q, S) = q[x] + Total(q, S \ {x})
<1>. DEFINE Good(s) == \A y \in s : Total(q, s) = q[y] + Total(q, s \ {y})
           B == {s \in SUBSET S : ~Good(s)}
<1>. SUFFICES ASSUME B # {} PROVE FALSE
  OBVIOUS
<1>0. B \in SUBSET SUBSET S
  OBVIOUS
<1>1. PICK s \in B : \A u \in B : u \subseteq s => u = s
  <2>. HIDE DEF B
  <2>. QED  BY <1>0, MinimalSet
<1>2. PICK y \in s : Total(q, s) # q[y] + Total(q, s \ {y})
  BY <1>1
<1>. DEFINE c == First(s)
<1>3. IsFiniteSet(s) /\ s # {} /\ \A u \in SUBSET s : IsFiniteSet(u) /\ Total(q, u) \in Nat
  BY <1>2, FS_Subset, TotalType
<1>4. c \in s /\ Total(q, s) = q[c] + Total(q, s \ {c})
  BY <1>3, TotalFirst
<1>5. y # c
  BY <1>2, <1>4
<1>6. Good(s \ {c}) /\ Good(s \ {y})
  BY <1>1, <1>2, <1>4
<1>7. Total(q, s \ {c}) = q[y] + Total(q, (s \ {c}) \ {y})
  BY <1>5, <1>6
<1>8. Total(q, s \ {y}) = q[c] + Total(q, (s \ {y}) \ {c})
  BY <1>4, <1>5, <1>6
<1>9. (s \ {c}) \ {y} = (s \ {y}) \ {c}
  OBVIOUS
<1>10. q[c] \in Nat /\ q[y] \in Nat /\ Total(q, (s \ {y}) \ {c}) \in Nat
  BY <1>3, <1>4
<1>11. Total(q, s \ {c}) = q[y] + Total(q, (s \ {y}) \ {c})
  BY <1>7, <1>9
<1>. HIDE DEF B, c
<1>. QED  BY <1>2, <1>4, <1>8, <1>10, <1>11

\* Fewer and smaller values do not add up to more.
LEMMA TotalAtMost ==
    ASSUME NEW T, IsFiniteSet(T), NEW S \in SUBSET T, NEW q, NEW r,
           \A x \in T : r[x] \in Nat, \A x \in S : q[x] \in Nat /\ q[x] <= r[x]
    PROVE  Total(q, S) <= Total(r, T)
<1>. DEFINE B == {s \in SUBSET T : ~(Total(q, s \cap S) <= Total(r, s))}
<1>. SUFFICES ASSUME B # {} PROVE FALSE
  <2>1. T \in SUBSET T /\ T \cap S = S
    OBVIOUS
  <2>. QED  BY <2>1
<1>0. B \in SUBSET SUBSET T
  OBVIOUS
<1>1. PICK s \in B : \A u \in B : u \subseteq s => u = s
  <2>. HIDE DEF B
  <2>. QED  BY <1>0, MinimalSet
<1>2. IsFiniteSet(s) /\ IsFiniteSet(s \cap S)
  BY FS_Subset
<1>11. ~(Total(q, s \cap S) <= Total(r, s))
  BY <1>1
<1>3. s # {}
  <2>. SUFFICES ASSUME s = {} PROVE FALSE
    OBVIOUS
  <2>1. Total(q, {}) = 0 /\ Total(r, {}) = 0
    BY TotalEmpty
  <2>2. Total(q, s \cap S) = Total(q, {}) /\ Total(r, s) = Total(r, {})
    <3>1. s \cap S = {}
      OBVIOUS
    <3>. QED  BY <3>1
  <2>. HIDE DEF B
  <2>. QED  BY <1>11, <2>1, <2>2
<1>10. PICK x \in s : TRUE
  BY <1>3
<1>4. Total(r, s) = r[x] + Total(r, s \ {x})
  BY <1>2, TotalPick
<1>5. Total(q, (s \ {x}) \cap S) <= Total(r, s \ {x})
  BY <1>1
<1>6. IsFiniteSet(s \ {x}) /\ IsFiniteSet((s \ {x}) \cap S)
  BY <1>2, FS_Subset, FS_RemoveElement
<1>7. Total(r, s \ {x}) \in Nat /\ Total(q, (s \ {x}) \cap S) \in Nat /\ r[x] \in Nat
  BY <1>6, TotalType
<1>8. CASE x \in S
  <2>1. Total(q, s \cap S) = q[x] + Total(q, (s \cap S) \ {x})
    BY <1>2, <1>8, TotalPick
  <2>2. (s \cap S) \ {x} = (s \ {x}) \cap S
    OBVIOUS
  <2>3. q[x] \in Nat /\ q[x] <= r[x]
    BY <1>8
  <2>4. Total(q, s \cap S) = q[x] + Total(q, (s \ {x}) \cap S)
    BY <2>1, <2>2
  <2>. HIDE DEF B
  <2>. QED  BY <1>11, <1>4, <1>5, <1>7, <2>3, <2>4
<1>9. CASE x \notin S
  <2>1. (s \ {x}) \cap S = s \cap S
    BY <1>9
  <2>2. Total(q, (s \ {x}) \cap S) = Total(q, s \cap S)
    BY <2>1
  <2>. HIDE DEF B
  <2>. QED  BY <1>11, <1>4, <1>5, <1>7, <2>2
<1>. QED  BY <1>8, <1>9

\* Equal values have equal totals.
LEMMA TotalSame ==
    ASSUME NEW S, IsFiniteSet(S), NEW q, NEW r, \A x \in S : q[x] \in Nat /\ q[x] = r[x]
    PROVE  Total(q, S) = Total(r, S)
<1>1. Total(q, S) <= Total(r, S) /\ Total(r, S) <= Total(q, S)
  BY TotalAtMost
<1>2. Total(q, S) \in Nat /\ Total(r, S) \in Nat
  BY TotalType
<1>. QED  BY <1>1, <1>2

-----------------------------------------------------------------------------
(* Every quantity is within what was ever bought, and the open orders ask for *)
(* no more than the account holds                                            *)

\* The shares of the start and of the further buys so far.
Cap == Shares + Added * events
Amount == 0 .. Cap

Sheet  == {b \in BookType : \A o \in Orders : b[o].qty \in Amount /\ b[o].on \in 0 .. day}
Steps  == {"idle", "morning", "restart", "orphans", "opening", "tidy", "adopt", "clean",
           "stale", "retry", "sync", "missing", "detect", "settle", "convert", "update"}
Dated(p) == /\ p.since \in 0 .. day /\ p.last \in 0 .. day /\ p.first \in 1 .. MaxOrders + 1
Counted  == pos.qty \in Nat /\ pos.qty + fresh <= Cap
Booked   == book \in Sheet /\ Load(book) <= held
Minded   == active.qty \in Amount /\ defer \in Amount /\ waiting \in Amount

Sized ==
    /\ Booked /\ report \in Sheet /\ held <= Cap
    /\ Counted /\ Dated(pos) /\ Minded
    /\ events \in 0 .. MaxEvents /\ day \in 1 .. LastDay /\ fresh \in {0, Added}
    /\ open \in BOOLEAN /\ converted \in BOOLEAN /\ verified \subseteq Orders /\ pc \in Steps

LEMMA CapType ==
    ASSUME Sized
    PROVE  Cap \in Nat /\ events \in Nat /\ Cap <= Shares + MaxEvents * Added
<1>1. events \in Nat /\ MaxEvents \in Nat /\ events <= MaxEvents /\ Added \in Nat /\ Shares \in Nat
  BY SellAssumption DEF Sized
<1>2. PICK k \in Nat : MaxEvents = events + k
  <2>1. MaxEvents - events \in Nat /\ MaxEvents = events + (MaxEvents - events)
    BY <1>1
  <2>. QED  BY <2>1
<1>3. Added * events \in Nat /\ Added * k \in Nat
  BY <1>1
<1>4. MaxEvents * Added = Added * events + Added * k
  BY <1>1, <1>2
<1>. QED  BY <1>1, <1>3, <1>4 DEF Cap

\* An event may bring the shares of one buy.
LEMMA CapGrows ==
    ASSUME Sized, events' = events + 1
    PROVE  Cap' = Cap + Added /\ Amount \subseteq Amount'
<1>1. events \in Nat /\ Added \in Nat /\ Cap \in Nat
  BY CapType, SellAssumption
<1>2. Added * (events + 1) = Added * events + Added
  BY <1>1
<1>3. Cap' = Cap + Added
  BY <1>1, <1>2, SellAssumption DEF Cap
<1>. QED  BY <1>1, <1>3 DEF Amount

LEMMA CapStays == ASSUME UNCHANGED events PROVE Cap' = Cap /\ Amount' = Amount
  BY DEF Cap, Amount

-----------------------------------------------------------------------------
(* What the open orders ask for together (Load) *)

Natural(b) == \A o \in Orders : b[o].qty \in Nat

LEMMA LiveFinite == \A b : IsFiniteSet(Live(b)) /\ Live(b) \subseteq Orders
<1>1. IsFiniteSet(Orders)
  BY FS_Interval, SellAssumption DEF Orders
<1>. QED  BY <1>1, FS_Subset DEF Live

LEMMA LoadType == ASSUME NEW b, Natural(b) PROVE Load(b) \in Nat
<1>. DEFINE q == [o \in Orders |-> b[o].qty]
<1>1. \A o \in Live(b) : q[o] \in Nat
  BY LiveFinite DEF Natural
<1>. HIDE DEF q
<1>2. Total(q, Live(b)) \in Nat
  BY <1>1, LiveFinite, TotalType
<1>. QED  BY <1>2 DEF Load, q

\* Orders that end, or ask for less, free shares.
LEMMA LoadFalls ==
    ASSUME NEW b, NEW c, Natural(b), Natural(c), Live(c) \subseteq Live(b),
           \A o \in Live(c) : c[o].qty <= b[o].qty
    PROVE  Load(c) <= Load(b)
<1>. DEFINE q == [o \in Orders |-> c[o].qty]
           r == [o \in Orders |-> b[o].qty]
<1>1. /\ \A o \in Live(b) : r[o] \in Nat
      /\ \A o \in Live(c) : q[o] \in Nat /\ q[o] <= r[o]
  BY LiveFinite DEF Natural
<1>. HIDE DEF q, r
<1>2. Total(q, Live(c)) <= Total(r, Live(b))
  BY <1>1, LiveFinite, TotalAtMost
<1>. QED  BY <1>2 DEF Load, q, r

\* An order that ends frees what it asked for.
LEMMA LoadLess ==
    ASSUME NEW b, NEW c, Natural(b), Natural(c), NEW n \in Live(b), Live(c) \subseteq Live(b) \ {n},
           \A o \in Live(c) : c[o].qty <= b[o].qty
    PROVE  Load(c) + b[n].qty <= Load(b)
<1>. DEFINE q == [o \in Orders |-> c[o].qty]
           r == [o \in Orders |-> b[o].qty]
           T == Live(b) \ {n}
<1>1. /\ \A o \in Live(b) : r[o] \in Nat
      /\ \A o \in Live(c) : q[o] \in Nat /\ q[o] <= r[o]
      /\ r[n] = b[n].qty /\ IsFiniteSet(T) /\ Live(c) \in SUBSET T
  BY LiveFinite, FS_RemoveElement DEF Natural
<1>2. \A o \in T : r[o] \in Nat
  BY <1>1
<1>. HIDE DEF q, r
<1>3. Total(r, Live(b)) = r[n] + Total(r, T)
  BY <1>1, LiveFinite, TotalPick
<1>. HIDE DEF T
<1>4. Total(q, Live(c)) <= Total(r, T)
  BY <1>1, <1>2, TotalAtMost
<1>5. Total(r, T) \in Nat /\ Total(q, Live(c)) \in Nat
  BY <1>1, <1>2, LiveFinite, TotalType
<1>6. Load(c) = Total(q, Live(c)) /\ Load(b) = Total(r, Live(b)) /\ r[n] \in Nat
  BY <1>1 DEF Load, q, r
<1>. QED  BY <1>1, <1>3, <1>4, <1>5, <1>6

\* An order that is new, or changed, adds what it asks for.
LEMMA LoadMore ==
    ASSUME NEW b, NEW c, Natural(b), Natural(c), NEW n \in Orders, Live(c) \subseteq Live(b) \cup {n},
           \A o \in Live(c) \ {n} : c[o].qty <= b[o].qty
    PROVE  Load(c) <= c[n].qty + Load(b)
<1>1. Load(b) \in Nat /\ Load(c) \in Nat /\ c[n].qty \in Nat
  BY LoadType DEF Natural
<1>2. CASE n \notin Live(c)
  <2>1. Live(c) \subseteq Live(b) /\ \A o \in Live(c) : c[o].qty <= b[o].qty
    BY <1>2
  <2>2. Load(c) <= Load(b)
    BY <2>1, LoadFalls
  <2>. QED  BY <1>1, <2>2
<1>3. CASE n \in Live(c)
  <2>. DEFINE q == [o \in Orders |-> c[o].qty]
             r == [o \in Orders |-> b[o].qty]
             S == Live(c) \ {n}
  <2>1. /\ \A o \in Live(b) : r[o] \in Nat
        /\ \A o \in Live(c) : q[o] \in Nat
        /\ \A o \in S : q[o] \in Nat /\ q[o] <= r[o]
        /\ q[n] = c[n].qty /\ S \in SUBSET Live(b)
    BY LiveFinite DEF Natural
  <2>. HIDE DEF q, r
  <2>2. Total(q, Live(c)) = q[n] + Total(q, S)
    BY <1>3, <2>1, LiveFinite, TotalPick
  <2>. HIDE DEF S
  <2>3. Total(q, S) <= Total(r, Live(b))
    BY <2>1, LiveFinite, TotalAtMost
  <2>4. IsFiniteSet(S)
    BY LiveFinite, FS_Subset DEF S
  <2>5. Total(q, S) \in Nat /\ Total(r, Live(b)) \in Nat
    BY <2>1, <2>4, LiveFinite, TotalType
  <2>6. Load(c) = Total(q, Live(c)) /\ Load(b) = Total(r, Live(b))
    BY DEF Load, q, r
  <2>. QED  BY <1>1, <2>1, <2>2, <2>3, <2>5, <2>6
<1>. QED  BY <1>2, <1>3

-----------------------------------------------------------------------------
(* What each step asks for, and what it leaves of a position                 *)

Fit(p) == p.qty \in Nat /\ p.qty + fresh <= Cap /\ Dated(p)

LEMMA HeldType == ASSUME Typed, Sized PROVE held \in Amount /\ Load(book) \in Nat
<1>1. Load(book) \in Nat
  BY LoadType DEF Sized, Booked, Sheet, Natural, Amount
<1>. QED  BY <1>1, CapType DEF Typed, Sized, Booked, Amount

\* An order the broker takes finds its shares free (Enter, Answers).
LEMMA EnterSized ==
    ASSUME Typed, Sized, NEW b \in Sheet, Load(b) <= held, NEW o \in Orders, NEW q \in Amount,
           Enter(b, q, o)
    PROVE  book' \in Sheet /\ Load(book') <= held
<1>1. PICK st \in Answers(b, q) : book' = Entered(b, o, q, st, "system")
  BY DEF Enter
<1>2. book' \in BookType
  BY <1>1, EnteredType, AnswersType DEF Sheet, Amount
<1>3. \A p \in Orders : book'[p] = IF p = o THEN [st |-> st, qty |-> q, on |-> day, by |-> "system"] ELSE b[p]
  BY <1>1 DEF Entered, Sheet, BookType
<1>4. book' \in Sheet
  BY <1>2, <1>3 DEF Sheet, Sized
<1>5. Natural(b) /\ Natural(book')
  BY <1>4 DEF Natural, Sheet, Amount
<1>6. Load(b) \in Nat /\ Load(book') \in Nat /\ held \in Int /\ q \in Int
  BY <1>5, LoadType DEF Typed, Amount
<1>7. CASE st = "open"
  <2>1. q <= held - Load(b)
    BY <1>1, <1>7 DEF Answers, Free
  <2>2. Live(book') \subseteq Live(b) \cup {o} /\ \A p \in Live(book') \ {o} : book'[p].qty <= b[p].qty
    BY <1>3, <1>5 DEF Live, Natural
  <2>3. Load(book') <= book'[o].qty + Load(b) /\ book'[o].qty = q
    BY <1>3, <1>5, <2>2, LoadMore
  <2>. QED  BY <1>4, <1>6, <2>1, <2>3
<1>8. CASE st # "open"
  <2>1. Live(book') \subseteq Live(b) /\ \A p \in Live(book') : book'[p].qty <= b[p].qty
    BY <1>3, <1>5, <1>8 DEF Live, Natural
  <2>2. Load(book') <= Load(b)
    BY <1>5, <2>1, LoadFalls
  <2>. QED  BY <1>4, <1>6, <2>2
<1>. QED  BY <1>7, <1>8

LEMMA WithdrawnSized ==
    ASSUME Typed, Sized, NEW o \in Orders
    PROVE  Withdrawn(o) \in Sheet /\ Load(Withdrawn(o)) <= held
<1>1. Withdrawn(o) \in BookType /\ book \in Sheet /\ book \in BookType
  BY WithdrawnType DEF Sized, Booked, Sheet
<1>2. \A p \in Orders : /\ Withdrawn(o)[p].qty = book[p].qty /\ Withdrawn(o)[p].on = book[p].on
                        /\ Withdrawn(o)[p].st = "open" => book[p].st = "open"
  BY <1>1 DEF Withdrawn, BookType, OrderType
<1>3. Withdrawn(o) \in Sheet
  BY <1>1, <1>2 DEF Sheet
<1>4. Natural(book) /\ Natural(Withdrawn(o))
  BY <1>1, <1>3 DEF Natural, Sheet, Amount
<1>5. Live(Withdrawn(o)) \subseteq Live(book) /\ \A p \in Live(Withdrawn(o)) : Withdrawn(o)[p].qty <= book[p].qty
  BY <1>2, <1>4 DEF Live, Natural
<1>6. Load(Withdrawn(o)) <= Load(book)
  BY <1>4, <1>5, LoadFalls
<1>7. Load(Withdrawn(o)) \in Nat /\ Load(book) \in Nat /\ held \in Int
  BY <1>4, LoadType DEF Typed
<1>. QED  BY <1>3, <1>6, <1>7 DEF Sized, Booked

\* So does a change of the quantity of an order (Modifiable).
LEMMA ModifySized ==
    ASSUME Typed, Sized, NEW o \in Orders, NEW q \in Amount, Modifiable(o, q),
           book' = [book EXCEPT ![o].qty = q]
    PROVE  book' \in Sheet /\ Load(book') <= held
<1>1. book \in Sheet /\ book \in BookType /\ Withdrawn(o) \in Sheet
  BY WithdrawnSized DEF Sized, Booked, Sheet
<1>2. \A p \in Orders : book'[p] = IF p = o THEN [book[o] EXCEPT !.qty = q] ELSE book[p]
  BY <1>1 DEF BookType
<1>3. [book[o] EXCEPT !.qty = q] \in OrderType /\ [book[o] EXCEPT !.qty = q].on = book[o].on
      /\ [book[o] EXCEPT !.qty = q].qty = q
  BY <1>1 DEF BookType, OrderType, Amount
<1>4. book' \in BookType
  BY <1>1, <1>3 DEF BookType
<1>5. book' \in Sheet
  BY <1>1, <1>2, <1>3, <1>4 DEF Sheet
<1>6. Natural(Withdrawn(o)) /\ Natural(book')
  BY <1>1, <1>5 DEF Natural, Sheet, Amount
<1>7. \A p \in Orders \ {o} : Withdrawn(o)[p] = book[p]
  BY <1>1 DEF Withdrawn, BookType
<1>8. /\ Live(book') \subseteq Live(Withdrawn(o)) \cup {o}
      /\ \A p \in Live(book') \ {o} : book'[p].qty <= Withdrawn(o)[p].qty
  BY <1>2, <1>6, <1>7 DEF Live, Natural
<1>9. Load(book') <= book'[o].qty + Load(Withdrawn(o)) /\ book'[o].qty = q
  BY <1>2, <1>3, <1>6, <1>8, LoadMore
<1>10. q <= held - Load(Withdrawn(o))
  BY DEF Modifiable, Free
<1>11. Load(Withdrawn(o)) \in Nat /\ Load(book') \in Nat /\ held \in Int /\ q \in Int
  BY <1>6, LoadType DEF Typed, Amount
<1>. QED  BY <1>5, <1>9, <1>10, <1>11

LEMMA UpdateSized ==
    ASSUME Typed, Sized, NEW o \in Orders, NEW q \in Amount, NEW registers \in BOOLEAN,
           UpdateSell(o, q, registers)
    PROVE  book' \in Sheet /\ Load(book') <= held /\ active'.qty \in Amount
<1>0. book \in Sheet /\ Load(book) <= held /\ active.qty \in Amount
  BY DEF Sized, Booked, Minded
<1>1. CASE /\ Modifiable(o, q)
           /\ book' = [book EXCEPT ![o].qty = q]
           /\ IF registers THEN Track(o, q) ELSE UNCHANGED active
  <2>1. book' \in Sheet /\ Load(book') <= held
    BY <1>1, ModifySized
  <2>2. active'.qty \in Amount
    BY <1>0, <1>1 DEF Track
  <2>. QED  BY <2>1, <2>2
<1>2. ASSUME NEW n \in Spare, Enter(Withdrawn(o), q, n),
             IF registers THEN Track(o, q) ELSE Track(n, q)
      PROVE  book' \in Sheet /\ Load(book') <= held /\ active'.qty \in Amount
  <2>1. n \in Orders
    BY DEF Spare
  <2>2. book' \in Sheet /\ Load(book') <= held
    BY <1>2, <2>1, WithdrawnSized, EnterSized
  <2>. QED  BY <1>2, <2>2 DEF Track
<1>3. CASE book' = Withdrawn(o) /\ UNCHANGED active
  BY <1>0, <1>3, WithdrawnSized
<1>4. CASE UNCHANGED <<book, active>>
  BY <1>0, <1>4
<1>. QED  BY <1>1, <1>2, <1>3, <1>4 DEF UpdateSell

LEMMA PlaceSized ==
    ASSUME Typed, Sized, NEW q \in Amount, NEW followed \in BOOLEAN, NEW base,
           PlaceSell(q, followed, base)
    PROVE  /\ book' \in Sheet /\ Load(book') <= held /\ active'.qty \in Amount
           /\ waiting' \in Amount /\ defer' \in Amount
<1>0. /\ book \in Sheet /\ Load(book) <= held /\ NoSell.qty \in Amount
      /\ waiting \in Amount /\ defer \in Amount
  BY CapType DEF Sized, Booked, Minded, NoSell, Amount
<1>1. ASSUME NEW o \in Spare, Enter(book, q, o), IF followed THEN Track(o, q) ELSE Untrack,
             UNCHANGED <<waiting, defer>>
      PROVE  /\ book' \in Sheet /\ Load(book') <= held /\ active'.qty \in Amount
             /\ waiting' \in Amount /\ defer' \in Amount
  <2>1. o \in Orders
    BY DEF Spare
  <2>2. book' \in Sheet /\ Load(book') <= held
    BY <1>0, <1>1, <2>1, EnterSized
  <2>. QED  BY <1>0, <1>1, <2>2 DEF Track, Untrack
<1>2. CASE /\ waiting' = q /\ defer' = q
           /\ Untrack /\ UNCHANGED book
  BY <1>0, <1>2 DEF Untrack
<1>3. CASE Untrack /\ UNCHANGED <<book, waiting, defer>>
  BY <1>0, <1>3 DEF Untrack
<1>. QED  BY <1>1, <1>2, <1>3 DEF PlaceSell

\* What can be sold of a position, and what is left of it.
LEMMA PositionSized ==
    ASSUME Typed, Sized
    PROVE  /\ pos.qty \in Amount /\ Listings \subseteq Amount /\ Fit(pos) /\ Fit(NoPosition)
           /\ \A c \in BOOLEAN : Fit(CloseIf(c))
           /\ \A q \in Nat : Fit(Reduced(q))
           /\ fresh = 0 => Fit([pos EXCEPT !.qty = held])
<1>1. /\ pos \in PosType /\ day \in Nat /\ fresh \in Nat /\ Cap \in Nat /\ held \in Amount
      /\ pos.qty \in Nat /\ pos.qty + fresh <= Cap /\ Dated(pos)
  BY HeldType, CapType, SellAssumption DEF Typed, Sized, Counted
<1>2. pos.qty \in Amount /\ Listings \subseteq Amount
  BY <1>1 DEF Listings, Sellable, Amount
<1>3. Fit(pos)
  BY <1>1 DEF Fit
<1>4. Fit(NoPosition)
  <2>1. /\ NoPosition.qty = 0 /\ NoPosition.since = 0 /\ NoPosition.last = 0 /\ NoPosition.first = 1
    BY DEF NoPosition
  <2>. HIDE DEF NoPosition
  <2>. QED  BY <1>1, <2>1, SellAssumption DEF Fit, Dated
<1>5. ASSUME NEW q \in Nat, q <= pos.qty PROVE Fit([pos EXCEPT !.qty = q])
  BY <1>1, <1>5 DEF Fit, Dated, PosType
<1>6. ASSUME NEW q \in Nat PROVE Fit(Reduced(q))
  <2>1. CASE q >= pos.qty
    BY <1>4, <2>1 DEF Reduced
  <2>2. CASE ~(q >= pos.qty)
    <3>1. pos.qty - q \in Nat /\ pos.qty - q <= pos.qty
      BY <1>1, <2>2
    <3>2. Reduced(q) = [pos EXCEPT !.qty = pos.qty - q]
      BY <2>2 DEF Reduced
    <3>. QED  BY <1>5, <3>1, <3>2
  <2>. QED  BY <2>1, <2>2
<1>7. fresh = 0 => Fit([pos EXCEPT !.qty = held])
  BY <1>1 DEF Fit, Dated, PosType, Amount
<1>. QED  BY <1>2, <1>3, <1>4, <1>6, <1>7 DEF CloseIf

\* A buy that is recorded is in the position and no longer beside it (Bought).
LEMMA BoughtSized ==
    ASSUME Typed, Sized
    PROVE  Bought(fresh).qty \in Nat /\ Bought(fresh).qty <= Cap /\ Dated(Bought(fresh))
<1>1. /\ pos \in PosType /\ day \in Nat /\ fresh \in Nat /\ Cap \in Nat
      /\ pos.qty \in Nat /\ pos.qty + fresh <= Cap /\ Dated(pos)
  BY CapType, SellAssumption DEF Typed, Sized, Counted
<1>. DEFINE entered == {o \in Orders : book[o].st # "none"}
            first   == 1 + Cardinality(entered)
            more    == pos.qty + fresh
<1>2. first \in 1 .. MaxOrders + 1
  <2>1. IsFiniteSet(Orders) /\ Cardinality(Orders) = MaxOrders
    BY FS_Interval, SellAssumption DEF Orders
  <2>2. Cardinality(entered) \in Nat /\ Cardinality(entered) <= MaxOrders
    BY <2>1, FS_Subset, FS_CardinalityType
  <2>. QED  BY <2>2, SellAssumption
<1>3. Bought(fresh) = IF pos.open THEN [pos EXCEPT !.qty = more, !.last = day]
                      ELSE [open |-> TRUE, qty |-> fresh, since |-> day, last |-> day, first |-> first]
  BY DEF Bought
<1>4. more \in Nat /\ more <= Cap /\ fresh <= Cap
  BY <1>1
<1>. HIDE DEF first, more
<1>. QED  BY <1>1, <1>2, <1>3, <1>4 DEF Dated, PosType

-----------------------------------------------------------------------------
(* Every step keeps the quantities                                           *)

\* A step of the engine keeps them if what it writes is in order.
LEMMA SizedStep ==
    ASSUME Typed, Sized, Typed', UNCHANGED <<day, open, held, events>>,
           book' \in Sheet, Load(book') <= held, report' \in Sheet,
           pos'.qty \in Nat, pos'.qty + fresh' <= Cap, Dated(pos'), fresh' \in {0, Added},
           active'.qty \in Amount, defer' \in Amount, waiting' \in Amount,
           converted' \in BOOLEAN, verified' \subseteq Orders, pc' \in Steps
    PROVE  Sized'
<1>1. Cap' = Cap /\ Amount' = Amount /\ Sheet' = Sheet
  BY CapStays DEF Sheet
<1>2. Booked' /\ Counted' /\ Minded' /\ Dated(pos)'
  BY <1>1 DEF Booked, Counted, Minded, Dated
<1>. QED  BY <1>1, <1>2 DEF Sized

\* Most steps write orders, the position or what the engine remembers.
LEMMA SizedEngine ==
    ASSUME Typed, Sized, Typed', UNCHANGED <<day, open, held, events, fresh>>,
           book' \in Sheet, Load(book') <= held, report' \in Sheet, Fit(pos'),
           active'.qty \in Amount, defer' \in Amount, waiting' \in Amount,
           converted' \in BOOLEAN, verified' \subseteq Orders, pc' \in Steps
    PROVE  Sized'
<1>1. fresh' \in {0, Added} /\ pos'.qty \in Nat /\ pos'.qty + fresh' <= Cap /\ Dated(pos')
  BY DEF Fit, Sized
<1>. QED  BY <1>1, SizedStep

\* What there is is in order.
LEMMA SizedParts ==
    ASSUME Typed, Sized
    PROVE  /\ book \in Sheet /\ Load(book) <= held /\ report \in Sheet
           /\ active.qty \in Amount /\ NoSell.qty \in Amount
           /\ defer \in Amount /\ waiting \in Amount /\ 0 \in Amount
           /\ \A o \in Orders : book[o].qty \in Amount /\ report[o].qty \in Amount
           /\ Restored \in Amount /\ Queued \in Amount
           /\ converted \in BOOLEAN /\ verified \subseteq Orders /\ pc \in Steps
           /\ [o \in Orders |-> NoOrder] \in Sheet
<1>1. /\ book \in Sheet /\ Load(book) <= held /\ report \in Sheet
      /\ active.qty \in Amount /\ defer \in Amount /\ waiting \in Amount
      /\ converted \in BOOLEAN /\ verified \subseteq Orders /\ pc \in Steps
  BY DEF Sized, Booked, Minded
<1>2. 0 \in Amount /\ NoSell.qty \in Amount
  BY CapType DEF Amount, NoSell
<1>3. \A o \in Orders : book[o].qty \in Amount /\ report[o].qty \in Amount
  BY <1>1 DEF Sheet
<1>4. Restored \in Amount /\ Queued \in Amount
  BY <1>1 DEF Restored, Queued
<1>5. [o \in Orders |-> NoOrder] \in Sheet
  <2>1. NoOrder \in OrderType /\ NoOrder.qty = 0 /\ NoOrder.on = 0
    BY DEF NoOrder, OrderType, Statuses
  <2>2. 0 \in 0 .. day
    BY DEF Sized
  <2>. HIDE DEF NoOrder
  <2>. QED  BY <1>2, <2>1, <2>2 DEF Sheet, BookType
<1>. QED  BY <1>1, <1>2, <1>3, <1>4, <1>5

LEMMA MorningSized == ASSUME Typed, Sized, Typed', Morning PROVE Sized'
<1>0. UNCHANGED <<day, open, held, events, fresh, converted, verified, report>> /\ pc' \in Steps
  BY DEF Morning, Reconcile, CancelOrphans, Resume, Opening, At, locals, memory, Steps
<1>1. CASE Reconcile
  <2>1. UNCHANGED <<book, active, defer>> /\ waiting' = Restored
    BY <1>1 DEF Reconcile
  <2>2. Fit(pos')
    BY <1>1, PositionSized DEF Reconcile, Reconcilable
  <2>. QED  BY <1>0, <2>1, <2>2, SizedParts, SizedEngine
<1>2. CASE CancelOrphans
  <2>1. UNCHANGED <<pos, active, defer, waiting>>
    BY <1>2 DEF CancelOrphans, memory
  <2>2. \A o \in Orders : /\ book'[o].qty = book[o].qty /\ book'[o].on = book[o].on
                          /\ book'[o].st = "open" => book[o].st = "open"
    BY <1>2 DEF CancelOrphans, Typed, BookType, OrderType
  <2>3. book' \in Sheet
    BY <2>2, SizedParts DEF Sheet, Typed
  <2>4. Natural(book) /\ Natural(book')
    BY <2>2, SizedParts DEF Natural, Amount
  <2>5. Live(book') \subseteq Live(book) /\ \A o \in Live(book') : book'[o].qty <= book[o].qty
    BY <2>2, <2>4 DEF Live, Natural
  <2>6. Load(book') <= Load(book)
    BY <2>4, <2>5, LoadFalls
  <2>7. Load(book') \in Nat /\ Load(book) \in Nat /\ held \in Int
    BY <2>4, LoadType DEF Typed
  <2>8. Load(book') <= held
    BY <2>6, <2>7, SizedParts
  <2>. QED  BY <1>0, <2>1, <2>3, <2>8, SizedParts, PositionSized, SizedEngine
<1>3. CASE Opening
  <2>. DEFINE Effect == /\ book' \in Sheet /\ Load(book') <= held /\ active'.qty \in Amount
                        /\ waiting' \in Amount /\ defer' \in Amount
  <2>1. ASSUME UNCHANGED <<book, waiting, defer>>, Untrack \/ UNCHANGED active
        PROVE  Effect
    BY <2>1, SizedParts DEF Untrack
  <2>2. ASSUME NEW o \in Existing, UNCHANGED <<waiting, defer>>,
               UpdateSell(o, pos.qty, TRUE) \/ (Track(o, book[o].qty) /\ UNCHANGED book)
        PROVE  Effect
    <3>1. o \in Orders
      BY DEF Existing, Live
    <3>2. CASE UpdateSell(o, pos.qty, TRUE)
      BY <2>2, <3>1, <3>2, PositionSized, UpdateSized, SizedParts
    <3>3. CASE Track(o, book[o].qty) /\ UNCHANGED book
      BY <2>2, <3>1, <3>3, SizedParts DEF Track
    <3>. QED  BY <2>2, <3>2, <3>3
  <2>3. ASSUME NEW listed \in Listings, PlaceSell(listed, TRUE, row) PROVE Effect
    BY <2>3, PlaceSized, PositionSized
  <2>4. Effect /\ UNCHANGED pos
    BY <1>3, <2>1, <2>2, <2>3 DEF Opening
  <2>. QED  BY <1>0, <2>4, SizedParts, PositionSized, SizedEngine
<1>4. CASE Resume
  <2>1. UNCHANGED <<book, pos, active, defer>> /\ waiting' = Restored
    BY <1>4 DEF Resume, tables
  <2>. QED  BY <1>0, <2>1, SizedParts, PositionSized, SizedEngine
<1>. QED  BY <1>1, <1>2, <1>3, <1>4 DEF Morning

LEMMA CleanSized ==
    ASSUME Typed, Sized, CleanUp
    PROVE  /\ book' \in Sheet /\ Load(book') <= held /\ active'.qty \in Amount
           /\ waiting' \in Amount /\ defer' \in Amount /\ Fit(pos')
<1>. DEFINE o         == active.id
            ended(st) == [row EXCEPT ![o] = IF @ = "none" THEN @ ELSE st]
            Effect    == /\ book' \in Sheet /\ Load(book') <= held /\ active'.qty \in Amount
                         /\ waiting' \in Amount /\ defer' \in Amount /\ Fit(pos')
<1>1. ASSUME UNCHANGED <<book, tables, active, waiting>> PROVE Effect
  BY <1>1, SizedParts, PositionSized DEF tables
<1>2. ASSUME Untrack, pos' = CloseIf(Gone(o) /\ row[o] # "none"),
             UNCHANGED waiting \/ waiting' = active.qty, UNCHANGED <<book, defer>>
      PROVE  Effect
  <2>1. Fit(pos')
    BY <1>2, PositionSized DEF CloseIf
  <2>. QED  BY <1>2, <2>1, SizedParts DEF Untrack
<1>3. ASSUME NEW base, PlaceSell(active.qty, FALSE, base), UNCHANGED pos PROVE Effect
  BY <1>3, PlaceSized, SizedParts, PositionSized
<1>4. ASSUME Untrack, UNCHANGED <<book, waiting, defer, pos>> PROVE Effect
  BY <1>4, SizedParts, PositionSized DEF Untrack
<1>. HIDE DEF ended
<1>. QED  BY <1>1, <1>2, <1>3, <1>4 DEF CleanUp, ended

\* So does every step of a minute (Cycle).
LEMMA CycleSized == ASSUME Typed, Sized, Typed', Cycle PROVE Sized'
<1>0. UNCHANGED <<day, open, held, events, verified>> /\ pc' \in Steps
  BY DEF Cycle, RecordBuy, Adopt, Clean, Stale, Retry, Sync, Missing, ReadReport, Detect, Fix,
         Settle, Convert, Update, At, memory, Steps
<1>1. CASE RecordBuy
  <2>1. ASSUME NEW o \in Existing, UpdateSell(o, pos.qty + fresh, FALSE), pos.open
        PROVE  book' \in Sheet /\ Load(book') <= held /\ active'.qty \in Amount
    <3>1. o \in Orders
      BY DEF Existing, Live
    <3>2. pos.qty + fresh \in Amount
      BY CapType, SellAssumption DEF Sized, Counted, Amount
    <3>. QED  BY <2>1, <3>1, <3>2, UpdateSized
  <2>2. book' \in Sheet /\ Load(book') <= held /\ active'.qty \in Amount
    BY <1>1, <2>1, SizedParts DEF RecordBuy
  <2>3. /\ pos'.qty \in Nat /\ pos'.qty + fresh' <= Cap /\ Dated(pos') /\ fresh' = 0
    <3>1. fresh' = 0 /\ (pos' = Bought(fresh) \/ (fresh = 0 /\ pos' = pos))
      BY <1>1 DEF RecordBuy
    <3>2. CASE pos' = Bought(fresh)
      BY <3>1, <3>2, BoughtSized
    <3>3. CASE fresh = 0 /\ pos' = pos
      BY <3>1, <3>3 DEF Sized, Counted
    <3>. QED  BY <3>1, <3>2, <3>3
  <2>4. UNCHANGED <<defer, waiting, converted, report>>
    BY <1>1 DEF RecordBuy, locals
  <2>. QED  BY <1>0, <2>2, <2>3, <2>4, SizedParts, SizedStep
<1>2. CASE Adopt
  <2>1. active'.qty \in Amount
    BY <1>2, SizedParts DEF Adopt, Track, Live
  <2>2. UNCHANGED <<book, fresh, pos, defer, waiting, converted, report>>
    BY <1>2 DEF Adopt, tables, locals
  <2>. QED  BY <1>0, <2>1, <2>2, SizedParts, PositionSized, SizedEngine
<1>3. CASE Clean
  <2>1. CleanUp /\ UNCHANGED <<fresh, converted, report>>
    BY <1>3 DEF Clean, locals
  <2>. QED  BY <1>0, <2>1, CleanSized, SizedParts, SizedEngine
<1>4. CASE Stale
  <2>1. Fit(pos')
    BY <1>4, PositionSized DEF Stale, CloseIf
  <2>2. UNCHANGED <<book, fresh, defer, active, waiting, converted, report>>
    BY <1>4 DEF Stale, memory, locals
  <2>. QED  BY <1>0, <2>1, <2>2, SizedParts, SizedEngine
<1>5. CASE Retry
  <2>1. ASSUME NEW o \in Spare, Enter(book, Queued, o), Track(o, Queued)
        PROVE  book' \in Sheet /\ Load(book') <= held /\ active'.qty \in Amount
    <3>1. o \in Orders
      BY DEF Spare
    <3>2. book' \in Sheet /\ Load(book') <= held
      BY <2>1, <3>1, SizedParts, EnterSized
    <3>. QED  BY <2>1, <3>2, SizedParts DEF Track
  <2>2. /\ book' \in Sheet /\ Load(book') <= held /\ active'.qty \in Amount
        /\ waiting' \in Amount /\ defer' \in Amount
    BY <1>5, <2>1, SizedParts DEF Retry
  <2>3. UNCHANGED <<fresh, pos, converted, report>>
    BY <1>5 DEF Retry, locals
  <2>. QED  BY <1>0, <2>2, <2>3, SizedParts, PositionSized, SizedEngine
<1>6. CASE Sync
  <2>1. active'.qty \in Amount
    BY <1>6, SizedParts DEF Sync, Track, Existing, Live
  <2>2. UNCHANGED <<book, fresh, pos, defer, waiting, converted, report>>
    BY <1>6 DEF Sync, locals
  <2>. QED  BY <1>0, <2>1, <2>2, SizedParts, PositionSized, SizedEngine
<1>7. CASE Missing
  <2>1. ASSUME NEW listed \in Listings, PlaceSell(listed, TRUE, row) PROVE Sized'
    BY <1>0, <1>7, <2>1, PlaceSized, SizedParts, PositionSized, SizedEngine DEF Missing, locals
  <2>2. CASE UNCHANGED <<book, row, defer, active, waiting>>
    BY <1>0, <1>7, <2>2, SizedParts, PositionSized, SizedEngine DEF Missing, locals
  <2>. QED  BY <1>7, <2>1, <2>2 DEF Missing
<1>8. CASE ReadReport
  <2>1. report' \in Sheet
    BY <1>8, SizedParts DEF ReadReport
  <2>2. UNCHANGED <<book, fresh, pos, defer, active, waiting, converted>>
    BY <1>8 DEF ReadReport, tables, memory
  <2>. QED  BY <1>0, <2>1, <2>2, SizedParts, PositionSized, SizedEngine
<1>9. ASSUME NEW o \in Orders, Detect(o) PROVE Sized'
  <2>1. report[o].qty \in Nat /\ report[o].qty \in Amount
    BY SizedParts DEF Amount
  <2>2. Fit(pos') /\ active'.qty \in Amount
    BY <1>9, <2>1, PositionSized, SizedParts DEF Detect, Track
  <2>3. UNCHANGED <<book, fresh, defer, waiting, converted, report>>
    BY <1>9 DEF Detect
  <2>. QED  BY <1>0, <2>2, <2>3, SizedParts, SizedEngine
<1>10. CASE Fix
  <2>1. ASSUME NEW o \in Unsold, UpdateSell(o, pos.qty, TRUE)
        PROVE  book' \in Sheet /\ Load(book') <= held /\ active'.qty \in Amount
    BY <2>1, UpdateSized, PositionSized DEF Unsold
  <2>2. book' \in Sheet /\ Load(book') <= held /\ active'.qty \in Amount
    BY <1>10, <2>1, SizedParts DEF Fix
  <2>3. UNCHANGED <<fresh, pos, defer, waiting, converted, report>>
    BY <1>10 DEF Fix, tables, locals
  <2>. QED  BY <1>0, <2>2, <2>3, SizedParts, PositionSized, SizedEngine
<1>11. CASE Settle
  <2>1. Fit(pos') /\ active'.qty \in Amount /\ report' \in Sheet
    BY <1>11, PositionSized, SizedParts DEF Settle, Untrack
  <2>2. UNCHANGED <<book, fresh, defer, waiting, converted>>
    BY <1>11 DEF Settle
  <2>. QED  BY <1>0, <2>1, <2>2, SizedParts, SizedEngine
<1>12. CASE Convert
  <2>1. active.id \in Orders
    BY <1>12, SellTypes DEF Convert, At, Typed, Tracking
  <2>2. ASSUME NEW n \in Spare, Enter(Withdrawn(active.id), active.qty, n)
        PROVE  book' \in Sheet /\ Load(book') <= held
    BY <2>1, <2>2, EnterSized, WithdrawnSized, SizedParts DEF Spare
  <2>3. book' \in Sheet /\ Load(book') <= held
    <3>1. CASE Modifiable(active.id, active.qty) /\ book' = [book EXCEPT ![active.id].qty = active.qty]
      BY <2>1, <3>1, ModifySized, SizedParts
    <3>2. CASE book' = Withdrawn(active.id)
      BY <2>1, <3>2, WithdrawnSized
    <3>3. CASE book' = book
      BY <3>3, SizedParts
    <3>. QED  BY <1>12, <2>2, <3>1, <3>2, <3>3 DEF Convert
  <2>4. active'.qty \in Amount /\ converted' \in BOOLEAN
    BY <1>12, SizedParts DEF Convert, Untrack
  <2>5. UNCHANGED <<fresh, pos, defer, waiting, report>>
    BY <1>12 DEF Convert, tables, locals
  <2>. QED  BY <1>0, <2>3, <2>4, <2>5, SizedParts, PositionSized, SizedEngine
<1>13. CASE Update
  <2>1. ASSUME Tracking, UpdateSell(active.id, active.qty, FALSE)
        PROVE  book' \in Sheet /\ Load(book') <= held /\ active'.qty \in Amount
    <3>1. active.id \in Orders
      BY <2>1, SellTypes DEF Typed, Tracking
    <3>. QED  BY <2>1, <3>1, UpdateSized, SizedParts
  <2>2. book' \in Sheet /\ Load(book') <= held /\ active'.qty \in Amount
    BY <1>13, <2>1, SizedParts DEF Update, Untrack
  <2>3. UNCHANGED <<fresh, pos, defer, waiting, converted, report>>
    BY <1>13 DEF Update, tables, locals
  <2>. QED  BY <1>0, <2>2, <2>3, SizedParts, PositionSized, SizedEngine
<1>. QED
  BY <1>1, <1>2, <1>3, <1>4, <1>5, <1>6, <1>7, <1>8, <1>9, <1>10, <1>11, <1>12, <1>13 DEF Cycle

\* A step of the market or a restart, which may be an event and bring shares.
LEMMA SizedEvent ==
    ASSUME Typed, Sized, Typed', events' = events \/ (events < MaxEvents /\ events' = events + 1),
           UNCHANGED <<pos, defer>>, day' \in day .. LastDay,
           \A o \in Orders : book'[o].qty \in Amount /\ book'[o].on \in 0 .. day,
           Load(book') <= held', held' <= Cap', fresh' \in {0, Added}, pos.qty + fresh' <= Cap',
           report' \in Sheet, active'.qty \in Amount, waiting' \in Amount,
           converted' \in BOOLEAN, open' \in BOOLEAN, verified' \subseteq Orders, pc' \in Steps
    PROVE  Sized'
<1>1. Amount \subseteq Amount' /\ events' \in 0 .. MaxEvents /\ day' \in 1 .. LastDay
      /\ \A d \in 0 .. day : d \in 0 .. day'
  BY CapGrows, CapStays, SellAssumption DEF Sized
<1>2. book' \in Sheet' /\ report' \in Sheet'
  BY <1>1 DEF Sheet, Typed
<1>3. Booked' /\ Counted'
  BY <1>2 DEF Booked, Counted, Sized
<1>4. Dated(pos)' /\ Minded'
  BY <1>1 DEF Dated, Minded, Sized
<1>. QED  BY <1>1, <1>2, <1>3, <1>4 DEF Sized

LEMMA MarketSized == ASSUME Typed, Sized, Typed', Market PROVE Sized'
<1>0. /\ book \in BookType /\ Natural(book) /\ held \in Nat /\ Load(book) \in Nat /\ Cap \in Nat
      /\ Load(book) <= held /\ held <= Cap /\ day \in 1 .. LastDay /\ LastDay \in Nat
      /\ \A o \in Orders : book[o].qty \in Amount /\ book[o].on \in 0 .. day
      /\ pos.qty \in Nat /\ pos.qty + fresh <= Cap /\ fresh \in {0, Added} /\ Added \in Nat
  BY SizedParts, HeldType, CapType, SellAssumption
  DEF Sized, Booked, Counted, Sheet, Natural, Amount
<1>1. CASE CloseMarket
  <2>1. UNCHANGED <<day, book, held, fresh, pos, defer, active, waiting, converted, verified, pc,
                    report, events>> /\ open' \in BOOLEAN
    BY <1>1 DEF CloseMarket, tables, memory, locals
  <2>2. Cap' = Cap
    BY <2>1, CapStays
  <2>. QED  BY <1>0, <2>1, <2>2, SizedParts, SizedEvent
<1>2. CASE NextDay
  <2>1. /\ UNCHANGED <<held, fresh, pos, defer, active, waiting, converted, verified, report, events>>
        /\ open' \in BOOLEAN /\ pc' \in Steps /\ day' = day + 1 /\ day < LastDay
    BY <1>2 DEF NextDay, tables, memory, locals, Steps
  <2>2. \A o \in Orders : /\ book'[o].qty = book[o].qty /\ book'[o].on = book[o].on
                          /\ book'[o].st = "open" => book[o].st = "open"
    BY <1>0, <1>2 DEF NextDay, BookType, OrderType
  <2>3. Natural(book') /\ Live(book') \subseteq Live(book) /\ \A o \in Live(book') : book'[o].qty <= book[o].qty
    BY <1>0, <2>2 DEF Live, Natural
  <2>4. Load(book') <= Load(book) /\ Load(book') \in Nat
    BY <1>0, <2>3, LoadFalls, LoadType
  <2>5. Cap' = Cap /\ Load(book') <= held' /\ day' \in day .. LastDay
    BY <1>0, <2>1, <2>4, CapStays
  <2>. QED  BY <1>0, <2>1, <2>2, <2>5, SizedParts, SizedEvent
<1>3. CASE BuyFills
  <2>1. /\ UNCHANGED <<day, open, book, pos, defer, active, waiting, converted, verified, pc, report>>
        /\ fresh = 0 /\ fresh' = Added /\ held' = held + Added
        /\ events < MaxEvents /\ events' = events + 1
    BY <1>3 DEF BuyFills, Happens, tables, memory, locals
  <2>2. Cap' = Cap + Added
    BY <2>1, CapGrows
  <2>3. Load(book') <= held' /\ held' <= Cap' /\ pos.qty + fresh' <= Cap' /\ open' \in BOOLEAN
    BY <1>0, <2>1, <2>2 DEF Sized
  <2>. QED  BY <1>0, <2>1, <2>3, SizedParts, SizedEvent
<1>4. ASSUME NEW n \in Orders, Fill(n) PROVE Sized'
  <2>1. /\ UNCHANGED <<day, open, fresh, pos, defer, active, waiting, converted, verified, pc, report, events>>
        /\ book[n].st = "open" /\ held' = held - book[n].qty
    BY <1>4 DEF Fill, tables, memory, locals
  <2>2. \A o \in Orders : /\ book'[o].qty = book[o].qty /\ book'[o].on = book[o].on
                          /\ book'[o].st = "open" => book[o].st = "open" /\ o # n
    BY <1>0, <1>4 DEF Fill, BookType, OrderType
  <2>3. Natural(book') /\ n \in Live(book) /\ Live(book') \subseteq Live(book) \ {n}
        /\ \A o \in Live(book') : book'[o].qty <= book[o].qty
    BY <1>0, <2>1, <2>2 DEF Live, Natural
  <2>4. Load(book') + book[n].qty <= Load(book) /\ Load(book') \in Nat /\ book[n].qty \in Nat
    BY <1>0, <2>3, LoadLess, LoadType DEF Natural
  <2>5. Cap' = Cap /\ Load(book') <= held' /\ held' <= Cap' /\ open' \in BOOLEAN
    BY <1>0, <2>1, <2>4, CapStays DEF Sized
  <2>. QED  BY <1>0, <2>1, <2>2, <2>5, SizedParts, SizedEvent
<1>5. ASSUME NEW n \in Orders, UserCancel(n) PROVE Sized'
  <2>1. /\ UNCHANGED <<day, open, held, fresh, pos, defer, active, waiting, converted, verified, pc, report>>
        /\ book' = Withdrawn(n) /\ events < MaxEvents /\ events' = events + 1
    BY <1>5 DEF UserCancel, Happens, Withdrawn, tables, memory, locals
  <2>2. book' \in Sheet /\ Load(book') <= held
    BY <2>1, WithdrawnSized
  <2>3. Cap' = Cap + Added
    BY <2>1, CapGrows
  <2>4. /\ \A o \in Orders : book'[o].qty \in Amount /\ book'[o].on \in 0 .. day
        /\ held' <= Cap' /\ pos.qty + fresh' <= Cap' /\ open' \in BOOLEAN
    BY <1>0, <2>1, <2>2, <2>3 DEF Sheet, Sized
  <2>. QED  BY <1>0, <2>1, <2>2, <2>4, SizedParts, SizedEvent
<1>6. ASSUME NEW q \in 1 .. Shares, UserSale(q) PROVE Sized'
  <2>1. PICK n \in Spare : book' = Entered(book, n, q, "complete", "user")
    BY <1>6 DEF UserSale
  <2>2. /\ UNCHANGED <<day, open, fresh, pos, defer, active, waiting, converted, verified, pc, report>>
        /\ q <= held - Load(book) /\ held' = held - q /\ events < MaxEvents /\ events' = events + 1
    BY <1>6 DEF UserSale, Free, Happens, tables, memory, locals
  <2>3. n \in Orders /\ q \in Nat /\ q \in Amount
    BY <1>0, <2>2, SellAssumption DEF Spare, Amount
  <2>4. \A o \in Orders : book'[o] = IF o = n THEN [st |-> "complete", qty |-> q, on |-> day, by |-> "user"]
                                     ELSE book[o]
    BY <1>0, <2>1, <2>3 DEF Entered, BookType
  <2>5. /\ Natural(book') /\ Live(book') \subseteq Live(book)
        /\ \A o \in Live(book') : book'[o].qty <= book[o].qty
        /\ \A o \in Orders : book'[o].qty \in Amount /\ book'[o].on \in 0 .. day
    BY <1>0, <2>3, <2>4 DEF Live, Natural
  <2>6. Load(book') <= Load(book) /\ Load(book') \in Nat
    BY <1>0, <2>5, LoadFalls, LoadType
  <2>7. Cap' = Cap + Added
    BY <2>2, CapGrows
  <2>8. Load(book') <= held' /\ held' <= Cap' /\ pos.qty + fresh' <= Cap' /\ open' \in BOOLEAN
    BY <1>0, <2>2, <2>3, <2>6, <2>7 DEF Sized
  <2>. QED  BY <1>0, <2>2, <2>5, <2>8, SizedParts, SizedEvent
<1>. QED  BY <1>1, <1>2, <1>3, <1>4, <1>5, <1>6 DEF Market

LEMMA NextSized == Typed /\ Sized /\ [Next]_vars => Sized'
<1>. SUFFICES ASSUME Typed, Sized, [Next]_vars PROVE Sized'
  OBVIOUS
<1>0. Typed'
  BY NextTyped
<1>1. CASE UNCHANGED vars
  BY <1>1, CapStays DEF vars, market, tables, memory, locals, Sized, Booked, Sheet, Counted, Dated,
                        Minded, Amount
<1>2. CASE Crash
  <2>1. /\ UNCHANGED <<day, open, book, held, fresh, pos, defer>>
        /\ events < MaxEvents /\ events' = events + 1 /\ active' = NoSell /\ waiting' = 0
        /\ converted' = FALSE /\ verified' = {} /\ pc' \in Steps /\ report' = [o \in Orders |-> NoOrder]
    BY <1>2 DEF Crash, Happens, market, tables, Steps
  <2>2. Cap' = Cap + Added /\ Cap \in Nat /\ Added \in Nat /\ held \in Int
    BY <2>1, CapGrows, CapType, SellAssumption DEF Typed
  <2>3. /\ \A o \in Orders : book'[o].qty \in Amount /\ book'[o].on \in 0 .. day
        /\ pos.qty \in Nat /\ pos.qty + fresh <= Cap /\ held <= Cap /\ fresh \in {0, Added}
        /\ day \in 1 .. LastDay /\ LastDay \in Nat /\ open \in BOOLEAN
    BY <2>1, SizedParts, SellAssumption DEF Sized, Counted, Sheet
  <2>4. Load(book') <= held' /\ held' <= Cap' /\ pos.qty + fresh' <= Cap' /\ day' \in day .. LastDay
    BY <2>1, <2>2, <2>3, SizedParts
  <2>. QED  BY <1>0, <2>1, <2>3, <2>4, SizedParts, SizedEvent
<1>3. ASSUME NEW o \in Orders, Verify(o) PROVE Sized'
  <2>1. /\ UNCHANGED <<day, open, book, held, fresh, pos, defer, active, waiting, converted, pc, report, events>>
        /\ verified' \subseteq Orders
    BY <1>3, SizedParts DEF Verify, market, locals
  <2>. QED  BY <1>0, <2>1, SizedParts, PositionSized, SizedEngine
<1>. QED  BY <1>0, <1>1, <1>2, <1>3, MarketSized, MorningSized, CycleSized DEF Next, Engine

LEMMA InitSized == Init => Sized
<1>. SUFFICES ASSUME Init PROVE Sized
  OBVIOUS
<1>1. Typed
  BY InitTyped
<1>2. Cap = Shares /\ Shares \in Nat /\ day = 1 /\ 0 \in Amount
  <2>1. Added * 0 = 0 /\ events = 0
    BY SellAssumption DEF Init
  <2>. QED  BY <2>1, SellAssumption DEF Cap, Init, Amount
<1>3. NoOrder.qty = 0 /\ NoOrder.on = 0 /\ NoOrder.st = "none"
  BY DEF NoOrder
<1>4. /\ \A o \in Orders : book[o] = NoOrder /\ report[o] = NoOrder
      /\ book \in BookType /\ report \in BookType
  BY <1>1 DEF Init, Typed
<1>. HIDE DEF NoOrder
<1>5. book \in Sheet /\ report \in Sheet
  BY <1>2, <1>3, <1>4 DEF Sheet
<1>6. Load(book) = 0
  <2>1. Live(book) = {}
    BY <1>3, <1>4 DEF Live
  <2>. QED  BY <2>1, TotalEmpty DEF Load
<1>7. Booked /\ held <= Cap
  BY <1>2, <1>5, <1>6 DEF Init, Booked
<1>8. Counted /\ Dated(pos)
  BY <1>2, SellAssumption DEF Init, NoPosition, Counted, Dated
<1>9. Minded
  BY <1>2 DEF Init, Minded, NoSell
<1>10. /\ events \in 0 .. MaxEvents /\ day \in 1 .. LastDay /\ fresh \in {0, Added}
       /\ open \in BOOLEAN /\ converted \in BOOLEAN /\ verified \subseteq Orders
  <2>1. events = 0 /\ day = 1 /\ fresh = 0 /\ open = TRUE /\ converted = FALSE /\ verified = {}
    BY DEF Init
  <2>2. 0 \in 0 .. MaxEvents /\ 1 \in 1 .. LastDay
    BY SellAssumption
  <2>. QED  BY <2>1, <2>2
<1>11. pc \in Steps
  BY DEF Init, Steps
<1>. QED  BY <1>5, <1>7, <1>8, <1>9, <1>10, <1>11 DEF Sized

\* Every variable keeps its type, for any number of orders, shares, days and events: no quantity
\* the engine writes exceeds what was bought, and the orders that are out never ask for more
\* than the account holds, so it is never sold short.
THEOREM TypeCorrect == Spec => []TypeOK
<1>1. Init => Typed /\ Sized
  BY InitTyped, InitSized
<1>2. (Typed /\ Sized) /\ [Next]_vars => (Typed /\ Sized)'
  BY NextTyped, NextSized
<1>3. Typed /\ Sized => TypeOK
  <2>. SUFFICES ASSUME Typed, Sized PROVE TypeOK
    OBVIOUS
  <2>1. Cap <= Shares + MaxEvents * Added /\ Cap \in Nat /\ MaxEvents * Added \in Int
    BY CapType, SellAssumption
  <2>2. \A n \in Amount : n \in Quantities
    BY <2>1, SellAssumption DEF Amount, Quantities
  <2>3. \A d \in 0 .. day : d \in 0 .. LastDay
    BY SellAssumption DEF Sized
  <2>4. ASSUME NEW b \in Sheet
        PROVE  b \in [Orders -> [st : {"none", "open", "complete", "cancelled"} \cup Refused,
                                 qty : Quantities, on : 0 .. LastDay, by : {"none", "system", "user"}]]
    <3>1. b \in BookType /\ \A o \in Orders : b[o].qty \in Quantities /\ b[o].on \in 0 .. LastDay
      BY <2>2, <2>3 DEF Sheet
    <3>. QED  BY <3>1 DEF BookType, OrderType, Statuses
  <2>5. pos \in [open : BOOLEAN, qty : Quantities, since : 0 .. LastDay,
                 last : 0 .. LastDay, first : 1 .. MaxOrders + 1]
    <3>1. pos.qty \in Quantities
      BY <2>2, PositionSized
    <3>2. pos \in PosType /\ pos.since \in 0 .. LastDay /\ pos.last \in 0 .. LastDay
          /\ pos.first \in 1 .. MaxOrders + 1
      BY <2>3 DEF Typed, Sized, Dated
    <3>. QED  BY <3>1, <3>2 DEF PosType
  <2>6. active \in [id : 0 .. MaxOrders, qty : Quantities]
    <3>1. active.qty \in Quantities /\ active \in SellType
      BY <2>2, SizedParts DEF Typed
    <3>2. active = [id |-> active.id, qty |-> active.qty] /\ active.id \in 0 .. MaxOrders
      BY <3>1, SellTypes DEF SellType, NoSell
    <3>. QED  BY <3>1, <3>2
  <2>7. held \in Quantities /\ defer \in Quantities /\ waiting \in Quantities
    BY <2>2, HeldType, SizedParts
  <2>8. book \in Sheet /\ report \in Sheet
    BY SizedParts
  <2>. QED  BY <2>4, <2>5, <2>6, <2>7, <2>8 DEF TypeOK, Typed, Sized, RowType, Steps
<1>. QED  BY <1>1, <1>2, <1>3, PTL DEF Spec

-----------------------------------------------------------------------------
(* Live orders have their rows *)

\* Without failing modifications and conversions nothing is replaced: every
\* order that can still fill is of today and has a pending row.
Rowed == Only(EventKinds \ {"modifyFails", "rsi"})

LiveRowed == \A o \in Live(book) : row[o] = "pending" /\ book[o].on = day

RowsInv == Rowed => LiveRowed

\* A replacement is not open unless the change could have been made (Modifiable,
\* Answers): what is asked is judged by the shares the other orders leave.
LEMMA NotReplaced ==
  ASSUME Typed, NEW o \in Orders, NEW q \in Int, NEW n \in Spare,
         book[o].st = "open", ~Modifiable(o, q), Enter(Withdrawn(o), q, n)
  PROVE  Live(book') \subseteq Live(book) /\ \A p \in Live(book') : book'[p] = book[p]
<1>1. book' = Entered(Withdrawn(o), n, q, "noShares", "system")
  BY DEF Modifiable, Enter, Answers
<1>2. n \in Orders
  BY DEF Spare
<1>3. ASSUME NEW p \in Orders, book'[p].st = "open" PROVE book'[p] = book[p]
  BY <1>1, <1>2, <1>3 DEF Entered, Withdrawn, Typed, BookType, OrderType
<1> QED
  BY <1>3 DEF Live

\* A change of an order leaves the live orders rowed (UpdateSell).
LEMMA UpdateRowed ==
  ASSUME Typed, Rowed, LiveRowed, NEW o \in Orders, NEW q \in Int,
         NEW registers \in BOOLEAN, UpdateSell(o, q, registers), UNCHANGED day,
         \A p \in Orders : row[p] = "pending" => row'[p] = "pending"
  PROVE  LiveRowed'
<1>1. CASE book' = [book EXCEPT ![o].qty = q]
  BY <1>1 DEF LiveRowed, Live, Typed, BookType, OrderType
<1>2. ASSUME NEW n \in Spare, Enter(Withdrawn(o), q, n), book[o].st = "open",
             Modifiable(o, q) => "modifyFails" \in exposed
      PROVE  LiveRowed'
  <2>1. ~Modifiable(o, q)
    BY <1>2 DEF Rowed, Only
  <2> QED
    BY <1>2, <2>1, NotReplaced DEF LiveRowed, Live
<1>3. CASE book' = Withdrawn(o)
  BY <1>3 DEF LiveRowed, Live, Withdrawn, Typed, BookType, OrderType
<1>4. CASE UNCHANGED book
  BY <1>4 DEF LiveRowed, Live
<1> QED
  BY <1>1, <1>2, <1>3, <1>4 DEF UpdateSell

\* A placement writes the row of the order it places (PlaceSell).
LEMMA PlaceRowed ==
  ASSUME Typed, LiveRowed, NEW q \in Int, NEW followed \in BOOLEAN, NEW base \in RowType,
         PlaceSell(q, followed, base), UNCHANGED day,
         \A o \in Live(book) : base[o] = "pending"
  PROVE  LiveRowed'
<1>1. ASSUME NEW o \in Spare, Enter(book, q, o), row' = NewRow(base, o)
      PROVE  LiveRowed'
  <2>1. o \in Orders
    BY DEF Spare
  <2>2. PICK st \in Answers(book, q) : book' = Entered(book, o, q, st, "system")
    BY <1>1 DEF Enter
  <2>3. /\ book'[o].on = day /\ row'[o] = "pending"
        /\ \A p \in Orders : p # o => book'[p] = book[p] /\ row'[p] = base[p]
    BY <1>1, <2>1, <2>2 DEF Entered, NewRow, Typed, BookType, RowType
  <2> QED
    BY <2>3 DEF LiveRowed, Live
<1>2. CASE UNCHANGED book /\ row' = base
  BY <1>2 DEF LiveRowed, Live
<1> QED
  BY <1>1, <1>2 DEF PlaceSell

\* Steps of the market leave the live orders rowed: none goes live by them.
LEMMA MarketRowed == Typed /\ LiveRowed /\ Market => LiveRowed'
<1> SUFFICES ASSUME Typed, LiveRowed, Market PROVE LiveRowed'
  OBVIOUS
<1> USE DEF tables
<1>1. CASE CloseMarket \/ BuyFills
  BY <1>1 DEF CloseMarket, BuyFills, LiveRowed, Live
<1>2. CASE NextDay
  <2>1. Live(book') = {}
    BY <1>2 DEF NextDay, Live, Typed, BookType, OrderType
  <2> QED
    BY <2>1 DEF LiveRowed
<1>3. ASSUME NEW o \in Orders, Fill(o) \/ UserCancel(o) PROVE LiveRowed'
  BY <1>3 DEF Fill, UserCancel, LiveRowed, Live, Typed, BookType, OrderType
<1>4. ASSUME NEW q \in 1 .. Shares, UserSale(q) PROVE LiveRowed'
  <2>1. PICK o \in Orders : book' = Entered(book, o, q, "complete", "user")
    BY <1>4 DEF UserSale, Spare
  <2>2. book'[o].st = "complete" /\ \A p \in Orders : p # o => book'[p] = book[p]
    BY <2>1 DEF Entered, Typed, BookType
  <2> QED
    BY <1>4, <2>2 DEF UserSale, LiveRowed, Live
<1> QED
  BY <1>1, <1>2, <1>3, <1>4 DEF Market

\* So do the steps at market open.
LEMMA MorningRowed == Typed /\ Rowed /\ LiveRowed /\ Morning => LiveRowed'
<1> SUFFICES ASSUME Typed, Rowed, LiveRowed, Morning PROVE LiveRowed'
  OBVIOUS
<1> USE DEF At
<1>1. CASE Reconcile
  BY <1>1 DEF Reconcile, LiveRowed, Live
<1>2. CASE CancelOrphans
  <2>1. ASSUME NEW o \in Orders, book'[o].st = "open"
        PROVE  book[o].st = "open" /\ book'[o] = book[o] /\ row'[o] = row[o]
    BY <1>2, <2>1 DEF CancelOrphans, Typed, BookType, OrderType, RowType
  <2> QED
    BY <1>2, <2>1 DEF CancelOrphans, LiveRowed, Live
<1>3. CASE Opening
  <2>1. CASE UNCHANGED <<book, row>>
    BY <1>3, <2>1 DEF Opening, LiveRowed, Live
  <2>2. ASSUME NEW o \in Existing, row' = WithRow(o),
               UpdateSell(o, pos.qty, TRUE) \/ UNCHANGED book
        PROVE  LiveRowed'
    <3>1. o \in Orders /\ pos.qty \in Int
      BY DEF Existing, Live, Typed, PosType
    <3>2. \A p \in Orders : row[p] = "pending" => row'[p] = "pending"
      BY <2>2, <3>1 DEF WithRow, Typed, RowType
    <3>3. CASE UpdateSell(o, pos.qty, TRUE)
      BY <1>3, <3>1, <3>2, <3>3, UpdateRowed DEF Opening
    <3>4. CASE UNCHANGED book
      BY <1>3, <3>2, <3>4 DEF Opening, LiveRowed, Live
    <3> QED
      BY <2>2, <3>3, <3>4
  <2>3. ASSUME NEW listed \in Listings, PlaceSell(listed, TRUE, row) PROVE LiveRowed'
    BY <1>3, <2>3, PlaceRowed, PositionTypes DEF Opening, Typed, LiveRowed
  <2> QED
    BY <1>3, <2>1, <2>2, <2>3 DEF Opening
<1>4. CASE Resume
  BY <1>4 DEF Resume, tables, LiveRowed, Live
<1> QED
  BY <1>1, <1>2, <1>3, <1>4 DEF Morning

\* So does the cleanup of the order that ended, which may place another.
LEMMA CleanRowed ==
  ASSUME Typed, LiveRowed, CleanUp, UNCHANGED day
  PROVE  LiveRowed'
<1> DEFINE o         == active.id
           ended(st) == [row EXCEPT ![o] = IF @ = "none" THEN @ ELSE st]
<1>1. CASE UNCHANGED <<book, row>>
  BY <1>1 DEF LiveRowed, Live
<1>2. ASSUME Mine.st \in Refused \cup {"cancelled"}
      PROVE  \A st : ended(st) = [ended(st) EXCEPT ![o] = ended(st)[o]] /\
                     \A p \in Live(book) : ended(st)[p] = "pending"
  <2>1. o \notin Live(book) \/ ~Tracking
    BY <1>2 DEF Mine, Live, Refused
  <2>2. Tracking
    BY <1>2 DEF Mine, NoOrder, Refused
  <2> QED
    BY <2>1, <2>2 DEF LiveRowed, Live, Typed, RowType
<1>3. CASE Mine.st \in Refused /\ row' = ended("failed") /\ UNCHANGED book
  BY <1>2, <1>3 DEF LiveRowed, Live
<1>4. CASE Mine.st = "cancelled" /\ row' = ended("cancelled") /\ UNCHANGED book
  BY <1>2, <1>4 DEF LiveRowed, Live
<1>5. CASE Mine.st = "cancelled" /\ PlaceSell(active.qty, FALSE, ended("cancelled"))
  <2> DEFINE base == ended("cancelled")
  <2>1. base \in RowType
    BY DEF Typed, RowType
  <2>2. \A p \in Live(book) : base[p] = "pending"
    BY <1>2, <1>5
  <2>3. PlaceSell(active.qty, FALSE, base)
    BY <1>5
  <2>4. active.qty \in Int
    BY SellTypes DEF Typed
  <2> HIDE DEF base, ended
  <2> QED
    BY <2>1, <2>2, <2>3, <2>4, PlaceRowed
<1> HIDE DEF ended
<1> QED
  BY <1>1, <1>3, <1>4, <1>5 DEF CleanUp, ended, tables

\* So does every step of a minute.
LEMMA CycleRowed == Typed /\ Rowed /\ LiveRowed /\ Cycle => LiveRowed'
<1> SUFFICES ASSUME Typed, Rowed, LiveRowed, Cycle PROVE LiveRowed'
  OBVIOUS
<1> USE DEF At, tables
<1>1. CASE UNCHANGED <<book, row>>
  <2>1. UNCHANGED day
    BY DEF Cycle, RecordBuy, Adopt, Clean, Stale, Retry, Sync, Missing, ReadReport,
           Detect, Fix, Settle, Convert, Update
  <2> QED
    BY <1>1, <2>1 DEF LiveRowed, Live
<1>2. CASE RecordBuy
  <2>1. ASSUME NEW o \in Existing, UpdateSell(o, pos.qty + fresh, FALSE) PROVE LiveRowed'
    <3>1. o \in Orders /\ pos.qty + fresh \in Int
      BY DEF Existing, Live, Typed, PosType
    <3> QED
      BY <1>2, <2>1, <3>1, UpdateRowed DEF RecordBuy
  <2> QED
    BY <1>1, <1>2, <2>1 DEF RecordBuy
<1>3. CASE Adopt \/ ReadReport \/ Settle \/ \E o \in Orders : Detect(o)
  BY <1>1, <1>3 DEF Adopt, ReadReport, Settle, Detect
<1>4. CASE Clean
  BY <1>4, CleanRowed DEF Clean
<1>5. CASE Stale
  <2>1. \A o \in Live(book) : row'[o] = "pending"
    BY <1>5 DEF Stale, LiveRowed, Live, Refused
  <2> QED
    BY <1>5, <2>1 DEF Stale, LiveRowed, Live
<1>6. CASE Retry
  <2>1. ASSUME NEW o \in Spare, Enter(book, Queued, o), row' = [row EXCEPT ![o] = "pending"]
        PROVE  LiveRowed'
    <3>1. o \in Orders
      BY DEF Spare
    <3>2. PICK st \in Answers(book, Queued) :
              book' = Entered(book, o, Queued, st, "system")
      BY <2>1 DEF Enter
    <3>3. /\ book'[o].on = day /\ row'[o] = "pending"
          /\ \A p \in Orders : p # o => book'[p] = book[p] /\ row'[p] = row[p]
      BY <2>1, <3>1, <3>2 DEF Entered, Typed, BookType, RowType
    <3> QED
      BY <1>6, <3>3 DEF Retry, LiveRowed, Live
  <2> QED
    BY <1>1, <1>6, <2>1 DEF Retry
<1>7. CASE Sync
  <2>1. \A o \in Existing, p \in Live(book) : WithRow(o)[p] = row[p]
    BY DEF WithRow, LiveRowed, Live, Typed, RowType
  <2> QED
    BY <1>1, <1>7, <2>1 DEF Sync, LiveRowed, Live
<1>8. CASE Missing
  <2>1. ASSUME NEW listed \in Listings, PlaceSell(listed, TRUE, row) PROVE LiveRowed'
    BY <1>8, <2>1, PlaceRowed, PositionTypes DEF Missing, Typed, LiveRowed
  <2> QED
    BY <1>1, <1>8, <2>1 DEF Missing
<1>9. CASE Fix
  <2>1. ASSUME NEW o \in Unsold, UpdateSell(o, pos.qty, TRUE) PROVE LiveRowed'
    <3>1. o \in Orders /\ pos.qty \in Int
      BY DEF Unsold, Typed, PosType
    <3> QED
      BY <1>9, <2>1, <3>1, UpdateRowed DEF Fix
  <2> QED
    BY <1>1, <1>9, <2>1 DEF Fix
<1>10. CASE Convert
  BY <1>1, <1>10 DEF Convert, Rowed, Only
<1>11. CASE Update
  <2>1. ASSUME Tracking, UpdateSell(active.id, active.qty, FALSE) PROVE LiveRowed'
    <3>1. active.id \in Orders /\ active.qty \in Int
      BY <2>1, SellTypes DEF Typed, Tracking
    <3> QED
      BY <1>11, <2>1, <3>1, UpdateRowed DEF Update
  <2> QED
    BY <1>1, <1>11, <2>1 DEF Update
<1> QED
  BY <1>2, <1>3, <1>4, <1>5, <1>6, <1>7, <1>8, <1>9, <1>10, <1>11 DEF Cycle

\* No step decides which events occur.
LEMMA SameEvents == [Next]_vars => UNCHANGED exposed
  BY DEF vars, Next, Market, CloseMarket, NextDay, BuyFills, Fill, UserCancel, UserSale,
         Engine, Morning, Cycle, Reconcile, CancelOrphans, Resume, Opening, RecordBuy, Adopt,
         Clean, Stale, Retry, Sync, Missing, ReadReport, Detect, Fix, Settle, Convert,
         Update, At, Crash, Verify

\* Every live order keeps its row (RowsInv).
LEMMA NextRows == Typed /\ RowsInv /\ [Next]_vars => RowsInv'
<1> SUFFICES ASSUME Typed, RowsInv, [Next]_vars, Rowed' PROVE LiveRowed'
  BY DEF RowsInv
<1>1. Rowed /\ LiveRowed
  BY SameEvents DEF Rowed, Only, RowsInv
<1>2. CASE UNCHANGED vars \/ Crash
  BY <1>1, <1>2 DEF vars, market, tables, Crash, LiveRowed, Live
<1>3. ASSUME NEW o \in Orders, Verify(o) PROVE LiveRowed'
  BY <1>1, <1>3 DEF Verify, market, LiveRowed, Live, Typed, RowType
<1> QED
  BY <1>1, <1>2, <1>3, MarketRowed, MorningRowed, CycleRowed DEF Next, Engine

-----------------------------------------------------------------------------
(* A position that is closed has been sold *)

Plain == {"none", "open", "complete", "cancelled"}
Sold  == {o \in Orders : book[o].st = "complete"}
Dawn  == {"morning", "restart", "orphans", "opening"}

\* The shares are there until their one sale, and the position is open at
\* least as long; nothing is deferred.
Holdings ==
    /\ fresh = 0 /\ waiting = 0 /\ defer = 0 /\ day >= 1
    /\ held = IF Sold = {} THEN Shares ELSE 0
    /\ pos.open => pos.qty = Shares /\ pos.since = 0
    /\ ~pos.open => held = 0

\* Every order is for the whole position, one at most can fill, and none can
\* once one has.
Books ==
    /\ \A o \in Orders : /\ book[o].st \in Plain
                         /\ book[o].st # "none" => book[o].qty = Shares
                         /\ book[o].on <= day
    /\ \A o, p \in Live(book) : o = p
    /\ Sold = {} \/ Live(book) = {}

\* What the engine follows is the order that can fill, if there is one, and
\* the one that has filled, if there is one.
Followed ==
    Tracking => /\ active.qty = Shares
                /\ Live(book) \subseteq {active.id}
                /\ Sold # {} => active.id \in Sold

\* Reports and the verifier's results may be late, they are never early.
Reports ==
    /\ \A o \in Orders : /\ report[o].st \in Plain
                         /\ report[o].st # "none" => report[o].qty = Shares
                         /\ report[o].st = "complete" => o \in Sold
    /\ \A o \in sales : report[o].st = "complete"
    /\ pc = "settle" => sales = {}
    /\ verified \subseteq Sold

\* Where the broker's reports may fail, memory alone tells that no order is out.
Blind ==
    Outage => /\ Live(book) \subseteq {active.id}
              /\ pc \in Dawn => Live(book) = {}
              /\ \A o \in Orders : book[o].st = "cancelled" => book[o].on # day

Sound     == Holdings /\ Books /\ Followed /\ Reports /\ Blind
SteadyInv == Steady => Sound

\* The events that steady behaviours are made of (Steady).
LEMMA SteadyKinds ==
  ASSUME Steady
  PROVE  /\ "circuit" \notin exposed /\ "userSale" \notin exposed /\ "buy" \notin exposed
         /\ Outage => /\ "modifyFails" \notin exposed /\ "placeFails" \notin exposed
                      /\ "crash" \notin exposed /\ "userCancel" \notin exposed
                      /\ "rsi" \notin exposed
  BY DEF Steady, Only, Outage

\* When no order is out, every share is free (Free).
LEMMA AllFree == ASSUME Typed PROVE \A b : Live(b) = {} => Free(b) = held
<1> SUFFICES ASSUME NEW b, Live(b) = {} PROVE Free(b) = held
  OBVIOUS
<1>1. Load(b) = 0
  BY TotalEmpty DEF Load
<1> QED
  BY <1>1 DEF Free, Typed

\* What can be sold is the whole position, until it has been sold (Listings); and
\* the order that is there is found (Existing).
LEMMA Known ==
  ASSUME Typed, Sound
  PROVE  /\ Live(book) # {} => Sold = {} /\ held = Shares /\ pos.open
         /\ \A listed \in Listings :
               listed > 0 => /\ listed = Shares /\ pos.open /\ held = Shares /\ Sold = {}
                             /\ ~SaleKnown(Complete)
         /\ Existing = {} => Live(book) = {}
         /\ \A o \in Existing : Live(book) = {o} /\ book[o].qty = Shares
         /\ ~pos.open => held = 0 /\ Live(book) = {} /\ Sold # {}
<1>1. /\ Live(book) # {} => Sold = {} /\ held = Shares /\ pos.open
      /\ ~pos.open => held = 0 /\ Live(book) = {} /\ Sold # {}
  BY SellAssumption DEF Sound, Holdings, Books
<1>2. ASSUME NEW listed \in Listings, listed > 0
      PROVE  /\ listed = Shares /\ pos.open /\ held = Shares /\ Sold = {}
             /\ ~SaleKnown(Complete)
  <2>1. listed = Shares /\ pos.open /\ held = Shares /\ Sold = {}
    <3>1. listed = Sellable(held) \/ listed = Sellable(0)
      BY <1>2 DEF Listings
    <3>2. pos.since # day /\ Shares > 0
      BY <1>2, <3>1, SellAssumption DEF Sellable, Sound, Holdings, Typed
    <3> QED
      BY <1>2, <3>1, <3>2, SellAssumption DEF Sellable, Sound, Holdings, Typed
  <2>2. Complete \subseteq Sold
    BY DEF Complete, Today, Sold
  <2> QED
    BY <2>1, <2>2 DEF SaleKnown, Sound, Reports
<1>3. ASSUME NEW o \in Live(book) PROVE o \in Existing
  BY DEF Existing, Sound, Books, Live, Orders
<1>4. \A o \in Existing : Live(book) = {o} /\ book[o].qty = Shares
  BY DEF Existing, Sound, Books, Live
<1> QED
  BY <1>1, <1>2, <1>3, <1>4

\* A step that leaves the book alone, closes a position only when no share of
\* it is held, and follows the order that there is, keeps what is known.
LEMMA SameBook ==
  ASSUME Typed, Sound, UNCHANGED <<book, day, held, fresh, waiting, defer, exposed>>,
         UNCHANGED pos \/ (pos' = NoPosition /\ held = 0),
         \/ UNCHANGED active
         \/ active' = NoSell /\ (Outage => Live(book) = {})
         \/ /\ active'.qty = Shares /\ Live(book) \subseteq {active'.id}
            /\ Sold # {} => active'.id \in Sold,
         Outage /\ pc' \in Dawn => pc \in Dawn
  PROVE  Holdings' /\ Books' /\ Followed' /\ Blind' /\ Sold' = Sold
<1>1. Sold' = Sold /\ Live(book') = Live(book) /\ Outage' = Outage
  BY DEF Sold, Live, Outage
<1>2. Holdings'
  BY <1>1 DEF Sound, Holdings, NoPosition
<1>3. Books'
  BY <1>1 DEF Sound, Books
<1>4. Followed'
  BY <1>1 DEF Sound, Followed, Tracking
<1>5. Blind'
  BY <1>1 DEF Sound, Blind
<1> QED
  BY <1>1, <1>2, <1>3, <1>4, <1>5

\* A report stays as late as it was.
LEMMA SameReports ==
  ASSUME Reports, Sold \subseteq Sold', UNCHANGED <<report, sales>>,
         verified' \subseteq Sold', pc' = "settle" => sales = {}
  PROVE  Reports'
  BY DEF Reports

\* A placement, when no order is out, puts the whole position on offer or does
\* nothing (PlaceSell); it is not refused.
LEMMA PlaceSound ==
  ASSUME Typed, Steady, Sound, NEW followed \in BOOLEAN, NEW base,
         Live(book) = {}, held = Shares, PlaceSell(Shares, followed, base),
         Outage => followed, UNCHANGED <<day, held, fresh, pos, exposed, report, sales, verified>>,
         pc' \notin Dawn \cup {"settle"}
  PROVE  Sound'
<1>1. Sold = {}
  BY SellAssumption DEF Sound, Holdings
<1>2. ASSUME NEW o \in Spare, Enter(book, Shares, o),
             IF followed THEN Track(o, Shares) ELSE Untrack, UNCHANGED <<waiting, defer>>
      PROVE  Sound'
  <2>1. o \in Orders /\ book[o].st = "none"
    BY DEF Spare
  <2>2. Answers(book, Shares) = {"open"}
    BY AllFree, SteadyKinds, SellAssumption DEF Answers
  <2>3. book' = Entered(book, o, Shares, "open", "system")
    BY <1>2, <2>2 DEF Enter
  <2>4. /\ book'[o].st = "open" /\ book'[o].qty = Shares /\ book'[o].on = day
        /\ \A p \in Orders : p # o => book'[p] = book[p]
    BY <2>1, <2>3 DEF Entered, Typed, BookType
  <2>5. Live(book') = {o} /\ Sold' = {}
    BY <1>1, <2>1, <2>4 DEF Live, Sold
  <2>6. Holdings'
    BY <1>1, <1>2, <2>5 DEF Sound, Holdings
  <2>7. Books'
    <3>1. \A p \in Orders : /\ book'[p].st \in Plain
                            /\ book'[p].st # "none" => book'[p].qty = Shares
                            /\ book'[p].on <= day
      BY <2>4 DEF Sound, Books, Plain, Typed
    <3> QED
      BY <2>5, <3>1 DEF Books
  <2>8. Followed'
    BY <1>2, <2>5 DEF Followed, Tracking, Track, Untrack
  <2>9. Reports'
    BY <1>1, <2>5, SameReports DEF Sound, Reports
  <2>10. Blind'
    BY <1>2, <2>4, <2>5 DEF Sound, Blind, Outage, Track
  <2> QED
    BY <2>6, <2>7, <2>8, <2>9, <2>10 DEF Sound
<1>3. ASSUME UNCHANGED <<book, waiting, defer>>, Untrack PROVE Sound'
  <2>1. Holdings' /\ Books' /\ Followed' /\ Blind' /\ Sold' = Sold
    BY <1>3, SameBook DEF Untrack, Dawn
  <2> QED
    BY <2>1, SameReports DEF Sound, Reports
<1> QED
  BY <1>2, <1>3, SteadyKinds DEF PlaceSell

\* The order that is followed can be changed to the whole position, and an
\* order that replaces it is not refused (UpdateSell).
LEMMA Replacing ==
  ASSUME Typed, Steady, Sound, NEW o \in Orders, book[o].st = "open"
  PROVE  /\ Modifiable(o, Shares)
         /\ \A n : Enter(Withdrawn(o), Shares, n) =>
                book' = Entered(Withdrawn(o), n, Shares, "open", "system")
         /\ [book EXCEPT ![o].qty = Shares] = book
<1>1. Live(Withdrawn(o)) = {}
  BY DEF Sound, Books, Live, Withdrawn, Typed, BookType, OrderType
<1>2. Free(Withdrawn(o)) = Shares
  BY <1>1, AllFree, Known DEF Live
<1>3. Modifiable(o, Shares)
  BY <1>2, SellAssumption DEF Modifiable
<1>4. Answers(Withdrawn(o), Shares) = {"open"}
  BY <1>2, SteadyKinds, SellAssumption DEF Answers
<1>5. [book EXCEPT ![o].qty = Shares] = book
  BY DEF Sound, Books, Typed, BookType, OrderType
<1> QED
  BY <1>3, <1>4, <1>5 DEF Enter

\* After a withdrawal, with or without a replacement, one order at most is out.
LEMMA ReplaceSound ==
  ASSUME Typed, Steady, Sound, ~Outage, NEW o \in Orders, book[o].st = "open",
         \/ /\ book' = Withdrawn(o)
            /\ UNCHANGED active \/ active' = NoSell
         \/ \E n \in Spare : /\ book' = Entered(Withdrawn(o), n, Shares, "open", "system")
                             /\ active' \in {NoSell, [id |-> n, qty |-> Shares]},
         UNCHANGED <<day, held, fresh, pos, waiting, defer, exposed, report, sales, verified>>,
         pc' = "settle" => sales = {}
  PROVE  Sound'
<1>1. Live(book) = {o} /\ Sold = {}
  BY Known DEF Live, Sound, Books
<1>2. Blind'
  BY DEF Blind, Outage
<1>3. ASSUME Sold' = {}, Books', Followed' PROVE Sound'
  <2>1. Holdings'
    BY <1>1, <1>3 DEF Sound, Holdings
  <2>2. Reports'
    BY <1>1, <1>3, SameReports DEF Sound, Reports
  <2> QED
    BY <1>2, <1>3, <2>1, <2>2 DEF Sound
<1>4. ASSUME book' = Withdrawn(o), UNCHANGED active \/ active' = NoSell PROVE Sound'
  <2>1. /\ book'[o].st = "cancelled" /\ book'[o].qty = Shares /\ book'[o].on = book[o].on
        /\ \A p \in Orders : p # o => book'[p] = book[p]
    BY <1>4 DEF Withdrawn, Typed, BookType, OrderType, Sound, Books
  <2>2. Live(book') = {} /\ Sold' = {}
    BY <1>1, <2>1 DEF Live, Sold
  <2>3. Books'
    BY <2>1, <2>2 DEF Sound, Books, Plain
  <2>4. Followed'
    BY <1>4, <2>2 DEF Sound, Followed, Tracking
  <2> QED
    BY <1>3, <2>2, <2>3, <2>4
<1>5. ASSUME NEW n \in Spare, book' = Entered(Withdrawn(o), n, Shares, "open", "system"),
             active' \in {NoSell, [id |-> n, qty |-> Shares]}
      PROVE  Sound'
  <2>1. n \in Orders /\ n # o
    BY DEF Spare
  <2>2. /\ book'[o].st = "cancelled" /\ book'[o].qty = Shares /\ book'[o].on = book[o].on
        /\ book'[n].st = "open" /\ book'[n].qty = Shares /\ book'[n].on = day
        /\ \A p \in Orders \ {o, n} : book'[p] = book[p]
    BY <1>5, <2>1 DEF Entered, Withdrawn, Typed, BookType, OrderType, Sound, Books
  <2>3. Live(book') = {n} /\ Sold' = {}
    BY <1>1, <2>1, <2>2 DEF Live, Sold
  <2>4. Books'
    <3>1. \A p \in Orders : /\ book'[p].st \in Plain
                            /\ book'[p].st # "none" => book'[p].qty = Shares
                            /\ book'[p].on <= day
      BY <2>1, <2>2 DEF Sound, Books, Plain, Typed
    <3> QED
      BY <2>3, <3>1 DEF Books
  <2>5. Followed'
    BY <1>5, <2>3 DEF Followed, Tracking
  <2> QED
    BY <1>3, <2>3, <2>4, <2>5
<1> QED
  BY <1>4, <1>5

\* Steps of the market keep what is known of the sales (Market).
LEMMA MarketSound == Typed /\ Steady /\ Sound /\ Market => Sound'
<1> SUFFICES ASSUME Typed, Steady, Sound, Market PROVE Sound'
  OBVIOUS
<1> USE DEF tables, memory, locals
<1>1. CASE CloseMarket
  <2>1. Holdings' /\ Books' /\ Followed' /\ Blind' /\ Sold' = Sold
    BY <1>1, SameBook DEF CloseMarket
  <2> QED
    BY <1>1, <2>1, SameReports DEF CloseMarket, Sound, Reports
<1>2. CASE NextDay
  <2>1. \A o \in Orders :
            /\ book'[o].st = IF o \in Live(book) THEN "cancelled" ELSE book[o].st
            /\ book'[o].qty = book[o].qty /\ book'[o].on = book[o].on
    BY <1>2 DEF NextDay, Typed, BookType, OrderType
  <2>2. Live(book') = {} /\ Sold' = Sold
    BY <2>1 DEF Live, Sold
  <2>3. day' = day + 1 /\ \A o \in Orders : book'[o].on < day'
    BY <1>2, <2>1 DEF NextDay, Sound, Books, Typed, BookType, OrderType
  <2>4. Holdings'
    BY <1>2, <2>2 DEF NextDay, Sound, Holdings, Typed
  <2>5. Books'
    <3>1. ASSUME NEW o \in Orders
          PROVE  /\ book'[o].st \in Plain
                 /\ book'[o].st # "none" => book'[o].qty = Shares
                 /\ book'[o].on <= day'
      <4>1. book'[o].on <= day'
        BY <2>1, <2>3 DEF Typed, BookType, OrderType
      <4> QED
        BY <2>1, <4>1 DEF Sound, Books, Plain, Live
    <3> QED
      BY <2>2, <3>1 DEF Books
  <2>6. Followed'
    BY <1>2, <2>2 DEF NextDay, Sound, Followed, Tracking
  <2>7. Reports'
    BY <1>2, <2>2, SameReports DEF NextDay, Sound, Reports
  <2>8. Blind'
    BY <1>2, <2>1, <2>2, <2>3 DEF Blind, Typed, BookType, OrderType
  <2> QED
    BY <2>4, <2>5, <2>6, <2>7, <2>8 DEF Sound
<1>3. ASSUME NEW o \in Orders, Fill(o) PROVE Sound'
  <2>1. Live(book) = {o} /\ Sold = {} /\ held = Shares
    BY <1>3, Known DEF Fill, Live, Sound, Books
  <2>2. /\ book'[o].st = "complete" /\ book'[o].qty = Shares /\ book'[o].on = book[o].on
        /\ \A p \in Orders : p # o => book'[p] = book[p]
    BY <1>3 DEF Fill, Typed, BookType, OrderType, Sound, Books
  <2>3. Live(book') = {} /\ Sold' = {o}
    BY <2>1, <2>2 DEF Live, Sold
  <2>4. held' = 0
    BY <1>3, <2>1, SellAssumption DEF Fill, Sound, Books
  <2>5. Holdings'
    BY <1>3, <2>3, <2>4 DEF Fill, Sound, Holdings
  <2>6. Books'
    BY <1>3, <2>2, <2>3, ZenonT(30) DEF Fill, Sound, Books, Plain
  <2>7. Followed'
    BY <1>3, <2>1, <2>3 DEF Fill, Sound, Followed, Tracking
  <2>8. Reports'
    BY <1>3, <2>1, <2>3, SameReports DEF Fill, Sound, Reports
  <2>9. Blind'
    BY <1>3, <2>2, <2>3 DEF Fill, Sound, Blind, Outage
  <2> QED
    BY <2>5, <2>6, <2>7, <2>8, <2>9 DEF Sound
<1>4. ASSUME NEW o \in Orders, UserCancel(o) PROVE Sound'
  <2>1. ~Outage /\ book' = Withdrawn(o) /\ book[o].st = "open"
    BY <1>4, SteadyKinds DEF UserCancel, Happens, Withdrawn
  <2>2. pc' = "settle" => sales = {}
    BY <1>4 DEF UserCancel, Sound, Reports
  <2> QED
    BY <1>4, <2>1, <2>2, ReplaceSound DEF UserCancel
<1>5. CASE BuyFills \/ \E q \in 1 .. Shares : UserSale(q)
  BY <1>5, SteadyKinds DEF BuyFills, UserSale, Happens
<1> QED
  BY <1>1, <1>2, <1>3, <1>4, <1>5 DEF Market

\* So do the steps at market open (Morning).
LEMMA MorningSound == Typed /\ Steady /\ Sound /\ Morning => Sound'
<1> SUFFICES ASSUME Typed, Steady, Sound, Morning PROVE Sound'
  OBVIOUS
<1> USE DEF At, locals
<1>0. waiting = 0 /\ defer = 0 /\ fresh = 0
  BY DEF Sound, Holdings
<1>1. CASE Reconcile
  <2>1. UNCHANGED pos \/ (pos' = NoPosition /\ held = 0)
    BY <1>1, SellAssumption DEF Reconcile, Reconcilable, Sound, Holdings
  <2>2. UNCHANGED waiting
    BY <1>0, <1>1 DEF Reconcile, Restored
  <2>3. Holdings' /\ Books' /\ Followed' /\ Blind' /\ Sold' = Sold
    BY <1>1, <2>1, <2>2, SameBook DEF Reconcile, Dawn
  <2> QED
    BY <1>1, <2>3, SameReports DEF Reconcile, Sound, Reports
<1>2. CASE CancelOrphans
  <2>1. UNCHANGED book
    <3>1. \A o \in Orders : Orphan(o) => book[o].st # "open"
      BY Known DEF Orphan, Live
    <3>2. book \in BookType
      BY DEF Typed
    <3> QED
      BY <1>2, <3>1, <3>2 DEF CancelOrphans, BookType
  <2>2. Holdings' /\ Books' /\ Followed' /\ Blind' /\ Sold' = Sold
    BY <1>2, <2>1, SameBook DEF CancelOrphans, memory, Dawn
  <2> QED
    BY <1>2, <2>2, SameReports DEF CancelOrphans, memory, Sound, Reports
<1>3. CASE Opening
  <2>1. /\ pc' = "tidy"
        /\ UNCHANGED <<day, held, fresh, pos, exposed, report, sales, verified>>
        /\ Outage => Live(book) = {}
    BY <1>3 DEF Opening, Sound, Blind, Dawn
  <2>2. ASSUME UNCHANGED <<book, waiting, defer>>,
               \/ UNCHANGED active
               \/ active'.qty = Shares /\ Live(book) \subseteq {active'.id} /\ Sold = {}
        PROVE  Sound'
    <3>1. Holdings' /\ Books' /\ Followed' /\ Blind' /\ Sold' = Sold
      BY <2>1, <2>2, SameBook DEF Dawn
    <3> QED
      BY <2>1, <3>1, SameReports DEF Sound, Reports
  <2>3. CASE UNCHANGED <<book, active, waiting, defer>>
    BY <2>2, <2>3
  <2>4. ASSUME NEW listed \in Listings, listed > 0, NEW o \in Existing,
               UNCHANGED <<waiting, defer>>,
               IF listed > book[o].qty THEN UpdateSell(o, pos.qty, TRUE)
               ELSE Track(o, book[o].qty) /\ UNCHANGED book
        PROVE  Sound'
    <3>1. listed = Shares /\ book[o].qty = Shares /\ Live(book) = {o} /\ Sold = {}
      BY <2>4, Known
    <3>2. ~(listed > book[o].qty)
      BY <3>1, SellAssumption
    <3> QED
      BY <2>2, <2>4, <3>1, <3>2 DEF Track
  <2>5. ASSUME NEW listed \in Listings, listed > 0, Existing = {} \/ Outage,
               PlaceSell(listed, TRUE, row)
        PROVE  Sound'
    <3>1. listed = Shares /\ held = Shares /\ Live(book) = {}
      BY <2>1, <2>5, Known
    <3> QED
      BY <2>1, <2>5, <3>1, PlaceSound DEF Dawn
  <2> QED
    BY <1>3, <2>3, <2>4, <2>5, Known DEF Opening
<1>4. CASE Resume
  <2>1. UNCHANGED <<day, held, fresh, book, pos, exposed, active, waiting, defer, verified>>
        /\ pc = "restart" /\ pc' = "opening" /\ UNCHANGED <<report, sales>>
    BY <1>0, <1>4 DEF Resume, Restored, tables
  <2>2. Holdings' /\ Books' /\ Followed' /\ Blind' /\ Sold' = Sold
    BY <2>1, SameBook DEF Dawn
  <2> QED
    BY <2>1, <2>2, SameReports DEF Sound, Reports
<1> QED
  BY <1>1, <1>2, <1>3, <1>4 DEF Morning

\* So does the cleanup: an order that was withdrawn is the one that was
\* followed, so no other is out, and nothing was sold.
LEMMA CleanSound ==
  ASSUME Typed, Steady, Sound, CleanUp, pc' \notin Dawn \cup {"settle"},
         UNCHANGED <<day, held, fresh, exposed, report, sales, verified>>
  PROVE  Sound'
<1>1. Mine.st \in Plain
  BY SellTypes DEF Mine, NoOrder, Plain, Sound, Books, Typed, Tracking
<1>2. CASE UNCHANGED <<book, tables, active, waiting>>
  <2>1. Holdings' /\ Books' /\ Followed' /\ Blind' /\ Sold' = Sold
    BY <1>2, SameBook DEF tables
  <2> QED
    BY <2>1, SameReports DEF Sound, Reports
<1>3. ASSUME Mine.on = day, Mine.st = "cancelled", UNCHANGED pos,
             NEW base,
             IF pos.open THEN PlaceSell(active.qty, FALSE, base)
             ELSE Untrack /\ UNCHANGED <<book, waiting, defer>>
      PROVE  Sound'
  <2>1. Tracking /\ Mine = book[active.id] /\ active.id \in Orders
    BY <1>3, SellTypes DEF Mine, NoOrder, Tracking, Typed
  <2>2. ~Outage
    BY <1>3, <2>1 DEF Sound, Blind
  <2>3. Live(book) = {} /\ Sold = {} /\ active.qty = Shares
    BY <1>3, <2>1 DEF Sound, Followed, Live, Sold
  <2>4. pos.open /\ held = Shares
    BY <2>3, SellAssumption DEF Sound, Holdings
  <2>5. PlaceSell(Shares, FALSE, base)
    BY <1>3, <2>3, <2>4
  <2> QED
    BY <1>3, <2>2, <2>3, <2>4, <2>5, PlaceSound
<1> QED
  BY <1>1, <1>2, <1>3 DEF CleanUp, Plain, Refused

\* So does every step of a minute (Cycle): none of them changes an order to
\* another quantity, and those that place one see whether one is out.
LEMMA CycleSound == Typed /\ Steady /\ Sound /\ Cycle => Sound'
<1> SUFFICES ASSUME Typed, Steady, Sound, Cycle PROVE Sound'
  OBVIOUS
<1> USE DEF At, locals, tables
<1>0. waiting = 0 /\ defer = 0 /\ fresh = 0
  BY DEF Sound, Holdings
<1>1. CASE RecordBuy
  <2>1. UNCHANGED <<fresh, pos, book, active>>
    BY <1>0, <1>1 DEF RecordBuy
  <2>2. Holdings' /\ Books' /\ Followed' /\ Blind' /\ Sold' = Sold
    BY <1>1, <2>1, SameBook DEF RecordBuy, Dawn
  <2> QED
    BY <1>1, <2>2, SameReports DEF RecordBuy, Sound, Reports
<1>2. CASE Adopt
  <2>1. \/ UNCHANGED active
        \/ active'.qty = Shares /\ Live(book) \subseteq {active'.id} /\ Sold = {}
    BY <1>2, Known DEF Adopt, Track, Sound, Books, Live
  <2>2. Holdings' /\ Books' /\ Followed' /\ Blind' /\ Sold' = Sold
    BY <1>2, <2>1, SameBook DEF Adopt, Dawn
  <2> QED
    BY <1>2, <2>2, SameReports DEF Adopt, Sound, Reports
<1>3. CASE Clean
  BY <1>3, CleanSound DEF Clean, Dawn
<1>4. CASE Stale
  <2>1. UNCHANGED pos
    BY <1>4 DEF Stale, CloseIf, Gone, Untracked, Pending, Sound, Books, Plain
  <2>2. Holdings' /\ Books' /\ Followed' /\ Blind' /\ Sold' = Sold
    BY <1>4, <2>1, SameBook DEF Stale, memory, Dawn
  <2> QED
    BY <1>4, <2>2, SameReports DEF Stale, memory, Sound, Reports
<1>5. CASE Retry
  <2>1. UNCHANGED <<book, active, defer, waiting>>
    BY <1>0, <1>5 DEF Retry, Queued, Restored
  <2>2. Holdings' /\ Books' /\ Followed' /\ Blind' /\ Sold' = Sold
    BY <1>5, <2>1, SameBook DEF Retry, Dawn
  <2> QED
    BY <1>5, <2>2, SameReports DEF Retry, Sound, Reports
<1>6. CASE Sync
  <2>1. \/ UNCHANGED active
        \/ active'.qty = Shares /\ Live(book) \subseteq {active'.id} /\ Sold = {}
    BY <1>6, Known DEF Sync, Track
  <2>2. Holdings' /\ Books' /\ Followed' /\ Blind' /\ Sold' = Sold
    BY <1>6, <2>1, SameBook DEF Sync, Dawn
  <2> QED
    BY <1>6, <2>2, SameReports DEF Sync, Sound, Reports
<1>7. CASE Missing
  <2>1. CASE UNCHANGED <<book, row, defer, active, waiting>>
    <3>1. Holdings' /\ Books' /\ Followed' /\ Blind' /\ Sold' = Sold
      BY <1>7, <2>1, SameBook DEF Missing, Dawn
    <3> QED
      BY <1>7, <3>1, SameReports DEF Missing, Sound, Reports
  <2>2. ASSUME NEW listed \in Listings, listed > 0, Existing = {} \/ Outage,
               PlaceSell(listed, TRUE, row)
        PROVE  Sound'
    <3>1. Outage => Live(book) = {}
      BY <1>7 DEF Missing, Tracking, NoSell, Sound, Blind, Live, Orders
    <3>2. listed = Shares /\ held = Shares /\ Live(book) = {}
      BY <2>2, <3>1, Known
    <3> QED
      BY <1>7, <2>2, <3>2, PlaceSound DEF Missing, Dawn
  <2> QED
    BY <1>7, <2>1, <2>2 DEF Missing
<1>8. CASE ReadReport
  <2>1. Holdings' /\ Books' /\ Followed' /\ Blind' /\ Sold' = Sold
    BY <1>8, SameBook DEF ReadReport, memory, Dawn
  <2>2. CASE report' = book /\ sales' \subseteq Complete
    BY <1>8, <2>1, <2>2 DEF ReadReport, memory, Sound, Books, Reports, Sold, Complete, Today
  <2>3. CASE report' = [o \in Orders |-> NoOrder] /\ sales' = {}
    BY <1>8, <2>1, <2>3 DEF ReadReport, memory, Sound, Reports, NoOrder, Plain
  <2> QED
    BY <1>8, <2>1, <2>2, <2>3 DEF ReadReport, Sound
<1>9. ASSUME NEW o \in Orders, Detect(o) PROVE Sound'
  <2>1. o \in Sold /\ report[o].qty = Shares
    BY <1>9 DEF Detect, Sound, Reports
  <2>2. Sold # {} /\ held = 0 /\ Live(book) = {}
    BY <2>1 DEF Sound, Holdings, Books
  <2>3. UNCHANGED pos \/ pos' = NoPosition
    BY <1>9, <2>1, SellAssumption DEF Detect, Takes, Reduced, Sound, Holdings
  <2>4. UNCHANGED active \/ active' = [id |-> o, qty |-> Shares]
    BY <1>9, <2>1 DEF Detect, Track
  <2>5. Holdings' /\ Books' /\ Followed' /\ Blind' /\ Sold' = Sold
    BY <1>9, <2>1, <2>2, <2>3, <2>4, SameBook DEF Detect, Dawn
  <2> QED
    BY <1>9, <2>5 DEF Detect, Sound, Reports
<1>10. CASE Fix
  <2>1. UNCHANGED <<book, active>>
    BY <1>10 DEF Fix, Unsold, Sound, Holdings, Reports
  <2>2. Holdings' /\ Books' /\ Followed' /\ Blind' /\ Sold' = Sold
    BY <1>10, <2>1, SameBook DEF Fix, Dawn
  <2> QED
    BY <1>10, <2>2, SameReports DEF Fix, Sound, Reports
<1>11. CASE Settle
  <2>1. SaleKnown(Reported("complete")) => Sold # {}
    BY DEF SaleKnown, Reported, Sound, Reports
  <2>2. Sold # {} => held = 0 /\ Live(book) = {}
    BY DEF Sound, Holdings, Books
  <2>3. \/ UNCHANGED <<pos, active>>
        \/ pos' = NoPosition /\ active' = NoSell /\ Sold # {}
    BY <1>11, <2>1 DEF Settle, Untrack
  <2>4. Holdings' /\ Books' /\ Followed' /\ Blind' /\ Sold' = Sold
    BY <1>11, <2>2, <2>3, SameBook DEF Settle, Dawn
  <2>5. Reports'
    BY <1>11, <2>4 DEF Settle, Sound, Reports, NoOrder, Plain
  <2> QED
    BY <2>4, <2>5 DEF Sound
<1>12. CASE Convert
  <2> DEFINE o == active.id
  <2>1. Tracking /\ o \in Orders /\ active.qty = Shares
    BY <1>12, SellTypes DEF Convert, Typed, Tracking, Sound, Followed
  <2>2. CASE UNCHANGED <<book, active>>
    <3>1. Holdings' /\ Books' /\ Followed' /\ Blind' /\ Sold' = Sold
      BY <1>12, <2>2, SameBook DEF Convert, Dawn
    <3> QED
      BY <1>12, <3>1, SameReports DEF Convert, Sound, Reports
  <2>3. ASSUME "rsi" \in exposed, book[o].st = "open",
               book' = [book EXCEPT ![o].qty = Shares], Untrack
        PROVE  Sound'
    <3>1. UNCHANGED book
      BY <2>1, <2>3, Replacing
    <3>2. ~Outage
      BY <2>3, SteadyKinds
    <3>3. Holdings' /\ Books' /\ Followed' /\ Blind' /\ Sold' = Sold
      BY <1>12, <2>3, <3>1, <3>2, SameBook DEF Convert, Untrack
    <3> QED
      BY <1>12, <3>3, SameReports DEF Convert, Sound, Reports
  <2>4. ASSUME "rsi" \in exposed, book[o].st = "open",
               \/ \E n \in Spare : Enter(Withdrawn(o), Shares, n) /\ Untrack
               \/ book' = Withdrawn(o) /\ UNCHANGED active
        PROVE  Sound'
    <3>1. ~Outage
      BY <2>4, SteadyKinds
    <3>2. \/ book' = Withdrawn(o) /\ UNCHANGED active
          \/ \E n \in Spare : /\ book' = Entered(Withdrawn(o), n, Shares, "open", "system")
                              /\ active' = NoSell
      BY <2>1, <2>4, Replacing DEF Untrack
    <3> QED
      BY <1>12, <2>1, <2>4, <3>1, <3>2, ReplaceSound DEF Convert
  <2> QED
    BY <1>12, <2>1, <2>2, <2>3, <2>4 DEF Convert, Modifiable
<1>13. CASE Update
  <2> DEFINE o == active.id
  <2>1. CASE UNCHANGED book /\ (UNCHANGED active \/ (~pos.open /\ active' = NoSell))
    <3>1. Holdings' /\ Books' /\ Followed' /\ Blind' /\ Sold' = Sold
      BY <1>13, <2>1, Known, SameBook DEF Update, Dawn
    <3> QED
      BY <1>13, <3>1, SameReports DEF Update, Sound, Reports
  <2>2. ASSUME Tracking, UpdateSell(o, active.qty, FALSE)
        PROVE  Sound'
    <3>1. o \in Orders /\ active.qty = Shares
      BY <2>2, SellTypes DEF Typed, Tracking, Sound, Followed
    <3>2. CASE UNCHANGED <<book, active>>
      BY <2>1, <3>2
    <3>3. CASE Modifiable(o, Shares) /\ book' = [book EXCEPT ![o].qty = Shares] /\ UNCHANGED active
      BY <2>1, <3>1, <3>3, Replacing DEF Modifiable
    <3>4. ASSUME book[o].st = "open", Modifiable(o, Shares) => "modifyFails" \in exposed,
                 \/ \E n \in Spare : Enter(Withdrawn(o), Shares, n) /\ Track(n, Shares)
                 \/ book' = Withdrawn(o) /\ UNCHANGED active
          PROVE  Sound'
      <4>1. ~Outage
        BY <3>1, <3>4, Replacing, SteadyKinds
      <4>2. \/ book' = Withdrawn(o) /\ UNCHANGED active
            \/ \E n \in Spare : /\ book' = Entered(Withdrawn(o), n, Shares, "open", "system")
                                /\ active' = [id |-> n, qty |-> Shares]
        BY <3>1, <3>4, Replacing DEF Track
      <4> QED
        BY <1>13, <3>1, <3>4, <4>1, <4>2, ReplaceSound DEF Update
    <3> QED
      BY <2>2, <3>1, <3>2, <3>3, <3>4 DEF UpdateSell
  <2> QED
    BY <1>13, <2>1, <2>2 DEF Update, Untrack
<1> QED
  BY <1>1, <1>2, <1>3, <1>4, <1>5, <1>6, <1>7, <1>8, <1>9, <1>10, <1>11, <1>12, <1>13
  DEF Cycle

\* What is known of the sales holds in the initial states.
LEMMA InitSound == Init => Sound
<1> SUFFICES ASSUME Init PROVE Sound
  OBVIOUS
<1>1. \A o \in Orders : book[o] = NoOrder /\ report[o] = NoOrder
  BY DEF Init
<1>2. Sold = {} /\ Live(book) = {}
  BY <1>1 DEF Sold, Live, NoOrder
<1>3. pos.open /\ pos.qty = Shares /\ pos.since = 0
  BY DEF Init, NoPosition
<1>4. Holdings
  BY <1>2, <1>3 DEF Init, Holdings
<1>5. Books /\ Followed /\ Reports /\ Blind
  BY <1>1, <1>2 DEF Init, Books, Followed, Reports, Blind, Tracking, NoOrder, Plain
<1> QED
  BY <1>4, <1>5 DEF Sound

\* Every step keeps it, where the events are steady (SteadyInv).
LEMMA NextSound == Typed /\ SteadyInv /\ [Next]_vars => SteadyInv'
<1> SUFFICES ASSUME Typed, SteadyInv, [Next]_vars, Steady' PROVE Sound'
  BY DEF SteadyInv
<1>1. Steady /\ Sound
  BY SameEvents DEF Steady, Only, SteadyInv
<1>2. CASE UNCHANGED vars
  <2>1. Holdings' /\ Books' /\ Followed' /\ Blind' /\ Sold' = Sold
    BY <1>1, <1>2, SameBook DEF vars, market, tables, memory
  <2> QED
    BY <1>1, <1>2, <2>1, SameReports DEF vars, memory, locals, Sound, Reports
<1>3. CASE Crash
  <2>1. ~Outage
    BY <1>1, <1>3, SteadyKinds DEF Crash, Happens
  <2>2. UNCHANGED waiting
    BY <1>1, <1>3 DEF Crash, Sound, Holdings
  <2>3. Holdings' /\ Books' /\ Followed' /\ Blind' /\ Sold' = Sold
    BY <1>1, <1>3, <2>1, <2>2, SameBook DEF Crash, market, tables
  <2>4. Reports'
    BY <1>3, <2>3 DEF Crash, Reports, NoOrder, Plain
  <2> QED
    BY <2>3, <2>4 DEF Sound
<1>4. ASSUME NEW o \in Orders, Verify(o) PROVE Sound'
  <2>1. Holdings' /\ Books' /\ Followed' /\ Blind' /\ Sold' = Sold
    BY <1>1, <1>4, SameBook DEF Verify, market
  <2>2. verified' \subseteq Sold
    BY <1>1, <1>4 DEF Verify, Complete, Today, Sold, Sound, Reports
  <2> QED
    BY <1>1, <1>4, <2>1, <2>2, SameReports DEF Verify, locals, Sound, Reports
<1> QED
  BY <1>1, <1>2, <1>3, <1>4, MarketSound, MorningSound, CycleSound DEF Next, Engine

-----------------------------------------------------------------------------
(* The theorems *)

SellInv == Typed /\ RowsInv /\ SteadyInv

\* The whole invariant holds in every reachable state.
LEMMA Invariant == Spec => []SellInv
<1>1. Init => SellInv
  BY InitTyped, InitSound DEF Init, SellInv, SteadyInv, RowsInv, LiveRowed, Live, NoOrder
<1>2. SellInv /\ [Next]_vars => SellInv'
  BY NextTyped, NextRows, NextSound DEF SellInv
<1> QED
  BY <1>1, <1>2, PTL DEF Spec

\* No position is closed with shares in it, under any order of the steady
\* events within a cycle and of the days; and between two cycles every order
\* that can still fill is followed or has its row (SalesFollowed).
THEOREM SalesCorrect == Spec => []SalesFollowed
<1>1. SellInv => SalesFollowed
  <2> SUFFICES ASSUME SellInv PROVE SalesFollowed
    OBVIOUS
  <2>1. ClosedMeansSold
    BY DEF SellInv, SteadyInv, Sound, Holdings, ClosedMeansSold, SoldOutWhenClosed
  <2>2. LiveIsKnown
    BY DEF SellInv, RowsInv, Rowed, LiveRowed, LiveIsKnown
  <2> QED
    BY <2>1, <2>2 DEF SalesFollowed
<1> QED
  BY <1>1, Invariant, PTL

\* Where the events are steady the broker never has to refuse an order for
\* want of shares: whichever of the five functions places one, and however late
\* its report is, none is out and nothing has been sold (NoSecondSell).
THEOREM OneSale == Spec => NoSecondSell
<1>1. SellInv /\ SellInv' /\ [Next]_vars => [SoldOnce]_vars
  <2> SUFFICES ASSUME SellInv, SellInv', [Next]_vars, Steady
               PROVE  \A o \in Orders : book'[o].st # "noShares"
    BY DEF SoldOnce
  <2>1. Steady'
    BY SameEvents DEF Steady, Only
  <2> QED
    BY <2>1 DEF SellInv, SteadyInv, Sound, Books, Plain
<1> QED
  BY <1>1, Invariant, PTL DEF Spec, NoSecondSell

-----------------------------------------------------------------------------
(* The orders that buy: proofs about OrderPlacement, for any symbols, any    *)
(* limit and any number of orders and rows                                   *)

CONSTANTS Symbols, MaxPositions, MaxBuys, MaxRows, Scenes
VARIABLES signal, rows, bought, buyBook, owned, positions, phase, done, job, faults, allowed

P == INSTANCE PlacementInvariant
         WITH MaxOrders <- MaxBuys, Exposures <- Scenes, book <- buyBook, pos <- positions,
              events <- faults, exposed <- allowed

\* What the constants are.
LEMMA PlacementSets ==
    ASSUME P!PlacementAssumption
    PROVE  /\ P!NoSymbol \notin Symbols /\ P!None = 0
           /\ P!Orders \subseteq Nat /\ 0 \notin P!Orders /\ P!Rows \subseteq Nat /\ 0 \notin P!Rows
  BY DEF P!PlacementAssumption, P!None, P!Orders, P!Rows

-----------------------------------------------------------------------------
(* What the helpers do to the tables *)

\* Tidying drops cancelled rows that nobody has in hands.
LEMMA TidyRows ==
    ASSUME NEW rs \in [P!Rows -> P!RowType], NEW j, P!PlacementAssumption
    PROVE  /\ P!Tidy(rs, j) \in [P!Rows -> P!RowType]
           /\ \A r \in P!Rows :
                 \/ P!Tidy(rs, j)[r] = rs[r]
                 \/ /\ P!Tidy(rs, j)[r] = P!NoRow /\ rs[r].st = "cancelled" /\ r \notin P!InUse(j)
                    /\ rs[r].order = P!None \/ buyBook[rs[r].order].st # "open"
<1>1. P!NoRow \in P!RowType
  BY PlacementSets DEF P!NoRow, P!RowType, P!None
<1>. QED  BY <1>1 DEF P!Tidy

\* What a new row holds.
LEMMA NewRowFields ==
    ASSUME P!PlacementAssumption, NEW s \in Symbols, NEW o \in P!Orders \cup {P!None}
    PROVE  /\ P!NewRow(s, o) \in P!RowType
           /\ P!NewRow(s, o).sym = s /\ P!NewRow(s, o).st = "pending" /\ P!NewRow(s, o).order = o
           /\ P!NewRow(s, o).age = 0
           /\ P!FailedRow(s) \in P!RowType
           /\ P!FailedRow(s).sym = s /\ P!FailedRow(s).st = "failed" /\ P!FailedRow(s).order = P!None
           /\ P!FailedRow(s).age = 0
<1>1. P!NoRow \in P!RowType /\ P!NoRow.age = 0
  BY PlacementSets DEF P!NoRow, P!RowType, P!None
<1>2. ASSUME NEW u \in P!Orders \cup {P!None}
      PROVE  /\ P!NewRow(s, u) \in P!RowType
             /\ P!NewRow(s, u).sym = s /\ P!NewRow(s, u).st = "pending" /\ P!NewRow(s, u).order = u
             /\ P!NewRow(s, u).age = 0
  BY <1>1 DEF P!NewRow, P!RowType
<1>3. /\ P!FailedRow(s) \in P!RowType
      /\ P!FailedRow(s).sym = s /\ P!FailedRow(s).st = "failed" /\ P!FailedRow(s).order = P!None
      /\ P!FailedRow(s).age = 0
  BY <1>2 DEF P!FailedRow, P!RowType
<1>. QED  BY <1>2, <1>3

\* create_amo finds the pending row of the symbol or adds one.
LEMMA CreatedRow ==
    ASSUME P!Typed, P!PlacementAssumption, NEW s \in Symbols, NEW o \in P!Orders \cup {P!None},
           P!SpareRows # {}
    PROVE  \/ P!Created(s, o) = rows /\ P!Pending(rows, s)
           \/ /\ ~P!Pending(rows, s)
              /\ \E f \in P!Rows : /\ rows[f] = P!NoRow
                                   /\ P!Created(s, o) = [rows EXCEPT ![f] = P!NewRow(s, o)]
<1>1. P!FreeRow \in P!Rows /\ rows[P!FreeRow] = P!NoRow
  BY DEF P!FreeRow, P!SpareRows
<1>. QED  BY <1>1 DEF P!Created, P!NewRow

\* _add_failed_order leaves the symbol's failed row, or its pending row fails, or a row is added.
LEMMA AddFailedRow ==
    ASSUME P!Typed, P!PlacementAssumption, NEW s \in Symbols, P!AddFailed(s)
    PROVE  \/ rows' = rows
           \/ \E f \in P!Rows : rows[f] = P!NoRow /\ rows' = [rows EXCEPT ![f] = P!FailedRow(s)]
           \/ \E p \in P!Rows : /\ rows[p].sym = s /\ rows[p].st = "pending"
                                /\ rows' = [rows EXCEPT ![p].st = "failed"]
<1>. DEFINE rs == P!Created(s, P!None)
            r == CHOOSE p \in P!RowsOf(rs, s, {"pending"}) : TRUE
<1>1. SUFFICES ASSUME P!RowsOf(rows, s, {"failed"}) = {}
               PROVE  \/ \E f \in P!Rows : /\ rows[f] = P!NoRow
                                           /\ rows' = [rows EXCEPT ![f] = P!FailedRow(s)]
                      \/ \E p \in P!Rows : /\ rows[p].sym = s /\ rows[p].st = "pending"
                                           /\ rows' = [rows EXCEPT ![p].st = "failed"]
  BY DEF P!AddFailed
<1>2. rows' = [rs EXCEPT ![r].st = "failed"] /\ P!SpareRows # {}
  BY <1>1 DEF P!AddFailed
<1>3. rows \in [P!Rows -> P!RowType]
  BY DEF P!Typed, P!Tables, P!Sheets, P!BookWell
<1>4. CASE rs = rows /\ P!Pending(rows, s)
  <2>1. r \in P!Rows /\ rows[r].sym = s /\ rows[r].st = "pending"
    BY <1>4 DEF P!Pending, P!RowsOf
  <2>. QED  BY <1>2, <1>4, <2>1
<1>5. ASSUME ~P!Pending(rows, s),
             NEW f \in P!Rows, rows[f] = P!NoRow, rs = [rows EXCEPT ![f] = P!NewRow(s, P!None)]
      PROVE  rows' = [rows EXCEPT ![f] = P!FailedRow(s)]
  <2>1. \A q \in P!Rows : rs[q] = IF q = f THEN P!NewRow(s, P!None) ELSE rows[q]
    BY <1>3, <1>5
  <2>2. P!RowsOf(rs, s, {"pending"}) = {f}
    BY <1>5, <2>1, NewRowFields DEF P!RowsOf, P!Pending
  <2>3. r = f
    BY <2>2
  <2>. HIDE DEF r
  <2>4. rows' = [rs EXCEPT ![f].st = "failed"]
    BY <1>2, <2>3
  <2>5. [P!NewRow(s, P!None) EXCEPT !.st = "failed"] = P!FailedRow(s)
    BY DEF P!FailedRow
  <2>6. rs[f] = P!NewRow(s, P!None)
    BY <2>1
  <2>7. rows' = [rs EXCEPT ![f] = P!FailedRow(s)]
    BY <2>4, <2>5, <2>6
  <2>. HIDE DEF rs
  <2>. QED  BY <1>3, <1>5, <2>7
<1>. QED
  <2>1. \/ rs = rows /\ P!Pending(rows, s)
        \/ /\ ~P!Pending(rows, s)
           /\ \E f \in P!Rows : rows[f] = P!NoRow /\ rs = [rows EXCEPT ![f] = P!NewRow(s, P!None)]
    BY <1>2, CreatedRow
  <2>. QED  BY <1>4, <1>5, <2>1

\* Signals stay what they are, or fail.
LEMMA SignalsTyped ==
    ASSUME P!Typed, NEW rs, NEW S PROVE P!SignalsAfter(rs, S) \in [Symbols -> P!SignalType]
  BY DEF P!Typed, P!Tables, P!Sheets, P!BookWell, P!SignalsAfter, P!SignalType

\* A number that is free.
LEMMA FreeNumber ==
    ASSUME P!SpareOrders # {}
    PROVE  /\ P!FreeOrder \in P!Orders /\ buyBook[P!FreeOrder].st # "open"
           /\ P!FreeOrder # job.order /\ P!FreeOrder \notin job.seen
           /\ \A r \in P!Rows : rows[r].order # P!FreeOrder
  BY DEF P!FreeOrder, P!SpareOrders

\* One row changes.
LEMMA OneRow ==
    ASSUME P!Typed, NEW f \in P!Rows, NEW x \in P!RowType,
           IF x.st = "none" THEN x = P!NoRow ELSE x.sym \in Symbols,
           rows' = [rows EXCEPT ![f] = x]
    PROVE  /\ rows' \in [P!Rows -> P!RowType] /\ P!RowsWell'
           /\ \A r \in P!Rows : rows'[r] = IF r = f THEN x ELSE rows[r]
  BY DEF P!Typed, P!Tables, P!Sheets, P!BookWell, P!RowsWell

\* A row gets another status.
LEMMA OneStatus ==
    ASSUME P!Typed, P!PlacementAssumption, NEW f \in P!Rows, rows[f].st # "none",
           NEW st \in {"pending", "failed", "cancelled"}, rows' = [rows EXCEPT ![f].st = st]
    PROVE  /\ rows' \in [P!Rows -> P!RowType] /\ P!RowsWell'
           /\ \A r \in P!Rows : rows'[r] = IF r = f THEN [rows[r] EXCEPT !.st = st] ELSE rows[r]
           /\ rows'[f].st = st /\ rows'[f].sym = rows[f].sym /\ rows'[f].order = rows[f].order
           /\ rows'[f].age = rows[f].age
<1>1. rows \in [P!Rows -> P!RowType] /\ rows[f] \in P!RowType /\ rows[f].sym \in Symbols
  BY DEF P!Typed, P!Tables, P!Sheets, P!BookWell, P!RowsWell
<1>. DEFINE x == [rows[f] EXCEPT !.st = st]
<1>2. /\ x \in P!RowType /\ x.st = st /\ x.sym = rows[f].sym /\ x.order = rows[f].order
      /\ x.age = rows[f].age
  BY <1>1 DEF P!RowType
<1>3. rows' = [rows EXCEPT ![f] = x]
  OBVIOUS
<1>. HIDE DEF x
<1>4. /\ rows' \in [P!Rows -> P!RowType] /\ P!RowsWell'
      /\ \A r \in P!Rows : rows'[r] = IF r = f THEN x ELSE rows[r]
  BY <1>1, <1>2, <1>3, OneRow
<1>. QED  BY <1>2, <1>4 DEF x

\* A row is added.
LEMMA OneMore ==
    ASSUME P!Typed, P!PlacementAssumption, NEW f \in P!Rows, rows[f] = P!NoRow, NEW s \in Symbols,
           NEW o \in P!Orders \cup {P!None}, NEW x \in {P!NewRow(s, o), P!FailedRow(s)},
           rows' = [rows EXCEPT ![f] = x]
    PROVE  /\ rows' \in [P!Rows -> P!RowType] /\ P!RowsWell'
           /\ \A r \in P!Rows : rows'[r] = IF r = f THEN x ELSE rows[r]
<1>1. /\ x \in P!RowType /\ x.st \in {"pending", "failed"} /\ x.sym \in Symbols
  BY NewRowFields
<1>2. IF x.st = "none" THEN x = P!NoRow ELSE x.sym \in Symbols
  BY <1>1
<1>. HIDE DEF P!NewRow, P!FailedRow
<1>. QED  BY <1>1, <1>2, OneRow

-----------------------------------------------------------------------------
(* What the steps do to the worker *)

LEMMA ReadyFields ==
    ASSUME P!PlacementAssumption
    PROVE  /\ P!Ready \in P!JobType /\ P!Ready.task = "none" /\ P!Ready.step = "next"
           /\ P!Ready.todo = {} /\ P!Ready.seen = {} /\ P!Ready.row = P!None
           /\ P!Ready.order = P!None /\ P!Ready.sym = P!NoSymbol /\ P!Ready.blind = FALSE
  BY PlacementSets DEF P!Ready, P!JobType, P!None, P!Placing

\* Nothing of the tables changes.
LEMMA TablesStay ==
    ASSUME P!Tables, UNCHANGED <<signal, rows, buyBook>> PROVE P!Tables'
  BY DEF P!Tables, P!Sheets, P!BookWell, P!RowsWell

\* Nothing of the account and the day changes, but for an event.
LEMMA AroundStays ==
    ASSUME P!Around, UNCHANGED <<bought, owned, positions, phase, done, allowed>>,
           faults' = faults \/ \E kind : P!Happens(kind)
    PROVE  P!Around'
  BY DEF P!Around, P!Happens

\* The worker waits while others act; rows it has to retry stay failed or dropped.
LEMMA JobStays ==
    ASSUME P!JobWell, UNCHANGED <<job, phase>>,
           \A r \in P!Rows : P!Retried(r) => P!Retried(r)' /\ rows'[r].sym = rows[r].sym
    PROVE  P!JobWell'
<1>1. P!Works'
  BY DEF P!JobWell, P!Works, P!Buying
<1>2. P!Retries'
  BY DEF P!JobWell, P!Retries
<1>. QED  BY <1>1, <1>2 DEF P!JobWell

\* The worker is through with a task.
LEMMA JobEnds == ASSUME P!PlacementAssumption, job' = P!Ready PROVE P!JobWell'
  BY ReadyFields DEF P!JobWell, P!Works, P!Retries, P!Buying, P!Placing

\* An item is skipped.
LEMMA JobSkips ==
    ASSUME P!JobWell, NEW T \in SUBSET job.todo, job' = [job EXCEPT !.todo = T], phase' = phase,
           job.step = "next", job.task # "none",
           job.task = "retry" => \A r \in T : P!Retried(r)'
    PROVE  P!JobWell'
<1>1. /\ job' \in P!JobType /\ job'.todo = T /\ job'.task = job.task /\ job'.step = "next"
      /\ job'.row = job.row /\ job'.order = job.order /\ job'.sym = job.sym
  BY DEF P!JobWell, P!JobType
<1>2. P!Works'
  BY <1>1 DEF P!JobWell, P!Works, P!Buying, P!Placing
<1>3. P!Retries'
  BY <1>1 DEF P!JobWell, P!Retries, P!Placing
<1>. QED  BY <1>1, <1>2, <1>3 DEF P!JobWell

\* A placement is over.
LEMMA JobGoesOn ==
    ASSUME P!PlacementAssumption, P!JobWell, P!Over, phase' = phase, job.task # "none",
           job.task = "retry" => \A r \in job.todo : P!Retried(r)'
    PROVE  P!JobWell'
<1>1. /\ job' \in P!JobType /\ job'.todo = job.todo /\ job'.task = job.task /\ job'.step = "next"
      /\ job'.row = P!None /\ job'.order = P!None /\ job'.sym = P!NoSymbol
  BY PlacementSets DEF P!JobWell, P!JobType, P!Over
<1>2. P!Works'
  BY <1>1 DEF P!JobWell, P!Works, P!Buying, P!Placing
<1>3. P!Retries'
  BY <1>1 DEF P!JobWell, P!Retries, P!Placing
<1>. QED  BY <1>1, <1>2, <1>3 DEF P!JobWell

\* An item passes its checks.
LEMMA EntryPasses ==
    ASSUME P!PlacementAssumption, P!JobWell, NEW s \in Symbols, s \in job.todo,
           P!Funds(s, P!None, s), phase' = phase, job.task \in {"buys", "preview"}
    PROVE  P!JobWell'
<1>1. /\ job' \in P!JobType /\ job'.todo = job.todo \ {s} /\ job'.task = job.task
      /\ job'.step = "funds" /\ job'.row = P!None /\ job'.order = job.order /\ job'.sym = s
  BY DEF P!JobWell, P!JobType, P!Funds, P!Placing
<1>2. P!Works'
  BY <1>1 DEF P!JobWell, P!Works, P!Buying, P!Placing
<1>3. P!Retries'
  BY <1>1 DEF P!JobWell, P!Retries, P!Placing, P!Retried
<1>. QED  BY <1>1, <1>2, <1>3 DEF P!JobWell

LEMMA RowPasses ==
    ASSUME P!PlacementAssumption, P!JobWell, NEW s \in Symbols, NEW r \in P!Rows, r \in job.todo,
           P!Funds(s, r, r), phase' = phase, job.task = "retry",
           rows[r].sym = s, rows' = rows
    PROVE  P!JobWell'
<1>1. /\ job' \in P!JobType /\ job'.todo = job.todo \ {r} /\ job'.task = job.task
      /\ job'.step = "funds" /\ job'.row = r /\ job'.order = job.order /\ job'.sym = s
  BY DEF P!JobWell, P!JobType, P!Funds, P!Placing
<1>2. P!Works'
  BY <1>1 DEF P!JobWell, P!Works, P!Buying, P!Placing
<1>3. P!Retries'
  BY <1>1 DEF P!JobWell, P!Retries, P!Placing, P!Retried
<1>. QED  BY <1>1, <1>2, <1>3 DEF P!JobWell

\* A placement takes its next step.
LEMMA JobPlaces ==
    ASSUME P!PlacementAssumption, P!JobWell, P!Buying, NEW o \in P!Orders, phase' = phase,
           NEW step \in P!Placing \ {"funds"}, step = "verified" => job.task = "retry",
           job' = [job EXCEPT !.step = step, !.order = o], job.step \in P!Placing,
           \A r \in P!Rows : P!Retried(r) => P!Retried(r)' /\ rows'[r].sym = rows[r].sym
    PROVE  P!JobWell'
<1>1. /\ job' \in P!JobType /\ job'.todo = job.todo /\ job'.task = job.task /\ job'.step = step
      /\ job'.row = job.row /\ job'.order = o /\ job'.sym = job.sym
  BY DEF P!JobWell, P!JobType, P!Placing
<1>2. P!Works'
  BY <1>1 DEF P!JobWell, P!Works, P!Buying, P!Placing
<1>3. P!Retries'
  BY <1>1 DEF P!JobWell, P!Retries, P!Placing
<1>. QED  BY <1>1, <1>2, <1>3 DEF P!JobWell

LEMMA JobSteps ==
    ASSUME P!PlacementAssumption, P!JobWell, P!Buying, job.order \in P!Orders, phase' = phase,
           NEW step \in P!Placing \ {"funds"}, step = "verified" => job.task = "retry",
           job' = [job EXCEPT !.step = step], job.step \in P!Placing,
           \A r \in P!Rows : P!Retried(r) => P!Retried(r)' /\ rows'[r].sym = rows[r].sym
    PROVE  P!JobWell'
<1>1. /\ job' \in P!JobType /\ job'.todo = job.todo /\ job'.task = job.task /\ job'.step = step
      /\ job'.row = job.row /\ job'.order = job.order /\ job'.sym = job.sym
  BY DEF P!JobWell, P!JobType, P!Placing
<1>2. P!Works'
  BY <1>1 DEF P!JobWell, P!Works, P!Buying, P!Placing
<1>3. P!Retries'
  BY <1>1 DEF P!JobWell, P!Retries, P!Placing
<1>. QED  BY <1>1, <1>2, <1>3 DEF P!JobWell

-----------------------------------------------------------------------------
(* Type correctness: the worker's steps *)

\* A row gets its status, and its signal fails.
LEMMA SettledSheets ==
    ASSUME P!Typed, P!PlacementAssumption, NEW f \in P!Rows, rows[f].st # "none",
           NEW st \in {"failed", "cancelled"}, P!Settle(f, st)
    PROVE  /\ P!Sheets'
           /\ \A r \in P!Rows : P!Retried(r) => P!Retried(r)' /\ rows'[r].sym = rows[r].sym
<1>1. /\ rows' \in [P!Rows -> P!RowType] /\ P!RowsWell'
      /\ \A r \in P!Rows : rows'[r] = IF r = f THEN [rows[r] EXCEPT !.st = st] ELSE rows[r]
      /\ rows'[f].st = st /\ rows'[f].sym = rows[f].sym
  BY OneStatus DEF P!Settle
<1>2. signal' \in [Symbols -> P!SignalType]
  BY SignalsTyped DEF P!Settle
<1>3. P!Sheets'
  BY <1>1, <1>2 DEF P!Typed, P!Tables, P!Sheets, P!BookWell
<1>4. \A r \in P!Rows : P!Retried(r) => P!Retried(r)' /\ rows'[r].sym = rows[r].sym
  BY <1>1 DEF P!Retried
<1>. QED  BY <1>3, <1>4

\* A row is added where there was none.
LEMMA AddedSheets ==
    ASSUME P!Typed, P!PlacementAssumption, NEW f \in P!Rows, rows[f] = P!NoRow, NEW s \in Symbols,
           NEW o \in P!Orders \cup {P!None}, NEW x \in {P!NewRow(s, o), P!FailedRow(s)},
           rows' = [rows EXCEPT ![f] = x], signal' \in [Symbols -> P!SignalType]
    PROVE  /\ P!Sheets'
           /\ \A r \in P!Rows : P!Retried(r) => P!Retried(r)' /\ rows'[r].sym = rows[r].sym
<1>1. /\ rows' \in [P!Rows -> P!RowType] /\ P!RowsWell'
      /\ \A r \in P!Rows : rows'[r] = IF r = f THEN x ELSE rows[r]
  BY OneMore
<1>2. P!Sheets'
  BY <1>1 DEF P!Typed, P!Tables, P!Sheets, P!BookWell
<1>3. ~P!Retried(f)
  BY DEF P!Retried, P!NoRow
<1>4. \A r \in P!Rows : P!Retried(r) => P!Retried(r)' /\ rows'[r].sym = rows[r].sym
  BY <1>1, <1>3 DEF P!Retried
<1>. QED  BY <1>2, <1>4

\* create_amo, with an order's id or without.
LEMMA CreatedSheets ==
    ASSUME P!Typed, P!PlacementAssumption, NEW s \in Symbols, NEW o \in P!Orders \cup {P!None},
           P!SpareRows # {}, rows' = P!Created(s, o), signal' = signal
    PROVE  /\ P!Sheets'
           /\ \A r \in P!Rows : P!Retried(r) => P!Retried(r)' /\ rows'[r].sym = rows[r].sym
<1>1. CASE rows' = rows
  BY <1>1 DEF P!Typed, P!Tables, P!Sheets, P!RowsWell, P!Retried
<1>2. ASSUME NEW f \in P!Rows, rows[f] = P!NoRow, rows' = [rows EXCEPT ![f] = P!NewRow(s, o)]
      PROVE  /\ P!Sheets'
             /\ \A r \in P!Rows : P!Retried(r) => P!Retried(r)' /\ rows'[r].sym = rows[r].sym
  <2>1. signal' \in [Symbols -> P!SignalType]
    BY DEF P!Typed, P!Tables, P!Sheets, P!BookWell
  <2>. QED  BY <1>2, <2>1, AddedSheets
<1>. QED  BY <1>1, <1>2, CreatedRow

\* _add_failed_order
LEMMA FailedSheets ==
    ASSUME P!Typed, P!PlacementAssumption, NEW s \in Symbols, P!AddFailed(s)
    PROVE  /\ P!Sheets'
           /\ \A r \in P!Rows : P!Retried(r) => P!Retried(r)' /\ rows'[r].sym = rows[r].sym
<1>1. signal' \in [Symbols -> P!SignalType]
  BY SignalsTyped DEF P!AddFailed
<1>2. CASE rows' = rows
  BY <1>1, <1>2 DEF P!Typed, P!Tables, P!Sheets, P!BookWell, P!RowsWell, P!Retried
<1>3. ASSUME NEW f \in P!Rows, rows[f] = P!NoRow, rows' = [rows EXCEPT ![f] = P!FailedRow(s)]
      PROVE  /\ P!Sheets'
             /\ \A r \in P!Rows : P!Retried(r) => P!Retried(r)' /\ rows'[r].sym = rows[r].sym
  BY <1>1, <1>3, AddedSheets
<1>4. ASSUME NEW p \in P!Rows, rows[p].st = "pending", rows' = [rows EXCEPT ![p].st = "failed"]
      PROVE  /\ P!Sheets'
             /\ \A r \in P!Rows : P!Retried(r) => P!Retried(r)' /\ rows'[r].sym = rows[r].sym
  <2>1. /\ rows' \in [P!Rows -> P!RowType] /\ P!RowsWell'
        /\ \A r \in P!Rows : rows'[r] = IF r = p THEN [rows[r] EXCEPT !.st = "failed"] ELSE rows[r]
        /\ rows'[p].st = "failed" /\ rows'[p].sym = rows[p].sym
    BY <1>4, OneStatus
  <2>2. P!Sheets'
    BY <1>1, <2>1 DEF P!Typed, P!Tables, P!Sheets, P!BookWell
  <2>. QED  BY <2>1, <2>2 DEF P!Retried
<1>. QED  BY <1>2, <1>3, <1>4, AddFailedRow

LEMMA EntriesTyped ==
    ASSUME P!Typed, P!PlacementAssumption, NEW s \in Symbols, allowed' = allowed,
           P!SkipEntry(s) \/ P!AdoptEntry(s) \/ P!PassEntry(s) \/ P!ReplaceEntry(s)
    PROVE  P!Typed'
<1>1. /\ job.task \in {"buys", "preview"} /\ job.step = "next" /\ s \in job.todo
      /\ UNCHANGED <<bought, owned, positions, phase, done, allowed>>
      /\ P!Tables /\ P!Around /\ P!JobWell
  BY DEF P!SkipEntry, P!AdoptEntry, P!PassEntry, P!ReplaceEntry, P!Entry, P!Typed
<1>2. P!Around'
  BY <1>1, AroundStays DEF P!SkipEntry, P!AdoptEntry, P!PassEntry, P!ReplaceEntry
<1>3. CASE P!SkipEntry(s)
  <2>1. \E T \in SUBSET job.todo : job' = [job EXCEPT !.todo = T]
    BY <1>3 DEF P!SkipEntry, P!Skip
  <2>2. P!JobWell'
    BY <1>1, <2>1, JobSkips
  <2>3. P!Tables'
    BY <1>1, <1>3, TablesStay DEF P!SkipEntry
  <2>. QED  BY <1>2, <2>2, <2>3 DEF P!Typed
<1>4. CASE P!AdoptEntry(s)
  <2>1. job' = [job EXCEPT !.todo = job.todo \ {s}]
    BY <1>4 DEF P!AdoptEntry, P!Skip
  <2>2. P!JobWell'
    BY <1>1, <2>1, JobSkips
  <2>3. PICK o \in P!Orders : rows' = P!Created(s, o)
    BY <1>1, <1>4 DEF P!AdoptEntry, P!Strangers, P!JobWell, P!JobType
  <2>4. P!Tables'
    <3>1. P!Sheets'
      BY <1>4, <2>3, CreatedSheets DEF P!AdoptEntry
    <3>2. P!BookWell'
      BY <1>1, <1>4 DEF P!AdoptEntry, P!Tables, P!BookWell
    <3>. QED  BY <3>1, <3>2 DEF P!Tables
  <2>. QED  BY <1>2, <2>2, <2>4 DEF P!Typed
<1>5. CASE P!PassEntry(s)
  <2>0. P!Funds(s, P!None, s) /\ phase' = phase
    BY <1>1, <1>5 DEF P!PassEntry
  <2>1. P!JobWell'
    BY <1>1, <2>0, EntryPasses
  <2>2. P!Tables'
    BY <1>1, <1>5, TablesStay DEF P!PassEntry
  <2>. QED  BY <1>2, <2>1, <2>2 DEF P!Typed
<1>6. CASE P!ReplaceEntry(s)
  <2>0. P!Funds(s, P!None, s) /\ phase' = phase
    BY <1>1, <1>6 DEF P!ReplaceEntry
  <2>1. P!JobWell'
    BY <1>1, <2>0, EntryPasses
  <2>2. PICK r \in P!Rows : /\ rows[r].st \in {"pending", "failed"}
                            /\ rows' = [rows EXCEPT ![r].st = "cancelled"]
    BY <1>6 DEF P!ReplaceEntry, P!Known, P!RowsOf
  <2>3. rows' \in [P!Rows -> P!RowType] /\ P!RowsWell'
    BY <2>2, OneStatus
  <2>4. /\ buyBook' \in [P!Orders -> P!BookType]
        /\ \A o \in P!Orders : buyBook'[o].st = "open" => buyBook'[o] = buyBook[o]
    BY <1>1, <1>6 DEF P!ReplaceEntry, P!Tables, P!Sheets, P!BookWell, P!BookType
  <2>5. P!Tables'
    BY <1>1, <1>6, <2>3, <2>4 DEF P!ReplaceEntry, P!Tables, P!Sheets, P!BookWell
  <2>. QED  BY <1>2, <2>1, <2>5 DEF P!Typed
<1>. QED  BY <1>3, <1>4, <1>5, <1>6

LEMMA RetriesTyped ==
    ASSUME P!Typed, P!PlacementAssumption, NEW r \in P!Rows, allowed' = allowed,
           P!SkipRow(r) \/ P!AdoptRow(r) \/ P!PassRow(r)
    PROVE  P!Typed'
<1>1. /\ job.task = "retry" /\ job.step = "next" /\ r \in job.todo /\ job.todo \subseteq P!Rows
      /\ UNCHANGED <<bought, owned, positions, phase, done, allowed, buyBook>>
      /\ P!Tables /\ P!Around /\ P!JobWell /\ \A q \in job.todo : P!Retried(q)
  BY DEF P!SkipRow, P!AdoptRow, P!PassRow, P!Retriable, P!Row, P!Typed, P!JobWell, P!Retries
<1>2. P!Around'
  BY <1>1, AroundStays DEF P!SkipRow, P!AdoptRow, P!PassRow
<1>3. rows[r].st # "none" /\ rows[r].sym \in Symbols /\ rows[r] \in P!RowType
  BY <1>1 DEF P!Retried, P!Tables, P!Sheets, P!BookWell, P!RowsWell
<1>4. CASE P!SkipRow(r)
  <2>1. PICK T \in SUBSET job.todo : job' = [job EXCEPT !.todo = T]
    BY <1>4 DEF P!SkipRow, P!Skip
  <2>2. \/ UNCHANGED <<rows, signal>>
        \/ P!Settle(r, "cancelled")
        \/ P!Settle(r, "failed")
    BY <1>4 DEF P!SkipRow
  <2>3. /\ P!Tables'
        /\ \A q \in P!Rows : P!Retried(q) => P!Retried(q)' /\ rows'[q].sym = rows[q].sym
    <3>1. CASE UNCHANGED <<rows, signal>>
      BY <1>1, <3>1, TablesStay DEF P!Retried
    <3>2. CASE P!Settle(r, "cancelled")
      BY <1>1, <1>3, <3>2, SettledSheets DEF P!Tables, P!BookWell
    <3>3. CASE P!Settle(r, "failed")
      BY <1>1, <1>3, <3>3, SettledSheets DEF P!Tables, P!BookWell
    <3>. QED  BY <2>2, <3>1, <3>2, <3>3
  <2>4. P!JobWell'
    BY <1>1, <2>1, <2>3, JobSkips
  <2>. QED  BY <1>2, <2>3, <2>4 DEF P!Typed
<1>5. CASE P!AdoptRow(r)
  <2>1. PICK o \in P!Orders : rows' = [rows EXCEPT ![r].st = "pending", ![r].order = o]
    BY <1>5 DEF P!AdoptRow, P!Strangers, P!Live
  <2>. DEFINE x == [rows[r] EXCEPT !.st = "pending", !.order = o]
  <2>2. x \in P!RowType /\ x.st = "pending" /\ x.sym = rows[r].sym
    BY <1>3 DEF P!RowType
  <2>3. rows' = [rows EXCEPT ![r] = x]
    BY <2>1, <1>1 DEF P!Tables, P!Sheets, P!BookWell
  <2>. HIDE DEF x
  <2>4. /\ rows' \in [P!Rows -> P!RowType] /\ P!RowsWell'
        /\ \A q \in P!Rows : rows'[q] = IF q = r THEN x ELSE rows[q]
    BY <1>3, <2>2, <2>3, OneRow
  <2>5. P!Tables'
    BY <1>1, <1>5, <2>4 DEF P!AdoptRow, P!Tables, P!Sheets, P!BookWell
  <2>6. \A q \in job.todo \ {r} : P!Retried(q)'
    BY <1>1, <2>4 DEF P!Retried
  <2>7. job' = [job EXCEPT !.todo = job.todo \ {r}]
    BY <1>5 DEF P!AdoptRow, P!Skip
  <2>8. P!JobWell'
    BY <1>1, <2>6, <2>7, JobSkips
  <2>. QED  BY <1>2, <2>5, <2>8 DEF P!Typed
<1>6. CASE P!PassRow(r)
  <2>1. UNCHANGED <<signal, rows>> /\ P!Funds(rows[r].sym, r, r)
    BY <1>6 DEF P!PassRow
  <2>2. P!Tables'
    BY <1>1, <2>1, TablesStay
  <2>3. P!JobWell'
    BY <1>1, <1>3, <2>1, RowPasses
  <2>. QED  BY <1>2, <2>2, <2>3 DEF P!Typed
<1>. QED  BY <1>4, <1>5, <1>6

\* A free number is given to an order that waits.
LEMMA SentBook ==
    ASSUME P!Typed, P!PlacementAssumption, P!SpareOrders # {}, NEW s \in Symbols,
           NEW by \in {"system", "user"},
           buyBook' = [buyBook EXCEPT ![P!FreeOrder] = [sym |-> s, st |-> "open", by |-> by]]
    PROVE  P!BookWell'
  BY FreeNumber DEF P!Typed, P!Tables, P!Sheets, P!BookWell, P!BookType

\* Orders leave the book, or lose their status of one that waits.
LEMMA BookStays == ASSUME P!BookWell, buyBook' = buyBook PROVE P!BookWell'
  BY DEF P!BookWell

LEMMA PlacingTyped ==
    ASSUME P!Typed, P!PlacementAssumption, allowed' = allowed,
           P!NoFunds \/ P!PreviewOnly \/ P!Refused \/ P!Accepted \/ P!Trade \/ P!Write
    PROVE  P!Typed'
<1>1. /\ P!Tables /\ P!Sheets /\ P!BookWell /\ P!Around /\ P!JobWell /\ P!Works /\ P!Retries
      /\ job \in P!JobType
      /\ UNCHANGED <<bought, owned, positions, phase, done, allowed>>
  BY DEF P!NoFunds, P!PreviewOnly, P!Refused, P!Accepted, P!Trade, P!Write, P!Typed, P!Tables,
         P!JobWell
<1>2. job.step \in P!Placing /\ job.sym \in Symbols /\ job.task # "none"
  BY <1>1, ReadyFields
     DEF P!NoFunds, P!PreviewOnly, P!Refused, P!Accepted, P!Trade, P!Write, P!Works, P!Placing
<1>3. job.task = "retry" => /\ job.row \in P!Rows /\ P!Retried(job.row) /\ job.todo \subseteq P!Rows
                            /\ \A r \in job.todo : P!Retried(r)
                            /\ rows[job.row].st # "none"
  BY <1>1, <1>2 DEF P!Retries, P!Retried
<1>4. P!Around'
  BY <1>1, AroundStays DEF P!NoFunds, P!PreviewOnly, P!Refused, P!Accepted, P!Trade, P!Write
<1>5. ASSUME P!Over, P!Sheets', P!BookWell',
             \A r \in P!Rows : P!Retried(r) => P!Retried(r)' /\ rows'[r].sym = rows[r].sym
      PROVE  P!Typed'
  <2>1. P!JobWell'
    BY <1>1, <1>2, <1>3, <1>5, JobGoesOn
  <2>. QED  BY <1>4, <1>5, <2>1 DEF P!Typed, P!Tables
<1>6. ASSUME UNCHANGED <<rows, signal>>
      PROVE  P!Sheets' /\ \A r \in P!Rows : P!Retried(r) => P!Retried(r)' /\ rows'[r].sym = rows[r].sym
  BY <1>1, <1>6 DEF P!Sheets, P!RowsWell, P!Retried
<1>7. CASE P!NoFunds
  <2>1. P!BookWell' /\ P!Over
    BY <1>1, <1>7, BookStays DEF P!NoFunds
  <2>2. UNCHANGED <<rows, signal>> \/ P!AddFailed(job.sym)
    BY <1>7 DEF P!NoFunds
  <2>. QED  BY <1>2, <1>5, <1>6, <2>1, <2>2, FailedSheets
<1>8. CASE P!PreviewOnly
  BY <1>1, <1>5, <1>6, <1>8, BookStays DEF P!PreviewOnly
<1>9. CASE P!Refused
  <2>1. P!BookWell'
    BY <1>1, <1>2, <1>9, BookStays, SentBook DEF P!Refused, P!Sent
  <2>2. P!Over /\ IF job.task = "retry" THEN P!Settle(job.row, "failed") ELSE P!AddFailed(job.sym)
    BY <1>9 DEF P!Refused, P!Retrying
  <2>3. CASE job.task = "retry"
    BY <1>3, <1>5, <2>1, <2>2, <2>3, SettledSheets
  <2>4. CASE job.task # "retry"
    BY <1>2, <1>5, <2>1, <2>2, <2>4, FailedSheets
  <2>. QED  BY <2>3, <2>4
<1>10. CASE P!Accepted
  <2>1. P!BookWell'
    BY <1>1, <1>2, <1>10, SentBook DEF P!Accepted, P!Sent
  <2>2. P!FreeOrder \in P!Orders /\ P!Buying
    BY <1>1, <1>10, FreeNumber DEF P!Accepted, P!Sent, P!Works, P!Buying
  <2>3. P!JobWell'
    BY <1>1, <1>2, <1>6, <1>10, <2>2, JobPlaces DEF P!Accepted, P!Placing
  <2>. QED  BY <1>4, <1>6, <1>10, <2>1, <2>3 DEF P!Accepted, P!Typed, P!Tables
<1>11. CASE P!Trade
  <2>1. P!Sheets' /\ P!BookWell'
    BY <1>1, <1>2, <1>11, BookStays DEF P!Trade, P!Sheets, P!SignalType, P!RowsWell
  <2>2. job.order \in P!Orders /\ P!Buying
    BY <1>1, <1>11 DEF P!Trade, P!Works, P!Placing
  <2>3. job' = [job EXCEPT !.step = "traded"] /\ "traded" \in P!Placing \ {"funds"}
    BY <1>11 DEF P!Trade, P!Placing
  <2>4. \A r \in P!Rows : P!Retried(r) => P!Retried(r)' /\ rows'[r].sym = rows[r].sym
    BY <1>11 DEF P!Trade, P!Retried
  <2>5. P!JobWell'
    BY <1>1, <1>2, <2>2, <2>3, <2>4, JobSteps
  <2>. QED  BY <1>4, <2>1, <2>5 DEF P!Typed, P!Tables
<1>12. CASE P!Write
  <2>1. job.order \in P!Orders /\ P!Buying
    BY <1>1, <1>12 DEF P!Write, P!Works, P!Placing
  <2>2. P!BookWell' /\ signal' = signal
    BY <1>1, <1>12, BookStays DEF P!Write
  <2>3. rows' = rows \/ (P!SpareRows # {} /\ rows' = P!Created(job.sym, job.order))
    BY <1>12 DEF P!Write
  <2>4. P!Sheets' /\ \A r \in P!Rows : P!Retried(r) => P!Retried(r)' /\ rows'[r].sym = rows[r].sym
    BY <1>2, <1>6, <2>1, <2>2, <2>3, CreatedSheets
  <2>5. job' = [job EXCEPT !.step = "written"] /\ "written" \in P!Placing \ {"funds"}
    BY <1>12 DEF P!Write, P!Placing
  <2>6. P!JobWell'
    BY <1>1, <1>2, <2>1, <2>4, <2>5, JobSteps
  <2>. QED  BY <1>4, <2>2, <2>4, <2>6 DEF P!Typed, P!Tables
<1>. QED  BY <1>7, <1>8, <1>9, <1>10, <1>11, <1>12

\* Tidied rows are well, and those that wait for their retry are what they were.
LEMMA TidySheets ==
    ASSUME NEW rs \in [P!Rows -> P!RowType], NEW j, P!PlacementAssumption, rows' = P!Tidy(rs, j),
           \A r \in P!Rows : IF rs[r].st = "none" THEN rs[r] = P!NoRow ELSE rs[r].sym \in Symbols
    PROVE  /\ rows' \in [P!Rows -> P!RowType] /\ P!RowsWell'
           /\ \A r \in P!Rows : r \in P!InUse(j) => rows'[r] = rs[r]
<1>. DEFINE t == P!Tidy(rs, j)
<1>0. /\ t \in [P!Rows -> P!RowType]
      /\ \A r \in P!Rows : t[r] = rs[r] \/ (t[r] = P!NoRow /\ r \notin P!InUse(j))
  BY TidyRows
<1>. HIDE DEF t
<1>1. /\ rows' \in [P!Rows -> P!RowType]
      /\ \A r \in P!Rows : rows'[r] = rs[r] \/ (rows'[r] = P!NoRow /\ r \notin P!InUse(j))
  <2>1. rows' = t
    BY DEF t
  <2>. QED  BY <1>0, <2>1
<1>2. P!NoRow.st = "none"
  BY DEF P!NoRow
<1>. QED  BY <1>1, <1>2 DEF P!RowsWell

LEMMA VerifyTyped ==
    ASSUME P!Typed, P!PlacementAssumption, allowed' = allowed, P!Verify PROVE P!Typed'
<1>1. /\ P!Tables /\ P!Sheets /\ P!BookWell /\ P!Around /\ P!JobWell /\ P!Works /\ P!Retries
      /\ job \in P!JobType
      /\ UNCHANGED <<bought, buyBook, owned, positions, phase, done, allowed, faults>>
  BY DEF P!Verify, P!Typed, P!Tables, P!JobWell
<1>2. /\ job.step = "written" /\ job.step \in P!Placing \ {"funds"} /\ job.order \in P!Orders
      /\ P!Buying /\ job.task # "none"
  BY <1>1 DEF P!Verify, P!Works, P!Placing, P!Buying
<1>3. P!Around' /\ P!BookWell'
  BY <1>1, AroundStays, BookStays
<1>4. P!Sheets' /\ \A r \in P!Rows : P!Retried(r) => P!Retried(r)' /\ rows'[r].sym = rows[r].sym
  <2>1. CASE UNCHANGED <<rows, signal>>
    BY <1>1, <2>1 DEF P!Sheets, P!RowsWell, P!Retried
  <2>2. ASSUME NEW r \in P!Rows, rows[r].order = job.order, P!Settle(r, "failed")
        PROVE  P!Sheets' /\ \A q \in P!Rows : P!Retried(q) => P!Retried(q)' /\ rows'[q].sym = rows[q].sym
    <3>1. rows[r].st # "none"
      BY <1>1, <1>2, <2>2, PlacementSets DEF P!Sheets, P!RowsWell, P!NoRow, P!None
    <3>. QED  BY <2>2, <3>1, SettledSheets
  <2>. QED  BY <2>1, <2>2 DEF P!Verify
<1>5. P!JobWell'
  <2>1. CASE job.task = "retry"
    <3>1. job' = [job EXCEPT !.step = "verified"] /\ "verified" \in P!Placing \ {"funds"}
      BY <2>1 DEF P!Verify, P!Retrying, P!Placing
    <3>. QED  BY <1>1, <1>2, <1>4, <2>1, <3>1, JobSteps
  <2>2. CASE job.task # "retry"
    BY <1>1, <1>2, <2>2, JobGoesOn DEF P!Verify, P!Retrying
  <2>. QED  BY <2>1, <2>2
<1>. QED  BY <1>3, <1>4, <1>5 DEF P!Typed, P!Tables

LEMMA RelinkTyped ==
    ASSUME P!Typed, P!PlacementAssumption, allowed' = allowed, P!Relink PROVE P!Typed'
<1>1. /\ P!Tables /\ P!Sheets /\ P!BookWell /\ P!Around /\ P!JobWell /\ P!Works /\ P!Retries
      /\ job \in P!JobType /\ rows \in [P!Rows -> P!RowType] /\ P!RowsWell
      /\ UNCHANGED <<signal, bought, buyBook, owned, positions, phase, done, allowed, faults>>
  BY DEF P!Relink, P!Typed, P!Tables, P!JobWell, P!Sheets
<1>2. /\ job.task = "retry" /\ job.order \in P!Orders /\ job.row \in P!Rows /\ job.todo \subseteq P!Rows
      /\ job.row \notin job.todo /\ P!Retried(job.row) /\ \A r \in job.todo : P!Retried(r)
  BY <1>1 DEF P!Relink, P!Works, P!Retries, P!Placing
<1>3. P!Around' /\ P!BookWell'
  BY <1>1, AroundStays, BookStays
<1>. DEFINE x  == [rows[job.row] EXCEPT !.st = "pending", !.order = job.order]
            rs == [rows EXCEPT ![job.row] = x]
<1>4. /\ x \in P!RowType /\ x.st = "pending" /\ x.sym \in Symbols
  <2>1. rows[job.row] \in P!RowType /\ rows[job.row].sym \in Symbols
    BY <1>1, <1>2 DEF P!RowsWell, P!Retried
  <2>. QED  BY <1>2, <2>1 DEF P!RowType
<1>5. rows' = P!Tidy(rs, job') /\ P!Over
  <2>1. [rows EXCEPT ![job.row].st = "pending", ![job.row].order = job.order] = rs
    BY <1>1, <1>2
  <2>. QED  BY <2>1 DEF P!Relink
<1>. HIDE DEF x
<1>6. /\ rs \in [P!Rows -> P!RowType]
      /\ \A r \in P!Rows : rs[r] = IF r = job.row THEN x ELSE rows[r]
  BY <1>1, <1>2, <1>4
<1>. HIDE DEF rs
<1>7. \A r \in P!Rows : IF rs[r].st = "none" THEN rs[r] = P!NoRow ELSE rs[r].sym \in Symbols
  BY <1>1, <1>4, <1>6 DEF P!RowsWell
<1>8. /\ rows' \in [P!Rows -> P!RowType] /\ P!RowsWell'
      /\ \A r \in P!Rows : r \in P!InUse(job') => rows'[r] = rs[r]
  <2>. DEFINE j == job'
  <2>1. rows' = P!Tidy(rs, j)
    BY <1>5
  <2>. HIDE DEF j
  <2>2. /\ rows' \in [P!Rows -> P!RowType] /\ P!RowsWell'
        /\ \A r \in P!Rows : r \in P!InUse(j) => rows'[r] = rs[r]
    BY <1>6, <1>7, <2>1, TidySheets
  <2>. QED  BY <2>2 DEF j
<1>9. job'.todo = job.todo /\ job'.task = "retry"
  BY <1>1, <1>2, <1>5 DEF P!Over, P!JobType
<1>10. \A r \in job.todo : P!Retried(r)'
  BY <1>2, <1>6, <1>8, <1>9 DEF P!InUse, P!Retried
<1>11. P!JobWell'
  BY <1>1, <1>2, <1>5, <1>10, JobGoesOn
<1>. QED  BY <1>1, <1>3, <1>8, <1>11 DEF P!Typed, P!Tables, P!Sheets

LEMMA PremarketTyped ==
    ASSUME P!Typed, P!PlacementAssumption, allowed' = allowed,
           (\E o \in P!Orders : P!LeaveOrder(o) \/ P!CancelAbove(o)) \/ P!WriteOff \/ P!EndTask
    PROVE  P!Typed'
<1>1. /\ P!Tables /\ P!Sheets /\ P!BookWell /\ P!Around /\ P!JobWell /\ P!Works
      /\ job \in P!JobType /\ rows \in [P!Rows -> P!RowType] /\ P!RowsWell
      /\ UNCHANGED <<bought, owned, positions, phase, done, allowed, signal>>
  BY DEF P!LeaveOrder, P!CancelAbove, P!WriteOff, P!EndTask, P!Typed, P!Tables, P!JobWell, P!Sheets
<1>2. P!Around'
  BY <1>1, AroundStays DEF P!LeaveOrder, P!CancelAbove, P!WriteOff, P!EndTask
<1>3. ASSUME NEW o \in P!Orders, P!LeaveOrder(o) PROVE P!Typed'
  <2>1. /\ job.task = "adjust" /\ job.step = "next" /\ job' = [job EXCEPT !.todo = job.todo \ {o}]
        /\ P!Tables'
    BY <1>1, <1>3, TablesStay DEF P!LeaveOrder, P!Waiting, P!Skip
  <2>2. P!JobWell'
    BY <1>1, <2>1, JobSkips
  <2>. QED  BY <1>2, <2>1, <2>2 DEF P!Typed
<1>4. ASSUME NEW o \in P!Orders, P!CancelAbove(o) PROVE P!Typed'
  <2>1. job.task = "adjust" /\ job.step = "next" /\ rows' = rows
    BY <1>4 DEF P!CancelAbove, P!Waiting
  <2>2. /\ job' \in P!JobType /\ job'.task = "adjust" /\ job'.step = "gone" /\ job'.order = o
    BY <1>1, <1>4, <2>1 DEF P!CancelAbove, P!JobType
  <2>3. P!JobWell'
    BY <1>1, <2>1, <2>2 DEF P!JobWell, P!Works, P!Retries, P!Buying, P!Placing
  <2>4. P!BookWell'
    BY <1>1, <1>4, ZenonT(30) DEF P!CancelAbove, P!BookWell, P!BookType
  <2>5. P!Sheets'
    BY <1>1, <1>4 DEF P!CancelAbove, P!Sheets, P!RowsWell
  <2>. QED  BY <1>2, <2>3, <2>4, <2>5 DEF P!Typed, P!Tables
<1>5. CASE P!WriteOff
  <2>1. job.step = "gone" /\ job.task = "adjust" /\ job.order \in P!Orders /\ P!Over /\ P!BookWell'
    BY <1>1, <1>5, BookStays DEF P!WriteOff, P!Works
  <2>2. P!JobWell'
    BY <1>1, <2>1, JobGoesOn
  <2>3. P!Sheets'
    <3>. DEFINE mine == {r \in P!Rows : rows[r].order = job.order}
    <3>1. \/ rows' = rows
          \/ rows' = [r \in P!Rows |-> IF r \in mine THEN [rows[r] EXCEPT !.st = "cancelled"]
                                                     ELSE rows[r]]
      BY <1>5 DEF P!WriteOff
    <3>2. \A r \in mine : rows[r].st # "none" /\ rows[r].sym \in Symbols
      BY <1>1, <2>1, PlacementSets DEF P!RowsWell, P!NoRow, P!None
    <3>3. rows' \in [P!Rows -> P!RowType]
      BY <1>1, <3>1 DEF P!RowType
    <3>4. P!RowsWell'
      BY <1>1, <3>1, <3>2 DEF P!RowsWell, P!RowType
    <3>. QED  BY <1>1, <3>3, <3>4 DEF P!Sheets
  <2>. QED  BY <1>2, <2>1, <2>2, <2>3 DEF P!Typed, P!Tables
<1>6. CASE P!EndTask
  <2>1. P!JobWell' /\ P!BookWell'
    BY <1>1, <1>6, JobEnds, BookStays DEF P!EndTask
  <2>2. rows' \in [P!Rows -> P!RowType] /\ P!RowsWell'
    BY <1>1, <1>6, TidySheets DEF P!EndTask, P!RowsWell
  <2>. QED  BY <1>1, <1>2, <2>1, <2>2 DEF P!Typed, P!Tables, P!Sheets
<1>. QED  BY <1>3, <1>4, <1>5, <1>6

-----------------------------------------------------------------------------
(* Type correctness: the start of the tasks, and the day *)

\* What a task starts with.
LEMMA StartedJob ==
    ASSUME job' \in P!JobType, job'.task \in {"buys", "retry", "adjust", "preview"},
           job'.step = "next", job'.row = P!None,
           phase' = IF job'.task = "preview" THEN "closed" ELSE "pre",
           job'.task = "retry" => \A r \in job'.todo : r \in P!Rows /\ P!Retried(r)'
    PROVE  P!JobWell'
<1>1. P!Works'
  BY DEF P!Works, P!Buying, P!Placing
<1>2. P!Retries'
  BY DEF P!Retries, P!Placing
<1>. QED  BY <1>1, <1>2 DEF P!JobWell

LEMMA EntriesStart ==
    ASSUME P!PlacementAssumption, P!StartEntries
    PROVE  /\ job' \in P!JobType /\ job'.todo = P!Recommended /\ job'.task \in {"buys", "preview"}
           /\ job'.step = "next" /\ job'.order = P!None /\ job'.row = P!None
           /\ job'.seen = P!Live \/ (job'.seen = {} /\ P!Happens("noreport"))
           /\ job'.blind => P!Happens("noholdings")
           /\ faults' = faults \/ P!Happens("noholdings") \/ P!Happens("noreport")
           /\ phase = IF job'.task = "preview" THEN "closed" ELSE "pre"
<1>1. PICK task \in {"buys", "preview"}, blind \in BOOLEAN, seen \in {{}, P!Live} :
         /\ phase = IF task = "buys" THEN "pre" ELSE "closed"
         /\ job' = [P!Ready EXCEPT !.task = task, !.todo = P!Recommended,
                                   !.blind = blind, !.seen = seen]
         /\ \/ ~blind /\ seen = P!Live /\ UNCHANGED faults
            \/ blind /\ seen = P!Live /\ P!Happens("noholdings")
            \/ ~blind /\ seen = {} /\ P!Happens("noreport")
  BY DEF P!StartEntries
<1>2. /\ P!Ready \in P!JobType /\ P!Ready.step = "next" /\ P!Ready.row = P!None
      /\ P!Ready.order = P!None
  BY ReadyFields
<1>3. P!Recommended \in SUBSET (Symbols \cup P!Rows \cup P!Orders) /\ seen \in SUBSET P!Orders
  BY <1>1 DEF P!Recommended, P!Live
<1>. HIDE DEF P!Recommended
<1>4. /\ job' \in P!JobType /\ job'.task = task /\ job'.todo = P!Recommended /\ job'.seen = seen
      /\ job'.step = "next" /\ job'.blind = blind /\ job'.order = P!None /\ job'.row = P!None
  BY <1>1, <1>2, <1>3 DEF P!JobType
<1>. QED  BY <1>1, <1>4

LEMMA RetryStart ==
    ASSUME P!Typed, P!PlacementAssumption, P!StartRetry
    PROVE  /\ job' \in P!JobType /\ job'.task = "retry" /\ job'.step = "next"
           /\ job'.order = P!None /\ job'.row = P!None /\ job'.seen = {}
           /\ job'.blind => P!Happens("noholdings")
           /\ faults' = faults \/ P!Happens("noholdings")
           /\ rows' \in [P!Rows -> P!RowType] /\ P!RowsWell'
           /\ \A r \in job'.todo :
                 r \in P!Rows /\ rows'[r] = rows[r] /\ rows[r].st = "failed" /\ rows[r].age <= 1
           /\ \A r \in P!Rows :
                 \/ rows'[r] = rows[r] /\ (rows[r].st = "failed" => rows[r].age <= 1)
                 \/ rows'[r] = P!NoRow
                 \/ /\ rows[r].st = "failed" /\ rows'[r] = [rows[r] EXCEPT !.st = "cancelled"]
                    /\ rows'[r].st = "cancelled" /\ rows'[r].order = rows[r].order
                    /\ rows'[r].sym = rows[r].sym /\ rows'[r].age = rows[r].age
<1>. DEFINE rs == [r \in P!Rows |-> IF r \in P!Expired THEN [rows[r] EXCEPT !.st = "cancelled"]
                                                       ELSE rows[r]]
            todo == {r \in P!Rows : rs[r].st = "failed"}
<1>1. rows \in [P!Rows -> P!RowType] /\ P!RowsWell
  BY DEF P!Typed, P!Tables, P!Sheets
<1>2. PICK blind \in BOOLEAN :
         /\ IF blind THEN P!Happens("noholdings") ELSE UNCHANGED faults
         /\ job' = [P!Ready EXCEPT !.task = "retry", !.room = P!HasCapacity, !.blind = blind,
                                   !.todo = todo]
  BY DEF P!StartRetry
<1>3. rows' = P!Tidy(rs, job')
  BY DEF P!StartRetry
<1>4. /\ rs \in [P!Rows -> P!RowType]
      /\ \A r \in P!Rows :
            IF r \in P!Expired
            THEN /\ rows[r].st = "failed" /\ rs[r] = [rows[r] EXCEPT !.st = "cancelled"]
                 /\ rs[r].st = "cancelled" /\ rs[r].order = rows[r].order
                 /\ rs[r].sym = rows[r].sym /\ rs[r].age = rows[r].age
            ELSE rs[r] = rows[r] /\ (rows[r].st = "failed" => rows[r].age <= 1)
  BY <1>1 DEF P!Expired, P!RowType
<1>. HIDE DEF rs
<1>5. \A r \in P!Rows : IF rs[r].st = "none" THEN rs[r] = P!NoRow ELSE rs[r].sym \in Symbols
  BY <1>1, <1>4 DEF P!RowsWell
<1>6. /\ job' \in P!JobType /\ job'.task = "retry" /\ job'.step = "next" /\ job'.todo = todo
      /\ job'.order = P!None /\ job'.row = P!None /\ job'.seen = {} /\ job'.blind = blind
  <2>1. /\ P!Ready \in P!JobType /\ P!Ready.step = "next" /\ P!Ready.row = P!None
        /\ P!Ready.order = P!None /\ P!Ready.seen = {}
    BY ReadyFields
  <2>2. P!HasCapacity \in BOOLEAN /\ todo \in SUBSET (Symbols \cup P!Rows \cup P!Orders)
    BY DEF P!HasCapacity
  <2>. HIDE DEF todo
  <2>. QED  BY <1>2, <2>1, <2>2 DEF P!JobType
<1>7. /\ rows' \in [P!Rows -> P!RowType] /\ P!RowsWell'
      /\ \A r \in P!Rows : r \in P!InUse(job') => rows'[r] = rs[r]
      /\ \A r \in P!Rows : rows'[r] = rs[r] \/ rows'[r] = P!NoRow
  <2>. DEFINE j == job'  t == P!Tidy(rs, j)
  <2>1. rows' = P!Tidy(rs, j)
    BY <1>3
  <2>. HIDE DEF j
  <2>2. /\ rows' \in [P!Rows -> P!RowType] /\ P!RowsWell'
        /\ \A r \in P!Rows : r \in P!InUse(j) => rows'[r] = rs[r]
    BY <1>4, <1>5, <2>1, TidySheets
  <2>3. \A r \in P!Rows : t[r] = rs[r] \/ t[r] = P!NoRow
    BY <1>4, TidyRows
  <2>4. rows' = t
    BY <2>1
  <2>. HIDE DEF t
  <2>5. \A r \in P!Rows : rows'[r] = rs[r] \/ rows'[r] = P!NoRow
    BY <2>3, <2>4
  <2>. QED  BY <2>2, <2>5 DEF j
<1>8. \A r \in job'.todo : r \in P!Rows /\ rows'[r] = rs[r] /\ rs[r].st = "failed"
  BY <1>6, <1>7 DEF P!InUse
<1>. HIDE DEF todo
<1>9. \A r \in job'.todo : r \in P!Rows /\ rows'[r] = rows[r] /\ rows[r].st = "failed" /\ rows[r].age <= 1
  BY <1>4, <1>8
<1>10. \A r \in P!Rows :
          \/ rows'[r] = rows[r] /\ (rows[r].st = "failed" => rows[r].age <= 1)
          \/ rows'[r] = P!NoRow
          \/ /\ rows[r].st = "failed" /\ rows'[r] = [rows[r] EXCEPT !.st = "cancelled"]
             /\ rows'[r].st = "cancelled" /\ rows'[r].order = rows[r].order
             /\ rows'[r].sym = rows[r].sym /\ rows'[r].age = rows[r].age
  BY <1>4, <1>7
<1>. QED  BY <1>2, <1>6, <1>7, <1>9, <1>10

\* What the clean-up leaves of the rows.
LEMMA CleanRows ==
    ASSUME P!Typed, P!PlacementAssumption, P!Cleanup
    PROVE  /\ rows' \in [P!Rows -> P!RowType] /\ P!RowsWell'
           /\ \A r \in P!Rows :
                 \/ rows'[r] = P!NoRow
                 \/ /\ rows'[r].sym = rows[r].sym /\ rows'[r].order = rows[r].order
                    /\ rows'[r].st # "pending"
                    /\ IF rows[r].st = "pending" THEN rows'[r].st = "cancelled"
                                                ELSE rows'[r].st = rows[r].st
                    /\ rows'[r].age = IF rows[r].st = "failed" THEN P!Older(rows[r].age)
                                                              ELSE rows[r].age
                    /\ rows'[r].st = "cancelled" =>
                          rows[r].order # P!None /\ buyBook[rows[r].order].st = "open"
<1>. DEFINE rs == [r \in P!Rows |->
                     IF rows[r].st = "pending" THEN [rows[r] EXCEPT !.st = "cancelled"]
                     ELSE [rows[r] EXCEPT !.age = IF rows[r].st = "failed" THEN P!Older(@) ELSE @]]
            t == P!Tidy(rs, P!Ready)
<1>1. rows \in [P!Rows -> P!RowType] /\ P!RowsWell
  BY DEF P!Typed, P!Tables, P!Sheets
<1>2. rows' = t
  BY DEF P!Cleanup
<1>3. \A r \in P!Rows : rows[r].age \in 0 .. 3 /\ P!Older(rows[r].age) \in 0 .. 3
  BY <1>1 DEF P!RowType, P!Older
<1>4. \A r \in P!Rows :
         /\ rs[r] \in P!RowType /\ rs[r].sym = rows[r].sym /\ rs[r].order = rows[r].order
         /\ IF rows[r].st = "pending" THEN rs[r].st = "cancelled" ELSE rs[r].st = rows[r].st
         /\ rs[r].age = IF rows[r].st = "failed" THEN P!Older(rows[r].age) ELSE rows[r].age
         /\ rows[r].st = "none" => rs[r] = rows[r]
  <2>. SUFFICES ASSUME NEW r \in P!Rows
                PROVE  /\ rs[r] \in P!RowType /\ rs[r].sym = rows[r].sym
                       /\ rs[r].order = rows[r].order
                       /\ IF rows[r].st = "pending" THEN rs[r].st = "cancelled"
                                                    ELSE rs[r].st = rows[r].st
                       /\ rs[r].age = IF rows[r].st = "failed" THEN P!Older(rows[r].age)
                                                               ELSE rows[r].age
                       /\ rows[r].st = "none" => rs[r] = rows[r]
    OBVIOUS
  <2>1. rows[r] \in P!RowType /\ P!Older(rows[r].age) \in 0 .. 3
    BY <1>1, <1>3
  <2>2. CASE rows[r].st = "pending"
    BY <2>1, <2>2 DEF P!RowType
  <2>3. CASE rows[r].st = "failed"
    <3>1. rs[r] = [rows[r] EXCEPT !.age = P!Older(rows[r].age)]
      BY <2>3
    <3>. QED  BY <2>1, <2>3, <3>1 DEF P!RowType
  <2>4. CASE rows[r].st \notin {"pending", "failed"}
    <3>1. rs[r] = rows[r]
      BY <2>1, <2>4 DEF P!RowType
    <3>. QED  BY <2>1, <2>4, <3>1
  <2>. QED  BY <2>2, <2>3, <2>4
<1>5. rs \in [P!Rows -> P!RowType]
  BY <1>4
<1>. HIDE DEF rs
<1>6. /\ t \in [P!Rows -> P!RowType]
      /\ \A r \in P!Rows :
            \/ t[r] = rs[r]
            \/ t[r] = P!NoRow
  BY <1>5, TidyRows
<1>7. \A r \in P!Rows :
         t[r] = P!NoRow \/ (rs[r].st = "cancelled" =>
                               rs[r].order # P!None /\ buyBook[rs[r].order].st = "open")
  BY <1>4, PlacementSets DEF P!Tidy, P!InUse, P!Ready
<1>8. \A r \in P!Rows : rs[r].st = "none" => rs[r] = P!NoRow
  BY <1>1, <1>4 DEF P!RowsWell
<1>. HIDE DEF t
<1>9. rows' \in [P!Rows -> P!RowType]
  BY <1>2, <1>6
<1>10. P!RowsWell'
  <2>1. \A r \in P!Rows : t[r].st = "none" => t[r] = P!NoRow
    BY <1>6, <1>8
  <2>2. P!NoRow.st = "none"
    BY DEF P!NoRow
  <2>3. \A r \in P!Rows : t[r].st # "none" => t[r].sym \in Symbols
    <3>. SUFFICES ASSUME NEW r \in P!Rows, t[r].st # "none" PROVE t[r].sym \in Symbols
      OBVIOUS
    <3>1. t[r] = rs[r]
      BY <1>6, <2>2
    <3>2. rows[r].st # "none"
      BY <1>4, <3>1
    <3>. QED  BY <1>1, <1>4, <3>1, <3>2 DEF P!RowsWell
  <2>. QED  BY <1>2, <2>1, <2>3 DEF P!RowsWell
<1>11. \A r \in P!Rows : rs[r].st # "pending"
  BY <1>4
<1>. QED  BY <1>2, <1>4, <1>6, <1>7, <1>9, <1>10, <1>11

LEMMA TasksTyped ==
    ASSUME P!Typed, P!PlacementAssumption, allowed' = allowed,
           P!StartEntries \/ P!StartRetry \/ P!StartAdjust \/ P!Analysis \/ P!Cleanup \/ P!Clock
    PROVE  P!Typed'
<1>1. /\ P!Tables /\ P!Sheets /\ P!BookWell /\ P!Around /\ P!JobWell /\ job = P!Ready
      /\ rows \in [P!Rows -> P!RowType] /\ signal \in [Symbols -> P!SignalType]
      /\ UNCHANGED <<bought, owned, positions>>
  BY DEF P!Typed, P!Tables, P!Sheets, P!Idle, P!StartEntries, P!StartRetry, P!StartAdjust,
         P!Analysis, P!Cleanup, P!Clock
<1>2. CASE P!StartEntries
  <2>1. P!JobWell'
    BY <1>2, EntriesStart, StartedJob DEF P!StartEntries
  <2>2. P!Around'
    <3>1. \E task \in {"buys", "preview"} : done' = [done EXCEPT ![task] = TRUE]
      BY <1>2 DEF P!StartEntries
    <3>2. done' \in [{"buys", "retry", "adjust", "analysis", "preview"} -> BOOLEAN]
      BY <1>1, <3>1 DEF P!Around
    <3>3. faults' \subseteq allowed
      BY <1>1, <1>2, EntriesStart DEF P!Around, P!Happens
    <3>4. phase' = phase
      BY <1>2 DEF P!StartEntries
    <3>. QED  BY <1>1, <3>2, <3>3, <3>4 DEF P!Around
  <2>3. P!Tables'
    BY <1>1, <1>2, TablesStay DEF P!StartEntries
  <2>. QED  BY <2>1, <2>2, <2>3 DEF P!Typed
<1>3. CASE P!StartRetry
  <2>1. \A r \in job'.todo : r \in P!Rows /\ P!Retried(r)'
    BY <1>3, RetryStart DEF P!Retried
  <2>2. P!JobWell'
    BY <1>3, <2>1, RetryStart, StartedJob DEF P!StartRetry
  <2>3. P!Around'
    BY <1>1, <1>3, RetryStart DEF P!StartRetry, P!Around, P!Happens
  <2>4. signal' \in [Symbols -> P!SignalType]
    BY <1>3, SignalsTyped DEF P!StartRetry
  <2>5. P!Tables'
    BY <1>1, <1>3, <2>4, RetryStart DEF P!StartRetry, P!Tables, P!Sheets, P!BookWell
  <2>. QED  BY <2>2, <2>3, <2>5 DEF P!Typed
<1>4. CASE P!StartAdjust
  <2>1. P!JobWell'
    <3>1. CASE job' = P!Ready
      BY <3>1, JobEnds
    <3>2. CASE job' # P!Ready
      <4>1. job' = [P!Ready EXCEPT !.task = "adjust", !.todo = P!Live, !.seen = P!Live]
        BY <1>4, <3>2 DEF P!StartAdjust
      <4>2. /\ P!Ready \in P!JobType /\ P!Ready.step = "next" /\ P!Ready.row = P!None
            /\ P!Live \subseteq P!Orders
        BY ReadyFields DEF P!Live
      <4>3. job' \in P!JobType /\ job'.task = "adjust" /\ job'.step = "next" /\ job'.row = P!None
        BY <4>1, <4>2 DEF P!JobType
      <4>. QED  BY <1>4, <4>3, StartedJob DEF P!StartAdjust
    <3>. QED  BY <3>1, <3>2
  <2>2. P!Around'
    BY <1>1, <1>4 DEF P!StartAdjust, P!Around
  <2>3. P!Tables'
    BY <1>1, <1>4, TablesStay DEF P!StartAdjust
  <2>. QED  BY <2>1, <2>2, <2>3 DEF P!Typed
<1>5. CASE P!Analysis
  <2>1. P!JobWell'
    BY <1>1, <1>5, JobEnds DEF P!Analysis
  <2>2. P!Around'
    BY <1>1, <1>5 DEF P!Analysis, P!Around
  <2>3. P!Tables'
    <3>2. signal' \in [Symbols -> P!SignalType]
      <4>1. PICK buys \in SUBSET Symbols : signal' = [s \in Symbols |-> P!Analysed(s, s \in buys)]
        BY <1>5 DEF P!Analysis
      <4>2. \A s \in Symbols : P!Analysed(s, s \in buys) \in P!SignalType
        BY <1>1 DEF P!Analysed, P!SignalType
      <4>. QED  BY <4>1, <4>2
    <3>. QED  BY <1>1, <1>5, <3>2 DEF P!Analysis, P!Tables, P!Sheets, P!BookWell, P!RowsWell
  <2>. QED  BY <2>1, <2>2, <2>3 DEF P!Typed
<1>6. CASE P!Clock
  <2>1. P!JobWell'
    BY <1>1, <1>6, JobEnds DEF P!Clock
  <2>2. P!Around'
    BY <1>1, <1>6 DEF P!Clock, P!Around
  <2>3. P!BookWell'
    BY <1>1, <1>6 DEF P!Clock, P!BookWell, P!BookType, P!Live
  <2>4. P!Sheets'
    BY <1>1, <1>6 DEF P!Clock, P!Sheets, P!RowsWell
  <2>. QED  BY <2>1, <2>2, <2>3, <2>4 DEF P!Typed, P!Tables
<1>7. CASE P!Cleanup
  <2>1. P!JobWell'
    BY <1>1, <1>7, JobEnds DEF P!Cleanup
  <2>2. P!Around'
    BY <1>1, <1>7 DEF P!Cleanup, P!Around
  <2>3. P!BookWell'
    <3>1. /\ P!NotSent \in P!BookType /\ P!NotSent.st = "none"
      BY DEF P!NotSent, P!BookType
    <3>2. \A o \in P!Orders : buyBook'[o] = buyBook[o] \/ buyBook'[o] = P!NotSent
      BY <1>7 DEF P!Cleanup
    <3>3. buyBook' = [o \in P!Orders |-> buyBook'[o]]
      BY <1>7 DEF P!Cleanup
    <3>4. buyBook' \in [P!Orders -> P!BookType]
      BY <1>1, <3>1, <3>2, <3>3 DEF P!BookWell
    <3>. QED  BY <1>1, <3>1, <3>2, <3>4 DEF P!BookWell
  <2>4. signal' \in [Symbols -> P!SignalType]
    BY <1>1, <1>7 DEF P!Cleanup, P!SignalType
  <2>5. P!Sheets'
    BY <1>7, <2>4, CleanRows DEF P!Sheets
  <2>. QED  BY <2>1, <2>2, <2>3, <2>5 DEF P!Typed, P!Tables
<1>. QED  BY <1>2, <1>3, <1>4, <1>5, <1>6, <1>7

-----------------------------------------------------------------------------
(* Type correctness: the broker, the monitor, the user, the end of the process *)

\* What the monitor makes of a row.
LEMMA LearnRows ==
    ASSUME P!Typed, P!PlacementAssumption, NEW r \in P!Rows, P!Learn(r)
    PROVE  /\ rows[r].st = "pending" /\ rows[r].order \in P!Orders /\ rows[r].sym \in Symbols
           /\ P!Sheets'
           /\ \A q \in P!Rows : q # r => rows'[q] = rows[q]
           /\ \/ /\ buyBook[rows[r].order].st = "filled" /\ rows'[r] = P!NoRow
                 /\ positions' = positions \cup {rows[r].sym}
              \/ /\ buyBook[rows[r].order].st \in {"rejected", "cancelled"}
                 /\ rows'[r].sym = rows[r].sym /\ rows'[r].order = rows[r].order
                 /\ rows'[r].age = rows[r].age
                 /\ rows'[r].st \in {"failed", "cancelled"} /\ positions' = positions
<1>1. /\ rows \in [P!Rows -> P!RowType] /\ P!RowsWell /\ signal \in [Symbols -> P!SignalType]
  BY DEF P!Typed, P!Tables, P!Sheets
<1>2. rows[r].st = "pending" /\ rows[r].order \in P!Orders /\ rows[r].sym \in Symbols
  BY <1>1 DEF P!Learn, P!RowsWell, P!RowType
<1>3. CASE /\ buyBook[rows[r].order].st = "filled" /\ rows' = [rows EXCEPT ![r] = P!NoRow]
           /\ signal' = signal /\ positions' = positions \cup {rows[r].sym}
  <2>1. P!NoRow \in P!RowType /\ P!NoRow.st = "none"
    BY PlacementSets DEF P!NoRow, P!RowType, P!None
  <2>2. /\ rows' \in [P!Rows -> P!RowType] /\ P!RowsWell'
        /\ \A q \in P!Rows : rows'[q] = IF q = r THEN P!NoRow ELSE rows[q]
    BY <1>3, <2>1, OneRow
  <2>. QED  BY <1>1, <1>2, <1>3, <2>2 DEF P!Sheets
<1>4. ASSUME NEW st \in {"failed", "cancelled"}, P!Settle(r, st), positions' = positions,
             buyBook[rows[r].order].st \in {"rejected", "cancelled"}
      PROVE  /\ P!Sheets'
             /\ \A q \in P!Rows : q # r => rows'[q] = rows[q]
             /\ rows'[r].sym = rows[r].sym /\ rows'[r].order = rows[r].order
             /\ rows'[r].age = rows[r].age /\ rows'[r].st \in {"failed", "cancelled"}
  <2>1. P!Sheets'
    BY <1>2, <1>4, SettledSheets
  <2>2. rows' = [rows EXCEPT ![r].st = st]
    BY <1>4 DEF P!Settle
  <2>3. /\ \A q \in P!Rows : rows'[q] = IF q = r THEN [rows[q] EXCEPT !.st = st] ELSE rows[q]
        /\ rows'[r].st = st /\ rows'[r].sym = rows[r].sym /\ rows'[r].order = rows[r].order
        /\ rows'[r].age = rows[r].age
    BY <1>2, <2>2, OneStatus
  <2>. QED  BY <2>1, <2>3
<1>5. \/ /\ buyBook[rows[r].order].st = "filled" /\ rows' = [rows EXCEPT ![r] = P!NoRow]
         /\ signal' = signal /\ positions' = positions \cup {rows[r].sym}
      \/ /\ positions' = positions /\ P!Settle(r, "failed")
         /\ buyBook[rows[r].order].st \in {"rejected", "cancelled"}
      \/ /\ positions' = positions /\ P!Settle(r, "cancelled")
         /\ buyBook[rows[r].order].st \in {"rejected", "cancelled"}
  BY DEF P!Learn
<1>. QED
  <2>1. CASE P!Settle(r, "failed") /\ positions' = positions
              /\ buyBook[rows[r].order].st \in {"rejected", "cancelled"}
    BY <1>2, <1>4, <2>1
  <2>2. CASE P!Settle(r, "cancelled") /\ positions' = positions
              /\ buyBook[rows[r].order].st \in {"rejected", "cancelled"}
    BY <1>2, <1>4, <2>2
  <2>3. CASE buyBook[rows[r].order].st = "filled" /\ rows' = [rows EXCEPT ![r] = P!NoRow]
             /\ signal' = signal /\ positions' = positions \cup {rows[r].sym}
    BY <1>2, <1>3, <2>3, OneRow, PlacementSets DEF P!NoRow, P!RowType, P!None
  <2>. QED  BY <1>5, <2>1, <2>2, <2>3

LEMMA OthersTyped ==
    ASSUME P!Typed, P!PlacementAssumption, allowed' = allowed, P!Others
    PROVE  P!Typed'
<1>1. /\ P!Tables /\ P!Sheets /\ P!BookWell /\ P!Around /\ P!JobWell
      /\ rows \in [P!Rows -> P!RowType] /\ signal \in [Symbols -> P!SignalType] /\ P!RowsWell
      /\ buyBook \in [P!Orders -> P!BookType]
  BY DEF P!Typed, P!Tables, P!Sheets, P!BookWell
<1>2. ASSUME UNCHANGED <<rows, job, phase>> PROVE P!JobWell'
  BY <1>1, <1>2, JobStays DEF P!Retried
<1>3. ASSUME UNCHANGED <<rows, signal>> PROVE P!Sheets'
  BY <1>1, <1>3 DEF P!Sheets, P!RowsWell
<1>4. ASSUME NEW o \in P!Orders, P!Fill(o) \/ P!Reject(o) PROVE P!Typed'
  <2>1. P!JobWell' /\ P!Sheets'
    BY <1>2, <1>3, <1>4 DEF P!Fill, P!Reject
  <2>2. buyBook[o].sym \in Symbols
    BY <1>1, <1>4 DEF P!Fill, P!Reject, P!BookWell, P!Live
  <2>3. P!BookWell'
    BY <1>1, <1>4 DEF P!Fill, P!Reject, P!BookWell, P!BookType
  <2>4. P!Around'
    BY <1>1, <1>4, <2>2 DEF P!Fill, P!Reject, P!Around, P!Happens
  <2>. QED  BY <2>1, <2>3, <2>4 DEF P!Typed, P!Tables
<1>5. ASSUME NEW r \in P!Rows, P!Learn(r) PROVE P!Typed'
  <2>1. /\ P!Sheets' /\ rows[r].sym \in Symbols /\ rows[r].st = "pending"
        /\ \A q \in P!Rows : q # r => rows'[q] = rows[q]
    BY <1>5, LearnRows
  <2>2. P!BookWell'
    BY <1>1, <1>5, BookStays DEF P!Learn
  <2>3. \A q \in P!Rows : P!Retried(q) => P!Retried(q)' /\ rows'[q].sym = rows[q].sym
    BY <2>1 DEF P!Retried
  <2>4. P!JobWell'
    BY <1>1, <1>5, <2>3, JobStays DEF P!Learn
  <2>5. P!Around'
    BY <1>1, <1>5, <2>1 DEF P!Learn, P!Around
  <2>. QED  BY <2>1, <2>2, <2>4, <2>5 DEF P!Typed, P!Tables
<1>6. ASSUME NEW r \in P!Rows, P!Drop(r) PROVE P!Typed'
  <2>1. /\ rows[r].st # "none" /\ P!Settle(r, "cancelled")
        /\ UNCHANGED <<bought, buyBook, owned, positions, phase, done, job>> /\ P!Happens("drop")
    BY <1>6 DEF P!Drop
  <2>2. /\ P!Sheets'
        /\ \A q \in P!Rows : P!Retried(q) => P!Retried(q)' /\ rows'[q].sym = rows[q].sym
    BY <2>1, SettledSheets
  <2>3. P!JobWell' /\ P!BookWell' /\ P!Around'
    BY <1>1, <2>1, <2>2, JobStays, BookStays, AroundStays
  <2>. QED  BY <2>2, <2>3 DEF P!Typed, P!Tables
<1>7. ASSUME NEW s \in Symbols, P!Sale(s) PROVE P!Typed'
  <2>1. P!JobWell' /\ P!Sheets' /\ P!BookWell'
    BY <1>1, <1>2, <1>3, <1>7, BookStays DEF P!Sale
  <2>2. P!Around'
    BY <1>1, <1>7 DEF P!Sale, P!Around
  <2>. QED  BY <2>1, <2>2 DEF P!Typed, P!Tables
<1>8. ASSUME NEW s \in Symbols, P!ManualOrder(s) PROVE P!Typed'
  <2>1. P!JobWell' /\ P!Sheets'
    BY <1>2, <1>3, <1>8 DEF P!ManualOrder
  <2>2. P!BookWell'
    BY <1>8, SentBook DEF P!ManualOrder
  <2>3. P!Around'
    BY <1>1, <1>8, AroundStays DEF P!ManualOrder
  <2>. QED  BY <2>1, <2>2, <2>3 DEF P!Typed, P!Tables
<1>9. ASSUME NEW s \in Symbols, P!Decide(s) PROVE P!Typed'
  <2>1. P!JobWell' /\ P!BookWell'
    BY <1>1, <1>2, <1>9, BookStays DEF P!Decide
  <2>2. P!Sheets'
    BY <1>1, <1>9 DEF P!Decide, P!Sheets, P!RowsWell, P!SignalType
  <2>3. P!Around'
    BY <1>1, <1>9, AroundStays DEF P!Decide
  <2>. QED  BY <2>1, <2>2, <2>3 DEF P!Typed, P!Tables
<1>10. CASE P!Crash
  <2>1. P!JobWell' /\ P!BookWell'
    BY <1>1, <1>10, JobEnds, BookStays DEF P!Crash
  <2>2. P!Around'
    <3>1. done' \in [{"buys", "retry", "adjust", "analysis", "preview"} -> BOOLEAN]
      BY <1>1, <1>10 DEF P!Crash, P!Around
    <3>. QED  BY <1>1, <1>10, <3>1 DEF P!Crash, P!Around, P!Happens
  <2>3. P!Sheets'
    <3>1. CASE rows' = P!Tidy(rows, P!Ready)
      <4>1. rows' \in [P!Rows -> P!RowType] /\ P!RowsWell'
        BY <1>1, <3>1, TidySheets DEF P!RowsWell
      <4>. QED  BY <1>1, <1>10, <4>1 DEF P!Crash, P!Sheets
    <3>2. CASE job.step = "funds" /\ P!SpareRows # {} /\ rows' = P!Created(job.sym, P!None)
      <4>1. job.sym \in Symbols
        BY <1>1, <3>2 DEF P!JobWell, P!Works, P!Placing
      <4>. QED  BY <1>10, <3>2, <4>1, CreatedSheets DEF P!Crash
    <3>. QED  BY <1>10, <3>1, <3>2 DEF P!Crash
  <2>. QED  BY <2>1, <2>2, <2>3 DEF P!Typed, P!Tables
<1>. QED  BY <1>4, <1>5, <1>6, <1>7, <1>8, <1>9, <1>10 DEF P!Others

LEMMA PlacementInit == P!PlacementAssumption /\ P!Init => P!Typed
<1>. SUFFICES ASSUME P!PlacementAssumption, P!Init PROVE P!Typed
  OBVIOUS
<1>1. P!NoRow \in P!RowType /\ P!NotSent \in P!BookType /\ P!NotSent.st = "none"
  <2>1. P!NoRow \in P!RowType
    BY PlacementSets DEF P!NoRow, P!RowType, P!None
  <2>2. P!NotSent \in P!BookType /\ P!NotSent.st = "none"
    BY DEF P!NotSent, P!BookType
  <2>. QED  BY <2>1, <2>2
<1>2. P!Sheets
  BY <1>1 DEF P!Init, P!Sheets, P!SignalType, P!RowsWell, P!NoRow
<1>3. P!BookWell
  BY <1>1 DEF P!Init, P!BookWell
<1>4. P!Around
  BY DEF P!Init, P!Around
<1>5. P!JobWell
  BY ReadyFields DEF P!Init, P!JobWell, P!Works, P!Retries, P!Buying, P!Placing
<1>. QED  BY <1>2, <1>3, <1>4, <1>5 DEF P!Typed, P!Tables

LEMMA PlacementStep ==
    ASSUME P!Typed, P!PlacementAssumption, [P!Next]_(P!vars) PROVE P!Typed'
<1>1. CASE P!Next
  <2>1. allowed' = allowed /\ (P!Tasks \/ P!Others)
    BY <1>1 DEF P!Next, P!Keep
  <2>2. CASE P!Proceed
    BY <2>1, <2>2, EntriesTyped, RetriesTyped, PlacingTyped, VerifyTyped, RelinkTyped, PremarketTyped
       DEF P!Proceed
  <2>. QED  BY <2>1, <2>2, TasksTyped, OthersTyped DEF P!Tasks
<1>2. CASE UNCHANGED P!vars
  <2>1. UNCHANGED <<signal, rows, bought, buyBook, owned, positions, phase, done, job, faults, allowed>>
    BY <1>2 DEF P!vars
  <2>2. P!Tables' /\ P!Around' /\ P!JobWell'
    BY <2>1, TablesStay, AroundStays, JobStays DEF P!Typed, P!Retried
  <2>. QED  BY <2>2 DEF P!Typed
<1>. QED  BY <1>1, <1>2

-----------------------------------------------------------------------------
(* No failed row gets old: the third evening of TypeOK *)

\* No row gets older, and an old one stays what it is or is cancelled.
NoneAges ==
    \A r \in P!Rows : P!Old(r)' => /\ P!Old(r) /\ rows'[r].age = rows[r].age
                                   /\ rows'[r].st = rows[r].st \/ rows'[r].st = "cancelled"

LEMMA CreatedAge ==
    ASSUME P!Typed, P!PlacementAssumption, NEW s \in Symbols, NEW o \in P!Orders \cup {P!None},
           P!SpareRows # {}, rows' = P!Created(s, o)
    PROVE  NoneAges
<1>1. rows \in [P!Rows -> P!RowType]
  BY DEF P!Typed, P!Tables, P!Sheets
<1>2. CASE rows' = rows
  BY <1>2 DEF NoneAges, P!Old
<1>3. ASSUME NEW f \in P!Rows, rows[f] = P!NoRow, rows' = [rows EXCEPT ![f] = P!NewRow(s, o)]
      PROVE  NoneAges
  <2>1. \A r \in P!Rows : rows'[r] = IF r = f THEN P!NewRow(s, o) ELSE rows[r]
    BY <1>1, <1>3
  <2>2. P!NewRow(s, o).age = 0
    BY NewRowFields
  <2>. QED  BY <2>1, <2>2 DEF NoneAges, P!Old
<1>. QED  BY <1>2, <1>3, CreatedRow

LEMMA StatusAge ==
    ASSUME P!Typed, P!PlacementAssumption, NEW f \in P!Rows, rows[f].st # "none",
           NEW st \in {"pending", "failed", "cancelled"}, rows' = [rows EXCEPT ![f].st = st],
           st = "cancelled" \/ ~P!Old(f)
    PROVE  NoneAges
<1>1. /\ \A r \in P!Rows : rows'[r] = IF r = f THEN [rows[r] EXCEPT !.st = st] ELSE rows[r]
      /\ rows'[f].st = st /\ rows'[f].age = rows[f].age
  BY OneStatus
<1>. QED  BY <1>1 DEF NoneAges, P!Old

LEMMA FailedAge ==
    ASSUME P!Typed, P!PlacementAssumption, NEW s \in Symbols, P!AddFailed(s), P!OldRows
    PROVE  NoneAges
<1>1. rows \in [P!Rows -> P!RowType]
  BY DEF P!Typed, P!Tables, P!Sheets
<1>2. CASE rows' = rows
  BY <1>2 DEF NoneAges, P!Old
<1>3. ASSUME NEW f \in P!Rows, rows[f] = P!NoRow, rows' = [rows EXCEPT ![f] = P!FailedRow(s)]
      PROVE  NoneAges
  <2>1. \A r \in P!Rows : rows'[r] = IF r = f THEN P!FailedRow(s) ELSE rows[r]
    BY <1>1, <1>3
  <2>2. P!FailedRow(s).age = 0
    BY NewRowFields DEF P!None
  <2>. QED  BY <2>1, <2>2 DEF NoneAges, P!Old
<1>4. ASSUME NEW p \in P!Rows, rows[p].st = "pending", rows' = [rows EXCEPT ![p].st = "failed"]
      PROVE  NoneAges
  <2>1. ~P!Old(p)
    BY <1>4 DEF P!OldRows, P!Retried
  <2>. QED  BY <1>4, <2>1, StatusAge
<1>. QED  BY <1>2, <1>3, <1>4, AddFailedRow

LEMMA TidyAge ==
    ASSUME P!Typed, P!PlacementAssumption, NEW j, rows' = P!Tidy(rows, j)
    PROVE  NoneAges
<1>. DEFINE t == P!Tidy(rows, j)
<1>1. \A r \in P!Rows : t[r] = rows[r] \/ t[r] = P!NoRow
  BY TidyRows DEF P!Typed, P!Tables, P!Sheets
<1>2. P!NoRow.age = 0
  BY DEF P!NoRow
<1>. HIDE DEF t
<1>3. rows' = t
  BY DEF t
<1>. QED  BY <1>1, <1>2, <1>3 DEF NoneAges, P!Old

\* Where no row ages, no day begins and the worker takes up no other row, all stays.
LEMMA AgedStays ==
    ASSUME P!Days, P!OldRows, NoneAges, UNCHANGED <<phase, done>>,
           job'.task = "retry" => /\ job.task = "retry" /\ job'.todo \subseteq job.todo
                                  /\ job'.row \in job.todo \cup {job.row, P!None},
           P!PlacementAssumption
    PROVE  P!Days' /\ P!OldRows'
<1>1. P!Days'
  BY DEF P!Days
<1>2. P!OldRows'
  BY PlacementSets DEF P!OldRows, NoneAges, P!Retried, P!Old
<1>. QED  BY <1>1, <1>2

\* What has happened has happened.
LEMMA FaultsStay == ASSUME P!Tasks \/ P!Others PROVE faults \subseteq faults'
<1>1. ASSUME NEW s \in Symbols,
             \/ P!SkipEntry(s) \/ P!AdoptEntry(s) \/ P!PassEntry(s) \/ P!ReplaceEntry(s)
             \/ P!Sale(s) \/ P!ManualOrder(s) \/ P!Decide(s)
      PROVE  faults \subseteq faults'
  BY <1>1 DEF P!SkipEntry, P!AdoptEntry, P!PassEntry, P!ReplaceEntry, P!Sale, P!ManualOrder,
              P!Decide, P!Happens
<1>2. ASSUME NEW r \in P!Rows,
             P!SkipRow(r) \/ P!AdoptRow(r) \/ P!PassRow(r) \/ P!Learn(r) \/ P!Drop(r)
      PROVE  faults \subseteq faults'
  BY <1>2 DEF P!SkipRow, P!AdoptRow, P!PassRow, P!Learn, P!Drop, P!Happens
<1>3. ASSUME NEW o \in P!Orders,
             P!LeaveOrder(o) \/ P!CancelAbove(o) \/ P!Fill(o) \/ P!Reject(o)
      PROVE  faults \subseteq faults'
  BY <1>3 DEF P!LeaveOrder, P!CancelAbove, P!Fill, P!Reject, P!Happens
<1>4. ASSUME P!NoFunds \/ P!PreviewOnly \/ P!Refused \/ P!Accepted \/ P!Trade \/ P!Write
             \/ P!Verify \/ P!Relink \/ P!WriteOff \/ P!EndTask
      PROVE  faults \subseteq faults'
  BY <1>4 DEF P!NoFunds, P!PreviewOnly, P!Refused, P!Accepted, P!Trade, P!Write, P!Verify,
              P!Relink, P!WriteOff, P!EndTask, P!Happens
<1>5. ASSUME P!StartEntries \/ P!StartRetry \/ P!StartAdjust \/ P!Analysis \/ P!Cleanup \/ P!Clock
             \/ P!Crash
      PROVE  faults \subseteq faults'
  <2>1. CASE P!StartEntries
    BY <2>1 DEF P!StartEntries, P!Happens
  <2>2. CASE P!StartRetry
    BY <2>2 DEF P!StartRetry, P!Happens
  <2>. QED  BY <1>5, <2>1, <2>2 DEF P!StartAdjust, P!Analysis, P!Cleanup, P!Clock, P!Crash, P!Happens
<1>. QED  BY <1>1, <1>2, <1>3, <1>4, <1>5 DEF P!Tasks, P!Proceed, P!Others

LEMMA EntriesAged ==
    ASSUME P!Typed, P!PlacementAssumption, P!Days, P!OldRows, NEW s \in Symbols,
           P!SkipEntry(s) \/ P!AdoptEntry(s) \/ P!PassEntry(s) \/ P!ReplaceEntry(s)
    PROVE  P!Days' /\ P!Unrowed' /\ P!OldRows'
<1>1. /\ job.task \in {"buys", "preview"} /\ job.step = "next" /\ job \in P!JobType
      /\ UNCHANGED <<phase, done>>
  BY DEF P!SkipEntry, P!AdoptEntry, P!PassEntry, P!ReplaceEntry, P!Entry, P!Typed, P!JobWell
<1>2. job'.task = job.task /\ job'.step \in {"next", "funds"}
  BY <1>1 DEF P!SkipEntry, P!AdoptEntry, P!PassEntry, P!ReplaceEntry, P!Skip, P!Funds, P!JobType
<1>3. NoneAges
  <2>1. CASE P!SkipEntry(s) \/ P!PassEntry(s)
    BY <2>1 DEF P!SkipEntry, P!PassEntry, NoneAges, P!Old
  <2>2. CASE P!AdoptEntry(s)
    <3>1. PICK o \in P!Orders : rows' = P!Created(s, o)
      BY <1>1, <2>2 DEF P!AdoptEntry, P!Strangers, P!JobType
    <3>. QED  BY <2>2, <3>1, CreatedAge DEF P!AdoptEntry
  <2>3. CASE P!ReplaceEntry(s)
    <3>1. PICK r \in P!Rows : rows[r].st # "none" /\ rows' = [rows EXCEPT ![r].st = "cancelled"]
      BY <2>3 DEF P!ReplaceEntry, P!Known, P!RowsOf
    <3>. QED  BY <3>1, StatusAge
  <2>. QED  BY <2>1, <2>2, <2>3
<1>. QED  BY <1>1, <1>2, <1>3, AgedStays DEF P!Unrowed

LEMMA RetriesAged ==
    ASSUME P!Typed, P!PlacementAssumption, P!Days, P!OldRows, NEW r \in P!Rows,
           P!SkipRow(r) \/ P!AdoptRow(r) \/ P!PassRow(r)
    PROVE  P!Days' /\ P!Unrowed' /\ P!OldRows'
<1>1. /\ job.task = "retry" /\ job.step = "next" /\ job \in P!JobType /\ r \in job.todo
      /\ UNCHANGED <<phase, done>> /\ P!Retried(r) /\ rows[r].st # "none"
  BY DEF P!SkipRow, P!AdoptRow, P!PassRow, P!Retriable, P!Row, P!Typed, P!JobWell, P!Retries, P!Retried
<1>2. /\ job'.task = "retry" /\ job'.step \in {"next", "funds"} /\ job'.todo \subseteq job.todo
      /\ job'.row \in {r, job.row}
  <2>1. CASE P!Skip(r)
    BY <1>1, <2>1 DEF P!Skip, P!JobType
  <2>2. CASE P!Funds(rows[r].sym, r, r)
    BY <1>1, <2>2 DEF P!Funds, P!JobType
  <2>3. CASE job' = [job EXCEPT !.todo = {}]
    BY <1>1, <2>3 DEF P!JobType
  <2>. QED  BY <2>1, <2>2, <2>3 DEF P!SkipRow, P!AdoptRow, P!PassRow
<1>3. ~P!Old(r)
  BY <1>1 DEF P!OldRows
<1>4. NoneAges
  <2>1. CASE rows' = rows
    BY <2>1 DEF NoneAges, P!Old
  <2>2. CASE P!Settle(r, "cancelled")
    BY <1>1, <2>2, StatusAge DEF P!Settle
  <2>3. CASE P!Settle(r, "failed")
    BY <1>1, <1>3, <2>3, StatusAge DEF P!Settle
  <2>4. CASE P!AdoptRow(r)
    <3>1. PICK o \in P!Orders : rows' = [rows EXCEPT ![r].st = "pending", ![r].order = o]
      BY <2>4 DEF P!AdoptRow, P!Strangers, P!Live
    <3>2. rows \in [P!Rows -> P!RowType]
      BY DEF P!Typed, P!Tables, P!Sheets
    <3>3. \A q \in P!Rows : rows'[q].age = rows[q].age /\ (q # r => rows'[q].st = rows[q].st)
      BY <3>1, <3>2 DEF P!RowType
    <3>. QED  BY <1>3, <3>3 DEF NoneAges, P!Old
  <2>. QED  BY <2>1, <2>2, <2>3, <2>4 DEF P!SkipRow, P!PassRow
<1>. QED  BY <1>1, <1>2, <1>4, AgedStays DEF P!Unrowed

LEMMA PlacingAged ==
    ASSUME P!Typed, P!PlacementAssumption, P!Days, P!OldRows, P!Unrowed,
           P!NoFunds \/ P!PreviewOnly \/ P!Refused \/ P!Accepted \/ P!Trade \/ P!Write
           \/ P!Verify \/ P!Relink
    PROVE  P!Days' /\ P!Unrowed' /\ P!OldRows'
<1>1. /\ job \in P!JobType /\ P!Works /\ P!Retries /\ rows \in [P!Rows -> P!RowType] /\ P!RowsWell
      /\ UNCHANGED <<phase, done>>
  BY DEF P!NoFunds, P!PreviewOnly, P!Refused, P!Accepted, P!Trade, P!Write, P!Verify, P!Relink,
         P!Typed, P!Tables, P!JobWell, P!Sheets
<1>2. job.step \in P!Placing /\ job.sym \in Symbols
  BY <1>1 DEF P!NoFunds, P!PreviewOnly, P!Refused, P!Accepted, P!Trade, P!Write, P!Verify, P!Relink,
              P!Works, P!Placing
<1>3. job.task = "retry" => job.row \in P!Rows /\ rows[job.row].st # "none" /\ ~P!Old(job.row)
  BY <1>1, <1>2 DEF P!Retries, P!Retried, P!OldRows
<1>4. /\ job'.task = job.task /\ job'.todo = job.todo /\ job'.row \in {job.row, P!None}
  BY <1>1, ZenonT(30) DEF P!NoFunds, P!PreviewOnly, P!Refused, P!Accepted, P!Trade, P!Write, P!Verify, P!Relink,
              P!Over, P!JobType
<1>5. ASSUME NoneAges PROVE P!Days' /\ P!OldRows'
  BY <1>1, <1>4, <1>5, AgedStays
<1>6. ASSUME rows' = rows PROVE NoneAges
  BY <1>6 DEF NoneAges, P!Old
<1>7. ASSUME P!Over PROVE P!Unrowed'
  BY <1>1, <1>7 DEF P!Over, P!JobType, P!Unrowed
<1>8. CASE P!NoFunds \/ P!PreviewOnly \/ P!Refused
  <2>1. P!Over
    BY <1>8 DEF P!NoFunds, P!PreviewOnly, P!Refused
  <2>2. \/ rows' = rows
        \/ P!AddFailed(job.sym)
        \/ job.task = "retry" /\ P!Settle(job.row, "failed")
    BY <1>8 DEF P!NoFunds, P!PreviewOnly, P!Refused, P!Retrying
  <2>3. CASE P!AddFailed(job.sym)
    BY <1>2, <1>5, <1>7, <2>1, <2>3, FailedAge
  <2>4. CASE job.task = "retry" /\ P!Settle(job.row, "failed")
    <3>1. NoneAges
      BY <1>3, <2>4, StatusAge DEF P!Settle
    <3>. QED  BY <1>5, <1>7, <2>1, <3>1
  <2>. QED  BY <1>5, <1>6, <1>7, <2>1, <2>2, <2>3, <2>4
<1>9. CASE P!Accepted
  <2>1. rows' = rows /\ job'.step = "accepted" /\ job'.order = P!FreeOrder
    BY <1>1, <1>9 DEF P!Accepted, P!JobType
  <2>2. \A r \in P!Rows : rows[r].order # P!FreeOrder
    BY <1>9, FreeNumber DEF P!Accepted, P!Sent
  <2>. QED  BY <1>5, <1>6, <2>1, <2>2 DEF P!Unrowed
<1>10. CASE P!Trade
  <2>1. rows' = rows /\ job.step = "accepted" /\ job'.step = "traded" /\ job'.order = job.order
    BY <1>1, <1>10 DEF P!Trade, P!JobType
  <2>. QED  BY <1>5, <1>6, <2>1 DEF P!Unrowed
<1>11. CASE P!Write
  <2>1. job.step = "traded" /\ job'.step = "written" /\ job'.order = job.order /\ job.order \in P!Orders
    BY <1>1, <1>11 DEF P!Write, P!JobType, P!Works, P!Placing
  <2>2. rows' = rows \/ (P!SpareRows # {} /\ rows' = P!Created(job.sym, job.order))
    BY <1>11 DEF P!Write
  <2>3. NoneAges
    BY <1>2, <1>6, <2>1, <2>2, CreatedAge
  <2>4. \A r \in P!Rows : rows'[r].order = job.order => rows'[r].st = "pending"
    <3>1. CASE rows' = rows
      BY <2>1, <3>1 DEF P!Unrowed
    <3>2. ASSUME NEW f \in P!Rows, rows' = [rows EXCEPT ![f] = P!NewRow(job.sym, job.order)]
          PROVE  \A r \in P!Rows : rows'[r].order = job.order => rows'[r].st = "pending"
      <4>1. P!NewRow(job.sym, job.order).st = "pending"
        BY <1>2, <2>1, NewRowFields
      <4>2. \A r \in P!Rows : rows'[r] = IF r = f THEN P!NewRow(job.sym, job.order) ELSE rows[r]
        BY <1>1, <3>2
      <4>. QED  BY <2>1, <4>1, <4>2 DEF P!Unrowed
    <3>. QED  BY <1>2, <2>1, <2>2, <3>1, <3>2, CreatedRow
  <2>. QED  BY <1>5, <2>1, <2>3, <2>4 DEF P!Unrowed
<1>12. CASE P!Verify
  <2>1. job'.step \in {"verified", "next"} /\ job.step = "written"
    BY <1>1, <1>12 DEF P!Verify, P!Over, P!JobType
  <2>2. NoneAges
    <3>1. ASSUME NEW r \in P!Rows, rows[r].order = job.order, P!Settle(r, "failed") PROVE NoneAges
      <4>1. rows[r].st = "pending"
        BY <2>1, <3>1 DEF P!Unrowed
      <4>2. ~P!Old(r)
        BY <4>1 DEF P!OldRows, P!Retried
      <4>. QED  BY <3>1, <4>1, <4>2, StatusAge DEF P!Settle
    <3>. QED  BY <1>6, <1>12, <3>1 DEF P!Verify
  <2>. QED  BY <1>5, <2>1, <2>2 DEF P!Unrowed
<1>13. CASE P!Relink
  <2>1. P!Over
    BY <1>13 DEF P!Relink
  <2>2. job.task = "retry" /\ job.order \in P!Orders /\ job.row \in P!Rows
    BY <1>1, <1>2, <1>13 DEF P!Relink, P!Works, P!Placing, P!Retries
  <2>. DEFINE rs == [rows EXCEPT ![job.row].st = "pending", ![job.row].order = job.order]
              j == job'  t == P!Tidy(rs, j)
  <2>3. /\ rs \in [P!Rows -> P!RowType]
        /\ \A q \in P!Rows : rs[q].age = rows[q].age /\ (q # job.row => rs[q].st = rows[q].st)
    BY <1>1, <2>2 DEF P!RowType
  <2>4. rows' = t
    BY <1>13 DEF P!Relink
  <2>. HIDE DEF rs, j
  <2>5. \A q \in P!Rows : t[q] = rs[q] \/ t[q] = P!NoRow
    BY <2>3, TidyRows
  <2>6. P!NoRow.age = 0
    BY DEF P!NoRow
  <2>. HIDE DEF t
  <2>7. NoneAges
    BY <1>3, <2>2, <2>3, <2>4, <2>5, <2>6 DEF NoneAges, P!Old
  <2>. QED  BY <1>5, <1>7, <2>1, <2>7
<1>. QED  BY <1>8, <1>9, <1>10, <1>11, <1>12, <1>13

LEMMA PremarketAged ==
    ASSUME P!Typed, P!PlacementAssumption, P!Days, P!OldRows,
           (\E o \in P!Orders : P!LeaveOrder(o) \/ P!CancelAbove(o)) \/ P!WriteOff \/ P!EndTask
    PROVE  P!Days' /\ P!Unrowed' /\ P!OldRows'
<1>1. /\ job \in P!JobType /\ P!Works /\ rows \in [P!Rows -> P!RowType]
      /\ UNCHANGED <<phase, done>>
  BY DEF P!LeaveOrder, P!CancelAbove, P!WriteOff, P!EndTask, P!Typed, P!Tables, P!JobWell, P!Sheets
<1>2. job'.task # "retry" /\ job'.step \in {"next", "gone"}
  <2>1. CASE P!EndTask
    BY <2>1, ReadyFields DEF P!EndTask
  <2>2. CASE P!WriteOff
    BY <1>1, <2>2 DEF P!WriteOff, P!Over, P!Works, P!JobType
  <2>3. ASSUME NEW o \in P!Orders, P!LeaveOrder(o) \/ P!CancelAbove(o)
        PROVE  job'.task # "retry" /\ job'.step \in {"next", "gone"}
    BY <1>1, <2>3 DEF P!LeaveOrder, P!CancelAbove, P!Waiting, P!Skip, P!JobType
  <2>. QED  BY <2>1, <2>2, <2>3
<1>3. NoneAges
  <2>1. CASE rows' = rows
    BY <2>1 DEF NoneAges, P!Old
  <2>2. CASE P!EndTask
    BY <2>2, TidyAge DEF P!EndTask
  <2>3. CASE rows' = [r \in P!Rows |-> IF r \in {q \in P!Rows : rows[q].order = job.order}
                                      THEN [rows[r] EXCEPT !.st = "cancelled"] ELSE rows[r]]
    BY <1>1, <2>3 DEF NoneAges, P!Old, P!RowType
  <2>. QED  BY <2>1, <2>2, <2>3 DEF P!LeaveOrder, P!CancelAbove, P!WriteOff
<1>. QED  BY <1>1, <1>2, <1>3, AgedStays DEF P!Unrowed

LEMMA OthersAged ==
    ASSUME P!Typed, P!PlacementAssumption, P!Days, P!OldRows, P!Unrowed, P!Others,
           "crash" \notin faults'
    PROVE  P!Days' /\ P!Unrowed' /\ P!OldRows'
<1>1. /\ job \in P!JobType /\ P!Works /\ rows \in [P!Rows -> P!RowType]
      /\ UNCHANGED <<phase, done, job>>
  BY DEF P!Others, P!Fill, P!Reject, P!Learn, P!Drop, P!Sale, P!ManualOrder, P!Decide, P!Crash,
         P!Happens, P!Typed, P!Tables, P!JobWell, P!Sheets
<1>2. ASSUME NoneAges,
             \/ job.step \notin P!Placing
             \/ \A r \in P!Rows : \/ rows'[r] = rows[r]
                                  \/ rows'[r].order = rows[r].order /\ rows[r].st # "pending"
      PROVE  P!Days' /\ P!Unrowed' /\ P!OldRows'
  <2>1. P!Unrowed'
    BY <1>1, <1>2 DEF P!Unrowed, P!Placing
  <2>. QED  BY <1>1, <1>2, <2>1, AgedStays
<1>3. CASE rows' = rows
  <2>1. NoneAges
    BY <1>3 DEF NoneAges, P!Old
  <2>. QED  BY <1>2, <1>3, <2>1
<1>4. ASSUME NEW r \in P!Rows, P!Learn(r) PROVE P!Days' /\ P!Unrowed' /\ P!OldRows'
  <2>1. /\ rows[r].st = "pending"
        /\ \A q \in P!Rows : q # r => rows'[q] = rows[q]
        /\ rows'[r] = P!NoRow \/ rows'[r].age = rows[r].age
    BY <1>4, LearnRows
  <2>2. ~P!Old(r) /\ P!NoRow.age = 0
    BY <2>1 DEF P!OldRows, P!Retried, P!NoRow
  <2>3. NoneAges
    BY <2>1, <2>2 DEF NoneAges, P!Old
  <2>4. job.step \notin P!Placing
    BY <1>1, <1>4 DEF P!Learn, P!Works, P!Buying, P!Placing
  <2>. QED  BY <1>2, <2>3, <2>4
<1>5. ASSUME NEW r \in P!Rows, P!Drop(r) PROVE P!Days' /\ P!Unrowed' /\ P!OldRows'
  <2>1. rows[r].st = "failed" /\ rows' = [rows EXCEPT ![r].st = "cancelled"]
    BY <1>5 DEF P!Drop, P!Settle
  <2>2. NoneAges
    BY <2>1, StatusAge
  <2>3. /\ \A q \in P!Rows : q # r => rows'[q] = rows[q]
        /\ rows'[r].order = rows[r].order
    BY <2>1, OneStatus
  <2>. QED  BY <1>2, <2>1, <2>2, <2>3
<1>. QED
  BY <1>3, <1>4, <1>5
     DEF P!Others, P!Fill, P!Reject, P!Sale, P!ManualOrder, P!Decide, P!Crash, P!Happens

LEMMA TasksAged ==
    ASSUME P!Typed, P!PlacementAssumption, P!Days, P!OldRows,
           P!StartEntries \/ P!StartRetry \/ P!StartAdjust \/ P!Analysis \/ P!Cleanup \/ P!Clock
    PROVE  P!Days' /\ P!Unrowed' /\ P!OldRows'
<1>1. /\ job = P!Ready /\ rows \in [P!Rows -> P!RowType]
      /\ done \in [{"buys", "retry", "adjust", "analysis", "preview"} -> BOOLEAN]
      /\ phase \in {"pre", "open", "closed"}
      /\ job.task = "none" /\ job.step = "next"
  BY ReadyFields
     DEF P!Typed, P!Tables, P!Sheets, P!Around, P!Idle, P!StartEntries, P!StartRetry,
         P!StartAdjust, P!Analysis, P!Cleanup, P!Clock
<1>2. ASSUME rows' = rows, done'["retry"] = done["retry"], job'.task # "retry", P!Days'
      PROVE  P!Days' /\ P!OldRows'
  BY <1>2 DEF P!OldRows, P!Old, P!Retried
<1>3. CASE P!StartEntries
  <2>1. job'.task # "retry" /\ job'.step = "next"
    BY <1>3, EntriesStart
  <2>2. rows' = rows /\ phase' = phase
    BY <1>3 DEF P!StartEntries
  <2>3. done'["retry"] = done["retry"] /\ done'["adjust"] = done["adjust"]
    <3>1. PICK task \in {"buys", "preview"} : done' = [done EXCEPT ![task] = TRUE]
      BY <1>3 DEF P!StartEntries
    <3>. QED  BY <1>1, <3>1
  <2>4. P!Days'
    BY <2>1, <2>2, <2>3 DEF P!Days
  <2>. QED  BY <1>2, <2>1, <2>2, <2>3, <2>4 DEF P!Unrowed
<1>4. CASE P!StartRetry
  <2>1. phase' = "pre" /\ done'["retry"] /\ done'["adjust"] = done["adjust"] /\ ~done["retry"]
    BY <1>1, <1>4 DEF P!StartRetry
  <2>2. /\ job'.step = "next" /\ job'.row = P!None
        /\ \A r \in job'.todo : rows'[r] = rows[r] /\ rows[r].age <= 1
        /\ \A r \in P!Rows :
              \/ rows'[r] = rows[r] /\ (rows[r].st = "failed" => rows[r].age <= 1)
              \/ rows'[r] = P!NoRow
              \/ rows'[r].st = "cancelled" /\ rows'[r].age = rows[r].age
    BY <1>4, RetryStart
  <2>3. P!Days'
    BY <2>1 DEF P!Days
  <2>4. P!NoRow.age = 0
    BY DEF P!NoRow
  <2>5. P!OldRows'
    <3>. SUFFICES ASSUME NEW r \in P!Rows, P!Old(r)'
                  PROVE  /\ rows'[r].age = 2 /\ rows'[r].st = "cancelled"
                         /\ r \notin job'.todo /\ r # job'.row
      BY DEF P!OldRows, P!Retried
    <3>1. rows[r].age \in 0 .. 3
      BY <1>1 DEF P!RowType
    <3>2. rows'[r].age >= 2 /\ rows'[r].age = rows[r].age
      BY <2>2, <2>4 DEF P!Old
    <3>3. rows[r].age = 2 /\ P!Retried(r)
      BY <3>2 DEF P!OldRows, P!Old
    <3>4. rows'[r].st = "cancelled"
      BY <2>2, <2>4, <3>2, <3>3 DEF P!Retried
    <3>5. r \notin job'.todo
      BY <2>2, <3>2, <3>3
    <3>6. r # job'.row
      BY <2>2, PlacementSets
    <3>. QED  BY <3>2, <3>3, <3>4, <3>5, <3>6
  <2>. QED  BY <2>2, <2>3, <2>5 DEF P!Unrowed
<1>5. CASE P!StartAdjust
  <2>1. /\ rows' = rows /\ phase' = phase /\ done'["retry"] = done["retry"]
        /\ done'["adjust"] /\ done["retry"]
    BY <1>1, <1>5 DEF P!StartAdjust
  <2>2. job'.task # "retry" /\ job'.step = "next"
    BY <1>5, ReadyFields DEF P!StartAdjust, P!JobType
  <2>3. P!Days'
    BY <2>1, <2>2 DEF P!Days
  <2>. QED  BY <1>2, <2>1, <2>2, <2>3 DEF P!Unrowed
<1>6. CASE P!Analysis \/ P!Clock
  <2>1. rows' = rows /\ job' = job /\ done'["retry"] = done["retry"] /\ done'["adjust"] = done["adjust"]
    BY <1>1, <1>6 DEF P!Analysis, P!Clock
  <2>2. P!Days'
    BY <1>1, <1>6, <2>1 DEF P!Days, P!Analysis, P!Clock
  <2>. QED  BY <1>1, <1>2, <2>1, <2>2 DEF P!Unrowed
<1>7. CASE P!Cleanup
  <2>1. /\ phase' = "pre" /\ job' = job /\ ~done'["retry"] /\ ~done'["adjust"] /\ phase = "closed"
    BY <1>1, <1>7 DEF P!Cleanup
  <2>2. done["retry"]
    BY <2>1 DEF P!Days
  <2>3. P!OldRows'
    <3>. SUFFICES ASSUME NEW r \in P!Rows, P!Old(r)' PROVE rows'[r].age = 2 /\ P!Retried(r)'
      BY <1>1, <2>1 DEF P!OldRows
    <3>1. rows[r].age \in 0 .. 3 /\ P!NoRow.age = 0
      BY <1>1 DEF P!RowType, P!NoRow
    <3>2. /\ IF rows[r].st = "pending" THEN rows'[r].st = "cancelled" ELSE rows'[r].st = rows[r].st
          /\ rows'[r].age = IF rows[r].st = "failed" THEN P!Older(rows[r].age) ELSE rows[r].age
          /\ rows'[r].age >= 2
      BY <1>7, <3>1, CleanRows DEF P!Old
    <3>3. P!Old(r) => rows[r].age = 2 /\ rows[r].st = "cancelled"
      BY <2>2 DEF P!OldRows
    <3>. QED  BY <3>1, <3>2, <3>3 DEF P!Old, P!Older, P!Retried
  <2>. QED  BY <1>1, <2>1, <2>3 DEF P!Days, P!Unrowed
<1>. QED  BY <1>3, <1>4, <1>5, <1>6, <1>7

LEMMA PlacementAges ==
    ASSUME P!Typed, P!PlacementAssumption, P!Aged, [P!Next]_(P!vars) PROVE P!Aged'
<1>1. CASE P!Next
  <2>1. P!Tasks \/ P!Others
    BY <1>1 DEF P!Next, P!Keep
  <2>2. SUFFICES ASSUME "crash" \notin faults' PROVE P!Days' /\ P!Unrowed' /\ P!OldRows'
    BY DEF P!Aged
  <2>3. P!Days /\ P!Unrowed /\ P!OldRows
    BY <2>1, <2>2, FaultsStay DEF P!Aged
  <2>4. CASE P!Proceed
    BY <2>3, <2>4, EntriesAged, RetriesAged, PlacingAged, PremarketAged DEF P!Proceed
  <2>. QED  BY <2>1, <2>2, <2>3, <2>4, TasksAged, OthersAged DEF P!Tasks
<1>2. CASE UNCHANGED P!vars
  BY <1>2 DEF P!vars, P!Aged, P!Days, P!Unrowed, P!OldRows, P!Old, P!Retried
<1>. QED  BY <1>1, <1>2

\* Every variable of the order tasks keeps its type, and no failed row sees a third evening
\* unless the process was away, for any symbols, any limit and any number of orders.
THEOREM PlacementTypeCorrect == ASSUME P!PlacementAssumption PROVE P!Spec => []P!TypeOK
<1>1. P!Init => P!Typed /\ P!Aged
  <2>. SUFFICES ASSUME P!Init PROVE P!Typed /\ P!Aged
    OBVIOUS
  <2>1. P!Typed
    BY PlacementInit
  <2>2. P!NoRow.age = 0
    BY DEF P!NoRow
  <2>3. \A r \in P!Rows : ~P!Old(r)
    BY <2>2 DEF P!Init, P!Old
  <2>4. phase = "pre" /\ ~done["adjust"] /\ job.task = "none" /\ job.step = "next"
    BY ReadyFields DEF P!Init
  <2>5. P!Aged
    BY <2>3, <2>4 DEF P!Aged, P!Days, P!Unrowed, P!OldRows
  <2>. QED  BY <2>1, <2>5
<1>2. (P!Typed /\ P!Aged) /\ [P!Next]_(P!vars) => (P!Typed /\ P!Aged)'
  BY PlacementStep, PlacementAges
<1>3. P!Typed /\ P!Aged => P!TypeOK
  <2>. SUFFICES ASSUME P!Typed, P!Aged PROVE P!TypeOK
    OBVIOUS
  <2>1. \A r \in P!Rows : rows[r].age = 3 => "crash" \in faults
    BY DEF P!Aged, P!OldRows, P!Old
  <2>. QED
    BY <2>1 DEF P!Typed, P!Tables, P!Sheets, P!BookWell, P!Around, P!JobWell, P!TypeOK, P!SignalType,
                P!RowType, P!BookType, P!JobType
<1>. QED  BY <1>1, <1>2, <1>3, PTL DEF P!Spec

-----------------------------------------------------------------------------
(* No symbol has two orders: what the steps do to the book and to the rows     *)

\* No order of the system joins those that wait.
Fades == \A o \in P!Orders : P!ByUs(o)' => P!ByUs(o) /\ buyBook'[o].sym = buyBook[o].sym

\* The worker places an order, under a number that is free.
Places ==
    /\ job.step = "funds" /\ P!Buying /\ P!SpareOrders # {}
    /\ buyBook' = [buyBook EXCEPT ![P!FreeOrder] = [sym |-> job.sym, st |-> "open", by |-> "system"]]

\* A row loses its order or keeps it; and its status, while the order waits.
Kept(r) ==
    \/ rows'[r].order = P!None
    \/ /\ rows'[r].order = rows[r].order /\ rows'[r].sym = rows[r].sym
       /\ rows'[r].st = "pending" => rows[r].st = "pending"
       /\ P!ByUs(rows[r].order)' => rows'[r].st = rows[r].st

\* An order of the system that waits after the step.
Waits(o) == buyBook'[o].st = "open" /\ buyBook'[o].by = "system"

\* Rows may get orders of O, and are pending then.
RowsStep(O) ==
    \A r \in P!Rows :
        \/ Kept(r)
        \/ rows'[r].order \in O /\ rows'[r].st = "pending" /\ rows'[r].sym = buyBook[rows'[r].order].sym

\* The orders of the rows are the same as before.
SameOrders ==
    \A r \in P!Rows : rows'[r].order # P!None =>
        /\ buyBook'[rows'[r].order].sym = buyBook[rows'[r].order].sym
        /\ P!ByUs(rows[r].order)' => P!ByUs(rows'[r].order)

LEMMA NoOrderMeans ==
    ASSUME NEW s PROVE P!NoOrder(s) <=> \A o \in P!Orders : ~(P!ByUs(o) /\ buyBook[o].sym = s)
  BY DEF P!NoOrder, P!System, P!Live, P!ByUs

LEMMA NoOrderStays == ASSUME Fades, NEW s, P!NoOrder(s) PROVE P!NoOrder(s)'
  BY DEF P!NoOrder, P!System, P!Live, P!ByUs, Fades

LEMMA OneEachStays == ASSUME P!OneEach, Fades PROVE P!OneEach'
  BY DEF P!OneEach, Fades

LEMMA LinkedStays ==
    ASSUME P!Linked, NEW O, RowsStep(O), SameOrders PROVE P!Linked'
<1>. SUFFICES ASSUME NEW r \in P!Rows, rows'[r].order # P!None
              PROVE  /\ rows'[r].sym = buyBook'[rows'[r].order].sym
                     /\ P!ByUs(rows[r].order)' => rows'[r].st = "pending"
  BY DEF P!Linked
<1>1. /\ buyBook'[rows'[r].order].sym = buyBook[rows'[r].order].sym
      /\ P!ByUs(rows[r].order)' => P!ByUs(rows'[r].order)
  BY DEF SameOrders
<1>2. CASE /\ rows'[r].order = rows[r].order /\ rows'[r].sym = rows[r].sym
           /\ P!ByUs(rows[r].order)' => rows'[r].st = rows[r].st
  BY <1>1, <1>2 DEF P!Linked, P!ByUs
<1>. QED  BY <1>1, <1>2 DEF RowsStep, Kept

\* What a new order changes.
LEMMA PlacesFields ==
    ASSUME P!Typed, P!PlacementAssumption, Places
    PROVE  /\ P!FreeOrder \in P!Orders /\ ~P!ByUs(P!FreeOrder) /\ P!FreeOrder # job.order
           /\ P!FreeOrder \notin job.seen /\ \A r \in P!Rows : rows[r].order # P!FreeOrder
           /\ buyBook'[P!FreeOrder].st = "open" /\ buyBook'[P!FreeOrder].by = "system"
           /\ buyBook'[P!FreeOrder].sym = job.sym
           /\ \A o \in P!Orders : o # P!FreeOrder => buyBook'[o] = buyBook[o]
  BY FreeNumber DEF Places, P!ByUs, P!Typed, P!Tables, P!BookWell

LEMMA OneEachPlaces ==
    ASSUME P!Typed, P!PlacementAssumption, P!OneEach, Places, P!NoOrder(job.sym) PROVE P!OneEach'
<1>1. \A o \in P!Orders : ~(P!ByUs(o) /\ buyBook[o].sym = job.sym)
  BY NoOrderMeans
<1>. QED  BY <1>1, PlacesFields DEF P!OneEach, P!ByUs

LEMMA KeptSame == ASSUME rows' = rows PROVE RowsStep({})
  BY DEF RowsStep, Kept

\* A new row of create_amo has the order it was called with.
LEMMA KeptCreated ==
    ASSUME P!Typed, P!PlacementAssumption, NEW s \in Symbols, NEW o \in P!Orders \cup {P!None},
           P!SpareRows # {}, rows' = P!Created(s, o), o \in P!Orders => buyBook[o].sym = s
    PROVE  RowsStep({o} \ {P!None}) /\ (o = P!None => RowsStep({}))
<1>1. rows \in [P!Rows -> P!RowType]
  BY DEF P!Typed, P!Tables, P!Sheets
<1>2. CASE rows' = rows
  BY <1>2 DEF RowsStep, Kept
<1>3. ASSUME NEW f \in P!Rows, rows[f] = P!NoRow, rows' = [rows EXCEPT ![f] = P!NewRow(s, o)]
      PROVE  RowsStep({o} \ {P!None}) /\ (o = P!None => RowsStep({}))
  <2>1. \A r \in P!Rows : rows'[r] = IF r = f THEN P!NewRow(s, o) ELSE rows[r]
    BY <1>1, <1>3
  <2>2. /\ P!NewRow(s, o).sym = s /\ P!NewRow(s, o).st = "pending" /\ P!NewRow(s, o).order = o
    BY NewRowFields
  <2>. QED  BY <2>1, <2>2 DEF RowsStep, Kept
<1>. QED  BY <1>2, <1>3, CreatedRow

LEMMA KeptStatus ==
    ASSUME P!Typed, P!PlacementAssumption, NEW f \in P!Rows, rows[f].st # "none",
           NEW st \in {"failed", "cancelled"}, rows' = [rows EXCEPT ![f].st = st],
           rows[f].order = P!None \/ ~Waits(rows[f].order)
    PROVE  RowsStep({})
<1>1. /\ \A r \in P!Rows : rows'[r] = IF r = f THEN [rows[r] EXCEPT !.st = st] ELSE rows[r]
      /\ rows'[f].st = st /\ rows'[f].sym = rows[f].sym /\ rows'[f].order = rows[f].order
  BY OneStatus
<1>2. Kept(f)
  BY <1>1 DEF Kept, P!ByUs, Waits
<1>3. \A r \in P!Rows : r # f => Kept(r)
  BY <1>1 DEF Kept
<1>. QED  BY <1>2, <1>3 DEF RowsStep

LEMMA KeptFailed ==
    ASSUME P!Typed, P!PlacementAssumption, NEW s \in Symbols, P!AddFailed(s),
           \A p \in P!Rows : rows[p].sym = s /\ rows[p].st = "pending"
                                => rows[p].order = P!None \/ ~Waits(rows[p].order)
    PROVE  RowsStep({})
<1>1. rows \in [P!Rows -> P!RowType]
  BY DEF P!Typed, P!Tables, P!Sheets
<1>2. CASE rows' = rows
  BY <1>2, KeptSame
<1>3. ASSUME NEW f \in P!Rows, rows[f] = P!NoRow, rows' = [rows EXCEPT ![f] = P!FailedRow(s)]
      PROVE  RowsStep({})
  <2>1. \A r \in P!Rows : rows'[r] = IF r = f THEN P!FailedRow(s) ELSE rows[r]
    BY <1>1, <1>3
  <2>2. P!FailedRow(s).order = P!None
    BY NewRowFields DEF P!None
  <2>. QED  BY <2>1, <2>2 DEF RowsStep, Kept
<1>4. ASSUME NEW p \in P!Rows, rows[p].sym = s, rows[p].st = "pending",
             rows' = [rows EXCEPT ![p].st = "failed"]
      PROVE  RowsStep({})
  BY <1>4, KeptStatus
<1>. QED  BY <1>2, <1>3, <1>4, AddFailedRow

LEMMA KeptTidy ==
    ASSUME P!Typed, P!PlacementAssumption, NEW j, rows' = P!Tidy(rows, j) PROVE RowsStep({})
<1>. DEFINE t == P!Tidy(rows, j)
<1>1. \A r \in P!Rows : t[r] = rows[r] \/ t[r] = P!NoRow
  BY TidyRows DEF P!Typed, P!Tables, P!Sheets
<1>2. P!NoRow.order = P!None
  BY DEF P!NoRow
<1>. HIDE DEF t
<1>3. rows' = t
  BY DEF t
<1>. QED  BY <1>1, <1>2, <1>3 DEF RowsStep, Kept

\* Orders of rows, where the book stays or no order is forgotten.
LEMMA BookUntouched == ASSUME buyBook' = buyBook PROVE SameOrders /\ Fades
  BY DEF SameOrders, Fades, P!ByUs

LEMMA SameFades ==
    ASSUME Fades, P!Typed, P!Typed', \A o \in P!Orders : buyBook'[o].sym = buyBook[o].sym
    PROVE  SameOrders
<1>1. \A r \in P!Rows : rows'[r].order \in P!Orders \cup {P!None}
  BY DEF P!Typed, P!Tables, P!Sheets, P!RowType
<1>. QED  BY <1>1 DEF SameOrders, Fades, P!ByUs

LEMMA SamePlaces ==
    ASSUME P!Typed, P!Typed', P!PlacementAssumption, Places, RowsStep({}) PROVE SameOrders
<1>1. \A r \in P!Rows : rows'[r].order \in P!Orders \cup {P!None}
  BY DEF P!Typed, P!Tables, P!Sheets, P!RowType
<1>2. \A r \in P!Rows : rows'[r].order # P!FreeOrder
  BY PlacesFields, PlacementSets DEF RowsStep, Kept
<1>. QED  BY <1>1, <1>2, PlacesFields DEF SameOrders, P!ByUs

-----------------------------------------------------------------------------
(* What the other parts need *)

\* The worker takes up nothing new, or is through.
LEMMA CarefulStays ==
    ASSUME P!Careful, Fades, allowed' = allowed, positions' \subseteq positions, owned' \subseteq owned,
           job'.task = job.task, job'.seen = job.seen, job'.blind = job.blind,
           job'.todo \subseteq job.todo,
           job'.step = "funds" => job.step = "funds" /\ job'.sym = job.sym,
           job.task = "buys" /\ job'.step \in P!Placing => job'.sym \notin job'.todo
    PROVE  P!Careful'
<1>1. job'.task = "buys" =>
         /\ \A o \in P!Orders : P!ByUs(o)' /\ o \notin job'.seen => buyBook'[o].sym \notin job'.todo
         /\ job'.step \in P!Placing => job'.sym \notin job'.todo
  BY DEF P!Careful, Fades
<1>4. job'.task = "preview" => job'.seen = {}
  BY DEF P!Careful
<1>2. job'.step = "funds" /\ P!Buying' => P!NoOrder(job.sym)'
  BY NoOrderStays DEF P!Careful, P!Buying
<1>3. job'.step = "funds" /\ P!Buying' =>
         /\ P!NoOrder(job.sym)' /\ job'.sym = job.sym /\ job.sym \notin positions'
         /\ P!Unexposed({"noholdings"})' => job.sym \notin owned'
  BY <1>2 DEF P!Careful, P!Buying, P!Unexposed
<1>. QED  BY <1>1, <1>3, <1>4 DEF P!Careful, P!Unexposed

\* The worker has nothing to do.
LEMMA CarefulReady ==
    ASSUME P!PlacementAssumption, job' = P!Ready PROVE P!Careful'
  BY ReadyFields DEF P!Careful, P!Placing, P!Buying

\* Nothing fills.
LEMMA NoticedStays ==
    ASSUME P!Noticed, Fades, phase' = phase, allowed' = allowed,
           \A o \in P!Orders : /\ buyBook'[o].st = "filled" => buyBook[o].st = "filled"
                               /\ buyBook'[o].by = "user" => buyBook[o].by = "user",
           P!Typed, P!Typed',
           \A r \in P!Rows :
               rows'[r].st = "pending" /\ rows'[r].order # P!None
                   => \/ buyBook[rows'[r].order].st # "filled"
                      \/ /\ rows[r].st = "pending" /\ rows[r].order = rows'[r].order
                         /\ rows[r].sym = rows'[r].sym,
           \A o \in job'.seen : o \in job.seen \/ buyBook[o].st # "filled",
           job'.order \in {job.order, P!None} \/ buyBook'[job'.order].st # "filled",
           positions' \subseteq positions, owned' \subseteq owned
    PROVE  P!Noticed'
<1>1. /\ \A r \in P!Rows : rows'[r].order \in P!Orders \cup {P!None}
      /\ job.seen \subseteq P!Orders /\ job.order \in P!Orders \cup {P!None}
      /\ job'.seen \subseteq P!Orders
      /\ buyBook' \in [P!Orders -> P!BookType] /\ buyBook \in [P!Orders -> P!BookType]
  BY DEF P!Typed, P!Tables, P!Sheets, P!BookWell, P!RowType, P!JobWell, P!JobType
<1>2. phase = "pre" =>
         /\ \A r \in P!Rows : rows'[r].st = "pending" /\ rows'[r].order # P!None
                                 => buyBook'[rows'[r].order].st # "filled"
         /\ \A o \in job'.seen : buyBook'[o].st # "filled"
         /\ job'.order # P!None => buyBook'[job'.order].st # "filled"
  BY <1>1 DEF P!Noticed
<1>3. ASSUME P!Unexposed({"manual"})
      PROVE  /\ \A o \in P!Orders : buyBook'[o].by = "system"
             /\ \A r \in P!Rows : rows'[r].st = "pending" /\ rows'[r].order # P!None
                                     /\ buyBook'[rows'[r].order].st = "filled"
                                        => P!NoOrder(rows[r].sym)' /\ rows'[r].sym = rows[r].sym
             /\ \A s \in positions' : P!NoOrder(s)'
             /\ P!Unexposed({"noholdings"}) => \A s \in owned' : P!NoOrder(s)'
  <2>1. \A o \in P!Orders : buyBook'[o].by = "system"
    BY <1>1, <1>3 DEF P!Noticed, P!BookType
  <2>2. \A s : P!NoOrder(s) => P!NoOrder(s)'
    BY NoOrderStays
  <2>3. \A r \in P!Rows : rows'[r].st = "pending" /\ rows'[r].order # P!None
                                     /\ buyBook'[rows'[r].order].st = "filled"
                                        => P!NoOrder(rows[r].sym) /\ rows'[r].sym = rows[r].sym
    BY <1>1, <1>3 DEF P!Noticed
  <2>4. /\ \A s \in positions' : P!NoOrder(s)
        /\ P!Unexposed({"noholdings"}) => \A s \in owned' : P!NoOrder(s)
    BY <1>3 DEF P!Noticed
  <2>. QED  BY <2>1, <2>2, <2>3, <2>4
<1>. QED  BY <1>2, <1>3 DEF P!Noticed, P!Unexposed

\* Orders wait, or are cancelled or rejected; none is new.
Calm ==
    \A o \in P!Orders : /\ buyBook'[o].sym = buyBook[o].sym /\ buyBook'[o].by = buyBook[o].by
                        /\ buyBook'[o].st \in {buyBook[o].st, "cancelled", "rejected"}

LEMMA CalmFades == ASSUME Calm PROVE Fades
  BY DEF Calm, Fades, P!ByUs

LEMMA CalmStep ==
    ASSUME P!PlacementAssumption, P!Typed, P!Typed', P!Single, Calm,
           NEW O \in SUBSET P!Orders, RowsStep(O), \A o \in O : buyBook[o].st # "filled",
           phase' = phase, allowed' = allowed,
           positions' \subseteq positions, owned' \subseteq owned,
           \A o \in job'.seen : o \in job.seen \/ buyBook[o].st # "filled",
           job'.order \in {job.order, P!None} \/ buyBook'[job'.order].st # "filled"
    PROVE  P!Linked' /\ P!OneEach' /\ P!Lapsed' /\ P!Noticed'
<1>1. Fades
  BY CalmFades
<1>2. SameOrders
  BY <1>1, SameFades DEF Calm
<1>3. P!Linked'
  BY <1>2, LinkedStays DEF P!Single
<1>4. P!OneEach'
  BY <1>1, OneEachStays DEF P!Single
<1>5. P!Lapsed'
  BY DEF P!Single, P!Lapsed, P!Live, Calm
<1>6. /\ \A o \in P!Orders : /\ buyBook'[o].st = "filled" => buyBook[o].st = "filled"
                             /\ buyBook'[o].by = "user" => buyBook[o].by = "user"
      /\ \A r \in P!Rows :
               rows'[r].st = "pending" /\ rows'[r].order # P!None
                   => \/ buyBook[rows'[r].order].st # "filled"
                      \/ /\ rows[r].st = "pending" /\ rows[r].order = rows'[r].order
                         /\ rows[r].sym = rows'[r].sym
  BY DEF Calm, RowsStep, Kept
<1>7. P!Noticed'
  BY <1>1, <1>6, NoticedStays DEF P!Single
<1>. QED  BY <1>3, <1>4, <1>5, <1>7

LEMMA PlacesStep ==
    ASSUME P!PlacementAssumption, P!Typed, P!Typed', P!Single, Places, RowsStep({}),
           UNCHANGED <<phase, allowed, positions, owned>>,
           job'.seen = job.seen, job'.order \in {job.order, P!None, P!FreeOrder}
    PROVE  P!Linked' /\ P!OneEach' /\ P!Lapsed' /\ P!Noticed'
<1>1. /\ phase = "pre" /\ P!NoOrder(job.sym) /\ job.sym \notin positions
      /\ P!Unexposed({"noholdings"}) => job.sym \notin owned
  BY DEF P!Single, P!Careful, Places, P!Typed, P!JobWell, P!Works
<1>2. P!Linked'
  BY SamePlaces, LinkedStays DEF P!Single
<1>3. P!OneEach'
  BY <1>1, OneEachPlaces DEF P!Single
<1>4. P!Lapsed'
  BY <1>1 DEF P!Lapsed
<1>5. /\ P!FreeOrder \in P!Orders /\ \A r \in P!Rows : rows[r].order # P!FreeOrder
      /\ buyBook'[P!FreeOrder].st = "open" /\ buyBook'[P!FreeOrder].by = "system"
      /\ buyBook'[P!FreeOrder].sym = job.sym
      /\ \A o \in P!Orders : o # P!FreeOrder => buyBook'[o] = buyBook[o]
  BY PlacesFields
<1>6. /\ job.seen \subseteq P!Orders /\ job.order \in P!Orders \cup {P!None}
      /\ \A r \in P!Rows : rows[r].order \in P!Orders \cup {P!None}
  BY DEF P!Typed, P!Tables, P!Sheets, P!RowType, P!JobWell, P!JobType
<1>7. /\ \A r \in P!Rows : rows'[r].st = "pending" /\ rows'[r].order # P!None
                              => buyBook'[rows'[r].order].st # "filled"
      /\ \A o \in job'.seen : buyBook'[o].st # "filled"
      /\ job'.order # P!None => buyBook'[job'.order].st # "filled"
  <2>1. \A r \in P!Rows : rows'[r].st = "pending" /\ rows'[r].order # P!None
                             => rows[r].st = "pending" /\ rows'[r].order = rows[r].order
    BY DEF RowsStep, Kept
  <2>. QED  BY <1>1, <1>5, <1>6, <2>1 DEF P!Single, P!Noticed
<1>8. \A s : s # job.sym /\ P!NoOrder(s) => P!NoOrder(s)'
  BY <1>5 DEF P!NoOrder, P!System, P!Live
<1>9. P!Unexposed({"manual"}) =>
         /\ \A o \in P!Orders : buyBook'[o].by = "system"
         /\ \A s \in positions : P!NoOrder(s)'
         /\ P!Unexposed({"noholdings"}) => \A s \in owned : P!NoOrder(s)'
  BY <1>1, <1>5, <1>8 DEF P!Single, P!Noticed
<1>10. P!Noticed'
  BY <1>1, <1>7, <1>9 DEF P!Noticed, P!Unexposed
<1>. QED  BY <1>2, <1>3, <1>4, <1>10

-----------------------------------------------------------------------------
(* No symbol has two orders: the steps *)

LEMMA SceneExcludes ==
    ASSUME P!SingleScene PROVE ~P!Happens("noreport") /\ ~P!Happens("nocancel")
  BY DEF P!SingleScene, P!Unexposed, P!Happens

\* Who has an order of the system has it in the report, or a row is pending for it.
LEMMA FoundOrder ==
    ASSUME P!Single, NEW s, NEW shown, P!Strangers(s, shown) = {},
           \A o \in P!Orders : P!ByUs(o) /\ buyBook[o].sym = s => o \in shown,
           \A r \in P!Rows : rows[r].order # P!None => rows[r].order \in P!Orders,
           P!RowsOf(rows, s, {"pending"}) = {}, P!PlacementAssumption
    PROVE  P!NoOrder(s)
<1>. SUFFICES ASSUME NEW o \in P!Orders, P!ByUs(o), buyBook[o].sym = s PROVE FALSE
  BY NoOrderMeans
<1>1. PICK r \in P!Rows : rows[r].order = o
  BY DEF P!Strangers
<1>2. rows[r].sym = s /\ rows[r].st = "pending"
  BY <1>1, PlacementSets DEF P!Single, P!Linked
<1>. QED  BY <1>2 DEF P!RowsOf

LEMMA EntriesSingle ==
    ASSUME P!PlacementAssumption, P!Typed, P!Typed', P!SingleScene, P!Single, allowed' = allowed,
           NEW s \in Symbols,
           P!SkipEntry(s) \/ P!AdoptEntry(s) \/ P!PassEntry(s) \/ P!ReplaceEntry(s)
    PROVE  P!Single'
<1>1. /\ job.task \in {"buys", "preview"} /\ job.step = "next" /\ s \in job.todo
      /\ job \in P!JobType /\ P!Works
      /\ UNCHANGED <<owned, positions, phase, allowed>>
  BY DEF P!SkipEntry, P!AdoptEntry, P!PassEntry, P!ReplaceEntry, P!Entry, P!Typed, P!JobWell
<1>2. /\ job'.task = job.task /\ job'.seen = job.seen /\ job'.blind = job.blind
      /\ job'.todo \subseteq job.todo /\ job'.order = job.order
      /\ job'.step = "next" \/ (job'.step = "funds" /\ job'.sym = s /\ s \notin job'.todo)
  <2>1. CASE \E T \in SUBSET job.todo : job' = [job EXCEPT !.todo = T]
    BY <1>1, <2>1 DEF P!JobType
  <2>2. CASE P!Funds(s, P!None, s)
    BY <1>1, <2>2 DEF P!Funds, P!JobType
  <2>3. \/ P!Funds(s, P!None, s)
        \/ job' = [job EXCEPT !.todo = {}]
        \/ job' = [job EXCEPT !.todo = job.todo \ {s}]
    BY DEF P!SkipEntry, P!AdoptEntry, P!PassEntry, P!ReplaceEntry, P!Skip
  <2>4. {} \in SUBSET job.todo /\ job.todo \ {s} \in SUBSET job.todo
    OBVIOUS
  <2>. QED  BY <2>1, <2>2, <2>3, <2>4
<1>3. P!InHands'
  BY <1>2 DEF P!InHands, P!Placing
<1>4. CASE P!SkipEntry(s)
  <2>1. Calm /\ rows' = rows
    BY <1>4 DEF P!SkipEntry, Calm
  <2>2. job'.step = "next"
    BY <1>1, <1>4 DEF P!SkipEntry, P!Skip, P!JobType
  <2>3. P!Linked' /\ P!OneEach' /\ P!Lapsed' /\ P!Noticed'
    BY <1>1, <1>2, <2>1, KeptSame, CalmStep
  <2>4. P!Careful'
    BY <1>1, <1>2, <2>1, <2>2, CalmFades, CarefulStays DEF P!Single, P!Placing
  <2>. QED  BY <1>3, <2>3, <2>4 DEF P!Single
<1>5. CASE P!AdoptEntry(s)
  <2>1. Calm /\ job'.step = "next" /\ P!SpareRows # {}
    BY <1>1, <1>5 DEF P!AdoptEntry, P!Skip, P!JobType, Calm
  <2>2. PICK o \in P!Strangers(s, job.seen) : rows' = P!Created(s, o)
    BY <1>5 DEF P!AdoptEntry
  <2>3. o \in P!Orders /\ o \in job.seen /\ buyBook[o].sym = s
    BY <1>1, <2>2 DEF P!Strangers, P!JobType
  <2>4. job.task = "buys" /\ phase = "pre"
    BY <1>1, <2>3 DEF P!Single, P!Careful, P!Works, P!Buying
  <2>5. buyBook[o].st # "filled"
    BY <2>3, <2>4 DEF P!Single, P!Noticed
  <2>6. RowsStep({o} \ {P!None}) /\ {o} \ {P!None} \in SUBSET P!Orders
    BY <2>1, <2>2, <2>3, KeptCreated
  <2>7. P!Linked' /\ P!OneEach' /\ P!Lapsed' /\ P!Noticed'
    BY <1>1, <1>2, <2>1, <2>5, <2>6, CalmStep
  <2>8. P!Careful'
    BY <1>1, <1>2, <2>1, CalmFades, CarefulStays DEF P!Single, P!Placing
  <2>. QED  BY <1>3, <2>7, <2>8 DEF P!Single
<1>6. ASSUME Fades, job'.step = "funds", P!Open(s), P!NoOrder(s)' PROVE P!Careful'
  <2>1. s \notin positions /\ (P!Unexposed({"noholdings"}) => s \notin owned)
    BY <1>6 DEF P!Open, P!Held, P!Single, P!Careful
  <2>2. job'.sym = s /\ s \notin job'.todo
    BY <1>2, <1>6
  <2>3. job'.task = "buys" =>
            /\ \A o \in P!Orders : P!ByUs(o)' /\ o \notin job'.seen => buyBook'[o].sym \notin job'.todo
            /\ job'.step \in P!Placing => job'.sym \notin job'.todo
    BY <1>2, <1>6, <2>2 DEF P!Single, P!Careful, Fades
  <2>4. P!NoOrder(job.sym)' <=> P!NoOrder(s)'
    BY <2>2 DEF P!NoOrder, P!System
  <2>5. job'.sym \notin positions' /\ (P!Unexposed({"noholdings"})' => job'.sym \notin owned')
    <3>1. positions' = positions /\ owned' = owned /\ allowed' = allowed
      BY <1>1
    <3>2. P!Unexposed({"noholdings"})' => P!Unexposed({"noholdings"})
      BY <3>1 DEF P!Unexposed
    <3>. QED  BY <2>1, <2>2, <3>1, <3>2
  <2>6. /\ job'.task = "preview" => job'.seen = {}
        /\ P!Unexposed({"noholdings"})' => ~job'.blind
    BY <1>1, <1>2 DEF P!Careful, P!Single, P!Unexposed
  <2>. QED  BY <1>6, <2>3, <2>4, <2>5, <2>6 DEF P!Careful
<1>7. ASSUME P!PassEntry(s) \/ P!ReplaceEntry(s), Calm, RowsStep({}), P!NoOrder(s)' PROVE P!Single'
  <2>1. job'.step = "funds" /\ P!Open(s)
    BY <1>1, <1>7 DEF P!PassEntry, P!ReplaceEntry, P!Funds, P!JobType
  <2>2. P!Careful'
    BY <1>6, <1>7, <2>1, CalmFades
  <2>3. P!Linked' /\ P!OneEach' /\ P!Lapsed' /\ P!Noticed'
    BY <1>1, <1>2, <1>7, CalmStep
  <2>. QED  BY <1>3, <2>2, <2>3 DEF P!Single
<1>8. CASE P!PassEntry(s) /\ job.task = "buys"
  <2>1. rows' = rows /\ buyBook' = buyBook /\ P!Strangers(s, job.seen) = {} /\ P!Known(s) = {}
    BY <1>8 DEF P!PassEntry, P!Fresh
  <2>2. \A o \in P!Orders : P!ByUs(o) /\ buyBook[o].sym = s => o \in job.seen
    BY <1>1, <1>8 DEF P!Single, P!Careful
  <2>3. \A r \in P!Rows : rows[r].order # P!None => rows[r].order \in P!Orders
    BY DEF P!Typed, P!Tables, P!Sheets, P!RowType
  <2>4. P!RowsOf(rows, s, {"pending"}) = {}
    BY <2>1 DEF P!Known, P!RowsOf
  <2>5. P!NoOrder(s)
    BY <2>1, <2>2, <2>3, <2>4, FoundOrder
  <2>6. P!NoOrder(s)' /\ Calm /\ RowsStep({})
    BY <2>1, <2>5, KeptSame, BookUntouched, NoOrderStays DEF Calm
  <2>. QED  BY <1>7, <1>8, <2>6
<1>9. CASE P!PassEntry(s) /\ job.task = "preview"
  <2>1. rows' = rows /\ buyBook' = buyBook
    BY <1>9 DEF P!PassEntry
  <2>2. P!NoOrder(s)
    BY <1>1, <1>9 DEF P!Works, P!Single, P!Lapsed, P!NoOrder, P!System
  <2>3. P!NoOrder(s)' /\ Calm /\ RowsStep({})
    BY <2>1, <2>2, KeptSame, BookUntouched, NoOrderStays DEF Calm
  <2>. QED  BY <1>7, <1>9, <2>3
<1>10. CASE P!ReplaceEntry(s)
  <2>1. buyBook' = [o \in P!Orders |-> IF o \in P!Replaced(s)
                                       THEN [buyBook[o] EXCEPT !.st = "cancelled"] ELSE buyBook[o]]
    BY <1>10, SceneExcludes DEF P!ReplaceEntry
  <2>2. buyBook \in [P!Orders -> P!BookType]
    BY DEF P!Typed, P!Tables, P!BookWell
  <2>3. Calm /\ P!NoOrder(s)'
    BY <2>1, <2>2 DEF Calm, P!BookType, P!NoOrder, P!System, P!Live, P!Replaced
  <2>4. PICK r \in P!Known(s) : rows' = [rows EXCEPT ![r].st = "cancelled"]
    BY <1>10 DEF P!ReplaceEntry
  <2>5. r \in P!Rows /\ rows[r].sym = s /\ rows[r].st # "none"
    BY <2>4 DEF P!Known, P!RowsOf
  <2>7. rows[r].order = P!None \/ ~Waits(rows[r].order)
    <3>. SUFFICES ASSUME rows[r].order # P!None PROVE ~Waits(rows[r].order)
      OBVIOUS
    <3>1. rows[r].order \in P!Orders /\ buyBook[rows[r].order].sym = s
      BY <2>5 DEF P!Typed, P!Tables, P!Sheets, P!RowType, P!Single, P!Linked
    <3>. QED  BY <2>1, <2>2, <3>1 DEF P!Replaced, P!Live, P!BookType, Waits
  <2>8. RowsStep({})
    BY <2>4, <2>5, <2>7, KeptStatus
  <2>. QED  BY <1>7, <1>10, <2>3, <2>8
<1>. QED  BY <1>1, <1>4, <1>5, <1>8, <1>9, <1>10

LEMMA RetriesSingle ==
    ASSUME P!PlacementAssumption, P!Typed, P!Typed', P!SingleScene, P!Single, allowed' = allowed,
           NEW r \in P!Rows, P!SkipRow(r) \/ P!AdoptRow(r) \/ P!PassRow(r)
    PROVE  P!Single'
<1>1. /\ job.task = "retry" /\ job.step = "next" /\ r \in job.todo /\ P!Retried(r)
      /\ job \in P!JobType /\ rows \in [P!Rows -> P!RowType]
      /\ UNCHANGED <<owned, positions, phase, allowed>>
  BY DEF P!SkipRow, P!AdoptRow, P!PassRow, P!Retriable, P!Row, P!Typed, P!JobWell, P!Retries,
         P!Tables, P!Sheets
<1>2. Calm /\ Fades
  BY CalmFades DEF P!SkipRow, P!AdoptRow, P!PassRow, Calm
<1>3. rows[r].st # "none" /\ (rows[r].order = P!None \/ ~P!ByUs(rows[r].order))
  BY <1>1 DEF P!Retried, P!Single, P!Linked
<1>4. CASE P!SkipRow(r)
  <2>1. PICK T \in SUBSET job.todo : job' = [job EXCEPT !.todo = T]
    BY <1>4 DEF P!SkipRow, P!Skip
  <2>2. /\ job'.task = job.task /\ job'.seen = job.seen /\ job'.blind = job.blind
        /\ job'.todo \subseteq job.todo /\ job'.order = job.order /\ job'.step = "next"
    BY <1>1, <2>1 DEF P!JobType
  <2>3. RowsStep({})
    <3>1. CASE rows' = rows
      BY <3>1, KeptSame
    <3>2. ASSUME NEW st \in {"failed", "cancelled"}, P!Settle(r, st) PROVE RowsStep({})
      <4>1. rows' = [rows EXCEPT ![r].st = st] /\ buyBook' = buyBook
        BY <1>4, <3>2 DEF P!Settle, P!SkipRow
      <4>2. rows[r].order = P!None \/ ~Waits(rows[r].order)
        BY <1>3, <4>1 DEF P!ByUs, Waits
      <4>. QED  BY <1>3, <4>1, <4>2, KeptStatus
    <3>. QED  BY <1>4, <3>1, <3>2 DEF P!SkipRow
  <2>4. P!Linked' /\ P!OneEach' /\ P!Lapsed' /\ P!Noticed'
    BY <1>1, <1>2, <2>2, <2>3, CalmStep
  <2>5. P!Careful' /\ P!InHands'
    BY <1>1, <1>2, <2>2, CarefulStays DEF P!Single, P!InHands, P!Placing
  <2>. QED  BY <2>4, <2>5 DEF P!Single
<1>5. CASE P!AdoptRow(r)
  <2>1. job' = [job EXCEPT !.todo = job.todo \ {r}]
    BY <1>5 DEF P!AdoptRow, P!Skip
  <2>2. /\ job'.task = job.task /\ job'.seen = job.seen /\ job'.blind = job.blind
        /\ job'.todo \subseteq job.todo /\ job'.order = job.order /\ job'.step = "next"
    BY <1>1, <2>1 DEF P!JobType
  <2>3. PICK o \in P!Strangers(rows[r].sym, P!Live) :
           rows' = [rows EXCEPT ![r].st = "pending", ![r].order = o]
    BY <1>5 DEF P!AdoptRow
  <2>4. o \in P!Orders /\ buyBook[o].st = "open" /\ buyBook[o].sym = rows[r].sym
    BY <2>3 DEF P!Strangers, P!Live
  <2>5. RowsStep({o})
    <3>1. /\ rows'[r].st = "pending" /\ rows'[r].order = o /\ rows'[r].sym = rows[r].sym
          /\ \A q \in P!Rows : q # r => rows'[q] = rows[q]
      BY <1>1, <2>3 DEF P!RowType
    <3>. QED  BY <2>4, <3>1 DEF RowsStep, Kept
  <2>6. P!Linked' /\ P!OneEach' /\ P!Lapsed' /\ P!Noticed'
    BY <1>1, <1>2, <2>2, <2>4, <2>5, CalmStep
  <2>7. P!Careful' /\ P!InHands'
    BY <1>1, <1>2, <2>2, CarefulStays DEF P!Single, P!InHands, P!Placing
  <2>. QED  BY <2>6, <2>7 DEF P!Single
<1>6. CASE P!PassRow(r)
  <2>. DEFINE s == rows[r].sym
  <2>1. /\ P!Funds(s, r, r) /\ P!Strangers(s, P!Live) = {} /\ s \notin positions
        /\ ~P!Pending(rows, s) /\ ~P!Held(s) /\ rows' = rows /\ buyBook' = buyBook
    BY <1>6, SceneExcludes DEF P!PassRow, P!Retriable, P!Alike
  <2>2. /\ job'.task = "retry" /\ job'.seen = job.seen /\ job'.blind = job.blind
        /\ job'.order = job.order /\ job'.step = "funds" /\ job'.sym = s
    BY <1>1, <2>1 DEF P!Funds, P!JobType
  <2>3. P!NoOrder(s)
    <3>1. P!RowsOf(rows, s, {"pending"}) = {}
      BY <2>1 DEF P!Pending
    <3>2. \A o \in P!Orders : P!ByUs(o) /\ buyBook[o].sym = s => o \in P!Live
      BY DEF P!ByUs, P!Live
    <3>3. \A q \in P!Rows : rows[q].order # P!None => rows[q].order \in P!Orders
      BY DEF P!Typed, P!Tables, P!Sheets, P!RowType
    <3>. HIDE DEF s
    <3>. QED  BY <2>1, <3>1, <3>2, <3>3, FoundOrder
  <2>4. P!NoOrder(job.sym)'
    BY <2>1, <2>2, <2>3 DEF P!NoOrder, P!System, P!Live
  <2>5. job'.sym \notin positions' /\ (P!Unexposed({"noholdings"})' => job'.sym \notin owned' /\ ~job'.blind)
    <3>1. positions' = positions /\ owned' = owned /\ allowed' = allowed
      BY <1>1
    <3>2. P!Unexposed({"noholdings"})' => P!Unexposed({"noholdings"})
      BY <3>1 DEF P!Unexposed
    <3>3. P!Unexposed({"noholdings"}) => s \notin owned /\ ~job.blind
      BY <2>1 DEF P!Held, P!Single, P!Careful
    <3>. QED  BY <2>1, <2>2, <3>1, <3>2, <3>3
  <2>6. P!Careful' /\ P!InHands'
    BY <2>2, <2>4, <2>5 DEF P!Careful, P!InHands
  <2>7. P!Linked' /\ P!OneEach' /\ P!Lapsed' /\ P!Noticed'
    BY <1>1, <1>2, <2>1, <2>2, KeptSame, CalmStep
  <2>. QED  BY <2>6, <2>7 DEF P!Single
<1>. QED  BY <1>4, <1>5, <1>6

LEMMA PlacingSingle ==
    ASSUME P!PlacementAssumption, P!Typed, P!Typed', P!SingleScene, P!Single, allowed' = allowed,
           P!NoFunds \/ P!PreviewOnly \/ P!Refused \/ P!Accepted \/ P!Trade \/ P!Write
           \/ P!Verify \/ P!Relink
    PROVE  P!Single'
<1>1. /\ job \in P!JobType /\ P!Works /\ P!Retries /\ rows \in [P!Rows -> P!RowType] /\ P!RowsWell
      /\ UNCHANGED <<owned, positions, phase, allowed>>
  BY DEF P!NoFunds, P!PreviewOnly, P!Refused, P!Accepted, P!Trade, P!Write, P!Verify, P!Relink,
         P!Typed, P!Tables, P!JobWell, P!Sheets
<1>2. job.step \in P!Placing /\ job.sym \in Symbols
  BY <1>1 DEF P!NoFunds, P!PreviewOnly, P!Refused, P!Accepted, P!Trade, P!Write, P!Verify, P!Relink,
              P!Works, P!Placing
<1>3. job.task = "retry" =>
         /\ job.row \in P!Rows /\ rows[job.row].st # "none" /\ rows[job.row].sym = job.sym
         /\ rows[job.row].order = P!None \/ ~P!ByUs(rows[job.row].order)
  BY <1>1, <1>2 DEF P!Retries, P!Retried, P!Single, P!Linked
<1>4. \A r \in P!Rows : rows[r].order \in P!Orders \cup {P!None}
  BY <1>1 DEF P!RowType
<1>5. /\ job'.task = job.task /\ job'.todo = job.todo /\ job'.seen = job.seen /\ job'.blind = job.blind
      /\ job'.step # "funds"
  <2>1. CASE P!Over
    BY <1>1, <2>1 DEF P!Over, P!JobType
  <2>2. CASE P!Accepted
    BY <1>1, <2>2 DEF P!Accepted, P!JobType
  <2>3. CASE P!Trade \/ P!Write
    BY <1>1, <2>3 DEF P!Trade, P!Write, P!JobType
  <2>4. CASE P!Verify /\ job' = [job EXCEPT !.step = "verified"]
    BY <1>1, <2>4 DEF P!JobType
  <2>. QED  BY <2>1, <2>2, <2>3, <2>4 DEF P!NoFunds, P!PreviewOnly, P!Refused, P!Verify, P!Relink
<1>6. ASSUME P!Over PROVE job'.step = "next" /\ job'.order = P!None /\ P!InHands'
  BY <1>1, <1>6 DEF P!Over, P!JobType, P!InHands, P!Placing
<1>7. ASSUME job'.step = "next" \/ job'.sym = job.sym
      PROVE  job.task = "buys" /\ job'.step \in P!Placing => job'.sym \notin job'.todo
  BY <1>2, <1>5, <1>7 DEF P!Single, P!Careful, P!Placing
<1>8. ASSUME Fades, job'.step = "next" \/ job'.sym = job.sym PROVE P!Careful'
  BY <1>1, <1>5, <1>7, <1>8, CarefulStays DEF P!Single
<1>9. ASSUME Places, job'.step = "next" \/ job'.sym = job.sym PROVE P!Careful'
  <2>1. job.task = "buys" => job.sym \notin job.todo
    BY <1>2 DEF P!Single, P!Careful
  <2>2. /\ P!FreeOrder \in P!Orders /\ buyBook'[P!FreeOrder].sym = job.sym
        /\ \A o \in P!Orders : o # P!FreeOrder => buyBook'[o] = buyBook[o]
    BY <1>9, PlacesFields
  <2>3. job.task = "buys" =>
           \A o \in P!Orders : P!ByUs(o)' /\ o \notin job.seen => buyBook'[o].sym \notin job.todo
    BY <2>1, <2>2 DEF P!Single, P!Careful, P!ByUs
  <2>4. /\ job.task = "preview" => job.seen = {}
        /\ P!Unexposed({"noholdings"})' => ~job.blind
    BY <1>1 DEF P!Single, P!Careful, P!Unexposed
  <2>. QED  BY <1>5, <1>7, <1>9, <2>3, <2>4 DEF P!Careful
<1>10. job.step = "funds" => P!NoOrder(job.sym)
  <2>1. CASE job.task = "preview"
    BY <1>1, <2>1 DEF P!Works, P!Single, P!Lapsed, P!NoOrder, P!System
  <2>. QED  BY <1>1, <2>1 DEF P!Works, P!Single, P!Careful, P!Buying
<1>11. ASSUME job.step = "funds", NEW p \in P!Rows, rows[p].sym = job.sym,
              buyBook' = buyBook \/ Places
       PROVE  rows[p].order = P!None \/ ~Waits(rows[p].order)
  <2>. SUFFICES ASSUME rows[p].order # P!None PROVE ~Waits(rows[p].order)
    OBVIOUS
  <2>1. rows[p].order \in P!Orders /\ buyBook[rows[p].order].sym = job.sym
    BY <1>4, <1>11 DEF P!Single, P!Linked
  <2>2. ~P!ByUs(rows[p].order)
    BY <1>10, <1>11, <2>1, NoOrderMeans
  <2>3. buyBook'[rows[p].order] = buyBook[rows[p].order]
    BY <1>11, <2>1, PlacesFields
  <2>. QED  BY <2>2, <2>3 DEF P!ByUs, Waits
<1>12. ASSUME job.step = "funds", buyBook' = buyBook \/ Places,
              rows' = rows \/ P!AddFailed(job.sym)
                  \/ (job.task = "retry" /\ P!Settle(job.row, "failed"))
       PROVE  RowsStep({})
  <2>1. CASE rows' = rows
    BY <2>1, KeptSame
  <2>2. CASE P!AddFailed(job.sym)
    <3>1. \A p \in P!Rows : rows[p].sym = job.sym /\ rows[p].st = "pending"
                                => rows[p].order = P!None \/ ~Waits(rows[p].order)
      BY <1>11, <1>12
    <3>. QED  BY <1>2, <2>2, <3>1, KeptFailed
  <2>3. CASE job.task = "retry" /\ P!Settle(job.row, "failed")
    <3>1. rows' = [rows EXCEPT ![job.row].st = "failed"]
      BY <2>3 DEF P!Settle
    <3>. QED  BY <1>3, <1>11, <1>12, <2>3, <3>1, KeptStatus
  <2>. QED  BY <1>12, <2>1, <2>2, <2>3
<1>13. ASSUME buyBook' = buyBook PROVE Calm /\ Fades
  BY <1>13, BookUntouched DEF Calm
<1>14. CASE P!NoFunds \/ P!PreviewOnly \/ P!Refused
  <2>1. P!Over /\ job.step = "funds"
    BY <1>14 DEF P!NoFunds, P!PreviewOnly, P!Refused
  <2>2. rows' = rows \/ P!AddFailed(job.sym) \/ (job.task = "retry" /\ P!Settle(job.row, "failed"))
    BY <1>14 DEF P!NoFunds, P!PreviewOnly, P!Refused, P!Retrying
  <2>3. buyBook' = buyBook \/ Places
    BY <1>1, <1>14, <2>1
       DEF P!NoFunds, P!PreviewOnly, P!Refused, P!Sent, Places, P!Works, P!Buying, P!Placing
  <2>4. RowsStep({})
    BY <1>12, <2>1, <2>2, <2>3
  <2>5. P!Linked' /\ P!OneEach' /\ P!Lapsed' /\ P!Noticed'
    BY <1>1, <1>5, <1>6, <1>13, <2>1, <2>3, <2>4, CalmStep, PlacesStep
  <2>6. P!Careful' /\ P!InHands'
    BY <1>6, <1>8, <1>9, <1>13, <2>1, <2>3
  <2>. QED  BY <2>5, <2>6 DEF P!Single
<1>15. CASE P!Accepted
  <2>1. Places /\ rows' = rows
    BY <1>1, <1>15 DEF P!Accepted, P!Sent, Places, P!Works, P!Buying
  <2>2. job'.step = "accepted" /\ job'.order = P!FreeOrder /\ job'.sym = job.sym
    BY <1>1, <1>15 DEF P!Accepted, P!JobType
  <2>3. P!InHands'
    BY <2>1, <2>2, PlacesFields DEF P!InHands
  <2>4. P!Careful'
    BY <1>9, <2>1, <2>2
  <2>5. P!Linked' /\ P!OneEach' /\ P!Lapsed' /\ P!Noticed'
    BY <1>1, <1>5, <2>1, <2>2, KeptSame, PlacesStep
  <2>. QED  BY <2>3, <2>4, <2>5 DEF P!Single
<1>16. CASE P!Trade \/ P!Write \/ P!Verify
  <2>1. /\ job.step \in P!Placing \ {"funds"} /\ job.order \in P!Orders /\ P!Buying
        /\ buyBook[job.order].sym = job.sym /\ phase = "pre" /\ buyBook' = buyBook
        /\ buyBook[job.order].st # "filled"
    BY <1>1, <1>2, <1>16, PlacementSets
       DEF P!Trade, P!Write, P!Verify, P!Works, P!Single, P!InHands, P!Buying, P!Noticed
  <2>2. \/ job'.step \in {"traded", "written", "verified"} /\ job'.order = job.order /\ job'.sym = job.sym
        \/ P!Over
    BY <1>1, <1>16 DEF P!Trade, P!Write, P!Verify, P!JobType
  <2>3. P!InHands' /\ job'.order \in {job.order, P!None}
    BY <1>6, <2>1, <2>2 DEF P!InHands
  <2>4. P!Careful'
    BY <1>6, <1>8, <1>13, <2>1, <2>2
  <2>5. \E O \in SUBSET {job.order} : RowsStep(O)
    <3>1. CASE P!Trade
      BY <3>1, KeptSame DEF P!Trade
    <3>2. CASE P!Write
      BY <1>2, <2>1, <3>2, KeptSame, KeptCreated DEF P!Write
    <3>3. CASE P!Verify
      <4>1. ASSUME NEW r \in P!Rows, rows[r].order = job.order, P!Settle(r, "failed"),
                   buyBook[job.order].st = "rejected"
            PROVE  RowsStep({})
        <5>1. rows[r].st # "none"
          BY <1>1, <2>1, <4>1, PlacementSets DEF P!RowsWell, P!NoRow, P!None
        <5>2. rows' = [rows EXCEPT ![r].st = "failed"]
          BY <4>1 DEF P!Settle
        <5>3. ~Waits(rows[r].order)
          BY <2>1, <4>1 DEF Waits
        <5>. QED  BY <5>1, <5>2, <5>3, KeptStatus
      <4>. QED  BY <3>3, <4>1, KeptSame DEF P!Verify
    <3>. QED  BY <1>16, <3>1, <3>2, <3>3
  <2>6. P!Linked' /\ P!OneEach' /\ P!Lapsed' /\ P!Noticed'
    BY <1>1, <1>5, <1>13, <2>1, <2>3, <2>5, CalmStep
  <2>. QED  BY <2>3, <2>4, <2>6 DEF P!Single
<1>17. CASE P!Relink
  <2>1. /\ job.step \in P!Placing \ {"funds"} /\ job.order \in P!Orders /\ job.task = "retry"
        /\ buyBook[job.order].sym = job.sym /\ phase = "pre" /\ buyBook' = buyBook
        /\ buyBook[job.order].st # "filled" /\ P!Over /\ job.row \in P!Rows
        /\ rows[job.row].sym = job.sym
    BY <1>1, <1>2, <1>3, <1>17, PlacementSets
       DEF P!Relink, P!Works, P!Single, P!InHands, P!Buying, P!Noticed, P!Placing
  <2>. DEFINE rs == [rows EXCEPT ![job.row].st = "pending", ![job.row].order = job.order]
              j == job'  t == P!Tidy(rs, j)
  <2>2. /\ rs \in [P!Rows -> P!RowType]
        /\ rs[job.row].st = "pending" /\ rs[job.row].order = job.order
        /\ rs[job.row].sym = job.sym /\ \A q \in P!Rows : q # job.row => rs[q] = rows[q]
    BY <1>1, <2>1 DEF P!RowType
  <2>3. rows' = t
    BY <1>17 DEF P!Relink
  <2>. HIDE DEF rs, j
  <2>4. \A q \in P!Rows : t[q] = rs[q] \/ t[q] = P!NoRow
    BY <2>2, TidyRows
  <2>5. P!NoRow.order = P!None
    BY DEF P!NoRow
  <2>. HIDE DEF t
  <2>6. RowsStep({job.order})
    BY <2>1, <2>2, <2>3, <2>4, <2>5 DEF RowsStep, Kept
  <2>7. P!Linked' /\ P!OneEach' /\ P!Lapsed' /\ P!Noticed'
    BY <1>1, <1>5, <1>6, <1>13, <2>1, <2>6, CalmStep
  <2>8. P!Careful' /\ P!InHands'
    BY <1>6, <1>8, <1>13, <2>1
  <2>. QED  BY <2>7, <2>8 DEF P!Single
<1>. QED  BY <1>14, <1>15, <1>16, <1>17

LEMMA PremarketSingle ==
    ASSUME P!PlacementAssumption, P!Typed, P!Typed', P!SingleScene, P!Single, allowed' = allowed,
           (\E o \in P!Orders : P!LeaveOrder(o) \/ P!CancelAbove(o)) \/ P!WriteOff \/ P!EndTask
    PROVE  P!Single'
<1>1. /\ job \in P!JobType /\ P!Works /\ rows \in [P!Rows -> P!RowType]
      /\ buyBook \in [P!Orders -> P!BookType]
      /\ positions' = positions /\ owned' = owned /\ phase' = phase
  BY DEF P!LeaveOrder, P!CancelAbove, P!WriteOff, P!EndTask, P!Typed, P!Tables, P!JobWell,
         P!Sheets, P!BookWell
<1>2. ASSUME NEW o \in P!Orders, P!LeaveOrder(o) PROVE P!Single'
  <2>1. /\ job.task = "adjust" /\ job.step = "next" /\ job' = [job EXCEPT !.todo = job.todo \ {o}]
        /\ rows' = rows /\ Calm
    BY <1>2 DEF P!LeaveOrder, P!Waiting, P!Skip, Calm
  <2>2. /\ job'.task = "adjust" /\ job'.step = "next" /\ job'.seen = job.seen
        /\ job'.blind = job.blind /\ job'.order = job.order /\ job'.todo \subseteq job.todo
    BY <1>1, <2>1 DEF P!JobType
  <2>3. P!Linked' /\ P!OneEach' /\ P!Lapsed' /\ P!Noticed'
    BY <1>1, <2>1, <2>2, KeptSame, CalmStep
  <2>4. P!Careful' /\ P!InHands'
    BY <1>1, <2>1, <2>2, CalmFades, CarefulStays DEF P!Single, P!InHands, P!Placing
  <2>. QED  BY <2>3, <2>4 DEF P!Single
<1>3. ASSUME NEW o \in P!Orders, P!CancelAbove(o) PROVE P!Single'
  <2>1. /\ job.task = "adjust" /\ rows' = rows /\ Calm /\ buyBook'[o].st = "cancelled"
    BY <1>1, <1>3 DEF P!CancelAbove, P!Waiting, Calm, P!BookType
  <2>2. /\ job'.task = "adjust" /\ job'.step = "gone" /\ job'.seen = job.seen
        /\ job'.blind = job.blind /\ job'.order = o /\ job'.todo \subseteq job.todo
    BY <1>1, <1>3, <2>1 DEF P!CancelAbove, P!JobType
  <2>3. P!Linked' /\ P!OneEach' /\ P!Lapsed' /\ P!Noticed'
    BY <1>1, <2>1, <2>2, KeptSame, CalmStep
  <2>4. P!Careful' /\ P!InHands'
    BY <1>1, <2>1, <2>2, CalmFades, CarefulStays DEF P!Single, P!InHands, P!Placing
  <2>. QED  BY <2>3, <2>4 DEF P!Single
<1>4. CASE P!WriteOff
  <2>1. /\ job.task = "adjust" /\ job.step = "gone" /\ P!Over /\ buyBook' = buyBook
        /\ job.order \in P!Orders /\ buyBook[job.order].st # "open"
    BY <1>1, <1>4 DEF P!WriteOff, P!Works, P!Single, P!InHands
  <2>2. /\ job'.task = "adjust" /\ job'.step = "next" /\ job'.seen = job.seen
        /\ job'.blind = job.blind /\ job'.order = P!None /\ job'.todo = job.todo
    BY <1>1, <2>1 DEF P!Over, P!JobType
  <2>3. Calm /\ Fades
    BY <2>1, BookUntouched DEF Calm
  <2>4. RowsStep({})
    <3>1. CASE rows' = rows
      BY <3>1, KeptSame
    <3>2. CASE rows' = [r \in P!Rows |-> IF r \in {q \in P!Rows : rows[q].order = job.order}
                                        THEN [rows[r] EXCEPT !.st = "cancelled"] ELSE rows[r]]
      <4>. SUFFICES ASSUME NEW r \in P!Rows PROVE Kept(r)
        BY DEF RowsStep
      <4>1. CASE rows[r].order # job.order
        BY <3>2, <4>1 DEF Kept
      <4>2. CASE rows[r].order = job.order
        <5>1. /\ rows'[r].order = rows[r].order /\ rows'[r].sym = rows[r].sym
              /\ rows'[r].st = "cancelled"
          BY <1>1, <3>2, <4>2 DEF P!RowType
        <5>. QED  BY <2>1, <4>2, <5>1 DEF Kept, P!ByUs
      <4>. QED  BY <4>1, <4>2
    <3>. QED  BY <1>4, <3>1, <3>2 DEF P!WriteOff
  <2>5. P!Linked' /\ P!OneEach' /\ P!Lapsed' /\ P!Noticed'
    BY <1>1, <2>2, <2>3, <2>4, CalmStep
  <2>6. P!Careful' /\ P!InHands'
    BY <1>1, <2>1, <2>2, <2>3, CarefulStays DEF P!Single, P!InHands, P!Placing
  <2>. QED  BY <2>5, <2>6 DEF P!Single
<1>5. CASE P!EndTask
  <2>1. job' = P!Ready /\ Calm /\ RowsStep({})
    BY <1>5, KeptTidy DEF P!EndTask, Calm
  <2>2. job'.seen = {} /\ job'.order = P!None /\ job'.step = "next"
    BY <2>1, ReadyFields
  <2>3. P!Linked' /\ P!OneEach' /\ P!Lapsed' /\ P!Noticed'
    BY <1>1, <2>1, <2>2, CalmStep
  <2>4. P!Careful' /\ P!InHands'
    BY <2>1, <2>2, CarefulReady DEF P!InHands, P!Placing
  <2>. QED  BY <2>3, <2>4 DEF P!Single
<1>. QED  BY <1>2, <1>3, <1>4, <1>5

LEMMA TasksSingle ==
    ASSUME P!PlacementAssumption, P!Typed, P!Typed', P!SingleScene, P!Single, allowed' = allowed,
           P!StartEntries \/ P!StartRetry \/ P!StartAdjust \/ P!Analysis \/ P!Cleanup \/ P!Clock
    PROVE  P!Single'
<1>1. /\ job = P!Ready /\ rows \in [P!Rows -> P!RowType] /\ buyBook \in [P!Orders -> P!BookType]
      /\ positions' = positions /\ owned' = owned
      /\ job.task = "none" /\ job.step = "next" /\ job.seen = {} /\ job.order = P!None
  BY ReadyFields
     DEF P!Typed, P!Tables, P!Sheets, P!BookWell, P!Idle, P!StartEntries, P!StartRetry,
         P!StartAdjust, P!Analysis, P!Cleanup, P!Clock
<1>2. \A o \in P!Live : buyBook[o].st # "filled"
  BY DEF P!Live
<1>3. ~(P!Unexposed({"noholdings"})' /\ P!Happens("noholdings"))
  BY DEF P!Unexposed, P!Happens
<1>4. CASE P!StartEntries
  <2>1. Calm /\ rows' = rows /\ phase' = phase
    BY <1>4 DEF P!StartEntries, Calm
  <2>2. /\ job'.task \in {"buys", "preview"} /\ job'.step = "next" /\ job'.order = P!None
        /\ job'.seen = P!Live /\ (job'.blind => P!Happens("noholdings"))
        /\ job'.task = "preview" => phase = "closed"
    BY <1>4, EntriesStart, SceneExcludes
  <2>3. P!Linked' /\ P!OneEach' /\ P!Lapsed' /\ P!Noticed'
    BY <1>1, <1>2, <2>1, <2>2, KeptSame, CalmStep
  <2>4. \A o \in P!Orders : P!ByUs(o)' => o \in job'.seen
    BY <2>1, <2>2 DEF Calm, P!ByUs, P!Live
  <2>5. job'.task = "preview" => job'.seen = {}
    BY <2>2 DEF P!Single, P!Lapsed
  <2>6. P!Careful' /\ P!InHands'
    BY <1>3, <2>2, <2>4, <2>5 DEF P!Careful, P!InHands, P!Placing
  <2>. QED  BY <2>3, <2>6 DEF P!Single
<1>5. CASE P!StartRetry
  <2>1. Calm /\ phase' = phase
    BY <1>5 DEF P!StartRetry, Calm
  <2>2. /\ job'.task = "retry" /\ job'.step = "next" /\ job'.order = P!None
        /\ job'.seen = {} /\ (job'.blind => P!Happens("noholdings"))
    BY <1>5, RetryStart
  <2>3. RowsStep({})
    <3>. SUFFICES ASSUME NEW r \in P!Rows PROVE Kept(r)
      BY DEF RowsStep
    <3>1. \/ rows'[r] = rows[r]
          \/ rows'[r] = P!NoRow
          \/ /\ rows[r].st = "failed" /\ rows'[r].st = "cancelled"
             /\ rows'[r].order = rows[r].order /\ rows'[r].sym = rows[r].sym
      BY <1>5, RetryStart
    <3>2. P!NoRow.order = P!None
      BY DEF P!NoRow
    <3>3. rows[r].st = "failed" => rows[r].order = P!None \/ ~P!ByUs(rows[r].order)
      BY DEF P!Single, P!Linked
    <3>4. buyBook' = buyBook
      BY <1>5 DEF P!StartRetry
    <3>. QED  BY <3>1, <3>2, <3>3, <3>4 DEF Kept, P!ByUs
  <2>4. P!Linked' /\ P!OneEach' /\ P!Lapsed' /\ P!Noticed'
    BY <1>1, <2>1, <2>2, <2>3, CalmStep
  <2>5. P!Careful' /\ P!InHands'
    BY <1>3, <2>2 DEF P!Careful, P!InHands, P!Placing
  <2>. QED  BY <2>4, <2>5 DEF P!Single
<1>6. CASE P!StartAdjust
  <2>1. Calm /\ rows' = rows /\ phase' = phase
    BY <1>6 DEF P!StartAdjust, Calm
  <2>2. /\ job'.task \in {"none", "adjust"} /\ job'.step = "next" /\ job'.order = P!None
        /\ job'.seen \subseteq P!Live /\ job'.blind = FALSE
    <3>1. job' = P!Ready \/ job' = [P!Ready EXCEPT !.task = "adjust", !.todo = P!Live, !.seen = P!Live]
      BY <1>6 DEF P!StartAdjust
    <3>2. /\ P!Ready \in P!JobType /\ P!Ready.step = "next" /\ P!Ready.order = P!None
          /\ P!Ready.seen = {} /\ P!Ready.task = "none" /\ P!Ready.blind = FALSE
      BY ReadyFields
    <3>. QED  BY <3>1, <3>2 DEF P!JobType
  <2>3. P!Linked' /\ P!OneEach' /\ P!Lapsed' /\ P!Noticed'
    BY <1>1, <1>2, <2>1, <2>2, KeptSame, CalmStep
  <2>4. P!Careful' /\ P!InHands'
    BY <2>2 DEF P!Careful, P!InHands, P!Placing
  <2>. QED  BY <2>3, <2>4 DEF P!Single
<1>7. ASSUME job' = job PROVE P!Careful' /\ P!InHands'
  BY <1>1, <1>7, CarefulReady DEF P!InHands, P!Placing
<1>8. CASE P!Analysis
  <2>1. Calm /\ rows' = rows /\ phase' = phase /\ job' = job
    BY <1>8 DEF P!Analysis, Calm
  <2>2. P!Linked' /\ P!OneEach' /\ P!Lapsed' /\ P!Noticed'
    BY <1>1, <2>1, KeptSame, CalmStep
  <2>. QED  BY <1>7, <2>1, <2>2 DEF P!Single
<1>9. CASE P!Clock
  <2>1. rows' = rows /\ job' = job /\ phase' \in {"open", "closed"}
    BY <1>9 DEF P!Clock
  <2>2. \A o \in P!Orders : /\ buyBook'[o].sym = buyBook[o].sym /\ buyBook'[o].by = buyBook[o].by
                            /\ buyBook'[o].st \in {buyBook[o].st, "lapsed"}
    BY <1>1, <1>9 DEF P!Clock, P!BookType
  <2>3. Fades
    BY <2>2 DEF Fades, P!ByUs
  <2>4. P!Linked' /\ P!OneEach'
    BY <2>1, <2>2, <2>3, KeptSame, SameFades, LinkedStays, OneEachStays DEF P!Single
  <2>5. P!Lapsed'
    <3>1. CASE phase' = "closed"
      <4>1. \A o \in P!Orders : buyBook'[o].st # "open"
        BY <1>1, <1>9, <3>1 DEF P!Clock, P!Live, P!BookType
      <4>. QED  BY <4>1 DEF P!Lapsed, P!Live
    <3>. QED  BY <3>1 DEF P!Lapsed
  <2>6. P!Noticed'
    <3>1. \A s : P!NoOrder(s) => P!NoOrder(s)'
      BY <2>3, NoOrderStays
    <3>2. \A r \in P!Rows : rows[r].order \in P!Orders \cup {P!None}
      BY <1>1 DEF P!RowType
    <3>3. \A r \in P!Rows : rows[r].order # P!None /\ buyBook'[rows[r].order].st = "filled"
                               => buyBook[rows[r].order].st = "filled"
      BY <2>2, <3>2
    <3>4. P!Unexposed({"manual"}) =>
             /\ \A o \in P!Orders : buyBook'[o].by = "system"
             /\ \A r \in P!Rows : rows[r].st = "pending" /\ rows[r].order # P!None
                                    /\ buyBook'[rows[r].order].st = "filled" => P!NoOrder(rows[r].sym)
             /\ \A s \in positions : P!NoOrder(s)
             /\ P!Unexposed({"noholdings"}) => \A s \in owned : P!NoOrder(s)
      BY <2>2, <3>3 DEF P!Single, P!Noticed
    <3>5. \A r \in P!Rows : P!NoOrder(rows[r].sym) => P!NoOrder(rows[r].sym)'
      BY <2>1, <3>1 DEF P!NoOrder, P!System, P!Live
    <3>. QED  BY <1>1, <2>1, <3>1, <3>4, <3>5 DEF P!Noticed, P!Unexposed
  <2>. QED  BY <1>7, <2>1, <2>4, <2>5, <2>6 DEF P!Single
<1>10. CASE P!Cleanup
  <2>1. job' = job /\ phase' = "pre" /\ P!Live = {}
    BY <1>10 DEF P!Cleanup, P!Single, P!Lapsed
  <2>2. \A r \in P!Rows : rows'[r].st # "pending"
    <3>1. P!NoRow.st = "none"
      BY DEF P!NoRow
    <3>. QED  BY <1>10, <3>1, CleanRows
  <2>3. \A o \in P!Orders : /\ buyBook'[o] = buyBook[o] \/ buyBook'[o] = P!NotSent
                            /\ (\E r \in P!Rows : rows'[r].order = o) => buyBook'[o] = buyBook[o]
    BY <1>10 DEF P!Cleanup
  <2>4. P!NotSent.st = "none" /\ P!NotSent.by = "system"
    BY DEF P!NotSent
  <2>5. \A o \in P!Orders : buyBook'[o].st # "open"
    BY <2>1, <2>3, <2>4 DEF P!Live
  <2>6. P!Live' = {} /\ \A s : P!NoOrder(s)'
    BY <2>5 DEF P!Live, P!NoOrder, P!System
  <2>7. P!Linked'
    <3>. SUFFICES ASSUME NEW r \in P!Rows, rows'[r].order # P!None
                  PROVE  /\ rows'[r].sym = buyBook'[rows'[r].order].sym
                         /\ buyBook'[rows'[r].order].st # "open"
      BY DEF P!Linked, P!ByUs
    <3>1. P!NoRow.order = P!None
      BY DEF P!NoRow
    <3>2. rows'[r].sym = rows[r].sym /\ rows'[r].order = rows[r].order
      BY <1>10, <3>1, CleanRows
    <3>3. rows[r].order \in P!Orders
      BY <1>1, <3>2 DEF P!RowType
    <3>. QED  BY <2>3, <2>5, <3>2, <3>3 DEF P!Single, P!Linked
  <2>8. P!OneEach' /\ P!Lapsed'
    BY <2>5, <2>6 DEF P!OneEach, P!Lapsed, P!ByUs
  <2>9. P!Noticed'
    <3>1. P!Unexposed({"manual"}) => \A o \in P!Orders : buyBook'[o].by = "system"
      BY <2>3, <2>4 DEF P!Single, P!Noticed
    <3>. QED  BY <1>1, <2>1, <2>2, <2>6, <3>1 DEF P!Noticed, P!Unexposed
  <2>. QED  BY <1>7, <2>1, <2>7, <2>8, <2>9 DEF P!Single
<1>. QED  BY <1>4, <1>5, <1>6, <1>8, <1>9, <1>10

LEMMA OthersSingle ==
    ASSUME P!PlacementAssumption, P!Typed, P!Typed', P!SingleScene, P!Single, allowed' = allowed,
           P!Others
    PROVE  P!Single'
<1>1. /\ job \in P!JobType /\ P!Works /\ rows \in [P!Rows -> P!RowType]
      /\ buyBook \in [P!Orders -> P!BookType] /\ job.seen \subseteq P!Orders
      /\ job.order \in P!Orders \cup {P!None}
      /\ \A r \in P!Rows : rows[r].order \in P!Orders \cup {P!None}
  BY DEF P!Typed, P!Tables, P!Sheets, P!BookWell, P!JobWell, P!JobType, P!RowType
<1>2. ASSUME Calm, RowsStep({}), job' = job, phase' = phase, positions' \subseteq positions,
             owned' \subseteq owned
      PROVE  P!Single'
  <2>1. P!Linked' /\ P!OneEach' /\ P!Lapsed' /\ P!Noticed'
    BY <1>2, CalmStep
  <2>2. P!Careful'
    BY <1>2, CalmFades, CarefulStays DEF P!Single, P!Careful
  <2>3. P!InHands'
    BY <1>1, <1>2 DEF P!Single, P!InHands, Calm, P!Works
  <2>. QED  BY <2>1, <2>2, <2>3 DEF P!Single
<1>3. ASSUME NEW s \in Symbols, P!Sale(s) \/ P!Decide(s) PROVE P!Single'
  <2>1. /\ Calm /\ rows' = rows /\ job' = job /\ phase' = phase
        /\ positions' \subseteq positions /\ owned' \subseteq owned
    BY <1>3 DEF P!Sale, P!Decide, Calm
  <2>. QED  BY <1>2, <2>1, KeptSame
<1>4. ASSUME NEW r \in P!Rows, P!Drop(r) PROVE P!Single'
  <2>1. /\ Calm /\ job' = job /\ phase' = phase /\ positions' = positions /\ owned' = owned
        /\ rows[r].st = "failed" /\ rows' = [rows EXCEPT ![r].st = "cancelled"] /\ buyBook' = buyBook
    BY <1>4 DEF P!Drop, P!Settle, Calm
  <2>2. rows[r].order = P!None \/ ~Waits(rows[r].order)
    BY <2>1 DEF P!Single, P!Linked, Waits, P!ByUs
  <2>. QED  BY <1>2, <2>1, <2>2, KeptStatus
<1>5. ASSUME NEW o \in P!Orders, P!Reject(o) PROVE P!Single'
  <2>1. /\ Calm /\ rows' = rows /\ job' = job /\ phase' = phase /\ positions' = positions
        /\ owned' = owned
    BY <1>1, <1>5 DEF P!Reject, Calm, P!BookType
  <2>. QED  BY <1>2, <2>1, KeptSame
<1>6. CASE P!Crash
  <2>1. /\ Calm /\ job' = P!Ready /\ phase' = phase /\ positions' = positions /\ owned' = owned
    BY <1>6 DEF P!Crash, Calm
  <2>2. job'.seen = {} /\ job'.order = P!None /\ job'.step = "next"
    BY <2>1, ReadyFields
  <2>3. RowsStep({})
    <3>1. CASE rows' = P!Tidy(rows, P!Ready)
      BY <3>1, KeptTidy
    <3>2. CASE job.step = "funds" /\ P!SpareRows # {} /\ rows' = P!Created(job.sym, P!None)
      <4>1. job.sym \in Symbols
        BY <1>1, <3>2 DEF P!Works, P!Placing
      <4>. QED  BY <3>2, <4>1, KeptCreated, PlacementSets
    <3>. QED  BY <1>6, <3>1, <3>2 DEF P!Crash
  <2>4. P!Linked' /\ P!OneEach' /\ P!Lapsed' /\ P!Noticed'
    BY <2>1, <2>2, <2>3, CalmStep
  <2>5. P!Careful' /\ P!InHands'
    BY <2>1, <2>2, CarefulReady DEF P!InHands, P!Placing
  <2>. QED  BY <2>4, <2>5 DEF P!Single
<1>7. ASSUME NEW s \in Symbols, P!ManualOrder(s) PROVE P!Single'
  <2>1. /\ rows' = rows /\ job' = job /\ phase' = phase /\ positions' = positions /\ owned' = owned
        /\ phase # "closed" /\ P!Happens("manual")
    BY <1>7 DEF P!ManualOrder
  <2>2. ~P!Unexposed({"manual"})'
    BY <2>1 DEF P!Unexposed, P!Happens
  <2>3. /\ P!FreeOrder \in P!Orders /\ P!FreeOrder # job.order /\ P!FreeOrder \notin job.seen
        /\ \A r \in P!Rows : rows[r].order # P!FreeOrder
        /\ buyBook'[P!FreeOrder].st = "open" /\ buyBook'[P!FreeOrder].by = "user"
        /\ \A o \in P!Orders : o # P!FreeOrder => buyBook'[o] = buyBook[o]
    BY <1>1, <1>7, FreeNumber DEF P!ManualOrder
  <2>4. Fades
    BY <2>3 DEF Fades, P!ByUs
  <2>5. SameOrders
    BY <1>1, <2>1, <2>3 DEF SameOrders, P!ByUs
  <2>6. P!Linked' /\ P!OneEach' /\ P!Lapsed'
    BY <2>1, <2>4, <2>5, KeptSame, LinkedStays, OneEachStays DEF P!Single, P!Lapsed
  <2>7. P!Careful'
    BY <2>1, <2>4, CarefulStays DEF P!Single, P!Careful
  <2>8. P!InHands'
    BY <1>1, <2>1, <2>3 DEF P!Single, P!InHands, P!Works
  <2>9. P!Noticed'
    BY <1>1, <2>1, <2>2, <2>3 DEF P!Single, P!Noticed
  <2>. QED  BY <2>6, <2>7, <2>8, <2>9 DEF P!Single
<1>8. ASSUME phase = "open" PROVE ~P!Buying /\ job.task \notin {"adjust", "buys"}
  BY <1>1, <1>8 DEF P!Works, P!Buying
<1>9. ASSUME NEW r \in P!Rows, P!Learn(r) PROVE P!Single'
  <2>1. /\ phase = "open" /\ phase' = phase /\ job' = job /\ buyBook' = buyBook /\ owned' = owned
    BY <1>9 DEF P!Learn
  <2>. DEFINE s == rows[r].sym
  <2>2. /\ rows[r].st = "pending" /\ rows[r].order \in P!Orders
        /\ \A q \in P!Rows : q # r => rows'[q] = rows[q]
        /\ \/ /\ buyBook[rows[r].order].st = "filled" /\ rows'[r] = P!NoRow
              /\ positions' = positions \cup {s}
           \/ /\ buyBook[rows[r].order].st \in {"rejected", "cancelled"}
              /\ rows'[r].sym = s /\ rows'[r].order = rows[r].order
              /\ rows'[r].st \in {"failed", "cancelled"} /\ positions' = positions
    BY <1>9, LearnRows
  <2>3. P!NoRow.order = P!None /\ P!None \notin P!Orders
    BY PlacementSets DEF P!NoRow
  <2>4. RowsStep({})
    BY <2>1, <2>2, <2>3 DEF RowsStep, Kept, P!ByUs
  <2>5. Fades /\ SameOrders
    BY <2>1, BookUntouched
  <2>6. P!Linked' /\ P!OneEach' /\ P!Lapsed'
    BY <2>1, <2>4, <2>5, LinkedStays, OneEachStays DEF P!Single, P!Lapsed
  <2>7. P!Careful' /\ P!InHands'
    BY <1>8, <2>1 DEF P!Single, P!Careful, P!InHands, P!Buying, P!Unexposed
  <2>8. P!Noticed'
    <3>1. \A x : P!NoOrder(x)' <=> P!NoOrder(x)
      BY <2>1 DEF P!NoOrder, P!System, P!Live
    <3>2. P!Unexposed({"manual"}) =>
             /\ \A o \in P!Orders : buyBook[o].by = "system"
             /\ \A x \in positions' : P!NoOrder(x)
             /\ P!Unexposed({"noholdings"}) => \A x \in owned : P!NoOrder(x)
      BY <2>2, <2>3 DEF P!Single, P!Noticed
    <3>3. ASSUME P!Unexposed({"manual"}), NEW q \in P!Rows, rows'[q].st = "pending",
                 rows'[q].order # P!None, buyBook[rows'[q].order].st = "filled"
          PROVE  P!NoOrder(rows[q].sym) /\ rows'[q] = rows[q]
      <4>1. q # r
        BY <2>2, <2>3, <3>3
      <4>. QED  BY <2>2, <3>3, <4>1 DEF P!Single, P!Noticed
    <3>4. \A q \in P!Rows : rows'[q] = rows[q] /\ P!NoOrder(rows[q].sym) => P!NoOrder(rows[q].sym)'
      BY <2>1 DEF P!NoOrder, P!System, P!Live
    <3>. QED  BY <2>1, <3>1, <3>2, <3>3, <3>4 DEF P!Noticed, P!Unexposed
  <2>. QED  BY <2>6, <2>7, <2>8 DEF P!Single
<1>10. ASSUME NEW o \in P!Orders, P!Fill(o) PROVE P!Single'
  <2>1. /\ phase = "open" /\ phase' = phase /\ job' = job /\ rows' = rows /\ positions' = positions
        /\ buyBook[o].st = "open" /\ owned' = owned \cup {buyBook[o].sym}
    BY <1>10 DEF P!Fill, P!Live
  <2>2. /\ buyBook'[o].st = "filled" /\ buyBook'[o].sym = buyBook[o].sym
        /\ buyBook'[o].by = buyBook[o].by
        /\ \A p \in P!Orders : p # o => buyBook'[p] = buyBook[p]
    BY <1>1, <1>10 DEF P!Fill, P!BookType
  <2>3. Fades
    BY <2>2 DEF Fades, P!ByUs
  <2>4. P!Linked' /\ P!OneEach' /\ P!Lapsed'
    BY <2>1, <2>2, <2>3, KeptSame, SameFades, LinkedStays, OneEachStays DEF P!Single, P!Lapsed
  <2>5. P!Careful' /\ P!InHands'
    BY <1>1, <1>8, <2>1, <2>2
       DEF P!Single, P!Careful, P!InHands, P!Buying, P!Unexposed, P!Works, P!Placing
  <2>6. P!Noticed'
    <3>1. \A x : P!NoOrder(x) => P!NoOrder(x)'
      BY <2>3, NoOrderStays
    <3>2. \A x : P!NoOrder(x)' <=> \A p \in P!Orders : ~(/\ buyBook'[p].st = "open"
                                                        /\ buyBook'[p].by = "system"
                                                        /\ buyBook'[p].sym = x)
      BY DEF P!NoOrder, P!System, P!Live
    <3>3. P!Unexposed({"manual"}) => \A x : x = buyBook[o].sym => P!NoOrder(x)'
      BY <2>1, <2>2, <3>2 DEF P!Single, P!OneEach, P!ByUs, P!Noticed
    <3>4. ASSUME P!Unexposed({"manual"}), NEW q \in P!Rows, rows[q].st = "pending",
                 rows[q].order # P!None, buyBook'[rows[q].order].st = "filled"
          PROVE  P!NoOrder(rows[q].sym)'
      <4>1. P!NoOrder(rows[q].sym)' <=> \A p \in P!Orders : ~(/\ buyBook'[p].st = "open"
                                                        /\ buyBook'[p].by = "system"
                                                        /\ buyBook'[p].sym = rows[q].sym)
        BY <2>1 DEF P!NoOrder, P!System, P!Live
      <4>2. CASE rows[q].order = o
        BY <2>1, <2>2, <3>4, <4>1, <4>2 DEF P!Single, P!Linked, P!OneEach, P!ByUs, P!Noticed
      <4>3. CASE rows[q].order # o
        <5>1. P!NoOrder(rows[q].sym)
          BY <1>1, <2>2, <3>4, <4>3 DEF P!Single, P!Noticed
        <5>. QED  BY <2>2, <4>1, <5>1, NoOrderMeans DEF P!ByUs
      <4>. QED  BY <4>2, <4>3
    <3>5. P!Unexposed({"manual"}) =>
             /\ \A p \in P!Orders : buyBook'[p].by = "system"
             /\ \A x \in positions : P!NoOrder(x)'
             /\ P!Unexposed({"noholdings"}) => \A x \in owned' : P!NoOrder(x)'
      BY <2>1, <2>2, <3>1, <3>3 DEF P!Single, P!Noticed
    <3>. QED  BY <2>1, <3>4, <3>5 DEF P!Noticed, P!Unexposed
  <2>. QED  BY <2>4, <2>5, <2>6 DEF P!Single
<1>. QED  BY <1>3, <1>4, <1>5, <1>6, <1>7, <1>9, <1>10 DEF P!Others

LEMMA PlacementSingle ==
    ASSUME P!PlacementAssumption, P!Typed, P!Typed', P!SingleInv, [P!Next]_(P!vars)
    PROVE  P!SingleInv'
<1>1. CASE P!Next
  <2>1. allowed' = allowed /\ (P!Tasks \/ P!Others)
    BY <1>1 DEF P!Next, P!Keep
  <2>2. SUFFICES ASSUME P!SingleScene PROVE P!Single'
    BY <2>1 DEF P!SingleInv, P!SingleScene, P!Unexposed
  <2>3. P!Single
    BY <2>2 DEF P!SingleInv
  <2>4. CASE P!Proceed
    BY <2>1, <2>2, <2>3, <2>4, EntriesSingle, RetriesSingle, PlacingSingle, PremarketSingle
       DEF P!Proceed
  <2>. QED  BY <2>1, <2>2, <2>3, <2>4, TasksSingle, OthersSingle DEF P!Tasks
<1>2. CASE UNCHANGED P!vars
  <2>1. /\ UNCHANGED <<rows, buyBook, owned, positions, phase, job, allowed>>
    BY <1>2 DEF P!vars
  <2>. QED
    BY <2>1 DEF P!SingleInv, P!SingleScene, P!Single, P!Unexposed, P!Linked, P!InHands, P!OneEach,
                P!Lapsed, P!Careful, P!Noticed, P!ByUs, P!NoOrder, P!System, P!Live, P!Buying
<1>. QED  BY <1>1, <1>2

\* The types and what keeps orders apart, in every state.
LEMMA PlacementHolds ==
    ASSUME P!PlacementAssumption PROVE P!Spec => [](P!Typed /\ P!SingleInv)
<1>1. P!Init => P!Typed /\ P!SingleInv
  <2>. SUFFICES ASSUME P!Init PROVE P!Typed /\ P!SingleInv
    OBVIOUS
  <2>1. P!Typed
    BY PlacementInit
  <2>2. P!NoRow.order = P!None /\ P!NotSent.st = "none" /\ P!NotSent.by = "system"
    BY DEF P!NoRow, P!NotSent
  <2>3. /\ \A r \in P!Rows : rows[r].order = P!None
        /\ \A o \in P!Orders : buyBook[o].st # "open" /\ buyBook[o].by = "system"
        /\ owned = {} /\ positions = {} /\ phase = "pre"
    BY <2>2 DEF P!Init
  <2>4. /\ job.task = "none" /\ job.step = "next" /\ job.seen = {} /\ job.order = P!None
        /\ job.blind = FALSE
    BY ReadyFields DEF P!Init
  <2>5. P!Linked /\ P!InHands /\ P!OneEach /\ P!Lapsed
    BY <2>3, <2>4 DEF P!Linked, P!InHands, P!OneEach, P!Lapsed, P!ByUs, P!Placing
  <2>6. P!Careful /\ P!Noticed
    BY <2>3, <2>4 DEF P!Careful, P!Noticed, P!Buying
  <2>. QED  BY <2>1, <2>5, <2>6 DEF P!SingleInv, P!Single
<1>2. (P!Typed /\ P!SingleInv) /\ [P!Next]_(P!vars) => (P!Typed /\ P!SingleInv)'
  BY PlacementStep, PlacementSingle
<1>. QED  BY <1>1, <1>2, PTL DEF P!Spec

\* However entries, retries, crashes, losses and rejections follow each other: no symbol has two
\* orders of the system, nor one beside its position or beside shares the account owns, unless a
\* report or a cancellation fails (or the user buys as well, or the holdings cannot be read).
\* For any symbols, any limit and any number of orders and rows.
THEOREM OneOrderCorrect == ASSUME P!PlacementAssumption PROVE P!Spec => []P!OnePerSymbol
<1>1. P!Typed /\ P!SingleInv => P!OnePerSymbol
  <2>. SUFFICES ASSUME P!Typed, P!SingleInv, P!Unexposed({"noreport", "nocancel"}),
                       NEW s \in Symbols
                PROVE  P!OneOrder(s)
    BY DEF P!OnePerSymbol
  <2>1. P!Single
    BY DEF P!SingleInv, P!SingleScene
  <2>2. P!Cardinality(P!System(s)) <= 1
    <3>1. ASSUME NEW o \in P!System(s) PROVE P!System(s) = {o}
      BY <2>1, <3>1 DEF P!Single, P!OneEach, P!System, P!Live, P!ByUs
    <3>2. Cardinality(P!System(s)) <= 1
      <4>1. CASE P!System(s) = {}
        BY <4>1, FS_EmptySet
      <4>2. ASSUME NEW o \in P!System(s) PROVE Cardinality(P!System(s)) <= 1
        <5>1. P!System(s) = {o}
          BY <3>1, <4>2
        <5>2. Cardinality({o}) = 1
          BY FS_Singleton
        <5>. QED  BY <5>1, <5>2
      <4>. QED  BY <4>1, <4>2
    <3>3. P!Cardinality(P!System(s)) = Cardinality(P!System(s))
      BY DEF P!Cardinality, Cardinality
    <3>. QED  BY <3>2, <3>3
  <2>3. P!Unexposed({"manual"}) => P!System(s) = {} \/ s \notin positions
    BY <2>1 DEF P!Single, P!Noticed, P!NoOrder
  <2>4. P!Unexposed({"manual", "noholdings"}) => P!System(s) = {} \/ s \notin owned
    BY <2>1 DEF P!Single, P!Noticed, P!NoOrder, P!Unexposed
  <2>. QED  BY <2>2, <2>3, <2>4 DEF P!OneOrder
<1>. QED  BY <1>1, PlacementHolds, PTL

-----------------------------------------------------------------------------
(* Rows, signals and the limit: what the steps do *)

LEMMA PendingMeans ==
    ASSUME NEW rs, NEW s
    PROVE  P!Pending(rs, s) <=> \E r \in P!Rows : rs[r].sym = s /\ rs[r].st = "pending"
  BY DEF P!Pending, P!RowsOf

\* Only symbols of X get a pending row.
RowsRise(X) == \A s \in Symbols : P!Pending(rows', s) => P!Pending(rows, s) \/ s \in X

\* A signal does not stay traded without its pending row, unless there was a purchase.
RowsShow ==
    \A s \in Symbols : P!Pending(rows, s) =>
        P!Pending(rows', s) \/ s \in bought' \/ signal'[s].user # "traded"

\* The row of an order that waits stays pending.
RowsHold ==
    \A r \in P!Rows : rows[r].st = "pending" /\ rows[r].order \in P!Orders /\ Waits(rows[r].order)
        => rows'[r].st = "pending" /\ rows'[r].order = rows[r].order

\* Only rows of F fail, and only orders of F are rejected.
RowsFail(F) ==
    \A r \in P!Rows : rows'[r].st = "failed" =>
        \/ rows'[r].sym \in F
        \/ \E q \in P!Rows : rows[q].st = "failed" /\ rows[q].sym = rows'[r].sym
Rejects(F) ==
    \A o \in P!Orders : buyBook'[o].st = "rejected" =>
        \/ buyBook'[o].sym \in F
        \/ \E p \in P!Orders : buyBook[p].st = "rejected" /\ buyBook[p].sym = buyBook'[o].sym

\* The rows there are keep their symbols.
RowsName == \A r \in P!Rows : P!Retried(r) => rows'[r].sym = rows[r].sym

\* No signal becomes a traded one.
SignalsSink ==
    \A s \in Symbols : /\ signal[s].base # "none" => signal'[s].base # "none"
                       /\ signal'[s].user = "traded" => signal[s].user = "traded"

LEMMA SameEffect ==
    ASSUME rows' = rows
    PROVE  RowsRise({}) /\ RowsShow /\ RowsHold /\ RowsFail({}) /\ RowsName
  BY DEF RowsRise, RowsShow, RowsHold, RowsFail, RowsName

LEMMA SameSignals == ASSUME signal' = signal PROVE SignalsSink
  BY DEF SignalsSink

\* After a row changed, the traded signal of its symbol has another pending row, or fails.
LEMMA SignalsEffect ==
    ASSUME P!Typed, NEW rs, NEW S, signal' = P!SignalsAfter(rs, S)
    PROVE  /\ SignalsSink
           /\ \A s \in Symbols : s \in S /\ ~P!Pending(rs, s) => signal'[s].user # "traded"
<1>1. signal \in [Symbols -> P!SignalType]
  BY DEF P!Typed, P!Tables, P!Sheets
<1>2. \A s \in Symbols : signal'[s] = IF s \in S /\ P!Spent(rs, s)
                                      THEN [signal[s] EXCEPT !.user = "failed"] ELSE signal[s]
  BY DEF P!SignalsAfter
<1>3. \A s \in Symbols : /\ [signal[s] EXCEPT !.user = "failed"].base = signal[s].base
                         /\ [signal[s] EXCEPT !.user = "failed"].user = "failed"
  BY <1>1 DEF P!SignalType
<1>. QED  BY <1>2, <1>3 DEF SignalsSink, P!Spent

\* A row whose order does not wait, or that is not pending, gets its status.
LEMMA StatusEffect ==
    ASSUME P!Typed, P!PlacementAssumption, NEW f \in P!Rows, rows[f].st # "none",
           NEW st \in {"failed", "cancelled"}, P!Settle(f, st),
           rows[f].st = "pending" => rows[f].order \notin P!Orders \/ ~Waits(rows[f].order)
    PROVE  /\ RowsRise({}) /\ RowsShow /\ RowsHold /\ RowsName /\ SignalsSink
           /\ RowsFail({rows[f].sym}) /\ (st = "cancelled" => RowsFail({}))
<1>1. rows' = [rows EXCEPT ![f].st = st] /\ signal' = P!SignalsAfter(rows', {rows[f].sym})
  BY DEF P!Settle
<1>2. /\ \A r \in P!Rows : r # f => rows'[r] = rows[r]
      /\ rows'[f].st = st /\ rows'[f].sym = rows[f].sym /\ rows'[f].order = rows[f].order
  BY <1>1, OneStatus
<1>3. RowsRise({})
  BY <1>2, PendingMeans DEF RowsRise
<1>4. /\ SignalsSink
      /\ ~P!Pending(rows', rows[f].sym) /\ rows[f].sym \in Symbols
             => signal'[rows[f].sym].user # "traded"
  BY <1>1, SignalsEffect
<1>5. \A s \in Symbols : s # rows[f].sym /\ P!Pending(rows, s) => P!Pending(rows', s)
  BY <1>2, PendingMeans
<1>6. RowsShow
  BY <1>4, <1>5 DEF RowsShow
<1>7. RowsHold
  BY <1>2 DEF RowsHold
<1>8. RowsName
  BY <1>2 DEF RowsName
<1>9. RowsFail({rows[f].sym}) /\ (st = "cancelled" => RowsFail({}))
  BY <1>2 DEF RowsFail
<1>. QED  BY <1>3, <1>4, <1>6, <1>7, <1>8, <1>9

\* create_amo leaves all rows there are, and a pending one.
LEMMA CreatedEffect ==
    ASSUME P!Typed, P!PlacementAssumption, NEW s \in Symbols, NEW o \in P!Orders \cup {P!None},
           P!SpareRows # {}, rows' = P!Created(s, o)
    PROVE  /\ RowsRise({s}) /\ RowsShow /\ RowsHold /\ RowsFail({}) /\ RowsName
           /\ P!Pending(rows', s)
           /\ \A r \in P!Rows : rows[r].st # "none" => rows'[r] = rows[r]
           /\ ~P!Pending(rows, s) =>
                  \E r \in P!Rows : rows'[r].st = "pending" /\ rows'[r].order = o
<1>1. rows \in [P!Rows -> P!RowType]
  BY DEF P!Typed, P!Tables, P!Sheets
<1>2. CASE rows' = rows /\ P!Pending(rows, s)
  BY <1>2, SameEffect DEF RowsRise
<1>3. ASSUME NEW f \in P!Rows, rows[f] = P!NoRow, rows' = [rows EXCEPT ![f] = P!NewRow(s, o)]
      PROVE  /\ RowsRise({s}) /\ RowsShow /\ RowsHold /\ RowsFail({}) /\ RowsName
             /\ P!Pending(rows', s)
             /\ \A r \in P!Rows : rows[r].st # "none" => rows'[r] = rows[r]
             /\ \E r \in P!Rows : rows'[r].st = "pending" /\ rows'[r].order = o
  <2>1. P!NewRow(s, o).sym = s /\ P!NewRow(s, o).st = "pending" /\ P!NewRow(s, o).order = o
    BY NewRowFields
  <2>2. P!NoRow.st = "none"
    BY DEF P!NoRow
  <2>3. /\ \A r \in P!Rows : r # f => rows'[r] = rows[r]
        /\ rows'[f].sym = s /\ rows'[f].st = "pending" /\ rows'[f].order = o /\ rows[f].st = "none"
    BY <1>1, <1>3, <2>1, <2>2
  <2>4. RowsRise({s}) /\ P!Pending(rows', s)
    BY <2>3, PendingMeans DEF RowsRise
  <2>5. RowsShow
    BY <2>3, PendingMeans DEF RowsShow
  <2>6. RowsHold /\ RowsFail({}) /\ RowsName
    BY <2>3 DEF RowsHold, RowsFail, RowsName, P!Retried
  <2>. QED  BY <2>3, <2>4, <2>5, <2>6
<1>. QED  BY <1>2, <1>3, CreatedRow

\* _add_failed_order: where no order waits for a pending row of the symbol, nothing is lost.
LEMMA FailedEffect ==
    ASSUME P!Typed, P!PlacementAssumption, NEW s \in Symbols, P!AddFailed(s),
           \A p \in P!Rows : rows[p].sym = s /\ rows[p].st = "pending"
                                => rows[p].order \notin P!Orders \/ ~Waits(rows[p].order)
    PROVE  RowsRise({}) /\ RowsShow /\ RowsHold /\ RowsFail({s}) /\ RowsName /\ SignalsSink
<1>1. rows \in [P!Rows -> P!RowType] /\ signal' = P!SignalsAfter(rows', {s})
  BY DEF P!Typed, P!Tables, P!Sheets, P!AddFailed
<1>2. SignalsSink /\ (~P!Pending(rows', s) => signal'[s].user # "traded")
  BY <1>1, SignalsEffect
<1>3. CASE rows' = rows
  BY <1>2, <1>3, SameEffect DEF RowsFail
<1>4. ASSUME NEW f \in P!Rows, rows[f] = P!NoRow, rows' = [rows EXCEPT ![f] = P!FailedRow(s)]
      PROVE  RowsRise({}) /\ RowsShow /\ RowsHold /\ RowsFail({s}) /\ RowsName
  <2>1. P!FailedRow(s).sym = s /\ P!FailedRow(s).st = "failed"
    BY NewRowFields DEF P!None
  <2>2. P!NoRow.st = "none"
    BY DEF P!NoRow
  <2>3. /\ \A r \in P!Rows : r # f => rows'[r] = rows[r]
        /\ rows'[f].sym = s /\ rows'[f].st = "failed" /\ rows[f].st = "none"
    BY <1>1, <1>4, <2>1, <2>2
  <2>4. RowsRise({}) /\ RowsShow
    BY <2>3, PendingMeans DEF RowsRise, RowsShow
  <2>. QED  BY <2>3, <2>4 DEF RowsHold, RowsFail, RowsName, P!Retried
<1>5. ASSUME NEW p \in P!Rows, rows[p].sym = s, rows[p].st = "pending",
             rows' = [rows EXCEPT ![p].st = "failed"]
      PROVE  RowsRise({}) /\ RowsShow /\ RowsHold /\ RowsFail({s}) /\ RowsName
  <2>1. /\ \A r \in P!Rows : r # p => rows'[r] = rows[r]
        /\ rows'[p].st = "failed" /\ rows'[p].sym = s /\ rows'[p].order = rows[p].order
    BY <1>5, OneStatus
  <2>2. RowsRise({})
    BY <2>1, PendingMeans DEF RowsRise
  <2>3. \A x \in Symbols : x # s /\ P!Pending(rows, x) => P!Pending(rows', x)
    BY <1>5, <2>1, PendingMeans
  <2>4. RowsShow
    BY <1>2, <2>3 DEF RowsShow
  <2>. QED  BY <1>5, <2>1, <2>2, <2>4 DEF RowsHold, RowsFail, RowsName
<1>. QED  BY <1>2, <1>3, <1>4, <1>5, AddFailedRow

LEMMA TidyEffect ==
    ASSUME P!Typed, P!PlacementAssumption, NEW j, rows' = P!Tidy(rows, j)
    PROVE  RowsRise({}) /\ RowsShow /\ RowsHold /\ RowsFail({})
<1>. DEFINE t == P!Tidy(rows, j)
<1>1. \A r \in P!Rows : t[r] = rows[r] \/ (t[r] = P!NoRow /\ rows[r].st = "cancelled")
  BY TidyRows DEF P!Typed, P!Tables, P!Sheets
<1>2. P!NoRow.st = "none"
  BY DEF P!NoRow
<1>. HIDE DEF t
<1>3. \A r \in P!Rows : rows'[r] = rows[r] \/ (rows'[r].st = "none" /\ rows[r].st = "cancelled")
  BY <1>1, <1>2 DEF t
<1>4. RowsRise({}) /\ RowsShow
  BY <1>3, PendingMeans DEF RowsRise, RowsShow
<1>. QED  BY <1>3, <1>4 DEF RowsHold, RowsFail

\* The same formula in two forms.
LEMMA PendingNext == \A s : P!Pending(rows, s)' <=> P!Pending(rows', s)
  BY DEF P!Pending, P!RowsOf

-----------------------------------------------------------------------------
(* What each part needs of a step *)

LEMMA QuietStays ==
    ASSUME P!Quiet, NEW X, RowsRise(X),
           phase' = "pre" /\ ~done'["buys"] =>
               phase = "pre" /\ ~done["buys"] /\ (P!Buying \/ (X = {} /\ ~P!Buying')),
           job'.task = "buys" =>
               job.task = "buys" /\ \A s \in Symbols : s \in job'.todo => s \in job.todo /\ s \notin X,
           job'.step \in {"funds", "accepted", "traded"} /\ P!Buying' => ~P!Pending(rows', job'.sym)
    PROVE  P!Quiet'
<1>1. phase' = "pre" /\ ~done'["buys"] => ~P!Buying' /\ \A s \in Symbols : ~P!Pending(rows', s)
  BY DEF P!Quiet, RowsRise
<1>2. job'.task = "buys" => \A s \in Symbols \cap job'.todo : ~P!Pending(rows', s)
  BY DEF P!Quiet, RowsRise
<1>3. job'.step \in {"funds", "accepted", "traded"} /\ P!Buying' => ~P!Pending(rows, job.sym)'
  BY PendingMeans DEF P!Pending, P!RowsOf
<1>. QED  BY <1>1, <1>2, <1>3, PendingNext DEF P!Quiet

LEMMA FollowedStays ==
    ASSUME P!Followed, RowsHold,
           \A o \in P!Orders : P!ByUs(o)' =>
               P!ByUs(o) \/ (job'.order = o /\ job'.step \in {"accepted", "traded"}),
           job.step \in {"accepted", "traded"} =>
               \/ job'.order = job.order /\ job'.step \in {"accepted", "traded"}
               \/ \E r \in P!Rows : rows'[r].st = "pending" /\ rows'[r].order = job.order
    PROVE  P!Followed'
<1>. SUFFICES ASSUME NEW o \in P!Orders, P!ByUs(o)'
              PROVE  \/ \E r \in P!Rows : rows'[r].st = "pending" /\ rows'[r].order = o
                     \/ job'.order = o /\ job'.step \in {"accepted", "traded"}
  BY DEF P!Followed
<1>1. CASE job'.order = o /\ job'.step \in {"accepted", "traded"}
  BY <1>1
<1>2. CASE P!ByUs(o) /\ job.order = o /\ job.step \in {"accepted", "traded"}
  BY <1>2
<1>3. ASSUME NEW r \in P!Rows, rows[r].st = "pending", rows[r].order = o
      PROVE  rows'[r].st = "pending" /\ rows'[r].order = o
  BY <1>3 DEF RowsHold, Waits, P!ByUs
<1>. QED  BY <1>1, <1>2, <1>3 DEF P!Followed

LEMMA ExplainedStays ==
    ASSUME P!Explained, RowsShow, bought \subseteq bought', positions' \subseteq positions \cup bought',
           job'.step # "gone",
           \A s \in Symbols : signal[s].base # "none" => signal'[s].base # "none",
           \A s \in Symbols : signal'[s].user = "traded" =>
               \/ signal[s].user = "traded"
               \/ s \in bought'
               \/ job'.sym = s /\ job'.step = "traded",
           job'.task = "preview" =>
               \A s \in Symbols : s \in job'.todo => signal'[s].user # "traded",
           job.step = "traded" =>
               \/ job'.step = "traded" /\ job'.sym = job.sym
               \/ P!Pending(rows', job.sym)
    PROVE  P!Explained'
<1>1. \A s \in Symbols : signal'[s].user = "traded" =>
         P!Pending(rows', s) \/ s \in bought' \/ (job'.sym = s /\ job'.step = "traded")
  BY DEF P!Explained, RowsShow
<1>. QED  BY <1>1, PendingNext DEF P!Explained

\* The symbols with trouble stay the same, or the one failure there is befalls one.
LEMMA TroubleStays ==
    ASSUME P!OneTrouble, P!OneFailure, faults \subseteq allowed, faults \subseteq faults',
           NEW F, RowsFail(F), Rejects(F),
           \A r \in P!Rows : P!Retryable(r)' =>
               rows'[r].sym = rows[r].sym /\ (rows[r].st = "failed" \/ P!Retryable(r)),
           \/ \A s \in Symbols : s \in F => P!Troubled(s)
           \/ /\ \E k \in P!Failures : P!Happens(k)
              /\ \A s, t \in F : s = t
    PROVE  P!OneTrouble'
<1>1. \A s \in Symbols : P!Troubled(s)' => P!Troubled(s) \/ s \in F
  BY DEF P!Troubled, RowsFail, Rejects
<1>2. CASE \A s \in Symbols : s \in F => P!Troubled(s)
  BY <1>1, <1>2 DEF P!OneTrouble
<1>3. ASSUME NEW k \in P!Failures, P!Happens(k), \A s, t \in F : s = t
      PROVE  P!OneTrouble'
  <2>1. /\ k \in allowed /\ k \notin faults /\ k \in faults'
    BY <1>3 DEF P!Happens
  <2>2. faults \cap P!Failures = {}
    BY <1>3, <2>1 DEF P!OneFailure
  <2>3. \A s \in Symbols : P!Troubled(s)' => s \in F
    BY <1>1, <2>2 DEF P!OneTrouble
  <2>. QED  BY <1>3, <2>1, <2>3 DEF P!OneTrouble, P!Failures
<1>. QED  BY <1>2, <1>3

\* Less fits where more does, and one more where there is capacity.
LEMMA FitsLess ==
    ASSUME P!PlacementAssumption, NEW S \in SUBSET Symbols, NEW T \in SUBSET S, P!Fits(S)
    PROVE  P!Fits(T)
<1>1. IsFiniteSet(Symbols)
  <2>1. P!IsFiniteSet(Symbols)
    BY DEF P!PlacementAssumption
  <2>2. P!IsFiniteSet(Symbols) <=> IsFiniteSet(Symbols)
    BY DEF P!IsFiniteSet, IsFiniteSet
  <2>. QED  BY <2>1, <2>2
<1>2. IsFiniteSet(S) /\ IsFiniteSet(T) /\ Cardinality(T) <= Cardinality(S)
  BY <1>1, FS_Subset
<1>3. Cardinality(S) \in Nat /\ Cardinality(T) \in Nat
  BY <1>2, FS_CardinalityType
<1>4. P!Cardinality(S) = Cardinality(S) /\ P!Cardinality(T) = Cardinality(T)
  BY DEF P!Cardinality, Cardinality
<1>5. MaxPositions \in Nat
  BY DEF P!PlacementAssumption
<1>. QED  BY <1>2, <1>3, <1>4, <1>5 DEF P!Fits

LEMMA FitsMore ==
    ASSUME P!PlacementAssumption, P!HasCapacity, NEW s \in Symbols
    PROVE  P!Fits(P!InFlight \cup {s})
<1>. DEFINE S == P!InFlight
<1>1. IsFiniteSet(S)
  <2>1. P!IsFiniteSet(Symbols)
    BY DEF P!PlacementAssumption
  <2>2. P!IsFiniteSet(Symbols) <=> IsFiniteSet(Symbols)
    BY DEF P!IsFiniteSet, IsFiniteSet
  <2>3. S \subseteq Symbols
    BY DEF P!InFlight
  <2>. QED  BY <2>1, <2>2, <2>3, FS_Subset
<1>2. P!Cardinality(S) = Cardinality(S) /\ P!Cardinality(S \cup {s}) = Cardinality(S \cup {s})
  BY DEF P!Cardinality, Cardinality
<1>3. P!Cardinality(S) < MaxPositions
  BY DEF P!HasCapacity
<1>4. MaxPositions \in Nat
  BY DEF P!PlacementAssumption
<1>. HIDE DEF S
<1>5. Cardinality(S) \in Nat /\ Cardinality(S \cup {s}) <= Cardinality(S) + 1
  <2>1. Cardinality(S) \in Nat
    BY <1>1, FS_CardinalityType
  <2>2. CASE s \in S
    <3>1. Cardinality(S \cup {s}) = Cardinality(S)
      BY <1>1, <2>2, FS_AddElement
    <3>. QED  BY <2>1, <3>1
  <2>3. CASE s \notin S
    <3>1. Cardinality(S \cup {s}) = Cardinality(S) + 1
      BY <1>1, <2>3, FS_AddElement
    <3>. QED  BY <2>1, <3>1
  <2>. QED  BY <2>2, <2>3
<1>6. Cardinality(S \cup {s}) \in Nat
  BY <1>1, FS_AddElement, FS_CardinalityType
<1>7. P!Fits(S \cup {s})
  BY <1>2, <1>3, <1>4, <1>5, <1>6 DEF P!Fits
<1>. QED  BY <1>7 DEF S

LEMMA FlightRises ==
    ASSUME NEW X, RowsRise(X), positions' \subseteq positions
    PROVE  P!InFlight' \subseteq P!InFlight \cup X /\ P!InFlight' \subseteq Symbols
  BY PendingNext DEF P!InFlight, RowsRise

LEMMA BoundedStays ==
    ASSUME P!PlacementAssumption, P!Bounded, P!InFlight' \subseteq P!InFlight,
           job'.step \in P!Placing /\ P!Buying' =>
               /\ job.step \in P!Placing /\ P!Buying /\ job'.sym = job.sym /\ job.sym \in Symbols,
           job'.task = "retry" /\ job'.room =>
               /\ job.task = "retry" /\ job.room
               /\ \A r \in job'.todo : /\ r \in job.todo /\ rows'[r].sym = rows[r].sym
                                       /\ rows[r].sym \in Symbols
    PROVE  P!Bounded'
<1>1. P!InFlight \subseteq Symbols
  BY DEF P!InFlight
<1>2. P!Fits(P!InFlight')
  BY <1>1, FitsLess DEF P!Bounded
<1>3. ASSUME NEW s \in Symbols, P!Fits(P!InFlight \cup {s}) PROVE P!Fits(P!InFlight' \cup {s})
  <2>1. P!InFlight \cup {s} \in SUBSET Symbols /\ P!InFlight' \cup {s} \in SUBSET (P!InFlight \cup {s})
    BY <1>1
  <2>. QED  BY <1>3, <2>1, FitsLess
<1>4. job'.step \in P!Placing /\ P!Buying' => P!Fits(P!InFlight' \cup {job'.sym})
  BY <1>3 DEF P!Bounded
<1>5. job'.task = "retry" /\ job'.room => \A r \in job'.todo : P!Fits(P!InFlight' \cup {rows'[r].sym})
  BY <1>3 DEF P!Bounded
<1>6. \A S : P!Fits(S)' <=> P!Fits(S)
  BY DEF P!Fits
<1>. QED  BY <1>2, <1>4, <1>5 DEF P!Bounded, P!Fits

-----------------------------------------------------------------------------
(* The steps that take up nothing new *)

\* The worker goes on with what it has, skips it or is through.
Eases ==
    /\ job'.task = "none" \/ job'.task = job.task
    /\ job'.task = "none" => job'.step = "next"
    /\ job'.todo \subseteq job.todo
    /\ job'.step # "next" => /\ job'.step = job.step \/ (job.step = "written" /\ job'.step = "verified")
                             /\ job'.sym = job.sym /\ job'.row = job.row /\ job'.order = job.order
    /\ job.step \in {"accepted", "traded"} => job'.step = job.step
    /\ job'.task = "retry" => job'.room = job.room

\* The symbols of F are in trouble already, or the failure there may be befalls them.
Befalls(F) ==
    \/ \A s \in Symbols : s \in F => P!Troubled(s)
    \/ (\E k \in P!Failures : P!Happens(k)) /\ \A s, t \in F : s = t

LEMMA EasedLimit ==
    ASSUME P!PlacementAssumption, P!Typed, P!Limit, UNCHANGED allowed, faults \subseteq faults', Eases,
           job'.task = "retry" => RowsName, P!InFlight' \subseteq P!InFlight,
           NEW F, RowsFail(F), Rejects(F), Befalls(F)
    PROVE  P!Limit'
<1>. SUFFICES ASSUME P!OneFailure PROVE P!OneTrouble' /\ P!Bounded'
  BY DEF P!Limit, P!OneFailure
<1>1. faults \subseteq allowed
  BY DEF P!Typed, P!Around
<1>2. \A r \in P!Rows : P!Retryable(r) => P!Retried(r) /\ rows[r].sym \in Symbols
  BY DEF P!Retryable, P!Typed, P!JobWell, P!Retries, P!Retried, P!Tables, P!Sheets, P!RowsWell
<1>3. \A r \in P!Rows : P!Retryable(r)' => P!Retryable(r) /\ rows'[r].sym = rows[r].sym
  BY <1>2 DEF P!Retryable, Eases, RowsName, P!Placing
<1>4. P!OneTrouble'
  BY <1>1, <1>3, TroubleStays DEF P!Limit, Befalls
<1>5. job'.step \in P!Placing /\ P!Buying' =>
          job.step \in P!Placing /\ P!Buying /\ job'.sym = job.sym /\ job.sym \in Symbols
  BY DEF Eases, P!Placing, P!Buying, P!Typed, P!JobWell, P!Works
<1>6. job'.task = "retry" => job.task = "retry" /\ \A r \in job.todo : r \in P!Rows
  BY DEF Eases, P!Typed, P!JobWell, P!Retries
<1>7. job'.task = "retry" => \A r \in job'.todo : r \in job.todo /\ P!Retryable(r)' /\ r \in P!Rows
  BY <1>6 DEF Eases, P!Retryable
<1>8. job'.task = "retry" /\ job'.room =>
          /\ job.task = "retry" /\ job.room
          /\ \A r \in job'.todo : /\ r \in job.todo /\ rows'[r].sym = rows[r].sym
                                  /\ rows[r].sym \in Symbols
  BY <1>2, <1>3, <1>6, <1>7 DEF Eases
<1>9. P!Bounded'
  BY <1>5, <1>8, BoundedStays DEF P!Limit
<1>. QED  BY <1>4, <1>9

LEMMA EasedAccount ==
    ASSUME P!PlacementAssumption, P!Typed, P!Account, UNCHANGED <<phase, done, allowed>>, Eases, Fades,
           RowsRise({}), RowsHold,
           P!Unexposed({"above"}) =>
               RowsShow /\ SignalsSink /\ bought \subseteq bought' /\ positions' \subseteq positions \cup bought'
    PROVE  P!Account'
<1>1. job'.step \in {"funds", "accepted", "traded"} /\ P!Buying' =>
          job.step = job'.step /\ P!Buying /\ job'.sym = job.sym /\ job.sym \in Symbols
  BY DEF Eases, P!Buying, P!Typed, P!JobWell, P!Works, P!Placing
<1>2. job'.step \in {"funds", "accepted", "traded"} /\ P!Buying' => ~P!Pending(rows', job'.sym)
  BY <1>1 DEF P!Account, P!Quiet, RowsRise
<1>3. P!Quiet'
  <2>1. P!Buying' => P!Buying
    BY DEF Eases, P!Buying
  <2>2. job'.task = "buys" =>
            job.task = "buys" /\ \A s \in Symbols : s \in job'.todo => s \in job.todo /\ s \notin {}
    BY DEF Eases
  <2>. QED  BY <1>2, <2>1, <2>2, QuietStays DEF P!Account
<1>4. P!Followed'
  <2>1. \A o \in P!Orders : P!ByUs(o)' => P!ByUs(o)
    BY DEF Fades
  <2>2. job.step \in {"accepted", "traded"} => job'.order = job.order /\ job'.step \in {"accepted", "traded"}
    BY DEF Eases
  <2>. QED  BY <2>1, <2>2, FollowedStays DEF P!Account
<1>5. ASSUME P!Unexposed({"above"}) PROVE P!Explained'
  <2>1. P!Explained
    BY <1>5 DEF P!Account
  <2>2. job'.step # "gone"
    BY <2>1 DEF P!Explained, Eases
  <2>3. job'.task = "preview" => \A s \in Symbols : s \in job'.todo => signal'[s].user # "traded"
    BY <1>5, <2>1 DEF P!Explained, Eases, SignalsSink
  <2>4. job.step = "traded" => job'.step = "traded" /\ job'.sym = job.sym
    BY DEF Eases
  <2>. QED  BY <1>5, <2>1, <2>2, <2>3, <2>4, ExplainedStays DEF SignalsSink
<1>. QED  BY <1>3, <1>4, <1>5 DEF P!Account, P!Unexposed

LEMMA EasedSound ==
    ASSUME P!PlacementAssumption, P!Typed, P!Account, P!Limit, UNCHANGED <<phase, done, allowed, bought>>,
           positions' \subseteq positions, faults \subseteq faults', Eases, Fades,
           RowsRise({}), RowsHold, job'.task = "retry" => RowsName,
           P!Unexposed({"above"}) => RowsShow /\ SignalsSink,
           NEW F, RowsFail(F), Rejects(F), Befalls(F)
    PROVE  P!Account' /\ P!Limit'
<1>1. P!InFlight' \subseteq P!InFlight
  BY FlightRises
<1>2. positions' \subseteq positions \cup bought'
  OBVIOUS
<1>. QED  BY <1>1, <1>2, EasedLimit, EasedAccount

LEMMA BookSame == ASSUME buyBook' = buyBook, NEW F PROVE Fades /\ Rejects(F)
  BY BookUntouched DEF Rejects

LEMMA NoneBefallen == Befalls({})
  BY DEF Befalls

\* What cannot happen where no order gets lost.
LEMMA LosslessExcludes ==
    ASSUME P!Lossless
    PROVE  /\ P!SingleScene
           /\ ~P!Happens("crash") /\ ~P!Happens("norow") /\ ~P!Happens("uncertain")
           /\ ~P!Happens("noreport") /\ ~P!Happens("nocancel")
  BY DEF P!Lossless, P!SingleScene, P!Unexposed, P!Happens

-----------------------------------------------------------------------------
(* The steps that take up a symbol *)

\* There is room for the symbol the worker takes up, and it retries no other.
LEMMA TakesLimit ==
    ASSUME P!PlacementAssumption, P!Typed, P!Limit, UNCHANGED <<allowed, positions>>,
           faults \subseteq faults', NEW s \in Symbols,
           RowsRise({s}), RowsFail({}), Rejects({}),
           P!OneFailure => P!Fits(P!InFlight \cup {s}),
           \A r \in P!Rows : P!Retryable(r)' =>
               rows'[r].sym = rows[r].sym /\ (rows[r].st = "failed" \/ P!Retryable(r)),
           job'.step \in P!Placing /\ P!Buying' => job'.sym = s,
           P!OneFailure /\ job'.task = "retry" => \A r \in job'.todo : rows'[r].sym = s
    PROVE  P!Limit'
<1>. SUFFICES ASSUME P!OneFailure PROVE P!OneTrouble' /\ P!Bounded'
  BY DEF P!Limit, P!OneFailure
<1>1. P!OneTrouble'
  <2>1. faults \subseteq allowed
    BY DEF P!Typed, P!Around
  <2>. QED  BY <2>1, TroubleStays DEF P!Limit
<1>2. P!InFlight' \subseteq P!InFlight \cup {s}
  BY FlightRises
<1>3. P!InFlight \cup {s} \in SUBSET Symbols
  BY DEF P!InFlight
<1>4. P!Fits(P!InFlight') /\ P!Fits(P!InFlight' \cup {s})
  <2>1. P!InFlight' \in SUBSET (P!InFlight \cup {s}) /\ P!InFlight' \cup {s} \in SUBSET (P!InFlight \cup {s})
    BY <1>2
  <2>. QED  BY <1>3, <2>1, FitsLess
<1>5. \A S : P!Fits(S)' <=> P!Fits(S)
  BY DEF P!Fits
<1>6. job'.step \in P!Placing /\ P!Buying' => P!Fits(P!InFlight' \cup {job'.sym})
  BY <1>4
<1>7. job'.task = "retry" => \A r \in job'.todo : P!Fits(P!InFlight' \cup {rows'[r].sym})
  BY <1>4
<1>. QED  BY <1>1, <1>4, <1>5, <1>6, <1>7 DEF P!Bounded, P!Fits

LEMMA EntriesSound ==
    ASSUME P!PlacementAssumption, P!Typed, P!Lossless, P!Single, P!Account, P!Limit,
           allowed' = allowed, faults \subseteq faults', NEW s \in Symbols,
           P!SkipEntry(s) \/ P!AdoptEntry(s) \/ P!PassEntry(s) \/ P!ReplaceEntry(s)
    PROVE  P!Account' /\ P!Limit'
<1>1. /\ job.task \in {"buys", "preview"} /\ job.step = "next" /\ s \in job.todo
      /\ job \in P!JobType /\ rows \in [P!Rows -> P!RowType]
      /\ UNCHANGED <<signal, bought, positions, phase, done>>
  BY DEF P!SkipEntry, P!AdoptEntry, P!PassEntry, P!ReplaceEntry, P!Entry, P!Typed, P!JobWell,
         P!Tables, P!Sheets
<1>2. /\ job'.task = job.task /\ job'.todo \subseteq job.todo
      /\ job'.step = "next" \/ (job'.step = "funds" /\ job'.sym = s)
  <2>1. ASSUME NEW T \in SUBSET job.todo, job' = [job EXCEPT !.todo = T]
        PROVE  job'.task = job.task /\ job'.todo \subseteq job.todo /\ job'.step = "next"
    BY <1>1, <2>1 DEF P!JobType
  <2>2. ASSUME P!Funds(s, P!None, s)
        PROVE  /\ job'.task = job.task /\ job'.todo \subseteq job.todo
               /\ job'.step = "funds" /\ job'.sym = s
    BY <1>1, <2>2 DEF P!Funds, P!JobType
  <2>3. \/ P!Funds(s, P!None, s)
        \/ job' = [job EXCEPT !.todo = {}]
        \/ job' = [job EXCEPT !.todo = job.todo \ {s}]
    BY DEF P!SkipEntry, P!AdoptEntry, P!PassEntry, P!ReplaceEntry, P!Skip
  <2>4. {} \in SUBSET job.todo /\ job.todo \ {s} \in SUBSET job.todo
    OBVIOUS
  <2>. QED  BY <2>1, <2>2, <2>3, <2>4
<1>3. SignalsSink
  BY <1>1, SameSignals
<1>4. CASE P!SkipEntry(s)
  <2>1. rows' = rows /\ buyBook' = buyBook /\ job'.step = "next"
    BY <1>1, <1>4 DEF P!SkipEntry, P!Skip, P!JobType
  <2>2. Eases
    BY <1>1, <1>2, <2>1 DEF Eases
  <2>. QED  BY <1>1, <1>3, <2>1, <2>2, SameEffect, BookSame, NoneBefallen, EasedSound
<1>5. ASSUME P!Open(s), RowsRise({s}), RowsHold, RowsFail({}), Rejects({}), Fades, s \notin job'.todo,
             job'.step = "funds" /\ job.task = "buys" => ~P!Pending(rows', s),
             P!Unexposed({"above"}) => RowsShow
      PROVE  P!Account' /\ P!Limit'
  <2>1. P!Limit'
    <3>1. P!Fits(P!InFlight \cup {s})
      BY <1>5, FitsMore DEF P!Open
    <3>2. \A r \in P!Rows : ~P!Retryable(r)'
      BY <1>1, <1>2 DEF P!Retryable
    <3>. QED  BY <1>1, <1>2, <1>5, <3>1, <3>2, TakesLimit DEF P!Placing
  <2>2. P!Quiet'
    <3>1. job'.task = "buys" => job.task = "buys" /\ \A x \in Symbols : x \in job'.todo => x \in job.todo /\ x \notin {s}
      BY <1>2, <1>5
    <3>2. phase' = "pre" /\ ~done'["buys"] => P!Buying
      <4>1. phase' = "pre" => job.task # "preview"
        BY <1>1 DEF P!Typed, P!JobWell, P!Works
      <4>. QED  BY <1>1, <4>1 DEF P!Buying
    <3>3. job'.step \in {"funds", "accepted", "traded"} /\ P!Buying' => ~P!Pending(rows', job'.sym)
      BY <1>1, <1>2, <1>5 DEF P!Buying
    <3>. QED  BY <1>1, <1>5, <3>1, <3>2, <3>3, QuietStays DEF P!Account
  <2>3. P!Followed'
    BY <1>1, <1>5, FollowedStays DEF P!Account, Fades
  <2>4. P!Unexposed({"above"}) => P!Explained'
    BY <1>1, <1>2, <1>5, ExplainedStays DEF P!Account, P!Explained
  <2>. QED  BY <2>1, <2>2, <2>3, <2>4 DEF P!Account, P!Unexposed
<1>6. CASE P!AdoptEntry(s)
  <2>1. PICK o \in P!Strangers(s, job.seen) : rows' = P!Created(s, o)
    BY <1>6 DEF P!AdoptEntry
  <2>2. o \in P!Orders /\ P!SpareRows # {} /\ buyBook' = buyBook /\ P!Open(s)
    BY <1>1, <1>6, <2>1 DEF P!Strangers, P!JobType, P!AdoptEntry
  <2>3. s \notin job'.todo /\ job'.step = "next"
    BY <1>1, <1>6 DEF P!AdoptEntry, P!Skip, P!JobType
  <2>4. RowsRise({s}) /\ RowsShow /\ RowsHold /\ RowsFail({})
    BY <2>1, <2>2, CreatedEffect
  <2>. QED  BY <1>5, <2>2, <2>3, <2>4, BookSame
<1>7. CASE P!PassEntry(s)
  <2>1. rows' = rows /\ buyBook' = buyBook /\ P!Open(s) /\ P!Known(s) = {}
    BY <1>7 DEF P!PassEntry, P!Fresh
  <2>2. s \notin job'.todo
    BY <1>1, <1>7 DEF P!PassEntry, P!Funds, P!JobType
  <2>3. ~P!Pending(rows', s)
    BY <2>1, PendingMeans DEF P!Known, P!RowsOf
  <2>4. RowsRise({s}) /\ RowsShow /\ RowsHold /\ RowsFail({})
    BY <2>1, SameEffect DEF RowsRise
  <2>. QED  BY <1>5, <2>1, <2>2, <2>3, <2>4, BookSame
<1>8. CASE P!ReplaceEntry(s)
  <2>1. buyBook' = [o \in P!Orders |-> IF o \in P!Replaced(s)
                                       THEN [buyBook[o] EXCEPT !.st = "cancelled"] ELSE buyBook[o]]
    BY <1>8, LosslessExcludes DEF P!ReplaceEntry
  <2>2. buyBook \in [P!Orders -> P!BookType]
    BY DEF P!Typed, P!Tables, P!BookWell
  <2>3. \A o \in P!Orders : /\ buyBook'[o].sym = buyBook[o].sym /\ buyBook'[o].by = buyBook[o].by
                            /\ buyBook'[o].st \in {buyBook[o].st, "cancelled"}
                            /\ buyBook[o].sym = s => buyBook'[o].st # "open"
    BY <2>1, <2>2 DEF P!BookType, P!Live, P!Replaced
  <2>4. Fades /\ Rejects({})
    BY <2>3 DEF Fades, Rejects, P!ByUs
  <2>5. PICK r \in P!Known(s) : rows' = [rows EXCEPT ![r].st = "cancelled"]
    BY <1>8 DEF P!ReplaceEntry
  <2>6. r \in P!Rows /\ rows[r].sym = s /\ rows[r].st # "none"
    BY <2>5 DEF P!Known, P!RowsOf
  <2>7. /\ \A q \in P!Rows : q # r => rows'[q] = rows[q]
        /\ rows'[r].st = "cancelled" /\ rows'[r].sym = s
    BY <2>5, <2>6, OneStatus
  <2>8. RowsRise({s}) /\ RowsFail({})
    BY <2>7, PendingMeans DEF RowsRise, RowsFail
  <2>9. RowsHold
    <3>1. rows[r].order \in P!Orders => ~Waits(rows[r].order)
      <4>1. P!None \notin P!Orders
        BY PlacementSets
      <4>. QED  BY <2>3, <2>6, <4>1 DEF P!Single, P!Linked, Waits
    <3>. QED  BY <2>7, <3>1 DEF RowsHold
  <2>10. s \notin job'.todo /\ P!Open(s)
    BY <1>1, <1>8 DEF P!ReplaceEntry, P!Funds, P!JobType
  <2>11. job.task = "buys" => ~P!Pending(rows, s)
    BY <1>1 DEF P!Account, P!Quiet
  <2>12. job.task = "buys" => ~P!Pending(rows', s)
    BY <2>7, <2>11, PendingMeans
  <2>13. P!Unexposed({"above"}) => RowsShow
    <3>1. P!Unexposed({"above"}) /\ job.task = "preview" => signal'[s].user # "traded"
      BY <1>1 DEF P!Account, P!Explained
    <3>2. \A x \in Symbols : x # s /\ P!Pending(rows, x) => P!Pending(rows', x)
      BY <2>6, <2>7, PendingMeans
    <3>. QED  BY <1>1, <2>11, <3>1, <3>2 DEF RowsShow
  <2>. QED  BY <1>5, <2>4, <2>8, <2>9, <2>10, <2>12, <2>13
<1>. QED  BY <1>4, <1>6, <1>7, <1>8

\* Rows that are to be retried are all of one symbol, where one failure is possible.
LEMMA OneRetried ==
    ASSUME P!Typed, P!Limit, P!OneFailure, NEW r \in P!Rows, NEW q \in P!Rows,
           P!Retryable(r), P!Retryable(q)
    PROVE  rows[q].sym = rows[r].sym
<1>1. rows[r].sym \in Symbols /\ rows[q].sym \in Symbols
  BY DEF P!Retryable, P!Typed, P!JobWell, P!Retries, P!Retried, P!Tables, P!Sheets, P!RowsWell
<1>2. P!Troubled(rows[r].sym) /\ P!Troubled(rows[q].sym)
  BY DEF P!Troubled
<1>. QED  BY <1>1, <1>2 DEF P!Limit, P!OneTrouble

LEMMA RetriesSound ==
    ASSUME P!PlacementAssumption, P!Typed, P!Lossless, P!Single, P!Account, P!Limit,
           allowed' = allowed, faults \subseteq faults', NEW r \in P!Rows,
           P!SkipRow(r) \/ P!AdoptRow(r) \/ P!PassRow(r)
    PROVE  P!Account' /\ P!Limit'
<1>1. /\ job.task = "retry" /\ job.step = "next" /\ r \in job.todo /\ P!Retried(r)
      /\ rows[r].sym \in Symbols /\ job \in P!JobType /\ rows \in [P!Rows -> P!RowType]
      /\ \A q \in job.todo : q \in P!Rows /\ P!Retried(q)
      /\ phase = "pre" /\ done["buys"] /\ UNCHANGED <<buyBook, bought, positions, phase, done>>
  <2>1. /\ job.task = "retry" /\ job.step = "next" /\ r \in job.todo
        /\ UNCHANGED <<buyBook, bought, positions, phase, done>>
    BY DEF P!SkipRow, P!AdoptRow, P!PassRow, P!Retriable, P!Row
  <2>2. /\ P!Retried(r) /\ rows[r].sym \in Symbols /\ job \in P!JobType
        /\ rows \in [P!Rows -> P!RowType] /\ \A q \in job.todo : q \in P!Rows /\ P!Retried(q)
    BY <2>1 DEF P!Typed, P!JobWell, P!Retries, P!Retried, P!Tables, P!Sheets, P!RowsWell
  <2>3. phase = "pre" /\ done["buys"]
    BY <2>1 DEF P!Typed, P!JobWell, P!Works, P!Buying, P!Account, P!Quiet, P!Around
  <2>. QED  BY <2>1, <2>2, <2>3
<1>2. rows[r].st # "pending" /\ rows[r].st # "none" /\ P!Retryable(r)
  BY <1>1 DEF P!Retried, P!Retryable
<1>3. Fades /\ Rejects({}) /\ Rejects({rows[r].sym})
  BY <1>1, BookSame
<1>4. CASE P!SkipRow(r)
  <2>1. PICK T \in SUBSET job.todo : job' = [job EXCEPT !.todo = T]
    BY <1>4 DEF P!SkipRow, P!Skip
  <2>2. Eases
    BY <1>1, <2>1 DEF Eases, P!JobType
  <2>3. CASE rows' = rows /\ signal' = signal
    BY <1>1, <1>3, <2>2, <2>3, SameEffect, SameSignals, NoneBefallen, EasedSound
  <2>4. ASSUME NEW st \in {"failed", "cancelled"}, P!Settle(r, st) PROVE P!Account' /\ P!Limit'
    <3>1. /\ RowsRise({}) /\ RowsShow /\ RowsHold /\ RowsName /\ SignalsSink
          /\ RowsFail({rows[r].sym})
      BY <1>2, <2>4, StatusEffect
    <3>2. Befalls({rows[r].sym})
      BY <1>2 DEF Befalls, P!Troubled
    <3>. QED  BY <1>1, <1>3, <2>2, <3>1, <3>2, EasedSound
  <2>. QED  BY <1>4, <2>3, <2>4 DEF P!SkipRow
<1>5. ASSUME job'.task = "retry", job'.todo = job.todo \ {r}, P!Retriable(r),
             job'.step = "next" \/ (job'.step = "funds" /\ job'.sym = rows[r].sym /\ job'.row = r
                                      /\ ~P!Pending(rows', rows[r].sym)),
             RowsRise({rows[r].sym}), RowsShow, RowsHold, RowsFail({}),
             signal' = signal, \A q \in P!Rows : rows'[q].sym = rows[q].sym
      PROVE  P!Account' /\ P!Limit'
  <2>1. P!Limit'
    <3>1. P!OneFailure => P!Fits(P!InFlight \cup {rows[r].sym})
      BY <1>1, <1>5 DEF P!Retriable, P!Limit, P!Bounded
    <3>2. \A q \in P!Rows : P!Retryable(q)' => rows'[q].sym = rows[q].sym /\ P!Retryable(q)
      BY <1>1, <1>5 DEF P!Retryable, P!Placing
    <3>3. P!OneFailure => \A q \in job'.todo : rows'[q].sym = rows[r].sym
      <4>. SUFFICES ASSUME P!OneFailure, NEW q \in job'.todo PROVE rows'[q].sym = rows[r].sym
        OBVIOUS
      <4>1. q \in P!Rows /\ P!Retryable(q)
        BY <1>1, <1>5 DEF P!Retryable
      <4>. QED  BY <1>2, <1>5, <4>1, OneRetried
    <3>4. job'.step \in P!Placing => job'.sym = rows[r].sym
      BY <1>5 DEF P!Placing
    <3>. QED  BY <1>1, <1>3, <1>5, <3>1, <3>2, <3>3, <3>4, TakesLimit
  <2>2. P!Quiet'
    <3>1. job'.step \in {"funds", "accepted", "traded"} => ~P!Pending(rows', job'.sym)
      BY <1>5
    <3>. QED  BY <1>1, <1>5, <3>1, QuietStays DEF P!Account
  <2>3. P!Followed'
    BY <1>1, <1>3, <1>5, FollowedStays DEF P!Account, Fades
  <2>4. P!Unexposed({"above"}) => P!Explained'
    BY <1>1, <1>5, ExplainedStays DEF P!Account, P!Explained
  <2>. QED  BY <2>1, <2>2, <2>3, <2>4 DEF P!Account, P!Unexposed
<1>6. CASE P!AdoptRow(r)
  <2>1. job'.task = "retry" /\ job'.todo = job.todo \ {r} /\ job'.step = "next"
    BY <1>1, <1>6 DEF P!AdoptRow, P!Skip, P!JobType
  <2>2. PICK o \in P!Strangers(rows[r].sym, P!Live) :
           rows' = [rows EXCEPT ![r].st = "pending", ![r].order = o]
    BY <1>6 DEF P!AdoptRow
  <2>3. /\ rows'[r].st = "pending" /\ rows'[r].sym = rows[r].sym
        /\ \A q \in P!Rows : q # r => rows'[q] = rows[q]
    BY <1>1, <2>2 DEF P!RowType
  <2>4. RowsRise({rows[r].sym})
    BY <2>3, PendingMeans DEF RowsRise
  <2>5. RowsShow
    BY <1>2, <2>3, PendingMeans DEF RowsShow
  <2>6. RowsHold /\ RowsFail({})
    BY <1>2, <2>3 DEF RowsHold, RowsFail
  <2>. QED  BY <1>5, <1>6, <2>1, <2>3, <2>4, <2>5, <2>6 DEF P!AdoptRow
<1>7. CASE P!PassRow(r)
  <2>. DEFINE s == rows[r].sym
  <2>1. P!Funds(s, r, r) /\ P!Retriable(r) /\ rows' = rows /\ signal' = signal
    BY <1>7 DEF P!PassRow
  <2>2. /\ job'.task = "retry" /\ job'.todo = job.todo \ {r}
        /\ job'.step = "funds" /\ job'.sym = s /\ job'.row = r
    BY <1>1, <2>1 DEF P!Funds, P!JobType
  <2>3. ~P!Pending(rows', s)
    BY <2>1 DEF P!Retriable, P!Alike
  <2>4. RowsRise({s}) /\ RowsShow /\ RowsHold /\ RowsFail({})
    BY <2>1, SameEffect DEF RowsRise
  <2>. QED  BY <1>5, <2>1, <2>2, <2>3, <2>4
<1>. QED  BY <1>4, <1>6, <1>7

\* Where no order of the system waits for a symbol, no row of the symbol has one.
LEMMA RowsUnwaited ==
    ASSUME P!PlacementAssumption, P!Typed, P!Single, NEW s, P!NoOrder(s), buyBook' = buyBook
    PROVE  \A p \in P!Rows : rows[p].sym = s => rows[p].order \notin P!Orders \/ ~Waits(rows[p].order)
<1>1. P!None \notin P!Orders
  BY PlacementSets
<1>. QED  BY <1>1, NoOrderMeans DEF P!Single, P!Linked, P!ByUs, Waits

\* What every step of a placement starts from.
LEMMA PlacingContext ==
    ASSUME P!Typed, P!NoFunds \/ P!PreviewOnly \/ P!Refused \/ P!Accepted \/ P!Trade \/ P!Write
                    \/ P!Verify \/ P!Relink
    PROVE  /\ job \in P!JobType /\ rows \in [P!Rows -> P!RowType] /\ job.sym \in Symbols
           /\ job.step \in P!Placing /\ job'.task = job.task /\ job'.todo = job.todo
           /\ job'.room = job.room /\ UNCHANGED <<bought, positions, phase, done>>
           /\ job.step # "funds" => P!Buying /\ job.order \in P!Orders
           /\ job.task # "preview" => P!Buying /\ phase = "pre"
           /\ job.task = "retry" => /\ job.row \in P!Rows /\ P!Retried(job.row) /\ P!Retryable(job.row)
                                    /\ rows[job.row].sym = job.sym /\ job.row \notin job.todo
                                    /\ \A q \in job.todo : q \in P!Rows /\ P!Retryable(q)
<1>1. /\ job \in P!JobType /\ rows \in [P!Rows -> P!RowType] /\ P!Works /\ P!Retries
  BY DEF P!Typed, P!JobWell, P!Tables, P!Sheets
<1>2. /\ job.step \in P!Placing /\ UNCHANGED <<bought, positions, phase, done>>
      /\ job'.task = job.task /\ job'.todo = job.todo /\ job'.room = job.room
  BY <1>1 DEF P!NoFunds, P!PreviewOnly, P!Refused, P!Accepted, P!Trade, P!Write, P!Verify, P!Relink,
              P!Over, P!JobType, P!Placing
<1>3. /\ job.sym \in Symbols
      /\ job.step # "funds" => P!Buying /\ job.order \in P!Orders
      /\ job.task # "preview" => P!Buying /\ phase = "pre"
  BY <1>1, <1>2 DEF P!Works, P!Buying, P!Placing
<1>. QED  BY <1>1, <1>2, <1>3 DEF P!Retries, P!Retryable

\* The entry or the retry is over without an order.
LEMMA UnplacedSound ==
    ASSUME P!PlacementAssumption, P!Typed, P!Lossless, P!Single, P!Account, P!Limit,
           allowed' = allowed, faults \subseteq faults', P!NoFunds \/ P!PreviewOnly \/ P!Refused
    PROVE  P!Account' /\ P!Limit'
<1>1. /\ job.step = "funds" /\ job'.step = "next" /\ buyBook' = buyBook
      /\ \/ rows' = rows /\ signal' = signal
         \/ P!AddFailed(job.sym) /\ \E k \in P!Failures : P!Happens(k)
         \/ job.task = "retry" /\ P!Settle(job.row, "failed")
  <2>1. job.step = "funds" /\ job'.step = "next"
    BY DEF P!NoFunds, P!PreviewOnly, P!Refused, P!Over, P!Typed, P!JobWell, P!JobType
  <2>2. CASE P!NoFunds
    BY <2>1, <2>2 DEF P!NoFunds, P!Retrying, P!Failures
  <2>3. CASE P!Refused
    BY <2>1, <2>3, LosslessExcludes DEF P!Refused, P!Retrying, P!Failures
  <2>. QED  BY <2>1, <2>2, <2>3 DEF P!PreviewOnly
<1>2. /\ job \in P!JobType /\ job.sym \in Symbols /\ UNCHANGED <<bought, positions, phase, done>>
      /\ job'.task = job.task /\ job'.todo = job.todo /\ job'.room = job.room
      /\ job.task = "retry" => /\ job.row \in P!Rows /\ P!Retried(job.row) /\ P!Retryable(job.row)
                               /\ rows[job.row].sym = job.sym
  BY PlacingContext
<1>3. Eases /\ Fades
  <2>1. job.task # "none"
    BY <1>1 DEF P!Typed, P!JobWell, P!Works
  <2>. QED  BY <1>1, <1>2, <2>1, BookSame DEF Eases
<1>4. CASE rows' = rows /\ signal' = signal
  BY <1>1, <1>2, <1>3, <1>4, SameEffect, SameSignals, BookSame, NoneBefallen, EasedSound
<1>5. CASE P!AddFailed(job.sym) /\ \E k \in P!Failures : P!Happens(k)
  <2>1. P!NoOrder(job.sym)
    <3>1. CASE job.task = "preview"
      BY <3>1 DEF P!Typed, P!JobWell, P!Works, P!Single, P!Lapsed, P!NoOrder, P!System
    <3>2. CASE job.task # "preview"
      <4>1. P!Buying
        BY <3>2, PlacingContext
      <4>. QED  BY <1>1, <4>1 DEF P!Single, P!Careful
    <3>. QED  BY <3>1, <3>2
  <2>2. \A p \in P!Rows : rows[p].sym = job.sym /\ rows[p].st = "pending"
                              => rows[p].order \notin P!Orders \/ ~Waits(rows[p].order)
    BY <1>1, <2>1, RowsUnwaited
  <2>3. /\ RowsRise({}) /\ RowsShow /\ RowsHold /\ RowsFail({job.sym}) /\ RowsName /\ SignalsSink
    BY <1>2, <1>5, <2>2, FailedEffect
  <2>4. Befalls({job.sym}) /\ Rejects({job.sym})
    BY <1>1, <1>5, BookSame DEF Befalls
  <2>. QED  BY <1>2, <1>3, <2>3, <2>4, EasedSound
<1>6. CASE job.task = "retry" /\ P!Settle(job.row, "failed")
  <2>1. rows[job.row].st # "none" /\ rows[job.row].st # "pending"
    BY <1>2, <1>6 DEF P!Retried
  <2>2. /\ RowsRise({}) /\ RowsShow /\ RowsHold /\ RowsName /\ SignalsSink
        /\ RowsFail({rows[job.row].sym})
    BY <1>2, <1>6, <2>1, StatusEffect
  <2>3. Befalls({rows[job.row].sym}) /\ Rejects({rows[job.row].sym})
    BY <1>1, <1>2, <1>6, BookSame DEF Befalls, P!Troubled
  <2>. QED  BY <1>2, <1>3, <2>2, <2>3, EasedSound
<1>. QED  BY <1>1, <1>4, <1>5, <1>6

\* _verify_order_placement: an order that was rejected is in trouble already.
LEMMA VerifySound ==
    ASSUME P!PlacementAssumption, P!Typed, P!Lossless, P!Single, P!Account, P!Limit,
           allowed' = allowed, faults \subseteq faults', P!Verify
    PROVE  P!Account' /\ P!Limit'
<1>1. /\ job.step = "written" /\ job \in P!JobType /\ rows \in [P!Rows -> P!RowType]
      /\ UNCHANGED <<bought, positions, phase, done, buyBook>> /\ job.order \in P!Orders
      /\ job'.task = job.task /\ job'.todo = job.todo /\ job'.room = job.room /\ job.task # "none"
  <2>1. job.step = "written" /\ buyBook' = buyBook
    BY DEF P!Verify
  <2>. QED  BY <2>1, PlacingContext DEF P!Buying
<1>2. Eases /\ Fades
  <2>1. job'.step = "next" \/ (/\ job'.step = "verified" /\ job'.sym = job.sym
                               /\ job'.row = job.row /\ job'.order = job.order)
    BY <1>1 DEF P!Verify, P!Over, P!JobType
  <2>. QED  BY <1>1, <2>1, BookSame DEF Eases
<1>3. CASE rows' = rows /\ signal' = signal
  BY <1>1, <1>2, <1>3, SameEffect, SameSignals, BookSame, NoneBefallen, EasedSound
<1>4. ASSUME NEW r \in P!Rows, rows[r].order = job.order, P!Settle(r, "failed"),
             buyBook[job.order].st = "rejected"
      PROVE  P!Account' /\ P!Limit'
  <2>1. P!None \notin P!Orders /\ P!NoRow.order = P!None
    BY PlacementSets DEF P!NoRow
  <2>2. rows[r].st # "none" /\ ~Waits(rows[r].order)
    BY <1>1, <1>4, <2>1 DEF P!Typed, P!Tables, P!Sheets, P!RowsWell, Waits
  <2>3. /\ RowsRise({}) /\ RowsShow /\ RowsHold /\ RowsName /\ SignalsSink
        /\ RowsFail({rows[r].sym})
    BY <1>4, <2>2, StatusEffect
  <2>4. buyBook[job.order].sym = rows[r].sym
    BY <1>1, <1>4, <2>1 DEF P!Single, P!Linked
  <2>5. Befalls({rows[r].sym}) /\ Rejects({rows[r].sym})
    BY <1>1, <1>4, <2>4, BookSame DEF Befalls, P!Troubled
  <2>. QED  BY <1>1, <1>2, <2>3, <2>5, EasedSound
<1>. QED  BY <1>3, <1>4 DEF P!Verify

\* An order is placed, its signal marked, its row written or linked.
LEMMA PlacedSound ==
    ASSUME P!PlacementAssumption, P!Typed, P!Lossless, P!Single, P!Account, P!Limit,
           allowed' = allowed, faults \subseteq faults', P!Accepted \/ P!Trade \/ P!Write \/ P!Relink
    PROVE  P!Account' /\ P!Limit'
<1>1. /\ job \in P!JobType /\ rows \in [P!Rows -> P!RowType] /\ job.sym \in Symbols
      /\ job.step \in P!Placing /\ job'.task = job.task /\ job'.todo = job.todo
      /\ UNCHANGED <<bought, positions, phase, done>> /\ P!Buying /\ phase = "pre" /\ done["buys"]
      /\ job.step # "funds" => job.order \in P!Orders
      /\ job.task = "retry" => /\ job.row \in P!Rows /\ P!Retried(job.row) /\ P!Retryable(job.row)
                               /\ rows[job.row].sym = job.sym /\ job.row \notin job.todo
                               /\ \A q \in job.todo : q \in P!Rows /\ P!Retryable(q)
  <2>1. P!Buying /\ job.task # "preview"
    <3>1. job.step = "funds" => job.task \in {"buys", "retry", "preview"}
      BY DEF P!Typed, P!JobWell, P!Works
    <3>. QED  BY <3>1, PlacingContext DEF P!Accepted, P!Trade, P!Write, P!Relink, P!Buying
  <2>2. done["buys"] \/ phase # "pre"
    BY <2>1 DEF P!Account, P!Quiet
  <2>. QED  BY <2>1, <2>2, PlacingContext
<1>2. ASSUME job'.step = "next" \/ (job'.sym = job.sym /\ job'.row = job.row),
             RowsRise({job.sym}), RowsFail({}), Rejects({}),
             job.task = "retry" => \A q \in job.todo \cup {job.row} :
                 P!Retryable(q)' => rows'[q].sym = rows[q].sym
      PROVE  P!Limit'
  <2>1. P!OneFailure => P!Fits(P!InFlight \cup {job.sym})
    BY <1>1 DEF P!Limit, P!Bounded
  <2>2. \A r \in P!Rows : P!Retryable(r)' => rows'[r].sym = rows[r].sym /\ P!Retryable(r)
    BY <1>1, <1>2 DEF P!Retryable, P!Placing
  <2>3. P!OneFailure /\ job'.task = "retry" => \A r \in job'.todo : rows'[r].sym = job.sym
    <3>. SUFFICES ASSUME P!OneFailure, job.task = "retry", NEW q \in job.todo
                  PROVE  rows'[q].sym = job.sym
      BY <1>1
    <3>1. rows[q].sym = job.sym
      BY <1>1, OneRetried
    <3>2. P!Retryable(q)'
      BY <1>1 DEF P!Retryable
    <3>. QED  BY <1>2, <3>1, <3>2
  <2>4. job'.step \in P!Placing => job'.sym = job.sym
    BY <1>2 DEF P!Placing
  <2>. QED  BY <1>1, <1>2, <2>1, <2>2, <2>3, <2>4, TakesLimit
<1>3. ASSUME RowsRise({job.sym}),
             job'.step \in {"funds", "accepted", "traded"} => ~P!Pending(rows', job'.sym)
      PROVE  P!Quiet'
  <2>1. job.task = "buys" => \A s \in Symbols : s \in job.todo => s \notin {job.sym}
    BY <1>1 DEF P!Single, P!Careful
  <2>. QED  BY <1>1, <1>3, <2>1, QuietStays DEF P!Account
<1>4. RowsRise({}) => RowsRise({job.sym})
  BY DEF RowsRise
<1>5. CASE P!Accepted
  <2>1. /\ job.step = "funds" /\ rows' = rows /\ signal' = signal /\ Places
        /\ job'.step = "accepted" /\ job'.order = P!FreeOrder /\ job'.sym = job.sym /\ job'.row = job.row
    BY <1>1, <1>5 DEF P!Accepted, P!Sent, Places, P!JobType
  <2>2. RowsRise({}) /\ RowsShow /\ RowsHold /\ RowsFail({})
    BY <2>1, SameEffect
  <2>3. P!Limit'
    <3>1. Rejects({})
      BY <2>1, PlacesFields DEF Rejects
    <3>. QED  BY <1>2, <1>4, <2>1, <2>2, <3>1
  <2>4. P!Quiet'
    <3>1. ~P!Pending(rows', job.sym)
      BY <1>1, <2>1 DEF P!Account, P!Quiet
    <3>. QED  BY <1>3, <1>4, <2>1, <2>2, <3>1
  <2>5. P!Followed'
    <3>1. \A o \in P!Orders : P!ByUs(o)' => P!ByUs(o) \/ o = P!FreeOrder
      BY <2>1, PlacesFields DEF P!ByUs
    <3>. QED  BY <2>1, <2>2, <3>1, FollowedStays DEF P!Account
  <2>6. P!Unexposed({"above"}) => P!Explained'
    BY <1>1, <2>1, <2>2, ExplainedStays DEF P!Account, P!Explained, P!Buying
  <2>. QED  BY <2>3, <2>4, <2>5, <2>6 DEF P!Account, P!Unexposed
<1>6. CASE P!Trade
  <2>1. /\ job.step = "accepted" /\ rows' = rows /\ buyBook' = buyBook
        /\ signal' = [signal EXCEPT ![job.sym].user = "traded"]
        /\ job'.step = "traded" /\ job'.order = job.order /\ job'.sym = job.sym /\ job'.row = job.row
    BY <1>1, <1>6 DEF P!Trade, P!JobType
  <2>2. RowsRise({}) /\ RowsShow /\ RowsHold /\ RowsFail({}) /\ Rejects({}) /\ Fades
    <3>1. RowsShow
      BY <2>1 DEF RowsShow
    <3>. QED  BY <2>1, <3>1, SameEffect, BookSame
  <2>3. P!Limit'
    BY <1>2, <1>4, <2>1, <2>2
  <2>4. P!Quiet'
    <3>1. ~P!Pending(rows', job.sym)
      BY <1>1, <2>1 DEF P!Account, P!Quiet
    <3>. QED  BY <1>3, <1>4, <2>1, <2>2, <3>1
  <2>5. P!Followed'
    BY <2>1, <2>2, FollowedStays DEF P!Account, Fades
  <2>6. P!Unexposed({"above"}) => P!Explained'
    <3>1. signal \in [Symbols -> P!SignalType]
      BY DEF P!Typed, P!Tables, P!Sheets
    <3>2. \A s \in Symbols : /\ signal'[s].base = signal[s].base
                             /\ s # job.sym => signal'[s] = signal[s]
      BY <2>1, <3>1 DEF P!SignalType
    <3>. QED  BY <1>1, <2>1, <2>2, <3>2, ExplainedStays DEF P!Account, P!Explained, P!Buying
  <2>. QED  BY <2>3, <2>4, <2>5, <2>6 DEF P!Account, P!Unexposed
<1>7. CASE P!Write
  <2>1. /\ job.step = "traded" /\ P!SpareRows # {} /\ rows' = P!Created(job.sym, job.order)
        /\ signal' = signal /\ buyBook' = buyBook
        /\ job'.step = "written" /\ job'.order = job.order /\ job'.sym = job.sym /\ job'.row = job.row
    BY <1>1, <1>7, LosslessExcludes DEF P!Write, P!JobType
  <2>2. /\ RowsRise({job.sym}) /\ RowsShow /\ RowsHold /\ RowsFail({}) /\ RowsName
        /\ P!Pending(rows', job.sym)
        /\ ~P!Pending(rows, job.sym) =>
               \E r \in P!Rows : rows'[r].st = "pending" /\ rows'[r].order = job.order
    BY <1>1, <2>1, CreatedEffect
  <2>3. P!Limit'
    <3>1. job.task = "retry" => \A q \in job.todo \cup {job.row} : rows'[q].sym = rows[q].sym
      <4>1. job.task = "retry" => \A q \in job.todo : P!Retried(q)
        BY DEF P!Typed, P!JobWell, P!Retries
      <4>. QED  BY <1>1, <2>2, <4>1 DEF RowsName
    <3>. QED  BY <1>2, <2>1, <2>2, <3>1, BookSame
  <2>4. P!Quiet'
    BY <1>3, <2>1, <2>2
  <2>5. P!Followed'
    <3>1. ~P!Pending(rows, job.sym)
      BY <1>1, <2>1 DEF P!Account, P!Quiet
    <3>. QED  BY <2>1, <2>2, <3>1, BookSame, FollowedStays DEF P!Account, Fades
  <2>6. P!Unexposed({"above"}) => P!Explained'
    BY <1>1, <2>1, <2>2, ExplainedStays DEF P!Account, P!Explained, P!Buying
  <2>. QED  BY <2>3, <2>4, <2>5, <2>6 DEF P!Account, P!Unexposed
<1>8. CASE P!Relink
  <2>. DEFINE rs == [rows EXCEPT ![job.row].st = "pending", ![job.row].order = job.order]
              j == job'  t == P!Tidy(rs, j)
  <2>1. /\ job.step = "verified" /\ job.task = "retry" /\ job.row \in P!Rows
        /\ job'.step = "next" /\ rows' = t /\ signal' = signal /\ buyBook' = buyBook
    <3>1. job.step = "verified" => job.task = "retry"
      BY DEF P!Typed, P!JobWell, P!Works
    <3>. QED  BY <1>1, <1>8, <3>1 DEF P!Relink, P!Over, P!JobType
  <2>2. /\ rs \in [P!Rows -> P!RowType]
        /\ rs[job.row].st = "pending" /\ rs[job.row].order = job.order
        /\ rs[job.row].sym = job.sym /\ \A q \in P!Rows : q # job.row => rs[q] = rows[q]
    BY <1>1, <2>1, PlacementSets DEF P!RowType
  <2>3. job.todo \subseteq P!InUse(j)
    BY <1>1, <2>1 DEF P!InUse
  <2>. HIDE DEF rs, j
  <2>4. \A q \in P!Rows : t[q] = rs[q] \/ (t[q] = P!NoRow /\ rs[q].st = "cancelled" /\ q \notin job.todo)
    BY <2>2, <2>3, TidyRows
  <2>5. P!NoRow.st = "none"
    BY DEF P!NoRow
  <2>. HIDE DEF t
  <2>6. /\ rows'[job.row].st = "pending" /\ rows'[job.row].sym = job.sym
        /\ \A q \in P!Rows : q # job.row =>
              \/ rows'[q] = rows[q]
              \/ rows'[q].st = "none" /\ rows[q].st = "cancelled" /\ q \notin job.todo
    BY <2>1, <2>2, <2>4, <2>5
  <2>7. rows[job.row].st # "pending"
    BY <1>1, <2>1 DEF P!Retried
  <2>8. RowsRise({job.sym})
    BY <2>6, PendingMeans DEF RowsRise
  <2>9. RowsShow
    BY <2>6, <2>7, PendingMeans DEF RowsShow
  <2>10. RowsHold /\ RowsFail({}) /\ Rejects({}) /\ Fades
    BY <2>1, <2>6, <2>7, BookSame DEF RowsHold, RowsFail
  <2>11. P!Limit'
    <3>1. \A q \in job.todo : rows'[q].sym = rows[q].sym
      BY <1>1, <2>1, <2>6
    <3>. QED  BY <1>1, <1>2, <2>1, <2>6, <2>8, <2>10, <3>1
  <2>12. P!Quiet'
    BY <1>3, <2>1, <2>8
  <2>13. P!Followed'
    BY <2>1, <2>10, FollowedStays DEF P!Account, Fades
  <2>14. P!Unexposed({"above"}) => P!Explained'
    BY <1>1, <2>1, <2>9, ExplainedStays DEF P!Account, P!Explained, P!Buying
  <2>. QED  BY <2>11, <2>12, <2>13, <2>14 DEF P!Account, P!Unexposed
<1>. QED  BY <1>5, <1>6, <1>7, <1>8

LEMMA PremarketSound ==
    ASSUME P!PlacementAssumption, P!Typed, P!Lossless, P!Single, P!Account, P!Limit,
           allowed' = allowed, faults \subseteq faults',
           (\E o \in P!Orders : P!LeaveOrder(o) \/ P!CancelAbove(o)) \/ P!WriteOff \/ P!EndTask
    PROVE  P!Account' /\ P!Limit'
<1>1. /\ job \in P!JobType /\ rows \in [P!Rows -> P!RowType] /\ buyBook \in [P!Orders -> P!BookType]
      /\ UNCHANGED <<bought, positions, phase, done, signal>>
  BY DEF P!LeaveOrder, P!CancelAbove, P!WriteOff, P!EndTask, P!Typed, P!Tables, P!JobWell,
         P!Sheets, P!BookWell
<1>2. ASSUME NEW o \in P!Orders, P!LeaveOrder(o) PROVE P!Account' /\ P!Limit'
  <2>1. /\ job.task = "adjust" /\ job.step = "next" /\ rows' = rows /\ buyBook' = buyBook
        /\ job'.task = "adjust" /\ job'.step = "next" /\ job'.todo \subseteq job.todo
    BY <1>1, <1>2 DEF P!LeaveOrder, P!Waiting, P!Skip, P!JobType
  <2>2. Eases
    BY <2>1 DEF Eases
  <2>. QED  BY <1>1, <2>1, <2>2, SameEffect, SameSignals, BookSame, NoneBefallen, EasedSound
<1>3. ASSUME NEW o \in P!Orders, P!CancelAbove(o) PROVE P!Account' /\ P!Limit'
  <2>1. /\ job.task = "adjust" /\ job.step = "next" /\ rows' = rows /\ P!Happens("above")
        /\ job'.task = "adjust" /\ job'.step = "gone"
    BY <1>1, <1>3 DEF P!CancelAbove, P!Waiting, P!JobType
  <2>2. \A p \in P!Orders : /\ buyBook'[p].sym = buyBook[p].sym /\ buyBook'[p].by = buyBook[p].by
                            /\ buyBook'[p].st \in {buyBook[p].st, "cancelled"}
    BY <1>1, <1>3 DEF P!CancelAbove, P!BookType
  <2>3. Fades /\ Rejects({})
    BY <2>2 DEF Fades, Rejects, P!ByUs
  <2>4. RowsRise({}) /\ RowsHold /\ RowsFail({})
    BY <2>1, SameEffect
  <2>5. P!Account'
    <3>1. P!Quiet'
      BY <1>1, <2>1, <2>4, QuietStays DEF P!Account, P!Buying
    <3>2. P!Followed'
      BY <2>1, <2>3, <2>4, FollowedStays DEF P!Account, Fades
    <3>3. ~P!Unexposed({"above"})'
      BY <2>1 DEF P!Unexposed, P!Happens
    <3>. QED  BY <3>1, <3>2, <3>3 DEF P!Account
  <2>6. P!Limit'
    <3>. SUFFICES ASSUME P!OneFailure PROVE P!OneTrouble' /\ P!Bounded'
      BY DEF P!Limit, P!OneFailure
    <3>1. faults \subseteq allowed /\ \A r \in P!Rows : ~P!Retryable(r)'
      BY <2>1 DEF P!Typed, P!Around, P!Retryable
    <3>2. P!OneTrouble'
      BY <2>3, <2>4, <3>1, TroubleStays DEF P!Limit
    <3>3. P!InFlight' \subseteq P!InFlight
      BY <1>1, <2>4, FlightRises
    <3>4. P!Bounded'
      BY <2>1, <3>3, BoundedStays DEF P!Limit, P!Placing
    <3>. QED  BY <3>2, <3>4
  <2>. QED  BY <2>5, <2>6
<1>4. CASE P!WriteOff
  <2>1. /\ job.step = "gone" /\ job.task = "adjust" /\ buyBook' = buyBook /\ job.order \in P!Orders
        /\ buyBook[job.order].st # "open"
    BY <1>4 DEF P!WriteOff, P!Typed, P!JobWell, P!Works, P!Single, P!InHands
  <2>2. Eases
    BY <1>1, <1>4, <2>1 DEF P!WriteOff, P!Over, P!JobType, Eases
  <2>3. ~P!Unexposed({"above"})
    BY <2>1 DEF P!Account, P!Explained
  <2>4. RowsRise({}) /\ RowsHold /\ RowsName /\ RowsFail({})
    <3>1. CASE rows' = rows
      BY <3>1, SameEffect
    <3>2. CASE rows' = [r \in P!Rows |-> IF r \in {q \in P!Rows : rows[q].order = job.order}
                                        THEN [rows[r] EXCEPT !.st = "cancelled"] ELSE rows[r]]
      <4>1. \A r \in P!Rows :
               \/ rows'[r] = rows[r]
               \/ /\ rows[r].order = job.order /\ rows'[r].st = "cancelled"
                  /\ rows'[r].sym = rows[r].sym
        BY <1>1, <3>2 DEF P!RowType
      <4>2. RowsRise({})
        BY <4>1, PendingMeans DEF RowsRise
      <4>3. RowsHold
        BY <2>1, <4>1 DEF RowsHold, Waits
      <4>. QED  BY <4>1, <4>2, <4>3 DEF RowsName, RowsFail
    <3>. QED  BY <1>4, <3>1, <3>2 DEF P!WriteOff
  <2>. QED  BY <1>1, <2>1, <2>2, <2>3, <2>4, BookSame, NoneBefallen, EasedSound
<1>5. CASE P!EndTask
  <2>1. /\ job' = P!Ready /\ job.step = "next" /\ rows' = P!Tidy(rows, P!Ready) /\ buyBook' = buyBook
    BY <1>5 DEF P!EndTask
  <2>2. Eases /\ job'.task = "none"
    BY <2>1, ReadyFields DEF Eases
  <2>3. RowsRise({}) /\ RowsShow /\ RowsHold /\ RowsFail({})
    BY <2>1, TidyEffect
  <2>. QED  BY <1>1, <2>1, <2>2, <2>3, SameSignals, BookSame, NoneBefallen, EasedSound
<1>. QED  BY <1>2, <1>3, <1>4, <1>5

LEMMA OthersSound ==
    ASSUME P!PlacementAssumption, P!Typed, P!Lossless, P!Single, P!Account, P!Limit,
           allowed' = allowed, faults \subseteq faults', P!Others
    PROVE  P!Account' /\ P!Limit'
<1>1. /\ job \in P!JobType /\ P!Works /\ rows \in [P!Rows -> P!RowType]
      /\ buyBook \in [P!Orders -> P!BookType] /\ signal \in [Symbols -> P!SignalType]
      /\ \A o \in P!Orders : buyBook[o].st = "open" => buyBook[o].sym \in Symbols
  BY DEF P!Typed, P!Tables, P!Sheets, P!BookWell, P!JobWell
<1>2. job' = job => Eases
  BY <1>1 DEF Eases, P!Works, P!Ready
<1>3. ASSUME NEW s \in Symbols, P!Sale(s) \/ P!Decide(s) PROVE P!Account' /\ P!Limit'
  <2>1. /\ rows' = rows /\ buyBook' = buyBook /\ UNCHANGED <<phase, done, bought, job>>
        /\ positions' \subseteq positions
    BY <1>3 DEF P!Sale, P!Decide
  <2>2. SignalsSink
    <3>1. CASE signal' = signal
      BY <3>1, SameSignals
    <3>2. ASSUME NEW u \in {"rejected", "none"}, signal' = [signal EXCEPT ![s].user = u]
          PROVE  SignalsSink
      <4>1. \A x \in Symbols : /\ signal'[x].base = signal[x].base
                               /\ signal'[x].user \in {signal[x].user, "rejected", "none"}
        BY <1>1, <3>2 DEF P!SignalType
      <4>. QED  BY <4>1 DEF SignalsSink
    <3>. QED  BY <1>3, <3>1, <3>2 DEF P!Sale, P!Decide
  <2>. QED  BY <1>2, <2>1, <2>2, SameEffect, BookSame, NoneBefallen, EasedSound
<1>4. ASSUME NEW r \in P!Rows, P!Drop(r) PROVE P!Account' /\ P!Limit'
  <2>1. /\ rows[r].st = "failed" /\ P!Settle(r, "cancelled") /\ buyBook' = buyBook
        /\ UNCHANGED <<phase, done, bought, positions, job>>
    BY <1>4 DEF P!Drop
  <2>2. /\ RowsRise({}) /\ RowsShow /\ RowsHold /\ RowsName /\ SignalsSink /\ RowsFail({})
    BY <2>1, StatusEffect
  <2>. QED  BY <1>2, <2>1, <2>2, BookSame, NoneBefallen, EasedSound
<1>5. ASSUME rows' = rows, signal' = signal, Fades, UNCHANGED <<phase, done, bought, positions, job>>,
             NEW F, Rejects(F), Befalls(F)
      PROVE  P!Account' /\ P!Limit'
  <2>1. RowsFail(F)
    BY <1>5 DEF RowsFail
  <2>. QED  BY <1>2, <1>5, <2>1, SameEffect, SameSignals, EasedSound
<1>6. ASSUME NEW o \in P!Orders, P!Reject(o) PROVE P!Account' /\ P!Limit'
  <2>1. /\ rows' = rows /\ signal' = signal /\ P!Happens("rejected")
        /\ UNCHANGED <<phase, done, bought, positions, job>>
        /\ buyBook'[o].sym = buyBook[o].sym /\ buyBook'[o].st = "rejected"
        /\ \A p \in P!Orders : p # o => buyBook'[p] = buyBook[p]
    BY <1>1, <1>6 DEF P!Reject, P!BookType
  <2>2. Fades /\ Rejects({buyBook[o].sym})
    BY <2>1 DEF Fades, Rejects, P!ByUs
  <2>3. Befalls({buyBook[o].sym})
    BY <2>1 DEF Befalls, P!Failures
  <2>. QED  BY <1>5, <2>1, <2>2, <2>3
<1>7. ASSUME NEW o \in P!Orders, P!Fill(o) PROVE P!Account' /\ P!Limit'
  <2>1. /\ rows' = rows /\ signal' = signal
        /\ UNCHANGED <<phase, done, bought, positions, job>>
        /\ buyBook'[o].st = "filled" /\ \A p \in P!Orders : p # o => buyBook'[p] = buyBook[p]
    BY <1>1, <1>7 DEF P!Fill, P!BookType
  <2>2. Fades /\ Rejects({})
    BY <2>1 DEF Fades, Rejects, P!ByUs
  <2>. QED  BY <1>5, <2>1, <2>2, NoneBefallen
<1>8. ASSUME NEW s \in Symbols, P!ManualOrder(s) PROVE P!Account' /\ P!Limit'
  <2>1. /\ rows' = rows /\ signal' = signal
        /\ UNCHANGED <<phase, done, bought, positions, job>>
    BY <1>8 DEF P!ManualOrder
  <2>2. /\ P!FreeOrder \in P!Orders /\ buyBook'[P!FreeOrder].st = "open"
        /\ buyBook'[P!FreeOrder].by = "user"
        /\ \A o \in P!Orders : o # P!FreeOrder => buyBook'[o] = buyBook[o]
    BY <1>1, <1>8, FreeNumber DEF P!ManualOrder
  <2>3. Fades /\ Rejects({})
    BY <2>2 DEF Fades, Rejects, P!ByUs
  <2>. QED  BY <1>5, <2>1, <2>3, NoneBefallen
<1>9. ASSUME NEW r \in P!Rows, P!Learn(r) PROVE P!Account' /\ P!Limit'
  <2>. DEFINE s == rows[r].sym
  <2>1. /\ phase = "open" /\ buyBook' = buyBook /\ UNCHANGED <<phase, done, job>>
    BY <1>9 DEF P!Learn
  <2>2. /\ rows[r].st = "pending" /\ rows[r].order \in P!Orders /\ s \in Symbols
        /\ \A q \in P!Rows : q # r => rows'[q] = rows[q]
    BY <1>9, LearnRows
  <2>3. job.task # "retry"
    BY <1>1, <2>1 DEF P!Works, P!Buying
  <2>4. Eases /\ Fades
    BY <1>2, <2>1, BookSame
  <2>5. CASE buyBook[rows[r].order].st = "filled" /\ rows'[r] = P!NoRow
    <3>1. /\ signal' = signal /\ bought' = bought \cup {s} /\ positions' = positions \cup {s}
      BY <1>9, <2>5 DEF P!Learn
    <3>2. rows'[r].st = "none"
      BY <2>5 DEF P!NoRow
    <3>3. RowsRise({})
      BY <2>2, <3>2, PendingMeans DEF RowsRise
    <3>4. RowsShow
      BY <2>2, <3>1, PendingMeans DEF RowsShow
    <3>5. RowsHold /\ RowsFail({})
      BY <2>1, <2>2, <2>5, <3>2 DEF RowsHold, RowsFail, Waits
    <3>6. P!Pending(rows, s)
      BY <2>2, PendingMeans
    <3>7. P!InFlight' \subseteq P!InFlight
      BY <3>1, <3>3, <3>6, PendingNext DEF P!InFlight, RowsRise
    <3>8. P!Account'
      <4>1. bought \subseteq bought' /\ positions' \subseteq positions \cup bought'
        BY <3>1
      <4>. QED  BY <2>1, <2>4, <3>1, <3>3, <3>4, <3>5, <4>1, SameSignals, EasedAccount
    <3>9. P!Limit'
      BY <2>1, <2>3, <2>4, <3>5, <3>7, BookSame, NoneBefallen, EasedLimit
    <3>. QED  BY <3>8, <3>9
  <2>6. ASSUME NEW st \in {"failed", "cancelled"}, P!Settle(r, st), UNCHANGED <<bought, positions>>,
               buyBook[rows[r].order].st = IF st = "failed" THEN "rejected" ELSE "cancelled"
        PROVE  P!Account' /\ P!Limit'
    <3>1. rows[r].st # "none" /\ ~Waits(rows[r].order)
      BY <2>1, <2>2, <2>6 DEF Waits
    <3>2. /\ RowsRise({}) /\ RowsShow /\ RowsHold /\ RowsName /\ SignalsSink
          /\ RowsFail({s}) /\ (st = "cancelled" => RowsFail({}))
      BY <2>6, <3>1, StatusEffect
    <3>3. st = "failed" => Befalls({s})
      <4>1. buyBook[rows[r].order].sym = s
        BY <2>2, PlacementSets DEF P!Single, P!Linked
      <4>. QED  BY <2>2, <2>6, <4>1 DEF Befalls, P!Troubled
    <3>. QED  BY <2>1, <2>4, <2>6, <3>2, <3>3, BookSame, NoneBefallen, EasedSound
  <2>7. \/ buyBook[rows[r].order].st = "filled" /\ rows' = [rows EXCEPT ![r] = P!NoRow]
        \/ \E st \in {"failed", "cancelled"} :
              /\ P!Settle(r, st) /\ UNCHANGED <<bought, positions>>
              /\ buyBook[rows[r].order].st = IF st = "failed" THEN "rejected" ELSE "cancelled"
    BY <1>9 DEF P!Learn
  <2>8. rows' = [rows EXCEPT ![r] = P!NoRow] => rows'[r] = P!NoRow
    BY <1>1
  <2>. QED  BY <2>5, <2>6, <2>7, <2>8
<1>. QED  BY <1>3, <1>4, <1>6, <1>7, <1>8, <1>9, LosslessExcludes DEF P!Others, P!Crash

-----------------------------------------------------------------------------
(* The start of the tasks, and the day *)

\* Where no worker has anything, and none retries, room and trouble are those of the tables.
LEMMA IdleLimit ==
    ASSUME P!PlacementAssumption, P!Typed, P!Limit, UNCHANGED allowed, faults \subseteq faults',
           RowsRise({}), RowsFail({}), Rejects({}), positions' \subseteq positions,
           job'.step \in {"next", "gone"}, job'.task # "retry"
    PROVE  P!Limit'
<1>. SUFFICES ASSUME P!OneFailure PROVE P!OneTrouble' /\ P!Bounded'
  BY DEF P!Limit, P!OneFailure
<1>1. faults \subseteq allowed /\ \A r \in P!Rows : ~P!Retryable(r)'
  BY DEF P!Typed, P!Around, P!Retryable
<1>2. P!OneTrouble'
  BY <1>1, TroubleStays DEF P!Limit
<1>3. P!InFlight' \subseteq P!InFlight
  BY FlightRises
<1>4. P!Bounded'
  BY <1>3, BoundedStays DEF P!Limit, P!Placing
<1>. QED  BY <1>2, <1>4

LEMMA StartsSound ==
    ASSUME P!PlacementAssumption, P!Typed, P!Lossless, P!Single, P!Account, P!Limit,
           allowed' = allowed, faults \subseteq faults', P!StartEntries \/ P!StartAdjust
    PROVE  P!Account' /\ P!Limit'
<1>1. /\ job = P!Ready /\ job.task = "none" /\ job.step = "next"
      /\ rows' = rows /\ buyBook' = buyBook /\ UNCHANGED <<signal, bought, positions, phase>>
  BY ReadyFields DEF P!Idle, P!StartEntries, P!StartAdjust
<1>2. /\ RowsRise({}) /\ RowsShow /\ RowsHold /\ RowsFail({}) /\ Fades /\ Rejects({})
  BY <1>1, SameEffect, BookSame
<1>3. done \in [{"buys", "retry", "adjust", "analysis", "preview"} -> BOOLEAN]
  BY DEF P!Typed, P!Around
<1>4. ASSUME job'.step = "next", job'.task # "retry", P!Quiet',
             job'.task = "preview" =>
                 \A s \in Symbols : s \in job'.todo => signal'[s].user # "traded"
      PROVE  P!Account' /\ P!Limit'
  <2>1. P!Limit'
    BY <1>1, <1>2, <1>4, IdleLimit
  <2>2. P!Followed'
    BY <1>1, <1>2, FollowedStays DEF P!Account, Fades
  <2>3. P!Unexposed({"above"}) => P!Explained'
    BY <1>1, <1>2, <1>4, ExplainedStays DEF P!Account, P!Explained
  <2>. QED  BY <1>4, <2>1, <2>2, <2>3 DEF P!Account, P!Unexposed
<1>5. CASE P!StartEntries
  <2>1. /\ job'.task \in {"buys", "preview"} /\ job'.step = "next" /\ job'.todo = P!Recommended
        /\ phase = IF job'.task = "preview" THEN "closed" ELSE "pre"
    BY <1>5, EntriesStart
  <2>2. \A s \in P!Recommended : signal[s].user = "none"
    BY DEF P!Recommended
  <2>3. job'.task = "buys" => ~done["buys"] /\ done'["buys"]
    <3>1. PICK task \in {"buys", "preview"} :
             /\ ~done[task] /\ done' = [done EXCEPT ![task] = TRUE] /\ job'.task = task
      <4>1. ASSUME NEW task \in {"buys", "preview"}, NEW blind \in BOOLEAN, NEW seen \in {{}, P!Live},
                   job' = [P!Ready EXCEPT !.task = task, !.todo = P!Recommended,
                                          !.blind = blind, !.seen = seen]
            PROVE  job'.task = task
        BY <4>1, ReadyFields DEF P!JobType
      <4>. QED  BY <1>5, <4>1 DEF P!StartEntries
    <3>. QED  BY <1>3, <3>1
  <2>4. P!Quiet'
    <3>1. job'.task = "buys" => \A s \in Symbols : ~P!Pending(rows', s)
      BY <1>1, <2>1, <2>3 DEF P!Account, P!Quiet
    <3>2. ~(phase' = "pre" /\ ~done'["buys"])
      BY <1>1, <2>1, <2>3
    <3>. QED  BY <2>1, <3>1, <3>2, PendingNext DEF P!Quiet
  <2>. QED  BY <1>1, <1>4, <2>1, <2>2, <2>4
<1>6. CASE P!StartAdjust
  <2>1. job'.task \in {"none", "adjust"} /\ job'.step = "next"
    <3>1. job' = P!Ready \/ job' = [P!Ready EXCEPT !.task = "adjust", !.todo = P!Live, !.seen = P!Live]
      BY <1>6 DEF P!StartAdjust
    <3>. QED  BY <3>1, ReadyFields DEF P!JobType
  <2>2. done'["buys"] = done["buys"]
    BY <1>3, <1>6 DEF P!StartAdjust
  <2>3. P!Quiet'
    BY <1>1, <1>2, <2>1, <2>2, QuietStays DEF P!Account, P!Buying
  <2>. QED  BY <1>4, <2>1, <2>3
<1>. QED  BY <1>5, <1>6

\* The rows that expire have failed, and no others are touched.
LEMMA RetrySound ==
    ASSUME P!PlacementAssumption, P!Typed, P!Lossless, P!Single, P!Account, P!Limit,
           allowed' = allowed, faults \subseteq faults', P!StartRetry
    PROVE  P!Account' /\ P!Limit'
<1>. DEFINE rs == [r \in P!Rows |-> IF r \in P!Expired THEN [rows[r] EXCEPT !.st = "cancelled"]
                                                       ELSE rows[r]]
            j == job'  t == P!Tidy(rs, j)
<1>1. /\ job.task = "none" /\ job.step = "next" /\ buyBook' = buyBook /\ done["buys"]
      /\ UNCHANGED <<bought, positions, phase>> /\ rows \in [P!Rows -> P!RowType]
      /\ done' = [done EXCEPT !["retry"] = TRUE]
      /\ done \in [{"buys", "retry", "adjust", "analysis", "preview"} -> BOOLEAN]
  BY ReadyFields DEF P!StartRetry, P!Idle, P!Typed, P!Tables, P!Sheets, P!Around
<1>2. /\ job'.task = "retry" /\ job'.step = "next"
      /\ \A r \in job'.todo : r \in P!Rows /\ rows'[r] = rows[r] /\ rows[r].st = "failed"
  BY RetryStart
<1>3. rows' = t /\ signal' = P!SignalsAfter(rs, {rows[r].sym : r \in P!Expired})
  BY DEF P!StartRetry
<1>4. /\ rs \in [P!Rows -> P!RowType]
      /\ \A r \in P!Rows : rs[r] = rows[r] \/ (rows[r].st = "failed" /\ rs[r].st = "cancelled")
  BY <1>1 DEF P!Expired, P!RowType
<1>. HIDE DEF rs, j
<1>5. \A r \in P!Rows : t[r] = rs[r] \/ (t[r] = P!NoRow /\ rs[r].st = "cancelled")
  BY <1>4, TidyRows
<1>6. P!NoRow.st = "none"
  BY DEF P!NoRow
<1>. HIDE DEF t
<1>7. \A r \in P!Rows : \/ rows'[r] = rows[r]
                        \/ rows[r].st \in {"failed", "cancelled"} /\ rows'[r].st \in {"none", "cancelled"}
  BY <1>3, <1>4, <1>5, <1>6
<1>8. SignalsSink
  BY <1>3, SignalsEffect
<1>9. RowsRise({}) /\ RowsShow
  BY <1>7, PendingMeans DEF RowsRise, RowsShow
<1>10. RowsHold /\ RowsFail({}) /\ Rejects({}) /\ Fades
  BY <1>1, <1>7, BookSame DEF RowsHold, RowsFail
<1>11. P!Quiet'
  <2>1. done'["buys"]
    BY <1>1
  <2>. QED  BY <1>2, <1>9, <2>1, QuietStays DEF P!Account
<1>12. P!Followed'
  BY <1>1, <1>10, FollowedStays DEF P!Account, Fades
<1>13. P!Unexposed({"above"}) => P!Explained'
  BY <1>1, <1>2, <1>8, <1>9, ExplainedStays DEF P!Account, P!Explained, SignalsSink
<1>14. P!OneFailure => P!OneTrouble'
  <2>1. faults \subseteq allowed
    BY DEF P!Typed, P!Around
  <2>2. \A r \in P!Rows : P!Retryable(r)' => rows'[r].sym = rows[r].sym /\ rows[r].st = "failed"
    BY <1>2 DEF P!Retryable, P!Placing
  <2>. QED  BY <1>10, <2>1, <2>2, TroubleStays DEF P!Limit
<1>15. P!OneFailure => P!Bounded'
  <2>. SUFFICES ASSUME P!OneFailure PROVE P!Bounded'
    OBVIOUS
  <2>1. P!InFlight' \subseteq P!InFlight /\ P!InFlight \in SUBSET Symbols
    BY <1>1, <1>9, FlightRises DEF P!InFlight
  <2>2. P!Fits(P!InFlight')
    BY <2>1, FitsLess DEF P!Limit, P!Bounded
  <2>3. job'.room => P!HasCapacity
    <3>1. ASSUME NEW blind \in BOOLEAN, NEW T,
                 job' = [P!Ready EXCEPT !.task = "retry", !.room = P!HasCapacity, !.blind = blind,
                                        !.todo = T]
          PROVE  job'.room = P!HasCapacity
      BY <3>1 DEF P!Ready
    <3>. QED  BY <3>1 DEF P!StartRetry
  <2>4. ASSUME job'.room, NEW r \in job'.todo PROVE P!Fits(P!InFlight' \cup {rows'[r].sym})
    <3>1. rows'[r].sym \in Symbols
      BY <1>2 DEF P!Typed, P!Tables, P!Sheets, P!RowsWell
    <3>2. P!Fits(P!InFlight \cup {rows'[r].sym})
      BY <2>3, <2>4, <3>1, FitsMore
    <3>3. P!InFlight \cup {rows'[r].sym} \in SUBSET Symbols
      BY <2>1, <3>1
    <3>4. P!InFlight' \cup {rows'[r].sym} \in SUBSET (P!InFlight \cup {rows'[r].sym})
      BY <2>1
    <3>. QED  BY <3>2, <3>3, <3>4, FitsLess
  <2>5. \A S : P!Fits(S)' <=> P!Fits(S)
    BY DEF P!Fits
  <2>. QED  BY <1>2, <2>2, <2>4, <2>5 DEF P!Bounded, P!Placing, P!Fits
<1>. QED  BY <1>11, <1>12, <1>13, <1>14, <1>15 DEF P!Account, P!Limit, P!OneFailure, P!Unexposed

LEMMA DaySound ==
    ASSUME P!PlacementAssumption, P!Typed, P!Lossless, P!Single, P!Account, P!Limit,
           allowed' = allowed, faults \subseteq faults', P!Analysis \/ P!Clock \/ P!Cleanup
    PROVE  P!Account' /\ P!Limit'
<1>1. /\ job' = job /\ job.task = "none" /\ job.step = "next" /\ UNCHANGED <<bought, positions>>
      /\ rows \in [P!Rows -> P!RowType] /\ buyBook \in [P!Orders -> P!BookType]
      /\ signal \in [Symbols -> P!SignalType]
  BY ReadyFields DEF P!Idle, P!Analysis, P!Clock, P!Cleanup, P!Typed, P!Tables, P!Sheets, P!BookWell
<1>2. ASSUME RowsRise({}), RowsHold, RowsFail({}), Rejects({}), Fades, P!Quiet',
             P!Unexposed({"above"}) =>
                 /\ RowsShow
                 /\ \A s \in Symbols : signal[s].base # "none" => signal'[s].base # "none"
                 /\ \A s \in Symbols : signal'[s].user = "traded" => signal[s].user = "traded" \/ s \in bought
      PROVE  P!Account' /\ P!Limit'
  <2>1. P!Limit'
    BY <1>1, <1>2, IdleLimit
  <2>2. P!Followed'
    BY <1>1, <1>2, FollowedStays DEF P!Account, Fades
  <2>3. P!Unexposed({"above"}) => P!Explained'
    BY <1>1, <1>2, ExplainedStays DEF P!Account, P!Explained
  <2>. QED  BY <1>2, <2>1, <2>2, <2>3 DEF P!Account, P!Unexposed
<1>3. CASE P!Analysis
  <2>1. /\ rows' = rows /\ buyBook' = buyBook /\ phase = "closed" /\ phase' = phase
        /\ \E buys \in SUBSET Symbols : signal' = [s \in Symbols |-> P!Analysed(s, s \in buys)]
    BY <1>3 DEF P!Analysis
  <2>2. /\ RowsRise({}) /\ RowsShow /\ RowsHold /\ RowsFail({}) /\ Fades /\ Rejects({})
    BY <2>1, SameEffect, BookSame
  <2>3. P!Quiet'
    BY <1>1, <2>1, <2>2, QuietStays DEF P!Account, P!Buying
  <2>4. \A s \in Symbols : /\ signal[s].base # "none" => signal'[s].base # "none"
                           /\ signal'[s].user = "traded" => signal[s].user = "traded"
    <3>1. PICK buys \in SUBSET Symbols : signal' = [s \in Symbols |-> P!Analysed(s, s \in buys)]
      BY <2>1
    <3>2. ASSUME NEW s \in Symbols, s \in buys
          PROVE  signal'[s].base # "none" /\ (signal'[s].user = "traded" => signal[s].user = "traded")
      BY <1>1, <3>1, <3>2 DEF P!Analysed, P!SignalType
    <3>3. ASSUME NEW s \in Symbols, s \notin buys
          PROVE  /\ signal[s].base # "none" => signal'[s].base # "none"
                 /\ signal'[s].user = "traded" => signal[s].user = "traded"
      BY <1>1, <3>1, <3>3 DEF P!Analysed, P!SignalType
    <3>. QED  BY <3>2, <3>3
  <2>. QED  BY <1>2, <2>2, <2>3, <2>4
<1>4. CASE P!Clock
  <2>1. rows' = rows /\ signal' = signal /\ phase' \in {"open", "closed"}
    BY <1>4 DEF P!Clock
  <2>2. \A o \in P!Orders : /\ buyBook'[o].sym = buyBook[o].sym /\ buyBook'[o].by = buyBook[o].by
                            /\ buyBook'[o].st \in {buyBook[o].st, "lapsed"}
    BY <1>1, <1>4 DEF P!Clock, P!BookType
  <2>3. Fades /\ Rejects({})
    BY <2>2 DEF Fades, Rejects, P!ByUs
  <2>4. /\ RowsRise({}) /\ RowsShow /\ RowsHold /\ RowsFail({})
    BY <2>1, SameEffect
  <2>5. P!Quiet'
    BY <1>1, <2>1, <2>4, QuietStays DEF P!Account, P!Buying
  <2>. QED  BY <1>2, <2>1, <2>3, <2>4, <2>5
<1>5. CASE P!Cleanup
  <2>1. P!NoRow.st = "none" /\ P!NotSent.st = "none"
    BY DEF P!NoRow, P!NotSent
  <2>2. \A r \in P!Rows :
           \/ rows'[r].st = "none"
           \/ /\ rows'[r].sym = rows[r].sym /\ rows'[r].st # "pending"
              /\ rows'[r].st = "failed" => rows[r].st = "failed"
    BY <1>5, <2>1, CleanRows
  <2>3. \A o \in P!Orders : buyBook'[o] = buyBook[o] \/ buyBook'[o].st = "none"
    BY <1>5, <2>1 DEF P!Cleanup
  <2>4. \A o \in P!Orders : buyBook[o].st # "open" /\ buyBook'[o].st # "open"
    <3>1. phase = "closed"
      BY <1>5 DEF P!Cleanup
    <3>2. \A o \in P!Orders : buyBook[o].st # "open"
      BY <3>1 DEF P!Single, P!Lapsed, P!Live
    <3>. QED  BY <2>3, <3>2
  <2>5. Fades /\ Rejects({})
    BY <2>3, <2>4 DEF Fades, Rejects, P!ByUs
  <2>6. \A s \in Symbols : ~P!Pending(rows', s)
    BY <2>2, PendingMeans
  <2>7. RowsRise({}) /\ RowsHold /\ RowsFail({})
    BY <2>2, <2>4, <2>6 DEF RowsRise, RowsHold, RowsFail, Waits
  <2>8. P!Quiet'
    BY <1>1, <2>6, PendingNext DEF P!Quiet, P!Buying
  <2>9. ASSUME P!Unexposed({"above"}), NEW s \in Symbols
        PROVE  /\ signal[s].base # "none" => signal'[s].base # "none"
               /\ signal'[s].user = "traded" => signal[s].user = "traded" \/ s \in bought
               /\ P!Pending(rows, s) => signal'[s].user # "traded"
    <3>1. P!Explained
      BY <2>9 DEF P!Account
    <3>2. positions \subseteq bought /\ signal[s].base # "none"
      BY <3>1 DEF P!Explained
    <3>3. \/ /\ signal'[s] = [signal[s] EXCEPT !.user = "failed"]
          \/ /\ ~P!Pending(rows, s)
             /\ \/ s \in positions /\ signal'[s] = [signal[s] EXCEPT !.user = "traded"]
                \/ signal'[s] = signal[s]
      BY <1>5, <3>2, PendingMeans DEF P!Cleanup
    <3>4. signal[s] \in P!SignalType
      BY <1>1
    <3>. QED  BY <3>2, <3>3, <3>4 DEF P!SignalType
  <2>10. P!Unexposed({"above"}) => RowsShow
    BY <2>9 DEF RowsShow
  <2>. QED  BY <1>2, <2>5, <2>7, <2>8, <2>9, <2>10
<1>. QED  BY <1>3, <1>4, <1>5

-----------------------------------------------------------------------------
(* No order too many, and none that is not accounted for *)

LEMMA PlacementSound ==
    ASSUME P!PlacementAssumption, P!Typed, P!SingleInv, P!SoundInv, [P!Next]_(P!vars)
    PROVE  P!SoundInv'
<1>1. CASE P!Next
  <2>1. allowed' = allowed /\ (P!Tasks \/ P!Others)
    BY <1>1 DEF P!Next, P!Keep
  <2>2. SUFFICES ASSUME P!Lossless PROVE P!Account' /\ P!Limit'
    BY <2>1 DEF P!SoundInv, P!Lossless, P!Unexposed
  <2>3. P!Account /\ P!Limit /\ P!Single
    BY <2>2, LosslessExcludes DEF P!SoundInv, P!SingleInv
  <2>4. faults \subseteq faults'
    BY <2>1, FaultsStay
  <2>5. CASE P!Proceed
    BY <2>1, <2>2, <2>3, <2>4, <2>5, EntriesSound, RetriesSound, UnplacedSound, PlacedSound,
       VerifySound, PremarketSound DEF P!Proceed
  <2>. QED  BY <2>1, <2>2, <2>3, <2>4, <2>5, StartsSound, RetrySound, DaySound, OthersSound DEF P!Tasks
<1>2. CASE UNCHANGED P!vars
  <2>1. UNCHANGED <<signal, rows, bought, buyBook, positions, phase, done, job, faults, allowed>>
    BY <1>2 DEF P!vars
  <2>. QED
    BY <2>1 DEF P!SoundInv, P!Lossless, P!Unexposed, P!Account, P!Quiet, P!Followed, P!Explained,
                P!Buying, P!Pending, P!RowsOf, P!ByUs, P!Limit, P!OneFailure, P!OneTrouble, P!Bounded,
                P!Troubled, P!Retryable, P!InFlight, P!Fits
<1>. QED  BY <1>1, <1>2

LEMMA PlacementSoundInit ==
    ASSUME P!PlacementAssumption, P!Init PROVE P!SoundInv
<1>1. /\ \A s \in Symbols : signal[s].base = "active" /\ signal[s].user = "none"
      /\ \A r \in P!Rows : rows[r].st = "none"
      /\ \A o \in P!Orders : buyBook[o].st = "none"
      /\ bought = {} /\ positions = {} /\ job.task = "none" /\ job.step = "next"
  BY ReadyFields DEF P!Init, P!NoRow, P!NotSent
<1>2. \A s : ~P!Pending(rows, s)
  BY <1>1, PendingMeans
<1>3. P!Account
  BY <1>1, <1>2 DEF P!Account, P!Quiet, P!Followed, P!Explained, P!Buying, P!ByUs
<1>4. P!OneTrouble
  BY <1>1 DEF P!OneTrouble, P!Troubled, P!Retryable
<1>5. P!Bounded
  <2>1. P!InFlight = {}
    BY <1>1, <1>2 DEF P!InFlight
  <2>2. P!Cardinality({}) = 0
    <3>1. P!Cardinality({}) = Cardinality({})
      BY DEF P!Cardinality, Cardinality
    <3>. QED  BY <3>1, FS_EmptySet
  <2>3. P!Fits(P!InFlight)
    BY <2>1, <2>2 DEF P!Fits, P!PlacementAssumption
  <2>. QED  BY <1>1, <2>3 DEF P!Bounded, P!Placing
<1>. QED  BY <1>3, <1>4, <1>5 DEF P!SoundInv, P!Limit

LEMMA TwoElements ==
    ASSUME NEW x, NEW y, x # y
    PROVE  IsFiniteSet({x, y}) /\ Cardinality({x, y}) = 2
<1>1. IsFiniteSet({x}) /\ Cardinality({x}) = 1
  BY FS_Singleton
<1>2. IsFiniteSet({x} \cup {y}) /\ Cardinality({x} \cup {y}) = 1 + 1
  <2>1. y \notin {x}
    OBVIOUS
  <2>. QED  BY <1>1, <2>1, FS_AddElement
<1>3. {x} \cup {y} = {x, y}
  OBVIOUS
<1>. QED  BY <1>2, <1>3

\* One kind of failure is possible where there is at most one.
LEMMA OneFailureMeans ==
    ASSUME P!Cardinality(allowed \cap P!Failures) <= 1 PROVE P!OneFailure
<1>. DEFINE S == allowed \cap P!Failures
<1>1. Cardinality(S) <= 1
  BY DEF P!Cardinality, Cardinality
<1>2. IsFiniteSet(S)
  <2>1. IsFiniteSet({"short", "margin"}) /\ IsFiniteSet({"refused", "rejected"})
    BY TwoElements
  <2>2. IsFiniteSet({"short", "margin"} \cup {"refused", "rejected"})
    BY <2>1, FS_Union
  <2>3. S \subseteq {"short", "margin"} \cup {"refused", "rejected"}
    BY DEF P!Failures
  <2>. QED  BY <2>2, <2>3, FS_Subset
<1>. SUFFICES ASSUME NEW k \in S, NEW l \in S, k # l PROVE FALSE
  BY DEF P!OneFailure
<1>. HIDE DEF S
<1>3. Cardinality({k, l}) = 2
  BY TwoElements
<1>4. Cardinality({k, l}) <= Cardinality(S)
  <2>1. {k, l} \subseteq S
    OBVIOUS
  <2>. QED  BY <1>2, <2>1, FS_Subset
<1>5. Cardinality(S) \in Nat
  BY <1>2, FS_CardinalityType
<1>. QED  BY <1>1, <1>3, <1>4, <1>5

\* Positions and the system's orders are in flight, or in the worker's hands.
LEMMA OrdersFit ==
    ASSUME P!PlacementAssumption, P!Typed, P!Lossless, P!Single, P!Account, P!Bounded
    PROVE  P!Fits({s \in Symbols : s \in positions \/ P!System(s) # {}})
<1>. DEFINE S == {s \in Symbols : s \in positions \/ P!System(s) # {}}
<1>1. P!InFlight \subseteq Symbols
  BY DEF P!InFlight
<1>2. ASSUME NEW s \in S
      PROVE  s \in P!InFlight \/ (job.step \in {"accepted", "traded"} /\ job.sym = s)
  <2>1. CASE s \in positions
    BY <2>1 DEF P!InFlight
  <2>2. ASSUME NEW o \in P!System(s)
        PROVE  s \in P!InFlight \/ (job.step \in {"accepted", "traded"} /\ job.sym = s)
    <3>1. o \in P!Orders /\ P!ByUs(o) /\ buyBook[o].sym = s
      BY <2>2 DEF P!System, P!Live, P!ByUs
    <3>2. ASSUME NEW r \in P!Rows, rows[r].st = "pending", rows[r].order = o PROVE s \in P!InFlight
      <4>1. rows[r].sym = s
        BY <3>1, <3>2, PlacementSets DEF P!Single, P!Linked
      <4>2. P!Pending(rows, s)
        BY <3>2, <4>1, PendingMeans
      <4>. QED  BY <4>2 DEF P!InFlight
    <3>3. CASE job.order = o /\ job.step \in {"accepted", "traded"}
      BY <3>1, <3>3 DEF P!Single, P!InHands, P!Placing
    <3>. QED  BY <3>1, <3>2, <3>3 DEF P!Account, P!Followed
  <2>. QED  BY <2>1, <2>2
<1>3. CASE job.step \in {"accepted", "traded"}
  <2>1. P!Buying /\ job.step \in P!Placing /\ job.sym \in Symbols
    BY <1>3 DEF P!Typed, P!JobWell, P!Works, P!Placing
  <2>2. P!Fits(P!InFlight \cup {job.sym})
    BY <2>1 DEF P!Bounded
  <2>3. P!InFlight \cup {job.sym} \in SUBSET Symbols /\ S \in SUBSET (P!InFlight \cup {job.sym})
    BY <1>1, <1>2, <2>1
  <2>. QED  BY <2>2, <2>3, FitsLess
<1>4. CASE job.step \notin {"accepted", "traded"}
  <2>1. S \in SUBSET P!InFlight
    BY <1>2, <1>4
  <2>. QED  BY <1>1, <2>1, FitsLess DEF P!Bounded
<1>. QED  BY <1>3, <1>4

\* No symbol has two orders; positions and orders stay within the limit where no order gets lost
\* and one kind of failure at most is possible; and where no order gets lost a row follows each
\* order once the market is open, and no signal shows a purchase that there is not.
THEOREM OrdersCorrect == ASSUME P!PlacementAssumption PROVE P!Spec => []P!OrdersSound
<1>1. P!Init => P!SoundInv
  BY PlacementSoundInit
<1>2. (P!Typed /\ P!SingleInv /\ P!SoundInv) /\ [P!Next]_(P!vars) => P!SoundInv'
  BY PlacementSound
<1>3. P!Typed /\ P!SingleInv /\ P!SoundInv /\ P!OnePerSymbol => P!OrdersSound
  <2>. SUFFICES ASSUME P!Typed, P!SingleInv, P!SoundInv, P!OnePerSymbol, P!Lossless
                PROVE  /\ P!Cardinality(allowed \cap P!Failures) <= 1 =>
                              P!Fits({s \in Symbols : s \in positions \/ P!System(s) # {}})
                       /\ P!Accounted
    BY DEF P!OrdersSound, P!OrdersBounded, P!Accounted, P!Fits
  <2>1. P!Account /\ P!Limit /\ P!Single
    BY LosslessExcludes DEF P!SoundInv, P!SingleInv
  <2>2. P!Cardinality(allowed \cap P!Failures) <= 1 =>
            P!Fits({s \in Symbols : s \in positions \/ P!System(s) # {}})
    BY <2>1, OneFailureMeans, OrdersFit DEF P!Limit
  <2>3. ASSUME phase = "open"
        PROVE  /\ \A s \in Symbols : \A o \in P!System(s) :
                     \E r \in P!Rows : rows[r].st = "pending" /\ rows[r].order = o
               /\ \A s \in Symbols : signal[s].user = "traded" /\ P!Unexposed({"above"})
                                      => P!Pending(rows, s) \/ s \in bought
    <3>1. job.step \notin {"accepted", "traded"}
      BY <2>3 DEF P!Typed, P!JobWell, P!Works, P!Placing
    <3>2. \A s \in Symbols : \A o \in P!System(s) : o \in P!Orders /\ P!ByUs(o)
      BY DEF P!System, P!Live, P!ByUs
    <3>. QED  BY <2>1, <3>1, <3>2 DEF P!Account, P!Followed, P!Explained
  <2>. QED  BY <2>2, <2>3 DEF P!Accounted
<1>4. P!Spec => [](P!Typed /\ P!SingleInv)
  BY PlacementHolds
<1>. QED  BY <1>1, <1>2, <1>3, <1>4, OneOrderCorrect, PTL DEF P!Spec
=============================================================================
