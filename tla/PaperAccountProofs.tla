--------------------------- MODULE PaperAccountProofs ---------------------------
(***************************************************************************)
(* Proofs about PaperAccount for any capital, any number of orders and     *)
(* every combination of events.                                            *)
(***************************************************************************)
EXTENDS PaperAccount, FiniteSetTheorems, TLAPS

-----------------------------------------------------------------------------
(* The invariant *)

OrderType == [side : {"buy", "sell"}, kind : {"limit", "market"}, amo : BOOLEAN,
              key : Keys, qty : Nat, file : {"none", "open", "executed", "cancelled", "rejected"},
              row : {"none", "pending", "closed", "cancelled", "failed"}, fills : Nat]
JobType   == [pc : {"ready", "adjust", "limits", "resize", "place", "check", "exit", "high", "rsi", "boot"},
              todo : SUBSET Orders, doing : Orders \cup {NoOrder}, step : {"none", "paid", "booked"},
              filled : BOOLEAN]

IsOpen(o) == orders[o].file = "open"

\* A pass holds orders that are open, the adjustment buys; the one that executes is among them,
\* and one that has sold is covered by the position until it is booked.
JobOK ==
    /\ job \in JobType
    /\ job.pc = "ready" => job.todo = {} /\ job.step = "none"
    /\ job.pc = "adjust" => job.step = "none" /\ \A o \in job.todo : orders[o].side = "buy"
    /\ \A o \in job.todo : IsOpen(o)
    /\ job.step # "none" => job.doing \in job.todo
    /\ job.step = "paid" /\ orders[job.doing].side = "sell" => orders[job.doing].qty <= position

Typed == TypeOK /\ JobOK

\* At most one order is open to buy under each name, and one row of a sell order is pending.
Buys(o)  == IsOpen(o) /\ orders[o].side = "buy"
Sells(o) == orders[o].side = "sell" /\ orders[o].row = "pending"
OneBuy   == \A o, p \in Orders : Buys(o) /\ Buys(p) /\ orders[o].key = orders[p].key => o = p
OneSell  == \A o, p \in Orders : Sells(o) /\ Sells(p) => o = p

\* An open order that is not just being saved has not filled yet.
FillsOK ==
    \A o \in Orders : /\ orders[o].fills <= 1
                      /\ IsOpen(o) /\ ~(job.step = "booked" /\ job.doing = o) => orders[o].fills = 0

\* A sell order has a row, where rows are written.
SellRows == \A o \in Orders : IsOpen(o) /\ orders[o].side = "sell" => orders[o].row # "none"

\* Between payment and commit, memory and position differ by the order that executes.
Booked ==
    IF job.step # "paid" THEN Shares = position
    ELSE IF orders[job.doing].side = "buy" THEN Shares = position + orders[job.doing].qty
    ELSE Shares = position - orders[job.doing].qty

BooksInv ==
    /\ Typed /\ OneBuy /\ OneSell
    /\ Unexposed({"norow"}) => SellRows
    /\ Unexposed({"crash"}) =>
           /\ FillsOK
           /\ Unexposed({"restart"}) \/ Unexposed({"dbfails", "norow"}) => cash + Shares = Capital
           /\ Unexposed({"dbfails", "norow"}) => Booked

-----------------------------------------------------------------------------
(* Orders *)

\* An order is carried over when it is forgotten, or only its file and its row may have been
\* closed; an open order that stays open keeps everything but its row.
Carried(a, b) ==
    \/ b = Blank
    \/ /\ b.side = a.side /\ b.key = a.key /\ b.qty = a.qty /\ b.fills = a.fills
       /\ b.file = "open" => a.file = "open"
       /\ b.row = "pending" => a.row = "pending"
       /\ b.row = "none" => a.row = "none"
       /\ a # Blank

\* An order nobody placed is neither open nor pending.
LEMMA BlankIs ==
    /\ Blank \in OrderType /\ Blank.side = "buy" /\ Blank.file = "none" /\ Blank.row = "none"
    /\ Blank.fills = 0 /\ Blank.amo = FALSE /\ Blank.qty = 0
BY DEF Blank, OrderType, Keys

\* The fields of a new order.
LEMMA NewFields ==
    /\ \A kind \in {"limit", "market"}, amo \in BOOLEAN, key \in Keys, qty \in Nat :
           LET new == BuyOrder(kind, amo, key, qty) IN
           /\ new \in OrderType /\ new.side = "buy" /\ new.key = key
           /\ new.row = "none" /\ new.fills = 0
    /\ \A kind \in {"limit", "market"}, qty \in Nat :
           LET new == SellOrder(kind, qty) IN
           /\ new \in OrderType /\ new.side = "sell" /\ new.row = "none" /\ new.fills = 0
<1>1. ASSUME NEW kind \in {"limit", "market"}, NEW amo \in BOOLEAN, NEW key \in Keys, NEW qty \in Nat
      PROVE  LET new == BuyOrder(kind, amo, key, qty) IN
             /\ new \in OrderType /\ new.side = "buy" /\ new.key = key
             /\ new.row = "none" /\ new.fills = 0
  BY DEF BuyOrder, Blank, OrderType
<1>2. ASSUME NEW kind \in {"limit", "market"}, NEW qty \in Nat
      PROVE  LET new == SellOrder(kind, qty) IN
             /\ new \in OrderType /\ new.side = "sell" /\ new.row = "none" /\ new.fills = 0
  BY DEF SellOrder, Blank, OrderType, Keys
<1> QED
  BY <1>1, <1>2

\* Orders nobody looks at are forgotten, the others stay.
LEMMA TidyIs ==
    ASSUME NEW os \in [Orders -> OrderType]
    PROVE  /\ Tidy(os) \in [Orders -> OrderType]
           /\ \A o \in Orders : \/ Tidy(os)[o] = os[o]
                                \/ Tidy(os)[o] = Blank /\ os[o].file # "open" /\ os[o].row # "pending"
BY BlankIs DEF Tidy

\* A cancelled order stays what it is, only that it is not open any more.
LEMMA CancelIs ==
    ASSUME NEW os \in [Orders -> OrderType], NEW S
    PROVE  /\ Cancel(os, S) \in [Orders -> OrderType]
           /\ \A o \in Orders : /\ Carried(os[o], Cancel(os, S)[o])
                                /\ o \notin S => Cancel(os, S)[o] = os[o]
                                /\ o \in S => Cancel(os, S)[o].file # "open"
<1>1. \A o \in Orders : Cancel(os, S)[o] = IF o \in S /\ os[o].file = "open"
                                           THEN [os[o] EXCEPT !.file = "cancelled",
                                                     !.row = IF os[o].row = "none" THEN "none" ELSE "cancelled"]
                                           ELSE os[o]
  BY DEF Cancel
<1>2. ASSUME NEW o \in Orders
      PROVE  /\ Cancel(os, S)[o] \in OrderType
             /\ Carried(os[o], Cancel(os, S)[o])
             /\ o \notin S => Cancel(os, S)[o] = os[o]
             /\ o \in S => Cancel(os, S)[o].file # "open"
  <2>1. CASE o \in S /\ os[o].file = "open"
    <3>1. PICK row \in {"none", "cancelled"} : /\ row = (IF os[o].row = "none" THEN "none" ELSE "cancelled")
                                               /\ Cancel(os, S)[o] = [os[o] EXCEPT !.file = "cancelled", !.row = row]
      BY <1>1, <2>1
    <3>2. os[o] \in OrderType /\ os[o] # Blank
      BY <2>1, BlankIs
    <3>3. /\ Cancel(os, S)[o] \in OrderType
          /\ Cancel(os, S)[o].file = "cancelled" /\ Cancel(os, S)[o].row = row
          /\ Cancel(os, S)[o].side = os[o].side /\ Cancel(os, S)[o].key = os[o].key
          /\ Cancel(os, S)[o].qty = os[o].qty /\ Cancel(os, S)[o].fills = os[o].fills
      BY <3>1, <3>2 DEF OrderType
    <3>4. Carried(os[o], Cancel(os, S)[o])
      BY <2>1, <3>1, <3>2, <3>3 DEF Carried
    <3> QED
      BY <2>1, <3>3, <3>4
  <2>2. CASE ~(o \in S /\ os[o].file = "open")
    BY <1>1, <2>2 DEF Carried
  <2> QED
    BY <2>1, <2>2
<1>3. Cancel(os, S) \in [Orders -> OrderType]
  <2>1. Cancel(os, S) = [o \in Orders |-> Cancel(os, S)[o]]
    BY DEF Cancel
  <2> QED
    BY <1>2, <2>1
<1> QED
  BY <1>2, <1>3

\* A replaced sell keeps everything but its pending row.
LEMMA ReplacedIs ==
    ASSUME NEW os \in [Orders -> OrderType]
    PROVE  /\ Replaced(os) \in [Orders -> OrderType]
           /\ \A o \in Orders : /\ Carried(os[o], Replaced(os)[o]) /\ Replaced(os)[o].side = os[o].side
                                /\ Replaced(os)[o].file = os[o].file
                                /\ ~(Replaced(os)[o].side = "sell" /\ Replaced(os)[o].row = "pending")
<1>1. ASSUME NEW a \in OrderType
      PROVE  LET b == [a EXCEPT !.row = "cancelled"] IN
             /\ b \in OrderType /\ b.row = "cancelled" /\ b.side = a.side /\ b.key = a.key
             /\ b.qty = a.qty /\ b.fills = a.fills /\ b.file = a.file
  BY DEF OrderType
<1>2. \A o \in Orders : Replaced(os)[o] = IF os[o].side = "sell" /\ os[o].row = "pending"
                                          THEN [os[o] EXCEPT !.row = "cancelled"] ELSE os[o]
  BY DEF Replaced
<1>3. Replaced(os) = [o \in Orders |-> Replaced(os)[o]]
  BY DEF Replaced
<1>4. \A o \in Orders : Replaced(os)[o] \in OrderType
  BY <1>1, <1>2
<1> QED
  <2>1. ASSUME NEW o \in Orders
        PROVE  /\ Carried(os[o], Replaced(os)[o]) /\ Replaced(os)[o].side = os[o].side
               /\ Replaced(os)[o].file = os[o].file
               /\ ~(Replaced(os)[o].side = "sell" /\ Replaced(os)[o].row = "pending")
    <3>1. CASE os[o].side = "sell" /\ os[o].row = "pending"
      <4>1. /\ Replaced(os)[o].row = "cancelled" /\ Replaced(os)[o].side = os[o].side
            /\ Replaced(os)[o].key = os[o].key /\ Replaced(os)[o].qty = os[o].qty
            /\ Replaced(os)[o].fills = os[o].fills /\ Replaced(os)[o].file = os[o].file
        BY <1>2, <3>1 DEF OrderType
      <4>2. os[o] # Blank
        BY <3>1, BlankIs
      <4> QED
        BY <4>1, <4>2 DEF Carried
    <3>2. CASE ~(os[o].side = "sell" /\ os[o].row = "pending")
      BY <1>2, <3>2 DEF Carried
    <3> QED
      BY <3>1, <3>2
  <2> QED
    BY <1>3, <1>4, <2>1

\* Carrying over twice is carrying over.
LEMMA CarriedTwice ==
    ASSUME NEW a, NEW b, NEW c, Carried(a, b), Carried(b, c)
    PROVE  Carried(a, c)
BY BlankIs DEF Carried

\* An order that is placed is open and has not filled; it has a row unless the row of another
\* buy is taken for it or the row cannot be written; the others are carried over and stay open.
LEMMA PlaceIs ==
    ASSUME NEW os \in [Orders -> OrderType], NEW o \in Orders, NEW new \in OrderType,
           new.row = "none", new.fills = 0, events \subseteq EventKinds, Place(os, o, new)
    PROVE  /\ orders' \in [Orders -> OrderType] /\ events' \subseteq EventKinds
           /\ orders'[o].file = "open" /\ orders'[o].fills = 0
           /\ orders'[o].side = new.side /\ orders'[o].key = new.key /\ orders'[o].qty = new.qty
           /\ \A p \in Orders \ {o} : /\ Carried(os[p], orders'[p])
                                      /\ os[p].file = "open" => orders'[p].file = "open" /\ orders'[p].side = os[p].side
           /\ new.side = "sell" /\ orders'[o].row = "pending" =>
                  \A p \in Orders \ {o} : ~(orders'[p].side = "sell" /\ orders'[p].row = "pending")
           /\ new.side = "sell" /\ "norow" \notin exposed => orders'[o].row = "pending"
<1> DEFINE before == IF new.side = "sell" THEN Replaced(os) ELSE os
<1>1. /\ before \in [Orders -> OrderType]
      /\ \A p \in Orders : /\ Carried(os[p], before[p]) /\ before[p].side = os[p].side /\ before[p].file = os[p].file
                           /\ new.side = "sell" => ~(before[p].side = "sell" /\ before[p].row = "pending")
  <2>1. \A p \in Orders : Carried(os[p], os[p])
    BY DEF Carried
  <2> QED
    BY <2>1, ReplacedIs
<1> HIDE DEF before
<1>2. ASSUME NEW base \in [Orders -> OrderType], NEW e \in OrderType, e.file = "open",
             orders' = Tidy([base EXCEPT ![o] = e])
      PROVE  /\ orders' \in [Orders -> OrderType] /\ orders'[o] = e
             /\ \A p \in Orders \ {o} : orders'[p] = base[p] \/ (orders'[p] = Blank /\ base[p].file # "open")
  <2>1. [base EXCEPT ![o] = e] \in [Orders -> OrderType]
    BY <1>2
  <2> QED
    BY <1>2, <2>1, TidyIs
<1>3. ASSUME NEW base \in {os, before}, NEW p \in Orders,
             orders'[p] = base[p] \/ (orders'[p] = Blank /\ base[p].file # "open")
      PROVE  /\ Carried(os[p], orders'[p])
             /\ os[p].file = "open" => orders'[p].file = "open" /\ orders'[p].side = os[p].side
  BY <1>1, <1>3, BlankIs DEF Carried
<1>4. CASE Happens("norow") /\ \E base \in {os, before} : orders' = Tidy([base EXCEPT ![o] = [new EXCEPT !.file = "open"]])
  <2>1. PICK base \in {os, before} : orders' = Tidy([base EXCEPT ![o] = [new EXCEPT !.file = "open"]])
    BY <1>4
  <2> DEFINE e == [new EXCEPT !.file = "open"]
  <2>2. /\ e \in OrderType /\ e.file = "open" /\ e.row = "none" /\ e.fills = 0 /\ e.side = new.side
        /\ e.key = new.key /\ e.qty = new.qty
    BY DEF OrderType
  <2>3. orders' = Tidy([base EXCEPT ![o] = e]) /\ base \in [Orders -> OrderType]
    BY <1>1, <2>1
  <2> HIDE DEF e
  <2>4. /\ orders' \in [Orders -> OrderType] /\ orders'[o] = e
        /\ \A p \in Orders \ {o} : orders'[p] = base[p] \/ (orders'[p] = Blank /\ base[p].file # "open")
    BY <1>2, <2>2, <2>3
  <2>5. "norow" \in exposed /\ events' \subseteq EventKinds
    BY <1>4 DEF Happens, EventKinds
  <2> QED
    BY <1>3, <2>2, <2>4, <2>5
<1>5. CASE /\ orders' = Tidy([before EXCEPT ![o] =
                     [new EXCEPT !.file = "open",
                                 !.row = IF new.side = "buy" /\ RowTaken(os, new.key)
                                         THEN "none" ELSE "pending"]])
           /\ UNCHANGED events
  <2>1. PICK row \in {"none", "pending"} : row = IF new.side = "buy" /\ RowTaken(os, new.key)
                                                 THEN "none" ELSE "pending"
    OBVIOUS
  <2> DEFINE e == [new EXCEPT !.file = "open", !.row = row]
  <2>2. /\ e \in OrderType /\ e.file = "open" /\ e.row = row /\ e.fills = 0 /\ e.side = new.side
        /\ e.key = new.key /\ e.qty = new.qty
    BY DEF OrderType
  <2>3. orders' = Tidy([before EXCEPT ![o] = e])
    BY <1>5, <2>1
  <2> HIDE DEF e
  <2>4. /\ orders' \in [Orders -> OrderType] /\ orders'[o] = e
        /\ \A p \in Orders \ {o} : orders'[p] = before[p] \/ (orders'[p] = Blank /\ before[p].file # "open")
    BY <1>1, <1>2, <2>2, <2>3
  <2>5. new.side = "sell" => row = "pending" /\ \A p \in Orders \ {o} : ~(orders'[p].side = "sell" /\ orders'[p].row = "pending")
    BY <1>1, <2>1, <2>4, BlankIs
  <2>6. \A p \in Orders \ {o} : /\ Carried(os[p], orders'[p])
                                /\ os[p].file = "open" => orders'[p].file = "open" /\ orders'[p].side = os[p].side
    BY <1>3, <2>4
  <2> QED
    BY <1>5, <2>2, <2>4, <2>5, <2>6
<1> QED
  BY <1>4, <1>5 DEF Place, before

\* An order that is refused, or fails, is carried over; the others stay.
LEMMA MarkedIs ==
    ASSUME orders \in [Orders -> OrderType], NEW o \in Orders, orders[o].file = "open",
           NEW file \in {"open", "rejected"}, Marked(o, file, "failed")
    PROVE  /\ orders' \in [Orders -> OrderType]
           /\ \A p \in Orders : Carried(orders[p], orders'[p])
           /\ \A p \in Orders \ {o} : orders[p].file = "open" => orders'[p] = orders[p]
<1> DEFINE e == [orders[o] EXCEPT !.file = file, !.row = IF @ = "none" THEN "none" ELSE "failed"]
<1>1. /\ e \in OrderType /\ e.side = orders[o].side /\ e.key = orders[o].key /\ e.qty = orders[o].qty
      /\ e.fills = orders[o].fills /\ e.row \in {"none", "failed"} /\ (e.row = "none" => orders[o].row = "none")
  BY DEF OrderType
<1>2. orders' = Tidy([orders EXCEPT ![o] = e])
  <2>1. [orders EXCEPT ![o] = e] = [orders EXCEPT ![o].file = file,
                                                  ![o].row = IF @ = "none" THEN "none" ELSE "failed"]
    OBVIOUS
  <2> QED
    BY <2>1 DEF Marked
<1> HIDE DEF e
<1>3. [orders EXCEPT ![o] = e] \in [Orders -> OrderType]
  BY <1>1
<1>4. orders[o] # Blank
  BY BlankIs
<1>5. Carried(orders[o], e) /\ \A p \in Orders : Carried(orders[p], orders[p]) /\ Carried(orders[p], Blank)
  BY <1>1, <1>4 DEF Carried
<1> QED
  BY <1>2, <1>3, <1>5, TidyIs

-----------------------------------------------------------------------------
(* Steps *)

\* No order has filled twice, and none that is open has filled.
Unfilled == \A o \in Orders : orders[o].fills <= 1 /\ (IsOpen(o) => orders[o].fills = 0)

\* Orders that are carried over keep what the invariant says of them.
LEMMA CarriedKeeps ==
    ASSUME \A o \in Orders : Carried(orders[o], orders'[o])
    PROVE  /\ OneBuy => OneBuy'
           /\ OneSell => OneSell'
           /\ SellRows => SellRows'
           /\ Unfilled => Unfilled'
<1>1. OneBuy => OneBuy'
  BY BlankIs DEF OneBuy, Buys, IsOpen, Carried
<1>2. OneSell => OneSell'
  BY BlankIs DEF OneSell, Sells, Carried
<1>3. SellRows => SellRows'
  BY BlankIs DEF SellRows, IsOpen, Carried
<1>4. Unfilled => Unfilled'
  BY BlankIs DEF Unfilled, IsOpen, Carried
<1> QED
  BY <1>1, <1>2, <1>3, <1>4

\* So do orders one of which is new: a buy when no other is open under its name, a sell when no
\* other row of a sell is pending.
LEMMA AddedKeeps ==
    ASSUME NEW n \in Orders, \A o \in Orders \ {n} : Carried(orders[o], orders'[o]),
           orders'[n].file = "open", orders'[n].fills = 0,
           orders'[n].side = "buy" =>
               \A o \in Orders \ {n} : Buys(o)' => orders'[o].key # orders'[n].key,
           Sells(n)' => \A o \in Orders \ {n} : ~Sells(o)'
    PROVE  /\ OneBuy => OneBuy'
           /\ OneSell => OneSell'
           /\ SellRows /\ (orders'[n].side = "sell" => orders'[n].row # "none") => SellRows'
           /\ Unfilled => Unfilled'
<1>1. OneBuy => OneBuy'
  <2> SUFFICES ASSUME OneBuy, NEW o \in Orders, NEW p \in Orders, Buys(o)', Buys(p)',
                      orders'[o].key = orders'[p].key
               PROVE  o = p
    BY DEF OneBuy
  <2>1. CASE o = n \/ p = n
    BY <2>1 DEF Buys, IsOpen
  <2>2. CASE o # n /\ p # n
    BY <2>2, BlankIs DEF OneBuy, Buys, IsOpen, Carried
  <2> QED
    BY <2>1, <2>2
<1>2. OneSell => OneSell'
  <2> SUFFICES ASSUME OneSell, NEW o \in Orders, NEW p \in Orders, Sells(o)', Sells(p)' PROVE o = p
    BY DEF OneSell
  <2>1. CASE o = n \/ p = n
    BY <2>1
  <2>2. CASE o # n /\ p # n
    BY <2>2, BlankIs DEF OneSell, Sells, Carried
  <2> QED
    BY <2>1, <2>2
<1>3. SellRows /\ (orders'[n].side = "sell" => orders'[n].row # "none") => SellRows'
  BY BlankIs DEF SellRows, IsOpen, Carried
<1>4. Unfilled => Unfilled'
  BY BlankIs DEF Unfilled, IsOpen, Carried
<1> QED
  BY <1>1, <1>2, <1>3, <1>4

\* A step between two executions that moves neither money nor shares.
LEMMA StillStep ==
    ASSUME BooksInv, Typed', UNCHANGED <<cash, held, position, exposed>>,
           job.step = "none", job'.step = "none",
           OneBuy', OneSell', Unexposed({"norow"}) => SellRows', Unfilled => Unfilled'
    PROVE  BooksInv'
<1>1. Unexposed({"crash"}) => FillsOK'
  <2> SUFFICES ASSUME Unexposed({"crash"}) PROVE FillsOK'
    OBVIOUS
  <2>1. Unfilled
    BY DEF BooksInv, FillsOK, Unfilled
  <2> QED
    BY <2>1 DEF FillsOK, Unfilled
<1>2. Shares' = Shares
  BY DEF Shares
<1>3. Booked <=> Booked'
  BY <1>2 DEF Booked
<1>4. \A S : Unexposed(S)' <=> Unexposed(S)
  BY DEF Unexposed
<1> QED
  BY <1>1, <1>2, <1>3, <1>4 DEF BooksInv

\* Orders are carried over.
LEMMA QuietStep ==
    ASSUME BooksInv, Typed', UNCHANGED <<cash, held, position, exposed>>,
           job.step = "none", job'.step = "none",
           \A o \in Orders : Carried(orders[o], orders'[o])
    PROVE  BooksInv'
BY CarriedKeeps, StillStep DEF BooksInv

\* An order is placed after some were cancelled.
LEMMA PlacedStep ==
    ASSUME BooksInv, Typed', UNCHANGED <<cash, held, position, exposed>>,
           job.step = "none", job'.step = "none",
           NEW S, NEW new \in OrderType, new.row = "none", new.fills = 0,
           NEW n \in Orders, Place(Cancel(orders, S), n, new),
           new.side = "buy" => \A o \in Orders \ S : Buys(o) => orders[o].key # new.key
    PROVE  BooksInv'
<1> DEFINE os == Cancel(orders, S)
<1>1. orders \in [Orders -> OrderType] /\ events \subseteq EventKinds
  BY DEF BooksInv, Typed, TypeOK, OrderType
<1>2. /\ os \in [Orders -> OrderType]
      /\ \A o \in Orders : /\ Carried(orders[o], os[o])
                           /\ o \notin S => os[o] = orders[o]
                           /\ o \in S => os[o].file # "open"
  BY <1>1, CancelIs
<1>3. n \in Orders /\ Place(os, n, new)
  OBVIOUS
<1> HIDE DEF os
<1>4. /\ orders'[n].file = "open" /\ orders'[n].fills = 0
      /\ orders'[n].side = new.side /\ orders'[n].key = new.key
      /\ \A p \in Orders \ {n} : Carried(os[p], orders'[p])
      /\ new.side = "sell" /\ orders'[n].row = "pending" =>
             \A p \in Orders \ {n} : ~(orders'[p].side = "sell" /\ orders'[p].row = "pending")
      /\ new.side = "sell" /\ "norow" \notin exposed => orders'[n].row = "pending"
  BY <1>1, <1>2, <1>3, PlaceIs
<1>5. \A p \in Orders \ {n} : Carried(orders[p], orders'[p])
  BY <1>2, <1>4, CarriedTwice
<1>6. ASSUME new.side = "buy", NEW o \in Orders \ {n}, Buys(o)' PROVE orders'[o].key # new.key
  <2>1. orders'[o].file = "open" /\ orders'[o].side = "buy"
    BY <1>6 DEF Buys, IsOpen
  <2>2. os[o].file = "open" /\ os[o].side = "buy" /\ os[o].key = orders'[o].key
    BY <1>4, <2>1, BlankIs DEF Carried
  <2>3. o \notin S /\ os[o] = orders[o]
    BY <1>2, <2>2
  <2> QED
    BY <1>6, <2>2, <2>3 DEF Buys, IsOpen
<1>7. Sells(n)' => \A o \in Orders \ {n} : ~Sells(o)'
  BY <1>4 DEF Sells
<1>8. Unexposed({"norow"}) => "norow" \notin exposed
  BY DEF Unexposed
<1> QED
  BY <1>3, <1>4, <1>5, <1>6, <1>7, <1>8, AddedKeeps, StillStep DEF BooksInv

\* A service that begins a step goes through orders that are open.
LEMMA StepIs ==
    ASSUME NEW pc \in {"ready", "adjust", "limits", "resize", "place", "check", "exit", "high", "rsi", "boot"},
           NEW S \in SUBSET Orders, Step(pc, S),
           pc = "ready" => S = {}, \A o \in S : orders'[o].file = "open",
           pc = "adjust" => \A o \in S : orders'[o].side = "buy"
    PROVE  JobOK' /\ job'.step = "none"
<1>1. /\ job' \in JobType /\ job'.pc = pc /\ job'.todo = S /\ job'.step = "none"
  BY DEF Step, Ready, JobType
<1> QED
  BY <1>1 DEF JobOK, IsOpen

\* A service that is done with an order goes on with the others.
LEMMA DropIs ==
    ASSUME JobOK, NEW o, job' = [job EXCEPT !.todo = @ \ {o}], job.step = "none",
           \A p \in job.todo \ {o} : orders'[p].file = "open" /\ orders'[p].side = orders[p].side
    PROVE  JobOK' /\ job'.step = "none"
<1>1. /\ job' \in JobType /\ job'.pc = job.pc /\ job'.todo = job.todo \ {o} /\ job'.step = "none"
  BY DEF JobOK, JobType
<1> QED
  BY <1>1 DEF JobOK, IsOpen

\* What a step starts from.
LEMMA Facts ==
    ASSUME BooksInv
    PROVE  /\ cash \in Nat /\ position \in Nat /\ held \in [Keys -> Nat]
           /\ orders \in [Orders -> OrderType] /\ job \in JobType /\ JobOK
           /\ tracked \in [id : Orders \cup {NoOrder}, qty : Nat] /\ tracked.qty \in Nat /\ converted \in BOOLEAN
           /\ tasks \in [buys : BOOLEAN, adjust : BOOLEAN, monitor : BOOLEAN]
           /\ phase \in {"pre", "open", "closed", "cleaned"}
           /\ events \subseteq EventKinds /\ exposed \in Exposures
           /\ \A side : Open(side) \subseteq Orders /\ \A o \in Open(side) : orders[o].file = "open" /\ orders[o].side = side
           /\ Free \subseteq Orders /\ (Free # {} => NewOrder \in Free) /\ \A o \in Free : orders[o] = Blank
BY DEF BooksInv, Typed, TypeOK, JobOK, OrderType, Open, Free, NewOrder

\* Where every variable has its type and the service its orders.
LEMMA TypedFrom ==
    ASSUME cash' \in Nat, position' \in Nat, held' \in [Keys -> Nat], orders' \in [Orders -> OrderType],
           tracked' \in [id : Orders \cup {NoOrder}, qty : Nat], converted' \in BOOLEAN,
           tasks' \in [buys : BOOLEAN, adjust : BOOLEAN, monitor : BOOLEAN],
           phase' \in {"pre", "open", "closed", "cleaned"},
           events' \subseteq EventKinds, exposed' \in Exposures, JobOK'
    PROVE  Typed'
BY DEF Typed, TypeOK, OrderType, JobOK, JobType

\* A service with nothing to do has no orders to go through.
LEMMA IdleIs == Idle => job.pc = "ready" /\ job.todo = {} /\ job.step = "none"
BY DEF Idle, Ready

\* The tasks that are done.
LEMMA TasksAre ==
    ASSUME tasks \in [buys : BOOLEAN, adjust : BOOLEAN, monitor : BOOLEAN]
    PROVE  /\ [tasks EXCEPT !.buys = TRUE] \in [buys : BOOLEAN, adjust : BOOLEAN, monitor : BOOLEAN]
           /\ [tasks EXCEPT !.adjust = TRUE] \in [buys : BOOLEAN, adjust : BOOLEAN, monitor : BOOLEAN]
           /\ [tasks EXCEPT !.monitor = TRUE] \in [buys : BOOLEAN, adjust : BOOLEAN, monitor : BOOLEAN]
           /\ [buys |-> FALSE, adjust |-> FALSE, monitor |-> FALSE]
                  \in [buys : BOOLEAN, adjust : BOOLEAN, monitor : BOOLEAN]
OBVIOUS

\* An order that is placed is one more, and those that were open stay open.
LEMMA PlacedIs ==
    ASSUME BooksInv, NEW S, NEW new \in OrderType, new.row = "none", new.fills = 0,
           Place(Cancel(orders, S), NewOrder, new)
    PROVE  /\ NewOrder \in Orders /\ orders[NewOrder] = Blank
           /\ orders' \in [Orders -> OrderType] /\ events' \subseteq EventKinds
           /\ orders'[NewOrder].file = "open"
           /\ \A o \in Orders \ S : orders[o].file = "open" =>
                  orders'[o].file = "open" /\ orders'[o].side = orders[o].side
<1>1. Free # {} /\ NewOrder \in Orders /\ orders[NewOrder] = Blank
  <2>1. Free # {}
    BY DEF Place
  <2> QED
    BY <2>1, Facts
<1>2. orders \in [Orders -> OrderType] /\ events \subseteq EventKinds
  BY Facts
<1>3. /\ Cancel(orders, S) \in [Orders -> OrderType]
      /\ \A o \in Orders : o \notin S => Cancel(orders, S)[o] = orders[o]
  BY <1>2, CancelIs
<1>4. /\ orders' \in [Orders -> OrderType] /\ events' \subseteq EventKinds
      /\ orders'[NewOrder].file = "open"
      /\ \A p \in Orders \ {NewOrder} : Cancel(orders, S)[p].file = "open" =>
             orders'[p].file = "open" /\ orders'[p].side = Cancel(orders, S)[p].side
  BY <1>1, <1>2, <1>3, PlaceIs
<1> QED
  BY <1>1, <1>3, <1>4, BlankIs

\* Cancelling nothing changes nothing.
LEMMA CancelNone == ASSUME BooksInv PROVE Cancel(orders, {}) = orders
<1>1. orders \in [Orders -> OrderType]
  BY Facts
<1> QED
  BY <1>1 DEF Cancel

\* The order's record has no row in the file yet when it is new.
LEMMA PlacesBooks ==
    ASSUME BooksInv, UNCHANGED <<cash, held, position, exposed>>,
           job.step = "none", job'.step = "none", Typed',
           NEW S, NEW new \in OrderType, new.row = "none", new.fills = 0,
           Place(Cancel(orders, S), NewOrder, new),
           new.side = "buy" => \A o \in Orders \ S : Buys(o) => orders[o].key # new.key
    PROVE  BooksInv'
<1>1. PICK n \in Orders : n = NewOrder
  BY PlacedIs
<1>2. Place(Cancel(orders, S), n, new)
  BY <1>1
<1> QED
  BY <1>2, PlacedStep

\* Buying at nine keeps the books.
LEMMA BuyOrdersKeep == BooksInv /\ BuyOrders /\ UNCHANGED exposed => BooksInv'
<1> SUFFICES ASSUME BooksInv, BuyOrders, UNCHANGED exposed PROVE BooksInv'
  OBVIOUS
<1>1. /\ tasks' \in [buys : BOOLEAN, adjust : BOOLEAN, monitor : BOOLEAN]
      /\ UNCHANGED <<cash, held, position, tracked, converted, phase, job>>
      /\ job.pc = "ready" /\ job.todo = {} /\ job.step = "none" /\ job'.step = "none" /\ JobOK'
  <2>1. tasks' = [tasks EXCEPT !.buys = TRUE] /\ UNCHANGED <<cash, held, position, tracked, converted, phase, job>>
    BY DEF BuyOrders
  <2>2. job.pc = "ready" /\ job.todo = {} /\ job.step = "none"
    BY IdleIs DEF BuyOrders
  <2>3. JobOK'
    BY <2>1, <2>2, Facts DEF JobOK
  <2> QED
    BY <2>1, <2>2, <2>3, Facts, TasksAre
<1>2. CASE UNCHANGED <<orders, events>>
  <2>1. Typed'
    BY <1>1, <1>2, Facts, TypedFrom
  <2>2. \A o \in Orders : Carried(orders[o], orders'[o])
    BY <1>2 DEF Carried
  <2> QED
    BY <1>1, <2>1, <2>2, QuietStep
<1>3. ASSUME NEW key \in Keys, Buy(key), \A o \in Orders : Buys(o) => orders[o].key # key
      PROVE  BooksInv'
  <2> DEFINE new == BuyOrder("limit", "amo" \in exposed, key, 1)
  <2>1. new \in OrderType /\ new.side = "buy" /\ new.key = key /\ new.row = "none" /\ new.fills = 0
    <3>1. ("amo" \in exposed) \in BOOLEAN
      OBVIOUS
    <3>2. \A amo \in BOOLEAN :
              LET buy == BuyOrder("limit", amo, key, 1) IN
              buy \in OrderType /\ buy.side = "buy" /\ buy.key = key /\ buy.row = "none" /\ buy.fills = 0
      BY NewFields
    <3> QED
      BY <3>1, <3>2, Zenon
  <2>2. Place(Cancel(orders, {}), NewOrder, new)
    BY <1>3, CancelNone DEF Buy
  <2> HIDE DEF new
  <2>3. orders' \in [Orders -> OrderType] /\ events' \subseteq EventKinds
    BY <2>1, <2>2, PlacedIs
  <2>4. Typed'
    BY <1>1, <2>3, Facts, TypedFrom
  <2> QED
    BY <1>1, <1>3, <2>1, <2>2, <2>4, PlacesBooks
<1>4. CASE Enter
  <2>1. \A o \in Orders : Buys(o) => orders[o].key # "symbol"
    BY <1>4 DEF Enter, MayEnter, Buying, Open, Buys, IsOpen
  <2> QED
    BY <1>3, <1>4, <2>1 DEF Enter, Keys
<1>5. CASE Reenter
  <2>1. \A o \in Orders : Buys(o) => orders[o].key # "ticker"
    BY <1>5 DEF Reenter, MayReenter, Buying, Open, Buys, IsOpen, Keys
  <2> QED
    BY <1>3, <1>5, <2>1 DEF Reenter, Keys
<1> QED
  BY <1>2, <1>4, <1>5 DEF BuyOrders

\* So does the adjustment of an order before the market opens.
LEMMA AdjustKeeps == BooksInv /\ (Adjust \/ \E o \in Orders : AdjustOrder(o)) /\ UNCHANGED exposed => BooksInv'
<1> SUFFICES ASSUME BooksInv, Adjust \/ \E o \in Orders : AdjustOrder(o), UNCHANGED exposed PROVE BooksInv'
  OBVIOUS
<1>1. CASE Adjust
  <2>1. /\ tasks' = [tasks EXCEPT !.adjust = TRUE]
        /\ UNCHANGED <<cash, orders, held, position, tracked, converted, phase, events>>
        /\ Step("adjust", Open("buy")) /\ job.step = "none"
    BY <1>1, IdleIs DEF Adjust, store
  <2>2. JobOK' /\ job'.step = "none"
    BY <2>1, Facts, StepIs
  <2>3. Typed'
    BY <2>1, <2>2, Facts, TasksAre, TypedFrom
  <2>4. \A o \in Orders : Carried(orders[o], orders'[o])
    BY <2>1 DEF Carried
  <2> QED
    BY <2>1, <2>2, <2>3, <2>4, QuietStep
<1>2. ASSUME NEW o \in Orders, AdjustOrder(o) PROVE BooksInv'
  <2>1. /\ UNCHANGED <<cash, held, position, tracked, converted, tasks, phase>>
        /\ o \in job.todo /\ job' = [job EXCEPT !.todo = @ \ {o}]
        /\ job.step = "none" /\ orders[o].file = "open" /\ orders[o].side = "buy"
        /\ \A p \in job.todo : p \in Orders /\ orders[p].file = "open" /\ orders[p].side = "buy"
    BY <1>2, Facts DEF AdjustOrder, JobOK, JobType, IsOpen
  <2>2. ASSUME orders' \in [Orders -> OrderType], events' \subseteq EventKinds,
               \A p \in Orders \ {o} : orders[p].file = "open" =>
                   orders'[p].file = "open" /\ orders'[p].side = orders[p].side
        PROVE  Typed' /\ job'.step = "none"
    <3>1. JobOK' /\ job'.step = "none"
      <4>1. \A p \in job.todo \ {o} : orders'[p].file = "open" /\ orders'[p].side = orders[p].side
        BY <2>1, <2>2
      <4>2. JobOK
        BY Facts
      <4> QED
        BY <2>1, <4>1, <4>2, DropIs
    <3> QED
      BY <2>1, <2>2, <3>1, Facts, TypedFrom
  <2>3. CASE UNCHANGED <<orders, events>>
    <3>1. Typed' /\ job'.step = "none"
      BY <2>2, <2>3, Facts
    <3>2. \A p \in Orders : Carried(orders[p], orders'[p])
      BY <2>3 DEF Carried
    <3> QED
      BY <2>1, <3>1, <3>2, QuietStep
  <2>4. CASE orders' = Tidy(Cancel(orders, {o})) /\ UNCHANGED events
    <3>1. /\ Cancel(orders, {o}) \in [Orders -> OrderType]
          /\ \A p \in Orders : /\ Carried(orders[p], Cancel(orders, {o})[p])
                               /\ p # o => Cancel(orders, {o})[p] = orders[p]
      BY Facts, CancelIs
    <3>2. /\ orders' \in [Orders -> OrderType]
          /\ \A p \in Orders : \/ orders'[p] = Cancel(orders, {o})[p]
                               \/ orders'[p] = Blank /\ Cancel(orders, {o})[p].file # "open"
      BY <2>4, <3>1, TidyIs
    <3>3. \A p \in Orders \ {o} : orders[p].file = "open" =>
              orders'[p].file = "open" /\ orders'[p].side = orders[p].side
      BY <3>1, <3>2
    <3>4. Typed' /\ job'.step = "none"
      BY <2>2, <2>4, <3>2, <3>3, Facts
    <3>5. \A p \in Orders : Carried(orders[p], orders'[p])
      <4>1. \A p \in Orders : Carried(orders[p], Blank)
        BY DEF Carried
      <4> QED
        BY <3>1, <3>2, <4>1
    <3> QED
      BY <2>1, <3>4, <3>5, QuietStep
  <2>5. ASSUME NEW qty \in {1, 2},
               Place(Cancel(orders, {o}), NewOrder,
                     BuyOrder("market", orders[o].amo, orders[o].key, qty))
        PROVE  BooksInv'
    <3> DEFINE new == BuyOrder("market", orders[o].amo, orders[o].key, qty)
    <3>1. orders[o].amo \in BOOLEAN /\ orders[o].key \in Keys
      BY Facts DEF OrderType
    <3>2. new \in OrderType /\ new.side = "buy" /\ new.key = orders[o].key /\ new.row = "none" /\ new.fills = 0
      BY <3>1, NewFields
    <3>3. Place(Cancel(orders, {o}), NewOrder, new)
      BY <2>5
    <3> HIDE DEF new
    <3>4. /\ orders' \in [Orders -> OrderType] /\ events' \subseteq EventKinds
          /\ \A p \in Orders \ {o} : orders[p].file = "open" =>
                 orders'[p].file = "open" /\ orders'[p].side = orders[p].side
      BY <3>2, <3>3, PlacedIs
    <3>5. Typed' /\ job'.step = "none"
      BY <2>2, <3>4
    <3>6. \A p \in Orders \ {o} : Buys(p) => orders[p].key # new.key
      BY <2>1, <3>2 DEF BooksInv, OneBuy, Buys, IsOpen
    <3> QED
      BY <2>1, <3>2, <3>3, <3>5, <3>6, PlacesBooks
  <2> QED
    BY <1>2, <2>3, <2>4, <2>5 DEF AdjustOrder
<1> QED
  BY <1>1, <1>2

\* The steps of a pass that place no order, and the passing of time.
LEMMA PassesKeep ==
    /\ BooksInv /\ UNCHANGED exposed
    /\ Monitor \/ Clock \/ BootDone \/ LimitsDone \/ High \/ PassDone
    => BooksInv'
<1> SUFFICES ASSUME BooksInv, UNCHANGED exposed, Monitor \/ Clock \/ BootDone \/ LimitsDone \/ High \/ PassDone
             PROVE  BooksInv'
  OBVIOUS
<1>1. UNCHANGED <<cash, held, position, orders, tasks>> /\ job.step = "none"
  BY IdleIs DEF Monitor, Clock, BootDone, LimitsDone, High, PassDone, store, Through
<1>2. tracked' \in [id : Orders \cup {NoOrder}, qty : Nat]
  <2>1. Untracked \in [id : Orders \cup {NoOrder}, qty : Nat]
    BY DEF Untracked
  <2> QED
    BY <2>1, Facts DEF Monitor, Clock, BootDone, LimitsDone, High, PassDone
<1>3. converted' \in BOOLEAN
  <2>1. CASE UNCHANGED converted
    BY <2>1, Facts
  <2>2. CASE converted' = (converted \/ job.pc = "rsi")
    BY <2>2, Zenon
  <2> QED
    BY <2>1, <2>2 DEF Monitor, Clock, BootDone, LimitsDone, High, PassDone
<1>4. phase' \in {"pre", "open", "closed", "cleaned"} /\ events' \subseteq EventKinds
  BY Facts DEF Monitor, Clock, BootDone, LimitsDone, High, PassDone, Happens, EventKinds
<1>5. JobOK' /\ job'.step = "none"
  <2>1. CASE Clock
    BY <1>1, <2>1, IdleIs, Facts DEF Clock, JobOK
  <2>2. CASE Monitor
    <3> DEFINE some  == Open("buy") \cup Open("sell")
               limit == {o \in Open("buy") : orders[o].kind = "limit"}
    <3>1. /\ some \in SUBSET Orders /\ \A o \in some : orders'[o].file = "open"
          /\ limit \in SUBSET Orders /\ \A o \in limit : orders'[o].file = "open"
      BY <1>1, Facts
    <3>2. Step("check", some) \/ Step("limits", limit)
      BY <2>2 DEF Monitor
    <3> HIDE DEF some, limit
    <3> QED
      BY <3>1, <3>2, StepIs
  <2>3. CASE BootDone \/ LimitsDone \/ PassDone
    <3>1. Step("ready", {}) \/ Step("resize", {}) \/ Step("place", {})
      BY <2>3 DEF BootDone, LimitsDone, PassDone
    <3> QED
      BY <3>1, StepIs
  <2>4. CASE High
    <3> DEFINE limit == {o \in Open("sell") : orders[o].kind = "limit"}
    <3>1. limit \in SUBSET Orders /\ \A o \in limit : orders'[o].file = "open"
      BY <1>1, Facts
    <3>2. Step("high", limit)
      BY <2>4 DEF High
    <3> HIDE DEF limit
    <3> QED
      BY <3>1, <3>2, StepIs
  <2> QED
    BY <2>1, <2>2, <2>3, <2>4
<1>6. Typed'
  BY <1>1, <1>2, <1>3, <1>4, <1>5, Facts, TypedFrom
<1>7. \A o \in Orders : Carried(orders[o], orders'[o])
  BY <1>1 DEF Carried
<1> QED
  BY <1>1, <1>5, <1>6, <1>7, QuietStep

\* The cleanup cancels orders and forgets the tracked one.
LEMMA EodKeeps == BooksInv /\ Eod /\ UNCHANGED exposed => BooksInv'
<1> SUFFICES ASSUME BooksInv, Eod, UNCHANGED exposed PROVE BooksInv'
  OBVIOUS
<1> DEFINE os == Cancel(orders, Open("sell") \cup Lapsed)
<1>1. /\ orders' = Tidy(Swept(os)) /\ tracked' = Untracked /\ phase' = "cleaned"
      /\ tasks' = [buys |-> FALSE, adjust |-> FALSE, monitor |-> FALSE]
      /\ UNCHANGED <<cash, held, position, converted, job, events>>
      /\ job.pc = "ready" /\ job.todo = {} /\ job.step = "none"
  BY IdleIs DEF Eod
<1>2. os \in [Orders -> OrderType] /\ \A o \in Orders : Carried(orders[o], os[o])
  BY Facts, CancelIs
<1> HIDE DEF os
<1>3. Swept(os) \in [Orders -> OrderType] /\ \A o \in Orders : Carried(os[o], Swept(os)[o])
  <2>1. /\ Swept(os) = [o \in Orders |-> Swept(os)[o]]
        /\ \A o \in Orders : Swept(os)[o] = IF os[o].side = "buy" /\ os[o].row = "pending" /\ ~os[o].amo
                                            THEN [os[o] EXCEPT !.row = "cancelled"] ELSE os[o]
    BY DEF Swept
  <2>2. ASSUME NEW o \in Orders PROVE Swept(os)[o] \in OrderType /\ Carried(os[o], Swept(os)[o])
    <3>1. CASE os[o].row = "pending" /\ Swept(os)[o] = [os[o] EXCEPT !.row = "cancelled"]
      <4>1. os[o] # Blank
        BY <3>1, BlankIs
      <4>2. /\ Swept(os)[o].side = os[o].side /\ Swept(os)[o].key = os[o].key /\ Swept(os)[o].qty = os[o].qty
            /\ Swept(os)[o].fills = os[o].fills /\ Swept(os)[o].file = os[o].file /\ Swept(os)[o].row = "cancelled"
            /\ Swept(os)[o] \in OrderType
        BY <1>2, <3>1 DEF OrderType
      <4> QED
        BY <4>1, <4>2 DEF Carried
    <3>2. CASE Swept(os)[o] = os[o]
      BY <1>2, <3>2 DEF Carried
    <3> QED
      BY <2>1, <3>1, <3>2
  <2> QED
    BY <2>1, <2>2
<1>4. orders' \in [Orders -> OrderType] /\ \A o \in Orders : Carried(orders[o], orders'[o])
  <2>1. \A o \in Orders : Carried(orders[o], Swept(os)[o]) /\ Carried(orders[o], Blank)
    <3>1. \A o \in Orders : Carried(orders[o], Blank)
      BY DEF Carried
    <3> QED
      BY <1>2, <1>3, <3>1, CarriedTwice
  <2> QED
    BY <1>1, <1>3, <2>1, TidyIs
<1>5. JobOK' /\ job'.step = "none"
  BY <1>1, Facts DEF JobOK
<1>6. Typed'
  <2>1. Untracked \in [id : Orders \cup {NoOrder}, qty : Nat]
    BY DEF Untracked
  <2> QED
    BY <1>1, <1>4, <1>5, <2>1, Facts, TasksAre, TypedFrom
<1> QED
  BY <1>1, <1>4, <1>5, <1>6, QuietStep

\* An order of the pass that is refused, waits, fails or whose shares are missing.
LEMMA TurnsKeep ==
    ASSUME NEW o \in Orders
    PROVE  BooksInv /\ (Refuse(o) \/ Wait(o) \/ Raise(o)) /\ UNCHANGED exposed => BooksInv'
<1> SUFFICES ASSUME BooksInv, Refuse(o) \/ Wait(o) \/ Raise(o), UNCHANGED exposed PROVE BooksInv'
  OBVIOUS
<1>1. /\ UNCHANGED <<cash, held, position, tracked, converted, tasks, phase, events>>
      /\ job.step = "none" /\ o \in job.todo /\ orders[o].file = "open"
  <2>1. Doing(o)
    BY DEF Refuse, Wait, Raise, Executable
  <2> QED
    BY <2>1, Facts DEF Refuse, Wait, Raise, Doing, JobOK, IsOpen, store
<1>2. /\ orders' \in [Orders -> OrderType]
      /\ \A p \in Orders : Carried(orders[p], orders'[p])
      /\ \A p \in Orders \ {o} : orders[p].file = "open" => orders'[p] = orders[p]
  <2>1. CASE UNCHANGED orders
    BY <2>1, Facts DEF Carried
  <2>2. CASE Marked(o, "open", "failed") \/ Marked(o, "rejected", "failed")
    BY <1>1, <2>2, Facts, MarkedIs
  <2> QED
    BY <2>1, <2>2 DEF Refuse, Wait, Raise, store
<1>3. JobOK' /\ job'.step = "none"
  <2>1. CASE Drop(o)
    <3>1. \A p \in job.todo \ {o} : orders'[p].file = "open" /\ orders'[p].side = orders[p].side
      BY <1>2, Facts DEF JobOK, JobType, IsOpen
    <3>2. JobOK
      BY Facts
    <3>3. job' = [job EXCEPT !.todo = @ \ {o}]
      BY <2>1 DEF Drop
    <3> QED
      BY <1>1, <3>1, <3>2, <3>3, DropIs
  <2>2. CASE Step("ready", {})
    BY <2>2, StepIs
  <2> QED
    BY <2>1, <2>2 DEF Refuse, Wait, Raise
<1>4. Typed'
  BY <1>1, <1>2, <1>3, Facts, TypedFrom
<1> QED
  BY <1>1, <1>2, <1>3, <1>4, QuietStep

\* The sell order of a pass: placed, made larger, or not for want of an average; and the market
\* order of the exit.
LEMMA SellsKeep == BooksInv /\ (Sync \/ PlaceSells \/ RsiExit) /\ UNCHANGED exposed => BooksInv'
<1> SUFFICES ASSUME BooksInv, Sync \/ PlaceSells \/ RsiExit, UNCHANGED exposed PROVE BooksInv'
  OBVIOUS
<1>1. UNCHANGED <<cash, held, position, converted, phase>> /\ job.step = "none"
  BY DEF Sync, PlaceSells, RsiExit, Through
<1>2. tasks' \in [buys : BOOLEAN, adjust : BOOLEAN, monitor : BOOLEAN]
  BY Facts, TasksAre DEF Sync, PlaceSells, RsiExit
<1>3. ASSUME NEW S, NEW kind \in {"limit", "market"}, NEW qty \in Nat,
             Place(Cancel(orders, S), NewOrder, SellOrder(kind, qty)),
             tracked' \in {tracked, [id |-> NewOrder, qty |-> position]},
             JobOK', job'.step = "none"
      PROVE  BooksInv'
  <2>1. /\ SellOrder(kind, qty) \in OrderType /\ SellOrder(kind, qty).side = "sell"
        /\ SellOrder(kind, qty).row = "none" /\ SellOrder(kind, qty).fills = 0
    BY NewFields
  <2>2. NewOrder \in Orders /\ orders' \in [Orders -> OrderType] /\ events' \subseteq EventKinds
    BY <1>3, <2>1, PlacedIs
  <2>3. tracked' \in [id : Orders \cup {NoOrder}, qty : Nat]
    BY <1>3, <2>2, Facts
  <2>4. Typed'
    BY <1>1, <1>2, <1>3, <2>2, <2>3, Facts, TypedFrom
  <2> QED
    BY <1>1, <1>3, <2>1, <2>4, PlacesBooks
<1>4. CASE Sync
  <2>1. JobOK' /\ job'.step = "none"
    <3>1. Step("exit", {}) \/ Step("place", {})
      BY <1>4 DEF Sync
    <3> QED
      BY <3>1, StepIs
  <2>2. CASE Grown
    <3>1. /\ Place(Cancel(orders, {tracked.id}), NewOrder, SellOrder("limit", position))
          /\ tracked' = [id |-> NewOrder, qty |-> position] /\ position \in Nat
      BY <1>4, <2>2, Facts DEF Sync
    <3> QED
      BY <1>3, <2>1, <3>1
  <2>3. CASE ~Grown
    <3>1. UNCHANGED <<orders, tracked, events>>
      BY <1>4, <2>3 DEF Sync
    <3>2. Typed'
      BY <1>1, <1>2, <2>1, <3>1, Facts, TypedFrom
    <3>3. \A o \in Orders : Carried(orders[o], orders'[o])
      BY <3>1 DEF Carried
    <3> QED
      BY <1>1, <2>1, <3>2, <3>3, QuietStep
  <2> QED
    BY <2>2, <2>3
<1>5. CASE PlaceSells
  <2>1. JobOK' /\ job'.step = "none"
    <3> DEFINE S == {o \in Orders : orders'[o].file = "open"}
    <3>1. S \in SUBSET Orders /\ (\A o \in S : orders'[o].file = "open") /\ Step("check", S)
      BY <1>5 DEF PlaceSells
    <3> HIDE DEF S
    <3> QED
      BY <3>1, StepIs
  <2>2. CASE UNCHANGED <<orders, tracked, events>>
    <3>1. Typed'
      BY <1>1, <1>2, <2>1, <2>2, Facts, TypedFrom
    <3>2. \A o \in Orders : Carried(orders[o], orders'[o])
      BY <2>2 DEF Carried
    <3> QED
      BY <1>1, <2>1, <3>1, <3>2, QuietStep
  <2>3. CASE /\ Place(Cancel(orders, Open("sell")), NewOrder, SellOrder("limit", position))
             /\ tracked' = [id |-> NewOrder, qty |-> position]
    <3>1. position \in Nat
      BY Facts
    <3> QED
      BY <1>3, <2>1, <2>3, <3>1
  <2>4. CASE /\ Happens("noema")
             /\ orders' = Tidy(Cancel(orders, Open("sell"))) /\ tracked' = Untracked
    <3> DEFINE os == Cancel(orders, Open("sell"))
    <3>1. os \in [Orders -> OrderType] /\ \A o \in Orders : Carried(orders[o], os[o])
      BY Facts, CancelIs
    <3>2. orders' = Tidy(os)
      BY <2>4
    <3> HIDE DEF os
    <3>3. orders' \in [Orders -> OrderType] /\ \A o \in Orders : Carried(orders[o], orders'[o])
      <4>1. \A o \in Orders : Carried(orders[o], Blank)
        BY DEF Carried
      <4> QED
        BY <3>1, <3>2, <4>1, TidyIs
    <3>4. Untracked \in [id : Orders \cup {NoOrder}, qty : Nat] /\ events' \subseteq EventKinds
      BY <2>4, Facts DEF Untracked, Happens, EventKinds
    <3>5. Typed'
      BY <1>1, <1>2, <2>1, <2>4, <3>3, <3>4, Facts, TypedFrom
    <3> QED
      BY <1>1, <2>1, <3>3, <3>5, QuietStep
  <2> QED
    BY <1>5, <2>2, <2>3, <2>4 DEF PlaceSells
<1>6. CASE RsiExit
  <2>1. Place(Cancel(orders, {}), NewOrder, SellOrder("market", tracked.qty)) /\ UNCHANGED tracked
    BY <1>6, CancelNone DEF RsiExit
  <2>2. NewOrder \in Orders /\ orders'[NewOrder].file = "open"
    <3>1. /\ SellOrder("market", tracked.qty) \in OrderType
          /\ SellOrder("market", tracked.qty).row = "none" /\ SellOrder("market", tracked.qty).fills = 0
      BY Facts, NewFields
    <3> QED
      BY <2>1, <3>1, PlacedIs
  <2>3. JobOK' /\ job'.step = "none"
    <3>1. Step("rsi", {NewOrder}) \/ Step("rsi", {})
      BY <1>6 DEF RsiExit
    <3> QED
      BY <2>2, <3>1, StepIs
  <2> QED
    BY <1>3, <2>1, <2>3, Facts
<1> QED
  BY <1>4, <1>5, <1>6

\* A start: the memory takes the shares of the position.
LEMMA RestartKeeps == BooksInv /\ Restart /\ UNCHANGED exposed => BooksInv'
<1> SUFFICES ASSUME BooksInv, Restart, UNCHANGED exposed PROVE BooksInv'
  OBVIOUS
<1>1. /\ UNCHANGED <<cash, orders, position, phase>> /\ converted' = FALSE
      /\ tasks' = [buys |-> FALSE, adjust |-> FALSE, monitor |-> FALSE]
      /\ Happens("crash") \/ (Idle /\ Happens("restart"))
  BY DEF Restart, store
<1>2. /\ held' \in [Keys -> Nat] /\ held'["symbol"] = position /\ held'["ticker"] = 0
      /\ Shares' = position'
  BY <1>1, Facts DEF Restart, Restored, Keys, Shares
<1>3. tracked' \in [id : Orders \cup {NoOrder}, qty : Nat]
  BY Facts DEF Restart, Untracked
<1>4. JobOK' /\ job'.step = "none"
  <2> DEFINE S == {o \in Open("buy") \cup Open("sell") : orders[o].kind = "market"}
  <2>1. S \in SUBSET Orders /\ (\A o \in S : orders'[o].file = "open") /\ Step("boot", S)
    BY <1>1, Facts DEF Restart
  <2> HIDE DEF S
  <2> QED
    BY <2>1, StepIs
<1>5. events' \subseteq EventKinds
  BY <1>1, Facts DEF Happens, EventKinds
<1>6. Typed'
  BY <1>1, <1>2, <1>3, <1>4, <1>5, Facts, TasksAre, TypedFrom
<1>7. OneBuy' /\ OneSell' /\ (Unexposed({"norow"})' => SellRows')
  <2>1. \A o \in Orders : Carried(orders[o], orders'[o])
    BY <1>1 DEF Carried
  <2> QED
    BY <2>1, CarriedKeeps DEF BooksInv, Unexposed
<1>8. ASSUME Unexposed({"crash"})
      PROVE  /\ FillsOK'
             /\ Unexposed({"dbfails", "norow"}) => cash + Shares = Capital /\ Shares = position
             /\ ~Unexposed({"restart"})
  <2>1. Idle /\ "restart" \in exposed
    BY <1>1, <1>8 DEF Happens, Unexposed
  <2>2. job.step = "none"
    BY <2>1, IdleIs
  <2> QED
    BY <1>1, <1>4, <1>8, <2>1, <2>2 DEF BooksInv, FillsOK, Booked, IsOpen, Unexposed
<1>9. Booked'
  BY <1>2, <1>4 DEF Booked
<1> QED
  BY <1>1, <1>2, <1>6, <1>7, <1>8, <1>9 DEF BooksInv, Unexposed

\* An execution pays: money and memory change by the order's quantity.
LEMMA PayKeeps ==
    ASSUME NEW o \in Orders
    PROVE  BooksInv /\ Pay(o) /\ UNCHANGED exposed => BooksInv'
<1> SUFFICES ASSUME BooksInv, Pay(o), UNCHANGED exposed PROVE BooksInv'
  OBVIOUS
<1> DEFINE q == orders[o].qty
<1>1. /\ UNCHANGED <<orders, position, tracked, converted, tasks, phase, events>>
      /\ job' = [job EXCEPT !.doing = o, !.step = "paid"]
      /\ o \in job.todo /\ job.step = "none" /\ job.pc # "adjust" /\ Allowed(o)
      /\ orders[o].file = "open"
  BY Facts DEF Pay, Executable, Doing, JobOK, IsOpen
<1>2. q \in Nat /\ orders[o].side \in {"buy", "sell"} /\ orders[o].key \in Keys
  BY Facts DEF OrderType
<1>3. /\ job' \in JobType /\ job'.pc = job.pc /\ job'.todo = job.todo /\ job'.doing = o /\ job'.step = "paid"
  BY <1>1, Facts DEF JobType
<1>4. \A key \in Keys : \A h \in Nat :
          LET new == [held EXCEPT ![key] = h] IN
          /\ new \in [Keys -> Nat]
          /\ new["symbol"] + new["ticker"] = Shares - held[key] + h
  BY Facts DEF Keys, Shares
<1>5. /\ orders[o].side = "buy" => q <= cash
      /\ orders[o].side = "sell" => q <= position
  BY <1>1, <1>2 DEF Allowed, Sellable
<1>6. /\ cash' \in Nat /\ held' \in [Keys -> Nat]
      /\ orders[o].side = "buy" => cash' = cash - q /\ Shares' = Shares + q
      /\ orders[o].side = "sell" => cash' = cash + q /\ Shares' = Shares - q
  <2>1. CASE orders[o].side = "buy"
    <3>1. /\ held' = [held EXCEPT ![orders[o].key] = held[orders[o].key] + q] /\ cash' = cash - q
          /\ held[orders[o].key] + q \in Nat /\ held[orders[o].key] \in Nat
      BY <1>2, <2>1, Facts DEF Pay
    <3>2. /\ held' \in [Keys -> Nat]
          /\ held'["symbol"] + held'["ticker"] = Shares - held[orders[o].key] + (held[orders[o].key] + q)
      BY <1>2, <1>4, <3>1
    <3>3. Shares \in Int
      BY Facts DEF Shares, Keys
    <3>4. Shares' = Shares + q
      BY <1>2, <3>1, <3>2, <3>3 DEF Shares
    <3> QED
      BY <1>2, <1>5, <2>1, <3>1, <3>2, <3>4, Facts
  <2>2. CASE orders[o].side = "sell"
    <3>1. /\ held' = [held EXCEPT ![HeldKey] = held[HeldKey] - q] /\ cash' = cash + q
          /\ HeldKey \in Keys /\ held[HeldKey] >= q /\ held[HeldKey] \in Nat /\ held[HeldKey] - q \in Nat
      <4>1. HeldKey \in Keys
        BY DEF HeldKey, Keys
      <4>2. held[HeldKey] >= q /\ held' = [held EXCEPT ![HeldKey] = @ - q] /\ cash' = cash + q
        BY <2>2 DEF Pay
      <4> QED
        BY <1>2, <4>1, <4>2, Facts
    <3>2. /\ held' \in [Keys -> Nat]
          /\ held'["symbol"] + held'["ticker"] = Shares - held[HeldKey] + (held[HeldKey] - q)
      BY <1>4, <3>1
    <3>3. Shares \in Int
      BY Facts DEF Shares, Keys
    <3>4. Shares' = Shares - q
      BY <1>2, <3>1, <3>2, <3>3 DEF Shares
    <3> QED
      BY <1>2, <2>2, <3>1, <3>2, <3>4, Facts
  <2> QED
    BY <1>2, <2>1, <2>2
<1>7. JobOK'
  BY <1>1, <1>3, <1>5, Facts DEF JobOK, IsOpen
<1>8. Typed'
  BY <1>1, <1>6, <1>7, Facts, TypedFrom
<1>9. OneBuy' /\ OneSell' /\ (Unexposed({"norow"})' => SellRows')
  BY <1>1 DEF BooksInv, OneBuy, OneSell, Buys, Sells, SellRows, IsOpen, Unexposed
<1>10. ASSUME Unexposed({"crash"}) PROVE FillsOK'
  BY <1>1, <1>3, <1>10 DEF BooksInv, FillsOK, IsOpen
<1>11. cash + Shares = Capital => cash' + Shares' = Capital
  <2>1. cash \in Int /\ Shares \in Int
    BY Facts DEF Shares, Keys
  <2> QED
    BY <1>2, <1>6, <2>1
<1>12. Booked => Booked'
  BY <1>1, <1>2, <1>3, <1>6 DEF Booked
<1> QED
  BY <1>8, <1>9, <1>10, <1>11, <1>12 DEF BooksInv, Unexposed

\* Then rows and position are committed, or nothing.
LEMMA CommitKeeps == BooksInv /\ Commit /\ UNCHANGED exposed => BooksInv'
<1> SUFFICES ASSUME BooksInv, Commit, UNCHANGED exposed PROVE BooksInv'
  OBVIOUS
<1>1. PICK o \in Orders : /\ o = job.doing /\ o \in job.todo /\ job.step = "paid"
                          /\ orders[o].file = "open" /\ job.pc # "adjust" /\ job.pc # "ready"
  BY Facts DEF Commit, JobOK, JobType, IsOpen
<1>2. /\ UNCHANGED <<cash, held, tracked, converted, tasks, phase>>
      /\ job' = [job EXCEPT !.step = "booked"]
      /\ \/ /\ position' = Committed(o)
            /\ orders' = [orders EXCEPT ![o].row = IF @ = "none" THEN "none" ELSE "closed",
                                        ![o].fills = IF orders[o].row = "none" THEN 0 ELSE @ + 1]
            /\ UNCHANGED events
         \/ Happens("dbfails") /\ UNCHANGED <<position, orders>>
  BY <1>1 DEF Commit
<1>3. /\ job' \in JobType /\ job'.pc = job.pc /\ job'.todo = job.todo /\ job'.doing = o /\ job'.step = "booked"
  BY <1>1, <1>2, Facts DEF JobType
<1>4. orders[o] \in OrderType /\ orders[o].qty \in Nat /\ orders[o].fills \in Nat /\ orders[o] # Blank
  BY <1>1, Facts, BlankIs DEF OrderType
<1>5. orders[o].side = "sell" => orders[o].qty <= position
  BY <1>1, Facts DEF JobOK
<1>6. /\ position' \in Nat /\ events' \subseteq EventKinds /\ orders' \in [Orders -> OrderType]
      /\ \A p \in Orders \ {o} : orders'[p] = orders[p]
      /\ orders'[o].side = orders[o].side /\ orders'[o].key = orders[o].key /\ orders'[o].file = "open"
      /\ orders'[o].row = "pending" => orders[o].row = "pending"
      /\ orders'[o].row = "none" => orders[o].row = "none"
      /\ orders'[o].fills \in {orders[o].fills, orders[o].fills + 1, 0}
  <2>1. CASE /\ position' = Committed(o)
             /\ orders' = [orders EXCEPT ![o].row = IF @ = "none" THEN "none" ELSE "closed",
                                         ![o].fills = IF orders[o].row = "none" THEN 0 ELSE @ + 1]
             /\ UNCHANGED events
    <3> DEFINE r == IF orders[o].row = "none" THEN "none" ELSE "closed"
               f == IF orders[o].row = "none" THEN 0 ELSE orders[o].fills + 1
               e == [orders[o] EXCEPT !.row = r, !.fills = f]
    <3>0. /\ r \in {"none", "closed"} /\ (r = "none" => orders[o].row = "none")
          /\ f \in Nat /\ f \in {orders[o].fills + 1, 0}
          /\ orders' = [orders EXCEPT ![o].row = r, ![o].fills = f]
      BY <1>4, <2>1, Facts
    <3> HIDE DEF r, f
    <3>1. /\ e \in OrderType /\ e.side = orders[o].side /\ e.key = orders[o].key /\ e.file = orders[o].file
          /\ e.row \in {"none", "closed"} /\ (e.row = "none" => orders[o].row = "none")
          /\ e.fills \in {orders[o].fills + 1, 0}
      BY <1>4, <3>0 DEF OrderType
    <3>2. orders' = [orders EXCEPT ![o] = e]
      BY <3>0, Facts
    <3> HIDE DEF e
    <3>3. position' \in Nat
      <4>1. position \in Nat /\ orders[o].side \in {"buy", "sell"}
        BY <1>4, Facts DEF OrderType
      <4>2. position' \in {position, position + orders[o].qty} \/ (orders[o].side = "sell" /\ position' = position - orders[o].qty)
        BY <2>1, <4>1 DEF Committed
      <4> QED
        BY <1>4, <1>5, <4>1, <4>2
    <3> QED
      BY <1>1, <2>1, <3>1, <3>2, <3>3, Facts
  <2>2. CASE Happens("dbfails") /\ UNCHANGED <<position, orders>>
    BY <1>1, <2>2, Facts DEF Happens, EventKinds
  <2> QED
    BY <1>2, <2>1, <2>2
<1>7. JobOK'
  <2>1. \A p \in job.todo : IsOpen(p)' /\ p \in Orders
    BY <1>6, Facts DEF JobOK, JobType, IsOpen
  <2> QED
    BY <1>1, <1>3, <2>1 DEF JobOK
<1>8. Typed'
  BY <1>2, <1>6, <1>7, Facts, TypedFrom
<1>9. OneBuy' /\ OneSell' /\ (Unexposed({"norow"})' => SellRows')
  <2>1. \A p \in Orders : /\ Buys(p)' => Buys(p) /\ orders'[p].key = orders[p].key
                          /\ Sells(p)' => Sells(p)
                          /\ orders'[p].side = orders[p].side
                          /\ orders'[p].file = orders[p].file
                          /\ orders'[p].row = "none" => orders[p].row = "none"
    BY <1>1, <1>6 DEF Buys, Sells, IsOpen
  <2> QED
    BY <2>1 DEF BooksInv, OneBuy, OneSell, SellRows, IsOpen, Unexposed
<1>10. ASSUME Unexposed({"crash"}) PROVE FillsOK'
  <2>1. FillsOK /\ orders[o].fills = 0
    BY <1>1, <1>10 DEF BooksInv, FillsOK, IsOpen
  <2>2. \A p \in Orders : orders'[p].fills <= 1
    BY <1>6, <2>1 DEF FillsOK
  <2>3. ASSUME NEW p \in Orders, orders'[p].file = "open", ~(job'.step = "booked" /\ job'.doing = p)
        PROVE  orders'[p].fills = 0
    <3>1. p # o
      BY <1>3, <2>3
    <3> QED
      BY <1>1, <1>6, <2>1, <2>3, <3>1 DEF FillsOK, IsOpen
  <2> QED
    BY <2>2, <2>3 DEF FillsOK, IsOpen
<1>11. Shares' = Shares
  BY <1>2 DEF Shares
<1>12. ASSUME Unexposed({"dbfails", "norow"}), Booked PROVE Booked'
  <2>1. position' = Committed(o)
    BY <1>2, <1>12 DEF Happens, Unexposed
  <2>2. orders[o].side = "sell" => orders[o].row # "none"
    BY <1>1, <1>12 DEF BooksInv, SellRows, IsOpen, Unexposed
  <2>3. orders[o].side \in {"buy", "sell"}
    BY <1>4 DEF OrderType
  <2> QED
    BY <1>1, <1>3, <1>11, <1>12, <2>1, <2>2, <2>3 DEF Booked, Committed
<1> QED
  BY <1>2, <1>8, <1>9, <1>10, <1>11, <1>12 DEF BooksInv, Unexposed

\* Then the order is saved in its file and the service goes on with the others.
LEMMA SaveKeeps == BooksInv /\ Save /\ UNCHANGED exposed => BooksInv'
<1> SUFFICES ASSUME BooksInv, Save, UNCHANGED exposed PROVE BooksInv'
  OBVIOUS
<1>1. PICK o \in Orders : /\ o = job.doing /\ o \in job.todo /\ job.step = "booked"
                          /\ orders[o].file = "open" /\ job.pc # "adjust" /\ job.pc # "ready"
  BY Facts DEF Save, JobOK, JobType, IsOpen
<1>2. /\ UNCHANGED <<cash, held, position, tracked, converted, tasks, phase, events>>
      /\ orders' = Tidy([orders EXCEPT ![o].file = "executed"])
      /\ job' = [job EXCEPT !.todo = @ \ {o}, !.doing = NoOrder, !.step = "none", !.filled = TRUE]
  BY <1>1 DEF Save, Saved
<1>3. /\ job' \in JobType /\ job'.pc = job.pc /\ job'.todo = job.todo \ {o} /\ job'.step = "none"
  BY <1>2, Facts DEF JobType
<1> DEFINE e == [orders[o] EXCEPT !.file = "executed"]
<1>4. /\ e \in OrderType /\ e.side = orders[o].side /\ e.key = orders[o].key /\ e.qty = orders[o].qty
      /\ e.fills = orders[o].fills /\ e.file = "executed" /\ e.row = orders[o].row
  BY Facts DEF OrderType
<1>5. orders' = Tidy([orders EXCEPT ![o] = e])
  BY <1>2, Facts
<1> HIDE DEF e
<1>6. /\ orders' \in [Orders -> OrderType] /\ orders'[o] \in {e, Blank}
      /\ \A p \in Orders \ {o} : \/ orders'[p] = orders[p]
                                 \/ orders'[p] = Blank /\ orders[p].file # "open"
  <2>1. [orders EXCEPT ![o] = e] \in [Orders -> OrderType]
    BY <1>4, Facts
  <2> QED
    BY <1>5, <2>1, Facts, TidyIs
<1>7. \A p \in Orders : Carried(orders[p], orders'[p])
  <2>1. orders[o] # Blank
    BY <1>1, BlankIs
  <2>2. Carried(orders[o], e) /\ \A p \in Orders : Carried(orders[p], orders[p]) /\ Carried(orders[p], Blank)
    BY <1>4, <2>1 DEF Carried
  <2> QED
    BY <1>6, <2>2
<1>8. JobOK'
  <2>1. \A p \in job.todo \ {o} : IsOpen(p)' /\ p \in Orders
    BY <1>6, Facts DEF JobOK, JobType, IsOpen
  <2> QED
    BY <1>1, <1>3, <2>1 DEF JobOK
<1>9. Typed'
  BY <1>2, <1>6, <1>8, Facts, TypedFrom
<1>10. OneBuy' /\ OneSell' /\ (Unexposed({"norow"})' => SellRows')
  BY <1>7, CarriedKeeps DEF BooksInv, Unexposed
<1>11. ASSUME Unexposed({"crash"}) PROVE FillsOK'
  <2>1. FillsOK
    BY <1>11 DEF BooksInv
  <2>2. \A p \in Orders : orders'[p].fills <= 1
    BY <1>4, <1>6, <2>1, BlankIs DEF FillsOK
  <2>3. ASSUME NEW p \in Orders, orders'[p].file = "open" PROVE orders'[p].fills = 0
    <3>1. p # o
      BY <1>4, <1>6, <2>3, BlankIs
    <3> QED
      BY <1>1, <1>6, <2>1, <2>3, <3>1, BlankIs DEF FillsOK, IsOpen
  <2> QED
    BY <2>2, <2>3 DEF FillsOK, IsOpen
<1>12. Shares' = Shares
  BY <1>2 DEF Shares
<1>13. Booked => Booked'
  BY <1>1, <1>2, <1>3, <1>12 DEF Booked
<1> QED
  BY <1>2, <1>9, <1>10, <1>11, <1>12, <1>13 DEF BooksInv, Unexposed

\* The invariant holds of every behaviour.
LEMMA BooksInvHolds == Spec => []BooksInv
<1>1. Init => BooksInv
  <2> SUFFICES ASSUME Init PROVE BooksInv
    OBVIOUS
  <2>1. orders \in [Orders -> OrderType] /\ \A o \in Orders : orders[o] = Blank
    BY BlankIs DEF Init
  <2>2. /\ job \in JobType /\ job.pc = "ready" /\ job.todo = {} /\ job.step = "none"
    BY DEF Init, Ready, JobType
  <2>3. /\ held \in [Keys -> Nat] /\ Shares = 0 /\ cash = Capital /\ position = 0 /\ cash \in Nat
    BY PaperAssumption DEF Init, Keys, Shares
  <2>4. JobOK
    BY <2>2 DEF JobOK
  <2>5. TypeOK
    <3>1. tracked \in [id : Orders \cup {NoOrder}, qty : Nat] /\ job.todo \subseteq Orders
      BY <2>2 DEF Init, Untracked
    <3>2. tasks \in [buys : BOOLEAN, adjust : BOOLEAN, monitor : BOOLEAN]
      BY DEF Init
    <3>3. converted \in BOOLEAN
      BY Zenon DEF Init
    <3>4. /\ phase \in {"pre", "open", "closed", "cleaned"}
          /\ events \subseteq EventKinds /\ exposed \in Exposures
      BY DEF Init
    <3> QED
      BY <2>1, <2>3, <3>1, <3>2, <3>3, <3>4 DEF TypeOK, OrderType
  <2>6. OneBuy /\ OneSell /\ SellRows /\ FillsOK
    BY <2>1, BlankIs DEF OneBuy, OneSell, Buys, Sells, SellRows, FillsOK, IsOpen
  <2>7. Booked /\ cash + Shares = Capital
    BY <2>2, <2>3, PaperAssumption DEF Booked
  <2> QED
    BY <2>4, <2>5, <2>6, <2>7 DEF BooksInv, Typed
<1>2. BooksInv /\ [Next]_vars => BooksInv'
  <2>1. ASSUME BooksInv, Next PROVE BooksInv'
    BY <2>1, BuyOrdersKeep, AdjustKeeps, PassesKeep, EodKeeps, TurnsKeep, SellsKeep, RestartKeeps, PayKeeps,
       CommitKeeps, SaveKeeps DEF Next, Keep, Advance, Proceed
  <2>2. ASSUME BooksInv, UNCHANGED vars PROVE BooksInv'
    BY <2>2 DEF vars, store, BooksInv, Typed, TypeOK, JobOK, OneBuy, OneSell, Buys, Sells, SellRows, FillsOK,
                Booked, Shares, IsOpen, Unexposed
  <2> QED
    BY <2>1, <2>2
<1> QED
  BY <1>1, <1>2, PTL DEF Spec

\* Every variable stays within its type: no order of buys, sells, exits, starts and failures
\* leaves money or shares below nothing.
THEOREM TypeCorrect == Spec => []TypeOK
<1>1. BooksInv => TypeOK
  BY DEF BooksInv, Typed
<1> QED
  BY <1>1, BooksInvHolds, PTL

\* A set any two members of which are the same has at most one.
LEMMA AtMostOne ==
    ASSUME NEW S, \A x, y \in S : x = y
    PROVE  Cardinality(S) <= 1
<1>1. CASE S = {}
  BY <1>1, FS_EmptySet
<1>2. CASE S # {}
  <2>1. PICK x \in S : S = {x}
    BY <1>2
  <2> QED
    BY <2>1, FS_Singleton
<1> QED
  BY <1>1, <1>2

\* One buy order waits under each name and one row of a sell is pending; and unless the process
\* is killed, an order fills at most once, money and shares add up to the capital until a start
\* forgets what the database did not get, and where it got everything memory and position agree.
THEOREM BooksCorrect == Spec => []BooksAgree
<1>1. BooksInv => BooksAgree
  <2> SUFFICES ASSUME BooksInv PROVE BooksAgree
    OBVIOUS
  <2>1. OneEach
    <3>1. ASSUME NEW key \in Keys PROVE Cardinality({o \in Open("buy") : orders[o].key = key}) <= 1
      <4> DEFINE S == {o \in Open("buy") : orders[o].key = key}
      <4>1. \A o, p \in S : o = p
        BY DEF BooksInv, OneBuy, Buys, IsOpen, Open
      <4> HIDE DEF S
      <4>2. Cardinality(S) <= 1
        BY <4>1, AtMostOne
      <4> QED
        BY <4>2 DEF S
    <3>2. Cardinality({o \in Orders : orders[o].side = "sell" /\ orders[o].row = "pending"}) <= 1
      <4> DEFINE S == {o \in Orders : orders[o].side = "sell" /\ orders[o].row = "pending"}
      <4>1. \A o, p \in S : o = p
        BY DEF BooksInv, OneSell, Sells
      <4> HIDE DEF S
      <4>2. Cardinality(S) <= 1
        BY <4>1, AtMostOne
      <4> QED
        BY <4>2 DEF S
    <3> QED
      BY <3>1, <3>2 DEF OneEach
  <2>2. ASSUME Unexposed({"crash"})
        PROVE  /\ \A o \in Orders : orders[o].fills <= 1
               /\ job.step = "none" /\ (Unexposed({"restart"}) \/ Unexposed({"dbfails", "norow"}))
                      => cash + Shares = Capital
               /\ job.step = "none" /\ Unexposed({"dbfails", "norow"}) => Shares = position
    BY <2>2 DEF BooksInv, FillsOK, Booked
  <2> QED
    BY <2>1, <2>2 DEF BooksAgree
<1> QED
  BY <1>1, BooksInvHolds, PTL
=============================================================================
