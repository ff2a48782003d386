---------------------------- MODULE BillingProofs ----------------------------
(***************************************************************************)
(* Proofs about Billing for any number of months and orders, whatever the  *)
(* months may bring, and every combination of events.                      *)
(***************************************************************************)
EXTENDS Billing, TLAPS

-----------------------------------------------------------------------------
(* The type invariant *)

BillType  == [status : {"none", "pending", "overdue", "paid"}, payable : Nat, due : BOOLEAN]
OrderType == [bill : Months \cup {NoBill}, amount : Nat, failed : BOOLEAN,
              state : {"none", "created", "captured"}, returned : Nat]
HookType   == [at : {"write", "record"}, order : Orders, kind : Kinds, rows : SUBSET Keys]
RefundType == [at : {"row", "mark"}, tx : Keys, amount : Nat]

\* What an invoice charges and carries is never negative (compute_performance_fee_invoice).
LEMMA InvoiceType ==
    ASSUME NEW prev \in Nat, NEW cur \in Int
    PROVE  Invoice(prev, cur).charge \in Nat /\ Invoice(prev, cur).carry \in Nat
BY DEF Invoice

\* Bills stay well typed when the job makes one, the time passes or one is marked.
LEMMA BillsType ==
    ASSUME bills \in [Months -> BillType]
    PROVE  /\ \A m : MarkPaid(m) => bills' \in [Months -> BillType]
           /\ \A n \in Nat : NewBill(n) \in BillType
           /\ \A m \in Months : FallDue(m) => bills' \in [Months -> BillType]
           /\ MarkOverdue => bills' \in [Months -> BillType]
<1>1. ASSUME NEW m \in Months
      PROVE  /\ [bills[m] EXCEPT !.status = "paid"] \in BillType
             /\ [bills[m] EXCEPT !.due = TRUE] \in BillType
             /\ [bills[m] EXCEPT !.status = "overdue"] \in BillType
  BY DEF BillType
<1>2. \A m : MarkPaid(m) => bills' \in [Months -> BillType]
  BY <1>1 DEF MarkPaid
<1>3. \A n \in Nat : NewBill(n) \in BillType
  BY DEF NewBill, BillType
<1>4. \A m \in Months : FallDue(m) => bills' \in [Months -> BillType]
  BY <1>1 DEF FallDue
<1>5. MarkOverdue => bills' \in [Months -> BillType]
  BY <1>1 DEF MarkOverdue
<1> QED
  BY <1>2, <1>3, <1>4, <1>5

\* The rows of a report are keys of the table.
LEMMA WritesType ==
    ASSUME NEW o \in Orders, NEW kind \in Kinds
    PROVE  Writes(o, kind) \subseteq Keys
BY DEF Writes, BillTx, PayTx, FailTx, Keys

\* What happens is one of the events a behaviour may expose.
LEMMA EventsType == TypeOK => \A kind : Happens(kind) => events' \subseteq EventKinds
BY BillingAssumption DEF TypeOK, Happens

\* The job of the month and the bills.
LEMMA JobType == TypeOK /\ Keep(Job) => TypeOK'
<1> SUFFICES ASSUME TypeOK, Keep(Job) PROVE TypeOK'
  OBVIOUS
<1> USE BillingAssumption
<1>1. bills \in [Months -> BillType] /\ pnl \in Int
  BY DEF TypeOK, BillType
<1>2. CASE MonthEnds
  <2>1. month' \in 0 .. MaxMonths
    BY <1>2 DEF MonthEnds, Lasts, TypeOK
  <2>2. pnl' \in PnLs \cup {0}
    BY <1>2 DEF MonthEnds, Brings
  <2> QED
    BY <1>2, <2>1, <2>2 DEF MonthEnds, Keep, TypeOK, books, reports, requests
<1>3. CASE CloseMonth
  <2>1. closing' \in BOOLEAN
    BY <1>3 DEF CloseMonth
  <2>2. pnl' \in PnLs \cup {0}
    <3>1. CASE closing'
      BY <1>3, <3>1 DEF CloseMonth, TypeOK
    <3>2. CASE ~closing'
      BY <1>3, <3>2 DEF CloseMonth
    <3> QED
      BY <3>1, <3>2
  <2>3. events' \subseteq EventKinds
    BY <1>3, EventsType DEF CloseMonth, TypeOK
  <2>4. CASE MakeBill
    <3>1. Invoice(carry, pnl).charge \in Nat /\ Invoice(carry, pnl).carry \in Nat
      BY <1>1, InvoiceType DEF TypeOK
    <3>2. NewBill(Invoice(carry, pnl).charge) \in BillType
      BY <3>1, <1>1, BillsType
    <3>3. bills' \in [Months -> BillType]
      BY <1>1, <2>4, <3>2 DEF MakeBill
    <3>4. carry' \in Nat /\ charged' \in Nat /\ earned' \in Int /\ peak' \in Nat
      BY <1>1, <2>4, <3>1 DEF MakeBill, TypeOK
    <3> QED
      BY <1>3, <3>3, <3>4, <2>1, <2>2, <2>3 DEF CloseMonth, Keep, TypeOK, BillType, books, reports, requests
  <2>5. CASE UNCHANGED <<bills, carry, charged, earned, peak>>
    BY <1>3, <2>1, <2>2, <2>3, <2>5 DEF CloseMonth, Keep, TypeOK, books, reports, requests
  <2> QED
    BY <1>3, <2>4, <2>5 DEF CloseMonth
<1>4. CASE MissMonth
  <2>1. events' \subseteq EventKinds
    BY <1>4, EventsType DEF MissMonth
  <2>2. closing' \in BOOLEAN /\ pnl' = 0
    BY <1>4 DEF MissMonth
  <2> QED
    BY <1>4, <2>1, <2>2 DEF MissMonth, Keep, TypeOK, books, reports, requests
<1>5. CASE MarkOverdue \/ \E m \in Months : FallDue(m)
  <2>1. bills' \in [Months -> BillType]
    BY <1>1, <1>5, BillsType
  <2> QED
    BY <1>5, <2>1 DEF MarkOverdue, FallDue, Keep, TypeOK, BillType, fee, books, reports, requests
<1> QED
  BY <1>2, <1>3, <1>4, <1>5 DEF Keep, Job

\* The buyer at the provider.
LEMMA BuyerType == TypeOK /\ Keep(Buyer) => TypeOK'
<1> SUFFICES ASSUME TypeOK, Keep(Buyer) PROVE TypeOK'
  OBVIOUS
<1>1. orders \in [Orders -> OrderType] /\ \A m \in Months : bills[m].payable \in Nat
  BY DEF TypeOK, OrderType
<1>2. orders' \in [Orders -> OrderType]
  <2>1. CASE \E o \in Orders : CreateOrder(o)
    <3>1. OrderOf(NoBill, 1) \in OrderType
      BY DEF OrderOf, OrderType
    <3> QED
      BY <1>1, <2>1, <3>1 DEF CreateOrder
  <2>2. CASE \E o \in Orders : Pay(o)
    <3>1. PICK o \in Orders : Pay(o)
      BY <2>2
    <3>2. /\ [orders[o] EXCEPT !.state = "captured"] \in OrderType
          /\ [orders[o] EXCEPT !.failed = TRUE] \in OrderType
      BY <1>1 DEF OrderType
    <3> QED
      BY <1>1, <3>1, <3>2 DEF Pay
  <2>3. CASE \E o \in Orders, m \in Months : CheckOut(o, m)
    <3>1. PICK o \in Orders, m \in Months : CheckOut(o, m)
      BY <2>3
    <3>2. OrderOf(m, bills[m].payable) \in OrderType
      BY <1>1 DEF OrderOf, OrderType
    <3> QED
      BY <1>1, <3>1, <3>2 DEF CheckOut
  <2> QED
    BY <2>1, <2>2, <2>3 DEF Keep, Buyer
<1>3. UNCHANGED <<fee, bills, books, reports, requests, events, exposed>>
  BY DEF Keep, Buyer, CreateOrder, Pay, CheckOut
<1> QED
  BY <1>2, <1>3 DEF TypeOK, OrderType, fee, books, reports, requests

\* The webhook.
LEMMA WebhookType == TypeOK /\ Keep(Receipt \/ Webhook \/ Fail) => TypeOK'
<1> SUFFICES ASSUME TypeOK, Keep(Receipt \/ Webhook \/ Fail) PROVE TypeOK'
  OBVIOUS
<1>1. CASE Receipt
  <2>1. PICK o \in Orders, kind \in Kinds : Receive(o, kind)
    BY <1>1 DEF Receipt
  <2>2. hook' = hook \/ hook' \in HookType
    BY <2>1, WritesType DEF Receive, HookType
  <2>3. acked' \subseteq Orders \X Kinds
    BY <2>1 DEF Receive, TypeOK
  <2>4. events' \subseteq EventKinds
    BY <2>1, EventsType DEF Receive, TypeOK
  <2> QED
    BY <2>1, <2>2, <2>3, <2>4 DEF Receive, Keep, TypeOK, HookType, fee, books
<1>2. CASE Write
  <2>1. hook \in HookType
    BY <1>2 DEF Write, TypeOK, HookType, NoHook
  <2>2. hook' = NoHook \/ hook' \in HookType
    BY <1>2, <2>1 DEF Write, HookType
  <2>3. txs' \subseteq Keys
    BY <1>2, <2>1 DEF Write, HookType, TypeOK
  <2>4. bills' \in [Months -> BillType]
    BY <1>2, BillsType DEF Write, TypeOK, BillType
  <2> QED
    BY <1>2, <2>2, <2>3, <2>4 DEF Write, Keep, TypeOK, BillType, HookType, fee, reports
<1>3. CASE Record
  <2>1. hook \in HookType
    BY <1>3 DEF Record, TypeOK, HookType, NoHook
  <2>2. seen' \subseteq Orders \X Kinds /\ acked' \subseteq Orders \X Kinds
    BY <1>3, <2>1 DEF Record, HookType, TypeOK
  <2> QED
    BY <1>3, <2>2 DEF Record, Keep, TypeOK, fee, books
<1>4. CASE Fail
  <2>1. events' \subseteq EventKinds
    BY <1>4, EventsType DEF Fail
  <2>2. (hook' = NoHook /\ UNCHANGED refund) \/ (UNCHANGED hook /\ refund' = NoRefund)
    BY <1>4 DEF Fail
  <2> QED
    BY <1>4, <2>1, <2>2 DEF Fail, Keep, TypeOK, fee, books, reports
<1> QED
  BY <1>1, <1>2, <1>3, <1>4 DEF Keep, Webhook

\* The key of a refund's transaction names the order.
LEMMA RefundKey ==
    ASSUME NEW tx \in Keys, tx[1] \in {"bill", "pay"}
    PROVE  /\ tx[2] \in Orders
           /\ \A o \in Orders : tx \in {BillTx(o), PayTx(o)} => o = tx[2]
BY DEF Keys, BillTx, PayTx

\* What a refund gives back and books: the same, or, where the amount is left out, what is
\* left and the whole amount (admin_refund).
LEMMA RefundOf ==
    ASSUME TypeOK, NEW tx \in Keys, BeginRefund(tx)
    PROVE  \E given, booked \in Nat :
               /\ GiveBack(tx, given, booked) /\ given > 0 /\ booked > 0
               /\ \/ booked = given
                  \/ /\ orders[tx[2]].returned > 0 /\ Happens("rest")
                     /\ booked = orders[tx[2]].returned + given
<1> DEFINE o == tx[2]
<1>1. orders[o].amount \in Nat /\ orders[o].returned \in Nat /\ Rest(o) > 0
  BY RefundKey DEF BeginRefund, TypeOK
<1>2. Rest(o) \in Nat /\ orders[o].amount = orders[o].returned + Rest(o)
  BY <1>1 DEF Rest
<1>3. CASE \E n \in 1 .. Rest(o) : GiveBack(tx, n, n)
  BY <1>2, <1>3
<1>4. CASE /\ GiveBack(tx, Rest(o), orders[o].amount)
           /\ IF orders[o].returned > 0 THEN Happens("rest") ELSE UNCHANGED events
  <2>1. CASE orders[o].returned > 0
    BY <1>1, <1>2, <1>4, <2>1
  <2>2. CASE ~(orders[o].returned > 0)
    <3>1. orders[o].amount = Rest(o)
      BY <1>1, <1>2, <2>2
    <3> QED
      BY <1>1, <1>2, <1>4, <3>1
  <2> QED
    BY <2>1, <2>2
<1> QED
  BY <1>3, <1>4 DEF BeginRefund

\* The admin: what the lookups of the requests begin.
LEMMA AskType == TypeOK /\ Keep(Ask) => TypeOK'
<1> SUFFICES ASSUME TypeOK, Keep(Ask) PROVE TypeOK'
  OBVIOUS
<1>1. CASE \E m \in Months : ReceiveCash(m)
  BY <1>1 DEF ReceiveCash, Keep, TypeOK, fee, books, reports
<1>2. CASE \E tx \in Keys : BeginRefund(tx)
  <2>1. PICK tx \in Keys : BeginRefund(tx)
    BY <1>2
  <2>2. orders \in [Orders -> OrderType] /\ tx[2] \in Orders
    BY <2>1, RefundKey DEF BeginRefund, TypeOK, OrderType
  <2>3. PICK given \in Nat, booked \in Nat : GiveBack(tx, given, booked)
    BY <2>1, <2>2, RefundOf
  <2>4. [orders[tx[2]] EXCEPT !.returned = @ + given] \in OrderType
    BY <2>2 DEF OrderType
  <2>5. orders' \in [Orders -> OrderType] /\ refund' \in RefundType
    BY <2>2, <2>3, <2>4 DEF GiveBack, RefundType
  <2>6. events' \subseteq EventKinds
    BY <2>1, EventsType DEF BeginRefund, TypeOK
  <2> QED
    BY <2>1, <2>5, <2>6 DEF BeginRefund, Keep, TypeOK, OrderType, RefundType, fee, books, reports
<1> QED
  BY <1>1, <1>2 DEF Keep, Ask

\* The admin: what the requests commit; and the end of the process.
LEMMA AdminType == TypeOK /\ Keep(Admin \/ Crash) => TypeOK'
<1> SUFFICES ASSUME TypeOK, Keep(Admin \/ Crash) PROVE TypeOK'
  OBVIOUS
<1>1. CASE RecordCash
  <2>1. bills' \in [Months -> BillType]
    BY <1>1, BillsType DEF RecordCash, TypeOK, BillType
  <2>2. txs' \subseteq Keys
    BY <1>1 DEF RecordCash, TypeOK, CashTx, Keys
  <2>3. cash' \in Months \cup {NoBill} /\ UNCHANGED <<fee, orders, returned, refunds, reports, hook, refund, events, exposed>>
    BY <1>1 DEF RecordCash, Keep
  <2> QED
    BY <2>1, <2>2, <2>3 DEF TypeOK, BillType, fee, reports
<1>2. CASE AddRefund
  <2>1. refund \in RefundType
    BY <1>2 DEF AddRefund, TypeOK, NoRefund, RefundType
  <2>2. refund.amount \in Nat /\ refund' \in RefundType
    BY <1>2, <2>1 DEF AddRefund, RefundType
  <2>3. refunds' \in [Orders -> Nat]
    <3>1. refunds \in [Orders -> Nat] /\ refunds' = [refunds EXCEPT ![refund.tx[2]] = @ + refund.amount]
      BY <1>2 DEF AddRefund, TypeOK
    <3>2. CASE refund.tx[2] \in Orders
      <4>1. refunds[refund.tx[2]] + refund.amount \in Nat
        BY <2>2, <3>1, <3>2
      <4> QED
        BY <3>1, <3>2, <4>1
    <3>3. CASE refund.tx[2] \notin Orders
      BY <3>1, <3>3
    <3> QED
      BY <3>2, <3>3
  <2> QED
    BY <1>2, <2>2, <2>3 DEF AddRefund, Keep, TypeOK, RefundType, fee, reports
<1>3. CASE MarkRefunded
  <2>1. refund \in RefundType
    BY <1>3 DEF MarkRefunded, TypeOK, NoRefund, RefundType
  <2> QED
    BY <1>3, <2>1 DEF MarkRefunded, Keep, TypeOK, RefundType, fee, reports
<1>4. CASE Crash
  <2>1. events' \subseteq EventKinds
    BY <1>4, EventsType DEF Crash
  <2> QED
    BY <1>4, <2>1 DEF Crash, Keep, TypeOK, fee, books, reports
<1> QED
  BY <1>1, <1>2, <1>3, <1>4 DEF Keep, Admin

\* Whatever happens, every variable stays within its type.
LEMMA TypeStep == TypeOK /\ [Next]_vars => TypeOK'
<1>1. ASSUME TypeOK, Next PROVE TypeOK'
  BY <1>1, JobType, BuyerType, WebhookType, AskType, AdminType DEF Next, Keep, Advance
<1>2. ASSUME TypeOK, UNCHANGED vars PROVE TypeOK'
  BY <1>2 DEF vars, fee, books, reports, requests, TypeOK
<1> QED
  BY <1>1, <1>2

\* What the tables hold before the first month.
LEMMA TypeInit == Init => TypeOK
<1> SUFFICES ASSUME Init PROVE TypeOK
  OBVIOUS
<1>1. Unbilled \in BillType
  BY DEF Unbilled, NewBill, BillType
<1>2. NoOrder \in OrderType
  BY DEF NoOrder, OrderOf, OrderType
<1>3. bills \in [Months -> BillType] /\ orders \in [Orders -> OrderType] /\ refunds \in [Orders -> Nat]
  BY <1>1, <1>2 DEF Init
<1>4. month \in 0 .. MaxMonths
  BY BillingAssumption DEF Init
<1>5. pnl \in PnLs \cup {0} /\ carry \in Nat /\ earned \in Int /\ peak \in Nat /\ charged \in Nat
  BY DEF Init
<1>6. closing \in BOOLEAN /\ cash \in Months \cup {NoBill} /\ events \subseteq EventKinds
  BY DEF Init
<1>7. txs \subseteq Keys /\ returned \subseteq Keys /\ seen \subseteq Orders \X Kinds /\ acked \subseteq Orders \X Kinds
  BY DEF Init
<1> QED
  BY <1>3, <1>4, <1>5, <1>6, <1>7 DEF Init, TypeOK, BillType, OrderType

\* For every number of months and orders and every course of events, the books and the
\* requests of the billing service stay well typed: no charge, carried loss or refund is
\* ever negative.
THEOREM TypeCorrect == Spec => []TypeOK
<1> QED
  BY TypeInit, TypeStep, PTL DEF Spec

-----------------------------------------------------------------------------
(* The fee *)

\* A bill charges what the profit rises above its highest level, and carries what it
\* stays below it (compute_performance_fee_invoice, generate_bill_for_user_month).
LEMMA MakeBillFee == TypeOK /\ FeeIsHighWater /\ MakeBill => FeeIsHighWater'
<1> SUFFICES ASSUME TypeOK, FeeIsHighWater, MakeBill PROVE FeeIsHighWater'
  OBVIOUS
<1>1. pnl \in Int /\ carry \in Nat /\ earned \in Int /\ peak \in Nat /\ charged \in Nat
  BY BillingAssumption DEF TypeOK
<1>2. charged = peak /\ carry = peak - earned
  BY DEF FeeIsHighWater
<1>3. /\ charged' = charged + Invoice(carry, pnl).charge
      /\ carry' = Invoice(carry, pnl).carry
      /\ earned' = earned + pnl
      /\ peak' = IF earned + pnl > peak THEN earned + pnl ELSE peak
  BY DEF MakeBill
<1>4. CASE pnl > carry
  BY <1>1, <1>2, <1>3, <1>4 DEF Invoice, FeeIsHighWater
<1>5. CASE ~(pnl > carry)
  BY <1>1, <1>2, <1>3, <1>5 DEF Invoice, FeeIsHighWater
<1> QED
  BY <1>4, <1>5

\* For every sequence of monthly profits and losses, with months that are missed and jobs
\* that run twice: the sum of the charges is the highest level of the billed profit, and
\* the loss that is carried is the distance to it.
THEOREM FeeCorrect == Spec => []FeeIsHighWater
<1>1. Init => FeeIsHighWater
  BY DEF Init, FeeIsHighWater
<1>2. TypeOK /\ FeeIsHighWater /\ [Next]_vars => FeeIsHighWater'
  <2> SUFFICES ASSUME TypeOK, FeeIsHighWater, [Next]_vars PROVE FeeIsHighWater'
    OBVIOUS
  <2>1. CASE CloseMonth
    <3>1. CASE MakeBill
      BY <3>1, MakeBillFee
    <3>2. CASE UNCHANGED <<bills, carry, charged, earned, peak>>
      BY <3>2 DEF FeeIsHighWater
    <3> QED
      BY <2>1, <3>1, <3>2 DEF CloseMonth
  <2>2. CASE ~CloseMonth
    <3>1. UNCHANGED <<carry, earned, peak, charged>>
      BY <2>2 DEF Next, Keep, Advance, Job, Buyer, Receipt, Webhook, Ask, Admin, Fail, Crash,
                  MonthEnds, MissMonth, MarkOverdue, FallDue, CreateOrder, Pay, CheckOut,
                  Receive, Write, Record, ReceiveCash, BeginRefund, RecordCash, AddRefund,
                  MarkRefunded, vars, fee
    <3> QED
      BY <3>1 DEF FeeIsHighWater
  <2> QED
    BY <2>1, <2>2
<1> QED
  BY <1>1, <1>2, TypeInit, TypeStep, PTL DEF Spec

-----------------------------------------------------------------------------
(* Payments.  The books alone are not inductive: a row that the webhook is about to   *)
(* write must already be true, a refund in hand is of a payment, and, where requests  *)
(* do not overlap, the bill that is about to be marked must wait.                     *)

\* The payment of o is what the rows with its keys say.
Stands(o, rows) ==
    /\ BillTx(o) \in rows => orders[o].state = "captured" /\ orders[o].bill # NoBill
    /\ PayTx(o) \in rows => orders[o].state = "captured" /\ orders[o].bill = NoBill
    /\ FailTx(o) \in rows => orders[o].failed

RowsStand ==
    hook.at = "write" =>
        /\ hook.rows \in {{}, {BillTx(hook.order)}, {PayTx(hook.order)}, {FailTx(hook.order)}}
        /\ Stands(hook.order, hook.rows)

RefundHeld ==
    /\ refund # NoRefund => refund.tx[1] \in {"bill", "pay"}
    /\ refund.at = "row" => refund.amount > 0
    /\ refund.at = "mark" => refunds[refund.tx[2]] > 0

Marking(m) == hook.at = "write" /\ BillTx(hook.order) \in hook.rows /\ m = orders[hook.order].bill

OneAtATime ==
    "overlap" \notin exposed =>
        /\ hook = NoHook \/ cash = NoBill
        /\ \A m \in Months : cash = m \/ Marking(m) => AwaitsPayment(m)
        /\ \A m \in Months : \A tx, other \in Settling(m) : tx = other

BooksInv == TypeOK /\ Backed /\ RefundsBooked /\ RowsStand /\ RefundHeld /\ OneAtATime

\* The keys of transactions tell the kind and the order or month.
LEMMA KeysDiffer ==
    \A x, y :
        /\ BillTx(x) # CashTx(y) /\ PayTx(x) # CashTx(y) /\ FailTx(x) # CashTx(y)
        /\ BillTx(x) # PayTx(y) /\ BillTx(x) # FailTx(y) /\ PayTx(x) # FailTx(y)
        /\ BillTx(x) = BillTx(y) => x = y
        /\ PayTx(x) = PayTx(y) => x = y
        /\ FailTx(x) = FailTx(y) => x = y
        /\ CashTx(x) = CashTx(y) => x = y
BY DEF BillTx, CashTx, PayTx, FailTx

\* What is known of an order stays: its bill, and that it was paid or that a payment
\* failed.
LEMMA OrdersKept ==
    ASSUME TypeOK, [Next]_vars, NEW o \in Orders, orders[o] # NoOrder
    PROVE  /\ orders'[o].bill = orders[o].bill
           /\ orders[o].state = "captured" => orders'[o].state = "captured"
           /\ orders[o].failed => orders'[o].failed
<1>1. orders \in [Orders -> OrderType]
  BY DEF TypeOK, OrderType
<1>2. CASE \E p \in Orders : CreateOrder(p) \/ \E m \in Months : CheckOut(p, m)
  <2>1. PICK p \in Orders : CreateOrder(p) \/ \E m \in Months : CheckOut(p, m)
    BY <1>2
  <2>2. p # o
    BY <2>1 DEF CreateOrder, CheckOut, IsNew
  <2> QED
    BY <2>1, <2>2, <1>1 DEF CreateOrder, CheckOut
<1>3. CASE \E p \in Orders : Pay(p)
  BY <1>1, <1>3 DEF Pay, OrderType
<1>4. CASE \E tx \in Keys : BeginRefund(tx)
  <2>1. PICK tx \in Keys : \E given, booked \in Nat : GiveBack(tx, given, booked)
    BY <1>4, RefundOf
  <2> QED
    BY <1>1, <2>1 DEF GiveBack, OrderType
<1>5. CASE UNCHANGED orders
  BY <1>5
<1> QED
  BY <1>2, <1>3, <1>4, <1>5 DEF Next, Keep, Advance, Job, Buyer, Receipt, Webhook, Ask, Admin,
     Fail, Crash, MonthEnds, CloseMonth, MissMonth, MarkOverdue, FallDue, Receive, Write, Record,
     ReceiveCash, RecordCash, AddRefund, MarkRefunded, vars

\* What was said of a payment stays true.
LEMMA StandsKept ==
    ASSUME TypeOK, [Next]_vars, NEW o \in Orders, NEW rows, Stands(o, rows)
    PROVE  Stands(o, rows)'
<1>1. CASE orders[o] = NoOrder
  BY <1>1 DEF Stands, NoOrder, OrderOf
<1>2. CASE orders[o] # NoOrder
  BY <1>2, OrdersKept DEF Stands
<1> QED
  BY <1>1, <1>2

\* Which steps change what the requests and the books hold.
LEMMA Frames ==
    ASSUME [Next]_vars
    PROVE  /\ Write \/ RecordCash \/ UNCHANGED txs
           /\ Write \/ Record \/ Fail \/ Crash \/ Receipt \/ UNCHANGED hook
           /\ RecordCash \/ Crash \/ (\E m \in Months : ReceiveCash(m)) \/ UNCHANGED cash
           /\ AddRefund \/ UNCHANGED refunds
           /\ MarkRefunded \/ UNCHANGED returned
           /\ (\E tx \in Keys : BeginRefund(tx)) \/ AddRefund \/ MarkRefunded \/ Fail \/ Crash
                  \/ UNCHANGED refund
           /\ UNCHANGED exposed
BY DEF Next, Keep, Advance, Job, Buyer, Receipt, Webhook, Ask, Admin, Fail, Crash, MonthEnds,
       CloseMonth, MissMonth, MarkOverdue, FallDue, CreateOrder, Pay, CheckOut, Receive, Write,
       Record, ReceiveCash, BeginRefund, RecordCash, AddRefund, MarkRefunded, vars, books, requests

\* The webhook is about to write what the provider reported (_handle_payment_event).
LEMMA RowsStep == TypeOK /\ RowsStand /\ [Next]_vars => RowsStand'
<1> SUFFICES ASSUME TypeOK, RowsStand, [Next]_vars PROVE RowsStand'
  OBVIOUS
<1>1. CASE Receipt
  <2>1. PICK o \in Orders, kind \in Kinds : Receive(o, kind)
    BY <1>1 DEF Receipt
  <2>2. CASE UNCHANGED hook
    BY <2>1, <2>2 DEF Receive, RowsStand, Stands
  <2>3. CASE hook' = [at |-> "write", order |-> o, kind |-> kind, rows |-> Writes(o, kind)]
    <3>1. Writes(o, kind) \in {{}, {BillTx(o)}, {PayTx(o)}, {FailTx(o)}}
      BY DEF Writes
    <3>2. Stands(o, Writes(o, kind))
      BY <2>1, KeysDiffer DEF Receive, Reported, Writes, Stands
    <3> QED
      BY <2>1, <2>3, <3>1, <3>2 DEF Receive, RowsStand, Stands
  <2> QED
    BY <2>1, <2>2, <2>3 DEF Receive
<1>2. CASE Write \/ hook' = NoHook
  BY <1>2 DEF Write, RowsStand, NoHook, TypeOK
<1>3. CASE UNCHANGED hook
  <2> SUFFICES ASSUME hook.at = "write" PROVE RowsStand'
    BY <1>3 DEF RowsStand
  <2>1. hook.order \in Orders
    BY DEF TypeOK, NoHook
  <2>2. Stands(hook.order, hook.rows)
    BY DEF RowsStand
  <2>3. \A o \in Orders : \A rows : Stands(o, rows) => Stands(o, rows)'
    BY StandsKept
  <2>4. Stands(hook.order, hook.rows)'
    BY <1>3, <2>1, <2>2, <2>3 DEF Stands
  <2> QED
    BY <1>3, <2>4 DEF RowsStand
<1> QED
  BY <1>1, <1>2, <1>3, Frames DEF Record, Fail, Crash

\* Every transaction stands for a payment.
LEMMA TxsStep ==
    ASSUME TypeOK, RowsStand, [Next]_vars, \A o \in Orders : Stands(o, txs)
    PROVE  \A o \in Orders : Stands(o, txs)'
<1> SUFFICES ASSUME NEW o \in Orders PROVE Stands(o, txs)'
  OBVIOUS
<1>1. CASE UNCHANGED txs
  BY <1>1, StandsKept DEF Stands
<1>2. CASE Write /\ ~UNCHANGED txs
  <2>1. txs' = txs \cup hook.rows /\ hook.at = "write" /\ UNCHANGED orders
    BY <1>2 DEF Write
  <2>2. Stands(o, hook.rows)
    BY <2>1, KeysDiffer DEF RowsStand, Stands
  <2> QED
    BY <2>1, <2>2 DEF Stands
<1>3. CASE RecordCash
  BY <1>3, KeysDiffer DEF RecordCash, Stands
<1> QED
  BY <1>1, <1>2, <1>3, Frames

\* What has happened is not forgotten.
LEMMA EventsGrow == [Next]_vars => events \subseteq events'
BY DEF Next, Keep, Advance, Job, Buyer, Receipt, Webhook, Ask, Admin, Fail, Crash, MonthEnds,
       CloseMonth, MissMonth, MarkOverdue, FallDue, CreateOrder, Pay, CheckOut, Receive, Write,
       Record, ReceiveCash, BeginRefund, RecordCash, AddRefund, MarkRefunded, vars, Happens

\* But for a refund, what an order gave back stays, and an order that is made has given
\* back nothing.
LEMMA ReturnedKept ==
    ASSUME TypeOK, [Next]_vars, ~\E tx \in Keys : BeginRefund(tx)
    PROVE  \A o \in Orders : orders'[o].returned = orders[o].returned
<1> SUFFICES ASSUME NEW o \in Orders PROVE orders'[o].returned = orders[o].returned
  OBVIOUS
<1>1. orders \in [Orders -> OrderType]
  BY DEF TypeOK, OrderType
<1>2. CASE \E p \in Orders : CreateOrder(p) \/ \E m \in Months : CheckOut(p, m)
  <2>1. PICK p \in Orders : CreateOrder(p) \/ \E m \in Months : CheckOut(p, m)
    BY <1>2
  <2>2. orders[p].returned = 0
    BY <2>1 DEF CreateOrder, CheckOut, IsNew, NoOrder, OrderOf
  <2>3. orders'[p].returned = 0
    BY <1>1, <2>1 DEF CreateOrder, CheckOut, OrderOf
  <2>4. o # p => orders'[o] = orders[o]
    BY <1>1, <2>1 DEF CreateOrder, CheckOut
  <2> QED
    BY <2>2, <2>3, <2>4
<1>3. CASE \E p \in Orders : Pay(p)
  BY <1>1, <1>3 DEF Pay, OrderType
<1>4. CASE UNCHANGED orders
  BY <1>4
<1> QED
  BY <1>2, <1>3, <1>4 DEF Next, Keep, Advance, Job, Buyer, Receipt, Webhook, Ask, Admin,
     Fail, Crash, MonthEnds, CloseMonth, MissMonth, MarkOverdue, FallDue, Receive, Write, Record,
     ReceiveCash, RecordCash, AddRefund, MarkRefunded, vars

\* The rows of refunds say what was given back, but for the two ways in which they part
\* from it (admin_refund).
LEMMA RefundStep ==
    TypeOK /\ RefundsBooked /\ RefundHeld /\ [Next]_vars => (RefundsBooked /\ RefundHeld)'
<1> SUFFICES ASSUME TypeOK, RefundsBooked, RefundHeld, [Next]_vars
             PROVE  (RefundsBooked /\ RefundHeld)'
  OBVIOUS
<1>1. /\ orders \in [Orders -> OrderType] /\ refunds \in [Orders -> Nat]
      /\ refund = NoRefund \/ refund \in RefundType
      /\ \A o \in Orders : refunds[o] \in Nat /\ orders[o].returned \in Nat
  BY DEF TypeOK, OrderType, RefundType
<1>2. \A o \in Orders : InHand(o) \in Nat
  BY <1>1 DEF InHand, RefundType, NoRefund
<1>3. events \subseteq events'
  BY EventsGrow
<1>4. CASE \E tx \in Keys : BeginRefund(tx)
  <2>1. PICK tx \in Keys : BeginRefund(tx)
    BY <1>4
  <2>2. PICK given \in Nat, booked \in Nat :
            /\ GiveBack(tx, given, booked) /\ booked > 0
            /\ \/ booked = given
               \/ /\ orders[tx[2]].returned > 0 /\ Happens("rest")
                  /\ booked = orders[tx[2]].returned + given
    BY <2>1, RefundOf
  <2>3. /\ tx[1] \in {"bill", "pay"} /\ tx[2] \in Orders
        /\ refund = NoRefund /\ UNCHANGED <<refunds, returned>>
    BY <2>1, RefundKey DEF BeginRefund, books
  <2>4. refund'.at = "row" /\ refund'.tx = tx /\ refund'.amount = booked
    BY <2>2 DEF GiveBack
  <2>5. RefundHeld'
    BY <2>2, <2>3, <2>4 DEF RefundHeld
  <2>6. ASSUME NEW o \in Orders, o # tx[2]
        PROVE  RowsSay(o)' = RowsSay(o) /\ orders'[o].returned = orders[o].returned
    BY <1>1, <2>2, <2>3, <2>4, <2>6 DEF RowsSay, InHand, NoRefund, GiveBack
  <2>7. /\ RowsSay(tx[2]) = refunds[tx[2]] /\ RowsSay(tx[2])' = refunds[tx[2]] + booked
        /\ orders'[tx[2]].returned = orders[tx[2]].returned + given
    BY <1>1, <2>2, <2>3, <2>4 DEF RowsSay, InHand, NoRefund, GiveBack, OrderType
  <2>8. /\ RowsSay(tx[2])' < orders'[tx[2]].returned => RowsSay(tx[2]) < orders[tx[2]].returned
        /\ RowsSay(tx[2])' > orders'[tx[2]].returned =>
              RowsSay(tx[2]) > orders[tx[2]].returned \/ "rest" \in events'
    BY <1>1, <2>2, <2>3, <2>7 DEF Happens
  <2>9. RefundsBooked'
    BY <1>3, <2>3, <2>6, <2>8 DEF RefundsBooked
  <2> QED
    BY <2>5, <2>9
<1>5. CASE AddRefund
  <2>1. refund \in RefundType /\ refund.tx[1] \in {"bill", "pay"} /\ refund.at = "row"
    BY <1>1, <1>5 DEF AddRefund, RefundHeld, NoRefund
  <2>2. refund.tx[2] \in Orders /\ refund.amount \in Nat /\ refund.amount > 0
    BY <2>1, RefundKey DEF RefundType, RefundHeld
  <2>3. /\ UNCHANGED <<orders, returned, events>>
        /\ refunds' = [refunds EXCEPT ![refund.tx[2]] = @ + refund.amount]
        /\ refund'.tx = refund.tx /\ refund'.at = "mark" /\ refund' # NoRefund
    BY <1>5, <2>1 DEF AddRefund, RefundType, NoRefund
  <2>4. \A o \in Orders : refunds'[o] = refunds[o] + InHand(o)
    BY <1>1, <2>1, <2>2, <2>3 DEF InHand
  <2>5. \A o \in Orders : RowsSay(o)' = RowsSay(o)
    BY <1>1, <1>2, <2>3, <2>4 DEF RowsSay, InHand
  <2>6. \A o \in Orders : refunds[o] > 0 => refunds'[o] > 0
    BY <1>1, <1>2, <2>4
  <2>7. RefundsBooked'
    BY <2>3, <2>5, <2>6 DEF RefundsBooked
  <2>8. refunds'[refund.tx[2]] > 0
    BY <1>1, <2>2, <2>3
  <2> QED
    BY <2>1, <2>3, <2>7, <2>8 DEF RefundHeld
<1>6. CASE MarkRefunded
  <2>1. /\ refund \in RefundType /\ refund.tx[1] \in {"bill", "pay"}
        /\ refunds[refund.tx[2]] > 0 /\ refund.at = "mark"
    BY <1>1, <1>6 DEF MarkRefunded, RefundHeld, NoRefund
  <2>2. \A o \in Orders : refund.tx \in {BillTx(o), PayTx(o)} => o = refund.tx[2]
    BY <2>1, RefundKey DEF RefundType
  <2>3. /\ returned' = returned \cup {refund.tx} /\ refund' = NoRefund
        /\ UNCHANGED <<orders, refunds, events>>
    BY <1>6 DEF MarkRefunded
  <2>4. \A o \in Orders : RowsSay(o)' = RowsSay(o)
    BY <2>1, <2>3 DEF RowsSay, InHand, NoRefund
  <2>5. RefundsBooked'
    BY <2>1, <2>2, <2>3, <2>4 DEF RefundsBooked
  <2> QED
    BY <2>3, <2>5 DEF RefundHeld, NoRefund
<1>7. CASE /\ ~\E tx \in Keys : BeginRefund(tx)
           /\ ~AddRefund /\ ~MarkRefunded
  <2>1. UNCHANGED <<refunds, returned>>
    BY <1>7, Frames
  <2>2. \A o \in Orders : orders'[o].returned = orders[o].returned
    BY <1>7, ReturnedKept
  <2>3. CASE UNCHANGED refund
    <3>1. \A o \in Orders : RowsSay(o)' = RowsSay(o)
      BY <2>1, <2>3 DEF RowsSay, InHand
    <3> QED
      BY <1>3, <2>1, <2>2, <2>3, <3>1 DEF RefundsBooked, RefundHeld
  <2>4. CASE refund' = NoRefund /\ events' \cap {"crash", "error"} # {}
    <3>1. \A o \in Orders : RowsSay(o)' = refunds[o] /\ RowsSay(o) >= refunds[o]
      BY <1>1, <1>2, <2>1, <2>4 DEF RowsSay, InHand, NoRefund
    <3>2. \A o \in Orders : RowsSay(o)' > orders'[o].returned => RowsSay(o) > orders[o].returned
      BY <1>1, <1>2, <2>2, <3>1 DEF RowsSay
    <3>3. RefundsBooked'
      BY <1>3, <2>1, <2>4, <3>2 DEF RefundsBooked
    <3> QED
      BY <2>4, <3>3 DEF RefundHeld, NoRefund
  <2> QED
    BY <1>7, <2>3, <2>4, Frames DEF Fail, Crash, Happens
<1> QED
  BY <1>4, <1>5, <1>6, <1>7

\* A bill is paid if and only if something settles it.
PaidIsSettled == \A m \in Months : bills[m].status = "paid" <=> Settling(m) # {}

\* Steps that write no transaction change nothing about what settles a bill: an order
\* that has one keeps its bill.
LEMMA SettlingKept ==
    ASSUME TypeOK, \A o \in Orders : Stands(o, txs), [Next]_vars, UNCHANGED txs, NEW m \in Months
    PROVE  Settling(m)' = Settling(m)
<1>1. ASSUME NEW o \in Orders, BillTx(o) \in txs
      PROVE  orders'[o].bill = orders[o].bill
  <2>1. orders[o] # NoOrder
    BY <1>1 DEF Stands, NoOrder, OrderOf
  <2> QED
    BY <2>1, OrdersKept
<1> QED
  BY <1>1 DEF Settling

\* Steps that write no transaction leave every bill paid or not, and one that awaits
\* its payment goes on to.
LEMMA BillsKept ==
    ASSUME TypeOK, [Next]_vars, ~Write, ~RecordCash, NEW m \in Months
    PROVE  /\ bills'[m].status = "paid" <=> bills[m].status = "paid"
           /\ AwaitsPayment(m) => AwaitsPayment(m)'
<1>1. bills \in [Months -> BillType]
  BY DEF TypeOK, BillType
<1>2. CASE UNCHANGED bills
  BY <1>2 DEF AwaitsPayment
<1>3. CASE CloseMonth /\ ~UNCHANGED bills
  <2>1. bills[month].status = "none" /\ MakeBill
    BY <1>3 DEF CloseMonth
  <2>2. bills' = [bills EXCEPT ![month] = NewBill(Invoice(carry, pnl).charge)]
    BY <2>1 DEF MakeBill
  <2>3. CASE m = month
    BY <1>1, <2>1, <2>2, <2>3 DEF NewBill, AwaitsPayment
  <2>4. CASE m # month
    BY <1>1, <2>2, <2>4 DEF AwaitsPayment
  <2> QED
    BY <2>3, <2>4
<1>4. CASE \E n \in Months : FallDue(n)
  <2>1. PICK n \in Months : FallDue(n)
    BY <1>4
  <2>2. bills'[m].status = bills[m].status /\ bills'[m].payable = bills[m].payable
    BY <1>1, <2>1 DEF FallDue, BillType
  <2> QED
    BY <2>2 DEF AwaitsPayment
<1>5. CASE MarkOverdue
  <2>1. /\ bills'[m].payable = bills[m].payable
        /\ \/ bills'[m].status = bills[m].status
           \/ bills[m].status = "pending" /\ bills'[m].status = "overdue"
    BY <1>1, <1>5 DEF MarkOverdue, BillType
  <2> QED
    BY <2>1 DEF AwaitsPayment
<1> QED
  BY <1>2, <1>3, <1>4, <1>5 DEF Next, Keep, Advance, Job, Buyer, Receipt, Webhook, Ask, Admin,
     Fail, Crash, MonthEnds, MissMonth, CreateOrder, Pay, CheckOut, Receive, Record,
     ReceiveCash, BeginRefund, AddRefund, MarkRefunded, vars

\* A transaction of month m settles its bill and marks it, and touches no other.
Settles(tx, m) ==
    /\ m \in Months /\ txs' = txs \cup {tx} /\ MarkPaid(m)
    /\ tx = CashTx(m) \/ \E o \in Orders : tx = BillTx(o) /\ orders[o].bill = m

LEMMA SettlesOne ==
    ASSUME TypeOK, UNCHANGED orders, NEW tx, NEW m, Settles(tx, m)
    PROVE  /\ bills'[m].status = "paid" /\ Settling(m)' = Settling(m) \cup {tx}
           /\ \A n \in Months : n # m => bills'[n] = bills[n] /\ Settling(n)' = Settling(n)
<1>1. bills'[m].status = "paid" /\ \A n \in Months : n # m => bills'[n] = bills[n]
  BY DEF Settles, MarkPaid, TypeOK
<1>2. Settling(m)' = Settling(m) \cup {tx}
  BY DEF Settles, Settling
<1>3. \A n \in Months : n # m => Settling(n)' = Settling(n)
  BY KeysDiffer DEF Settles, Settling
<1> QED
  BY <1>1, <1>2, <1>3

\* The commit of a report either marks the bill that the payment was for, or leaves the
\* bills and what settles them alone.
LEMMA WriteSettles ==
    ASSUME TypeOK, RowsStand, Write
    PROVE  \/ \E m \in Months : Marking(m) /\ Settles(BillTx(hook.order), m)
           \/ UNCHANGED bills /\ \A m \in Months : Settling(m)' = Settling(m)
<1> DEFINE o == hook.order
<1>1. o \in Orders /\ hook.at = "write" /\ UNCHANGED orders
  BY DEF Write, TypeOK, NoHook
<1>2. hook.rows \in {{}, {BillTx(o)}, {PayTx(o)}, {FailTx(o)}} /\ Stands(o, hook.rows)
  BY <1>1 DEF RowsStand
<1>3. CASE hook.rows \cap txs # {}
  BY <1>1, <1>3 DEF Write, Settling
<1>4. CASE hook.rows \cap txs = {} /\ BillTx(o) \notin hook.rows
  <2>1. UNCHANGED bills /\ txs' = txs \cup hook.rows
    BY <1>4 DEF Write
  <2>2. \A tx \in hook.rows : (\A m : tx # CashTx(m)) /\ (\A p : tx # BillTx(p))
    BY <1>2, <1>4, KeysDiffer
  <2> QED
    BY <1>1, <2>1, <2>2 DEF Settling
<1>5. CASE hook.rows \cap txs = {} /\ BillTx(o) \in hook.rows
  <2>1. orders[o].bill \in Months
    <3>1. orders[o].bill # NoBill
      BY <1>2, <1>5 DEF Stands
    <3>2. orders[o].bill \in Months \cup {NoBill}
      BY <1>1 DEF TypeOK
    <3> QED
      BY <3>1, <3>2
  <2>2. MarkPaid(orders[o].bill) /\ txs' = txs \cup hook.rows
    BY <1>5 DEF Write
  <2>3. hook.rows = {BillTx(o)}
    BY <1>2, <1>5, KeysDiffer
  <2>4. Settles(BillTx(o), orders[o].bill)
    BY <1>1, <2>1, <2>2, <2>3 DEF Settles
  <2>5. Marking(orders[o].bill)
    BY <1>1, <1>5 DEF Marking
  <2> QED
    BY <2>1, <2>4, <2>5
<1> QED
  BY <1>3, <1>4, <1>5

\* A bill is paid if and only if something settles it, after every step.
LEMMA PaidStep ==
    ASSUME TypeOK, RowsStand, [Next]_vars, \A o \in Orders : Stands(o, txs), PaidIsSettled
    PROVE  PaidIsSettled'
<1>1. ASSUME NEW tx, NEW n, UNCHANGED orders, Settles(tx, n)
      PROVE  PaidIsSettled'
  BY <1>1, SettlesOne DEF PaidIsSettled, Settles
<1>2. CASE Write
  <2>1. CASE \E m \in Months : Marking(m) /\ Settles(BillTx(hook.order), m)
    BY <1>1, <1>2, <2>1 DEF Write
  <2>2. CASE UNCHANGED bills /\ \A m \in Months : Settling(m)' = Settling(m)
    BY <2>2 DEF PaidIsSettled
  <2> QED
    BY <1>2, <2>1, <2>2, WriteSettles
<1>3. CASE RecordCash
  <2>1. Settles(CashTx(cash), cash) /\ UNCHANGED orders
    BY <1>3 DEF RecordCash, Settles, TypeOK
  <2> QED
    BY <1>1, <2>1
<1>4. CASE ~Write /\ ~RecordCash
  <2>1. \A m \in Months : Settling(m)' = Settling(m)
    BY <1>4, Frames, SettlingKept
  <2>2. \A m \in Months : bills'[m].status = "paid" <=> bills[m].status = "paid"
    BY <1>4, BillsKept
  <2> QED
    BY <2>1, <2>2 DEF PaidIsSettled
<1> QED
  BY <1>2, <1>3, <1>4

\* Where cash and a report do not overlap, the bill that one of them is about to mark
\* still waits, so that it is settled once (razorpay_webhook, record_cash_payment).
LEMMA OneStep ==
    ASSUME TypeOK, RowsStand, [Next]_vars, \A o \in Orders : Stands(o, txs), PaidIsSettled, OneAtATime
    PROVE  OneAtATime'
<1> SUFFICES ASSUME "overlap" \notin exposed
             PROVE  /\ (hook = NoHook \/ cash = NoBill)'
                    /\ \A m \in Months : cash' = m \/ Marking(m)' => AwaitsPayment(m)'
                    /\ \A m \in Months : \A tx, other \in Settling(m)' : tx = other
  BY Frames DEF OneAtATime
<1>1. /\ hook = NoHook \/ cash = NoBill
      /\ \A m \in Months : cash = m \/ Marking(m) => AwaitsPayment(m)
      /\ \A m \in Months : \A tx, other \in Settling(m) : tx = other
  BY DEF OneAtATime
<1>2. \A m \in Months : AwaitsPayment(m) => Settling(m) = {}
  BY DEF PaidIsSettled, AwaitsPayment
<1>3. NoBill \notin Months
  BY DEF NoBill, Months
<1>4. ASSUME NEW tx, NEW n \in Months, UNCHANGED orders, Settles(tx, n), AwaitsPayment(n)
      PROVE  \A m \in Months : \A t, other \in Settling(m)' : t = other
  <2>1. Settling(n)' = {tx}
    BY <1>2, <1>4, SettlesOne
  <2>2. \A m \in Months : m # n => Settling(m)' = Settling(m)
    BY <1>4, SettlesOne
  <2> QED
    BY <1>1, <2>1, <2>2
<1>5. CASE Write
  <2>1. hook # NoHook /\ cash = NoBill /\ UNCHANGED <<cash, orders>>
    BY <1>1, <1>5 DEF Write, NoHook
  <2>2. \A m : ~Marking(m)'
    BY <1>5 DEF Write, Marking, NoHook, TypeOK
  <2>3. \A m \in Months : \A tx, other \in Settling(m)' : tx = other
    BY <1>1, <1>4, <1>5, <2>1, WriteSettles
  <2> QED
    BY <1>3, <2>1, <2>2, <2>3
<1>6. CASE RecordCash
  <2>1. cash \in Months /\ hook = NoHook /\ AwaitsPayment(cash)
    BY <1>1, <1>6 DEF RecordCash, TypeOK
  <2>2. Settles(CashTx(cash), cash) /\ cash' = NoBill /\ UNCHANGED <<orders, hook>>
    BY <1>6, <2>1 DEF RecordCash, Settles
  <2>3. \A m : ~Marking(m)'
    BY <2>1, <2>2 DEF Marking, NoHook
  <2> QED
    BY <1>3, <1>4, <2>1, <2>2, <2>3
<1>7. CASE ~Write /\ ~RecordCash
  <2>1. \A m \in Months : /\ Settling(m)' = Settling(m)
                          /\ AwaitsPayment(m) => AwaitsPayment(m)'
    BY <1>7, Frames, SettlingKept, BillsKept
  <2>2. \A m \in Months : \A tx, other \in Settling(m)' : tx = other
    BY <1>1, <2>1
  <2>3. CASE Receipt
    <3>1. PICK o \in Orders, kind \in Kinds : Receive(o, kind)
      BY <2>3 DEF Receipt
    <3>2. cash = NoBill /\ UNCHANGED <<cash, bills, orders>>
      BY <3>1 DEF Receive, Apart
    <3>3. \A m \in Months : Marking(m)' => Capturable(o) /\ m = orders[o].bill
      BY <3>1, <3>2, KeysDiffer DEF Receive, Marking, Writes, NoHook
    <3>4. \A m \in Months : Marking(m)' => AwaitsPayment(m)'
      BY <3>2, <3>3 DEF Capturable, AwaitsPayment
    <3> QED
      BY <1>3, <2>2, <3>2, <3>4
  <2>4. CASE \E m \in Months : ReceiveCash(m)
    <3>1. PICK n \in Months : ReceiveCash(n)
      BY <2>4
    <3>2. hook = NoHook /\ hook' = NoHook /\ cash' = n /\ AwaitsPayment(n)
      BY <3>1 DEF ReceiveCash, Apart
    <3>3. \A m : ~Marking(m)'
      BY <3>2 DEF Marking, NoHook
    <3> QED
      BY <2>1, <2>2, <3>2, <3>3
  <2>5. CASE /\ hook' = NoHook \/ UNCHANGED hook
             /\ cash' = NoBill \/ UNCHANGED cash
    <3>1. (hook = NoHook \/ cash = NoBill)'
      BY <1>1, <2>5
    <3>2. ASSUME NEW m \in Months, Marking(m)' PROVE Marking(m)
      <4>1. hook' = hook /\ hook.at = "write" /\ BillTx(hook.order) \in hook.rows
        BY <2>5, <3>2 DEF Marking, NoHook
      <4>2. hook.order \in Orders /\ orders[hook.order].state = "captured"
        BY <4>1 DEF TypeOK, RowsStand, Stands, NoHook
      <4>3. orders'[hook.order].bill = orders[hook.order].bill
        BY <4>2, OrdersKept DEF NoOrder, OrderOf
      <4> QED
        BY <3>2, <4>1, <4>3 DEF Marking
    <3> QED
      BY <1>1, <1>3, <2>1, <2>2, <2>5, <3>1, <3>2
  <2> QED
    BY <1>7, <2>3, <2>4, <2>5, Frames DEF Record, Fail, Crash
<1> QED
  BY <1>5, <1>6, <1>7

\* However payments, reports, cash and refunds interleave, and wherever the process ends:
\* the books are backed by what happened at the provider and at the desk; the rows of the
\* refunds say what was given back, less only after a failure and more only after a refund
\* without an amount; and unless cash and a report overlap a bill is settled once.
THEOREM PaymentsCorrect == Spec => []PaymentsBooked
<1>1. Backed <=> PaidIsSettled /\ \A o \in Orders : Stands(o, txs)
  BY DEF Backed, PaidIsSettled, Stands
<1>2. Init => BooksInv
  <2> SUFFICES ASSUME Init PROVE BooksInv
    OBVIOUS
  <2>1. \A m \in Months : Settling(m) = {} /\ bills[m].status # "paid"
    BY DEF Init, Settling, Unbilled, NewBill
  <2>2. \A o \in Orders : orders[o].returned = 0 /\ RowsSay(o) = 0
    BY DEF Init, NoOrder, OrderOf, RowsSay, InHand, NoRefund
  <2>3. PaidIsSettled /\ RefundsBooked /\ \A o \in Orders : Stands(o, txs)
    BY <2>1, <2>2 DEF Init, PaidIsSettled, RefundsBooked, Stands
  <2>4. RowsStand /\ RefundHeld
    BY DEF Init, RowsStand, RefundHeld, NoHook, NoRefund
  <2>5. OneAtATime
    BY <2>1 DEF Init, OneAtATime, Marking, NoHook, NoBill, Months
  <2> QED
    BY <1>1, <2>3, <2>4, <2>5, TypeInit DEF BooksInv
<1>3. BooksInv /\ [Next]_vars => BooksInv'
  <2> SUFFICES ASSUME BooksInv, [Next]_vars PROVE BooksInv'
    OBVIOUS
  <2>1. TypeOK /\ RowsStand /\ RefundHeld /\ OneAtATime /\ RefundsBooked /\ PaidIsSettled
    BY <1>1 DEF BooksInv
  <2>2. \A o \in Orders : Stands(o, txs)
    BY <1>1 DEF BooksInv
  <2>3. TypeOK' /\ RowsStand' /\ (RefundsBooked /\ RefundHeld)'
    BY <2>1, TypeStep, RowsStep, RefundStep
  <2>4. PaidIsSettled' /\ OneAtATime' /\ \A o \in Orders : Stands(o, txs)'
    BY <2>1, <2>2, PaidStep, OneStep, TxsStep
  <2>5. Backed'
    BY <2>4 DEF Backed, PaidIsSettled, Stands
  <2> QED
    BY <2>3, <2>4, <2>5 DEF BooksInv
<1>4. BooksInv => PaymentsBooked
  BY DEF BooksInv, OneAtATime, PaymentsBooked
<1> QED
  BY <1>2, <1>3, <1>4, PTL DEF Spec
=============================================================================
