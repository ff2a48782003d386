------------------------------- MODULE Billing -------------------------------
(***************************************************************************)
(* The performance fee of one user (performance_billing_service.py) and    *)
(* the payment of its bills: checkout, the provider's webhooks, cash that  *)
(* the admin records, and refunds.                                         *)
(*                                                                         *)
(* A bill is made for a month when the next one has begun: profit above    *)
(* the losses carried forward is charged.  Amounts are in the profit that  *)
(* is charged for; the percentage and its rounding to paise are left out.  *)
(* Of a payment, one order stands for it: the provider lets an order be    *)
(* paid once, and reports it until the report is acknowledged.             *)
(*                                                                         *)
(* The webhook is handled without an await: one report at a time.  The     *)
(* requests of users and admins run in threads, beside it.                 *)
(*                                                                         *)
(* Definitions named Mut... are deliberately wrong forms of the definition *)
(* that follows them; no action uses them (see the README).                *)
(***************************************************************************)
EXTENDS Integers

CONSTANTS
    MaxMonths,  \* bound: months
    PnLs,       \* what a month may bring
    MaxOrders,  \* bound: orders at the provider
    Exposures   \* bound: the events of a behaviour

\* The first seven say how a behaviour goes; the others happen once.
EventKinds == {"losses", "checkout", "generic", "declined", "cash", "refund", "overlap",
               "missed", "again", "crash", "error", "duplicate", "rest"}

ASSUME BillingAssumption ==
    MaxMonths \in Nat \ {0} /\ MaxOrders \in Nat /\ PnLs \subseteq Int /\ Exposures \subseteq SUBSET EventKinds

Months == 1 .. MaxMonths
Orders == 1 .. MaxOrders
NoBill == 0

VARIABLES
    month,      \* the last month that ended
    closing,    \* its job has yet to run
    pnl,        \* until then: its realized profit or loss, of the closed positions
    carry,      \* user_performance_billing_state.carry_forward_loss
    bills,      \* monthly_performance_bills
    orders,     \* the provider: orders, their payments and refunds
    txs,        \* billing_transactions, by idempotency key
    returned,   \* those marked as refunded
    refunds,    \* billing_refunds: what the rows of an order's payment add up to
    seen,       \* razorpay_webhook_events
    acked,      \* the provider: reports that were acknowledged
    hook, cash, refund,         \* the requests that are handled
    earned, peak, charged,      \* history: of the billed months
    events, exposed

fee      == <<month, closing, pnl, carry, earned, peak, charged>>
requests == <<hook, cash, refund>>
books    == <<txs, returned, refunds>>
reports  == <<seen, acked>>
vars     == <<fee, bills, orders, books, reports, requests, events, exposed>>

-----------------------------------------------------------------------------
Happens(kind) == kind \in exposed \ events /\ events' = events \cup {kind}

NoHook   == [at |-> "idle"]
NoRefund == [at |-> "idle"]

OrderOf(m, n) == [bill |-> m, amount |-> n, state |-> "created", failed |-> FALSE, returned |-> 0]
NoOrder       == [OrderOf(NoBill, 0) EXCEPT !.state = "none"]
IsNew(o)      == orders[o] = NoOrder /\ \A p \in Orders : p < o => orders[p] # NoOrder

\* The keys add_transaction is given: perf_bill:..., perf_bill:cash:..., pay:..., payfail:...
BillTx(o) == <<"bill", o>>
CashTx(m) == <<"cash", m>>
PayTx(o)  == <<"pay", o>>
FailTx(o) == <<"fail", o>>
Keys == {"bill", "pay", "fail"} \X Orders \cup {"cash"} \X Months

-----------------------------------------------------------------------------
(* The month and its bill *)

\* The next month ends once the job of this one had its time.  Bound: where losses are
\* not exposed, one month less passes, and each brings the most it can.
Lasts  == IF "losses" \in exposed THEN MaxMonths ELSE MaxMonths - 1
Brings == IF "losses" \in exposed THEN PnLs ELSE {n \in PnLs : \A p \in PnLs : p <= n}

MonthEnds ==
    /\ month < Lasts /\ ~closing
    /\ month' = month + 1 /\ closing' = TRUE /\ pnl' \in Brings
    /\ UNCHANGED <<carry, earned, peak, charged, bills, orders, books, reports, requests, events>>

MutNegative(prev, cur) ==
    [charge |-> IF cur > prev THEN cur - prev ELSE 0, carry |-> prev - cur]
MutForgets(prev, cur) ==
    IF cur < 0 THEN [charge |-> 0, carry |-> -cur]
    ELSE IF cur > prev THEN [charge |-> cur - prev, carry |-> 0]
    ELSE [charge |-> 0, carry |-> prev - cur]
\* compute_performance_fee_invoice
Invoice(prev, cur) ==
    IF cur < 0 THEN [charge |-> 0, carry |-> prev - cur]
    ELSE IF cur > prev THEN [charge |-> cur - prev, carry |-> 0]
    ELSE [charge |-> 0, carry |-> prev - cur]

NewBill(n) == [status |-> "pending", payable |-> n, due |-> FALSE]
Unbilled   == [NewBill(0) EXCEPT !.status = "none"]

\* generate_bill_for_user_month: bill and carry in one commit.
MakeBill ==
    LET invoice == Invoice(carry, pnl)
        total   == earned + pnl
    IN  /\ bills' = [bills EXCEPT ![month] = NewBill(invoice.charge)]
        /\ carry' = invoice.carry
        /\ charged' = charged + invoice.charge
        /\ earned' = total
        /\ peak' = IF total > peak THEN total ELSE peak

\* The job may run again in a second process; and it may bill nobody: the server is
\* down at its time, the user on paper, or a user before this one raises.
CloseMonth ==
    /\ closing
    /\ \/ closing' = FALSE /\ UNCHANGED events
       \/ closing' = TRUE /\ Happens("again")
    /\ pnl' = IF closing' THEN pnl ELSE 0
    /\ IF bills[month].status = "none"
       THEN MakeBill ELSE UNCHANGED <<bills, carry, charged, earned, peak>>
    /\ UNCHANGED <<month, orders, books, reports, requests>>

MissMonth ==
    /\ closing /\ closing' = FALSE /\ pnl' = 0 /\ Happens("missed")
    /\ UNCHANGED <<month, carry, earned, peak, charged, bills, orders, books, reports, requests>>

\* due_at passes.
FallDue(m) ==
    /\ bills[m].status # "none" /\ ~bills[m].due
    /\ bills' = [bills EXCEPT ![m].due = TRUE]
    /\ UNCHANGED <<fee, orders, books, reports, requests, events>>

\* mark_overdue_performance_bills, daily and when the admin asks for it.
MarkOverdue ==
    /\ bills' = [m \in Months |-> IF bills[m].status = "pending" /\ bills[m].due
                                  THEN [bills[m] EXCEPT !.status = "overdue"] ELSE bills[m]]
    /\ UNCHANGED <<fee, orders, books, reports, requests, events>>

AwaitsPayment(m) == bills[m].status \in {"pending", "overdue"} /\ bills[m].payable > 0

\* list_unpaid_performance_bills_past_due: the buys of the day are skipped.
InArrears(m) == AwaitsPayment(m) /\ bills[m].due

-----------------------------------------------------------------------------
(* The provider: orders are made, paid, and reported *)

\* create_order_for_bill; an earlier order of the bill can still be paid.
CheckOut(o, m) ==
    /\ "checkout" \in exposed /\ IsNew(o) /\ AwaitsPayment(m)
    /\ orders' = [orders EXCEPT ![o] = OrderOf(m, bills[m].payable)]
    /\ UNCHANGED <<fee, bills, books, reports, requests, events>>

\* razorpay_create_order
CreateOrder(o) ==
    /\ "generic" \in exposed /\ IsNew(o)
    /\ orders' = [orders EXCEPT ![o] = OrderOf(NoBill, 1)]
    /\ UNCHANGED <<fee, bills, books, reports, requests, events>>

Pay(o) ==
    /\ orders[o].state = "created"
    /\ \/ orders' = [orders EXCEPT ![o].state = "captured"]
       \/ "declined" \in exposed /\ orders' = [orders EXCEPT ![o].failed = TRUE]
    /\ UNCHANGED <<fee, bills, books, reports, requests, events>>

Reported(o, kind) ==
    \/ kind = "captured" /\ orders[o].state = "captured"
    \/ kind = "failed" /\ orders[o].failed

\* Bound: unless requests overlap, the admin records no cash while a report is handled.
Apart == "overlap" \in exposed \/ (hook = NoHook /\ cash = NoBill)

-----------------------------------------------------------------------------
(* The webhook: look, commit what the report says, commit the report *)

MutCapturable(o) == orders[o].bill # NoBill /\ bills[orders[o].bill].payable = orders[o].amount
\* _try_capture_performance_bill_payment: the bill is to be marked as paid.
Capturable(o) ==
    /\ orders[o].bill # NoBill
    /\ orders[o].amount = bills[orders[o].bill].payable
    /\ AwaitsPayment(orders[o].bill)

MutWrites(o, kind) ==
    IF orders[o].bill # NoBill
    THEN IF kind = "captured" THEN {BillTx(o)} ELSE {}
    ELSE IF kind = "captured" THEN {PayTx(o)} ELSE {FailTx(o)}
\* _handle_payment_event: the row to be written, if any; a payment of a bill that is
\* not marked writes none.
Writes(o, kind) ==
    IF orders[o].bill # NoBill
    THEN IF kind = "captured" /\ Capturable(o) THEN {BillTx(o)} ELSE {}
    ELSE IF kind = "captured" THEN {PayTx(o)} ELSE {FailTx(o)}

\* razorpay_webhook, up to the first commit.
Receive(o, kind) ==
    /\ Reported(o, kind) /\ hook = NoHook /\ Apart
    /\ IF <<o, kind>> \in acked THEN Happens("duplicate") ELSE UNCHANGED events
    /\ IF <<o, kind>> \in seen
       THEN acked' = acked \cup {<<o, kind>>} /\ UNCHANGED hook
       ELSE /\ hook' = [at |-> "write", order |-> o, kind |-> kind, rows |-> Writes(o, kind)]
            /\ UNCHANGED acked
    /\ UNCHANGED <<fee, bills, orders, books, seen, cash, refund>>

MarkPaid(m) == bills' = [bills EXCEPT ![m].status = "paid"]

\* add_transaction: a key that exists raises, and the report is not acknowledged.
Write ==
    /\ hook.at = "write"
    /\ IF hook.rows \cap txs # {}
       THEN hook' = NoHook /\ UNCHANGED <<txs, bills>>
       ELSE /\ hook' = [hook EXCEPT !.at = "record"]
            /\ txs' = txs \cup hook.rows
            /\ IF BillTx(hook.order) \in hook.rows
               THEN MarkPaid(orders[hook.order].bill) ELSE UNCHANGED bills
    /\ UNCHANGED <<fee, orders, returned, refunds, reports, cash, refund, events>>

Record ==
    /\ hook.at = "record"
    /\ seen' = seen \cup {<<hook.order, hook.kind>>}
    /\ acked' = acked \cup {<<hook.order, hook.kind>>}
    /\ hook' = NoHook
    /\ UNCHANGED <<fee, bills, orders, books, cash, refund, events>>

\* A commit fails: the provider is told to report again, the admin that the refund failed.
Fail ==
    /\ Happens("error")
    /\ \/ hook # NoHook /\ hook' = NoHook /\ UNCHANGED refund
       \/ refund # NoRefund /\ refund' = NoRefund /\ UNCHANGED hook
    /\ UNCHANGED <<fee, bills, orders, books, reports, cash>>

-----------------------------------------------------------------------------
(* The admin: cash and refunds *)

\* record_cash_payment: look ...
ReceiveCash(m) ==
    /\ "cash" \in exposed /\ cash = NoBill /\ Apart
    /\ AwaitsPayment(m) /\ CashTx(m) \notin txs
    /\ cash' = m
    /\ UNCHANGED <<fee, bills, orders, books, reports, hook, refund, events>>

\* ... and commit.
RecordCash ==
    /\ cash # NoBill
    /\ MarkPaid(cash) /\ txs' = txs \cup {CashTx(cash)}
    /\ cash' = NoBill
    /\ UNCHANGED <<fee, orders, returned, refunds, reports, hook, refund, events>>

Rest(o) == orders[o].amount - orders[o].returned

MutGiveBack(tx, given, booked) ==
    /\ orders' = [orders EXCEPT ![tx[2]].returned = @ + given]
    /\ refund' = [at |-> "row", tx |-> tx, amount |-> orders[tx[2]].amount]
GiveBack(tx, given, booked) ==
    /\ orders' = [orders EXCEPT ![tx[2]].returned = @ + given]
    /\ refund' = [at |-> "row", tx |-> tx, amount |-> booked]

\* admin_refund: of a payment that has a transaction the provider gives back what it is
\* asked for, or, without an amount, what is left of it; the row will say what was asked
\* for, or the amount of the transaction.  Whether it was refunded is not asked.
BeginRefund(tx) ==
    /\ "refund" \in exposed /\ refund = NoRefund
    /\ tx \in txs /\ tx[1] \in {"bill", "pay"} /\ Rest(tx[2]) > 0
    /\ \/ \E n \in 1 .. Rest(tx[2]) : GiveBack(tx, n, n) /\ UNCHANGED events
       \/ /\ GiveBack(tx, Rest(tx[2]), orders[tx[2]].amount)
          /\ IF orders[tx[2]].returned > 0 THEN Happens("rest") ELSE UNCHANGED events
    /\ UNCHANGED <<fee, bills, books, reports, hook, cash>>

AddRefund ==
    /\ refund.at = "row"
    /\ refunds' = [refunds EXCEPT ![refund.tx[2]] = @ + refund.amount]
    /\ refund' = [refund EXCEPT !.at = "mark"]
    /\ UNCHANGED <<fee, bills, orders, txs, returned, reports, hook, cash, events>>

MarkRefunded ==
    /\ refund.at = "mark"
    /\ returned' = returned \cup {refund.tx}
    /\ refund' = NoRefund
    /\ UNCHANGED <<fee, bills, orders, txs, refunds, reports, hook, cash, events>>

\* The server ends and starts again: what was not committed is lost.
Crash ==
    /\ Happens("crash")
    /\ hook' = NoHook /\ cash' = NoBill /\ refund' = NoRefund
    /\ UNCHANGED <<fee, bills, orders, books, reports>>

-----------------------------------------------------------------------------
Init ==
    /\ month = 0 /\ closing = FALSE /\ pnl = 0 /\ carry = 0
    /\ earned = 0 /\ peak = 0 /\ charged = 0
    /\ bills = [m \in Months |-> Unbilled]
    /\ orders = [o \in Orders |-> NoOrder]
    /\ txs = {} /\ returned = {} /\ refunds = [o \in Orders |-> 0]
    /\ seen = {} /\ acked = {}
    /\ hook = NoHook /\ cash = NoBill /\ refund = NoRefund
    /\ events = {} /\ exposed \in Exposures

Kinds == {"captured", "failed"}

Job     == MonthEnds \/ CloseMonth \/ MissMonth \/ MarkOverdue \/ \E m \in Months : FallDue(m)
Buyer   == \E o \in Orders : CreateOrder(o) \/ Pay(o) \/ \E m \in Months : CheckOut(o, m)
Webhook == Write \/ Record
Admin   == RecordCash \/ AddRefund \/ MarkRefunded
Ask     == (\E m \in Months : ReceiveCash(m)) \/ (\E tx \in Keys : BeginRefund(tx))
Receipt == \E o \in Orders, kind \in Kinds : Receive(o, kind)

Advance == Job \/ Buyer \/ Receipt \/ Webhook \/ Fail \/ Ask \/ Admin \/ Crash

Keep(A) == A /\ UNCHANGED exposed
Next == Keep(Advance)
Spec == Init /\ [][Next]_vars

\* A request that was begun is handled, and the provider reports a payment until it
\* is acknowledged.
FairSpec ==
    /\ Spec
    /\ WF_vars(Keep(Webhook)) /\ WF_vars(Keep(Admin))
    /\ \A o \in Orders :
           SF_vars(Keep(<<o, "captured">> \notin acked /\ Receive(o, "captured")))

-----------------------------------------------------------------------------
(* Properties *)

\* Every variable stays within its type: nothing negative is charged or carried.
TypeOK ==
    /\ month \in 0 .. MaxMonths /\ closing \in BOOLEAN /\ pnl \in PnLs \cup {0}
    /\ carry \in Nat /\ earned \in Int /\ peak \in Nat /\ charged \in Nat
    /\ bills \in [Months -> [status : {"none", "pending", "overdue", "paid"},
                             payable : Nat, due : BOOLEAN]]
    /\ orders \in [Orders -> [bill : Months \cup {NoBill}, amount : Nat, failed : BOOLEAN,
                              state : {"none", "created", "captured"}, returned : Nat]]
    /\ txs \subseteq Keys /\ returned \subseteq Keys /\ refunds \in [Orders -> Nat]
    /\ seen \subseteq Orders \X Kinds /\ acked \subseteq Orders \X Kinds
    /\ hook = NoHook \/ hook \in [at : {"write", "record"}, order : Orders, kind : Kinds,
                                  rows : SUBSET Keys]
    /\ cash \in Months \cup {NoBill}
    /\ refund = NoRefund \/ refund \in [at : {"row", "mark"}, tx : Keys, amount : Nat]
    /\ events \subseteq EventKinds /\ exposed \in Exposures

\* SAFETY

\* Over the months that were billed, in whatever order they win and lose, all that was
\* ever charged for is the highest level the profit reached, and the loss carried
\* forward what it has fallen since: no profit is charged for twice, and no loss is
\* forgotten.
FeeIsHighWater == charged = peak /\ carry = peak - earned

\* The transactions that settle a bill: payments by its orders, and cash.
Settling(m) == {tx \in txs : tx = CashTx(m) \/ \E o \in Orders : tx = BillTx(o) /\ orders[o].bill = m}

\* A bill is paid if and only if something settles it, for good; and every transaction
\* stands for a payment that was made, or that failed.
Backed ==
    /\ \A m \in Months : bills[m].status = "paid" <=> Settling(m) # {}
    /\ \A o \in Orders :
           /\ BillTx(o) \in txs => orders[o].state = "captured" /\ orders[o].bill # NoBill
           /\ PayTx(o) \in txs => orders[o].state = "captured" /\ orders[o].bill = NoBill
           /\ FailTx(o) \in txs => orders[o].failed

\* What the rows of an order's refunds say, and the row that is about to be written.
InHand(o)  == IF refund.at = "row" /\ refund.tx[2] = o THEN refund.amount ELSE 0
RowsSay(o) == refunds[o] + InHand(o)

\* The rows part from what was given back in two ways only: the process or a commit fails
\* after the provider has answered, and they say less; the amount is left out after a part
\* was given back, and they say more.  What is marked as refunded has a row all the same.
RefundsBooked ==
    \A o \in Orders :
        /\ RowsSay(o) < orders[o].returned => events \cap {"crash", "error"} # {}
        /\ RowsSay(o) > orders[o].returned => "rest" \in events
        /\ {BillTx(o), PayTx(o)} \cap returned # {} => refunds[o] > 0

\* Whatever is reported twice, late, after a crash or beside other requests: the books
\* are backed and show the refunds; and unless cash and a report of the same bill overlap,
\* a bill is settled once, however many of its orders are paid.
PaymentsBooked ==
    /\ Backed /\ RefundsBooked
    /\ "overlap" \notin exposed =>
           \A m \in Months : \A tx, other \in Settling(m) : tx = other

\* LIVENESS, under FairSpec

\* A payment of a bill is acknowledged in the end and keeps the user out of arrears from
\* then on, although the process may end and commits may fail.
Captured(o) == orders[o].bill # NoBill /\ orders[o].state = "captured"
Cleared(o)  == <<o, "captured">> \in acked /\ ~InArrears(orders[o].bill)

PaymentClears == \A o \in Orders : Captured(o) ~> [](Captured(o) => Cleared(o))
=============================================================================
