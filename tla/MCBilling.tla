------------------------------ MODULE MCBilling ------------------------------
(***************************************************************************)
(* Three months of losses and profits that recover all or part of them,    *)
(* and two orders: of one bill, of two bills, or of none.                  *)
(***************************************************************************)
EXTENDS Billing

LossOrProfit == {-2, 1, 2}

\* Bills alone; payments that are reported late and twice; two ways to pay one bill,
\* apart and at the same time; refunds.
Scenarios == {{"losses", "missed", "again"},
              {"checkout", "crash", "error"}, {"checkout", "declined", "duplicate"},
              {"checkout", "cash", "crash"},
              {"checkout", "cash", "overlap"},
              {"checkout", "refund", "rest", "crash"},
              {"generic", "declined", "refund", "error"}}
=============================================================================
