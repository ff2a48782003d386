--------------------------- MODULE PositionLedger ---------------------------
(***************************************************************************)
(* What the orders and positions tables promise to every reader, whichever *)
(* task writes them and whatever fails: an execution, once recorded, stays *)
(* recorded; a position opens, and takes a further leg, only from recorded *)
(* executions; and it loses its legs only by closing.                      *)
(*                                                                         *)
(* BuyExecution implements this specification (its property LedgerKept).   *)
(***************************************************************************)
CONSTANT Buys

VARIABLES
    recorded,   \* buys with an executed quantity in their orders row
    open,       \* a positions row with closed_at NULL exists
    legs        \* re-entries written into it

ledger == <<recorded, open, legs>>

Init == recorded = {} /\ open = FALSE /\ legs = {}

\* OrdersRepository.mark_executed
Record(b) ==
    /\ b \notin recorded
    /\ recorded' = recorded \cup {b}
    /\ UNCHANGED <<open, legs>>

\* PositionsRepository.upsert for a symbol without an open position
Open ==
    /\ ~open /\ recorded # {}
    /\ open' = TRUE /\ legs' = {}
    /\ UNCHANGED recorded

\* PositionsRepository.upsert for an open one, with the re-entry's details
AddLeg(b) ==
    /\ open /\ b \in recorded \ legs
    /\ legs' = legs \cup {b}
    /\ UNCHANGED <<recorded, open>>

\* PositionsRepository.mark_closed
Close ==
    /\ open
    /\ open' = FALSE /\ legs' = {}
    /\ UNCHANGED recorded

Next == Open \/ Close \/ \E b \in Buys : Record(b) \/ AddLeg(b)

Spec == Init /\ [][Next]_ledger
=============================================================================
