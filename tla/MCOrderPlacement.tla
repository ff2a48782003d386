--------------------------- MODULE MCOrderPlacement ---------------------------
(***************************************************************************)
(* Two symbols and room for one position: one order at a time, and who is  *)
(* first decides.  Three orders at the broker and four rows that matter.   *)
(***************************************************************************)
EXTENDS OrderPlacement

\* Signals that change, orders refused or lost between broker and table, crashes, a user
\* who buys as well, reports and cancellations that fail.
Scenarios == {{"rejected", "activate", "reject"}, {"refused", "crash"}, {"crash", "manual"},
              {"margin", "manual"}, {"short", "drop", "noholdings"}, {"uncertain", "drop"},
              {"norow", "above"}, {"above", "manual", "refused"}, {"nocancel", "noreport", "refused"}}
=============================================================================
