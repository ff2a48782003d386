-------------------------------- MODULE Totals --------------------------------
(* Sums over the orders of a set, as the tables are added up. *)
EXTENDS FiniteSetsExt

Total(q, S) == MapThenSumSet(LAMBDA b : q[b], S)
=============================================================================
