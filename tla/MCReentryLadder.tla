---------------------------- MODULE MCReentryLadder ----------------------------
(***************************************************************************)
(* A reading for each level, one of exactly 30 and one above; any number   *)
(* of days.  Three orders: what a day leaves unrecorded, and those of the  *)
(* next day, lost ones included.                                           *)
(***************************************************************************)
EXTENDS ReentryLadder

\* Skipped and failing runs, runs by hand, lost rows, unseen fills, restarts.
Scenarios == {{"short", "nometa", "away", "rejected"}, {"runonce", "short", "rejected", "away"},
              {"runonce", "nometa"}, {"crash", "runonce"}, {"crash", "nometa"},
              {"norow", "runonce"}, {"unseen", "runonce"}}
Undisturbed == {{}}
=============================================================================
