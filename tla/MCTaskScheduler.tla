-------------------------- MODULE MCTaskScheduler --------------------------
(***************************************************************************)
(* A day of twelve minutes that keeps the order and the overlaps of the    *)
(* default schedule: buy_orders 9:01, premarket_retry 9:03 (inside the ten *)
(* minutes the loop may wait for the buy orders), sell_monitor 9:15-15:30, *)
(* analysis 16:00, eod_cleanup 18:00.  premarket_amo_adjustment and        *)
(* buy_margin_preview behave as premarket_retry does and are left out.     *)
(***************************************************************************)
EXTENDS TaskScheduler, TLC

CONSTANTS retry, monitor, analysis, buy, cleanup, i1, i2

Two == {i1, i2}
PassOrder == <<retry, monitor, analysis, buy, cleanup>>

DueAt   == buy :> 1 @@ retry :> 3 @@ monitor :> 5 @@ analysis :> 7 @@ cleanup :> 9
Waits   == buy :> 4 @@ retry :> 2 @@ monitor :> 1 @@ analysis :> 4 @@ cleanup :> 2

\* Of the three days of a week, the second is a holiday.
Weekdays == {0, 2}

\* Overlapping restarts with short tasks; everything that may go wrong at once.
Scenarios == {{"fails", "overlap"}, {"slow", "fails", "cleanupFails", "badDatabase"}}
=============================================================================
