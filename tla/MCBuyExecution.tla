--------------------------- MODULE MCBuyExecution ---------------------------
EXTENDS BuyExecution, TLC

CONSTANTS i1, r1

Entry           == {i1}
OneReentry      == {i1, r1}
OneReentryQty   == (i1 :> 4) @@ (r1 :> 6)

\* An undisturbed process; crashes, stops and partial fills; reports that fail
\* and fills that are not seen.
Scenarios == {{}, {"crash", "stop", "partial"}, {"outage", "unfilled", "unseen"}}
=============================================================================
