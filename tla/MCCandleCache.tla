---------------------------- MODULE MCCandleCache ----------------------------
EXTENDS CandleCache
CONSTANTS r1, r2
Threads == {r1, r2}
AllSources == {"nse", "both", "yahoo"}
Scenarios ==
    {{"side"}, {"nseDown", "late"}, {"raises", "free"}, {"missed", "tasks"}, {"hole", "corrupt"},
     {"down"}, {"crash"}, {"legacy", "corrupt"}, {"short", "corrupt"}}
=============================================================================
