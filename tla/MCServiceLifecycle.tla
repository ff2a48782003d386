------------------------- MODULE MCServiceLifecycle -------------------------
EXTENDS ServiceLifecycle

CONSTANTS t1, t2, t3

ThreeThreads == {t1, t2, t3}
\* A crash while starts and status requests overlap; crashes while what ran is started
\* again; a login or a database that fails; the same on paper.
Scenarios == {{"crash", "startDuringPoll"}, {"startFails", "lease", "crash", "crashAtBoot"},
              {"initFails", "badDatabase"},
              {"paper", "startDuringPoll", "crash"}, {"paper", "startFails", "badDatabase"}}
=============================================================================
