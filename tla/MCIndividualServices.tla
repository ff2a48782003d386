------------------------ MODULE MCIndividualServices ------------------------
(***************************************************************************)
(* Two runs, two requests at a time and two processes of the service.      *)
(***************************************************************************)
EXTENDS IndividualServices

CONSTANTS p1, p2, r1, r2

TwoProcs == {p1, p2}
TwoRequests == {r1, r2}

\* Runs that last, fail or lose their process; runs that overlap; the service alone,
\* with a crash, with a second start, with a stop; the two together.
Scenarios == {{"run", "slow", "fails", "restart", "unified"}, {"run", "analysis", "slow", "unified"},
              {"run", "overlap", "fails"}, {"run", "overlap", "restart"},
              {"start", "crash", "restart"}, {"start", "again", "overlap"},
              {"start", "stop", "overlap", "between"}, {"run", "start", "unified"}}
=============================================================================
