---------------------------- MODULE CandleInvariant ----------------------------
(***************************************************************************)
(* What the proofs about CandleCache need beside its definitions: its      *)
(* inductive invariants.  The proofs are in ReentryLadderProofs, about an  *)
(* instance of this module: the ladder's indicators come from the candles. *)
(***************************************************************************)
EXTENDS CandleCache

-----------------------------------------------------------------------------
(* The types, and what a thread may be in *)

Fetched == {"none", "live", "yahoo"}      \* what Yahoo answers for a day

ThreadType ==
    [step : {"none", "decide", "fetch", "validate", "record", "refresh", "read",
             "call", "answer", "upsert"},
     ro : BOOLEAN, live : BOOLEAN, back : {Short, Window}, goal : {"fill", "refresh", "raw"},
     todo : SUBSET Ages, due : SUBSET Ages, got : [Ages -> Fetched], added : BOOLEAN,
     verdict : States]

BreakerType == [state : {"closed", "open", "half"}, fails : 0 .. Threshold, cooled : BOOLEAN]

TableTyped   == bars \in [Ages -> Kinds] /\ older \in BOOLEAN /\ status \in States
\* Candles of the exchange come from its files.
FilesThere   == \A a \in Ages : bars[a] = "nse" => a \in published /\ source # "yahoo"
DaysTyped    == /\ trading \subseteq Ages /\ published \subseteq trading
                /\ phase \in {"pre", "open", "closed", "evening"} /\ analysed \in BOOLEAN
BreakerTyped == breaker \in BreakerType /\ (breaker.state = "closed" => breaker.fails < Threshold)
ThreadTyped(p) == p \in ThreadType /\ (p.step = "fetch" => source # "yahoo")

ThreadsTyped == th \in [Readers -> ThreadType] /\ \A r \in Readers : ThreadTyped(th[r])
RestTyped == source \in Sources /\ up \in BOOLEAN /\ events \subseteq exposed /\ exposed \in Exposures

Typed == RestTyped /\ TableTyped /\ FilesThere /\ DaysTyped /\ BreakerTyped /\ ThreadsTyped

\* A step of one thread.
Alone(r) == th' = [th EXCEPT ![r] = th'[r]]

-----------------------------------------------------------------------------
(* Why no candle of an unfinished day outlives it *)

\* A thread that will write, or refresh, today's candle alone.
Refreshes(p) == p.step = "refresh" \/ (p.goal = "refresh" /\ p.step \in {"call", "answer", "upsert"})

\* Who refreshes found today's candle in the table, so what was live before has been
\* written again; who fills it has the final candles of all past days.
Careful(p) ==
    /\ p.back = Window
    /\ p.step = "decide" => p.goal = "fill"
    /\ Refreshes(p) => (0 \in trading => bars[0] # "none")
    /\ p.step = "upsert" =>
           /\ p.goal # "raw"
           /\ \A a \in Ages : p.got[a] # "none" => a \in trading
           /\ p.goal = "fill" => \A a \in trading : a > 0 => p.got[a] = "yahoo"

LiveScene == source = "yahoo" /\ Unexposed({"hole", "short"})

Fresh ==
    /\ \A a \in Ages : bars[a] # "none" => a \in trading
    /\ \A a, b \in Ages : a < b /\ bars[a] # "none" => bars[b] # "live"
    /\ \A r \in Readers : Careful(th[r])

LiveInv == LiveScene => Fresh
=============================================================================
