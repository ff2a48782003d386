------------------------------ MODULE CandleCache ------------------------------
(***************************************************************************)
(* The daily candles of one symbol (ohlcv_cache_service.py): a table that  *)
(* is filled when it is read, from the exchange's files of the day         *)
(* (nse_bhavcopy_ingest_service.py) or from Yahoo, whose calls go through  *)
(* a circuit breaker (utils/circuit_breaker.py).  Threads read it side by  *)
(* side, each step a transaction of its own.                               *)
(*                                                                         *)
(* Days are known by their age, so that they may go on for ever; 0 is      *)
(* today.  Prices are left out: a candle is what it was taken from, and    *)
(* "live" when it was taken while the market was open.                     *)
(*                                                                         *)
(* Definitions named Mut... are deliberately wrong forms of the definition *)
(* that follows them; no action uses them (see the README).                *)
(***************************************************************************)
EXTENDS Integers, FiniteSetsExt

CONSTANTS
    Readers,    \* threads
    Window,     \* age of the oldest day a long look-back asks for
    Short,      \* the same of a short one
    Tail,       \* OHLCV_CACHE_TAIL_OVERLAP_TRADING_DAYS
    MinCover,   \* OHLCV_CACHE_MIN_COVERAGE_PCT
    MinGaps,    \* OHLCV_LISTING_START_GAP_MIN_MISSING
    MinBars,    \* OHLCV_MIN_DAILY_BARS_FOR_INDICATORS, and the days of a year
    Threshold,  \* failures that open the breaker
    Sources,    \* values of OHLCV_DAILY_SOURCE that are looked at
    Exposures   \* bound: the events of a behaviour

Ages == 0 .. Window

\* The first five say how a behaviour goes; the others happen once.
EventKinds == {"legacy", "short", "tasks", "side", "free",
               "down", "corrupt", "hole", "nseDown", "raises", "late", "missed", "crash"}

ASSUME CacheAssumption ==
    /\ Window \in Nat /\ Short \in Ages /\ Tail \in Nat \ {0} /\ MinCover \in 0 .. 100
    /\ MinGaps \in Nat \ {0} /\ MinBars \in Nat /\ Threshold \in Nat \ {0}
    /\ Sources \subseteq {"nse", "both", "yahoo"}
    /\ Exposures \subseteq SUBSET EventKinds

VARIABLES
    source,      \* OHLCV_DAILY_SOURCE; "both" is nse_with_yahoo_fallback
    bars,        \* price_cache: what the row of a day holds
    older,       \* it has rows of days before these
    status,      \* ohlcv_symbol_meta.fetch_status
    trading,     \* the days that are trading days
    published,   \* those of which the exchange has the file
    phase,       \* before 9:15, until 15:30, until 17:30, after
    analysed,    \* the analysis of the day has read the candles
    up,          \* Yahoo answers
    breaker,     \* its circuit breaker; cooled: recovery_timeout has passed
    th,          \* the threads
    events, exposed

table == <<bars, older, status>>
world == <<source, trading, published, phase>>
vars  == <<table, world, analysed, up, breaker, th, events, exposed>>

-----------------------------------------------------------------------------
Happens(kind) == kind \in exposed \ events /\ events' = events \cup {kind}

Idle == [step |-> "none", ro |-> FALSE, live |-> FALSE, back |-> Window, goal |-> "fill",
         todo |-> {}, due |-> {}, got |-> [a \in Ages |-> "none"], added |-> FALSE,
         verdict |-> "unknown"]

Closed == [state |-> "closed", fails |-> 0, cooled |-> FALSE]

(* What the table has of the days 0 .. w *)

Cached(w)  == {a \in 0 .. w : bars[a] # "none"}
Rows(w)    == Cached(w) # {}
\* The first row is taken for the listing of the symbol, and days before for none.
Expected(w) == {a \in trading : Rows(w) /\ a <= Max(Cached(w))}
Covered(w) == 100 * Cardinality(Expected(w) \cap Cached(w)) >= MinCover * Cardinality(Expected(w))
Newest(S)  == {a \in S : Cardinality({b \in S : b < a}) < Tail}

\* missing_before_first_cached_bar: only what lies after the first row ever, once that is
\* recorded with the status.
StartGaps(w) == IF older \/ status = "unknown" \/ \E a \in Ages : a > w /\ bars[a] # "none"
                THEN {a \in trading : a <= w /\ a > Max(Cached(w))} ELSE {}

\* get_dates_needing_gap_fill: the start of the window stands for all of it.
MutMissing(w) == IF Rows(w) THEN {} ELSE {w}
Missing(w) ==
    LET gone == Newest(Expected(w)) \ Cached(w) IN
    IF ~Rows(w) \/ (gone = {} /\ ~Covered(w)) \/ (Covered(w) /\ Cardinality(StartGaps(w)) >= MinGaps)
    THEN {w} ELSE gone

\* The file of the day is not asked for before 17:30.
IngestAllowed(a) == a > 0 \/ (0 \in trading /\ phase = "evening")

Needed(w) == IF source = "yahoo" THEN Missing(w) ELSE {a \in Missing(w) : IngestAllowed(a)}

\* get_missing_trading_dates: a row of any source will do.
ToFetch(w) == {a \in IF Rows(w) THEN Expected(w) \ Cached(w) ELSE {b \in trading : b <= w} :
                   IngestAllowed(a)}

\* validate_cached_symbol
Verdict(w) == IF ~Rows(w) THEN "failed" ELSE IF Covered(w) THEN "ok" ELSE "partial"

\* _filter_daily_bars_for_source_policy
Seen(w) == {a \in Cached(w) : source = "nse" => bars[a] = "nse"}

\* Long look-backs want enough candles, or a year since the first row.
Enough(w) == w = Window => Cardinality(Seen(w)) >= MinBars \/ Cardinality(Expected(w)) >= MinBars

Usable(w) == Seen(w) # {} /\ status # "failed" /\ Enough(w)

-----------------------------------------------------------------------------
(* get_ohlcv, and fetch_ohlcv_yf around it *)

First == CHOOSE r \in Readers : TRUE

\* Tasks that trade read only; the analysis asks for a long look-back.
Begin(r, ro, live, w) ==
    /\ th[r].step = "none"
    /\ r = First \/ "side" \in exposed
    /\ ro => "tasks" \in exposed
    /\ w # Window => "short" \in exposed
    /\ th' = [th EXCEPT ![r] = [Idle EXCEPT !.step = "decide", !.ro = ro, !.live = live, !.back = w]]
    /\ UNCHANGED <<table, world, analysed, up, breaker, events>>

\* A partial status is looked at again when nothing is missing; a failed one is not.
Revalidated(w) == IF status = "partial" /\ Rows(w) /\ Covered(w) THEN "ok" ELSE status

Decide(r) ==
    LET w == th[r].back IN
    /\ th[r].step = "decide"
    /\ status' = IF Needed(w) = {} THEN Revalidated(w) ELSE status
    /\ th' = [th EXCEPT ![r].step =
                  IF th[r].ro THEN "read"
                  ELSE IF Needed(w) # {} THEN (IF source = "yahoo" THEN "call" ELSE "fetch")
                  ELSE IF th[r].live THEN "refresh" ELSE "read",
              ![r].todo = ToFetch(w),
              ![r].due = {a \in published : a \in Newest({b \in trading : b <= w}) /\ IngestAllowed(a)}]
    /\ UNCHANGED <<bars, older, world, analysed, up, breaker, events>>

\* fill_symbol_range: a file for each day, the oldest first.
FetchDay(r) ==
    /\ th[r].step = "fetch" /\ th[r].todo # {}
    /\ LET a == Max(th[r].todo) IN
       \/ /\ a \in published
          /\ bars' = [bars EXCEPT ![a] = "nse"]
          /\ th' = [th EXCEPT ![r].todo = @ \ {a}, ![r].added = TRUE]
          /\ UNCHANGED events
       \/ /\ \/ a \notin published /\ UNCHANGED events
             \/ a \in published /\ Happens("nseDown")
          /\ th' = [th EXCEPT ![r].todo = @ \ {a}, ![r].due = @ \ {a}]
          /\ UNCHANGED bars
       \/ /\ Happens("raises")                 \* the cache is given up
          /\ th' = [th EXCEPT ![r].step = "call", ![r].goal = "raw"]
          /\ UNCHANGED bars
    /\ UNCHANGED <<older, status, world, analysed, up, breaker>>

Validate(r) ==
    /\ th[r].step = "validate" \/ (th[r].step = "fetch" /\ th[r].todo = {})
    /\ th' = [th EXCEPT ![r].step = "record", ![r].verdict = Verdict(th[r].back)]
    /\ UNCHANGED <<table, world, analysed, up, breaker, events>>

\* record_fetch_validation; Yahoo is asked where the exchange had nothing.
Record(r) ==
    /\ th[r].step = "record"
    /\ status' = th[r].verdict
    /\ th' = [th EXCEPT ![r].step = IF source = "both" /\ ~th[r].added THEN "call" ELSE "read",
                        ![r].added = TRUE, ![r].verdict = "unknown"]
    /\ UNCHANGED <<bars, older, world, analysed, up, breaker, events>>

\* _refresh_today_bar_from_yahoo, which may take the file of the day instead.
Refresh(r) ==
    LET nse == source # "yahoo" /\ IngestAllowed(0) IN
    /\ th[r].step = "refresh"
    /\ bars' = IF nse /\ 0 \in published THEN [bars EXCEPT ![0] = "nse"] ELSE bars
    /\ th' = [th EXCEPT ![r].step = IF nse \/ source = "nse" THEN "read" ELSE "call",
                        ![r].goal = "refresh"]
    /\ UNCHANGED <<older, status, world, analysed, up, breaker, events>>

\* The bars or none; without them tasks do without, and others ask Yahoo directly.
Read(r) ==
    /\ th[r].step = "read"
    /\ analysed' = (analysed \/ (phase = "closed" /\ ~th[r].ro /\ th[r].back = Window))
    /\ th' = [th EXCEPT ![r] = IF Usable(th[r].back) \/ th[r].ro THEN Idle
                               ELSE [Idle EXCEPT !.step = "call", !.goal = "raw"]]
    /\ UNCHANGED <<table, world, up, breaker, events>>

-----------------------------------------------------------------------------
(* A call of Yahoo *)

\* How a failed call goes on: the status says so, or nobody does.
Failed(p) ==
    CASE p.goal = "fill"    -> [p EXCEPT !.step = "record", !.verdict = "failed", !.added = TRUE]
      [] p.goal = "refresh" -> [p EXCEPT !.step = "read"]
      [] p.goal = "raw"     -> Idle

\* Once the time has passed, everybody may try.
MutAdmits == breaker.state = "closed"            \* it stays open
Admits == breaker.state = "open" => breaker.cooled

Call(r) ==
    /\ th[r].step = "call"
    /\ breaker' = IF Admits /\ breaker.state = "open" THEN [breaker EXCEPT !.state = "half"] ELSE breaker
    /\ th' = [th EXCEPT ![r] = IF Admits THEN [@ EXCEPT !.step = "answer"] ELSE Failed(@)]
    /\ UNCHANGED <<table, world, analysed, up, events>>

OnSuccess == [breaker EXCEPT !.state = IF @ = "half" THEN "closed" ELSE @, !.fails = 0]
MutOnFailure ==                                  \* one failure too late
    [state  |-> IF breaker.state = "half" \/ breaker.fails >= Threshold THEN "open" ELSE breaker.state,
     fails  |-> Min({breaker.fails + 1, Threshold}),
     cooled |-> FALSE]
OnFailure ==
    [state  |-> IF breaker.state = "half" \/ breaker.fails + 1 >= Threshold THEN "open" ELSE breaker.state,
     fails  |-> Min({breaker.fails + 1, Threshold}),
     cooled |-> FALSE]

\* Yahoo's candles: those of past days are final, today's is there when it is asked for.
Candles(p) ==
    [a \in Ages |-> IF a \notin trading \/ a > p.back \/ (a = 0 /\ (~p.live \/ phase = "pre"))
                    THEN "none" ELSE IF a = 0 /\ phase = "open" THEN "live" ELSE "yahoo"]

Answered(r) == th[r].step = "answer"

Succeeds(r) ==
    /\ Answered(r) /\ up
    /\ breaker' = OnSuccess
    /\ \/ th[r].goal = "raw" /\ th' = [th EXCEPT ![r] = Idle] /\ UNCHANGED events
       \/ /\ th[r].goal # "raw"
          /\ \/ th' = [th EXCEPT ![r].step = "upsert", ![r].got = Candles(th[r])] /\ UNCHANGED events
             \/ /\ Happens("hole")
                /\ \E a \in Ages : th' = [th EXCEPT ![r].step = "upsert",
                                                    ![r].got = [Candles(th[r]) EXCEPT ![a] = "none"]]
             \/ Happens("corrupt") /\ th' = [th EXCEPT ![r] = Failed(@)]
    /\ UNCHANGED <<table, world, analysed, up>>

\* After its retries.
Fails(r) ==
    /\ Answered(r) /\ ~up
    /\ breaker' = OnFailure
    /\ th' = [th EXCEPT ![r] = Failed(@)]
    /\ UNCHANGED <<table, world, analysed, up, events>>

\* What an answer of Yahoo writes: a fill all its days, a refresh only today's.
MutWritten(p) == {a \in Ages : p.got[a] # "none" /\ (p.goal = "refresh" => a = 0) /\ bars[a] = "none"}
Written(p) == {a \in Ages : p.got[a] # "none" /\ (p.goal = "refresh" => a = 0)}

Upsert(r) ==
    LET p == th[r] IN
    /\ p.step = "upsert"
    /\ bars' = [a \in Ages |-> IF a \in Written(p) THEN p.got[a] ELSE bars[a]]
    /\ th' = [th EXCEPT ![r] =
                  IF Written(p) = {} THEN Failed(p)
                  ELSE [p EXCEPT !.step = IF p.goal = "fill" THEN "validate" ELSE "read",
                                 !.got = Idle.got, !.added = TRUE]]
    /\ UNCHANGED <<older, status, world, analysed, up, breaker, events>>

-----------------------------------------------------------------------------
(* The world *)

Publish(a) ==
    /\ a \in trading \ published /\ (a = 0 => phase = "evening")
    /\ published' = published \cup {a}
    /\ UNCHANGED <<table, source, trading, phase, analysed, up, breaker, th, events>>

\* The analysis runs at 16:00.
Clock ==
    /\ 0 \in trading
    /\ \/ phase = "pre" /\ phase' = "open" /\ UNCHANGED events
       \/ phase = "open" /\ phase' = "closed" /\ UNCHANGED events
       \/ /\ phase = "closed" /\ phase' = "evening"
          /\ \/ analysed /\ UNCHANGED events
             \/ ~analysed /\ Happens("missed")
    /\ UNCHANGED <<table, source, trading, published, analysed, up, breaker, th>>

Older(S) == {a \in Ages : a - 1 \in S}

\* No read lasts until the next day.  Bound: no two days without trading.
NextDay ==
    /\ 0 \in trading => phase = "evening"
    /\ \A r \in Readers : th[r].step = "none"
    /\ \/ (0 \in trading => 0 \in published) /\ UNCHANGED events
       \/ 0 \in trading \ published /\ Happens("late")
    /\ phase' = "pre" /\ analysed' = FALSE
    /\ bars' = [a \in Ages |-> IF a = 0 THEN "none" ELSE bars[a - 1]]
    /\ older' = (older \/ bars[Window] # "none")
    /\ trading' \in {Older(trading) \cup {0}}
                   \cup (IF 0 \in trading /\ "free" \in exposed THEN {Older(trading)} ELSE {})
    /\ published' = Older(published)
    /\ UNCHANGED <<source, status, up, breaker, th>>

YahooDown == up /\ Happens("down") /\ up' = FALSE
             /\ UNCHANGED <<table, world, analysed, breaker, th>>
YahooUp   == ~up /\ up' = TRUE /\ UNCHANGED <<table, world, analysed, breaker, th, events>>

CoolsDown ==
    /\ breaker.state = "open" /\ ~breaker.cooled
    /\ breaker' = [breaker EXCEPT !.cooled = TRUE]
    /\ UNCHANGED <<table, world, analysed, up, th, events>>

Crash ==
    /\ Happens("crash")
    /\ th' = [r \in Readers |-> Idle] /\ breaker' = Closed
    /\ UNCHANGED <<table, world, analysed, up>>

Init ==
    /\ source \in Sources /\ exposed \in Exposures /\ events = {}
    /\ trading = Ages /\ published = Ages \ {0}
    /\ bars = [a \in Ages |-> IF a > 0 /\ "legacy" \in exposed THEN "yahoo" ELSE "none"]
    /\ older = FALSE
    /\ status = IF "legacy" \in exposed THEN "ok" ELSE "unknown"
    /\ phase = "pre" /\ analysed = FALSE
    /\ up = TRUE /\ breaker = Closed
    /\ th = [r \in Readers |-> Idle]

Step(r) == Decide(r) \/ FetchDay(r) \/ Validate(r) \/ Record(r) \/ Refresh(r)
           \/ Read(r) \/ Call(r) \/ Succeeds(r) \/ Fails(r) \/ Upsert(r)

World == NextDay \/ Clock \/ YahooUp \/ CoolsDown \/ \E a \in Ages : Publish(a)
Keep(A) == A /\ UNCHANGED exposed

Next == Keep(World \/ YahooDown \/ Crash \/ \E r \in Readers :
                 Step(r) \/ \E ro, live \in BOOLEAN, w \in {Short, Window} : Begin(r, ro, live, w))
Spec == Init /\ [][Next]_vars

\* Threads go on, days and outages pass, files are published; the analysis reads daily, or
\* the clock would not go on.
FairSpec ==
    /\ Spec
    /\ \A r \in Readers : WF_vars(Keep(Step(r)))
    /\ SF_vars(Keep(\E live \in BOOLEAN : Begin(First, FALSE, live, Window)))
    /\ WF_vars(Keep(YahooUp)) /\ WF_vars(Keep(CoolsDown)) /\ WF_vars(Keep(Clock))
    /\ WF_vars(Keep(\E a \in Ages : Publish(a))) /\ SF_vars(Keep(NextDay))

-----------------------------------------------------------------------------
(* Properties *)

Kinds  == {"none", "live", "yahoo", "nse"}
States == {"unknown", "ok", "partial", "failed"}

\* Every variable stays within its type; candles of the exchange come from files that are
\* there, and a breaker that is closed has counted fewer failures than open it, although
\* calls that began before it opened fail or succeed in any state of it.
TypeOK ==
    /\ source \in Sources /\ bars \in [Ages -> Kinds] /\ older \in BOOLEAN /\ status \in States
    /\ trading \subseteq Ages /\ published \subseteq trading
    /\ phase \in {"pre", "open", "closed", "evening"} /\ analysed \in BOOLEAN /\ up \in BOOLEAN
    /\ breaker \in [state : {"closed", "open", "half"}, fails : 0 .. Threshold, cooled : BOOLEAN]
    /\ breaker.state = "closed" => breaker.fails < Threshold
    /\ \A r \in Readers :
        /\ th[r].step \in {"none", "decide", "fetch", "validate", "record", "refresh", "read",
                           "call", "answer", "upsert"}
        /\ th[r].todo \cup th[r].due \subseteq Ages /\ th[r].back \in {Short, Window}
        /\ th[r].verdict \in States
    /\ \A a \in Ages : bars[a] = "nse" => a \in published /\ source # "yahoo"
    /\ events \subseteq exposed /\ exposed \in Exposures

Unexposed(kinds) == exposed \cap kinds = {}

\* SAFETY

\* With Yahoo as the source a candle of an unfinished day does not outlive it: a later day
\* is in the table only after the whole window has been written again, although a slow
\* thread may put a live candle in the place of the final one.
LiveEnds ==
    source = "yahoo" /\ Unexposed({"hole", "short"})
    => \A a, b \in Ages : a < b /\ bars[a] # "none" => bars[b] # "live"

\* With the exchange as the source, a thread that filled the table finds in it every file of
\* the last days that was there when it began, whatever other threads, outages and missed
\* days left of them.  Rows of an older source and short histories are not repaired: see
\* the README.
FilledWhenRead ==
    source = "nse" /\ Unexposed({"legacy", "short"})
    => \A r \in Readers : th[r].step = "read" /\ ~th[r].ro => \A a \in th[r].due : bars[a] = "nse"

CandlesComplete == LiveEnds /\ FilledWhenRead

\* LIVENESS, under FairSpec

\* A symbol whose candles a failed fetch made unusable becomes usable again, though a failed
\* status is never looked at again while nothing is missing, and the breaker may be open.
\* After a crash, or with two threads, the result of a fetch may be lost or overwritten while
\* its candles are there; then the status stays, see the README.
UsableAgain == status = "failed" /\ Unexposed({"side", "crash"}) ~> status # "failed"
=============================================================================
