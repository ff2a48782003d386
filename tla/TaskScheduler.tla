--------------------------- MODULE TaskScheduler ---------------------------
(***************************************************************************)
(* The daily tasks of one user's TradingService: the scheduler loop that   *)
(* submits them and the single worker thread that runs them.               *)
(*                                                                         *)
(* run_scheduler wakes once a minute, looks at the tasks in program order, *)
(* hands each one that is due to the executor and waits for it, no longer  *)
(* than its timeout (run_trading_service.py).  A task that times out runs  *)
(* on in the worker.  What has been done is remembered in tasks_completed, *)
(* which only the evening cleanup clears.                                  *)
(*                                                                         *)
(* Time is in minutes and goes round: a week of Week days of DayLength     *)
(* minutes.  It waits for everything that takes less than a minute; tasks  *)
(* take longer only where the scenario has "slow".                         *)
(*                                                                         *)
(* Definitions named Mut... are deliberately wrong forms of the definition *)
(* that follows them; no action uses them (see the README).                *)
(***************************************************************************)
EXTENDS Integers, Sequences

CONSTANTS
    Instances,     \* instances of TradingService, one after the other
    Order,         \* the tasks in the order of a pass of the loop
    Monitor,       \* sell_monitor, the continuous one
    Cleanup,       \* eod_cleanup
    Analysis,      \* analysis, completed even when it fails
    Idle,          \* "the worker has no task"
    At,            \* [task -> minute]: when it is due, or first due
    MonitorEnd,    \* the last minute of the continuous one
    Timeout,       \* [task -> minutes] the loop waits for it
    DayLength, Week, TradingDays,
    MaxStops,      \* bound: stops of the service in one behaviour
    Exposures      \* the scenarios: what may happen in a behaviour

Tasks   == {Order[k] : k \in DOMAIN Order}
OneShot == Tasks \ {Monitor}
Minutes == 0 .. DayLength - 1
Days    == 0 .. Week - 1

ASSUME TaskAssumption == /\ Order \in Seq(Tasks) /\ Idle \notin Tasks
                         /\ {Monitor, Cleanup} \subseteq Tasks /\ Monitor # Cleanup
ASSUME TimeAssumption == /\ DayLength \in Nat \ {0} /\ Week \in Nat \ {0}
                         /\ TradingDays \subseteq Days
                         /\ At \in [Tasks -> Minutes] /\ MonitorEnd \in Minutes
                         /\ Timeout \in [Tasks -> Nat \ {0}]
\* The cleanup is the last task of the day.  The default schedule has it so; a
\* user may set other times, and nothing in ScheduleManager keeps the order then.
ASSUME ScheduleAssumption ==
    MonitorEnd < At[Cleanup] /\ \A t \in OneShot \ {Cleanup} : At[t] + 1 < At[Cleanup]
ASSUME ExposureAssumption ==
    /\ Exposures \subseteq SUBSET {"slow", "fails", "cleanupFails", "badDatabase", "overlap"}
    /\ MaxStops \in Nat

VARIABLES
    day, minute,
    svc,       \* the instances: loop, flags, queue and worker
    tried,     \* history: tasks started today
    done,      \* history: tasks started today and completed
    stops,
    exposed    \* the scenario of this behaviour

clock   == <<day, minute>>
history == <<tried, done>>
vars    == <<clock, svc, history, stops, exposed>>

-----------------------------------------------------------------------------
Ended == [pc |-> "ended", next |-> 1, last |-> DayLength, left |-> 0, stop |-> FALSE,
          flags |-> {}, queue |-> <<>>, job |-> Idle, born |-> 0]

Current(i)    == svc[i].pc # "ended" /\ ~svc[i].stop
Queued(i)     == {svc[i].queue[k] : k \in DOMAIN svc[i].queue}
Unfinished(i) == Queued(i) \cup ({svc[i].job} \ {Idle})

\* A window of two minutes; that of the monitor is compared with the time at
\* which the pass began.
Window(i, t) == IF t = Monitor THEN svc[i].last \in At[t] .. MonitorEnd
                               ELSE minute \in At[t] .. At[t] + 1

MutDue(i, t) == Window(i, t) /\ t \notin Unfinished(i)     \* the flag is not read
Due(i, t) == /\ Window(i, t)
             /\ t \notin Unfinished(i)
             /\ t # Monitor => t \notin svc[i].flags

-----------------------------------------------------------------------------
(* The scheduler loop *)

\* A pass begins at most once a minute, and only on a trading day.
Wake(i) ==
    /\ svc[i].pc = "sleep" /\ ~svc[i].stop /\ svc[i].last # minute
    /\ svc' = [svc EXCEPT ![i].last = minute, ![i].next = 1,
                          ![i].pc = IF day \in TradingDays THEN "pass" ELSE "sleep"]
    /\ UNCHANGED <<clock, history, stops>>

MutDueNext(i) == {k \in svc[i].next + 1 .. Len(Order) : Due(i, Order[k])}   \* off by one
DueNext(i) == {k \in svc[i].next .. Len(Order) : Due(i, Order[k])}

\* _execute_task_async: submit, remember the future, wait for the result.
Submit(i) ==
    /\ svc[i].pc = "pass"
    /\ \E k \in DueNext(i) :
       /\ \A other \in DueNext(i) : k <= other
       /\ svc' = [svc EXCEPT ![i].pc = "wait", ![i].next = k, ![i].left = Timeout[Order[k]],
                             ![i].queue = Append(@, Order[k])]
    /\ UNCHANGED <<clock, history, stops>>

\* No further task is due, or the schedule could not be read.
PassEnds(i) ==
    /\ svc[i].pc = "pass"
    /\ DueNext(i) = {} \/ "badDatabase" \in exposed
    /\ svc' = [svc EXCEPT ![i].pc = "sleep"]
    /\ UNCHANGED <<clock, history, stops>>

Awaited(i) == Order[svc[i].next]

WaitEnds(i) ==
    /\ svc[i].pc = "wait" /\ Awaited(i) \notin Unfinished(i)
    /\ svc' = [svc EXCEPT ![i].pc = "pass", ![i].next = @ + 1]
    /\ UNCHANGED <<clock, history, stops>>

\* A task the worker has not begun is cancelled; one it has begun goes on.
Cancelled(i) ==
    LET queue == svc[i].queue IN
    IF queue # <<>> /\ queue[Len(queue)] = Awaited(i)   \* the last one submitted
    THEN SubSeq(queue, 1, Len(queue) - 1)
    ELSE queue

Patience(i) == svc[i].left = 0

TimesOut(i) ==
    /\ svc[i].pc = "wait" /\ Awaited(i) \in Unfinished(i) /\ Patience(i)
    /\ svc' = [svc EXCEPT ![i].pc = "pass", ![i].next = @ + 1, ![i].queue = Cancelled(i)]
    /\ UNCHANGED <<clock, history, stops>>

\* The stop request is looked at between two passes only; then the executor is
\* shut down without waiting for the task it runs.
MutLeaves(i) == svc[i].stop /\ svc[i].job = Idle   \* waits for the worker
Leaves(i) == svc[i].stop

Exit(i) ==
    /\ svc[i].pc = "sleep" /\ Leaves(i)
    /\ svc' = [svc EXCEPT ![i] = [Ended EXCEPT !.stop = TRUE, !.job = svc[i].job]]
    /\ UNCHANGED <<clock, history, stops>>

-----------------------------------------------------------------------------
(* The worker thread *)

StartTask(i) ==
    /\ svc[i].job = Idle /\ svc[i].queue # <<>>
    /\ LET t == Head(svc[i].queue) IN
       IF t = Monitor /\ svc[i].stop           \* run_sell_monitor returns at once
       THEN /\ svc' = [svc EXCEPT ![i].queue = Tail(@)]
            /\ UNCHANGED history
       ELSE /\ svc' = [svc EXCEPT ![i].queue = Tail(@), ![i].job = t]
            /\ tried' = tried \cup {u \in {t} : minute >= At[u]}   \* else yesterday's
            /\ UNCHANGED done
    /\ UNCHANGED <<clock, stops>>

\* The cleanup clears every flag, its own included.
MutFlagsAfter(i) == IF svc[i].job = Cleanup THEN {Cleanup}     \* its own is set last
                    ELSE svc[i].flags \cup {svc[i].job}
FlagsAfter(i) == IF svc[i].job = Cleanup THEN {} ELSE svc[i].flags \cup {svc[i].job}

Completes(i) ==
    /\ svc' = [svc EXCEPT ![i].job = Idle, ![i].flags = FlagsAfter(i)]
    /\ done' = done \cup ({svc[i].job} \cap tried)

MayFail(t) == IF t = Cleanup THEN "cleanupFails" \in exposed ELSE "fails" \in exposed

EndTask(i) ==
    /\ svc[i].job # Idle
    /\ \/ Completes(i)
       \/ /\ MayFail(svc[i].job)
          /\ IF svc[i].job = Analysis
             THEN Completes(i)
             ELSE svc' = [svc EXCEPT ![i].job = Idle] /\ UNCHANGED done
    /\ UNCHANGED <<clock, tried, stops>>

-----------------------------------------------------------------------------
(* Start and stop of the service, and the clock *)

StopService(i) ==
    /\ stops < MaxStops /\ Current(i)
    /\ stops' = stops + 1
    /\ svc' = [svc EXCEPT ![i].stop = TRUE]
    /\ UNCHANGED <<clock, history>>

\* A new instance; without overlap it takes the place of the one that ended.
StartService(i) ==
    /\ svc[i].pc = "ended" /\ svc[i].job = Idle
    /\ \A j \in Instances : ~Current(j)
    /\ "overlap" \in exposed \/ svc[i].stop
    /\ svc' = [svc EXCEPT ![i] = [Ended EXCEPT !.pc = "sleep", !.born = minute]]
    /\ UNCHANGED <<clock, history, stops>>

\* Nothing that takes less than a minute is left to do.
Quiet(i) ==
    /\ svc[i].pc # "pass"
    /\ svc[i].pc = "sleep" => svc[i].last = minute /\ ~svc[i].stop
    /\ svc[i].pc = "wait" => Awaited(i) \in Unfinished(i) /\ ~Patience(i)
    /\ svc[i].job = Idle => svc[i].queue = <<>>
    /\ svc[i].job = Idle \/ "slow" \in exposed

Elapsed(i) == [svc[i] EXCEPT !.left = IF @ > 0 THEN @ - 1 ELSE 0,
                             !.born = IF minute = DayLength - 1 THEN 0 ELSE @]

Tick ==
    /\ \A i \in Instances : Quiet(i)
    /\ svc' = [i \in Instances |-> Elapsed(i)]
    /\ UNCHANGED stops
    /\ IF minute < DayLength - 1
       THEN /\ minute' = minute + 1
            /\ UNCHANGED <<day, history>>
       ELSE /\ minute' = 0 /\ day' = (day + 1) % Week
            /\ tried' = {} /\ done' = {}

-----------------------------------------------------------------------------
Init ==
    /\ day = 0 /\ minute = 0
    /\ LET i == CHOOSE i \in Instances : TRUE IN
           svc = [j \in Instances |-> IF j = i THEN [Ended EXCEPT !.pc = "sleep"] ELSE Ended]
    /\ tried = {} /\ done = {} /\ stops = 0
    /\ exposed \in Exposures

Loop(i) == Wake(i) \/ Submit(i) \/ PassEnds(i) \/ WaitEnds(i) \/ TimesOut(i) \/ Exit(i)

Advance ==
    \/ \E i \in Instances :
           \/ Loop(i) \/ StartTask(i) \/ EndTask(i)
           \/ StopService(i) \/ StartService(i)
    \/ Tick

Next == Advance /\ UNCHANGED exposed

Spec == Init /\ [][Next]_vars

Keep(A) == A /\ UNCHANGED exposed

\* The loop and the worker are scheduled and time passes; a task may hang.
FairSpec ==
    /\ Spec
    /\ \A i \in Instances : WF_vars(Keep(Loop(i))) /\ WF_vars(Keep(StartTask(i)))
    /\ WF_vars(Keep(Tick))

-----------------------------------------------------------------------------
(* Properties *)

ServiceType == [pc : {"ended", "sleep", "pass", "wait"}, next : 1 .. Len(Order) + 1,
                last : 0 .. DayLength, left : Nat, stop : BOOLEAN,
                flags : SUBSET (Tasks \ {Cleanup}),
                queue : Seq(Tasks), job : Tasks \cup {Idle}, born : Minutes]

\* Every variable stays within its type; a flag of the cleanup itself, which nothing
\* would ever reset, is not among them.
TypeOK ==
    /\ day \in Days /\ minute \in Minutes
    /\ svc \in [Instances -> ServiceType]
    /\ tried \subseteq Tasks /\ done \subseteq tried /\ stops \in Nat /\ exposed \in Exposures

\* SAFETY

\* A flag that is set while its task is due is of today: it skips the task, or
\* the placement at market open, because that has been done today.
FlagsOfToday ==
    \A i \in Instances : \A t \in svc[i].flags :
        Current(i) /\ day \in TradingDays /\ Window(i, t) => t \in done

\* Tasks are short, the cleanup and the database work.
Calm == exposed \subseteq {"fails", "overlap"}

\* The same as long as every evening's cleanup is run and succeeds.
FlagsOfTodayCleaned == Calm => FlagsOfToday

\* No backlog: a task that waits for the worker is the one the loop waits for.
NoBacklog ==
    \A i \in Instances : svc[i].queue # <<>> =>
        svc[i].pc = "wait" /\ svc[i].queue = <<Awaited(i)>>

\* On a trading day every task of a service that was up for its window starts,
\* although the loop waits for the task before it, in calm.  Whatever a task does,
\* nothing queues up behind it.
EveryTaskStarts ==
    /\ Calm =>
           \A i \in Instances : \A t \in OneShot :
               Current(i) /\ day \in TradingDays /\ svc[i].born <= At[t] /\ minute > At[t] + 1
                   => t \in tried
    /\ NoBacklog

\* A task completed today is not started again today, except for the cleanup
\* and by a service that was started within the task's window.  (An instance
\* that was told to stop goes on with its pass beside the next one, which may
\* do a task again.)
NotAgain ==
    \A i \in Instances : \A t \in OneShot \ {Cleanup} :
        /\ svc[i].job # t /\ svc'[i].job = t /\ svc[i].born < At[t]
        /\ "overlap" \notin exposed
        => t \notin done

NoneRepeated == [][NotAgain]_vars

\* Completion flags do what they are for: a task is skipped because it was done today,
\* not because it was done yesterday, and what was done today is not done again.
DoneOnce == []FlagsOfTodayCleaned /\ NoneRepeated

\* LIVENESS, under FairSpec, where tasks take any time (otherwise the clock waits
\* for them).
MayHang == "slow" \in exposed

\* Neither a task that hangs nor one behind it keeps the loop waiting, and a
\* service that has been told to stop ends whatever its task does.
StopEnds ==
    /\ \A i \in Instances : MayHang /\ svc[i].pc = "wait" ~> svc[i].pc # "wait"
    /\ \A i \in Instances : MayHang /\ svc[i].stop ~> svc[i].pc = "ended"
=============================================================================
