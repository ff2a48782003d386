-------------------------- MODULE IndividualServices --------------------------
(***************************************************************************)
(* One task of one user outside the unified service                        *)
(* (individual_service_manager.py): its single runs, each a row, a thread  *)
(* that waits for the task and a thread that does it, and its service, a   *)
(* process with a status row.                                              *)
(*                                                                         *)
(* Requests of the web API share two dictionaries of the API process, one  *)
(* with the thread of the last run, one with the handle of the service,    *)
(* and read and write the database in several transactions.  The status    *)
(* page and a worker repair what they find.  A process that ended stays a  *)
(* zombie until its handle is polled or another process is started.        *)
(*                                                                         *)
(* The process never gets to its task: run_service_loop calls a method its *)
(* repository does not have, marks itself stopped and ends.                *)
(*                                                                         *)
(* Definitions named Mut... are deliberately wrong forms of the definition *)
(* that follows them; no action uses them (see the README).                *)
(***************************************************************************)
EXTENDS Naturals, FiniteSets

CONSTANTS
    MaxRuns,       \* bound: runs of the task
    Procs, NoProc, \* processes of the service
    Requests,      \* threads of the web API
    Exposures      \* bound: the events of a behaviour

NoRun == 0
Runs  == 1 .. MaxRuns

\* Each happens once, except "analysis", "overlap" and "between", which say how
\* the behaviour goes, and "run", which MaxRuns bounds.
EventKinds == {"run", "start", "again", "stop", "unified", "slow", "fails", "crash",
               "restart", "analysis", "overlap", "between"}

ASSUME IndividualAssumption ==
    /\ MaxRuns \in Nat \ {0} /\ NoProc \notin Procs
    /\ Exposures \subseteq SUBSET EventKinds

VARIABLES
    rows,        \* IndividualServiceTaskExecution: status, older than the limit
    runs,        \* _execute_task_once, and the task itself
    registered,  \* _RUN_ONCE_THREADS: the run whose thread it holds
    service,     \* IndividualServiceStatus: is_running, process_id
    procs,       \* the processes
    handle,      \* _INDIVIDUAL_SERVICE_SUBPROCESSES
    req, page,   \* the requests, the status page
    unified,     \* the unified service is marked as running
    events, exposed

vars == <<rows, runs, registered, service, procs, handle, req, page, unified, events, exposed>>
runVars  == <<rows, runs, registered>>
procVars == <<service, procs, handle>>

-----------------------------------------------------------------------------
Idle == [pc |-> "idle", run |-> NoRun, proc |-> NoProc, cleaned |-> FALSE]

Happens(kind) == kind \in exposed \ events /\ events' = events \cup {kind}

Goto(r, pc) == req' = [req EXCEPT ![r].pc = pc]
Finish(r)   == req' = [req EXCEPT ![r] = Idle]
At(r, pc)   == req[r].pc = pc

Running == {i \in Runs : rows[i].status = "running"}

SetStatus(S, status) ==
    rows' = [i \in Runs |-> IF i \in S THEN [rows[i] EXCEPT !.status = status] ELSE rows[i]]

\* _run_once_thread_is_alive
ThreadAlive == registered # NoRun /\ runs[registered].outer \in {"wait", "close"}

MutOrphans == {i \in Running : rows[i].old}                           \* alive or not
MutLatest  == {i \in Running : rows[i].old /\ ~ThreadAlive            \* the latest only
                               /\ \A j \in Runs : rows[j].status # "none" => j <= i}
Orphans == {i \in Running : rows[i].old /\ ~ThreadAlive}

\* _cleanup_stale_execution
CleanUp ==
    /\ SetStatus(Orphans, "failed")
    /\ registered' = IF Orphans # {} THEN NoRun ELSE registered

Alive(p)  == p # NoProc /\ procs[p] \in {"boot", "loop", "closing"}
Zombie(p) == p # NoProc /\ procs[p] = "ended"

Stopped == [running |-> FALSE, pid |-> NoProc]            \* mark_stopped
Gone(S) == [p \in Procs |-> IF p \in S THEN "gone" ELSE procs[p]]

-----------------------------------------------------------------------------
(* run_once *)

\* Without "overlap" a request is handled while no other is and no run winds down.
Apart == "overlap" \in exposed \/ \A r \in Requests : At(r, "idle")
Calm  == Apart /\ ("overlap" \in exposed \/ \A i \in Runs : runs[i].outer # "close")

BeginRun(r) ==
    /\ At(r, "idle") /\ "run" \in exposed
    /\ Calm
    /\ Goto(r, "clean")
    /\ UNCHANGED <<runVars, procVars, page, unified, events>>

Clean(r) ==
    /\ At(r, "clean")
    /\ CleanUp
    /\ req' = [req EXCEPT ![r].pc = "check", ![r].cleaned = Orphans # {}]
    /\ UNCHANGED <<runs, procVars, page, unified, events>>

\* A request that has cleaned up does not ask whether the task is running.
MayRun(r) ==
    /\ "analysis" \in exposed \/ ~unified
    /\ req[r].cleaned \/ Running = {}

Check(r) ==
    /\ At(r, "check")
    /\ IF MayRun(r) THEN Goto(r, "create") ELSE Finish(r)
    /\ UNCHANGED <<runVars, procVars, page, unified, events>>

\* The row is written and the thread started.
Create(r) ==
    /\ At(r, "create")
    /\ \E i \in Runs :
           /\ \A j \in Runs : rows[j].status = "none" <=> j >= i
           /\ rows' = [rows EXCEPT ![i].status = "running"]
           /\ runs' = [runs EXCEPT ![i] = [outer |-> "wait", inner |-> "busy"]]
           /\ req' = [req EXCEPT ![r].pc = "register", ![r].run = i]
    /\ UNCHANGED <<registered, procVars, page, unified, events>>

Register(r) ==
    /\ At(r, "register")
    /\ registered' = req[r].run
    /\ Finish(r)
    /\ UNCHANGED <<rows, runs, procVars, page, unified, events>>

-----------------------------------------------------------------------------
(* _execute_task_once *)

TaskEnds(i) ==
    /\ runs[i].inner = "busy"
    /\ runs' = [runs EXCEPT ![i].inner = "idle"]
    /\ UNCHANGED <<rows, registered, procVars, req, page, unified, events>>

MutVerdicts(i) == IF runs[i].inner = "idle" THEN {"success", "failed"} ELSE {"timeout"}
Verdicts(i) == IF runs[i].inner = "idle" THEN {"success", "failed"} ELSE {"failed"}

\* The task ended or its time is over; it goes on then, in its own thread.  A
\* success also updates the status row, which sets is_running to its default.
Outcome(i) ==
    /\ runs[i].outer = "wait" /\ Apart
    /\ runs' = [runs EXCEPT ![i].outer = "close"]
    /\ \/ /\ \/ runs[i].inner = "idle" /\ UNCHANGED events
             \/ runs[i].inner = "busy" /\ Happens("slow")
          /\ \E status \in Verdicts(i) :
                 /\ SetStatus({i}, status)
                 /\ service' = IF status = "success" THEN [service EXCEPT !.running = FALSE]
                                                     ELSE service
       \/ /\ runs[i].inner = "idle" /\ Happens("fails")              \* neither update works
          /\ UNCHANGED <<rows, service>>
    /\ UNCHANGED <<registered, procs, handle, req, page, unified>>

\* It removes the key, whichever thread it stands for.
Release(i) ==
    /\ runs[i].outer = "close"
    /\ runs' = [runs EXCEPT ![i].outer = "over"]
    /\ registered' = NoRun
    /\ UNCHANGED <<rows, procVars, req, page, unified, events>>

\* The row is older than _orphan_running_timeout_minutes, by when its request has
\* long returned.
Grow(i) ==
    /\ i \in Running /\ ~rows[i].old /\ \A r \in Requests : req[r].run # i
    /\ rows' = [rows EXCEPT ![i].old = TRUE]
    /\ UNCHANGED <<runs, registered, procVars, req, page, unified, events>>

-----------------------------------------------------------------------------
(* start_service and stop_service *)

BeginService(r) ==
    /\ At(r, "idle")
    /\ Calm
    /\ \/ (Happens("start") \/ Happens("again")) /\ Goto(r, "start")
       \/ Happens("stop") /\ Goto(r, "stop")
    /\ UNCHANGED <<runVars, procVars, page, unified>>

\* Python reaps the zombies nobody has a handle of when it starts a process.
Lost == {q \in Procs : Zombie(q) /\ q # handle /\ \A r \in Requests : req[r].proc # q}
Spare == {q \in Procs : procs[q] \in {"none", "gone"}} \cup Lost

Spawn(r) ==
    /\ At(r, "start")
    /\ \/ /\ unified \/ service.running
          /\ Finish(r) /\ UNCHANGED procs
       \/ /\ ~unified /\ ~service.running
          /\ Spare # {}                                   \* bound: as many as Procs
          /\ LET p == CHOOSE q \in Spare : TRUE IN
                 /\ procs' = [Gone(Lost) EXCEPT ![p] = "boot"]
                 /\ req' = [req EXCEPT ![r].pc = "spawned", ![r].proc = p]
    /\ UNCHANGED <<runVars, service, handle, page, unified, events>>

\* 0.1 seconds later.
Spawned(r) ==
    /\ At(r, "spawned")
    /\ IF Zombie(req[r].proc)
       THEN Finish(r) /\ procs' = Gone({req[r].proc}) /\ UNCHANGED service
       ELSE Goto(r, "marked") /\ service' = [running |-> TRUE, pid |-> req[r].proc]
            /\ UNCHANGED procs
    /\ UNCHANGED <<runVars, handle, page, unified, events>>

\* The time of the next execution is written, and is_running gets its default.
NextExecution(r) ==
    /\ At(r, "marked")
    /\ service' = [service EXCEPT !.running = FALSE]
    /\ Goto(r, "handle")
    /\ UNCHANGED <<runVars, procs, handle, page, unified, events>>

KeepHandle(r) ==
    /\ At(r, "handle")
    /\ handle' = req[r].proc
    /\ Finish(r)
    /\ UNCHANGED <<runVars, service, procs, page, unified, events>>

Stop(r) ==
    /\ At(r, "stop")
    /\ IF service.running THEN req' = [req EXCEPT ![r].pc = "kill", ![r].proc = handle]
                          ELSE Finish(r)
    /\ UNCHANGED <<runVars, procVars, page, unified, events>>

Kill(r) ==
    /\ At(r, "kill")
    /\ procs' = Gone({req[r].proc})
    /\ handle' = NoProc /\ service' = Stopped
    /\ Finish(r)
    /\ UNCHANGED <<runVars, page, unified, events>>

-----------------------------------------------------------------------------
(* The process: scripts/run_individual_service.py *)

\* It needs more than the 0.1 seconds after which the request looks.
MarkSelf(p) ==
    /\ procs[p] = "boot"
    /\ \A r \in Requests : At(r, "spawned") => req[r].proc # p
    /\ procs' = [procs EXCEPT ![p] = "loop"]
    /\ service' = [service EXCEPT !.running = TRUE]
    /\ UNCHANGED <<runVars, handle, req, page, unified, events>>

\* The error of the first pass, and the finally clause.
LoopFails(p) ==
    /\ procs[p] = "loop"
    /\ procs' = [procs EXCEPT ![p] = "closing"]
    /\ service' = Stopped
    /\ UNCHANGED <<runVars, handle, req, page, unified, events>>

ProcessEnds(p) ==
    /\ \/ procs[p] = "closing" /\ UNCHANGED events
       \/ procs[p] \in {"boot", "loop"} /\ Happens("crash")
    /\ procs' = [procs EXCEPT ![p] = "ended"]
    /\ UNCHANGED <<runVars, service, handle, req, page, unified>>

-----------------------------------------------------------------------------
(* get_status, the worker of main.py *)

\* What the page makes of the status row.
Verdict ==
    CASE service.pid = NoProc -> "none"
      [] service.pid # NoProc /\ handle # NoProc ->
             IF ~Alive(handle) THEN "dead" ELSE IF service.running THEN "none" ELSE "heal"
      [] OTHER -> IF ~service.running /\ (Alive(service.pid) \/ Zombie(service.pid))
                  THEN "heal" ELSE "none"

Healed(verdict, pid) ==
    /\ service' = CASE verdict = "heal" -> [running |-> TRUE, pid |-> pid]
                    [] verdict = "dead" -> Stopped
                    [] OTHER -> service
    /\ handle' = IF verdict = "dead" THEN NoProc ELSE handle

\* The page cleans up and looks; it writes later where the scenario has "between".
Look ==
    /\ page.pc = "idle"
    /\ CleanUp
    /\ procs' = IF Zombie(handle) /\ service.pid # NoProc THEN Gone({handle}) ELSE procs
    /\ IF "between" \in exposed
       THEN /\ page' = [pc |-> "write", verdict |-> Verdict, pid |-> service.pid]
            /\ UNCHANGED <<service, handle>>
       ELSE Healed(Verdict, service.pid) /\ UNCHANGED page
    /\ UNCHANGED <<runs, req, unified, events>>

Write ==
    /\ page.pc = "write"
    /\ Healed(page.verdict, page.pid)
    /\ page' = [pc |-> "idle", verdict |-> "none", pid |-> NoProc]
    /\ UNCHANGED <<runVars, procs, req, unified, events>>

\* cleanup_stopped_processes
Reap ==
    /\ handle # NoProc /\ ~Alive(handle)
    /\ procs' = Gone({handle}) /\ handle' = NoProc /\ service' = Stopped
    /\ UNCHANGED <<runVars, req, page, unified, events>>

-----------------------------------------------------------------------------
Unified ==
    /\ Happens("unified")
    /\ unified' = TRUE
    /\ UNCHANGED <<runVars, procVars, req, page>>

\* The API process ends with its children; the restore starts the service again.
Restart ==
    /\ Happens("restart")
    /\ runs' = [i \in Runs |-> IF rows[i].status = "none" THEN runs[i]
                               ELSE [outer |-> "over", inner |-> "idle"]]
    /\ registered' = NoRun /\ handle' = NoProc
    /\ procs' = Gone(Procs) /\ service' = Stopped
    /\ LET boot == CHOOSE r \in Requests : TRUE IN
           req' = [r \in Requests |-> IF service.running /\ r = boot
                                      THEN [Idle EXCEPT !.pc = "start"] ELSE Idle]
    /\ page' = [pc |-> "idle", verdict |-> "none", pid |-> NoProc]
    /\ UNCHANGED <<rows, unified>>

Init ==
    /\ rows = [i \in Runs |-> [status |-> "none", old |-> FALSE]]
    /\ runs = [i \in Runs |-> [outer |-> "none", inner |-> "idle"]]
    /\ registered = NoRun
    /\ service = Stopped /\ procs = [p \in Procs |-> "none"] /\ handle = NoProc
    /\ req = [r \in Requests |-> Idle]
    /\ page = [pc |-> "idle", verdict |-> "none", pid |-> NoProc]
    /\ unified = FALSE /\ events = {} /\ exposed \in Exposures

Proceed(r) ==
    \/ Clean(r) \/ Check(r) \/ Create(r) \/ Register(r)
    \/ Spawn(r) \/ Spawned(r) \/ NextExecution(r) \/ KeepHandle(r)
    \/ Stop(r) \/ Kill(r)

Thread(i)  == TaskEnds(i) \/ Outcome(i) \/ Release(i)
Process(p) == MarkSelf(p) \/ LoopFails(p) \/ ProcessEnds(p)

Advance ==
    \/ \E r \in Requests : BeginRun(r) \/ BeginService(r) \/ Proceed(r)
    \/ \E i \in Runs : Thread(i) \/ Grow(i)
    \/ \E p \in Procs : Process(p)
    \/ Look \/ Write \/ Reap \/ Unified \/ Restart

Keep(A) == A /\ UNCHANGED exposed
Next == Keep(Advance)
Spec == Init /\ [][Next]_vars

\* Threads and processes are scheduled, time passes, the page is open and the
\* worker wakes every 45 seconds; requests do not for ever hold up a run's end.
FairSpec ==
    /\ Spec
    /\ \A r \in Requests : WF_vars(Keep(Proceed(r)))
    /\ \A i \in Runs : WF_vars(Keep(Thread(i))) /\ WF_vars(Keep(Grow(i)))
    /\ SF_vars(Keep(\E i \in Runs : Outcome(i)))
    /\ \A p \in Procs : WF_vars(Keep(Process(p)))
    /\ WF_vars(Keep(Look \/ Write)) /\ WF_vars(Keep(Reap))

-----------------------------------------------------------------------------
(* Properties *)

\* Every variable stays within its type; a row's status is one its column knows.
TypeOK ==
    /\ rows \in [Runs -> [status : {"none", "running", "success", "failed"}, old : BOOLEAN]]
    /\ runs \in [Runs -> [outer : {"none", "wait", "close", "over"}, inner : {"idle", "busy"}]]
    /\ registered \in Runs \cup {NoRun} /\ handle \in Procs \cup {NoProc}
    /\ service \in [running : BOOLEAN, pid : Procs \cup {NoProc}]
    /\ procs \in [Procs -> {"none", "boot", "loop", "closing", "ended", "gone"}]
    /\ \A r \in Requests : req[r].run \in Runs \cup {NoRun} /\ req[r].proc \in Procs \cup {NoProc}
    /\ page.verdict \in {"none", "heal", "dead"} /\ unified \in BOOLEAN
    /\ events \subseteq EventKinds /\ exposed \in Exposures

\* SAFETY

\* Where no run is asked for while another request is handled or another run
\* winds down: the row of a run that waits for its task says so, however long it
\* takes and whoever cleans up, and no other run waits; and where no task
\* exceeds its time, only one works.
RunsKept ==
    "overlap" \notin exposed =>
        /\ \A i \in Runs : runs[i].outer = "wait" => Running = {i}
        /\ "slow" \in exposed \/ Cardinality({i \in Runs : runs[i].inner = "busy"}) <= 1

\* LIVENESS, under FairSpec

\* No row stays running: after a restart, a lost key or an update that failed, it
\* is found.  Nor does a running flag without a process stay, unless the service
\* was stopped, or the page writes what it saw before the process ended.
Settles ==
    /\ \A i \in Runs : rows[i].status = "running" ~> rows[i].status # "running"
    /\ "stop" \in exposed \/ "between" \in exposed
           \/ (service.running ~> ~service.running)
=============================================================================
