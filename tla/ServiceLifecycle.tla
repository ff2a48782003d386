-------------------------- MODULE ServiceLifecycle --------------------------
(***************************************************************************)
(* Start, stop, restart and restore of one user's trading service.         *)
(*                                                                         *)
(* MultiUserTradingService (multi_user_trading_service.py) answers the API *)
(* calls and keeps the running instance in memory; TradingService          *)
(* (run_trading_service.py) is a thread that logs in, takes a row of the   *)
(* scheduler_lock table and loops; service_lifecycle_generation.py decides *)
(* whether a thread that ends may write "stopped"; and                     *)
(* service_restore_snapshot.py starts services again when the API process  *)
(* boots.                                                                  *)
(*                                                                         *)
(* A user who trades on paper has the same calls and rows, but a thread of *)
(* its own kind (_run_paper_trading_scheduler): it has logged in before it *)
(* is started, waits for the row, and gives it back last.                  *)
(*                                                                         *)
(* An instance and its thread are one value of Threads.  The branch of     *)
(* start_service for an instance whose flag says running while its thread  *)
(* is dead is left out: run() clears the flag on every exit.               *)
(*                                                                         *)
(* Definitions named Mut... are deliberately wrong forms of the definition *)
(* that follows them; no action uses them (see the README).                *)
(***************************************************************************)
EXTENDS Naturals, FiniteSets

CONSTANTS
    Threads,     \* instances of TradingService, each with its thread
    NoThread,    \* "no instance" and "no lock row"
    MaxCalls,    \* bound: start and stop calls of the user in one behaviour
    MaxBoots,    \* bound: restarts of the API process
    Exposures    \* the combinations of hazards to explore

\* "paper" is no hazard: it says which of the two threads the user has.
HazardKinds == {"paper", "hastyStart", "hastyStop", "initFails", "startFails",
                "badDatabase", "lease", "crash", "crashAtBoot", "startDuringPoll"}

ASSUME ThreadAssumption == IsFiniteSet(Threads) /\ NoThread \notin Threads
ASSUME BoundAssumption  == MaxCalls \in Nat /\ MaxBoots \in Nat
ASSUME HazardAssumption == Exposures \subseteq SUBSET HazardKinds

VARIABLES
    up,        \* the API process runs
    current,   \* _services[user] and _service_threads[user]
    gen,       \* the lifecycle generation, in memory
    th,        \* the instances
    api,       \* the call that holds the per-user lock
    poll,      \* what a status request has read
    flag,      \* DURABLE: service_running
    beat,      \* DURABLE: last_heartbeat, recent or beyond the stale limits
    lock,      \* DURABLE: the user's scheduler_lock row
    snap,      \* DURABLE: the restore snapshot names the user
    asked,     \* history: what the last call asked for, once it has completed
    calls, boots,
    exposed    \* the hazards of this behaviour; no step changes it

memory  == <<current, gen, th, api, poll>>
durable == <<flag, beat, lock, snap>>
bounds  == <<calls, boots>>
vars    == <<up, memory, durable, asked, bounds, exposed>>

-----------------------------------------------------------------------------
Unborn == [pc |-> "dead", gen |-> 0, running |-> FALSE, stop |-> FALSE, row |-> FALSE]
NoRow  == [by |-> NoThread, expired |-> FALSE]
NoCall == "none"
NoPoll == [on |-> FALSE, flag |-> FALSE, known |-> FALSE, alive |-> FALSE, old |-> FALSE]

Alive(t)  == t # NoThread /\ th[t].pc # "dead"
Active(t) == th[t].pc = "loop" /\ ~th[t].stop

\* A hasty user starts or stops while the instance is still logging in.
Settled(haste) ==
    current # NoThread /\ haste \notin exposed => th[current].pc \notin {"init", "take"}

Paper == "paper" \in exposed

-----------------------------------------------------------------------------
(* start_service and stop_service, one at a time under the per-user lock *)

AlreadyRunning == current # NoThread /\ th[current].running /\ Alive(current)

\* A new instance has an id of its own, which no row names; which member of Threads
\* stands for it does not matter.
New(t) == th[t].pc = "dead" /\ lock.by # t
IsNext(t) == New(t) /\ t = CHOOSE other \in Threads : New(other)

\* A new generation, instance and thread; the references are stored first.
Launch(t, g) ==
    /\ IsNext(t)
    /\ gen' = g
    /\ current' = t
    /\ th' = [th EXCEPT ![t] = [Unborn EXCEPT !.pc = "init", !.gen = g]]

\* On paper the user's row is deleted first, unless the thread referred to is alive.
RowAtStart ==
    IF Paper /\ ~Alive(current)
    THEN {NoRow} \cup IF "badDatabase" \in exposed THEN {lock} ELSE {}
    ELSE {lock}

Call(haste) == up /\ api = NoCall /\ calls < MaxCalls /\ calls' = calls + 1 /\ Settled(haste)

StartService ==
    /\ Call("hastyStart") /\ ~AlreadyRunning
    /\ poll.on => "startDuringPoll" \in exposed
    /\ \/ /\ \E t \in Threads : Launch(t, gen + 1)
          /\ api' = "start" /\ lock' \in RowAtStart
          /\ UNCHANGED flag
       \/ /\ "startFails" \in exposed   \* no settings or credentials, or no login on paper
          /\ flag' = FALSE
          /\ gen' \in IF Paper THEN {gen, gen + 1} ELSE {gen}
          /\ UNCHANGED <<current, th, api, lock>>
    /\ asked' = "pending"
    /\ UNCHANGED <<up, poll, beat, snap, boots>>

\* An instance that runs is left alone and the call still reports success.
StartAgain ==
    /\ Call("hastyStart") /\ AlreadyRunning
    /\ asked' = "start"
    /\ UNCHANGED <<up, memory, durable, boots>>

StartCommits ==
    /\ api = "start"
    /\ flag' = TRUE /\ beat' = "recent"
    /\ asked' = "start"
    /\ api' = NoCall
    /\ UNCHANGED <<up, current, gen, th, poll, lock, snap, bounds>>

RequestShutdown(t) == [th EXCEPT ![t].stop = TRUE, ![t].running = FALSE]

StopService ==
    /\ Call("hastyStop")
    /\ gen' = gen + 1
    /\ current' = NoThread
    /\ th' = IF current = NoThread THEN th ELSE RequestShutdown(current)
    /\ api' = "stop" /\ asked' = "pending"
    /\ UNCHANGED <<up, poll, durable, boots>>

\* The join waits ten seconds at most: enough for the attempts on the lock row
\* when the database answers, not for the thirty seconds the loop may sleep.
Joined == \A t \in Threads :
    th[t].stop /\ th[t].pc \in {"acquire", "cleanup", "retry"} => "badDatabase" \in exposed

StopCommits ==
    /\ api = "stop" /\ Joined
    /\ flag' = FALSE /\ beat' = "recent"
    /\ asked' = "stop"
    /\ api' = NoCall
    /\ UNCHANGED <<up, current, gen, th, poll, lock, snap, bounds>>

-----------------------------------------------------------------------------
(* The thread: TradingService.run *)

At(t, pc)   == up /\ th[t].pc = pc
Goto(t, pc) == th' = [th EXCEPT ![t].pc = pc]

\* initialize() succeeded; both flags are set, whatever was requested meanwhile.
Initialized(t) ==
    /\ At(t, "init") /\ ~Paper
    /\ th' = [th EXCEPT ![t].pc = "acquire", ![t].running = TRUE, ![t].stop = FALSE]
    /\ UNCHANGED <<up, current, gen, api, poll, durable, asked, bounds>>

InitFails(t) ==
    /\ At(t, "init") /\ ~Paper /\ "initFails" \in exposed
    /\ Goto(t, "check")
    /\ UNCHANGED <<up, current, gen, api, poll, durable, asked, bounds>>

\* Expired rows of any user are deleted before the insert.
Free == lock.by = NoThread \/ lock.expired

Acquires(t) ==
    /\ Free
    /\ lock' = [by |-> t, expired |-> FALSE]
    /\ th' = [th EXCEPT ![t].pc = "loop", ![t].row = TRUE]

Acquire(t) ==
    /\ At(t, "acquire")
    /\ \/ Acquires(t)
       \/ ~Free /\ Goto(t, "cleanup") /\ UNCHANGED lock
       \/ "badDatabase" \in exposed /\ Goto(t, "loop") /\ UNCHANGED lock   \* fails open
    /\ UNCHANGED <<up, current, gen, api, poll, flag, beat, snap, asked, bounds>>

\* The row of this user is deleted, whoever holds it.
Cleanup(t) ==
    /\ At(t, "cleanup")
    /\ \/ lock' = NoRow /\ Goto(t, "retry")
       \/ "badDatabase" \in exposed /\ Goto(t, "closing") /\ UNCHANGED lock
    /\ UNCHANGED <<up, current, gen, api, poll, flag, beat, snap, asked, bounds>>

Retry(t) ==
    /\ At(t, "retry")
    /\ \/ Acquires(t)
       \/ ~Free /\ Goto(t, "closing") /\ UNCHANGED lock
       \/ "badDatabase" \in exposed /\ Goto(t, "loop") /\ UNCHANGED lock
    /\ UNCHANGED <<up, current, gen, api, poll, flag, beat, snap, asked, bounds>>

\* One pass of the loop: tasks, then the heartbeat.
Loop(t) ==
    /\ At(t, "loop") /\ ~Paper
    /\ beat' = "recent"
    /\ UNCHANGED <<up, memory, flag, lock, snap, asked, bounds>>

MutReleased(t) == NoRow                       \* deletes by user, not by lock_id
Released(t) == IF th[t].row /\ lock.by = t THEN NoRow ELSE lock

\* An error of the database is swallowed, and the row stays until it lapses.
GiveBack(t) ==
    \/ lock' = Released(t)
    \/ "badDatabase" \in exposed /\ UNCHANGED lock

Leave(t) ==
    /\ At(t, "loop") /\ th[t].stop /\ ~Paper
    /\ GiveBack(t)
    /\ Goto(t, "closing")
    /\ UNCHANGED <<up, current, gen, api, poll, flag, beat, snap, asked, bounds>>

MutClose(t) == At(t, "closing") /\ Goto(t, "check")      \* the flag stays set
               /\ UNCHANGED <<up, current, gen, api, poll, durable, asked, bounds>>
Close(t) ==
    /\ At(t, "closing")
    /\ th' = [th EXCEPT ![t].pc = "check", ![t].running = FALSE]
    /\ UNCHANGED <<up, current, gen, api, poll, durable, asked, bounds>>

MayApply(t) == th[t].gen = gen
Ended == IF Paper THEN "release" ELSE "dead"

CheckGeneration(t) ==
    /\ At(t, "check")
    /\ Goto(t, IF MayApply(t) THEN "write" ELSE Ended)
    /\ UNCHANGED <<up, current, gen, api, poll, durable, asked, bounds>>

\* Retried for up to nine seconds while the database is locked.
WriteStopped(t) ==
    /\ At(t, "write") /\ ~Paper
    /\ flag' = FALSE /\ beat' = "recent"
    /\ Goto(t, "dead")
    /\ UNCHANGED <<up, current, gen, api, poll, lock, snap, asked, bounds>>

-----------------------------------------------------------------------------
(* The thread on paper: _run_paper_trading_scheduler *)

Superseded(t) == Alive(current) /\ current # t

\* The row is deleted, unless the references name another live thread.
Clear(t) == IF Superseded(t) THEN lock ELSE NoRow

PaperBegin(t) ==
    /\ At(t, "init") /\ Paper
    /\ Goto(t, "take")
    /\ \/ lock' = Clear(t)
       \/ "badDatabase" \in exposed /\ UNCHANGED lock
    /\ UNCHANGED <<up, current, gen, api, poll, flag, beat, snap, asked, bounds>>

\* Tried for minutes, whether or not the instance was stopped meanwhile; a thread that
\* is replaced, or never gets the row, ends without a word about its status.
GivesUp(t) == (~Free /\ Superseded(t)) \/ "badDatabase" \in exposed
Runs(t, row) == th' = [th EXCEPT ![t].pc = "loop", ![t].row = row, ![t].running = TRUE]

\* _try_acquire_paper_scheduler_lock, which fails open.
TakesRow(t) ==
    \/ Free /\ lock' = [by |-> t, expired |-> FALSE] /\ Runs(t, TRUE)
    \/ "badDatabase" \in exposed /\ Runs(t, FALSE) /\ UNCHANGED lock

Take(t) ==
    /\ At(t, "take")
    /\ \/ TakesRow(t)
       \/ GivesUp(t) /\ Goto(t, "dead") /\ UNCHANGED lock
    /\ UNCHANGED <<up, current, gen, api, poll, flag, beat, snap, asked, bounds>>

\* One pass: the tasks that are due, then the heartbeat, on weekends as well.
PaperLoop(t) ==
    /\ At(t, "loop") /\ Paper /\ ~th[t].stop
    /\ beat' = "recent"
    /\ UNCHANGED <<up, memory, flag, lock, snap, asked, bounds>>

PaperLeave(t) ==
    /\ At(t, "loop") /\ th[t].stop /\ Paper
    /\ th' = [th EXCEPT ![t].pc = "check", ![t].running = FALSE]
    /\ UNCHANGED <<up, current, gen, api, poll, durable, asked, bounds>>

\* Five attempts, and another one with a session of its own.
PaperStopped(t) ==
    /\ At(t, "write") /\ Paper
    /\ flag' = FALSE /\ beat' = "recent"
    /\ Goto(t, "release")
    /\ UNCHANGED <<up, current, gen, api, poll, lock, snap, asked, bounds>>

\* The row is given back last.
Release(t) ==
    /\ At(t, "release")
    /\ GiveBack(t)
    /\ Goto(t, "dead")
    /\ UNCHANGED <<up, current, gen, api, poll, flag, beat, snap, asked, bounds>>

-----------------------------------------------------------------------------
(* get_service_status, without the per-user lock *)

\* Without a reference to a thread it is looked up once more.
Dead(p) == ~p.alive /\ (p.known \/ ~Alive(current))

MutStaleStatus(p) == p.flag /\ Dead(p) /\ p.old /\ ~p.known   \* dead ones kept
StaleStatus(p) == p.flag /\ Dead(p) /\ p.old

Healable == current # NoThread /\ th[current].gen = gen

Judge(p) ==
    \/ /\ StaleStatus(p)
       /\ current' = NoThread /\ flag' = FALSE
    \/ /\ ~p.flag /\ p.alive /\ Healable
       /\ flag' = TRUE /\ UNCHANGED current

Seen == [on |-> TRUE, flag |-> flag, known |-> current # NoThread, alive |-> Alive(current),
         old |-> beat = "old"]

\* The status is read, then up to 1.6 seconds of grace pass before it is used.
Poll ==
    /\ up /\ ~poll.on
    /\ poll' = Seen
    /\ UNCHANGED <<up, current, gen, th, api, durable, asked, bounds>>

PollEnds ==
    /\ up /\ poll.on
    /\ \/ Judge(poll)
       \/ /\ ~StaleStatus(poll) /\ ~(~poll.flag /\ poll.alive /\ Healable)
          /\ UNCHANGED <<current, flag>>
    /\ poll' = NoPoll
    /\ UNCHANGED <<up, gen, th, api, beat, lock, snap, asked, bounds>>

-----------------------------------------------------------------------------
(* Time, and the API process *)

\* Half an hour without a heartbeat.
Age ==
    /\ beat # "old" /\ beat' = "old"
    /\ UNCHANGED <<up, memory, flag, lock, snap, asked, bounds>>

\* Five minutes after it was written: no code renews a row.
Expire ==
    /\ "lease" \in exposed /\ lock.by # NoThread /\ ~lock.expired
    /\ lock' = [lock EXCEPT !.expired = TRUE]
    /\ UNCHANGED <<up, memory, flag, beat, snap, asked, bounds>>

\* Another user's service deletes every expired row.
Sweep ==
    /\ lock.expired
    /\ lock' = NoRow
    /\ UNCHANGED <<up, memory, flag, beat, snap, asked, bounds>>

Vanish ==
    /\ up /\ boots < MaxBoots
    /\ up' = FALSE
    /\ current' = NoThread /\ gen' = 0
    /\ th' = [t \in Threads |-> Unborn]
    /\ api' = NoCall /\ poll' = NoPoll
    /\ UNCHANGED <<flag, beat, lock, asked, bounds>>

\* Also while it boots, once the flags are cleared and until the start is committed.
Crash ==
    /\ (IF api = "restore" THEN "crashAtBoot" ELSE "crash") \in exposed
    /\ Vanish /\ UNCHANGED snap

\* Requests in progress end first; then the shutdown hook writes the snapshot.
Shutdown == api = NoCall /\ Vanish /\ snap' = (flag \/ Alive(current))

MutRestoreTargets == snap                     \* the flags are not consulted
RestoreTargets == flag \/ snap

\* cleanup_and_restore_services: flags are cleared, the users of the snapshot
\* and of the flags get their lock rows deleted and their services started.
Boot ==
    /\ ~up /\ up' = TRUE
    /\ boots' = boots + 1
    /\ flag' = FALSE
    /\ \/ /\ RestoreTargets
          /\ lock' = NoRow
          /\ \E t \in Threads : Launch(t, 1)
          /\ api' = "restore"
          /\ UNCHANGED snap
       \/ /\ ~RestoreTargets \/ "startFails" \in exposed
          /\ lock' = IF RestoreTargets THEN NoRow ELSE lock
          /\ snap' = FALSE
          /\ UNCHANGED <<current, gen, th, api>>
    /\ UNCHANGED <<poll, beat, asked, calls>>

\* The start commits; then a new snapshot is taken of what runs.
RestoreCommits ==
    /\ api = "restore"
    /\ flag' = TRUE /\ beat' = "recent" /\ snap' = TRUE
    /\ api' = NoCall
    /\ UNCHANGED <<up, current, gen, th, poll, lock, asked, bounds>>

-----------------------------------------------------------------------------
Init ==
    /\ up = TRUE
    /\ current = NoThread /\ gen = 0
    /\ th = [t \in Threads |-> Unborn]
    /\ api = NoCall /\ poll = NoPoll
    /\ flag = FALSE /\ beat = "recent" /\ lock = NoRow /\ snap = FALSE
    /\ asked = "stop"
    /\ calls = 0 /\ boots = 0
    /\ exposed \in Exposures

Commits == StartCommits \/ StopCommits \/ RestoreCommits

Step(t) ==
    \/ Initialized(t) \/ InitFails(t) \/ Acquire(t) \/ Cleanup(t) \/ Retry(t)
    \/ Leave(t) \/ Close(t) \/ CheckGeneration(t) \/ WriteStopped(t)
    \/ PaperBegin(t) \/ Take(t) \/ PaperLeave(t) \/ PaperStopped(t) \/ Release(t)

Advance ==
    \/ StartService \/ StartAgain \/ StopService \/ Commits
    \/ \E t \in Threads : Step(t) \/ Loop(t) \/ PaperLoop(t)
    \/ Poll \/ PollEnds
    \/ Age \/ Expire \/ Sweep
    \/ Crash \/ Shutdown \/ Boot

Next == Advance /\ UNCHANGED exposed

Spec == Init /\ [][Next]_vars

\* Threads are scheduled, calls return, the web page polls the status, time
\* passes and the container is started again.
Keep(A) == A /\ UNCHANGED exposed

FairSpec ==
    /\ Spec
    /\ \A t \in Threads : WF_vars(Keep(Step(t)))
    /\ WF_vars(Keep(Commits)) /\ WF_vars(Keep(Poll)) /\ WF_vars(Keep(PollEnds))
    /\ WF_vars(Keep(Age)) /\ WF_vars(Keep(Boot))

-----------------------------------------------------------------------------
(* Properties *)

Pcs == {"dead", "init", "acquire", "cleanup", "retry", "loop", "closing", "check", "write",
        "take", "release"}
Running == {"acquire", "cleanup", "retry", "loop", "closing"}
ThreadType == [pc : Pcs, gen : Nat, running : BOOLEAN, stop : BOOLEAN, row : BOOLEAN]

Typed ==
    /\ up \in BOOLEAN /\ flag \in BOOLEAN /\ snap \in BOOLEAN
    /\ current \in Threads \cup {NoThread} /\ gen \in Nat
    /\ th \in [Threads -> ThreadType]
    /\ api \in {NoCall, "start", "stop", "restore"}
    /\ poll \in [on : BOOLEAN, flag : BOOLEAN, known : BOOLEAN, alive : BOOLEAN, old : BOOLEAN]
    /\ beat \in {"recent", "old"}
    /\ lock \in [by : Threads \cup {NoThread}, expired : BOOLEAN]
    /\ asked \in {"start", "stop", "pending"}
    /\ calls \in Nat /\ boots \in Nat
    /\ exposed \in Exposures

\* An instance counts as running only while its thread is between login and exit.
NoneLeftRunning == \A t \in Threads : th[t].running => th[t].pc \in Running

\* Every variable stays within the values the process and the tables can hold; and no
\* thread, by whichever exit it ends, leaves its flag set, which start_service would
\* have to take back.
TypeOK == Typed /\ NoneLeftRunning

\* SAFETY

\* At most one scheduler loop of the user goes on taking tasks: another one has
\* been told to stop and finishes its last pass.
OneActiveLoop == \A s, t \in Threads : Active(s) /\ Active(t) => s = t

\* The user waits for a login before the next call; and no start overlaps a status
\* request that may have seen an instance that ended by itself.
Calm ==
    /\ exposed \cap {"hastyStart", "hastyStop"} = {}
    /\ "startDuringPoll" \in exposed => exposed \cap {"initFails", "badDatabase"} = {}

\* A loop that goes on is the one every other part takes it for: the instance
\* the API knows and can stop; the owner of the lock row, unless the database
\* fails or the row lapses; and, between calls, the status the page shows, unless
\* an instance before it failed to log in or to take its row.  Late releases, late exit
\* writes and status requests of the threads before it leave all three alone.
ActiveIsOwner ==
    Calm => \A t \in Threads : Active(t) =>
        /\ t = current
        /\ exposed \cap {"badDatabase", "lease"} = {} => lock.by = t
        /\ exposed \cap {"initFails", "badDatabase"} = {} /\ api = NoCall => flag

\* What ran when the API process died is started when it boots, however often it dies,
\* unless it could not log in, be started or take its row before, or the process died
\* while it was started again.
RunningIsRestored ==
    [][~up /\ up' /\ asked = "start" /\ Calm
       /\ exposed \cap {"initFails", "startFails", "badDatabase", "crashAtBoot"} = {}
         => current' # NoThread]_vars

\* LIVENESS, under FairSpec

\* Threads and status settle: a thread the API no longer refers to ends;
\* "running" does not outlive the last thread for ever, and "stopped" does not
\* stand while the loop goes on.
LifecycleSettles ==
    /\ \A t \in Threads : (Alive(t) /\ t # current) ~> (~Alive(t) \/ t = current)
    /\ (up /\ flag /\ \A t \in Threads : ~Alive(t))
           ~> (~up \/ ~flag \/ \E t \in Threads : Alive(t))
    /\ (up /\ ~flag /\ current # NoThread /\ Active(current))
           ~> (~up \/ flag \/ ~(current # NoThread /\ Active(current)))
=============================================================================
