------------------------ MODULE ServiceLifecycleProofs ------------------------
(***************************************************************************)
(* Proofs about ServiceLifecycle for any set of instances, any number of   *)
(* calls and boots, and every combination of hazards; and, at the end,     *)
(* about BrokerSession, the session the service runs with.                 *)
(***************************************************************************)
EXTENDS ServiceLifecycle, FiniteSetTheorems, TLAPS

-----------------------------------------------------------------------------
(* The type invariant *)

PollType == [on : BOOLEAN, flag : BOOLEAN, known : BOOLEAN, alive : BOOLEAN, old : BOOLEAN]
RowType  == [by : Threads \cup {NoThread}, expired : BOOLEAN]

\* An instance stays well typed whatever is written to one of its fields.
LEMMA ThreadFields ==
    ASSUME NEW r \in ThreadType
    PROVE  /\ \A pc \in Pcs : [r EXCEPT !.pc = pc] \in ThreadType
           /\ \A b \in BOOLEAN : /\ [r EXCEPT !.running = b] \in ThreadType
                                 /\ [r EXCEPT !.stop = b] \in ThreadType
                                 /\ [r EXCEPT !.row = b] \in ThreadType
           /\ \A g \in Nat : [r EXCEPT !.gen = g] \in ThreadType
BY DEF ThreadType

\* A row stays well typed when it lapses, and so does the one of a thread.
LEMMA RowFields ==
    /\ NoRow \in RowType
    /\ \A r \in RowType : [r EXCEPT !.expired = TRUE] \in RowType
    /\ \A t \in Threads : [by |-> t, expired |-> FALSE] \in RowType
BY DEF RowType, NoRow

\* The instance that is launched.
LEMMA LaunchType ==
    ASSUME Typed, NEW t \in Threads, NEW g \in Nat, Launch(t, g)
    PROVE  th' \in [Threads -> ThreadType] /\ gen' \in Nat /\ current' \in Threads
<1>1. [Unborn EXCEPT !.pc = "init", !.gen = g] \in ThreadType
  BY DEF Unborn, ThreadType, Pcs
<1> QED
  BY <1>1 DEF Launch, Typed

\* The calls of the user.
LEMMA CallType == Typed /\ (StartService \/ StartAgain \/ StopService \/ Commits) /\ UNCHANGED exposed => Typed'
<1> SUFFICES ASSUME Typed, StartService \/ StartAgain \/ StopService \/ Commits, UNCHANGED exposed
             PROVE  Typed'
  OBVIOUS
<1> USE DEF bounds
<1>1. CASE StartService
  <2>1. calls' \in Nat
    BY <1>1 DEF StartService, Call, Typed
  <2>2. lock \in RowType /\ NoRow \in RowType
    BY DEF Typed, RowType, NoRow
  <2>3. CASE \E t \in Threads : Launch(t, gen + 1) /\ api' = "start" /\ lock' \in RowAtStart /\ UNCHANGED flag
    <3>1. th' \in [Threads -> ThreadType] /\ gen' \in Nat /\ current' \in Threads
      BY <2>3, LaunchType DEF Typed
    <3>2. lock' \in RowType
      BY <2>2, <2>3 DEF RowAtStart
    <3> QED
      BY <1>1, <2>1, <2>3, <3>1, <3>2 DEF StartService, Typed, RowType
  <2>4. CASE flag' = FALSE /\ gen' \in {gen, gen + 1} /\ UNCHANGED <<current, th, api, lock>>
    <3>1. gen' \in Nat
      BY <2>4 DEF Typed
    <3>2. flag' \in BOOLEAN
      BY <2>4
    <3>3. UNCHANGED <<up, current, th, api, poll, beat, lock, snap, boots, exposed>> /\ asked' = "pending"
      BY <1>1, <2>4 DEF StartService
    <3> QED
      BY <2>1, <3>1, <3>2, <3>3 DEF Typed
  <2> QED
    BY <1>1, <2>3, <2>4 DEF StartService
<1>2. CASE StartAgain
  BY <1>2 DEF StartAgain, Call, Typed, memory, durable
<1>3. CASE StopService
  <2>1. th' \in [Threads -> ThreadType]
    <3>1. th \in [Threads -> ThreadType] /\ current \in Threads \cup {NoThread}
      BY DEF Typed
    <3>2. \A r \in ThreadType : [[r EXCEPT !.stop = TRUE] EXCEPT !.running = FALSE] \in ThreadType
      BY ThreadFields
    <3>3. current # NoThread => RequestShutdown(current) \in [Threads -> ThreadType]
      BY <3>1, <3>2 DEF RequestShutdown, ThreadType
    <3> QED
      BY <1>3, <3>1, <3>3 DEF StopService
  <2> QED
    BY <1>3, <2>1 DEF StopService, Call, Typed, durable
<1>4. CASE Commits
  BY <1>4 DEF Commits, StartCommits, StopCommits, RestoreCommits, Typed, NoCall
<1> QED
  BY <1>1, <1>2, <1>3, <1>4

\* The steps of a thread.
LEMMA StepType ==
    ASSUME Typed, NEW t \in Threads, Step(t) \/ Loop(t) \/ PaperLoop(t), UNCHANGED exposed
    PROVE  Typed'
<1> USE DEF bounds
<1>1. th \in [Threads -> ThreadType] /\ th[t] \in ThreadType /\ lock \in RowType /\ NoRow \in RowType
  BY DEF Typed, RowType, NoRow
<1>2. [by |-> t, expired |-> FALSE] \in RowType
  BY DEF RowType
<1>3. \A pc \in Pcs : Goto(t, pc) => th' \in [Threads -> ThreadType]
  BY <1>1, ThreadFields DEF Goto
<1>4. \A row \in BOOLEAN : Runs(t, row) => th' \in [Threads -> ThreadType]
  <2> SUFFICES ASSUME NEW row \in BOOLEAN, Runs(t, row) PROVE th' \in [Threads -> ThreadType]
    OBVIOUS
  <2>1. [[[th[t] EXCEPT !.pc = "loop"] EXCEPT !.row = row] EXCEPT !.running = TRUE] \in ThreadType
    BY <1>1, ThreadFields DEF Pcs
  <2> QED
    BY <1>1, <2>1 DEF Runs, ThreadType
<1>5. Acquires(t) => th' \in [Threads -> ThreadType] /\ lock' \in RowType
  <2>1. [[th[t] EXCEPT !.pc = "loop"] EXCEPT !.row = TRUE] \in ThreadType
    BY <1>1, ThreadFields DEF Pcs
  <2> QED
    BY <1>1, <1>2, <2>1 DEF Acquires, ThreadType
<1>6. CASE Initialized(t) \/ Close(t) \/ PaperLeave(t)
  <2>1. th' \in [Threads -> ThreadType]
    BY <1>1, <1>6 DEF Initialized, Close, PaperLeave, ThreadType, Pcs
  <2> QED
    BY <1>6, <2>1 DEF Initialized, Close, PaperLeave, Typed, durable
<1>7. CASE InitFails(t) \/ CheckGeneration(t)
  <2>1. th' \in [Threads -> ThreadType]
    BY <1>3, <1>7 DEF InitFails, CheckGeneration, Ended, Pcs
  <2> QED
    BY <1>7, <2>1 DEF InitFails, CheckGeneration, Typed, durable
<1>8. CASE Acquire(t) \/ Cleanup(t) \/ Retry(t) \/ Leave(t) \/ PaperBegin(t) \/ Release(t)
  <2>1. th' \in [Threads -> ThreadType]
    BY <1>3, <1>5, <1>8 DEF Acquire, Cleanup, Retry, Leave, PaperBegin, Release, Pcs
  <2>2. lock' \in RowType
    BY <1>1, <1>5, <1>8 DEF Acquire, Cleanup, Retry, Leave, PaperBegin, Release, GiveBack, Released, Clear
  <2> QED
    BY <1>8, <2>1, <2>2 DEF Acquire, Cleanup, Retry, Leave, PaperBegin, Release, Typed, RowType
<1>9. CASE Take(t)
  <2>1. th' \in [Threads -> ThreadType] /\ lock' \in RowType
    BY <1>1, <1>2, <1>3, <1>4, <1>9 DEF Take, TakesRow, Pcs
  <2> QED
    BY <1>9, <2>1 DEF Take, Typed, RowType
<1>10. CASE WriteStopped(t) \/ PaperStopped(t)
  <2>1. th' \in [Threads -> ThreadType]
    BY <1>3, <1>10 DEF WriteStopped, PaperStopped, Pcs
  <2> QED
    BY <1>10, <2>1 DEF WriteStopped, PaperStopped, Typed
<1>11. CASE Loop(t) \/ PaperLoop(t)
  BY <1>11 DEF Loop, PaperLoop, Typed, memory
<1> QED
  BY <1>6, <1>7, <1>8, <1>9, <1>10, <1>11 DEF Step

\* Status requests, time and the API process.
LEMMA ProcessType ==
    ASSUME Typed, Poll \/ PollEnds \/ Age \/ Expire \/ Sweep \/ Crash \/ Shutdown \/ Boot, UNCHANGED exposed
    PROVE  Typed'
<1> USE DEF bounds
<1>1. CASE Poll
  <2>1. Seen \in PollType
    <3>1. Alive(current) \in BOOLEAN /\ flag \in BOOLEAN
      BY DEF Alive, Typed
    <3> QED
      BY <3>1 DEF Seen, PollType
  <2> QED
    BY <1>1, <2>1 DEF Poll, Typed, PollType, durable
<1>2. CASE PollEnds
  <2>1. current' \in Threads \cup {NoThread} /\ flag' \in BOOLEAN
    BY <1>2 DEF PollEnds, Judge, Typed
  <2>2. poll' \in PollType
    BY <1>2 DEF PollEnds, NoPoll, PollType
  <2> QED
    BY <1>2, <2>1, <2>2 DEF PollEnds, Typed, PollType
<1>3. CASE Age
  BY <1>3 DEF Age, Typed, memory
<1>4. CASE Expire \/ Sweep
  <2>1. lock' \in RowType
    <3>1. lock \in RowType
      BY DEF Typed, RowType
    <3> QED
      BY <1>4, <3>1, RowFields DEF Expire, Sweep
  <2> QED
    BY <1>4, <2>1 DEF Expire, Sweep, Typed, RowType, memory
<1>5. CASE Crash \/ Shutdown
  <2>1. Unborn \in ThreadType /\ NoPoll \in PollType
    BY DEF Unborn, ThreadType, Pcs, NoPoll, PollType
  <2>2. snap' \in BOOLEAN
    BY <1>5 DEF Crash, Shutdown, Alive, Typed
  <2>3. Vanish
    BY <1>5 DEF Crash, Shutdown
  <2>4. th' \in [Threads -> ThreadType] /\ poll' \in PollType
    BY <2>1, <2>3 DEF Vanish
  <2> QED
    BY <2>2, <2>3, <2>4 DEF Vanish, Typed, PollType, NoCall
<1>6. CASE Boot
  <2>1. lock' \in RowType
    <3>1. lock \in RowType
      BY DEF Typed, RowType
    <3>2. lock' = NoRow \/ lock' = lock
      BY <1>6 DEF Boot
    <3> QED
      BY <3>1, <3>2, RowFields
  <2>2. th' \in [Threads -> ThreadType] /\ gen' \in Nat /\ current' \in Threads \cup {NoThread}
    BY <1>6, LaunchType DEF Boot, Typed
  <2>3. api' \in {NoCall, "start", "stop", "restore"} /\ snap' \in BOOLEAN
    BY <1>6 DEF Boot, Typed
  <2>4. up' = TRUE /\ flag' = FALSE /\ boots' = boots + 1 /\ UNCHANGED <<poll, beat, asked, calls>>
    BY <1>6 DEF Boot
  <2>5. up' \in BOOLEAN /\ flag' \in BOOLEAN
    BY <2>4
  <2>6. boots' \in Nat
    BY <2>4 DEF Typed
  <2> QED
    BY <2>1, <2>2, <2>3, <2>4, <2>5, <2>6 DEF Typed, RowType
<1> QED
  BY <1>1, <1>2, <1>3, <1>4, <1>5, <1>6

\* No step of a thread that ends leaves its flag set, and a new one begins without.
LEMMA NoneLeft ==
    ASSUME Typed, NoneLeftRunning, [Next]_vars
    PROVE  NoneLeftRunning'
<1> USE DEF NoneLeftRunning, Running
<1>1. th \in [Threads -> ThreadType] /\ current \in Threads \cup {NoThread}
  BY DEF Typed
<1>2. CASE UNCHANGED th
  BY <1>2
<1>3. ASSUME NEW t \in Threads, Step(t) PROVE NoneLeftRunning'
  <2>1. CASE Initialized(t) \/ InitFails(t) \/ Acquire(t) \/ Cleanup(t) \/ Retry(t)
    BY <1>1, <2>1 DEF Initialized, InitFails, Acquire, Acquires, Cleanup, Retry, At, Goto, ThreadType
  <2>2. CASE Leave(t) \/ Close(t) \/ CheckGeneration(t) \/ WriteStopped(t)
    BY <1>1, <2>2 DEF Leave, Close, CheckGeneration, Ended, WriteStopped, At, Goto, ThreadType
  <2>3. CASE PaperBegin(t) \/ Take(t) \/ PaperLeave(t) \/ PaperStopped(t) \/ Release(t)
    BY <1>1, <2>3 DEF PaperBegin, Take, TakesRow, Runs, PaperLeave, PaperStopped, Release, At, Goto,
                      ThreadType
  <2> QED
    BY <1>3, <2>1, <2>2, <2>3 DEF Step
<1>4. ASSUME NEW t \in Threads, NEW g \in Nat, Launch(t, g) PROVE NoneLeftRunning'
  BY <1>1, <1>4 DEF Launch, Unborn
<1>5. CASE StopService
  BY <1>1, <1>5 DEF StopService, RequestShutdown, ThreadType
<1>6. CASE Crash \/ Shutdown
  BY <1>6 DEF Crash, Shutdown, Vanish, Unborn
<1>7. CASE StartService \/ Boot
  <2>1. gen + 1 \in Nat /\ 1 \in Nat
    BY DEF Typed
  <2> QED
    BY <1>2, <1>4, <1>7, <2>1 DEF StartService, Boot
<1>8. CASE StartAgain \/ Commits \/ Poll \/ PollEnds \/ Age \/ Expire \/ Sweep \/ UNCHANGED vars
  BY <1>2, <1>8 DEF StartAgain, Commits, StartCommits, StopCommits, RestoreCommits, Poll, PollEnds,
                    Age, Expire, Sweep, vars, memory
<1>9. CASE \E t \in Threads : Loop(t) \/ PaperLoop(t)
  BY <1>2, <1>9 DEF Loop, PaperLoop, memory
<1> QED
  BY <1>3, <1>5, <1>6, <1>7, <1>8, <1>9 DEF Next, Advance

\* Whatever happens, every variable stays within its type.
LEMMA TypeStep == TypeOK /\ [Next]_vars => TypeOK'
<1>1. ASSUME Typed, Next PROVE Typed'
  BY <1>1, CallType, StepType, ProcessType DEF Next, Advance
<1>2. ASSUME Typed, UNCHANGED vars PROVE Typed'
  BY <1>2 DEF vars, memory, durable, bounds, Typed
<1> QED
  BY <1>1, <1>2, NoneLeft DEF TypeOK

\* The process before the first call.
LEMMA TypeInit == Init => TypeOK
<1> SUFFICES ASSUME Init PROVE TypeOK
  OBVIOUS
<1>1. th \in [Threads -> ThreadType]
  BY DEF Init, Unborn, ThreadType, Pcs
<1>2. poll \in PollType /\ lock \in RowType
  BY DEF Init, NoPoll, PollType, NoRow, RowType
<1> QED
  BY <1>1, <1>2 DEF Init, TypeOK, Typed, NoneLeftRunning, Unborn, PollType, RowType

\* For any number of instances, calls and boots and every combination of hazards, the
\* references, the threads, the status request and the rows stay well typed, and no
\* thread that ends leaves its instance marked as running.
THEOREM TypeCorrect == Spec => []TypeOK
<1> QED
  BY TypeInit, TypeStep, PTL DEF Spec

-----------------------------------------------------------------------------
(* The loop that goes on.  That it is current is not inductive: one has to know how   *)
(* every other thread winds down, that the generations tell them apart, and what a    *)
(* status request may still do with what it has read.                                 *)

NoFailure == exposed \cap {"initFails", "badDatabase"} = {}
Trying    == {"acquire", "cleanup", "retry"}

\* Nothing of a process that is down is left.
Halted == ~up => /\ current = NoThread /\ gen = 0 /\ api = NoCall /\ ~poll.on
                 /\ \A t \in Threads : th[t].pc = "dead"

\* The instance that is referred to was not told to stop; all others were, or are past
\* their loop.
Stopping      == api = "stop" => current = NoThread
CurrentGoesOn == current # NoThread => ~th[current].stop
OthersEnd     == \A t \in Threads : t # current =>
                     \/ th[t].pc \in {"dead", "check", "write", "release"}
                     \/ th[t].stop /\ th[t].pc \notin {"init", "take"}
OthersOut     == "badDatabase" \notin exposed =>
                     \A t \in Threads : t # current /\ th[t].pc \in Trying => api = "stop"

\* An instance that was not told to stop counts as running from its login to its end.
CountsAsRunning == \A t \in Threads :
                 th[t].pc \in Trying \cup {"loop", "closing"} /\ ~th[t].stop => th[t].running

Generations == \A t \in Threads : /\ th[t].gen <= gen
                                  /\ t # current /\ th[t].pc # "dead" => th[t].gen < gen

\* A status request that saw a thread that had ended judges it while it still stands.
PollKnows == poll.on /\ poll.known /\ ~poll.alive => "startDuringPoll" \notin exposed /\ ~Alive(current)

\* Where nothing fails, the current instance does not end by itself, its attempt on the
\* row succeeds, and no exit status is written.
CurrentLives == NoFailure /\ current # NoThread => th[current].pc \in Trying \cup {"init", "take", "loop"}
RetryFree    == NoFailure /\ current # NoThread /\ th[current].pc = "retry" => Free
NoLateWrite  == NoFailure => \A t \in Threads : th[t].pc # "write"

RowHeld == exposed \cap {"badDatabase", "lease"} = {} =>
               /\ ~lock.expired
               /\ current # NoThread /\ th[current].pc = "loop" => lock.by = current
Shown   == NoFailure /\ current # NoThread /\ api = NoCall => flag

Lifecycle ==
    /\ Halted /\ Stopping /\ CurrentGoesOn /\ OthersEnd /\ OthersOut /\ CountsAsRunning
    /\ Generations /\ PollKnows /\ CurrentLives /\ RetryFree /\ NoLateWrite /\ RowHeld /\ Shown

\* The steps of a thread keep it.
LEMMA StepKeeps ==
    ASSUME TypeOK, Calm, Lifecycle, UNCHANGED exposed, NEW t \in Threads, Step(t) \/ Loop(t) \/ PaperLoop(t)
    PROVE  Lifecycle'
<1> USE DEF Lifecycle, Halted, Stopping, CurrentGoesOn, OthersEnd, OthersOut, CountsAsRunning, Generations,
            PollKnows, CurrentLives, RetryFree, NoLateWrite, RowHeld, Shown, NoFailure, Trying, Alive, Free
<1> USE ThreadAssumption
<1>1. th \in [Threads -> ThreadType] /\ th[t] \in ThreadType /\ lock \in RowType
  BY DEF TypeOK, Typed, RowType
<1>2. CASE Initialized(t)
  BY <1>1, <1>2 DEF Initialized, At, ThreadType, durable, TypeOK, Typed
<1>3. CASE InitFails(t)
  BY <1>1, <1>3 DEF InitFails, At, ThreadType, durable, TypeOK, Typed, Goto
<1>4. CASE Acquire(t)
  BY <1>1, <1>4 DEF Acquire, Acquires, At, ThreadType, durable, TypeOK, Typed, Goto
<1>5. CASE Cleanup(t)
  BY <1>1, <1>5 DEF Cleanup, At, ThreadType, durable, TypeOK, Typed, Goto, NoRow
<1>6. CASE Retry(t)
  BY <1>1, <1>6, SMTT(30) DEF Retry, Acquires, At, ThreadType, durable, TypeOK, Typed, Goto
<1>7. CASE Leave(t)
  BY <1>1, <1>7 DEF Leave, GiveBack, Released, At, ThreadType, durable, TypeOK, Typed, Goto, NoRow
<1>8. CASE Close(t)
  BY <1>1, <1>8 DEF Close, At, ThreadType, durable, TypeOK, Typed
<1>9. CASE CheckGeneration(t)
  BY <1>1, <1>9 DEF CheckGeneration, MayApply, Ended, At, ThreadType, durable, TypeOK, Typed, Goto
<1>10. CASE WriteStopped(t)
  BY <1>1, <1>10 DEF WriteStopped, At, ThreadType, durable, TypeOK, Typed, Goto
<1>11. CASE PaperBegin(t)
  BY <1>1, <1>11 DEF PaperBegin, Clear, Superseded, At, ThreadType, durable, TypeOK, Typed, Goto, NoRow
<1>12. CASE Take(t)
  BY <1>1, <1>12 DEF Take, TakesRow, GivesUp, Runs, Superseded, At, ThreadType, durable, TypeOK, Typed, Goto
<1>13. CASE PaperLeave(t)
  BY <1>1, <1>13 DEF PaperLeave, At, ThreadType, durable, TypeOK, Typed
<1>14. CASE PaperStopped(t)
  BY <1>1, <1>14 DEF PaperStopped, At, ThreadType, durable, TypeOK, Typed, Goto
<1>15. CASE Release(t)
  BY <1>1, <1>15 DEF Release, GiveBack, Released, At, ThreadType, durable, TypeOK, Typed, Goto, NoRow
<1>16. CASE Loop(t) \/ PaperLoop(t)
  BY <1>16 DEF Loop, PaperLoop, memory, TypeOK, Typed
<1> QED
  BY <1>2, <1>3, <1>4, <1>5, <1>6, <1>7, <1>8, <1>9, <1>10, <1>11, <1>12, <1>13, <1>14, <1>15, <1>16 DEF Step

\* The calls of the user keep it: a start is let through only when no thread goes on.
LEMMA CallKeeps ==
    ASSUME TypeOK, Calm, Lifecycle, UNCHANGED exposed, StartService \/ StartAgain \/ StopService \/ Commits
    PROVE  Lifecycle'
<1> USE DEF Lifecycle, Halted, Stopping, CurrentGoesOn, OthersEnd, OthersOut, CountsAsRunning, Generations,
            PollKnows, CurrentLives, RetryFree, NoLateWrite, RowHeld, Shown, NoFailure, Trying, Alive, Free
<1> USE ThreadAssumption
<1>1. th \in [Threads -> ThreadType] /\ lock \in RowType /\ gen \in Nat /\ current \in Threads \cup {NoThread}
  BY DEF TypeOK, Typed, RowType
<1>2. ASSUME Call("hastyStart"), ~AlreadyRunning
      PROVE  current = NoThread \/ th[current].pc \in {"dead", "check", "write", "release"}
  BY <1>1, <1>2 DEF Call, Settled, AlreadyRunning, Calm, ThreadType, Pcs
<1>3. CASE StartService
  <2>1. CASE \E t \in Threads : Launch(t, gen + 1) /\ api' = "start" /\ lock' \in RowAtStart /\ UNCHANGED flag
    BY <1>1, <1>2, <1>3, <2>1 DEF StartService, Call, Launch, RowAtStart, NoRow, NoCall, Unborn, ThreadType
  <2>2. CASE flag' = FALSE /\ gen' \in {gen, gen + 1} /\ UNCHANGED <<current, th, api, lock>>
    BY <1>1, <1>2, <1>3, <2>2 DEF StartService, Call, NoCall, ThreadType
  <2> QED
    BY <1>3, <2>1, <2>2 DEF StartService
<1>4. CASE StartAgain
  BY <1>4 DEF StartAgain, memory, durable
<1>5. CASE StopService
  BY <1>1, <1>5 DEF StopService, Call, Settled, RequestShutdown, Calm, durable, NoCall, ThreadType
<1>6. CASE StartCommits
  BY <1>1, <1>6 DEF StartCommits, NoCall
<1>7. CASE StopCommits
  BY <1>1, <1>7 DEF StopCommits, Joined, NoCall
<1>8. CASE RestoreCommits
  BY <1>1, <1>8 DEF RestoreCommits, NoCall
<1> QED
  BY <1>3, <1>4, <1>5, <1>6, <1>7, <1>8 DEF Commits

\* Status requests, time and the API process keep it.
LEMMA ProcessKeeps ==
    ASSUME TypeOK, Calm, Lifecycle, UNCHANGED exposed,
           Poll \/ PollEnds \/ Age \/ Expire \/ Sweep \/ Crash \/ Shutdown \/ Boot
    PROVE  Lifecycle'
<1> USE DEF Lifecycle, Halted, Stopping, CurrentGoesOn, OthersEnd, OthersOut, CountsAsRunning, Generations,
            PollKnows, CurrentLives, RetryFree, NoLateWrite, RowHeld, Shown, NoFailure, Trying, Alive, Free
<1> USE ThreadAssumption
<1>1. th \in [Threads -> ThreadType] /\ lock \in RowType /\ gen \in Nat /\ current \in Threads \cup {NoThread}
  BY DEF TypeOK, Typed, RowType
<1>2. CASE Poll
  BY <1>1, <1>2 DEF Poll, Seen, Calm, durable
<1>3. CASE PollEnds
  BY <1>1, <1>3 DEF PollEnds, Judge, StaleStatus, Dead, NoPoll
<1>4. CASE Age
  BY <1>1, <1>4 DEF Age, memory
<1>5. CASE Expire
  BY <1>1, <1>5 DEF Expire, memory, RowType
<1>6. CASE Sweep
  BY <1>1, <1>6 DEF Sweep, memory, NoRow
<1>7. CASE Crash \/ Shutdown
  BY <1>1, <1>7 DEF Crash, Shutdown, Vanish, Unborn, NoPoll, NoCall
<1>8. CASE Boot
  <2>1. CASE \E t \in Threads : Launch(t, 1) /\ api' = "restore" /\ lock' = NoRow
    BY <1>1, <1>8, <2>1 DEF Boot, Launch, NoRow, NoCall, Unborn, ThreadType
  <2>2. CASE UNCHANGED <<current, gen, th, api>>
    BY <1>1, <1>8, <2>2 DEF Boot, NoRow
  <2> QED
    BY <1>8, <2>1, <2>2 DEF Boot
<1> QED
  BY <1>2, <1>3, <1>4, <1>5, <1>6, <1>7, <1>8

\* While the user does not hasten, it holds in every state.
LEMMA LifecycleStep == TypeOK /\ (Calm => Lifecycle) /\ [Next]_vars => (Calm => Lifecycle)'
<1>1. ASSUME TypeOK, Calm => Lifecycle, Next PROVE (Calm => Lifecycle)'
  <2>1. Calm' <=> Calm
    BY <1>1 DEF Next, Calm
  <2> QED
    BY <1>1, <2>1, StepKeeps, CallKeeps, ProcessKeeps DEF Next, Advance
<1>2. ASSUME TypeOK, Calm => Lifecycle, UNCHANGED vars PROVE (Calm => Lifecycle)'
  BY <1>2 DEF vars, memory, durable, bounds, Calm, Lifecycle, Halted, Stopping, CurrentGoesOn, OthersEnd,
     OthersOut, CountsAsRunning, Generations, PollKnows, CurrentLives, RetryFree, NoLateWrite, RowHeld, Shown,
     NoFailure, Trying, Alive, Free
<1> QED
  BY <1>1, <1>2

\* It holds before the first call.
LEMMA LifecycleInit == Init => Lifecycle
BY DEF Init, Lifecycle, Halted, Stopping, CurrentGoesOn, OthersEnd, OthersOut, CountsAsRunning, Generations,
   PollKnows, CurrentLives, RetryFree, NoLateWrite, RowHeld, Shown, Unborn, NoPoll, NoRow, Trying

\* Whatever the user's calls, status requests, failures, lapses and crashes, and however
\* late the threads before it end: the loop that goes on is the instance the API knows;
\* it holds the row and is shown as running, where nothing takes these away.
THEOREM OwnerCorrect == Spec => []ActiveIsOwner
<1>1. TypeOK /\ (Calm => Lifecycle) => ActiveIsOwner
  <2> SUFFICES ASSUME TypeOK, Calm, Lifecycle, NEW t \in Threads, Active(t)
               PROVE  /\ t = current
                      /\ exposed \cap {"badDatabase", "lease"} = {} => lock.by = t
                      /\ exposed \cap {"initFails", "badDatabase"} = {} /\ api = NoCall => flag
    BY DEF ActiveIsOwner
  <2>1. t = current
    BY DEF Active, Lifecycle, OthersEnd
  <2> QED
    BY <2>1, ThreadAssumption DEF Active, Lifecycle, RowHeld, Shown, NoFailure
<1> QED
  BY <1>1, TypeInit, TypeStep, LifecycleInit, LifecycleStep, PTL DEF Spec

-----------------------------------------------------------------------------
(* What ran is started again *)

Undisturbed == Calm /\ exposed \cap {"initFails", "startFails", "badDatabase", "crashAtBoot"} = {}

\* What the user asked for is in memory while the process is up, and in the tables or the
\* snapshot while it is down.
Restorable ==
    Undisturbed =>
        /\ api \in {"start", "restore"} => current # NoThread
        /\ asked = "start" => /\ api \in {NoCall, "restore"}
                              /\ up => current # NoThread
                              /\ ~up => flag \/ snap

\* Every step keeps it: only a boot clears the flag while the process is down, and it
\* starts what it found.
LEMMA RestorableStep ==
    ASSUME TypeOK, Calm => Lifecycle, Restorable, [Next]_vars
    PROVE  Restorable'
<1> SUFFICES ASSUME Undisturbed, Next PROVE Restorable'
  <2>1. CASE UNCHANGED vars
    BY <2>1 DEF vars, memory, durable, Restorable, Undisturbed, Calm
  <2>2. CASE Next /\ ~Undisturbed
    BY <2>2 DEF Next, Restorable, Undisturbed, Calm
  <2> QED
    BY <2>1, <2>2
<1> USE ThreadAssumption DEF Restorable
<1>1. /\ CurrentLives /\ Halted /\ Shown /\ NoFailure /\ "crashAtBoot" \notin exposed /\ "startFails" \notin exposed
      /\ Undisturbed' <=> Undisturbed
  BY DEF Lifecycle, Undisturbed, NoFailure, Next, Calm
<1>2. CASE StartService \/ StartAgain \/ StopService \/ Commits
  BY <1>1, <1>2 DEF StartService, Launch, Call, StartAgain, AlreadyRunning, StopService, Commits,
     StartCommits, StopCommits, RestoreCommits, NoCall, memory, durable
<1>3. CASE \E t \in Threads : Step(t) \/ Loop(t) \/ PaperLoop(t)
  <2>1. UNCHANGED <<up, current, api, asked, snap>>
    BY <1>3 DEF Step, Loop, PaperLoop, Initialized, InitFails, Acquire, Cleanup, Retry, Leave, Close,
       CheckGeneration, WriteStopped, PaperBegin, Take, PaperLeave, PaperStopped, Release, memory, durable
  <2>2. up
    BY <1>3, <1>1 DEF Step, Loop, PaperLoop, Initialized, InitFails, Acquire, Cleanup, Retry, Leave, Close,
       CheckGeneration, WriteStopped, PaperBegin, Take, PaperLeave, PaperStopped, Release, At
  <2> QED
    BY <2>1, <2>2
<1>4. CASE Poll \/ Age \/ Expire \/ Sweep
  BY <1>4 DEF Poll, Age, Expire, Sweep, memory, durable
<1>5. CASE PollEnds
  <2>1. UNCHANGED current
    BY <1>1, <1>5 DEF PollEnds, Judge, StaleStatus, Dead, Alive, CurrentLives, Trying, Lifecycle, PollKnows, Undisturbed
  <2> QED
    BY <1>5, <2>1 DEF PollEnds
<1>6. CASE Crash \/ Shutdown
  <2>1. api \in {NoCall, "start", "stop"} /\ Vanish
    BY <1>1, <1>6 DEF Crash, Shutdown, TypeOK, Typed, NoCall
  <2>2. asked = "start" => flag
    BY <1>1, <2>1 DEF Shown, Vanish, NoCall
  <2>3. asked = "start" => flag' /\ api' = NoCall /\ ~up'
    BY <2>1, <2>2 DEF Vanish
  <2> QED
    BY <2>1, <2>3 DEF Vanish, NoCall
<1>7. CASE Boot
  BY <1>1, <1>7 DEF Boot, Launch, RestoreTargets, Halted, NoCall
<1> QED
  BY <1>2, <1>3, <1>4, <1>5, <1>6, <1>7 DEF Next, Advance

\* However often the process is shut down or dies, but for a death while it boots: a
\* service that the user had started is started again by the next boot.
THEOREM RestoreCorrect == Spec => RunningIsRestored
<1>1. Init => Restorable
  BY DEF Init, Restorable, NoCall
<1>2. /\ TypeOK /\ (Calm => Lifecycle) /\ Restorable
      /\ [Next]_vars
      => [~up /\ up' /\ asked = "start" /\ Calm
          /\ exposed \cap {"initFails", "startFails", "badDatabase", "crashAtBoot"} = {}
            => current' # NoThread]_vars
  <2> SUFFICES ASSUME TypeOK, Calm => Lifecycle, Restorable, Next, ~up, up', asked = "start", Undisturbed
               PROVE  current' # NoThread
    BY DEF Undisturbed, vars
  <2>1. Boot
    BY DEF Next, Advance, StartService, StartAgain, StopService, Call, Commits, StartCommits, StopCommits,
       RestoreCommits, Step, Loop, PaperLoop, Initialized, InitFails, Acquire, Cleanup, Retry, Leave, Close,
       CheckGeneration, WriteStopped, PaperBegin, Take, PaperLeave, PaperStopped, Release, At, Poll, PollEnds,
       Age, Expire, Sweep, Crash, Shutdown, Vanish
  <2>2. RestoreTargets /\ "startFails" \notin exposed
    BY DEF Restorable, RestoreTargets, Undisturbed
  <2> QED
    BY <2>1, <2>2, ThreadAssumption DEF Boot, Launch
<1>3. Restorable /\ TypeOK /\ (Calm => Lifecycle) /\ [Next]_vars => Restorable'
  BY RestorableStep
<1> QED
  BY <1>1, <1>2, <1>3, TypeInit, TypeStep, LifecycleInit, LifecycleStep, PTL DEF Spec, RunningIsRestored

-----------------------------------------------------------------------------
(* The broker session the service works with: an instance of BrokerSession, whose threads
   and events are named apart from those of the service's life cycle.                    *)

CONSTANTS Auths, NoAuth, Tasks, Requests, MaxFailures, Scenes
VARIABLES auth, svcAuth, shared, call, happened, allowed

S == INSTANCE SessionInvariant
         WITH th <- call, events <- happened, exposed <- allowed, Exposures <- Scenes

\* Its finite sets are those of this module.
LEMMA SessionSets ==
    ASSUME NEW X
    PROVE  /\ S!IsFiniteSet(X) <=> IsFiniteSet(X)
           /\ S!Cardinality(X) = Cardinality(X)
<1>1. S!IsFiniteSet(X) <=> IsFiniteSet(X)
  BY DEF S!IsFiniteSet, IsFiniteSet
<1>2. S!Cardinality(X) = Cardinality(X)
  BY DEF S!Cardinality, Cardinality
<1>. QED  BY <1>1, <1>2

\* The forms of a step of one thread.
LEMMA CallForms ==
    ASSUME S!Typed, NEW t \in S!Threads
    PROVE  /\ \A pc : S!Goto(t, pc) => S!Alone(t) /\ call'[t] = [call[t] EXCEPT !.pc = pc]
           /\ S!Finish(t) => S!Alone(t) /\ call'[t] = S!Idle
           /\ S!Repeat(t) => S!Alone(t)
                  /\ call'[t] = [call[t] EXCEPT !.pc = "client", !.by = "none", !.try = 2]
           /\ \A a : S!HasClient(t, a) => /\ S!Alone(t)
                                          /\ call'[t] = [call[t] EXCEPT !.pc = "send", !.by = "none",
                                                                        !.good = auth[a].tok = "valid"]
           /\ \A a : S!Given(t, a) =>
                /\ S!Alone(t)
                /\ \/ call[t].kind = "sync"
                          /\ call'[t] = [call[t] EXCEPT !.at = a, !.by = "none", !.pc = "connect"]
                   \/ call[t].kind # "sync"
                          /\ call'[t] = [call[t] EXCEPT !.at = a, !.by = "none", !.pc = "client"]
                /\ svcAuth' \in {a, svcAuth}
<1>. USE DEF S!Typed, S!Alone
<1>1. \A pc : S!Goto(t, pc) => S!Alone(t) /\ call'[t] = [call[t] EXCEPT !.pc = pc]
  BY DEF S!Goto
<1>3. S!Finish(t) => S!Alone(t) /\ call'[t] = S!Idle
  BY DEF S!Finish
<1>4. S!Repeat(t) => S!Alone(t) /\ call'[t] = [call[t] EXCEPT !.pc = "client", !.by = "none", !.try = 2]
  BY DEF S!Repeat
<1>5. \A a : S!HasClient(t, a) => /\ S!Alone(t)
                                  /\ call'[t] = [call[t] EXCEPT !.pc = "send", !.by = "none",
                                                                !.good = auth[a].tok = "valid"]
  BY DEF S!HasClient
<1>6. ASSUME NEW a, S!Given(t, a)
      PROVE     /\ S!Alone(t)
                /\ \/ call[t].kind = "sync"
                          /\ call'[t] = [call[t] EXCEPT !.at = a, !.by = "none", !.pc = "connect"]
                   \/ call[t].kind # "sync"
                          /\ call'[t] = [call[t] EXCEPT !.at = a, !.by = "none", !.pc = "client"]
                /\ svcAuth' \in {a, svcAuth}
  BY <1>6 DEF S!Given
<1>. QED  BY <1>1, <1>3, <1>4, <1>5, <1>6

\* An object stays one when it is logged out or a failure is counted.
LEMMA ObjectRecords ==
    ASSUME S!Typed
    PROVE  \A a \in Auths : /\ auth[a] \in S!AuthRecord
                            /\ S!LoggedOut(a) \in S!AuthRecord /\ S!LoggedOut(a).fails = auth[a].fails
                            /\ S!Failed(a) \in S!AuthRecord /\ S!Failed(a).fails = auth[a].fails + 1
                            /\ auth[a].fails \in Nat
<1>. TAKE a \in Auths
<1>1. auth[a] \in S!AuthRecord
  BY DEF S!Typed, S!FieldsOK
<1>2. S!LoggedOut(a) \in S!AuthRecord /\ S!LoggedOut(a).fails = auth[a].fails
  BY <1>1 DEF S!AuthRecord, S!LoggedOut
<1>3. S!Failed(a) \in S!AuthRecord /\ S!Failed(a).fails = auth[a].fails + 1
  BY <1>1 DEF S!AuthRecord, S!Failed
<1>4. auth[a].fails \in Nat
  BY <1>1 DEF S!AuthRecord
<1>. QED  BY <1>1, <1>2, <1>3, <1>4

\* A step that changes one object.
LEMMA ObjectChange ==
    ASSUME S!Typed, NEW a, NEW r, a \in Auths => r \in S!AuthRecord, auth' = [auth EXCEPT ![a] = r]
    PROVE  auth' \in [Auths -> S!AuthRecord] /\ \A b \in Auths : auth'[b] = IF b = a THEN r ELSE auth[b]
  BY DEF S!Typed, S!FieldsOK

\* A step without a failure that admits nobody keeps the count.
LEMMA CountsKept ==
    ASSUME S!Typed, S!FieldsOK', S!Kept, NEW t \in S!Threads,
           t \in Tasks => \A a \in Auths : S!Counted(call'[t], a) => S!Counted(call[t], a)
    PROVE  S!Counts(t)
  BY DEF S!Counts, S!Kept

\* A change of one object that adds no failure.
LEMMA FailuresKept ==
    ASSUME S!Typed, NEW a, NEW r, a \in Auths => r \in S!AuthRecord /\ r.fails <= auth[a].fails,
           auth' = [auth EXCEPT ![a] = r]
    PROVE  auth' \in [Auths -> S!AuthRecord] /\ S!Kept
<1>1. /\ auth' \in [Auths -> S!AuthRecord]
      /\ \A b \in Auths : auth'[b] = IF b = a THEN r ELSE auth[b]
  BY ObjectChange
<1>. QED  BY <1>1, ObjectRecords DEF S!Kept

\* A step that leaves the objects alone.
LEMMA ObjectsSame == S!Typed /\ UNCHANGED auth => S!Kept /\ auth' \in [Auths -> S!AuthRecord]
  BY DEF S!Typed, S!FieldsOK, S!Kept, S!AuthRecord

\* A call begins.
LEMMA BeginBehaves ==
    ASSUME S!Typed, S!SessionAssumption, NEW t \in S!Threads,
           \/ t \in Tasks /\ S!BeginTask(t)
           \/ t \in Requests /\ S!BeginRequest(t)
    PROVE S!Behaves(t)
<1>0. call[t] = S!Idle /\ NoAuth \notin Auths /\ Tasks \cap Requests = {}
  BY DEF S!Typed, S!Fits, S!BeginTask, S!BeginRequest, S!At, S!SessionAssumption
<1>1. S!Alone(t) /\ S!FieldsOK' /\ UNCHANGED auth
  BY DEF S!Alone, S!BeginTask, S!BeginRequest, S!Typed, S!FieldsOK, S!Happens, S!EventKinds
<1>2. \/ t \in Tasks /\ call'[t].kind = "task" /\ call'[t].pc \in {"client", "session"}
             /\ call'[t].at \in Auths \cup {NoAuth}
      \/ t \in Requests /\ call'[t].pc = "session" /\ call'[t].kind \in {"page", "sync"}
             /\ call'[t].at = NoAuth
  BY <1>0 DEF S!BeginTask, S!BeginRequest, S!Typed, S!FieldsOK, S!Idle
<1>3. /\ call'[t] = [S!Idle EXCEPT !.pc = call'[t].pc, !.at = call'[t].at, !.kind = call'[t].kind]
      /\ call'[t].by = "none" /\ call'[t].try = 1
  BY <1>0 DEF S!BeginTask, S!BeginRequest, S!Typed, S!Idle
<1>4. S!Fits(t, call'[t]) /\ ~S!InReauth(call'[t])
  BY <1>0, <1>2, <1>3 DEF S!Fits, S!Idle, S!ThreadType, S!InReauth
<1>5. S!Counts(t)
  BY <1>1, <1>3, <1>4, CountsKept, ObjectsSame DEF S!Counted
<1>. QED  BY <1>1, <1>4, <1>5 DEF S!Behaves

\* A thread gets its object.
LEMMA SessionBehaves ==
    ASSUME S!Typed, S!SessionAssumption, NEW t \in S!Threads, S!Reuse(t) \/ S!Create(t) \/ S!Connect(t)
    PROVE  S!Behaves(t)
<1>0. /\ call[t] \in S!ThreadType /\ S!Fits(t, call[t]) /\ NoAuth \notin Auths
      /\ call[t].pc = "session" => call[t].try = 1
  BY DEF S!Typed, S!Fits, S!SessionAssumption
<1>1. CASE S!Reuse(t)
  <2>1. S!Given(t, shared) /\ UNCHANGED <<auth, shared, happened>> /\ shared \in Auths
    BY <1>1 DEF S!Reuse, S!Typed, S!FieldsOK
  <2>2. /\ S!Alone(t) /\ svcAuth' \in {shared, svcAuth}
        /\ \E pc \in {"connect", "client"} :
               call'[t] = [call[t] EXCEPT !.at = shared, !.by = "none", !.pc = pc]
    BY <2>1, CallForms
  <2>3. call[t].try = 1 /\ call[t].pc = "session"
    BY <1>0, <1>1 DEF S!Reuse, S!At
  <2>4. S!Fits(t, call'[t]) /\ call'[t].try = 1 /\ ~S!InReauth(call'[t])
    BY <1>0, <2>1, <2>2, <2>3 DEF S!Fits, S!ThreadType, S!InReauth
  <2>5. S!FieldsOK'
    BY <2>1, <2>2 DEF S!Typed, S!FieldsOK
  <2>6. S!Counts(t)
    BY <2>1, <2>4, <2>5, ObjectsSame, CountsKept DEF S!Counted
  <2>. QED  BY <2>2, <2>4, <2>5, <2>6 DEF S!Behaves
<1>2. CASE S!Create(t)
  <2>. DEFINE a == CHOOSE x \in S!Spare : TRUE
              r == [S!LoggedOut(a) EXCEPT !.aged = FALSE]
  <2>1. /\ a \in Auths
        /\ auth' = [auth EXCEPT ![a] = r]
        /\ call' = [call EXCEPT ![t].pc = "login", ![t].by = "new", ![t].at = a]
        /\ shared' \in {shared, NoAuth} /\ UNCHANGED <<svcAuth, happened>>
    BY <1>2 DEF S!Create, S!Spare
  <2>. HIDE DEF a
  <2>2. r \in S!AuthRecord /\ r.fails <= auth[a].fails
    <3>1. S!LoggedOut(a) \in S!AuthRecord /\ S!LoggedOut(a).fails = auth[a].fails
              /\ auth[a].fails \in Nat
      BY <2>1, ObjectRecords
    <3>2. \A x \in S!AuthRecord : /\ [x EXCEPT !.aged = FALSE] \in S!AuthRecord
                                  /\ [x EXCEPT !.aged = FALSE].fails = x.fails
      BY DEF S!AuthRecord
    <3>. QED  BY <3>1, <3>2
  <2>. HIDE DEF r
  <2>3. auth' \in [Auths -> S!AuthRecord] /\ S!Kept
    BY <2>1, <2>2, FailuresKept, ObjectRecords
  <2>4. S!Alone(t) /\ call'[t] = [call[t] EXCEPT !.pc = "login", !.by = "new", !.at = a]
    BY <2>1 DEF S!Typed, S!Alone
  <2>5. call[t].try = 1 /\ call[t].pc = "session"
    BY <1>0, <1>2 DEF S!Create, S!At
  <2>9. /\ call'[t] \in S!ThreadType /\ call'[t].pc = "login" /\ call'[t].by = "new" /\ call'[t].try = 1
        /\ call'[t].kind = call[t].kind
    <3>1. call[t] \in S!ThreadType /\ a \in Auths
              /\ call'[t] = [call[t] EXCEPT !.pc = "login", !.by = "new", !.at = a]
      BY <1>0, <2>1, <2>4
    <3>2. /\ call'[t] \in S!ThreadType /\ call'[t].pc = "login" /\ call'[t].by = "new"
          /\ call'[t].try = call[t].try /\ call'[t].kind = call[t].kind
      BY <3>1 DEF S!ThreadType
    <3>. QED  BY <2>5, <3>2
  <2>6. S!Fits(t, call'[t]) /\ call'[t].try = 1 /\ ~S!InReauth(call'[t])
    BY <1>0, <2>5, <2>9 DEF S!Fits, S!InReauth
  <2>7. S!FieldsOK'
    BY <2>1, <2>3 DEF S!Typed, S!FieldsOK
  <2>8. S!Counts(t)
    BY <2>3, <2>6, <2>7, CountsKept DEF S!Counted
  <2>. QED  BY <2>4, <2>6, <2>7, <2>8 DEF S!Behaves
<1>3. CASE S!Connect(t)
  <2>1. /\ S!Alone(t) /\ call'[t] = [call[t] EXCEPT !.pc = "login", !.by = "connect"]
        /\ UNCHANGED <<auth, svcAuth, shared, happened>> /\ call[t].pc = "connect"
    BY <1>3 DEF S!Connect, S!At, S!Login, S!Typed, S!Alone
  <2>2. S!Fits(t, call'[t]) /\ \A a : S!Counted(call'[t], a) => S!Counted(call[t], a)
    BY <1>0, <2>1 DEF S!Fits, S!ThreadType, S!InReauth, S!Counted
  <2>3. S!FieldsOK'
    BY <2>1 DEF S!Typed, S!FieldsOK
  <2>. QED  BY <2>1, <2>2, <2>3, ObjectsSame, CountsKept DEF S!Behaves
<1>. QED  BY <1>1, <1>2, <1>3

\* A thread gets its client.
LEMMA ClientBehaves ==
    ASSUME S!Typed, S!SessionAssumption, NEW t \in S!Threads, S!GetClient(t) \/ S!GetRestClient(t)
    PROVE  S!Behaves(t)
<1>0. /\ call[t] \in S!ThreadType /\ S!Fits(t, call[t]) /\ S!Idle \in S!ThreadType
      /\ call[t].pc = "client" /\ UNCHANGED <<svcAuth, happened>>
      /\ NoAuth \notin Auths
  BY DEF S!Typed, S!GetClient, S!GetRestClient, S!At, S!Idle, S!ThreadType, S!SessionAssumption
<1>1. CASE UNCHANGED <<auth, shared>> /\ \E a : S!HasClient(t, a)
  <2>1. PICK g \in BOOLEAN : call'[t] = [call[t] EXCEPT !.pc = "send", !.by = "none", !.good = g]
    BY <1>1, CallForms
  <2>2. S!Alone(t) /\ S!FieldsOK'
    BY <1>0, <1>1, CallForms DEF S!Typed, S!FieldsOK
  <2>3. S!Fits(t, call'[t]) /\ \A b : S!Counted(call'[t], b) => S!Counted(call[t], b)
    BY <1>0, <2>1 DEF S!Fits, S!ThreadType, S!InReauth, S!Counted
  <2>. QED  BY <1>1, <2>2, <2>3, ObjectsSame, CountsKept DEF S!Behaves
<1>2. CASE UNCHANGED <<auth, shared>> /\ S!Finish(t)
  <2>1. call'[t] = S!Idle /\ S!Alone(t) /\ S!FieldsOK'
    BY <1>0, <1>2, CallForms DEF S!Typed, S!FieldsOK
  <2>2. S!Fits(t, call'[t]) /\ \A b \in Auths : ~S!Counted(call'[t], b)
    BY <1>0, <2>1 DEF S!Fits, S!Idle, S!InReauth, S!Counted
  <2>. QED  BY <1>2, <2>1, <2>2, ObjectsSame, CountsKept DEF S!Behaves
<1>3. CASE UNCHANGED <<auth, shared>> /\ S!Login(t, "login", "client")
  <2>1. call'[t] = [call[t] EXCEPT !.pc = "login", !.by = "client"] /\ S!Alone(t) /\ S!FieldsOK'
    BY <1>0, <1>3 DEF S!Login, S!Alone, S!Typed, S!FieldsOK
  <2>2. S!Fits(t, call'[t]) /\ \A b : S!Counted(call'[t], b) => S!Counted(call[t], b)
    BY <1>0, <2>1 DEF S!Fits, S!ThreadType, S!InReauth, S!Counted
  <2>. QED  BY <1>3, <2>1, <2>2, ObjectsSame, CountsKept DEF S!Behaves
<1>4. CASE call[t].kind = "page" /\ call[t].try = 1 /\ S!ClearAndRetry(t)
  <2>1. call'[t] = [call[t] EXCEPT !.pc = "session", !.at = NoAuth, !.kind = "again"] /\ S!Alone(t)
    BY <1>4 DEF S!ClearAndRetry, S!Typed, S!Alone
  <2>2. auth' \in [Auths -> S!AuthRecord] /\ S!Kept
    <3>1. CASE shared # NoAuth
      <4>1. shared \in Auths /\ auth' = [auth EXCEPT ![shared] = S!LoggedOut(shared)]
        BY <1>4, <3>1 DEF S!ClearAndRetry, S!Typed, S!FieldsOK
      <4>2. S!LoggedOut(shared) \in S!AuthRecord /\ S!LoggedOut(shared).fails <= auth[shared].fails
        BY <4>1, ObjectRecords
      <4>. QED  BY <4>1, <4>2, FailuresKept
    <3>2. CASE shared = NoAuth
      BY <1>4, <3>2, ObjectsSame DEF S!ClearAndRetry
    <3>. QED  BY <3>1, <3>2
  <2>3. S!FieldsOK'
    BY <1>0, <1>4, <2>2 DEF S!ClearAndRetry, S!Typed, S!FieldsOK
  <2>5. S!Fits(t, call'[t]) /\ \A b \in Auths : ~S!Counted(call'[t], b)
    <3>1. /\ call'[t] \in S!ThreadType /\ call'[t].pc = "session" /\ call'[t].by = call[t].by
          /\ call'[t].at = NoAuth /\ call'[t].try = 1 /\ call'[t].kind = "again"
      <4>1. /\ call[t] \in S!ThreadType
            /\ call'[t] = [call[t] EXCEPT !.pc = "session", !.at = NoAuth, !.kind = "again"]
        BY <1>0, <2>1
      <4>2. /\ call'[t] \in S!ThreadType /\ call'[t].pc = "session" /\ call'[t].by = call[t].by
            /\ call'[t].at = NoAuth /\ call'[t].try = call[t].try /\ call'[t].kind = "again"
        BY <4>1 DEF S!ThreadType
      <4>. QED  BY <1>4, <4>2
    <3>. QED  BY <1>0, <1>4, <3>1 DEF S!Fits, S!InReauth, S!Counted
  <2>. QED  BY <2>1, <2>2, <2>3, <2>5, CountsKept DEF S!Behaves
<1>. QED  BY <1>1, <1>2, <1>3, <1>4 DEF S!GetClient, S!GetRestClient, S!NoClient

\* The answer of a call: a thread is admitted to a re-login below the limit, and a
\* second refusal is the failure of one that was admitted.
LEMMA ReplyBehaves ==
    ASSUME S!Typed, S!SessionAssumption, NEW t \in S!Threads, S!Answered(t) \/ S!AuthError(t)
    PROVE  S!Behaves(t)
<1>0. /\ call[t] \in S!ThreadType /\ S!Fits(t, call[t]) /\ S!Idle \in S!ThreadType
      /\ call[t].pc = "send" /\ UNCHANGED <<svcAuth, shared, happened>>
      /\ t \in Tasks \cup Requests /\ NoAuth \notin Auths
  BY DEF S!Typed, S!Answered, S!AuthError, S!At, S!Idle, S!ThreadType, S!SessionAssumption,
     S!Threads
<1>1. ASSUME S!Finish(t), auth' \in [Auths -> S!AuthRecord],
             \/ S!Kept
             \/ \E a \in Auths : /\ t \in Tasks /\ S!Counted(call[t], a)
                    /\ auth'[a].fails = auth[a].fails + 1
                                 /\ \A b \in Auths \ {a} : auth'[b].fails <= auth[b].fails
      PROVE  S!Behaves(t)
  <2>1. call'[t] = S!Idle /\ S!Alone(t) /\ S!FieldsOK'
    BY <1>0, <1>1, CallForms DEF S!Typed, S!FieldsOK
  <2>2. S!Fits(t, call'[t]) /\ \A b \in Auths : ~S!Counted(call'[t], b)
    BY <1>0, <2>1 DEF S!Fits, S!Idle, S!InReauth, S!Counted
  <2>3. S!Counts(t)
    BY <1>1, <2>2 DEF S!Counts, S!Kept
  <2>. QED  BY <2>1, <2>2, <2>3 DEF S!Behaves
<1>2. ASSUME NEW a, auth' = [auth EXCEPT ![a].fails = 0]
      PROVE  auth' \in [Auths -> S!AuthRecord] /\ S!Kept
  <2>1. a \in Auths => /\ [auth[a] EXCEPT !.fails = 0] \in S!AuthRecord
                       /\ [auth[a] EXCEPT !.fails = 0].fails <= auth[a].fails
    <3>1. \A x \in S!AuthRecord : /\ [x EXCEPT !.fails = 0] \in S!AuthRecord
                                  /\ [x EXCEPT !.fails = 0].fails <= x.fails
      BY DEF S!AuthRecord
    <3>. QED  BY <3>1, ObjectRecords
  <2>. QED  BY <1>2, <2>1, FailuresKept
<1>3. CASE S!Answered(t)
  <2>1. S!Finish(t) /\ (UNCHANGED auth \/ auth' = [auth EXCEPT ![call[t].at].fails = 0])
    BY <1>3 DEF S!Answered
  <2>. QED  BY <1>1, <1>2, <2>1, ObjectsSame
<1>4. CASE S!AuthError(t)
  <2>. DEFINE a == call[t].at
  <2>1. CASE call[t].try = 2 /\ S!Finish(t) /\ UNCHANGED auth
    BY <1>1, <2>1, ObjectsSame
  <2>2. CASE call[t].try = 2 /\ S!Finish(t) /\ S!OfService(t)
                 /\ auth' = [auth EXCEPT ![a] = S!Failed(a)]
    <3>1. a \in Auths => S!Failed(a) \in S!AuthRecord /\ S!Failed(a).fails = auth[a].fails + 1
      BY ObjectRecords
    <3>2. /\ auth' \in [Auths -> S!AuthRecord]
          /\ \A b \in Auths : auth'[b] = IF b = a THEN S!Failed(a) ELSE auth[b]
      BY <2>2, <3>1, ObjectChange
    <3>3. t \in Tasks
      BY <1>0, <2>2 DEF S!OfService, S!Fits
    <3>4. CASE a \in Auths
      <4>1. S!Counted(call[t], a)
        BY <2>2 DEF S!Counted
      <4>2. auth'[a].fails = auth[a].fails + 1 /\ \A b \in Auths \ {a} : auth'[b].fails <= auth[b].fails
        BY <3>1, <3>2, <3>4, ObjectRecords
      <4>. QED  BY <1>1, <2>2, <3>2, <3>3, <3>4, <4>1, <4>2
    <3>5. CASE a \notin Auths
      <4>1. S!Kept
        BY <3>2, <3>5, ObjectRecords DEF S!Kept
      <4>. QED  BY <1>1, <2>2, <3>2, <4>1
    <3>. QED  BY <3>4, <3>5
  <2>3. CASE UNCHANGED auth /\ S!OfService(t) /\ ~S!Blocked(a) /\ S!Goto(t, "reauth")
    <3>1. call'[t] = [call[t] EXCEPT !.pc = "reauth"] /\ S!Alone(t) /\ S!FieldsOK'
      BY <1>0, <2>3, CallForms DEF S!Typed, S!FieldsOK
    <3>2. t \in Tasks /\ t \notin Requests
      BY <1>0, <2>3 DEF S!OfService, S!Fits, S!SessionAssumption
    <3>3. S!Fits(t, call'[t]) /\ call'[t].at = a
      BY <1>0, <3>1, <3>2 DEF S!Fits, S!ThreadType
    <3>4. S!Counts(t)
      <4>. SUFFICES ASSUME NEW b \in Auths, S!Counted(call'[t], b)
                    PROVE  auth'[b].fails = auth[b].fails /\ auth[b].fails < MaxFailures
        BY <2>3, ObjectRecords DEF S!Counts
      <4>1. b = a
        BY <3>3 DEF S!Counted
      <4>2. auth[b].fails \in Nat /\ MaxFailures \in Nat
        BY ObjectRecords DEF S!SessionAssumption
      <4>. QED  BY <2>3, <4>1, <4>2 DEF S!Blocked
    <3>. QED  BY <3>1, <3>3, <3>4 DEF S!Behaves
  <2>4. CASE UNCHANGED auth /\ S!Finish(t)
    BY <1>1, <2>4, ObjectsSame
  <2>5. CASE /\ UNCHANGED auth
             /\ \/ call[t].kind = "task" /\ S!Login(t, "force", "direct")
                \/ ~S!OfService(t) /\ S!Login(t, "force", "adapter")
    <3>1. PICK by \in {"direct", "adapter"} :
             /\ call'[t] = [call[t] EXCEPT !.pc = "force", !.by = by] /\ S!Alone(t)
             /\ by = "direct" => call[t].kind = "task"
             /\ by = "adapter" => call[t].kind \notin {"task", "second"}
      BY <2>5 DEF S!Login, S!Typed, S!Alone, S!OfService
    <3>2. S!FieldsOK'
      BY <1>0, <2>5 DEF S!Typed, S!FieldsOK
    <3>3. S!Fits(t, call'[t]) /\ \A b : S!Counted(call'[t], b) => S!Counted(call[t], b)
      BY <1>0, <3>1 DEF S!Fits, S!ThreadType, S!InReauth, S!Counted
    <3>. QED  BY <2>5, <3>1, <3>2, <3>3, ObjectsSame, CountsKept DEF S!Behaves
  <2>. QED  BY <1>4, <2>1, <2>2, <2>3, <2>4, <2>5 DEF S!AuthError
<1>. QED  BY <1>3, <1>4

\* A login is done: the call is repeated, by a thread that was admitted.
LEMMA LoginDoneBehaves ==
    ASSUME S!Typed, S!SessionAssumption, NEW t \in S!Threads, S!LoginDone(t)
    PROVE  S!Behaves(t)
<1>. DEFINE a == call[t].at
            r == [auth[a] EXCEPT !.in = TRUE, !.aged = FALSE, !.event = @ \/ call[t].by = "reauth"]
<1>0. /\ call[t] \in S!ThreadType /\ S!Fits(t, call[t]) /\ S!Idle \in S!ThreadType
      /\ call[t].pc = "logged" /\ a \in Auths \cup {NoAuth} /\ UNCHANGED happened
      /\ t \in Tasks \cup Requests /\ NoAuth \notin Auths
      /\ Tasks \cap Requests = {}
  BY DEF S!Typed, S!LoginDone, S!At, S!Idle, S!ThreadType, S!SessionAssumption, S!Threads
<1>1. a \in Auths => r \in S!AuthRecord /\ r.fails <= auth[a].fails
  <2>1. \A x \in S!AuthRecord, e \in BOOLEAN :
           /\ [x EXCEPT !.in = TRUE, !.aged = FALSE, !.event = @ \/ e] \in S!AuthRecord
           /\ [x EXCEPT !.in = TRUE, !.aged = FALSE, !.event = @ \/ e].fails <= x.fails
    <3>. TAKE x \in S!AuthRecord, e \in BOOLEAN
    <3>1. (x.event \/ e) \in BOOLEAN
      OBVIOUS
    <3>2. ASSUME NEW f \in BOOLEAN
          PROVE  /\ [x EXCEPT !.in = TRUE, !.aged = FALSE, !.event = f] \in S!AuthRecord
                 /\ [x EXCEPT !.in = TRUE, !.aged = FALSE, !.event = f].fails <= x.fails
      <4>1. [x EXCEPT !.in = TRUE, !.aged = FALSE, !.event = f] \in S!AuthRecord
        BY DEF S!AuthRecord
      <4>2. [x EXCEPT !.in = TRUE, !.aged = FALSE, !.event = f].fails = x.fails /\ x.fails \in Nat
        BY DEF S!AuthRecord
      <4>. QED  BY <4>1, <4>2
    <3>3. [x EXCEPT !.in = TRUE, !.aged = FALSE, !.event = @ \/ e]
            = [x EXCEPT !.in = TRUE, !.aged = FALSE, !.event = x.event \/ e]
      BY Zenon
    <3>. QED  BY <3>1, <3>2, <3>3
  <2>. QED  BY <2>1, ObjectRecords
<1>2. auth' = [auth EXCEPT ![a] = r]
  BY DEF S!LoginDone
<1>. HIDE DEF r
<1>3. auth' \in [Auths -> S!AuthRecord] /\ S!Kept
  BY <1>1, <1>2, FailuresKept
<1>4. SUFFICES /\ S!Alone(t) /\ S!Fits(t, call'[t])
               /\ svcAuth' \in Auths \cup {NoAuth} /\ shared' \in Auths \cup {NoAuth}
               /\ t \in Tasks => \A b \in Auths : S!Counted(call'[t], b) => S!Counted(call[t], b)
  <2>1. S!FieldsOK'
    BY <1>0, <1>3, <1>4 DEF S!Typed, S!FieldsOK
  <2>. QED  BY <1>3, <1>4, <2>1, CountsKept DEF S!Behaves
<1>5. CASE call[t].by = "new" /\ shared' = a /\ S!Given(t, a)
  <2>1. /\ S!Alone(t) /\ svcAuth' \in {a, svcAuth}
        /\ \E pc \in {"connect", "client"} :
               call'[t] = [call[t] EXCEPT !.at = a, !.by = "none", !.pc = pc]
    BY <1>5, CallForms
  <2>2. S!Fits(t, call'[t]) /\ \A b \in Auths : S!Counted(call'[t], b) => S!Counted(call[t], b)
    BY <1>0, <2>1 DEF S!Fits, S!ThreadType, S!InReauth, S!Counted
  <2>. QED  BY <1>0, <1>5, <2>1, <2>2 DEF S!Typed, S!FieldsOK
<1>6. CASE UNCHANGED <<svcAuth, shared>> /\ (S!Finish(t) \/ \E b : S!HasClient(t, b))
  <2>1. CASE S!Finish(t)
    <3>1. call'[t] = S!Idle /\ S!Alone(t)
      BY <2>1, CallForms
    <3>2. S!Fits(t, call'[t]) /\ \A b \in Auths : ~S!Counted(call'[t], b)
      BY <1>0, <3>1 DEF S!Fits, S!Idle, S!InReauth, S!Counted
    <3>. QED  BY <1>6, <3>1, <3>2 DEF S!Typed, S!FieldsOK
  <2>2. CASE \E b : S!HasClient(t, b)
    <3>1. S!Alone(t) /\ \E g \in BOOLEAN :
              call'[t] = [call[t] EXCEPT !.pc = "send", !.by = "none", !.good = g]
      BY <2>2, CallForms
    <3>2. S!Fits(t, call'[t]) /\ \A b \in Auths : S!Counted(call'[t], b) => S!Counted(call[t], b)
      BY <1>0, <3>1 DEF S!Fits, S!ThreadType, S!InReauth, S!Counted
    <3>. QED  BY <1>6, <3>1, <3>2 DEF S!Typed, S!FieldsOK
  <2>. QED  BY <1>6, <2>1, <2>2
<1>7. CASE UNCHANGED <<svcAuth, shared>> /\ S!Login(t, "client", "none") /\ call[t].by = "connect"
  <2>1. S!Alone(t) /\ call'[t] = [call[t] EXCEPT !.pc = "client", !.by = "none"]
    BY <1>7 DEF S!Login, S!Typed, S!Alone
  <2>2. S!Fits(t, call'[t]) /\ \A b \in Auths : S!Counted(call'[t], b) => S!Counted(call[t], b)
    BY <1>0, <2>1 DEF S!Fits, S!ThreadType, S!InReauth, S!Counted
  <2>. QED  BY <1>7, <2>1, <2>2 DEF S!Typed, S!FieldsOK
<1>8. CASE UNCHANGED <<svcAuth, shared>> /\ S!Repeat(t) /\ call[t].by \in {"reauth", "adapter"}
  <2>1. S!Alone(t) /\ call'[t] = [call[t] EXCEPT !.pc = "client", !.by = "none", !.try = 2]
    BY <1>8, CallForms
  <2>2. S!Fits(t, call'[t])
    BY <1>0, <2>1 DEF S!Fits, S!ThreadType, S!InReauth
  <2>3. ASSUME t \in Tasks, NEW b \in Auths, S!Counted(call'[t], b) PROVE S!Counted(call[t], b)
    BY <1>0, <1>8, <2>1, <2>3 DEF S!Fits, S!InReauth, S!Counted, S!ThreadType
  <2>. QED  BY <1>8, <2>1, <2>2, <2>3 DEF S!Typed, S!FieldsOK
<1>9. CASE /\ UNCHANGED <<svcAuth, shared>> /\ call[t].by = "direct"
           /\ call' = [call EXCEPT ![t].pc = "client", ![t].by = "none", ![t].kind = "second"]
  <2>1. S!Alone(t) /\ call'[t] = [call[t] EXCEPT !.pc = "client", !.by = "none", !.kind = "second"]
    BY <1>9 DEF S!Typed, S!Alone
  <2>2. t \notin Requests
    BY <1>0, <1>9 DEF S!Fits
  <2>3. S!Fits(t, call'[t]) /\ \A b \in Auths : S!Counted(call'[t], b) => S!Counted(call[t], b)
    BY <1>0, <2>1, <2>2 DEF S!Fits, S!ThreadType, S!InReauth, S!Counted
  <2>. QED  BY <1>9, <2>1, <2>3 DEF S!Typed, S!FieldsOK
<1>. QED  BY <1>5, <1>6, <1>7, <1>8, <1>9 DEF S!LoginDone

\* A login fails: a failure where the thread had been admitted.
LEMMA LoginFailsBehaves ==
    ASSUME S!Typed, S!SessionAssumption, NEW t \in S!Threads, S!LoginFails(t)
    PROVE  S!Behaves(t)
<1>. DEFINE a == call[t].at
            r == S!AfterFailure(t)
<1>0. /\ call[t] \in S!ThreadType /\ S!Fits(t, call[t]) /\ S!Idle \in S!ThreadType
      /\ call[t].pc = "login" /\ a \in Auths \cup {NoAuth} /\ UNCHANGED <<svcAuth, shared>>
      /\ t \in Tasks \cup Requests /\ NoAuth \notin Auths
      /\ auth' = [auth EXCEPT ![a] = r] /\ happened' \subseteq S!EventKinds
  BY DEF S!Typed, S!LoginFails, S!At, S!Idle, S!ThreadType, S!SessionAssumption, S!Threads,
     S!Happens,
         S!FieldsOK, S!EventKinds
<1>1. CASE call[t].by = "reauth"
  <2>1. a \in Auths => r \in S!AuthRecord /\ r.fails = auth[a].fails + 1
    <3>1. \A x, y \in S!AuthRecord : /\ [x EXCEPT !.fails = y.fails] \in S!AuthRecord
                                     /\ [x EXCEPT !.fails = y.fails].fails = y.fails
      BY DEF S!AuthRecord
    <3>2. r = [S!LoggedOut(a) EXCEPT !.fails = S!Failed(a).fails]
      BY <1>1 DEF S!AfterFailure
    <3>. QED  BY <3>1, <3>2, ObjectRecords
  <2>. HIDE DEF r
  <2>2. /\ auth' \in [Auths -> S!AuthRecord]
        /\ \A b \in Auths : auth'[b] = IF b = a THEN r ELSE auth[b]
    BY <1>0, <2>1, ObjectChange
  <2>3. S!Finish(t)
    BY <1>1 DEF S!LoginFails
  <2>4. call'[t] = S!Idle /\ S!Alone(t) /\ S!FieldsOK'
    BY <1>0, <2>2, <2>3, CallForms DEF S!Typed, S!FieldsOK
  <2>5. S!Fits(t, call'[t]) /\ \A b \in Auths : ~S!Counted(call'[t], b)
    BY <1>0, <2>4 DEF S!Fits, S!Idle, S!InReauth, S!Counted
  <2>6. t \in Tasks /\ (a \in Auths => S!Counted(call[t], a))
    BY <1>0, <1>1 DEF S!Counted, S!InReauth, S!Fits
  <2>7. S!Counts(t)
    BY <2>1, <2>2, <2>5, <2>6, ObjectRecords DEF S!Counts
  <2>. QED  BY <2>4, <2>5, <2>7 DEF S!Behaves
<1>2. CASE call[t].by # "reauth"
  <2>1. a \in Auths => r \in S!AuthRecord /\ r.fails <= auth[a].fails
    BY <1>2, ObjectRecords DEF S!AfterFailure
  <2>. HIDE DEF r
  <2>2. auth' \in [Auths -> S!AuthRecord] /\ S!Kept
    BY <1>0, <2>1, FailuresKept
  <2>3. S!FieldsOK'
    BY <1>0, <2>2 DEF S!Typed, S!FieldsOK
  <2>4. CASE S!Finish(t)
    <3>1. call'[t] = S!Idle /\ S!Alone(t)
      BY <2>4, CallForms
    <3>2. S!Fits(t, call'[t]) /\ \A b \in Auths : ~S!Counted(call'[t], b)
      BY <1>0, <3>1 DEF S!Fits, S!Idle, S!InReauth, S!Counted
    <3>. QED  BY <2>2, <2>3, <3>1, <3>2, CountsKept DEF S!Behaves
  <2>5. CASE S!Login(t, "connect", "none")
    <3>1. S!Alone(t) /\ call'[t] = [call[t] EXCEPT !.pc = "connect", !.by = "none"]
      BY <2>5 DEF S!Login, S!Typed, S!Alone
    <3>2. S!Fits(t, call'[t]) /\ \A b \in Auths : S!Counted(call'[t], b) => S!Counted(call[t], b)
      BY <1>0, <3>1 DEF S!Fits, S!ThreadType, S!InReauth, S!Counted
    <3>. QED  BY <2>2, <2>3, <3>1, <3>2, CountsKept DEF S!Behaves
  <2>. QED  BY <2>4, <2>5 DEF S!LoginFails
<1>. QED  BY <1>1, <1>2

\* The wait for the login of another thread, which may end with a failure.
LEMMA ReauthBehaves ==
    ASSUME S!Typed, S!SessionAssumption, NEW t \in S!Threads,
           S!Reauth(t) \/ S!ClearEvent(t) \/ S!Await(t) \/ S!AwaitLock(t) \/ S!Force(t)
    PROVE  S!Behaves(t)
<1>0. /\ call[t] \in S!ThreadType /\ S!Fits(t, call[t]) /\ S!Idle \in S!ThreadType
      /\ UNCHANGED <<svcAuth, shared, happened>>
      /\ t \in Tasks \cup Requests /\ NoAuth \notin Auths
      /\ (S!Force(t) /\ call[t].pc = "force") \/ call[t].pc \in {"reauth", "clear", "await", "await2"}
  BY DEF S!Typed, S!Reauth, S!ClearEvent, S!Await, S!AwaitLock, S!Force, S!At, S!Idle, S!ThreadType,
     S!SessionAssumption,
         S!SessionAssumption, S!Threads
<1>1. S!Force(t) \/ (t \in Tasks /\ t \notin Requests /\ S!InReauth(call[t]))
  BY <1>0 DEF S!Fits, S!InReauth
<1>2. CASE /\ auth' \in [Auths -> S!AuthRecord] /\ S!Kept /\ S!Alone(t)
           /\ \/ S!Force(t) /\ call'[t] = [call[t] EXCEPT !.pc = "login"]
              \/ ~S!Force(t) /\ call'[t] = [call[t] EXCEPT !.pc = "await"]
              \/ ~S!Force(t) /\ call'[t] = [call[t] EXCEPT !.pc = "await2"]
              \/ ~S!Force(t) /\ call'[t] = [call[t] EXCEPT !.pc = "clear", !.by = "reauth"]
              \/ ~S!Force(t) /\ call'[t] = [call[t] EXCEPT !.pc = "force"]
              \/ ~S!Force(t) /\ call'[t] = [call[t] EXCEPT !.pc = "client", !.by = "none", !.try = 2]
  <2>1. S!FieldsOK'
    BY <1>0, <1>2 DEF S!Typed, S!FieldsOK
  <2>2. /\ call'[t] \in S!ThreadType /\ call'[t].pc \notin {"idle", "session"}
        /\ call'[t].kind = call[t].kind /\ call'[t].at = call[t].at
        /\ S!Force(t) => call'[t].by = call[t].by /\ call'[t].try = call[t].try /\ call'[t].pc = "login"
        /\ ~S!Force(t) => call'[t].by \in {call[t].by, "none", "reauth"}
    <3>1. CASE S!Force(t) /\ call'[t] = [call[t] EXCEPT !.pc = "login"]
      BY <1>0, <3>1 DEF S!ThreadType
    <3>2. CASE ~S!Force(t) /\ \E pc \in {"await", "await2", "force"} :
                   call'[t] = [call[t] EXCEPT !.pc = pc]
      BY <1>0, <3>2 DEF S!ThreadType
    <3>3. CASE ~S!Force(t) /\ call'[t] = [call[t] EXCEPT !.pc = "clear", !.by = "reauth"]
      BY <1>0, <3>3 DEF S!ThreadType
    <3>4. CASE ~S!Force(t) /\ call'[t] = [call[t] EXCEPT !.pc = "client", !.by = "none", !.try = 2]
      BY <1>0, <3>4 DEF S!ThreadType
    <3>. QED  BY <1>2, <3>1, <3>2, <3>3, <3>4
  <2>3. S!Fits(t, call'[t]) /\ \A b : S!Counted(call'[t], b) => S!Counted(call[t], b)
    BY <1>0, <1>1, <2>2 DEF S!Fits, S!InReauth, S!Counted
  <2>. QED  BY <1>2, <2>1, <2>3, CountsKept DEF S!Behaves
<1>. DEFINE a == call[t].at
<1>3. CASE ~S!Force(t) /\ S!Finish(t) /\ auth' = [auth EXCEPT ![a] = S!Failed(a)]
  <2>1. a \in Auths => S!Failed(a) \in S!AuthRecord /\ S!Failed(a).fails = auth[a].fails + 1
    BY ObjectRecords
  <2>2. /\ auth' \in [Auths -> S!AuthRecord]
        /\ \A b \in Auths : auth'[b] = IF b = a THEN S!Failed(a) ELSE auth[b]
    BY <1>3, <2>1, ObjectChange
  <2>3. call'[t] = S!Idle /\ S!Alone(t) /\ S!FieldsOK'
    BY <1>0, <1>3, <2>2, CallForms DEF S!Typed, S!FieldsOK
  <2>4. S!Fits(t, call'[t]) /\ \A b \in Auths : ~S!Counted(call'[t], b)
    BY <1>0, <2>3 DEF S!Fits, S!Idle, S!InReauth, S!Counted
  <2>5. a \in Auths => S!Counted(call[t], a)
    BY <1>1, <1>3 DEF S!Counted
  <2>6. S!Counts(t)
    BY <1>1, <1>3, <2>1, <2>2, <2>4, <2>5, ObjectRecords DEF S!Counts
  <2>. QED  BY <2>3, <2>4, <2>6 DEF S!Behaves
<1>4. CASE S!ClearEvent(t) /\ ~S!Force(t)
  <2>1. auth' = [auth EXCEPT ![a].event = FALSE] /\ S!Goto(t, "force")
    BY <1>4 DEF S!ClearEvent
  <2>2. a \in Auths => /\ [auth[a] EXCEPT !.event = FALSE] \in S!AuthRecord
                       /\ [auth[a] EXCEPT !.event = FALSE].fails <= auth[a].fails
    <3>1. \A x \in S!AuthRecord : [x EXCEPT !.event = FALSE] \in S!AuthRecord
      BY DEF S!AuthRecord
    <3>2. \A x \in S!AuthRecord : [x EXCEPT !.event = FALSE].fails = x.fails
      BY DEF S!AuthRecord
    <3>. QED  BY <3>1, <3>2, ObjectRecords
  <2>3. auth' \in [Auths -> S!AuthRecord] /\ S!Kept
    BY <2>1, <2>2, FailuresKept
  <2>. QED  BY <1>2, <1>4, <2>1, <2>3, CallForms
<1>5. CASE S!Force(t)
  BY <1>2, <1>5, CallForms, ObjectsSame DEF S!Force
<1>6. CASE S!Reauth(t) /\ ~S!Force(t)
  <2>1. S!Goto(t, "await") \/ S!Login(t, "clear", "reauth")
    BY <1>6 DEF S!Reauth
  <2>2. CASE S!Login(t, "clear", "reauth")
    <3>1. S!Alone(t) /\ call'[t] = [call[t] EXCEPT !.pc = "clear", !.by = "reauth"]
      BY <2>2 DEF S!Login, S!Typed, S!Alone
    <3>. QED  BY <1>2, <1>6, <3>1, ObjectsSame DEF S!Reauth
  <2>3. CASE S!Goto(t, "await")
    BY <1>2, <1>6, <2>3, CallForms, ObjectsSame DEF S!Reauth
  <2>. QED  BY <2>1, <2>2, <2>3
<1>7. CASE S!Await(t) /\ ~S!Force(t)
  BY <1>2, <1>7, CallForms, ObjectsSame DEF S!Await
<1>8. CASE S!AwaitLock(t) /\ ~S!Force(t)
  <2>1. \/ UNCHANGED auth /\ S!Repeat(t)
        \/ UNCHANGED auth /\ S!Login(t, "clear", "reauth")
        \/ S!Finish(t) /\ auth' = [auth EXCEPT ![a] = S!Failed(a)]
    BY <1>8 DEF S!AwaitLock
  <2>2. CASE UNCHANGED auth /\ S!Repeat(t)
    BY <1>2, <1>8, <2>2, CallForms, ObjectsSame
  <2>3. CASE UNCHANGED auth /\ S!Login(t, "clear", "reauth")
    <3>1. S!Alone(t) /\ call'[t] = [call[t] EXCEPT !.pc = "clear", !.by = "reauth"]
      BY <2>3 DEF S!Login, S!Typed, S!Alone
    <3>. QED  BY <1>2, <1>8, <2>3, <3>1, ObjectsSame
  <2>. QED  BY <1>3, <1>8, <2>1, <2>2, <2>3
<1>. QED  BY <1>4, <1>5, <1>6, <1>7, <1>8

\* The broker changes tokens: no failure is counted.
LEMMA TokensChange ==
    ASSUME S!Typed, NEW Those,
           auth' = [b \in Auths |-> [auth[b] EXCEPT
                  !.tok = IF b \in Those THEN "valid" ELSE IF @ = "valid" THEN "stale" ELSE @]]
    PROVE  auth' \in [Auths -> S!AuthRecord] /\ S!Kept
<1>1. \A x \in S!AuthRecord, k \in {"none", "valid", "stale"} :
         [x EXCEPT !.tok = k] \in S!AuthRecord /\ [x EXCEPT !.tok = k].fails = x.fails
  BY DEF S!AuthRecord
<1>2. ASSUME NEW b \in Auths
      PROVE  auth'[b] \in S!AuthRecord /\ auth'[b].fails = auth[b].fails
  <2>. DEFINE k == IF b \in Those THEN "valid" ELSE IF auth[b].tok = "valid" THEN "stale" ELSE auth[b].tok
  <2>1. auth[b] \in S!AuthRecord
    BY ObjectRecords
  <2>2. k \in {"none", "valid", "stale"}
    BY <2>1 DEF S!AuthRecord
  <2>3. auth'[b] = [auth[b] EXCEPT !.tok = k]
    OBVIOUS
  <2>. HIDE DEF k
  <2>4. [auth[b] EXCEPT !.tok = k] \in S!AuthRecord /\ [auth[b] EXCEPT !.tok = k].fails = auth[b].fails
    BY <1>1, <2>1, <2>2
  <2>. QED  BY <2>3, <2>4
<1>3. auth' \in [Auths -> S!AuthRecord]
  BY <1>2
<1>. QED  BY <1>2, <1>3, ObjectRecords DEF S!Kept

\* Steps around the calls, and the login the broker accepts.
LEMMA AroundMild ==
    ASSUME S!Typed, S!SessionAssumption,
           \/ S!ClearSession \/ S!Revoke \/ S!Restart
           \/ \E a \in Auths : S!Age(a) \/ S!WindowPasses(a)
           \/ \E t \in S!Threads : S!LoginAccepted(t)
    PROVE  S!Mild
<1>0. /\ NoAuth \notin Auths
      /\ \A u \in S!Threads : call[u] \in S!ThreadType /\ S!Fits(u, call[u])
  BY DEF S!Typed, S!SessionAssumption
<1>1. CASE UNCHANGED call /\ S!FieldsOK' /\ S!Kept
  BY <1>1 DEF S!Mild, S!Typed
<1>2. CASE S!ClearSession
  <2>1. shared \in Auths /\ UNCHANGED <<svcAuth, call>> /\ shared' = NoAuth
        /\ happened' \subseteq S!EventKinds
    BY <1>2 DEF S!ClearSession, S!Typed, S!FieldsOK, S!Happens, S!EventKinds
  <2>2. auth' \in [Auths -> S!AuthRecord] /\ S!Kept
    <3>1. \E r \in {S!LoggedOut(shared), auth[shared]} : auth' = [auth EXCEPT ![shared] = r]
      BY <1>2 DEF S!ClearSession
    <3>2. \A r \in {S!LoggedOut(shared), auth[shared]} : r \in S!AuthRecord
              /\ r.fails <= auth[shared].fails
      BY <2>1, ObjectRecords
    <3>. QED  BY <3>1, <3>2, FailuresKept
  <2>. QED  BY <1>1, <2>1, <2>2 DEF S!Typed, S!FieldsOK
<1>3. CASE S!Restart
  <2>1. UNCHANGED <<auth, shared, call>> /\ svcAuth' = NoAuth /\ happened' \subseteq S!EventKinds
    BY <1>3 DEF S!Restart, S!Typed, S!FieldsOK, S!Happens, S!EventKinds
  <2>. QED  BY <1>1, <2>1, ObjectsSame DEF S!Typed, S!FieldsOK
<1>4. ASSUME NEW a \in Auths, S!Age(a) \/ S!WindowPasses(a)
      PROVE  S!Mild
  <2>1. UNCHANGED <<svcAuth, shared, call>> /\ happened' \subseteq S!EventKinds
    BY <1>4 DEF S!Age, S!WindowPasses, S!Typed, S!FieldsOK, S!Happens, S!EventKinds
  <2>2. \A x \in S!AuthRecord : /\ [x EXCEPT !.aged = TRUE] \in S!AuthRecord
                                /\ [x EXCEPT !.aged = TRUE].fails <= x.fails
                                /\ [x EXCEPT !.fails = 0] \in S!AuthRecord
                                /\ [x EXCEPT !.fails = 0].fails <= x.fails
    <3>1. \A x \in S!AuthRecord : [x EXCEPT !.aged = TRUE] \in S!AuthRecord
      BY DEF S!AuthRecord
    <3>2. \A x \in S!AuthRecord : [x EXCEPT !.aged = TRUE].fails <= x.fails
      BY DEF S!AuthRecord
    <3>3. \A x \in S!AuthRecord : [x EXCEPT !.fails = 0] \in S!AuthRecord
      BY DEF S!AuthRecord
    <3>4. \A x \in S!AuthRecord : [x EXCEPT !.fails = 0].fails <= x.fails
      BY DEF S!AuthRecord
    <3>. QED  BY <3>1, <3>2, <3>3, <3>4
  <2>3. \E r \in {[auth[a] EXCEPT !.aged = TRUE], [auth[a] EXCEPT !.fails = 0]} :
           auth' = [auth EXCEPT ![a] = r]
    BY <1>4 DEF S!Age, S!WindowPasses
  <2>4. auth' \in [Auths -> S!AuthRecord] /\ S!Kept
    <3>1. \A r \in {[auth[a] EXCEPT !.aged = TRUE], [auth[a] EXCEPT !.fails = 0]} :
             r \in S!AuthRecord /\ r.fails <= auth[a].fails
      BY <2>2, ObjectRecords
    <3>. QED  BY <2>3, <3>1, FailuresKept
  <2>. QED  BY <1>1, <2>1, <2>4 DEF S!Typed, S!FieldsOK
<1>5. ASSUME UNCHANGED <<svcAuth, shared>>, happened' \subseteq S!EventKinds,
             auth' \in [Auths -> S!AuthRecord], S!Kept, call' = [u \in S!Threads |-> call'[u]],
             \A u \in S!Threads : \E pc :
                 /\ call'[u] = [call[u] EXCEPT !.good = FALSE, !.pc = pc]
                 /\ pc = call[u].pc \/ (pc = "logged" /\ call[u].pc = "login")
      PROVE  S!Mild
  <2>1. S!FieldsOK'
    BY <1>5 DEF S!Typed, S!FieldsOK
  <2>2. ASSUME NEW u \in S!Threads
        PROVE  /\ call'[u] \in S!ThreadType
               /\ S!Fits(u, call'[u])
               /\ \A a \in Auths : S!Counted(call'[u], a) => S!Counted(call[u], a)
    <3>1. call[u] \in S!ThreadType
      BY <1>0
    <3>2. PICK pc \in {call[u].pc, "logged"} :
             /\ call'[u] = [call[u] EXCEPT !.good = FALSE, !.pc = pc]
             /\ pc = call[u].pc \/ (pc = "logged" /\ call[u].pc = "login")
      BY <1>5
    <3>3. /\ call'[u] \in S!ThreadType /\ call'[u].pc = pc /\ call'[u].at = call[u].at
          /\ call'[u].by = call[u].by /\ call'[u].kind = call[u].kind
          /\ call'[u].try = call[u].try
      <4>1. /\ call'[u].pc = pc /\ call'[u].at = call[u].at /\ call'[u].by = call[u].by
            /\ call'[u].kind = call[u].kind /\ call'[u].try = call[u].try
        BY <3>1, <3>2 DEF S!ThreadType
      <4>2. call'[u] \in S!ThreadType
        BY <3>1, <3>2 DEF S!ThreadType
      <4>. QED  BY <4>1, <4>2
    <3>4. pc = "idle" => call'[u] = S!Idle
      <4>1. SUFFICES ASSUME pc = "idle" PROVE call'[u] = S!Idle
        OBVIOUS
      <4>2. call[u] = S!Idle
        BY <1>0, <3>2, <4>1 DEF S!Fits
      <4>3. [S!Idle EXCEPT !.good = FALSE, !.pc = "idle"] = S!Idle
        <5>1. \A x \in S!ThreadType : ~x.good /\ x.pc = "idle" =>
                  [x EXCEPT !.good = FALSE, !.pc = "idle"] = x
          BY DEF S!ThreadType
        <5>2. S!Idle \in S!ThreadType /\ ~S!Idle.good /\ S!Idle.pc = "idle"
          BY DEF S!Idle, S!ThreadType
        <5>. QED  BY <5>1, <5>2
      <4>. QED  BY <3>2, <4>1, <4>2, <4>3
    <3>. QED  BY <1>0, <3>2, <3>3, <3>4 DEF S!Fits, S!InReauth, S!Counted
  <2>3. call' \in [S!Threads -> S!ThreadType]
    BY <1>5, <2>2
  <2>. QED  BY <1>5, <2>1, <2>2, <2>3 DEF S!Mild
<1>6. CASE S!Revoke
  <2>1. auth' \in [Auths -> S!AuthRecord] /\ S!Kept
    <3>. DEFINE Those == {}
    <3>1. auth' = [b \in Auths |-> [auth[b] EXCEPT
                  !.tok = IF b \in Those THEN "valid" ELSE IF @ = "valid" THEN "stale" ELSE @]]
      BY <1>6 DEF S!Revoke
    <3>. HIDE DEF Those
    <3>. QED  BY <3>1, TokensChange
  <2>2. ASSUME NEW u \in S!Threads
        PROVE  call'[u] = [call[u] EXCEPT !.good = FALSE, !.pc = call[u].pc]
    <3>1. call[u] \in S!ThreadType /\ call'[u] = [call[u] EXCEPT !.good = FALSE]
      BY <1>0, <1>6 DEF S!Revoke
    <3>2. \A x \in S!ThreadType : [x EXCEPT !.good = FALSE] = [x EXCEPT !.good = FALSE, !.pc = x.pc]
      BY DEF S!ThreadType
    <3>. QED  BY <3>1, <3>2
  <2>3. call' = [u \in S!Threads |-> call'[u]] /\ UNCHANGED <<svcAuth, shared>>
            /\ happened' \subseteq S!EventKinds
    BY <1>6 DEF S!Revoke, S!Typed, S!FieldsOK, S!Happens, S!EventKinds
  <2>. QED  BY <1>5, <2>1, <2>2, <2>3
<1>7. ASSUME NEW t \in S!Threads, S!LoginAccepted(t)
      PROVE  S!Mild
  <2>1. auth' \in [Auths -> S!AuthRecord] /\ S!Kept
    <3>. DEFINE Those == {call[t].at}
    <3>1. auth' = [b \in Auths |-> [auth[b] EXCEPT
                  !.tok = IF b \in Those THEN "valid" ELSE IF @ = "valid" THEN "stale" ELSE @]]
      BY <1>7 DEF S!LoginAccepted
    <3>. QED  BY <3>1, TokensChange
  <2>2. \A u \in S!Threads :
            call'[u] = [call[u] EXCEPT !.good = FALSE, !.pc = IF u = t THEN "logged" ELSE @]
    BY <1>7 DEF S!LoginAccepted
  <2>3. call[t].pc = "login" /\ call' = [u \in S!Threads |-> call'[u]]
            /\ UNCHANGED <<svcAuth, shared, happened>>
    BY <1>7 DEF S!LoginAccepted, S!At
  <2>4. happened' \subseteq S!EventKinds
    BY <2>3 DEF S!Typed, S!FieldsOK
  <2>. QED  BY <1>5, <2>1, <2>2, <2>3, <2>4
<1>. QED  BY <1>2, <1>3, <1>4, <1>6, <1>7

\* Every step is of one of the kinds.
LEMMA SessionSteps ==
    ASSUME S!Typed, S!SessionAssumption, [S!Next]_S!vars
    PROVE  S!StepKinds
<1>1. CASE UNCHANGED S!vars
  BY <1>1 DEF S!StepKinds, S!vars
<1>2. CASE S!Next
  <2>1. ASSUME NEW t \in Tasks, S!BeginTask(t) PROVE \E u \in S!Threads : S!Behaves(u)
    BY <2>1, BeginBehaves DEF S!Threads
  <2>2. ASSUME NEW t \in Requests, S!BeginRequest(t) PROVE \E u \in S!Threads : S!Behaves(u)
    BY <2>2, BeginBehaves DEF S!Threads
  <2>3. ASSUME NEW t \in S!Threads, S!Answers(t) PROVE S!Behaves(t) \/ S!Mild
    BY <2>3, SessionBehaves, ClientBehaves, ReplyBehaves, LoginDoneBehaves, LoginFailsBehaves,
       ReauthBehaves, AroundMild DEF S!Answers
  <2>4. UNCHANGED allowed
    BY <1>2 DEF S!Next, S!Keep
  <2>. QED  BY <1>2, <2>1, <2>2, <2>3, <2>4, AroundMild DEF S!Next, S!Keep, S!Advance, S!StepKinds
<1>. QED  BY <1>1, <1>2

\* They keep the types,
LEMMA TypedKept ==
    ASSUME S!Typed, S!SessionAssumption, S!StepKinds
    PROVE  S!Typed'
<1>1. CASE UNCHANGED S!vars
  BY <1>1 DEF S!Typed, S!FieldsOK, S!vars
<1>2. ASSUME NEW t \in S!Threads, S!Behaves(t) PROVE S!Typed'
  <2>1. call'[t] \in S!ThreadType /\ call' = [call EXCEPT ![t] = call'[t]] /\ S!Fits(t, call'[t])
    BY <1>2 DEF S!Behaves, S!Alone, S!Fits
  <2>2. call' \in [S!Threads -> S!ThreadType] /\ \A u \in S!Threads : S!Fits(u, call'[u])
    BY <2>1 DEF S!Typed
  <2>. QED  BY <1>2, <2>2 DEF S!Typed, S!StepKinds, S!Behaves
<1>3. CASE S!Mild
  BY <1>3 DEF S!Mild, S!Typed, S!StepKinds
<1>. QED  BY <1>1, <1>2, <1>3 DEF S!StepKinds

\* and the limit: a failure is of a thread that had been admitted, and is no longer.
LEMMA LimitedKept ==
    ASSUME S!Typed, S!Limited, S!SessionAssumption, S!StepKinds
    PROVE  S!Limited'
<1>. SUFFICES ASSUME NEW a \in Auths
              PROVE  auth'[a].fails + Cardinality(S!Admitted(a)') <= MaxFailures - 1 + Cardinality(Tasks)
  BY SessionSets DEF S!Limited
<1>1. /\ IsFiniteSet(Tasks) /\ S!Admitted(a) \subseteq Tasks /\ S!Admitted(a)' \subseteq Tasks
      /\ MaxFailures \in Nat
  BY SessionSets DEF S!SessionAssumption, S!Admitted
<1>2. /\ IsFiniteSet(S!Admitted(a)) /\ IsFiniteSet(S!Admitted(a)') /\ Cardinality(Tasks) \in Nat
      /\ Cardinality(S!Admitted(a)) \in Nat /\ Cardinality(S!Admitted(a)') \in Nat
      /\ Cardinality(S!Admitted(a)') <= Cardinality(Tasks)
  BY <1>1, FS_Subset, FS_CardinalityType
<1>3. /\ auth[a].fails \in Nat /\ auth'[a].fails \in Nat
      /\ auth[a].fails + Cardinality(S!Admitted(a)) <= MaxFailures - 1 + Cardinality(Tasks)
  <2>1. S!Typed'
    BY TypedKept
  <2>2. auth'[a] \in S!AuthRecord
    BY <2>1 DEF S!Typed, S!FieldsOK
  <2>. QED  BY <2>2, ObjectRecords, SessionSets DEF S!Limited, S!AuthRecord
<1>4. ASSUME auth'[a].fails <= auth[a].fails, S!Admitted(a)' \subseteq S!Admitted(a)
      PROVE  auth'[a].fails + Cardinality(S!Admitted(a)') <= MaxFailures - 1 + Cardinality(Tasks)
  <2>1. Cardinality(S!Admitted(a)') <= Cardinality(S!Admitted(a))
    BY <1>2, <1>4, FS_Subset
  <2>. QED  BY <1>1, <1>2, <1>3, <1>4, <2>1
<1>5. CASE UNCHANGED S!vars
  BY <1>4, <1>5, <1>3 DEF S!vars, S!Admitted
<1>6. CASE S!Mild
  BY <1>4, <1>6 DEF S!Mild, S!Admitted, S!Threads, S!Kept
<1>7. ASSUME NEW t \in S!Threads, S!Behaves(t)
      PROVE  auth'[a].fails + Cardinality(S!Admitted(a)') <= MaxFailures - 1 + Cardinality(Tasks)
  <2>1. \A u \in S!Threads \ {t} : call'[u] = call[u]
    BY <1>7 DEF S!Behaves, S!Alone, S!Typed
  <2>2. CASE auth'[a].fails <= auth[a].fails
                 /\ (t \in Tasks /\ S!Counted(call'[t], a) => S!Counted(call[t], a))
    BY <1>4, <2>1, <2>2 DEF S!Admitted, S!Threads
  <2>3. CASE /\ t \in Tasks /\ auth'[a].fails = auth[a].fails + 1
             /\ S!Counted(call[t], a) /\ ~S!Counted(call'[t], a)
    <3>1. S!Admitted(a)' = S!Admitted(a) \ {t} /\ t \in S!Admitted(a)
      BY <2>1, <2>3 DEF S!Admitted, S!Threads
    <3>2. Cardinality(S!Admitted(a)') = Cardinality(S!Admitted(a)) - 1
      BY <1>2, <3>1, FS_RemoveElement
    <3>. QED  BY <1>1, <1>2, <1>3, <2>3, <3>2
  <2>4. CASE auth'[a].fails = auth[a].fails /\ auth[a].fails < MaxFailures
    BY <1>1, <1>2, <1>3, <2>4
  <2>. QED  BY <1>7, <2>2, <2>3, <2>4 DEF S!Behaves, S!Counts
<1>. QED  BY <1>5, <1>6, <1>7 DEF S!StepKinds

\* Both hold before the first call.
LEMMA SessionStart ==
    ASSUME S!SessionAssumption, S!Init
    PROVE  S!Typed /\ S!Limited
<1>1. S!Typed
  BY DEF S!Init, S!Typed, S!FieldsOK, S!AuthRecord, S!ThreadType, S!Fits, S!Idle, S!InReauth,
     S!EventKinds
<1>2. ASSUME NEW a \in Auths
      PROVE  auth[a].fails + Cardinality(S!Admitted(a)) <= MaxFailures - 1 + Cardinality(Tasks)
  <2>1. auth[a].fails = 0
    BY DEF S!Init
  <2>2. S!Admitted(a) = {}
    BY DEF S!Init, S!Admitted, S!Counted, S!Idle, S!InReauth, S!Threads
  <2>3. Cardinality(Tasks) \in Nat /\ MaxFailures \in Nat \ {0} /\ Cardinality({}) = 0
    BY FS_CardinalityType, FS_EmptySet, SessionSets DEF S!SessionAssumption
  <2>. QED  BY <2>1, <2>2, <2>3
<1>. QED  BY <1>1, <1>2, SessionSets DEF S!Limited

\* They bound every variable.
LEMMA SessionTypes ==
    ASSUME S!SessionAssumption, S!Typed, S!Limited
    PROVE  S!TypeOK
<1>1. ASSUME NEW a \in Auths PROVE auth[a] \in S!AuthType
  <2>1. auth[a] \in S!AuthRecord /\ auth[a].fails \in Nat
    BY ObjectRecords
  <2>2. Cardinality(S!Admitted(a)) \in Nat /\ Cardinality(Tasks) \in Nat /\ MaxFailures \in Nat
    BY FS_Subset, FS_CardinalityType, SessionSets DEF S!Admitted, S!SessionAssumption
  <2>3. auth[a].fails \in 0 .. MaxFailures - 1 + Cardinality(Tasks)
    BY <2>1, <2>2, SessionSets DEF S!Limited
  <2>. QED  BY <2>1, <2>3, SessionSets DEF S!AuthRecord, S!AuthType
<1>2. auth \in [Auths -> S!AuthType]
  BY <1>1 DEF S!Typed, S!FieldsOK
<1>. QED  BY <1>2 DEF S!TypeOK, S!Typed, S!FieldsOK

\* Every variable of a session keeps its type, for any objects, any finite set of the
\* service's threads and any requests: above all, an object never collects more than
\* MaxFailures - 1 + Cardinality(Tasks) failures, for only the threads that were admitted
\* below the limit can fail beyond it.
THEOREM SessionTypeCorrect == ASSUME S!SessionAssumption PROVE S!Spec => []S!TypeOK
<1>1. S!Init => S!Typed /\ S!Limited
  BY SessionStart
<1>2. S!Typed /\ S!Limited /\ [S!Next]_S!vars => (S!Typed /\ S!Limited)'
  BY SessionSteps, TypedKept, LimitedKept
<1>3. S!Typed /\ S!Limited => S!TypeOK
  BY SessionTypes
<1>. QED  BY <1>1, <1>2, <1>3, PTL DEF S!Spec

\* A step of one thread that loses no login keeps one object, where the thread does.
LEMMA CalmOfThread ==
    ASSUME S!Calm, S!Typed, S!SessionAssumption, NEW t \in S!Threads, S!Alone(t), S!Tame,
           UNCHANGED <<shared, allowed>>,
           svcAuth' \in {svcAuth, NoAuth, shared}, S!CalmThread(t)',
           S!NewLogin(t)' => \A u \in S!Threads : ~S!NewLogin(u)
    PROVE  S!Calm'
<1>1. \A u \in S!Threads \ {t} : call'[u] = call[u]
  BY DEF S!Typed, S!Alone
<1>2. ASSUME NEW u \in S!Threads \ {t} PROVE S!CalmThread(u)'
  <2>1. S!CalmThread(u) /\ call[u].at \in Auths \cup {NoAuth} /\ NoAuth \notin Auths
    BY DEF S!Calm, S!Typed, S!ThreadType, S!SessionAssumption
  <2>. QED  BY <1>1, <2>1 DEF S!CalmThread, S!NewLogin, S!InLogin, S!Tame
<1>3. S!CalmObjects'
  BY DEF S!Calm, S!CalmObjects, S!Tame, S!Typed, S!FieldsOK
<1>4. \A u, v \in S!Threads : S!NewLogin(u)' /\ S!NewLogin(v)' => u = v
  BY <1>1 DEF S!Calm, S!NewLogin, S!InLogin
<1>. QED  BY <1>2, <1>3, <1>4 DEF S!Calm, S!CalmScene

\* A change of one object that loses neither its login nor its token.
LEMMA ObjectTame ==
    ASSUME S!Calm, S!Typed, NEW a, NEW r, auth' = [auth EXCEPT ![a] = r],
           a \in Auths => /\ ~r.aged /\ (r.in => r.tok # "none")
                          /\ auth[a].in => r.in
                          /\ auth[a].tok # "none" => r.tok # "none"
    PROVE  S!Tame
<1>1. \A b \in Auths : auth'[b] = IF b = a THEN r ELSE auth[b]
  BY DEF S!Typed, S!FieldsOK
<1>. QED  BY <1>1 DEF S!Tame, S!Calm, S!CalmObjects

\* A step that leaves the objects alone loses nothing.
LEMMA TameSame == S!Calm /\ UNCHANGED auth => S!Tame
  BY DEF S!Tame, S!Calm, S!CalmObjects

\* A change of an object that concerns neither its login nor its token.
LEMMA TameOther ==
    ASSUME S!Calm, S!Typed, NEW a,
           \/ auth' = [auth EXCEPT ![a].fails = 0]
           \/ auth' = [auth EXCEPT ![a].event = FALSE]
           \/ auth' = [auth EXCEPT ![a] = S!Failed(a)]
    PROVE  S!Tame
<1>. DEFINE R == {[auth[a] EXCEPT !.fails = 0], [auth[a] EXCEPT !.event = FALSE], S!Failed(a)}
<1>1. PICK r \in R : auth' = [auth EXCEPT ![a] = r]
  OBVIOUS
<1>2. \A x \in S!AuthRecord : \A y \in {[x EXCEPT !.fails = 0], [x EXCEPT !.event = FALSE],
                                   [x EXCEPT !.fails = @ + 1]} :
         y.in = x.in /\ y.tok = x.tok /\ y.aged = x.aged
  BY DEF S!AuthRecord
<1>3. a \in Auths => r.in = auth[a].in /\ r.tok = auth[a].tok /\ r.aged = auth[a].aged
  BY <1>2, ObjectRecords DEF S!Failed
<1>. QED  BY <1>1, <1>3, ObjectTame DEF S!Calm, S!CalmObjects

\* A call that goes on with its object, or ends, keeps one object.
LEMMA CalmMove ==
    ASSUME S!Calm, S!Typed, S!SessionAssumption, NEW t \in S!Threads, S!Moves(t), S!Still
    PROVE  S!Calm'
<1>1. S!CalmThread(t) /\ call[t].at \in Auths \cup {NoAuth} /\ NoAuth \notin Auths
  BY DEF S!Calm, S!Typed, S!ThreadType, S!SessionAssumption
<1>2. S!CalmThread(t)' /\ ~S!NewLogin(t)'
  <2>1. CASE call'[t] = S!Idle
    BY <2>1 DEF S!Idle, S!CalmThread, S!NewLogin, S!InLogin
  <2>2. CASE call'[t] # S!Idle
    BY <1>1, <2>2 DEF S!CalmThread, S!NewLogin, S!InLogin, S!Moves, S!Still
  <2>. QED  BY <2>1, <2>2
<1>. QED  BY <1>2, CalmOfThread DEF S!Moves, S!Still

\* What is known of a thread.
LEMMA CalmFacts ==
    ASSUME S!Calm, S!Typed, S!SessionAssumption, NEW t \in S!Threads
    PROVE  /\ call[t] \in S!ThreadType /\ S!CalmThread(t) /\ NoAuth \notin Auths
           /\ call[t].pc = "idle" => call[t] = S!Idle
           /\ call[t].at \in Auths \cup {NoAuth}
           /\ call[t].pc \notin {"idle", "session"} => call[t].at \in Auths
  BY DEF S!Calm, S!CalmThread, S!Typed, S!Fits, S!ThreadType, S!SessionAssumption

\* The ways a call goes on.
LEMMA CallMoves ==
    ASSUME S!Calm, S!Typed, S!SessionAssumption, NEW t \in S!Threads, call[t].pc \notin {"idle", "session"}, ~S!NewLogin(t),
           \/ \E pc \in {"reauth", "await", "await2", "force"} : S!Goto(t, pc)
           \/ S!Goto(t, "login") /\ call[t].by # "new"
           \/ S!Finish(t) \/ S!Repeat(t) \/ \E a : S!HasClient(t, a)
           \/ call' = [call EXCEPT ![t].pc = "clear", ![t].by = "reauth"]
           \/ call' = [call EXCEPT ![t].pc = "login", ![t].by = "client"]
           \/ call' = [call EXCEPT ![t].pc = "force", ![t].by = "direct"]
           \/ call' = [call EXCEPT ![t].pc = "force", ![t].by = "adapter"]
           \/ call' = [call EXCEPT ![t].pc = "client", ![t].by = "none", ![t].kind = "second"]
    PROVE  S!Moves(t)
<1>1. call[t] \in S!ThreadType /\ S!CalmThread(t)
  BY CalmFacts
<1>2. CASE S!Finish(t)
  BY <1>2, CallForms DEF S!Moves
<1>3. ASSUME NEW pc \in {"reauth", "await", "await2", "force", "login"}, S!Goto(t, pc),
             call[t].by # "new"
      PROVE  S!Moves(t)
  <2>1. S!Alone(t) /\ call'[t] = [call[t] EXCEPT !.pc = pc]
    BY <1>3, CallForms
  <2>2. call'[t].pc = pc /\ call'[t].at = call[t].at /\ call'[t].kind = call[t].kind
            /\ call'[t].by = call[t].by
    BY <1>1, <2>1 DEF S!ThreadType
  <2>. QED  BY <1>1, <1>3, <2>1, <2>2 DEF S!Moves, S!CalmThread
<1>4. CASE S!Repeat(t)
  <2>1. S!Alone(t) /\ call'[t] = [call[t] EXCEPT !.pc = "client", !.by = "none", !.try = 2]
    BY <1>4, CallForms
  <2>2. call'[t].pc = "client" /\ call'[t].at = call[t].at /\ call'[t].kind = call[t].kind
            /\ call'[t].by = "none"
    BY <1>1, <2>1 DEF S!ThreadType
  <2>. QED  BY <2>1, <2>2 DEF S!Moves
<1>5. ASSUME NEW a, S!HasClient(t, a) PROVE S!Moves(t)
  <2>1. S!Alone(t) /\ \E g \in BOOLEAN :
            call'[t] = [call[t] EXCEPT !.pc = "send", !.by = "none", !.good = g]
    BY <1>5, CallForms
  <2>2. call'[t].pc = "send" /\ call'[t].at = call[t].at /\ call'[t].kind = call[t].kind
            /\ call'[t].by = "none"
    BY <1>1, <2>1 DEF S!ThreadType
  <2>. QED  BY <2>1, <2>2 DEF S!Moves
<1>6. ASSUME NEW pc \in {"clear", "login", "force"}, NEW by \in {"reauth", "client", "direct", "adapter"},
             call' = [call EXCEPT ![t].pc = pc, ![t].by = by]
      PROVE  S!Moves(t)
  <2>1. S!Alone(t) /\ call'[t] = [call[t] EXCEPT !.pc = pc, !.by = by]
    BY <1>6 DEF S!Typed, S!Alone
  <2>2. call'[t].pc = pc /\ call'[t].at = call[t].at /\ call'[t].kind = call[t].kind /\ call'[t].by = by
    BY <1>1, <2>1 DEF S!ThreadType
  <2>. QED  BY <2>1, <2>2 DEF S!Moves
<1>7. CASE call' = [call EXCEPT ![t].pc = "client", ![t].by = "none", ![t].kind = "second"]
  <2>1. S!Alone(t) /\ call'[t] = [call[t] EXCEPT !.pc = "client", !.by = "none", !.kind = "second"]
    BY <1>7 DEF S!Typed, S!Alone
  <2>2. call'[t].pc = "client" /\ call'[t].at = call[t].at /\ call'[t].kind = "second"
            /\ call'[t].by = "none"
    BY <1>1, <2>1 DEF S!ThreadType
  <2>. QED  BY <2>1, <2>2 DEF S!Moves
<1>8. call[t].by = "new" => S!InLogin(t) /\ FALSE
  BY <1>1 DEF S!CalmThread, S!NewLogin
<1>. QED  BY <1>2, <1>3, <1>4, <1>5, <1>6, <1>7, <1>8

\* No object is without a client: a call goes on with the shared one.
LEMMA CalmClients ==
    ASSUME S!Calm, S!Typed, S!SessionAssumption, NEW t \in S!Threads, UNCHANGED allowed,
           S!GetClient(t) \/ S!GetRestClient(t)
    PROVE  S!Calm'
<1>1. S!CalmThread(t) /\ call[t].at \in Auths /\ call[t].pc = "client" /\ ~S!NewLogin(t)
  BY CalmFacts DEF S!GetClient, S!GetRestClient, S!At, S!NewLogin, S!InLogin
<1>2. S!Valid(call[t].at) => auth[call[t].at].tok # "none"
  BY <1>1 DEF S!Valid, S!Calm, S!CalmObjects
<1>3. /\ UNCHANGED <<auth, shared, svcAuth>>
      /\ \/ S!Finish(t) \/ \E a : S!HasClient(t, a)
         \/ call' = [call EXCEPT ![t].pc = "login", ![t].by = "client"]
  BY <1>2 DEF S!GetClient, S!GetRestClient, S!Login
<1>4. S!Moves(t)
  BY <1>1, <1>3, CallMoves
<1>. QED  BY <1>3, <1>4, CalmMove, TameSame DEF S!Still

\* A re-login is with the object of the call.
LEMMA CalmReplies ==
    ASSUME S!Calm, S!Typed, S!SessionAssumption, NEW t \in S!Threads, UNCHANGED allowed,
           \/ S!Answered(t) \/ S!AuthError(t) \/ S!Reauth(t) \/ S!ClearEvent(t) \/ S!Await(t)
                  \/ S!AwaitLock(t)
           \/ S!Force(t)
    PROVE  S!Calm'
<1>1. S!CalmThread(t) /\ call[t].pc \in {"send", "reauth", "clear", "await", "await2", "force"}
          /\ ~S!NewLogin(t)
  BY CalmFacts DEF S!Answered, S!AuthError, S!Reauth, S!ClearEvent, S!Await, S!AwaitLock, S!Force,
     S!At, S!NewLogin, S!InLogin
<1>2. UNCHANGED <<svcAuth, shared>>
  BY DEF S!Answered, S!AuthError, S!Reauth, S!ClearEvent, S!Await, S!AwaitLock, S!Force
<1>3. S!Moves(t)
  <2>1. \/ \E pc \in {"reauth", "await", "await2", "force"} : S!Goto(t, pc)
        \/ S!Goto(t, "login") /\ S!Force(t)
        \/ S!Finish(t) \/ S!Repeat(t)
        \/ S!Login(t, "clear", "reauth")
        \/ S!Login(t, "force", "direct")
        \/ S!Login(t, "force", "adapter")
    BY DEF S!Answered, S!AuthError, S!Reauth, S!ClearEvent, S!Await, S!AwaitLock, S!Force
  <2>2. call[t].by # "new"
    BY <1>1 DEF S!CalmThread, S!InLogin
  <2>. QED  BY <1>1, <2>1, <2>2, CallMoves DEF S!Login
<1>4. S!Tame
  <2>1. \/ UNCHANGED auth
        \/ auth' = [auth EXCEPT ![call[t].at].fails = 0]
        \/ auth' = [auth EXCEPT ![call[t].at].event = FALSE]
        \/ auth' = [auth EXCEPT ![call[t].at] = S!Failed(call[t].at)]
    BY DEF S!Answered, S!AuthError, S!Reauth, S!ClearEvent, S!Await, S!AwaitLock, S!Force
  <2>. QED  BY <2>1, TameSame, TameOther
<1>. QED  BY <1>2, <1>3, <1>4, CalmMove DEF S!Still

\* A login is done: of the shared object, or of the one that becomes it.
LEMMA CalmDone ==
    ASSUME S!Calm, S!Typed, S!SessionAssumption, NEW t \in S!Threads, UNCHANGED allowed, S!LoginDone(t)
    PROVE  S!Calm'
<1>. DEFINE a == call[t].at
            r == [auth[a] EXCEPT !.in = TRUE, !.aged = FALSE, !.event = @ \/ call[t].by = "reauth"]
<1>1. /\ S!CalmThread(t) /\ a \in Auths /\ call[t].pc = "logged" /\ NoAuth \notin Auths
      /\ call[t] \in S!ThreadType /\ auth[a].tok # "none"
  BY CalmFacts DEF S!LoginDone, S!At, S!CalmThread
<1>2. r.in /\ ~r.aged /\ r.tok = auth[a].tok
  <2>1. \A x \in S!AuthRecord : \A e :
           /\ [x EXCEPT !.in = TRUE, !.aged = FALSE, !.event = e].in
           /\ ~[x EXCEPT !.in = TRUE, !.aged = FALSE, !.event = e].aged
           /\ [x EXCEPT !.in = TRUE, !.aged = FALSE, !.event = e].tok = x.tok
    BY DEF S!AuthRecord
  <2>. QED  BY <1>1, <2>1, ObjectRecords
<1>3. auth' = [auth EXCEPT ![a] = r]
  BY DEF S!LoginDone
<1>. HIDE DEF r
<1>4. S!Tame /\ auth'[a].in /\ auth'[a].tok # "none"
  <2>1. S!Tame
    BY <1>1, <1>2, <1>3, ObjectTame
  <2>2. auth'[a] = r
    BY <1>1, <1>3 DEF S!Typed, S!FieldsOK
  <2>. QED  BY <1>1, <1>2, <2>1, <2>2
<1>5. CASE call[t].by = "new"
  <2>1. shared' = a /\ S!Given(t, a) /\ S!NewLogin(t) /\ shared = NoAuth
    BY <1>1, <1>5 DEF S!LoginDone, S!NewLogin, S!InLogin, S!CalmThread, S!At
  <2>2. call[t].kind # "sync"
    BY <1>1 DEF S!CalmThread
  <2>3. S!Alone(t) /\ call'[t] = [call[t] EXCEPT !.at = a, !.by = "none", !.pc = "client"]
            /\ svcAuth' \in {a, svcAuth}
    BY <2>1, <2>2, CallForms
  <2>4. call'[t].pc = "client" /\ call'[t].at = a /\ call'[t].kind = call[t].kind
            /\ call'[t].by = "none"
    BY <1>1, <2>3 DEF S!ThreadType
  <2>5. S!CalmThread(t)' /\ ~S!NewLogin(t)'
    BY <1>1, <2>1, <2>4 DEF S!CalmThread, S!NewLogin, S!InLogin
  <2>6. ASSUME NEW u \in S!Threads \ {t} PROVE S!CalmThread(u)' /\ ~S!NewLogin(u)'
    <3>1. S!CalmThread(u) /\ ~S!NewLogin(u) /\ call[u].at \in Auths \cup {NoAuth} /\ call'[u] = call[u]
      BY <2>1, <2>3, CalmFacts DEF S!Calm, S!Alone, S!Typed
    <3>. QED  BY <1>1, <1>4, <2>1, <3>1 DEF S!CalmThread, S!NewLogin, S!InLogin, S!Tame
  <2>7. S!CalmObjects'
    BY <1>1, <1>4, <2>1, <2>3 DEF S!CalmObjects, S!Calm, S!Tame
  <2>. QED  BY <2>5, <2>6, <2>7 DEF S!Calm, S!CalmScene
<1>6. CASE call[t].by # "new"
  <2>1. /\ UNCHANGED <<svcAuth, shared>>
        /\ \/ S!Finish(t) \/ S!Repeat(t) \/ \E b : S!HasClient(t, b)
           \/ call' = [call EXCEPT ![t].pc = "client", ![t].by = "none", ![t].kind = "second"]
    BY <1>1, <1>6 DEF S!LoginDone, S!CalmThread
  <2>2. ~S!NewLogin(t)
    BY <1>6 DEF S!NewLogin
  <2>3. S!Moves(t)
    BY <1>1, <2>1, <2>2, CallMoves
  <2>. QED  BY <1>4, <2>1, <2>3, CalmMove DEF S!Still
<1>. QED  BY <1>5, <1>6

\* A call begins without an object or with the service's.
LEMMA CalmBegins ==
    ASSUME S!Calm, S!Typed, S!SessionAssumption, NEW t \in S!Threads, UNCHANGED allowed,
           S!BeginTask(t) \/ S!BeginRequest(t)
    PROVE  S!Calm'
<1>1. /\ call[t] = S!Idle /\ S!Alone(t) /\ UNCHANGED <<auth, svcAuth, shared>> /\ NoAuth \notin Auths
      /\ svcAuth \in {NoAuth, shared}
  BY CalmFacts DEF S!BeginTask, S!BeginRequest, S!At, S!Typed, S!Alone, S!Calm, S!CalmObjects
<1>2. \/ /\ call'[t].pc = "client" /\ call'[t].at = svcAuth /\ svcAuth # NoAuth
         /\ call'[t].kind = "task" /\ call'[t].by = "none"
      \/ /\ call'[t].pc = "session" /\ call'[t].at = NoAuth
         /\ call'[t].kind \in {"task", "page"} /\ call'[t].by = "none"
  <2>1. \/ svcAuth # NoAuth
               /\ call'[t] = [S!Idle EXCEPT !.pc = "client", !.at = svcAuth, !.kind = "task"]
        \/ \E kind \in {"task", "page"} : call'[t] = [S!Idle EXCEPT !.pc = "session", !.kind = kind]
    BY <1>1 DEF S!BeginTask, S!BeginRequest, S!Happens, S!Calm, S!CalmScene, S!Typed
  <2>. QED  BY <2>1 DEF S!Idle
<1>3. S!CalmThread(t)' /\ ~S!NewLogin(t)'
  BY <1>1, <1>2 DEF S!CalmThread, S!NewLogin, S!InLogin
<1>. QED  BY <1>1, <1>3, CalmOfThread, TameSame

\* The shared object is reused; where there is none, nobody else creates one.
LEMMA CalmSessions ==
    ASSUME S!Calm, S!Typed, S!SessionAssumption, NEW t \in S!Threads, UNCHANGED allowed,
           S!Reuse(t) \/ S!Create(t) \/ S!Connect(t)
    PROVE  S!Calm'
<1>1. /\ S!CalmThread(t) /\ call[t] \in S!ThreadType /\ NoAuth \notin Auths
      /\ shared \in Auths \cup {NoAuth}
  BY CalmFacts DEF S!Typed, S!FieldsOK
<1>2. CASE S!Connect(t)
  BY <1>1, <1>2 DEF S!Connect, S!At, S!CalmThread
<1>3. CASE S!Reuse(t)
  <2>1. /\ S!Given(t, shared) /\ shared # NoAuth /\ call[t].kind # "sync"
        /\ UNCHANGED <<auth, shared>>
    BY <1>1, <1>3 DEF S!Reuse, S!CalmThread
  <2>2. /\ S!Alone(t) /\ call'[t] = [call[t] EXCEPT !.at = shared, !.by = "none", !.pc = "client"]
        /\ svcAuth' \in {shared, svcAuth}
    BY <2>1, CallForms
  <2>3. /\ call'[t].pc = "client" /\ call'[t].at = shared /\ call'[t].kind = call[t].kind
               /\ call'[t].by = "none"
    BY <1>1, <2>2 DEF S!ThreadType
  <2>4. S!CalmThread(t)' /\ ~S!NewLogin(t)'
    BY <1>1, <2>1, <2>3 DEF S!CalmThread, S!NewLogin, S!InLogin
  <2>. QED  BY <2>1, <2>2, <2>4, CalmOfThread, TameSame
<1>4. CASE S!Create(t)
  <2>. DEFINE a == CHOOSE x \in S!Spare : TRUE
              r == [S!LoggedOut(a) EXCEPT !.aged = FALSE]
  <2>1. shared = NoAuth
    BY <1>1, <1>4 DEF S!Create, S!ForceNew, S!CalmThread, S!Reusable, S!Valid, S!Calm, S!CalmObjects
  <2>2. /\ a \in S!Spare /\ auth' = [auth EXCEPT ![a] = r]
        /\ call' = [call EXCEPT ![t].pc = "login", ![t].by = "new", ![t].at = a]
        /\ UNCHANGED svcAuth /\ shared' = NoAuth
    BY <1>4, <2>1 DEF S!Create
  <2>. HIDE DEF a
  <2>3. a \in Auths /\ a # shared /\ \A u \in S!Threads : call[u].at # a
    BY <2>2 DEF S!Spare
  <2>4. ~r.aged /\ ~r.in
    <3>1. S!LoggedOut(a) \in S!AuthRecord /\ ~S!LoggedOut(a).in
      <4>1. \A x \in S!AuthRecord : ~[x EXCEPT !.in = FALSE, !.tok = "none"].in
        BY DEF S!AuthRecord
      <4>. QED  BY <2>3, <4>1, ObjectRecords DEF S!LoggedOut
    <3>2. \A x \in S!AuthRecord : ~[x EXCEPT !.aged = FALSE].aged /\ [x EXCEPT !.aged = FALSE].in = x.in
      BY DEF S!AuthRecord
    <3>. QED  BY <3>1, <3>2
  <2>. HIDE DEF r
  <2>5. \A b \in Auths : auth'[b] = IF b = a THEN r ELSE auth[b]
    BY <2>2 DEF S!Typed, S!FieldsOK
  <2>6. S!Alone(t) /\ call'[t] = [call[t] EXCEPT !.pc = "login", !.by = "new", !.at = a]
    BY <2>2 DEF S!Typed, S!Alone
  <2>7. call'[t].pc = "login" /\ call'[t].at = a /\ call'[t].kind = call[t].kind /\ call'[t].by = "new"
    BY <1>1, <2>3, <2>6 DEF S!ThreadType
  <2>8. S!CalmThread(t)'
    BY <1>1, <2>2, <2>3, <2>7 DEF S!CalmThread, S!NewLogin, S!InLogin
  <2>9. ASSUME NEW u \in S!Threads \ {t} PROVE S!CalmThread(u)' /\ ~S!NewLogin(u)'
    <3>1. ~S!UserLocked
      BY <1>4 DEF S!Create
    <3>2. /\ call'[u] = call[u] /\ ~S!NewLogin(u) /\ S!CalmThread(u) /\ call[u].at # a
          /\ call[u].at \in Auths \cup {NoAuth}
      BY <2>3, <2>6, <3>1, CalmFacts DEF S!UserLocked, S!NewLogin, S!Alone, S!Typed
    <3>3. ~S!NewLogin(u)'
      BY <3>2 DEF S!NewLogin, S!InLogin
    <3>4. call[u].pc = "logged" => auth'[call[u].at].tok # "none"
      BY <2>5, <3>2, <1>1 DEF S!CalmThread
    <3>. QED  BY <2>1, <2>2, <3>2, <3>3, <3>4 DEF S!CalmThread, S!NewLogin, S!InLogin
  <2>10. S!CalmObjects'
    BY <2>1, <2>2, <2>4, <2>5 DEF S!CalmObjects, S!Calm
  <2>. QED  BY <2>8, <2>9, <2>10 DEF S!Calm, S!CalmScene
<1>. QED  BY <1>2, <1>3, <1>4

\* A token is replaced or becomes stale: it is not lost.
LEMMA CalmTokens ==
    ASSUME S!Calm, S!Typed, NEW Those,
           auth' = [b \in Auths |-> [auth[b] EXCEPT
                  !.tok = IF b \in Those THEN "valid" ELSE IF @ = "valid" THEN "stale" ELSE @]]
    PROVE  S!Tame /\ \A b \in Auths \cap Those : auth'[b].tok = "valid"
<1>1. \A x \in S!AuthRecord, k \in {"none", "valid", "stale"} :
         /\ [x EXCEPT !.tok = k].in = x.in /\ [x EXCEPT !.tok = k].aged = x.aged
         /\ [x EXCEPT !.tok = k].tok = k
  BY DEF S!AuthRecord
<1>2. ASSUME NEW b \in Auths
      PROVE  /\ auth'[b].in = auth[b].in /\ auth'[b].aged = auth[b].aged
             /\ auth[b].tok # "none" => auth'[b].tok # "none"
             /\ b \in Those => auth'[b].tok = "valid"
  <2>. DEFINE k == IF b \in Those THEN "valid" ELSE IF auth[b].tok = "valid" THEN "stale" ELSE auth[b].tok
  <2>1. auth[b] \in S!AuthRecord
    BY ObjectRecords
  <2>2. k \in {"none", "valid", "stale"} /\ (auth[b].tok # "none" => k # "none")
            /\ (b \in Those => k = "valid")
    BY <2>1 DEF S!AuthRecord
  <2>3. auth'[b] = [auth[b] EXCEPT !.tok = k]
    OBVIOUS
  <2>. HIDE DEF k
  <2>4. /\ [auth[b] EXCEPT !.tok = k].in = auth[b].in /\ [auth[b] EXCEPT !.tok = k].aged = auth[b].aged
        /\ [auth[b] EXCEPT !.tok = k].tok = k
    BY <1>1, <2>1, <2>2
  <2>. QED  BY <2>2, <2>3, <2>4
<1>. QED  BY <1>2 DEF S!Tame, S!Calm, S!CalmObjects

\* A step of the broker, after which Those have logged in.
LEMMA CalmBroker ==
    ASSUME S!Calm, S!Typed, S!SessionAssumption, S!Still, NEW Those,
           Those \subseteq {t \in S!Threads : call[t].pc = "login" /\ auth'[call[t].at].tok # "none"},
           \A u \in S!Threads :
               call'[u] = [call[u] EXCEPT !.good = FALSE, !.pc = IF u \in Those THEN "logged" ELSE call[u].pc]
    PROVE  S!Calm'
<1>1. ASSUME NEW u \in S!Threads
      PROVE  /\ call'[u].pc = IF u \in Those THEN "logged" ELSE call[u].pc
             /\ call'[u].at = call[u].at /\ call'[u].by = call[u].by /\ call'[u].kind = call[u].kind
  <2>1. call[u] \in S!ThreadType
    BY CalmFacts
  <2>. QED  BY <2>1 DEF S!ThreadType
<1>2. ASSUME NEW u \in S!Threads PROVE S!CalmThread(u)' /\ S!NewLogin(u)' = S!NewLogin(u)
  <2>1. /\ S!CalmThread(u)
        /\ u \in Those => call[u].pc = "login" /\ auth'[call[u].at].tok # "none"
        /\ call[u].at \in Auths \cup {NoAuth} /\ NoAuth \notin Auths
    BY CalmFacts
  <2>2. S!NewLogin(u)' <=> S!NewLogin(u)
    BY <1>1, <2>1 DEF S!NewLogin, S!InLogin
  <2>3. call'[u].pc = "logged" => auth'[call'[u].at].tok # "none"
    <3>1. CASE u \in Those
      BY <1>1, <2>1, <3>1
    <3>2. CASE u \notin Those
      <4>1. SUFFICES ASSUME call[u].pc = "logged" PROVE auth'[call[u].at].tok # "none"
        BY <1>1, <3>2
      <4>2. call[u].at \in Auths /\ auth[call[u].at].tok # "none"
        BY <2>1, <4>1 DEF S!CalmThread
      <4>. QED  BY <4>2 DEF S!Still, S!Tame
    <3>. QED  BY <3>1, <3>2
  <2>4. S!CalmThread(u)'
    <3>1. call'[u].pc # "connect"
              /\ (call'[u].pc \in {"idle", "session"} <=> call[u].pc \in {"idle", "session"})
      BY <1>1, <2>1 DEF S!CalmThread
    <3>2. S!InLogin(u)' <=> S!InLogin(u)
      BY <1>1, <2>1 DEF S!InLogin
    <3>3. UNCHANGED shared
      BY DEF S!Still
    <3>. QED  BY <1>1, <2>1, <2>2, <2>3, <3>1, <3>2, <3>3 DEF S!CalmThread
  <2>. QED  BY <2>2, <2>4 DEF S!NewLogin, S!InLogin
<1>3. S!CalmObjects'
  BY DEF S!Calm, S!CalmObjects, S!Still, S!Tame, S!Typed, S!FieldsOK
<1>. QED  BY <1>2, <1>3 DEF S!Calm, S!CalmScene, S!Still

\* Steps around the calls, and the login the broker accepts.
LEMMA CalmArounds ==
    ASSUME S!Calm, S!Typed, S!SessionAssumption, UNCHANGED allowed,
           \/ S!Revoke \/ S!Restart \/ \E a \in Auths : S!WindowPasses(a)
           \/ \E t \in S!Threads : S!LoginAccepted(t)
    PROVE  S!Calm'
<1>1. CASE UNCHANGED <<call, shared>> /\ S!Tame /\ svcAuth' \in {svcAuth, NoAuth}
  BY <1>1 DEF S!Calm, S!CalmObjects, S!CalmThread, S!CalmScene, S!NewLogin, S!InLogin, S!Tame,
     S!Typed, S!FieldsOK,
              S!ThreadType
<1>2. CASE S!Restart
  BY <1>1, <1>2, TameSame DEF S!Restart
<1>3. ASSUME NEW a \in Auths, S!WindowPasses(a) PROVE S!Calm'
  BY <1>1, <1>3, TameOther DEF S!WindowPasses
<1>4. CASE S!Revoke
  <2>. DEFINE Those == {}
  <2>1. auth' = [b \in Auths |-> [auth[b] EXCEPT
                  !.tok = IF b \in Those THEN "valid" ELSE IF @ = "valid" THEN "stale" ELSE @]]
    BY <1>4 DEF S!Revoke
  <2>2. S!Still
    <3>. HIDE DEF Those
    <3>. QED  BY <1>4, <2>1, CalmTokens DEF S!Still, S!Revoke
  <2>3. ASSUME NEW u \in S!Threads
        PROVE  call'[u] = [call[u] EXCEPT !.good = FALSE, !.pc = IF u \in Those THEN "logged" ELSE call[u].pc]
    <3>1. call[u] \in S!ThreadType /\ call'[u] = [call[u] EXCEPT !.good = FALSE]
      BY <1>4, CalmFacts DEF S!Revoke
    <3>2. \A x \in S!ThreadType : [x EXCEPT !.good = FALSE] = [x EXCEPT !.good = FALSE, !.pc = x.pc]
      BY DEF S!ThreadType
    <3>. QED  BY <3>1, <3>2
  <2>4. Those \subseteq {t \in S!Threads : call[t].pc = "login" /\ auth'[call[t].at].tok # "none"}
    OBVIOUS
  <2>. HIDE DEF Those
  <2>. QED  BY <2>2, <2>3, <2>4, CalmBroker
<1>5. ASSUME NEW t \in S!Threads, S!LoginAccepted(t) PROVE S!Calm'
  <2>1. S!CalmThread(t) /\ call[t].pc = "login" /\ call[t].at \in Auths
    BY <1>5, CalmFacts DEF S!LoginAccepted, S!At
  <2>. DEFINE A == {call[t].at}
              Those == {t}
  <2>2. auth' = [b \in Auths |-> [auth[b] EXCEPT
                  !.tok = IF b \in A THEN "valid" ELSE IF @ = "valid" THEN "stale" ELSE @]]
    BY <1>5 DEF S!LoginAccepted
  <2>3. S!Still /\ auth'[call[t].at].tok = "valid"
    <3>1. call[t].at \in Auths \cap A
      BY <2>1
    <3>. HIDE DEF A
    <3>. QED  BY <1>5, <2>2, <3>1, CalmTokens DEF S!Still, S!LoginAccepted
  <2>4. \A u \in S!Threads :
           call'[u] = [call[u] EXCEPT !.good = FALSE, !.pc = IF u \in Those THEN "logged" ELSE call[u].pc]
    BY <1>5 DEF S!LoginAccepted
  <2>5. Those \subseteq {u \in S!Threads : call[u].pc = "login" /\ auth'[call[u].at].tok # "none"}
    BY <2>1, <2>3
  <2>. HIDE DEF Those
  <2>. QED  BY <2>3, <2>4, <2>5, CalmBroker
<1>. QED  BY <1>2, <1>3, <1>4, <1>5

\* Every step keeps one object.
LEMMA CalmKept ==
    ASSUME S!CalmInv, S!Typed, S!SessionAssumption, [S!Next]_S!vars
    PROVE  S!CalmInv'
<1>. SUFFICES ASSUME S!CalmScene' PROVE S!Calm'
  BY DEF S!CalmInv
<1>1. UNCHANGED allowed /\ S!CalmScene /\ S!Calm
  BY DEF S!CalmInv, S!CalmScene, S!Next, S!Keep, S!vars
<1>2. CASE UNCHANGED S!vars
  BY <1>1, <1>2 DEF S!vars, S!Calm, S!CalmObjects, S!CalmThread, S!CalmScene, S!NewLogin, S!InLogin
<1>3. CASE S!Advance
  <2>1. \A e \in {"clear", "loginFails", "age"} : ~S!Happens(e)
    BY <1>1 DEF S!Happens, S!CalmScene
  <2>2. ~S!ClearSession /\ (\A a : ~S!Age(a)) /\ (\A t : ~S!LoginFails(t))
    BY <2>1 DEF S!ClearSession, S!Age, S!LoginFails
  <2>3. ASSUME NEW t \in S!Threads, S!Answers(t) PROVE S!Calm'
    BY <1>1, <2>2, <2>3, CalmSessions, CalmClients, CalmReplies, CalmDone, CalmArounds DEF S!Answers
  <2>. QED  BY <1>1, <1>3, <2>2, <2>3, CalmBegins, CalmArounds DEF S!Advance, S!Threads
<1>. QED  BY <1>2, <1>3 DEF S!Next, S!Keep

\* Whenever the broker revokes tokens, pages are opened and the service is restarted, and
\* however many threads call at a time: as long as nobody is logged out and no session
\* gets old, the service and the web share one object.
THEOREM OneClientCorrect == ASSUME S!SessionAssumption PROVE S!Spec => []S!OneClientCalm
<1>1. S!Init => S!Typed /\ S!CalmInv
  <2>1. S!Init => S!CalmInv
    BY DEF S!Init, S!CalmInv, S!Calm, S!CalmObjects, S!CalmThread, S!CalmScene, S!NewLogin,
       S!InLogin, S!Idle, S!Threads
  <2>. QED  BY <2>1, SessionStart
<1>2. S!Typed /\ S!CalmInv /\ [S!Next]_S!vars => (S!Typed /\ S!CalmInv)'
  BY SessionSteps, TypedKept, CalmKept
<1>3. S!Typed /\ S!CalmInv => S!OneClientCalm
  BY DEF S!CalmInv, S!Calm, S!CalmObjects, S!CalmScene, S!OneClientCalm, S!OneClient
<1>. QED  BY <1>1, <1>2, <1>3, PTL DEF S!Spec
=============================================================================
