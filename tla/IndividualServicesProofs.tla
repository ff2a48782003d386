------------------------ MODULE IndividualServicesProofs ------------------------
(***************************************************************************)
(* Proofs about IndividualServices for any number of runs, processes and   *)
(* requests and every combination of events.                               *)
(***************************************************************************)
EXTENDS IndividualServices, FiniteSetTheorems, TLAPS

-----------------------------------------------------------------------------
(* The type invariant *)

RowType     == [status : {"none", "running", "success", "failed"}, old : BOOLEAN]
RunType     == [outer : {"none", "wait", "close", "over"}, inner : {"idle", "busy"}]
ServiceType == [running : BOOLEAN, pid : Procs \cup {NoProc}]
ReqType     == [pc : {"idle", "clean", "check", "create", "register", "start", "stop", "spawned",
                      "marked", "handle", "kill"},
                run : Runs \cup {NoRun}, proc : Procs \cup {NoProc}, cleaned : BOOLEAN]
PageType    == [pc : {"idle", "write"}, verdict : {"none", "heal", "dead"}, pid : Procs \cup {NoProc}]

\* What the type invariant says, and what a request and the page hold.  Only a request that
\* has started a run knows its number, and one that has started a process knows that.
Typed ==
    /\ TypeOK
    /\ req \in [Requests -> ReqType] /\ page \in PageType
    /\ \A r \in Requests : /\ At(r, "register") => req[r].run \in Runs
                           /\ req[r].pc \in {"spawned", "marked", "handle"} => req[r].proc \in Procs

\* A request stays well typed when a field of it changes.
LEMMA ReqFields ==
    ASSUME NEW q \in ReqType
    PROVE  /\ \A pc \in {"idle", "clean", "check", "create", "register", "start", "stop", "spawned",
                         "marked", "handle", "kill"} :
                  /\ [q EXCEPT !.pc = pc] \in ReqType
                  /\ \A b \in BOOLEAN : [[q EXCEPT !.pc = pc] EXCEPT !.cleaned = b] \in ReqType
                  /\ \A i \in Runs : [[q EXCEPT !.pc = pc] EXCEPT !.run = i] \in ReqType
                  /\ \A p \in Procs \cup {NoProc} : [[q EXCEPT !.pc = pc] EXCEPT !.proc = p] \in ReqType
BY ZenonT(30) DEF ReqType

\* So is an idle request.
LEMMA IdleTyped == Idle \in ReqType /\ Idle.pc = "idle" /\ [Idle EXCEPT !.pc = "start"] \in ReqType
<1>1. Idle \in ReqType
  BY DEF Idle, ReqType
<1>2. Idle.pc = "idle"
  BY DEF Idle
<1> QED
  BY <1>1, <1>2, ReqFields

\* Rows, runs and the status row stay well typed when a field of them changes.
LEMMA RowFields ==
    /\ \A w \in RowType : /\ \A st \in {"none", "running", "success", "failed"} : [w EXCEPT !.status = st] \in RowType
                          /\ [w EXCEPT !.old = TRUE] \in RowType
    /\ \A u \in RunType : /\ \A st \in {"none", "wait", "close", "over"} : [u EXCEPT !.outer = st] \in RunType
                          /\ [u EXCEPT !.inner = "idle"] \in RunType
    /\ \A s \in ServiceType : \A b \in BOOLEAN : [s EXCEPT !.running = b] \in ServiceType
BY DEF RowType, RunType, ServiceType

\* Giving rows a status leaves the others alone.
LEMMA SetStatusIs ==
    ASSUME rows \in [Runs -> RowType]
    PROVE  \A S : \A st \in {"none", "running", "success", "failed"} :
               SetStatus(S, st) =>
                   /\ rows' \in [Runs -> RowType]
                   /\ \A i \in Runs : rows'[i].status = IF i \in S THEN st ELSE rows[i].status
                   /\ \A i \in Runs : rows'[i].old = rows[i].old
<1> SUFFICES ASSUME NEW S, NEW st \in {"none", "running", "success", "failed"}, SetStatus(S, st)
             PROVE  /\ rows' \in [Runs -> RowType]
                    /\ \A i \in Runs : /\ rows'[i].status = IF i \in S THEN st ELSE rows[i].status
                                       /\ rows'[i].old = rows[i].old
  OBVIOUS
<1>1. \A i \in Runs : rows[i] \in RowType /\ [rows[i] EXCEPT !.status = st] \in RowType
  BY RowFields
<1>2. \A i \in Runs : rows'[i] = IF i \in S THEN [rows[i] EXCEPT !.status = st] ELSE rows[i]
  BY DEF SetStatus
<1>3. rows' = [i \in Runs |-> rows'[i]]
  BY DEF SetStatus
<1>4. rows' \in [Runs -> RowType]
  <2>1. \A i \in Runs : rows'[i] \in RowType
    BY <1>1, <1>2
  <2> QED
    BY <1>3, <2>1
<1> QED
  BY <1>1, <1>2, <1>4 DEF RowType

\* A clean-up fails the orphans and nothing else.
LEMMA CleanUpIs ==
    rows \in [Runs -> RowType] /\ registered \in Runs \cup {NoRun} /\ CleanUp =>
        /\ rows' \in [Runs -> RowType] /\ registered' \in Runs \cup {NoRun}
        /\ \A i \in Runs : rows'[i].status = IF i \in Orphans THEN "failed" ELSE rows[i].status
        /\ \A i \in Runs : rows'[i].old = rows[i].old
        /\ Orphans = {} => rows' = rows /\ registered' = registered
<1> HAVE rows \in [Runs -> RowType] /\ registered \in Runs \cup {NoRun} /\ CleanUp
<1>1. SetStatus(Orphans, "failed") /\ registered' = IF Orphans # {} THEN NoRun ELSE registered
  BY DEF CleanUp
<1>2. Orphans = {} => rows' = rows
  <2>1. Orphans = {} => rows' = [i \in Runs |-> rows[i]]
    BY <1>1 DEF SetStatus
  <2> QED
    BY <2>1
<1> QED
  BY <1>1, <1>2, SetStatusIs

\* What the page makes of the status row, and what it writes.
LEMMA PageTyped ==
    /\ Verdict \in {"none", "heal", "dead"}
    /\ \A v \in {"none", "heal", "dead"} : \A pid \in Procs \cup {NoProc} :
           service \in ServiceType /\ handle \in Procs \cup {NoProc} /\ Healed(v, pid)
               => service' \in ServiceType /\ handle' \in Procs \cup {NoProc}
<1>1. Verdict \in {"none", "heal", "dead"}
  BY DEF Verdict
<1>2. \A v \in {"none", "heal", "dead"} : \A pid \in Procs \cup {NoProc} :
           service \in ServiceType /\ handle \in Procs \cup {NoProc} /\ Healed(v, pid)
               => service' \in ServiceType /\ handle' \in Procs \cup {NoProc}
  BY DEF Healed, ServiceType, Stopped
<1> QED
  BY <1>1, <1>2

\* The steps of a request stay within the types.
LEMMA RequestTyped ==
    ASSUME NEW r \in Requests
    PROVE  Typed /\ (BeginRun(r) \/ BeginService(r) \/ Proceed(r)) /\ UNCHANGED exposed => Typed'
<1> SUFFICES ASSUME Typed, BeginRun(r) \/ BeginService(r) \/ Proceed(r), UNCHANGED exposed PROVE Typed'
  OBVIOUS
<1> USE IndividualAssumption
<1>1. /\ rows \in [Runs -> RowType] /\ runs \in [Runs -> RunType] /\ registered \in Runs \cup {NoRun}
      /\ service \in ServiceType /\ procs \in [Procs -> {"none", "boot", "loop", "closing", "ended", "gone"}]
      /\ handle \in Procs \cup {NoProc} /\ req \in [Requests -> ReqType] /\ req[r] \in ReqType
  BY DEF Typed, TypeOK, RowType, RunType, ServiceType
<1>2. UNCHANGED <<page, unified>>
  BY DEF BeginRun, BeginService, Proceed, Clean, Check, Create, Register, Spawn, Spawned, NextExecution,
         KeepHandle, Stop, Kill
<1>3. events' \subseteq EventKinds
  BY DEF BeginRun, BeginService, Proceed, Clean, Check, Create, Register, Spawn, Spawned, NextExecution,
         KeepHandle, Stop, Kill, Happens, Typed, TypeOK
<1>4. SUFFICES /\ rows' \in [Runs -> RowType] /\ runs' \in [Runs -> RunType] /\ registered' \in Runs \cup {NoRun}
               /\ service' \in ServiceType /\ procs' \in [Procs -> {"none", "boot", "loop", "closing", "ended", "gone"}]
               /\ handle' \in Procs \cup {NoProc}
               /\ \E new \in ReqType :
                      /\ req' = [req EXCEPT ![r] = new]
                      /\ new.pc = "register" => new.run \in Runs
                      /\ new.pc \in {"spawned", "marked", "handle"} => new.proc \in Procs
  <2> SUFFICES ASSUME /\ rows' \in [Runs -> RowType] /\ runs' \in [Runs -> RunType] /\ registered' \in Runs \cup {NoRun}
                      /\ service' \in ServiceType /\ procs' \in [Procs -> {"none", "boot", "loop", "closing", "ended", "gone"}]
                      /\ handle' \in Procs \cup {NoProc},
                      NEW new \in ReqType, req' = [req EXCEPT ![r] = new],
                      new.pc = "register" => new.run \in Runs,
                      new.pc \in {"spawned", "marked", "handle"} => new.proc \in Procs
               PROVE  Typed'
    OBVIOUS
  <2>1. req' \in [Requests -> ReqType] /\ \A q \in Requests : req'[q] = IF q = r THEN new ELSE req[q]
    BY <1>1
  <2>2. \A q \in Requests : /\ req'[q].pc = "register" => req'[q].run \in Runs
                            /\ req'[q].pc \in {"spawned", "marked", "handle"} => req'[q].proc \in Procs
                            /\ req'[q] \in ReqType
    BY <2>1 DEF Typed, At
  <2>3. TypeOK'
    BY <1>2, <1>3, <2>2 DEF Typed, TypeOK, RowType, RunType, ServiceType, ReqType
  <2> QED
    BY <1>2, <2>1, <2>2, <2>3 DEF Typed, At
<1>5. Idle \in ReqType /\ Idle.pc = "idle"
  BY IdleTyped
<1>6. CASE BeginRun(r)
  <2>1. [req[r] EXCEPT !.pc = "clean"] \in ReqType
    BY <1>1, ReqFields
  <2> QED
    BY <1>1, <1>6, <2>1 DEF BeginRun, Goto, runVars, procVars, ReqType
<1>7. CASE BeginService(r)
  <2>1. [req[r] EXCEPT !.pc = "start"] \in ReqType /\ [req[r] EXCEPT !.pc = "stop"] \in ReqType
    BY <1>1, ReqFields
  <2> QED
    BY <1>1, <1>7, <2>1 DEF BeginService, Goto, runVars, procVars, ReqType
<1>8. CASE Clean(r)
  <2>1. [[req[r] EXCEPT !.pc = "check"] EXCEPT !.cleaned = (Orphans # {})] \in ReqType
    BY <1>1, ReqFields
  <2>2. rows' \in [Runs -> RowType] /\ registered' \in Runs \cup {NoRun}
    BY <1>1, <1>8, CleanUpIs DEF Clean
  <2>3. req' = [req EXCEPT ![r] = [[req[r] EXCEPT !.pc = "check"] EXCEPT !.cleaned = (Orphans # {})]]
    BY <1>1, <1>8 DEF Clean
  <2> QED
    BY <1>1, <1>8, <2>1, <2>2, <2>3 DEF Clean, procVars, ReqType
<1>9. CASE Check(r)
  <2>1. [req[r] EXCEPT !.pc = "create"] \in ReqType
    BY <1>1, ReqFields
  <2> QED
    BY <1>1, <1>5, <1>9, <2>1 DEF Check, Goto, Finish, runVars, procVars, ReqType
<1>10. CASE Create(r)
  <2>1. PICK i \in Runs : /\ rows' = [rows EXCEPT ![i].status = "running"]
                          /\ runs' = [runs EXCEPT ![i] = [outer |-> "wait", inner |-> "busy"]]
                          /\ req' = [req EXCEPT ![r].pc = "register", ![r].run = i]
    BY <1>10 DEF Create
  <2>2. [[req[r] EXCEPT !.pc = "register"] EXCEPT !.run = i] \in ReqType
    BY <1>1, ReqFields
  <2>3. req' = [req EXCEPT ![r] = [[req[r] EXCEPT !.pc = "register"] EXCEPT !.run = i]]
    BY <1>1, <2>1
  <2>4. [rows[i] EXCEPT !.status = "running"] \in RowType
    BY <1>1, RowFields
  <2>5. rows' \in [Runs -> RowType] /\ runs' \in [Runs -> RunType]
    BY <1>1, <2>1, <2>4 DEF RunType
  <2> QED
    BY <1>1, <1>10, <2>2, <2>3, <2>5 DEF Create, procVars, ReqType
<1>11. CASE Register(r)
  BY <1>1, <1>5, <1>11 DEF Register, Finish, procVars, ReqType
<1>12. CASE Spawn(r)
  <2>1. CASE Finish(r) /\ UNCHANGED procs
    BY <1>1, <1>5, <1>12, <2>1 DEF Spawn, Finish, runVars
  <2>2. CASE ~(Finish(r) /\ UNCHANGED procs)
    <3>1. PICK p : /\ p = (CHOOSE q \in Spare : TRUE) /\ Spare # {}
                   /\ procs' = [Gone(Lost) EXCEPT ![p] = "boot"]
                   /\ req' = [req EXCEPT ![r].pc = "spawned", ![r].proc = p]
      BY <1>12, <2>2 DEF Spawn
    <3>2. p \in Procs
      BY <3>1 DEF Spare, Lost
    <3>3. [[req[r] EXCEPT !.pc = "spawned"] EXCEPT !.proc = p] \in ReqType
      BY <1>1, <3>2, ReqFields
    <3>4. req' = [req EXCEPT ![r] = [[req[r] EXCEPT !.pc = "spawned"] EXCEPT !.proc = p]]
      BY <1>1, <3>1
    <3>5. procs' \in [Procs -> {"none", "boot", "loop", "closing", "ended", "gone"}]
      BY <1>1, <3>1, <3>2 DEF Gone
    <3> QED
      BY <1>1, <1>12, <3>2, <3>3, <3>4, <3>5 DEF Spawn, runVars, ReqType
  <2> QED
    BY <2>1, <2>2
<1>13. CASE Spawned(r)
  <2>1. [req[r] EXCEPT !.pc = "marked"] \in ReqType /\ req[r].proc \in Procs
    BY <1>1, <1>13, ReqFields DEF Spawned, Typed, At
  <2>2. procs' \in [Procs -> {"none", "boot", "loop", "closing", "ended", "gone"}] /\ service' \in ServiceType
    <3>1. [running |-> TRUE, pid |-> req[r].proc] \in ServiceType
      BY <2>1 DEF ServiceType
    <3>2. service' \in ServiceType
      BY <1>1, <1>13, <3>1 DEF Spawned
    <3>3. procs' \in [Procs -> {"none", "boot", "loop", "closing", "ended", "gone"}]
      BY <1>1, <1>13 DEF Spawned, Gone
    <3> QED
      BY <3>2, <3>3
  <2>3. Finish(r) \/ Goto(r, "marked")
    BY <1>13 DEF Spawned
  <2>4. UNCHANGED <<rows, runs, registered, handle>>
    BY <1>13 DEF Spawned, runVars
  <2>5. [req[r] EXCEPT !.pc = "marked"].proc = req[r].proc /\ [req[r] EXCEPT !.pc = "marked"].pc = "marked"
    BY <1>1 DEF ReqType
  <2> QED
    BY <1>1, <1>5, <2>1, <2>2, <2>3, <2>4, <2>5 DEF Finish, Goto
<1>14. CASE NextExecution(r)
  <2>1. [req[r] EXCEPT !.pc = "handle"] \in ReqType /\ req[r].proc \in Procs
    BY <1>1, <1>14, ReqFields DEF NextExecution, Typed, At
  <2>2. service' \in ServiceType
    BY <1>1, <1>14, RowFields DEF NextExecution
  <2>3. [req[r] EXCEPT !.pc = "handle"].proc = req[r].proc /\ [req[r] EXCEPT !.pc = "handle"].pc = "handle"
    BY <1>1 DEF ReqType
  <2> QED
    BY <1>1, <1>14, <2>1, <2>2, <2>3 DEF NextExecution, Goto, runVars
<1>15. CASE KeepHandle(r)
  BY <1>1, <1>5, <1>15 DEF KeepHandle, Finish, runVars, ReqType
<1>16. CASE Stop(r)
  <2>1. [[req[r] EXCEPT !.pc = "kill"] EXCEPT !.proc = handle] \in ReqType
    BY <1>1, ReqFields
  <2>2. \/ Finish(r)
        \/ req' = [req EXCEPT ![r] = [[req[r] EXCEPT !.pc = "kill"] EXCEPT !.proc = handle]]
    BY <1>1, <1>16 DEF Stop
  <2> QED
    BY <1>1, <1>5, <1>16, <2>1, <2>2 DEF Stop, Finish, runVars, procVars, ReqType
<1>17. CASE Kill(r)
  BY <1>1, <1>5, <1>17 DEF Kill, Finish, Gone, Stopped, runVars, ServiceType
<1> QED
  BY <1>6, <1>7, <1>8, <1>9, <1>10, <1>11, <1>12, <1>13, <1>14, <1>15, <1>16, <1>17 DEF Proceed

\* The steps of runs, of time, of processes, of the page and of the API process stay within
\* the types.
LEMMA OthersTyped ==
    (/\ Typed /\ UNCHANGED exposed
     /\ \/ \E i \in Runs : Thread(i) \/ Grow(i)
        \/ \E p \in Procs : Process(p)
        \/ Look \/ Write \/ Reap \/ Unified \/ Restart) => Typed'
<1> SUFFICES ASSUME Typed, UNCHANGED exposed,
                    \/ \E i \in Runs : Thread(i) \/ Grow(i)
                    \/ \E p \in Procs : Process(p)
                    \/ Look \/ Write \/ Reap \/ Unified \/ Restart
             PROVE  Typed'
  OBVIOUS
<1> USE IndividualAssumption
<1>1. /\ rows \in [Runs -> RowType] /\ runs \in [Runs -> RunType] /\ registered \in Runs \cup {NoRun}
      /\ service \in ServiceType /\ procs \in [Procs -> {"none", "boot", "loop", "closing", "ended", "gone"}]
      /\ handle \in Procs \cup {NoProc} /\ req \in [Requests -> ReqType] /\ page \in PageType
      /\ unified \in BOOLEAN /\ events \subseteq EventKinds
  BY DEF Typed, TypeOK, RowType, RunType, ServiceType
<1>2. SUFFICES /\ rows' \in [Runs -> RowType] /\ runs' \in [Runs -> RunType] /\ registered' \in Runs \cup {NoRun}
               /\ service' \in ServiceType /\ procs' \in [Procs -> {"none", "boot", "loop", "closing", "ended", "gone"}]
               /\ handle' \in Procs \cup {NoProc} /\ page' \in PageType
               /\ unified' \in BOOLEAN /\ events' \subseteq EventKinds
               /\ req' \in [Requests -> ReqType]
               /\ \A q \in Requests : req'[q] = req[q] \/ req'[q].pc \in {"idle", "start"}
  <2> SUFFICES ASSUME /\ rows' \in [Runs -> RowType] /\ runs' \in [Runs -> RunType] /\ registered' \in Runs \cup {NoRun}
                      /\ service' \in ServiceType /\ procs' \in [Procs -> {"none", "boot", "loop", "closing", "ended", "gone"}]
                      /\ handle' \in Procs \cup {NoProc} /\ page' \in PageType
                      /\ unified' \in BOOLEAN /\ events' \subseteq EventKinds
                      /\ req' \in [Requests -> ReqType],
                      \A q \in Requests : req'[q] = req[q] \/ req'[q].pc \in {"idle", "start"}
               PROVE  Typed'
    OBVIOUS
  <2>1. \A q \in Requests : /\ req'[q].pc = "register" => req'[q].run \in Runs
                            /\ req'[q].pc \in {"spawned", "marked", "handle"} => req'[q].proc \in Procs
                            /\ req'[q] \in ReqType
    BY DEF Typed, At
  <2>2. TypeOK'
    <3>1. \A q \in Requests : req'[q].run \in Runs \cup {NoRun} /\ req'[q].proc \in Procs \cup {NoProc}
      BY <2>1 DEF ReqType
    <3>2. page'.verdict \in {"none", "heal", "dead"}
      BY DEF PageType
    <3>3. exposed' \in Exposures
      BY DEF Typed, TypeOK
    <3> QED
      BY <3>1, <3>2, <3>3 DEF TypeOK, RowType, RunType, ServiceType
  <2> QED
    BY <2>1, <2>2 DEF Typed, At
<1>3. ASSUME NEW i \in Runs, Thread(i) \/ Grow(i)
      PROVE  /\ UNCHANGED <<procs, handle, req, page, unified>>
             /\ rows' \in [Runs -> RowType] /\ runs' \in [Runs -> RunType] /\ registered' \in Runs \cup {NoRun}
             /\ service' \in ServiceType /\ events' \subseteq EventKinds
  <2>1. CASE TaskEnds(i)
    <3>1. [runs[i] EXCEPT !.inner = "idle"] \in RunType
      BY <1>1, RowFields
    <3> QED
      BY <1>1, <2>1, <3>1 DEF TaskEnds, procVars
  <2>2. CASE Outcome(i)
    <3>1. [runs[i] EXCEPT !.outer = "close"] \in RunType
      BY <1>1, RowFields
    <3>2. /\ runs' = [runs EXCEPT ![i] = [runs[i] EXCEPT !.outer = "close"]]
          /\ UNCHANGED <<registered, procs, handle, req, page, unified>>
      BY <2>2 DEF Outcome
    <3>3. events' \subseteq EventKinds
      BY <1>1, <2>2 DEF Outcome, Happens, Typed, TypeOK
    <3>4. CASE \E status \in Verdicts(i) :
                   /\ SetStatus({i}, status)
                   /\ service' = IF status = "success" THEN [service EXCEPT !.running = FALSE]
                                                       ELSE service
      <4>1. PICK status \in Verdicts(i) :
                   /\ SetStatus({i}, status)
                   /\ service' = IF status = "success" THEN [service EXCEPT !.running = FALSE]
                                                       ELSE service
        BY <3>4
      <4>2. status \in {"none", "running", "success", "failed"}
        BY DEF Verdicts
      <4>3. rows' \in [Runs -> RowType]
        BY <1>1, <4>1, <4>2, SetStatusIs
      <4>4. [service EXCEPT !.running = FALSE] \in ServiceType
        BY <1>1, RowFields
      <4> QED
        BY <1>1, <3>1, <3>2, <3>3, <4>1, <4>3, <4>4
    <3>5. CASE UNCHANGED <<rows, service>>
      BY <1>1, <3>1, <3>2, <3>3, <3>5
    <3> QED
      BY <2>2, <3>4, <3>5 DEF Outcome
  <2>3. CASE Release(i)
    <3>1. [runs[i] EXCEPT !.outer = "over"] \in RunType
      BY <1>1, RowFields
    <3> QED
      BY <1>1, <2>3, <3>1 DEF Release, procVars
  <2>4. CASE Grow(i)
    <3>1. [rows[i] EXCEPT !.old = TRUE] \in RowType
      BY <1>1, RowFields
    <3> QED
      BY <1>1, <2>4, <3>1 DEF Grow, procVars
  <2> QED
    BY <1>3, <2>1, <2>2, <2>3, <2>4 DEF Thread
<1>4. ASSUME NEW p \in Procs, Process(p)
      PROVE  /\ UNCHANGED <<rows, runs, registered, handle, req, page, unified>>
             /\ procs' \in [Procs -> {"none", "boot", "loop", "closing", "ended", "gone"}]
             /\ service' \in ServiceType /\ events' \subseteq EventKinds
  <2>1. CASE MarkSelf(p)
    BY <1>1, <2>1, RowFields DEF MarkSelf, runVars
  <2>2. CASE LoopFails(p)
    BY <1>1, <2>2 DEF LoopFails, runVars, Stopped, ServiceType
  <2>3. CASE ProcessEnds(p)
    BY <1>1, <2>3 DEF ProcessEnds, Happens, runVars, Typed, TypeOK
  <2> QED
    BY <1>4, <2>1, <2>2, <2>3 DEF Process
<1>5. ASSUME Look
      PROVE  /\ UNCHANGED <<runs, req, unified, events>>
             /\ rows' \in [Runs -> RowType] /\ registered' \in Runs \cup {NoRun}
             /\ procs' \in [Procs -> {"none", "boot", "loop", "closing", "ended", "gone"}]
             /\ service' \in ServiceType /\ handle' \in Procs \cup {NoProc} /\ page' \in PageType
  <2>1. rows' \in [Runs -> RowType] /\ registered' \in Runs \cup {NoRun}
    BY <1>1, <1>5, CleanUpIs DEF Look
  <2>2. procs' \in [Procs -> {"none", "boot", "loop", "closing", "ended", "gone"}]
    BY <1>1, <1>5 DEF Look, Gone
  <2>3. service.pid \in Procs \cup {NoProc}
    BY <1>1 DEF ServiceType
  <2>4. [pc |-> "write", verdict |-> Verdict, pid |-> service.pid] \in PageType
    BY <2>3, PageTyped DEF PageType
  <2>5. service' \in ServiceType /\ handle' \in Procs \cup {NoProc} /\ page' \in PageType
    BY <1>1, <1>5, <2>3, <2>4, PageTyped DEF Look
  <2> QED
    BY <1>5, <2>1, <2>2, <2>5 DEF Look
<1>6. ASSUME Write
      PROVE  /\ UNCHANGED <<rows, runs, registered, procs, req, unified, events>>
             /\ service' \in ServiceType /\ handle' \in Procs \cup {NoProc} /\ page' \in PageType
  <2>1. page.verdict \in {"none", "heal", "dead"} /\ page.pid \in Procs \cup {NoProc}
    BY <1>1 DEF PageType
  <2>2. service' \in ServiceType /\ handle' \in Procs \cup {NoProc}
    BY <1>1, <1>6, <2>1, PageTyped DEF Write
  <2> QED
    BY <1>6, <2>2 DEF Write, PageType, runVars
<1>7. ASSUME Restart
      PROVE  /\ UNCHANGED <<rows, unified>> /\ events' \subseteq EventKinds
             /\ runs' \in [Runs -> RunType] /\ registered' = NoRun /\ handle' = NoProc
             /\ procs' \in [Procs -> {"none", "boot", "loop", "closing", "ended", "gone"}]
             /\ service' \in ServiceType /\ page' \in PageType
             /\ req' \in [Requests -> ReqType]
             /\ \A q \in Requests : req'[q].pc \in {"idle", "start"}
  <2>1. [outer |-> "over", inner |-> "idle"] \in RunType
    BY DEF RunType
  <2>2. runs' \in [Runs -> RunType]
    BY <1>1, <1>7, <2>1 DEF Restart
  <2>3. req' \in [Requests -> ReqType] /\ \A q \in Requests : req'[q].pc \in {"idle", "start"}
    <3>1. [Idle EXCEPT !.pc = "start"].pc = "start"
      BY DEF Idle
    <3>2. PICK b : req' = [q \in Requests |-> IF service.running /\ q = b
                                              THEN [Idle EXCEPT !.pc = "start"] ELSE Idle]
      BY <1>7 DEF Restart
    <3> QED
      BY <3>1, <3>2, IdleTyped
  <2>4. events' \subseteq EventKinds
    BY <1>1, <1>7 DEF Restart, Happens, Typed, TypeOK
  <2> QED
    BY <1>1, <1>7, <2>2, <2>3, <2>4 DEF Restart, Gone, Stopped, ServiceType, PageType
<1>8. CASE Reap
  BY <1>1, <1>8 DEF Reap, Gone, Stopped, ServiceType, runVars
<1>9. CASE Unified
  BY <1>1, <1>9 DEF Unified, Happens, runVars, procVars, Typed, TypeOK
<1> QED
  BY <1>1, <1>3, <1>4, <1>5, <1>6, <1>7, <1>8, <1>9

\* The API process starts within the types.
LEMMA InitTyped == Init => Typed
<1> SUFFICES ASSUME Init PROVE Typed
  OBVIOUS
<1>1. req \in [Requests -> ReqType] /\ \A r \in Requests : req[r] = Idle
  BY IdleTyped DEF Init
<1>2. \A r \in Requests : /\ req[r].run \in Runs \cup {NoRun} /\ req[r].proc \in Procs \cup {NoProc}
                          /\ req[r].pc = "idle"
  BY <1>1, IdleTyped DEF ReqType
<1>3. page \in PageType /\ page.verdict = "none"
  BY DEF Init, PageType
<1>4. rows \in [Runs -> RowType] /\ runs \in [Runs -> RunType]
  BY DEF Init, RowType, RunType
<1>5. service \in ServiceType /\ procs \in [Procs -> {"none", "boot", "loop", "closing", "ended", "gone"}]
  BY DEF Init, Stopped, ServiceType
<1>6. TypeOK
  BY <1>2, <1>3, <1>4, <1>5 DEF Init, TypeOK, RowType, RunType, ServiceType
<1> QED
  BY <1>1, <1>2, <1>3, <1>6 DEF Typed, At

\* No step leaves the types.
LEMMA StepTyped == Typed /\ [Next]_vars => Typed'
<1>1. ASSUME Typed, Next PROVE Typed'
  BY <1>1, RequestTyped, OthersTyped DEF Next, Keep, Advance
<1>2. ASSUME Typed, UNCHANGED vars PROVE Typed'
  BY <1>2 DEF vars, Typed, TypeOK, At
<1> QED
  BY <1>1, <1>2

\* Every variable stays within its type, whatever the requests, the runs, the processes, the
\* page and a restart do, in any order.
THEOREM TypeCorrect == Spec => []TypeOK
<1>1. Typed => TypeOK
  BY DEF Typed
<1> QED
  BY <1>1, InitTyped, StepTyped, PTL DEF Spec

-----------------------------------------------------------------------------
(* Runs that do not overlap *)

Waits(i) == runs[i].outer = "wait"

\* One request is handled at a time, and no run winds down meanwhile.
OneRequest ==
    /\ \A r, q \in Requests : ~At(r, "idle") /\ ~At(q, "idle") => r = q
    /\ \A r \in Requests : ~At(r, "idle") => \A i \in Runs : runs[i].outer # "close"

\* A run nobody started holds nothing; a run that waits is the only one that is not over,
\* and the only one whose row is running.
OneWaits ==
    /\ \A i \in Runs : rows[i].status = "none" =>
           rows[i].old = FALSE /\ runs[i].outer = "none" /\ runs[i].inner = "idle"
    /\ \A i, j \in Runs : rows[i].status = "running" /\ rows[j].status = "running" => i = j
    /\ \A i \in Runs : Waits(i) => /\ rows[i].status = "running"
                                   /\ \A j \in Runs : j # i => runs[j].outer \notin {"wait", "close"}

\* Nobody's clean-up takes the row of a run that waits: its thread is registered, or its
\* request is about to register it and the row is young.
Guarded ==
    /\ \A i \in Runs : Waits(i) =>
           registered = i \/ \E r \in Requests : At(r, "register") /\ req[r].run = i
    /\ \A r \in Requests : At(r, "register") =>
           Waits(req[r].run) /\ rows[req[r].run].old = FALSE

\* A request that is about to start a run has seen that no row is running.
Asked ==
    \A r \in Requests :
        At(r, "create") \/ (At(r, "check") /\ req[r].cleaned = TRUE)
            => \A i \in Runs : rows[i].status # "running"

\* A task works only while its run waits for it.
InTime == \A i \in Runs : runs[i].inner = "busy" => Waits(i)

RunSafe == OneRequest /\ OneWaits /\ Guarded /\ Asked

RunsInv ==
    /\ Typed
    /\ "overlap" \notin exposed => RunSafe
    /\ "overlap" \notin exposed /\ "slow" \notin exposed => InTime

\* A clean-up leaves the row of a run that waits alone.
LEMMA CleanUpSpares ==
    Typed /\ RunSafe /\ CleanUp =>
        /\ \A i \in Runs : Waits(i) => i \notin Orphans
        /\ \A i \in Runs : Waits(i) => rows' = rows /\ registered' = registered
        /\ \A i \in Runs : rows'[i].status = "running" => rows[i].status = "running"
        /\ \A i \in Runs : rows'[i].status = "none" => rows[i].status = "none"
        /\ \A i \in Runs : rows'[i].old = rows[i].old
        /\ Orphans # {} => \A i \in Runs : rows'[i].status # "running"
<1> SUFFICES ASSUME Typed, RunSafe, CleanUp
             PROVE  /\ \A i \in Runs : Waits(i) => i \notin Orphans
                    /\ \A i \in Runs : Waits(i) => rows' = rows /\ registered' = registered
                    /\ \A i \in Runs : rows'[i].status = "running" => rows[i].status = "running"
                    /\ \A i \in Runs : rows'[i].status = "none" => rows[i].status = "none"
                    /\ \A i \in Runs : rows'[i].old = rows[i].old
                    /\ Orphans # {} => \A i \in Runs : rows'[i].status # "running"
  OBVIOUS
<1>1. rows \in [Runs -> RowType] /\ registered \in Runs \cup {NoRun}
  BY DEF Typed, TypeOK, RowType
<1>2. /\ \A i \in Runs : rows'[i].status = IF i \in Orphans THEN "failed" ELSE rows[i].status
      /\ \A i \in Runs : rows'[i].old = rows[i].old
      /\ Orphans = {} => rows' = rows /\ registered' = registered
  BY <1>1, CleanUpIs
<1>3. \A o \in Orphans : o \in Runs /\ rows[o].status = "running" /\ rows[o].old /\ ~ThreadAlive
  BY DEF Orphans, Running
<1>4. ASSUME NEW i \in Runs, Waits(i) PROVE i \notin Orphans
  <2>1. CASE registered = i
    <3>1. ThreadAlive
      BY <1>4, <2>1 DEF ThreadAlive, Waits, Runs, NoRun
    <3> QED
      BY <1>3, <3>1
  <2>2. CASE \E r \in Requests : At(r, "register") /\ req[r].run = i
    BY <1>3, <2>2 DEF RunSafe, Guarded
  <2> QED
    BY <1>4, <2>1, <2>2 DEF RunSafe, Guarded
<1>5. ASSUME NEW i \in Runs, Waits(i) PROVE Orphans = {}
  <2>1. \A o \in Orphans : o = i
    BY <1>3, <1>5 DEF RunSafe, OneWaits
  <2> QED
    BY <1>4, <1>5, <2>1
<1>6. ASSUME Orphans # {}, NEW i \in Runs PROVE rows'[i].status # "running"
  <2>1. PICK o \in Orphans : TRUE
    BY <1>6
  <2>2. rows[i].status = "running" => i = o
    BY <1>3, <2>1 DEF RunSafe, OneWaits
  <2> QED
    BY <1>2, <2>1, <2>2
<1> QED
  BY <1>2, <1>4, <1>5, <1>6

\* A request changes only what it holds itself.
LEMMA GotoIs ==
    ASSUME Typed, NEW r \in Requests, NEW new \in ReqType, req' = [req EXCEPT ![r] = new]
    PROVE  \A q \in Requests : req'[q] = IF q = r THEN new ELSE req[q]
BY DEF Typed

\* A request about something else than runs leaves them as they are.
LEMMA QuietRequestSafe ==
    ASSUME NEW r \in Requests, NEW new \in ReqType
    PROVE  /\ Typed /\ RunSafe /\ UNCHANGED runVars /\ req' = [req EXCEPT ![r] = new]
           /\ \/ ~At(r, "idle")
              \/ (\A q \in Requests : At(q, "idle")) /\ (\A i \in Runs : runs[i].outer # "close")
           /\ ~At(r, "register") /\ new.pc \notin {"check", "create", "register"}
           => RunSafe'
<1> SUFFICES ASSUME Typed, RunSafe, UNCHANGED runVars, req' = [req EXCEPT ![r] = new],
                    \/ ~At(r, "idle")
                    \/ (\A q \in Requests : At(q, "idle")) /\ (\A i \in Runs : runs[i].outer # "close"),
                    ~At(r, "register"), new.pc \notin {"check", "create", "register"}
             PROVE  RunSafe'
  OBVIOUS
<1>1. \A q \in Requests : req'[q] = IF q = r THEN new ELSE req[q]
  BY GotoIs
<1>2. OneRequest'
  BY <1>1 DEF RunSafe, OneRequest, At, runVars
<1>3. OneWaits'
  BY DEF RunSafe, OneWaits, Waits, runVars
<1>4. Guarded'
  BY <1>1 DEF RunSafe, Guarded, Waits, At, runVars
<1>5. Asked'
  BY <1>1 DEF RunSafe, Asked, At, runVars
<1> QED
  BY <1>2, <1>3, <1>4, <1>5 DEF RunSafe

\* A request for a run cleans up, asks, starts the run and registers its thread, while no other
\* request is handled.
LEMMA RunRequestSafe ==
    ASSUME NEW r \in Requests
    PROVE  Typed /\ Typed' /\ RunSafe /\ (Clean(r) \/ Check(r) \/ Create(r) \/ Register(r)) => RunSafe'
<1> SUFFICES ASSUME Typed, Typed', RunSafe, Clean(r) \/ Check(r) \/ Create(r) \/ Register(r)
             PROVE  RunSafe'
  OBVIOUS
<1>1. /\ rows \in [Runs -> RowType] /\ runs \in [Runs -> RunType] /\ req \in [Requests -> ReqType]
      /\ rows' \in [Runs -> RowType] /\ runs' \in [Runs -> RunType] /\ req' \in [Requests -> ReqType]
  BY DEF Typed, TypeOK, RowType, RunType
<1>2. ~At(r, "idle") /\ (\A i \in Runs : runs[i].outer # "close") /\ \A q \in Requests : q # r => At(q, "idle")
  BY DEF Clean, Check, Create, Register, RunSafe, OneRequest, At
<1>3. \A q \in Requests : q # r => req'[q] = req[q]
  BY <1>1 DEF Clean, Check, Create, Register, Goto, Finish
<1>4. CASE Clean(r)
  <2>1. UNCHANGED runs /\ CleanUp
    BY <1>4 DEF Clean
  <2>2. req'[r].pc = "check" /\ req'[r].cleaned = (Orphans # {})
    BY <1>1, <1>4 DEF Clean, ReqType
  <2>3. \A i \in Runs : ~Waits(i) \/ UNCHANGED <<rows, registered>>
    BY <2>1, CleanUpSpares
  <2>4. OneRequest'
    BY <1>2, <1>3, <2>1 DEF OneRequest, At
  <2>5. OneWaits'
    BY <2>1, <2>3, CleanUpSpares DEF RunSafe, OneWaits, Waits
  <2>6. Guarded'
    BY <1>2, <1>3, <1>4, <2>1, <2>2, <2>3 DEF RunSafe, Guarded, Waits, At, Clean
  <2>7. Asked'
    <3>1. req'[r].cleaned = TRUE => \A i \in Runs : rows'[i].status # "running"
      BY <2>1, <2>2, CleanUpSpares
    <3> QED
      BY <1>2, <1>3, <2>2, <3>1 DEF Asked, At
  <2> QED
    BY <2>4, <2>5, <2>6, <2>7 DEF RunSafe
<1>5. CASE Check(r)
  <2>1. UNCHANGED runVars /\ At(r, "check")
    BY <1>5 DEF Check
  <2>2. \/ req'[r].pc = "idle"
        \/ req'[r].pc = "create" /\ \A i \in Runs : rows[i].status # "running"
    <3>1. Finish(r) \/ (Goto(r, "create") /\ MayRun(r))
      BY <1>5 DEF Check
    <3>2. MayRun(r) => \A i \in Runs : rows[i].status # "running"
      <4>1. CASE req[r].cleaned
        BY <1>1, <2>1, <4>1 DEF RunSafe, Asked, ReqType
      <4>2. CASE ~req[r].cleaned
        BY <4>2 DEF MayRun, Running
      <4> QED
        BY <4>1, <4>2
    <3> QED
      BY <1>1, <3>1, <3>2, IdleTyped DEF Finish, Goto, ReqType
  <2>3. OneRequest' /\ OneWaits'
    BY <1>2, <1>3, <2>1 DEF RunSafe, OneRequest, OneWaits, Waits, At, runVars
  <2>4. Guarded'
    BY <1>2, <1>3, <2>1, <2>2 DEF RunSafe, Guarded, Waits, At, runVars
  <2>5. Asked'
    BY <1>2, <1>3, <2>1, <2>2 DEF Asked, At, runVars
  <2> QED
    BY <2>3, <2>4, <2>5 DEF RunSafe
<1>6. CASE Create(r)
  <2>1. PICK i \in Runs : /\ \A j \in Runs : rows[j].status = "none" <=> j >= i
                          /\ rows' = [rows EXCEPT ![i].status = "running"]
                          /\ runs' = [runs EXCEPT ![i] = [outer |-> "wait", inner |-> "busy"]]
                          /\ req' = [req EXCEPT ![r].pc = "register", ![r].run = i]
    BY <1>6 DEF Create
  <2>2. rows[i].status = "none" /\ rows[i].old = FALSE
    BY <2>1 DEF Runs, RunSafe, OneWaits
  <2>3. \A j \in Runs : rows[j].status # "running" /\ ~Waits(j)
    BY <1>6 DEF RunSafe, Asked, OneWaits, Create
  <2>4. /\ rows'[i].status = "running" /\ rows'[i].old = FALSE /\ Waits(i)'
        /\ \A j \in Runs : j # i => rows'[j] = rows[j] /\ runs'[j] = runs[j]
    BY <1>1, <2>1, <2>2 DEF RowType, Waits
  <2>5. req'[r].pc = "register" /\ req'[r].run = i
    BY <1>1, <2>1 DEF ReqType
  <2>6. OneRequest'
    BY <1>2, <1>3, <2>1, <2>4, ZenonT(30) DEF OneRequest, At, Waits
  <2>7. OneWaits'
    BY <1>2, <2>3, <2>4 DEF RunSafe, OneWaits, Waits
  <2>8. Guarded'
    BY <1>2, <1>3, <2>3, <2>4, <2>5 DEF Guarded, At, Waits
  <2>9. Asked'
    BY <1>2, <1>3, <2>5 DEF Asked, At
  <2> QED
    BY <2>6, <2>7, <2>8, <2>9 DEF RunSafe
<1>7. CASE Register(r)
  <2>1. UNCHANGED <<rows, runs>> /\ registered' = req[r].run /\ At(r, "register")
    BY <1>7 DEF Register
  <2>2. req'[r].pc = "idle"
    BY <1>1, <1>7, IdleTyped DEF Register, Finish
  <2>3. OneRequest' /\ OneWaits'
    BY <1>2, <1>3, <2>1, <2>2 DEF RunSafe, OneRequest, OneWaits, Waits, At
  <2>4. Guarded'
    <3>1. req[r].run \in Runs /\ Waits(req[r].run)
      BY <2>1 DEF Typed, RunSafe, Guarded
    <3>2. \A j \in Runs : Waits(j) => j = req[r].run
      BY <3>1 DEF RunSafe, OneWaits, Waits
    <3> QED
      BY <1>2, <1>3, <2>1, <2>2, <3>2 DEF Guarded, Waits, At
  <2>5. Asked'
    BY <1>2, <1>3, <2>2 DEF Asked, At
  <2> QED
    BY <2>3, <2>4, <2>5 DEF RunSafe
<1> QED
  BY <1>4, <1>5, <1>6, <1>7

\* The end of a task, of a run's wait and of its thread.
LEMMA ThreadSafe ==
    ASSUME NEW i \in Runs
    PROVE  /\ Typed /\ Typed' /\ RunSafe /\ "overlap" \notin exposed
           /\ Thread(i) \/ Grow(i)
           => RunSafe'
<1> SUFFICES ASSUME Typed, Typed', RunSafe, "overlap" \notin exposed, Thread(i) \/ Grow(i)
             PROVE  RunSafe'
  OBVIOUS
<1>1. /\ rows \in [Runs -> RowType] /\ runs \in [Runs -> RunType]
      /\ rows' \in [Runs -> RowType] /\ runs' \in [Runs -> RunType] /\ i # NoRun
  BY DEF Typed, TypeOK, RowType, RunType, Runs, NoRun
<1>2. UNCHANGED req
  BY DEF Thread, TaskEnds, Outcome, Release, Grow
<1>3. CASE TaskEnds(i)
  <2>1. UNCHANGED <<rows, registered>> /\ runs[i].inner = "busy" /\ runs' = [runs EXCEPT ![i].inner = "idle"]
    BY <1>3 DEF TaskEnds
  <2>2. \A j \in Runs : runs'[j].outer = runs[j].outer /\ (runs[j].inner = "idle" => runs'[j].inner = "idle")
    BY <1>1, <2>1 DEF RunType
  <2> QED
    BY <1>2, <2>1, <2>2 DEF RunSafe, OneRequest, OneWaits, Guarded, Asked, Waits, At
<1>4. CASE Outcome(i)
  <2>1. Waits(i) /\ UNCHANGED registered /\ runs' = [runs EXCEPT ![i].outer = "close"]
    BY <1>4 DEF Outcome, Waits
  <2>2. \A r \in Requests : At(r, "idle")
    BY <1>4 DEF Outcome, Apart
  <2>3. runs'[i].outer = "close" /\ runs'[i].inner = runs[i].inner /\ \A j \in Runs : j # i => runs'[j] = runs[j]
    BY <1>1, <2>1 DEF RunType
  <2>4. \A j \in Runs : ~Waits(j)'
    BY <2>1, <2>3 DEF RunSafe, OneWaits, Waits
  <2>5. /\ \A j \in Runs : rows'[j].status = "running" => rows[j].status = "running"
        /\ \A j \in Runs : rows'[j].status = "none" => rows'[j] = rows[j]
    <3>1. CASE UNCHANGED rows
      BY <3>1
    <3>2. CASE \E status \in Verdicts(i) : SetStatus({i}, status)
      <4>1. PICK status \in Verdicts(i) : SetStatus({i}, status)
        BY <3>2
      <4>2. status \in {"success", "failed"}
        BY DEF Verdicts
      <4>3. \A j \in Runs : rows'[j] = IF j = i THEN [rows[j] EXCEPT !.status = status] ELSE rows[j]
        BY <4>1 DEF SetStatus
      <4> QED
        BY <1>1, <4>2, <4>3 DEF RowType
    <3> QED
      BY <1>4, <3>1, <3>2 DEF Outcome
  <2>6. OneRequest' /\ Guarded' /\ Asked'
    BY <1>2, <2>2, <2>4 DEF OneRequest, Guarded, Asked, At
  <2>7. OneWaits'
    BY <2>1, <2>3, <2>4, <2>5 DEF RunSafe, OneWaits, Waits
  <2> QED
    BY <2>6, <2>7 DEF RunSafe
<1>5. CASE Release(i)
  <2>1. /\ UNCHANGED rows /\ runs[i].outer = "close" /\ runs' = [runs EXCEPT ![i].outer = "over"]
        /\ registered' = NoRun
    BY <1>5 DEF Release
  <2>2. \A r \in Requests : At(r, "idle")
    BY <2>1 DEF RunSafe, OneRequest
  <2>3. runs'[i].outer = "over" /\ runs'[i].inner = runs[i].inner /\ \A j \in Runs : j # i => runs'[j] = runs[j]
    BY <1>1, <2>1 DEF RunType
  <2>4. \A j \in Runs : ~Waits(j)'
    BY <2>1, <2>3 DEF RunSafe, OneWaits, Waits
  <2>5. OneRequest' /\ Guarded' /\ Asked'
    BY <1>2, <2>2, <2>4 DEF OneRequest, Guarded, Asked, At
  <2>6. OneWaits'
    BY <2>1, <2>3, <2>4 DEF RunSafe, OneWaits, Waits
  <2> QED
    BY <2>5, <2>6 DEF RunSafe
<1>6. CASE Grow(i)
  <2>1. /\ UNCHANGED <<runs, registered>> /\ rows[i].status = "running" /\ \A r \in Requests : req[r].run # i
        /\ rows' = [rows EXCEPT ![i].old = TRUE]
    BY <1>6 DEF Grow, Running
  <2>2. /\ \A j \in Runs : rows'[j].status = rows[j].status
        /\ \A j \in Runs : j # i => rows'[j] = rows[j]
    BY <1>1, <2>1 DEF RowType
  <2>3. OneRequest' /\ OneWaits' /\ Asked'
    BY <1>2, <2>1, <2>2 DEF RunSafe, OneRequest, OneWaits, Asked, Waits, At
  <2>4. Guarded'
    <3>1. \A r \in Requests : At(r, "register") => req[r].run \in Runs /\ req[r].run # i
      BY <2>1 DEF Typed
    <3> QED
      BY <1>2, <2>1, <2>2, <3>1 DEF RunSafe, Guarded, Waits, At
  <2> QED
    BY <2>3, <2>4 DEF RunSafe
<1> QED
  BY <1>3, <1>4, <1>5, <1>6 DEF Thread

\* The page, the worker, the processes and the end of the API process.
LEMMA RestSafe ==
    /\ Typed /\ Typed' /\ RunSafe
    /\ \/ \E p \in Procs : Process(p)
       \/ Look \/ Write \/ Reap \/ Unified \/ Restart
    => RunSafe'
<1> SUFFICES ASSUME Typed, Typed', RunSafe,
                    \/ \E p \in Procs : Process(p)
                    \/ Look \/ Write \/ Reap \/ Unified \/ Restart
             PROVE  RunSafe'
  OBVIOUS
<1>1. CASE UNCHANGED <<rows, runs, registered, req>>
  BY <1>1 DEF RunSafe, OneRequest, OneWaits, Guarded, Asked, Waits, At
<1>2. CASE Look
  <2>1. CleanUp /\ UNCHANGED <<runs, req>>
    BY <1>2 DEF Look
  <2>2. \A i \in Runs : ~Waits(i) \/ UNCHANGED <<rows, registered>>
    BY <2>1, CleanUpSpares
  <2>3. OneRequest' /\ Asked'
    BY <2>1, CleanUpSpares DEF RunSafe, OneRequest, Asked, At
  <2>4. OneWaits'
    BY <2>1, <2>2, CleanUpSpares DEF RunSafe, OneWaits, Waits
  <2>5. Guarded'
    BY <2>1, <2>2, CleanUpSpares DEF RunSafe, Guarded, Waits, At, Typed
  <2> QED
    BY <2>3, <2>4, <2>5 DEF RunSafe
<1>3. CASE Restart
  <2>1. /\ UNCHANGED rows
        /\ \A i \in Runs : runs'[i] = IF rows[i].status = "none" THEN runs[i]
                                      ELSE [outer |-> "over", inner |-> "idle"]
    BY <1>3 DEF Restart
  <2>2. PICK b : req' = [q \in Requests |-> IF service.running /\ q = b
                                            THEN [Idle EXCEPT !.pc = "start"] ELSE Idle]
    BY <1>3 DEF Restart
  <2>3. \A q \in Requests : req'[q].pc = "idle" \/ (req'[q].pc = "start" /\ q = b)
    <3>1. [Idle EXCEPT !.pc = "start"].pc = "start"
      BY DEF Idle
    <3> QED
      <4>1. \A q \in Requests : req'[q] = Idle \/ (req'[q] = [Idle EXCEPT !.pc = "start"] /\ q = b)
        BY <2>2
      <4>2. Idle.pc = "idle"
        BY IdleTyped
      <4> QED
        BY <3>1, <4>1, <4>2
  <2>4. \A i \in Runs : runs'[i].outer \in {"none", "over"}
    BY <2>1 DEF RunSafe, OneWaits
  <2>5. OneRequest' /\ Guarded' /\ Asked'
    BY <2>3, <2>4 DEF OneRequest, Guarded, Asked, Waits, At
  <2>6. OneWaits'
    BY <2>1, <2>4 DEF RunSafe, OneWaits, Waits
  <2> QED
    BY <2>5, <2>6 DEF RunSafe
<1> QED
  BY <1>1, <1>2, <1>3 DEF Process, MarkSelf, LoopFails, ProcessEnds, Write, Reap, Unified, runVars, procVars

\* No step of the system leaves the invariant of the runs.
LEMMA RunSafeStep ==
    Typed /\ Typed' /\ RunSafe /\ "overlap" \notin exposed /\ [Next]_vars => RunSafe'
<1> SUFFICES ASSUME Typed, Typed', RunSafe, "overlap" \notin exposed, [Next]_vars
             PROVE  RunSafe'
  OBVIOUS
<1>1. CASE UNCHANGED vars
  BY <1>1 DEF vars, RunSafe, OneRequest, OneWaits, Guarded, Asked, Waits, At
<1>2. ASSUME NEW r \in Requests, BeginRun(r) \/ BeginService(r) \/ Proceed(r)
      PROVE  RunSafe'
  <2>1. req[r] \in ReqType /\ req'[r] \in ReqType
    BY DEF Typed
  <2>2. CASE BeginRun(r) \/ BeginService(r)
    <3>1. /\ UNCHANGED runVars /\ At(r, "idle")
          /\ (\A q \in Requests : At(q, "idle")) /\ (\A i \in Runs : runs[i].outer # "close")
      BY <2>2 DEF BeginRun, BeginService, Calm, Apart
    <3>2. PICK pc \in {"clean", "start", "stop"} : req' = [req EXCEPT ![r].pc = pc]
      BY <2>2 DEF BeginRun, BeginService, Goto
    <3>3. [req[r] EXCEPT !.pc = pc] \in ReqType /\ [req[r] EXCEPT !.pc = pc].pc = pc
      BY <2>1, <3>2 DEF ReqType
    <3> QED
      BY <3>1, <3>2, <3>3, QuietRequestSafe DEF At
  <2>3. CASE Clean(r) \/ Check(r) \/ Create(r) \/ Register(r)
    BY <2>3, RunRequestSafe
  <2>4. CASE \/ Spawn(r) \/ Spawned(r) \/ NextExecution(r) \/ KeepHandle(r)
             \/ Stop(r) \/ Kill(r)
    <3>1. UNCHANGED runVars /\ ~At(r, "idle") /\ ~At(r, "register")
      BY <2>4 DEF Spawn, Spawned, NextExecution, KeepHandle, Stop, Kill, At
    <3>2. \E new : /\ req' = [req EXCEPT ![r] = new]
                   /\ new.pc \in {"idle", "spawned", "marked", "handle", "kill"}
      <4>1. \/ Finish(r)
            \/ \E p : req' = [req EXCEPT ![r].pc = "spawned", ![r].proc = p]
            \/ Goto(r, "marked") \/ Goto(r, "handle")
            \/ \E p : req' = [req EXCEPT ![r].pc = "kill", ![r].proc = p]
        BY <2>4 DEF Spawn, Spawned, NextExecution, KeepHandle, Stop, Kill
      <4>2. CASE Finish(r)
        BY <4>2, IdleTyped DEF Finish
      <4>3. ASSUME NEW p, NEW pc \in {"spawned", "kill"}, req' = [req EXCEPT ![r].pc = pc, ![r].proc = p]
            PROVE  \E new : /\ req' = [req EXCEPT ![r] = new]
                            /\ new.pc \in {"idle", "spawned", "marked", "handle", "kill"}
        <5>1. req' = [req EXCEPT ![r] = [[req[r] EXCEPT !.pc = pc] EXCEPT !.proc = p]]
          BY <4>3 DEF Typed
        <5>2. [[req[r] EXCEPT !.pc = pc] EXCEPT !.proc = p].pc = pc
          BY <2>1 DEF ReqType
        <5> QED
          BY <4>3, <5>1, <5>2
      <4>4. ASSUME NEW pc \in {"marked", "handle"}, Goto(r, pc)
            PROVE  \E new : /\ req' = [req EXCEPT ![r] = new]
                            /\ new.pc \in {"idle", "spawned", "marked", "handle", "kill"}
        <5>1. [req[r] EXCEPT !.pc = pc].pc = pc
          BY <2>1 DEF ReqType
        <5> QED
          BY <4>4, <5>1 DEF Goto
      <4> QED
        BY <4>1, <4>2, <4>3, <4>4
    <3>3. PICK new : /\ req' = [req EXCEPT ![r] = new]
                     /\ new.pc \in {"idle", "spawned", "marked", "handle", "kill"}
      BY <3>2
    <3>4. new = req'[r]
      BY <3>3 DEF Typed
    <3> QED
      BY <2>1, <3>1, <3>3, <3>4, QuietRequestSafe
  <2> QED
    BY <1>2, <2>2, <2>3, <2>4 DEF Proceed
<1>3. CASE \E i \in Runs : Thread(i) \/ Grow(i)
  BY <1>3, ThreadSafe
<1>4. CASE \/ \E p \in Procs : Process(p)
           \/ Look \/ Write \/ Reap \/ Unified \/ Restart
  BY <1>4, RestSafe
<1> QED
  BY <1>1, <1>2, <1>3, <1>4 DEF Next, Keep, Advance

\* Where no task exceeds its time, a task works only while its run waits for it.
LEMMA InTimeStep ==
    Typed /\ Typed' /\ InTime /\ "slow" \notin exposed /\ [Next]_vars => InTime'
<1> SUFFICES ASSUME Typed, Typed', InTime, "slow" \notin exposed, [Next]_vars,
                    NEW i \in Runs, runs'[i].inner = "busy"
             PROVE  Waits(i)'
  BY DEF InTime
<1>1. /\ runs \in [Runs -> RunType] /\ runs' \in [Runs -> RunType]
      /\ runs[i].inner = "busy" => runs[i].outer = "wait"
  BY DEF Typed, TypeOK, RunType, InTime, Waits
<1>2. CASE UNCHANGED runs
  BY <1>1, <1>2 DEF Waits
<1>3. CASE \E r \in Requests : Create(r)
  <2>1. PICK j \in Runs : runs' = [runs EXCEPT ![j] = [outer |-> "wait", inner |-> "busy"]]
    BY <1>3 DEF Create
  <2> QED
    BY <1>1, <2>1 DEF Waits
<1>4. CASE \E j \in Runs : TaskEnds(j) \/ Outcome(j) \/ Release(j)
  <2>1. PICK j \in Runs : TaskEnds(j) \/ Outcome(j) \/ Release(j)
    BY <1>4
  <2>2. CASE TaskEnds(j)
    BY <1>1, <2>2 DEF TaskEnds, Waits, RunType
  <2>3. CASE Outcome(j)
    <3>1. runs[j].inner = "idle" /\ runs' = [runs EXCEPT ![j].outer = "close"]
      BY <2>3 DEF Outcome, Happens
    <3> QED
      BY <1>1, <3>1 DEF Waits, RunType
  <2>4. CASE Release(j)
    BY <1>1, <2>4 DEF Release, Waits, RunType
  <2> QED
    BY <2>1, <2>2, <2>3, <2>4
<1>5. CASE Restart
  <2>1. runs'[i] = runs[i] \/ runs'[i] = [outer |-> "over", inner |-> "idle"]
    BY <1>5 DEF Restart
  <2> QED
    BY <1>1, <2>1 DEF Waits
<1> QED
  BY <1>2, <1>3, <1>4, <1>5
  DEF Next, Keep, Advance, vars, BeginRun, BeginService, Proceed, Clean, Check, Register, Spawn, Spawned,
      NextExecution, KeepHandle, Stop, Kill, Thread, Grow, Process, MarkSelf, LoopFails, ProcessEnds, Look,
      Write, Reap, Unified, runVars

\* The invariant holds of every behaviour.
LEMMA RunsInvHolds == Spec => []RunsInv
<1>1. Init => RunsInv
  <2> SUFFICES ASSUME Init PROVE RunsInv
    OBVIOUS
  <2>1. Typed
    BY InitTyped
  <2>2. \A r \in Requests : req[r].pc = "idle"
    BY IdleTyped DEF Init
  <2>3. \A i \in Runs : rows[i].status = "none" /\ rows[i].old = FALSE /\ runs[i].outer = "none" /\ runs[i].inner = "idle"
    BY DEF Init
  <2>4. OneRequest /\ Guarded /\ Asked /\ InTime
    BY <2>2, <2>3 DEF OneRequest, Guarded, Asked, InTime, Waits, At
  <2>5. OneWaits
    BY <2>3 DEF OneWaits, Waits
  <2> QED
    BY <2>1, <2>4, <2>5 DEF RunsInv, RunSafe
<1>2. RunsInv /\ [Next]_vars => RunsInv'
  <2> SUFFICES ASSUME RunsInv, [Next]_vars PROVE RunsInv'
    OBVIOUS
  <2>1. UNCHANGED exposed
    BY DEF Next, Keep, vars
  <2>2. Typed /\ Typed'
    BY StepTyped DEF RunsInv
  <2> QED
    BY <2>1, <2>2, RunSafeStep, InTimeStep DEF RunsInv
<1> QED
  BY <1>1, <1>2, PTL DEF Spec

\* Where no run is asked for while another request is handled or another run winds down: the
\* row of a run that waits for its task is the only one that says it runs, whatever the page, a
\* clean-up, a restart and the service do; and where no task exceeds its time, only one works.
THEOREM RunsAreKept == Spec => []RunsKept
<1>1. RunsInv => RunsKept
  <2> SUFFICES ASSUME RunsInv, "overlap" \notin exposed PROVE RunsKept
    BY DEF RunsKept
  <2>1. \A i \in Runs : Waits(i) => Running = {i}
    BY DEF RunsInv, RunSafe, OneWaits, Running
  <2>2. ASSUME "slow" \notin exposed PROVE Cardinality({i \in Runs : runs[i].inner = "busy"}) <= 1
    <3>1. \A i, j \in Runs : runs[i].inner = "busy" /\ runs[j].inner = "busy" => i = j
      BY <2>2 DEF RunsInv, RunSafe, OneWaits, InTime, Waits
    <3>2. CASE \E i \in Runs : runs[i].inner = "busy"
      <4>1. PICK i \in Runs : runs[i].inner = "busy"
        BY <3>2
      <4>2. {j \in Runs : runs[j].inner = "busy"} = {i}
        BY <3>1, <4>1
      <4> QED
        BY <4>2, FS_Singleton
    <3>3. CASE ~\E i \in Runs : runs[i].inner = "busy"
      <4>1. {j \in Runs : runs[j].inner = "busy"} = {}
        BY <3>3
      <4> QED
        BY <4>1, FS_EmptySet
    <3> QED
      BY <3>2, <3>3
  <2> QED
    BY <2>1, <2>2 DEF RunsKept, Waits
<1> QED
  BY <1>1, RunsInvHolds, PTL
=============================================================================
