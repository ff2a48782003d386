------------------------ MODULE TaskSchedulerProofs ------------------------
(***************************************************************************)
(* Proofs about TaskScheduler, for any tasks, times, timeouts and          *)
(* scenarios and any number of instances.                                  *)
(*                                                                         *)
(* TypeCorrect   every variable stays within its type.                     *)
(* StartCorrect  on a trading day every task of a service that was up for  *)
(*               its window starts, and nothing queues up behind a task.   *)
(* OnceCorrect   completion flags are of today where they are read, and a  *)
(*               task completed today is not started again.                *)
(*                                                                         *)
(* Two regimes need invariants of their own.  In calm (Calm) a pass ends   *)
(* within its minute, so what the loop has got past in the minute a task   *)
(* is due decides whether the task has been started and, for the cleanup,  *)
(* whether the flags are gone.  Without overlap (Alone) tasks take any     *)
(* time and the cleanup may fail, but one instance only is ever alive: a   *)
(* task done since it was started has its flag until the cleanup is due.   *)
(***************************************************************************)
EXTENDS TaskScheduler, TLAPS

Up(i) == svc[i].pc # "ended"

\* Every variable within its type, and a loop that waits waits for some task.
Typed ==
    /\ TypeOK
    /\ \A i \in Instances : svc[i].pc = "wait" => svc[i].next \in DOMAIN Order

-----------------------------------------------------------------------------
(* In calm *)

\* This minute's pass has got past task t.
Passed(i, t) ==
    \/ svc[i].pc = "sleep" /\ svc[i].last = minute
    \/ /\ svc[i].pc \in {"pass", "wait"}
       /\ \E k \in 1 .. svc[i].next - 1 : Order[k] = t
    \/ svc[i].pc = "wait" /\ Awaited(i) = t /\ t \notin Unfinished(i)

\* The worker runs nothing but the task the loop waits for, within the minute
\* in which it was submitted.
OneAtATime(i) ==
    /\ svc[i].pc # "wait" => svc[i].job = Idle
    /\ svc[i].pc = "wait" =>
           /\ svc[i].left > 0
           /\ Unfinished(i) \subseteq {Awaited(i)} /\ Window(i, Awaited(i))
           /\ (svc[i].queue # <<>> => svc[i].job = Idle)
    /\ svc[i].pc \in {"pass", "wait"} => svc[i].last = minute /\ day \in TradingDays
    /\ svc[i].job # Idle => svc[i].job \in tried

FlagsDone(i) ==
    /\ svc[i].flags \subseteq done \ {Cleanup}
    /\ svc[i].pc = "ended" => svc[i].flags = {}

\* From the cleanup to midnight, and on a holiday, no flag is set.
Cleaned(i) ==
    \/ day \notin TradingDays
    \/ minute > At[Cleanup]
    \/ minute = At[Cleanup] /\ Passed(i, Cleanup)
    => svc[i].flags = {}

Started(i) ==
    \A t \in OneShot :
        /\ Up(i) /\ day \in TradingDays /\ svc[i].born <= At[t]
        /\ minute > At[t] \/ (minute = At[t] /\ Passed(i, t))
        => t \in tried

CalmDay(i) == OneAtATime(i) /\ FlagsDone(i) /\ Cleaned(i) /\ Started(i)

CalmInv == Calm => \A i \in Instances : CalmDay(i)

-----------------------------------------------------------------------------
(* Without overlap *)

Alone == "overlap" \notin exposed

Alive(i) == Up(i) \/ svc[i].stop

OneAlive ==
    /\ \A i, j \in Instances : Alive(i) /\ Alive(j) => i = j
    /\ \A i \in Instances : svc[i].job # Idle => Alive(i)

\* What is done today is still flagged until the cleanup is due.
Remembered(i) ==
    Up(i) => \A t \in done \ {Monitor, Cleanup} :
                 svc[i].born < At[t] => t \in svc[i].flags \/ minute >= At[Cleanup]

QueuedIsNew(i) ==
    /\ svc[i].job \notin Queued(i)
    /\ \A t \in Queued(i) \ {Monitor, Cleanup} : svc[i].born < At[t] => t \notin done

\* A cleanup of yesterday that is still to be done finds nothing of today.
CleansLate(i) == Cleanup \in Unfinished(i) => tried = {} \/ minute >= At[Cleanup]

AloneInv ==
    Alone => /\ OneAlive
             /\ \A i \in Instances : Remembered(i) /\ QueuedIsNew(i) /\ CleansLate(i)

\* Nothing is started today before its time.
TriedInTime == \A t \in tried : minute >= At[t]

DayInv == Typed /\ NoBacklog /\ TriedInTime /\ CalmInv /\ AloneInv

-----------------------------------------------------------------------------
(* Types *)

\* The order is a sequence of tasks (Order).
LEMMA OrderType ==
    /\ Len(Order) \in Nat /\ DOMAIN Order = 1 .. Len(Order)
    /\ \A k \in DOMAIN Order : Order[k] \in Tasks
  BY TaskAssumption

\* The state record of an instance that has ended, or is started anew, is one
\* of its type (ServiceType).
LEMMA EndedType ==
    /\ Ended \in ServiceType
    /\ \A job \in Tasks \cup {Idle} :
           [Ended EXCEPT !.stop = TRUE, !.job = job] \in ServiceType
    /\ \A m \in Minutes : [Ended EXCEPT !.pc = "sleep", !.born = m] \in ServiceType
    /\ [Ended EXCEPT !.pc = "sleep"] \in ServiceType
<1>1. Ended \in ServiceType
  BY OrderType, TimeAssumption DEF Ended, ServiceType, Minutes
<1> QED
  BY <1>1 DEF Ended, ServiceType

\* Every variable is within its type in the initial states (Init).
LEMMA InitTyped == Init => Typed
<1> SUFFICES ASSUME Init PROVE Typed
  OBVIOUS
<1>1. svc \in [Instances -> ServiceType]
  BY EndedType DEF Init
<1>2. \A i \in Instances : svc[i].pc # "wait"
  BY DEF Init, Ended
<1>3. day \in Days /\ minute \in Minutes
  BY TimeAssumption DEF Init, Days, Minutes
<1>4. TypeOK
  BY <1>1, <1>3 DEF Init, TypeOK
<1> QED
  BY <1>2, <1>4 DEF Typed

\* A minute more leaves the record of an instance within its type (Elapsed).
LEMMA ElapsedType ==
  ASSUME TypeOK, NEW i \in Instances
  PROVE  Elapsed(i) \in ServiceType
<1> DEFINE left == IF svc[i].left > 0 THEN svc[i].left - 1 ELSE 0
           born == IF minute = DayLength - 1 THEN 0 ELSE svc[i].born
<1>1. svc[i] \in ServiceType
  BY DEF TypeOK
<1>2. left \in Nat /\ born \in Minutes
  BY <1>1, TimeAssumption DEF ServiceType, Minutes
<1>3. Elapsed(i) = [svc[i] EXCEPT !.left = left, !.born = born]
  BY DEF Elapsed
<1> HIDE DEF left, born
<1> QED
  BY <1>1, <1>2, <1>3 DEF ServiceType

\* Every step of an instance or of the clock keeps Typed.
LEMMA NextTyped == Typed /\ [Next]_vars => Typed'
<1> SUFFICES ASSUME Typed, [Next]_vars PROVE Typed'
  OBVIOUS
<1> DEFINE Same == UNCHANGED <<clock, history, stops, exposed>>
           SvcTyped == /\ svc' \in [Instances -> ServiceType]
                       /\ \A j \in Instances :
                              svc'[j].pc = "wait" => svc'[j].next \in DOMAIN Order
<1> USE DEF Typed
<1>0. ASSUME NEW i \in Instances, NEW new \in ServiceType,
             new.pc = "wait" => new.next \in DOMAIN Order,
             svc' = [svc EXCEPT ![i] = new]
      PROVE  SvcTyped
  BY <1>0 DEF TypeOK
<1>1. CASE UNCHANGED vars
  BY <1>1 DEF vars, clock, history, TypeOK
<1>2. ASSUME Same, SvcTyped PROVE Typed'
  BY <1>2 DEF TypeOK, clock, history
<1>3. ASSUME NEW i \in Instances, Wake(i), UNCHANGED exposed PROVE Typed'
  <2>1. minute \in 0 .. DayLength /\ 1 \in 1 .. Len(Order) + 1
    BY TimeAssumption, OrderType DEF TypeOK, Minutes
  <2> DEFINE pc  == IF day \in TradingDays THEN "pass" ELSE "sleep"
             new == [svc[i] EXCEPT !.last = minute, !.next = 1, !.pc = pc]
  <2>2. svc' = [svc EXCEPT ![i] = new]
    BY <1>3 DEF Wake, TypeOK
  <2>3. svc[i] \in ServiceType /\ pc \in {"pass", "sleep"}
    BY DEF TypeOK
  <2> HIDE DEF pc
  <2>4. new \in ServiceType /\ new.pc # "wait"
    BY <2>1, <2>3 DEF ServiceType
  <2> HIDE DEF new
  <2>5. SvcTyped
    BY <1>0, <2>2, <2>4
  <2> QED
    BY <1>2, <1>3, <2>5 DEF Wake
<1>4. ASSUME NEW i \in Instances, Submit(i), UNCHANGED exposed PROVE Typed'
  <2>1. PICK k \in DueNext(i) :
            svc' = [svc EXCEPT ![i].pc = "wait", ![i].next = k,
                               ![i].left = Timeout[Order[k]],
                               ![i].queue = Append(@, Order[k])]
    BY <1>4 DEF Submit
  <2>2. svc[i] \in ServiceType
    BY DEF TypeOK
  <2>3. k \in DOMAIN Order
    BY <2>2, OrderType DEF DueNext, ServiceType
  <2>4. /\ k \in 1 .. Len(Order) + 1 /\ Timeout[Order[k]] \in Nat
        /\ Append(svc[i].queue, Order[k]) \in Seq(Tasks)
    BY <2>2, <2>3, OrderType, TimeAssumption DEF ServiceType
  <2>5. SvcTyped
    BY <2>1, <2>3, <2>4, SMTT(20) DEF TypeOK, ServiceType
  <2> QED
    BY <1>2, <1>4, <2>5 DEF Submit
<1>5. ASSUME NEW i \in Instances, PassEnds(i), UNCHANGED exposed PROVE Typed'
  <2>1. SvcTyped
    BY <1>5, ZenonT(30) DEF PassEnds, TypeOK, ServiceType
  <2> QED
    BY <1>2, <1>5, <2>1 DEF PassEnds
<1>6. ASSUME NEW i \in Instances, WaitEnds(i), UNCHANGED exposed PROVE Typed'
  <2> DEFINE new == [svc[i] EXCEPT !.pc = "pass", !.next = @ + 1]
  <2>1. svc[i] \in ServiceType /\ svc[i].next + 1 \in 1 .. Len(Order) + 1
    BY <1>6, OrderType DEF WaitEnds, TypeOK
  <2>2. new \in ServiceType /\ new.pc # "wait"
    BY <2>1 DEF ServiceType
  <2>3. svc' = [svc EXCEPT ![i] = new]
    BY <1>6 DEF WaitEnds, TypeOK
  <2> HIDE DEF new
  <2>4. SvcTyped
    BY <1>0, <2>2, <2>3
  <2> QED
    BY <1>2, <1>6, <2>4 DEF WaitEnds
<1>7. ASSUME NEW i \in Instances, TimesOut(i), UNCHANGED exposed PROVE Typed'
  <2> DEFINE new == [svc[i] EXCEPT !.pc = "pass", !.next = @ + 1, !.queue = Cancelled(i)]
  <2>1. svc[i] \in ServiceType /\ svc[i].next + 1 \in 1 .. Len(Order) + 1
    BY <1>7, OrderType DEF TimesOut, TypeOK
  <2>2. Cancelled(i) \in Seq(Tasks)
    BY DEF TypeOK, ServiceType, Cancelled
  <2>3. new \in ServiceType /\ new.pc # "wait"
    BY <2>1, <2>2 DEF ServiceType
  <2>4. svc' = [svc EXCEPT ![i] = new]
    BY <1>7 DEF TimesOut, TypeOK
  <2> HIDE DEF new
  <2>5. SvcTyped
    BY <1>0, <2>3, <2>4
  <2> QED
    BY <1>2, <1>7, <2>5 DEF TimesOut
<1>8. ASSUME NEW i \in Instances, Exit(i), UNCHANGED exposed PROVE Typed'
  <2>1. svc[i].job \in Tasks \cup {Idle}
    BY DEF TypeOK, ServiceType
  <2> DEFINE record == [Ended EXCEPT !.stop = TRUE, !.job = svc[i].job]
  <2>2. record \in ServiceType /\ record.pc = "ended"
    BY <2>1, EndedType DEF Ended
  <2> HIDE DEF record
  <2>3. svc' = [svc EXCEPT ![i] = record]
    BY <1>8 DEF Exit, record
  <2>4. SvcTyped
    BY <2>2, <2>3 DEF TypeOK
  <2> QED
    BY <1>2, <1>8, <2>4 DEF Exit
<1>9. ASSUME NEW i \in Instances, StartTask(i), UNCHANGED exposed PROVE Typed'
  <2>1. SvcTyped
    <3> DEFINE task  == Head(svc[i].queue)
               taken == [svc[i] EXCEPT !.queue = Tail(@)]
               begun == [svc[i] EXCEPT !.queue = Tail(@), !.job = task]
    <3>1. svc[i] \in ServiceType
      BY DEF TypeOK
    <3>2. Tail(svc[i].queue) \in Seq(Tasks) /\ task \in Tasks
      BY <1>9, <3>1 DEF StartTask, ServiceType
    <3>3. svc' = [svc EXCEPT ![i] = taken] \/ svc' = [svc EXCEPT ![i] = begun]
      BY <1>9 DEF StartTask, TypeOK
    <3> HIDE DEF task
    <3>4. /\ taken \in ServiceType /\ begun \in ServiceType
          /\ taken.pc = svc[i].pc /\ taken.next = svc[i].next
          /\ begun.pc = svc[i].pc /\ begun.next = svc[i].next
      BY <3>1, <3>2 DEF ServiceType
    <3> HIDE DEF taken, begun
    <3> QED
      BY <1>0, <3>3, <3>4
  <2>2. tried' \subseteq Tasks /\ done' \subseteq tried'
    BY <1>9 DEF StartTask, TypeOK, ServiceType, history
  <2> QED
    BY <1>9, <2>1, <2>2 DEF StartTask, TypeOK, clock
<1>10. ASSUME NEW i \in Instances, EndTask(i), UNCHANGED exposed PROVE Typed'
  <2>1. SvcTyped
    <3> DEFINE failed    == [svc[i] EXCEPT !.job = Idle]
               completed == [svc[i] EXCEPT !.job = Idle, !.flags = FlagsAfter(i)]
    <3>1. svc[i] \in ServiceType
      BY DEF TypeOK
    <3>2. FlagsAfter(i) \subseteq Tasks \ {Cleanup}
      BY <1>10, <3>1 DEF EndTask, FlagsAfter, ServiceType
    <3>3. svc' = [svc EXCEPT ![i] = failed] \/ svc' = [svc EXCEPT ![i] = completed]
      BY <1>10 DEF EndTask, Completes, TypeOK
    <3>4. /\ failed \in ServiceType /\ completed \in ServiceType
          /\ failed.pc = svc[i].pc /\ failed.next = svc[i].next
          /\ completed.pc = svc[i].pc /\ completed.next = svc[i].next
      BY <3>1, <3>2 DEF ServiceType
    <3> HIDE DEF failed, completed
    <3> QED
      BY <1>0, <3>3, <3>4
  <2>2. done' \subseteq tried'
    BY <1>10 DEF EndTask, Completes, TypeOK
  <2> QED
    BY <1>10, <2>1, <2>2 DEF EndTask, TypeOK, clock
<1>11. ASSUME NEW i \in Instances, StopService(i), UNCHANGED exposed PROVE Typed'
  <2>1. SvcTyped
    BY <1>11, ZenonT(30) DEF StopService, TypeOK, ServiceType
  <2> QED
    BY <1>11, <2>1 DEF StopService, TypeOK, clock, history
<1>12. ASSUME NEW i \in Instances, StartService(i), UNCHANGED exposed PROVE Typed'
  <2> DEFINE record == [Ended EXCEPT !.pc = "sleep", !.born = minute]
  <2>1. record \in ServiceType /\ record.pc = "sleep"
    BY EndedType DEF TypeOK, Ended
  <2> HIDE DEF record
  <2>2. svc' = [svc EXCEPT ![i] = record]
    BY <1>12 DEF StartService, record
  <2>3. SvcTyped
    BY <2>1, <2>2 DEF TypeOK
  <2> QED
    BY <1>2, <1>12, <2>3 DEF StartService
<1>13. ASSUME Tick, UNCHANGED exposed PROVE Typed'
  <2>1. svc' \in [Instances -> ServiceType]
    BY <1>13, ElapsedType DEF Tick
  <2>2. \A j \in Instances : svc'[j].pc = svc[j].pc /\ svc'[j].next = svc[j].next
    BY <1>13 DEF Tick, Elapsed, TypeOK, ServiceType
  <2>3. minute' \in Minutes /\ day' \in Days
    BY <1>13, TimeAssumption DEF Tick, TypeOK, Minutes, Days
  <2> QED
    BY <1>13, <2>1, <2>2, <2>3 DEF Tick, TypeOK, history
<1> QED
  BY <1>1, <1>3, <1>4, <1>5, <1>6, <1>7, <1>8, <1>9, <1>10, <1>11, <1>12, <1>13
  DEF Next, Advance, Loop

\* Whatever order of steps, every variable stays within its type (TypeOK).
THEOREM TypeCorrect == Spec => []TypeOK
<1>1. Typed => TypeOK
  BY DEF Typed
<1> QED
  BY InitTyped, NextTyped, <1>1, PTL DEF Spec

-----------------------------------------------------------------------------
(* The queue of the worker *)

\* A step of the loop, the worker or the service of instance i.
Moves(i) == Loop(i) \/ StartTask(i) \/ EndTask(i) \/ StopService(i) \/ StartService(i)

\* A step of one instance (Moves) leaves the others as they are, and the clock;
\* it forgets nothing of what was done today.
LEMMA OneMoves ==
  ASSUME Typed, NEW i \in Instances, Moves(i)
  PROVE  /\ \A j \in Instances : j # i => svc'[j] = svc[j]
         /\ UNCHANGED clock /\ tried \subseteq tried' /\ done \subseteq done'
<1>1. svc \in [Instances -> ServiceType]
  BY DEF Typed, TypeOK
<1> QED
  BY <1>1
  DEF Moves, Loop, Wake, Submit, PassEnds, WaitEnds, TimesOut, Exit, StartTask, EndTask,
      Completes, StopService, StartService, clock, history

\* At most the task the loop waits for is queued.
QueueShort ==
    \A i \in Instances :
        \/ svc[i].queue = <<>> /\ Queued(i) = {}
        \/ /\ svc[i].pc = "wait" /\ svc[i].queue = <<Awaited(i)>>
           /\ Queued(i) = {Awaited(i)}
           /\ Head(svc[i].queue) = Awaited(i) /\ Tail(svc[i].queue) = <<>>

\* What Queued says of a queue that holds one task or none.
LEMMA QueueOf == NoBacklog => QueueShort
<1> SUFFICES ASSUME NoBacklog, NEW i \in Instances
             PROVE  \/ svc[i].queue = <<>> /\ Queued(i) = {}
                    \/ /\ svc[i].pc = "wait" /\ svc[i].queue = <<Awaited(i)>>
                       /\ Queued(i) = {Awaited(i)}
                       /\ Head(svc[i].queue) = Awaited(i) /\ Tail(svc[i].queue) = <<>>
  BY DEF QueueShort
<1>1. CASE svc[i].queue = <<>>
  BY <1>1 DEF Queued
<1>2. CASE svc[i].queue # <<>>
  <2>1. svc[i].pc = "wait" /\ svc[i].queue = <<Awaited(i)>>
    BY <1>2 DEF NoBacklog
  <2> DEFINE t == Awaited(i)
  <2>2. svc[i].queue = <<t>>
    BY <2>1
  <2> HIDE DEF t
  <2>3. Queued(i) = {t} /\ Head(svc[i].queue) = t /\ Tail(svc[i].queue) = <<>>
    BY <2>2 DEF Queued
  <2> QED
    BY <2>1, <2>3 DEF t
<1> QED
  BY <1>1, <1>2

\* No step lets a task queue up behind another one (NoBacklog).
LEMMA NextNoBacklog == Typed /\ NoBacklog /\ [Next]_vars => NoBacklog'
<1> SUFFICES ASSUME Typed, NoBacklog, [Next]_vars,
                    NEW j \in Instances, svc'[j].queue # <<>>
             PROVE  svc'[j].pc = "wait" /\ svc'[j].queue = <<Awaited(j)'>>
  BY DEF NoBacklog
<1> USE DEF Awaited
<1>0. QueueShort
  BY QueueOf
<1>1. svc \in [Instances -> ServiceType]
  BY DEF Typed, TypeOK
<1>2. svc[j].queue # <<>> => svc[j].pc = "wait" /\ svc[j].queue = <<Awaited(j)>>
  BY DEF NoBacklog
<1>3. CASE svc'[j] = svc[j]
  BY <1>2, <1>3
<1>5. CASE UNCHANGED vars
  BY <1>3, <1>5 DEF vars
<1>6. CASE Wake(j)
  BY <1>1, <1>2, <1>6 DEF Wake, ServiceType
<1>7. CASE Submit(j)
  <2>1. svc[j].queue = <<>>
    BY <1>2, <1>7 DEF Submit
  <2>2. PICK k \in DueNext(j) :
            svc' = [svc EXCEPT ![j].pc = "wait", ![j].next = k,
                               ![j].left = Timeout[Order[k]],
                               ![j].queue = Append(@, Order[k])]
    BY <1>7 DEF Submit
  <2>3. Append(svc[j].queue, Order[k]) = <<Order[k]>>
    BY <2>1
  <2> QED
    BY <1>1, <2>2, <2>3 DEF ServiceType
<1>8. CASE PassEnds(j)
  BY <1>1, <1>2, <1>8 DEF PassEnds, ServiceType
<1>9. CASE WaitEnds(j)
  BY <1>0, <1>1, <1>2, <1>9 DEF WaitEnds, ServiceType, QueueShort, Unfinished
<1>10. CASE TimesOut(j)
  <2>1. Cancelled(j) = <<>>
    BY <1>2 DEF Cancelled
  <2> QED
    BY <1>1, <1>10, <2>1 DEF TimesOut, ServiceType
<1>11. CASE Exit(j)
  BY <1>1, <1>11 DEF Exit, Ended
<1>12. CASE StartTask(j)
  <2>1. Tail(svc[j].queue) = <<>>
    BY <1>0, <1>12 DEF StartTask, QueueShort
  <2> QED
    BY <1>1, <1>12, <2>1, ZenonT(100) DEF StartTask, ServiceType
<1>13. CASE EndTask(j)
  BY <1>1, <1>2, <1>13 DEF EndTask, Completes, ServiceType
<1>14. CASE StopService(j)
  BY <1>1, <1>2, <1>14 DEF StopService, ServiceType
<1>15. CASE StartService(j)
  BY <1>1, <1>15 DEF StartService, Ended
<1>16. CASE Tick
  <2>1. svc'[j].queue = svc[j].queue /\ svc'[j].pc = svc[j].pc /\ svc'[j].next = svc[j].next
    BY <1>1, <1>16 DEF Tick, Elapsed, ServiceType
  <2> QED
    BY <1>2, <2>1
<1> QED
  BY <1>3, <1>5, <1>6, <1>7, <1>8, <1>9, <1>10, <1>11, <1>12, <1>13, <1>14, <1>15,
     <1>16, OneMoves DEF Next, Advance, Moves, Loop

-----------------------------------------------------------------------------
(* A calm day *)

\* No task is counted as started today before its time (StartTask).
LEMMA NextTriedInTime == Typed /\ TriedInTime /\ [Next]_vars => TriedInTime'
<1> SUFFICES ASSUME Typed, TriedInTime, [Next]_vars PROVE TriedInTime'
  OBVIOUS
<1>1. tried \subseteq Tasks /\ At \in [Tasks -> Minutes] /\ minute \in Minutes
  BY TimeAssumption DEF Typed, TypeOK
<1>2. ASSUME NEW i \in Instances, Moves(i) PROVE TriedInTime'
  BY <1>1, <1>2
  DEF Moves, Loop, Wake, Submit, PassEnds, WaitEnds, TimesOut, Exit, StartTask, EndTask,
      Completes, StopService, StartService, clock, history, TriedInTime
<1>3. CASE Tick
  BY <1>1, <1>3, TimeAssumption DEF Tick, TriedInTime, history, Minutes
<1>4. CASE UNCHANGED vars
  BY <1>4 DEF vars, clock, history, TriedInTime
<1> QED
  BY <1>2, <1>3, <1>4 DEF Next, Advance, Moves

\* What a calm day asks of an instance stays true while the instance stands
\* still and others move (CalmDay).
LEMMA CalmFrame ==
  ASSUME NEW j \in Instances, CalmDay(j), svc'[j] = svc[j], UNCHANGED clock,
         tried \subseteq tried', done \subseteq done'
  PROVE  CalmDay(j)'
  BY SMTT(20) DEF CalmDay, OneAtATime, FlagsDone, Cleaned, Started, Up, Passed, Unfinished,
         Queued, Awaited, Window, clock

\* At the minute a task is due, a pass that finds it not due, in its place or
\* later, finds it done (Due, DueNext).
LEMMA SkippedIsDone ==
  ASSUME Typed, QueueShort, NEW i \in Instances, CalmDay(i), svc[i].pc = "pass",
         NEW k \in DOMAIN Order, svc[i].next <= k, k \notin DueNext(i),
         Order[k] # Monitor, minute = At[Order[k]]
  PROVE  Order[k] \in done \ {Cleanup}
<1>1. svc[i] \in ServiceType /\ minute \in Minutes
  BY DEF Typed, TypeOK
<1>2. k \in svc[i].next .. Len(Order)
  BY <1>1, OrderType DEF ServiceType
<1>3. ~Due(i, Order[k])
  BY <1>2 DEF DueNext
<1>4. Unfinished(i) = {}
  BY DEF CalmDay, OneAtATime, QueueShort, Unfinished
<1>5. Window(i, Order[k])
  BY <1>1, TimeAssumption DEF Window, Minutes
<1>6. Order[k] \in svc[i].flags
  BY <1>3, <1>4, <1>5 DEF Due
<1> QED
  BY <1>6 DEF CalmDay, FlagsDone

\* The due times of the tasks are minutes, and all but the cleanup end before it.
LEMMA Times ==
    /\ \A t \in Tasks : At[t] \in Int
    /\ MonitorEnd < At[Cleanup] /\ MonitorEnd \in Int /\ At[Monitor] \in Int
    /\ At[Cleanup] \in Int /\ At[Cleanup] > 0 /\ At[Cleanup] < DayLength /\ DayLength \in Int
    /\ \A t \in Tasks \ {Monitor, Cleanup} : At[t] + 1 < At[Cleanup]
    /\ Cleanup \in OneShot
  BY TimeAssumption, TaskAssumption, ScheduleAssumption DEF Minutes, OneShot

\* A pass begins, or hands over a task: a calm day goes on (Wake, Submit).
LEMMA CalmPass ==
  ASSUME Typed, QueueShort, QueueShort', NEW j \in Instances, CalmDay(j),
         Wake(j) \/ Submit(j)
  PROVE  CalmDay(j)'
<1>1. /\ svc \in [Instances -> ServiceType] /\ svc[j] \in ServiceType
      /\ minute \in Minutes /\ minute \in Int
  BY DEF Typed, TypeOK, Minutes
<1> USE DEF Up
<1>2. CASE Wake(j)
  <2>1. /\ svc'[j].pc = IF day \in TradingDays THEN "pass" ELSE "sleep"
        /\ svc'[j].last = minute /\ svc'[j].next = 1
        /\ svc'[j].job = svc[j].job /\ svc'[j].flags = svc[j].flags
        /\ svc'[j].born = svc[j].born
        /\ UNCHANGED <<day, minute, tried, done>> /\ svc[j].pc = "sleep"
    BY <1>1, <1>2 DEF Wake, ServiceType, clock, history
  <2>2. \A t : Passed(j, t)' => day \notin TradingDays
    BY <2>1 DEF Passed
  <2>3. OneAtATime(j)' /\ FlagsDone(j)'
    BY <2>1 DEF CalmDay, OneAtATime, FlagsDone
  <2>4. Cleaned(j)'
    BY <2>1, <2>2 DEF CalmDay, Cleaned
  <2>5. Started(j)'
    BY <2>1, <2>2 DEF CalmDay, Started
  <2> QED
    BY <2>3, <2>4, <2>5 DEF CalmDay
<1>3. CASE Submit(j)
  <2>1. PICK k \in DueNext(j) :
            /\ \A other \in DueNext(j) : k <= other
            /\ svc' = [svc EXCEPT ![j].pc = "wait", ![j].next = k,
                                  ![j].left = Timeout[Order[k]],
                                  ![j].queue = Append(@, Order[k])]
    BY <1>3 DEF Submit
  <2>2. /\ k \in svc[j].next .. Len(Order) /\ k \in DOMAIN Order
        /\ Due(j, Order[k]) /\ svc[j].next \in Int
    BY <1>1, OrderType DEF DueNext, ServiceType
  <2>3. /\ svc'[j].pc = "wait" /\ svc'[j].last = svc[j].last /\ svc'[j].next = k
        /\ svc'[j].left = Timeout[Order[k]] /\ svc'[j].queue = Append(svc[j].queue, Order[k])
        /\ svc'[j].job = svc[j].job /\ svc'[j].flags = svc[j].flags
        /\ svc'[j].born = svc[j].born
        /\ UNCHANGED <<day, minute, tried, done>> /\ svc[j].pc = "pass"
    BY <1>1, <1>3, <2>1 DEF Submit, ServiceType, clock, history
  <2>4. svc[j].job = Idle
    BY <2>3 DEF CalmDay, OneAtATime
  <2>5. Append(svc[j].queue, Order[k]) # <<>>
    BY <1>1, SMTT(20) DEF ServiceType
  <2>6. Awaited(j)' = Order[k] /\ Unfinished(j)' = {Order[k]}
    BY <2>3, <2>4, <2>5 DEF QueueShort, Awaited, Unfinished
  <2>7. \A t \in OneShot : Passed(j, t)' /\ minute = At[t] =>
            Passed(j, t) \/ t \in done \ {Cleanup}
    <3> SUFFICES ASSUME NEW t \in OneShot, Passed(j, t)', minute = At[t]
                 PROVE  Passed(j, t) \/ t \in done \ {Cleanup}
      OBVIOUS
    <3>1. PICK m \in 1 .. k - 1 : Order[m] = t
      BY <2>3, <2>6 DEF Passed
    <3>2. CASE m < svc[j].next
      BY <2>2, <2>3, <3>1, <3>2 DEF Passed
    <3>3. CASE m >= svc[j].next
      <4>1. m \in DOMAIN Order /\ m \notin DueNext(j)
        BY <2>1, <2>2, <3>1, <3>3, OrderType
      <4> QED
        BY <2>2, <2>3, <3>1, <3>3, <4>1, SkippedIsDone DEF OneShot
    <3> QED
      BY <2>2, <3>1, <3>2, <3>3
  <2>8. Window(j, Order[k])'
    BY <2>2, <2>3 DEF Due, Window
  <2>9. Timeout[Order[k]] > 0
    BY <2>2, OrderType, TimeAssumption
  <2>10. OneAtATime(j)'
    BY <2>3, <2>4, <2>6, <2>8, <2>9 DEF CalmDay, OneAtATime
  <2>11. FlagsDone(j)'
    BY <2>3 DEF CalmDay, FlagsDone
  <2>12. Cleaned(j)'
    BY <2>3, <2>7, Times DEF CalmDay, Cleaned
  <2>13. Started(j)'
    BY <2>3, <2>7 DEF CalmDay, Started, Typed, TypeOK
  <2> QED
    BY <2>10, <2>11, <2>12, <2>13 DEF CalmDay
<1> QED
  BY <1>2, <1>3

\* A pass ends, or goes on after a task, or the service ends: a calm day goes on
\* (PassEnds, WaitEnds, TimesOut, Exit).
LEMMA CalmPassEnds ==
  ASSUME Typed, QueueShort, QueueShort', Calm, NEW j \in Instances, CalmDay(j),
         PassEnds(j) \/ WaitEnds(j) \/ TimesOut(j) \/ Exit(j)
  PROVE  CalmDay(j)'
<1>1. /\ svc \in [Instances -> ServiceType] /\ svc[j] \in ServiceType
      /\ minute \in Minutes /\ minute \in Int
  BY DEF Typed, TypeOK, Minutes
<1> USE DEF Up
<1>2. CASE PassEnds(j)
  <2>1. /\ svc'[j].pc = "sleep" /\ svc'[j].last = svc[j].last
        /\ svc'[j].job = svc[j].job /\ svc'[j].flags = svc[j].flags
        /\ svc'[j].born = svc[j].born
        /\ UNCHANGED <<day, minute, tried, done>> /\ svc[j].pc = "pass"
        /\ DueNext(j) = {}
    BY <1>1, <1>2 DEF PassEnds, ServiceType, clock, history, Calm
  <2>2. \A t \in OneShot : minute = At[t] => Passed(j, t) \/ t \in done \ {Cleanup}
    <3> SUFFICES ASSUME NEW t \in OneShot, minute = At[t]
                 PROVE  Passed(j, t) \/ t \in done \ {Cleanup}
      OBVIOUS
    <3>1. PICK m \in DOMAIN Order : Order[m] = t
      BY DEF OneShot, Tasks
    <3>2. svc[j].next \in Int /\ m \in 1 .. Len(Order)
      BY <1>1, OrderType DEF ServiceType
    <3>3. CASE m < svc[j].next
      BY <2>1, <3>1, <3>2, <3>3 DEF Passed
    <3>4. CASE m >= svc[j].next
      BY <2>1, <3>1, <3>2, <3>4, SkippedIsDone DEF OneShot
    <3> QED
      BY <3>2, <3>3, <3>4
  <2>3. OneAtATime(j)' /\ FlagsDone(j)'
    BY <2>1 DEF CalmDay, OneAtATime, FlagsDone
  <2>4. Cleaned(j)'
    BY <2>1, <2>2, Times DEF CalmDay, Cleaned
  <2>5. Started(j)'
    BY <2>1, <2>2 DEF CalmDay, Started, Typed, TypeOK
  <2> QED
    BY <2>3, <2>4, <2>5 DEF CalmDay
<1>3. CASE WaitEnds(j)
  <2>1. /\ svc'[j].pc = "pass" /\ svc'[j].last = svc[j].last
        /\ svc'[j].next = svc[j].next + 1
        /\ svc'[j].job = svc[j].job /\ svc'[j].flags = svc[j].flags
        /\ svc'[j].born = svc[j].born
        /\ UNCHANGED <<day, minute, tried, done>> /\ svc[j].pc = "wait"
        /\ Awaited(j) \notin Unfinished(j)
    BY <1>1, <1>3 DEF WaitEnds, ServiceType, clock, history
  <2>2. \A t : Passed(j, t)' => Passed(j, t)
    <3> SUFFICES ASSUME NEW t, Passed(j, t)' PROVE Passed(j, t)
      OBVIOUS
    <3>1. PICK m \in 1 .. svc[j].next : Order[m] = t
      BY <1>1, <2>1 DEF Passed, ServiceType
    <3>2. CASE m = svc[j].next
      BY <2>1, <3>1, <3>2 DEF Passed, Awaited
    <3>3. CASE m < svc[j].next
      BY <1>1, <2>1, <3>1, <3>3 DEF Passed, ServiceType
    <3> QED
      BY <1>1, <3>1, <3>2, <3>3 DEF ServiceType
  <2>3. OneAtATime(j)' /\ FlagsDone(j)'
    BY <2>1 DEF CalmDay, OneAtATime, FlagsDone, Unfinished
  <2>4. Cleaned(j)'
    BY <2>1, <2>2 DEF CalmDay, Cleaned
  <2>5. Started(j)'
    BY <2>1, <2>2 DEF CalmDay, Started
  <2> QED
    BY <2>3, <2>4, <2>5 DEF CalmDay
<1>4. CASE TimesOut(j)
  BY <1>4 DEF TimesOut, Patience, CalmDay, OneAtATime
<1>5. CASE Exit(j)
  <2>1. /\ svc'[j].pc = "ended" /\ svc'[j].flags = {} /\ svc'[j].job = svc[j].job
        /\ UNCHANGED <<day, minute, tried, done>> /\ svc[j].pc = "sleep"
    BY <1>1, <1>5 DEF Exit, Ended, clock, history
  <2> QED
    BY <2>1 DEF CalmDay, OneAtATime, FlagsDone, Cleaned, Started
<1> QED
  BY <1>2, <1>3, <1>4, <1>5

\* The worker begins or ends a task: a calm day goes on (StartTask, EndTask).
LEMMA CalmWork ==
  ASSUME Typed, QueueShort, QueueShort', Calm, NEW j \in Instances, CalmDay(j),
         StartTask(j) \/ EndTask(j)
  PROVE  CalmDay(j)'
<1>1. /\ svc \in [Instances -> ServiceType] /\ svc[j] \in ServiceType
      /\ minute \in Minutes /\ minute \in Int
  BY DEF Typed, TypeOK, Minutes
<1>2. svc[j].pc = "wait" /\ UNCHANGED <<day, minute>>
  BY DEF StartTask, EndTask, QueueShort, CalmDay, OneAtATime, clock
<1>3. /\ Window(j, Awaited(j)) /\ svc[j].last = minute /\ Awaited(j) \in Tasks
      /\ Unfinished(j) \subseteq {Awaited(j)} /\ day \in TradingDays /\ svc[j].left > 0
  BY <1>2, OrderType DEF CalmDay, OneAtATime, Awaited, Typed
<1>4. minute >= At[Awaited(j)]
  BY <1>1, <1>3, Times DEF Window
<1> USE DEF Up
<1>5. CASE StartTask(j)
  <2>1. /\ svc[j].job = Idle /\ svc[j].queue = <<Awaited(j)>> /\ Queued(j) = {Awaited(j)}
        /\ Head(svc[j].queue) = Awaited(j)
    BY <1>5 DEF StartTask, QueueShort
  <2>2. /\ svc'[j].pc = "wait" /\ svc'[j].last = svc[j].last /\ svc'[j].next = svc[j].next
        /\ svc'[j].left = svc[j].left /\ svc'[j].born = svc[j].born
        /\ svc'[j].flags = svc[j].flags /\ svc'[j].queue = Tail(svc[j].queue)
        /\ done' = done /\ tried \subseteq tried'
    BY <1>1, <1>2, <1>5 DEF StartTask, ServiceType, history
  <2>3. \/ svc'[j].job = Idle /\ Awaited(j) = Monitor
        \/ svc'[j].job = Awaited(j) /\ Awaited(j) \in tried'
    BY <1>1, <1>4, <1>5, <2>1 DEF StartTask, ServiceType
  <2>4. svc'[j].queue = <<>> /\ Queued(j)' = {} /\ Awaited(j)' = Awaited(j)
    BY <2>1, <2>2 DEF QueueShort, Awaited
  <2>5. Idle # Awaited(j)
    BY <1>3, TaskAssumption
  <2>6. \A t \in OneShot : Passed(j, t)' => Passed(j, t)
    <3> SUFFICES ASSUME NEW t \in OneShot, Passed(j, t)' PROVE Passed(j, t)
      OBVIOUS
    <3>1. CASE \E k \in 1 .. svc[j].next - 1 : Order[k] = t
      BY <1>2, <3>1 DEF Passed
    <3>2. CASE Awaited(j)' = t /\ t \notin Unfinished(j)'
      BY <2>3, <2>4, <2>5, <3>2 DEF Unfinished, OneShot
    <3> QED
      BY <2>2, <3>1, <3>2 DEF Passed
  <2>7. Unfinished(j)' \subseteq {Awaited(j)'} /\ Window(j, Awaited(j))'
    BY <1>2, <1>3, <2>2, <2>3, <2>4 DEF Unfinished, Window
  <2>8. OneAtATime(j)'
    BY <1>2, <1>3, <2>2, <2>3, <2>4, <2>7 DEF OneAtATime
  <2>9. FlagsDone(j)'
    BY <2>2 DEF CalmDay, FlagsDone
  <2>10. Cleaned(j)'
    BY <1>2, <2>2, <2>6, Times DEF CalmDay, Cleaned
  <2>11. Started(j)'
    BY <1>2, <2>2, <2>6 DEF CalmDay, Started
  <2> QED
    BY <2>8, <2>9, <2>10, <2>11 DEF CalmDay
<1>6. CASE EndTask(j)
  <2>1. /\ svc[j].job = Awaited(j) /\ svc[j].job \in tried /\ svc[j].queue = <<>>
        /\ Queued(j) = {}
    <3>1. svc[j].job # Idle /\ svc[j].queue = <<>> /\ svc[j].job \in tried
      BY <1>2, <1>6 DEF EndTask, CalmDay, OneAtATime
    <3> QED
      BY <1>3, <3>1 DEF Unfinished, Queued
  <2>2. /\ svc'[j].pc = "wait" /\ svc'[j].last = svc[j].last /\ svc'[j].next = svc[j].next
        /\ svc'[j].left = svc[j].left /\ svc'[j].born = svc[j].born
        /\ svc'[j].job = Idle /\ svc'[j].queue = <<>>
        /\ tried' = tried /\ done \subseteq done'
    BY <1>1, <1>2, <1>6, <2>1 DEF EndTask, Completes, ServiceType
  <2>3. \/ svc'[j].flags = svc[j].flags /\ svc[j].job # Cleanup
        \/ svc'[j].flags = FlagsAfter(j) /\ svc[j].job \in done'
    <3>1. CASE Completes(j)
      BY <1>1, <2>1, <3>1 DEF Completes, ServiceType
    <3>2. CASE MayFail(svc[j].job) /\ svc' = [svc EXCEPT ![j].job = Idle]
      <4>1. svc[j].job # Cleanup
        BY <3>2 DEF MayFail, Calm
      <4> QED
        BY <1>1, <3>2, <4>1 DEF ServiceType
    <3> QED
      BY <1>6, <3>1, <3>2 DEF EndTask
  <2>4. Queued(j)' = {} /\ Awaited(j)' = Awaited(j) /\ Unfinished(j)' = {}
    BY <2>2 DEF QueueShort, Awaited, Unfinished
  <2>5. OneAtATime(j)'
    BY <1>2, <1>3, <2>2, <2>4 DEF OneAtATime, Window
  <2>6. FlagsDone(j)'
    BY <2>2, <2>3 DEF CalmDay, FlagsDone, FlagsAfter
  <2>7. Cleaned(j)'
    <3>1. CASE svc[j].job = Cleanup
      BY <2>3, <3>1 DEF FlagsAfter, Cleaned
    <3>2. CASE svc[j].job # Cleanup
      <4>1. minute < At[Cleanup]
        BY <1>1, <1>3, <2>1, <3>2, Times DEF Window
      <4> QED
        BY <1>1, <1>2, <1>3, <4>1, Times DEF Cleaned
    <3> QED
      BY <3>1, <3>2
  <2>8. Started(j)'
    <3>1. \A t \in OneShot : Passed(j, t)' => Passed(j, t) \/ t \in tried
      BY <1>2, <2>1, <2>2, <2>4 DEF Passed
    <3> QED
      BY <1>2, <2>2, <3>1 DEF CalmDay, Started
  <2> QED
    BY <2>5, <2>6, <2>7, <2>8 DEF CalmDay
<1> QED
  BY <1>5, <1>6

\* The service is told to stop, or a new instance starts: a calm day goes on
\* (StopService, StartService).
LEMMA CalmService ==
  ASSUME Typed, QueueShort, QueueShort', NEW j \in Instances, CalmDay(j),
         StopService(j) \/ StartService(j)
  PROVE  CalmDay(j)'
<1>1. /\ svc \in [Instances -> ServiceType] /\ svc[j] \in ServiceType
      /\ minute \in Minutes /\ minute \in Int
  BY DEF Typed, TypeOK, Minutes
<1> USE DEF Up
<1>2. CASE StopService(j)
  <2>1. /\ svc'[j].pc = svc[j].pc /\ svc'[j].last = svc[j].last
        /\ svc'[j].next = svc[j].next /\ svc'[j].left = svc[j].left
        /\ svc'[j].born = svc[j].born /\ svc'[j].flags = svc[j].flags
        /\ svc'[j].job = svc[j].job /\ svc'[j].queue = svc[j].queue
        /\ UNCHANGED <<day, minute, tried, done>>
    BY <1>1, <1>2 DEF StopService, ServiceType, clock, history
  <2>2. /\ Awaited(j)' = Awaited(j) /\ Queued(j)' = Queued(j)
        /\ Unfinished(j)' = Unfinished(j) /\ \A t : Window(j, t)' = Window(j, t)
    BY <2>1 DEF Awaited, Queued, Unfinished, Window
  <2>3. \A t : Passed(j, t)' => Passed(j, t)
    BY <2>1, <2>2 DEF Passed
  <2>4. OneAtATime(j)' /\ FlagsDone(j)'
    BY <2>1, <2>2 DEF CalmDay, OneAtATime, FlagsDone
  <2>5. Cleaned(j)' /\ Started(j)'
    BY <2>1, <2>3 DEF CalmDay, Cleaned, Started
  <2> QED
    BY <2>4, <2>5 DEF CalmDay
<1>3. CASE StartService(j)
  <2>1. /\ svc'[j].pc = "sleep" /\ svc'[j].last = DayLength /\ svc'[j].flags = {}
        /\ svc'[j].born = minute /\ svc'[j].job = Idle
        /\ UNCHANGED <<day, minute, tried, done>>
    BY <1>1, <1>3 DEF StartService, Ended, clock, history
  <2>2. \A t : ~Passed(j, t)'
    BY <1>1, <2>1, Times DEF Passed, Minutes
  <2>3. OneAtATime(j)' /\ FlagsDone(j)' /\ Cleaned(j)'
    BY <2>1 DEF OneAtATime, FlagsDone, Cleaned
  <2>4. Started(j)'
    BY <1>1, <2>1, <2>2, Times DEF Started, OneShot
  <2> QED
    BY <2>3, <2>4 DEF CalmDay
<1> QED
  BY <1>2, <1>3

\* The clock moves on, over midnight too: a calm day goes on (Tick).
LEMMA CalmTick ==
  ASSUME Typed, QueueShort, QueueShort', Calm, NEW j \in Instances, CalmDay(j), Tick
  PROVE  CalmDay(j)'
<1>1. /\ svc \in [Instances -> ServiceType] /\ svc[j] \in ServiceType
      /\ minute \in 0 .. DayLength - 1 /\ done \subseteq tried
  BY DEF Typed, TypeOK, Minutes
<1>2. /\ svc'[j].pc = svc[j].pc /\ svc'[j].last = svc[j].last
      /\ svc'[j].born = IF minute = DayLength - 1 THEN 0 ELSE svc[j].born
      /\ svc'[j].job = svc[j].job /\ svc'[j].flags = svc[j].flags
  BY <1>1 DEF Tick, Elapsed, ServiceType
<1>3. Quiet(j) /\ "slow" \notin exposed
  BY DEF Tick, Calm
<1>4. /\ svc[j].job = Idle
      /\ svc[j].pc \in {"sleep", "ended"}
      /\ svc[j].pc = "sleep" => svc[j].last = minute
  BY <1>1, <1>3 DEF Quiet, QueueShort, Unfinished, ServiceType
<1>5. minute' # minute
  BY <1>1, Times DEF Tick
<1>6. \A t : ~Passed(j, t)'
  BY <1>2, <1>4, <1>5 DEF Passed
<1>7. svc[j].flags # {} => day \in TradingDays /\ minute < At[Cleanup]
  BY <1>1, <1>4, Times DEF CalmDay, FlagsDone, Cleaned, Passed
<1>8. OneAtATime(j)'
  BY <1>2, <1>4 DEF OneAtATime
<1>9. CASE minute < DayLength - 1
  <2>1. minute' = minute + 1 /\ UNCHANGED <<day, tried, done>> /\ svc'[j].born = svc[j].born
    BY <1>1, <1>2, <1>9 DEF Tick, history
  <2>2. FlagsDone(j)'
    BY <1>2, <2>1 DEF CalmDay, FlagsDone
  <2>3. Cleaned(j)'
    BY <1>1, <1>2, <1>6, <1>7, <2>1, Times DEF Cleaned
  <2>4. Started(j)'
    <3> SUFFICES ASSUME NEW t \in OneShot, Up(j)', day \in TradingDays,
                        svc[j].born <= At[t], minute' > At[t]
                 PROVE  t \in tried
      BY <1>6, <2>1 DEF Started
    <3>1. minute > At[t] \/ (minute = At[t] /\ Passed(j, t))
      BY <1>1, <1>2, <1>4, <2>1, Times DEF Passed, Up, OneShot
    <3> QED
      BY <1>2, <3>1 DEF CalmDay, Started, Up
  <2> QED
    BY <1>8, <2>2, <2>3, <2>4 DEF CalmDay
<1>10. CASE minute >= DayLength - 1
  <2>1. minute' = 0 /\ svc[j].flags = {}
    BY <1>1, <1>7, <1>10, Times DEF Tick
  <2>2. FlagsDone(j)' /\ Cleaned(j)'
    BY <1>2, <2>1 DEF FlagsDone, Cleaned
  <2>3. Started(j)'
    BY <1>6, <2>1, TimeAssumption DEF Started, OneShot, Minutes
  <2> QED
    BY <1>8, <2>2, <2>3 DEF CalmDay
<1> QED
  BY <1>1, <1>9, <1>10, Times

\* In the initial states the day is calm (Init).
LEMMA InitCalm == Init => CalmInv
<1> SUFFICES ASSUME Init, NEW j \in Instances PROVE CalmDay(j)
  BY DEF CalmInv
<1>1. /\ svc[j].pc \in {"sleep", "ended"} /\ svc[j].last = DayLength
      /\ svc[j].flags = {} /\ svc[j].job = Idle /\ svc[j].born = 0 /\ minute = 0
  BY DEF Init, Ended
<1>2. \A t : ~Passed(j, t)
  BY <1>1, Times DEF Passed
<1>3. OneAtATime(j) /\ FlagsDone(j) /\ Cleaned(j)
  BY <1>1 DEF OneAtATime, FlagsDone, Cleaned
<1>4. Started(j)
  BY <1>1, <1>2, TimeAssumption DEF Started, OneShot, Minutes
<1> QED
  BY <1>3, <1>4 DEF CalmDay

\* A calm day goes on whatever the next step (CalmInv).
LEMMA NextCalm == Typed /\ NoBacklog /\ NoBacklog' /\ CalmInv /\ [Next]_vars => CalmInv'
<1>1. NoBacklog' => QueueShort'
  BY QueueOf, PTL
<1> SUFFICES ASSUME Typed, NoBacklog, NoBacklog', CalmInv, [Next]_vars, Calm',
                    NEW j \in Instances
             PROVE  CalmDay(j)'
  BY DEF CalmInv
<1>2. QueueShort /\ QueueShort'
  BY <1>1, QueueOf
<1>3. Calm /\ CalmDay(j)
  BY DEF Next, vars, Calm, CalmInv
<1>4. CASE UNCHANGED vars
  BY <1>3, <1>4, CalmFrame DEF vars, clock, history
<1>5. CASE Tick
  BY <1>2, <1>3, <1>5, CalmTick
<1>6. CASE Moves(j)
  BY <1>2, <1>3, <1>6, CalmPass, CalmPassEnds, CalmWork, CalmService DEF Moves, Loop
<1>7. ASSUME NEW i \in Instances, i # j, Moves(i) PROVE CalmDay(j)'
  BY <1>3, <1>7, OneMoves, CalmFrame
<1> QED
  BY <1>4, <1>5, <1>6, <1>7 DEF Next, Advance, Moves

-----------------------------------------------------------------------------
(* Without overlap *)

AloneDay(i) == Remembered(i) /\ QueuedIsNew(i) /\ CleansLate(i)

\* Only an instance that is alive moves, and no other comes to life (Moves).
LEMMA OneStaysAlive ==
  ASSUME Typed, QueueShort, Alone, OneAlive, NEW i \in Instances, Moves(i)
  PROVE  Alive(i) /\ OneAlive'
<1>1. svc \in [Instances -> ServiceType] /\ svc[i] \in ServiceType
  BY DEF Typed, TypeOK
<1>2. Alive(i)
  <2>1. svc[i].queue # <<>> => svc[i].pc = "wait"
    BY DEF QueueShort
  <2> QED
    BY <2>1
    DEF Moves, Loop, Wake, Submit, PassEnds, WaitEnds, TimesOut, Exit, StartTask,
        EndTask, StopService, StartService, Current, Alive, Up, OneAlive, Alone
<1>3. \A k \in Instances : k # i => ~Alive(k) /\ svc'[k] = svc[k] /\ svc[k].job = Idle
  BY <1>2, OneMoves DEF OneAlive
<1>4. svc'[i].job # Idle => Alive(i)'
  <2>1. CASE Wake(i) \/ PassEnds(i) \/ WaitEnds(i) \/ TimesOut(i) \/ EndTask(i) \/ StopService(i)
    BY <1>1, <1>2, <2>1
    DEF Wake, PassEnds, WaitEnds, TimesOut, EndTask, Completes, StopService, Alive, Up,
        ServiceType
  <2>2. CASE Submit(i)
    <3>1. svc'[i].pc = "wait"
      BY <1>1, <2>2 DEF Submit, ServiceType
    <3> QED
      BY <3>1 DEF Alive, Up
  <2>3. CASE StartTask(i)
    <3>1. svc'[i].pc = svc[i].pc /\ svc'[i].stop = svc[i].stop
      BY <1>1, <2>3 DEF StartTask, ServiceType
    <3> QED
      BY <1>2, <3>1 DEF Alive, Up
  <2>4. CASE Exit(i) \/ StartService(i)
    BY <1>1, <2>4 DEF Exit, StartService, Alive, Up, Ended
  <2> QED
    BY <2>1, <2>2, <2>3, <2>4 DEF Moves, Loop
<1> QED
  BY <1>2, <1>3, <1>4 DEF OneAlive, Alive, Up

\* An instance that is not alive has nothing to do and nothing to remember.
LEMMA DeadIsIdle ==
  ASSUME QueueShort', NEW k \in Instances, ~Alive(k)', svc'[k].job = Idle
  PROVE  AloneDay(k)'
<1>1. Queued(k)' = {}
  BY DEF QueueShort, Alive, Up
<1> QED
  BY <1>1, TaskAssumption
  DEF AloneDay, Remembered, QueuedIsNew, CleansLate, Unfinished, Alive, Up

\* A step that takes nothing up and finishes nothing keeps what is known of the
\* day (AloneDay).
LEMMA AloneFrame ==
  ASSUME NEW j \in Instances, AloneDay(j), UNCHANGED <<clock, tried, done>>,
         svc'[j].job = svc[j].job,
         Queued(j)' = {} \/ (Queued(j)' = Queued(j) /\ svc'[j].born = svc[j].born),
         Up(j)' => Up(j) /\ svc'[j].flags = svc[j].flags /\ svc'[j].born = svc[j].born
  PROVE  AloneDay(j)'
  BY DEF AloneDay, Remembered, QueuedIsNew, CleansLate, Unfinished, clock

\* The loop and the orders to the service keep what is known of the day (Loop,
\* StopService, StartService).
LEMMA AloneLoop ==
  ASSUME Typed, QueueShort, QueueShort', TriedInTime, Alone, NEW j \in Instances,
         AloneDay(j), Loop(j) \/ StopService(j) \/ StartService(j)
  PROVE  AloneDay(j)'
<1>1. /\ svc \in [Instances -> ServiceType] /\ svc[j] \in ServiceType
      /\ minute \in Minutes /\ minute \in Int /\ done \subseteq tried /\ tried \subseteq Tasks
  BY DEF Typed, TypeOK, Minutes
<1>2. UNCHANGED <<clock, tried, done>>
  BY DEF Loop, Wake, Submit, PassEnds, WaitEnds, TimesOut, Exit, StopService,
         StartService, history
<1>3. CASE Wake(j) \/ PassEnds(j) \/ WaitEnds(j) \/ StopService(j)
  <2>1. /\ svc'[j].job = svc[j].job /\ svc'[j].queue = svc[j].queue
        /\ svc'[j].flags = svc[j].flags /\ svc'[j].born = svc[j].born
        /\ Up(j)' => Up(j)
    BY <1>1, <1>3 DEF Wake, PassEnds, WaitEnds, StopService, Up, ServiceType
  <2>2. Queued(j)' = Queued(j)
    BY <2>1 DEF Queued
  <2> QED
    BY <1>2, <2>1, <2>2, AloneFrame
<1>4. CASE TimesOut(j)
  <2>1. /\ svc'[j].job = svc[j].job /\ svc'[j].pc = "pass"
        /\ svc'[j].flags = svc[j].flags /\ svc'[j].born = svc[j].born
        /\ svc[j].pc = "wait"
    BY <1>1, <1>4 DEF TimesOut, ServiceType
  <2>2. Queued(j)' = {}
    BY <2>1 DEF QueueShort
  <2> QED
    BY <1>2, <2>1, <2>2, AloneFrame DEF Up
<1>5. CASE Exit(j)
  <2>1. svc'[j].job = svc[j].job /\ svc'[j].pc = "ended"
    BY <1>1, <1>5 DEF Exit, Ended
  <2>2. Queued(j)' = {}
    BY <2>1 DEF QueueShort
  <2> QED
    BY <1>2, <2>1, <2>2, AloneFrame DEF Up
<1>6. CASE StartService(j)
  <2>1. /\ svc'[j].job = Idle /\ svc'[j].pc = "sleep" /\ svc'[j].born = minute
        /\ svc[j].job = Idle
    BY <1>1, <1>6 DEF StartService, Ended
  <2>2. Queued(j)' = {}
    BY <2>1 DEF QueueShort
  <2>3. \A t \in done : ~(minute < At[t])
    BY <1>1, TimeAssumption DEF TriedInTime, Minutes
  <2>4. Remembered(j)'
    BY <1>2, <2>1, <2>3 DEF Remembered, clock
  <2> QED
    BY <2>1, <2>2, <2>4, TaskAssumption DEF AloneDay, QueuedIsNew, CleansLate, Unfinished
<1>7. CASE Submit(j)
  <2>1. PICK k \in DueNext(j) :
            svc' = [svc EXCEPT ![j].pc = "wait", ![j].next = k,
                               ![j].left = Timeout[Order[k]],
                               ![j].queue = Append(@, Order[k])]
    BY <1>7 DEF Submit
  <2> DEFINE t == Order[k]
  <2>2. k \in DOMAIN Order /\ t \in Tasks /\ Due(j, t)
    BY <1>1, OrderType DEF DueNext, ServiceType
  <2>3. /\ svc'[j].pc = "wait" /\ svc'[j].next = k /\ svc'[j].queue = Append(svc[j].queue, t)
        /\ svc'[j].job = svc[j].job /\ svc'[j].flags = svc[j].flags
        /\ svc'[j].born = svc[j].born /\ svc[j].pc = "pass"
    <3>1. svc[j] \in ServiceType /\ svc[j].pc = "pass"
      BY <1>1, <1>7 DEF Submit
    <3>2. svc'[j] = [svc[j] EXCEPT !.pc = "wait", !.next = k, !.left = Timeout[Order[k]],
                                   !.queue = Append(@, Order[k])]
      BY <1>1, <2>1
    <3> QED
      BY <3>1, <3>2 DEF ServiceType
  <2>4. Append(svc[j].queue, t) # <<>>
    <3>1. svc[j].queue \in Seq(Tasks)
      BY <1>1 DEF ServiceType
    <3> HIDE DEF t
    <3> QED
      BY <2>2, <3>1
  <2>5. Queued(j)' = {t}
    BY <2>3, <2>4 DEF QueueShort, Awaited
  <2>6. t # svc[j].job
    BY <2>2, TaskAssumption DEF Due, Unfinished
  <2>7. t \notin {Monitor, Cleanup} /\ svc[j].born < At[t] => t \notin done
    BY <1>1, <2>2, <2>3, Times DEF Due, Window, AloneDay, Remembered, Up
  <2>8. t = Cleanup => minute >= At[Cleanup]
    BY <1>1, <2>2, TaskAssumption, Times DEF Due, Window
  <2>9. Remembered(j)'
    BY <1>2, <2>3 DEF AloneDay, Remembered, Up, clock
  <2>10. QueuedIsNew(j)'
    BY <1>2, <2>3, <2>5, <2>6, <2>7 DEF QueuedIsNew
  <2>11. CleansLate(j)'
    BY <1>2, <2>3, <2>5, <2>8 DEF AloneDay, CleansLate, Unfinished, clock
  <2> QED
    BY <2>9, <2>10, <2>11 DEF AloneDay
<1> QED
  BY <1>3, <1>4, <1>5, <1>6, <1>7 DEF Loop

\* The worker keeps what is known of the day: what it completes is flagged, and
\* the cleanup that resets the flags is today's, or finds nothing of today
\* (StartTask, EndTask).
LEMMA AloneWork ==
  ASSUME Typed, QueueShort, QueueShort', Alone, NEW j \in Instances, AloneDay(j),
         StartTask(j) \/ EndTask(j)
  PROVE  AloneDay(j)'
<1>1. /\ svc \in [Instances -> ServiceType] /\ svc[j] \in ServiceType
      /\ done \subseteq tried
  BY DEF Typed, TypeOK
<1>2. UNCHANGED <<day, minute>>
  BY DEF StartTask, EndTask, clock
<1>3. CASE StartTask(j)
  <2>1. /\ svc[j].job = Idle /\ svc[j].pc = "wait" /\ svc[j].queue = <<Awaited(j)>>
        /\ Queued(j) = {Awaited(j)} /\ Head(svc[j].queue) = Awaited(j)
        /\ Tail(svc[j].queue) = <<>> /\ Awaited(j) \in Tasks
    BY <1>3, OrderType DEF StartTask, QueueShort, Awaited, Typed
  <2>2. /\ svc'[j].pc = "wait" /\ svc'[j].born = svc[j].born
        /\ svc'[j].flags = svc[j].flags /\ svc'[j].queue = <<>> /\ done' = done
    BY <1>1, <1>3, <2>1 DEF StartTask, ServiceType, history
  <2>3. \/ svc'[j].job = Idle /\ tried' = tried
        \/ /\ svc'[j].job = Awaited(j)
           /\ tried' = tried \cup {u \in {Awaited(j)} : minute >= At[u]}
    BY <1>1, <1>3, <2>1 DEF StartTask, ServiceType, history
  <2>4. Queued(j)' = {}
    BY <2>2 DEF Queued
  <2>5. Remembered(j)' /\ QueuedIsNew(j)'
    BY <1>2, <2>1, <2>2, <2>4 DEF AloneDay, Remembered, QueuedIsNew, Up
  <2>6. CleansLate(j)'
    <3> SUFFICES ASSUME Cleanup \in Unfinished(j)'
                 PROVE  tried' = {} \/ minute >= At[Cleanup]
      BY <1>2 DEF CleansLate
    <3>1. Awaited(j) = Cleanup /\ tried' = tried \cup {u \in {Cleanup} : minute >= At[u]}
      BY <2>3, <2>4 DEF Unfinished
    <3>2. tried = {} \/ minute >= At[Cleanup]
      BY <2>1, <3>1 DEF AloneDay, CleansLate, Unfinished
    <3> QED
      BY <3>1, <3>2
  <2> QED
    BY <2>5, <2>6 DEF AloneDay
<1>4. CASE EndTask(j)
  <2>1. /\ svc'[j].pc = svc[j].pc /\ svc'[j].born = svc[j].born
        /\ svc'[j].queue = svc[j].queue /\ svc'[j].job = Idle /\ tried' = tried
        /\ svc[j].job # Idle /\ svc[j].job \in Tasks
    BY <1>1, <1>4 DEF EndTask, Completes, ServiceType
  <2>2. \/ svc'[j].flags = svc[j].flags /\ done' = done
        \/ /\ svc'[j].flags = FlagsAfter(j)
           /\ done' = done \cup ({svc[j].job} \cap tried)
    BY <1>1, <1>4 DEF EndTask, Completes, ServiceType
  <2>3. Queued(j)' = Queued(j) /\ Unfinished(j)' \subseteq Unfinished(j)
    BY <2>1 DEF Queued, Unfinished
  <2>4. svc[j].job = Cleanup => tried = {} \/ minute >= At[Cleanup]
    BY <2>1 DEF AloneDay, CleansLate, Unfinished
  <2>5. Remembered(j)'
    BY <1>1, <1>2, <2>1, <2>2, <2>4 DEF AloneDay, Remembered, FlagsAfter, Up
  <2>6. QueuedIsNew(j)'
    <3>1. Idle \notin Queued(j)
      BY OrderType, TaskAssumption DEF QueueShort, Awaited, Typed
    <3> QED
      BY <2>1, <2>2, <2>3, <3>1 DEF AloneDay, QueuedIsNew
  <2>7. CleansLate(j)'
    BY <1>2, <2>1, <2>3 DEF AloneDay, CleansLate
  <2> QED
    BY <2>5, <2>6, <2>7 DEF AloneDay
<1> QED
  BY <1>3, <1>4

\* A minute more, and midnight, keep what is known of the day (Tick).
LEMMA AloneTick ==
  ASSUME Typed, NEW j \in Instances, AloneDay(j), Tick
  PROVE  AloneDay(j)'
<1>1. /\ svc \in [Instances -> ServiceType] /\ svc[j] \in ServiceType
      /\ minute \in 0 .. DayLength - 1 /\ done \subseteq tried
  BY DEF Typed, TypeOK, Minutes
<1>2. /\ svc'[j].pc = svc[j].pc /\ svc'[j].flags = svc[j].flags
      /\ svc'[j].job = svc[j].job /\ svc'[j].queue = svc[j].queue
      /\ svc'[j].born = IF minute = DayLength - 1 THEN 0 ELSE svc[j].born
  BY <1>1 DEF Tick, Elapsed, ServiceType
<1>3. Queued(j)' = Queued(j) /\ Unfinished(j)' = Unfinished(j)
  BY <1>2 DEF Queued, Unfinished
<1>4. CASE minute < DayLength - 1
  <2>1. minute' = minute + 1 /\ UNCHANGED <<tried, done>> /\ svc'[j].born = svc[j].born
    BY <1>1, <1>2, <1>4 DEF Tick, history
  <2> QED
    BY <1>1, <1>2, <1>3, <2>1, Times
    DEF AloneDay, Remembered, QueuedIsNew, CleansLate, Up
<1>5. CASE minute >= DayLength - 1
  <2>1. tried' = {} /\ done' = {}
    BY <1>1, <1>5, Times DEF Tick
  <2> QED
    BY <1>2, <1>3, <2>1 DEF AloneDay, Remembered, QueuedIsNew, CleansLate
<1> QED
  BY <1>1, <1>4, <1>5, Times

\* In the initial states no instance but one is alive, and nothing is done (Init).
LEMMA InitAlone == Init => TriedInTime /\ AloneInv
<1> SUFFICES ASSUME Init PROVE TriedInTime /\ AloneInv
  OBVIOUS
<1>1. TriedInTime /\ done = {} /\ tried = {}
  BY DEF Init, TriedInTime
<1>2. \A j \in Instances : /\ svc[j].job = Idle /\ svc[j].queue = <<>> /\ ~svc[j].stop
                           /\ svc[j].pc # "wait"
  BY DEF Init, Ended
<1>3. \A j \in Instances : Up(j) => j = CHOOSE i \in Instances : TRUE
  BY DEF Init, Ended, Up
<1>4. OneAlive
  BY <1>2, <1>3 DEF OneAlive, Alive
<1>5. \A j \in Instances : Queued(j) = {}
  BY <1>2, QueueOf DEF NoBacklog, QueueShort
<1>6. \A j \in Instances : Remembered(j) /\ CleansLate(j)
  BY <1>1 DEF Remembered, CleansLate
<1>7. \A j \in Instances : QueuedIsNew(j)
  BY <1>5 DEF QueuedIsNew
<1> QED
  BY <1>1, <1>4, <1>6, <1>7 DEF AloneInv

\* What is known of the day without overlap stays known (AloneInv).
LEMMA NextAlone ==
    Typed /\ NoBacklog /\ NoBacklog' /\ TriedInTime /\ AloneInv /\ [Next]_vars => AloneInv'
<1>1. NoBacklog' => QueueShort'
  BY QueueOf, PTL
<1> SUFFICES ASSUME Typed, NoBacklog, NoBacklog', TriedInTime, AloneInv, [Next]_vars, Alone'
             PROVE  OneAlive' /\ \A j \in Instances : AloneDay(j)'
  BY DEF AloneInv, AloneDay
<1>2. QueueShort /\ QueueShort'
  BY <1>1, QueueOf
<1>3. Alone /\ OneAlive /\ \A j \in Instances : AloneDay(j)
  BY DEF Next, vars, Alone, AloneInv, AloneDay
<1>4. CASE UNCHANGED vars
  BY <1>3, <1>4
  DEF vars, clock, history, OneAlive, Alive, Up, AloneDay, Remembered, QueuedIsNew,
      CleansLate, Unfinished, Queued
<1>5. CASE Tick
  <2>1. \A j \in Instances : AloneDay(j)'
    BY <1>3, <1>5, AloneTick
  <2>2. \A j \in Instances : /\ svc'[j].pc = svc[j].pc /\ svc'[j].stop = svc[j].stop
                             /\ svc'[j].job = svc[j].job
    BY <1>5 DEF Tick, Elapsed, Typed, TypeOK, ServiceType
  <2>3. OneAlive'
    BY <1>3, <2>2 DEF OneAlive, Alive, Up
  <2> QED
    BY <2>1, <2>3
<1>6. ASSUME NEW i \in Instances, Moves(i)
      PROVE  OneAlive' /\ \A j \in Instances : AloneDay(j)'
  <2>1. Alive(i) /\ OneAlive'
    BY <1>2, <1>3, <1>6, OneStaysAlive
  <2>2. AloneDay(i)'
    BY <1>2, <1>3, <1>6, AloneLoop, AloneWork DEF Moves
  <2>3. ASSUME NEW k \in Instances, k # i PROVE AloneDay(k)'
    <3>1. svc'[k] = svc[k] /\ ~Alive(k) /\ svc[k].job = Idle
      BY <1>3, <1>6, <2>1, <2>3, OneMoves DEF OneAlive
    <3>2. ~Alive(k)'
      BY <3>1 DEF Alive, Up
    <3> QED
      BY <1>2, <3>1, <3>2, DeadIsIdle
  <2> QED
    BY <2>1, <2>2, <2>3
<1> QED
  BY <1>4, <1>5, <1>6 DEF Next, Advance, Moves

-----------------------------------------------------------------------------
(* The theorems *)

\* DayInv holds in the initial states and every step keeps it.
LEMMA DayInvariant == Spec => []DayInv
<1>1. Init => DayInv
  <2>1. Init => NoBacklog
    BY DEF Init, NoBacklog, Ended
  <2> QED
    BY <2>1, InitTyped, InitCalm, InitAlone DEF DayInv
<1>2. DayInv /\ [Next]_vars => DayInv'
  BY NextTyped, NextNoBacklog, NextTriedInTime, NextCalm, NextAlone DEF DayInv
<1> QED
  BY <1>1, <1>2, PTL DEF Spec

\* On a trading day every task of a service that was up for its window starts,
\* in calm, and no task ever queues up behind another (run_scheduler waits for
\* each task it submits, and cancels one that did not begin in time).
THEOREM StartCorrect == Spec => []EveryTaskStarts
<1>1. DayInv => EveryTaskStarts
  <2> SUFFICES ASSUME DayInv PROVE EveryTaskStarts
    OBVIOUS
  <2>1. ASSUME Calm, NEW i \in Instances, NEW t \in OneShot, Current(i),
               day \in TradingDays, svc[i].born <= At[t], minute > At[t] + 1
        PROVE  t \in tried
    <3>1. Started(i) /\ Up(i)
      BY <2>1 DEF DayInv, CalmInv, CalmDay, Current, Up
    <3>2. minute > At[t]
      BY <2>1, Times DEF DayInv, Typed, TypeOK, Minutes, OneShot
    <3> QED
      BY <2>1, <3>1, <3>2 DEF Started
  <2> QED
    BY <2>1 DEF EveryTaskStarts, DayInv
<1> QED
  BY <1>1, DayInvariant, PTL

\* Where a task is started that has not been running, it has not been completed
\* today, by a service that was up before its time (tasks_completed).
LEMMA StartsAreNew == DayInv /\ [Next]_vars => [NotAgain]_vars
<1> SUFFICES ASSUME DayInv, Next,
                    NEW i \in Instances, NEW t \in OneShot \ {Cleanup},
                    svc[i].job # t, svc'[i].job = t, svc[i].born < At[t], Alone
             PROVE  t \notin done
  BY DEF NotAgain, Alone
<1>1. QueueShort /\ QueuedIsNew(i) /\ Typed
  BY QueueOf DEF DayInv, AloneInv
<1>2. svc \in [Instances -> ServiceType] /\ svc[i] \in ServiceType /\ t # Idle
  BY <1>1, TaskAssumption DEF Typed, TypeOK, OneShot
<1>3. ASSUME NEW k \in Instances, k # i, Moves(k) PROVE FALSE
  BY <1>1, <1>3, OneMoves
<1>4. CASE Tick
  BY <1>2, <1>4 DEF Tick, Elapsed, ServiceType
<1>5. CASE Loop(i)
  <2>1. CASE Wake(i) \/ PassEnds(i) \/ WaitEnds(i) \/ TimesOut(i)
    BY <1>2, <2>1 DEF Wake, PassEnds, WaitEnds, TimesOut, ServiceType
  <2>2. CASE Submit(i)
    BY <1>2, <2>2 DEF Submit, ServiceType
  <2>3. CASE Exit(i)
    BY <1>2, <2>3 DEF Exit, Ended
  <2> QED
    BY <1>5, <2>1, <2>2, <2>3 DEF Loop
<1>6. CASE StartTask(i)
  <2>1. t = Head(svc[i].queue)
    BY <1>2, <1>6 DEF StartTask, ServiceType
  <2>2. t \in Queued(i)
    BY <1>1, <1>6, <2>1 DEF StartTask, QueueShort
  <2> QED
    BY <1>1, <2>2 DEF QueuedIsNew, OneShot
<1>7. CASE EndTask(i)
  BY <1>2, <1>7 DEF EndTask, Completes, ServiceType
<1>8. CASE StopService(i)
  BY <1>2, <1>8 DEF StopService, ServiceType
<1>9. CASE StartService(i)
  BY <1>2, <1>9 DEF StartService, Ended
<1> QED
  BY <1>3, <1>4, <1>5, <1>6, <1>7, <1>8, <1>9 DEF Next, Advance, Moves

\* A flag that is set while its task is due is of today, when the cleanup runs
\* every evening; and what was completed today is not started again.
THEOREM OnceCorrect == Spec => DoneOnce
<1>1. DayInv => FlagsOfTodayCleaned
  BY DEF DayInv, CalmInv, CalmDay, FlagsDone, FlagsOfTodayCleaned, FlagsOfToday
<1>2. Spec => []FlagsOfTodayCleaned
  BY <1>1, DayInvariant, PTL
<1>3. Spec => NoneRepeated
  BY StartsAreNew, DayInvariant, PTL DEF Spec, NoneRepeated
<1> QED
  BY <1>2, <1>3 DEF DoneOnce
=============================================================================
