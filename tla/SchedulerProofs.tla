--------------------------- MODULE SchedulerProofs ---------------------------
(* Invariants of the scheduler, proved for every number of threads and tasks. *)
EXTENDS Scheduler, TLAPS

\* The scheduler keeps the types of its variables.
LEMMA TypeCorrect == Spec => []TypeOK
<1>1. Init => TypeOK
  BY SchedulerAssumption DEF Init, TypeOK, Forever
<1>2. TypeOK /\ [Next]_vars => TypeOK'
  <2> SUFFICES ASSUME TypeOK, [Next]_vars PROVE TypeOK'
    OBVIOUS
  <2> USE SchedulerAssumption DEF TypeOK
  <2>1. CASE Tick
    BY <2>1 DEF Tick, adderVars, workerVars, history
  <2>2. ASSUME NEW a \in Adders, NEW d \in Delays, AddTask(a, d)
        PROVE  TypeOK'
    <3> DEFINE t == NewTask(a, d)
    <3>1. NextId(a) \in Ids
      BY DEF NextId, Ids
    <3>2. t \in Task
      BY <2>2, <3>1 DEF AddTask, NewTask, Task
    <3>3. taskId' \in [Adders -> 0..MaxId] /\ adds' \in [Adders -> 0..MaxAdds]
      BY <2>2, <3>1 DEF AddTask, Ids
    <3>4. mTasks' \subseteq Task /\ made' \subseteq Task
      BY <2>2, <3>2 DEF AddTask
    <3>5. mTaskIds' \subseteq Ids
      BY <2>2, <3>2 DEF AddTask, Task
    <3>6. aTask' \in [Adders -> Task \cup {NoTask}]
      BY <2>2, <3>2 DEF AddTask
    <3>7. aStep' \in [Adders -> {"idle", "notify", "return"}]
      BY <2>2 DEF AddTask
    <3>8. t # NoTask
      BY DEF NewTask, NoTask
    <3> QED
      BY <2>2, <3>8, <3>3, <3>4, <3>5, <3>6, <3>7 DEF AddTask, workerVars
  <2>3. ASSUME NEW a \in Adders, RefuseTask(a) PROVE TypeOK'
    BY <2>3 DEF RefuseTask, workerVars, history
  <2>4. ASSUME NEW a \in Adders, AddNotify(a) PROVE TypeOK'
    BY <2>4 DEF AddNotify, NotifyOne, history
  <2>5. ASSUME NEW a \in Adders, ReturnId(a) PROVE TypeOK'
    <3>1. aTask[a] \in Task
      BY <2>5 DEF ReturnId
    <3>2. aTask[a].id \in 0..MaxId
      BY <3>1 DEF Task, Ids
    <3>3. PICK i \in 0..MaxId : handles' = handles \cup {[task |-> aTask[a], id |-> i]}
      BY <2>5, <3>2 DEF ReturnId
    <3>4. handles' \subseteq Handle
      BY <3>1, <3>3 DEF Handle
    <3> QED
      BY <2>5, <3>4 DEF ReturnId, workerVars
  <2>6. ASSUME NEW h \in handles, CancelTask(h) PROVE TypeOK'
    BY <2>6 DEF CancelTask, ForgetId, adderVars, workerVars, Handle
  <2>7. CASE CheckState
    BY <2>7 DEF CheckState, adderVars, history
  <2>8. CASE LockAndWait
    BY <2>8 DEF LockAndWait, adderVars, history, Task, Forever
  <2>9. CASE SpuriousWakeup \/ Timeout \/ WaitReturns \/ PopNothing
    BY <2>9 DEF SpuriousWakeup, Timeout, WaitReturns, PopNothing, adderVars,
                history
  <2>10. ASSUME NEW t \in mTasks, PopTask(t) \/ PopCancelled(t) PROVE TypeOK'
    <3>1. t # NoTask
      BY DEF Task, NoTask
    <3> QED
      BY <3>1, <2>10 DEF PopTask, PopCancelled, ForgetId, adderVars, history
  <2>11. CASE FinishTask
    <3>1. wTask \in Task
      BY <2>11 DEF FinishTask
    <3> QED
      BY <2>11 DEF FinishTask, adderVars, Handle, Task, Ids
  <2>12. CASE ShutdownStore \/ ShutdownDrain \/ ShutdownNotify \/ ShutdownJoin
    BY <2>12 DEF ShutdownStore, ShutdownDrain, ShutdownNotify, ShutdownJoin,
                 NotifyOne, adderVars, workerVars, history
  <2>13. CASE UNCHANGED vars
    BY <2>13 DEF vars, adderVars, workerVars, history
  <2> QED
    BY <2>1, <2>2, <2>3, <2>4, <2>5, <2>6, <2>7, <2>8, <2>9, <2>10, <2>11,
       <2>12, <2>13 DEF Next
<1> QED
  BY <1>1, <1>2, PTL DEF Spec

-----------------------------------------------------------------------------
(***************************************************************************)
(* The inductive invariant.                                                *)
(***************************************************************************)

\* Every task the scheduler or a caller speaks of was made by AddTask, and a
\* thread numbers its tasks upwards: the task of an AddTask call is a new one.
Known ==
    /\ mTasks \cup freed \cup cancelled \cup ran \subseteq made
    /\ \A h \in handles : h.task \in made
    /\ \A a \in Adders : aStep[a] # "idle" => aTask[a] \in made
    /\ worker \in {"running", "deleting"} => wTask \in made
    /\ \A t \in made : t.seq <= adds[t.by]

\* A task leaves the queue before it is run or deleted, and does not return.
Gone ==
    /\ mTasks \cap (freed \cup ran) = {}
    /\ worker \in {"running", "deleting"} => wTask \notin mTasks

\* Of a task that is still queued, callers know the right id.
TrueHandles == \A h \in handles : h.task \in mTasks => h.id = h.task.id

\* A cancelled task that is still queued is dead, or its id clashes.
CancelledIsDead == \A t \in cancelled \cap mTasks : ~Live(t) \/ Clash(t)

\* mState is set by Shutdown's first step.
StateIsShutdown == mState = 0 <=> sStep = "idle"

\* The worker sleeps no longer than until some queued task is due, unless
\* Shutdown emptied the queue under it; and it times out no earlier.
WaitIsCovered ==
    /\ (worker \in {"waiting", "woken", "timedout"} /\ wUntil # Forever) =>
          \/ \E t \in mTasks : t.due <= wUntil
          \/ sStep \in {"notify", "join", "done"}
    /\ worker = "timedout" => wUntil # Forever /\ wUntil <= now

IInv == /\ TypeOK
        /\ Known
        /\ Gone
        /\ TrueHandles
        /\ CancelledIsDead
        /\ StateIsShutdown
        /\ WaitIsCovered
        /\ DrainedStaysEmpty
        /\ NeverEarly
        /\ NoEmptyPop
        /\ NoMissedDeadline
        /\ CancelledNeverRuns
        /\ UncancelledIsKept

\* A new task was never seen before.
LEMMA NewTaskIsNew ==
    ASSUME TypeOK, Known, NEW a \in Adders, NEW d \in Delays
    PROVE  NewTask(a, d) \notin made
<1>1. adds[a] \in Nat
  BY SchedulerAssumption DEF TypeOK
<1>2. NewTask(a, d).seq = adds[a] + 1 /\ NewTask(a, d).by = a
  BY DEF NewTask
<1> QED
  BY <1>1, <1>2 DEF Known

\* Tasks come from AddTask alone, and leave the queue for good.
LEMMA KnownAndGoneStep ==
    ASSUME TypeOK, Known, Gone, [Next]_vars PROVE Known' /\ Gone'
<1> USE DEF Known, Gone
<1>1. CASE Tick
  BY <1>1 DEF Tick, adderVars, workerVars, history
<1>2. ASSUME NEW a \in Adders, NEW d \in Delays, AddTask(a, d)
      PROVE  Known' /\ Gone'
  <2> DEFINE t == NewTask(a, d)
  <2>1. t \notin made
    BY NewTaskIsNew
  <2>2. /\ mTasks' = mTasks \cup {t} /\ made' = made \cup {t}
        /\ UNCHANGED <<freed, cancelled, ran, handles, worker, wTask>>
    BY <1>2 DEF AddTask, workerVars
  <2>3. t.by = a /\ t.seq = adds[a] + 1
    BY DEF NewTask
  <2>4. \A b \in Adders : adds'[b] \in Nat /\ adds[b] \in Nat /\ adds[b] <= adds'[b]
    BY <1>2, SchedulerAssumption DEF AddTask, TypeOK
  <2>5. adds'[a] = adds[a] + 1
    BY <1>2 DEF AddTask, TypeOK
  <2>6. \A u \in made : u.by \in Adders /\ u.seq \in Nat
    BY DEF TypeOK, Task
  <2>7. \A u \in made' : u.seq <= adds'[u.by]
    BY <2>2, <2>3, <2>4, <2>5, <2>6
  <2>8. \A b \in Adders : aStep'[b] # "idle" => aTask'[b] \in made'
    BY <1>2, <2>2 DEF AddTask, TypeOK
  <2> QED
    BY <2>1, <2>2, <2>7, <2>8
<1>3. ASSUME NEW a \in Adders, RefuseTask(a) PROVE Known' /\ Gone'
  <2>1. \A b \in Adders : adds'[b] \in Nat /\ adds[b] \in Nat /\ adds[b] <= adds'[b]
    BY <1>3, SchedulerAssumption DEF RefuseTask, TypeOK
  <2>2. \A u \in made : u.by \in Adders /\ u.seq \in Nat
    BY DEF TypeOK, Task
  <2>3. UNCHANGED <<mTasks, aStep, aTask, worker, wTask, freed, made, handles,
                    cancelled, ran>>
    BY <1>3 DEF RefuseTask, workerVars, history
  <2>4. \A u \in made' : u.seq <= adds'[u.by]
    BY <2>1, <2>2, <2>3
  <2> QED
    BY <2>3, <2>4
<1>4. ASSUME NEW a \in Adders, AddNotify(a) PROVE Known' /\ Gone'
  BY <1>4 DEF AddNotify, NotifyOne, history, TypeOK
<1>5. ASSUME NEW a \in Adders, ReturnId(a) PROVE Known' /\ Gone'
  BY <1>5 DEF ReturnId, workerVars, TypeOK
<1>6. ASSUME NEW h \in handles, CancelTask(h) PROVE Known' /\ Gone'
  BY <1>6 DEF CancelTask, adderVars, workerVars
<1>7. CASE CheckState \/ LockAndWait \/ SpuriousWakeup \/ Timeout
           \/ WaitReturns \/ PopNothing
  BY <1>7 DEF CheckState, LockAndWait, SpuriousWakeup, Timeout, WaitReturns,
              PopNothing, adderVars, history
<1>8. ASSUME NEW t \in mTasks, PopTask(t) PROVE Known' /\ Gone'
  BY <1>8 DEF PopTask, adderVars
<1>9. ASSUME NEW t \in mTasks, PopCancelled(t) PROVE Known' /\ Gone'
  BY <1>9 DEF PopCancelled, adderVars, history
<1>10. CASE FinishTask
  <2>1. \A h \in handles' : h.task \in made
    BY <1>10 DEF FinishTask
  <2> QED
    BY <1>10, <2>1 DEF FinishTask, adderVars
<1>11. CASE ShutdownStore \/ ShutdownDrain \/ ShutdownNotify \/ ShutdownJoin
  BY <1>11 DEF ShutdownStore, ShutdownDrain, ShutdownNotify, ShutdownJoin,
               NotifyOne, adderVars, workerVars, history
<1>12. CASE UNCHANGED vars
  BY <1>12 DEF vars, adderVars, workerVars, history
<1> QED
  BY <1>1, <1>2, <1>3, <1>4, <1>5, <1>6, <1>7, <1>8, <1>9, <1>10, <1>11,
     <1>12 DEF Next

-----------------------------------------------------------------------------
(***************************************************************************)
(* Time: the worker never sleeps past its tasks and never pops too early.  *)
(***************************************************************************)

Timely == /\ StateIsShutdown
          /\ WaitIsCovered
          /\ DrainedStaysEmpty
          /\ NeverEarly
          /\ NoEmptyPop
          /\ NoMissedDeadline

\* A worker whose wait timed out finds an overdue task, unless Shutdown was
\* there first.
LEMMA OverdueTaskFound ==
    ASSUME TypeOK, WaitIsCovered, TimedOut
    PROVE  (\E t \in mTasks : t.due <= now) \/ sStep \in {"notify", "join", "done"}
<1>1. wUntil # Forever /\ wUntil <= now /\ worker \in {"woken", "timedout"}
  BY DEF TimedOut, Expired, WaitIsCovered
<1>2. now \in Int /\ wUntil \in Int
  BY <1>1, SchedulerAssumption DEF TypeOK
<1>3. ASSUME NEW t \in mTasks, t.due <= wUntil PROVE t.due <= now
  BY <1>1, <1>2, <1>3 DEF TypeOK, Task
<1> QED
  BY <1>1, <1>3 DEF WaitIsCovered

\* Waits stay covered by deadlines, and nothing runs early, at every step of
\* the worker's loop, AddTask and Shutdown.
LEMMA TimelyStep ==
    ASSUME TypeOK, TypeOK', Timely, [Next]_vars PROVE Timely'
<1> USE SchedulerAssumption
    DEF Timely, StateIsShutdown, WaitIsCovered, DrainedStaysEmpty, NeverEarly,
        NoEmptyPop, NoMissedDeadline
<1>0. /\ now \in Int /\ now' \in Int /\ wUntil \in Int /\ wUntil' \in Int
      /\ \A t \in mTasks \cup ran : t.due \in Int
  BY DEF TypeOK, Task, Forever
<1>1. CASE Tick
  BY <1>0, <1>1 DEF Tick, adderVars, workerVars, history
<1>2. ASSUME NEW a \in Adders, NEW d \in Delays, AddTask(a, d)
      PROVE  Timely'
  <2> DEFINE t == NewTask(a, d)
  <2>1. /\ mTasks' = mTasks \cup {t} /\ aStep[a] = "idle" /\ mState = 0
        /\ aStep' = [aStep EXCEPT ![a] = IF BecomesTop(t) THEN "notify" ELSE "return"]
        /\ UNCHANGED <<now, mState, worker, wUntil, wTask, sStep, ran>>
    BY <1>2 DEF AddTask, Accepting, workerVars
  <2>2. sStep = "idle"
    BY <2>1
  <2>3. t.due \in Int
    BY <1>2 DEF AddTask, NewTask, TypeOK
  <2>4. \A b \in Adders : aStep[b] = "notify" => aStep'[b] = "notify"
    BY <2>1 DEF TypeOK
  <2>5. NoMissedDeadline'
    <3> SUFFICES ASSUME worker = "waiting" PROVE NoMissedDeadline'
      BY <2>1
    <3>1. CASE BecomesTop(t)
      <4>1. aStep'[a] = "notify"
        BY <2>1, <3>1 DEF TypeOK
      <4> QED
        BY <4>1
    <3>2. CASE ~BecomesTop(t)
      <4>1. PICK u \in mTasks : ~(t.due < u.due)
        BY <3>2 DEF BecomesTop
      <4>2. CASE \E b \in Adders : aStep[b] = "notify"
        BY <2>4, <4>2
      <4>3. CASE wUntil # Forever /\ \A v \in mTasks : wUntil <= v.due
        <5>1. wUntil <= t.due
          BY <1>0, <2>3, <4>1, <4>3
        <5> QED
          BY <2>1, <4>3, <5>1
      <4> QED
        BY <4>1, <4>2, <4>3
    <3> QED
      BY <3>1, <3>2
  <2> QED
    BY <2>1, <2>2, <2>5
<1>3. ASSUME NEW a \in Adders, RefuseTask(a) PROVE Timely'
  BY <1>3 DEF RefuseTask, workerVars, history
<1>4. ASSUME NEW a \in Adders, AddNotify(a) PROVE Timely'
  BY <1>4 DEF AddNotify, NotifyOne, history
<1>5. ASSUME NEW a \in Adders, ReturnId(a) PROVE Timely'
  <2>1. /\ aStep[a] = "return" /\ aStep' = [aStep EXCEPT ![a] = "idle"]
        /\ UNCHANGED <<now, mTasks, mState, worker, wUntil, sStep, ran>>
    BY <1>5 DEF ReturnId, workerVars
  <2>2. \A b \in Adders : aStep[b] = "notify" => aStep'[b] = "notify"
    BY <2>1 DEF TypeOK
  <2> QED
    BY <2>1, <2>2
<1>6. ASSUME NEW h \in handles, CancelTask(h) PROVE Timely'
  BY <1>6 DEF CancelTask, adderVars, workerVars
<1>7. CASE CheckState
  BY <1>7 DEF CheckState, adderVars, history
<1>8. CASE LockAndWait
  <2>1. CASE mTasks = {}
    BY <1>8, <2>1 DEF LockAndWait, adderVars, history
  <2>2. CASE mTasks # {}
    <3>1. PICK t \in mTasks : Top(t) /\ wUntil' = t.due
      BY <1>8, <2>2 DEF LockAndWait
    <3>2. t.due # Forever
      BY <3>1 DEF TypeOK, Task, Forever
    <3> QED
      BY <1>0, <1>8, <3>1, <3>2 DEF LockAndWait, Top, adderVars, history
  <2> QED
    BY <2>1, <2>2
<1>9. CASE SpuriousWakeup \/ Timeout \/ WaitReturns
  BY <1>9 DEF SpuriousWakeup, Timeout, WaitReturns, Expired, adderVars, history
<1>10. ASSUME NEW t \in mTasks, PopTask(t) PROVE Timely'
  <2>1. sStep \notin {"notify", "join", "done"}
    BY DEF Timely
  <2>2. PICK u \in mTasks : u.due <= now
    BY <1>10, <2>1, OverdueTaskFound DEF PopTask
  <2>3. t.due <= now
    BY <1>0, <1>10, <2>2 DEF PopTask, Top
  <2> QED
    BY <1>10, <2>1, <2>3 DEF PopTask, adderVars
<1>11. ASSUME NEW t \in mTasks, PopCancelled(t) PROVE Timely'
  BY <1>11 DEF PopCancelled, adderVars, history
<1>12. CASE PopNothing
  <2>1. mState # 0
    BY <1>12, OverdueTaskFound DEF PopNothing
  <2> QED
    BY <1>12, <2>1 DEF PopNothing, adderVars, history
<1>13. CASE FinishTask
  BY <1>13 DEF FinishTask, adderVars
<1>14. CASE ShutdownStore \/ ShutdownDrain \/ ShutdownNotify \/ ShutdownJoin
  BY <1>14 DEF ShutdownStore, ShutdownDrain, ShutdownNotify, ShutdownJoin,
               NotifyOne, adderVars, workerVars, history, TypeOK
<1>15. CASE UNCHANGED vars
  BY <1>15 DEF vars, adderVars, workerVars, history
<1> QED
  BY <1>1, <1>2, <1>3, <1>4, <1>5, <1>6, <1>7, <1>8, <1>9, <1>10, <1>11,
     <1>12, <1>13, <1>14, <1>15 DEF Next

-----------------------------------------------------------------------------
(***************************************************************************)
(* Ids: what a cancel forgets stays forgotten, and nothing else is.        *)
(***************************************************************************)

Faithful == /\ TrueHandles
            /\ CancelledIsDead
            /\ CancelledNeverRuns
            /\ UncancelledIsKept

\* A clash of ids does not go away.
LEMMA ClashStays ==
    ASSUME NEW t, Clash(t), made \subseteq made', handles \subseteq handles'
    PROVE  Clash(t)'
BY DEF Clash

\* No step forgets a task that was made or a handle that was given out.
LEMMA HistoryGrows ==
    ASSUME [Next]_vars
    PROVE  made \subseteq made' /\ handles \subseteq handles'
BY DEF Next, vars, adderVars, workerVars, history, Tick, AddTask, RefuseTask,
       AddNotify, ReturnId, CancelTask, CheckState, LockAndWait,
       SpuriousWakeup, Timeout, WaitReturns, PopTask, PopCancelled,
       PopNothing, FinishTask, ShutdownStore, ShutdownDrain, ShutdownNotify,
       ShutdownJoin

\* Every step keeps cancelled tasks from running and the others from being
\* thrown away, clashes excepted.
LEMMA FaithfulStep ==
    ASSUME TypeOK, Known, Gone, Faithful, [Next]_vars
    PROVE  Faithful'
<1> USE DEF Faithful, TrueHandles, CancelledIsDead, CancelledNeverRuns,
            UncancelledIsKept
<1>0. \A t : Clash(t) => Clash(t)'
  BY HistoryGrows, ClashStays
\* Most steps leave the queue and the ids alone.
<1>1. ASSUME UNCHANGED <<mTasks, mTaskIds, made, handles, cancelled, ran>>,
             sStep' \in {"idle", "lock"} => sStep \in {"idle", "lock"}
      PROVE  Faithful'
  BY <1>0, <1>1 DEF Live
<1>2. ASSUME NEW a \in Adders, NEW d \in Delays, AddTask(a, d)
      PROVE  Faithful'
  <2> DEFINE t == NewTask(a, d)
  <2>1. /\ mTasks' = mTasks \cup {t} /\ mTaskIds' = mTaskIds \cup {t.id}
        /\ made' = made \cup {t}
        /\ UNCHANGED <<sStep, handles, cancelled, ran>>
    BY <1>2 DEF AddTask
  <2>2. t \notin made
    BY NewTaskIsNew
  <2>3. \A u \in made : u.id = t.id => Clash(u)'
    BY <2>1, <2>2 DEF Clash
  <2>4. TrueHandles'
    BY <2>1, <2>2 DEF Known
  <2>5. CancelledIsDead'
    BY <1>0, <2>1, <2>2, <2>3 DEF Known, Live
  <2>6. CancelledNeverRuns'
    BY <1>0, <2>1
  <2>7. UncancelledIsKept'
    BY <1>0, <2>1 DEF Live
  <2> QED
    BY <2>4, <2>5, <2>6, <2>7
<1>3. ASSUME NEW a \in Adders, ReturnId(a) PROVE Faithful'
  <2>1. aTask[a] \in mTasks =>
           handles' = handles \cup {[task |-> aTask[a], id |-> aTask[a].id]}
    BY <1>3 DEF ReturnId, Gone
  <2>2. \A h \in handles' : h \in handles \/ h.task = aTask[a]
    BY <1>3 DEF ReturnId
  <2>3. UNCHANGED <<mTasks, mTaskIds, sStep, made, cancelled, ran>>
    BY <1>3 DEF ReturnId
  <2>4. TrueHandles'
    BY <2>1, <2>2, <2>3
  <2> QED
    BY <1>0, <2>3, <2>4 DEF Live
<1>4. ASSUME NEW h \in handles, CancelTask(h) PROVE Faithful'
  <2>1. /\ mTaskIds' = mTaskIds \ {h.id}
        /\ cancelled' = cancelled \cup ({h.task} \cap mTasks)
        /\ UNCHANGED <<mTasks, sStep, made, handles, ran>>
    BY <1>4 DEF CancelTask, ForgetId
  <2>2. CancelledIsDead'
    BY <1>0, <2>1 DEF Live
  <2>3. CancelledNeverRuns'
    BY <1>0, <2>1 DEF Gone
  <2>4. ASSUME sStep \in {"idle", "lock"}, NEW t \in made, t \notin cancelled', t \notin ran
        PROVE  (t \in mTasks /\ t.id \in mTaskIds') \/ Clash(t)
    <3>1. (t \in mTasks /\ t.id \in mTaskIds) \/ Clash(t)
      BY <2>1, <2>4 DEF Live
    <3>2. CASE t \in mTasks /\ t.id \in mTaskIds /\ t.id = h.id
      <4>1. h.task # t
        BY <2>1, <2>4, <3>2
      <4> QED
        BY <3>2, <4>1 DEF Clash
    <3> QED
      BY <2>1, <3>1, <3>2
  <2>5. UncancelledIsKept'
    BY <1>0, <2>1, <2>4 DEF Live
  <2> QED
    BY <2>1, <2>2, <2>3, <2>5
<1>5. ASSUME NEW t \in mTasks, PopTask(t) PROVE Faithful'
  <2>1. /\ mTasks' = mTasks \ {t} /\ mTaskIds' = mTaskIds \ {t.id}
        /\ ran' = ran \cup {t} /\ Live(t)
        /\ UNCHANGED <<sStep, made, handles, cancelled>>
    BY <1>5 DEF PopTask, ForgetId
  <2>2. t \in made
    BY DEF Known
  <2>3. \A u \in made \ {t} : u.id = t.id => Clash(u)
    BY <2>2 DEF Clash
  <2>4. TrueHandles' /\ CancelledIsDead' /\ CancelledNeverRuns'
    BY <1>0, <2>1 DEF Live
  <2>5. UncancelledIsKept'
    BY <1>0, <2>1, <2>3 DEF Live
  <2> QED
    BY <2>4, <2>5
<1>6. ASSUME NEW t \in mTasks, PopCancelled(t) PROVE Faithful'
  <2>1. /\ mTasks' = mTasks \ {t} /\ ~Live(t)
        /\ UNCHANGED <<mTaskIds, sStep, made, handles, cancelled, ran>>
    BY <1>6 DEF PopCancelled, history
  <2> QED
    BY <1>0, <2>1 DEF Live
<1>7. CASE FinishTask
  <2>1. wTask \notin mTasks
    BY <1>7 DEF FinishTask, Gone
  <2>2. \A h \in handles' : h \in handles \/ h.task = wTask
    BY <1>7 DEF FinishTask
  <2>3. UNCHANGED <<mTasks, mTaskIds, sStep, made, cancelled, ran>>
    BY <1>7 DEF FinishTask
  <2>4. TrueHandles'
    BY <2>1, <2>2, <2>3
  <2> QED
    BY <1>0, <2>3, <2>4 DEF Live
<1>8. CASE ShutdownDrain
  <2>1. sStep' = "notify" /\ mTasks' = {} /\ UNCHANGED history
    BY <1>8 DEF ShutdownDrain
  <2> QED
    BY <1>0, <2>1 DEF history
<1>9. CASE ShutdownStore \/ ShutdownNotify \/ ShutdownJoin
  BY <1>1, <1>9 DEF ShutdownStore, ShutdownNotify, ShutdownJoin, history
<1>10. CASE UNCHANGED vars
  BY <1>1, <1>10 DEF vars, history
<1>11. CASE Tick \/ CheckState \/ LockAndWait \/ SpuriousWakeup \/ Timeout
            \/ WaitReturns \/ PopNothing
  BY <1>1, <1>11 DEF Tick, CheckState, LockAndWait, SpuriousWakeup, Timeout,
                     WaitReturns, PopNothing, history, TypeOK
<1>12. ASSUME NEW a \in Adders, RefuseTask(a) \/ AddNotify(a) PROVE Faithful'
  BY <1>1, <1>12 DEF RefuseTask, AddNotify, history, TypeOK
<1> QED
  BY <1>2, <1>3, <1>4, <1>5, <1>6, <1>7, <1>8, <1>9, <1>10, <1>11, <1>12
  DEF Next

-----------------------------------------------------------------------------

\* The inductive invariant holds in every reachable state.
LEMMA IInvCorrect == Spec => []IInv
<1>1. Init => IInv
  BY SchedulerAssumption
  DEF Init, IInv, TypeOK, Known, Gone, TrueHandles, CancelledIsDead,
      StateIsShutdown, WaitIsCovered, DrainedStaysEmpty, NeverEarly,
      NoEmptyPop, NoMissedDeadline, CancelledNeverRuns, UncancelledIsKept,
      Forever
<1>2. IInv /\ TypeOK' /\ [Next]_vars => IInv'
  BY KnownAndGoneStep, TimelyStep, FaithfulStep DEF IInv, Timely, Faithful
<1> QED
  BY <1>1, <1>2, TypeCorrect, PTL DEF Spec

\* No callback starts before its delay is over, whatever the tasks, delays and
\* threads (Scheduler.cpp 13-25).
THEOREM SchedulerNeverEarly == Spec => []NeverEarly
BY IInvCorrect, PTL DEF IInv

\* The worker never sleeps past a deadline without a notification under way
\* (13-17 against 60-67).
THEOREM SchedulerNoMissedDeadline == Spec => []NoMissedDeadline
BY IInvCorrect, PTL DEF IInv

\* While the scheduler is up the worker never pops an empty queue (19-25), and
\* nothing is queued after Shutdown emptied it (48-51 against 84-93).
THEOREM SchedulerShutdownIsFinal == Spec => []ShutdownIsFinal
BY IInvCorrect, PTL DEF IInv, ShutdownIsFinal

\* A task cancelled while queued never runs, unless its id clashed (27-34,
\* 77-80).
THEOREM SchedulerCancelledNeverRuns == Spec => []CancelledNeverRuns
BY IInvCorrect, PTL DEF IInv

\* A task that was not cancelled is not thrown away, unless its id clashed.
THEOREM SchedulerUncancelledIsKept == Spec => []UncancelledIsKept
BY IInvCorrect, PTL DEF IInv

-----------------------------------------------------------------------------
(***************************************************************************)
(* With one adding thread, whose counter does not wrap, and no read of a   *)
(* deleted task, ids identify tasks.                                       *)
(***************************************************************************)

\* While the scheduler is up a task's id is its number, and callers know it.
IdsCount == /\ mState = 0 => \A a \in Adders : taskId[a] = adds[a]
            /\ \A t \in made : t.id = t.seq
            /\ \A t, u \in made : t.seq = u.seq => t = u
            /\ \A h \in handles : h.id = h.task.id

\* One thread's counter never meets an id it gave before (44, 53-55).
LEMMA IdsCountStep ==
    ASSUME \A a, b \in Adders : a = b, MaxAdds <= MaxId, Garbage = {},
           TypeOK, Known, StateIsShutdown, IdsCount, [Next]_vars
    PROVE  IdsCount'
<1> USE SchedulerAssumption DEF IdsCount
<1>1. ASSUME UNCHANGED <<made, handles, taskId, adds>>, mState' = 0 => mState = 0
      PROVE  IdsCount'
  BY <1>1
<1>2. ASSUME NEW a \in Adders, NEW d \in Delays, AddTask(a, d)
      PROVE  IdsCount'
  <2> DEFINE t == NewTask(a, d)
  <2>1. /\ made' = made \cup {t} /\ adds[a] < MaxAdds /\ mState = 0
        /\ adds' = [adds EXCEPT ![a] = @ + 1]
        /\ taskId' = [taskId EXCEPT ![a] = NextId(a)]
        /\ UNCHANGED handles
    BY <1>2 DEF AddTask, Accepting
  <2>2. NextId(a) = adds[a] + 1
    BY <2>1 DEF NextId, TypeOK
  <2>3. t.id = adds[a] + 1 /\ t.seq = adds[a] + 1
    BY <2>2 DEF NewTask
  <2>4. \A u \in made : u.seq <= adds[a] /\ u.seq \in Int
    BY DEF Known, TypeOK, Task
  <2>5. \A u \in made : u.seq # t.seq
    BY <2>3, <2>4 DEF TypeOK
  <2>6. \A b \in Adders : taskId'[b] = adds'[b]
    BY <2>1, <2>2 DEF TypeOK
  <2> QED
    BY <2>1, <2>3, <2>5, <2>6
<1>3. ASSUME NEW a \in Adders, ReturnId(a) PROVE IdsCount'
  <2>1. handles' = handles \cup {[task |-> aTask[a], id |-> aTask[a].id]}
    BY <1>3 DEF ReturnId
  <2> QED
    BY <1>3, <2>1 DEF ReturnId
<1>4. ASSUME NEW a \in Adders, RefuseTask(a) PROVE IdsCount'
  BY <1>4 DEF RefuseTask, Accepting, history
<1>5. CASE FinishTask
  BY <1>5 DEF FinishTask, adderVars
<1>6. CASE Tick \/ CheckState \/ LockAndWait \/ SpuriousWakeup \/ Timeout
           \/ WaitReturns \/ PopNothing
  BY <1>1, <1>6 DEF Tick, CheckState, LockAndWait, SpuriousWakeup, Timeout,
                    WaitReturns, PopNothing, adderVars, history
<1>7. ASSUME NEW a \in Adders, AddNotify(a) PROVE IdsCount'
  BY <1>1, <1>7 DEF AddNotify, history
<1>8. ASSUME NEW h \in handles, CancelTask(h) PROVE IdsCount'
  BY <1>1, <1>8 DEF CancelTask, adderVars
<1>9. ASSUME NEW t \in mTasks, PopTask(t) \/ PopCancelled(t) PROVE IdsCount'
  BY <1>1, <1>9 DEF PopTask, PopCancelled, adderVars, history
<1>10. CASE ShutdownStore \/ ShutdownDrain \/ ShutdownNotify \/ ShutdownJoin
  BY <1>1, <1>10 DEF ShutdownStore, ShutdownDrain, ShutdownNotify,
                     ShutdownJoin, adderVars, history
<1>11. CASE UNCHANGED vars
  BY <1>1, <1>11 DEF vars, adderVars, history
<1> QED
  BY <1>2, <1>3, <1>4, <1>5, <1>6, <1>7, <1>8, <1>9, <1>10, <1>11 DEF Next

\* One game alone never sees two tasks with one id.
THEOREM OneAdderNoClash ==
    ASSUME \A a, b \in Adders : a = b, MaxAdds <= MaxId, Garbage = {}
    PROVE  Spec => []NoClash
<1>1. Init => IdsCount
  BY DEF Init, IdsCount
<1>2. IInv /\ IdsCount /\ [Next]_vars => IdsCount'
  BY IdsCountStep DEF IInv
<1>3. IInv /\ IdsCount => NoClash
  BY DEF IInv, Known, IdsCount, NoClash, Clash
<1> QED
  BY <1>1, <1>2, <1>3, IInvCorrect, PTL DEF Spec

-----------------------------------------------------------------------------
(***************************************************************************)
(* While ids do not clash the scheduler is a timer service.                *)
(***************************************************************************)

Pending == {t \in mTasks : Live(t)}
Dropped == {t \in made \ (cancelled \cup ran) : t \notin mTasks}

\* Nothing the timer service sees has changed.
Stutter == UNCHANGED <<now, mState, Pending, ran, cancelled, Dropped>>

\* A cancel is the service's Cancel, or comes too late and is nothing.
LEMMA CancelRefines ==
    ASSUME IInv, IInv', NoClash, NEW h \in handles, CancelTask(h)
    PROVE  Service!Cancel(h.task) \/ Stutter
<1> DEFINE t == h.task
<1> USE DEF IInv
<1>1. /\ mTaskIds' = mTaskIds \ {h.id}
      /\ cancelled' = cancelled \cup ({t} \cap mTasks)
      /\ UNCHANGED <<now, mTasks, mState, made, ran, sStep>>
  BY DEF CancelTask, ForgetId
<1>2. t \in made /\ mTasks \subseteq made
  BY DEF Known
<1>3. \A u \in mTasks : u # t => u.id # h.id
  BY <1>2 DEF NoClash, Clash
<1>4. CASE t \in Pending
  <2>1. h.id = t.id
    BY <1>4 DEF Pending, TrueHandles
  <2>2. Pending' = Pending \ {t}
    BY <1>1, <1>3, <2>1 DEF Pending, Live
  <2>3. Dropped' = Dropped
    BY <1>1, <1>4 DEF Dropped, Pending
  <2>4. cancelled' = cancelled \cup {t}
    BY <1>1, <1>4 DEF Pending
  <2> QED
    BY <1>1, <1>4, <2>2, <2>3, <2>4 DEF Service!Cancel, Pending, Dropped
<1>5. CASE t \notin Pending
  <2>1. Pending' = Pending
    BY <1>1, <1>3, <1>5 DEF Pending, Live
  <2>2. ASSUME t \in mTasks PROVE t \in cancelled
    <3>1. sStep \in {"idle", "lock"}
      BY <2>2 DEF DrainedStaysEmpty, TypeOK
    <3>2. t \notin ran
      BY <2>2 DEF Gone
    <3> QED
      BY <1>2, <1>5, <2>2, <3>1, <3>2 DEF UncancelledIsKept, Pending, NoClash
  <2>3. cancelled' = cancelled
    BY <1>1, <2>2
  <2> QED
    BY <1>1, <2>1, <2>3 DEF Stutter, Dropped
<1> QED
  BY <1>4, <1>5

\* A popped task is run, or was cancelled long ago.
LEMMA PopRefines ==
    ASSUME IInv, IInv', NoClash, NEW t \in mTasks
    PROVE  /\ PopTask(t) => Service!Run(t)
           /\ PopCancelled(t) => Stutter
<1> USE DEF IInv
<1>1. t \in made /\ mTasks \subseteq made
  BY DEF Known
<1>2. t \notin ran
  BY DEF Gone
<1>3. ASSUME PopTask(t) PROVE Service!Run(t)
  <2>1. /\ mTasks' = mTasks \ {t} /\ mTaskIds' = mTaskIds \ {t.id}
        /\ ran' = ran \cup {t} /\ Live(t)
        /\ UNCHANGED <<now, mState, made, cancelled>>
    BY <1>3 DEF PopTask, ForgetId
  <2>2. \A u \in mTasks : u # t => u.id # t.id
    BY <1>1 DEF NoClash, Clash
  <2>3. Pending' = Pending \ {t}
    BY <2>1, <2>2 DEF Pending, Live
  <2>4. Dropped' = Dropped
    BY <2>1 DEF Dropped
  <2>5. t.due <= now
    BY <2>1 DEF NeverEarly
  <2> QED
    BY <2>1, <2>3, <2>4, <2>5 DEF Service!Run, Pending, Dropped
<1>4. ASSUME PopCancelled(t) PROVE Stutter
  <2>1. /\ mTasks' = mTasks \ {t} /\ ~Live(t)
        /\ UNCHANGED <<now, mTaskIds, mState, made, cancelled, ran>>
    BY <1>4 DEF PopCancelled, history
  <2>2. sStep \in {"idle", "lock"}
    BY DEF DrainedStaysEmpty, TypeOK
  <2>3. t \in cancelled
    BY <1>1, <1>2, <2>1, <2>2 DEF UncancelledIsKept, NoClash
  <2> QED
    BY <2>1, <2>3 DEF Stutter, Pending, Dropped, Live
<1> QED
  BY <1>3, <1>4

\* A new task is scheduled; those queued before it keep their ids.
LEMMA AddRefines ==
    ASSUME IInv, NoClash', NEW a \in Adders, NEW d \in Delays, AddTask(a, d)
    PROVE  Service!Schedule(NewTask(a, d))
<1> DEFINE t == NewTask(a, d)
<1> USE SchedulerAssumption DEF IInv
<1>1. /\ mTasks' = mTasks \cup {t} /\ mTaskIds' = mTaskIds \cup {t.id}
      /\ made' = made \cup {t} /\ mState = 0
      /\ UNCHANGED <<now, mState, ran, cancelled>>
  BY DEF AddTask, Accepting
<1>2. t \notin made
  BY NewTaskIsNew
<1>3. \A u \in made : u.id # t.id
  BY <1>1, <1>2 DEF NoClash, Clash
<1>4. mTasks \cup ran \cup cancelled \subseteq made
  BY DEF Known
<1>5. Pending' = Pending \cup {t}
  BY <1>1, <1>3, <1>4 DEF Pending, Live
<1>6. Dropped' = Dropped
  BY <1>1, <1>2, <1>4 DEF Dropped
<1>7. t.due >= now
  BY DEF NewTask, TypeOK
<1>8. t \notin Pending \cup ran \cup cancelled \cup Dropped
  BY <1>2, <1>4 DEF Pending, Dropped
<1> QED
  BY <1>1, <1>5, <1>6, <1>7, <1>8
  DEF Service!Schedule, Service!Known, Pending, Dropped

\* What Shutdown finds in the queue is dropped, but for cancelled tasks.
LEMMA DrainRefines ==
    ASSUME IInv, NoClash, ShutdownDrain
    PROVE  Service!Drop \/ Stutter
<1> USE DEF IInv
<1>1. /\ mState # 0 /\ sStep = "lock" /\ mTasks' = {}
      /\ UNCHANGED <<now, mState, made, cancelled, ran>>
  BY DEF ShutdownDrain, history, StateIsShutdown
<1>2. Pending' = {}
  BY <1>1 DEF Pending
<1>3. mTasks \subseteq made /\ mTasks \cap ran = {}
  BY DEF Known, Gone
<1>4. Pending \cap cancelled = {}
  BY <1>3 DEF CancelledIsDead, NoClash, Pending
<1>5. \A t \in mTasks : t \in cancelled \/ t \in Pending
  BY <1>1, <1>3 DEF UncancelledIsKept, NoClash, Pending
<1>6. Dropped' = Dropped \cup Pending
  BY <1>1, <1>3, <1>4, <1>5 DEF Dropped, Pending
<1>7. CASE Pending = {}
  BY <1>1, <1>2, <1>6, <1>7 DEF Stutter
<1>8. CASE Pending # {}
  BY <1>1, <1>2, <1>6, <1>8 DEF Service!Drop, Pending, Dropped
<1> QED
  BY <1>7, <1>8

\* Scheduler.cpp implements the timer service, as long as no two tasks share
\* an id and no id is read from a deleted task.
THEOREM SchedulerImplementsTimerService ==
    Spec /\ []NoClash => Service!TSpec
<1>1. Init => Service!TInit
  BY DEF Init, Service!TInit
<1>2. IInv /\ IInv' /\ NoClash /\ NoClash' /\ [Next]_vars
         => [Service!TNext]_(Service!tvars)
  <2> SUFFICES ASSUME IInv, IInv', NoClash, NoClash', [Next]_vars
               PROVE  Service!TNext \/ Stutter
    BY DEF Service!tvars, Stutter, Pending, Dropped
  <2>0. \A t \in mTasks : t \in Task
    BY DEF IInv, TypeOK
  <2>1. CASE Tick
    BY <2>1 DEF Tick, history, Service!TNext, Service!TTick, Live
  <2>2. ASSUME NEW a \in Adders, NEW d \in Delays, AddTask(a, d)
        PROVE  Service!TNext
    <3>1. NewTask(a, d) \in Task
      BY <2>2 DEF IInv, TypeOK, AddTask
    <3> QED
      BY <2>2, <3>1, AddRefines DEF Service!TNext
  <2>3. ASSUME NEW h \in handles, CancelTask(h)
        PROVE  Service!TNext \/ Stutter
    <3>1. h.task \in Task
      BY DEF IInv, TypeOK, Handle
    <3> QED
      BY <2>3, <3>1, CancelRefines DEF Service!TNext
  <2>4. ASSUME NEW t \in mTasks, PopTask(t) \/ PopCancelled(t)
        PROVE  Service!TNext \/ Stutter
    BY <2>0, <2>4, PopRefines DEF Service!TNext
  <2>5. CASE ShutdownDrain
    BY <2>5, DrainRefines DEF Service!TNext
  <2>6. CASE ShutdownStore
    <3>1. mState = 0 /\ mState' = 1
      BY <2>6 DEF ShutdownStore, IInv, StateIsShutdown
    <3> QED
      BY <2>6, <3>1 DEF ShutdownStore, history, Service!TNext, Service!Close, Live
  <2>7. CASE UNCHANGED <<now, mState, mTasks, mTaskIds, made, cancelled, ran>>
    BY <2>7 DEF Stutter, Pending, Dropped, Live
  <2>8. CASE \/ CheckState \/ LockAndWait \/ SpuriousWakeup \/ Timeout
             \/ WaitReturns \/ PopNothing \/ FinishTask
             \/ ShutdownNotify \/ ShutdownJoin
             \/ \E a \in Adders : RefuseTask(a) \/ AddNotify(a) \/ ReturnId(a)
    BY <2>7, <2>8
    DEF CheckState, LockAndWait, SpuriousWakeup, Timeout, WaitReturns,
        PopNothing, FinishTask, ShutdownNotify, ShutdownJoin, RefuseTask,
        AddNotify, ReturnId, history
  <2>9. CASE UNCHANGED vars
    BY <2>7, <2>9 DEF vars, history
  <2> QED
    BY <2>1, <2>2, <2>3, <2>4, <2>5, <2>6, <2>8, <2>9 DEF Next
<1> QED
  BY <1>1, <1>2, IInvCorrect, PTL DEF Spec, Service!TSpec

\* With one game the premise holds by itself.
THEOREM OneAdderImplementsTimerService ==
    ASSUME \A a, b \in Adders : a = b, MaxAdds <= MaxId, Garbage = {}
    PROVE  Spec => ImplementsTimerService
BY OneAdderNoClash, SchedulerImplementsTimerService, PTL
DEF ImplementsTimerService

-----------------------------------------------------------------------------
(***************************************************************************)
(* Whatever the ids, the scheduler is a queue with one lock.               *)
(***************************************************************************)

\* The task whose callback is under way.
Held == IF worker = "running" THEN {wTask} ELSE {}

\* What the other threads and the worker do between the locked sections does
\* not show in the queue.
LEMMA OutsideTheLock ==
    ASSUME UNCHANGED <<mState, made, mTasks, mTaskIds>>,
           worker = "running" => UNCHANGED <<worker, wTask>>,
           worker # "running" => worker' # "running"
    PROVE  UNCHANGED <<mState = 0, made, mTasks, mTaskIds, Held>>
BY DEF Held

\* Every behaviour of Scheduler.cpp is one of a queue whose calls are single
\* steps: AddTask, CancelTask, the worker's turn and Shutdown take effect
\* under mLock (44-93), and what follows the unlocking adds nothing to them.
THEOREM SchedulerImplementsTaskQueue == Spec => ImplementsTaskQueue
<1>1. Init => Locked!QInit
  BY DEF Init, Locked!QInit
<1>2. IInv /\ IInv' /\ [Next]_vars => [Locked!QNext]_(Locked!qvars)
  <2> SUFFICES ASSUME IInv, IInv', [Next]_vars
               PROVE  \/ Locked!QNext
                      \/ UNCHANGED <<mState = 0, made, mTasks, mTaskIds, Held>>
    BY DEF Locked!qvars, Held
  <2> USE DEF IInv
  <2>1. ASSUME NEW a \in Adders, NEW d \in Delays, AddTask(a, d)
        PROVE  Locked!QNext
    <3> DEFINE t == NewTask(a, d)
    <3>1. t \notin made
      BY NewTaskIsNew
    <3>2. t \in Task
      BY <2>1 DEF AddTask, TypeOK
    <3>3. Locked!Add(t)
      BY <2>1, <3>1 DEF AddTask, Accepting, workerVars, Locked!Add
    <3> QED
      BY <3>2, <3>3 DEF Locked!QNext
  <2>2. ASSUME NEW h \in handles, CancelTask(h)
        PROVE  Locked!QNext \/ UNCHANGED <<mState = 0, made, mTasks, mTaskIds, Held>>
    <3>1. /\ mTaskIds' = mTaskIds \ {h.id}
          /\ UNCHANGED <<mTasks, mState, made, worker, wTask>>
      BY <2>2 DEF CancelTask, ForgetId, workerVars
    <3>2. Locked!Cancel(h.id)
      BY <3>1 DEF Locked!Cancel
    <3>3. CASE h.id \in mTaskIds
      BY <3>2, <3>3 DEF Locked!QNext
    <3>4. CASE h.id \notin mTaskIds
      BY <3>1, <3>4 DEF Held
    <3> QED
      BY <3>3, <3>4
  <2>3. ASSUME NEW t \in mTasks, PopTask(t)
        PROVE  Locked!QNext
    <3>1. worker # "running" /\ worker' = "running" /\ wTask' = t
      BY <2>3 DEF PopTask, TimedOut
    <3>2. Locked!Take(t)
      BY <2>3, <3>1 DEF PopTask, Live, ForgetId, Locked!Take
    <3> QED
      BY <3>2 DEF Locked!QNext
  <2>4. ASSUME NEW t \in mTasks, PopCancelled(t)
        PROVE  Locked!QNext
    <3>1. worker # "running" /\ worker' # "running"
      BY <2>4 DEF PopCancelled, TimedOut
    <3>2. Locked!ThrowAway(t)
      BY <2>4, <3>1 DEF PopCancelled, Live, history, Locked!ThrowAway
    <3> QED
      BY <3>2 DEF Locked!QNext
  <2>5. CASE FinishTask
    <3>1. Locked!Return
      BY <2>5 DEF FinishTask, Locked!Return
    <3> QED
      BY <3>1 DEF Locked!QNext
  <2>6. CASE ShutdownStore
    <3>1. Locked!Shut
      BY <2>6 DEF ShutdownStore, history, workerVars, Locked!Shut
    <3> QED
      BY <3>1 DEF Locked!QNext
  <2>7. CASE ShutdownDrain
    <3>1. mState # 0 /\ mState' = mState
      BY <2>7 DEF ShutdownDrain, StateIsShutdown
    <3>2. Locked!Shut
      BY <2>7, <3>1 DEF ShutdownDrain, history, workerVars, Locked!Shut
    <3> QED
      BY <3>2 DEF Locked!QNext
  <2>8. ASSUME NEW a \in Adders, RefuseTask(a) \/ AddNotify(a) \/ ReturnId(a)
        PROVE  UNCHANGED <<mState = 0, made, mTasks, mTaskIds, Held>>
    BY <2>8, OutsideTheLock
    DEF RefuseTask, AddNotify, ReturnId, NotifyOne, workerVars, history
  <2>9. CASE \/ Tick \/ CheckState \/ LockAndWait \/ SpuriousWakeup \/ Timeout
             \/ WaitReturns \/ PopNothing
    BY <2>9, OutsideTheLock
    DEF Tick, CheckState, LockAndWait, SpuriousWakeup, Timeout, WaitReturns,
        PopNothing, TimedOut, workerVars, history
  <2>10. CASE ShutdownNotify \/ ShutdownJoin
    BY <2>10, OutsideTheLock
    DEF ShutdownNotify, ShutdownJoin, NotifyOne, workerVars, history
  <2>11. CASE UNCHANGED vars
    BY <2>11 DEF vars, workerVars, history, Held
  <2> QED
    BY <2>1, <2>2, <2>3, <2>4, <2>5, <2>6, <2>7, <2>8, <2>9, <2>10, <2>11 DEF Next
<1> QED
  BY <1>1, <1>2, IInvCorrect, PTL DEF Spec, ImplementsTaskQueue, Locked!QSpec

=============================================================================
