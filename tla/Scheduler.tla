------------------------------ MODULE Scheduler ------------------------------
(***************************************************************************)
(* The delayed-task scheduler (Core/Async/Scheduler.cpp).  One worker      *)
(* thread sleeps on a condition variable until the earliest deadline of a  *)
(* priority queue; any thread adds and cancels tasks; the application      *)
(* shuts the scheduler down at exit.                                       *)
(*                                                                         *)
(* mLock is not a variable: every critical section of the code is one      *)
(* action, and the two places where the worker is between sections (inside *)
(* the wait, and holding a popped task) are values of its program counter. *)
(* What is read or written OUTSIDE the lock is a step of its own: the      *)
(* worker's test of mState, Shutdown's store to it, the notifications, and *)
(* AddTask's last read of a task that the worker may have deleted.         *)
(***************************************************************************)
EXTENDS Integers, FiniteSets

CONSTANTS Adders,    \* the threads that call AddTask, one id counter each
          Delays,    \* the delays they ask for
          MaxId,     \* the largest id: 2^32 - 1 in the code
          MaxAdds,   \* bound: AddTask calls of one thread
          MaxTime,   \* bound: the clock
          Garbage    \* ids that a read of a deleted task may yield

ASSUME SchedulerAssumption ==
    /\ Delays \subseteq Nat
    /\ MaxId \in Nat \ {0}
    /\ MaxAdds \in Nat
    /\ MaxTime \in Nat
    /\ Garbage \subseteq 0..MaxId

Ids == 1..MaxId

\* A heap-allocated Task.  by and seq stand for its address: they tell two
\* tasks apart whatever their ids are.
Task == [by : Adders, seq : 1..MaxAdds, id : Ids, due : 0..MaxTime]

NoTask == [by |-> "none", seq |-> 0, id |-> 0, due |-> 0]

Forever == -1        \* wUntil of a wait that has no deadline

VARIABLES
    now,         \* the clock
    mTasks,      \* the priority queue, as the set of its tasks
    mTaskIds,    \* ids of tasks that are neither cancelled nor popped
    mState,      \* 0 until Shutdown stores 1
    taskId,      \* per thread: AddTask's static thread_local counter
    adds,        \* per thread: how many AddTask calls it made
    aStep,       \* per thread: where its AddTask call is
    aTask,       \* per thread: the task of that call
    worker,      \* program counter of mThread
    wUntil,      \* deadline of its wait
    wTask,       \* the task it holds
    sStep,       \* where the Shutdown call is
    freed,       \* deleted tasks
    \* History, read by properties only.
    made,        \* every task ever queued
    handles,     \* what callers believe: task t has id i
    cancelled,   \* tasks whose caller cancelled them while they were queued
    ran          \* tasks whose callback was started

adderVars == <<taskId, adds, aStep, aTask>>
workerVars == <<worker, wUntil, wTask>>
history == <<made, handles, cancelled, ran>>
vars == <<now, mTasks, mTaskIds, mState, adderVars, workerVars, sStep,
          freed, history>>

Handle == [task : Task, id : 0..MaxId]

Init == /\ now = 0
        /\ mTasks = {}
        /\ mTaskIds = {}
        /\ mState = 0
        /\ taskId = [a \in Adders |-> 0]
        /\ adds = [a \in Adders |-> 0]
        /\ aStep = [a \in Adders |-> "idle"]
        /\ aTask = [a \in Adders |-> NoTask]
        /\ worker = "check"
        /\ wUntil = Forever
        /\ wTask = NoTask
        /\ sStep = "idle"
        /\ freed = {}
        /\ made = {}
        /\ handles = {}
        /\ cancelled = {}
        /\ ran = {}

Tick == /\ now < MaxTime
        /\ now' = now + 1
        /\ UNCHANGED <<mTasks, mTaskIds, mState, adderVars, workerVars, sStep,
                       freed, history>>

-----------------------------------------------------------------------------
(* AddTask *)

\* Definitions named after another with a suffix (NewTask_PostIncrement) are
\* that definition with a mistake in it, and occur in no specification: each
\* is put in place of the original to see that a property notices.

\* AddTask queues only while the scheduler is up.
Accepting_Always == TRUE
Accepting == mState = 0

\* ++taskId, skipping 0 when the counter wraps.
NextId(a) == IF taskId[a] = MaxId THEN 1 ELSE taskId[a] + 1

NewTask(a, d) ==
    [by |-> a, seq |-> adds[a] + 1, id |-> NextId(a), due |-> now + d]

\* std::push_heap moves a new task to the top only past strictly later deadlines.
BecomesTop_IfEmpty(t) == mTasks = {}
BecomesTop_Never(t) == FALSE
BecomesTop(t) == \A u \in mTasks : t.due < u.due

\* The locked part of AddTask; the worker is notified of a new top only.
AddTask(a, d) ==
    LET t == NewTask(a, d) IN
    /\ aStep[a] = "idle"
    /\ Accepting
    /\ adds[a] < MaxAdds
    /\ t.due <= MaxTime
    /\ taskId' = [taskId EXCEPT ![a] = NextId(a)]
    /\ adds' = [adds EXCEPT ![a] = @ + 1]
    /\ mTaskIds' = mTaskIds \cup {t.id}
    /\ mTasks' = mTasks \cup {t}
    /\ aTask' = [aTask EXCEPT ![a] = t]
    /\ aStep' = [aStep EXCEPT ![a] = IF BecomesTop(t) THEN "notify"
                                                     ELSE "return"]
    /\ made' = made \cup {t}
    /\ UNCHANGED <<now, mState, workerVars, sStep, freed, handles, cancelled,
                   ran>>

\* AddTask finds the scheduler shut down and returns 0.
RefuseTask(a) ==
    /\ aStep[a] = "idle"
    /\ ~Accepting
    /\ adds[a] < MaxAdds
    /\ adds' = [adds EXCEPT ![a] = @ + 1]
    /\ UNCHANGED <<now, mTasks, mTaskIds, mState, taskId, aStep, aTask,
                   workerVars, sStep, freed, history>>

\* mSignal.notify_one: only the worker ever waits on mSignal.
NotifyOne == worker' = IF worker = "waiting" THEN "woken" ELSE worker

AddNotify(a) ==
    /\ aStep[a] = "notify"
    /\ NotifyOne
    /\ aStep' = [aStep EXCEPT ![a] = "return"]
    /\ UNCHANGED <<now, mTasks, mTaskIds, mState, taskId, adds, aTask, wUntil,
                   wTask, sStep, freed, history>>

\* return task->GetId(), after the lock is gone: if the worker has deleted the
\* task meanwhile the read is undefined, and yields the id or anything else.
ReturnId(a) ==
    /\ aStep[a] = "return"
    /\ \E i \in {aTask[a].id} \cup (IF aTask[a] \in freed THEN Garbage ELSE {}) :
          handles' = handles \cup {[task |-> aTask[a], id |-> i]}
    /\ aStep' = [aStep EXCEPT ![a] = "idle"]
    /\ aTask' = [aTask EXCEPT ![a] = NoTask]
    /\ UNCHANGED <<now, mTasks, mTaskIds, mState, taskId, adds, workerVars,
                   sStep, freed, made, cancelled, ran>>

-----------------------------------------------------------------------------
(* CancelTask *)

\* mTaskIds.erase
ForgetId_All(i) == mTaskIds' = {}
ForgetId(i) == mTaskIds' = mTaskIds \ {i}

\* Some thread cancels the task it knows by handle h.  The id leaves mTaskIds;
\* the task itself stays queued until its deadline.
CancelTask(h) ==
    /\ h.id # 0
    /\ ForgetId(h.id)
    /\ cancelled' = cancelled \cup ({h.task} \cap mTasks)
    /\ UNCHANGED <<now, mTasks, mState, adderVars, workerVars, sStep, freed,
                   made, handles, ran>>

-----------------------------------------------------------------------------
(* The worker's loop *)

\* while (mState == 0), read without the lock.
CheckState ==
    /\ worker = "check"
    /\ worker' = IF mState = 0 THEN "lock" ELSE "exited"
    /\ UNCHANGED <<now, mTasks, mTaskIds, mState, adderVars, wUntil, wTask,
                   sStep, freed, history>>

\* mTasks.top(): TaskComparator puts an earliest deadline on top.
Top_Latest(t) == t \in mTasks /\ \A u \in mTasks : u.due <= t.due
Top(t) == t \in mTasks /\ \A u \in mTasks : t.due <= u.due

\* Has t been neither cancelled nor popped, as far as mTaskIds tells?
Live_Always(t) == TRUE
Live(t) == t.id \in mTaskIds

\* Lock, and wait: for the earliest deadline if there is one.
LockAndWait ==
    /\ worker = "lock"
    /\ worker' = "waiting"
    /\ IF mTasks = {} THEN wUntil' = Forever
                      ELSE \E t \in mTasks : Top(t) /\ wUntil' = t.due
    /\ UNCHANGED <<now, mTasks, mTaskIds, mState, adderVars, wTask, sStep,
                   freed, history>>

Expired == wUntil # Forever /\ wUntil <= now

SpuriousWakeup ==
    /\ worker = "waiting"
    /\ worker' = "woken"
    /\ UNCHANGED <<now, mTasks, mTaskIds, mState, adderVars, wUntil, wTask,
                   sStep, freed, history>>

Timeout ==
    /\ worker = "waiting"
    /\ Expired
    /\ worker' = "timedout"
    /\ UNCHANGED <<now, mTasks, mTaskIds, mState, adderVars, wUntil, wTask,
                   sStep, freed, history>>

\* The wait returns no_timeout: unlock and start over.
WaitReturns ==
    /\ worker = "woken"
    /\ worker' = "check"
    /\ UNCHANGED <<now, mTasks, mTaskIds, mState, adderVars, wUntil, wTask,
                   sStep, freed, history>>

\* The wait returns timeout.  A notified wait may say so too, when it gets the
\* lock back after the deadline: implementations compare with the clock then.
TimedOut == worker = "timedout" \/ (worker = "woken" /\ Expired)

\* A popped task whose id is still in mTaskIds is to be run ...
PopTask(t) ==
    /\ TimedOut
    /\ Top(t)
    /\ Live(t)
    /\ mTasks' = mTasks \ {t}
    /\ ForgetId(t.id)
    /\ worker' = "running"
    /\ wTask' = t
    /\ ran' = ran \cup {t}
    /\ UNCHANGED <<now, mState, adderVars, wUntil, sStep, freed, made,
                   handles, cancelled>>

\* ... and one whose id is gone was cancelled, and is thrown away.
PopCancelled(t) ==
    /\ TimedOut
    /\ Top(t)
    /\ ~Live(t)
    /\ mTasks' = mTasks \ {t}
    /\ worker' = "deleting"
    /\ wTask' = t
    /\ UNCHANGED <<now, mTaskIds, mState, adderVars, wUntil, sStep, freed,
                   history>>

\* Shutdown emptied the queue while the worker waited for the lock:
\* mTasks.top() of an empty queue, and nothing is known of the worker then.
PopNothing ==
    /\ TimedOut
    /\ mTasks = {}
    /\ worker' = "undefined"
    /\ UNCHANGED <<now, mTasks, mTaskIds, mState, adderVars, wUntil, wTask,
                   sStep, freed, history>>

\* The callback gets the id of its task; then the task is deleted.
FinishTask ==
    /\ worker \in {"running", "deleting"}
    /\ worker' = "check"
    /\ wTask' = NoTask
    /\ freed' = freed \cup {wTask}
    /\ handles' = IF worker = "running"
                  THEN handles \cup {[task |-> wTask, id |-> wTask.id]}
                  ELSE handles
    /\ UNCHANGED <<now, mTasks, mTaskIds, mState, adderVars, wUntil, sStep,
                   made, cancelled, ran>>

-----------------------------------------------------------------------------
(* Shutdown, called once, when the application exits *)

ShutdownStore ==
    /\ sStep = "idle"
    /\ sStep' = "lock"
    /\ mState' = 1
    /\ UNCHANGED <<now, mTasks, mTaskIds, adderVars, workerVars, freed, history>>

ShutdownDrain ==
    /\ sStep = "lock"
    /\ sStep' = "notify"
    /\ freed' = freed \cup mTasks
    /\ mTasks' = {}
    /\ mTaskIds' = {}
    /\ UNCHANGED <<now, mState, adderVars, workerVars, history>>

ShutdownNotify_Forgotten ==
    /\ sStep = "notify"
    /\ sStep' = "join"
    /\ UNCHANGED <<now, mTasks, mTaskIds, mState, adderVars, workerVars, freed,
                   history>>

ShutdownNotify ==
    /\ sStep = "notify"
    /\ sStep' = "join"
    /\ NotifyOne
    /\ UNCHANGED <<now, mTasks, mTaskIds, mState, adderVars, wUntil, wTask,
                   freed, history>>

ShutdownJoin ==
    /\ sStep = "join"
    /\ worker = "exited"
    /\ sStep' = "done"
    /\ UNCHANGED <<now, mTasks, mTaskIds, mState, adderVars, workerVars, freed,
                   history>>

-----------------------------------------------------------------------------

Next == \/ Tick
        \/ \E a \in Adders, d \in Delays : AddTask(a, d)
        \/ \E a \in Adders : RefuseTask(a) \/ AddNotify(a) \/ ReturnId(a)
        \/ \E h \in handles : CancelTask(h)
        \/ CheckState
        \/ LockAndWait
        \/ SpuriousWakeup
        \/ Timeout
        \/ WaitReturns
        \/ \E t \in mTasks : PopTask(t) \/ PopCancelled(t)
        \/ PopNothing
        \/ FinishTask
        \/ ShutdownStore
        \/ ShutdownDrain
        \/ ShutdownNotify
        \/ ShutdownJoin

Spec == Init /\ [][Next]_vars

\* The steps a thread takes without being asked: time passes, a started call
\* goes on, the worker goes round its loop.  Nobody must add, cancel or shut
\* down.  Timeout is strongly fair because spurious wakeups and notifications
\* may interrupt a wait again and again, but not forever just before its
\* deadline is noticed.
Progress == \/ CheckState
            \/ LockAndWait
            \/ WaitReturns
            \/ \E t \in mTasks : PopTask(t) \/ PopCancelled(t)
            \/ PopNothing
            \/ FinishTask

Fairness == /\ WF_vars(Tick)
            /\ WF_vars(Progress)
            /\ SF_vars(Timeout)
            /\ \A a \in Adders : WF_vars(AddNotify(a) \/ ReturnId(a))
            /\ WF_vars(ShutdownDrain \/ ShutdownNotify \/ ShutdownJoin)

FairSpec == Spec /\ Fairness

-----------------------------------------------------------------------------
(* Properties *)

\* Every variable keeps its type (Scheduler.h 58-64 and the locals of the
\* worker, of AddTask and of Shutdown).
TypeOK ==
    /\ now \in 0..MaxTime
    /\ mTasks \subseteq Task
    /\ mTaskIds \subseteq Ids
    /\ mState \in {0, 1}
    /\ taskId \in [Adders -> 0..MaxId]
    /\ adds \in [Adders -> 0..MaxAdds]
    /\ aStep \in [Adders -> {"idle", "notify", "return"}]
    /\ aTask \in [Adders -> Task \cup {NoTask}]
    /\ worker \in {"check", "lock", "waiting", "woken", "timedout", "running",
                   "deleting", "exited", "undefined"}
    /\ wUntil \in 0..MaxTime \cup {Forever}
    /\ wTask \in Task \cup {NoTask}
    /\ sStep \in {"idle", "lock", "notify", "join", "done"}
    /\ freed \subseteq Task
    /\ made \subseteq Task
    /\ handles \subseteq Handle
    /\ cancelled \subseteq Task
    /\ ran \subseteq Task
    /\ \A a \in Adders : aStep[a] # "idle" => aTask[a] # NoTask
    /\ worker \in {"running", "deleting"} => wTask # NoTask

\* No callback starts before its delay is over.  The worker pops whatever is on
\* top after a timeout, not the task it slept for: this is right only because
\* the top can move no further away than the deadline it slept for.
NeverEarly == \A t \in ran : t.due <= now

\* Only Shutdown empties the queue under a worker whose wait has a deadline:
\* while the scheduler is up, the worker never takes the top of an empty queue.
NoEmptyPop == worker = "undefined" => mState # 0

\* No lost wakeup among the adders.  When the worker sleeps past the earliest
\* deadline, the AddTask call that put that task on top has its notification
\* still to make: the code drops the lock before it notifies.
NoMissedDeadline ==
    (worker = "waiting" /\ mTasks # {}) =>
        \/ \E a \in Adders : aStep[a] = "notify"
        \/ wUntil # Forever /\ \A t \in mTasks : wUntil <= t.due

\* Somebody else may speak of task t when he uses its id: a second task got the
\* same id (every thread counts for itself, and the counter wraps), or AddTask
\* read its id from a deleted task.
Clash(t) == \/ \E u \in made \ {t} : u.id = t.id
            \/ \E h \in handles : h.task # t /\ h.id = t.id

\* CancelTask is final: a task cancelled while it was queued never runs, unless
\* its id clashed.  The code only erases the id, and the next AddTask that gets
\* this id brings the cancelled task, which is still queued, back to life.
CancelledNeverRuns == \A t \in cancelled \cap ran : Clash(t)

\* A task nobody cancelled is not thrown away before Shutdown does, unless its
\* id clashed: two queued tasks of one id share one entry of mTaskIds, and
\* the second to be popped finds it gone.
UncancelledIsKept ==
    sStep \in {"idle", "lock"} =>
        \A t \in made \ (cancelled \cup ran) :
            (t \in mTasks /\ Live(t)) \/ Clash(t)

\* With one adding thread, ids told apart and no read of a deleted task, no id
\* ever clashes: what CancelledNeverRuns and UncancelledIsKept except is then
\* empty.  (A premise of ImplementsTimerService.)
NoClash == \A t \in made : ~Clash(t)

\* Once Shutdown has emptied the queue nothing is queued any more, and no
\* AddTask in flight adds to it: the code tests mState under the lock.
DrainedStaysEmpty == sStep \in {"notify", "join", "done"} => mTasks = {}

\* Shutdown ends the queue once, whatever the worker and the adders are at.
ShutdownIsFinal == NoEmptyPop /\ DrainedStaysEmpty

\* Every task is eventually run or thrown away, unless the application exits:
\* no wakeup is lost, and the worker always comes back to its wait.
TaskSettles ==
    \A a \in Adders, n \in 1..MaxAdds :
        (\E t \in made : t.by = a /\ t.seq = n)
            ~> (mState # 0 \/ \E t \in freed : t.by = a /\ t.seq = n)

\* Shutdown returns, when it stores its flag while the worker runs a task, has
\* yet to test the flag, or sleeps without a deadline.  (The worker that has
\* tested the flag and not yet locked sleeps through the notification, and one
\* whose deadline passes while the queue is emptied pops an empty queue.)
ShutdownReturns ==
    (/\ sStep = "lock"
     /\ \/ worker \in {"check", "running", "deleting"}
        \/ worker = "waiting" /\ wUntil = Forever)
        ~> (sStep = "done")

(* The timer service that the scheduler implements. *)
Service == INSTANCE TimerService WITH
    Tasks <- Task,
    clock <- now,
    open <- (mState = 0),
    pending <- {t \in mTasks : Live(t)},
    ran <- ran,
    cancelled <- cancelled,
    dropped <- {t \in made \ (cancelled \cup ran) : t \notin mTasks}

\* Without clashing ids every behaviour of the scheduler is one of the timer
\* service: each task runs at most once, in time, and never after its cancel.
ImplementsTimerService == Service!TSpec

(* The queue with one lock that the scheduler implements, whatever its ids. *)
Locked == INSTANCE TaskQueue WITH
    Requests <- Task,
    open <- (mState = 0),
    known <- made,
    queued <- mTasks,
    live <- mTaskIds,
    held <- IF worker = "running" THEN {wTask} ELSE {}

\* Every step of the scheduler is one step of that queue, or none of its
\* callers' business: what is done outside the lock does not show.
ImplementsTaskQueue == Locked!QSpec

=============================================================================
