--------------------------- MODULE GameLifecycle ---------------------------
(***************************************************************************)
(* A game's life on three threads: the io thread starts, stops and chats   *)
(* with it (Game/Instance.cpp Start, Stop; Blaze MessagingComponent), the  *)
(* game's own thread runs posted tasks, packets and updates                *)
(* (RakNet/Server.cpp start), and the scheduler's thread fires the events  *)
(* that its scripts asked for (AddEvent of Game/LuaFunctions.cpp).         *)
(*                                                                         *)
(* The scheduler is taken as its locked sections: add, cancel and pop are  *)
(* atomic, and delays are arbitrary, so any queued event may be popped     *)
(* next.  (Scheduler.tla opens these sections.)  Starting a game again     *)
(* replaces its server, its Lua state and its thread: a "run" is the time  *)
(* from one such replacement to the next.                                  *)
(*                                                                         *)
(* There is one game here.  Games share the scheduler, and each thread     *)
(* counts its ids from 1: what a second run does to the events of a first  *)
(* one with their ids, another game does as well (its event may take or    *)
(* revive an id of this game).  What follows holds as far as no other      *)
(* game's task has an id of this one's; Scheduler.tla has the rest.         *)
(***************************************************************************)
EXTENDS Naturals, Sequences, FiniteSets

CONSTANTS MaxRuns,     \* bound: calls of Start
          MaxEvents,   \* bound: events added in the game's life
          MaxChats     \* bound: chat commands

ASSUME LifecycleAssumption == {MaxRuns, MaxEvents, MaxChats} \subseteq Nat

VARIABLES
    ioPc,          \* what the io thread is doing to the game
    toCancel,      \* ids Stop's loop has still to visit
    runs,          \* how often the game was started
    mServer,       \* the run whose server and Lua state exist; 0: none
    mRunning,      \* Server::mRunning
    luaReady,      \* Lua::Initialize has run in this run
    mTasks,        \* the server's task queue
    chats,         \* how many chat commands were posted
    gt,            \* what the game's thread is doing; it holds mTaskMutex
                   \* when "tasks" or "task"
    adding,        \* the event AddTask has scheduled and not yet noted
    added,         \* how many events were added
    run,           \* event |-> the run whose script added it
    id,            \* event |-> its id, counted per game thread
    mEvents,       \* Instance::mEvents: ids
    queue,         \* events in the scheduler's queue
    mTaskIds,      \* Scheduler::mTaskIds
    schedPc,       \* what the scheduler's thread is doing
    schedEvent,    \* the event whose callback it runs
    schedServer,   \* the server that callback has read from the game
    schedulerUp,   \* the application's scheduler exists
    broken,        \* the first undefined behaviour met, "no" before any
    calls,         \* history: event |-> how often its script was called
    cancelled,     \* history: events cancelled while queued, by
                   \* StopEvent or Stop
    hit,           \* history: events cancelled while queued by the id of
                   \* another event, when that one ran
    dropped        \* history: events whose task or callback went with a
                   \* server, or with the scheduler

ioVars == <<ioPc, toCancel>>
gameVars == <<mServer, mRunning, luaReady>>
eventVars == <<added, run, id>>
timerVars == <<queue, mTaskIds, schedulerUp>>
schedVars == <<schedPc, schedEvent, schedServer>>
historyVars == <<calls, cancelled, hit, dropped>>
vars == <<runs, mTasks, chats, gt, adding, mEvents, broken, ioVars, gameVars,
          eventVars, timerVars, schedVars, historyVars>>

Events == 1..MaxEvents
Added == 1..added
NoEvent == 0

Task == [kind : {"init", "chat"}] \cup [kind : {"event"}, event : Events]

TypeOK ==
    /\ ioPc \in {"idle", "cancel", "join", "reset", "construct", "post",
                 "destroy", "exited"}
    /\ toCancel \subseteq Nat
    /\ runs \in 0..MaxRuns /\ mServer \in 0..runs
    /\ mRunning \in BOOLEAN /\ luaReady \in BOOLEAN
    /\ mTasks \in Seq(Task)
    /\ chats \in 0..MaxChats
    /\ gt \in {"ended", "loop", "tasks", "task", "update"}
    /\ added \in 0..MaxEvents /\ adding \in Added \cup {NoEvent}
    /\ run \in [Events -> Nat] /\ id \in [Events -> Nat]
    /\ mEvents \subseteq Nat
    /\ queue \subseteq Added /\ mTaskIds \subseteq Nat
    /\ schedPc \in {"idle", "popped", "posting"}
    /\ schedEvent \in Added \cup {NoEvent}
    /\ schedServer \in 0..runs
    /\ schedulerUp \in BOOLEAN
    /\ broken \in {"no", "null", "freed", "lua", "events", "scheduler"}
    /\ calls \in [Events -> Nat]
    /\ cancelled \subseteq Added /\ hit \subseteq Added
    /\ dropped \subseteq Added

Init ==
    /\ ioPc = "idle" /\ toCancel = {}
    /\ runs = 0 /\ mServer = 0
    /\ mRunning = FALSE /\ luaReady = FALSE
    /\ mTasks = <<>>
    /\ chats = 0
    /\ gt = "ended" /\ adding = NoEvent
    /\ added = 0
    /\ run = [e \in Events |-> 0] /\ id = [e \in Events |-> 0]
    /\ mEvents = {}
    /\ queue = {} /\ mTaskIds = {}
    /\ schedPc = "idle" /\ schedEvent = NoEvent /\ schedServer = 0
    /\ schedulerUp = TRUE
    /\ broken = "no"
    /\ calls = [e \in Events |-> 0]
    /\ cancelled = {} /\ hit = {} /\ dropped = {}

----------------------------------------------------------------------------
(* The scheduler's sections, and the server's lock.                        *)

\* After undefined behaviour nothing is known.
Sound == broken = "no"

\* The queued events that a cancellation of id i takes the life of.
Withdrawn(i) == {e \in queue : id[e] = i /\ i \in mTaskIds}

\* Mutant: every id goes.
CancelId_All(i) == mTaskIds' = {}

\* Scheduler::CancelTask: the id goes, the task stays until it is popped.
CancelId(i) == mTaskIds' = mTaskIds \ {i}

\* mTaskMutex is the game thread's while it runs tasks.
TaskMutexFree == gt \notin {"tasks", "task"}

\* Server::add_task, once the lock is held.
Pushed(task) == Append(mTasks, task)

\* The events of posted tasks.
Posted == {mTasks[n].event : n \in {m \in 1..Len(mTasks) :
                                      mTasks[m].kind = "event"}}

----------------------------------------------------------------------------
(* The io thread: Instance::Start is Stop, then a new server.              *)

\* Stop walks through mEvents, if there are any.
BeginStart ==
    /\ Sound
    /\ ioPc = "idle"
    /\ runs < MaxRuns
    /\ ioPc' = "cancel"
    /\ toCancel' = mEvents
    /\ UNCHANGED <<runs, mTasks, chats, gt, adding, mEvents, broken, gameVars,
                   eventVars, timerVars, schedVars, historyVars>>

\* One turn of Stop's loop.  (Without a scheduler GetScheduler dereferences
\* null.)
StopCancel(i) ==
    /\ Sound
    /\ ioPc = "cancel"
    /\ toCancel' = toCancel \ {i}
    /\ IF schedulerUp
       THEN /\ CancelId(i)
            /\ cancelled' = cancelled \cup Withdrawn(i)
            /\ UNCHANGED broken
       ELSE broken' = "scheduler" /\ UNCHANGED <<mTaskIds, cancelled>>
    /\ UNCHANGED <<runs, mTasks, chats, gt, adding, mEvents, ioPc, gameVars,
                   eventVars, queue, schedulerUp, schedVars, calls, hit,
                   dropped>>

\* mEvents.clear, and Server::stop: a server that runs is told to stop.
StopServer ==
    /\ Sound
    /\ ioPc = "cancel"
    /\ toCancel = {}
    /\ mEvents' = {}
    /\ mRunning' = FALSE
    /\ ioPc' = IF mServer # 0 THEN "join" ELSE "reset"
    /\ UNCHANGED <<runs, mTasks, chats, gt, adding, broken, toCancel, mServer,
                   luaReady, eventVars, timerVars, schedVars, historyVars>>

\* mThread.join, "wait until it stops".
Join ==
    /\ Sound
    /\ ioPc = "join"
    /\ gt = "ended"
    /\ ioPc' = "reset"
    /\ UNCHANGED <<runs, mTasks, chats, gt, adding, mEvents, broken, toCancel,
                   gameVars, eventVars, timerVars, schedVars, historyVars>>

\* The server goes with its tasks, then Lua, then the objects.  At exit the
\* game goes too.
Reset ==
    /\ Sound
    /\ ioPc = "reset"
    /\ mServer' = 0
    /\ luaReady' = FALSE
    /\ mTasks' = <<>>
    /\ dropped' = dropped \cup Posted
    /\ ioPc' = IF schedulerUp THEN "construct" ELSE "exited"
    /\ UNCHANGED <<runs, chats, gt, adding, mEvents, broken, toCancel,
                   mRunning, eventVars, timerVars, schedVars, calls,
                   cancelled, hit>>

\* A new object manager, Lua state and server, and its thread, which ends at
\* once if RakNet cannot bind the port.
Construct ==
    /\ Sound
    /\ ioPc = "construct"
    /\ runs' = runs + 1
    /\ mServer' = runs'
    /\ mRunning' = TRUE
    /\ gt' \in {"loop", "ended"}
    /\ ioPc' = "post"
    /\ UNCHANGED <<mTasks, chats, adding, mEvents, broken, toCancel, luaReady,
                   eventVars, timerVars, schedVars, historyVars>>

\* The task that initialises Lua, posted while the new thread already runs.
PostInit ==
    /\ Sound
    /\ ioPc = "post"
    /\ TaskMutexFree
    /\ mTasks' = Pushed([kind |-> "init"])
    /\ ioPc' = "idle"
    /\ UNCHANGED <<runs, chats, gt, adding, mEvents, broken, toCancel,
                   gameVars, eventVars, timerVars, schedVars, historyVars>>

\* A chat command to a game that has started: "!lua ..." posts a task that
\* runs a script.
ChatCommand ==
    /\ Sound
    /\ ioPc = "idle"
    /\ mServer # 0
    /\ chats < MaxChats
    /\ TaskMutexFree
    /\ chats' = chats + 1
    /\ mTasks' = Pushed([kind |-> "chat"])
    /\ UNCHANGED <<runs, gt, adding, mEvents, broken, ioVars, gameVars,
                   eventVars, timerVars, schedVars, historyVars>>

\* Application::OnExit: the scheduler empties its queue, its thread is joined,
\* and it is destroyed.  The game's thread still runs.
Exit ==
    /\ Sound
    /\ ioPc = "idle"
    /\ schedulerUp
    /\ schedPc = "idle"
    /\ schedulerUp' = FALSE
    /\ queue' = {} /\ mTaskIds' = {}
    /\ dropped' = dropped \cup queue
    /\ ioPc' = "destroy"
    /\ UNCHANGED <<runs, mTasks, chats, gt, adding, mEvents, broken, toCancel,
                   gameVars, eventVars, schedVars, calls, cancelled, hit>>

\* The destructors of static objects: ~Instance calls Stop.
Destroy ==
    /\ Sound
    /\ ioPc = "destroy"
    /\ ioPc' = "cancel"
    /\ toCancel' = mEvents
    /\ UNCHANGED <<runs, mTasks, chats, gt, adding, mEvents, broken, gameVars,
                   eventVars, timerVars, schedVars, historyVars>>

----------------------------------------------------------------------------
(* The game's thread.                                                      *)

\* Mutant: the flag is not seen.
IsRunning_Stale == TRUE

IsRunning == mRunning

\* The top of the loop: is_running, then mTaskMutex, which only this thread
\* holds for longer than a push.
Loop ==
    /\ Sound
    /\ gt = "loop"
    /\ gt' = IF IsRunning THEN "tasks" ELSE "ended"
    /\ UNCHANGED <<runs, mTasks, chats, adding, mEvents, broken, ioVars,
                   gameVars, eventVars, timerVars, schedVars, historyVars>>

\* An event's task cancels the event's id, which may be another's by now,
\* and calls its script, whose Lua state may be closed.
CallEvent(e) ==
    /\ CancelId(id[e])
    /\ mEvents' = mEvents \ {id[e]}
    /\ hit' = hit \cup Withdrawn(id[e])
    /\ calls' = [calls EXCEPT ![e] = @ + 1]
    /\ broken' = IF ~schedulerUp THEN "scheduler"
                 ELSE IF run[e] # mServer THEN "lua" ELSE broken

\* The task at the front is run before it is popped.
RunTask ==
    /\ Sound
    /\ gt = "tasks"
    /\ mTasks # <<>>
    /\ gt' = "task"
    /\ LET task == Head(mTasks) IN
          \/ /\ task.kind = "init"
             /\ luaReady' = TRUE
             /\ UNCHANGED <<mTaskIds, mEvents, hit, calls, broken>>
          \/ /\ task.kind = "chat"
             /\ UNCHANGED <<luaReady, mTaskIds, mEvents, hit, calls, broken>>
          \/ /\ task.kind = "event"
             /\ CallEvent(task.event)
             /\ UNCHANGED luaReady
    /\ UNCHANGED <<runs, mTasks, chats, adding, ioVars, mServer, mRunning,
                   eventVars, queue, schedulerUp, schedVars, cancelled,
                   dropped>>

\* Mutant: the queue is cleared.
EndTask_Clear ==
    /\ Sound
    /\ gt = "task"
    /\ adding = NoEvent
    /\ mTasks' = <<>>
    /\ gt' = "tasks"
    /\ UNCHANGED <<runs, chats, adding, mEvents, broken, ioVars, gameVars,
                   eventVars, timerVars, schedVars, historyVars>>

EndTask ==
    /\ Sound
    /\ gt = "task"
    /\ adding = NoEvent
    /\ mTasks' = Tail(mTasks)
    /\ gt' = "tasks"
    /\ UNCHANGED <<runs, chats, adding, mEvents, broken, ioVars, gameVars,
                   eventVars, timerVars, schedVars, historyVars>>

\* The queue is empty: the lock is dropped, packets and the update follow.
Unlock ==
    /\ Sound
    /\ gt = "tasks"
    /\ mTasks = <<>>
    /\ gt' = "update"
    /\ UNCHANGED <<runs, mTasks, chats, adding, mEvents, broken, ioVars,
                   gameVars, eventVars, timerVars, schedVars, historyVars>>

EndUpdate ==
    /\ Sound
    /\ gt = "update"
    /\ adding = NoEvent
    /\ gt' = "loop"
    /\ UNCHANGED <<runs, mTasks, chats, adding, mEvents, broken, ioVars,
                   gameVars, eventVars, timerVars, schedVars, historyVars>>

\* A script is running: in a task, in a packet's handler, in the update.
InScript == gt \in {"task", "update"} /\ luaReady /\ adding = NoEvent

\* AddEvent with a delay: Instance::AddTask gets an id from the scheduler.
\* The ids of a thread are 1, 2, ..., and every run has a thread of its own.
AddEvent ==
    /\ Sound
    /\ InScript
    /\ added < MaxEvents
    /\ LET e == added + 1
           i == Cardinality({f \in Added : run[f] = runs}) + 1
       IN  IF schedulerUp
           THEN /\ added' = e
                /\ run' = [run EXCEPT ![e] = runs]
                /\ id' = [id EXCEPT ![e] = i]
                /\ queue' = queue \cup {e}
                /\ mTaskIds' = mTaskIds \cup {i}
                /\ adding' = e
                /\ UNCHANGED broken
           ELSE /\ broken' = "scheduler"
                /\ UNCHANGED <<adding, eventVars, queue, mTaskIds>>
    /\ UNCHANGED <<runs, mTasks, chats, gt, mEvents, ioVars, gameVars,
                   schedulerUp, schedVars, historyVars>>

\* ... and notes it in mEvents: while Stop walks through the set, in
\* whatever way that ends.
NoteEvent ==
    /\ Sound
    /\ adding # NoEvent
    /\ adding' = NoEvent
    /\ mEvents' = mEvents \cup {id[adding]}
    /\ IF ioPc = "cancel"
       THEN /\ toCancel' \in {toCancel, toCancel \cup {id[adding]}}
            /\ broken' \in {"no", "events"}
       ELSE UNCHANGED <<toCancel, broken>>
    /\ UNCHANGED <<runs, mTasks, chats, gt, ioPc, gameVars, eventVars,
                   timerVars, schedVars, historyVars>>

\* StopEvent with an id that AddEvent returned in this run.
StopEvent(e) ==
    /\ Sound
    /\ InScript
    /\ run[e] = runs
    /\ mEvents' = mEvents \ {id[e]}
    /\ IF schedulerUp
       THEN /\ CancelId(id[e])
            /\ cancelled' = cancelled \cup Withdrawn(id[e])
            /\ UNCHANGED broken
       ELSE broken' = "scheduler" /\ UNCHANGED <<mTaskIds, cancelled>>
    /\ UNCHANGED <<runs, mTasks, chats, gt, adding, ioVars, gameVars,
                   eventVars, queue, schedulerUp, schedVars, calls, hit,
                   dropped>>

----------------------------------------------------------------------------
(* The scheduler's thread.                                                 *)

\* Mutant: no id is ever found.
Live_Never(e) == FALSE

\* Mutant: the id is not looked for.
Live_Always(e) == TRUE

\* The popped task's id is still there.
Live(e) == id[e] \in mTaskIds

\* Deleting a task that was not run releases the script's references: in a
\* Lua state that another thread may be in, or that is closed.
Released(e) ==
    IF run[e] # mServer THEN {"lua"}
    ELSE IF gt \in {"task", "update"} THEN {"no", "lua"} ELSE {"no"}

Pop(e) ==
    /\ Sound
    /\ schedPc = "idle"
    /\ e \in queue
    /\ queue' = queue \ {e}
    /\ IF Live(e)
       THEN /\ CancelId(id[e])
            /\ schedPc' = "popped"
            /\ schedEvent' = e
            /\ UNCHANGED broken
       ELSE /\ broken' \in Released(e)
            /\ UNCHANGED <<mTaskIds, schedPc, schedEvent>>
    /\ UNCHANGED <<runs, mTasks, chats, gt, adding, mEvents, ioVars, gameVars,
                   eventVars, schedulerUp, schedServer, historyVars>>

\* The callback: AddServerTask reads mServer, which may be null,
ReadServer ==
    /\ Sound
    /\ schedPc = "popped"
    /\ schedServer' = mServer
    /\ IF mServer = 0 THEN broken' = "null" /\ UNCHANGED schedPc
                      ELSE schedPc' = "posting" /\ UNCHANGED broken
    /\ UNCHANGED <<runs, mTasks, chats, gt, adding, mEvents, schedEvent,
                   ioVars, gameVars, eventVars, timerVars, historyVars>>

Fired == [kind |-> "event", event |-> schedEvent]

\* and takes that server's lock, if it has not been freed since.
PostTask ==
    /\ Sound
    /\ schedPc = "posting"
    /\ IF schedServer # mServer
       THEN broken' = "freed" /\ UNCHANGED <<mTasks, schedVars>>
       ELSE /\ TaskMutexFree
            /\ mTasks' = Pushed(Fired)
            /\ schedPc' = "idle"
            /\ schedEvent' = NoEvent
            /\ schedServer' = 0
            /\ UNCHANGED broken
    /\ UNCHANGED <<runs, chats, gt, adding, mEvents, ioVars, gameVars,
                   eventVars, timerVars, historyVars>>

----------------------------------------------------------------------------

Io ==
    \/ BeginStart
    \/ \E i \in toCancel : StopCancel(i)
    \/ StopServer
    \/ Join
    \/ Reset
    \/ Construct
    \/ PostInit
    \/ ChatCommand
    \/ Exit
    \/ Destroy

\* What the game's thread does by itself, and what its scripts ask for.
GameThread == Loop \/ RunTask \/ EndTask \/ Unlock \/ EndUpdate \/ NoteEvent
Script == AddEvent \/ \E e \in Added : StopEvent(e)

SchedulerThread == (\E e \in queue : Pop(e)) \/ ReadServer \/ PostTask

Next == Io \/ GameThread \/ Script \/ SchedulerThread

Spec == Init /\ [][Next]_vars

\* Threads that can step do.  The lock is free in every turn of the game
\* thread's loop, for the length of an update and of its sleep: whoever
\* waits for it gets it in the end.
Finishing == \/ \E i \in toCancel : StopCancel(i)
             \/ StopServer \/ Join \/ Reset \/ Construct \/ Destroy
FairSpec == /\ Spec
            /\ WF_vars(GameThread)
            /\ WF_vars(Finishing)
            /\ SF_vars(PostInit)
            /\ WF_vars(ReadServer)
            /\ SF_vars(PostTask)

----------------------------------------------------------------------------
(* Properties.                                                             *)

\* An event that StopEvent or Stop has withdrawn before it was popped does not
\* call its script, whatever the scheduler was doing; unless a later run has
\* added an event under the same id, which brings the old one back.
WithdrawnIsSilent ==
    \A e \in cancelled :
        calls[e] > 0 => \E f \in Added : run[f] > run[e] /\ id[f] = id[e]

\* Every event is accounted for: it waits under a live id, it is being added,
\* fired or posted, it was called, or it was withdrawn, or its server is gone.
\* What is lost otherwise was lost to an event of another run with its id.
NothingLost ==
    \A e \in Added :
        \/ e \in queue /\ id[e] \in mTaskIds
        \/ e = schedEvent
        \/ e \in Posted
        \/ calls[e] > 0
        \/ e \in cancelled \cup dropped
        \/ \E f \in Added : run[f] # run[e] /\ id[f] = id[e]

\* A game that is started once, that cancels none of its events and that is
\* not running when the application exits never meets undefined behaviour:
\* what the threads share without a lock is only harmful elsewhere.
SafeUnlessStopped ==
    broken # "no" => runs > 1 \/ cancelled # {} \/ ~schedulerUp
                     \/ ioPc \in {"cancel", "join", "reset", "construct"}

\* Stop comes to an end: the game's thread leaves its loop and is joined.
StopReturns == ioPc = "join" ~> (ioPc # "join" \/ broken # "no")

\* A fired event reaches its game's thread and is called, however busy that
\* thread is, unless the game is stopped first.
FiredIsCalled ==
    \A e \in Events :
        schedEvent = e ~> (calls[e] > 0 \/ e \in dropped \/ ~mRunning
                           \/ broken # "no" \/ gt = "ended")

(* The scheduler that the game relies on: an event and its id are a task.  *)
Timer(S) == {[event |-> e, id |-> id[e]] : e \in S}

Locked == INSTANCE TaskQueue WITH
    Requests <- [event : Events, id : Events],
    open <- schedulerUp,
    known <- Timer(Added),
    queued <- Timer(queue),
    live <- mTaskIds,
    held <- Timer({schedEvent} \ {NoEvent})

\* What the game's threads do to the scheduler, and what they expect of it,
\* is what a queue with one lock does (as Scheduler.tla does).
ReliesOnTaskQueue == Locked!QSpec

\* No two events share an id: so it is while the game is started once.
NoClash == \A e, f \in Added : id[e] = id[f] => e = f

Called == {e \in Added : calls[e] > 0}

(* The promise to the scripts that the game keeps. *)
Scripts == INSTANCE ScriptEvents WITH
    up <- mRunning /\ schedulerUp,
    waiting <- Added \ (Called \cup cancelled \cup dropped),
    called <- Called,
    withdrawn <- cancelled,
    lost <- dropped \ cancelled

\* While ids do not clash an event that a script asked for is called once, or
\* withdrawn and not called, or lost with its stopped game.
KeepsItsPromise == Scripts!ESpec

============================================================================
