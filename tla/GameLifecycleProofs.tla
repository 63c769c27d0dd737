------------------------ MODULE GameLifecycleProofs ------------------------
(***************************************************************************)
(* The safety of GameLifecycle, for any number of starts, events and chat  *)
(* commands.                                                               *)
(*                                                                         *)
(* An event is in one place at a time: queued, fired, posted, called       *)
(* (Places).  The ids of one run's events differ (Ids), so what takes an   *)
(* id from a queued event, or gives it back to a withdrawn one, is an      *)
(* event of another run (QueueIsLive, Silent).  There is a server whenever *)
(* the game's thread is not "ended" (Threads).  With these the properties  *)
(* of GameLifecycle are inductive.                                         *)
(***************************************************************************)
EXTENDS GameLifecycle, FiniteSetTheorems, TLAPS

\* The events of a sequence of tasks; Posted is that of mTasks.
EventsOf(tasks) ==
    {tasks[n].event : n \in {m \in 1..Len(tasks) : tasks[m].kind = "event"}}

\* The game's thread, its tasks and its server.
Threads ==
    /\ gt = "task" => mTasks # <<>>
    /\ mServer \in {0, runs}
    /\ mServer = 0 => /\ gt = "ended"
                      /\ runs = 0 \/ ioPc \in {"construct", "exited"}
    /\ ioPc \in {"reset", "construct", "exited"} => gt = "ended"
    /\ ioPc \in {"destroy", "exited"} => ~schedulerUp
    /\ ioPc \in {"cancel", "join", "reset"} /\ schedulerUp => runs < MaxRuns
    /\ ioPc = "construct" => schedulerUp /\ runs < MaxRuns

\* A posted event is posted once, and not called before its task is run.
PostedOnce ==
    /\ \A m, n \in 1..Len(mTasks) :
          /\ mTasks[m].kind = "event" /\ mTasks[n].kind = "event"
          /\ mTasks[m].event = mTasks[n].event
          => m = n
    /\ \A n \in 1..Len(mTasks) : mTasks[n].kind = "event" =>
          calls[mTasks[n].event] = IF n = 1 /\ gt = "task" THEN 1 ELSE 0

\* An event is queued, or fired, or posted, or was called.
Places ==
    /\ schedPc = "idle" <=> schedEvent = NoEvent
    /\ schedPc = "posting" => schedServer # 0
    /\ schedEvent # NoEvent => schedEvent \notin Posted /\ calls[schedEvent] = 0
    /\ \A e \in queue : e # schedEvent /\ e \notin Posted /\ calls[e] = 0
    /\ Posted \subseteq Added
    /\ \A e \in Events : calls[e] \in {0, 1} /\ (e \notin Added => calls[e] = 0)

\* The ids of a run's events are the numbers up to how many it has.
Ids ==
    /\ \A e \in Added : run[e] \in 1..runs
    /\ \A e \in Added : id[e] \in 1..Cardinality({f \in Added : run[f] = run[e]})
    /\ \A e, f \in Added : run[e] = run[f] /\ id[e] = id[f] => e = f

\* A later run has added an event under the id of event e.
Overtaken(e) == \E f \in Added : run[f] > run[e] /\ id[f] = id[e]

\* Another run has.
Clashing(e) == \E f \in Added : run[f] # run[e] /\ id[f] = id[e]

\* A withdrawn event stays where it was until it is popped, dead.
Silent ==
    \A e \in cancelled :
        \/ Overtaken(e)
        \/ /\ e \in queue => id[e] \notin mTaskIds
           /\ e # schedEvent /\ e \notin Posted /\ calls[e] = 0

\* A queued event lives, or was withdrawn, or lost its id to another run's.
QueueIsLive ==
    \A e \in queue : id[e] \in mTaskIds \/ e \in cancelled \/ Clashing(e)

IInv == /\ TypeOK /\ Threads /\ PostedOnce /\ Places /\ Ids
        /\ Silent /\ QueueIsLive /\ NothingLost /\ SafeUnlessStopped

----------------------------------------------------------------------------
(* Sequences of tasks, and counts of events.                               *)

\* What the tasks at the back and at the front add to the posted events.
LEMMA EventsOfAppend ==
    ASSUME NEW s \in Seq(Task), NEW t \in Task
    PROVE  EventsOf(Append(s, t)) =
              EventsOf(s) \cup (IF t.kind = "event" THEN {t.event} ELSE {})
<1> DEFINE a == Append(s, t)
<1>1. /\ Len(s) \in Nat /\ Len(a) = Len(s) + 1 /\ a[Len(s) + 1] = t
      /\ \A n \in 1..Len(s) : a[n] = s[n]
  OBVIOUS
<1> HIDE DEF a
<1>2. ASSUME NEW e \in EventsOf(a)
      PROVE  e \in EventsOf(s) \/ (t.kind = "event" /\ e = t.event)
  <2>1. PICK n \in 1..Len(a) : a[n].kind = "event" /\ e = a[n].event
    BY DEF EventsOf
  <2>2. n \in 1..Len(s) \/ n = Len(s) + 1
    BY <1>1
  <2> QED BY <1>1, <2>1, <2>2 DEF EventsOf
<1>3. EventsOf(s) \subseteq EventsOf(a)
  BY <1>1 DEF EventsOf
<1>4. t.kind = "event" => t.event \in EventsOf(a)
  <2>1. Len(s) + 1 \in 1..Len(a)
    BY <1>1
  <2> QED BY <1>1, <2>1 DEF EventsOf
<1>5. EventsOf(a) = EventsOf(s) \cup (IF t.kind = "event" THEN {t.event} ELSE {})
  BY <1>2, <1>3, <1>4
<1> QED BY <1>5 DEF a

LEMMA EventsOfTail ==
    ASSUME NEW s \in Seq(Task), s # <<>>
    PROVE  /\ EventsOf(Tail(s)) \subseteq EventsOf(s)
           /\ \A e \in EventsOf(s) :
                 \/ e \in EventsOf(Tail(s))
                 \/ s[1].kind = "event" /\ e = s[1].event
<1> DEFINE t == Tail(s)
<1>1. /\ Len(s) \in Nat /\ Len(s) > 0 /\ Len(t) = Len(s) - 1
      /\ \A n \in 1..Len(t) : t[n] = s[n + 1]
  OBVIOUS
<1> HIDE DEF t
<1>2. EventsOf(t) \subseteq EventsOf(s)
  <2>1. ASSUME NEW n \in 1..Len(t) PROVE n + 1 \in 1..Len(s) /\ t[n] = s[n + 1]
    BY <1>1
  <2> QED BY <2>1 DEF EventsOf
<1>3. ASSUME NEW e \in EventsOf(s), ~(s[1].kind = "event" /\ e = s[1].event)
      PROVE  e \in EventsOf(t)
  <2>1. PICK n \in 1..Len(s) : s[n].kind = "event" /\ e = s[n].event
    BY DEF EventsOf
  <2>2. n # 1
    BY <1>3, <2>1
  <2>3. n - 1 \in 1..Len(t) /\ t[n - 1] = s[n]
    BY <1>1, <2>2
  <2> QED BY <2>1, <2>3 DEF EventsOf
<1> QED BY <1>2, <1>3 DEF t

\* The bounds are numbers.
LEMMA Bounds == MaxRuns \in Nat /\ MaxEvents \in Nat /\ MaxChats \in Nat
BY LifecycleAssumption

\* The events of a run can be counted, and one more is one more.
LEMMA EventsAreFinite ==
    ASSUME NEW n \in Nat, NEW S \in SUBSET (1..n)
    PROVE  IsFiniteSet(S) /\ Cardinality(S) \in Nat
           /\ \A e : e \notin S => Cardinality(S \cup {e}) = Cardinality(S) + 1
<1>1. IsFiniteSet(1..n)
  BY FS_Interval
<1>2. IsFiniteSet(S)
  BY <1>1, FS_Subset
<1> QED BY <1>2, FS_CardinalityType, FS_AddElement

----------------------------------------------------------------------------
(* Types.                                                                  *)

LEMMA InitTypeOK == Init => TypeOK
<1> SUFFICES ASSUME Init PROVE TypeOK
  OBVIOUS
<1>1. <<>> \in Seq(Task) /\ 0 \in Nat
  OBVIOUS
<1>2. mTasks \in Seq(Task)
  BY <1>1 DEF Init
<1>3. /\ runs \in 0..MaxRuns /\ chats \in 0..MaxChats /\ added \in 0..MaxEvents
      /\ mServer \in 0..runs /\ schedServer \in 0..runs
  BY Bounds DEF Init
<1>4. run \in [Events -> Nat] /\ id \in [Events -> Nat] /\ calls \in [Events -> Nat]
  BY <1>1 DEF Init
<1> QED BY <1>2, <1>3, <1>4 DEF Init, TypeOK

\* The tasks that are posted are tasks.
LEMMA TasksAreTasks ==
    /\ [kind |-> "init"] \in Task /\ [kind |-> "chat"] \in Task
    /\ \A e \in Events : [kind |-> "event", event |-> e] \in Task
BY DEF Task

\* An event's task names one that was added.
LEMMA TaskKinds ==
    ASSUME NEW t \in Task
    PROVE  t.kind \in {"init", "chat", "event"} /\ (t.kind = "event" => t.event \in Events)
BY DEF Task

\* Steps of the io thread keep the types.
LEMMA IoTypeOK == TypeOK /\ Threads /\ Places /\ Io => TypeOK'
<1> SUFFICES ASSUME TypeOK, Threads, Places, Io PROVE TypeOK'
  OBVIOUS
<1> USE DEF ioVars, gameVars, eventVars, timerVars, schedVars, historyVars
<1>0. CASE BeginStart
  BY <1>0 DEF BeginStart, TypeOK, Added
<1>1. CASE Destroy
  BY <1>1 DEF Destroy, TypeOK, Added
<1>2. ASSUME NEW i \in toCancel, StopCancel(i) PROVE TypeOK'
  BY <1>2 DEF StopCancel, CancelId, Withdrawn, TypeOK, Added
<1>3. CASE StopServer \/ Join
  BY <1>3 DEF StopServer, Join, TypeOK, Added
<1>4. CASE Reset
  <2>1. mTasks' \in Seq(Task)
    BY <1>4 DEF Reset
  <2>2. dropped' \subseteq Added'
    BY <1>4 DEF Reset, TypeOK, Places, Added
  <2>3. mServer' \in 0..runs'
    <3>1. mServer' = 0 /\ runs' = runs /\ runs \in Nat
      BY <1>4, Bounds DEF Reset, TypeOK
    <3> QED BY <3>1
  <2> QED BY <1>4, <2>1, <2>2, <2>3 DEF Reset, TypeOK, Added
<1>5. CASE Construct
  <2>1. /\ runs' \in 0..MaxRuns /\ mServer' \in 0..runs'
        /\ schedServer' \in 0..runs'
    BY <1>5, Bounds DEF Construct, TypeOK, Threads
  <2> QED BY <1>5, <2>1 DEF Construct, TypeOK, Added
<1>6. CASE PostInit
  <2>1. mTasks' \in Seq(Task)
    BY <1>6, TasksAreTasks DEF PostInit, Pushed, TypeOK
  <2> QED BY <1>6, <2>1 DEF PostInit, TypeOK, Added
<1>7. CASE ChatCommand
  <2>1. mTasks' \in Seq(Task)
    BY <1>7, TasksAreTasks DEF ChatCommand, Pushed, TypeOK
  <2> QED BY <1>7, <2>1, Bounds DEF ChatCommand, TypeOK, Added
<1>8. CASE Exit
  BY <1>8 DEF Exit, TypeOK, Added
<1> QED BY <1>0, <1>1, <1>2, <1>3, <1>4, <1>5, <1>6, <1>7, <1>8 DEF Io

\* Steps of the game's thread and its scripts keep the types.
LEMMA GameTypeOK == TypeOK /\ Threads /\ (GameThread \/ Script) => TypeOK'
<1> SUFFICES ASSUME TypeOK, Threads, GameThread \/ Script PROVE TypeOK'
  OBVIOUS
<1> USE DEF ioVars, gameVars, eventVars, timerVars, schedVars, historyVars
<1>0. CASE Loop
  BY <1>0 DEF Loop, TypeOK, Added
<1>1. CASE Unlock
  BY <1>1 DEF Unlock, TypeOK, Added
<1>7. CASE EndUpdate
  BY <1>7 DEF EndUpdate, TypeOK, Added
<1>2. CASE RunTask
  <2>1. Head(mTasks) \in Task
    BY <1>2 DEF RunTask, TypeOK
  <2>2. CASE Head(mTasks).kind = "event" /\ CallEvent(Head(mTasks).event) /\ UNCHANGED luaReady
    <3>1. Head(mTasks).event \in Events
      BY <2>1, <2>2, TaskKinds
    <3>2. hit' \subseteq Added
      BY <2>2 DEF CallEvent, Withdrawn, TypeOK
    <3>3. calls' \in [Events -> Nat]
      BY <2>2, <3>1 DEF CallEvent, TypeOK
    <3>4. mTaskIds' \subseteq Nat /\ mEvents' \subseteq Nat
      BY <2>2 DEF CallEvent, CancelId, TypeOK
    <3>5. broken' \in {"no", "null", "freed", "lua", "events", "scheduler"}
      BY <2>2 DEF CallEvent, TypeOK
    <3> QED BY <1>2, <2>2, <3>2, <3>3, <3>4, <3>5 DEF RunTask, TypeOK, Added
  <2>3. CASE UNCHANGED <<mTaskIds, mEvents, hit, calls, broken>> /\ luaReady' \in BOOLEAN
    BY <1>2, <2>3 DEF RunTask, TypeOK, Added
  <2> QED BY <1>2, <2>2, <2>3 DEF RunTask, TypeOK
<1>3. CASE EndTask
  <2>1. mTasks' \in Seq(Task)
    BY <1>3 DEF EndTask, TypeOK, Threads
  <2> QED BY <1>3, <2>1 DEF EndTask, TypeOK, Added
<1>4. CASE NoteEvent
  <2>1. adding \in Events
    BY <1>4, Bounds DEF NoteEvent, TypeOK, Added, Events
  <2>2. id[adding] \in Nat
    BY <2>1 DEF TypeOK
  <2>3. broken' \in {"no", "null", "freed", "lua", "events", "scheduler"}
    BY <1>4 DEF NoteEvent, TypeOK
  <2>4. toCancel' \subseteq Nat /\ mEvents' \subseteq Nat
    BY <1>4, <2>2 DEF NoteEvent, TypeOK
  <2> QED BY <1>4, <2>3, <2>4 DEF NoteEvent, TypeOK, Added
<1>5. CASE AddEvent
  <2> DEFINE S == {f \in Added : run[f] = runs}
  <2>1. added \in Nat /\ added < MaxEvents /\ runs \in Nat
    BY <1>5, Bounds DEF AddEvent, TypeOK
  <2>2. Cardinality(S) + 1 \in Nat
    <3>1. S \in SUBSET (1..added)
      BY DEF Added
    <3>2. Cardinality(S) \in Nat
      BY <2>1, <3>1, EventsAreFinite
    <3> QED BY <3>2
  <2>3. added + 1 \in Events /\ added + 1 \in 0..MaxEvents
    BY <2>1, Bounds DEF Events
  <2>4. run' \in [Events -> Nat] /\ id' \in [Events -> Nat] /\ mTaskIds' \subseteq Nat
    BY <1>5, <2>1, <2>2 DEF AddEvent, TypeOK
  <2>5. added' \in {added, added + 1} /\ (added' = added => adding' = adding /\ queue' = queue)
        /\ (added' = added + 1 => adding' = added' /\ queue' = queue \cup {added'})
    BY <1>5, <2>1 DEF AddEvent
  <2>6. Added \subseteq Added' /\ added' \in 0..MaxEvents
    BY <2>1, <2>3, <2>5 DEF Added, TypeOK
  <2>7. added' = added + 1 => added' \in Added'
    BY <2>1 DEF Added
  <2>8. queue' \subseteq Added' /\ adding' \in Added' \cup {NoEvent}
    BY <2>5, <2>6, <2>7 DEF TypeOK
  <2>9. cancelled' \subseteq Added' /\ hit' \subseteq Added' /\ dropped' \subseteq Added'
        /\ schedEvent' \in Added' \cup {NoEvent}
    BY <1>5, <2>6 DEF AddEvent, TypeOK
  <2>10. broken' \in {"no", "null", "freed", "lua", "events", "scheduler"}
    BY <1>5 DEF AddEvent, TypeOK
  <2> HIDE DEF S
  <2> QED BY <1>5, <2>4, <2>6, <2>8, <2>9, <2>10 DEF AddEvent, TypeOK
<1>6. ASSUME NEW e \in Added, StopEvent(e) PROVE TypeOK'
  <2>1. /\ mTaskIds' \subseteq Nat /\ mEvents' \subseteq Nat
        /\ cancelled' \subseteq Added
    BY <1>6 DEF StopEvent, CancelId, Withdrawn, TypeOK
  <2>2. broken' \in {"no", "null", "freed", "lua", "events", "scheduler"}
    BY <1>6 DEF StopEvent, TypeOK
  <2> QED BY <1>6, <2>1, <2>2 DEF StopEvent, TypeOK, Added
<1> QED BY <1>0, <1>1, <1>2, <1>3, <1>4, <1>5, <1>6, <1>7 DEF GameThread, Script

\* Every step keeps the types.
LEMMA NextTypeOK == IInv /\ [Next]_vars => TypeOK'
<1> SUFFICES ASSUME IInv, [Next]_vars PROVE TypeOK'
  OBVIOUS
<1> USE DEF IInv, ioVars, gameVars, eventVars, timerVars, schedVars, historyVars
<1>1. CASE Io
  BY <1>1, IoTypeOK
<1>2. CASE GameThread \/ Script
  BY <1>2, GameTypeOK
<1>3. ASSUME NEW e \in queue, Pop(e) PROVE TypeOK'
  <2>1. broken' \in {"no", "null", "freed", "lua", "events", "scheduler"}
    BY <1>3 DEF Pop, Released, TypeOK
  <2>2. mTaskIds' \subseteq Nat /\ queue' \subseteq Added
    BY <1>3 DEF Pop, CancelId, TypeOK
  <2>3. /\ schedPc' \in {"idle", "popped", "posting"}
        /\ schedEvent' \in Added \cup {NoEvent}
    BY <1>3 DEF Pop, TypeOK
  <2> QED BY <1>3, <2>1, <2>2, <2>3 DEF Pop, TypeOK, Added
<1>4. CASE ReadServer
  BY <1>4 DEF ReadServer, TypeOK, Added
<1>5. CASE PostTask
  <2>1. mTasks' \in Seq(Task)
    <3>1. schedEvent \in Events
      BY <1>5, Bounds DEF PostTask, Places, TypeOK, Added, Events
    <3>2. Fired \in Task
      BY <3>1, TasksAreTasks DEF Fired
    <3>3. mTasks' = mTasks \/ mTasks' = Append(mTasks, Fired)
      BY <1>5 DEF PostTask, Pushed
    <3>4. mTasks \in Seq(Task)
      BY DEF TypeOK
    <3>5. Append(mTasks, Fired) \in Seq(Task)
      BY <3>2, <3>4
    <3> QED BY <3>3, <3>4, <3>5
  <2>2. /\ schedPc' \in {"idle", "popped", "posting"}
        /\ schedEvent' \in Added \cup {NoEvent} /\ schedServer' \in 0..runs
        /\ broken' \in {"no", "null", "freed", "lua", "events", "scheduler"}
    BY <1>5, Bounds DEF PostTask, TypeOK
  <2> QED BY <1>5, <2>1, <2>2 DEF PostTask, TypeOK, Added
<1>6. CASE UNCHANGED vars
  BY <1>6 DEF vars, TypeOK, Added
<1> QED BY <1>1, <1>2, <1>3, <1>4, <1>5, <1>6 DEF Next, SchedulerThread

----------------------------------------------------------------------------
(* The threads.                                                            *)

LEMMA InitThreads == Init => Threads
BY DEF Init, Threads

\* The server is there for as long as its thread, and is joined before it goes.
LEMMA NextThreads == IInv /\ [Next]_vars => Threads'
<1> SUFFICES ASSUME TypeOK, Threads, [Next]_vars PROVE Threads'
  BY DEF IInv
<1> USE DEF Threads, ioVars, gameVars, timerVars
<1>1. CASE BeginStart
  BY <1>1 DEF BeginStart
<1>2. ASSUME NEW i \in toCancel, StopCancel(i) PROVE Threads'
  BY <1>2 DEF StopCancel
<1>3. CASE StopServer
  BY <1>3 DEF StopServer
<1>4. CASE Join
  BY <1>4 DEF Join
<1>5. CASE Reset
  BY <1>5 DEF Reset
<1>6. CASE Construct
  <2>1. runs \in Nat /\ runs' = runs + 1 /\ mServer' = runs' /\ gt' \in {"loop", "ended"}
        /\ ioPc' = "post"
    BY <1>6, Bounds DEF Construct, TypeOK
  <2> QED BY <2>1
<1>7. CASE PostInit
  <2>1. gt # "task" /\ gt' = gt
    BY <1>7 DEF PostInit, TaskMutexFree
  <2> QED BY <1>7, <2>1 DEF PostInit
<1>8. CASE ChatCommand
  <2>1. gt # "task" /\ gt' = gt
    BY <1>8 DEF ChatCommand, TaskMutexFree
  <2> QED BY <1>8, <2>1 DEF ChatCommand
<1>9. CASE Exit \/ Destroy
  BY <1>9 DEF Exit, Destroy
<1>10. CASE Loop \/ EndTask \/ Unlock \/ EndUpdate
  BY <1>10 DEF Loop, EndTask, Unlock, EndUpdate
<1>11. CASE RunTask
  <2>1. /\ mTasks # <<>> /\ gt = "tasks" /\ gt' = "task"
        /\ UNCHANGED <<mTasks, mServer, runs, ioPc, schedulerUp>>
    BY <1>11 DEF RunTask
  <2> QED BY <2>1
<1>12. CASE NoteEvent
  BY <1>12 DEF NoteEvent
<1>13. CASE AddEvent
  <2>1. UNCHANGED <<gt, mTasks, mServer, runs, ioPc, schedulerUp>>
    BY <1>13 DEF AddEvent
  <2> QED BY <2>1
<1>14. ASSUME NEW e \in Added, StopEvent(e) PROVE Threads'
  BY <1>14 DEF StopEvent
<1>15. ASSUME NEW e \in queue, Pop(e) PROVE Threads'
  BY <1>15 DEF Pop
<1>16. CASE ReadServer
  BY <1>16 DEF ReadServer
<1>17. CASE PostTask
  <2>1. \/ mTasks' = mTasks
        \/ gt # "task"
    BY <1>17 DEF PostTask, TaskMutexFree
  <2> QED BY <1>17, <2>1 DEF PostTask
<1>18. CASE UNCHANGED vars
  BY <1>18 DEF vars
<1> QED BY <1>1, <1>2, <1>3, <1>4, <1>5, <1>6, <1>7, <1>8, <1>9, <1>10, <1>11,
           <1>12, <1>13, <1>14, <1>15, <1>16, <1>17, <1>18
    DEF Next, Io, GameThread, Script, SchedulerThread

----------------------------------------------------------------------------
(* Events and their ids.                                                   *)

\* Only AddEvent adds events, and runs only go up.
LEMMA EventsStay ==
    ASSUME [Next]_vars, ~AddEvent
    PROVE  UNCHANGED <<added, run, id>>
<1> USE DEF ioVars, gameVars, eventVars, timerVars, schedVars, historyVars
<1>1. CASE Io
  BY <1>1 DEF Io, BeginStart, StopCancel, StopServer, Join, Reset, Construct,
      PostInit, ChatCommand, Exit, Destroy
<1>2. CASE GameThread
  BY <1>2 DEF GameThread, Loop, RunTask, EndTask, Unlock, EndUpdate, NoteEvent
<1>3. CASE Script
  BY <1>3 DEF Script, StopEvent
<1>4. CASE SchedulerThread
  BY <1>4 DEF SchedulerThread, Pop, ReadServer, PostTask
<1>5. CASE UNCHANGED vars
  BY <1>5 DEF vars
<1> QED BY <1>1, <1>2, <1>3, <1>4, <1>5 DEF Next

LEMMA RunsGoUp ==
    ASSUME [Next]_vars
    PROVE  runs' = runs \/ runs' = runs + 1
<1> USE DEF ioVars, gameVars, eventVars, timerVars, schedVars, historyVars
<1>1. CASE Io
  BY <1>1 DEF Io, BeginStart, StopCancel, StopServer, Join, Reset, Construct,
      PostInit, ChatCommand, Exit, Destroy
<1>2. CASE GameThread
  BY <1>2 DEF GameThread, Loop, RunTask, EndTask, Unlock, EndUpdate, NoteEvent
<1>3. CASE Script
  BY <1>3 DEF Script, AddEvent, StopEvent
<1>4. CASE SchedulerThread
  BY <1>4 DEF SchedulerThread, Pop, ReadServer, PostTask
<1>5. CASE UNCHANGED vars
  BY <1>5 DEF vars
<1> QED BY <1>1, <1>2, <1>3, <1>4, <1>5 DEF Next

\* An AddEvent that finds no scheduler adds nothing.
LEMMA NothingAdded ==
    ASSUME AddEvent, ~schedulerUp
    PROVE  UNCHANGED <<added, run, id, queue, mTaskIds>>
BY DEF AddEvent, eventVars

\* The event that AddEvent adds is the latest run's, under an id that no event
\* of this run has.
LEMMA EventAdded ==
    ASSUME IInv, AddEvent, schedulerUp
    PROVE  LET e == added + 1 IN
           /\ added' = e /\ e \in Events \ Added /\ Added' = Added \cup {e}
           /\ run'[e] = runs /\ runs >= 1 /\ runs' = runs
           /\ id'[e] = Cardinality({f \in Added : run[f] = runs}) + 1
           /\ \A f \in Added : run'[f] = run[f] /\ id'[f] = id[f]
           /\ \A f \in Added : run[f] = runs => id[f] < id'[e]
           /\ \A f \in Added : id[f] = id'[e] => run[f] < runs
           /\ queue' = queue \cup {e} /\ mTaskIds' = mTaskIds \cup {id'[e]}
<1> DEFINE e == added + 1
           S == {f \in Added : run[f] = runs}
<1>1. added \in Nat /\ added < MaxEvents /\ runs \in Nat
  BY Bounds DEF AddEvent, IInv, TypeOK
<1>2. e \in Events \ Added /\ Added \cup {e} = 1..e
  BY <1>1, Bounds DEF Events, Added
<1>3. /\ added' = e /\ run' = [run EXCEPT ![e] = runs]
      /\ id' = [id EXCEPT ![e] = Cardinality(S) + 1]
      /\ queue' = queue \cup {e} /\ mTaskIds' = mTaskIds \cup {Cardinality(S) + 1}
      /\ runs' = runs
  BY DEF AddEvent
<1>4. run \in [Events -> Nat] /\ id \in [Events -> Nat] /\ Added \subseteq Events
  BY <1>1, Bounds DEF IInv, TypeOK, Events, Added
<1>5. Cardinality(S) \in Nat
  <2>1. S \in SUBSET (1..added)
    BY DEF Added
  <2> QED BY <1>1, <2>1, EventsAreFinite
<1> HIDE DEF S
<1>6. /\ run'[e] = runs /\ id'[e] = Cardinality(S) + 1
      /\ \A f \in Added : run'[f] = run[f] /\ id'[f] = id[f]
  BY <1>2, <1>3, <1>4
<1>7. runs >= 1
  BY <1>1 DEF AddEvent, InScript, IInv, TypeOK, Threads
<1>8. ASSUME NEW f \in Added, run[f] = runs PROVE id[f] < Cardinality(S) + 1
  <2>1. id[f] \in 1..Cardinality(S)
    BY <1>8 DEF IInv, Ids, S
  <2> QED BY <1>5, <2>1
<1>9. ASSUME NEW f \in Added, id[f] = Cardinality(S) + 1 PROVE run[f] < runs
  <2>1. run[f] # runs
    BY <1>4, <1>5, <1>8, <1>9
  <2>2. run[f] \in 1..runs
    BY DEF IInv, Ids
  <2> QED BY <1>1, <2>1, <2>2
<1>10. Added' = Added \cup {e}
  BY <1>2, <1>3 DEF Added
<1> QED BY <1>2, <1>3, <1>6, <1>7, <1>8, <1>9, <1>10 DEF S

LEMMA InitIds == Init => Ids
BY DEF Init, Ids, Added

LEMMA NextIds == IInv /\ [Next]_vars => Ids'
<1> SUFFICES ASSUME IInv, [Next]_vars PROVE Ids'
  OBVIOUS
<1>1. CASE UNCHANGED <<added, run, id>>
  <2>1. Added' = Added /\ run' = run /\ id' = id
    BY <1>1 DEF Added
  <2>2. runs' \in {runs, runs + 1} /\ runs \in Nat
    BY RunsGoUp, Bounds DEF IInv, TypeOK
  <2>3. \A e \in Added : run[e] \in 1..runs'
    BY <2>2 DEF IInv, Ids
  <2> QED BY <2>1, <2>3 DEF IInv, Ids
<1>2. CASE AddEvent /\ schedulerUp
  <2> DEFINE n == added + 1
             Of(r) == {f \in Added : run[f] = r}
             OfP(r) == {f \in Added' : run'[f] = r}
  <2>1. /\ n \in Events \ Added /\ Added' = Added \cup {n}
        /\ run'[n] = runs /\ runs >= 1 /\ runs' = runs
        /\ id'[n] = Cardinality(Of(runs)) + 1
        /\ \A f \in Added : run'[f] = run[f] /\ id'[f] = id[f]
        /\ \A f \in Added : run[f] = runs => id[f] < id'[n]
    BY <1>2, EventAdded
  <2>2. \A r : r # runs => OfP(r) = Of(r)
    BY <2>1
  <2>3. OfP(runs) = Of(runs) \cup {n} /\ n \notin Of(runs)
    BY <2>1
  <2>4. Cardinality(Of(runs)) \in Nat /\ Cardinality(OfP(runs)) = Cardinality(Of(runs)) + 1
    <3>1. added \in Nat /\ Of(runs) \in SUBSET (1..added)
      BY Bounds DEF IInv, TypeOK, Added
    <3> QED BY <2>3, <3>1, EventsAreFinite
  <2>5. runs \in Nat
    BY Bounds DEF IInv, TypeOK
  <2>6. \A e \in Added' : run'[e] \in 1..runs'
    BY <2>1, <2>5 DEF IInv, Ids
  <2>7. ASSUME NEW e \in Added' PROVE id'[e] \in 1..Cardinality(OfP(run'[e]))
    <3>1. CASE e = n
      <4>1. id'[e] = Cardinality(Of(runs)) + 1 /\ run'[e] = runs
        BY <2>1, <3>1
      <4> HIDE DEF Of, OfP
      <4> QED BY <2>4, <4>1
    <3>2. CASE e # n /\ run[e] = runs
      <4>1. e \in Added /\ id'[e] = id[e] /\ run'[e] = runs
        BY <2>1, <3>2
      <4>2. id[e] \in 1..Cardinality(Of(runs))
        BY <3>2, <4>1 DEF IInv, Ids
      <4> HIDE DEF Of, OfP
      <4> QED BY <2>4, <4>1, <4>2
    <3>3. CASE e # n /\ run[e] # runs
      <4>1. e \in Added /\ id'[e] = id[e] /\ run'[e] = run[e]
        BY <2>1, <3>3
      <4>2. id[e] \in 1..Cardinality(Of(run[e]))
        BY <4>1 DEF IInv, Ids
      <4> QED BY <2>2, <3>3, <4>1, <4>2
    <3> QED BY <3>1, <3>2, <3>3
  <2>8. ASSUME NEW e \in Added', NEW f \in Added', run'[e] = run'[f], id'[e] = id'[f]
        PROVE  e = f
    <3>1. CASE e \in Added /\ f \in Added
      BY <2>1, <2>8, <3>1 DEF IInv, Ids
    <3>2. ASSUME NEW g \in Added, run[g] = runs PROVE id[g] # id'[n]
      <4>1. id[g] \in Nat /\ id[g] < id'[n]
        BY <2>1, <3>2, Bounds DEF IInv, TypeOK, Added, Events
      <4> QED BY <4>1
    <3> QED BY <2>1, <2>8, <3>1, <3>2
  <2> QED BY <2>6, <2>7, <2>8 DEF Ids
<1> QED BY <1>1, <1>2, EventsStay, NothingAdded

----------------------------------------------------------------------------
(* Where an event is.                                                      *)

LEMMA PostedIsOfTasks == Posted = EventsOf(mTasks) /\ Posted' = EventsOf(mTasks')
BY DEF Posted, EventsOf

\* What the steps do to the task queue and to the calls.
LEMMA TaskSteps ==
    ASSUME Threads, [Next]_vars
    PROVE  \/ RunTask \/ EndTask \/ Reset
           \/ PostTask /\ schedServer = mServer
           \/ /\ gt # "task" /\ gt' # "task" /\ calls' = calls
              /\ \/ mTasks' = Append(mTasks, [kind |-> "init"])
                 \/ mTasks' = Append(mTasks, [kind |-> "chat"])
              /\ UNCHANGED <<queue, schedVars, added>>
           \/ UNCHANGED <<mTasks, calls>> /\ (gt' = "task" <=> gt = "task")
<1> USE DEF ioVars, gameVars, eventVars, timerVars, schedVars, historyVars
<1>1. CASE PostInit
  BY <1>1 DEF PostInit, Pushed, TaskMutexFree
<1>2. CASE ChatCommand
  BY <1>2 DEF ChatCommand, Pushed, TaskMutexFree
<1>3. CASE BeginStart \/ (\E i \in toCancel : StopCancel(i)) \/ StopServer \/ Join
  BY <1>3 DEF BeginStart, StopCancel, StopServer, Join
<1>4. CASE Construct
  <2>1. gt' # "task" /\ gt # "task" /\ UNCHANGED <<mTasks, calls>>
    BY <1>4 DEF Construct, Threads
  <2> QED BY <2>1
<1>5. CASE Exit \/ Destroy \/ Loop \/ Unlock \/ EndUpdate
  BY <1>5 DEF Exit, Destroy, Loop, Unlock, EndUpdate
<1>6. CASE NoteEvent \/ AddEvent \/ (\E e \in Added : StopEvent(e))
  BY <1>6 DEF NoteEvent, AddEvent, StopEvent
<1>7. CASE (\E e \in queue : Pop(e)) \/ ReadServer
  BY <1>7 DEF Pop, ReadServer
<1>8. CASE PostTask /\ schedServer # mServer
  BY <1>8 DEF PostTask
<1>9. CASE UNCHANGED vars
  BY <1>9 DEF vars
<1> QED BY <1>1, <1>2, <1>3, <1>4, <1>5, <1>6, <1>7, <1>8, <1>9
    DEF Next, Io, GameThread, Script, SchedulerThread

\* A task that is posted is posted at the back.
LEMMA PostedStep ==
    ASSUME IInv, [Next]_vars
    PROVE  Posted' \subseteq
              Posted \cup (IF PostTask /\ schedServer = mServer THEN {schedEvent} ELSE {})
<1>1. mTasks \in Seq(Task)
  BY DEF IInv, TypeOK
<1>2. CASE RunTask
  BY <1>2, PostedIsOfTasks DEF RunTask
<1>3. CASE EndTask
  BY <1>1, <1>3, PostedIsOfTasks, EventsOfTail DEF EndTask, IInv, Threads
<1>4. CASE Reset
  BY <1>4 DEF Reset, Posted
<1>5. CASE PostTask /\ schedServer = mServer
  <2>1. Fired \in Task /\ Fired.kind = "event" /\ Fired.event = schedEvent
    BY <1>5, Bounds, TasksAreTasks DEF PostTask, IInv, Places, TypeOK, Added, Events, Fired
  <2>2. mTasks' = Append(mTasks, Fired)
    BY <1>5 DEF PostTask, Pushed
  <2> QED BY <1>1, <1>5, <2>1, <2>2, PostedIsOfTasks, EventsOfAppend
<1>6. CASE mTasks' = Append(mTasks, [kind |-> "init"])
  BY <1>1, <1>6, PostedIsOfTasks, EventsOfAppend, TasksAreTasks
<1>7. CASE mTasks' = Append(mTasks, [kind |-> "chat"])
  BY <1>1, <1>7, PostedIsOfTasks, EventsOfAppend, TasksAreTasks
<1>8. CASE mTasks' = mTasks
  BY <1>8, PostedIsOfTasks
<1> QED BY <1>2, <1>3, <1>4, <1>5, <1>6, <1>7, <1>8, TaskSteps DEF IInv

LEMMA InitPostedOnce == Init => PostedOnce
BY DEF Init, PostedOnce

\* The task that runs is the front one, which is called now and popped next.
LEMMA NextPostedOnce == IInv /\ [Next]_vars => PostedOnce'
<1> SUFFICES ASSUME IInv, [Next]_vars PROVE PostedOnce'
  OBVIOUS
<1>0. /\ mTasks \in Seq(Task) /\ Len(mTasks) \in Nat /\ calls \in [Events -> Nat]
      /\ PostedOnce
  BY DEF IInv, TypeOK
<1>1. \A n \in 1..Len(mTasks) : mTasks[n] \in Task
  BY <1>0
<1>2. CASE RunTask
  <2> DEFINE t == mTasks[1]
  <2>1. /\ gt = "tasks" /\ gt' = "task" /\ mTasks # <<>> /\ mTasks' = mTasks
        /\ \/ Head(mTasks).kind # "event" /\ calls' = calls
           \/ /\ Head(mTasks).kind = "event"
              /\ calls' = [calls EXCEPT ![Head(mTasks).event] = @ + 1]
    BY <1>2 DEF RunTask, CallEvent
  <2>2. Head(mTasks) = t /\ 1 \in 1..Len(mTasks)
    BY <1>0, <2>1
  <2>3. CASE t.kind # "event" /\ calls' = calls
    <3>1. \A n \in 1..Len(mTasks) : mTasks[n].kind = "event" =>
             n # 1 /\ calls[mTasks[n].event] = 0
      BY <1>0, <2>1, <2>3 DEF PostedOnce
    <3> QED BY <1>0, <2>1, <2>3, <3>1 DEF PostedOnce
  <2>4. CASE t.kind = "event" /\ calls' = [calls EXCEPT ![t.event] = @ + 1]
    <3>1. t.event \in Events
      BY <1>1, <2>2, <2>4, TaskKinds
    <3>2. calls[t.event] = 0
      BY <1>0, <2>1, <2>2, <2>4 DEF PostedOnce
    <3>3. calls'[t.event] = 1
      BY <1>0, <2>4, <3>1, <3>2
    <3>4. ASSUME NEW n \in 1..Len(mTasks), n # 1, mTasks[n].kind = "event"
          PROVE  calls'[mTasks[n].event] = 0
      <4>1. mTasks[n].event # t.event
        BY <1>0, <2>2, <2>4, <3>4 DEF PostedOnce
      <4>2. mTasks[n].event \in Events
        BY <1>1, <3>4, TaskKinds
      <4>3. calls[mTasks[n].event] = 0
        BY <1>0, <3>4 DEF PostedOnce
      <4> QED BY <1>0, <2>4, <4>1, <4>2, <4>3
    <3> QED BY <1>0, <2>1, <3>3, <3>4 DEF PostedOnce
  <2> QED BY <2>1, <2>2, <2>3, <2>4
<1>3. CASE EndTask
  <2>1. /\ gt' = "tasks" /\ mTasks' = Tail(mTasks) /\ mTasks # <<>> /\ calls' = calls
    BY <1>3 DEF EndTask, historyVars, IInv, Threads
  <2>2. /\ Len(mTasks') = Len(mTasks) - 1
        /\ \A n \in 1..Len(mTasks') : mTasks'[n] = mTasks[n + 1] /\ n + 1 \in 1..Len(mTasks)
    BY <1>0, <2>1
  <2>3. ASSUME NEW m \in 1..Len(mTasks'), NEW n \in 1..Len(mTasks'),
               mTasks'[m].kind = "event", mTasks'[n].kind = "event",
               mTasks'[m].event = mTasks'[n].event
        PROVE  m = n
    <3>1. m + 1 = n + 1
      BY <1>0, <2>2, <2>3 DEF PostedOnce
    <3> QED BY <2>2, <3>1
  <2>4. ASSUME NEW n \in 1..Len(mTasks'), mTasks'[n].kind = "event"
        PROVE  calls'[mTasks'[n].event] = 0
    <3>1. n + 1 # 1 /\ n + 1 \in 1..Len(mTasks) /\ mTasks[n + 1] = mTasks'[n]
      BY <2>2
    <3> QED BY <1>0, <2>1, <2>4, <3>1 DEF PostedOnce
  <2> QED BY <2>1, <2>3, <2>4 DEF PostedOnce
<1>4. CASE Reset
  BY <1>4 DEF Reset, PostedOnce
<1>5. ASSUME NEW t \in Task, mTasks' = Append(mTasks, t), gt # "task", gt' # "task", calls' = calls,
             t.kind = "event" => t.event \notin Posted /\ calls[t.event] = 0
      PROVE  PostedOnce'
  <2>1. /\ Len(mTasks') = Len(mTasks) + 1 /\ mTasks'[Len(mTasks) + 1] = t
        /\ \A n \in 1..Len(mTasks) : mTasks'[n] = mTasks[n]
    BY <1>0, <1>5
  <2>2. \A n \in 1..Len(mTasks') : n \in 1..Len(mTasks) \/ n = Len(mTasks) + 1
    BY <1>0, <2>1
  <2>3. \A n \in 1..Len(mTasks) : mTasks[n].kind = "event" /\ t.kind = "event"
           => mTasks[n].event # t.event
    BY <1>5 DEF Posted
  <2>4. ASSUME NEW m \in 1..Len(mTasks'), NEW n \in 1..Len(mTasks'),
               mTasks'[m].kind = "event", mTasks'[n].kind = "event",
               mTasks'[m].event = mTasks'[n].event
        PROVE  m = n
    BY <1>0, <2>1, <2>2, <2>3, <2>4 DEF PostedOnce
  <2>5. ASSUME NEW n \in 1..Len(mTasks'), mTasks'[n].kind = "event"
        PROVE  calls'[mTasks'[n].event] = 0
    BY <1>0, <1>5, <2>1, <2>2, <2>5 DEF PostedOnce
  <2> QED BY <1>5, <2>4, <2>5 DEF PostedOnce
<1>6. CASE PostTask /\ schedServer = mServer
  <2>1. Fired \in Task /\ Fired.kind = "event" /\ Fired.event = schedEvent
    BY <1>6, Bounds, TasksAreTasks DEF PostTask, IInv, Places, TypeOK, Added, Events, Fired
  <2>2. schedEvent \notin Posted /\ calls[schedEvent] = 0
    BY <1>6, <2>1 DEF PostTask, IInv, Places
  <2>3. /\ mTasks' = Append(mTasks, Fired) /\ gt' = gt /\ gt # "task" /\ calls' = calls
    BY <1>6 DEF PostTask, Pushed, TaskMutexFree, historyVars
  <2> QED BY <1>5, <2>1, <2>2, <2>3
<1>7. CASE UNCHANGED <<mTasks, calls>> /\ (gt' = "task" <=> gt = "task")
  BY <1>0, <1>7 DEF PostedOnce
<1>8. CASE /\ gt # "task" /\ gt' # "task" /\ calls' = calls
           /\ \/ mTasks' = Append(mTasks, [kind |-> "init"])
              \/ mTasks' = Append(mTasks, [kind |-> "chat"])
  BY <1>5, <1>8, TasksAreTasks
<1> QED BY <1>2, <1>3, <1>4, <1>6, <1>7, <1>8, TaskSteps DEF IInv

\* Only an event that is posted and was not called is called.
LEMMA CallsStep ==
    ASSUME IInv, [Next]_vars, calls' # calls
    PROVE  \E e \in Posted : calls[e] = 0 /\ calls' = [calls EXCEPT ![e] = 1]
<1>1. RunTask
  BY TaskSteps DEF IInv, EndTask, Reset, PostTask, historyVars
<1>2. /\ gt = "tasks" /\ mTasks # <<>> /\ Head(mTasks).kind = "event"
      /\ calls' = [calls EXCEPT ![Head(mTasks).event] = @ + 1]
  BY <1>1 DEF RunTask, CallEvent
<1>3. mTasks \in Seq(Task) /\ Head(mTasks) = mTasks[1] /\ 1 \in 1..Len(mTasks)
  BY <1>2 DEF IInv, TypeOK
<1>4. mTasks[1].event \in Posted
  BY <1>2, <1>3 DEF Posted
<1>5. calls[mTasks[1].event] = 0
  BY <1>2, <1>3 DEF IInv, PostedOnce
<1>6. calls' = [calls EXCEPT ![mTasks[1].event] = 1]
  <2>1. calls' = [calls EXCEPT ![mTasks[1].event] = calls[mTasks[1].event] + 1]
    BY <1>2, <1>3
  <2>2. calls[mTasks[1].event] + 1 = 1
    BY <1>5
  <2> QED BY <2>1, <2>2
<1> QED BY <1>4, <1>5, <1>6

\* Only AddEvent queues events.
LEMMA QueueStep ==
    ASSUME [Next]_vars, ~AddEvent
    PROVE  queue' \subseteq queue
<1> USE DEF ioVars, gameVars, eventVars, timerVars, schedVars, historyVars
<1>1. CASE Io
  BY <1>1 DEF Io, BeginStart, StopCancel, StopServer, Join, Reset, Construct,
      PostInit, ChatCommand, Exit, Destroy
<1>2. CASE GameThread
  BY <1>2 DEF GameThread, Loop, RunTask, EndTask, Unlock, EndUpdate, NoteEvent
<1>3. CASE Script
  BY <1>3 DEF Script, StopEvent
<1>4. CASE SchedulerThread
  BY <1>4 DEF SchedulerThread, Pop, ReadServer, PostTask
<1>5. CASE UNCHANGED vars
  BY <1>5 DEF vars
<1> QED BY <1>1, <1>2, <1>3, <1>4, <1>5 DEF Next

\* Only the scheduler's thread changes what it is doing.
LEMMA SchedStep ==
    ASSUME [Next]_vars, ~SchedulerThread
    PROVE  UNCHANGED schedVars
<1> USE DEF ioVars, gameVars, eventVars, timerVars, schedVars, historyVars
<1>1. CASE Io
  BY <1>1 DEF Io, BeginStart, StopCancel, StopServer, Join, Reset, Construct,
      PostInit, ChatCommand, Exit, Destroy
<1>2. CASE GameThread
  BY <1>2 DEF GameThread, Loop, RunTask, EndTask, Unlock, EndUpdate, NoteEvent
<1>3. CASE Script
  BY <1>3 DEF Script, AddEvent, StopEvent
<1>4. CASE UNCHANGED vars
  BY <1>4 DEF vars
<1> QED BY <1>1, <1>2, <1>3, <1>4 DEF Next

LEMMA InitPlaces == Init => Places
BY DEF Init, Places, Posted, Events, Added, NoEvent

\* An event goes from the queue to the scheduler's thread, from there to the
\* server's tasks, and from there to its script.
LEMMA NextPlaces == IInv /\ [Next]_vars => Places'
<1> SUFFICES ASSUME IInv, [Next]_vars PROVE Places'
  OBVIOUS
<1>0. /\ TypeOK /\ Places /\ Added \subseteq Events /\ NoEvent \notin Added
      /\ calls \in [Events -> Nat]
  <2>1. added \in 0..MaxEvents /\ TypeOK /\ Places /\ calls \in [Events -> Nat]
    BY DEF IInv, TypeOK
  <2> QED BY <2>1, Bounds DEF Added, Events, NoEvent
<1>1. Added \subseteq Added'
  BY EventsStay, EventAdded, NothingAdded DEF Added
<1>2. \A e \in Events \ Posted : calls'[e] = calls[e]
  BY <1>0, CallsStep
<1>3. \A e \in Events : calls'[e] \in {0, 1} /\ (e \notin Added => calls'[e] = 0)
  <2>1. Posted \subseteq Added
    BY <1>0 DEF Places
  <2> QED BY <1>0, <1>2, <2>1, CallsStep DEF Places
<1>4. CASE AddEvent
  <2>1. /\ UNCHANGED <<schedVars, mTasks, calls>>
    BY <1>4 DEF AddEvent, historyVars
  <2>2. Posted' = Posted
    BY <2>1 DEF Posted
  <2>3. \A e \in queue' : e \in queue \/ (e \in Events \ Added)
    BY <1>4, EventAdded, NothingAdded
  <2>4. \A e \in Events \ Added : e # schedEvent /\ e \notin Posted /\ calls[e] = 0
    BY <1>0 DEF Places, TypeOK, Events, NoEvent
  <2> QED BY <1>0, <1>1, <1>3, <2>1, <2>2, <2>3, <2>4 DEF Places, schedVars
<1>5. CASE ~AddEvent
  <2>1. queue' \subseteq queue /\ added' = added /\ Added' = Added
    BY <1>5, QueueStep, EventsStay DEF Added
  <2>2. CASE ~SchedulerThread
    <3>1. UNCHANGED schedVars /\ Posted' \subseteq Posted
      BY <2>2, SchedStep, PostedStep DEF SchedulerThread
    <3>2. schedEvent # NoEvent => calls'[schedEvent] = 0
      BY <1>0, <1>2 DEF Places, TypeOK
    <3>3. \A e \in queue' : calls'[e] = 0
      BY <1>0, <1>2, <2>1 DEF Places, TypeOK
    <3> QED BY <1>0, <1>3, <2>1, <3>1, <3>2, <3>3 DEF Places, schedVars
  <2>3. ASSUME NEW e \in queue, Pop(e) PROVE Places'
    <3>1. calls' = calls /\ Posted' = Posted /\ queue' = queue \ {e}
      BY <2>3 DEF Pop, historyVars, Posted
    <3>2. e # NoEvent /\ e \notin Posted /\ calls[e] = 0
      BY <1>0 DEF Places, TypeOK
    <3>3. \/ UNCHANGED schedVars
          \/ schedPc' = "popped" /\ schedEvent' = e
      BY <2>3 DEF Pop, schedVars
    <3> QED BY <1>0, <2>1, <3>1, <3>2, <3>3 DEF Places, schedVars
  <2>4. CASE ReadServer
    <3>1. /\ calls' = calls /\ Posted' = Posted /\ queue' = queue
          /\ schedEvent' = schedEvent /\ schedPc = "popped"
          /\ schedPc' = "popped" \/ (schedPc' = "posting" /\ schedServer' # 0)
      BY <2>4 DEF ReadServer, historyVars, timerVars, Posted
    <3> QED BY <1>0, <2>1, <3>1 DEF Places
  <2>5. CASE PostTask
    <3>1. calls' = calls /\ queue' = queue /\ schedPc = "posting"
      BY <2>5 DEF PostTask, historyVars, timerVars
    <3>2. CASE schedServer # mServer
      <4>1. UNCHANGED schedVars /\ Posted' = Posted
        BY <2>5, <3>2 DEF PostTask, Posted
      <4> QED BY <1>0, <2>1, <3>1, <4>1 DEF Places, schedVars
    <3>3. CASE schedServer = mServer
      <4>1. schedPc' = "idle" /\ schedEvent' = NoEvent
        BY <2>5, <3>3 DEF PostTask
      <4>2. Posted' \subseteq Posted \cup {schedEvent}
        BY PostedStep
      <4>3. schedEvent \in Added /\ schedEvent \notin queue
        BY <1>0, <3>1 DEF Places, TypeOK
      <4>4. \A e \in queue : e # NoEvent /\ e \notin Posted' /\ calls[e] = 0
        BY <1>0, <4>2, <4>3 DEF Places, TypeOK
      <4>5. Posted' \subseteq Added
        BY <1>0, <4>2, <4>3 DEF Places
      <4> QED BY <1>3, <2>1, <3>1, <4>1, <4>4, <4>5 DEF Places
    <3> QED BY <3>2, <3>3
  <2> QED BY <2>2, <2>3, <2>4, <2>5 DEF SchedulerThread
<1> QED BY <1>4, <1>5

----------------------------------------------------------------------------
(* What becomes of an event.                                               *)

\* What was withdrawn or dropped stays so.
LEMMA HistoryGrows ==
    ASSUME [Next]_vars
    PROVE  cancelled \subseteq cancelled' /\ dropped \subseteq dropped'
<1> USE DEF ioVars, gameVars, eventVars, timerVars, schedVars, historyVars
<1>1. CASE Io
  BY <1>1 DEF Io, BeginStart, StopCancel, StopServer, Join, Reset, Construct,
      PostInit, ChatCommand, Exit, Destroy, CancelId
<1>2. CASE GameThread
  BY <1>2 DEF GameThread, Loop, RunTask, EndTask, Unlock, EndUpdate, NoteEvent
<1>3. CASE Script
  BY <1>3 DEF Script, AddEvent, StopEvent
<1>4. CASE SchedulerThread
  BY <1>4 DEF SchedulerThread, Pop, ReadServer, PostTask
<1>5. CASE UNCHANGED vars
  BY <1>5 DEF vars
<1> QED BY <1>1, <1>2, <1>3, <1>4, <1>5 DEF Next

\* Only AddEvent brings ids.
LEMMA IdsGo ==
    ASSUME [Next]_vars, ~AddEvent
    PROVE  mTaskIds' \subseteq mTaskIds
<1> USE DEF ioVars, gameVars, eventVars, timerVars, schedVars, historyVars
<1>1. CASE Io
  BY <1>1 DEF Io, BeginStart, StopCancel, StopServer, Join, Reset, Construct,
      PostInit, ChatCommand, Exit, Destroy, CancelId
<1>2. CASE GameThread
  BY <1>2 DEF GameThread, Loop, RunTask, EndTask, Unlock, EndUpdate, NoteEvent, CallEvent, CancelId
<1>3. CASE Script
  BY <1>3 DEF Script, AddEvent, StopEvent, CancelId
<1>4. CASE SchedulerThread
  BY <1>4 DEF SchedulerThread, Pop, ReadServer, PostTask, CancelId
<1>5. CASE UNCHANGED vars
  BY <1>5 DEF vars
<1> QED BY <1>1, <1>2, <1>3, <1>4, <1>5 DEF Next

\* An event that another run's event has the id of goes on to have one.
LEMMA ClashesStay ==
    ASSUME IInv, [Next]_vars, NEW e \in Added
    PROVE  /\ e \in Added' /\ id'[e] = id[e] /\ run'[e] = run[e]
           /\ Overtaken(e) => Overtaken(e)'
           /\ Clashing(e) => Clashing(e)'
<1>1. /\ Added \subseteq Added'
      /\ \A f \in Added : id'[f] = id[f] /\ run'[f] = run[f]
  BY EventsStay, EventAdded, NothingAdded DEF Added
<1> QED BY <1>1 DEF Overtaken, Clashing

\* An event leaves the queue when it is popped or when the scheduler goes.
LEMMA QueueLeft ==
    ASSUME [Next]_vars, NEW e \in queue, e \notin queue'
    PROVE  Pop(e) \/ Exit
<1> USE DEF ioVars, gameVars, eventVars, timerVars, schedVars, historyVars
<1>1. CASE Io
  BY <1>1 DEF Io, BeginStart, StopCancel, StopServer, Join, Reset, Construct,
      PostInit, ChatCommand, Destroy
<1>2. CASE GameThread
  BY <1>2 DEF GameThread, Loop, RunTask, EndTask, Unlock, EndUpdate, NoteEvent
<1>3. CASE Script
  BY <1>3 DEF Script, AddEvent, StopEvent
<1>4. CASE SchedulerThread
  <2>1. CASE \E f \in queue : Pop(f)
    BY <2>1 DEF Pop
  <2> QED BY <1>4, <2>1 DEF SchedulerThread, ReadServer, PostTask
<1>5. CASE UNCHANGED vars
  BY <1>5 DEF vars
<1> QED BY <1>1, <1>2, <1>3, <1>4, <1>5 DEF Next

\* A queued event's id is taken by whoever withdraws the event, or for the sake
\* of an event of another run.
LEMMA IdLost ==
    ASSUME IInv, [Next]_vars, NEW e \in queue, e \in queue',
           id[e] \in mTaskIds, id[e] \notin mTaskIds'
    PROVE  e \in cancelled' \/ Clashing(e)
<1> USE DEF ioVars, gameVars, eventVars, timerVars, schedVars, historyVars
<1>0. queue \subseteq Added /\ Posted \subseteq Added
  BY DEF IInv, TypeOK, Places
<1>1. ASSUME NEW f \in Added, f # e, id[f] = id[e] PROVE Clashing(e)
  BY <1>0, <1>1 DEF IInv, Ids, Clashing
<1>2. ASSUME NEW i \in toCancel, StopCancel(i) PROVE e \in cancelled'
  BY <1>2 DEF StopCancel, CancelId, Withdrawn
<1>3. ASSUME NEW f \in Added, StopEvent(f) PROVE e \in cancelled'
  BY <1>3 DEF StopEvent, CancelId, Withdrawn
<1>4. CASE RunTask
  <2>1. /\ mTasks # <<>> /\ Head(mTasks).kind = "event"
        /\ mTaskIds' = mTaskIds \ {id[Head(mTasks).event]}
    BY <1>4 DEF RunTask, CallEvent, CancelId
  <2>2. mTasks \in Seq(Task) /\ Head(mTasks) = mTasks[1] /\ 1 \in 1..Len(mTasks)
    BY <2>1 DEF IInv, TypeOK
  <2>3. Head(mTasks).event \in Posted
    BY <2>1, <2>2 DEF Posted
  <2>4. Head(mTasks).event # e /\ Head(mTasks).event \in Added
    BY <1>0, <2>3 DEF IInv, Places
  <2>5. id[Head(mTasks).event] = id[e]
    BY <2>1
  <2> QED BY <1>1, <2>4, <2>5
<1>5. ASSUME NEW f \in queue, Pop(f) PROVE Clashing(e)
  BY <1>0, <1>1, <1>5 DEF Pop, CancelId
<1>6. CASE Io /\ ~(\E i \in toCancel : StopCancel(i))
  BY <1>6 DEF Io, BeginStart, StopServer, Join, Reset, Construct,
      PostInit, ChatCommand, Exit, Destroy
<1>7. CASE GameThread /\ ~RunTask
  BY <1>7 DEF GameThread, Loop, EndTask, Unlock, EndUpdate, NoteEvent
<1>8. CASE AddEvent
  BY <1>8, EventAdded, NothingAdded
<1>9. CASE ReadServer \/ PostTask
  BY <1>9 DEF ReadServer, PostTask
<1>10. CASE UNCHANGED vars
  BY <1>10 DEF vars
<1> QED BY <1>2, <1>3, <1>4, <1>5, <1>6, <1>7, <1>8, <1>9, <1>10
    DEF Next, Script, SchedulerThread

LEMMA InitSilent == Init => Silent /\ QueueIsLive /\ NothingLost
BY DEF Init, Silent, QueueIsLive, NothingLost, Added

\* An event that is withdrawn now loses its id in the queue.
LEMMA NowWithdrawn ==
    ASSUME IInv, [Next]_vars, NEW e \in cancelled', e \notin cancelled
    PROVE  /\ e \in queue /\ id[e] \notin mTaskIds'
           /\ UNCHANGED <<schedVars, mTasks, calls, queue, added, run, id>>
<1> USE DEF ioVars, gameVars, eventVars, timerVars, schedVars, historyVars
<1>1. ASSUME NEW i, CancelId(i), cancelled' = cancelled \cup Withdrawn(i)
      PROVE  e \in queue /\ id[e] \notin mTaskIds'
  BY <1>1 DEF CancelId, Withdrawn
<1>2. ASSUME NEW i \in toCancel, StopCancel(i)
      PROVE  /\ CancelId(i) /\ cancelled' = cancelled \cup Withdrawn(i)
             /\ UNCHANGED <<schedVars, mTasks, calls, queue, added, run, id>>
  BY <1>2 DEF StopCancel
<1>3. ASSUME NEW f \in Added, StopEvent(f)
      PROVE  /\ CancelId(id[f]) /\ cancelled' = cancelled \cup Withdrawn(id[f])
             /\ UNCHANGED <<schedVars, mTasks, calls, queue, added, run, id>>
  BY <1>3 DEF StopEvent
<1>4. CASE Io /\ ~(\E i \in toCancel : StopCancel(i))
  BY <1>4 DEF Io, BeginStart, StopServer, Join, Reset, Construct,
      PostInit, ChatCommand, Exit, Destroy
<1>5. CASE GameThread
  BY <1>5 DEF GameThread, Loop, RunTask, EndTask, Unlock, EndUpdate, NoteEvent
<1>6. CASE AddEvent
  BY <1>6 DEF AddEvent
<1>7. CASE SchedulerThread
  BY <1>7 DEF SchedulerThread, Pop, ReadServer, PostTask
<1>8. CASE UNCHANGED vars
  BY <1>8 DEF vars
<1> QED BY <1>1, <1>2, <1>3, <1>4, <1>5, <1>6, <1>7, <1>8 DEF Next, Script

\* Withdrawn events are not fired, posted or called, unless another run's event
\* has given them their id back.
LEMMA NextSilent == IInv /\ [Next]_vars => Silent'
<1> SUFFICES ASSUME IInv, [Next]_vars, NEW e \in cancelled'
             PROVE  \/ Overtaken(e)'
                    \/ /\ e \in queue' => id'[e] \notin mTaskIds'
                       /\ e # schedEvent' /\ e \notin Posted' /\ calls'[e] = 0
  BY DEF Silent
<1>0. /\ cancelled \subseteq Added /\ queue \subseteq Added /\ Added \subseteq Events
      /\ calls \in [Events -> Nat] /\ schedEvent \in Added \cup {NoEvent} /\ NoEvent \notin Added
  <2>1. /\ added \in 0..MaxEvents /\ cancelled \subseteq Added /\ queue \subseteq Added
        /\ calls \in [Events -> Nat] /\ schedEvent \in Added \cup {NoEvent}
    BY DEF IInv, TypeOK
  <2> QED BY <2>1, Bounds DEF Added, Events, NoEvent
<1>1. CASE e \notin cancelled
  <2>1. /\ e \in queue /\ id[e] \notin mTaskIds'
        /\ UNCHANGED <<schedVars, mTasks, calls, queue, added, run, id>>
    BY <1>1, NowWithdrawn
  <2>2. e # schedEvent /\ e \notin Posted /\ calls[e] = 0
    BY <2>1 DEF IInv, Places
  <2> QED BY <2>1, <2>2 DEF schedVars, Posted
<1>2. CASE e \in cancelled /\ Overtaken(e)
  BY <1>0, <1>2, ClashesStay
<1>3. CASE e \in cancelled /\ ~Overtaken(e)
  <2>1. /\ e \in queue => id[e] \notin mTaskIds
        /\ e # schedEvent /\ e \notin Posted /\ calls[e] = 0
    BY <1>3 DEF IInv, Silent
  <2>2. calls'[e] = 0
    BY <1>0, <1>3, <2>1, CallsStep
  <2>3. e \notin Posted'
    BY <2>1, PostedStep
  <2>4. e # schedEvent'
    <3>1. ASSUME NEW f \in queue, Pop(f) PROVE e # schedEvent'
      BY <2>1, <3>1 DEF Pop, Live
    <3>2. CASE ReadServer \/ PostTask
      BY <1>0, <1>3, <2>1, <3>2 DEF ReadServer, PostTask, schedVars
    <3>3. CASE ~SchedulerThread
      BY <2>1, <3>3, SchedStep DEF schedVars
    <3> QED BY <3>1, <3>2, <3>3 DEF SchedulerThread
  <2>5. CASE AddEvent /\ schedulerUp
    <3> DEFINE n == added + 1
    <3>1. /\ n \notin Added /\ Added' = Added \cup {n} /\ run'[n] = runs
          /\ \A f \in Added : run'[f] = run[f] /\ id'[f] = id[f]
          /\ \A f \in Added : id[f] = id'[n] => run[f] < runs
          /\ queue' = queue \cup {n} /\ mTaskIds' = mTaskIds \cup {id'[n]}
      BY <2>5, EventAdded
    <3>2. CASE id[e] = id'[n]
      <4>1. run'[n] > run'[e] /\ id'[n] = id'[e] /\ n \in Added'
        <5>1. run[e] < runs /\ run'[e] = run[e] /\ id'[e] = id[e]
          BY <1>0, <1>3, <3>1, <3>2
        <5>2. run[e] \in Nat /\ runs \in Nat
          BY <1>0, <1>3, Bounds DEF IInv, TypeOK
        <5> QED BY <3>1, <3>2, <5>1, <5>2
      <4> QED BY <4>1 DEF Overtaken
    <3>3. CASE id[e] # id'[n]
      BY <1>0, <1>3, <2>1, <2>2, <2>3, <2>4, <3>1, <3>3
    <3> QED BY <3>2, <3>3
  <2>6. CASE AddEvent /\ ~schedulerUp
    BY <2>1, <2>2, <2>3, <2>4, <2>6, NothingAdded
  <2>7. CASE ~AddEvent
    BY <2>1, <2>2, <2>3, <2>4, <2>7, QueueStep, IdsGo, EventsStay
  <2> QED BY <2>5, <2>6, <2>7
<1> QED BY <1>1, <1>2, <1>3

LEMMA NextQueueIsLive == IInv /\ [Next]_vars => QueueIsLive'
<1> SUFFICES ASSUME IInv, [Next]_vars, NEW e \in queue'
             PROVE  id'[e] \in mTaskIds' \/ e \in cancelled' \/ Clashing(e)'
  BY DEF QueueIsLive
<1>1. CASE e \in queue
  <2>1. e \in Added
    BY <1>1 DEF IInv, TypeOK
  <2>2. id[e] \in mTaskIds \/ e \in cancelled \/ Clashing(e)
    BY <1>1 DEF IInv, QueueIsLive
  <2> QED BY <1>1, <2>1, <2>2, ClashesStay, HistoryGrows, IdLost
<1>2. CASE e \notin queue
  <2>1. AddEvent /\ schedulerUp
    BY <1>2, QueueStep, NothingAdded
  <2> QED BY <1>2, <2>1, EventAdded
<1> QED BY <1>1, <1>2

LEMMA NextNothingLost == IInv /\ [Next]_vars => NothingLost'
<1> SUFFICES ASSUME IInv, [Next]_vars, NEW e \in Added'
             PROVE  \/ e \in queue' /\ id'[e] \in mTaskIds'
                    \/ e = schedEvent'
                    \/ e \in Posted'
                    \/ calls'[e] > 0
                    \/ e \in cancelled' \cup dropped'
                    \/ Clashing(e)'
  BY DEF NothingLost, Clashing
<1>1. CASE e \notin Added
  <2>1. AddEvent /\ schedulerUp
    BY <1>1, EventsStay, NothingAdded DEF Added
  <2> QED BY <1>1, <2>1, EventAdded
<1>2. CASE e \in Added
  <2>0. /\ calls \in [Events -> Nat] /\ Added \subseteq Events /\ NoEvent \notin Added
        /\ mTasks \in Seq(Task)
    <3>1. /\ added \in 0..MaxEvents /\ calls \in [Events -> Nat] /\ mTasks \in Seq(Task)
      BY DEF IInv, TypeOK
    <3> QED BY <3>1, Bounds DEF Added, Events, NoEvent
  <2>1. CASE e \in queue /\ id[e] \in mTaskIds
    <3>1. CASE e \in queue'
      <4>1. id'[e] \in mTaskIds' \/ e \in cancelled' \/ Clashing(e)'
        BY <3>1, NextQueueIsLive DEF QueueIsLive
      <4> QED BY <3>1, <4>1
    <3>2. CASE Pop(e)
      BY <2>1, <3>2 DEF Pop, Live
    <3>3. CASE Exit
      BY <2>1, <3>3 DEF Exit
    <3> QED BY <2>1, <3>1, <3>2, <3>3, QueueLeft
  <2>2. CASE e = schedEvent
    <3>1. ASSUME NEW f \in queue PROVE ~Pop(f)
      BY <1>2, <2>0, <2>2 DEF Pop, IInv, Places
    <3>2. CASE PostTask
      <4>1. CASE schedServer = mServer
        <5>1. mTasks' = Append(mTasks, Fired) /\ Fired \in Task
              /\ Fired.kind = "event" /\ Fired.event = e
          BY <1>2, <2>0, <2>2, <3>2, <4>1, TasksAreTasks DEF PostTask, Pushed, Fired
        <5> QED BY <2>0, <5>1, EventsOfAppend, PostedIsOfTasks
      <4>2. CASE schedServer # mServer
        BY <2>2, <3>2, <4>2 DEF PostTask, schedVars
      <4> QED BY <4>1, <4>2
    <3>3. CASE ReadServer
      BY <2>2, <3>3 DEF ReadServer
    <3>4. CASE ~SchedulerThread
      BY <2>2, <3>4, SchedStep DEF schedVars
    <3> QED BY <3>1, <3>2, <3>3, <3>4 DEF SchedulerThread
  <2>3. CASE calls[e] > 0
    <3>1. CASE calls' = calls
      BY <2>3, <3>1
    <3>2. CASE calls' # calls
      <4>1. PICK f \in Posted : calls[f] = 0 /\ calls' = [calls EXCEPT ![f] = 1]
        BY <3>2, CallsStep
      <4>2. f # e
        BY <2>3, <4>1
      <4> QED BY <1>2, <2>0, <2>3, <4>1, <4>2
    <3> QED BY <3>1, <3>2
  <2>4. CASE e \in Posted
    <3>1. CASE Reset
      BY <2>4, <3>1 DEF Reset
    <3>2. CASE EndTask
      <4>1. mTasks # <<>> /\ mTasks' = Tail(mTasks) /\ gt = "task" /\ calls' = calls
        BY <3>2 DEF EndTask, IInv, Threads, historyVars
      <4>2. CASE mTasks[1].kind = "event" /\ e = mTasks[1].event
        <5>1. 1 \in 1..Len(mTasks)
          BY <2>0, <4>1
        <5> QED BY <4>1, <4>2, <5>1 DEF IInv, PostedOnce
      <4> QED BY <2>0, <2>4, <4>1, <4>2, EventsOfTail, PostedIsOfTasks
    <3>3. CASE RunTask
      BY <2>4, <3>3, PostedIsOfTasks DEF RunTask
    <3>4. ASSUME NEW t \in Task, mTasks' = Append(mTasks, t) PROVE e \in Posted'
      BY <2>0, <2>4, <3>4, EventsOfAppend, PostedIsOfTasks
    <3>5. CASE PostTask /\ schedServer = mServer
      <4>1. mTasks' = Append(mTasks, Fired) /\ Fired \in Task
        <5>1. schedEvent \in Added
          BY <3>5 DEF PostTask, IInv, Places, TypeOK
        <5> QED BY <2>0, <3>5, <5>1, TasksAreTasks DEF PostTask, Pushed, Fired
      <4> QED BY <3>4, <4>1
    <3>6. CASE mTasks' = mTasks
      BY <2>4, <3>6, PostedIsOfTasks
    <3> QED BY <3>1, <3>2, <3>3, <3>4, <3>5, <3>6, TaskSteps, TasksAreTasks DEF IInv
  <2>5. CASE e \in cancelled \cup dropped
    BY <2>5, HistoryGrows
  <2>6. CASE Clashing(e)
    BY <1>2, <2>6, ClashesStay
  <2> QED BY <1>2, <2>1, <2>2, <2>3, <2>4, <2>5, <2>6 DEF IInv, NothingLost, Clashing
<1> QED BY <1>1, <1>2

----------------------------------------------------------------------------
(* Undefined behaviour.                                                    *)

LEMMA InitSafe == Init => SafeUnlessStopped
BY DEF Init, SafeUnlessStopped

\* Undefined behaviour is the last step.
LEMMA BrokenIsFinal == Next => broken = "no"
<1> USE DEF Sound
<1>1. Io => Sound
  BY DEF Io, BeginStart, StopCancel, StopServer, Join, Reset, Construct,
      PostInit, ChatCommand, Exit, Destroy
<1>2. GameThread => Sound
  BY DEF GameThread, Loop, RunTask, EndTask, Unlock, EndUpdate, NoteEvent
<1>3. Script \/ SchedulerThread => Sound
  BY DEF Script, AddEvent, StopEvent, SchedulerThread, Pop, ReadServer, PostTask
<1> QED BY <1>1, <1>2, <1>3 DEF Next

\* The steps that may meet it, and what they leave alone.
LEMMA BreakingSteps ==
    ASSUME Next, broken' # "no"
    PROVE  /\ UNCHANGED <<runs, schedulerUp, ioPc>>
           /\ \/ \E i \in toCancel : StopCancel(i)
              \/ RunTask \/ NoteEvent \/ AddEvent
              \/ \E e \in Added : StopEvent(e)
              \/ \E e \in queue : Pop(e)
              \/ ReadServer \/ PostTask
<1> USE DEF ioVars, gameVars, eventVars, timerVars, schedVars, historyVars
<1>0. broken = "no"
  BY BrokenIsFinal
<1>1. CASE Io
  BY <1>0, <1>1 DEF Io, BeginStart, StopCancel, StopServer, Join, Reset, Construct,
      PostInit, ChatCommand, Exit, Destroy
<1>2. CASE GameThread
  BY <1>0, <1>2 DEF GameThread, Loop, RunTask, EndTask, Unlock, EndUpdate, NoteEvent
<1>3. CASE Script
  BY <1>3 DEF Script, AddEvent, StopEvent
<1>4. CASE SchedulerThread
  BY <1>4 DEF SchedulerThread, Pop, ReadServer, PostTask
<1> QED BY <1>1, <1>2, <1>3, <1>4 DEF Next

\* A game that was started once, cancelled nothing and is not being stopped has
\* one server, which its events belong to, and its queued events live.
LEMMA OneGame ==
    ASSUME IInv, runs <= 1, cancelled = {}, schedulerUp,
           ioPc \notin {"cancel", "join", "reset", "construct"}
    PROVE  /\ mServer = runs
           /\ \A e \in Added : run[e] = mServer /\ mServer = 1
           /\ \A e \in queue : id[e] \in mTaskIds
<1>1. runs \in Nat /\ mServer = runs
  BY Bounds DEF IInv, TypeOK, Threads
<1>2. \A e \in Added : run[e] \in 1..runs
  BY DEF IInv, Ids
<1>3. \A e \in Added : run[e] = 1 /\ runs = 1
  BY <1>1, <1>2
<1>4. \A e \in queue : e \in Added /\ ~Clashing(e)
  BY <1>3 DEF IInv, TypeOK, Clashing
<1> QED BY <1>1, <1>3, <1>4 DEF IInv, QueueIsLive

LEMMA NextSafe == IInv /\ [Next]_vars => SafeUnlessStopped'
<1> SUFFICES ASSUME IInv, [Next]_vars, broken' # "no", ~(runs' > 1), cancelled' = {},
                    schedulerUp', ioPc' \notin {"cancel", "join", "reset", "construct"}
             PROVE  FALSE
  BY DEF SafeUnlessStopped
<1>1. CASE UNCHANGED vars
  BY <1>1 DEF vars, ioVars, timerVars, historyVars, IInv, SafeUnlessStopped
<1>2. CASE Next
  <2> USE DEF ioVars, gameVars, eventVars, timerVars, schedVars, historyVars
  <2>0. broken = "no"
    BY <1>2, BrokenIsFinal
  <2>1. UNCHANGED <<runs, schedulerUp, ioPc>>
    BY <1>2, BreakingSteps
  <2>2. /\ runs \in Nat /\ runs <= 1 /\ cancelled = {} /\ schedulerUp
        /\ ioPc \notin {"cancel", "join", "reset", "construct"}
    <3>1. runs \in Nat
      BY Bounds DEF IInv, TypeOK
    <3> QED BY <2>1, <3>1, HistoryGrows
  <2>3. /\ mServer = runs
        /\ \A e \in Added : run[e] = mServer /\ mServer = 1
        /\ \A e \in queue : id[e] \in mTaskIds
    BY <2>2, OneGame
  <2>4. ASSUME NEW i \in toCancel, StopCancel(i) PROVE FALSE
    BY <2>2, <2>4 DEF StopCancel
  <2>5. CASE RunTask
    <3>1. /\ mTasks # <<>> /\ Head(mTasks).kind = "event"
          /\ CallEvent(Head(mTasks).event)
      BY <2>0, <2>5 DEF RunTask
    <3>2. mTasks \in Seq(Task) /\ Head(mTasks) = mTasks[1] /\ 1 \in 1..Len(mTasks)
      BY <3>1 DEF IInv, TypeOK
    <3>3. Head(mTasks).event \in Added
      BY <3>1, <3>2 DEF IInv, Places, Posted
    <3> QED BY <2>0, <2>2, <2>3, <3>1, <3>3 DEF CallEvent
  <2>6. CASE NoteEvent
    BY <2>0, <2>2, <2>6 DEF NoteEvent
  <2>7. CASE AddEvent
    BY <2>0, <2>2, <2>7 DEF AddEvent
  <2>8. ASSUME NEW e \in Added, StopEvent(e) PROVE FALSE
    BY <2>0, <2>2, <2>8 DEF StopEvent
  <2>9. ASSUME NEW e \in queue, Pop(e) PROVE FALSE
    BY <2>0, <2>3, <2>9 DEF Pop, Live
  <2>10. CASE ReadServer
    <3>1. schedEvent \in Added
      BY <2>10 DEF ReadServer, IInv, Places, TypeOK
    <3> QED BY <2>0, <2>3, <2>10, <3>1 DEF ReadServer
  <2>11. CASE PostTask
    <3>1. schedEvent \in Added /\ schedServer # 0 /\ schedServer \in 0..runs
      BY <2>11 DEF PostTask, IInv, Places, TypeOK
    <3>2. schedServer = mServer
      BY <2>2, <2>3, <3>1
    <3> QED BY <2>0, <2>11, <3>2 DEF PostTask
  <2> QED BY <1>2, <2>4, <2>5, <2>6, <2>7, <2>8, <2>9, <2>10, <2>11, BreakingSteps
<1> QED BY <1>1, <1>2

----------------------------------------------------------------------------
(* The theorems.                                                           *)

\* The inductive invariant.
LEMMA Invariant == Spec => []IInv
<1>1. Init => IInv
  BY InitTypeOK, InitThreads, InitPostedOnce, InitPlaces, InitIds, InitSilent,
     InitSafe DEF IInv
<1>2. IInv /\ [Next]_vars => IInv'
  BY NextTypeOK, NextThreads, NextPostedOnce, NextPlaces, NextIds, NextSilent,
     NextQueueIsLive, NextNothingLost, NextSafe DEF IInv
<1> QED BY <1>1, <1>2, PTL DEF Spec

\* What the three threads share keeps its types: only events that were added
\* are queued, posted, withdrawn or dropped.
THEOREM TypeCorrect == Spec => []TypeOK
BY Invariant, PTL DEF IInv

\* However often a game is stopped and started while the scheduler fires, an
\* event that was withdrawn is not called, unless a later run's event took its id.
THEOREM WithdrawnAreSilent == Spec => []WithdrawnIsSilent
<1>1. IInv => WithdrawnIsSilent
  <2> SUFFICES ASSUME IInv, NEW e \in cancelled, calls[e] > 0
               PROVE  Overtaken(e)
    BY DEF WithdrawnIsSilent, Overtaken
  <2>1. calls[e] # 0
    OBVIOUS
  <2> QED BY <2>1 DEF IInv, Silent
<1> QED BY <1>1, Invariant, PTL

\* An event is not lost between the scheduler's queue, its thread and the
\* server's tasks, other than to an event of another run with its id.
THEOREM EventsAreKept == Spec => []NothingLost
BY Invariant, PTL DEF IInv

\* AddEvent's script is called at most once, whatever becomes of its id.
THEOREM CalledAtMostOnce == Spec => [](\A e \in Events : calls[e] <= 1)
<1>1. IInv => \A e \in Events : calls[e] <= 1
  BY DEF IInv, Places
<1> QED BY <1>1, Invariant, PTL

\* A game that is started once, cancels no event and is not stopped meets no
\* undefined behaviour, however its three threads interleave.
THEOREM SafeGames == Spec => []SafeUnlessStopped
BY Invariant, PTL DEF IInv

----------------------------------------------------------------------------
(* The timer is a queue with one lock.                                     *)

\* What that queue sees of a state.
Held == Timer({schedEvent} \ {NoEvent})
TimerState == <<schedulerUp, Timer(Added), Timer(queue), mTaskIds, Held>>

\* A step that leaves the queue, its ids and the worker alone does not show.
LEMMA OutsideTheTimer ==
    ASSUME UNCHANGED <<added, id, queue, mTaskIds, schedulerUp, schedEvent>>
    PROVE  UNCHANGED TimerState
BY DEF TimerState, Timer, Held, Added

\* Two events never are the same task.
LEMMA TasksDiffer ==
    ASSUME NEW S, NEW e
    PROVE  /\ [event |-> e, id |-> id[e]] \in Timer(S) <=> e \in S
           /\ Timer(S \ {e}) = Timer(S) \ {[event |-> e, id |-> id[e]]}
<1>1. \A f, g : [event |-> f, id |-> id[f]] = [event |-> g, id |-> id[g]] => f = g
  <2> SUFFICES ASSUME NEW f, NEW g,
                      [event |-> f, id |-> id[f]] = [event |-> g, id |-> id[g]]
               PROVE  f = g
    OBVIOUS
  <2>1. /\ [event |-> f, id |-> id[f]].event = f
        /\ [event |-> g, id |-> id[g]].event = g
    OBVIOUS
  <2> QED BY <2>1
<1> QED BY <1>1 DEF Timer

\* A run has no more events than the game.
LEMMA CountIsSmall ==
    ASSUME TypeOK, NEW S \in SUBSET Added
    PROVE  Cardinality(S) \in Nat /\ Cardinality(S) <= added
<1>1. added \in Nat
  BY Bounds DEF TypeOK
<1>2. IsFiniteSet(1..added) /\ Cardinality(1..added) = added
  BY <1>1, FS_Interval
<1> QED BY <1>2, FS_Subset, FS_CardinalityType DEF Added

\* AddEvent is the queue's Add of a new task.
LEMMA AddRefines ==
    ASSUME IInv, AddEvent, schedulerUp
    PROVE  Locked!QNext
<1> DEFINE e == added + 1
           t == [event |-> e, id |-> id'[e]]
<1>1. /\ e \in Events \ Added /\ Added' = Added \cup {e}
      /\ \A f \in Added : id'[f] = id[f]
      /\ queue' = queue \cup {e} /\ mTaskIds' = mTaskIds \cup {id'[e]}
  BY EventAdded
<1>2. UNCHANGED <<schedulerUp, schedEvent>>
  BY DEF AddEvent, schedVars
<1>3. queue \subseteq Added /\ schedEvent \in Added \cup {NoEvent}
  BY DEF IInv, TypeOK
<1>4. ASSUME NEW S, NEW f, S \subseteq Added
      PROVE  {[event |-> g, id |-> id'[g]] : g \in S} = Timer(S)
  BY <1>1, <1>4 DEF Timer
<1>5. Timer(Added)' = Timer(Added) \cup {t}
  BY <1>1, <1>4 DEF Timer
<1>6. Timer(queue)' = Timer(queue) \cup {t}
  BY <1>1, <1>3, <1>4 DEF Timer
<1>7. Held' = Held
  BY <1>2, <1>3, <1>4 DEF Held, Timer
<1>8. id'[e] \in Events
  <2> DEFINE S == {f \in Added : run[f] = runs}
  <2>1. id'[e] = Cardinality(S) + 1
    BY EventAdded
  <2>2. Cardinality(S) \in Nat /\ Cardinality(S) <= added
    BY CountIsSmall DEF IInv
  <2> HIDE DEF S
  <2>3. added \in Nat /\ added + 1 <= MaxEvents
    BY Bounds DEF AddEvent, IInv, TypeOK
  <2> QED BY <2>1, <2>2, <2>3, Bounds DEF Events
<1>9. t \in [event : Events, id : Events]
  BY <1>1, <1>8
<1>10. t \notin Timer(Added)
  BY <1>1 DEF Timer
<1>11. Locked!Add(t)
  BY <1>1, <1>2, <1>5, <1>6, <1>7, <1>10 DEF Locked!Add, Held
<1> QED BY <1>9, <1>11 DEF Locked!QNext

\* Forgetting an id is the queue's Cancel, or nothing when the id is not live.
LEMMA CancelRefines ==
    ASSUME NEW i, CancelId(i),
           UNCHANGED <<added, id, queue, schedulerUp, schedEvent>>
    PROVE  Locked!QNext \/ UNCHANGED TimerState
<1>1. UNCHANGED <<schedulerUp, Timer(Added), Timer(queue), Held>>
  BY DEF Timer, Held, Added
<1>2. CASE i \in mTaskIds
  <2>1. Locked!Cancel(i)
    BY <1>1 DEF CancelId, Locked!Cancel, Held
  <2> QED BY <1>2, <2>1 DEF Locked!QNext
<1>3. CASE i \notin mTaskIds
  BY <1>1, <1>3 DEF CancelId, TimerState
<1> QED BY <1>2, <1>3

\* A popped event is taken or thrown away.
LEMMA PopRefines ==
    ASSUME IInv, NEW e \in queue, Pop(e)
    PROVE  Locked!QNext
<1> DEFINE t == [event |-> e, id |-> id[e]]
<1>1. /\ schedEvent = NoEvent /\ queue' = queue \ {e} /\ e # NoEvent
      /\ UNCHANGED <<added, id, schedulerUp>>
  BY DEF Pop, IInv, Places, TypeOK, Added, NoEvent, eventVars
<1>2. /\ Timer(Added)' = Timer(Added)
      /\ Timer(queue)' = Timer(queue \ {e})
  BY <1>1 DEF Timer, Added
<1>3. t \in Timer(queue) /\ Timer(queue \ {e}) = Timer(queue) \ {t}
  BY TasksDiffer
<1>4. Held = {}
  BY <1>1 DEF Held, Timer
<1>5. CASE Live(e)
  <2>1. schedEvent' = e /\ mTaskIds' = mTaskIds \ {id[e]}
    BY <1>5 DEF Pop, CancelId
  <2>2. Held' = {t}
    BY <1>1, <2>1 DEF Held, Timer
  <2>3. Locked!Take(t)
    BY <1>1, <1>2, <1>3, <1>4, <1>5, <2>1, <2>2 DEF Locked!Take, Held, Live
  <2> QED BY <1>3, <2>3 DEF Locked!QNext
<1>6. CASE ~Live(e)
  <2>1. UNCHANGED <<schedEvent, mTaskIds>>
    BY <1>6 DEF Pop
  <2>2. Held' = {}
    BY <1>1, <2>1 DEF Held, Timer
  <2>3. Locked!ThrowAway(t)
    BY <1>1, <1>2, <1>3, <1>4, <1>6, <2>1, <2>2 DEF Locked!ThrowAway, Held, Live
  <2> QED BY <1>3, <2>3 DEF Locked!QNext
<1> QED BY <1>5, <1>6

\* The scheduler is shut and emptied when the application exits.
LEMMA ExitRefines == Exit => Locked!QNext
<1> SUFFICES ASSUME Exit PROVE Locked!QNext
  OBVIOUS
<1>1. /\ schedulerUp' = FALSE /\ queue' = {} /\ mTaskIds' = {}
      /\ UNCHANGED <<added, id, schedEvent>>
  BY DEF Exit, eventVars, schedVars
<1>2. UNCHANGED <<Timer(Added), Held>> /\ Timer(queue)' = {}
  BY <1>1 DEF Timer, Held, Added
<1>3. Locked!Shut
  BY <1>1, <1>2 DEF Locked!Shut, Held
<1> QED BY <1>3 DEF Locked!QNext

\* The callback ends when the task is posted.
LEMMA PostRefines == PostTask => Locked!QNext \/ UNCHANGED TimerState
<1> SUFFICES ASSUME PostTask PROVE Locked!QNext \/ UNCHANGED TimerState
  OBVIOUS
<1>1. UNCHANGED <<added, id, queue, mTaskIds, schedulerUp>>
  BY DEF PostTask, eventVars, timerVars
<1>2. CASE schedServer # mServer
  BY <1>1, <1>2, OutsideTheTimer DEF PostTask, schedVars
<1>3. CASE schedServer = mServer
  <2>1. schedEvent' = NoEvent
    BY <1>3 DEF PostTask
  <2>2. Held' = {} /\ UNCHANGED <<Timer(Added), Timer(queue)>>
    BY <1>1, <2>1 DEF Held, Timer, Added
  <2>3. Locked!Return
    BY <1>1, <2>2 DEF Locked!Return, Held
  <2> QED BY <2>3 DEF Locked!QNext
<1> QED BY <1>2, <1>3

\* All that a game does to the scheduler (AddTask, CancelTask, the callbacks it
\* waits for, its end) a queue with one lock does: what GameLifecycle assumes
\* of its timer is what SchedulerImplementsTaskQueue proves of Scheduler.cpp.
THEOREM TimerIsTaskQueue == Spec => ReliesOnTaskQueue
<1>1. Init => Locked!QInit
  BY DEF Init, Locked!QInit, Timer, Added, NoEvent
<1>2. IInv /\ [Next]_vars => [Locked!QNext]_(Locked!qvars)
  <2> SUFFICES ASSUME IInv, [Next]_vars
               PROVE  Locked!QNext \/ UNCHANGED TimerState
    BY DEF Locked!qvars, TimerState, Held
  <2> USE DEF ioVars, gameVars, eventVars, timerVars, schedVars, historyVars
  <2>1. CASE AddEvent /\ schedulerUp
    BY <2>1, AddRefines
  <2>2. CASE AddEvent /\ ~schedulerUp
    <3>1. UNCHANGED <<added, id, queue, mTaskIds>>
      BY <2>2, NothingAdded
    <3> QED BY <2>2, <3>1, OutsideTheTimer DEF AddEvent
  <2>3. ASSUME NEW i \in toCancel, StopCancel(i)
        PROVE  Locked!QNext \/ UNCHANGED TimerState
    <3>1. UNCHANGED <<added, id, queue, schedulerUp, schedEvent>>
          /\ (CancelId(i) \/ mTaskIds' = mTaskIds)
      BY <2>3 DEF StopCancel
    <3> QED BY <3>1, CancelRefines, OutsideTheTimer
  <2>4. ASSUME NEW e \in Added, StopEvent(e)
        PROVE  Locked!QNext \/ UNCHANGED TimerState
    <3>1. UNCHANGED <<added, id, queue, schedulerUp, schedEvent>>
          /\ (CancelId(id[e]) \/ mTaskIds' = mTaskIds)
      BY <2>4 DEF StopEvent
    <3> QED BY <3>1, CancelRefines, OutsideTheTimer
  <2>5. CASE RunTask
    <3>1. UNCHANGED <<added, id, queue, schedulerUp, schedEvent>>
          /\ (CancelId(id[Head(mTasks).event]) \/ mTaskIds' = mTaskIds)
      BY <2>5 DEF RunTask, CallEvent
    <3> QED BY <3>1, CancelRefines, OutsideTheTimer
  <2>6. ASSUME NEW e \in queue, Pop(e) PROVE Locked!QNext
    BY <2>6, PopRefines
  <2>7. CASE PostTask
    BY <2>7, PostRefines
  <2>8. CASE Exit
    BY <2>8, ExitRefines
  <2>9. CASE \/ BeginStart \/ StopServer \/ Join \/ Reset \/ Construct
             \/ PostInit \/ ChatCommand \/ Destroy
    BY <2>9, OutsideTheTimer DEF BeginStart, StopServer, Join, Reset,
       Construct, PostInit, ChatCommand, Destroy
  <2>10. CASE Loop \/ EndTask \/ Unlock \/ EndUpdate \/ NoteEvent \/ ReadServer
    BY <2>10, OutsideTheTimer DEF Loop, EndTask, Unlock, EndUpdate, NoteEvent,
       ReadServer
  <2>11. CASE UNCHANGED vars
    BY <2>11, OutsideTheTimer DEF vars
  <2> QED BY <2>1, <2>2, <2>3, <2>4, <2>5, <2>6, <2>7, <2>8, <2>9, <2>10, <2>11
      DEF Next, Io, GameThread, Script, SchedulerThread
<1> QED BY <1>1, <1>2, Invariant, PTL DEF Spec, ReliesOnTaskQueue, Locked!QSpec

----------------------------------------------------------------------------
(* The promise to the scripts.                                             *)

\* A server that is stopped is told so, and a new one is told to run.
Stopped == ioPc \in {"join", "reset", "construct", "exited"} => ~mRunning

\* An event that went with a server or with the scheduler is nowhere else.
DroppedAreGone ==
    \A e \in dropped : /\ e \notin queue /\ e # schedEvent
                       /\ e \notin Posted /\ calls[e] = 0

LEMMA NextStopped == Stopped /\ [Next]_vars => Stopped'
<1> SUFFICES ASSUME Stopped, [Next]_vars PROVE Stopped'
  OBVIOUS
<1> USE DEF Stopped, ioVars, gameVars
<1>1. CASE Io
  BY <1>1 DEF Io, BeginStart, StopCancel, StopServer, Join, Reset, Construct,
      PostInit, ChatCommand, Exit, Destroy
<1>2. CASE GameThread
  BY <1>2 DEF GameThread, Loop, RunTask, EndTask, Unlock, EndUpdate, NoteEvent
<1>3. CASE Script
  BY <1>3 DEF Script, AddEvent, StopEvent
<1>4. CASE SchedulerThread
  BY <1>4 DEF SchedulerThread, Pop, ReadServer, PostTask
<1>5. CASE UNCHANGED vars
  BY <1>5 DEF vars
<1> QED BY <1>1, <1>2, <1>3, <1>4, <1>5 DEF Next

\* Events are dropped with the server's tasks, or with the scheduler's queue.
LEMMA DroppedStep ==
    ASSUME [Next]_vars
    PROVE  \/ dropped' = dropped
           \/ Reset /\ dropped' = dropped \cup Posted
           \/ Exit /\ dropped' = dropped \cup queue
<1> USE DEF historyVars
<1>1. CASE Io
  BY <1>1 DEF Io, BeginStart, StopCancel, StopServer, Join, Reset, Construct,
      PostInit, ChatCommand, Exit, Destroy
<1>2. CASE GameThread
  BY <1>2 DEF GameThread, Loop, RunTask, EndTask, Unlock, EndUpdate, NoteEvent
<1>3. CASE Script
  BY <1>3 DEF Script, AddEvent, StopEvent
<1>4. CASE SchedulerThread
  BY <1>4 DEF SchedulerThread, Pop, ReadServer, PostTask
<1>5. CASE UNCHANGED vars
  BY <1>5 DEF vars
<1> QED BY <1>1, <1>2, <1>3, <1>4, <1>5 DEF Next

\* The tasks that a stopped server still had were not run.
LEMMA PostedAreUncalled ==
    ASSUME IInv, gt # "task", NEW e \in Posted
    PROVE  calls[e] = 0
BY DEF IInv, PostedOnce, Posted

LEMMA NextDroppedAreGone == IInv /\ DroppedAreGone /\ [Next]_vars => DroppedAreGone'
<1> SUFFICES ASSUME IInv, DroppedAreGone, [Next]_vars, NEW e \in dropped'
             PROVE  /\ e \notin queue' /\ e # schedEvent'
                    /\ e \notin Posted' /\ calls'[e] = 0
  BY DEF DroppedAreGone
<1>0. /\ dropped \subseteq Added /\ queue \subseteq Added /\ Posted \subseteq Added
      /\ Added \subseteq Events /\ NoEvent \notin Added /\ calls \in [Events -> Nat]
  <2>1. added \in 0..MaxEvents
    BY DEF IInv, TypeOK
  <2> QED BY <2>1, Bounds DEF IInv, TypeOK, Places, Added, Events, NoEvent
<1>1. CASE e \in dropped
  <2>1. e \in Added /\ e \notin queue /\ e # schedEvent /\ e \notin Posted /\ calls[e] = 0
    BY <1>0, <1>1 DEF DroppedAreGone
  <2>2. e \notin queue'
    <3>1. CASE AddEvent /\ schedulerUp
      BY <1>0, <2>1, <3>1, EventAdded
    <3>2. CASE AddEvent /\ ~schedulerUp
      BY <2>1, <3>2, NothingAdded
    <3>3. CASE ~AddEvent
      BY <2>1, <3>3, QueueStep
    <3> QED BY <3>1, <3>2, <3>3
  <2>3. e # schedEvent'
    <3>1. CASE ~SchedulerThread
      BY <2>1, <3>1, SchedStep DEF schedVars
    <3>2. CASE SchedulerThread
      BY <1>0, <2>1, <3>2 DEF SchedulerThread, Pop, ReadServer, PostTask, schedVars
    <3> QED BY <3>1, <3>2
  <2>4. e \notin Posted'
    BY <2>1, PostedStep
  <2>5. calls'[e] = 0
    <3>1. CASE calls' = calls
      BY <2>1, <3>1
    <3>2. CASE calls' # calls
      <4>1. PICK f \in Posted : calls' = [calls EXCEPT ![f] = 1]
        BY <3>2, CallsStep
      <4> QED BY <1>0, <2>1, <4>1
    <3> QED BY <3>1, <3>2
  <2> QED BY <2>2, <2>3, <2>4, <2>5
<1>2. CASE Reset /\ e \in Posted
  <2>1. /\ gt = "ended" /\ mTasks' = <<>>
        /\ UNCHANGED <<queue, schedEvent, calls>>
    BY <1>2 DEF Reset, IInv, Threads, timerVars, schedVars
  <2>2. Posted' = {}
    BY <2>1 DEF Posted
  <2>3. e \notin queue /\ e # schedEvent
    BY <1>0, <1>2 DEF IInv, Places
  <2>4. calls[e] = 0
    BY <1>2, <2>1, PostedAreUncalled
  <2> QED BY <2>1, <2>2, <2>3, <2>4
<1>3. CASE Exit /\ e \in queue
  <2>1. /\ queue' = {} /\ UNCHANGED <<mTasks, schedEvent, calls>>
    BY <1>3 DEF Exit, schedVars
  <2>2. Posted' = Posted
    BY <2>1 DEF Posted
  <2>3. e # schedEvent /\ e \notin Posted /\ calls[e] = 0
    BY <1>3 DEF IInv, Places
  <2> QED BY <2>1, <2>2, <2>3
<1> QED BY <1>1, <1>2, <1>3, DroppedStep

PInv == IInv /\ Stopped /\ DroppedAreGone

LEMMA PromiseInvariant == Spec => []PInv
<1>1. Init => Stopped /\ DroppedAreGone
  BY DEF Init, Stopped, DroppedAreGone
<1>2. IInv /\ Stopped /\ DroppedAreGone /\ [Next]_vars => (Stopped /\ DroppedAreGone)'
  BY NextStopped, NextDroppedAreGone
<1> QED BY <1>1, <1>2, Invariant, PTL DEF Spec, PInv

\* What the promise sees of a state.
Waiting == Added \ (Called \cup cancelled \cup dropped)
PromiseState == <<mRunning /\ schedulerUp, Waiting, Called, cancelled, dropped \ cancelled>>

\* An event that still is somewhere is waiting, if it was not withdrawn; and
\* while ids do not clash one that was withdrawn is neither live nor fired.
LEMMA WhereEventsWait ==
    ASSUME PInv, NoClash
    PROVE  /\ \A e \in queue \ cancelled : e \in Waiting
           /\ \A e \in queue : id[e] \in mTaskIds => e \in Waiting
           /\ gt # "task" => \A e \in Posted : e \in Waiting
           /\ \A e \in Posted : calls[e] = 0 => e \in Waiting
<1>1. /\ queue \subseteq Added /\ Posted \subseteq Added /\ cancelled \subseteq Added
  BY DEF PInv, IInv, TypeOK, Places
<1>2. \A e \in cancelled : ~Overtaken(e)
  <2> SUFFICES ASSUME NEW e \in Added, NEW f \in Added, run[f] > run[e], id[f] = id[e]
               PROVE  FALSE
    BY <1>1 DEF Overtaken
  <2>1. f = e
    BY DEF NoClash
  <2>2. run[e] \in Int
    BY DEF PInv, IInv, Ids
  <2> QED BY <2>1, <2>2
<1>3. \A e \in cancelled : (e \in queue => id[e] \notin mTaskIds) /\ e \notin Posted
  BY <1>2 DEF PInv, IInv, Silent
<1>4. \A e \in queue : calls[e] = 0 /\ e \notin dropped
  BY DEF PInv, IInv, Places, DroppedAreGone
<1>5. \A e \in Posted : e \notin dropped
  BY DEF PInv, DroppedAreGone
<1>6. gt # "task" => \A e \in Posted : calls[e] = 0
  BY PostedAreUncalled DEF PInv
<1>7. \A e : calls[e] = 0 => e \notin Called
  BY DEF Called
<1> QED BY <1>1, <1>3, <1>4, <1>5, <1>6, <1>7 DEF Waiting

\* AddEvent asks.
LEMMA AskRefines ==
    ASSUME PInv, AddEvent, schedulerUp
    PROVE  Scripts!ENext
<1> DEFINE e == added + 1
<1>1. e \in Events \ Added /\ Added' = Added \cup {e}
  BY EventAdded DEF PInv
<1>2. UNCHANGED <<mRunning, schedulerUp, calls, cancelled, dropped>>
  BY DEF AddEvent, gameVars, historyVars
<1>3. cancelled \subseteq Added /\ dropped \subseteq Added /\ calls[e] = 0
  BY <1>1 DEF PInv, IInv, TypeOK, Places
<1>4. Called' = Called
  BY <1>1, <1>2, <1>3 DEF Called
<1>5. e \notin Called
  BY <1>1 DEF Called
<1>6. Waiting' = Waiting \cup {e}
  BY <1>1, <1>2, <1>3, <1>4, <1>5 DEF Waiting
<1>7. Scripts!Ask(e)
  BY <1>1, <1>2, <1>3, <1>4, <1>5, <1>6 DEF Scripts!Ask, Scripts!Asked, Waiting
<1> QED BY <1>1, <1>7 DEF Scripts!ENext

\* A cancelled id withdraws one event, or none.
LEMMA WithdrawRefines ==
    ASSUME PInv, NoClash, NEW i, cancelled' = cancelled \cup Withdrawn(i),
           UNCHANGED <<added, calls, dropped, mRunning, schedulerUp>>
    PROVE  Scripts!ENext \/ UNCHANGED PromiseState
<1>1. UNCHANGED <<Added, Called>>
  BY DEF Added, Called
<1>2. CASE Withdrawn(i) = {}
  BY <1>1, <1>2 DEF PromiseState, Waiting
<1>3. CASE Withdrawn(i) # {}
  <2>1. PICK e \in queue : id[e] = i /\ i \in mTaskIds
    BY <1>3 DEF Withdrawn
  <2>2. queue \subseteq Added
    BY DEF PInv, IInv, TypeOK
  <2>3. Withdrawn(i) = {e}
    BY <2>1, <2>2 DEF Withdrawn, NoClash
  <2>4. e \in Waiting
    BY <2>1, WhereEventsWait
  <2>5. cancelled' = cancelled \cup {e} /\ Waiting' = Waiting \ {e}
    BY <1>1, <2>3 DEF Waiting
  <2>6. e \notin dropped
    BY <2>4 DEF Waiting
  <2>7. Scripts!Withdraw(e)
    BY <1>1, <2>5, <2>6 DEF Scripts!Withdraw, Waiting
  <2> QED BY <2>4, <2>7 DEF Scripts!ENext, Waiting
<1> QED BY <1>2, <1>3

\* A posted event's task calls its script.
LEMMA CallRefines ==
    ASSUME PInv, NoClash, RunTask
    PROVE  Scripts!ENext \/ UNCHANGED PromiseState
<1>1. UNCHANGED <<added, mRunning, schedulerUp, cancelled, dropped>>
  BY DEF RunTask, eventVars
<1>2. CASE calls' = calls
  BY <1>1, <1>2 DEF PromiseState, Waiting, Called, Added
<1>3. CASE calls' # calls
  <2>0. [Next]_vars /\ IInv
    BY DEF Next, GameThread, PInv
  <2>1. PICK e \in Posted : calls[e] = 0 /\ calls' = [calls EXCEPT ![e] = 1]
    BY <1>3, <2>0, CallsStep
  <2>2. e \in Waiting
    BY <2>1, WhereEventsWait
  <2>3. e \in Added /\ Added' = Added
    BY <1>1, <2>2 DEF Waiting, Added
  <2>4. calls'[e] = 1 /\ \A f \in Added : f # e => calls'[f] = calls[f]
    <3>1. calls \in [Events -> Nat] /\ Added \subseteq Events
      BY Bounds DEF PInv, IInv, TypeOK, Added, Events
    <3> QED BY <2>1, <2>3, <3>1
  <2>5. Called' = Called \cup {e}
    BY <2>3, <2>4 DEF Called
  <2>6. Waiting' = Waiting \ {e}
    BY <1>1, <2>3, <2>5 DEF Waiting
  <2>7. Scripts!Call(e)
    BY <1>1, <2>5, <2>6 DEF Scripts!Call, Waiting
  <2> QED BY <2>2, <2>7 DEF Scripts!ENext, Waiting
<1> QED BY <1>2, <1>3

\* A stopped server's tasks, or the queue of a scheduler that ends, are lost.
LEMMA LoseRefines ==
    ASSUME PInv, NoClash, NEW S, dropped' = dropped \cup S, S \ cancelled \subseteq Waiting,
           S \cap (Called \cup dropped) = {}, ~(mRunning' /\ schedulerUp'),
           UNCHANGED <<added, calls, cancelled>>
    PROVE  Scripts!ENext
<1>1. UNCHANGED <<Added, Called>>
  BY DEF Added, Called
<1>2. /\ Waiting' = Waiting \ (S \ cancelled)
      /\ (dropped \ cancelled)' = (dropped \ cancelled) \cup (S \ cancelled)
  BY <1>1 DEF Waiting
<1>3. Scripts!Lose(S \ cancelled)
  BY <1>1, <1>2 DEF Scripts!Lose, Waiting
<1>4. S \ cancelled \in SUBSET Waiting
  OBVIOUS
<1> QED BY <1>3, <1>4 DEF Scripts!ENext, Waiting

LEMMA ResetRefines == PInv /\ NoClash /\ Reset => Scripts!ENext
<1> SUFFICES ASSUME PInv, NoClash, Reset PROVE Scripts!ENext
  OBVIOUS
<1>1. /\ dropped' = dropped \cup Posted /\ gt # "task" /\ mRunning' = FALSE
      /\ UNCHANGED <<added, calls, cancelled>>
  BY DEF Reset, PInv, IInv, Threads, TypeOK, Stopped, eventVars
<1>2. Posted \subseteq Waiting
  BY <1>1, WhereEventsWait
<1>3. Posted \cap (Called \cup dropped) = {}
  BY <1>2 DEF Waiting
<1> QED BY <1>1, <1>2, <1>3, LoseRefines

LEMMA ExitLoses == PInv /\ NoClash /\ Exit => Scripts!ENext
<1> SUFFICES ASSUME PInv, NoClash, Exit PROVE Scripts!ENext
  OBVIOUS
<1>1. /\ dropped' = dropped \cup queue /\ schedulerUp' = FALSE
      /\ UNCHANGED <<added, calls, cancelled>>
  BY DEF Exit, eventVars
<1>2. queue \ cancelled \subseteq Waiting
  BY WhereEventsWait
<1>3. queue \cap (Called \cup dropped) = {}
  BY DEF PInv, IInv, Places, DroppedAreGone, Called
<1> QED BY <1>1, <1>2, <1>3, LoseRefines

\* Starting and stopping loses nothing by itself.
LEMMA StartOrStopRefines ==
    ASSUME TypeOK', UNCHANGED <<added, calls, cancelled, dropped, schedulerUp>>
    PROVE  Scripts!ENext
<1>1. UNCHANGED <<Waiting, Called>>
  BY DEF Waiting, Called, Added
<1>2. Scripts!StartOrStop
  BY <1>1 DEF Scripts!StartOrStop, Waiting, TypeOK
<1> QED BY <1>2 DEF Scripts!ENext

\* While no two events share an id, whatever the three threads do and however
\* often the game is started, each event a script asks for is called once, or
\* withdrawn and never called, or lost with a game that does not run any more.
THEOREM PromiseIsKept == Spec /\ []NoClash => KeepsItsPromise
<1>1. Init => Scripts!EInit
  BY DEF Init, Scripts!EInit, Called, Added
<1>2. PInv /\ PInv' /\ NoClash /\ [Next]_vars => [Scripts!ENext]_(Scripts!evars)
  <2> SUFFICES ASSUME PInv, PInv', NoClash, [Next]_vars
               PROVE  Scripts!ENext \/ UNCHANGED PromiseState
    BY DEF Scripts!evars, PromiseState, Waiting
  <2> USE DEF ioVars, gameVars, eventVars, timerVars, schedVars, historyVars
  <2>0. ASSUME UNCHANGED <<added, calls, cancelled, dropped, mRunning, schedulerUp>>
        PROVE  UNCHANGED PromiseState
    BY <2>0 DEF PromiseState, Waiting, Called, Added
  <2>1. CASE AddEvent /\ schedulerUp
    BY <2>1, AskRefines
  <2>2. CASE AddEvent /\ ~schedulerUp
    BY <2>0, <2>2, NothingAdded DEF AddEvent
  <2>3. ASSUME NEW i \in toCancel, StopCancel(i)
        PROVE  Scripts!ENext \/ UNCHANGED PromiseState
    <3>1. UNCHANGED <<added, calls, dropped, mRunning, schedulerUp>>
          /\ (cancelled' = cancelled \cup Withdrawn(i) \/ cancelled' = cancelled)
      BY <2>3 DEF StopCancel
    <3> QED BY <2>0, <3>1, WithdrawRefines
  <2>4. ASSUME NEW e \in Added, StopEvent(e)
        PROVE  Scripts!ENext \/ UNCHANGED PromiseState
    <3>1. UNCHANGED <<added, calls, dropped, mRunning, schedulerUp>>
          /\ (cancelled' = cancelled \cup Withdrawn(id[e]) \/ cancelled' = cancelled)
      BY <2>4 DEF StopEvent
    <3> QED BY <2>0, <3>1, WithdrawRefines
  <2>5. CASE RunTask
    BY <2>5, CallRefines
  <2>6. CASE Reset
    BY <2>6, ResetRefines
  <2>7. CASE Exit
    BY <2>7, ExitLoses
  <2>8. CASE StopServer \/ Construct
    BY <2>8, StartOrStopRefines DEF StopServer, Construct, PInv, IInv
  <2>9. CASE BeginStart \/ Join \/ PostInit \/ ChatCommand \/ Destroy
    BY <2>0, <2>9 DEF BeginStart, Join, PostInit, ChatCommand, Destroy
  <2>10. CASE Loop \/ EndTask \/ Unlock \/ EndUpdate \/ NoteEvent
    BY <2>0, <2>10 DEF Loop, EndTask, Unlock, EndUpdate, NoteEvent
  <2>11. CASE SchedulerThread
    BY <2>0, <2>11 DEF SchedulerThread, Pop, ReadServer, PostTask
  <2>12. CASE UNCHANGED vars
    BY <2>0, <2>12 DEF vars
  <2> QED BY <2>1, <2>2, <2>3, <2>4, <2>5, <2>6, <2>7, <2>8, <2>9, <2>10, <2>11,
             <2>12 DEF Next, Io, GameThread, Script
<1> QED BY <1>1, <1>2, PromiseInvariant, PTL
    DEF Spec, KeepsItsPromise, Scripts!ESpec

\* A game that is started once counts its ids on one thread: its events have
\* different ones, and nothing has to be assumed.
THEOREM OneGameKeepsItsPromise == MaxRuns <= 1 => (Spec => KeepsItsPromise)
<1> SUFFICES ASSUME MaxRuns <= 1 PROVE Spec => KeepsItsPromise
  OBVIOUS
<1>1. IInv => NoClash
  <2> SUFFICES ASSUME IInv, NEW e \in Added, NEW f \in Added, id[e] = id[f]
               PROVE  e = f
    BY DEF NoClash
  <2>1. runs \in Nat /\ runs <= 1
    BY Bounds DEF IInv, TypeOK
  <2>2. run[e] \in 1..runs /\ run[f] \in 1..runs
    BY DEF IInv, Ids
  <2>3. run[e] = run[f]
    BY <2>1, <2>2
  <2> QED BY <2>3 DEF IInv, Ids
<1> QED BY <1>1, Invariant, PromiseIsKept, PTL

============================================================================
