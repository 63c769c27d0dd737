----------------------------- MODULE LuaThreads -----------------------------
(***************************************************************************)
(* The script coroutines of one game: Lua's threads, its pool and its set  *)
(* of sleepers (Game/Lua.cpp), the nThread functions that scripts call     *)
(* (Game/LuaFunctions.cpp), abilities that start a script for an object,   *)
(* and the player's cancel (Instance::CancelAction).                       *)
(*                                                                         *)
(* All of it runs on the game's thread, but not in a line: a script that   *)
(* runs may start another one, Update resumes scripts while it walks       *)
(* through the sleepers, and a cancel replaces the lua_State that a thread *)
(* is registered under.  What a script does between two calls of these is  *)
(* left open: it may start scripts, sleep, finish or fail at any point.    *)
(* An address of a lua_State that is not in use may be given out again.    *)
(***************************************************************************)
EXTENDS Naturals, Sequences, SequencesExt

CONSTANTS Objects,     \* game objects that abilities run for
          States,      \* addresses of lua_States
          Limit,       \* MAX_LUA_THREADS
          MaxScripts   \* bound: scripts started in the game's life

NoObject == "no object"

ASSUME LuaThreadsAssumption ==
    Limit \in Nat /\ MaxScripts \in Nat /\ NoObject \notin Objects

VARIABLES
    live,          \* the LuaThreads that exist, named in the order of creation
    made,          \* how many were created
    luaState,      \* LuaThread |-> its lua_State
    co,            \* LuaThread |-> its mCoroutine
    script,        \* LuaThread |-> the script of its mCoroutine
    condition,     \* LuaThread |-> the script that set mResumeCondition; 0: null
    mThreads,      \* lua_State |-> LuaThread; 0: no entry
    mThreadPool,   \* LuaThreads to use again
    mYieldedThreads,
    mLuaThread,    \* object |-> Object::mLuaThread; 0: null
    stack,         \* the threads whose scripts are running, the last on top
    updating,      \* in Lua::Update
    todo,          \* sleepers the walk of Update has still to reach
    closed,        \* ~Lua has run
    started,       \* how many scripts were started
    owner,         \* script |-> the object it runs for
    broken,        \* undefined behaviour, or what is not followed further
    stopped,       \* history: threads that a cancel has stopped
    crowded        \* history: mThreads held more than Limit entries

threadVars == <<live, made, luaState, co, script, condition>>
luaVars == <<mThreads, mThreadPool, mYieldedThreads>>
updateVars == <<updating, todo>>
scriptVars == <<started, owner>>
historyVars == <<stopped, crowded>>
vars == <<threadVars, luaVars, updateVars, scriptVars, historyVars,
          mLuaThread, stack, closed, broken>>

Threads == 1..MaxScripts
Scripts == 1..MaxScripts
None == 0

TypeOK ==
    /\ live \subseteq 1..made /\ made \in 0..MaxScripts
    /\ luaState \in [Threads -> States \cup {None}]
    /\ co \in [Threads -> {"nil", "running", "suspended", "finished", "error"}]
    /\ script \in [Threads -> Scripts \cup {None}]
    /\ condition \in [Threads -> Scripts \cup {None}]
    /\ mThreads \in [States -> Threads \cup {None}]
    /\ mThreadPool \in Seq(Threads)
    /\ mYieldedThreads \subseteq Threads
    /\ mLuaThread \in [Objects -> Threads \cup {None}]
    /\ stack \in Seq(Threads)
    /\ updating \in BOOLEAN /\ todo \subseteq Threads
    /\ closed \in BOOLEAN
    /\ started \in 0..MaxScripts
    /\ owner \in [Scripts -> Objects \cup {NoObject}]
    /\ broken \in {"no", "freed", "erase", "twice", "rerun"}
    /\ stopped \subseteq Threads /\ crowded \in BOOLEAN

Init ==
    /\ live = {} /\ made = 0
    /\ luaState = [t \in Threads |-> None]
    /\ co = [t \in Threads |-> "nil"]
    /\ script = [t \in Threads |-> None]
    /\ condition = [t \in Threads |-> None]
    /\ mThreads = [s \in States |-> None]
    /\ mThreadPool = <<>>
    /\ mYieldedThreads = {}
    /\ mLuaThread = [o \in Objects |-> None]
    /\ stack = <<>>
    /\ updating = FALSE /\ todo = {}
    /\ closed = FALSE
    /\ started = 0
    /\ owner = [n \in Scripts |-> NoObject]
    /\ broken = "no"
    /\ stopped = {} /\ crowded = FALSE

----------------------------------------------------------------------------
(* The parts.                                                              *)

Running == broken = "no" /\ ~closed

\* sol::thread::create may return any state that no thread holds.
FreshStates == States \ {luaState[t] : t \in live}

Registered == {s \in States : mThreads[s] # None}

\* LuaThread::status is dead: a new lua_State, or one whose script has ended.
\* One whose script failed keeps its error.
Dead(t) == co[t] \in {"nil", "finished"}

\* Mutant: one too few are kept.
Keeps_Fewer == Cardinality(Registered) < Limit

\* mThreads.size() is not above MAX_LUA_THREADS.
Keeps == Cardinality(Registered) <= Limit

\* ReturnThreadToPool of a thread whose fields are those of the current state.
ReturnThreadToPool(t) ==
    IF Keeps
    THEN /\ mThreadPool' = Append(mThreadPool, t)
         /\ UNCHANGED <<live, mThreads, broken>>
    ELSE \* erase(find(lua_state())), whoever is registered there, and delete
         /\ IF mThreads[luaState[t]] = None
            THEN broken' = "erase" /\ UNCHANGED mThreads
            ELSE /\ mThreads' = [mThreads EXCEPT ![luaState[t]] = None]
                 /\ UNCHANGED broken
         /\ live' = live \ {t}
         /\ UNCHANGED mThreadPool

\* GetThread
GetThread(s) == mThreads[s]

\* YieldThread: an insertion into the set that Update walks through may put
\* the elements in another order, so that some are passed over and some are
\* met again; the one whose script Update has resumed is not behind itself.
YieldThread(t) ==
    /\ mYieldedThreads' = mYieldedThreads \cup {t}
    /\ IF updating /\ t \notin mYieldedThreads
       THEN todo' \in SUBSET (mYieldedThreads' \ {Head(stack)})
       ELSE UNCHANGED todo

\* Something may start a script: a packet or an update of the game, or the
\* script on top.
MayStart == Running /\ started < MaxScripts /\ (updating => stack # <<>>)

----------------------------------------------------------------------------
(* Scripts start.                                                          *)

\* LuaThread::call on thread t, for object o.
Call(o, t) ==
    /\ started' = started + 1
    /\ owner' = [owner EXCEPT ![started'] = o]
    /\ co' = [co EXCEPT ![t] = "running"]
    /\ script' = [script EXCEPT ![t] = started']
    /\ stack' = Append(stack, t)
    /\ mLuaThread' = IF o = NoObject THEN mLuaThread
                     ELSE [mLuaThread EXCEPT ![o] = t]

\* SpawnThread takes the pool's last thread, or makes one; a state that is
\* still registered stays with the thread it was registered for.
Spawn(o) ==
    \/ /\ mThreadPool # <<>>
       /\ mThreadPool' = Front(mThreadPool)
       /\ LET t == Last(mThreadPool) IN
             IF t \in live /\ Dead(t)
             THEN Call(o, t) /\ UNCHANGED broken
             ELSE /\ broken' = IF t \in live THEN "twice" ELSE "freed"
                  /\ UNCHANGED <<scriptVars, co, script, stack, mLuaThread>>
       /\ UNCHANGED <<live, made, luaState, mThreads, crowded>>
    \/ /\ mThreadPool = <<>>
       /\ made' = made + 1
       /\ live' = live \cup {made'}
       /\ \E s \in FreshStates :
             /\ luaState' = [luaState EXCEPT ![made'] = s]
             /\ mThreads' = IF mThreads[s] = None
                            THEN [mThreads EXCEPT ![s] = made'] ELSE mThreads
       /\ crowded' = (crowded \/ Cardinality(Registered) >= Limit)
       /\ Call(o, made')
       /\ UNCHANGED <<mThreadPool, broken>>

\* CallCoroutine, and nThread.Create without an object: Activate, triggers,
\* objectives.
CallCoroutine ==
    /\ MayStart
    /\ Spawn(NoObject)
    /\ UNCHANGED <<condition, mYieldedThreads, updateVars, closed, stopped>>

\* Mutant: an object may always start another.
MayTick_Always(o) == TRUE

\* The object has no thread, or one that is dead.
MayTick(o) == mLuaThread[o] # None => Dead(mLuaThread[o])

\* Ability::Tick, and nThread.Create, for an object: refused while its thread
\* is not dead.
Tick(o) ==
    /\ MayStart
    /\ IF mLuaThread[o] # None /\ mLuaThread[o] \notin live
       THEN /\ broken' = "freed"
            /\ UNCHANGED <<live, made, luaState, co, script, mThreads,
                           mThreadPool, scriptVars, stack, mLuaThread, crowded>>
       ELSE MayTick(o) /\ Spawn(o)
    /\ UNCHANGED <<condition, mYieldedThreads, updateVars, closed, stopped>>

----------------------------------------------------------------------------
(* The script on top of the stack leaves it.                               *)

Top == Last(stack)

\* It was resumed by Update, not called.
Resumed == updating /\ Len(stack) = 1

\* Sleep, WaitForCallback, WaitForHitpointsAbove, WaitForXSeconds, WaitUntilTime:
\* the thread registered for the script's state goes to sleep, under a new
\* condition or, when there is nothing to wait for, under the one it has.  A
\* script whose state is not registered yields all the same.
Sleep ==
    /\ Running /\ stack # <<>>
    /\ co' = [co EXCEPT ![Top] = "suspended"]
    /\ stack' = Front(stack)
    /\ LET t == GetThread(luaState[Top]) IN
          IF t = None
          THEN UNCHANGED <<condition, mYieldedThreads, todo, broken>>
          ELSE IF t \notin live
          THEN broken' = "freed" /\ UNCHANGED <<condition, mYieldedThreads, todo>>
          ELSE /\ \/ condition' = [condition EXCEPT ![t] = script[Top]]
                  \/ UNCHANGED condition
               /\ YieldThread(t)
               /\ UNCHANGED broken
    /\ UNCHANGED <<live, made, luaState, script, mThreads, mThreadPool,
                   updating, closed, scriptVars, historyVars, mLuaThread>>

\* The script returns: call's post_call, or Update, returns its thread.
Finish ==
    /\ Running /\ stack # <<>>
    /\ co' = [co EXCEPT ![Top] = "finished"]
    /\ stack' = Front(stack)
    /\ mYieldedThreads' = IF Resumed THEN mYieldedThreads \ {Top}
                                     ELSE mYieldedThreads
    /\ ReturnThreadToPool(Top)
    /\ UNCHANGED <<made, luaState, script, condition, updateVars, closed,
                   scriptVars, historyVars, mLuaThread>>

\* Mutant: a failed script's thread is pooled like any other.
Fail_Pooled ==
    /\ Running /\ stack # <<>>
    /\ co' = [co EXCEPT ![Top] = "error"]
    /\ stack' = Front(stack)
    /\ ReturnThreadToPool(Top)
    /\ UNCHANGED <<made, luaState, script, condition, mYieldedThreads,
                   updateVars, closed, scriptVars, historyVars, mLuaThread>>

\* The script fails: its thread is not returned.
Fail ==
    /\ Running /\ stack # <<>>
    /\ co' = [co EXCEPT ![Top] = "error"]
    /\ stack' = Front(stack)
    /\ UNCHANGED <<live, made, luaState, script, condition, luaVars,
                   updateVars, closed, scriptVars, historyVars, mLuaThread,
                   broken>>

----------------------------------------------------------------------------
(* Lua::Update                                                             *)

\* Mutant: only those that wait for something are visited.
BeginUpdate_Waiting ==
    /\ Running /\ stack = <<>> /\ ~updating
    /\ updating' = TRUE
    /\ todo' = {t \in mYieldedThreads : condition[t] # None}
    /\ UNCHANGED <<threadVars, luaVars, scriptVars, historyVars, mLuaThread,
                   stack, closed, broken>>

BeginUpdate ==
    /\ Running /\ stack = <<>> /\ ~updating
    /\ updating' = TRUE
    /\ todo' = mYieldedThreads
    /\ UNCHANGED <<threadVars, luaVars, scriptVars, historyVars, mLuaThread,
                   stack, closed, broken>>

\* The walk has reached sleeper t.
Reached(t) == Running /\ stack = <<>> /\ updating /\ t \in todo

\* LuaThread::resume: there is no condition, or it holds.
Resume(t) ==
    /\ Reached(t) /\ t \in live /\ co[t] = "suspended"
    /\ todo' = todo \ {t}
    /\ condition' = [condition EXCEPT ![t] = None]
    /\ co' = [co EXCEPT ![t] = "running"]
    /\ stack' = <<t>>
    /\ UNCHANGED <<live, made, luaState, script, luaVars, updating, closed,
                   scriptVars, historyVars, mLuaThread, broken>>

\* Mutant: the thread leaves the sleepers.
SleepOn_Erase(t) ==
    /\ Reached(t) /\ t \in live
    /\ co[t] = "error" \/ (co[t] = "suspended" /\ condition[t] # None)
    /\ todo' = todo \ {t}
    /\ mYieldedThreads' = mYieldedThreads \ {t}
    /\ UNCHANGED <<threadVars, mThreads, mThreadPool, updating, closed,
                   scriptVars, historyVars, mLuaThread, stack, broken>>

\* resume returns false: the condition does not hold, or the script failed.
SleepOn(t) ==
    /\ Reached(t) /\ t \in live
    /\ co[t] = "error" \/ (co[t] = "suspended" /\ condition[t] # None)
    /\ todo' = todo \ {t}
    /\ UNCHANGED <<threadVars, luaVars, updating, closed, scriptVars,
                   historyVars, mLuaThread, stack, broken>>

\* resume of a stopped thread returns true at once, and it is returned.
Reap(t) ==
    /\ Reached(t) /\ t \in live /\ co[t] = "nil"
    /\ todo' = todo \ {t}
    /\ mYieldedThreads' = mYieldedThreads \ {t}
    /\ ReturnThreadToPool(t)
    /\ UNCHANGED <<made, luaState, co, script, condition, updating, closed,
                   scriptVars, historyVars, mLuaThread, stack>>

\* The walk has reached a thread that was deleted, or one that ended without
\* leaving the set, whose function would run once more.
Stray(t) ==
    /\ Reached(t)
    /\ t \notin live \/ co[t] = "finished"
    /\ broken' = IF t \in live THEN "rerun" ELSE "freed"
    /\ UNCHANGED <<threadVars, luaVars, updateVars, scriptVars, historyVars,
                   mLuaThread, stack, closed>>

EndUpdate ==
    /\ Running /\ stack = <<>> /\ updating
    /\ todo = {}
    /\ updating' = FALSE
    /\ UNCHANGED <<threadVars, luaVars, todo, scriptVars, historyVars,
                   mLuaThread, stack, closed, broken>>

----------------------------------------------------------------------------

\* Instance::CancelAction from a packet: LuaThread::stop drops the coroutine
\* and takes a new lua_State.  The condition and the registration stay.
CancelAction(o) ==
    /\ Running /\ stack = <<>> /\ ~updating
    /\ mLuaThread[o] # None
    /\ LET t == mLuaThread[o] IN
          IF t \notin live
          THEN broken' = "freed" /\ UNCHANGED <<luaState, co, stopped>>
          ELSE /\ co' = [co EXCEPT ![t] = "nil"]
               /\ \E s \in FreshStates : luaState' = [luaState EXCEPT ![t] = s]
               /\ stopped' = stopped \cup {t}
               /\ UNCHANGED broken
    /\ UNCHANGED <<live, made, script, condition, luaVars, updateVars,
                   scriptVars, crowded, mLuaThread, stack, closed>>

\* ~Lua deletes what is registered; the pool and the sleepers go with it.
Close ==
    /\ Running /\ stack = <<>> /\ ~updating
    /\ closed' = TRUE
    /\ LET registered == {mThreads[s] : s \in Registered} IN
          /\ broken' = IF registered \subseteq live THEN broken ELSE "freed"
          /\ live' = live \ registered
    /\ mThreads' = [s \in States |-> None]
    /\ mThreadPool' = <<>> /\ mYieldedThreads' = {}
    /\ UNCHANGED <<made, luaState, co, script, condition, updateVars,
                   scriptVars, historyVars, mLuaThread, stack>>

Update == BeginUpdate \/ EndUpdate
          \/ \E t \in todo : Resume(t) \/ SleepOn(t) \/ Reap(t) \/ Stray(t)
Leave == Sleep \/ Finish \/ Fail

Next == \/ CallCoroutine
        \/ \E o \in Objects : Tick(o) \/ CancelAction(o)
        \/ Leave
        \/ Update
        \/ Close

Spec == Init /\ [][Next]_vars

\* The game's loop calls Update again and again; a script leaves the stack; a
\* condition that is tried often enough holds.
FairSpec == /\ Spec
            /\ WF_vars(Leave)
            /\ WF_vars(Update)
            /\ \A t \in Threads : SF_vars(Resume(t))

----------------------------------------------------------------------------
(* Properties.                                                             *)

Unfinished(t) == co[t] \in {"running", "suspended"}

Pooled == ToSet(mThreadPool)

\* An object has one script at a time: whatever the pool does with its thread
\* after a script has ended, Tick's test of the old thread does not let a
\* second one start beside the first.
OneScriptPerObject ==
    \A t, u \in live :
        /\ t # u /\ Unfinished(t) /\ Unfinished(u)
        /\ owner[script[t]] \in Objects
        => owner[script[t]] # owner[script[u]]

\* A thread in the pool is there once, and nothing else has it: no sleeper is
\* given out, and no script runs on it.  Only a cancel, which leaves a thread
\* registered under a state that another one may get, can end this.
PoolIsExclusive ==
    stopped = {} =>
        /\ IsInjective(mThreadPool)
        /\ \A t \in Pooled : /\ t \in live /\ co[t] = "finished"
                             /\ t \notin mYieldedThreads

\* A script that sleeps will be looked at by Update: it is among the sleepers.
\* Lost is one whose thread was stopped before and runs under a state that is
\* registered for nobody or for another.
SleepersAreKnown ==
    \A t \in live : co[t] = "suspended" =>
        t \in mYieldedThreads \/ mThreads[luaState[t]] # t

\* Nothing undefined happens to a game that never cancels and never has more
\* threads than the pool keeps, and ~Lua then frees them all.
SoundUnlessCancelled ==
    /\ broken # "no" => crowded \/ stopped # {}
    /\ closed /\ stopped = {} => live = {}

\* A sleeper is resumed or stopped, or its script had failed, however the
\* scripts that run during Update disturb the walk.
SleeperWakes ==
    \A t \in Threads :
        t \in mYieldedThreads /\ co[t] = "suspended"
            ~> co[t] # "suspended" \/ closed \/ broken # "no"

(* What the scripts see. *)
ScriptsOf(threads) == [k \in 1..Len(threads) |-> script[threads[k]]]

Runtime == INSTANCE Coroutines WITH
    known <- 1..started,
    onStack <- ScriptsOf(stack),
    asleep <- {script[t] : t \in {u \in live : co[u] = "suspended"}}

\* Until something undefined happens, the pool, the cancels and the deletion
\* of threads that are used again do not show in the scripts: none is started
\* twice, resumed when it does not sleep, or run on after its end.
ImplementsCoroutines == Runtime!RSpec

=============================================================================
