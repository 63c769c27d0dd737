-------------------------- MODULE LuaThreadsProofs --------------------------
(***************************************************************************)
(* The safety of LuaThreads, for any number of objects, lua_States and     *)
(* scripts, and any limit of the pool.                                     *)
(*                                                                         *)
(* That an object has one script (Owned) and that no sleeper is forgotten  *)
(* holds in every game.  The rest is for games that never cancel: then a   *)
(* thread is registered under its own state (Registration), the sleepers   *)
(* are threads that wait or failed or the one that Update has resumed      *)
(* (Asleep), and what is in the pool has ended (InPool).  None of these is *)
(* inductive without the others: what Finish pools is not asleep, because  *)
(* Update takes what it resumed out of the sleepers and nothing else that  *)
(* runs is among them.                                                     *)
(***************************************************************************)
EXTENDS LuaThreads, FiniteSetTheorems, SequenceTheorems, TLAPS

\* Bounds, and what every thread that exists has.
Basic ==
    /\ made <= started
    /\ IsFiniteSet(Registered) /\ (~crowded => Cardinality(Registered) <= Limit)
    /\ \A t \in Threads : script[t] <= started
    /\ \A t \in live : /\ luaState[t] \in States
                       /\ Unfinished(t) => script[t] # None

\* What is on the stack runs, and is there once.
OnStack ==
    /\ IsInjective(stack)
    /\ \A t \in ToSet(stack) : t \in live /\ co[t] = "running"

\* The thread of an object's script is the one that the object knows.
Owned ==
    \A t \in live :
        Unfinished(t) /\ owner[script[t]] \in Objects => mLuaThread[owner[script[t]]] = t

\* Each thread is registered under its state, and nothing else is.
Registration ==
    /\ \A t \in live : mThreads[luaState[t]] = t /\ co[t] # "nil"
    /\ \A s \in States : mThreads[s] # None =>
          mThreads[s] \in live /\ luaState[mThreads[s]] = s

\* Sleepers wait or have failed, or one of them was resumed by Update.
Asleep ==
    /\ \A t \in mYieldedThreads :
          /\ t \in live
          /\ \/ co[t] \in {"suspended", "error"}
             \/ co[t] = "running" /\ updating /\ stack # <<>> /\ t = Head(stack)
    /\ todo \subseteq mYieldedThreads
    /\ ~updating => todo = {}
    /\ updating /\ stack # <<>> => Head(stack) \notin todo

InPool ==
    /\ IsInjective(mThreadPool)
    /\ \A t \in Pooled : t \in live /\ co[t] = "finished"

\* The threads of objects exist while the pool was never full.
Intact ==
    /\ ~crowded => broken = "no"
    /\ ~crowded /\ ~closed => \A o \in Objects : mLuaThread[o] # None => mLuaThread[o] \in live
    /\ closed => live = {}

Always == TypeOK /\ Basic /\ OnStack /\ Owned /\ SleepersAreKnown

Uncancelled == Registration /\ Asleep /\ InPool /\ Intact

IInv == Always /\ (stopped = {} => Uncancelled)

----------------------------------------------------------------------------
(* Sequences without repetition: the stack and the pool.                   *)

\* One more at the end.
LEMMA Pushed ==
    ASSUME NEW S, NEW s \in Seq(S), NEW t \in S, t \notin ToSet(s), IsInjective(s)
    PROVE  /\ Append(s, t) \in Seq(S) /\ IsInjective(Append(s, t))
           /\ ToSet(Append(s, t)) = ToSet(s) \cup {t}
           /\ Append(s, t) # <<>>
           /\ Head(Append(s, t)) = IF s = <<>> THEN t ELSE Head(s)
<1> DEFINE u == Append(s, t)
           n == Len(s)
<1>1. /\ u \in Seq(S) /\ n \in Nat /\ Len(u) = n + 1 /\ u[n + 1] = t
      /\ \A k \in 1..n : u[k] = s[k]
  OBVIOUS
<1>2. DOMAIN u = 1..n + 1 /\ DOMAIN s = 1..n
  BY <1>1
<1>3. \A k \in 1..n + 1 : k \in 1..n \/ k = n + 1
  BY <1>1
<1>4. n + 1 \in 1..n + 1 /\ \A k \in 1..n : k \in 1..n + 1
  BY <1>1
<1>5. u # <<>> /\ Head(u) = IF s = <<>> THEN t ELSE Head(s)
  <2>1. CASE s = <<>>
    BY <2>1
  <2>2. CASE s # <<>>
    <3>1. 1 \in 1..n /\ Head(s) = s[1] /\ u # <<>> /\ Head(u) = u[1]
      BY <1>1, <2>2
    <3> QED BY <3>1, <1>1, <2>2
  <2> QED BY <2>1, <2>2
<1> HIDE DEF u
<1>6. \A k \in 1..n : s[k] # t
  BY <1>2 DEF ToSet
<1>7. \A i, j \in 1..n : s[i] = s[j] => i = j
  BY <1>2 DEF IsInjective
<1>8. IsInjective(u)
  BY <1>1, <1>2, <1>3, <1>6, <1>7 DEF IsInjective
<1>9. ToSet(u) = ToSet(s) \cup {t}
  BY <1>1, <1>2, <1>3, <1>4 DEF ToSet
<1> QED BY <1>1, <1>5, <1>8, <1>9 DEF u

\* The last one leaves.
LEMMA Popped ==
    ASSUME NEW S, NEW s \in Seq(S), s # <<>>, IsInjective(s)
    PROVE  /\ Front(s) \in Seq(S) /\ IsInjective(Front(s)) /\ Last(s) \in S
           /\ Last(s) \in ToSet(s) /\ ToSet(Front(s)) = ToSet(s) \ {Last(s)}
           /\ Front(s) # <<>> => Head(Front(s)) = Head(s)
           /\ Head(s) \in ToSet(s) /\ (Len(s) = 1 <=> Last(s) = Head(s))
           /\ Last(s) # Head(s) => Front(s) # <<>>
<1> DEFINE u == Front(s)
           n == Len(s)
<1>1. n \in Nat /\ n > 0 /\ \A k \in 1..n : s[k] \in S
  OBVIOUS
<1>2. n - 1 \in Nat /\ n \in 1..n /\ \A k \in 1..n - 1 : k \in 1..n /\ k # n
  BY <1>1
<1>3. /\ u \in Seq(S) /\ Len(u) = n - 1 /\ \A k \in 1..n - 1 : u[k] = s[k]
  <2> DEFINE m == n - 1
  <2>1. m \in Int /\ 1 \in Int /\ \A k \in 1..m : s[k] \in S
    BY <1>1, <1>2
  <2>2. /\ SubSeq(s, 1, m) \in Seq(S)
        /\ Len(SubSeq(s, 1, m)) = IF 1 <= m THEN m - 1 + 1 ELSE 0
        /\ \A k \in 1..m - 1 + 1 : SubSeq(s, 1, m)[k] = s[1 + k - 1]
    BY <2>1, SubSeqProperties
  <2>3. m - 1 + 1 = m /\ \A k \in 1..m : 1 + k - 1 = k
    BY <2>1
  <2>4. Len(SubSeq(s, 1, m)) = m
    <3>1. m \in Nat
      BY <1>2
    <3> HIDE DEF m
    <3>2. 1 <= m \/ m = 0
      BY <3>1
    <3> QED BY <2>2, <2>3, <3>1, <3>2
  <2> QED BY <2>2, <2>3, <2>4 DEF Front
<1>4. Last(s) = s[n] /\ DOMAIN s = 1..n /\ DOMAIN u = 1..n - 1
  BY <1>1, <1>3 DEF Last
<1>5. Head(s) = s[1] /\ 1 \in 1..n
  BY <1>1
<1>6. u # <<>> => Head(u) = Head(s)
  BY <1>1, <1>3, <1>5
<1>7. \A k \in 1..n : k = n \/ k \in 1..n - 1
  BY <1>1
<1>8. \A i, j \in 1..n : s[i] = s[j] => i = j
  BY <1>4 DEF IsInjective
<1> HIDE DEF u
<1>9. IsInjective(u)
  BY <1>2, <1>3, <1>4, <1>8 DEF IsInjective
<1>10. ToSet(u) = ToSet(s) \ {s[n]}
  <2>1. ASSUME NEW k \in 1..n - 1 PROVE u[k] \in ToSet(s) \ {s[n]}
    BY <2>1, <1>2, <1>3, <1>4, <1>8 DEF ToSet
  <2>2. ASSUME NEW k \in 1..n, s[k] # s[n] PROVE s[k] \in ToSet(u)
    BY <2>2, <1>3, <1>4, <1>7 DEF ToSet
  <2> QED BY <2>1, <2>2, <1>4 DEF ToSet
<1>11. n = 1 <=> s[n] = s[1]
  BY <1>2, <1>5, <1>8
<1>12. s[n] \in ToSet(s) /\ s[1] \in ToSet(s)
  BY <1>2, <1>4, <1>5 DEF ToSet
<1>13. Front(s) = u /\ s[n] \in S
  BY <1>1, <1>2 DEF u
<1>14. s[n] # s[1] => u # <<>>
  <2>1. CASE n = 1
    BY <2>1, <1>11
  <2>2. CASE n # 1
    <3>1. n - 1 # 0
      BY <1>1, <2>2
    <3> QED BY <3>1, <1>3
  <2> QED BY <2>1, <2>2
<1> QED BY <1>3, <1>4, <1>5, <1>6, <1>9, <1>10, <1>11, <1>12, <1>13, <1>14

----------------------------------------------------------------------------
(* The parts of the steps.                                                 *)

\* A thread that exists is one of Threads.
LEMMA LiveThreads ==
    ASSUME TypeOK
    PROVE  /\ live \subseteq Threads /\ made \in Nat /\ made <= MaxScripts
           /\ started \in Nat /\ started <= MaxScripts
           /\ MaxScripts \in Nat /\ None \notin Threads /\ Scripts = Threads
<1>1. MaxScripts \in Nat /\ made \in 0..MaxScripts /\ started \in 0..MaxScripts
      /\ live \subseteq 1..made
  BY LuaThreadsAssumption DEF TypeOK
<1>2. live \subseteq 1..MaxScripts
  BY <1>1
<1> QED BY <1>1, <1>2 DEF Threads, Scripts, None

\* ReturnThreadToPool keeps thread t, or deletes it with what is registered
\* for its state.
Pooling(t) ==
    /\ live' = live /\ mThreads' = mThreads /\ broken' = broken
    /\ mThreadPool' = Append(mThreadPool, t)

Deleting(t) ==
    /\ live' = live \ {t} /\ mThreadPool' = mThreadPool
    /\ \A x \in States \ {luaState[t]} : mThreads'[x] = mThreads[x]
    /\ mThreads[luaState[t]] # None => broken' = broken /\ mThreads'[luaState[t]] = None

\* What ReturnThreadToPool may change: without cancels it keeps threads
\* registered, and while the pool was never full it keeps them alive.
LEMMA ReturnFacts ==
    ASSUME TypeOK, Basic, NEW t \in live, luaState' = luaState, ReturnThreadToPool(t)
    PROVE  /\ live' \subseteq live /\ live \ {t} \subseteq live'
           /\ mThreads' \in [States -> Threads \cup {None}]
           /\ mThreadPool' \in Seq(Threads)
           /\ broken' \in {"no", "freed", "erase", "twice", "rerun"}
           /\ \A s \in States : mThreads'[s] = mThreads[s] \/ mThreads'[s] = None
           /\ IsFiniteSet(Registered)'
           /\ ~crowded => /\ Cardinality(Registered)' <= Limit
                          /\ live' = live /\ broken' = broken
           /\ Pooling(t) \/ Deleting(t)
<1>1. t \in Threads /\ luaState[t] \in States
  BY LiveThreads DEF Basic
<1>2. CASE Keeps
  <2>1. /\ mThreadPool' = Append(mThreadPool, t) /\ live' = live
        /\ mThreads' = mThreads /\ broken' = broken
    BY <1>2 DEF ReturnThreadToPool
  <2>2. Append(mThreadPool, t) \in Seq(Threads)
    BY <1>1 DEF TypeOK
  <2>3. Registered' = Registered
    BY <2>1 DEF Registered
  <2>4. Pooling(t)
    BY <2>1 DEF Pooling
  <2> QED BY <2>1, <2>2, <2>3, <2>4 DEF TypeOK, Basic
<1>3. CASE ~Keeps
  <2>1. /\ IF mThreads[luaState[t]] = None
           THEN broken' = "erase" /\ mThreads' = mThreads
           ELSE mThreads' = [mThreads EXCEPT ![luaState[t]] = None] /\ broken' = broken
        /\ live' = live \ {t} /\ mThreadPool' = mThreadPool
    BY <1>3 DEF ReturnThreadToPool
  <2>2. /\ mThreads' \in [States -> Threads \cup {None}]
        /\ \A s \in States : mThreads'[s] = mThreads[s] \/ mThreads'[s] = None
        /\ \A x \in States \ {luaState[t]} : mThreads'[x] = mThreads[x]
        /\ mThreads[luaState[t]] # None => /\ broken' = broken
                                           /\ mThreads'[luaState[t]] = None
    BY <2>1, <1>1 DEF TypeOK
  <2>3. Registered' \subseteq Registered
    BY <2>2 DEF Registered
  <2>4. IsFiniteSet(Registered)'
    BY <2>3, FS_Subset DEF Basic
  <2>5. crowded
    BY <1>3 DEF Keeps, Basic
  <2>6. Deleting(t)
    BY <2>1, <2>2 DEF Deleting
  <2>7. broken' \in {"no", "freed", "erase", "twice", "rerun"}
    BY <2>1 DEF TypeOK
  <2> QED BY <2>1, <2>2, <2>4, <2>5, <2>6, <2>7 DEF TypeOK
<1> QED BY <1>2, <1>3

\* A script may be started on thread t, new or with a coroutine that is dead,
\* for an object that has no script, or for none.
MayCall(o, t) ==
    /\ t \in Threads /\ (t \in live => Dead(t))
    /\ \/ o = NoObject
       \/ /\ o \in Objects
          /\ \A u \in live : Unfinished(u) => owner[script[u]] # o

\* What LuaThread::call does to the stack and the owners.
LEMMA CallFacts ==
    ASSUME TypeOK, Basic, OnStack, Owned, started < MaxScripts,
           NEW o, NEW t, MayCall(o, t), Call(o, t),
           live' = live \/ live' = live \cup {t}, t \in live'
    PROVE  /\ co' \in [Threads -> {"nil", "running", "suspended", "finished", "error"}]
           /\ script' \in [Threads -> Scripts \cup {None}]
           /\ mLuaThread' \in [Objects -> Threads \cup {None}]
           /\ stack' \in Seq(Threads) /\ started' \in 0..MaxScripts
           /\ owner' \in [Scripts -> Objects \cup {NoObject}]
           /\ \A u \in Threads : script'[u] <= started'
           /\ \A u \in live' : Unfinished(u)' => script'[u] # None
           /\ OnStack' /\ Owned'
           /\ co'[t] = "running" /\ \A u \in Threads \ {t} : co'[u] = co[u]
           /\ stack' # <<>>
           /\ Head(stack') = IF stack = <<>> THEN t ELSE Head(stack)
           /\ \A p \in Objects : mLuaThread'[p] = mLuaThread[p] \/ mLuaThread'[p] = t
<1> DEFINE n == started + 1
<1>1. /\ n \in 1..MaxScripts /\ n \in Scripts /\ started \in Nat /\ live \subseteq Threads
      /\ None \notin Threads /\ Scripts = Threads /\ n # None
      /\ n \in 0..MaxScripts
  BY LiveThreads DEF Scripts, None
<1>2. /\ started' = n /\ owner' = [owner EXCEPT ![n] = o]
      /\ co' = [co EXCEPT ![t] = "running"] /\ script' = [script EXCEPT ![t] = n]
      /\ stack' = Append(stack, t)
      /\ mLuaThread' = IF o = NoObject THEN mLuaThread ELSE [mLuaThread EXCEPT ![o] = t]
  BY DEF Call
<1>3. t \in Threads /\ o \in Objects \cup {NoObject}
  BY DEF MayCall
<1>4. t \notin ToSet(stack)
  BY DEF MayCall, OnStack, Dead
<1>5. \A u \in Threads : script[u] <= started /\ script[u] \in Nat
  BY <1>1 DEF Basic, TypeOK, Scripts, None
<1> HIDE DEF n
<1>6. /\ Append(stack, t) \in Seq(Threads) /\ IsInjective(Append(stack, t))
      /\ ToSet(Append(stack, t)) = ToSet(stack) \cup {t}
      /\ Append(stack, t) # <<>>
      /\ Head(Append(stack, t)) = IF stack = <<>> THEN t ELSE Head(stack)
  BY <1>3, <1>4, Pushed DEF TypeOK, OnStack
<1>7. /\ co'[t] = "running" /\ \A u \in Threads \ {t} : co'[u] = co[u]
      /\ script'[t] = n /\ \A u \in Threads \ {t} : script'[u] = script[u]
      /\ owner'[n] = o /\ \A i \in Scripts \ {n} : owner'[i] = owner[i]
  BY <1>1, <1>2, <1>3 DEF TypeOK
<1>8. OnStack'
  <2>1. \A u \in ToSet(stack) : u \in Threads /\ u # t
    BY <1>1, <1>4 DEF OnStack
  <2> QED BY <1>2, <1>6, <1>7, <2>1 DEF OnStack
<1>9. ASSUME NEW u \in Threads PROVE script'[u] <= started'
  <2>1. CASE u = t
    BY <2>1, <1>1, <1>2, <1>7
  <2>2. CASE u # t
    BY <2>2, <1>1, <1>2, <1>5, <1>7 DEF n
  <2> QED BY <2>1, <2>2
<1>10. ASSUME NEW u \in live', Unfinished(u)' PROVE script'[u] # None
  <2>1. CASE u = t
    BY <2>1, <1>1, <1>7
  <2>2. CASE u # t
    <3>1. u \in live /\ u \in Threads /\ Unfinished(u) /\ script'[u] = script[u]
      BY <2>2, <1>1, <1>7, <1>10 DEF Unfinished
    <3> QED BY <3>1 DEF Basic
  <2> QED BY <2>1, <2>2
<1>11. Owned'
  <2> SUFFICES ASSUME NEW u \in live', Unfinished(u)', owner'[script'[u]] \in Objects
               PROVE  mLuaThread'[owner'[script'[u]]] = u
    BY DEF Owned
  <2>1. CASE u = t
    <3>1. owner'[script'[u]] = o /\ o \in Objects
      BY <2>1, <1>7
    <3>2. o # NoObject
      BY <3>1, LuaThreadsAssumption
    <3> QED BY <2>1, <3>1, <3>2, <1>2, <1>3 DEF TypeOK
  <2>2. CASE u # t
    <3>1. u \in live /\ u \in Threads /\ Unfinished(u) /\ script'[u] = script[u]
      BY <2>2, <1>1, <1>7 DEF Unfinished
    <3>2. script[u] # n /\ script[u] \in Scripts
      <4>1. script[u] \in Scripts
        BY <3>1 DEF Basic, TypeOK
      <4>2. script[u] <= started /\ script[u] \in Nat
        BY <3>1, <1>5
      <4> QED BY <4>1, <4>2, <1>1 DEF n
    <3>3. owner'[script'[u]] = owner[script[u]]
      BY <3>1, <3>2, <1>7
    <3>4. mLuaThread[owner[script[u]]] = u
      BY <3>1, <3>3 DEF Owned
    <3>5. o = NoObject \/ owner[script[u]] # o
      BY <3>1 DEF MayCall
    <3> QED BY <3>3, <3>4, <3>5, <1>2, <1>3 DEF TypeOK
  <2> QED BY <2>1, <2>2
<1>12. /\ co' \in [Threads -> {"nil", "running", "suspended", "finished", "error"}]
       /\ script' \in [Threads -> Scripts \cup {None}]
       /\ mLuaThread' \in [Objects -> Threads \cup {None}]
       /\ owner' \in [Scripts -> Objects \cup {NoObject}]
  BY <1>1, <1>2, <1>3 DEF TypeOK
<1>13. \A p \in Objects : mLuaThread'[p] = mLuaThread[p] \/ mLuaThread'[p] = t
  BY <1>2, <1>3 DEF TypeOK
<1> QED BY <1>1, <1>2, <1>6, <1>7, <1>8, <1>9, <1>10, <1>11, <1>12, <1>13

----------------------------------------------------------------------------
(* Scripts start.                                                          *)

\* Who may have a script started for it.
MayOwn(o) ==
    \/ o = NoObject
    \/ o \in Objects /\ \A u \in live : Unfinished(u) => owner[script[u]] # o

\* What Spawn leaves alone, and its callers too.
SpawnFrame ==
    /\ condition' = condition /\ mYieldedThreads' = mYieldedThreads
    /\ updating' = updating /\ todo' = todo
    /\ closed' = closed /\ stopped' = stopped

\* SpawnThread takes a thread from the pool.
LEMMA ReuseSound ==
    ASSUME IInv, MayStart, SpawnFrame, NEW o, MayOwn(o), mThreadPool # <<>>,
           NEW t, t = Last(mThreadPool), mThreadPool' = Front(mThreadPool),
           t \in live, Dead(t), Call(o, t), broken' = broken, live' = live,
           made' = made, luaState' = luaState, mThreads' = mThreads, crowded' = crowded
    PROVE  IInv'
<1>1. /\ TypeOK /\ Basic /\ OnStack /\ Owned /\ SleepersAreKnown
      /\ stopped = {} => Uncancelled
  BY DEF IInv, Always
<1>2. /\ live \subseteq Threads /\ t \in Threads /\ made \in Nat /\ started \in Nat
  BY <1>1, LiveThreads
<1>3. MayCall(o, t)
  BY <1>2 DEF MayCall, MayOwn
<1>4. started < MaxScripts /\ started' = started + 1
  BY DEF MayStart, Call
<1>5. /\ co' \in [Threads -> {"nil", "running", "suspended", "finished", "error"}]
      /\ script' \in [Threads -> Scripts \cup {None}]
      /\ mLuaThread' \in [Objects -> Threads \cup {None}]
      /\ stack' \in Seq(Threads) /\ started' \in 0..MaxScripts
      /\ owner' \in [Scripts -> Objects \cup {NoObject}]
      /\ \A u \in Threads : script'[u] <= started'
      /\ \A u \in live' : Unfinished(u)' => script'[u] # None
      /\ OnStack' /\ Owned'
      /\ co'[t] = "running" /\ \A u \in Threads \ {t} : co'[u] = co[u]
      /\ stack' # <<>>
      /\ Head(stack') = IF stack = <<>> THEN t ELSE Head(stack)
      /\ \A p \in Objects : mLuaThread'[p] = mLuaThread[p] \/ mLuaThread'[p] = t
  BY <1>1, <1>3, <1>4, CallFacts
<1>6. Front(mThreadPool) \in Seq(Threads)
  <2>1. mThreadPool \in Seq(Threads) /\ Len(mThreadPool) \in Nat /\ Len(mThreadPool) > 0
    BY <1>1 DEF TypeOK
  <2>2. \A k \in 1..Len(mThreadPool) - 1 : mThreadPool[k] \in Threads
    BY <2>1
  <2> QED BY <2>1, <2>2, SubSeqProperties DEF Front
<1>7. TypeOK'
  BY <1>1, <1>5, <1>6 DEF TypeOK, SpawnFrame
<1>8. Basic'
  <2>1. made' <= started'
    BY <1>1, <1>2, <1>4 DEF Basic
  <2>2. Registered' = Registered
    BY DEF Registered
  <2> QED BY <1>1, <1>5, <2>1, <2>2 DEF Basic
<1>9. SleepersAreKnown'
  BY <1>1, <1>2, <1>5 DEF SleepersAreKnown, SpawnFrame
<1>10. ASSUME stopped = {} PROVE Uncancelled'
  <2>1. Registration /\ Asleep /\ InPool /\ Intact
    BY <1>1, <1>10 DEF Uncancelled
  <2>2. /\ IsInjective(Front(mThreadPool)) /\ t \in ToSet(mThreadPool)
        /\ ToSet(Front(mThreadPool)) = ToSet(mThreadPool) \ {t}
    BY <1>1, <2>1, Popped DEF TypeOK, InPool
  <2>3. co[t] = "finished"
    BY <2>1, <2>2 DEF InPool, Pooled
  <2>4. Registration'
    BY <1>2, <1>5, <2>1 DEF Registration
  <2>5. InPool'
    BY <1>2, <1>5, <2>1, <2>2 DEF InPool, Pooled
  <2>6. updating => stack # <<>>
    BY DEF MayStart
  <2>7. \A u \in mYieldedThreads : u \in live /\ u # t /\ co'[u] = co[u]
    BY <1>2, <1>5, <2>1, <2>3 DEF Asleep
  <2>8. Asleep'
    BY <1>5, <2>1, <2>6, <2>7 DEF Asleep, SpawnFrame
  <2>9. Intact'
    BY <1>5, <2>1 DEF Intact, SpawnFrame
  <2> QED BY <2>4, <2>5, <2>8, <2>9 DEF Uncancelled
<1> QED BY <1>5, <1>7, <1>8, <1>9, <1>10 DEF IInv, Always, SpawnFrame

\* SpawnThread makes a new thread.
LEMMA NewSound ==
    ASSUME IInv, MayStart, SpawnFrame, NEW o, MayOwn(o), mThreadPool = <<>>,
           NEW m, m = made + 1, made' = m, live' = live \cup {m}, NEW s \in FreshStates,
           luaState' = [luaState EXCEPT ![m] = s],
           mThreads' = IF mThreads[s] = None THEN [mThreads EXCEPT ![s] = m] ELSE mThreads,
           crowded' = (crowded \/ Cardinality(Registered) >= Limit),
           Call(o, m), mThreadPool' = mThreadPool, broken' = broken
    PROVE  IInv'
<1>1. /\ TypeOK /\ Basic /\ OnStack /\ Owned /\ SleepersAreKnown
      /\ stopped = {} => Uncancelled
  BY DEF IInv, Always
<1>2. /\ live \subseteq Threads /\ made \in Nat /\ started \in Nat /\ MaxScripts \in Nat
      /\ None \notin Threads
  BY <1>1, LiveThreads
<1>3. started < MaxScripts /\ started' = started + 1
  BY DEF MayStart, Call
<1>4. /\ m \in Threads /\ m # None /\ m \notin live /\ m \in 0..MaxScripts
      /\ live' \subseteq 1..m
  <2>1. made <= started /\ live \subseteq 1..made
    BY <1>1 DEF Basic, TypeOK
  <2> QED BY <1>2, <1>3, <2>1 DEF Threads, None
<1>5. MayCall(o, m)
  BY <1>4 DEF MayCall, MayOwn
<1>6. /\ co' \in [Threads -> {"nil", "running", "suspended", "finished", "error"}]
      /\ script' \in [Threads -> Scripts \cup {None}]
      /\ mLuaThread' \in [Objects -> Threads \cup {None}]
      /\ stack' \in Seq(Threads) /\ started' \in 0..MaxScripts
      /\ owner' \in [Scripts -> Objects \cup {NoObject}]
      /\ \A u \in Threads : script'[u] <= started'
      /\ \A u \in live' : Unfinished(u)' => script'[u] # None
      /\ OnStack' /\ Owned'
      /\ co'[m] = "running" /\ \A u \in Threads \ {m} : co'[u] = co[u]
      /\ stack' # <<>>
      /\ Head(stack') = IF stack = <<>> THEN m ELSE Head(stack)
      /\ \A p \in Objects : mLuaThread'[p] = mLuaThread[p] \/ mLuaThread'[p] = m
  BY <1>1, <1>3, <1>5, CallFacts
<1>7. /\ s \in States /\ \A u \in live : luaState[u] # s
      /\ luaState' \in [Threads -> States \cup {None}]
      /\ luaState'[m] = s /\ \A u \in live : luaState'[u] = luaState[u]
      /\ mThreads' \in [States -> Threads \cup {None}]
      /\ \A x \in States \ {s} : mThreads'[x] = mThreads[x]
      /\ mThreads'[s] = IF mThreads[s] = None THEN m ELSE mThreads[s]
  BY <1>1, <1>2, <1>4 DEF FreshStates, TypeOK
<1>8. TypeOK'
  BY <1>1, <1>4, <1>6, <1>7 DEF TypeOK, SpawnFrame
<1>9. Basic'
  <2>1. made' <= started'
    BY <1>1, <1>2, <1>3 DEF Basic
  <2>2. Registered' \subseteq Registered \cup {s}
    BY <1>7 DEF Registered
  <2>3. /\ IsFiniteSet(Registered \cup {s}) /\ Cardinality(Registered) \in Nat
        /\ Cardinality(Registered \cup {s}) \in Nat
        /\ Cardinality(Registered \cup {s}) <= Cardinality(Registered) + 1
    <3>1. IsFiniteSet(Registered)
      BY <1>1 DEF Basic
    <3>2. /\ IsFiniteSet(Registered \cup {s})
          /\ Cardinality(Registered \cup {s}) =
                IF s \in Registered THEN Cardinality(Registered) ELSE Cardinality(Registered) + 1
      BY <3>1, FS_AddElement
    <3>3. Cardinality(Registered) \in Nat
      BY <3>1, FS_CardinalityType
    <3> QED BY <3>2, <3>3
  <2>4. PICK R : R = Registered'
    OBVIOUS
  <2>5. /\ IsFiniteSet(R) /\ Cardinality(R) \in Nat
        /\ Cardinality(R) <= Cardinality(Registered \cup {s})
    BY <2>2, <2>3, <2>4, FS_Subset, FS_CardinalityType
  <2>6. ASSUME ~crowded' PROVE Cardinality(R) <= Limit
    <3>1. ~(Cardinality(Registered) >= Limit)
      BY <2>6
    <3>2. PICK i \in Nat, j \in Nat, k \in Nat :
             i = Cardinality(Registered) /\ j = Cardinality(Registered \cup {s})
             /\ k = Cardinality(R)
      BY <2>3, <2>5
    <3>3. i < Limit /\ j <= i + 1 /\ k <= j /\ Limit \in Nat
      BY <2>3, <2>5, <3>1, <3>2, LuaThreadsAssumption
    <3>4. k <= Limit
      BY <3>3
    <3> QED BY <3>2, <3>4
  <2>7. \A u \in live' : luaState'[u] \in States
    BY <1>1, <1>7 DEF Basic
  <2> QED BY <1>6, <2>1, <2>4, <2>5, <2>6, <2>7 DEF Basic
<1>10. SleepersAreKnown'
  <2> SUFFICES ASSUME NEW u \in live', co'[u] = "suspended"
               PROVE  u \in mYieldedThreads \/ mThreads'[luaState'[u]] # u
    BY DEF SleepersAreKnown, SpawnFrame
  <2>1. u \in live /\ u # m /\ u \in Threads /\ co[u] = "suspended"
    BY <1>2, <1>4, <1>6
  <2>2. luaState[u] \in States /\ luaState[u] # s /\ luaState'[u] = luaState[u]
    BY <1>1, <1>7, <2>1 DEF Basic
  <2>3. mThreads'[luaState'[u]] = mThreads[luaState[u]]
    BY <1>7, <2>2
  <2> QED BY <1>1, <2>1, <2>3 DEF SleepersAreKnown
<1>11. ASSUME stopped = {} PROVE Uncancelled'
  <2>1. Registration /\ Asleep /\ InPool /\ Intact
    BY <1>1, <1>11 DEF Uncancelled
  <2>2. mThreads[s] = None /\ mThreads'[s] = m
    BY <1>7, <2>1 DEF Registration
  <2>3. Registration'
    <3>1. ASSUME NEW u \in live' PROVE mThreads'[luaState'[u]] = u /\ co'[u] # "nil"
      <4>1. CASE u = m
        BY <4>1, <1>6, <1>7, <2>2
      <4>2. CASE u # m
        <5>1. u \in live /\ u \in Threads /\ luaState[u] \in States
          BY <4>2, <1>1, <1>2 DEF Basic
        <5> QED BY <4>2, <5>1, <1>6, <1>7, <2>1 DEF Registration
      <4> QED BY <4>1, <4>2
    <3>2. ASSUME NEW x \in States, mThreads'[x] # None
          PROVE  mThreads'[x] \in live' /\ luaState'[mThreads'[x]] = x
      <4>1. CASE x = s
        BY <4>1, <1>7, <2>2
      <4>2. CASE x # s
        <5>1. mThreads'[x] = mThreads[x] /\ mThreads[x] # None
          BY <4>2, <3>2, <1>7
        <5>2. mThreads[x] \in live /\ luaState[mThreads[x]] = x
          BY <5>1, <2>1 DEF Registration
        <5> QED BY <5>1, <5>2, <1>7
      <4> QED BY <4>1, <4>2
    <3> QED BY <3>1, <3>2 DEF Registration
  <2>4. InPool'
    <3>1. Pooled = {} /\ Pooled' = {}
      BY DEF Pooled, ToSet
    <3> QED BY <3>1, <2>1 DEF InPool
  <2>5. updating => stack # <<>>
    BY DEF MayStart
  <2>6. \A u \in mYieldedThreads : u \in live /\ u # m /\ co'[u] = co[u]
    BY <1>2, <1>4, <1>6, <2>1 DEF Asleep
  <2>7. Asleep'
    BY <1>6, <2>1, <2>5, <2>6 DEF Asleep, SpawnFrame
  <2>8. Intact'
    BY <1>6, <2>1 DEF Intact, SpawnFrame, MayStart, Running
  <2> QED BY <2>3, <2>4, <2>7, <2>8 DEF Uncancelled
<1> QED BY <1>6, <1>8, <1>9, <1>10, <1>11 DEF IInv, Always, SpawnFrame

\* Undefined behaviour is met and nothing else happens.
LEMMA BreakSound ==
    ASSUME IInv, broken' \in {"no", "freed", "erase", "twice", "rerun"},
           mThreadPool' \in Seq(Threads),
           stopped = {} => crowded /\ mThreadPool' = mThreadPool,
           UNCHANGED <<threadVars, mThreads, mYieldedThreads, updateVars, scriptVars,
                       historyVars, mLuaThread, stack, closed>>
    PROVE  IInv'
<1> USE DEF threadVars, updateVars, scriptVars, historyVars
<1>1. Always'
  <2>1. TypeOK'
    BY DEF IInv, Always, TypeOK
  <2>2. Basic' /\ OnStack' /\ Owned' /\ SleepersAreKnown'
    BY DEF IInv, Always, Basic, Registered, OnStack, Owned, SleepersAreKnown, Unfinished
  <2> QED BY <2>1, <2>2 DEF Always
<1>2. ASSUME stopped = {} PROVE Uncancelled'
  BY <1>2 DEF IInv, Uncancelled, Registration, Asleep, InPool, Pooled, Intact
<1> QED BY <1>1, <1>2 DEF IInv

\* SpawnThread, for who may have a script started.
LEMMA SpawnSound ==
    ASSUME IInv, MayStart, SpawnFrame, NEW o, MayOwn(o), Spawn(o)
    PROVE  IInv'
<1>1. CASE mThreadPool # <<>>
  <2>1. PICK t : t = Last(mThreadPool)
    OBVIOUS
  <2>2. /\ mThreadPool' = Front(mThreadPool)
        /\ live' = live /\ made' = made /\ luaState' = luaState
        /\ mThreads' = mThreads /\ crowded' = crowded
        /\ IF t \in live /\ Dead(t)
           THEN Call(o, t) /\ broken' = broken
           ELSE /\ broken' = IF t \in live THEN "twice" ELSE "freed"
                /\ UNCHANGED <<scriptVars, co, script, stack, mLuaThread>>
    BY <1>1, <2>1 DEF Spawn
  <2>3. CASE t \in live /\ Dead(t)
    BY <1>1, <2>1, <2>2, <2>3, ReuseSound
  <2>4. CASE ~(t \in live /\ Dead(t))
    <3>1. mThreadPool \in Seq(Threads)
      BY DEF IInv, Always, TypeOK
    <3>2. stopped # {}
      <4>1. ASSUME stopped = {} PROVE FALSE
        <5>1. InPool
          BY <4>1 DEF IInv, Uncancelled
        <5>2. t \in Pooled
          BY <5>1, <3>1, <1>1, <2>1, Popped DEF InPool, Pooled
        <5> QED BY <5>1, <5>2, <2>4 DEF InPool, Dead
      <4> QED BY <4>1
    <3>3. Front(mThreadPool) \in Seq(Threads)
      <4>1. Len(mThreadPool) \in Nat /\ Len(mThreadPool) > 0
        BY <3>1, <1>1
      <4>2. \A k \in 1..Len(mThreadPool) - 1 : mThreadPool[k] \in Threads
        BY <3>1, <4>1
      <4> QED BY <4>1, <4>2, SubSeqProperties DEF Front
    <3> QED BY <2>2, <2>4, <3>2, <3>3, BreakSound
         DEF SpawnFrame, threadVars, updateVars, scriptVars, historyVars
  <2> QED BY <2>3, <2>4
<1>2. CASE mThreadPool = <<>>
  <2>1. PICK m : m = made + 1
    OBVIOUS
  <2>2. made' = m /\ live' = live \cup {m} /\ Call(o, m)
        /\ crowded' = (crowded \/ Cardinality(Registered) >= Limit)
        /\ mThreadPool' = mThreadPool /\ broken' = broken
    BY <1>2, <2>1 DEF Spawn
  <2>3. PICK s \in FreshStates :
           /\ luaState' = [luaState EXCEPT ![m] = s]
           /\ mThreads' = IF mThreads[s] = None THEN [mThreads EXCEPT ![s] = m] ELSE mThreads
    BY <1>2, <2>1, <2>2 DEF Spawn
  <2> QED BY <1>2, <2>1, <2>2, <2>3, NewSound
<1> QED BY <1>1, <1>2

LEMMA CallCoroutineSound == IInv /\ CallCoroutine => IInv'
<1> SUFFICES ASSUME IInv, CallCoroutine PROVE IInv'
  OBVIOUS
<1>1. MayStart /\ Spawn(NoObject) /\ SpawnFrame /\ MayOwn(NoObject)
  BY DEF CallCoroutine, SpawnFrame, updateVars, MayOwn
<1> QED BY <1>1, SpawnSound

\* The thread that an object knows is its script's, so Tick's test of it lets no
\* second script start.
LEMMA TickSound ==
    ASSUME IInv, NEW o \in Objects, Tick(o)
    PROVE  IInv'
<1>1. TypeOK /\ Basic /\ Owned
  BY DEF IInv, Always
<1>2. CASE mLuaThread[o] # None /\ mLuaThread[o] \notin live
  <2>1. stopped = {} => crowded
    BY <1>2 DEF IInv, Uncancelled, Intact, Tick, MayStart, Running
  <2> QED BY <1>1, <1>2, <2>1, BreakSound
       DEF Tick, TypeOK, threadVars, updateVars, scriptVars, historyVars
<1>3. CASE ~(mLuaThread[o] # None /\ mLuaThread[o] \notin live)
  <2>1. MayStart /\ MayTick(o) /\ Spawn(o) /\ SpawnFrame
    BY <1>3 DEF Tick, SpawnFrame, updateVars
  <2>2. ASSUME NEW u \in live, Unfinished(u), owner[script[u]] = o PROVE FALSE
    <3>1. mLuaThread[o] = u /\ u # None
      BY <1>1, <2>2, LiveThreads DEF Owned
    <3> QED BY <3>1, <2>1, <2>2 DEF MayTick, Dead, Unfinished
  <2> QED BY <2>1, <2>2, SpawnSound DEF MayOwn
<1> QED BY <1>2, <1>3

----------------------------------------------------------------------------
(* The script on top of the stack leaves it.                               *)

\* What all of these do.
LEMMA LeaveFacts ==
    ASSUME IInv, stack # <<>>, NEW x \in {"suspended", "finished", "error"},
           co' = [co EXCEPT ![Top] = x], stack' = Front(stack),
           live' \subseteq live, live \ {Top} \subseteq live',
           UNCHANGED <<script, owner, mLuaThread>>
    PROVE  /\ Top \in live /\ Top \in Threads /\ co[Top] = "running"
           /\ co' \in [Threads -> {"nil", "running", "suspended", "finished", "error"}]
           /\ stack' \in Seq(Threads) /\ OnStack' /\ Owned'
           /\ co'[Top] = x /\ \A u \in Threads \ {Top} : co'[u] = co[u]
           /\ \A u \in live' : Unfinished(u)' => Unfinished(u)
           /\ Len(stack) = 1 <=> Top = Head(stack)
           /\ Top # Head(stack) => stack' # <<>>
           /\ stack' # <<>> => Head(stack') = Head(stack) /\ Top # Head(stack)
<1>1. TypeOK /\ OnStack /\ Owned /\ live \subseteq Threads
  BY LiveThreads DEF IInv, Always
<1>2. /\ Front(stack) \in Seq(Threads) /\ IsInjective(Front(stack))
      /\ Top \in ToSet(stack) /\ ToSet(Front(stack)) = ToSet(stack) \ {Top}
      /\ Front(stack) # <<>> => Head(Front(stack)) = Head(stack)
      /\ Len(stack) = 1 <=> Top = Head(stack)
      /\ Top # Head(stack) => Front(stack) # <<>>
  BY <1>1, Popped DEF TypeOK, OnStack, Top
<1>3. PICK t : t = Top
  OBVIOUS
<1>4. t \in live /\ t \in Threads /\ co[t] = "running"
  BY <1>1, <1>2, <1>3 DEF OnStack
<1>5. /\ co' \in [Threads -> {"nil", "running", "suspended", "finished", "error"}]
      /\ co'[t] = x /\ \A u \in Threads \ {t} : co'[u] = co[u]
  BY <1>1, <1>3, <1>4 DEF TypeOK
<1>6. OnStack'
  BY <1>1, <1>2, <1>3, <1>5 DEF OnStack
<1>7. \A u \in live' : Unfinished(u)' => Unfinished(u)
  BY <1>1, <1>4, <1>5 DEF Unfinished
<1>8. Owned'
  BY <1>1, <1>7 DEF Owned
<1>9. stack' # <<>> => Head(stack') = Head(stack) /\ t # Head(stack)
  <2>1. CASE t = Head(stack)
    <3>1. ToSet(Front(stack)) = ToSet(stack) \ {Head(stack)}
      BY <1>2, <1>3, <2>1
    <3>2. ASSUME Front(stack) # <<>> PROVE FALSE
      <4>1. Head(Front(stack)) \in ToSet(Front(stack))
        BY <1>2, <3>2, Popped
      <4> QED BY <4>1, <3>1, <3>2, <1>2
    <3> QED BY <3>2
  <2>2. CASE t # Head(stack)
    BY <2>2, <1>2
  <2> QED BY <2>1, <2>2
<1> QED BY <1>2, <1>3, <1>4, <1>5, <1>6, <1>7, <1>8, <1>9

\* Basic speaks of nothing that leaving the stack changes, but for the pool.
LEMMA LeaveBasic ==
    ASSUME Basic, IsFiniteSet(Registered)', ~crowded => Cardinality(Registered)' <= Limit,
           live' \subseteq live, \A u \in live' : Unfinished(u)' => Unfinished(u),
           UNCHANGED <<made, luaState, script, started, crowded>>
    PROVE  Basic'
<1>1. made' <= started' /\ (\A t \in Threads : script'[t] <= started')
      /\ \A t \in live' : luaState'[t] \in States
  BY DEF Basic
<1>2. \A t \in live' : Unfinished(t)' => script'[t] # None
  BY DEF Basic
<1> QED BY <1>1, <1>2 DEF Basic

\* A script yields: its thread is among the sleepers, or its state is another's.
LEMMA SleepSound == IInv /\ Sleep => IInv'
<1> SUFFICES ASSUME IInv, Sleep PROVE IInv'
  OBVIOUS
<1>1. /\ TypeOK /\ Basic /\ OnStack /\ Owned /\ SleepersAreKnown
      /\ stopped = {} => Uncancelled
  BY DEF IInv, Always
<1>2. PICK p : p = Top
  OBVIOUS
<1>3. PICK t : t = mThreads[luaState[p]]
  OBVIOUS
<1>4. /\ stack # <<>> /\ co' = [co EXCEPT ![p] = "suspended"] /\ stack' = Front(stack)
      /\ live' = live /\ made' = made /\ luaState' = luaState /\ script' = script
      /\ mThreads' = mThreads /\ mThreadPool' = mThreadPool /\ updating' = updating
      /\ closed' = closed /\ started' = started /\ owner' = owner
      /\ stopped' = stopped /\ crowded' = crowded /\ mLuaThread' = mLuaThread
      /\ broken = "no" /\ ~closed
  BY <1>2 DEF Sleep, scriptVars, historyVars, Running
<1>5. IF t = None
      THEN UNCHANGED <<condition, mYieldedThreads, todo, broken>>
      ELSE IF t \notin live
      THEN broken' = "freed" /\ UNCHANGED <<condition, mYieldedThreads, todo>>
      ELSE /\ \/ condition' = [condition EXCEPT ![t] = script[p]]
              \/ UNCHANGED condition
           /\ YieldThread(t)
           /\ UNCHANGED broken
  BY <1>2, <1>3 DEF Sleep, GetThread
<1>6. /\ p \in live /\ p \in Threads /\ co[p] = "running"
      /\ co' \in [Threads -> {"nil", "running", "suspended", "finished", "error"}]
      /\ stack' \in Seq(Threads) /\ OnStack' /\ Owned'
      /\ co'[p] = "suspended" /\ \A u \in Threads \ {p} : co'[u] = co[u]
      /\ \A u \in live' : Unfinished(u)' => Unfinished(u)
      /\ p # Head(stack) => stack' # <<>>
      /\ stack' # <<>> => Head(stack') = Head(stack) /\ p # Head(stack)
  BY <1>2, <1>4, LeaveFacts
<1>7. live \subseteq Threads /\ None \notin Threads /\ Scripts = Threads
  BY <1>1, LiveThreads
<1>8. /\ mYieldedThreads' = mYieldedThreads
         \/ (t \in live /\ mYieldedThreads' = mYieldedThreads \cup {t})
      /\ todo' = todo \/ (updating /\ todo' \subseteq mYieldedThreads' \ {Head(stack)})
      /\ condition' \in [Threads -> Scripts \cup {None}]
      /\ broken' \in {"no", "freed", "erase", "twice", "rerun"}
      /\ t \in live => t \in mYieldedThreads' /\ broken' = broken
  <2>1. CASE t = None
    BY <2>1, <1>1, <1>5, <1>7 DEF TypeOK
  <2>2. CASE t # None /\ t \notin live
    BY <2>2, <1>1, <1>5 DEF TypeOK
  <2>3. CASE t # None /\ t \in live
    <3>1. YieldThread(t) /\ broken' = broken
      BY <2>3, <1>5
    <3>2. condition' \in [Threads -> Scripts \cup {None}]
      <4>1. script[p] \in Scripts \cup {None} /\ t \in Threads
        BY <1>1, <1>6, <1>7, <2>3 DEF TypeOK
      <4> QED BY <4>1, <2>3, <1>1, <1>5 DEF TypeOK
    <3> QED BY <2>3, <3>1, <3>2, <1>1 DEF YieldThread, TypeOK
  <2> QED BY <2>1, <2>2, <2>3
<1>9. TypeOK'
  <2>1. mYieldedThreads' \subseteq Threads /\ todo' \subseteq Threads
    BY <1>1, <1>7, <1>8 DEF TypeOK
  <2> QED BY <1>1, <1>4, <1>6, <1>8, <2>1 DEF TypeOK
<1>10. Basic'
  <2>1. Registered' = Registered
    BY <1>4 DEF Registered
  <2> QED BY <2>1, <1>1, <1>4, <1>6, LeaveBasic DEF Basic
<1>11. SleepersAreKnown'
  <2> SUFFICES ASSUME NEW u \in live, co'[u] = "suspended"
               PROVE  u \in mYieldedThreads' \/ mThreads[luaState[u]] # u
    BY <1>4 DEF SleepersAreKnown
  <2>1. CASE u = p
    <3>1. t = p => p \in mYieldedThreads'
      BY <1>6, <1>8
    <3> QED BY <2>1, <3>1, <1>3
  <2>2. CASE u # p
    <3>1. co[u] = "suspended"
      BY <2>2, <1>6, <1>7
    <3> QED BY <3>1, <1>1, <1>8 DEF SleepersAreKnown
  <2> QED BY <2>1, <2>2
<1>12. ASSUME stopped = {} PROVE Uncancelled'
  <2>1. Registration /\ Asleep /\ InPool /\ Intact
    BY <1>1, <1>12 DEF Uncancelled
  <2>2. t = p
    BY <2>1, <1>3, <1>6 DEF Registration
  <2>3. /\ mYieldedThreads' = mYieldedThreads \cup {p} /\ broken' = broken
        /\ IF updating /\ p \notin mYieldedThreads
           THEN todo' \in SUBSET (mYieldedThreads' \ {Head(stack)})
           ELSE todo' = todo
    BY <2>2, <1>5, <1>6, <1>7 DEF YieldThread
  <2>4. Registration'
    BY <2>1, <1>4, <1>6, <1>7 DEF Registration
  <2>5. InPool'
    <3>1. \A u \in Pooled : u \in live /\ co[u] = "finished" /\ u # p
      BY <2>1, <1>6 DEF InPool
    <3>2. \A u \in Pooled : co'[u] = "finished"
      BY <3>1, <1>6, <1>7
    <3> QED BY <3>1, <3>2, <2>1, <1>4 DEF InPool, Pooled
  <2>6. Asleep'
    <3>1. ASSUME NEW u \in mYieldedThreads'
          PROVE  /\ u \in live
                 /\ \/ co'[u] \in {"suspended", "error"}
                    \/ co'[u] = "running" /\ updating /\ stack' # <<>> /\ u = Head(stack')
      <4>1. CASE u = p
        BY <4>1, <1>6
      <4>2. CASE u # p
        <5>1. u \in mYieldedThreads /\ u \in live /\ co'[u] = co[u]
          BY <4>2, <3>1, <2>1, <2>3, <1>6, <1>7 DEF Asleep
        <5>2. u = Head(stack) => stack' # <<>> /\ Head(stack') = Head(stack)
          BY <4>2, <1>6
        <5> QED BY <5>1, <5>2, <2>1 DEF Asleep
      <4> QED BY <4>1, <4>2
    <3>2. todo' \subseteq mYieldedThreads' /\ (~updating => todo' = {})
      BY <2>1, <2>3 DEF Asleep
    <3>3. updating /\ stack' # <<>> => Head(stack') \notin todo'
      BY <2>1, <2>3, <1>4, <1>6 DEF Asleep
    <3> QED BY <3>1, <3>2, <3>3, <1>4 DEF Asleep
  <2>7. Intact'
    BY <2>1, <2>3, <1>4 DEF Intact
  <2> QED BY <2>4, <2>5, <2>6, <2>7 DEF Uncancelled
<1> QED BY <1>4, <1>6, <1>9, <1>10, <1>11, <1>12 DEF IInv, Always

\* A script fails: its thread stays where it is.
LEMMA FailSound == IInv /\ Fail => IInv'
<1> SUFFICES ASSUME IInv, Fail PROVE IInv'
  OBVIOUS
<1>1. /\ TypeOK /\ Basic /\ OnStack /\ Owned /\ SleepersAreKnown
      /\ stopped = {} => Uncancelled
  BY DEF IInv, Always
<1>2. PICK p : p = Top
  OBVIOUS
<1>3. /\ stack # <<>> /\ co' = [co EXCEPT ![p] = "error"] /\ stack' = Front(stack)
      /\ UNCHANGED <<live, made, luaState, script, condition, mThreads, mThreadPool,
                     mYieldedThreads, updating, todo, closed, started, owner,
                     stopped, crowded, mLuaThread, broken>>
  BY <1>2 DEF Fail, luaVars, updateVars, scriptVars, historyVars
<1>4. /\ p \in live /\ p \in Threads /\ co[p] = "running"
      /\ co' \in [Threads -> {"nil", "running", "suspended", "finished", "error"}]
      /\ stack' \in Seq(Threads) /\ OnStack' /\ Owned'
      /\ co'[p] = "error" /\ \A u \in Threads \ {p} : co'[u] = co[u]
      /\ \A u \in live' : Unfinished(u)' => Unfinished(u)
      /\ p # Head(stack) => stack' # <<>>
      /\ stack' # <<>> => Head(stack') = Head(stack) /\ p # Head(stack)
  BY <1>2, <1>3, LeaveFacts
<1>5. live \subseteq Threads
  BY <1>1, LiveThreads
<1>6. TypeOK'
  BY <1>1, <1>3, <1>4 DEF TypeOK
<1>7. Basic'
  <2>1. Registered' = Registered
    BY <1>3 DEF Registered
  <2> QED BY <2>1, <1>1, <1>3, <1>4, LeaveBasic DEF Basic
<1>8. SleepersAreKnown'
  BY <1>1, <1>3, <1>4, <1>5 DEF SleepersAreKnown
<1>9. ASSUME stopped = {} PROVE Uncancelled'
  <2>1. Registration /\ Asleep /\ InPool /\ Intact
    BY <1>1, <1>9 DEF Uncancelled
  <2>2. Registration'
    BY <2>1, <1>3, <1>4, <1>5 DEF Registration
  <2>3. InPool'
    <3>1. \A u \in Pooled : u \in live /\ co'[u] = "finished"
      BY <2>1, <1>4, <1>5 DEF InPool
    <3> QED BY <3>1, <2>1, <1>3 DEF InPool, Pooled
  <2>4. Asleep'
    <3>1. ASSUME NEW u \in mYieldedThreads
          PROVE  /\ u \in live
                 /\ \/ co'[u] \in {"suspended", "error"}
                    \/ co'[u] = "running" /\ updating /\ stack' # <<>> /\ u = Head(stack')
      BY <2>1, <1>4, <1>5 DEF Asleep
    <3>2. updating /\ stack' # <<>> => Head(stack') \notin todo
      BY <2>1, <1>3, <1>4 DEF Asleep
    <3> QED BY <3>1, <3>2, <2>1, <1>3 DEF Asleep
  <2>5. Intact'
    BY <2>1, <1>3 DEF Intact
  <2> QED BY <2>2, <2>3, <2>4, <2>5 DEF Uncancelled
<1> QED BY <1>3, <1>4, <1>6, <1>7, <1>8, <1>9 DEF IInv, Always

\* Sleepers stay known when one thread is returned.
LEMMA ReturnKnown ==
    ASSUME TypeOK, Basic, SleepersAreKnown, NEW p \in live,
           live' \subseteq live, luaState' = luaState,
           \A s \in States : mThreads'[s] = mThreads[s] \/ mThreads'[s] = None,
           \A u \in live' : co'[u] = "suspended" => u # p /\ co[u] = "suspended",
           mYieldedThreads' = mYieldedThreads \/ mYieldedThreads' = mYieldedThreads \ {p}
    PROVE  SleepersAreKnown'
<1> SUFFICES ASSUME NEW u \in live', co'[u] = "suspended"
             PROVE  u \in mYieldedThreads' \/ mThreads'[luaState[u]] # u
  BY DEF SleepersAreKnown
<1>1. u \in live /\ u # p /\ co[u] = "suspended" /\ luaState[u] \in States /\ u # None
  BY LiveThreads DEF Basic
<1>2. u \in mYieldedThreads \/ mThreads[luaState[u]] # u
  BY <1>1 DEF SleepersAreKnown
<1> QED BY <1>1, <1>2

\* Registration when one thread is returned.
LEMMA ReturnRegistration ==
    ASSUME TypeOK, Basic, Registration, NEW p \in live, luaState' = luaState,
           \A u \in live' : co'[u] # "nil",
           \/ live' = live /\ mThreads' = mThreads
           \/ /\ live' = live \ {p} /\ mThreads'[luaState[p]] = None
              /\ \A x \in States \ {luaState[p]} : mThreads'[x] = mThreads[x]
    PROVE  Registration'
<1>1. CASE live' = live /\ mThreads' = mThreads
  BY <1>1 DEF Registration
<1>2. CASE /\ live' = live \ {p} /\ mThreads'[luaState[p]] = None
           /\ \A x \in States \ {luaState[p]} : mThreads'[x] = mThreads[x]
  <2>1. ASSUME NEW u \in live' PROVE mThreads'[luaState[u]] = u
    <3>1. u \in live /\ u # p /\ luaState[u] \in States /\ luaState[u] # luaState[p]
      BY <1>2, <2>1 DEF Registration, Basic
    <3> QED BY <3>1, <1>2 DEF Registration
  <2>2. ASSUME NEW x \in States, mThreads'[x] # None
        PROVE  mThreads'[x] \in live' /\ luaState[mThreads'[x]] = x
    <3>1. x # luaState[p] /\ mThreads'[x] = mThreads[x]
      BY <1>2, <2>2
    <3>2. mThreads[x] \in live /\ luaState[mThreads[x]] = x
      BY <2>2, <3>1 DEF Registration
    <3> QED BY <3>1, <3>2, <1>2
  <2> QED BY <2>1, <2>2 DEF Registration
<1> QED BY <1>1, <1>2

\* A script returns: nothing that is asleep goes to the pool.
LEMMA FinishSound == IInv /\ Finish => IInv'
<1> SUFFICES ASSUME IInv, Finish PROVE IInv'
  OBVIOUS
<1>1. /\ TypeOK /\ Basic /\ OnStack /\ Owned /\ SleepersAreKnown
      /\ stopped = {} => Uncancelled
  BY DEF IInv, Always
<1>2. PICK p : p = Top
  OBVIOUS
<1>3. /\ stack # <<>> /\ co' = [co EXCEPT ![p] = "finished"] /\ stack' = Front(stack)
      /\ mYieldedThreads' = IF Resumed THEN mYieldedThreads \ {p} ELSE mYieldedThreads
      /\ ReturnThreadToPool(p)
      /\ UNCHANGED <<made, luaState, script, condition, updating, todo, closed,
                     started, owner, stopped, crowded, mLuaThread>>
      /\ broken = "no" /\ ~closed
  BY <1>2 DEF Finish, updateVars, scriptVars, historyVars, Running
<1>4. p \in live
  BY <1>1, <1>2, <1>3, Popped DEF TypeOK, OnStack, Top
<1>5. /\ live' \subseteq live /\ live \ {p} \subseteq live'
      /\ mThreads' \in [States -> Threads \cup {None}]
      /\ mThreadPool' \in Seq(Threads)
      /\ broken' \in {"no", "freed", "erase", "twice", "rerun"}
      /\ \A s \in States : mThreads'[s] = mThreads[s] \/ mThreads'[s] = None
      /\ IsFiniteSet(Registered)'
      /\ ~crowded => /\ Cardinality(Registered)' <= Limit
                     /\ live' = live /\ broken' = broken
      /\ Pooling(p) \/ Deleting(p)
  BY <1>1, <1>3, <1>4, ReturnFacts
<1>6. /\ p \in Threads /\ co[p] = "running"
      /\ co' \in [Threads -> {"nil", "running", "suspended", "finished", "error"}]
      /\ stack' \in Seq(Threads) /\ OnStack' /\ Owned'
      /\ co'[p] = "finished" /\ \A u \in Threads \ {p} : co'[u] = co[u]
      /\ \A u \in live' : Unfinished(u)' => Unfinished(u)
      /\ Len(stack) = 1 <=> p = Head(stack)
      /\ p # Head(stack) => stack' # <<>>
      /\ stack' # <<>> => Head(stack') = Head(stack) /\ p # Head(stack)
  BY <1>2, <1>3, <1>5, LeaveFacts
<1>7. live \subseteq Threads /\ None \notin Threads
  BY <1>1, LiveThreads
<1>8. TypeOK'
  <2>1. mYieldedThreads' \subseteq Threads
    BY <1>1, <1>3 DEF TypeOK
  <2>2. live' \subseteq 1..made'
    BY <1>1, <1>3, <1>5 DEF TypeOK
  <2> QED BY <1>1, <1>3, <1>5, <1>6, <2>1, <2>2 DEF TypeOK
<1>9. Basic'
  BY <1>1, <1>3, <1>5, <1>6, LeaveBasic
<1>10. SleepersAreKnown'
  <2>1. \A u \in live' : co'[u] = "suspended" => u # p /\ co[u] = "suspended"
    BY <1>5, <1>6, <1>7
  <2> QED BY <2>1, <1>1, <1>3, <1>4, <1>5, ReturnKnown
<1>11. ASSUME stopped = {} PROVE Uncancelled'
  <2>1. Registration /\ Asleep /\ InPool /\ Intact
    BY <1>1, <1>11 DEF Uncancelled
  <2>2. mThreads[luaState[p]] # None
    BY <2>1, <1>4, <1>7 DEF Registration
  <2>3. Registration'
    <3>1. \A u \in live' : co'[u] # "nil"
      BY <2>1, <1>5, <1>6, <1>7 DEF Registration
    <3>2. \/ live' = live /\ mThreads' = mThreads
          \/ /\ live' = live \ {p} /\ mThreads'[luaState[p]] = None
             /\ \A x \in States \ {luaState[p]} : mThreads'[x] = mThreads[x]
      BY <2>2, <1>5 DEF Pooling, Deleting
    <3>3. luaState' = luaState
      BY <1>3
    <3> QED BY <3>1, <3>2, <3>3, <2>1, <1>1, <1>4, ReturnRegistration
  <2>4. p \notin Pooled /\ \A u \in Pooled : u \in live' /\ co'[u] = "finished"
    <3>1. p \notin Pooled
      BY <2>1, <1>6 DEF InPool
    <3>2. \A u \in Pooled : u \in live /\ u # p /\ co[u] = "finished"
      BY <3>1, <2>1 DEF InPool
    <3> QED BY <3>1, <3>2, <1>5, <1>6, <1>7
  <2>5. InPool'
    <3>1. CASE Pooling(p)
      <4>1. /\ IsInjective(Append(mThreadPool, p))
            /\ ToSet(Append(mThreadPool, p)) = ToSet(mThreadPool) \cup {p}
        BY <1>1, <1>6, <2>1, <2>4, Pushed DEF TypeOK, InPool, Pooled
      <4>2. p \in live'
        BY <3>1, <1>4 DEF Pooling
      <4> QED BY <3>1, <4>1, <4>2, <2>4, <1>6 DEF InPool, Pooled, Pooling
    <3>2. CASE Deleting(p)
      BY <3>2, <2>1, <2>4 DEF InPool, Pooled, Deleting
    <3> QED BY <3>1, <3>2, <1>5
  <2>6. Asleep'
    <3>1. p \in mYieldedThreads => updating /\ p = Head(stack)
      BY <2>1, <1>6 DEF Asleep
    <3>2. p \notin mYieldedThreads' /\ mYieldedThreads' \subseteq mYieldedThreads
          /\ mYieldedThreads \ {p} \subseteq mYieldedThreads'
      BY <3>1, <1>3, <1>6 DEF Resumed
    <3>3. p \notin todo
      BY <2>1, <3>1, <1>3 DEF Asleep
    <3>4. todo \subseteq mYieldedThreads'
      BY <2>1, <3>2, <3>3 DEF Asleep
    <3>5. ASSUME NEW u \in mYieldedThreads'
          PROVE  /\ u \in live'
                 /\ \/ co'[u] \in {"suspended", "error"}
                    \/ co'[u] = "running" /\ updating /\ stack' # <<>> /\ u = Head(stack')
      <4>1. u \in mYieldedThreads /\ u # p /\ u \in live /\ co'[u] = co[u]
        BY <2>1, <3>2, <3>5, <1>6, <1>7 DEF Asleep
      <4>2. u = Head(stack) => stack' # <<>> /\ Head(stack') = Head(stack)
        BY <4>1, <1>6
      <4> QED BY <4>1, <4>2, <2>1, <1>5 DEF Asleep
    <3>6. updating /\ stack' # <<>> => Head(stack') \notin todo
      BY <2>1, <1>3, <1>6 DEF Asleep
    <3> QED BY <3>4, <3>5, <3>6, <2>1, <1>3 DEF Asleep
  <2>7. Intact'
    BY <2>1, <1>3, <1>5 DEF Intact
  <2> QED BY <2>3, <2>5, <2>6, <2>7 DEF Uncancelled
<1> QED BY <1>3, <1>6, <1>8, <1>9, <1>10, <1>11 DEF IInv, Always

----------------------------------------------------------------------------
(* Lua::Update, the player's cancel, and the end.                          *)

\* Steps that change the walk of Update and nothing else that matters here.
LEMMA WalkSound ==
    ASSUME IInv, updating' \in BOOLEAN, todo' \subseteq Threads,
           stopped = {} => todo' \subseteq mYieldedThreads,
           ~updating' => todo' = {}, stack = <<>>,
           UNCHANGED <<live, made, luaState, co, script, condition, luaVars, scriptVars,
                       historyVars, mLuaThread, stack, closed, broken>>
    PROVE  IInv'
<1> USE DEF luaVars, scriptVars, historyVars
<1>1. Always'
  <2>1. TypeOK'
    BY DEF IInv, Always, TypeOK
  <2>2. Basic' /\ OnStack' /\ Owned' /\ SleepersAreKnown'
    BY DEF IInv, Always, Basic, Registered, OnStack, Owned, SleepersAreKnown, Unfinished
  <2> QED BY <2>1, <2>2 DEF Always
<1>2. ASSUME stopped = {} PROVE Uncancelled'
  <2>1. Registration /\ Asleep /\ InPool /\ Intact
    BY <1>2 DEF IInv, Uncancelled
  <2>2. \A t \in mYieldedThreads : t \in live /\ co[t] \in {"suspended", "error"}
    BY <2>1 DEF Asleep
  <2>3. todo' \subseteq mYieldedThreads
    BY <1>2
  <2>4. Asleep'
    BY <2>2, <2>3 DEF Asleep
  <2> QED BY <2>1, <2>4 DEF Uncancelled, Registration, InPool, Pooled, Intact
<1> QED BY <1>1, <1>2 DEF IInv

\* A sleeper goes on: it alone is on the stack, and still among the sleepers.
LEMMA ResumeSound ==
    ASSUME IInv, NEW t \in todo, Resume(t)
    PROVE  IInv'
<1>1. /\ TypeOK /\ Basic /\ OnStack /\ Owned /\ SleepersAreKnown
      /\ stopped = {} => Uncancelled
  BY DEF IInv, Always
<1>2. /\ stack = <<>> /\ updating /\ t \in live /\ co[t] = "suspended"
      /\ todo' = todo \ {t} /\ condition' = [condition EXCEPT ![t] = None]
      /\ co' = [co EXCEPT ![t] = "running"] /\ stack' = <<t>>
      /\ UNCHANGED <<live, made, luaState, script, mThreads, mThreadPool, mYieldedThreads,
                     updating, closed, started, owner, stopped, crowded, mLuaThread, broken>>
  BY DEF Resume, Reached, luaVars, scriptVars, historyVars
<1>3. t \in Threads /\ live \subseteq Threads
  BY <1>1, LiveThreads DEF TypeOK
<1>4. co'[t] = "running" /\ \A u \in Threads \ {t} : co'[u] = co[u]
  BY <1>1, <1>2, <1>3 DEF TypeOK
<1>5. /\ stack' \in Seq(Threads) /\ IsInjective(stack') /\ ToSet(stack') = {t}
      /\ stack' # <<>> /\ Head(stack') = t
  <2>1. <<t>> \in Seq(Threads) /\ DOMAIN <<t>> = {1} /\ <<t>>[1] = t
        /\ <<t>> # <<>> /\ Head(<<t>>) = t
    BY <1>3
  <2>2. IsInjective(<<t>>)
    BY <2>1 DEF IsInjective
  <2>3. ToSet(<<t>>) = {t}
    BY <2>1 DEF ToSet
  <2> QED BY <2>1, <2>2, <2>3, <1>2
<1>6. TypeOK'
  BY <1>1, <1>2, <1>3, <1>5 DEF TypeOK
<1>7. \A u \in live : Unfinished(u)' => Unfinished(u)
  BY <1>2, <1>3, <1>4 DEF Unfinished
<1>8. Basic'
  <2>1. Registered' = Registered
    BY <1>2 DEF Registered
  <2> QED BY <2>1, <1>1, <1>2, <1>7 DEF Basic
<1>9. OnStack'
  BY <1>2, <1>4, <1>5 DEF OnStack
<1>10. Owned'
  BY <1>1, <1>2, <1>7 DEF Owned
<1>11. SleepersAreKnown'
  BY <1>1, <1>2, <1>3, <1>4 DEF SleepersAreKnown
<1>12. ASSUME stopped = {} PROVE Uncancelled'
  <2>1. Registration /\ Asleep /\ InPool /\ Intact
    BY <1>1, <1>12 DEF Uncancelled
  <2>2. Registration'
    BY <2>1, <1>2, <1>3, <1>4 DEF Registration
  <2>3. InPool'
    <3>1. \A u \in Pooled : u \in live /\ u # t /\ co[u] = "finished"
      BY <2>1, <1>2 DEF InPool
    <3> QED BY <3>1, <2>1, <1>2, <1>3, <1>4 DEF InPool, Pooled
  <2>4. Asleep'
    BY <2>1, <1>2, <1>3, <1>4, <1>5 DEF Asleep
  <2>5. Intact'
    BY <2>1, <1>2 DEF Intact
  <2> QED BY <2>2, <2>3, <2>4, <2>5 DEF Uncancelled
<1> QED BY <1>2, <1>6, <1>8, <1>9, <1>10, <1>11, <1>12 DEF IInv, Always

\* Only a cancel leaves Update a thread to reap.
LEMMA ReapSound ==
    ASSUME IInv, NEW t \in todo, Reap(t)
    PROVE  IInv'
<1>1. /\ TypeOK /\ Basic /\ OnStack /\ Owned /\ SleepersAreKnown
      /\ stopped = {} => Uncancelled
  BY DEF IInv, Always
<1>2. /\ stack = <<>> /\ updating /\ t \in live /\ co[t] = "nil" /\ todo' = todo \ {t}
      /\ mYieldedThreads' = mYieldedThreads \ {t} /\ ReturnThreadToPool(t)
      /\ UNCHANGED <<made, luaState, co, script, condition, updating, closed,
                     started, owner, stopped, crowded, mLuaThread, stack>>
  BY DEF Reap, Reached, scriptVars, historyVars
<1>3. /\ live' \subseteq live
      /\ mThreads' \in [States -> Threads \cup {None}]
      /\ mThreadPool' \in Seq(Threads)
      /\ broken' \in {"no", "freed", "erase", "twice", "rerun"}
      /\ \A s \in States : mThreads'[s] = mThreads[s] \/ mThreads'[s] = None
      /\ IsFiniteSet(Registered)'
      /\ ~crowded => Cardinality(Registered)' <= Limit
  BY <1>1, <1>2, ReturnFacts
<1>4. TypeOK'
  <2>1. live' \subseteq 1..made' /\ mYieldedThreads' \subseteq Threads /\ todo' \subseteq Threads
    BY <1>1, <1>2, <1>3 DEF TypeOK
  <2> QED BY <2>1, <1>1, <1>2, <1>3 DEF TypeOK
<1>5. Basic'
  <2>1. \A u \in live' : Unfinished(u)' => Unfinished(u)
    BY <1>2 DEF Unfinished
  <2> QED BY <2>1, <1>1, <1>2, <1>3, LeaveBasic
<1>6. OnStack'
  <2>1. ToSet(stack) = {}
    BY <1>2 DEF ToSet
  <2> QED BY <2>1, <1>1, <1>2 DEF OnStack
<1>7. Owned'
  BY <1>1, <1>2, <1>3 DEF Owned, Unfinished
<1>8. SleepersAreKnown'
  <2>1. \A u \in live' : co'[u] = "suspended" => u # t /\ co[u] = "suspended"
    BY <1>2
  <2> QED BY <2>1, <1>1, <1>2, <1>3, ReturnKnown
<1>9. stopped # {}
  <2>1. ASSUME stopped = {} PROVE FALSE
    BY <2>1, <1>1, <1>2 DEF Uncancelled, Registration
  <2> QED BY <2>1
<1> QED BY <1>2, <1>4, <1>5, <1>6, <1>7, <1>8, <1>9 DEF IInv, Always

LEMMA UpdateSound == IInv /\ Update => IInv'
<1> SUFFICES ASSUME IInv, Update PROVE IInv'
  OBVIOUS
<1>1. TypeOK /\ (stopped = {} => Asleep)
  BY DEF IInv, Always, Uncancelled
<1> USE DEF threadVars, luaVars, scriptVars, historyVars
<1>2. CASE BeginUpdate
  BY <1>1, <1>2, WalkSound DEF BeginUpdate, TypeOK
<1>3. CASE EndUpdate
  BY <1>1, <1>3, WalkSound DEF EndUpdate, TypeOK
<1>4. ASSUME NEW t \in todo, Resume(t) PROVE IInv'
  BY <1>4, ResumeSound
<1>5. ASSUME NEW t \in todo, SleepOn(t) PROVE IInv'
  <2>1. todo' \subseteq Threads /\ updating' = TRUE /\ stack = <<>>
    BY <1>1, <1>5 DEF SleepOn, Reached, updateVars, TypeOK
  <2>2. stopped = {} => todo' \subseteq mYieldedThreads
    BY <1>1, <1>5 DEF SleepOn, Asleep
  <2> QED BY <2>1, <2>2, <1>5, WalkSound DEF SleepOn
<1>6. ASSUME NEW t \in todo, Reap(t) PROVE IInv'
  BY <1>6, ReapSound
<1>7. ASSUME NEW t \in todo, Stray(t) PROVE IInv'
  <2>1. ASSUME stopped = {} PROVE FALSE
    <3>1. t \in live /\ co[t] # "finished"
      BY <1>1, <2>1 DEF Asleep
    <3> QED BY <3>1, <1>7 DEF Stray
  <2>2. mThreadPool \in Seq(Threads)
    BY <1>1 DEF TypeOK
  <2> QED BY <1>7, <2>1, <2>2, BreakSound DEF Stray, updateVars
<1> QED BY <1>2, <1>3, <1>4, <1>5, <1>6, <1>7 DEF Update

LEMMA CancelSound ==
    ASSUME IInv, NEW o \in Objects, CancelAction(o)
    PROVE  IInv'
<1>1. /\ TypeOK /\ Basic /\ OnStack /\ Owned /\ SleepersAreKnown
      /\ stopped = {} => Uncancelled
  BY DEF IInv, Always
<1>2. PICK t : t = mLuaThread[o]
  OBVIOUS
<1>3. /\ t # None /\ stack = <<>> /\ ~updating /\ ~closed
      /\ UNCHANGED <<live, made, script, condition, mThreads, mThreadPool,
                     mYieldedThreads, updating, todo, started, owner, crowded,
                     mLuaThread, stack, closed>>
  BY <1>2 DEF CancelAction, Running, luaVars, updateVars, scriptVars
<1>4. CASE t \notin live
  <2>1. broken' = "freed" /\ UNCHANGED <<luaState, co, stopped>>
    BY <1>2, <1>4 DEF CancelAction
  <2>2. stopped = {} => crowded
    BY <1>1, <1>2, <1>3, <1>4 DEF Uncancelled, Intact
  <2>3. mThreadPool \in Seq(Threads)
    BY <1>1 DEF TypeOK
  <2> QED BY <1>3, <2>1, <2>2, <2>3, BreakSound
       DEF threadVars, updateVars, scriptVars, historyVars
<1>5. CASE t \in live
  <2>1. /\ co' = [co EXCEPT ![t] = "nil"] /\ stopped' = stopped \cup {t} /\ broken' = broken
        /\ \E s \in FreshStates : luaState' = [luaState EXCEPT ![t] = s]
    BY <1>2, <1>5 DEF CancelAction
  <2>2. PICK s \in FreshStates : luaState' = [luaState EXCEPT ![t] = s]
    BY <2>1
  <2>3. t \in Threads /\ live \subseteq Threads /\ s \in States
    BY <1>1, <1>5, LiveThreads DEF FreshStates
  <2>4. /\ co'[t] = "nil" /\ luaState'[t] = s
        /\ \A u \in Threads \ {t} : co'[u] = co[u] /\ luaState'[u] = luaState[u]
    BY <1>1, <2>1, <2>2, <2>3 DEF TypeOK
  <2>5. TypeOK'
    BY <1>1, <1>3, <2>1, <2>2, <2>3 DEF TypeOK
  <2>6. \A u \in live : Unfinished(u)' => Unfinished(u)
    BY <2>3, <2>4 DEF Unfinished
  <2>7. Basic'
    <3>1. Registered' = Registered
      BY <1>3 DEF Registered
    <3>2. \A u \in live : luaState'[u] \in States
      BY <1>1, <2>3, <2>4 DEF Basic
    <3> QED BY <3>1, <3>2, <1>1, <1>3, <2>6 DEF Basic
  <2>8. OnStack'
    <3>1. ToSet(stack) = {}
      BY <1>3 DEF ToSet
    <3> QED BY <3>1, <1>1, <1>3 DEF OnStack
  <2>9. Owned'
    BY <1>1, <1>3, <2>6 DEF Owned
  <2>10. SleepersAreKnown'
    BY <1>1, <1>3, <2>3, <2>4 DEF SleepersAreKnown
  <2>11. stopped' # {}
    BY <2>1
  <2> QED BY <2>5, <2>7, <2>8, <2>9, <2>10, <2>11 DEF IInv, Always
<1> QED BY <1>4, <1>5

\* ~Lua: every thread is registered, so all are freed.
LEMMA CloseSound == IInv /\ Close => IInv'
<1> SUFFICES ASSUME IInv, Close PROVE IInv'
  OBVIOUS
<1>1. /\ TypeOK /\ Basic /\ OnStack /\ Owned /\ SleepersAreKnown
      /\ stopped = {} => Uncancelled
  BY DEF IInv, Always
<1>2. PICK R : R = {mThreads[s] : s \in Registered}
  OBVIOUS
<1>3. /\ stack = <<>> /\ ~updating /\ closed' = TRUE /\ live' = live \ R
      /\ broken' = IF R \subseteq live THEN broken ELSE "freed"
      /\ mThreads' = [s \in States |-> None] /\ mThreadPool' = <<>> /\ mYieldedThreads' = {}
      /\ UNCHANGED <<made, luaState, co, script, condition, updating, todo,
                     started, owner, stopped, crowded, mLuaThread, stack>>
  BY <1>2 DEF Close, updateVars, scriptVars, historyVars
<1>4. TypeOK'
  <2>1. <<>> \in Seq(Threads)
    OBVIOUS
  <2>2. live' \subseteq 1..made'
    BY <1>1, <1>3 DEF TypeOK
  <2>3. broken' \in {"no", "freed", "erase", "twice", "rerun"}
    BY <1>1, <1>3 DEF TypeOK
  <2> QED BY <1>1, <1>3, <2>1, <2>2, <2>3 DEF TypeOK
<1>5. Registered' = {}
  BY <1>3 DEF Registered
<1>6. IsFiniteSet(Registered)' /\ Cardinality(Registered)' <= Limit
  BY <1>5, FS_EmptySet, LuaThreadsAssumption
<1>7. Basic'
  <2>1. \A u \in live' : Unfinished(u)' => Unfinished(u)
    BY <1>3 DEF Unfinished
  <2> QED BY <2>1, <1>1, <1>3, <1>6, LeaveBasic
<1>8. OnStack'
  <2>1. ToSet(stack) = {}
    BY <1>3 DEF ToSet
  <2> QED BY <2>1, <1>1, <1>3 DEF OnStack
<1>9. Owned'
  BY <1>1, <1>3 DEF Owned, Unfinished
<1>10. SleepersAreKnown'
  <2>1. \A u \in live' : mThreads'[luaState'[u]] = None /\ u # None
    BY <1>1, <1>3, LiveThreads DEF Basic
  <2> QED BY <2>1 DEF SleepersAreKnown
<1>11. ASSUME stopped = {} PROVE Uncancelled'
  <2>1. Registration /\ Asleep /\ InPool /\ Intact
    BY <1>1, <1>11 DEF Uncancelled
  <2>2. live \subseteq R
    <3> SUFFICES ASSUME NEW u \in live PROVE u \in R
      OBVIOUS
    <3>1. luaState[u] \in States /\ mThreads[luaState[u]] = u /\ u # None
      BY <1>1, <2>1, LiveThreads DEF Basic, Registration
    <3> QED BY <3>1, <1>2 DEF Registered
  <2>3. R \subseteq live
    BY <2>1, <1>2 DEF Registration, Registered
  <2>4. live' = {} /\ broken' = broken
    BY <2>2, <2>3, <1>3
  <2>5. Registration'
    BY <2>4, <1>3 DEF Registration
  <2>6. Asleep'
    BY <2>1, <1>3 DEF Asleep
  <2>7. InPool'
    BY <1>3 DEF InPool, Pooled, IsInjective, ToSet
  <2>8. Intact'
    BY <2>1, <2>4, <1>3 DEF Intact
  <2> QED BY <2>5, <2>6, <2>7, <2>8 DEF Uncancelled
<1> QED BY <1>3, <1>4, <1>7, <1>8, <1>9, <1>10, <1>11 DEF IInv, Always

----------------------------------------------------------------------------
(* The invariant, and what follows from it.                                *)

LEMMA InitInv == Init => IInv
<1> SUFFICES ASSUME Init PROVE IInv
  OBVIOUS
<1>1. <<>> \in Seq(Threads) /\ ToSet(<<>>) = {} /\ IsInjective(<<>>)
  BY DEF ToSet, IsInjective
<1>2. MaxScripts \in Nat /\ Limit \in Nat
  BY LuaThreadsAssumption
<1>3. TypeOK
  <2>1. /\ live \subseteq 1..made /\ made \in 0..MaxScripts /\ started \in 0..MaxScripts
        /\ updating \in BOOLEAN /\ todo \subseteq Threads /\ closed \in BOOLEAN
        /\ broken \in {"no", "freed", "erase", "twice", "rerun"}
        /\ stopped \subseteq Threads /\ crowded \in BOOLEAN
        /\ mYieldedThreads \subseteq Threads
    <3>1. 0 \in 0..MaxScripts
      BY <1>2
    <3>2. made = 0 /\ started = 0 /\ live = {} /\ todo = {} /\ stopped = {}
          /\ mYieldedThreads = {} /\ updating = FALSE /\ closed = FALSE
          /\ crowded = FALSE /\ broken = "no"
      BY DEF Init
    <3> QED BY <3>1, <3>2
  <2>2. mThreadPool \in Seq(Threads) /\ stack \in Seq(Threads)
    BY <1>1 DEF Init
  <2>3. /\ luaState \in [Threads -> States \cup {None}]
        /\ co \in [Threads -> {"nil", "running", "suspended", "finished", "error"}]
        /\ script \in [Threads -> Scripts \cup {None}]
        /\ condition \in [Threads -> Scripts \cup {None}]
        /\ mThreads \in [States -> Threads \cup {None}]
        /\ mLuaThread \in [Objects -> Threads \cup {None}]
        /\ owner \in [Scripts -> Objects \cup {NoObject}]
    BY DEF Init
  <2> QED BY <2>1, <2>2, <2>3 DEF TypeOK
<1>4. Basic
  <2>1. Registered = {}
    BY DEF Init, Registered
  <2> QED BY <1>2, <2>1, FS_EmptySet DEF Init, Basic, None
<1>5. OnStack /\ Owned /\ SleepersAreKnown /\ Uncancelled
  BY <1>1 DEF Init, OnStack, Owned, SleepersAreKnown, Uncancelled, Registration, Asleep,
              InPool, Pooled, Intact
<1> QED BY <1>3, <1>4, <1>5 DEF IInv, Always

LEMMA NextInv == IInv /\ [Next]_vars => IInv'
<1> SUFFICES ASSUME IInv, [Next]_vars PROVE IInv'
  OBVIOUS
<1>1. CASE CallCoroutine
  BY <1>1, CallCoroutineSound
<1>2. ASSUME NEW o \in Objects, Tick(o) PROVE IInv'
  BY <1>2, TickSound
<1>3. ASSUME NEW o \in Objects, CancelAction(o) PROVE IInv'
  BY <1>3, CancelSound
<1>4. CASE Leave
  BY <1>4, SleepSound, FinishSound, FailSound DEF Leave
<1>5. CASE Update
  BY <1>5, UpdateSound
<1>6. CASE Close
  BY <1>6, CloseSound
<1>7. CASE UNCHANGED vars
  <2>1. mThreadPool' \in Seq(Threads)
        /\ UNCHANGED <<live, made, luaState, co, script, condition, mThreads, mThreadPool,
                       mYieldedThreads, updating, todo, started, owner, stopped, crowded,
                       mLuaThread, stack, closed, broken>>
    BY <1>7 DEF vars, threadVars, luaVars, updateVars, scriptVars, historyVars,
                IInv, Always, TypeOK
  <2>2. Always'
    <3>1. TypeOK'
      BY <2>1 DEF IInv, Always, TypeOK
    <3>2. Basic' /\ OnStack' /\ Owned' /\ SleepersAreKnown'
      BY <2>1 DEF IInv, Always, Basic, Registered, OnStack, Owned, SleepersAreKnown, Unfinished
    <3> QED BY <3>1, <3>2 DEF Always
  <2>3. ASSUME stopped = {} PROVE Uncancelled'
    BY <2>1, <2>3 DEF IInv, Uncancelled, Registration, Asleep, InPool, Pooled, Intact
  <2> QED BY <2>1, <2>2, <2>3 DEF IInv
<1> QED BY <1>1, <1>2, <1>3, <1>4, <1>5, <1>6, <1>7 DEF Next

LEMMA Invariant == Spec => []IInv
<1> QED BY InitInv, NextInv, PTL DEF Spec

\* The variables have their types, whatever scripts do and players cancel.
THEOREM TypeCorrect == Spec => []TypeOK
<1>1. IInv => TypeOK
  BY DEF IInv, Always
<1> QED BY <1>1, Invariant, PTL

\* Ability::Tick and nThread.Create never let an object have two scripts, though
\* threads are pooled, freed and cancelled in any order.
THEOREM TicksOneScript == Spec => []OneScriptPerObject
<1>1. IInv => OneScriptPerObject
  BY DEF IInv, Always, Owned, OneScriptPerObject
<1> QED BY <1>1, Invariant, PTL

\* ReturnThreadToPool pools a thread once and when its script has ended, and
\* nothing else uses it, in every game that never cancels.
THEOREM PoolHasOwners == Spec => []PoolIsExclusive
<1>1. IInv => PoolIsExclusive
  <2> SUFFICES ASSUME IInv, stopped = {}
               PROVE  /\ IsInjective(mThreadPool)
                      /\ \A t \in Pooled : /\ t \in live /\ co[t] = "finished"
                                           /\ t \notin mYieldedThreads
    BY DEF PoolIsExclusive
  <2>1. InPool /\ Asleep
    BY DEF IInv, Uncancelled
  <2> QED BY <2>1 DEF InPool, Asleep
<1> QED BY <1>1, Invariant, PTL

\* A script that yields is among the threads that Lua::Update walks through, or
\* its lua_State is registered for another thread or none.
THEOREM UpdateKnowsSleepers == Spec => []SleepersAreKnown
<1>1. IInv => SleepersAreKnown
  BY DEF IInv, Always
<1> QED BY <1>1, Invariant, PTL

\* Nothing undefined is done by a game that never cancels and whose pool was
\* never full, and ~Lua leaves no thread.
THEOREM SoundWithoutCancels == Spec => []SoundUnlessCancelled
<1>1. IInv => SoundUnlessCancelled
  BY DEF IInv, Uncancelled, Intact, SoundUnlessCancelled
<1> QED BY <1>1, Invariant, PTL
----------------------------------------------------------------------------
(* What the scripts see.                                                   *)

\* No two threads have run the same script last.
OwnScripts == \A t, u \in Threads : script[t] = script[u] /\ script[t] # None => t = u

\* The function f along a sequence: ScriptsOf(s) is script's.
Along(f, s) == [k \in 1..Len(s) |-> f[s[k]]]

\* Append, for the leaves that should not look into it.
Push(s, e) == Append(s, e)

LEMMA AlongAppend ==
    ASSUME NEW s \in Seq(Threads), NEW t \in Threads, NEW f, NEW g,
           \A u \in ToSet(s) : g[u] = f[u]
    PROVE  Along(g, Push(s, t)) = Push(Along(f, s), g[t])
<1> DEFINE a == Append(s, t)
           m == Along(f, s)
           b == Append(m, g[t])
           n == Len(s)
<1>1. /\ n \in Nat /\ Len(a) = n + 1 /\ a[n + 1] = t /\ \A k \in 1..n : a[k] = s[k]
      /\ DOMAIN s = 1..n
  OBVIOUS
<1>2. \A k \in 1..n : f[s[k]] = g[s[k]]
  BY <1>1 DEF ToSet
<1>3. m = [k \in 1..n |-> f[s[k]]]
  BY DEF Along
<1>4. m \in Seq({f[s[k]] : k \in 1..n}) /\ Len(m) = n
  BY <1>1, <1>3
<1>5. /\ Len(b) = n + 1 /\ b[n + 1] = g[t] /\ \A k \in 1..n : b[k] = m[k]
      /\ b = [k \in 1..n + 1 |-> b[k]]
  BY <1>1, <1>4
<1>6. \A k \in 1..n + 1 : k \in 1..n \/ k = n + 1
  BY <1>1
<1> HIDE DEF a, b, m
<1>7. \A k \in 1..n + 1 : b[k] = g[a[k]]
  BY <1>1, <1>2, <1>3, <1>5, <1>6
<1>8. Along(g, a) = [k \in 1..n + 1 |-> g[a[k]]]
  BY <1>1 DEF Along
<1>9. Along(g, a) = b
  BY <1>5, <1>7, <1>8
<1> QED BY <1>9 DEF a, b, m, Push

LEMMA AlongFront ==
    ASSUME NEW S, NEW s \in Seq(S), s # <<>>, NEW f
    PROVE  /\ Along(f, s) # <<>> /\ Last(Along(f, s)) = f[Last(s)]
           /\ Along(f, Front(s)) = Front(Along(f, s))
<1> DEFINE m == Along(f, s)
           n == Len(s)
<1>1. n \in Nat /\ n > 0 /\ n \in 1..n
  OBVIOUS
<1>2. m = [k \in 1..n |-> f[s[k]]]
  BY DEF Along
<1>3. m \in Seq({f[s[k]] : k \in 1..n}) /\ Len(m) = n
  BY <1>1, <1>2
<1> HIDE DEF m
<1>4. m # <<>> /\ Last(m) = f[Last(s)]
  BY <1>1, <1>2, <1>3 DEF Last
<1>5. Front(s) = [k \in 1..n - 1 |-> s[k]] /\ Len(Front(s)) = n - 1
  <2>1. Front(s) = [k \in 1..n - 1 |-> s[k]]
    BY <1>1 DEF Front
  <2>2. n - 1 \in Nat
    BY <1>1
  <2> QED BY <2>1, <2>2
<1>6. Front(m) = [k \in 1..n - 1 |-> m[k]]
  BY <1>1, <1>3 DEF Front
<1>7. \A k \in 1..n - 1 : k \in 1..n
  BY <1>1
<1>8. Along(f, Front(s)) = [k \in 1..n - 1 |-> f[s[k]]]
  BY <1>5 DEF Along
<1>9. Along(f, Front(s)) = Front(m)
  BY <1>2, <1>6, <1>7, <1>8
<1> QED BY <1>4, <1>9 DEF m


\* The threads whose scripts sleep, and the scripts.
Sleepers == {u \in live : co[u] = "suspended"}
SleepingScripts == {script[t] : t \in Sleepers}
ScriptState == <<1..started, ScriptsOf(stack), SleepingScripts>>

\* A sleeper's script is its own.
LEMMA SleepersScripts ==
    ASSUME IInv, OwnScripts
    PROVE  /\ Sleepers \subseteq Threads
           /\ \A t \in Sleepers : script[t] # None
           /\ \A t, u \in Sleepers : script[t] = script[u] => t = u
<1>1. live \subseteq Threads /\ Basic
  BY LiveThreads DEF IInv, Always
<1> QED BY <1>1 DEF Basic, Unfinished, Sleepers, OwnScripts

\* Nothing the scripts see changes when the same threads sleep and run.
LEMMA Unseen ==
    ASSUME UNCHANGED <<started, script, stack>>, Sleepers' = Sleepers
    PROVE  UNCHANGED ScriptState
BY DEF ScriptState, ScriptsOf, SleepingScripts

\* Threads that are deleted or stopped take the scripts that slept on them.
LEMMA DropRefines ==
    ASSUME UNCHANGED <<started, script, stack>>, stack = <<>>, Sleepers' \subseteq Sleepers
    PROVE  Runtime!RNext
<1> PICK S : S = SleepingScripts \ SleepingScripts'
  OBVIOUS
<1>1. SleepingScripts' \subseteq SleepingScripts
  BY DEF SleepingScripts
<1>2. SleepingScripts' = SleepingScripts \ S /\ S \in SUBSET SleepingScripts
  BY <1>1
<1>3. ScriptsOf(stack) = <<>> /\ ScriptsOf(stack)' = ScriptsOf(stack)
  BY DEF ScriptsOf
<1>4. Runtime!DropSleepers(S)
  BY <1>2, <1>3 DEF Runtime!DropSleepers, SleepingScripts, Sleepers
<1>5. S \in SUBSET {script[t] : t \in {u \in live : co[u] = "suspended"}}
  BY <1>2 DEF SleepingScripts, Sleepers
<1> QED BY <1>4, <1>5 DEF Runtime!RNext

\* LuaThread::call on a thread whose coroutine is dead starts a new script.
LEMMA CallRefines ==
    ASSUME IInv, OwnScripts, NEW o, NEW t \in Threads, Call(o, t), started < MaxScripts,
           t \in live => Dead(t), live' = live \/ live' = live \cup {t}
    PROVE  Runtime!RNext /\ OwnScripts'
<1> DEFINE n == started + 1
<1>1. /\ TypeOK /\ Basic /\ OnStack
  BY DEF IInv, Always
<1>2. started \in Nat /\ live \subseteq Threads /\ n \in Scripts /\ n # None
  BY <1>1, LiveThreads DEF Scripts, None
<1>3. /\ started' = n /\ script' = [script EXCEPT ![t] = n]
      /\ co' = [co EXCEPT ![t] = "running"] /\ stack' = Append(stack, t)
  BY DEF Call
<1>4. \A u \in Threads : script[u] <= started /\ script[u] \in Nat
  BY <1>1, <1>2 DEF Basic, TypeOK, Scripts, None
<1>5. \A u \in Threads : script[u] # n
  BY <1>2, <1>4
<1>6. /\ script'[t] = n /\ co'[t] = "running"
      /\ \A u \in Threads \ {t} : script'[u] = script[u] /\ co'[u] = co[u]
  BY <1>1, <1>3 DEF TypeOK
<1> HIDE DEF n
<1>7. OwnScripts'
  BY <1>5, <1>6 DEF OwnScripts
<1>8. t \notin Sleepers /\ t \notin Sleepers' /\ t \notin ToSet(stack)
  BY <1>1, <1>6 DEF Sleepers, Dead, OnStack
<1>9. Sleepers' = Sleepers
  BY <1>2, <1>6, <1>8 DEF Sleepers
<1>10. SleepingScripts' = SleepingScripts
  BY <1>2, <1>6, <1>8, <1>9 DEF SleepingScripts, Sleepers
<1>11. stack \in Seq(Threads) /\ \A u \in ToSet(stack) : script'[u] = script[u]
  BY <1>1, <1>2, <1>6, <1>8 DEF TypeOK, OnStack
<1>12. ScriptsOf(stack)' = Append(ScriptsOf(stack), n)
  <2>1. PICK f, g, s : f = script /\ g = script' /\ s = stack
    OBVIOUS
  <2>2. s \in Seq(Threads) /\ \A u \in ToSet(s) : g[u] = f[u]
    BY <1>11, <2>1
  <2>3. Along(g, Push(s, t)) = Push(Along(f, s), g[t])
    BY <2>2, AlongAppend
  <2>4. Along(script', Append(stack, t)) = Append(Along(script, stack), script'[t])
    BY <2>1, <2>3 DEF Push
  <2> QED BY <2>4, <1>3, <1>6 DEF Along, ScriptsOf
<1>13. n \notin 1..started /\ 1..n = 1..started \cup {n}
  BY <1>2 DEF n
<1>14. Runtime!StartScript(n)
  BY <1>3, <1>10, <1>12, <1>13 DEF Runtime!StartScript, SleepingScripts, Sleepers
<1> QED BY <1>2, <1>7, <1>14 DEF Runtime!RNext

\* SpawnThread starts a new script, or meets something undefined.
LEMMA SpawnRefines ==
    ASSUME IInv, OwnScripts, MayStart, NEW o, Spawn(o)
    PROVE  (Runtime!RNext \/ UNCHANGED ScriptState) /\ OwnScripts'
<1>1. /\ live \subseteq Threads /\ made \in Nat /\ started \in Nat /\ made <= started
      /\ started < MaxScripts /\ MaxScripts \in Nat /\ live \subseteq 1..made
  BY LiveThreads DEF IInv, Always, Basic, MayStart, TypeOK
<1>2. CASE mThreadPool # <<>>
  <2> DEFINE t == Last(mThreadPool)
  <2>1. live' = live
    BY <1>2 DEF Spawn
  <2>2. CASE t \in live /\ Dead(t)
    <3>1. Call(o, t)
      BY <1>2, <2>2 DEF Spawn
    <3> QED BY <1>1, <2>1, <2>2, <3>1, CallRefines
  <2>3. CASE ~(t \in live /\ Dead(t))
    <3>1. UNCHANGED <<started, owner, co, script, stack>>
      BY <1>2, <2>3 DEF Spawn, scriptVars
    <3>2. Sleepers' = Sleepers
      BY <2>1, <3>1 DEF Sleepers
    <3> QED BY <3>1, <3>2, Unseen DEF OwnScripts
  <2> QED BY <2>2, <2>3
<1>3. CASE mThreadPool = <<>>
  <2>1. made' = made + 1 /\ live' = live \cup {made'} /\ Call(o, made')
    BY <1>3 DEF Spawn
  <2>2. made' \in Threads /\ made' \notin live
    BY <1>1, <2>1 DEF Threads
  <2> QED BY <1>1, <2>1, <2>2, CallRefines
<1> QED BY <1>2, <1>3

\* The script on top goes to sleep, or is over.
LEMMA LeaveRefines ==
    ASSUME IInv, OwnScripts, stack # <<>>, NEW x \in {"suspended", "finished", "error"},
           co' = [co EXCEPT ![Top] = x], stack' = Front(stack),
           live' \subseteq live, live \ {Top} \subseteq live',
           x = "suspended" => live' = live,
           UNCHANGED <<script, started, owner, mLuaThread>>
    PROVE  Runtime!RNext
<1> DEFINE t == Top
<1>1. /\ t \in live /\ co[t] = "running"
      /\ co'[t] = x /\ \A u \in Threads \ {t} : co'[u] = co[u]
  BY LeaveFacts
<1>2. live \subseteq Threads /\ stack \in Seq(Threads)
  BY LiveThreads DEF IInv, Always, TypeOK
<1>3. /\ ScriptsOf(stack) # <<>> /\ Last(ScriptsOf(stack)) = script[t]
      /\ ScriptsOf(stack)' = Front(ScriptsOf(stack))
  <2>1. /\ Along(script, stack) # <<>> /\ Last(Along(script, stack)) = script[Last(stack)]
        /\ Along(script, Front(stack)) = Front(Along(script, stack))
    BY <1>2, AlongFront
  <2> QED BY <2>1 DEF Along, ScriptsOf, Top
<1> HIDE DEF t
<1>4. CASE x = "suspended"
  <2>1. Sleepers' = Sleepers \cup {t}
    BY <1>1, <1>2, <1>4 DEF Sleepers
  <2>2. SleepingScripts' = SleepingScripts \cup {script[t]}
    BY <2>1 DEF SleepingScripts
  <2>3. Runtime!GoToSleep
    BY <1>3, <2>2 DEF Runtime!GoToSleep, Runtime!Front, Runtime!Last, Front, Last,
       SleepingScripts, Sleepers
  <2> QED BY <2>3 DEF Runtime!RNext
<1>5. CASE x # "suspended"
  <2>1. Sleepers' = Sleepers
    BY <1>1, <1>2, <1>5 DEF Sleepers
  <2>2. SleepingScripts' = SleepingScripts
    BY <2>1 DEF SleepingScripts
  <2>3. Runtime!End
    BY <1>3, <2>2 DEF Runtime!End, Runtime!Front, Front, SleepingScripts, Sleepers
  <2> QED BY <2>3 DEF Runtime!RNext
<1> QED BY <1>4, <1>5

\* Update resumes a script where it slept.
LEMMA ResumeRefines ==
    ASSUME IInv, OwnScripts, NEW t, Resume(t)
    PROVE  Runtime!RNext
<1>1. /\ stack = <<>> /\ stack' = <<t>> /\ t \in Sleepers
      /\ co' = [co EXCEPT ![t] = "running"] /\ UNCHANGED <<live, script, started>>
  BY DEF Resume, Reached, Sleepers, scriptVars
<1>2. t \in Threads
  BY <1>1, SleepersScripts
<1>3. co'[t] = "running" /\ \A u \in Threads \ {t} : co'[u] = co[u]
  BY <1>1, <1>2 DEF IInv, Always, TypeOK
<1>4. Sleepers' = Sleepers \ {t}
  <2>1. live \subseteq Threads
    BY LiveThreads DEF IInv, Always
  <2> QED BY <1>1, <1>3, <2>1 DEF Sleepers
<1>5. SleepingScripts' = SleepingScripts \ {script[t]}
  BY <1>1, <1>4, SleepersScripts DEF SleepingScripts
<1>6. script[t] \in {script[v] : v \in {u \in live : co[u] = "suspended"}}
  BY <1>1 DEF Sleepers
<1>7. ScriptsOf(stack) = <<>> /\ ScriptsOf(stack)' = <<script[t]>>
  BY <1>1 DEF ScriptsOf
<1> PICK n : n = script[t]
  OBVIOUS
<1>8. Runtime!WakeUp(n)
  BY <1>1, <1>5, <1>7 DEF Runtime!WakeUp, SleepingScripts, Sleepers
<1> QED BY <1>6, <1>8 DEF Runtime!RNext

\* ReturnThreadToPool deletes no thread but the one it is given.
LEMMA ReturnDeletes ==
    ASSUME NEW t, ReturnThreadToPool(t)
    PROVE  live' \subseteq live /\ live \ {t} \subseteq live'
BY DEF ReturnThreadToPool

\* Lua.cpp runs scripts as a runtime without threads would: started once, woken
\* only where they sleep, and never after they are over, for any limit of the
\* pool and with players' cancels, until something undefined is met.
THEOREM ScriptsAreCoroutines == Spec => ImplementsCoroutines
<1>1. Init => Runtime!RInit /\ OwnScripts
  <2> SUFFICES ASSUME Init PROVE Runtime!RInit /\ OwnScripts
    OBVIOUS
  <2>1. 1..started = {} /\ ScriptsOf(stack) = <<>> /\ SleepingScripts = {}
    BY DEF Init, ScriptsOf, SleepingScripts, Sleepers
  <2> QED BY <2>1 DEF Init, Runtime!RInit, OwnScripts, SleepingScripts, Sleepers
<1>2. IInv /\ OwnScripts /\ [Next]_vars
         => [Runtime!RNext]_(Runtime!rvars) /\ OwnScripts'
  <2> SUFFICES ASSUME IInv, OwnScripts, [Next]_vars
               PROVE  (Runtime!RNext \/ UNCHANGED ScriptState) /\ OwnScripts'
    BY DEF Runtime!rvars, ScriptState, SleepingScripts, Sleepers
  <2> USE DEF threadVars, luaVars, updateVars, scriptVars, historyVars
  <2>1. CASE CallCoroutine
    BY <2>1, SpawnRefines DEF CallCoroutine
  <2>2. ASSUME NEW o \in Objects, Tick(o)
        PROVE  (Runtime!RNext \/ UNCHANGED ScriptState) /\ OwnScripts'
    <3>1. CASE mLuaThread[o] # None /\ mLuaThread[o] \notin live
      <4>1. UNCHANGED <<live, co, script, stack, started>>
        BY <2>2, <3>1 DEF Tick
      <4> QED BY <4>1, Unseen DEF Sleepers, OwnScripts
    <3>2. CASE ~(mLuaThread[o] # None /\ mLuaThread[o] \notin live)
      BY <2>2, <3>2, SpawnRefines DEF Tick
    <3> QED BY <3>1, <3>2
  <2>3. CASE Sleep
    BY <2>3, LeaveRefines DEF Sleep, OwnScripts
  <2>4. CASE Finish
    <3>1. live' \subseteq live /\ live \ {Top} \subseteq live'
      BY <2>4, ReturnDeletes DEF Finish
    <3> QED BY <2>4, <3>1, LeaveRefines DEF Finish, OwnScripts
  <2>5. CASE Fail
    BY <2>5, LeaveRefines DEF Fail, OwnScripts
  <2>6. ASSUME NEW t \in todo, Resume(t) PROVE Runtime!RNext /\ OwnScripts'
    BY <2>6, ResumeRefines DEF Resume, OwnScripts
  <2>7. ASSUME NEW t \in todo, Reap(t) PROVE UNCHANGED ScriptState /\ OwnScripts'
    <3>1. /\ live' \subseteq live /\ live \ {t} \subseteq live' /\ co[t] = "nil"
          /\ UNCHANGED <<co, script, stack, started>>
      BY <2>7, ReturnDeletes DEF Reap
    <3>2. Sleepers' = Sleepers
      BY <3>1 DEF Sleepers
    <3> QED BY <3>1, <3>2, Unseen DEF OwnScripts
  <2>8. ASSUME \/ BeginUpdate \/ EndUpdate \/ (\E t \in todo : SleepOn(t) \/ Stray(t))
               \/ UNCHANGED vars
        PROVE  UNCHANGED ScriptState /\ OwnScripts'
    <3>1. UNCHANGED <<live, co, script, stack, started>>
      BY <2>8 DEF BeginUpdate, EndUpdate, SleepOn, Stray, vars
    <3> QED BY <3>1, Unseen DEF Sleepers, OwnScripts
  <2>9. ASSUME NEW o \in Objects, CancelAction(o) PROVE Runtime!RNext /\ OwnScripts'
    <3>1. /\ stack = <<>> /\ UNCHANGED <<live, script, stack, started>>
          /\ (co' = co \/ co' = [co EXCEPT ![mLuaThread[o]] = "nil"])
      BY <2>9 DEF CancelAction
    <3>2. \A u \in Threads : co'[u] = "suspended" => co[u] = "suspended"
      BY <3>1 DEF IInv, Always, TypeOK
    <3>3. live \subseteq Threads
      BY LiveThreads DEF IInv, Always
    <3>4. Sleepers' \subseteq Sleepers
      BY <3>1, <3>2, <3>3 DEF Sleepers
    <3> QED BY <3>1, <3>4, DropRefines DEF OwnScripts
  <2>10. CASE Close
    <3>1. /\ stack = <<>> /\ live' \subseteq live /\ UNCHANGED <<co, script, stack, started>>
      BY <2>10 DEF Close
    <3>2. Sleepers' \subseteq Sleepers
      BY <3>1 DEF Sleepers
    <3> QED BY <3>1, <3>2, DropRefines DEF OwnScripts
  <2> QED BY <2>1, <2>2, <2>3, <2>4, <2>5, <2>6, <2>7, <2>8, <2>9, <2>10
      DEF Next, Leave, Update
<1> QED BY <1>1, <1>2, Invariant, PTL DEF Spec, ImplementsCoroutines, Runtime!RSpec

=============================================================================
