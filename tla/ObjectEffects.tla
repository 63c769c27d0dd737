--------------------------- MODULE ObjectEffects ---------------------------
(***************************************************************************)
(* What scripts attach to one object for a while: effects, each in a slot  *)
(* that scripts know by its index (EffectList of Game/Object.cpp), and the *)
(* cooldowns of abilities, with the functions of Game/LuaFunctions.cpp     *)
(* that change them.                                                       *)
(*                                                                         *)
(* Slots are given out again, and the index is all that a removal names.   *)
(* The functions also make ServerEvents of what they do to a slot, which   *)
(* leave the server only if RakNet/Server.cpp is built with                *)
(* DBG_SEND_SERVER_EVENT: it is false, SendServerEvent returns at once,    *)
(* and no client is told of an effect.  CooldownUpdates are sent, to each  *)
(* client, when an entry changes.  All of it runs on the game thread, one  *)
(* function at a time, in whatever order the scripts choose.               *)
(***************************************************************************)
EXTENDS Naturals, Sequences

CONSTANTS Effects,    \* hashes of server event definitions, not 0
          MaxIndex,   \* 0xFF
          Abilities,
          Durations,  \* milliseconds that scripts give
          MaxTime,    \* bound: of the game's clock
          MaxEnd      \* bound: of the end of a cooldown

ASSUME EffectsAssumption ==
    /\ MaxIndex \in Nat \ {0}
    /\ MaxTime \in Nat /\ MaxEnd \in Nat
    /\ Durations \subseteq Nat

VARIABLES
    mIndexByEffect,  \* effect |-> the slot it was last given, 0: no entry
    mOpenIndexes,    \* slots to use again, the next one at the end
    mUsedIndexes,
    time,            \* mGameTime
    cooldown,        \* ability |-> its entry of mCooldowns
    sent             \* ability |-> the last CooldownUpdate

slotVars == <<mIndexByEffect, mOpenIndexes, mUsedIndexes>>
cooldownVars == <<cooldown, sent>>
effectsVars == <<slotVars, cooldownVars, time>>

Indexes == 1..MaxIndex
Entries == [end : Nat, duration : Nat, set : BOOLEAN]
NoCooldown == [end |-> 0, duration |-> 0, set |-> FALSE]

SlotTypeOK ==
    /\ mIndexByEffect \in [Effects -> 0..MaxIndex]
    /\ mOpenIndexes \in Seq(Indexes) /\ mUsedIndexes \in Seq(Indexes)

CooldownTypeOK ==
    /\ time \in Nat
    /\ cooldown \in [Abilities -> Entries]
    /\ sent \in [Abilities -> [start : Nat, duration : Nat]]

TypeOK == SlotTypeOK /\ CooldownTypeOK

Init ==
    /\ mIndexByEffect = [e \in Effects |-> 0]
    /\ mOpenIndexes = <<>> /\ mUsedIndexes = <<>>
    /\ time = 0
    /\ cooldown = [a \in Abilities |-> NoCooldown]
    /\ sent = [a \in Abilities |-> [start |-> 0, duration |-> 0]]

Members(s) == {s[k] : k \in 1..Len(s)}
Used == Members(mUsedIndexes)

----------------------------------------------------------------------------
(* EffectList.                                                             *)

\* Mutant: an open slot is looked at and stays open.
AllButLast_Peek(s) == s

\* pop_back.
AllButLast(s) == [k \in 1..Len(s) - 1 |-> s[k]]

\* i is swapped with the last element, which is then taken off.
Without(s, i) == LET k == CHOOSE k \in 1..Len(s) : s[k] = i
                 IN  [j \in 1..Len(s) - 1 |-> IF j = k THEN s[Len(s)] ELSE s[j]]

\* The slot that GetOpenIndex returns, 0 when all are used.
OpenIndex ==
    IF mOpenIndexes # <<>> THEN mOpenIndexes[Len(mOpenIndexes)]
    ELSE IF Len(mUsedIndexes) < MaxIndex THEN Len(mUsedIndexes) + 1
    ELSE 0

\* Add: an effect that has a slot already gets another one.
Add(e) ==
    LET i == OpenIndex
    IN  IF i = 0 THEN UNCHANGED slotVars
        ELSE /\ mIndexByEffect' = [mIndexByEffect EXCEPT ![e] = i]
             /\ mUsedIndexes' = Append(mUsedIndexes, i)
             /\ mOpenIndexes' = IF mOpenIndexes # <<>> THEN AllButLast(mOpenIndexes)
                                ELSE mOpenIndexes

\* A slot that is in use is open from now on.
Free(i) ==
    IF i \in Used
    THEN /\ mUsedIndexes' = Without(mUsedIndexes, i)
         /\ mOpenIndexes' = Append(mOpenIndexes, i)
    ELSE UNCHANGED <<mUsedIndexes, mOpenIndexes>>

\* RemoveByIndex forgets the effect that has the slot.
Forget(i) == [e \in Effects |-> IF mIndexByEffect[e] = i THEN 0 ELSE mIndexByEffect[e]]

----------------------------------------------------------------------------
(* The functions of the scripts.                                           *)

\* nObject.AddEffect.
AddEffect(e) ==
    /\ Add(e)
    /\ UNCHANGED <<cooldownVars, time>>

\* Game.Notify and Player.Notify: LuaGetServerEvent gives the object of the
\* table a slot for its effect, also when the event says that it is removed.
Notify(e) ==
    /\ Add(e)
    /\ UNCHANGED <<cooldownVars, time>>

\* nObject.RemoveEffect, by the effect: the slot it was last given.
RemoveEffect(e) ==
    /\ mIndexByEffect[e] # 0
    /\ Free(mIndexByEffect[e])
    /\ mIndexByEffect' = [mIndexByEffect EXCEPT ![e] = 0]
    /\ UNCHANGED <<cooldownVars, time>>

\* nObject.RemoveEffectIndex.
RemoveEffectIndex(i) ==
    /\ i \in Used
    /\ Free(i)
    /\ mIndexByEffect' = Forget(i)
    /\ UNCHANGED <<cooldownVars, time>>

----------------------------------------------------------------------------
(* Cooldowns.                                                              *)

HasCooldown(a) == cooldown[a].set /\ cooldown[a].end > time

\* Mutant: an entry that has run out is extended like one that runs.
StartsAnew_FirstOnly(a) == ~cooldown[a].set

\* AddCooldown finds no entry, or one that ended before now.
StartsAnew(a) == ~cooldown[a].set \/ time > cooldown[a].end

\* The entry after AddCooldown.  One that runs keeps its start, and its
\* duration becomes what is left of it and ms.
Added(a, ms) ==
    IF StartsAnew(a)
    THEN [end |-> time + ms, duration |-> ms, set |-> TRUE]
    ELSE LET left == cooldown[a].end - time + ms
         IN  [end |-> cooldown[a].end - cooldown[a].duration + left,
              duration |-> left, set |-> TRUE]

\* Mutant: only the end moves.
Shortened_EndOnly(a, ms) == [cooldown[a] EXCEPT !.end = @ - ms]

\* The entry after RemoveCooldown of one that is longer than ms.
Shortened(a, ms) == [cooldown[a] EXCEPT !.end = @ - ms, !.duration = @ - ms]

\* SendCooldownUpdate.
SendCooldown(a, c) ==
    sent' = [sent EXCEPT ![a] = [start |-> c.end - c.duration,
                                 duration |-> c.duration]]

\* nObject.AddCooldown.
AddCooldown(a, ms) ==
    /\ Added(a, ms).end <= MaxEnd
    /\ cooldown' = [cooldown EXCEPT ![a] = Added(a, ms)]
    /\ SendCooldown(a, Added(a, ms))
    /\ UNCHANGED <<slotVars, time>>

\* The entry after RemoveCooldown; the message of one that goes is all 0.
Removed(a, ms) == IF ms >= cooldown[a].duration THEN NoCooldown ELSE Shortened(a, ms)

\* nObject.RemoveCooldown.  Where there is no entry a message of 0 goes out.
RemoveCooldown(a, ms) ==
    LET c == IF cooldown[a].set THEN Removed(a, ms) ELSE NoCooldown
    IN  /\ cooldown' = [cooldown EXCEPT ![a] = c]
        /\ SendCooldown(a, c)
        /\ UNCHANGED <<slotVars, time>>

\* The game's clock, in the update loop.
Advance ==
    /\ time < MaxTime
    /\ time' = time + 1
    /\ UNCHANGED <<slotVars, cooldownVars>>

----------------------------------------------------------------------------

Next ==
    \/ \E e \in Effects : AddEffect(e) \/ Notify(e) \/ RemoveEffect(e)
    \/ \E i \in Indexes : RemoveEffectIndex(i)
    \/ \E a \in Abilities, ms \in Durations :
           AddCooldown(a, ms) \/ RemoveCooldown(a, ms)
    \/ Advance

Spec == Init /\ [][Next]_effectsVars

----------------------------------------------------------------------------
(* Properties.                                                             *)

NoneTwice(s) == \A j, k \in 1..Len(s) : s[j] = s[k] => j = k

\* EffectList gives each slot to one owner: no slot is used twice, open twice
\* or both; together they are as many as were ever given out, so that the next
\* new index is a free one; an effect's entry names a used slot, and no two
\* effects name the same.
SlotsSound ==
    /\ NoneTwice(mUsedIndexes) /\ NoneTwice(mOpenIndexes)
    /\ Used \cap Members(mOpenIndexes) = {}
    /\ Used \cup Members(mOpenIndexes) \subseteq 1..Len(mUsedIndexes) + Len(mOpenIndexes)
    /\ Len(mUsedIndexes) + Len(mOpenIndexes) <= MaxIndex
    /\ \A e \in Effects : mIndexByEffect[e] # 0 => mIndexByEffect[e] \in Used
    /\ \A e, f \in Effects :
         mIndexByEffect[e] # 0 /\ mIndexByEffect[e] = mIndexByEffect[f] => e = f

\* Clients count a cooldown as the server does, from a start that is no
\* negative number: what was last sent is the entry, however often it was
\* extended, shortened and removed.
CooldownsAgree ==
    \A a \in Abilities :
        /\ cooldown[a].end >= cooldown[a].duration
        /\ sent[a].start + sent[a].duration = cooldown[a].end
        /\ sent[a].duration = cooldown[a].duration

\* An ability that was free and is given a cooldown has all of it to come,
\* but for one that is used in the very millisecond its cooldown ends, which
\* AddCooldown takes for running.
CoolsFromNow ==
    [][\A a \in Abilities, ms \in Durations :
         AddCooldown(a, ms) /\ ~HasCooldown(a) =>
             \/ cooldown'[a].end = time + ms
             \/ cooldown[a].set /\ cooldown[a].end = time]_effectsVars

============================================================================
