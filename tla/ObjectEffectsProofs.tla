------------------------ MODULE ObjectEffectsProofs ------------------------
(***************************************************************************)
(* The safety of ObjectEffects, for any number of effects, slots and       *)
(* abilities, any durations and any time.                                  *)
(*                                                                         *)
(* SlotsSound is inductive with the types alone: what is open and what is  *)
(* used are one set, of as many slots as were given out.  The cooldowns    *)
(* share nothing with the slots and have an invariant of their own.        *)
(***************************************************************************)
EXTENDS ObjectEffects, TLAPS

SlotInv == SlotTypeOK /\ SlotsSound

CooldownInv == CooldownTypeOK /\ CooldownsAgree

----------------------------------------------------------------------------
(* Sequences without repetition.                                           *)

\* The last element is taken off.
LEMMA LastTaken ==
    ASSUME NEW S, NEW s \in Seq(S), s # <<>>, NoneTwice(s)
    PROVE  /\ AllButLast(s) \in Seq(S) /\ Len(AllButLast(s)) = Len(s) - 1
           /\ NoneTwice(AllButLast(s))
           /\ Members(AllButLast(s)) = Members(s) \ {s[Len(s)]}
           /\ s[Len(s)] \in Members(s)
<1> DEFINE t == AllButLast(s)
<1>1. Len(s) \in Nat /\ Len(s) > 0 /\ \A k \in 1..Len(s) : s[k] \in S
  OBVIOUS
<1>2. Len(s) - 1 \in Nat /\ \A k \in 1..Len(s) - 1 : k \in 1..Len(s) /\ k # Len(s)
  BY <1>1
<1>3. t \in Seq(S) /\ Len(t) = Len(s) - 1 /\ \A k \in 1..Len(t) : t[k] = s[k]
  BY <1>1, <1>2 DEF AllButLast
<1>4. NoneTwice(t)
  BY <1>1, <1>2, <1>3 DEF NoneTwice
<1>5. \A k \in 1..Len(s) : k = Len(s) \/ k \in 1..Len(t)
  BY <1>1, <1>3
<1>6. Len(s) \in 1..Len(s)
  BY <1>1
<1> HIDE DEF t
<1>7. ASSUME NEW k \in 1..Len(t) PROVE t[k] \in Members(s) \ {s[Len(s)]}
  BY <1>2, <1>3, <1>6 DEF Members, NoneTwice
<1>8. ASSUME NEW k \in 1..Len(s), s[k] # s[Len(s)] PROVE s[k] \in Members(t)
  BY <1>3, <1>5, <1>8 DEF Members
<1>9. Members(t) = Members(s) \ {s[Len(s)]}
  BY <1>7, <1>8 DEF Members
<1> QED BY <1>3, <1>4, <1>6, <1>9 DEF Members, t

\* One element is taken out, wherever it is.
LEMMA OneTaken ==
    ASSUME NEW S, NEW s \in Seq(S), NoneTwice(s), NEW i \in Members(s)
    PROVE  /\ Without(s, i) \in Seq(S) /\ Len(Without(s, i)) = Len(s) - 1
           /\ NoneTwice(Without(s, i))
           /\ Members(Without(s, i)) = Members(s) \ {i}
<1> DEFINE t == Without(s, i)
           n == Len(s)
<1>1. n \in Nat /\ \A k \in 1..n : s[k] \in S
  OBVIOUS
<1>2. PICK k \in 1..n : s[k] = i /\ k = CHOOSE j \in 1..n : s[j] = i
  BY DEF Members
<1>3. t = [j \in 1..n - 1 |-> IF j = k THEN s[n] ELSE s[j]]
  BY <1>2 DEF Without
<1>4. n - 1 \in Nat /\ n \in 1..n /\ \A j \in 1..n - 1 : j \in 1..n /\ j # n
  BY <1>1
<1>5. /\ t \in Seq(S) /\ Len(t) = n - 1
      /\ \A j \in 1..n - 1 : t[j] = IF j = k THEN s[n] ELSE s[j]
  BY <1>1, <1>3, <1>4
<1> HIDE DEF t
<1>6. NoneTwice(t)
  BY <1>4, <1>5 DEF NoneTwice
<1>7. \A j \in 1..n : j = n \/ j \in 1..n - 1
  BY <1>1
<1>8. Members(t) \subseteq Members(s) \ {i}
  BY <1>2, <1>4, <1>5 DEF Members, NoneTwice
<1>9. ASSUME NEW x \in Members(s), x # i PROVE x \in Members(t)
  <2>1. PICK j \in 1..n : s[j] = x /\ j # k
    BY <1>2, <1>9 DEF Members
  <2>2. CASE j \in 1..n - 1
    BY <1>5, <2>1, <2>2 DEF Members
  <2>3. CASE j = n
    <3>1. k \in 1..n - 1
      BY <1>2, <1>7, <2>1, <2>3
    <3> QED BY <1>5, <2>1, <2>3, <3>1 DEF Members
  <2> QED BY <1>7, <2>1, <2>2, <2>3
<1> QED BY <1>5, <1>6, <1>8, <1>9 DEF t

\* A new element goes to the end.
LEMMA OneAppended ==
    ASSUME NEW S, NEW s \in Seq(S), NoneTwice(s), NEW i \in S, i \notin Members(s)
    PROVE  /\ Append(s, i) \in Seq(S) /\ Len(Append(s, i)) = Len(s) + 1
           /\ NoneTwice(Append(s, i))
           /\ Members(Append(s, i)) = Members(s) \cup {i}
<1> DEFINE t == Append(s, i)
           n == Len(s)
<1>1. /\ t \in Seq(S) /\ n \in Nat /\ Len(t) = n + 1 /\ t[n + 1] = i
      /\ \A k \in 1..n : t[k] = s[k]
  OBVIOUS
<1>2. \A k \in 1..n + 1 : k \in 1..n \/ k = n + 1
  BY <1>1
<1>3. n + 1 \in 1..n + 1 /\ \A k \in 1..n : k \in 1..n + 1
  BY <1>1
<1> HIDE DEF t
<1>4. NoneTwice(t)
  BY <1>1, <1>2 DEF NoneTwice, Members
<1>5. Members(t) = Members(s) \cup {i}
  BY <1>1, <1>2, <1>3 DEF Members
<1> QED BY <1>1, <1>4, <1>5 DEF t

----------------------------------------------------------------------------
(* EffectList.                                                             *)

\* The slot that Add gives is nobody's.
LEMMA OpenIndexIsFree ==
    ASSUME SlotTypeOK, SlotsSound, OpenIndex # 0
    PROVE  OpenIndex \in Indexes /\ OpenIndex \notin Used
<1>1. CASE mOpenIndexes # <<>>
  <2>1. OpenIndex \in Members(mOpenIndexes) /\ OpenIndex \in Indexes
    BY <1>1, LastTaken DEF OpenIndex, SlotTypeOK, SlotsSound, Members
  <2> QED BY <2>1 DEF SlotsSound
<1>2. CASE mOpenIndexes = <<>>
  <2>1. /\ OpenIndex = Len(mUsedIndexes) + 1 /\ Len(mUsedIndexes) < MaxIndex
        /\ Len(mUsedIndexes) \in Nat
    BY <1>2 DEF OpenIndex, SlotTypeOK
  <2>2. Len(mOpenIndexes) = 0
    BY <1>2
  <2>3. Used \subseteq 1..Len(mUsedIndexes)
    BY <2>1, <2>2 DEF SlotsSound
  <2> QED BY <2>1, <2>3, EffectsAssumption DEF Indexes
<1> QED BY <1>1, <1>2

\* Add keeps the slots sound and gives its slot to the effect.
LEMMA AddFacts ==
    ASSUME SlotTypeOK, SlotsSound, NEW e \in Effects, Add(e), OpenIndex # 0
    PROVE  /\ mIndexByEffect' \in [Effects -> 0..MaxIndex]
           /\ mOpenIndexes' \in Seq(Indexes) /\ mUsedIndexes' \in Seq(Indexes)
           /\ SlotsSound'
           /\ Used' = Used \cup {OpenIndex}
           /\ mIndexByEffect' = [mIndexByEffect EXCEPT ![e] = OpenIndex]
<1> DEFINE i == OpenIndex
<1>1. i \in Indexes /\ i \notin Used
  BY OpenIndexIsFree
<1>2. /\ mIndexByEffect' = [mIndexByEffect EXCEPT ![e] = i]
      /\ mUsedIndexes' = Append(mUsedIndexes, i)
      /\ mOpenIndexes' = IF mOpenIndexes # <<>> THEN AllButLast(mOpenIndexes)
                         ELSE mOpenIndexes
  BY DEF Add
<1>3. /\ mUsedIndexes' \in Seq(Indexes) /\ NoneTwice(mUsedIndexes')
      /\ Len(mUsedIndexes') = Len(mUsedIndexes) + 1
      /\ Used' = Used \cup {i}
  BY <1>1, <1>2, OneAppended DEF SlotTypeOK, SlotsSound, Used
<1>4. /\ mOpenIndexes' \in Seq(Indexes) /\ NoneTwice(mOpenIndexes')
      /\ Members(mOpenIndexes') = Members(mOpenIndexes) \ {i}
      /\ Len(mUsedIndexes') + Len(mOpenIndexes') <= MaxIndex
      /\ Used' \cup Members(mOpenIndexes')
            \subseteq 1..Len(mUsedIndexes') + Len(mOpenIndexes')
  <2>1. Len(mUsedIndexes) \in Nat /\ Len(mOpenIndexes) \in Nat /\ MaxIndex \in Nat
    BY EffectsAssumption DEF SlotTypeOK
  <2>2. CASE mOpenIndexes # <<>>
    <3>1. i = mOpenIndexes[Len(mOpenIndexes)] /\ mOpenIndexes' = AllButLast(mOpenIndexes)
      BY <1>2, <2>2 DEF OpenIndex
    <3>2. /\ mOpenIndexes' \in Seq(Indexes) /\ NoneTwice(mOpenIndexes')
          /\ Len(mOpenIndexes') = Len(mOpenIndexes) - 1
          /\ Members(mOpenIndexes') = Members(mOpenIndexes) \ {i}
          /\ i \in Members(mOpenIndexes)
      BY <2>2, <3>1, LastTaken DEF SlotTypeOK, SlotsSound
    <3>3. Len(mUsedIndexes') + Len(mOpenIndexes') = Len(mUsedIndexes) + Len(mOpenIndexes)
      BY <1>3, <2>1, <3>2
    <3> QED BY <1>3, <3>2, <3>3 DEF SlotsSound
  <2>3. CASE mOpenIndexes = <<>>
    <3>1. i = Len(mUsedIndexes) + 1 /\ Len(mUsedIndexes) < MaxIndex /\ mOpenIndexes' = <<>>
      BY <1>2, <2>3 DEF OpenIndex
    <3>2. Len(<<>>) = 0 /\ Members(<<>>) = {} /\ NoneTwice(<<>>)
      BY DEF Members, NoneTwice
    <3>3. Len(mUsedIndexes') + Len(mOpenIndexes') = Len(mUsedIndexes) + 1
      BY <1>3, <2>1, <3>1, <3>2
    <3>4. Used \subseteq 1..Len(mUsedIndexes)
      BY <2>1, <2>3, <3>2 DEF SlotsSound
    <3>5. \A x \in Used : x \in 1..Len(mUsedIndexes) + 1
      BY <2>1, <3>4
    <3>6. i \in 1..Len(mUsedIndexes) + 1 /\ Len(mUsedIndexes) + 1 <= MaxIndex
      BY <2>1, <3>1
    <3>7. Members(mOpenIndexes) = {} /\ Members(mOpenIndexes') = {}
          /\ mOpenIndexes' \in Seq(Indexes) /\ NoneTwice(mOpenIndexes')
      BY <2>3, <3>1, <3>2
    <3> QED BY <1>3, <3>3, <3>5, <3>6, <3>7
  <2> QED BY <2>2, <2>3
<1>5. mIndexByEffect' \in [Effects -> 0..MaxIndex]
  BY <1>1, <1>2, EffectsAssumption DEF SlotTypeOK, Indexes
<1>6. \A f \in Effects : mIndexByEffect'[f] # 0 => mIndexByEffect'[f] \in Used'
  BY <1>2, <1>3 DEF SlotTypeOK, SlotsSound
<1>7. \A f, g \in Effects :
        mIndexByEffect'[f] # 0 /\ mIndexByEffect'[f] = mIndexByEffect'[g] => f = g
  BY <1>1, <1>2 DEF SlotTypeOK, SlotsSound
<1>8. Used' \cap Members(mOpenIndexes') = {}
  BY <1>3, <1>4 DEF SlotsSound
<1>9. SlotsSound'
  BY <1>3, <1>4, <1>6, <1>7, <1>8 DEF SlotsSound
<1> QED BY <1>2, <1>3, <1>4, <1>5, <1>9

\* A used slot that is freed is forgotten by its effect, and by no other.
LEMMA FreeFacts ==
    ASSUME SlotTypeOK, SlotsSound, NEW i \in Used, Free(i), mIndexByEffect' = Forget(i)
    PROVE  /\ mIndexByEffect' \in [Effects -> 0..MaxIndex]
           /\ mOpenIndexes' \in Seq(Indexes) /\ mUsedIndexes' \in Seq(Indexes)
           /\ SlotsSound'
           /\ Used' = Used \ {i}
<1>1. mUsedIndexes' = Without(mUsedIndexes, i) /\ mOpenIndexes' = Append(mOpenIndexes, i)
  BY DEF Free
<1>2. i \in Indexes /\ i \notin Members(mOpenIndexes)
  <2>1. PICK k \in 1..Len(mUsedIndexes) : mUsedIndexes[k] = i
    BY DEF Used, Members
  <2>2. i \in Indexes
    BY <2>1 DEF SlotTypeOK
  <2> QED BY <2>2 DEF SlotsSound
<1>3. /\ mUsedIndexes' \in Seq(Indexes) /\ NoneTwice(mUsedIndexes')
      /\ Len(mUsedIndexes') = Len(mUsedIndexes) - 1
      /\ Used' = Used \ {i}
  BY <1>1, OneTaken DEF SlotTypeOK, SlotsSound, Used
<1>4. /\ mOpenIndexes' \in Seq(Indexes) /\ NoneTwice(mOpenIndexes')
      /\ Len(mOpenIndexes') = Len(mOpenIndexes) + 1
      /\ Members(mOpenIndexes') = Members(mOpenIndexes) \cup {i}
  BY <1>1, <1>2, OneAppended DEF SlotTypeOK, SlotsSound
<1>5. Len(mUsedIndexes') + Len(mOpenIndexes') = Len(mUsedIndexes) + Len(mOpenIndexes)
  BY <1>3, <1>4 DEF SlotTypeOK
<1>6. /\ mIndexByEffect' \in [Effects -> 0..MaxIndex]
      /\ \A f \in Effects :
           mIndexByEffect'[f] = IF mIndexByEffect[f] = i THEN 0 ELSE mIndexByEffect[f]
  BY EffectsAssumption DEF Forget, SlotTypeOK
<1>7. \A f \in Effects : mIndexByEffect'[f] # 0 => mIndexByEffect'[f] \in Used'
  BY <1>3, <1>6 DEF SlotsSound
<1>8. \A f, g \in Effects :
        mIndexByEffect'[f] # 0 /\ mIndexByEffect'[f] = mIndexByEffect'[g] => f = g
  BY <1>6 DEF SlotsSound
<1>9. Used' \cup Members(mOpenIndexes')
         \subseteq 1..Len(mUsedIndexes') + Len(mOpenIndexes')
  BY <1>3, <1>4, <1>5 DEF SlotsSound
<1>10. SlotsSound'
  BY <1>3, <1>4, <1>5, <1>7, <1>8, <1>9 DEF SlotsSound
<1> QED BY <1>3, <1>4, <1>6, <1>10

----------------------------------------------------------------------------
(* The slots.                                                              *)

LEMMA SlotInit == Init => SlotInv
<1> SUFFICES ASSUME Init PROVE SlotInv
  OBVIOUS
<1>1. /\ <<>> \in Seq(Indexes) /\ Len(<<>>) = 0 /\ Members(<<>>) = {}
      /\ NoneTwice(<<>>)
  BY DEF Members, NoneTwice
<1>2. SlotTypeOK
  BY <1>1, EffectsAssumption DEF Init, SlotTypeOK
<1>3. SlotsSound
  BY <1>1, EffectsAssumption DEF Init, SlotsSound, Used
<1> QED BY <1>2, <1>3 DEF SlotInv

\* What leaves the slots alone.
LEMMA SlotStutter ==
    ASSUME SlotInv, UNCHANGED slotVars PROVE SlotInv'
BY DEF SlotInv, SlotTypeOK, SlotsSound, slotVars, Used

\* nObject.AddEffect, Game.Notify and Player.Notify.
LEMMA AddKeeps ==
    ASSUME SlotInv, NEW e \in Effects, Add(e) PROVE SlotInv'
<1>1. CASE OpenIndex = 0
  BY <1>1, SlotStutter DEF Add
<1>2. CASE OpenIndex # 0
  BY <1>2, AddFacts DEF SlotInv, SlotTypeOK
<1> QED BY <1>1, <1>2

\* nObject.RemoveEffect frees the slot of the effect, which is no other's.
LEMMA RemoveEffectKeeps ==
    ASSUME SlotInv, NEW e \in Effects, RemoveEffect(e) PROVE SlotInv'
<1>1. SlotTypeOK /\ SlotsSound
  BY DEF SlotInv
<1>2. PICK i \in 0..MaxIndex : i = mIndexByEffect[e]
  BY <1>1 DEF SlotTypeOK
<1>3. i # 0 /\ Free(i) /\ mIndexByEffect' = [mIndexByEffect EXCEPT ![e] = 0]
  BY <1>2 DEF RemoveEffect
<1>4. i \in Used
  BY <1>1, <1>2, <1>3 DEF SlotsSound
<1>5. mIndexByEffect' = Forget(i)
  <2>1. \A f \in Effects : mIndexByEffect[f] = i <=> f = e
    BY <1>1, <1>2, <1>3 DEF SlotsSound
  <2> QED BY <1>1, <1>3, <2>1 DEF Forget, SlotTypeOK
<1> QED BY <1>1, <1>3, <1>4, <1>5, FreeFacts DEF SlotInv, SlotTypeOK

\* nObject.RemoveEffectIndex.
LEMMA RemoveEffectIndexKeeps ==
    ASSUME SlotInv, NEW i \in Indexes, RemoveEffectIndex(i) PROVE SlotInv'
<1>1. i \in Used /\ Free(i) /\ mIndexByEffect' = Forget(i)
  BY DEF RemoveEffectIndex
<1> QED BY <1>1, FreeFacts DEF SlotInv, SlotTypeOK

LEMMA SlotStep == ASSUME SlotInv, [Next]_effectsVars PROVE SlotInv'
<1>1. CASE \E e \in Effects : AddEffect(e) \/ Notify(e) \/ RemoveEffect(e)
  BY <1>1, AddKeeps, RemoveEffectKeeps DEF AddEffect, Notify
<1>2. CASE \E i \in Indexes : RemoveEffectIndex(i)
  BY <1>2, RemoveEffectIndexKeeps
<1>3. CASE \/ \E a \in Abilities, ms \in Durations :
                AddCooldown(a, ms) \/ RemoveCooldown(a, ms)
           \/ Advance
  BY <1>3, SlotStutter DEF AddCooldown, RemoveCooldown, Advance
<1>4. CASE UNCHANGED effectsVars
  BY <1>4, SlotStutter DEF effectsVars
<1> QED BY <1>1, <1>2, <1>3, <1>4 DEF Next

----------------------------------------------------------------------------
(* The cooldowns.                                                          *)

LEMMA CooldownInit == Init => CooldownInv
<1>1. NoCooldown \in Entries
  BY DEF NoCooldown, Entries
<1> QED
  BY <1>1 DEF Init, CooldownInv, CooldownTypeOK, CooldownsAgree, NoCooldown

\* An entry that adds up.
Agrees(c) == c \in Entries /\ c.end >= c.duration

\* AddCooldown makes an entry that adds up.
LEMMA AddedAgrees ==
    ASSUME CooldownInv, NEW a \in Abilities, NEW ms \in Durations
    PROVE  Agrees(Added(a, ms))
<1> DEFINE c == cooldown[a]
<1>1. c \in Entries /\ c.end >= c.duration
  BY DEF CooldownInv, CooldownTypeOK, CooldownsAgree
<1>2. c.end \in Nat /\ c.duration \in Nat /\ time \in Nat /\ ms \in Nat
  BY <1>1, EffectsAssumption DEF CooldownInv, CooldownTypeOK, Entries
<1>3. CASE StartsAnew(a)
  <2>1. Added(a, ms) = [end |-> time + ms, duration |-> ms, set |-> TRUE]
    BY <1>3 DEF Added
  <2>2. time + ms \in Nat /\ time + ms >= ms
    BY <1>2
  <2> QED BY <1>2, <2>1, <2>2 DEF Agrees, Entries
<1>4. CASE ~StartsAnew(a)
  <2> DEFINE left == c.end - time + ms
  <2>1. left \in Nat /\ c.end - c.duration + left \in Nat
        /\ c.end - c.duration + left >= left
    <3>1. ~(time > c.end)
      BY <1>4 DEF StartsAnew
    <3> QED BY <1>1, <1>2, <3>1
  <2>2. Added(a, ms) = [end |-> c.end - c.duration + left, duration |-> left, set |-> TRUE]
    BY <1>4 DEF Added
  <2> HIDE DEF left
  <2> QED BY <2>1, <2>2 DEF Agrees, Entries
<1> QED BY <1>3, <1>4

\* RemoveCooldown leaves an entry that adds up, or none.
LEMMA RemovedAgrees ==
    ASSUME CooldownInv, NEW a \in Abilities, NEW ms \in Durations
    PROVE  Agrees(Removed(a, ms)) /\ Agrees(NoCooldown)
<1> DEFINE c == cooldown[a]
<1>1. c \in Entries /\ c.end >= c.duration
  BY DEF CooldownInv, CooldownTypeOK, CooldownsAgree
<1>2. c.end \in Nat /\ c.duration \in Nat /\ c.set \in BOOLEAN /\ ms \in Nat
  BY <1>1, EffectsAssumption DEF Entries
<1>3. Agrees(NoCooldown)
  BY DEF Agrees, NoCooldown, Entries
<1>4. CASE ms >= c.duration
  BY <1>3, <1>4 DEF Removed
<1>5. CASE ~(ms >= c.duration)
  <2>1. c.end - ms \in Nat /\ c.duration - ms \in Nat /\ c.end - ms >= c.duration - ms
    BY <1>1, <1>2, <1>5
  <2>2. /\ Removed(a, ms) \in Entries
        /\ Removed(a, ms).end = c.end - ms /\ Removed(a, ms).duration = c.duration - ms
    BY <1>1, <1>5, <2>1 DEF Removed, Shortened, Entries
  <2> QED BY <1>3, <2>1, <2>2 DEF Agrees
<1> QED BY <1>3, <1>4, <1>5

\* An entry that is stored and sent.
LEMMA SentAgrees ==
    ASSUME CooldownInv, NEW a \in Abilities, NEW c, Agrees(c),
           cooldown' = [cooldown EXCEPT ![a] = c], SendCooldown(a, c), UNCHANGED time
    PROVE  CooldownInv'
<1>1. c.end \in Nat /\ c.duration \in Nat /\ c.end >= c.duration
  BY DEF Agrees, Entries
<1>2. /\ c.end - c.duration \in Nat
      /\ c.end - c.duration + c.duration = c.end
  BY <1>1
<1> DEFINE message == [start |-> c.end - c.duration, duration |-> c.duration]
<1>3. sent' = [sent EXCEPT ![a] = message]
  BY DEF SendCooldown
<1>4. /\ message \in [start : Nat, duration : Nat]
      /\ message.start + message.duration = c.end /\ message.duration = c.duration
  BY <1>1, <1>2
<1> HIDE DEF message
<1>5. CooldownTypeOK'
  BY <1>3, <1>4 DEF CooldownInv, CooldownTypeOK, Agrees
<1>6. CooldownsAgree'
  BY <1>1, <1>3, <1>4 DEF CooldownInv, CooldownTypeOK, CooldownsAgree
<1> QED BY <1>5, <1>6 DEF CooldownInv

LEMMA CooldownStep == ASSUME CooldownInv, [Next]_effectsVars PROVE CooldownInv'
<1>1. ASSUME NEW a \in Abilities, NEW ms \in Durations, AddCooldown(a, ms)
      PROVE  CooldownInv'
  <2>1. PICK c : c = Added(a, ms)
    OBVIOUS
  <2>2. Agrees(c)
    BY <2>1, AddedAgrees
  <2>3. cooldown' = [cooldown EXCEPT ![a] = c] /\ SendCooldown(a, c) /\ UNCHANGED time
    BY <1>1, <2>1 DEF AddCooldown
  <2> QED BY <2>2, <2>3, SentAgrees
<1>2. ASSUME NEW a \in Abilities, NEW ms \in Durations, RemoveCooldown(a, ms)
      PROVE  CooldownInv'
  <2>1. PICK c : c = IF cooldown[a].set THEN Removed(a, ms) ELSE NoCooldown
    OBVIOUS
  <2>2. Agrees(c)
    BY <2>1, RemovedAgrees
  <2>3. cooldown' = [cooldown EXCEPT ![a] = c] /\ SendCooldown(a, c) /\ UNCHANGED time
    BY <1>2, <2>1 DEF RemoveCooldown
  <2> QED BY <2>2, <2>3, SentAgrees
<1>3. CASE Advance
  BY <1>3 DEF Advance, CooldownInv, CooldownTypeOK, CooldownsAgree, cooldownVars
<1>4. CASE UNCHANGED <<cooldownVars, time>>
  BY <1>4 DEF CooldownInv, CooldownTypeOK, CooldownsAgree, cooldownVars
<1>5. CASE \/ \E e \in Effects : AddEffect(e) \/ Notify(e) \/ RemoveEffect(e)
           \/ \E i \in Indexes : RemoveEffectIndex(i)
  BY <1>4, <1>5 DEF AddEffect, RemoveEffect, Notify, RemoveEffectIndex
<1>6. CASE UNCHANGED effectsVars
  BY <1>4, <1>6 DEF effectsVars
<1> QED BY <1>1, <1>2, <1>3, <1>5, <1>6 DEF Next

----------------------------------------------------------------------------
(* The theorems.                                                           *)

LEMMA SlotsKept == Spec => []SlotInv
BY SlotInit, SlotStep, PTL DEF Spec

LEMMA CooldownsKept == Spec => []CooldownInv
BY CooldownInit, CooldownStep, PTL DEF Spec

\* Slots and cooldowns keep their types.
THEOREM TypeCorrect == Spec => []TypeOK
<1>1. SlotInv /\ CooldownInv => TypeOK
  BY DEF SlotInv, CooldownInv, TypeOK
<1> QED BY <1>1, SlotsKept, CooldownsKept, PTL

\* EffectList gives no slot to two owners and loses none, for every number of
\* slots and every order of calls.
THEOREM SlotsHaveOneOwner == Spec => []SlotsSound
<1>1. SlotInv => SlotsSound
  BY DEF SlotInv
<1> QED BY <1>1, SlotsKept, PTL

\* The cooldown that clients were last sent is the object's own.
THEOREM ClientsCountAlike == Spec => []CooldownsAgree
<1>1. CooldownInv => CooldownsAgree
  BY DEF CooldownInv
<1> QED BY <1>1, CooldownsKept, PTL

\* An ability that was free and is used cools down for all of its time, but in
\* the millisecond in which its last cooldown ends.
THEOREM FullCooldown == Spec => CoolsFromNow
<1>1. ASSUME CooldownInv, NEW a \in Abilities, NEW ms \in Durations,
             AddCooldown(a, ms), ~HasCooldown(a)
      PROVE  \/ cooldown'[a].end = time + ms
             \/ cooldown[a].set /\ cooldown[a].end = time
  <2>1. cooldown'[a] = Added(a, ms)
    BY <1>1 DEF AddCooldown, CooldownInv, CooldownTypeOK
  <2>2. CASE StartsAnew(a)
    BY <2>1, <2>2 DEF Added
  <2>3. CASE ~StartsAnew(a)
    <3>1. /\ cooldown[a].set /\ ~(time > cooldown[a].end)
          /\ ~(cooldown[a].end > time)
      BY <1>1, <2>3 DEF StartsAnew, HasCooldown
    <3>2. cooldown[a].end \in Nat /\ time \in Nat
      BY <1>1 DEF CooldownInv, CooldownTypeOK, Entries
    <3> QED BY <3>1, <3>2
  <2> QED BY <2>2, <2>3
<1>2. CooldownInv =>
        [\A a \in Abilities, ms \in Durations :
           AddCooldown(a, ms) /\ ~HasCooldown(a) =>
             \/ cooldown'[a].end = time + ms
             \/ cooldown[a].set /\ cooldown[a].end = time]_effectsVars
  BY <1>1
<1> QED BY <1>2, CooldownsKept, PTL DEF CoolsFromNow

=============================================================================
