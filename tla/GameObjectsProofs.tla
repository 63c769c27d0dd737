------------------------- MODULE GameObjectsProofs -------------------------
(* Invariants of a game's objects, proved for every number of clients and
   objects, and for levels, squads and drops of every size. *)
EXTENDS GameObjects, SequenceTheorems, TLAPS

(***************************************************************************)
(* The part of the state that the ids depend on, and the ways a step may   *)
(* change it.                                                              *)
(***************************************************************************)
idState == <<made, ident, marked, mObjects, mActiveObjects, mMarkedObjects,
             sNextId, mOpenObjectIds>>

CreateStep(n) ==
    /\ \E kinds \in Seq(Kinds) : Len(kinds) = n /\ Create(kinds)
    /\ UNCHANGED <<marked, mMarkedObjects>>

MarkStep(o) ==
    /\ MarkForDeletion(o)
    /\ UNCHANGED <<made, ident, mObjects, mActiveObjects, sNextId,
                   mOpenObjectIds>>

\* An object has an id from the moment it is made.
Named == \A o \in Objects : ident[o] # 0 <=> o \in Made

\* Objects that are not flagged are in the game.
UnmarkedIsActive == Made \ marked \subseteq mActiveObjects

IdTypes ==
    /\ made \in 0..MaxObjects
    /\ ident \in [Objects -> Nat]
    /\ marked \subseteq Made
    /\ DOMAIN mObjects \subseteq Nat \ {0}
    /\ \A i \in DOMAIN mObjects : mObjects[i] \in Made
    /\ mObjects = [i \in DOMAIN mObjects |-> mObjects[i]]
    /\ mActiveObjects \subseteq Made
    /\ mMarkedObjects \in Seq(Made)
    /\ sNextId \in Nat \ {0}
    /\ mOpenObjectIds \in Seq(Nat \ {0})

\* The inductive invariant of the ids.
IdInv == IdTypes /\ Named /\ UnmarkedIsActive /\ TablesAgree /\ IdsAccounted
         /\ QueueExact

\* What several calls of GetNextObjectId in a row return: ids that are in no
\* use, each a different one, so that Create always inserts.
LEMMA NewIdsAreNew ==
    ASSUME IdTypes, IdsAccounted, NEW n \in Nat
    PROVE  /\ \A m \in 1..n : NewId(m) \in Nat \ {0}
           /\ \A m \in 1..n : NewId(m) \notin DOMAIN mObjects
           /\ \A m, k \in 1..n : NewId(m) = NewId(k) => m = k
           /\ \A m \in 1..n : Inserted(m)
           /\ NewObjects(n) = made + 1 .. made + n
<1> DEFINE len == Len(mOpenObjectIds)
           open == {mOpenObjectIds[k] : k \in 1..len}
<1>1. len \in Nat /\ sNextId \in Nat \ {0}
      /\ \A k \in 1..len : mOpenObjectIds[k] \in Nat \ {0}
  BY DEF IdTypes
<1>2. /\ \A k \in 1..len : mOpenObjectIds[k] < sNextId
      /\ \A k \in 1..len : mOpenObjectIds[k] \notin DOMAIN mObjects
      /\ \A k, l \in 1..len : mOpenObjectIds[k] = mOpenObjectIds[l] => k = l
      /\ \A i \in DOMAIN mObjects : i < sNextId
  <2>1. open \subseteq 1..sNextId - 1 /\ DOMAIN mObjects \subseteq 1..sNextId - 1
    BY DEF IdsAccounted
  <2> QED
    BY <1>1, <2>1 DEF IdsAccounted
<1>3. ASSUME NEW m \in 1..n, m <= len
      PROVE  /\ NewId(m) = mOpenObjectIds[len - m + 1]
             /\ len - m + 1 \in 1..len
  BY <1>1, <1>3 DEF NewId
<1>4. ASSUME NEW m \in 1..n, ~(m <= len)
      PROVE  /\ NewId(m) = sNextId + (m - len - 1)
             /\ NewId(m) \in Nat /\ NewId(m) >= sNextId
  BY <1>1, <1>4 DEF NewId
<1>5. \A m \in 1..n : NewId(m) \in Nat \ {0}
  BY <1>1, <1>3, <1>4
<1>6. \A m \in 1..n : NewId(m) \notin DOMAIN mObjects
  <2> SUFFICES ASSUME NEW m \in 1..n PROVE NewId(m) \notin DOMAIN mObjects
    OBVIOUS
  <2>1. CASE m <= len
    BY <2>1, <1>2, <1>3
  <2>2. CASE ~(m <= len)
    BY <2>2, <1>1, <1>2, <1>4
  <2> QED
    BY <2>1, <2>2
<1>7. \A m, k \in 1..n : NewId(m) = NewId(k) => m = k
  <2> SUFFICES ASSUME NEW m \in 1..n, NEW k \in 1..n, NewId(m) = NewId(k)
               PROVE  m = k
    OBVIOUS
  <2>1. CASE m <= len /\ k <= len
    <3>1. len - m + 1 \in 1..len /\ len - k + 1 \in 1..len
          /\ mOpenObjectIds[len - m + 1] = mOpenObjectIds[len - k + 1]
      BY <2>1, <1>3
    <3>2. len - m + 1 = len - k + 1
      BY <3>1, <1>2
    <3> QED
      BY <3>2, <1>1
  <2>2. CASE m <= len /\ ~(k <= len)
    <3>1. NewId(m) < sNextId
      BY <2>2, <1>2, <1>3
    <3> QED
      BY <2>2, <3>1, <1>1, <1>4
  <2>3. CASE ~(m <= len) /\ k <= len
    <3>1. NewId(k) < sNextId
      BY <2>3, <1>2, <1>3
    <3> QED
      BY <2>3, <3>1, <1>1, <1>4
  <2>4. CASE ~(m <= len) /\ ~(k <= len)
    BY <2>4, <1>1, <1>4
  <2> QED
    BY <2>1, <2>2, <2>3, <2>4
<1>8. \A m \in 1..n : Inserted(m)
  BY <1>6, <1>7 DEF Inserted
<1>9. NewObjects(n) = made + 1 .. made + n
  <2>1. {k \in 1..n : Inserted(k)} = 1..n
    BY <1>8
  <2>2. made \in Nat
    BY DEF IdTypes
  <2>3. NewObjects(n) = {made + m : m \in 1..n}
    BY <2>1 DEF NewObjects
  <2>4. ASSUME NEW o \in made + 1 .. made + n PROVE o \in NewObjects(n)
    <3>1. o - made \in 1..n /\ o = made + (o - made)
      BY <2>2
    <3> QED
      BY <3>1, <2>3
  <2>5. \A o \in NewObjects(n) : o \in made + 1 .. made + n
    BY <2>2, <2>3
  <2> QED
    BY <2>4, <2>5
<1> QED
  BY <1>5, <1>6, <1>7, <1>8, <1>9

\* What Create does to the tables, given that its ids are new.
LEMMA CreateEffect ==
    ASSUME IdTypes, IdsAccounted, NEW n \in Nat, CreateStep(n)
    PROVE  /\ made + n <= MaxObjects /\ made' = made + n
           /\ ident' \in [Objects -> Nat]
           /\ \A o \in Objects \ (made + 1 .. made + n) : ident'[o] = ident[o]
           /\ \A m \in 1..n : ident'[made + m] = NewId(m)
           /\ sNextId' = NextId(n) /\ mOpenObjectIds' = StillOpen(n)
           /\ DOMAIN mObjects' = DOMAIN mObjects \cup {NewId(m) : m \in 1..n}
           /\ \A i \in DOMAIN mObjects : mObjects'[i] = mObjects[i]
           /\ \A m \in 1..n : mObjects'[NewId(m)] = made + m
           /\ mObjects' = [i \in DOMAIN mObjects' |-> mObjects'[i]]
           /\ mActiveObjects' = mActiveObjects \cup (made + 1 .. made + n)
<1> DEFINE new == made + 1 .. made + n
           ids == {NewId(o - made) : o \in new}
<1>1. PICK kinds \in Seq(Kinds) : Len(kinds) = n /\ Create(kinds)
  BY DEF CreateStep
<1>2. made \in Nat /\ MaxObjects \in Nat
  BY GameObjectsAssumption DEF IdTypes
<1>3. NewObjects(n) = new
  BY NewIdsAreNew
<1>4. /\ made + n <= MaxObjects /\ made' = made + n
      /\ ident' = [o \in Objects |-> IF o \in new THEN NewId(o - made)
                                                  ELSE ident[o]]
      /\ sNextId' = NextId(n) /\ mOpenObjectIds' = StillOpen(n)
      /\ mObjects' = [i \in DOMAIN mObjects \cup ids |->
                        IF i \in DOMAIN mObjects THEN mObjects[i]
                        ELSE CHOOSE o \in new : NewId(o - made) = i]
      /\ mActiveObjects' = mActiveObjects \cup new
  BY <1>1, <1>3 DEF Create
<1>5. \A m \in 1..n : made + m \in new /\ (made + m) - made = m
                      /\ made + m \in Objects
  BY <1>2, <1>4 DEF Objects
<1>6. \A o \in new : o - made \in 1..n /\ o = made + (o - made)
  BY <1>2
<1>7. ids = {NewId(m) : m \in 1..n}
  BY <1>5, <1>6
<1>8. ident' \in [Objects -> Nat]
  BY <1>4, <1>6, NewIdsAreNew DEF IdTypes
<1>9. \A m \in 1..n : ident'[made + m] = NewId(m)
  BY <1>4, <1>5
<1>10. ASSUME NEW m \in 1..n PROVE mObjects'[NewId(m)] = made + m
  <2>1. NewId(m) \notin DOMAIN mObjects /\ NewId(m) \in ids
    BY <1>7, NewIdsAreNew
  <2>2. mObjects'[NewId(m)] = CHOOSE o \in new : NewId(o - made) = NewId(m)
    BY <1>4, <2>1
  <2>3. \A o \in new : NewId(o - made) = NewId(m) => o = made + m
    BY <1>6, NewIdsAreNew
  <2>4. made + m \in new /\ NewId((made + m) - made) = NewId(m)
    BY <1>5
  <2> DEFINE P(o) == o \in new /\ NewId(o - made) = NewId(m)
             first == CHOOSE o : P(o)
  <2>5. P(first)
    <3> HIDE DEF P
    <3>1. \E o : P(o)
      BY <2>4 DEF P
    <3> QED
      BY <3>1
  <2>6. mObjects'[NewId(m)] = first
    BY <2>2
  <2> QED
    BY <2>3, <2>5, <2>6
<1>11. /\ DOMAIN mObjects' = DOMAIN mObjects \cup {NewId(m) : m \in 1..n}
       /\ \A i \in DOMAIN mObjects : mObjects'[i] = mObjects[i]
       /\ mObjects' = [i \in DOMAIN mObjects' |-> mObjects'[i]]
  <2> DEFINE val(i) == IF i \in DOMAIN mObjects THEN mObjects[i]
                       ELSE CHOOSE o \in new : NewId(o - made) = i
  <2>1. mObjects' = [i \in DOMAIN mObjects \cup ids |-> val(i)]
    BY <1>4
  <2>2. \A i \in DOMAIN mObjects : val(i) = mObjects[i]
    OBVIOUS
  <2> HIDE DEF val, ids
  <2> QED
    BY <1>7, <2>1, <2>2
<1>12. \A o \in Objects \ (made + 1 .. made + n) : ident'[o] = ident[o]
  BY <1>4
<1> QED
  BY <1>4, <1>8, <1>9, <1>10, <1>11, <1>12

\* The ids that StillOpen(n) and the first n new ids are made of: those that
\* were open, and those that the counter passed.
LEMMA IdsMove ==
    ASSUME IdTypes, IdsAccounted, NEW n \in Nat
    PROVE  LET left == {StillOpen(n)[k] : k \in 1..Len(StillOpen(n))}
               new == {NewId(m) : m \in 1..n}
           IN  /\ StillOpen(n) \in Seq(Nat \ {0})
               /\ NextId(n) \in Nat \ {0}
               /\ DOMAIN mObjects \cup new \cup left = 1..NextId(n) - 1
               /\ (DOMAIN mObjects \cup new) \cap left = {}
               /\ \A k, l \in 1..Len(StillOpen(n)) :
                     StillOpen(n)[k] = StillOpen(n)[l] => k = l
<1> DEFINE len == Len(mOpenObjectIds)
           open == {mOpenObjectIds[k] : k \in 1..len}
           left == {StillOpen(n)[k] : k \in 1..Len(StillOpen(n))}
           new == {NewId(m) : m \in 1..n}
<1>1. len \in Nat /\ sNextId \in Nat \ {0}
      /\ mOpenObjectIds \in Seq(Nat \ {0})
      /\ \A k \in 1..len : mOpenObjectIds[k] \in Nat \ {0}
  BY DEF IdTypes
<1>2. /\ DOMAIN mObjects \cup open = 1..sNextId - 1
      /\ DOMAIN mObjects \cap open = {}
      /\ \A k, l \in 1..len : mOpenObjectIds[k] = mOpenObjectIds[l] => k = l
  BY DEF IdsAccounted
<1>3. CASE n <= len
  <2>1. StillOpen(n) = SubSeq(mOpenObjectIds, 1, len - n) /\ NextId(n) = sNextId
    BY <1>3 DEF StillOpen, NextId
  <2>2. /\ Len(StillOpen(n)) = len - n
        /\ StillOpen(n) \in Seq(Nat \ {0})
        /\ \A k \in 1..len - n : StillOpen(n)[k] = mOpenObjectIds[k]
    BY <2>1, <1>1, <1>3
  <2>3. \A m \in 1..n : NewId(m) = mOpenObjectIds[len - m + 1]
                        /\ len - m + 1 \in len - n + 1 .. len
    BY <1>1, <1>3 DEF NewId
  <2>4. left = {mOpenObjectIds[k] : k \in 1..len - n}
    BY <2>2
  <2>5. new = {mOpenObjectIds[k] : k \in len - n + 1 .. len}
    <3>1. ASSUME NEW k \in len - n + 1 .. len PROVE mOpenObjectIds[k] \in new
      <4>1. len - k + 1 \in 1..n /\ len - (len - k + 1) + 1 = k
        BY <1>1, <1>3
      <4>2. NewId(len - k + 1) = mOpenObjectIds[k]
        BY <4>1, <2>3
      <4> QED
        BY <4>1, <4>2
    <3> QED
      BY <2>3, <3>1
  <2>6. new \cup left = open
    <3>1. 1..len = (1..len - n) \cup (len - n + 1 .. len)
      BY <1>1, <1>3
    <3> QED
      BY <2>4, <2>5, <3>1
  <2>7. new \cap left = {}
    <3>1. ASSUME NEW k \in 1..len - n, NEW l \in len - n + 1 .. len
          PROVE  mOpenObjectIds[k] # mOpenObjectIds[l]
      <4>1. k \in 1..len /\ l \in 1..len /\ k # l
        BY <1>1, <1>3
      <4> QED
        BY <4>1, <1>2
    <3> QED
      BY <2>4, <2>5, <3>1
  <2>8. ASSUME NEW k \in 1..Len(StillOpen(n)), NEW l \in 1..Len(StillOpen(n)),
               StillOpen(n)[k] = StillOpen(n)[l]
        PROVE  k = l
    <3>1. k \in 1..len - n /\ l \in 1..len - n
      BY <2>2
    <3>2. mOpenObjectIds[k] = mOpenObjectIds[l]
      BY <2>2, <2>8, <3>1
    <3>3. k \in 1..len /\ l \in 1..len
      BY <1>1, <3>1
    <3> QED
      BY <1>2, <3>2, <3>3
  <2>9. DOMAIN mObjects \cup new \cup left = 1..NextId(n) - 1
        /\ (DOMAIN mObjects \cup new) \cap left = {}
    BY <1>2, <2>1, <2>6, <2>7
  <2> QED
    BY <1>1, <2>1, <2>2, <2>8, <2>9
<1>4. CASE ~(n <= len)
  <2>1. StillOpen(n) = <<>> /\ NextId(n) = sNextId + (n - len)
    BY <1>4 DEF StillOpen, NextId
  <2>2. left = {} /\ Len(StillOpen(n)) = 0
    BY <2>1
  <2>3. open \subseteq new
    <3>1. ASSUME NEW k \in 1..len PROVE mOpenObjectIds[k] \in new
      <4>1. len - k + 1 \in 1..n /\ len - k + 1 <= len
            /\ len - (len - k + 1) + 1 = k
        BY <1>1, <1>4
      <4>2. NewId(len - k + 1) = mOpenObjectIds[k]
        BY <4>1 DEF NewId
      <4> QED
        BY <4>1, <4>2
    <3> QED
      BY <3>1
  <2>4. sNextId .. sNextId + (n - len) - 1 \subseteq new
    <3>1. ASSUME NEW i \in sNextId .. sNextId + (n - len) - 1 PROVE i \in new
      <4>1. i - sNextId + len + 1 \in 1..n /\ ~(i - sNextId + len + 1 <= len)
            /\ sNextId + ((i - sNextId + len + 1) - len - 1) = i
        BY <1>1, <1>4
      <4>2. NewId(i - sNextId + len + 1) = i
        BY <4>1 DEF NewId
      <4> QED
        BY <4>1, <4>2
    <3> QED
      BY <3>1
  <2>5. \A m \in 1..n : NewId(m) \in open
                        \/ NewId(m) \in sNextId .. sNextId + (n - len) - 1
    BY <1>1, <1>4 DEF NewId
  <2>6. new = open \cup (sNextId .. sNextId + (n - len) - 1)
    BY <2>3, <2>4, <2>5
  <2>7. (1..sNextId - 1) \cup (sNextId .. sNextId + (n - len) - 1)
          = 1..NextId(n) - 1
    BY <1>1, <1>4, <2>1
  <2>8. DOMAIN mObjects \cup new = 1..NextId(n) - 1
    <3> HIDE DEF open, new
    <3> QED
      BY <1>2, <2>6, <2>7
  <2>9. NextId(n) \in Nat \ {0} /\ StillOpen(n) \in Seq(Nat \ {0})
    BY <1>1, <1>4, <2>1
  <2> QED
    BY <2>2, <2>8, <2>9
<1> QED
  BY <1>1, <1>3, <1>4

\* The invariant of the ids survives Create.
LEMMA CreateKeeps ==
    ASSUME IdInv, NEW n \in Nat, CreateStep(n)
    PROVE  IdInv'
<1> DEFINE new == made + 1 .. made + n
           ids == {NewId(m) : m \in 1..n}
<1> USE DEF IdInv
<1>1. made \in Nat /\ MaxObjects \in Nat /\ made <= MaxObjects
  BY GameObjectsAssumption DEF IdTypes
<1>2. /\ made + n <= MaxObjects /\ made' = made + n
      /\ ident' \in [Objects -> Nat]
      /\ \A o \in Objects \ new : ident'[o] = ident[o]
      /\ \A m \in 1..n : ident'[made + m] = NewId(m)
  BY CreateEffect
<1>3. /\ sNextId' = NextId(n) /\ mOpenObjectIds' = StillOpen(n)
      /\ DOMAIN mObjects' = DOMAIN mObjects \cup ids
      /\ \A i \in DOMAIN mObjects : mObjects'[i] = mObjects[i]
      /\ \A m \in 1..n : mObjects'[NewId(m)] = made + m
      /\ mObjects' = [i \in DOMAIN mObjects' |-> mObjects'[i]]
      /\ mActiveObjects' = mActiveObjects \cup new
  BY CreateEffect
<1>4. marked' = marked /\ mMarkedObjects' = mMarkedObjects
  BY DEF CreateStep
<1>5. /\ \A m \in 1..n : NewId(m) \in Nat \ {0}
      /\ \A m \in 1..n : NewId(m) \notin DOMAIN mObjects
      /\ \A m, k \in 1..n : NewId(m) = NewId(k) => m = k
  BY NewIdsAreNew
<1>6. Made' = Made \cup new /\ Made \cap new = {} /\ Made' \subseteq Objects
  BY <1>1, <1>2 DEF Made, Objects
<1>7. \A o \in new : o - made \in 1..n /\ o = made + (o - made)
                    /\ ident'[o] = NewId(o - made)
  <2>1. \A o \in new : o - made \in 1..n /\ o = made + (o - made)
    BY <1>1
  <2> QED
    BY <1>2, <2>1
<1>8. \A m \in 1..n : made + m \in new
  BY <1>1
<1>9. \A o \in Made : ident'[o] = ident[o]
  BY <1>2, <1>6
<1> HIDE DEF new, ids
<1>10. IdTypes'
  <2>1. made' \in 0..MaxObjects
    BY <1>1, <1>2
  <2>2. marked' \subseteq Made' /\ mActiveObjects' \subseteq Made'
    BY <1>3, <1>4, <1>6 DEF IdTypes
  <2>3. mMarkedObjects' \in Seq(Made')
    BY <1>4, <1>6 DEF IdTypes
  <2>4. sNextId' \in Nat \ {0} /\ mOpenObjectIds' \in Seq(Nat \ {0})
    BY <1>3, IdsMove
  <2>5. DOMAIN mObjects' \subseteq Nat \ {0}
    BY <1>3, <1>5 DEF IdTypes, ids
  <2>6. ASSUME NEW i \in DOMAIN mObjects' PROVE mObjects'[i] \in Made'
    <3>1. CASE i \in DOMAIN mObjects
      BY <3>1, <1>3, <1>6 DEF IdTypes
    <3>2. CASE i \in ids
      BY <3>2, <1>3, <1>6, <1>8 DEF ids
    <3> QED
      BY <2>6, <3>1, <3>2, <1>3
  <2> QED
    BY <1>2, <1>3, <2>1, <2>2, <2>3, <2>4, <2>5, <2>6 DEF IdTypes
<1>11. Named'
  <2> SUFFICES ASSUME NEW o \in Objects PROVE ident'[o] # 0 <=> o \in Made'
    BY DEF Named
  <2>1. CASE o \in new
    BY <2>1, <1>5, <1>6, <1>7
  <2>2. CASE o \notin new
    BY <2>2, <1>2, <1>6 DEF Named
  <2> QED
    BY <2>1, <2>2
<1>12. UnmarkedIsActive'
  BY <1>3, <1>4, <1>6 DEF UnmarkedIsActive
<1>13. TablesAgree'
  <2>1. ASSUME NEW i \in DOMAIN mObjects'
        PROVE  mObjects'[i] \in mActiveObjects' /\ ident'[mObjects'[i]] = i
    <3>1. CASE i \in DOMAIN mObjects
      BY <3>1, <1>3, <1>9 DEF TablesAgree, IdTypes
    <3>2. CASE i \in ids
      BY <3>2, <1>2, <1>3, <1>8 DEF ids
    <3> QED
      BY <2>1, <3>1, <3>2, <1>3
  <2>2. ASSUME NEW o \in mActiveObjects'
        PROVE  ident'[o] \in DOMAIN mObjects' /\ mObjects'[ident'[o]] = o
    <3>1. CASE o \in mActiveObjects
      BY <3>1, <1>3, <1>9 DEF TablesAgree, IdTypes
    <3>2. CASE o \in new
      BY <3>2, <1>3, <1>7 DEF ids
    <3> QED
      BY <2>2, <3>1, <3>2, <1>3
  <2> QED
    BY <2>1, <2>2 DEF TablesAgree
<1>14. IdsAccounted'
  <2> DEFINE seq == StillOpen(n)
             left == {seq[k] : k \in 1..Len(seq)}
  <2>1. /\ DOMAIN mObjects \cup ids \cup left = 1..NextId(n) - 1
        /\ (DOMAIN mObjects \cup ids) \cap left = {}
        /\ \A k, l \in 1..Len(seq) : seq[k] = seq[l] => k = l
    BY IdsMove DEF ids
  <2>2. mOpenObjectIds' = seq
    BY <1>3
  <2> HIDE DEF seq
  <2>3. left = {mOpenObjectIds'[k] : k \in 1..Len(mOpenObjectIds')}
    BY <2>2
  <2> HIDE DEF left
  <2> QED
    BY <1>3, <2>1, <2>2, <2>3 DEF IdsAccounted
<1>15. QueueExact'
  BY <1>3, <1>4, <1>6 DEF QueueExact, Doomed, IdTypes
<1> QED
  BY <1>10, <1>11, <1>12, <1>13, <1>14, <1>15

\* ... and MarkForDeletion ...
LEMMA MarkKeeps ==
    ASSUME IdInv, NEW o \in Made, MarkStep(o)
    PROVE  IdInv'
<1> USE DEF IdInv
<1>1. /\ made' = made /\ ident' = ident /\ mObjects' = mObjects
      /\ mActiveObjects' = mActiveObjects /\ sNextId' = sNextId
      /\ mOpenObjectIds' = mOpenObjectIds
      /\ marked' = marked \cup {o}
  BY DEF MarkStep, MarkForDeletion
<1>2. mMarkedObjects' \in Seq(Made)
  BY DEF MarkStep, MarkForDeletion, IdTypes
<1>3. IdTypes'
  BY <1>1, <1>2 DEF IdTypes, Made
<1>4. Named' /\ UnmarkedIsActive' /\ TablesAgree' /\ IdsAccounted'
  BY <1>1 DEF Named, UnmarkedIsActive, TablesAgree, IdsAccounted, Made
<1>5. CASE o \in marked
  <2>1. marked' = marked /\ mMarkedObjects' = mMarkedObjects
    BY <1>1, <1>5 DEF MarkStep, MarkForDeletion
  <2>2. QueueExact'
    BY <1>1, <2>1 DEF QueueExact, Doomed
  <2> QED
    BY <1>3, <1>4, <2>2
<1>6. CASE o \notin marked
  <2> DEFINE len == Len(mMarkedObjects)
  <2>1. o \in mActiveObjects
    BY <1>6 DEF UnmarkedIsActive
  <2>2. mMarkedObjects' = Append(mMarkedObjects, o)
    BY <1>6 DEF MarkStep, MarkForDeletion
  <2>3. /\ len \in Nat /\ Len(mMarkedObjects') = len + 1
        /\ \A n \in 1..len : mMarkedObjects'[n] = mMarkedObjects[n]
        /\ mMarkedObjects'[len + 1] = o
    BY <2>2 DEF IdTypes
  <2>4. Doomed' = Doomed \cup {o}
    <3>1. 1..len + 1 = (1..len) \cup {len + 1}
      BY <2>3
    <3> QED
      BY <2>3, <3>1 DEF Doomed
  <2>5. \A n \in 1..len : mMarkedObjects[n] \in marked
    BY DEF QueueExact, Doomed
  <2>6. ASSUME NEW n \in 1..len + 1, NEW m \in 1..len + 1,
               mMarkedObjects'[n] = mMarkedObjects'[m]
        PROVE  n = m
    <3>1. CASE n = len + 1 \/ m = len + 1
      BY <3>1, <1>6, <2>3, <2>5, <2>6
    <3>2. CASE n \in 1..len /\ m \in 1..len
      BY <3>2, <2>3, <2>6 DEF QueueExact
    <3> QED
      BY <3>1, <3>2, <2>3
  <2>7. QueueExact'
    BY <1>1, <2>1, <2>3, <2>4, <2>6 DEF QueueExact
  <2> QED
    BY <1>3, <1>4, <2>7
<1> QED
  BY <1>5, <1>6

\* ... and the deletions that end an update.
LEMMA DeletionKeeps ==
    ASSUME IdInv, EndUpdate
    PROVE  IdInv'
<1> DEFINE len == Len(mOpenObjectIds)
           num == Len(mMarkedObjects)
           back == [n \in 1..num |-> ident[mMarkedObjects[n]]]
           open == {mOpenObjectIds[n] : n \in 1..len}
           open2 == {mOpenObjectIds'[n] : n \in 1..Len(mOpenObjectIds')}
<1> USE DEF IdInv
<1>1. /\ made' = made /\ ident' = ident /\ marked' = marked
      /\ sNextId' = sNextId
      /\ mActiveObjects' = mActiveObjects \ Doomed
      /\ mObjects' = [i \in DOMAIN mObjects \ DoomedIds |-> mObjects[i]]
      /\ mMarkedObjects' = <<>>
      /\ mOpenObjectIds' = mOpenObjectIds \o back
  BY DEF EndUpdate
<1>2. /\ len \in Nat /\ num \in Nat
      /\ \A n \in 1..num : mMarkedObjects[n] \in Doomed
      /\ Doomed = marked \cap mActiveObjects
      /\ Doomed \subseteq Made /\ Made \subseteq Objects
  BY GameObjectsAssumption DEF IdTypes, Doomed, QueueExact, Made, Objects
<1>3. \A o \in Doomed : ident[o] \in Nat \ {0}
  BY <1>2 DEF Named, IdTypes
<1>4. back \in Seq(Nat \ {0}) /\ Len(back) = num
      /\ \A n \in 1..num : back[n] = ident[mMarkedObjects[n]]
  BY <1>2, <1>3
<1>5. DoomedIds = {back[n] : n \in 1..num}
  BY <1>4 DEF DoomedIds, Doomed
<1>6. \A n, m \in 1..num : back[n] = back[m] => n = m
  <2> SUFFICES ASSUME NEW n \in 1..num, NEW m \in 1..num, back[n] = back[m]
               PROVE  n = m
    OBVIOUS
  <2>1. mMarkedObjects[n] = mMarkedObjects[m]
    BY <1>2, <1>4 DEF TablesAgree
  <2> QED
    BY <2>1 DEF QueueExact
<1>7. DoomedIds \subseteq DOMAIN mObjects
      /\ \A i \in DOMAIN mObjects : i \in DoomedIds <=> mObjects[i] \in Doomed
  BY <1>2 DEF DoomedIds, TablesAgree
<1> HIDE DEF back
<1>8. /\ mOpenObjectIds' \in Seq(Nat \ {0})
      /\ Len(mOpenObjectIds') = len + num
      /\ \A n \in 1..len : mOpenObjectIds'[n] = mOpenObjectIds[n]
      /\ \A n \in 1..num : mOpenObjectIds'[len + n] = back[n]
  <2>1. mOpenObjectIds \in Seq(Nat \ {0})
    BY DEF IdTypes
  <2>2. /\ mOpenObjectIds' \in Seq(Nat \ {0})
        /\ Len(mOpenObjectIds') = len + num
        /\ \A n \in 1..len + num : mOpenObjectIds'[n] =
              IF n <= len THEN mOpenObjectIds[n] ELSE back[n - len]
    <3> HIDE DEF len, num
    <3> QED
      BY <2>1, <1>1, <1>4, ConcatProperties, Zenon DEF len
  <2>3. \A n \in 1..len : n \in 1..len + num /\ n <= len
    BY <1>2
  <2>4. \A n \in 1..num : len + n \in 1..len + num /\ ~(len + n <= len)
                         /\ (len + n) - len = n
    BY <1>2
  <2> HIDE DEF len, num
  <2> QED
    BY <2>2, <2>3, <2>4
<1>9. \A n \in len + 1 .. len + num : n - len \in 1..num /\ n = len + (n - len)
                                    /\ mOpenObjectIds'[n] = back[n - len]
  <2>1. \A n \in len + 1 .. len + num : n - len \in 1..num
                                       /\ n = len + (n - len)
    BY <1>2
  <2> QED
    BY <2>1, <1>8
<1>10. 1..len + num = (1..len) \cup (len + 1 .. len + num)
       /\ \A n \in 1..num : len + n \in len + 1 .. len + num
  BY <1>2
<1>11. open2 = open \cup DoomedIds
  <2>1. \A n \in 1..len + num : mOpenObjectIds'[n] \in open \cup DoomedIds
    BY <1>5, <1>8, <1>9, <1>10
  <2>2. \A n \in 1..len : n \in 1..len + num
                         /\ mOpenObjectIds'[n] = mOpenObjectIds[n]
    BY <1>8, <1>10
  <2>3. \A n \in 1..num : len + n \in 1..len + num
                         /\ mOpenObjectIds'[len + n] = back[n]
    BY <1>8, <1>10
  <2>4. open2 = {mOpenObjectIds'[n] : n \in 1..len + num}
    BY <1>8
  <2>5. open \subseteq open2
    BY <2>2, <2>4
  <2>6. DoomedIds \subseteq open2
    BY <1>5, <2>3, <2>4
  <2>7. open2 \subseteq open \cup DoomedIds
    BY <2>1, <2>4
  <2> QED
    BY <2>5, <2>6, <2>7
<1>12. open \cap DoomedIds = {}
  BY <1>7 DEF IdsAccounted
<1>13. ASSUME NEW n \in 1..len + num, NEW m \in 1..len + num,
              mOpenObjectIds'[n] = mOpenObjectIds'[m]
       PROVE  n = m
  <2>1. CASE n \in 1..len /\ m \in 1..len
    BY <2>1, <1>8, <1>13 DEF IdsAccounted
  <2>a. \A k \in 1..len : mOpenObjectIds'[k] \in open
    BY <1>8
  <2>b. \A k \in len + 1 .. len + num : mOpenObjectIds'[k] \in DoomedIds
    BY <1>5, <1>9
  <2>2. CASE n \in 1..len /\ m \in len + 1 .. len + num
    BY <2>2, <2>a, <2>b, <1>12, <1>13
  <2>3. CASE n \in len + 1 .. len + num /\ m \in 1..len
    BY <2>3, <2>a, <2>b, <1>12, <1>13
  <2>4. CASE n \in len + 1 .. len + num /\ m \in len + 1 .. len + num
    BY <2>4, <1>6, <1>9, <1>13
  <2> QED
    BY <1>10, <2>1, <2>2, <2>3, <2>4
<1>14. IdTypes'
  BY <1>1, <1>8 DEF IdTypes, Made
<1>15. Named' /\ UnmarkedIsActive'
  BY <1>1, <1>2 DEF Named, UnmarkedIsActive, Made
<1>16. TablesAgree'
  BY <1>1, <1>7 DEF TablesAgree, DoomedIds
<1>17. IdsAccounted'
  BY <1>1, <1>7, <1>8, <1>11, <1>13 DEF IdsAccounted
<1>18. QueueExact'
  BY <1>1, <1>2 DEF QueueExact, Doomed
<1> QED
  BY <1>14, <1>15, <1>16, <1>17, <1>18

-----------------------------------------------------------------------------
(***************************************************************************)
(* From the ways the ids may change to the actions.                        *)
(***************************************************************************)

\* A list of n times the same kind.
LEMMA Copies ==
    ASSUME NEW n \in Nat, NEW k \in Kinds
    PROVE  [m \in 1..n |-> k] \in Seq(Kinds) /\ Len([m \in 1..n |-> k]) = n
OBVIOUS

\* What scripts drop.
LEMMA DropsAreKinds == Drops \subseteq Seq(Kinds)
BY DEF Drops, Kinds

\* Every step creates, marks or deletes, or leaves the ids alone.
LEMMA StepKinds ==
    ASSUME IdTypes, [Next]_vars
    PROVE  \/ UNCHANGED idState
           \/ \E n \in Nat : CreateStep(n)
           \/ \E o \in Made : MarkStep(o)
           \/ EndUpdate
<1> USE DEF idState, idVars, netVars, loopVars, historyVars
<1>a. SquadSize \in Nat /\ LevelObjects \in Nat /\ DropCount \in Nat
      /\ {"crystal", "loot", "hero", "other"} = Kinds
  BY GameObjectsAssumption DEF Kinds
<1>b. ASSUME NEW c \in Clients, NEW kinds \in Seq(Kinds), Drop(c, kinds)
      PROVE  CreateStep(Len(kinds))
  BY <1>b DEF Drop, CreateStep
<1>c. \A kinds \in Seq(Kinds) : Len(kinds) \in Nat
  OBVIOUS
<1>d. \A i : Takeable(i) \subseteq Made
  BY DEF Takeable, IdTypes
<1>1. ASSUME NEW c \in Clients, Session(c) PROVE UNCHANGED idState
                                            \/ \E n \in Nat : CreateStep(n)
  <2>1. CASE Connect(c) \/ Disconnect(c) \/ HelloPlayer(c) \/ StartGame(c)
             \/ BeamOut(c)
    BY <2>1 DEF Connect, Disconnect, HelloPlayer, StartGame, BeamOut
  <2>2. CASE PrepareGameStart(c)
    <3>1. CreateStep(SquadSize)
      BY <2>2, <1>a, Copies DEF PrepareGameStart, CreateStep
    <3> QED
      BY <3>1, <1>a
  <2>3. CASE OnPlayerStart(c)
    <3>1. CreateStep(LevelObjects)
      BY <2>3, <1>a, Copies DEF OnPlayerStart, CreateStep
    <3> QED
      BY <3>1, <1>a
  <2> QED
    BY <1>1, <2>1, <2>2, <2>3 DEF Session
<1>2. ASSUME NEW c \in Clients, Play(c)
      PROVE  (\E n \in Nat : CreateStep(n)) \/ (\E o \in Made : MarkStep(o))
  <2>1. ASSUME NEW i \in Objects, PickupLoot(c, i)
        PROVE  \E o \in Made : MarkStep(o)
    BY <2>1, <1>d DEF PickupLoot, MarkStep
  <2>2. ASSUME NEW i \in Objects, PickupCatalyst(c, i)
        PROVE  \E o \in Made : MarkStep(o)
    BY <2>2, <1>d DEF PickupCatalyst, MarkStep
  <2>3. <<"other", "crystal">> \in Seq(Kinds) /\ <<"crystal">> \in Seq(Kinds)
    BY <1>a
  <2>4. ASSUME NEW i \in Objects, OpenObject(c, i)
        PROVE  \E n \in Nat : CreateStep(n)
    BY <2>3, <2>4, <1>b, <1>c DEF OpenObject
  <2>5. CASE DropCatalyst(c)
    BY <2>3, <2>5, <1>b, <1>c DEF DropCatalyst
  <2>6. CASE DropCatalysts(c)
    <3>1. [n \in 1..DropCount |-> "crystal"] \in Seq(Kinds)
      BY <1>a, Copies
    <3> QED
      BY <3>1, <2>6, <1>b, <1>c DEF DropCatalysts
  <2> QED
    BY <1>2, <2>1, <2>2, <2>4, <2>5, <2>6 DEF Play
<1>3. CASE Script
  <2>1. ASSUME NEW o \in Made, ScriptMark(o) PROVE MarkStep(o)
    BY <2>1 DEF ScriptMark, MarkStep
  <2>2. ASSUME NEW k \in {"loot", "other"}, ScriptCreate(k) PROVE CreateStep(1)
    <3>1. <<k>> \in Seq(Kinds) /\ Len(<<k>>) = 1
      BY <1>a
    <3> QED
      BY <3>1, <2>2 DEF ScriptCreate, CreateStep
  <2>3. CASE ScriptCreateTrigger
    <3>1. <<"other">> \in Seq(Kinds) /\ Len(<<"other">>) = 1
      BY <1>a
    <3>2. CreateStep(1)
      BY <3>1, <2>3 DEF ScriptCreateTrigger, CreateStep
    <3> QED
      BY <3>2
  <2>4. ASSUME NEW kinds \in Drops, ScriptDrop(kinds)
        PROVE  \E n \in Nat : CreateStep(n)
    <3>1. kinds \in Seq(Kinds)
      BY DropsAreKinds
    <3>2. CreateStep(Len(kinds))
      BY <3>1, <2>4 DEF ScriptDrop, CreateStep
    <3> QED
      BY <3>1, <3>2
  <2> QED
    BY <1>3, <2>1, <2>2, <2>3, <2>4 DEF Script
<1>4. CASE Update
  BY <1>4 DEF Update, BeginUpdate, BeginVisit, EndVisit, OctreeUpdate
<1>5. CASE UNCHANGED vars
  BY <1>5 DEF vars
<1> QED
  BY <1>1, <1>2, <1>3, <1>4, <1>5 DEF Next

\* Initially there is nothing to name.
LEMMA IdInvInit == Init => IdInv
<1> SUFFICES ASSUME Init PROVE IdInv
  OBVIOUS
<1>1. made = 0 /\ ident = [o \in Objects |-> 0] /\ marked = {}
      /\ mObjects = <<>> /\ mActiveObjects = {} /\ mMarkedObjects = <<>>
      /\ sNextId = 1 /\ mOpenObjectIds = <<>>
  BY DEF Init
<1>2. MaxObjects \in Nat /\ Made = {} /\ DOMAIN mObjects = {}
  BY <1>1, GameObjectsAssumption DEF Made
<1>3. mObjects = [i \in DOMAIN mObjects |-> mObjects[i]]
  BY <1>1
<1>4. IdTypes
  BY <1>1, <1>2, <1>3 DEF IdTypes
<1>5. Named /\ UnmarkedIsActive /\ TablesAgree
  BY <1>1, <1>2 DEF Named, UnmarkedIsActive, TablesAgree
<1>6. IdsAccounted
  BY <1>1, <1>2 DEF IdsAccounted
<1>7. QueueExact
  BY <1>1 DEF QueueExact, Doomed
<1> QED
  BY <1>4, <1>5, <1>6, <1>7 DEF IdInv

\* The id tables stay consistent whatever handlers, scripts and updates do.
LEMMA IdInvStep == IdInv /\ [Next]_vars => IdInv'
<1> SUFFICES ASSUME IdInv, [Next]_vars PROVE IdInv'
  OBVIOUS
<1>1. CASE UNCHANGED idState
  BY <1>1 DEF idState, IdInv, IdTypes, Named, UnmarkedIsActive, TablesAgree,
              IdsAccounted, QueueExact, Doomed, Made
<1>2. IdTypes
  BY DEF IdInv
<1> QED
  BY <1>1, <1>2, StepKinds, CreateKeeps, MarkKeeps, DeletionKeeps

\* So they are consistent in every game.
LEMMA IdInvCorrect == Spec => []IdInv
BY IdInvInit, IdInvStep, PTL DEF Spec

\* For every game: the id table and the active set agree as Create and Update
\* leave them, GetNextObjectId and Update lose no id and use none twice, and
\* mMarkedObjects holds each flagged active object once.
THEOREM GameManagerSound == Spec => []ManagerSound
<1>1. IdInv => ManagerSound
  BY DEF IdInv, ManagerSound
<1> QED
  BY <1>1, IdInvCorrect, PTL

-----------------------------------------------------------------------------
(***************************************************************************)
(* The ids are names.                                                      *)
(***************************************************************************)

\* Seen from the ids, Create gives names (or, of no objects, does nothing).
LEMMA CreateRefines ==
    ASSUME IdInv, NEW n \in Nat, CreateStep(n)
    PROVE  Names!Next
<1> DEFINE used == {o \in Objects : ident[o] # 0}
           new == made + 1 .. made + n
           ids == {NewId(m) : m \in 1..n}
<1> USE DEF IdInv
<1>1. /\ DOMAIN mObjects' = DOMAIN mObjects \cup ids
      /\ \A i \in DOMAIN mObjects : mObjects'[i] = mObjects[i]
      /\ \A m \in 1..n : mObjects'[NewId(m)] = made + m
      /\ made' = made + n /\ made + n <= MaxObjects
  BY CreateEffect
<1>2. /\ \A m \in 1..n : NewId(m) \notin DOMAIN mObjects
      /\ made \in Nat /\ MaxObjects \in Nat
  BY NewIdsAreNew, GameObjectsAssumption DEF IdTypes
<1>3. IdInv'
  BY CreateKeeps
<1>4. used = Made /\ used' = Made'
  BY <1>1, <1>2, <1>3, GameObjectsAssumption DEF Named, Made, Objects
<1>5. Made' = Made \cup new /\ Made \cap new = {}
  BY <1>1, <1>2 DEF Made
<1>6. \A m \in 1..n : made + m \in new
  BY <1>2
<1>7. \A o \in new : o - made \in 1..n /\ o = made + (o - made)
  BY <1>2
<1> HIDE DEF used, new, ids
<1>8. Names!New = ids
  BY <1>1, <1>2 DEF Names!New, ids
<1>9. CASE n = 0
  <2>1. ids = {} /\ new = {}
    BY <1>2, <1>9 DEF ids, new
  <2>2. used' = used
    BY <2>1, <1>4, <1>5
  <2>3. Names!TakeBack
    BY <2>1, <2>2, <1>1 DEF Names!TakeBack, used
  <2> QED
    BY <2>3 DEF Names!Next
<1>10. CASE n # 0
  <2>1. 1 \in 1..n
    BY <1>10
  <2>2. ids # {}
    BY <2>1 DEF ids
  <2>3. \A i \in ids : mObjects'[i] \in new
    BY <1>1, <1>6 DEF ids
  <2>4. \A i \in ids : mObjects'[i] \notin used
    BY <2>3, <1>4, <1>5
  <2>5. \A i, j \in ids : mObjects'[i] = mObjects'[j] => i = j
    BY <1>1, <1>2 DEF ids
  <2>6. new = {mObjects'[i] : i \in ids}
    BY <2>3, <1>1, <1>7 DEF ids
  <2>7. used' = used \cup {mObjects'[i] : i \in ids}
    BY <2>6, <1>4, <1>5
  <2>8. Names!Give
    BY <2>2, <2>4, <2>5, <2>7, <1>1, <1>8 DEF Names!Give, used
  <2> QED
    BY <2>8 DEF Names!Next
<1> QED
  BY <1>9, <1>10

\* The object manager keeps ObjectNames' promise: Create gives new names to
\* new objects, Update takes names back, nothing else touches them.
THEOREM GameNamesObjects == Spec => NamesObjects
<1>1. Init => Names!Init
  BY DEF Init, Names!Init
<1>2. IdInv /\ [Next]_vars => [Names!Next]_Names!vars
  <2> SUFFICES ASSUME IdInv, [Next]_vars PROVE [Names!Next]_Names!vars
    OBVIOUS
  <2>1. CASE UNCHANGED idState
    BY <2>1 DEF idState, Names!vars
  <2>2. ASSUME NEW o \in Made, MarkStep(o) PROVE UNCHANGED Names!vars
    BY <2>2 DEF MarkStep, Names!vars
  <2>3. CASE EndUpdate
    <3>1. Names!TakeBack
      BY <2>3 DEF EndUpdate, Names!TakeBack
    <3> QED
      BY <3>1 DEF Names!Next
  <2>4. IdTypes
    BY DEF IdInv
  <2> QED
    BY <2>1, <2>2, <2>3, <2>4, StepKinds, CreateRefines
<1> QED
  BY <1>1, <1>2, IdInvCorrect, PTL DEF Spec, NamesObjects, Names!Spec

-----------------------------------------------------------------------------
(***************************************************************************)
(* Catalysts, the octree, the update's loop and the clients' views.        *)
(***************************************************************************)

\* A catalyst that was given to a player is flagged, and stays so.
AwardInv ==
    /\ awards \in [Objects -> Nat]
    /\ \A o \in Objects : awards[o] <= 1 /\ (awards[o] = 1 => o \in marked)

\* Flags are never cleared, and a pickup flags what it gives.
LEMMA AwardStep == IdInv /\ AwardInv /\ [Next]_vars => AwardInv'
<1> SUFFICES ASSUME IdInv, AwardInv, [Next]_vars PROVE AwardInv'
  OBVIOUS
<1> USE DEF idVars, netVars, loopVars, historyVars
<1>1. IdTypes
  BY DEF IdInv
<1>2. marked \subseteq marked'
  BY <1>1, StepKinds DEF idState, CreateStep, MarkStep, MarkForDeletion,
                         EndUpdate
<1>3. CASE awards' = awards
  BY <1>2, <1>3 DEF AwardInv
<1>4. ASSUME NEW c \in Clients, NEW i \in Objects, PickupCatalyst(c, i)
      PROVE  AwardInv'
  <2>1. PICK o \in Takeable(i) : MarkForDeletion(o)
                               /\ awards' = [awards EXCEPT ![o] = @ + 1]
    BY <1>4 DEF PickupCatalyst
  <2>2. o \notin marked /\ o \in marked'
    BY <2>1 DEF Takeable, MarkForDeletion
  <2>3. o \in Objects
    <3>1. o \in Made /\ Made \subseteq Objects
      BY <2>1, <1>1, GameObjectsAssumption DEF Takeable, IdTypes, Made, Objects
    <3> QED
      BY <3>1
  <2>4. awards[o] = 0
    BY <2>2, <2>3 DEF AwardInv
  <2> QED
    BY <2>1, <2>2, <2>3, <2>4, <1>2 DEF AwardInv
<1>5. ASSUME NEW c \in Clients, Session(c) PROVE awards' = awards
  BY <1>5 DEF Session, Connect, Disconnect, HelloPlayer, PrepareGameStart,
              StartGame, BeamOut, OnPlayerStart
<1>6. ASSUME NEW c \in Clients, Play(c)
      PROVE  awards' = awards \/ \E i \in Objects : PickupCatalyst(c, i)
  BY <1>6 DEF Play, PickupLoot, OpenObject, DropCatalyst, DropCatalysts, Drop
<1>7. CASE Script
  BY <1>7, <1>3 DEF Script, ScriptMark, ScriptCreate, ScriptDrop, ScriptCreateTrigger
<1>8. CASE Update
  BY <1>8, <1>3 DEF Update, BeginUpdate, BeginVisit, EndVisit, EndUpdate
<1>9. CASE UNCHANGED vars
  BY <1>9, <1>3 DEF vars
<1> QED
  BY <1>3, <1>4, <1>5, <1>6, <1>7, <1>8, <1>9 DEF Next

\* For every game: PickupCatalyst gives no catalyst twice.
THEOREM GameAwardedOnce == Spec => []AwardedOnce
<1>1. Init => AwardInv
  BY DEF Init, AwardInv
<1>2. AwardInv => AwardedOnce
  BY DEF AwardInv, AwardedOnce
<1> QED
  BY <1>1, <1>2, IdInvCorrect, AwardStep, PTL DEF Spec

\* What Create does beyond the ids.
LEMMA CreateFacts ==
    ASSUME IdInv, NEW kinds \in Seq(Kinds), Create(kinds),
           kind \in [Objects -> Kinds]
    PROVE  /\ made' = made + Len(kinds)
           /\ NewObjects(Len(kinds)) = made + 1 .. made + Len(kinds)
           /\ Made' = Made \cup NewObjects(Len(kinds))
           /\ Made \cap NewObjects(Len(kinds)) = {}
           /\ mActiveObjects' = mActiveObjects \cup NewObjects(Len(kinds))
           /\ octQueue' = octQueue \cup NewObjects(Len(kinds))
           /\ kind' \in [Objects -> Kinds]
           /\ \A o \in Made : kind'[o] = kind[o]
           /\ \A m \in 1..Len(kinds) : kind'[made + m] = kinds[m]
<1> DEFINE n == Len(kinds)
           new == made + 1 .. made + n
<1>1. n \in Nat /\ made \in Nat /\ MaxObjects \in Nat
      /\ \A m \in 1..n : kinds[m] \in Kinds
  BY GameObjectsAssumption DEF IdInv, IdTypes
<1>2. NewObjects(n) = new
  BY <1>1, NewIdsAreNew DEF IdInv
<1>3. /\ made' = made + n /\ made + n <= MaxObjects
      /\ kind' = [o \in Objects |-> IF o \in new THEN kinds[o - made]
                                                 ELSE kind[o]]
      /\ mActiveObjects' = mActiveObjects \cup new
      /\ octQueue' = octQueue \cup new
  BY <1>2 DEF Create
<1>4. Made' = Made \cup new /\ Made \cap new = {} /\ Made' \subseteq Objects
  BY <1>1, <1>3 DEF Made, Objects
<1>5. \A o \in new : o - made \in 1..n
  BY <1>1
<1>6. \A m \in 1..n : made + m \in new /\ (made + m) - made = m
  BY <1>1
<1>7. kind' \in [Objects -> Kinds]
  BY <1>1, <1>3, <1>5
<1>8. \A o \in Made : kind'[o] = kind[o]
  BY <1>3, <1>4
<1>9. \A m \in 1..n : kind'[made + m] = kinds[m]
  BY <1>3, <1>4, <1>6
<1> QED
  BY <1>2, <1>3, <1>4, <1>7, <1>8, <1>9

\* The loop visits active objects only, and the octree and its queue hold no
\* object that is gone without being flagged.
LoopInv ==
    /\ todo \subseteq mActiveObjects
    /\ pc = "visit" => cur \in mActiveObjects
    /\ octree \cup octQueue \subseteq mActiveObjects \cup marked
    /\ pc \in {"loop", "visit"} => octree \subseteq mActiveObjects

\* The loop's own bookkeeping survives what scripts do inside it.
LEMMA LoopStep ==
    IdInv /\ kind \in [Objects -> Kinds] /\ LoopInv /\ [Next]_vars => LoopInv'
<1> SUFFICES ASSUME IdInv, kind \in [Objects -> Kinds], LoopInv, [Next]_vars
             PROVE  LoopInv'
  OBVIOUS
<1> USE DEF idVars, netVars, loopVars, historyVars
<1>a. {SquadSize, LevelObjects, DropCount} \subseteq Nat
      /\ Kinds = {"crystal", "loot", "hero", "other"}
  BY GameObjectsAssumption DEF Kinds
<1>b. ASSUME NEW kinds \in Seq(Kinds), Create(kinds)
      PROVE  mActiveObjects \subseteq mActiveObjects'
             /\ octQueue' \subseteq octQueue \cup mActiveObjects'
  BY <1>b, CreateFacts
<1>c. ASSUME NEW kinds \in Seq(Kinds), Create(kinds), octree' = octree,
             marked' = marked, UNCHANGED loopVars, pc' = pc \/ pc' = "crashed"
      PROVE  LoopInv'
  BY <1>b, <1>c DEF LoopInv
<1>d. ASSUME marked \subseteq marked', mActiveObjects' = mActiveObjects,
             octree' = octree, octQueue' = octQueue, UNCHANGED loopVars, pc' = pc
      PROVE  LoopInv'
  BY <1>d DEF LoopInv
<1>1. ASSUME NEW c \in Clients, Session(c) PROVE LoopInv'
  <2>1. CASE Connect(c) \/ Disconnect(c) \/ HelloPlayer(c) \/ StartGame(c)
             \/ BeamOut(c)
    BY <2>1, <1>d DEF Connect, Disconnect, HelloPlayer, StartGame, BeamOut
  <2>2. CASE PrepareGameStart(c)
    BY <2>2, <1>a, <1>c, Copies DEF PrepareGameStart
  <2>3. CASE OnPlayerStart(c)
    BY <2>3, <1>a, <1>c, Copies DEF OnPlayerStart
  <2> QED
    BY <1>1, <2>1, <2>2, <2>3 DEF Session
<1>2. ASSUME NEW c \in Clients, Play(c) PROVE LoopInv'
  <2>1. ASSUME NEW i \in Objects, PickupLoot(c, i) \/ PickupCatalyst(c, i)
        PROVE  LoopInv'
    BY <2>1, <1>d DEF PickupLoot, PickupCatalyst, MarkForDeletion
  <2>2. ASSUME NEW kinds \in Seq(Kinds), Drop(c, kinds) PROVE LoopInv'
    BY <2>2, <1>c DEF Drop
  <2>3. <<"other", "crystal">> \in Seq(Kinds) /\ <<"crystal">> \in Seq(Kinds)
        /\ [n \in 1..DropCount |-> "crystal"] \in Seq(Kinds)
    BY <1>a, Copies
  <2> QED
    BY <1>2, <2>1, <2>2, <2>3 DEF Play, OpenObject, DropCatalyst, DropCatalysts
<1>3. ASSUME NEW o \in Made, ScriptMark(o) PROVE LoopInv'
  BY <1>3, <1>d DEF ScriptMark, MarkForDeletion
<1>4. ASSUME NEW kinds \in Seq(Kinds), Create(kinds), octree' = octree,
             marked' = marked, cur' = cur, pc' = pc \/ pc' = "crashed", Rehash
      PROVE  LoopInv'
  <2>1. todo' \subseteq mActiveObjects'
    BY <1>b, <1>4 DEF Rehash, LoopInv
  <2> QED
    BY <2>1, <1>b, <1>4 DEF LoopInv
<1>5. ASSUME NEW k \in {"loot", "other"}, ScriptCreate(k) PROVE LoopInv'
  <2>1. <<k>> \in Seq(Kinds)
    BY <1>a
  <2> QED
    BY <2>1, <1>4, <1>5 DEF ScriptCreate, SendObjectUpdate
<1>6. CASE ScriptCreateTrigger
  <2>1. <<"other">> \in Seq(Kinds)
    BY <1>a
  <2> QED
    BY <2>1, <1>4, <1>6 DEF ScriptCreateTrigger
<1>12. ASSUME NEW kinds \in Drops, ScriptDrop(kinds) PROVE LoopInv'
  BY <1>4, <1>12, DropsAreKinds DEF ScriptDrop
<1>7. CASE BeginUpdate
  BY <1>7 DEF BeginUpdate, OctreeUpdate, LoopInv
<1>8. ASSUME NEW o \in todo, BeginVisit(o) PROVE LoopInv'
  BY <1>8 DEF BeginVisit, LoopInv
<1>9. ASSUME NEW needUpdate \in BOOLEAN, EndVisit(needUpdate) PROVE LoopInv'
  BY <1>9 DEF EndVisit, LoopInv
<1>10. CASE EndUpdate
  BY <1>10 DEF EndUpdate, LoopInv, IdInv, QueueExact
<1>11. CASE UNCHANGED vars
  BY <1>11 DEF vars, LoopInv
<1> QED
  BY <1>1, <1>2, <1>3, <1>5, <1>6, <1>7, <1>8, <1>9, <1>10, <1>11, <1>12
     DEF Next, Script, Update

\* What clients are told of: objects of the game, and heroes.
GhostInv ==
    /\ kind \in [Objects -> Kinds]
    /\ told \in [Clients -> SUBSET Made]
    /\ \A c \in Clients : told[c] # {} => c \in mClients
    /\ heroes \in [Clients -> SUBSET Made]
    /\ \A c \in Clients : \A o \in heroes[c] : kind[o] = "hero"
    /\ NoGhosts

\* A message that names objects of the game, or heroes, leaves no ghost.
LEMMA TellKeeps ==
    ASSUME IdInv, GhostInv, NEW os, os \subseteq Made',
           \A o \in os : o \in mActiveObjects' \/ kind'[o] = "hero",
           Made \subseteq Made', mActiveObjects \subseteq mActiveObjects',
           kind' \in [Objects -> Kinds], \A o \in Made : kind'[o] = kind[o],
           mClients \subseteq mClients',
           DOMAIN told' = Clients, told' = [c \in Clients |-> told'[c]],
           \A c \in Clients : told'[c] \subseteq told[c] \cup os,
           \A c \in Clients : c \notin mClients => told'[c] = told[c]
    PROVE  /\ told' \in [Clients -> SUBSET Made']
           /\ \A c \in Clients : told'[c] # {} => c \in mClients'
           /\ NoGhosts'
<1>1. \A c \in Clients : told[c] \subseteq Made
  BY DEF GhostInv
<1>2. told' \in [Clients -> SUBSET Made']
  BY <1>1
<1>3. \A c \in Clients : told'[c] # {} => c \in mClients'
  BY DEF GhostInv
<1>4. NoGhosts'
  <2> SUFFICES ASSUME NEW c \in Clients, NEW o \in told'[c]
               PROVE  o \in mActiveObjects' \/ kind'[o] = "hero"
    BY DEF NoGhosts
  <2>1. CASE o \in os
    BY <2>1
  <2>2. CASE o \in told[c]
    BY <2>2, <1>1 DEF GhostInv, NoGhosts
  <2> QED
    BY <2>1, <2>2
<1> QED
  BY <1>2, <1>3, <1>4

\* No handler, script or update leaves a client with a ghost.
LEMMA GhostStep ==
    IdInv /\ LoopInv /\ GhostInv /\ [Next]_vars => GhostInv'
<1> SUFFICES ASSUME IdInv, LoopInv, GhostInv, [Next]_vars PROVE GhostInv'
  OBVIOUS
<1> USE DEF idVars, netVars, loopVars, historyVars
<1>a. {SquadSize, LevelObjects, DropCount} \subseteq Nat
      /\ Kinds = {"crystal", "loot", "hero", "other"}
  BY GameObjectsAssumption DEF Kinds
<1>b. kind \in [Objects -> Kinds] /\ told \in [Clients -> SUBSET Made]
      /\ heroes \in [Clients -> SUBSET Made]
      /\ mActiveObjects \subseteq Made
  BY DEF GhostInv, IdInv, IdTypes
<1>c. \A names, view, os : Shown(names, view, os) \subseteq view \cup os
  BY DEF Shown
\* Nothing but the players' state changes.
<1>d. ASSUME made' = made, kind' = kind, told' = told, mClients' = mClients,
             heroes' = heroes, mActiveObjects' = mActiveObjects
      PROVE  GhostInv'
  BY <1>d DEF GhostInv, NoGhosts, Made
\* Objects are made, and some of the game's may be told of.
<1>e. ASSUME NEW kinds \in Seq(Kinds), Create(kinds), heroes' = heroes,
             mClients' = mClients, NEW os, os \subseteq mActiveObjects',
             told' = told \/ SendObjectCreate(os)
      PROVE  GhostInv'
  <2>1. /\ Made \subseteq Made' /\ mActiveObjects' \subseteq Made'
        /\ mActiveObjects \subseteq mActiveObjects'
        /\ kind' \in [Objects -> Kinds] /\ \A o \in Made : kind'[o] = kind[o]
    BY <1>b, <1>e, CreateFacts
  <2>2. /\ told' = [c \in Clients |-> told'[c]] /\ DOMAIN told' = Clients
        /\ \A c \in Clients : told'[c] \subseteq told[c] \cup os
        /\ \A c \in Clients : c \notin mClients => told'[c] = told[c]
    <3>1. CASE told' = told
      BY <3>1, <1>b
    <3>2. CASE SendObjectCreate(os)
      BY <3>2, <1>c DEF SendObjectCreate
    <3> QED
      BY <1>e, <3>1, <3>2
  <2>3. /\ told' \in [Clients -> SUBSET Made'] /\ NoGhosts'
        /\ \A c \in Clients : told'[c] # {} => c \in mClients'
    BY <1>e, <2>1, <2>2, TellKeeps
  <2> QED
    BY <1>b, <1>e, <2>1, <2>3 DEF GhostInv
<1>1. ASSUME NEW c \in Clients, Session(c) PROVE GhostInv'
  <2>1. CASE Connect(c)
    BY <2>1, <1>b DEF Connect, GhostInv, NoGhosts, Made
  <2>2. CASE Disconnect(c)
    BY <2>2, <1>b DEF Disconnect, GhostInv, NoGhosts, Made
  <2>3. CASE HelloPlayer(c)
    BY <2>3, <1>b DEF HelloPlayer, GhostInv, NoGhosts, Made
  <2>4. CASE StartGame(c) \/ BeamOut(c)
    BY <2>4, <1>d DEF StartGame, BeamOut
  <2>5. CASE PrepareGameStart(c)
    <3> DEFINE kinds == [n \in 1..SquadSize |-> "hero"]
               new == NewObjects(SquadSize)
    <3>1. kinds \in Seq(Kinds) /\ Len(kinds) = SquadSize /\ Create(kinds)
      BY <2>5, <1>a, Copies DEF PrepareGameStart
    <3>2. /\ Made' = Made \cup new /\ mActiveObjects \subseteq mActiveObjects'
          /\ kind' \in [Objects -> Kinds] /\ \A o \in Made : kind'[o] = kind[o]
          /\ new = made + 1 .. made + SquadSize
          /\ \A m \in 1..SquadSize : kind'[made + m] = "hero"
      <4> HIDE DEF kinds
      <4>1. \A m \in 1..SquadSize : kinds[m] = "hero"
        BY DEF kinds
      <4> QED
        BY <3>1, <4>1, <1>b, CreateFacts
    <3>3. \A o \in new : kind'[o] = "hero"
      <4>1. made \in Nat
        BY DEF IdInv, IdTypes
      <4>2. \A o \in new : o - made \in 1..SquadSize /\ o = made + (o - made)
        BY <3>2, <4>1, <1>a
      <4> QED
        BY <3>2, <4>2
    <3>4. /\ told' = told /\ mClients' = mClients
          /\ heroes' = [heroes EXCEPT ![c] = new]
      BY <2>5 DEF PrepareGameStart
    <3> HIDE DEF new, kinds
    <3>5. NoGhosts'
      BY <1>b, <3>2, <3>4 DEF GhostInv, NoGhosts
    <3>6. /\ heroes' \in [Clients -> SUBSET Made']
          /\ \A d \in Clients : \A o \in heroes'[d] : kind'[o] = "hero"
      BY <1>b, <3>2, <3>3, <3>4 DEF GhostInv
    <3> QED
      BY <1>b, <3>2, <3>4, <3>5, <3>6 DEF GhostInv
  <2>6. CASE OnPlayerStart(c)
    <3> DEFINE kinds == [n \in 1..LevelObjects |-> "other"]
               world == mActiveObjects' \ created
               mine == heroes[c] \ (created \cup world)
    <3>1. kinds \in Seq(Kinds) /\ Create(kinds)
      BY <2>6, <1>a, Copies DEF OnPlayerStart
    <3>2. /\ Made \subseteq Made' /\ mActiveObjects' \subseteq Made'
          /\ mActiveObjects \subseteq mActiveObjects'
          /\ kind' \in [Objects -> Kinds] /\ \A o \in Made : kind'[o] = kind[o]
      <4> HIDE DEF kinds
      <4> QED
        BY <1>b, <3>1, CreateFacts
    <3>3. /\ mClients' = mClients /\ heroes' = heroes
          /\ told' = [d \in Clients |->
                        IF d \in mClients
                          THEN Shown(ident', Shown(ident', told[d], world), mine)
                          ELSE told[d]]
      BY <2>6 DEF OnPlayerStart
    <3> HIDE DEF kinds, world, mine
    <3>4. /\ told' = [d \in Clients |-> told'[d]] /\ DOMAIN told' = Clients
          /\ \A d \in Clients : d \notin mClients => told'[d] = told[d]
      BY <3>3
    <3>5. \A d \in Clients : told'[d] \subseteq told[d] \cup (world \cup mine)
      <4> SUFFICES ASSUME NEW d \in Clients
                   PROVE  told'[d] \subseteq told[d] \cup (world \cup mine)
        OBVIOUS
      <4> DEFINE first == Shown(ident', told[d], world)
      <4>1. first \subseteq told[d] \cup world
        BY <1>c
      <4>2. Shown(ident', first, mine) \subseteq first \cup mine
        BY <1>c
      <4>3. told'[d] = IF d \in mClients THEN Shown(ident', first, mine)
                                         ELSE told[d]
        BY <3>3
      <4> HIDE DEF first
      <4> QED
        BY <4>1, <4>2, <4>3
    <3>6. /\ world \cup mine \subseteq Made'
          /\ \A o \in world \cup mine : o \in mActiveObjects' \/ kind'[o] = "hero"
      <4>1. world \subseteq mActiveObjects' /\ mine \subseteq heroes[c]
        BY DEF world, mine
      <4>2. heroes[c] \subseteq Made /\ \A o \in heroes[c] : kind[o] = "hero"
        BY DEF GhostInv
      <4> QED
        BY <3>2, <4>1, <4>2
    <3>7. /\ told' \in [Clients -> SUBSET Made'] /\ NoGhosts'
          /\ \A d \in Clients : told'[d] # {} => d \in mClients'
      <4> DEFINE os == world \cup mine
      <4>1. /\ os \subseteq Made'
            /\ \A o \in os : o \in mActiveObjects' \/ kind'[o] = "hero"
            /\ \A d \in Clients : told'[d] \subseteq told[d] \cup os
        BY <3>5, <3>6
      <4>2. mClients \subseteq mClients'
        BY <3>3
      <4> HIDE DEF os
      <4> QED
        BY <3>2, <3>4, <4>1, <4>2, TellKeeps
    <3> QED
      BY <1>b, <3>2, <3>3, <3>7 DEF GhostInv
  <2> QED
    BY <1>1, <2>1, <2>2, <2>3, <2>4, <2>5, <2>6 DEF Session
<1>2. ASSUME NEW c \in Clients, Play(c) PROVE GhostInv'
  <2>1. ASSUME NEW i \in Objects, PickupLoot(c, i) \/ PickupCatalyst(c, i)
        PROVE  GhostInv'
    BY <2>1, <1>d DEF PickupLoot, PickupCatalyst
  <2>2. ASSUME NEW kinds \in Seq(Kinds), Drop(c, kinds) PROVE GhostInv'
    <3>1. NewObjects(Len(kinds)) \subseteq mActiveObjects'
      BY <1>b, <2>2, CreateFacts DEF Drop
    <3> QED
      BY <2>2, <3>1, <1>e DEF Drop
  <2>3. <<"other", "crystal">> \in Seq(Kinds) /\ <<"crystal">> \in Seq(Kinds)
        /\ [n \in 1..DropCount |-> "crystal"] \in Seq(Kinds)
    BY <1>a, Copies
  <2> QED
    BY <1>2, <2>1, <2>2, <2>3 DEF Play, OpenObject, DropCatalyst, DropCatalysts
<1>3. ASSUME NEW o \in Made, ScriptMark(o) PROVE GhostInv'
  BY <1>3, <1>d DEF ScriptMark
<1>4. ASSUME NEW k \in {"loot", "other"}, ScriptCreate(k) PROVE GhostInv'
  <2>1. <<k>> \in Seq(Kinds) /\ Len(<<k>>) = 1
    BY <1>a
  <2>2. NewObjects(1) \subseteq mActiveObjects'
    BY <1>b, <1>4, <2>1, CreateFacts DEF ScriptCreate
  <2> QED
    BY <2>1, <2>2, <1>4, <1>e DEF ScriptCreate, SendObjectUpdate
<1>5. CASE ScriptCreateTrigger
  <2>1. <<"other">> \in Seq(Kinds)
    BY <1>a
  <2> QED
    BY <2>1, <1>5, <1>e DEF ScriptCreateTrigger
<1>11. ASSUME NEW kinds \in Drops, ScriptDrop(kinds) PROVE GhostInv'
  <2>1. kinds \in Seq(Kinds)
    BY DropsAreKinds
  <2>2. NewObjects(Len(kinds)) \subseteq mActiveObjects'
    BY <1>b, <1>11, <2>1, CreateFacts DEF ScriptDrop
  <2> QED
    BY <2>1, <2>2, <1>11, <1>e DEF ScriptDrop
<1>6. CASE BeginUpdate
  BY <1>6, <1>d DEF BeginUpdate
<1>7. ASSUME NEW o \in todo, BeginVisit(o) PROVE GhostInv'
  BY <1>7, <1>d DEF BeginVisit
<1>8. ASSUME NEW needUpdate \in BOOLEAN, EndVisit(needUpdate) PROVE GhostInv'
  <2> DEFINE sent == IF needUpdate THEN {cur} ELSE {}
  <2>1. sent \subseteq mActiveObjects
    BY <1>8 DEF EndVisit, LoopInv
  <2>2. /\ made' = made /\ kind' = kind /\ mActiveObjects' = mActiveObjects
        /\ mClients' = mClients /\ heroes' = heroes /\ SendObjectCreate(sent)
    BY <1>8 DEF EndVisit
  <2> HIDE DEF sent
  <2>3. /\ told' = [c \in Clients |-> told'[c]] /\ DOMAIN told' = Clients
        /\ \A c \in Clients : told'[c] \subseteq told[c] \cup sent
        /\ \A c \in Clients : c \notin mClients => told'[c] = told[c]
    BY <2>2, <1>c DEF SendObjectCreate
  <2>4. Made' = Made
    BY <2>2 DEF Made
  <2>5. /\ told' \in [Clients -> SUBSET Made'] /\ NoGhosts'
        /\ \A c \in Clients : told'[c] # {} => c \in mClients'
    BY <1>b, <2>1, <2>2, <2>3, <2>4, TellKeeps
  <2> QED
    BY <1>b, <2>2, <2>4, <2>5 DEF GhostInv
<1>9. CASE EndUpdate
  <2>1. /\ made' = made /\ kind' = kind /\ mClients' = mClients
        /\ heroes' = heroes /\ mActiveObjects' = mActiveObjects \ Doomed
        /\ SendObjectDelete(Doomed)
    BY <1>9 DEF EndUpdate
  <2>2. Made' = Made
    BY <2>1 DEF Made
  <2>3. told' \in [Clients -> SUBSET Made]
        /\ \A c \in Clients : told'[c] \subseteq told[c]
    BY <1>b, <2>1 DEF SendObjectDelete
  <2>4. ASSUME NEW c \in Clients, NEW o \in told'[c]
        PROVE  o \in mActiveObjects' \/ kind'[o] = "hero"
    <3>1. o \in told[c] /\ c \in mClients
      BY <2>3, <2>4 DEF GhostInv
    <3>2. o \notin Doomed
      BY <2>1, <2>4, <3>1 DEF SendObjectDelete
    <3> QED
      BY <2>1, <3>1, <3>2 DEF GhostInv, NoGhosts
  <2> QED
    BY <1>b, <2>1, <2>2, <2>3, <2>4 DEF GhostInv, NoGhosts
<1>10. CASE UNCHANGED vars
  BY <1>10, <1>d DEF vars
<1> QED
  BY <1>1, <1>2, <1>3, <1>4, <1>5, <1>6, <1>7, <1>8, <1>9, <1>10, <1>11
     DEF Next, Script, Update

\* The two invariants hold together: a message needs the loop's object to be
\* in the game.
LEMMA ViewsCorrect == Spec => [](LoopInv /\ GhostInv)
<1>1. Init => LoopInv /\ GhostInv
  BY DEF Init, LoopInv, GhostInv, NoGhosts, Made, Kinds
<1>2. GhostInv => kind \in [Objects -> Kinds]
  BY DEF GhostInv
<1>3. IdInv /\ LoopInv /\ GhostInv /\ [Next]_vars => LoopInv' /\ GhostInv'
  BY <1>2, LoopStep, GhostStep
<1> QED
  BY <1>1, <1>3, IdInvCorrect, PTL DEF Spec

\* For every game: SendObjectDelete and SendObjectCreate leave no client with
\* an object that is gone, heroes excepted.
THEOREM GameNoGhosts == Spec => []NoGhosts
<1>1. GhostInv => NoGhosts
  BY DEF GhostInv
<1> QED
  BY <1>1, ViewsCorrect, PTL

\* For every game: while objects tick, region queries of the octree return
\* objects of the game only.
THEOREM GameOctreeIsLive == Spec => []OctreeIsLive
<1>1. LoopInv => OctreeIsLive
  BY DEF LoopInv, OctreeIsLive
<1> QED
  BY <1>1, ViewsCorrect, PTL

-----------------------------------------------------------------------------
(***************************************************************************)
(* Types.                                                                  *)
(***************************************************************************)

\* The types that no other invariant gives.
SessionTypes ==
    /\ created \subseteq Made
    /\ mGameStarted \in BOOLEAN
    /\ mClients \subseteq Clients /\ hasPlayer \subseteq mClients
    /\ gameState \in [Clients -> {"lobby", "PreDungeon", "Dungeon"}]
    /\ pc \in {"idle", "loop", "visit", "crashed"}
    /\ cur \in Made \cup {NoObject}
    /\ joined \subseteq Clients

\* Handlers and updates keep the sessions' variables in their types, and flag
\* as created only objects that were made.
LEMMA SessionTypesStep ==
    IdInv /\ LoopInv /\ GhostInv /\ SessionTypes /\ [Next]_vars => SessionTypes'
<1> SUFFICES ASSUME IdInv, LoopInv, GhostInv, SessionTypes, [Next]_vars
             PROVE  SessionTypes'
  OBVIOUS
<1> USE DEF idVars, netVars, loopVars, historyVars
<1>a. {SquadSize, LevelObjects, DropCount} \subseteq Nat
      /\ Kinds = {"crystal", "loot", "hero", "other"}
  BY GameObjectsAssumption DEF Kinds
<1>b. kind \in [Objects -> Kinds] /\ mActiveObjects \subseteq Made
      /\ \A c \in Clients : heroes[c] \subseteq Made
  BY DEF GhostInv, IdInv, IdTypes
<1>c. ASSUME made' = made, created' = created, cur' = cur PROVE
             created' \subseteq Made' /\ cur' \in Made' \cup {NoObject}
  BY <1>c DEF SessionTypes, Made
<1>d. ASSUME NEW kinds \in Seq(Kinds), Create(kinds), cur' = cur,
             NEW os, os \subseteq Made \cup mActiveObjects',
             created' = created \/ SendObjectCreate(os)
      PROVE  created' \subseteq Made' /\ cur' \in Made' \cup {NoObject}
  <2>1. Made \subseteq Made' /\ mActiveObjects' \subseteq Made'
    BY <1>b, <1>d, CreateFacts
  <2>2. created' \subseteq created \cup os
    BY <1>d DEF SendObjectCreate
  <2> QED
    BY <1>d, <2>1, <2>2 DEF SessionTypes
<1>1. ASSUME NEW c \in Clients, Session(c) PROVE SessionTypes'
  <2>1. CASE Connect(c) \/ Disconnect(c) \/ HelloPlayer(c) \/ StartGame(c)
             \/ BeamOut(c)
    BY <2>1, <1>c DEF Connect, Disconnect, HelloPlayer, StartGame, BeamOut,
                      SessionTypes
  <2>2. CASE PrepareGameStart(c)
    <3>1. created' \subseteq Made' /\ cur' \in Made' \cup {NoObject}
      BY <2>2, <1>a, <1>d, Copies DEF PrepareGameStart
    <3> QED
      BY <2>2, <3>1 DEF PrepareGameStart, SessionTypes
  <2>3. CASE OnPlayerStart(c)
    <3> DEFINE kinds == [n \in 1..LevelObjects |-> "other"]
    <3>1. kinds \in Seq(Kinds) /\ Create(kinds)
      BY <2>3, <1>a, Copies DEF OnPlayerStart
    <3> HIDE DEF kinds
    <3>2. Made \subseteq Made' /\ mActiveObjects' \subseteq Made'
      BY <1>b, <3>1, CreateFacts
    <3>3. created' \subseteq created \cup mActiveObjects' \cup heroes[c]
      BY <2>3 DEF OnPlayerStart
    <3>4. created' \subseteq Made' /\ cur' \in Made' \cup {NoObject}
      BY <2>3, <3>2, <3>3, <1>b DEF OnPlayerStart, SessionTypes
    <3> QED
      BY <2>3, <3>4 DEF OnPlayerStart, SessionTypes
  <2> QED
    BY <1>1, <2>1, <2>2, <2>3 DEF Session
<1>2. ASSUME NEW c \in Clients, Play(c) PROVE SessionTypes'
  <2>1. ASSUME NEW i \in Objects, PickupLoot(c, i) \/ PickupCatalyst(c, i)
        PROVE  SessionTypes'
    BY <2>1, <1>c DEF PickupLoot, PickupCatalyst, SessionTypes
  <2>2. ASSUME NEW kinds \in Seq(Kinds), Drop(c, kinds) PROVE SessionTypes'
    <3>1. NewObjects(Len(kinds)) \subseteq mActiveObjects'
      BY <1>b, <2>2, CreateFacts DEF Drop
    <3>2. created' \subseteq Made' /\ cur' \in Made' \cup {NoObject}
      BY <2>2, <3>1, <1>d DEF Drop
    <3> QED
      BY <2>2, <3>2 DEF Drop, SessionTypes
  <2>3. <<"other", "crystal">> \in Seq(Kinds) /\ <<"crystal">> \in Seq(Kinds)
        /\ [n \in 1..DropCount |-> "crystal"] \in Seq(Kinds)
    BY <1>a, Copies
  <2> QED
    BY <1>2, <2>1, <2>2, <2>3 DEF Play, OpenObject, DropCatalyst, DropCatalysts
<1>3. ASSUME NEW o \in Made, ScriptMark(o) PROVE SessionTypes'
  BY <1>3, <1>c DEF ScriptMark, SessionTypes
<1>4. ASSUME NEW k \in {"loot", "other"}, ScriptCreate(k) PROVE SessionTypes'
  <2>1. <<k>> \in Seq(Kinds) /\ Len(<<k>>) = 1
    BY <1>a
  <2>2. NewObjects(1) \subseteq mActiveObjects'
    BY <1>b, <1>4, <2>1, CreateFacts DEF ScriptCreate
  <2>3. created' \subseteq Made' /\ cur' \in Made' \cup {NoObject}
    BY <2>1, <2>2, <1>4, <1>d DEF ScriptCreate, SendObjectUpdate
  <2> QED
    BY <2>3, <1>4 DEF ScriptCreate, SendObjectUpdate, SessionTypes
<1>5. CASE ScriptCreateTrigger
  <2>1. <<"other">> \in Seq(Kinds)
    BY <1>a
  <2>2. created' \subseteq Made' /\ cur' \in Made' \cup {NoObject}
    BY <2>1, <1>5, <1>d DEF ScriptCreateTrigger
  <2> QED
    BY <2>2, <1>5 DEF ScriptCreateTrigger, SessionTypes
<1>11. ASSUME NEW kinds \in Drops, ScriptDrop(kinds) PROVE SessionTypes'
  <2>1. kinds \in Seq(Kinds)
    BY DropsAreKinds
  <2>2. NewObjects(Len(kinds)) \subseteq mActiveObjects'
    BY <1>b, <1>11, <2>1, CreateFacts DEF ScriptDrop
  <2>3. created' \subseteq Made' /\ cur' \in Made' \cup {NoObject}
    BY <2>1, <2>2, <1>11, <1>d DEF ScriptDrop
  <2> QED
    BY <2>3, <1>11 DEF ScriptDrop, SessionTypes
<1>6. CASE BeginUpdate
  BY <1>6, <1>c DEF BeginUpdate, SessionTypes
<1>7. ASSUME NEW o \in todo, BeginVisit(o) PROVE SessionTypes'
  BY <1>7, <1>b DEF BeginVisit, SessionTypes, LoopInv, Made
<1>8. ASSUME NEW needUpdate \in BOOLEAN, EndVisit(needUpdate)
      PROVE  SessionTypes'
  <2>1. created' \subseteq created \cup {cur} /\ cur \in Made
    BY <1>8, <1>b DEF EndVisit, SendObjectCreate, LoopInv
  <2> QED
    BY <1>8, <2>1 DEF EndVisit, SessionTypes, Made
<1>9. CASE EndUpdate
  BY <1>9, <1>c DEF EndUpdate, SessionTypes
<1>10. CASE UNCHANGED vars
  BY <1>10, <1>c DEF vars, SessionTypes
<1> QED
  BY <1>1, <1>2, <1>3, <1>4, <1>5, <1>6, <1>7, <1>8, <1>9, <1>10, <1>11
     DEF Next, Script, Update

\* For every game: the variables keep their types, whatever handlers, scripts
\* and updates do.
THEOREM GameTypeCorrect == Spec => []TypeOK
<1>1. Init => SessionTypes /\ AwardInv
  <2>1. Init => SessionTypes
    BY DEF Init, SessionTypes
  <2>2. Init => AwardInv
    BY DEF Init, AwardInv
  <2> QED
    BY <2>1, <2>2
<1>2. IdInv /\ LoopInv /\ GhostInv /\ SessionTypes /\ AwardInv => TypeOK
  <2> SUFFICES ASSUME IdInv, LoopInv, GhostInv, SessionTypes, AwardInv
               PROVE  TypeOK
    OBVIOUS
  <2>1. IdTypes
    BY DEF IdInv
  <2>2. octree \subseteq Made /\ octQueue \subseteq Made /\ todo \subseteq Made
    BY <2>1 DEF LoopInv, IdTypes
  <2> QED
    BY <2>1, <2>2 DEF TypeOK, IdTypes, GhostInv, SessionTypes, AwardInv
<1> QED
  BY <1>1, <1>2, IdInvCorrect, ViewsCorrect, SessionTypesStep, AwardStep, PTL
     DEF Spec

=============================================================================
