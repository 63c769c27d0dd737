----------------------- MODULE HeroReplicationProofs -----------------------
(***************************************************************************)
(* The safety of HeroReplication, for every set of clients, every number   *)
(* of heroes, attributes, script calls and lost packets.                   *)
(*                                                                         *)
(* StaleOnlyIfMissed rests on two facts about creation and attributes.     *)
(* Uncreated: a hero that no client was told of has everything flagged, so *)
(* the first message is followed by the whole state.  Entries: what is     *)
(* neither an entry nor listed as erased is 0 in every copy, so a packet   *)
(* of attributes makes a copy exact.                                       *)
(***************************************************************************)
EXTENDS HeroReplication, FiniteSetTheorems, TLAPS

\* A hero that was not created yet is unknown and has everything flagged.
Uncreated ==
    \A h \in Heroes : "Created" \notin flags[h] =>
        /\ {"Combatant", "Attributes"} \subseteq flags[h]
        /\ \A c \in Clients : h \notin known[c]

\* Entries and erased entries have their bit, and nothing else was ever sent.
Entries ==
    \A h \in Heroes, a \in Attrs :
        /\ mData[h][a] # 0 \/ a \in mErasedData[h] => a \in mDataBits[h]
        /\ ~broken /\ mData[h][a] = 0 /\ a \notin mErasedData[h] =>
               \A c \in Clients : toldAttrs[<<c, h>>][a] = 0

IInv == /\ TypeOK /\ Uncreated /\ Entries
        /\ StaleOnlyIfMissed /\ RecordStaleOnlyIfBenched /\ AttributesSound

----------------------------------------------------------------------------
(* Types.                                                                  *)

\* Health is a range of numbers, with at least 0 and 1.
LEMMA HealthFacts == 0 \in Health /\ 1 \in Health /\ Health \subseteq Nat
BY ReplicationAssumption DEF Health

\* There are finitely many packets, so those of a message can be counted.
LEMMA PacketsFinite ==
    ASSUME NEW s \in SUBSET Packet
    PROVE  IsFiniteSet(s) /\ Cardinality(s) \in Nat
<1> DEFINE S == Clients \X (Heroes \X Kinds)
           f == [x \in S |-> <<x[1], x[2][1], x[2][2]>>]
<1>1. IsFiniteSet(Heroes)
  BY ReplicationAssumption, FS_Interval, 0 \in Int, LastHero \in Int DEF Heroes
<1>2. IsFiniteSet(Kinds)
  <2>1. IsFiniteSet({"Create"}) /\ IsFiniteSet({"Collision"})
        /\ IsFiniteSet({"Combatant"}) /\ IsFiniteSet({"Attributes"})
    BY FS_Singleton
  <2>2. IsFiniteSet({"Create"} \cup {"Collision"})
        /\ IsFiniteSet({"Combatant"} \cup {"Attributes"})
    BY <2>1, FS_Union
  <2>3. IsFiniteSet(({"Create"} \cup {"Collision"})
                    \cup ({"Combatant"} \cup {"Attributes"}))
    BY <2>2, FS_Union
  <2>4. Kinds = ({"Create"} \cup {"Collision"})
                    \cup ({"Combatant"} \cup {"Attributes"})
    BY DEF Kinds
  <2> QED BY <2>3, <2>4
<1>3. IsFiniteSet(Heroes \X Kinds)
  BY <1>1, <1>2, FS_Product
<1>4. IsFiniteSet(S)
  BY <1>3, FS_Product, ReplicationAssumption
<1>5. IsFiniteSet({f[x] : x \in S})
  <2>1. f \in Surjection(S, {f[x] : x \in S})
    BY DEF Surjection
  <2> QED BY <1>4, <2>1, FS_Surjection
<1>6. ASSUME NEW p \in s PROVE p \in {f[x] : x \in S}
  <2>1. PICK c \in Clients, h \in Heroes, k \in Kinds : p = <<c, h, k>>
    BY DEF Packet
  <2>2. <<c, <<h, k>>>> \in S /\ f[<<c, <<h, k>>>>] = p
    BY <2>1
  <2> QED BY <2>2
<1>7. IsFiniteSet(s)
  BY <1>5, <1>6, FS_Subset, s \subseteq {f[x] : x \in S}
<1> QED BY <1>7, FS_CardinalityType

\* A client's clamped health is a health.
LEMMA ClampedType ==
    ASSUME TypeOK, NEW h \in Heroes, NEW v \in Nat
    PROVE  Clamped(h, v) \in Health
<1>1. mData[h]["MaxHealth"] \in Health
  BY DEF TypeOK, Attrs
<1> QED BY <1>1, ReplicationAssumption DEF Clamped, Health

LEMMA AfterType ==
    ASSUME TypeOK, NEW h \in Heroes, NEW d \in Nat
    PROVE  After(h, d) \in Nat
BY ReplicationAssumption DEF TypeOK, After, Health

----------------------------------------------------------------------------
(* What a message leaves at the clients.                                   *)

\* The variables a message is made of have their types after the step.
ContentTyped ==
    /\ mHitPoints \in [Heroes -> Health]
    /\ mbHasCollision \in [Heroes -> BOOLEAN]
    /\ mData \in [Heroes -> [Attrs -> Health]]
    /\ mDataBits \in [Heroes -> SUBSET Attrs]
    /\ mErasedData \in [Heroes -> SUBSET Attrs]

\* A client's copy of the attributes has its type after a message.
LEMMA AttrsSentType ==
    ASSUME ContentTyped', NEW h \in Heroes, NEW copy \in [Attrs -> Health]
    PROVE  AttrsSent(h, copy) \in [Attrs -> Health]
BY HealthFacts DEF ContentTyped, AttrsSent

\* The copies keep their types, and the number of losses its bound.
LEMMA DeliverType ==
    ASSUME TypeOK, ContentTyped', NEW sent \in SUBSET Packet,
           NEW lost \in Losable(sent), Deliver(sent, lost)
    PROVE  /\ known' \in [Clients -> SUBSET Heroes]
           /\ toldHealth' \in [Clients \X Heroes -> Health]
           /\ toldCollision' \in [Clients \X Heroes -> BOOLEAN]
           /\ toldAttrs' \in [Clients \X Heroes -> [Attrs -> Health]]
           /\ missed' \subseteq Packet
           /\ losses' \in 0..MaxLosses
<1>1. lost \in SUBSET Packet /\ losses + Cardinality(lost) <= MaxLosses
  BY DEF Losable
<1>2. Cardinality(lost) \in Nat
  BY <1>1, PacketsFinite
<1>3. losses' \in 0..MaxLosses
  BY <1>1, <1>2, ReplicationAssumption DEF TypeOK, Deliver
<1>4. missed' \subseteq Packet
  BY <1>1 DEF TypeOK, Deliver
<1>5. known' \in [Clients -> SUBSET Heroes]
  BY DEF TypeOK, Deliver
<1>6. \A p \in Clients \X Heroes :
         /\ p[2] \in Heroes
         /\ mHitPoints'[p[2]] \in Health /\ mbHasCollision'[p[2]] \in BOOLEAN
         /\ toldHealth[p] \in Health /\ toldCollision[p] \in BOOLEAN
         /\ AttrsSent(p[2], toldAttrs[p]) \in [Attrs -> Health]
         /\ toldAttrs[p] \in [Attrs -> Health]
  BY AttrsSentType DEF TypeOK, ContentTyped
<1>7. toldHealth' \in [Clients \X Heroes -> Health]
  BY <1>6 DEF Deliver
<1>8. toldCollision' \in [Clients \X Heroes -> BOOLEAN]
  BY <1>6 DEF Deliver
<1>9. toldAttrs' \in [Clients \X Heroes -> [Attrs -> Health]]
  BY <1>6 DEF Deliver
<1> QED BY <1>3, <1>4, <1>5, <1>7, <1>8, <1>9

\* A packet that is sent is noted as missed, or its client has what it carries.
LEMMA DeliverSent ==
    ASSUME NEW sent \in SUBSET Packet, NEW lost \in SUBSET sent,
           Deliver(sent, lost), NEW c \in Clients, NEW h \in Heroes,
           h \in known'[c]
    PROVE  /\ <<c, h, "Combatant">> \in sent =>
                \/ toldHealth'[<<c, h>>] = mHitPoints'[h]
                \/ <<c, h, "Combatant">> \in missed'
           /\ <<c, h, "Collision">> \in sent =>
                \/ toldCollision'[<<c, h>>] = mbHasCollision'[h]
                \/ <<c, h, "Collision">> \in missed'
           /\ <<c, h, "Attributes">> \in sent =>
                \/ toldAttrs'[<<c, h>>] = AttrsSent(h, toldAttrs[<<c, h>>])
                \/ <<c, h, "Attributes">> \in missed'
           /\ h \notin known[c] =>
                /\ <<c, h, "Create">> \in sent
                /\ toldCollision'[<<c, h>>] = mbHasCollision'[h]
<1>1. <<c, h>> \in Clients \X Heroes
  OBVIOUS
<1>2. h \in known[c] \/ <<c, h, "Create">> \in sent \ lost
  BY DEF Deliver
<1> QED BY <1>1, <1>2 DEF Deliver

\* Where no packet is sent nothing changes, but for a creation.
LEMMA DeliverNotSent ==
    ASSUME NEW sent \in SUBSET Packet, NEW lost \in SUBSET sent,
           Deliver(sent, lost), NEW c \in Clients, NEW h \in Heroes
    PROVE  /\ <<c, h, "Combatant">> \notin sent =>
                /\ toldHealth'[<<c, h>>] = toldHealth[<<c, h>>]
                /\ <<c, h, "Combatant">> \in missed =>
                        <<c, h, "Combatant">> \in missed'
           /\ <<c, h, "Attributes">> \notin sent =>
                /\ toldAttrs'[<<c, h>>] = toldAttrs[<<c, h>>]
                /\ <<c, h, "Attributes">> \in missed =>
                        <<c, h, "Attributes">> \in missed'
           /\ <<c, h, "Collision">> \notin sent =>
                /\ \/ toldCollision'[<<c, h>>] = toldCollision[<<c, h>>]
                   \/ toldCollision'[<<c, h>>] = mbHasCollision'[h]
                /\ <<c, h, "Collision">> \in missed =>
                        <<c, h, "Collision">> \in missed'
           /\ <<c, h, "Create">> \notin sent => (h \in known'[c] <=> h \in known[c])
<1>1. <<c, h>> \in Clients \X Heroes
  OBVIOUS
<1> QED BY <1>1 DEF Deliver

----------------------------------------------------------------------------
(* A step that sends heroes hs with flags f, and creates heroes cs.         *)

Sent(hs, cs, f) == CreatePackets(cs \cup hs) \cup
                   UNION {UpdatePackets(h, f[h]) : h \in hs}

\* What OnPlayerStart and Visit have in common.
Sends(hs, cs, f) ==
    /\ f \in [Heroes -> SUBSET Flags]
    /\ \A h \in Heroes : \/ f[h] = flags[h]
                         \/ h \in hs /\ f[h] = flags[h] \cup {"Attributes"}
    /\ \E lost \in Losable(Sent(hs, cs, f)) : Deliver(Sent(hs, cs, f), lost)
    /\ flags' = [h \in Heroes |->
          IF h \in hs THEN (f[h] \ Cleared) \cup {"Created"}
          ELSE IF h \in cs THEN f[h] \cup {"Created"} ELSE f[h]]
    /\ collisionBit' = collisionBit \ (hs \cup Creates(cs))
    /\ SyncRecords(hs, f)
    /\ UNCHANGED <<clients, active, mHitPoints, mbHasCollision>>
    /\ \A h \in Heroes : \/ mData'[h] = mData[h]
                         \/ h \in hs /\ "Attributes" \in f[h]

\* The attributes after the step, before they reach a copy.
EntriesNext ==
    \A h \in Heroes, a \in Attrs :
        /\ mData'[h][a] # 0 \/ a \in mErasedData'[h] => a \in mDataBits'[h]
        /\ ~broken' /\ mData'[h][a] = 0 /\ a \notin mErasedData'[h] =>
               \A c \in Clients : toldAttrs[<<c, h>>][a] = 0

\* A message is made of packets.
LEMMA SentTyped ==
    ASSUME TypeOK, NEW hs \in SUBSET Heroes, NEW cs \in SUBSET Heroes,
           NEW f \in [Heroes -> SUBSET Flags]
    PROVE  Sent(hs, cs, f) \in SUBSET Packet
<1>1. CreatePackets(cs \cup hs) \in SUBSET Packet
  BY DEF TypeOK, CreatePackets, Creates, Packet, Kinds
<1>2. \A g \in hs : UpdatePackets(g, f[g]) \in SUBSET Packet
  BY DEF TypeOK, UpdatePackets, Packet
<1> QED BY <1>1, <1>2 DEF Sent

\* Which packets the message has.
LEMMA SentPackets ==
    ASSUME TypeOK, NEW hs \in SUBSET Heroes, NEW cs \in SUBSET Heroes,
           NEW f \in [Heroes -> SUBSET Flags],
           NEW c \in Clients, NEW h \in Heroes
    PROVE  /\ Sent(hs, cs, f) \in SUBSET Packet
           /\ <<c, h, "Create">> \in Sent(hs, cs, f) <=>
                c \in clients /\ h \in cs \cup hs /\ "Created" \notin flags[h]
           /\ <<c, h, "Combatant">> \in Sent(hs, cs, f) <=>
                c \in clients /\ h \in hs /\ "Combatant" \in f[h]
           /\ <<c, h, "Attributes">> \in Sent(hs, cs, f) <=>
                c \in clients /\ h \in hs /\ "Attributes" \in f[h]
           /\ <<c, h, "Collision">> \in Sent(hs, cs, f) <=>
                /\ c \in clients /\ h \in hs
                /\ h \in collisionBit /\ "Created" \in flags[h]
<1>3. \A k \in Kinds : <<c, h, k>> \in CreatePackets(cs \cup hs) <=>
         /\ k = "Create" /\ c \in clients
         /\ h \in cs \cup hs /\ "Created" \notin flags[h]
  BY DEF CreatePackets, Creates
<1>4. \A g \in hs, k \in Kinds : <<c, h, k>> \in UpdatePackets(g, f[g]) <=>
         /\ g = h /\ c \in clients
         /\ \/ k = "Collision" /\ h \in collisionBit /\ "Created" \in flags[h]
            \/ k \in {"Combatant", "Attributes"} /\ k \in f[h]
  BY DEF UpdatePackets
<1>5. "Create" \in Kinds /\ "Combatant" \in Kinds
      /\ "Attributes" \in Kinds /\ "Collision" \in Kinds
  BY DEF Kinds
<1>6. Sent(hs, cs, f) \in SUBSET Packet
  BY SentTyped
<1>7. \A k \in Kinds : <<c, h, k>> \in Sent(hs, cs, f) <=>
         \/ <<c, h, k>> \in CreatePackets(cs \cup hs)
         \/ h \in hs /\ <<c, h, k>> \in UpdatePackets(h, f[h])
  BY <1>4 DEF Sent
<1>8. \A k \in Kinds : <<c, h, k>> \in Sent(hs, cs, f) <=>
         /\ c \in clients
         /\ \/ /\ k = "Create" /\ h \in cs \cup hs
               /\ "Created" \notin flags[h]
            \/ /\ h \in hs /\ k = "Collision"
               /\ h \in collisionBit /\ "Created" \in flags[h]
            \/ h \in hs /\ k \in {"Combatant", "Attributes"} /\ k \in f[h]
  BY <1>3, <1>4, <1>7
<1>9. <<c, h, "Create">> \in Sent(hs, cs, f) <=>
         c \in clients /\ h \in cs \cup hs /\ "Created" \notin flags[h]
  BY <1>5, <1>8
<1>10. <<c, h, "Combatant">> \in Sent(hs, cs, f) <=>
          c \in clients /\ h \in hs /\ "Combatant" \in f[h]
  BY <1>5, <1>8
<1>11. <<c, h, "Attributes">> \in Sent(hs, cs, f) <=>
          c \in clients /\ h \in hs /\ "Attributes" \in f[h]
  BY <1>5, <1>8
<1>12. <<c, h, "Collision">> \in Sent(hs, cs, f) <=>
          /\ c \in clients /\ h \in hs
          /\ h \in collisionBit /\ "Created" \in flags[h]
  BY <1>5, <1>8
<1> QED BY <1>6, <1>9, <1>10, <1>11, <1>12

\* After a message a copy is exact, or the lost packet is noted, or the
\* change is still flagged.
LEMMA SendStale ==
    ASSUME IInv, ~broken, NEW hs \in SUBSET Heroes, NEW cs \in SUBSET Heroes,
           NEW f, Sends(hs, cs, f), ContentTyped', EntriesNext
    PROVE  StaleOnlyIfMissed'
<1> USE DEF IInv
<1> DEFINE sent == Sent(hs, cs, f)
<1>1. PICK lost \in Losable(sent) : Deliver(sent, lost)
  BY DEF Sends
<1>2. lost \in SUBSET sent /\ sent \in SUBSET Packet
  <2>1. 0 \in Heroes /\ Owner \in Clients
    BY ReplicationAssumption DEF Heroes
  <2> QED BY <2>1, SentPackets DEF Losable, Sends
<1>3. SUFFICES ASSUME NEW c \in clients', NEW h \in active',
                      h \in known'[c], ~broken'
               PROVE  /\ \/ toldHealth'[<<c, h>>] = mHitPoints'[h]
                         \/ "Combatant" \in flags'[h]
                         \/ <<c, h, "Combatant">> \in missed'
                      /\ \/ toldCollision'[<<c, h>>] = mbHasCollision'[h]
                         \/ h \in collisionBit'
                         \/ <<c, h, "Collision">> \in missed'
                      /\ \/ toldAttrs'[<<c, h>>] = mData'[h]
                         \/ "Attributes" \in flags'[h]
                         \/ <<c, h, "Attributes">> \in missed'
  BY DEF StaleOnlyIfMissed
<1>4. /\ c \in clients /\ c \in Clients /\ h \in active /\ h \in Heroes
      /\ mHitPoints'[h] = mHitPoints[h] /\ mbHasCollision'[h] = mbHasCollision[h]
  BY DEF Sends, TypeOK
<1> HIDE DEF sent
<1>5. /\ <<c, h, "Create">> \in sent <=>
            h \in cs \cup hs /\ "Created" \notin flags[h]
      /\ <<c, h, "Combatant">> \in sent <=> h \in hs /\ "Combatant" \in f[h]
      /\ <<c, h, "Attributes">> \in sent <=> h \in hs /\ "Attributes" \in f[h]
      /\ <<c, h, "Collision">> \in sent <=>
            h \in hs /\ h \in collisionBit /\ "Created" \in flags[h]
  BY <1>4, SentPackets DEF sent, Sends
<1>6. h \notin known[c] => "Created" \notin flags[h] /\ h \in cs \cup hs
  BY <1>1, <1>2, <1>3, <1>4, <1>5, DeliverSent
<1>7. h \notin hs => f[h] = flags[h] /\ mData'[h] = mData[h]
  BY <1>4 DEF Sends
<1>8. f[h] = flags[h] \/ f[h] = flags[h] \cup {"Attributes"}
  BY <1>4 DEF Sends
<1>9. "Created" \notin flags[h] => {"Combatant", "Attributes"} \subseteq flags[h]
  BY <1>4 DEF Uncreated
<1>10. h \notin hs => flags[h] \subseteq flags'[h]
  BY <1>4, <1>7 DEF Sends
<1>11. h \in known[c] => "Created" \in flags[h]
  BY <1>4 DEF Uncreated
<1>12. h \in known[c] =>
          /\ \/ toldHealth[<<c, h>>] = mHitPoints[h]
             \/ "Combatant" \in flags[h] \/ <<c, h, "Combatant">> \in missed
          /\ \/ toldCollision[<<c, h>>] = mbHasCollision[h]
             \/ h \in collisionBit \/ <<c, h, "Collision">> \in missed
          /\ \/ toldAttrs[<<c, h>>] = mData[h]
             \/ "Attributes" \in flags[h] \/ <<c, h, "Attributes">> \in missed
  BY <1>4 DEF StaleOnlyIfMissed
<1>13. \/ toldHealth'[<<c, h>>] = mHitPoints'[h] \/ "Combatant" \in flags'[h]
       \/ <<c, h, "Combatant">> \in missed'
  <2>1. CASE <<c, h, "Combatant">> \in sent
    BY <2>1, <1>1, <1>2, <1>3, <1>4, DeliverSent
  <2>2. CASE <<c, h, "Combatant">> \notin sent
    <3>1. "Combatant" \in flags[h] => h \notin hs
      BY <1>5, <1>8, <2>2
    <3>2. toldHealth'[<<c, h>>] = toldHealth[<<c, h>>]
          /\ (<<c, h, "Combatant">> \in missed => <<c, h, "Combatant">> \in missed')
      BY <1>1, <1>2, <1>4, <2>2, DeliverNotSent
    <3> QED BY <1>4, <1>6, <1>9, <1>10, <1>12, <3>1, <3>2
  <2> QED BY <2>1, <2>2
<1>14. \/ toldCollision'[<<c, h>>] = mbHasCollision'[h] \/ h \in collisionBit'
       \/ <<c, h, "Collision">> \in missed'
  <2>1. CASE <<c, h, "Collision">> \in sent \/ h \notin known[c]
    BY <2>1, <1>1, <1>2, <1>3, <1>4, DeliverSent
  <2>2. CASE <<c, h, "Collision">> \notin sent /\ h \in known[c]
    <3>1. h \in collisionBit => h \in collisionBit'
      BY <1>5, <1>11, <2>2 DEF Sends, Creates
    <3>2. \/ toldCollision'[<<c, h>>] = toldCollision[<<c, h>>]
          \/ toldCollision'[<<c, h>>] = mbHasCollision'[h]
      BY <1>1, <1>2, <1>4, <2>2, DeliverNotSent
    <3>3. <<c, h, "Collision">> \in missed => <<c, h, "Collision">> \in missed'
      BY <1>1, <1>2, <1>4, <2>2, DeliverNotSent
    <3> QED BY <1>4, <1>12, <2>2, <3>1, <3>2, <3>3
  <2> QED BY <2>1, <2>2
<1>15. \/ toldAttrs'[<<c, h>>] = mData'[h] \/ "Attributes" \in flags'[h]
       \/ <<c, h, "Attributes">> \in missed'
  <2>1. CASE <<c, h, "Attributes">> \in sent
    <3>1. \/ toldAttrs'[<<c, h>>] = AttrsSent(h, toldAttrs[<<c, h>>])
          \/ <<c, h, "Attributes">> \in missed'
      BY <2>1, <1>1, <1>2, <1>3, <1>4, DeliverSent
    <3>2. \A a \in Attrs : AttrsSent(h, toldAttrs[<<c, h>>])[a] = mData'[h][a]
      BY <1>3, <1>4 DEF AttrsSent, EntriesNext
    <3>3. /\ mData'[h] = [a \in Attrs |-> mData'[h][a]]
          /\ AttrsSent(h, toldAttrs[<<c, h>>]) =
                [a \in Attrs |-> AttrsSent(h, toldAttrs[<<c, h>>])[a]]
      BY <1>4 DEF ContentTyped, AttrsSent
    <3> QED BY <3>1, <3>2, <3>3
  <2>2. CASE <<c, h, "Attributes">> \notin sent
    <3>1. "Attributes" \in f[h] => h \notin hs
      BY <1>5, <2>2
    <3>2. toldAttrs'[<<c, h>>] = toldAttrs[<<c, h>>]
          /\ (<<c, h, "Attributes">> \in missed => <<c, h, "Attributes">> \in missed')
      BY <1>1, <1>2, <1>4, <2>2, DeliverNotSent
    <3>3. mData'[h] = mData[h]
      BY <1>4, <3>1 DEF Sends
    <3> QED BY <1>6, <1>8, <1>9, <1>10, <1>12, <3>1, <3>2, <3>3
  <2> QED BY <2>1, <2>2
<1> QED BY <1>13, <1>14, <1>15

\* A message leaves what the invariant says of creation, of attributes and
\* of the record.
LEMMA SendRest ==
    ASSUME IInv, ~broken, NEW hs \in SUBSET Heroes, NEW cs \in SUBSET Heroes,
           NEW f, Sends(hs, cs, f), ContentTyped', EntriesNext
    PROVE  Uncreated' /\ Entries' /\ RecordStaleOnlyIfBenched'
<1> USE DEF IInv
<1> DEFINE sent == Sent(hs, cs, f)
<1>1. PICK lost \in Losable(sent) : Deliver(sent, lost)
  BY DEF Sends
<1>2. lost \in SUBSET sent /\ sent \in SUBSET Packet
  <2>1. 0 \in Heroes /\ Owner \in Clients
    BY ReplicationAssumption DEF Heroes
  <2> QED BY <2>1, SentPackets DEF Losable, Sends
<1> HIDE DEF sent
<1>3. Uncreated'
  <2>1. SUFFICES ASSUME NEW h \in Heroes, "Created" \notin flags'[h]
                 PROVE  /\ {"Combatant", "Attributes"} \subseteq flags'[h]
                        /\ \A c \in Clients : h \notin known'[c]
    BY DEF Uncreated
  <2>2. h \notin hs /\ h \notin cs /\ flags'[h] = flags[h]
    BY <2>1 DEF Sends
  <2>3. ASSUME NEW c \in Clients PROVE h \notin known'[c]
    <3>1. <<c, h, "Create">> \notin sent
      BY <2>2, SentPackets DEF sent, Sends
    <3>2. h \notin known[c]
      BY <2>1, <2>2 DEF Uncreated
    <3> QED BY <1>1, <1>2, <3>1, <3>2, DeliverNotSent
  <2> QED BY <2>1, <2>2, <2>3 DEF Uncreated
<1>4. Entries'
  <2>1. SUFFICES ASSUME NEW h \in Heroes, NEW a \in Attrs, ~broken',
                        mData'[h][a] = 0, a \notin mErasedData'[h],
                        NEW c \in Clients
                 PROVE  toldAttrs'[<<c, h>>][a] = 0
    BY DEF Entries, EntriesNext
  <2>2. toldAttrs[<<c, h>>][a] = 0
    BY <2>1 DEF EntriesNext
  <2>3. AttrsSent(h, toldAttrs[<<c, h>>])[a] = 0
    BY <2>1, <2>2 DEF AttrsSent
  <2>4. \/ toldAttrs'[<<c, h>>] = toldAttrs[<<c, h>>]
        \/ toldAttrs'[<<c, h>>] = AttrsSent(h, toldAttrs[<<c, h>>])
    BY <1>1 DEF Deliver
  <2> QED BY <2>2, <2>3, <2>4
<1>5. RecordStaleOnlyIfBenched'
  <2>1. SUFFICES ASSUME NEW h \in Heroes
                 PROVE  \/ record'[h] = mHitPoints'[h]
                        \/ "Combatant" \in flags'[h] \/ h \in benched'
    BY DEF RecordStaleOnlyIfBenched
  <2>2. mHitPoints'[h] = mHitPoints[h]
    BY DEF Sends
  <2>3. \/ record[h] = mHitPoints[h] \/ "Combatant" \in flags[h] \/ h \in benched
    BY DEF RecordStaleOnlyIfBenched
  <2>4. CASE h \in hs /\ Syncs(h)
    BY <2>2, <2>4 DEF Sends, SyncRecords
  <2>5. CASE ~(h \in hs /\ Syncs(h))
    <3>1. record'[h] = record[h] /\ (h \in benched => h \in benched')
      BY <2>5 DEF Sends, SyncRecords
    <3>2. CASE "Combatant" \in flags[h]
      <4>1. "Combatant" \in f[h]
        BY <3>2 DEF Sends
      <4>2. h \notin hs \/ clients = {} => "Combatant" \in flags'[h]
        BY <4>1 DEF Sends, Cleared
      <4>3. h \in hs /\ clients # {} => h \in benched'
        BY <2>5, <4>1 DEF Sends, SyncRecords
      <4> QED BY <4>2, <4>3
    <3>3. CASE "Combatant" \notin flags[h]
      BY <2>2, <2>3, <3>1, <3>3
    <3> QED BY <3>2, <3>3
  <2> QED BY <2>4, <2>5
<1> QED BY <1>3, <1>4, <1>5

\* The types of what a message changes.
LEMMA SendType ==
    ASSUME IInv, NEW hs \in SUBSET Heroes, NEW cs \in SUBSET Heroes,
           NEW f, Sends(hs, cs, f), ContentTyped'
    PROVE  /\ flags' \in [Heroes -> SUBSET Flags]
           /\ collisionBit' \subseteq Heroes
           /\ known' \in [Clients -> SUBSET Heroes]
           /\ toldHealth' \in [Clients \X Heroes -> Health]
           /\ toldCollision' \in [Clients \X Heroes -> BOOLEAN]
           /\ toldAttrs' \in [Clients \X Heroes -> [Attrs -> Health]]
           /\ missed' \subseteq Packet
           /\ losses' \in 0..MaxLosses
           /\ record' \in [Heroes -> Health]
           /\ benched' \subseteq Heroes
<1> USE DEF IInv
<1>1. PICK lost \in Losable(Sent(hs, cs, f)) : Deliver(Sent(hs, cs, f), lost)
  BY DEF Sends
<1>2. Sent(hs, cs, f) \in SUBSET Packet
  <2>1. 0 \in Heroes /\ Owner \in Clients
    BY ReplicationAssumption DEF Heroes
  <2> QED BY <2>1, SentPackets DEF Sends
<1>3. flags' \in [Heroes -> SUBSET Flags]
  BY DEF Sends, Flags
<1>4. collisionBit' \subseteq Heroes
  BY DEF Sends, TypeOK
<1>5. record' \in [Heroes -> Health] /\ benched' \subseteq Heroes
  BY DEF Sends, SyncRecords, TypeOK
<1> QED BY <1>1, <1>2, <1>3, <1>4, <1>5, DeliverType

----------------------------------------------------------------------------
(* The actions.                                                            *)

\* The heroes as SetSquad leaves them.
LEMMA InitIInv == Init => IInv
<1> SUFFICES ASSUME Init PROVE IInv
  OBVIOUS
<1>1. MaxHealth \in Health /\ MaxHealth # 0 /\ 0 \in 0..MaxOps /\ 0 \in 0..MaxLosses
      /\ 0 \in 0..(LastHero + 1)
  BY ReplicationAssumption DEF Health
<1>2. TypeOK
  BY <1>1, HealthFacts, ReplicationAssumption DEF Init, TypeOK, Flags, Attrs
<1>3. Uncreated /\ StaleOnlyIfMissed /\ RecordStaleOnlyIfBenched
  BY DEF Init, Uncreated, StaleOnlyIfMissed, RecordStaleOnlyIfBenched
<1>4. Entries /\ AttributesSound
  BY <1>1 DEF Init, Entries, AttributesSound
<1> QED BY <1>2, <1>3, <1>4 DEF IInv

\* A step that changes nothing keeps the invariant.
LEMMA StutterIInv == IInv /\ UNCHANGED vars => IInv'
<1> SUFFICES ASSUME IInv, UNCHANGED vars PROVE IInv'
  OBVIOUS
<1> USE DEF IInv, vars, objectVars, managerVars, loopVars, clientVars, playerVars
<1>1. TypeOK'
  BY DEF TypeOK
<1>2. Uncreated' /\ Entries'
  BY DEF Uncreated, Entries
<1>3. StaleOnlyIfMissed' /\ RecordStaleOnlyIfBenched' /\ AttributesSound'
  BY DEF StaleOnlyIfMissed, RecordStaleOnlyIfBenched, AttributesSound
<1> QED BY <1>1, <1>2, <1>3

\* A change of health flags the hero, and one of his collision sets its bit.
LEMMA HealthStep ==
    ASSUME IInv, NEW h \in Heroes, NEW hp \in Health,
           mHitPoints' = [mHitPoints EXCEPT ![h] = hp],
           \/ UNCHANGED <<mbHasCollision, collisionBit>>
           \/ /\ mbHasCollision' = [mbHasCollision EXCEPT ![h] = FALSE]
              /\ collisionBit' = collisionBit \cup {h},
           marked' \subseteq Heroes,
           NEW m \in SUBSET Flags,
           flags' = [flags EXCEPT ![h] = @ \cup {"Combatant"} \cup m],
           ops' \in 0..MaxOps,
           UNCHANGED <<clients, mGameStarted, loopVars, clientVars, playerVars,
                       active, mData, mDataBits, mErasedData, broken, zeroed>>
    PROVE  IInv'
<1> USE DEF IInv, loopVars, clientVars, playerVars
<1>1. TypeOK'
  BY DEF TypeOK, Flags
<1>2. \A g \in Heroes : flags[g] \subseteq flags'[g]
  BY DEF TypeOK
<1>3. \A g \in Heroes : "Created" \notin flags'[g] => "Created" \notin flags[g]
  BY <1>2
<1>4. Uncreated'
  BY <1>2, <1>3 DEF Uncreated
<1>5. Entries' /\ AttributesSound'
  BY DEF Entries, AttributesSound
<1>6. \A g \in Heroes : mHitPoints'[g] = mHitPoints[g] \/ "Combatant" \in flags'[g]
  BY DEF TypeOK
<1>7. \A g \in Heroes :
         /\ mbHasCollision'[g] = mbHasCollision[g] \/ g \in collisionBit'
         /\ g \in collisionBit => g \in collisionBit'
  BY DEF TypeOK
<1>8. RecordStaleOnlyIfBenched'
  BY <1>2, <1>6 DEF RecordStaleOnlyIfBenched
<1>9. StaleOnlyIfMissed'
  BY <1>2, <1>6, <1>7 DEF StaleOnlyIfMissed, TypeOK
<1> QED BY <1>1, <1>4, <1>5, <1>8, <1>9

\* A change of an attribute flags the hero.
LEMMA AttributeStep ==
    ASSUME IInv, ~broken, NEW h \in Heroes, NEW a \in Attrs, NEW v \in Health,
           SetAttributeValue(h, a, v), ops' \in 0..MaxOps,
           UNCHANGED <<clients, mGameStarted, loopVars, clientVars, playerVars,
                       managerVars>>
    PROVE  IInv'
<1> USE DEF IInv, loopVars, clientVars, playerVars, managerVars
<1>1. /\ mData' = [mData EXCEPT ![h][a] = v]
      /\ mDataBits' = [mDataBits EXCEPT ![h] = @ \cup {a}]
      /\ mErasedData' = [mErasedData EXCEPT ![h] = Erased(h, a, v)]
      /\ broken' = ErasesNothing(h, a, v)
      /\ flags' = [flags EXCEPT ![h] = @ \cup {"Attributes"}]
      /\ UNCHANGED <<mHitPoints, mbHasCollision, collisionBit>>
  BY DEF SetAttributeValue
<1>2. /\ mData[h] \in [Attrs -> Health] /\ mErasedData[h] \subseteq Attrs
      /\ mDataBits[h] \subseteq Attrs /\ Erased(h, a, v) \subseteq Attrs
  BY DEF TypeOK, Erased
<1>3. TypeOK'
  <2>1. mData' \in [Heroes -> [Attrs -> Health]]
    BY <1>1, <1>2 DEF TypeOK
  <2>2. mDataBits' \in [Heroes -> SUBSET Attrs]
        /\ mErasedData' \in [Heroes -> SUBSET Attrs]
    BY <1>1, <1>2 DEF TypeOK
  <2>3. zeroed' \subseteq Heroes \X Attrs /\ broken' \in BOOLEAN
    BY DEF TypeOK, SetAttributeValue, ErasesNothing
  <2>4. flags' \in [Heroes -> SUBSET Flags]
    BY <1>1 DEF TypeOK, Flags
  <2> QED BY <1>1, <2>1, <2>2, <2>3, <2>4 DEF TypeOK
<1>4. \A g \in Heroes, b \in Attrs :
         /\ mData'[g][b] = IF g = h /\ b = a THEN v ELSE mData[g][b]
         /\ b \in mDataBits'[g] <=> b \in mDataBits[g] \/ (g = h /\ b = a)
         /\ ~(g = h /\ b = a) => (b \in mErasedData'[g] <=> b \in mErasedData[g])
         /\ g = h /\ b = a => (b \in mErasedData'[g] <=>
                \/ mData[h][a] # 0 /\ v = 0
                \/ a \in mErasedData[h] /\ (mData[h][a] # 0 \/ v = 0))
  BY <1>1, <1>2 DEF TypeOK, Erased
<1>5. Uncreated'
  BY <1>1 DEF Uncreated, TypeOK
<1>6. Entries'
  BY <1>4 DEF Entries
<1>7. RecordStaleOnlyIfBenched'
  BY <1>1 DEF RecordStaleOnlyIfBenched, TypeOK
<1>8. StaleOnlyIfMissed'
  <2>1. \A g \in Heroes : /\ flags[g] \subseteq flags'[g]
                          /\ mData'[g] = mData[g] \/ "Attributes" \in flags'[g]
    BY <1>1 DEF TypeOK
  <2> QED BY <1>1, <2>1 DEF StaleOnlyIfMissed, TypeOK
<1>9. AttributesSound'
  <2>1. zeroed' = IF mData[h][a] = 0 /\ v = 0 THEN zeroed \cup {<<h, a>>}
                                             ELSE zeroed
    BY DEF SetAttributeValue
  <2>2. broken' => zeroed' # {}
    BY <1>1, <2>1 DEF ErasesNothing, AttributesSound
  <2>3. ASSUME NEW g \in Heroes, NEW b \in Attrs,
               b \in mDataBits'[g], <<g, b>> \notin zeroed'
        PROVE  (mData'[g][b] = 0) = (b \in mErasedData'[g])
    <3>1. <<g, b>> \notin zeroed
      BY <2>1, <2>3
    <3>2. CASE g = h /\ b = a
      <4>1. ~(mData[h][a] = 0 /\ v = 0)
        BY <2>1, <2>3, <3>2
      <4>2. mData[h][a] # 0 => a \in mDataBits[h]
        BY DEF Entries
      <4>3. a \in mDataBits[h] => ((mData[h][a] = 0) <=> a \in mErasedData[h])
        BY <3>1, <3>2 DEF AttributesSound
      <4> QED BY <1>4, <3>2, <4>1, <4>2, <4>3
    <3>3. CASE ~(g = h /\ b = a)
      BY <1>4, <2>3, <3>1, <3>3 DEF AttributesSound
    <3> QED BY <3>2, <3>3
  <2> QED BY <2>2, <2>3 DEF AttributesSound
<1> QED BY <1>3, <1>5, <1>6, <1>7, <1>8, <1>9

\* A script's hit, heal or change of an attribute.
LEMMA ScriptIInv ==
    ASSUME IInv, Script
    PROVE  IInv'
<1> USE DEF IInv
<1>1. ~broken /\ ops' \in 0..MaxOps
      /\ UNCHANGED <<clients, mGameStarted, loopVars, clientVars, playerVars>>
  BY ReplicationAssumption DEF Script, Op, TypeOK
<1>2. ASSUME NEW h \in Heroes, NEW d \in 1..MaxHealth, NEW critical \in BOOLEAN,
             TakeDamage(h, d, critical)
      PROVE  IInv'
  <2>1. UNCHANGED <<mData, mDataBits, mErasedData, broken, zeroed, active>>
    BY <1>2 DEF TakeDamage
  <2>2. d \in Nat /\ Clamped(h, After(h, d)) \in Health
    BY AfterType, ClampedType
  <2>3. CASE Clamped(h, After(h, d)) = 0
    <3>1. /\ mHitPoints' = [mHitPoints EXCEPT ![h] = 0]
          /\ mbHasCollision' = [mbHasCollision EXCEPT ![h] = FALSE]
          /\ collisionBit' = collisionBit \cup {h}
          /\ flags' = [flags EXCEPT ![h] = @ \cup {"Combatant"} \cup
                          (IF critical THEN {"Marked"} ELSE {})]
      BY <1>2, <2>3 DEF TakeDamage, OnObjectDeath
    <3>2. marked' \subseteq Heroes
      BY <1>2, <2>3 DEF TakeDamage, OnObjectDeath, TypeOK
    <3>3. (IF critical THEN {"Marked"} ELSE {}) \in SUBSET Flags
      BY DEF Flags
    <3> QED BY <1>1, <2>1, <3>1, <3>2, <3>3, HealthFacts, HealthStep
  <2>4. CASE Clamped(h, After(h, d)) # 0
    <3>1. /\ mHitPoints' = [mHitPoints EXCEPT ![h] = Clamped(h, After(h, d))]
          /\ flags' = [flags EXCEPT ![h] = @ \cup {"Combatant"} \cup {}]
          /\ UNCHANGED <<mbHasCollision, collisionBit, marked>>
      BY <1>2, <2>4 DEF TakeDamage, SetHealth
    <3>2. marked' \subseteq Heroes
      BY <3>1 DEF TypeOK
    <3> QED BY <1>1, <2>1, <2>2, <3>1, <3>2, {} \in SUBSET Flags, HealthStep
  <2> QED BY <2>3, <2>4
<1>3. ASSUME NEW h \in Heroes, NEW v \in 1..MaxHealth, Heal(h, v)
      PROVE  IInv'
  <2>1. mHitPoints[h] + v \in Nat
    BY ReplicationAssumption DEF TypeOK, Health
  <2>2. Clamped(h, mHitPoints[h] + v) \in Health
    BY <2>1, ClampedType
  <2>3. /\ mHitPoints' = [mHitPoints EXCEPT ![h] = Clamped(h, mHitPoints[h] + v)]
        /\ flags' = [flags EXCEPT ![h] = @ \cup {"Combatant"} \cup {}]
        /\ UNCHANGED <<mbHasCollision, collisionBit, mData, mDataBits,
                       mErasedData, broken, zeroed, active, marked>>
    BY <1>3 DEF Heal, SetHealth, managerVars
  <2>4. marked' \subseteq Heroes
    BY <2>3 DEF TypeOK
  <2> QED BY <1>1, <2>2, <2>3, <2>4, {} \in SUBSET Flags, HealthStep
<1>4. ASSUME NEW h \in Heroes, NEW a \in Attrs, NEW v \in Health,
             SetAttributeValue(h, a, v), UNCHANGED managerVars
      PROVE  IInv'
  BY <1>1, <1>4, AttributeStep
<1> QED BY <1>2, <1>3, <1>4 DEF Script

\* A client that comes knows nothing, one that goes is not asked.
LEMMA ClientsIInv ==
    ASSUME IInv, NEW c \in Clients, Connect(c) \/ Disconnect(c)
    PROVE  IInv'
<1> USE DEF IInv, objectVars, managerVars, loopVars, clientVars, playerVars
<1>1. CASE Connect(c)
  <2>1. TypeOK'
    BY <1>1, ReplicationAssumption DEF Connect, Idle, Op, TypeOK
  <2>2. Uncreated' /\ Entries' /\ RecordStaleOnlyIfBenched' /\ AttributesSound'
    BY <1>1 DEF Connect, Uncreated, Entries, RecordStaleOnlyIfBenched,
                AttributesSound, TypeOK
  <2>3. StaleOnlyIfMissed'
    <3>1. SUFFICES ASSUME NEW d \in clients', NEW h \in active', h \in known'[d]
                   PROVE  d \in clients /\ d # c /\ h \in active /\ h \in known[d]
      BY <1>1 DEF Connect, StaleOnlyIfMissed
    <3> QED BY <1>1, <3>1 DEF Connect, TypeOK
  <2> QED BY <2>1, <2>2, <2>3
<1>2. CASE Disconnect(c)
  <2>1. TypeOK'
    BY <1>2, ReplicationAssumption DEF Disconnect, Idle, Op, TypeOK
  <2>2. Uncreated' /\ Entries' /\ RecordStaleOnlyIfBenched' /\ AttributesSound'
    BY <1>2 DEF Disconnect, Uncreated, Entries, RecordStaleOnlyIfBenched,
                AttributesSound
  <2>3. StaleOnlyIfMissed'
    BY <1>2 DEF Disconnect, StaleOnlyIfMissed
  <2> QED BY <2>1, <2>2, <2>3
<1> QED BY <1>1, <1>2

\* A swap changes the index only.
LEMMA SwapIInv ==
    ASSUME IInv, SwapCharacter
    PROVE  IInv'
<1> USE DEF IInv, objectVars, managerVars, loopVars, clientVars, playerVars
<1>1. TypeOK'
  BY ReplicationAssumption DEF SwapCharacter, Idle, Op, TypeOK
<1>2. Uncreated' /\ Entries' /\ StaleOnlyIfMissed'
  BY DEF SwapCharacter, Uncreated, Entries, StaleOnlyIfMissed
<1>3. RecordStaleOnlyIfBenched' /\ AttributesSound'
  BY DEF SwapCharacter, RecordStaleOnlyIfBenched, AttributesSound
<1> QED BY <1>1, <1>2, <1>3

\* The loop begins, and ends by deleting what is marked.
LEMMA LoopIInv ==
    ASSUME IInv, BeginUpdate \/ FinishUpdate
    PROVE  IInv'
<1> USE DEF IInv, objectVars, managerVars, loopVars, clientVars, playerVars
<1>1. CASE BeginUpdate
  <2>1. TypeOK'
    BY <1>1 DEF BeginUpdate, TypeOK
  <2>2. Uncreated' /\ Entries' /\ StaleOnlyIfMissed'
    BY <1>1 DEF BeginUpdate, Uncreated, Entries, StaleOnlyIfMissed
  <2>3. RecordStaleOnlyIfBenched' /\ AttributesSound'
    BY <1>1 DEF BeginUpdate, RecordStaleOnlyIfBenched, AttributesSound
  <2> QED BY <2>1, <2>2, <2>3
<1>2. CASE FinishUpdate
  <2>1. /\ active' \subseteq active /\ marked' = {}
        /\ UNCHANGED <<clients, mGameStarted, objectVars, left, missed,
                       toldHealth, toldCollision, toldAttrs, playerVars, ops>>
        /\ updating' = FALSE
    BY <1>2 DEF FinishUpdate
  <2>2. /\ known' \in [Clients -> SUBSET Heroes]
        /\ \A c \in Clients : known'[c] \subseteq known[c]
        /\ losses' \in 0..MaxLosses
    <3>1. CASE marked = {}
      BY <1>2, <3>1 DEF FinishUpdate, TypeOK
    <3>2. CASE marked # {}
      <4>1. PICK deaf \in SUBSET clients :
              /\ losses + Cardinality(deaf) <= MaxLosses
              /\ losses' = losses + Cardinality(deaf)
              /\ known' = [c \in Clients |-> IF c \in clients \ deaf
                                    THEN known[c] \ marked ELSE known[c]]
        BY <1>2, <3>2 DEF FinishUpdate
      <4>2. Cardinality(deaf) \in Nat
        <5>1. IsFiniteSet(deaf)
          BY FS_Subset, ReplicationAssumption DEF TypeOK
        <5> QED BY <5>1, FS_CardinalityType
      <4>3. losses' \in 0..MaxLosses
        BY <4>1, <4>2, ReplicationAssumption DEF TypeOK
      <4> QED BY <4>1, <4>3 DEF TypeOK
    <3> QED BY <3>1, <3>2
  <2>3. TypeOK'
    BY <2>1, <2>2 DEF TypeOK
  <2>4. Uncreated' /\ Entries'
    BY <2>1, <2>2 DEF Uncreated, Entries
  <2>5. StaleOnlyIfMissed'
    BY <2>1, <2>2 DEF StaleOnlyIfMissed, TypeOK
  <2>6. RecordStaleOnlyIfBenched' /\ AttributesSound'
    BY <2>1 DEF RecordStaleOnlyIfBenched, AttributesSound
  <2> QED BY <2>3, <2>4, <2>5, <2>6
<1> QED BY <1>1, <1>2

\* A visit sends one hero, if he needs it.
LEMMA VisitIInv ==
    ASSUME IInv, NEW h \in Heroes, Visit(h)
    PROVE  IInv'
<1> USE DEF IInv
<1>1. /\ ~broken
      /\ UNCHANGED <<mHitPoints, mbHasCollision, mData, mDataBits, mErasedData,
                     broken, zeroed, clients, mGameStarted, active, marked,
                     updating, deployed, ops>>
      /\ left' \subseteq Heroes
  BY DEF Visit, TypeOK, managerVars
<1>2. ContentTyped'
  BY <1>1 DEF ContentTyped, TypeOK
<1>3. EntriesNext
  BY <1>1 DEF EntriesNext, Entries
<1>4. AttributesSound'
  BY <1>1 DEF AttributesSound
<1>5. CASE NeedUpdate(h) /\ mGameStarted
  <2>1. Sent({h}, {}, flags) = CreatePackets({h}) \cup UpdatePackets(h, flags[h])
    BY DEF Sent
  <2>2. Creates({}) = {}
    BY DEF Creates
  <2>3. /\ flags' = [flags EXCEPT ![h] = (@ \ Cleared) \cup {"Created"}]
        /\ collisionBit' = collisionBit \ {h}
        /\ \E lost \in Losable(Sent({h}, {}, flags)) :
                Deliver(Sent({h}, {}, flags), lost)
        /\ SyncRecords({h}, flags)
    BY <1>5, <2>1 DEF Visit
  <2>4. Sends({h}, {}, flags)
    BY <1>1, <2>2, <2>3 DEF Sends, TypeOK
  <2>5. TypeOK'
    BY <1>1, <1>2, <2>4, SendType DEF TypeOK
  <2>6. StaleOnlyIfMissed'
    BY <1>1, <1>2, <1>3, <2>4, SendStale
  <2>7. Uncreated' /\ Entries' /\ RecordStaleOnlyIfBenched'
    BY <1>1, <1>2, <1>3, <2>4, SendRest
  <2> QED BY <1>4, <2>5, <2>6, <2>7
<1>6. CASE ~(NeedUpdate(h) /\ mGameStarted)
  <2>1. UNCHANGED <<flags, collisionBit, clientVars, record, benched>>
    BY <1>6 DEF Visit
  <2>2. TypeOK'
    BY <1>1, <2>1 DEF TypeOK, clientVars
  <2>3. Uncreated' /\ Entries'
    BY <1>1, <2>1 DEF Uncreated, Entries, clientVars
  <2>4. StaleOnlyIfMissed' /\ RecordStaleOnlyIfBenched'
    BY <1>1, <2>1 DEF StaleOnlyIfMissed, RecordStaleOnlyIfBenched, clientVars
  <2> QED BY <1>4, <2>2, <2>3, <2>4
<1> QED BY <1>5, <1>6

\* The start of a player sends all of his heroes, after a change to them.
LEMMA OnPlayerStartIInv ==
    ASSUME IInv, NEW c \in Clients, OnPlayerStart(c)
    PROVE  IInv'
<1> USE DEF IInv
<1> DEFINE mine == IF c = Owner THEN Heroes ELSE {}
           f == [h \in Heroes |-> IF h \in mine THEN flags[h] \cup {"Attributes"}
                                                ELSE flags[h]]
           starts(h, a) == h \in mine /\ a \in StartAttrs
<1>1. /\ ~broken /\ ops' \in 0..MaxOps /\ mGameStarted' = TRUE
      /\ UNCHANGED <<mHitPoints, mbHasCollision, clients, zeroed, active, marked,
                     left, updating>>
      /\ deployed' \in 0..(LastHero + 1)
  BY ReplicationAssumption
     DEF OnPlayerStart, Idle, Op, TypeOK, managerVars, loopVars
<1>2. /\ mData' = [h \in Heroes |-> [a \in Attrs |->
                    IF starts(h, a) THEN 1 ELSE mData[h][a]]]
      /\ mDataBits' = [h \in Heroes |->
                        mDataBits[h] \cup {a \in Attrs : starts(h, a)}]
      /\ mErasedData' = [h \in Heroes |->
                          {a \in mErasedData[h] : ~starts(h, a)}]
      /\ broken' = (\E h \in mine, a \in StartAttrs : ErasesNothing(h, a, 1))
  BY DEF OnPlayerStart
<1>3. /\ flags' = [h \in Heroes |->
          IF h \in mine THEN (f[h] \ Cleared) \cup {"Created"}
          ELSE IF h \in active THEN f[h] \cup {"Created"} ELSE f[h]]
      /\ collisionBit' = collisionBit \ (mine \cup Creates(active))
      /\ \E lost \in Losable(Sent(mine, active, f)) :
              Deliver(Sent(mine, active, f), lost)
      /\ SyncRecords(mine, f)
  BY DEF OnPlayerStart, Sent
<1>4. mine \in SUBSET Heroes /\ active \in SUBSET Heroes
      /\ f \in [Heroes -> SUBSET Flags]
  BY DEF TypeOK, Flags
<1>5. StartAttrs \subseteq Attrs
  BY DEF Attrs
<1>6. \A h \in Heroes, a \in Attrs :
         /\ mData'[h][a] = IF starts(h, a) THEN 1 ELSE mData[h][a]
         /\ a \in mDataBits'[h] <=> a \in mDataBits[h] \/ starts(h, a)
         /\ a \in mErasedData'[h] <=> a \in mErasedData[h] /\ ~starts(h, a)
  BY <1>2
<1>7. ContentTyped'
  <2>1. \A h \in Heroes : [a \in Attrs |-> IF starts(h, a) THEN 1 ELSE mData[h][a]]
                             \in [Attrs -> Health]
    BY HealthFacts DEF TypeOK
  <2>2. mData' \in [Heroes -> [Attrs -> Health]]
    BY <1>2, <2>1
  <2> HIDE DEF mine
  <2>3. mDataBits' \in [Heroes -> SUBSET Attrs]
        /\ mErasedData' \in [Heroes -> SUBSET Attrs]
    BY <1>2 DEF TypeOK
  <2> QED BY <1>1, <2>2, <2>3 DEF ContentTyped, TypeOK
<1>8. EntriesNext
  BY <1>1, <1>6 DEF EntriesNext, Entries
<1>9. \A h \in Heroes : \/ mData'[h] = mData[h]
                        \/ h \in mine /\ "Attributes" \in f[h]
  <2>1. ASSUME NEW h \in Heroes, h \notin mine PROVE mData'[h] = mData[h]
    <3>1. mData'[h] = [a \in Attrs |-> mData[h][a]]
      BY <1>2, <2>1
    <3> QED BY <3>1 DEF TypeOK
  <2> QED BY <2>1
<1> HIDE DEF mine
<1>10. \A h \in Heroes : \/ f[h] = flags[h]
                         \/ h \in mine /\ f[h] = flags[h] \cup {"Attributes"}
  OBVIOUS
<1>11. Sends(mine, active, f)
  <2> HIDE DEF f
  <2> QED BY <1>1, <1>3, <1>4, <1>9, <1>10 DEF Sends
<1> HIDE DEF f
<1>12. broken' \in BOOLEAN
  BY <1>2
<1>13. TypeOK'
  BY <1>1, <1>4, <1>7, <1>11, <1>12, SendType DEF ContentTyped, TypeOK
<1>14. StaleOnlyIfMissed'
  BY <1>1, <1>4, <1>7, <1>8, <1>11, SendStale
<1>15. Uncreated' /\ Entries' /\ RecordStaleOnlyIfBenched'
  BY <1>1, <1>4, <1>7, <1>8, <1>11, SendRest
<1>16. AttributesSound'
  <2>1. broken' => zeroed' # {}
    BY <1>1, <1>2, <1>4, <1>5 DEF ErasesNothing, AttributesSound
  <2>2. ASSUME NEW g \in Heroes, NEW b \in Attrs,
               b \in mDataBits'[g], <<g, b>> \notin zeroed'
        PROVE  (mData'[g][b] = 0) = (b \in mErasedData'[g])
    BY <1>1, <1>6, <2>2 DEF AttributesSound
  <2> QED BY <2>1, <2>2 DEF AttributesSound
<1> QED BY <1>13, <1>14, <1>15, <1>16

----------------------------------------------------------------------------
(* The theorems.                                                           *)

\* Every step keeps the invariant.
LEMMA NextIInv == IInv /\ [Next]_vars => IInv'
<1> SUFFICES ASSUME IInv, [Next]_vars PROVE IInv'
  OBVIOUS
<1>1. CASE Script
  BY <1>1, ScriptIInv
<1>2. CASE SwapCharacter
  BY <1>2, SwapIInv
<1>3. CASE \E c \in Clients : Connect(c) \/ Disconnect(c) \/ OnPlayerStart(c)
  BY <1>3, ClientsIInv, OnPlayerStartIInv
<1>4. CASE BeginUpdate \/ FinishUpdate
  BY <1>4, LoopIInv
<1>5. CASE \E h \in Heroes : Visit(h)
  BY <1>5, VisitIInv
<1>6. CASE UNCHANGED vars
  BY <1>6, StutterIInv
<1> QED BY <1>1, <1>2, <1>3, <1>4, <1>5, <1>6 DEF Next

\* The inductive invariant.
LEMMA InvariantIInv == Spec => []IInv
BY InitIInv, NextIInv, PTL DEF Spec

\* Health stays between 0 and its maximum, and every copy is a health.
THEOREM TypeCorrect == Spec => []TypeOK
BY InvariantIInv, PTL DEF IInv

\* A connected client's copy of a hero is only behind while the change is
\* flagged or when its last packet was lost: the flags, the bits and the
\* loop over the clients forget nothing.
THEOREM CopiesFollow == Spec => []StaleOnlyIfMissed
BY InvariantIInv, PTL DEF IInv

\* The player's record of a hero's health is only behind while the change is
\* flagged or when it was sent without a call of SyncCharacterData.
THEOREM RecordFollows == Spec => []RecordStaleOnlyIfBenched
BY InvariantIInv, PTL DEF IInv

\* SetValue erases past its list for an attribute that was zeroed without
\* an entry, and for no other.
THEOREM ErasesWhatItListed == Spec => []AttributesSound
BY InvariantIInv, PTL DEF IInv

----------------------------------------------------------------------------
(* A network that loses nothing.                                           *)

\* When no packet may be lost, none of a message is.
LEMMA DeliverAll ==
    ASSUME MaxLosses = 0, TypeOK, missed = {}, NEW sent \in SUBSET Packet,
           \E lost \in Losable(sent) : Deliver(sent, lost)
    PROVE  missed' = {}
<1>1. PICK lost \in Losable(sent) : Deliver(sent, lost)
  OBVIOUS
<1>2. lost \in SUBSET Packet /\ losses + Cardinality(lost) <= 0
  BY DEF Losable
<1>3. IsFiniteSet(lost) /\ Cardinality(lost) \in Nat
  BY <1>2, PacketsFinite
<1>4. losses \in Nat
  BY DEF TypeOK
<1>5. Cardinality(lost) = 0
  BY <1>2, <1>3, <1>4
<1>6. lost = {}
  BY <1>3, <1>5, FS_EmptySet
<1> QED BY <1>1, <1>6 DEF Deliver

\* So nothing is ever missed.
LEMMA NothingMissed ==
    ASSUME MaxLosses = 0, IInv, missed = {}, [Next]_vars
    PROVE  missed' = {}
<1>0. TypeOK /\ active \in SUBSET Heroes
  BY DEF IInv, TypeOK
<1>1. CASE Script \/ SwapCharacter \/ BeginUpdate \/ FinishUpdate \/ UNCHANGED vars
  BY <1>1 DEF Script, SwapCharacter, BeginUpdate, FinishUpdate, vars, clientVars
<1>2. ASSUME NEW c \in Clients, Connect(c) \/ Disconnect(c)
      PROVE  missed' = {}
  BY <1>2 DEF Connect, Disconnect, clientVars
<1>3. ASSUME NEW c \in Clients, OnPlayerStart(c)
      PROVE  missed' = {}
  <2> DEFINE mine == IF c = Owner THEN Heroes ELSE {}
             f == [h \in Heroes |-> IF h \in mine THEN flags[h] \cup {"Attributes"}
                                                  ELSE flags[h]]
  <2>1. \E lost \in Losable(Sent(mine, active, f)) :
            Deliver(Sent(mine, active, f), lost)
    BY <1>3 DEF OnPlayerStart, Sent
  <2>2. mine \in SUBSET Heroes /\ f \in [Heroes -> SUBSET Flags]
    BY <1>0 DEF TypeOK, Flags
  <2>3. Sent(mine, active, f) \in SUBSET Packet
    <3> HIDE DEF mine, f
    <3> QED BY <1>0, <2>2, SentTyped
  <2> QED BY <1>0, <2>1, <2>3, DeliverAll
<1>4. ASSUME NEW h \in Heroes, Visit(h)
      PROVE  missed' = {}
  <2>1. CASE NeedUpdate(h) /\ mGameStarted
    <3>1. Sent({h}, {}, flags) = CreatePackets({h}) \cup UpdatePackets(h, flags[h])
      BY DEF Sent
    <3>2. \E lost \in Losable(Sent({h}, {}, flags)) :
              Deliver(Sent({h}, {}, flags), lost)
      BY <1>4, <2>1, <3>1 DEF Visit
    <3>3. Sent({h}, {}, flags) \in SUBSET Packet
      BY <1>0, SentTyped DEF TypeOK
    <3> QED BY <1>0, <3>2, <3>3, DeliverAll
  <2>2. CASE ~(NeedUpdate(h) /\ mGameStarted)
    BY <1>4, <2>2 DEF Visit, clientVars
  <2> QED BY <2>1, <2>2
<1> QED BY <1>1, <1>2, <1>3, <1>4 DEF Next

\* A connected client's copy of a hero in the game is the hero, but for what
\* is flagged to go out with the next update.
Faithful ==
    \A c \in clients, h \in active :
        h \in known[c] /\ ~broken =>
            /\ "Combatant" \in flags[h] \/ toldHealth[<<c, h>>] = mHitPoints[h]
            /\ h \in collisionBit \/ toldCollision[<<c, h>>] = mbHasCollision[h]
            /\ "Attributes" \in flags[h] \/ toldAttrs[<<c, h>>] = mData[h]

\* On a network that loses nothing SetFlags, ResetUpdateBits and the loops of
\* SendObjectCreate and SendObjectUpdate over the clients keep every copy
\* faithful: lost packets are the one reason why copies stay behind.
THEOREM FaithfulIfNothingIsLost == MaxLosses = 0 => (Spec => []Faithful)
<1> SUFFICES ASSUME MaxLosses = 0 PROVE Spec => []Faithful
  OBVIOUS
<1>1. Init => missed = {}
  BY DEF Init
<1>2. IInv /\ missed = {} /\ [Next]_vars => (missed = {})'
  BY NothingMissed
<1>3. IInv /\ missed = {} => Faithful
  BY DEF IInv, StaleOnlyIfMissed, Faithful
<1> QED BY <1>1, <1>2, <1>3, InvariantIInv, PTL DEF Spec

=============================================================================
