-------------------------- MODULE HeroReplication --------------------------
(***************************************************************************)
(* The heroes of one player in a running game, and the copies that clients *)
(* keep of them (Game/Object.cpp, Game/Attributes.cpp, Game/Instance.cpp,  *)
(* Game/Player.cpp).                                                       *)
(*                                                                         *)
(* Scripts hurt, heal and change heroes; each change is noted in a flag or *)
(* a data bit, and the next update of the object sends what is flagged.    *)
(* Packets go out UNRELIABLE_WITH_ACK_RECEIPT and a loss receipt is        *)
(* ignored (RakNet/Server.cpp Send, ParseRakNetPackets): any of them may   *)
(* be lost.  The player also keeps a record of each hero, copied from the  *)
(* hero's object while he is the deployed one.  All this is about one      *)
(* Player: one that a later Hello of the same user makes is another one.   *)
(*                                                                         *)
(* Everything here runs on the game's thread; an update visits the active  *)
(* objects one after the other, and scripts run between the visits.        *)
(***************************************************************************)
EXTENDS Naturals, FiniteSets

CONSTANTS Clients,     \* clients of the game that have said Hello or may
          Owner,       \* the client whose player the heroes belong to
          LastHero,    \* heroes are the deck indices 0 .. LastHero
          StartAttrs,  \* the attributes OnPlayerStart sets to 1
          MaxHealth,   \* bound: the largest health and attribute value
          MaxOps,      \* bound: calls of scripts, swaps and connections
          MaxLosses    \* bound: packets lost

ASSUME ReplicationAssumption ==
    /\ Owner \in Clients /\ IsFiniteSet(Clients) /\ IsFiniteSet(StartAttrs)
    /\ "MaxHealth" \notin StartAttrs
    /\ LastHero \in Nat \ {0} /\ MaxHealth \in Nat \ {0}
    /\ MaxOps \in Nat /\ MaxLosses \in Nat

VARIABLES
    clients,       \* Server::mClients
    mGameStarted,  \* Instance::mGameStarted
    active,        \* heroes in ObjectManager::mActiveObjects
    marked,        \* heroes in ObjectManager::mMarkedObjects
    left,          \* heroes the running update has still to visit
    updating,      \* ObjectManager::Update is in its loop
    deployed,      \* Player::mCurrentDeckIndex
    flags,         \* Object::mFlags, but for locomotion and loot
    mHitPoints,    \* CombatantData::mHitPoints
    mbHasCollision,
    collisionBit,  \* heroes with ObjectDataBits::HasCollision set
    mData,         \* Attributes::mData; 0: no entry
    mDataBits,     \* Attributes::mDataBits
    mErasedData,   \* Attributes::mErasedData
    broken,        \* an erase past the end of mErasedData
    record,        \* hero |-> Character::mHealthPoints in mCharacterData
    known,         \* client |-> heroes it was told to create
    toldHealth, toldCollision, toldAttrs,   \* the clients' copies
    ops, losses,   \* what MaxOps and MaxLosses bound
    missed,        \* history: <<client, hero, kind>> whose last packet
                   \* of that kind was lost
    benched,       \* history: heroes whose last health went out without
                   \* a copy to the record
    zeroed         \* history: <<hero, attribute>> set to 0 with no entry

objectVars == <<flags, mHitPoints, mbHasCollision, collisionBit, mData,
                mDataBits, mErasedData, broken, zeroed>>
managerVars == <<active, marked>>
loopVars == <<left, updating>>
clientVars == <<known, toldHealth, toldCollision, toldAttrs, missed, losses>>
playerVars == <<deployed, record, benched>>
vars == <<clients, mGameStarted, objectVars, managerVars, loopVars,
          clientVars, playerVars, ops>>

Heroes == 0..LastHero
Health == 0..MaxHealth
Attrs == {"MaxHealth"} \cup StartAttrs
Flags == {"Created", "Combatant", "Attributes", "Marked"}
Kinds == {"Create", "Collision", "Combatant", "Attributes"}
Packet == Clients \X Heroes \X Kinds

TypeOK ==
    /\ clients \subseteq Clients /\ mGameStarted \in BOOLEAN
    /\ active \subseteq Heroes /\ marked \subseteq Heroes
    /\ left \subseteq Heroes /\ updating \in BOOLEAN
    /\ deployed \in 0..(LastHero + 1)
    /\ flags \in [Heroes -> SUBSET Flags]
    /\ mHitPoints \in [Heroes -> Health]
    /\ mbHasCollision \in [Heroes -> BOOLEAN] /\ collisionBit \subseteq Heroes
    /\ mData \in [Heroes -> [Attrs -> Health]]
    /\ mDataBits \in [Heroes -> SUBSET Attrs]
    /\ mErasedData \in [Heroes -> SUBSET Attrs]
    /\ broken \in BOOLEAN
    /\ record \in [Heroes -> Health]
    /\ known \in [Clients -> SUBSET Heroes]
    /\ toldHealth \in [Clients \X Heroes -> Health]
    /\ toldCollision \in [Clients \X Heroes -> BOOLEAN]
    /\ toldAttrs \in [Clients \X Heroes -> [Attrs -> Health]]
    /\ ops \in 0..MaxOps /\ losses \in 0..MaxLosses
    /\ missed \subseteq Packet
    /\ benched \subseteq Heroes /\ zeroed \subseteq Heroes \X Attrs

\* The heroes as Player::SetSquad leaves them.
Init ==
    /\ clients = {Owner} /\ mGameStarted = FALSE
    /\ active = Heroes /\ marked = {}
    /\ left = {} /\ updating = FALSE
    /\ deployed = 0
    /\ flags = [h \in Heroes |-> {"Combatant", "Attributes"}]
    /\ mHitPoints = [h \in Heroes |-> MaxHealth]
    /\ mbHasCollision = [h \in Heroes |-> TRUE] /\ collisionBit = Heroes
    /\ mData = [h \in Heroes |-> [a \in Attrs |->
                    IF a = "MaxHealth" THEN MaxHealth ELSE 0]]
    /\ mDataBits = [h \in Heroes |-> {"MaxHealth"}]
    /\ mErasedData = [h \in Heroes |-> {}]
    /\ broken = FALSE
    /\ record = [h \in Heroes |-> MaxHealth]
    /\ known = [c \in Clients |-> {}]
    /\ toldHealth = [p \in Clients \X Heroes |-> 0]
    /\ toldCollision = [p \in Clients \X Heroes |-> FALSE]
    /\ toldAttrs = [p \in Clients \X Heroes |-> [a \in Attrs |-> 0]]
    /\ ops = 0 /\ losses = 0
    /\ missed = {} /\ benched = {} /\ zeroed = {}

----------------------------------------------------------------------------
(* Attributes.                                                             *)

\* Mutant: erasing an entry does not note it.
Erased_Forgets(h, a, v) ==
    IF mData[h][a] # 0
    THEN mErasedData[h]
    ELSE IF v # 0 THEN mErasedData[h] \ {a} ELSE mErasedData[h]

\* What Attributes::SetValue leaves of the list of erased entries.
Erased(h, a, v) ==
    IF mData[h][a] # 0
    THEN mErasedData[h] \cup (IF v = 0 THEN {a} ELSE {})
    ELSE IF v # 0 THEN mErasedData[h] \ {a} ELSE mErasedData[h]

\* Attributes::SetValue erases the result of a find in mErasedData without
\* a test: undefined when the entry is not there.
ErasesNothing(h, a, v) ==
    /\ mData[h][a] = 0 /\ v # 0
    /\ a \in mDataBits[h] /\ a \notin mErasedData[h]

\* Object::SetAttributeValue.
SetAttributeValue(h, a, v) ==
    /\ mData' = [mData EXCEPT ![h][a] = v]
    /\ mDataBits' = [mDataBits EXCEPT ![h] = @ \cup {a}]
    /\ mErasedData' = [mErasedData EXCEPT ![h] = Erased(h, a, v)]
    /\ broken' = ErasesNothing(h, a, v)
    /\ zeroed' = IF mData[h][a] = 0 /\ v = 0 THEN zeroed \cup {<<h, a>>}
                                             ELSE zeroed
    /\ flags' = [flags EXCEPT ![h] = @ \cup {"Attributes"}]
    /\ UNCHANGED <<mHitPoints, mbHasCollision, collisionBit>>

----------------------------------------------------------------------------
(* Health.                                                                 *)

\* Object::SetHealth keeps a health at or below the maximum.
Clamped(h, v) == IF v <= mData[h]["MaxHealth"] THEN v ELSE mData[h]["MaxHealth"]

\* Object::SetHealth.
SetHealth(h, v) ==
    /\ mHitPoints' = [mHitPoints EXCEPT ![h] = Clamped(h, v)]
    /\ flags' = [flags EXCEPT ![h] = @ \cup {"Combatant"}]

\* A health after a hit, not below zero.
After(h, damage) == IF damage >= mHitPoints[h] THEN 0 ELSE mHitPoints[h] - damage

\* Instance::OnObjectDeath of a creature: it stops colliding, and a
\* critical hit marks it for deletion.
OnObjectDeath(h, critical) ==
    /\ mbHasCollision' = [mbHasCollision EXCEPT ![h] = FALSE]
    /\ collisionBit' = collisionBit \cup {h}
    /\ marked' = IF critical /\ "Marked" \notin flags[h] THEN marked \cup {h}
                                                          ELSE marked
    /\ flags' = [flags EXCEPT ![h] = @ \cup {"Combatant"} \cup
                    (IF critical THEN {"Marked"} ELSE {})]

\* Object::TakeDamage: a hit that leaves no health is a death, also when
\* the hero was dead before.
TakeDamage(h, damage, critical) ==
    LET health == Clamped(h, After(h, damage)) IN
    /\ IF health = 0
       THEN /\ mHitPoints' = [mHitPoints EXCEPT ![h] = 0]
            /\ OnObjectDeath(h, critical)
       ELSE /\ SetHealth(h, After(h, damage))
            /\ UNCHANGED <<mbHasCollision, collisionBit, marked>>
    /\ UNCHANGED <<mData, mDataBits, mErasedData, broken, zeroed, active>>

\* Object::Heal, for a heal of a positive value; OnResurrect changes no
\* state that is sent.
Heal(h, value) ==
    /\ SetHealth(h, mHitPoints[h] + value)
    /\ UNCHANGED <<mbHasCollision, collisionBit, mData, mDataBits,
                   mErasedData, broken, zeroed, managerVars>>

----------------------------------------------------------------------------
(* What clients are sent, and what of it arrives.  A packet carries the   *)
(* object as it is when it is sent: the primed variables, since a handler  *)
(* may change a hero and send him.  A client is taken to apply what it     *)
(* gets to an object it knows.                                             *)

\* Object::NeedUpdate, for the parts that are modelled.
NeedUpdate(h) == flags[h] \cap {"Combatant", "Attributes"} # {} \/ h \in collisionBit

\* Instance::SendObjectCreate sends nothing for a created object.
Creates(hs) == {h \in hs : "Created" \notin flags[h]}

\* The packets of SendObjectCreate for heroes hs.
CreatePackets(hs) == clients \X Creates(hs) \X {"Create"}

\* The packets SendObjectUpdate sends for h after a creation, with flags f;
\* creating an object resets its data bits.
UpdatePackets(h, f) ==
    {p \in clients \X {h} \X Kinds :
        \/ p[3] = "Collision" /\ h \in collisionBit /\ "Created" \in flags[h]
        \/ p[3] \in {"Combatant", "Attributes"} \cap f}

\* Mutant: erased entries are not written.
AttrsSent_NoErased(h, copy) ==
    [a \in Attrs |-> IF mData'[h][a] # 0 /\ a \in mDataBits'[h]
                     THEN mData'[h][a] ELSE copy[a]]

\* Attributes::WriteReflection: entries with a bit, and erased ones as 0;
\* the rest of the copy stays.  (ResetReflectionBits is never called.)
AttrsSent(h, copy) ==
    [a \in Attrs |-> IF mData'[h][a] # 0 /\ a \in mDataBits'[h]
                     THEN mData'[h][a]
                     ELSE IF a \in mErasedData'[h] THEN 0 ELSE copy[a]]

\* The clients' copies after the packets of sent, of which lost are lost.
\* A client without the object ignores an update of it.
Deliver(sent, lost) ==
    LET got == sent \ lost
        knows(c, h) == h \in known[c] \/ <<c, h, "Create">> \in got
        hears(p, k) == knows(p[1], p[2]) /\ <<p[1], p[2], k>> \in got
    IN
    /\ known' = [c \in Clients |-> known[c] \cup {h \in Heroes : knows(c, h)}]
    /\ toldHealth' = [p \in Clients \X Heroes |->
          IF hears(p, "Combatant") THEN mHitPoints'[p[2]] ELSE toldHealth[p]]
    /\ toldCollision' = [p \in Clients \X Heroes |->
          IF hears(p, "Collision") \/ hears(p, "Create")
          THEN mbHasCollision'[p[2]] ELSE toldCollision[p]]
    /\ toldAttrs' = [p \in Clients \X Heroes |->
          IF hears(p, "Attributes") THEN AttrsSent(p[2], toldAttrs[p])
                                    ELSE toldAttrs[p]]
    /\ missed' = (missed \ got) \cup lost
    /\ losses' = losses + Cardinality(lost)

\* The packets that may be lost of those sent.
Losable(sent) == {lost \in SUBSET sent : losses + Cardinality(lost) <= MaxLosses}

\* Mutant: the flags are cleared whoever is there.
Cleared_Always == {"Combatant", "Attributes"}

\* The flags SendObjectUpdate clears.  It clears them inside the loop over
\* the clients: with no client they stay.
Cleared == IF clients = {} THEN {} ELSE {"Combatant", "Attributes"}

\* SendObjectUpdate calls Player::SyncCharacterData for the client whose
\* deployed hero it is sending.
Syncs(h) == Owner \in clients /\ deployed = h

\* The player's record after the heroes hs were sent with flags f.
SyncRecords(hs, f) ==
    /\ record' = [h \in Heroes |->
          IF h \in hs /\ Syncs(h) THEN mHitPoints[h] ELSE record[h]]
    /\ benched' = (benched \ {h \in hs : Syncs(h)}) \cup
          {h \in hs : ~Syncs(h) /\ clients # {} /\ "Combatant" \in f[h]}

----------------------------------------------------------------------------
(* Actions.                                                                *)

\* After undefined behaviour nothing is known.
Op == ~broken /\ ops < MaxOps /\ ops' = ops + 1

Idle == Op /\ ~updating

\* A script's call, between the visits of an update or from Lua::Update.
Script ==
    /\ Op
    /\ \E h \in Heroes :
        \/ \E d \in 1..MaxHealth, critical \in BOOLEAN : TakeDamage(h, d, critical)
        \/ \E v \in 1..MaxHealth : Heal(h, v)
        \/ /\ \E a \in Attrs, v \in Health : SetAttributeValue(h, a, v)
           /\ UNCHANGED managerVars
    /\ UNCHANGED <<clients, mGameStarted, loopVars, clientVars, playerVars>>

\* Instance::SwapCharacter: any index is taken.
SwapCharacter ==
    /\ Idle
    /\ \E i \in 0..(LastHero + 1) : deployed' = i
    /\ UNCHANGED <<clients, mGameStarted, objectVars, managerVars, loopVars,
                   clientVars, record, benched>>

\* Another client comes, its Hello included, with no copy of anything; or comes
\* back.  A Hello of the owner, back or still there, makes a new Player with
\* heroes of its own (SetUser), of which nothing is said here: the old ones are
\* nobody's then.
Connect(c) ==
    /\ Idle /\ c \notin clients /\ c # Owner
    /\ clients' = clients \cup {c}
    /\ known' = [known EXCEPT ![c] = {}]
    /\ missed' = {p \in missed : p[1] # c}
    /\ UNCHANGED <<mGameStarted, objectVars, managerVars, loopVars, losses,
                   toldHealth, toldCollision, toldAttrs, playerVars>>

\* Server::RemoveClient.
Disconnect(c) ==
    /\ Idle /\ c \in clients
    /\ clients' = clients \ {c}
    /\ UNCHANGED <<mGameStarted, objectVars, managerVars, loopVars,
                   clientVars, playerVars>>

\* Instance::OnPlayerStart, for c's player, and the swap that follows it in
\* OnPlayerStatusUpdate: every active object is created at the clients,
\* then the player's heroes are changed and sent, the deleted ones too.
OnPlayerStart(c) ==
    LET mine == IF c = Owner THEN Heroes ELSE {}
        f == [h \in Heroes |-> IF h \in mine THEN flags[h] \cup {"Attributes"}
                                              ELSE flags[h]]
        sent == CreatePackets(active \cup mine) \cup
                UNION {UpdatePackets(h, f[h]) : h \in mine}
        starts(h, a) == h \in mine /\ a \in StartAttrs
    IN
    /\ Idle /\ c \in clients
    /\ mGameStarted' = TRUE
    /\ mData' = [h \in Heroes |-> [a \in Attrs |->
                    IF starts(h, a) THEN 1 ELSE mData[h][a]]]
    /\ mDataBits' = [h \in Heroes |->
                        mDataBits[h] \cup {a \in Attrs : starts(h, a)}]
    /\ mErasedData' = [h \in Heroes |->
                          {a \in mErasedData[h] : ~starts(h, a)}]
    /\ broken' = (\E h \in mine, a \in StartAttrs : ErasesNothing(h, a, 1))
    /\ flags' = [h \in Heroes |->
          IF h \in mine THEN (f[h] \ Cleared) \cup {"Created"}
          ELSE IF h \in active THEN f[h] \cup {"Created"} ELSE f[h]]
    /\ collisionBit' = collisionBit \ (mine \cup Creates(active))
    /\ UNCHANGED <<mHitPoints, mbHasCollision>>
    /\ \E lost \in Losable(sent) : Deliver(sent, lost)
    /\ SyncRecords(mine, f)
    /\ deployed' = IF c = Owner THEN 1 ELSE deployed
    /\ UNCHANGED <<clients, zeroed, managerVars, loopVars>>

\* ObjectManager::Update begins.
BeginUpdate ==
    /\ ~broken /\ ~updating
    /\ updating' = TRUE /\ left' = active
    /\ UNCHANGED <<clients, mGameStarted, objectVars, managerVars,
                   clientVars, playerVars, ops>>

\* The loop comes to hero h: Instance::SendObjectUpdate, if he needs it.
Visit(h) ==
    LET sent == CreatePackets({h}) \cup UpdatePackets(h, flags[h]) IN
    /\ ~broken /\ h \in left
    /\ left' = left \ {h}
    /\ UNCHANGED <<mHitPoints, mbHasCollision, mData, mDataBits, mErasedData,
                   broken, zeroed>>
    /\ IF NeedUpdate(h) /\ mGameStarted
       THEN /\ flags' = [flags EXCEPT ![h] = (@ \ Cleared) \cup {"Created"}]
            /\ collisionBit' = collisionBit \ {h}
            /\ \E lost \in Losable(sent) : Deliver(sent, lost)
            /\ SyncRecords({h}, flags)
       ELSE UNCHANGED <<flags, collisionBit, clientVars, record, benched>>
    /\ UNCHANGED <<clients, mGameStarted, managerVars, updating, deployed, ops>>

\* The rest of ObjectManager::Update: one delete packet to each client,
\* which a client in deaf does not get, and the marked objects go.
FinishUpdate ==
    /\ ~broken /\ updating /\ left = {}
    /\ updating' = FALSE
    /\ active' = active \ marked /\ marked' = {}
    /\ IF marked = {}
       THEN UNCHANGED <<known, losses>>
       ELSE \E deaf \in SUBSET clients :
            /\ losses + Cardinality(deaf) <= MaxLosses
            /\ losses' = losses + Cardinality(deaf)
            /\ known' = [c \in Clients |-> IF c \in clients \ deaf
                                           THEN known[c] \ marked ELSE known[c]]
    /\ UNCHANGED <<clients, mGameStarted, objectVars, left, missed,
                   toldHealth, toldCollision, toldAttrs, playerVars, ops>>

Next ==
    \/ Script \/ SwapCharacter
    \/ \E c \in Clients : Connect(c) \/ Disconnect(c) \/ OnPlayerStart(c)
    \/ BeginUpdate
    \/ \E h \in Heroes : Visit(h)
    \/ FinishUpdate

Spec == Init /\ [][Next]_vars

----------------------------------------------------------------------------
(* Properties.                                                             *)

\* A connected client's copy of a hero in the game differs from the hero
\* only while the change is flagged for the next update, or when the last
\* packet that carried it was lost: nothing is sent again (the loss receipt
\* of Server::ParseRakNetPackets is dropped), and nothing else is forgotten
\* by SetFlags, ResetUpdateBits and the loop over the clients.
StaleOnlyIfMissed ==
    \A c \in clients, h \in active :
        h \in known[c] /\ ~broken =>
            /\ \/ toldHealth[<<c, h>>] = mHitPoints[h]
               \/ "Combatant" \in flags[h] \/ <<c, h, "Combatant">> \in missed
            /\ \/ toldCollision[<<c, h>>] = mbHasCollision[h]
               \/ h \in collisionBit \/ <<c, h, "Collision">> \in missed
            /\ \/ toldAttrs[<<c, h>>] = mData[h]
               \/ "Attributes" \in flags[h] \/ <<c, h, "Attributes">> \in missed

\* The player's record of a hero's health is behind the hero only while a
\* change is flagged, or when his health went out while he was not deployed
\* or his player's client was away: Player::SyncCharacterData is called for
\* no other hero, and no later call makes up for it.
RecordStaleOnlyIfBenched ==
    \A h \in Heroes :
        \/ record[h] = mHitPoints[h]
        \/ "Combatant" \in flags[h]
        \/ h \in benched

\* Attributes::SetValue erases past the end of its list only for an
\* attribute that was set to 0 before it had a value; every other attribute
\* that was ever set has an entry or is listed as erased, so the next packet
\* carries it.
AttributesSound ==
    /\ broken => zeroed # {}
    /\ \A h \in Heroes, a \in Attrs :
        a \in mDataBits[h] /\ <<h, a>> \notin zeroed =>
            (mData[h][a] = 0) = (a \in mErasedData[h])

=============================================================================
