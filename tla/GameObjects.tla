---------------------------- MODULE GameObjects ----------------------------
(***************************************************************************)
(* The objects of one running game and what its clients are told of them   *)
(* (Game/ObjectManager.cpp, Game/Instance.cpp, the packet handlers of      *)
(* RakNet/Server.cpp that create, mark or announce objects).               *)
(*                                                                         *)
(* One thread runs all of it: packet handlers and tasks between two        *)
(* updates, and the update itself.  A handler is one action.  The update   *)
(* is a loop over every object that calls scripts, which create and mark   *)
(* objects while the loop runs, so it is taken apart: the octree pass, one *)
(* visit per object with the scripts' calls inside it, and the deletions.  *)
(*                                                                         *)
(* An object is a number, its address: the n-th object made.  Objects of   *)
(* the heap outlive their deletion from the manager: players, scripts and  *)
(* the octree keep shared pointers to them.                                *)
(***************************************************************************)
EXTENDS Naturals, Sequences, FiniteSets

CONSTANTS Clients,       \* network addresses
          MaxObjects,    \* bound: objects made in the game's life
          LevelObjects,  \* objects a level's marker sets describe
          SquadSize,     \* heroes of a squad: 3 in the code
          DropCount      \* catalysts of the debug drop: 4 in the code

ASSUME GameObjectsAssumption ==
    {MaxObjects, LevelObjects, SquadSize, DropCount} \subseteq Nat

VARIABLES
    made,            \* how many objects have been made
    ident,           \* Object::mId
    kind,            \* the noun's type, as far as a pickup tells it apart
    marked,          \* objects whose flags hold MarkedForDeletion
    created,         \* objects whose flags hold Created
    mObjects,        \* id |-> object
    mActiveObjects,
    mMarkedObjects,  \* the deletion queue
    sNextId,
    mOpenObjectIds,  \* ids to reuse, the last one first
    octree,          \* the objects the octree's nodes may hold
    octQueue,        \* OctTree::mQueue
    mGameStarted,
    mClients,        \* the connected clients
    hasPlayer,       \* clients whose mPlayer is set
    gameState,       \* Client::mGameState, as far as OnDebugPing tells it apart
    heroes,          \* mPlayer->mCharacterObjects
    pc,              \* where the game thread is
    todo,            \* objects the update's loop has still to visit
    cur,             \* the object it is visiting
    told,            \* history: the objects a client knows of
    joined,          \* history: clients that were sent the world
    awards           \* history: how often a catalyst was given to a player

idVars == <<ident, kind, sNextId, mOpenObjectIds>>
netVars == <<mGameStarted, mClients, hasPlayer, gameState, heroes>>
loopVars == <<todo, cur>>
historyVars == <<told, joined, awards>>
vars == <<made, marked, created, mObjects, mActiveObjects, mMarkedObjects,
          octree, octQueue, pc, idVars, netVars, loopVars, historyVars>>

Objects == 1..MaxObjects
Kinds == {"crystal", "loot", "hero", "other"}
NoObject == 0

Made == 1..made

TypeOK ==
    /\ made \in 0..MaxObjects
    /\ ident \in [Objects -> Nat]
    /\ kind \in [Objects -> Kinds]
    /\ marked \subseteq Made /\ created \subseteq Made
    /\ DOMAIN mObjects \subseteq Nat \ {0}
    /\ \A i \in DOMAIN mObjects : mObjects[i] \in Made
    /\ mActiveObjects \subseteq Made
    /\ mMarkedObjects \in Seq(Made)
    /\ sNextId \in Nat \ {0}
    /\ mOpenObjectIds \in Seq(Nat \ {0})
    /\ octree \subseteq Made /\ octQueue \subseteq Made
    /\ mGameStarted \in BOOLEAN
    /\ mClients \subseteq Clients
    /\ hasPlayer \subseteq mClients
    /\ gameState \in [Clients -> {"lobby", "PreDungeon", "Dungeon"}]
    /\ heroes \in [Clients -> SUBSET Made]
    /\ pc \in {"idle", "loop", "visit", "crashed"}
    /\ todo \subseteq Made
    /\ cur \in Made \cup {NoObject}
    /\ told \in [Clients -> SUBSET Made]
    /\ joined \subseteq Clients
    /\ awards \in [Objects -> Nat]

Init ==
    /\ made = 0
    /\ ident = [o \in Objects |-> 0]
    /\ kind = [o \in Objects |-> "other"]
    /\ marked = {} /\ created = {}
    /\ mObjects = <<>>
    /\ mActiveObjects = {}
    /\ mMarkedObjects = <<>>
    /\ sNextId = 1
    /\ mOpenObjectIds = <<>>
    /\ octree = {} /\ octQueue = {}
    /\ mGameStarted = FALSE
    /\ mClients = {} /\ hasPlayer = {}
    /\ gameState = [c \in Clients |-> "lobby"]
    /\ heroes = [c \in Clients |-> {}]
    /\ pc = "idle"
    /\ todo = {} /\ cur = NoObject
    /\ told = [c \in Clients |-> {}]
    /\ joined = {}
    /\ awards = [o \in Objects |-> 0]

----------------------------------------------------------------------------
(* Ids.  GetNextObjectId pops the back of mOpenObjectIds, or counts on.    *)
(* NewId(n) is what the n-th of several calls in a row returns.            *)

NewId(n) == IF n <= Len(mOpenObjectIds)
            THEN mOpenObjectIds[Len(mOpenObjectIds) - n + 1]
            ELSE sNextId + (n - Len(mOpenObjectIds) - 1)

\* Mutant: GetNextObjectId reads the back of the open ids, and leaves it there.
StillOpen_Peek(n) == mOpenObjectIds

\* The ids still open after n calls.
StillOpen(n) == IF n <= Len(mOpenObjectIds)
                THEN SubSeq(mOpenObjectIds, 1, Len(mOpenObjectIds) - n)
                ELSE <<>>

\* Mutant: the counter stays.
NextId_Stays(n) == sNextId

\* The counter after n calls.
NextId(n) == IF n <= Len(mOpenObjectIds)
             THEN sNextId
             ELSE sNextId + (n - Len(mOpenObjectIds))

\* try_emplace inserts: the n-th id names no object of the table, nor one
\* that an earlier of the calls made.
Inserted(n) == /\ NewId(n) \notin DOMAIN mObjects
               /\ \A m \in 1..n - 1 : NewId(m) # NewId(n)

\* The objects that n calls of Create return.
NewObjects(n) == {made + m : m \in {k \in 1..n : Inserted(k)}}

\* One Create per element of kinds.  (A call that finds its id taken returns
\* null; the number it would have had is skipped.)
Create(kinds) ==
    LET n == Len(kinds)
        new == NewObjects(n)
        ids == {NewId(o - made) : o \in new}
    IN  /\ made + n <= MaxObjects
        /\ made' = made + n
        /\ ident' = [o \in Objects |-> IF o \in made + 1 .. made + n
                                       THEN NewId(o - made) ELSE ident[o]]
        /\ kind' = [o \in Objects |-> IF o \in made + 1 .. made + n
                                      THEN kinds[o - made] ELSE kind[o]]
        /\ sNextId' = NextId(n)
        /\ mOpenObjectIds' = StillOpen(n)
        /\ mObjects' = [i \in DOMAIN mObjects \cup ids |->
                           IF i \in DOMAIN mObjects THEN mObjects[i]
                           ELSE CHOOSE o \in new : NewId(o - made) = i]
        /\ mActiveObjects' = mActiveObjects \cup new
        /\ octQueue' = octQueue \cup new

----------------------------------------------------------------------------
(* Messages.  Every connected client is sent the same; told is what the    *)
(* server has sent, whether or not the datagram arrives.                   *)

\* What a client knows after a create message for each of os: a message
\* carries an id, and the client's object of that id is the one it names.
Shown(names, view, os) ==
    {x \in view : \A o \in os : names[x] # names[o]} \cup os

\* SendObjectCreate for each of os: nothing before the game has started, and
\* nothing for an object that is flagged as created.
SendObjectCreate(os) ==
    LET fresh == IF mGameStarted THEN os \ created ELSE {}
    IN  /\ created' = created \cup fresh
        /\ told' = [c \in Clients |->
                      IF c \in mClients THEN Shown(ident', told[c], fresh)
                                        ELSE told[c]]

\* SendObjectUpdate asks every client's player for its deployed character,
\* and does not ask first whether the client has a player.
NullPlayer == mClients \ hasPlayer # {}
NullDereference(os) == os # {} /\ mGameStarted /\ NullPlayer

SendObjectUpdate(os) ==
    /\ SendObjectCreate(os)
    /\ pc' = IF NullDereference(os) THEN "crashed" ELSE pc

\* Mutant: only the clients with a player are told.
SendObjectDelete_PlayersOnly(os) ==
    told' = [c \in Clients |->
               IF c \in hasPlayer
                 THEN {x \in told[c] : \A o \in os : ident[x] # ident[o]}
                 ELSE told[c]]

SendObjectDelete(os) ==
    told' = [c \in Clients |->
               IF c \in mClients
                 THEN {x \in told[c] : \A o \in os : ident[x] # ident[o]}
                 ELSE told[c]]

----------------------------------------------------------------------------
(* Connections and sessions.                                               *)

Connect(c) ==
    /\ pc = "idle"
    /\ c \notin mClients
    /\ mClients' = mClients \cup {c}
    /\ UNCHANGED <<made, marked, created, mObjects, mActiveObjects,
                   mMarkedObjects, octree, octQueue, pc, idVars, loopVars,
                   historyVars, mGameStarted, hasPlayer, gameState, heroes>>

\* The client object goes; the hero objects of its player stay in the game.
Disconnect(c) ==
    /\ pc = "idle"
    /\ c \in mClients
    /\ mClients' = mClients \ {c}
    /\ hasPlayer' = hasPlayer \ {c}
    /\ gameState' = [gameState EXCEPT ![c] = "lobby"]
    /\ heroes' = [heroes EXCEPT ![c] = {}]
    /\ told' = [told EXCEPT ![c] = {}]
    /\ joined' = joined \ {c}
    /\ UNCHANGED <<made, marked, created, mObjects, mActiveObjects,
                   mMarkedObjects, octree, octQueue, pc, idVars, loopVars,
                   mGameStarted, awards>>

\* Hello with the id of a known user: the client gets a new player, without
\* characters, whether or not it had one.
HelloPlayer(c) ==
    /\ pc = "idle"
    /\ c \in mClients
    /\ hasPlayer' = hasPlayer \cup {c}
    /\ heroes' = [heroes EXCEPT ![c] = {}]
    /\ UNCHANGED <<made, marked, created, mObjects, mActiveObjects,
                   mMarkedObjects, octree, octQueue, pc, idVars, loopVars,
                   historyVars, mGameStarted, mClients, gameState>>

\* PrepareGameStart with a squad of the user, which is full: Player::SetSquad
\* makes an object of every creature, and forgets those of the last squad.
PrepareGameStart(c) ==
    /\ pc = "idle"
    /\ c \in hasPlayer
    /\ Create([n \in 1..SquadSize |-> "hero"])
    /\ heroes' = [heroes EXCEPT ![c] = NewObjects(SquadSize)]
    /\ gameState' = [gameState EXCEPT ![c] = "PreDungeon"]
    /\ UNCHANGED <<marked, created, mMarkedObjects, octree, pc, loopVars,
                   historyVars, mGameStarted, mClients, hasPlayer>>

\* PlayerStatusUpdate 8, the client has loaded the level: SendGameStart.
StartGame(c) ==
    /\ pc = "idle"
    /\ c \in hasPlayer
    /\ gameState[c] = "PreDungeon"
    /\ gameState' = [gameState EXCEPT ![c] = "Dungeon"]
    /\ UNCHANGED <<made, marked, created, mObjects, mActiveObjects,
                   mMarkedObjects, octree, octQueue, pc, idVars, loopVars,
                   historyVars, mGameStarted, mClients, hasPlayer, heroes>>

\* PlayerStatusUpdate 0x20: the player beams out to the chain vote.
BeamOut(c) ==
    /\ pc = "idle"
    /\ c \in hasPlayer
    /\ gameState[c] = "Dungeon"
    /\ gameState' = [gameState EXCEPT ![c] = "lobby"]
    /\ UNCHANGED <<made, marked, created, mObjects, mActiveObjects,
                   mMarkedObjects, octree, octQueue, pc, idVars, loopVars,
                   historyVars, mGameStarted, mClients, hasPlayer, heroes>>

\* DebugPing in the dungeon, once LoadLevel finds the level: OnPlayerStart
\* makes the level's objects, sends every active object that is not flagged
\* as created to every client, then the player's heroes, alive or not.
OnPlayerStart(c) ==
    /\ pc = "idle"
    /\ c \in hasPlayer
    /\ gameState[c] = "Dungeon"
    /\ Create([n \in 1..LevelObjects |-> "other"])
    /\ mGameStarted' = TRUE
    /\ LET world == mActiveObjects' \ created
           mine == heroes[c] \ (created \cup world)
       IN  /\ created' = created \cup world \cup mine
           /\ told' = [d \in Clients |->
                         IF d \in mClients
                           THEN Shown(ident', Shown(ident', told[d], world),
                                      mine)
                           ELSE told[d]]
    /\ joined' = joined \cup {c}
    /\ pc' = IF heroes[c] # {} /\ NullPlayer THEN "crashed" ELSE pc
    /\ UNCHANGED <<marked, mMarkedObjects, octree, loopVars, mClients,
                   hasPlayer, gameState, heroes, awards>>

----------------------------------------------------------------------------
(* What players do with objects.                                           *)

\* Mutant: the flag is set before the manager tests it.
MarkForDeletion_FlagFirst(o) ==
    /\ marked' = marked \cup {o}
    /\ mMarkedObjects' = IF o \in marked' THEN mMarkedObjects
                                          ELSE Append(mMarkedObjects, o)

\* Object::MarkForDeletion: the manager queues the object unless it is
\* flagged, then the flag is set.
MarkForDeletion(o) ==
    /\ mMarkedObjects' = IF o \in marked THEN mMarkedObjects
                                         ELSE Append(mMarkedObjects, o)
    /\ marked' = marked \cup {o}

\* Mutant: flagged objects can still be taken.
Takeable_Marked(i) == {mObjects[j] : j \in DOMAIN mObjects \cap {i}}

\* The object that a client's message names, if a pickup may still touch it.
Takeable(i) == {mObjects[j] : j \in DOMAIN mObjects \cap {i}} \ marked

\* InteractWithObject on loot: the object goes.  (No loot object in the game
\* holds a part: the code that would drop one is not called.)
PickupLoot(c, i) ==
    /\ pc = "idle"
    /\ c \in hasPlayer
    /\ \E o \in Takeable(i) : kind[o] = "loot" /\ MarkForDeletion(o)
    /\ UNCHANGED <<made, created, mObjects, mActiveObjects, octree, octQueue,
                   pc, idVars, netVars, loopVars, historyVars>>

\* InteractWithObject on a catalyst, with an open slot in the player's grid.
\* (Without one the players are told so, and nothing changes.)
PickupCatalyst(c, i) ==
    /\ pc = "idle"
    /\ c \in hasPlayer
    /\ \E o \in Takeable(i) :
          /\ kind[o] = "crystal"
          /\ MarkForDeletion(o)
          /\ awards' = [awards EXCEPT ![o] = @ + 1]
    /\ UNCHANGED <<made, created, mObjects, mActiveObjects, octree, octQueue,
                   pc, idVars, netVars, loopVars, told, joined>>

\* New objects that are sent to the clients at once.
Drop(c, kinds) ==
    /\ pc = "idle"
    /\ c \in hasPlayer
    /\ heroes[c] # {}
    /\ Create(kinds)
    /\ SendObjectCreate(NewObjects(Len(kinds)))
    /\ UNCHANGED <<marked, mMarkedObjects, octree, pc, netVars, loopVars,
                   joined, awards>>

\* InteractWithObject on anything else: an orb and a catalyst drop at the
\* player's character.
OpenObject(c, i) ==
    /\ \E o \in Takeable(i) : kind[o] \in {"hero", "other"}
    /\ Drop(c, <<"other", "crystal">>)

\* A catalyst of the grid is dragged into the world.
DropCatalyst(c) == Drop(c, <<"crystal">>)

\* The chat command that drops catalysts at a client's character.
DropCatalysts(c) == Drop(c, [n \in 1..DropCount |-> "crystal"])

----------------------------------------------------------------------------
(* Scripts: abilities, coroutines and ticks.                               *)

InScript == pc \in {"idle", "visit"}

\* A script, or a critical death, marks an object it holds.
ScriptMark(o) ==
    /\ InScript
    /\ MarkForDeletion(o)
    /\ UNCHANGED <<made, created, mObjects, mActiveObjects, octree, octQueue,
                   pc, idVars, netVars, loopVars, historyVars>>

\* The update iterates mActiveObjects itself.  When Create inserts into it the
\* set may rehash, and the rest of the iteration visits any of its elements.
Rehash == IF pc = "visit" THEN todo' \in SUBSET mActiveObjects'
                          ELSE UNCHANGED todo

\* nObjectManager.CreateObject: Create, then SendObjectUpdate.  (Catalysts
\* that hold one come from drops alone.)
ScriptCreate(k) ==
    /\ InScript
    /\ Create(<<k>>)
    /\ SendObjectUpdate(NewObjects(1))
    /\ Rehash
    /\ UNCHANGED <<marked, mMarkedObjects, octree, netVars, cur, joined,
                   awards>>

\* DropLoot of an object the script holds: an orb, a catalyst or both.
ScriptDrop(kinds) ==
    /\ InScript
    /\ made > 0
    /\ Create(kinds)
    /\ SendObjectCreate(NewObjects(Len(kinds)))
    /\ Rehash
    /\ UNCHANGED <<marked, mMarkedObjects, octree, pc, netVars, cur, joined,
                   awards>>

\* nObjectManager.CreateTriggerVolume: the clients hear of it later.
ScriptCreateTrigger ==
    /\ InScript
    /\ Create(<<"other">>)
    /\ Rehash
    /\ UNCHANGED <<marked, created, mMarkedObjects, octree, pc, netVars, cur,
                   historyVars>>

----------------------------------------------------------------------------
(* ObjectManager::Update.                                                  *)

\* Mutant: flagged objects go out before the queued ones go in.
OctreeUpdate_RemoveFirst ==
    /\ octree' = (octree \ marked) \cup octQueue
    /\ octQueue' = {}

\* OctTree::Update: queued objects go in, flagged objects go out, from every
\* node.  (An object outside the root's region is dropped; octree keeps it.)
OctreeUpdate ==
    /\ octree' = (octree \cup octQueue) \ marked
    /\ octQueue' = {}

BeginUpdate ==
    /\ pc = "idle"
    /\ pc' = "loop"
    /\ OctreeUpdate
    /\ todo' = mActiveObjects
    /\ UNCHANGED <<made, marked, created, mObjects, mActiveObjects,
                   mMarkedObjects, idVars, netVars, cur, historyVars>>

BeginVisit(o) ==
    /\ pc = "loop"
    /\ pc' = "visit"
    /\ cur' = o
    /\ todo' = todo \ {o}
    /\ UNCHANGED <<made, marked, created, mObjects, mActiveObjects,
                   mMarkedObjects, octree, octQueue, idVars, netVars,
                   historyVars>>

\* OnTick has returned.  needUpdate: some data bit or update flag is set, by
\* Initialize, a setter, a script or a packet.
EndVisit(needUpdate) ==
    /\ pc = "visit"
    /\ cur' = NoObject
    /\ UNCHANGED <<made, marked, mObjects, mActiveObjects, mMarkedObjects,
                   octree, octQueue, idVars, netVars, todo, joined, awards>>
    /\ LET sent == IF needUpdate THEN {cur} ELSE {}
       IN  /\ SendObjectCreate(sent)
           /\ pc' = IF NullDereference(sent) THEN "crashed" ELSE "loop"

\* The elements of the deletion queue, and their ids.
Doomed == {mMarkedObjects[n] : n \in 1..Len(mMarkedObjects)}
DoomedIds == {ident[o] : o \in Doomed}

EndUpdate ==
    /\ pc = "loop"
    /\ todo = {}
    /\ pc' = "idle"
    /\ SendObjectDelete(Doomed)
    /\ mActiveObjects' = mActiveObjects \ Doomed
    /\ mObjects' = [i \in DOMAIN mObjects \ DoomedIds |-> mObjects[i]]
    /\ mOpenObjectIds' = mOpenObjectIds \o
           [n \in 1..Len(mMarkedObjects) |-> ident[mMarkedObjects[n]]]
    /\ mMarkedObjects' = <<>>
    /\ UNCHANGED <<made, marked, created, octree, octQueue, ident, kind,
                   sNextId, netVars, loopVars, joined, awards>>

----------------------------------------------------------------------------

Session(c) ==
    \/ Connect(c)
    \/ Disconnect(c)
    \/ HelloPlayer(c)
    \/ PrepareGameStart(c)
    \/ StartGame(c)
    \/ BeamOut(c)
    \/ OnPlayerStart(c)

Play(c) ==
    \/ \E i \in Objects :
          \/ PickupLoot(c, i)
          \/ PickupCatalyst(c, i)
          \/ OpenObject(c, i)
    \/ DropCatalyst(c)
    \/ DropCatalysts(c)

Drops == {<<"other">>, <<"crystal">>, <<"other", "crystal">>}

Script ==
    \/ \E o \in Made : ScriptMark(o)
    \/ \E k \in {"loot", "other"} : ScriptCreate(k)
    \/ \E kinds \in Drops : ScriptDrop(kinds)
    \/ ScriptCreateTrigger

Update ==
    \/ BeginUpdate
    \/ \E o \in todo : BeginVisit(o)
    \/ \E needUpdate \in BOOLEAN : EndVisit(needUpdate)
    \/ EndUpdate

Next ==
    \/ \E c \in Clients : Session(c) \/ Play(c)
    \/ Script
    \/ Update

Spec == Init /\ [][Next]_vars

\* The game thread's loop keeps calling Update, and an update's steps are the
\* thread's own.
FairSpec == Spec /\ WF_vars(Update)

----------------------------------------------------------------------------
(* Properties.                                                             *)

\* The table and the active set are two views of one thing: every id of
\* mObjects names an active object that bears it, and every active object is
\* found under its id.  (Create and Update maintain both, separately.)
TablesAgree ==
    /\ \A i \in DOMAIN mObjects : /\ mObjects[i] \in mActiveObjects
                                  /\ ident[mObjects[i]] = i
    /\ \A o \in mActiveObjects : /\ ident[o] \in DOMAIN mObjects
                                 /\ mObjects[ident[o]] = o

\* No id is lost, and none is in use twice: every id that was ever counted is
\* either in the table or open, never both, and open at most once.  (What
\* makes try_emplace in Create succeed, whose failure its callers ignore.)
IdsAccounted ==
    LET open == {mOpenObjectIds[n] : n \in 1..Len(mOpenObjectIds)}
    IN  /\ DOMAIN mObjects \cup open = 1..sNextId - 1
        /\ DOMAIN mObjects \cap open = {}
        /\ \A n, m \in 1..Len(mOpenObjectIds) :
              mOpenObjectIds[n] = mOpenObjectIds[m] => n = m

\* The deletion queue holds the flagged objects that are still active, each
\* once: MarkForDeletion tests the flag before it is set, and an update takes
\* the whole queue.  (An object queued twice would give its id back twice.)
QueueExact ==
    /\ Doomed = marked \cap mActiveObjects
    /\ \A n, m \in 1..Len(mMarkedObjects) :
          mMarkedObjects[n] = mMarkedObjects[m] => n = m

\* What the object manager keeps of its objects, together.
ManagerSound == TablesAgree /\ IdsAccounted /\ QueueExact

\* A client is never left with an object that is gone, heroes excepted: the
\* update deletes at the clients what it deletes from the table, and ids are
\* reused only after that.  (A hero that died is still in its player's
\* character slots, and OnPlayerStart sends it again.)
NoGhosts ==
    \A c \in Clients : \A o \in told[c] : o \in mActiveObjects \/ kind[o] = "hero"

\* A catalyst on the ground is given to one player, however many ask for it
\* between two updates, and whatever its id is reused for.
AwardedOnce == \A o \in Objects : awards[o] <= 1

\* While objects tick, every object that the octree returns from a region
\* query is in the game.  (Between updates it may return deleted objects.)
OctreeIsLive == pc \in {"loop", "visit"} => octree \subseteq mActiveObjects

\* Flagged objects leave the game: again and again there is none left in it,
\* however many scripts flag and make while the updates run.
MarkedIsDeleted ==
    []<>(marked \cap mActiveObjects = {} \/ pc = "crashed")

\* The ids are names of objects as ObjectNames describes them.
Names == INSTANCE ObjectNames WITH
            names <- mObjects,
            used <- {o \in Objects : ident[o] # 0}

NamesObjects == Names!Spec

\* "Create all existing objects", "Create object in client": a client that
\* was sent the world knows every object that the game believes created.
JoinedKnowWorld ==
    \A c \in joined : (created \cap mActiveObjects) \subseteq told[c]

\* "It is safe to send packets in this function": no client that is connected
\* takes the game thread down.
NoCrash == pc # "crashed"

============================================================================
