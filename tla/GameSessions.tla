---------------------------- MODULE GameSessions ----------------------------
(***************************************************************************)
(* The players of one running game as its server sees them: the clients    *)
(* that connect, say Hello, prepare a squad, enter the dungeon and beam    *)
(* out (RakNet/Server.cpp, RakNet/Client.cpp), the Player that each of     *)
(* them gets (Game/Player.cpp, AddPlayer of Game/Instance.cpp), the        *)
(* catalysts that players drop, pick up and move in their grids, and the   *)
(* player updates that go out to every client.                             *)
(*                                                                         *)
(* Everything here runs on the game's thread, one packet or update after   *)
(* the other, but for RemovePlayer, which the io thread calls (the race of *)
(* the two in mPlayers is left out); clients come and go and send any      *)
(* packet at any time.  What a client was sent of a player is kept as what *)
(* it has not been sent of the changes made while it was connected; the    *)
(* network may lose it after.                                              *)
(*                                                                         *)
(* A Player lives for as long as mPlayers or a client refers to it; its    *)
(* grid goes with it.  Of a Player that is gone nothing else is read.      *)
(***************************************************************************)
EXTENDS Naturals, FiniteSets

CONSTANTS Addresses,    \* where clients connect from
          Users,        \* users that are logged in
          NSlots,       \* slots of a catalyst grid (9)
          MaxPlayers,   \* bound: Players made
          MaxCatalysts  \* bound: catalysts made

ASSUME SessionsAssumption ==
    /\ IsFiniteSet(Addresses) /\ NSlots \in Nat \ {0}
    /\ MaxPlayers \in Nat /\ MaxCatalysts \in Nat

VARIABLES
    mClients,      \* Server::mClients: the addresses in it
    mId,           \* client |-> Client::mId
    mPlayer,       \* client |-> Client::mPlayer
    mGameState,    \* client |-> Client::mGameState
    mPlayers,      \* Instance::mPlayers: user |-> Player
    made,          \* Players made, named 1, 2, ...
    mPlayerIndex,  \* Player |-> its index
    mSquad,        \* Player |-> it has a squad, and its heroes
    mCatalysts,    \* Player |-> slot |-> catalyst
    mUpdateBits,   \* Players that have update bits set
    catalysts,     \* catalysts made, named 1, 2, ...
    ground,        \* catalysts that lie in the world
    marked,        \* those of them that are marked for deletion
    stale,         \* client |-> Players whose last change it was not sent
    left,          \* history: a client has left before one that came later
    again,         \* history: clients that said Hello more than once
    reported,      \* history: Players whose update bits were reset when
                   \* one client had been sent them
    lost           \* history: catalysts that the code throws away: moved out of
                   \* the grid, dealt over, or of a Player that is gone

clientVars == <<mClients, mId, mPlayer>>
playerVars == <<mPlayers, made, mPlayerIndex, mSquad>>
catalystVars == <<mCatalysts, catalysts, ground, marked>>
updateVars == <<mUpdateBits, stale>>
historyVars == <<left, again, reported, lost>>
vars == <<clientVars, mGameState, playerVars, catalystVars, updateVars,
          historyVars>>

Players == 1..MaxPlayers
Catalysts == 1..MaxCatalysts
Slots == 0..(NSlots - 1)
None == 0
GameStates == {"Invalid", "Spaceship", "PreDungeon", "Dungeon", "ChainVoting"}

TypeOK ==
    /\ mClients \subseteq Addresses
    /\ mId \in [Addresses -> 0..Cardinality(Addresses)]
    /\ mPlayer \in [Addresses -> 0..made]
    /\ mGameState \in [Addresses -> GameStates]
    /\ mPlayers \in [Users -> 0..made]
    /\ made \in 0..MaxPlayers
    /\ mPlayerIndex \in [Players -> 0..Cardinality(Addresses)]
    /\ mSquad \in [Players -> BOOLEAN]
    /\ mCatalysts \in [Players -> [Slots -> 0..catalysts]]
    /\ mUpdateBits \subseteq Players
    /\ catalysts \in 0..MaxCatalysts
    /\ ground \subseteq 1..catalysts /\ marked \subseteq ground
    /\ stale \in [Addresses -> SUBSET Players]
    /\ left \in BOOLEAN /\ again \subseteq Addresses
    /\ reported \subseteq Players
    /\ lost \subseteq 1..catalysts

Init ==
    /\ mClients = {}
    /\ mId = [a \in Addresses |-> 0]
    /\ mPlayer = [a \in Addresses |-> None]
    /\ mGameState = [a \in Addresses |-> "Invalid"]
    /\ mPlayers = [u \in Users |-> None]
    /\ made = 0
    /\ mPlayerIndex = [p \in Players |-> 0]
    /\ mSquad = [p \in Players |-> FALSE]
    /\ mCatalysts = [p \in Players |-> [s \in Slots |-> None]]
    /\ mUpdateBits = {}
    /\ catalysts = 0 /\ ground = {} /\ marked = {}
    /\ stale = [a \in Addresses |-> {}]
    /\ left = FALSE /\ again = {} /\ reported = {}
    /\ lost = {}

----------------------------------------------------------------------------
(* The parts.                                                              *)

\* A packet from a client that is known.
From(a) == a \in mClients

\* ... that has a player.
FromPlayer(a) == From(a) /\ mPlayer[a] # None

\* IsValidStateChange, for the states that this server uses.
IsValidStateChange(from, to) ==
    \/ to = "Spaceship" /\ from # "Spaceship"
    \/ from = "Dungeon"
    \/ from = "Spaceship" /\ to \in {"PreDungeon", "ChainVoting"}
    \/ from = "PreDungeon" /\ to \in {"Spaceship", "Dungeon"}
    \/ from = "ChainVoting" /\ to \in {"Spaceship", "PreDungeon"}

\* Client::SetGameState
StateSet(from, to) ==
    IF from = "Invalid" \/ IsValidStateChange(from, to) THEN to ELSE from

\* Clients that GetClient(id) may find: it returns the first in the map.
WithId(i) == {a \in mClients : mId[a] = i}

\* Every connected client is behind with player p.
Behind(p) ==
    [a \in Addresses |-> IF a \in mClients THEN stale[a] \cup {p} ELSE stale[a]]

\* Player p changes, and with it its update bits.
Changed(p) ==
    /\ mUpdateBits' = mUpdateBits \cup {p}
    /\ stale' = Behind(p)

\* The catalysts in a grid.
InGrid(grid) == {grid[s] : s \in Slots} \ {None}

\* A catalyst that nobody made: bytes that are taken for one.
Forged == {c \in Catalysts : c = catalysts + 1}

\* What GetCatalyst may return; 0 is Catalyst().  It tests size() < index: in
\* place of the slot behind the end it reads the flags that follow the grid
\* in a Player, which are all clear or make a catalyst.
GetCatalyst(p, s) ==
    IF s \in Slots THEN {mCatalysts[p][s]}
    ELSE IF s = NSlots THEN {None} \cup Forged ELSE {None}

\* SetCatalyst: a slot beyond the grid is not stored to.
SetCatalyst(grid, s, c) == IF s \in Slots THEN [grid EXCEPT ![s] = c] ELSE grid

\* Catalysts made, when those of C are in use.
Counted(C) == IF catalysts + 1 \in C THEN catalysts + 1 ELSE catalysts

\* Players that are gone once users and clients refer to those of them only.
Gone(users, clients) ==
    Players \ ({users[u] : u \in Users} \cup {clients[a] : a \in Addresses})

\* The grids when the Players of P are gone, and what was in those.
Without(P, grids) ==
    [p \in Players |-> IF p \in P THEN [s \in Slots |-> None] ELSE grids[p]]
HeldIn(P) == UNION {InGrid(mCatalysts[p]) : p \in P}

----------------------------------------------------------------------------
(* Clients come and go.                                                    *)

\* Mutant: every client is the first.
NextId_First == 0

\* The id of a client that has just been put into mClients.
NextId == Cardinality(mClients)

\* OnNewIncomingConnection: a new client, or one that the server has not seen
\* leave, is sent to the spaceship.
NewConnection(a) ==
    /\ mClients' = mClients \cup {a}
    /\ IF a \in mClients
       THEN /\ mGameState' = [mGameState EXCEPT ![a] = StateSet(@, "Spaceship")]
            /\ UNCHANGED <<mId, mPlayer>>
       ELSE /\ mId' = [mId EXCEPT ![a] = NextId]
            /\ UNCHANGED mPlayer
            /\ mGameState' = [mGameState EXCEPT ![a] = "Spaceship"]
    /\ UNCHANGED <<playerVars, catalystVars, updateVars, historyVars>>

\* RemoveClient, on a disconnect or a lost connection: the Client goes with
\* its fields, and its Player stays in the game if it is still some user's.
RemoveClient(a) ==
    /\ From(a)
    /\ mClients' = mClients \ {a}
    /\ mId' = [mId EXCEPT ![a] = 0]
    /\ mPlayer' = [mPlayer EXCEPT ![a] = None]
    /\ mGameState' = [mGameState EXCEPT ![a] = "Invalid"]
    /\ LET gone == Gone(mPlayers, mPlayer') IN
          /\ mCatalysts' = Without(gone, mCatalysts)
          /\ lost' = lost \cup HeldIn(gone)
    /\ stale' = [stale EXCEPT ![a] = {}]
    /\ again' = again \ {a}
    /\ left' = (left \/ \E b \in mClients : mId[b] > mId[a])
    /\ UNCHANGED <<playerVars, catalysts, ground, marked, mUpdateBits, reported>>

\* Instance::RemovePlayer, for a client of the lobby (GameManagerComponent):
\* the user is out of the game, and the client in it keeps its Player.
RemovePlayer(u) ==
    /\ mPlayers[u] # None
    /\ mPlayers' = [mPlayers EXCEPT ![u] = None]
    /\ LET gone == Gone(mPlayers', mPlayer) IN
          /\ mCatalysts' = Without(gone, mCatalysts)
          /\ lost' = lost \cup HeldIn(gone)
    /\ UNCHANGED <<clientVars, mGameState, made, mPlayerIndex, mSquad, catalysts,
                   ground, marked, updateVars, left, again, reported>>

\* The catalysts that Hello deals out: for all slots but the last.
Dealt == [s \in Slots |-> IF s = NSlots - 1 THEN None ELSE catalysts + s + 1]

\* OnHelloPlayerRequest of a user that is logged in: Client::SetUser replaces
\* the user's Player and the client's by a new one, which gets its catalysts.
\* What nobody refers to any more is gone, with its grid.
Hello(a, u) ==
    /\ From(a)
    /\ made < MaxPlayers
    /\ catalysts + NSlots - 1 <= MaxCatalysts
    /\ made' = made + 1
    /\ mPlayers' = [mPlayers EXCEPT ![u] = made']
    /\ mPlayer' = [mPlayer EXCEPT ![a] = made']
    /\ mPlayerIndex' = [mPlayerIndex EXCEPT ![made'] = mId[a]]
    /\ LET gone == Gone(mPlayers', mPlayer') IN
          /\ mCatalysts' = Without(gone, [mCatalysts EXCEPT ![made'] = Dealt])
          /\ lost' = lost \cup HeldIn(gone)
    /\ catalysts' = catalysts + NSlots - 1
    /\ Changed(made')
    /\ again' = IF mPlayer[a] = None THEN again ELSE again \cup {a}
    /\ UNCHANGED <<mClients, mId, mGameState, mSquad, ground, marked, left, reported>>

\* Hello with the id of nobody: the client keeps the player it has, and that
\* player is dealt catalysts once more, over those it has.
HelloNobody(a) ==
    /\ FromPlayer(a)
    /\ catalysts + NSlots - 1 <= MaxCatalysts
    /\ LET p == mPlayer[a]
           kept == mCatalysts[p][NSlots - 1]
       IN /\ mCatalysts' = [mCatalysts EXCEPT ![p] =
                                [Dealt EXCEPT ![NSlots - 1] = kept]]
          /\ lost' = lost \cup (InGrid(mCatalysts[p]) \ {kept})
          /\ Changed(p)
    /\ catalysts' = catalysts + NSlots - 1
    /\ UNCHANGED <<clientVars, mGameState, playerVars, ground, marked,
                   left, again, reported>>

----------------------------------------------------------------------------
(* Into the dungeon and out of it.                                         *)

\* PrepareGameStart, from OnChainPlayerMsgs: the squad is set, and the heroes
\* are created, whatever state the client is in.
PrepareGameStart(a) ==
    /\ FromPlayer(a)
    /\ LET p == mPlayer[a] IN
          /\ mSquad' = [mSquad EXCEPT ![p] = TRUE]
          /\ Changed(p)
    /\ mGameState' = [mGameState EXCEPT ![a] = StateSet(@, "PreDungeon")]
    /\ UNCHANGED <<clientVars, mPlayers, made, mPlayerIndex, catalystVars, historyVars>>

\* OnPlayerStatusUpdate ends with this: the client is sent what changed of
\* its player, and the bits are reset for everybody.
SentAndReset(a) ==
    LET p == mPlayer[a] IN
        /\ mUpdateBits' = mUpdateBits \ {p}
        /\ stale' = [Behind(p) EXCEPT ![a] = @ \ {p}]
        /\ reported' = reported \cup {p}

\* Mutant: the game starts from any state.
StartState_Any(a) == "Dungeon"

\* SendGameStart: only a client that is prepared enters the dungeon.
StartState(a) ==
    IF mGameState[a] = "PreDungeon" THEN "Dungeon" ELSE mGameState[a]

\* OnPlayerStatusUpdate: loading (nothing), loaded (0x08) and beam out (0x20).
StatusUpdate(a) ==
    /\ FromPlayer(a)
    /\ SentAndReset(a)
    /\ UNCHANGED <<clientVars, mGameState, playerVars, catalystVars,
                   left, again, lost>>

Loaded(a) ==
    /\ FromPlayer(a)
    /\ mGameState' = [mGameState EXCEPT ![a] = StartState(a)]
    /\ SentAndReset(a)
    /\ UNCHANGED <<clientVars, playerVars, catalystVars, left, again, lost>>

\* BeamOut finds the player's client by the player's index, if there is one.
BeamOut(a) ==
    /\ FromPlayer(a)
    /\ LET named == WithId(mPlayerIndex[mPlayer[a]]) IN
          IF named = {}
          THEN UNCHANGED mGameState
          ELSE \E b \in named :
                  mGameState' = [mGameState EXCEPT ![b] = StateSet(@, "ChainVoting")]
    /\ SentAndReset(a)
    /\ UNCHANGED <<clientVars, playerVars, catalystVars,
                   left, again, lost>>

\* Mutant: the first client is enough.
Reached_One == {CHOOSE a \in mClients : TRUE}

\* The clients that an update goes out to.
Reached == mClients

\* Instance::SendLabsPlayerUpdate: every client, then the reset.
SentToAll(p) ==
    /\ mUpdateBits' = mUpdateBits \ {p}
    /\ stale' = [a \in Addresses |->
                    IF a \in Reached THEN stale[a] \ {p} ELSE stale[a]]

\* Instance::SwapCharacter stores any index and tells everybody.
SwapCharacter(a) ==
    /\ FromPlayer(a)
    /\ SentToAll(mPlayer[a])
    /\ UNCHANGED <<clientVars, mGameState, playerVars, catalystVars, historyVars>>

\* OnDebugPing in the dungeon: the second hero is deployed.
DebugPing(a) ==
    /\ FromPlayer(a)
    /\ mGameState[a] = "Dungeon"
    /\ SentToAll(mPlayer[a])
    /\ UNCHANGED <<clientVars, mGameState, playerVars, catalystVars, historyVars>>

----------------------------------------------------------------------------
(* Catalysts.                                                              *)

\* OnCrystalDragMessage, of a player whose squad has a hero to deploy.
MayDrag(a) == FromPlayer(a) /\ mSquad[mPlayer[a]]

\* Move type 0, Instance::DropCatalyst: out of the grid and into the world.
DropCatalyst(a, s) ==
    /\ MayDrag(a)
    /\ LET p == mPlayer[a] IN
          /\ \E c \in GetCatalyst(p, s) \ {None} :
                /\ catalysts' = Counted({c})
                /\ ground' = ground \cup {c}
                /\ marked' = marked \ {c}
          /\ mCatalysts' = [mCatalysts EXCEPT ![p] = SetCatalyst(@, s, None)]
          /\ IF s \in Slots THEN Changed(p) ELSE UNCHANGED updateVars
    /\ UNCHANGED <<clientVars, mGameState, playerVars, historyVars>>

\* What an exchange of s and t leaves in no slot: what is stored beyond the
\* grid, and what was in t when the bytes from there are stored in it.
Spilled(p, s, t) ==
    CASE s \notin Slots -> {mCatalysts[p][t]} \ {None}
      [] t \notin Slots -> {mCatalysts[p][s]}
      [] OTHER          -> {}

\* Move type 2: the two slots are exchanged, one after the other.  With
\* neither in the grid nothing happens.
MoveCatalyst(a, s, t) ==
    /\ MayDrag(a)
    /\ t # s /\ (s \in Slots \/ t \in Slots)
    /\ LET p == mPlayer[a] IN
          /\ \E c \in GetCatalyst(p, s) \ {None}, other \in GetCatalyst(p, t) :
                /\ mCatalysts' = [mCatalysts EXCEPT ![p] =
                                      SetCatalyst(SetCatalyst(@, t, c), s, other)]
                /\ catalysts' = Counted({c, other})
          /\ lost' = lost \cup Spilled(p, s, t)
          /\ Changed(p)
    /\ UNCHANGED <<clientVars, mGameState, playerVars, ground, marked,
                   left, again, reported>>

\* GetOpenCatalystSlot returns s: the first that is empty.
OpenSlot(p, s) == /\ mCatalysts[p][s] = None
                  /\ \A r \in Slots : r < s => mCatalysts[p][r] # None

\* Mutant: an object that is marked can be picked up.
CanBePicked_Marked(c) == c \in ground

\* Not one that is marked for deletion already.
CanBePicked(c) == c \in ground \ marked

\* PickupCatalyst, from InteractWithObject: with a slot free the object goes
\* and the client with the player's index is told.
PickupCatalyst(a, c) ==
    /\ FromPlayer(a)
    /\ CanBePicked(c)
    /\ LET p == mPlayer[a] IN
          /\ \E s \in Slots :
                /\ OpenSlot(p, s)
                /\ mCatalysts' = [mCatalysts EXCEPT ![p][s] = c]
          /\ Changed(p)
    /\ marked' = marked \cup {c}
    /\ UNCHANGED <<clientVars, mGameState, playerVars, catalysts, ground,
                   historyVars>>

\* Instance::DropCatalyst and DropLoot: one more catalyst in the world.
NewCatalyst ==
    /\ catalysts < MaxCatalysts
    /\ \E a \in mClients : mPlayer[a] # None /\ mSquad[mPlayer[a]]
    /\ catalysts' = catalysts + 1
    /\ ground' = ground \cup {catalysts'}
    /\ UNCHANGED <<clientVars, mGameState, playerVars, mCatalysts, marked,
                   updateVars, historyVars>>

----------------------------------------------------------------------------
(* What the server does by itself.                                         *)

\* Instance::Update: marked objects go, and what changed of every player of
\* the game is sent.
GameUpdate ==
    /\ mClients # {}
    /\ ground' = ground \ marked /\ marked' = {}
    /\ LET sent == mUpdateBits \cap {mPlayers[u] : u \in Users} IN
          /\ mUpdateBits' = mUpdateBits \ sent
          /\ stale' = [a \in Addresses |->
                          IF a \in Reached THEN stale[a] \ sent ELSE stale[a]]
    /\ UNCHANGED <<clientVars, mGameState, playerVars, mCatalysts, catalysts,
                   historyVars>>

\* add_client_task: a task for "the" client takes the first one, if there is
\* one; only LabsPlayerUpdate changes something here.
ClientTask ==
    /\ \E a \in mClients :
          /\ mPlayer[a] # None
          /\ mUpdateBits' = mUpdateBits \ {mPlayer[a]}
          /\ stale' = [stale EXCEPT ![a] = @ \ {mPlayer[a]}]
          /\ reported' = reported \cup {mPlayer[a]}
    /\ UNCHANGED <<clientVars, mGameState, playerVars, catalystVars, left,
                   again, lost>>

\* The slots that a packet may name.
Named == 0..(NSlots + 1)

Packet(a) ==
    \/ \E u \in Users : Hello(a, u)
    \/ HelloNobody(a)
    \/ PrepareGameStart(a)
    \/ StatusUpdate(a) \/ Loaded(a) \/ BeamOut(a)
    \/ SwapCharacter(a) \/ DebugPing(a)
    \/ \E s \in Named : DropCatalyst(a, s)
    \/ \E s, t \in Named : MoveCatalyst(a, s, t)
    \/ \E c \in Catalysts : PickupCatalyst(a, c)

Next == \/ \E a \in Addresses : NewConnection(a) \/ RemoveClient(a) \/ Packet(a)
        \/ \E u \in Users : RemovePlayer(u)
        \/ NewCatalyst
        \/ GameUpdate
        \/ ClientTask

Spec == Init /\ [][Next]_vars

----------------------------------------------------------------------------
(* Properties.                                                             *)

\* Where catalyst c is: in a slot, or in the world and not yet picked up.
Places(c) == {x \in Players \X Slots : mCatalysts[x[1]][x[2]] = c}
             \cup (IF c \in ground \ marked THEN {"world"} ELSE {})

\* No sequence of Hellos, drops, moves, pick-ups and updates of several
\* players, nor the end of a Player, doubles a catalyst, brings back one that
\* was lost, or loses another than those the code throws away: what a drag
\* puts beyond the grid or exchanges for what is there, what a Hello for nobody
\* deals over, and the grid of a Player that nobody refers to any more.
CatalystsConserved ==
    \A c \in 1..catalysts : Cardinality(Places(c)) = IF c \in lost THEN 0 ELSE 1

\* A client that lacks a change of a player made while it was connected can
\* still be sent it: the update bits say so.  Only the bits of a player whose
\* own client has reported a status are gone before everybody was sent them.
NoLostUpdate ==
    \A a \in mClients : stale[a] \ reported \subseteq mUpdateBits

\* GetClient(id of a player) finds that player's client and no other, over
\* every Hello and reconnect, as long as no client has left before a later one:
\* the ids that are counted from the size of mClients are then distinct.
OwnClient ==
    ~left => \A a \in mClients : mPlayer[a] # None =>
                WithId(mPlayerIndex[mPlayer[a]]) = {a}

\* A client in the dungeon has a squad and its heroes, unless it said Hello
\* once more and got a Player without.
DungeonHasSquad ==
    \A a \in mClients \ again :
        mGameState[a] \in {"PreDungeon", "Dungeon"}
            => mPlayer[a] # None /\ mSquad[mPlayer[a]]

----------------------------------------------------------------------------
\* What the players own, wherever it is in their grids.
Trade == INSTANCE CatalystTrade WITH
    Owners <- Players,
    known <- 1..catalysts,
    world <- ground \ marked,
    held <- [p \in Players |-> InGrid(mCatalysts[p])],
    wasted <- lost

\* No drag, drop, pickup or Hello, of whatever client, moves a catalyst from
\* one Player to another but through the world, or makes one it was not dealt.
TradesThroughWorld == Trade!TSpec

=============================================================================
