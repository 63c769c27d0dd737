------------------------- MODULE GameSessionsProofs -------------------------
(***************************************************************************)
(* The safety of GameSessions, for every number of clients, users, players *)
(* and catalysts, and every size of the grid.                              *)
(*                                                                         *)
(* Each property gets the facts it rests on: a client that is not there    *)
(* has nothing to be sent (Absent), ids are below the number of clients    *)
(* and a player's index is its client's id (Numbered), a Player that was   *)
(* not made has an empty grid, no catalyst is in two places and those in   *)
(* none are lost (Grids).                                                  *)
(***************************************************************************)
EXTENDS GameSessions, FiniteSetTheorems, TLAPS

\* Who is not connected is behind with nothing and has no player.
Absent ==
    \A a \in Addresses \ mClients : stale[a] = {} /\ mPlayer[a] = None

\* Until a client leaves before a later one, ids are distinct and players have their client's.
Numbered ==
    ~left =>
        /\ \A a \in mClients : mId[a] < Cardinality(mClients)
        /\ \A a, b \in mClients : mId[a] = mId[b] => a = b
        /\ \A a \in mClients : mPlayer[a] # None =>
                                  mPlayerIndex[mPlayer[a]] = mId[a]

\* A catalyst that is held by a player is in slot s of p.
Holds(p, s, c) == p \in Players /\ s \in Slots /\ mCatalysts[p][s] = c

Held(c) == \E p \in Players, s \in Slots : Holds(p, s, c)

OnGround(c) == c \in ground \ marked

\* No catalyst is in two places; those that are in none are lost.
Grids ==
    /\ \A p \in Players, s \in Slots : p > made => mCatalysts[p][s] = None
    /\ \A c \in 1..catalysts, p, q \in Players, s, t \in Slots :
          Holds(p, s, c) /\ Holds(q, t, c) => p = q /\ s = t
    /\ \A c \in 1..catalysts : ~(Held(c) /\ OnGround(c))
    /\ \A c \in 1..catalysts : (Held(c) \/ OnGround(c)) <=> c \notin lost

IInv == /\ TypeOK /\ Absent /\ Numbered /\ Grids
        /\ NoLostUpdate /\ DungeonHasSquad

----------------------------------------------------------------------------
(* Consequences of the invariant.                                          *)

\* A catalyst has one place, and none if it is lost.
LEMMA GridsConserve == TypeOK /\ Grids => CatalystsConserved
<1> SUFFICES ASSUME TypeOK, Grids, NEW c \in 1..catalysts
             PROVE  Cardinality(Places(c)) = IF c \in lost THEN 0 ELSE 1
  BY DEF CatalystsConserved
<1> DEFINE S == {x \in Players \X Slots : mCatalysts[x[1]][x[2]] = c}
           W == IF c \in ground \ marked THEN {"world"} ELSE {}
<1>1. Places(c) = S \cup W
  BY DEF Places
<1>2. \A x \in S : x[1] \in Players /\ x[2] \in Slots /\ Holds(x[1], x[2], c)
                   /\ x = <<x[1], x[2]>>
  BY DEF Holds
<1>3. \A x, y \in S : x = y
  BY <1>2 DEF Grids
<1>4. S # {} => W = {}
  BY <1>2 DEF Grids, Held, OnGround
<1>5. (S # {} \/ W # {}) <=> c \notin lost
  <2>1. W # {} <=> OnGround(c)
    BY DEF OnGround
  <2>2. ASSUME Held(c) PROVE S # {}
    <3>1. PICK p \in Players, s \in Slots : mCatalysts[p][s] = c
      BY <2>2 DEF Held, Holds
    <3>2. <<p, s>> \in S
      BY <3>1
    <3> QED BY <3>2
  <2>3. ASSUME S # {} PROVE Held(c)
    BY <1>2, <2>3 DEF Held
  <2> QED BY <2>1, <2>2, <2>3 DEF Grids
<1> HIDE DEF S, W
<1>6. CASE S # {}
  <2>1. PICK x \in S : TRUE
    BY <1>6
  <2>2. Places(c) = {x}
    BY <1>1, <1>3, <1>4, <2>1
  <2>3. Cardinality(Places(c)) = 1
    BY <2>2, FS_Singleton
  <2> QED BY <1>5, <1>6, <2>3
<1>7. CASE S = {} /\ W # {}
  <2>1. Places(c) = {"world"}
    BY <1>1, <1>7 DEF W
  <2>2. Cardinality(Places(c)) = 1
    BY <2>1, FS_Singleton
  <2> QED BY <1>5, <1>7, <2>2
<1>8. CASE S = {} /\ W = {}
  <2>1. Places(c) = {}
    BY <1>1, <1>8
  <2>2. Cardinality(Places(c)) = 0
    BY <2>1, FS_EmptySet
  <2> QED BY <1>5, <1>8, <2>2
<1> QED BY <1>6, <1>7, <1>8

\* GetClient finds the client whose player it is.
LEMMA NumberedFinds == TypeOK /\ Numbered => OwnClient
BY DEF TypeOK, Numbered, OwnClient, WithId

\* There are at least as many addresses as clients.
LEMMA ClientsCounted ==
    ASSUME TypeOK
    PROVE  /\ IsFiniteSet(mClients) /\ Cardinality(mClients) \in Nat
           /\ Cardinality(Addresses) \in Nat
           /\ Cardinality(mClients) <= Cardinality(Addresses)
BY SessionsAssumption, FS_Subset, FS_CardinalityType DEF TypeOK

----------------------------------------------------------------------------
(* Parts of the invariant that groups of actions keep in one way.          *)

\* Nothing happens to the grids; a Player may have been made.
LEMMA GridsSame ==
    ASSUME TypeOK, Grids, UNCHANGED <<catalystVars, lost>>,
           made' \in Nat, made <= made'
    PROVE  Grids'
BY DEF TypeOK, Grids, Held, Holds, OnGround, catalystVars, Players

\* No client comes or goes and no Player is made.
LEMMA NumberedSame ==
    ASSUME Numbered, UNCHANGED <<clientVars, mPlayerIndex, left>>
    PROVE  Numbered'
BY DEF Numbered, clientVars

\* A change of p is noted for every client, and in p's update bits.
LEMMA ChangedKeeps ==
    ASSUME TypeOK, Absent, NoLostUpdate, NEW p \in Players, Changed(p),
           UNCHANGED <<mClients, reported>>
    PROVE  /\ NoLostUpdate'
           /\ stale' \in [Addresses -> SUBSET Players] /\ mUpdateBits' \subseteq Players
           /\ \A a \in Addresses \ mClients : stale'[a] = {}
BY DEF TypeOK, Absent, NoLostUpdate, Changed, Behind

\* A message to every client takes p from all of them, and from the bits.
LEMMA SentKeeps ==
    ASSUME TypeOK, Absent, NoLostUpdate, NEW p \in Players, SentToAll(p),
           UNCHANGED <<mClients, reported>>
    PROVE  /\ NoLostUpdate'
           /\ stale' \in [Addresses -> SUBSET Players] /\ mUpdateBits' \subseteq Players
           /\ \A a \in Addresses \ mClients : stale'[a] = {}
BY DEF TypeOK, Absent, NoLostUpdate, SentToAll, Reached

\* A message to one client and the reset: p is reported.
LEMMA ReportedKeeps ==
    ASSUME TypeOK, Absent, NoLostUpdate, NEW a \in mClients, mPlayer[a] \in Players,
           SentAndReset(a), UNCHANGED mClients
    PROVE  /\ NoLostUpdate'
           /\ stale' \in [Addresses -> SUBSET Players] /\ mUpdateBits' \subseteq Players
           /\ reported' \subseteq Players
           /\ \A b \in Addresses \ mClients : stale'[b] = {}
BY DEF TypeOK, Absent, NoLostUpdate, SentAndReset, Behind

\* The player of a client that has one.
LEMMA PlayerOf ==
    ASSUME TypeOK, NEW a \in Addresses, FromPlayer(a)
    PROVE  a \in mClients /\ mPlayer[a] \in Players
BY SessionsAssumption DEF TypeOK, FromPlayer, From, Players, None

\* The states of the game are states.
LEMMA StateSetType ==
    ASSUME NEW from \in GameStates, NEW to \in GameStates
    PROVE  StateSet(from, to) \in {from, to}
BY DEF StateSet

\* Initially.
LEMMA InitIInv == Init => IInv
<1> SUFFICES ASSUME Init PROVE IInv
  OBVIOUS
<1>1. Cardinality(Addresses) \in Nat
  BY FS_CardinalityType, SessionsAssumption
<1>2. TypeOK
  <2>1. /\ 0 \in 0..0 /\ 0 \in 0..Cardinality(Addresses)
        /\ 0 \in 0..MaxPlayers /\ 0 \in 0..MaxCatalysts
    BY <1>1, SessionsAssumption
  <2>2. /\ mClients \subseteq Addresses
        /\ mId \in [Addresses -> 0..Cardinality(Addresses)]
        /\ mPlayer \in [Addresses -> 0..made]
        /\ mGameState \in [Addresses -> GameStates]
        /\ mPlayers \in [Users -> 0..made]
        /\ made \in 0..MaxPlayers
    BY <2>1 DEF Init, GameStates, None
  <2>3. /\ mPlayerIndex \in [Players -> 0..Cardinality(Addresses)]
        /\ mSquad \in [Players -> BOOLEAN]
        /\ mCatalysts \in [Players -> [Slots -> 0..catalysts]]
    BY <2>1 DEF Init, None
  <2>4. /\ mUpdateBits \subseteq Players
        /\ catalysts \in 0..MaxCatalysts
        /\ ground \subseteq 1..catalysts /\ marked \subseteq ground
        /\ stale \in [Addresses -> SUBSET Players]
        /\ left \in BOOLEAN /\ again \subseteq Addresses
        /\ reported \subseteq Players
        /\ lost \subseteq 1..catalysts
    BY <2>1 DEF Init
  <2> QED BY <2>2, <2>3, <2>4 DEF TypeOK
<1>3. Absent /\ Numbered /\ NoLostUpdate /\ DungeonHasSquad
  BY DEF Init, Absent, Numbered, NoLostUpdate, DungeonHasSquad
<1>4. Grids
  BY <1>2 DEF Init, Grids, None, Players
<1> QED BY <1>2, <1>3, <1>4 DEF IInv

\* A step that changes nothing.
LEMMA StutterIInv == IInv /\ UNCHANGED vars => IInv'
<1> SUFFICES ASSUME IInv, UNCHANGED vars PROVE IInv'
  OBVIOUS
<1> USE DEF IInv, vars, clientVars, playerVars, catalystVars, updateVars, historyVars
<1>1. TypeOK'
  BY DEF TypeOK
<1>2. Absent' /\ Numbered' /\ Grids'
  BY DEF Absent, Numbered, Grids, Held, Holds, OnGround
<1>3. NoLostUpdate' /\ DungeonHasSquad'
  BY DEF NoLostUpdate, DungeonHasSquad
<1> QED BY <1>1, <1>2, <1>3

----------------------------------------------------------------------------
(* Clients come and go.                                                    *)

\* A new client gets the number of the others as its id.
LEMMA NewConnectionIInv ==
    ASSUME IInv, NEW a \in Addresses, NewConnection(a)
    PROVE  IInv'
<1> USE DEF IInv, clientVars, playerVars, catalystVars, updateVars, historyVars
<1>1. /\ mClients' = mClients \cup {a}
      /\ UNCHANGED <<playerVars, catalystVars, updateVars, historyVars>>
      /\ UNCHANGED mPlayer
  BY DEF NewConnection
<1>2. Grids'
  BY <1>1, GridsSame DEF TypeOK
<1>3. Absent' /\ NoLostUpdate'
  BY <1>1 DEF Absent, NoLostUpdate, TypeOK
<1>4. /\ Cardinality(mClients) \in Nat
      /\ Cardinality(mClients) <= Cardinality(Addresses)
      /\ Cardinality(Addresses) \in Nat /\ IsFiniteSet(mClients)
  BY ClientsCounted
<1>5. CASE a \in mClients
  <2>1. /\ mClients' = mClients /\ UNCHANGED <<mId, mPlayer>>
        /\ mGameState' = [mGameState EXCEPT ![a] = StateSet(@, "Spaceship")]
    BY <1>1, <1>5 DEF NewConnection
  <2>2. StateSet(mGameState[a], "Spaceship") \in {mGameState[a], "Spaceship"}
    BY StateSetType DEF TypeOK, GameStates
  <2>3. TypeOK'
    BY <1>1, <2>1, <2>2 DEF TypeOK, GameStates
  <2>4. Numbered'
    BY <1>1, <2>1 DEF Numbered
  <2>5. DungeonHasSquad'
    BY <1>1, <2>1, <2>2 DEF DungeonHasSquad, TypeOK
  <2> QED BY <1>2, <1>3, <2>3, <2>4, <2>5
<1>6. CASE a \notin mClients
  <2>1. /\ mId' = [mId EXCEPT ![a] = Cardinality(mClients)]
        /\ mGameState' = [mGameState EXCEPT ![a] = "Spaceship"]
    BY <1>1, <1>6 DEF NewConnection, NextId
  <2>2. TypeOK'
    BY <1>1, <1>4, <2>1 DEF TypeOK, GameStates
  <2>3. Cardinality(mClients') = Cardinality(mClients) + 1
    BY <1>1, <1>4, <1>6, FS_AddElement
  <2>4. mPlayer[a] = None
    BY <1>6 DEF Absent
  <2>5. Numbered'
    <3>1. SUFFICES ASSUME ~left
                   PROVE  /\ \A b \in mClients' : mId'[b] < Cardinality(mClients')
                          /\ \A b, d \in mClients' : mId'[b] = mId'[d] => b = d
                          /\ \A b \in mClients' : mPlayer'[b] # None =>
                                mPlayerIndex'[mPlayer'[b]] = mId'[b]
      BY <1>1 DEF Numbered
    <3>2. \A b \in mClients : mId[b] < Cardinality(mClients) /\ mId'[b] = mId[b]
                              /\ mId[b] \in Nat
      BY <1>6, <2>1, <3>1, <1>4 DEF Numbered, TypeOK
    <3>3. mId'[a] = Cardinality(mClients)
      BY <2>1 DEF TypeOK
    <3> QED BY <1>1, <1>4, <2>3, <2>4, <3>1, <3>2, <3>3 DEF Numbered
  <2>6. DungeonHasSquad'
    BY <1>1, <2>1 DEF DungeonHasSquad, TypeOK
  <2> QED BY <1>2, <1>3, <2>2, <2>5, <2>6
<1> QED BY <1>5, <1>6

\* What Players hold that are gone.
LEMMA GoneFacts ==
    ASSUME TypeOK, Grids, NEW P \in SUBSET Players
    PROVE  /\ HeldIn(P) \subseteq 1..catalysts
           /\ \A c \in 1..catalysts : c \in HeldIn(P) => Held(c)
           /\ \A c \in 1..catalysts :
                (\E q \in Players \ P, s \in Slots : Holds(q, s, c))
                   <=> Held(c) /\ c \notin HeldIn(P)
<1>1. \A c : c \in HeldIn(P) <=> c # None /\ \E q \in P, s \in Slots : mCatalysts[q][s] = c
  BY DEF HeldIn, InGrid
<1>2. \A q \in Players, s \in Slots : mCatalysts[q][s] \in 0..catalysts
  BY DEF TypeOK
<1>3. catalysts \in Nat
  BY SessionsAssumption DEF TypeOK
<1>4. HeldIn(P) \subseteq 1..catalysts
  BY <1>1, <1>2, <1>3 DEF None
<1>5. \A c \in 1..catalysts : c \in HeldIn(P) <=> \E q \in P, s \in Slots : Holds(q, s, c)
  BY <1>1 DEF Holds, None
<1>6. \A c \in 1..catalysts : c \in HeldIn(P) => Held(c)
  BY <1>5 DEF Held
<1>7. ASSUME NEW c \in 1..catalysts
      PROVE  (\E q \in Players \ P, s \in Slots : Holds(q, s, c))
                <=> Held(c) /\ c \notin HeldIn(P)
  BY <1>5 DEF Held, Grids
<1> QED BY <1>4, <1>6, <1>7

\* Players go, and their grids with them.
LEMMA GonePlayers ==
    ASSUME TypeOK, Grids, NEW P \in SUBSET Players,
           mCatalysts' = Without(P, mCatalysts), lost' = lost \cup HeldIn(P),
           UNCHANGED <<made, catalysts, ground, marked>>
    PROVE  /\ Grids'
           /\ mCatalysts' \in [Players -> [Slots -> 0..catalysts]]
           /\ lost' \subseteq 1..catalysts
<1>1. catalysts \in Nat /\ None \in 0..catalysts
  BY SessionsAssumption DEF TypeOK, None
<1>2. \A q \in Players, s \in Slots :
         mCatalysts'[q][s] = IF q \in P THEN None ELSE mCatalysts[q][s]
  BY DEF Without
<1>3. mCatalysts' \in [Players -> [Slots -> 0..catalysts]]
  BY <1>1 DEF TypeOK, Without
<1>4. lost' \subseteq 1..catalysts
  BY GoneFacts DEF TypeOK
<1>5. \A c \in 1..catalysts, q \in Players, s \in Slots :
         Holds(q, s, c)' <=> q \notin P /\ Holds(q, s, c)
  BY <1>2 DEF Holds, None
<1>6. \A c \in 1..catalysts : Held(c)' <=> Held(c) /\ c \notin HeldIn(P)
  <2>1. \A c \in 1..catalysts :
           Held(c)' <=> \E q \in Players \ P, s \in Slots : Holds(q, s, c)
    BY <1>5 DEF Held
  <2> QED BY <2>1, GoneFacts
<1>7. \A c : OnGround(c)' <=> OnGround(c)
  BY DEF OnGround
<1>8. \A c \in 1..catalysts : (Held(c)' \/ OnGround(c)') <=> c \notin lost'
  BY <1>6, <1>7, GoneFacts DEF Grids
<1>9. \A q \in Players, s \in Slots : q > made' => mCatalysts'[q][s] = None
  BY <1>2 DEF Grids
<1>10. \A c \in 1..catalysts, q, r \in Players, s, t \in Slots :
          Holds(q, s, c)' /\ Holds(r, t, c)' => q = r /\ s = t
  BY <1>5 DEF Grids
<1>11. \A c \in 1..catalysts : ~(Held(c)' /\ OnGround(c)')
  BY <1>6, <1>7 DEF Grids
<1>12. Grids'
  BY <1>8, <1>9, <1>10, <1>11 DEF Grids
<1> QED BY <1>3, <1>4, <1>12

\* A client that leaves may take its Player with it; ids stay distinct if no
\* later one stays.
LEMMA RemoveClientIInv ==
    ASSUME IInv, NEW a \in Addresses, RemoveClient(a)
    PROVE  IInv'
<1> USE DEF IInv
<1> DEFINE gone == Gone(mPlayers, mPlayer')
<1>1. /\ a \in mClients /\ mClients' = mClients \ {a}
      /\ mId' = [mId EXCEPT ![a] = 0] /\ mPlayer' = [mPlayer EXCEPT ![a] = None]
      /\ mGameState' = [mGameState EXCEPT ![a] = "Invalid"]
      /\ mCatalysts' = Without(gone, mCatalysts) /\ lost' = lost \cup HeldIn(gone)
      /\ stale' = [stale EXCEPT ![a] = {}] /\ again' = again \ {a}
      /\ left' = (left \/ \E b \in mClients : mId[b] > mId[a])
      /\ UNCHANGED <<mPlayers, made, mPlayerIndex, mSquad, catalysts, ground, marked,
                     mUpdateBits, reported>>
  BY DEF RemoveClient, From, playerVars
<1>2. gone \in SUBSET Players
  BY DEF Gone
<1>3. /\ Grids' /\ mCatalysts' \in [Players -> [Slots -> 0..catalysts]]
      /\ lost' \subseteq 1..catalysts
  <2> HIDE DEF gone
  <2> QED BY <1>1, <1>2, GonePlayers
<1>4. /\ IsFiniteSet(mClients) /\ Cardinality(mClients) \in Nat
      /\ Cardinality(Addresses) \in Nat
  BY ClientsCounted
<1>5. TypeOK'
  <2>1. left' \in BOOLEAN
    BY <1>1 DEF TypeOK
  <2>2. made \in Nat
    BY SessionsAssumption DEF TypeOK
  <2>3. mPlayer' \in [Addresses -> 0..made]
    BY <1>1, <2>2 DEF TypeOK, None
  <2>4. /\ mClients' \subseteq Addresses /\ again' \subseteq Addresses
        /\ mId' \in [Addresses -> 0..Cardinality(Addresses)]
        /\ mGameState' \in [Addresses -> GameStates]
        /\ stale' \in [Addresses -> SUBSET Players]
    BY <1>1, <1>4 DEF TypeOK, GameStates
  <2> HIDE DEF gone
  <2> QED BY <1>1, <1>3, <2>1, <2>3, <2>4 DEF TypeOK
<1>6. Absent' /\ NoLostUpdate'
  BY <1>1 DEF Absent, NoLostUpdate, TypeOK
<1>7. Numbered'
  <2>1. SUFFICES ASSUME ~left'
                 PROVE  /\ \A b \in mClients' : mId'[b] < Cardinality(mClients')
                        /\ \A b, d \in mClients' : mId'[b] = mId'[d] => b = d
                        /\ \A b \in mClients' : mPlayer'[b] # None =>
                              mPlayerIndex'[mPlayer'[b]] = mId'[b]
    BY DEF Numbered
  <2>2. ~left /\ \A b \in mClients : ~(mId[b] > mId[a])
    BY <1>1, <2>1 DEF TypeOK
  <2>3. \A b \in mClients : mId[b] \in Nat
    BY <1>4 DEF TypeOK
  <2>4. Cardinality(mClients') = Cardinality(mClients) - 1
    BY <1>1, <1>4, FS_RemoveElement
  <2>5. \A b \in mClients' : /\ b \in mClients /\ b # a
                             /\ mId'[b] = mId[b] /\ mPlayer'[b] = mPlayer[b]
    BY <1>1 DEF TypeOK
  <2>6. ASSUME NEW b \in mClients' PROVE mId'[b] < Cardinality(mClients')
    <3>1. mId[b] # mId[a] /\ mId[a] < Cardinality(mClients)
      BY <1>1, <2>2, <2>5 DEF Numbered
    <3> QED BY <1>1, <1>4, <2>2, <2>3, <2>4, <2>5, <3>1
  <2> QED BY <1>1, <2>2, <2>5, <2>6 DEF Numbered
<1>8. DungeonHasSquad'
  BY <1>1 DEF DungeonHasSquad, TypeOK
<1> QED BY <1>3, <1>5, <1>6, <1>7, <1>8

\* A user that is taken out of the game.
LEMMA RemovePlayerIInv ==
    ASSUME IInv, NEW u \in Users, RemovePlayer(u)
    PROVE  IInv'
<1> USE DEF IInv
<1> DEFINE gone == Gone(mPlayers', mPlayer)
<1>1. /\ mPlayers' = [mPlayers EXCEPT ![u] = None]
      /\ mCatalysts' = Without(gone, mCatalysts) /\ lost' = lost \cup HeldIn(gone)
      /\ UNCHANGED <<clientVars, mGameState, made, mPlayerIndex, mSquad, catalysts,
                     ground, marked, mUpdateBits, stale, left, again, reported>>
  BY DEF RemovePlayer, updateVars
<1>2. gone \in SUBSET Players
  BY DEF Gone
<1>3. /\ Grids' /\ mCatalysts' \in [Players -> [Slots -> 0..catalysts]]
      /\ lost' \subseteq 1..catalysts
  <2> HIDE DEF gone
  <2> QED BY <1>1, <1>2, GonePlayers
<1>4. TypeOK'
  <2>1. mPlayers' \in [Users -> 0..made]
    BY <1>1, SessionsAssumption DEF TypeOK, None
  <2> QED BY <1>1, <1>3, <2>1 DEF TypeOK, clientVars
<1>5. Absent' /\ NoLostUpdate' /\ DungeonHasSquad'
  BY <1>1 DEF Absent, NoLostUpdate, DungeonHasSquad, clientVars
<1>6. Numbered'
  BY <1>1, NumberedSame
<1> QED BY <1>3, <1>4, <1>5, <1>6

----------------------------------------------------------------------------
(* Packets that leave the grids alone.                                     *)

\* The dungeon: the squad is set, and the client is prepared.
LEMMA PrepareIInv ==
    ASSUME IInv, NEW a \in Addresses, PrepareGameStart(a)
    PROVE  IInv'
<1> USE DEF IInv, clientVars, playerVars, catalystVars, updateVars, historyVars
<1> DEFINE p == mPlayer[a]
<1>1. a \in mClients /\ p \in Players
  BY PlayerOf DEF PrepareGameStart
<1>2. /\ mSquad' = [mSquad EXCEPT ![p] = TRUE]
      /\ Changed(p)
      /\ mGameState' = [mGameState EXCEPT ![a] = StateSet(@, "PreDungeon")]
      /\ UNCHANGED <<clientVars, mPlayers, made, mPlayerIndex, catalystVars, historyVars>>
  BY DEF PrepareGameStart
<1>3. StateSet(mGameState[a], "PreDungeon") \in {mGameState[a], "PreDungeon"}
  BY StateSetType DEF TypeOK, GameStates
<1>4. /\ NoLostUpdate'
      /\ stale' \in [Addresses -> SUBSET Players] /\ mUpdateBits' \subseteq Players
      /\ \A b \in Addresses \ mClients : stale'[b] = {}
  BY <1>1, <1>2, ChangedKeeps
<1>5. TypeOK'
  BY <1>1, <1>2, <1>3, <1>4 DEF TypeOK, GameStates
<1>6. Absent' /\ Numbered' /\ Grids'
  BY <1>2, <1>4, GridsSame, NumberedSame DEF Absent, TypeOK
<1>7. DungeonHasSquad'
  BY <1>1, <1>2, <1>3 DEF DungeonHasSquad, TypeOK, None, Players
<1> QED BY <1>4, <1>5, <1>6, <1>7

\* A status: only a prepared client enters the dungeon, and no status takes
\* a client to another state but the vote.
LEMMA StatusIInv ==
    ASSUME IInv, NEW a \in Addresses, StatusUpdate(a) \/ Loaded(a) \/ BeamOut(a)
    PROVE  IInv'
<1> USE DEF IInv, clientVars, playerVars, catalystVars, updateVars, historyVars
<1>1. a \in mClients /\ mPlayer[a] \in Players
  BY PlayerOf DEF StatusUpdate, Loaded, BeamOut
<1>2. /\ SentAndReset(a)
      /\ UNCHANGED <<clientVars, playerVars, catalystVars, left, again, lost>>
  BY DEF StatusUpdate, Loaded, BeamOut
<1>3. /\ NoLostUpdate'
      /\ stale' \in [Addresses -> SUBSET Players] /\ mUpdateBits' \subseteq Players
      /\ reported' \subseteq Players
      /\ \A b \in Addresses \ mClients : stale'[b] = {}
  BY <1>1, <1>2, ReportedKeeps
<1>4. /\ mGameState' \in [Addresses -> GameStates]
      /\ \A b \in Addresses : mGameState'[b] \in {"PreDungeon", "Dungeon"} =>
                                mGameState[b] \in {"PreDungeon", "Dungeon"}
  <2>1. CASE StatusUpdate(a)
    BY <2>1 DEF StatusUpdate, TypeOK
  <2>2. CASE Loaded(a)
    BY <2>2 DEF Loaded, StartState, TypeOK, GameStates
  <2>3. CASE BeamOut(a)
    <3>1. CASE WithId(mPlayerIndex[mPlayer[a]]) = {}
      BY <2>3, <3>1 DEF BeamOut, TypeOK
    <3>2. CASE WithId(mPlayerIndex[mPlayer[a]]) # {}
      <4>1. PICK b \in WithId(mPlayerIndex[mPlayer[a]]) :
               mGameState' = [mGameState EXCEPT ![b] = StateSet(@, "ChainVoting")]
        BY <2>3, <3>2 DEF BeamOut
      <4>2. b \in Addresses
        BY DEF WithId, TypeOK
      <4>3. StateSet(mGameState[b], "ChainVoting") \in {mGameState[b], "ChainVoting"}
        BY <4>2, StateSetType DEF TypeOK, GameStates
      <4> QED BY <4>1, <4>2, <4>3 DEF TypeOK, GameStates
    <3> QED BY <3>1, <3>2
  <2> QED BY <2>1, <2>2, <2>3
<1>5. TypeOK'
  BY <1>2, <1>3, <1>4 DEF TypeOK
<1>6. Absent' /\ Numbered' /\ Grids'
  BY <1>2, <1>3, GridsSame, NumberedSame DEF Absent, TypeOK
<1>7. DungeonHasSquad'
  BY <1>2, <1>4 DEF DungeonHasSquad, TypeOK
<1> QED BY <1>3, <1>5, <1>6, <1>7

\* Messages to everybody.
LEMMA SwapIInv ==
    ASSUME IInv, NEW a \in Addresses, SwapCharacter(a) \/ DebugPing(a)
    PROVE  IInv'
<1> USE DEF IInv, clientVars, playerVars, catalystVars, updateVars, historyVars
<1>1. a \in mClients /\ mPlayer[a] \in Players
  BY PlayerOf DEF SwapCharacter, DebugPing
<1>2. /\ SentToAll(mPlayer[a])
      /\ UNCHANGED <<clientVars, mGameState, playerVars, catalystVars, historyVars>>
  BY DEF SwapCharacter, DebugPing
<1>3. /\ NoLostUpdate'
      /\ stale' \in [Addresses -> SUBSET Players] /\ mUpdateBits' \subseteq Players
      /\ \A b \in Addresses \ mClients : stale'[b] = {}
  BY <1>1, <1>2, SentKeeps
<1>4. TypeOK'
  BY <1>2, <1>3 DEF TypeOK
<1>5. Absent' /\ Numbered' /\ Grids'
  BY <1>2, <1>3, GridsSame, NumberedSame DEF Absent, TypeOK
<1>6. DungeonHasSquad'
  BY <1>2 DEF DungeonHasSquad
<1> QED BY <1>3, <1>4, <1>5, <1>6

\* The server's own messages.
LEMMA ServerIInv ==
    ASSUME IInv, GameUpdate \/ ClientTask
    PROVE  IInv'
<1> USE DEF IInv, clientVars, playerVars, catalystVars, updateVars, historyVars
<1>1. CASE GameUpdate
  <2>1. /\ ground' = ground \ marked /\ marked' = {}
        /\ UNCHANGED <<clientVars, mGameState, playerVars, mCatalysts, catalysts,
                       historyVars>>
    BY <1>1 DEF GameUpdate
  <2>2. TypeOK'
    BY <1>1 DEF GameUpdate, TypeOK, Reached
  <2>3. Absent' /\ NoLostUpdate'
    BY <1>1 DEF GameUpdate, Absent, NoLostUpdate, Reached, TypeOK
  <2>4. Numbered'
    BY <2>1, NumberedSame
  <2>5. Grids'
    BY <2>1 DEF Grids, Held, Holds, OnGround
  <2>6. DungeonHasSquad'
    BY <2>1 DEF DungeonHasSquad
  <2> QED BY <2>2, <2>3, <2>4, <2>5, <2>6
<1>2. CASE ClientTask
  <2>1. PICK a \in mClients :
          /\ mPlayer[a] # None
          /\ mUpdateBits' = mUpdateBits \ {mPlayer[a]}
          /\ stale' = [stale EXCEPT ![a] = @ \ {mPlayer[a]}]
          /\ reported' = reported \cup {mPlayer[a]}
          /\ UNCHANGED <<clientVars, mGameState, playerVars, catalystVars, left,
                         again, lost>>
    BY <1>2 DEF ClientTask
  <2>2. a \in Addresses /\ mPlayer[a] \in Players
    BY <2>1, PlayerOf DEF TypeOK, FromPlayer, From
  <2>3. TypeOK'
    BY <2>1, <2>2 DEF TypeOK
  <2>4. Absent' /\ NoLostUpdate'
    BY <2>1, <2>2 DEF Absent, NoLostUpdate, TypeOK
  <2>5. Numbered' /\ Grids'
    BY <2>1, NumberedSame, GridsSame DEF TypeOK
  <2>6. DungeonHasSquad'
    BY <2>1 DEF DungeonHasSquad
  <2> QED BY <2>3, <2>4, <2>5, <2>6
<1> QED BY <1>1, <1>2

----------------------------------------------------------------------------
(* Catalysts.                                                              *)

\* What Hello deals out is new, and each once.
LEMMA DealtFacts ==
    ASSUME TypeOK
    PROVE  /\ catalysts \in Nat /\ catalysts + NSlots - 1 \in Nat
           /\ catalysts <= catalysts + NSlots - 1
           /\ Dealt \in [Slots -> 0..(catalysts + NSlots - 1)]
           /\ \A s \in Slots : Dealt[s] # None => Dealt[s] > catalysts
           /\ \A s, t \in Slots : Dealt[s] # None /\ Dealt[s] = Dealt[t] => s = t
           /\ \A c \in (catalysts + 1)..(catalysts + NSlots - 1) :
                 \E s \in Slots : Dealt[s] = c
<1>1. /\ catalysts \in Nat /\ NSlots \in Nat \ {0}
      /\ Slots = 0..(NSlots - 1) /\ None = 0
  BY SessionsAssumption DEF TypeOK, Slots, None
<1>2. \A s \in Slots :
         Dealt[s] = IF s = NSlots - 1 THEN 0 ELSE catalysts + s + 1
  BY <1>1 DEF Dealt
<1>3. ASSUME NEW s \in Slots
      PROVE  Dealt[s] \in 0..(catalysts + NSlots - 1)
  BY <1>1, <1>2
<1>4. Dealt \in [Slots -> 0..(catalysts + NSlots - 1)]
  BY <1>3 DEF Dealt
<1>5. ASSUME NEW c \in (catalysts + 1)..(catalysts + NSlots - 1)
      PROVE  \E s \in Slots : Dealt[s] = c
  <2>1. /\ c - catalysts - 1 \in Slots
        /\ c - catalysts - 1 # NSlots - 1
        /\ catalysts + (c - catalysts - 1) + 1 = c
    BY <1>1
  <2> QED BY <1>2, <2>1
<1>6. \A s \in Slots : Dealt[s] # None => Dealt[s] > catalysts
  BY <1>1, <1>2
<1>7. \A s, t \in Slots : Dealt[s] # None /\ Dealt[s] = Dealt[t] => s = t
  BY <1>1, <1>2
<1> QED BY <1>1, <1>4, <1>5, <1>6, <1>7

\* Hello: a Player nobody had, with catalysts nobody had.
LEMMA HelloIInv ==
    ASSUME IInv, NEW a \in Addresses, NEW u \in Users, Hello(a, u)
    PROVE  IInv'
<1> USE DEF IInv
<1> DEFINE n == made + 1
           top == catalysts + NSlots - 1
           gone == Gone(mPlayers', mPlayer')
<1>1. /\ a \in mClients /\ n \in Players /\ made' = n /\ made \in Nat
      /\ n \in 0..MaxPlayers /\ top \in 0..MaxCatalysts /\ catalysts' = top
  BY SessionsAssumption, DealtFacts DEF Hello, From, TypeOK, Players
<1>2. /\ mPlayers' = [mPlayers EXCEPT ![u] = n]
      /\ mPlayer' = [mPlayer EXCEPT ![a] = n]
      /\ mPlayerIndex' = [mPlayerIndex EXCEPT ![n] = mId[a]]
      /\ mCatalysts' = Without(gone, [mCatalysts EXCEPT ![n] = Dealt])
      /\ lost' = lost \cup HeldIn(gone)
      /\ Changed(n)
      /\ again' = IF mPlayer[a] = None THEN again ELSE again \cup {a}
      /\ UNCHANGED <<mClients, mId, mGameState, mSquad, ground, marked, left,
                     reported>>
  BY <1>1 DEF Hello
<1>9. gone \in SUBSET Players /\ n \notin gone
  BY <1>2 DEF Gone, TypeOK
<1> HIDE DEF gone
<1>3. /\ NoLostUpdate'
      /\ stale' \in [Addresses -> SUBSET Players] /\ mUpdateBits' \subseteq Players
      /\ \A b \in Addresses \ mClients : stale'[b] = {}
  BY <1>1, <1>2, ChangedKeeps
<1>4. TypeOK'
  <2>1. Dealt \in [Slots -> 0..top] /\ 0..catalysts \subseteq 0..top
        /\ 1..catalysts \subseteq 1..top
    BY DealtFacts
  <2>2. mCatalysts' \in [Players -> [Slots -> 0..top]]
    <3>1. \A p \in Players : mCatalysts[p] \in [Slots -> 0..top]
      BY <2>1 DEF TypeOK
    <3>2. [s \in Slots |-> None] \in [Slots -> 0..top]
      BY <1>1 DEF None
    <3> QED BY <1>2, <2>1, <3>1, <3>2 DEF TypeOK, Without
  <2>8. lost' \subseteq 1..top
    BY <1>2, <1>9, <2>1, GoneFacts DEF TypeOK
  <2>3. n \in 0..n /\ 0..made \subseteq 0..n
    BY <1>1
  <2>4. mPlayer' \in [Addresses -> 0..n] /\ mPlayers' \in [Users -> 0..n]
    BY <1>2, <2>3 DEF TypeOK
  <2>5. mPlayerIndex' \in [Players -> 0..Cardinality(Addresses)]
    BY <1>1, <1>2 DEF TypeOK
  <2>6. again' \subseteq Addresses
    BY <1>2 DEF TypeOK
  <2>7. ground' \subseteq 1..top /\ marked' \subseteq ground'
    BY <1>2, <2>1 DEF TypeOK
  <2> QED BY <1>1, <1>2, <1>3, <2>2, <2>4, <2>5, <2>6, <2>7, <2>8 DEF TypeOK
<1>5. Absent'
  BY <1>1, <1>2, <1>3 DEF Absent, TypeOK
<1>6. Numbered'
  <2>1. SUFFICES ASSUME ~left
                 PROVE  \A b \in mClients : mPlayer'[b] # None =>
                            mPlayerIndex'[mPlayer'[b]] = mId[b]
    BY <1>2 DEF Numbered
  <2>2. ASSUME NEW b \in mClients, mPlayer'[b] # None
        PROVE  mPlayerIndex'[mPlayer'[b]] = mId[b]
    <3>1. CASE b = a
      BY <1>1, <1>2, <3>1 DEF TypeOK
    <3>2. CASE b # a
      <4>1. mPlayer'[b] = mPlayer[b] /\ mPlayer[b] \in 0..made /\ mPlayer[b] # None
        BY <1>2, <2>2, <3>2 DEF TypeOK
      <4>2. mPlayer[b] \in Players /\ mPlayer[b] # n
        <5>1. made \in Nat /\ MaxPlayers \in Nat /\ made < MaxPlayers
          BY SessionsAssumption DEF Hello, TypeOK
        <5> QED BY <4>1, <5>1 DEF Players, None
      <4> QED BY <1>2, <2>1, <4>1, <4>2 DEF Numbered, TypeOK
    <3> QED BY <3>1, <3>2
  <2> QED BY <2>2
<1>7. Grids'
  <2>1. \A p \in Players, s \in Slots :
           mCatalysts'[p][s] = IF p = n THEN Dealt[s]
                               ELSE IF p \in gone THEN None ELSE mCatalysts[p][s]
    BY <1>2, <1>9 DEF TypeOK, Without
  <2>2. \A p \in Players, s \in Slots :
           mCatalysts[p][s] \in 0..catalysts /\ (p = n => mCatalysts[p][s] = None)
    BY <1>1 DEF Grids, TypeOK
  <2>3. \A c \in 1..top, p \in Players, s \in Slots :
           mCatalysts'[p][s] = c <=>
              IF c > catalysts THEN p = n /\ Dealt[s] = c
                               ELSE p # n /\ p \notin gone /\ mCatalysts[p][s] = c
    BY <1>1, <2>1, <2>2, DealtFacts DEF None
  <2>4. \A c \in 1..catalysts, p \in Players, s \in Slots :
           Holds(p, s, c)' <=> p \notin gone /\ Holds(p, s, c)
    BY <1>1, <2>2, <2>3, DealtFacts DEF Holds, None
  <2>5. \A c \in 1..catalysts : Held(c)' <=> Held(c) /\ c \notin HeldIn(gone)
    <3>1. \A c \in 1..catalysts :
             Held(c)' <=> \E q \in Players \ gone, s \in Slots : Holds(q, s, c)
      BY <2>4 DEF Held
    <3> QED BY <1>9, <3>1, GoneFacts
  <2>6. \A c : OnGround(c)' <=> OnGround(c)
    BY <1>2 DEF OnGround
  <2>7. \A p \in Players, s \in Slots : p > n => mCatalysts'[p][s] = None
    BY <1>1, <2>1 DEF Grids, Players
  <2>8. ASSUME NEW c \in 1..top, NEW p \in Players, NEW q \in Players,
               NEW s \in Slots, NEW t \in Slots, Holds(p, s, c)', Holds(q, t, c)'
        PROVE  p = q /\ s = t
    <3>1. CASE c \in 1..catalysts
      BY <2>4, <2>8, <3>1 DEF Grids
    <3>2. CASE c > catalysts
      BY <2>3, <2>8, <3>2, DealtFacts DEF Holds, None
    <3> QED BY <3>1, <3>2, DealtFacts
  <2>9. \A c \in 1..top : ~(Held(c)' /\ OnGround(c)')
    <3>1. \A c \in 1..top : OnGround(c) => c \in 1..catalysts
      BY DEF OnGround, TypeOK
    <3> QED BY <2>5, <2>6, <3>1 DEF Grids
  <2>10. \A c \in 1..top : (Held(c)' \/ OnGround(c)') <=> c \notin lost'
    <3>1. ASSUME NEW c \in 1..top, c > catalysts PROVE Held(c)'
      <4>1. PICK s \in Slots : Dealt[s] = c
        BY <3>1, DealtFacts
      <4>2. mCatalysts'[n][s] = c
        BY <1>1, <2>1, <4>1
      <4> QED BY <1>1, <4>1, <4>2 DEF Held, Holds
    <3>2. \A c \in 1..top : c > catalysts \/ c \in 1..catalysts
      BY DealtFacts
    <3>3. \A c \in lost' : c \in 1..catalysts
      BY <1>2, <1>9, GoneFacts DEF TypeOK
    <3>4. ASSUME NEW c \in 1..top, c > catalysts PROVE c \notin lost'
      BY <3>3, <3>4, DealtFacts
    <3>5. \A c \in 1..catalysts : (Held(c)' \/ OnGround(c)') <=> c \notin lost'
      BY <1>2, <1>9, <2>5, <2>6, GoneFacts DEF Grids
    <3> QED BY <3>1, <3>2, <3>4, <3>5
  <2> QED BY <1>1, <2>7, <2>8, <2>9, <2>10 DEF Grids
<1>8. DungeonHasSquad'
  BY <1>1, <1>2 DEF DungeonHasSquad, TypeOK
<1> QED BY <1>3, <1>4, <1>5, <1>6, <1>7, <1>8

\* Hello for nobody overwrites a grid: what was in it is lost, and what is
\* dealt is new.
LEMMA HelloNobodyIInv ==
    ASSUME IInv, NEW a \in Addresses, HelloNobody(a)
    PROVE  IInv'
<1> USE DEF IInv
<1> DEFINE p == mPlayer[a]
           top == catalysts + NSlots - 1
           kept == mCatalysts[p][NSlots - 1]
           grid == [Dealt EXCEPT ![NSlots - 1] = kept]
           over == InGrid(mCatalysts[p]) \ {kept}
<1>1. a \in mClients /\ p \in Players
  BY PlayerOf DEF HelloNobody
<1>2. /\ mCatalysts' = [mCatalysts EXCEPT ![p] = grid]
      /\ Changed(p) /\ lost' = lost \cup over
      /\ catalysts' = top /\ top \in 0..MaxCatalysts
      /\ UNCHANGED <<clientVars, mGameState, playerVars, ground, marked,
                     left, again, reported>>
  BY SessionsAssumption, DealtFacts DEF HelloNobody
<1>3. /\ NoLostUpdate'
      /\ stale' \in [Addresses -> SUBSET Players] /\ mUpdateBits' \subseteq Players
      /\ \A b \in Addresses \ mClients : stale'[b] = {}
  BY <1>1, <1>2, ChangedKeeps DEF clientVars
<1>4. Absent' /\ Numbered' /\ DungeonHasSquad'
  <2>1. Absent' /\ DungeonHasSquad'
    BY <1>2, <1>3 DEF Absent, DungeonHasSquad, clientVars, playerVars
  <2> QED BY <1>2, <2>1, NumberedSame DEF playerVars
<1>5. /\ Dealt \in [Slots -> 0..top] /\ 0..catalysts \subseteq 0..top
      /\ 1..catalysts \subseteq 1..top
  BY DealtFacts
<1>6. grid \in [Slots -> 0..top] /\ NSlots - 1 \in Slots
  BY <1>1, <1>5, SessionsAssumption DEF TypeOK, Slots
<1>9. \A c : c \in over <=> c # None /\ c # kept /\ \E s \in Slots : mCatalysts[p][s] = c
  BY DEF InGrid
<1>10. over \subseteq 1..catalysts
  <2>1. \A s \in Slots : mCatalysts[p][s] \in 0..catalysts
    BY <1>1 DEF TypeOK
  <2>2. catalysts \in Nat
    BY DealtFacts
  <2> HIDE DEF over
  <2> QED BY <1>9, <2>1, <2>2 DEF None
<1> HIDE DEF over
<1>7. TypeOK'
  <2>1. mCatalysts' \in [Players -> [Slots -> 0..top]]
    <3>1. \A q \in Players : mCatalysts[q] \in [Slots -> 0..top]
      BY <1>5 DEF TypeOK
    <3> HIDE DEF grid
    <3> QED BY <1>2, <1>6, <3>1 DEF TypeOK
  <2>2. ground' \subseteq 1..top /\ marked' \subseteq ground'
    BY <1>2, <1>5 DEF TypeOK
  <2>3. lost' \subseteq 1..top
    <3>1. lost \subseteq 1..catalysts
      BY DEF TypeOK
    <3>2. lost' = lost \cup over /\ 1..catalysts \subseteq 1..top
      BY <1>2, <1>5
    <3> HIDE DEF top
    <3> QED BY <1>10, <3>1, <3>2
  <2> QED BY <1>2, <1>3, <2>1, <2>2, <2>3 DEF TypeOK, clientVars, playerVars
<1>8. Grids'
  <2>1. \A q \in Players, s \in Slots :
           mCatalysts'[q][s] = IF q = p /\ s # NSlots - 1 THEN Dealt[s]
                                                           ELSE mCatalysts[q][s]
    <3>1. \A s \in Slots : grid[s] = IF s # NSlots - 1 THEN Dealt[s] ELSE kept
      BY <1>5, <1>6
    <3>2. mCatalysts'[p] = grid /\ \A q \in Players \ {p} : mCatalysts'[q] = mCatalysts[q]
      BY <1>1, <1>2 DEF TypeOK
    <3> HIDE DEF grid
    <3> QED BY <3>1, <3>2
  <2>2. \A q \in Players, s \in Slots : mCatalysts[q][s] \in 0..catalysts
    BY DEF TypeOK
  <2>3. \A c \in 1..catalysts, q \in Players, s \in Slots :
           Holds(q, s, c)' <=> Holds(q, s, c) /\ (q = p => s = NSlots - 1)
    BY <2>1, DealtFacts DEF Holds, None
  <2>4. \A c \in 1..top, q \in Players, s \in Slots :
           c > catalysts /\ Holds(q, s, c)' => q = p /\ Dealt[s] = c
    BY <2>1, <2>2, DealtFacts DEF Holds
  <2>5. \A c : OnGround(c)' <=> OnGround(c)
    BY <1>2 DEF OnGround
  <2>6. \A q \in Players, s \in Slots : q > made' => mCatalysts'[q][s] = None
    <3>1. p \in 0..made /\ made \in Nat
      BY <1>1 DEF TypeOK
    <3>2. \A q \in Players : q > made => q # p
      BY <3>1 DEF Players
    <3> QED BY <1>2, <2>1, <3>2 DEF Grids, playerVars
  <2>7. \A c \in 1..top : c > catalysts \/ c \in 1..catalysts
    BY DealtFacts
  <2>8. ASSUME NEW c \in 1..top, NEW q \in Players, NEW r \in Players,
               NEW s \in Slots, NEW t \in Slots, Holds(q, s, c)', Holds(r, t, c)'
        PROVE  q = r /\ s = t
    <3>1. CASE c \in 1..catalysts
      BY <2>3, <2>8, <3>1 DEF Grids
    <3>2. CASE c > catalysts
      BY <2>4, <2>8, <3>2, DealtFacts DEF None
    <3> QED BY <2>7, <3>1, <3>2
  <2>9. \A c \in 1..top : ~(Held(c)' /\ OnGround(c)')
    <3>1. \A c \in 1..top : OnGround(c) => c \in 1..catalysts
      BY DEF OnGround, TypeOK
    <3>2. \A c \in 1..catalysts : Held(c)' => Held(c)
      BY <2>3 DEF Held
    <3> QED BY <2>5, <3>1, <3>2 DEF Grids
  <2>10. \A c \in 1..catalysts : Held(c)' <=> Held(c) /\ c \notin over
    <3> SUFFICES ASSUME NEW c \in 1..catalysts
                 PROVE  Held(c)' <=> Held(c) /\ c \notin over
      OBVIOUS
    <3>1. c \in over <=> \E s \in Slots : s # NSlots - 1 /\ Holds(p, s, c)
      BY <1>1, <1>6, <1>9 DEF Holds, Grids, None
    <3>2. Held(c)' <=> \E q \in Players, s \in Slots :
                          Holds(q, s, c) /\ (q = p => s = NSlots - 1)
      BY <2>3 DEF Held
    <3> QED BY <1>1, <3>1, <3>2 DEF Held, Grids
  <2>11. \A c \in 1..catalysts : c \in over => Held(c)
    BY <1>1, <1>9 DEF Held, Holds
  <2>12. \A c \in 1..catalysts : (Held(c)' \/ OnGround(c)') <=> c \notin lost'
    BY <1>2, <2>5, <2>10, <2>11 DEF Grids
  <2>13. ASSUME NEW c \in 1..top, c > catalysts PROVE Held(c)' /\ c \notin lost'
    <3>1. PICK s \in Slots : Dealt[s] = c
      BY <2>13, DealtFacts
    <3>2. s # NSlots - 1
      BY <1>6, <2>13, <3>1, DealtFacts DEF Dealt, None
    <3>3. Held(c)'
      BY <1>1, <2>1, <3>1, <3>2 DEF Held, Holds
    <3>4. c \notin lost'
      BY <1>2, <1>10, <2>13, DealtFacts DEF TypeOK
    <3> QED BY <3>3, <3>4
  <2>14. \A c \in 1..top : (Held(c)' \/ OnGround(c)') <=> c \notin lost'
    BY <2>7, <2>12, <2>13
  <2> QED BY <1>2, <2>6, <2>8, <2>9, <2>14 DEF Grids
<1> QED BY <1>3, <1>4, <1>7, <1>8

\* A drag out of the grid takes what is in the slot ...
LEMMA DroppedFromSlot ==
    ASSUME TypeOK, NEW a \in Addresses, NEW s \in Slots, DropCatalyst(a, s)
    PROVE  LET p == mPlayer[a]
               d == mCatalysts[p][s] IN
           /\ mCatalysts' = [mCatalysts EXCEPT ![p][s] = None]
           /\ d # None
           /\ ground' = ground \cup {d} /\ marked' = marked \ {d}
           /\ Changed(p)
           /\ UNCHANGED <<clientVars, mGameState, playerVars, catalysts, historyVars>>
<1> DEFINE p == mPlayer[a]
           d == mCatalysts[p][s]
<1>1. p \in Players /\ d \in 0..catalysts /\ catalysts \in Nat
  BY PlayerOf, SessionsAssumption DEF DropCatalyst, MayDrag, TypeOK
<1>2. GetCatalyst(p, s) = {d} /\ d # catalysts + 1
  BY <1>1 DEF GetCatalyst
<1>3. Counted({d}) = catalysts
  BY <1>2 DEF Counted
<1>4. SetCatalyst(mCatalysts[p], s, None) = [mCatalysts[p] EXCEPT ![s] = None]
  BY DEF SetCatalyst
<1>5. mCatalysts' = [mCatalysts EXCEPT ![p][s] = None]
  BY <1>1, <1>4 DEF DropCatalyst, TypeOK
<1> QED BY <1>2, <1>3, <1>5 DEF DropCatalyst

\* ... and behind the end of the grid, what nobody made.
LEMMA DroppedFromBeyond ==
    ASSUME TypeOK, NEW a \in Addresses, NEW s \in Named \ Slots, DropCatalyst(a, s)
    PROVE  /\ catalysts < MaxCatalysts
           /\ catalysts' = catalysts + 1 /\ ground' = ground \cup {catalysts'}
           /\ marked' = marked
           /\ UNCHANGED <<clientVars, mGameState, playerVars, mCatalysts, updateVars,
                          historyVars>>
<1> DEFINE p == mPlayer[a]
<1>1. p \in Players /\ catalysts \in Nat /\ MaxCatalysts \in Nat
  BY PlayerOf, SessionsAssumption DEF DropCatalyst, MayDrag, TypeOK
<1>2. PICK c \in GetCatalyst(p, s) \ {None} :
        /\ catalysts' = Counted({c})
        /\ ground' = ground \cup {c}
        /\ marked' = marked \ {c}
  BY DEF DropCatalyst
<1>3. c = catalysts + 1 /\ c \in 1..MaxCatalysts
  BY <1>1, <1>2 DEF GetCatalyst, Forged, Catalysts
<1>4. catalysts' = c
  BY <1>2, <1>3 DEF Counted
<1>5. c \notin marked
  BY <1>1, <1>3 DEF TypeOK
<1>6. mCatalysts' = mCatalysts
  BY <1>1 DEF DropCatalyst, SetCatalyst, TypeOK
<1>7. UNCHANGED <<clientVars, mGameState, playerVars, updateVars, historyVars>>
  BY DEF DropCatalyst
<1>8. catalysts < MaxCatalysts
  BY <1>1, <1>3
<1>9. marked' = marked /\ ground' = ground \cup {catalysts'}
  BY <1>2, <1>4, <1>5
<1> QED BY <1>3, <1>4, <1>6, <1>7, <1>8, <1>9

\* A dropped catalyst leaves its slot for the world.
LEMMA DropSlotIInv ==
    ASSUME IInv, NEW a \in Addresses, NEW s \in Slots, DropCatalyst(a, s)
    PROVE  IInv'
<1> USE DEF IInv
<1> DEFINE p == mPlayer[a]
           d == mCatalysts[p][s]
<1>1. a \in mClients /\ p \in Players
  BY PlayerOf DEF DropCatalyst, MayDrag
<1>2. /\ mCatalysts' = [mCatalysts EXCEPT ![p][s] = None]
      /\ ground' = ground \cup {d} /\ marked' = marked \ {d}
      /\ Changed(p)
      /\ UNCHANGED <<clientVars, mGameState, playerVars, catalysts, historyVars>>
  BY <1>1, DroppedFromSlot
<1>3. /\ NoLostUpdate'
      /\ stale' \in [Addresses -> SUBSET Players] /\ mUpdateBits' \subseteq Players
      /\ \A b \in Addresses \ mClients : stale'[b] = {}
  BY <1>1, <1>2, ChangedKeeps DEF clientVars, historyVars
<1>4. Absent' /\ Numbered' /\ DungeonHasSquad'
  <2>1. Absent' /\ DungeonHasSquad'
    BY <1>2, <1>3 DEF Absent, DungeonHasSquad, clientVars, playerVars, historyVars
  <2> QED BY <1>2, <2>1, NumberedSame DEF playerVars, historyVars
<1>5. d \in 1..catalysts /\ d # None /\ catalysts \in Nat
  BY <1>1, DroppedFromSlot DEF TypeOK, None
<1>6. TypeOK'
  <2>1. mCatalysts' \in [Players -> [Slots -> 0..catalysts]]
    BY <1>1, <1>2, <1>5 DEF TypeOK, None
  <2>2. ground' \subseteq 1..catalysts /\ marked' \subseteq ground'
    BY <1>2, <1>5 DEF TypeOK
  <2> QED BY <1>2, <1>3, <2>1, <2>2 DEF TypeOK, clientVars, playerVars, historyVars
<1>7. Grids'
  <2>1. \A q \in Players, r \in Slots :
           mCatalysts'[q][r] = IF q = p /\ r = s THEN None ELSE mCatalysts[q][r]
    BY <1>1, <1>2 DEF TypeOK
  <2>2. \A c \in 1..catalysts, q \in Players, r \in Slots :
           Holds(q, r, c)' <=> Holds(q, r, c) /\ c # d
    BY <1>1, <1>5, <2>1 DEF Holds, Grids, None
  <2>3. \A c \in 1..catalysts : Held(c)' <=> Held(c) /\ c # d
    BY <2>2 DEF Held
  <2>4. \A c \in 1..catalysts : OnGround(c)' <=> OnGround(c) \/ c = d
    BY <1>2 DEF OnGround
  <2>5. \A q \in Players, r \in Slots : q > made' => mCatalysts'[q][r] = None
    BY <1>2, <2>1 DEF Grids, playerVars
  <2>6. /\ catalysts' = catalysts /\ lost' = lost
    BY <1>2 DEF historyVars
  <2>9. Held(d)
    BY <1>1, <1>5 DEF Held, Holds
  <2>7. \A c \in 1..catalysts :
           /\ ~(Held(c)' /\ OnGround(c)')
           /\ (Held(c)' \/ OnGround(c)') <=> c \notin lost
    BY <2>3, <2>4, <2>9 DEF Grids
  <2>8. \A c \in 1..catalysts, q, r \in Players, t, v \in Slots :
           Holds(q, t, c)' /\ Holds(r, v, c)' => q = r /\ t = v
    BY <2>2 DEF Grids
  <2> QED BY <2>5, <2>6, <2>7, <2>8 DEF Grids
<1> QED BY <1>3, <1>4, <1>6, <1>7

\* A move exchanges two slots of a grid ...
Exchanged(p, s, t) ==
    /\ s \in Slots /\ t \in Slots
    /\ mCatalysts' = [mCatalysts EXCEPT
          ![p] = [@ EXCEPT ![t] = mCatalysts[p][s], ![s] = mCatalysts[p][t]]]
    /\ UNCHANGED <<catalysts, lost>>

\* ... or puts x, which is nothing or what nobody made, in the place of one.
PutFor(p, r, x) ==
    /\ mCatalysts' = [mCatalysts EXCEPT ![p] = [@ EXCEPT ![r] = x]]
    /\ lost' = lost \cup ({mCatalysts[p][r]} \ {None})
    /\ catalysts' = IF x = None THEN catalysts ELSE x
    /\ catalysts' \in 0..MaxCatalysts

\* What a move stores, and what it loses.
LEMMA MovedCatalyst ==
    ASSUME TypeOK, NEW a \in Addresses, NEW s \in Named, NEW t \in Named,
           MoveCatalyst(a, s, t), NEW p, p = mPlayer[a]
    PROVE  /\ p \in Players /\ Changed(p) /\ t # s
           /\ UNCHANGED <<clientVars, mGameState, playerVars, ground, marked,
                          left, again, reported>>
           /\ \/ Exchanged(p, s, t)
              \/ \E r \in Slots, x \in {None, catalysts + 1} : PutFor(p, r, x)
<1> DEFINE grid == mCatalysts[p]
<1>1. /\ p \in Players /\ catalysts \in Nat /\ MaxCatalysts \in Nat
      /\ catalysts \in 0..MaxCatalysts
      /\ \A r \in Slots : grid[r] \in 0..catalysts
      /\ grid \in [Slots -> 0..catalysts]
  BY PlayerOf, SessionsAssumption DEF MoveCatalyst, MayDrag, TypeOK
<1>2. /\ Changed(p) /\ t # s /\ (s \in Slots \/ t \in Slots)
      /\ lost' = lost \cup Spilled(p, s, t)
      /\ UNCHANGED <<clientVars, mGameState, playerVars, ground, marked,
                     left, again, reported>>
  BY DEF MoveCatalyst
<1>3. PICK c \in GetCatalyst(p, s) \ {None}, other \in GetCatalyst(p, t) :
        /\ mCatalysts' = [mCatalysts EXCEPT ![p] =
                             SetCatalyst(SetCatalyst(grid, t, c), s, other)]
        /\ catalysts' = Counted({c, other})
  BY <1>1 DEF MoveCatalyst
<1>4. \A r \in Slots : GetCatalyst(p, r) = {grid[r]} /\ grid[r] # catalysts + 1
  BY <1>1 DEF GetCatalyst
<1>5. \A r : r \notin Slots => \A x \in GetCatalyst(p, r) :
         x \in {None, catalysts + 1} /\ (x # None => x \in 1..MaxCatalysts)
  BY <1>1 DEF GetCatalyst, Forged, Catalysts, None
<1>6. CASE s \in Slots /\ t \in Slots
  <2>1. c = grid[s] /\ other = grid[t]
    BY <1>3, <1>4, <1>6
  <2>2. catalysts' = catalysts
    BY <1>3, <1>4, <1>6, <2>1 DEF Counted
  <2>3. lost' = lost
    BY <1>2, <1>6 DEF Spilled
  <2>4. SetCatalyst(SetCatalyst(grid, t, c), s, other)
           = [grid EXCEPT ![t] = grid[s], ![s] = grid[t]]
    BY <1>6, <2>1 DEF SetCatalyst
  <2> QED BY <1>1, <1>2, <1>3, <1>6, <2>2, <2>3, <2>4 DEF Exchanged
<1>7. CASE s \in Slots /\ t \notin Slots
  <2>1. c = grid[s] /\ c # None /\ other \in {None, catalysts + 1}
        /\ (other # None => other \in 1..MaxCatalysts)
    BY <1>3, <1>4, <1>5, <1>7
  <2>2. catalysts' = (IF other = None THEN catalysts ELSE other)
    BY <1>1, <1>3, <1>4, <1>7, <2>1 DEF Counted, None
  <2>3. lost' = lost \cup ({grid[s]} \ {None})
    BY <1>2, <1>7, <2>1 DEF Spilled
  <2>4. SetCatalyst(SetCatalyst(grid, t, c), s, other) = [grid EXCEPT ![s] = other]
    BY <1>7 DEF SetCatalyst
  <2>5. mCatalysts' = [mCatalysts EXCEPT ![p] = [@ EXCEPT ![s] = other]]
    BY <1>1, <1>3, <2>4 DEF TypeOK
  <2>6. catalysts' \in 0..MaxCatalysts
    BY <1>1, <2>1, <2>2
  <2>7. PutFor(p, s, other)
    BY <2>2, <2>3, <2>5, <2>6 DEF PutFor
  <2> QED BY <1>1, <1>2, <1>7, <2>1, <2>7
<1>8. CASE s \notin Slots
  <2>1. t \in Slots /\ c = catalysts + 1 /\ c # None /\ c \in 1..MaxCatalysts
    BY <1>2, <1>3, <1>5, <1>8
  <2>2. catalysts' = c
    BY <1>3, <2>1 DEF Counted
  <2>3. lost' = lost \cup ({grid[t]} \ {None})
    BY <1>2, <1>8 DEF Spilled
  <2>4. SetCatalyst(SetCatalyst(grid, t, c), s, other) = [grid EXCEPT ![t] = c]
    BY <1>8, <2>1 DEF SetCatalyst
  <2>5. mCatalysts' = [mCatalysts EXCEPT ![p] = [@ EXCEPT ![t] = c]]
    BY <1>1, <1>3, <2>4 DEF TypeOK
  <2>6. catalysts' \in 0..MaxCatalysts
    BY <1>1, <2>1, <2>2
  <2>7. PutFor(p, t, c)
    BY <2>1, <2>2, <2>3, <2>5, <2>6 DEF PutFor
  <2> QED BY <1>1, <1>2, <2>1, <2>7
<1> QED BY <1>2, <1>6, <1>7, <1>8

\* An exchange of two slots keeps every catalyst in one.
LEMMA ExchangedKeeps ==
    ASSUME TypeOK, Grids, NEW p \in Players, p <= made,
           NEW s \in Slots, NEW t \in Slots, t # s,
           mCatalysts' = [mCatalysts EXCEPT
              ![p] = [@ EXCEPT ![t] = mCatalysts[p][s], ![s] = mCatalysts[p][t]]],
           UNCHANGED <<made, catalysts, ground, marked, lost>>
    PROVE  Grids' /\ mCatalysts' \in [Players -> [Slots -> 0..catalysts]]
<1> DEFINE Source(r) == IF r = s THEN t ELSE IF r = t THEN s ELSE r
<1>1. made \in Nat /\ catalysts \in Nat
  BY SessionsAssumption DEF TypeOK
<1>2. \A q \in Players, r \in Slots :
         mCatalysts'[q][r] = mCatalysts[q][IF q = p THEN Source(r) ELSE r]
  BY DEF TypeOK
<1>3. \A r \in Slots : Source(r) \in Slots /\ Source(Source(r)) = r
  OBVIOUS
<1>4. mCatalysts' \in [Players -> [Slots -> 0..catalysts]]
  <2>1. [mCatalysts[p] EXCEPT ![t] = mCatalysts[p][s], ![s] = mCatalysts[p][t]]
           \in [Slots -> 0..catalysts]
    BY DEF TypeOK
  <2> QED BY <2>1 DEF TypeOK
<1> HIDE DEF Source
<1>5. \A c \in 1..catalysts, q \in Players, r \in Slots :
         Holds(q, r, c)' <=> Holds(q, IF q = p THEN Source(r) ELSE r, c)
  BY <1>2, <1>3 DEF Holds
<1>6. \A c \in 1..catalysts, q, r \in Players, v, w \in Slots :
         Holds(q, v, c)' /\ Holds(r, w, c)' => q = r /\ v = w
  <2> SUFFICES ASSUME NEW c \in 1..catalysts, NEW q \in Players, NEW r \in Players,
                      NEW v \in Slots, NEW w \in Slots,
                      Holds(q, v, c)', Holds(r, w, c)'
               PROVE  q = r /\ v = w
    OBVIOUS
  <2>1. PICK x \in Slots : x = (IF q = p THEN Source(v) ELSE v)
    BY <1>3
  <2>2. PICK y \in Slots : y = (IF r = p THEN Source(w) ELSE w)
    BY <1>3
  <2>3. Holds(q, x, c) /\ Holds(r, y, c)
    BY <1>5, <2>1, <2>2
  <2>4. q = r /\ x = y
    BY <2>3 DEF Grids
  <2>5. q = p => v = Source(x) /\ w = Source(y)
    BY <1>3, <2>1, <2>2, <2>4
  <2> QED BY <2>1, <2>2, <2>4, <2>5
<1>7. \A c \in 1..catalysts : Held(c)' <=> Held(c)
  <2> SUFFICES ASSUME NEW c \in 1..catalysts PROVE Held(c)' <=> Held(c)
    OBVIOUS
  <2>1. ASSUME NEW q \in Players, NEW r \in Slots, Holds(q, r, c)' PROVE Held(c)
    BY <1>3, <1>5, <2>1 DEF Held
  <2>2. ASSUME NEW q \in Players, NEW r \in Slots, Holds(q, r, c) PROVE Held(c)'
    <3>1. PICK v \in Slots : v = (IF q = p THEN Source(r) ELSE r)
      BY <1>3
    <3>2. (IF q = p THEN Source(v) ELSE v) = r
      BY <1>3, <3>1
    <3>3. Holds(q, v, c)'
      BY <1>5, <2>2, <3>2
    <3> QED BY <3>3 DEF Held
  <2> QED BY <2>1, <2>2 DEF Held
<1>8. \A c : OnGround(c)' <=> OnGround(c)
  BY DEF OnGround
<1>9. \A q \in Players, r \in Slots : q > made => mCatalysts'[q][r] = None
  <2>1. \A q \in Players : q > made => q # p
    BY <1>1 DEF Players
  <2> QED BY <1>2, <2>1 DEF Grids
<1>10. \A c \in 1..catalysts : ~(Held(c)' /\ OnGround(c)')
  BY <1>7, <1>8 DEF Grids
<1>11. \A c \in 1..catalysts : (Held(c)' \/ OnGround(c)') <=> c \notin lost
  BY <1>7, <1>8 DEF Grids
<1>12. Grids'
  BY <1>6, <1>9, <1>10, <1>11 DEF Grids
<1> QED BY <1>4, <1>12

\* What is in a slot makes room for nothing, or for what nobody made.
LEMMA ReplacedKeeps ==
    ASSUME TypeOK, Grids, NEW p \in Players, p <= made,
           NEW r \in Slots, NEW x \in {None, catalysts + 1},
           mCatalysts' = [mCatalysts EXCEPT ![p] = [@ EXCEPT ![r] = x]],
           lost' = lost \cup ({mCatalysts[p][r]} \ {None}),
           catalysts' = IF x = None THEN catalysts ELSE x,
           UNCHANGED <<made, ground, marked>>
    PROVE  /\ Grids' /\ mCatalysts' \in [Players -> [Slots -> 0..catalysts']]
           /\ lost' \subseteq 1..catalysts'
           /\ ground' \subseteq 1..catalysts'
<1>1. PICK top, d : top = catalysts' /\ d = mCatalysts[p][r]
  OBVIOUS
<1>2. /\ made \in Nat /\ catalysts \in Nat /\ d \in 0..catalysts /\ top \in Nat
      /\ 0..catalysts \subseteq 0..top /\ x \in 0..top
      /\ (x # None => x = top /\ x \in 1..top /\ x \notin 0..catalysts)
      /\ 1..catalysts \subseteq 1..top
      /\ \A c \in 1..top : c \in 1..catalysts \/ (c = x /\ x # None)
  BY <1>1, SessionsAssumption DEF TypeOK, None
<1>3. \A q \in Players, s \in Slots :
         mCatalysts'[q][s] = IF q = p /\ s = r THEN x ELSE mCatalysts[q][s]
  BY DEF TypeOK
<1>4. mCatalysts' \in [Players -> [Slots -> 0..top]]
  <2>1. \A q \in Players : mCatalysts[q] \in [Slots -> 0..top]
    BY <1>2 DEF TypeOK
  <2>2. [mCatalysts[p] EXCEPT ![r] = x] \in [Slots -> 0..top]
    BY <1>2, <2>1
  <2> QED BY <2>1, <2>2 DEF TypeOK
<1>5. lost' \subseteq 1..top /\ ground' \subseteq 1..top
  <2>1. {d} \ {None} \subseteq 1..catalysts
    BY <1>2 DEF None
  <2>2. lost' = lost \cup ({d} \ {None}) /\ ground' = ground
    BY <1>1
  <2>3. lost \subseteq 1..catalysts /\ ground \subseteq 1..catalysts
    BY DEF TypeOK
  <2> QED BY <1>2, <2>1, <2>2, <2>3
<1>6. \A c \in 1..catalysts, q \in Players, s \in Slots :
         Holds(q, s, c)' <=> Holds(q, s, c) /\ ~(q = p /\ s = r)
  BY <1>2, <1>3 DEF Holds, None
<1>7. \A q \in Players, s \in Slots : x # None => (Holds(q, s, x)' <=> q = p /\ s = r)
  BY <1>2, <1>3 DEF Holds, TypeOK
<1>8. \A c \in 1..catalysts : Held(c)' <=> Held(c) /\ c # d
  <2>1. \A c \in 1..catalysts, q \in Players, s \in Slots :
           Holds(q, s, c) => (c = d <=> q = p /\ s = r)
    BY <1>1 DEF Holds, Grids
  <2>2. \A c \in 1..catalysts, q \in Players, s \in Slots :
           Holds(q, s, c)' <=> Holds(q, s, c) /\ c # d
    BY <1>6, <2>1
  <2> QED BY <2>2 DEF Held
<1>9. x # None => Held(x)'
  BY <1>7 DEF Held
<1>10. \A c : OnGround(c)' <=> OnGround(c)
  BY DEF OnGround
<1>11. x # None => ~OnGround(x) /\ x \notin lost'
  BY <1>1, <1>2 DEF OnGround, TypeOK
<1>12. d # None => d \in 1..catalysts /\ Held(d)
  BY <1>1, <1>2 DEF Held, Holds, None
<1>13. \A c \in 1..catalysts : /\ ~(Held(c)' /\ OnGround(c)')
                               /\ (Held(c)' \/ OnGround(c)') <=> c \notin lost'
  BY <1>1, <1>8, <1>10, <1>12 DEF Grids, None
<1>14. \A c \in 1..top : /\ ~(Held(c)' /\ OnGround(c)')
                         /\ (Held(c)' \/ OnGround(c)') <=> c \notin lost'
  BY <1>2, <1>9, <1>10, <1>11, <1>13
<1>15. \A c \in 1..top, q, v \in Players, s, t \in Slots :
          Holds(q, s, c)' /\ Holds(v, t, c)' => q = v /\ s = t
  BY <1>2, <1>6, <1>7 DEF Grids
<1>16. \A q \in Players, s \in Slots : q > made => mCatalysts'[q][s] = None
  <2>1. \A q \in Players : q > made => q # p
    BY <1>2 DEF Players
  <2> QED BY <1>3, <2>1 DEF Grids
<1>17. Grids'
  BY <1>1, <1>14, <1>15, <1>16 DEF Grids
<1> QED BY <1>1, <1>4, <1>5, <1>17

\* A move within the grid exchanges two slots; one over its end loses a
\* catalyst, and may bring in one that nobody made.
LEMMA MoveCatalystIInv ==
    ASSUME IInv, NEW a \in Addresses, NEW s \in Named, NEW t \in Named,
           MoveCatalyst(a, s, t)
    PROVE  IInv'
<1> USE DEF IInv
<1>0. PICK p : p = mPlayer[a]
  OBVIOUS
<1>1. /\ p \in Players /\ Changed(p) /\ t # s
      /\ UNCHANGED <<clientVars, mGameState, playerVars, ground, marked,
                     left, again, reported>>
      /\ \/ Exchanged(p, s, t)
         \/ \E r \in Slots, x \in {None, catalysts + 1} : PutFor(p, r, x)
  BY <1>0, MovedCatalyst
<1>2. p <= made
  BY <1>0, SessionsAssumption DEF TypeOK
<1>3. /\ NoLostUpdate'
      /\ stale' \in [Addresses -> SUBSET Players] /\ mUpdateBits' \subseteq Players
      /\ \A b \in Addresses \ mClients : stale'[b] = {}
  BY <1>1, ChangedKeeps DEF clientVars
<1>4. Absent' /\ Numbered' /\ DungeonHasSquad'
  <2>1. Absent' /\ DungeonHasSquad'
    BY <1>1, <1>3 DEF Absent, DungeonHasSquad, clientVars, playerVars
  <2> QED BY <1>1, <2>1, NumberedSame DEF playerVars
<1>5. /\ Grids' /\ mCatalysts' \in [Players -> [Slots -> 0..catalysts']]
      /\ lost' \subseteq 1..catalysts' /\ ground' \subseteq 1..catalysts'
      /\ catalysts' \in 0..MaxCatalysts
  <2>1. UNCHANGED <<made, ground, marked>>
    BY <1>1 DEF playerVars
  <2>2. CASE Exchanged(p, s, t)
    <3>1. Grids' /\ mCatalysts' \in [Players -> [Slots -> 0..catalysts]]
      BY <1>1, <1>2, <2>1, <2>2, ExchangedKeeps DEF Exchanged
    <3> QED BY <2>1, <2>2, <3>1 DEF TypeOK, Exchanged
  <2>3. ASSUME NEW r \in Slots, NEW x \in {None, catalysts + 1}, PutFor(p, r, x)
        PROVE  /\ Grids' /\ mCatalysts' \in [Players -> [Slots -> 0..catalysts']]
               /\ lost' \subseteq 1..catalysts' /\ ground' \subseteq 1..catalysts'
               /\ catalysts' \in 0..MaxCatalysts
    BY <1>1, <1>2, <2>1, <2>3, ReplacedKeeps DEF PutFor
  <2> QED BY <1>1, <2>2, <2>3
<1>6. TypeOK'
  BY <1>1, <1>3, <1>5 DEF TypeOK, clientVars, playerVars
<1> QED BY <1>3, <1>4, <1>5, <1>6

\* A catalyst that is picked up leaves the world for an empty slot.
LEMMA PickupCatalystIInv ==
    ASSUME IInv, NEW a \in Addresses, NEW d \in Catalysts, PickupCatalyst(a, d)
    PROVE  IInv'
<1> USE DEF IInv
<1> DEFINE p == mPlayer[a]
<1>1. a \in mClients /\ p \in Players
  BY PlayerOf DEF PickupCatalyst
<1>2. PICK s \in Slots : /\ OpenSlot(p, s)
                        /\ mCatalysts' = [mCatalysts EXCEPT ![p][s] = d]
  BY DEF PickupCatalyst
<1>3. /\ Changed(p) /\ OnGround(d) /\ marked' = marked \cup {d}
      /\ UNCHANGED <<clientVars, mGameState, playerVars, catalysts, ground,
                     historyVars>>
  BY DEF PickupCatalyst, CanBePicked, OnGround
<1>4. /\ NoLostUpdate'
      /\ stale' \in [Addresses -> SUBSET Players] /\ mUpdateBits' \subseteq Players
      /\ \A b \in Addresses \ mClients : stale'[b] = {}
  BY <1>1, <1>3, ChangedKeeps DEF clientVars, historyVars
<1>5. Absent' /\ Numbered' /\ DungeonHasSquad'
  <2>1. Absent' /\ DungeonHasSquad'
    BY <1>3, <1>4 DEF Absent, DungeonHasSquad, clientVars, playerVars, historyVars
  <2> QED BY <1>3, <2>1, NumberedSame DEF playerVars, historyVars
<1>6. d \in 1..catalysts /\ catalysts \in Nat /\ mCatalysts[p][s] = None
  BY <1>2, <1>3 DEF OnGround, OpenSlot, TypeOK
<1>7. TypeOK'
  <2>1. mCatalysts' \in [Players -> [Slots -> 0..catalysts]]
    BY <1>1, <1>2, <1>6 DEF TypeOK
  <2> QED BY <1>3, <1>4, <2>1 DEF TypeOK, OnGround, clientVars, playerVars, historyVars
<1>8. Grids'
  <2>1. \A q \in Players, r \in Slots :
           mCatalysts'[q][r] = IF q = p /\ r = s THEN d ELSE mCatalysts[q][r]
    BY <1>1, <1>2 DEF TypeOK
  <2>2. \A q \in Players, r \in Slots : ~Holds(q, r, d)
    BY <1>3, <1>6 DEF Grids, Held
  <2>3. \A c \in 1..catalysts, q \in Players, r \in Slots :
           Holds(q, r, c)' <=> IF c = d THEN q = p /\ r = s ELSE Holds(q, r, c)
    BY <1>1, <1>6, <2>1, <2>2 DEF Holds, None
  <2>4. \A c \in 1..catalysts : Held(c)' <=> Held(c) \/ c = d
    BY <1>1, <2>2, <2>3 DEF Held
  <2>5. \A c \in 1..catalysts : OnGround(c)' <=> OnGround(c) /\ c # d
    BY <1>3 DEF OnGround
  <2>6. \A q \in Players, r \in Slots : q > made' => mCatalysts'[q][r] = None
    <3>1. p \in 0..made /\ made \in Nat
      BY <1>1 DEF TypeOK
    <3>2. \A q \in Players : q > made => q # p
      BY <3>1 DEF Players
    <3> QED BY <1>3, <2>1, <3>2 DEF Grids, playerVars
  <2>7. \A c \in 1..catalysts :
           /\ ~(Held(c)' /\ OnGround(c)')
           /\ (Held(c)' \/ OnGround(c)') <=> c \notin lost
    <3>1. ~Held(d) /\ OnGround(d)
      BY <1>3, <2>2 DEF Held
    <3> QED BY <2>4, <2>5, <3>1 DEF Grids
  <2>8. \A c \in 1..catalysts, q, r \in Players, t, v \in Slots :
           Holds(q, t, c)' /\ Holds(r, v, c)' => q = r /\ t = v
    BY <2>3 DEF Grids
  <2> QED BY <1>3, <2>6, <2>7, <2>8 DEF Grids, historyVars
<1> QED BY <1>4, <1>5, <1>7, <1>8

\* A new catalyst lies in the world.
LEMMA AppearedIInv ==
    ASSUME IInv, catalysts < MaxCatalysts,
           catalysts' = catalysts + 1, ground' = ground \cup {catalysts'},
           UNCHANGED <<clientVars, mGameState, playerVars, mCatalysts, marked,
                       updateVars, historyVars>>
    PROVE  IInv'
<1> USE DEF IInv
<1> DEFINE n == catalysts + 1
<1>1. /\ catalysts' = n /\ ground' = ground \cup {n} /\ n \in 0..MaxCatalysts
      /\ catalysts \in Nat
      /\ UNCHANGED <<clientVars, mGameState, playerVars, mCatalysts, marked,
                     updateVars, historyVars>>
  BY SessionsAssumption DEF TypeOK
<1>2. 0..catalysts \subseteq 0..n /\ 1..catalysts \subseteq 1..n /\ n \in 1..n
      /\ n \notin 0..catalysts
      /\ \A c \in 1..n : c = n \/ c \in 1..catalysts
  BY <1>1
<1>3. TypeOK'
  BY <1>1, <1>2 DEF TypeOK, clientVars, playerVars, updateVars, historyVars
<1>4. Absent' /\ NoLostUpdate' /\ DungeonHasSquad' /\ Numbered'
  BY <1>1 DEF Absent, NoLostUpdate, DungeonHasSquad, Numbered,
              clientVars, playerVars, updateVars, historyVars
<1>5. Grids'
  <2>1. \A q \in Players, r \in Slots : ~Holds(q, r, n)
    BY <1>2 DEF Holds, TypeOK
  <2>2. \A c, q, r : Holds(q, r, c)' <=> Holds(q, r, c)
    BY <1>1 DEF Holds
  <2>3. \A c : Held(c)' <=> Held(c)
    BY <2>2 DEF Held
  <2>4. ~Held(n)
    BY <2>1 DEF Held
  <2>5. n \notin marked
    BY <1>2 DEF TypeOK
  <2>6. \A c : OnGround(c)' <=> OnGround(c) \/ c = n
    BY <1>1, <2>5 DEF OnGround
  <2>7. ASSUME NEW c \in 1..n
        PROVE  /\ ~(Held(c)' /\ OnGround(c)')
               /\ (Held(c)' \/ OnGround(c)') <=> c \notin lost
    <3>1. n \notin lost /\ ~OnGround(n)
      BY <1>2 DEF TypeOK, OnGround
    <3> QED BY <1>2, <2>3, <2>4, <2>6, <3>1 DEF Grids
  <2>8. ASSUME NEW c \in 1..n, NEW p \in Players, NEW q \in Players,
               NEW s \in Slots, NEW t \in Slots, Holds(p, s, c)', Holds(q, t, c)'
        PROVE  p = q /\ s = t
    BY <1>2, <2>1, <2>2, <2>8 DEF Grids
  <2>9. \A p \in Players, s \in Slots : p > made' => mCatalysts'[p][s] = None
    BY <1>1 DEF Grids, playerVars
  <2> QED BY <1>1, <2>7, <2>8, <2>9 DEF Grids, historyVars
<1> QED BY <1>3, <1>4, <1>5

\* It was dropped by the game, or by a player who never had it.
LEMMA NewCatalystIInv == IInv /\ NewCatalyst => IInv'
BY AppearedIInv DEF NewCatalyst

LEMMA DropCatalystIInv ==
    ASSUME IInv, NEW a \in Addresses, NEW s \in Named, DropCatalyst(a, s)
    PROVE  IInv'
<1>1. CASE s \in Slots
  BY <1>1, DropSlotIInv
<1>2. CASE s \notin Slots
  <2>1. TypeOK
    BY DEF IInv
  <2>2. s \in Named \ Slots
    BY <1>2
  <2> QED BY <2>1, <2>2, DroppedFromBeyond, AppearedIInv
<1> QED BY <1>1, <1>2

----------------------------------------------------------------------------
(* The theorems.                                                           *)

\* One step.
LEMMA NextIInv == IInv /\ [Next]_vars => IInv'
<1> SUFFICES ASSUME IInv, [Next]_vars PROVE IInv'
  OBVIOUS
<1>1. ASSUME NEW a \in Addresses, NewConnection(a) \/ RemoveClient(a) PROVE IInv'
  BY <1>1, NewConnectionIInv, RemoveClientIInv
<1>2. ASSUME NEW a \in Addresses, Packet(a) PROVE IInv'
  <2>1. ASSUME NEW u \in Users, Hello(a, u) PROVE IInv'
    BY <2>1, HelloIInv
  <2>2. ASSUME HelloNobody(a) \/ PrepareGameStart(a) PROVE IInv'
    BY <2>2, HelloNobodyIInv, PrepareIInv
  <2>3. ASSUME StatusUpdate(a) \/ Loaded(a) \/ BeamOut(a) PROVE IInv'
    BY <2>3, StatusIInv
  <2>4. ASSUME SwapCharacter(a) \/ DebugPing(a) PROVE IInv'
    BY <2>4, SwapIInv
  <2>5. ASSUME NEW s \in Named, DropCatalyst(a, s) PROVE IInv'
    BY <2>5, DropCatalystIInv
  <2>6. ASSUME NEW s \in Named, NEW t \in Named, MoveCatalyst(a, s, t)
        PROVE IInv'
    BY <2>6, MoveCatalystIInv
  <2>7. ASSUME NEW c \in Catalysts, PickupCatalyst(a, c) PROVE IInv'
    BY <2>7, PickupCatalystIInv
  <2> QED BY <1>2, <2>1, <2>2, <2>3, <2>4, <2>5, <2>6, <2>7 DEF Packet
<1>3. ASSUME NEW u \in Users, RemovePlayer(u) PROVE IInv'
  BY <1>3, RemovePlayerIInv
<1>4. CASE NewCatalyst
  BY <1>4, NewCatalystIInv
<1>5. CASE GameUpdate \/ ClientTask
  BY <1>5, ServerIInv
<1>6. CASE UNCHANGED vars
  BY <1>6, StutterIInv
<1> QED BY <1>1, <1>2, <1>3, <1>4, <1>5, <1>6 DEF Next

\* Always.
LEMMA InvariantIInv == Spec => []IInv
<1>1. Init => IInv
  BY InitIInv
<1>2. IInv /\ [Next]_vars => IInv'
  BY NextIInv
<1> QED BY <1>1, <1>2, PTL DEF Spec

\* Server.cpp, Client.cpp and Player.cpp keep the session's types.
THEOREM TypeCorrect == Spec => []TypeOK
<1>1. IInv => TypeOK
  BY DEF IInv
<1> QED BY <1>1, InvariantIInv, PTL

\* What a client was not sent of a Player is still due (SendLabsPlayerUpdate,
\* ResetUpdateBits), for Players that were not reported to one client only.
THEOREM UpdatesAreDue == Spec => []NoLostUpdate
<1>1. IInv => NoLostUpdate
  BY DEF IInv
<1> QED BY <1>1, InvariantIInv, PTL

\* GetClient by a Player's index finds that Player's client and no other, until
\* one leaves before a later one.
THEOREM FindsOwnClient == Spec => []OwnClient
<1>1. IInv => OwnClient
  BY NumberedFinds DEF IInv
<1> QED BY <1>1, InvariantIInv, PTL

\* Only a client with a squad is in the dungeon, unless it said Hello again.
THEOREM DungeonNeedsSquad == Spec => []DungeonHasSquad
<1>1. IInv => DungeonHasSquad
  BY DEF IInv
<1> QED BY <1>1, InvariantIInv, PTL

\* Hellos, drops, moves, pick-ups and the end of Players neither double a
\* catalyst nor lose another than those that SetCatalyst, the Hello for nobody
\* and the replacement of a Player (Client::SetUser) throw away.
THEOREM CatalystsOnce == Spec => []CatalystsConserved
<1>1. IInv => CatalystsConserved
  BY GridsConserve DEF IInv
<1> QED BY <1>1, InvariantIInv, PTL

----------------------------------------------------------------------------
(* Who owns what.                                                          *)

TradeState == <<1..catalysts, ground \ marked,
                [p \in Players |-> InGrid(mCatalysts[p])], lost>>

\* Catalysts that stay where they are stay whose they are.
LEMMA Unmoved ==
    ASSUME UNCHANGED <<mCatalysts, catalysts, lost>>,
           ground' \ marked' = ground \ marked
    PROVE  UNCHANGED TradeState
BY DEF TradeState, InGrid

\* The catalysts of a grid were made.
LEMMA GridMade ==
    ASSUME TypeOK, NEW q \in Players
    PROVE  /\ InGrid(mCatalysts[q]) \subseteq 1..catalysts
           /\ 1..catalysts \subseteq Catalysts
<1>1. catalysts \in Nat /\ MaxCatalysts \in Nat /\ catalysts <= MaxCatalysts
  BY SessionsAssumption DEF TypeOK
<1>2. \A s \in Slots : mCatalysts[q][s] \in 0..catalysts
  BY DEF TypeOK
<1>3. ASSUME NEW c \in InGrid(mCatalysts[q]) PROVE c \in 1..catalysts
  BY <1>1, <1>2, <1>3 DEF InGrid, None
<1> QED BY <1>1, <1>3 DEF Catalysts

\* ... and are in no other grid.
LEMMA OneOwner ==
    ASSUME TypeOK, Grids, NEW p \in Players, NEW q \in Players, p # q
    PROVE  InGrid(mCatalysts[p]) \cap InGrid(mCatalysts[q]) = {}
<1>1. ASSUME NEW c \in InGrid(mCatalysts[p]), c \in InGrid(mCatalysts[q]) PROVE FALSE
  <2>1. PICK s \in Slots, t \in Slots : mCatalysts[p][s] = c /\ mCatalysts[q][t] = c
    BY <1>1 DEF InGrid
  <2>2. c \in 1..catalysts
    BY GridMade
  <2> QED BY <2>1, <2>2 DEF Grids, Holds
<1> QED BY <1>1

\* New catalysts in one grid and lost ones in any is a deal.
LEMMA Dealing ==
    ASSUME NEW p \in Players, NEW S \in SUBSET Catalysts, NEW L \in SUBSET Catalysts,
           S \cap (1..catalysts) = {}, 1..catalysts' = (1..catalysts) \cup S,
           L \subseteq HeldIn(Players), lost' = lost \cup L,
           \A q \in Players : InGrid(mCatalysts'[q])
              = (InGrid(mCatalysts[q]) \ L) \cup (IF q = p THEN S ELSE {}),
           ground' \ marked' = ground \ marked
    PROVE  Trade!TNext
<1> DEFINE held == [q \in Players |-> InGrid(mCatalysts[q])]
<1>1. held' = [q \in Players |-> InGrid(mCatalysts'[q])]
  BY DEF InGrid
<1>2. held' = [q \in Players |-> (held[q] \ L) \cup (IF q = p THEN S ELSE {})]
  BY <1>1
<1>3. UNION {held[q] : q \in Players} = HeldIn(Players)
  BY DEF HeldIn
<1>4. Trade!Deal(p, S, L)
  BY <1>2, <1>3 DEF Trade!Deal
<1> QED BY <1>4 DEF Trade!TNext

\* A change of one grid is one of its Player's catalysts.
LEMMA OneGrid ==
    ASSUME TypeOK, NEW p \in Players, NEW g, mCatalysts' = [mCatalysts EXCEPT ![p] = g],
           NEW H, H = InGrid(g)
    PROVE  /\ InGrid(mCatalysts'[p]) = H
           /\ \A q \in Players \ {p} : InGrid(mCatalysts'[q]) = InGrid(mCatalysts[q])
           /\ [q \in Players |-> InGrid(mCatalysts[q])]'
                 = [[q \in Players |-> InGrid(mCatalysts[q])] EXCEPT ![p] = H]
<1>1. mCatalysts'[p] = g /\ \A q \in Players \ {p} : mCatalysts'[q] = mCatalysts[q]
  BY DEF TypeOK
<1>2. InGrid(mCatalysts'[p]) = H
  BY <1>1
<1>3. \A q \in Players \ {p} : InGrid(mCatalysts'[q]) = InGrid(mCatalysts[q])
  BY <1>1
<1>4. [q \in Players |-> InGrid(mCatalysts[q])]' = [q \in Players |-> InGrid(mCatalysts'[q])]
  BY DEF InGrid
<1> QED BY <1>2, <1>3, <1>4

\* What Hello deals was nobody's, and is in the grid afterwards.
LEMMA DealtOnce ==
    ASSUME TypeOK, catalysts + NSlots - 1 <= MaxCatalysts
    PROVE  /\ InGrid(Dealt) \cap (1..catalysts) = {}
           /\ 1..catalysts + NSlots - 1 = (1..catalysts) \cup InGrid(Dealt)
           /\ InGrid(Dealt) \in SUBSET Catalysts
<1> DEFINE S == InGrid(Dealt)
<1>0. PICK top : top = catalysts + NSlots - 1
  OBVIOUS
<1>1. /\ catalysts \in Nat /\ top \in Nat /\ catalysts <= top
      /\ Dealt \in [Slots -> 0..top] /\ MaxCatalysts \in Nat
      /\ \A s \in Slots : Dealt[s] # None => Dealt[s] > catalysts
      /\ \A c \in catalysts + 1 .. top : \E s \in Slots : Dealt[s] = c
  BY <1>0, DealtFacts, SessionsAssumption
<1>2. \A c \in S : c \in catalysts + 1 .. top
  BY <1>1 DEF None, InGrid
<1>3. \A c \in catalysts + 1 .. top : c \in S
  BY <1>1 DEF None, InGrid
<1>4. S = catalysts + 1 .. top
  BY <1>2, <1>3
<1> HIDE DEF S
<1>5. S \cap (1..catalysts) = {} /\ 1..top = (1..catalysts) \cup S /\ S \in SUBSET Catalysts
  BY <1>0, <1>1, <1>4 DEF Catalysts
<1> QED BY <1>0, <1>5 DEF S

\* What is lost with the Players of P was theirs, and is all of it.
LEMMA LostWith ==
    ASSUME TypeOK, Grids, NEW P \in SUBSET Players, NEW L, L = HeldIn(P)
    PROVE  /\ L \in SUBSET Catalysts /\ L \subseteq HeldIn(Players)
           /\ \A q \in Players : InGrid(mCatalysts[q]) \ L
                 = IF q \in P THEN {} ELSE InGrid(mCatalysts[q])
<1>1. \A q \in P : InGrid(mCatalysts[q]) \subseteq L
  BY DEF HeldIn
<1>2. L \subseteq HeldIn(Players)
  BY DEF HeldIn
<1>3. \A c \in L : \E q \in P : c \in InGrid(mCatalysts[q])
  BY DEF HeldIn
<1>4. L \in SUBSET Catalysts
  BY <1>3, GridMade
<1>5. ASSUME NEW q \in Players \ P
      PROVE  InGrid(mCatalysts[q]) \cap L = {}
  BY <1>3, <1>5, OneOwner
<1> QED BY <1>1, <1>2, <1>4, <1>5

\* A grid that is emptied has nothing in it.
LEMMA EmptyGrid == InGrid([s \in Slots |-> None]) = {}
BY DEF InGrid

\* The end of a Player deals nothing out.
LEMMA GoneDeals ==
    ASSUME TypeOK, Grids, NEW P \in SUBSET Players,
           mCatalysts' = Without(P, mCatalysts), lost' = lost \cup HeldIn(P),
           UNCHANGED <<catalysts, ground, marked>>
    PROVE  Trade!TNext \/ UNCHANGED TradeState
<1>1. CASE P = {}
  <2>1. HeldIn(P) = {}
    BY <1>1 DEF HeldIn
  <2>2. Without(P, mCatalysts) = mCatalysts
    BY <1>1 DEF Without, TypeOK
  <2> QED BY <2>1, <2>2, Unmoved
<1>2. CASE P # {}
  <2>0. PICK p \in Players : TRUE
    BY <1>2
  <2>1. PICK L : L = HeldIn(P)
    OBVIOUS
  <2>2. \A q \in Players : mCatalysts'[q] = IF q \in P THEN [s \in Slots |-> None]
                                            ELSE mCatalysts[q]
    BY DEF Without
  <2>3. \A q \in Players : InGrid(mCatalysts'[q]) = IF q \in P THEN {}
                                                    ELSE InGrid(mCatalysts[q])
    BY <2>2, EmptyGrid
  <2>4. \A q \in Players : InGrid(mCatalysts'[q])
           = (InGrid(mCatalysts[q]) \ L) \cup (IF q = p THEN {} ELSE {})
    BY <2>1, <2>3, LostWith
  <2>5. L \in SUBSET Catalysts /\ L \subseteq HeldIn(Players) /\ lost' = lost \cup L
    BY <2>1, LostWith
  <2>6. {} \in SUBSET Catalysts /\ {} \cap (1..catalysts) = {}
        /\ 1..catalysts' = (1..catalysts) \cup {} /\ ground' \ marked' = ground \ marked
    OBVIOUS
  <2> QED BY <2>4, <2>5, <2>6, Dealing
<1> QED BY <1>1, <1>2

\* Hello deals a new Player its catalysts, and may end two Players ...
LEMMA HelloDeals ==
    ASSUME IInv, NEW a \in Addresses, NEW u \in Users, Hello(a, u)
    PROVE  Trade!TNext
<1>1. TypeOK /\ Grids
  BY DEF IInv
<1>2. PICK p, S, P, L : /\ p = made + 1 /\ S = InGrid(Dealt)
                        /\ P = Gone(mPlayers', mPlayer') /\ L = HeldIn(P)
  OBVIOUS
<1>3. /\ p \in Players /\ p > made
      /\ mCatalysts' = Without(P, [mCatalysts EXCEPT ![p] = Dealt])
      /\ lost' = lost \cup L
      /\ mPlayers' = [mPlayers EXCEPT ![u] = p]
      /\ UNCHANGED <<ground, marked>>
      /\ catalysts' = catalysts + NSlots - 1 /\ catalysts + NSlots - 1 <= MaxCatalysts
  BY <1>1, <1>2, SessionsAssumption DEF Hello, Players, TypeOK
<1>4. P \in SUBSET Players /\ p \notin P
  <2>1. mPlayers'[u] = p
    BY <1>1, <1>3 DEF TypeOK
  <2> QED BY <1>2, <2>1 DEF Gone
<1>5. InGrid(mCatalysts[p]) = {}
  BY <1>1, <1>3 DEF Grids, InGrid
<1>6. \A q \in Players : mCatalysts'[q] = IF q \in P THEN [s \in Slots |-> None]
                         ELSE IF q = p THEN Dealt ELSE mCatalysts[q]
  BY <1>1, <1>3 DEF Without, TypeOK
<1>7. \A q \in Players : InGrid(mCatalysts'[q])
         = IF q \in P THEN {} ELSE IF q = p THEN S ELSE InGrid(mCatalysts[q])
  BY <1>2, <1>6, EmptyGrid
<1>8. /\ L \in SUBSET Catalysts /\ L \subseteq HeldIn(Players)
      /\ \A q \in Players : InGrid(mCatalysts[q]) \ L
            = IF q \in P THEN {} ELSE InGrid(mCatalysts[q])
  BY <1>1, <1>2, <1>4, LostWith
<1>9. \A q \in Players : InGrid(mCatalysts'[q])
         = (InGrid(mCatalysts[q]) \ L) \cup (IF q = p THEN S ELSE {})
  BY <1>4, <1>5, <1>7, <1>8
<1>10. /\ S \cap (1..catalysts) = {} /\ 1..catalysts' = (1..catalysts) \cup S
       /\ S \in SUBSET Catalysts
  BY <1>1, <1>2, <1>3, DealtOnce
<1>11. ground' \ marked' = ground \ marked
  BY <1>3
<1> QED BY <1>3, <1>8, <1>9, <1>10, <1>11, Dealing

\* ... and Hello for nobody one that may have had some.
LEMMA HelloNobodyDeals ==
    ASSUME IInv, NEW a \in Addresses, HelloNobody(a)
    PROVE  Trade!TNext
<1>1. TypeOK /\ Grids
  BY DEF IInv
<1>2. PICK p, S, k : p = mPlayer[a] /\ S = InGrid(Dealt) /\ k = mCatalysts[p][NSlots - 1]
  OBVIOUS
<1>3. PICK g, L : /\ g = [Dealt EXCEPT ![NSlots - 1] = k]
                  /\ L = InGrid(mCatalysts[p]) \ {k}
  OBVIOUS
<1>4. p \in Players /\ NSlots - 1 \in Slots
  BY <1>1, <1>2, PlayerOf, SessionsAssumption DEF HelloNobody, Slots
<1>5. /\ mCatalysts' = [mCatalysts EXCEPT ![p] = g] /\ lost' = lost \cup L
      /\ UNCHANGED <<ground, marked>>
      /\ catalysts' = catalysts + NSlots - 1 /\ catalysts + NSlots - 1 <= MaxCatalysts
  BY <1>2, <1>3 DEF HelloNobody
<1>6. /\ S \cap (1..catalysts) = {} /\ 1..catalysts' = (1..catalysts) \cup S
      /\ S \in SUBSET Catalysts
  BY <1>1, <1>2, <1>5, DealtOnce
<1>7. L \in SUBSET Catalysts /\ L \subseteq HeldIn(Players)
  BY <1>1, <1>3, <1>4, GridMade DEF HeldIn
<1>8. PICK H, U : H = InGrid(mCatalysts[p]) /\ U = (H \ L) \cup S
  OBVIOUS
<1>9. InGrid(g) = U
  <2>1. /\ Dealt[NSlots - 1] = None /\ g[NSlots - 1] = k
        /\ \A s \in Slots \ {NSlots - 1} : g[s] = Dealt[s]
    BY <1>3, <1>4 DEF Dealt
  <2>2. ASSUME NEW c, c # None
        PROVE  (\E s \in Slots : g[s] = c) <=> (c = k \/ \E s \in Slots : Dealt[s] = c)
    BY <1>4, <2>1, <2>2
  <2>3. \A c : c \in H \ L <=> c = k /\ c # None
    BY <1>2, <1>3, <1>4, <1>8 DEF InGrid
  <2> QED BY <1>2, <1>8, <2>2, <2>3 DEF InGrid
<1>10. /\ InGrid(mCatalysts'[p]) = U
       /\ \A q \in Players \ {p} : InGrid(mCatalysts'[q]) = InGrid(mCatalysts[q])
  BY <1>1, <1>4, <1>5, <1>9, OneGrid
<1>11. \A q \in Players \ {p} : InGrid(mCatalysts[q]) \cap L = {}
  BY <1>1, <1>3, <1>4, OneOwner
<1>12. \A q \in Players : InGrid(mCatalysts'[q])
          = (InGrid(mCatalysts[q]) \ L) \cup (IF q = p THEN S ELSE {})
  BY <1>8, <1>10, <1>11
<1>13. ground' \ marked' = ground \ marked
  BY <1>5
<1> QED BY <1>4, <1>5, <1>6, <1>7, <1>12, <1>13, Dealing

\* A catalyst that leaves its slot leaves its Player, whatever nobody had comes
\* in its place.
LEMMA Replaced ==
    ASSUME TypeOK, Grids, NEW p \in Players, NEW s \in Slots,
           NEW x \in {None, catalysts + 1}, NEW g, g = [mCatalysts[p] EXCEPT ![s] = x]
    PROVE  InGrid(g) = (InGrid(mCatalysts[p]) \ {mCatalysts[p][s]}) \cup ({x} \ {None})
<1>1. PICK c : c = mCatalysts[p][s]
  OBVIOUS
<1>2. catalysts \in Nat /\ \A r \in Slots : mCatalysts[p][r] \in 0..catalysts
  BY SessionsAssumption DEF TypeOK
<1>3. \A r \in Slots : mCatalysts[p][r] = c /\ c # None => r = s
  BY <1>1, <1>2 DEF Grids, Holds, None
<1>4. g[s] = x /\ \A r \in Slots \ {s} : g[r] = mCatalysts[p][r]
  BY DEF TypeOK
<1>5. ASSUME NEW y, y # None
      PROVE  (\E r \in Slots : g[r] = y)
                <=> (y = x \/ (y # c /\ \E r \in Slots : mCatalysts[p][r] = y))
  BY <1>1, <1>3, <1>4, <1>5
<1> QED BY <1>1, <1>5 DEF InGrid

\* DropCatalyst puts one down ...
LEMMA DropPutsDown ==
    ASSUME IInv, NEW a \in Addresses, NEW s \in Slots, DropCatalyst(a, s)
    PROVE  Trade!TNext
<1>1. TypeOK /\ Grids
  BY DEF IInv
<1>2. PICK p, c : p = mPlayer[a] /\ c = mCatalysts[p][s]
  OBVIOUS
<1>3. PICK g : g = [mCatalysts[p] EXCEPT ![s] = None]
  OBVIOUS
<1>4. p \in Players
  BY <1>1, <1>2, PlayerOf DEF DropCatalyst, MayDrag
<1>5. /\ mCatalysts' = [mCatalysts EXCEPT ![p] = g] /\ c # None
      /\ ground' = ground \cup {c} /\ marked' = marked \ {c}
      /\ UNCHANGED <<catalysts, lost>>
  <2>1. /\ mCatalysts' = [mCatalysts EXCEPT ![p][s] = None] /\ c # None
        /\ ground' = ground \cup {c} /\ marked' = marked \ {c}
        /\ UNCHANGED <<catalysts, historyVars>>
    BY <1>1, <1>2, DroppedFromSlot
  <2> QED BY <1>1, <1>3, <1>4, <2>1 DEF historyVars, TypeOK
<1>6. PICK H, T : H = InGrid(mCatalysts[p]) /\ T = H \ {c}
  OBVIOUS
<1>7. T = InGrid(g)
  BY <1>1, <1>2, <1>3, <1>4, <1>6, Replaced
<1>8. c \in H /\ c \in Catalysts
  <2>1. c \in H
    BY <1>2, <1>5, <1>6 DEF InGrid
  <2> QED BY <1>1, <1>4, <1>6, <2>1, GridMade
<1>9. [q \in Players |-> InGrid(mCatalysts[q])]'
         = [[q \in Players |-> InGrid(mCatalysts[q])] EXCEPT ![p] = T]
  BY <1>1, <1>4, <1>5, <1>7, OneGrid
<1>10. ground' \ marked' = (ground \ marked) \cup {c}
  BY <1>5
<1>11. Trade!PutDown(p, c)
  BY <1>4, <1>5, <1>6, <1>8, <1>9, <1>10 DEF Trade!PutDown
<1> QED BY <1>4, <1>8, <1>11 DEF Trade!TNext

\* ... or makes one appear.
LEMMA Appears ==
    ASSUME TypeOK, catalysts < MaxCatalysts,
           catalysts' = catalysts + 1, ground' = ground \cup {catalysts'},
           UNCHANGED <<mCatalysts, marked, lost>>
    PROVE  Trade!TNext
<1>1. catalysts \in Nat /\ MaxCatalysts \in Nat
  BY SessionsAssumption DEF TypeOK
<1>2. PICK c : c = catalysts + 1
  OBVIOUS
<1>3. c \in Catalysts /\ c \notin 1..catalysts /\ 1..catalysts' = (1..catalysts) \cup {c}
  BY <1>1, <1>2 DEF Catalysts
<1>4. c \notin marked
  BY <1>3 DEF TypeOK
<1>5. ground' \ marked' = (ground \ marked) \cup {c}
  BY <1>2, <1>4
<1>6. [q \in Players |-> InGrid(mCatalysts[q])]' = [q \in Players |-> InGrid(mCatalysts[q])]
  BY DEF InGrid
<1>7. Trade!Appear(c)
  BY <1>3, <1>5, <1>6 DEF Trade!Appear
<1> QED BY <1>3, <1>7 DEF Trade!TNext

\* MoveCatalyst shows only when it moves over the end of the grid.
LEMMA MoveDeals ==
    ASSUME IInv, NEW a \in Addresses, NEW s \in Named, NEW t \in Named,
           MoveCatalyst(a, s, t)
    PROVE  Trade!TNext \/ UNCHANGED TradeState
<1>1. TypeOK /\ Grids
  BY DEF IInv
<1>2. PICK p : p = mPlayer[a]
  OBVIOUS
<1>3. /\ p \in Players /\ UNCHANGED <<ground, marked>>
      /\ \/ Exchanged(p, s, t)
         \/ \E r \in Slots, x \in {None, catalysts + 1} : PutFor(p, r, x)
  BY <1>1, <1>2, MovedCatalyst
<1>4. PICK H : H = InGrid(mCatalysts[p])
  OBVIOUS
<1>5. CASE Exchanged(p, s, t)
  <2>1. PICK g : g = [mCatalysts[p] EXCEPT ![t] = mCatalysts[p][s], ![s] = mCatalysts[p][t]]
    OBVIOUS
  <2>2. mCatalysts' = [mCatalysts EXCEPT ![p] = g]
    BY <1>1, <1>3, <1>5, <2>1 DEF TypeOK, Exchanged
  <2>3. /\ g[s] = mCatalysts[p][t] /\ g[t] = mCatalysts[p][s]
        /\ \A r \in Slots \ {s, t} : g[r] = mCatalysts[p][r]
    BY <1>1, <1>3, <1>5, <2>1 DEF TypeOK, Exchanged
  <2>4. \A x : (\E r \in Slots : g[r] = x) <=> (\E r \in Slots : mCatalysts[p][r] = x)
    BY <1>5, <2>3 DEF Exchanged
  <2>5. H = InGrid(g)
    BY <1>4, <2>4 DEF InGrid
  <2>6. [q \in Players |-> InGrid(mCatalysts[q])]'
           = [[q \in Players |-> InGrid(mCatalysts[q])] EXCEPT ![p] = H]
    BY <1>1, <1>3, <2>2, <2>5, OneGrid
  <2>7. [q \in Players |-> InGrid(mCatalysts[q])]' = [q \in Players |-> InGrid(mCatalysts[q])]
    BY <1>3, <1>4, <2>6
  <2> QED BY <1>3, <1>5, <2>7 DEF TradeState, Exchanged
<1>6. ASSUME NEW r \in Slots, NEW x \in {None, catalysts + 1}, PutFor(p, r, x)
      PROVE  Trade!TNext
  <2>1. PICK c, g, S, L, U :
           /\ c = mCatalysts[p][r] /\ g = [mCatalysts[p] EXCEPT ![r] = x]
           /\ S = {x} \ {None} /\ L = {c} \ {None} /\ U = (H \ L) \cup S
    OBVIOUS
  <2>2. mCatalysts' = [mCatalysts EXCEPT ![p] = g]
    BY <1>1, <1>3, <1>6, <2>1 DEF TypeOK, PutFor
  <2>3. None \notin H
    BY <1>4 DEF InGrid
  <2>4. U = InGrid(g)
    BY <1>1, <1>3, <1>4, <2>1, <2>3, Replaced
  <2>5. L \subseteq H
    BY <1>4, <2>1 DEF InGrid
  <2>6. L \in SUBSET Catalysts /\ L \subseteq HeldIn(Players) /\ lost' = lost \cup L
    BY <1>1, <1>3, <1>4, <1>6, <2>1, <2>5, GridMade DEF HeldIn, PutFor
  <2>7. /\ S \cap (1..catalysts) = {} /\ 1..catalysts' = (1..catalysts) \cup S
        /\ S \in SUBSET Catalysts
    <3>1. catalysts \in Nat /\ MaxCatalysts \in Nat
      BY <1>1, SessionsAssumption DEF TypeOK
    <3>2. CASE x = None
      BY <1>6, <2>1, <3>2 DEF PutFor
    <3>3. CASE x # None
      <4>1. x = catalysts + 1 /\ catalysts' = x /\ S = {x}
        BY <1>6, <2>1, <3>3 DEF PutFor
      <4> QED BY <1>6, <3>1, <4>1 DEF Catalysts, PutFor
    <3> QED BY <3>2, <3>3
  <2>8. /\ InGrid(mCatalysts'[p]) = U
        /\ \A q \in Players \ {p} : InGrid(mCatalysts'[q]) = InGrid(mCatalysts[q])
    BY <1>1, <1>3, <2>2, <2>4, OneGrid
  <2>9. \A q \in Players \ {p} : InGrid(mCatalysts[q]) \cap L = {}
    BY <1>1, <1>3, <1>4, <2>5, OneOwner
  <2>10. \A q \in Players : InGrid(mCatalysts'[q])
            = (InGrid(mCatalysts[q]) \ L) \cup (IF q = p THEN S ELSE {})
    BY <1>4, <2>1, <2>8, <2>9
  <2>11. ground' \ marked' = ground \ marked
    BY <1>3
  <2> QED BY <1>3, <2>6, <2>7, <2>10, <2>11, Dealing
<1> QED BY <1>3, <1>5, <1>6

\* PickupCatalyst takes one from the world.
LEMMA PickupTakesUp ==
    ASSUME IInv, NEW a \in Addresses, NEW c \in Catalysts, PickupCatalyst(a, c)
    PROVE  Trade!TNext
<1>1. TypeOK
  BY DEF IInv
<1>2. PICK p : p = mPlayer[a]
  OBVIOUS
<1>3. p \in Players /\ c # None
  BY <1>1, <1>2, PlayerOf DEF PickupCatalyst, IInv, Catalysts, None
<1>4. PICK s \in Slots : /\ mCatalysts[p][s] = None
                         /\ mCatalysts' = [mCatalysts EXCEPT ![p][s] = c]
  BY <1>2 DEF PickupCatalyst, OpenSlot
<1>5. PICK g : g = [mCatalysts[p] EXCEPT ![s] = c]
  OBVIOUS
<1>6. /\ mCatalysts' = [mCatalysts EXCEPT ![p] = g]
      /\ c \in ground \ marked /\ ground' = ground /\ marked' = marked \cup {c}
      /\ UNCHANGED <<catalysts, lost>>
  BY <1>1, <1>3, <1>4, <1>5 DEF PickupCatalyst, CanBePicked, historyVars, TypeOK
<1>7. PICK H, T : H = InGrid(mCatalysts[p]) /\ T = H \cup {c}
  OBVIOUS
<1>8. T = InGrid(g)
  <2>1. g[s] = c /\ \A r \in Slots \ {s} : g[r] = mCatalysts[p][r]
    BY <1>1, <1>3, <1>5 DEF TypeOK
  <2>2. ASSUME NEW x, x # None
        PROVE  (\E r \in Slots : g[r] = x) <=> (x = c \/ \E r \in Slots : mCatalysts[p][r] = x)
    BY <2>1, <2>2, <1>4
  <2> QED BY <2>2, <1>3, <1>7 DEF InGrid
<1>9. [q \in Players |-> InGrid(mCatalysts[q])]'
         = [[q \in Players |-> InGrid(mCatalysts[q])] EXCEPT ![p] = T]
  BY <1>1, <1>3, <1>6, <1>8, OneGrid
<1>10. ground' \ marked' = (ground \ marked) \ {c}
  BY <1>6
<1>11. Trade!TakeUp(p, c)
  BY <1>3, <1>6, <1>7, <1>9, <1>10 DEF Trade!TakeUp
<1> QED BY <1>3, <1>11 DEF Trade!TNext

\* Whatever packets its clients send, and whichever Players go, a game's
\* catalysts are made once and change hands through the world only, for every
\* number of clients and users and every size of the grid.
THEOREM CatalystsAreTraded == Spec => TradesThroughWorld
<1>1. Init => Trade!TInit
  <2> SUFFICES ASSUME Init PROVE Trade!TInit
    OBVIOUS
  <2>1. 1..catalysts = {} /\ ground \ marked = {} /\ lost = {}
    BY DEF Init
  <2>2. \A p \in Players : InGrid(mCatalysts[p]) = {}
    BY DEF Init, InGrid
  <2> QED BY <2>1, <2>2 DEF Trade!TInit
<1>2. IInv /\ [Next]_vars => [Trade!TNext]_(Trade!tvars)
  <2> SUFFICES ASSUME IInv, [Next]_vars PROVE Trade!TNext \/ UNCHANGED TradeState
    BY DEF Trade!tvars, TradeState
  <2>0. TypeOK /\ Grids
    BY DEF IInv
  <2>1. ASSUME NEW a \in Addresses, NewConnection(a)
        PROVE  UNCHANGED TradeState
    BY <2>1, Unmoved DEF NewConnection, catalystVars, historyVars
  <2>2. ASSUME NEW a \in Addresses, RemoveClient(a)
        PROVE  Trade!TNext \/ UNCHANGED TradeState
    <3>1. PICK P : P = Gone(mPlayers, mPlayer')
      OBVIOUS
    <3>2. /\ P \in SUBSET Players /\ mCatalysts' = Without(P, mCatalysts)
          /\ lost' = lost \cup HeldIn(P) /\ UNCHANGED <<catalysts, ground, marked>>
      BY <2>2, <3>1 DEF RemoveClient, Gone
    <3> QED BY <2>0, <3>2, GoneDeals
  <2>3. ASSUME NEW u \in Users, RemovePlayer(u)
        PROVE  Trade!TNext \/ UNCHANGED TradeState
    <3>1. PICK P : P = Gone(mPlayers', mPlayer)
      OBVIOUS
    <3>2. /\ P \in SUBSET Players /\ mCatalysts' = Without(P, mCatalysts)
          /\ lost' = lost \cup HeldIn(P) /\ UNCHANGED <<catalysts, ground, marked>>
      BY <2>3, <3>1 DEF RemovePlayer, Gone
    <3> QED BY <2>0, <3>2, GoneDeals
  <2>4. ASSUME NEW a \in Addresses, Packet(a)
        PROVE  Trade!TNext \/ UNCHANGED TradeState
    <3>1. ASSUME NEW u \in Users, Hello(a, u) PROVE Trade!TNext
      BY <3>1, HelloDeals
    <3>2. CASE HelloNobody(a)
      BY <3>2, HelloNobodyDeals
    <3>3. CASE PrepareGameStart(a) \/ StatusUpdate(a) \/ Loaded(a)
      BY <3>3, Unmoved DEF PrepareGameStart, StatusUpdate, Loaded, catalystVars, historyVars
    <3>4. CASE BeamOut(a) \/ SwapCharacter(a) \/ DebugPing(a)
      BY <3>4, Unmoved DEF BeamOut, SwapCharacter, DebugPing, catalystVars, historyVars
    <3>5. ASSUME NEW s \in Named, DropCatalyst(a, s) PROVE Trade!TNext
      <4>1. CASE s \in Slots
        BY <3>5, <4>1, DropPutsDown
      <4>2. CASE s \in Named \ Slots
        <5>1. /\ catalysts < MaxCatalysts /\ catalysts' = catalysts + 1
              /\ ground' = ground \cup {catalysts'}
              /\ UNCHANGED <<mCatalysts, marked, historyVars>>
          BY <2>0, <3>5, <4>2, DroppedFromBeyond
        <5> QED BY <2>0, <5>1, Appears DEF historyVars
      <4> QED BY <4>1, <4>2
    <3>6. ASSUME NEW s \in Named, NEW t \in Named, MoveCatalyst(a, s, t)
          PROVE  Trade!TNext \/ UNCHANGED TradeState
      BY <3>6, MoveDeals
    <3>7. ASSUME NEW c \in Catalysts, PickupCatalyst(a, c) PROVE Trade!TNext
      BY <3>7, PickupTakesUp
    <3> QED BY <2>4, <3>1, <3>2, <3>3, <3>4, <3>5, <3>6, <3>7 DEF Packet
  <2>5. CASE NewCatalyst
    <3>1. /\ catalysts < MaxCatalysts /\ catalysts' = catalysts + 1
          /\ ground' = ground \cup {catalysts'} /\ UNCHANGED <<mCatalysts, marked, lost>>
      BY <2>5 DEF NewCatalyst, historyVars
    <3> QED BY <2>0, <3>1, Appears
  <2>6. CASE GameUpdate
    <3>1. ground' \ marked' = ground \ marked /\ UNCHANGED <<mCatalysts, catalysts, lost>>
      BY <2>6 DEF GameUpdate, historyVars
    <3> QED BY <3>1, Unmoved
  <2>7. CASE ClientTask \/ UNCHANGED vars
    BY <2>7, Unmoved DEF ClientTask, vars, catalystVars, historyVars
  <2> QED BY <2>1, <2>2, <2>3, <2>4, <2>5, <2>6, <2>7 DEF Next
<1> QED BY <1>1, <1>2, InvariantIInv, PTL DEF Spec, TradesThroughWorld, Trade!TSpec

=============================================================================
