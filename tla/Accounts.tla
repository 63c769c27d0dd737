------------------------------ MODULE Accounts ------------------------------
(***************************************************************************)
(* The accounts of the server: the files they are kept in, the User        *)
(* objects that are loaded from them (SporeNet/User.cpp), and the sessions *)
(* that hold a User (clients of Blaze/Component/AuthComponent.cpp and HTTP  *)
(* sessions of Game/API.cpp).                                              *)
(*                                                                         *)
(* A User is written to its file by Logout only.  Logout takes it out of   *)
(* UserManager's map, but the sessions that hold it keep it: the next      *)
(* Login loads a second User from the same file, and both can be spent     *)
(* from and logged out.                                                    *)
(*                                                                         *)
(* One handler runs at a time, on the io thread.  An exception that leaves *)
(* one ends Application::Run: the server stops and is started again.       *)
(***************************************************************************)
EXTENDS Integers, FiniteSets

CONSTANTS Emails,     \* user names, the keys of UserManager's map
          Sessions,   \* Blaze clients and HTTP sessions
          Objects,    \* names for User objects, used again when free
          Upgrades,   \* ids that UnlockUpgrade knows
          Cost,       \* unlockCost
          Granted,    \* DNA of a new account
          Templates,  \* creatures of a new account, one for each template
          Rewards,    \* creature rewards of a new account
          Wrap        \* 2^32, the range of Account::dna

NoUser == "none"

ASSUME AccountsAssumption ==
    /\ Cost \in [Upgrades -> Nat]
    /\ Granted \in Nat /\ Templates \in Nat /\ Rewards \in Nat
    /\ Wrap \in Nat /\ Granted < Wrap
    /\ NoUser \notin Emails \cup Objects

VARIABLES
    disk,       \* e-mail |-> the account in its file, or NoAccount
    users,      \* UserManager::sUsersByEmail: e-mail |-> User, or NoUser
    session,    \* session |-> the User that it holds, or NoUser
    email,      \* User |-> its mUsername, NoUser when there is no such User
    data,       \* User |-> its account, creatures and squads
    behind      \* history: Users whose file another User wrote since they
                \* last read or wrote it

accountVars == <<disk, users, session, email, data, behind>>

(* An account.  "paid" is history: what its user was charged.  "hero" is   *)
(* the id of the creature in a squad, 0 for the noun of a template, which  *)
(* is no creature's id.                                                    *)
Accounts == [dna : 0..(Wrap - 1), paid : Nat, rewards : 0..Rewards,
             creatures : 0..(Templates + Rewards), squads : BOOLEAN,
             hero : 0..(Templates + Rewards), inventory : BOOLEAN]

\* A file that does not exist.
NoAccount == [dna |-> 0, paid |-> -1, rewards |-> 0, creatures |-> 0,
              squads |-> FALSE, hero |-> 0, inventory |-> FALSE]

AccountsTypeOK ==
    /\ disk \in [Emails -> Accounts \cup {NoAccount}]
    /\ users \in [Emails -> Objects \cup {NoUser}]
    /\ session \in [Sessions -> Objects \cup {NoUser}]
    /\ email \in [Objects -> Emails \cup {NoUser}]
    /\ data \in [Objects -> Accounts]
    /\ behind \subseteq Objects

\* What SignUp writes: an Account as it is constructed.
BareAccount == [dna |-> 0, paid |-> 0, rewards |-> 0, creatures |-> 0,
                squads |-> FALSE, hero |-> 0, inventory |-> FALSE]

AccountsInit ==
    /\ disk = [e \in Emails |-> NoAccount]
    /\ users = [e \in Emails |-> NoUser]
    /\ session = [s \in Sessions |-> NoUser]
    /\ email = [o \in Objects |-> NoUser]
    /\ data = [o \in Objects |-> BareAccount]
    /\ behind = {}

----------------------------------------------------------------------------
(* The parts.                                                              *)

Registered(e) == disk[e] # NoAccount

\* Users that do not exist.
Free == {o \in Objects : email[o] = NoUser}

\* The map and the sessions are shared_ptrs: a User that neither holds is
\* destroyed.
Held(o) == o \in {users'[e] : e \in Emails} \cup {session'[s] : s \in Sessions}

DestroyUnheld ==
    /\ email' = [o \in Objects |-> IF Held(o) THEN email[o] ELSE NoUser]
    /\ data' = [o \in Objects |-> IF Held(o) THEN data[o] ELSE BareAccount]
    /\ behind' = {o \in behind : Held(o)}

\* Mutant: squads are looked for under a name they are not written under.
SavedAndRead_Decks(a) == [a EXCEPT !.squads = FALSE, !.inventory = FALSE]

\* What Account::Write and then Account::Read keep: "unlock_inventory" is
\* written of another field, and not read into this one.
SavedAndRead(a) == [a EXCEPT !.inventory = FALSE]

\* User::Load of a new User.
Loaded(e) == SavedAndRead(disk[e])

\* User::Save.
Saved(o) == [disk EXCEPT ![email[o]] = data[o]]

\* Account fields after recap_game_registration has unlocked everything.
NewAccount == [dna |-> Granted, paid |-> 0, rewards |-> Rewards,
               creatures |-> Templates, squads |-> TRUE, hero |-> 0,
               inventory |-> TRUE]

----------------------------------------------------------------------------
(* Registration.                                                           *)

\* SignUp throws if the e-mail is in use, and the handler answers so.
MaySignUp(e) == users[e] = NoUser /\ ~Registered(e)

\* recap_game_registration: SignUp writes a bare account, then everything is
\* unlocked and the account is written again.
Register(e) ==
    /\ MaySignUp(e)
    /\ disk' = [disk EXCEPT ![e] = NewAccount]
    /\ UNCHANGED <<users, session, email, data, behind>>

\* All that is not in a file is gone, and the server is started again.
Stopped ==
    /\ users' = [e \in Emails |-> NoUser]
    /\ session' = [s \in Sessions |-> NoUser]
    /\ DestroyUnheld

\* The same with an avatar that is no number: stoi throws what the handler
\* does not catch, after SignUp has written its file.
RegisterFails(e) ==
    /\ MaySignUp(e)
    /\ disk' = [disk EXCEPT ![e] = BareAccount]
    /\ Stopped

\* The server is stopped and started again: OnExit saves no User.
Restart == Stopped /\ UNCHANGED disk

----------------------------------------------------------------------------
(* Sessions.                                                               *)

\* Login of AuthComponent, with a user that is logged in already: every session
\* gets the same User.  ExpressLogin, SilentLogin and the token of an HTTP
\* request find it in the map, too.
Attach(s, e) ==
    /\ users[e] # NoUser
    /\ session' = [session EXCEPT ![s] = users[e]]
    /\ UNCHANGED <<disk, users>>
    /\ DestroyUnheld

\* UserManager::Login of one that is not: a new User reads the file.
Login(s, e) ==
    /\ users[e] = NoUser
    /\ Registered(e)
    /\ \E o \in Free :
          /\ users' = [users EXCEPT ![e] = o]
          /\ session' = [session EXCEPT ![s] = o]
          /\ email' = [q \in Objects |->
                IF q = o THEN e ELSE IF Held(q) THEN email[q] ELSE NoUser]
          /\ data' = [q \in Objects |->
                IF q = o THEN Loaded(e)
                ELSE IF Held(q) THEN data[q] ELSE BareAccount]
          /\ behind' = {q \in behind : Held(q)}
    /\ UNCHANGED disk

\* A client disconnects, or an HTTP session ends: the User stays in the map.
Disconnect(s) ==
    /\ session[s] # NoUser
    /\ session' = [session EXCEPT ![s] = NoUser]
    /\ UNCHANGED <<disk, users>>
    /\ DestroyUnheld

\* Mutant: RemoveUser takes out the User that logs out, and no other.
Removed_Own(o) == [e \in Emails |-> IF users[e] = o THEN NoUser ELSE users[e]]

\* UserManager::RemoveUser goes by the name.
Removed(o) == [users EXCEPT ![email[o]] = NoUser]

\* Logout, by Blaze or by HTTP: out of the map, and into the file.  The
\* session keeps the User.
Logout(s) ==
    /\ session[s] # NoUser
    /\ LET o == session[s] IN
          /\ users' = Removed(o)
          /\ disk' = Saved(o)
          /\ behind' = (behind \cup {q \in Objects : email[q] = email[o]}) \ {o}
    /\ UNCHANGED <<session, email, data>>

----------------------------------------------------------------------------
(* What a user does with an account.                                       *)

\* UnlockUpgrade refuses what costs more than there is.
Affordable(o, k) == Cost[k] <= data[o].dna

\* game_account_unlock: the price is taken; the level is set to that of the
\* upgrade, whatever it was.
UnlockUpgrade(s, k) ==
    /\ session[s] # NoUser
    /\ LET o == session[s] IN
          /\ Affordable(o, k)
          /\ data' = [data EXCEPT
                        ![o].dna = (@ - Cost[k]) % Wrap,
                        ![o].paid = @ + Cost[k],
                        ![o].inventory = TRUE]
    /\ UNCHANGED <<disk, users, session, email, behind>>

HasReward(o) == data[o].rewards > 0

\* Creatures::Add: nothing for an id that is no template's.
Added(creatures, known) == IF known THEN creatures + 1 ELSE creatures

\* game_creature_unlockCreature: a reward is taken, and if there is such a
\* template, its creature is added.
UnlockCreature(s, known) ==
    /\ session[s] # NoUser
    /\ LET o == session[s] IN
          /\ HasReward(o)
          /\ data' = [data EXCEPT
                        ![o].rewards = @ - 1,
                        ![o].creatures = Added(@, known)]
    /\ UNCHANGED <<disk, users, session, email, behind>>

\* game_deck_updateDecks: only creatures of the user come into a squad.
UpdateSquad(s, c) ==
    /\ session[s] # NoUser
    /\ LET o == session[s] IN
          /\ data[o].squads /\ c \in 1..data[o].creatures
          /\ data' = [data EXCEPT ![o].hero = c]
    /\ UNCHANGED <<disk, users, session, email, behind>>

AccountsNext ==
    \/ \E e \in Emails : Register(e) \/ RegisterFails(e)
    \/ Restart
    \/ \E s \in Sessions, e \in Emails : Attach(s, e) \/ Login(s, e)
    \/ \E s \in Sessions : Disconnect(s) \/ Logout(s)
    \/ \E s \in Sessions, k \in Upgrades : UnlockUpgrade(s, k)
    \/ \E s \in Sessions, known \in BOOLEAN : UnlockCreature(s, known)
    \/ \E s \in Sessions, c \in 1..(Templates + Rewards) : UpdateSquad(s, c)

AccountsSpec == AccountsInit /\ [][AccountsNext]_accountVars

----------------------------------------------------------------------------
(* Properties.                                                             *)

\* The User that a login finds in the map has seen everything that was ever
\* written to its file: a User that others still hold may be saved over a
\* newer one (and the newer one's changes be lost), but then the next login
\* reads the file again.
LoggedInSeesDisk ==
    \A e \in Emails : users[e] # NoUser => users[e] \notin behind

\* No order of logins, logouts, restarts and purchases makes money, creatures
\* or squads from nothing: an account, loaded or on file, has what it was
\* given less what its user paid, unless its registration stopped half way.
Consistent(a) ==
    \/ a = NoAccount
    \/ ~a.squads /\ a.dna = 0 /\ a.creatures = 0
    \/ /\ a.squads
       /\ a.dna + a.paid = Granted
       /\ a.creatures + a.rewards <= Templates + Rewards
       /\ a.hero <= a.creatures

AccountsSound ==
    /\ \A e \in Emails : Consistent(disk[e])
    /\ \A o \in Objects : Consistent(data[o])

=============================================================================
