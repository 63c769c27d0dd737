# A verification of recap_server in TLA+

recap_server is a game server for *Darkspore*: a web API, the Blaze login and
matchmaking services, and one RakNet server thread per running game, which
hosts the game's objects, its Lua scripts and its players.  This directory
holds TLA+ modules of the parts whose correctness depends on what happens in
which order, the TLC configurations that check them on small instances, and
machine-checked proofs of what matters most for every instance.

Paths below are relative to `src/darkspore_server/source/`.

## 1. The system

### Threads

| thread | runs |
|---|---|
| io (`Main.cpp`, one `asio::io_context`) | Blaze, HTTP and QoS servers; starts and stops games |
| scheduler (`Core/Async/Scheduler.cpp`) | callbacks of delayed tasks |
| one per started game (`RakNet/Server.cpp` 166-216) | the server's posted tasks, its packets, `Instance::Update` |
| data loading (`Main.cpp` 155-198, detached) | nouns, assets, global scripts |

A script in a game asks for a delay (`AddEvent`, `LuaFunctions.cpp` 1572);
`Instance::AddTask` hands it to the scheduler; the scheduler's callback posts a
server task to the game; the game's thread runs it and cancels its id.  Chat
commands post server tasks from the io thread.

### Components

| component | state | operations | what is hard | what makes it correct |
|---|---|---|---|---|
| Scheduler | queue, live ids, shutdown flag, per-thread id counters | add, cancel, worker loop, shutdown | unlocked reads, late notification, cancel by erasing an id, ids per thread | never early, never lost, cancel is final, shutdown returns |
| Object manager | id table, active set, deletion queue, open ids | create, mark, update | scripts change the tables while they are iterated; ids are reused | tables agree, no id twice or lost, flagged objects go |
| Octree | nodes, queue | enqueue, update, region queries | holds objects the tables no longer have | no query during a tick returns a deleted object |
| Game instance | started flag, objectives, events | create/update/delete messages, pickups, drops, player start, start and stop | one flag for all clients; players without a session; stop against running tasks | clients know what exists and nothing else; nothing is awarded twice; a withdrawn event is silent |
| RakNet server, client session | clients, task queue, per-client game state | connect, hello, prepare, start, ping, actions, disconnect | ids from counts, bits reset for all clients at once, lost packets, tasks run under the queue's lock | a player is found, a change reaches everybody, no task is lost |
| Player, catalysts | squad, hero objects, catalyst grid, update bits | set squad, swap, catalyst moves | slot bounds, Players that are replaced and go with their grid | grid and world hold a catalyst once |
| Objects: health, attributes | flags, data bits, erased list | damage, heal, set, send | what is noted in one place and cleared in another | a client's copy is the object's state |
| Objects: effects, cooldowns | slots, ends | add, remove, notify | slots used again, removal by name or index | a slot has one owner, a cooldown lasts and is sent as it is |
| Lua runtime | coroutine pool, yielded set, per-object thread | spawn, yield, resume, stop, return | stale pointers to pooled threads, scripts that start scripts | a thread belongs to one coroutine, a sleeper wakes |
| Trigger volumes | objects in the radius | enter, stay, exit | erasing while iterating, geometry | (not modelled) |
| Users | users by name, files, sessions | sign up, login, logout, save, purchases | sessions outlive the table entry; one of two steps fails | the table has the newest User, money adds up |
| Blaze connections | read buffer, answers | accept, read, parse, write, drop | reads cut anywhere, bodies taken for headers, old bytes in the buffer, writes that block | a request runs once, its answer is its own, all is read |
| Rooms, registry, Blaze GameManager | rooms, games by id | join, create, start | nothing is ever taken out | (not modelled) |
| Levels, nouns, assets, TDF, HTTP, QoS, geometry | parsed data, encodings | parse, encode, query | volume, not order | (not modelled) |

Every component is listed in `PROJECT.json` with its sources and status, and
every place where this code is hard to test is listed there under `hazards`,
with the properties that watch it, or the reason why none does; where a
property excepts a part of the hazard, the entry's note says which.

## 2. The modules

| module | models |
|---|---|
| `TimerService` | what a one-shot timer service promises: run once, in time, not after cancel |
| `Scheduler` | `Core/Async/Scheduler.{h,cpp}`, every locked section and unlocked step; implements `TimerService` and `TaskQueue` |
| `TaskQueue` | the scheduler as its callers may picture it: one lock, each call one step, clashing ids included |
| `ScriptEvents` | what `AddEvent` and `StopEvent` promise scripts: an event is called once, withdrawn, or lost with its game |
| `Coroutines` | what scripts see of their runtime: a stack of running scripts and a set of sleeping ones |
| `SerialCalls` | remote calls as the callers of a server with one thread see them |
| `CatalystTrade` | catalysts as players own them: made once, changing hands through the world |
| `ObjectNames` | what ids of objects promise: a name is one object's until it is taken back |
| `GameObjects` | objects, ids, octree, deletion and the clients' views of one game; implements `ObjectNames` |
| `GameSessions` | one game's clients, their Players, how long these live, their update bits, and the catalysts in grids and world; implements `CatalystTrade` |
| `HeroReplication` | health, collision and attributes of a player's heroes, the packets that carry them and the copies that clients keep |
| `ObjectEffects` | the effect slots and cooldowns of one object, and the cooldowns that clients are sent |
| `LuaThreads` | the pool of script coroutines, the sleepers, `Lua::Update`, abilities and the player's cancel; implements `Coroutines` |
| `GameLifecycle` | a game's start, stop and events on three threads, composed with the scheduler and the server's task queue, up to the application's exit; implements `ScriptEvents`, and uses the scheduler as a `TaskQueue` |
| `Accounts` | account files, `User` objects, the table of logged-in users and the sessions that hold them |
| `BlazeClient` | Blaze connections: TCP records, the read buffer, requests, answers, and the one io thread; implements `SerialCalls` |
| `MC...` | constants, symmetry and bounds of each for TLC |
| `SchedulerProofs`, `GameObjectsProofs`, `GameSessionsProofs`, `HeroReplicationProofs`, `ObjectEffectsProofs`, `LuaThreadsProofs`, `GameLifecycleProofs` | theorems about the module of that name |
| `BlazeProofs` | theorems about `BlazeClient` and `Accounts`, the two modules of the io thread |

How they fit together.  `GameLifecycle` takes the scheduler as its locked
sections, which `Scheduler` opens; `TaskQueue` is the contract between the two,
as it is proved that `Scheduler` implements it and that `GameLifecycle` uses it
in no other way.  `GameObjects`, `GameSessions`,
`HeroReplication`, `ObjectEffects` and `LuaThreads` look at the one thread of a
running game, each at a different part of its state: which objects exist, who
plays, what heroes are like, what is attached to an object, and what scripts do.
Where they touch, one has in detail what another leaves open: scripts are
arbitrary in all but `LuaThreads`, objects are just there in all but
`GameObjects`.  `Accounts` and `BlazeClient` are the io thread.

A definition whose name is another's with a suffix (`Top_Latest`,
`MarkForDeletion_FlagFirst`) is that definition with a plausible mistake.  None
occurs in a specification.  `PROJECT.json` pairs each checked property with one
of them that makes TLC find the property violated.

### Scheduler

Each critical section under `mLock` is one action.  What the code does outside
the lock is a step of its own:

* the worker's test of `mState` (`CheckState`, line 9), apart from the lock and
  wait that follow it (`LockAndWait`, 12-17);
* `Shutdown`'s store (`ShutdownStore`, 84), its drain (85-93), its
  notification (94) and its join (96-98);
* `AddTask`'s notification (`AddNotify`, 65-67), and its last read of the
  task's id (`ReturnId`, 69), which the worker may have deleted by then: the
  read then yields any member of `Garbage`;
* the callback and the deletion of the task (`FinishTask`).

The wait returns by `Timeout`, by a notification or by `SpuriousWakeup`.  A
notified wait that gets the lock back after its deadline may report a timeout
(`TimedOut`), as implementations of `wait_until` do.  `top()` of an empty queue
is undefined behaviour: the worker's program counter becomes `"undefined"` and
the worker takes no further step.

A task is a record; `by` and `seq` play the part of its address.  `taskId` is a
counter per adding thread, as the `static thread_local` of the code is, and
skips 0 when it wraps.  `handles` are the pairs (task, id) that callers learn,
from `AddTask`'s result or the callback's argument; `CancelTask` is called with
any of them, any number of times, from any thread.

`NeverEarly`, `NoMissedDeadline` and `ShutdownIsFinal` hold without conditions.  `CancelledNeverRuns` and `UncancelledIsKept` except tasks
whose id *clashed*: ids are counted per thread but kept in one set, so two
games' tasks may share an id, and the code then loses or revives one of them.
The exception is as narrow as we could make it: another task was given the same
id, or a caller believes another task has it.  With one adding thread nothing
clashes (`OneAdderNoClash`), and the scheduler is a timer service.

`ShutdownReturns` speaks of shutdowns that begin while the worker runs a task,
is about to test `mState`, or sleeps without a deadline.  Two windows are left
by the code and excepted: a worker that has tested `mState` and not yet locked
sleeps through the one notification, and one whose deadline passes while the
queue is being emptied pops an empty queue.

### GameObjects

One thread runs packet handlers, posted tasks and the update, so a handler is
one action.  `ObjectManager::Update` is taken apart because scripts run inside
its loop: `BeginUpdate` (octree, start of the loop), `BeginVisit`/`EndVisit`
(one `OnTick` and the `SendObjectUpdate` after it), with the `Script` actions
enabled in between, and `EndUpdate` (the deletion queue).  An insertion into
the iterated `mActiveObjects` may rehash it; after it the loop visits any
subset of the set's elements (`Rehash`).

| TLA+ | code |
|---|---|
| `mObjects`, `mActiveObjects`, `mMarkedObjects`, `mOpenObjectIds`, `sNextId` | the fields of `ObjectManager` of these names |
| `marked`, `created` | objects whose `mFlags` hold `MarkedForDeletion`, `Created` |
| `octree`, `octQueue` | the objects in the tree's nodes; `OctTree::mQueue` |
| `mClients`, `hasPlayer`, `gameState`, `heroes` | `Server::mClients`; `Client::mPlayer`, `mGameState`; `Player::mCharacterObjects` |
| `told`, `joined`, `awards` | history: what was sent, to whom `OnPlayerStart` sent the world, who got catalysts |

Objects are numbered in the order they are made, which stands for their
addresses; `ident[o]` is the id an object bears.  A deleted object still
exists (players and scripts hold shared pointers), so scripts may mark it again
and heroes may be sent again.

What is abstracted:

* a noun is one of four kinds: catalysts, loot, heroes, the rest; positions,
  attributes and combat are left out, and which data bits of an object are set
  after its tick (whether it needs an update) is arbitrary;
* scripts are not modelled; any object may be created, dropped or marked
  whenever Lua can run.  So what holds, holds for every script;
* `LoadLevel` of a game succeeds always or never; the model has it succeed.  In
  the other case nothing is ever sent;
* a squad is full and its creatures are the user's (`SquadSize` objects);
* the octree is what its nodes *may* hold: the code drops objects outside the
  root's region;
* `gameState` is `Client::mGameState` with every state other than `PreDungeon`
  and `Dungeon` as `"lobby"` (`Spaceship` and `ChainVoting` are the ones
  reached; both accept `PreDungeon`);
* `told` is what the server has sent.  Messages are sent unreliably and the code
  does not resend (`HeroReplication` has the losses);
* a player's client is the one that said Hello.  `BeamOut` and the pickups look
  it up by an id that may clash (`GameSessions` has the ids);
* the chat command that drops catalysts uses the first client in the table, the
  model any client with heroes.

### GameLifecycle

| TLA+ | code |
|---|---|
| `BeginStart`, `StopCancel`, `StopServer`, `Join`, `Reset`, `Construct`, `PostInit` | `Instance::Start`, which is `Stop` and then a new object manager, Lua state, server and thread; one action for each step that another thread may come between |
| `ChatCommand`, `Exit`, `Destroy` | `MessagingComponent`'s `!` commands, `Application::OnExit`, `~Instance` |
| `Loop`, `RunTask`, `EndTask`, `Unlock`, `EndUpdate` | the server thread's loop (`RakNet/Server.cpp` 166-216); the lock is held from `Loop` to `Unlock` |
| `AddEvent`, `NoteEvent`, `StopEvent` | the scripts' event functions and `Instance::AddTask`, `CancelEvent`; the id is inserted into `mEvents` after the scheduler has the task |
| `Pop`, `ReadServer`, `PostTask` | the scheduler's thread: pop and test of the id, then the callback, which reads `mServer` and takes that server's lock |

One game is modelled.  Games share the scheduler and its set of ids, and each
game's thread counts from 1, so what a second run does to the events of a first
one with its ids, another game's tasks do as well: they may take an id of this
game, which loses an event, or revive one that was withdrawn.  `WithdrawnIsSilent`,
`NothingLost` and `SafeUnlessStopped` hold as far as no other game's task has an id
of this one's; the ids of all games together are `Scheduler`'s.

What two threads do to shared state without a lock is taken as what can go wrong
with it: `broken` is the first undefined behaviour met (a null server, a freed
one, a Lua state that another thread is in or that is closed, `mEvents` changed
under `Stop`'s loop, a scheduler that is gone), and nothing is said after it.
`SafeUnlessStopped` says when this cannot happen.  `WithdrawnIsSilent` and
`NothingLost` except events whose id a later run used again, as the code has one
counter per thread and a new thread per run.

### GameSessions

A handler is an action: `NewConnection`, `RemoveClient`, `Hello`,
`HelloNobody` (a Hello that names nobody who is logged in), `PrepareGameStart`,
`StatusUpdate`, `Loaded`, `BeamOut`, `SwapCharacter`, `DebugPing`, the drags
`DropCatalyst` and `MoveCatalyst`, `PickupCatalyst`; and `NewCatalyst`,
`GameUpdate`, `ClientTask` (a posted task that takes the first client) are what
the server does by itself.  `RemovePlayer` is the lobby's, from the io thread;
it is a step between two handlers here, and its race with the game's thread in
`mPlayers` is left out.  Variables are the fields of the same names.
`mUpdateBits` is the set of Players with a bit set; `stale[a]` is history: the
Players whose last change client `a` was not sent since it connected.
`StateSet` is `SetGameState` with its table of valid changes.  Where the code
finds a client by id, the model takes any client with that id.

A Player lives while the game or a client refers to it.  `Client::SetUser`
(`RakNet/Client.cpp` 124-127) removes the user's Player from the game and makes a
new one, so a Hello that is repeated, by the same client or another one, leaves
the old Player with the client that still has it, or with nobody.  `Gone` is who
nobody refers to any more: his grid goes with him (`Without`), and the catalysts
in it are `lost`.  The same happens when the last client leaves whose Player is
no longer the game's.

A drag may name any slot.  `GetCatalyst` tests `size() < index`: in place of slot
`NSlots` it reads the flags that follow the grid in a `Player` (`Player.h`), which
are all clear, or are taken for a catalyst that nobody made (`Forged`); slots
further out read as empty.  `SetCatalyst` stores nothing beyond the grid, so a
move that names such a slot loses a catalyst (`Spilled`), and one from `NSlots`
puts a forged one into the grid, which counts as made from then on.

### HeroReplication

`Script` is any call of `TakeDamage`, `Heal` or `SetAttributeValue`, between the
visits of an update (`BeginUpdate`, `Visit`, `FinishUpdate`) or outside of one;
`OnPlayerStart`, `SwapCharacter`, `Connect`, `Disconnect` are the handlers.
`flags`, `mData`, `mDataBits`, `mErasedData`, `collisionBit` are the object's
and its attributes' own fields; `record` is `Player::mCharacterData`.  A message
to a client may be lost (`Losable`): `Server::Send` sends
`UNRELIABLE_WITH_ACK_RECEIPT` and the receipt of a loss is dropped.  `missed`
and `benched` are history: which last packets were lost, whose last health went
out without a copy to the record.  A client is taken to apply what it gets to an
object it knows; this is external.  Health and attributes are small numbers;
damage formulas are any number.  There is one Player, the owner's: the owner's
client may leave and the other come and go, but another Hello of the owner makes a
new Player with heroes and records of its own, of which this module says nothing
(`GameSessions` has the replacement).

### ObjectEffects

`AddEffect`, `Notify` (`Game.Notify` and `Player.Notify`), `RemoveEffect`,
`RemoveEffectIndex`, `AddCooldown`, `RemoveCooldown` are the functions scripts
call; `Advance` is the game's clock.  `mIndexByEffect`, `mOpenIndexes`,
`mUsedIndexes` are `EffectList`'s; `sent` is the last `CooldownUpdate`.

The functions also build ServerEvents that name an effect's slot, but no client is
told of an effect: `DBG_SEND_SERVER_EVENT` is `false` (`RakNet/Server.cpp` 78), and
`Server::SendServerEvent` returns at once (1885).  So clients are no part of the
module, and that `Object::RemoveEffect` returns the slot as a `bool` (`Object.cpp`
1100), which would put slot 1 into every such event, has no effect in this build.
`DBG_SEND_LOOT_UPDATE` (81) is `false` as well, and no property is about what it
stops; the other switches there are `true`.

### LuaThreads

A thread is named in the order of creation, a `lua_State` is an address that may
be given out again when no thread holds it.  `CallCoroutine` and `Tick` start a
script on a thread of the pool or a new one; the script on top of `stack` may
start another, `Sleep`, `Finish` or `Fail`; `BeginUpdate`, `Resume`, `SleepOn`,
`Reap`, `Stray`, `EndUpdate` are `Lua::Update`'s walk through the sleepers,
which an insertion may put in another order; `CancelAction` is the packet that
stops an object's script; `Close` is `~Lua`.  `broken` is undefined behaviour,
or a state the model does not follow further (a function that is run once more,
a thread given out twice).

### Accounts

A `User` object is a name that is free when neither the table nor a session
holds it.  `Register`, `RegisterFails` (an exception after the file is
written), `Attach` (a login that finds the User in the table), `Login` (one that
reads the file), `Disconnect`, `Logout`, `UnlockUpgrade`, `UnlockCreature`,
`UpdateSquad` are the handlers of `AuthComponent` and `API.cpp`; `Restart` ends
the application, which saves nobody.  `SavedAndRead` is what the XML keeps of an
account.  `behind` is history: Users whose file another User wrote since they
last read or wrote it.  DNA is a number modulo `Wrap`.

### BlazeClient

A request is its header's two pieces that matter and the pieces of its body; a
TLS record is a run of pieces, known by where it ends.  `HandleRead` is `handle_read` up to its
writes, `Write` one blocking write, `FinishRead` the next `async_read_some`;
`HandlerThrows` an exception that ends `Application::Run`; `Accept`,
`AcceptFails`, `Handshake`, `Drop` are the completion handlers.  The peers
(`Send`, `Stall`, `Resume`, `HangUp`) are external: they send, stop reading and
hang up as they like.  `mReadBuffer` keeps what earlier reads left behind the
end of a short one.

`parse_packets` takes whatever is at the start of a read for a header (191-213).
Where that is a part of a body, or is mixed from two requests, the command
(`Commands`) is none that is known, or one that nobody sent (`Stray`), which then
runs; and the id under which it is answered (`MessageIds`) may be any that the
body's bytes make (`BodyIds`).

A handler answers once or not at all.  `Silent` requests are never answered
(Logout, FetchClientConfig, unknown commands); `Prompt` ones always are, if they
were read whole (Ping, PreAuth, Login: their handlers do not return without a
reply); all others need a user or a game that an earlier request has set, and
may return before (`Answers`).  Whether they find it depends on what the earlier
requests did, which is not kept here, so both happen.  A handler that gets a
body that is not its own may answer, return or throw; a parse of such a body that
does not end (`Blaze/TDF.cpp` 116-121, 249: a value cut at the end of the buffer)
is taken together with the exceptions, as the io thread serves nobody either way.

Not modelled: what a stray command does to its user or a game, and notifications
that a handler sends besides its answer.

## 3. The runs

| run | instance | shows | states |
|---|---|---|---|
| `sched_two` | 2 threads, 2 adds each, ids 1..2 (so counters wrap and clash), delays 1 and 2, clock to 2, any garbage, symmetric threads | `NeverEarly`, `NoMissedDeadline`, `CancelledNeverRuns`, `UncancelledIsKept`, `ShutdownIsFinal` | 1.7 million |
| `sched_one` | 1 thread, 3 adds, 3 ids, clock to 4, no garbage, fair | the refinement `ImplementsTimerService`; `TaskSettles`, `ShutdownReturns` | 316 thousand |
| `objects_two` | 2 clients and 2 objects, or 1 client and 3 objects, level of 1, squads of 1, drops of 2, fair | `ManagerSound` (`TablesAgree`, `IdsAccounted`, `QueueExact`), `OctreeIsLive`, `NoGhosts`, `AwardedOnce`, the refinement `NamesObjects`, `MarkedIsDeleted` | 1.4 million |
| `join` | 2 clients, empty squads, 2 objects | **violated**: `JoinedKnowWorld` | |
| `crash` | 2 clients, 2 objects | **violated**: `NoCrash` | |
| `lifecycle` | 2 starts, 2 events, 1 chat command, fair | `WithdrawnIsSilent`, `NothingLost`, `SafeUnlessStopped`, `StopReturns`, `FiredIsCalled` | 44 thousand |
| `lua_threads` | 1 object, 3 `lua_State`s, 3 scripts, a pool limit of 1, fair | `OneScriptPerObject`, `PoolIsExclusive`, `SleepersAreKnown`, `SoundUnlessCancelled`, `SleeperWakes` | 178 thousand |
| `sessions` | 2 addresses, 2 users, 2 Players, 2 catalysts, grids of 2 slots, symmetric | `CatalystsConserved`, `NoLostUpdate`, `OwnClient`, `DungeonHasSquad` | 846 thousand |
| `accounts` | 2 accounts, 2 sessions, 2 User objects, 2 upgrades, symmetric | `LoggedInSeesDisk`, `AccountsSound` | 400 thousand |
| `heroes` | 2 heroes, 2 clients, 4 operations, 1 lost packet | `StaleOnlyIfMissed`, `RecordStaleOnlyIfBenched`, `AttributesSound` | 1.0 million |
| `effects` | 2 effects, 3 slots, 1 ability, durations 1 and 2, clock to 3 | `SlotsSound`, `CooldownsAgree`, `CoolsFromNow` | 5 thousand |
| `blaze` | 2 connections, one with a request of 3 pieces that is always answered and one of 2 that may be, the other with one that is not; a stray command, a buffer of 4 pieces, 1 record on the wire of each, fair | `SoundUnlessShort`, `LostOnlyIfDisturbed`, `EverythingIsRead` | 495 thousand |

The refinements of `TaskQueue`, `ScriptEvents`, `Coroutines`, `SerialCalls` and
`CatalystTrade` are proved (section 4) and are no properties of these runs; TLC
found no error in them on instances like these.

All finish within three minutes with two workers.

Bounds, and why they are enough to see the interesting cases.

* `Scheduler`: two threads with two ids each let every pair of tasks share an
  id, in the queue at once or one after the other; a counter that has wrapped
  repeats an id of its own thread.  Two delays let a later task become the
  earliest.  A clock of two or more ticks lets the deadline pass during every
  unlocked window.
* `GameObjects`: with three objects an id is given, taken back and given again
  while a third object lives, in the update loop as well; what two clients are
  told and given of the same object needs two clients and two objects.  Both in
  one instance are too many states, so the constraint `TwoOrThree` lets the
  third object be made only while nothing is left of a second client; no step
  of an update leaves it, so that it cuts no obligation of `MarkedIsDeleted`.
  `SquadSize` (3 in the code), `DropCount` (4) and `LevelObjects` are smaller
  than in the code; what several `Create` calls in a row do is visible from two.
* `GameLifecycle`: a second start meets what the first left in the scheduler and
  in flight, and gives the second run's event the first run's id.
* `LuaThreads`: with three scripts one sleeps, one starts another and a thread
  is used again; a limit of one (256 in the code) is passed by two threads.
* `GameSessions`: one client can take the other's id, a Player can be replaced
  with catalysts in his grid, and both players want the same catalyst.  Two slots
  (9) are one that is dealt and one that is not; drags name two slots more.
  What the exceptions of the properties are about (a lost catalyst, a repeated
  Hello, a report, a client that leaves before a later one) happens twice at most
  in a state that goes on (`TwoExceptions`); the invariants are checked where
  a third one leads, too, and the proofs have no such bound.
* `HeroReplication`: the deployed hero and another; the owner's client and
  another; a packet of a change is lost and the next one, or the delete, is not.
* `ObjectEffects`: an effect that is added twice, another one, and a list that
  is full (255 slots in the code); a cooldown ends, is extended and begins anew
  within three ticks.
* `Accounts`: two sessions hold two Users of one account while another account
  is logged in; the dear upgrade can never be paid, the cheap one once.
* `BlazeClient`: records that hold part of a request, one, or parts of two; a
  record that ends inside a header; a read that begins in a body; two peers of
  which one blocks the other.  One record waits on a connection's wire at a time
  (`MaxRecords`): a read takes no more than one, so a second would only wait.
* The properties are about one or two tasks, objects, clients or slots each.
  Where there is a proof, it removes the bounds.

Fairness.

* `Scheduler`: time passes; the worker's own steps, the rest of a started
  `AddTask` and of a started `Shutdown` are weakly fair, since these are running
  threads that no lock keeps out for ever; `Timeout` is strongly fair, because
  notifications and spurious wakeups may interrupt a wait but not for ever at
  the instant its deadline is noticed.  Nobody is required to add, cancel or
  shut down.
* `GameObjects`: the steps of the update are weakly fair, because the server's
  thread calls `Instance::Update` in a loop and a tick returns; handlers and
  scripts are not fair.  A crash ends the game and its obligations.
* `GameLifecycle`: the threads' own steps are weakly fair; whoever waits for
  `mTaskMutex` (`PostInit`, `PostTask`) is strongly fair, since the game's
  thread drops the lock in every turn of its loop for an update and a sleep.
  Start, exit, scripts and the moment an event is popped are not fair.
* `LuaThreads`: the game's loop calls `Lua::Update` (weak); a script leaves the
  stack (weak: a script that never returns hangs the game's thread); `Resume` is
  strongly fair: a condition that is tried again and again holds in the end.
* `BlazeClient`: the io thread takes up every handler that is due and goes on
  with the one it is in; strong, because handlers of other connections come in
  between.  `EverythingIsRead` supposes that no peer stays stalled for ever, or
  hangs up; without it one peer stops all others, as the code writes with calls
  that block.

`CHECK_DEADLOCK FALSE` is set where the application exits, a game crashes or is
closed, undefined behaviour ends what can be said, or all connections have
ended.

### The two violations

* `join`: `OnPlayerStart` announces "Create all existing objects ... Create
  object in client" (`Game/Instance.cpp:403-405`), and `SendObjectCreate`
  returns early for objects flagged as created (897).  The flag is the
  object's, not the client's: a player who enters a running game is not told of
  what the others already see.
* `crash`: `SendObjectUpdate` (924-934) dereferences the player of every
  connected client; a client has none until its Hello names a user
  (`RakNet/Server.cpp:603`).

### What the exceptions of the properties say

Several properties hold except after a named kind of event, which a history
variable records.  Each exception is a behaviour of the code a maintainer may
want to know of:

* ids of tasks clash between games (`Scheduler`) and between runs of one game
  (`GameLifecycle`): the event of another game or run is lost or comes back;
* `Stop`, `Start` and the application's exit race with the scheduler's thread
  and with scripts (`SafeUnlessStopped`);
* `CancelAction` leaves a thread registered under the address of its old
  `lua_State`; after it, or beyond the limit of the pool, a thread may be given
  out twice or used after it is freed (`PoolIsExclusive`,
  `SoundUnlessCancelled`);
* ids of clients clash after one has left (`OwnClient`); a Hello that is
  repeated leaves a client in the dungeon with a Player without squad
  (`DungeonHasSquad`); catalysts are lost with the grid of a Player that a Hello
  replaces or `RemovePlayer` takes out once no client has it either, by a drag
  beyond the grid and by a Hello for nobody, which deals over those that are
  there, and a drag from slot 9 makes one of other bytes (`CatalystsConserved`); a status report resets the bits of its
  player for everybody, and the other clients miss the change (`NoLostUpdate`);
* a lost packet leaves a client with an old state until the next change
  (`StaleOnlyIfMissed`); the record of a hero who is not deployed stays behind
  (`RecordStaleOnlyIfBenched`); an attribute set to 0 before it had a value
  makes `SetValue` erase past the end of a list (`AttributesSound`);
* sessions that keep a User after another one logged out may save it over a
  newer one (`LoggedInSeesDisk` says that at least the next login reads it);
* requests that share a read, or are cut, may be lost (`LostOnlyIfDisturbed`);
  the rest of one that is cut may run as a command that nobody sent and be
  answered under any id, and a read that ends inside a header may run an old
  request again (`SoundUnlessShort`);
* `Shutdown` may be called while the worker is about to wait, or its wait ends
  while the queue is emptied: it then never returns, or the worker takes the top
  of an empty queue (`ShutdownReturns`, `ShutdownIsFinal`);
* an account whose registration stopped half way stays on file, with nothing
  (`AccountsSound`).

## 4. The proofs

Each theorem holds for every value of the constants that satisfies the module's
named assumption: bounds are naturals, sets that are counted are finite, and a
few values are distinct.  `BlazeClient` also assumes what its input stream is: the
two pieces of a request's header lie side by side, headers come in the order of
the requests' numbers, the read buffer holds a header, ids are naturals, and the
stray command is none of the peer's.  There are no other formal assumptions.  What
the theorems say of the code rests, besides, on what the modules leave out
(sections 2 and 5); the choices that matter most are that handlers of
one thread are one step, that one game is alone with its ids in `GameLifecycle`,
that a client applies a message to what it names (`HeroReplication`), and that
the requests called `Prompt` are those whose handlers always answer.

`SchedulerProofs`.  `TypeCorrect` first; then `IInv`, the conjunction of the
safety properties with what makes them inductive: a queued task's id is live or
was cancelled or clashed; the worker's deadline is not before the top's unless a
notification is under way; the program counters of `AddTask`, the worker and
`Shutdown` fix which tasks are queued, held or deleted.  One lemma per group of
actions shows that the steps keep it.  `SchedulerImplementsTimerService` maps
each step to a step of `TimerService` or to a stutter under `[]NoClash`, and
`OneAdderNoClash` discharges the premise for one adding thread
(`OneAdderImplementsTimerService`).  `SchedulerImplementsTaskQueue` needs no
premise: with clashing ids, wrapped counters and any garbage the scheduler is a
queue with one lock, in which a task is popped by its id's fate.

`GameObjectsProofs`.  `IdInv` ties the id table, the active set, the open ids,
the counter and the deletion queue together: the parts of `ManagerSound` are
each inductive only with the others (a deletion keeps the ids apart because the
queue is exact; the queue is exact because flagged objects stay active until the
update).  Lemmas say what a row of `Create` calls and the end of an update do to
ids.  On `IdInv` rest `GameManagerSound`, `GameNamesObjects` (the refinement of
`ObjectNames`), `GameNoGhosts` (with the clients' views and where heroes come
from), `GameOctreeIsLive` (with the loop's position), `GameAwardedOnce` (an
awarded catalyst is flagged, and a flagged one cannot be taken) and
`GameTypeCorrect`.

`GameSessionsProofs`.  `Absent` (who is not connected is behind with nothing)
makes `NoLostUpdate` inductive (`UpdatesAreDue`); `Numbered` (ids are distinct
and below the number of clients, and a player's index is its client's id, until
somebody leaves) gives `FindsOwnClient`; `Grids` says of every catalyst that it
is in one slot of one Player or in the world, or in neither and lost, from which
`GridsConserve` counts its places (`CatalystsOnce`).  A Player that goes takes the
catalysts of one grid and no others (`GoneFacts`: grids are disjoint); a move of
two slots, one of them beyond the grid perhaps, is an exchange (`ExchangedKeeps`)
or a replacement by a new or no catalyst (`ReplacedKeeps`).  On `Grids` rests
`CatalystsAreTraded`, too: each handler is a step of `CatalystTrade` or a stutter,
where Hellos deal and a Player's end wastes what he held (`HelloDeals`,
`GoneDeals`).
`DungeonNeedsSquad` is inductive with the types.

`HeroReplicationProofs`.  `StaleOnlyIfMissed` needs `Uncreated` (before its
creation a hero has everything flagged, so the first message is followed by the
whole state) and `Entries` (what is neither an entry nor listed as erased is 0
in every copy, so that a packet of attributes makes a copy exact, although
`ResetReflectionBits` is never called).  `CopiesFollow`, `RecordFollows` and
`ErasesWhatItListed` follow for every number of clients, heroes, script calls
and lost packets.  `FaithfulIfNothingIsLost` says that losses are the only reason
why a copy stays behind: with `MaxLosses = 0` nothing is ever missed, and a copy
differs from its hero only in what is flagged for the next update.

`ObjectEffectsProofs`.  Lemmas on sequences without repetition say what
`pop_back`, `push_back` and the swap with the last element do to the set of a
sequence's members.  With them `SlotsSound` is inductive (`SlotsHaveOneOwner`).
The cooldowns have an invariant of
their own (`ClientsCountAlike`), from which the step property `CoolsFromNow`
follows (`FullCooldown`).

`LuaThreadsProofs`.  Some of it holds in every game: what is on the stack runs
and is there once (`OnStack`), an object's script runs on the thread that the
object knows (`Owned`), from which `OneScriptPerObject` follows
(`TicksOneScript`), and `SleepersAreKnown` (`UpdateKnowsSleepers`).  The rest
supposes that nothing was cancelled: each thread is registered under its own
state (`Registration`), the sleepers wait, failed, or are the one that `Update`
has resumed, which is at the bottom of the stack (`Asleep`), and pooled threads
have ended (`InPool`).  Each needs the others: `Finish` pools nothing that is
asleep, because only the resumed thread is both running and among the sleepers.
With the count of registered states this gives `PoolHasOwners` and
`SoundWithoutCancels`.  `ScriptsAreCoroutines`, the refinement of `Coroutines`,
holds with cancels and beyond the limit as well, until something undefined is
met: it rests on `OwnScripts` (no two threads have run the same script last), as a
thread that sleeps or runs is then known by its script.

`GameLifecycleProofs`.  `IInv` follows an event on its way through three threads:
`Threads` (which states of the io thread, the game's thread and the server go
together), `Places` (an event is queued, or with the scheduler's thread, or posted,
or called), `PostedOnce` (no event is posted twice), `Ids` (a run's ids are the
numbers up to how many events it has), `Silent` (a withdrawn event is at most in
the scheduler's queue with an id that is dead, unless a later run's event took the
id) and `QueueIsLive` (a queued event's id lives, unless it was withdrawn or clashes
with another run's).  No part is inductive without the others.  From `IInv` follow
`WithdrawnAreSilent`, `EventsAreKept`, `CalledAtMostOnce`, which has no exception,
and `SafeGames`.  `TimerIsTaskQueue` maps the game's calls to steps of `TaskQueue`.
`PromiseIsKept` is the refinement of `ScriptEvents`, under `[]NoClash`; it adds that
the game does not run while its thread is joined and its parts are made anew
(`Stopped`), and that a dropped event is nowhere else (`DroppedAreGone`).  `OneGameKeepsItsPromise` discharges the premise
for a game that is started once, whose ids come from one thread's counter.

`BlazeProofs`.  `BlazeClient`: records lie one behind the other between what was
read and what was sent (`Ends`), so a read that is not short brings the first
pieces as they were sent: a request that runs is one whose header is there, and it
comes behind all that began before (`InOrder`); a stray command runs only in a read
that was not one whole request (`Strays`).  This is `RequestsAreOrdered`.  `Kept`
says of a request that was read whole and alone that it has run, and that its
answer, if its handler always answers, was sent or is still to be written, from
which `AnsweredIfUndisturbed` follows.  Both hold for any requests, any way these
are cut into records and reads, and any stray command.  `CallsAreSerial` refines
`SerialCalls`: a request is served when its handler begins, one answer at most is
due on all connections together, and a connection is no longer trusted from the
first read that ends inside a header or runs a stray command.

`Accounts`: `Linked` (the table holds a User under its own name, sessions
hold Users that exist) makes `LoggedInSeesDisk` inductive (`MapIsCurrent`);
`Funded` (an account whose registration stopped half way has nothing to spend)
is what `AccountsSound` lacks (`AccountsAddUp`).

Only model-checked: the liveness properties `TaskSettles`, `ShutdownReturns`,
`MarkedIsDeleted`, `StopReturns`, `FiredIsCalled`, `SleeperWakes` and
`EverythingIsRead` (TLAPS does not reason about `ENABLED`, and so not about
fairness); and the violations.  No proof uses induction over data, and there is
no recursive operator in the project.

## 5. Not modelled

* Parsing and encoding (assets, nouns, XML, JSON, TDF, RakNet records, HTTP):
  pure functions over data that TLC cannot enumerate.  Where a conversion
  matters to a property it is modelled by what it does (`SavedAndRead`,
  `ReadRequest`).
* Geometry (collision, locomotion, the octree's regions) and combat numbers:
  floating-point arithmetic.  Who is inside a trigger volume is geometry, too;
  its iterator error is listed as a hazard.
* Rooms and the registry of games: nothing is ever taken out of either
  (`Room::RemoveUser` and `GameManager::RemoveGame` have no callers), and every
  operation is one handler of the io thread.  `RemovePlayer`, which changes a
  running game from the io thread without a lock, is a step of `GameSessions`;
  the data race is listed as a hazard.
* `GameManager`'s and the other Blaze components' answers: records of constants.
  So are most of `API.cpp`'s.
* Handlers of packets that are logged and dropped, objectives, and
  `gameStateData`, a second copy of a client's state that is set whether or not
  `SetGameState` accepts the change; it is sent and decides nothing.
* ServerEvents: they are built and, in this build, never sent.
* TLS, RakNet's own threads and acknowledgements, Boost, sol2, pugixml:
  external; the modules say what they take them to do.

These are most of the code's lines: the modules cover about a tenth of them, the
part in which order and failure matter.

## 6. What is left

In order of weight.

1. A composition of `GameObjects` and `GameSessions`, in which a pickup finds its
   client by the id that may clash and its object by the id that may have been
   used again, so that `AwardedOnce` and `CatalystsConserved` become one.
2. `RemovePlayer` of the io thread in the middle of the game thread's use of
   `mPlayers`, as the pieces of a walk through the map.
3. The bonus patterns of the catalyst grid as functions against a reference
   definition.
