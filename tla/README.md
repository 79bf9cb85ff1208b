# A verification development for the MMORPG server

This directory holds TLA+ models of the server in `src/Server` (C++, Windows
IOCP), the TLC configurations that check them on small instances, and proofs,
checked by TLAPS, of the safety properties for every value of the constants.
Every definition is translated from the source; `PROJECT.json` names the lines
(`map`), the runs, the mutants that show a property can fail, the findings, the
hazards and the theorems.

## 1. The system

One process. `main` starts `ServerManager`, which spawns the monsters, binds the
`Listener` and starts `ThreadPool`: a number of IOCP worker threads and one timer
thread. A worker loops in `IOCPCore::ProcessIO`; it takes a completion (receive,
send, accept, or an event posted by the timer thread) and runs its handler to the
end. The timer thread runs `TaskQueue::ProcessTask`. Singletons (`MANAGER(X)`) are
the shared state; there is no global lock.

| Component | State it keeps | Operations | Hard behaviour | What makes it correct |
|---|---|---|---|---|
| Session, send path | `mSendQueue` (lock-free), `mSendRegistred` (atomic), `mSendContext`, `mConnected` | `RegistSend`, `PostSend`, `OnPostSend` | any worker and the timer thread send to any client; one overlapped send at a time; `WSASend` may fail | one user of the context; buffers outlive the send; order kept; nothing stuck |
| Session, receive path | `RecvBuffer`: array, two cursors | `PostRecv`, `OnPostRecv`, `ProcessData`, `Clean` | TCP cuts the stream anywhere; the array does not wrap | packets whole, once, in order; room for every receive; `memcpy` without overlap |
| Listener, SessionManager | accept context, session table and count | `ProcessAccept`, `AddSession`, `RemoveSession` | a client that leaves before it is registered | a departed session is not listed |
| Login and disconnection | `m_player`, `ServerObjectManager::m_serverObject`, sectors, database rows | `Process_CS_LOGIN_PACKET`, `PostDisconnect`, the sector moves of CS_MOVE, CS_TELEPORT and `Player::Revive` | both completion paths disconnect; two logins of one id, or of one session; a revival beside a departure; failing statements | nobody stays behind; the id denotes one object; state is saved |
| Monster life | `m_isActive`, `m_alive`, `m_state`, `hp` (separate atomics), its MOVE and REVIVE tasks | `WakeUp`, `Revive`, `SubHP`, MOVE and REVIVE events | every worker may wake, move, hit and revive one monster at once | one MOVE chain; whoever dies revives; unseen monsters sleep; woken ones move |
| TaskQueue | concurrent priority queue by due time | `AddTask`, `ProcessTask` | a task that is not due is popped and pushed back | no task is lost or doubled |
| IOCPCore, ThreadPool | completion port, the workers | `ProcessIO`, `EXIT` | a handler that leaves the loop takes its worker with it; a post to the port may fail | workers stay until EXIT, and each has one |
| Combat | players' `hp`, `exp`, `level`, potions, ATTACK and HEAL tasks | `Attack`, `SubHP`, `AddExp`, HEAL, pick-up | read-modify-write on separate atomics | one reward per kill, no healing of the dead, a potion once |
| View synchronisation | each player's `m_viewList` under `m_viewLock` | CS_MOVE, CS_TELEPORT, `Monster::Move`, login and logout loops | two players update each other's lists without a common lock | views are symmetric, the departed vanish from every list |
| Board, Sector | the grid of sectors, each a locked set of ids | `GetSector`, `CanSee`, neighbour search, `Add`, `Remove` | objects near an edge | whatever is in view is in a sector that is searched |
| Monster AI | `m_pos`, `m_target`, the monster's place in the sectors | `Move`, `DoAstar`, `SearchTarget`, `Trace`, `RandomMove`, the MOVE event | the worker with the MOVE event updates players' lists while their own workers do; a move without a sector; a search that takes players and potions alike | paths are shortest; the monster stays listed; screens show what is in sight; who is seen is awake; a hunter arrives |
| DBManager | one ODBC statement under `m_mutex` | `GetUserInfo`, `AddUserInfo`, `SetUserInfo` | a statement may fail | what was saved is what comes back |

Interactions: packet handlers and events call into any session (`RegistSend`), any
object (through `ServerObjectManager`) and any sector; tasks go through `TaskQueue`
to the port and back to a worker; `PostDisconnect` is called from a receive of zero
bytes, from `OnPostRecv`'s own checks and from a send of zero bytes.

## 2. Modules

One step of a model is one access to shared state by one thread, so that every
interleaving the threads have, the models have.

| Module | Models | Composed of |
|---|---|---|
| `SendChannel` | abstract: what `RegistSend` promises, a FIFO channel | |
| `Session` | `mConnected`, which the two paths of a session share | |
| `SessionSend` | `RegistSend`, `PostSend`, `OnPostSend` (Session.cpp 28-42, 93-106, 222-256) | extends `Session`, instantiates `SendChannel` |
| `PacketStream` | abstract: what the packet handlers are promised | |
| `SessionRecv`, `MCSessionRecv` | `PostRecv`, `OnPostRecv`, `ProcessData`, `RecvBuffer` | extends `Session`, instantiates `PacketStream` |
| `MonsterLife` | `Monster::WakeUp`, `Monster::Revive`, `SubHP`, the MOVE and REVIVE events and their tasks | |
| `PlayerSession`, `MCPlayerSession` | `ProcessAccept`, CS_LOGIN, `PostDisconnect`, the session table, the object table, the three database statements; the sector moves of CS_MOVE, CS_TELEPORT and `Player::Revive` | |
| `WorkerPool` | `ServerManager::ProcessIO`, the loop of `IOCPCore::ProcessIO`, `TaskQueue::ProcessTask`, EXIT and the joins, posts that fail | |
| `Combat`, `MCCombat` | `Monster::Attack`, `Player::Attack`, `SubHP`, `Player::Revive`, HEAL, potions | |
| `Tiles` | the size of the board and its tiles, pure | |
| `Board` | `Board::CanGo`, `GetSector`, `GetNeighborSectorList`, `CanSee`: pure | extends `Tiles` |
| `Paths` | walks on tiles: the reference definitions for path search, pure | |
| `ShortestPath` | abstract: what `DoAstar` promises `Trace` | extends `Paths` |
| `Astar` | `Monster::DoAstar`, `ReconstructPath` | extends `Tiles` and `Paths`, instantiates `ShortestPath` |
| `ViewSync`, `MCViewSync` | the sectors and view lists in CS_LOGIN, CS_MOVE, CS_TELEPORT, `Player::Revive`, `PostDisconnect` | extends `Board` |
| `MonsterWalk`, `MCMonsterWalk` | the MOVE event, `Monster::Move`, `Trace`, `RandomMove`, `SearchTarget`; the monster's side of CS_MOVE and `PostDisconnect`; potions that are dropped and picked up | extends `Board` and `Paths` |
| `Session_proof`, `MonsterLife_proof`, `PlayerSession_proof`, `WorkerPool_proof`, `Combat_proof`, `ViewSync_proof`, `Board_proof`, `MonsterWalk_proof` | theorems | each extends its module, `Session_proof` both `SessionSend` and `SessionRecv`, `Board_proof` both `Board` and `Astar`; `ViewSync_proof` and `MonsterWalk_proof` extend `Board_proof` for the lemmas about sectors |

**SessionSend.** A thread is at one of nine points of the three functions
(`pc`); `queue`, `registered`, `batch`, `owned` and `connected` are the members,
`kernel` the requests `WSASend` has taken and not completed, `wire` what it took.
`Push` and `Elect` are lines 35 and 37, `Drain` one `try_pop`, `Submit` and
`SubmitFails` the two results of `WSASend`, `Recheck` and `Release` the test and
the store of lines 102-103, kept apart because other threads run between them.
A thread that is elected after another has drained its packet sends no buffers:
whether Windows fails that request or completes it with zero bytes is left open.
The abstract backlog is what has been drained and not submitted, then the queue.
A packet leaves it for the wire or for `refused`, the history of what was in writes that
failed; the channel has no step for one that is dropped anywhere else.

**SessionRecv.** The bytes of the client are named by their position in its
stream, so that "the right bytes in the right order" can be said; `data` is the
array, and `Clean` moves them. What TCP delivers is `OnPostRecv(n)` for any `n`
that fits. `PostDisconnect` by the send path may come between any two steps.

**MonsterLife.** Each flag of the monster is read and written in a step of its
own, in the order of the source; a compare-exchange is one step. `SubHP` is the test of
`m_alive` alone, `HitSub` the `fetch_sub` after it. When a task is due is left open, which
admits every schedule the clock allows; its post is taken to succeed.

**PlayerSession.** A session has two threads, the one with its receive completion
and the one with a send completion; both may run `PostDisconnect`, in sequence or
at once. The object table tells a key that never was (`Absent`) from one with a
null pointer (`Gone`), because `insert` and `at` do. Dying of an uncaught
exception or a null dereference is the variable `down`. What a player achieves is
one number; `Restored` is what a login gets back of it, since `SetExp` has an empty
body: experience below the next level is lost at every login. Nothing keeps a client from a
second CS_LOGIN: it makes another `Player` object, `<<s, k>>` for the k-th of session `s`, which
takes the place of `m_player` and leaves the first where it is. `board` is what the sectors
list, pairs of an id and a sector. A move, a teleport and a revival write the position first
(`place`; `home` is `m_startPos`) and change the sectors in two later steps, from and to the
sectors they have read (`route`); revivals run on workers of their own (`hero`) and hold their
player whatever has become of its key. When a player dies is left open. `raced` is a history
variable: who was revived while he moved or left.

**WorkerPool.** What handlers do is reduced to what the pool can feel: a packet may
let a player leave, an event may kill one and so add his REVIVE task, and every event
goes back to the loop but a REVIVE that does not find its player, which returns from
it (`IOCPCore.cpp:229`). The port is a sequence, first in, first out. The main thread
posts one EXIT per worker, lowers `m_flag`, joins the workers and the timer thread,
and destroys the rest. `PostQueuedCompletionStatus` may fail: the main thread prints that
and goes on (`ServerManager.cpp:87-89`), which `unposted` counts; the timer thread does not
look, and the task is lost.

**Combat.** A worker with an ATTACK or REVIVE event is at a point `pc` of `SubHP` or
`Player::Revive`; a player's receiving worker is at a point `at` of CS_ATTACK or
CS_ITEM_PICK_UP; the worker with his one HEAL event has read his hit points
(`healing`) or not. `hp`, `m_alive` and `m_state` are read and written one at a time.
Where everybody stands is left open, so any player may be struck, may hit any monster
and may stand on any potion. The id of a potion is read from and written back to a
plain static counter, so two potions may have one id; `onBoard` is what the sectors
hold, `table` what the object table has for an id.

**Board** and **ViewSync.** Every player has three threads: his receiving worker, a
worker with his REVIVE event and the worker that disconnects him. A handler reads the
position (`from`), chooses or reads the new one (`to`), writes it, changes sectors,
copies its view list (`old`), looks through the sectors (`near`), and updates the lists
on both sides, an object at a time. The kinds of handler share these steps, as the code
repeats them; where one differs, the step says so. `IdTold` is the inner `player` of
CS_TELEPORT: it enters the other player's own id into his list. `quiet` and `calm`
remember which handlers ran undisturbed.

**Paths**, **ShortestPath** and **Astar.** `DoAstar` reads two positions and a map that
never changes; the rest is local. One step of `Astar` is one turn of its loop, or one
step of `ReconstructPath`. The priority queue is the set of nodes that wait; `Least` is
what `top` may return, which is any of the nodes with the least f, because `Node`
compares nothing else. A tile may wait in several nodes of different cost, as in the
code. `ShortestPath` says what the caller may rely on: an answer comes, and it is a
shortest path, or empty if there is none.

**MonsterWalk.** A worker with the monster's MOVE event (`mpc`) looks for a player who
sees it, and either lets it sleep or calls `Move`: `before` and `seen` are `oldViewList`
and `newViewList`, `target` is `m_target`, which may or may not still lock once its
player has left (`Locked`). Each of the four types chooses between `Trace`, `RandomMove`
and staying. `SearchTarget` takes the first player or potion it meets (`TakeTarget`):
`potion` says which of the potions lie about, `Graves` where other monsters will drop them
(`Drop`), and players pick them up (`PickUp`). `attack` is the set of those whom waiting ATTACK
tasks are to strike; one of them may reset `m_target` from another worker (`TakeAttack`).
`DoAstar` is one step here that yields the first step of any shortest path
(`FirstSteps`), as `Astar` shows it does. Each player has his own worker in CS_MOVE (`pc`) and may
disconnect or die at any moment. `view` is whose `m_viewList` holds the monster and
`shown` whose client has been sent ADD last, so list and screen can be told apart.
Three history variables name the circumstances under which the properties speak: `calm`
(no two workers were ever busy at once), `strayed` (`Trace` has led the monster over a
sector's edge, `Monster.cpp:505`) and `lapsed` (whom `Move` has told to forget the
monster while it deleted the wrong id from the list, `Monster.cpp:224`).

## 3. Runs

| Run | Bounds | What it shows |
|---|---|---|
| `session_send` | 3 threads, 3 packets, sends may fail | `OneSender`, `BuffersOutliveSend`, `FlagHasHolder`; the path refines `SendChannel`, in order, once, and lost only in a write that failed; an elected sender drains the queue |
| `session_recv` | 36 bytes, packets of 2 and 3, an array of 30 places | refines `PacketStream`; room, no overlap, no refusal, nothing complete waits |
| `monster_life` | 3 workers, 3 hits, 1 hit point | one MOVE chain, chain implies active, dead implies a REVIVE; the dead revive, the unseen sleep |
| `monster_life_stuck` | 2 workers, 1 hit | finding: a monster revived asleep is active without a task and never moves again |
| `player_session` | 2 sessions, 2 ids, 3 logins, 2 sectors, 1 worker with REVIVE events, statements may fail; habits, see below | nothing is left behind in table or sectors by a departure on the receive path, `at()` finds its key, one object per id, leavers are removed |
| `player_session_unsaved` | 2 sessions, 1 id, one sector, no statement fails | finding: a second login is not entered into the object table, so logout saves nothing |
| `player_session_ghost` | the same | finding: a disconnection by the send path during a login leaves a player whom nobody plays |
| `worker_pool` | 2 workers, 2 players, 1 socket completion at a time, posts may fail | every running worker has an EXIT unless its post failed, nothing is destroyed under a running thread, EXIT ends the server or hangs for a failed post only, posted events are dispatched until 2 players have left dead |
| `combat` | 2 players, 1 monster, 2 workers; three budgets of blows | one REVIVE per death, the living are not shown dead, potions are found, hit points within means, rewards mean kills; the dead revive |
| `view_sync` | 2 players, a board of 3 by 1, sectors of 2, sight of 1, 3 handlers beyond the logins | nobody is in no sector, an undisturbed handler leaves the exact view, handlers in sequence keep views symmetric and exact |
| `astar` | every map of 3 by 3 tiles, every start and destination | what is put together is a walk, settled tiles have their least cost, the search refines `ShortestPath` |
| `monster_walk` | 1 player, 1 potion, 1 monster of each type, a board of 4 by 2 with a wall, sectors of 2, sight of 2, search of 1, 2 handlers | the monster is always listed; list and screen follow the sight; who is seen is awake; a hunter comes to blows |

Why the bounds are enough to be worth running. In the send path two threads race
for the flag while a third one handles the completion, and three packets let one be
in the kernel, one in the batch and one in the queue. A receive stream of 36 bytes
runs past the end of a 30-place array with data left, so `Clean` moves something,
and lengths 2 and 3 make every split of header and body. Three hits on a monster
with one hit point give two deaths and a hit in between, and three workers let a
wake-up, a MOVE and a revival overlap. Two sessions on one id are the whole
conflict of a login; one of them may log in a second time, under an id without a row. The
`habit` of the clients keeps that run small: either the first player of one session walks,
teleports and revives and all departures are seen by receives, or nobody moves and sends may
find both sessions dead. Two dead players and two workers take no worker out of the pool, one,
or both, and the posts of one EXIT or of both may fail. In combat a budget of
three blows at one player gives a death, a blow inside the revival and a second death,
two players with two and one blows meet in the last hit and at the potions, and the
third budget lets a player strike while he is struck. HEAL takes a tenth from who has
less than no hit points, again and again; `Debt` ends that after two such heals. On a board of
three positions with sectors of two, players see each other within a sector and across its border, or not at
all, and the second sector is cut off; three handlers let a move, a death and a revival
of one player overlap, or a move, a teleport and a departure. A map of three by
three tiles has room for a wall with a way around it on either side, for a walled-off
target and for nodes that are improved while they wait. On the board of `monster_walk` the
wall stands across one of the two rows, so that the shortest path leads away from the target
first and over the edge between two sectors; sight reaches two tiles, so that one step of either
may bring the other into sight or out of it; a monster may go out of sight, come back,
fall asleep and be woken, and two handlers are a walk and another walk, a blow, a death, a
departure or a potion dropped: behind the wall, where an aggressive monster may go for it and
turn to the player afterwards, or the other way round. The proofs below remove the bounds for the safety
properties of every module.

`CHECK_DEADLOCK FALSE` stands where the system may stop: all packets sent, the
stream at its end, every session over, the server destroyed, the path found, the blows and the
handlers used up. A monster never stops, and its runs check deadlock. `view_sync` uses the
symmetry of the two players; it checks no liveness.

The violation runs check one property each that a document or comment states and
the code does not keep; `findings` in `PROJECT.json` quotes them. They use no
failing system call and, except the ghost, no simultaneous clients.

Four more weaknesses follow from the models and have no run. A packet pushed between
`OnPostSend`'s empty test and its store (`Session.cpp:102`) is posted by nobody until
another `RegistSend`: `Recheck` and `Release` leave the gap, and `ElectedSenderDrains`
promises only what an elected sender does. And each player who dies and leaves before his
respawn costs a worker (`IOCPCore.cpp:229`); after as many as there are workers, events
stay in the port. `src/docs/server-flowchart.html:433` says without a condition that workers
dispatch them; `EventsAreDispatched` states the condition and shows it to be the only one, as
`EveryWorkerHasAnExit` and `ExitEndsServer` do for the posts of EXIT that fail. A revival that
overlaps a move or a departure may put an id back into a sector after `PostDisconnect` has taken
it out (`Player.cpp:143-151`, `Session.cpp:124`), and a second CS_LOGIN of one session leaves its
first player in table and sector (`PacketFunc.cpp:60`): `NothingLeftBehind` excepts these by name
(`raced`, `Replaced`) and nothing else on the receive path.

`TypeOK` is checked by `monster_walk`; it is proved for every module with a proof.

## 4. Fairness

* `SessionSend`: a worker that is inside the path goes on, and a completion of
  an outstanding send arrives: weak fairness on each thread's steps and on taking the
  completion. Callers of `RegistSend` and the client owe nothing.
* `SessionRecv`: weak fairness of the worker's steps; bytes may never come.
* `MonsterLife`: weak fairness of a worker's steps and of the timer thread. Strong
  fairness for taking a posted MOVE or REVIVE event: the port is first-in first-out
  and other completions only delay it, but no one worker is continuously idle.
* `PlayerSession`: weak fairness of the steps of `PostDisconnect`.
* `WorkerPool`: weak fairness of the timer thread, of each worker's handler, of taking
  a completion by some worker and of the shutdown once EXIT is typed; strong fairness of
  posting each queued task, since it falls due and the queue is ordered by due time. The
  network, the players and the console owe nothing, and any post may fail.
* `Combat`: weak fairness of a worker's steps inside a handler; strong fairness of
  taking a player's REVIVE event, as in `MonsterLife`.
* `Astar`: weak fairness of the loop, which one worker runs to its end.
* `MonsterWalk`: weak fairness of taking the MOVE task, which nobody else takes, and of the
  steps of the worker that has it, and of each ATTACK task. Players owe nothing.
  `HunterArrives` makes no further assumption: it speaks of a monster that from some moment on is in sight of a player who
  stands still and whom its type makes it follow.

## 5. What is proved

TLAPS checks, for every value of the constants that satisfies the named
assumptions:

* `Session_proof`, sending: type correctness, `OneSender`, `BuffersOutliveSend`,
  `FlagHasHolder`, and that the path implements `SendChannel`, `refused` included. `OneSender` is not
  inductive: the thread that raises a lowered flag must find the context unused.
  `LoweredMeansUnused` says so, and `BatchOnlyInUse` says that a context nobody fills
  and the kernel does not read is empty, which the refinement needs as well.
* `Session_proof`, receiving: type correctness, `RoomToReceive`, `CopyIsDisjoint`,
  `NeverRefused`, `NothingCompleteWaits` and the safety half of `PacketStream`
  (`PacketsInOrder`). The invariant: the bytes between the cursors are a contiguous
  piece of the stream that ends with the last byte taken, `ptr` lies between the
  cursors, and outside the loop less than one packet is left, from which the threshold
  in `Clean` leaves room. Assumed: a header is not empty, no packet is larger than
  the advertised buffer (65535 and one length byte in the source), and a client
  announces no packet shorter than its header.
* `Session_proof`, together: `SessionSpec` interleaves the two paths over the one
  `connected`, each module's "somebody else disconnects" being dropped. A step of one path
  is for the other a stutter or that disconnection, so the session implements both abstract
  specifications, and the invariants of both paths hold of it.
* `MonsterLife_proof`: type correctness, `OneMoveChain`, `ChainMeansActive`,
  `DeadHasRevive`. These are inductive together: an exchange that finds the monster
  inactive proves there is no chain, and only the holder of the chain deactivates it.
* `PlayerSession_proof`: type correctness, `NothingLeftBehind`, `EraseFindsKey`,
  `OneObjectPerId`, for any number of sessions, logins, ids, sectors and workers with REVIVE
  events, and for every habit. The invariant `Custody` has three parts.
  - `Settled` ties a session to the object table: a disconnection is that of a player the
    session has had (`Departing`); until the receiving thread closes it only the send path can
    have disconnected the session (`StillOpen`); the id of a player that has entered is a key
    (`Keyed`); an object in the table belongs to a session that has not yet taken it out
    (`Listed`).
  - `Walks` says what a move or a revival knows while it is under way: a player is not moved and
    revived at once (`Apart`), and `route` starts in the sector he was in and ends in the one he
    is in (`Moves`, `Revives`), unless he has raced.
  - Every id in a sector is one that some player `Holds` there: he is in the world and in that
    sector or about to be taken out of it by whoever moves him (`Lies`), or he is `Exempt`.
    Without `Walks` this is not inductive: a move takes the id out of the sector it has read, and
    that must be the one the id is in.
* `WorkerPool_proof`: type correctness, `QuietAtDestroy`, `EveryWorkerHasAnExit`, for
  any finite number of workers. The last follows from counting: an EXIT is taken from the
  port by exactly one worker, which stops running, and the number of EXITs in the port
  plus those still to be posted and those whose post failed never falls below the number of
  running workers (`ExitsLeft`). `Stopping` ties the joins to the main thread's progress.
* `Combat_proof`: type correctness, `OneRevivePerDeath`, `AliveIsNotShownDead`,
  `RewardMeansKill`, `PotionReachable`, `HPWithinMeans`. `OneRevivePerDeath` is inductive, and
  `AliveIsNotShownDead` is inductive relative to it: who is about to set the state DEAD
  holds the only REVIVE of a dead player. `RewardMeansKill` needs `KillComes`: a monster
  without hit points is dead or somebody is on his way to kill it, which `PaidIsDown`
  carries over to the monsters paid for. `PotionReachable` needs `Entered`: what is
  about to be entered into the table under a new id is in its sector already.
  For `HPWithinMeans` the invariant bounds a player's hit points by the potions he may have
  had (`HPWithinHad`): those gone from the table, and the one he is at, once he has its hit
  points (`Had`). The set only grows, and every potion he takes adds an element to it. A HEAL
  stores what it computed earlier, which is bounded by itself (`HealedWithinMeans`): it is only
  computed for who is below the maximum.
* `Board_proof`, about `Board`: whatever `CanSee` admits lies in a sector of `Neighbours`
  (`SeenIsNeighbour`), and `SectorOf` and `Around` only give sectors that exist
  (`SectorsExist`), for every size of board, sector and view. Both rest on the
  monotonicity of division.
* `ViewSync_proof`: type correctness, `NeverLost`, `QuietHandlerIsExact` and
  `ViewIsSight`, for any board, any number of players and any number of handlers.
  - `NeverLost` follows from `Custody`: a player
    who has begun his login is in some sector, or one of his threads is about to enter him
    into one, or he is being or has been disconnected (`Held`); a removal is always
    followed by an insertion of the same thread, so the last one to act leaves him listed.
  - `QuietHandlerIsExact` follows from `Views`. A handler that has not been disturbed is the
    only one that runs (`Alone`), so between two steps of it nothing it has read changes.
    `QuietRound` says what it has then established at each point: nearList holds whom it has
    seen in the sectors it has been through, up to those still to look at (`Search`), and the
    two view lists agree with it up to those still to meet or to drop (`LoginLists`,
    `OtherLists`). A login starts from nothing: until it has entered its player into the table
    nobody else has read his id (`Strangers`).
  - `ViewIsSight` follows from `Sights`, which adds what holds as long as handlers run one after
    the other and nobody teleports: who is not being handled is listed in the sector he stands
    in (`InPlace`) and sees whom he has in his list (`InSight`); a handler takes its player from
    the sector of his old position to that of his new one (`Places`), and whoever has him in his
    list is one of those it deals with (`Back`). `SeenIsNeighbour` then turns "in sight and
    listed around" into "in sight", and sight is mutual.
* `Board_proof`, about `Astar`: type correctness, `PathIsWalk`, and that an empty answer means that the
  target is walled off (`EmptyMeansWalledOff`), for every board and map. A scored tile may
  be expanded from an old node, so what is kept is an inequality: a node's cost is never
  below the score of its tile (`NodesAreScored`). With it every edge of `cameFrom` leads to a
  strictly lower score (`EdgesClimb`), so that following the edges makes no circle, and every
  scored tile but the start has one (`ScoredHasEdge`). A tile that waits no more has only
  scored neighbours (`ExpandedIsClosed`); when the queue is empty the scored tiles are the
  region without a way out.
* `Board_proof`, about the costs: `SettledIsLeast`, and that every answer is a shortest path, or
  empty when there is none (`AnswersAreShortest`, the safety half of `ImplementsShortestPath`),
  for every board and map.
  - The reference is `Reached`, a recursive function that maps the board round by round. What
    it computes is shown by minimal counterexample (`LeastNumber`, from the library's
    `WFMin`): the rounds exist, and after each the tiles are numbered by their distance
    (`IsDistanceMap`). That as many rounds as there are free tiles are enough is the pigeonhole
    principle (`ReachedIsClosed`).
  - `SettledIsLeast` is not inductive. `Optimal` adds that a score is the length of some way
    (`CostsAreReal`) and that a tile whose best node was expanded has offered its neighbours
    the way through it (`ClosedOffers`). From these, for every tile that can be reached, either it
    is settled at its distance or a node waits at its own distance whose f is no more than
    a way through that tile would take (`Frontier`): the heuristic drops by one at most in a step
    (`HeuristicStep`). So a node with the least f has its least cost (`PoppedIsBest`), unless a
    better one for its tile was found since. For the target that exception does not matter:
    `ReconstructPath` follows `cameFrom`, not the node (`TargetPoppedIsBest`).
  - A walk is no shorter than the distance of its end (`WalkIsNoShorter`), and the path is no
    longer than the target's score (`DoneIsShort`, from `PathIsWalk`).
* `MonsterWalk_proof`: type correctness, `MonsterListed`, `ShownIsSight` and `WatchedIsAwake`,
  for any board, any number of players, any ranges and any number of handlers, from the
  invariant `World`.
  - In every interleaving: the MOVE task waits or the worker runs, never both, and exactly while
    the monster is active (`Chain`); while the monster changes sectors it is in no list, or in
    that of the tile it is about to step on (`Whereabouts`); a player is in the list of his
    sector unless his own handler is changing it (`InPlace`).
  - When moves have followed one another (`Turns`): what a scan has found so far and what it has
    still to look at cover everyone in sight (`Lookout`, with `SightIsAround` from
    `SeenIsNeighbour`). At each point of its move the monster has brought some players up to
    date and not others; `Told` names those who should show it there, from `oldViewList` before
    the loops to who is in sight after them, and `Screens` says that everyone shows what he
    should, save the one who is just being told (`InHand`). `Round` is the same for a player's
    own handler, which meets a monster that stands still.
  - `FallAsleep` is only taken when `Lookout` has found nobody in sight, and whoever comes to see
    the monster wakes it in the same handler (`Awake`). Without `~strayed` this would be false:
    a player's handler finds the monster only where it is listed.

With these every invariant of the passing runs is a theorem, and so are the safety halves of
the three refinements (`SendChannel` promises nothing more). Only model-checked: every liveness property
(`ElectedSenderDrains`, `DeadRevives`, `AbandonedSleeps`, `LeaverIsRemoved`,
`ExitEndsServer`, `EventsAreDispatched`, `DeadPlayersRevive`, `HunterArrives`, the liveness
halves of `PacketStream` and `ShortestPath`), because the prover has no rule for fairness and
ENABLED, and the violations.

## 6. Assumptions and limits

* `concurrency::concurrent_queue` and the concurrent maps are linearizable; atomics
  are sequentially consistent, as their defaults are.
* Clients are well-formed in one respect: a packet is no shorter than its header.
* `m_player` is a plain `shared_ptr` that the two paths read and write without a
  lock. The models take its accesses as atomic: they show the wrong orders, not torn
  values.
* Only `WorkerPool` has posts to the port that fail. `MonsterLife`, `Combat` and `MonsterWalk`
  take the timer thread's posts to succeed: with one that fails (`TaskQueue.cpp:45-79`, the
  result is ignored) a MOVE chain ends or a REVIVE is lost, and their liveness properties with it.
* The stored procedures are not in the repository. `add_user_info` is taken to fail
  on an id that has a row; a failing query is the constant `DbMayFail`.
* In `PlayerSession` the two loops that tell neighbours about an arrival or a
  departure are left out; `ViewSync` has them, and leaves out disconnections during a login. A
  position is the sector it lies in. CS_TELEPORT's second reading of the position is one step with
  `SetPos`, and so are the two positions `SetPos(m_startPos)` touches. A teleport without a player
  dereferences `m_player` before it tests it (`PacketFunc.cpp:708-710`), which ends the process
  and is not modelled.
* Ids of potions start at 300'000 (`Item.cpp:8`), and ids of players are legal up to 500'000
  (`PacketFunc.cpp:25`). That a potion has a player's id is in no model.
* In `Combat` a monster dies once: its return is `MonsterLife`. A budget bounds the
  blows; REVIVE, HEAL and pick-ups are not bounded.
* In `ViewSync` a handler reads the view list and the position together, and an
  object's presence and both positions together. Other threads between these reads change
  only what ends up in the view lists, about which the properties speak when no other
  handler runs. Packets to the clients follow the changes of the lists and are left out,
  and with them the null session they may dereference.
* The ViewSync promise for a teleport is only one-sided (`IdTold`): the others do not
  learn of the teleporter. `src/docs/server-flowchart.html:440` says "View list
  differences produce add, move, remove packets."; the difference of the lists the code
  compares does, so the model records the fact in `QuietHandlerIsExact` and `ViewIsSight`
  by exempting teleports.
* In `MonsterWalk` there is one monster, which does not die (`MonsterLife`); its run has one
  player. An object is looked up and its position read in one step, and so are the two positions
  of `DoAstar`. Logins, teleports and revivals beside a monster repeat the loops of CS_MOVE and
  are left out; so is the data race on `m_target`, which `Player::Attack` sets without a lock while
  `Move` locks it. `SearchTarget` casts a potion to a player (`Monster.cpp:578-584` only excludes
  monsters); what `IsAlive` then reads is left open (`OrderAttack`). Dropping and picking up a
  potion are one step each, `Combat` has them in detail; who sees potions is in no model.
* What `MonsterWalk`'s properties exempt is what the code does not keep: after `Trace` has
  crossed a sector's edge the monster is listed where it does not stand, so players there
  may miss it and it may fall asleep in their sight (`strayed`); after it walked out of a
  player's sight its id is still in his list, so when he walks up to it no ADD is sent
  (`lapsed`); a player of `oldViewList` who leaves during the move is dereferenced as a null
  pointer (`LoseGone`); and when two handlers overlap either may act on a position the other has
  changed (`calm`).
* Not modelled: the Lua files and the handlers of `func.cpp` (dead code), the vendored
  headers, `Board::Make` (reads a file), the packets to clients other than ADD and REMOVE,
  the broadcasts of `Player::Attack` and `Monster::Attack`, `StaticObject`'s and the members
  of `Session`, `SessionManager`, `ThreadPool` and `ServerObjectManager` without a caller.

## 7. Plan

Done, in this order: the send path, the receive path, the monster's life, players'
sessions, the worker pool, combat, the board, the views of players, path search, the
monster among players. Next, most important first:

1. Proofs: an abstract specification of the monster's life (awake, asleep, dead) that
   `MonsterLife` implements, and the refinement.
2. Two players and a monster in one world, `MonsterWalk` composed with `ViewSync`: the state
   space calls for an abstraction of one of the two first.
3. An abstract specification of the view lists (a symmetric relation that follows the
   positions), which `ViewSync` implements as long as handlers run one after another.
