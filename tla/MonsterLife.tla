---------------------------- MODULE MonsterLife ----------------------------
(***************************************************************************)
(* The life of one monster: asleep until a player comes near, then kept    *)
(* moving by a chain of MOVE tasks, killed by players, brought back by a   *)
(* REVIVE task (Monster.cpp, MovingObject.cpp, TaskQueue.cpp, IOCPCore.cpp)*)
(*                                                                         *)
(* Worker threads run the operations; the timer thread moves tasks that    *)
(* are due from the TaskQueue to the completion port.  When a task is due  *)
(* is left open: any delay may pass between any two steps.  The monster's  *)
(* flags are atomics without a common lock, so one step here is one load,  *)
(* store, read-modify-write or task insertion.  A worker is                *)
(*   idle                                                                  *)
(*   wakeState, wakeAlive, wakeActive, wakeAdd     in Monster::WakeUp      *)
(*   moveAdd, sleep                                in a MOVE event         *)
(*   attack, hit, hitSub, hitRead, kill, killState, killAdd                *)
(*                         in Player::Attack and MovingObject::SubHP       *)
(*   reviveHP, reviveAlive, reviveActive, reviveState in Monster::Revive   *)
(*                                                                         *)
(* Where the monster walks, whom it attacks, the potion it leaves behind   *)
(* and what is sent to players is not represented here.  Monsters stay in  *)
(* the object table for ever, so the table look-ups of the events succeed. *)
(***************************************************************************)
EXTENDS Integers

CONSTANTS
    Workers,        \* the IOCP worker threads
    MaxHP,          \* hit points, in hits
    MaxHits         \* how many hits the monster ever takes (bounds the model)

ASSUME HitsAssumption == MaxHP \in Nat \ {0} /\ MaxHits \in Nat

VARIABLES
    isActive,       \* m_isActive
    alive,          \* m_alive
    dead,           \* m_state is DEAD (else IDLE)
    hp,             \* m_stat.hp
    near,           \* some player in game sees the monster
    queued,         \* tasks for this monster in TaskQueue, by type
    posted,         \* its events in the completion port, by type
    pc,             \* where each worker is
    hits            \* hits dealt so far

vars == <<isActive, alive, dead, hp, near, queued, posted, pc, hits>>

TaskTypes == {"MOVE", "REVIVE"}

Points == {"idle", "wakeState", "wakeAlive", "wakeActive", "wakeAdd", "moveAdd", "sleep",
           "attack", "hit", "hitSub", "hitRead", "kill", "killState", "killAdd",
           "reviveHP", "reviveAlive", "reviveActive", "reviveState"}

\* A monster as ServerManager::Init spawns it.
Init ==
    /\ isActive = FALSE
    /\ alive = TRUE
    /\ dead = FALSE
    /\ hp = MaxHP
    /\ near = FALSE
    /\ queued = [type \in TaskTypes |-> 0]
    /\ posted = [type \in TaskTypes |-> 0]
    /\ pc = [w \in Workers |-> "idle"]
    /\ hits = 0

Goto(w, from, to) == pc[w] = from /\ pc' = [pc EXCEPT ![w] = to]

AddTask(type) == queued' = [queued EXCEPT ![type] = @ + 1]

(***************************************************************************)
(* Players come and go; whoever logs in, moves, teleports or revives near  *)
(* the monster calls WakeUp.                                               *)
(***************************************************************************)
PlayersMove ==
    /\ near' = ~near
    /\ UNCHANGED <<isActive, alive, dead, hp, queued, posted, pc, hits>>

WakeUp(w) ==
    /\ near
    /\ Goto(w, "idle", "wakeState")
    /\ UNCHANGED <<isActive, alive, dead, hp, near, queued, posted, hits>>

WakeReadState(w) ==
    /\ Goto(w, "wakeState", IF dead THEN "idle" ELSE "wakeAlive")
    /\ UNCHANGED <<isActive, alive, dead, hp, near, queued, posted, hits>>

WakeReadAlive(w) ==
    /\ Goto(w, "wakeAlive", IF alive THEN "wakeActive" ELSE "idle")
    /\ UNCHANGED <<isActive, alive, dead, hp, near, queued, posted, hits>>

\* Mutation: a plain store; two wake-ups can both go on to add a task.
WakeStore(w) ==
    /\ Goto(w, "wakeActive", "wakeAdd")
    /\ isActive' = TRUE
    /\ UNCHANGED <<alive, dead, hp, near, queued, posted, hits>>

\* The load of m_isActive and the compare-exchange behind it: both give up
\* on an active monster, so the exchange stands for the two.
WakeExchange(w) ==
    /\ Goto(w, "wakeActive", IF isActive THEN "idle" ELSE "wakeAdd")
    /\ isActive' = TRUE
    /\ UNCHANGED <<alive, dead, hp, near, queued, posted, hits>>

WakeAdd(w) ==
    /\ Goto(w, "wakeAdd", "idle")
    /\ AddTask("MOVE")
    /\ UNCHANGED <<isActive, alive, dead, hp, near, posted, hits>>

(***************************************************************************)
(* The timer thread: TaskQueue::ProcessTask posts a task that is due.  The *)
(* post is taken to succeed here; WorkerPool has the one that fails.       *)
(***************************************************************************)
\* Mutation: the switch has no case for REVIVE, the popped task is dropped.
ProcessNoRevive(type) ==
    /\ queued[type] > 0
    /\ queued' = [queued EXCEPT ![type] = @ - 1]
    /\ posted' = [posted EXCEPT !["MOVE"] = @ + (IF type = "MOVE" THEN 1 ELSE 0)]
    /\ UNCHANGED <<isActive, alive, dead, hp, near, pc, hits>>

ProcessTask(type) ==
    /\ queued[type] > 0
    /\ queued' = [queued EXCEPT ![type] = @ - 1]
    /\ posted' = [posted EXCEPT ![type] = @ + 1]
    /\ UNCHANGED <<isActive, alive, dead, hp, near, pc, hits>>

(***************************************************************************)
(* EVENT_TYPE::MOVE in IOCPCore::ProcessIO.                                *)
(***************************************************************************)

\* Mutation: the chain goes on whether or not anybody looks.
MoveEventAlways(w) ==
    /\ posted["MOVE"] > 0
    /\ posted' = [posted EXCEPT !["MOVE"] = @ - 1]
    /\ Goto(w, "idle", "moveAdd")
    /\ UNCHANGED <<isActive, alive, dead, hp, near, queued, hits>>

\* keepAlive: is there a player who sees the monster?  If so it moves.
MoveEvent(w) ==
    /\ posted["MOVE"] > 0
    /\ posted' = [posted EXCEPT !["MOVE"] = @ - 1]
    /\ Goto(w, "idle", IF near THEN "moveAdd" ELSE "sleep")
    /\ UNCHANGED <<isActive, alive, dead, hp, near, queued, hits>>

MoveAdd(w) ==
    /\ Goto(w, "moveAdd", "idle")
    /\ AddTask("MOVE")
    /\ UNCHANGED <<isActive, alive, dead, hp, near, posted, hits>>

Sleep(w) ==
    /\ Goto(w, "sleep", "idle")
    /\ isActive' = FALSE
    /\ UNCHANGED <<alive, dead, hp, near, queued, posted, hits>>

(***************************************************************************)
(* Player::Attack: only a live, active monster is hit; then SubHP.         *)
(***************************************************************************)
Attack(w) ==
    /\ near
    /\ hits < MaxHits
    /\ alive
    /\ Goto(w, "idle", "attack")
    /\ hits' = hits + 1
    /\ UNCHANGED <<isActive, alive, dead, hp, near, queued, posted>>

AttackReadActive(w) ==
    /\ Goto(w, "attack", IF isActive THEN "hit" ELSE "idle")
    /\ UNCHANGED <<isActive, alive, dead, hp, near, queued, posted, hits>>

\* SubHP looks at m_alive again ...
SubHP(w) ==
    /\ Goto(w, "hit", IF alive THEN "hitSub" ELSE "idle")
    /\ UNCHANGED <<isActive, alive, dead, hp, near, queued, posted, hits>>

\* ... and subtracts, whatever m_alive has become.
HitSub(w) ==
    /\ Goto(w, "hitSub", "hitRead")
    /\ hp' = hp - 1
    /\ UNCHANGED <<isActive, alive, dead, near, queued, posted, hits>>

HitRead(w) ==
    /\ Goto(w, "hitRead", IF hp > 0 THEN "idle" ELSE "kill")
    /\ UNCHANGED <<isActive, alive, dead, hp, near, queued, posted, hits>>

\* Mutation: death makes the monster inactive while its MOVE task is pending.
KillDeactivates(w) ==
    /\ Goto(w, "kill", IF alive THEN "killState" ELSE "idle")
    /\ alive' = FALSE
    /\ isActive' = FALSE
    /\ UNCHANGED <<dead, hp, near, queued, posted, hits>>

\* The compare-exchange that only one of the killers wins.
Kill(w) ==
    /\ Goto(w, "kill", IF alive THEN "killState" ELSE "idle")
    /\ alive' = FALSE
    /\ UNCHANGED <<isActive, dead, hp, near, queued, posted, hits>>

\* Mutation: no REVIVE task is added.
KillForGood(w) ==
    /\ Goto(w, "killState", "idle")
    /\ dead' = TRUE
    /\ UNCHANGED <<isActive, alive, hp, near, queued, posted, hits>>

KillState(w) ==
    /\ Goto(w, "killState", "killAdd")
    /\ dead' = TRUE
    /\ UNCHANGED <<isActive, alive, hp, near, queued, posted, hits>>

KillAdd(w) ==
    /\ Goto(w, "killAdd", "idle")
    /\ AddTask("REVIVE")
    /\ UNCHANGED <<isActive, alive, dead, hp, near, posted, hits>>

(***************************************************************************)
(* EVENT_TYPE::REVIVE and Monster::Revive.                                 *)
(***************************************************************************)
ReviveEvent(w) ==
    /\ posted["REVIVE"] > 0
    /\ posted' = [posted EXCEPT !["REVIVE"] = @ - 1]
    /\ Goto(w, "idle", IF alive THEN "idle" ELSE "reviveHP")
    /\ alive' = TRUE
    /\ UNCHANGED <<isActive, dead, hp, near, queued, hits>>

ReviveHP(w) ==
    /\ Goto(w, "reviveHP", "reviveAlive")
    /\ hp' = MaxHP
    /\ UNCHANGED <<isActive, alive, dead, near, queued, posted, hits>>

\* SetAlive(true) once more.
ReviveAlive(w) ==
    /\ Goto(w, "reviveAlive", "reviveActive")
    /\ alive' = TRUE
    /\ UNCHANGED <<isActive, dead, hp, near, queued, posted, hits>>

\* The monster is made active, but no MOVE task is added.
ReviveActive(w) ==
    /\ Goto(w, "reviveActive", "reviveState")
    /\ isActive' = TRUE
    /\ UNCHANGED <<alive, dead, hp, near, queued, posted, hits>>

ReviveState(w) ==
    /\ Goto(w, "reviveState", "idle")
    /\ dead' = FALSE
    /\ UNCHANGED <<isActive, alive, hp, near, queued, posted, hits>>

\* What a worker does once it has begun an operation.
Step(w) ==
    \/ WakeReadState(w) \/ WakeReadAlive(w) \/ WakeExchange(w) \/ WakeAdd(w)
    \/ MoveAdd(w) \/ Sleep(w)
    \/ AttackReadActive(w) \/ SubHP(w) \/ HitSub(w) \/ HitRead(w) \/ Kill(w) \/ KillState(w) \/ KillAdd(w)
    \/ ReviveHP(w) \/ ReviveAlive(w) \/ ReviveActive(w) \/ ReviveState(w)

Next ==
    \/ PlayersMove
    \/ \E type \in TaskTypes : ProcessTask(type)
    \/ \E w \in Workers : WakeUp(w) \/ MoveEvent(w) \/ Attack(w) \/ ReviveEvent(w) \/ Step(w)

\* Threads run; the timer thread polls for ever; the port is first in, first
\* out, so an event is not passed over for ever by workers that keep busy.
Fairness ==
    /\ \A w \in Workers : WF_vars(Step(w))
    /\ \A type \in TaskTypes : WF_vars(ProcessTask(type))
    /\ SF_vars(\E w \in Workers : MoveEvent(w))
    /\ SF_vars(\E w \in Workers : ReviveEvent(w))

Spec == Init /\ [][Next]_vars

FairSpec == Spec /\ Fairness

(***************************************************************************)
(* Properties                                                              *)
(***************************************************************************)

TypeOK ==
    /\ isActive \in BOOLEAN /\ alive \in BOOLEAN /\ dead \in BOOLEAN /\ near \in BOOLEAN
    /\ hp \in Int /\ hp <= MaxHP
    /\ queued \in [TaskTypes -> Nat]
    /\ posted \in [TaskTypes -> Nat]
    /\ pc \in [Workers -> Points]
    /\ hits \in 0..MaxHits

\* The worker holds the monster's MOVE task: taken from the port and not yet
\* put back or given up, or about to be added for the first time.
HoldsMove(w) == pc[w] \in {"wakeAdd", "moveAdd", "sleep"}

Pending(type) == queued[type] + posted[type]

MoveScheduled == Pending("MOVE") > 0 \/ \E w \in Workers : HoldsMove(w)

\* There is one MOVE task at most, wherever it is: however wake-ups, deaths
\* and revivals interleave, a monster never gets a second chain that would
\* make it walk at double speed (Monster.cpp:262-274, 376, IOCPCore.cpp:117-132).
OneMoveChain ==
    /\ Pending("MOVE") <= 1
    /\ \A w \in Workers : HoldsMove(w) => Pending("MOVE") = 0
    /\ \A v, w \in Workers : HoldsMove(v) /\ HoldsMove(w) => v = w

\* An inactive monster has no MOVE task left anywhere, so the wake-up that
\* finds it inactive starts the only chain, and a chain never belongs to a
\* monster that WakeUp would start again (Monster.cpp:265-274).
ChainMeansActive == MoveScheduled => isActive

\* A dead monster has a REVIVE on its way: the killer that won the exchange
\* is about to add it, or it is queued or posted.  No interleaving of two
\* deaths and two revivals loses the last one (MovingObject.cpp:165-207).
DeadHasRevive ==
    ~alive => Pending("REVIVE") > 0 \/ \E w \in Workers : pc[w] \in {"killState", "killAdd"}

\* Whoever dies comes back (TaskQueue.cpp:67-73, IOCPCore.cpp:224-241).
DeadRevives == ~alive ~> alive

\* A monster nobody sees stops being scheduled (IOCPCore.cpp:130-132).
AbandonedSleeps == ~near ~> (near \/ ~MoveScheduled)

\* "A monster wakes up after 1 second and moves" (PacketFunc.cpp:365, in
\* Korean): once a player wakes it, a live monster gets a MOVE task, unless
\* the player leaves or it dies first.
WokenMonsterMoves ==
    \A w \in Workers :
        (pc[w] = "wakeState" /\ alive /\ ~dead) ~> (MoveScheduled \/ ~near \/ ~alive)
=============================================================================
