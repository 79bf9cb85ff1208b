------------------------------- MODULE Combat -------------------------------
(***************************************************************************)
(* Fighting, seen from the players: monsters strike them, potions and the  *)
(* HEAL event raise their hit points, death schedules a REVIVE; they hit a *)
(* monster, gain experience and pick up the potions it leaves (Player.cpp, *)
(* MovingObject.cpp, Monster.cpp, IOCPCore.cpp, PacketFunc.cpp).           *)
(*                                                                         *)
(* Three kinds of threads run at once: the worker that has a player's      *)
(* receive completion and handles his CS_ATTACK and CS_ITEM_PICK_UP (one   *)
(* at a time, at point at[p]); the worker that has his HEAL event (there   *)
(* is one chain, at point healing[p]); and workers with ATTACK and REVIVE  *)
(* events, of which any number may concern one player (at point pc[w]).    *)
(* One step is one access to shared state.                                 *)
(*                                                                         *)
(* Who stands next to whom is left open: any player may be struck, may hit *)
(* any monster and may stand on any potion.  The notifications sent after  *)
(* each change, the choice of a target and the 1 s attack interval are     *)
(* left out; so is the return of a monster, which MonsterLife models: here *)
(* a monster dies once.                                                    *)
(***************************************************************************)
EXTENDS Integers, FiniteSets

CONSTANTS
    Players,
    Monsters,
    Workers,    \* threads with ATTACK and REVIVE events
    MaxHP,      \* hit points of a player, 100
    MonsterHP,  \* hit points of a monster
    Damage,     \* of a blow, 10
    PotionHP,   \* what a potion restores, 10
    Budgets,    \* how many blows each player may still take and deal; one
                \* budget is chosen at the start (bounds the model)
    Debt,       \* HEAL takes a tenth from who has less than no hit points; it is
                \* followed down to -Debt (bounds the model)
    MaxItems    \* potions ever made (bounds the model)

ASSUME CombatAssumption ==
    /\ MaxHP \in Nat \ {0} /\ MonsterHP \in Nat \ {0}
    /\ Damage \in Nat \ {0} /\ PotionHP \in Nat
    /\ Budgets \subseteq [Players -> [takes : Nat, deals : Nat]]
    /\ Debt \in Nat
    /\ MaxItems \in Nat

VARIABLES
    hp,         \* m_stat.hp of each player
    alive,      \* m_alive of each player
    state,      \* m_state of each player
    inGame,     \* the object table has the player
    revives,    \* his REVIVE tasks and events
    chain,      \* he has a HEAL task or event
    pc, target, \* the workers with events, and the player each is about
    healing,    \* the worker with the HEAL event: "idle" or "store"
    healed,     \* the hit points it is about to store
    at,         \* the worker with the receive completion
    foe,        \* the monster it fights
    item,       \* the id of the potion it makes or takes
    mhp,        \* m_stat.hp of each monster
    malive,     \* m_alive of each monster
    paid,       \* the monsters somebody gained experience for
    idGen,      \* Item's static counter
    onBoard,    \* potions in the sectors: pairs of id and place
    table,      \* what the object table has for an id: a place, or a marker
    left        \* blows that may still be dealt

life == <<hp, alive, state, inGame, revives>>
heal == <<chain, healing, healed>>
events == <<pc, target>>
session == <<at, foe, item>>
loot == <<mhp, malive, paid, idGen, onBoard, table>>
vars == <<life, heal, events, session, loot, left>>

ItemIds == 0..MaxItems

\* A key that was never inserted, and one whose pointer was set to null.
Absent == "absent"
Gone == "gone"

NoItem == -1

\* The target of an idle worker, and the foe of a player who fights nobody.
Nobody == "nobody"

ASSUME MarkersAssumption == Nobody \notin Players \union Monsters /\ {Absent, Gone} \intersect Monsters = {}

EventPoints == {"idle", "hit", "hitRead", "kill", "killState", "killAdd",
                "exchange", "reviveHP", "reviveState"}

SessionPoints == {"idle", "attack", "swing", "aim", "mHit", "mRead", "idRead", "idWrite",
                  "sectorAdd", "tableAdd", "mKill", "reward", "rest",
                  "find", "eat", "sectorRemove", "tableRemove"}

\* Where a player has a monster to fight, a potion in the making, and a potion
\* to eat.
FightPoints == {"aim", "mHit", "mRead", "idRead", "idWrite", "sectorAdd", "tableAdd",
                "mKill", "reward", "rest"}
MakePoints == {"idWrite", "sectorAdd", "tableAdd"}
EatPoints == {"eat", "sectorRemove", "tableRemove"}

\* The players are logged in, each with the HEAL task CS_LOGIN added.
Init ==
    /\ hp = [p \in Players |-> MaxHP]
    /\ alive = [p \in Players |-> TRUE]
    /\ state = [p \in Players |-> "IDLE"]
    /\ inGame = [p \in Players |-> TRUE]
    /\ revives = [p \in Players |-> 0]
    /\ chain = [p \in Players |-> TRUE]
    /\ pc = [w \in Workers |-> "idle"]
    /\ target = [w \in Workers |-> Nobody]
    /\ healing = [p \in Players |-> "idle"]
    /\ healed = [p \in Players |-> 0]
    /\ at = [p \in Players |-> "idle"]
    /\ foe = [p \in Players |-> Nobody]
    /\ item = [p \in Players |-> NoItem]
    /\ mhp = [m \in Monsters |-> MonsterHP]
    /\ malive = [m \in Monsters |-> TRUE]
    /\ paid = {}
    /\ idGen = 0
    /\ onBoard = {}
    /\ table = [i \in ItemIds |-> Absent]
    /\ left \in Budgets

\* p takes a blow or deals one.
Takes(p) == left[p].takes > 0 /\ left' = [left EXCEPT ![p].takes = @ - 1]
Deals(p) == left[p].deals > 0 /\ left' = [left EXCEPT ![p].deals = @ - 1]

Goto(w, from, to) ==
    /\ pc[w] = from
    /\ pc' = [pc EXCEPT ![w] = to]
    /\ target' = IF to = "idle" THEN [target EXCEPT ![w] = Nobody] ELSE target

\* The worker takes an event that concerns p.
Take(w, p, to) ==
    /\ pc[w] = "idle"
    /\ pc' = [pc EXCEPT ![w] = to]
    /\ target' = [target EXCEPT ![w] = p]

SetState(p, s) == state' = [state EXCEPT ![p] = s]

(***************************************************************************)
(* An ATTACK event: Monster::Attack, and SubHP on a player.                *)
(***************************************************************************)

\* The target is looked up; SubHP leaves the dead alone.
Strike(w, p) ==
    /\ Takes(p)
    /\ inGame[p] /\ alive[p]
    /\ Take(w, p, "hit")
    /\ UNCHANGED <<life, heal, session, loot>>

SubHP(w) ==
    /\ Goto(w, "hit", "hitRead")
    /\ hp' = [hp EXCEPT ![target[w]] = @ - Damage]
    /\ UNCHANGED <<alive, state, inGame, revives, heal, session, loot, left>>

HitRead(w) ==
    /\ Goto(w, "hitRead", IF hp[target[w]] > 0 THEN "idle" ELSE "kill")
    /\ UNCHANGED <<life, heal, session, loot, left>>

\* Mutation: a plain store; everybody who finds no hit points left kills.
KillStore(w) ==
    /\ Goto(w, "kill", "killState")
    /\ alive' = [alive EXCEPT ![target[w]] = FALSE]
    /\ UNCHANGED <<hp, state, inGame, revives, heal, session, loot, left>>

\* Only one of those who find no hit points left wins the exchange.
Kill(w) ==
    /\ Goto(w, "kill", IF alive[target[w]] THEN "killState" ELSE "idle")
    /\ alive' = [alive EXCEPT ![target[w]] = FALSE]
    /\ UNCHANGED <<hp, state, inGame, revives, heal, session, loot, left>>

KillState(w) ==
    /\ Goto(w, "killState", "killAdd")
    /\ SetState(target[w], "DEAD")
    /\ UNCHANGED <<hp, alive, inGame, revives, heal, session, loot, left>>

\* Mutation: no REVIVE task is added.
KillForGood(w) ==
    /\ Goto(w, "killAdd", "idle")
    /\ UNCHANGED <<life, heal, session, loot, left>>

KillAdd(w) ==
    /\ Goto(w, "killAdd", "idle")
    /\ revives' = [revives EXCEPT ![target[w]] = @ + 1]
    /\ UNCHANGED <<hp, alive, state, inGame, heal, session, loot, left>>

(***************************************************************************)
(* A REVIVE event and Player::Revive.  (A worker that does not find the    *)
(* player is lost to the pool: module WorkerPool.)                         *)
(***************************************************************************)
ReviveEvent(w, p) ==
    /\ revives[p] > 0
    /\ revives' = [revives EXCEPT ![p] = @ - 1]
    /\ \/ inGame[p] /\ Take(w, p, "exchange")
       \/ ~inGame[p] /\ Goto(w, "idle", "idle")
    /\ UNCHANGED <<hp, alive, state, inGame, heal, session, loot, left>>

Revive(w) ==
    /\ Goto(w, "exchange", IF alive[target[w]] THEN "idle" ELSE "reviveHP")
    /\ alive' = [alive EXCEPT ![target[w]] = TRUE]
    /\ UNCHANGED <<hp, state, inGame, revives, heal, session, loot, left>>

\* SetExp has an empty body, so experience is not halved.
ReviveHP(w) ==
    /\ Goto(w, "reviveHP", "reviveState")
    /\ hp' = [hp EXCEPT ![target[w]] = MaxHP]
    /\ UNCHANGED <<alive, state, inGame, revives, heal, session, loot, left>>

\* Mutation: the state stays DEAD.
ReviveShownDead(w) ==
    /\ Goto(w, "reviveState", "idle")
    /\ UNCHANGED <<life, heal, session, loot, left>>

ReviveState(w) ==
    /\ Goto(w, "reviveState", "idle")
    /\ SetState(target[w], "IDLE")
    /\ UNCHANGED <<hp, alive, inGame, revives, heal, session, loot, left>>

EventStep(w) ==
    \/ SubHP(w) \/ HitRead(w) \/ Kill(w) \/ KillState(w) \/ KillAdd(w)
    \/ Revive(w) \/ ReviveHP(w) \/ ReviveState(w)

(***************************************************************************)
(* The HEAL event: hit points are read, a tenth is added, the sum is       *)
(* stored, and the next HEAL task is added.                                *)
(***************************************************************************)

\* int division rounds towards zero
Tenth(n) == IF n >= 0 THEN n \div 10 ELSE -((-n) \div 10)

\* Mutation: nobody asks whether the player needs it.
HealAlways(p) ==
    /\ chain[p] /\ inGame[p]
    /\ healing[p] = "idle"
    /\ healing' = [healing EXCEPT ![p] = "store"]
    /\ healed' = [healed EXCEPT ![p] = hp[p] + Tenth(hp[p])]
    /\ UNCHANGED <<chain, life, events, session, loot, left>>

\* A player at full strength is left alone, and one who has left ends the chain.
HealEvent(p) ==
    /\ chain[p]
    /\ healing[p] = "idle"
    /\ \/ /\ ~inGame[p]
          /\ chain' = [chain EXCEPT ![p] = FALSE]
          /\ UNCHANGED <<healing, healed>>
       \/ /\ inGame[p] /\ hp[p] < MaxHP /\ hp[p] > -Debt
          /\ healing' = [healing EXCEPT ![p] = "store"]
          /\ healed' = [healed EXCEPT ![p] = hp[p] + Tenth(hp[p])]
          /\ UNCHANGED chain
    /\ UNCHANGED <<life, events, session, loot, left>>

\* SetHP, and the next HEAL task.
HealStore(p) ==
    /\ healing[p] = "store"
    /\ healing' = [healing EXCEPT ![p] = "idle"]
    /\ healed' = [healed EXCEPT ![p] = 0]
    /\ hp' = [hp EXCEPT ![p] = healed[p]]
    /\ UNCHANGED <<alive, state, inGame, revives, chain, events, session, loot, left>>

(***************************************************************************)
(* CS_ATTACK: Process_CS_ATTACK_PACKET, Player::Attack, SubHP on a monster *)
(***************************************************************************)
Move(p, from, to) == at[p] = from /\ at' = [at EXCEPT ![p] = to]

\* The state is set before anything is tested.
AttackPacket(p) ==
    /\ Move(p, "idle", "attack")
    /\ inGame[p]
    /\ left[p].deals > 0
    /\ SetState(p, "ATTACK")
    /\ UNCHANGED <<hp, alive, inGame, revives, heal, events, foe, item, loot, left>>

AttackCheck(p) ==
    /\ Move(p, "attack", IF alive[p] THEN "swing" ELSE "idle")
    /\ UNCHANGED <<life, heal, events, foe, item, loot, left>>

\* For the next monster around, or no more.
Swing(p) ==
    \/ \E m \in Monsters :
        /\ Deals(p)
        /\ Move(p, "swing", "aim")
        /\ foe' = [foe EXCEPT ![p] = m]
        /\ SetState(p, "ATTACK")
        /\ UNCHANGED <<hp, alive, inGame, revives, heal, events, item, loot>>
    \/ /\ Move(p, "swing", "idle")
       /\ UNCHANGED <<life, heal, events, foe, item, loot, left>>

\* Player::Attack turns away from a dead or sleeping monster.
Aim(p) ==
    /\ \/ Move(p, "aim", "mHit") /\ malive[foe[p]] /\ UNCHANGED foe
       \/ Move(p, "aim", "swing") /\ foe' = [foe EXCEPT ![p] = Nobody]
    /\ UNCHANGED <<life, heal, events, item, loot, left>>

\* SubHP looks once more, and subtracts.  (One step: whoever kills the monster
\* in between has read that it has no hit points left, so nobody can tell this
\* blow from one that came before the kill.)
MonsterSubHP(p) ==
    /\ Move(p, "mHit", IF malive[foe[p]] THEN "mRead" ELSE "reward")
    /\ mhp' = [mhp EXCEPT ![foe[p]] = IF malive[foe[p]] THEN @ - Damage ELSE @]
    /\ UNCHANGED <<life, heal, events, foe, item, malive, paid, idGen, onBoard, table, left>>

MonsterHitRead(p) ==
    /\ Move(p, "mRead", IF mhp[foe[p]] > 0 THEN "reward" ELSE "idRead")
    /\ UNCHANGED <<life, heal, events, foe, item, loot, left>>

\* Item::Item takes an id from an unprotected static counter (bounded here).
ItemId(p) ==
    /\ Move(p, "idRead", "idWrite")
    /\ idGen <= MaxItems
    /\ item' = [item EXCEPT ![p] = idGen]
    /\ UNCHANGED <<life, heal, events, foe, loot, left>>

ItemNext(p) ==
    /\ Move(p, "idWrite", "sectorAdd")
    /\ idGen' = idGen + 1
    /\ UNCHANGED <<life, heal, events, foe, item, mhp, malive, paid, onBoard, table, left>>

\* Mutation: the potion is not entered into a sector.
ItemNowhere(p) ==
    /\ Move(p, "sectorAdd", "tableAdd")
    /\ UNCHANGED <<life, heal, events, foe, item, loot, left>>

ItemToSector(p) ==
    /\ Move(p, "sectorAdd", "tableAdd")
    /\ onBoard' = onBoard \union {<<item[p], foe[p]>>}
    /\ UNCHANGED <<life, heal, events, foe, item, mhp, malive, paid, idGen, table, left>>

\* insert does nothing if the key is there.
ItemToTable(p) ==
    /\ Move(p, "tableAdd", "mKill")
    /\ table' = [table EXCEPT ![item[p]] = IF @ = Absent THEN foe[p] ELSE @]
    /\ item' = [item EXCEPT ![p] = NoItem]
    /\ UNCHANGED <<life, heal, events, foe, mhp, malive, paid, idGen, onBoard, left>>

\* Mutation: the exchange expects the wrong value and never succeeds.
MonsterKillFails(p) ==
    /\ Move(p, "mKill", "reward")
    /\ UNCHANGED <<life, heal, events, foe, item, loot, left>>

\* The exchange comes after the potion.
MonsterKill(p) ==
    /\ Move(p, "mKill", "reward")
    /\ malive' = [malive EXCEPT ![foe[p]] = FALSE]
    /\ UNCHANGED <<life, heal, events, foe, item, mhp, paid, idGen, onBoard, table, left>>

\* Back in Player::Attack: whoever reads no hit points gains experience.
Reward(p) ==
    /\ Move(p, "reward", "rest")
    /\ paid' = IF mhp[foe[p]] <= 0 THEN paid \union {foe[p]} ELSE paid
    /\ UNCHANGED <<life, heal, events, foe, item, mhp, malive, idGen, onBoard, table, left>>

\* SetState(IDLE), dead or not.
Rest(p) ==
    /\ Move(p, "rest", "swing")
    /\ foe' = [foe EXCEPT ![p] = Nobody]
    /\ SetState(p, "IDLE")
    /\ UNCHANGED <<hp, alive, inGame, revives, heal, events, item, loot, left>>

(***************************************************************************)
(* CS_ITEM_PICK_UP                                                         *)
(***************************************************************************)
PickUpPacket(p) ==
    /\ inGame[p] /\ alive[p]
    /\ Move(p, "idle", "find")
    /\ UNCHANGED <<life, heal, events, foe, item, loot, left>>

\* A potion in a sector around, in the table, and under his feet; or none.  (A
\* copy of the list taken before a removal finds nothing that a search before
\* the removal would not have found.)
Find(p) ==
    \/ \E i \in ItemIds :
        /\ table[i] \in Monsters
        /\ \E m \in Monsters : <<i, m>> \in onBoard
        /\ Move(p, "find", "eat")
        /\ item' = [item EXCEPT ![p] = i]
        /\ foe' = [foe EXCEPT ![p] = table[i]]
        /\ UNCHANGED <<life, heal, events, loot, left>>
    \/ /\ Move(p, "find", "idle")
       /\ UNCHANGED <<life, heal, events, foe, item, loot, left>>

\* AddHP is an atomic addition, without a limit.
Eat(p) ==
    /\ Move(p, "eat", "sectorRemove")
    /\ hp' = [hp EXCEPT ![p] = @ + PotionHP]
    /\ UNCHANGED <<alive, state, inGame, revives, heal, events, foe, item, loot, left>>

EatenFromSector(p) ==
    /\ Move(p, "sectorRemove", "tableRemove")
    /\ onBoard' = onBoard \ {<<item[p], foe[p]>>}
    /\ UNCHANGED <<life, heal, events, foe, item, mhp, malive, paid, idGen, table, left>>

EatenFromTable(p) ==
    /\ Move(p, "tableRemove", "find")
    /\ table' = [table EXCEPT ![item[p]] = Gone]
    /\ item' = [item EXCEPT ![p] = NoItem]
    /\ foe' = [foe EXCEPT ![p] = Nobody]
    /\ UNCHANGED <<life, heal, events, mhp, malive, paid, idGen, onBoard, left>>

SessionStep(p) ==
    \/ AttackCheck(p) \/ Swing(p) \/ Aim(p) \/ MonsterSubHP(p) \/ MonsterHitRead(p)
    \/ ItemId(p) \/ ItemNext(p) \/ ItemToSector(p) \/ ItemToTable(p) \/ MonsterKill(p)
    \/ Reward(p) \/ Rest(p)
    \/ Find(p) \/ Eat(p) \/ EatenFromSector(p) \/ EatenFromTable(p)

\* PostDisconnect takes the player out of the table, whatever runs.
Leave(p) ==
    /\ inGame[p]
    /\ inGame' = [inGame EXCEPT ![p] = FALSE]
    /\ UNCHANGED <<hp, alive, state, revives, heal, events, session, loot, left>>

Next ==
    \/ \E w \in Workers :
        \/ EventStep(w)
        \/ \E p \in Players : Strike(w, p) \/ ReviveEvent(w, p)
    \/ \E p \in Players :
        \/ AttackPacket(p) \/ PickUpPacket(p) \/ SessionStep(p)
        \/ HealEvent(p) \/ HealStore(p)
        \/ Leave(p)

\* A worker in a handler goes on; a REVIVE task falls due, and since the port
\* is first in, first out, its event is not passed over for ever.
Fairness ==
    /\ \A w \in Workers : WF_vars(EventStep(w))
    /\ \A p \in Players : SF_vars(\E w \in Workers : ReviveEvent(w, p))

Spec == Init /\ [][Next]_vars

FairSpec == Spec /\ Fairness

(***************************************************************************)
(* Properties                                                              *)
(***************************************************************************)

LifeOK ==
    /\ hp \in [Players -> Int]
    /\ alive \in [Players -> BOOLEAN]
    /\ state \in [Players -> {"IDLE", "ATTACK", "DEAD"}]
    /\ inGame \in [Players -> BOOLEAN]
    /\ revives \in [Players -> Nat]
    /\ chain \in [Players -> BOOLEAN]
    /\ healing \in [Players -> {"idle", "store"}]
    /\ healed \in [Players -> Int]
    /\ left \in [Players -> [takes : Nat, deals : Nat]]

EventsOK ==
    /\ pc \in [Workers -> EventPoints]
    /\ target \in [Workers -> Players \union {Nobody}]
    /\ \A w \in Workers : pc[w] # "idle" => target[w] \in Players

SessionOK ==
    /\ at \in [Players -> SessionPoints]
    /\ foe \in [Players -> Monsters \union {Nobody}]
    /\ item \in [Players -> ItemIds \union {NoItem}]
    /\ \A p \in Players :
        /\ at[p] \in FightPoints \union EatPoints => foe[p] \in Monsters
        /\ at[p] \in MakePoints \union EatPoints => item[p] \in ItemIds

LootOK ==
    /\ mhp \in [Monsters -> Int]
    /\ malive \in [Monsters -> BOOLEAN]
    /\ paid \subseteq Monsters
    /\ idGen \in Nat
    /\ onBoard \subseteq ItemIds \X Monsters
    /\ table \in [ItemIds -> Monsters \union {Absent, Gone}]

TypeOK == LifeOK /\ EventsOK /\ SessionOK /\ LootOK

\* The worker will add p's REVIVE task, or has taken its event.
HoldsRevive(w, p) == target[w] = p /\ pc[w] \in {"killState", "killAdd", "exchange"}

\* Each death of a player has exactly one REVIVE, wherever it is, and a live
\* player has none: however many monsters strike at once, and however a blow
\* meets a revival, no death is forgotten and no REVIVE is left over to
\* meet a later life (MovingObject.cpp:64-109, Player.cpp:135-137).
OneRevivePerDeath ==
    \A p \in Players :
        /\ revives[p] <= 1
        /\ \A v, w \in Workers : HoldsRevive(v, p) /\ HoldsRevive(w, p) => v = w
        /\ (\E w \in Workers : HoldsRevive(w, p)) => ~alive[p] /\ revives[p] = 0
        /\ revives[p] > 0 => ~alive[p]
        /\ ~alive[p] /\ inGame[p] =>
                revives[p] = 1 \/ \E w \in Workers : HoldsRevive(w, p)

\* A live player is not shown dead once his revival is over, although death
\* and revival set m_alive and m_state one after the other
\* (MovingObject.cpp:67-71, Player.cpp:137-155).
AliveIsNotShownDead ==
    \A p \in Players :
        /\ alive[p]
        /\ \A w \in Workers : target[w] = p => pc[w] \notin {"reviveHP", "reviveState"}
        => state[p] # "DEAD"

\* A potion that can still be looked up is listed in the sector it lies in,
\* or somebody is about to take it out: none lies where no search finds it,
\* even when two potions have got the same id (MovingObject.cpp:120-137,
\* PacketFunc.cpp:693-699).
PotionReachable ==
    \A i \in ItemIds :
        /\ table[i] \in Monsters
        /\ ~\E p \in Players : at[p] = "tableRemove" /\ item[p] = i
        => <<i, table[i]>> \in onBoard

\* A player has no more hit points than he started with, a tenth from one
\* HEAL above it, and one PotionHP for each potion that was ever there: no
\* potion heals the same player twice, and HEAL, which stores what it
\* computed earlier, does not add up (PacketFunc.cpp:613-699, IOCPCore.cpp:169-180).
HPWithinMeans ==
    \A p \in Players :
        hp[p] <= MaxHP + Tenth(MaxHP) + PotionHP * Cardinality({i \in ItemIds : table[i] # Absent})

\* Experience is only gained for a monster that is dead or whose killer is on
\* his way to the exchange (Player.cpp:49-73, MovingObject.cpp:57-169).
RewardMeansKill ==
    \A m \in paid :
        \/ ~malive[m]
        \/ \E p \in Players :
            /\ foe[p] = m
            /\ at[p] \in {"mRead", "idRead", "idWrite", "sectorAdd", "tableAdd", "mKill"}

\* Who dies comes back, unless he leaves (TaskQueue.cpp:67-73, IOCPCore.cpp:224-241).
DeadPlayersRevive ==
    \A p \in Players : ~alive[p] ~> (alive[p] \/ ~inGame[p])
=============================================================================
