---------------------------- MODULE Combat_proof ----------------------------
(***************************************************************************)
(* What fighting guarantees for any number of players, monsters and        *)
(* workers, and any hit points and damage.                                 *)
(***************************************************************************)
EXTENDS Combat, FiniteSetTheorems, TLAPS

LEMMA TenthType == ASSUME NEW n \in Int PROVE Tenth(n) \in Int
<1>1. CASE n >= 0
    BY <1>1, SMT DEF Tenth
<1>2. CASE n < 0
    <2>1. (-n) \div 10 \in Int
        BY SMT
    <2> QED
        BY <1>2, <2>1, SMT DEF Tenth
<1> QED
    BY <1>1, <1>2

LEMMA Spend ==
    ASSUME left \in [Players -> [takes : Nat, deals : Nat]], NEW p \in Players, Takes(p) \/ Deals(p)
    PROVE  left' \in [Players -> [takes : Nat, deals : Nat]]
<1>1. left[p].takes \in Nat /\ left[p].deals \in Nat
    OBVIOUS
<1>2. CASE Takes(p)
    <2>1. [left[p] EXCEPT !.takes = @ - 1] \in [takes : Nat, deals : Nat]
        BY <1>1, <1>2 DEF Takes
    <2>2. left' = [left EXCEPT ![p] = [left[p] EXCEPT !.takes = @ - 1]]
        BY <1>2 DEF Takes
    <2> QED
        BY <2>1, <2>2
<1>3. CASE Deals(p)
    <2>1. [left[p] EXCEPT !.deals = @ - 1] \in [takes : Nat, deals : Nat]
        BY <1>1, <1>3 DEF Deals
    <2>2. left' = [left EXCEPT ![p] = [left[p] EXCEPT !.deals = @ - 1]]
        BY <1>3 DEF Deals
    <2> QED
        BY <2>1, <2>2
<1> QED
    BY <1>2, <1>3

LEMMA TypingInit == Init => TypeOK
<1> SUFFICES ASSUME Init PROVE TypeOK
    OBVIOUS
<1>1. left \in [Players -> [takes : Nat, deals : Nat]]
    BY CombatAssumption DEF Init
<1>2. hp \in [Players -> Int] /\ mhp \in [Monsters -> Int]
    BY CombatAssumption DEF Init
<1>3. \A p \in Players : at[p] = "idle" /\ item[p] = NoItem
    BY DEF Init
<1> QED
    BY <1>1, <1>2, <1>3 DEF Init, TypeOK, LifeOK, EventsOK, SessionOK, LootOK,
        EventPoints, SessionPoints, FightPoints, MakePoints, EatPoints

LEMMA TypingStep == TypeOK /\ [Next]_vars => TypeOK'
<1> SUFFICES ASSUME TypeOK, [Next]_vars PROVE TypeOK'
    OBVIOUS
<1> USE CombatAssumption DEF TypeOK, LifeOK, EventsOK, SessionOK, LootOK,
        life, heal, events, session, loot, Goto, Take, Takes, Deals, Move, SetState, EventPoints, SessionPoints,
        FightPoints, MakePoints, EatPoints, ItemIds
<1>1. ASSUME NEW w \in Workers, NEW p \in Players, Strike(w, p) PROVE TypeOK'
    <2>1. LifeOK'
        <3>1. left' \in [Players -> [takes : Nat, deals : Nat]]
            BY <1>1, Spend DEF Strike
        <3> QED
            BY <1>1, <3>1 DEF Strike
    <2>2. EventsOK'
        BY <1>1 DEF Strike
    <2>3. SessionOK'
        BY <1>1 DEF Strike
    <2>4. LootOK'
        BY <1>1 DEF Strike
    <2> QED
        BY <2>1, <2>2, <2>3, <2>4
<1>2. ASSUME NEW w \in Workers, NEW p \in Players, ReviveEvent(w, p) PROVE TypeOK'
    <2>1. LifeOK'
        BY <1>2 DEF ReviveEvent
    <2>2. EventsOK'
        <3>1. CASE pc' = [pc EXCEPT ![w] = "exchange"] /\ target' = [target EXCEPT ![w] = p]
            BY <3>1
        <3>2. CASE pc' = [pc EXCEPT ![w] = "idle"] /\ target' = [target EXCEPT ![w] = Nobody]
            BY <3>2
        <3> QED
            BY <1>2, <3>1, <3>2 DEF ReviveEvent
    <2>3. SessionOK'
        BY <1>2 DEF ReviveEvent
    <2>4. LootOK'
        BY <1>2 DEF ReviveEvent
    <2> QED
        BY <2>1, <2>2, <2>3, <2>4
<1>3. ASSUME NEW w \in Workers, SubHP(w) PROVE TypeOK'
    <2>1. LifeOK'
        BY <1>3 DEF SubHP
    <2>2. EventsOK'
        BY <1>3 DEF SubHP
    <2>3. SessionOK'
        BY <1>3 DEF SubHP
    <2>4. LootOK'
        BY <1>3 DEF SubHP
    <2> QED
        BY <2>1, <2>2, <2>3, <2>4
<1>4. ASSUME NEW w \in Workers, HitRead(w) PROVE TypeOK'
    <2>1. LifeOK'
        BY <1>4 DEF HitRead
    <2>2. EventsOK'
        BY <1>4 DEF HitRead
    <2>3. SessionOK'
        BY <1>4 DEF HitRead
    <2>4. LootOK'
        BY <1>4 DEF HitRead
    <2> QED
        BY <2>1, <2>2, <2>3, <2>4
<1>5. ASSUME NEW w \in Workers, Kill(w) PROVE TypeOK'
    <2>1. LifeOK'
        BY <1>5 DEF Kill
    <2>2. EventsOK'
        BY <1>5 DEF Kill
    <2>3. SessionOK'
        BY <1>5 DEF Kill
    <2>4. LootOK'
        BY <1>5 DEF Kill
    <2> QED
        BY <2>1, <2>2, <2>3, <2>4
<1>6. ASSUME NEW w \in Workers, KillState(w) PROVE TypeOK'
    <2>1. LifeOK'
        BY <1>6 DEF KillState
    <2>2. EventsOK'
        BY <1>6 DEF KillState
    <2>3. SessionOK'
        BY <1>6 DEF KillState
    <2>4. LootOK'
        BY <1>6 DEF KillState
    <2> QED
        BY <2>1, <2>2, <2>3, <2>4
<1>7. ASSUME NEW w \in Workers, KillAdd(w) PROVE TypeOK'
    <2>1. LifeOK'
        BY <1>7 DEF KillAdd
    <2>2. EventsOK'
        BY <1>7 DEF KillAdd
    <2>3. SessionOK'
        BY <1>7 DEF KillAdd
    <2>4. LootOK'
        BY <1>7 DEF KillAdd
    <2> QED
        BY <2>1, <2>2, <2>3, <2>4
<1>8. ASSUME NEW w \in Workers, Revive(w) PROVE TypeOK'
    <2>1. LifeOK'
        BY <1>8 DEF Revive
    <2>2. EventsOK'
        BY <1>8 DEF Revive
    <2>3. SessionOK'
        BY <1>8 DEF Revive
    <2>4. LootOK'
        BY <1>8 DEF Revive
    <2> QED
        BY <2>1, <2>2, <2>3, <2>4
<1>9. ASSUME NEW w \in Workers, ReviveHP(w) PROVE TypeOK'
    <2>1. LifeOK'
        BY <1>9 DEF ReviveHP
    <2>2. EventsOK'
        BY <1>9 DEF ReviveHP
    <2>3. SessionOK'
        BY <1>9 DEF ReviveHP
    <2>4. LootOK'
        BY <1>9 DEF ReviveHP
    <2> QED
        BY <2>1, <2>2, <2>3, <2>4
<1>10. ASSUME NEW w \in Workers, ReviveState(w) PROVE TypeOK'
    <2>1. LifeOK'
        BY <1>10 DEF ReviveState
    <2>2. EventsOK'
        BY <1>10 DEF ReviveState
    <2>3. SessionOK'
        BY <1>10 DEF ReviveState
    <2>4. LootOK'
        BY <1>10 DEF ReviveState
    <2> QED
        BY <2>1, <2>2, <2>3, <2>4
<1>11. ASSUME NEW p \in Players, HealEvent(p) PROVE TypeOK'
    <2>1. LifeOK'
        <3>1. CASE ~inGame[p]
            BY <1>11, <3>1 DEF HealEvent
        <3>2. CASE inGame[p]
            <4>1. hp[p] + Tenth(hp[p]) \in Int
                BY TenthType
            <4>2. healed' = [healed EXCEPT ![p] = hp[p] + Tenth(hp[p])] /\ UNCHANGED <<life, chain, left>>
                BY <1>11, <3>2 DEF HealEvent
            <4>3. healing' = [healing EXCEPT ![p] = "store"]
                BY <1>11, <3>2 DEF HealEvent
            <4> QED
                BY <4>1, <4>2, <4>3
        <3> QED
            BY <3>1, <3>2
    <2>2. EventsOK'
        BY <1>11 DEF HealEvent
    <2>3. SessionOK'
        BY <1>11 DEF HealEvent
    <2>4. LootOK'
        BY <1>11 DEF HealEvent
    <2> QED
        BY <2>1, <2>2, <2>3, <2>4
<1>12. ASSUME NEW p \in Players, HealStore(p) PROVE TypeOK'
    <2>1. LifeOK'
        BY <1>12 DEF HealStore
    <2>2. EventsOK'
        BY <1>12 DEF HealStore
    <2>3. SessionOK'
        BY <1>12 DEF HealStore
    <2>4. LootOK'
        BY <1>12 DEF HealStore
    <2> QED
        BY <2>1, <2>2, <2>3, <2>4
<1>13. ASSUME NEW p \in Players, AttackPacket(p) PROVE TypeOK'
    <2>1. LifeOK'
        BY <1>13 DEF AttackPacket
    <2>2. EventsOK'
        BY <1>13 DEF AttackPacket
    <2>3. SessionOK'
        BY <1>13 DEF AttackPacket
    <2>4. LootOK'
        BY <1>13 DEF AttackPacket
    <2> QED
        BY <2>1, <2>2, <2>3, <2>4
<1>14. ASSUME NEW p \in Players, AttackCheck(p) PROVE TypeOK'
    <2>1. LifeOK'
        BY <1>14 DEF AttackCheck
    <2>2. EventsOK'
        BY <1>14 DEF AttackCheck
    <2>3. SessionOK'
        BY <1>14 DEF AttackCheck
    <2>4. LootOK'
        BY <1>14 DEF AttackCheck
    <2> QED
        BY <2>1, <2>2, <2>3, <2>4
<1>15. ASSUME NEW p \in Players, Swing(p) PROVE TypeOK'
    <2>1. LifeOK'
        <3>1. CASE at' = [at EXCEPT ![p] = "aim"]
            <4>1. \/ /\ left' \in [Players -> [takes : Nat, deals : Nat]]
                     /\ state' = [state EXCEPT ![p] = "ATTACK"]
                  \/ UNCHANGED <<life, left>>
                BY <1>15, Spend DEF Swing
            <4> QED
                BY <1>15, <4>1 DEF Swing
        <3>2. CASE UNCHANGED <<life, left>>
            BY <1>15, <3>2 DEF Swing
        <3> QED
            BY <1>15, <3>1, <3>2 DEF Swing
    <2>2. EventsOK'
        BY <1>15 DEF Swing
    <2>3. SessionOK'
        <3>1. CASE \E m \in Monsters : at' = [at EXCEPT ![p] = "aim"] /\ foe' = [foe EXCEPT ![p] = m]
                                       /\ item' = item
            BY <3>1
        <3>2. CASE at' = [at EXCEPT ![p] = "idle"] /\ UNCHANGED <<foe, item>>
            BY <3>2
        <3> QED
            BY <1>15, <3>1, <3>2 DEF Swing
    <2>4. LootOK'
        BY <1>15 DEF Swing
    <2> QED
        BY <2>1, <2>2, <2>3, <2>4
<1>16. ASSUME NEW p \in Players, Aim(p) PROVE TypeOK'
    <2>1. LifeOK'
        BY <1>16 DEF Aim
    <2>2. EventsOK'
        BY <1>16 DEF Aim
    <2>3. SessionOK'
        <3>1. CASE at[p] = "aim" /\ at' = [at EXCEPT ![p] = "mHit"] /\ UNCHANGED <<foe, item>>
            BY <3>1
        <3>2. CASE at' = [at EXCEPT ![p] = "swing"] /\ foe' = [foe EXCEPT ![p] = Nobody] /\ item' = item
            BY <3>2
        <3> QED
            BY <1>16, <3>1, <3>2 DEF Aim
    <2>4. LootOK'
        BY <1>16 DEF Aim
    <2> QED
        BY <2>1, <2>2, <2>3, <2>4
<1>17. ASSUME NEW p \in Players, MonsterSubHP(p) PROVE TypeOK'
    <2>1. LifeOK'
        BY <1>17 DEF MonsterSubHP
    <2>2. EventsOK'
        BY <1>17 DEF MonsterSubHP
    <2>3. SessionOK'
        BY <1>17 DEF MonsterSubHP
    <2>4. LootOK'
        BY <1>17 DEF MonsterSubHP
    <2> QED
        BY <2>1, <2>2, <2>3, <2>4
<1>18. ASSUME NEW p \in Players, MonsterHitRead(p) PROVE TypeOK'
    <2>1. LifeOK'
        BY <1>18 DEF MonsterHitRead
    <2>2. EventsOK'
        BY <1>18 DEF MonsterHitRead
    <2>3. SessionOK'
        BY <1>18 DEF MonsterHitRead
    <2>4. LootOK'
        BY <1>18 DEF MonsterHitRead
    <2> QED
        BY <2>1, <2>2, <2>3, <2>4
<1>19. ASSUME NEW p \in Players, ItemId(p) PROVE TypeOK'
    <2>1. LifeOK'
        BY <1>19 DEF ItemId
    <2>2. EventsOK'
        BY <1>19 DEF ItemId
    <2>3. SessionOK'
        BY <1>19 DEF ItemId
    <2>4. LootOK'
        BY <1>19 DEF ItemId
    <2> QED
        BY <2>1, <2>2, <2>3, <2>4
<1>20. ASSUME NEW p \in Players, ItemNext(p) PROVE TypeOK'
    <2>1. LifeOK'
        BY <1>20 DEF ItemNext
    <2>2. EventsOK'
        BY <1>20 DEF ItemNext
    <2>3. SessionOK'
        BY <1>20 DEF ItemNext
    <2>4. LootOK'
        BY <1>20 DEF ItemNext
    <2> QED
        BY <2>1, <2>2, <2>3, <2>4
<1>21. ASSUME NEW p \in Players, ItemToSector(p) PROVE TypeOK'
    <2>1. LifeOK'
        BY <1>21 DEF ItemToSector
    <2>2. EventsOK'
        BY <1>21 DEF ItemToSector
    <2>3. SessionOK'
        BY <1>21 DEF ItemToSector
    <2>4. LootOK'
        BY <1>21 DEF ItemToSector
    <2> QED
        BY <2>1, <2>2, <2>3, <2>4
<1>22. ASSUME NEW p \in Players, ItemToTable(p) PROVE TypeOK'
    <2>1. LifeOK'
        BY <1>22 DEF ItemToTable
    <2>2. EventsOK'
        BY <1>22 DEF ItemToTable
    <2>3. SessionOK'
        BY <1>22 DEF ItemToTable
    <2>4. LootOK'
        BY <1>22 DEF ItemToTable
    <2> QED
        BY <2>1, <2>2, <2>3, <2>4
<1>23. ASSUME NEW p \in Players, MonsterKill(p) PROVE TypeOK'
    <2>1. LifeOK'
        BY <1>23 DEF MonsterKill
    <2>2. EventsOK'
        BY <1>23 DEF MonsterKill
    <2>3. SessionOK'
        BY <1>23 DEF MonsterKill
    <2>4. LootOK'
        BY <1>23 DEF MonsterKill
    <2> QED
        BY <2>1, <2>2, <2>3, <2>4
<1>24. ASSUME NEW p \in Players, Reward(p) PROVE TypeOK'
    <2>1. LifeOK'
        BY <1>24 DEF Reward
    <2>2. EventsOK'
        BY <1>24 DEF Reward
    <2>3. SessionOK'
        BY <1>24 DEF Reward
    <2>4. LootOK'
        BY <1>24 DEF Reward
    <2> QED
        BY <2>1, <2>2, <2>3, <2>4
<1>25. ASSUME NEW p \in Players, Rest(p) PROVE TypeOK'
    <2>1. LifeOK'
        BY <1>25 DEF Rest
    <2>2. EventsOK'
        BY <1>25 DEF Rest
    <2>3. SessionOK'
        BY <1>25 DEF Rest
    <2>4. LootOK'
        BY <1>25 DEF Rest
    <2> QED
        BY <2>1, <2>2, <2>3, <2>4
<1>26. ASSUME NEW p \in Players, PickUpPacket(p) PROVE TypeOK'
    <2>1. LifeOK'
        BY <1>26 DEF PickUpPacket
    <2>2. EventsOK'
        BY <1>26 DEF PickUpPacket
    <2>3. SessionOK'
        BY <1>26 DEF PickUpPacket
    <2>4. LootOK'
        BY <1>26 DEF PickUpPacket
    <2> QED
        BY <2>1, <2>2, <2>3, <2>4
<1>27. ASSUME NEW p \in Players, Find(p) PROVE TypeOK'
    <2>1. LifeOK'
        BY <1>27 DEF Find
    <2>2. EventsOK'
        BY <1>27 DEF Find
    <2>3. SessionOK'
        <3>1. CASE \E i \in ItemIds : /\ table[i] \in Monsters
                                      /\ at' = [at EXCEPT ![p] = "eat"]
                                      /\ item' = [item EXCEPT ![p] = i]
                                      /\ foe' = [foe EXCEPT ![p] = table[i]]
            BY <3>1
        <3>2. CASE at' = [at EXCEPT ![p] = "idle"] /\ UNCHANGED <<foe, item>>
            BY <3>2
        <3> QED
            BY <1>27, <3>1, <3>2 DEF Find
    <2>4. LootOK'
        BY <1>27 DEF Find
    <2> QED
        BY <2>1, <2>2, <2>3, <2>4
<1>28. ASSUME NEW p \in Players, Eat(p) PROVE TypeOK'
    <2>1. LifeOK'
        BY <1>28 DEF Eat
    <2>2. EventsOK'
        BY <1>28 DEF Eat
    <2>3. SessionOK'
        BY <1>28 DEF Eat
    <2>4. LootOK'
        BY <1>28 DEF Eat
    <2> QED
        BY <2>1, <2>2, <2>3, <2>4
<1>29. ASSUME NEW p \in Players, EatenFromSector(p) PROVE TypeOK'
    <2>1. LifeOK'
        BY <1>29 DEF EatenFromSector
    <2>2. EventsOK'
        BY <1>29 DEF EatenFromSector
    <2>3. SessionOK'
        BY <1>29 DEF EatenFromSector
    <2>4. LootOK'
        BY <1>29 DEF EatenFromSector
    <2> QED
        BY <2>1, <2>2, <2>3, <2>4
<1>30. ASSUME NEW p \in Players, EatenFromTable(p) PROVE TypeOK'
    <2>1. LifeOK'
        BY <1>30 DEF EatenFromTable
    <2>2. EventsOK'
        BY <1>30 DEF EatenFromTable
    <2>3. SessionOK'
        BY <1>30 DEF EatenFromTable
    <2>4. LootOK'
        BY <1>30 DEF EatenFromTable
    <2> QED
        BY <2>1, <2>2, <2>3, <2>4
<1>31. ASSUME NEW p \in Players, Leave(p) PROVE TypeOK'
    <2>1. LifeOK'
        BY <1>31 DEF Leave
    <2>2. EventsOK'
        BY <1>31 DEF Leave
    <2>3. SessionOK'
        BY <1>31 DEF Leave
    <2>4. LootOK'
        BY <1>31 DEF Leave
    <2> QED
        BY <2>1, <2>2, <2>3, <2>4
<1>32. CASE UNCHANGED vars
    BY <1>32 DEF vars
<1> HIDE CombatAssumption DEF TypeOK, LifeOK, EventsOK, SessionOK, LootOK,
        life, heal, events, session, loot, Goto, Take, Takes, Deals, Move, SetState, EventPoints, SessionPoints,
        FightPoints, MakePoints, EatPoints, ItemIds
<1> QED
    BY <1>1, <1>2, <1>3, <1>4, <1>5, <1>6, <1>7, <1>8, <1>9, <1>10, <1>11, <1>12, <1>13, <1>14, <1>15, <1>16, <1>17, <1>18, <1>19, <1>20, <1>21, <1>22, <1>23, <1>24, <1>25, <1>26, <1>27, <1>28, <1>29, <1>30, <1>31, <1>32
    DEF Next, EventStep, SessionStep

\* Type correctness, for any number of players, monsters and workers.
THEOREM Typing == Spec => []TypeOK
<1>1. Init => TypeOK
    BY TypingInit
<1>2. TypeOK /\ [Next]_vars => TypeOK'
    BY TypingStep
<1> QED
    BY <1>1, <1>2, PTL DEF Spec

-----------------------------------------------------------------------------
(***************************************************************************)
(* Death and revival.                                                      *)
(***************************************************************************)

\* What the threads with a player's packets and with his HEAL event leave alone.
LEMMA SessionsDoNotKill ==
    ASSUME NEW p \in Players,
           AttackPacket(p) \/ PickUpPacket(p) \/ SessionStep(p) \/ HealEvent(p) \/ HealStore(p)
    PROVE  UNCHANGED <<alive, inGame, revives, pc, target>>
<1> USE DEF life, events, heal, session, loot
<1>1. CASE HealEvent(p)
    BY <1>1 DEF HealEvent
<1>2. CASE HealStore(p)
    BY <1>2 DEF HealStore
<1>3. CASE AttackPacket(p)
    BY <1>3 DEF AttackPacket
<1>4. CASE AttackCheck(p)
    BY <1>4 DEF AttackCheck
<1>5. CASE Swing(p)
    BY <1>5 DEF Swing
<1>6. CASE Aim(p)
    BY <1>6 DEF Aim
<1>7. CASE MonsterSubHP(p)
    BY <1>7 DEF MonsterSubHP
<1>8. CASE MonsterHitRead(p)
    BY <1>8 DEF MonsterHitRead
<1>9. CASE ItemId(p)
    BY <1>9 DEF ItemId
<1>10. CASE ItemNext(p)
    BY <1>10 DEF ItemNext
<1>11. CASE ItemToSector(p)
    BY <1>11 DEF ItemToSector
<1>12. CASE ItemToTable(p)
    BY <1>12 DEF ItemToTable
<1>13. CASE MonsterKill(p)
    BY <1>13 DEF MonsterKill
<1>14. CASE Reward(p)
    BY <1>14 DEF Reward
<1>15. CASE Rest(p)
    BY <1>15 DEF Rest
<1>16. CASE PickUpPacket(p)
    BY <1>16 DEF PickUpPacket
<1>17. CASE Find(p)
    BY <1>17 DEF Find
<1>18. CASE Eat(p)
    BY <1>18 DEF Eat
<1>19. CASE EatenFromSector(p)
    BY <1>19 DEF EatenFromSector
<1>20. CASE EatenFromTable(p)
    BY <1>20 DEF EatenFromTable
<1> QED
    BY <1>1, <1>2, <1>3, <1>4, <1>5, <1>6, <1>7, <1>8, <1>9, <1>10, <1>11, <1>12, <1>13, <1>14, <1>15, <1>16, <1>17, <1>18, <1>19, <1>20 DEF SessionStep

LEMMA OneReviveInit == Init => OneRevivePerDeath
BY DEF Init, OneRevivePerDeath, HoldsRevive

LEMMA OneReviveStep == TypeOK /\ OneRevivePerDeath /\ [Next]_vars => OneRevivePerDeath'
<1> SUFFICES ASSUME TypeOK, OneRevivePerDeath, [Next]_vars PROVE OneRevivePerDeath'
    OBVIOUS
<1> USE DEF OneRevivePerDeath, HoldsRevive, TypeOK, LifeOK, EventsOK, life, Goto, Take
<1>1. ASSUME NEW w \in Workers, NEW p \in Players, Strike(w, p) PROVE OneRevivePerDeath'
    BY <1>1 DEF Strike
<1>2. ASSUME NEW w \in Workers, NEW p \in Players, ReviveEvent(w, p) PROVE OneRevivePerDeath'
    <2>1. pc[w] = "idle" /\ revives[p] > 0 /\ UNCHANGED <<alive, inGame>>
          /\ revives' = [revives EXCEPT ![p] = @ - 1]
        BY <1>2 DEF ReviveEvent
    <2>2. CASE pc' = [pc EXCEPT ![w] = "exchange"] /\ target' = [target EXCEPT ![w] = p]
        BY <2>1, <2>2
    <2>3. CASE ~inGame[p] /\ pc' = [pc EXCEPT ![w] = "idle"] /\ target' = [target EXCEPT ![w] = Nobody]
        BY <2>1, <2>3
    <2> QED
        BY <1>2, <2>2, <2>3 DEF ReviveEvent
<1>3. ASSUME NEW w \in Workers, SubHP(w) PROVE OneRevivePerDeath'
    BY <1>3 DEF SubHP
<1>4. ASSUME NEW w \in Workers, HitRead(w) PROVE OneRevivePerDeath'
    <2>1. PICK x \in {"idle", "kill"} : pc' = [pc EXCEPT ![w] = x]
        BY <1>4 DEF HitRead
    <2>2. pc[w] = "hitRead" /\ UNCHANGED <<alive, inGame, revives>>
        BY <1>4 DEF HitRead
    <2>3. target' \in [Workers -> Players \union {Nobody}]
          /\ \A v \in Workers : v # w => target'[v] = target[v]
        BY <1>4 DEF HitRead
    <2>4. \A v \in Workers : \A q \in Players : HoldsRevive(v, q)' <=> HoldsRevive(v, q)
        BY <2>1, <2>2, <2>3
    <2> HIDE DEF HoldsRevive
    <2> QED
        BY <2>2, <2>4
<1>5. ASSUME NEW w \in Workers, Kill(w) PROVE OneRevivePerDeath'
    <2>1. /\ pc[w] = "kill" /\ target[w] \in Players
          /\ alive' = [alive EXCEPT ![target[w]] = FALSE]
          /\ UNCHANGED <<inGame, revives>>
        BY <1>5 DEF Kill
    <2>2. CASE alive[target[w]]
        <3>1. /\ pc' = [pc EXCEPT ![w] = "killState"]
              /\ target' = target
            BY <1>5, <2>2 DEF Kill
        <3>2. revives[target[w]] = 0 /\ \A v \in Workers : ~HoldsRevive(v, target[w])
            BY <2>1, <2>2
        <3>3. \A v \in Workers, q \in Players :
                 HoldsRevive(v, q)' <=> HoldsRevive(v, q) \/ (v = w /\ q = target[w])
            BY <2>1, <3>1
        <3> HIDE DEF HoldsRevive
        <3> QED
            BY <2>1, <3>2, <3>3
    <2>3. CASE ~alive[target[w]]
        <3>1. alive' = alive
            BY <2>1, <2>3
        <3>2. pc' = [pc EXCEPT ![w] = "idle"]
            BY <1>5, <2>3 DEF Kill
        <3>3. \A v \in Workers : v # w => target'[v] = target[v]
            BY <1>5 DEF Kill
        <3>4. \A v \in Workers, q \in Players : HoldsRevive(v, q)' <=> HoldsRevive(v, q)
            BY <2>1, <3>2, <3>3
        <3> HIDE DEF HoldsRevive
        <3> QED
            BY <2>1, <3>1, <3>4
    <2> QED
        BY <2>2, <2>3
<1>6. ASSUME NEW w \in Workers, KillState(w) PROVE OneRevivePerDeath'
    BY <1>6 DEF KillState
<1>7. ASSUME NEW w \in Workers, KillAdd(w) PROVE OneRevivePerDeath'
    BY <1>7 DEF KillAdd
<1>8. ASSUME NEW w \in Workers, Revive(w) PROVE OneRevivePerDeath'
    BY <1>8 DEF Revive
<1>9. ASSUME NEW w \in Workers, ReviveHP(w) PROVE OneRevivePerDeath'
    BY <1>9 DEF ReviveHP
<1>10. ASSUME NEW w \in Workers, ReviveState(w) PROVE OneRevivePerDeath'
    BY <1>10 DEF ReviveState
<1>11. ASSUME NEW p \in Players, Leave(p) PROVE OneRevivePerDeath'
    BY <1>11 DEF Leave, events
<1>12. CASE UNCHANGED <<alive, inGame, revives, pc, target>>
    BY <1>12
<1> HIDE DEF OneRevivePerDeath, TypeOK
<1> QED
    BY SessionsDoNotKill, <1>1, <1>2, <1>3, <1>4, <1>5, <1>6, <1>7, <1>8, <1>9, <1>10, <1>11, <1>12
    DEF Next, EventStep, vars, life, events

\* However blows and revivals meet, each death of a player has exactly one
\* REVIVE and a live player has none.
THEOREM OneRevive == Spec => []OneRevivePerDeath
<1>1. Init => TypeOK /\ OneRevivePerDeath
    BY TypingInit, OneReviveInit
<1>2. TypeOK /\ OneRevivePerDeath /\ [Next]_vars => (TypeOK /\ OneRevivePerDeath)'
    BY TypingStep, OneReviveStep
<1> QED
    BY <1>1, <1>2, PTL DEF Spec

LEMMA ShownInit == Init => AliveIsNotShownDead
BY DEF Init, AliveIsNotShownDead

LEMMA ShownStep ==
    TypeOK /\ OneRevivePerDeath /\ AliveIsNotShownDead /\ [Next]_vars => AliveIsNotShownDead'
<1> SUFFICES ASSUME TypeOK, OneRevivePerDeath, AliveIsNotShownDead, [Next]_vars
             PROVE  AliveIsNotShownDead'
    OBVIOUS
<1> USE DEF AliveIsNotShownDead, TypeOK, LifeOK, EventsOK, life, Goto, Take, SetState
<1>1. ASSUME NEW w \in Workers, NEW p \in Players, Strike(w, p) PROVE AliveIsNotShownDead'
    BY <1>1 DEF Strike
<1>2. ASSUME NEW w \in Workers, NEW p \in Players, ReviveEvent(w, p) PROVE AliveIsNotShownDead'
    BY <1>2 DEF ReviveEvent
<1>3. ASSUME NEW w \in Workers, SubHP(w) PROVE AliveIsNotShownDead'
    BY <1>3 DEF SubHP
<1>4. ASSUME NEW w \in Workers, HitRead(w) PROVE AliveIsNotShownDead'
    BY <1>4 DEF HitRead
<1>5. ASSUME NEW w \in Workers, Kill(w) PROVE AliveIsNotShownDead'
    BY <1>5 DEF Kill
<1>6. ASSUME NEW w \in Workers, KillState(w) PROVE AliveIsNotShownDead'
    BY <1>6 DEF OneRevivePerDeath, HoldsRevive, KillState
<1>7. ASSUME NEW w \in Workers, KillAdd(w) PROVE AliveIsNotShownDead'
    BY <1>7 DEF KillAdd
<1>8. ASSUME NEW w \in Workers, Revive(w) PROVE AliveIsNotShownDead'
    BY <1>8 DEF Revive
<1>9. ASSUME NEW w \in Workers, ReviveHP(w) PROVE AliveIsNotShownDead'
    BY <1>9 DEF ReviveHP
<1>10. ASSUME NEW w \in Workers, ReviveState(w) PROVE AliveIsNotShownDead'
    BY <1>10 DEF ReviveState
<1>11. ASSUME NEW p \in Players, Leave(p) PROVE AliveIsNotShownDead'
    BY <1>11 DEF events, Leave
<1>12. ASSUME NEW p \in Players, AttackPacket(p) \/ Swing(p) \/ Rest(p) PROVE AliveIsNotShownDead'
    <2>1. state' = [state EXCEPT ![p] = "ATTACK"] \/ state' = [state EXCEPT ![p] = "IDLE"] \/ UNCHANGED state
        BY <1>12 DEF AttackPacket, Swing, Rest
    <2>2. UNCHANGED <<alive, pc, target>>
        BY <1>12, SessionsDoNotKill DEF SessionStep
    <2> QED
        BY <2>1, <2>2
<1>13. CASE UNCHANGED <<alive, state, pc, target>>
    BY <1>13
<1>14. ASSUME NEW p \in Players, PickUpPacket(p) \/ SessionStep(p) \/ HealEvent(p) \/ HealStore(p),
              ~Swing(p), ~Rest(p)
       PROVE  UNCHANGED state
    BY <1>14 DEF PickUpPacket, SessionStep, HealEvent, HealStore, AttackCheck, Aim, MonsterSubHP, MonsterHitRead, ItemId, ItemNext, ItemToSector,
        ItemToTable, MonsterKill, Reward, Find, Eat, EatenFromSector, EatenFromTable
<1> HIDE DEF AliveIsNotShownDead, TypeOK
<1> QED
    BY SessionsDoNotKill, <1>1, <1>2, <1>3, <1>4, <1>5, <1>6, <1>7, <1>8, <1>9, <1>10, <1>11, <1>12, <1>13, <1>14
    DEF Next, EventStep, SessionStep, vars, life, events

\* A live player is not shown dead once his revival is over.
THEOREM ShownAlive == Spec => []AliveIsNotShownDead
<1>1. Init => TypeOK /\ OneRevivePerDeath /\ AliveIsNotShownDead
    BY TypingInit, OneReviveInit, ShownInit
<1>2. TypeOK /\ OneRevivePerDeath /\ AliveIsNotShownDead /\ [Next]_vars
        => (TypeOK /\ OneRevivePerDeath /\ AliveIsNotShownDead)'
    BY TypingStep, OneReviveStep, ShownStep
<1> QED
    BY <1>1, <1>2, PTL DEF Spec

-----------------------------------------------------------------------------
(***************************************************************************)
(* Experience and potions.                                                 *)
(***************************************************************************)

\* What the threads with events, and a departure, leave alone.
LEMMA EventsDoNotLoot ==
    ASSUME \/ \E w \in Workers :
                EventStep(w) \/ \E p \in Players : Strike(w, p) \/ ReviveEvent(w, p)
           \/ \E p \in Players : HealEvent(p) \/ HealStore(p) \/ Leave(p)
    PROVE  UNCHANGED <<session, loot>>
BY DEF EventStep, SubHP, HitRead, Kill, KillState, KillAdd, Revive, ReviveHP, ReviveState,
       Strike, ReviveEvent, HealEvent, HealStore, Leave

Killing(p, m) ==
    foe[p] = m /\ at[p] \in {"mRead", "idRead", "idWrite", "sectorAdd", "tableAdd", "mKill"}

\* A monster without hit points is dead, or somebody is going to find out.
KillComes ==
    \A m \in Monsters : mhp[m] <= 0 => ~malive[m] \/ \E p \in Players : Killing(p, m)

\* Hit points do not come back.
PaidIsDown == \A m \in paid : mhp[m] <= 0

LEMMA RewardInit == Init => KillComes /\ PaidIsDown
BY CombatAssumption DEF Init, KillComes, PaidIsDown

LEMMA KillComesStep == TypeOK /\ KillComes /\ [Next]_vars => KillComes'
<1> SUFFICES ASSUME TypeOK, KillComes, [Next]_vars PROVE KillComes'
    OBVIOUS
<1> USE DEF TypeOK, SessionOK, LootOK, KillComes, Killing, Move, session, loot
<1>1. ASSUME NEW p \in Players, AttackPacket(p) PROVE KillComes'
    BY CombatAssumption, <1>1 DEF AttackPacket
<1>2. ASSUME NEW p \in Players, AttackCheck(p) PROVE KillComes'
    BY CombatAssumption, <1>2 DEF AttackCheck
<1>3. ASSUME NEW p \in Players, Swing(p) PROVE KillComes'
    BY CombatAssumption, <1>3 DEF Swing
<1>4. ASSUME NEW p \in Players, Aim(p) PROVE KillComes'
    BY CombatAssumption, <1>4 DEF Aim
<1>5. ASSUME NEW p \in Players, MonsterSubHP(p) PROVE KillComes'
    BY CombatAssumption, <1>5 DEF MonsterSubHP
<1>6. ASSUME NEW p \in Players, MonsterHitRead(p) PROVE KillComes'
    BY CombatAssumption, <1>6 DEF MonsterHitRead
<1>7. ASSUME NEW p \in Players, ItemId(p) PROVE KillComes'
    BY CombatAssumption, <1>7 DEF ItemId
<1>8. ASSUME NEW p \in Players, ItemNext(p) PROVE KillComes'
    BY CombatAssumption, <1>8 DEF ItemNext
<1>9. ASSUME NEW p \in Players, ItemToSector(p) PROVE KillComes'
    BY CombatAssumption, <1>9 DEF ItemToSector
<1>10. ASSUME NEW p \in Players, ItemToTable(p) PROVE KillComes'
    BY CombatAssumption, <1>10 DEF ItemToTable
<1>11. ASSUME NEW p \in Players, MonsterKill(p) PROVE KillComes'
    BY CombatAssumption, <1>11 DEF MonsterKill
<1>12. ASSUME NEW p \in Players, Reward(p) PROVE KillComes'
    BY CombatAssumption, <1>12 DEF Reward
<1>13. ASSUME NEW p \in Players, Rest(p) PROVE KillComes'
    BY CombatAssumption, <1>13 DEF Rest
<1>14. ASSUME NEW p \in Players, PickUpPacket(p) PROVE KillComes'
    BY CombatAssumption, <1>14 DEF PickUpPacket
<1>15. ASSUME NEW p \in Players, Find(p) PROVE KillComes'
    BY CombatAssumption, <1>15 DEF Find
<1>16. ASSUME NEW p \in Players, Eat(p) PROVE KillComes'
    BY CombatAssumption, <1>16 DEF Eat
<1>17. ASSUME NEW p \in Players, EatenFromSector(p) PROVE KillComes'
    BY CombatAssumption, <1>17 DEF EatenFromSector
<1>18. ASSUME NEW p \in Players, EatenFromTable(p) PROVE KillComes'
    BY CombatAssumption, <1>18 DEF EatenFromTable
<1>19. CASE UNCHANGED <<session, loot>>
    BY <1>19
<1> HIDE DEF TypeOK, SessionOK, LootOK, KillComes, Killing, Move, session, loot
<1> QED
    BY EventsDoNotLoot, <1>1, <1>2, <1>3, <1>4, <1>5, <1>6, <1>7, <1>8, <1>9, <1>10, <1>11, <1>12, <1>13, <1>14, <1>15, <1>16, <1>17, <1>18, <1>19
    DEF Next, SessionStep, vars

LEMMA PaidStep == TypeOK /\ PaidIsDown /\ [Next]_vars => PaidIsDown'
<1> SUFFICES ASSUME TypeOK, PaidIsDown, [Next]_vars PROVE PaidIsDown'
    OBVIOUS
<1> USE DEF TypeOK, SessionOK, LootOK, PaidIsDown, Move, session, loot, FightPoints
<1>1. ASSUME NEW p \in Players, AttackPacket(p) PROVE PaidIsDown'
    BY CombatAssumption, <1>1 DEF AttackPacket
<1>2. ASSUME NEW p \in Players, AttackCheck(p) PROVE PaidIsDown'
    BY CombatAssumption, <1>2 DEF AttackCheck
<1>3. ASSUME NEW p \in Players, Swing(p) PROVE PaidIsDown'
    BY CombatAssumption, <1>3 DEF Swing
<1>4. ASSUME NEW p \in Players, Aim(p) PROVE PaidIsDown'
    BY CombatAssumption, <1>4 DEF Aim
<1>5. ASSUME NEW p \in Players, MonsterSubHP(p) PROVE PaidIsDown'
    BY CombatAssumption, <1>5 DEF MonsterSubHP
<1>6. ASSUME NEW p \in Players, MonsterHitRead(p) PROVE PaidIsDown'
    BY CombatAssumption, <1>6 DEF MonsterHitRead
<1>7. ASSUME NEW p \in Players, ItemId(p) PROVE PaidIsDown'
    BY CombatAssumption, <1>7 DEF ItemId
<1>8. ASSUME NEW p \in Players, ItemNext(p) PROVE PaidIsDown'
    BY CombatAssumption, <1>8 DEF ItemNext
<1>9. ASSUME NEW p \in Players, ItemToSector(p) PROVE PaidIsDown'
    BY CombatAssumption, <1>9 DEF ItemToSector
<1>10. ASSUME NEW p \in Players, ItemToTable(p) PROVE PaidIsDown'
    BY CombatAssumption, <1>10 DEF ItemToTable
<1>11. ASSUME NEW p \in Players, MonsterKill(p) PROVE PaidIsDown'
    BY CombatAssumption, <1>11 DEF MonsterKill
<1>12. ASSUME NEW p \in Players, Reward(p) PROVE PaidIsDown'
    BY CombatAssumption, <1>12 DEF Reward
<1>13. ASSUME NEW p \in Players, Rest(p) PROVE PaidIsDown'
    BY CombatAssumption, <1>13 DEF Rest
<1>14. ASSUME NEW p \in Players, PickUpPacket(p) PROVE PaidIsDown'
    BY CombatAssumption, <1>14 DEF PickUpPacket
<1>15. ASSUME NEW p \in Players, Find(p) PROVE PaidIsDown'
    BY CombatAssumption, <1>15 DEF Find
<1>16. ASSUME NEW p \in Players, Eat(p) PROVE PaidIsDown'
    BY CombatAssumption, <1>16 DEF Eat
<1>17. ASSUME NEW p \in Players, EatenFromSector(p) PROVE PaidIsDown'
    BY CombatAssumption, <1>17 DEF EatenFromSector
<1>18. ASSUME NEW p \in Players, EatenFromTable(p) PROVE PaidIsDown'
    BY CombatAssumption, <1>18 DEF EatenFromTable
<1>19. CASE UNCHANGED <<session, loot>>
    BY <1>19
<1> HIDE DEF TypeOK, SessionOK, LootOK, PaidIsDown, Move, session, loot, FightPoints
<1> QED
    BY EventsDoNotLoot, <1>1, <1>2, <1>3, <1>4, <1>5, <1>6, <1>7, <1>8, <1>9, <1>10, <1>11, <1>12, <1>13, <1>14, <1>15, <1>16, <1>17, <1>18, <1>19
    DEF Next, SessionStep, vars

\* Experience is only gained for a monster that is dead or about to die, for
\* any number of players who hit it at once.
THEOREM RewardForKill == Spec => []RewardMeansKill
<1>1. Init => TypeOK /\ KillComes /\ PaidIsDown
    BY TypingInit, RewardInit
<1>2. TypeOK /\ KillComes /\ PaidIsDown /\ [Next]_vars => (TypeOK /\ KillComes /\ PaidIsDown)'
    BY TypingStep, KillComesStep, PaidStep
<1>3. TypeOK /\ KillComes /\ PaidIsDown => RewardMeansKill
    BY DEF TypeOK, LootOK, KillComes, Killing, PaidIsDown, RewardMeansKill
<1> QED
    BY <1>1, <1>2, <1>3, PTL DEF Spec

\* What is about to be entered into the table lies in its sector, if the id
\* is new; what is being eaten has been in the table.
Entered ==
    \A p \in Players :
        /\ at[p] = "tableAdd" /\ table[item[p]] = Absent => <<item[p], foe[p]>> \in onBoard
        /\ at[p] \in EatPoints => table[item[p]] # Absent

LEMMA PotionInit == Init => Entered /\ PotionReachable
BY MarkersAssumption DEF Init, Entered, PotionReachable, EatPoints

LEMMA EnteredStep == TypeOK /\ Entered /\ [Next]_vars => Entered'
<1> SUFFICES ASSUME TypeOK, Entered, [Next]_vars PROVE Entered'
    OBVIOUS
<1> USE DEF TypeOK, SessionOK, LootOK, Entered, Move, session, loot, MakePoints, EatPoints
<1>1. ASSUME NEW p \in Players, AttackPacket(p) PROVE Entered'
    BY MarkersAssumption, <1>1 DEF AttackPacket
<1>2. ASSUME NEW p \in Players, AttackCheck(p) PROVE Entered'
    BY MarkersAssumption, <1>2 DEF AttackCheck
<1>3. ASSUME NEW p \in Players, Swing(p) PROVE Entered'
    BY MarkersAssumption, <1>3 DEF Swing
<1>4. ASSUME NEW p \in Players, Aim(p) PROVE Entered'
    BY MarkersAssumption, <1>4 DEF Aim
<1>5. ASSUME NEW p \in Players, MonsterSubHP(p) PROVE Entered'
    BY MarkersAssumption, <1>5 DEF MonsterSubHP
<1>6. ASSUME NEW p \in Players, MonsterHitRead(p) PROVE Entered'
    BY MarkersAssumption, <1>6 DEF MonsterHitRead
<1>7. ASSUME NEW p \in Players, ItemId(p) PROVE Entered'
    BY MarkersAssumption, <1>7 DEF ItemId
<1>8. ASSUME NEW p \in Players, ItemNext(p) PROVE Entered'
    BY MarkersAssumption, <1>8 DEF ItemNext
<1>9. ASSUME NEW p \in Players, ItemToSector(p) PROVE Entered'
    BY MarkersAssumption, <1>9 DEF ItemToSector
<1>10. ASSUME NEW p \in Players, ItemToTable(p) PROVE Entered'
    BY MarkersAssumption, <1>10 DEF ItemToTable
<1>11. ASSUME NEW p \in Players, MonsterKill(p) PROVE Entered'
    BY MarkersAssumption, <1>11 DEF MonsterKill
<1>12. ASSUME NEW p \in Players, Reward(p) PROVE Entered'
    BY MarkersAssumption, <1>12 DEF Reward
<1>13. ASSUME NEW p \in Players, Rest(p) PROVE Entered'
    BY MarkersAssumption, <1>13 DEF Rest
<1>14. ASSUME NEW p \in Players, PickUpPacket(p) PROVE Entered'
    BY MarkersAssumption, <1>14 DEF PickUpPacket
<1>15. ASSUME NEW p \in Players, Find(p) PROVE Entered'
    BY MarkersAssumption, <1>15 DEF Find
<1>16. ASSUME NEW p \in Players, Eat(p) PROVE Entered'
    BY MarkersAssumption, <1>16 DEF Eat
<1>17. ASSUME NEW p \in Players, EatenFromSector(p) PROVE Entered'
    BY MarkersAssumption, <1>17 DEF EatenFromSector
<1>18. ASSUME NEW p \in Players, EatenFromTable(p) PROVE Entered'
    <2>1. Gone # Absent
        BY DEF Gone, Absent
    <2> QED
        BY <1>18, <2>1 DEF EatenFromTable
<1>19. CASE UNCHANGED <<session, loot>>
    BY <1>19
<1> HIDE DEF TypeOK, SessionOK, LootOK, Entered, Move, session, loot, MakePoints, EatPoints
<1> QED
    BY EventsDoNotLoot, <1>1, <1>2, <1>3, <1>4, <1>5, <1>6, <1>7, <1>8, <1>9, <1>10, <1>11, <1>12, <1>13, <1>14, <1>15, <1>16, <1>17, <1>18, <1>19
    DEF Next, SessionStep, vars

LEMMA PotionStep == TypeOK /\ Entered /\ PotionReachable /\ [Next]_vars => PotionReachable'
<1> SUFFICES ASSUME TypeOK, Entered, PotionReachable, [Next]_vars PROVE PotionReachable'
    OBVIOUS
<1> USE DEF TypeOK, SessionOK, LootOK, Entered, PotionReachable, Move, session, loot, MakePoints, EatPoints
<1>1. ASSUME NEW p \in Players, AttackPacket(p) PROVE PotionReachable'
    BY MarkersAssumption, <1>1 DEF AttackPacket
<1>2. ASSUME NEW p \in Players, AttackCheck(p) PROVE PotionReachable'
    BY MarkersAssumption, <1>2 DEF AttackCheck
<1>3. ASSUME NEW p \in Players, Swing(p) PROVE PotionReachable'
    BY MarkersAssumption, <1>3 DEF Swing
<1>4. ASSUME NEW p \in Players, Aim(p) PROVE PotionReachable'
    BY MarkersAssumption, <1>4 DEF Aim
<1>5. ASSUME NEW p \in Players, MonsterSubHP(p) PROVE PotionReachable'
    BY MarkersAssumption, <1>5 DEF MonsterSubHP
<1>6. ASSUME NEW p \in Players, MonsterHitRead(p) PROVE PotionReachable'
    BY MarkersAssumption, <1>6 DEF MonsterHitRead
<1>7. ASSUME NEW p \in Players, ItemId(p) PROVE PotionReachable'
    BY MarkersAssumption, <1>7 DEF ItemId
<1>8. ASSUME NEW p \in Players, ItemNext(p) PROVE PotionReachable'
    BY MarkersAssumption, <1>8 DEF ItemNext
<1>9. ASSUME NEW p \in Players, ItemToSector(p) PROVE PotionReachable'
    BY MarkersAssumption, <1>9 DEF ItemToSector
<1>10. ASSUME NEW p \in Players, ItemToTable(p) PROVE PotionReachable'
    BY MarkersAssumption, <1>10 DEF ItemToTable
<1>11. ASSUME NEW p \in Players, MonsterKill(p) PROVE PotionReachable'
    BY MarkersAssumption, <1>11 DEF MonsterKill
<1>12. ASSUME NEW p \in Players, Reward(p) PROVE PotionReachable'
    BY MarkersAssumption, <1>12 DEF Reward
<1>13. ASSUME NEW p \in Players, Rest(p) PROVE PotionReachable'
    BY MarkersAssumption, <1>13 DEF Rest
<1>14. ASSUME NEW p \in Players, PickUpPacket(p) PROVE PotionReachable'
    BY MarkersAssumption, <1>14 DEF PickUpPacket
<1>15. ASSUME NEW p \in Players, Find(p) PROVE PotionReachable'
    BY MarkersAssumption, <1>15 DEF Find
<1>16. ASSUME NEW p \in Players, Eat(p) PROVE PotionReachable'
    BY MarkersAssumption, <1>16 DEF Eat
<1>17. ASSUME NEW p \in Players, EatenFromSector(p) PROVE PotionReachable'
    BY MarkersAssumption, <1>17 DEF EatenFromSector
<1>18. ASSUME NEW p \in Players, EatenFromTable(p) PROVE PotionReachable'
    BY MarkersAssumption, <1>18 DEF EatenFromTable
<1>19. CASE UNCHANGED <<session, loot>>
    BY <1>19
<1> HIDE DEF TypeOK, SessionOK, LootOK, Entered, PotionReachable, Move, session, loot, MakePoints, EatPoints
<1> QED
    BY EventsDoNotLoot, <1>1, <1>2, <1>3, <1>4, <1>5, <1>6, <1>7, <1>8, <1>9, <1>10, <1>11, <1>12, <1>13, <1>14, <1>15, <1>16, <1>17, <1>18, <1>19
    DEF Next, SessionStep, vars

\* A potion in the table is listed in its sector until somebody takes it out,
\* even when two of them have the same id.
THEOREM PotionsAreFound == Spec => []PotionReachable
<1>1. Init => TypeOK /\ Entered /\ PotionReachable
    BY TypingInit, PotionInit
<1>2. TypeOK /\ Entered /\ PotionReachable /\ [Next]_vars
        => (TypeOK /\ Entered /\ PotionReachable)'
    BY TypingStep, EnteredStep, PotionStep
<1> QED
    BY <1>1, <1>2, PTL DEF Spec
-----------------------------------------------------------------------------
(***************************************************************************)
(* Hit points.  What a player may have rises with the potions that can     *)
(* never heal him again: the one he has just drunk, and all others that    *)
(* have been taken from the table.  The one he is about to drink does not  *)
(* count, even if somebody else has taken it from the table meanwhile.     *)
(***************************************************************************)
Had(p) ==
    {i \in ItemIds : IF at[p] \in EatPoints /\ item[p] = i THEN at[p] # "eat" ELSE table[i] = Gone}

HealedWithinMeans ==
    \A p \in Players : healing[p] = "store" => healed[p] <= MaxHP + Tenth(MaxHP)

HPWithinHad ==
    \A p \in Players : hp[p] <= MaxHP + Tenth(MaxHP) + PotionHP * Cardinality(Had(p))

\* Who has less gets no more from one HEAL.
LEMMA TenthMonotone ==
    ASSUME NEW m \in Nat, NEW n \in Int, n < m
    PROVE  n + Tenth(n) <= m + Tenth(m)
<1>1. Tenth(m) = m \div 10
    BY SMT DEF Tenth
<1>2. CASE n >= 0
    BY <1>1, <1>2, SMT DEF Tenth
<1>3. CASE n < 0
    <2>1. (-n) \div 10 \in Nat
        BY <1>3, SMT
    <2> QED
        BY <1>1, <1>3, <2>1, SMT DEF Tenth
<1> QED
    BY <1>2, <1>3

LEMMA TenthOfNat == ASSUME NEW m \in Nat PROVE Tenth(m) \in Nat
BY SMT DEF Tenth

\* One more potion is worth PotionHP more.
LEMMA Worth ==
    ASSUME NEW m \in Nat, NEW n \in Nat
    PROVE  /\ PotionHP * m \in Nat
           /\ m <= n => PotionHP * m <= PotionHP * n
           /\ m + 1 <= n => PotionHP * m + PotionHP <= PotionHP * n
<1> DEFINE P == PotionHP
<1>1. P \in Nat
    BY CombatAssumption
<1>2. P * m \in Nat
    BY <1>1, SMT
<1>3. ASSUME NEW k \in Nat, NEW d \in Nat PROVE P * (k + d) = P * k + P * d
    BY <1>1, SMT
<1>4. ASSUME m <= n PROVE P * m <= P * n
    <2>1. n - m \in Nat /\ n = m + (n - m)
        BY <1>4
    <2>2. P * n = P * m + P * (n - m) /\ P * (n - m) \in Nat
        BY <1>1, <1>3, <2>1, SMT
    <2> QED
        BY <1>1, <1>2, <2>2, SMT
<1>5. ASSUME m + 1 <= n PROVE P * m + P <= P * n
    <2>1. n - (m + 1) \in Nat /\ n = (m + 1) + (n - (m + 1))
        BY <1>5
    <2>2. P * n = P * (m + 1) + P * (n - (m + 1)) /\ P * (n - (m + 1)) \in Nat
        BY <1>1, <1>3, <2>1, SMT
    <2>3. P * (m + 1) = P * m + P
        BY <1>1, <1>3, SMT
    <2> QED
        BY <1>1, <1>2, <2>2, <2>3, SMT
<1> QED
    BY <1>2, <1>4, <1>5

\* What is had stays had.
LEMMA HadGrows ==
    ASSUME TypeOK, [Next]_vars, NEW q \in Players
    PROVE  Had(q) \subseteq Had(q)'
<1> USE DEF TypeOK, SessionOK, LootOK, Had, Move, session, loot, MakePoints, EatPoints, FightPoints
<1>a. Gone # Absent /\ Gone \notin Monsters
    BY MarkersAssumption DEF Gone, Absent
<1>1. ASSUME NEW p \in Players, AttackPacket(p) PROVE Had(q) \subseteq Had(q)'
    BY <1>a, <1>1 DEF AttackPacket
<1>2. ASSUME NEW p \in Players, AttackCheck(p) PROVE Had(q) \subseteq Had(q)'
    BY <1>a, <1>2 DEF AttackCheck
<1>3. ASSUME NEW p \in Players, Swing(p) PROVE Had(q) \subseteq Had(q)'
    BY <1>a, <1>3 DEF Swing
<1>4. ASSUME NEW p \in Players, Aim(p) PROVE Had(q) \subseteq Had(q)'
    BY <1>a, <1>4 DEF Aim
<1>5. ASSUME NEW p \in Players, MonsterSubHP(p) PROVE Had(q) \subseteq Had(q)'
    BY <1>a, <1>5 DEF MonsterSubHP
<1>6. ASSUME NEW p \in Players, MonsterHitRead(p) PROVE Had(q) \subseteq Had(q)'
    BY <1>a, <1>6 DEF MonsterHitRead
<1>7. ASSUME NEW p \in Players, ItemId(p) PROVE Had(q) \subseteq Had(q)'
    BY <1>a, <1>7 DEF ItemId
<1>8. ASSUME NEW p \in Players, ItemNext(p) PROVE Had(q) \subseteq Had(q)'
    BY <1>a, <1>8 DEF ItemNext
<1>9. ASSUME NEW p \in Players, ItemToSector(p) PROVE Had(q) \subseteq Had(q)'
    BY <1>a, <1>9 DEF ItemToSector
<1>10. ASSUME NEW p \in Players, ItemToTable(p) PROVE Had(q) \subseteq Had(q)'
    BY <1>a, <1>10 DEF ItemToTable
<1>11. ASSUME NEW p \in Players, MonsterKill(p) PROVE Had(q) \subseteq Had(q)'
    BY <1>a, <1>11 DEF MonsterKill
<1>12. ASSUME NEW p \in Players, Reward(p) PROVE Had(q) \subseteq Had(q)'
    BY <1>a, <1>12 DEF Reward
<1>13. ASSUME NEW p \in Players, Rest(p) PROVE Had(q) \subseteq Had(q)'
    BY <1>a, <1>13 DEF Rest
<1>14. ASSUME NEW p \in Players, PickUpPacket(p) PROVE Had(q) \subseteq Had(q)'
    BY <1>a, <1>14 DEF PickUpPacket
<1>15. ASSUME NEW p \in Players, Find(p) PROVE Had(q) \subseteq Had(q)'
    BY <1>a, <1>15 DEF Find
<1>16. ASSUME NEW p \in Players, Eat(p) PROVE Had(q) \subseteq Had(q)'
    BY <1>a, <1>16 DEF Eat
<1>17. ASSUME NEW p \in Players, EatenFromSector(p) PROVE Had(q) \subseteq Had(q)'
    BY <1>a, <1>17 DEF EatenFromSector
<1>18. ASSUME NEW p \in Players, EatenFromTable(p) PROVE Had(q) \subseteq Had(q)'
    BY <1>a, <1>18 DEF EatenFromTable
<1>19. CASE UNCHANGED <<session, loot>>
    BY <1>19
<1> HIDE DEF TypeOK, SessionOK, LootOK, Had, Move, session, loot, MakePoints, EatPoints, FightPoints
<1> QED
    BY EventsDoNotLoot, <1>1, <1>2, <1>3, <1>4, <1>5, <1>6, <1>7, <1>8, <1>9, <1>10, <1>11, <1>12, <1>13, <1>14, <1>15, <1>16, <1>17, <1>18, <1>19
    DEF Next, SessionStep, vars

\* The only ways for hit points to rise: a revival, HEAL, and a potion that
\* had not been had.
LEMMA HPRises ==
    ASSUME TypeOK, [Next]_vars, NEW q \in Players
    PROVE  \/ hp'[q] <= hp[q]
           \/ hp'[q] = MaxHP
           \/ healing[q] = "store" /\ hp'[q] = healed[q]
           \/ hp'[q] = hp[q] + PotionHP /\ item[q] \in Had(q)' \ Had(q)
<1> USE DEF TypeOK, LifeOK
<1>1. UNCHANGED hp => hp'[q] <= hp[q]
    <2>1. hp[q] \in Int
        OBVIOUS
    <2> QED
        BY <2>1
<1>2. ASSUME NEW w \in Workers, EventStep(w)
      PROVE  hp'[q] <= hp[q] \/ hp'[q] = MaxHP
    <2>1. CASE SubHP(w)
        <3>1. hp' = [hp EXCEPT ![target[w]] = @ - Damage] /\ hp[q] \in Int
            BY <2>1 DEF SubHP
        <3> QED
            BY <3>1, CombatAssumption
    <2>2. CASE ReviveHP(w)
        <3>1. hp' = [hp EXCEPT ![target[w]] = MaxHP] /\ hp[q] \in Int
            BY <2>2 DEF ReviveHP
        <3> QED
            BY <3>1
    <2>3. SubHP(w) \/ ReviveHP(w) \/ UNCHANGED hp
        BY <1>2 DEF EventStep, HitRead, Kill, KillState, KillAdd, Revive, ReviveState, life
    <2> QED
        BY <1>1, <2>1, <2>2, <2>3
<1>3. ASSUME NEW p \in Players, HealStore(p)
      PROVE  hp'[q] <= hp[q] \/ (healing[q] = "store" /\ hp'[q] = healed[q])
    <2>1. healing[p] = "store" /\ hp' = [hp EXCEPT ![p] = healed[p]] /\ hp[q] \in Int
        BY <1>3 DEF HealStore
    <2> QED
        BY <2>1
<1>4. ASSUME NEW p \in Players, Eat(p)
      PROVE  hp'[q] <= hp[q] \/ (hp'[q] = hp[q] + PotionHP /\ item[q] \in Had(q)' \ Had(q))
    <2>1. hp' = [hp EXCEPT ![p] = @ + PotionHP] /\ hp[q] \in Int
        BY <1>4 DEF Eat
    <2>2. at[p] = "eat" /\ at'[p] = "sectorRemove" /\ item'[p] = item[p] /\ item[p] \in ItemIds
        BY <1>4 DEF Eat, Move, SessionOK, EatPoints
    <2>3. item[p] \in Had(p)' \ Had(p)
        BY <2>2 DEF Had, EatPoints
    <2> QED
        BY <2>1, <2>3
<1>5. ASSUME NEW p \in Players,
             AttackPacket(p) \/ PickUpPacket(p) \/ SessionStep(p) \/ HealEvent(p) \/ Leave(p)
      PROVE  UNCHANGED hp \/ Eat(p)
    BY <1>5 DEF AttackPacket, PickUpPacket, SessionStep, HealEvent, Leave, life,
       AttackCheck, Swing, Aim, MonsterSubHP, MonsterHitRead, ItemId, ItemNext, ItemToSector,
       ItemToTable, MonsterKill, Reward, Rest, Find, EatenFromSector, EatenFromTable
<1>6. ASSUME NEW w \in Workers, NEW p \in Players, Strike(w, p) \/ ReviveEvent(w, p)
      PROVE  UNCHANGED hp
    BY <1>6 DEF Strike, ReviveEvent, life
<1>7. UNCHANGED vars => UNCHANGED hp
    BY DEF vars, life
<1> HIDE DEF TypeOK
<1> QED
    BY <1>1, <1>2, <1>3, <1>4, <1>5, <1>6, <1>7 DEF Next

LEMMA HealedStep == TypeOK /\ HealedWithinMeans /\ [Next]_vars => HealedWithinMeans'
<1> SUFFICES ASSUME TypeOK, HealedWithinMeans, [Next]_vars, NEW q \in Players,
                    healing'[q] = "store"
             PROVE  healed'[q] <= MaxHP + Tenth(MaxHP)
    BY DEF HealedWithinMeans
<1>1. ASSUME NEW p \in Players, HealEvent(p) PROVE healed'[q] <= MaxHP + Tenth(MaxHP)
    <2>1. CASE UNCHANGED <<healing, healed>>
        BY <2>1 DEF HealedWithinMeans
    <2>2. CASE hp[p] < MaxHP /\ healing' = [healing EXCEPT ![p] = "store"]
               /\ healed' = [healed EXCEPT ![p] = hp[p] + Tenth(hp[p])]
        <3>1. hp[p] \in Int /\ healing[q] \in {"idle", "store"}
            BY DEF TypeOK, LifeOK
        <3>2. hp[p] + Tenth(hp[p]) <= MaxHP + Tenth(MaxHP)
            BY <2>2, <3>1, TenthMonotone, CombatAssumption
        <3> QED
            BY <2>2, <3>1, <3>2 DEF HealedWithinMeans, TypeOK, LifeOK
    <2> QED
        BY <1>1, <2>1, <2>2 DEF HealEvent
<1>2. ASSUME NEW p \in Players, HealStore(p) PROVE healed'[q] <= MaxHP + Tenth(MaxHP)
    BY <1>2 DEF HealStore, HealedWithinMeans, TypeOK, LifeOK
<1>3. UNCHANGED <<healing, healed>> => healed'[q] <= MaxHP + Tenth(MaxHP)
    BY DEF HealedWithinMeans
<1>4. ASSUME NEW p \in Players, AttackPacket(p) \/ PickUpPacket(p) \/ SessionStep(p) \/ Leave(p)
      PROVE  UNCHANGED <<healing, healed>>
    BY <1>4 DEF AttackPacket, PickUpPacket, SessionStep, Leave, heal,
       AttackCheck, Swing, Aim, MonsterSubHP, MonsterHitRead, ItemId, ItemNext, ItemToSector,
       ItemToTable, MonsterKill, Reward, Rest, Find, Eat, EatenFromSector, EatenFromTable
<1>5. ASSUME NEW w \in Workers,
             EventStep(w) \/ \E p \in Players : Strike(w, p) \/ ReviveEvent(w, p)
      PROVE  UNCHANGED <<healing, healed>>
    BY <1>5 DEF EventStep, SubHP, HitRead, Kill, KillState, KillAdd, Revive, ReviveHP, ReviveState,
       Strike, ReviveEvent, heal
<1>6. UNCHANGED vars => UNCHANGED <<healing, healed>>
    BY DEF vars, heal
<1> QED
    BY <1>1, <1>2, <1>3, <1>4, <1>5, <1>6 DEF Next

LEMMA HadFinite ==
    ASSUME NEW potions \in SUBSET ItemIds
    PROVE  IsFiniteSet(potions) /\ Cardinality(potions) \in Nat
<1>1. IsFiniteSet(ItemIds)
    BY FS_Interval, CombatAssumption DEF ItemIds
<1> QED
    BY <1>1, FS_Subset, FS_CardinalityType

LEMMA HadStep ==
    TypeOK /\ TypeOK' /\ HealedWithinMeans /\ HPWithinHad /\ [Next]_vars => HPWithinHad'
<1> SUFFICES ASSUME TypeOK, TypeOK', HealedWithinMeans, HPWithinHad, [Next]_vars, NEW q \in Players
             PROVE  hp'[q] <= MaxHP + Tenth(MaxHP) + PotionHP * Cardinality(Had(q)')
    BY DEF HPWithinHad
<1> DEFINE before == Cardinality(Had(q))
           after == Cardinality(Had(q)')
<1>a. Had(q) \in SUBSET ItemIds /\ Had(q)' \in SUBSET ItemIds
    BY DEF Had, ItemIds
<1>1. IsFiniteSet(Had(q)') /\ after \in Nat
    BY <1>a, HadFinite
<1>2. IsFiniteSet(Had(q)) /\ before \in Nat
    BY <1>a, HadFinite
<1>3. before <= after
    BY <1>1, HadGrows, FS_Subset
<1>4. ASSUME item[q] \in Had(q)' \ Had(q) PROVE before + 1 <= after
    <2>1. Had(q) \union {item[q]} \in SUBSET Had(q)'
        BY <1>4, HadGrows
    <2>2. Cardinality(Had(q) \union {item[q]}) = before + 1
        BY <1>2, <1>4, FS_AddElement
    <2> QED
        BY <1>1, <2>1, <2>2, FS_Subset
<1>5. /\ MaxHP \in Nat /\ Tenth(MaxHP) \in Nat /\ PotionHP \in Nat
      /\ hp[q] \in Int /\ hp'[q] \in Int
    BY TenthOfNat, CombatAssumption DEF TypeOK, LifeOK
<1>6. hp[q] <= MaxHP + Tenth(MaxHP) + PotionHP * before
    BY DEF HPWithinHad
<1>7. healing[q] = "store" => healed[q] <= MaxHP + Tenth(MaxHP)
    BY DEF HealedWithinMeans
<1>8. PotionHP * before \in Nat /\ PotionHP * after \in Nat /\ PotionHP * before <= PotionHP * after
    BY <1>1, <1>2, <1>3, Worth
<1>9. before + 1 <= after => PotionHP * before + PotionHP <= PotionHP * after
    BY <1>1, <1>2, Worth
<1>10. \/ hp'[q] <= hp[q]
       \/ hp'[q] = MaxHP
       \/ healing[q] = "store" /\ hp'[q] = healed[q]
       \/ hp'[q] = hp[q] + PotionHP /\ before + 1 <= after
    BY HPRises, <1>4
<1> DEFINE worth == PotionHP * before
           limit == PotionHP * after
<1>11. hp'[q] <= MaxHP + Tenth(MaxHP) + limit
    <2>1. worth \in Nat /\ limit \in Nat /\ worth <= limit
        BY <1>8
    <2>2. before + 1 <= after => worth + PotionHP <= limit
        BY <1>9
    <2>3. hp[q] <= MaxHP + Tenth(MaxHP) + worth
        BY <1>6
    <2> HIDE DEF worth, limit, before, after
    <2> QED
        BY <1>5, <1>7, <1>10, <2>1, <2>2, <2>3
<1> QED
    BY <1>11

\* Hit points stay within means, for any hit points, potions and number of
\* players: no interleaving of blows, HEAL, revivals and potions lets a potion
\* heal a player twice, or HEAL add up.
THEOREM HitPointsWithinMeans == Spec => []HPWithinMeans
<1>1. Init => TypeOK /\ Entered /\ HealedWithinMeans /\ HPWithinHad
    <2> SUFFICES ASSUME Init PROVE HealedWithinMeans /\ HPWithinHad
        BY TypingInit, PotionInit
    <2>1. ASSUME NEW q \in Players PROVE hp[q] = MaxHP /\ healing[q] = "idle"
        BY DEF Init
    <2>2. ASSUME NEW q \in Players PROVE PotionHP * Cardinality(Had(q)) \in Nat
        BY HadFinite, Worth DEF Had, ItemIds
    <2>3. MaxHP \in Nat /\ Tenth(MaxHP) \in Nat
        BY TenthOfNat, CombatAssumption
    <2> QED
        BY <2>1, <2>2, <2>3 DEF HealedWithinMeans, HPWithinHad
<1>2. TypeOK /\ Entered /\ HealedWithinMeans /\ HPWithinHad /\ [Next]_vars
        => (TypeOK /\ Entered /\ HealedWithinMeans /\ HPWithinHad)'
    BY TypingStep, EnteredStep, HealedStep, HadStep
<1>3. TypeOK /\ Entered /\ HPWithinHad => HPWithinMeans
    <2> SUFFICES ASSUME TypeOK, Entered, HPWithinHad, NEW q \in Players
                 PROVE  hp[q] <= MaxHP + Tenth(MaxHP)
                                 + PotionHP * Cardinality({i \in ItemIds : table[i] # Absent})
        BY DEF HPWithinMeans
    <2> DEFINE made == {i \in ItemIds : table[i] # Absent}
    <2>1. Had(q) \in SUBSET made
        BY MarkersAssumption DEF Had, Entered, EatPoints, Gone, Absent
    <2>2. IsFiniteSet(made) /\ Cardinality(made) \in Nat
        <3>1. made \in SUBSET ItemIds
            OBVIOUS
        <3> HIDE DEF made
        <3> QED
            BY <3>1, HadFinite
    <2>3. Cardinality(Had(q)) \in Nat /\ Cardinality(Had(q)) <= Cardinality(made)
        BY <2>1, <2>2, FS_Subset, FS_CardinalityType
    <2>4. /\ PotionHP * Cardinality(Had(q)) \in Nat /\ PotionHP * Cardinality(made) \in Nat
          /\ PotionHP * Cardinality(Had(q)) <= PotionHP * Cardinality(made)
        BY <2>2, <2>3, Worth
    <2>5. hp[q] <= MaxHP + Tenth(MaxHP) + PotionHP * Cardinality(Had(q))
        BY DEF HPWithinHad
    <2>6. MaxHP \in Nat /\ Tenth(MaxHP) \in Nat /\ hp[q] \in Int
        BY TenthOfNat, CombatAssumption DEF TypeOK, LifeOK
    <2> QED
        BY <2>4, <2>5, <2>6
<1> QED
    BY <1>1, <1>2, <1>3, PTL DEF Spec
=============================================================================
