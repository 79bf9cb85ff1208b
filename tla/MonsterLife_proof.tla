------------------------- MODULE MonsterLife_proof -------------------------
(***************************************************************************)
(* However many workers operate on a monster at once, it has one chain of  *)
(* MOVE tasks at most, a chain only while it is active, and a REVIVE task  *)
(* whenever it is dead.  The three invariants are inductive with the type  *)
(* invariant: a wake-up adds a chain only when the exchange finds the      *)
(* monster inactive, which ChainMeansActive turns into "no chain", and     *)
(* only the holder of the one chain makes the monster inactive.            *)
(***************************************************************************)
EXTENDS MonsterLife, TLAPS

LEMMA TypingInit == Init => TypeOK
<1> SUFFICES ASSUME Init PROVE TypeOK
  OBVIOUS
<1>1. hp \in Int /\ hp <= MaxHP /\ hits \in 0..MaxHits
  BY HitsAssumption DEF Init
<1> QED
  BY <1>1 DEF Init, TypeOK, TaskTypes, Points

LEMMA TypingStep == TypeOK /\ [Next]_vars => TypeOK'
<1> SUFFICES ASSUME TypeOK, [Next]_vars PROVE TypeOK'
  OBVIOUS
<1> USE HitsAssumption DEF TypeOK, TaskTypes, Points, Goto, AddTask
<1>1. CASE PlayersMove
  BY <1>1 DEF PlayersMove
<1>2. ASSUME NEW type \in TaskTypes, ProcessTask(type) PROVE TypeOK'
  BY <1>2 DEF ProcessTask
<1>3. ASSUME NEW w \in Workers, WakeUp(w) PROVE TypeOK'
  BY <1>3 DEF WakeUp
<1>4. ASSUME NEW w \in Workers, WakeReadState(w) PROVE TypeOK'
  BY <1>4 DEF WakeReadState
<1>5. ASSUME NEW w \in Workers, WakeReadAlive(w) PROVE TypeOK'
  BY <1>5 DEF WakeReadAlive
<1>6. ASSUME NEW w \in Workers, WakeExchange(w) PROVE TypeOK'
  BY <1>6 DEF WakeExchange
<1>7. ASSUME NEW w \in Workers, WakeAdd(w) PROVE TypeOK'
  BY <1>7 DEF WakeAdd
<1>8. ASSUME NEW w \in Workers, MoveEvent(w) PROVE TypeOK'
  BY <1>8 DEF MoveEvent
<1>9. ASSUME NEW w \in Workers, MoveAdd(w) PROVE TypeOK'
  BY <1>9 DEF MoveAdd
<1>10. ASSUME NEW w \in Workers, Sleep(w) PROVE TypeOK'
  BY <1>10 DEF Sleep
<1>11. ASSUME NEW w \in Workers, Attack(w) PROVE TypeOK'
  BY <1>11 DEF Attack
<1>12. ASSUME NEW w \in Workers, AttackReadActive(w) PROVE TypeOK'
  BY <1>12 DEF AttackReadActive
<1>13. ASSUME NEW w \in Workers, SubHP(w) PROVE TypeOK'
  BY <1>13 DEF SubHP
<1>14. ASSUME NEW w \in Workers, HitSub(w) PROVE TypeOK'
  BY <1>14 DEF HitSub
<1>15. ASSUME NEW w \in Workers, HitRead(w) PROVE TypeOK'
  BY <1>15 DEF HitRead
<1>16. ASSUME NEW w \in Workers, Kill(w) PROVE TypeOK'
  BY <1>16 DEF Kill
<1>17. ASSUME NEW w \in Workers, KillState(w) PROVE TypeOK'
  BY <1>17 DEF KillState
<1>18. ASSUME NEW w \in Workers, KillAdd(w) PROVE TypeOK'
  BY <1>18 DEF KillAdd
<1>19. ASSUME NEW w \in Workers, ReviveEvent(w) PROVE TypeOK'
  BY <1>19 DEF ReviveEvent
<1>20. ASSUME NEW w \in Workers, ReviveHP(w) PROVE TypeOK'
  BY <1>20 DEF ReviveHP
<1>21. ASSUME NEW w \in Workers, ReviveAlive(w) PROVE TypeOK'
  BY <1>21 DEF ReviveAlive
<1>22. ASSUME NEW w \in Workers, ReviveActive(w) PROVE TypeOK'
  BY <1>22 DEF ReviveActive
<1>23. ASSUME NEW w \in Workers, ReviveState(w) PROVE TypeOK'
  BY <1>23 DEF ReviveState
<1>24. CASE UNCHANGED vars
  BY <1>24 DEF vars
<1> QED
  BY <1>1, <1>2, <1>3, <1>4, <1>5, <1>6, <1>7, <1>8, <1>9, <1>10, <1>11, <1>12, <1>13,
     <1>14, <1>15, <1>16, <1>17, <1>18, <1>19, <1>20, <1>21, <1>22, <1>23, <1>24
  DEF Next, Step

\* The monster's variables keep their types; HP never exceeds the maximum.
THEOREM Typing == Spec => []TypeOK
<1> QED BY TypingInit, TypingStep, PTL DEF Spec

(***************************************************************************)
(* The MOVE chain.                                                         *)
(***************************************************************************)
Chain == OneMoveChain /\ ChainMeansActive

LEMMA ChainInit == Init => Chain
  BY DEF Init, Chain, OneMoveChain, ChainMeansActive, MoveScheduled, HoldsMove, Pending, TaskTypes

LEMMA ChainStep == TypeOK /\ Chain /\ [Next]_vars => Chain'
<1> SUFFICES ASSUME TypeOK, Chain, [Next]_vars PROVE Chain'
  OBVIOUS
<1> USE DEF TypeOK, TaskTypes, Points, Goto, AddTask,
            Chain, OneMoveChain, ChainMeansActive, MoveScheduled, HoldsMove, Pending
<1>1. CASE PlayersMove
  BY <1>1 DEF PlayersMove
<1>2. ASSUME NEW type \in TaskTypes, ProcessTask(type) PROVE Chain'
  BY <1>2 DEF ProcessTask
<1>3. ASSUME NEW w \in Workers, WakeUp(w) PROVE Chain'
  BY <1>3 DEF WakeUp
<1>4. ASSUME NEW w \in Workers, WakeReadState(w) PROVE Chain'
  BY <1>4 DEF WakeReadState
<1>5. ASSUME NEW w \in Workers, WakeReadAlive(w) PROVE Chain'
  BY <1>5 DEF WakeReadAlive
<1>6. ASSUME NEW w \in Workers, WakeExchange(w) PROVE Chain'
  BY <1>6 DEF WakeExchange
<1>7. ASSUME NEW w \in Workers, WakeAdd(w) PROVE Chain'
  BY <1>7 DEF WakeAdd
<1>8. ASSUME NEW w \in Workers, MoveEvent(w) PROVE Chain'
  BY <1>8 DEF MoveEvent
<1>9. ASSUME NEW w \in Workers, MoveAdd(w) PROVE Chain'
  BY <1>9 DEF MoveAdd
<1>10. ASSUME NEW w \in Workers, Sleep(w) PROVE Chain'
  BY <1>10 DEF Sleep
<1>11. ASSUME NEW w \in Workers, Attack(w) PROVE Chain'
  BY <1>11 DEF Attack
<1>12. ASSUME NEW w \in Workers, AttackReadActive(w) PROVE Chain'
  BY <1>12 DEF AttackReadActive
<1>13. ASSUME NEW w \in Workers, SubHP(w) PROVE Chain'
  BY <1>13 DEF SubHP
<1>14. ASSUME NEW w \in Workers, HitSub(w) PROVE Chain'
  BY <1>14 DEF HitSub
<1>15. ASSUME NEW w \in Workers, HitRead(w) PROVE Chain'
  BY <1>15 DEF HitRead
<1>16. ASSUME NEW w \in Workers, Kill(w) PROVE Chain'
  BY <1>16 DEF Kill
<1>17. ASSUME NEW w \in Workers, KillState(w) PROVE Chain'
  BY <1>17 DEF KillState
<1>18. ASSUME NEW w \in Workers, KillAdd(w) PROVE Chain'
  BY <1>18 DEF KillAdd
<1>19. ASSUME NEW w \in Workers, ReviveEvent(w) PROVE Chain'
  BY <1>19 DEF ReviveEvent
<1>20. ASSUME NEW w \in Workers, ReviveHP(w) PROVE Chain'
  BY <1>20 DEF ReviveHP
<1>21. ASSUME NEW w \in Workers, ReviveAlive(w) PROVE Chain'
  BY <1>21 DEF ReviveAlive
<1>22. ASSUME NEW w \in Workers, ReviveActive(w) PROVE Chain'
  BY <1>22 DEF ReviveActive
<1>23. ASSUME NEW w \in Workers, ReviveState(w) PROVE Chain'
  BY <1>23 DEF ReviveState
<1>24. CASE UNCHANGED vars
  BY <1>24 DEF vars
<1> QED
  BY <1>1, <1>2, <1>3, <1>4, <1>5, <1>6, <1>7, <1>8, <1>9, <1>10, <1>11, <1>12, <1>13,
     <1>14, <1>15, <1>16, <1>17, <1>18, <1>19, <1>20, <1>21, <1>22, <1>23, <1>24
  DEF Next, Step

LEMMA ChainInvariance == Spec => [](TypeOK /\ Chain)
<1>1. Init => TypeOK /\ Chain
  BY TypingInit, ChainInit
<1>2. TypeOK /\ Chain /\ [Next]_vars => (TypeOK /\ Chain)'
  BY TypingStep, ChainStep
<1> QED BY <1>1, <1>2, PTL DEF Spec

\* A monster is never driven by two chains of MOVE tasks.
THEOREM NoSecondChain == Spec => []OneMoveChain
<1>1. TypeOK /\ Chain => OneMoveChain
  BY DEF Chain
<1> QED BY <1>1, ChainInvariance, PTL

\* A sleeping monster has no MOVE task anywhere, so WakeUp can start one.
THEOREM SleepersHaveNoChain == Spec => []ChainMeansActive
<1>1. TypeOK /\ Chain => ChainMeansActive
  BY DEF Chain
<1> QED BY <1>1, ChainInvariance, PTL

(***************************************************************************)
(* The REVIVE task.                                                        *)
(***************************************************************************)
LEMMA ReviveStep == TypeOK /\ DeadHasRevive /\ [Next]_vars => DeadHasRevive'
<1> SUFFICES ASSUME TypeOK, DeadHasRevive, [Next]_vars PROVE DeadHasRevive'
  OBVIOUS
<1> USE DEF TypeOK, TaskTypes, Points, Goto, AddTask, DeadHasRevive, Pending
<1>1. CASE PlayersMove
  BY <1>1 DEF PlayersMove
<1>2. ASSUME NEW type \in TaskTypes, ProcessTask(type) PROVE DeadHasRevive'
  BY <1>2 DEF ProcessTask
<1>3. ASSUME NEW w \in Workers, WakeUp(w) PROVE DeadHasRevive'
  BY <1>3 DEF WakeUp
<1>4. ASSUME NEW w \in Workers, WakeReadState(w) PROVE DeadHasRevive'
  BY <1>4 DEF WakeReadState
<1>5. ASSUME NEW w \in Workers, WakeReadAlive(w) PROVE DeadHasRevive'
  BY <1>5 DEF WakeReadAlive
<1>6. ASSUME NEW w \in Workers, WakeExchange(w) PROVE DeadHasRevive'
  BY <1>6 DEF WakeExchange
<1>7. ASSUME NEW w \in Workers, WakeAdd(w) PROVE DeadHasRevive'
  BY <1>7 DEF WakeAdd
<1>8. ASSUME NEW w \in Workers, MoveEvent(w) PROVE DeadHasRevive'
  BY <1>8 DEF MoveEvent
<1>9. ASSUME NEW w \in Workers, MoveAdd(w) PROVE DeadHasRevive'
  BY <1>9 DEF MoveAdd
<1>10. ASSUME NEW w \in Workers, Sleep(w) PROVE DeadHasRevive'
  BY <1>10 DEF Sleep
<1>11. ASSUME NEW w \in Workers, Attack(w) PROVE DeadHasRevive'
  BY <1>11 DEF Attack
<1>12. ASSUME NEW w \in Workers, AttackReadActive(w) PROVE DeadHasRevive'
  BY <1>12 DEF AttackReadActive
<1>13. ASSUME NEW w \in Workers, SubHP(w) PROVE DeadHasRevive'
  BY <1>13 DEF SubHP
<1>14. ASSUME NEW w \in Workers, HitSub(w) PROVE DeadHasRevive'
  BY <1>14 DEF HitSub
<1>15. ASSUME NEW w \in Workers, HitRead(w) PROVE DeadHasRevive'
  BY <1>15 DEF HitRead
<1>16. ASSUME NEW w \in Workers, Kill(w) PROVE DeadHasRevive'
  BY <1>16 DEF Kill
<1>17. ASSUME NEW w \in Workers, KillState(w) PROVE DeadHasRevive'
  BY <1>17 DEF KillState
<1>18. ASSUME NEW w \in Workers, KillAdd(w) PROVE DeadHasRevive'
  BY <1>18 DEF KillAdd
<1>19. ASSUME NEW w \in Workers, ReviveEvent(w) PROVE DeadHasRevive'
  BY <1>19 DEF ReviveEvent
<1>20. ASSUME NEW w \in Workers, ReviveHP(w) PROVE DeadHasRevive'
  BY <1>20 DEF ReviveHP
<1>21. ASSUME NEW w \in Workers, ReviveAlive(w) PROVE DeadHasRevive'
  BY <1>21 DEF ReviveAlive
<1>22. ASSUME NEW w \in Workers, ReviveActive(w) PROVE DeadHasRevive'
  BY <1>22 DEF ReviveActive
<1>23. ASSUME NEW w \in Workers, ReviveState(w) PROVE DeadHasRevive'
  BY <1>23 DEF ReviveState
<1>24. CASE UNCHANGED vars
  BY <1>24 DEF vars
<1> QED
  BY <1>1, <1>2, <1>3, <1>4, <1>5, <1>6, <1>7, <1>8, <1>9, <1>10, <1>11, <1>12, <1>13,
     <1>14, <1>15, <1>16, <1>17, <1>18, <1>19, <1>20, <1>21, <1>22, <1>23, <1>24
  DEF Next, Step

\* No death is forgotten: a dead monster always has a REVIVE on its way.
THEOREM DeathIsNeverForgotten == Spec => []DeadHasRevive
<1>1. Init => DeadHasRevive
  BY DEF Init, DeadHasRevive
<1>2. TypeOK /\ DeadHasRevive /\ [Next]_vars => DeadHasRevive'
  BY ReviveStep
<1> QED BY <1>1, <1>2, Typing, PTL DEF Spec
=============================================================================
