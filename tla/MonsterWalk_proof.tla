-------------------------- MODULE MonsterWalk_proof --------------------------
(***************************************************************************)
(* A monster among any number of players, on any board: it is always       *)
(* listed, and where it stands unless a pursuit has led it out of its      *)
(* sector; and as long as moves follow one another and no pursuit has, the *)
(* screens show it to those who see it, and it is awake while somebody     *)
(* does.                                                                   *)
(*                                                                         *)
(* World is the inductive invariant.  It is built up part by part: the     *)
(* first four parts hold in every interleaving; Turns says who may be busy *)
(* when moves follow one another; on it rests what a move of the monster   *)
(* knows of the players (Lookout), what the screens show at each of its    *)
(* points (Screens), and what a player's handler has established at each   *)
(* of its own (Rounds).                                                    *)
(***************************************************************************)
EXTENDS MonsterWalk, Board_proof

LEMMA SectorsOnBoard ==
    ASSUME NEW a \in Free
    PROVE  /\ SectorOf(a) \in Sectors
           /\ Neighbours(a) \subseteq Sectors
           /\ \A range \in Nat : Around(a, range) \subseteq Sectors
BY SectorsExist DEF Free

\* Potions come and go.
PotionActs ==
    \/ \E i \in Potions : Drop(i)
    \/ \E p \in Players : \E i \in Potions : PickUp(p, i)

LEMMA TypingInit == Init => TypeOK
<1> SUFFICES ASSUME Init PROVE TypeOK
    OBVIOUS
<1> USE DEF Init, Free
<1>1. listed \in [Sectors -> SUBSET (Players \union {Monster})]
    OBVIOUS
<1>2. /\ mpos \in Free /\ next \in Free /\ pos \in [Players -> Free]
      /\ from \in [Players -> Free] /\ to \in [Players -> Free]
    OBVIOUS
<1>3. mpc \in MonsterPoints /\ pc \in [Players -> HandlerPoints]
    BY DEF MonsterPoints, HandlerPoints
<1>4. view \subseteq Players /\ shown \subseteq Players /\ active \in BOOLEAN /\ event \in BOOLEAN
    OBVIOUS
<1>5. presence \in [Players -> {"ingame", "unlisted", "gone"}] /\ alive \in [Players -> BOOLEAN]
    OBVIOUS
<1> QED
    BY <1>1, <1>2, <1>3, <1>4, <1>5, WalkAssumption DEF TypeOK

LEMMA TypingStep == TypeOK /\ [Next]_vars => TypeOK'
<1> SUFFICES ASSUME TypeOK, [Next]_vars PROVE TypeOK'
    OBVIOUS
<1> USE WalkAssumption, BoardAssumption, SectorsOnBoard
    DEF TypeOK, MonsterPoints, HandlerPoints, Scans, MonsterAt, At, Goto,
        taskQueue, monster, walk, player, views, handler, history
<1>1. CASE TakeMove
    BY <1>1 DEF TakeMove, StartScan
<1>2. CASE ScanSector
    BY <1>2 DEF ScanSector, PotionsIn
<1>3. CASE LookAtPlayer
    BY <1>3 DEF LookAtPlayer
<1>4. CASE FallAsleep
    BY <1>4 DEF FallAsleep, ScanOver
<1>5. CASE KeepAlive
    BY <1>5 DEF KeepAlive, StartScan, ScanOver
<1>6. CASE ChooseTarget
    BY <1>6 DEF ChooseTarget, ScanOver
<1>7. CASE BeginSearch
    BY <1>7 DEF BeginSearch, StartScan, ScanOver
<1>8. CASE TakeTarget
    BY <1>8 DEF TakeTarget
<1>9. CASE SearchFails
    BY <1>9 DEF SearchFails, BeginNew, StartScan, ScanOver
<1>10. CASE FindPath
    BY <1>10 DEF FindPath, BeginNew, StartScan, FirstSteps
<1>11. CASE TraceStep
    BY <1>11 DEF TraceStep
<1>12. CASE OrderAttack
    BY <1>12 DEF OrderAttack, Locked
<1>13. CASE RandomMove
    <2>1. PICK tile \in Adjacent(mpos) :
            IF ~CanGo(tile) THEN mpc' = "placed" /\ UNCHANGED next
            ELSE /\ next' = tile
                 /\ mpc' = IF SectorOf(mpos) # SectorOf(tile) THEN "leaveSector" ELSE "place"
        BY <1>13 DEF RandomMove
    <2>2. next' \in Free /\ mpc' \in {"placed", "leaveSector", "place"}
        BY <2>1 DEF CanGo, Free
    <2> QED
        BY <1>13, <2>2 DEF RandomMove
<1>14. CASE MonsterLeavesSector
    BY <1>14 DEF MonsterLeavesSector
<1>15. CASE MonsterEntersSector
    BY <1>15 DEF MonsterEntersSector
<1>16. CASE MonsterPlace
    BY <1>16 DEF MonsterPlace
<1>17. CASE Placed
    BY <1>17 DEF Placed, BeginNew, StartScan
<1>18. CASE NewDone
    BY <1>18 DEF NewDone, ScanOver
<1>19. CASE Meet
    <2>1. PICK p \in mcand :
            /\ mcand' = mcand \ {p}
            /\ IF InGame(p) /\ p \notin before THEN cur' = p /\ mpc' = "insert" ELSE UNCHANGED <<cur, mpc>>
        BY <1>19 DEF Meet
    <2>2. /\ cur' \in Players \union {Nobody} /\ mpc' \in {"meet", "insert"}
          /\ mpc' = "insert" => cur' # Nobody
        BY <1>19, <2>1 DEF Meet
    <2> QED
        BY <1>19, <2>1, <2>2 DEF Meet
<1>20. CASE InsertMonster
    BY <1>20 DEF InsertMonster
<1>21. CASE SendAdd
    BY <1>21 DEF SendAdd
<1>22. CASE MeetDone
    BY <1>22 DEF MeetDone
<1>23. CASE Lose
    BY <1>23 DEF Lose
<1>24. CASE LoseGone
    BY <1>24 DEF LoseGone
<1>25. CASE Forget
    BY <1>25 DEF Forget
<1>26. CASE LoseDone
    BY <1>26 DEF LoseDone
<1>27. CASE AddMoveTask
    BY <1>27 DEF AddMoveTask
<1>28. ASSUME NEW t \in Players \union Potions, TakeAttack(t) PROVE TypeOK'
    BY <1>28 DEF TakeAttack
<1>29. ASSUME NEW p \in Players, BeginMove(p) PROVE TypeOK'
    BY <1>29 DEF BeginMove, Bounded, CanGo, Free
<1>30. ASSUME NEW p \in Players, Place(p) PROVE TypeOK'
    BY <1>30 DEF Place
<1>31. ASSUME NEW p \in Players, LeaveSector(p) PROVE TypeOK'
    BY <1>31 DEF LeaveSector
<1>32. ASSUME NEW p \in Players, EnterSector(p) PROVE TypeOK'
    BY <1>32 DEF EnterSector
<1>33. ASSUME NEW p \in Players, CopyView(p) PROVE TypeOK'
    BY <1>33 DEF CopyView
<1>34. ASSUME NEW p \in Players, LookInSector(p) PROVE TypeOK'
    BY <1>34 DEF LookInSector
<1>35. ASSUME NEW p \in Players, LookAtMonster(p) PROVE TypeOK'
    BY <1>35 DEF LookAtMonster
<1>36. ASSUME NEW p \in Players, WakeMonster(p) PROVE TypeOK'
    BY <1>36 DEF WakeMonster, EndScan
<1>37. ASSUME NEW p \in Players, OutOfSight(p) PROVE TypeOK'
    BY <1>37 DEF OutOfSight, EndScan
<1>38. ASSUME NEW p \in Players, InsertViewList(p) PROVE TypeOK'
    BY <1>38 DEF InsertViewList
<1>39. ASSUME NEW p \in Players, ShowMonster(p) PROVE TypeOK'
    BY <1>39 DEF ShowMonster
<1>40. ASSUME NEW p \in Players, DeleteViewList(p) PROVE TypeOK'
    BY <1>40 DEF DeleteViewList
<1>41. ASSUME NEW p \in Players, HideMonster(p) PROVE TypeOK'
    BY <1>41 DEF HideMonster
<1>42. ASSUME NEW p \in Players, Disconnect(p) PROVE TypeOK'
    BY <1>42 DEF Disconnect, Bounded
<1>43. ASSUME NEW p \in Players, RemoveServerObject(p) PROVE TypeOK'
    BY <1>43 DEF RemoveServerObject
<1>44. ASSUME NEW p \in Players, Strike(p) PROVE TypeOK'
    BY <1>44 DEF Strike, Bounded
<1>45. ASSUME NEW p \in Players, Die(p) PROVE TypeOK'
    BY <1>45 DEF Die, Bounded
<1>47. ASSUME PotionActs PROVE TypeOK'
    BY <1>47 DEF PotionActs, Drop, PickUp, Bounded
<1>46. CASE UNCHANGED vars
    BY <1>46 DEF vars
<1> QED
    BY <1>1, <1>2, <1>3, <1>4, <1>5, <1>6, <1>7, <1>8, <1>9, <1>10, <1>11, <1>12, <1>13, <1>14,
       <1>15, <1>16, <1>17, <1>18, <1>19, <1>20, <1>21, <1>22, <1>23, <1>24, <1>25, <1>26,
       <1>27, <1>28, <1>29, <1>30, <1>31, <1>32, <1>33, <1>34, <1>35, <1>36, <1>37, <1>38,
       <1>39, <1>40, <1>41, <1>42, <1>43, <1>44, <1>45, <1>46, <1>47
    DEF Next, MonsterStep, HandlerStep, PotionActs

(***************************************************************************)
(* The MOVE chain.                                                         *)
(***************************************************************************)

\* One worker at a time has the MOVE event of a monster that is awake.
Chain ==
    /\ event => mpc = "idle"
    /\ active <=> event \/ mpc # "idle"

LEMMA ChainInit == Init => Chain
BY DEF Init, Chain

LEMMA ChainStep == TypeOK /\ Chain /\ [Next]_vars => Chain'
<1> SUFFICES ASSUME TypeOK, Chain, [Next]_vars PROVE Chain'
    OBVIOUS
<1>. /\ active \in BOOLEAN /\ event \in BOOLEAN
    BY DEF TypeOK
<1> USE DEF Chain, MonsterAt, At,
        taskQueue, monster, walk, player, views, handler, history
<1>1. CASE TakeMove
    BY <1>1 DEF TakeMove, StartScan
<1>2. CASE ScanSector
    BY <1>2 DEF ScanSector, Scans
<1>3. CASE LookAtPlayer
    BY <1>3 DEF LookAtPlayer, Scans
<1>4. CASE FallAsleep
    BY <1>4 DEF FallAsleep, ScanOver
<1>5. CASE KeepAlive
    BY <1>5 DEF KeepAlive, StartScan, ScanOver
<1>6. CASE ChooseTarget
    BY <1>6 DEF ChooseTarget, ScanOver
<1>7. CASE BeginSearch
    BY <1>7 DEF BeginSearch, StartScan, ScanOver
<1>8. CASE TakeTarget
    BY <1>8 DEF TakeTarget
<1>9. CASE SearchFails
    BY <1>9 DEF SearchFails, BeginNew, StartScan, ScanOver
<1>10. CASE FindPath
    BY <1>10 DEF FindPath, BeginNew, StartScan
<1>11. CASE TraceStep
    BY <1>11 DEF TraceStep
<1>12. CASE OrderAttack
    BY <1>12 DEF OrderAttack
<1>13. CASE RandomMove
    BY <1>13 DEF RandomMove
<1>14. CASE MonsterLeavesSector
    BY <1>14 DEF MonsterLeavesSector
<1>15. CASE MonsterEntersSector
    BY <1>15 DEF MonsterEntersSector
<1>16. CASE MonsterPlace
    BY <1>16 DEF MonsterPlace
<1>17. CASE Placed
    BY <1>17 DEF Placed, BeginNew, StartScan
<1>18. CASE NewDone
    BY <1>18 DEF NewDone, ScanOver
<1>19. CASE Meet
    BY <1>19 DEF Meet
<1>20. CASE InsertMonster
    BY <1>20 DEF InsertMonster
<1>21. CASE SendAdd
    BY <1>21 DEF SendAdd
<1>22. CASE MeetDone
    BY <1>22 DEF MeetDone
<1>23. CASE Lose
    BY <1>23 DEF Lose
<1>24. CASE LoseGone
    BY <1>24 DEF LoseGone
<1>25. CASE Forget
    BY <1>25 DEF Forget
<1>26. CASE LoseDone
    BY <1>26 DEF LoseDone
<1>27. CASE AddMoveTask
    BY <1>27 DEF AddMoveTask
<1>28. ASSUME NEW t \in Players \union Potions, TakeAttack(t) PROVE Chain'
    BY <1>28 DEF TakeAttack
<1>29. ASSUME NEW p \in Players, BeginMove(p) PROVE Chain'
    BY <1>29 DEF BeginMove, Bounded
<1>30. ASSUME NEW p \in Players, Place(p) PROVE Chain'
    BY <1>30 DEF Place
<1>31. ASSUME NEW p \in Players, LeaveSector(p) PROVE Chain'
    BY <1>31 DEF LeaveSector
<1>32. ASSUME NEW p \in Players, EnterSector(p) PROVE Chain'
    BY <1>32 DEF EnterSector
<1>33. ASSUME NEW p \in Players, CopyView(p) PROVE Chain'
    BY <1>33 DEF CopyView
<1>34. ASSUME NEW p \in Players, LookInSector(p) PROVE Chain'
    BY <1>34 DEF LookInSector
<1>35. ASSUME NEW p \in Players, LookAtMonster(p) PROVE Chain'
    BY <1>35 DEF LookAtMonster
<1>36. ASSUME NEW p \in Players, WakeMonster(p) PROVE Chain'
    BY <1>36 DEF WakeMonster, EndScan
<1>37. ASSUME NEW p \in Players, OutOfSight(p) PROVE Chain'
    BY <1>37 DEF OutOfSight, EndScan
<1>38. ASSUME NEW p \in Players, InsertViewList(p) PROVE Chain'
    BY <1>38 DEF InsertViewList
<1>39. ASSUME NEW p \in Players, ShowMonster(p) PROVE Chain'
    BY <1>39 DEF ShowMonster
<1>40. ASSUME NEW p \in Players, DeleteViewList(p) PROVE Chain'
    BY <1>40 DEF DeleteViewList
<1>41. ASSUME NEW p \in Players, HideMonster(p) PROVE Chain'
    BY <1>41 DEF HideMonster
<1>42. ASSUME NEW p \in Players, Disconnect(p) PROVE Chain'
    BY <1>42 DEF Disconnect, Bounded
<1>43. ASSUME NEW p \in Players, RemoveServerObject(p) PROVE Chain'
    BY <1>43 DEF RemoveServerObject
<1>44. ASSUME NEW p \in Players, Strike(p) PROVE Chain'
    BY <1>44 DEF Strike, Bounded
<1>45. ASSUME NEW p \in Players, Die(p) PROVE Chain'
    BY <1>45 DEF Die, Bounded
<1>47. ASSUME PotionActs PROVE Chain'
    BY <1>47 DEF PotionActs, Drop, PickUp
<1>46. CASE UNCHANGED vars
    BY <1>46 DEF vars
<1> QED
    BY <1>1, <1>2, <1>3, <1>4, <1>5, <1>6, <1>7, <1>8, <1>9, <1>10, <1>11, <1>12, <1>13, <1>14,
       <1>15, <1>16, <1>17, <1>18, <1>19, <1>20, <1>21, <1>22, <1>23, <1>24, <1>25, <1>26,
       <1>27, <1>28, <1>29, <1>30, <1>31, <1>32, <1>33, <1>34, <1>35, <1>36, <1>37, <1>38,
       <1>39, <1>40, <1>41, <1>42, <1>43, <1>44, <1>45, <1>46, <1>47
    DEF Next, MonsterStep, HandlerStep, PotionActs

(***************************************************************************)
(* Where the monster is listed.                                            *)
(***************************************************************************)

\* Where the monster is listed, also while it changes sectors.
Whereabouts ==
    /\ mpc = "enterSector" /\ ~strayed => ListedIn = {}
    /\ mpc = "place" =>
        /\ ListedIn # {}
        /\ ~strayed => ListedIn = {SectorOf(next)}
    /\ MonsterListed

LEMMA WhereaboutsInit == Init => Whereabouts
BY SectorsExist, WalkAssumption DEF Init, Whereabouts, MonsterListed, ListedIn

LEMMA WhereaboutsStep == TypeOK /\ Whereabouts /\ [Next]_vars => Whereabouts'
<1> SUFFICES ASSUME TypeOK, Whereabouts, [Next]_vars PROVE Whereabouts'
    OBVIOUS
<1>. /\ listed \in [Sectors -> SUBSET (Players \union {Monster})] /\ Monster \notin Players
     /\ SectorOf(mpos) \in Sectors /\ SectorOf(next) \in Sectors
    BY SectorsOnBoard, WalkAssumption DEF TypeOK
<1> USE DEF Whereabouts, MonsterListed, ListedIn, MonsterAt, At,
        taskQueue, monster, walk, player, views, handler, history
<1>1. CASE TakeMove
    BY <1>1 DEF TakeMove, StartScan
<1>2. CASE ScanSector
    BY <1>2 DEF ScanSector, Scans
<1>3. CASE LookAtPlayer
    BY <1>3 DEF LookAtPlayer, Scans
<1>4. CASE FallAsleep
    BY <1>4 DEF FallAsleep, ScanOver
<1>5. CASE KeepAlive
    BY <1>5 DEF KeepAlive, StartScan, ScanOver
<1>6. CASE ChooseTarget
    BY <1>6 DEF ChooseTarget, ScanOver
<1>7. CASE BeginSearch
    BY <1>7 DEF BeginSearch, StartScan, ScanOver
<1>8. CASE TakeTarget
    BY <1>8 DEF TakeTarget
<1>9. CASE SearchFails
    BY <1>9 DEF SearchFails, BeginNew, StartScan, ScanOver
<1>10. CASE FindPath
    BY <1>10 DEF FindPath, BeginNew, StartScan
<1>11. CASE TraceStep
    BY <1>11 DEF TraceStep
<1>12. CASE OrderAttack
    BY <1>12 DEF OrderAttack
<1>13. CASE RandomMove
    BY <1>13 DEF RandomMove
<1>14. CASE MonsterLeavesSector
    BY <1>14 DEF MonsterLeavesSector
<1>15. CASE MonsterEntersSector
    BY <1>15 DEF MonsterEntersSector
<1>16. CASE MonsterPlace
    BY <1>16 DEF MonsterPlace
<1>17. CASE Placed
    BY <1>17 DEF Placed, BeginNew, StartScan
<1>18. CASE NewDone
    BY <1>18 DEF NewDone, ScanOver
<1>19. CASE Meet
    BY <1>19 DEF Meet
<1>20. CASE InsertMonster
    BY <1>20 DEF InsertMonster
<1>21. CASE SendAdd
    BY <1>21 DEF SendAdd
<1>22. CASE MeetDone
    BY <1>22 DEF MeetDone
<1>23. CASE Lose
    BY <1>23 DEF Lose
<1>24. CASE LoseGone
    BY <1>24 DEF LoseGone
<1>25. CASE Forget
    BY <1>25 DEF Forget
<1>26. CASE LoseDone
    BY <1>26 DEF LoseDone
<1>27. CASE AddMoveTask
    BY <1>27 DEF AddMoveTask
<1>28. ASSUME NEW t \in Players \union Potions, TakeAttack(t) PROVE Whereabouts'
    BY <1>28 DEF TakeAttack
<1>29. ASSUME NEW p \in Players, BeginMove(p) PROVE Whereabouts'
    BY <1>29 DEF BeginMove, Bounded
<1>30. ASSUME NEW p \in Players, Place(p) PROVE Whereabouts'
    BY <1>30 DEF Place
<1>31. ASSUME NEW p \in Players, LeaveSector(p) PROVE Whereabouts'
    BY <1>31 DEF LeaveSector
<1>32. ASSUME NEW p \in Players, EnterSector(p) PROVE Whereabouts'
    BY <1>32 DEF EnterSector
<1>33. ASSUME NEW p \in Players, CopyView(p) PROVE Whereabouts'
    BY <1>33 DEF CopyView
<1>34. ASSUME NEW p \in Players, LookInSector(p) PROVE Whereabouts'
    BY <1>34 DEF LookInSector
<1>35. ASSUME NEW p \in Players, LookAtMonster(p) PROVE Whereabouts'
    BY <1>35 DEF LookAtMonster
<1>36. ASSUME NEW p \in Players, WakeMonster(p) PROVE Whereabouts'
    BY <1>36 DEF WakeMonster, EndScan
<1>37. ASSUME NEW p \in Players, OutOfSight(p) PROVE Whereabouts'
    BY <1>37 DEF OutOfSight, EndScan
<1>38. ASSUME NEW p \in Players, InsertViewList(p) PROVE Whereabouts'
    BY <1>38 DEF InsertViewList
<1>39. ASSUME NEW p \in Players, ShowMonster(p) PROVE Whereabouts'
    BY <1>39 DEF ShowMonster
<1>40. ASSUME NEW p \in Players, DeleteViewList(p) PROVE Whereabouts'
    BY <1>40 DEF DeleteViewList
<1>41. ASSUME NEW p \in Players, HideMonster(p) PROVE Whereabouts'
    BY <1>41 DEF HideMonster
<1>42. ASSUME NEW p \in Players, Disconnect(p) PROVE Whereabouts'
    BY <1>42 DEF Disconnect, Bounded
<1>43. ASSUME NEW p \in Players, RemoveServerObject(p) PROVE Whereabouts'
    BY <1>43 DEF RemoveServerObject
<1>44. ASSUME NEW p \in Players, Strike(p) PROVE Whereabouts'
    BY <1>44 DEF Strike, Bounded
<1>45. ASSUME NEW p \in Players, Die(p) PROVE Whereabouts'
    BY <1>45 DEF Die, Bounded
<1>47. ASSUME PotionActs PROVE Whereabouts'
    BY <1>47 DEF PotionActs, Drop, PickUp
<1>46. CASE UNCHANGED vars
    BY <1>46 DEF vars
<1> QED
    BY <1>1, <1>2, <1>3, <1>4, <1>5, <1>6, <1>7, <1>8, <1>9, <1>10, <1>11, <1>12, <1>13, <1>14,
       <1>15, <1>16, <1>17, <1>18, <1>19, <1>20, <1>21, <1>22, <1>23, <1>24, <1>25, <1>26,
       <1>27, <1>28, <1>29, <1>30, <1>31, <1>32, <1>33, <1>34, <1>35, <1>36, <1>37, <1>38,
       <1>39, <1>40, <1>41, <1>42, <1>43, <1>44, <1>45, <1>46, <1>47
    DEF Next, MonsterStep, HandlerStep, PotionActs

(***************************************************************************)
(* Where the players are listed.                                           *)
(***************************************************************************)

\* Where a player is listed, and what his worker has in hand.
InPlace ==
    \A p \in Players :
        /\ presence[p] = "ingame" /\ pc[p] \notin {"leaveSector", "enterSector"}
                => p \in listed[SectorOf(pos[p])]
        /\ pc[p] = "place" => from[p] = pos[p]
        /\ pc[p] \in {"leaveSector", "enterSector"} => to[p] = pos[p]
        /\ pc[p] \notin {"scan", "look"} => p \notin known /\ p \notin near

LEMMA InPlaceInit == Init => InPlace
BY SectorsOnBoard DEF Init, InPlace, Free

LEMMA InPlaceStep == TypeOK /\ InPlace /\ [Next]_vars => InPlace'
<1> SUFFICES ASSUME TypeOK, InPlace, [Next]_vars PROVE InPlace'
    OBVIOUS
<1>. /\ listed \in [Sectors -> SUBSET (Players \union {Monster})] /\ Monster \notin Players
     /\ pos \in [Players -> Free] /\ from \in [Players -> Free] /\ to \in [Players -> Free]
     /\ pc \in [Players -> HandlerPoints]
     /\ presence \in [Players -> {"ingame", "unlisted", "gone"}]
     /\ \A q \in Players : SectorOf(pos[q]) \in Sectors /\ SectorOf(to[q]) \in Sectors
    BY SectorsOnBoard, WalkAssumption DEF TypeOK
<1> USE DEF InPlace, MonsterAt, At, Goto,
        taskQueue, monster, walk, player, views, handler, history
<1>1. CASE TakeMove
    BY <1>1 DEF TakeMove, StartScan
<1>2. CASE ScanSector
    BY <1>2 DEF ScanSector, Scans
<1>3. CASE LookAtPlayer
    BY <1>3 DEF LookAtPlayer, Scans
<1>4. CASE FallAsleep
    BY <1>4 DEF FallAsleep, ScanOver
<1>5. CASE KeepAlive
    BY <1>5 DEF KeepAlive, StartScan, ScanOver
<1>6. CASE ChooseTarget
    BY <1>6 DEF ChooseTarget, ScanOver
<1>7. CASE BeginSearch
    BY <1>7 DEF BeginSearch, StartScan, ScanOver
<1>8. CASE TakeTarget
    BY <1>8 DEF TakeTarget
<1>9. CASE SearchFails
    BY <1>9 DEF SearchFails, BeginNew, StartScan, ScanOver
<1>10. CASE FindPath
    BY <1>10 DEF FindPath, BeginNew, StartScan
<1>11. CASE TraceStep
    BY <1>11 DEF TraceStep
<1>12. CASE OrderAttack
    BY <1>12 DEF OrderAttack
<1>13. CASE RandomMove
    BY <1>13 DEF RandomMove
<1>14. CASE MonsterLeavesSector
    BY <1>14 DEF MonsterLeavesSector
<1>15. CASE MonsterEntersSector
    BY <1>15 DEF MonsterEntersSector
<1>16. CASE MonsterPlace
    BY <1>16 DEF MonsterPlace
<1>17. CASE Placed
    BY <1>17 DEF Placed, BeginNew, StartScan
<1>18. CASE NewDone
    BY <1>18 DEF NewDone, ScanOver
<1>19. CASE Meet
    BY <1>19 DEF Meet
<1>20. CASE InsertMonster
    BY <1>20 DEF InsertMonster
<1>21. CASE SendAdd
    BY <1>21 DEF SendAdd
<1>22. CASE MeetDone
    BY <1>22 DEF MeetDone
<1>23. CASE Lose
    BY <1>23 DEF Lose
<1>24. CASE LoseGone
    BY <1>24 DEF LoseGone
<1>25. CASE Forget
    BY <1>25 DEF Forget
<1>26. CASE LoseDone
    BY <1>26 DEF LoseDone
<1>27. CASE AddMoveTask
    BY <1>27 DEF AddMoveTask
<1>28. ASSUME NEW t \in Players \union Potions, TakeAttack(t) PROVE InPlace'
    BY <1>28 DEF TakeAttack
<1>29. ASSUME NEW p \in Players, BeginMove(p) PROVE InPlace'
    BY <1>29 DEF BeginMove, Bounded
<1>30. ASSUME NEW p \in Players, Place(p) PROVE InPlace'
    BY <1>30 DEF Place
<1>31. ASSUME NEW p \in Players, LeaveSector(p) PROVE InPlace'
    BY <1>31 DEF LeaveSector
<1>32. ASSUME NEW p \in Players, EnterSector(p) PROVE InPlace'
    BY <1>32 DEF EnterSector
<1>33. ASSUME NEW p \in Players, CopyView(p) PROVE InPlace'
    BY <1>33 DEF CopyView
<1>34. ASSUME NEW p \in Players, LookInSector(p) PROVE InPlace'
    BY <1>34 DEF LookInSector
<1>35. ASSUME NEW p \in Players, LookAtMonster(p) PROVE InPlace'
    BY <1>35 DEF LookAtMonster
<1>36. ASSUME NEW p \in Players, WakeMonster(p) PROVE InPlace'
    BY <1>36 DEF WakeMonster, EndScan
<1>37. ASSUME NEW p \in Players, OutOfSight(p) PROVE InPlace'
    BY <1>37 DEF OutOfSight, EndScan
<1>38. ASSUME NEW p \in Players, InsertViewList(p) PROVE InPlace'
    BY <1>38 DEF InsertViewList
<1>39. ASSUME NEW p \in Players, ShowMonster(p) PROVE InPlace'
    BY <1>39 DEF ShowMonster
<1>40. ASSUME NEW p \in Players, DeleteViewList(p) PROVE InPlace'
    BY <1>40 DEF DeleteViewList
<1>41. ASSUME NEW p \in Players, HideMonster(p) PROVE InPlace'
    BY <1>41 DEF HideMonster
<1>42. ASSUME NEW p \in Players, Disconnect(p) PROVE InPlace'
    BY <1>42 DEF Disconnect, Bounded
<1>43. ASSUME NEW p \in Players, RemoveServerObject(p) PROVE InPlace'
    BY <1>43 DEF RemoveServerObject
<1>44. ASSUME NEW p \in Players, Strike(p) PROVE InPlace'
    BY <1>44 DEF Strike, Bounded
<1>45. ASSUME NEW p \in Players, Die(p) PROVE InPlace'
    BY <1>45 DEF Die, Bounded
<1>47. ASSUME PotionActs PROVE InPlace'
    BY <1>47 DEF PotionActs, Drop, PickUp
<1>46. CASE UNCHANGED vars
    BY <1>46 DEF vars
<1> QED
    BY <1>1, <1>2, <1>3, <1>4, <1>5, <1>6, <1>7, <1>8, <1>9, <1>10, <1>11, <1>12, <1>13, <1>14,
       <1>15, <1>16, <1>17, <1>18, <1>19, <1>20, <1>21, <1>22, <1>23, <1>24, <1>25, <1>26,
       <1>27, <1>28, <1>29, <1>30, <1>31, <1>32, <1>33, <1>34, <1>35, <1>36, <1>37, <1>38,
       <1>39, <1>40, <1>41, <1>42, <1>43, <1>44, <1>45, <1>46, <1>47
    DEF Next, MonsterStep, HandlerStep, PotionActs

(***************************************************************************)
(* Moves that follow one another.                                          *)
(***************************************************************************)

\* Who is busy, when the workers have followed one another.
Turns ==
    calm =>
        /\ mpc # "idle" => \A p \in Players : ~Busy(p)
        /\ \A p, q \in Players : Busy(p) /\ Busy(q) => p = q
        /\ \A p \in Players : pc[p] # "idle" => presence[p] # "unlisted"

LEMMA TurnsInit == Init => Turns
BY DEF Init, Turns, Busy

LEMMA TurnsStep == TypeOK /\ Turns /\ [Next]_vars => Turns'
<1> SUFFICES ASSUME TypeOK, Turns, [Next]_vars PROVE Turns'
    OBVIOUS
<1>. /\ pc \in [Players -> HandlerPoints]
     /\ presence \in [Players -> {"ingame", "unlisted", "gone"}]
    BY DEF TypeOK
<1> USE DEF Turns, Busy, Quiet, MonsterAt, At, Goto,
        taskQueue, monster, walk, player, views, handler, history
<1>1. CASE TakeMove
    BY <1>1 DEF TakeMove, StartScan
<1>2. CASE ScanSector
    BY <1>2 DEF ScanSector, Scans
<1>3. CASE LookAtPlayer
    BY <1>3 DEF LookAtPlayer, Scans
<1>4. CASE FallAsleep
    BY <1>4 DEF FallAsleep, ScanOver
<1>5. CASE KeepAlive
    BY <1>5 DEF KeepAlive, StartScan, ScanOver
<1>6. CASE ChooseTarget
    BY <1>6 DEF ChooseTarget, ScanOver
<1>7. CASE BeginSearch
    BY <1>7 DEF BeginSearch, StartScan, ScanOver
<1>8. CASE TakeTarget
    BY <1>8 DEF TakeTarget
<1>9. CASE SearchFails
    BY <1>9 DEF SearchFails, BeginNew, StartScan, ScanOver
<1>10. CASE FindPath
    BY <1>10 DEF FindPath, BeginNew, StartScan
<1>11. CASE TraceStep
    BY <1>11 DEF TraceStep
<1>12. CASE OrderAttack
    BY <1>12 DEF OrderAttack
<1>13. CASE RandomMove
    BY <1>13 DEF RandomMove
<1>14. CASE MonsterLeavesSector
    BY <1>14 DEF MonsterLeavesSector
<1>15. CASE MonsterEntersSector
    BY <1>15 DEF MonsterEntersSector
<1>16. CASE MonsterPlace
    BY <1>16 DEF MonsterPlace
<1>17. CASE Placed
    BY <1>17 DEF Placed, BeginNew, StartScan
<1>18. CASE NewDone
    BY <1>18 DEF NewDone, ScanOver
<1>19. CASE Meet
    BY <1>19 DEF Meet
<1>20. CASE InsertMonster
    BY <1>20 DEF InsertMonster
<1>21. CASE SendAdd
    BY <1>21 DEF SendAdd
<1>22. CASE MeetDone
    BY <1>22 DEF MeetDone
<1>23. CASE Lose
    BY <1>23 DEF Lose
<1>24. CASE LoseGone
    BY <1>24 DEF LoseGone
<1>25. CASE Forget
    BY <1>25 DEF Forget
<1>26. CASE LoseDone
    BY <1>26 DEF LoseDone
<1>27. CASE AddMoveTask
    BY <1>27 DEF AddMoveTask
<1>28. ASSUME NEW t \in Players \union Potions, TakeAttack(t) PROVE Turns'
    BY <1>28 DEF TakeAttack
<1>29. ASSUME NEW p \in Players, BeginMove(p) PROVE Turns'
    BY <1>29 DEF BeginMove, Bounded
<1>30. ASSUME NEW p \in Players, Place(p) PROVE Turns'
    BY <1>30 DEF Place
<1>31. ASSUME NEW p \in Players, LeaveSector(p) PROVE Turns'
    BY <1>31 DEF LeaveSector
<1>32. ASSUME NEW p \in Players, EnterSector(p) PROVE Turns'
    BY <1>32 DEF EnterSector
<1>33. ASSUME NEW p \in Players, CopyView(p) PROVE Turns'
    BY <1>33 DEF CopyView
<1>34. ASSUME NEW p \in Players, LookInSector(p) PROVE Turns'
    BY <1>34 DEF LookInSector
<1>35. ASSUME NEW p \in Players, LookAtMonster(p) PROVE Turns'
    BY <1>35 DEF LookAtMonster
<1>36. ASSUME NEW p \in Players, WakeMonster(p) PROVE Turns'
    BY <1>36 DEF WakeMonster, EndScan
<1>37. ASSUME NEW p \in Players, OutOfSight(p) PROVE Turns'
    BY <1>37 DEF OutOfSight, EndScan
<1>38. ASSUME NEW p \in Players, InsertViewList(p) PROVE Turns'
    BY <1>38 DEF InsertViewList
<1>39. ASSUME NEW p \in Players, ShowMonster(p) PROVE Turns'
    BY <1>39 DEF ShowMonster
<1>40. ASSUME NEW p \in Players, DeleteViewList(p) PROVE Turns'
    BY <1>40 DEF DeleteViewList
<1>41. ASSUME NEW p \in Players, HideMonster(p) PROVE Turns'
    BY <1>41 DEF HideMonster
<1>42. ASSUME NEW p \in Players, Disconnect(p) PROVE Turns'
    BY <1>42 DEF Disconnect, Bounded
<1>43. ASSUME NEW p \in Players, RemoveServerObject(p) PROVE Turns'
    BY <1>43 DEF RemoveServerObject
<1>44. ASSUME NEW p \in Players, Strike(p) PROVE Turns'
    BY <1>44 DEF Strike, Bounded
<1>45. ASSUME NEW p \in Players, Die(p) PROVE Turns'
    BY <1>45 DEF Die, Bounded
<1>47. ASSUME PotionActs PROVE Turns'
    <2>1. UNCHANGED <<calm, mpc, pc, presence>>
        BY <1>47 DEF PotionActs, Drop, PickUp
    <2> QED
        BY <2>1
<1>46. CASE UNCHANGED vars
    BY <1>46 DEF vars
<1> QED
    BY <1>1, <1>2, <1>3, <1>4, <1>5, <1>6, <1>7, <1>8, <1>9, <1>10, <1>11, <1>12, <1>13, <1>14,
       <1>15, <1>16, <1>17, <1>18, <1>19, <1>20, <1>21, <1>22, <1>23, <1>24, <1>25, <1>26,
       <1>27, <1>28, <1>29, <1>30, <1>31, <1>32, <1>33, <1>34, <1>35, <1>36, <1>37, <1>38,
       <1>39, <1>40, <1>41, <1>42, <1>43, <1>44, <1>45, <1>46, <1>47
    DEF Next, MonsterStep, HandlerStep, PotionActs

\* The steps of the monster's worker, and of a player's.
MonsterActs ==
    \/ TakeMove \/ MonsterStep
    \/ \E t \in Players \union Potions : TakeAttack(t)

PlayerActs(p) ==
    BeginMove(p) \/ HandlerStep(p) \/ Disconnect(p) \/ RemoveServerObject(p) \/ Strike(p) \/ Die(p)

\* Those who see the monster.
Sees(p) == CanSee(pos[p], mpos)

Sight == {p \in Players : InGame(p) /\ Sees(p)}

\* What a move of the monster has found out about the players.
Lookout ==
    calm =>
        /\ mpc \in {"watch", "old", "new"} =>
            /\ seen \subseteq Sight
            /\ \A p \in Sight : p \in seen \union mcand \/ SectorOf(pos[p]) \in mtodo
        /\ mpc \in {"trace", "step", "reach", "roam", "leaveSector", "enterSector", "place", "search"} =>
            before = Sight
        /\ mpc \in {"meet", "insert", "add", "lose", "forget"} => seen = Sight
        /\ mpc \in {"meet", "insert", "add"} => mcand \subseteq seen
        /\ mpc \in {"insert", "add"} => cur \in seen \ mcand
        /\ mpc \in {"lose", "forget"} => mcand \subseteq before \ seen
        /\ mpc = "forget" => cur \notin seen \union mcand
        /\ mpc \in {"placed", "new", "meet", "insert", "add", "lose", "forget"} =>
            \A p \in before : InGame(p)

LEMMA SightIsAround ==
    ASSUME TypeOK
    PROVE  /\ \A p \in Sight : SectorOf(pos[p]) \in Around(mpos, ViewRange)
           /\ \A p \in Players : CanSee(mpos, pos[p]) <=> Sees(p)
<1>1. mpos \in Pos /\ \A p \in Players : pos[p] \in Pos
    BY DEF TypeOK, Free
<1> QED
    BY <1>1, SightIsMutual, SeenIsNeighbour DEF Sight, Sees, Neighbours

LEMMA LookoutInit == Init => Lookout
BY DEF Init, Lookout

LEMMA LookoutMonsterStep == TypeOK /\ InPlace /\ Turns /\ Lookout /\ MonsterActs => Lookout'
<1> SUFFICES ASSUME TypeOK, InPlace, Turns, Lookout, MonsterActs, calm' PROVE Lookout'
    BY DEF Lookout
<1>. /\ pc \in [Players -> HandlerPoints] /\ seen \subseteq Players /\ before \subseteq Players
     /\ presence \in [Players -> {"ingame", "unlisted", "gone"}]
     /\ listed \in [Sectors -> SUBSET (Players \union {Monster})]
     /\ mpc # "search" => mcand \subseteq Players
     /\ mtodo \subseteq Sectors
    BY DEF TypeOK
<1>. /\ \A p \in Sight : SectorOf(pos[p]) \in Around(mpos, ViewRange)
     /\ \A p \in Players : CanSee(mpos, pos[p]) <=> Sees(p)
    BY SightIsAround
<1>. mpc # "idle" /\ calm => \A p \in Sight : p \in listed[SectorOf(pos[p])]
    BY DEF Turns, InPlace, Busy, Sight, InGame, HandlerPoints
<1>. Sight' = {p \in Players : InGame(p)' /\ Sees(p)'} /\ Sight = {p \in Players : InGame(p) /\ Sees(p)}
    BY DEF Sight
<1> USE DEF Lookout, InGame, Sees, MonsterAt,
        taskQueue, monster, walk, player, views, handler, history
<1>1. CASE TakeMove
    BY <1>1 DEF TakeMove, StartScan
<1>2. CASE ScanSector
    BY <1>2 DEF ScanSector, Scans
<1>3. CASE LookAtPlayer
    BY <1>3 DEF LookAtPlayer, Scans
<1>4. CASE FallAsleep
    BY <1>4 DEF FallAsleep, ScanOver
<1>5. CASE KeepAlive
    BY <1>5 DEF KeepAlive, StartScan, ScanOver
<1>6. CASE ChooseTarget
    BY <1>6 DEF ChooseTarget, ScanOver
<1>7. CASE BeginSearch
    BY <1>7 DEF BeginSearch, StartScan, ScanOver
<1>8. CASE TakeTarget
    BY <1>8 DEF TakeTarget
<1>9. CASE SearchFails
    BY <1>9 DEF SearchFails, BeginNew, StartScan, ScanOver
<1>10. CASE FindPath
    BY <1>10 DEF FindPath, BeginNew, StartScan
<1>11. CASE TraceStep
    BY <1>11 DEF TraceStep
<1>12. CASE OrderAttack
    BY <1>12 DEF OrderAttack
<1>13. CASE RandomMove
    BY <1>13 DEF RandomMove
<1>14. CASE MonsterLeavesSector
    BY <1>14 DEF MonsterLeavesSector
<1>15. CASE MonsterEntersSector
    BY <1>15 DEF MonsterEntersSector
<1>16. CASE MonsterPlace
    BY <1>16 DEF MonsterPlace
<1>17. CASE Placed
    BY <1>17 DEF Placed, BeginNew, StartScan
<1>18. CASE NewDone
    BY <1>18 DEF NewDone, ScanOver
<1>19. CASE Meet
    BY <1>19 DEF Meet
<1>20. CASE InsertMonster
    BY <1>20 DEF InsertMonster
<1>21. CASE SendAdd
    BY <1>21 DEF SendAdd
<1>22. CASE MeetDone
    BY <1>22 DEF MeetDone
<1>23. CASE Lose
    BY <1>23 DEF Lose
<1>24. CASE LoseGone
    BY <1>24 DEF LoseGone
<1>25. CASE Forget
    BY <1>25 DEF Forget
<1>26. CASE LoseDone
    BY <1>26 DEF LoseDone
<1>27. CASE AddMoveTask
    BY <1>27 DEF AddMoveTask
<1>28. ASSUME NEW t \in Players \union Potions, TakeAttack(t) PROVE Lookout'
    BY <1>28 DEF TakeAttack
<1> QED
    BY <1>1, <1>2, <1>3, <1>4, <1>5, <1>6, <1>7, <1>8, <1>9, <1>10, <1>11, <1>12, <1>13,
       <1>14, <1>15, <1>16, <1>17, <1>18, <1>19, <1>20, <1>21, <1>22, <1>23, <1>24, <1>25,
       <1>26, <1>27, <1>28 DEF MonsterActs, MonsterStep

\* Moves that follow one another: while a player's worker acts on what the
\* others see, the monster stands still and nobody else is busy.
LEMMA PlayerTurn ==
    ASSUME NEW p \in Players, Turns, PlayerActs(p), calm', ~Strike(p), ~Die(p)
    PROVE  /\ calm /\ mpc = "idle" /\ mpc' = "idle"
           /\ \A q \in Players \ {p} : ~Busy(q)
           /\ HandlerStep(p) \/ BeginMove(p) => presence[p] # "unlisted"
<1>1. mpc' = mpc
    BY DEF PlayerActs, HandlerStep, walk,
           BeginMove, Place, LeaveSector, EnterSector, CopyView, LookInSector, LookAtMonster,
           WakeMonster, OutOfSight, InsertViewList, ShowMonster, DeleteViewList, HideMonster,
           Disconnect, RemoveServerObject
<1>2. CASE BeginMove(p) \/ Disconnect(p)
    <2>1. calm /\ Quiet
        BY <1>2 DEF BeginMove, Disconnect
    <2>2. ~HandlerStep(p)
        BY <1>2, <2>1 DEF Quiet, Busy, HandlerStep, At,
               Place, LeaveSector, EnterSector, CopyView, LookInSector, LookAtMonster,
               WakeMonster, OutOfSight, InsertViewList, ShowMonster, DeleteViewList,
               HideMonster
    <2> QED
        BY <1>1, <2>1, <2>2 DEF Quiet, Busy
<1>3. CASE (HandlerStep(p) \/ RemoveServerObject(p)) /\ ~BeginMove(p)
    <2>1. calm' = calm
        BY <1>3 DEF HandlerStep, RemoveServerObject, history,
               Place, LeaveSector, EnterSector, CopyView, LookInSector, LookAtMonster,
               WakeMonster, OutOfSight, InsertViewList, ShowMonster, DeleteViewList,
               HideMonster
    <2>2. Busy(p) /\ (HandlerStep(p) => pc[p] # "idle")
        BY <1>3 DEF HandlerStep, RemoveServerObject, Busy, At,
               Place, LeaveSector, EnterSector, CopyView, LookInSector, LookAtMonster,
               WakeMonster, OutOfSight, InsertViewList, ShowMonster, DeleteViewList,
               HideMonster
    <2> QED
        BY <1>1, <1>3, <2>1, <2>2 DEF Turns
<1> QED
    BY <1>2, <1>3 DEF PlayerActs

LEMMA LookoutPlayerStep ==
    ASSUME NEW p \in Players, Turns, Lookout, PlayerActs(p)
    PROVE  Lookout'
<1> SUFFICES ASSUME calm' PROVE Lookout'
    BY DEF Lookout
<1>1. CASE Strike(p) \/ Die(p)
    BY <1>1 DEF Strike, Die, Bounded, Lookout, Sight, InGame, Sees,
                taskQueue, monster, walk, player, views, handler
<1>2. CASE ~Strike(p) /\ ~Die(p)
    BY <1>2, PlayerTurn DEF Lookout
<1> QED
    BY <1>1, <1>2

(***************************************************************************)
(* What the screens show.                                                  *)
(***************************************************************************)

\* Those who should be showing the monster at this point of its move.
Told ==
    IF mpc \in {"placed", "new"} THEN before
    ELSE IF mpc \in {"meet", "insert", "add"} THEN before \union (seen \ mcand)
    ELSE IF mpc \in {"lose", "forget"} THEN seen \union mcand
    ELSE Sight

\* The one who is being told, or being made to forget.
InHand == IF mpc \in {"insert", "add", "forget"} THEN {cur} ELSE {}

Shows(p) == p \in view /\ (p \in shown \/ p \in lapsed)
Hides(p) == p \notin shown /\ (p \in view => p \in lapsed)

\* Moves have followed one another, and no pursuit has led the monster astray.
Orderly == calm /\ ~strayed

\* Whom the monster is done with, or has not come to, shows what he should.
Screens ==
    Orderly =>
        /\ \A p \in Players \ InHand :
            InGame(p) /\ ~Busy(p) =>
                /\ p \in Told => Shows(p)
                /\ p \notin Told => Hides(p)
        /\ mpc = "add" => cur \in view

\* What a handler has established at each of its points.
Round(p) ==
    /\ pc[p] \in {"place", "leaveSector", "enterSector", "copy", "scan", "look"} =>
        /\ p \in view => p \in shown \/ p \in lapsed
        /\ p \notin view => p \notin shown
    /\ pc[p] \in {"scan", "look"} =>
        /\ p \in known <=> p \in view
        /\ p \in near => Sees(p)
    /\ pc[p] = "scan" /\ Sees(p) => p \in near \/ SectorOf(mpos) \in todo[p]
    /\ pc[p] \in {"insert", "add"} => Sees(p) /\ active
    /\ pc[p] = "add" => p \in view
    /\ pc[p] \in {"delete", "remove"} => ~Sees(p)
    /\ pc[p] = "remove" => p \notin view

Rounds == Orderly => \A p \in Players : InGame(p) => Round(p)

\* Whoever is at rest and sees the monster keeps it awake.
Awake == Orderly => \A p \in Players : InGame(p) /\ ~Busy(p) /\ Sees(p) => active

\* The inductive invariant.
World ==
    /\ TypeOK /\ Chain /\ Whereabouts /\ InPlace /\ Turns
    /\ Lookout /\ Screens /\ Rounds /\ Awake

LEMMA ScreensInit == Init => Screens /\ Rounds /\ Awake
<1> SUFFICES ASSUME Init PROVE Screens /\ Rounds /\ Awake
    OBVIOUS
<1> USE DEF Init
<1>1. Told = Sight /\ InHand = {} /\ view = Sight
    BY DEF Told, InHand, Sight, InGame, Sees
<1>2. Screens
    BY <1>1 DEF Screens, Shows, Hides
<1>3. Rounds
    BY DEF Rounds, Round
<1>4. Awake
    BY <1>1 DEF Awake, Sight
<1> QED
    BY <1>2, <1>3, <1>4

LEMMA ScreensMonsterStep == World /\ MonsterActs => Screens'
<1> SUFFICES ASSUME World, MonsterActs, calm', ~strayed' PROVE Screens'
    BY DEF Screens, Orderly
<1> USE DEF World
<1>. /\ seen \subseteq Players /\ before \subseteq Players
     /\ mpc # "search" => mcand \subseteq Players
    BY DEF TypeOK
<1>. Sight' = {p \in Players : InGame(p)' /\ Sees(p)'} /\ Sight = {p \in Players : InGame(p) /\ Sees(p)}
    BY DEF Sight
<1>. calm /\ ~strayed => Lookout /\ Turns
    OBVIOUS
<1> USE DEF Screens, Orderly, Told, InHand, Shows, Hides, Lookout, InGame, Sees, Busy, MonsterAt, Turns,
        taskQueue, monster, walk, player, views, handler, history
<1>1. CASE TakeMove
    BY <1>1 DEF TakeMove, StartScan
<1>2. CASE ScanSector
    BY <1>2 DEF ScanSector, Scans
<1>3. CASE LookAtPlayer
    BY <1>3 DEF LookAtPlayer, Scans
<1>4. CASE FallAsleep
    BY <1>4 DEF FallAsleep, ScanOver
<1>5. CASE KeepAlive
    BY <1>5 DEF KeepAlive, StartScan, ScanOver
<1>6. CASE ChooseTarget
    BY <1>6 DEF ChooseTarget, ScanOver
<1>7. CASE BeginSearch
    BY <1>7 DEF BeginSearch, StartScan, ScanOver
<1>8. CASE TakeTarget
    BY <1>8 DEF TakeTarget
<1>9. CASE SearchFails
    BY <1>9 DEF SearchFails, BeginNew, StartScan, ScanOver
<1>10. CASE FindPath
    BY <1>10 DEF FindPath, BeginNew, StartScan
<1>11. CASE TraceStep
    BY <1>11 DEF TraceStep
<1>12. CASE OrderAttack
    BY <1>12 DEF OrderAttack
<1>13. CASE RandomMove
    BY <1>13 DEF RandomMove
<1>14. CASE MonsterLeavesSector
    BY <1>14 DEF MonsterLeavesSector
<1>15. CASE MonsterEntersSector
    BY <1>15 DEF MonsterEntersSector
<1>16. CASE MonsterPlace
    BY <1>16 DEF MonsterPlace
<1>17. CASE Placed
    BY <1>17 DEF Placed, BeginNew, StartScan
<1>18. CASE NewDone
    BY <1>18 DEF NewDone, ScanOver
<1>19. CASE Meet
    BY <1>19 DEF Meet
<1>20. CASE InsertMonster
    BY <1>20 DEF InsertMonster
<1>21. CASE SendAdd
    BY <1>21 DEF SendAdd
<1>22. CASE MeetDone
    BY <1>22 DEF MeetDone
<1>23. CASE Lose
    BY <1>23 DEF Lose
<1>24. CASE LoseGone
    BY <1>24 DEF LoseGone
<1>25. CASE Forget
    BY <1>25 DEF Forget
<1>26. CASE LoseDone
    BY <1>26 DEF LoseDone
<1>27. CASE AddMoveTask
    BY <1>27 DEF AddMoveTask
<1>28. ASSUME NEW t \in Players \union Potions, TakeAttack(t) PROVE Screens'
    BY <1>28 DEF TakeAttack
<1> QED
    BY <1>1, <1>2, <1>3, <1>4, <1>5, <1>6, <1>7, <1>8, <1>9, <1>10, <1>11, <1>12, <1>13,
       <1>14, <1>15, <1>16, <1>17, <1>18, <1>19, <1>20, <1>21, <1>22, <1>23, <1>24, <1>25,
       <1>26, <1>27, <1>28 DEF MonsterActs, MonsterStep

LEMMA RoundsMonsterStep == World /\ MonsterActs => Rounds' /\ Awake'
<1> SUFFICES ASSUME World, MonsterActs, calm', ~strayed' PROVE Rounds' /\ Awake'
    BY DEF Rounds, Awake, Orderly
<1> USE DEF World
<1>. Sight = {p \in Players : InGame(p) /\ Sees(p)}
    BY DEF Sight
<1> USE DEF Rounds, Round, Awake, Orderly, InGame, Sees, Busy, MonsterAt, Turns, Quiet, Chain,
        taskQueue, monster, walk, player, views, handler, history
<1>1. CASE TakeMove
    BY <1>1 DEF TakeMove, StartScan
<1>2. CASE ScanSector
    BY <1>2 DEF ScanSector, Scans
<1>3. CASE LookAtPlayer
    BY <1>3 DEF LookAtPlayer, Scans
<1>4. CASE FallAsleep
    <2>1. calm /\ ~strayed
        BY <1>4 DEF FallAsleep, history
    <2>2. Sight = {}
        BY <1>4, <2>1 DEF FallAsleep, ScanOver, Lookout
    <2>3. Awake'
        BY <1>4, <2>2 DEF FallAsleep
    <2>4. Rounds'
        BY <1>4 DEF FallAsleep, ScanOver
    <2> QED
        BY <2>3, <2>4
<1>5. CASE KeepAlive
    BY <1>5 DEF KeepAlive, StartScan, ScanOver
<1>6. CASE ChooseTarget
    BY <1>6 DEF ChooseTarget, ScanOver
<1>7. CASE BeginSearch
    BY <1>7 DEF BeginSearch, StartScan, ScanOver
<1>8. CASE TakeTarget
    BY <1>8 DEF TakeTarget
<1>9. CASE SearchFails
    BY <1>9 DEF SearchFails, BeginNew, StartScan, ScanOver
<1>10. CASE FindPath
    BY <1>10 DEF FindPath, BeginNew, StartScan
<1>11. CASE TraceStep
    BY <1>11 DEF TraceStep
<1>12. CASE OrderAttack
    BY <1>12 DEF OrderAttack
<1>13. CASE RandomMove
    BY <1>13 DEF RandomMove
<1>14. CASE MonsterLeavesSector
    BY <1>14 DEF MonsterLeavesSector
<1>15. CASE MonsterEntersSector
    BY <1>15 DEF MonsterEntersSector
<1>16. CASE MonsterPlace
    BY <1>16 DEF MonsterPlace
<1>17. CASE Placed
    BY <1>17 DEF Placed, BeginNew, StartScan
<1>18. CASE NewDone
    BY <1>18 DEF NewDone, ScanOver
<1>19. CASE Meet
    BY <1>19 DEF Meet
<1>20. CASE InsertMonster
    BY <1>20 DEF InsertMonster
<1>21. CASE SendAdd
    BY <1>21 DEF SendAdd
<1>22. CASE MeetDone
    BY <1>22 DEF MeetDone
<1>23. CASE Lose
    BY <1>23 DEF Lose
<1>24. CASE LoseGone
    BY <1>24 DEF LoseGone
<1>25. CASE Forget
    BY <1>25 DEF Forget
<1>26. CASE LoseDone
    BY <1>26 DEF LoseDone
<1>27. CASE AddMoveTask
    BY <1>27 DEF AddMoveTask
<1>28. ASSUME NEW t \in Players \union Potions, TakeAttack(t) PROVE Rounds' /\ Awake'
    BY <1>28 DEF TakeAttack
<1> QED
    BY <1>1, <1>2, <1>3, <1>4, <1>5, <1>6, <1>7, <1>8, <1>9, <1>10, <1>11, <1>12, <1>13,
       <1>14, <1>15, <1>16, <1>17, <1>18, <1>19, <1>20, <1>21, <1>22, <1>23, <1>24, <1>25,
       <1>26, <1>27, <1>28 DEF MonsterActs, MonsterStep

\* All this about one player, when the monster stands still.
Settled(p) ==
    InGame(p) =>
        /\ Round(p)
        /\ ~Busy(p) =>
            /\ Sees(p) => Shows(p) /\ active
            /\ ~Sees(p) => Hides(p)

\* His worker settles it for him,
LEMMA SettledStep ==
    ASSUME NEW p \in Players, World, PlayerActs(p), ~Strike(p), ~Die(p), Settled(p),
           HandlerStep(p) \/ BeginMove(p) => presence[p] # "unlisted",
           ListedIn = {SectorOf(mpos)}, mpos \in Free
    PROVE  Settled(p)'
<1>. /\ pc \in [Players -> HandlerPoints] /\ pos \in [Players -> Free]
     /\ presence \in [Players -> {"ingame", "unlisted", "gone"}]
     /\ view \subseteq Players /\ shown \subseteq Players
     /\ todo \in [Players -> SUBSET Sectors] /\ active \in BOOLEAN
     /\ InPlace
    BY DEF World, TypeOK
<1>. Sees(p) => SectorOf(mpos) \in Neighbours(pos[p])
    BY SeenIsNeighbour DEF Sees, Free
<1>. \A s \in Sectors : Monster \in listed[s] <=> s = SectorOf(mpos)
    BY DEF ListedIn
<1> USE DEF Settled, Round, Sees, Shows, Hides, Busy, InGame, At, Goto, InPlace,
            taskQueue, monster, walk, player, views, handler, history
<1>1. CASE BeginMove(p)
    BY <1>1 DEF BeginMove, Bounded
<1>2. CASE Place(p)
    BY <1>2 DEF Place
<1>3. CASE LeaveSector(p)
    BY <1>3 DEF LeaveSector
<1>4. CASE EnterSector(p)
    BY <1>4 DEF EnterSector
<1>5. CASE CopyView(p)
    BY <1>5 DEF CopyView
<1>6. CASE LookInSector(p)
    BY <1>6 DEF LookInSector
<1>7. CASE LookAtMonster(p)
    BY <1>7 DEF LookAtMonster
<1>8. CASE WakeMonster(p)
    BY <1>8 DEF WakeMonster, EndScan
<1>9. CASE OutOfSight(p)
    BY <1>9 DEF OutOfSight, EndScan
<1>10. CASE InsertViewList(p)
    BY <1>10 DEF InsertViewList
<1>11. CASE ShowMonster(p)
    BY <1>11 DEF ShowMonster
<1>12. CASE DeleteViewList(p)
    BY <1>12 DEF DeleteViewList
<1>13. CASE HideMonster(p)
    BY <1>13 DEF HideMonster
<1>14. CASE Disconnect(p)
    BY <1>14 DEF Disconnect, Bounded
<1>15. CASE RemoveServerObject(p)
    BY <1>15 DEF RemoveServerObject
<1> QED
    BY <1>1, <1>2, <1>3, <1>4, <1>5, <1>6, <1>7, <1>8, <1>9, <1>10, <1>11, <1>12, <1>13,
       <1>14, <1>15 DEF PlayerActs, HandlerStep

\* and leaves the others alone.
LEMMA OthersStay ==
    ASSUME NEW p \in Players, TypeOK, PlayerActs(p), ~Strike(p), ~Die(p), NEW q \in Players \ {p}
    PROVE  /\ pc'[q] = pc[q] /\ pos'[q] = pos[q] /\ presence'[q] = presence[q]
           /\ q \in view' <=> q \in view
           /\ q \in shown' <=> q \in shown
           /\ lapsed' = lapsed /\ mpos' = mpos /\ strayed' = strayed
           /\ active => active'
<1>. /\ pc \in [Players -> HandlerPoints] /\ pos \in [Players -> Free]
     /\ presence \in [Players -> {"ingame", "unlisted", "gone"}]
    BY DEF TypeOK
<1> USE DEF Goto, taskQueue, monster, walk, player, views, handler, history
<1>1. CASE BeginMove(p)
    BY <1>1 DEF BeginMove
<1>2. CASE Place(p)
    BY <1>2 DEF Place
<1>3. CASE LeaveSector(p)
    BY <1>3 DEF LeaveSector
<1>4. CASE EnterSector(p)
    BY <1>4 DEF EnterSector
<1>5. CASE CopyView(p)
    BY <1>5 DEF CopyView
<1>6. CASE LookInSector(p)
    BY <1>6 DEF LookInSector
<1>7. CASE LookAtMonster(p)
    BY <1>7 DEF LookAtMonster
<1>8. CASE WakeMonster(p)
    BY <1>8 DEF WakeMonster
<1>9. CASE OutOfSight(p)
    BY <1>9 DEF OutOfSight
<1>10. CASE InsertViewList(p)
    BY <1>10 DEF InsertViewList
<1>11. CASE ShowMonster(p)
    BY <1>11 DEF ShowMonster
<1>12. CASE DeleteViewList(p)
    BY <1>12 DEF DeleteViewList
<1>13. CASE HideMonster(p)
    BY <1>13 DEF HideMonster
<1>14. CASE Disconnect(p)
    BY <1>14 DEF Disconnect
<1>15. CASE RemoveServerObject(p)
    BY <1>15 DEF RemoveServerObject
<1> QED
    BY <1>1, <1>2, <1>3, <1>4, <1>5, <1>6, <1>7, <1>8, <1>9, <1>10, <1>11, <1>12, <1>13,
       <1>14, <1>15 DEF PlayerActs, HandlerStep

LEMMA ScreensPlayerStep ==
    ASSUME NEW p \in Players, World, PlayerActs(p)
    PROVE  Screens' /\ Rounds' /\ Awake'
<1> SUFFICES ASSUME calm', ~strayed' PROVE Screens' /\ Rounds' /\ Awake'
    BY DEF Screens, Rounds, Awake, Orderly
<1>1. ASSUME Strike(p) \/ Die(p) PROVE Screens' /\ Rounds' /\ Awake'
    <2>1. /\ UNCHANGED <<active, mpos, mpc, seen, before, mcand, cur, pos, presence, view, shown>>
          /\ UNCHANGED <<pc, known, near, todo, calm, strayed, lapsed>>
        BY <1>1 DEF Strike, Die, walk, player, views, handler, monster
    <2>2. Told' = Told /\ InHand' = InHand
        BY <2>1 DEF Told, InHand, Sight, InGame, Sees
    <2>3. Screens'
        BY <2>1, <2>2 DEF World, Screens, Orderly, InGame, Busy, Shows, Hides
    <2>4. Rounds' /\ Awake'
        BY <2>1 DEF World, Rounds, Round, Awake, Orderly, InGame, Busy, Sees
    <2> QED
        BY <2>3, <2>4
<1>2. ASSUME ~Strike(p), ~Die(p) PROVE Screens' /\ Rounds' /\ Awake'
    <2>1. /\ calm /\ mpc = "idle" /\ mpc' = "idle"
          /\ \A q \in Players \ {p} : ~Busy(q)
          /\ HandlerStep(p) \/ BeginMove(p) => presence[p] # "unlisted"
        BY <1>2, PlayerTurn DEF World
    <2>2. ~strayed /\ mpos' = mpos
        <3>1. mpos' = mpos
            BY <1>2 DEF PlayerActs, HandlerStep, monster,
                   BeginMove, Place, LeaveSector, EnterSector, CopyView, LookInSector,
                   LookAtMonster, WakeMonster, OutOfSight, InsertViewList, ShowMonster,
                   DeleteViewList, HideMonster, Disconnect, RemoveServerObject
        <3>2. ~strayed
            BY <1>2, Zenon DEF PlayerActs, HandlerStep, history,
                   BeginMove, Place, LeaveSector, EnterSector, CopyView, LookInSector,
                   LookAtMonster, WakeMonster, OutOfSight, InsertViewList, ShowMonster,
                   DeleteViewList, HideMonster, Disconnect, RemoveServerObject
        <3> QED
            BY <3>1, <3>2
    <2>3. ListedIn = {SectorOf(mpos)} /\ mpos \in Free
        BY <2>1, <2>2 DEF World, Whereabouts, MonsterListed, TypeOK
    <2>4. \A q \in Players : Settled(q)
        BY <2>1, <2>2 DEF World, Screens, Rounds, Awake, Orderly, Settled, Told, InHand, Sight
    <2>5. Settled(p)'
        BY <1>2, <2>1, <2>3, <2>4, SettledStep
    <2>6. ASSUME NEW q \in Players \ {p} PROVE Settled(q)'
        <3>1. /\ pc'[q] = pc[q] /\ pos'[q] = pos[q] /\ presence'[q] = presence[q]
              /\ q \in view' <=> q \in view
              /\ q \in shown' <=> q \in shown
              /\ lapsed' = lapsed /\ mpos' = mpos
              /\ active => active'
            BY <1>2, OthersStay DEF World
        <3>2. pc[q] = "idle" /\ Settled(q)
            BY <2>1, <2>4 DEF Busy
        <3> QED
            BY <3>1, <3>2 DEF Settled, Round, InGame, Busy, Sees, Shows, Hides
    <2>7. \A q \in Players : Settled(q)'
        BY <2>5, <2>6
    <2> QED
        BY <2>1, <2>7 DEF Screens, Rounds, Awake, Settled, Told, InHand, Sight
<1> QED
    BY <1>1, <1>2

LEMMA WorldInvariance == Spec => []World
<1>1. Init => World
    BY TypingInit, ChainInit, WhereaboutsInit, InPlaceInit, TurnsInit, LookoutInit, ScreensInit DEF World
<1>2. World /\ [Next]_vars => World'
    <2> SUFFICES ASSUME World, [Next]_vars PROVE World'
        OBVIOUS
    <2>1. TypeOK' /\ Chain' /\ Whereabouts' /\ InPlace' /\ Turns'
        BY TypingStep, ChainStep, WhereaboutsStep, InPlaceStep, TurnsStep DEF World
    <2>2. ASSUME MonsterActs PROVE Lookout' /\ Screens' /\ Rounds' /\ Awake'
        BY <2>2, LookoutMonsterStep, ScreensMonsterStep, RoundsMonsterStep DEF World
    <2>3. ASSUME NEW p \in Players, PlayerActs(p) PROVE Lookout' /\ Screens' /\ Rounds' /\ Awake'
        BY <2>3, LookoutPlayerStep, ScreensPlayerStep DEF World
    <2>4. ASSUME UNCHANGED vars \/ PotionActs PROVE Lookout' /\ Screens' /\ Rounds' /\ Awake'
        <3>1. /\ UNCHANGED <<monster, walk, player, views, handler, calm, strayed, lapsed>>
            BY <2>4 DEF vars, history, PotionActs, Drop, PickUp
        <3>2. /\ Told' = Told /\ InHand' = InHand /\ Sight' = Sight /\ Orderly' = Orderly
              /\ UNCHANGED <<calm, mpc, seen, before, mcand, mtodo, cur, presence, pos, view, shown, lapsed>>
            BY <3>1 DEF walk, player, views, monster, Told, InHand, Sight, InGame, Sees, Orderly
        <3>3. Lookout' /\ Screens'
            BY <3>1, <3>2 DEF World, Lookout, Screens, Shows, Hides, InGame, Busy, handler
        <3>4. Rounds' /\ Awake'
            BY <3>1, <3>2 DEF World, Rounds, Round, Awake, InGame, Busy, Sees, handler, monster
        <3> QED
            BY <3>3, <3>4
    <2>5. Lookout' /\ Screens' /\ Rounds' /\ Awake'
        BY <2>2, <2>3, <2>4 DEF Next, MonsterActs, PlayerActs, PotionActs
    <2> QED
        BY <2>1, <2>5 DEF World
<1> QED
    BY <1>1, <1>2, PTL DEF Spec

(***************************************************************************)
(* The results.                                                            *)
(***************************************************************************)

\* The worker that moves a monster and the workers of the players only handle
\* tiles one may stand on, sectors that exist and players, wherever the walks
\* lead (Monster.cpp:64-240, 492-557, PacketFunc.cpp:198-489).
THEOREM Typing == Spec => []TypeOK
<1>1. World => TypeOK
    BY DEF World
<1> QED
    BY <1>1, WorldInvariance, PTL

\* The monster is in the list of some sector whenever it is not just changing
\* sectors, and as long as no pursuit has led it across an edge in that of the
\* sector it stands in alone (Monster.cpp:505, 550-557).
THEOREM MonsterIsListed == Spec => []MonsterListed
<1>1. World => MonsterListed
    BY DEF World, Whereabouts
<1> QED
    BY <1>1, WorldInvariance, PTL

\* Moves that follow one another leave the view lists and the screens of all
\* players right about a monster that has not strayed, except that those whom
\* it has walked away from keep it in their lists (Monster.cpp:144-240,
\* PacketFunc.cpp:265-489).
THEOREM ShownIsInSight == Spec => []ShownIsSight
<1>1. World => ShownIsSight
    <2> SUFFICES ASSUME World, calm, ~strayed, Quiet, NEW p \in Players, InGame(p)
                 PROVE  /\ CanSee(pos[p], mpos) => Shows(p)
                        /\ ~CanSee(pos[p], mpos) => Hides(p)
        BY DEF ShownIsSight, Shows, Hides
    <2>1. InHand = {} /\ Told = Sight /\ ~Busy(p)
        BY DEF Quiet, InHand, Told
    <2> QED
        BY <2>1 DEF World, Screens, Orderly, Sight, Sees
<1> QED
    BY <1>1, WorldInvariance, PTL

\* Then a monster that somebody sees is awake and has its MOVE task: it falls
\* asleep only when its scan has found nobody, and who comes into sight wakes
\* it (IOCPCore.cpp:86-131, PacketFunc.cpp:353-358).
THEOREM WatchedMonsterIsAwake == Spec => []WatchedIsAwake
<1>1. World => WatchedIsAwake
    BY DEF World, WatchedIsAwake, Awake, Orderly, Chain, Quiet, Sees
<1> QED
    BY <1>1, WorldInvariance, PTL
=============================================================================
