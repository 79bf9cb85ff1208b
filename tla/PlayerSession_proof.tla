------------------------ MODULE PlayerSession_proof ------------------------
(***************************************************************************)
(* What the login, disconnect, move and revive paths guarantee for any     *)
(* number of clients and ids, however many use the same id at once.  The   *)
(* invariant Custody has three parts.                                      *)
(*                                                                         *)
(* Settled ties a session to the object table:                             *)
(*   Departing   a disconnection is that of a player the session has had   *)
(*   StillOpen   until the receiving thread closes it, only the send path  *)
(*               can have disconnected the session                         *)
(*   Keyed       the id of a player that has entered is a key of the table *)
(*   Listed      an object in the table has its key for id, and its        *)
(*               session has not taken it out yet                          *)
(* Walks says what moves and revivals know while they are under way:       *)
(*   Apart       a player is not moved and revived at once                 *)
(*   Moves       a move has read where the player was, then where it is    *)
(*   Revives     a revival too, and its player is still in the world       *)
(* each of it but for players that have raced.  The last part says of an   *)
(* id in a sector that some player Holds it there: it is in the world and  *)
(* Lies there, or is Exempt.                                               *)
(*                                                                         *)
(* Most steps matter to neither part.  Inwardly and Quietly sort them out  *)
(* once, so that a lemma on one conjunct has only the others to look at.   *)
(***************************************************************************)
EXTENDS PlayerSession, TLAPS

\* Restoring a row never adds to what it holds.
LEMMA RestoredRange ==
    ASSUME NEW gained \in 0..MaxProgress
    PROVE  Restored(gained) \in 0..MaxProgress
<1> DEFINE levels == gained \div LevelStep
<1>1. levels \in Nat
  BY ProgressAssumption
<1>2. gained = LevelStep * levels + (gained % LevelStep) /\ gained % LevelStep \in Nat
  BY ProgressAssumption
<1>3. LevelStep * levels \in Nat
  BY <1>1, ProgressAssumption
<1> QED
  BY <1>2, <1>3, ProgressAssumption DEF Restored

\* The Player objects of a session, and their ids.
LEMMA Objects ==
    /\ \A p \in Players :
         /\ p[1] \in Sessions /\ p[2] \in 1..MaxLogins /\ p[2] <= Len(Wants[p[1]])
         /\ p = <<p[1], p[2]>>
         /\ IdOf(p) \in Ids
    /\ \A s \in Sessions : \A k \in Nat \ {0} : k <= Len(Wants[s]) => <<s, k>> \in Players
<1>1. ASSUME NEW p \in Players PROVE
        /\ p[1] \in Sessions /\ p[2] \in 1..MaxLogins /\ p[2] <= Len(Wants[p[1]])
        /\ p = <<p[1], p[2]>>
  BY DEF Players
<1>2. ASSUME NEW p \in Players PROVE IdOf(p) \in Ids
  <2>1. Wants[p[1]] \in Seq(Ids)
    BY <1>1, WantsAssumption
  <2>2. p[2] \in 1..Len(Wants[p[1]])
    BY <1>1, <2>1, WantsAssumption
  <2> QED
    BY <2>1, <2>2 DEF IdOf
<1>3. ASSUME NEW s \in Sessions, NEW k \in Nat \ {0}, k <= Len(Wants[s]) PROVE <<s, k>> \in Players
  <2>1. k \in 1..MaxLogins
    <3>1. Len(Wants[s]) \in Nat
      BY WantsAssumption
    <3> QED
      BY <1>3, <3>1, WantsAssumption
  <2> QED
    BY <1>3, <2>1 DEF Players
<1> QED
  BY <1>1, <1>2, <1>3

\* m_player, and the object a login makes.
LEMMA Owner ==
    ASSUME Types, NEW s \in Sessions, InStep(s)
    PROVE  /\ HasPlayer(s) => Player(s) \in Players /\ IdOf(Player(s)) \in Ids
           /\ pc[s]["recv"] \in {"load", "addRow", "check", "enter", "own"} =>
                Draft(s) \in Players /\ IdOf(Draft(s)) \in Ids
<1>1. logins[s] \in Nat /\ Len(Wants[s]) \in Nat
  BY WantsAssumption DEF Types
<1>2. HasPlayer(s) => Player(s) \in Players
  BY <1>1, Objects DEF HasPlayer, Player, InStep
<1>3. pc[s]["recv"] \in {"load", "addRow", "check", "enter", "own"} => Draft(s) \in Players
  BY <1>1, Objects DEF Draft, InStep
<1> QED
  BY <1>2, <1>3, Objects

LEMMA TypingInit == Init => TypeOK
<1> SUFFICES ASSUME Init PROVE TypeOK
  OBVIOUS
<1>1. 0 \in 0..MaxProgress /\ 0 \in 0..MaxLogins
  BY ProgressAssumption, WantsAssumption
<1>2. row \in [Ids -> 0..MaxProgress \cup {NoRow}]
  BY <1>1 DEF Init
<1>3. pc \in [Sessions -> [Threads -> Points]]
  BY DEF Init, Points
<1>4. stat \in [Sessions -> [Threads -> 0..MaxProgress]] /\ progress \in [Players -> 0..MaxProgress]
  BY <1>1 DEF Init
<1>5. leaver \in [Sessions -> [Threads -> Ids \cup {Nobody}]]
  BY DEF Init
<1>6. place \in [Players -> Sectors] /\ home \in [Players -> Sectors]
  BY SpawnAssumption DEF Init
<1>7. Types
  <2>1. rpc \in [Workers -> RevivePoints] /\ hero \in [Workers -> Players \cup {Nobody}]
    BY DEF Init, RevivePoints
  <2>2. route \in [Carriers -> [from : Sectors \cup {Nobody}, to : Sectors \cup {Nobody}]]
    BY DEF Init, Nowhere
  <2>3. /\ listed \in [Sessions -> {"absent", "present", "null"}]
        /\ sessionCount \in Int /\ accepting \in SUBSET Sessions
    BY DEF Init
  <2>4. connected \in [Sessions -> BOOLEAN] /\ down \in BOOLEAN
    BY DEF Init
  <2>5. /\ logins \in [Sessions -> 0..MaxLogins] /\ table \in [Ids -> Players \cup {Absent, Gone}]
        /\ board \in SUBSET (Ids \X Sectors) /\ habit \in Habits /\ raced \in SUBSET Players
    BY <1>1 DEF Init
  <2> QED
    BY <1>2, <1>3, <1>4, <1>5, <1>6, <2>1, <2>2, <2>3, <2>4, <2>5 DEF Types
<1>8. ASSUME NEW s \in Sessions PROVE InStep(s)
  <2>1. \A a \in Threads : pc[s][a] = "off"
    BY DEF Init
  <2>2. "recv" \in Threads
    BY DEF Threads
  <2>3. logins[s] = 0 /\ Len(Wants[s]) \in Nat
    BY WantsAssumption DEF Init
  <2> QED
    BY <2>1, <2>2, <2>3 DEF InStep, MovePoints
<1>9. ASSUME NEW w \in Workers PROVE Carrying(w)
  BY DEF Init, Carrying
<1> QED
  BY <1>7, <1>8, <1>9 DEF TypeOK

\* A step takes one thread to another point, or none.
LEMMA PointsStep == TypeOK /\ [Next]_vars => pc' \in [Sessions -> [Threads -> Points]]
<1> SUFFICES ASSUME TypeOK, [Next]_vars PROVE pc' \in [Sessions -> [Threads -> Points]]
  OBVIOUS
<1> DEFINE PointsOK == pc \in [Sessions -> [Threads -> Points]]
<1>a. PointsOK
  BY DEF TypeOK, Types
<1>b. ASSUME NEW s \in Sessions, NEW a \in Threads, NEW point \in Points, Goto(s, a, point)
      PROVE  PointsOK'
  BY <1>a, <1>b DEF Goto
<1>c. pc' = pc => PointsOK'
  BY <1>a
<1>d. "recv" \in Threads /\ LoginPoints \cup MovePoints \cup DisconnectPoints \cup {"recv", "post", "over"} \subseteq Points
  BY DEF Threads, Points
<1> HIDE DEF PointsOK
<1> USE DEF LoginPoints, MovePoints, DisconnectPoints
<1>1. ASSUME NEW s \in Sessions, Accept(s) PROVE PointsOK'
  BY <1>1, <1>b, <1>c, <1>d DEF Accept
<1>2. ASSUME NEW s \in Sessions, AddSession(s) PROVE PointsOK'
  BY <1>2, <1>b, <1>c, <1>d DEF AddSession
<1>3. ASSUME NEW s \in Sessions, Login(s) PROVE PointsOK'
  BY <1>3, <1>b, <1>c, <1>d DEF Login
<1>4. ASSUME NEW s \in Sessions, GetUserInfo(s) PROVE PointsOK'
  BY <1>4, <1>b, <1>c, <1>d DEF GetUserInfo
<1>5. ASSUME NEW s \in Sessions, AddUserInfo(s) PROVE PointsOK'
  BY <1>5, <1>b, <1>c, <1>d DEF AddUserInfo
<1>6. ASSUME NEW s \in Sessions, CheckInUse(s) PROVE PointsOK'
  BY <1>6, <1>b, <1>c, <1>d DEF CheckInUse
<1>7. ASSUME NEW s \in Sessions, EnterSector(s) PROVE PointsOK'
  BY <1>7, <1>b, <1>c, <1>d DEF EnterSector
<1>8. ASSUME NEW s \in Sessions, SetPlayer(s) PROVE PointsOK'
  BY <1>8, <1>b, <1>c, <1>d DEF SetPlayer
<1>9. ASSUME NEW s \in Sessions, ReenterSector(s) PROVE PointsOK'
  BY <1>9, <1>b, <1>c, <1>d DEF ReenterSector
<1>10. ASSUME NEW s \in Sessions, AddServerObject(s) PROVE PointsOK'
  BY <1>10, <1>b, <1>c, <1>d DEF AddServerObject
<1>11. ASSUME NEW s \in Sessions, Play(s) PROVE PointsOK'
  BY <1>11, <1>b, <1>c, <1>d DEF Play
<1>12. ASSUME NEW s \in Sessions, BeginMove(s) PROVE PointsOK'
  BY <1>12, <1>b, <1>c, <1>d DEF BeginMove
<1>13. ASSUME NEW s \in Sessions, Place(s) PROVE PointsOK'
  <2>1. Goto(s, "recv", "post") \/ Goto(s, "recv", "list") \/ Goto(s, "recv", "unlist")
    BY <1>13 DEF Place, EndMove
  <2> QED
    BY <2>1, <1>b, <1>d
<1>14. ASSUME NEW s \in Sessions, MoveUnlists(s) PROVE PointsOK'
  BY <1>14, <1>b, <1>c, <1>d DEF MoveUnlists
<1>15. ASSUME NEW s \in Sessions, MoveLists(s) PROVE PointsOK'
  BY <1>15, <1>b, <1>c, <1>d DEF MoveLists, EndMove
<1>16. ASSUME NEW s \in Sessions, PostRecv(s) PROVE PointsOK'
  BY <1>16, <1>b, <1>c, <1>d DEF PostRecv
<1>17. ASSUME NEW s \in Sessions, NEW a \in Threads, Closes(s, a) PROVE PointsOK'
  BY <1>17, <1>b, <1>c, <1>d DEF Closes
<1>18. ASSUME NEW s \in Sessions, NEW a \in Threads, ReadUserInfo(s, a) PROVE PointsOK'
  BY <1>18, <1>b, <1>c, <1>d DEF ReadUserInfo
<1>19. ASSUME NEW s \in Sessions, NEW a \in Threads, SetUserInfo(s, a) PROVE PointsOK'
  BY <1>19, <1>b, <1>c, <1>d DEF SetUserInfo
<1>20. ASSUME NEW s \in Sessions, NEW a \in Threads, LeaveSector(s, a) PROVE PointsOK'
  BY <1>20, <1>b, <1>c, <1>d DEF LeaveSector
<1>21. ASSUME NEW s \in Sessions, NEW a \in Threads, RemoveServerObject(s, a) PROVE PointsOK'
  BY <1>21, <1>b, <1>c, <1>d DEF RemoveServerObject
<1>22. ASSUME NEW s \in Sessions, NEW a \in Threads, Disconnect(s, a) PROVE PointsOK'
  BY <1>22, <1>b, <1>c, <1>d DEF Disconnect
<1>23. ASSUME NEW s \in Sessions, NEW a \in Threads, RemoveSession(s, a) PROVE PointsOK'
  BY <1>23, <1>b, <1>c, <1>d DEF RemoveSession
<1>24. ASSUME NEW w \in Workers, ReviveEvent(w) PROVE PointsOK'
  BY <1>24, <1>b, <1>c, <1>d DEF ReviveEvent
<1>25. ASSUME NEW w \in Workers, ReviveFrom(w) PROVE PointsOK'
  BY <1>25, <1>b, <1>c, <1>d DEF ReviveFrom
<1>26. ASSUME NEW w \in Workers, ReviveHome(w) PROVE PointsOK'
  BY <1>26, <1>b, <1>c, <1>d DEF ReviveHome
<1>27. ASSUME NEW w \in Workers, ReviveTo(w) PROVE PointsOK'
  BY <1>27, <1>b, <1>c, <1>d DEF ReviveTo
<1>28. ASSUME NEW w \in Workers, ReviveUnlists(w) PROVE PointsOK'
  BY <1>28, <1>b, <1>c, <1>d DEF ReviveUnlists
<1>29. ASSUME NEW w \in Workers, ReviveLists(w) PROVE PointsOK'
  BY <1>29, <1>b, <1>c, <1>d DEF ReviveLists
<1>30. ASSUME UNCHANGED vars PROVE PointsOK'
  BY <1>30, <1>c DEF vars
<1> HIDE DEF PointsOK, Goto, At, Carry, sessionVars, playerVars, worldVars, saveVars, reviveVars
<1>31. PointsOK'
  BY <1>1, <1>2, <1>3, <1>4, <1>5, <1>6, <1>7, <1>8, <1>9, <1>10,
     <1>11, <1>12, <1>13, <1>14, <1>15, <1>16, <1>17, <1>18, <1>19, <1>20,
     <1>21, <1>22, <1>23, <1>24, <1>25, <1>26, <1>27, <1>28, <1>29, <1>30
  DEF Next, LoginStep, MoveStep, DisconnectStep, ReviveStep
<1> QED
  BY <1>31 DEF PointsOK

LEMMA TypesStep == TypeOK /\ [Next]_vars => Types'
<1> SUFFICES ASSUME TypeOK, [Next]_vars, pc' \in [Sessions -> [Threads -> Points]] PROVE Types'
  BY PointsStep
<1> USE DEF Types, At, sessionVars, playerVars, worldVars, saveVars, reviveVars, Carry, InTable
<1>a. Types /\ pc' \in [Sessions -> [Threads -> Points]]
  BY DEF TypeOK
<1>progress. progress \in [Players -> 0..MaxProgress]
  BY <1>a
<1>logins. logins \in [Sessions -> 0..MaxLogins]
  BY <1>a
<1>place. place \in [Players -> Sectors]
  BY <1>a
<1>home. home \in [Players -> Sectors]
  BY <1>a
<1>table. table \in [Ids -> Players \cup {Absent, Gone}]
  BY <1>a
<1>board. board \in SUBSET (Ids \X Sectors)
  BY <1>a
<1>row. row \in [Ids -> 0..MaxProgress \cup {NoRow}]
  BY <1>a
<1>stat. stat \in [Sessions -> [Threads -> 0..MaxProgress]]
  BY <1>a
<1>leaver. leaver \in [Sessions -> [Threads -> Ids \cup {Nobody}]]
  BY <1>a
<1>rpc. rpc \in [Workers -> RevivePoints]
  BY <1>a
<1>hero. hero \in [Workers -> Players \cup {Nobody}]
  BY <1>a
<1>route. route \in [Carriers -> [from : Sectors \cup {Nobody}, to : Sectors \cup {Nobody}]]
  BY <1>a
<1>raced. raced \in SUBSET Players
  BY <1>a
<1>down. down \in BOOLEAN
  BY <1>a
<1> USE DEF RevivePoints, Carriers
<1>ends. Nowhere \in [from : Sectors \cup {Nobody}, to : Sectors \cup {Nobody}]
  BY DEF Nowhere
<1>b. /\ \A s \in Sessions : InStep(s) /\ (HasPlayer(s) => Player(s) \in Players /\ IdOf(Player(s)) \in Ids)
      /\ \A s \in Sessions : pc[s]["recv"] \in {"load", "addRow", "check", "enter", "own"} =>
           Draft(s) \in Players /\ IdOf(Draft(s)) \in Ids
      /\ \A w \in Workers : Carrying(w)
      /\ \A p \in Players : IdOf(p) \in Ids
      /\ 0 \in 0..MaxProgress
  BY Owner, Objects, ProgressAssumption DEF TypeOK
<1>1. ASSUME NEW s \in Sessions, Accept(s) PROVE Types'
  BY <1>1, <1>a DEF Accept
<1>2. ASSUME NEW s \in Sessions, AddSession(s) PROVE Types'
  BY <1>2, <1>a DEF AddSession
<1>3. ASSUME NEW s \in Sessions, Login(s) PROVE Types'
  <2>1. UNCHANGED <<connected, listed, sessionCount, accepting, logins, progress, place, home, table, board, row, stat, leaver, rpc, hero, route, habit, raced, down>>
    BY <1>3 DEF Login
  <2> QED
    BY <1>a, <2>1
<1>4. ASSUME NEW s \in Sessions, GetUserInfo(s) PROVE Types'
  <2>1. UNCHANGED <<connected, listed, sessionCount, accepting, logins, place, home, table, board, row, stat, leaver, rpc, hero, route, habit, raced, down>>
    BY <1>4 DEF GetUserInfo
  <2>2. progress' \in [Players -> 0..MaxProgress]
    <3>1. Draft(s) \in Players /\ IdOf(Draft(s)) \in Ids
      BY <1>4, <1>b DEF GetUserInfo
    <3>2. row[IdOf(Draft(s))] # NoRow => Restored(row[IdOf(Draft(s))]) \in 0..MaxProgress
      BY <1>row, <3>1, RestoredRange
    <3>3. \/ UNCHANGED progress
          \/ /\ row[IdOf(Draft(s))] # NoRow
             /\ progress' = [progress EXCEPT ![Draft(s)] = Restored(row[IdOf(Draft(s))])]
      BY <1>4 DEF GetUserInfo
    <3> QED
      BY <1>progress, <3>1, <3>2, <3>3
  <2> QED
    BY <1>a, <2>1, <2>2
<1>5. ASSUME NEW s \in Sessions, AddUserInfo(s) PROVE Types'
  <2>1. UNCHANGED <<connected, listed, sessionCount, accepting, logins, place, home, table, board, stat, leaver, rpc, hero, route, habit, raced>>
    BY <1>5 DEF AddUserInfo
  <2>2. row' \in [Ids -> 0..MaxProgress \cup {NoRow}]
    <3>1. row' = row \/ row' = [row EXCEPT ![IdOf(Draft(s))] = 0]
      BY <1>5 DEF AddUserInfo
    <3> QED
      BY <1>row, <1>b, <3>1
  <2>3. progress' \in [Players -> 0..MaxProgress]
    <3>1. progress' = progress \/ progress' = [progress EXCEPT ![Draft(s)] = 0]
      BY <1>5 DEF AddUserInfo
    <3> QED
      BY <1>progress, <1>b, <3>1
  <2>4. down' \in BOOLEAN
    BY <1>5, <1>down DEF AddUserInfo
  <2> QED
    BY <1>a, <2>1, <2>2, <2>3, <2>4
<1>6. ASSUME NEW s \in Sessions, CheckInUse(s) PROVE Types'
  <2>1. UNCHANGED <<connected, listed, sessionCount, accepting, logins, progress, place, home, table, board, row, stat, leaver, rpc, hero, route, habit, raced, down>>
    BY <1>6 DEF CheckInUse
  <2> QED
    BY <1>a, <2>1
<1>7. ASSUME NEW s \in Sessions, EnterSector(s) PROVE Types'
  <2>1. UNCHANGED <<connected, listed, sessionCount, accepting, logins, progress, place, home, table, row, stat, leaver, rpc, hero, route, habit, raced, down>>
    BY <1>7 DEF EnterSector, Add
  <2>2. board' \in SUBSET (Ids \X Sectors)
    <3>1. Draft(s) \in Players /\ IdOf(Draft(s)) \in Ids
      BY <1>7, <1>b DEF EnterSector
    <3>2. board' = board \cup {<<IdOf(Draft(s)), place[Draft(s)]>>}
      BY <1>7 DEF EnterSector, Add
    <3> QED
      BY <1>board, <1>place, <3>1, <3>2
  <2> QED
    BY <1>a, <2>1, <2>2
<1>8. ASSUME NEW s \in Sessions, SetPlayer(s) PROVE Types'
  <2>1. UNCHANGED <<connected, listed, sessionCount, accepting, progress, place, home, table, board, row, stat, leaver, rpc, hero, route, habit, raced, down>>
    BY <1>8 DEF SetPlayer
  <2>2. logins' \in [Sessions -> 0..MaxLogins]
    <3>1. logins[s] + 1 <= MaxLogins
      BY <1>8, <1>logins, <1>b, WantsAssumption DEF SetPlayer, InStep
    <3>2. logins' = [logins EXCEPT ![s] = logins[s] + 1]
      BY <1>8 DEF SetPlayer
    <3> QED
      BY <1>logins, <3>1, <3>2, WantsAssumption
  <2> QED
    BY <1>a, <2>1, <2>2
<1>9. ASSUME NEW s \in Sessions, ReenterSector(s) PROVE Types'
  <2>1. UNCHANGED <<connected, listed, sessionCount, accepting, logins, progress, place, home, table, row, stat, leaver, rpc, hero, route, habit, raced, down>>
    BY <1>9 DEF ReenterSector, Add
  <2>2. board' \in SUBSET (Ids \X Sectors)
    <3>1. Player(s) \in Players /\ IdOf(Player(s)) \in Ids
      BY <1>9, <1>b DEF ReenterSector, InStep
    <3>2. board' = board \cup {<<IdOf(Player(s)), place[Player(s)]>>}
      BY <1>9 DEF ReenterSector, Add
    <3> QED
      BY <1>board, <1>place, <3>1, <3>2
  <2> QED
    BY <1>a, <2>1, <2>2
<1>10. ASSUME NEW s \in Sessions, AddServerObject(s) PROVE Types'
  <2>1. UNCHANGED <<connected, listed, sessionCount, accepting, logins, progress, place, home, board, row, stat, leaver, rpc, hero, route, habit, raced, down>>
    BY <1>10 DEF AddServerObject
  <2>2. table' \in [Ids -> Players \cup {Absent, Gone}]
    <3>1. Player(s) \in Players /\ IdOf(Player(s)) \in Ids
      BY <1>10, <1>b DEF AddServerObject, InStep
    <3>2. table' = table \/ table' = [table EXCEPT ![IdOf(Player(s))] = Player(s)]
      BY <1>10, <1>table, <3>1 DEF AddServerObject
    <3> QED
      BY <1>table, <3>1, <3>2
  <2> QED
    BY <1>a, <2>1, <2>2
<1>11. ASSUME NEW s \in Sessions, Play(s) PROVE Types'
  <2>1. UNCHANGED <<connected, listed, sessionCount, accepting, logins, place, home, table, board, row, stat, leaver, rpc, hero, route, habit, raced, down>>
    BY <1>11 DEF Play
  <2>2. progress' \in [Players -> 0..MaxProgress]
    <3>1. PICK gain \in {0, 1} :
            /\ progress[Player(s)] + gain <= MaxProgress
            /\ progress' = [progress EXCEPT ![Player(s)] = progress[Player(s)] + gain]
      BY <1>11 DEF Play
    <3>2. Player(s) \in Players
      BY <1>11, <1>b DEF Play
    <3>3. progress[Player(s)] + gain \in 0..MaxProgress
      BY <1>progress, <3>1, <3>2, ProgressAssumption
    <3> QED
      BY <1>progress, <3>1, <3>3
  <2> QED
    BY <1>a, <2>1, <2>2
<1>12. ASSUME NEW s \in Sessions, BeginMove(s) PROVE Types'
  <2>1. UNCHANGED <<connected, listed, sessionCount, accepting, logins, progress, place, home, table, board, row, stat, leaver, rpc, hero, habit, down>>
    BY <1>12 DEF BeginMove
  <2>2. route' \in [Carriers -> [from : Sectors \cup {Nobody}, to : Sectors \cup {Nobody}]]
    <3>1. PICK sector \in Sectors : route' = [route EXCEPT ![s] = [from |-> place[Player(s)], to |-> sector]]
      BY <1>12 DEF BeginMove
    <3>2. [from |-> place[Player(s)], to |-> sector] \in [from : Sectors \cup {Nobody}, to : Sectors \cup {Nobody}]
      BY <1>12, <1>b, <1>place DEF BeginMove
    <3> QED
      BY <1>route, <3>1, <3>2
  <2>3. raced' \in SUBSET Players
    BY <1>12, <1>b, <1>raced DEF BeginMove
  <2> QED
    BY <1>a, <2>1, <2>2, <2>3
<1>13. ASSUME NEW s \in Sessions, Place(s) PROVE Types'
  <2>1. UNCHANGED <<connected, listed, sessionCount, accepting, logins, progress, table, board, row, stat, leaver, rpc, hero, habit, raced, down>>
    BY <1>13 DEF Place, EndMove
  <2>2. place' \in [Players -> Sectors]
    <3>1. Player(s) \in Players /\ route[s].to \in Sectors
      BY <1>13, <1>b DEF Place, InStep, MovePoints
    <3>2. place' = [place EXCEPT ![Player(s)] = route[s].to]
      BY <1>13 DEF Place
    <3> QED
      BY <1>place, <3>1, <3>2
  <2>3. home' \in [Players -> Sectors]
    <3>1. Player(s) \in Players /\ route[s].to \in Sectors
      BY <1>13, <1>b DEF Place, InStep, MovePoints
    <3>2. home' = home \/ home' = [home EXCEPT ![Player(s)] = route[s].to]
      BY <1>13 DEF Place
    <3> QED
      BY <1>home, <3>1, <3>2
  <2>4. route' \in [Carriers -> [from : Sectors \cup {Nobody}, to : Sectors \cup {Nobody}]]
    <3>1. route' = route \/ route' = [route EXCEPT ![s] = Nowhere]
      BY <1>13 DEF Place, EndMove
    <3> QED
      BY <1>route, <1>ends, <3>1
  <2> QED
    BY <1>a, <2>1, <2>2, <2>3, <2>4
<1>14. ASSUME NEW s \in Sessions, MoveUnlists(s) PROVE Types'
  <2>1. UNCHANGED <<connected, listed, sessionCount, accepting, logins, progress, place, home, table, row, stat, leaver, rpc, hero, route, habit, raced, down>>
    BY <1>14 DEF MoveUnlists, Remove
  <2>2. board' \in SUBSET (Ids \X Sectors)
    BY <1>14, <1>board DEF MoveUnlists, Remove
  <2> QED
    BY <1>a, <2>1, <2>2
<1>15. ASSUME NEW s \in Sessions, MoveLists(s) PROVE Types'
  <2>1. UNCHANGED <<connected, listed, sessionCount, accepting, logins, progress, place, home, table, row, stat, leaver, rpc, hero, habit, raced, down>>
    BY <1>15 DEF MoveLists, EndMove, Add
  <2>2. board' \in SUBSET (Ids \X Sectors)
    <3>1. IdOf(Player(s)) \in Ids /\ route[s].to \in Sectors
      BY <1>15, <1>b DEF MoveLists, InStep, MovePoints
    <3>2. board' = board \cup {<<IdOf(Player(s)), route[s].to>>}
      BY <1>15 DEF MoveLists, Add
    <3> QED
      BY <1>board, <3>1, <3>2
  <2>3. route' \in [Carriers -> [from : Sectors \cup {Nobody}, to : Sectors \cup {Nobody}]]
    <3>1. route' = [route EXCEPT ![s] = Nowhere]
      BY <1>15 DEF MoveLists, EndMove
    <3> QED
      BY <1>route, <1>ends, <3>1
  <2> QED
    BY <1>a, <2>1, <2>2, <2>3
<1>16. ASSUME NEW s \in Sessions, PostRecv(s) PROVE Types'
  <2>1. UNCHANGED <<connected, listed, sessionCount, accepting, logins, progress, place, home, table, board, row, stat, leaver, rpc, hero, route, habit, raced, down>>
    BY <1>16 DEF PostRecv
  <2> QED
    BY <1>a, <2>1
<1>17. ASSUME NEW s \in Sessions, NEW a \in Threads, Closes(s, a) PROVE Types'
  <2>1. UNCHANGED <<connected, listed, sessionCount, accepting, logins, progress, place, home, table, board, row, stat, rpc, hero, route, habit, raced, down>>
    BY <1>17 DEF Closes
  <2>2. leaver' \in [Sessions -> [Threads -> Ids \cup {Nobody}]]
    <3>1. leaver' = leaver \/ (HasPlayer(s) /\ leaver' = [leaver EXCEPT ![s][a] = IdOf(Player(s))])
      BY <1>17 DEF Closes
    <3>2. ASSUME HasPlayer(s), leaver' = [leaver EXCEPT ![s][a] = IdOf(Player(s))]
          PROVE  leaver' \in [Sessions -> [Threads -> Ids \cup {Nobody}]]
      <4>1. IdOf(Player(s)) \in Ids
        BY <1>b, <3>2
      <4> QED
        BY <1>leaver, <3>2, <4>1
    <3> QED
      BY <1>leaver, <3>1, <3>2
  <2> QED
    BY <1>a, <2>1, <2>2
<1>18. ASSUME NEW s \in Sessions, NEW a \in Threads, ReadUserInfo(s, a) PROVE Types'
  <2>1. UNCHANGED <<connected, listed, sessionCount, accepting, logins, progress, place, home, table, board, row, leaver, rpc, hero, route, habit, raced, down>>
    BY <1>18 DEF ReadUserInfo
  <2>2. stat' \in [Sessions -> [Threads -> 0..MaxProgress]]
    <3>1. \/ stat' = stat
          \/ InTable(leaver[s][a]) /\ stat' = [stat EXCEPT ![s][a] = progress[table[leaver[s][a]]]]
      BY <1>18 DEF ReadUserInfo
    <3>2. InTable(leaver[s][a]) => progress[table[leaver[s][a]]] \in 0..MaxProgress
      BY <1>progress DEF InTable
    <3> QED
      BY <1>stat, <3>1, <3>2
  <2> QED
    BY <1>a, <2>1, <2>2
<1>19. ASSUME NEW s \in Sessions, NEW a \in Threads, SetUserInfo(s, a) PROVE Types'
  <2>1. UNCHANGED <<connected, listed, sessionCount, accepting, logins, progress, place, home, table, board, leaver, rpc, hero, route, habit, raced, down>>
    BY <1>19 DEF SetUserInfo
  <2>2. row' \in [Ids -> 0..MaxProgress \cup {NoRow}]
    <3>1. stat[s][a] \in 0..MaxProgress
      BY <1>stat
    <3>2. row' = row \/ row' = [row EXCEPT ![leaver[s][a]] = stat[s][a]]
      BY <1>19 DEF SetUserInfo
    <3> QED
      BY <1>row, <3>1, <3>2
  <2>3. stat' \in [Sessions -> [Threads -> 0..MaxProgress]]
    <3>1. stat' = [stat EXCEPT ![s][a] = 0]
      BY <1>19 DEF SetUserInfo
    <3> QED
      BY <1>stat, <1>b, <3>1
  <2> QED
    BY <1>a, <2>1, <2>2, <2>3
<1>20. ASSUME NEW s \in Sessions, NEW a \in Threads, LeaveSector(s, a) PROVE Types'
  <2>1. UNCHANGED <<connected, listed, sessionCount, accepting, logins, progress, place, home, table, row, stat, leaver, rpc, hero, route, habit, down>>
    BY <1>20 DEF LeaveSector, Remove
  <2>2. board' \in SUBSET (Ids \X Sectors)
    BY <1>20, <1>board DEF LeaveSector, Remove
  <2>3. raced' \in SUBSET Players
    <3>1. Player(s) \in Players
      BY <1>20, <1>b DEF LeaveSector, InStep
    <3> QED
      BY <1>20, <1>raced, <3>1 DEF LeaveSector
  <2> QED
    BY <1>a, <2>1, <2>2, <2>3
<1>21. ASSUME NEW s \in Sessions, NEW a \in Threads, RemoveServerObject(s, a) PROVE Types'
  <2>1. UNCHANGED <<connected, listed, sessionCount, accepting, logins, progress, place, home, board, row, stat, leaver, rpc, hero, route, habit, raced>>
    BY <1>21 DEF RemoveServerObject
  <2>2. table' \in [Ids -> Players \cup {Absent, Gone}]
    <3>1. table' = table \/ table' = [table EXCEPT ![leaver[s][a]] = Gone]
      BY <1>21 DEF RemoveServerObject
    <3> QED
      BY <1>table, <3>1
  <2>3. down' \in BOOLEAN
    BY <1>21, <1>down DEF RemoveServerObject
  <2> QED
    BY <1>a, <2>1, <2>2, <2>3
<1>22. ASSUME NEW s \in Sessions, NEW a \in Threads, Disconnect(s, a) PROVE Types'
  BY <1>22, <1>a DEF Disconnect
<1>23. ASSUME NEW s \in Sessions, NEW a \in Threads, RemoveSession(s, a) PROVE Types'
  BY <1>23, <1>a DEF RemoveSession
<1>24. ASSUME NEW w \in Workers, ReviveEvent(w) PROVE Types'
  <2>1. UNCHANGED <<connected, listed, sessionCount, accepting, logins, progress, place, home, table, board, row, stat, leaver, route, habit, raced, down>>
    BY <1>24 DEF ReviveEvent
  <2>2. rpc' \in [Workers -> RevivePoints]
    <3>1. rpc' = [rpc EXCEPT ![w] = "from"]
      BY <1>24 DEF ReviveEvent
    <3> QED
      BY <1>rpc, <3>1
  <2>3. hero' \in [Workers -> Players \cup {Nobody}]
    <3>1. PICK id \in Ids : table[id] \in Players /\ hero' = [hero EXCEPT ![w] = table[id]]
      BY <1>24 DEF ReviveEvent
    <3> QED
      BY <1>hero, <3>1
  <2> QED
    BY <1>a, <2>1, <2>2, <2>3
<1>25. ASSUME NEW w \in Workers, ReviveFrom(w) PROVE Types'
  <2>1. UNCHANGED <<connected, listed, sessionCount, accepting, logins, progress, place, home, table, board, row, stat, leaver, hero, habit, down>>
    BY <1>25 DEF ReviveFrom
  <2>2. rpc' \in [Workers -> RevivePoints]
    <3>1. rpc' = [rpc EXCEPT ![w] = "home"]
      BY <1>25 DEF ReviveFrom
    <3> QED
      BY <1>rpc, <3>1
  <2>3. route' \in [Carriers -> [from : Sectors \cup {Nobody}, to : Sectors \cup {Nobody}]]
    <3>1. hero[w] \in Players /\ place[hero[w]] \in Sectors
      BY <1>25, <1>b, <1>place DEF ReviveFrom, Carrying
    <3>2. route' = [route EXCEPT ![w].from = place[hero[w]]]
      BY <1>25 DEF ReviveFrom
    <3> QED
      BY <1>route, <3>1, <3>2 DEF Carriers
  <2>4. raced' \in SUBSET Players
    BY <1>25, <1>b, <1>raced DEF ReviveFrom, Carrying
  <2> QED
    BY <1>a, <2>1, <2>2, <2>3, <2>4
<1>26. ASSUME NEW w \in Workers, ReviveHome(w) PROVE Types'
  <2>1. UNCHANGED <<connected, listed, sessionCount, accepting, logins, progress, home, table, board, row, stat, leaver, hero, route, habit, raced, down>>
    BY <1>26 DEF ReviveHome
  <2>2. rpc' \in [Workers -> RevivePoints]
    <3>1. rpc' = [rpc EXCEPT ![w] = "to"]
      BY <1>26 DEF ReviveHome
    <3> QED
      BY <1>rpc, <3>1
  <2>3. place' \in [Players -> Sectors]
    <3>1. place' = [place EXCEPT ![hero[w]] = home[hero[w]]] /\ hero[w] \in Players
      BY <1>26, <1>b DEF ReviveHome, Carrying
    <3> QED
      BY <1>place, <1>home, <3>1
  <2> QED
    BY <1>a, <2>1, <2>2, <2>3
<1>27. ASSUME NEW w \in Workers, ReviveTo(w) PROVE Types'
  <2>1. UNCHANGED <<connected, listed, sessionCount, accepting, logins, progress, place, home, table, board, row, stat, leaver, habit, raced, down>>
    BY <1>27 DEF ReviveTo, EndRevival
  <2>2. rpc' \in [Workers -> RevivePoints]
    <3>1. rpc' = [rpc EXCEPT ![w] = "idle"] \/ rpc' = [rpc EXCEPT ![w] = "unlist"]
      BY <1>27 DEF ReviveTo
    <3> QED
      BY <1>rpc, <3>1
  <2>3. hero' \in [Workers -> Players \cup {Nobody}]
    <3>1. hero' = hero \/ hero' = [hero EXCEPT ![w] = Nobody]
      BY <1>27 DEF ReviveTo, EndRevival
    <3> QED
      BY <1>hero, <3>1
  <2>4. route' \in [Carriers -> [from : Sectors \cup {Nobody}, to : Sectors \cup {Nobody}]]
    <3>1. hero[w] \in Players /\ place[hero[w]] \in Sectors
      BY <1>27, <1>b, <1>place DEF ReviveTo, Carrying
    <3>2. route' = [route EXCEPT ![w] = Nowhere] \/ route' = [route EXCEPT ![w].to = place[hero[w]]]
      BY <1>27 DEF ReviveTo, EndRevival
    <3> QED
      BY <1>route, <1>ends, <3>1, <3>2 DEF Carriers
  <2> QED
    BY <1>a, <2>1, <2>2, <2>3, <2>4
<1>28. ASSUME NEW w \in Workers, ReviveUnlists(w) PROVE Types'
  <2>1. UNCHANGED <<connected, listed, sessionCount, accepting, logins, progress, place, home, table, row, stat, leaver, hero, route, habit, raced, down>>
    BY <1>28 DEF ReviveUnlists, Remove
  <2>2. rpc' \in [Workers -> RevivePoints]
    <3>1. rpc' = [rpc EXCEPT ![w] = "list"]
      BY <1>28 DEF ReviveUnlists
    <3> QED
      BY <1>rpc, <3>1
  <2>3. board' \in SUBSET (Ids \X Sectors)
    BY <1>28, <1>board DEF ReviveUnlists, Remove
  <2> QED
    BY <1>a, <2>1, <2>2, <2>3
<1>29. ASSUME NEW w \in Workers, ReviveLists(w) PROVE Types'
  <2>1. UNCHANGED <<connected, listed, sessionCount, accepting, logins, progress, place, home, table, row, stat, leaver, habit, raced, down>>
    BY <1>29 DEF ReviveLists, EndRevival, Add
  <2>2. rpc' \in [Workers -> RevivePoints]
    <3>1. rpc' = [rpc EXCEPT ![w] = "idle"]
      BY <1>29 DEF ReviveLists
    <3> QED
      BY <1>rpc, <3>1
  <2>3. board' \in SUBSET (Ids \X Sectors)
    <3>1. IdOf(hero[w]) \in Ids /\ route[w].to \in Sectors
      BY <1>29, <1>b DEF ReviveLists, Carrying
    <3>2. board' = board \cup {<<IdOf(hero[w]), route[w].to>>}
      BY <1>29 DEF ReviveLists, Add
    <3> QED
      BY <1>board, <3>1, <3>2
  <2>4. hero' \in [Workers -> Players \cup {Nobody}]
    <3>1. hero' = [hero EXCEPT ![w] = Nobody]
      BY <1>29 DEF ReviveLists, EndRevival
    <3> QED
      BY <1>hero, <3>1
  <2>5. route' \in [Carriers -> [from : Sectors \cup {Nobody}, to : Sectors \cup {Nobody}]]
    <3>1. route' = [route EXCEPT ![w] = Nowhere]
      BY <1>29 DEF ReviveLists, EndRevival
    <3> QED
      BY <1>route, <1>ends, <3>1
  <2> QED
    BY <1>a, <2>1, <2>2, <2>3, <2>4, <2>5
<1>30. CASE UNCHANGED vars
  BY <1>30, <1>a DEF vars
<1> HIDE DEF Types, At, Carry, InTable
<1> QED
  BY <1>1, <1>2, <1>3, <1>4, <1>5, <1>6, <1>7, <1>8, <1>9, <1>10,
     <1>11, <1>12, <1>13, <1>14, <1>15, <1>16, <1>17, <1>18, <1>19, <1>20,
     <1>21, <1>22, <1>23, <1>24, <1>25, <1>26, <1>27, <1>28, <1>29, <1>30
  DEF Next, LoginStep, MoveStep, DisconnectStep, ReviveStep

LEMMA InStepStep == TypeOK /\ [Next]_vars => \A s \in Sessions : InStep(s)'
<1> SUFFICES ASSUME TypeOK, [Next]_vars, Types', NEW t \in Sessions PROVE InStep(t)'
  BY TypesStep
<1>a. /\ Threads = {"recv", "send"} /\ pc \in [Sessions -> [Threads -> Points]]
      /\ logins \in [Sessions -> Nat] /\ Len(Wants[t]) \in Nat
      /\ leaver \in [Sessions -> [Threads -> Ids \cup {Nobody}]]
      /\ place \in [Players -> Sectors] /\ Sessions \intersect Workers = {}
      /\ route \in [Sessions \cup Workers -> [from : Sectors \cup {Nobody}, to : Sectors \cup {Nobody}]]
  BY WantsAssumption, CarriersAssumption DEF TypeOK, Types, Threads, Carriers
<1>b. \A s \in Sessions : InStep(s)
  BY DEF TypeOK
<1>c. \A s \in Sessions : HasPlayer(s) => Player(s) \in Players /\ IdOf(Player(s)) \in Ids
  BY Owner DEF TypeOK
<1> USE <1>b DEF InStep, At, Goto, HasPlayer, MovePoints, sessionVars, playerVars, worldVars, saveVars, reviveVars, Carry
<1>1. ASSUME NEW s \in Sessions, Accept(s) PROVE InStep(t)'
  BY <1>1, <1>a DEF Accept
<1>2. ASSUME NEW s \in Sessions, AddSession(s) PROVE InStep(t)'
  BY <1>2, <1>a DEF AddSession
<1>3. ASSUME NEW s \in Sessions, Login(s) PROVE InStep(t)'
  <2>1. CASE Goto(s, "recv", "load")
    <3>1. UNCHANGED <<logins, route, leaver>> /\ (logins[s] < Len(Wants[s]) \/ Goto(s, "recv", "post"))
      BY <1>3 DEF Login
    <3> QED
      BY <1>3, <1>a, <2>1 DEF Login, Handling
  <2>2. CASE Goto(s, "recv", "post")
    BY <1>3, <1>a, <2>2 DEF Login
  <2> QED
    BY <1>3, <2>1, <2>2 DEF Login
<1>4. ASSUME NEW s \in Sessions, GetUserInfo(s) PROVE InStep(t)'
  <2>1. UNCHANGED <<logins, route, leaver>>
    BY <1>4 DEF GetUserInfo
  <2>2. pc[s]["recv"] = "load" /\ (Goto(s, "recv", "check") \/ Goto(s, "recv", "addRow"))
    BY <1>4 DEF GetUserInfo
  <2>3. CASE Goto(s, "recv", "check")
    BY <1>a, <2>1, <2>2, <2>3
  <2>4. CASE Goto(s, "recv", "addRow")
    BY <1>a, <2>1, <2>2, <2>4
  <2> QED
    BY <2>2, <2>3, <2>4
<1>5. ASSUME NEW s \in Sessions, AddUserInfo(s) PROVE InStep(t)'
  <2>1. UNCHANGED <<logins, route, leaver>>
    BY <1>5 DEF AddUserInfo
  <2>2. pc[s]["recv"] = "addRow" /\ (Goto(s, "recv", "enter") \/ UNCHANGED pc)
    BY <1>5 DEF AddUserInfo
  <2>3. CASE Goto(s, "recv", "enter")
    BY <1>a, <2>1, <2>2, <2>3
  <2>4. CASE UNCHANGED pc
    BY <1>a, <2>1, <2>2, <2>4
  <2> QED
    BY <2>2, <2>3, <2>4
<1>6. ASSUME NEW s \in Sessions, CheckInUse(s) PROVE InStep(t)'
  BY <1>6, <1>a DEF CheckInUse
<1>7. ASSUME NEW s \in Sessions, EnterSector(s) PROVE InStep(t)'
  BY <1>7, <1>a DEF EnterSector, Add
<1>8. ASSUME NEW s \in Sessions, SetPlayer(s) PROVE InStep(t)'
  BY <1>8, <1>a DEF SetPlayer
<1>9. ASSUME NEW s \in Sessions, ReenterSector(s) PROVE InStep(t)'
  BY <1>9, <1>a DEF ReenterSector, Add
<1>10. ASSUME NEW s \in Sessions, AddServerObject(s) PROVE InStep(t)'
  BY <1>10, <1>a DEF AddServerObject
<1>11. ASSUME NEW s \in Sessions, Play(s) PROVE InStep(t)'
  BY <1>11, <1>a DEF Play, Handling, HasPlayer
<1>12. ASSUME NEW s \in Sessions, BeginMove(s) PROVE InStep(t)'
  <2>1. HasPlayer(s) /\ Goto(s, "recv", "step") /\ UNCHANGED <<logins, leaver>>
    BY <1>12 DEF BeginMove
  <2>2. PICK sector \in Sectors : route' = [route EXCEPT ![s] = [from |-> place[Player(s)], to |-> sector]]
    BY <1>12 DEF BeginMove
  <2>3. place[Player(s)] \in Sectors
    BY <1>a, <1>c, <2>1
  <2> QED
    BY <1>a, <2>1, <2>2, <2>3
<1>13. ASSUME NEW s \in Sessions, Place(s) PROVE InStep(t)'
  <2>1. pc[s]["recv"] = "step" /\ UNCHANGED <<logins, leaver>>
    BY <1>13 DEF Place
  <2>2. CASE Goto(s, "recv", "post") /\ route' = [route EXCEPT ![s] = Nowhere]
    BY <1>a, <2>1, <2>2
  <2>3. CASE Goto(s, "recv", "unlist") /\ UNCHANGED route
    BY <1>a, <2>1, <2>3
  <2>4. CASE Goto(s, "recv", "list") /\ UNCHANGED route
    BY <1>a, <2>1, <2>4
  <2> QED
    BY <1>13, <2>2, <2>3, <2>4 DEF Place, EndMove
<1>14. ASSUME NEW s \in Sessions, MoveUnlists(s) PROVE InStep(t)'
  BY <1>14, <1>a DEF MoveUnlists, Remove
<1>15. ASSUME NEW s \in Sessions, MoveLists(s) PROVE InStep(t)'
  BY <1>15, <1>a DEF MoveLists, EndMove, Add
<1>16. ASSUME NEW s \in Sessions, PostRecv(s) PROVE InStep(t)'
  BY <1>16, <1>a DEF PostRecv
<1>17. ASSUME NEW s \in Sessions, NEW a \in Threads, Closes(s, a) PROVE InStep(t)'
  <2>1. UNCHANGED <<logins, route>>
    BY <1>17 DEF Closes
  <2>2. CASE HasPlayer(s) /\ leaver' = [leaver EXCEPT ![s][a] = IdOf(Player(s))] /\ Goto(s, a, "save")
    <3>1. IdOf(Player(s)) \in Ids
      BY <1>c, <2>2
    <3> QED
      BY <1>a, <2>1, <2>2, <3>1
  <2>3. CASE Goto(s, a, "close") /\ UNCHANGED leaver
    BY <1>a, <2>1, <2>3
  <2> QED
    BY <1>17, <2>2, <2>3 DEF Closes
<1>18. ASSUME NEW s \in Sessions, NEW a \in Threads, ReadUserInfo(s, a) PROVE InStep(t)'
  <2>1. UNCHANGED <<logins, route, leaver>>
    BY <1>18 DEF ReadUserInfo
  <2>2. pc[s][a] = "save" /\ (Goto(s, a, "store") \/ Goto(s, a, "sector"))
    BY <1>18 DEF ReadUserInfo
  <2>3. CASE Goto(s, a, "store")
    BY <1>a, <2>1, <2>2, <2>3
  <2>4. CASE Goto(s, a, "sector")
    BY <1>a, <2>1, <2>2, <2>4
  <2> QED
    BY <2>2, <2>3, <2>4
<1>19. ASSUME NEW s \in Sessions, NEW a \in Threads, SetUserInfo(s, a) PROVE InStep(t)'
  BY <1>19, <1>a DEF SetUserInfo
<1>20. ASSUME NEW s \in Sessions, NEW a \in Threads, LeaveSector(s, a) PROVE InStep(t)'
  BY <1>20, <1>a DEF LeaveSector, Remove
<1>21. ASSUME NEW s \in Sessions, NEW a \in Threads, RemoveServerObject(s, a) PROVE InStep(t)'
  <2>1. UNCHANGED <<logins, route, leaver>>
    BY <1>21 DEF RemoveServerObject
  <2>2. pc[s][a] = "erase" /\ (Goto(s, a, "close") \/ UNCHANGED pc)
    BY <1>21 DEF RemoveServerObject
  <2> QED
    BY <1>a, <2>1, <2>2
<1>22. ASSUME NEW s \in Sessions, NEW a \in Threads, Disconnect(s, a) PROVE InStep(t)'
  BY <1>22, <1>a DEF Disconnect
<1>23. ASSUME NEW s \in Sessions, NEW a \in Threads, RemoveSession(s, a) PROVE InStep(t)'
  BY <1>23, <1>a DEF RemoveSession
<1>24. ASSUME NEW w \in Workers, ReviveEvent(w) PROVE InStep(t)'
  BY <1>24, <1>a DEF ReviveEvent
<1>25. ASSUME NEW w \in Workers, ReviveFrom(w) PROVE InStep(t)'
  BY <1>25, <1>a DEF ReviveFrom
<1>26. ASSUME NEW w \in Workers, ReviveHome(w) PROVE InStep(t)'
  BY <1>26, <1>a DEF ReviveHome
<1>27. ASSUME NEW w \in Workers, ReviveTo(w) PROVE InStep(t)'
  BY <1>27, <1>a DEF ReviveTo, EndRevival
<1>28. ASSUME NEW w \in Workers, ReviveUnlists(w) PROVE InStep(t)'
  BY <1>28, <1>a DEF ReviveUnlists, Remove
<1>29. ASSUME NEW w \in Workers, ReviveLists(w) PROVE InStep(t)'
  BY <1>29, <1>a DEF ReviveLists, Add, EndRevival
<1>30. CASE UNCHANGED vars
  BY <1>30, <1>a DEF vars
<1> HIDE <1>b DEF InStep, At, Goto, HasPlayer, MovePoints, Carry
<1> QED
  BY <1>1, <1>2, <1>3, <1>4, <1>5, <1>6, <1>7, <1>8, <1>9, <1>10,
     <1>11, <1>12, <1>13, <1>14, <1>15, <1>16, <1>17, <1>18, <1>19, <1>20,
     <1>21, <1>22, <1>23, <1>24, <1>25, <1>26, <1>27, <1>28, <1>29, <1>30
  DEF Next, LoginStep, MoveStep, DisconnectStep, ReviveStep

LEMMA CarryingStep == TypeOK /\ [Next]_vars => \A w \in Workers : Carrying(w)'
<1> SUFFICES ASSUME TypeOK, [Next]_vars, NEW v \in Workers PROVE Carrying(v)'
  OBVIOUS
<1>a. /\ Carrying(v)
      /\ rpc \in [Workers -> RevivePoints] /\ hero \in [Workers -> Players \cup {Nobody}]
      /\ place \in [Players -> Sectors] /\ Sessions \intersect Workers = {}
      /\ route \in [Sessions \cup Workers -> [from : Sectors \cup {Nobody}, to : Sectors \cup {Nobody}]]
  BY CarriersAssumption DEF TypeOK, Types, Carriers
<1> USE DEF Carrying, sessionVars, playerVars, worldVars, saveVars, reviveVars, Carry
<1>1. ASSUME NEW s \in Sessions, Accept(s) PROVE Carrying(v)'
  BY <1>1, <1>a DEF Accept
<1>2. ASSUME NEW s \in Sessions, AddSession(s) PROVE Carrying(v)'
  BY <1>2, <1>a DEF AddSession
<1>3. ASSUME NEW s \in Sessions, Login(s) PROVE Carrying(v)'
  BY <1>3, <1>a DEF Login, Handling
<1>4. ASSUME NEW s \in Sessions, GetUserInfo(s) PROVE Carrying(v)'
  BY <1>4, <1>a DEF GetUserInfo
<1>5. ASSUME NEW s \in Sessions, AddUserInfo(s) PROVE Carrying(v)'
  BY <1>5, <1>a DEF AddUserInfo
<1>6. ASSUME NEW s \in Sessions, CheckInUse(s) PROVE Carrying(v)'
  BY <1>6, <1>a DEF CheckInUse
<1>7. ASSUME NEW s \in Sessions, EnterSector(s) PROVE Carrying(v)'
  BY <1>7, <1>a DEF EnterSector, Add
<1>8. ASSUME NEW s \in Sessions, SetPlayer(s) PROVE Carrying(v)'
  BY <1>8, <1>a DEF SetPlayer
<1>9. ASSUME NEW s \in Sessions, ReenterSector(s) PROVE Carrying(v)'
  BY <1>9, <1>a DEF ReenterSector, Add
<1>10. ASSUME NEW s \in Sessions, AddServerObject(s) PROVE Carrying(v)'
  BY <1>10, <1>a DEF AddServerObject
<1>11. ASSUME NEW s \in Sessions, Play(s) PROVE Carrying(v)'
  BY <1>11, <1>a DEF Play, Handling
<1>12. ASSUME NEW s \in Sessions, BeginMove(s) PROVE Carrying(v)'
  BY <1>12, <1>a DEF BeginMove, Handling
<1>13. ASSUME NEW s \in Sessions, Place(s) PROVE Carrying(v)'
  BY <1>13, <1>a DEF Place, EndMove
<1>14. ASSUME NEW s \in Sessions, MoveUnlists(s) PROVE Carrying(v)'
  BY <1>14, <1>a DEF MoveUnlists, Remove
<1>15. ASSUME NEW s \in Sessions, MoveLists(s) PROVE Carrying(v)'
  BY <1>15, <1>a DEF MoveLists, EndMove, Add
<1>16. ASSUME NEW s \in Sessions, PostRecv(s) PROVE Carrying(v)'
  BY <1>16, <1>a DEF PostRecv
<1>17. ASSUME NEW s \in Sessions, NEW a \in Threads, Closes(s, a) PROVE Carrying(v)'
  BY <1>17, <1>a DEF Closes
<1>18. ASSUME NEW s \in Sessions, NEW a \in Threads, ReadUserInfo(s, a) PROVE Carrying(v)'
  BY <1>18, <1>a DEF ReadUserInfo
<1>19. ASSUME NEW s \in Sessions, NEW a \in Threads, SetUserInfo(s, a) PROVE Carrying(v)'
  BY <1>19, <1>a DEF SetUserInfo
<1>20. ASSUME NEW s \in Sessions, NEW a \in Threads, LeaveSector(s, a) PROVE Carrying(v)'
  BY <1>20, <1>a DEF LeaveSector, Remove
<1>21. ASSUME NEW s \in Sessions, NEW a \in Threads, RemoveServerObject(s, a) PROVE Carrying(v)'
  BY <1>21, <1>a DEF RemoveServerObject
<1>22. ASSUME NEW s \in Sessions, NEW a \in Threads, Disconnect(s, a) PROVE Carrying(v)'
  BY <1>22, <1>a DEF Disconnect
<1>23. ASSUME NEW s \in Sessions, NEW a \in Threads, RemoveSession(s, a) PROVE Carrying(v)'
  BY <1>23, <1>a DEF RemoveSession
<1>24. ASSUME NEW w \in Workers, ReviveEvent(w) PROVE Carrying(v)'
  <2>1. PICK id \in Ids : InTable(id) /\ hero' = [hero EXCEPT ![w] = table[id]]
    BY <1>24 DEF ReviveEvent
  <2>2. rpc[w] = "idle" /\ rpc' = [rpc EXCEPT ![w] = "from"] /\ UNCHANGED route
    BY <1>24 DEF ReviveEvent
  <2> QED
    BY <1>a, <2>1, <2>2 DEF InTable
<1>25. ASSUME NEW w \in Workers, ReviveFrom(w) PROVE Carrying(v)'
  BY <1>25, <1>a DEF ReviveFrom
<1>26. ASSUME NEW w \in Workers, ReviveHome(w) PROVE Carrying(v)'
  BY <1>26, <1>a DEF ReviveHome
<1>27. ASSUME NEW w \in Workers, ReviveTo(w) PROVE Carrying(v)'
  BY <1>27, <1>a DEF ReviveTo, EndRevival
<1>28. ASSUME NEW w \in Workers, ReviveUnlists(w) PROVE Carrying(v)'
  BY <1>28, <1>a DEF ReviveUnlists, Remove
<1>29. ASSUME NEW w \in Workers, ReviveLists(w) PROVE Carrying(v)'
  BY <1>29, <1>a DEF ReviveLists, Add, EndRevival
<1>30. CASE UNCHANGED vars
  BY <1>30, <1>a DEF vars
<1> HIDE DEF Carrying, Carry
<1> QED
  BY <1>1, <1>2, <1>3, <1>4, <1>5, <1>6, <1>7, <1>8, <1>9, <1>10,
     <1>11, <1>12, <1>13, <1>14, <1>15, <1>16, <1>17, <1>18, <1>19, <1>20,
     <1>21, <1>22, <1>23, <1>24, <1>25, <1>26, <1>27, <1>28, <1>29, <1>30
  DEF Next, LoginStep, MoveStep, DisconnectStep, ReviveStep

LEMMA TypingStep == TypeOK /\ [Next]_vars => TypeOK'
BY TypesStep, InStepStep, CarryingStep DEF TypeOK

\* The variables of sessions, table, sectors, database and workers keep their
\* types, and a thread in the middle of a login, a move, a disconnection or a
\* revival has what it works on.
THEOREM Typing == Spec => []TypeOK
<1> QED BY TypingInit, TypingStep, PTL DEF Spec

(***************************************************************************)
(* Sessions and the object table.                                          *)
(***************************************************************************)

\* The disconnection of s is that of a player of s.
Departing(s) ==
    \A a \in Threads : pc[s][a] \in {"save", "store", "sector", "erase"} =>
        /\ \E k \in 1..logins[s] : leaver[s][a] = IdOf(<<s, k>>)
        /\ a = "recv" => leaver[s][a] = IdOf(Player(s))

\* Whom only the receive path can close is connected until it does.
StillOpen(s) ==
    OnlyReceives(s) /\ pc[s]["recv"] \notin {"off", "remove", "over"} => connected[s]

\* The players s has had are known by their ids, but the one it is adding.
Keyed(s) ==
    \A k \in 1..logins[s] :
        k < logins[s] \/ pc[s]["recv"] \notin {"reenter", "insert"} => table[IdOf(<<s, k>>)] # Absent

\* What is in the table is its session's, which has not taken it out.
Listed(id) ==
    InTable(id) =>
        LET p == table[id] IN
        /\ IdOf(p) = id /\ p[2] <= logins[p[1]]
        /\ OnlyReceives(p[1]) /\ p[2] = logins[p[1]] =>
             pc[p[1]]["recv"] \notin {"off", "close", "remove", "over"}

Settled ==
    /\ \A s \in Sessions : Departing(s) /\ StillOpen(s) /\ Keyed(s)
    /\ \A id \in Ids : Listed(id)

\* What most steps do to sessions and table: a thread goes on, and that is all.
Inward ==
    /\ UNCHANGED <<connected, logins, table, leaver>>
    /\ \A s \in Sessions, a \in Threads : pc'[s][a] # pc[s][a] =>
         /\ {pc[s][a], pc'[s][a]} \intersect {"off", "reenter", "insert", "close", "remove", "over"} = {}
         /\ pc'[s][a] \in {"save", "store", "sector", "erase"} => pc[s][a] \in {"save", "store", "sector", "erase"}

LEMMA Inwardly ==
    TypeOK /\ [Next]_vars =>
        \/ Inward
        \/ \E s \in Sessions :
             \/ Accept(s) \/ SetPlayer(s) \/ ReenterSector(s) \/ AddServerObject(s) \/ PostRecv(s)
             \/ \E a \in Threads :
                  Closes(s, a) \/ RemoveServerObject(s, a) \/ Disconnect(s, a) \/ RemoveSession(s, a)
<1> SUFFICES ASSUME TypeOK, [Next]_vars PROVE
        \/ Inward
        \/ \E s \in Sessions :
             \/ Accept(s) \/ SetPlayer(s) \/ ReenterSector(s) \/ AddServerObject(s) \/ PostRecv(s)
             \/ \E a \in Threads :
                  Closes(s, a) \/ RemoveServerObject(s, a) \/ Disconnect(s, a) \/ RemoveSession(s, a)
  OBVIOUS
<1>a. Threads = {"recv", "send"} /\ pc \in [Sessions -> [Threads -> Points]]
  BY DEF TypeOK, Types, Threads
<1> USE DEF Inward, At, Goto, sessionVars, playerVars, worldVars, saveVars, reviveVars
<1>1. ASSUME NEW s \in Sessions, AddSession(s) PROVE Inward
  BY <1>1, <1>a DEF AddSession
<1>2. ASSUME NEW s \in Sessions, Login(s) PROVE Inward
  <2>1. UNCHANGED <<connected, logins, table, leaver>>
    BY <1>2 DEF Login
  <2>2. pc[s]["recv"] \in {"recv", "post"} /\ (Goto(s, "recv", "load") \/ Goto(s, "recv", "post"))
    BY <1>2 DEF Login, Handling
  <2> QED
    BY <1>a, <2>1, <2>2
<1>3. ASSUME NEW s \in Sessions, GetUserInfo(s) PROVE Inward
  <2>1. UNCHANGED <<connected, logins, table, leaver>>
    BY <1>3 DEF GetUserInfo
  <2>2. pc[s]["recv"] = "load" /\ (Goto(s, "recv", "check") \/ Goto(s, "recv", "addRow"))
    BY <1>3 DEF GetUserInfo
  <2> QED
    BY <1>a, <2>1, <2>2
<1>4. ASSUME NEW s \in Sessions, AddUserInfo(s) PROVE Inward
  <2>1. UNCHANGED <<connected, logins, table, leaver>>
    BY <1>4 DEF AddUserInfo
  <2>2. pc[s]["recv"] = "addRow" /\ (Goto(s, "recv", "enter") \/ UNCHANGED pc)
    BY <1>4 DEF AddUserInfo
  <2> QED
    BY <1>a, <2>1, <2>2
<1>5. ASSUME NEW s \in Sessions, CheckInUse(s) PROVE Inward
  <2>1. UNCHANGED <<connected, logins, table, leaver>>
    BY <1>5 DEF CheckInUse
  <2>2. pc[s]["recv"] = "check" /\ (Goto(s, "recv", "post") \/ Goto(s, "recv", "enter"))
    BY <1>5 DEF CheckInUse
  <2> QED
    BY <1>a, <2>1, <2>2
<1>6. ASSUME NEW s \in Sessions, EnterSector(s) PROVE Inward
  BY <1>6, <1>a DEF EnterSector, Add
<1>7. ASSUME NEW s \in Sessions, Play(s) PROVE Inward
  BY <1>7, <1>a DEF Play, Handling
<1>8. ASSUME NEW s \in Sessions, BeginMove(s) PROVE Inward
  BY <1>8, <1>a DEF BeginMove, Handling
<1>9. ASSUME NEW s \in Sessions, Place(s) PROVE Inward
  <2>1. UNCHANGED <<connected, logins, table, leaver>>
    BY <1>9 DEF Place
  <2>2. pc[s]["recv"] = "step" /\ (Goto(s, "recv", "post") \/ Goto(s, "recv", "list") \/ Goto(s, "recv", "unlist"))
    BY <1>9 DEF Place, EndMove
  <2> QED
    BY <1>a, <2>1, <2>2
<1>10. ASSUME NEW s \in Sessions, MoveUnlists(s) PROVE Inward
  BY <1>10, <1>a DEF MoveUnlists, Remove
<1>11. ASSUME NEW s \in Sessions, MoveLists(s) PROVE Inward
  BY <1>11, <1>a DEF MoveLists, Add, EndMove
<1>12. ASSUME NEW s \in Sessions, NEW a \in Threads, ReadUserInfo(s, a) PROVE Inward
  <2>1. UNCHANGED <<connected, logins, table, leaver>>
    BY <1>12 DEF ReadUserInfo
  <2>2. pc[s][a] = "save" /\ (Goto(s, a, "store") \/ Goto(s, a, "sector"))
    BY <1>12 DEF ReadUserInfo
  <2> QED
    BY <1>a, <2>1, <2>2
<1>13. ASSUME NEW s \in Sessions, NEW a \in Threads, SetUserInfo(s, a) PROVE Inward
  <2>1. UNCHANGED <<connected, logins, table, leaver>>
    BY <1>13 DEF SetUserInfo
  <2>2. pc[s][a] = "store" /\ (Goto(s, a, "sector"))
    BY <1>13 DEF SetUserInfo
  <2> QED
    BY <1>a, <2>1, <2>2
<1>14. ASSUME NEW s \in Sessions, NEW a \in Threads, LeaveSector(s, a) PROVE Inward
  BY <1>14, <1>a DEF LeaveSector, Remove
<1>15. ASSUME NEW w \in Workers, ReviveEvent(w) PROVE Inward
  BY <1>15, <1>a DEF ReviveEvent
<1>16. ASSUME NEW w \in Workers, ReviveFrom(w) PROVE Inward
  BY <1>16, <1>a DEF ReviveFrom
<1>17. ASSUME NEW w \in Workers, ReviveHome(w) PROVE Inward
  BY <1>17, <1>a DEF ReviveHome
<1>18. ASSUME NEW w \in Workers, ReviveTo(w) PROVE Inward
  BY <1>18, <1>a DEF ReviveTo, EndRevival
<1>19. ASSUME NEW w \in Workers, ReviveUnlists(w) PROVE Inward
  BY <1>19, <1>a DEF ReviveUnlists, Remove
<1>20. ASSUME NEW w \in Workers, ReviveLists(w) PROVE Inward
  BY <1>20, <1>a DEF ReviveLists, Add, EndRevival
<1>21. CASE UNCHANGED vars
  BY <1>21, <1>a DEF vars
<1> HIDE DEF Inward, At, Goto
<1> QED
  BY <1>1, <1>2, <1>3, <1>4, <1>5, <1>6, <1>7, <1>8, <1>9, <1>10,
     <1>11, <1>12, <1>13, <1>14, <1>15, <1>16, <1>17, <1>18, <1>19, <1>20,
     <1>21
  DEF Next, LoginStep, MoveStep, DisconnectStep, ReviveStep

LEMMA SettledInit == Init => Settled
<1> SUFFICES ASSUME Init PROVE Settled
  OBVIOUS
<1>1. ASSUME NEW s \in Sessions PROVE Departing(s) /\ StillOpen(s) /\ Keyed(s)
  BY DEF Init, Departing, StillOpen, Keyed, Threads
<1>2. ASSUME NEW id \in Ids PROVE Listed(id)
  BY NamesAssumption DEF Init, Listed, InTable
<1> QED
  BY <1>1, <1>2 DEF Settled

LEMMA StillOpenStep ==
    ASSUME TypeOK, TypeOK', Settled, [Next]_vars, NEW t \in Sessions
    PROVE  StillOpen(t)'
<1>a. /\ Threads = {"recv", "send"} /\ pc \in [Sessions -> [Threads -> Points]]
      /\ connected \in [Sessions -> BOOLEAN] /\ logins \in [Sessions -> Nat]
      /\ StillOpen(t)
  BY DEF TypeOK, Types, Threads, Settled
<1> USE DEF StillOpen, OnlyReceives, At, Goto, sessionVars, Inward
<1>1. CASE Inward
  BY <1>1, <1>a
<1>2. ASSUME NEW s \in Sessions, Accept(s) PROVE StillOpen(t)'
  BY <1>2, <1>a DEF Accept
<1>3. ASSUME NEW s \in Sessions, SetPlayer(s) PROVE StillOpen(t)'
  BY <1>3, <1>a DEF SetPlayer
<1>4. ASSUME NEW s \in Sessions, ReenterSector(s) PROVE StillOpen(t)'
  BY <1>4, <1>a DEF ReenterSector
<1>5. ASSUME NEW s \in Sessions, AddServerObject(s) PROVE StillOpen(t)'
  BY <1>5, <1>a DEF AddServerObject
<1>6. ASSUME NEW s \in Sessions, PostRecv(s) PROVE StillOpen(t)'
  BY <1>6, <1>a DEF PostRecv
<1>7. ASSUME NEW s \in Sessions, NEW a \in Threads, Closes(s, a) PROVE StillOpen(t)'
  BY <1>7, <1>a DEF Closes
<1>8. ASSUME NEW s \in Sessions, NEW a \in Threads, RemoveServerObject(s, a) PROVE StillOpen(t)'
  BY <1>8, <1>a DEF RemoveServerObject
<1>9. ASSUME NEW s \in Sessions, NEW a \in Threads, Disconnect(s, a) PROVE StillOpen(t)'
  BY <1>9, <1>a DEF Disconnect
<1>10. ASSUME NEW s \in Sessions, NEW a \in Threads, RemoveSession(s, a) PROVE StillOpen(t)'
  BY <1>10, <1>a DEF RemoveSession
<1> HIDE DEF StillOpen, OnlyReceives, At, Goto, sessionVars, Inward
<1> QED
  BY <1>1, <1>2, <1>3, <1>4, <1>5, <1>6, <1>7, <1>8, <1>9, <1>10, Inwardly

LEMMA DepartingStep ==
    ASSUME TypeOK, TypeOK', Settled, [Next]_vars, NEW t \in Sessions
    PROVE  Departing(t)'
<1>a. /\ Threads = {"recv", "send"} /\ pc \in [Sessions -> [Threads -> Points]]
      /\ connected \in [Sessions -> BOOLEAN] /\ logins \in [Sessions -> Nat]
      /\ leaver \in [Sessions -> [Threads -> Ids \cup {Nobody}]]
      /\ Departing(t)
  BY DEF TypeOK, Types, Threads, Settled
<1> USE DEF Departing, At, Goto, Player, sessionVars, playerVars, worldVars, saveVars, Inward
<1>1. CASE Inward
  BY <1>1, <1>a
<1>2. ASSUME NEW s \in Sessions, Accept(s) PROVE Departing(t)'
  BY <1>2, <1>a DEF Accept
<1>3. ASSUME NEW s \in Sessions, SetPlayer(s) PROVE Departing(t)'
  <2>1. /\ pc[s]["recv"] = "own" /\ pc' = [pc EXCEPT ![s]["recv"] = "reenter"]
        /\ logins' = [logins EXCEPT ![s] = logins[s] + 1] /\ leaver' = leaver
    BY <1>3 DEF SetPlayer
  <2>2. ASSUME NEW a \in Threads, pc'[t][a] \in {"save", "store", "sector", "erase"}
        PROVE  /\ \E k \in 1..logins'[t] : leaver'[t][a] = IdOf(<<t, k>>)
               /\ a = "recv" => leaver'[t][a] = IdOf(<<t, logins'[t]>>)
    <3>1. pc[t][a] \in {"save", "store", "sector", "erase"} /\ (a = "recv" => t # s)
      BY <1>a, <2>1, <2>2
    <3>2. PICK k \in 1..logins[t] : leaver[t][a] = IdOf(<<t, k>>)
      BY <1>a, <3>1
    <3>3. k \in 1..logins'[t]
      BY <1>a, <2>1
    <3>4. a = "recv" => logins'[t] = logins[t] /\ leaver[t][a] = IdOf(<<t, logins[t]>>)
      BY <1>a, <2>1, <3>1
    <3> QED
      BY <2>1, <3>2, <3>3, <3>4
  <2> QED
    BY <2>2
<1>4. ASSUME NEW s \in Sessions, ReenterSector(s) PROVE Departing(t)'
  BY <1>4, <1>a DEF ReenterSector
<1>5. ASSUME NEW s \in Sessions, AddServerObject(s) PROVE Departing(t)'
  BY <1>5, <1>a DEF AddServerObject
<1>6. ASSUME NEW s \in Sessions, PostRecv(s) PROVE Departing(t)'
  BY <1>6, <1>a DEF PostRecv
<1>7. ASSUME NEW s \in Sessions, NEW a \in Threads, Closes(s, a) PROVE Departing(t)'
  <2>1. UNCHANGED logins
    BY <1>7 DEF Closes
  <2>2. CASE HasPlayer(s) /\ leaver' = [leaver EXCEPT ![s][a] = IdOf(Player(s))] /\ Goto(s, a, "save")
    <3>1. logins[s] \in 1..logins[s]
      BY <1>a, <2>2 DEF HasPlayer
    <3> QED
      BY <1>a, <2>1, <2>2, <3>1
  <2>3. CASE Goto(s, a, "close") /\ UNCHANGED leaver
    BY <1>a, <2>1, <2>3
  <2> QED
    BY <1>7, <2>2, <2>3 DEF Closes
<1>8. ASSUME NEW s \in Sessions, NEW a \in Threads, RemoveServerObject(s, a) PROVE Departing(t)'
  <2>1. UNCHANGED <<logins, leaver>> /\ (Goto(s, a, "close") \/ UNCHANGED pc)
    BY <1>8 DEF RemoveServerObject
  <2>2. CASE Goto(s, a, "close")
    BY <1>a, <2>1, <2>2
  <2>3. CASE UNCHANGED pc
    BY <1>a, <2>1, <2>3
  <2> QED
    BY <2>1, <2>2, <2>3
<1>9. ASSUME NEW s \in Sessions, NEW a \in Threads, Disconnect(s, a) PROVE Departing(t)'
  BY <1>9, <1>a DEF Disconnect
<1>10. ASSUME NEW s \in Sessions, NEW a \in Threads, RemoveSession(s, a) PROVE Departing(t)'
  BY <1>10, <1>a DEF RemoveSession
<1> HIDE DEF Departing, At, Goto, Player, sessionVars, playerVars, worldVars, saveVars, Inward
<1> QED
  BY <1>1, <1>2, <1>3, <1>4, <1>5, <1>6, <1>7, <1>8, <1>9, <1>10, Inwardly

LEMMA KeyedStep ==
    ASSUME TypeOK, TypeOK', Settled, [Next]_vars, NEW t \in Sessions
    PROVE  Keyed(t)'
<1>a. /\ Threads = {"recv", "send"} /\ pc \in [Sessions -> [Threads -> Points]]
      /\ connected \in [Sessions -> BOOLEAN] /\ logins \in [Sessions -> Nat]
      /\ table \in [Ids -> Players \cup {Absent, Gone}]
      /\ Keyed(t) /\ Absent \notin Players /\ Absent # Gone
      /\ \A s \in Sessions, k \in Nat \ {0} : k <= logins[s] => <<s, k>> \in Players /\ IdOf(<<s, k>>) \in Ids
  <2>1. ASSUME NEW s \in Sessions, NEW k \in Nat \ {0}, k <= logins[s]
        PROVE  <<s, k>> \in Players /\ IdOf(<<s, k>>) \in Ids
    <3>1. k <= Len(Wants[s])
      BY <2>1, WantsAssumption DEF TypeOK, Types, InStep
    <3> QED
      BY <3>1, Objects
  <2> QED
    BY <2>1, NamesAssumption DEF TypeOK, Types, Threads, Settled
<1> USE DEF Keyed, At, Goto, Player, sessionVars, playerVars, worldVars, saveVars, Inward
<1>1. CASE Inward
  BY <1>1, <1>a
<1>2. ASSUME NEW s \in Sessions, Accept(s) PROVE Keyed(t)'
  BY <1>2, <1>a DEF Accept
<1>3. ASSUME NEW s \in Sessions, SetPlayer(s) PROVE Keyed(t)'
  BY <1>3, <1>a DEF SetPlayer
<1>4. ASSUME NEW s \in Sessions, ReenterSector(s) PROVE Keyed(t)'
  BY <1>4, <1>a DEF ReenterSector
<1>5. ASSUME NEW s \in Sessions, AddServerObject(s) PROVE Keyed(t)'
  BY <1>5, <1>a DEF AddServerObject
<1>6. ASSUME NEW s \in Sessions, PostRecv(s) PROVE Keyed(t)'
  BY <1>6, <1>a DEF PostRecv
<1>7. ASSUME NEW s \in Sessions, NEW a \in Threads, Closes(s, a) PROVE Keyed(t)'
  BY <1>7, <1>a DEF Closes
<1>8. ASSUME NEW s \in Sessions, NEW a \in Threads, RemoveServerObject(s, a) PROVE Keyed(t)'
  <2>1. UNCHANGED logins
    BY <1>8 DEF RemoveServerObject
  <2>2. CASE UNCHANGED <<table, pc>>
    BY <1>a, <2>1, <2>2
  <2>3. CASE pc[s][a] = "erase" /\ table' = [table EXCEPT ![leaver[s][a]] = Gone] /\ Goto(s, a, "close")
    BY <1>a, <2>1, <2>3
  <2> QED
    BY <1>8, <2>2, <2>3 DEF RemoveServerObject
<1>9. ASSUME NEW s \in Sessions, NEW a \in Threads, Disconnect(s, a) PROVE Keyed(t)'
  BY <1>9, <1>a DEF Disconnect
<1>10. ASSUME NEW s \in Sessions, NEW a \in Threads, RemoveSession(s, a) PROVE Keyed(t)'
  BY <1>10, <1>a DEF RemoveSession
<1> HIDE DEF Keyed, At, Goto, Player, sessionVars, playerVars, worldVars, saveVars, Inward
<1> QED
  BY <1>1, <1>2, <1>3, <1>4, <1>5, <1>6, <1>7, <1>8, <1>9, <1>10, Inwardly

LEMMA ListedStep ==
    ASSUME TypeOK, TypeOK', Settled, [Next]_vars, NEW id \in Ids
    PROVE  Listed(id)'
<1>a. /\ Threads = {"recv", "send"} /\ pc \in [Sessions -> [Threads -> Points]]
      /\ connected \in [Sessions -> BOOLEAN] /\ logins \in [Sessions -> Nat]
      /\ table \in [Ids -> Players \cup {Absent, Gone}]
      /\ Listed(id) /\ Gone \notin Players /\ Absent \notin Players
      /\ \A p \in Players : p[1] \in Sessions /\ p[2] \in Nat \ {0} /\ p = <<p[1], p[2]>>
  BY NamesAssumption, Objects DEF TypeOK, Types, Threads, Settled
<1> USE DEF Listed, InTable, OnlyReceives, At, Goto, Player, sessionVars, playerVars, worldVars, saveVars, Inward
<1>1. CASE Inward
  BY <1>1, <1>a
<1>2. ASSUME NEW s \in Sessions, Accept(s) PROVE Listed(id)'
  BY <1>2, <1>a DEF Accept
<1>3. ASSUME NEW s \in Sessions, SetPlayer(s) PROVE Listed(id)'
  BY <1>3, <1>a DEF SetPlayer
<1>4. ASSUME NEW s \in Sessions, ReenterSector(s) PROVE Listed(id)'
  BY <1>4, <1>a DEF ReenterSector
<1>5. ASSUME NEW s \in Sessions, AddServerObject(s) PROVE Listed(id)'
  BY <1>5, <1>a DEF AddServerObject
<1>6. ASSUME NEW s \in Sessions, PostRecv(s) PROVE Listed(id)'
  <2>1. StillOpen(s)
    BY DEF Settled
  <2> QED
    BY <1>6, <1>a, <2>1 DEF PostRecv, StillOpen
<1>7. ASSUME NEW s \in Sessions, NEW a \in Threads, Closes(s, a) PROVE Listed(id)'
  BY <1>7, <1>a DEF Closes, HasPlayer
<1>8. ASSUME NEW s \in Sessions, NEW a \in Threads, RemoveServerObject(s, a) PROVE Listed(id)'
  <2>1. UNCHANGED logins
    BY <1>8 DEF RemoveServerObject
  <2>2. CASE UNCHANGED <<table, pc>>
    BY <1>a, <2>1, <2>2
  <2>3. CASE pc[s][a] = "erase" /\ table' = [table EXCEPT ![leaver[s][a]] = Gone] /\ Goto(s, a, "close")
    <3>1. a = "recv" => leaver[s][a] = IdOf(Player(s))
      BY <2>3 DEF Settled, Departing
    <3>2. a # "recv" => ~OnlyReceives(s)'
      BY <1>a, <2>3
    <3> QED
      BY <1>a, <2>1, <2>3, <3>1, <3>2
  <2> QED
    BY <1>8, <2>2, <2>3 DEF RemoveServerObject
<1>9. ASSUME NEW s \in Sessions, NEW a \in Threads, Disconnect(s, a) PROVE Listed(id)'
  BY <1>9, <1>a DEF Disconnect
<1>10. ASSUME NEW s \in Sessions, NEW a \in Threads, RemoveSession(s, a) PROVE Listed(id)'
  BY <1>10, <1>a DEF RemoveSession
<1> HIDE DEF Listed, InTable, OnlyReceives, At, Goto, Player, sessionVars, playerVars, worldVars, saveVars, Inward
<1> QED
  BY <1>1, <1>2, <1>3, <1>4, <1>5, <1>6, <1>7, <1>8, <1>9, <1>10, Inwardly

(***************************************************************************)
(* Moves, revivals and the sectors.                                        *)
(***************************************************************************)

\* A step that carries nobody: all that matters here is that the receiving
\* thread leaves the world only if there is nobody it could leave behind.
Away == {"off", "erase", "close", "remove", "over"}

Quiet ==
    /\ UNCHANGED <<logins, place, home, board, rpc, hero, route, raced>>
    /\ \A s \in Sessions : pc[s]["send"] # "off" => pc'[s]["send"] # "off"
    /\ \A s \in Sessions : pc'[s]["recv"] # pc[s]["recv"] =>
         /\ {pc[s]["recv"], pc'[s]["recv"]} \intersect (MovePoints \cup {"own"}) = {}
         /\ pc[s]["recv"] \notin Away /\ pc'[s]["recv"] \in Away => ~OnlyReceives(s) \/ ~HasPlayer(s)

LEMMA Quietly ==
    TypeOK /\ Settled /\ [Next]_vars =>
        \/ Quiet
        \/ \E s \in Sessions :
             \/ EnterSector(s) \/ SetPlayer(s) \/ ReenterSector(s)
             \/ BeginMove(s) \/ Place(s) \/ MoveUnlists(s) \/ MoveLists(s)
             \/ \E a \in Threads : LeaveSector(s, a)
        \/ \E w \in Workers : ReviveEvent(w) \/ ReviveStep(w)
<1> SUFFICES ASSUME TypeOK, Settled, [Next]_vars PROVE
        \/ Quiet
        \/ \E s \in Sessions :
             \/ EnterSector(s) \/ SetPlayer(s) \/ ReenterSector(s)
             \/ BeginMove(s) \/ Place(s) \/ MoveUnlists(s) \/ MoveLists(s)
             \/ \E a \in Threads : LeaveSector(s, a)
        \/ \E w \in Workers : ReviveEvent(w) \/ ReviveStep(w)
  OBVIOUS
<1>a. Threads = {"recv", "send"} /\ pc \in [Sessions -> [Threads -> Points]]
  BY DEF TypeOK, Types, Threads
<1> USE DEF Quiet, Away, MovePoints, OnlyReceives, At, Goto, sessionVars, playerVars, worldVars, saveVars, reviveVars
<1>1. ASSUME NEW s \in Sessions, Accept(s) PROVE Quiet
  BY <1>1, <1>a DEF Accept
<1>2. ASSUME NEW s \in Sessions, AddSession(s) PROVE Quiet
  BY <1>2, <1>a DEF AddSession
<1>3. ASSUME NEW s \in Sessions, Login(s) PROVE Quiet
  <2>1. UNCHANGED <<logins, place, home, board, rpc, hero, route, raced>>
    BY <1>3 DEF Login
  <2>2. pc[s]["recv"] \in {"recv", "post"} /\ (Goto(s, "recv", "load") \/ Goto(s, "recv", "post"))
    BY <1>3 DEF Login, Handling
  <2> QED
    BY <1>a, <2>1, <2>2
<1>4. ASSUME NEW s \in Sessions, GetUserInfo(s) PROVE Quiet
  <2>1. UNCHANGED <<logins, place, home, board, rpc, hero, route, raced>>
    BY <1>4 DEF GetUserInfo
  <2>2. pc[s]["recv"] = "load" /\ (Goto(s, "recv", "check") \/ Goto(s, "recv", "addRow"))
    BY <1>4 DEF GetUserInfo
  <2> QED
    BY <1>a, <2>1, <2>2
<1>5. ASSUME NEW s \in Sessions, AddUserInfo(s) PROVE Quiet
  <2>1. UNCHANGED <<logins, place, home, board, rpc, hero, route, raced>>
    BY <1>5 DEF AddUserInfo
  <2>2. pc[s]["recv"] = "addRow" /\ (Goto(s, "recv", "enter") \/ UNCHANGED pc)
    BY <1>5 DEF AddUserInfo
  <2> QED
    BY <1>a, <2>1, <2>2
<1>6. ASSUME NEW s \in Sessions, CheckInUse(s) PROVE Quiet
  <2>1. UNCHANGED <<logins, place, home, board, rpc, hero, route, raced>>
    BY <1>6 DEF CheckInUse
  <2>2. pc[s]["recv"] = "check" /\ (Goto(s, "recv", "post") \/ Goto(s, "recv", "enter"))
    BY <1>6 DEF CheckInUse
  <2> QED
    BY <1>a, <2>1, <2>2
<1>7. ASSUME NEW s \in Sessions, AddServerObject(s) PROVE Quiet
  BY <1>7, <1>a DEF AddServerObject
<1>8. ASSUME NEW s \in Sessions, Play(s) PROVE Quiet
  BY <1>8, <1>a DEF Play, Handling
<1>9. ASSUME NEW s \in Sessions, PostRecv(s) PROVE Quiet
  <2>1. UNCHANGED <<logins, place, home, board, rpc, hero, route, raced>> /\ pc[s]["recv"] = "post"
    BY <1>9 DEF PostRecv
  <2>2. connected[s] \/ ~OnlyReceives(s)
    BY <1>a, <2>1 DEF Settled, StillOpen
  <2>3. CASE connected[s]
    <3>1. Goto(s, "recv", "recv")
      BY <1>9, <2>3 DEF PostRecv
    <3> QED
      BY <1>a, <2>1, <3>1
  <2>4. CASE ~connected[s]
    <3>1. Goto(s, "recv", "over") /\ ~OnlyReceives(s)
      BY <1>9, <2>2, <2>4 DEF PostRecv
    <3> QED
      BY <1>a, <2>1, <3>1
  <2> QED
    BY <2>3, <2>4
<1>10. ASSUME NEW s \in Sessions, NEW a \in Threads, Closes(s, a) PROVE Quiet
  BY <1>10, <1>a DEF Closes
<1>11. ASSUME NEW s \in Sessions, NEW a \in Threads, ReadUserInfo(s, a) PROVE Quiet
  <2>1. UNCHANGED <<logins, place, home, board, rpc, hero, route, raced>>
    BY <1>11 DEF ReadUserInfo
  <2>2. pc[s][a] = "save" /\ (Goto(s, a, "store") \/ Goto(s, a, "sector"))
    BY <1>11 DEF ReadUserInfo
  <2> QED
    BY <1>a, <2>1, <2>2
<1>12. ASSUME NEW s \in Sessions, NEW a \in Threads, SetUserInfo(s, a) PROVE Quiet
  <2>1. UNCHANGED <<logins, place, home, board, rpc, hero, route, raced>>
    BY <1>12 DEF SetUserInfo
  <2>2. pc[s][a] = "store" /\ (Goto(s, a, "sector"))
    BY <1>12 DEF SetUserInfo
  <2> QED
    BY <1>a, <2>1, <2>2
<1>13. ASSUME NEW s \in Sessions, NEW a \in Threads, RemoveServerObject(s, a) PROVE Quiet
  <2>1. UNCHANGED <<logins, place, home, board, rpc, hero, route, raced>>
    BY <1>13 DEF RemoveServerObject
  <2>2. pc[s][a] = "erase" /\ (Goto(s, a, "close") \/ UNCHANGED pc)
    BY <1>13 DEF RemoveServerObject
  <2> QED
    BY <1>a, <2>1, <2>2
<1>14. ASSUME NEW s \in Sessions, NEW a \in Threads, Disconnect(s, a) PROVE Quiet
  BY <1>14, <1>a DEF Disconnect
<1>15. ASSUME NEW s \in Sessions, NEW a \in Threads, RemoveSession(s, a) PROVE Quiet
  BY <1>15, <1>a DEF RemoveSession
<1>16. CASE UNCHANGED vars
  BY <1>16, <1>a DEF vars
<1> HIDE DEF Quiet, At, Goto, OnlyReceives
<1> QED
  BY <1>1, <1>2, <1>3, <1>4, <1>5, <1>6, <1>7, <1>8, <1>9, <1>10,
     <1>11, <1>12, <1>13, <1>14, <1>15, <1>16
  DEF Next, LoginStep, MoveStep, DisconnectStep

\* Of p nothing is claimed any more.
Exempt(p) == ~OnlyReceives(p[1]) \/ Replaced(p) \/ p \in raced

\* A player is not moved and revived at once, or has raced.
Apart(p) == Moving(p) /\ Reviving(p) => p \in raced

\* A move knows where the player was, and then where it is.
Moves(s) ==
    Player(s) \notin raced =>
        /\ pc[s]["recv"] = "step" => route[s].from = place[Player(s)]
        /\ pc[s]["recv"] \in {"unlist", "list"} => route[s].to = place[Player(s)]

\* So does a revival, and the player it carries is still in the world.
Revives(w) ==
    rpc[w] \in {"home", "to", "unlist", "list"} /\ hero[w] \notin raced =>
        /\ InWorld(hero[w]) \/ Exempt(hero[w])
        /\ rpc[w] = "home" => route[w].from = place[hero[w]] \/ place[hero[w]] = home[hero[w]]
        /\ rpc[w] # "home" => place[hero[w]] = home[hero[w]]
        /\ rpc[w] \in {"unlist", "list"} => route[w].to = place[hero[w]]

Walks ==
    /\ \A p \in Players : Apart(p)
    /\ \A s \in Sessions : Moves(s)
    /\ \A w \in Workers : Revives(w)

LEMMA WalksInit == Init => Walks
<1> SUFFICES ASSUME Init PROVE Walks
  OBVIOUS
<1>1. /\ \A s \in Sessions : pc[s]["recv"] = "off"
      /\ \A w \in Workers : rpc[w] = "idle"
  BY DEF Init, Threads
<1> QED
  BY <1>1 DEF Walks, Apart, Reviving, Moves, Revives

LEMMA ApartStep ==
    ASSUME TypeOK, TypeOK', Settled, Walks, [Next]_vars, NEW p \in Players
    PROVE  Apart(p)'
<1>a. /\ Threads = {"recv", "send"} /\ pc \in [Sessions -> [Threads -> Points]]
      /\ logins \in [Sessions -> Nat]
      /\ place \in [Players -> Sectors] /\ home \in [Players -> Sectors]
      /\ rpc \in [Workers -> RevivePoints] /\ hero \in [Workers -> Players \cup {Nobody}]
      /\ route \in [Sessions \cup Workers -> [from : Sectors \cup {Nobody}, to : Sectors \cup {Nobody}]]
      /\ Sessions \intersect Workers = {}
  BY CarriersAssumption DEF TypeOK, Types, Threads, Carriers
<1>b. /\ \A q \in Players : q[1] \in Sessions /\ q[2] \in Nat \ {0} /\ q = <<q[1], q[2]>>
      /\ Nobody \notin Players
  BY Objects, NamesAssumption
<1>c. \A w \in Workers : Carrying(w)
  BY DEF TypeOK
<1>d. Apart(p)
  BY DEF Walks
<1> USE DEF Apart, Moving, Reviving, At, Goto, Carry, Player, sessionVars, playerVars, worldVars, saveVars, reviveVars, Quiet, MovePoints
<1>1. CASE Quiet
  BY <1>1, <1>a, <1>b, <1>d
<1>2. ASSUME NEW s \in Sessions, EnterSector(s) PROVE Apart(p)'
  BY <1>2, <1>a, <1>b, <1>d DEF EnterSector, Add
<1>3. ASSUME NEW s \in Sessions, SetPlayer(s) PROVE Apart(p)'
  BY <1>3, <1>a, <1>b, <1>d DEF SetPlayer
<1>4. ASSUME NEW s \in Sessions, ReenterSector(s) PROVE Apart(p)'
  BY <1>4, <1>a, <1>b, <1>d DEF ReenterSector, Add
<1>5. ASSUME NEW s \in Sessions, BeginMove(s) PROVE Apart(p)'
  BY <1>5, <1>a, <1>b, <1>d DEF BeginMove, Handling
<1>6. ASSUME NEW s \in Sessions, Place(s) PROVE Apart(p)'
  BY <1>6, <1>a, <1>b, <1>d DEF Place, EndMove
<1>7. ASSUME NEW s \in Sessions, MoveUnlists(s) PROVE Apart(p)'
  BY <1>7, <1>a, <1>b, <1>d DEF MoveUnlists, Remove
<1>8. ASSUME NEW s \in Sessions, MoveLists(s) PROVE Apart(p)'
  BY <1>8, <1>a, <1>b, <1>d DEF MoveLists, EndMove, Add
<1>9. ASSUME NEW s \in Sessions, NEW a \in Threads, LeaveSector(s, a) PROVE Apart(p)'
  BY <1>9, <1>a, <1>b, <1>d DEF LeaveSector, Remove
<1>10. ASSUME NEW w \in Workers, ReviveEvent(w) PROVE Apart(p)'
  BY <1>10, <1>a, <1>b, <1>d DEF ReviveEvent
<1>11. ASSUME NEW w \in Workers, ReviveFrom(w) PROVE Apart(p)'
  BY <1>11, <1>a, <1>b, <1>d DEF ReviveFrom
<1>12. ASSUME NEW w \in Workers, ReviveHome(w) PROVE Apart(p)'
  BY <1>12, <1>a, <1>b, <1>d DEF ReviveHome
<1>13. ASSUME NEW w \in Workers, ReviveTo(w) PROVE Apart(p)'
  BY <1>13, <1>a, <1>b, <1>d DEF ReviveTo, EndRevival
<1>14. ASSUME NEW w \in Workers, ReviveUnlists(w) PROVE Apart(p)'
  BY <1>14, <1>a, <1>b, <1>d DEF ReviveUnlists, Remove
<1>15. ASSUME NEW w \in Workers, ReviveLists(w) PROVE Apart(p)'
  BY <1>15, <1>a, <1>b, <1>d DEF ReviveLists, Add, EndRevival
<1> HIDE DEF Apart, Moving, Reviving, At, Goto, Carry, Player, sessionVars, playerVars, worldVars, saveVars, reviveVars, Quiet, MovePoints
<1> QED
  BY <1>1, <1>2, <1>3, <1>4, <1>5, <1>6, <1>7, <1>8, <1>9, <1>10,
     <1>11, <1>12, <1>13, <1>14, <1>15, Quietly DEF ReviveStep

LEMMA MovesStep ==
    ASSUME TypeOK, TypeOK', Settled, Walks, [Next]_vars, NEW t \in Sessions
    PROVE  Moves(t)'
<1>a. /\ Threads = {"recv", "send"} /\ pc \in [Sessions -> [Threads -> Points]]
      /\ logins \in [Sessions -> Nat]
      /\ place \in [Players -> Sectors] /\ home \in [Players -> Sectors]
      /\ rpc \in [Workers -> RevivePoints] /\ hero \in [Workers -> Players \cup {Nobody}]
      /\ route \in [Sessions \cup Workers -> [from : Sectors \cup {Nobody}, to : Sectors \cup {Nobody}]]
      /\ Sessions \intersect Workers = {}
  BY CarriersAssumption DEF TypeOK, Types, Threads, Carriers
<1>b. /\ \A p \in Players : p[1] \in Sessions /\ p[2] \in Nat \ {0} /\ p = <<p[1], p[2]>>
      /\ Nobody \notin Players
  BY Objects, NamesAssumption
<1>c. \A w \in Workers : Carrying(w)
  BY DEF TypeOK
<1>d. Moves(t)
  BY DEF Walks
<1> USE DEF Moves, At, Goto, Carry, Player, sessionVars, playerVars, worldVars, saveVars, reviveVars, Quiet, MovePoints
<1>1. CASE Quiet
  BY <1>1, <1>a, <1>b, <1>d
<1>2. ASSUME NEW s \in Sessions, EnterSector(s) PROVE Moves(t)'
  BY <1>2, <1>a, <1>b, <1>d DEF EnterSector, Add
<1>3. ASSUME NEW s \in Sessions, SetPlayer(s) PROVE Moves(t)'
  BY <1>3, <1>a, <1>b, <1>d DEF SetPlayer
<1>4. ASSUME NEW s \in Sessions, ReenterSector(s) PROVE Moves(t)'
  BY <1>4, <1>a, <1>b, <1>d DEF ReenterSector, Add
<1>5. ASSUME NEW s \in Sessions, BeginMove(s) PROVE Moves(t)'
  <2>1. PICK sector \in Sectors : route' = [route EXCEPT ![s] = [from |-> place[Player(s)], to |-> sector]]
    BY <1>5 DEF BeginMove
  <2>2. Goto(s, "recv", "step") /\ UNCHANGED <<logins, place>> /\ raced \subseteq raced'
    BY <1>5 DEF BeginMove
  <2>3. CASE t = s
    <3>1. pc'[t]["recv"] = "step" /\ route'[t].from = place[Player(t)]
      BY <1>a, <2>1, <2>2, <2>3
    <3> QED
      BY <2>2, <3>1
  <2>4. CASE t # s
    <3>1. pc'[t]["recv"] = pc[t]["recv"] /\ route'[t] = route[t]
      BY <1>a, <2>1, <2>2, <2>4
    <3> QED
      BY <1>d, <2>2, <3>1
  <2> QED
    BY <2>3, <2>4
<1>6. ASSUME NEW s \in Sessions, Place(s) PROVE Moves(t)'
  <2>1. /\ pc[s]["recv"] = "step" /\ UNCHANGED <<logins, raced>>
        /\ place' = [place EXCEPT ![Player(s)] = route[s].to]
    BY <1>6 DEF Place
  <2>2. \/ Goto(s, "recv", "post") /\ route' = [route EXCEPT ![s] = Nowhere]
        \/ (Goto(s, "recv", "unlist") \/ Goto(s, "recv", "list")) /\ UNCHANGED route
    BY <1>6 DEF Place, EndMove
  <2>3. HasPlayer(s) => Player(s) \in Players
    BY Owner DEF TypeOK
  <2>4. HasPlayer(s)
    BY <2>1 DEF TypeOK, InStep
  <2>5. CASE t = s
    <3>1. place'[Player(t)] = route[t].to
      BY <1>a, <2>1, <2>3, <2>4, <2>5
    <3>2. CASE Goto(s, "recv", "post")
      BY <1>a, <2>5, <3>2
    <3>3. CASE (Goto(s, "recv", "unlist") \/ Goto(s, "recv", "list")) /\ UNCHANGED route
      BY <1>a, <2>1, <2>5, <3>1, <3>3
    <3> QED
      BY <2>2, <3>2, <3>3
  <2>6. CASE t # s
    <3>1. pc'[t]["recv"] = pc[t]["recv"] /\ route'[t] = route[t]
      BY <1>a, <2>2, <2>6
    <3>2. place'[Player(t)] = place[Player(t)]
      BY <2>1, <2>6
    <3> QED
      BY <1>d, <2>1, <3>1, <3>2
  <2> QED
    BY <2>5, <2>6
<1>7. ASSUME NEW s \in Sessions, MoveUnlists(s) PROVE Moves(t)'
  BY <1>7, <1>a, <1>b, <1>d DEF MoveUnlists, Remove
<1>8. ASSUME NEW s \in Sessions, MoveLists(s) PROVE Moves(t)'
  BY <1>8, <1>a, <1>b, <1>d DEF MoveLists, EndMove, Add
<1>9. ASSUME NEW s \in Sessions, NEW a \in Threads, LeaveSector(s, a) PROVE Moves(t)'
  BY <1>9, <1>a, <1>b, <1>d DEF LeaveSector, Remove
<1>10. ASSUME NEW w \in Workers, ReviveEvent(w) PROVE Moves(t)'
  BY <1>10, <1>a, <1>b, <1>d DEF ReviveEvent
<1>11. ASSUME NEW w \in Workers, ReviveFrom(w) PROVE Moves(t)'
  BY <1>11, <1>a, <1>b, <1>d DEF ReviveFrom
<1>12. ASSUME NEW w \in Workers, ReviveHome(w) PROVE Moves(t)'
  <2>1. /\ rpc[w] = "home" /\ place' = [place EXCEPT ![hero[w]] = home[hero[w]]]
        /\ UNCHANGED <<logins, pc, route, raced>>
    BY <1>12 DEF ReviveHome
  <2>2. hero[w] \in Players /\ Apart(hero[w])
    BY <2>1 DEF TypeOK, Carrying, Walks
  <2>3. CASE Player(t) = hero[w] /\ pc[t]["recv"] \in MovePoints
    <3>1. Moving(hero[w])
      BY <2>3 DEF Moving
    <3>2. Reviving(hero[w])
      BY <2>1 DEF Reviving
    <3>3. Player(t) \in raced'
      BY <2>1, <2>2, <2>3, <3>1, <3>2 DEF Apart
    <3> QED
      BY <2>1, <3>3
  <2>4. CASE Player(t) # hero[w]
    <3>1. place'[Player(t)] = place[Player(t)]
      BY <2>1, <2>4
    <3> QED
      BY <1>d, <2>1, <3>1
  <2>5. CASE pc[t]["recv"] \notin MovePoints
    BY <2>1, <2>5
  <2> QED
    BY <2>3, <2>4, <2>5
<1>13. ASSUME NEW w \in Workers, ReviveTo(w) PROVE Moves(t)'
  BY <1>13, <1>a, <1>b, <1>d DEF ReviveTo, EndRevival
<1>14. ASSUME NEW w \in Workers, ReviveUnlists(w) PROVE Moves(t)'
  BY <1>14, <1>a, <1>b, <1>d DEF ReviveUnlists, Remove
<1>15. ASSUME NEW w \in Workers, ReviveLists(w) PROVE Moves(t)'
  BY <1>15, <1>a, <1>b, <1>d DEF ReviveLists, Add, EndRevival
<1> HIDE DEF Moves, At, Goto, Carry, Player, sessionVars, playerVars, worldVars, saveVars, reviveVars, Quiet, MovePoints
<1> QED
  BY <1>1, <1>2, <1>3, <1>4, <1>5, <1>6, <1>7, <1>8, <1>9, <1>10,
     <1>11, <1>12, <1>13, <1>14, <1>15, Quietly DEF ReviveStep

LEMMA RevivesStep ==
    ASSUME TypeOK, TypeOK', Settled, Walks, [Next]_vars, NEW v \in Workers
    PROVE  Revives(v)'
<1>a. /\ Threads = {"recv", "send"} /\ pc \in [Sessions -> [Threads -> Points]]
      /\ logins \in [Sessions -> Nat]
      /\ place \in [Players -> Sectors] /\ home \in [Players -> Sectors]
      /\ rpc \in [Workers -> RevivePoints] /\ hero \in [Workers -> Players \cup {Nobody}]
      /\ route \in [Sessions \cup Workers -> [from : Sectors \cup {Nobody}, to : Sectors \cup {Nobody}]]
      /\ Sessions \intersect Workers = {}
  BY CarriersAssumption DEF TypeOK, Types, Threads, Carriers
<1>b. /\ \A p \in Players : p[1] \in Sessions /\ p[2] \in Nat \ {0} /\ p = <<p[1], p[2]>>
      /\ Nobody \notin Players
  BY Objects, NamesAssumption
<1>c. \A w \in Workers : Carrying(w)
  BY DEF TypeOK
<1>d. Revives(v)
  BY DEF Walks
<1> USE DEF Revives, Exempt, InWorld, OnlyReceives, Replaced, Draft, Away, At, Goto, Carry, Player, sessionVars, playerVars, worldVars, saveVars, reviveVars, Quiet, MovePoints
<1>1. CASE Quiet
  <2>1. UNCHANGED <<logins, place, home, rpc, hero, route, raced>>
    BY <1>1
  <2>2. ASSUME NEW p \in Players, InWorld(p) \/ Exempt(p) PROVE InWorld(p)' \/ Exempt(p)'
    <3>1. CASE Exempt(p)
      BY <1>1, <1>b, <3>1
    <3>2. CASE InWorld(p) /\ pc'[p[1]]["recv"] = pc[p[1]]["recv"]
      BY <2>1, <3>2
    <3>3. CASE InWorld(p) /\ pc'[p[1]]["recv"] # pc[p[1]]["recv"]
      <4>1. p = Player(p[1]) /\ pc[p[1]]["recv"] \notin Away
        BY <1>1, <1>b, <3>3
      <4>2. HasPlayer(p[1])
        BY <1>b, <4>1 DEF HasPlayer
      <4>3. pc'[p[1]]["recv"] \notin Away \/ ~OnlyReceives(p[1])
        BY <1>1, <1>b, <3>3, <4>1, <4>2
      <4>4. CASE pc'[p[1]]["recv"] \notin Away
        BY <2>1, <4>1, <4>4
      <4>5. CASE ~OnlyReceives(p[1])
        BY <1>1, <1>b, <4>5
      <4> QED
        BY <4>3, <4>4, <4>5
    <3> QED
      BY <2>2, <3>1, <3>2, <3>3
  <2> HIDE DEF InWorld, Exempt
  <2> QED
    BY <1>b, <1>c, <1>d, <2>1, <2>2 DEF Carrying
<1>2. ASSUME NEW s \in Sessions, EnterSector(s) PROVE Revives(v)'
  BY <1>2, <1>a, <1>b, <1>c, <1>d DEF EnterSector, Add
<1>3. ASSUME NEW s \in Sessions, SetPlayer(s) PROVE Revives(v)'
  <2>1. /\ pc[s]["recv"] = "own" /\ Goto(s, "recv", "reenter") /\ logins' = [logins EXCEPT ![s] = logins[s] + 1]
        /\ UNCHANGED <<place, home, rpc, hero, route, raced>>
    BY <1>3 DEF SetPlayer
  <2>2. ASSUME NEW p \in Players, InWorld(p) \/ Exempt(p) PROVE InWorld(p)' \/ Exempt(p)'
    BY <1>a, <1>b, <2>1, <2>2
  <2> HIDE DEF InWorld, Exempt
  <2> QED
    BY <1>b, <1>c, <1>d, <2>1, <2>2 DEF Carrying
<1>4. ASSUME NEW s \in Sessions, ReenterSector(s) PROVE Revives(v)'
  BY <1>4, <1>a, <1>b, <1>c, <1>d DEF ReenterSector, Add
<1>5. ASSUME NEW s \in Sessions, BeginMove(s) PROVE Revives(v)'
  BY <1>5, <1>a, <1>b, <1>c, <1>d DEF BeginMove, Handling
<1>6. ASSUME NEW s \in Sessions, Place(s) PROVE Revives(v)'
  <2>1. /\ pc[s]["recv"] = "step" /\ UNCHANGED <<logins, rpc, hero, raced>>
        /\ \A p \in Players : p # Player(s) => place'[p] = place[p] /\ home'[p] = home[p]
    BY <1>6, <1>a DEF Place
  <2>2. /\ route'[v] = route[v]
        /\ Goto(s, "recv", "post") \/ Goto(s, "recv", "unlist") \/ Goto(s, "recv", "list")
    BY <1>6, <1>a DEF Place, EndMove
  <2>3. ASSUME NEW p \in Players, InWorld(p) \/ Exempt(p) PROVE InWorld(p)' \/ Exempt(p)'
    <3>1. \A u \in Sessions :
            /\ pc'[u]["send"] = pc[u]["send"]
            /\ pc'[u]["recv"] = pc[u]["recv"] \/ (pc[u]["recv"] = "step" /\ pc'[u]["recv"] \notin Away)
      <4>1. PICK point \in {"post", "unlist", "list"} : pc' = [pc EXCEPT ![s]["recv"] = point]
        BY <2>2
      <4> QED
        BY <1>a, <2>1, <4>1
    <3>2. Exempt(p) => Exempt(p)'
      BY <1>b, <2>1, <3>1
    <3>3. InWorld(p) => InWorld(p)'
      BY <1>b, <2>1, <3>1
    <3> QED
      BY <2>3, <3>2, <3>3
  <2>4. ASSUME rpc[v] \in {"home", "to", "unlist", "list"}, hero[v] = Player(s) PROVE hero[v] \in raced
    <3>1. hero[v] \in Players
      BY <1>c, <2>4 DEF Carrying
    <3>2. Moving(hero[v])
      BY <1>a, <2>1, <2>4 DEF Moving
    <3>3. Reviving(hero[v])
      BY <2>4 DEF Reviving
    <3> QED
      BY <3>1, <3>2, <3>3 DEF Walks, Apart
  <2> HIDE DEF InWorld, Exempt
  <2> QED
    BY <1>b, <1>c, <1>d, <2>1, <2>2, <2>3, <2>4 DEF Carrying
<1>7. ASSUME NEW s \in Sessions, MoveUnlists(s) PROVE Revives(v)'
  BY <1>7, <1>a, <1>b, <1>c, <1>d DEF MoveUnlists, Remove
<1>8. ASSUME NEW s \in Sessions, MoveLists(s) PROVE Revives(v)'
  BY <1>8, <1>a, <1>b, <1>c, <1>d DEF MoveLists, EndMove, Add
<1>9. ASSUME NEW s \in Sessions, NEW a \in Threads, LeaveSector(s, a) PROVE Revives(v)'
  <2>1. /\ pc[s][a] = "sector" /\ Goto(s, a, "erase") /\ UNCHANGED <<logins, place, home, rpc, hero, route>>
        /\ raced' = IF Reviving(Player(s)) THEN raced \cup {Player(s)} ELSE raced
    BY <1>9 DEF LeaveSector
  <2>2. ASSUME NEW p \in Players, InWorld(p) \/ Exempt(p), Reviving(p) PROVE InWorld(p)' \/ Exempt(p)'
    <3>1. CASE p = Player(s)
      BY <2>1, <2>2, <3>1
    <3>2. CASE p # Player(s)
      BY <1>a, <1>b, <2>1, <2>2, <3>2
    <3> QED
      BY <3>1, <3>2
  <2>3. rpc[v] \in {"home", "to", "unlist", "list"} => Reviving(hero[v])
    BY DEF Reviving
  <2> HIDE DEF InWorld, Exempt
  <2> QED
    BY <1>b, <1>c, <1>d, <2>1, <2>2, <2>3 DEF Carrying
<1>10. ASSUME NEW w \in Workers, ReviveEvent(w) PROVE Revives(v)'
  BY <1>10, <1>a, <1>b, <1>c, <1>d DEF ReviveEvent
<1>11. ASSUME NEW w \in Workers, ReviveFrom(w) PROVE Revives(v)'
  BY <1>11, <1>a, <1>b, <1>c, <1>d DEF ReviveFrom
<1>12. ASSUME NEW w \in Workers, ReviveHome(w) PROVE Revives(v)'
  <2>1. /\ rpc[w] = "home" /\ rpc' = [rpc EXCEPT ![w] = "to"] /\ place' = [place EXCEPT ![hero[w]] = home[hero[w]]]
        /\ UNCHANGED <<logins, home, pc, hero, route, raced>>
    BY <1>12 DEF ReviveHome
  <2>2. hero[w] \in Players
    BY <1>c, <2>1 DEF Carrying
  <2>3. rpc[v] # "idle" => hero[v] \in Players
    BY <1>c DEF Carrying
  <2>4. ASSUME NEW p \in Players, InWorld(p) \/ Exempt(p) PROVE InWorld(p)' \/ Exempt(p)'
    BY <2>1, <2>4
  <2> HIDE DEF InWorld, Exempt
  <2>5. CASE hero[v] = hero[w]
    BY <1>a, <1>d, <2>1, <2>2, <2>4, <2>5
  <2>6. CASE hero[v] # hero[w]
    BY <1>a, <1>d, <2>1, <2>2, <2>3, <2>4, <2>6
  <2> QED
    BY <2>5, <2>6
<1>13. ASSUME NEW w \in Workers, ReviveTo(w) PROVE Revives(v)'
  BY <1>13, <1>a, <1>b, <1>c, <1>d DEF ReviveTo, EndRevival
<1>14. ASSUME NEW w \in Workers, ReviveUnlists(w) PROVE Revives(v)'
  BY <1>14, <1>a, <1>b, <1>c, <1>d DEF ReviveUnlists, Remove
<1>15. ASSUME NEW w \in Workers, ReviveLists(w) PROVE Revives(v)'
  BY <1>15, <1>a, <1>b, <1>c, <1>d DEF ReviveLists, Add, EndRevival
<1> HIDE DEF Revives, Exempt, InWorld, OnlyReceives, Replaced, Draft, Away, At, Goto, Carry, Player, sessionVars, playerVars, worldVars, saveVars, reviveVars, Quiet, MovePoints
<1> QED
  BY <1>1, <1>2, <1>3, <1>4, <1>5, <1>6, <1>7, <1>8, <1>9, <1>10,
     <1>11, <1>12, <1>13, <1>14, <1>15, Quietly DEF ReviveStep

(***************************************************************************)
(* What the sectors list.  No step ends that a player holds an entry       *)
(* while the entry stays.                                                  *)
(***************************************************************************)

\* The sector is one of Whereabouts(p), a move or revival being yet to take p out of it.
Lies(p, sector) ==
    \/ sector = place[p]
    \/ \E s \in Sessions : p = Player(s) /\ pc[s]["recv"] = "unlist" /\ sector = route[s].from
    \/ \E w \in Workers : hero[w] = p /\ rpc[w] \in {"to", "unlist"} /\ sector = route[w].from

\* The entry of a sector that is p's business.
Holds(p, entry) ==
    IdOf(p) = entry[1] /\ (Exempt(p) \/ (InWorld(p) /\ Lies(p, entry[2])))

LEMMA ExemptStep ==
    ASSUME TypeOK, Settled, [Next]_vars, NEW p \in Players, Exempt(p)
    PROVE  Exempt(p)'
<1>a. /\ Threads = {"recv", "send"} /\ pc \in [Sessions -> [Threads -> Points]]
      /\ logins \in [Sessions -> Nat]
      /\ place \in [Players -> Sectors] /\ home \in [Players -> Sectors]
      /\ rpc \in [Workers -> RevivePoints] /\ hero \in [Workers -> Players \cup {Nobody}]
      /\ route \in [Sessions \cup Workers -> [from : Sectors \cup {Nobody}, to : Sectors \cup {Nobody}]]
      /\ Sessions \intersect Workers = {}
  BY CarriersAssumption DEF TypeOK, Types, Threads, Carriers
<1>b. /\ \A q \in Players : q[1] \in Sessions /\ q[2] \in Nat \ {0} /\ q = <<q[1], q[2]>>
      /\ Nobody \notin Players
  BY Objects, NamesAssumption
<1>c. \A w \in Workers : Carrying(w)
  BY DEF TypeOK
<1> USE DEF Exempt, OnlyReceives, Replaced, At, Goto, Carry, Player, sessionVars, playerVars, worldVars, saveVars, reviveVars, Quiet, MovePoints
<1>1. CASE Quiet
  BY <1>1, <1>a, <1>b
<1>2. ASSUME NEW s \in Sessions, EnterSector(s) PROVE Exempt(p)'
  BY <1>2, <1>a, <1>b DEF EnterSector, Add
<1>3. ASSUME NEW s \in Sessions, SetPlayer(s) PROVE Exempt(p)'
  BY <1>3, <1>a, <1>b DEF SetPlayer
<1>4. ASSUME NEW s \in Sessions, ReenterSector(s) PROVE Exempt(p)'
  BY <1>4, <1>a, <1>b DEF ReenterSector, Add
<1>5. ASSUME NEW s \in Sessions, BeginMove(s) PROVE Exempt(p)'
  BY <1>5, <1>a, <1>b DEF BeginMove, Handling
<1>6. ASSUME NEW s \in Sessions, Place(s) PROVE Exempt(p)'
  BY <1>6, <1>a, <1>b DEF Place, EndMove
<1>7. ASSUME NEW s \in Sessions, MoveUnlists(s) PROVE Exempt(p)'
  BY <1>7, <1>a, <1>b DEF MoveUnlists, Remove
<1>8. ASSUME NEW s \in Sessions, MoveLists(s) PROVE Exempt(p)'
  BY <1>8, <1>a, <1>b DEF MoveLists, EndMove, Add
<1>9. ASSUME NEW s \in Sessions, NEW a \in Threads, LeaveSector(s, a) PROVE Exempt(p)'
  BY <1>9, <1>a, <1>b DEF LeaveSector, Remove
<1>10. ASSUME NEW w \in Workers, ReviveEvent(w) PROVE Exempt(p)'
  BY <1>10, <1>a, <1>b DEF ReviveEvent
<1>11. ASSUME NEW w \in Workers, ReviveFrom(w) PROVE Exempt(p)'
  BY <1>11, <1>a, <1>b DEF ReviveFrom
<1>12. ASSUME NEW w \in Workers, ReviveHome(w) PROVE Exempt(p)'
  BY <1>12, <1>a, <1>b DEF ReviveHome
<1>13. ASSUME NEW w \in Workers, ReviveTo(w) PROVE Exempt(p)'
  BY <1>13, <1>a, <1>b DEF ReviveTo, EndRevival
<1>14. ASSUME NEW w \in Workers, ReviveUnlists(w) PROVE Exempt(p)'
  BY <1>14, <1>a, <1>b DEF ReviveUnlists, Remove
<1>15. ASSUME NEW w \in Workers, ReviveLists(w) PROVE Exempt(p)'
  BY <1>15, <1>a, <1>b DEF ReviveLists, Add, EndRevival
<1> HIDE DEF Exempt, OnlyReceives, Replaced, At, Goto, Carry, Player, sessionVars, playerVars, worldVars, saveVars, reviveVars, Quiet, MovePoints
<1> QED
  BY <1>1, <1>2, <1>3, <1>4, <1>5, <1>6, <1>7, <1>8, <1>9, <1>10,
     <1>11, <1>12, <1>13, <1>14, <1>15, Quietly DEF ReviveStep

LEMMA InWorldStep ==
    ASSUME TypeOK, Settled, [Next]_vars, NEW p \in Players, InWorld(p), ~Exempt(p)', ~Exempt(p)
    PROVE  InWorld(p)' \/ \E a \in Threads : LeaveSector(p[1], a)
<1>a. /\ Threads = {"recv", "send"} /\ pc \in [Sessions -> [Threads -> Points]]
      /\ logins \in [Sessions -> Nat]
      /\ place \in [Players -> Sectors] /\ home \in [Players -> Sectors]
      /\ rpc \in [Workers -> RevivePoints] /\ hero \in [Workers -> Players \cup {Nobody}]
      /\ route \in [Sessions \cup Workers -> [from : Sectors \cup {Nobody}, to : Sectors \cup {Nobody}]]
      /\ Sessions \intersect Workers = {}
  BY CarriersAssumption DEF TypeOK, Types, Threads, Carriers
<1>b. /\ \A q \in Players : q[1] \in Sessions /\ q[2] \in Nat \ {0} /\ q = <<q[1], q[2]>>
      /\ Nobody \notin Players
  BY Objects, NamesAssumption
<1>c. \A w \in Workers : Carrying(w)
  BY DEF TypeOK
<1> USE DEF Exempt, OnlyReceives, Replaced, InWorld, Draft, Away, At, Goto, Carry, Player, sessionVars, playerVars, worldVars, saveVars, reviveVars, Quiet, MovePoints
<1>1. CASE Quiet
  <2>1. UNCHANGED logins
    BY <1>1
  <2>2. CASE pc'[p[1]]["recv"] = pc[p[1]]["recv"]
    BY <2>1, <2>2
  <2>3. CASE pc'[p[1]]["recv"] # pc[p[1]]["recv"]
    <3>1. p = Player(p[1]) /\ pc[p[1]]["recv"] \notin Away
      BY <1>1, <1>b, <2>3
    <3>2. HasPlayer(p[1])
      BY <1>b, <3>1 DEF HasPlayer
    <3>3. pc'[p[1]]["recv"] \notin Away
      BY <1>1, <1>b, <2>3, <3>1, <3>2
    <3> QED
      BY <2>1, <3>1, <3>3
  <2> QED
    BY <2>2, <2>3
<1>2. ASSUME NEW s \in Sessions, EnterSector(s) PROVE InWorld(p)' \/ \E a \in Threads : LeaveSector(p[1], a)
  BY <1>2, <1>a, <1>b DEF EnterSector, Add
<1>3. ASSUME NEW s \in Sessions, SetPlayer(s) PROVE InWorld(p)' \/ \E a \in Threads : LeaveSector(p[1], a)
  BY <1>3, <1>a, <1>b DEF SetPlayer
<1>4. ASSUME NEW s \in Sessions, ReenterSector(s) PROVE InWorld(p)' \/ \E a \in Threads : LeaveSector(p[1], a)
  BY <1>4, <1>a, <1>b DEF ReenterSector, Add
<1>5. ASSUME NEW s \in Sessions, BeginMove(s) PROVE InWorld(p)' \/ \E a \in Threads : LeaveSector(p[1], a)
  BY <1>5, <1>a, <1>b DEF BeginMove, Handling
<1>6. ASSUME NEW s \in Sessions, Place(s) PROVE InWorld(p)' \/ \E a \in Threads : LeaveSector(p[1], a)
  BY <1>6, <1>a, <1>b DEF Place, EndMove
<1>7. ASSUME NEW s \in Sessions, MoveUnlists(s) PROVE InWorld(p)' \/ \E a \in Threads : LeaveSector(p[1], a)
  BY <1>7, <1>a, <1>b DEF MoveUnlists, Remove
<1>8. ASSUME NEW s \in Sessions, MoveLists(s) PROVE InWorld(p)' \/ \E a \in Threads : LeaveSector(p[1], a)
  BY <1>8, <1>a, <1>b DEF MoveLists, EndMove, Add
<1>9. ASSUME NEW s \in Sessions, NEW a \in Threads, LeaveSector(s, a) PROVE InWorld(p)' \/ \E b \in Threads : LeaveSector(p[1], b)
  BY <1>9, <1>a, <1>b DEF LeaveSector, Remove
<1>10. ASSUME NEW w \in Workers, ReviveEvent(w) PROVE InWorld(p)' \/ \E a \in Threads : LeaveSector(p[1], a)
  BY <1>10, <1>a, <1>b DEF ReviveEvent
<1>11. ASSUME NEW w \in Workers, ReviveFrom(w) PROVE InWorld(p)' \/ \E a \in Threads : LeaveSector(p[1], a)
  BY <1>11, <1>a, <1>b DEF ReviveFrom
<1>12. ASSUME NEW w \in Workers, ReviveHome(w) PROVE InWorld(p)' \/ \E a \in Threads : LeaveSector(p[1], a)
  BY <1>12, <1>a, <1>b DEF ReviveHome
<1>13. ASSUME NEW w \in Workers, ReviveTo(w) PROVE InWorld(p)' \/ \E a \in Threads : LeaveSector(p[1], a)
  BY <1>13, <1>a, <1>b DEF ReviveTo, EndRevival
<1>14. ASSUME NEW w \in Workers, ReviveUnlists(w) PROVE InWorld(p)' \/ \E a \in Threads : LeaveSector(p[1], a)
  BY <1>14, <1>a, <1>b DEF ReviveUnlists, Remove
<1>15. ASSUME NEW w \in Workers, ReviveLists(w) PROVE InWorld(p)' \/ \E a \in Threads : LeaveSector(p[1], a)
  BY <1>15, <1>a, <1>b DEF ReviveLists, Add, EndRevival
<1> HIDE DEF Exempt, OnlyReceives, Replaced, InWorld, Draft, Away, At, Goto, Carry, Player, sessionVars, playerVars, worldVars, saveVars, reviveVars, Quiet, MovePoints
<1> QED
  BY <1>1, <1>2, <1>3, <1>4, <1>5, <1>6, <1>7, <1>8, <1>9, <1>10,
     <1>11, <1>12, <1>13, <1>14, <1>15, Quietly DEF ReviveStep

LEMMA LiesStep ==
    ASSUME TypeOK, Settled, Walks, [Next]_vars,
           NEW p \in Players, ~Exempt(p), ~Exempt(p)', InWorld(p), InWorld(p)',
           NEW sector, Lies(p, sector), <<IdOf(p), sector>> \in board'
    PROVE  Lies(p, sector)'
<1>a. /\ Threads = {"recv", "send"} /\ pc \in [Sessions -> [Threads -> Points]]
      /\ logins \in [Sessions -> Nat]
      /\ place \in [Players -> Sectors] /\ home \in [Players -> Sectors]
      /\ rpc \in [Workers -> RevivePoints] /\ hero \in [Workers -> Players \cup {Nobody}]
      /\ route \in [Sessions \cup Workers -> [from : Sectors \cup {Nobody}, to : Sectors \cup {Nobody}]]
      /\ Sessions \intersect Workers = {}
  BY CarriersAssumption DEF TypeOK, Types, Threads, Carriers
<1>b. /\ \A q \in Players : q[1] \in Sessions /\ q[2] \in Nat \ {0} /\ q = <<q[1], q[2]>>
      /\ Nobody \notin Players
  BY Objects, NamesAssumption
<1>c. \A w \in Workers : Carrying(w)
  BY DEF TypeOK
<1>e. Lies(p, sector)
  OBVIOUS
<1>f. p \notin raced /\ p \notin raced'
  BY DEF Exempt
<1> USE DEF At, Goto, Carry, Player, sessionVars, playerVars, worldVars, saveVars, reviveVars, Quiet, MovePoints, Lies
<1>1. CASE Quiet
  <2>1. UNCHANGED <<place, hero, rpc, route, logins>>
    BY <1>1
  <2>2. \A s \in Sessions : pc[s]["recv"] = "unlist" => pc'[s]["recv"] = "unlist"
    BY <1>1
  <2> QED
    BY <1>e, <2>1, <2>2
<1>2. ASSUME NEW s \in Sessions, EnterSector(s) PROVE Lies(p, sector)'
  BY <1>2, <1>a, <1>b, <1>e DEF EnterSector, Add
<1>3. ASSUME NEW s \in Sessions, SetPlayer(s) PROVE Lies(p, sector)'
  <2>1. /\ pc[s]["recv"] = "own" /\ Goto(s, "recv", "reenter") /\ logins' = [logins EXCEPT ![s] = logins[s] + 1]
        /\ UNCHANGED <<place, hero, rpc, route>>
    BY <1>3 DEF SetPlayer
  <2>2. \A t \in Sessions : pc[t]["recv"] = "unlist" => pc'[t]["recv"] = "unlist" /\ logins'[t] = logins[t]
    BY <1>a, <2>1
  <2> QED
    BY <1>e, <2>1, <2>2
<1>4. ASSUME NEW s \in Sessions, ReenterSector(s) PROVE Lies(p, sector)'
  BY <1>4, <1>a, <1>b, <1>e DEF ReenterSector, Add
<1>5. ASSUME NEW s \in Sessions, BeginMove(s) PROVE Lies(p, sector)'
  BY <1>5, <1>a, <1>b, <1>e DEF BeginMove, Handling
<1>6. ASSUME NEW s \in Sessions, Place(s) PROVE Lies(p, sector)'
  <2>1. /\ pc[s]["recv"] = "step" /\ UNCHANGED <<logins, hero, rpc>>
        /\ place' = [place EXCEPT ![Player(s)] = route[s].to]
    BY <1>6 DEF Place
  <2>2. Moves(s)
    BY DEF Walks
  <2>3. p = Player(s) => place[p] = route[s].from /\ place'[p] = route[s].to
    BY <1>a, <1>f, <2>1, <2>2 DEF Moves
  <2>4. p # Player(s) => place'[p] = place[p]
    BY <2>1
  <2>5. /\ \A t \in Sessions : pc[t]["recv"] = "unlist" => pc'[t]["recv"] = "unlist" /\ route'[t] = route[t]
        /\ \A w \in Workers : route'[w] = route[w]
    <3>1. \/ route' = route
          \/ route' = [route EXCEPT ![s] = Nowhere]
      BY <1>6 DEF Place, EndMove
    <3>2. PICK point \in {"post", "unlist", "list"} : pc' = [pc EXCEPT ![s]["recv"] = point]
      BY <1>6 DEF Place, EndMove
    <3> QED
      BY <1>a, <2>1, <3>1, <3>2
  <2>6. route[s].from # route[s].to => pc'[s]["recv"] = "unlist" /\ route'[s] = route[s]
    <3>1. route[s].from # route[s].to => Goto(s, "recv", "unlist") /\ UNCHANGED route
      BY <1>6 DEF Place
    <3> QED
      BY <1>a, <3>1
  <2>7. CASE sector = place[p]
    BY <2>1, <2>3, <2>4, <2>6, <2>7
  <2>8. CASE sector # place[p]
    BY <1>e, <2>1, <2>5, <2>8
  <2> QED
    BY <2>7, <2>8
<1>7. ASSUME NEW s \in Sessions, MoveUnlists(s) PROVE Lies(p, sector)'
  BY <1>7, <1>a, <1>b, <1>e DEF MoveUnlists, Remove
<1>8. ASSUME NEW s \in Sessions, MoveLists(s) PROVE Lies(p, sector)'
  BY <1>8, <1>a, <1>b, <1>e DEF MoveLists, EndMove, Add
<1>9. ASSUME NEW s \in Sessions, NEW a \in Threads, LeaveSector(s, a) PROVE Lies(p, sector)'
  BY <1>9, <1>a, <1>b, <1>e DEF LeaveSector, Remove
<1>10. ASSUME NEW w \in Workers, ReviveEvent(w) PROVE Lies(p, sector)'
  BY <1>10, <1>a, <1>b, <1>e DEF ReviveEvent
<1>11. ASSUME NEW w \in Workers, ReviveFrom(w) PROVE Lies(p, sector)'
  BY <1>11, <1>a, <1>b, <1>e DEF ReviveFrom
<1>12. ASSUME NEW w \in Workers, ReviveHome(w) PROVE Lies(p, sector)'
  <2>1. /\ rpc[w] = "home" /\ rpc' = [rpc EXCEPT ![w] = "to"] /\ place' = [place EXCEPT ![hero[w]] = home[hero[w]]]
        /\ UNCHANGED <<logins, pc, hero, route>>
    BY <1>12 DEF ReviveHome
  <2>2. Revives(w)
    BY DEF Walks
  <2>3. CASE sector = place[p] /\ hero[w] = p
    <3>1. sector = route[w].from \/ place'[p] = place[p]
      BY <1>a, <1>f, <2>1, <2>2, <2>3 DEF Revives
    <3>2. rpc'[w] = "to" /\ hero'[w] = p /\ route'[w] = route[w]
      BY <1>a, <2>1, <2>3
    <3> QED
      BY <2>3, <3>1, <3>2
  <2>4. CASE sector = place[p] /\ hero[w] # p
    BY <2>1, <2>4
  <2>5. CASE sector # place[p]
    <3>1. \A v \in Workers : rpc[v] \in {"to", "unlist"} => rpc'[v] = rpc[v]
      BY <1>a, <2>1
    <3> QED
      BY <1>e, <2>1, <2>5, <3>1
  <2> QED
    BY <2>3, <2>4, <2>5
<1>13. ASSUME NEW w \in Workers, ReviveTo(w) PROVE Lies(p, sector)'
  <2>1. rpc[w] = "to" /\ UNCHANGED <<logins, pc, place>>
    BY <1>13 DEF ReviveTo
  <2>2. CASE route[w].from = place[hero[w]] /\ rpc' = [rpc EXCEPT ![w] = "idle"] /\ EndRevival(w)
    <3>1. /\ \A v \in Workers \ {w} : rpc'[v] = rpc[v] /\ hero'[v] = hero[v] /\ route'[v] = route[v]
          /\ \A s \in Sessions : route'[s] = route[s]
      BY <1>a, <2>2 DEF EndRevival
    <3> QED
      BY <1>e, <2>1, <2>2, <3>1
  <2>3. CASE /\ rpc' = [rpc EXCEPT ![w] = "unlist"] /\ UNCHANGED hero
             /\ route' = [route EXCEPT ![w].to = place[hero[w]]]
    <3>1. /\ \A v \in Workers : rpc[v] \in {"to", "unlist"} => rpc'[v] \in {"to", "unlist"}
          /\ \A v \in Workers : route'[v].from = route[v].from
          /\ \A s \in Sessions : route'[s] = route[s]
      BY <1>a, <2>3
    <3> QED
      BY <1>e, <2>1, <2>3, <3>1
  <2> QED
    BY <1>13, <2>2, <2>3 DEF ReviveTo
<1>14. ASSUME NEW w \in Workers, ReviveUnlists(w) PROVE Lies(p, sector)'
  BY <1>14, <1>a, <1>b, <1>e DEF ReviveUnlists, Remove
<1>15. ASSUME NEW w \in Workers, ReviveLists(w) PROVE Lies(p, sector)'
  BY <1>15, <1>a, <1>b, <1>e DEF ReviveLists, Add, EndRevival
<1> HIDE DEF At, Goto, Carry, Player, sessionVars, playerVars, worldVars, saveVars, reviveVars, Quiet, MovePoints, Lies
<1> QED
  BY <1>1, <1>2, <1>3, <1>4, <1>5, <1>6, <1>7, <1>8, <1>9, <1>10,
     <1>11, <1>12, <1>13, <1>14, <1>15, Quietly DEF ReviveStep

LEMMA HoldsStep ==
    ASSUME TypeOK, TypeOK', Settled, Walks, [Next]_vars, NEW p \in Players, NEW entry \in board', Holds(p, entry)
    PROVE  Holds(p, entry)'
<1>1. entry = <<entry[1], entry[2]>> /\ IdOf(p) = entry[1]
  BY DEF TypeOK, Types, Holds
<1>2. CASE Exempt(p)'
  <2>1. IdOf(p) = entry[1] /\ Exempt(p)' => Holds(p, entry)'
    BY Zenon DEF Holds, IdOf
  <2> QED
    BY <1>1, <1>2, <2>1
<1>3. CASE Exempt(p)
  <2>1. Exempt(p)'
    BY <1>3, ExemptStep
  <2> QED
    BY <1>2, <2>1
<1>4. CASE ~Exempt(p) /\ ~Exempt(p)'
  <2>1. InWorld(p) /\ Lies(p, entry[2])
    BY <1>4 DEF Holds
  <2>2. CASE InWorld(p)'
    <3>1. Lies(p, entry[2])'
      BY <1>1, <1>4, <2>1, <2>2, LiesStep
    <3> QED
      BY <1>1, <2>2, <3>1 DEF Holds
  <2>3. ASSUME NEW a \in Threads, LeaveSector(p[1], a), ~InWorld(p)' PROVE FALSE
    <3> DEFINE s == p[1]
    <3>1. /\ s \in Sessions /\ Threads = {"recv", "send"} /\ pc \in [Sessions -> [Threads -> Points]]
      BY Objects DEF TypeOK, Types, Threads
    <3>2. /\ pc[s][a] = "sector" /\ pc' = [pc EXCEPT ![s][a] = "erase"]
          /\ board' = board \ {<<IdOf(Player(s)), place[Player(s)]>>}
          /\ raced' = IF Reviving(Player(s)) THEN raced \cup {Player(s)} ELSE raced
          /\ logins' = logins
      BY <2>3 DEF LeaveSector, At, Goto, Remove, playerVars
    <3>3. a = "recv" /\ p = Player(s)
      BY <2>1, <2>3, <3>1, <3>2 DEF InWorld, Player, Draft
    <3>4. ~Reviving(p)
      BY <1>4, <3>2, <3>3 DEF Exempt
    <3>5. entry[2] = place[p]
      BY <2>1, <3>1, <3>2, <3>3, <3>4 DEF Lies, Reviving, Player
    <3> QED
      BY <1>1, <3>2, <3>3, <3>5
  <2> QED
    BY <1>4, <2>1, <2>2, <2>3, InWorldStep
<1> QED
  BY <1>2, <1>3, <1>4

\* Whoever puts an id into a sector holds it there.
LEMMA EntryStep ==
    ASSUME TypeOK, TypeOK', Settled, Walks, [Next]_vars, NEW entry \in board', entry \notin board
    PROVE  \E p \in Players : Holds(p, entry)'
<1>a. /\ Threads = {"recv", "send"} /\ pc \in [Sessions -> [Threads -> Points]]
      /\ rpc \in [Workers -> RevivePoints]
  BY DEF TypeOK, Types, Threads
<1> USE DEF At, Goto, sessionVars, playerVars, worldVars, saveVars, reviveVars
<1>1. ASSUME NEW s \in Sessions, EnterSector(s) PROVE \E p \in Players : Holds(p, entry)'
  <2>1. Draft(s) \in Players /\ entry = <<IdOf(Draft(s)), place[Draft(s)]>>
    BY <1>1, Owner DEF EnterSector, Add, TypeOK
  <2>2. pc'[s]["recv"] = "own" /\ UNCHANGED <<logins, place>>
    BY <1>1, <1>a DEF EnterSector
  <2>3. \A p \in Players : p = Draft(s) => Holds(p, entry)'
    BY <2>1, <2>2 DEF Holds, InWorld, Lies, Draft
  <2> QED
    BY <2>1, <2>3
<1>2. ASSUME NEW s \in Sessions, ReenterSector(s) PROVE \E p \in Players : Holds(p, entry)'
  <2>1. HasPlayer(s) /\ entry = <<IdOf(Player(s)), place[Player(s)]>>
    BY <1>2 DEF ReenterSector, Add, TypeOK, InStep
  <2>2. Player(s) \in Players
    BY <2>1, Owner DEF TypeOK
  <2>3. pc'[s]["recv"] = "insert" /\ UNCHANGED <<logins, place>>
    BY <1>2, <1>a DEF ReenterSector
  <2>4. \A p \in Players : p = Player(s) => Holds(p, entry)'
    BY <2>1, <2>3 DEF Holds, InWorld, Lies, Player
  <2> QED
    BY <2>2, <2>4
<1>3. ASSUME NEW s \in Sessions, MoveLists(s) PROVE \E p \in Players : Holds(p, entry)'
  <2>1. HasPlayer(s) /\ entry = <<IdOf(Player(s)), route[s].to>>
    BY <1>3 DEF MoveLists, Add, TypeOK, InStep, MovePoints
  <2>2. Player(s) \in Players
    BY <2>1, Owner DEF TypeOK
  <2>3. pc[s]["recv"] = "list" /\ pc'[s]["recv"] = "post" /\ UNCHANGED <<logins, place, raced>>
    BY <1>3, <1>a DEF MoveLists, EndMove
  <2>4. Player(s) \in raced \/ route[s].to = place[Player(s)]
    BY <2>3 DEF Walks, Moves
  <2>5. ASSUME NEW p \in Players, p = Player(s) PROVE Holds(p, entry)'
    <3>1. InWorld(p)'
      BY <2>1, <2>3, <2>5 DEF InWorld, Player
    <3>2. p \in raced => Exempt(p)'
      BY <2>3 DEF Exempt
    <3>3. entry[2] = place[p] => Lies(p, entry[2])'
      BY <2>3 DEF Lies
    <3>4. IdOf(p) = entry[1] /\ entry[2] = route[s].to
      BY <2>1, <2>5
    <3>5. CASE p \in raced
      BY <3>2, <3>4, <3>5, Zenon DEF Holds, IdOf
    <3>6. CASE Lies(p, entry[2])'
      BY <3>1, <3>4, <3>6, Zenon DEF Holds, IdOf
    <3> QED
      BY <2>4, <2>5, <3>3, <3>4, <3>5, <3>6
  <2> QED
    BY <2>2, <2>5
<1>4. ASSUME NEW w \in Workers, ReviveLists(w) PROVE \E p \in Players : Holds(p, entry)'
  <2>1. rpc[w] = "list" /\ entry = <<IdOf(hero[w]), route[w].to>> /\ UNCHANGED <<logins, place, pc, raced>>
    BY <1>4 DEF ReviveLists, Carry, Add
  <2>2. hero[w] \in Players
    BY <2>1 DEF TypeOK, Carrying
  <2>3. \/ hero[w] \in raced
        \/ (InWorld(hero[w]) \/ Exempt(hero[w])) /\ route[w].to = place[hero[w]]
    BY <2>1 DEF Walks, Revives
  <2>4. \A p \in Players :
          /\ InWorld(p) => InWorld(p)'
          /\ Exempt(p) => Exempt(p)'
          /\ entry[2] = place[p] => Lies(p, entry[2])'
    BY <2>1 DEF InWorld, Exempt, Player, Draft, OnlyReceives, Replaced, Lies
  <2>5. ASSUME NEW p \in Players, p = hero[w] PROVE Holds(p, entry)'
    <3>1. IdOf(p) = entry[1] /\ entry[2] = route[w].to
      BY <2>1, <2>5
    <3>2. p \in raced => Exempt(p)
      BY DEF Exempt
    <3>3. Exempt(p)' \/ (InWorld(p)' /\ Lies(p, entry[2])')
      <4> HIDE DEF sessionVars, playerVars, worldVars, saveVars, reviveVars
      <4> QED
        BY <2>3, <2>4, <2>5, <3>1, <3>2
    <3> QED
      BY <3>1, <3>3, Zenon DEF Holds, IdOf
  <2> QED
    BY <2>2, <2>5
<1>5. \/ \E s \in Sessions : EnterSector(s) \/ ReenterSector(s) \/ MoveLists(s)
      \/ \E w \in Workers : ReviveLists(w)
  <2>1. board' # board
    OBVIOUS
  <2>2. \/ \E s \in Sessions :
             \/ EnterSector(s) \/ ReenterSector(s) \/ MoveUnlists(s) \/ MoveLists(s)
             \/ \E a \in Threads : LeaveSector(s, a)
        \/ \E w \in Workers : ReviveUnlists(w) \/ ReviveLists(w)
    BY <2>1, Quietly DEF Quiet, ReviveStep, SetPlayer, BeginMove, Place,
       ReviveEvent, ReviveFrom, ReviveHome, ReviveTo
  <2> QED
    BY <2>2 DEF MoveUnlists, LeaveSector, ReviveUnlists, Remove
<1> HIDE DEF At, Goto
<1> QED
  BY <1>1, <1>2, <1>3, <1>4, <1>5

(***************************************************************************)
(* The theorems.                                                           *)
(***************************************************************************)

Custody ==
    /\ Settled /\ Walks
    /\ \A entry \in board : \E p \in Players : Holds(p, entry)

LEMMA CustodyInvariant == Spec => [](TypeOK /\ Custody)
<1>1. Init => Custody
  BY SettledInit, WalksInit DEF Custody, Init
<1>2. TypeOK /\ Custody /\ [Next]_vars => Custody'
  <2> SUFFICES ASSUME TypeOK, TypeOK', Settled, Walks, [Next]_vars,
                      \A entry \in board : \E p \in Players : Holds(p, entry)
               PROVE  Custody'
    BY TypingStep DEF Custody
  <2>1. Settled'
    BY StillOpenStep, DepartingStep, KeyedStep, ListedStep DEF Settled
  <2>2. Walks'
    BY ApartStep, MovesStep, RevivesStep DEF Walks
  <2>3. \A entry \in board' : \E p \in Players : Holds(p, entry)'
    BY HoldsStep, EntryStep
  <2> QED
    BY <2>1, <2>2, <2>3 DEF Custody
<1> QED
  BY <1>1, <1>2, TypingInit, TypingStep, PTL DEF Spec

\* Whoever logs in or out under the same id, moves and revives, and in whatever
\* order, a client whose departure the receive path sees leaves nothing behind,
\* unless his player was replaced by a second login or revived while it moved
\* or left.
THEOREM NothingLeft == Spec => []NothingLeftBehind
<1>1. TypeOK /\ Custody => NothingLeftBehind
  <2> SUFFICES ASSUME TypeOK, Custody PROVE NothingLeftBehind
    OBVIOUS
  <2>1. ASSUME NEW id \in Ids, InTable(id), OnlyReceives(table[id][1]), ~Replaced(table[id])
        PROVE  connected[table[id][1]]
    <3> DEFINE p == table[id]
    <3>1. p \in Players /\ p[1] \in Sessions /\ p[2] \in Nat /\ logins[p[1]] \in Nat
      BY <2>1, Objects DEF InTable, TypeOK, Types
    <3>2. p[2] = logins[p[1]]
      BY <2>1, <3>1 DEF Custody, Settled, Listed, Replaced
    <3> QED
      BY <2>1, <3>1, <3>2 DEF Custody, Settled, Listed, StillOpen
  <2>2. ASSUME NEW entry \in board PROVE
          \E p \in Players :
            /\ IdOf(p) = entry[1]
            /\ \/ InWorld(p) /\ entry[2] \in Whereabouts(p)
               \/ ~OnlyReceives(p[1]) \/ Replaced(p) \/ p \in raced
    <3>1. PICK p \in Players : Holds(p, entry)
      BY DEF Custody
    <3>2. Lies(p, entry[2]) => entry[2] \in Whereabouts(p)
      BY DEF Lies, Whereabouts
    <3> QED
      BY <3>1, <3>2 DEF Holds, Exempt
  <2> QED
    BY <2>1, <2>2 DEF NothingLeftBehind
<1> QED
  BY <1>1, CustodyInvariant, PTL

\* at() throws in no PostDisconnect, however many race for one id, but in one
\* that the send path runs during the session's own login.
THEOREM EraseFinds == Spec => []EraseFindsKey
<1>1. TypeOK /\ Custody => EraseFindsKey
  <2> SUFFICES ASSUME TypeOK, Custody, NEW s \in Sessions, NEW a \in Threads,
                      pc[s][a] = "erase", table[leaver[s][a]] = Absent
               PROVE  a = "send" /\ pc[s]["recv"] \in {"reenter", "insert"}
    BY DEF EraseFindsKey
  <2>1. PICK k \in 1..logins[s] : leaver[s][a] = IdOf(<<s, k>>)
    BY DEF Custody, Settled, Departing
  <2>2. pc[s]["recv"] \in {"reenter", "insert"}
    BY <2>1 DEF Custody, Settled, Keyed
  <2> QED
    BY <2>2 DEF Threads
<1> QED
  BY <1>1, CustodyInvariant, PTL

\* An id denotes one object for as long as the server runs.
THEOREM OneObject == Spec => OneObjectPerId
<1> DEFINE Kept == \A id \in Ids : table'[id] # table[id] =>
                     table[id] = Absent \/ (InTable(id) /\ table'[id] = Gone)
<1>1. TypeOK /\ [Next]_vars => [Kept]_vars
  <2> SUFFICES ASSUME TypeOK, Next, NEW id \in Ids, table'[id] # table[id]
               PROVE  table[id] = Absent \/ (InTable(id) /\ table'[id] = Gone)
    BY DEF vars
  <2>1. PICK s \in Sessions : AddServerObject(s) \/ \E a \in Threads : RemoveServerObject(s, a)
    <3>1. UNCHANGED table \/ \E s \in Sessions : AddServerObject(s) \/ \E a \in Threads : RemoveServerObject(s, a)
      BY Inwardly DEF Inward, Accept, SetPlayer, ReenterSector, PostRecv, Closes, Disconnect, RemoveSession,
         playerVars, worldVars
    <3> QED
      BY <3>1
  <2>2. CASE AddServerObject(s)
    BY <2>2 DEF AddServerObject, TypeOK, Types
  <2>3. ASSUME NEW a \in Threads, RemoveServerObject(s, a)
        PROVE  InTable(id) /\ table'[id] = Gone
    <3>1. table[leaver[s][a]] # Absent /\ table' = [table EXCEPT ![leaver[s][a]] = Gone]
      BY <2>3 DEF RemoveServerObject
    <3> QED
      BY <3>1 DEF TypeOK, Types, InTable
  <2> QED
    BY <2>1, <2>2, <2>3
<1> QED
  BY <1>1, CustodyInvariant, PTL DEF Spec, OneObjectPerId

=============================================================================
