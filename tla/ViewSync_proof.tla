--------------------------- MODULE ViewSync_proof ----------------------------
(***************************************************************************)
(* Three results for boards, sectors and view ranges of any size and any   *)
(* number of players: a player in the world is listed in some sector       *)
(* whenever none of his handlers runs, in any overlap of his own handlers; *)
(* a handler that runs undisturbed leaves its player with exactly those he *)
(* can see around him; and as long as handlers run one after the other     *)
(* and nobody teleports, the view lists are what the players see.          *)
(***************************************************************************)
EXTENDS ViewSync, Board_proof

(***************************************************************************)
(* The handlers.                                                           *)
(***************************************************************************)

LEMMA ThreadParts ==
    ASSUME NEW t \in Threads
    PROVE  Owner(t) \in Players /\ t[2] \in Roles /\ t = <<Owner(t), t[2]>>
BY DEF Threads, Owner

LEMMA TypingInit == Init => TypeOK
<1> SUFFICES ASSUME Init PROVE TypeOK
    OBVIOUS
<1>1. pos \in [Players -> Pos] /\ startPos \in [Players -> Pos]
    BY ViewAssumption DEF Init
<1>2. from \in [Threads -> Pos] /\ to \in [Threads -> Pos]
    BY <1>1, ThreadParts DEF Init
<1>3. pc \in [Threads -> Points] /\ kind \in [Threads -> Kinds]
    BY DEF Init, Points, Kinds
<1> QED
    BY <1>1, <1>2, <1>3 DEF Init, TypeOK

LEMMA TypingStep == TypeOK /\ [Next]_vars => TypeOK'
<1> SUFFICES ASSUME TypeOK, [Next]_vars PROVE TypeOK'
    OBVIOUS
<1> USE ThreadParts DEF TypeOK, At, Goto
<1>1. ASSUME NEW t \in Threads, BeginLogin(t) PROVE TypeOK'
    BY <1>1 DEF BeginLogin, Begin, body, Points, Kinds
<1>2. ASSUME NEW t \in Threads, BeginMove(t) PROVE TypeOK'
    BY <1>2 DEF BeginMove, Begin, body, Points, Kinds, Bounded
<1>3. ASSUME NEW t \in Threads, BeginTeleport(t) PROVE TypeOK'
    BY <1>3 DEF BeginTeleport, Begin, body, Points, Kinds, Bounded
<1>4. ASSUME NEW t \in Threads, BeginRevive(t) PROVE TypeOK'
    BY <1>4 DEF BeginRevive, Begin, body, Points, Kinds, Bounded
<1>5. ASSUME NEW t \in Threads, BeginLeave(t) PROVE TypeOK'
    BY <1>5 DEF BeginLeave, Begin, body, Points, Kinds, Bounded
<1>6. ASSUME NEW t \in Threads, MoveTo(t) PROVE TypeOK'
    BY <1>6 DEF MoveTo, body, local, history, Points, CanGo
<1>7. ASSUME NEW t \in Threads, MoveRefused(t) PROVE TypeOK'
    BY <1>7 DEF MoveRefused, body, local, history, Points, Kinds
<1>8. ASSUME NEW t \in Threads, TeleportTo(t) PROVE TypeOK'
    BY <1>8 DEF TeleportTo, body, local, history, Points, CanGo
<1>9. ASSUME NEW t \in Threads, ReviveFrom(t) PROVE TypeOK'
    BY <1>9 DEF ReviveFrom, body, local, history, Points, Kinds
<1>10. ASSUME NEW t \in Threads, ReviveTo(t) PROVE TypeOK'
    BY <1>10 DEF ReviveTo, body, local, history, Points, Kinds
<1>11. ASSUME NEW t \in Threads, SetStartPos(t) PROVE TypeOK'
    BY <1>11 DEF SetStartPos, body, local, history, Points, Kinds
<1>12. ASSUME NEW t \in Threads, Place(t) PROVE TypeOK'
    BY <1>12 DEF Place, body, local, history, Points
<1>13. ASSUME NEW t \in Threads, Aim(t) PROVE TypeOK'
    BY <1>13 DEF Aim, body, local, history, Points
<1>14. ASSUME NEW t \in Threads, LeaveSector(t) PROVE TypeOK'
    BY <1>14 DEF LeaveSector, body, local, history, Points
<1>15. ASSUME NEW t \in Threads, EnterSector(t) PROVE TypeOK'
    BY <1>15 DEF EnterSector, body, local, history, Points
<1>16. ASSUME NEW t \in Threads, CopyView(t) PROVE TypeOK'
    BY SectorsExist, <1>16 DEF CopyView, body, local, history, Points
<1>17. ASSUME NEW t \in Threads, ScanSector(t) PROVE TypeOK'
    BY <1>17 DEF ScanSector, body, local, history, Points
<1>18. ASSUME NEW t \in Threads, ScanDone(t) PROVE TypeOK'
    BY <1>18 DEF ScanDone, body, local, history, Points
<1>19. ASSUME NEW t \in Threads, Look(t) PROVE TypeOK'
    <2>1. PICK o \in cand[t] :
            /\ cand' = [cand EXCEPT ![t] = @ \ {o}]
            /\ near' = [near EXCEPT ![t] = IF inGame[o] /\ CanSee(pos[Owner(t)], pos[o])
                                         THEN @ \union {o} ELSE @]
            /\ IF inGame[o] /\ CanSee(pos[Owner(t)], pos[o]) /\ kind[t] = "login"
               THEN cur' = [cur EXCEPT ![t] = o] /\ Goto(t, "tell")
               ELSE UNCHANGED <<cur, pc>>
        BY <1>19 DEF Look
    <2>2. o \in Players /\ UNCHANGED <<body, listed, view, kind, from, to, old, todo, history>>
        BY <1>19, <2>1 DEF Look
    <2>3. cand' \in [Threads -> SUBSET Players]
        BY <2>1
    <2>4. CASE inGame[o] /\ CanSee(pos[Owner(t)], pos[o]) /\ kind[t] = "login"
        <3>1. /\ cur' = [cur EXCEPT ![t] = o]
              /\ pc' = [pc EXCEPT ![t] = "tell"]
            BY <2>1, <2>4
        <3>2. \A u \in Threads : pc'[u] \in {"tell", "own", "lost"} => cur'[u] \in Players
            BY <3>1, <2>2
        <3>3. view' = view
            BY <2>1, <2>2, <2>4
        <3>4. view' \in [Players -> SUBSET Players]
            BY <3>3
        <3> QED
            BY <2>1, <2>2, <2>3, <2>4, <3>1, <3>2, <3>4 DEF body, history, Points
    <2>5. CASE ~(inGame[o] /\ CanSee(pos[Owner(t)], pos[o]) /\ kind[t] = "login")
        BY <2>1, <2>2, <2>3, <2>5 DEF body, history
    <2> QED
        BY <2>4, <2>5
<1>20. ASSUME NEW t \in Threads, LookDone(t) PROVE TypeOK'
    BY <1>20 DEF LookDone, body, local, history, Points
<1>21. ASSUME NEW t \in Threads, Meet(t) PROVE TypeOK'
    <2>1. PICK o \in cand[t] :
            /\ cand' = [cand EXCEPT ![t] = @ \ {o}]
            /\ IF inGame[o] THEN cur' = [cur EXCEPT ![t] = o] /\ Goto(t, "tell")
               ELSE UNCHANGED <<cur, pc>>
        BY <1>21 DEF Meet
    <2>2. o \in Players /\ UNCHANGED <<body, listed, view, kind, from, to, old, near, todo, history>>
        BY <1>21, <2>1 DEF Meet
    <2>3. cand' \in [Threads -> SUBSET Players]
        BY <2>1
    <2>4. CASE inGame[o]
        <3>1. /\ cur' = [cur EXCEPT ![t] = o]
              /\ pc' = [pc EXCEPT ![t] = "tell"]
            BY <2>1, <2>4
        <3>2. \A u \in Threads : pc'[u] \in {"tell", "own", "lost"} => cur'[u] \in Players
            BY <3>1, <2>2
        <3>3. view' = view
            BY <2>1, <2>2, <2>4
        <3>4. view' \in [Players -> SUBSET Players]
            BY <3>3
        <3> QED
            BY <2>1, <2>2, <2>3, <2>4, <3>1, <3>2, <3>4 DEF body, history, Points
    <2>5. CASE ~(inGame[o])
        BY <2>1, <2>2, <2>3, <2>5 DEF body, history
    <2> QED
        BY <2>4, <2>5
<1>22. ASSUME NEW t \in Threads, MeetDone(t) PROVE TypeOK'
    BY <1>22 DEF MeetDone, body, local, history, Points
<1>23. ASSUME NEW t \in Threads, Tell(t) PROVE TypeOK'
    <2>1. cur[t] \in Players /\ IdTold(t, cur[t]) \in Players
        BY <1>23 DEF Tell, IdTold
    <2> QED
        BY <1>23, <2>1 DEF Tell, body, local, history, Points
<1>24. ASSUME NEW t \in Threads, Own(t) PROVE TypeOK'
    BY <1>24 DEF Own, body, local, history, Points
<1>25. ASSUME NEW t \in Threads, Lose(t) PROVE TypeOK'
    <2>1. PICK o \in cand[t] :
            /\ cand' = [cand EXCEPT ![t] = @ \ {o}]
            /\ IF inGame[o]
               THEN /\ view' = [view EXCEPT ![Owner(t)] = @ \ {o}]
                    /\ cur' = [cur EXCEPT ![t] = o]
                    /\ Goto(t, "lost")
               ELSE UNCHANGED <<view, cur, pc>>
        BY <1>25 DEF Lose
    <2>2. o \in Players /\ UNCHANGED <<body, listed, kind, from, to, old, near, todo, history>>
        BY <1>25, <2>1 DEF Lose
    <2>3. cand' \in [Threads -> SUBSET Players]
        BY <2>1
    <2>4. CASE inGame[o]
        <3>1. /\ cur' = [cur EXCEPT ![t] = o]
              /\ pc' = [pc EXCEPT ![t] = "lost"]
            BY <2>1, <2>4
        <3>2. \A u \in Threads : pc'[u] \in {"tell", "own", "lost"} => cur'[u] \in Players
            BY <3>1, <2>2
        <3>3. view' = [view EXCEPT ![Owner(t)] = @ \ {o}]
            BY <2>1, <2>2, <2>4
        <3>4. view' \in [Players -> SUBSET Players]
            BY <3>3
        <3> QED
            BY <2>1, <2>2, <2>3, <2>4, <3>1, <3>2, <3>4 DEF body, history, Points
    <2>5. CASE ~(inGame[o])
        BY <2>1, <2>2, <2>3, <2>5 DEF body, history
    <2> QED
        BY <2>4, <2>5
<1>26. ASSUME NEW t \in Threads, Lost(t) PROVE TypeOK'
    BY <1>26 DEF Lost, body, local, history, Points
<1>27. ASSUME NEW t \in Threads, LoseDone(t) PROVE TypeOK'
    BY <1>27 DEF LoseDone, body, local, history, Points
<1>28. ASSUME NEW t \in Threads, AddServerObject(t) PROVE TypeOK'
    BY <1>28 DEF AddServerObject, body, local, history, Points
<1>29. ASSUME NEW t \in Threads, RemoveServerObject(t) PROVE TypeOK'
    BY <1>29 DEF RemoveServerObject, body, local, history, Points
<1>30. ASSUME NEW t \in Threads, Return(t) PROVE TypeOK'
    BY <1>30 DEF Return, body, history, Points, Kinds
<1>31. ASSUME NEW p \in Players, Die(p) PROVE TypeOK'
    BY <1>31 DEF Die, Bounded, local
<1>32. CASE UNCHANGED vars
    BY <1>32 DEF vars, body, local, history
<1> HIDE DEF TypeOK, At, Goto
<1> QED
    BY <1>1, <1>2, <1>3, <1>4, <1>5, <1>6, <1>7, <1>8, <1>9, <1>10, <1>11, <1>12, <1>13, <1>14, <1>15, <1>16, <1>17, <1>18, <1>19, <1>20, <1>21, <1>22, <1>23, <1>24, <1>25, <1>26, <1>27, <1>28, <1>29, <1>30, <1>31, <1>32
    DEF Next, Step

\* Type correctness, for any board and any number of players.
THEOREM Typing == Spec => []TypeOK
<1>1. Init => TypeOK
    BY TypingInit
<1>2. TypeOK /\ [Next]_vars => TypeOK'
    BY TypingStep
<1> QED
    BY <1>1, <1>2, PTL DEF Spec

-----------------------------------------------------------------------------
(***************************************************************************)
(* The invariant behind NeverLost.                                         *)
(***************************************************************************)
Session(p) == <<p, "session">>
Closer(p) == <<p, "closer">>

LEMMA ThreadNames ==
    /\ \A p \in Players :
        /\ Session(p) \in Threads /\ Session(p)[2] = "session" /\ Owner(Session(p)) = p
        /\ Closer(p) \in Threads /\ Closer(p)[2] = "closer" /\ Owner(Closer(p)) = p
    /\ \A t \in Threads :
        /\ Owner(t) \in Players
        /\ t[2] = "session" => t = Session(Owner(t))
        /\ t[2] = "closer" => t = Closer(Owner(t))
BY DEF Threads, Roles, Session, Closer, Owner

\* Which thread may be where.
RolesKept ==
    \A t \in Threads :
        /\ pc[t] \in {"off", "insert"} => t[2] = "session"
        /\ pc[t] = "insert" => kind[t] = "login"
        /\ kind[t] = "login" => t[2] = "session"
        /\ kind[t] = "leave" <=> t[2] = "closer" /\ pc[t] # "idle"
        /\ t[2] = "closer" => pc[t] \in {"idle", "leaveSector", "erase", "done"}
        /\ pc[t] = "erase" => t[2] = "closer"

InLogin(p) == kind[Session(p)] = "login" /\ pc[Session(p)] # "done"

\* Before the login has entered him into the table nobody disconnects him,
\* and after he has been taken out he does not come back.
Once ==
    \A p \in Players :
        /\ pc[Session(p)] = "off" \/ InLogin(p) => ~inGame[p] /\ pc[Closer(p)] = "idle"
        /\ pc[Closer(p)] = "done" => ~inGame[p]

\* He is listed, is about to be, or is on his way out.
Held(p) ==
    \/ \E s \in Sectors : p \in listed[s]
    \/ \E t \in Threads : Owner(t) = p /\ pc[t] = "enterSector"
    \/ pc[Closer(p)] = "erase"

AlwaysHeld ==
    \A p \in Players :
        pc[Session(p)] # "off" => Held(p) \/ pc[Closer(p)] = "done"

Custody == TypeOK /\ RolesKept /\ Once /\ AlwaysHeld

Inside == {"origin", "start", "place", "aim", "copy", "scan", "look", "meet", "tell", "own", "lose", "lost"}

\* A step that changes neither a sector nor the table.
Walk(t) ==
    /\ pc[t] \in Inside
    /\ \E x \in Inside \union {"leaveSector", "enterSector", "insert", "done"} :
        /\ pc' = [pc EXCEPT ![t] = x]
        /\ x = "insert" => kind[t] = "login"
    /\ UNCHANGED <<kind, inGame, listed>>

LEMMA Walks ==
    ASSUME TypeOK, NEW t \in Threads,
           \/ MoveTo(t) \/ TeleportTo(t) \/ ReviveFrom(t) \/ ReviveTo(t) \/ SetStartPos(t)
           \/ Place(t) \/ Aim(t) \/ CopyView(t) \/ ScanSector(t) \/ ScanDone(t) \/ Look(t) \/ LookDone(t)
           \/ Meet(t) \/ MeetDone(t) \/ Tell(t) \/ Own(t) \/ Lose(t) \/ Lost(t) \/ LoseDone(t)
    PROVE  Walk(t)
<1> USE DEF At, Goto, Inside, body, local, history, Walk
<1>1. CASE MoveTo(t)
    BY <1>1 DEF MoveTo
<1>2. CASE TeleportTo(t)
    BY <1>2 DEF TeleportTo
<1>3. CASE ReviveFrom(t)
    BY <1>3 DEF ReviveFrom
<1>4. CASE ReviveTo(t)
    BY <1>4 DEF ReviveTo
<1>5. CASE SetStartPos(t)
    BY <1>5 DEF SetStartPos
<1>6. CASE Place(t)
    <2>1. PICK x \in {"start", "aim"} : pc' = [pc EXCEPT ![t] = x]
        BY <1>6 DEF Place
    <2>2. pc[t] = "place" /\ UNCHANGED <<kind, inGame, listed>>
        BY <1>6 DEF Place
    <2> QED
        BY <2>1, <2>2
<1>7. CASE Aim(t)
    <2>1. PICK x \in {"leaveSector", "enterSector", "copy"} : pc' = [pc EXCEPT ![t] = x]
        BY <1>7 DEF Aim
    <2>2. pc[t] = "aim" /\ UNCHANGED <<kind, inGame, listed>>
        BY <1>7 DEF Aim
    <2> QED
        BY <2>1, <2>2
<1>8. CASE CopyView(t)
    BY <1>8 DEF CopyView
<1>9. CASE ScanSector(t)
    BY <1>9 DEF ScanSector
<1>10. CASE ScanDone(t)
    <2>1. PICK x \in {"insert", "meet"} : pc' = [pc EXCEPT ![t] = x] /\ (x = "insert" => kind[t] = "login")
        BY <1>10 DEF ScanDone
    <2>2. pc[t] = "scan" /\ UNCHANGED <<kind, inGame, listed>>
        BY <1>10 DEF ScanDone
    <2> QED
        BY <2>1, <2>2
<1>11. CASE Look(t)
    <2>1. pc' = [pc EXCEPT ![t] = "tell"] \/ pc' = pc
        BY <1>11 DEF Look
    <2>2. pc = [pc EXCEPT ![t] = pc[t]]
        BY DEF TypeOK
    <2>3. pc[t] = "look" /\ UNCHANGED <<kind, inGame, listed>>
        BY <1>11 DEF Look
    <2> QED
        BY <2>1, <2>2, <2>3
<1>12. CASE LookDone(t)
    BY <1>12 DEF LookDone
<1>13. CASE Meet(t)
    <2>1. pc' = [pc EXCEPT ![t] = "tell"] \/ pc' = pc
        BY <1>13 DEF Meet
    <2>2. pc = [pc EXCEPT ![t] = pc[t]]
        BY DEF TypeOK
    <2>3. pc[t] = "meet" /\ UNCHANGED <<kind, inGame, listed>>
        BY <1>13 DEF Meet
    <2> QED
        BY <2>1, <2>2, <2>3
<1>14. CASE MeetDone(t)
    BY <1>14 DEF MeetDone
<1>15. CASE Tell(t)
    BY <1>15 DEF Tell
<1>16. CASE Own(t)
    <2>1. PICK x \in {"look", "meet"} : pc' = [pc EXCEPT ![t] = x]
        BY <1>16 DEF Own
    <2>2. pc[t] = "own" /\ UNCHANGED <<kind, inGame, listed>>
        BY <1>16 DEF Own
    <2> QED
        BY <2>1, <2>2
<1>17. CASE Lose(t)
    <2>1. pc' = [pc EXCEPT ![t] = "lost"] \/ pc' = pc
        BY <1>17 DEF Lose
    <2>2. pc = [pc EXCEPT ![t] = pc[t]]
        BY DEF TypeOK
    <2>3. pc[t] = "lose" /\ UNCHANGED <<kind, inGame, listed>>
        BY <1>17 DEF Lose
    <2> QED
        BY <2>1, <2>2, <2>3
<1>18. CASE Lost(t)
    BY <1>18 DEF Lost
<1>19. CASE LoseDone(t)
    BY <1>19 DEF LoseDone
<1> QED
    BY <1>1, <1>2, <1>3, <1>4, <1>5, <1>6, <1>7, <1>8, <1>9, <1>10, <1>11, <1>12, <1>13, <1>14, <1>15, <1>16, <1>17, <1>18, <1>19

LEMMA RolesStep == TypeOK /\ RolesKept /\ [Next]_vars => RolesKept'
<1> SUFFICES ASSUME TypeOK, RolesKept, [Next]_vars PROVE RolesKept'
    OBVIOUS
<1> USE DEF TypeOK, RolesKept
<1>1. ASSUME NEW t \in Threads, Walk(t) PROVE RolesKept'
    BY <1>1 DEF Walk, Inside
<1>2. ASSUME NEW t \in Threads, BeginLogin(t) PROVE RolesKept'
    BY <1>2 DEF BeginLogin, At, Goto, Begin, body
<1>3. ASSUME NEW t \in Threads, BeginMove(t) PROVE RolesKept'
    BY <1>3 DEF BeginMove, At, Goto, Begin, body
<1>4. ASSUME NEW t \in Threads, BeginTeleport(t) PROVE RolesKept'
    BY <1>4 DEF BeginTeleport, At, Goto, Begin, body
<1>5. ASSUME NEW t \in Threads, MoveRefused(t) PROVE RolesKept'
    BY <1>5 DEF MoveRefused, At, Goto, body, history
<1>6. ASSUME NEW t \in Threads, BeginRevive(t) PROVE RolesKept'
    BY <1>6 DEF BeginRevive, At, Goto, Begin, body
<1>7. ASSUME NEW t \in Threads, BeginLeave(t) PROVE RolesKept'
    BY <1>7 DEF BeginLeave, At, Goto, Begin, body
<1>8. ASSUME NEW t \in Threads, LeaveSector(t) PROVE RolesKept'
    BY <1>8 DEF LeaveSector, At, Goto, body, local
<1>9. ASSUME NEW t \in Threads, EnterSector(t) PROVE RolesKept'
    BY <1>9 DEF EnterSector, At, Goto, body, local
<1>10. ASSUME NEW t \in Threads, AddServerObject(t) PROVE RolesKept'
    BY <1>10 DEF AddServerObject, At, Goto, body, local
<1>11. ASSUME NEW t \in Threads, RemoveServerObject(t) PROVE RolesKept'
    BY <1>11 DEF RemoveServerObject, At, Goto, body, local
<1>12. ASSUME NEW t \in Threads, Return(t) PROVE RolesKept'
    BY <1>12 DEF Return, At, Goto, body
<1>13. ASSUME NEW p \in Players, Die(p) PROVE RolesKept'
    BY <1>13 DEF Die, local
<1>14. CASE UNCHANGED vars
    BY <1>14 DEF vars, body, local
<1> HIDE DEF TypeOK, RolesKept
<1> QED
    BY Walks, <1>1, <1>2, <1>3, <1>4, <1>5, <1>6, <1>7, <1>8, <1>9, <1>10, <1>11, <1>12, <1>13, <1>14
    DEF Next, Step

LEMMA OnceStep == TypeOK /\ RolesKept /\ Once /\ [Next]_vars => Once'
<1> SUFFICES ASSUME TypeOK, RolesKept, Once, [Next]_vars PROVE Once'
    OBVIOUS
<1> USE DEF TypeOK, RolesKept, Once, InLogin
<1>1. ASSUME NEW t \in Threads, Walk(t) PROVE Once'
    <2> SUFFICES ASSUME NEW p \in Players
                 PROVE  /\ pc'[Session(p)] = "off" \/ InLogin(p)' => ~inGame'[p] /\ pc'[Closer(p)] = "idle"
                        /\ pc'[Closer(p)] = "done" => ~inGame'[p]
        OBVIOUS
    <2>1. t # Closer(p) /\ pc[t] \in Inside
        BY <1>1, ThreadNames DEF Walk, Inside
    <2>2. pc'[Closer(p)] = pc[Closer(p)] /\ UNCHANGED <<kind, inGame>>
        BY <1>1, <2>1, ThreadNames DEF Walk
    <2>3. pc'[Session(p)] = "off" \/ InLogin(p)' => pc[Session(p)] = "off" \/ InLogin(p)
        BY <1>1, <2>1, ThreadNames DEF Walk, Inside
    <2> QED
        BY <2>2, <2>3
<1>2. ASSUME NEW t \in Threads, BeginLogin(t) PROVE Once'
    BY <1>2, ThreadNames DEF BeginLogin, At, Goto, Begin, body
<1>3. ASSUME NEW t \in Threads, BeginMove(t) PROVE Once'
    BY <1>3, ThreadNames DEF BeginMove, At, Goto, Begin, body
<1>4. ASSUME NEW t \in Threads, BeginTeleport(t) PROVE Once'
    BY <1>4, ThreadNames DEF BeginTeleport, At, Goto, Begin, body
<1>5. ASSUME NEW t \in Threads, MoveRefused(t) PROVE Once'
    BY <1>5, ThreadNames DEF MoveRefused, At, Goto, body, history
<1>6. ASSUME NEW t \in Threads, BeginRevive(t) PROVE Once'
    BY <1>6, ThreadNames DEF BeginRevive, At, Goto, Begin, body
<1>7. ASSUME NEW t \in Threads, BeginLeave(t) PROVE Once'
    BY <1>7, ThreadNames DEF BeginLeave, At, Goto, Begin, body
<1>8. ASSUME NEW t \in Threads, LeaveSector(t) PROVE Once'
    BY <1>8, ThreadNames DEF LeaveSector, At, Goto, body, local
<1>9. ASSUME NEW t \in Threads, EnterSector(t) PROVE Once'
    BY <1>9, ThreadNames DEF EnterSector, At, Goto, body, local
<1>10. ASSUME NEW t \in Threads, AddServerObject(t) PROVE Once'
    BY <1>10, ThreadNames DEF AddServerObject, At, Goto, body, local
<1>11. ASSUME NEW t \in Threads, RemoveServerObject(t) PROVE Once'
    BY <1>11, ThreadNames DEF RemoveServerObject, At, Goto, body, local
<1>12. ASSUME NEW t \in Threads, Return(t) PROVE Once'
    BY <1>12, ThreadNames DEF Return, At, Goto, body
<1>13. ASSUME NEW p \in Players, Die(p) PROVE Once'
    BY <1>13, ThreadNames DEF Die, local
<1>14. CASE UNCHANGED vars
    BY <1>14, ThreadNames DEF vars, body, local
<1> HIDE DEF TypeOK, RolesKept, Once, InLogin
<1> QED
    BY Walks, <1>1, <1>2, <1>3, <1>4, <1>5, <1>6, <1>7, <1>8, <1>9, <1>10, <1>11, <1>12, <1>13, <1>14
    DEF Next, Step

LEMMA HeldStep == TypeOK /\ RolesKept /\ AlwaysHeld /\ [Next]_vars => AlwaysHeld'
<1> SUFFICES ASSUME TypeOK, RolesKept, AlwaysHeld, [Next]_vars PROVE AlwaysHeld'
    OBVIOUS
<1> USE DEF TypeOK, RolesKept, AlwaysHeld, Held
<1>1. ASSUME NEW t \in Threads, Walk(t) PROVE AlwaysHeld'
    <2>1. UNCHANGED listed /\ \A u \in Threads : u # t => pc'[u] = pc[u]
        BY <1>1 DEF Walk
    <2>2. pc[t] \in Inside /\ pc'[t] \in Inside \union {"leaveSector", "enterSector", "insert", "done"}
        BY <1>1 DEF Walk
    <2>3. \A q \in Players : t # Closer(q)
        BY <2>2, ThreadNames DEF Inside
    <2>4. \A q \in Players : pc'[Session(q)] # "off" => pc[Session(q)] # "off"
        BY <2>1, <2>2, ThreadNames DEF Inside
    <2>5. pc[t] # "enterSector"
        BY <2>2 DEF Inside
    <2>6. ASSUME NEW q \in Players, pc'[Session(q)] # "off" PROVE Held(q)' \/ pc'[Closer(q)] = "done"
        <3>1. Held(q) \/ pc[Closer(q)] = "done"
            BY <2>4, <2>6
        <3>2. pc'[Closer(q)] = pc[Closer(q)]
            BY <2>1, <2>3, ThreadNames
        <3>3. Held(q) => Held(q)'
            <4>1. \A u \in Threads : pc[u] = "enterSector" => pc'[u] = "enterSector"
                BY <2>1, <2>5
            <4>2. UNCHANGED listed
                BY <2>1
            <4> HIDE DEF TypeOK, RolesKept, AlwaysHeld
            <4> QED
                BY <3>2, <4>1, <4>2
        <3> QED
            BY <3>1, <3>2, <3>3
    <2> QED
        BY <2>6
<1>2. ASSUME NEW t \in Threads, BeginLogin(t) PROVE AlwaysHeld'
    BY <1>2, ThreadNames DEF BeginLogin, At, Goto, Begin, body
<1>3. ASSUME NEW t \in Threads, BeginMove(t) PROVE AlwaysHeld'
    BY <1>3, ThreadNames DEF BeginMove, At, Goto, Begin, body
<1>4. ASSUME NEW t \in Threads, BeginTeleport(t) PROVE AlwaysHeld'
    BY <1>4, ThreadNames DEF BeginTeleport, At, Goto, Begin, body
<1>5. ASSUME NEW t \in Threads, MoveRefused(t) PROVE AlwaysHeld'
    BY <1>5, ThreadNames DEF MoveRefused, At, Goto, body, history
<1>6. ASSUME NEW t \in Threads, BeginRevive(t) PROVE AlwaysHeld'
    BY <1>6, ThreadNames DEF BeginRevive, At, Goto, Begin, body
<1>7. ASSUME NEW t \in Threads, BeginLeave(t) PROVE AlwaysHeld'
    BY <1>7, ThreadNames DEF BeginLeave, At, Goto, Begin, body
<1>8. ASSUME NEW t \in Threads, LeaveSector(t) PROVE AlwaysHeld'
    <2>1. /\ pc[t] = "leaveSector"
          /\ pc' = [pc EXCEPT ![t] = IF kind[t] = "leave" THEN "erase" ELSE "enterSector"]
        BY <1>8 DEF LeaveSector, At, Goto
    <2>2. \A q \in Players \ {Owner(t)} : \A s \in Sectors : q \in listed[s] => q \in listed'[s]
        BY <1>8 DEF LeaveSector
    <2>3. t[2] = "closer" => t = Closer(Owner(t))
        BY DEF Threads, Owner, Closer
    <2>4. kind[t] = "leave" => t = Closer(Owner(t))
        BY <2>3
    <2>5. \A u \in Threads : u # t => pc'[u] = pc[u]
        BY <2>1
    <2>6. ASSUME NEW q \in Players, pc'[Session(q)] # "off" PROVE Held(q)' \/ pc'[Closer(q)] = "done"
        <3>1. pc[Session(q)] # "off"
            BY <2>1, <2>5, <2>6, ThreadNames
        <3>2. Held(q) \/ pc[Closer(q)] = "done"
            BY <3>1
        <3>3. CASE q = Owner(t)
            BY <2>1, <2>4, <3>3
        <3>4. CASE q # Owner(t)
            <4>1. t # Closer(q)
                BY <3>4, ThreadNames
            <4> QED
                BY <2>1, <2>2, <2>5, <3>2, <3>4, <4>1, ThreadNames
        <3> QED
            BY <3>3, <3>4
    <2> QED
        BY <2>6
<1>9. ASSUME NEW t \in Threads, EnterSector(t) PROVE AlwaysHeld'
    <2>1. SectorOf(to[t]) \in Sectors
        BY SectorsExist
    <2>2. Owner(t) \in listed'[SectorOf(to[t])]
        BY <1>9, <2>1 DEF EnterSector
    <2>3. \A s \in Sectors : listed[s] \subseteq listed'[s]
        BY <1>9, <2>1 DEF EnterSector
    <2>4. pc' = [pc EXCEPT ![t] = "copy"] /\ pc[t] = "enterSector"
        BY <1>9 DEF EnterSector, At, Goto
    <2> QED
        BY <2>1, <2>2, <2>3, <2>4, ThreadNames
<1>10. ASSUME NEW t \in Threads, AddServerObject(t) PROVE AlwaysHeld'
    BY <1>10, ThreadNames DEF AddServerObject, At, Goto, body, local
<1>11. ASSUME NEW t \in Threads, RemoveServerObject(t) PROVE AlwaysHeld'
    <2>1. pc[t] = "erase" /\ pc' = [pc EXCEPT ![t] = "done"] /\ UNCHANGED listed
        BY <1>11 DEF RemoveServerObject, At, Goto
    <2>2. t[2] = "closer"
        BY <2>1
    <2>3. \A q \in Players : Session(q) # t
        BY <2>2, ThreadNames
    <2> QED
        BY <2>1, <2>3, ThreadNames
<1>12. ASSUME NEW t \in Threads, Return(t) PROVE AlwaysHeld'
    <2>1. pc[t] = "done" /\ t[2] # "closer" /\ pc' = [pc EXCEPT ![t] = "idle"] /\ UNCHANGED listed
        BY <1>12 DEF Return, At, Goto, body
    <2>2. \A q \in Players : Closer(q) # t
        BY <2>1, ThreadNames
    <2>3. \A u \in Threads : u # t => pc'[u] = pc[u]
        BY <2>1
    <2>4. \A q \in Players : pc'[Session(q)] # "off" => pc[Session(q)] # "off"
        BY <2>1, <2>3, ThreadNames
    <2>5. ASSUME NEW q \in Players, pc'[Session(q)] # "off" PROVE Held(q)' \/ pc'[Closer(q)] = "done"
        <3>1. Held(q) \/ pc[Closer(q)] = "done"
            BY <2>4, <2>5
        <3>2. pc'[Closer(q)] = pc[Closer(q)]
            BY <2>2, <2>3, ThreadNames
        <3>3. Held(q) => Held(q)'
            <4>1. \A u \in Threads : pc[u] = "enterSector" => pc'[u] = "enterSector"
                BY <2>1, <2>3
            <4>2. UNCHANGED listed
                BY <2>1
            <4> HIDE DEF TypeOK, RolesKept, AlwaysHeld
            <4> QED
                BY <3>2, <4>1, <4>2
        <3> QED
            BY <3>1, <3>2, <3>3
    <2> QED
        BY <2>5
<1>13. ASSUME NEW p \in Players, Die(p) PROVE AlwaysHeld'
    BY <1>13, ThreadNames DEF Die, local
<1>14. CASE UNCHANGED vars
    BY <1>14, ThreadNames DEF vars, body, local
<1> HIDE DEF TypeOK, RolesKept, AlwaysHeld, Held
<1> QED
    BY Walks, <1>1, <1>2, <1>3, <1>4, <1>5, <1>6, <1>7, <1>8, <1>9, <1>10, <1>11, <1>12, <1>13, <1>14
    DEF Next, Step

LEMMA CustodyInit == Init => Custody
<1> SUFFICES ASSUME Init PROVE Custody
    OBVIOUS
<1>1. TypeOK
    BY TypingInit
<1>2. \A t \in Threads :
        /\ pc[t] \in {"off", "idle"} /\ kind[t] = "none"
        /\ pc[t] = "off" <=> t[2] = "session"
    BY DEF Init
<1>3. RolesKept
    BY <1>2 DEF RolesKept
<1>4. \A p \in Players : pc[Session(p)] = "off" /\ pc[Closer(p)] = "idle" /\ ~inGame[p]
    BY <1>2, ThreadNames DEF Init
<1> QED
    BY <1>1, <1>3, <1>4 DEF Custody, Once, AlwaysHeld

LEMMA CustodyImpliesNeverLost == Custody => NeverLost
<1> SUFFICES ASSUME Custody, NEW p \in Players, inGame[p], Idle(p)
             PROVE  \E s \in Sectors : p \in listed[s]
    BY DEF NeverLost
<1>1. pc[Session(p)] # "off" /\ pc[Closer(p)] # "done"
    BY DEF Custody, Once
<1>2. Held(p)
    BY <1>1 DEF Custody, AlwaysHeld
<1>3. \A t \in Threads : Owner(t) = p => pc[t] \notin {"enterSector", "erase"}
    BY ThreadParts DEF Idle, Busy
<1> QED
    BY <1>2, <1>3, ThreadNames DEF Held

\* A player in the world for whom no handler runs is listed in a sector,
\* however his moves, teleports and revivals overlap.
THEOREM NobodyIsLost == Spec => []NeverLost
<1>1. Init => Custody
    BY CustodyInit
<1>2. Custody /\ [Next]_vars => Custody'
    BY TypingStep, RolesStep, OnceStep, HeldStep DEF Custody
<1>3. Custody => NeverLost
    BY CustodyImpliesNeverLost
<1> QED
    BY <1>1, <1>2, <1>3, PTL DEF Spec

-----------------------------------------------------------------------------
(***************************************************************************)
(* Handlers that run undisturbed.                                          *)
(***************************************************************************)

\* Who is undisturbed is alone.
Alone == \A t, u \in Threads : quiet[t] /\ Busy(u) => u = t

LEMMA AloneInit == Init => Alone
BY DEF Init, Alone, Busy

LEMMA AloneStep == TypeOK /\ Alone /\ [Next]_vars => Alone'
<1> SUFFICES ASSUME TypeOK, Alone, [Next]_vars PROVE Alone'
    OBVIOUS
<1> USE DEF TypeOK, Alone, Busy
<1>1. ASSUME NEW t \in Threads, NEW k, NEW point, Begin(t, k, point) PROVE Alone'
    <2>1. quiet' = [u \in Threads |-> IF u = t THEN \A v \in Threads : ~Busy(v) ELSE FALSE]
        BY <1>1 DEF Begin
    <2>2. pc' = [pc EXCEPT ![t] = point]
        BY <1>1 DEF Begin, Goto
    <2> QED
        BY <2>1, <2>2
<1>2. ASSUME NEW t \in Threads, UNCHANGED quiet, Busy(t) \/ pc'[t] = "idle",
             \A u \in Threads : u # t => pc'[u] = pc[u]
      PROVE  Alone'
    BY <1>2
<1>3. UNCHANGED <<quiet, pc>> => Alone'
    OBVIOUS
<1>4. ASSUME NEW t \in Threads, Step(t)
      PROVE  /\ UNCHANGED quiet /\ (Busy(t) \/ pc'[t] = "idle")
             /\ \A u \in Threads : u # t => pc'[u] = pc[u]
    <2>1. ASSUME Walk(t) PROVE Busy(t) /\ \A u \in Threads : u # t => pc'[u] = pc[u]
        BY <2>1 DEF Walk, Inside
    <2>2. UNCHANGED quiet
        BY <1>4 DEF Step, history, MoveTo, MoveRefused, TeleportTo, ReviveFrom, ReviveTo,
           Place, SetStartPos, Aim, LeaveSector, EnterSector, CopyView, ScanSector, ScanDone, Look,
           LookDone, Meet, MeetDone, Tell, Own, Lose, Lost, LoseDone, AddServerObject,
           RemoveServerObject, Return
    <2>3. CASE MoveRefused(t) \/ LeaveSector(t) \/ EnterSector(t) \/ AddServerObject(t)
               \/ RemoveServerObject(t) \/ Return(t)
        BY <2>2, <2>3 DEF MoveRefused, LeaveSector, EnterSector, AddServerObject,
           RemoveServerObject, Return, At, Goto
    <2> HIDE DEF TypeOK, Busy, Alone
    <2> QED
        BY <1>4, Walks, <2>1, <2>2, <2>3 DEF Step
<1>5. ASSUME NEW p \in Players, Die(p) PROVE UNCHANGED <<quiet, pc>>
    BY <1>5 DEF Die
<1>6. UNCHANGED vars => UNCHANGED <<quiet, pc>>
    BY DEF vars, history
<1> HIDE DEF TypeOK, Busy, Alone
<1>7. ASSUME NEW t \in Threads, BeginLogin(t) \/ BeginMove(t) \/ BeginTeleport(t) \/ BeginRevive(t) \/ BeginLeave(t)
      PROVE  Alone'
    BY <1>1, <1>7 DEF BeginLogin, BeginMove, BeginTeleport, BeginRevive, BeginLeave
<1> QED
    BY <1>2, <1>3, <1>4, <1>5, <1>6, <1>7 DEF Next

Reviver(p) == <<p, "reviver">>

\* His login has not entered him into the table yet.
NotYet(p) == pc[Session(p)] = "off" \/ InLogin(p)

\* Until then nobody else knows of him: he is nobody's neighbour, and as long
\* as his login has not looked around the view lists do not have him.
Strangers ==
    \A p \in Players : NotYet(p) =>
        /\ pc[Reviver(p)] = "idle"
        /\ pc[Session(p)] \in {"off", "enterSector", "copy", "scan", "look", "tell", "own", "insert"}
        /\ \A t \in Threads : p \notin near[t] /\ (pc[t] \in {"tell", "own", "lost"} => cur[t] # p)
        /\ pc[Session(p)] \in {"off", "enterSector"} => to[Session(p)] = pos[p]
        /\ pc[Session(p)] \in {"off", "enterSector", "copy"} =>
                view[p] = {} /\ \A q \in Players : p \notin view[q]

LEMMA ThreadsOf ==
    ASSUME NEW t \in Threads
    PROVE  t = Session(Owner(t)) \/ t = Reviver(Owner(t)) \/ t = Closer(Owner(t))
BY DEF Threads, Roles, Session, Reviver, Closer, Owner

LEMMA ReviverName ==
    ASSUME NEW p \in Players
    PROVE  /\ Reviver(p) \in Threads /\ Owner(Reviver(p)) = p
           /\ Reviver(p) # Session(p) /\ Reviver(p) # Closer(p) /\ Session(p) # Closer(p)
           /\ Reviver(p)[2] = "reviver"
BY DEF Threads, Roles, Session, Reviver, Closer, Owner

LEMMA StrangersInit == Init => Strangers
BY ThreadNames, ReviverName DEF Init, Strangers, NotYet, InLogin

LEMMA NotYetBefore ==
    ASSUME TypeOK, RolesKept, [Next]_vars, NEW p \in Players, NotYet(p)'
    PROVE  NotYet(p)
<1> USE ThreadNames DEF TypeOK, NotYet, InLogin, At, Goto, Begin
<1>1. ASSUME NEW t \in Threads, Walk(t) PROVE NotYet(p)
    BY <1>1 DEF Walk, Inside
<1>2. ASSUME NEW t \in Threads, BeginLogin(t) PROVE NotYet(p)
    BY <1>2 DEF BeginLogin, local, body
<1>3. ASSUME NEW t \in Threads, BeginMove(t) PROVE NotYet(p)
    BY <1>3 DEF BeginMove, local, body
<1>4. ASSUME NEW t \in Threads, BeginTeleport(t) PROVE NotYet(p)
    BY <1>4 DEF BeginTeleport, local, body
<1>5. ASSUME NEW t \in Threads, BeginRevive(t) PROVE NotYet(p)
    BY <1>5 DEF BeginRevive, local, body
<1>6. ASSUME NEW t \in Threads, BeginLeave(t) PROVE NotYet(p)
    BY <1>6 DEF BeginLeave, local, body
<1>7. ASSUME NEW t \in Threads, MoveRefused(t) PROVE NotYet(p)
    BY <1>7 DEF MoveRefused, local, body
<1>8. ASSUME NEW t \in Threads, LeaveSector(t) PROVE NotYet(p)
    BY <1>8 DEF LeaveSector, local, body
<1>9. ASSUME NEW t \in Threads, EnterSector(t) PROVE NotYet(p)
    BY <1>9 DEF EnterSector, local, body
<1>10. ASSUME NEW t \in Threads, AddServerObject(t) PROVE NotYet(p)
    BY <1>10 DEF AddServerObject, local, body
<1>11. ASSUME NEW t \in Threads, RemoveServerObject(t) PROVE NotYet(p)
    BY <1>11 DEF RemoveServerObject, local, body
<1>12. ASSUME NEW t \in Threads, Return(t) PROVE NotYet(p)
    BY <1>12 DEF Return, local, body
<1>13. ASSUME NEW q \in Players, Die(q) PROVE NotYet(p)
    BY <1>13 DEF Die, local
<1>14. CASE UNCHANGED vars
    BY <1>14 DEF vars, local
<1> HIDE DEF TypeOK, NotYet, InLogin, At, Goto, Begin
<1> QED
    BY Walks, <1>1, <1>2, <1>3, <1>4, <1>5, <1>6, <1>7, <1>8, <1>9, <1>10, <1>11, <1>12, <1>13, <1>14
    DEF Next, Step

LEMMA StrangersStep == TypeOK /\ RolesKept /\ Once /\ Strangers /\ [Next]_vars => Strangers'
<1> SUFFICES ASSUME TypeOK, RolesKept, Once, Strangers, [Next]_vars, NEW p \in Players, NotYet(p)'
             PROVE  /\ pc'[Reviver(p)] = "idle"
                    /\ pc'[Session(p)] \in {"off", "enterSector", "copy", "scan", "look", "tell", "own", "insert"}
                    /\ \A u \in Threads : p \notin near'[u] /\ (pc'[u] \in {"tell", "own", "lost"} => cur'[u] # p)
                    /\ pc'[Session(p)] \in {"off", "enterSector"} => to'[Session(p)] = pos'[p]
                    /\ pc'[Session(p)] \in {"off", "enterSector", "copy"} =>
                            view'[p] = {} /\ \A q \in Players : p \notin view'[q]
    BY DEF Strangers
<1> DEFINE Kept == /\ pc'[Reviver(p)] = "idle"
                   /\ pc'[Session(p)] \in {"off", "enterSector", "copy", "scan", "look", "tell", "own", "insert"}
                   /\ \A u \in Threads : p \notin near'[u] /\ (pc'[u] \in {"tell", "own", "lost"} => cur'[u] # p)
                   /\ pc'[Session(p)] \in {"off", "enterSector"} => to'[Session(p)] = pos'[p]
                   /\ pc'[Session(p)] \in {"off", "enterSector", "copy"} =>
                           view'[p] = {} /\ \A q \in Players : p \notin view'[q]
<1>a. /\ ~inGame[p] /\ pc[Closer(p)] = "idle" /\ pc[Reviver(p)] = "idle"
      /\ pc[Session(p)] \in {"off", "enterSector", "copy", "scan", "look", "tell", "own", "insert"}
      /\ pc[Session(p)] # "off" => kind[Session(p)] = "login"
      /\ \A u \in Threads : p \notin near[u] /\ (pc[u] \in {"tell", "own", "lost"} => cur[u] # p)
      /\ pc[Session(p)] \in {"off", "enterSector"} => to[Session(p)] = pos[p]
      /\ pc[Session(p)] \in {"off", "enterSector", "copy"} =>
              view[p] = {} /\ \A q \in Players : p \notin view[q]
    BY NotYetBefore DEF Strangers, Once, NotYet, InLogin
<1>b. \A t \in Threads : Owner(t) = p => t \in {Session(p), Reviver(p), Closer(p)}
    BY ThreadsOf
<1>c. /\ Session(p) \in Threads /\ Reviver(p) \in Threads /\ Closer(p) \in Threads
      /\ Reviver(p) # Session(p) /\ Reviver(p) # Closer(p) /\ Session(p) # Closer(p)
      /\ Session(p)[2] = "session" /\ Reviver(p)[2] = "reviver"
      /\ Owner(Session(p)) = p /\ Owner(Reviver(p)) = p
      /\ \A t \in Threads : t[2] = "closer" => t = Closer(Owner(t))
    BY ThreadNames, ReviverName
<1> USE DEF TypeOK, At, Goto, Begin, body, local, history
<1>1. ASSUME NEW t \in Threads, BeginLogin(t) PROVE Kept
    BY <1>a, <1>b, <1>c, <1>1 DEF BeginLogin
<1>2. ASSUME NEW t \in Threads, BeginMove(t) PROVE Kept
    BY <1>a, <1>b, <1>c, <1>2 DEF BeginMove
<1>3. ASSUME NEW t \in Threads, BeginTeleport(t) PROVE Kept
    BY <1>a, <1>b, <1>c, <1>3 DEF BeginTeleport
<1>4. ASSUME NEW t \in Threads, BeginRevive(t) PROVE Kept
    BY <1>a, <1>b, <1>c, <1>4 DEF BeginRevive
<1>5. ASSUME NEW t \in Threads, BeginLeave(t) PROVE Kept
    BY <1>a, <1>b, <1>c, <1>5 DEF BeginLeave
<1>6. ASSUME NEW t \in Threads, MoveTo(t) PROVE Kept
    BY <1>a, <1>b, <1>c, <1>6 DEF MoveTo
<1>7. ASSUME NEW t \in Threads, MoveRefused(t) PROVE Kept
    BY <1>a, <1>b, <1>c, <1>7 DEF MoveRefused
<1>8. ASSUME NEW t \in Threads, TeleportTo(t) PROVE Kept
    BY <1>a, <1>b, <1>c, <1>8 DEF TeleportTo
<1>9. ASSUME NEW t \in Threads, ReviveFrom(t) PROVE Kept
    BY <1>a, <1>b, <1>c, <1>9 DEF ReviveFrom
<1>10. ASSUME NEW t \in Threads, ReviveTo(t) PROVE Kept
    BY <1>a, <1>b, <1>c, <1>10 DEF ReviveTo
<1>11. ASSUME NEW t \in Threads, Place(t) PROVE Kept
    BY <1>a, <1>b, <1>c, <1>11 DEF Place
<1>12. ASSUME NEW t \in Threads, SetStartPos(t) PROVE Kept
    BY <1>a, <1>b, <1>c, <1>12 DEF SetStartPos
<1>13. ASSUME NEW t \in Threads, Aim(t) PROVE Kept
    BY <1>a, <1>b, <1>c, <1>13 DEF Aim
<1>14. ASSUME NEW t \in Threads, LeaveSector(t) PROVE Kept
    BY <1>a, <1>b, <1>c, <1>14 DEF LeaveSector
<1>15. ASSUME NEW t \in Threads, EnterSector(t) PROVE Kept
    BY <1>a, <1>b, <1>c, <1>15 DEF EnterSector
<1>16. ASSUME NEW t \in Threads, CopyView(t) PROVE Kept
    BY <1>a, <1>b, <1>c, <1>16 DEF CopyView
<1>17. ASSUME NEW t \in Threads, ScanSector(t) PROVE Kept
    BY <1>a, <1>b, <1>c, <1>17 DEF ScanSector
<1>18. ASSUME NEW t \in Threads, ScanDone(t) PROVE Kept
    BY <1>a, <1>b, <1>c, <1>18 DEF ScanDone
<1>19. ASSUME NEW t \in Threads, Look(t) PROVE Kept
    BY <1>a, <1>b, <1>c, <1>19 DEF Look
<1>20. ASSUME NEW t \in Threads, LookDone(t) PROVE Kept
    BY <1>a, <1>b, <1>c, <1>20 DEF LookDone
<1>21. ASSUME NEW t \in Threads, Meet(t) PROVE Kept
    BY <1>a, <1>b, <1>c, <1>21 DEF Meet
<1>22. ASSUME NEW t \in Threads, MeetDone(t) PROVE Kept
    BY <1>a, <1>b, <1>c, <1>22 DEF MeetDone
<1>23. ASSUME NEW t \in Threads, Tell(t) PROVE Kept
    BY <1>a, <1>b, <1>c, <1>23 DEF Tell, IdTold
<1>24. ASSUME NEW t \in Threads, Own(t) PROVE Kept
    BY <1>a, <1>b, <1>c, <1>24 DEF Own
<1>25. ASSUME NEW t \in Threads, Lose(t) PROVE Kept
    <2>1. PICK o \in cand[t] :
            IF inGame[o]
            THEN /\ view' = [view EXCEPT ![Owner(t)] = @ \ {o}]
                 /\ cur' = [cur EXCEPT ![t] = o]
                 /\ pc' = [pc EXCEPT ![t] = "lost"]
            ELSE UNCHANGED <<view, cur, pc>>
        BY <1>25 DEF Lose
    <2>2. pc[t] = "lose" /\ o \in Players /\ UNCHANGED <<pos, near, to, kind>>
        BY <1>25, <2>1 DEF Lose
    <2>3. t # Session(p) /\ t # Reviver(p)
        BY <1>a, <2>2
    <2>4. CASE inGame[o]
        <3>1. pc'[Reviver(p)] = pc[Reviver(p)] /\ pc'[Session(p)] = pc[Session(p)] /\ to' = to
            BY <1>c, <2>1, <2>2, <2>3, <2>4
        <3>2. o # p /\ cur' = [cur EXCEPT ![t] = o] /\ pc' = [pc EXCEPT ![t] = "lost"]
            BY <1>a, <2>1, <2>4
        <3>3. \A u \in Threads : p \notin near'[u] /\ (pc'[u] \in {"tell", "own", "lost"} => cur'[u] # p)
            BY <1>a, <2>2, <3>2
        <3>4. \A q \in Players : view'[q] \subseteq view[q]
            BY <2>1, <2>4
        <3> QED
            BY <1>a, <2>2, <3>1, <3>3, <3>4
    <2>5. CASE ~inGame[o]
        BY <1>a, <2>1, <2>2, <2>5
    <2> QED
        BY <2>4, <2>5
<1>26. ASSUME NEW t \in Threads, Lost(t) PROVE Kept
    BY <1>a, <1>b, <1>c, <1>26 DEF Lost, IdTold
<1>27. ASSUME NEW t \in Threads, LoseDone(t) PROVE Kept
    BY <1>a, <1>b, <1>c, <1>27 DEF LoseDone
<1>28. ASSUME NEW t \in Threads, AddServerObject(t) PROVE Kept
    BY <1>a, <1>b, <1>c, <1>28 DEF AddServerObject, RolesKept, NotYet, InLogin
<1>29. ASSUME NEW t \in Threads, RemoveServerObject(t) PROVE Kept
    BY <1>a, <1>b, <1>c, <1>29 DEF RemoveServerObject
<1>30. ASSUME NEW t \in Threads, Return(t) PROVE Kept
    BY <1>a, <1>b, <1>c, <1>30 DEF Return
<1>31. ASSUME NEW q \in Players, Die(q) PROVE Kept
    BY <1>a, <1>31 DEF Die
<1>32. ASSUME UNCHANGED vars PROVE Kept
    BY <1>a, <1>32 DEF vars
<1> HIDE DEF TypeOK, At, Goto, Begin, Kept, body, local, history
<1>33. Kept
    BY <1>1, <1>2, <1>3, <1>4, <1>5, <1>6, <1>7, <1>8, <1>9, <1>10, <1>11, <1>12, <1>13, <1>14, <1>15, <1>16, <1>17, <1>18, <1>19, <1>20, <1>21, <1>22, <1>23, <1>24, <1>25, <1>26, <1>27, <1>28, <1>29, <1>30, <1>31, <1>32
    DEF Next, Step
<1> QED
    BY <1>33 DEF Kept

-----------------------------------------------------------------------------
\* Where a handler that looks around is.
Round == {"scan", "look", "meet", "tell", "own", "lose", "lost", "insert", "done"}

Looking(t) == pc[t] = "look" \/ (kind[t] = "login" /\ pc[t] \in {"tell", "own"})

\* Whom its player can see in the sectors it has looked through.
Seen(t) ==
    {o \in Others(Owner(t)) :
        /\ inGame[o]
        /\ CanSee(pos[Owner(t)], pos[o])
        /\ \E s \in Neighbours(pos[Owner(t)]) \ todo[t] : o \in listed[s]}

\* nearList holds those, up to the ones still to look at.
Search(t) ==
    /\ todo[t] \subseteq Neighbours(pos[Owner(t)])
    /\ near[t] \subseteq Seen(t)
    /\ Seen(t) \subseteq near[t] \union (IF Looking(t) THEN cand[t] ELSE {})
    /\ Looking(t) => \A o \in cand[t] :
            o # Owner(t) /\ \E s \in Neighbours(pos[Owner(t)]) \ todo[t] : o \in listed[s]
    /\ pc[t] = "scan" \/ Looking(t) \/ todo[t] = {}

\* Seen, but not in the player's own list yet; or without him in theirs.
Pending(t) == {o \in {cur[t]} : pc[t] \in {"tell", "own"}}
Untold(t) == {o \in {cur[t]} : pc[t] = "tell"}

\* A login makes both lists as it goes.
LoginLists(t) ==
    kind[t] = "login" =>
        /\ old[t] = {}
        /\ view[Owner(t)] \subseteq near[t]
        /\ near[t] \subseteq view[Owner(t)] \union Pending(t)
        /\ \A o \in Others(Owner(t)) : Owner(t) \in view[o] => o \in near[t]
        /\ \A o \in near[t] \ Untold(t) : Owner(t) \in view[o]

\* The others first meet whom they found, and then drop whom they lost.
OtherLists(t) ==
    kind[t] # "login" =>
        /\ pc[t] \in {"scan", "look"} => old[t] = view[Owner(t)]
        /\ pc[t] \in {"meet", "tell", "own"} =>
            /\ cand[t] \subseteq near[t]
            /\ old[t] \subseteq view[Owner(t)]
            /\ view[Owner(t)] \subseteq old[t] \union near[t]
            /\ near[t] \subseteq view[Owner(t)] \union cand[t] \union Pending(t)
            /\ kind[t] # "teleport" =>
                    \A o \in near[t] : o \in cand[t] \/ o \in Untold(t) \/ Owner(t) \in view[o]
        /\ pc[t] \in {"lose", "lost", "done"} =>
            /\ near[t] \subseteq view[Owner(t)]
            /\ kind[t] # "teleport" => \A o \in near[t] : Owner(t) \in view[o]
        /\ pc[t] \in {"lose", "lost"} =>
            /\ \A o \in cand[t] : o \notin near[t]
            /\ \A o \in view[Owner(t)] : o \in near[t] \/ o \in cand[t] \/ ~inGame[o]
        /\ pc[t] = "lost" => cur[t] \notin near[t]
        /\ pc[t] = "done" => \A o \in view[Owner(t)] : o \in near[t] \/ ~inGame[o]

Exact(t) ==
    /\ Search(t)
    /\ pc[t] \in {"tell", "own"} => cur[t] \in near[t]
    /\ LoginLists(t)
    /\ OtherLists(t)

QuietRound ==
    \A t \in Threads : quiet[t] /\ kind[t] # "leave" /\ pc[t] \in Round => Exact(t)

\* A login does not walk through nearList again.
LoginPoints == \A t \in Threads : kind[t] = "login" => pc[t] \notin {"meet", "lose", "lost"}

LEMMA StrangersPoints == RolesKept /\ Strangers => LoginPoints
<1> SUFFICES ASSUME RolesKept, Strangers, NEW t \in Threads, kind[t] = "login", pc[t] # "done"
             PROVE  pc[t] \notin {"meet", "lose", "lost"}
    BY DEF LoginPoints
<1>1. t = Session(Owner(t)) /\ Owner(t) \in Players
    BY ThreadNames DEF RolesKept
<1>2. NotYet(Owner(t))
    BY <1>1 DEF NotYet, InLogin
<1> QED
    BY <1>1, <1>2 DEF Strangers

LEMMA SeenStays ==
    ASSUME NEW t \in Threads, UNCHANGED <<pos, listed>>, todo'[t] = todo[t],
           \A o \in Others(Owner(t)) : inGame'[o] = inGame[o]
    PROVE  Seen(t)' = Seen(t)
BY DEF Seen

LEMMA SeenOthers ==
    ASSUME NEW t \in Threads
    PROVE  /\ Owner(t) \in Players /\ Owner(t) \notin Seen(t)
           /\ \A o \in Seen(t) : o \in Players /\ o # Owner(t) /\ inGame[o]
BY ThreadParts DEF Seen, Others

\* A handler that is not disturbed finds what it left.
Still(t) ==
    /\ quiet[t]
    /\ UNCHANGED <<pos, inGame, listed, view>>
    /\ pc'[t] = pc[t] /\ kind'[t] = kind[t] /\ old'[t] = old[t] /\ near'[t] = near[t]
    /\ todo'[t] = todo[t] /\ cand'[t] = cand[t] /\ cur'[t] = cur[t]

LEMMA Undisturbed ==
    ASSUME TypeOK, Alone, [Next]_vars, NEW t \in Threads, quiet'[t], pc'[t] \in Round
    PROVE  (quiet[t] /\ Step(t)) \/ Still(t)
<1> USE DEF TypeOK
<1>1. ASSUME NEW u \in Threads, NEW k, NEW point, Begin(u, k, point),
             point \in {"origin", "enterSector", "leaveSector"}
      PROVE  FALSE
    BY <1>1 DEF Begin, Goto, Round
<1>2. ASSUME NEW u \in Threads,
             BeginLogin(u) \/ BeginMove(u) \/ BeginTeleport(u) \/ BeginRevive(u) \/ BeginLeave(u)
      PROVE  FALSE
    BY <1>1, <1>2 DEF BeginLogin, BeginMove, BeginTeleport, BeginRevive, BeginLeave
<1>3. ASSUME NEW u \in Threads, Step(u) PROVE quiet[t] /\ (u = t \/ Return(u))
    <2>1. UNCHANGED quiet
        BY <1>3 DEF Step, history, MoveTo, MoveRefused, TeleportTo, ReviveFrom, ReviveTo,
           Place, SetStartPos, Aim, LeaveSector, EnterSector, CopyView, ScanSector, ScanDone, Look,
           LookDone, Meet, MeetDone, Tell, Own, Lose, Lost, LoseDone, AddServerObject,
           RemoveServerObject, Return
    <2>2. Return(u) \/ Busy(u)
        <3>1. Walk(u) => Busy(u)
            BY DEF Walk, Inside, Busy
        <3>2. MoveRefused(u) \/ LeaveSector(u) \/ EnterSector(u) \/ AddServerObject(u) \/ RemoveServerObject(u)
              => Busy(u)
            BY DEF MoveRefused, LeaveSector, EnterSector, AddServerObject, RemoveServerObject, At, Busy
        <3> HIDE DEF TypeOK
        <3> QED
            BY <1>3, Walks, <3>1, <3>2 DEF Step
    <2> QED
        BY <2>1, <2>2 DEF Alone
<1>4. ASSUME NEW u \in Threads, Return(u), u # t, quiet[t] PROVE Still(t)
    BY <1>4 DEF Return, Goto, Still, body, history
<1>5. ASSUME NEW p \in Players, Die(p) PROVE Still(t)
    BY <1>5 DEF Die, Still, local
<1>6. ASSUME UNCHANGED vars PROVE Still(t)
    BY <1>6 DEF vars, Still, local, body, history
<1> HIDE DEF TypeOK
<1> QED
    BY <1>2, <1>3, <1>4, <1>5, <1>6 DEF Next

LEMMA ExactStays == ASSUME NEW t \in Threads, Exact(t), Still(t) PROVE Exact(t)'
<1>1. Seen(t)' = Seen(t)
    BY SeenStays DEF Still
<1> QED
    BY <1>1 DEF Still, Exact, Search, Looking, Pending, Untold, LoginLists, OtherLists

-----------------------------------------------------------------------------
(***************************************************************************)
(* What the steps of a round do to it.                                     *)
(***************************************************************************)

\* The player a login works for is a stranger until it looks around.
LEMMA ExactCopyView ==
    ASSUME TypeOK, RolesKept, Strangers, NEW t \in Threads, CopyView(t)
    PROVE  Exact(t)'
<1> DEFINE p == Owner(t)
<1>1. /\ pc[t] = "copy" /\ pc'[t] = "scan" /\ kind' = kind /\ near'[t] = {}
      /\ todo'[t] = Neighbours(pos[p]) /\ old'[t] = IF kind[t] = "login" THEN {} ELSE view[p]
      /\ UNCHANGED <<pos, inGame, listed, view, cand, cur>>
    BY DEF CopyView, TypeOK, At, Goto, body
<1>2. Seen(t)' = {}
    BY <1>1 DEF Seen
<1>3. kind[t] = "login" => view[p] = {} /\ \A q \in Players : p \notin view[q]
    <2>1. SUFFICES ASSUME kind[t] = "login" PROVE NotYet(p) /\ pc[Session(p)] = "copy"
        BY ThreadNames DEF Strangers
    <2>2. t = Session(p)
        BY <2>1, ThreadNames DEF RolesKept
    <2> QED
        BY <1>1, <2>1, <2>2 DEF NotYet, InLogin
<1> HIDE DEF p
<1>4. LoginLists(t)'
    BY <1>1, <1>3 DEF LoginLists, Pending, Untold, Others, p
<1>5. OtherLists(t)'
    BY <1>1 DEF OtherLists, p
<1>6. Search(t)'
    BY <1>1, <1>2 DEF Search, Looking, p
<1> QED
    BY <1>1, <1>4, <1>5, <1>6 DEF Exact

LEMMA ExactScanSector ==
    ASSUME TypeOK, NEW t \in Threads, Exact(t), ScanSector(t)
    PROVE  Exact(t)'
<1> DEFINE p == Owner(t)
           Around0 == Neighbours(pos[p])
<1>1. PICK s \in todo[t] :
        /\ todo' = [todo EXCEPT ![t] = @ \ {s}]
        /\ cand' = [cand EXCEPT ![t] = listed[s] \ {p}]
    BY DEF ScanSector
<1>2. /\ pc[t] = "scan" /\ pc'[t] = "look"
      /\ UNCHANGED <<pos, inGame, listed, view, kind, old, near, cur>>
    BY DEF ScanSector, TypeOK, At, Goto, body
<1>3. todo'[t] = todo[t] \ {s} /\ cand'[t] = listed[s] \ {p}
    BY <1>1 DEF TypeOK
<1>4. todo[t] \subseteq Around0 /\ Seen(t) \subseteq near[t] /\ near[t] \subseteq Seen(t)
    BY <1>2 DEF Exact, Search, Looking
<1>5. Around0 \ todo'[t] = (Around0 \ todo[t]) \union {s}
    BY <1>3, <1>4
<1>6. Seen(t) \subseteq Seen(t)' /\ Seen(t)' \subseteq Seen(t) \union cand'[t]
    BY <1>2, <1>3, <1>5 DEF Seen, Others
<1>7. \A o \in cand'[t] : o # p /\ \E z \in Around0 \ todo'[t] : o \in listed[z]
    BY <1>3, <1>5
<1>8. Search(t)'
    BY <1>2, <1>3, <1>4, <1>6, <1>7 DEF Search, Looking
<1> QED
    BY <1>2, <1>8 DEF Exact, LoginLists, OtherLists, Pending, Untold

LEMMA ExactScanDone ==
    ASSUME TypeOK, NEW t \in Threads, Exact(t), ScanDone(t)
    PROVE  Exact(t)'
<1>1. /\ pc[t] = "scan" /\ todo[t] = {} /\ pc'[t] = IF kind[t] = "login" THEN "insert" ELSE "meet"
      /\ cand'[t] = near[t]
      /\ UNCHANGED <<pos, inGame, listed, view, kind, old, near, todo, cur>>
    BY DEF ScanDone, TypeOK, At, Goto, body
<1>2. Seen(t)' = Seen(t)
    BY <1>1, SeenStays
<1>3. Search(t)'
    BY <1>1, <1>2 DEF Exact, Search, Looking
<1>4. LoginLists(t)'
    BY <1>1 DEF Exact, LoginLists, Pending, Untold
<1>5. OtherLists(t)'
    BY <1>1 DEF Exact, OtherLists, Pending, Untold
<1> QED
    BY <1>1, <1>3, <1>4, <1>5 DEF Exact

LEMMA ExactLook ==
    ASSUME TypeOK, NEW t \in Threads, Exact(t), Look(t)
    PROVE  Exact(t)'
<1> DEFINE p == Owner(t)
           Sees(o) == inGame[o] /\ CanSee(pos[p], pos[o])
<1>1. PICK o \in cand[t] :
        /\ cand' = [cand EXCEPT ![t] = @ \ {o}]
        /\ near' = [near EXCEPT ![t] = IF Sees(o) THEN @ \union {o} ELSE @]
        /\ IF Sees(o) /\ kind[t] = "login"
           THEN cur' = [cur EXCEPT ![t] = o] /\ pc' = [pc EXCEPT ![t] = "tell"]
           ELSE UNCHANGED <<cur, pc>>
    BY DEF Look, Goto
<1>2. pc[t] = "look" /\ UNCHANGED <<pos, inGame, listed, view, kind, old, todo>> /\ o \in Players
    BY <1>1 DEF Look, TypeOK, At, body
<1>3. Seen(t)' = Seen(t)
    BY <1>2, SeenStays
<1>4. /\ cand'[t] = cand[t] \ {o} /\ near'[t] = IF Sees(o) THEN near[t] \union {o} ELSE near[t]
      /\ Sees(o) /\ kind[t] = "login" => cur'[t] = o /\ pc'[t] = "tell"
      /\ ~(Sees(o) /\ kind[t] = "login") => cur'[t] = cur[t] /\ pc'[t] = "look"
    BY <1>1, <1>2 DEF TypeOK
<1>5. /\ todo[t] \subseteq Neighbours(pos[p])
      /\ near[t] \subseteq Seen(t) /\ Seen(t) \subseteq near[t] \union cand[t]
      /\ \A x \in cand[t] : x # p /\ \E s \in Neighbours(pos[p]) \ todo[t] : x \in listed[s]
    BY <1>2 DEF Exact, Search, Looking
<1>6. o \in Seen(t) <=> Sees(o)
    BY <1>2, <1>5 DEF Seen, Others
<1> HIDE DEF Sees
<1>7. Search(t)'
    BY <1>2, <1>3, <1>4, <1>5, <1>6 DEF Search, Looking
<1>8. kind[t] = "login" =>
        /\ old[t] = {} /\ view[p] \subseteq near[t] /\ near[t] \subseteq view[p]
        /\ \A x \in Others(p) : p \in view[x] => x \in near[t]
        /\ \A x \in near[t] : p \in view[x]
    BY <1>2 DEF Exact, LoginLists, Pending, Untold
<1> HIDE DEF p
<1>9. LoginLists(t)'
    BY <1>2, <1>4, <1>8 DEF LoginLists, Pending, Untold, p
<1>10. OtherLists(t)'
    BY <1>2, <1>4 DEF Exact, OtherLists
<1> QED
    BY <1>4, <1>7, <1>9, <1>10 DEF Exact

LEMMA ExactLookDone ==
    ASSUME TypeOK, NEW t \in Threads, Exact(t), LookDone(t)
    PROVE  Exact(t)'
<1>1. /\ pc[t] = "look" /\ cand[t] = {} /\ pc'[t] = "scan"
      /\ UNCHANGED <<pos, inGame, listed, view, kind, old, near, todo, cand, cur>>
    BY DEF LookDone, TypeOK, At, Goto, body, local
<1>2. Seen(t)' = Seen(t)
    BY <1>1, SeenStays
<1> QED
    BY <1>1, <1>2 DEF Exact, Search, Looking, LoginLists, OtherLists, Pending, Untold

LEMMA ExactMeet ==
    ASSUME TypeOK, NEW t \in Threads, kind[t] # "login", Exact(t), Meet(t)
    PROVE  Exact(t)'
<1>1. PICK o \in cand[t] :
        /\ cand' = [cand EXCEPT ![t] = @ \ {o}]
        /\ IF inGame[o] THEN cur' = [cur EXCEPT ![t] = o] /\ pc' = [pc EXCEPT ![t] = "tell"]
           ELSE UNCHANGED <<cur, pc>>
    BY DEF Meet, Goto
<1>2. pc[t] = "meet" /\ UNCHANGED <<pos, inGame, listed, view, kind, old, near, todo>>
    BY DEF Meet, At, body
<1>3. Seen(t)' = Seen(t)
    BY <1>2, SeenStays
<1>4. cand[t] \subseteq near[t] /\ near[t] \subseteq Seen(t)
    BY <1>2 DEF Exact, OtherLists, Search
<1>5. o \in near[t] /\ inGame[o]
    BY <1>4, SeenOthers
<1>6. cand'[t] = cand[t] \ {o} /\ cur'[t] = o /\ pc'[t] = "tell"
    BY <1>1, <1>5 DEF TypeOK
<1>7. Search(t)'
    BY <1>2, <1>3, <1>6 DEF Exact, Search, Looking
<1>8. OtherLists(t)'
    BY <1>2, <1>5, <1>6 DEF Exact, OtherLists, Pending, Untold
<1> QED
    BY <1>2, <1>5, <1>6, <1>7, <1>8 DEF Exact, LoginLists

LEMMA ExactMeetDone ==
    ASSUME TypeOK, NEW t \in Threads, kind[t] # "login", Exact(t), MeetDone(t)
    PROVE  Exact(t)'
<1>1. /\ pc[t] = "meet" /\ cand[t] = {} /\ pc'[t] = "lose" /\ cand'[t] = old[t] \ near[t]
      /\ UNCHANGED <<pos, inGame, listed, view, kind, old, near, todo, cur>>
    BY DEF MeetDone, TypeOK, At, Goto, body
<1>2. Seen(t)' = Seen(t)
    BY <1>1, SeenStays
<1>3. Search(t)'
    BY <1>1, <1>2 DEF Exact, Search, Looking
<1>4. OtherLists(t)'
    BY <1>1 DEF Exact, OtherLists, Pending, Untold
<1> QED
    BY <1>1, <1>3, <1>4 DEF Exact, LoginLists

LEMMA ExactTell ==
    ASSUME TypeOK, NEW t \in Threads, Exact(t), Tell(t)
    PROVE  Exact(t)'
<1> DEFINE p == Owner(t)
           o == cur[t]
<1>1. /\ pc[t] = "tell" /\ pc'[t] = "own"
      /\ view' = [view EXCEPT ![o] = @ \union {IdTold(t, o)}]
      /\ UNCHANGED <<pos, inGame, listed, kind, old, near, todo, cand, cur>>
    BY DEF Tell, TypeOK, At, Goto, body, local
<1>2. Seen(t)' = Seen(t)
    BY <1>1, SeenStays
<1>3. o \in near[t] /\ near[t] \subseteq Seen(t)
    BY <1>1 DEF Exact, Search
<1>4. p \in Players /\ o \in Players /\ o # p /\ \A x \in near[t] : x \in Players /\ x # p
    BY <1>3, SeenOthers
<1>5. view'[p] = view[p] /\ \A x \in Players : x # o => view'[x] = view[x]
    BY <1>1, <1>4 DEF TypeOK
<1>6. view'[o] = view[o] \union {IF kind[t] = "teleport" THEN o ELSE p}
    BY <1>1, <1>4 DEF TypeOK, IdTold
<1> HIDE DEF p, o
<1>7. Search(t)'
    BY <1>1, <1>2 DEF Exact, Search, Looking
<1>8. LoginLists(t)'
    BY <1>1, <1>3, <1>4, <1>5, <1>6 DEF Exact, LoginLists, Pending, Untold, Others, p, o
<1>9. OtherLists(t)'
    BY <1>1, <1>3, <1>4, <1>5, <1>6 DEF Exact, OtherLists, Pending, Untold, p, o
<1> QED
    BY <1>1, <1>3, <1>7, <1>8, <1>9 DEF Exact, o

LEMMA ExactOwn ==
    ASSUME TypeOK, NEW t \in Threads, Exact(t), Own(t)
    PROVE  Exact(t)'
<1> DEFINE p == Owner(t)
           o == cur[t]
<1>1. /\ pc[t] = "own" /\ pc'[t] = IF kind[t] = "login" THEN "look" ELSE "meet"
      /\ view' = [view EXCEPT ![p] = IF o \in old[t] THEN @ ELSE @ \union {o}]
      /\ UNCHANGED <<pos, inGame, listed, kind, old, near, todo, cand>>
    BY DEF Own, TypeOK, At, Goto, body
<1>2. Seen(t)' = Seen(t)
    BY <1>1, SeenStays
<1>3. o \in near[t] /\ near[t] \subseteq Seen(t)
    BY <1>1 DEF Exact, Search
<1>4. p \in Players /\ \A x \in near[t] : x \in Players /\ x # p
    BY <1>3, SeenOthers
<1>5. /\ view'[p] = IF o \in old[t] THEN view[p] ELSE view[p] \union {o}
      /\ \A x \in Players : x # p => view'[x] = view[x]
    BY <1>1, <1>4 DEF TypeOK
<1> HIDE DEF p, o
<1>6. Search(t)'
    BY <1>1, <1>2 DEF Exact, Search, Looking
<1>7. LoginLists(t)'
    BY <1>1, <1>3, <1>4, <1>5 DEF Exact, LoginLists, Pending, Untold, Others, p, o
<1>8. OtherLists(t)'
    BY <1>1, <1>3, <1>4, <1>5 DEF Exact, OtherLists, Pending, Untold, p, o
<1> QED
    BY <1>1, <1>6, <1>7, <1>8 DEF Exact

LEMMA ExactLose ==
    ASSUME TypeOK, NEW t \in Threads, kind[t] # "login", Exact(t), Lose(t)
    PROVE  Exact(t)'
<1> DEFINE p == Owner(t)
<1>1. PICK o \in cand[t] :
        /\ cand' = [cand EXCEPT ![t] = @ \ {o}]
        /\ IF inGame[o]
           THEN /\ view' = [view EXCEPT ![p] = @ \ {o}]
                /\ cur' = [cur EXCEPT ![t] = o]
                /\ pc' = [pc EXCEPT ![t] = "lost"]
           ELSE UNCHANGED <<view, cur, pc>>
    BY DEF Lose, Goto
<1>2. pc[t] = "lose" /\ UNCHANGED <<pos, inGame, listed, kind, old, near, todo>>
    BY DEF Lose, At, body
<1>3. Seen(t)' = Seen(t)
    BY <1>2, SeenStays
<1>4. near[t] \subseteq Seen(t) /\ o \notin near[t]
    BY <1>1, <1>2 DEF Exact, OtherLists, Search
<1>5. p \in Players /\ \A x \in near[t] : x \in Players /\ x # p
    BY <1>4, SeenOthers
<1>6. cand'[t] = cand[t] \ {o} /\ \A x \in Players : x # p => view'[x] = view[x]
    BY <1>1, <1>5 DEF TypeOK
<1>7. /\ inGame[o] => view'[p] = view[p] \ {o} /\ cur'[t] = o /\ pc'[t] = "lost"
      /\ ~inGame[o] => view'[p] = view[p] /\ pc'[t] = "lose"
    BY <1>1, <1>2, <1>5 DEF TypeOK
<1> HIDE DEF p
<1>8. Search(t)'
    BY <1>2, <1>3, <1>7 DEF Exact, Search, Looking
<1>9. OtherLists(t)'
    BY <1>2, <1>4, <1>5, <1>6, <1>7 DEF Exact, OtherLists, Pending, Untold, p
<1> QED
    BY <1>2, <1>7, <1>8, <1>9 DEF Exact, LoginLists

LEMMA ExactLost ==
    ASSUME TypeOK, NEW t \in Threads, kind[t] # "login", Exact(t), Lost(t)
    PROVE  Exact(t)'
<1> DEFINE p == Owner(t)
           o == cur[t]
<1>1. /\ pc[t] = "lost" /\ pc'[t] = "lose"
      /\ view' = [view EXCEPT ![o] = @ \ {IdTold(t, o)}]
      /\ UNCHANGED <<pos, inGame, listed, kind, old, near, todo, cand>>
    BY DEF Lost, TypeOK, At, Goto, body
<1>2. Seen(t)' = Seen(t)
    BY <1>1, SeenStays
<1>3. o \notin near[t] /\ near[t] \subseteq Seen(t)
    BY <1>1 DEF Exact, OtherLists, Search
<1>4. p \in Players /\ o \in Players /\ p \notin near[t] /\ \A x \in near[t] : x \in Players
    BY <1>1, <1>3, SeenOthers DEF TypeOK
<1>5. /\ \A x \in Players : x # o => view'[x] = view[x]
      /\ view'[o] = view[o] \ {IdTold(t, o)}
    BY <1>1, <1>4 DEF TypeOK
<1>6. view'[p] \subseteq view[p] /\ near[t] \subseteq view'[p]
    BY <1>1, <1>3, <1>4, <1>5 DEF Exact, OtherLists, IdTold
<1> HIDE DEF p, o
<1>7. Search(t)'
    BY <1>1, <1>2 DEF Exact, Search, Looking
<1>8. OtherLists(t)'
    BY <1>1, <1>3, <1>4, <1>5, <1>6 DEF Exact, OtherLists, Pending, Untold, p, o
<1> QED
    BY <1>1, <1>7, <1>8 DEF Exact, LoginLists

LEMMA ExactLoseDone ==
    ASSUME TypeOK, NEW t \in Threads, kind[t] # "login", Exact(t), LoseDone(t)
    PROVE  Exact(t)'
<1>1. /\ pc[t] = "lose" /\ cand[t] = {} /\ pc'[t] = "done"
      /\ UNCHANGED <<pos, inGame, listed, view, kind, old, near, todo, cand, cur>>
    BY DEF LoseDone, TypeOK, At, Goto, body, local
<1>2. Seen(t)' = Seen(t)
    BY <1>1, SeenStays
<1> QED
    BY <1>1, <1>2 DEF Exact, Search, Looking, LoginLists, OtherLists, Pending, Untold

LEMMA ExactAddServerObject ==
    ASSUME TypeOK, RolesKept, NEW t \in Threads, Exact(t), AddServerObject(t)
    PROVE  Exact(t)'
<1>1. /\ pc[t] = "insert" /\ kind[t] = "login" /\ pc'[t] = "done"
      /\ inGame' = [inGame EXCEPT ![Owner(t)] = TRUE]
      /\ UNCHANGED <<pos, listed, view, kind, old, near, todo, cand, cur>>
    BY DEF AddServerObject, TypeOK, RolesKept, At, Goto, local
<1>2. Seen(t)' = Seen(t)
    BY <1>1, SeenStays DEF Others, TypeOK
<1> QED
    BY <1>1, <1>2 DEF Exact, Search, Looking, LoginLists, OtherLists, Pending, Untold

\* What of a thread's own steps leads into a round.
LEMMA RoundStep ==
    ASSUME TypeOK, RolesKept, NEW t \in Threads, Step(t), pc'[t] \in Round, kind'[t] # "leave"
    PROVE  /\ kind[t] # "leave"
           /\ CopyView(t) \/ pc[t] \in Round \ {"done"}
<1> USE DEF TypeOK, At, Goto, body, local, Round
<1>1. ASSUME MoveTo(t) \/ TeleportTo(t) \/ ReviveFrom(t) \/ ReviveTo(t) \/ Place(t) \/ SetStartPos(t)
             \/ Aim(t) \/ LeaveSector(t) \/ EnterSector(t) \/ MoveRefused(t) \/ Return(t)
      PROVE  pc'[t] \notin Round
    <2>1. CASE MoveTo(t) \/ TeleportTo(t) \/ ReviveFrom(t) \/ ReviveTo(t) \/ SetStartPos(t)
        BY <2>1 DEF MoveTo, TeleportTo, ReviveFrom, ReviveTo, SetStartPos
    <2>2. CASE Place(t) \/ LeaveSector(t) \/ EnterSector(t)
        BY <2>2 DEF Place, LeaveSector, EnterSector
    <2>3. CASE Aim(t)
        BY <2>3 DEF Aim
    <2>4. CASE MoveRefused(t) \/ Return(t)
        BY <2>4 DEF MoveRefused, Return
    <2> QED
        BY <1>1, <2>1, <2>2, <2>3, <2>4
<1>2. ASSUME RemoveServerObject(t) PROVE kind'[t] = "leave"
    BY <1>2 DEF RemoveServerObject, RolesKept
<1>3. ASSUME CopyView(t) \/ ScanSector(t) \/ ScanDone(t) \/ Look(t) \/ LookDone(t) \/ Meet(t) \/ MeetDone(t)
             \/ Tell(t) \/ Own(t) \/ Lose(t) \/ Lost(t) \/ LoseDone(t) \/ AddServerObject(t)
      PROVE  kind' = kind /\ (CopyView(t) \/ pc[t] \in Round \ {"done"})
    <2>1. CASE CopyView(t) \/ ScanSector(t) \/ ScanDone(t) \/ Look(t) \/ LookDone(t)
        BY <2>1 DEF CopyView, ScanSector, ScanDone, Look, LookDone
    <2>2. CASE Meet(t) \/ MeetDone(t) \/ Tell(t) \/ Own(t)
        BY <2>2 DEF Meet, MeetDone, Tell, Own
    <2>3. CASE Lose(t) \/ Lost(t) \/ LoseDone(t) \/ AddServerObject(t)
        BY <2>3 DEF Lose, Lost, LoseDone, AddServerObject
    <2> QED
        BY <1>3, <2>1, <2>2, <2>3
<1> HIDE DEF TypeOK, At, Goto, body, local, Round
<1> QED
    BY <1>1, <1>2, <1>3 DEF Step

LEMMA ExactStep ==
    ASSUME TypeOK, RolesKept, Strangers, NEW t \in Threads, Step(t), pc'[t] \in Round, kind'[t] # "leave",
           ~CopyView(t) => Exact(t)
    PROVE  Exact(t)'
<1>1. pc[t] \in {"meet", "lose", "lost"} => kind[t] # "login"
    BY StrangersPoints DEF LoginPoints
<1>2. CASE CopyView(t)
    BY <1>2, ExactCopyView
<1>3. CASE ~CopyView(t)
    <2>1. pc[t] \in Round \ {"done"} /\ Exact(t)
        BY <1>3, RoundStep
    <2>2. /\ Meet(t) \/ MeetDone(t) => pc[t] = "meet"
          /\ Lose(t) \/ LoseDone(t) => pc[t] = "lose"
          /\ Lost(t) => pc[t] = "lost"
        BY DEF Meet, MeetDone, Lose, LoseDone, Lost, At
    <2>3. ~MoveTo(t) /\ ~TeleportTo(t) /\ ~ReviveFrom(t) /\ ~ReviveTo(t) /\ ~Place(t) /\ ~SetStartPos(t)
          /\ ~Aim(t) /\ ~LeaveSector(t) /\ ~EnterSector(t) /\ ~MoveRefused(t) /\ ~Return(t)
          /\ ~RemoveServerObject(t)
        <3>1. pc[t] \in {"scan", "look", "meet", "tell", "own", "lose", "lost", "insert"}
            BY <2>1 DEF Round
        <3> QED
            BY <3>1 DEF MoveTo, TeleportTo, ReviveFrom, ReviveTo, Place, SetStartPos, Aim, LeaveSector,
               EnterSector, MoveRefused, Return, RemoveServerObject, At
    <2> QED
        BY <1>1, <1>3, <2>1, <2>2, <2>3, ExactScanSector, ExactScanDone, ExactLook, ExactLookDone, ExactMeet,
           ExactMeetDone, ExactTell, ExactOwn, ExactLose, ExactLost, ExactLoseDone, ExactAddServerObject
        DEF Step
<1> QED
    BY <1>2, <1>3

Views == TypeOK /\ RolesKept /\ Once /\ Alone /\ Strangers /\ QuietRound

LEMMA QuietRoundStep == Views /\ [Next]_vars => QuietRound'
<1> SUFFICES ASSUME Views, [Next]_vars, NEW t \in Threads, quiet'[t], kind'[t] # "leave", pc'[t] \in Round
             PROVE  Exact(t)'
    BY DEF QuietRound
<1>1. CASE Still(t)
    <2>1. Exact(t)
        BY <1>1 DEF Still, Views, QuietRound
    <2> QED
        BY <1>1, <2>1, ExactStays
<1>2. CASE quiet[t] /\ Step(t)
    <2>1. ~CopyView(t) => Exact(t)
        BY <1>2, RoundStep DEF Views, QuietRound
    <2> QED
        BY <1>2, <2>1, ExactStep DEF Views
<1> QED
    BY <1>1, <1>2, Undisturbed DEF Views

LEMMA ViewsInit == Init => Views
<1>1. Init => TypeOK /\ RolesKept /\ Once
    BY CustodyInit DEF Custody
<1>2. Init => QuietRound
    BY DEF Init, QuietRound
<1> QED
    BY <1>1, <1>2, AloneInit, StrangersInit DEF Views

LEMMA ViewsStep == Views /\ [Next]_vars => Views'
BY TypingStep, RolesStep, OnceStep, AloneStep, StrangersStep, QuietRoundStep DEF Views

LEMMA RoundIsExact == Views => QuietHandlerIsExact
<1> SUFFICES ASSUME Views, NEW t \in Threads, At(t, "done"), quiet[t], kind[t] # "leave",
                    NEW o \in Others(Owner(t)), inGame[o]
             PROVE  /\ o \in view[Owner(t)] <=>
                            /\ CanSee(pos[Owner(t)], pos[o])
                            /\ \E s \in Neighbours(pos[Owner(t)]) : o \in listed[s]
                    /\ kind[t] # "teleport" /\ o \in view[Owner(t)] => Owner(t) \in view[o]
    BY DEF QuietHandlerIsExact
<1>1. pc[t] = "done" /\ Exact(t)
    BY DEF Views, QuietRound, Round, At
<1>2. near[t] = Seen(t) /\ todo[t] = {}
    BY <1>1 DEF Exact, Search, Looking
<1>3. o \in near[t] <=>
        /\ CanSee(pos[Owner(t)], pos[o])
        /\ \E s \in Neighbours(pos[Owner(t)]) : o \in listed[s]
    BY <1>2 DEF Seen
<1>4. o \in view[Owner(t)] <=> o \in near[t]
    BY <1>1 DEF Exact, LoginLists, OtherLists, Pending
<1>5. kind[t] # "teleport" /\ o \in near[t] => Owner(t) \in view[o]
    BY <1>1 DEF Exact, LoginLists, OtherLists, Untold
<1> QED
    BY <1>3, <1>4, <1>5

\* For any number of players, any board and any history: a handler that ran
\* undisturbed leaves its player with the list of exactly those in the world
\* whom he can see and who are listed around him, each with him in his list
\* unless it is a teleport (PacketFunc.cpp:265-489, 737-924).
THEOREM QuietHandlersAreExact == Spec => []QuietHandlerIsExact
<1>1. Init => Views
    BY ViewsInit
<1>2. Views /\ [Next]_vars => Views'
    BY ViewsStep
<1>3. Views => QuietHandlerIsExact
    BY RoundIsExact
<1> QED
    BY <1>1, <1>2, <1>3, PTL DEF Spec

-----------------------------------------------------------------------------
(***************************************************************************)
(* Handlers one after the other.                                           *)
(***************************************************************************)

\* Who runs is undisturbed, and nobody is in a teleport.
CalmQuiet ==
    /\ calm => \A t \in Threads : Busy(t) => quiet[t]
    /\ \A t \in Threads : kind[t] = "teleport" => teleported

\* No handler of his has read or written his position yet.
Resting(p) == \A t \in Threads : Owner(t) = p /\ Busy(t) => pc[t] = "origin"

InPlace == \A p \in Players : inGame[p] /\ Resting(p) => p \in listed[SectorOf(pos[p])]

InSight ==
    \A p \in Players : \A o \in Others(p) :
        inGame[p] /\ inGame[o] /\ Resting(p) /\ Resting(o) => (o \in view[p] <=> CanSee(pos[p], pos[o]))

\* The sectors a handler takes its player through.
Places(t) ==
    LET p == Owner(t) IN
    /\ pc[t] \in {"start", "place"} => p \in listed[SectorOf(from[t])]
    /\ pc[t] = "aim" => p \in listed[SectorOf(from[t])] /\ (kind[t] = "move" => to[t] = pos[p])
    /\ pc[t] \in {"leaveSector", "enterSector"} => to[t] = pos[p]
    /\ pc[t] \in {"copy", "scan", "look", "meet", "tell", "own", "lose", "lost", "insert"} =>
            p \in listed[SectorOf(pos[p])]

\* Who has the player in his list is in the player's, and is dealt with.
Back(t) ==
    LET p == Owner(t) IN
    \A o \in Others(p) : inGame[o] =>
        /\ pc[t] \in {"start", "place", "aim", "leaveSector", "enterSector", "copy", "scan", "look"} =>
                (p \in view[o] => o \in view[p])
        /\ pc[t] \in {"meet", "tell", "own"} /\ p \in view[o] => o \in old[t] \union near[t]
        /\ pc[t] \in {"lose", "lost"} /\ p \in view[o] =>
                o \in near[t] \union cand[t] \union {x \in {cur[t]} : pc[t] = "lost"}

Rounds ==
    \A t \in Threads :
        /\ kind[t] # "leave" /\ (inGame[Owner(t)] \/ kind[t] = "login") => Places(t)
        /\ kind[t] \notin {"leave", "login"} /\ inGame[Owner(t)] => Back(t)

Calm == calm /\ ~teleported

CalmWorld == Calm => InPlace /\ InSight /\ Rounds

LEMMA CalmInit == Init => CalmQuiet /\ CalmWorld
<1> SUFFICES ASSUME Init PROVE CalmQuiet /\ CalmWorld
    OBVIOUS
<1>1. \A t \in Threads : pc[t] \in {"off", "idle"} /\ kind[t] = "none"
    BY DEF Init
<1>2. \A p \in Players : ~inGame[p]
    BY DEF Init
<1>3. CalmQuiet
    BY <1>1 DEF CalmQuiet, Busy
<1>4. InPlace /\ InSight
    BY <1>2 DEF InPlace, InSight
<1>5. Rounds
    BY <1>1, <1>2 DEF Rounds, Places, Back
<1> QED
    BY <1>3, <1>4, <1>5 DEF CalmWorld

\* The steps of a thread: it was busy, or returns; nobody else moves.
LEMMA StepsAlone ==
    ASSUME TypeOK, NEW t \in Threads, Step(t)
    PROVE  /\ UNCHANGED history
           /\ Return(t) \/ Busy(t)
           /\ \A u \in Threads : u # t =>
                /\ pc'[u] = pc[u] /\ kind'[u] = kind[u]
           /\ kind'[t] \in {kind[t], "none"}
<1> USE DEF TypeOK
<1>1. ASSUME Walk(t)
      PROVE  /\ Busy(t) /\ kind' = kind
             /\ \A u \in Threads : u # t => pc'[u] = pc[u]
    BY <1>1 DEF Walk, Inside, Busy
<1>2. UNCHANGED history
    BY DEF Step, MoveTo, MoveRefused, TeleportTo, ReviveFrom, ReviveTo, history,
       Place, SetStartPos, Aim, LeaveSector, EnterSector, CopyView, ScanSector, ScanDone, Look,
       LookDone, Meet, MeetDone, Tell, Own, Lose, Lost, LoseDone, AddServerObject,
       RemoveServerObject, Return
<1>3. ASSUME MoveRefused(t) \/ Return(t)
      PROVE  /\ Return(t) \/ Busy(t)
             /\ \A u \in Threads : u # t => pc'[u] = pc[u] /\ kind'[u] = kind[u]
             /\ kind'[t] = "none"
    BY <1>3 DEF MoveRefused, Return, At, Goto, Busy
<1>4. ASSUME LeaveSector(t) \/ EnterSector(t) \/ AddServerObject(t) \/ RemoveServerObject(t)
      PROVE  /\ Busy(t) /\ kind' = kind
             /\ \A u \in Threads : u # t => pc'[u] = pc[u]
    BY <1>4 DEF LeaveSector, EnterSector, AddServerObject, RemoveServerObject, At, Goto, Busy, local
<1> HIDE DEF TypeOK
<1> QED
    BY <1>1, <1>2, <1>3, <1>4, Walks DEF Step

LEMMA CalmQuietStep == TypeOK /\ CalmQuiet /\ [Next]_vars => CalmQuiet'
<1> SUFFICES ASSUME TypeOK, CalmQuiet, [Next]_vars PROVE CalmQuiet'
    OBVIOUS
<1>1. ASSUME NEW t \in Threads, NEW k, NEW point, Begin(t, k, point),
             k = "teleport" => teleported', teleported => teleported'
      PROVE  CalmQuiet'
    <2>1. /\ quiet'[t] = (\A v \in Threads : ~Busy(v))
          /\ calm' => \A v \in Threads : ~Busy(v)
          /\ kind' = [kind EXCEPT ![t] = k]
          /\ pc' = [pc EXCEPT ![t] = point]
        BY <1>1 DEF Begin, Goto
    <2>2. calm' => \A u \in Threads : Busy(u)' => quiet'[u]
        BY <2>1 DEF Busy, TypeOK
    <2>3. \A u \in Threads : kind'[u] = "teleport" => teleported'
        BY <1>1, <2>1 DEF CalmQuiet, TypeOK
    <2> QED
        BY <2>2, <2>3 DEF CalmQuiet
<1>2. ASSUME NEW t \in Threads,
             BeginLogin(t) \/ BeginMove(t) \/ BeginTeleport(t) \/ BeginRevive(t) \/ BeginLeave(t)
      PROVE  CalmQuiet'
    <2>1. CASE BeginLogin(t)
        BY <1>1, <2>1 DEF BeginLogin
    <2>2. CASE BeginMove(t)
        BY <1>1, <2>2 DEF BeginMove
    <2>3. CASE BeginTeleport(t)
        BY <1>1, <2>3 DEF BeginTeleport
    <2>4. CASE BeginRevive(t)
        BY <1>1, <2>4 DEF BeginRevive
    <2>5. CASE BeginLeave(t)
        BY <1>1, <2>5 DEF BeginLeave
    <2> QED
        BY <1>2, <2>1, <2>2, <2>3, <2>4, <2>5
<1>3. ASSUME NEW t \in Threads, Step(t) PROVE CalmQuiet'
    <2>1. UNCHANGED <<quiet, calm, teleported>>
        BY <1>3, StepsAlone DEF history
    <2>2. \A u \in Threads : Busy(u)' => Busy(u)
        <3>1. Return(t) => ~Busy(t)'
            BY DEF Return, Goto, Busy, TypeOK
        <3> QED
            BY <1>3, <3>1, StepsAlone DEF Busy
    <2>3. \A u \in Threads : kind'[u] \in {kind[u], "none"}
        BY <1>3, StepsAlone
    <2> QED
        BY <2>1, <2>2, <2>3 DEF CalmQuiet
<1>4. ASSUME NEW p \in Players, Die(p) PROVE CalmQuiet'
    BY <1>4 DEF Die, CalmQuiet, local, Busy
<1>5. ASSUME UNCHANGED vars PROVE CalmQuiet'
    BY <1>5 DEF vars, CalmQuiet, local, history, Busy
<1> QED
    BY <1>2, <1>3, <1>4, <1>5 DEF Next

\* A step of a handler other than a teleport changes nothing between others.
LEMMA OthersKept ==
    ASSUME TypeOK, NEW t \in Threads, kind[t] # "teleport", Step(t)
    PROVE  \A q \in Others(Owner(t)) :
                /\ pos'[q] = pos[q] /\ inGame'[q] = inGame[q]
                /\ \A s \in Sectors : q \in listed'[s] <=> q \in listed[s]
                /\ \A o \in Others(Owner(t)) : o \in view'[q] <=> o \in view[q]
<1> DEFINE p == Owner(t)
           Kept == \A q \in Others(p) :
                      /\ pos'[q] = pos[q] /\ inGame'[q] = inGame[q]
                      /\ \A s \in Sectors : q \in listed'[s] <=> q \in listed[s]
                      /\ \A o \in Others(p) : o \in view'[q] <=> o \in view[q]
<1> p \in Players
    BY ThreadParts
<1>1. ASSUME UNCHANGED <<pos, inGame, listed, view>> PROVE Kept
    BY <1>1
<1>2. ASSUME MoveTo(t) \/ MoveRefused(t) \/ TeleportTo(t) \/ ReviveFrom(t) \/ ReviveTo(t) \/ SetStartPos(t)
             \/ Aim(t) \/ CopyView(t) \/ ScanSector(t) \/ ScanDone(t) \/ Look(t) \/ LookDone(t)
             \/ Meet(t) \/ MeetDone(t) \/ LoseDone(t) \/ Return(t)
      PROVE  UNCHANGED <<pos, inGame, listed, view>>
    BY <1>2 DEF MoveTo, MoveRefused, TeleportTo, ReviveFrom, ReviveTo, SetStartPos, Aim, CopyView, ScanSector,
       ScanDone, Look, LookDone, Meet, MeetDone, LoseDone, Return, body
<1>3. ASSUME Place(t) PROVE Kept
    BY <1>3 DEF Place, TypeOK, Others
<1>4. ASSUME AddServerObject(t) \/ RemoveServerObject(t) PROVE Kept
    BY <1>4 DEF AddServerObject, RemoveServerObject, TypeOK, Others
<1>5. ASSUME LeaveSector(t) \/ EnterSector(t) PROVE Kept
    <2>1. UNCHANGED <<pos, inGame, view>>
        BY <1>5 DEF LeaveSector, EnterSector, body
    <2>2. \/ listed' = [listed EXCEPT ![SectorOf(from[t])] = @ \ {p}]
          \/ listed' = [listed EXCEPT ![SectorOf(to[t])] = @ \union {p}]
        BY <1>5 DEF LeaveSector, EnterSector
    <2>3. \A s \in Sectors : listed'[s] \ {p} = listed[s] \ {p}
        BY <2>2 DEF TypeOK
    <2> QED
        BY <2>1, <2>3 DEF Others
<1>6. ASSUME Tell(t) \/ Lost(t) PROVE Kept
    <2>1. UNCHANGED <<pos, inGame, listed>>
        BY <1>6 DEF Tell, Lost, body
    <2>2. \/ view' = [view EXCEPT ![cur[t]] = @ \union {p}]
          \/ view' = [view EXCEPT ![cur[t]] = @ \ {p}]
        BY <1>6 DEF Tell, Lost, IdTold
    <2>3. \A q \in Players : view'[q] \ {p} = view[q] \ {p}
        BY <2>2 DEF TypeOK
    <2> QED
        BY <2>1, <2>3 DEF Others
<1>7. ASSUME Own(t) PROVE Kept
    BY <1>7 DEF Own, TypeOK, body, Others
<1>8. ASSUME Lose(t) PROVE Kept
    <2>1. UNCHANGED <<pos, inGame, listed>>
        BY <1>8 DEF Lose, body
    <2>2. PICK o \in cand[t] : view' = view \/ view' = [view EXCEPT ![p] = @ \ {o}]
        BY <1>8 DEF Lose
    <2> QED
        BY <2>1, <2>2 DEF TypeOK, Others
<1> HIDE DEF Kept, p
<1>9. Kept
    BY <1>1, <1>2, <1>3, <1>4, <1>5, <1>6, <1>7, <1>8 DEF Step
<1> QED
    BY <1>9 DEF Kept, p

\* The others are where they were and see whom they saw, at rest.
LEMMA OthersInSight ==
    ASSUME TypeOK, InPlace, InSight, NEW t \in Threads, kind[t] # "teleport", Step(t),
           \A u \in Threads : u # t => ~Busy(u)
    PROVE  /\ \A q \in Others(Owner(t)) : inGame[q] => q \in listed[SectorOf(pos[q])]
           /\ \A q \in Others(Owner(t)) : inGame'[q] => q \in listed'[SectorOf(pos'[q])]
           /\ \A q \in Others(Owner(t)) : \A o \in Others(Owner(t)) \ {q} :
                inGame'[q] /\ inGame'[o] => (o \in view'[q] <=> CanSee(pos'[q], pos'[o]))
<1> DEFINE p == Owner(t)
<1>1. \A q \in Others(p) : q \in Players /\ Resting(q) /\ SectorOf(pos[q]) \in Sectors
    BY SectorsExist DEF Resting, Others, TypeOK
<1>2. \A q \in Others(p) : inGame[q] => q \in listed[SectorOf(pos[q])]
    BY <1>1 DEF InPlace
<1>3. \A q \in Others(p) : \A o \in Others(p) \ {q} :
                inGame[q] /\ inGame[o] => (o \in view[q] <=> CanSee(pos[q], pos[o]))
    BY <1>1 DEF InSight, Others
<1> QED
    BY <1>1, <1>2, <1>3, OthersKept

LEMMA PlacesStep ==
    ASSUME TypeOK, InPlace, NEW t \in Threads, kind[t] # "teleport", Busy(t), Step(t),
           \A u \in Threads : u # t => ~Busy(u),
           kind[t] # "leave" /\ (inGame[Owner(t)] \/ kind[t] = "login") => Places(t),
           kind'[t] # "leave", inGame'[Owner(t)] \/ kind'[t] = "login"
    PROVE  Places(t)'
<1> DEFINE p == Owner(t)
<1>a. p \in Players
    BY ThreadParts
<1> USE DEF At, Goto, body, local
<1>1. ASSUME pc'[t] \in {"idle", "done"} PROVE Places(t)'
    BY <1>1 DEF Places
<1>2. ASSUME MoveRefused(t) \/ LoseDone(t) \/ AddServerObject(t) \/ RemoveServerObject(t) \/ Return(t)
      PROVE  pc'[t] \in {"idle", "done"}
    BY <1>2 DEF MoveRefused, LoseDone, AddServerObject, RemoveServerObject, Return, TypeOK
<1>3. ASSUME ~(MoveRefused(t) \/ LoseDone(t) \/ AddServerObject(t) \/ RemoveServerObject(t) \/ Return(t))
      PROVE  UNCHANGED <<kind, inGame>>
    <2>1. LeaveSector(t) \/ EnterSector(t) => UNCHANGED <<kind, inGame>>
        BY DEF LeaveSector, EnterSector
    <2>2. Walk(t) => UNCHANGED <<kind, inGame>>
        BY DEF Walk
    <2> QED
        BY <1>3, <2>1, <2>2, Walks DEF Step
<1>4. ASSUME UNCHANGED <<kind, inGame>> PROVE Places(t) /\ kind[t] # "leave"
    BY <1>4
<1>5. ASSUME MoveTo(t) \/ ReviveFrom(t), UNCHANGED <<kind, inGame>> PROVE Places(t)'
    <2>1. /\ pc[t] = "origin" /\ pc'[t] \in {"start", "place"} /\ from'[t] = pos[p]
          /\ kind[t] # "login" /\ UNCHANGED <<listed, inGame>>
        BY <1>5 DEF MoveTo, ReviveFrom, TypeOK
    <2>2. inGame[p] /\ Resting(p)
        BY <2>1, <1>5 DEF Resting
    <2> QED
        BY <1>a, <2>1, <2>2 DEF InPlace, Places
<1>6. ASSUME TeleportTo(t) \/ SetStartPos(t) PROVE FALSE
    BY <1>6 DEF TeleportTo, SetStartPos
<1>7. ASSUME ReviveTo(t), Places(t) PROVE Places(t)'
    BY <1>7 DEF ReviveTo, Places, TypeOK
<1>8. ASSUME Place(t), Places(t) PROVE Places(t)'
    BY <1>a, <1>8 DEF Place, Places, TypeOK
<1>9. ASSUME Aim(t), Places(t) PROVE Places(t)'
    <2> DEFINE next == IF kind[t] = "move" THEN to[t] ELSE pos[p]
    <2>1. /\ pc[t] = "aim" /\ to'[t] = next
          /\ pc'[t] = IF SectorOf(from[t]) # SectorOf(next) THEN "leaveSector" ELSE "copy"
          /\ UNCHANGED <<pos, listed, from, kind>>
        BY <1>9 DEF Aim, TypeOK
    <2>2. next = pos[p] /\ p \in listed[SectorOf(from[t])]
        BY <1>9, <2>1 DEF Places
    <2> HIDE DEF next
    <2> QED
        BY <2>1, <2>2 DEF Places
<1>10. ASSUME LeaveSector(t), Places(t), kind[t] # "leave" PROVE Places(t)'
    BY <1>10 DEF LeaveSector, Places, TypeOK
<1>11. ASSUME EnterSector(t), Places(t) PROVE Places(t)'
    <2>1. SectorOf(pos[p]) \in Sectors
        BY <1>a, SectorsExist DEF TypeOK
    <2>2. pc[t] = "enterSector" /\ pc'[t] = "copy" /\ to[t] = pos[p] /\ UNCHANGED pos
        BY <1>11 DEF EnterSector, Places, TypeOK
    <2>3. p \in listed'[SectorOf(pos[p])]
        BY <1>11, <2>1, <2>2 DEF EnterSector, TypeOK
    <2> QED
        BY <2>2, <2>3 DEF Places
<1>12. ASSUME pc[t] \in {"copy", "scan", "look", "meet", "tell", "own", "lose", "lost"},
              pc'[t] \in {"scan", "look", "meet", "tell", "own", "lose", "lost", "insert"},
              UNCHANGED <<pos, listed>>, Places(t)
       PROVE  Places(t)'
    BY <1>12 DEF Places
<1>13. ASSUME CopyView(t) \/ ScanSector(t) \/ ScanDone(t) \/ Look(t) \/ LookDone(t)
              \/ Meet(t) \/ MeetDone(t) \/ Tell(t) \/ Own(t) \/ Lose(t) \/ Lost(t)
       PROVE  /\ pc[t] \in {"copy", "scan", "look", "meet", "tell", "own", "lose", "lost"}
              /\ pc'[t] \in {"scan", "look", "meet", "tell", "own", "lose", "lost", "insert"}
              /\ UNCHANGED <<pos, listed>>
    <2>1. CASE CopyView(t) \/ ScanSector(t) \/ ScanDone(t)
        BY <2>1 DEF CopyView, ScanSector, ScanDone, TypeOK
    <2>2. CASE Look(t) \/ LookDone(t)
        BY <2>2 DEF Look, LookDone, TypeOK
    <2>3. CASE Meet(t) \/ MeetDone(t)
        BY <2>3 DEF Meet, MeetDone, TypeOK
    <2>4. CASE Tell(t) \/ Own(t) \/ Lost(t)
        BY <2>4 DEF Tell, Own, Lost, TypeOK
    <2>5. CASE Lose(t)
        <3>1. PICK o \in cand[t] :
                IF inGame[o] THEN pc' = [pc EXCEPT ![t] = "lost"] ELSE UNCHANGED pc
            BY <2>5 DEF Lose
        <3> QED
            BY <2>5, <3>1 DEF Lose, TypeOK
    <2> QED
        BY <1>13, <2>1, <2>2, <2>3, <2>4, <2>5
<1> HIDE DEF At, Goto, body, local, p
<1>14. CASE MoveRefused(t) \/ LoseDone(t) \/ AddServerObject(t) \/ RemoveServerObject(t) \/ Return(t)
    BY <1>1, <1>2, <1>14
<1>15. CASE ~(MoveRefused(t) \/ LoseDone(t) \/ AddServerObject(t) \/ RemoveServerObject(t) \/ Return(t))
    <2>1. UNCHANGED <<kind, inGame>> /\ Places(t) /\ kind[t] # "leave"
        BY <1>3, <1>4, <1>15
    <2> QED
        BY <1>5, <1>6, <1>7, <1>8, <1>9, <1>10, <1>11, <1>12, <1>13, <1>15, <2>1 DEF Step
<1> QED
    BY <1>14, <1>15

LEMMA BackStep ==
    ASSUME TypeOK, InSight, NEW t \in Threads, kind[t] # "teleport", Busy(t), Step(t),
           \A u \in Threads : u # t => ~Busy(u),
           kind[t] \notin {"leave", "login"} /\ inGame[Owner(t)] => Back(t),
           kind[t] # "leave" /\ pc[t] \in Round => Exact(t),
           kind'[t] \notin {"leave", "login"}, inGame'[Owner(t)],
           RolesKept
    PROVE  Back(t)'
<1> DEFINE p == Owner(t)
<1>a. p \in Players
    BY ThreadParts
<1> USE DEF At, Goto, body, local
<1>1. ASSUME pc'[t] \in {"idle", "done"} PROVE Back(t)'
    BY <1>1 DEF Back
<1>2. ASSUME MoveRefused(t) \/ LoseDone(t) \/ AddServerObject(t) \/ RemoveServerObject(t) \/ Return(t)
      PROVE  pc'[t] \in {"idle", "done"}
    BY <1>2 DEF MoveRefused, LoseDone, AddServerObject, RemoveServerObject, Return, TypeOK
<1>3. ASSUME ~(MoveRefused(t) \/ LoseDone(t) \/ AddServerObject(t) \/ RemoveServerObject(t) \/ Return(t))
      PROVE  UNCHANGED <<kind, inGame>>
    <2>1. LeaveSector(t) \/ EnterSector(t) => UNCHANGED <<kind, inGame>>
        BY DEF LeaveSector, EnterSector
    <2>2. Walk(t) => UNCHANGED <<kind, inGame>>
        BY DEF Walk
    <2> QED
        BY <1>3, <2>1, <2>2, Walks DEF Step
<1>4. ASSUME UNCHANGED <<kind, inGame>> PROVE Back(t) /\ kind[t] \notin {"leave", "login"} /\ inGame[p]
    BY <1>4
<1>5. ASSUME MoveTo(t) \/ ReviveFrom(t), UNCHANGED <<kind, inGame>> PROVE Back(t)'
    <2>1. pc[t] = "origin" /\ pc'[t] \in {"start", "place"} /\ UNCHANGED <<view, pos, inGame>>
        BY <1>5 DEF MoveTo, ReviveFrom, TypeOK
    <2>2. inGame[p] /\ \A q \in Players : Resting(q)
        BY <1>5, <2>1 DEF Resting
    <2>3. ASSUME NEW o \in Others(p), inGame[o], p \in view[o] PROVE o \in view[p]
        <3>1. o \in Players /\ p \in Others(o)
            BY <1>a DEF Others
        <3>2. CanSee(pos[o], pos[p])
            BY <1>a, <2>2, <2>3, <3>1 DEF InSight
        <3>3. CanSee(pos[p], pos[o])
            BY <1>a, <3>1, <3>2, SightIsMutual DEF TypeOK
        <3> QED
            BY <1>a, <2>2, <2>3, <3>1, <3>3 DEF InSight
    <2> QED
        BY <2>1, <2>3 DEF Back
<1>6. ASSUME TeleportTo(t) \/ SetStartPos(t) PROVE FALSE
    BY <1>6 DEF TeleportTo, SetStartPos
<1>7. ASSUME pc[t] \in {"start", "place", "aim", "leaveSector", "enterSector", "copy", "scan", "look"},
             pc'[t] \in {"start", "place", "aim", "leaveSector", "enterSector", "copy", "scan", "look"},
             UNCHANGED <<inGame, view>>, Back(t)
      PROVE  Back(t)'
    BY <1>7 DEF Back
<1>8. ASSUME ReviveTo(t) \/ Place(t) \/ Aim(t) \/ LeaveSector(t) \/ EnterSector(t) \/ CopyView(t)
             \/ ScanSector(t) \/ Look(t) \/ LookDone(t),
             kind[t] \notin {"leave", "login"}
      PROVE  /\ pc[t] \in {"start", "place", "aim", "leaveSector", "enterSector", "copy", "scan", "look"}
             /\ pc'[t] \in {"start", "place", "aim", "leaveSector", "enterSector", "copy", "scan", "look"}
             /\ UNCHANGED <<inGame, view>>
    <2>1. CASE ReviveTo(t) \/ Place(t) \/ LeaveSector(t) \/ EnterSector(t)
        BY <1>8, <2>1 DEF ReviveTo, Place, LeaveSector, EnterSector, TypeOK
    <2>2. CASE Aim(t)
        BY <1>8, <2>2 DEF Aim, TypeOK
    <2>3. CASE CopyView(t) \/ ScanSector(t) \/ Look(t) \/ LookDone(t)
        BY <1>8, <2>3 DEF CopyView, ScanSector, Look, LookDone, TypeOK
    <2> QED
        BY <1>8, <2>1, <2>2, <2>3
<1>9. ASSUME ScanDone(t), Back(t), kind[t] \notin {"leave", "login"} PROVE Back(t)'
    <2>1. pc[t] = "scan" /\ pc'[t] = "meet" /\ UNCHANGED <<inGame, view, old, near>>
        BY <1>9 DEF ScanDone, TypeOK
    <2>2. old[t] = view[p]
        BY <1>9, <2>1 DEF Exact, OtherLists, Round
    <2> QED
        BY <1>9, <2>1, <2>2 DEF Back
<1>10. ASSUME Meet(t) \/ Own(t), Back(t), kind[t] \notin {"leave", "login"} PROVE Back(t)'
    <2>1. /\ pc[t] \in {"meet", "own"} /\ pc'[t] \in {"meet", "tell"} /\ UNCHANGED <<inGame, old, near>>
          /\ \A o \in Others(p) : view'[o] = view[o]
        <3>1. CASE Meet(t)
            BY <3>1 DEF Meet, TypeOK
        <3>2. CASE Own(t)
            BY <1>a, <1>10, <3>2 DEF Own, TypeOK, Others
        <3> QED
            BY <1>10, <3>1, <3>2
    <2> QED
        BY <1>10, <2>1 DEF Back
<1>11. ASSUME MeetDone(t), Back(t) PROVE Back(t)'
    <2>1. /\ pc[t] = "meet" /\ pc'[t] = "lose" /\ cand'[t] = old[t] \ near[t]
          /\ UNCHANGED <<inGame, view, near>>
        BY <1>11 DEF MeetDone, TypeOK
    <2> QED
        BY <1>11, <2>1 DEF Back
<1>12. ASSUME Tell(t), Back(t), kind[t] # "leave" PROVE Back(t)'
    <2>1. /\ pc[t] = "tell" /\ pc'[t] = "own" /\ UNCHANGED <<inGame, old, near>>
          /\ view' = [view EXCEPT ![cur[t]] = @ \union {p}]
        BY <1>12 DEF Tell, TypeOK, IdTold
    <2>2. cur[t] \in near[t]
        BY <1>12, <2>1 DEF Exact, Round
    <2>3. \A o \in Others(p) : p \in view'[o] => p \in view[o] \/ o = cur[t]
        BY <2>1 DEF TypeOK, Others
    <2> QED
        BY <1>12, <2>1, <2>2, <2>3 DEF Back
<1>13. ASSUME Lose(t), Back(t) PROVE Back(t)'
    <2>1. PICK o \in cand[t] :
            /\ cand' = [cand EXCEPT ![t] = @ \ {o}]
            /\ IF inGame[o]
               THEN /\ view' = [view EXCEPT ![p] = @ \ {o}]
                    /\ cur' = [cur EXCEPT ![t] = o]
                    /\ pc' = [pc EXCEPT ![t] = "lost"]
               ELSE UNCHANGED <<view, cur, pc>>
        BY <1>13 DEF Lose
    <2>2. pc[t] = "lose" /\ UNCHANGED <<inGame, near>>
        BY <1>13 DEF Lose
    <2>3. /\ cand'[t] = cand[t] \ {o} /\ pc'[t] \in {"lose", "lost"}
          /\ inGame[o] => cur'[t] = o /\ pc'[t] = "lost"
        BY <2>1, <2>2 DEF TypeOK
    <2>4. \A x \in Others(p) : view'[x] = view[x]
        BY <1>a, <2>1 DEF TypeOK, Others
    <2> QED
        BY <1>13, <2>2, <2>3, <2>4 DEF Back
<1>14. ASSUME Lost(t), Back(t) PROVE Back(t)'
    <2>1. /\ pc[t] = "lost" /\ pc'[t] = "lose" /\ UNCHANGED <<inGame, near, cand>>
          /\ view' = [view EXCEPT ![cur[t]] = @ \ {p}]
        BY <1>14 DEF Lost, TypeOK, IdTold
    <2>2. \A o \in Others(p) : p \in view'[o] => p \in view[o] /\ o # cur[t]
        BY <2>1 DEF TypeOK, Others
    <2> QED
        BY <1>14, <2>1, <2>2 DEF Back
<1> HIDE DEF At, Goto, body, local, p
<1>15. CASE MoveRefused(t) \/ LoseDone(t) \/ AddServerObject(t) \/ RemoveServerObject(t) \/ Return(t)
    BY <1>1, <1>2, <1>15
<1>16. CASE ~(MoveRefused(t) \/ LoseDone(t) \/ AddServerObject(t) \/ RemoveServerObject(t) \/ Return(t))
    <2>1. UNCHANGED <<kind, inGame>> /\ Back(t) /\ kind[t] \notin {"leave", "login"}
        BY <1>3, <1>4, <1>16
    <2> QED
        BY <1>5, <1>6, <1>7, <1>8, <1>9, <1>10, <1>11, <1>12, <1>13, <1>14, <1>16, <2>1 DEF Step
<1> QED
    BY <1>15, <1>16

\* What a handler's end leaves of its player.
LEMMA EndStep ==
    ASSUME TypeOK, RolesKept, LoginPoints, InPlace, InSight, Rounds, NEW t \in Threads, kind[t] # "teleport",
           Busy(t), Step(t), \A u \in Threads : u # t => ~Busy(u),
           pc'[t] = "done" /\ kind'[t] # "leave" => Exact(t)',
           inGame'[Owner(t)], ~Busy(t)' \/ pc'[t] = "origin"
    PROVE  /\ Owner(t) \in listed'[SectorOf(pos'[Owner(t)])]
           /\ \A o \in Others(Owner(t)) : inGame'[o] =>
                /\ o \in view'[Owner(t)] <=> CanSee(pos'[Owner(t)], pos'[o])
                /\ Owner(t) \in view'[o] <=> CanSee(pos'[o], pos'[Owner(t)])
<1> DEFINE p == Owner(t)
<1>a. p \in Players
    BY ThreadParts
<1> USE DEF At, Goto, body, local
<1>1. MoveRefused(t) \/ LoseDone(t) \/ AddServerObject(t) \/ RemoveServerObject(t)
    <2>1. ~LeaveSector(t) /\ ~EnterSector(t)
        <3>1. LeaveSector(t) \/ EnterSector(t) => pc'[t] \in {"erase", "enterSector", "copy"}
            BY DEF LeaveSector, EnterSector, TypeOK
        <3> QED
            BY <3>1 DEF Busy
    <2>2. ~Return(t)
        BY DEF Return, Busy
    <2>3. ASSUME Walk(t) PROVE pc'[t] \in {"origin", "done"}
        BY <2>3 DEF Walk, Inside, TypeOK, Busy
    <2>4. ~MoveTo(t) /\ ~TeleportTo(t) /\ ~ReviveFrom(t) /\ ~ReviveTo(t) /\ ~SetStartPos(t) /\ ~Place(t)
          /\ ~Aim(t) /\ ~CopyView(t)
        <3>1. MoveTo(t) \/ TeleportTo(t) \/ ReviveFrom(t) \/ ReviveTo(t) \/ SetStartPos(t)
                  => pc'[t] \in {"place", "start", "aim"}
            BY DEF MoveTo, TeleportTo, ReviveFrom, ReviveTo, SetStartPos, TypeOK
        <3>2. Place(t) => pc'[t] \in {"start", "aim"}
            BY DEF Place, TypeOK
        <3>3. Aim(t) \/ CopyView(t) => pc'[t] \in {"leaveSector", "enterSector", "copy", "scan"}
            BY DEF Aim, CopyView, TypeOK
        <3> QED
            BY <3>1, <3>2, <3>3 DEF Busy
    <2>5. ~ScanSector(t) /\ ~ScanDone(t) /\ ~Look(t) /\ ~LookDone(t)
        <3>1. ScanSector(t) \/ ScanDone(t) \/ LookDone(t) => pc'[t] \in {"look", "insert", "meet", "scan"}
            BY DEF ScanSector, ScanDone, LookDone, TypeOK
        <3>2. Look(t) => pc'[t] \in {"look", "tell"}
            BY DEF Look, TypeOK
        <3> QED
            BY <3>1, <3>2 DEF Busy
    <2>6. ~Meet(t) /\ ~MeetDone(t) /\ ~Tell(t) /\ ~Own(t) /\ ~Lose(t) /\ ~Lost(t)
        <3>1. Meet(t) => pc'[t] \in {"meet", "tell"}
            BY DEF Meet, TypeOK
        <3>2. MeetDone(t) \/ Tell(t) \/ Own(t) \/ Lost(t) => pc'[t] \in {"lose", "own", "look", "meet"}
            BY DEF MeetDone, Tell, Own, Lost, TypeOK
        <3>3. ASSUME Lose(t) PROVE pc'[t] \in {"lose", "lost"}
            <4>1. PICK o \in cand[t] :
                    IF inGame[o] THEN pc' = [pc EXCEPT ![t] = "lost"] ELSE UNCHANGED pc
                BY <3>3 DEF Lose
            <4> QED
                BY <3>3, <4>1 DEF Lose, TypeOK
        <3> QED
            BY <3>1, <3>2, <3>3 DEF Busy
    <2> HIDE DEF At, Goto, body, local
    <2> QED
        BY <2>1, <2>2, <2>4, <2>5, <2>6 DEF Step
<1>2. ~RemoveServerObject(t)
    BY <1>a DEF RemoveServerObject, TypeOK
<1>3. CASE MoveRefused(t)
    <2>1. UNCHANGED <<pos, inGame, listed, view>> /\ pc[t] = "origin"
        BY <1>3 DEF MoveRefused
    <2>2. \A q \in Players : Resting(q)
        BY <2>1 DEF Resting
    <2>3. \A o \in Others(p) : o \in Players /\ p \in Others(o)
        BY <1>a DEF Others
    <2> QED
        BY <1>a, <2>1, <2>2, <2>3 DEF InPlace, InSight
<1>4. CASE LoseDone(t) \/ AddServerObject(t)
    <2>1. /\ pc'[t] = "done" /\ UNCHANGED <<pos, listed, view, kind, near>>
          /\ kind[t] # "leave"
          /\ \A o \in Others(p) : inGame'[o] = inGame[o]
        <3>1. CASE LoseDone(t)
            BY <3>1 DEF LoseDone, TypeOK, RolesKept
        <3>2. CASE AddServerObject(t)
            BY <3>2 DEF AddServerObject, TypeOK, RolesKept, Others
        <3> QED
            BY <1>4, <3>1, <3>2
    <2>2. Places(t) /\ pc[t] \in {"lose", "insert"}
        <3>1. CASE LoseDone(t)
            BY <2>1, <3>1 DEF LoseDone, Rounds
        <3>2. CASE AddServerObject(t)
            BY <2>1, <3>2 DEF AddServerObject, Rounds, RolesKept
        <3> QED
            BY <1>4, <3>1, <3>2
    <2>3. p \in listed'[SectorOf(pos'[p])]
        BY <2>1, <2>2 DEF Places
    <2>4. ASSUME NEW o \in Others(p), inGame'[o], p \in view'[o] PROVE o \in near'[t]
        <3>1. CASE LoseDone(t)
            <4>1. pc[t] = "lose" /\ cand[t] = {} /\ inGame = inGame'
                BY <3>1 DEF LoseDone
            <4>2. Back(t)
                BY <2>1, <4>1 DEF Rounds, LoginPoints
            <4> QED
                BY <2>1, <2>4, <4>1, <4>2 DEF Back
        <3>2. CASE AddServerObject(t)
            <4>1. kind'[t] = "login"
                BY <2>1, <3>2 DEF AddServerObject, RolesKept
            <4> QED
                BY <2>1, <2>4, <4>1 DEF Exact, LoginLists
        <3> QED
            BY <1>4, <3>1, <3>2
    <2>5. \A o \in Others(p) : inGame'[o] => o \in listed'[SectorOf(pos'[o])]
        BY OthersInSight
    <2>6. TypeOK' /\ Exact(t)' /\ kind'[t] # "teleport"
        <3>1. [Next]_vars
            BY DEF Next
        <3> QED
            BY <2>1, <3>1, TypingStep
    <2> HIDE DEF p
    <2>7. ASSUME NEW o \in Others(p), inGame'[o]
          PROVE  /\ o \in view'[p] <=> CanSee(pos'[p], pos'[o])
                 /\ p \in view'[o] <=> CanSee(pos'[o], pos'[p])
        <3>1. p \in Players /\ o \in Players /\ pos'[p] \in Pos /\ pos'[o] \in Pos
            BY <1>a, <2>6, <2>7 DEF Others, TypeOK, p
        <3>2. near'[t] = Seen(t)' /\ todo'[t] = {}
            BY <2>1, <2>6 DEF Exact, Search, Looking
        <3>3. CanSee(pos'[p], pos'[o]) => SectorOf(pos'[o]) \in Neighbours(pos'[p])
            BY <3>1, SeenIsNeighbour
        <3>4. o \in near'[t] <=> CanSee(pos'[p], pos'[o])
            BY <2>5, <2>7, <3>1, <3>2, <3>3 DEF Seen, Others, p
        <3>5. (o \in view'[p] <=> o \in near'[t]) /\ (o \in near'[t] => p \in view'[o])
            BY <2>1, <2>6, <2>7 DEF Exact, LoginLists, OtherLists, Pending, Untold, p
        <3> QED
            BY <2>4, <2>7, <3>1, <3>4, <3>5, SightIsMutual
    <2> QED
        BY <2>3, <2>7 DEF p
<1> QED
    BY <1>1, <1>2, <1>3, <1>4

Sights == Views /\ CalmQuiet /\ CalmWorld

\* Nobody ran: a handler that begins finds everybody at rest.
LEMMA BeginCalm ==
    ASSUME Sights, NEW t \in Threads, Calm',
           BeginLogin(t) \/ BeginMove(t) \/ BeginTeleport(t) \/ BeginRevive(t) \/ BeginLeave(t)
    PROVE  (InPlace /\ InSight /\ Rounds)'
<1> USE DEF Calm
<1>1. /\ calm /\ ~teleported /\ ~BeginTeleport(t)
      /\ UNCHANGED <<pos, inGame, listed, view, to>>
      /\ \A v \in Threads : ~Busy(v)
    <2>1. ASSUME NEW k, NEW point, Begin(t, k, point) PROVE calm /\ \A v \in Threads : ~Busy(v)
        BY <2>1 DEF Begin
    <2>2. calm /\ \A v \in Threads : ~Busy(v)
        BY <2>1 DEF BeginLogin, BeginMove, BeginTeleport, BeginRevive, BeginLeave
    <2>3. ~BeginTeleport(t)
        BY DEF BeginTeleport
    <2>4. UNCHANGED <<pos, inGame, listed, view, to, teleported>>
        BY <2>3 DEF BeginLogin, BeginMove, BeginRevive, BeginLeave, body
    <2> QED
        BY <2>2, <2>3, <2>4
<1>2. \A q \in Players : Resting(q)
    BY <1>1 DEF Resting
<1>3. TypeOK /\ RolesKept /\ Strangers /\ InPlace /\ InSight
    BY <1>1 DEF Sights, Views, CalmWorld
<1>4. InPlace'
    BY <1>1, <1>2, <1>3 DEF InPlace
<1>5. InSight'
    BY <1>1, <1>2, <1>3 DEF InSight, Others
<1>6. ASSUME NEW u \in Threads, u # t PROVE pc'[u] \in {"off", "idle", "done"}
    <2>1. pc'[u] = pc[u]
        BY <1>3, <1>6 DEF BeginLogin, BeginMove, BeginTeleport, BeginRevive, BeginLeave, Begin, Goto, TypeOK
    <2> QED
        BY <1>1, <2>1 DEF Busy
<1>7. \/ pc'[t] = "origin"
      \/ kind'[t] = "leave"
      \/ pc'[t] = "enterSector" /\ kind'[t] = "login" /\ to[t] = pos[Owner(t)]
    <2>1. CASE BeginLogin(t)
        <3>1. pc[t] = "off" /\ pc'[t] = "enterSector" /\ kind'[t] = "login"
            BY <1>3, <2>1 DEF BeginLogin, Begin, At, Goto, TypeOK
        <3>2. t = Session(Owner(t)) /\ Owner(t) \in Players
            BY <1>3, <3>1, ThreadNames DEF RolesKept
        <3>3. NotYet(Owner(t))
            BY <3>1, <3>2 DEF NotYet
        <3> QED
            BY <1>3, <3>1, <3>2, <3>3 DEF Strangers
    <2>2. CASE BeginMove(t) \/ BeginRevive(t)
        BY <1>3, <2>2 DEF BeginMove, BeginRevive, Begin, Goto, TypeOK
    <2>3. CASE BeginLeave(t)
        BY <1>3, <2>3 DEF BeginLeave, Begin, TypeOK
    <2> QED
        BY <1>1, <2>1, <2>2, <2>3
<1>8. \A u \in Threads :
        /\ kind'[u] # "leave" => Places(u)'
        /\ kind'[u] \notin {"leave", "login"} => Back(u)'
    BY <1>1, <1>6, <1>7 DEF Places, Back
<1> QED
    BY <1>4, <1>5, <1>8 DEF Rounds

\* A handler runs by itself.
LEMMA StepCalm ==
    ASSUME Sights, Views', NEW t \in Threads, Step(t), Busy(t), Calm'
    PROVE  (InPlace /\ InSight /\ Rounds)'
<1> DEFINE p == Owner(t)
<1>a. p \in Players
    BY ThreadParts
<1>1. Calm /\ UNCHANGED <<quiet, calm, teleported>>
    BY StepsAlone DEF Sights, Views, Calm, history
<1>2. /\ TypeOK /\ RolesKept /\ Alone /\ QuietRound /\ LoginPoints
      /\ InPlace /\ InSight /\ Rounds /\ CalmQuiet
    BY <1>1, StrangersPoints DEF Sights, Views, CalmWorld
<1>3. quiet[t] /\ quiet'[t] /\ kind[t] # "teleport"
    BY <1>1, <1>2 DEF CalmQuiet, Calm
<1>4. \A u \in Threads : u # t => ~Busy(u) /\ pc'[u] \in {"off", "idle", "done"}
    BY <1>2, <1>3, StepsAlone DEF Alone, Busy
<1>5. pc'[t] = "done" /\ kind'[t] # "leave" => Exact(t)'
    BY <1>3 DEF Views, QuietRound, Round
<1>6. kind[t] # "leave" /\ pc[t] \in Round => Exact(t)
    BY <1>2, <1>3 DEF QuietRound
<1>7. Rounds'
    <2>1. ASSUME NEW u \in Threads, u # t PROVE Places(u)' /\ Back(u)'
        BY <1>4, <2>1 DEF Places, Back
    <2>2. kind'[t] # "leave" /\ (inGame'[p] \/ kind'[t] = "login") => Places(t)'
        BY <1>2, <1>3, <1>4, PlacesStep DEF Rounds
    <2>3. kind'[t] \notin {"leave", "login"} /\ inGame'[p] => Back(t)'
        BY <1>2, <1>3, <1>4, <1>6, BackStep DEF Rounds
    <2> QED
        BY <2>1, <2>2, <2>3 DEF Rounds
<1>8. Resting(p)' => ~Busy(t)' \/ pc'[t] = "origin"
    BY DEF Resting
<1>9. inGame'[p] /\ Resting(p)' =>
        /\ p \in listed'[SectorOf(pos'[p])]
        /\ \A o \in Others(p) : inGame'[o] =>
            /\ o \in view'[p] <=> CanSee(pos'[p], pos'[o])
            /\ p \in view'[o] <=> CanSee(pos'[o], pos'[p])
    BY <1>2, <1>3, <1>4, <1>5, <1>8, EndStep
<1>10. /\ \A q \in Others(p) : inGame'[q] => q \in listed'[SectorOf(pos'[q])]
       /\ \A q \in Others(p) : \A o \in Others(p) \ {q} :
            inGame'[q] /\ inGame'[o] => (o \in view'[q] <=> CanSee(pos'[q], pos'[o]))
    BY <1>2, <1>3, <1>4, OthersInSight
<1>11. InPlace'
    BY <1>9, <1>10 DEF InPlace, Others
<1>12. InSight'
    <2>1. SUFFICES ASSUME NEW q \in Players, NEW o \in Others(q), inGame'[q], inGame'[o], Resting(q)', Resting(o)'
                   PROVE  o \in view'[q] <=> CanSee(pos'[q], pos'[o])
        BY DEF InSight
    <2>2. CASE q = p
        BY <1>9, <2>1, <2>2
    <2>3. CASE o = p
        BY <1>9, <2>1, <2>3 DEF Others
    <2>4. CASE q # p /\ o # p
        BY <1>10, <2>1, <2>4 DEF Others
    <2> QED
        BY <2>2, <2>3, <2>4
<1> QED
    BY <1>7, <1>11, <1>12

LEMMA CalmStep == Sights /\ [Next]_vars => CalmWorld'
<1> SUFFICES ASSUME Sights, [Next]_vars, Calm' PROVE (InPlace /\ InSight /\ Rounds)'
    BY DEF CalmWorld
<1>1. Views /\ Views'
    BY ViewsStep DEF Sights
<1>2. ASSUME UNCHANGED <<pos, inGame, listed, view, pc, local, calm, teleported>>
      PROVE  (InPlace /\ InSight /\ Rounds)'
    <2>1. InPlace /\ InSight /\ Rounds
        BY <1>2 DEF Sights, CalmWorld, Calm
    <2> QED
        BY <1>2, <2>1 DEF InPlace, InSight, Rounds, Resting, Busy, Places, Back, Others, local
<1>3. ASSUME NEW p \in Players, Die(p) PROVE (InPlace /\ InSight /\ Rounds)'
    BY <1>2, <1>3 DEF Die, local
<1>4. ASSUME UNCHANGED vars PROVE (InPlace /\ InSight /\ Rounds)'
    BY <1>2, <1>4 DEF vars, body, local, history
<1>5. ASSUME NEW t \in Threads, BeginLogin(t) \/ BeginMove(t) \/ BeginTeleport(t) \/ BeginRevive(t) \/ BeginLeave(t)
      PROVE  (InPlace /\ InSight /\ Rounds)'
    BY <1>5, BeginCalm
<1>6. ASSUME NEW t \in Threads, Step(t), Busy(t) PROVE (InPlace /\ InSight /\ Rounds)'
    BY <1>1, <1>6, StepCalm
<1>7. ASSUME NEW t \in Threads, Return(t) PROVE (InPlace /\ InSight /\ Rounds)'
    <2>1. /\ UNCHANGED <<pos, inGame, listed, view, calm, teleported, cand, cur>>
          /\ pc[t] = "done" /\ pc'[t] = "idle"
          /\ \A u \in Threads : u # t =>
                /\ pc'[u] = pc[u] /\ kind'[u] = kind[u] /\ old'[u] = old[u] /\ near'[u] = near[u]
                /\ from'[u] = from[u] /\ to'[u] = to[u]
        BY <1>1, <1>7 DEF Return, At, Goto, body, history, Views, TypeOK
    <2>2. InPlace /\ InSight /\ Rounds
        BY <2>1 DEF Sights, CalmWorld, Calm
    <2>3. \A q \in Players : Resting(q)' => Resting(q)
        BY <2>1 DEF Resting, Busy
    <2>4. InPlace' /\ InSight'
        BY <2>1, <2>2, <2>3 DEF InPlace, InSight, Others
    <2>5. Places(t)' /\ Back(t)'
        BY <2>1 DEF Places, Back
    <2>6. ASSUME NEW u \in Threads, u # t
          PROVE  (Places(u)' <=> Places(u)) /\ (Back(u)' <=> Back(u))
        BY <2>1, <2>6 DEF Places, Back
    <2> QED
        BY <2>1, <2>2, <2>4, <2>5, <2>6 DEF Rounds
<1>8. ASSUME NEW t \in Threads, Step(t) PROVE Return(t) \/ Busy(t)
    BY <1>1, <1>8, StepsAlone DEF Views
<1> QED
    BY <1>3, <1>4, <1>5, <1>6, <1>7, <1>8 DEF Next

LEMMA SightsImplyViewIsSight == Sights => ViewIsSight
<1> SUFFICES ASSUME Sights, calm, ~teleported, \A t \in Threads : ~Busy(t),
                    NEW p \in Players, NEW o \in Others(p), inGame[p], inGame[o]
             PROVE  o \in view[p] <=> CanSee(pos[p], pos[o])
    BY DEF ViewIsSight
<1>1. InSight
    BY DEF Sights, CalmWorld, Calm
<1>2. Resting(p) /\ Resting(o)
    BY DEF Resting
<1> QED
    BY <1>1, <1>2 DEF InSight

\* As long as nobody has teleported and the handlers of all players have run
\* one after the other, the view lists are the sight of the players in the
\* world, both ways, on any board and for any number of players
\* (PacketFunc.cpp:92-193, 254-489, Player.cpp:143-374).
THEOREM CalmViewsAreSight == Spec => []ViewIsSight
<1>1. Init => Sights
    BY ViewsInit, CalmInit DEF Sights
<1>2. Sights /\ [Next]_vars => Sights'
    BY ViewsStep, CalmQuietStep, CalmStep DEF Sights, Views
<1>3. Sights => ViewIsSight
    BY SightsImplyViewIsSight
<1> QED
    BY <1>1, <1>2, <1>3, PTL DEF Spec
=============================================================================
