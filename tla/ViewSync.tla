------------------------------ MODULE ViewSync -------------------------------
(***************************************************************************)
(* Who sees whom.  CS_LOGIN, CS_MOVE, CS_TELEPORT and Player::Revive each  *)
(* place a player on the board, enter him into a sector, look through the  *)
(* sectors around for who is in sight, and bring the view lists of both    *)
(* sides up to date (PacketFunc.cpp, Player.cpp); PostDisconnect takes him *)
(* out (Session.cpp).                                                      *)
(*                                                                         *)
(* Each player has three threads: the worker with his receive completion,  *)
(* which handles his packets one at a time; a worker with his REVIVE       *)
(* event; and the worker that disconnects him, on the send path perhaps    *)
(* while the others are busy.  One step is one access to the state they    *)
(* share, with two exceptions: the view list and the position are read     *)
(* together when a handler starts to look around, and an object's presence *)
(* and both positions when it looks at it.  Other threads' steps between   *)
(* these reads only matter to the view lists, about which the properties   *)
(* speak when no other handler runs.                                       *)
(*                                                                         *)
(* Left out: the packets sent after each change, which follow the view     *)
(* lists; monsters and potions (a handler wakes the one and shows the      *)
(* other, and enters their ids into its player's own list); the interval   *)
(* between two moves; a disconnection during the login (PlayerSession).    *)
(* An object's position is read and written as a whole.                    *)
(***************************************************************************)
EXTENDS Board, FiniteSets

CONSTANTS
    Players,
    StartPositions, \* where the database may say players stand
    MaxHandlers     \* packets handled and events, logins not counted (bounds the model)

ASSUME ViewAssumption ==
    /\ StartPositions \subseteq Pos
    /\ MaxHandlers \in Nat

Roles == {"session", "reviver", "closer"}

Threads == Players \X Roles

\* The player a thread works for.
Owner(t) == t[1]

VARIABLES
    pos,        \* m_pos of each player
    startPos,   \* m_startPos
    alive,      \* m_alive
    inGame,     \* the object table has the player
    listed,     \* m_serverObjectsList of each sector
    view,       \* m_viewList of each player
    pc,         \* where each thread is
    kind,       \* the handler it is in
    from, to,   \* the positions that select the old and the new sector
    old,        \* oldViewList
    near,       \* nearList
    todo,       \* sectors still to look through
    cand,       \* ids still to look at, in the loop the thread is in
    cur,        \* the object the loop is at
    quiet,      \* history: no other handler ran since this one began
    calm,       \* history: no two handlers ever ran at once
    teleported, \* history: somebody has teleported
    handled     \* handlers begun

body == <<pos, startPos, alive, inGame>>
local == <<kind, from, to, old, near, todo, cand, cur>>
history == <<quiet, calm, teleported, handled>>
vars == <<body, listed, view, pc, local, history>>

Nobody == "nobody"

Kinds == {"none", "login", "move", "teleport", "revive", "leave"}

Points == {"off", "idle", "origin", "start", "place", "aim", "leaveSector", "enterSector", "copy", "scan",
           "look", "meet", "tell", "own", "lose", "lost", "insert", "erase", "done"}

Init ==
    /\ pos \in [Players -> StartPositions]
    /\ startPos = pos
    /\ alive = [p \in Players |-> TRUE]
    /\ inGame = [p \in Players |-> FALSE]
    /\ listed = [s \in Sectors |-> {}]
    /\ view = [p \in Players |-> {}]
    /\ pc = [t \in Threads |-> IF t[2] = "session" THEN "off" ELSE "idle"]
    /\ kind = [t \in Threads |-> "none"]
    /\ from = [t \in Threads |-> pos[Owner(t)]]
    /\ to = from
    /\ old = [t \in Threads |-> {}]
    /\ near = old
    /\ todo = old
    /\ cand = old
    /\ cur = [t \in Threads |-> Nobody]
    /\ quiet = [t \in Threads |-> FALSE]
    /\ calm = TRUE
    /\ teleported = FALSE
    /\ handled = 0

Busy(t) == pc[t] \notin {"off", "idle", "done"}

At(t, point) == pc[t] = point

Goto(t, point) == pc' = [pc EXCEPT ![t] = point]

\* A handler begins: those that run are disturbed, and it is if any runs.
Begin(t, k, point) ==
    /\ kind' = [kind EXCEPT ![t] = k]
    /\ Goto(t, point)
    /\ quiet' = [u \in Threads |-> IF u = t THEN \A v \in Threads : ~Busy(v) ELSE FALSE]
    /\ calm' = (calm /\ \A v \in Threads : ~Busy(v))

Bounded == handled < MaxHandlers /\ handled' = handled + 1

(***************************************************************************)
(* The beginnings of the handlers.                                         *)
(***************************************************************************)

\* CS_LOGIN enters the sector of the position the database has.
BeginLogin(t) ==
    /\ At(t, "off")
    /\ Begin(t, "login", "enterSector")
    /\ UNCHANGED <<body, listed, view, from, to, old, near, todo, cand, cur, teleported, handled>>

\* CS_MOVE of a live player.
BeginMove(t) ==
    /\ At(t, "idle") /\ t[2] = "session"
    /\ alive[Owner(t)]
    /\ Bounded
    /\ Begin(t, "move", "origin")
    /\ UNCHANGED <<body, listed, view, from, to, old, near, todo, cand, cur, teleported>>

\* CS_TELEPORT of a live player.
BeginTeleport(t) ==
    /\ At(t, "idle") /\ t[2] = "session"
    /\ alive[Owner(t)]
    /\ Bounded
    /\ teleported' = TRUE
    /\ Begin(t, "teleport", "origin")
    /\ UNCHANGED <<body, listed, view, from, to, old, near, todo, cand, cur>>

\* A REVIVE event that finds its player in the table, and wins the exchange.
BeginRevive(t) ==
    /\ At(t, "idle") /\ t[2] = "reviver"
    /\ inGame[Owner(t)] /\ ~alive[Owner(t)]
    /\ Bounded
    /\ alive' = [alive EXCEPT ![Owner(t)] = TRUE]
    /\ Begin(t, "revive", "origin")
    /\ UNCHANGED <<pos, startPos, inGame, listed, view, from, to, old, near, todo, cand, cur, teleported>>

\* PostDisconnect of a player in the table: the sector of his position.
BeginLeave(t) ==
    /\ At(t, "idle") /\ t[2] = "closer"
    /\ inGame[Owner(t)]
    /\ Bounded
    /\ from' = [from EXCEPT ![t] = pos[Owner(t)]]
    /\ Begin(t, "leave", "leaveSector")
    /\ UNCHANGED <<body, listed, view, to, old, near, todo, cand, cur, teleported>>

\* A monster's blow, which takes no part in the views.
Die(p) ==
    /\ inGame[p] /\ alive[p]
    /\ Bounded
    /\ alive' = [alive EXCEPT ![p] = FALSE]
    /\ UNCHANGED <<pos, startPos, inGame, listed, view, pc, local, quiet, calm, teleported>>

(***************************************************************************)
(* The position and the sectors.                                           *)
(***************************************************************************)

\* Where he stands selects the sector he leaves; where he goes is one step in a
\* direction,
Beside(p) ==
    {[x |-> p.x + step[1], y |-> p.y + step[2]] : step \in {<<0, -1>>, <<0, 1>>, <<-1, 0>>, <<1, 0>>}}

MoveTo(t) ==
    /\ At(t, "origin") /\ kind[t] = "move"
    /\ from' = [from EXCEPT ![t] = pos[Owner(t)]]
    /\ \E next \in Beside(pos[Owner(t)]) :
        /\ CanGo(next)
        /\ to' = [to EXCEPT ![t] = next]
    /\ Goto(t, "place")
    /\ UNCHANGED <<body, listed, view, kind, old, near, todo, cand, cur, history>>

\* which the board may refuse,
MoveRefused(t) ==
    /\ At(t, "origin") /\ kind[t] = "move"
    /\ \E next \in Beside(pos[Owner(t)]) : ~CanGo(next)
    /\ kind' = [kind EXCEPT ![t] = "none"]
    /\ Goto(t, "idle")
    /\ UNCHANGED <<body, listed, view, from, to, old, near, todo, cand, cur, history>>

\* any position the board allows,
TeleportTo(t) ==
    /\ At(t, "origin") /\ kind[t] = "teleport"
    /\ from' = [from EXCEPT ![t] = pos[Owner(t)]]
    /\ \E next \in Pos :
        /\ CanGo(next)
        /\ to' = [to EXCEPT ![t] = next]
    /\ Goto(t, "place")
    /\ UNCHANGED <<body, listed, view, kind, old, near, todo, cand, cur, history>>

\* or m_startPos, read a step later.
ReviveFrom(t) ==
    /\ At(t, "origin") /\ kind[t] = "revive"
    /\ from' = [from EXCEPT ![t] = pos[Owner(t)]]
    /\ Goto(t, "start")
    /\ UNCHANGED <<body, listed, view, kind, to, old, near, todo, cand, cur, history>>

ReviveTo(t) ==
    /\ At(t, "start") /\ kind[t] = "revive"
    /\ to' = [to EXCEPT ![t] = startPos[Owner(t)]]
    /\ Goto(t, "place")
    /\ UNCHANGED <<body, listed, view, kind, from, old, near, todo, cand, cur, history>>

\* SetPos.
Place(t) ==
    /\ At(t, "place")
    /\ pos' = [pos EXCEPT ![Owner(t)] = to[t]]
    /\ Goto(t, IF kind[t] = "teleport" THEN "start" ELSE "aim")
    /\ UNCHANGED <<startPos, alive, inGame, listed, view, local, history>>

\* SetStartPos of a teleport.
SetStartPos(t) ==
    /\ At(t, "start") /\ kind[t] = "teleport"
    /\ startPos' = [startPos EXCEPT ![Owner(t)] = to[t]]
    /\ Goto(t, "aim")
    /\ UNCHANGED <<pos, alive, inGame, listed, view, local, history>>

\* The new sector: of the position a move computed, else of the position as
\* it is now.  A handler that stays in its sector changes no list; a teleport
\* enters it anew.
Aim(t) ==
    /\ At(t, "aim")
    /\ LET next == IF kind[t] = "move" THEN to[t] ELSE pos[Owner(t)] IN
        /\ to' = [to EXCEPT ![t] = next]
        /\ Goto(t, IF SectorOf(from[t]) # SectorOf(next) THEN "leaveSector"
                   ELSE IF kind[t] = "teleport" THEN "enterSector"
                   ELSE "copy")
    /\ UNCHANGED <<body, listed, view, kind, from, old, near, todo, cand, cur, history>>

LeaveSector(t) ==
    /\ At(t, "leaveSector")
    /\ listed' = [listed EXCEPT ![SectorOf(from[t])] = @ \ {Owner(t)}]
    /\ Goto(t, IF kind[t] = "leave" THEN "erase" ELSE "enterSector")
    /\ UNCHANGED <<body, view, local, history>>

\* Mutation: the new sector is left alone.
EnterNoSector(t) ==
    /\ At(t, "enterSector")
    /\ Goto(t, "copy")
    /\ UNCHANGED <<body, listed, view, local, history>>

EnterSector(t) ==
    /\ At(t, "enterSector")
    /\ listed' = [listed EXCEPT ![SectorOf(to[t])] = @ \union {Owner(t)}]
    /\ Goto(t, "copy")
    /\ UNCHANGED <<body, view, local, history>>

(***************************************************************************)
(* Looking around.                                                         *)
(***************************************************************************)

\* A copy of the view list, and the list of the sectors around.  (CS_LOGIN
\* copies none: his list is empty.)
CopyView(t) ==
    /\ At(t, "copy")
    /\ old' = [old EXCEPT ![t] = IF kind[t] = "login" THEN {} ELSE view[Owner(t)]]
    /\ todo' = [todo EXCEPT ![t] = Neighbours(pos[Owner(t)])]
    /\ near' = [near EXCEPT ![t] = {}]
    /\ Goto(t, "scan")
    /\ UNCHANGED <<body, listed, view, kind, from, to, cand, cur, history>>

\* A copy of the list of the next sector.
ScanSector(t) ==
    /\ At(t, "scan")
    /\ \E s \in todo[t] :
        /\ todo' = [todo EXCEPT ![t] = @ \ {s}]
        /\ cand' = [cand EXCEPT ![t] = listed[s] \ {Owner(t)}]
    /\ Goto(t, "look")
    /\ UNCHANGED <<body, listed, view, kind, from, to, old, near, cur, history>>

\* The last sector is done: CS_LOGIN is ready to enter the table, the others
\* go through nearList.
ScanDone(t) ==
    /\ At(t, "scan") /\ todo[t] = {}
    /\ Goto(t, IF kind[t] = "login" THEN "insert" ELSE "meet")
    /\ cand' = [cand EXCEPT ![t] = near[t]]
    /\ UNCHANGED <<body, listed, view, kind, from, to, old, near, todo, cur, history>>

\* The object is looked up and its position read.  CS_LOGIN acts at once on
\* whom it sees, the others note him.
Look(t) ==
    /\ At(t, "look")
    /\ \E o \in cand[t] :
        LET sees == inGame[o] /\ CanSee(pos[Owner(t)], pos[o]) IN
        /\ cand' = [cand EXCEPT ![t] = @ \ {o}]
        /\ near' = [near EXCEPT ![t] = IF sees THEN @ \union {o} ELSE @]
        /\ IF sees /\ kind[t] = "login"
           THEN cur' = [cur EXCEPT ![t] = o] /\ Goto(t, "tell")
           ELSE UNCHANGED <<cur, pc>>
    /\ UNCHANGED <<body, listed, view, kind, from, to, old, todo, history>>

LookDone(t) ==
    /\ At(t, "look") /\ cand[t] = {}
    /\ Goto(t, "scan")
    /\ UNCHANGED <<body, listed, view, local, history>>

(***************************************************************************)
(* Those in sight.                                                         *)
(***************************************************************************)

\* The next of nearList, looked up again.
Meet(t) ==
    /\ At(t, "meet")
    /\ \E o \in cand[t] :
        /\ cand' = [cand EXCEPT ![t] = @ \ {o}]
        /\ IF inGame[o] THEN cur' = [cur EXCEPT ![t] = o] /\ Goto(t, "tell")
           ELSE UNCHANGED <<cur, pc>>
    /\ UNCHANGED <<body, listed, view, kind, from, to, old, near, todo, history>>

\* Mutation: the difference is taken the other way round.
MeetDoneSwapped(t) ==
    /\ At(t, "meet") /\ cand[t] = {}
    /\ cand' = [cand EXCEPT ![t] = near[t] \ old[t]]
    /\ Goto(t, "lose")
    /\ UNCHANGED <<body, listed, view, kind, from, to, old, near, todo, cur, history>>

MeetDone(t) ==
    /\ At(t, "meet") /\ cand[t] = {}
    /\ cand' = [cand EXCEPT ![t] = old[t] \ near[t]]
    /\ Goto(t, "lose")
    /\ UNCHANGED <<body, listed, view, kind, from, to, old, near, todo, cur, history>>

\* The id a handler enters into, and deletes from, the list of another
\* player o: in CS_TELEPORT a local "player" hides the one that teleports.
IdTold(t, o) == IF kind[t] = "teleport" THEN o ELSE Owner(t)

\* InsertViewList of the other, unless he has the id (a test and an insertion
\* that does nothing the second time).
Tell(t) ==
    /\ At(t, "tell")
    /\ view' = [view EXCEPT ![cur[t]] = @ \union {IdTold(t, cur[t])}]
    /\ Goto(t, "own")
    /\ UNCHANGED <<body, listed, local, history>>

\* InsertViewList of his own, for those who are new.
Own(t) ==
    /\ At(t, "own")
    /\ view' = [view EXCEPT ![Owner(t)] = IF cur[t] \in old[t] THEN @ ELSE @ \union {cur[t]}]
    /\ cur' = [cur EXCEPT ![t] = Nobody]
    /\ Goto(t, IF kind[t] = "login" THEN "look" ELSE "meet")
    /\ UNCHANGED <<body, listed, kind, from, to, old, near, todo, cand, history>>

(***************************************************************************)
(* Those out of sight.                                                     *)
(***************************************************************************)

\* The next of oldViewList that is not near; one who left stays in the list.
Lose(t) ==
    /\ At(t, "lose")
    /\ \E o \in cand[t] :
        /\ cand' = [cand EXCEPT ![t] = @ \ {o}]
        /\ IF inGame[o]
           THEN /\ view' = [view EXCEPT ![Owner(t)] = @ \ {o}]
                /\ cur' = [cur EXCEPT ![t] = o]
                /\ Goto(t, "lost")
           ELSE UNCHANGED <<view, cur, pc>>
    /\ UNCHANGED <<body, listed, kind, from, to, old, near, todo, history>>

\* Mutation: he stays in the other's list, as for any id but his own.
LostOneSided(t) ==
    /\ At(t, "lost")
    /\ cur' = [cur EXCEPT ![t] = Nobody]
    /\ Goto(t, "lose")
    /\ UNCHANGED <<body, listed, view, kind, from, to, old, near, todo, cand, history>>

Lost(t) ==
    /\ At(t, "lost")
    /\ view' = [view EXCEPT ![cur[t]] = @ \ {IdTold(t, cur[t])}]
    /\ cur' = [cur EXCEPT ![t] = Nobody]
    /\ Goto(t, "lose")
    /\ UNCHANGED <<body, listed, kind, from, to, old, near, todo, cand, history>>

LoseDone(t) ==
    /\ At(t, "lose") /\ cand[t] = {}
    /\ Goto(t, "done")
    /\ UNCHANGED <<body, listed, view, local, history>>

(***************************************************************************)
(* The object table, and the end of a handler.                             *)
(***************************************************************************)

\* CS_LOGIN's last step.
AddServerObject(t) ==
    /\ At(t, "insert")
    /\ inGame' = [inGame EXCEPT ![Owner(t)] = TRUE]
    /\ Goto(t, "done")
    /\ UNCHANGED <<pos, startPos, alive, listed, view, local, history>>

\* For good: the key keeps a null pointer.
RemoveServerObject(t) ==
    /\ At(t, "erase")
    /\ inGame' = [inGame EXCEPT ![Owner(t)] = FALSE]
    /\ Goto(t, "done")
    /\ UNCHANGED <<pos, startPos, alive, listed, view, local, history>>

\* The worker is free, its local variables are gone.  (The worker that
\* disconnects a player does so once.)
Return(t) ==
    /\ At(t, "done")
    /\ t[2] # "closer"
    /\ Goto(t, "idle")
    /\ kind' = [kind EXCEPT ![t] = "none"]
    /\ from' = [from EXCEPT ![t] = pos[Owner(t)]]
    /\ to' = [to EXCEPT ![t] = pos[Owner(t)]]
    /\ old' = [old EXCEPT ![t] = {}]
    /\ near' = [near EXCEPT ![t] = {}]
    /\ UNCHANGED <<body, listed, view, todo, cand, cur, history>>

Step(t) ==
    \/ MoveTo(t) \/ MoveRefused(t) \/ TeleportTo(t) \/ ReviveFrom(t) \/ ReviveTo(t)
    \/ Place(t) \/ SetStartPos(t) \/ Aim(t) \/ LeaveSector(t) \/ EnterSector(t)
    \/ CopyView(t) \/ ScanSector(t) \/ ScanDone(t) \/ Look(t) \/ LookDone(t)
    \/ Meet(t) \/ MeetDone(t) \/ Tell(t) \/ Own(t)
    \/ Lose(t) \/ Lost(t) \/ LoseDone(t)
    \/ AddServerObject(t) \/ RemoveServerObject(t) \/ Return(t)

Next ==
    \/ \E t \in Threads :
        \/ BeginLogin(t) \/ BeginMove(t) \/ BeginTeleport(t) \/ BeginRevive(t) \/ BeginLeave(t)
        \/ Step(t)
    \/ \E p \in Players : Die(p)

Spec == Init /\ [][Next]_vars

(***************************************************************************)
(* Properties                                                              *)
(***************************************************************************)

TypeOK ==
    /\ pos \in [Players -> Pos]
    /\ startPos \in [Players -> Pos]
    /\ alive \in [Players -> BOOLEAN]
    /\ inGame \in [Players -> BOOLEAN]
    /\ listed \in [Sectors -> SUBSET Players]
    /\ view \in [Players -> SUBSET Players]
    /\ pc \in [Threads -> Points]
    /\ kind \in [Threads -> Kinds]
    /\ from \in [Threads -> Pos]
    /\ to \in [Threads -> Pos]
    /\ old \in [Threads -> SUBSET Players]
    /\ near \in [Threads -> SUBSET Players]
    /\ todo \in [Threads -> SUBSET Sectors]
    /\ cand \in [Threads -> SUBSET Players]
    /\ cur \in [Threads -> Players \union {Nobody}]
    /\ \A t \in Threads : pc[t] \in {"tell", "own", "lost"} => cur[t] \in Players
    /\ quiet \in [Threads -> BOOLEAN]
    /\ calm \in BOOLEAN
    /\ teleported \in BOOLEAN
    /\ handled \in Nat

Others(p) == Players \ {p}

Idle(p) == \A r \in Roles : ~Busy(<<p, r>>)

\* A player in the world for whom no handler runs is listed in some sector,
\* although a revival may overlap a move or a teleport of his: their removals
\* and insertions interleave, but none takes him out of the last sector that
\* lists him without entering him into another (PacketFunc.cpp:254-263,
\* 724-735, Player.cpp:143-151).
NeverLost ==
    \A p \in Players : inGame[p] /\ Idle(p) => \E s \in Sectors : p \in listed[s]

\* Whatever happened before, a handler that runs undisturbed leaves its
\* player with the list of exactly those in the world whom he can see and who
\* are listed around him; and, unless it is a teleport (see IdTold), each of
\* them has him in his list (PacketFunc.cpp:265-489, 737-924).
QuietHandlerIsExact ==
    \A t \in Threads :
        LET p == Owner(t) IN
        At(t, "done") /\ quiet[t] /\ kind[t] # "leave" =>
            \A o \in Others(p) :
                inGame[o] =>
                    /\ o \in view[p] <=>
                            /\ CanSee(pos[p], pos[o])
                            /\ \E s \in Neighbours(pos[p]) : o \in listed[s]
                    /\ kind[t] # "teleport" /\ o \in view[p] => p \in view[o]

\* As long as nobody has teleported and handlers have run one after the
\* other, the view lists are the sight of the players in the world, both
\* ways: logins, moves, deaths, revivals and departures in any order add and
\* drop exactly the right pairs (PacketFunc.cpp:92-193, 254-489, Player.cpp:143-374).
ViewIsSight ==
    calm /\ ~teleported /\ (\A t \in Threads : ~Busy(t)) =>
        \A p \in Players : \A o \in Others(p) :
            inGame[p] /\ inGame[o] => (o \in view[p] <=> CanSee(pos[p], pos[o]))
=============================================================================
