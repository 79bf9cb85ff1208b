----------------------------- MODULE MonsterWalk -----------------------------
(***************************************************************************)
(* A monster that walks among players: the MOVE event of a monster that is *)
(* awake (IOCPCore.cpp), Monster::Move with its four types, Trace,         *)
(* RandomMove and SearchTarget (Monster.cpp), and, on the players' side,   *)
(* what CS_MOVE does about the monster (PacketFunc.cpp).  Both keep the    *)
(* player's view list and tell his client what to show.                    *)
(* Potions lie about; an aggressive monster may go after one.              *)
(*                                                                         *)
(* The monster has one MOVE chain (MonsterLife), so one worker at a time   *)
(* moves it; each player has the worker that handles his packets; and he   *)
(* may be disconnected, or struck dead, at any moment.  One step is one    *)
(* access to what they share; an object is looked up and its position read *)
(* in one step, and DoAstar, which Astar looks at closely, reads both      *)
(* positions in one.  A weak pointer is set and locked as a whole.         *)
(*                                                                         *)
(* Left out: the players' views of each other (ViewSync); the monster's    *)
(* death and revival and the two steps of WakeUp (MonsterLife); what its   *)
(* attack does (Combat); logins, teleports and revivals, which deal with a *)
(* monster by the same loops as CS_MOVE; directions; who sees potions.     *)
(***************************************************************************)
EXTENDS Board, Paths

CONSTANTS
    Players,
    Potions,        \* their ids
    Monster,        \* its id
    MonsterTypes,   \* those it may have
    SearchRange,    \* 5
    Graves,         \* the tiles where other monsters will drop the potions
    MaxHandlers     \* moves handled, blows struck, potions dropped ... (bounds the model)

\* No player: a null m_target.
Nobody == "nobody"

ASSUME WalkAssumption ==
    /\ Monster \notin Players /\ Nobody \notin Players \union Potions
    /\ Players \intersect Potions = {}
    /\ Graves \in [Potions -> Pos \ Obstacles]
    /\ MonsterTypes \subseteq {"PEACE_FIX", "PEACE_ROAMING", "AGRO_FIX", "AGRO_ROAMING"}
    /\ SearchRange \in Nat
    /\ MaxHandlers \in Nat

VARIABLES
    listed,     \* m_serverObjectsList of each sector
    event,      \* a MOVE task of the monster waits
    attack,     \* whom its ATTACK tasks that wait are to strike
    \* The monster:
    type,       \* m_monType
    mpos,       \* m_pos
    active,     \* m_isActive
    target,     \* m_target
    \* its worker:
    mpc,        \* where it is
    seen,       \* keepAlive's players, then newViewList, as far as the scan has come
    before,     \* oldViewList
    next,       \* path[1], or RandomMove's nextPos
    mtodo,      \* sectors still to look through
    mcand,      \* players, and potions, still to look at
    cur,        \* the player a loop is at
    \* The players:
    pos, alive, \* m_pos, m_alive
    presence,   \* in game, out of his sector, out of the object table
    potion,     \* not there yet, in its sector and the object table, or taken
    \* On the screens:
    view,       \* the part of m_viewList that is the monster's id
    shown,      \* the last packets sent to his client show the monster
    \* and the workers in CS_MOVE:
    pc,         \* where each is
    from,       \* prevPos
    to,         \* nextPos
    known,      \* the monster is in oldViewList
    near,       \* the monster is in nearList
    todo,       \* sectors still to look through
    \* History:
    calm,       \* no two of the workers were ever busy at once
    strayed,    \* Trace has left the sector that lists the monster
    lapsed,     \* whom Move has told to forget the monster, but not their lists
    handled     \* handlers begun

taskQueue == <<event, attack>>
monster == <<type, mpos, active, target>>
walk == <<mpc, seen, before, next, mtodo, mcand, cur>>
player == <<pos, alive, presence>>
views == <<view, shown>>
handler == <<pc, from, to, known, near, todo>>
history == <<calm, strayed, lapsed, handled>>
vars == <<listed, taskQueue, monster, walk, player, potion, views, handler, history>>

InGame(p) == presence[p] # "gone"

Init ==
    /\ type \in MonsterTypes
    /\ mpos \in Pos \ Obstacles
    /\ pos \in [Players -> Pos \ Obstacles]
    /\ listed = [s \in Sectors |-> {p \in Players : SectorOf(pos[p]) = s}
                                      \union {m \in {Monster} : SectorOf(mpos) = s}]
    \* Logins have woken the monster and shown it.
    /\ view = {p \in Players : CanSee(pos[p], mpos)}
    /\ shown = view
    /\ active = (view # {})
    /\ event = active
    /\ attack = {}
    /\ target = Nobody
    /\ mpc = "idle" /\ seen = {} /\ before = {} /\ next = mpos /\ mtodo = {} /\ mcand = {} /\ cur = Nobody
    /\ alive = [p \in Players |-> TRUE]
    /\ presence = [p \in Players |-> "ingame"]
    /\ potion = [i \in Potions |-> "none"]
    /\ pc = [p \in Players |-> "idle"]
    /\ from = pos /\ to = pos
    /\ known = {} /\ near = {} /\ todo = [p \in Players |-> {}]
    /\ calm = TRUE /\ strayed = FALSE /\ lapsed = {} /\ handled = 0

Busy(p) == pc[p] # "idle" \/ presence[p] = "unlisted"

Quiet == mpc = "idle" /\ \A p \in Players : ~Busy(p)

Bounded == handled < MaxHandlers /\ handled' = handled + 1

(***************************************************************************)
(* EVENT_TYPE::MOVE: is there a player who sees the monster?               *)
(***************************************************************************)

MonsterAt(point) == mpc = point

\* Its list of sectors around, and an empty list of players.
StartScan(point, range) ==
    /\ mpc' = point
    /\ seen' = {}
    /\ mtodo' = Around(mpos, range)
    /\ mcand' = {}

TakeMove ==
    /\ MonsterAt("idle") /\ event
    /\ event' = FALSE
    /\ calm' = (calm /\ Quiet)
    /\ StartScan("watch", ViewRange)
    /\ UNCHANGED <<listed, attack, monster, before, next, cur, player, potion, views, handler, strayed, lapsed, handled>>

Scans == {"watch", "old", "search", "new"}

PotionsIn(s) == {i \in Potions : potion[i] = "lying" /\ SectorOf(Graves[i]) = s}

\* A copy of the list of the next sector, of which only SearchTarget minds the potions.
ScanSector ==
    /\ mpc \in Scans /\ mcand = {}
    /\ \E s \in mtodo :
        /\ mtodo' = mtodo \ {s}
        /\ mcand' = (listed[s] \intersect Players)
                       \union (IF mpc = "search" THEN PotionsIn(s) ELSE {})
    /\ UNCHANGED <<listed, taskQueue, monster, mpc, seen, before, next, cur, player, potion, views, handler, history>>

\* The next player of that list: in the object table, and in sight?
LookAtPlayer ==
    /\ mpc \in Scans \ {"search"}
    /\ \E p \in mcand :
        /\ mcand' = mcand \ {p}
        /\ seen' = IF InGame(p) /\ CanSee(mpos, pos[p]) THEN seen \union {p} ELSE seen
    /\ UNCHANGED <<listed, taskQueue, monster, mpc, before, next, mtodo, cur, player, potion, views, handler, history>>

ScanOver(point) == MonsterAt(point) /\ mtodo = {} /\ mcand = {}

\* keepAlive is false: the chain ends here.
FallAsleep ==
    /\ ScanOver("watch") /\ seen = {}
    /\ active' = FALSE
    /\ mpc' = "idle"
    /\ UNCHANGED <<listed, taskQueue, type, mpos, target, seen, before, next, mtodo, mcand, cur,
                   player, potion, views, handler, history>>

\* Monster::Move begins with oldViewList.
KeepAlive ==
    /\ ScanOver("watch") /\ seen # {}
    /\ StartScan("old", ViewRange)
    /\ UNCHANGED <<listed, taskQueue, monster, before, next, cur, player, potion, views, handler, history>>

(***************************************************************************)
(* Monster::Move: whom to follow.                                          *)
(***************************************************************************)

Agro == type \in {"AGRO_FIX", "AGRO_ROAMING"}
Roaming == type \in {"PEACE_ROAMING", "AGRO_ROAMING"}

\* A player or a potion is in the object table, and where it is.
InTable(o) == IF o \in Potions THEN potion[o] = "lying" ELSE InGame(o)
Where(o) == IF o \in Potions THEN Graves[o] ELSE pos[o]

\* What locking m_target yields: an object that has left the table is
\* destroyed when the last handler has let go of it.
Locked == IF target = Nobody THEN {Nobody}
          ELSE IF InTable(target) THEN {target} ELSE {target, Nobody}

\* The peaceful types follow whoever struck them.  PEACE_FIX without a target
\* returns from Move at once, and the MOVE task is added.
ChooseTarget ==
    /\ ScanOver("old") /\ ~Agro
    /\ before' = seen
    /\ \E t \in Locked :
        mpc' = IF t # Nobody THEN "trace" ELSE IF Roaming THEN "roam" ELSE "again"
    /\ UNCHANGED <<listed, taskQueue, monster, seen, next, mtodo, mcand, cur, player, potion, views, handler, history>>

\* The aggressive types call SearchTarget.
BeginSearch ==
    /\ ScanOver("old") /\ Agro
    /\ before' = seen
    /\ StartScan("search", SearchRange)
    /\ UNCHANGED <<listed, taskQueue, monster, next, cur, player, potion, views, handler, history>>

\* It takes the first it meets in those sectors, in sight or not, for its
\* condition calls CanSee and drops the result (a comma); and a potion too,
\* which it casts to a player.
TakeTarget ==
    /\ MonsterAt("search")
    /\ \E o \in mcand :
        IF InTable(o)
        THEN target' = o /\ mpc' = "trace" /\ mcand' = {} /\ mtodo' = {}
        ELSE mcand' = mcand \ {o} /\ UNCHANGED <<target, mpc, mtodo>>
    /\ UNCHANGED <<listed, taskQueue, type, mpos, active, seen, before, next, cur,
                   player, potion, views, handler, history>>

\* The views are brought up to date from where the monster is now.
BeginNew == StartScan("new", ViewRange)

SearchFails ==
    /\ ScanOver("search")
    /\ IF Roaming THEN mpc' = "roam" /\ UNCHANGED <<seen, mtodo, mcand>> ELSE BeginNew
    /\ UNCHANGED <<listed, taskQueue, monster, before, next, cur, player, potion, views, handler, history>>

(***************************************************************************)
(* Trace.                                                                  *)
(***************************************************************************)

Free == Pos \ Obstacles

\* How far the tiles are from each other, for those that are connected.
Routes == UNION {{<<dest, r[1], r[2]>> : r \in Reached(Free, dest)} : dest \in Free}

\* Mutation: path[0], which is where the monster is.
NoStep(dest) == {mpos}

\* The second tiles of the shortest paths from here to dest.
FirstSteps(dest) ==
    {t \in Adjacent(mpos) \intersect Free :
        \E r \in Routes : r[1] = dest /\ r[2] = t /\ <<dest, mpos, r[3] + 1>> \in Routes}

\* The empty path.
NoPath(dest) == \A r \in Routes : <<r[1], r[2]>> # <<dest, mpos>>

\* A path of one or two tiles.
InReach(dest) == dest = mpos \/ dest \in Adjacent(mpos)

\* DoAstar locks the target and reads both positions.
FindPath ==
    /\ MonsterAt("trace")
    /\ \E t \in Locked :
        IF t = Nobody \/ NoPath(Where(t))
        THEN BeginNew /\ UNCHANGED next
        ELSE /\ IF InReach(Where(t)) THEN mpc' = "reach" /\ UNCHANGED next
                ELSE mpc' = "step" /\ next' \in FirstSteps(Where(t))
             /\ UNCHANGED <<seen, mtodo, mcand>>
    /\ UNCHANGED <<listed, taskQueue, monster, before, cur, player, potion, views, handler, history>>

\* SetPos(path[1]).  No sector hears of it.
TraceStep ==
    /\ MonsterAt("step")
    /\ mpos' = next
    /\ strayed' = (strayed \/ SectorOf(next) # SectorOf(mpos))
    /\ mpc' = "placed"
    /\ UNCHANGED <<listed, taskQueue, type, active, target, seen, before, next, mtodo, mcand, cur,
                   player, potion, views, handler, calm, lapsed, handled>>

\* It locks the target again, and orders an attack on one who is alive: of a
\* potion that is whatever the memory behind it says.
OrderAttack ==
    /\ MonsterAt("reach")
    /\ \E t \in Locked :
        \/ /\ t # Nobody /\ (t \in Players => alive[t])
           /\ attack' = attack \union {t}
        \/ /\ t \in Players => ~alive[t]
           /\ UNCHANGED attack
    /\ mpc' = "placed"
    /\ UNCHANGED <<listed, event, monster, seen, before, next, mtodo, mcand, cur, player, potion, views, handler, history>>

(***************************************************************************)
(* RandomMove.                                                             *)
(***************************************************************************)

\* One step in a direction, which the board may refuse; the radius of 10 is
\* around where the monster is, and never refuses.
RandomMove ==
    /\ MonsterAt("roam")
    /\ \E tile \in Adjacent(mpos) :
        IF ~CanGo(tile) THEN mpc' = "placed" /\ UNCHANGED next
        ELSE /\ next' = tile
             /\ mpc' = IF SectorOf(mpos) # SectorOf(tile) THEN "leaveSector" ELSE "place"
    /\ UNCHANGED <<listed, taskQueue, monster, seen, before, mtodo, mcand, cur, player, potion, views, handler, history>>

MonsterLeavesSector ==
    /\ MonsterAt("leaveSector")
    /\ listed' = [listed EXCEPT ![SectorOf(mpos)] = @ \ {Monster}]
    /\ mpc' = "enterSector"
    /\ UNCHANGED <<taskQueue, monster, seen, before, next, mtodo, mcand, cur, player, potion, views, handler, history>>

\* Mutation: the new sector is left alone, as in Trace.
MonsterEntersNoSector ==
    /\ MonsterAt("enterSector")
    /\ mpc' = "place"
    /\ UNCHANGED <<listed, taskQueue, monster, seen, before, next, mtodo, mcand, cur, player, potion, views, handler, history>>

MonsterEntersSector ==
    /\ MonsterAt("enterSector")
    /\ listed' = [listed EXCEPT ![SectorOf(next)] = @ \union {Monster}]
    /\ mpc' = "place"
    /\ UNCHANGED <<taskQueue, monster, seen, before, next, mtodo, mcand, cur, player, potion, views, handler, history>>

MonsterPlace ==
    /\ MonsterAt("place")
    /\ mpos' = next
    /\ mpc' = "placed"
    /\ UNCHANGED <<listed, taskQueue, type, active, target, seen, before, next, mtodo, mcand, cur,
                   player, potion, views, handler, history>>

(***************************************************************************)
(* Monster::Move: the players who see it now, and those who did.           *)
(***************************************************************************)

\* newViewList is made from where the monster is now.
Placed ==
    /\ MonsterAt("placed")
    /\ BeginNew
    /\ UNCHANGED <<listed, taskQueue, monster, before, next, cur, player, potion, views, handler, history>>

NewDone ==
    /\ ScanOver("new")
    /\ mpc' = "meet"
    /\ mcand' = seen
    /\ UNCHANGED <<listed, taskQueue, monster, seen, before, next, mtodo, cur, player, potion, views, handler, history>>

\* The next of newViewList, looked up again: one who is new learns of the
\* monster, the others are told where it is.
Meet ==
    /\ MonsterAt("meet")
    /\ \E p \in mcand :
        /\ mcand' = mcand \ {p}
        /\ IF InGame(p) /\ p \notin before THEN cur' = p /\ mpc' = "insert" ELSE UNCHANGED <<cur, mpc>>
    /\ UNCHANGED <<listed, taskQueue, monster, seen, before, next, mtodo, player, potion, views, handler, history>>

InsertMonster ==
    /\ MonsterAt("insert")
    /\ view' = view \union {cur}
    /\ mpc' = "add"
    /\ UNCHANGED <<listed, taskQueue, monster, seen, before, next, mtodo, mcand, cur, player, potion, shown, handler, history>>

\* SC_ADD_OBJECT.
SendAdd ==
    /\ MonsterAt("add")
    /\ shown' = shown \union {cur}
    /\ mpc' = "meet" /\ cur' = Nobody
    /\ UNCHANGED <<listed, taskQueue, monster, seen, before, next, mtodo, mcand, player, potion, view, handler, history>>

MeetDone ==
    /\ MonsterAt("meet") /\ mcand = {}
    /\ mpc' = "lose"
    /\ mcand' = before \ seen
    /\ UNCHANGED <<listed, taskQueue, monster, seen, before, next, mtodo, cur, player, potion, views, handler, history>>

\* The next of oldViewList who is not in newViewList; is the monster in his
\* list?
Lose ==
    /\ MonsterAt("lose")
    /\ \E p \in mcand :
        /\ InGame(p)
        /\ mcand' = mcand \ {p}
        /\ IF p \in view THEN cur' = p /\ mpc' = "forget" ELSE UNCHANGED <<cur, mpc>>
    /\ UNCHANGED <<listed, taskQueue, monster, seen, before, next, mtodo, player, potion, views, handler, history>>

\* He has left the object table meanwhile: his lock is taken through a null
\* pointer, and the server comes down.
LoseGone ==
    /\ MonsterAt("lose")
    /\ \E p \in mcand : ~InGame(p)
    /\ mpc' = "down"
    /\ UNCHANGED <<listed, taskQueue, monster, seen, before, next, mtodo, mcand, cur, player, potion, views, handler, history>>

\* His own id is deleted from his list, where it is not, and he is sent
\* SC_REMOVE_OBJECT.
Forget ==
    /\ MonsterAt("forget")
    /\ shown' = shown \ {cur}
    /\ lapsed' = lapsed \union {cur}
    /\ mpc' = "lose" /\ cur' = Nobody
    /\ UNCHANGED <<listed, taskQueue, monster, seen, before, next, mtodo, mcand, player, potion, view, handler,
                   calm, strayed, handled>>

LoseDone ==
    /\ MonsterAt("lose") /\ mcand = {}
    /\ mpc' = "again"
    /\ UNCHANGED <<listed, taskQueue, monster, seen, before, next, mtodo, mcand, cur, player, potion, views, handler, history>>

\* The next task of the chain.  (The locals are gone.)
AddMoveTask ==
    /\ MonsterAt("again")
    /\ event' = TRUE
    /\ mpc' = "idle"
    /\ seen' = {} /\ before' = {} /\ next' = mpos
    /\ UNCHANGED <<listed, attack, monster, mtodo, mcand, cur, player, potion, views, handler, history>>

\* EVENT_TYPE::ATTACK.  What becomes of the player is Die's business; one whose
\* hit points are exactly zero now is not pursued any longer.
TakeAttack(t) ==
    /\ t \in attack
    /\ attack' = attack \ {t}
    /\ \/ UNCHANGED target
       \/ t \in Players /\ InGame(t) /\ ~alive[t] /\ target' = Nobody
    /\ UNCHANGED <<listed, event, type, mpos, active, walk, player, potion, views, handler, history>>

MonsterStep ==
    \/ ScanSector \/ LookAtPlayer \/ FallAsleep \/ KeepAlive
    \/ ChooseTarget \/ BeginSearch \/ TakeTarget \/ SearchFails
    \/ FindPath \/ TraceStep \/ OrderAttack
    \/ RandomMove \/ MonsterLeavesSector \/ MonsterEntersSector \/ MonsterPlace
    \/ Placed \/ NewDone \/ Meet \/ InsertMonster \/ SendAdd \/ MeetDone
    \/ Lose \/ LoseGone \/ Forget \/ LoseDone \/ AddMoveTask

(***************************************************************************)
(* A player's CS_MOVE, as far as the monster is concerned.                 *)
(***************************************************************************)

At(p, point) == pc[p] = point

Goto(p, point) == pc' = [pc EXCEPT ![p] = point]

\* A live player steps onto a tile the board allows, though his other worker
\* may have disconnected him.  (Locals that are not read again are reset.)
BeginMove(p) ==
    /\ At(p, "idle") /\ alive[p]
    /\ Bounded
    /\ from' = [from EXCEPT ![p] = pos[p]]
    /\ \E tile \in Adjacent(pos[p]) : CanGo(tile) /\ to' = [to EXCEPT ![p] = tile]
    /\ Goto(p, "place")
    /\ calm' = (calm /\ Quiet)
    /\ UNCHANGED <<listed, taskQueue, monster, walk, player, potion, views, known, near, todo, strayed, lapsed>>

Place(p) ==
    /\ At(p, "place")
    /\ pos' = [pos EXCEPT ![p] = to[p]]
    /\ Goto(p, IF SectorOf(from[p]) # SectorOf(to[p]) THEN "leaveSector" ELSE "copy")
    /\ UNCHANGED <<listed, taskQueue, monster, walk, alive, presence, potion, views, from, to, known, near, todo, history>>

LeaveSector(p) ==
    /\ At(p, "leaveSector")
    /\ listed' = [listed EXCEPT ![SectorOf(from[p])] = @ \ {p}]
    /\ Goto(p, "enterSector")
    /\ UNCHANGED <<taskQueue, monster, walk, player, potion, views, from, to, known, near, todo, history>>

EnterSector(p) ==
    /\ At(p, "enterSector")
    /\ listed' = [listed EXCEPT ![SectorOf(to[p])] = @ \union {p}]
    /\ Goto(p, "copy")
    /\ UNCHANGED <<taskQueue, monster, walk, player, potion, views, from, to, known, near, todo, history>>

CopyView(p) ==
    /\ At(p, "copy")
    /\ known' = IF p \in view THEN known \union {p} ELSE known \ {p}
    /\ todo' = [todo EXCEPT ![p] = Neighbours(pos[p])]
    /\ from' = [from EXCEPT ![p] = pos[p]]
    /\ Goto(p, "scan")
    /\ UNCHANGED <<listed, taskQueue, monster, walk, player, potion, views, to, near, history>>

\* The list of the next sector, with the monster or without,
LookInSector(p) ==
    /\ At(p, "scan")
    /\ \E s \in todo[p] :
        /\ todo' = [todo EXCEPT ![p] = @ \ {s}]
        /\ Goto(p, IF Monster \in listed[s] THEN "look" ELSE "scan")
    /\ UNCHANGED <<listed, taskQueue, monster, walk, player, potion, views, from, to, known, near, history>>

\* whose position is read next.
LookAtMonster(p) ==
    /\ At(p, "look")
    /\ near' = IF CanSee(pos[p], mpos) THEN near \union {p} ELSE near
    /\ Goto(p, "scan")
    /\ UNCHANGED <<listed, taskQueue, monster, walk, player, potion, views, from, to, known, todo, history>>

EndScan(p) == known' = known \ {p} /\ near' = near \ {p}

\* Mutation: a sleeping monster is left asleep.
LetSleep(p) ==
    /\ At(p, "scan") /\ todo[p] = {} /\ p \in near
    /\ EndScan(p)
    /\ Goto(p, IF p \in known THEN "idle" ELSE "insert")
    /\ UNCHANGED <<listed, taskQueue, monster, walk, player, potion, views, from, to, todo, history>>

\* Monster::WakeUp of a monster in sight; then one that is new is shown, and
\* one that is gone is forgotten.
WakeMonster(p) ==
    /\ At(p, "scan") /\ todo[p] = {} /\ p \in near
    /\ EndScan(p)
    /\ active' = TRUE
    /\ event' = (event \/ ~active)
    /\ Goto(p, IF p \in known THEN "idle" ELSE "insert")
    /\ UNCHANGED <<listed, attack, type, mpos, target, walk, player, potion, views, from, to, todo, history>>

OutOfSight(p) ==
    /\ At(p, "scan") /\ todo[p] = {} /\ p \notin near
    /\ EndScan(p)
    /\ Goto(p, IF p \in known THEN "delete" ELSE "idle")
    /\ UNCHANGED <<listed, taskQueue, monster, walk, player, potion, views, from, to, todo, history>>

InsertViewList(p) ==
    /\ At(p, "insert")
    /\ view' = view \union {p}
    /\ Goto(p, "add")
    /\ UNCHANGED <<listed, taskQueue, monster, walk, player, potion, shown, from, to, known, near, todo, history>>

ShowMonster(p) ==
    /\ At(p, "add")
    /\ shown' = shown \union {p}
    /\ Goto(p, "idle")
    /\ UNCHANGED <<listed, taskQueue, monster, walk, player, potion, view, from, to, known, near, todo, history>>

DeleteViewList(p) ==
    /\ At(p, "delete")
    /\ view' = view \ {p}
    /\ Goto(p, "remove")
    /\ UNCHANGED <<listed, taskQueue, monster, walk, player, potion, shown, from, to, known, near, todo, history>>

\* Mutation: the client is not told.
HideNothing(p) ==
    /\ At(p, "remove")
    /\ Goto(p, "idle")
    /\ UNCHANGED <<listed, taskQueue, monster, walk, player, potion, views, from, to, known, near, todo, history>>

HideMonster(p) ==
    /\ At(p, "remove")
    /\ shown' = shown \ {p}
    /\ Goto(p, "idle")
    /\ UNCHANGED <<listed, taskQueue, monster, walk, player, potion, view, from, to, known, near, todo, history>>

HandlerStep(p) ==
    \/ Place(p) \/ LeaveSector(p) \/ EnterSector(p) \/ CopyView(p)
    \/ LookInSector(p) \/ LookAtMonster(p) \/ WakeMonster(p) \/ OutOfSight(p)
    \/ InsertViewList(p) \/ ShowMonster(p) \/ DeleteViewList(p) \/ HideMonster(p)

(***************************************************************************)
(* What else happens to the players.                                       *)
(***************************************************************************)

\* PostDisconnect takes the player out of his sector and out of the table,
\* whatever his other worker is doing.
Disconnect(p) ==
    /\ presence[p] = "ingame"
    /\ Bounded
    /\ listed' = [listed EXCEPT ![SectorOf(pos[p])] = @ \ {p}]
    /\ presence' = [presence EXCEPT ![p] = "unlisted"]
    /\ calm' = (calm /\ Quiet)
    /\ UNCHANGED <<taskQueue, monster, walk, pos, alive, potion, views, handler, strayed, lapsed>>

RemoveServerObject(p) ==
    /\ presence[p] = "unlisted"
    /\ presence' = [presence EXCEPT ![p] = "gone"]
    /\ UNCHANGED <<listed, taskQueue, monster, walk, pos, alive, potion, views, handler, history>>

\* Player::Attack on a monster that is awake and listed beside him.
Strike(p) ==
    /\ At(p, "idle") /\ alive[p]
    /\ Bounded
    /\ active /\ mpos \in Adjacent(pos[p])
    /\ \E s \in Neighbours(pos[p]) : Monster \in listed[s]
    /\ target' = p
    /\ UNCHANGED <<listed, taskQueue, type, mpos, active, walk, player, potion, views, handler, calm, strayed, lapsed>>

\* A monster's blow, of this one or another.
Die(p) ==
    /\ InGame(p) /\ alive[p]
    /\ Bounded
    /\ alive' = [alive EXCEPT ![p] = FALSE]
    /\ UNCHANGED <<listed, taskQueue, monster, walk, pos, presence, potion, views, handler, calm, strayed, lapsed>>

(***************************************************************************)
(* The potions.                                                            *)
(***************************************************************************)

\* Another monster dies.
Drop(i) ==
    /\ potion[i] = "none"
    /\ Bounded
    /\ potion' = [potion EXCEPT ![i] = "lying"]
    /\ UNCHANGED <<listed, taskQueue, monster, walk, player, views, handler, calm, strayed, lapsed>>

PickUp(p, i) ==
    /\ At(p, "idle") /\ alive[p]
    /\ potion[i] = "lying" /\ pos[p] = Graves[i]
    /\ Bounded
    /\ potion' = [potion EXCEPT ![i] = "taken"]
    /\ UNCHANGED <<listed, taskQueue, monster, walk, player, views, handler, calm, strayed, lapsed>>

Next ==
    /\ mpc # "down"
    /\ \/ TakeMove \/ MonsterStep
       \/ \E t \in Players \union Potions : TakeAttack(t)
       \/ \E p \in Players :
            \/ BeginMove(p) \/ HandlerStep(p) \/ Disconnect(p) \/ RemoveServerObject(p) \/ Strike(p) \/ Die(p)
            \/ \E i \in Potions : PickUp(p, i)
       \/ \E i \in Potions : Drop(i)

\* The timer thread posts a task that is due (TaskQueue), workers take what is
\* posted (WorkerPool) and go through with it.
Fairness ==
    /\ WF_vars(TakeMove)
    /\ WF_vars(MonsterStep)
    /\ \A t \in Players \union Potions : WF_vars(TakeAttack(t))

Spec == Init /\ [][Next]_vars /\ Fairness

(***************************************************************************)
(* Properties                                                              *)
(***************************************************************************)

MonsterPoints ==
    {"idle", "trace", "step", "reach", "roam", "leaveSector", "enterSector", "place", "placed",
     "meet", "insert", "add", "lose", "forget", "again", "down"} \union Scans

HandlerPoints ==
    {"idle", "place", "leaveSector", "enterSector", "copy", "scan", "look",
     "insert", "add", "delete", "remove"}

TypeOK ==
    /\ listed \in [Sectors -> SUBSET (Players \union {Monster})]
    /\ event \in BOOLEAN /\ attack \subseteq Players \union Potions
    /\ type \in MonsterTypes /\ mpos \in Free /\ active \in BOOLEAN
    /\ target \in Players \union Potions \union {Nobody}
    /\ mpc \in MonsterPoints
    /\ seen \subseteq Players /\ before \subseteq Players
    /\ mcand \subseteq Players \union {i \in Potions : mpc = "search"}
    /\ next \in Free /\ mtodo \subseteq Sectors
    /\ cur \in Players \union {Nobody}
    /\ mpc \in {"insert", "add", "forget"} => cur \in Players
    /\ pos \in [Players -> Free] /\ alive \in [Players -> BOOLEAN]
    /\ presence \in [Players -> {"ingame", "unlisted", "gone"}]
    /\ potion \in [Potions -> {"none", "lying", "taken"}]
    /\ view \subseteq Players /\ shown \subseteq Players
    /\ pc \in [Players -> HandlerPoints]
    /\ from \in [Players -> Free] /\ to \in [Players -> Free]
    /\ known \subseteq Players /\ near \subseteq Players
    /\ todo \in [Players -> SUBSET Sectors]
    /\ calm \in BOOLEAN /\ strayed \in BOOLEAN
    /\ lapsed \subseteq Players /\ handled \in Nat

ListedIn == {s \in Sectors : Monster \in listed[s]}

\* A monster can always be found somewhere, and as long as no pursuit has led
\* it across the edge of a sector, exactly in the sector it stands in: walking
\* at random it leaves one list and enters the other (Monster.cpp:505, 550-557).
\* After such a pursuit it may be listed where it is not, and in two sectors.
MonsterListed ==
    mpc \notin {"enterSector", "place"} =>
        /\ ListedIn # {}
        /\ ~strayed => ListedIn = {SectorOf(mpos)}

\* When moves of the monster and of the players have followed one another, and
\* no pursuit has led it out of its sector: whoever sees the monster has it in
\* his list, and his client shows it, unless Move once told him to forget it
\* without taking it from his list; and no client shows what is out of sight
\* (Monster.cpp:144-240, PacketFunc.cpp:265-489).
ShownIsSight ==
    calm /\ ~strayed /\ Quiet =>
        \A p \in {q \in Players : InGame(q)} :
            /\ CanSee(pos[p], mpos) => p \in view /\ (p \in shown \/ p \in lapsed)
            /\ ~CanSee(pos[p], mpos) => p \notin shown /\ (p \in view => p \in lapsed)

\* Under the same conditions a monster in sight of a player is awake and has
\* its MOVE task, although it falls asleep by itself and is only woken by
\* players who move (IOCPCore.cpp:86-131, PacketFunc.cpp:353-358).
WatchedIsAwake ==
    /\ calm /\ ~strayed /\ Quiet
    /\ \E p \in Players : InGame(p) /\ CanSee(pos[p], mpos)
    => active /\ event

\* Whom SearchTarget may meet, from where the monster is.
Quarry == UNION {(listed[s] \intersect Players) \union PotionsIn(s) : s \in Around(mpos, SearchRange)}

\* The monster pursues p, who stands still where it can get at him: a peaceful
\* one because he struck it, an aggressive one because there is nothing else,
\* not even a potion, to be found around it.
Hunted(p) ==
    /\ presence[p] = "ingame" /\ alive[p] /\ ~Busy(p)
    /\ active /\ mpc # "down"
    /\ CanSee(mpos, pos[p])
    /\ IF Agro THEN Quarry = {p} ELSE target = p
    /\ ~NoPath(pos[p])

\* Whatever happened before, a monster that goes on pursuing a player who stands
\* still keeps ordering blows at him: each of its moves finds a path anew, and
\* is one tile shorter (Monster.cpp:492-514).
HunterArrives == \A p \in Players : <>[]Hunted(p) => []<>(p \in attack)
=============================================================================
