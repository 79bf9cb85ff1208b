---------------------------- MODULE PlayerSession ----------------------------
(***************************************************************************)
(* How clients become players and cease to be: Listener accepts a session, *)
(* CS_LOGIN loads its player and enters it into the world, PostDisconnect  *)
(* saves it and takes it out again (Listener.cpp, PacketFunc.cpp,          *)
(* Session.cpp, SessionManager.cpp, ServerObjectManager.cpp,               *)
(* DBManager.cpp).  What is shared: the session table, the object table,   *)
(* the sectors and the rows of the database.                               *)
(*                                                                         *)
(* Two threads work for a session, one with a receive completion and one   *)
(* with a send completion; each may find the connection dead and run       *)
(* PostDisconnect, one after the other or both at once.  A third kind, the *)
(* workers with REVIVE events, carry players from sector to sector as the  *)
(* handler of CS_MOVE does; when a player dies is left open.  A step is    *)
(* one access to shared state; a shared_ptr is read and written in one.    *)
(*                                                                         *)
(* A CS_LOGIN that is not refused makes a Player object and puts it in the *)
(* place of m_player, whatever is there: the k-th of session s is <<s, k>>.*)
(* What a player has achieved is one number, its level being the number of *)
(* whole LevelSteps; a position is the sector it lies in.  Who is told     *)
(* about arrivals and departures, and the HEAL task a login adds, are the  *)
(* business of other modules.                                              *)
(***************************************************************************)
EXTENDS Integers, Sequences

CONSTANTS
    Sessions,       \* accepted connections
    Ids,            \* player ids in the legal range
    Known,          \* those the database has rows for at the start
    Wants,          \* the ids each client gets in under, in this order
    MaxLogins,      \* how many that are at most (bounds the model)
    Habits,         \* what clients may be like (bounds the model): see habit
    Workers,        \* threads with REVIVE events
    Sectors,
    Spawn,          \* the sectors the rows of the database put players in
    Nobody,         \* no player
    Absent,         \* a key the object table has never had
    Gone,           \* a key of the object table with a null pointer
    LevelStep,      \* gains per level
    MaxProgress,    \* the most a player gains (bounds the model)
    DbMayFail       \* whether statements may fail for reasons of the database's own

\* The Player objects the logins make.
Players == {p \in Sessions \X (1..MaxLogins) : p[2] <= Len(Wants[p[1]])}

IdOf(p) == Wants[p[1]][p[2]]

ASSUME NamesAssumption ==
    /\ Nobody \notin Ids \cup Players
    /\ Absent \notin Players /\ Gone \notin Players /\ Absent # Gone

ASSUME SpawnAssumption == Spawn \subseteq Sectors

ASSUME HabitsAssumption == Habits \subseteq [roamers : SUBSET Players, halves : SUBSET Sessions]

ASSUME WantsAssumption ==
    /\ MaxLogins \in Nat
    /\ Wants \in [Sessions -> Seq(Ids)]
    /\ \A s \in Sessions : Len(Wants[s]) <= MaxLogins

ASSUME ProgressAssumption == LevelStep \in Nat \ {0} /\ MaxProgress \in Nat

ASSUME DbMayFailAssumption == DbMayFail \in BOOLEAN

VARIABLES
    connected,      \* mConnected
    listed,         \* m_sessions of SessionManager: absent, present or null
    sessionCount,   \* m_currentSessionCount
    accepting,      \* sessions between ProcessConnect and AddSession
    logins,         \* how many Player objects the session has had: m_player is the last
    progress,       \* level and experience of each Player object
    place,          \* the sector its position lies in
    home,           \* and the one its m_startPos lies in
    table,          \* m_serverObject of ServerObjectManager
    board,          \* what the sectors list: pairs of an id and a sector
    row,            \* rows of the database, NoRow where there is none
    stat,           \* what SetUserInfo has read of the player it is about to store
    leaver,         \* the playerID of each PostDisconnect
    pc,             \* where the session's two threads are
    rpc, hero,      \* where each worker is, and the player it revives
    route,          \* the sectors each move, and each revival, goes from and to
    habit,          \* the players that move about and revive, and the sessions a send may find dead
    raced,          \* history: players revived while they moved or left
    down            \* the process has died

sessionVars == <<connected, listed, sessionCount, accepting>>
playerVars == <<logins, progress, place, home>>
worldVars == <<table, board>>
saveVars == <<row, stat, leaver>>
reviveVars == <<rpc, hero>>
vars == <<sessionVars, playerVars, worldVars, saveVars, pc, reviveVars, route, habit, raced, down>>

NoRow == -1

Threads == {"recv", "send"}

\* Who carries a player from sector to sector.
Carriers == Sessions \cup Workers

ASSUME CarriersAssumption == Sessions \intersect Workers = {}

\* No move, and no revival, is going on.
Nowhere == [from |-> Nobody, to |-> Nobody]

\*   off       nothing outstanding yet        recv      a receive is outstanding
\*   load ... insert                          in Process_CS_LOGIN_PACKET
\*   step ... list                            in Process_CS_MOVE_PACKET or _TELEPORT_
\*   post      a packet is handled: the next one, or PostRecv
\*   save ... remove                          in PostDisconnect
\*   over      this thread never runs for the session again
LoginPoints == {"load", "addRow", "check", "enter", "own", "reenter", "insert"}
MovePoints == {"step", "unlist", "list"}
DisconnectPoints == {"save", "store", "sector", "erase", "close", "remove"}
Points == {"off", "recv", "post", "over"} \cup LoginPoints \cup MovePoints \cup DisconnectPoints

\* The workers: between two events, or in Player::Revive.
RevivePoints == {"idle", "from", "home", "to", "unlist", "list"}

\* A server just started, on a database that knows some of the ids.  Where
\* the rows will put the players is left open.
Init ==
    /\ connected = [s \in Sessions |-> FALSE]
    /\ listed = [s \in Sessions |-> "absent"]
    /\ sessionCount = 0
    /\ accepting = {}
    /\ logins = [s \in Sessions |-> 0]
    /\ progress = [p \in Players |-> 0]
    /\ place \in [Players -> Spawn]
    /\ home = place
    /\ table = [id \in Ids |-> Absent]
    /\ board = {}
    /\ row = [id \in Ids |-> IF id \in Known THEN 0 ELSE NoRow]
    /\ stat = [s \in Sessions |-> [a \in Threads |-> 0]]
    /\ leaver = [s \in Sessions |-> [a \in Threads |-> Nobody]]
    /\ pc = [s \in Sessions |-> [a \in Threads |-> "off"]]
    /\ rpc = [w \in Workers |-> "idle"]
    /\ hero = [w \in Workers |-> Nobody]
    /\ route = [c \in Carriers |-> Nowhere]
    /\ habit \in Habits
    /\ raced = {}
    /\ down = FALSE

At(s, a, point) == ~down /\ pc[s][a] = point

Goto(s, a, point) == pc' = [pc EXCEPT ![s][a] = point]

\* m_player, and the Player object a login is making.
HasPlayer(s) == logins[s] > 0
Player(s) == <<s, logins[s]>>
Draft(s) == <<s, logins[s] + 1>>

\* There is an object in the table for the id.
InTable(id) == table[id] \in Players

\* Sector::Add and Sector::Remove
Add(id, sector) == board' = board \cup {<<id, sector>>}
Remove(id, sector) == board' = board \ {<<id, sector>>}

\* Some worker is carrying p home.
Reviving(p) == \E w \in Workers : rpc[w] \in {"home", "to", "unlist", "list"} /\ hero[w] = p

(***************************************************************************)
(* Listener::ProcessAccept, for one connection at a time.                  *)
(***************************************************************************)

\* ProcessConnect, with its first PostRecv.
Accept(s) ==
    /\ At(s, "recv", "off")
    /\ accepting = {}
    /\ accepting' = {s}
    /\ connected' = [connected EXCEPT ![s] = TRUE]
    /\ Goto(s, "recv", "recv")
    /\ UNCHANGED <<listed, sessionCount, playerVars, worldVars, saveVars, reviveVars, route, raced, down, habit>>

AddSession(s) ==
    /\ ~down
    /\ s \in accepting
    /\ accepting' = {}
    /\ listed' = [listed EXCEPT ![s] = "present"]
    /\ sessionCount' = sessionCount + 1
    /\ UNCHANGED <<connected, playerVars, worldVars, saveVars, pc, reviveVars, route, raced, down, habit>>

(***************************************************************************)
(* Process_CS_LOGIN_PACKET                                                 *)
(***************************************************************************)

\* A packet is handled when a receive completes, or after another one.
Handling(s) == At(s, "recv", "recv") \/ At(s, "recv", "post")

\* A client may log in however often it likes.  An id out of range is refused
\* before anything is looked up.
Login(s) ==
    /\ Handling(s)
    /\ \/ /\ logins[s] < Len(Wants[s])
          /\ Goto(s, "recv", "load")
       \/ Goto(s, "recv", "post")
    /\ UNCHANGED <<sessionVars, playerVars, worldVars, saveVars, reviveVars, route, raced, down, habit>>

\* What SetLevel and SetExp restore of a row: SetExp has an empty body.
Restored(gained) == LevelStep * (gained \div LevelStep)

\* GetUserInfo: the row's player, or nullptr when there is none or the query failed.
GetUserInfo(s) ==
    /\ At(s, "recv", "load")
    /\ LET p == Draft(s) IN
        \/ /\ row[IdOf(p)] # NoRow
           /\ progress' = [progress EXCEPT ![p] = Restored(row[IdOf(p)])]
           /\ Goto(s, "recv", "check")
        \/ /\ row[IdOf(p)] = NoRow \/ DbMayFail
           /\ Goto(s, "recv", "addRow")
           /\ UNCHANGED progress
    /\ UNCHANGED <<sessionVars, logins, place, home, worldVars, saveVars, reviveVars, route, raced, down, habit>>

\* AddUserInfo: a new row; if the statement fails, as it does for an id that
\* has one, it returns nullptr and the handler dereferences it.
AddUserInfo(s) ==
    /\ At(s, "recv", "addRow")
    /\ LET p == Draft(s) IN
        \/ /\ row[IdOf(p)] = NoRow
           /\ row' = [row EXCEPT ![IdOf(p)] = 0]
           /\ progress' = [progress EXCEPT ![p] = 0]
           /\ Goto(s, "recv", "enter")
           /\ UNCHANGED down
        \/ /\ row[IdOf(p)] # NoRow \/ DbMayFail
           /\ down' = TRUE
           /\ UNCHANGED <<row, progress, pc>>
    /\ UNCHANGED <<sessionVars, logins, place, home, worldVars, stat, leaver, reviveVars, route, raced, habit>>

\* Is somebody in the table under this id?  Then the client is refused.
CheckInUse(s) ==
    /\ At(s, "recv", "check")
    /\ Goto(s, "recv", IF InTable(IdOf(Draft(s))) THEN "post" ELSE "enter")
    /\ UNCHANGED <<sessionVars, playerVars, worldVars, saveVars, reviveVars, route, raced, down, habit>>

EnterSector(s) ==
    /\ At(s, "recv", "enter")
    /\ Add(IdOf(Draft(s)), place[Draft(s)])
    /\ Goto(s, "recv", "own")
    /\ UNCHANGED <<sessionVars, playerVars, table, saveVars, reviveVars, route, raced, down, habit>>

\* The new player takes the place of m_player, if there is one.
SetPlayer(s) ==
    /\ At(s, "recv", "own")
    /\ logins' = [logins EXCEPT ![s] = @ + 1]
    /\ Goto(s, "recv", "reenter")
    /\ UNCHANGED <<sessionVars, progress, place, home, worldVars, saveVars, reviveVars, route, raced, down, habit>>

\* The second Add, and the packets to the client.
ReenterSector(s) ==
    /\ At(s, "recv", "reenter")
    /\ Add(IdOf(Player(s)), place[Player(s)])
    /\ Goto(s, "recv", "insert")
    /\ UNCHANGED <<sessionVars, playerVars, table, saveVars, reviveVars, route, raced, down, habit>>

\* Mutation: insert_or_assign, the new player takes the key over.
AssignServerObject(s) ==
    /\ At(s, "recv", "insert")
    /\ table' = [table EXCEPT ![IdOf(Player(s))] = Player(s)]
    /\ Goto(s, "recv", "post")
    /\ UNCHANGED <<sessionVars, playerVars, board, saveVars, reviveVars, route, raced, down, habit>>

\* insert does nothing to a key that is there, even with a null pointer.
AddServerObject(s) ==
    /\ At(s, "recv", "insert")
    /\ table' = [table EXCEPT ![IdOf(Player(s))] = IF @ = Absent THEN Player(s) ELSE @]
    /\ Goto(s, "recv", "post")
    /\ UNCHANGED <<sessionVars, playerVars, board, saveVars, reviveVars, route, raced, down, habit>>

(***************************************************************************)
(* The other packets of a player.                                          *)
(***************************************************************************)

\* One that changes nothing here but what he has achieved, if that.
Play(s) ==
    /\ Handling(s)
    /\ HasPlayer(s)
    /\ \E gain \in {0, 1} :
        /\ progress[Player(s)] + gain <= MaxProgress
        /\ progress' = [progress EXCEPT ![Player(s)] = @ + gain]
    /\ Goto(s, "recv", "post")
    /\ UNCHANGED <<sessionVars, logins, place, home, worldVars, saveVars, reviveVars, route, raced, down, habit>>

\* CS_MOVE or CS_TELEPORT: the position is read.
BeginMove(s) ==
    /\ Handling(s)
    /\ HasPlayer(s) /\ Player(s) \in habit.roamers
    /\ \E sector \in Sectors : route' = [route EXCEPT ![s] = [from |-> place[Player(s)], to |-> sector]]
    /\ raced' = IF Reviving(Player(s)) THEN raced \cup {Player(s)} ELSE raced
    /\ Goto(s, "recv", "step")
    /\ UNCHANGED <<sessionVars, playerVars, worldVars, saveVars, reviveVars, down, habit>>

EndMove(s) == Goto(s, "recv", "post") /\ route' = [route EXCEPT ![s] = Nowhere]

\* SetPos, and SetStartPos if it is a teleport, which enters the player into
\* his sector even when it is the one he comes from.
Place(s) ==
    /\ At(s, "recv", "step")
    /\ LET r == route[s] IN
        /\ place' = [place EXCEPT ![Player(s)] = r.to]
        /\ \/ /\ IF r.from = r.to
                 THEN EndMove(s)
                 ELSE Goto(s, "recv", "unlist") /\ UNCHANGED route
              /\ UNCHANGED home
           \/ /\ home' = [home EXCEPT ![Player(s)] = r.to]
              /\ Goto(s, "recv", IF r.from = r.to THEN "list" ELSE "unlist")
              /\ UNCHANGED route
    /\ UNCHANGED <<sessionVars, logins, progress, worldVars, saveVars, reviveVars, raced, down, habit>>

MoveUnlists(s) ==
    /\ At(s, "recv", "unlist")
    /\ Remove(IdOf(Player(s)), route[s].from)
    /\ Goto(s, "recv", "list")
    /\ UNCHANGED <<sessionVars, playerVars, table, saveVars, reviveVars, route, raced, down, habit>>

MoveLists(s) ==
    /\ At(s, "recv", "list")
    /\ Add(IdOf(Player(s)), route[s].to)
    /\ EndMove(s)
    /\ UNCHANGED <<sessionVars, playerVars, table, saveVars, reviveVars, raced, down, habit>>

\* The packets received are handled; on a dead session no receive is posted.
PostRecv(s) ==
    /\ At(s, "recv", "post")
    /\ Goto(s, "recv", IF connected[s] THEN "recv" ELSE "over")
    /\ UNCHANGED <<sessionVars, playerVars, worldVars, saveVars, reviveVars, route, raced, down, habit>>

(***************************************************************************)
(* The REVIVE event, and the part of Player::Revive that moves the player. *)
(***************************************************************************)
Carry(w, from, to) == ~down /\ rpc[w] = from /\ rpc' = [rpc EXCEPT ![w] = to]

\* The worker holds the object from here on, whatever becomes of the key.
ReviveEvent(w) ==
    /\ Carry(w, "idle", "from")
    /\ \E id \in Ids : InTable(id) /\ table[id] \in habit.roamers /\ hero' = [hero EXCEPT ![w] = table[id]]
    /\ UNCHANGED <<sessionVars, playerVars, worldVars, saveVars, pc, route, raced, down, habit>>

\* The player of a session, before PostDisconnect has taken it out of its sector.
InWorld(p) ==
    LET s == p[1] IN
        \/ p = Player(s) /\ pc[s]["recv"] \notin {"off", "erase", "close", "remove", "over"}
        \/ p = Draft(s) /\ pc[s]["recv"] = "own"

\* CS_MOVE or CS_TELEPORT has read the position of p and is not done.
Moving(p) == p = Player(p[1]) /\ pc[p[1]]["recv"] \in MovePoints

ReviveFrom(w) ==
    /\ Carry(w, "from", "home")
    /\ route' = [route EXCEPT ![w].from = place[hero[w]]]
    /\ raced' = IF Moving(hero[w]) \/ ~InWorld(hero[w]) THEN raced \cup {hero[w]} ELSE raced
    /\ UNCHANGED <<sessionVars, playerVars, worldVars, saveVars, pc, hero, down, habit>>

ReviveHome(w) ==
    /\ Carry(w, "home", "to")
    /\ place' = [place EXCEPT ![hero[w]] = home[hero[w]]]
    /\ UNCHANGED <<sessionVars, logins, progress, home, worldVars, saveVars, pc, hero, route, raced, down, habit>>

EndRevival(w) ==
    /\ hero' = [hero EXCEPT ![w] = Nobody]
    /\ route' = [route EXCEPT ![w] = Nowhere]

\* The position is read again.
ReviveTo(w) ==
    /\ \/ /\ Carry(w, "to", "idle")
          /\ route[w].from = place[hero[w]]
          /\ EndRevival(w)
       \/ /\ Carry(w, "to", "unlist")
          /\ route[w].from # place[hero[w]]
          /\ route' = [route EXCEPT ![w].to = place[hero[w]]]
          /\ UNCHANGED hero
    /\ UNCHANGED <<sessionVars, playerVars, worldVars, saveVars, pc, raced, down, habit>>

ReviveUnlists(w) ==
    /\ Carry(w, "unlist", "list")
    /\ Remove(IdOf(hero[w]), route[w].from)
    /\ UNCHANGED <<sessionVars, playerVars, table, saveVars, pc, hero, route, raced, down, habit>>

ReviveLists(w) ==
    /\ Carry(w, "list", "idle")
    /\ Add(IdOf(hero[w]), route[w].to)
    /\ EndRevival(w)
    /\ UNCHANGED <<sessionVars, playerVars, table, saveVars, pc, raced, down, habit>>

(***************************************************************************)
(* PostDisconnect                                                          *)
(***************************************************************************)

\* A completion of zero bytes, of the receive or of a send: every client may
\* have been sent something, if only that an id was out of range.
Closes(s, a) ==
    /\ \/ a = "recv" /\ At(s, a, "recv")
       \/ a = "send" /\ At(s, a, "off") /\ ~At(s, "recv", "off") /\ s \in habit.halves
    /\ IF HasPlayer(s)
       THEN /\ leaver' = [leaver EXCEPT ![s][a] = IdOf(Player(s))]
            /\ Goto(s, a, "save")
       ELSE /\ Goto(s, a, "close")
            /\ UNCHANGED leaver
    /\ UNCHANGED <<sessionVars, playerVars, worldVars, row, stat, reviveVars, route, raced, down, habit>>

\* SetUserInfo looks the player up by its id, and reads it before it locks.
ReadUserInfo(s, a) ==
    /\ At(s, a, "save")
    /\ LET id == leaver[s][a] IN
        IF InTable(id)
        THEN /\ stat' = [stat EXCEPT ![s][a] = progress[table[id]]]
             /\ Goto(s, a, "store")
        ELSE /\ Goto(s, a, "sector")
             /\ UNCHANGED stat
    /\ UNCHANGED <<sessionVars, playerVars, worldVars, row, leaver, reviveVars, route, raced, down, habit>>

\* Mutation: when the statement fails PostDisconnect gives up on the player.
SetUserInfoOrGiveUp(s, a) ==
    /\ At(s, a, "store")
    /\ \/ row' = [row EXCEPT ![leaver[s][a]] = stat[s][a]] /\ Goto(s, a, "sector")
       \/ DbMayFail /\ UNCHANGED row /\ Goto(s, a, "close")
    /\ stat' = [stat EXCEPT ![s][a] = 0]
    /\ UNCHANGED <<sessionVars, playerVars, worldVars, leaver, reviveVars, route, raced, down, habit>>

SetUserInfo(s, a) ==
    /\ At(s, a, "store")
    /\ \/ row' = [row EXCEPT ![leaver[s][a]] = stat[s][a]]
       \/ DbMayFail /\ UNCHANGED row
    /\ stat' = [stat EXCEPT ![s][a] = 0]
    /\ Goto(s, a, "sector")
    /\ UNCHANGED <<sessionVars, playerVars, worldVars, leaver, reviveVars, route, raced, down, habit>>

\* Mutation: the id is taken out of the sector the player revives in.
LeaveHomeSector(s, a) ==
    /\ At(s, a, "sector")
    /\ Remove(IdOf(Player(s)), home[Player(s)])
    /\ raced' = IF Reviving(Player(s)) THEN raced \cup {Player(s)} ELSE raced
    /\ Goto(s, a, "erase")
    /\ UNCHANGED <<sessionVars, playerVars, table, saveVars, reviveVars, route, down, habit>>

\* m_player is read once more, for the sector it is in and for its id.
LeaveSector(s, a) ==
    /\ At(s, a, "sector")
    /\ Remove(IdOf(Player(s)), place[Player(s)])
    /\ raced' = IF Reviving(Player(s)) THEN raced \cup {Player(s)} ELSE raced
    /\ Goto(s, a, "erase")
    /\ UNCHANGED <<sessionVars, playerVars, table, saveVars, reviveVars, route, down, habit>>

\* Mutation: the key is erased.
EraseServerObject(s, a) ==
    /\ At(s, a, "erase")
    /\ IF table[leaver[s][a]] = Absent
       THEN down' = TRUE /\ UNCHANGED <<table, pc>>
       ELSE /\ table' = [table EXCEPT ![leaver[s][a]] = Absent]
            /\ Goto(s, a, "close")
            /\ UNCHANGED down
    /\ UNCHANGED <<sessionVars, playerVars, board, saveVars, reviveVars, route, raced, habit>>

\* at() throws for a key that is not there, and nobody catches.
RemoveServerObject(s, a) ==
    /\ At(s, a, "erase")
    /\ IF table[leaver[s][a]] = Absent
       THEN down' = TRUE /\ UNCHANGED <<table, pc>>
       ELSE /\ table' = [table EXCEPT ![leaver[s][a]] = Gone]
            /\ Goto(s, a, "close")
            /\ UNCHANGED down
    /\ UNCHANGED <<sessionVars, playerVars, board, saveVars, reviveVars, route, raced, habit>>

Disconnect(s, a) ==
    /\ At(s, a, "close")
    /\ connected' = [connected EXCEPT ![s] = FALSE]
    /\ Goto(s, a, "remove")
    /\ UNCHANGED <<listed, sessionCount, accepting, playerVars, worldVars, saveVars, reviveVars, route, raced, down, habit>>

RemoveSession(s, a) ==
    /\ At(s, a, "remove")
    /\ listed' = [listed EXCEPT ![s] = IF @ = "present" THEN "null" ELSE @]
    /\ sessionCount' = sessionCount - 1
    /\ Goto(s, a, "over")
    /\ UNCHANGED <<connected, accepting, playerVars, worldVars, saveVars, reviveVars, route, raced, down, habit>>

LoginStep(s) ==
    \/ GetUserInfo(s) \/ AddUserInfo(s) \/ CheckInUse(s)
    \/ EnterSector(s) \/ SetPlayer(s) \/ ReenterSector(s) \/ AddServerObject(s)

MoveStep(s) == Place(s) \/ MoveUnlists(s) \/ MoveLists(s)

DisconnectStep(s, a) ==
    \/ ReadUserInfo(s, a) \/ SetUserInfo(s, a) \/ LeaveSector(s, a)
    \/ RemoveServerObject(s, a) \/ Disconnect(s, a) \/ RemoveSession(s, a)

ReviveStep(w) == ReviveFrom(w) \/ ReviveHome(w) \/ ReviveTo(w) \/ ReviveUnlists(w) \/ ReviveLists(w)

Next ==
    \/ \E s \in Sessions :
        \/ Accept(s) \/ AddSession(s)
        \/ Login(s) \/ Play(s) \/ BeginMove(s)
        \/ LoginStep(s) \/ MoveStep(s) \/ PostRecv(s)
        \/ \E a \in Threads : Closes(s, a) \/ DisconnectStep(s, a)
    \/ \E w \in Workers : ReviveEvent(w) \/ ReviveStep(w)

Spec == Init /\ [][Next]_vars

\* Workers finish what they have begun; clients owe nothing.
FairSpec ==
    /\ Spec
    /\ \A s \in Sessions : \A a \in Threads : WF_vars(DisconnectStep(s, a))

(***************************************************************************)
(* Properties                                                              *)
(***************************************************************************)

Types ==
    /\ connected \in [Sessions -> BOOLEAN]
    /\ listed \in [Sessions -> {"absent", "present", "null"}]
    /\ sessionCount \in Int
    /\ accepting \in SUBSET Sessions
    /\ logins \in [Sessions -> 0..MaxLogins]
    /\ progress \in [Players -> 0..MaxProgress]
    /\ place \in [Players -> Sectors]
    /\ home \in [Players -> Sectors]
    /\ table \in [Ids -> Players \cup {Absent, Gone}]
    /\ board \in SUBSET (Ids \X Sectors)
    /\ row \in [Ids -> 0..MaxProgress \cup {NoRow}]
    /\ stat \in [Sessions -> [Threads -> 0..MaxProgress]]
    /\ leaver \in [Sessions -> [Threads -> Ids \cup {Nobody}]]
    /\ pc \in [Sessions -> [Threads -> Points]]
    /\ rpc \in [Workers -> RevivePoints]
    /\ hero \in [Workers -> Players \cup {Nobody}]
    /\ route \in [Carriers -> [from : Sectors \cup {Nobody}, to : Sectors \cup {Nobody}]]
    /\ habit \in Habits
    /\ raced \in SUBSET Players
    /\ down \in BOOLEAN

\* The session's threads and the workers have what the point they are at works on.
InStep(s) ==
    /\ logins[s] <= Len(Wants[s])
    /\ pc[s]["recv"] \in {"load", "addRow", "check", "enter", "own"} => logins[s] < Len(Wants[s])
    /\ pc[s]["recv"] \in {"reenter", "insert"} \cup MovePoints => HasPlayer(s)
    /\ pc[s]["recv"] \in MovePoints => route[s].from \in Sectors /\ route[s].to \in Sectors
    /\ \A a \in Threads : pc[s][a] \in {"save", "store", "sector", "erase"} =>
         HasPlayer(s) /\ leaver[s][a] \in Ids

Carrying(w) ==
    /\ rpc[w] # "idle" => hero[w] \in Players
    /\ rpc[w] \in {"home", "to", "unlist", "list"} => route[w].from \in Sectors
    /\ rpc[w] \in {"unlist", "list"} => route[w].to \in Sectors

\* The variables keep their types, and values are there where they are used.
TypeOK ==
    /\ Types
    /\ \A s \in Sessions : InStep(s)
    /\ \A w \in Workers : Carrying(w)

\* The send path has never closed the session.
OnlyReceives(s) == pc[s]["send"] = "off"

\* Another CS_LOGIN of the same client has taken p's place.
Replaced(p) == p[2] < logins[p[1]]

\* Where p is, and where a move or a revival has not yet taken it out.
Whereabouts(p) ==
    {place[p]}
    \cup {route[s].from : s \in {s \in Sessions : p = Player(s) /\ pc[s]["recv"] = "unlist"}}
    \cup {route[w].from : w \in {w \in Workers : hero[w] = p /\ rpc[w] \in {"to", "unlist"}}}

\* A client whose departure is seen by the receive path leaves nothing behind,
\* whoever else logs in or out under the same id, moves and revives.  A player
\* in the object table belongs to a connected session.  An id in a sector is
\* that of a player who is there or is being moved from there, and whom the
\* receive path will take out.  Excepted are the players of a session that
\* the send path has closed, players whose client has logged in once more
\* without leaving, and players revived while they moved or left
\* (Session.cpp:120-155, PacketFunc.cpp:57-195, 254-263, Player.cpp:143-151).
NothingLeftBehind ==
    /\ \A id \in Ids :
         InTable(id) /\ OnlyReceives(table[id][1]) /\ ~Replaced(table[id]) => connected[table[id][1]]
    /\ \A entry \in board : \E p \in Players :
         /\ IdOf(p) = entry[1]
         /\ \/ InWorld(p) /\ entry[2] \in Whereabouts(p)
            \/ ~OnlyReceives(p[1]) \/ Replaced(p) \/ p \in raced

\* RemoveServerObject finds its key, so at() does not throw, except when the
\* send path closes a session that is still being logged in
\* (ServerObjectManager.cpp:40, PacketFunc.cpp:60-195).
EraseFindsKey ==
    \A s \in Sessions, a \in Threads :
        pc[s][a] = "erase" /\ table[leaver[s][a]] = Absent =>
            a = "send" /\ pc[s]["recv"] \in {"reenter", "insert"}

\* Between two look-ups of an id the object may vanish but never be replaced:
\* for as long as the server runs, an id denotes one object, then none, and
\* workers that resolve ids again and again need not compare what they get
\* (ServerObjectManager.cpp:14, 40).
OneObjectPerId ==
    [][\A id \in Ids : table'[id] # table[id] =>
         table[id] = Absent \/ (InTable(id) /\ table'[id] = Gone)]_vars

\* A player whose client has left is out of the object table some time later
\* (Session.cpp:120-127).
LeaverIsRemoved ==
    \A s \in Sessions :
        pc[s]["recv"] = "save" ~> (down \/ \A id \in Ids : table[id] # Player(s))

\* "ODBC persists user state on login and disconnect paths."
\* (src/docs/server-flowchart.html:449): when PostDisconnect, run by the
\* receive path alone and with nobody else under the same id any more, has
\* saved and goes on, the player's row holds what the player has achieved.
LogoutPersists ==
    \A s \in Sessions :
        /\ pc[s]["recv"] = "sector" /\ OnlyReceives(s)
        /\ \A p \in Players : p[1] # s /\ IdOf(p) = leaver[s]["recv"] =>
             pc[p[1]]["recv"] = "over" /\ OnlyReceives(p[1])
        => row[leaver[s]["recv"]] = progress[Player(s)]

\* A login is refused because "another client is using" the id
\* (PacketFunc.cpp:43, 48, in Korean): whenever CheckInUse refuses, some
\* connected session plays the id.
RefusedMeansInUse ==
    \A s \in Sessions : pc[s]["recv"] = "check" /\ InTable(IdOf(Draft(s))) =>
        \E u \in Sessions : connected[u] /\ HasPlayer(u) /\ IdOf(Player(u)) = IdOf(Draft(s))
=============================================================================
