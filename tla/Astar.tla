-------------------------------- MODULE Astar --------------------------------
(***************************************************************************)
(* Monster::DoAstar and Monster::ReconstructPath (Monster.cpp, Monster.h): *)
(* the search for a path from a monster to its target.  It reads the       *)
(* positions of both once, and the map, which does not change; everything  *)
(* else is local.  One step is one turn of the loop: the four neighbours   *)
(* are different tiles, so the order in which it goes through them does    *)
(* not matter.  Of several open nodes with the least f the priority queue  *)
(* may return any.                                                         *)
(*                                                                         *)
(* The walls are a variable that is chosen at the start and kept, so that  *)
(* every map is looked at.                                                 *)
(***************************************************************************)
EXTENDS Paths, Tiles

VARIABLES
    walls,      \* the tiles with TILE_TYPE::OBSTACLE
    start,      \* startPos
    dest,       \* destPos
    open,       \* openSet: nodes that wait to be looked at
    gScore,     \* the cost of the best way found so far
    cameFrom,   \* the tile before, on that way
    stage,      \* "search", "rebuild" (in ReconstructPath) or "done"
    current,    \* the tile ReconstructPath is at
    path        \* the path, from current's successor to dest

input == <<walls, start, dest>>
search == <<open, gScore, cameFrom>>
searchVars == <<input, search, stage, current, path>>

\* For a tile without a gScore, and for one without a cameFrom.
Unscored == -1
NoTile == [x |-> -1, y |-> -1]

Abs(a) == IF a < 0 THEN -a ELSE a

Heuristic(a, b) == Abs(a.x - b.x) + Abs(a.y - b.y)

Node(tile, g) == [pos |-> tile, g |-> g, f |-> g + Heuristic(tile, dest)]

\* Monsters and players stand on the board, and not on obstacles.
SearchInit ==
    /\ walls \in SUBSET Pos
    /\ start \in Pos \ walls
    /\ dest \in Pos \ walls
    /\ open = {Node(start, 0)}
    /\ gScore = [t \in Pos |-> IF t = start THEN 0 ELSE Unscored]
    /\ cameFrom = [t \in Pos |-> NoTile]
    /\ stage = "search"
    /\ current = start
    /\ path = <<>>

\* Mutation: the order of the queue without std::greater.
Most == {n \in open : \A m \in open : n.f >= m.f}

\* What top may return.
Least == {n \in open : \A m \in open : n.f <= m.f}

\* The destination is reached.
Found ==
    /\ stage = "search"
    /\ \E n \in Least :
        /\ n.pos = dest
        /\ open' = open \ {n}
    /\ stage' = "rebuild"
    /\ current' = dest
    /\ UNCHANGED <<input, gScore, cameFrom, path>>

\* The neighbours on the board that are no obstacles,
Passable(n) == Adjacent(n.pos) \intersect (Pos \ walls)

\* Mutation: costs are not compared.
AnyNeighbour(n) == Passable(n)

\* and those of them that n leads to at less cost than any node before.
Improved(n) == {t \in Passable(n) : gScore[t] = Unscored \/ n.g + 1 < gScore[t]}

Expand ==
    /\ stage = "search"
    /\ \E n \in Least :
        /\ n.pos # dest
        /\ open' = (open \ {n}) \union {Node(t, n.g + 1) : t \in Improved(n)}
        /\ gScore' = [t \in Pos |-> IF t \in Improved(n) THEN n.g + 1 ELSE gScore[t]]
        /\ cameFrom' = [t \in Pos |-> IF t \in Improved(n) THEN n.pos ELSE cameFrom[t]]
    /\ UNCHANGED <<input, stage, current, path>>

\* No open node is left: there is no path.
Exhausted ==
    /\ stage = "search" /\ open = {}
    /\ stage' = "done"
    /\ UNCHANGED <<input, search, current, path>>

\* ReconstructPath goes back along cameFrom; it appends, and reverses in the
\* end, which is to prepend.
StepBack ==
    /\ stage = "rebuild" /\ cameFrom[current] # NoTile
    /\ path' = <<current>> \o path
    /\ current' = cameFrom[current]
    /\ UNCHANGED <<input, search, stage>>

\* Mutation: the tile without a predecessor is forgotten.
ForgetStart ==
    /\ stage = "rebuild" /\ cameFrom[current] = NoTile
    /\ stage' = "done"
    /\ UNCHANGED <<input, search, current, path>>

AtStart ==
    /\ stage = "rebuild" /\ cameFrom[current] = NoTile
    /\ path' = <<current>> \o path
    /\ stage' = "done"
    /\ UNCHANGED <<input, search, current>>

SearchNext == Found \/ Expand \/ Exhausted \/ StepBack \/ AtStart

\* The worker does not stop within the function.
SearchSpec == SearchInit /\ [][SearchNext]_searchVars /\ WF_searchVars(SearchNext)

(***************************************************************************)
(* Properties                                                              *)
(***************************************************************************)

NodeType == [pos : Pos, g : Nat, f : Nat]

SearchTypeOK ==
    /\ walls \in SUBSET Pos
    /\ start \in Pos \ walls
    /\ dest \in Pos \ walls
    /\ open \in SUBSET NodeType
    /\ gScore \in [Pos -> Nat \union {Unscored}]
    /\ cameFrom \in [Pos -> (Pos \ walls) \union {NoTile}]
    /\ stage \in {"search", "rebuild", "done"}
    /\ current \in Pos \ walls
    /\ path \in Seq(Pos)

\* What ReconstructPath has put together is at every moment a walk over free
\* tiles from beside the current one to the destination, and no longer than the
\* cost the search paid: following cameFrom, which may have been rewritten many
\* times, neither jumps nor runs in a circle; and it ends at the start
\* (Monster.cpp:464-490).
PathIsWalk ==
    /\ stage = "rebuild" =>
            LET rest == <<current>> \o path IN
            /\ rest[Len(rest)] = dest
            /\ IsWalk(Pos \ walls, rest)
            /\ Len(path) + gScore[current] <= gScore[dest]
    /\ stage = "done" /\ path # <<>> =>
            /\ path[1] = start
            /\ path[Len(path)] = dest
            /\ IsWalk(Pos \ walls, path)

\* A tile that has been reached and no longer waits in the open set has its
\* least cost, whichever of equal nodes the queue preferred: it need not be
\* looked at again, as the comment at Monster.cpp:444 takes for granted.
SettledIsLeast ==
    LET reached == Reached(Pos \ walls, start) IN
    \A t \in Pos :
        gScore[t] # Unscored /\ (\A n \in open : n.pos # t) => <<t, gScore[t]>> \in reached

Abstract == INSTANCE ShortestPath WITH
    Tiles <- Pos,
    answered <- stage = "done",
    path <- IF stage = "done" THEN path ELSE <<>>

\* The safety half: an answer is a shortest path, or empty if there is none.
AnswersAreShortest == Abstract!PathSafety

\* The search answers, with a shortest path or, if there is none, the empty
\* one (Monster.cpp:430-490).
ImplementsShortestPath == Abstract!PathSpec
=============================================================================
