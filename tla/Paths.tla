-------------------------------- MODULE Paths --------------------------------
(***************************************************************************)
(* Walks over the tiles of a board, one step along an axis at a time: the  *)
(* reference definitions the path search is compared with, and what a      *)
(* monster's pursuit uses of it.  A tile is a record of x and y; "free" is *)
(* the set of tiles one may step on.                                       *)
(***************************************************************************)
EXTENDS Integers, Sequences, FiniteSets

\* The tiles one step away, on the board or off it.
Adjacent(tile) ==
    {[x |-> tile.x + 1, y |-> tile.y], [x |-> tile.x - 1, y |-> tile.y],
     [x |-> tile.x, y |-> tile.y + 1], [x |-> tile.x, y |-> tile.y - 1]}

\* Mapped tiles, with those added that are k steps away and no fewer.
Grown(free, mapped, k) ==
    mapped \union
        {<<t, k>> : t \in {u \in free : /\ \E r \in mapped : r[2] = k - 1 /\ u \in Adjacent(r[1])
                                        /\ \A r \in mapped : r[1] # u}}

\* The tiles that walks from start lead to, each paired with the least number
\* of steps, found one step after the other.  One may start on any tile.  (The
\* union over one set is so that TLC evaluates it once.)
Reached(free, start) ==
    LET Up[k \in 0..Cardinality(free)] ==
            IF k = 0 THEN {<<start, 0>>}
            ELSE UNION {Grown(free, mapped, k) : mapped \in {Up[k - 1]}}
    IN Up[Cardinality(free)]

\* Every step of the path goes to an adjacent free tile.
IsWalk(free, path) ==
    \A i \in 1..(Len(path) - 1) : path[i + 1] \in Adjacent(path[i]) \intersect free

\* A path from start to dest, none of which is shorter.
IsShortestPath(free, path, start, dest) ==
    /\ path # <<>>
    /\ path[1] = start /\ path[Len(path)] = dest
    /\ IsWalk(free, path)
    /\ <<dest, Len(path) - 1>> \in Reached(free, start)

IsCutOff(free, start, dest) == \A r \in Reached(free, start) : r[1] # dest
=============================================================================
