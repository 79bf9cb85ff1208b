-------------------------------- MODULE Board --------------------------------
(***************************************************************************)
(* The board and its sectors (Board.cpp, Board.h): the arithmetic by which *)
(* the handlers find the objects around a position.  A sector is denoted   *)
(* by its place in mSectors, which its id numbers one to one.              *)
(***************************************************************************)
EXTENDS Tiles

CONSTANTS
    SectorSize,     \* 20
    ViewRange,      \* 7
    Obstacles       \* the obstacles of the map file

ASSUME BoardAssumption ==
    /\ SectorSize \in Nat \ {0}
    /\ ViewRange \in Nat

\* Mutation: the bounds are not tested.
CanGoUnbounded(pos) == pos \notin Obstacles

\* The negative coordinates next to the board are turned away here.
CanGo(pos) == pos \in Pos \ Obstacles

\* SECTOR_X_COUNT and SECTOR_Y_COUNT: the last sector may be cut off.
XCount == (Width + SectorSize - 1) \div SectorSize
YCount == (Height + SectorSize - 1) \div SectorSize

Sectors == (0..(XCount - 1)) \X (0..(YCount - 1))

\* GetSector; every position of the board has one.
SectorOf(pos) == <<pos.x \div SectorSize, pos.y \div SectorSize>>

Larger(a, b) == IF a >= b THEN a ELSE b
Smaller(a, b) == IF a <= b THEN a ELSE b

\* The sectors, along one axis, that hold what is within range of c.
FirstSector(c, range) == Larger(0, Larger(0, c - range) \div SectorSize)
LastSector(c, range, size, count) ==
    Smaller(count - 1, Smaller(size - 1, c + range) \div SectorSize)

\* GetNeighborSectorList, and with its default for the range.
Around(pos, range) ==
    (FirstSector(pos.x, range)..LastSector(pos.x, range, Width, XCount))
        \X (FirstSector(pos.y, range)..LastSector(pos.y, range, Height, YCount))

Neighbours(pos) == Around(pos, ViewRange)

Distance(a, b) == IF a >= b THEN a - b ELSE b - a

CanSee(from, to) ==
    /\ Distance(from.x, to.x) <= ViewRange
    /\ Distance(from.y, to.y) <= ViewRange
=============================================================================
