----------------------------- MODULE Board_proof -----------------------------
(***************************************************************************)
(* What is proved about the board, its sectors and the search for a path   *)
(* over it, for a board, sectors, ranges and walls of any size.            *)
(*                                                                         *)
(* The sectors the handlers look through hold whoever is in sight.         *)
(* DoAstar and ReconstructPath return a walk over free tiles that ends at  *)
(* the target, or the empty path, and that only when the target is walled  *)
(* off; and the walk is a shortest one.                                    *)
(***************************************************************************)
EXTENDS Board, Astar, FiniteSetTheorems, TLAPS

(***************************************************************************)
(* The arithmetic of Board.                                                *)
(***************************************************************************)

\* Division by the same sector size keeps the order of coordinates
\* (Board.cpp:63-64, 88-91).
LEMMA DivMonotone ==
    ASSUME NEW s \in Nat \ {0}, NEW a \in Nat, NEW b \in Nat, a <= b
    PROVE  /\ a \div s \in Nat
           /\ a \div s <= b \div s
<1> DEFINE q == a \div s
           r == b \div s
<1>1. q \in Int /\ r \in Int
    BY SMT
<1>2. a = s * q + (a % s) /\ b = s * r + (b % s)
    BY SMT
<1>3. a % s \in 0..(s - 1) /\ b % s \in 0..(s - 1)
    BY SMT
<1>4. q >= 0
    BY SMT
<1>5. ASSUME r < q PROVE FALSE
    <2>1. r + 1 <= q
        BY <1>1, <1>5
    <2>2. s * (r + 1) <= s * q
        BY <1>1, <2>1, SMT
    <2>3. s * (r + 1) = s * r + s
        BY <1>1, SMT
    <2> QED
        BY <1>1, <1>2, <1>3, <2>2, <2>3, SMT
<1> QED
    BY <1>1, <1>4, <1>5, SMT

\* The last coordinate of a board lies in its last sector, also when that
\* sector is cut off (Board.h:16-17).
LEMMA LastCoordinate ==
    ASSUME NEW s \in Nat \ {0}, NEW size \in Nat \ {0}
    PROVE  /\ (size + s - 1) \div s \in Nat \ {0}
           /\ (size - 1) \div s <= (size + s - 1) \div s - 1
<1> DEFINE q == (size - 1) \div s
           r == (size + s - 1) \div s
<1>1. q \in Int /\ r \in Int
    BY SMT
<1>2. size - 1 = s * q + ((size - 1) % s) /\ size + s - 1 = s * r + ((size + s - 1) % s)
    BY SMT
<1>3. (size - 1) % s \in 0..(s - 1) /\ (size + s - 1) % s \in 0..(s - 1)
    BY SMT
<1>4. q >= 0
    BY SMT
<1>5. ASSUME r < q + 1 PROVE FALSE
    <2>1. s * r <= s * q
        BY <1>1, <1>5, SMT
    <2> QED
        BY <1>1, <1>2, <1>3, <2>1, SMT
<1> QED
    BY <1>1, <1>4, <1>5, SMT

\* Along one axis: a coordinate within range lies in one of the sectors that
\* are looked through, and these exist.
LEMMA FoundAlongAxis ==
    ASSUME NEW size \in Nat \ {0}, NEW a \in 0..(size - 1), NEW b \in 0..(size - 1),
           NEW range \in Nat, Distance(a, b) <= range,
           NEW count \in Int, count = (size + SectorSize - 1) \div SectorSize
    PROVE  /\ b \div SectorSize \in FirstSector(a, range)..LastSector(a, range, size, count)
           /\ FirstSector(a, range) \in Nat
           /\ LastSector(a, range, size, count) \in Int
           /\ LastSector(a, range, size, count) <= count - 1
<1> DEFINE lo == Larger(0, a - range)
           hi == Smaller(size - 1, a + range)
<1>1. lo \in Nat /\ hi \in Nat /\ lo <= b /\ b <= hi /\ hi <= size - 1
    BY BoardAssumption DEF Larger, Smaller, Distance
<1>2. /\ lo \div SectorSize \in Nat
      /\ b \div SectorSize \in Nat
      /\ lo \div SectorSize <= b \div SectorSize
    BY <1>1, DivMonotone, BoardAssumption
<1>3. /\ hi \div SectorSize \in Nat
      /\ b \div SectorSize <= hi \div SectorSize
    BY <1>1, DivMonotone, BoardAssumption
<1>4. (size - 1) \div SectorSize <= count - 1
    BY LastCoordinate, BoardAssumption
<1>5. /\ (size - 1) \div SectorSize \in Nat
      /\ b \div SectorSize <= (size - 1) \div SectorSize
    <2>1. size - 1 \in Nat /\ b \in Nat /\ b <= size - 1
        BY <1>1
    <2> QED
        BY <2>1, DivMonotone, BoardAssumption
<1> DEFINE first == lo \div SectorSize
           here == b \div SectorSize
           last == hi \div SectorSize
           end == (size - 1) \div SectorSize
<1>6. FirstSector(a, range) = first
    BY <1>2 DEF FirstSector, Larger
<1>7. LastSector(a, range, size, count) = Smaller(count - 1, last)
    BY DEF LastSector
<1> HIDE DEF first, here, last, end
<1>8. here <= Smaller(count - 1, last) /\ Smaller(count - 1, last) <= count - 1
    BY <1>2, <1>3, <1>4, <1>5 DEF Smaller, first, here, last, end
<1> QED
    BY <1>2, <1>3, <1>6, <1>7, <1>8 DEF Smaller, first, here, last

\* The sectors around a position hold whoever is within range of it, and
\* exist.
LEMMA AroundPosition ==
    ASSUME NEW a \in Pos, NEW range \in Nat
    PROVE  /\ \A b \in Pos :
                Distance(a.x, b.x) <= range /\ Distance(a.y, b.y) <= range
                    => SectorOf(b) \in Around(a, range)
           /\ Around(a, range) \subseteq Sectors
<1>1. a.x \in 0..(Width - 1) /\ a.y \in 0..(Height - 1)
    BY DEF Pos
<1>2. /\ XCount \in Nat /\ XCount = (Width + SectorSize - 1) \div SectorSize
      /\ YCount \in Nat /\ YCount = (Height + SectorSize - 1) \div SectorSize
    BY LastCoordinate, SizeAssumption, BoardAssumption DEF XCount, YCount
<1>3. ASSUME NEW b \in Pos, Distance(a.x, b.x) <= range, Distance(a.y, b.y) <= range
      PROVE  SectorOf(b) \in Around(a, range)
    <2>1. b.x \in 0..(Width - 1) /\ b.y \in 0..(Height - 1)
        BY DEF Pos
    <2>. XCount \in Int /\ YCount \in Int
        BY <1>2
    <2>2. b.x \div SectorSize \in FirstSector(a.x, range)..LastSector(a.x, range, Width, XCount)
        BY <1>1, <1>2, <1>3, <2>1, FoundAlongAxis, SizeAssumption, BoardAssumption
    <2>3. b.y \div SectorSize \in FirstSector(a.y, range)..LastSector(a.y, range, Height, YCount)
        BY <1>1, <1>2, <1>3, <2>1, FoundAlongAxis, SizeAssumption, BoardAssumption
    <2> QED
        BY <2>2, <2>3 DEF SectorOf, Around
<1>4. Distance(a.x, a.x) <= range /\ Distance(a.y, a.y) <= range
    BY <1>1, BoardAssumption DEF Distance
<1>5. FirstSector(a.x, range)..LastSector(a.x, range, Width, XCount) \subseteq 0..(XCount - 1)
    <2>1. /\ FirstSector(a.x, range) \in Nat
          /\ LastSector(a.x, range, Width, XCount) \in Int
          /\ LastSector(a.x, range, Width, XCount) <= XCount - 1
        BY <1>1, <1>2, <1>4, FoundAlongAxis, SizeAssumption, BoardAssumption
    <2> QED
        BY <1>2, <2>1
<1>6. FirstSector(a.y, range)..LastSector(a.y, range, Height, YCount) \subseteq 0..(YCount - 1)
    <2>1. /\ FirstSector(a.y, range) \in Nat
          /\ LastSector(a.y, range, Height, YCount) \in Int
          /\ LastSector(a.y, range, Height, YCount) <= YCount - 1
        BY <1>1, <1>2, <1>4, FoundAlongAxis, SizeAssumption, BoardAssumption
    <2> QED
        BY <1>2, <2>1
<1> QED
    BY <1>3, <1>5, <1>6 DEF Around, Sectors

\* Who is in sight is found: whatever CanSee admits lies in one of the
\* sectors GetNeighborSectorList returns, on a board, with sectors and with a
\* view of any size, so that the scan of these sectors misses nobody who is
\* listed where he stands (Board.cpp:79-114).
THEOREM SeenIsNeighbour ==
    ASSUME NEW a \in Pos, NEW b \in Pos, CanSee(a, b)
    PROVE  SectorOf(b) \in Neighbours(a)
BY AroundPosition, BoardAssumption DEF CanSee, Neighbours

\* No index out of mSectors: the sectors around a position, within any range,
\* and the sector of a position, exist (Board.cpp:61-72, 93-100).
THEOREM SectorsExist ==
    ASSUME NEW a \in Pos
    PROVE  /\ SectorOf(a) \in Sectors
           /\ Neighbours(a) \subseteq Sectors
           /\ \A range \in Nat : Around(a, range) \subseteq Sectors
<1>1. a.x \in Int /\ a.y \in Int
    BY BoardAssumption DEF Pos
<1>2. CanSee(a, a)
    BY <1>1, BoardAssumption DEF CanSee, Distance
<1>3. Neighbours(a) \subseteq Sectors
    BY AroundPosition, BoardAssumption DEF Neighbours
<1> QED
    BY <1>2, <1>3, SeenIsNeighbour, AroundPosition

\* If one can see the other, the other can see the one.
LEMMA SightIsMutual ==
    ASSUME NEW a \in Pos, NEW b \in Pos
    PROVE  CanSee(a, b) <=> CanSee(b, a)
<1>1. a.x \in Int /\ a.y \in Int /\ b.x \in Int /\ b.y \in Int
    BY BoardAssumption DEF Pos
<1> QED
    BY <1>1 DEF CanSee, Distance

(***************************************************************************)
(* Least steps.  Reached of module Paths maps the tiles one step after     *)
(* the other; the lemmas say what it finds, by induction over the steps.   *)
(***************************************************************************)

\* A set of natural numbers has a least one: the counterexample to take.
LEMMA LeastNumber ==
    ASSUME NEW T \in SUBSET Nat, T # {}
    PROVE  \E x \in T : \A y \in T : x <= y
<1>1. PICK x \in T : \A y \in T : ~(<<y, x>> \in OpToRel(<, Nat))
    BY NatLessThanWellFounded, WFMin
<1>2. \A y \in T : <<y, x>> \in Nat \X Nat
    OBVIOUS
<1>3. \A y \in T : ~(y < x)
    BY <1>1, <1>2 DEF OpToRel
<1>4. \A y \in T : x <= y
    <2> SUFFICES ASSUME NEW y \in T PROVE x <= y
        OBVIOUS
    <2>1. x \in Nat /\ y \in Nat
        OBVIOUS
    <2> QED BY <2>1, <1>3
<1> QED BY <1>4

\* f[k] is what Reached has mapped after k rounds.
IsLevels(f, n, free, beg) ==
    f = [k \in 0..n |->
            IF k = 0 THEN {<<beg, 0>>}
            ELSE UNION {Grown(free, mapped, k) : mapped \in {f[k - 1]}}]

\* The rounds are well defined: otherwise take the first that is not.
LEMMA LevelsExist ==
    ASSUME NEW n \in Nat, NEW free, NEW beg
    PROVE  \E f : IsLevels(f, n, free, beg)
<1> DEFINE Bad == {m \in Nat : ~ \E f : IsLevels(f, m, free, beg)}
<1> SUFFICES ASSUME Bad # {} PROVE FALSE
    OBVIOUS
<1>1. PICK m \in Bad : \A y \in Bad : m <= y
    BY LeastNumber
<1>2. CASE m = 0
    <2>1. IsLevels([k \in 0..0 |-> {<<beg, 0>>}], 0, free, beg)
        BY DEF IsLevels
    <2> QED BY <2>1, <1>2
<1>3. CASE m # 0
    <2>1. m \in Nat /\ m - 1 \in Nat /\ m - 1 \notin Bad
        BY <1>1, <1>3
    <2>2. PICK f : IsLevels(f, m - 1, free, beg)
        BY <2>1
    <2> DEFINE g == [k \in 0..m |->
                       IF k = m THEN UNION {Grown(free, mapped, k) : mapped \in {f[m - 1]}}
                       ELSE f[k]]
    <2>3. \A k \in 0..m : g[k] = IF k = 0 THEN {<<beg, 0>>}
                                 ELSE UNION {Grown(free, mapped, k) : mapped \in {g[k - 1]}}
        <3> SUFFICES ASSUME NEW k \in 0..m
                     PROVE  g[k] = IF k = 0 THEN {<<beg, 0>>}
                                   ELSE UNION {Grown(free, mapped, k) : mapped \in {g[k - 1]}}
            OBVIOUS
        <3>1. CASE k = 0
            <4>1. 0 \in 0..(m - 1) /\ 0 \in 0..m /\ 0 # m
                BY <2>1, <1>3
            <4>2. f[0] = {<<beg, 0>>}
                BY <2>2, <4>1 DEF IsLevels
            <4> QED BY <3>1, <4>1, <4>2
        <3>2. CASE k # 0 /\ k # m
            <4>1. k \in 0..(m - 1) /\ k - 1 \in 0..m /\ k - 1 # m
                BY <2>1, <3>2
            <4>2. f[k] = UNION {Grown(free, mapped, k) : mapped \in {f[k - 1]}}
                BY <2>2, <3>2, <4>1 DEF IsLevels
            <4>3. g[k] = f[k] /\ g[k - 1] = f[k - 1]
                BY <3>2, <4>1
            <4> HIDE DEF g
            <4> QED BY <3>2, <4>2, <4>3
        <3>3. CASE k = m
            <4>1. m - 1 \in 0..m /\ m - 1 # m
                BY <2>1
            <4>2. /\ g[m - 1] = f[m - 1]
                  /\ g[m] = UNION {Grown(free, mapped, m) : mapped \in {f[m - 1]}}
                BY <4>1, <2>1
            <4> HIDE DEF g
            <4> QED BY <1>3, <3>3, <4>2
        <3> QED BY <3>1, <3>2, <3>3
    <2>4. IsLevels(g, m, free, beg)
        <3>1. g = [k \in 0..m |-> g[k]]
            OBVIOUS
        <3> HIDE DEF g
        <3> QED BY <2>3, <3>1, Zenon DEF IsLevels
    <2> QED BY <2>4
<1> QED BY <1>2, <1>3

\* Reached maps for as many rounds as there are free tiles.
LEMMA ReachedIsLevels ==
    ASSUME NEW free, NEW beg, Cardinality(free) \in Nat
    PROVE  \E f : IsLevels(f, Cardinality(free), free, beg)
                  /\ Reached(free, beg) = f[Cardinality(free)]
<1> DEFINE N == Cardinality(free)
           Up[k \in 0..Cardinality(free)] ==
              IF k = 0 THEN {<<beg, 0>>}
              ELSE UNION {Grown(free, mapped, k) : mapped \in {Up[k - 1]}}
<1>1. Reached(free, beg) = Up[Cardinality(free)]
    BY Zenon DEF Reached
<1>2. \E f : IsLevels(f, N, free, beg)
    BY LevelsExist
<1>3. Up = CHOOSE f : f = [k \in 0..N |->
            IF k = 0 THEN {<<beg, 0>>}
            ELSE UNION {Grown(free, mapped, k) : mapped \in {f[k - 1]}}]
    OBVIOUS
<1>4. IsLevels(Up, N, free, beg)
    BY <1>2, <1>3, Zenon DEF IsLevels
<1> QED BY <1>1, <1>4, Zenon

\* R holds the tiles that k steps over free tiles lead to, each with one number:
\* only beg has none to come from, every other tile is a step from one with a
\* number less, and what lies beside a tile of an earlier round is in R.
IsDistanceMap(R, free, beg, k) ==
    /\ R \subseteq (free \union {beg}) \X (0..k)
    /\ <<beg, 0>> \in R
    /\ \A r, s \in R : r[1] = s[1] => r[2] = s[2]
    /\ \A r \in R : r[2] = 0 => r[1] = beg
    /\ \A r \in R : r[2] # 0 =>
          r[1] \in free /\ \E s \in R : s[2] = r[2] - 1 /\ r[1] \in Adjacent(s[1])
    /\ \A s \in R : s[2] < k =>
          \A t \in Adjacent(s[1]) \intersect free : \E r \in R : r[1] = t /\ r[2] <= s[2] + 1

\* A round more keeps this so.
LEMMA GrownIsDistanceMap ==
    ASSUME NEW free, NEW beg, NEW k \in Nat, k # 0, NEW R, IsDistanceMap(R, free, beg, k - 1)
    PROVE  IsDistanceMap(Grown(free, R, k), free, beg, k)
<1> DEFINE fresh == {u \in free : /\ \E r \in R : r[2] = k - 1 /\ u \in Adjacent(r[1])
                                 /\ \A r \in R : r[1] # u}
           G == R \union {<<u, k>> : u \in fresh}
<1>0. Grown(free, R, k) = G
    BY DEF Grown
<1>1. R \subseteq (free \union {beg}) \X (0..(k - 1)) /\ \A r \in R : r[2] \in 0..(k - 1)
    BY DEF IsDistanceMap
<1>2. \A r \in G : r \in R \/ (r[1] \in fresh /\ r[2] = k /\ r = <<r[1], k>>)
    OBVIOUS
<1>3. G \subseteq (free \union {beg}) \X (0..k)
    <2> SUFFICES ASSUME NEW r \in G PROVE r \in (free \union {beg}) \X (0..k)
        OBVIOUS
    <2>1. CASE r \in R
        <3>1. r \in (free \union {beg}) \X (0..(k - 1)) /\ 0..(k - 1) \subseteq 0..k
            BY <2>1, <1>1
        <3> QED BY <3>1
    <2>2. CASE r[1] \in fresh /\ r = <<r[1], k>>
        <3>1. k \in 0..k /\ r[1] \in free
            BY <2>2
        <3> HIDE DEF fresh
        <3> QED BY <2>2, <3>1
    <2> QED BY <1>2, <2>1, <2>2
<1>4. <<beg, 0>> \in G
    BY DEF IsDistanceMap
<1>5. \A r, s \in G : r[1] = s[1] => r[2] = s[2]
    <2> SUFFICES ASSUME NEW r \in G, NEW s \in G, r[1] = s[1] PROVE r[2] = s[2]
        OBVIOUS
    <2>1. CASE r \in R /\ s \in R
        BY <2>1 DEF IsDistanceMap
    <2>2. CASE r \notin R /\ s \notin R
        BY <2>2, <1>2
    <2>3. \A u \in fresh : \A q \in R : q[1] # u
        OBVIOUS
    <2> HIDE DEF fresh, G
    <2> QED BY <2>1, <2>2, <2>3, <1>2
<1>6. \A r \in G : r[2] # 0 =>
          r[1] \in free /\ \E s \in G : s[2] = r[2] - 1 /\ r[1] \in Adjacent(s[1])
    <2> SUFFICES ASSUME NEW r \in G, r[2] # 0
                 PROVE  r[1] \in free /\ \E s \in G : s[2] = r[2] - 1 /\ r[1] \in Adjacent(s[1])
        OBVIOUS
    <2>1. CASE r \in R
        BY <2>1 DEF IsDistanceMap
    <2>2. CASE r[1] \in fresh /\ r[2] = k
        BY <2>2
    <2> QED BY <1>2, <2>1, <2>2
<1>7. \A s \in G : s[2] < k =>
          \A t \in Adjacent(s[1]) \intersect free : \E r \in G : r[1] = t /\ r[2] <= s[2] + 1
    <2> SUFFICES ASSUME NEW s \in G, s[2] < k, NEW t \in Adjacent(s[1]) \intersect free
                 PROVE  \E r \in G : r[1] = t /\ r[2] <= s[2] + 1
        OBVIOUS
    <2>1. s \in R
        BY <1>2
    <2>2. s[2] \in 0..(k - 1)
        BY <2>1, <1>1
    <2>3. CASE s[2] < k - 1
        BY <2>1, <2>3 DEF IsDistanceMap
    <2>4. CASE s[2] = k - 1
        <3>1. CASE \E r \in R : r[1] = t
            <4>1. PICK r \in R : r[1] = t
                BY <3>1
            <4>2. r[2] \in 0..(k - 1)
                BY <1>1
            <4>3. r[2] <= s[2] + 1
                BY <2>4, <4>2
            <4> QED BY <4>1, <4>3
        <3>2. CASE \A r \in R : r[1] # t
            <4>1. t \in fresh
                BY <2>1, <2>4, <3>2
            <4>2. <<t, k>> \in G /\ <<t, k>>[1] = t /\ <<t, k>>[2] <= s[2] + 1
                BY <4>1, <2>4
            <4> QED BY <4>2
        <3> QED BY <3>1, <3>2
    <2> QED BY <2>2, <2>3, <2>4
<1>8. \A r \in G : r[2] = 0 => r[1] = beg
    BY <1>2 DEF IsDistanceMap
<1> HIDE DEF G
<1> QED BY <1>0, <1>3, <1>4, <1>5, <1>6, <1>7, <1>8, Zenon DEF IsDistanceMap

\* So it is after every round.
LEMMA LevelsAreDistanceMaps ==
    ASSUME NEW N \in Nat, NEW free, NEW beg, NEW f, IsLevels(f, N, free, beg)
    PROVE  IsDistanceMap(f[N], free, beg, N)
<1> DEFINE Bad == {k \in 0..N : ~IsDistanceMap(f[k], free, beg, k)}
<1> SUFFICES ASSUME Bad # {} PROVE FALSE
    OBVIOUS
<1>0. Bad \in SUBSET Nat
    OBVIOUS
<1>1. PICK k \in Bad : \A y \in Bad : k <= y
    BY <1>0, LeastNumber
<1>2. k \in 0..N /\ ~IsDistanceMap(f[k], free, beg, k)
    OBVIOUS
<1>3. CASE k = 0
    <2>1. f[0] = {<<beg, 0>>}
        BY <1>3 DEF IsLevels
    <2>2. IsDistanceMap({<<beg, 0>>}, free, beg, 0)
        BY DEF IsDistanceMap
    <2> QED BY <1>2, <1>3, <2>1, <2>2
<1>4. CASE k # 0
    <2>1. k - 1 \in 0..N /\ k - 1 < k /\ k \in Nat
        BY <1>2, <1>4
    <2>2. k - 1 \notin Bad
        BY <1>0, <1>1, <2>1
    <2>3. IsDistanceMap(f[k - 1], free, beg, k - 1)
        BY <2>1, <2>2
    <2>4. f[k] = UNION {Grown(free, mapped, k) : mapped \in {f[k - 1]}}
        BY <1>2, <1>4 DEF IsLevels
    <2>5. f[k] = Grown(free, f[k - 1], k)
        BY <2>4
    <2> QED BY <1>2, <1>4, <2>1, <2>3, <2>5, GrownIsDistanceMap
<1> QED BY <1>3, <1>4

\* If the last round still finds a tile, each round before has found one.
LEMMA LevelsAreFull ==
    ASSUME NEW N \in Nat, NEW free, NEW beg, NEW R, IsDistanceMap(R, free, beg, N),
           NEW s \in R, s[2] = N
    PROVE  \A j \in 0..N : \E r \in R : r[2] = j
<1> DEFINE Good == {m \in Nat : m <= N /\ \A j \in m..N : \E r \in R : r[2] = j}
<1>1. N \in Good /\ Good \in SUBSET Nat
    <2>1. \A j \in N..N : j = N
        OBVIOUS
    <2> QED BY <2>1
<1>2. PICK m \in Good : \A y \in Good : m <= y
    BY <1>1, LeastNumber
<1>3. m \in Nat /\ m <= N /\ \A j \in m..N : \E r \in R : r[2] = j
    OBVIOUS
<1>4. ASSUME m # 0 PROVE FALSE
    <2>1. PICK r \in R : r[2] = m
        <3>1. m \in m..N
            BY <1>3
        <3> QED BY <1>3, <3>1
    <2>2. PICK q \in R : q[2] = m - 1
        BY <1>4, <2>1 DEF IsDistanceMap
    <2>3. \A j \in (m - 1)..N : \E p \in R : p[2] = j
        <3> SUFFICES ASSUME NEW j \in (m - 1)..N PROVE \E p \in R : p[2] = j
            OBVIOUS
        <3>1. CASE j = m - 1
            BY <2>2, <3>1
        <3>2. CASE j # m - 1
            <4>1. j \in m..N
                BY <1>3, <3>2
            <4> QED BY <1>3, <4>1
        <3> QED BY <3>1, <3>2
    <2>4. m - 1 \in Good
        BY <1>3, <1>4, <2>3
    <2> QED BY <1>2, <1>3, <2>4
<1> QED BY <1>3, <1>4

\* A new tile for each round and one more that is not mapped yet would be more
\* free tiles than there are: when the rounds end, no step leads out of Reached.
LEMMA ReachedIsClosed ==
    ASSUME NEW free, IsFiniteSet(free), NEW beg
    PROVE  LET R == Reached(free, beg) IN
           /\ IsDistanceMap(R, free, beg, Cardinality(free))
           /\ \A s \in R : \A t \in Adjacent(s[1]) \intersect free :
                 \E r \in R : r[1] = t /\ r[2] <= s[2] + 1
<1> DEFINE R == Reached(free, beg)
           N == Cardinality(free)
<1>1. N \in Nat
    BY FS_CardinalityType
<1>2. IsDistanceMap(R, free, beg, N)
    BY <1>1, ReachedIsLevels, LevelsAreDistanceMaps
<1> SUFFICES ASSUME NEW s \in R, NEW t \in Adjacent(s[1]) \intersect free
             PROVE  \E r \in R : r[1] = t /\ r[2] <= s[2] + 1
    BY <1>2
<1> HIDE DEF R, N
<1>3. \A r \in R : r[2] \in 0..N /\ r[1] \in free \union {beg}
    BY <1>2 DEF IsDistanceMap
<1>4. CASE s[2] < N
    BY <1>2, <1>4 DEF IsDistanceMap
<1>5. CASE s[2] = N
    <2>1. CASE \E r \in R : r[1] = t
        <3>1. PICK r \in R : r[1] = t
            BY <2>1
        <3>2. r[2] <= s[2] + 1
            BY <1>1, <1>3, <1>5
        <3> QED BY <3>1, <3>2
    <2>2. CASE \A r \in R : r[1] # t
        <3>1. \A j \in 0..N : \E r \in R : r[2] = j
            BY <1>1, <1>2, <1>5, LevelsAreFull
        <3> DEFINE at(j) == CHOOSE r \in R : r[2] = j
                   h == [j \in 0..N |-> IF j = 0 THEN t ELSE at(j)[1]]
        <3>2. \A j \in 0..N : at(j) \in R /\ at(j)[2] = j
            BY <3>1
        <3> HIDE DEF at
        <3>3. \A j \in 0..N : j # 0 => at(j)[1] \in free
            BY <1>2, <3>2 DEF IsDistanceMap
        <3>4. h \in [0..N -> free]
            BY <3>3
        <3>5. Cardinality(0..N) = N + 1 /\ IsFiniteSet(0..N)
            BY <1>1, FS_Interval
        <3>6. PICK x \in 0..N, y \in 0..N : x # y /\ h[x] = h[y]
            <4>1. Cardinality(free) < Cardinality(0..N)
                BY <1>1, <3>5 DEF N
            <4> HIDE DEF h
            <4> QED BY <3>4, <3>5, <4>1, FS_PigeonHole
        <3>7. CASE x # 0 /\ y # 0
            <4>1. at(x)[1] = at(y)[1]
                BY <3>6, <3>7
            <4>2. at(x)[2] = at(y)[2]
                BY <3>2, <4>1, <1>2 DEF IsDistanceMap
            <4> QED BY <3>2, <3>6, <4>2
        <3>8. CASE x = 0 \/ y = 0
            <4>1. at(x)[1] # t /\ at(y)[1] # t
                BY <2>2, <3>2
            <4> QED BY <3>6, <3>8, <4>1
        <3> QED BY <3>7, <3>8
    <2> QED BY <2>1, <2>2
<1> QED BY <1>1, <1>3, <1>4, <1>5

\* The board has finitely many tiles.
LEMMA BoardIsFinite == IsFiniteSet(Pos)
<1> DEFINE C == (0..(Width - 1)) \X (0..(Height - 1))
           f == [c \in C |-> [x |-> c[1], y |-> c[2]]]
<1>1. IsFiniteSet(0..(Width - 1)) /\ IsFiniteSet(0..(Height - 1))
    BY SizeAssumption, FS_Interval
<1>2. IsFiniteSet(C)
    BY <1>1, FS_Product
<1>3. f \in [C -> Pos]
    BY DEF Pos
<1>4. \A t \in Pos : \E c \in C : f[c] = t
    <2> SUFFICES ASSUME NEW t \in Pos PROVE \E c \in C : f[c] = t
        OBVIOUS
    <2>1. <<t.x, t.y>> \in C /\ f[<<t.x, t.y>>] = t
        BY DEF Pos
    <2> QED BY <2>1
<1>5. f \in Surjection(C, Pos)
    BY <1>3, <1>4 DEF Surjection
<1> HIDE DEF f, C
<1> QED BY <1>2, <1>5, FS_Surjection

(***************************************************************************)
(* Tiles and nodes.                                                        *)
(***************************************************************************)

LEMMA HeuristicIsNat ==
    ASSUME NEW a \in Pos, NEW b \in Pos
    PROVE  Heuristic(a, b) \in Nat
<1>1. a.x \in Int /\ a.y \in Int /\ b.x \in Int /\ b.y \in Int
    BY SizeAssumption DEF Pos
<1>2. Abs(a.x - b.x) \in Nat /\ Abs(a.y - b.y) \in Nat
    BY <1>1 DEF Abs
<1> QED
    BY <1>2 DEF Heuristic

\* One step changes the heuristic by one at most: it never overtakes the cost.
LEMMA HeuristicStep ==
    ASSUME NEW a \in Pos, NEW b \in Pos, NEW c \in Pos, b \in Adjacent(a)
    PROVE  Heuristic(a, c) <= Heuristic(b, c) + 1
<1>1. /\ a.x \in Int /\ a.y \in Int /\ b.x \in Int /\ b.y \in Int
      /\ c.x \in Int /\ c.y \in Int
    BY SizeAssumption DEF Pos
<1>2. \/ b.x = a.x + 1 /\ b.y = a.y
      \/ b.x = a.x - 1 /\ b.y = a.y
      \/ b.x = a.x /\ b.y = a.y + 1
      \/ b.x = a.x /\ b.y = a.y - 1
    BY DEF Adjacent
<1> QED BY <1>1, <1>2 DEF Heuristic, Abs

LEMMA NotBesideItself ==
    ASSUME NEW t \in Pos
    PROVE  t \notin Adjacent(t)
<1>1. t.x \in Int /\ t.y \in Int
    BY SizeAssumption DEF Pos
<1>2. /\ [x |-> t.x + 1, y |-> t.y].x # t.x /\ [x |-> t.x - 1, y |-> t.y].x # t.x
      /\ [x |-> t.x, y |-> t.y + 1].y # t.y /\ [x |-> t.x, y |-> t.y - 1].y # t.y
    BY <1>1
<1> QED
    BY <1>2 DEF Adjacent

LEMMA NoTileIsNone == NoTile \notin Pos
BY SizeAssumption DEF NoTile, Pos

(***************************************************************************)
(* The inductive invariant.                                                *)
(***************************************************************************)

FreeTiles == Pos \ walls

Scored(t) == gScore[t] # Unscored

Waits(t) == \E n \in open : n.pos = t

\* A node may be older than the gScore of its tile, never better.
NodesAreScored ==
    \A n \in open :
        /\ n.pos \in FreeTiles
        /\ Scored(n.pos)
        /\ gScore[n.pos] <= n.g

\* Every edge of cameFrom is a step over free tiles to a higher cost.
EdgesClimb ==
    \A t \in Pos :
        cameFrom[t] # NoTile =>
            /\ t \in Adjacent(cameFrom[t]) \intersect FreeTiles
            /\ Scored(t) /\ Scored(cameFrom[t])
            /\ gScore[cameFrom[t]] < gScore[t]

\* A tile that does not wait has been expanded, unless it is the target.
ExpandedIsClosed ==
    \A t \in Pos :
        Scored(t) /\ ~Waits(t) =>
            /\ stage = "search" => t # dest
            /\ t # dest => \A u \in Adjacent(t) \intersect FreeTiles : Scored(u)

\* Following the edges from a tile that has been reached ends at the start.
ScoredHasEdge ==
    /\ \A t \in Pos : Scored(t) /\ t # start => cameFrom[t] # NoTile
    /\ stage = "rebuild" => Scored(current)

EmptyMeansExhausted ==
    /\ stage = "search" => path = <<>>
    /\ stage = "done" /\ path = <<>> => open = {} /\ ~Scored(dest)

SearchInv ==
    /\ SearchTypeOK
    /\ gScore[start] = 0
    /\ NodesAreScored
    /\ EdgesClimb
    /\ ExpandedIsClosed
    /\ ScoredHasEdge
    /\ EmptyMeansExhausted
    /\ PathIsWalk

\* The target cannot be reached: some region around the start has no way out
\* and does not hold it.
WalledOff ==
    \E region \in SUBSET Pos :
        /\ start \in region /\ dest \notin region
        /\ \A t \in region : Adjacent(t) \intersect FreeTiles \subseteq region

(***************************************************************************)
(* Initial states.                                                         *)
(***************************************************************************)

LEMMA SearchInvInit == SearchInit => SearchInv
<1> SUFFICES ASSUME SearchInit PROVE SearchInv
    OBVIOUS
<1> USE DEF SearchInit
<1>1. Node(start, 0) \in NodeType /\ Node(start, 0).pos = start /\ Node(start, 0).g = 0
    BY HeuristicIsNat DEF Node, NodeType
<1>2. SearchTypeOK
    BY <1>1 DEF SearchTypeOK, Unscored
<1>3. gScore[start] = 0 /\ NodesAreScored
    BY <1>1 DEF NodesAreScored, FreeTiles, Scored, Unscored
<1>4. EdgesClimb /\ EmptyMeansExhausted /\ PathIsWalk
    BY DEF EdgesClimb, EmptyMeansExhausted, PathIsWalk
<1>5. ExpandedIsClosed /\ ScoredHasEdge
    BY <1>1 DEF ExpandedIsClosed, ScoredHasEdge, Scored, Waits, Unscored
<1> QED
    BY <1>2, <1>3, <1>4, <1>5 DEF SearchInv

(***************************************************************************)
(* The turn of the loop.                                                   *)
(***************************************************************************)

LEMMA ExpandStep == SearchInv /\ Expand => SearchInv'
<1> SUFFICES ASSUME SearchInv, Expand PROVE SearchInv'
    OBVIOUS
<1> USE DEF SearchInv
<1>1. PICK n \in Least :
        /\ n.pos # dest
        /\ open' = (open \ {n}) \union {Node(t, n.g + 1) : t \in Improved(n)}
        /\ gScore' = [t \in Pos |-> IF t \in Improved(n) THEN n.g + 1 ELSE gScore[t]]
        /\ cameFrom' = [t \in Pos |-> IF t \in Improved(n) THEN n.pos ELSE cameFrom[t]]
    BY DEF Expand
<1>2. /\ stage = "search" /\ stage' = stage /\ path' = path /\ current' = current
      /\ walls' = walls /\ start' = start /\ dest' = dest
    BY DEF Expand, input
<1>3. n \in open /\ n \in NodeType /\ n.g \in Nat /\ n.pos \in FreeTiles
    BY DEF Least, SearchTypeOK, NodeType, NodesAreScored
<1>4. Improved(n) \subseteq FreeTiles /\ FreeTiles \subseteq Pos
    BY DEF Improved, Passable, FreeTiles
<1>5. n.pos \notin Improved(n)
    BY <1>3, NotBesideItself DEF Improved, Passable, FreeTiles
<1>6. start \notin Improved(n)
    BY <1>3 DEF Improved, Unscored
<1>7. \A t \in Improved(n) :
            /\ Node(t, n.g + 1) \in NodeType
            /\ Node(t, n.g + 1).pos = t /\ Node(t, n.g + 1).g = n.g + 1
    <2> SUFFICES ASSUME NEW t \in Improved(n)
                 PROVE  /\ Node(t, n.g + 1) \in NodeType
                        /\ Node(t, n.g + 1).pos = t /\ Node(t, n.g + 1).g = n.g + 1
        OBVIOUS
    <2>1. t \in Pos /\ dest \in Pos
        BY <1>4 DEF SearchTypeOK
    <2>2. Heuristic(t, dest) \in Nat
        BY <2>1, HeuristicIsNat
    <2> QED
        BY <1>3, <2>1, <2>2 DEF Node, NodeType
<1>8. gScore \in [Pos -> Nat \union {Unscored}] /\ gScore' \in [Pos -> Nat \union {Unscored}]
    BY <1>1, <1>3 DEF SearchTypeOK
<1>9. SearchTypeOK'
    <2>1. open' \in SUBSET NodeType
        BY <1>1, <1>7 DEF SearchTypeOK
    <2>2. cameFrom' \in [Pos -> (Pos \ walls) \union {NoTile}]
        BY <1>1, <1>3 DEF SearchTypeOK, FreeTiles
    <2> QED
        BY <1>2, <1>8, <2>1, <2>2 DEF SearchTypeOK
<1>10. \A t \in Pos : Scored(t) => Scored(t)' /\ gScore'[t] <= gScore[t]
    BY <1>1, <1>3, <1>8 DEF Scored, Unscored, Improved
<1>11. \A t \in Improved(n) : Scored(t)' /\ gScore'[t] = n.g + 1
    BY <1>1, <1>3, <1>4 DEF Scored, Unscored
<1>12. (gScore[start] = 0)'
    BY <1>1, <1>2, <1>6 DEF SearchTypeOK
<1>13. NodesAreScored'
    <2> SUFFICES ASSUME NEW m \in open'
                 PROVE  m.pos \in FreeTiles /\ Scored(m.pos)' /\ gScore'[m.pos] <= m.g
        BY <1>2 DEF NodesAreScored, FreeTiles
    <2>1. CASE m \in open
        <3>1. /\ m.pos \in FreeTiles /\ Scored(m.pos) /\ gScore[m.pos] <= m.g
              /\ m.g \in Nat
            BY <2>1 DEF NodesAreScored, SearchTypeOK, NodeType
        <3>2. Scored(m.pos)' /\ gScore'[m.pos] <= gScore[m.pos]
            BY <3>1, <1>4, <1>10
        <3> QED
            BY <3>1, <3>2, <1>8, <1>4 DEF Unscored
    <2>2. CASE m \notin open
        <3>1. PICK t \in Improved(n) : m = Node(t, n.g + 1)
            BY <2>2, <1>1
        <3> QED
            BY <3>1, <1>3, <1>4, <1>7, <1>11
    <2> QED
        BY <2>1, <2>2
<1>14. EdgesClimb'
    <2> SUFFICES ASSUME NEW t \in Pos, cameFrom'[t] # NoTile
                 PROVE  /\ t \in Adjacent(cameFrom'[t]) \intersect FreeTiles
                        /\ Scored(t)' /\ gScore'[cameFrom'[t]] # Unscored
                        /\ gScore'[cameFrom'[t]] < gScore'[t]
        BY <1>2 DEF EdgesClimb, FreeTiles, Scored
    <2>1. CASE t \in Improved(n)
        <3>1. cameFrom'[t] = n.pos
            BY <1>1, <2>1
        <3>2. t \in Adjacent(n.pos) \intersect FreeTiles
            BY <2>1 DEF Improved, Passable, FreeTiles
        <3>3. Scored(n.pos) /\ gScore[n.pos] <= n.g
            BY <1>3 DEF NodesAreScored
        <3>4. gScore'[n.pos] = gScore[n.pos]
            BY <1>1, <1>3, <1>4, <1>5
        <3>5. gScore[n.pos] < n.g + 1
            BY <1>3, <1>4, <1>8, <3>3 DEF Scored
        <3> QED
            BY <2>1, <3>1, <3>2, <3>3, <3>4, <3>5, <1>11 DEF Scored
    <2>2. CASE t \notin Improved(n)
        <3>1. PICK u : /\ u = cameFrom[t] /\ u # NoTile
                       /\ cameFrom'[t] = u /\ gScore'[t] = gScore[t]
            BY <1>1, <2>2
        <3>2. /\ t \in Adjacent(u) \intersect FreeTiles
              /\ Scored(t) /\ Scored(u) /\ gScore[u] < gScore[t]
            BY <3>1 DEF EdgesClimb
        <3>3. u \in Pos
            BY <3>1 DEF SearchTypeOK
        <3>4. Scored(t)' /\ Scored(u)' /\ gScore'[u] <= gScore[u]
            BY <3>2, <3>3, <1>10
        <3>5. gScore'[u] < gScore[t]
            BY <3>2, <3>3, <3>4, <1>8 DEF Scored
        <3> QED
            BY <3>1, <3>2, <3>4, <3>5 DEF Scored
    <2> QED
        BY <2>1, <2>2
<1>15. ExpandedIsClosed'
    <2> SUFFICES ASSUME NEW t \in Pos, Scored(t)', ~Waits(t)'
                 PROVE  t # dest /\ \A u \in Adjacent(t) \intersect FreeTiles : Scored(u)'
        BY <1>2 DEF ExpandedIsClosed, FreeTiles
    <2>1. t \notin Improved(n)
        BY <1>1, <1>7 DEF Waits
    <2>2. Scored(t)
        BY <2>1, <1>1 DEF Scored
    <2>3. CASE t = n.pos
        <3> SUFFICES ASSUME NEW u \in Adjacent(t) \intersect FreeTiles PROVE Scored(u)'
            BY <2>3, <1>1
        <3>1. u \in Passable(n) /\ u \in Pos
            BY <2>3, <1>4 DEF Passable, FreeTiles
        <3>2. CASE u \in Improved(n)
            BY <3>2, <1>11
        <3>3. CASE u \notin Improved(n)
            <4>1. Scored(u)
                BY <3>1, <3>3 DEF Improved, Scored
            <4> QED
                BY <3>1, <4>1, <1>10
        <3> QED
            BY <3>2, <3>3
    <2>4. CASE t # n.pos
        <3>1. ~Waits(t)
            BY <2>4, <1>1 DEF Waits
        <3>2. t # dest /\ \A u \in Adjacent(t) \intersect FreeTiles : Scored(u)
            BY <2>2, <3>1, <1>2 DEF ExpandedIsClosed
        <3> QED
            BY <3>2, <1>4, <1>10
    <2> QED
        BY <2>3, <2>4
<1>16. EmptyMeansExhausted' /\ PathIsWalk'
    BY <1>2 DEF EmptyMeansExhausted, PathIsWalk
<1>17. ScoredHasEdge'
    <2>1. n.pos # NoTile
        BY <1>3, <1>4, NoTileIsNone
    <2> QED
        BY <1>1, <1>2, <2>1 DEF ScoredHasEdge, Scored
<1> QED
    BY <1>9, <1>12, <1>13, <1>14, <1>15, <1>16, <1>17

(***************************************************************************)
(* The other steps.                                                        *)
(***************************************************************************)

LEMMA FoundStep == SearchInv /\ Found => SearchInv'
<1> SUFFICES ASSUME SearchInv, Found PROVE SearchInv'
    OBVIOUS
<1> USE DEF SearchInv
<1>1. PICK n \in Least : n.pos = dest /\ open' = open \ {n}
    BY DEF Found
<1>2. /\ stage' = "rebuild" /\ current' = dest /\ path' = path /\ path = <<>>
      /\ gScore' = gScore /\ cameFrom' = cameFrom
      /\ walls' = walls /\ start' = start /\ dest' = dest
    BY DEF Found, input, EmptyMeansExhausted
<1>3. SearchTypeOK'
    BY <1>1, <1>2 DEF SearchTypeOK
<1>4. gScore'[start'] = 0 /\ NodesAreScored' /\ EdgesClimb'
    BY <1>1, <1>2 DEF NodesAreScored, EdgesClimb, FreeTiles, Scored
<1>5. ExpandedIsClosed'
    BY <1>1, <1>2 DEF ExpandedIsClosed, FreeTiles, Scored, Waits
<1>6. EmptyMeansExhausted'
    BY <1>2 DEF EmptyMeansExhausted
<1>7. ScoredHasEdge'
    BY <1>1, <1>2 DEF ScoredHasEdge, NodesAreScored, Scored, Least
<1>8. PathIsWalk'
    <2>1. gScore[dest] \in Int
        BY DEF SearchTypeOK, Unscored
    <2>2. Len(path') = 0 /\ <<current'>> \o path' = <<dest>>
        BY <1>2
    <2> QED
        BY <1>2, <2>1, <2>2 DEF PathIsWalk, IsWalk
<1> QED
    BY <1>3, <1>4, <1>5, <1>6, <1>7, <1>8

LEMMA ExhaustedStep == SearchInv /\ Exhausted => SearchInv'
<1> SUFFICES ASSUME SearchInv, Exhausted PROVE SearchInv'
    OBVIOUS
<1> USE DEF SearchInv, Exhausted, input, search
<1>1. SearchTypeOK' /\ gScore'[start'] = 0 /\ NodesAreScored' /\ EdgesClimb'
    BY DEF SearchTypeOK, NodesAreScored, EdgesClimb, FreeTiles, Scored
<1>5. ScoredHasEdge' /\ PathIsWalk'
    BY DEF ScoredHasEdge, EmptyMeansExhausted, PathIsWalk, Scored
<1>2. ExpandedIsClosed'
    BY DEF ExpandedIsClosed, FreeTiles, Scored, Waits
<1>3. ~Scored(dest)
    BY DEF ExpandedIsClosed, Waits, SearchTypeOK
<1>4. EmptyMeansExhausted'
    BY <1>3 DEF EmptyMeansExhausted, Scored
<1> QED
    BY <1>1, <1>2, <1>4, <1>5

LEMMA StepBackStep == SearchInv /\ StepBack => SearchInv'
<1> SUFFICES ASSUME SearchInv, StepBack PROVE SearchInv'
    OBVIOUS
<1> USE DEF SearchInv, StepBack, input, search
<1> DEFINE rest == <<current>> \o path
<1>1. current \in Pos /\ path \in Seq(Pos) /\ rest \in Seq(Pos) /\ rest # <<>>
    BY DEF SearchTypeOK
<1>2. cameFrom[current] \in FreeTiles /\ cameFrom[current] \in Pos
    BY <1>1 DEF SearchTypeOK, FreeTiles
<1>3. /\ current \in Adjacent(cameFrom[current]) \intersect FreeTiles
      /\ gScore[cameFrom[current]] < gScore[current]
      /\ Scored(current) /\ Scored(cameFrom[current])
    BY <1>1 DEF EdgesClimb
<1>4. SearchTypeOK'
    BY <1>1, <1>2 DEF SearchTypeOK, FreeTiles
<1>5. gScore'[start'] = 0 /\ NodesAreScored' /\ EdgesClimb' /\ EmptyMeansExhausted'
    BY DEF NodesAreScored, EdgesClimb, EmptyMeansExhausted, FreeTiles, Scored
<1>6. ExpandedIsClosed' /\ ScoredHasEdge'
    BY <1>3 DEF ExpandedIsClosed, ScoredHasEdge, FreeTiles, Scored, Waits
<1>7. PathIsWalk'
    <2> DEFINE longer == <<cameFrom[current]>> \o rest
    <2>1. /\ rest[Len(rest)] = dest /\ IsWalk(FreeTiles, rest)
          /\ Len(path) + gScore[current] <= gScore[dest]
        BY DEF PathIsWalk, FreeTiles
    <2>2. Len(longer) = Len(rest) + 1 /\ \A i \in 1..Len(rest) : longer[i + 1] = rest[i]
        BY <1>1, <1>2
    <2>3. longer[1] = cameFrom[current] /\ rest[1] = current /\ Len(rest) = Len(path) + 1
        BY <1>1, <1>2
    <2>4. longer[Len(longer)] = dest
        BY <1>1, <2>1, <2>2
    <2>5. IsWalk(FreeTiles, longer)
        <3> SUFFICES ASSUME NEW i \in 1..(Len(longer) - 1)
                     PROVE  longer[i + 1] \in Adjacent(longer[i]) \intersect FreeTiles
            BY DEF IsWalk
        <3>1. CASE i = 1
            BY <3>1, <1>1, <1>3, <2>2, <2>3
        <3>2. CASE i > 1
            <4>1. i - 1 \in 1..(Len(rest) - 1) /\ i \in 1..Len(rest) /\ (i - 1) + 1 = i
                <5>1. Len(rest) \in Nat /\ Len(longer) = Len(rest) + 1
                    BY <1>1, <2>2
                <5> HIDE DEF longer, rest
                <5> QED
                    BY <3>2, <5>1
            <4>2. longer[i + 1] = rest[i] /\ longer[i] = rest[i - 1]
                BY <4>1, <1>1, <2>2
            <4>3. rest[(i - 1) + 1] \in Adjacent(rest[i - 1]) \intersect FreeTiles
                BY <4>1, <2>1 DEF IsWalk
            <4> QED
                BY <4>1, <4>2, <4>3
        <3> QED
            BY <3>1, <3>2
    <2>6. /\ gScore[dest] \in Int /\ gScore[current] \in Int
          /\ gScore[cameFrom[current]] \in Int
        BY <1>1, <1>2 DEF SearchTypeOK, Unscored
    <2>7. Len(rest) + gScore[cameFrom[current]] <= gScore[dest]
        BY <1>1, <1>3, <2>1, <2>3, <2>6
    <2>8. <<current'>> \o path' = longer /\ Len(path') = Len(rest)
        OBVIOUS
    <2> HIDE DEF longer, rest
    <2> QED
        BY <2>4, <2>5, <2>7, <2>8 DEF PathIsWalk, FreeTiles
<1> QED
    BY <1>4, <1>5, <1>6, <1>7

LEMMA AtStartStep == SearchInv /\ AtStart => SearchInv'
<1> SUFFICES ASSUME SearchInv, AtStart PROVE SearchInv'
    OBVIOUS
<1> USE DEF SearchInv, AtStart, input, search
<1>1. current \in Pos /\ path \in Seq(Pos)
    BY DEF SearchTypeOK
<1>2. path' \in Seq(Pos) /\ path' # <<>>
    BY <1>1
<1>3. SearchTypeOK'
    BY <1>2 DEF SearchTypeOK
<1>4. gScore'[start'] = 0 /\ NodesAreScored' /\ EdgesClimb'
    BY DEF NodesAreScored, EdgesClimb, FreeTiles, Scored
<1>5. ExpandedIsClosed' /\ ScoredHasEdge'
    BY DEF ExpandedIsClosed, ScoredHasEdge, FreeTiles, Scored, Waits
<1>6. EmptyMeansExhausted'
    BY <1>2 DEF EmptyMeansExhausted
<1>7. PathIsWalk'
    <2>1. current = start /\ (<<current>> \o path)[1] = current
        BY <1>1 DEF ScoredHasEdge
    <2> QED
        BY <2>1 DEF PathIsWalk
<1> QED
    BY <1>3, <1>4, <1>5, <1>6, <1>7

\* Every step of the search keeps SearchInv.
LEMMA SearchStep == SearchInv /\ [SearchNext]_searchVars => SearchInv'
<1> SUFFICES ASSUME SearchInv, [SearchNext]_searchVars PROVE SearchInv'
    OBVIOUS
<1>1. CASE SearchNext
    BY <1>1, FoundStep, ExpandStep, ExhaustedStep, StepBackStep, AtStartStep DEF SearchNext
<1>2. CASE UNCHANGED searchVars
    BY <1>2 DEF searchVars, input, search, SearchInv, SearchTypeOK, NodesAreScored, EdgesClimb,
       ExpandedIsClosed, ScoredHasEdge, EmptyMeansExhausted, PathIsWalk, FreeTiles, Scored, Waits
<1> QED BY <1>1, <1>2

(***************************************************************************)
(* Costs.  The queue returns a node with the least f, and the heuristic    *)
(* never exceeds what is left to go: a tile's cost is the least there is   *)
(* once no node waits with it.                                             *)
(***************************************************************************)

\* The least number of steps from the monster to every tile it can reach.
Distances == Reached(FreeTiles, start)

\* The best node of the tile has been taken from openSet; older and worse ones
\* may still wait there.
Closed(t) == Scored(t) /\ Node(t, gScore[t]) \notin open

\* A node's f is its g and the heuristic.
NodesFit == \A n \in open : n = Node(n.pos, n.g)

\* A gScore is the length of some way: it is not below the least.
CostsAreReal ==
    \A t \in Pos : Scored(t) => \E r \in Distances : r[1] = t /\ r[2] <= gScore[t]

\* While it goes on, a tile whose best node was expanded has offered its
\* neighbours their way through it.
ClosedOffers ==
    stage = "search" =>
        \A t \in Pos : Closed(t) =>
            \A u \in Adjacent(t) \intersect FreeTiles : Scored(u) /\ gScore[u] <= gScore[t] + 1

\* A tile whose best node was expanded has its least cost.
ClosedIsBest == \A t \in Pos : Closed(t) => <<t, gScore[t]>> \in Distances

\* DoAstar calls ReconstructPath when the target has its least cost.
TargetIsBest == stage # "search" /\ Scored(dest) => <<dest, gScore[dest]>> \in Distances

\* The path that is returned takes no more steps than the target's cost.
DoneIsShort ==
    stage = "done" /\ path # <<>> => Scored(dest) /\ Len(path) <= gScore[dest] + 1

\* SettledIsLeast is not inductive: that a node with the least f has its least
\* cost depends on what all expanded nodes have left behind.
Optimal ==
    /\ NodesFit
    /\ CostsAreReal
    /\ ClosedOffers
    /\ ClosedIsBest
    /\ TargetIsBest
    /\ DoneIsShort

\* What the lemmas above say of Reached, for the map of the search.
LEMMA DistancesAreSound ==
    ASSUME SearchTypeOK
    PROVE  /\ \A r \in Distances : r[1] \in Pos /\ r[2] \in Nat /\ r = <<r[1], r[2]>>
           /\ <<start, 0>> \in Distances
           /\ \A r, s \in Distances : r[1] = s[1] => r[2] = s[2]
           /\ \A r \in Distances : r[2] = 0 => r[1] = start
           /\ \A r \in Distances : r[2] # 0 =>
                 /\ r[1] \in FreeTiles
                 /\ \E s \in Distances : s[2] = r[2] - 1 /\ r[1] \in Adjacent(s[1])
           /\ \A s \in Distances : \A t \in Adjacent(s[1]) \intersect FreeTiles :
                 \E r \in Distances : r[1] = t /\ r[2] <= s[2] + 1
<1>1. IsFiniteSet(FreeTiles)
    BY BoardIsFinite, FS_Subset DEF FreeTiles
<1>2. FreeTiles \union {start} \subseteq Pos
    BY DEF FreeTiles, SearchTypeOK
<1>3. /\ IsDistanceMap(Distances, FreeTiles, start, Cardinality(FreeTiles))
      /\ \A s \in Distances : \A t \in Adjacent(s[1]) \intersect FreeTiles :
               \E r \in Distances : r[1] = t /\ r[2] <= s[2] + 1
    BY <1>1, ReachedIsClosed DEF Distances
<1>4. Cardinality(FreeTiles) \in Nat
    BY <1>1, FS_CardinalityType
<1> HIDE DEF Distances, FreeTiles
<1>5. \A r \in Distances : r[1] \in Pos /\ r[2] \in Nat /\ r = <<r[1], r[2]>>
    BY <1>2, <1>3, <1>4 DEF IsDistanceMap
<1> QED BY <1>3, <1>5 DEF IsDistanceMap

\* Either the tile is settled with its least cost, or a node waits with its own
\* least cost whose f is no more than a way through the tile would take.
OnFrontier(r) ==
    \/ Closed(r[1]) /\ gScore[r[1]] = r[2]
    \/ \E m \in open : <<m.pos, m.g>> \in Distances /\ m.f <= r[2] + Heuristic(r[1], dest)

\* This holds of every tile that can be reached: the first for which it did not
\* would have a predecessor for which it does.  If the predecessor is settled the
\* tile itself waits; if not, its node serves, as the heuristic drops by one at most.
LEMMA Frontier ==
    ASSUME SearchInv, Optimal, stage = "search"
    PROVE  \A r \in Distances : OnFrontier(r)
<1> USE DEF SearchInv, Optimal
<1> DEFINE Bad == {k \in Nat : \E r \in Distances : r[2] = k /\ ~OnFrontier(r)}
<1> SUFFICES ASSUME Bad # {} PROVE FALSE
    BY DistancesAreSound
<1>1. PICK k \in Bad : \A y \in Bad : k <= y
    BY LeastNumber
<1>2. PICK r \in Distances : r[2] = k /\ ~OnFrontier(r)
    OBVIOUS
<1>3. r[1] \in Pos /\ k \in Nat /\ dest \in Pos /\ start \in Pos
    BY <1>2, DistancesAreSound DEF SearchTypeOK
<1>4. /\ gScore \in [Pos -> Nat \union {Unscored}]
      /\ \A t \in Pos : Scored(t) => gScore[t] \in Nat
    BY DEF SearchTypeOK, Scored
\* A node for r's tile that waits with r's cost would do.
<1>5. Node(r[1], k) \notin open
    <2> SUFFICES ASSUME Node(r[1], k) \in open PROVE FALSE
        OBVIOUS
    <2>1. r = <<r[1], k>> /\ Heuristic(r[1], dest) \in Nat
        BY <1>2, <1>3, DistancesAreSound, HeuristicIsNat
    <2>2. /\ Node(r[1], k).pos = r[1] /\ Node(r[1], k).g = k
          /\ Node(r[1], k).f = k + Heuristic(r[1], dest)
        BY DEF Node
    <2>3. k <= k /\ k + Heuristic(r[1], dest) <= r[2] + Heuristic(r[1], dest)
        BY <1>2, <1>3, <2>1
    <2> QED BY <1>2, <2>1, <2>2, <2>3 DEF OnFrontier
<1>6. CASE k = 0
    <2>1. r[1] = start /\ gScore[start] = 0 /\ Scored(start)
        BY <1>2, <1>6, DistancesAreSound DEF Scored, Unscored
    <2> QED BY <1>2, <1>5, <1>6, <2>1 DEF OnFrontier, Closed
<1>7. CASE k # 0
    <2>1. PICK s \in Distances : s[2] = k - 1 /\ r[1] \in Adjacent(s[1]) \intersect FreeTiles
        BY <1>2, <1>7, DistancesAreSound
    <2>2. s[1] \in Pos /\ s[2] \in Nat /\ OnFrontier(s)
        <3>1. s[1] \in Pos /\ s[2] \in Nat
            BY DistancesAreSound
        <3>2. s[2] \notin Bad
            BY <1>1, <1>3, <2>1, <3>1
        <3> QED BY <3>1, <3>2
    <2>3. CASE \E m \in open : <<m.pos, m.g>> \in Distances /\ m.f <= s[2] + Heuristic(s[1], dest)
        <3>1. PICK m \in open : <<m.pos, m.g>> \in Distances /\ m.f <= s[2] + Heuristic(s[1], dest)
            BY <2>3
        <3>2. Heuristic(s[1], dest) <= Heuristic(r[1], dest) + 1
            BY <1>3, <2>1, <2>2, HeuristicStep
        <3>3. Heuristic(s[1], dest) \in Nat /\ Heuristic(r[1], dest) \in Nat /\ m.f \in Nat
            BY <1>3, <2>2, HeuristicIsNat DEF SearchTypeOK, NodeType
        <3>4. m.f <= r[2] + Heuristic(r[1], dest)
            BY <1>2, <1>3, <2>1, <3>1, <3>2, <3>3
        <3> QED BY <1>2, <3>1, <3>4 DEF OnFrontier
    <2>4. CASE Closed(s[1]) /\ gScore[s[1]] = s[2]
        <3>1. Scored(r[1]) /\ gScore[r[1]] <= k
            BY <1>3, <2>1, <2>2, <2>4 DEF ClosedOffers
        <3>2. PICK q \in Distances : q[1] = r[1] /\ q[2] <= gScore[r[1]]
            BY <1>3, <3>1 DEF CostsAreReal
        <3>3. q[2] = k
            BY <1>2, <3>2, DistancesAreSound
        <3>4. gScore[r[1]] = k
            BY <1>3, <1>4, <3>1, <3>2, <3>3
        <3> QED BY <1>2, <1>5, <3>1, <3>4 DEF OnFrontier, Closed
    <2> QED BY <2>2, <2>3, <2>4 DEF OnFrontier
<1> QED BY <1>6, <1>7

\* The node top returns, if no better one was found for its tile since, has the
\* least cost: the frontier would hold one with less f (Monster.cpp:441-442).
LEMMA PoppedIsBest ==
    ASSUME SearchInv, Optimal, stage = "search", NEW n \in Least, n.g = gScore[n.pos]
    PROVE  <<n.pos, gScore[n.pos]>> \in Distances
<1> USE DEF SearchInv, Optimal
<1>1. n \in open /\ n.pos \in Pos /\ n.g \in Nat /\ Scored(n.pos)
    BY DEF Least, SearchTypeOK, NodeType, NodesAreScored
<1>2. PICK q \in Distances : q[1] = n.pos /\ q[2] <= n.g
    BY <1>1 DEF CostsAreReal
<1>3. q[2] \in Nat /\ q = <<q[1], q[2]>>
    BY DistancesAreSound
<1>4. CASE Closed(q[1]) /\ gScore[q[1]] = q[2]
    BY <1>1, <1>2, <1>4 DEF ClosedIsBest
<1>5. CASE \E m \in open : <<m.pos, m.g>> \in Distances /\ m.f <= q[2] + Heuristic(q[1], dest)
    <2>1. PICK m \in open : m.f <= q[2] + Heuristic(q[1], dest)
        BY <1>5
    <2>2. n.f <= m.f /\ n.f \in Nat /\ m.f \in Nat
        BY <1>1 DEF Least, SearchTypeOK, NodeType
    <2>3. n.f = n.g + Heuristic(n.pos, dest)
        BY <1>1 DEF NodesFit, Node
    <2>4. Heuristic(n.pos, dest) \in Nat
        BY <1>1, HeuristicIsNat DEF SearchTypeOK
    <2>5. n.g <= q[2]
        BY <1>1, <1>2, <1>3, <2>1, <2>2, <2>3, <2>4
    <2>6. q[2] = n.g
        BY <1>1, <1>2, <1>3, <2>5
    <2> QED BY <1>2, <1>3, <2>6
<1> QED BY <1>4, <1>5, Frontier DEF OnFrontier

\* At the start only the monster's tile has a cost, 0, and its node waits.
LEMMA OptimalInit == SearchInit => Optimal
<1> SUFFICES ASSUME SearchInit PROVE Optimal
    OBVIOUS
<1>1. SearchTypeOK /\ gScore[start] = 0
    BY SearchInvInit DEF SearchInv
<1>2. open = {Node(start, 0)} /\ Node(start, 0) = Node(Node(start, 0).pos, Node(start, 0).g)
    BY DEF SearchInit, Node
<1>3. \A t \in Pos : Scored(t) => t = start
    BY DEF SearchInit, Scored
<1>4. \A t \in Pos : ~Closed(t)
    BY <1>1, <1>2, <1>3 DEF Closed
<1>5. CostsAreReal
    <2>1. <<start, 0>> \in Distances /\ <<start, 0>>[2] <= gScore[start]
        BY <1>1, DistancesAreSound
    <2> QED BY <1>3, <2>1 DEF CostsAreReal
<1> QED
    BY <1>2, <1>4, <1>5 DEF SearchInit, Optimal, NodesFit, ClosedOffers, ClosedIsBest, TargetIsBest,
       DoneIsShort

\* When any node of the target is returned by top, the target's gScore is least
\* (Monster.cpp:444-446).
LEMMA TargetPoppedIsBest ==
    ASSUME SearchInv, Optimal, stage = "search", NEW n \in Least, n.pos = dest
    PROVE  <<dest, gScore[dest]>> \in Distances
<1> USE DEF SearchInv, Optimal
<1>1. /\ n \in open /\ n.g \in Nat /\ n.f \in Nat /\ Scored(dest) /\ gScore[dest] <= n.g
      /\ dest \in Pos /\ gScore[dest] \in Nat
    BY DEF Least, SearchTypeOK, NodeType, NodesAreScored, Scored
<1>2. CASE Closed(dest)
    BY <1>1, <1>2 DEF ClosedIsBest
<1>3. CASE Node(dest, gScore[dest]) \in open
    <2>1. n.f <= Node(dest, gScore[dest]).f
        BY <1>3 DEF Least
    <2>2. n.f = n.g + Heuristic(dest, dest)
        BY <1>1 DEF NodesFit, Node
    <2>3. Node(dest, gScore[dest]).f = gScore[dest] + Heuristic(dest, dest)
        BY DEF Node
    <2>4. Heuristic(dest, dest) \in Nat
        BY <1>1, HeuristicIsNat
    <2>5. n.g = gScore[dest]
        BY <1>1, <2>1, <2>2, <2>3, <2>4
    <2> QED BY <2>5, PoppedIsBest
<1> QED BY <1>1, <1>2, <1>3 DEF Closed

\* The target is found.
LEMMA OptimalFound == SearchInv /\ Optimal /\ Found => Optimal'
<1> SUFFICES ASSUME SearchInv, Optimal, Found PROVE Optimal'
    OBVIOUS
<1> USE DEF SearchInv, Optimal
<1>1. PICK n \in Least : n.pos = dest /\ open' = open \ {n}
    BY DEF Found
<1>2. /\ stage = "search" /\ stage' = "rebuild"
      /\ UNCHANGED <<gScore, walls, start, dest>>
    BY DEF Found, input
<1>3. n = Node(dest, n.g)
    BY <1>1 DEF NodesFit, Least
<1>4. Distances' = Distances /\ \A t \in Pos : Scored(t)' <=> Scored(t)
    BY <1>2 DEF Distances, FreeTiles, Scored
<1>5. <<dest, gScore[dest]>> \in Distances
    BY <1>1, <1>2, TargetPoppedIsBest
<1>6. \A t, g : Node(t, g)' = Node(t, g) /\ Node(t, g).pos = t
    BY <1>2 DEF Node, Heuristic
<1>7. ClosedIsBest'
    <2> SUFFICES ASSUME NEW t \in Pos, Closed(t)' PROVE <<t, gScore[t]>> \in Distances
        BY <1>2, <1>4 DEF ClosedIsBest
    <2>1. CASE t = dest
        BY <1>5, <2>1
    <2>2. CASE t # dest
        <3>1. Node(t, gScore[t]) # n
            BY <1>1, <1>6, <2>2
        <3>2. Closed(t)
            BY <1>1, <1>2, <1>6, <3>1 DEF Closed, Scored
        <3> QED BY <3>2 DEF ClosedIsBest
    <2> QED BY <2>1, <2>2
<1>8. NodesFit'
    BY <1>1, <1>6 DEF NodesFit
<1>9. CostsAreReal'
    BY <1>2, <1>4 DEF CostsAreReal
<1> QED
    BY <1>2, <1>4, <1>5, <1>7, <1>8, <1>9 DEF ClosedOffers, TargetIsBest, DoneIsShort

\* Expanding a node settles its tile, unless the node was outdated.
LEMMA OptimalExpand == SearchInv /\ Optimal /\ Expand => Optimal'
<1> SUFFICES ASSUME SearchInv, Optimal, Expand PROVE Optimal'
    OBVIOUS
<1> USE DEF SearchInv, Optimal
<1>1. PICK n \in Least :
        /\ n.pos # dest
        /\ open' = (open \ {n}) \union {Node(t, n.g + 1) : t \in Improved(n)}
        /\ gScore' = [t \in Pos |-> IF t \in Improved(n) THEN n.g + 1 ELSE gScore[t]]
    BY DEF Expand
<1>2. /\ stage = "search" /\ stage' = "search"
      /\ UNCHANGED <<walls, start, dest, path>>
    BY DEF Expand, input
<1>3. /\ n \in open /\ n \in NodeType /\ n.g \in Nat /\ n.pos \in FreeTiles /\ n.pos \in Pos
      /\ Scored(n.pos) /\ gScore[n.pos] <= n.g /\ n = Node(n.pos, n.g)
    BY DEF Least, SearchTypeOK, NodeType, NodesAreScored, NodesFit
<1>4. Improved(n) \subseteq FreeTiles /\ FreeTiles \subseteq Pos
    BY DEF Improved, Passable, FreeTiles
<1>5. /\ gScore \in [Pos -> Nat \union {Unscored}]
      /\ \A t \in Pos : Scored(t) => gScore[t] \in Nat
    BY DEF SearchTypeOK, Scored
<1>6. Distances' = Distances /\ FreeTiles' = FreeTiles
    BY <1>2 DEF Distances, FreeTiles
<1>7. \A t, g : Node(t, g)' = Node(t, g) /\ Node(t, g).pos = t /\ Node(t, g).g = g
    BY <1>2 DEF Node, Heuristic
<1>8. \A t \in Improved(n) : gScore'[t] = n.g + 1 /\ Scored(t)'
    BY <1>1, <1>3, <1>4 DEF Scored, Unscored
<1>9. \A t \in Pos \ Improved(n) : gScore'[t] = gScore[t] /\ (Scored(t)' <=> Scored(t))
    BY <1>1 DEF Scored
\* A score only falls.
<1>10. \A t \in Pos : Scored(t) => Scored(t)' /\ gScore'[t] <= gScore[t]
    BY <1>3, <1>5, <1>8, <1>9 DEF Improved, Scored
<1>11. NodesFit'
    <2> SUFFICES ASSUME NEW m \in open' PROVE m = Node(m.pos, m.g)
        BY <1>7 DEF NodesFit
    <2>1. CASE m \in open
        BY <2>1 DEF NodesFit
    <2>2. CASE \E t \in Improved(n) : m = Node(t, n.g + 1)
        BY <1>7, <2>2
    <2> QED BY <1>1, <2>1, <2>2
<1>12. CostsAreReal'
    <2> SUFFICES ASSUME NEW t \in Pos, Scored(t)'
                 PROVE  \E r \in Distances : r[1] = t /\ r[2] <= gScore'[t]
        BY <1>6 DEF CostsAreReal
    <2>1. CASE t \in Improved(n)
        <3>1. t \in Adjacent(n.pos) \intersect FreeTiles
            BY <2>1 DEF Improved, Passable, FreeTiles
        <3>2. PICK q \in Distances : q[1] = n.pos /\ q[2] <= gScore[n.pos]
            BY <1>3 DEF CostsAreReal
        <3>3. PICK r \in Distances : r[1] = t /\ r[2] <= q[2] + 1
            BY <3>1, <3>2, DistancesAreSound
        <3>4. q[2] \in Nat /\ r[2] \in Nat /\ gScore[n.pos] \in Nat
            BY <1>3, <1>5, DistancesAreSound
        <3>5. r[2] <= n.g + 1
            BY <1>3, <3>2, <3>3, <3>4
        <3> QED BY <1>8, <2>1, <3>3, <3>5
    <2>2. CASE t \notin Improved(n)
        BY <1>9, <2>2 DEF CostsAreReal
    <2> QED BY <2>1, <2>2
\* Whoever is settled now was so before, or is the tile that was looked at.
<1>13. ASSUME NEW t \in Pos, Closed(t)'
       PROVE  /\ t \notin Improved(n)
              /\ gScore'[t] = gScore[t] /\ Scored(t)
              /\ Closed(t) \/ (t = n.pos /\ gScore[t] = n.g)
    <2>1. Scored(t)' /\ Node(t, gScore'[t]) \notin open'
        BY <1>7, <1>13 DEF Closed
    <2>2. t \notin Improved(n)
        BY <1>1, <1>8, <2>1
    <2>3. gScore'[t] = gScore[t] /\ Scored(t)
        BY <1>9, <2>1, <2>2
    <2>4. CASE Node(t, gScore[t]) \notin open
        BY <2>2, <2>3, <2>4 DEF Closed
    <2>5. CASE Node(t, gScore[t]) \in open
        <3>1. Node(t, gScore[t]) = n
            BY <1>1, <2>1, <2>3, <2>5
        <3> QED BY <1>7, <2>2, <2>3, <3>1
    <2> QED BY <2>4, <2>5
<1>14. ClosedOffers'
    <2> SUFFICES ASSUME NEW t \in Pos, Closed(t)', NEW u \in Adjacent(t) \intersect FreeTiles
                 PROVE  Scored(u)' /\ gScore'[u] <= gScore'[t] + 1
        BY <1>6 DEF ClosedOffers
    <2>0. u \in Pos /\ gScore'[t] = gScore[t] /\ gScore[t] \in Nat
        BY <1>4, <1>5, <1>13
    <2>1. CASE Closed(t)
        <3>1. Scored(u) /\ gScore[u] <= gScore[t] + 1
            BY <1>2, <2>1 DEF ClosedOffers
        <3>2. Scored(u)' /\ gScore'[u] <= gScore[u]
            BY <1>10, <2>0, <3>1
        <3>3. gScore[u] \in Nat /\ (gScore'[u] \in Nat)
            BY <1>3, <1>5, <1>8, <1>9, <2>0, <3>1
        <3> QED BY <2>0, <3>1, <3>2, <3>3
    <2>2. CASE t = n.pos /\ gScore[t] = n.g
        <3>1. u \in Passable(n)
            BY <2>2 DEF Passable, FreeTiles
        <3>2. CASE u \in Improved(n)
            BY <1>3, <1>8, <2>0, <2>2, <3>2
        <3>3. CASE u \notin Improved(n)
            <4>1. Scored(u) /\ ~(n.g + 1 < gScore[u])
                BY <3>1, <3>3 DEF Improved, Scored
            <4>2. gScore[u] <= n.g + 1
                BY <1>3, <1>5, <2>0, <4>1
            <4> QED BY <1>9, <2>0, <2>2, <3>3, <4>1, <4>2
        <3> QED BY <3>2, <3>3
    <2> QED BY <1>13, <2>1, <2>2
<1>15. ClosedIsBest'
    <2> SUFFICES ASSUME NEW t \in Pos, Closed(t)' PROVE <<t, gScore[t]>> \in Distances
        BY <1>6, <1>13 DEF ClosedIsBest
    <2>1. CASE Closed(t)
        BY <2>1 DEF ClosedIsBest
    <2>2. CASE t = n.pos /\ gScore[t] = n.g
        BY <1>2, <2>2, PoppedIsBest
    <2> QED BY <1>13, <2>1, <2>2
<1> QED
    BY <1>2, <1>11, <1>12, <1>14, <1>15 DEF TargetIsBest, DoneIsShort

\* The steps that only take the path together leave costs and nodes alone.
LEMMA OptimalQuiet ==
    ASSUME Optimal, UNCHANGED <<walls, start, dest, open, gScore>>,
           stage' = "search" => stage = "search",
           TargetIsBest', DoneIsShort'
    PROVE  Optimal'
<1>1. /\ Distances' = Distances /\ FreeTiles' = FreeTiles
      /\ \A t : (Scored(t)' <=> Scored(t)) /\ (Closed(t)' <=> Closed(t))
      /\ \A t, g : Node(t, g)' = Node(t, g)
    BY DEF Distances, FreeTiles, Scored, Closed, Node, Heuristic
<1>2. NodesFit' /\ CostsAreReal'
    BY <1>1 DEF Optimal, NodesFit, CostsAreReal
<1>3. ClosedIsBest'
    BY <1>1 DEF Optimal, ClosedIsBest
<1>4. ClosedOffers'
    BY <1>1 DEF Optimal, ClosedOffers
<1> QED BY <1>2, <1>3, <1>4 DEF Optimal

\* Every step of the search keeps Optimal.
LEMMA OptimalStep == SearchInv /\ Optimal /\ [SearchNext]_searchVars => Optimal'
<1> SUFFICES ASSUME SearchInv, Optimal, [SearchNext]_searchVars PROVE Optimal'
    OBVIOUS
<1> USE DEF input, search
<1>0. ASSUME UNCHANGED <<walls, start, dest, gScore>>, stage # "search" PROVE TargetIsBest'
    BY <1>0 DEF Optimal, TargetIsBest, Distances, FreeTiles, Scored
<1>1. CASE Found
    BY <1>1, OptimalFound
<1>2. CASE Expand
    BY <1>2, OptimalExpand
<1>3. CASE Exhausted
    <2>1. ~Scored(dest)
        BY <1>3 DEF Exhausted, SearchInv, ExpandedIsClosed, Waits, SearchTypeOK
    <2>2. path' = <<>> /\ gScore' = gScore /\ dest' = dest
        BY <1>3 DEF Exhausted, SearchInv, EmptyMeansExhausted
    <2>3. TargetIsBest' /\ DoneIsShort'
        BY <2>1, <2>2 DEF TargetIsBest, DoneIsShort, Scored
    <2> QED BY <1>3, <2>3, OptimalQuiet DEF Exhausted
<1>4. CASE StepBack
    BY <1>0, <1>4, OptimalQuiet DEF StepBack, DoneIsShort
<1>5. CASE AtStart
    <2>1. current \in Pos /\ path \in Seq(Pos) /\ dest \in Pos /\ current = start
        BY <1>5 DEF SearchInv, SearchTypeOK, AtStart, ScoredHasEdge
    <2>2. Len(path) + gScore[start] <= gScore[dest] /\ gScore[start] = 0
        BY <1>5, <2>1 DEF SearchInv, PathIsWalk, AtStart
    <2>3. gScore[dest] \in Int /\ Len(path) \in Nat
        BY <2>1 DEF SearchInv, SearchTypeOK, Unscored
    <2>4. gScore[dest] >= 0 /\ Len(path) <= gScore[dest]
        BY <2>2, <2>3
    <2>5. Len(path') = Len(path) + 1
        BY <1>5, <2>1 DEF AtStart
    <2>6. UNCHANGED <<gScore, dest>>
        BY <1>5 DEF AtStart
    <2>7. DoneIsShort'
        BY <2>3, <2>4, <2>5, <2>6 DEF DoneIsShort, Scored, Unscored
    <2> QED BY <1>0, <1>5, <2>7, OptimalQuiet DEF AtStart
<1>6. CASE UNCHANGED searchVars
    <2>1. UNCHANGED <<walls, start, dest, open, gScore, stage, path>>
        BY <1>6 DEF searchVars
    <2>2. TargetIsBest' /\ DoneIsShort'
        BY <2>1 DEF Optimal, TargetIsBest, DoneIsShort, Distances, FreeTiles, Scored
    <2> QED BY <2>1, <2>2, OptimalQuiet
<1> QED BY <1>1, <1>2, <1>3, <1>4, <1>5, <1>6 DEF SearchNext

(***************************************************************************)
(* The answer.                                                             *)
(***************************************************************************)

\* No walk over free tiles from the monster is shorter than the least steps.
LEMMA WalkIsNoShorter ==
    ASSUME SearchTypeOK, NEW p \in Seq(Pos), p # <<>>, p[1] = start, IsWalk(FreeTiles, p)
    PROVE  \A i \in 1..Len(p) : \E r \in Distances : r[1] = p[i] /\ r[2] <= i - 1
<1> DEFINE Bad == {i \in 1..Len(p) : ~ \E r \in Distances : r[1] = p[i] /\ r[2] <= i - 1}
<1> SUFFICES ASSUME Bad # {} PROVE FALSE
    OBVIOUS
<1>1. Len(p) \in Nat /\ Bad \in SUBSET Nat
    OBVIOUS
<1>2. PICK i \in Bad : \A y \in Bad : i <= y
    BY <1>1, LeastNumber
<1>3. i \in 1..Len(p) /\ ~ \E r \in Distances : r[1] = p[i] /\ r[2] <= i - 1
    OBVIOUS
<1>4. i # 1
    <2>1. <<start, 0>> \in Distances /\ <<start, 0>>[2] <= 1 - 1
        BY DistancesAreSound
    <2> QED BY <1>3, <2>1
<1>5. i - 1 \in 1..(Len(p) - 1) /\ i - 1 \in 1..Len(p) /\ (i - 1) + 1 = i
    BY <1>1, <1>3, <1>4
<1>6. i - 1 \notin Bad
    BY <1>1, <1>2, <1>3, <1>5
<1>7. PICK s \in Distances : s[1] = p[i - 1] /\ s[2] <= (i - 1) - 1
    BY <1>5, <1>6
<1>8. p[i] \in Adjacent(p[i - 1]) \intersect FreeTiles
    BY <1>5 DEF IsWalk
<1>9. PICK r \in Distances : r[1] = p[i] /\ r[2] <= s[2] + 1
    BY <1>7, <1>8, DistancesAreSound
<1>10. r[2] \in Nat /\ s[2] \in Nat
    BY DistancesAreSound
<1>11. r[2] <= i - 1
    BY <1>3, <1>7, <1>9, <1>10
<1> QED BY <1>3, <1>9, <1>11

\* What is walled off is not among the tiles Reached finds.
LEMMA WalledOffIsCutOff ==
    ASSUME SearchTypeOK, WalledOff
    PROVE  IsCutOff(FreeTiles, start, dest)
<1>1. PICK region \in SUBSET Pos :
        /\ start \in region /\ dest \notin region
        /\ \A t \in region : Adjacent(t) \intersect FreeTiles \subseteq region
    BY DEF WalledOff
<1> DEFINE Bad == {k \in Nat : \E r \in Distances : r[2] = k /\ r[1] \notin region}
<1>2. ASSUME Bad # {} PROVE FALSE
    <2>1. PICK k \in Bad : \A y \in Bad : k <= y
        BY <1>2, LeastNumber
    <2>2. PICK r \in Distances : r[2] = k /\ r[1] \notin region
        OBVIOUS
    <2>3. k # 0 /\ k \in Nat
        BY <1>1, <2>2, DistancesAreSound
    <2>4. PICK s \in Distances : s[2] = k - 1 /\ r[1] \in Adjacent(s[1]) \intersect FreeTiles
        BY <2>2, <2>3, DistancesAreSound
    <2>5. s[1] \notin region
        BY <1>1, <2>2, <2>4
    <2>6. k - 1 \in Bad
        BY <2>3, <2>4, <2>5
    <2> QED BY <2>1, <2>3, <2>6
<1>3. \A r \in Distances : r[1] \in region
    BY <1>2, DistancesAreSound
<1> QED BY <1>1, <1>3 DEF IsCutOff, Distances

\* The empty path is returned when the scored tiles are walled off.
LEMMA EmptyIsWalledOff ==
    ASSUME SearchInv, stage = "done", path = <<>>
    PROVE  WalledOff
<1> USE DEF SearchInv
<1> DEFINE region == {t \in Pos : Scored(t)}
<1>1. open = {} /\ ~Scored(dest)
    BY DEF EmptyMeansExhausted
<1>2. start \in region /\ dest \notin region
    BY <1>1 DEF SearchTypeOK, Scored, Unscored
<1>3. \A t \in region : Adjacent(t) \intersect FreeTiles \subseteq region
    BY <1>1 DEF ExpandedIsClosed, Waits, FreeTiles
<1> QED BY <1>2, <1>3 DEF WalledOff

\* ShortestPath brings copies of the operators of Paths.
LEMMA SamePaths ==
    ASSUME NEW free, NEW p, NEW a, NEW b
    PROVE  /\ Abstract!IsShortestPath(free, p, a, b) <=> IsShortestPath(free, p, a, b)
           /\ Abstract!IsCutOff(free, a, b) <=> IsCutOff(free, a, b)
<1>0. Abstract!Cardinality(free) = Cardinality(free)
    BY Zenon DEF Abstract!Cardinality, Cardinality
<1>1. Abstract!Reached(free, a) = Reached(free, a)
    BY <1>0, Zenon DEF Abstract!Reached, Abstract!Grown, Abstract!Adjacent, Reached, Grown, Adjacent
<1>2. Abstract!IsWalk(free, p) <=> IsWalk(free, p)
    BY Zenon DEF Abstract!IsWalk, Abstract!Adjacent, IsWalk, Adjacent
<1> QED
    BY <1>1, <1>2, Zenon
    DEF Abstract!IsShortestPath, Abstract!IsCutOff, IsShortestPath, IsCutOff

\* What DoAstar returns is what ShortestPath allows.
DoneIsAnswer ==
    stage = "done" =>
        \/ Abstract!IsShortestPath(FreeTiles, path, start, dest)
        \/ path = <<>> /\ Abstract!IsCutOff(FreeTiles, start, dest)

\* It does: the path is a walk no longer than the target's least cost.
LEMMA OptimalAnswer == SearchInv /\ Optimal => DoneIsAnswer
<1> SUFFICES ASSUME SearchInv, Optimal, stage = "done"
             PROVE  \/ IsShortestPath(FreeTiles, path, start, dest)
                    \/ path = <<>> /\ IsCutOff(FreeTiles, start, dest)
    BY SamePaths DEF DoneIsAnswer
<1> USE DEF SearchInv, Optimal
<1>1. CASE path = <<>>
    BY <1>1, EmptyIsWalledOff, WalledOffIsCutOff
<1>2. CASE path # <<>>
    <2>1. /\ path[1] = start /\ path[Len(path)] = dest /\ IsWalk(FreeTiles, path)
          /\ path \in Seq(Pos) /\ Len(path) \in Nat /\ Len(path) >= 1
        BY <1>2 DEF PathIsWalk, FreeTiles, SearchTypeOK
    <2>2. PICK r \in Distances : r[1] = dest /\ r[2] <= Len(path) - 1
        <3>1. Len(path) \in 1..Len(path)
            BY <2>1
        <3> QED BY <1>2, <2>1, <3>1, WalkIsNoShorter
    <2>3. Scored(dest) /\ Len(path) <= gScore[dest] + 1 /\ <<dest, gScore[dest]>> \in Distances
        BY <1>2 DEF DoneIsShort, TargetIsBest
    <2>4. r[2] = gScore[dest] /\ r[2] \in Nat /\ r = <<r[1], r[2]>>
        BY <2>2, <2>3, DistancesAreSound
    <2>5. r[2] = Len(path) - 1
        BY <2>1, <2>2, <2>3, <2>4
    <2> QED BY <1>2, <2>1, <2>2, <2>4, <2>5 DEF IsShortestPath, Distances
<1> QED BY <1>1, <1>2

(***************************************************************************)
(* The results.                                                            *)
(***************************************************************************)

\* The inductive invariant of the search.
LEMMA OptimalInvariance == SearchSpec => [](SearchInv /\ Optimal)
    BY SearchInvInit, OptimalInit, SearchStep, OptimalStep, PTL DEF SearchSpec

\* The search only handles tiles of the board that are free, and scores and
\* costs that are numbers (Monster.cpp:430-490).
THEOREM SearchTyping == SearchSpec => []SearchTypeOK
<1>1. SearchInv => SearchTypeOK
    BY DEF SearchInv
<1> QED
    BY <1>1, OptimalInvariance, PTL

\* At every moment of ReconstructPath what it holds is a walk to the target
\* over free tiles, and in the end one from the monster, on any map
\* (Monster.cpp:464-490).
THEOREM PathIsAlwaysWalk == SearchSpec => []PathIsWalk
<1>1. SearchInv => PathIsWalk
    BY DEF SearchInv
<1> QED
    BY <1>1, OptimalInvariance, PTL

\* The empty path says that there is none: the search does not give up while
\* a way is left (Monster.cpp:450-477).
THEOREM EmptyMeansWalledOff == SearchSpec => [](stage = "done" /\ path = <<>> => WalledOff)
<1>1. SearchInv /\ stage = "done" /\ path = <<>> => WalledOff
    BY EmptyIsWalledOff
<1> QED
    BY <1>1, OptimalInvariance, PTL

\* A tile that has a gScore and no node in openSet has its least cost, on every
\* map and whichever of equal nodes the queue prefers: DoAstar never needs to
\* look at it again (Monster.cpp:441-474).
THEOREM SettledTilesAreLeast == SearchSpec => []SettledIsLeast
<1>1. SearchInv /\ Optimal => SettledIsLeast
    <2> SUFFICES ASSUME SearchInv, Optimal, NEW t \in Pos, Scored(t), \A n \in open : n.pos # t
                 PROVE  <<t, gScore[t]>> \in Distances
        BY DEF SettledIsLeast, Distances, FreeTiles, Scored
    <2>1. Closed(t)
        BY DEF Closed, Node
    <2> QED BY <2>1 DEF Optimal, ClosedIsBest
<1> QED BY <1>1, OptimalInvariance, PTL

\* The step that ends the search is Answer; all others change nothing it sees.
LEMMA AnswerStep ==
    ASSUME DoneIsAnswer', [SearchNext]_searchVars
    PROVE  [Abstract!Answer]_(Abstract!pathVars)
<1> DEFINE answer == IF stage = "done" THEN path ELSE <<>>
<1> SUFFICES Abstract!Answer \/ UNCHANGED <<walls, start, dest, stage = "done", answer>>
    BY DEF Abstract!pathVars
<1> USE DEF input, search
<1>1. ASSUME stage # "done", stage' = "done", UNCHANGED <<walls, start, dest>>
      PROVE  Abstract!Answer
    <2>1. answer' = path' /\ FreeTiles' = Pos \ walls
        BY <1>1 DEF FreeTiles
    <2>2. \/ Abstract!IsShortestPath(Pos \ walls, path', start, dest)
          \/ path' = <<>> /\ Abstract!IsCutOff(Pos \ walls, start, dest)
        BY <1>1, <2>1 DEF DoneIsAnswer
    <2> QED
        BY <1>1, <2>1, <2>2 DEF Abstract!Answer, Abstract!IsAnswer
<1>2. ASSUME stage # "done", stage' # "done", UNCHANGED <<walls, start, dest>>
      PROVE  UNCHANGED <<walls, start, dest, stage = "done", answer>>
    BY <1>2
<1>3. CASE Found
    BY <1>2, <1>3 DEF Found
<1>4. CASE Expand
    BY <1>2, <1>4 DEF Expand
<1>5. CASE Exhausted
    BY <1>1, <1>5 DEF Exhausted
<1>6. CASE StepBack
    BY <1>2, <1>6 DEF StepBack
<1>7. CASE AtStart
    BY <1>1, <1>7 DEF AtStart
<1>8. CASE UNCHANGED searchVars
    BY <1>8 DEF searchVars
<1> QED BY <1>3, <1>4, <1>5, <1>6, <1>7, <1>8 DEF SearchNext

\* DoAstar returns a shortest path from the monster to its target over tiles
\* that are no obstacles, or the empty one if there is none, for a board of any
\* size and any map on it: the safety half of ImplementsShortestPath
\* (Monster.cpp:430-490).
THEOREM AnswersAreShortestPaths == SearchSpec => AnswersAreShortest
<1>1. SearchInit => Abstract!Ask
    BY DEF SearchInit, Abstract!Ask
<1>2. DoneIsAnswer' /\ [SearchNext]_searchVars => [Abstract!Answer]_(Abstract!pathVars)
    BY AnswerStep
<1> QED
    BY <1>1, <1>2, OptimalInvariance, OptimalAnswer, PTL
    DEF SearchSpec, AnswersAreShortest, Abstract!PathSafety
=============================================================================
