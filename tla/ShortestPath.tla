---------------------------- MODULE ShortestPath ----------------------------
(***************************************************************************)
(* What Monster::DoAstar promises to Monster::Trace: on a board of tiles,  *)
(* walls among them, an answer comes; it is a shortest path from start to  *)
(* dest, or the empty path if there is none.                               *)
(***************************************************************************)
EXTENDS Paths

CONSTANT Tiles

VARIABLES walls, start, dest, answered, path

pathVars == <<walls, start, dest, answered, path>>

Ask ==
    /\ walls \in SUBSET Tiles
    /\ start \in Tiles \ walls
    /\ dest \in Tiles \ walls
    /\ answered = FALSE
    /\ path = <<>>

IsAnswer(p) ==
    \/ IsShortestPath(Tiles \ walls, p, start, dest)
    \/ p = <<>> /\ IsCutOff(Tiles \ walls, start, dest)

Answer ==
    /\ ~answered
    /\ answered' = TRUE
    /\ IsAnswer(path')
    /\ UNCHANGED <<walls, start, dest>>

PathSafety == Ask /\ [][Answer]_pathVars

PathSpec == PathSafety /\ <>answered
=============================================================================
