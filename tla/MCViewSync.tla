----------------------------- MODULE MCViewSync ------------------------------
(***************************************************************************)
(* ViewSync on a board of one row, whose last sector is cut off.           *)
(***************************************************************************)
EXTENDS ViewSync, TLC

MCStart == {[x |-> 1, y |-> 0]}

MCSymmetry == Permutations(Players)
=============================================================================
