---------------------------- MODULE MCMonsterWalk ----------------------------
(***************************************************************************)
(* MonsterWalk on a board of two rows, with a wall that the pursuit must   *)
(* go around, and another monster's potion behind the wall.                *)
(***************************************************************************)
EXTENDS MonsterWalk

MCObstacles == {[x |-> 1, y |-> 0]}

MCGraves == [i \in Potions |-> [x |-> 0, y |-> 0]]

MCTypes == {"PEACE_FIX", "PEACE_ROAMING", "AGRO_FIX", "AGRO_ROAMING"}
=============================================================================
