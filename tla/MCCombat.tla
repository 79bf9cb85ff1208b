------------------------------ MODULE MCCombat ------------------------------
(***************************************************************************)
(* Combat with few blows: the monsters strike one player three times, or   *)
(* both players hit the monster, or a player strikes and is struck.        *)
(***************************************************************************)
EXTENDS Combat, TLC

CONSTANTS p1, p2

Budget(taken, dealt1, dealt2) ==
    (p1 :> [takes |-> taken, deals |-> dealt1]) @@ (p2 :> [takes |-> 0, deals |-> dealt2])

MCBudgets == {Budget(3, 0, 0), Budget(0, 2, 1), Budget(1, 2, 0)}
=============================================================================
