-------------------------------- MODULE Tiles --------------------------------
(***************************************************************************)
(* The tiles of the board: where a player or a monster can be (Board.h,    *)
(* protocol.h).                                                            *)
(***************************************************************************)
EXTENDS Integers

CONSTANTS Width, Height     \* BOARD_WIDTH and W_WIDTH, BOARD_HEIGHT and W_HEIGHT: 2000

ASSUME SizeAssumption == Width \in Nat \ {0} /\ Height \in Nat \ {0}

Pos == [x : 0..(Width - 1), y : 0..(Height - 1)]
=============================================================================
