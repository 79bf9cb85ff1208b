-------------------------- MODULE MCPlayerSession --------------------------
(***************************************************************************)
(* What the clients of the runs want: one of them logs in a second time    *)
(* without leaving, the other plays the id it had first; or both play one  *)
(* id.                                                                     *)
(***************************************************************************)
EXTENDS PlayerSession

CONSTANTS s1, s2, p1, p2

MCWants == [s \in Sessions |-> IF s = s1 THEN <<p1, p2>> ELSE <<p1>>]

MCHalf == [roamers |-> {}, halves |-> Sessions]

MCHabits == {[roamers |-> {<<s1, 1>>}, halves |-> {}], MCHalf}

MCHalves == {MCHalf}

MCRivals == [s \in Sessions |-> <<p1>>]
=============================================================================
