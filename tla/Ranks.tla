------------------------------- MODULE Ranks --------------------------------
(***************************************************************************)
(* The ranks of a process group.  A group of one rank never reaches the    *)
(* mesh (every collective of ProcessGroupMCCL returns at once), so World   *)
(* is at least two.                                                        *)
(***************************************************************************)
EXTENDS Integers

CONSTANT World

ASSUME WorldAssumption == World \in Nat /\ World >= 2

Rank == 0 .. World - 1
=============================================================================
