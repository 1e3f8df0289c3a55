---------------------------- MODULE MCFloorCall ----------------------------
(* Small instances of FloorCallSystem for TLC.                              *)
EXTENDS FloorCallSystem

MCRequest == Ids

\* Resident 1 lives on floor 1; the row of resident 2 is edited.
MCHomeFloors == [r \in Residents |-> IF r = 1 THEN {1} ELSE Floors]
=============================================================================
