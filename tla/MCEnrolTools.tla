---------------------------- MODULE MCEnrolTools ----------------------------
(* Rows that share a name, and rows of another name.                        *)
EXTENDS EnrolTools, TLC

CONSTANT Bobs  \* the rows of the other name

MCName == [row \in People |-> IF row \in Bobs THEN "bob" ELSE "ann"]

\* Rows of one name are alike.
MCSymmetry == Permutations(People \ Bobs)
=============================================================================
