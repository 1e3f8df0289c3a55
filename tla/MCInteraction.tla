--------------------------- MODULE MCInteraction ---------------------------
(* Small instances of Interaction for TLC.                                  *)
EXTENDS Interaction, TLC

\* The order of the faces is not modelled, and no definition tells two keys
\* or two residents apart.
MCSymmetry == Permutations(Keys) \cup Permutations(Residents)
=============================================================================
