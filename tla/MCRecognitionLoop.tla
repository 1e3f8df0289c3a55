------------------------- MODULE MCRecognitionLoop -------------------------
(* Small instances of RecognitionLoop for TLC.                              *)
EXTENDS RecognitionLoop, TLC

\* No definition tells two residents or two digests apart.
MCSymmetry == Permutations(Residents) \cup Permutations(Digests)
=============================================================================
