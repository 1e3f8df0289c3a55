-------------------------- MODULE MCFaceTrackAssoc --------------------------
(***************************************************************************)
(* All small cost matrices, square and rectangular, with forbidden pairs,  *)
(* without rows and without columns.                                       *)
(***************************************************************************)
EXTENDS FaceTrackAssoc

Shaped(rows, cols, costs) == [1 .. rows -> [1 .. cols -> costs]]

Coarse == {0, 2, Forbidden}
Fine == {0, 1, 3, Forbidden}

MCMatrices ==
  {<<>>, <<<<>>>>, <<<<>>, <<>>>>}
    \cup Shaped(1, 3, Fine) \cup Shaped(2, 2, Fine) \cup Shaped(3, 1, Fine)
    \cup Shaped(2, 3, Coarse) \cup Shaped(3, 2, Coarse) \cup Shaped(3, 3, {0, 2})
    \cup Shaped(3, 3, {2, Forbidden})
=============================================================================
