--------------------------- MODULE MCActionCache ----------------------------
(***************************************************************************)
(* ActionCache for TLC: three calls for a ref that may move once, between  *)
(* two versions, of which the second has a file less.                      *)
(***************************************************************************)
EXTENDS ActionCache, TLC

CONSTANTS marker, oldFile

MCContents == <<{marker, oldFile}, {marker}>>

MCFiles == {marker, oldFile}

\* The calls differ in nothing.
CallSymmetry == Permutations(Calls)
=============================================================================
