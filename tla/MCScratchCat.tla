---------------------------- MODULE MCScratchCat ----------------------------
(* An instance of ScratchCat for TLC: paths of up to two strings.           *)
EXTENDS ScratchCat

PathPieces == {<<>>, <<"/">>, <<"x">>, <<"x", "/">>}
PathArrays == {<<>>} \cup UNION {[1..n -> PathPieces] : n \in 1..2}
=============================================================================
