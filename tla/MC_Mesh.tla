------------------------------ MODULE MC_Mesh ------------------------------
(* Instances of Mesh for TLC: two boxes and the Mac in range of each other. *)
EXTENDS Mesh

TwoBoxes == {1, 2}
Pair == {<<1, 2>>, <<2, 1>>}
UnequalTtls == <<3, 1>>
=============================================================================
