------------------------------ MODULE MC_Codec ------------------------------
(* Instances of Codec for TLC. *)
EXTENDS Codec

\* Silence, and a percentage that the conversion rounds; the boot's is 80.
TwoVolumes == {0, 36}
=============================================================================
