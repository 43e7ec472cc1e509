----------------------------- MODULE MC_Updater -----------------------------
(* Instances of Updater for TLC. *)
EXTENDS Updater, TLC

CONSTANTS old, new, big

\* The images by length: one fills the partition, one is
\* shorter, and one the partition cannot hold.
ThreeImages == {old, new, big}
ImageSizes == (old :> 3) @@ (new :> 1) @@ (big :> 4)

AllFaults == {"power", "flash", "sd"}
=============================================================================
