------------------------------ MODULE MC_Radio ------------------------------
(* Instances of Radio for TLC. *)
EXTENDS Radio

MainOnly == {"main"}
MainAndShell == {"main", "shell"}
=============================================================================
