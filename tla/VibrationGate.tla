--------------------------- MODULE VibrationGate ---------------------------
(***************************************************************************)
(* What the main loop promises about vibration triggers (app/src/main.c):  *)
(* they are let through, or a sound session of the box's own suppresses    *)
(* them, or the enclosure is ringing down after one.  A session can begin  *)
(* during the ring-down, and only the end of the ring-down opens the gate. *)
(***************************************************************************)
VARIABLE phase

TypeOK == phase \in {"open", "session", "cooldown"}

Init == phase = "open"

Start == phase \in {"open", "cooldown"} /\ phase' = "session"
Done == phase = "session" /\ phase' = "cooldown"
Expire == phase = "cooldown" /\ phase' = "open"

Next == Start \/ Done \/ Expire

Safety == Init /\ [][Next]_phase

\* A ring-down ends; a session lasts as long as its sound does.
Spec == Safety /\ WF_phase(Expire)
=============================================================================
