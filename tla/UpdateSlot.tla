----------------------------- MODULE UpdateSlot -----------------------------
(***************************************************************************)
(* What the update path promises, whatever power loss and flash faults do  *)
(* to it: the box has one installed image at all times, a boot that can    *)
(* read the card runs that image, and an update replaces it in one step.   *)
(***************************************************************************)
CONSTANTS Images, NoImage, Broken

VARIABLES
    installed,   \* the image a boot with a card runs
    running,     \* the image that runs now, or NoImage between two boots
    card_failed  \* the card failed in this boot

vars == <<installed, running, card_failed>>

Init == installed \in Images /\ running = NoImage /\ card_failed = FALSE

Boot ==
    /\ running = NoImage
    /\ running' = installed
    /\ UNCHANGED <<installed, card_failed>>

CardFails ==
    /\ running = NoImage
    /\ card_failed' = TRUE
    /\ UNCHANGED <<installed, running>>

\* An older image, or none that is whole.
BootWithoutCard ==
    /\ running = NoImage /\ card_failed
    /\ running' \in Images \cup {Broken}
    /\ UNCHANGED <<installed, card_failed>>

Stop == running' = NoImage /\ card_failed' = FALSE /\ UNCHANGED installed

\* An upload, which a running app receives, installs its image or, begun over
\* one not yet run, takes that one back.
Upload ==
    /\ running \in Images
    /\ installed' \in Images
    /\ UNCHANGED <<running, card_failed>>

Next == Boot \/ CardFails \/ BootWithoutCard \/ Stop \/ Upload

Spec == Init /\ [][Next]_vars
=============================================================================
