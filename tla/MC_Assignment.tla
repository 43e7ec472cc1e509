--------------------------- MODULE MC_Assignment ---------------------------
(***************************************************************************)
(* Instances of Assignment for TLC: two slots whose fields have two bits   *)
(* each, so that sound 3 is silence and delays are cut to 3.               *)
(***************************************************************************)
EXTENDS Assignment

\* More goats than a message can name, not in order; and a gap in the second
\* set.
TwoCards ==
    {<<<<Goat, 0>>, <<Goat, 2>>, <<Goat, 1>>, <<Misc, 0>>, <<Goat, 3>>, <<Goat, 4>>>>,
     <<<<Goat, 0>>, <<Misc, 0>>, <<Misc, 1>>, <<Goat, 1>>, <<Misc, 3>>>>}

\* The second range goes past what a slot can hold.
ShortRange == <<0, 1>>
TwoRanges == {ShortRange, <<2, 5>>}

\* Draws that give the slots different words.
SomeDraws ==
    {[s \in SlotSet |-> <<(w + 3 * s) % 8, (w + s) % 8>>] : w \in {0, 5}}

TwoMacParts ==
    {[s \in SlotSet |-> IF s = 0 THEN NoPart ELSE Part(Misc, 0, 3)],
     [s \in SlotSet |-> IF s = 0 THEN Part(Goat, 2, 1) ELSE Part(Misc, 3, 2)]}
=============================================================================
