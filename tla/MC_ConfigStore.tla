--------------------------- MODULE MC_ConfigStore ---------------------------
(***************************************************************************)
(* Instances of ConfigStore for TLC: three keys of two or three values,    *)
(* one of them the reserved id.                                            *)
(***************************************************************************)
EXTENDS ConfigStore

ThreeKeys == {"id", "delay_min", "delay_max"}
Defaults == [k \in ThreeKeys |-> IF k = "delay_max" THEN 1 ELSE 0]

\* No file, one without an id, a plain file, one with a comment and nothing to
\* replace, and one with an id given twice.
FiveFiles ==
    {NoFile,
     <<Line("delay_max", 0)>>,
     <<Line("id", 1), Line("delay_min", 0), Line("delay_max", 0)>>,
     <<Line("# comment", 0), Line("id", 1)>>,
     <<Line("id", 1), Line("# comment", 0), Line("delay_max", 1), Line("id", 3)>>}

\* The last two of these a command refuses.
IdAndDelay ==
    {<<Line("id", 2)>>,
     <<Line("delay_min", 0), Line("delay_max", 0)>>,
     <<Line("delay_min", 1), Line("delay_max", 1)>>,
     <<Line("id", 9)>>,
     <<Line("delay_min", 1), Line("delay_max", 0)>>}
=============================================================================
