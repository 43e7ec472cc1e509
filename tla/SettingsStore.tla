--------------------------- MODULE SettingsStore ---------------------------
(***************************************************************************)
(* What the configuration file promises: the box runs with its settings,   *)
(* an operator asks for some of them to change together, such a change is  *)
(* stored as a whole or not at all, and a boot restores what was stored    *)
(* when it looked, or else the defaults.  Only once the file is hurt may   *)
(* what is stored be anything.                                             *)
(***************************************************************************)
CONSTANTS
    Default,  \* key -> its default
    Keys,     \* the settings' names
    Updates   \* the changes an operator may ask for: functions on some keys

VARIABLES
    stored,   \* key -> the value the next boot will find
    loaded,   \* key -> the value the last boot found
    ram,      \* key -> the value in use
    asked,    \* the change being stored, on no keys if there is none
    hurt      \* what has damaged the file, if anything

vars == <<stored, loaded, ram, asked>>

\* Settings s with the change u made to them.
With(s, u) == [k \in Keys |-> IF k \in DOMAIN u THEN u[k] ELSE s[k]]

Init == loaded = Default /\ ram = Default /\ DOMAIN asked = {} /\ hurt = {}

Ask ==
    /\ \E u \in Updates : asked' = u /\ ram' = With(ram, u)
    /\ UNCHANGED <<stored, loaded>>

Store == stored' = With(stored, asked) /\ UNCHANGED <<loaded, ram, asked>>

\* Stored or not, the operator is told.
Done == DOMAIN asked' = {} /\ UNCHANGED <<stored, loaded, ram>>

\* A boot that cannot read its settings runs with the defaults.
Look == loaded' \in {stored, Default} /\ UNCHANGED <<stored, ram, asked>>
Use == ram' = loaded /\ UNCHANGED <<stored, loaded, asked>>

Crash ==
    /\ loaded' = Default /\ ram' = Default /\ DOMAIN asked' = {}
    /\ UNCHANGED stored

Damage == hurt' # {} /\ UNCHANGED <<loaded, ram, asked>>

Next == Ask \/ Store \/ Done \/ Look \/ Use \/ Crash \/ Damage

Spec == Init /\ [][Next]_vars
=============================================================================
