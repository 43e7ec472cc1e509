---------------------------- MODULE ConfigStore ----------------------------
(***************************************************************************)
(* The configuration file of one box (app/src/device_config.c): the boot   *)
(* loads it, healing a save that a crash interrupted, and puts its values  *)
(* in use; a shell command that changes settings puts them in use and      *)
(* rewrites the file through a temporary one.  The shell's thread runs     *)
(* beside the boot's, the box may crash between any two file system calls, *)
(* and a call may fail.  Zephyr's fs_rename() is two calls of FatFs: it    *)
(* removes a file of the new name, then renames.                           *)
(*                                                                         *)
(* A file is the sequence of its lines and a line is a directive: its key  *)
(* and its value.  Comments, blank lines and unknown directives are lines  *)
(* with a key outside Keys.  A value is a number; its spelling is left     *)
(* out, and so is a line too long or malformed, which no save writes.      *)
(***************************************************************************)
EXTENDS Integers, Sequences, FiniteSets

CONSTANTS
    Keys,      \* the directives device_config_parse_line() knows
    Default,   \* key -> its value in device_config_defaults()
    NoFile,    \* the content of a path that does not exist
    Reserved,  \* MESSAGE_EXT_ORIGINATOR, which is no box's id
    Files,     \* the files the operator may have put on the card
    Changes,   \* the directives a shell command saves together
    MaxFaults  \* bound on the crashes and failed calls

Lines == [key : STRING, val : Int]
Line(k, v) == [key |-> k, val |-> v]

\* What a line by line parse leaves in the settings: the last directive wins.
Occurrences(f, k) == IF f = NoFile THEN {} ELSE {i \in DOMAIN f : f[i].key = k}
Setting(f, k) ==
    IF Occurrences(f, k) = {}
      THEN Default[k]
      ELSE f[CHOOSE i \in Occurrences(f, k) :
               \A j \in Occurrences(f, k) : j <= i].val
Settings(f) == [k \in Keys |-> Setting(f, k)]

\* The settings device_config_load() accepts.
Consistent(s) == s["id"] # Reserved /\ s["delay_min"] <= s["delay_max"]
Loads(f) == Occurrences(f, "id") # {} /\ Consistent(Settings(f))

ASSUME KeysAssumption == {"id", "delay_min", "delay_max"} \subseteq Keys
ASSUME DefaultAssumption == Keys \subseteq STRING /\ Default \in [Keys -> Int]
ASSUME FilesAssumption == \A f \in Files \ {NoFile} : f \in Seq(Lines)
ASSUME NoFileAssumption == NoFile \notin Seq(Lines)

\* Each directive once, and both limits of the delay or none.
ASSUME ChangesAssumption ==
    \A d \in Changes :
        /\ d \in Seq([key : Keys, val : Int])
        /\ \A i, j \in DOMAIN d : d[i].key = d[j].key => i = j
        /\ (\E i \in DOMAIN d : d[i].key = "delay_min")
             <=> (\E i \in DOMAIN d : d[i].key = "delay_max")
ASSUME FaultsAssumption == MaxFaults \in Nat

VARIABLES
    cfg,       \* the file at CONFIG_PATH
    tmp,       \* the file at CONFIG_TMP_PATH
    boot,      \* how far the boot is
    loaded,    \* key -> the value the boot has read
    pc,        \* where the shell's save is
    dirs,      \* the directives being saved
    line,      \* the next line of cfg to copy
    replaced,  \* the keys of dirs already written
    ram,       \* key -> the value in use
    unsaved,   \* history: the keys whose last load or save reported an error
    overrun,   \* history: the keys whose change met a boot in progress
    accepted,  \* history: the operator, or a boot, had a file that loads
    hurt,      \* history: what may have damaged the file (see ConfigKept)
    faults     \* how many faults have occurred

fileVars == <<cfg, tmp>>
bootVars == <<boot, loaded>>
saveVars == <<dirs, line, replaced>>
vars == <<fileVars, bootVars, saveVars, pc, ram, unsaved, overrun, accepted, hurt, faults>>

IsFile(f) == f = NoFile \/ f \in Seq(Lines)

\* The type invariant: files are of lines, whatever is copied or cut short.
TypeOK ==
    /\ IsFile(cfg) /\ IsFile(tmp)
    /\ boot \in {"load", "heal", "move", "reopen", "apply", "run"}
    /\ loaded \in [Keys -> Int]
    /\ pc \in {"idle", "open", "copy", "append", "close", "unlink", "replace", "move"}
    /\ dirs \in Changes \cup {<<>>}
    /\ line \in Nat \ {0}
    /\ replaced \subseteq Keys
    /\ ram \in [Keys -> Int]
    /\ unsaved \subseteq Keys /\ overrun \subseteq Keys
    /\ accepted \in BOOLEAN
    /\ hurt \subseteq {"close", "race"}
    /\ faults \in 0..MaxFaults

Init ==
    /\ cfg \in Files
    /\ tmp = NoFile
    /\ boot = "load" /\ loaded = Default
    /\ pc = "idle"
    /\ dirs = <<>> /\ line = 1 /\ replaced = {}
    /\ ram = Default
    /\ unsaved = {} /\ overrun = {} /\ accepted = Loads(cfg)
    /\ hurt = {}
    /\ faults = 0

Fault == faults < MaxFaults /\ faults' = faults + 1
NoFault == UNCHANGED faults
Goto(label) == pc' = label

DirKeys == {dirs[i].key : i \in DOMAIN dirs}

-----------------------------------------------------------------------------
(* device_config_load() *)

\* The load is over, with what the file gives or with the defaults.  A change
\* that is being saved has come too late for it.
EndLoad(found) ==
    /\ boot' = "apply"
    /\ IF found THEN loaded' = Settings(cfg) /\ unsaved' = {}
                ELSE loaded' = Default /\ unsaved' = Keys
    /\ overrun' = DirKeys
    /\ UNCHANGED <<fileVars, saveVars, pc, ram>>

\* The file is open: it is read, and loads or not, or a read fails.
Read ==
    \/ EndLoad(Loads(cfg)) /\ accepted' = (accepted \/ Loads(cfg)) /\ NoFault
    \/ EndLoad(FALSE) /\ UNCHANGED accepted /\ Fault

\* The first open.  A missing file is taken for a save that a crash cut short,
\* though a save of the shell may be under way (the history notes that).
Load ==
    /\ boot = "load"
    /\ \/ cfg # NoFile /\ Read /\ UNCHANGED hurt
       \/ /\ cfg = NoFile
          /\ boot' = "heal"
          /\ hurt' = hurt \cup (IF pc \in {"replace", "move"} THEN {"race"} ELSE {})
          /\ NoFault
          /\ UNCHANGED <<fileVars, loaded, saveVars, pc, ram, unsaved, overrun, accepted>>
       \/ cfg = NoFile /\ EndLoad(FALSE) /\ Fault /\ UNCHANGED <<accepted, hurt>>

\* fs_rename(CONFIG_TMP_PATH, CONFIG_PATH), its first half: a file that has
\* come back under the name since is removed.
HealUnlink ==
    /\ boot = "heal"
    /\ \/ /\ cfg' = NoFile
          /\ boot' = "move"
          /\ NoFault
          /\ UNCHANGED <<tmp, loaded, saveVars, pc, ram, unsaved, overrun>>
       \/ EndLoad(FALSE) /\ Fault
    /\ UNCHANGED <<accepted, hurt>>

CanMove == tmp # NoFile /\ cfg = NoFile
Move == cfg' = tmp /\ tmp' = NoFile

\* Its second half fails if there is no temporary file (any more).
HealMove ==
    /\ boot = "move"
    /\ \/ /\ CanMove /\ Move
          /\ boot' = "reopen"
          /\ NoFault
          /\ UNCHANGED <<loaded, saveVars, pc, ram, unsaved, overrun>>
       \/ ~CanMove /\ EndLoad(FALSE) /\ NoFault
       \/ EndLoad(FALSE) /\ Fault
    /\ UNCHANGED <<accepted, hurt>>

Reopen ==
    /\ boot = "reopen"
    /\ \/ cfg # NoFile /\ Read
       \/ cfg = NoFile /\ EndLoad(FALSE) /\ UNCHANGED <<accepted, faults>>
    /\ UNCHANGED hurt

\* main() gives the modules what it has read.
Apply ==
    /\ boot = "apply"
    /\ boot' = "run"
    /\ ram' = loaded
    /\ UNCHANGED <<fileVars, loaded, saveVars, pc, unsaved, overrun, accepted, hurt, faults>>

-----------------------------------------------------------------------------
(* A shell command: apply the change, then save_directives() *)

Changed(s, d) ==
    [k \in Keys |-> IF \E i \in DOMAIN d : d[i].key = k
                      THEN d[CHOOSE i \in DOMAIN d : d[i].key = k].val
                      ELSE s[k]]

\* The command checks its arguments: no reserved id, no minimum above the
\* maximum.  Nothing keeps it from running beside the boot; only that one save
\* ends and the next begins within one rename of the boot is left out.
Command ==
    /\ pc = "idle"
    /\ boot \in {"heal", "move"} => cfg = NoFile
    /\ \E d \in Changes :
         /\ Consistent(Changed(Default, d))
         /\ dirs' = d
         /\ ram' = Changed(ram, d)
         /\ overrun' = IF boot = "apply" THEN overrun \cup {d[i].key : i \in DOMAIN d}
                                         ELSE overrun
    /\ Goto("open")
    /\ UNCHANGED <<fileVars, bootVars, line, replaced, unsaved, accepted, hurt, faults>>

\* save_directives() returns, with an error or without.
Finish(failed) ==
    /\ unsaved' = IF failed THEN unsaved \cup DirKeys ELSE unsaved \ DirKeys
    /\ Goto("idle")
    /\ dirs' = <<>> /\ line' = 1 /\ replaced' = {}
    /\ UNCHANGED ram

\* A missing config file fails the first open, another error either, or the
\* check that the card is mounted.
OpenFiles ==
    /\ pc = "open"
    /\ \/ /\ cfg # NoFile
          /\ tmp' = <<>>
          /\ Goto("copy")
          /\ NoFault
          /\ UNCHANGED <<cfg, saveVars, ram, unsaved>>
       \/ cfg = NoFile /\ Finish(TRUE) /\ NoFault /\ UNCHANGED fileVars
       \/ cfg # NoFile /\ Finish(TRUE) /\ Fault /\ UNCHANGED fileVars

\* Mutant: the rewrite's result is not looked at.
RewriteFailed_GoesOn == Goto("unlink") /\ UNCHANGED <<fileVars, saveVars, ram, unsaved>>

\* A read or a write fails: the temporary file is unlinked, if that works.
RewriteFailed ==
    /\ Finish(TRUE)
    /\ tmp' \in {tmp, NoFile}
    /\ UNCHANGED cfg

NewLine(k) == <<Line(k, Changed(ram, dirs)[k])>>

\* Mutant: a duplicate of a key already replaced is copied.
Output_KeepsDuplicates(l) == IF l.key \in DirKeys \ replaced THEN NewLine(l.key) ELSE <<l>>

\* Mutant: lines that are no directive are lost.
Output_DropsComments(l) ==
    IF l.key \in DirKeys \ replaced THEN NewLine(l.key)
    ELSE IF l.key \in Keys \ DirKeys THEN <<l>> ELSE <<>>

\* What a line of the old file becomes: the directive that replaces it, once,
\* or itself.
Output(l) ==
    CASE l.key \in DirKeys \ replaced    -> NewLine(l.key)
      [] l.key \in DirKeys \cap replaced -> <<>>
      [] OTHER                           -> <<l>>

Marked(l) == {l.key} \cap DirKeys

CopyLine ==
    /\ pc = "copy"
    /\ \/ /\ line <= Len(cfg)
          /\ tmp' = tmp \o Output(cfg[line])
          /\ replaced' = replaced \cup Marked(cfg[line])
          /\ line' = line + 1
          /\ NoFault
          /\ UNCHANGED <<cfg, dirs, pc, ram, unsaved>>
       \/ /\ line > Len(cfg)
          /\ Goto("append")
          /\ NoFault
          /\ UNCHANGED <<fileVars, saveVars, ram, unsaved>>
       \/ RewriteFailed /\ Fault

Absent == {i \in DOMAIN dirs : dirs[i].key \notin replaced}

\* The directives not found, in their order, one write each.
AppendLine ==
    /\ pc = "append"
    /\ \/ \E i \in Absent :
            /\ \A j \in Absent : i <= j
            /\ tmp' = Append(tmp, Line(dirs[i].key, dirs[i].val))
            /\ replaced' = replaced \cup {dirs[i].key}
            /\ NoFault
            /\ UNCHANGED <<cfg, dirs, line, pc, ram, unsaved>>
       \/ /\ Absent = {}
          /\ Goto("close")
          /\ NoFault
          /\ UNCHANGED <<fileVars, saveVars, ram, unsaved>>
       \/ Absent # {} /\ RewriteFailed /\ Fault

\* fs_close() of both, their results ignored: if the second fails, the last
\* of what was written is not in the file.
CloseFiles ==
    /\ pc = "close"
    /\ Goto("unlink")
    /\ \/ NoFault /\ UNCHANGED <<tmp, hurt>>
       \/ /\ Fault
          /\ \E n \in 0..Len(tmp) : tmp' = SubSeq(tmp, 1, n)
          /\ hurt' = hurt \cup {"close"}
    /\ UNCHANGED <<cfg, saveVars, ram, unsaved>>

UnlinkOld ==
    /\ pc = "unlink"
    /\ \/ /\ cfg' = NoFile
          /\ Goto("replace")
          /\ NoFault
          /\ UNCHANGED <<tmp, saveVars, ram, unsaved>>
       \/ RewriteFailed /\ Fault

\* fs_rename(CONFIG_TMP_PATH, CONFIG_PATH) again, by the shell: a file that a
\* boot has put there is removed.
ReplaceNew ==
    /\ pc = "replace"
    /\ \/ /\ cfg' = NoFile
          /\ Goto("move")
          /\ NoFault
          /\ UNCHANGED <<tmp, saveVars, ram, unsaved>>
       \/ Finish(TRUE) /\ Fault /\ UNCHANGED fileVars

RenameNew ==
    /\ pc = "move"
    /\ \/ CanMove /\ Move /\ Finish(FALSE) /\ NoFault
       \/ ~CanMove /\ Finish(TRUE) /\ NoFault /\ UNCHANGED fileVars
       \/ Finish(TRUE) /\ Fault /\ UNCHANGED fileVars

SaveStep ==
    /\ \/ /\ OpenFiles \/ CopyLine \/ AppendLine \/ UnlinkOld \/ ReplaceNew \/ RenameNew
          /\ UNCHANGED hurt
       \/ CloseFiles
    /\ UNCHANGED <<bootVars, overrun, accepted>>

\* A crash, or the power switch.  What was written to a file not yet closed
\* is lost in part.
Crash ==
    /\ Fault
    /\ \/ /\ pc \in {"copy", "append", "close"}
          /\ \E n \in 0..Len(tmp) : tmp' = SubSeq(tmp, 1, n)
       \/ pc \notin {"copy", "append", "close"} /\ UNCHANGED tmp
    /\ boot' = "load" /\ loaded' = Default
    /\ Goto("idle")
    /\ dirs' = <<>> /\ line' = 1 /\ replaced' = {}
    /\ ram' = Default
    /\ overrun' = {}
    /\ UNCHANGED <<cfg, unsaved, accepted, hurt>>

BootStep == Load \/ HealUnlink \/ HealMove \/ Reopen \/ Apply

Next == BootStep \/ Command \/ SaveStep \/ Crash

Spec == Init /\ [][Next]_vars

-----------------------------------------------------------------------------
(* Properties *)

\* What the next boot will load.
Loadable == IF cfg # NoFile THEN cfg ELSE tmp

\* Once the box has had a configuration that loads, every boot finds one,
\* unless closing the temporary file failed, or a boot took a save under way
\* for one that a crash cut short.
ConfigKept == accepted /\ hurt = {} => Loads(Loadable)

\* "The temp is fully written and closed before the old config is removed, so
\* it holds a valid config": also if closing it fails.
TempIsValid == accepted /\ "race" \notin hurt => Loads(Loadable)

\* "No main config but a temp left behind means a save crashed", so that
\* finishing its rename does no harm.
HealingIsSafe == accepted /\ "close" \notin hurt => Loads(Loadable)

\* Saves are atomic: a boot after a crash or a failed call at any point finds
\* all the directives of a save or none ("writing all directives in one pass
\* keeps related values consistent on disk even if a later one fails").
AsUpdate(d) == [k \in {d[i].key : i \in DOMAIN d} |-> Changed(Default, d)[k]]
Store == INSTANCE SettingsStore WITH
    Updates <- {AsUpdate(d) : d \in Changes},
    stored <- Settings(Loadable), asked <- AsUpdate(dirs)
SavesAtomic == Store!Spec

\* Between commands, every setting whose last load or save reported no error
\* has in the file the value in use: duplicates of its directive, in any place
\* of the file, do not bring an old value back.  Only a change that met a boot
\* between its read and the end of its start may be undone by it.
SavedIsStored ==
    boot = "run" /\ pc = "idle" /\ hurt = {} =>
        \A k \in Keys \ (unsaved \cup overrun) : ram[k] = Setting(Loadable, k)

\* A save leaves the lines it is not about as they were and where they were:
\* only directives it saves are replaced, dropped or appended.
OtherLines(f, ks) ==
    LET others[n \in 0..Len(f)] ==
          IF n = 0 THEN <<>>
          ELSE IF f[n].key \in ks THEN others[n - 1] ELSE Append(others[n - 1], f[n])
    IN  others[Len(f)]
OthersUntouched ==
    pc \in {"close", "unlink"} /\ "close" \notin hurt =>
        OtherLines(tmp, DirKeys) = OtherLines(cfg, DirKeys)
=============================================================================
