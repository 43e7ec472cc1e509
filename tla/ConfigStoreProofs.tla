-------------------------- MODULE ConfigStoreProofs --------------------------
(***************************************************************************)
(* Proofs about ConfigStore, for all files, all changes and any number of  *)
(* crashes and failed calls: a configuration that loads is lost only after *)
(* a failed fs_close() or a boot that met a save between its unlink and    *)
(* its rename, and ConfigStore implements SettingsStore, so that saves are *)
(* atomic.                                                                 *)
(*                                                                         *)
(* The argument: while a save copies, the temporary file gives every       *)
(* setting what the lines copied so far give it, and the settings saved    *)
(* what is asked for once their directive is written.  When all are, it    *)
(* stands for the old file with the change made, and only then is the old  *)
(* file unlinked.  While a boot or a save is inside fs_rename() there is   *)
(* no file of the new name, unless the two have raced.                     *)
(***************************************************************************)
EXTENDS ConfigStore, Recursion

KeysOf(d) == {d[i].key : i \in DOMAIN d}

\* The value a change gives a key of its own.
Val(d, k) == d[CHOOSE i \in DOMAIN d : d[i].key = k].val

Typed ==
    /\ cfg \in Seq(Lines) \cup {NoFile}
    /\ tmp \in Seq(Lines) \cup {NoFile}
    /\ boot \in {"load", "heal", "move", "reopen", "apply", "run"}
    /\ pc \in {"idle", "open", "copy", "append", "close", "unlink", "replace", "move"}
    /\ line \in Nat \ {0}
    /\ accepted \in BOOLEAN
    /\ hurt \subseteq {"close", "race"}

\* A save in progress is of a change the command accepted.
Saving ==
    IF pc = "idle" THEN dirs = <<>>
                   ELSE dirs \in Changes /\ Consistent(Changed(Default, dirs))

\* Until its old file is unlinked a save has both.
BothFiles ==
    /\ pc \in {"copy", "append", "close", "unlink"} => cfg # NoFile
    /\ pc \in {"copy", "append", "close"} => tmp # NoFile

\* A boot or a save that renames has nothing in its way.
Renaming ==
    /\ pc \in {"replace", "move"} /\ "race" \notin hurt =>
         cfg = NoFile /\ boot \notin {"heal", "move"}
    /\ boot \in {"heal", "move"} =>
         /\ pc \in {"idle", "open", "replace", "move"}
         /\ pc = "open" \/ "race" \notin hurt => cfg = NoFile

\* The file t stands for the lines f with the keys r of the change d replaced.
StandsFor(t, f, d, r) ==
    \A k \in Keys :
        /\ k \notin KeysOf(d) =>
             /\ Setting(t, k) = Setting(f, k)
             /\ Occurrences(f, k) # {} => Occurrences(t, k) # {}
        /\ k \in KeysOf(d) /\ k \in r =>
             /\ Setting(t, k) = Val(d, k)
             /\ Occurrences(t, k) # {}

Copied ==
    /\ pc \in {"idle", "open"} => line = 1 /\ replaced = {}
    /\ pc = "copy" =>
         line <= Len(cfg) + 1 /\ StandsFor(tmp, SubSeq(cfg, 1, line - 1), dirs, replaced)
    /\ pc = "append" => StandsFor(tmp, cfg, dirs, replaced)
    /\ pc = "close" \/ (pc = "unlink" /\ "close" \notin hurt) =>
         StandsFor(tmp, cfg, dirs, replaced) /\ DirKeys \subseteq replaced

Inv == Typed /\ Saving /\ BothFiles /\ Renaming /\ Copied /\ ConfigKept

-----------------------------------------------------------------------------
(* Files and lines *)

\* Some positions of a sequence have a last among them.
LEMMA HasMax ==
    ASSUME NEW n \in Nat, NEW T, T \subseteq 1..n, T # {}
    PROVE \E x \in T : \A y \in T : y <= x
<1> DEFINE U == {n - x : x \in T}
<1>1. U \subseteq Nat /\ U # {}
  <2>1. \A x \in T : n - x \in Nat
    OBVIOUS
  <2> QED
    BY <2>1
<1>2. PICK u \in U : \A y \in U : u <= y
  <2> HIDE DEF U
  <2> QED
    BY <1>1, HasMin
<1>3. PICK x \in T : u = n - x
  BY <1>2
<1>4. \A y \in T : n - x <= n - y
  BY <1>2, <1>3
<1> QED
  BY <1>4

\* A line appended gives its key its value and no other key another.
LEMMA Grows ==
    ASSUME NEW f \in Seq(Lines), NEW l \in Lines, NEW k
    PROVE  /\ l.key = k => /\ Setting(Append(f, l), k) = l.val
                           /\ Occurrences(Append(f, l), k) # {}
           /\ l.key # k => /\ Setting(Append(f, l), k) = Setting(f, k)
                           /\ Occurrences(Append(f, l), k) = Occurrences(f, k)
<1> DEFINE g == Append(f, l)
<1>1. /\ g \in Seq(Lines) /\ Len(g) = Len(f) + 1
      /\ \A i \in 1..Len(f) : g[i] = f[i]
      /\ g[Len(f) + 1] = l
      /\ Len(f) \in Nat /\ DOMAIN f = 1..Len(f) /\ DOMAIN g = 1..(Len(f) + 1)
  OBVIOUS
<1>2. f # NoFile /\ g # NoFile
  BY <1>1, NoFileAssumption
<1> HIDE DEF g
<1>3. CASE l.key = k
  <2>1. Len(f) + 1 \in Occurrences(g, k)
    BY <1>1, <1>2, <1>3 DEF Occurrences
  <2>2. \A i \in Occurrences(g, k) : i \in Nat /\ i <= Len(f) + 1
    BY <1>1, <1>2 DEF Occurrences
  <2>3. (CHOOSE i \in Occurrences(g, k) : \A j \in Occurrences(g, k) : j <= i) = Len(f) + 1
    BY <1>1, <2>1, <2>2
  <2> QED
    BY <1>1, <1>3, <2>1, <2>3 DEF Setting, g
<1>4. CASE l.key # k
  <2>1. Occurrences(g, k) = Occurrences(f, k)
    BY <1>1, <1>2, <1>4 DEF Occurrences
  <2>2. CASE Occurrences(f, k) = {}
    BY <1>4, <2>1, <2>2 DEF Setting, g
  <2>3. CASE Occurrences(f, k) # {}
    <3> DEFINE last == CHOOSE i \in Occurrences(f, k) : \A j \in Occurrences(f, k) : j <= i
    <3>1. Setting(g, k) = g[last].val /\ Setting(f, k) = f[last].val
      BY <2>1, <2>3 DEF Setting
    <3>2. Occurrences(f, k) \subseteq 1..Len(f)
      BY <1>1 DEF Occurrences
    <3>3. \E i \in Occurrences(f, k) : \A j \in Occurrences(f, k) : j <= i
      BY <1>1, <2>3, <3>2, HasMax
    <3>4. last \in 1..Len(f)
      BY <3>2, <3>3
    <3> QED
      BY <1>1, <1>4, <2>1, <3>1, <3>4 DEF g
  <2> QED
    BY <1>4, <2>1, <2>2, <2>3 DEF g
<1> QED
  BY <1>3, <1>4

\* Nothing is in a file that does not exist, so it does not load.
LEMMA NothingThere == Settings(NoFile) = [k \in Keys |-> Default[k]] /\ ~Loads(NoFile)
BY DEF Settings, Setting, Occurrences, Loads

\* The keys of a change are settings, and it gives each the value it has there.
LEMMA ChangeTyped ==
    ASSUME NEW d \in Changes
    PROVE  /\ KeysOf(d) \subseteq Keys
           /\ \A i \in DOMAIN d : d[i] \in [key : Keys, val : Int] /\ Val(d, d[i].key) = d[i].val
           /\ \A k \in KeysOf(d) : Val(d, k) \in Int
<1>1. d \in Seq([key : Keys, val : Int])
  BY ChangesAssumption
<1>2. \A i \in DOMAIN d : d[i] \in [key : Keys, val : Int]
  <2> DEFINE E == [key : Keys, val : Int]
  <2>1. d \in Seq(E)
    BY <1>1
  <2> HIDE DEF E
  <2>2. \A i \in DOMAIN d : d[i] \in E
    BY <2>1
  <2> QED
    BY <2>2 DEF E
<1>3. ASSUME NEW i \in DOMAIN d PROVE Val(d, d[i].key) = d[i].val
  <2> DEFINE c == CHOOSE j \in DOMAIN d : d[j].key = d[i].key
  <2>1. c \in DOMAIN d /\ d[c].key = d[i].key
    OBVIOUS
  <2>2. c = i
    BY <2>1, ChangesAssumption
  <2> QED
    BY <2>2 DEF Val
<1> QED
  BY <1>2, <1>3 DEF KeysOf

\* A change keeps the settings it is not about.
LEMMA ChangedIs ==
    ASSUME NEW s, NEW d, NEW k \in Keys
    PROVE Changed(s, d)[k] = IF k \in KeysOf(d) THEN Val(d, k) ELSE s[k]
BY DEF Changed, KeysOf, Val

\* The lines a save has read grow by one, up to the whole file.
LEMMA ReadSoFar ==
    ASSUME NEW f \in Seq(Lines), NEW n \in 1..Len(f)
    PROVE  /\ SubSeq(f, 1, n - 1) \in Seq(Lines)
           /\ f[n] \in Lines
           /\ SubSeq(f, 1, n) = Append(SubSeq(f, 1, n - 1), f[n])
           /\ SubSeq(f, 1, Len(f)) = f
OBVIOUS

\* A line copied, replaced or dropped: the file keeps standing for those read.
LEMMA LineCopied ==
    ASSUME NEW d \in Changes, NEW r, NEW t \in Seq(Lines), NEW f \in Seq(Lines), NEW l \in Lines,
           StandsFor(t, f, d, r)
    PROVE  /\ l.key \in KeysOf(d) =>
                StandsFor(Append(t, Line(l.key, Val(d, l.key))), Append(f, l), d, r \cup {l.key})
           /\ l.key \in KeysOf(d) \cap r => StandsFor(t, Append(f, l), d, r)
           /\ l.key \notin KeysOf(d) => StandsFor(Append(t, l), Append(f, l), d, r)
<1>1. \A k : /\ l.key = k => /\ Setting(Append(f, l), k) = l.val
                             /\ Occurrences(Append(f, l), k) # {}
             /\ l.key # k => /\ Setting(Append(f, l), k) = Setting(f, k)
                             /\ Occurrences(Append(f, l), k) = Occurrences(f, k)
  BY Grows
<1>2. CASE l.key \in KeysOf(d)
  <2> DEFINE m == Line(l.key, Val(d, l.key))
  <2>1. m \in Lines /\ m.key = l.key /\ m.val = Val(d, l.key)
    BY <1>2, ChangeTyped DEF Lines, Line
  <2> HIDE DEF m
  <2>2. \A k : /\ m.key = k => /\ Setting(Append(t, m), k) = m.val
                               /\ Occurrences(Append(t, m), k) # {}
               /\ m.key # k => /\ Setting(Append(t, m), k) = Setting(t, k)
                               /\ Occurrences(Append(t, m), k) = Occurrences(t, k)
    BY <2>1, Grows
  <2>3. StandsFor(Append(t, m), Append(f, l), d, r \cup {l.key})
    BY <1>1, <1>2, <2>1, <2>2 DEF StandsFor
  <2>4. StandsFor(t, Append(f, l), d, r)
    BY <1>1, <1>2 DEF StandsFor
  <2> QED
    BY <1>2, <2>3, <2>4 DEF m
<1>3. CASE l.key \notin KeysOf(d)
  <2>1. \A k : /\ l.key = k => /\ Setting(Append(t, l), k) = l.val
                               /\ Occurrences(Append(t, l), k) # {}
               /\ l.key # k => /\ Setting(Append(t, l), k) = Setting(t, k)
                               /\ Occurrences(Append(t, l), k) = Occurrences(t, k)
    BY Grows
  <2> QED
    BY <1>1, <1>3, <2>1 DEF StandsFor
<1> QED
  BY <1>2, <1>3

\* A directive not found, appended.
LEMMA LineAppended ==
    ASSUME NEW d \in Changes, NEW r, NEW t \in Seq(Lines), NEW f,
           StandsFor(t, f, d, r), NEW i \in DOMAIN d
    PROVE  /\ Line(d[i].key, d[i].val) \in Lines
           /\ StandsFor(Append(t, Line(d[i].key, d[i].val)), f, d, r \cup {d[i].key})
<1> DEFINE m == Line(d[i].key, d[i].val)
<1>1. m \in Lines /\ m.key = d[i].key /\ m.val = Val(d, d[i].key) /\ m.key \in KeysOf(d)
  BY ChangeTyped, DefaultAssumption DEF Lines, Line, KeysOf
<1> HIDE DEF m
<1>2. \A k : /\ m.key = k => /\ Setting(Append(t, m), k) = m.val
                             /\ Occurrences(Append(t, m), k) # {}
             /\ m.key # k => /\ Setting(Append(t, m), k) = Setting(t, k)
                             /\ Occurrences(Append(t, m), k) = Occurrences(t, k)
  BY <1>1, Grows
<1>3. StandsFor(Append(t, m), f, d, r \cup {d[i].key})
  BY <1>1, <1>2 DEF StandsFor
<1> QED
  BY <1>1, <1>3 DEF m

\* Once all its directives are written, the file has the change made.
LEMMA Replaces ==
    ASSUME NEW t, NEW f, NEW d \in Changes, NEW r, StandsFor(t, f, d, r), KeysOf(d) \subseteq r
    PROVE Settings(t) = Changed(Settings(f), d)
<1>1. \A k \in Keys : Settings(t)[k] = Changed(Settings(f), d)[k]
  BY ChangedIs DEF StandsFor, Settings
<1> QED
  BY <1>1 DEF Settings, Changed

\* And it loads if the old one did: a change has both limits of the delay or
\* none.
LEMMA StaysLoadable ==
    ASSUME NEW t, NEW f, NEW d \in Changes, NEW r, StandsFor(t, f, d, r), KeysOf(d) \subseteq r,
           Consistent(Changed(Default, d)), Loads(f)
    PROVE Loads(t)
<1>1. Settings(t) = Changed(Settings(f), d)
  BY Replaces
<1>2. "id" \in Keys /\ "delay_min" \in Keys /\ "delay_max" \in Keys
  BY KeysAssumption
<1>3. "delay_min" \in KeysOf(d) <=> "delay_max" \in KeysOf(d)
  BY ChangesAssumption DEF KeysOf
<1>4. Occurrences(t, "id") # {}
  BY <1>2 DEF StandsFor, Loads
<1>5. Settings(t)["id"] # Reserved
  BY <1>1, <1>2, ChangedIs DEF Consistent, Loads
<1>6. Settings(t)["delay_min"] <= Settings(t)["delay_max"]
  <2>1. CASE "delay_min" \in KeysOf(d)
    BY <1>1, <1>2, <1>3, <2>1, ChangedIs DEF Consistent
  <2>2. CASE "delay_min" \notin KeysOf(d)
    BY <1>1, <1>2, <1>3, <2>2, ChangedIs DEF Consistent, Loads
  <2> QED
    BY <2>1, <2>2
<1> QED
  BY <1>4, <1>5, <1>6 DEF Loads, Consistent

-----------------------------------------------------------------------------
(* Each step keeps the invariant *)

LEMMA InitInv == Init => Inv
<1> SUFFICES ASSUME Init PROVE Inv
  OBVIOUS
<1>1. cfg \in Seq(Lines) \cup {NoFile} /\ accepted = Loads(cfg) /\ accepted \in BOOLEAN
  BY FilesAssumption DEF Init, Loads, Consistent
<1>2. ConfigKept
  BY <1>1, NothingThere DEF Init, ConfigKept, Loadable
<1> QED
  BY <1>1, <1>2 DEF Init, Inv, Typed, Saving, BothFiles, Renaming, Copied

\* What a boot does to the files: it leaves those of a save that still needs
\* both, and what the next boot will load, unless it has raced a save.
LEMMA BootFiles ==
    ASSUME Inv, BootStep
    PROVE  /\ UNCHANGED <<saveVars, pc>> /\ hurt \subseteq hurt'
           /\ pc \in {"copy", "append", "close", "unlink"} => UNCHANGED fileVars
           /\ "race" \notin hurt' => Loadable' = Loadable
           /\ Typed' /\ Saving' /\ BothFiles' /\ Renaming' /\ Copied'
<1>1. CASE UNCHANGED fileVars /\ boot' \in {"reopen", "apply", "run"} /\ UNCHANGED <<saveVars, pc, hurt>>
           /\ accepted' \in BOOLEAN
  BY <1>1 DEF Inv, Typed, Saving, BothFiles, Renaming, Copied, Loadable, fileVars, saveVars,
              DirKeys
<1>2. CASE Load /\ boot' = "heal"
  <2>1. /\ boot = "load" /\ cfg = NoFile
        /\ UNCHANGED <<cfg, tmp, dirs, line, replaced, pc, accepted>>
        /\ hurt' = hurt \/ hurt' = hurt \cup {"race"}
        /\ pc \in {"replace", "move"} => "race" \in hurt'
    BY <1>2 DEF Load, EndLoad, Read, fileVars, saveVars
  <2>2. pc \in {"idle", "open", "replace", "move"}
    BY <2>1 DEF Inv, Typed, BothFiles
  <2>3. Typed' /\ Saving' /\ BothFiles' /\ Copied'
    BY <1>2, <2>1, <2>2 DEF Inv, Typed, Saving, BothFiles, Copied
  <2>4. Renaming'
    BY <1>2, <2>1, <2>2 DEF Renaming
  <2> QED
    BY <2>1, <2>3, <2>4 DEF Loadable, saveVars, fileVars
<1>3. CASE HealUnlink /\ boot' = "move"
  BY <1>3 DEF HealUnlink, EndLoad, Inv, Typed, Saving, BothFiles, Renaming, Copied, Loadable,
              saveVars, fileVars, DirKeys
<1>4. CASE HealMove /\ boot' = "reopen"
  BY <1>4 DEF HealMove, EndLoad, CanMove, Move, Inv, Typed, Saving, BothFiles, Renaming, Copied,
              Loadable, saveVars, fileVars, DirKeys
<1>5. accepted' \in BOOLEAN
  BY DEF BootStep, Load, HealUnlink, HealMove, Reopen, Apply, Read, Inv, Typed, Loads, Consistent
<1> QED
  BY <1>1, <1>2, <1>3, <1>4, <1>5
     DEF BootStep, Load, HealUnlink, HealMove, Reopen, Apply, Read, EndLoad, saveVars

LEMMA BootInv == Inv /\ BootStep => Inv'
<1> SUFFICES ASSUME Inv, BootStep PROVE Inv'
  OBVIOUS
<1>1. /\ "race" \notin hurt' => Loadable' = Loadable
      /\ hurt \subseteq hurt'
      /\ Typed' /\ Saving' /\ BothFiles' /\ Renaming' /\ Copied'
  BY BootFiles
<1>2. \/ accepted' = accepted
      \/ accepted' = (accepted \/ Loads(Loadable))
  BY DEF BootStep, Load, HealUnlink, HealMove, Reopen, Apply, Read, EndLoad, Loadable
<1>3. ConfigKept'
  BY <1>1, <1>2 DEF Inv, ConfigKept
<1> QED
  BY <1>1, <1>3 DEF Inv

LEMMA CommandInv == Inv /\ Command => Inv'
BY DEF Inv, Typed, Saving, BothFiles, Renaming, Copied, ConfigKept, Loadable, Command, Goto, fileVars,
       bootVars

\* A save that gives up before it has unlinked the old file leaves it.
LEMMA GivesUp ==
    ASSUME Inv, cfg # NoFile, tmp' \in {tmp, NoFile}, Finish(TRUE),
           UNCHANGED <<cfg, bootVars, accepted, hurt>>
    PROVE Inv'
BY DEF Inv, Typed, Saving, BothFiles, Renaming, Copied, ConfigKept, Loadable, Finish, Goto, bootVars

LEMMA OpenInv == Inv /\ OpenFiles /\ UNCHANGED <<bootVars, accepted, hurt>> => Inv'
<1> SUFFICES ASSUME Inv, OpenFiles, UNCHANGED <<bootVars, accepted, hurt>> PROVE Inv'
  OBVIOUS
<1>3. pc = "open"
  BY DEF OpenFiles
<1>1. CASE /\ cfg # NoFile /\ tmp' = <<>> /\ Goto("copy")
           /\ UNCHANGED <<cfg, saveVars>>
  <2>1. /\ tmp' \in Seq(Lines) /\ tmp' # NoFile
        /\ cfg \in Seq(Lines) /\ line = 1 /\ replaced = {} /\ Len(cfg) \in Nat
    <3>1. cfg \in Seq(Lines) /\ line = 1 /\ replaced = {}
      BY <1>1, <1>3 DEF Inv, Typed, Copied
    <3>2. <<>> \in Seq(Lines)
      OBVIOUS
    <3>3. Len(cfg) \in Nat
      BY <3>1
    <3> QED
      BY <1>1, <3>1, <3>2, <3>3, NoFileAssumption
  <2>2. StandsFor(<<>>, SubSeq(cfg, 1, 0), dirs, {})
    <3>1. SubSeq(cfg, 1, 0) = <<>>
      BY <2>1
    <3> QED
      BY <3>1 DEF StandsFor
  <2>3. (line <= Len(cfg) + 1 /\ StandsFor(tmp, SubSeq(cfg, 1, line - 1), dirs, replaced))'
    <3>1. cfg' = cfg /\ line' = 1 /\ dirs' = dirs /\ replaced' = {} /\ tmp' = <<>>
      BY <1>1, <2>1 DEF saveVars
    <3> QED
      BY <2>1, <2>2, <3>1
  <2> QED
    BY <1>1, <1>3, <2>1, <2>3 DEF Inv, Typed, Saving, BothFiles, Renaming, Copied, ConfigKept, Loadable,
                                  Goto, bootVars, saveVars
<1>2. CASE Finish(TRUE) /\ UNCHANGED fileVars
  BY <1>2 DEF Inv, Typed, Saving, BothFiles, Renaming, Copied, ConfigKept, Loadable, Finish, Goto,
              bootVars, fileVars
<1> QED
  BY <1>1, <1>2 DEF OpenFiles

LEMMA CopyInv == Inv /\ CopyLine /\ UNCHANGED <<bootVars, accepted, hurt>> => Inv'
<1> SUFFICES ASSUME Inv, CopyLine, UNCHANGED <<bootVars, accepted, hurt>> PROVE Inv'
  OBVIOUS
<1>1. /\ pc = "copy" /\ cfg # NoFile /\ tmp # NoFile
      /\ cfg \in Seq(Lines) /\ tmp \in Seq(Lines) /\ Len(cfg) \in Nat /\ line \in Nat \ {0}
      /\ line <= Len(cfg) + 1 /\ StandsFor(tmp, SubSeq(cfg, 1, line - 1), dirs, replaced)
      /\ dirs \in Changes /\ Consistent(Changed(Default, dirs))
  BY DEF Inv, Typed, Saving, BothFiles, Renaming, Copied, CopyLine
<1>2. CASE /\ line <= Len(cfg)
           /\ tmp' = tmp \o Output(cfg[line])
           /\ replaced' = replaced \cup Marked(cfg[line])
           /\ line' = line + 1
           /\ UNCHANGED <<cfg, dirs, pc>>
  <2> DEFINE f == SubSeq(cfg, 1, line - 1)
             l == cfg[line]
  <2>1. f \in Seq(Lines) /\ l \in Lines /\ SubSeq(cfg, 1, line) = Append(f, l)
    <3>1. line \in 1..Len(cfg)
      BY <1>1, <1>2
    <3> QED
      BY <1>1, <3>1, ReadSoFar
  <2>2. StandsFor(tmp, f, dirs, replaced)
    BY <1>1
  <2> HIDE DEF f, l
  <2>3. DirKeys = KeysOf(dirs)
    BY DEF DirKeys, KeysOf
  <2>4. tmp' \in Seq(Lines) /\ StandsFor(tmp', Append(f, l), dirs, replaced')
    <3>1. CASE l.key \in KeysOf(dirs) /\ l.key \notin replaced
      <4> DEFINE m == Line(l.key, Val(dirs, l.key))
      <4>1. Changed(ram, dirs)[l.key] = Val(dirs, l.key)
        BY <1>1, <3>1, ChangeTyped, ChangedIs
      <4>2. m \in Lines
        BY <1>1, <2>1, <3>1, ChangeTyped DEF Lines, Line
      <4>3. tmp' = tmp \o <<m>>
        BY <1>2, <2>3, <3>1, <4>1 DEF Output, NewLine, l
      <4>4. replaced' = replaced \cup {l.key}
        BY <1>2, <2>3, <3>1 DEF Marked, l
      <4>5. StandsFor(Append(tmp, m), Append(f, l), dirs, replaced')
        BY <1>1, <2>1, <2>2, <3>1, <4>4, LineCopied
      <4> HIDE DEF m
      <4>6. tmp' = Append(tmp, m) /\ tmp' \in Seq(Lines)
        BY <1>1, <4>2, <4>3
      <4> QED
        BY <4>5, <4>6
    <3>2. CASE l.key \in KeysOf(dirs) /\ l.key \in replaced
      <4>1. tmp' = tmp \o <<>> /\ replaced' = replaced
        BY <1>2, <2>3, <3>2 DEF Output, Marked, l
      <4>2. tmp' = tmp
        BY <1>1, <4>1
      <4> QED
        BY <1>1, <2>1, <2>2, <3>2, <4>1, <4>2, LineCopied
    <3>3. CASE l.key \notin KeysOf(dirs)
      <4>1. tmp' = tmp \o <<l>> /\ replaced' = replaced
        BY <1>2, <2>3, <3>3 DEF Output, Marked, l
      <4>2. tmp' = Append(tmp, l) /\ tmp' \in Seq(Lines)
        BY <1>1, <2>1, <4>1
      <4> QED
        BY <1>1, <2>1, <2>2, <3>3, <4>1, <4>2, LineCopied
    <3> QED
      BY <3>1, <3>2, <3>3
  <2>5. StandsFor(tmp', SubSeq(cfg', 1, line' - 1), dirs', replaced')
    <3>1. line' - 1 = line /\ cfg' = cfg /\ dirs' = dirs
      BY <1>1, <1>2
    <3> QED
      BY <2>1, <2>4, <3>1
  <2>6. tmp' # NoFile /\ line' \in Nat \ {0} /\ line' <= Len(cfg) + 1
    <3>1. tmp' # NoFile
      BY <2>4, NoFileAssumption, Zenon
    <3> QED
      BY <1>1, <1>2, <3>1
  <2> QED
    BY <1>1, <1>2, <2>4, <2>5, <2>6 DEF Inv, Typed, Saving, BothFiles, Renaming, Copied, ConfigKept,
                                        Loadable, bootVars
<1>3. CASE line > Len(cfg) /\ Goto("append") /\ UNCHANGED <<fileVars, saveVars>>
  <2>1. SubSeq(cfg, 1, line - 1) = cfg
    BY <1>1, <1>3
  <2> QED
    BY <1>1, <1>3, <2>1 DEF Inv, Typed, Saving, BothFiles, Renaming, Copied, ConfigKept, Loadable, Goto,
                            bootVars, saveVars, fileVars
<1>4. CASE RewriteFailed
  BY <1>1, <1>4, GivesUp DEF RewriteFailed
<1> QED
  BY <1>2, <1>3, <1>4 DEF CopyLine

LEMMA AppendInv == Inv /\ AppendLine /\ UNCHANGED <<bootVars, accepted, hurt>> => Inv'
<1> SUFFICES ASSUME Inv, AppendLine, UNCHANGED <<bootVars, accepted, hurt>> PROVE Inv'
  OBVIOUS
<1>1. /\ pc = "append" /\ cfg # NoFile /\ tmp # NoFile /\ tmp \in Seq(Lines)
      /\ StandsFor(tmp, cfg, dirs, replaced)
      /\ dirs \in Changes
  BY DEF Inv, Typed, Saving, BothFiles, Renaming, Copied, AppendLine
<1>2. CASE \E i \in Absent :
             /\ tmp' = Append(tmp, Line(dirs[i].key, dirs[i].val))
             /\ replaced' = replaced \cup {dirs[i].key}
             /\ UNCHANGED <<cfg, dirs, line, pc>>
  <2>1. PICK i \in DOMAIN dirs :
             /\ tmp' = Append(tmp, Line(dirs[i].key, dirs[i].val))
             /\ replaced' = replaced \cup {dirs[i].key}
             /\ UNCHANGED <<cfg, dirs, line, pc>>
    BY <1>2 DEF Absent
  <2>2. /\ Line(dirs[i].key, dirs[i].val) \in Lines
        /\ StandsFor(tmp', cfg, dirs, replaced')
    BY <1>1, <2>1, LineAppended
  <2>3. tmp' \in Seq(Lines)
    BY <1>1, <2>1, <2>2
  <2>4. tmp' # NoFile
    BY <2>3, NoFileAssumption, Zenon
  <2> QED
    BY <1>1, <2>1, <2>2, <2>3, <2>4 DEF Inv, Typed, Saving, BothFiles, Renaming, Copied, ConfigKept,
                                        Loadable, bootVars
<1>3. CASE Absent = {} /\ Goto("close") /\ UNCHANGED <<fileVars, saveVars>>
  <2>1. DirKeys \subseteq replaced
    BY <1>3 DEF Absent, DirKeys
  <2> QED
    BY <1>1, <1>3, <2>1 DEF Inv, Typed, Saving, BothFiles, Renaming, Copied, ConfigKept, Loadable, Goto,
                            DirKeys, bootVars, saveVars, fileVars
<1>4. CASE RewriteFailed
  BY <1>1, <1>4, GivesUp DEF RewriteFailed
<1> QED
  BY <1>2, <1>3, <1>4 DEF AppendLine

\* A close that fails may cut the file short; the history says so.
LEMMA CloseInv == Inv /\ CloseFiles /\ UNCHANGED <<bootVars, accepted>> => Inv'
<1> SUFFICES ASSUME Inv, CloseFiles, UNCHANGED <<bootVars, accepted>> PROVE Inv'
  OBVIOUS
<1>1. pc = "close" /\ pc' = "unlink" /\ tmp \in Seq(Lines) /\ cfg # NoFile
  BY DEF Inv, Typed, BothFiles, CloseFiles, Goto
<1>2. tmp' \in Seq(Lines)
  <2>1. CASE \E n \in 0..Len(tmp) : tmp' = SubSeq(tmp, 1, n)
    BY <1>1, <2>1
  <2> QED
    BY <1>1, <2>1 DEF CloseFiles
<1>3. (tmp' = tmp /\ hurt' = hurt) \/ hurt' = hurt \cup {"close"}
  BY DEF CloseFiles
<1> QED
  BY <1>1, <1>2, <1>3 DEF Inv, Typed, Saving, BothFiles, Renaming, Copied, ConfigKept, Loadable,
                          CloseFiles, DirKeys, bootVars, saveVars

\* What is left once the old file is unlinked has the change made.
LEMMA Unlinked ==
    ASSUME Inv, pc = "unlink", "close" \notin hurt
    PROVE  /\ Settings(tmp) = Changed(Settings(cfg), dirs)
           /\ Loads(cfg) => Loads(tmp)
<1>1. /\ dirs \in Changes /\ Consistent(Changed(Default, dirs))
      /\ StandsFor(tmp, cfg, dirs, replaced) /\ KeysOf(dirs) \subseteq replaced
  BY DEF Inv, Saving, Copied, DirKeys, KeysOf
<1> QED
  BY <1>1, Replaces, StaysLoadable

LEMMA UnlinkInv == Inv /\ UnlinkOld /\ UNCHANGED <<bootVars, accepted, hurt>> => Inv'
<1> SUFFICES ASSUME Inv, UnlinkOld, UNCHANGED <<bootVars, accepted, hurt>> PROVE Inv'
  OBVIOUS
<1>1. pc = "unlink" /\ cfg # NoFile
  BY DEF Inv, BothFiles, UnlinkOld
<1>2. CASE cfg' = NoFile /\ Goto("replace") /\ UNCHANGED <<tmp, saveVars>>
  <2>1. ConfigKept'
    BY <1>1, <1>2, Unlinked DEF Inv, ConfigKept, Loadable
  <2> QED
    BY <1>1, <1>2, <2>1 DEF Inv, Typed, Saving, BothFiles, Renaming, Copied, Goto, bootVars, saveVars
<1>3. CASE RewriteFailed
  BY <1>1, <1>3, GivesUp DEF RewriteFailed
<1> QED
  BY <1>2, <1>3 DEF UnlinkOld

LEMMA ReplaceInv == Inv /\ ReplaceNew /\ UNCHANGED <<bootVars, accepted, hurt>> => Inv'
<1> SUFFICES ASSUME Inv, ReplaceNew, UNCHANGED <<bootVars, accepted, hurt>> PROVE Inv'
  OBVIOUS
<1>1. CASE cfg' = NoFile /\ Goto("move") /\ UNCHANGED <<tmp, saveVars>>
  BY <1>1 DEF Inv, Typed, Saving, BothFiles, Renaming, Copied, ConfigKept, Loadable, ReplaceNew,
              Goto, bootVars, saveVars
<1>2. CASE Finish(TRUE) /\ UNCHANGED fileVars
  BY <1>2 DEF Inv, Typed, Saving, BothFiles, Renaming, Copied, ConfigKept, Loadable, ReplaceNew,
              Finish, Goto, bootVars, fileVars
<1> QED
  BY <1>1, <1>2 DEF ReplaceNew

LEMMA RenameInv == Inv /\ RenameNew /\ UNCHANGED <<bootVars, accepted, hurt>> => Inv'
<1> SUFFICES ASSUME Inv, RenameNew, UNCHANGED <<bootVars, accepted, hurt>> PROVE Inv'
  OBVIOUS
<1>2. CASE CanMove /\ Move /\ Finish(FALSE)
  BY <1>2 DEF Inv, Typed, Saving, BothFiles, Renaming, Copied, ConfigKept, Loadable, RenameNew,
              CanMove, Move, Finish, Goto, bootVars
<1>3. CASE Finish(TRUE) /\ UNCHANGED fileVars
  BY <1>3 DEF Inv, Typed, Saving, BothFiles, Renaming, Copied, ConfigKept, Loadable, RenameNew,
              Finish, Goto, bootVars, fileVars
<1> QED
  BY <1>2, <1>3 DEF RenameNew

\* What a crash cuts short is the temporary file of a save whose old file is
\* still there.
LEMMA CrashInv == Inv /\ Crash => Inv'
<1> SUFFICES ASSUME Inv, Crash PROVE Inv'
  OBVIOUS
<1>1. /\ boot' = "load" /\ pc' = "idle" /\ dirs' = <<>> /\ line' = 1 /\ replaced' = {}
      /\ UNCHANGED <<cfg, accepted, hurt>>
  BY DEF Crash, Goto
<1>2. tmp' \in Seq(Lines) \cup {NoFile} /\ (tmp' = tmp \/ cfg # NoFile)
  <2>1. CASE pc \in {"copy", "append", "close"}
    <3>1. cfg # NoFile /\ tmp \in Seq(Lines)
      BY <2>1 DEF Inv, Typed, BothFiles
    <3>2. PICK n \in 0..Len(tmp) : tmp' = SubSeq(tmp, 1, n)
      BY <2>1 DEF Crash
    <3>3. tmp' \in Seq(Lines)
      BY <3>1, <3>2
    <3> QED
      BY <3>1, <3>3
  <2>2. CASE pc \notin {"copy", "append", "close"}
    BY <2>2 DEF Inv, Typed, Crash
  <2> QED
    BY <2>1, <2>2
<1> QED
  BY <1>1, <1>2 DEF Inv, Typed, Saving, BothFiles, Renaming, Copied, ConfigKept, Loadable

LEMMA StepInv == Inv /\ [Next]_vars => Inv'
<1> SUFFICES ASSUME Inv, [Next]_vars PROVE Inv'
  OBVIOUS
<1>1. CASE UNCHANGED vars
  BY <1>1 DEF Inv, Typed, Saving, BothFiles, Renaming, Copied, ConfigKept, Loadable, DirKeys, vars,
              fileVars, bootVars, saveVars
<1>2. CASE SaveStep
  BY <1>2, OpenInv, CopyInv, AppendInv, CloseInv, UnlinkInv, ReplaceInv, RenameInv DEF SaveStep
<1> QED
  BY <1>1, <1>2, BootInv, CommandInv, CrashInv DEF Next

-----------------------------------------------------------------------------
(* Theorems *)

LEMMA Invariance == Spec => []Inv
<1>1. Inv /\ [Next]_vars => Inv'
  BY StepInv
<1> QED
  BY <1>1, InitInv, PTL DEF Spec

\* No crash and no failed call loses a configuration that loads, except a
\* failed fs_close(); and of all boots in the middle of a save, only one that
\* finds it between its unlink and its rename does.
THEOREM KeepsConfig == Spec => []ConfigKept
<1>1. Inv => ConfigKept
  BY DEF Inv
<1>2. Spec => []Inv
  BY Invariance
<1> QED
  BY <1>1, <1>2, PTL

-----------------------------------------------------------------------------
(* ConfigStore implements SettingsStore *)

\* A change as SettingsStore has it.
LEMMA AsAsked ==
    ASSUME NEW d \in Changes, NEW s
    PROVE Store!With(s, AsUpdate(d)) = Changed(s, d)
<1>1. DOMAIN AsUpdate(d) = KeysOf(d) /\ \A k \in KeysOf(d) : AsUpdate(d)[k] = Changed(Default, d)[k]
  BY DEF AsUpdate, KeysOf
<1>2. ASSUME NEW k \in Keys PROVE Store!With(s, AsUpdate(d))[k] = Changed(s, d)[k]
  BY <1>1, ChangedIs DEF Store!With
<1> QED
  BY <1>2 DEF Store!With, Changed

LEMMA NothingAsked == DOMAIN AsUpdate(<<>>) = {}
BY DEF AsUpdate

LEMMA InitStores == Init => Store!Init
BY NothingAsked DEF Init, Store!Init

\* Files that load alike are stored alike.
LEMMA StoredAlike == Loadable' = Loadable => Settings(Loadable)' = Settings(Loadable)
BY DEF Settings, Setting, Occurrences

LEMMA BootStores == ASSUME Inv, BootStep PROVE [Store!Next]_(Store!vars)
<1>1. "race" \notin hurt' => Settings(Loadable)' = Settings(Loadable)
  BY BootFiles, StoredAlike
<1>2. AsUpdate(dirs)' = AsUpdate(dirs)
  BY BootFiles DEF saveVars, AsUpdate, Changed
<1>3. CASE \E found \in BOOLEAN : EndLoad(found) /\ (found => cfg # NoFile)
  <2>1. UNCHANGED <<fileVars, ram>>
    BY <1>3 DEF EndLoad
  <2>2. Settings(Loadable)' = Settings(Loadable)
    BY <2>1, StoredAlike DEF Loadable, fileVars
  <2>3. loaded' \in {Settings(Loadable), Default}
    BY <1>3 DEF EndLoad, Loadable
  <2>4. Store!Look
    BY <1>2, <2>1, <2>2, <2>3 DEF Store!Look
  <2> QED
    BY <2>4 DEF Store!Next
<1>4. CASE Apply
  <2>1. Settings(Loadable)' = Settings(Loadable)
    BY <1>4, StoredAlike DEF Apply, Loadable, fileVars
  <2> QED
    BY <1>2, <1>4, <2>1 DEF Apply, Store!Use, Store!Next
<1>5. CASE UNCHANGED <<loaded, ram>>
  <2>1. CASE hurt' = {}
    <3>1. UNCHANGED Store!vars
      BY <1>1, <1>2, <1>5, <2>1 DEF Store!vars
    <3> QED
      BY <3>1
  <2>2. CASE hurt' # {}
    <3>1. Store!Damage
      BY <1>2, <1>5, <2>2 DEF Store!Damage
    <3> QED
      BY <3>1 DEF Store!Next
  <2> QED
    BY <2>1, <2>2
<1>6. Loads(cfg) \in BOOLEAN /\ (Loads(cfg) => cfg # NoFile)
  BY NothingThere DEF Loads, Consistent
<1> QED
  BY <1>3, <1>4, <1>5, <1>6 DEF BootStep, Load, HealUnlink, HealMove, Reopen, Read

LEMMA CommandStores == Inv /\ Command => Store!Ask
<1> SUFFICES ASSUME Inv, Command PROVE Store!Ask
  OBVIOUS
<1>1. PICK d \in Changes : dirs' = d /\ ram' = Changed(ram, d)
  BY DEF Command
<1>2. ram' = Store!With(ram, AsUpdate(d)) /\ AsUpdate(dirs)' = AsUpdate(d)
  BY <1>1, AsAsked DEF AsUpdate, Changed
<1>3. Settings(Loadable)' = Settings(Loadable) /\ loaded' = loaded
  BY DEF Command, Loadable, Settings, Setting, Occurrences, fileVars, bootVars
<1> QED
  BY <1>1, <1>2, <1>3 DEF Store!Ask

\* A step of a save that leaves what the next boot will load, and what is asked.
LEMMA StoresNothing ==
    ASSUME Loadable' = Loadable, UNCHANGED <<dirs, ram, loaded>>
    PROVE UNCHANGED Store!vars
BY DEF Store!vars, Settings, Setting, Occurrences, AsUpdate, Changed

\* The end of a save, where nothing that a boot would load changes.
LEMMA DoneStores ==
    ASSUME Loadable' = Loadable, NEW failed, Finish(failed), UNCHANGED loaded
    PROVE Store!Done
<1>1. DOMAIN AsUpdate(dirs)' = {}
  BY NothingAsked DEF Finish, AsUpdate, Changed
<1> QED
  BY <1>1 DEF Store!Done, Finish, Settings, Setting, Occurrences

LEMMA GiveUpStores ==
    ASSUME cfg # NoFile, RewriteFailed, UNCHANGED loaded
    PROVE Store!Done
<1>1. Loadable' = Loadable
  BY DEF RewriteFailed, Loadable
<1> QED
  BY <1>1, DoneStores DEF RewriteFailed

\* The step that stores the change is the unlinking of the old file.
LEMMA UnlinkStores ==
    ASSUME Inv, UnlinkOld, UNCHANGED <<loaded, hurt>>
    PROVE Store!Store \/ Store!Done \/ Store!Damage
<1>1. pc = "unlink" /\ cfg # NoFile /\ dirs \in Changes
  BY DEF Inv, BothFiles, Saving, UnlinkOld
<1>4. CASE hurt # {} /\ UNCHANGED <<dirs, ram>>
  BY <1>4 DEF Store!Damage, AsUpdate, Changed
<1>2. CASE hurt = {} /\ cfg' = NoFile /\ UNCHANGED <<tmp, saveVars, ram>>
  <2>1. Loadable' = tmp /\ Loadable = cfg /\ dirs' = dirs
    BY <1>1, <1>2 DEF Loadable, saveVars
  <2>2. Settings(Loadable)' = Settings(tmp)
    BY <2>1 DEF Settings, Setting, Occurrences
  <2>3. Settings(Loadable)' = Store!With(Settings(Loadable), AsUpdate(dirs))
    BY <1>1, <1>2, <2>1, <2>2, Unlinked, AsAsked DEF UnlinkOld
  <2>4. AsUpdate(dirs)' = AsUpdate(dirs)
    BY <2>1 DEF AsUpdate, Changed
  <2> QED
    BY <1>2, <2>3, <2>4 DEF Store!Store
<1>3. CASE RewriteFailed
  BY <1>1, <1>3, GiveUpStores
<1> QED
  BY <1>2, <1>3, <1>4 DEF UnlinkOld, saveVars

LEMMA ReplaceStores ==
    ASSUME Inv, ReplaceNew, UNCHANGED <<loaded, hurt>>
    PROVE Store!Done \/ Store!Damage \/ UNCHANGED Store!vars
<1>1. CASE Finish(TRUE) /\ UNCHANGED fileVars
  BY <1>1, DoneStores DEF Loadable, fileVars
<1>2. CASE cfg' = NoFile /\ UNCHANGED <<tmp, dirs, ram>>
  <2>1. CASE cfg = NoFile
    BY <1>2, <2>1, StoresNothing DEF Loadable
  <2>2. CASE cfg # NoFile
    <3>1. hurt # {}
      BY <2>2 DEF Inv, Renaming, ReplaceNew
    <3> QED
      BY <1>2, <3>1 DEF Store!Damage, AsUpdate, Changed
  <2> QED
    BY <2>1, <2>2
<1> QED
  BY <1>1, <1>2 DEF ReplaceNew, saveVars

LEMMA RenameStores == Inv /\ RenameNew /\ UNCHANGED loaded => Store!Done
<1> SUFFICES ASSUME Inv, RenameNew, UNCHANGED loaded PROVE Store!Done
  OBVIOUS
<1>1. Loadable' = Loadable
  BY DEF RenameNew, CanMove, Move, Loadable, fileVars
<1> QED
  BY <1>1, DoneStores DEF RenameNew

LEMMA SaveStores ==
    ASSUME Inv, SaveStep
    PROVE [Store!Next]_(Store!vars)
<1>1. UNCHANGED loaded
  BY DEF SaveStep, bootVars
<1>2. CASE OpenFiles
  <2>1. Loadable' = Loadable
    BY <1>2 DEF OpenFiles, Loadable, fileVars
  <2>2. (\E b \in BOOLEAN : Finish(b)) \/ UNCHANGED <<dirs, ram>>
    BY <1>2 DEF OpenFiles, saveVars
  <2> QED
    BY <1>1, <2>1, <2>2, DoneStores, StoresNothing DEF Store!Next
<1>3. CASE CopyLine \/ AppendLine
  <2>1. cfg # NoFile
    BY <1>3 DEF Inv, BothFiles, CopyLine, AppendLine
  <2>2. RewriteFailed \/ (Loadable' = Loadable /\ UNCHANGED <<dirs, ram>>)
    BY <1>3, <2>1 DEF CopyLine, AppendLine, Loadable, saveVars, fileVars
  <2> QED
    BY <1>1, <2>1, <2>2, GiveUpStores, StoresNothing DEF Store!Next
<1>4. CASE CloseFiles
  <2>1. Loadable' = Loadable /\ UNCHANGED <<dirs, ram>>
    BY <1>4 DEF CloseFiles, Inv, BothFiles, Loadable, saveVars
  <2> QED
    BY <1>1, <2>1, StoresNothing
<1>5. CASE UnlinkOld
  <2>1. UNCHANGED hurt
    BY <1>5 DEF SaveStep, UnlinkOld, CloseFiles
  <2> QED
    BY <1>1, <1>5, <2>1, UnlinkStores DEF Store!Next
<1>6. CASE ReplaceNew
  <2>1. UNCHANGED hurt
    BY <1>6 DEF SaveStep, ReplaceNew, CloseFiles
  <2> QED
    BY <1>1, <1>6, <2>1, ReplaceStores DEF Store!Next
<1>7. CASE RenameNew
  BY <1>1, <1>7, RenameStores DEF Store!Next
<1> QED
  BY <1>2, <1>3, <1>4, <1>5, <1>6, <1>7 DEF SaveStep

LEMMA CrashStores == Inv /\ Crash => Store!Crash
<1> SUFFICES ASSUME Inv, Crash PROVE Store!Crash
  OBVIOUS
<1>1. Loadable' = Loadable
  BY DEF Inv, BothFiles, Crash, Loadable
<1>2. DOMAIN AsUpdate(dirs)' = {}
  BY NothingAsked DEF Crash, AsUpdate, Changed
<1> QED
  BY <1>1, <1>2 DEF Store!Crash, Crash, Settings, Setting, Occurrences

LEMMA StepStores ==
    ASSUME Inv, [Next]_vars
    PROVE [Store!Next]_(Store!vars)
<1>1. CASE UNCHANGED vars
  BY <1>1, StoresNothing DEF vars, fileVars, bootVars, saveVars, Loadable
<1> QED
  BY <1>1, BootStores, CommandStores, SaveStores, CrashStores DEF Next, Store!Next

\* Saves are atomic for all files and changes: whatever crashes or fails, and
\* when, a boot finds all the directives of a save or none, until a failed
\* fs_close() or a boot racing a save's rename has hurt the file.
THEOREM AtomicSaves == Spec => SavesAtomic
<1>1. Inv /\ [Next]_vars => [Store!Next]_(Store!vars)
  BY StepStores
<1>2. Spec => []Inv
  BY Invariance
<1> QED
  BY <1>1, <1>2, InitStores, PTL DEF Spec, SavesAtomic, Store!Spec

-----------------------------------------------------------------------------
(* Types *)

LEMMA SettingsTyped ==
    ASSUME NEW f, IsFile(f)
    PROVE Settings(f) \in [Keys -> Int]
<1>1. ASSUME NEW k \in Keys PROVE Setting(f, k) \in Int
  <2>1. CASE Occurrences(f, k) = {}
    BY <2>1, DefaultAssumption DEF Setting
  <2>2. CASE Occurrences(f, k) # {}
    <3> DEFINE last == CHOOSE i \in Occurrences(f, k) : \A j \in Occurrences(f, k) : j <= i
    <3>1. f \in Seq(Lines) /\ Len(f) \in Nat /\ DOMAIN f = 1..Len(f)
      BY <2>2 DEF Occurrences, IsFile
    <3>2. Occurrences(f, k) \subseteq 1..Len(f)
      BY <3>1 DEF Occurrences
    <3>3. \E i \in Occurrences(f, k) : \A j \in Occurrences(f, k) : j <= i
      BY <2>2, <3>1, <3>2, HasMax
    <3>4. last \in 1..Len(f)
      BY <3>2, <3>3
    <3>5. f[last] \in Lines
      BY <3>1, <3>4
    <3> QED
      BY <2>2, <3>5 DEF Setting, Lines
  <2> QED
    BY <2>1, <2>2
<1> QED
  BY <1>1 DEF Settings

LEMMA ChangedTyped ==
    ASSUME NEW s \in [Keys -> Int], NEW d \in Changes
    PROVE Changed(s, d) \in [Keys -> Int]
<1>1. \A k \in Keys : Changed(s, d)[k] \in Int
  BY ChangedIs, ChangeTyped
<1> QED
  BY <1>1 DEF Changed

LEMMA TypeInit == Init => TypeOK
BY FilesAssumption, DefaultAssumption, FaultsAssumption
   DEF Init, TypeOK, IsFile, Loads, Consistent

\* What the types need of a step, given that the invariant holds after it.
LEMMA TypeFrame ==
    ASSUME TypeOK, Inv', loaded' \in [Keys -> Int], ram' \in [Keys -> Int],
           dirs' \in Changes \cup {<<>>}, replaced' \subseteq Keys,
           unsaved' \subseteq Keys, overrun' \subseteq Keys, NoFault \/ Fault
    PROVE TypeOK'
<1>1. faults' \in 0..MaxFaults
  BY FaultsAssumption DEF TypeOK, NoFault, Fault
<1>2. IsFile(cfg)' /\ IsFile(tmp)'
  BY DEF Inv, Typed, IsFile
<1> QED
  BY <1>1, <1>2 DEF TypeOK, Inv, Typed

LEMMA DirKeysTyped == ASSUME TypeOK PROVE DirKeys \subseteq Keys
BY ChangeTyped DEF TypeOK, DirKeys, KeysOf

LEMMA TypeStep == ASSUME Inv, TypeOK, [Next]_vars PROVE TypeOK'
<1>1. Inv'
  BY StepInv
<1>2. DirKeys \subseteq Keys /\ loaded \in [Keys -> Int] /\ ram \in [Keys -> Int]
  BY DirKeysTyped DEF TypeOK
<1>3. CASE BootStep
  <2>1. Settings(cfg) \in [Keys -> Int]
    BY SettingsTyped DEF TypeOK
  <2>2. /\ loaded' \in [Keys -> Int] /\ ram' \in [Keys -> Int]
        /\ unsaved' \subseteq Keys /\ overrun' \subseteq Keys
    BY <1>2, <1>3, <2>1, DefaultAssumption
       DEF BootStep, Load, HealUnlink, HealMove, Reopen, Apply, Read, EndLoad, TypeOK
  <2>3. NoFault \/ Fault
    BY <1>3 DEF BootStep, Load, HealUnlink, HealMove, Reopen, Apply, Read, NoFault
  <2>4. dirs' \in Changes \cup {<<>>} /\ replaced' \subseteq Keys
    BY <1>3, BootFiles DEF saveVars, TypeOK
  <2> QED
    BY <1>1, <2>2, <2>3, <2>4, TypeFrame
<1>5. CASE Command
  <2>1. PICK d \in Changes : /\ dirs' = d /\ ram' = Changed(ram, d)
                             /\ overrun' \in {overrun, overrun \cup KeysOf(d)}
    BY <1>5 DEF Command, KeysOf
  <2> QED
    BY <1>1, <1>2, <1>5, <2>1, ChangedTyped, ChangeTyped, TypeFrame
       DEF Command, bootVars, TypeOK, NoFault
<1>6. CASE SaveStep
  <2>1. loaded' = loaded /\ overrun' = overrun
    BY <1>6 DEF SaveStep, bootVars
  <2>2. CASE \E b \in BOOLEAN : Finish(b)
    <3>1. ram' = ram /\ dirs' = <<>> /\ replaced' = {} /\ unsaved' \subseteq Keys
      BY <1>2, <2>2 DEF Finish, TypeOK
    <3>2. NoFault \/ Fault
      BY <1>6 DEF SaveStep, OpenFiles, CopyLine, AppendLine, CloseFiles, UnlinkOld, ReplaceNew,
             RenameNew
    <3> QED
      BY <1>1, <1>2, <2>1, <3>1, <3>2, TypeFrame DEF TypeOK
  <2>3. CASE UNCHANGED <<dirs, ram, unsaved>> /\ (NoFault \/ Fault) /\ replaced' \subseteq replaced \cup DirKeys
    BY <1>1, <1>2, <2>1, <2>3, TypeFrame DEF TypeOK
  <2>4. \/ \E b \in BOOLEAN : Finish(b)
        \/ /\ UNCHANGED <<dirs, ram, unsaved>> /\ (NoFault \/ Fault)
           /\ replaced' \subseteq replaced \cup DirKeys
    <3>1. CASE OpenFiles \/ UnlinkOld \/ ReplaceNew \/ RenameNew
      BY <3>1 DEF OpenFiles, UnlinkOld, ReplaceNew, RenameNew, RewriteFailed, saveVars
    <3>2. CASE CopyLine \/ AppendLine
      BY <3>2 DEF CopyLine, AppendLine, RewriteFailed, saveVars, Marked, Absent, DirKeys
    <3>3. CASE CloseFiles
      BY <3>3 DEF CloseFiles, saveVars
    <3> QED
      BY <1>6, <3>1, <3>2, <3>3 DEF SaveStep
  <2> QED
    BY <2>2, <2>3, <2>4
<1>7. CASE Crash
  BY <1>1, <1>7, DefaultAssumption, TypeFrame DEF Crash, TypeOK
<1>8. CASE UNCHANGED vars
  BY <1>1, <1>2, <1>8, TypeFrame DEF vars, fileVars, bootVars, saveVars, TypeOK, NoFault
<1> QED
  BY <1>3, <1>5, <1>6, <1>7, <1>8 DEF Next

LEMMA BothKept == Spec => [](Inv /\ TypeOK)
<1>1. Inv /\ TypeOK /\ [Next]_vars => (Inv /\ TypeOK)'
  BY StepInv, TypeStep
<1> QED
  BY <1>1, InitInv, TypeInit, PTL DEF Spec

\* Whatever is copied, cut short or left behind, the files are files of lines,
\* and every variable keeps its type.
THEOREM TypesKept == Spec => []TypeOK
<1>1. Spec => [](Inv /\ TypeOK)
  BY BothKept
<1> QED
  BY <1>1, PTL

-----------------------------------------------------------------------------
(* What is saved is what is in use *)

\* A boot that is starting has read what is stored; a box that runs has it in
\* use, except for the directives of a save, which are in use already and
\* stored once the old file is unlinked.
Stored(k) == Setting(Loadable, k)
SavedInv ==
    hurt = {} =>
    /\ boot = "apply" =>
         /\ DirKeys \subseteq overrun
         /\ \A k \in Keys \ (unsaved \cup overrun) : loaded[k] = Stored(k)
    /\ boot = "run" =>
         /\ \A k \in Keys \ (unsaved \cup overrun \cup DirKeys) : ram[k] = Stored(k)
         /\ \A k \in DirKeys \ overrun : ram[k] = Val(dirs, k)
    /\ pc \in {"replace", "move"} => \A k \in DirKeys : Stored(k) = Val(dirs, k)

LEMMA SavedInit == Init => SavedInv
BY DEF Init, SavedInv

\* A step that leaves what is stored and in use, and the save where it is.
LEMMA SavedFrame ==
    ASSUME SavedInv, Loadable' = Loadable, UNCHANGED <<dirs, ram, unsaved, overrun, bootVars>>,
           hurt \subseteq hurt',
           pc' = pc \/ pc' \notin {"replace", "move"} \/ (pc = "replace" /\ pc' = "move")
    PROVE SavedInv'
<1>1. \A k : Stored(k)' = Stored(k)
  BY DEF Stored, Setting, Occurrences
<1>2. DirKeys' = DirKeys /\ dirs' = dirs
  BY DEF DirKeys
<1> QED
  BY <1>1, <1>2 DEF SavedInv, bootVars

\* The end of a save, with an error or with its directives stored.
LEMMA SavedFinish ==
    ASSUME SavedInv, Inv, TypeOK, Loadable' = Loadable, UNCHANGED <<overrun, bootVars, hurt>>,
           Finish(TRUE) \/ (pc = "move" /\ Finish(FALSE))
    PROVE SavedInv'
<1>1. /\ DirKeys' = {} /\ pc' = "idle" /\ ram' = ram /\ boot' = boot /\ loaded' = loaded
      /\ overrun' = overrun /\ hurt' = hurt
  BY DEF Finish, Goto, DirKeys, bootVars
<1>2. DirKeys \subseteq Keys
  BY DirKeysTyped
<1>3. \A k : Stored(k)' = Stored(k)
  BY DEF Stored, Setting, Occurrences
<1>4. CASE unsaved' = unsaved \cup DirKeys
  BY <1>1, <1>2, <1>3, <1>4 DEF SavedInv
<1>5. CASE pc = "move" /\ unsaved' = unsaved \ DirKeys
  <2>1. hurt = {} => \A k \in DirKeys : Stored(k) = Val(dirs, k)
    BY <1>5 DEF SavedInv
  <2> QED
    BY <1>1, <1>2, <1>3, <1>5, <2>1 DEF SavedInv
<1> QED
  BY <1>4, <1>5 DEF Finish

LEMMA SavedBoot == ASSUME Inv, SavedInv, BootStep, hurt' = {} PROVE SavedInv'
<1>1. /\ hurt = {} /\ Loadable' = Loadable
      /\ DirKeys' = DirKeys /\ pc' = pc /\ dirs' = dirs
  BY BootFiles DEF saveVars, DirKeys
<1>2. \A k : Stored(k)' = Stored(k)
  BY <1>1 DEF Stored, Setting, Occurrences
<1>3. CASE \E found \in BOOLEAN : EndLoad(found) /\ (found => cfg # NoFile)
  <2>1. boot' = "apply" /\ overrun' = DirKeys
    BY <1>3 DEF EndLoad
  <2>2. unsaved' = Keys \/ \A k \in Keys : loaded'[k] = Stored(k)
    BY <1>3 DEF EndLoad, Settings, Stored, Loadable
  <2> QED
    BY <1>1, <1>2, <2>1, <2>2 DEF SavedInv
<1>4. CASE Apply
  <2>1. /\ boot = "apply" /\ boot' = "run" /\ ram' = loaded
        /\ unsaved' = unsaved /\ overrun' = overrun
    BY <1>4 DEF Apply
  <2> QED
    BY <1>1, <1>2, <2>1 DEF SavedInv
<1>5. CASE boot' \in {"heal", "move", "reopen"}
  BY <1>1, <1>2, <1>5 DEF SavedInv
<1>6. Loads(cfg) \in BOOLEAN /\ (Loads(cfg) => cfg # NoFile)
  BY NothingThere DEF Loads, Consistent
<1> QED
  BY <1>3, <1>4, <1>5, <1>6 DEF BootStep, Load, HealUnlink, HealMove, Reopen, Read

LEMMA SavedCommand == Inv /\ SavedInv /\ Command => SavedInv'
<1> SUFFICES ASSUME Inv, SavedInv, Command PROVE SavedInv'
  OBVIOUS
<1>1. PICK d \in Changes :
        /\ dirs' = d /\ ram' = Changed(ram, d)
        /\ overrun' = IF boot = "apply" THEN overrun \cup KeysOf(d) ELSE overrun
  BY DEF Command, KeysOf
<1>2. /\ DirKeys = {} /\ DirKeys' = KeysOf(d) /\ pc' = "open"
      /\ boot' = boot /\ loaded' = loaded /\ unsaved' = unsaved /\ Loadable' = Loadable
      /\ hurt' = hurt
  BY <1>1 DEF Inv, Saving, Command, Goto, DirKeys, KeysOf, bootVars, fileVars, Loadable
<1>3. \A k : Stored(k)' = Stored(k)
  BY <1>2 DEF Stored, Setting, Occurrences
<1>4. KeysOf(d) \subseteq Keys
  BY ChangeTyped
<1>5. \A k \in Keys : ram'[k] = IF k \in KeysOf(d) THEN Val(d, k) ELSE ram[k]
  BY <1>1, ChangedIs
<1>6. CASE boot = "apply"
  BY <1>1, <1>2, <1>3, <1>6 DEF SavedInv
<1>7. CASE boot # "apply"
  BY <1>1, <1>2, <1>3, <1>4, <1>5, <1>7 DEF SavedInv
<1> QED
  BY <1>6, <1>7

LEMMA SavedUnlink ==
    ASSUME Inv, TypeOK, SavedInv, pc = "unlink", hurt = {}, cfg' = NoFile, Goto("replace"),
           UNCHANGED <<tmp, saveVars, ram, unsaved, overrun, bootVars, hurt>>
    PROVE SavedInv'
<1>1. /\ cfg # NoFile /\ dirs \in Changes
  BY DEF Inv, BothFiles, Saving
<1>2. Loadable = cfg /\ Loadable' = tmp /\ dirs' = dirs /\ DirKeys' = DirKeys /\ DirKeys = KeysOf(dirs)
  BY <1>1 DEF Loadable, saveVars, DirKeys, KeysOf
<1>3. Settings(tmp) = Changed(Settings(cfg), dirs)
  BY Unlinked
<1>4. \A k \in Keys : Stored(k)' = IF k \in KeysOf(dirs) THEN Val(dirs, k) ELSE Stored(k)
  <2>1. \A k \in Keys : Settings(cfg)[k] = Setting(cfg, k) /\ Settings(tmp)[k] = Setting(tmp, k)
    BY DEF Settings
  <2>2. \A k : Stored(k)' = Setting(tmp, k) /\ Stored(k) = Setting(cfg, k)
    BY <1>2 DEF Stored, Setting, Occurrences
  <2> QED
    BY <1>3, <2>1, <2>2, ChangedIs
<1>5. DirKeys \subseteq Keys
  BY DirKeysTyped
<1> QED
  BY <1>2, <1>4, <1>5 DEF SavedInv, bootVars, Goto

LEMMA SavedSave ==
    ASSUME Inv, TypeOK, SavedInv, SaveStep, hurt' = {}
    PROVE SavedInv'
<1>1. UNCHANGED <<bootVars, overrun>>
  BY DEF SaveStep
<1>9. UNCHANGED hurt
  BY DEF SaveStep, CloseFiles
<1>2. CASE UnlinkOld /\ cfg' = NoFile /\ Goto("replace") /\ UNCHANGED <<tmp, saveVars, ram, unsaved>>
  BY <1>1, <1>2, <1>9, SavedUnlink DEF UnlinkOld
<1>3. CASE Loadable' = Loadable /\ (Finish(TRUE) \/ (pc = "move" /\ Finish(FALSE)))
  BY <1>1, <1>3, <1>9, SavedFinish
<1>4. CASE /\ Loadable' = Loadable /\ UNCHANGED <<dirs, ram, unsaved>>
           /\ pc' = pc \/ pc' \notin {"replace", "move"} \/ (pc = "replace" /\ pc' = "move")
  BY <1>1, <1>4, <1>9, SavedFrame
<1>5. CASE OpenFiles
  BY <1>3, <1>4, <1>5 DEF OpenFiles, Loadable, fileVars, saveVars, Goto
<1>6. CASE CopyLine \/ AppendLine \/ CloseFiles
  <2>1. cfg # NoFile
    BY <1>6 DEF Inv, BothFiles, CopyLine, AppendLine, CloseFiles
  <2> QED
    BY <1>3, <1>4, <1>6, <2>1
       DEF CopyLine, AppendLine, CloseFiles, RewriteFailed, Loadable, fileVars, saveVars, Goto
<1>7. CASE UnlinkOld
  <2>1. cfg # NoFile
    BY <1>7 DEF Inv, BothFiles, UnlinkOld
  <2> QED
    BY <1>2, <1>3, <1>7, <2>1 DEF UnlinkOld, RewriteFailed, Loadable
<1>8. CASE ReplaceNew \/ RenameNew
  <2>1. pc = "replace" => cfg = NoFile
    BY <1>9 DEF Inv, Renaming
  <2>2. Loadable' = Loadable
    BY <1>8, <2>1 DEF ReplaceNew, RenameNew, CanMove, Move, Loadable, fileVars
  <2> QED
    BY <1>3, <1>4, <1>8, <2>2 DEF ReplaceNew, RenameNew, saveVars, Goto
<1> QED
  BY <1>5, <1>6, <1>7, <1>8 DEF SaveStep

LEMMA SavedStep == ASSUME Inv, TypeOK, SavedInv, [Next]_vars PROVE SavedInv'
<1>1. CASE hurt' # {}
  BY <1>1 DEF SavedInv
<1>2. CASE UNCHANGED vars
  BY <1>2, SavedFrame DEF vars, fileVars, bootVars, saveVars, Loadable
<1>3. CASE Crash
  BY <1>3 DEF Crash, SavedInv, Goto
<1> QED
  BY <1>1, <1>2, <1>3, SavedBoot, SavedCommand, SavedSave DEF Next

\* A setting that was loaded or saved without an error is in use as it is
\* stored, for all files and changes, except where the change met a boot in
\* progress or the file has been hurt.
THEOREM SavedAsUsed == Spec => []SavedIsStored
<1>1. Inv /\ SavedInv => SavedIsStored
  BY DEF Inv, Saving, SavedInv, SavedIsStored, Stored, DirKeys
<1>2. Inv /\ TypeOK /\ SavedInv /\ [Next]_vars => SavedInv'
  BY SavedStep
<1>3. Spec => [](Inv /\ TypeOK)
  BY BothKept
<1> QED
  BY <1>1, <1>2, <1>3, SavedInit, PTL DEF Spec

-----------------------------------------------------------------------------
(* What a save is not about stays where it is *)

\* The lines of f whose key is not in ks, after the first n lines.
OthersAfter(g, f, ks) ==
    /\ g[0] = <<>>
    /\ \A n \in 1..Len(f) :
         g[n] = IF f[n].key \in ks THEN g[n - 1] ELSE Append(g[n - 1], f[n])

\* Files that start alike are read alike.
LEMMA OthersAgree ==
    ASSUME NEW f \in Seq(Lines), NEW e \in Seq(Lines), NEW ks, NEW g, NEW h,
           OthersAfter(g, f, ks), OthersAfter(h, e, ks),
           NEW N \in Nat, N <= Len(f), N <= Len(e), \A n \in 1..N : f[n] = e[n]
    PROVE  \A n \in 0..N : g[n] = h[n]
<1>1. g[0] = h[0]
  BY DEF OthersAfter
<1>2. ASSUME NEW n \in 1..N, g[n - 1] = h[n - 1] PROVE g[n] = h[n]
  <2>1. n \in 1..Len(f) /\ n \in 1..Len(e) /\ f[n] = e[n]
    OBVIOUS
  <2> QED
    BY <1>2, <2>1 DEF OthersAfter
<1>3. Alike(g, h, N)
  BY <1>1, <1>2 DEF Alike
<1>4. Agree(g, h, N)
  BY <1>3, Agreement
<1> QED
  BY <1>4 DEF Agree

LEMMA OthersExist ==
    ASSUME NEW f \in Seq(Lines), NEW ks
    PROVE  \E g \in [0..Len(f) -> Seq(Lines)] :
             OthersAfter(g, f, ks) /\ OtherLines(f, ks) = g[Len(f)]
<1> DEFINE N == Len(f)
           V == Seq(Lines)
           F == [p \in (1..N) \X V |->
                   IF f[p[1]].key \in ks THEN p[2] ELSE Append(p[2], f[p[1]])]
           others == CHOOSE g : g = [n \in 0..Len(f) |->
                       IF n = 0 THEN <<>>
                       ELSE IF f[n].key \in ks THEN g[n - 1] ELSE Append(g[n - 1], f[n])]
<1>1. N \in Nat /\ <<>> \in V
  OBVIOUS
<1>2. F \in [(1..N) \X V -> V]
  OBVIOUS
<1>3. PICK g \in [0..N -> V] : g[0] = <<>> /\ \A n \in 1..N : g[n] = F[<<n, g[n - 1]>>]
  <2>1. \E g \in [0..N -> V] : Follows(g, N, <<>>, F)
    <3> HIDE DEF F, V, N, others
    <3> QED
      BY <1>1, <1>2, RecursionExists, Zenon
  <2> QED
    BY <2>1 DEF Follows
<1>4. g[0] = <<>>
  BY <1>3
<1>5. ASSUME NEW n \in 1..N
      PROVE  g[n] = IF f[n].key \in ks THEN g[n - 1] ELSE Append(g[n - 1], f[n])
  <2>1. n \in 0..N /\ n - 1 \in 0..N /\ n # 0
    <3> HIDE DEF N
    <3> QED
      BY <1>1
  <2>2. g[n - 1] \in V
    <3> HIDE DEF F, V, N
    <3> QED
      BY <2>1
  <2>3. g[n] = F[<<n, g[n - 1]>>]
    <3> HIDE DEF F, V, N
    <3> QED
      BY <1>3, <2>1
  <2>4. <<n, g[n - 1]>> \in (1..N) \X V
    <3> HIDE DEF F, V, N
    <3> QED
      BY <2>2
  <2>5. F[<<n, g[n - 1]>>] = IF f[n].key \in ks THEN g[n - 1] ELSE Append(g[n - 1], f[n])
    <3> HIDE DEF V, N
    <3> QED
      BY <2>4
  <2> QED
    BY <2>3, <2>5
<1>6. g = [n \in 0..Len(f) |->
             IF n = 0 THEN <<>>
             ELSE IF f[n].key \in ks THEN g[n - 1] ELSE Append(g[n - 1], f[n])]
  <2>1. ASSUME NEW n \in 0..N
        PROVE  g[n] = IF n = 0 THEN <<>>
                      ELSE IF f[n].key \in ks THEN g[n - 1] ELSE Append(g[n - 1], f[n])
    <3> HIDE DEF F, V, N
    <3>1. n # 0 => n \in 1..N
      BY <1>1
    <3> QED
      BY <1>4, <1>5, <3>1
  <2> HIDE DEF F, V
  <2> QED
    BY <2>1
<1>7. others = [n \in 0..Len(f) |->
                  IF n = 0 THEN <<>>
                  ELSE IF f[n].key \in ks THEN others[n - 1] ELSE Append(others[n - 1], f[n])]
  BY <1>6
<1>8. OtherLines(f, ks) = others[N]
  BY DEF OtherLines
<1> HIDE DEF others, F, V
<1>9. others[0] = <<>>
  BY <1>1, <1>7
<1>10. ASSUME NEW n \in 1..N
       PROVE  others[n] = IF f[n].key \in ks THEN others[n - 1] ELSE Append(others[n - 1], f[n])
  <2>1. n \in 0..Len(f) /\ n # 0
    BY <1>1
  <2> QED
    BY <1>7, <2>1
<1>11. OthersAfter(others, f, ks)
  BY <1>9, <1>10 DEF OthersAfter
<1>12. \A n \in 0..N : others[n] = g[n]
  <2>1. OthersAfter(g, f, ks)
    BY <1>4, <1>5 DEF OthersAfter
  <2>2. ASSUME NEW M \in Nat, M = Len(f) PROVE \A n \in 0..M : others[n] = g[n]
    BY <1>11, <2>1, <2>2, OthersAgree
  <2> QED
    BY <1>1, <2>2
<1>13. others = g
  <2>1. g = [n \in 0..N |-> g[n]]
    OBVIOUS
  <2>2. others = [n \in 0..N |-> others[n]]
    BY <1>7
  <2> HIDE DEF N
  <2> QED
    BY <1>12, <2>1, <2>2
<1> QED
  BY <1>8, <1>11, <1>13 DEF V

\* A line appended is kept last, or not at all.
LEMMA OthersGrow ==
    ASSUME NEW f \in Seq(Lines), NEW l \in Lines, NEW ks
    PROVE  /\ OtherLines(f, ks) \in Seq(Lines)
           /\ OtherLines(Append(f, l), ks) =
                IF l.key \in ks THEN OtherLines(f, ks) ELSE Append(OtherLines(f, ks), l)
<1> DEFINE e == Append(f, l)
<1>1. /\ e \in Seq(Lines) /\ Len(e) = Len(f) + 1 /\ Len(f) \in Nat
      /\ \A n \in 1..Len(f) : e[n] = f[n]
      /\ e[Len(f) + 1] = l
  OBVIOUS
<1> HIDE DEF e
<1>2. PICK g \in [0..Len(f) -> Seq(Lines)] :
        OthersAfter(g, f, ks) /\ OtherLines(f, ks) = g[Len(f)]
  BY OthersExist
<1>3. PICK h \in [0..Len(e) -> Seq(Lines)] :
        OthersAfter(h, e, ks) /\ OtherLines(e, ks) = h[Len(e)]
  BY <1>1, OthersExist
<1>4. \A n \in 0..Len(f) : g[n] = h[n]
  <2>1. ASSUME NEW M \in Nat, M = Len(f) PROVE \A n \in 0..M : g[n] = h[n]
    <3>1. M <= Len(f) /\ M <= Len(e) /\ \A n \in 1..M : f[n] = e[n]
      BY <1>1, <2>1
    <3> QED
      BY <1>1, <1>2, <1>3, <3>1, OthersAgree
  <2> QED
    BY <1>1, <2>1
<1>5. h[Len(f) + 1] = IF l.key \in ks THEN h[Len(f)] ELSE Append(h[Len(f)], l)
  <2>1. Len(f) + 1 \in 1..Len(e) /\ (Len(f) + 1) - 1 = Len(f)
    BY <1>1
  <2> QED
    BY <1>1, <1>3, <2>1 DEF OthersAfter
<1>6. g[Len(f)] = h[Len(f)] /\ g[Len(f)] \in Seq(Lines)
  BY <1>1, <1>4
<1> QED
  BY <1>1, <1>2, <1>3, <1>5, <1>6 DEF e

\* What a save has copied so far.
OthersInv ==
    /\ pc = "copy" =>
         OtherLines(tmp, DirKeys) = OtherLines(SubSeq(cfg, 1, line - 1), DirKeys)
    /\ pc \in {"append", "close"} \/ (pc = "unlink" /\ "close" \notin hurt) =>
         OtherLines(tmp, DirKeys) = OtherLines(cfg, DirKeys)

LEMMA OthersInit == Init => OthersInv
BY DEF Init, OthersInv

\* A step that does not copy leaves the files, or is of no save that does.
LEMMA OthersFrame ==
    ASSUME OthersInv,
           \/ pc' \notin {"copy", "append", "close", "unlink"}
           \/ pc' = "unlink" /\ "close" \in hurt'
           \/ /\ UNCHANGED <<fileVars, dirs, line>> /\ hurt \subseteq hurt'
              /\ \/ pc' = pc
                 \/ pc \in {"append", "close"} /\ pc' \in {"close", "unlink"}
    PROVE OthersInv'
BY DEF OthersInv, fileVars, DirKeys

LEMMA OthersOpen == ASSUME Inv, OthersInv, OpenFiles PROVE OthersInv'
<1>1. CASE tmp' = <<>> /\ Goto("copy") /\ UNCHANGED <<cfg, saveVars>> /\ cfg # NoFile
  <2>1. line = 1 /\ cfg \in Seq(Lines)
    BY <1>1 DEF OpenFiles, Inv, Copied, Typed
  <2>2. SubSeq(cfg, 1, line - 1) = <<>>
    BY <2>1
  <2>3. /\ pc' = "copy" /\ tmp' = SubSeq(cfg, 1, line - 1)
        /\ DirKeys' = DirKeys /\ cfg' = cfg /\ line' = line
    BY <1>1, <2>2 DEF Goto, saveVars, DirKeys
  <2> QED
    BY <2>3 DEF OthersInv
<1>2. CASE Finish(TRUE)
  BY <1>2, OthersFrame DEF Finish, Goto
<1> QED
  BY <1>1, <1>2 DEF OpenFiles

LEMMA OthersCopy == ASSUME Inv, OthersInv, CopyLine PROVE OthersInv'
<1>1. /\ pc = "copy" /\ cfg \in Seq(Lines) /\ tmp \in Seq(Lines)
      /\ line \in Nat \ {0} /\ line <= Len(cfg) + 1 /\ Len(cfg) \in Nat /\ dirs \in Changes
  BY DEF Inv, Typed, Saving, BothFiles, Renaming, Copied, CopyLine
<1>2. CASE /\ line <= Len(cfg)
           /\ tmp' = tmp \o Output(cfg[line])
           /\ line' = line + 1
           /\ UNCHANGED <<cfg, dirs, pc>>
  <2> DEFINE f == SubSeq(cfg, 1, line - 1)
             l == cfg[line]
  <2>1. f \in Seq(Lines) /\ l \in Lines /\ SubSeq(cfg, 1, line) = Append(f, l)
    <3>1. line \in 1..Len(cfg)
      BY <1>1, <1>2
    <3> QED
      BY <1>1, <3>1, ReadSoFar
  <2>2. OtherLines(tmp, DirKeys) = OtherLines(f, DirKeys)
    BY <1>1 DEF OthersInv
  <2> HIDE DEF f, l
  <2>3. /\ OtherLines(f, DirKeys) \in Seq(Lines)
        /\ OtherLines(Append(f, l), DirKeys) =
             IF l.key \in DirKeys THEN OtherLines(f, DirKeys)
                                  ELSE Append(OtherLines(f, DirKeys), l)
    BY <2>1, OthersGrow
  <2>4. OtherLines(tmp', DirKeys) = OtherLines(Append(f, l), DirKeys)
    <3>1. CASE l.key \in DirKeys
      <4> DEFINE m == Line(l.key, Changed(ram, dirs)[l.key])
      <4>1. l.key \in KeysOf(dirs) /\ l.key \in Keys
        BY <1>1, <3>1, ChangeTyped DEF DirKeys, KeysOf
      <4>2. Changed(ram, dirs)[l.key] \in Int
        BY <1>1, <4>1, ChangedIs, ChangeTyped
      <4>3. m \in Lines /\ m.key = l.key
        BY <2>1, <4>2 DEF Lines, Line
      <4>4. tmp' = tmp \o <<m>> \/ tmp' = tmp \o <<>>
        BY <1>2, <3>1 DEF Output, NewLine, l
      <4> HIDE DEF m
      <4>5. tmp' = Append(tmp, m) \/ tmp' = tmp
        BY <1>1, <4>3, <4>4
      <4>6. OtherLines(Append(tmp, m), DirKeys) = OtherLines(tmp, DirKeys)
        BY <1>1, <3>1, <4>3, OthersGrow
      <4> QED
        BY <2>2, <2>3, <3>1, <4>5, <4>6
    <3>2. CASE l.key \notin DirKeys
      <4>1. tmp' = tmp \o <<l>>
        BY <1>2, <3>2 DEF Output, l
      <4>2. tmp' = Append(tmp, l)
        BY <1>1, <2>1, <4>1
      <4>3. OtherLines(Append(tmp, l), DirKeys) = Append(OtherLines(tmp, DirKeys), l)
        BY <1>1, <2>1, <3>2, OthersGrow
      <4> QED
        BY <2>2, <2>3, <3>2, <4>2, <4>3
    <3> QED
      BY <3>1, <3>2
  <2>5. line' - 1 = line /\ cfg' = cfg /\ DirKeys' = DirKeys /\ pc' = "copy"
    BY <1>1, <1>2 DEF DirKeys
  <2> QED
    BY <2>1, <2>4, <2>5 DEF OthersInv
<1>3. CASE line > Len(cfg) /\ Goto("append") /\ UNCHANGED <<fileVars, saveVars>>
  <2>1. SubSeq(cfg, 1, line - 1) = cfg
    BY <1>1, <1>3
  <2> QED
    BY <1>1, <1>3, <2>1 DEF OthersInv, Goto, fileVars, saveVars, DirKeys
<1>4. CASE Finish(TRUE)
  BY <1>4, OthersFrame DEF Finish, Goto
<1> QED
  BY <1>2, <1>3, <1>4 DEF CopyLine, RewriteFailed

LEMMA OthersAppend == ASSUME Inv, OthersInv, AppendLine PROVE OthersInv'
<1>1. /\ pc = "append" /\ tmp \in Seq(Lines) /\ dirs \in Changes
  BY DEF Inv, Typed, Saving, BothFiles, AppendLine
<1>2. CASE \E i \in Absent :
             /\ tmp' = Append(tmp, Line(dirs[i].key, dirs[i].val))
             /\ UNCHANGED <<cfg, dirs, line, pc>>
  <2>1. PICK i \in DOMAIN dirs :
             /\ tmp' = Append(tmp, Line(dirs[i].key, dirs[i].val))
             /\ UNCHANGED <<cfg, dirs, line, pc>>
    BY <1>2 DEF Absent
  <2> DEFINE m == Line(dirs[i].key, dirs[i].val)
  <2>2. m \in Lines /\ m.key \in DirKeys
    BY <1>1, ChangeTyped, DefaultAssumption DEF Lines, Line, DirKeys
  <2> HIDE DEF m
  <2>3. OtherLines(Append(tmp, m), DirKeys) = OtherLines(tmp, DirKeys)
    BY <1>1, <2>2, OthersGrow
  <2>4. tmp' = Append(tmp, m) /\ cfg' = cfg /\ DirKeys' = DirKeys /\ pc' = "append"
    BY <1>1, <2>1 DEF m, DirKeys
  <2> QED
    BY <1>1, <2>3, <2>4 DEF OthersInv
<1>3. CASE Goto("close") /\ UNCHANGED <<fileVars, saveVars>>
  BY <1>1, <1>3 DEF OthersInv, DirKeys, Goto, fileVars, saveVars
<1>4. CASE Finish(TRUE)
  BY <1>4, OthersFrame DEF Finish, Goto
<1> QED
  BY <1>2, <1>3, <1>4 DEF AppendLine, RewriteFailed

LEMMA OthersStep == ASSUME Inv, OthersInv, [Next]_vars PROVE OthersInv'
<1>1. CASE UNCHANGED vars
  BY <1>1, OthersFrame DEF vars, fileVars, saveVars
<1>2. CASE BootStep
  BY <1>2, BootFiles, OthersFrame DEF saveVars
<1>4. CASE Command \/ Crash
  BY <1>4, OthersFrame DEF Command, Crash, Goto
<1>5. CASE CloseFiles
  <2>1. pc' = "unlink"
    BY <1>5 DEF CloseFiles, Goto
  <2> QED
    BY <1>5, <2>1, OthersFrame DEF CloseFiles, fileVars, saveVars
<1>6. CASE UnlinkOld
  BY <1>6, OthersFrame DEF UnlinkOld, RewriteFailed, Finish, Goto
<1>7. CASE ReplaceNew \/ RenameNew
  BY <1>7, OthersFrame DEF ReplaceNew, RenameNew, Finish, Goto
<1> QED
  BY <1>1, <1>2, <1>4, <1>5, <1>6, <1>7, OthersOpen, OthersCopy, OthersAppend
  DEF Next, SaveStep

\* A save of any change to any file leaves every line it is not about, comments
\* included, in its order, unless closing its file failed (save_directives(),
\* emit_line()).
THEOREM LeavesOthers == Spec => []OthersUntouched
<1>1. OthersInv => OthersUntouched
  BY DEF OthersInv, OthersUntouched
<1>2. Inv /\ OthersInv /\ [Next]_vars => OthersInv'
  BY OthersStep
<1>3. Spec => [](Inv /\ TypeOK)
  BY BothKept
<1> QED
  BY <1>1, <1>2, <1>3, OthersInit, PTL DEF Spec
=============================================================================
