--------------------------- MODULE UpdaterProofs ---------------------------
(***************************************************************************)
(* Theorems about Updater, for every set of images, every length of image  *)
(* and partition, and any number of faults.                                *)
(***************************************************************************)
EXTENDS Updater, TLAPS

SomeWhole == \E i \in Images : Whole(i)

-----------------------------------------------------------------------------
(* Recovery, whatever fails *)

\* Why the region is always recoverable: it is touched only under a valid
\* file, the file goes only from a verified region, and only a whole image
\* receives uploads.
RecoveryInv ==
    /\ TypeOK
    /\ pc \in {"erase", "write", "verify"} => Valid
    /\ pc \in {"erase", "write"} => page <= Size[staged]
    /\ pc = "unlink" => Valid /\ Whole(staged)
    /\ pc = "app" /\ running \in Images => SomeWhole
    /\ pc # "app" => running = NoImage
    /\ Valid \/ SomeWhole

LEMMA RecoveryInit == Init => RecoveryInv
<1> SUFFICES ASSUME Init PROVE RecoveryInv
  OBVIOUS
<1>1. PICK i \in Images :
        Fits(i) /\ flash = [p \in PageNumbers |-> IF p <= Size[i] THEN i ELSE Erased]
  BY DEF Init
<1>2. Size[i] \in Nat /\ Size[i] <= AppPages
  BY <1>1, SizeAssumption DEF Fits
<1>3. Whole(i)
  BY <1>1, <1>2, PagesAssumption DEF Whole, PageNumbers
<1>4. TypeOK
  <2>1. /\ flash \in [PageNumbers -> Images \cup {Erased, Torn}]
        /\ page \in PageNumbers /\ faults \in 0..MaxFaults
    BY <1>1, PagesAssumption, FaultsAssumption DEF Init, PageNumbers
  <2>2. card_failed \in BOOLEAN
    BY DEF Init
  <2> QED
    BY <2>1, <2>2 DEF Init, TypeOK
<1> QED
  BY <1>3, <1>4 DEF Init, RecoveryInv, SomeWhole

\* Every step keeps the types of the fault counter and the history variable.
LEMMA CardFlagOK ==
    ASSUME TypeOK, [Next]_vars
    PROVE  card_failed' \in BOOLEAN /\ faults' \in 0..MaxFaults
<1> USE DEF NoFault, CountFault, FlashFault, CardFault, Restart, Failed
<1>1. card_failed' = card_failed \/ card_failed' = TRUE \/ card_failed' = FALSE
  BY DEF Next, vars, UpdaterStep, MountSd, CheckStaged, ErasePage, WritePage, Verify, Unlink,
         Jump, BeginUpload, EndUpload, Reset, PowerLoss
<1>2. faults' = faults \/ (faults < MaxFaults /\ faults' = faults + 1)
  BY DEF Next, vars, UpdaterStep, MountSd, CheckStaged, ErasePage, WritePage, Verify, Unlink,
         Jump, BeginUpload, EndUpload, Reset, PowerLoss
<1>3. card_failed' \in BOOLEAN
  BY <1>1, Zenon DEF TypeOK
<1>4. faults' \in 0..MaxFaults
  BY <1>2, FaultsAssumption DEF TypeOK
<1> QED
  BY <1>3, <1>4

\* The steps that leave the region and the file alone.
LEMMA Untouched ==
    ASSUME RecoveryInv, UNCHANGED <<flash, staged>>
    PROVE  /\ Valid' = Valid
           /\ \A i \in Images : Whole(i)' = Whole(i)
           /\ SomeWhole' = SomeWhole
  BY DEF Valid, Whole, SomeWhole, Fits

LEMMA RecoveryStep == RecoveryInv /\ [Next]_vars => RecoveryInv'
<1> SUFFICES ASSUME RecoveryInv, [Next]_vars PROVE RecoveryInv'
  OBVIOUS
<1>0. /\ TypeOK /\ AppPages \in Nat \ {0}
      /\ card_failed' \in BOOLEAN /\ faults' \in 0..MaxFaults
  BY PagesAssumption, CardFlagOK DEF RecoveryInv
<1>1. CASE MountSd
  <2>1. UNCHANGED <<flash, staged, page, running>> /\ pc = "boot" /\ pc' \in {"check", "jump"}
    BY <1>0, <1>1 DEF MountSd, Goto
  <2> QED
    BY <1>0, <2>1, Untouched DEF RecoveryInv, TypeOK
<1>2. CASE CheckStaged
  <2>1. /\ UNCHANGED <<flash, staged, running>> /\ pc = "check" /\ page' = 1
        /\ (pc' = "erase" /\ Valid) \/ pc' = "jump"
    BY <1>0, <1>2 DEF CheckStaged, Goto
  <2>2. page' \in PageNumbers /\ (Valid => page' <= Size[staged'])
    BY <1>0, <2>1, SizeAssumption DEF PageNumbers, Valid
  <2> QED
    BY <1>0, <2>1, <2>2, Untouched DEF RecoveryInv, TypeOK
<1>3. CASE ErasePage \/ WritePage
  <2>1. /\ UNCHANGED <<staged, running>> /\ pc \in {"erase", "write"} /\ Valid
        /\ pc' \in {"erase", "write", "verify", "boot"}
    BY <1>0, <1>3 DEF ErasePage, WritePage, Goto, Failed, Restart, RecoveryInv
  <2>2. Valid'
    BY <2>1 DEF Valid, Fits
  <2>3. flash' \in [PageNumbers -> Images \cup {Erased, Torn}]
    BY <1>0, <1>3, <2>1 DEF ErasePage, WritePage, LastPage, TypeOK, Valid
  <2>4. page' \in PageNumbers /\ page' <= Size[staged']
    <3>1. /\ Size[staged] \in Nat /\ 1 <= Size[staged] /\ Size[staged] <= AppPages
          /\ page \in Nat /\ 1 <= page /\ page <= Size[staged]
      BY <1>0, <2>1, SizeAssumption DEF Valid, Fits, RecoveryInv, TypeOK, PageNumbers
    <3>2. page' = 1 \/ page' = page \/ (page # Size[staged] /\ page' = page + 1)
      BY <1>3 DEF ErasePage, WritePage, LastPage
    <3> QED
      BY <1>0, <2>1, <3>1, <3>2 DEF PageNumbers
  <2> QED
    BY <1>0, <2>1, <2>2, <2>3, <2>4 DEF RecoveryInv, TypeOK
<1>4. CASE Verify
  <2>1. /\ UNCHANGED <<flash, staged, page, running>> /\ pc = "verify"
        /\ (pc' = "unlink" /\ Whole(staged)) \/ pc' = "boot"
    BY <1>0, <1>4 DEF Verify, Verified, Failed, Restart, Goto
  <2> QED
    BY <1>0, <2>1, Untouched DEF RecoveryInv, TypeOK, Valid
<1>5. CASE Unlink
  <2>1. /\ UNCHANGED <<flash, page, running>> /\ pc = "unlink" /\ pc' = "jump"
        /\ staged' \in {NoImage, staged}
    BY <1>0, <1>5 DEF Unlink, Goto
  <2>2. SomeWhole /\ SomeWhole'
    BY <2>1 DEF RecoveryInv, SomeWhole, Valid, Whole, Fits
  <2> QED
    BY <1>0, <2>1, <2>2 DEF RecoveryInv, TypeOK
<1>6. CASE Jump
  <2>1. /\ UNCHANGED <<flash, staged, faults>> /\ pc = "jump" /\ pc' = "app" /\ page' = 1
        /\ \/ running' \in Images /\ SomeWhole
           \/ running' = Broken
    BY <1>6 DEF Jump, Goto, SomeWhole
  <2>2. page' \in PageNumbers
    BY <1>0, <2>1 DEF PageNumbers
  <2> QED
    BY <1>0, <2>1, <2>2, Untouched, ValuesAssumption DEF RecoveryInv, TypeOK
<1>7. CASE BeginUpload \/ EndUpload
  <2>1. /\ UNCHANGED <<flash, pc, page, running, card_failed, faults>> /\ pc = "app" /\ SomeWhole
        /\ staged' \in Images \cup {Corrupt}
    BY <1>7 DEF BeginUpload, EndUpload, RecoveryInv
  <2>2. SomeWhole'
    BY <2>1 DEF SomeWhole, Whole
  <2> QED
    BY <1>0, <2>1, <2>2 DEF RecoveryInv, TypeOK
<1>8. CASE Reset
  <2>1. /\ UNCHANGED <<flash, staged, page, faults>> /\ pc = "app" /\ pc' = "boot"
        /\ running' = NoImage
    BY <1>8 DEF Reset, Restart, Goto
  <2> QED
    BY <1>0, <2>1, Untouched DEF RecoveryInv, TypeOK
<1>9. CASE PowerLoss
  <2>1. /\ UNCHANGED <<staged, running>> /\ pc # "app" /\ pc' = "boot" /\ page' = 1
        /\ flash' = flash \/ pc \in {"erase", "write"}
    BY <1>0, <1>9 DEF PowerLoss, Restart, Goto
  <2>2. flash' \in [PageNumbers -> Images \cup {Erased, Torn}] /\ page' \in PageNumbers
    BY <1>0, <1>9, <2>1 DEF PowerLoss, TypeOK, PageNumbers
  <2>3. Valid' = Valid
    BY <2>1 DEF Valid, Fits
  <2>4. Valid' \/ SomeWhole'
    BY <2>1, <2>3, Untouched DEF RecoveryInv
  <2> QED
    BY <1>0, <2>1, <2>2, <2>4 DEF RecoveryInv, TypeOK
<1>10. CASE UNCHANGED vars
  <2>1. UNCHANGED <<flash, staged, pc, page, running, faults>>
    BY <1>10 DEF vars
  <2> QED
    BY <1>0, <2>1, Untouched DEF RecoveryInv, TypeOK, Valid
<1> QED
  BY <1>1, <1>2, <1>3, <1>4, <1>5, <1>6, <1>7, <1>8, <1>9, <1>10 DEF Next, UpdaterStep

LEMMA RecoveryCorrect == Spec => []RecoveryInv
  BY RecoveryInit, RecoveryStep, PTL DEF Spec

\* Whatever fails and whenever power is lost, the region holds a whole image
\* or a valid file is there to rewrite it (apply_staged_image()'s commit point
\* and its late unlink).
THEOREM AlwaysRecoverable == Spec => []Recoverable
<1>1. RecoveryInv => Recoverable
  BY DEF RecoveryInv, Recoverable, SomeWhole
<1> QED
  BY <1>1, RecoveryCorrect, PTL

-----------------------------------------------------------------------------
(* Atomic updates *)

\* Where the updater jumps with a card that worked, the region is whole and
\* the file is gone; a boot that goes on without it only jumps.
JumpInv ==
    /\ pc = "jump" => card_failed \/ (~Valid /\ SomeWhole)
    /\ pc \notin {"jump", "app"} => ~card_failed
    /\ HalfWrittenOnlyWithoutCard
    /\ running \in Images => Whole(running)

\* At most one image is whole: they would share the first page.
LEMMA OneWhole ==
    ASSUME NEW i \in Images, NEW j \in Images, Whole(i), Whole(j)
    PROVE  i = j
<1>1. 1 \in 1..Size[i] /\ 1 \in 1..Size[j]
  BY SizeAssumption
<1> QED
  BY <1>1 DEF Whole

\* The inductive invariant is preserved by every step.
LEMMA JumpStep ==
    ASSUME RecoveryInv, JumpInv, [Next]_vars
    PROVE  JumpInv'
<1> USE DEF Goto, Failed, Restart, NoFault, CardFault, FlashFault, HalfWrittenOnlyWithoutCard
<1>1. CASE MountSd
  BY <1>1, Untouched DEF MountSd, JumpInv
<1>2. CASE CheckStaged
  <2>1. /\ UNCHANGED <<flash, staged, running>>
        /\ pc' = "jump" => card_failed' \/ ~Valid
        /\ pc' # "jump" => card_failed' = card_failed
        /\ pc = "check" /\ pc' # "app"
    BY <1>2 DEF CheckStaged
  <2>2. pc' = "jump" => card_failed' \/ (~Valid' /\ SomeWhole')
    BY <2>1, Untouched DEF RecoveryInv
  <2> QED
    BY <2>1, <2>2, Untouched, ValuesAssumption DEF JumpInv, RecoveryInv
<1>3. CASE ErasePage \/ WritePage \/ Verify
  <2>1. /\ running' = running /\ running = NoImage /\ ~card_failed'
        /\ pc' \in {"boot", "erase", "write", "verify", "unlink"}
    BY <1>3 DEF ErasePage, WritePage, Verify, JumpInv, RecoveryInv
  <2> QED
    BY <2>1, ValuesAssumption DEF JumpInv
<1>4. CASE Unlink
  <2>1. /\ UNCHANGED <<flash, running>> /\ pc = "unlink" /\ pc' = "jump" /\ running = NoImage
        /\ card_failed' \/ staged' = NoImage
    BY <1>4 DEF Unlink, RecoveryInv
  <2>2. staged' = NoImage => ~Valid'
    BY ValuesAssumption DEF Valid
  <2>3. SomeWhole'
    BY <2>1 DEF RecoveryInv, SomeWhole, Valid, Whole, Fits
  <2> QED
    BY <2>1, <2>2, <2>3, ValuesAssumption DEF JumpInv
<1>5. CASE Jump
  <2>1. /\ UNCHANGED <<flash, card_failed>> /\ pc' = "app" /\ pc = "jump"
        /\ \/ running' \in Images /\ Whole(running')
           \/ running' = Broken /\ ~SomeWhole
    BY <1>5 DEF Jump, SomeWhole
  <2> QED
    BY <2>1, ValuesAssumption DEF JumpInv, Whole, Fits
<1>6. CASE BeginUpload \/ EndUpload
  BY <1>6 DEF BeginUpload, EndUpload, JumpInv, Whole, Fits
<1>7. CASE Reset
  BY <1>7, ValuesAssumption DEF Reset, JumpInv
<1>8. CASE PowerLoss
  <2>1. running' = NoImage /\ pc' = "boot" /\ card_failed' = FALSE
    BY <1>8 DEF PowerLoss, RecoveryInv
  <2> QED
    BY <2>1, ValuesAssumption DEF JumpInv
<1>9. CASE UNCHANGED vars
  BY <1>9, Untouched DEF vars, JumpInv
<1> QED
  BY <1>1, <1>2, <1>3, <1>4, <1>5, <1>6, <1>7, <1>8, <1>9 DEF Next, UpdaterStep

LEMMA JumpInit == Init => JumpInv
  BY ValuesAssumption DEF Init, JumpInv, HalfWrittenOnlyWithoutCard

LEMMA JumpCorrect == Spec => [](RecoveryInv /\ JumpInv)
<1>1. RecoveryInv /\ JumpInv /\ [Next]_vars => (RecoveryInv /\ JumpInv)'
  BY RecoveryStep, JumpStep
<1> QED
  BY <1>1, RecoveryInit, JumpInit, PTL DEF Spec

\* A boot that runs a half-written application is one on which the card failed,
\* however often power, the flash or the card failed before (main()'s reboot
\* instead of a jump).
THEOREM NoHalfWrittenBoot == Spec => []HalfWrittenOnlyWithoutCard
<1>1. JumpInv => HalfWrittenOnlyWithoutCard
  BY DEF JumpInv
<1> QED
  BY <1>1, JumpCorrect, PTL

\* The region, the file and the label keep their types, and the page index
\* never leaves the partition.
THEOREM UpdaterTypes == Spec => []TypeOK
<1>1. RecoveryInv => TypeOK
  BY DEF RecoveryInv
<1> QED
  BY <1>1, RecoveryCorrect, PTL

\* What the refinement mapping gives in each case.
LEMMA InstalledIs ==
    /\ Valid => Installed = staged
    /\ \A i \in Images : ~Valid /\ Whole(i) => Installed = i
<1>1. ASSUME NEW i \in Images, ~Valid, Whole(i)
      PROVE  Installed = i
  <2>1. (CHOOSE j \in Images : Whole(j)) = i
    BY <1>1, OneWhole
  <2> QED
    BY <1>1, <2>1 DEF Installed
<1> QED
  BY <1>1 DEF Installed

LEMMA SlotInit == Init => Slot!Init
<1> SUFFICES ASSUME Init PROVE Slot!Init
  OBVIOUS
<1>1. RecoveryInv /\ ~Valid /\ running = NoImage
  BY RecoveryInit, ValuesAssumption DEF Init, Valid
<1>2. PICK i \in Images : Whole(i)
  BY <1>1 DEF RecoveryInv, SomeWhole
<1> QED
  BY <1>1, <1>2, InstalledIs DEF Slot!Init, Init

LEMMA SlotStep ==
    ASSUME RecoveryInv, JumpInv, RecoveryInv', [Next]_vars
    PROVE  [Slot!Next]_(Slot!vars)
<1> USE DEF Goto, Failed, Restart, NoFault, CardFault, FlashFault
<1> SUFFICES Slot!Next \/ UNCHANGED <<Installed, running, card_failed>>
  BY DEF Slot!vars
<1> DEFINE Stutters == UNCHANGED <<Installed, running, card_failed>>
           CardOnly == UNCHANGED <<Installed, running>> /\ running = NoImage /\ card_failed' = TRUE
<1>0. CardOnly => Slot!Next
  BY DEF Slot!Next, Slot!CardFails
<1>1. ASSUME UNCHANGED <<flash, staged>>
      PROVE  Installed' = Installed
  BY <1>1 DEF Installed, Valid, Whole, Fits
<1>2. CASE MountSd \/ CheckStaged
  <2>1. /\ UNCHANGED <<flash, staged, running>> /\ running = NoImage
        /\ UNCHANGED card_failed \/ card_failed' = TRUE
    BY <1>2 DEF MountSd, CheckStaged, RecoveryInv
  <2> QED
    BY <1>0, <1>1, <2>1
<1>3. CASE ErasePage \/ WritePage \/ Verify
  <2>1. /\ staged' = staged /\ running' = running /\ Valid
        /\ ~card_failed /\ card_failed \in BOOLEAN
        /\ UNCHANGED card_failed \/ card_failed' = FALSE
    BY <1>3 DEF ErasePage, WritePage, Verify, RecoveryInv, JumpInv, TypeOK
  <2>2. Installed = staged /\ Installed' = staged'
    BY <2>1 DEF Installed, Valid, Fits
  <2> QED
    BY <2>1, <2>2
<1>4. CASE Unlink
  <2>1. /\ UNCHANGED <<flash, running>> /\ running = NoImage
        /\ Valid /\ Whole(staged) /\ staged \in Images
        /\ \/ staged' = NoImage /\ UNCHANGED card_failed
           \/ UNCHANGED staged /\ card_failed' = TRUE
    BY <1>4 DEF Unlink, RecoveryInv, Valid
  <2>2. CASE staged' = NoImage /\ UNCHANGED card_failed
    <3>1. ~Valid' /\ \A j \in Images : Whole(j)' = Whole(j)
      BY <2>1, <2>2, ValuesAssumption DEF Valid, Whole, Fits
    <3>2. Installed' = CHOOSE j \in Images : Whole(j)
      BY <2>1, <3>1 DEF Installed
    <3>3. (CHOOSE j \in Images : Whole(j)) = staged
      BY <2>1, OneWhole
    <3> QED
      BY <2>1, <2>2, <3>2, <3>3, InstalledIs
  <2>3. CASE UNCHANGED staged /\ card_failed' = TRUE
    BY <1>0, <1>1, <2>1, <2>3
  <2> QED
    BY <2>1, <2>2, <2>3
<1>5. CASE Jump
  <2>1. /\ UNCHANGED <<flash, staged, card_failed>> /\ running = NoImage
        /\ card_failed \/ (~Valid /\ SomeWhole)
        /\ \/ running' \in Images /\ Whole(running')
           \/ running' = Broken /\ ~SomeWhole
    BY <1>5 DEF Jump, JumpInv, RecoveryInv, SomeWhole
  <2>2. CASE card_failed
    BY <1>1, <2>1, <2>2 DEF Slot!Next, Slot!BootWithoutCard
  <2>3. CASE ~Valid /\ SomeWhole
    <3>1. Installed = running'
      BY <2>1, <2>3, InstalledIs
    <3> QED
      BY <1>1, <2>1, <3>1 DEF Slot!Next, Slot!Boot
  <2> QED
    BY <2>1, <2>2, <2>3
<1>6. CASE BeginUpload \/ EndUpload
  <2>1. /\ UNCHANGED <<flash, running, card_failed>> /\ running \in Images
        /\ staged' \in Images \cup {Corrupt} /\ Whole(running)
    BY <1>6 DEF BeginUpload, EndUpload, JumpInv
  <2>2. Installed' \in Images
    <3>1. CASE Valid'
      BY <3>1 DEF Installed, Valid
    <3>2. CASE ~Valid'
      <4>1. Installed' = CHOOSE j \in Images : Whole(j)
        BY <2>1, <3>2 DEF Installed, Whole, Fits
      <4> QED
        BY <2>1, <4>1
    <3> QED
      BY <3>1, <3>2
  <2> QED
    BY <2>1, <2>2 DEF Slot!Next, Slot!Upload
<1>7. CASE Reset
  BY <1>1, <1>7 DEF Reset, Slot!Next, Slot!Stop
<1>8. CASE PowerLoss
  <2>1. staged' = staged /\ running' = running /\ running = NoImage /\ card_failed' = FALSE
    BY <1>8 DEF PowerLoss, RecoveryInv
  <2>2. Installed' = Installed
    <3>1. CASE flash' = flash
      BY <1>1, <2>1, <3>1
    <3>2. CASE flash' # flash
      <4>1. Valid
        BY <1>8, <3>2 DEF PowerLoss, RecoveryInv
      <4> QED
        BY <2>1, <4>1 DEF Installed, Valid, Fits
    <3> QED
      BY <3>1, <3>2
  <2> QED
    BY <2>1, <2>2 DEF Slot!Next, Slot!Stop
<1>9. CASE UNCHANGED vars
  BY <1>1, <1>9 DEF vars
<1> QED
  BY <1>2, <1>3, <1>4, <1>5, <1>6, <1>7, <1>8, <1>9 DEF Next, UpdaterStep

\* Whatever fails, the updater implements the atomic slot: a boot with a card
\* runs the last image completely staged, no power loss shows in between, and
\* a boot without one takes nothing from the next.
THEOREM UpdatesAtomically == Spec => UpdateAtomic
<1>1. RecoveryInv /\ JumpInv /\ RecoveryInv' /\ [Next]_vars => [Slot!Next]_(Slot!vars)
  BY SlotStep
<1> QED
  BY <1>1, SlotInit, JumpCorrect, PTL DEF Spec, UpdateAtomic, Slot!Spec

-----------------------------------------------------------------------------
(* Boots end *)

\* A bound on the steps of a boot.
Full == 2 * AppPages + 6

\* How many steps the boot has left at most, if nothing fails.
Left ==
    CASE pc = "boot"   -> Full
      [] pc = "check"  -> Full - 1
      [] pc = "erase"  -> AppPages + 5 + (Size[staged] - page)
      [] pc = "write"  -> 5 + (Size[staged] - page)
      [] pc = "verify" -> 3
      [] pc = "unlink" -> 2
      [] pc = "jump"   -> 1
      [] pc = "app"    -> 0

\* What has been written is not what was staged: a boot will be lost over it.
Dirty ==
    \/ pc = "write" /\ \E p \in 1..(page - 1) : flash[p] # staged
    \/ pc = "verify" /\ ~Whole(staged)

\* A fault costs the boot it strikes, and one more if it goes unseen.
Rank == (MaxFaults - faults) * (2 * Full) + (IF Dirty THEN Full ELSE 0) + Left

LeftOK == Full \in Nat /\ Left \in 0..Full /\ (pc # "app" => Left >= 1)

LEMMA LeftBounds == RecoveryInv => LeftOK
<1> SUFFICES ASSUME RecoveryInv PROVE LeftOK
  OBVIOUS
<1>1. AppPages \in Nat /\ Full \in Nat
  BY PagesAssumption DEF Full
<1>2. CASE pc \in {"erase", "write"}
  <2>1. staged \in Images /\ Size[staged] <= AppPages /\ page <= Size[staged]
    BY <1>2 DEF RecoveryInv, Valid, Fits
  <2>2. Size[staged] \in Nat /\ page \in Nat /\ page >= 1
    BY <2>1, SizeAssumption, PagesAssumption DEF RecoveryInv, TypeOK, PageNumbers
  <2> QED
    BY <1>1, <1>2, <2>1, <2>2 DEF LeftOK, Left, Full
<1>3. CASE pc \notin {"erase", "write"}
  BY <1>1, <1>3 DEF LeftOK, Left, Full, RecoveryInv, TypeOK
<1> QED
  BY <1>2, <1>3

LEMMA LeftBoundsNext == (RecoveryInv => LeftOK)'
BY LeftBounds, PTL

\* A fault pays for whatever the rank loses by it.
LEMMA FaultPays ==
    ASSUME NEW f \in 0..MaxFaults, f < MaxFaults, NEW n \in Nat,
           NEW d \in {0, n}, NEW e \in {0, n}, NEW l \in 1..n, NEW k \in 0..n
    PROVE  (MaxFaults - (f + 1)) * (2 * n) + e + k < (MaxFaults - f) * (2 * n) + d + l
<1> DEFINE g == MaxFaults - (f + 1)
<1>1. g \in Nat /\ MaxFaults - f = g + 1
  BY FaultsAssumption
<1>2. (g + 1) * (2 * n) = g * (2 * n) + 2 * n /\ g * (2 * n) \in Nat
  BY <1>1
<1> HIDE DEF g
<1>3. ASSUME NEW x \in Nat PROVE x + e + k < x + 2 * n + d + l
  OBVIOUS
<1>4. g * (2 * n) + e + k < g * (2 * n) + 2 * n + d + l
  BY <1>2, <1>3
<1> QED
  BY <1>1, <1>2, <1>4 DEF g

\* Without a fault the rank falls with the steps left, or with what was dirty.
LEMMA StepPays ==
    ASSUME NEW x \in Nat, NEW n \in Nat, NEW d \in {0, n}, NEW e \in {0, n},
           NEW l \in 0..n, NEW k \in 0..n,
           \/ e <= d /\ k < l
           \/ d = n /\ e = 0 /\ l >= 1
    PROVE  x + e + k < x + d + l
OBVIOUS

\* What makes the rank fall.
Falls ==
    \/ UNCHANGED faults /\ Left' < Left /\ (Dirty' => Dirty)
    \/ UNCHANGED faults /\ Dirty /\ ~Dirty' /\ pc # "app"
    \/ (\E kind : CountFault(kind)) /\ pc # "app"

LEMMA RankFalls == ASSUME RecoveryInv, RecoveryInv', Falls PROVE Rank' < Rank
<1>1. Full \in Nat /\ Left \in 0..Full /\ (pc # "app" => Left >= 1)
  BY LeftBounds DEF LeftOK
<1>2. Left' \in 0..Full
  BY LeftBoundsNext DEF LeftOK, Full
<1>3. PICK d \in {0, Full} : /\ d = (IF Dirty THEN Full ELSE 0)
                             /\ Rank = (MaxFaults - faults) * (2 * Full) + d + Left
  BY DEF Rank
<1>4. PICK e \in {0, Full} : /\ e = (IF Dirty' THEN Full ELSE 0)
                             /\ Rank' = (MaxFaults - faults') * (2 * Full) + e + Left'
  BY DEF Rank, Full
<1>5. faults \in 0..MaxFaults /\ MaxFaults \in Nat
  BY FaultsAssumption DEF RecoveryInv, TypeOK
<1>6. CASE (\E kind : CountFault(kind)) /\ pc # "app"
  <2>1. faults < MaxFaults /\ faults' = faults + 1 /\ Left \in 1..Full
    BY <1>1, <1>6 DEF CountFault
  <2>2. (MaxFaults - (faults + 1)) * (2 * Full) + e + Left'
          < (MaxFaults - faults) * (2 * Full) + d + Left
    BY <1>1, <1>2, <1>5, <2>1, FaultPays
  <2> QED
    BY <1>3, <1>4, <2>1, <2>2
<1>7. CASE /\ UNCHANGED faults
           /\ \/ Left' < Left /\ (Dirty' => Dirty)
              \/ Dirty /\ ~Dirty' /\ pc # "app"
  <2>1. (MaxFaults - faults) * (2 * Full) \in Nat
    <3>1. MaxFaults - faults \in Nat /\ 2 * Full \in Nat
      BY <1>1, <1>5
    <3>2. \A x, y \in Nat : x * y \in Nat
      OBVIOUS
    <3> QED
      BY <3>1, <3>2
  <2>2. \/ e <= d /\ Left' < Left
        \/ d = Full /\ e = 0 /\ Left >= 1
    BY <1>1, <1>3, <1>4, <1>7
  <2>3. (MaxFaults - faults) * (2 * Full) + e + Left'
          < (MaxFaults - faults) * (2 * Full) + d + Left
    BY <1>1, <1>2, <2>1, <2>2, StepPays
  <2> QED
    BY <1>3, <1>4, <1>7, <2>3
<1> QED
  BY <1>6, <1>7 DEF Falls

\* Every step of the updater takes it forward, or has a fault to blame.
LEMMA UpdaterFalls ==
    ASSUME RecoveryInv, RecoveryInv', UpdaterStep
    PROVE  Falls
<1> USE DEF Goto, NoFault, FlashFault, CardFault, Failed, Restart
<1>1. AppPages \in Nat \ {0} /\ Full = 2 * AppPages + 6
  BY PagesAssumption DEF Full
<1>2. ASSUME pc \in {"erase", "write", "verify"}
      PROVE  /\ staged \in Images /\ Size[staged] \in Nat \ {0} /\ Size[staged] <= AppPages
             /\ Fits(staged)
  BY <1>2, SizeAssumption DEF RecoveryInv, Valid, Fits
<1>3. page \in Nat /\ page >= 1
  BY <1>1 DEF RecoveryInv, TypeOK, PageNumbers
<1>4. (\E kind : CountFault(kind)) /\ pc # "app" => Falls
  BY DEF Falls
<1>5. CASE MountSd
  <2>1. CASE Goto("check") /\ NoFault
    <3>1. Left = Full /\ Left' = Full - 1 /\ ~Dirty'
      BY <1>5, <2>1 DEF MountSd, Left, Full, Dirty
    <3> QED
      BY <1>1, <2>1, <3>1 DEF Falls
  <2>2. CASE CardFault
    BY <1>4, <1>5, <2>2 DEF MountSd
  <2> QED
    BY <1>5, <2>1, <2>2 DEF MountSd
<1>6. CASE CheckStaged
  <2>0. pc = "check" /\ page' = 1 /\ UNCHANGED <<flash, staged>>
    BY <1>6 DEF CheckStaged
  <2>1. CASE Valid /\ Goto("erase") /\ NoFault
    <3>1. staged \in Images /\ Size[staged] \in Nat /\ Size[staged] <= AppPages
      BY <2>1, SizeAssumption DEF Valid, Fits
    <3>2. Left = Full - 1 /\ Left' = AppPages + 5 + (Size[staged] - 1) /\ ~Dirty'
      BY <2>0, <2>1 DEF Left, Dirty
    <3> QED
      BY <1>1, <2>1, <3>1, <3>2 DEF Falls
  <2>2. CASE ~Valid /\ Goto("jump") /\ NoFault
    <3>1. Left = Full - 1 /\ Left' = 1 /\ ~Dirty'
      BY <2>0, <2>2 DEF Left, Dirty
    <3> QED
      BY <1>1, <2>2, <3>1 DEF Falls
  <2>3. CASE CardFault
    BY <1>4, <2>0, <2>3
  <2> QED
    BY <1>6, <2>1, <2>2, <2>3 DEF CheckStaged
<1>7. CASE ErasePage
  <2>0. pc = "erase" /\ UNCHANGED staged /\ Fits(staged)
    BY <1>2, <1>7 DEF ErasePage
  <2>1. CASE LastPage /\ Goto("write") /\ page' = 1 /\ NoFault
    <3>1. page = Size[staged] /\ Size[staged] \in 1..AppPages
      BY <1>1, <1>2, <2>0, <2>1 DEF LastPage
    <3>2. Left = AppPages + 5 + (Size[staged] - page)
      BY <2>0 DEF Left
    <3>3. Left' = 5 + (Size[staged] - 1)
      BY <2>0, <2>1 DEF Left
    <3>4. Left' < Left
      BY <1>1, <3>1, <3>2, <3>3
    <3>5. ~Dirty'
      BY <2>1 DEF Dirty
    <3> QED
      BY <2>1, <3>4, <3>5 DEF Falls
  <2>2. CASE UNCHANGED pc /\ page' = page + 1 /\ NoFault
    <3>1. /\ Left = AppPages + 5 + (Size[staged] - page)
          /\ Left' = AppPages + 5 + (Size[staged] - (page + 1)) /\ ~Dirty'
      BY <2>0, <2>2 DEF Left, Dirty
    <3> QED
      BY <1>1, <1>2, <1>3, <2>0, <2>2, <3>1 DEF Falls
  <2>3. CASE CountFault("flash")
    BY <1>4, <2>0, <2>3
  <2> QED
    BY <1>7, <2>0, <2>1, <2>2, <2>3 DEF ErasePage
<1>8. CASE WritePage
  <2>0. pc = "write" /\ UNCHANGED staged /\ page \in 1..Size[staged]
    BY <1>2, <1>3, <1>8 DEF WritePage, RecoveryInv
  <2>1. CASE CountFault("flash") \/ CountFault("sd")
    BY <1>4, <2>0, <2>1
  <2>2. CASE /\ flash' = [flash EXCEPT ![page] = staged] /\ NoFault
             /\ IF LastPage
                  THEN Goto("verify") /\ UNCHANGED page
                  ELSE UNCHANGED pc /\ page' = page + 1
    <3>1. \A p \in 1..page : flash'[p] = IF p = page THEN staged ELSE flash[p]
      BY <1>1, <1>2, <2>0, <2>2 DEF RecoveryInv, TypeOK, PageNumbers
    <3>2. CASE LastPage
      <4>1. Left = 5 /\ Left' = 3
        BY <1>2, <2>0, <2>2, <3>2 DEF Left, LastPage
      <4>2. Dirty' => Dirty
        BY <1>2, <2>0, <2>2, <3>1, <3>2 DEF Dirty, LastPage, Whole, Fits
      <4> QED
        BY <2>2, <4>1, <4>2 DEF Falls
    <3>3. CASE ~LastPage
      <4>1. Left = 5 + (Size[staged] - page) /\ Left' = 5 + (Size[staged] - (page + 1))
        BY <2>0, <2>2, <3>3 DEF Left
      <4>2. Dirty' => Dirty
        BY <1>3, <2>0, <2>2, <3>1, <3>3 DEF Dirty
      <4> QED
        BY <1>2, <1>3, <2>0, <2>2, <4>1, <4>2 DEF Falls
    <3> QED
      BY <3>2, <3>3
  <2> QED
    BY <1>8, <2>1, <2>2 DEF WritePage
<1>9. CASE Verify
  <2>0. pc = "verify" /\ UNCHANGED <<flash, staged>>
    BY <1>9 DEF Verify
  <2>1. CASE Verified /\ Goto("unlink") /\ NoFault
    <3>1. Left = 3 /\ Left' = 2 /\ ~Dirty'
      BY <2>0, <2>1 DEF Left, Dirty
    <3> QED
      BY <2>1, <3>1 DEF Falls
  <2>2. CASE ~Verified /\ Failed /\ UNCHANGED faults
    <3>1. Dirty /\ ~Dirty'
      BY <2>0, <2>2 DEF Dirty, Verified
    <3> QED
      BY <2>0, <2>2, <3>1 DEF Falls
  <2>3. CASE CountFault("flash")
    BY <1>4, <2>0, <2>3
  <2> QED
    BY <1>9, <2>1, <2>2, <2>3 DEF Verify
<1>10. CASE Unlink
  <2>1. CASE NoFault
    <3>1. Left = 2 /\ Left' = 1 /\ ~Dirty'
      BY <1>10, <2>1 DEF Unlink, Left, Dirty
    <3> QED
      BY <2>1, <3>1 DEF Falls
  <2>2. CASE CardFault
    BY <1>4, <1>10, <2>2 DEF Unlink
  <2> QED
    BY <1>10, <2>1, <2>2 DEF Unlink
<1>11. CASE Jump
  <2>1. Left = 1 /\ Left' = 0 /\ ~Dirty' /\ UNCHANGED faults
    BY <1>11 DEF Jump, Left, Dirty
  <2> QED
    BY <2>1 DEF Falls
<1> QED
  BY <1>5, <1>6, <1>7, <1>8, <1>9, <1>10, <1>11 DEF UpdaterStep

\* Between two resets by the application or its operator, the updater takes no
\* more steps than its rank, however the faults that are left fall: no image on
\* the card and no state of the flash makes it reboot for ever (main()'s
\* sys_reboot() to retry).
BootsEnd == [][UpdaterStep \/ PowerLoss => Rank' < Rank]_vars

\* The rank is a natural number that every step of a boot lowers, a loss of
\* power included: the boots that main()'s retries start come to their end.
THEOREM BootsAreBounded == Spec => BootsEnd /\ [](Rank \in Nat)
<1>1. ASSUME RecoveryInv, RecoveryInv', UpdaterStep \/ PowerLoss
      PROVE  Rank' < Rank
  <2>1. Falls
    BY <1>1, UpdaterFalls DEF PowerLoss, Falls
  <2> QED
    BY <1>1, <2>1, RankFalls
<1>2. RecoveryInv /\ RecoveryInv' /\ [Next]_vars
        => [UpdaterStep \/ PowerLoss => Rank' < Rank]_vars
  BY <1>1
<1>3. RecoveryInv => Rank \in Nat
  <2> SUFFICES ASSUME RecoveryInv PROVE Rank \in Nat
    OBVIOUS
  <2>1. Full \in Nat /\ Left \in Nat
    BY LeftBounds DEF LeftOK
  <2>2. MaxFaults - faults \in Nat /\ 2 * Full \in Nat
    BY <2>1, FaultsAssumption DEF RecoveryInv, TypeOK
  <2>3. \A x, y \in Nat : x * y \in Nat
    OBVIOUS
  <2>4. (MaxFaults - faults) * (2 * Full) \in Nat
    BY <2>2, <2>3
  <2> QED
    BY <2>1, <2>4 DEF Rank
<1> QED
  BY <1>2, <1>3, RecoveryCorrect, PTL DEF Spec, BootsEnd
=============================================================================
