------------------------------ MODULE Updater ------------------------------
(***************************************************************************)
(* The second-stage updater (updater/src/main.c): on every boot it looks   *)
(* for a staged image on the SD card, validates it, rewrites the main      *)
(* application's flash pages from it, verifies them, deletes the file and  *)
(* chain-loads the application.  Power may fail at any point, a flash      *)
(* operation may fail or write a page wrong, and the card may fail to      *)
(* mount or to be read.                                                    *)
(*                                                                         *)
(* The application, external here, is what uploads the next image          *)
(* (SMP over BLE, mcumgr's file system group).                             *)
(***************************************************************************)
EXTENDS Integers, FiniteSets

CONSTANTS
    Images,     \* the firmware images there are
    Size,       \* their lengths, in flash pages (one CHUNK_SIZE each)
    AppPages,   \* pages of the main_app partition
    NoImage,    \* no staged file; nothing running
    Corrupt,    \* a staged file that fails the header or CRC check
    Erased,     \* content of an erased page
    Torn,       \* content of a page whose erase or write was cut or failed
    Broken,     \* what runs after a jump into a region that holds no image
    Faults,     \* the kinds of fault that occur: "power", "flash", "sd"
    MaxFaults   \* bound on how many do

ASSUME SizeAssumption == Size \in [Images -> Nat \ {0}]
ASSUME PagesAssumption == AppPages \in Nat \ {0}
ASSUME ValuesAssumption ==
    /\ {NoImage, Corrupt, Erased, Torn, Broken} \cap Images = {}
    /\ NoImage # Corrupt /\ NoImage # Broken
ASSUME FaultsAssumption ==
    Faults \subseteq {"power", "flash", "sd"} /\ MaxFaults \in Nat

VARIABLES
    flash,    \* page -> the image whose page it holds, Erased or Torn
    staged,   \* FW_IMAGE_SD_PATH: NoImage, Corrupt or an image
    pc,       \* where the updater is, or "app" once it has jumped
    page,     \* the page to erase or write next
    running,  \* what the jump started: an image, Broken, or NoImage
    card_failed,  \* history: the card failed since the last reset
    faults    \* how many faults have occurred

vars == <<flash, staged, pc, page, running, card_failed, faults>>

PageNumbers == 1..AppPages

\* The page index never leaves the partition, among the types.
TypeOK ==
    /\ flash \in [PageNumbers -> Images \cup {Erased, Torn}]
    /\ staged \in Images \cup {NoImage, Corrupt}
    /\ pc \in {"boot", "check", "erase", "write", "verify", "unlink", "jump", "app"}
    /\ page \in PageNumbers
    /\ running \in Images \cup {Broken, NoImage}
    /\ card_failed \in BOOLEAN
    /\ faults \in 0..MaxFaults

\* payload_len > fa_size
Fits(i) == Size[i] <= AppPages

\* The region holds image i: its CRC over payload_len bytes matches.
Whole(i) == Fits(i) /\ \A p \in 1..Size[i] : flash[p] = i

Init ==
    /\ \E i \in Images : /\ Fits(i)
                         /\ flash = [p \in PageNumbers |-> IF p <= Size[i] THEN i ELSE Erased]
    /\ staged = NoImage
    /\ pc = "boot"
    /\ page = 1
    /\ running = NoImage
    /\ card_failed = FALSE
    /\ faults = 0

Goto(label) == pc' = label
NoFault == UNCHANGED <<faults, card_failed>>
CountFault(kind) == kind \in Faults /\ faults < MaxFaults /\ faults' = faults + 1

\* The flash fails, or the card does and the boot goes on.
FlashFault == CountFault("flash") /\ UNCHANGED card_failed
CardFault == CountFault("sd") /\ card_failed' = TRUE

\* Any reset: sys_reboot(), the app's, power coming back.
Restart == Goto("boot") /\ card_failed' = FALSE

-----------------------------------------------------------------------------
(* The updater *)

\* mount_sd(): a card that does not mount skips the update.
MountSd ==
    /\ pc = "boot"
    /\ \/ Goto("check") /\ NoFault
       \/ Goto("jump") /\ CardFault
    /\ UNCHANGED <<flash, staged, page, running>>

\* Mutant: the header's length is not held against the partition.
Valid_AnySize == staged \in Images

\* The header's magic and length and the file's CRC.
Valid == staged \in Images /\ Fits(staged)

\* apply_staged_image() up to its commit point: no file, an invalid one and a
\* read error all boot the app as it is.
CheckStaged ==
    /\ pc = "check"
    /\ \/ Valid /\ Goto("erase") /\ NoFault
       \/ ~Valid /\ Goto("jump") /\ NoFault
       \/ Goto("jump") /\ CardFault
    /\ page' = 1
    /\ UNCHANGED <<flash, staged, running>>

\* Mutant: a failure after the commit point boots the app.
Failed_Jumps == Goto("jump") /\ UNCHANGED card_failed

\* Erased but not verified: sys_reboot() to retry.
Failed == Restart

LastPage == page = Size[staged]

\* flash_area_erase(), one page at a time; it refuses a range beyond the
\* partition.
ErasePage ==
    /\ pc = "erase"
    /\ \/ /\ Fits(staged)
          /\ flash' = [flash EXCEPT ![page] = Erased]
          /\ IF LastPage
               THEN Goto("write") /\ page' = 1
               ELSE UNCHANGED pc /\ page' = page + 1
          /\ NoFault
       \/ ~Fits(staged) /\ Failed /\ UNCHANGED <<flash, page, faults>>
       \/ Fits(staged) /\ Failed /\ CountFault("flash") /\ UNCHANGED <<flash, page>>
    /\ UNCHANGED <<staged, running>>

\* One turn of flash_payload()'s loop: a chunk read from the file, written to
\* its page.  The file read or the write may fail, and the write may go wrong
\* without an error.
WritePage ==
    /\ pc = "write"
    /\ \/ /\ \/ flash' = [flash EXCEPT ![page] = staged] /\ NoFault
             \/ flash' = [flash EXCEPT ![page] = Torn] /\ FlashFault
          /\ IF LastPage
               THEN Goto("verify") /\ UNCHANGED page
               ELSE UNCHANGED pc /\ page' = page + 1
       \/ /\ Failed /\ (CountFault("sd") \/ CountFault("flash"))
          /\ UNCHANGED <<flash, page>>
    /\ UNCHANGED <<staged, running>>

\* Mutant: the write is not read back.
Verified_Unread == TRUE

\* flash_region_crc() against the header's.
Verified == Whole(staged)

Verify ==
    /\ pc = "verify"
    /\ \/ Verified /\ Goto("unlink") /\ NoFault
       \/ ~Verified /\ Failed /\ UNCHANGED faults
       \/ Failed /\ CountFault("flash")
    /\ UNCHANGED <<flash, staged, page, running>>

\* fs_unlink(), its result ignored.
Unlink ==
    /\ pc = "unlink"
    /\ \/ staged' = NoImage /\ NoFault
       \/ UNCHANGED staged /\ CardFault
    /\ Goto("jump")
    /\ UNCHANGED <<flash, page, running>>

\* boot_main_app(): no check of what the region holds.
Jump ==
    /\ pc = "jump"
    /\ Goto("app")
    /\ \/ running' \in {i \in Images : Whole(i)}
       \/ running' = Broken /\ ~\E i \in Images : Whole(i)
    /\ page' = 1
    /\ UNCHANGED <<flash, staged, card_failed, faults>>

UpdaterStep ==
    MountSd \/ CheckStaged \/ ErasePage \/ WritePage \/ Verify \/ Unlink \/ Jump

-----------------------------------------------------------------------------
(* The world around it *)

\* The application receives an upload: the file is incomplete, then complete.
BeginUpload ==
    /\ pc = "app" /\ running \in Images
    /\ staged' = Corrupt
    /\ UNCHANGED <<flash, pc, page, running, card_failed, faults>>

EndUpload ==
    /\ pc = "app" /\ running \in Images
    /\ staged = Corrupt
    /\ staged' \in Images
    /\ UNCHANGED <<flash, pc, page, running, card_failed, faults>>

\* `os reset`, or the operator's power switch.
Reset ==
    /\ pc = "app"
    /\ Restart
    /\ running' = NoImage
    /\ UNCHANGED <<flash, staged, page, faults>>

\* Power fails in the updater: the page being erased or written may be torn.
PowerLoss ==
    /\ pc # "app"
    /\ CountFault("power")
    /\ Restart
    /\ \/ UNCHANGED flash
       \/ pc \in {"erase", "write"} /\ Fits(staged)
          /\ flash' = [flash EXCEPT ![page] = Torn]
    /\ page' = 1
    /\ UNCHANGED <<staged, running>>

Next == UpdaterStep \/ BeginUpload \/ EndUpload \/ Reset \/ PowerLoss

Spec == Init /\ [][Next]_vars

\* The updater runs on its own; nothing makes the operator reset or upload.
FairSpec == Spec /\ WF_vars(UpdaterStep)
-----------------------------------------------------------------------------
(* Properties *)

\* At every instant the region holds a whole image or a valid file is staged
\* to rewrite it: the file goes only after a verified write, and nothing is
\* erased before the file checks out.
Recoverable == Valid \/ \E i \in Images : Whole(i)

\* No boot ever runs a half-written application: "if a write fails after
\* erasing we reboot to retry rather than jump into a half-written app".
NeverRunsHalfWritten == running # Broken

\* What the code does give: a boot that runs a half-written application is one
\* on which the card itself failed, whatever power and flash did before.
HalfWrittenOnlyWithoutCard == running = Broken => card_failed

\* The update is atomic: a boot runs the last image completely staged, or the
\* one in the region when none is; a boot without a card leaves that choice
\* as it is for the next.
Installed ==
    IF Valid THEN staged
    ELSE IF \E i \in Images : Whole(i) THEN CHOOSE i \in Images : Whole(i)
    ELSE Broken
Slot == INSTANCE UpdateSlot WITH installed <- Installed
UpdateAtomic == Slot!Spec

\* With no fault left to come, every boot ends in the application: no image
\* on the card makes the updater reboot for ever.
BootCompletes == pc = "boot" ~> pc = "app"
=============================================================================
