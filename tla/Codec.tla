------------------------------- MODULE Codec -------------------------------
(***************************************************************************)
(* The VS1053B codec, its driver (app/src/vs1053b.c) and the three threads *)
(* that use it: the playback thread and the sine test hold a claim on it   *)
(* for a whole session (app/src/audio.c), while the shell's volume command *)
(* and the boot's audio_set_volume() come in at any time.                  *)
(*                                                                         *)
(* A step is one register or data transfer with the work around it (the    *)
(* fill that ends a sound, and the patch, are one step each); a call of    *)
(* several transfers holds g_codec_mutex from the first to the last, and a *)
(* thread that waits for the mutex stands at the call's first label.       *)
(* A transfer fails when the codec is held in reset (DREQ stays low until  *)
(* the timeout) or by a fault; the reset pin may fail to move.             *)
(***************************************************************************)
EXTENDS Integers

CONSTANTS
    Volumes,    \* the percentages commands and config files give
    MaxChunks,  \* bound on the length of a sound, in writes
    MaxFaults   \* bound on failing transfers, pin writes and patch reads

ASSUME VolumesAssumption == Volumes \subseteq 0..100
ASSUME BoundsAssumption == MaxChunks \in Nat /\ MaxFaults \in Nat

VARIABLES
    wired,          \* the box's RST jumper is cut and wired to the pin
    has_patch,      \* /SD:/patch.bin exists
    pin,            \* XRESET is driven active
    codec,          \* the codec's registers
    g_vol_reg, g_in_reset, g_codec_mutex,              \* vs1053b.c
    g_ready, g_playing, g_sine_active, g_play_q,       \* audio.c
    left,           \* writes until the end of the file that plays
    pc,             \* where each thread is
    last_set,       \* history: the percentage last given to vs1053b_set_volume()
    failed,         \* history: what failed since the codec was last put in reset
    faults          \* how many faults have occurred

driverVars == <<g_vol_reg, g_in_reset>>
claimVars == <<g_ready, g_playing, g_sine_active, g_play_q, left>>
faultVars == <<failed, faults>>
vars == <<wired, has_patch, pin, codec, driverVars, g_codec_mutex, claimVars, pc, last_set,
          faultVars>>

Threads == {"main", "audio", "shell"}

\* The labels inside a call that holds the mutex, each before a transfer.
Locked == {"soft", "clock", "volume", "setting", "getting", "toneData", "toneMode",
           "cancel", "drain", "endReset", "mute", "assert"}
Labels == Locked \cup {"init", "idle", "get", "set", "toneOn", "toneOff", "play", "up",
                       "patch", "stream", "end", "toneStart", "toneStop", "down", "finish"}

\* Mutant: scaled to the byte's whole range.
PercentToReg_To255(percent) == ((100 - percent) * 255) \div 100

\* vol_percent_to_reg(): one channel's attenuation byte, 0xFE for silence.
PercentToReg(percent) ==
    ((100 - (IF percent > 100 THEN 100 ELSE percent)) * 254) \div 100

\* vs1053b_get_volume()'s way back.
RegToPercent(att) == IF att >= 254 THEN 0 ELSE ((254 - att) * 100) \div 254

Muted == 255  \* 0xFFFF

\* After a hardware reset every register has its default, full volume.
Defaults == [vol |-> 0, mode |-> "new", clock |-> FALSE, patch |-> FALSE]

\* Each variable has its type, and g_codec_mutex is held in exactly the steps
\* between k_mutex_lock() and k_mutex_unlock(), on every path.
TypeOK ==
    /\ {wired, has_patch, pin, g_in_reset, g_ready, g_playing, g_sine_active, g_play_q} \subseteq BOOLEAN
    /\ codec \in [vol : 0..255, mode : {"new", "tests", "cancel"}, clock : BOOLEAN, patch : BOOLEAN]
    /\ g_vol_reg \in 0..254
    /\ g_codec_mutex \in Threads \cup {"free"}
    /\ left \in 0..MaxChunks
    /\ pc \in [Threads -> Labels]
    /\ \A t \in Threads : g_codec_mutex = t <=> pc[t] \in Locked
    /\ last_set \in 0..100
    /\ failed \subseteq {"bus", "pin", "file"}
    /\ faults \in 0..MaxFaults

\* Before audio_init(): zeroed variables, the pin not driven.
Init ==
    /\ wired \in BOOLEAN /\ has_patch \in BOOLEAN
    /\ pin = FALSE
    /\ codec = Defaults
    /\ g_vol_reg = 0 /\ g_in_reset = FALSE
    /\ g_codec_mutex = "free"
    /\ g_ready = FALSE /\ g_playing = FALSE /\ g_sine_active = FALSE /\ g_play_q = FALSE
    /\ left = 0
    /\ pc = [t \in Threads |-> IF t = "main" THEN "init" ELSE "idle"]
    /\ last_set = 80
    /\ failed = {} /\ faults = 0

At(t, label) == pc[t] = label
Goto(t, label) == pc' = [pc EXCEPT ![t] = label]
Step(t, from, to) == At(t, from) /\ Goto(t, to)

Free == g_codec_mutex = "free"
Lock(t) == g_codec_mutex' = t
Unlock == g_codec_mutex' = "free"
Keep == UNCHANGED g_codec_mutex

Hardware == <<wired, has_patch>>
NoFault == UNCHANGED faultVars
Fault(kind) == faults < MaxFaults /\ faults' = faults + 1 /\ failed' = failed \cup {kind}

\* vs_wait_dreq() and the SPI transfer behind it.
Held == pin /\ wired
TransferOk == ~Held /\ NoFault
TransferFails ==
    \/ Held /\ failed' = failed \cup {"bus"} /\ UNCHANGED faults
    \/ ~Held /\ Fault("bus")

-----------------------------------------------------------------------------
(* audio_init() and the claims *)

\* vs1053b_init() marks the codec in reset before it configures the pins, and
\* audio stays disabled if it fails.
AudioInit ==
    /\ At("main", "init")
    /\ g_vol_reg' = PercentToReg(80)
    /\ g_in_reset' = TRUE
    /\ \/ pin' = TRUE /\ g_ready' = TRUE /\ NoFault
       \/ Fault("pin") /\ UNCHANGED <<pin, g_ready>>
    /\ Goto("main", "set")
    /\ Keep
    /\ UNCHANGED <<Hardware, codec, g_playing, g_sine_active, g_play_q, left, last_set>>

\* The shell's commands, and the main thread's plays.
Commands(t) ==
    IF t = "shell" THEN {"get", "set", "toneOn", "toneOff", "play"} ELSE {"play"}

Command(t) ==
    /\ t \in {"shell", "main"}
    /\ At(t, "idle")
    /\ \E c \in Commands(t) : Goto(t, c)
    /\ Keep
    /\ UNCHANGED <<Hardware, pin, codec, driverVars, claimVars, last_set, faultVars>>

\* "if (!g_ready)" at the head of every entry point of audio.c.
NotReady(t) ==
    /\ ~g_ready
    /\ pc[t] \in {"get", "set", "toneOn", "toneOff", "play"}
    /\ Goto(t, "idle")
    /\ Keep
    /\ UNCHANGED <<Hardware, pin, codec, driverVars, claimVars, last_set, faultVars>>

\* audio_play_sound(): the compare-and-set, then the request.
Play(t) ==
    /\ Step(t, "play", "idle")
    /\ g_ready
    /\ g_playing' = TRUE
    /\ g_play_q' = (g_play_q \/ ~g_playing)
    /\ Keep
    /\ UNCHANGED <<Hardware, pin, codec, driverVars, g_ready, g_sine_active, left, last_set, faultVars>>

\* playback_thread() takes it and opens a file of some length.
TakeRequest ==
    /\ At("audio", "idle")
    /\ g_play_q
    /\ g_play_q' = FALSE
    /\ left' \in 0..MaxChunks
    /\ Goto("audio", "up") \/ Goto("audio", "finish")
    /\ Keep
    /\ UNCHANGED <<Hardware, pin, codec, driverVars, g_ready, g_playing, g_sine_active, last_set, faultVars>>

\* audio_sine_test(true) up to its claim; a tone that runs is left alone.
ToneOn ==
    /\ At("shell", "toneOn")
    /\ g_ready
    /\ IF g_sine_active \/ g_playing
         THEN Goto("shell", "idle") /\ UNCHANGED g_playing
         ELSE Goto("shell", "up") /\ g_playing' = TRUE
    /\ Keep
    /\ UNCHANGED <<Hardware, pin, codec, driverVars, g_ready, g_sine_active, g_play_q, left,
                   last_set, faultVars>>

ToneOff ==
    /\ Step("shell", "toneOff", IF g_sine_active THEN "toneStop" ELSE "idle")
    /\ g_ready
    /\ Keep
    /\ UNCHANGED <<Hardware, pin, codec, driverVars, claimVars, last_set, faultVars>>

\* Mutant: a session that failed keeps its claim.
Released_Unless == failed # {}

Released == FALSE

\* The claim is given up, by finish_request() or by a sine test that failed.
Finish(t) ==
    /\ Step(t, "finish", "idle")
    /\ g_playing' = Released
    /\ g_sine_active' = (g_sine_active /\ t # "shell")
    /\ Keep
    /\ UNCHANGED <<Hardware, pin, codec, driverVars, g_ready, g_play_q, left, last_set, faultVars>>

-----------------------------------------------------------------------------
(* Volume *)

\* Mutant: the register is written whatever the power state.
Deferred_Never == FALSE

\* In reset the register cannot be reached: the cache alone is used.
Deferred == g_in_reset

SetVolume(t) ==
    /\ At(t, "set")
    /\ g_ready /\ Free
    /\ \E p \in Volumes : g_vol_reg' = PercentToReg(p) /\ last_set' = p
    /\ IF Deferred THEN Goto(t, "idle") /\ Keep ELSE Goto(t, "setting") /\ Lock(t)
    /\ UNCHANGED <<Hardware, pin, codec, g_in_reset, claimVars, faultVars>>

WriteVolume(t) ==
    /\ Step(t, "setting", "idle")
    /\ \/ TransferOk /\ codec' = [codec EXCEPT !.vol = g_vol_reg]
       \/ TransferFails /\ UNCHANGED codec
    /\ Unlock
    /\ UNCHANGED <<Hardware, pin, driverVars, claimVars, last_set>>

GetVolume(t) ==
    /\ At(t, "get")
    /\ g_ready /\ Free
    /\ IF Deferred THEN Goto(t, "idle") /\ Keep ELSE Goto(t, "getting") /\ Lock(t)
    /\ UNCHANGED <<Hardware, pin, codec, driverVars, claimVars, last_set, faultVars>>

ReadVolume(t) ==
    /\ Step(t, "getting", "idle")
    /\ TransferOk \/ TransferFails
    /\ Unlock
    /\ UNCHANGED <<Hardware, pin, codec, driverVars, claimVars, last_set>>

-----------------------------------------------------------------------------
(* Power *)

\* Mutant: a codec that did not come up is left as it is.
UpFailed_Finishes(t) == Goto(t, "finish")

\* Both callers power down a codec that did not come up.
UpFailed(t) == Goto(t, "down")

\* vs_power_up(): the pin, then vs_configure()'s three writes.
PowerUp(t) ==
    /\ At(t, "up")
    /\ Free
    /\ \/ /\ pin' = FALSE /\ g_in_reset' = FALSE
          /\ Goto(t, "soft") /\ Lock(t) /\ NoFault
       \/ Fault("pin") /\ UpFailed(t) /\ Keep /\ UNCHANGED <<pin, g_in_reset>>
    /\ UNCHANGED <<Hardware, codec, g_vol_reg, claimVars, last_set>>

\* Mutant: power-up leaves the volume at its default.
Loaded_Default == [codec EXCEPT !.vol = 0]

Loaded == [codec EXCEPT !.vol = g_vol_reg]

\* Mutant: the error return forgets the mutex.
ConfigureFailed_StaysLocked(t) == UpFailed(t) /\ Keep

ConfigureFailed(t) == UpFailed(t) /\ Unlock

\* A soft reset ends a test or a cancel, and keeps the other registers.
Configure(t) ==
    /\ \/ /\ TransferOk
          /\ \/ /\ Step(t, "soft", "clock")
                /\ codec' = [codec EXCEPT !.mode = "new"]
                /\ Keep
             \/ /\ Step(t, "clock", "volume")
                /\ codec' = [codec EXCEPT !.clock = TRUE]
                /\ Keep
             \/ /\ Step(t, "volume", IF t = "audio" THEN "patch" ELSE "toneStart")
                /\ codec' = Loaded
                /\ Unlock
       \/ /\ pc[t] \in {"soft", "clock", "volume"}
          /\ TransferFails /\ ConfigureFailed(t) /\ UNCHANGED codec
    /\ UNCHANGED <<Hardware, pin, driverVars, claimVars, last_set>>

\* vs_power_down(): mute, whether or not the codec answers, then the pin.
PowerDown(t) ==
    /\ At(t, "down")
    /\ Free
    /\ IF g_in_reset THEN Goto(t, "finish") /\ Keep ELSE Goto(t, "mute") /\ Lock(t)
    /\ UNCHANGED <<Hardware, pin, codec, driverVars, claimVars, last_set, faultVars>>

Mute(t) ==
    /\ Step(t, "mute", "assert")
    /\ \/ TransferOk /\ codec' = [codec EXCEPT !.vol = Muted]
       \/ TransferFails /\ UNCHANGED codec
    /\ Keep
    /\ UNCHANGED <<Hardware, pin, driverVars, claimVars, last_set>>

AssertReset(t) ==
    /\ Step(t, "assert", "finish")
    /\ \/ /\ pin' = TRUE /\ g_in_reset' = TRUE
          /\ codec' = IF wired THEN Defaults ELSE codec
          /\ failed' = {} /\ UNCHANGED faults
       \/ Fault("pin") /\ UNCHANGED <<pin, g_in_reset, codec>>
    /\ Unlock
    /\ UNCHANGED <<Hardware, g_vol_reg, claimVars, last_set>>

-----------------------------------------------------------------------------
(* A sound *)

\* apply_patch_if_present(): one register write per call; a failing one, or a
\* file that cannot be read to its end, ends the patch and not the session.
ApplyPatch ==
    /\ Step("audio", "patch", "stream")
    /\ Free
    /\ \/ ~has_patch /\ NoFault /\ UNCHANGED codec
       \/ has_patch /\ TransferOk /\ codec' = [codec EXCEPT !.patch = TRUE]
       \/ has_patch /\ (TransferFails \/ Fault("file")) /\ UNCHANGED codec
    /\ Keep
    /\ UNCHANGED <<Hardware, pin, driverVars, claimVars, last_set>>

\* One turn of the loop: a chunk read and written, the end of the file, or a
\* write that fails.
Stream ==
    /\ At("audio", "stream")
    /\ Free
    /\ \/ left = 0 /\ Goto("audio", "end") /\ NoFault /\ UNCHANGED left
       \/ left > 0 /\ TransferOk /\ left' = left - 1 /\ UNCHANGED pc
       \/ left > 0 /\ TransferFails /\ Goto("audio", "end") /\ UNCHANGED left
    /\ Keep
    /\ UNCHANGED <<Hardware, pin, codec, driverVars, g_ready, g_playing, g_sine_active, g_play_q, last_set>>

\* vs_end_playback(): the fill, SM_CANCEL, its clearing, the soft reset.
EndFill ==
    /\ At("audio", "end")
    /\ Free
    /\ \/ TransferOk /\ Goto("audio", "cancel") /\ Lock("audio")
       \/ TransferFails /\ Goto("audio", "down") /\ Keep
    /\ UNCHANGED <<Hardware, pin, codec, driverVars, claimVars, last_set>>

Cancel ==
    /\ At("audio", "cancel")
    /\ \/ /\ TransferOk /\ Goto("audio", "drain") /\ Keep
          /\ codec' = [codec EXCEPT !.mode = "cancel"]
       \/ TransferFails /\ Goto("audio", "down") /\ Unlock /\ UNCHANGED codec
    /\ UNCHANGED <<Hardware, pin, driverVars, claimVars, last_set>>

Drain ==
    /\ At("audio", "drain")
    /\ \/ /\ TransferOk /\ Goto("audio", "down") /\ Unlock
          /\ codec' = [codec EXCEPT !.mode = "new"]
       \/ (TransferOk \/ TransferFails) /\ Goto("audio", "endReset") /\ Keep /\ UNCHANGED codec
    /\ UNCHANGED <<Hardware, pin, driverVars, claimVars, last_set>>

EndReset ==
    /\ Step("audio", "endReset", "down")
    /\ \/ TransferOk /\ codec' = [codec EXCEPT !.mode = "new"]
       \/ TransferFails /\ UNCHANGED codec
    /\ Unlock
    /\ UNCHANGED <<Hardware, pin, driverVars, claimVars, last_set>>

-----------------------------------------------------------------------------
(* The sine test *)

ToneMode ==
    /\ At("shell", "toneStart")
    /\ Free
    /\ \/ /\ TransferOk /\ Goto("shell", "toneData") /\ Lock("shell")
          /\ codec' = [codec EXCEPT !.mode = "tests"]
       \/ TransferFails /\ UpFailed("shell") /\ Keep /\ UNCHANGED codec
    /\ UNCHANGED <<Hardware, pin, driverVars, claimVars, last_set>>

ToneData ==
    /\ At("shell", "toneData")
    /\ \/ TransferOk /\ g_sine_active' = TRUE /\ Goto("shell", "idle")
       \/ TransferFails /\ UpFailed("shell") /\ UNCHANGED g_sine_active
    /\ Unlock
    /\ UNCHANGED <<Hardware, pin, codec, driverVars, g_ready, g_playing, g_play_q, left, last_set>>

\* vs_sine_test(false): the stop sequence, then the mode; the caller powers
\* down whether or not they went through.
ToneStop ==
    /\ At("shell", "toneStop")
    /\ Free
    /\ \/ TransferOk /\ Goto("shell", "toneMode") /\ Lock("shell")
       \/ TransferFails /\ Goto("shell", "down") /\ Keep
    /\ UNCHANGED <<Hardware, pin, codec, driverVars, claimVars, last_set>>

ToneReset ==
    /\ Step("shell", "toneMode", "down")
    /\ \/ TransferOk /\ codec' = [codec EXCEPT !.mode = "new"]
       \/ TransferFails /\ UNCHANGED codec
    /\ Unlock
    /\ UNCHANGED <<Hardware, pin, driverVars, claimVars, last_set>>

-----------------------------------------------------------------------------
PowerStep(t) ==
    PowerUp(t) \/ Configure(t) \/ PowerDown(t) \/ Mute(t) \/ AssertReset(t) \/ Finish(t)
AudioStep ==
    \/ TakeRequest \/ PowerStep("audio") \/ ApplyPatch \/ Stream
    \/ EndFill \/ Cancel \/ Drain \/ EndReset
ToneStep == ToneOn \/ ToneOff \/ ToneMode \/ ToneData \/ ToneStop \/ ToneReset
VolumeStep(t) == NotReady(t) \/ Play(t) \/ SetVolume(t) \/ WriteVolume(t)
ShellStep ==
    VolumeStep("shell") \/ GetVolume("shell") \/ ReadVolume("shell") \/ ToneStep \/ PowerStep("shell")
MainStep == AudioInit \/ VolumeStep("main")

Next == AudioStep \/ ShellStep \/ MainStep \/ Command("shell") \/ Command("main")

Spec == Init /\ [][Next]_vars

\* Every thread runs, and k_mutex_unlock() hands the mutex to a waiter.
FairSpec == Spec /\ SF_vars(AudioStep) /\ SF_vars(ShellStep) /\ SF_vars(MainStep)
-----------------------------------------------------------------------------
(* Properties *)

\* No register or data transfer is tried while the codec is held in reset,
\* where it "would hang on DREQ": not by the volume calls that come in at any
\* time, and not by a session, which never has the codec powered down under it.
Transfers == (Locked \ {"assert"}) \cup {"patch", "stream", "end", "toneStart", "toneStop"}
NoTransferInReset == \A t \in Threads : pc[t] \in Transfers => ~pin /\ ~g_in_reset

\* Every chunk of a sound goes to a codec with its clock set, out of test and
\* cancel mode, patched if there is a patch and at the volume last set, unless
\* a transfer failed since it was woken: "after a hardware reset all SCI
\* registers are at their defaults and must be reprogrammed".
Ready ==
    /\ codec.clock /\ codec.mode = "new"
    /\ codec.vol = g_vol_reg
StreamsConfigured ==
    Free /\ At("audio", "stream") /\ failed = {} => Ready /\ (has_patch => codec.patch)

\* Between sessions the codec is asleep, whatever failed in the session and
\* however it ended, unless the pin itself did not move ("held in hardware
\* reset while idle").
AsleepWhenIdle == g_ready /\ ~g_playing /\ "pin" \notin failed => pin /\ g_in_reset

\* A volume asked for at any time is the one last set, by whichever thread and
\* whether or not the codec was awake then: the way to the register and back
\* loses nothing.
VolumeTold ==
    g_ready /\ Free /\ failed = {}
      => RegToPercent(IF g_in_reset THEN g_vol_reg ELSE codec.vol) = last_set

\* Every sound that was asked for ends and gives the codec up, whatever fails
\* and whoever else wants the mutex; only a tone may hold its claim on.
SessionEnds == g_playing ~> (~g_playing \/ g_sine_active)
=============================================================================
