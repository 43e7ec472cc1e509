---------------------------- MODULE CodecProofs ----------------------------
(***************************************************************************)
(* Theorems about Codec, for every set of volumes, every length of sound   *)
(* and any number of faults.                                               *)
(***************************************************************************)
EXTENDS Codec, TLAPS

\* Where a thread can be, the shell's session and the playback's.
ToneLabels == {"up", "soft", "clock", "volume", "toneStart", "toneData", "toneStop", "toneMode",
               "down", "mute", "assert", "finish"}
PlayLabels == {"up", "soft", "clock", "volume", "patch", "stream", "end", "cancel", "drain",
               "endReset", "down", "mute", "assert", "finish"}
Requests == {"get", "set", "toneOn", "toneOff", "play"}

Playing == pc["audio"] # "idle"
Toning == g_sine_active \/ pc["shell"] \in ToneLabels

\* Each thread stays in its own code, and nobody passes a "g_ready" test
\* before audio_init() has set it.
PlacesInv ==
    /\ pc["main"] \in {"init", "idle", "set", "setting", "play"}
    /\ pc["audio"] \in PlayLabels \cup {"idle"}
    /\ pc["shell"] \in ToneLabels \cup Requests \cup {"idle", "getting", "setting"}
    /\ pc["main"] = "init" => ~g_ready
    /\ ~g_ready => /\ pc["audio"] = "idle" /\ ~g_play_q /\ ~Toning
                   /\ \A t \in Threads : pc[t] \notin {"getting", "setting"}

\* g_playing is a claim: of a request, a session or a tone, and of one only.
ClaimInv ==
    /\ ~g_playing => ~g_play_q /\ ~Playing /\ ~Toning
    /\ ~(g_play_q /\ Playing) /\ ~(g_play_q /\ Toning) /\ ~(Playing /\ Toning)

\* Who transfers holds the codec awake, and an awake codec has a session.
Awake == Transfers \cup {"assert"}
PowerInv ==
    /\ \A t \in Threads : pc[t] \in Awake => ~g_in_reset
    /\ g_sine_active /\ pc["shell"] # "finish" /\ pc["shell"] # "down" => ~g_in_reset
    /\ g_ready => (pin <=> g_in_reset)
    /\ g_ready /\ "pin" \notin failed /\ ~g_in_reset =>
         \/ pc["audio"] \notin {"idle", "up", "finish"}
         \/ pc["shell"] \in ToneLabels \ {"up", "finish"}
         \/ g_sine_active /\ pc["shell"] # "finish"

\* The cache holds what was last asked for, and an awake codec what the cache
\* holds, except within the calls that are about to bring it there.
VolumeInv ==
    /\ pc["main"] = "init" => last_set = 80
    /\ g_ready => g_vol_reg = PercentToReg(last_set)
    /\ g_ready /\ ~g_in_reset /\ failed = {} =>
         \/ codec.vol = g_vol_reg
         \/ \E t \in Threads : pc[t] \in {"soft", "clock", "volume", "setting", "assert"}

\* What the playback thread has configured so far.
ConfigInv ==
    failed = {} =>
      /\ pc["audio"] \in {"clock", "volume", "patch", "stream"} => codec.mode = "new"
      /\ pc["audio"] \in {"volume", "patch", "stream"} => codec.clock
      /\ pc["audio"] = "stream" /\ has_patch => codec.patch

\* The parts of the type invariant: who holds the mutex, and the data.
LockInv ==
    /\ pc \in [Threads -> Labels]
    /\ g_codec_mutex \in Threads \cup {"free"}
    /\ \A t \in Threads : g_codec_mutex = t <=> pc[t] \in Locked
FlagsInv ==
    {wired, has_patch, pin, g_in_reset, g_ready, g_playing, g_sine_active, g_play_q} \subseteq BOOLEAN
CodecType ==
    codec \in [vol : 0..255, mode : {"new", "tests", "cancel"}, clock : BOOLEAN, patch : BOOLEAN]
CountsInv ==
    /\ g_vol_reg \in 0..254 /\ last_set \in 0..100
    /\ left \in 0..MaxChunks
    /\ failed \subseteq {"bus", "pin", "file"} /\ faults \in 0..MaxFaults

ControlInv == LockInv /\ PlacesInv /\ ClaimInv /\ PowerInv /\ VolumeInv /\ ConfigInv
CodecInv == TypeOK /\ ControlInv

-----------------------------------------------------------------------------
\* An attenuation of the conversion is a byte up to silence, and the way back
\* from it finds the percentage again.
LEMMA Conversion ==
    ASSUME NEW p \in 0..100
    PROVE  PercentToReg(p) \in 0..254 /\ RegToPercent(PercentToReg(p)) = p
<1>1. PercentToReg(p) = ((100 - p) * 254) \div 100
  BY DEF PercentToReg
<1> DEFINE a == ((100 - p) * 254) \div 100
<1>2. a \in Int /\ 100 * a <= (100 - p) * 254 /\ (100 - p) * 254 < 100 * a + 100
  OBVIOUS
<1>3. a \in 0..254
  BY <1>2
<1>4. RegToPercent(a) = p
  <2>1. CASE p = 0
    BY <2>1, <1>2 DEF RegToPercent
  <2>2. CASE p # 0
    <3>1. a < 254
      BY <2>2, <1>2
    <3>2. ((254 - a) * 100) \div 254 = p
      BY <1>2, <1>3
    <3> QED
      BY <3>1, <3>2, <1>3 DEF RegToPercent
  <2> QED
    BY <2>1, <2>2
<1> QED
  BY <1>1, <1>3, <1>4

LEMMA FaultsStep ==
    ASSUME CodecInv, [Next]_vars
    PROVE  failed' \subseteq {"bus", "pin", "file"} /\ faults' \in 0..MaxFaults
<1> USE DEF NoFault, Fault, TransferOk, TransferFails, faultVars
<1>1. \/ failed' = failed \/ failed' = {}
      \/ \E kind \in {"bus", "pin", "file"} : failed' = failed \cup {kind}
  BY DEF Next, vars, AudioStep, ShellStep, MainStep, VolumeStep, ToneStep, PowerStep,
        AudioInit, Command, NotReady, Play, TakeRequest, ToneOn, ToneOff, Finish, SetVolume,
        WriteVolume, GetVolume, ReadVolume, PowerUp, Configure, PowerDown, Mute, AssertReset,
        ApplyPatch, Stream, EndFill, Cancel, Drain, EndReset, ToneMode, ToneData, ToneStop, ToneReset
<1>2. faults' = faults \/ (faults < MaxFaults /\ faults' = faults + 1)
  BY DEF Next, vars, AudioStep, ShellStep, MainStep, VolumeStep, ToneStep, PowerStep,
        AudioInit, Command, NotReady, Play, TakeRequest, ToneOn, ToneOff, Finish, SetVolume,
        WriteVolume, GetVolume, ReadVolume, PowerUp, Configure, PowerDown, Mute, AssertReset,
        ApplyPatch, Stream, EndFill, Cancel, Drain, EndReset, ToneMode, ToneData, ToneStop, ToneReset
<1>3. failed' \subseteq {"bus", "pin", "file"}
  BY <1>1 DEF CodecInv, TypeOK
<1>4. faults' \in 0..MaxFaults
  BY <1>2, BoundsAssumption DEF CodecInv, TypeOK
<1> QED
  BY <1>3, <1>4

LEMMA CountsStep ==
    ASSUME CodecInv, [Next]_vars
    PROVE  CountsInv'
<1> USE DEF driverVars, claimVars
<1>1. \/ UNCHANGED <<g_vol_reg, last_set>>
      \/ \E p \in Volumes \cup {80} :
           g_vol_reg' = PercentToReg(p) /\ last_set' \in {last_set, p}
  BY DEF Next, vars, AudioStep, ShellStep, MainStep, VolumeStep, ToneStep, PowerStep,
        AudioInit, Command, NotReady, Play, TakeRequest, ToneOn, ToneOff, Finish, SetVolume,
        WriteVolume, GetVolume, ReadVolume, PowerUp, Configure, PowerDown, Mute, AssertReset,
        ApplyPatch, Stream, EndFill, Cancel, Drain, EndReset, ToneMode, ToneData, ToneStop, ToneReset
<1>2. \/ left' = left \/ left' \in 0..MaxChunks \/ (left > 0 /\ left' = left - 1)
  BY DEF Next, vars, AudioStep, ShellStep, MainStep, VolumeStep, ToneStep, PowerStep,
        AudioInit, Command, NotReady, Play, TakeRequest, ToneOn, ToneOff, Finish, SetVolume,
        WriteVolume, GetVolume, ReadVolume, PowerUp, Configure, PowerDown, Mute, AssertReset,
        ApplyPatch, Stream, EndFill, Cancel, Drain, EndReset, ToneMode, ToneData, ToneStop, ToneReset
<1>3. left' \in 0..MaxChunks
  BY <1>2, BoundsAssumption DEF CodecInv, TypeOK
<1>4. g_vol_reg' \in 0..254 /\ last_set' \in 0..100
  <2>1. CASE UNCHANGED <<g_vol_reg, last_set>>
    BY <2>1 DEF CodecInv, TypeOK
  <2>2. ASSUME NEW p \in Volumes \cup {80},
               g_vol_reg' = PercentToReg(p), last_set' \in {last_set, p}
        PROVE  g_vol_reg' \in 0..254 /\ last_set' \in 0..100
    <3>1. p \in 0..100
      BY VolumesAssumption
    <3>2. PercentToReg(p) \in 0..254
      BY <3>1, Conversion
    <3> QED
      BY <2>2, <3>1, <3>2 DEF CodecInv, TypeOK
  <2> QED
    BY <1>1, <2>1, <2>2
<1> QED
  BY <1>3, <1>4, FaultsStep DEF CountsInv

LEMMA CodecTypeStep ==
    ASSUME CodecInv, [Next]_vars
    PROVE  CodecType'
<1>1. \/ codec' = codec
      \/ codec' = Defaults
      \/ codec' = [codec EXCEPT !.patch = TRUE]
      \/ codec' = [codec EXCEPT !.clock = TRUE]
      \/ \E m \in {"new", "tests", "cancel"} : codec' = [codec EXCEPT !.mode = m]
      \/ \E v \in {g_vol_reg, Muted} : codec' = [codec EXCEPT !.vol = v]
  BY DEF Next, vars, AudioStep, ShellStep, MainStep, VolumeStep, ToneStep, PowerStep,
        AudioInit, Command, NotReady, Play, TakeRequest, ToneOn, ToneOff, Finish, SetVolume,
        WriteVolume, GetVolume, ReadVolume, PowerUp, Configure, PowerDown, Mute, AssertReset,
        ApplyPatch, Stream, EndFill, Cancel, Drain, EndReset, ToneMode, ToneData, ToneStop, ToneReset, Loaded
<1>2. CodecType /\ g_vol_reg \in 0..254 /\ Muted \in 0..255
  BY DEF CodecInv, TypeOK, CodecType, Muted
<1>3. CASE codec' = codec
  BY <1>2, <1>3 DEF CodecType
<1>4. CASE codec' = Defaults
  BY <1>4 DEF CodecType, Defaults
<1>5. CASE codec' = [codec EXCEPT !.patch = TRUE]
  BY <1>2, <1>5 DEF CodecType
<1>6. CASE codec' = [codec EXCEPT !.clock = TRUE]
  BY <1>2, <1>6 DEF CodecType
<1>7. ASSUME NEW m \in {"new", "tests", "cancel"}, codec' = [codec EXCEPT !.mode = m]
      PROVE  CodecType'
  BY <1>2, <1>7 DEF CodecType
<1>8. ASSUME NEW v \in {g_vol_reg, Muted}, codec' = [codec EXCEPT !.vol = v]
      PROVE  CodecType'
  BY <1>2, <1>8 DEF CodecType
<1> QED
  BY <1>1, <1>3, <1>4, <1>5, <1>6, <1>7, <1>8

LEMMA FlagsStep ==
    ASSUME CodecInv, [Next]_vars
    PROVE  FlagsInv'
<1> USE DEF Hardware, driverVars, claimVars
<1>1. UNCHANGED <<wired, has_patch>>
  BY DEF Next, vars, AudioStep, ShellStep, MainStep, VolumeStep, ToneStep, PowerStep,
        AudioInit, Command, NotReady, Play, TakeRequest, ToneOn, ToneOff, Finish, SetVolume,
        WriteVolume, GetVolume, ReadVolume, PowerUp, Configure, PowerDown, Mute, AssertReset,
        ApplyPatch, Stream, EndFill, Cancel, Drain, EndReset, ToneMode, ToneData, ToneStop, ToneReset
<1>2. /\ pin' = pin \/ pin' = TRUE \/ pin' = FALSE
      /\ g_in_reset' = g_in_reset \/ g_in_reset' = TRUE \/ g_in_reset' = FALSE
      /\ g_ready' = g_ready \/ g_ready' = TRUE
      /\ g_playing' = g_playing \/ g_playing' = TRUE \/ g_playing' = FALSE
  BY DEF Next, vars, AudioStep, ShellStep, MainStep, VolumeStep, ToneStep, PowerStep,
        AudioInit, Command, NotReady, Play, TakeRequest, ToneOn, ToneOff, Finish, SetVolume,
        WriteVolume, GetVolume, ReadVolume, PowerUp, Configure, PowerDown, Mute, AssertReset,
        ApplyPatch, Stream, EndFill, Cancel, Drain, EndReset, ToneMode, ToneData, ToneStop, ToneReset, Released
<1>3. g_sine_active' = g_sine_active \/ g_sine_active' = TRUE \/ g_sine_active' = FALSE
  BY DEF Next, vars, AudioStep, ShellStep, MainStep, VolumeStep, ToneStep, PowerStep,
        AudioInit, Command, NotReady, Play, TakeRequest, ToneOn, ToneOff, Finish, SetVolume,
        WriteVolume, GetVolume, ReadVolume, PowerUp, Configure, PowerDown, Mute, AssertReset,
        ApplyPatch, Stream, EndFill, Cancel, Drain, EndReset, ToneMode, ToneData, ToneStop, ToneReset
<1>4. g_play_q' = g_play_q \/ g_play_q' = TRUE \/ g_play_q' = FALSE
  BY DEF Next, vars, AudioStep, ShellStep, MainStep, VolumeStep, ToneStep, PowerStep,
        AudioInit, Command, NotReady, Play, TakeRequest, ToneOn, ToneOff, Finish, SetVolume,
        WriteVolume, GetVolume, ReadVolume, PowerUp, Configure, PowerDown, Mute, AssertReset,
        ApplyPatch, Stream, EndFill, Cancel, Drain, EndReset, ToneMode, ToneData, ToneStop, ToneReset
<1>5. pin' \in BOOLEAN /\ g_in_reset' \in BOOLEAN
  BY <1>2, Zenon DEF CodecInv, TypeOK
<1>6. g_ready' \in BOOLEAN /\ g_playing' \in BOOLEAN
  BY <1>2, Zenon DEF CodecInv, TypeOK
<1>7. g_sine_active' \in BOOLEAN
  BY <1>3, Zenon DEF CodecInv, TypeOK
<1>8. g_play_q' \in BOOLEAN
  BY <1>4, Zenon DEF CodecInv, TypeOK
<1> QED
  BY <1>1, <1>5, <1>6, <1>7, <1>8, Zenon DEF CodecInv, TypeOK, FlagsInv

\* The control of the threads: one step per action.
LEMMA ControlStep ==
    ASSUME CodecInv, [Next]_vars
    PROVE  ControlInv'
<1> USE VolumesAssumption, BoundsAssumption 
    DEF At, Goto, Step, Free, Lock, Unlock, Keep, Hardware, NoFault, Fault, Held, TransferOk,
        TransferFails, driverVars, claimVars, faultVars, CodecInv, TypeOK, LockInv, PlacesInv,
        ClaimInv, PowerInv, VolumeInv, ConfigInv, ControlInv, Threads, Labels, Playing, Toning,
        Awake, Transfers, Locked, ToneLabels, PlayLabels, Requests
<1>1. CASE UNCHANGED vars
  BY <1>1 DEF vars
<1>2. CASE AudioInit
  BY <1>2 DEF AudioInit
<1>3. CASE TakeRequest
  BY <1>3 DEF TakeRequest
<1>4. CASE ToneOn
  BY <1>4 DEF ToneOn
<1>5. CASE ToneOff
  BY <1>5 DEF ToneOff
<1>6. CASE ApplyPatch
  BY <1>6 DEF ApplyPatch
<1>7. CASE Stream
  BY <1>7 DEF Stream
<1>8. CASE EndFill
  BY <1>8 DEF EndFill
<1>9. CASE Cancel
  BY <1>9 DEF Cancel
<1>10. CASE Drain
  BY <1>10 DEF Drain
<1>11. CASE EndReset
  BY <1>11 DEF EndReset
<1>12. CASE ToneMode
  BY <1>12 DEF ToneMode, UpFailed
<1>13. CASE ToneData
  BY <1>13 DEF ToneData, UpFailed
<1>14. CASE ToneStop
  BY <1>14 DEF ToneStop
<1>15. CASE ToneReset
  BY <1>15 DEF ToneReset
<1>16. ASSUME NEW t \in {"shell", "main"}, Command(t) PROVE ControlInv'
  BY <1>16 DEF Command, Commands
<1>17. ASSUME NEW t \in {"shell", "main"}, NotReady(t) PROVE ControlInv'
  BY <1>17 DEF NotReady
<1>18. ASSUME NEW t \in {"shell", "main"}, Play(t) PROVE ControlInv'
  BY <1>18 DEF Play
<1>19. ASSUME NEW t \in {"shell", "main"}, SetVolume(t) PROVE ControlInv'
  BY <1>19 DEF SetVolume, Deferred
<1>20. ASSUME NEW t \in {"shell", "main"}, WriteVolume(t) PROVE ControlInv'
  BY <1>20 DEF WriteVolume
<1>21. ASSUME NEW t \in {"shell"}, GetVolume(t) PROVE ControlInv'
  BY <1>21 DEF GetVolume, Deferred
<1>22. ASSUME NEW t \in {"shell"}, ReadVolume(t) PROVE ControlInv'
  BY <1>22 DEF ReadVolume
<1>23. ASSUME NEW t \in {"audio", "shell"}, PowerUp(t) PROVE ControlInv'
  BY <1>23 DEF PowerUp, UpFailed
<1>24. ASSUME NEW t \in {"audio", "shell"}, Configure(t) PROVE ControlInv'
  BY <1>24 DEF Configure, Loaded, ConfigureFailed, UpFailed
<1>25. ASSUME NEW t \in {"audio", "shell"}, PowerDown(t) PROVE ControlInv'
  BY <1>25 DEF PowerDown
<1>26. ASSUME NEW t \in {"audio", "shell"}, Mute(t) PROVE ControlInv'
  BY <1>26 DEF Mute
<1>27. ASSUME NEW t \in {"audio", "shell"}, AssertReset(t) PROVE ControlInv'
  BY <1>27 DEF AssertReset
<1>28. ASSUME NEW t \in {"audio", "shell"}, Finish(t) PROVE ControlInv'
  BY <1>28 DEF Finish, Released
<1> QED
  BY <1>1, <1>2, <1>3, <1>4, <1>5, <1>6, <1>7, <1>8, <1>9, <1>10, <1>11, <1>12, <1>13, <1>14,
     <1>15, <1>16, <1>17, <1>18, <1>19, <1>20, <1>21, <1>22, <1>23, <1>24, <1>25, <1>26, <1>27,
     <1>28
    DEF Next, AudioStep, ShellStep, MainStep, VolumeStep, ToneStep, PowerStep

-----------------------------------------------------------------------------
(* The invariant and the theorems *)

LEMMA CodecInit == Init => CodecInv
<1> SUFFICES ASSUME Init PROVE CodecInv
  OBVIOUS
<1>1. TypeOK
  <2>1. FlagsInv
    BY DEF Init, FlagsInv
  <2>2. CodecType /\ CountsInv
    BY BoundsAssumption DEF Init, CodecType, CountsInv, Defaults
  <2>3. LockInv
    BY DEF Init, LockInv, Threads, Labels, Locked
  <2> QED
    BY <2>1, <2>2, <2>3 DEF TypeOK, FlagsInv, CodecType, CountsInv, LockInv
<1>2. ControlInv
  BY DEF Init, ControlInv, LockInv, PlacesInv, ClaimInv, PowerInv, VolumeInv, ConfigInv, Threads,
         Labels, Locked, Playing, Toning, ToneLabels, PlayLabels, Requests, Awake, Transfers
<1> QED
  BY <1>1, <1>2 DEF CodecInv

LEMMA CodecStep == CodecInv /\ [Next]_vars => CodecInv'
<1> SUFFICES ASSUME CodecInv, [Next]_vars PROVE CodecInv'
  OBVIOUS
<1>1. ControlInv'
  BY ControlStep
<1>2. FlagsInv' /\ CodecType' /\ CountsInv'
  BY FlagsStep, CodecTypeStep, CountsStep
<1>3. TypeOK'
  BY <1>1, <1>2 DEF TypeOK, ControlInv, LockInv, FlagsInv, CodecType, CountsInv
<1> QED
  BY <1>1, <1>3 DEF CodecInv

LEMMA CodecAlways == Spec => []CodecInv
BY CodecInit, CodecStep, PTL DEF Spec

\* The type invariant: g_codec_mutex is held in exactly the steps of a call of
\* vs1053b.c, whichever way the call returns.
THEOREM MutexReleased == Spec => []TypeOK
<1>1. CodecInv => TypeOK
  BY DEF CodecInv
<1> QED
  BY <1>1, CodecAlways, PTL

\* No transfer is tried while the codec is held in reset: the claim keeps the
\* sessions apart, and the mutex the volume calls from the power changes.
THEOREM NeverHangsOnDreq == Spec => []NoTransferInReset
<1>1. CodecInv => NoTransferInReset
  <2> SUFFICES ASSUME CodecInv, NEW t \in Threads, pc[t] \in Transfers
               PROVE  ~pin /\ ~g_in_reset
    BY DEF NoTransferInReset
  <2>1. ~g_in_reset
    BY DEF CodecInv, ControlInv, PowerInv, Awake
  <2>2. g_ready
    BY DEF CodecInv, ControlInv, PlacesInv, Threads, Transfers, Locked, Toning, ToneLabels,
           PlayLabels, Requests
  <2> QED
    BY <2>1, <2>2 DEF CodecInv, ControlInv, PowerInv
<1> QED
  BY <1>1, CodecAlways, PTL

\* With nobody in a session the codec sleeps, however the last one ended.
THEOREM SleepsWhenIdle == Spec => []AsleepWhenIdle
<1>1. CodecInv => AsleepWhenIdle
  BY DEF CodecInv, ControlInv, PowerInv, ClaimInv, AsleepWhenIdle, Playing, Toning
<1> QED
  BY <1>1, CodecAlways, PTL

\* An awake codec that nobody is at work on has the volume of the cache.
LEMMA VolumeLoaded ==
    ASSUME CodecInv, g_ready, ~g_in_reset, failed = {}, Free
    PROVE  codec.vol = g_vol_reg
<1>1. \A t \in Threads : pc[t] \notin Locked
  BY DEF CodecInv, ControlInv, LockInv, Free, Threads
<1> QED
  BY <1>1 DEF CodecInv, ControlInv, VolumeInv, Locked

\* Every chunk of a sound goes to a codec that vs_configure() has set up since
\* its reset, with the patch if there is one.
THEOREM StreamsToReadyCodec == Spec => []StreamsConfigured
<1>1. CodecInv => StreamsConfigured
  <2> SUFFICES ASSUME CodecInv, Free, At("audio", "stream"), failed = {}
               PROVE  Ready /\ (has_patch => codec.patch)
    BY DEF StreamsConfigured
  <2>1. g_ready /\ ~g_in_reset
    BY DEF CodecInv, ControlInv, PlacesInv, PowerInv, Awake, Transfers, At, Threads
  <2>2. codec.vol = g_vol_reg
    BY <2>1, VolumeLoaded
  <2> QED
    BY <2>2 DEF CodecInv, ControlInv, ConfigInv, At, Ready
<1> QED
  BY <1>1, CodecAlways, PTL

\* The volume that is told is the one last asked for, for every percentage.
THEOREM TellsVolume == Spec => []VolumeTold
<1>1. CodecInv => VolumeTold
  <2> SUFFICES ASSUME CodecInv, g_ready, Free, failed = {}
               PROVE  RegToPercent(IF g_in_reset THEN g_vol_reg ELSE codec.vol) = last_set
    BY DEF VolumeTold
  <2>1. (IF g_in_reset THEN g_vol_reg ELSE codec.vol) = PercentToReg(last_set)
    BY VolumeLoaded DEF CodecInv, ControlInv, VolumeInv
  <2>2. last_set \in 0..100
    BY DEF CodecInv, TypeOK
  <2> QED
    BY <2>1, <2>2, Conversion
<1> QED
  BY <1>1, CodecAlways, PTL
-----------------------------------------------------------------------------
(* Work runs out *)

\* How many steps a thread at a label has before it is idle, the chunks of a
\* sound aside; a play makes a session.
StepsFrom(label) ==
    CASE label = "idle" -> 0
      [] label \in {"finish", "setting", "getting"} -> 1
      [] label \in {"assert", "set", "get"} -> 2
      [] label \in {"mute", "init"} -> 3
      [] label = "down" -> 4
      [] label \in {"endReset", "toneMode", "toneData"} -> 5
      [] label \in {"drain", "toneStop", "toneStart"} -> 6
      [] label \in {"cancel", "toneOff"} -> 7
      [] label = "end" -> 8
      [] label = "stream" -> 9
      [] label = "patch" -> 10
      [] label = "volume" -> 11
      [] label = "clock" -> 12
      [] label = "soft" -> 13
      [] label = "up" -> 14
      [] label = "toneOn" -> 15
      [] label = "play" -> MaxChunks + 16

Work ==
    StepsFrom(pc["main"]) + StepsFrom(pc["audio"]) + StepsFrom(pc["shell"]) + left
      + (IF g_play_q THEN MaxChunks + 15 ELSE 0)

\* Every step of the driver and of its callers that no command starts uses up
\* work of what was asked for: no failure is retried for ever, no sound or tone
\* sets off another, and no two threads keep each other busy.
WorkRunsOut == [][~(\E t \in Threads : Command(t)) => Work' < Work]_vars

\* The weights of the labels.
LEMMA Weights ==
    /\ \A label \in Labels : StepsFrom(label) \in Nat
    /\ StepsFrom("idle") = 0
    /\ \A label \in {"finish", "setting", "getting"} : StepsFrom(label) = 1
    /\ \A label \in {"assert", "set", "get"} : StepsFrom(label) = 2
    /\ \A label \in {"mute", "init"} : StepsFrom(label) = 3
    /\ StepsFrom("down") = 4
    /\ \A label \in {"endReset", "toneMode", "toneData"} : StepsFrom(label) = 5
    /\ \A label \in {"drain", "toneStop", "toneStart"} : StepsFrom(label) = 6
    /\ \A label \in {"cancel", "toneOff"} : StepsFrom(label) = 7
    /\ StepsFrom("end") = 8 /\ StepsFrom("stream") = 9 /\ StepsFrom("patch") = 10
    /\ StepsFrom("volume") = 11 /\ StepsFrom("clock") = 12 /\ StepsFrom("soft") = 13
    /\ StepsFrom("up") = 14 /\ StepsFrom("toneOn") = 15
    /\ StepsFrom("play") = MaxChunks + 16
BY BoundsAssumption DEF StepsFrom, Labels, Locked

\* A thread that moves on and leaves the rest alone has used up work.
Forward ==
    /\ UNCHANGED <<left, g_play_q>>
    /\ \E t \in Threads, label \in Labels :
         pc' = [pc EXCEPT ![t] = label] /\ StepsFrom(label) < StepsFrom(pc[t])

LEMMA WorkIsNat == CodecInv => Work \in Nat
BY Weights, BoundsAssumption DEF CodecInv, TypeOK, Work, Threads

LEMMA ForwardWorks == ASSUME CodecInv, Forward PROVE Work' < Work
<1> DEFINE queued == IF g_play_q THEN MaxChunks + 15 ELSE 0
<1>1. queued \in Nat /\ queued' = queued /\ left \in Nat /\ left' = left
  BY BoundsAssumption DEF CodecInv, TypeOK, Forward
<1>2. \A t \in Threads : StepsFrom(pc[t]) \in Nat
  BY Weights DEF CodecInv, TypeOK
<1>3. PICK t \in Threads, label \in Labels :
        pc' = [pc EXCEPT ![t] = label] /\ StepsFrom(label) < StepsFrom(pc[t])
  BY DEF Forward
<1>4. pc'[t] = label /\ \A u \in Threads \ {t} : pc'[u] = pc[u]
  BY <1>3 DEF CodecInv, TypeOK
<1>5. StepsFrom(label) \in Nat
  BY Weights
<1>6. Work = StepsFrom(pc["main"]) + StepsFrom(pc["audio"]) + StepsFrom(pc["shell"]) + left + queued
  BY DEF Work
<1>7. Work' = StepsFrom(pc'["main"]) + StepsFrom(pc'["audio"]) + StepsFrom(pc'["shell"]) + left + queued
  BY <1>1 DEF Work
<1> HIDE DEF queued
<1> QED
  BY <1>1, <1>2, <1>3, <1>4, <1>5, <1>6, <1>7 DEF Threads

\* A play pays for the session it asks for.
LEMMA PlayWorks == ASSUME CodecInv, NEW t \in {"shell", "main"}, Play(t) PROVE Work' < Work
<1>1. pc' = [pc EXCEPT ![t] = "idle"] /\ pc[t] = "play" /\ left' = left
  BY DEF Play, Step, At, Goto
<1>2. \A u \in Threads : StepsFrom(pc[u]) \in Nat
  BY Weights DEF CodecInv, TypeOK
<1>3. StepsFrom(pc[t]) = MaxChunks + 16 /\ StepsFrom("idle") = 0
  BY <1>1, Weights
<1>4. pc'[t] = "idle" /\ \A u \in Threads \ {t} : pc'[u] = pc[u]
  BY <1>1 DEF CodecInv, TypeOK, Threads
<1> QED
  BY <1>1, <1>2, <1>3, <1>4, BoundsAssumption DEF Work, Threads, CodecInv, TypeOK

\* A session takes no longer than was set aside for it, whatever the file.
LEMMA RequestWorks == ASSUME CodecInv, TakeRequest PROVE Work' < Work
<1>1. PICK label \in {"up", "finish"} : pc' = [pc EXCEPT !["audio"] = label]
  BY DEF TakeRequest, Goto
<1>2. pc["audio"] = "idle" /\ g_play_q /\ ~g_play_q' /\ left' \in 0..MaxChunks
  BY DEF TakeRequest, At
<1>3. \A u \in Threads : StepsFrom(pc[u]) \in Nat
  BY Weights DEF CodecInv, TypeOK
<1>4. StepsFrom(label) \in 0..14 /\ StepsFrom(pc["audio"]) = 0
  BY <1>2, Weights
<1>5. pc'["audio"] = label /\ pc'["main"] = pc["main"] /\ pc'["shell"] = pc["shell"]
  BY <1>1 DEF CodecInv, TypeOK, Threads
<1> QED
  BY <1>2, <1>3, <1>4, <1>5, BoundsAssumption DEF Work, Threads, CodecInv, TypeOK

\* A chunk is played once.
LEMMA ChunkWorks ==
    ASSUME CodecInv, left > 0, left' = left - 1, UNCHANGED <<pc, g_play_q>>
    PROVE  Work' < Work
<1>1. \A u \in Threads : StepsFrom(pc[u]) \in Nat
  BY Weights DEF CodecInv, TypeOK
<1> QED
  BY <1>1, BoundsAssumption DEF Work, Threads, CodecInv, TypeOK

LEMMA WorkStep ==
    ASSUME CodecInv, Next, ~(\E t \in Threads : Command(t))
    PROVE  Work' < Work
<1> USE Weights
    DEF At, Goto, Step, claimVars, CodecInv, TypeOK, Threads, Forward, Labels, Locked
<1>1. CASE AudioInit
  <2>1. Forward
    BY <1>1 DEF AudioInit
  <2> QED
    BY <2>1, ForwardWorks
<1>2. CASE ToneOn
  <2>1. Forward
    BY <1>2 DEF ToneOn
  <2> QED
    BY <2>1, ForwardWorks
<1>3. CASE ToneOff
  <2>1. PICK label \in {"toneStop", "idle"} :
          /\ pc' = [pc EXCEPT !["shell"] = label] /\ pc["shell"] = "toneOff"
          /\ UNCHANGED <<left, g_play_q>>
    BY <1>3 DEF ToneOff
  <2>2. StepsFrom(label) < StepsFrom(pc["shell"])
    BY <2>1
  <2>3. Forward
    BY <2>1, <2>2
  <2> QED
    BY <2>3, ForwardWorks
<1>4. CASE ApplyPatch
  <2>1. Forward
    BY <1>4 DEF ApplyPatch
  <2> QED
    BY <2>1, ForwardWorks
<1>5. CASE EndFill
  <2>1. Forward
    BY <1>5 DEF EndFill
  <2> QED
    BY <2>1, ForwardWorks
<1>6. CASE Cancel
  <2>1. Forward
    BY <1>6 DEF Cancel
  <2> QED
    BY <2>1, ForwardWorks
<1>7. CASE Drain
  <2>1. Forward
    BY <1>7 DEF Drain
  <2> QED
    BY <2>1, ForwardWorks
<1>8. CASE EndReset
  <2>1. Forward
    BY <1>8 DEF EndReset
  <2> QED
    BY <2>1, ForwardWorks
<1>9. CASE ToneMode
  <2>1. Forward
    BY <1>9 DEF ToneMode, UpFailed
  <2> QED
    BY <2>1, ForwardWorks
<1>10. CASE ToneData
  <2>1. Forward
    BY <1>10 DEF ToneData, UpFailed
  <2> QED
    BY <2>1, ForwardWorks
<1>11. CASE ToneStop
  <2>1. Forward
    BY <1>11 DEF ToneStop
  <2> QED
    BY <2>1, ForwardWorks
<1>12. CASE ToneReset
  <2>1. Forward
    BY <1>12 DEF ToneReset
  <2> QED
    BY <2>1, ForwardWorks
<1>13. ASSUME NEW t \in {"shell", "main"}, NotReady(t) PROVE Work' < Work
  <2>1. /\ pc' = [pc EXCEPT ![t] = "idle"] /\ pc[t] \in {"get", "set", "toneOn", "toneOff", "play"}
        /\ UNCHANGED <<left, g_play_q>>
    BY <1>13 DEF NotReady
  <2>2. "idle" \in Labels /\ StepsFrom("idle") < StepsFrom(pc[t])
    BY <2>1, BoundsAssumption
  <2>3. Forward
    BY <2>1, <2>2
  <2> QED
    BY <2>3, ForwardWorks
<1>14. ASSUME NEW t \in {"shell", "main"}, SetVolume(t) PROVE Work' < Work
  <2>1. Forward
    BY <1>14 DEF SetVolume
  <2> QED
    BY <2>1, ForwardWorks
<1>15. ASSUME NEW t \in {"shell", "main"}, WriteVolume(t) PROVE Work' < Work
  <2>1. /\ pc' = [pc EXCEPT ![t] = "idle"] /\ pc[t] = "setting"
        /\ UNCHANGED <<left, g_play_q>>
    BY <1>15 DEF WriteVolume
  <2>2. "idle" \in Labels /\ StepsFrom("idle") < StepsFrom(pc[t])
    BY <2>1
  <2>3. Forward
    BY <2>1, <2>2
  <2> QED
    BY <2>3, ForwardWorks
<1>16. ASSUME NEW t \in {"shell"}, GetVolume(t) PROVE Work' < Work
  <2>1. Forward
    BY <1>16 DEF GetVolume
  <2> QED
    BY <2>1, ForwardWorks
<1>17. ASSUME NEW t \in {"shell"}, ReadVolume(t) PROVE Work' < Work
  <2>1. Forward
    BY <1>17 DEF ReadVolume
  <2> QED
    BY <2>1, ForwardWorks
<1>18. ASSUME NEW t \in {"audio", "shell"}, PowerUp(t) PROVE Work' < Work
  <2>1. Forward
    BY <1>18 DEF PowerUp, UpFailed
  <2> QED
    BY <2>1, ForwardWorks
<1>19. ASSUME NEW t \in {"audio", "shell"}, Configure(t) PROVE Work' < Work
  <2>1. Forward
    BY <1>19 DEF Configure, ConfigureFailed, UpFailed
  <2> QED
    BY <2>1, ForwardWorks
<1>20. ASSUME NEW t \in {"audio", "shell"}, PowerDown(t) PROVE Work' < Work
  <2>1. Forward
    BY <1>20 DEF PowerDown
  <2> QED
    BY <2>1, ForwardWorks
<1>21. ASSUME NEW t \in {"audio", "shell"}, Mute(t) PROVE Work' < Work
  <2>1. /\ pc' = [pc EXCEPT ![t] = "assert"] /\ pc[t] = "mute"
        /\ UNCHANGED <<left, g_play_q>>
    BY <1>21 DEF Mute
  <2>2. "assert" \in Labels /\ StepsFrom("assert") < StepsFrom(pc[t])
    BY <2>1
  <2>3. Forward
    BY <2>1, <2>2
  <2> QED
    BY <2>3, ForwardWorks
<1>22. ASSUME NEW t \in {"audio", "shell"}, AssertReset(t) PROVE Work' < Work
  <2>1. /\ pc' = [pc EXCEPT ![t] = "finish"] /\ pc[t] = "assert"
        /\ UNCHANGED <<left, g_play_q>>
    BY <1>22 DEF AssertReset
  <2>2. "finish" \in Labels /\ StepsFrom("finish") < StepsFrom(pc[t])
    BY <2>1
  <2>3. Forward
    BY <2>1, <2>2
  <2> QED
    BY <2>3, ForwardWorks
<1>23. ASSUME NEW t \in {"audio", "shell"}, Finish(t) PROVE Work' < Work
  <2>1. /\ pc' = [pc EXCEPT ![t] = "idle"] /\ pc[t] = "finish"
        /\ UNCHANGED <<left, g_play_q>>
    BY <1>23 DEF Finish
  <2>2. "idle" \in Labels /\ StepsFrom("idle") < StepsFrom(pc[t])
    BY <2>1
  <2>3. Forward
    BY <2>1, <2>2
  <2> QED
    BY <2>3, ForwardWorks
<1>24. CASE Stream
  <2>1. Forward \/ (left > 0 /\ left' = left - 1 /\ UNCHANGED <<pc, g_play_q>>)
    BY <1>24 DEF Stream
  <2> QED
    BY <2>1, ForwardWorks, ChunkWorks
<1>25. ASSUME NEW t \in {"shell", "main"}, Play(t) PROVE Work' < Work
  BY <1>25, PlayWorks
<1>26. CASE TakeRequest
  BY <1>26, RequestWorks
<1> QED
  BY <1>1, <1>2, <1>3, <1>4, <1>5, <1>6, <1>7, <1>8, <1>9, <1>10, <1>11, <1>12, <1>13, <1>14,
     <1>15, <1>16, <1>17, <1>18, <1>19, <1>20, <1>21, <1>22, <1>23, <1>24, <1>25, <1>26
    DEF Next, AudioStep, ShellStep, MainStep, VolumeStep, ToneStep, PowerStep

\* Whatever fails and however the threads meet, each step that no command
\* starts uses up some of a finite amount of work: with the fair threads of
\* FairSpec, the sessions of audio.c and the calls of vs1053b.c end.
THEOREM SessionsAreBounded == Spec => WorkRunsOut /\ [](Work \in Nat)
<1>1. CodecInv /\ [Next]_vars
        => [~(\E t \in Threads : Command(t)) => Work' < Work]_vars
  BY WorkStep
<1> QED
  BY <1>1, WorkIsNat, CodecAlways, PTL DEF Spec, WorkRunsOut
=============================================================================
