----------------------------- MODULE EventLoop -----------------------------
(***************************************************************************)
(* The BleatBox application's control core: the bounded event queue that   *)
(* every producer feeds, the main thread that alone consumes it            *)
(* (app/src/main.c), the playback thread and the codec claim               *)
(* (app/src/audio.c), the shell commands that reach the same state         *)
(* (app/src/shell.c), the filesystem lock (app/src/sdcard.c), and the      *)
(* lifetime of the OTA window as far as the queue and the timer carry it   *)
(* (app/src/ota.c), and the client it lets in, whose uploads write the     *)
(* card's files (mcumgr's FS group, app/prj.conf).                         *)
(*                                                                         *)
(* Threads interleave at every point where the code may be preempted       *)
(* between two accesses to shared state.  Thread priorities are not        *)
(* modelled: every interleaving is allowed.                                *)
(***************************************************************************)
EXTENDS Integers, Sequences

CONSTANTS
    EVENT_QUEUE_DEPTH,  \* slots of event_q; the code's value is 4
    Stimuli,            \* the event types the outside world can produce
    Commands            \* the shell commands an operator may type

ASSUME DepthAssumption == EVENT_QUEUE_DEPTH \in Nat \ {0}
ASSUME StimuliAssumption == Stimuli \subseteq {"VIBRATION", "BLE_RX", "OTA_ARM"}
ASSUME CommandsAssumption ==
    Commands \subseteq {"play", "sinetest", "save", "ota"}

VARIABLES
    event_q,                  \* the queued events, oldest first
    g_drop_vibration_events,  \* main.c: vibration triggers are suppressed
    cooldown_timer,           \* g_vibration_cooldown_timer is running
    g_ready,                  \* audio.c: the codec came up in audio_init()
    g_playing,                \* audio.c: the codec claim
    g_sine_active,            \* audio.c: the sine test is running
    g_play_q,                 \* number of requests in audio.c's one-slot queue
    g_mounted,                \* sdcard.c: the card is mounted
    g_fs_mutex,               \* sdcard.c: the thread that holds it, or "free"
    g_active,                 \* ota.c: the update window is open
    window_timer,             \* ota.c: g_window_timer is running
    smp_client,               \* an SMP client is connected: its uploads may be writing
    pc,                       \* where each thread is
    evt                       \* the event the main thread is handling

audioVars == <<g_ready, g_playing, g_sine_active, g_play_q>>
gateVars  == <<g_drop_vibration_events, cooldown_timer>>
fsVars    == <<g_mounted, g_fs_mutex>>
otaVars   == <<g_active, window_timer, smp_client>>
vars == <<event_q, gateVars, audioVars, fsVars, otaVars, pc, evt>>

Threads == {"main", "audio", "shell"}

(***************************************************************************)
(* An event is its type and, for a vibration, whether the box was in a     *)
(* sound session when the accelerometer reported it.  The origin is a      *)
(* history value: no guard reads it.                                       *)
(***************************************************************************)
EventTypes == {"VIBRATION", "BLE_RX", "AUDIO_START", "AUDIO_DONE",
               "OTA_ARM", "OTA_CANCEL"}
Origins == {"none", "session"}
Events == [type : EventTypes, origin : Origins]
Event(type) == [type |-> type, origin |-> "none"]
NoEvent == Event("AUDIO_DONE")

BootSteps == {"init", "mount", "scan", "load", "start"}
OtaSteps == {"arm", "arming", "cancel", "clearing", "closing"}
PostSteps == {"postStart", "startPended", "postDone", "donePended", "release"}
MainPcs == BootSteps \cup OtaSteps
             \cup {"get", "suppress", "check", "claim", "put", "send"}
AudioPcs == PostSteps \cup {"wait", "delay", "open", "stream"}
ShellPcs == PostSteps \cup OtaSteps
             \cup {"idle", "claim", "put", "tone", "lock", "rewrite"}
Labels == MainPcs \cup AudioPcs \cup ShellPcs

PcOK ==
    /\ pc \in [Threads -> Labels]
    /\ pc["main"] \in MainPcs
    /\ pc["audio"] \in AudioPcs
    /\ pc["shell"] \in ShellPcs

TypeOK ==
    /\ event_q \in Seq(Events)
    /\ Len(event_q) <= EVENT_QUEUE_DEPTH
    /\ g_drop_vibration_events \in BOOLEAN
    /\ cooldown_timer \in BOOLEAN
    /\ g_ready \in BOOLEAN
    /\ g_playing \in BOOLEAN
    /\ g_sine_active \in BOOLEAN
    /\ g_play_q \in {0, 1}
    /\ g_mounted \in BOOLEAN
    /\ g_fs_mutex \in {"free", "audio", "shell"}
    /\ g_active \in BOOLEAN
    /\ window_timer \in BOOLEAN
    /\ smp_client \in BOOLEAN
    /\ evt \in Events
    /\ PcOK

\* Where a thread waits for work.
Rest(t) == IF t = "main" THEN "get" ELSE IF t = "audio" THEN "wait" ELSE "idle"

Init ==
    /\ event_q = <<>>
    /\ g_drop_vibration_events = FALSE
    /\ cooldown_timer = FALSE
    /\ g_ready = FALSE
    /\ g_playing = FALSE
    /\ g_sine_active = FALSE
    /\ g_play_q = 0
    /\ g_mounted = FALSE
    /\ g_fs_mutex = "free"
    /\ g_active = FALSE
    /\ window_timer = FALSE
    /\ smp_client = FALSE
    /\ pc = [t \in Threads |-> IF t = "main" THEN "init" ELSE Rest(t)]
    /\ evt = NoEvent

-----------------------------------------------------------------------------
(* Control flow *)

At(t, label) == pc[t] = label
Goto(t, label) == pc' = [pc EXCEPT ![t] = label]

\* The thread is back where it waits for work.  The main thread's event is
\* dead from here on, so it is given one value.
Return(t) ==
    /\ Goto(t, Rest(t))
    /\ evt' = IF t = "main" THEN NoEvent ELSE evt

\* The audio session the playback thread or the sine test announced with an
\* AUDIO_START in the queue and has not yet ended with an AUDIO_DONE.
AudioSession == pc["audio"] \in {"delay", "open", "stream", "postDone", "donePended"}
ToneSession == \/ g_sine_active /\ pc["shell"] \notin {"postStart", "startPended"}
               \/ pc["shell"] \in {"postDone", "donePended"}
Announced == AudioSession \/ ToneSession

-----------------------------------------------------------------------------
(* The event queue: k_msgq_put with K_NO_WAIT and K_FOREVER, k_msgq_get *)

QueueFull == Len(event_q) >= EVENT_QUEUE_DEPTH

\* A K_NO_WAIT put: a full queue drops the event.
PutNoWait(e) == event_q' = IF QueueFull THEN event_q ELSE Append(event_q, e)

\* Mutant: session events are dropped on a full queue like trigger events.
Post_NoWait(t, type, pended, next) ==
    /\ Goto(t, next)
    /\ PutNoWait(Event(type))
    /\ UNCHANGED <<gateVars, audioVars, fsVars, otaVars, evt>>

\* post_audio_event(): a K_FOREVER put.  On a full queue the thread pends, and
\* the get that frees a slot fills it with the pended thread's event.
Post(t, type, pended, next) ==
    /\ IF QueueFull
         THEN Goto(t, pended) /\ UNCHANGED event_q
         ELSE Goto(t, next) /\ event_q' = Append(event_q, Event(type))
    /\ UNCHANGED <<gateVars, audioVars, fsVars, otaVars, evt>>

AfterStart(t) == IF t = "audio" THEN "delay" ELSE "idle"

PostStart(t) ==
    At(t, "postStart") /\ Post(t, "AUDIO_START", "startPended", AfterStart(t))

PostDone(t) ==
    At(t, "postDone") /\ Post(t, "AUDIO_DONE", "donePended", "release")

\* finish_request(): the claim is cleared only once AUDIO_DONE is queued.
Release(t) ==
    /\ At(t, "release")
    /\ g_playing' = FALSE
    /\ Return(t)
    /\ UNCHANGED <<event_q, gateVars, g_ready, g_sine_active, g_play_q, fsVars, otaVars>>

-----------------------------------------------------------------------------
(* The codec claim: audio_play_sound() *)

\* Mutant: the claim is a plain store, with no compare.
CanClaim_Store == g_ready

CanClaim == g_ready /\ ~g_playing

\* Mutant: the caller waits for the codec instead of giving up.
Refused_Waits(t) == UNCHANGED <<g_playing, pc, evt>>

Refused(t) == Return(t) /\ UNCHANGED g_playing

Claim(t) ==
    /\ At(t, "claim")
    /\ IF CanClaim
         THEN g_playing' = TRUE /\ Goto(t, "put") /\ UNCHANGED evt
         ELSE Refused(t)
    /\ UNCHANGED <<event_q, gateVars, g_ready, g_sine_active, g_play_q, fsVars, otaVars>>

PutRequest(t) ==
    /\ At(t, "put")
    /\ IF g_play_q = 0
         THEN /\ g_play_q' = 1
              /\ UNCHANGED g_playing
              /\ IF t = "main" /\ evt.type = "VIBRATION"
                   THEN Goto(t, "send") /\ UNCHANGED evt
                   ELSE Return(t)
         ELSE g_playing' = FALSE /\ Return(t) /\ UNCHANGED g_play_q
    /\ UNCHANGED <<event_q, gateVars, g_ready, g_sine_active, fsVars, otaVars>>

-----------------------------------------------------------------------------
(* The OTA window: ota_start() and ota_cancel(), run by the main thread for *)
(* a queued event and by the shell thread for a command.  The radio's part  *)
(* is the outcome of the bt_* calls.                                        *)

ArmCheck(t) ==
    /\ At(t, "arm")
    /\ IF g_active
         THEN window_timer' = TRUE /\ Return(t)
         ELSE Goto(t, "arming") /\ UNCHANGED <<window_timer, evt>>
    /\ UNCHANGED <<event_q, gateVars, audioVars, fsVars, g_active, smp_client>>

ArmFinish(t) ==
    /\ At(t, "arming")
    /\ \/ g_active' = TRUE /\ window_timer' = TRUE /\ UNCHANGED smp_client
       \/ UNCHANGED otaVars  \* the advertising set could not be started
    /\ Return(t)
    /\ UNCHANGED <<event_q, gateVars, audioVars, fsVars>>

CancelCheck(t) ==
    /\ At(t, "cancel")
    /\ IF g_active
         THEN window_timer' = FALSE /\ Goto(t, "clearing") /\ UNCHANGED evt
         ELSE Return(t) /\ UNCHANGED window_timer
    /\ UNCHANGED <<event_q, gateVars, audioVars, fsVars, g_active, smp_client>>

CancelClear(t) ==
    /\ At(t, "clearing")
    /\ g_active' = FALSE
    /\ Goto(t, "closing")
    /\ UNCHANGED <<event_q, gateVars, audioVars, fsVars, window_timer, smp_client, evt>>

\* Advertising stopped and the mesh resumed: calls that block.
CancelFinish(t) ==
    /\ At(t, "closing")
    /\ Return(t)
    /\ UNCHANGED <<event_q, gateVars, audioVars, fsVars, otaVars>>

-----------------------------------------------------------------------------
(* The main thread *)

\* audio_init() .. ota_init(); without a codec g_ready stays false.
InitModules ==
    /\ At("main", "init")
    /\ g_ready' \in BOOLEAN
    /\ Goto("main", "mount")
    /\ UNCHANGED <<event_q, gateVars, g_playing, g_sine_active, g_play_q, fsVars,
                   otaVars, evt>>

\* sdcard_mount(); a card that does not mount skips the scan and the config.
Mount ==
    /\ At("main", "mount")
    /\ \/ g_mounted' = TRUE /\ Goto("main", "scan")
       \/ UNCHANGED g_mounted /\ Goto("main", "start")
    /\ UNCHANGED <<event_q, gateVars, audioVars, g_fs_mutex, otaVars, evt>>

\* sounds_scan(), then device_config_load(): both touch the volume.
ReadCard ==
    /\ \/ At("main", "scan") /\ Goto("main", "load")
       \/ At("main", "load") /\ Goto("main", "start")
    /\ UNCHANGED <<event_q, gateVars, audioVars, fsVars, otaVars, evt>>

StartProducers ==
    /\ At("main", "start")
    /\ g_drop_vibration_events' = FALSE
    /\ Return("main")
    /\ UNCHANGED <<event_q, cooldown_timer, audioVars, fsVars, otaVars>>

\* What the loop does next with the event e it just received.
Dispatch(e) ==
    CASE e.type = "VIBRATION"   -> IF g_drop_vibration_events THEN "get" ELSE "check"
      [] e.type = "BLE_RX"      -> "check"
      [] e.type = "AUDIO_START" -> "suppress"
      [] e.type = "AUDIO_DONE"  -> "get"
      [] e.type = "OTA_ARM"     -> "arm"
      [] e.type = "OTA_CANCEL"  -> "cancel"

\* The event a pended thread puts, and where it continues.
Pended(t) == pc[t] \in {"startPended", "donePended"}
PendedEvent(t) ==
    Event(IF At(t, "startPended") THEN "AUDIO_START" ELSE "AUDIO_DONE")
PendedNext(t) == IF At(t, "startPended") THEN AfterStart(t) ELSE "release"

\* Mutant: AUDIO_START leaves a pending cooldown running.
CooldownAfter_KeepsTimer(e) == e.type = "AUDIO_DONE" \/ cooldown_timer

\* The cooldown timer once the loop has begun to handle e.
CooldownAfter(e) ==
    CASE e.type = "AUDIO_START" -> FALSE
      [] e.type = "AUDIO_DONE"  -> TRUE
      [] OTHER                  -> cooldown_timer

\* k_msgq_get() and the first step of the switch.  AUDIO_START stops the
\* cooldown timer here and sets the flag in Suppress; AUDIO_DONE starts it.
Get ==
    /\ At("main", "get")
    /\ event_q # <<>>
    /\ LET e == Head(event_q)
           next == Dispatch(e)
       IN  /\ \/ /\ \A t \in Threads : ~Pended(t)
                 /\ event_q' = Tail(event_q)
                 /\ Goto("main", next)
              \/ \E t \in {"audio", "shell"} :
                 /\ Pended(t)
                 /\ event_q' = Append(Tail(event_q), PendedEvent(t))
                 /\ pc' = [pc EXCEPT !["main"] = next, ![t] = PendedNext(t)]
           /\ evt' = IF next = "get" THEN NoEvent ELSE e
           /\ cooldown_timer' = CooldownAfter(e)
    /\ UNCHANGED <<g_drop_vibration_events, audioVars, fsVars, otaVars>>

Suppress ==
    /\ At("main", "suppress")
    /\ g_drop_vibration_events' = TRUE
    /\ Return("main")
    /\ UNCHANGED <<event_q, cooldown_timer, audioVars, fsVars, otaVars>>

\* handle_vibration() and handle_ble_rx() up to audio_play_sound(): dropped
\* while the window is open, while a sound plays, or without a sound file.
Check ==
    /\ At("main", "check")
    /\ \/ /\ ~g_active
          /\ ~g_playing
          /\ g_mounted
          /\ Goto("main", "claim")
          /\ UNCHANGED evt
       \/ Return("main")
    /\ UNCHANGED <<event_q, gateVars, audioVars, fsVars, otaVars>>

\* compose_message() and ble_broadcast_message().
Send ==
    /\ At("main", "send")
    /\ Return("main")
    /\ UNCHANGED <<event_q, gateVars, audioVars, fsVars, otaVars>>

MainStep ==
    \/ InitModules \/ Mount \/ ReadCard \/ StartProducers
    \/ Get \/ Suppress \/ Check \/ Claim("main") \/ PutRequest("main") \/ Send
    \/ ArmCheck("main") \/ ArmFinish("main")
    \/ CancelCheck("main") \/ CancelClear("main") \/ CancelFinish("main")

-----------------------------------------------------------------------------
(* The playback thread *)

TakeRequest ==
    /\ At("audio", "wait")
    /\ g_play_q = 1
    /\ g_play_q' = 0
    /\ Goto("audio", "postStart")
    /\ UNCHANGED <<event_q, gateVars, g_ready, g_playing, g_sine_active, fsVars,
                   otaVars, evt>>

\* The delay has passed and sdcard_lock() got the mutex.
AudioLock ==
    /\ At("audio", "delay")
    /\ g_fs_mutex = "free"
    /\ g_fs_mutex' = "audio"
    /\ Goto("audio", "open")
    /\ UNCHANGED <<event_q, gateVars, audioVars, g_mounted, otaVars, evt>>

\* Mutant: the failure path forgets sdcard_unlock().
OpenFailed_KeepsLock == Goto("audio", "postDone") /\ UNCHANGED g_fs_mutex

\* Mutant: the failure path releases the claim without posting AUDIO_DONE.
OpenFailed_SkipsDone == Goto("audio", "release") /\ g_fs_mutex' = "free"

\* Mutant: a file that does not open is tried again.
OpenFailed_Retries == Goto("audio", "delay") /\ g_fs_mutex' = "free"

OpenFailed == Goto("audio", "postDone") /\ g_fs_mutex' = "free"

\* fs_open() and vs1053b_power_up(); both failures unlock and finish.
OpenSound ==
    /\ At("audio", "open")
    /\ \/ Goto("audio", "stream") /\ UNCHANGED g_fs_mutex
       \/ OpenFailed
    /\ UNCHANGED <<event_q, gateVars, audioVars, g_mounted, otaVars, evt>>

\* The file has been streamed, or a read or SPI error ended it.
EndSound ==
    /\ At("audio", "stream")
    /\ g_fs_mutex' = "free"
    /\ Goto("audio", "postDone")
    /\ UNCHANGED <<event_q, gateVars, audioVars, g_mounted, otaVars, evt>>

AudioStep ==
    \/ TakeRequest \/ PostStart("audio") \/ OpenSound \/ EndSound
    \/ PostDone("audio") \/ Release("audio")

-----------------------------------------------------------------------------
(* The shell thread: an operator types a command when the shell is idle *)

\* cmd_play(): sounds_get_path() needs a finished scan.
CmdPlay ==
    /\ "play" \in Commands
    /\ At("shell", "idle")
    /\ g_mounted
    /\ pc["main"] # "scan"
    /\ Goto("shell", "claim")
    /\ UNCHANGED <<event_q, gateVars, audioVars, fsVars, otaVars, evt>>

\* audio_sine_test(true): the claim, taken unless the tone runs already.
CmdSineOn ==
    /\ "sinetest" \in Commands
    /\ At("shell", "idle")
    /\ ~g_sine_active
    /\ CanClaim
    /\ g_playing' = TRUE
    /\ Goto("shell", "tone")
    /\ UNCHANGED <<event_q, gateVars, g_ready, g_sine_active, g_play_q, fsVars,
                   otaVars, evt>>

\* Mutant: a tone that fails to start strands the claim.
ToneFailed_StrandsClaim == Goto("shell", "idle") /\ UNCHANGED g_playing

ToneFailed == Goto("shell", "idle") /\ g_playing' = FALSE

\* The codec starts the tone and AUDIO_START is owed, or it fails and the
\* claim is released with nothing posted.
ToneUp ==
    /\ At("shell", "tone")
    /\ \/ g_sine_active' = TRUE /\ Goto("shell", "postStart") /\ UNCHANGED g_playing
       \/ ToneFailed /\ UNCHANGED g_sine_active
    /\ UNCHANGED <<event_q, gateVars, g_ready, g_play_q, fsVars, otaVars, evt>>

CmdSineOff ==
    /\ "sinetest" \in Commands
    /\ At("shell", "idle")
    /\ g_sine_active
    /\ g_sine_active' = FALSE
    /\ Goto("shell", "postDone")
    /\ UNCHANGED <<event_q, gateVars, g_ready, g_playing, g_play_q, fsVars, otaVars, evt>>

\* A setting saved to the card: rewrite_config() refuses an unmounted card.
CmdSave ==
    /\ "save" \in Commands
    /\ At("shell", "idle")
    /\ g_mounted
    /\ Goto("shell", "lock")
    /\ UNCHANGED <<event_q, gateVars, audioVars, fsVars, otaVars, evt>>

ShellLock ==
    /\ At("shell", "lock")
    /\ g_fs_mutex = "free"
    /\ g_fs_mutex' = "shell"
    /\ Goto("shell", "rewrite")
    /\ UNCHANGED <<event_q, gateVars, audioVars, g_mounted, otaVars, evt>>

Rewrite ==
    /\ At("shell", "rewrite")
    /\ g_fs_mutex' = "free"
    /\ Goto("shell", "idle")
    /\ UNCHANGED <<event_q, gateVars, audioVars, g_mounted, otaVars, evt>>

\* "ota arm" and "ota cancel" call ota.c in the shell's own thread.
CmdOta ==
    /\ "ota" \in Commands
    /\ At("shell", "idle")
    /\ pc["main"] # "init"
    /\ \E command \in {"arm", "cancel"} : Goto("shell", command)
    /\ UNCHANGED <<event_q, gateVars, audioVars, fsVars, otaVars, evt>>

ShellCommand == CmdPlay \/ CmdSineOn \/ CmdSineOff \/ CmdSave \/ CmdOta

\* The steps that carry a command already typed to its end.
ShellStep ==
    \/ Claim("shell") \/ PutRequest("shell")
    \/ ToneUp \/ PostStart("shell") \/ PostDone("shell") \/ Release("shell")
    \/ Rewrite
    \/ ArmCheck("shell") \/ ArmFinish("shell")
    \/ CancelCheck("shell") \/ CancelClear("shell") \/ CancelFinish("shell")

-----------------------------------------------------------------------------
(* Timers and producers *)

\* cooldown_expired()
CooldownExpired ==
    /\ cooldown_timer
    /\ cooldown_timer' = FALSE
    /\ g_drop_vibration_events' = FALSE
    /\ UNCHANGED <<event_q, audioVars, fsVars, otaVars, pc, evt>>

\* window_expiry(): one shot; the close-up is an event put with K_NO_WAIT.
WindowExpiry ==
    /\ window_timer
    /\ window_timer' = FALSE
    /\ PutNoWait(Event("OTA_CANCEL"))
    /\ UNCHANGED <<gateVars, audioVars, fsVars, g_active, smp_client, pc, evt>>

\* accel_trigger_handler(), and ble.c's put of a received assignment or arm
\* command.  Both producers are started before the loop.
Produce ==
    /\ pc["main"] \notin {"init", "mount", "scan", "load"}
    /\ \E type \in Stimuli :
         PutNoWait([type |-> type,
                    origin |-> IF type = "VIBRATION" /\ Announced
                                 THEN "session" ELSE "none"])
    /\ UNCHANGED <<gateVars, audioVars, fsVars, otaVars, pc, evt>>

\* The box advertises itself as connectable: from ota_start()'s last call until
\* ota_cancel() has stopped the set.
Connectable == g_active \/ \E t \in Threads : pc[t] \in {"arming", "clearing", "closing"}

\* An operator's tool connects, to upload files or to send a reset.  The SMP
\* work queue serves it; nothing in the application is told.
ClientConnects ==
    /\ Connectable
    /\ ~smp_client
    /\ smp_client' = TRUE
    /\ UNCHANGED <<event_q, gateVars, audioVars, fsVars, g_active, window_timer, pc, evt>>

\* The client goes away and the file it wrote is closed.  ota_cancel() drops no
\* connection: an upload may outlive the window.
ClientLeaves ==
    /\ smp_client
    /\ smp_client' = FALSE
    /\ UNCHANGED <<event_q, gateVars, audioVars, fsVars, g_active, window_timer, pc, evt>>

SmpStep == ClientConnects \/ ClientLeaves

-----------------------------------------------------------------------------
Next ==
    \/ MainStep \/ AudioStep \/ AudioLock \/ ShellCommand \/ ShellStep \/ ShellLock
    \/ CooldownExpired \/ WindowExpiry \/ Produce \/ SmpStep

Fairness ==
    /\ WF_vars(MainStep)
    /\ WF_vars(AudioStep) /\ SF_vars(AudioLock)
    /\ WF_vars(ShellStep) /\ SF_vars(ShellLock)
    /\ WF_vars(CooldownExpired) /\ WF_vars(WindowExpiry)

Spec == Init /\ [][Next]_vars
FairSpec == Spec /\ Fairness

\* The same steps under the scheduler's priorities: main runs above the audio
\* and shell threads and the work queues, which get the processor only while it
\* is blocked, on an empty queue or inside a driver or Bluetooth call.  The
\* window's five minutes pass only while it is blocked too: they are longer than
\* anything the main thread does at a stretch.
MainBlocked ==
    \/ At("main", "get") /\ event_q = <<>>
    \/ pc["main"] \in BootSteps \cup {"send", "arming", "closing"}

PriorityNext ==
    \/ MainStep \/ CooldownExpired \/ Produce
    \/ MainBlocked /\ (\/ AudioStep \/ AudioLock
                       \/ ShellCommand \/ ShellStep \/ ShellLock
                       \/ SmpStep \/ WindowExpiry)

PrioritySpec == Init /\ [][PriorityNext]_vars
-----------------------------------------------------------------------------
(* Properties *)

\* Who holds the codec claim g_playing.  A request in g_play_q holds it on
\* behalf of whoever put it there.
Holds(h) ==
    CASE h = "main"      -> At("main", "put")
      [] h = "shell"     -> At("shell", "put")
      [] h = "request"   -> g_play_q = 1
      [] h = "audio"     -> ~At("audio", "wait")
      [] h = "sine test" -> g_sine_active \/ pc["shell"] \in PostSteps \cup {"tone"}
Holders == {h \in {"main", "shell", "request", "audio", "sine test"} : Holds(h)}

\* The claim is set exactly when one party holds it: no path strands it, and
\* no two sounds ever share the codec (audio.c's compare-and-set and every
\* release of it).
OneHolder ==
    /\ g_playing <=> Holders # {}
    /\ \A h1, h2 \in Holders : h1 = h2

\* audio_play_sound()'s "unreachable" branch: whoever has claimed the codec
\* finds the one-slot request queue empty.
PlayRequestNeverRefused ==
    \A t \in {"main", "shell"} : At(t, "put") => g_play_q = 0

\* The main loop has received an AUDIO_START and not yet its AUDIO_DONE.
MainInSession ==
    At("main", "suppress") \/ (g_drop_vibration_events /\ ~cooldown_timer)

AudioAt(q) == {i \in DOMAIN q : q[i].type \in {"AUDIO_START", "AUDIO_DONE"}}

\* The session events of q alternate, from a consumer that is inside a session
\* or not, up to a poster that has announced one or not.
Alternates(q, inside, announced) ==
    /\ AudioAt(q) = {} => (inside <=> announced)
    /\ \A i \in AudioAt(q) :
         /\ (\A k \in AudioAt(q) : k >= i) => (q[i].type = "AUDIO_DONE" <=> inside)
         /\ (\A k \in AudioAt(q) : k <= i) => (q[i].type = "AUDIO_START" <=> announced)
         /\ \A j \in AudioAt(q) :
              i < j /\ (\A k \in AudioAt(q) : k <= i \/ k >= j)
                => q[i].type # q[j].type

\* The session events reach the main loop as strictly alternating pairs,
\* consistent with what it has handled before them and with what the poster
\* does next ("the main loop tracks them as pairs", post_audio_event()).
AudioEventsAlternate == Alternates(event_q, MainInSession, Announced)

\* A vibration reported between a session's AUDIO_START and its AUDIO_DONE
\* is never acted on, however late the main loop gets to it (main.c: "must
\* not trigger on stray vibration", audio.c: the session covers the delay).
SessionVibrationDropped ==
    pc["main"] \in {"check", "claim", "put", "send"} => evt.origin # "session"

\* Who may be inside FatFs: the boot's own reads, a playback with its file open,
\* a shell command's rewrite, and a connected client's uploads.
FsUsers ==
    (IF pc["main"] \in {"scan", "load"} THEN {"main"} ELSE {})
      \cup (IF pc["audio"] \in {"open", "stream"} THEN {"audio"} ELSE {})
      \cup (IF At("shell", "rewrite") THEN {"shell"} ELSE {})
      \cup (IF smp_client /\ g_mounted THEN {"smp"} ELSE {})

\* The users that call sdcard_lock(); the boot and mcumgr do not.
LockedUsers == FsUsers \ {"main", "smp"}

\* No two threads are inside FatFs at once (sdcard.c: every caller must
\* serialize through g_fs_mutex), the boot's own reads included.
FsExclusive == \A t1, t2 \in FsUsers : t1 = t2

\* What g_fs_mutex does promise: a playback and a rewrite never overlap, the
\* mutex belongs to the one that is inside FatFs and no path keeps it, so every
\* overlap there is in FatFs has a user in it that takes no lock, the boot's
\* reads or a client's uploads (sdcard.c's rule, where it is kept and where not).
FsSerialized ==
    /\ LockedUsers = IF g_fs_mutex = "free" THEN {} ELSE {g_fs_mutex}
    /\ \A t1, t2 \in FsUsers : t1 # t2 => {t1, t2} \cap {"main", "smp"} # {}

\* The loop's suppression flag and timer implement the vibration gate.
Phase ==
    IF g_drop_vibration_events
      THEN IF cooldown_timer THEN "cooldown" ELSE "session"
      ELSE IF cooldown_timer THEN "broken" ELSE "open"
Gate == INSTANCE VibrationGate WITH phase <- Phase
GateSpec == Gate!Spec

\* A K_FOREVER post always gets its slot: "this is brief and cannot deadlock".
PostCompletes == \A t \in {"audio", "shell"} : Pended(t) ~> ~Pended(t)

\* Every claim of the codec ends, but for the sine test's, which lasts until
\* the operator stops it: no path leaves the box mute.
ClaimEnds == g_playing ~> ~g_playing \/ g_sine_active

\* Once the box falls silent for good, vibration triggers come back: "a
\* skipped EVENT_AUDIO_DONE leaves the main loop's vibration cooldown stuck".
GateReopens == (<>[] ~g_playing) => <>[] ~g_drop_vibration_events

\* How many steps an event makes for the box, with the timers, the window and
\* the session that come of it.
EventWork(type) ==
    CASE type = "AUDIO_DONE" -> 2
      [] type = "AUDIO_START" -> 2
      [] type = "OTA_CANCEL" -> 4
      [] type = "OTA_ARM" -> 8
      [] type \in {"VIBRATION", "BLE_RX"} -> 16

\* How many steps a thread at a label makes, with what comes of them.
LabelWork(label) ==
    CASE label \in {"get", "wait", "idle"} -> 0
      [] label \in {"start", "send", "suppress", "closing", "release", "rewrite"} -> 1
      [] label \in {"load", "clearing", "lock"} -> 2
      [] label \in {"scan", "cancel", "donePended"} -> 3
      [] label \in {"mount", "postDone"} -> 4
      [] label \in {"init", "stream"} -> 5
      [] label \in {"open", "arming"} -> 6
      [] label \in {"delay", "arm"} -> 7
      [] label = "startPended" -> 9
      [] label = "postStart" -> 10
      [] label = "tone" -> 11
      [] label = "put" -> 13
      [] label = "claim" -> 14
      [] label = "check" -> 15

QueueWork(q) ==
    LET sum[i \in 0..Len(q)] == IF i = 0 THEN 0 ELSE sum[i - 1] + EventWork(q[i].type)
    IN  sum[Len(q)]

RequestWork == IF g_play_q = 1 THEN 11 ELSE 0
TimersWork == (IF window_timer THEN 5 ELSE 0) + (IF cooldown_timer THEN 1 ELSE 0)

Work ==
    (LabelWork(pc["main"]) + LabelWork(pc["audio"]) + LabelWork(pc["shell"]))
      + QueueWork(event_q) + RequestWork + TimersWork

\* Every step that neither the outside world nor an operator starts uses up
\* work of what they started: the sounds, events, timers and windows that come
\* of a trigger set off no others for ever.
QuietsDown == [][~(Produce \/ ShellCommand \/ SmpStep) => Work' < Work]_vars
=============================================================================
