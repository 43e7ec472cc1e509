# BleatBox in TLA+

Models, checks and proofs about the BleatBox firmware: boxes that bleat when
they are shaken, pass the bleat to their neighbours over BLE, play it from an
SD card, and are updated over the air through a second-stage updater. Every
module is read off the C sources. `PROJECT.json` maps each definition to the
lines it stands for; here is what is modelled, what the checks and proofs show,
and what is left.

To run: `tlc -config <run>.cfg <module>` for a run, `tlapm <module>.tla` for
the proofs.

## 1. The system

| component | code | state | operations |
|---|---|---|---|
| event queue and main loop | `app/src/main.c`, `events.h`, the trigger in `accel.c` | `event_q` (4 slots), `g_drop_vibration_events`, the cooldown timer | boot, take an event, handle a vibration, a received play, an arm, a cancel, the two audio events |
| audio session | `app/src/audio.c` | the claim `g_playing`, the one-slot `g_play_q`, `g_sine_active`, `g_ready` | `audio_play_sound`, the playback thread, `audio_sine_test` |
| card and its lock | `app/src/sdcard.c` | `g_mounted`, `g_fs_mutex` | mount, lock, unlock |
| shell | `app/src/shell.c` | none of its own | commands that play, save a setting, arm or cancel the window |
| update window | `app/src/ota.c` | `g_active`, `g_conn_adv`, the window timer, the re-advertise work | `ota_start`, `ota_cancel`, expiry, disconnect |
| mesh transmit | `app/src/ble.c` | `g_adv_active`, `g_paused`, `g_tx_mutex`, two work items | broadcast, relay, resume scanning, pause, resume |
| mesh receive | `app/src/ble.c`, `broadcast_log*.c` | the log of (originator, seq), `g_relay_buf`, the debounce of the Mac's message | two ways in: a neighbour's burst, the Mac's advertisement |
| configuration | `app/src/device_config.c` | the file, its temporary, the settings in use | load and heal, rewrite, one save per setting |
| second-stage updater | `updater/src/main.c`, `common/fw_image.c` | the flash of the application, the staged file | check, erase, write, verify, unlink, jump |
| codec driver | `app/src/vs1053b.c` | the registers, `g_vol_reg`, `g_in_reset`, `g_codec_mutex` | initialise, power up and down, stream, end, sine test, volume |
| sound catalogue | `app/src/sounds.c`, `sounds_match.c` | `g_goat_count`, `g_misc_count` | scan the card, validate a set, resolve a sound |
| payload and composition | `app/src/message.c`, `message.h`, `ble_ota.h`, `ble_encode.h`, `compose.c`, `wrap_to_range.c` | the delay range, the number of sounds | pack and parse slots, command and seq; draw a sound and a delay per slot |
| the Mac | `scripts/bleatctl.py` | none | send a message, arm |
| not modelled | battery, accelerometer set-up, build scripts, unit tests | | see section 7 |

How they meet: every producer (accelerometer interrupt, receive work queue,
playback thread, shell thread, timers) puts events in one queue that the main
thread alone reads. Sound is made under a claim taken by compare-and-set. The
radio is one controller that can scan, send a burst, or serve a connection, and
three queues of work contend for it. The card is one volume: playback and the
saving of settings take its mutex; the boot's reads and the files an SMP client
uploads (mcumgr's FS group, on its own work queue, `prj.conf:23-29`) do not.
The application and the updater talk only through the staged file.

What is hard in it: the audio session is announced by events that travel
through a bounded queue while the state they announce is already changing;
opening and closing the window touches both a timer and the radio, from two
threads, without a lock; every controller call blocks, and what was checked
before it may be stale after; the two files that matter (the configuration and
the staged image) are replaced in several steps that power loss can separate;
the mesh must not act twice on packets it hears many times; the codec must be
awake and configured for whoever talks to it, and asleep otherwise, whatever
fails; and one byte layout, written by hand in two languages, carries six boxes'
parts. The hazards in
`PROJECT.json` list these line by line.

## 2. Modules

| module | models | composed with |
|---|---|---|
| `EventLoop` | main loop, queue, audio session, shell, card mutex, the window as far as the queue and timer carry it | refines `VibrationGate` |
| `VibrationGate` | what the loop promises about vibrations: open, in a session, or ringing down | |
| `Radio` | controller, burst, window, pause, work queues | |
| `Mesh` | several boxes and the Mac, the log, ttl, relays and gateways | takes a transmission, which `Radio` has in steps, as one |
| `ConfigStore` | load, heal, start and rewrite of the configuration, the boot beside the shell, with crashes | refines `SettingsStore` |
| `SettingsStore` | settings in use and stored, changed as a whole or not at all | |
| `Codec` | the driver, transfer by transfer, under the playback thread, the sine test and the volume calls | has the sessions of `EventLoop`, with the codec inside |
| `Message` | the payload as bits, with its widths as constants | extended by `Assignment` |
| `Assignment` | who plays what: catalogue, delays, ids, composing, the Mac, hearing | one message at a time; how messages travel is in `Mesh` |
| `Updater` | one boot after another of the updater, page by page | refines `UpdateSlot` |
| `UpdateSlot` | one installed image, replaced in one step | |
| `EventLoopProofs`, `RadioProofs`, `MeshProofs`, `UpdaterProofs`, `CodecProofs`, `ConfigStoreProofs`, `AssignmentProofs` | theorems of the module each is named after | |
| `Recursion` | lemmas on induction, functions defined by recursion, and division | used by the proofs of `EventLoop`, `ConfigStore` and `Assignment` |
| `MC_*` | the sets and constants of the runs | |

**EventLoop.** Threads `main`, `audio`, `shell` each have a label in `pc`; a
label is a point between two accesses to shared state where the thread may be
preempted. Each put says whether it waits: `PutNoWait` drops on a full queue
(interrupt, timers, receive), `Post` pends (`k_msgq_put` with `K_FOREVER` in
`post_audio_event`). When `main` takes an event while a poster pends, the
poster's event takes the slot in the same step, as the kernel does it. A
session runs from `postStart` to `release`, in the playback thread or in the
sine test. `smp_client` says that a client is connected, which it may become
while the box advertises itself in a window, and stay after the window: its
uploads touch the card at any time and nothing in the application knows of
them. mcumgr is external, so this is all the model has of it. The event carries a history value, whether a vibration was reported
inside a session, which no guard reads.

**Radio.** The steps of `start_advertising()`, `ble_pause()`, `ota_start()` and
`ota_cancel()` are split at every controller call and shared access. A host
call takes effect in one step and, with `HciFails`, may fail: calls on
advertising sets, and starts and stops of the scanner, whose results the code
logs or ignores (`ble.c:195-198`, `238`, `725`, `736`). `spoiled` notes what the
properties must excuse: two threads in the window's code, a refused
re-advertise, and a refused start as the last thing done to the scanner. Two timing assumptions are built in: a burst lasts longer than the
return from `bt_le_ext_adv_start()` takes to set `g_adv_active`, and the
receive work queue is cooperative, so its callbacks are atomic.

**Mesh.** A burst stays on the air until `BurstEnds`, and a neighbour may hear
it never, once or again: loss and duplication need no actions. A box does not
hear while it sends. `acted` and `again` are histories. A box's hop limit and id
are constants: the shell commands that change them while packets are in flight
are left out, and a packet then on its way keeps the older limit.

**ConfigStore.** A file is a sequence of lines, a line a key with a value. The
shell's save opens, copies a line, appends, closes, unlinks and renames; the boot
opens, heals, opens again, and puts in use. Each is a step, any may fail, and a
crash may come between any two, losing a suffix of what was written to a file not
yet closed. A rename is two steps, as Zephyr's `fs_rename()` on FatFs is: a file
that has the new name is unlinked, then the old name is changed. Reading an open
file to its end is one step. The boot takes no lock (finding 1), so a save may run
beside all of it: `overrun` notes the settings whose change met a boot between
its read and the end of its start, which puts the old value back in use, and
`hurt` notes the two things that can damage the file: an `fs_close()` that failed
("close"), and a boot that found the file missing while a save was between its
unlink and its rename ("race"). One timing assumption: no save ends and another
begins within one `fs_rename()` of the boot.

**Codec.** A step is one transfer. A thread that holds `g_codec_mutex` stands
between two transfers of one call. A transfer fails when the codec is held in
reset or by a fault; pins and the reading of the patch may fail too. The reset
may be wired or not (`wired`), as the boxes' jumper is. `failed` collects what
has failed since the codec was last put in reset: after a failed transfer the
code goes on with what the codec then has, and the properties say so.

**Message, Assignment.** A payload is a function from bit numbers to 0 and 1,
and packing and parsing are the code's loops, bit by bit, as functions defined
by recursion; the widths are constants, so
the small instance reaches the sentinel, the clamp and every field border while
the theorems hold for 6 slots of 12, 6 and 1 bits. A message carries, as
history, what its sender meant. A card is a list of files in the order of its
directory, a file a type and a number; the scan stops anywhere, as an error in
`fs_readdir()` ends the loop like the end of the directory does. The draw's
subtraction is modulo the size of a word. What may keep a box from playing what
it hears (the queue, a sound in progress, the window) is in `EventLoop`; here it
may or may not play.

**Updater.** Flash pages hold an image's page, `Erased` or `Torn`. The CRC is
taken to tell a whole payload from any other content. Faults are power loss at
any step, flash calls that fail or leave a page wrong, and a card that does not
mount or read; their number is bounded by `MaxFaults`. The application is
external: it uploads a file, in two steps, and resets.

## 3. Runs

| run | instance | shows |
|---|---|---|
| `loop` | all stimuli and commands, queue of 2 | claim, session events, card mutex and gate refinement under every interleaving; what must eventually happen; a trigger sets off finitely many steps |
| `loop_boot_fs` | violation | the boot reads the card without its mutex |
| `radio_window` | two threads on the window, failing calls | flag, mutex, no burst over a burst, who may start the scanner, no path forgets to start it, the window stays connectable |
| `radio_relay_paused` | violation | a relay is sent while paused |
| `mesh_flood` | two boxes and the Mac, log of 2, 3 messages, limits 3 and 1 | deduplication, ttl, arm commands, the end of a flood |
| `codec_session` | two volumes, sounds of one write, 2 faults, wired or not | no transfer in reset, a configured codec per sound, sleep between sessions, the volume, the end of every session |
| `assignment` | two boxes and the Mac, two slots of 2-bit fields, two cards, two ranges | what a slot is told, what is played, what is assigned |
| `config_crash` | 3 keys, 5 starting files, 5 changes, 2 faults | saves are atomic, complete and touch nothing else |
| `config_close` | violation, one fault | a close that fails loses the configuration |
| `config_heal` | violation, no fault | a boot that heals a save under way loses the configuration |
| `updater` | 3 images, 3 pages, 4 faults of power, flash and card | an update is one atomic step, no image is lost, a half-written one runs only without a card, every boot ends |
| `updater_card_fails` | violation | a failing card makes the updater jump into half an image |

Bounds. A queue of 2 in place of 4 is filled sooner, and a full queue is the
interesting case; `loop_boot_fs` uses the real 4, because it shows what
the code does. `event_q`'s depth, the three threads and the labels make
EventLoop and Radio finite without further bounds. In `mesh_flood`, three
messages against a log of two are enough to evict an entry that still flies,
and unequal limits 3 and 1 make the clamp matter; the run may stop when all
messages are spent, hence `CHECK_DEADLOCK FALSE`. In `config_crash` two faults
allow a crash during the healing of an earlier crash, and the files include
none at all, one without an id, and one with an id given twice around a comment;
two of the changes are ones the command refuses. In `codec_session` 2 faults
fail a session and then what cleans up after it; 36 is a percentage that the
way to the register and back could round off. In `assignment` sound 3 is the
silence, one card has five goats, so that drawn sounds reach and pass it, the
other has a gap in its second set, one range goes past the longest delay a slot
holds, and words of 3 bits make the draw's subtraction wrap. In the updater,
images of 3 pages (fills the partition), 1 (leaves old pages behind) and 4 (does
not fit) are the sizes the code tells apart, and 4 faults are one of power, one
of the flash and two of the card in any mix and order.

Fairness. Threads that can run do run (weak fairness of `MainStep`,
`AudioStep`, `ShellStep`, `TxqStep`, `SysqStep`): Zephyr's threads sleep
between pieces of work, and nothing in the code spins. Taking a mutex is
strongly fair, as Zephyr hands a mutex to its highest-priority waiter, and among
equals to the one that waited longest.
Timers that run expire, and a burst of five events ends. Operators, the
accelerometer, neighbours and the Mac are never assumed to do anything.
In `Codec` the three threads run, strongly fair for the same reason as above;
commands are never assumed. In `Updater` the processor runs; nothing makes the
operator upload or reset.
`loop_boot_fs` uses `PrioritySpec`, where the lower threads and the window's
five minutes pass only while main is blocked, so that its counterexample needs
no schedule that the priorities exclude. It is a safety run.

## 4. What the properties say

*Event loop.* `OneHolder`: the claim is set exactly when one party holds it, so
no path strands it and no two sounds share the codec. `PlayRequestNeverRefused`:
the branch the code calls unreachable is. `AudioEventsAlternate`: session events
reach the loop in pairs. `SessionVibrationDropped`: a vibration reported in a
session is never acted on, however late it is read. `FsSerialized`: a playback
and a rewrite never overlap in FatFs, the mutex belongs to the one that is there
and no failure keeps it. It is what the mutex gives, less than `sdcard.c:25-28`
asks for: every overlap there is has the boot (finding 1) or an SMP client in it.
`GateSpec`: the flag and the
timer implement the gate. `PostCompletes`, `ClaimEnds`, `GateReopens`: nobody
waits for ever, no claim is kept, and a silent box triggers again. `QuietsDown`:
every step but the world's and the operators' lowers `Work`, a weighted count of
what the threads, the queue, the request and the timers still have to do; so no
cycle of sounds, events and timers feeds itself.

*Radio.* `FlagMatchesBurst`: the code's copy of the controller's state is right.
`NeverStartedOver`: no burst is started over another. `OnlyResumeScansUnderBurst`:
only the end of a window starts the scanner under a burst; every other path
waits for the mutex and the burst. `ListensAtRest`, `ScanReturns`: no path
leaves the scanner off without having tried to start it, after failing bursts
and closed windows too; a start the controller refuses does leave the box deaf
(section 5). `WindowPausesMesh`: an open window keeps the mesh paused
unless two threads met in it. `Reconnectable`: an open window comes back on air
after a disconnect.

*Mesh.* `ActsOnce`: until the log has overflowed, a message is acted on once.
`FloodBounded`: a packet never has more hops left than its sender's limit, nor
travels further than the largest. `ArmStaysLocal`, `FloodEnds`.

*Codec.* `NoTransferInReset`: nobody waits for a DREQ that cannot rise, as the
volume calls know from the mutex whether the codec is awake. `StreamsConfigured`:
a sound meets a codec that was set up since its reset. `AsleepWhenIdle`: no error
path leaves the codec at full power. `VolumeTold`: a volume set in any state of
the codec is the one it has when awake and the one told. `SessionEnds`.

*Assignment.* `HeardAsMeant`: packing one field disturbs no other, and what
does not fit is silence or the longest delay. `PlaysItsPart`: between the slot
and the codec nothing is lost or mixed up. `PlaysAnExistingFile`: numbers that
come from another box's card resolve to a file or to nothing. `AssignsInRange`:
a box never assigns the sound kept for the shaken box, nor one it does not have,
and its delays lie in the ranges in force even while the shell changes them.

*Configuration.* `ConfigKept`: once a configuration that loads is there, a boot
at any instant finds one, until a closing fails or a boot races a rename
(findings 4 and 5). `SavesAtomic`: all of a save or none of it, with the same end.
`SavedIsStored`: what is in use and was saved is what a boot restores, except
for changes that met the boot. `OthersUntouched`: the other lines stay.

*Updater.* `Recoverable`: the region is whole or a valid file is staged.
`HalfWrittenOnlyWithoutCard`: what the code gives of finding 3's claim.
`UpdateAtomic`, `BootCompletes`.

## 5. Where the code and its comments part

Each of the five is a run that must fail.

1. `loop_boot_fs`: `sounds_scan()` and `device_config_load()` read the card
   without the lock that `sdcard.c:25-28` asks of every caller, while the shell
   may already be saving a setting.
2. `radio_relay_paused`: `relay_work_handler()` does not look at `g_paused`, so
   a relay submitted just before the pause is sent in it.
3. `updater_card_fails`: after an interrupted write, a card that does not mount
   or read on the retry boot is followed by a jump into what the flash holds.
4. `config_close`: `rewrite_config_file()` ignores what `fs_close()` returns,
   though closing writes the last data; a short file then replaces the old one,
   against `device_config.c:66-68`.
5. `config_heal`: a boot that opens the file between a save's unlink and its
   rename takes the save for one that crashed (`device_config.c:66-68`) and
   renames the temporary file itself. Both renames first remove what has the new
   name, so the later one removes the configuration and finds nothing to move;
   no fault is needed. `device_config.c:307` says that a rename fails if its
   target exists, which holds of FatFs but not of Zephyr's `fs_rename()`.

Others were met while modelling and have no run of their own.

Radio and window. Two threads that arm and cancel together can leave an open
window with the mesh running. A scan restart that has passed its `g_paused` check
starts the scanner in the window. `ble_resume()` starts the scanner under a burst
begun before it. A start of the scanner that the controller refuses is logged
(`ble.c:195-198`) or ignored (`ble.c:736`) and not tried again before the next
burst or window, where `ble.c:184-185` says that no path may leave it off. The
re-advertise handler that has passed its `g_active` check advertises after the
close. Re-arming a window as its timer expires does not take back the queued
cancel. `window_expiry()` puts its one event with `K_NO_WAIT` (`ota.c:69`): a
queue full at that very tick would leave the window open. It needs four events
between two waits of the main loop, which does nothing but drop triggers while
the window is open, and is a matter of durations, which are not modelled.

Card. Uploads run in FatFs without `g_fs_mutex` beside playbacks and the saving
of settings, against `sdcard.c:25-28`; what FatFs does then is not modelled, and
`FsSerialized` says only who can meet. Triggers are dropped while the window is
open, but an upload may outlive it, so the box may then bleat while it uploads.

Configuration. `README.md:254-255` says that with a missing or malformed file
"the firmware logs an error and halts"; `main.c:205-208` goes on with the
defaults, as the model does. `README.md:311` says that a volume set in the shell
"does not persist"; `shell.c:103` saves it, like every other setting. A
`delay_min` above 4095 is accepted from the file and the shell
(`README.md:242-244` names no such limit), but a slot holds 12 bits, so every
delay drawn is cut below it. A setting changed while the box is still starting is
saved and then overwritten in use until the next boot.

Elsewhere. A vibration reported between a claim and its `AUDIO_START` is judged
when it is read, and is let through if the sound has ended by then and the
event overtook the session's. `broadcast_log_core.h:10-11` speaks of 8 bits of
seq where `message.h` has 12, and `bleatctl.py:15` of a 7-bit sound index where
the layout (`bleatctl.py:22-27`, `message.h`) has 6; nothing depends on either.

## 6. Proofs

All hold for every value of the constants under the named assumptions of the
modules (a depth of at least one, stimuli and commands among those the code
has, images of at least one page, markers that are no images).

- `TypeCorrect`: `TypeOK` of EventLoop is inductive on its own.
- `ClaimCorrect`, `NeverRefused`: `OneHolder` is not inductive, as it says
  nothing of where the sine test stands. `ClaimInv` adds which of the sine
  test's steps go with its flag, that holders exclude each other and that the
  claim is their disjunction. A new claim needs `~g_playing`, so no holder.
- `PairsAlternate`, `SessionsNotSelfTriggered`: `SessionInv` relates the queue
  to both ends. The session events in it alternate from what main has handled
  to what the poster will post; every vibration marked as reported in a session
  lies between its START and its DONE, or main is inside; and main's flag and
  timer agree with its place. The lemmas about Append and Tail of such a queue
  carry it, one step per action.
- `GateRefined`: under `SessionInv` each step is a step of the gate or leaves
  its phase; its fairness stays with `loop`.
- `BoxQuietsDown`: `QuietsDown`, and `Work` is zero exactly when every thread is
  at its place of rest, queue and request are empty and no timer runs. Only the
  types are needed of a state; the argument is in the weights, which let a step
  pay for the events it puts and the timers it starts. The sum over the queue is
  a function defined by recursion, and lemmas say what Append and Tail do to it.
  With the fair threads of `FairSpec`, a box left alone comes to rest.
- `CardSerialized`: `FsInv` ties each holder of the mutex to the steps it makes
  under it. The users without the mutex, the boot and an SMP client, are named in
  the statement: nothing can be proved of when they meet the others.
- `MutexDiscipline`: `TypeOK` of Radio includes that `g_tx_mutex` is held
  exactly by a thread between the lock and the unlock, which makes two threads
  under it the same thread; inductive on its own.
- `FlagTruthful`, `StartsAlone`: `BurstInv` adds what a thread under the mutex
  knows: before its start nothing is on air, after it its burst is, until the
  flag is set. The lemma that the holder is alone carries it from thread to
  thread.
- `ListensWhenAtRest`: `RestInv` gives a reason for every paused mesh (a window,
  or a thread about to open it or to resume) and for every scanner that is off
  (a window, a burst, a pending resume, a thread that will start it, or a refused
  start). At rest only the last can be left, and the theorem names it.
- `RadioComesToRest`: with failing controller calls and any window threads,
  every step that no trigger, packet, client or operator starts lowers a weighted
  count of the steps ahead, and it is zero exactly in a box at rest. Together
  with `ListensWhenAtRest`: whatever happened, a box left alone with its window
  closed ends up listening, unless the last start of its scanner was refused.
- `HopsBounded`, `ArmsNeverSent`: `PacketInv` says of each packet on air or to
  be relayed that it is no arm command, that its ttl is within its sender's
  limit, and that hops made and hops left together are within some box's limit;
  clamping and decrementing keep the sum from growing.
- `PausedWhileOpen`: `PauseInv` says what each step of opening and closing
  leaves paused; with `overlap` excluded no other thread is in such a step.
- `ScansAlone`: with the mutex discipline, a thread that starts the scanner is
  alone and has seen no burst, except at `ble_resume()`.
- `AlwaysRecoverable`: `RecoveryInv` says for each label of the updater what is
  whole: a valid file from the check to the unlink, a verified region from then
  on. Nothing else can fail it, whatever the faults.
- `NoHalfWrittenBoot`, `UpdaterTypes`, `UpdatesAtomically`: `JumpInv` adds that a
  jump comes with a region that is whole or on a boot whose card failed, and the
  refinement maps the installed image to the staged file's where one is valid
  and to the region's otherwise.
- `BootsAreBounded`: every step of a boot, a loss of power included, lowers a
  rank made of the faults left, whether the flash holds damage not yet seen by
  the verification, and the steps to the jump. A fault costs its boot and at most
  one more, so the retries of `main()` cannot go on for ever.
- `MutexReleased`, `NeverHangsOnDreq`, `SleepsWhenIdle`, `StreamsToReadyCodec`,
  `TellsVolume`: `CodecInv` is the conjunction of who holds the claim and the
  mutex at which label (`ControlInv`, `LockInv`), when the pin and `g_in_reset`
  agree (`PowerInv`), what has been configured at each step since the reset
  (`ConfigInv`), and which of cache and register has the volume last set
  (`VolumeInv`). That a percentage survives the way to the register and back is
  proved for all of 0..100, not for the two of the run.
- `SessionsAreBounded`: in the same way each step that no command starts lowers
  the chunks left to stream and the steps left of the calls in progress.
- `PlaysFiles`: a validated count means that all numbers below it are on the
  card; whatever is decoded must be below it.
- `AssignsSoundly`: the draw stays in its bounds by the division lemma, cutting
  is monotone, and `ranges` holds every limit that a composing thread can see.
- `SaysWhatIsMeant`: a loop that writes the bits of a number, then one that reads
  them, gives the number back as far as its width goes, and a write leaves the
  bits of every other field; both by induction over the bits. A slot's number is
  taken apart into type, sound and delay by division by powers of two, and the
  layout keeps the slots, the command and the seq apart. It is proved for all
  widths and any number of slots, so also for the 6 slots of 12, 6 and 1 bits and
  the seq of 12. What it assumes of the Mac's parts is what `bleatctl.py` checks
  before it sends.
- `PlaysOwnPart`: from that, and from the type and the index surviving the byte
  in which they cross the event queue, which needs `Silent <= 128`: the byte has
  seven bits for the index (`ble_encode.h`).
- `KeepsConfig`: `ConfigKept` says nothing of a save in progress. `Copied` adds
  that the temporary file gives each setting what the lines copied so far give
  it, or the value asked for once its directive is written; when all are, it
  loads if the old file did, as a change brings both limits of the delay or
  none. That the last occurrence of a directive exists at all is the one place
  where the order of the numbers is used, through the library's theorem on
  minimal elements. The theorems of ConfigStore assume nothing of closings and
  races: their statements stop where `hurt` says that one has done damage, and
  findings 4 and 5 show that they must.
- `AtomicSaves`: under the same invariant the unlinking of the old file is the
  abstract store, the end of a load its look, the end of the start its use; every
  other step leaves what the next boot will load, or comes after the damage that
  `SettingsStore` allows once `hurt` names it.
- `SavedAsUsed`: `SavedInv` says that a boot that is starting has read what is
  stored, and that a running box has it in use except for the directives of a
  save, which are in use already and stored once the old file is unlinked;
  settings whose load or save failed, or met each other, are excused by name.
- `LeavesOthers`: `OthersInv` says that the lines copied so far, less those of the
  save's directives, are those of the part of the file already read. Filtering
  is a function defined by recursion over the file; that it passes over a line
  of the save and keeps any other comes from its being the only such function.
- `NeverActsAgain`: `OnceInv` adds to the types that every message in a packet,
  on the Mac or acted on was composed (a box's seq is below its next), that a
  packet names its composer, and that while a box has met no more messages than
  its log has room for, the log is exactly those messages. Then nothing was
  evicted, so one acted on before is found.
- `MeshTypes`, `AssignmentTypes`, `TypesKept`: the type invariants of Mesh,
  Assignment and ConfigStore.

The proofs by induction rest on `Recursion`. The library's induction theorems
take an operator, which the installed provers do not instantiate; `Recursion`
states induction with a set instead, derived from the library's theorem on
minimal elements of well-founded orders, and from it that a function defined by
recursion over 0..n exists and is the only one.

Model-checked only: the liveness properties (`PostCompletes`, `GateReopens`,
`ClaimEnds`, `Reconnectable`, `ScanReturns`, `FloodEnds`, `SessionEnds`,
`BootCompletes`, and the fairness of `VibrationGate`), as liveness under fairness
and `ENABLED` are beyond the prover. The theorems on bounded work prove the part
of them that is safety: between two inputs no behaviour makes steps for ever;
that none stops before its end is what the runs check. Mesh has no such measure:
a burst may be heard again and again until it ends, and a box whose log forgets
it acts each time, so there the end of a flood rests on the end of each burst. The type invariants of EventLoop, Updater,
Mesh, Assignment and ConfigStore are proved and therefore in no run, and the
measures of Radio, Codec and Updater are theorems without a run of their own.

## 7. Not modelled

Left out for good: register set-up of the accelerometer (driver attribute writes
with no state of its own; its trigger is in EventLoop), the battery's ADC and
table, the bits of SPI transfers, logging, the unit tests, and the scripts that
build images and patches.

Left out of modules that exist: the spelling of configuration lines (a value is
a number, and malformed lines, which make a load fail, are files that do not
load); shell commands that only print; in Mesh the changes of hop limit and id
while packets fly, resets that restart the seq (`ble.c:87-90` accepts the
collisions they cause) and its wrap.

Five hazards have no property, as the code does not keep what one would say, or
as how long things take would decide; `PROJECT.json` gives the reason of each.

What would come next: resets of a box in Mesh, with the boot of its composer in a
message's identity; and the hop limit and the id as variables there.
