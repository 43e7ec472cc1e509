------------------------------- MODULE Radio -------------------------------
(***************************************************************************)
(* One box's radio: the transmit side of the mesh (app/src/ble.c), which   *)
(* shares the controller between scanning and advertising bursts, and the  *)
(* update window (app/src/ota.c), which takes the controller for           *)
(* connectable advertising and gives it back.                              *)
(*                                                                         *)
(* The main thread broadcasts and runs queued window events, the shell     *)
(* thread runs the window's commands, the transmit work queue ("txq")      *)
(* relays and resumes scanning, the system work queue ("sysq") restarts    *)
(* connectable advertising.  A host or controller call takes effect in one *)
(* step; threads interleave between such calls and shared accesses.  The   *)
(* receive work queue is cooperative, so its callbacks are atomic.         *)
(***************************************************************************)
EXTENDS Integers

CONSTANTS
    OtaThreads,  \* the threads that open and close the window
    HciFails     \* the host's calls on a set and on the scanner may fail

ASSUME OtaAssumption == OtaThreads \subseteq {"main", "shell"}
ASSUME FailsAssumption == HciFails \in BOOLEAN

VARIABLES
    scanning,      \* controller: the scanner is on
    burst,         \* controller: the mesh set g_adv_set is on air
    conn_adv,      \* controller: the connectable set g_conn_adv is on air
    connected,     \* host: an SMP client is connected
    g_conn_adv,    \* ota.c: the connectable set has been created
    g_adv_active,  \* ble.c: a burst is believed on air
    g_paused,      \* ble.c: the mesh is paused
    g_active,      \* ota.c: the window is open
    g_tx_mutex,    \* ble.c: the thread that holds it, or "free"
    work,          \* the work items submitted and not yet begun
    pc,            \* where each thread is
    spoiled        \* history: what has gone wrong in this window

radioVars == <<scanning, burst, conn_adv, connected, g_conn_adv>>
meshVars == <<g_adv_active, g_paused>>
codeVars == <<radioVars, meshVars, g_active, g_tx_mutex, work, pc>>
vars == <<codeVars, spoiled>>

Threads == {"main", "shell", "txq", "sysq"}
WorkItems == {"relay", "resume", "readvertise"}

TxSteps == {"setData", "scanOff", "advStart", "flag", "restart", "restarting"}
OtaSteps == {"arm", "pause", "scanStop", "create", "advertise", "opened",
             "cancel", "clear", "advStop", "unpause", "rescan"}
Labels == {"idle", "broadcast", "preempt", "relay", "resume", "readvertise"}
            \cup TxSteps \cup OtaSteps

\* Each variable has its type, and the mutex is held in exactly the steps
\* between k_mutex_lock() and k_mutex_unlock(), on every path.
CodeTypeOK ==
    /\ {scanning, burst, conn_adv, connected, g_conn_adv} \subseteq BOOLEAN
    /\ {g_adv_active, g_paused, g_active} \subseteq BOOLEAN
    /\ g_tx_mutex \in {"free", "main", "txq"}
    /\ work \subseteq WorkItems
    /\ pc \in [Threads -> Labels]
    /\ \A t \in Threads : g_tx_mutex = t <=> pc[t] \in TxSteps \cup {"preempt"}
TypeOK == CodeTypeOK /\ spoiled \subseteq {"overlap", "restart", "scan"}

\* ble_start() has begun to scan, or was refused.
Init ==
    /\ scanning \in {TRUE, ~HciFails}
    /\ burst = FALSE /\ conn_adv = FALSE
    /\ connected = FALSE /\ g_conn_adv = FALSE
    /\ g_adv_active = FALSE /\ g_paused = FALSE /\ g_active = FALSE
    /\ g_tx_mutex = "free"
    /\ work = {}
    /\ pc = [t \in Threads |-> "idle"]
    /\ spoiled = {k \in {"scan"} : ~scanning}

At(t, label) == pc[t] = label
Goto(t, label) == pc' = [pc EXCEPT ![t] = label]
Step(t, from, to) == At(t, from) /\ Goto(t, to)

Lock(t) == g_tx_mutex = "free" /\ g_tx_mutex' = t
Unlock(t) == g_tx_mutex' = "free" /\ Goto(t, "idle")
Submit(item) == work' = work \cup {item}

-----------------------------------------------------------------------------
(* The transmit paths, under g_tx_mutex *)

\* handle_vibration() broadcasts unless the window is open.
VibrationAssigned ==
    /\ Step("main", "idle", "broadcast")
    /\ ~g_active
    /\ UNCHANGED <<radioVars, meshVars, g_active, g_tx_mutex, work>>

\* ble_broadcast_message() preempts a burst on air.
Broadcast ==
    /\ Step("main", "broadcast", IF g_adv_active THEN "preempt" ELSE "setData")
    /\ Lock("main")
    /\ UNCHANGED <<radioVars, meshVars, g_active, work>>

\* Mutant: the error return forgets the mutex.
StopFailed_StaysLocked == Goto("main", "idle") /\ UNCHANGED g_tx_mutex

\* Mutant: a burst that would not stop is started over.
StopFailed_GoesOn == Goto("main", "setData") /\ UNCHANGED g_tx_mutex

StopFailed == Unlock("main")

\* Mutant: the preempted burst stays marked active.
AfterPreempt_KeepsFlag == g_adv_active

AfterPreempt == FALSE

Preempt ==
    /\ At("main", "preempt")
    /\ \/ /\ burst' = FALSE
          /\ g_adv_active' = AfterPreempt
          /\ Goto("main", "setData")
          /\ UNCHANGED g_tx_mutex
       \/ HciFails /\ burst /\ StopFailed /\ UNCHANGED <<burst, g_adv_active>>
    /\ UNCHANGED <<scanning, conn_adv, connected, g_conn_adv, g_paused, g_active, work>>

\* The work queue begins a relay or a scan resume, and waits for the mutex.
BeginTxWork ==
    /\ At("txq", "idle")
    /\ \E item \in work \cap {"relay", "resume"} :
         work' = work \ {item} /\ Goto("txq", item)
    /\ UNCHANGED <<radioVars, meshVars, g_active, g_tx_mutex>>

Skipped == g_adv_active

RelayWork ==
    /\ At("txq", "relay")
    /\ g_tx_mutex = "free"
    /\ IF Skipped
         THEN Goto("txq", "idle") /\ UNCHANGED g_tx_mutex
         ELSE Goto("txq", "setData") /\ Lock("txq")
    /\ UNCHANGED <<radioVars, meshVars, g_active, work>>

\* Mutant: the resume does not look for a burst on air.
Resumed_Always == FALSE

\* A burst on air will submit a resume of its own.
Resumed == g_adv_active

ResumeWork ==
    /\ At("txq", "resume")
    /\ g_tx_mutex = "free"
    /\ IF Resumed
         THEN Goto("txq", "idle") /\ UNCHANGED g_tx_mutex
         ELSE Goto("txq", "restart") /\ Lock("txq")
    /\ UNCHANGED <<radioVars, meshVars, g_active, work>>

\* The scanner's calls; nobody looks at their results but to log them.
StartScanner == scanning' = TRUE \/ (HciFails /\ UNCHANGED scanning)
StopScanner == scanning' = FALSE \/ (HciFails /\ UNCHANGED scanning)

\* start_advertising(): the data, the scanner off, the burst, the flag.
SetData(t) ==
    /\ At(t, "setData")
    /\ \/ Goto(t, "scanOff")
       \/ HciFails /\ Goto(t, "restart")
    /\ UNCHANGED <<radioVars, meshVars, g_active, g_tx_mutex, work>>

ScanOff(t) ==
    /\ Step(t, "scanOff", "advStart")
    /\ StopScanner
    /\ UNCHANGED <<burst, conn_adv, connected, g_conn_adv, meshVars, g_active, g_tx_mutex, work>>

\* Mutant: a burst that does not start leaves the scanner off.
StartFailed_StaysOff(t) == Unlock(t)

StartFailed(t) == Goto(t, "restart") /\ UNCHANGED g_tx_mutex

\* The host refuses a set that is on air already.
AdvStart(t) ==
    /\ At(t, "advStart")
    /\ \/ ~burst /\ burst' = TRUE /\ Goto(t, "flag") /\ UNCHANGED g_tx_mutex
       \/ (burst \/ HciFails) /\ StartFailed(t) /\ UNCHANGED burst
    /\ UNCHANGED <<scanning, conn_adv, connected, g_conn_adv, meshVars, g_active, work>>

SetFlag(t) ==
    /\ At(t, "flag")
    /\ g_adv_active' = TRUE
    /\ Unlock(t)
    /\ UNCHANGED <<radioVars, g_paused, g_active, work>>

\* resume_scanning(): the flag is read, then the scanner is started.
ResumeScanning(t) ==
    /\ At(t, "restart")
    /\ IF g_paused THEN Unlock(t) ELSE Goto(t, "restarting") /\ UNCHANGED g_tx_mutex
    /\ UNCHANGED <<radioVars, meshVars, g_active, work>>

ScanStart(t) ==
    /\ At(t, "restarting")
    /\ StartScanner
    /\ Unlock(t)
    /\ UNCHANGED <<burst, conn_adv, connected, g_conn_adv, meshVars, g_active, work>>

TxStep(t) ==
    SetData(t) \/ ScanOff(t) \/ AdvStart(t) \/ SetFlag(t) \/ ResumeScanning(t) \/ ScanStart(t)

\* adv_sent_cb(): the burst has ended.  A burst lasts at least 80 ms, and the
\* thread that started it has marked it active by then.
BurstEnds ==
    /\ burst
    /\ \A t \in Threads : ~At(t, "flag")
    /\ burst' = FALSE
    /\ g_adv_active' = FALSE
    /\ Submit("resume")
    /\ UNCHANGED <<scanning, conn_adv, connected, g_conn_adv, g_paused, g_active, g_tx_mutex, pc>>

\* scan_recv_cb() hears a message to relay.
Hear ==
    /\ scanning
    /\ Submit("relay")
    /\ UNCHANGED <<radioVars, meshVars, g_active, g_tx_mutex, pc>>

-----------------------------------------------------------------------------
(* The window: ota_start(), ota_cancel(), ble_pause(), ble_resume() *)

RunOta(t) ==
    /\ t \in OtaThreads
    /\ At(t, "idle")
    /\ Goto(t, "arm") \/ Goto(t, "cancel")
    /\ UNCHANGED <<radioVars, meshVars, g_active, g_tx_mutex, work>>

\* Mutant: an open window is opened again.
Refreshes_Never == FALSE

\* An open window has its timer restarted and nothing more.
Refreshes == g_active

ArmCheck(t) ==
    /\ Step(t, "arm", IF Refreshes THEN "idle" ELSE "pause")
    /\ UNCHANGED <<radioVars, meshVars, g_active, g_tx_mutex, work>>

Pause(t) ==
    /\ Step(t, "pause", "scanStop")
    /\ g_paused' = TRUE
    /\ UNCHANGED <<radioVars, g_adv_active, g_active, g_tx_mutex, work>>

ScanStop(t) ==
    /\ Step(t, "scanStop", "create")
    /\ StopScanner
    /\ UNCHANGED <<burst, conn_adv, connected, g_conn_adv, meshVars, g_active, g_tx_mutex, work>>

\* Created on first use; there is room for one connectable set.
CreateSet(t) ==
    /\ At(t, "create")
    /\ \/ g_conn_adv' = TRUE /\ Goto(t, "advertise")
       \/ HciFails /\ ~g_conn_adv /\ Goto(t, "unpause") /\ UNCHANGED g_conn_adv
    /\ UNCHANGED <<scanning, burst, conn_adv, connected, meshVars, g_active, g_tx_mutex, work>>

\* Mutant: a window that does not open leaves the mesh paused.
OpenFailed_StaysPaused(t) == Goto(t, "idle")

OpenFailed(t) == Goto(t, "unpause")

\* The host refuses a set on air already, and a second connection.
Advertise(t) ==
    /\ At(t, "advertise")
    /\ \/ ~conn_adv /\ ~connected /\ conn_adv' = TRUE /\ Goto(t, "opened")
       \/ (conn_adv \/ connected \/ HciFails) /\ OpenFailed(t) /\ UNCHANGED conn_adv
    /\ UNCHANGED <<scanning, burst, connected, g_conn_adv, meshVars, g_active, g_tx_mutex, work>>

Opened(t) ==
    /\ Step(t, "opened", "idle")
    /\ g_active' = TRUE
    /\ UNCHANGED <<radioVars, meshVars, g_tx_mutex, work>>

CancelCheck(t) ==
    /\ Step(t, "cancel", IF g_active THEN "clear" ELSE "idle")
    /\ UNCHANGED <<radioVars, meshVars, g_active, g_tx_mutex, work>>

\* The flag, then k_work_cancel_delayable(): a handler already begun goes on.
Clear(t) ==
    /\ Step(t, "clear", "advStop")
    /\ g_active' = FALSE
    /\ work' = work \ {"readvertise"}
    /\ UNCHANGED <<radioVars, meshVars, g_tx_mutex>>

AdvStop(t) ==
    /\ Step(t, "advStop", "unpause")
    /\ \/ conn_adv' = FALSE
       \/ HciFails /\ UNCHANGED conn_adv
    /\ UNCHANGED <<scanning, burst, connected, g_conn_adv, meshVars, g_active, g_tx_mutex, work>>

\* ble_resume(): whether or not a burst is on air.
Unpause(t) ==
    /\ Step(t, "unpause", "rescan")
    /\ g_paused' = FALSE
    /\ UNCHANGED <<radioVars, g_adv_active, g_active, g_tx_mutex, work>>

Rescan(t) ==
    /\ Step(t, "rescan", "idle")
    /\ StartScanner
    /\ UNCHANGED <<burst, conn_adv, connected, g_conn_adv, meshVars, g_active, g_tx_mutex, work>>

OtaStep(t) ==
    \/ ArmCheck(t) \/ Pause(t) \/ ScanStop(t) \/ CreateSet(t) \/ Advertise(t) \/ Opened(t)
    \/ CancelCheck(t) \/ Clear(t) \/ AdvStop(t) \/ Unpause(t) \/ Rescan(t)

-----------------------------------------------------------------------------
(* The SMP client *)

\* A connection takes the connectable advertising off air.  It takes longer
\* than the thread that started the advertising needs to open the window.
Connect ==
    /\ conn_adv /\ ~connected
    /\ \A t \in Threads : ~At(t, "opened")
    /\ connected' = TRUE /\ conn_adv' = FALSE
    /\ UNCHANGED <<scanning, burst, g_conn_adv, meshVars, g_active, g_tx_mutex, work, pc>>

\* Mutant: the disconnected callback schedules nothing.
Readvertises_Never == FALSE

Readvertises == g_active

\* ota_disconnected()
Disconnect ==
    /\ connected
    /\ connected' = FALSE
    /\ IF Readvertises THEN Submit("readvertise") ELSE UNCHANGED work
    /\ UNCHANGED <<scanning, burst, conn_adv, g_conn_adv, meshVars, g_active, g_tx_mutex, pc>>

\* readvertise_work_handler(): the check, then the call.
BeginReadvertise ==
    /\ "readvertise" \in work
    /\ Step("sysq", "idle", IF g_active /\ g_conn_adv THEN "readvertise" ELSE "idle")
    /\ work' = work \ {"readvertise"}
    /\ UNCHANGED <<radioVars, meshVars, g_active, g_tx_mutex>>

Readvertise ==
    /\ Step("sysq", "readvertise", "idle")
    /\ \/ ~connected /\ conn_adv' = TRUE
       \/ (connected \/ HciFails) /\ UNCHANGED conn_adv
    /\ UNCHANGED <<scanning, burst, connected, g_conn_adv, meshVars, g_active, g_tx_mutex, work>>

-----------------------------------------------------------------------------
MainStep == Preempt \/ TxStep("main") \/ OtaStep("main")
ShellStep == OtaStep("shell")
TxqStep == BeginTxWork \/ TxStep("txq")
SysqStep == BeginReadvertise \/ Readvertise
Environment ==
    VibrationAssigned \/ Hear \/ Connect \/ Disconnect \/ \E t \in OtaThreads : RunOta(t)

CodeStep ==
    \/ MainStep \/ Broadcast \/ ShellStep \/ TxqStep \/ RelayWork \/ ResumeWork \/ SysqStep
    \/ BurstEnds \/ Environment

\* What spoils a window: two threads in its code at once, until it is closed;
\* a restart the controller refused, until the box is connectable again.  What
\* spoils the listening: that the last call on the scanner was a refused start.
InOta(t) == pc[t] \in OtaSteps
Overlaps == \E t, u \in Threads : t # u /\ InOta(t) /\ InOta(u)
WindowInUse == g_active \/ \E t \in Threads : InOta(t)
Unreachable == g_active /\ ~connected /\ ~conn_adv
NoteSpoiled ==
    LET Left(labels) == \E t \in Threads, l \in labels : At(t, l) /\ ~At(t, l)'
        refused == Left({"readvertise"})
        noScan == \/ Left({"restarting", "rescan"})
                  \/ "scan" \in spoiled /\ ~Left({"scanOff", "scanStop"})
    IN  spoiled' = {k \in {"overlap"} : Overlaps' \/ (k \in spoiled /\ WindowInUse')}
              \cup {k \in {"restart"} : Unreachable' /\ (refused \/ k \in spoiled)}
              \cup {k \in {"scan"} : ~scanning' /\ noScan}

Next == CodeStep /\ NoteSpoiled

\* Threads run, bursts end, and a thread that waits for the mutex gets it.
Fairness ==
    /\ WF_codeVars(MainStep) /\ SF_codeVars(Broadcast)
    /\ WF_codeVars(ShellStep)
    /\ WF_codeVars(TxqStep) /\ SF_codeVars(RelayWork) /\ SF_codeVars(ResumeWork)
    /\ WF_codeVars(SysqStep)
    /\ WF_codeVars(BurstEnds)

Spec == Init /\ [][Next]_vars
FairSpec == Spec /\ Fairness
-----------------------------------------------------------------------------
(* Properties *)

\* Outside start_advertising()'s last step, g_adv_active says what is on air:
\* preempting, failing and completing bursts keep it so.
FlagMatchesBurst ==
    (\A t \in Threads : ~At(t, "flag")) => (g_adv_active <=> burst)

\* A burst is never started over one on air ("starting over it would fail
\* with -EALREADY").
NeverStartedOver == \A t \in Threads : At(t, "advStart") => ~burst

\* When nothing is in progress and no window is open, the box listens, or the
\* last thing done to its scanner is a start that was refused ("scanning is this
\* device's only way to hear peers, so no path may leave it off without a
\* pending burst to restore it"): no path forgets to start it.
AtRest ==
    (\A t \in Threads : At(t, "idle")) /\ work = {} /\ ~burst
ListensOrRefused == scanning \/ "scan" \in spoiled
ListensAtRest == AtRest /\ ~g_active => ~g_paused /\ ListensOrRefused

\* Once nobody broadcasts or uses the window, the box again and again listens,
\* or has tried to and was refused.
ScanReturns ==
    <>[](~g_active /\ At("main", "idle") /\ At("shell", "idle")) => []<>ListensOrRefused

\* Under a burst on air or about to start only the end of a window starts the
\* scanner ("Stop scanning while advertising to avoid a timing conflict"):
\* ble_resume() does not ask for the transmit mutex, everyone else does.
BurstUnderway == burst \/ \E t \in Threads : At(t, "advStart")
OnlyResumeScansUnderBurst ==
    [][~scanning /\ scanning' /\ BurstUnderway'
         => \E t \in Threads : At(t, "rescan") /\ ~At(t, "rescan")']_vars

\* An open window is connectable again after a disconnect, unless it closes
\* ("restart it on disconnect so the operator can reconnect").
Reconnectable == Unreachable ~> ~Unreachable \/ spoiled # {}

\* An open window keeps the mesh paused, from the moment it is open and
\* through every refresh and failure ("True while the mesh is paused (e.g.
\* during an OTA window)"), unless two threads opened and closed it at once.
WindowPausesMesh == g_active /\ "overlap" \notin spoiled => g_paused

\* No burst starts while the mesh is paused ("Mesh transmits are already quiet
\* during OTA").
QuietWhilePaused == [][~burst /\ burst' => ~g_paused]_vars
=============================================================================
