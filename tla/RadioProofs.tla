---------------------------- MODULE RadioProofs ----------------------------
(***************************************************************************)
(* Theorems about Radio, whichever threads open and close the window and   *)
(* whether or not calls on the sets and on the scanner fail.               *)
(***************************************************************************)
EXTENDS Radio, TLAPS

-----------------------------------------------------------------------------
(* Moving one thread *)

Holding == TxSteps \cup {"preempt"}

\* A thread that goes to a label leaves the others in place.
LEMMA GotoLabel ==
    ASSUME CodeTypeOK, NEW t \in Threads, NEW l \in Labels, Goto(t, l)
    PROVE  /\ pc' \in [Threads -> Labels]
           /\ pc'[t] = l
           /\ \A u \in Threads \ {t} : pc'[u] = pc[u]
  BY DEF CodeTypeOK, Goto

\* One that neither takes the mutex nor gives it back keeps its discipline.
LEMMA KeepLock ==
    ASSUME CodeTypeOK, NEW t \in Threads, NEW l \in Labels, Goto(t, l),
           UNCHANGED g_tx_mutex, pc[t] \in Holding <=> l \in Holding
    PROVE  \A u \in Threads : g_tx_mutex' = u <=> pc'[u] \in Holding
<1>1. /\ pc'[t] = l
      /\ \A u \in Threads \ {t} : pc'[u] = pc[u]
  BY GotoLabel
<1> QED
  BY <1>1 DEF CodeTypeOK, Holding

\* One that takes the free mutex is the only one to hold it.
LEMMA TakeLock ==
    ASSUME CodeTypeOK, NEW t \in {"main", "txq"}, NEW l \in Holding, Goto(t, l), Lock(t)
    PROVE  \A u \in Threads : g_tx_mutex' = u <=> pc'[u] \in Holding
<1>1. t \in Threads /\ l \in Labels
  BY DEF Threads, Labels, Holding
<1>2. /\ pc'[t] = l
      /\ \A u \in Threads \ {t} : pc'[u] = pc[u]
  BY <1>1, GotoLabel
<1>3. \A u \in Threads : u # "free"
  BY DEF Threads
<1> QED
  BY <1>1, <1>2, <1>3 DEF CodeTypeOK, Holding, Lock

\* One that gives the mutex back leaves nobody holding it.
LEMMA GiveBack ==
    ASSUME CodeTypeOK, NEW t \in {"main", "txq"}, pc[t] \in Holding, Unlock(t)
    PROVE  \A u \in Threads : g_tx_mutex' = u <=> pc'[u] \in Holding
<1>1. t \in Threads /\ "idle" \in Labels /\ "idle" \notin Holding
  BY DEF Threads, Labels, Holding, TxSteps
<1>2. /\ pc'[t] = "idle"
      /\ \A u \in Threads \ {t} : pc'[u] = pc[u]
  BY <1>1, GotoLabel DEF Unlock
<1>3. \A u \in Threads : u # "free"
  BY DEF Threads
<1> QED
  BY <1>1, <1>2, <1>3 DEF CodeTypeOK, Holding, Unlock

-----------------------------------------------------------------------------
(* Types and the mutex *)

LEMMA TypeInit == Init => CodeTypeOK
  BY DEF Init, CodeTypeOK, Threads, Labels, TxSteps, WorkItems

FlagsOK ==
    /\ {scanning, burst, conn_adv, connected, g_conn_adv} \subseteq BOOLEAN
    /\ {g_adv_active, g_paused, g_active} \subseteq BOOLEAN
    /\ work \subseteq WorkItems

\* The window's steps, the re-advertising and the start of a work item leave
\* the mutex alone.
LEMMA OffLock ==
    ASSUME CodeTypeOK, NEW t \in Threads, NEW l \in Labels \ Holding, Goto(t, l),
           pc[t] \notin Holding, UNCHANGED g_tx_mutex, FlagsOK'
    PROVE  CodeTypeOK'
<1>1. pc' \in [Threads -> Labels]
  BY GotoLabel
<1>2. \A u \in Threads : g_tx_mutex' = u <=> pc'[u] \in Holding
  BY KeepLock
<1> QED
  BY <1>1, <1>2 DEF CodeTypeOK, FlagsOK, Holding

\* The steps under the mutex.
LEMMA UnderLock ==
    ASSUME CodeTypeOK, NEW t \in {"main", "txq"}, pc[t] \in Holding, FlagsOK',
           \/ Unlock(t)
           \/ UNCHANGED g_tx_mutex /\ \E l \in Holding : Goto(t, l)
    PROVE  CodeTypeOK'
<1>1. t \in Threads /\ Holding \subseteq Labels /\ "idle" \in Labels
  BY DEF Threads, Holding, Labels
<1>2. CASE Unlock(t)
  <2>1. pc' \in [Threads -> Labels]
    BY <1>1, <1>2, GotoLabel DEF Unlock
  <2>2. \A u \in Threads : g_tx_mutex' = u <=> pc'[u] \in Holding
    BY <1>2, GiveBack
  <2> QED
    BY <1>2, <2>1, <2>2 DEF CodeTypeOK, FlagsOK, Holding, Unlock
<1>3. ASSUME NEW l \in Holding, Goto(t, l), UNCHANGED g_tx_mutex PROVE CodeTypeOK'
  <2>1. pc' \in [Threads -> Labels]
    BY <1>1, <1>3, GotoLabel
  <2>2. \A u \in Threads : g_tx_mutex' = u <=> pc'[u] \in Holding
    BY <1>1, <1>3, KeepLock
  <2> QED
    BY <1>3, <2>1, <2>2 DEF CodeTypeOK, FlagsOK, Holding
<1> QED
  BY <1>2, <1>3

\* Taking it.
LEMMA OnLock ==
    ASSUME CodeTypeOK, NEW t \in {"main", "txq"}, NEW l \in Holding, Goto(t, l), Lock(t), FlagsOK'
    PROVE  CodeTypeOK'
<1>1. t \in Threads /\ l \in Labels
  BY DEF Threads, Holding, Labels
<1>2. pc' \in [Threads -> Labels]
  BY <1>1, GotoLabel
<1>3. \A u \in Threads : g_tx_mutex' = u <=> pc'[u] \in Holding
  BY TakeLock
<1> QED
  BY <1>2, <1>3 DEF CodeTypeOK, FlagsOK, Holding, Lock

\* Nobody moves.
LEMMA NoMove == ASSUME CodeTypeOK, UNCHANGED <<pc, g_tx_mutex>>, FlagsOK' PROVE CodeTypeOK'
  BY DEF CodeTypeOK, FlagsOK

LEMMA TxTypes == ASSUME CodeTypeOK, NEW t \in {"main", "txq"}, TxStep(t) PROVE CodeTypeOK'
<1>0. FlagsOK
  BY DEF CodeTypeOK, FlagsOK
<1>1. CASE SetData(t)
  <2>1. /\ pc[t] \in Holding /\ UNCHANGED g_tx_mutex
        /\ \E l \in Holding : Goto(t, l)
    BY <1>1 DEF SetData, At, Holding, TxSteps
  <2>2. FlagsOK'
    BY <1>0, <1>1 DEF SetData, FlagsOK, radioVars, meshVars
  <2> QED
    BY <2>1, <2>2, UnderLock
<1>2. CASE ScanOff(t)
  <2>1. /\ pc[t] \in Holding /\ UNCHANGED g_tx_mutex
        /\ \E l \in Holding : Goto(t, l)
    BY <1>2 DEF ScanOff, Step, At, Holding, TxSteps
  <2>2. FlagsOK'
    BY <1>0, <1>2 DEF ScanOff, StopScanner, FlagsOK, meshVars
  <2> QED
    BY <2>1, <2>2, UnderLock
<1>3. CASE AdvStart(t)
  <2>1. /\ pc[t] \in Holding /\ UNCHANGED g_tx_mutex
        /\ \E l \in Holding : Goto(t, l)
    BY <1>3 DEF AdvStart, StartFailed, At, Holding, TxSteps
  <2>2. FlagsOK'
    BY <1>0, <1>3 DEF AdvStart, FlagsOK, meshVars
  <2> QED
    BY <2>1, <2>2, UnderLock
<1>4. CASE SetFlag(t)
  <2>1. pc[t] \in Holding /\ Unlock(t)
    BY <1>4 DEF SetFlag, At, Holding, TxSteps
  <2>2. FlagsOK'
    BY <1>0, <1>4 DEF SetFlag, FlagsOK, radioVars
  <2> QED
    BY <2>1, <2>2, UnderLock
<1>5. CASE ResumeScanning(t)
  <2>1. /\ pc[t] \in Holding
        /\ \/ Unlock(t)
           \/ UNCHANGED g_tx_mutex /\ \E l \in Holding : Goto(t, l)
    BY <1>5 DEF ResumeScanning, At, Holding, TxSteps
  <2>2. FlagsOK'
    BY <1>0, <1>5 DEF ResumeScanning, FlagsOK, radioVars, meshVars
  <2> QED
    BY <2>1, <2>2, UnderLock
<1>6. CASE ScanStart(t)
  <2>1. pc[t] \in Holding /\ Unlock(t)
    BY <1>6 DEF ScanStart, At, Holding, TxSteps
  <2>2. FlagsOK'
    BY <1>0, <1>6 DEF ScanStart, StartScanner, FlagsOK, meshVars
  <2> QED
    BY <2>1, <2>2, UnderLock
<1> QED
  BY <1>1, <1>2, <1>3, <1>4, <1>5, <1>6 DEF TxStep

LEMMA OtaTypes == ASSUME CodeTypeOK, NEW t \in Threads, OtaStep(t) PROVE CodeTypeOK'
<1>1. FlagsOK
  BY DEF CodeTypeOK, FlagsOK
<1>2. /\ pc[t] \notin Holding /\ UNCHANGED g_tx_mutex
      /\ \E l \in Labels \ Holding : Goto(t, l)
  BY DEF OtaStep, ArmCheck, Pause, ScanStop, CreateSet, Advertise, Opened, CancelCheck, Clear,
         AdvStop, Unpause, Rescan, OpenFailed, Step, At, Holding, TxSteps, OtaSteps, Labels
<1>3. FlagsOK'
  BY <1>1 DEF OtaStep, ArmCheck, Pause, ScanStop, CreateSet, Advertise, Opened, CancelCheck,
              Clear, AdvStop, Unpause, Rescan, StartScanner, StopScanner, FlagsOK, radioVars, meshVars, WorkItems
<1> QED
  BY <1>2, <1>3, OffLock

LEMMA TypeStep == CodeTypeOK /\ [Next]_vars => CodeTypeOK'
<1> SUFFICES ASSUME CodeTypeOK, [Next]_vars PROVE CodeTypeOK'
  OBVIOUS
<1>0. FlagsOK
  BY DEF CodeTypeOK, FlagsOK
<1>1. CASE Preempt
  <2>1. /\ pc["main"] \in Holding
        /\ \/ Unlock("main")
           \/ UNCHANGED g_tx_mutex /\ \E l \in Holding : Goto("main", l)
    BY <1>1 DEF Preempt, StopFailed, At, Holding, TxSteps
  <2>2. FlagsOK'
    BY <1>0, <1>1 DEF Preempt, AfterPreempt, FlagsOK
  <2> QED
    BY <2>1, <2>2, UnderLock
<1>2. CASE TxStep("main") \/ TxStep("txq")
  BY <1>2, TxTypes
<1>3. CASE OtaStep("main") \/ OtaStep("shell")
  BY <1>3, OtaTypes DEF Threads
<1>4. CASE Broadcast
  <2>1. Lock("main") /\ \E l \in Holding : Goto("main", l)
    BY <1>4 DEF Broadcast, Step, Holding, TxSteps
  <2>2. FlagsOK'
    BY <1>0, <1>4 DEF Broadcast, FlagsOK, radioVars, meshVars
  <2> QED
    BY <2>1, <2>2, OnLock
<1>5. CASE BeginTxWork
  <2>1. /\ pc["txq"] \notin Holding /\ UNCHANGED g_tx_mutex
        /\ \E l \in Labels \ Holding : Goto("txq", l)
    BY <1>5 DEF BeginTxWork, At, Holding, TxSteps, Labels
  <2>2. FlagsOK'
    BY <1>0, <1>5 DEF BeginTxWork, FlagsOK, radioVars, meshVars
  <2> QED
    BY <2>1, <2>2, OffLock DEF Threads
<1>6. CASE RelayWork \/ ResumeWork
  <2>1. FlagsOK'
    BY <1>0, <1>6 DEF RelayWork, ResumeWork, FlagsOK, radioVars, meshVars
  <2>2. pc["txq"] \notin Holding
    BY <1>6 DEF RelayWork, ResumeWork, At, Holding, TxSteps
  <2>3. CASE g_adv_active
    <3>1. Goto("txq", "idle") /\ UNCHANGED g_tx_mutex
      BY <1>6, <2>3 DEF RelayWork, ResumeWork, Skipped, Resumed
    <3>2. "idle" \in Labels \ Holding
      BY DEF Labels, Holding, TxSteps
    <3> QED
      BY <2>1, <2>2, <3>1, <3>2, OffLock DEF Threads
  <2>4. CASE ~g_adv_active
    <3>1. Lock("txq") /\ \E l \in Holding : Goto("txq", l)
      BY <1>6, <2>4 DEF RelayWork, ResumeWork, Skipped, Resumed, Holding, TxSteps
    <3> QED
      BY <2>1, <3>1, OnLock
  <2> QED
    BY <2>3, <2>4
<1>7. CASE SysqStep
  <2>1. /\ pc["sysq"] \notin Holding /\ UNCHANGED g_tx_mutex
        /\ \E l \in Labels \ Holding : Goto("sysq", l)
    BY <1>7 DEF SysqStep, BeginReadvertise, Readvertise, Step, At, Holding, TxSteps, Labels
  <2>2. FlagsOK'
    BY <1>0, <1>7 DEF SysqStep, BeginReadvertise, Readvertise, FlagsOK, radioVars, meshVars
  <2> QED
    BY <2>1, <2>2, OffLock DEF Threads
<1>8. CASE BurstEnds \/ Hear \/ Connect \/ Disconnect
  <2>1. UNCHANGED <<pc, g_tx_mutex>>
    BY <1>8 DEF BurstEnds, Hear, Connect, Disconnect
  <2>2. FlagsOK'
    BY <1>0, <1>8 DEF BurstEnds, Hear, Connect, Disconnect, Submit, WorkItems, FlagsOK,
                      radioVars, meshVars
  <2> QED
    BY <2>1, <2>2, NoMove
<1>9. CASE VibrationAssigned
  <2>1. /\ pc["main"] \notin Holding /\ UNCHANGED g_tx_mutex
        /\ \E l \in Labels \ Holding : Goto("main", l)
    BY <1>9 DEF VibrationAssigned, Step, At, Holding, TxSteps, Labels
  <2>2. FlagsOK'
    BY <1>0, <1>9 DEF VibrationAssigned, FlagsOK, radioVars, meshVars
  <2> QED
    BY <2>1, <2>2, OffLock DEF Threads
<1>10. ASSUME NEW t \in OtaThreads, RunOta(t) PROVE CodeTypeOK'
  <2>1. /\ pc[t] \notin Holding /\ UNCHANGED g_tx_mutex
        /\ \E l \in Labels \ Holding : Goto(t, l)
    BY <1>10 DEF RunOta, At, Holding, TxSteps, OtaSteps, Labels
  <2>2. FlagsOK'
    BY <1>0, <1>10 DEF RunOta, FlagsOK, radioVars, meshVars
  <2> QED
    BY <2>1, <2>2, OffLock, OtaAssumption DEF Threads
<1>11. CASE UNCHANGED vars
  BY <1>0, <1>11, NoMove DEF vars, codeVars, radioVars, meshVars, FlagsOK
<1> QED
  BY <1>1, <1>2, <1>3, <1>4, <1>5, <1>6, <1>7, <1>8, <1>9, <1>10, <1>11
     DEF Next, CodeStep, MainStep, ShellStep, TxqStep, Environment

\* The transmit mutex is held in exactly the steps between k_mutex_lock() and
\* k_mutex_unlock(), on every path of ble.c, failures included.
THEOREM MutexDiscipline == Spec => []TypeOK
<1>1. Init => TypeOK
  BY TypeInit DEF Init, TypeOK
<1>2. TypeOK /\ [Next]_vars => TypeOK'
  <2> SUFFICES ASSUME TypeOK, [Next]_vars PROVE TypeOK'
    OBVIOUS
  <2>1. CodeTypeOK'
    BY TypeStep DEF TypeOK
  <2>2. spoiled' \subseteq {"overlap", "restart", "scan"}
    BY DEF Next, NoteSpoiled, vars, TypeOK
  <2> QED
    BY <2>1, <2>2 DEF TypeOK
<1> QED
  BY <1>1, <1>2, PTL DEF Spec

-----------------------------------------------------------------------------
(* The burst and its flag *)

\* What a thread under the mutex knows: nothing is on air before its start,
\* and its own burst is until it has set the flag.
BurstInv ==
    /\ \A t \in Threads : pc[t] \in {"setData", "scanOff", "advStart"} => ~burst
    /\ \A t \in Threads : pc[t] = "flag" => burst
    /\ FlagMatchesBurst

LEMMA BurstInit == Init => BurstInv
  BY DEF Init, BurstInv, FlagMatchesBurst, At

LEMMA HoldsAlone ==
    ASSUME CodeTypeOK, NEW t \in Threads, pc[t] \in Holding
    PROVE  \A u \in Threads \ {t} : pc[u] \notin Holding
  BY DEF CodeTypeOK, Holding

LEMMA NobodyHolds ==
    ASSUME CodeTypeOK, g_tx_mutex = "free"
    PROVE  \A u \in Threads : pc[u] \notin Holding
<1>1. \A u \in Threads : u # "free"
  BY DEF Threads
<1> QED
  BY <1>1 DEF CodeTypeOK, Holding

\* A thread that comes to none of the labels the invariant speaks of, and has
\* not been at the flag, disturbs nothing.
LEMMA BurstFrame ==
    ASSUME CodeTypeOK, BurstInv, UNCHANGED <<burst, g_adv_active>>,
           NEW t \in Threads, pc[t] # "flag",
           NEW l \in Labels \ {"setData", "scanOff", "advStart", "flag"}, Goto(t, l)
    PROVE  BurstInv'
<1>1. pc'[t] = l /\ \A u \in Threads \ {t} : pc'[u] = pc[u]
  BY GotoLabel
<1> QED
  BY <1>1 DEF BurstInv, FlagMatchesBurst, At

\* So does one that goes on towards its start with nothing on air.
LEMMA BurstNext ==
    ASSUME CodeTypeOK, BurstInv, UNCHANGED <<burst, g_adv_active>>, ~burst,
           NEW t \in Threads, NEW l \in {"setData", "scanOff", "advStart"}, Goto(t, l)
    PROVE  BurstInv'
<1>1. pc[t] # "flag"
  BY DEF BurstInv
<1>2. pc'[t] = l /\ \A u \in Threads \ {t} : pc'[u] = pc[u]
  BY GotoLabel DEF Labels, TxSteps
<1> QED
  BY <1>1, <1>2 DEF BurstInv, FlagMatchesBurst, At

LEMMA TxBursts == ASSUME CodeTypeOK, BurstInv, NEW t \in {"main", "txq"}, TxStep(t) PROVE BurstInv'
<1>0. t \in Threads /\ "idle" \in Labels /\ {"restart", "restarting", "flag"} \subseteq Labels
  BY DEF Threads, Labels, TxSteps
<1>1. CASE SetData(t)
  <2>1. /\ pc[t] = "setData" /\ UNCHANGED <<burst, g_adv_active>>
        /\ Goto(t, "scanOff") \/ Goto(t, "restart")
    BY <1>1 DEF SetData, At, radioVars, meshVars
  <2> QED
    BY <1>0, <2>1, BurstFrame, BurstNext DEF BurstInv
<1>2. CASE ScanOff(t)
  <2>1. /\ pc[t] = "scanOff" /\ UNCHANGED <<burst, g_adv_active>>
        /\ Goto(t, "advStart")
    BY <1>2 DEF ScanOff, Step, At, meshVars
  <2> QED
    BY <1>0, <2>1, BurstNext DEF BurstInv
<1>3. CASE AdvStart(t)
  <2>1. pc[t] = "advStart" /\ ~burst /\ UNCHANGED g_adv_active
    BY <1>0, <1>3 DEF AdvStart, At, meshVars, BurstInv
  <2>2. CASE burst' = TRUE /\ Goto(t, "flag")
    <3>1. \A u \in Threads \ {t} : pc[u] \notin Holding
      BY <1>0, <2>1, HoldsAlone DEF Holding, TxSteps
    <3>2. pc'[t] = "flag" /\ \A u \in Threads \ {t} : pc'[u] = pc[u]
      BY <1>0, <2>2, GotoLabel
    <3> QED
      BY <1>0, <2>2, <3>1, <3>2 DEF BurstInv, FlagMatchesBurst, At, Holding, TxSteps
  <2>3. CASE StartFailed(t) /\ UNCHANGED burst
    BY <1>0, <2>1, <2>3, BurstFrame DEF StartFailed
  <2> QED
    BY <1>3, <2>2, <2>3 DEF AdvStart
<1>4. CASE SetFlag(t)
  <2>1. /\ pc[t] = "flag" /\ UNCHANGED burst
        /\ g_adv_active' = TRUE /\ Goto(t, "idle")
    BY <1>4 DEF SetFlag, At, Unlock, radioVars
  <2>2. burst
    BY <1>0, <2>1 DEF BurstInv
  <2>3. \A u \in Threads \ {t} : pc[u] \notin Holding
    BY <1>0, <2>1, HoldsAlone DEF Holding, TxSteps
  <2>4. pc'[t] = "idle" /\ \A u \in Threads \ {t} : pc'[u] = pc[u]
    BY <1>0, <2>1, GotoLabel
  <2> QED
    BY <2>1, <2>2, <2>3, <2>4 DEF BurstInv, FlagMatchesBurst, At, Holding, TxSteps
<1>5. CASE ResumeScanning(t) \/ ScanStart(t)
  <2>1. /\ pc[t] \in {"restart", "restarting"} /\ UNCHANGED <<burst, g_adv_active>>
        /\ Goto(t, "idle") \/ Goto(t, "restarting")
    BY <1>5 DEF ResumeScanning, ScanStart, At, Unlock, radioVars, meshVars
  <2> QED
    BY <1>0, <2>1, BurstFrame
<1> QED
  BY <1>1, <1>2, <1>3, <1>4, <1>5 DEF TxStep

\* The steps that are no transmission leave the burst and its flag alone.
LEMMA OtherBursts ==
    ASSUME CodeTypeOK, BurstInv,
           \/ \E t \in Threads : OtaStep(t)
           \/ BeginTxWork \/ SysqStep \/ VibrationAssigned
           \/ \E t \in OtaThreads : RunOta(t)
    PROVE  BurstInv'
<1>1. UNCHANGED <<burst, g_adv_active>>
  BY DEF OtaStep, ArmCheck, Pause, ScanStop, CreateSet, Advertise, Opened, CancelCheck, Clear,
         AdvStop, Unpause, Rescan, BeginTxWork, SysqStep, BeginReadvertise, Readvertise,
         VibrationAssigned, RunOta, radioVars, meshVars
<1>2. \E t \in Threads :
        /\ pc[t] # "flag"
        /\ \E l \in Labels \ {"setData", "scanOff", "advStart", "flag"} : Goto(t, l)
  BY OtaAssumption
     DEF OtaStep, ArmCheck, Pause, ScanStop, CreateSet, Advertise, Opened, CancelCheck, Clear,
         AdvStop, Unpause, Rescan, OpenFailed, BeginTxWork, SysqStep, BeginReadvertise,
         Readvertise, VibrationAssigned, RunOta, Step, At, Labels, TxSteps, OtaSteps, Threads
<1> QED
  BY <1>1, <1>2, BurstFrame

LEMMA BurstStep == CodeTypeOK /\ BurstInv /\ [Next]_vars => BurstInv'
<1> SUFFICES ASSUME CodeTypeOK, BurstInv, [Next]_vars PROVE BurstInv'
  OBVIOUS
<1>0. {"main", "txq", "shell", "sysq"} \subseteq Threads /\ {"idle", "restart", "preempt"} \subseteq Labels
  BY DEF Threads, Labels, TxSteps
<1>1. CASE Preempt
  <2>1. pc["main"] = "preempt"
    BY <1>1 DEF Preempt, At
  <2>2. CASE burst' = FALSE /\ g_adv_active' = FALSE /\ Goto("main", "setData")
    <3>1. \A u \in Threads \ {"main"} : pc[u] \notin Holding
      BY <1>0, <2>1, HoldsAlone DEF Holding
    <3>2. pc'["main"] = "setData" /\ \A u \in Threads \ {"main"} : pc'[u] = pc[u]
      BY <1>0, <2>2, GotoLabel DEF Labels, TxSteps
    <3> QED
      BY <2>2, <3>1, <3>2 DEF BurstInv, FlagMatchesBurst, At, Holding, TxSteps
  <2>3. CASE StopFailed /\ UNCHANGED <<burst, g_adv_active>>
    BY <1>0, <2>1, <2>3, BurstFrame DEF StopFailed, Unlock
  <2> QED
    BY <1>1, <2>2, <2>3 DEF Preempt, AfterPreempt
<1>2. CASE TxStep("main") \/ TxStep("txq")
  BY <1>2, TxBursts
<1>3. CASE Broadcast \/ RelayWork \/ ResumeWork
  <2>1. UNCHANGED <<burst, g_adv_active>> /\ g_tx_mutex = "free"
    BY <1>3 DEF Broadcast, RelayWork, ResumeWork, Lock, radioVars, meshVars
  <2>2. \A t \in Threads : pc[t] # "flag"
    BY <2>1, NobodyHolds DEF Holding, TxSteps
  <2>3. g_adv_active <=> burst
    BY <2>2 DEF BurstInv, FlagMatchesBurst, At
  <2>4. \E t \in Threads :
          \/ Goto(t, "setData") /\ ~g_adv_active
          \/ \E l \in {"idle", "restart", "preempt"} : Goto(t, l)
    BY <1>0, <1>3 DEF Broadcast, RelayWork, ResumeWork, Skipped, Resumed, Step
  <2>5. ASSUME NEW t \in Threads, Goto(t, "setData"), ~g_adv_active PROVE BurstInv'
    BY <2>1, <2>3, <2>5, BurstNext
  <2>6. ASSUME NEW t \in Threads, NEW l \in {"idle", "restart", "preempt"}, Goto(t, l)
        PROVE  BurstInv'
    BY <1>0, <2>1, <2>2, <2>6, BurstFrame
  <2> QED
    BY <2>4, <2>5, <2>6
<1>4. CASE BurstEnds
  BY <1>4 DEF BurstEnds, BurstInv, FlagMatchesBurst, At
<1>5. CASE Hear \/ Connect \/ Disconnect \/ UNCHANGED vars
  BY <1>5 DEF Hear, Connect, Disconnect, vars, codeVars, radioVars, meshVars, BurstInv,
              FlagMatchesBurst, At
<1>6. CASE OtaStep("main") \/ OtaStep("shell") \/ BeginTxWork \/ SysqStep \/ VibrationAssigned
           \/ \E t \in OtaThreads : RunOta(t)
  BY <1>0, <1>6, OtherBursts
<1> QED
  BY <1>1, <1>2, <1>3, <1>4, <1>5, <1>6 DEF Next, CodeStep, MainStep, ShellStep, TxqStep, Environment

LEMMA BurstCorrect == Spec => [](CodeTypeOK /\ BurstInv)
<1>1. Init => CodeTypeOK /\ BurstInv
  BY TypeInit, BurstInit
<1>2. CodeTypeOK /\ BurstInv /\ [Next]_vars => (CodeTypeOK /\ BurstInv)'
  BY TypeStep, BurstStep
<1> QED
  BY <1>1, <1>2, PTL DEF Spec

\* g_adv_active tells the truth about the controller, whatever fails.
THEOREM FlagTruthful == Spec => []FlagMatchesBurst
<1>1. BurstInv => FlagMatchesBurst
  BY DEF BurstInv
<1> QED
  BY <1>1, BurstCorrect, PTL

\* start_advertising() never meets a burst on air.
THEOREM StartsAlone == Spec => []NeverStartedOver
<1>1. BurstInv => NeverStartedOver
  BY DEF BurstInv, NeverStartedOver, At
<1> QED
  BY <1>1, BurstCorrect, PTL

-----------------------------------------------------------------------------
(* Listening *)

\* A paused mesh has an open window or a thread that will open it or resume.
PausedFor ==
    g_paused =>
      \/ g_active
      \/ \E t \in Threads :
           pc[t] \in {"scanStop", "create", "advertise", "opened", "advStop", "unpause"}

\* A scanner that is off will be started again by the end of a burst, by the
\* transmission under way, or by the window's end; or its start was refused.
Silent ==
    \/ g_active
    \/ burst
    \/ "resume" \in work \/ pc["txq"] = "resume"
    \/ \E t \in Threads :
         pc[t] \in TxSteps
           \cup {"scanStop", "create", "advertise", "opened", "advStop", "unpause", "rescan"}
SilentFor == ~scanning => Silent \/ "scan" \in spoiled

RestInv == PausedFor /\ SilentFor

LEMMA RestInit == Init => RestInv
  BY DEF Init, RestInv, PausedFor, SilentFor

\* What the history says of the scanner.
RefusedStays ==
    ~scanning' =>
      /\ "scan" \in spoiled /\ (\A t \in Threads : pc[t] \in {"scanOff", "scanStop"} => pc'[t] = pc[t])
           => "scan" \in spoiled'
      /\ (\E t \in Threads : pc[t] \in {"restarting", "rescan"} /\ pc'[t] # pc[t])
           => "scan" \in spoiled'

LEMMA ScanNoted == NoteSpoiled => RefusedStays
BY DEF NoteSpoiled, RefusedStays, At

\* The threads other than the one that steps keep whatever reason they give.
LEMMA OtaRest == ASSUME CodeTypeOK, RestInv, NoteSpoiled, NEW t \in Threads, OtaStep(t) PROVE RestInv'
<1> USE DEF RestInv, PausedFor, SilentFor, Silent, Step, At
<1>1. \A l \in Labels : Goto(t, l) => pc'[t] = l /\ \A u \in Threads \ {t} : pc'[u] = pc[u]
  BY GotoLabel
<1>2. OtaSteps \cup {"idle"} \subseteq Labels
  BY DEF Labels
<1>3. pc[t] \in OtaSteps => pc[t] \notin TxSteps /\ pc[t] # "resume"
  BY DEF OtaSteps, TxSteps
<1>15. RefusedStays
  BY ScanNoted
<1> USE DEF RefusedStays
<1>4. CASE ArmCheck(t)
  <2>1. pc[t] = "arm" /\ pc'[t] \in {"idle", "pause"} /\ \A u \in Threads \ {t} : pc'[u] = pc[u]
    BY <1>1, <1>2, <1>4 DEF ArmCheck, OtaSteps
  <2>2. UNCHANGED <<scanning, burst, g_paused, g_active, work>>
    BY <1>4 DEF ArmCheck, radioVars, meshVars
  <2> QED
    BY <1>15, <2>1, <2>2 DEF TxSteps, Threads
<1>5. CASE Pause(t)
  BY <1>1, <1>2, <1>15, <1>3, <1>5 DEF Pause, OtaSteps, radioVars
<1>6. CASE ScanStop(t)
  BY <1>1, <1>2, <1>15, <1>3, <1>6 DEF ScanStop, StopScanner, OtaSteps, meshVars
<1>7. CASE CreateSet(t)
  BY <1>1, <1>2, <1>15, <1>3, <1>7 DEF CreateSet, OtaSteps, meshVars
<1>8. CASE Advertise(t)
  BY <1>1, <1>2, <1>15, <1>3, <1>8 DEF Advertise, OpenFailed, OtaSteps, meshVars
<1>9. CASE Opened(t)
  BY <1>1, <1>2, <1>9, <1>15 DEF Opened, OtaSteps
<1>10. CASE CancelCheck(t)
  <2>1. /\ pc[t] = "cancel" /\ pc'[t] \in {"clear", "idle"}
        /\ \A u \in Threads \ {t} : pc'[u] = pc[u]
    BY <1>1, <1>2, <1>10 DEF CancelCheck, OtaSteps
  <2>2. UNCHANGED <<scanning, burst, g_paused, g_active, work>>
    BY <1>10 DEF CancelCheck, radioVars, meshVars
  <2> QED
    BY <1>15, <2>1, <2>2 DEF TxSteps, Threads
<1>11. CASE Clear(t)
  BY <1>1, <1>2, <1>15, <1>3, <1>11 DEF Clear, OtaSteps, radioVars, meshVars
<1>12. CASE AdvStop(t)
  BY <1>1, <1>2, <1>15, <1>3, <1>12 DEF AdvStop, OtaSteps, meshVars
<1>13. CASE Unpause(t)
  BY <1>1, <1>2, <1>15, <1>3, <1>13 DEF Unpause, OtaSteps, radioVars
<1>14. CASE Rescan(t)
  BY <1>1, <1>2, <1>15, <1>3, <1>14 DEF Rescan, StartScanner, OtaSteps, meshVars
<1> QED
  BY <1>4, <1>5, <1>6, <1>7, <1>8, <1>9, <1>10, <1>11, <1>12, <1>13, <1>14 DEF OtaStep

LEMMA TxRest ==
    ASSUME CodeTypeOK, BurstInv, RestInv, NoteSpoiled, NEW t \in {"main", "txq"}, TxStep(t) PROVE RestInv'
<1> USE DEF RestInv, PausedFor, SilentFor, Silent, At
<1>0. t \in Threads /\ TxSteps \cup {"idle"} \subseteq Labels
  BY DEF Threads, Labels
<1>1. \A l \in Labels : Goto(t, l) => pc'[t] = l /\ \A u \in Threads \ {t} : pc'[u] = pc[u]
  BY <1>0, GotoLabel
<1>8. RefusedStays
  BY ScanNoted
<1> USE DEF RefusedStays
<1>2. CASE SetData(t)
  BY <1>0, <1>1, <1>8, <1>2 DEF SetData, TxSteps, radioVars, meshVars
<1>3. CASE ScanOff(t)
  BY <1>0, <1>1, <1>8, <1>3 DEF ScanOff, StopScanner, Step, TxSteps, meshVars
<1>4. CASE AdvStart(t)
  BY <1>0, <1>1, <1>8, <1>4 DEF AdvStart, StartFailed, TxSteps, meshVars
<1>5. CASE SetFlag(t)
  <2>1. burst
    BY <1>0, <1>5 DEF SetFlag, BurstInv
  <2> QED
    BY <1>0, <1>1, <1>8, <1>5, <2>1 DEF SetFlag, Unlock, TxSteps, radioVars
<1>6. CASE ResumeScanning(t)
  BY <1>0, <1>1, <1>8, <1>6 DEF ResumeScanning, Unlock, TxSteps, radioVars, meshVars
<1>7. CASE ScanStart(t)
  BY <1>0, <1>1, <1>8, <1>7 DEF ScanStart, StartScanner, Unlock, TxSteps, meshVars
<1> QED
  BY <1>2, <1>3, <1>4, <1>5, <1>6, <1>7 DEF TxStep

LEMMA RestStep == CodeTypeOK /\ BurstInv /\ RestInv /\ [Next]_vars => RestInv'
<1> USE DEF RestInv, PausedFor, SilentFor, Silent, At
<1> SUFFICES ASSUME CodeTypeOK, BurstInv, RestInv, Next PROVE RestInv'
  BY DEF vars, codeVars, radioVars, meshVars
<1>0. {"main", "txq", "shell", "sysq"} = Threads
  BY DEF Threads
<1>1. \A t \in Threads, l \in Labels :
        Goto(t, l) => pc'[t] = l /\ \A u \in Threads \ {t} : pc'[u] = pc[u]
  BY GotoLabel
<1>2. TxSteps \cup OtaSteps \cup {"idle", "broadcast", "preempt", "relay", "resume", "readvertise"}
        = Labels
  BY DEF Labels
<1>14. NoteSpoiled /\ RefusedStays
  BY ScanNoted DEF Next
<1> USE DEF RefusedStays
<1>3. CASE TxStep("main") \/ TxStep("txq")
  BY <1>3, <1>14, TxRest
<1>4. CASE OtaStep("main") \/ OtaStep("shell")
  BY <1>0, <1>4, <1>14, OtaRest
<1>5. CASE Preempt
  BY <1>0, <1>1, <1>2, <1>14, <1>5 DEF Preempt, StopFailed, Unlock, TxSteps
<1>6. CASE Broadcast \/ RelayWork
  BY <1>0, <1>1, <1>2, <1>14, <1>6 DEF Broadcast, RelayWork, Step, TxSteps, radioVars, meshVars
<1>7. CASE ResumeWork
  <2>1. CASE g_adv_active
    <3>1. burst
      BY <1>7, <2>1, NobodyHolds DEF ResumeWork, Resumed, BurstInv, FlagMatchesBurst, Holding, TxSteps
    <3> QED
      BY <1>0, <1>1, <1>2, <1>14, <1>7, <2>1, <3>1 DEF ResumeWork, Resumed, TxSteps, radioVars, meshVars
  <2>2. CASE ~g_adv_active
    BY <1>0, <1>1, <1>2, <1>14, <1>7, <2>2 DEF ResumeWork, Resumed, TxSteps, radioVars, meshVars
  <2> QED
    BY <2>1, <2>2
<1>8. CASE BeginTxWork
  BY <1>0, <1>1, <1>2, <1>14, <1>8 DEF BeginTxWork, TxSteps, radioVars, meshVars
<1>9. CASE SysqStep
  BY <1>0, <1>1, <1>2, <1>14, <1>9
     DEF SysqStep, BeginReadvertise, Readvertise, Step, TxSteps, radioVars, meshVars
<1>10. CASE BurstEnds
  BY <1>10, <1>14 DEF BurstEnds, Submit
<1>11. CASE Hear \/ Connect \/ Disconnect
  BY <1>11, <1>14 DEF Hear, Connect, Disconnect, Submit, radioVars, meshVars
<1>12. CASE VibrationAssigned
  BY <1>0, <1>1, <1>2, <1>14, <1>12 DEF VibrationAssigned, Step, TxSteps, radioVars, meshVars
<1>13. ASSUME NEW t \in OtaThreads, RunOta(t) PROVE RestInv'
  <2>1. t \in Threads /\ t # "txq" /\ OtaSteps \subseteq Labels
    BY <1>0, <1>2, OtaAssumption
  <2>2. /\ pc[t] = "idle" /\ pc'[t] \in {"arm", "cancel"}
        /\ \A u \in Threads \ {t} : pc'[u] = pc[u]
    BY <1>1, <1>13, <2>1 DEF RunOta, OtaSteps
  <2>3. UNCHANGED <<scanning, burst, g_paused, g_active, work>>
    BY <1>13 DEF RunOta, radioVars, meshVars
  <2> QED
    BY <1>0, <1>14, <2>1, <2>2, <2>3 DEF TxSteps
<1> QED
  BY <1>3, <1>4, <1>5, <1>6, <1>7, <1>8, <1>9, <1>10, <1>11, <1>12, <1>13
     DEF Next, CodeStep, MainStep, ShellStep, TxqStep, Environment

\* With the window closed and nothing in progress the mesh is not paused and the
\* box listens, unless the last thing done to its scanner is a start that was
\* refused: no other failure of a burst or of the window, and no interleaving of
\* threads that open and close it, leaves the box deaf.
THEOREM ListensWhenAtRest == Spec => []ListensAtRest
<1>1. Init => CodeTypeOK /\ BurstInv /\ RestInv
  BY TypeInit, BurstInit, RestInit
<1>2. CodeTypeOK /\ BurstInv /\ RestInv /\ [Next]_vars => (CodeTypeOK /\ BurstInv /\ RestInv)'
  BY TypeStep, BurstStep, RestStep
<1>3. RestInv => ListensAtRest
  BY DEF RestInv, PausedFor, SilentFor, Silent, ListensAtRest, ListensOrRefused, AtRest, At, Threads,
         TxSteps
<1> QED
  BY <1>1, <1>2, <1>3, PTL DEF Spec

-----------------------------------------------------------------------------
(* The open window and the mesh *)

Opening == {"scanStop", "create", "advertise", "opened"}
Closing == {"advStop", "unpause", "rescan"}

\* Until two threads meet in the window's code, the one there knows which way
\* it is going: nothing is open before it has opened or after it has closed.
WindowInv ==
    /\ Overlaps => "overlap" \in spoiled
    /\ "overlap" \notin spoiled =>
         /\ g_active => g_paused
         /\ \A t \in Threads :
              /\ pc[t] \in Opening \cup Closing \cup {"pause"} => ~g_active
              /\ pc[t] \in Opening => g_paused

LEMMA WindowInit == Init => WindowInv
  BY DEF Init, WindowInv, Overlaps, InOta, OtaSteps, Opening, Closing

\* What the history variable records.
LEMMA SpoiledIs ==
    ASSUME NoteSpoiled
    PROVE  /\ Overlaps' => "overlap" \in spoiled'
           /\ "overlap" \notin spoiled' => "overlap" \notin spoiled \/ ~WindowInUse'
  BY DEF NoteSpoiled

\* A closed window that nobody is at fulfils it.
LEMMA ClosedWindow == ASSUME ~WindowInUse, ~Overlaps PROVE WindowInv
  BY DEF WindowInUse, WindowInv, InOta, OtaSteps, Opening, Closing

\* The mesh and the SMP client leave the window alone.
LEMMA MeshWindow ==
    ASSUME CodeTypeOK, WindowInv, NoteSpoiled, UNCHANGED <<g_active, g_paused>>,
           \A t \in Threads : pc'[t] = pc[t] \/ pc'[t] \notin OtaSteps \/ pc'[t] \in {"arm", "cancel"}
    PROVE  WindowInv'
<1>1. CASE "overlap" \in spoiled'
  BY <1>1 DEF WindowInv
<1>2. CASE "overlap" \notin spoiled' /\ ~WindowInUse'
  <2>1. ~Overlaps'
    BY <1>2, SpoiledIs
  <2> QED
    BY <1>2, <2>1 DEF WindowInUse, WindowInv, InOta, OtaSteps, Opening, Closing
<1>3. CASE "overlap" \notin spoiled' /\ "overlap" \notin spoiled
  <2>1. ~Overlaps'
    BY <1>3, SpoiledIs
  <2> QED
    BY <1>3, <2>1 DEF WindowInv, OtaSteps, Opening, Closing
<1> QED
  BY <1>1, <1>2, <1>3, SpoiledIs

\* A thread alone in the window's code keeps it.
LEMMA OtaWindow ==
    ASSUME CodeTypeOK, WindowInv, NoteSpoiled, NEW t \in Threads, OtaStep(t)
    PROVE  WindowInv'
<1>1. CASE "overlap" \in spoiled'
  BY <1>1 DEF WindowInv
<1>2. CASE "overlap" \notin spoiled' /\ ~WindowInUse'
  <2>1. ~Overlaps'
    BY <1>2, SpoiledIs
  <2> QED
    BY <1>2, <2>1 DEF WindowInUse, WindowInv, InOta, OtaSteps, Opening, Closing
<1>3. CASE "overlap" \notin spoiled' /\ "overlap" \notin spoiled
  <2>1. ~Overlaps' /\ ~Overlaps
    BY <1>3, SpoiledIs DEF WindowInv
  <2>2. InOta(t)
    BY DEF OtaStep, ArmCheck, Pause, ScanStop, CreateSet, Advertise, Opened, CancelCheck, Clear,
           AdvStop, Unpause, Rescan, Step, At, InOta, OtaSteps
  <2>3. \A u \in Threads \ {t} : ~InOta(u)
    BY <2>1, <2>2 DEF Overlaps
  <2>4. \A l \in OtaSteps \cup {"idle"} :
          Goto(t, l) => pc'[t] = l /\ \A u \in Threads \ {t} : pc'[u] = pc[u]
    BY GotoLabel DEF Labels
  <2>5. \A u \in Threads \ {t} : pc[u] \notin Opening \cup Closing \cup {"pause"}
    BY <2>3 DEF InOta, OtaSteps, Opening, Closing
  <2>6. /\ g_active => g_paused
        /\ pc[t] \in Opening \cup Closing \cup {"pause"} => ~g_active
        /\ pc[t] \in Opening => g_paused
    BY <1>3 DEF WindowInv
  <2> USE DEF Step, At, OtaSteps, Opening, Closing
  <2>7. /\ \A u \in Threads \ {t} : pc'[u] = pc[u]
        /\ g_active' => g_paused'
        /\ pc'[t] \in Opening \cup Closing \cup {"pause"} => ~g_active'
        /\ pc'[t] \in Opening => g_paused'
    <3>1. CASE ArmCheck(t) \/ CancelCheck(t)
      BY <2>4, <2>6, <3>1 DEF ArmCheck, Refreshes, CancelCheck, meshVars
    <3>2. CASE Pause(t) \/ ScanStop(t)
      BY <2>4, <2>6, <3>2 DEF Pause, ScanStop, meshVars
    <3>3. CASE CreateSet(t) \/ Advertise(t)
      BY <2>4, <2>6, <3>3 DEF CreateSet, Advertise, OpenFailed, meshVars
    <3>4. CASE Opened(t) \/ Clear(t)
      BY <2>4, <2>6, <3>4 DEF Opened, Clear, meshVars
    <3>5. CASE AdvStop(t) \/ Unpause(t) \/ Rescan(t)
      BY <2>4, <2>6, <3>5 DEF AdvStop, Unpause, Rescan, meshVars
    <3> QED
      BY <3>1, <3>2, <3>3, <3>4, <3>5 DEF OtaStep
  <2> QED
    BY <1>3, <2>1, <2>5, <2>7 DEF WindowInv
<1> QED
  BY <1>1, <1>2, <1>3, SpoiledIs

LEMMA WindowStep == CodeTypeOK /\ WindowInv /\ [Next]_vars => WindowInv'
<1> SUFFICES ASSUME CodeTypeOK, WindowInv, [Next]_vars PROVE WindowInv'
  OBVIOUS
<1>0. CASE UNCHANGED vars
  BY <1>0 DEF vars, codeVars, meshVars, WindowInv, Overlaps, InOta
<1>1. CASE Next
  <2>0. NoteSpoiled /\ {"main", "txq", "shell", "sysq"} = Threads
    BY <1>1 DEF Next, Threads
  <2>1. CASE OtaStep("main") \/ OtaStep("shell")
    BY <2>0, <2>1, OtaWindow
  <2>2. CASE Preempt \/ Broadcast \/ VibrationAssigned \/ BeginTxWork \/ RelayWork \/ ResumeWork
    <3>1. UNCHANGED <<g_active, g_paused>>
      BY <2>2 DEF Preempt, Broadcast, VibrationAssigned, BeginTxWork, RelayWork, ResumeWork, meshVars
    <3>2. \E t \in Threads : \E l \in Labels \ OtaSteps : Goto(t, l)
      BY <2>0, <2>2 DEF Preempt, StopFailed, Unlock, Broadcast, VibrationAssigned, BeginTxWork,
           RelayWork, ResumeWork, Step, Labels, TxSteps, OtaSteps
    <3>3. \A t \in Threads : pc'[t] = pc[t] \/ pc'[t] \notin OtaSteps
      BY <3>2, GotoLabel
    <3> QED
      BY <2>0, <3>1, <3>3, MeshWindow
  <2>3. ASSUME NEW t \in {"main", "txq"}, TxStep(t) PROVE WindowInv'
    <3>1. UNCHANGED <<g_active, g_paused>>
      BY <2>3 DEF TxStep, SetData, ScanOff, AdvStart, SetFlag, ResumeScanning, ScanStart, meshVars
    <3>2. \E l \in Labels \ OtaSteps : Goto(t, l)
      BY <2>3 DEF TxStep, SetData, ScanOff, AdvStart, StartFailed, SetFlag, ResumeScanning,
           ScanStart, Unlock, Step, Labels, TxSteps, OtaSteps
    <3>3. \A u \in Threads : pc'[u] = pc[u] \/ pc'[u] \notin OtaSteps
      BY <2>0, <3>2, GotoLabel
    <3> QED
      BY <2>0, <3>1, <3>3, MeshWindow
  <2>4. CASE SysqStep
    <3>1. UNCHANGED <<g_active, g_paused>>
      BY <2>4 DEF SysqStep, BeginReadvertise, Readvertise, meshVars
    <3>2. \E l \in Labels \ OtaSteps : Goto("sysq", l)
      BY <2>4 DEF SysqStep, BeginReadvertise, Readvertise, Step, Labels, OtaSteps
    <3>3. \A u \in Threads : pc'[u] = pc[u] \/ pc'[u] \notin OtaSteps
      BY <2>0, <3>2, GotoLabel
    <3> QED
      BY <2>0, <3>1, <3>3, MeshWindow
  <2>5. CASE BurstEnds \/ Hear \/ Connect \/ Disconnect
    <3>1. UNCHANGED <<g_active, g_paused, pc>>
      BY <2>5 DEF BurstEnds, Hear, Connect, Disconnect, meshVars
    <3> QED
      BY <2>0, <3>1, MeshWindow
  <2>6. ASSUME NEW t \in OtaThreads, RunOta(t) PROVE WindowInv'
    <3>1. UNCHANGED <<g_active, g_paused>> /\ \E l \in {"arm", "cancel"} : Goto(t, l)
      BY <2>6 DEF RunOta, meshVars
    <3>2. \A u \in Threads : pc'[u] = pc[u] \/ pc'[u] \in {"arm", "cancel"}
      BY <2>0, <3>1, GotoLabel, OtaAssumption DEF Labels, OtaSteps
    <3> QED
      BY <2>0, <3>1, <3>2, MeshWindow
  <2> QED
    BY <1>1, <2>1, <2>2, <2>3, <2>4, <2>5, <2>6
       DEF Next, CodeStep, MainStep, ShellStep, TxqStep, Environment
<1> QED
  BY <1>0, <1>1

\* An open window keeps the mesh paused, whatever fails, as long as no two
\* threads open and close it at once: always, with one thread that does.
THEOREM PausedWhileOpen == Spec => []WindowPausesMesh
<1>1. Init => CodeTypeOK /\ WindowInv
  BY TypeInit, WindowInit
<1>2. CodeTypeOK /\ WindowInv /\ [Next]_vars => (CodeTypeOK /\ WindowInv)'
  BY TypeStep, WindowStep
<1>3. WindowInv => WindowPausesMesh
  BY DEF WindowInv, WindowPausesMesh
<1> QED
  BY <1>1, <1>2, <1>3, PTL DEF Spec

-----------------------------------------------------------------------------
(* The scanner and the bursts *)

\* A thread that is about to restart the scanner has seen the last burst end.
ResumeInv == \A t \in Threads : pc[t] \in {"restart", "restarting"} => ~burst

LEMMA ResumeInit == Init => ResumeInv
  BY DEF Init, ResumeInv

LEMMA ResumeStep == CodeTypeOK /\ BurstInv /\ ResumeInv /\ [Next]_vars => ResumeInv'
<1> SUFFICES ASSUME CodeTypeOK, BurstInv, ResumeInv, [Next]_vars PROVE ResumeInv'
  OBVIOUS
<1>0. /\ {"main", "txq", "shell", "sysq"} = Threads
      /\ {"restart", "restarting"} \cap (OtaSteps \cup {"idle"}) = {}
      /\ OtaSteps \cup {"idle", "restart", "restarting", "readvertise", "relay", "resume"} \subseteq Labels
  BY DEF Threads, OtaSteps, Labels, TxSteps
<1>1. \A t \in Threads, l \in Labels :
        Goto(t, l) => pc'[t] = l /\ \A u \in Threads \ {t} : pc'[u] = pc[u]
  BY GotoLabel
<1> USE DEF ResumeInv, Step, At
<1>2. CASE Preempt \/ Broadcast \/ VibrationAssigned \/ RelayWork
  <2>1. burst' = burst \/ burst' = FALSE
    BY <1>2 DEF Preempt, Broadcast, VibrationAssigned, RelayWork, radioVars
  <2>2. \E t \in Threads : \E l \in {"idle", "setData", "preempt", "broadcast"} : Goto(t, l)
    BY <1>0, <1>2 DEF Preempt, StopFailed, Unlock, Broadcast, VibrationAssigned, RelayWork
  <2>3. {"idle", "setData", "preempt", "broadcast"} \subseteq Labels \ {"restart", "restarting"}
    BY DEF Labels, TxSteps
  <2> QED
    BY <1>1, <2>1, <2>2, <2>3
<1>3. CASE BeginTxWork
  BY <1>0, <1>1, <1>3 DEF BeginTxWork, radioVars
<1>4. CASE ResumeWork
  <2>1. UNCHANGED burst /\ (Goto("txq", "idle") \/ (~g_adv_active /\ Goto("txq", "restart")))
    BY <1>4 DEF ResumeWork, Resumed, radioVars
  <2>2. g_adv_active <=> burst
    BY <1>4, NobodyHolds DEF ResumeWork, BurstInv, FlagMatchesBurst, Holding, TxSteps
  <2> QED
    BY <1>0, <1>1, <2>1, <2>2
<1>5. ASSUME NEW t \in {"main", "txq"}, TxStep(t) PROVE ResumeInv'
  <2>0. t \in Threads /\ TxSteps \subseteq Labels
    BY <1>0 DEF Labels
  <2>1. CASE SetData(t)
    BY <1>0, <1>1, <2>0, <2>1 DEF SetData, BurstInv, TxSteps, radioVars
  <2>2. CASE ScanOff(t)
    BY <1>0, <1>1, <2>0, <2>2 DEF ScanOff, TxSteps
  <2>3. CASE AdvStart(t)
    <3>1. pc[t] = "advStart" /\ ~burst
      BY <2>0, <2>3 DEF AdvStart, BurstInv
    <3>2. \A u \in Threads \ {t} : pc[u] \notin TxSteps
      BY <2>0, <3>1, HoldsAlone DEF Holding, TxSteps
    <3>3. Goto(t, "flag") \/ (Goto(t, "restart") /\ UNCHANGED burst)
      BY <2>3 DEF AdvStart, StartFailed
    <3> QED
      BY <1>1, <2>0, <3>1, <3>2, <3>3 DEF TxSteps
  <2>4. CASE SetFlag(t)
    BY <1>0, <1>1, <2>0, <2>4 DEF SetFlag, Unlock, radioVars
  <2>5. CASE ResumeScanning(t)
    BY <1>0, <1>1, <2>0, <2>5 DEF ResumeScanning, Unlock, radioVars
  <2>6. CASE ScanStart(t)
    BY <1>0, <1>1, <2>0, <2>6 DEF ScanStart, Unlock
  <2> QED
    BY <1>5, <2>1, <2>2, <2>3, <2>4, <2>5, <2>6 DEF TxStep
<1>6. ASSUME NEW t \in Threads, OtaStep(t) PROVE ResumeInv'
  <2>1. UNCHANGED burst /\ \E l \in OtaSteps \cup {"idle"} : Goto(t, l)
    BY <1>6 DEF OtaStep, ArmCheck, Pause, ScanStop, CreateSet, Advertise, Opened, CancelCheck,
         Clear, AdvStop, Unpause, Rescan, OpenFailed, OtaSteps, radioVars
  <2> QED
    BY <1>0, <1>1, <2>1
<1>7. CASE SysqStep
  <2>1. UNCHANGED burst /\ \E l \in {"idle", "readvertise"} : Goto("sysq", l)
    BY <1>7 DEF SysqStep, BeginReadvertise, Readvertise, radioVars
  <2> QED
    BY <1>0, <1>1, <2>1
<1>8. CASE BurstEnds \/ Hear \/ Connect \/ Disconnect \/ UNCHANGED vars
  BY <1>8 DEF BurstEnds, Hear, Connect, Disconnect, vars, codeVars, radioVars
<1>9. ASSUME NEW t \in OtaThreads, RunOta(t) PROVE ResumeInv'
  <2>1. UNCHANGED burst /\ \E l \in {"arm", "cancel"} : Goto(t, l)
    BY <1>9 DEF RunOta, radioVars
  <2>2. t \in Threads /\ {"arm", "cancel"} \subseteq Labels
    BY <1>0, OtaAssumption DEF OtaSteps
  <2> QED
    BY <1>1, <2>1, <2>2
<1> QED
  BY <1>0, <1>2, <1>3, <1>4, <1>5, <1>6, <1>7, <1>8, <1>9
     DEF Next, CodeStep, MainStep, ShellStep, TxqStep, Environment

\* What starts the scanner.
LEMMA WhoScans ==
    ASSUME [Next]_vars, scanning', ~scanning
    PROVE  \/ \E t \in Threads : Rescan(t)
           \/ \E t \in {"main", "txq"} : ScanStart(t)
<1> USE DEF radioVars
<1>1. Next
  BY DEF vars, codeVars
<1> QED
  BY <1>1 DEF Next, CodeStep, MainStep, ShellStep, TxqStep, SysqStep, Environment, Threads,
       Preempt, Broadcast, VibrationAssigned, BeginTxWork, RelayWork, ResumeWork, TxStep, SetData,
       ScanOff, AdvStart, SetFlag, ResumeScanning, OtaStep, ArmCheck, Pause, ScanStop, CreateSet,
       Advertise, Opened, CancelCheck, Clear, AdvStop, Unpause, BeginReadvertise, Readvertise,
       BurstEnds, Hear, Connect, Disconnect, RunOta, StopScanner

\* The one exception to the transmit mutex is ble_resume(): nothing else starts
\* the scanner under a burst.
THEOREM ScansAlone == Spec => OnlyResumeScansUnderBurst
<1>1. Init => CodeTypeOK /\ BurstInv /\ ResumeInv
  BY TypeInit, BurstInit, ResumeInit
<1>2. CodeTypeOK /\ BurstInv /\ ResumeInv /\ [Next]_vars => (CodeTypeOK /\ BurstInv /\ ResumeInv)'
  BY TypeStep, BurstStep, ResumeStep
<1>3. ASSUME CodeTypeOK, BurstInv, ResumeInv, [Next]_vars, ~scanning, scanning', BurstUnderway'
      PROVE  \E t \in Threads : At(t, "rescan") /\ ~At(t, "rescan")'
  <2>0. {"main", "txq"} \subseteq Threads /\ "idle" \in Labels
    BY DEF Threads, Labels
  <2>1. ASSUME NEW t \in {"main", "txq"}, ScanStart(t) PROVE FALSE
    <3>1. pc[t] = "restarting" /\ UNCHANGED burst /\ Goto(t, "idle")
      BY <2>1 DEF ScanStart, At, Unlock
    <3>2. ~burst /\ \A u \in Threads \ {t} : pc[u] \notin Holding
      BY <1>3, <2>0, <3>1, HoldsAlone DEF ResumeInv, Holding, TxSteps
    <3>3. pc'[t] = "idle" /\ \A u \in Threads \ {t} : pc'[u] = pc[u]
      BY <1>3, <2>0, <3>1, GotoLabel
    <3> QED
      BY <1>3, <3>1, <3>2, <3>3 DEF BurstUnderway, At, Holding, TxSteps
  <2>2. PICK t \in Threads : Rescan(t)
    BY <1>3, <2>1, WhoScans
  <2>3. pc[t] = "rescan" /\ pc'[t] = "idle"
    BY <1>3, <2>0, <2>2, GotoLabel DEF Rescan, Step, At
  <2> QED
    BY <2>3 DEF At
<1>4. CodeTypeOK /\ BurstInv /\ ResumeInv /\ [Next]_vars
        => [~scanning /\ scanning' /\ BurstUnderway'
              => \E t \in Threads : At(t, "rescan") /\ ~At(t, "rescan")']_vars
  BY <1>3
<1> QED
  BY <1>1, <1>2, <1>4, PTL DEF Spec, OnlyResumeScansUnderBurst

-----------------------------------------------------------------------------
(* The radio settles *)

\* How many steps a thread at a label makes, with the bursts and the work items
\* that come of them.
LabelWork(label) ==
    CASE label = "idle" -> 0
      [] label \in {"flag", "restarting", "rescan", "opened", "readvertise"} -> 1
      [] label \in {"restart", "unpause"} -> 2
      [] label \in {"resume", "advStop", "advertise"} -> 3
      [] label \in {"clear", "create"} -> 4
      [] label \in {"cancel", "scanStop"} -> 5
      [] label = "pause" -> 6
      [] label \in {"arm", "advStart"} -> 7
      [] label = "scanOff" -> 8
      [] label = "setData" -> 9
      [] label \in {"relay", "preempt"} -> 10
      [] label = "broadcast" -> 11

\* A burst on air submits a resume when it ends.
AirWork ==
    (IF burst THEN 5 ELSE 0) + (IF "relay" \in work THEN 11 ELSE 0)
      + (IF "resume" \in work THEN 4 ELSE 0) + (IF "readvertise" \in work THEN 2 ELSE 0)

Work ==
    LabelWork(pc["main"]) + LabelWork(pc["shell"]) + LabelWork(pc["txq"])
      + LabelWork(pc["sysq"]) + AirWork

\* Every step that neither a vibration, a packet, a client nor an operator
\* starts uses up work of what they started: no work item submits itself again,
\* no failing call is retried for ever, and the threads do not wake each other
\* without end.
RadioSettles == [][~Environment => Work' < Work]_vars

LEMMA LabelWeights ==
    /\ \A label \in Labels : LabelWork(label) \in Nat
    /\ LabelWork("idle") = 0
    /\ \A label \in {"flag", "restarting", "rescan", "opened", "readvertise"} :
         LabelWork(label) = 1
    /\ \A label \in {"restart", "unpause"} : LabelWork(label) = 2
    /\ \A label \in {"resume", "advStop", "advertise"} : LabelWork(label) = 3
    /\ \A label \in {"clear", "create"} : LabelWork(label) = 4
    /\ \A label \in {"cancel", "scanStop"} : LabelWork(label) = 5
    /\ LabelWork("pause") = 6
    /\ \A label \in {"arm", "advStart"} : LabelWork(label) = 7
    /\ LabelWork("scanOff") = 8 /\ LabelWork("setData") = 9
    /\ \A label \in {"relay", "preempt"} : LabelWork(label) = 10
    /\ LabelWork("broadcast") = 11
BY DEF LabelWork, Labels, TxSteps, OtaSteps

LEMMA WorkTypes ==
    ASSUME CodeTypeOK
    PROVE  AirWork \in Nat /\ Work \in Nat /\ \A t \in Threads : LabelWork(pc[t]) \in Nat
<1>1. AirWork \in Nat
  BY DEF AirWork
<1>2. \A t \in Threads : LabelWork(pc[t]) \in Nat
  BY LabelWeights DEF CodeTypeOK
<1> QED
  BY <1>1, <1>2 DEF Work, Threads

\* A thread that moves gives up more work than it leaves on the air.
LEMMA MoveWorks ==
    ASSUME CodeTypeOK, NEW t \in Threads, NEW label \in Labels, Goto(t, label),
           LabelWork(label) + AirWork' < LabelWork(pc[t]) + AirWork
    PROVE  Work' < Work
<1>1. pc'[t] = label /\ \A u \in Threads \ {t} : pc'[u] = pc[u]
  BY GotoLabel
<1>2. AirWork \in Nat /\ \A u \in Threads : LabelWork(pc[u]) \in Nat
  BY WorkTypes
<1>3. LabelWork(label) \in Nat /\ AirWork' \in Nat
  BY LabelWeights DEF AirWork
<1>4. Work' = LabelWork(pc'["main"]) + LabelWork(pc'["shell"]) + LabelWork(pc'["txq"])
                + LabelWork(pc'["sysq"]) + AirWork'
  BY DEF Work
<1> QED
  BY <1>1, <1>2, <1>3, <1>4 DEF Work, Threads

\* A thread that adds nothing to the air moves towards its rest.
LEMMA StepWorks ==
    ASSUME CodeTypeOK, NEW t \in Threads, NEW label \in Labels, Goto(t, label),
           LabelWork(label) < LabelWork(pc[t]), burst' => burst, work' \subseteq work
    PROVE  Work' < Work
<1>1. AirWork' <= AirWork /\ AirWork' \in Nat
  BY DEF AirWork
<1>2. LabelWork(label) \in Nat /\ LabelWork(pc[t]) \in Nat /\ AirWork \in Nat
  BY WorkTypes, LabelWeights
<1>3. \A a, b, x, y \in Nat : a < b /\ x <= y => a + x < b + y
  OBVIOUS
<1>4. LabelWork(label) + AirWork' < LabelWork(pc[t]) + AirWork
  BY <1>1, <1>2, <1>3
<1> QED
  BY <1>4, MoveWorks

\* A transmission pays for its burst, whether or not it starts.
LEMMA TxWorks ==
    ASSUME CodeTypeOK, NEW t \in {"main", "txq"}, TxStep(t) PROVE Work' < Work
<1> USE DEF At, Step, radioVars, meshVars
<1>0. t \in Threads /\ {"idle", "scanOff", "restart", "advStart", "flag", "restarting"} \subseteq Labels
  BY DEF Threads, Labels, TxSteps
<1>1. CASE SetData(t)
  BY <1>0, <1>1, StepWorks, LabelWeights DEF SetData
<1>2. CASE ScanOff(t)
  BY <1>0, <1>2, StepWorks, LabelWeights DEF ScanOff
<1>3. CASE AdvStart(t)
  <2>1. CASE ~burst /\ burst' = TRUE /\ Goto(t, "flag") /\ UNCHANGED g_tx_mutex
    <3>1. AirWork' = AirWork + 5
      BY <1>3, <2>1 DEF AdvStart, AirWork
    <3>2. LabelWork("flag") = 1 /\ LabelWork(pc[t]) = 7 /\ AirWork \in Nat
      BY <1>3, WorkTypes, LabelWeights DEF AdvStart
    <3>3. LabelWork("flag") + AirWork' < LabelWork(pc[t]) + AirWork
      BY <3>1, <3>2
    <3> QED
      BY <1>0, <2>1, <3>3, MoveWorks
  <2>2. CASE StartFailed(t) /\ UNCHANGED burst
    BY <1>0, <1>3, <2>2, StepWorks, LabelWeights DEF AdvStart, StartFailed
  <2> QED
    BY <1>3, <2>1, <2>2 DEF AdvStart
<1>4. CASE SetFlag(t)
  BY <1>0, <1>4, StepWorks, LabelWeights DEF SetFlag, Unlock
<1>5. CASE ResumeScanning(t)
  BY <1>0, <1>5, StepWorks, LabelWeights DEF ResumeScanning, Unlock
<1>6. CASE ScanStart(t)
  BY <1>0, <1>6, StepWorks, LabelWeights DEF ScanStart, Unlock
<1> QED
  BY <1>1, <1>2, <1>3, <1>4, <1>5, <1>6 DEF TxStep

\* The window's calls only ever take work away.
LEMMA OtaWorks ==
    ASSUME CodeTypeOK, NEW t \in Threads, OtaStep(t) PROVE Work' < Work
<1> USE DEF At, Step, radioVars, meshVars
<1>0. OtaSteps \cup {"idle"} \subseteq Labels
  BY DEF Labels
<1>1. \A label \in OtaSteps : label \in Labels
  BY <1>0
<1>2. CASE ArmCheck(t)
  BY <1>0, <1>2, StepWorks, LabelWeights DEF ArmCheck, OtaSteps
<1>3. CASE Pause(t) \/ ScanStop(t)
  BY <1>0, <1>3, StepWorks, LabelWeights DEF Pause, ScanStop, OtaSteps
<1>4. CASE CreateSet(t)
  BY <1>0, <1>4, StepWorks, LabelWeights DEF CreateSet, OtaSteps
<1>5. CASE Advertise(t)
  BY <1>0, <1>5, StepWorks, LabelWeights DEF Advertise, OpenFailed, OtaSteps
<1>6. CASE Opened(t) \/ Rescan(t)
  BY <1>0, <1>6, StepWorks, LabelWeights DEF Opened, Rescan
<1>7. CASE CancelCheck(t)
  BY <1>0, <1>7, StepWorks, LabelWeights DEF CancelCheck, OtaSteps
<1>8. CASE Clear(t)
  BY <1>0, <1>8, StepWorks, LabelWeights DEF Clear, OtaSteps
<1>9. CASE AdvStop(t)
  BY <1>0, <1>9, StepWorks, LabelWeights DEF AdvStop, OtaSteps
<1>10. CASE Unpause(t)
  BY <1>0, <1>10, StepWorks, LabelWeights DEF Unpause, OtaSteps
<1> QED
  BY <1>2, <1>3, <1>4, <1>5, <1>6, <1>7, <1>8, <1>9, <1>10 DEF OtaStep

\* Beginning a work item takes it off, and a burst that ends leaves less than
\* it was.
LEMMA ItemWorks ==
    ASSUME CodeTypeOK,
           Preempt \/ Broadcast \/ BeginTxWork \/ RelayWork \/ ResumeWork
             \/ BeginReadvertise \/ Readvertise \/ BurstEnds
    PROVE  Work' < Work
<1> USE DEF At, Step, radioVars, meshVars
<1>0. /\ {"main", "txq", "sysq"} \subseteq Threads
      /\ {"idle", "setData", "restart", "preempt", "relay", "resume", "readvertise"} \subseteq Labels
  BY DEF Threads, Labels, TxSteps
<1>1. CASE Preempt
  BY <1>0, <1>1, StepWorks, LabelWeights DEF Preempt, StopFailed, Unlock
<1>2. CASE Broadcast
  BY <1>0, <1>2, StepWorks, LabelWeights DEF Broadcast
<1>3. CASE RelayWork
  BY <1>0, <1>3, StepWorks, LabelWeights DEF RelayWork
<1>4. CASE ResumeWork
  BY <1>0, <1>4, StepWorks, LabelWeights DEF ResumeWork
<1>5. CASE Readvertise
  BY <1>0, <1>5, StepWorks, LabelWeights DEF Readvertise
<1>6. CASE BeginTxWork
  <2>1. PICK item \in work \cap {"relay", "resume"} :
          work' = work \ {item} /\ Goto("txq", item)
    BY <1>6 DEF BeginTxWork
  <2>2. AirWork = AirWork' + (IF item = "relay" THEN 11 ELSE 4) /\ AirWork' \in Nat
    BY <1>6, <2>1 DEF BeginTxWork, AirWork
  <2>3. LabelWork(item) = (IF item = "relay" THEN 10 ELSE 3) /\ LabelWork(pc["txq"]) = 0
    BY <1>6, <2>1, LabelWeights DEF BeginTxWork
  <2>4. LabelWork(item) + AirWork' < LabelWork(pc["txq"]) + AirWork
    <3>1. \A n \in Nat : 10 + n < 0 + (n + 11) /\ 3 + n < 0 + (n + 4)
      OBVIOUS
    <3>2. CASE item = "relay"
      BY <2>2, <2>3, <3>1, <3>2
    <3>3. CASE item # "relay"
      BY <2>2, <2>3, <3>1, <3>3
    <3> QED
      BY <3>2, <3>3
  <2> QED
    BY <1>0, <2>1, <2>4, MoveWorks
<1>7. CASE BeginReadvertise
  <2>1. PICK label \in {"readvertise", "idle"} : Goto("sysq", label)
    BY <1>7 DEF BeginReadvertise
  <2>2. AirWork = AirWork' + 2 /\ AirWork' \in Nat
    BY <1>7 DEF BeginReadvertise, AirWork
  <2>3. LabelWork(label) \in {0, 1} /\ LabelWork(pc["sysq"]) = 0
    BY <1>7, <2>1, LabelWeights DEF BeginReadvertise
  <2>4. LabelWork(label) + AirWork' < LabelWork(pc["sysq"]) + AirWork
    BY <2>2, <2>3
  <2> QED
    BY <1>0, <2>1, <2>4, MoveWorks
<1>8. CASE BurstEnds
  <2>1. AirWork' < AirWork /\ AirWork' \in Nat
    BY <1>8 DEF BurstEnds, Submit, AirWork
  <2>2. UNCHANGED pc /\ AirWork \in Nat /\ \A t \in Threads : LabelWork(pc[t]) \in Nat
    BY <1>8, WorkTypes DEF BurstEnds
  <2>3. \A a, b, c, d, x, y \in Nat : x < y => a + b + c + d + x < a + b + c + d + y
    OBVIOUS
  <2> QED
    BY <2>1, <2>2, <2>3 DEF Work, Threads
<1> QED
  BY <1>1, <1>2, <1>3, <1>4, <1>5, <1>6, <1>7, <1>8

LEMMA WorkedOff == ASSUME CodeTypeOK PROVE Work = 0 <=> AtRest
<1>1. \A label \in Labels : LabelWork(label) = 0 <=> label = "idle"
  BY DEF LabelWork, Labels, TxSteps, OtaSteps
<1>2. AirWork = 0 <=> work = {} /\ ~burst
  BY DEF AirWork, CodeTypeOK, WorkItems
<1>3. AirWork \in Nat /\ \A t \in Threads : LabelWork(pc[t]) \in Nat /\ pc[t] \in Labels
  BY WorkTypes DEF CodeTypeOK
<1>4. Work = 0 <=> AirWork = 0 /\ \A t \in Threads : LabelWork(pc[t]) = 0
  BY <1>3 DEF Work, Threads
<1> QED
  BY <1>1, <1>2, <1>3, <1>4 DEF AtRest, At

\* What a vibration, a packet, a client or an operator starts on the radio is
\* a finite number of steps, whatever calls fail, at whose end the box is at
\* rest, where it listens (ListensWhenAtRest).
THEOREM RadioComesToRest == Spec => RadioSettles /\ [](Work \in Nat /\ (Work = 0 <=> AtRest))
<1>1. CodeTypeOK /\ [Next]_vars => [~Environment => Work' < Work]_vars
  <2> SUFFICES ASSUME CodeTypeOK, CodeStep, ~Environment PROVE Work' < Work
    BY DEF Next
  <2>1. ASSUME NEW t \in {"main", "txq"}, TxStep(t) PROVE Work' < Work
    BY <2>1, TxWorks
  <2>2. ASSUME NEW t \in {"main", "shell"}, OtaStep(t) PROVE Work' < Work
    BY <2>2, OtaWorks DEF Threads
  <2> QED
    BY <2>1, <2>2, ItemWorks DEF CodeStep, MainStep, ShellStep, TxqStep, SysqStep
<1>2. CodeTypeOK => Work \in Nat /\ (Work = 0 <=> AtRest)
  BY WorkTypes, WorkedOff
<1>3. Spec => []CodeTypeOK
  BY BurstCorrect, PTL
<1> QED
  BY <1>1, <1>2, <1>3, PTL DEF Spec, RadioSettles
=============================================================================
