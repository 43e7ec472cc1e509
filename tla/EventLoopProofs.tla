--------------------------- MODULE EventLoopProofs ---------------------------
(***************************************************************************)
(* Theorems about EventLoop, for every queue depth, every set of stimuli   *)
(* and every set of shell commands: types, the claim on the codec, the     *)
(* card's mutex, then the order of a session's events and the vibration    *)
(* gate that the main loop builds on it.                                   *)
(***************************************************************************)
EXTENDS EventLoop, Recursion

-----------------------------------------------------------------------------
(* Moving one thread *)

PcsOf(t) ==
    IF t = "main" THEN MainPcs ELSE IF t = "audio" THEN AudioPcs ELSE ShellPcs

\* A thread that goes to one of its own labels leaves the others in place.
LEMMA GotoLabel ==
    ASSUME PcOK, NEW t \in Threads, NEW l \in PcsOf(t), Goto(t, l)
    PROVE  PcOK' /\ pc'[t] = l /\ \A u \in Threads \ {t} : pc'[u] = pc[u]
  BY DEF PcOK, Goto, Threads, Labels, PcsOf

\* The labels each thread can go to.
LEMMA OwnLabels ==
    /\ \A l \in {"init", "mount", "scan", "load", "start", "get", "suppress",
                 "check", "send"} : l \in PcsOf("main")
    /\ \A l \in {"wait", "delay", "open", "stream"} : l \in PcsOf("audio")
    /\ \A l \in {"idle", "tone", "lock", "rewrite"} : l \in PcsOf("shell")
    /\ \A t \in {"main", "shell"} :
         \A l \in {"claim", "put", "arm", "arming", "cancel", "clearing", "closing"} :
           l \in PcsOf(t)
    /\ \A t \in {"audio", "shell"} :
         \A l \in {"postStart", "startPended", "postDone", "donePended", "release"} :
           l \in PcsOf(t)
    /\ \A t \in Threads : Rest(t) \in PcsOf(t)
  BY DEF PcsOf, MainPcs, BootSteps, OtaSteps, AudioPcs, PostSteps, ShellPcs,
         Threads, Rest

\* A thread back at rest, and the event of the main thread.
LEMMA ReturnOK ==
    ASSUME PcOK, evt \in Events, NEW t \in Threads, Return(t)
    PROVE  /\ PcOK' /\ pc'[t] = Rest(t) /\ \A u \in Threads \ {t} : pc'[u] = pc[u]
           /\ evt' \in Events
<1>1. NoEvent \in Events
  BY DEF NoEvent, Event, Events, EventTypes, Origins
<1> QED
  BY <1>1, GotoLabel, OwnLabels DEF Return

-----------------------------------------------------------------------------
(* The queue *)

\* Putting an event keeps the queue a sequence of events within its depth.
LEMMA PutOK ==
    ASSUME event_q \in Seq(Events), Len(event_q) <= EVENT_QUEUE_DEPTH,
           NEW e \in Events, PutNoWait(e)
    PROVE  event_q' \in Seq(Events) /\ Len(event_q)' <= EVENT_QUEUE_DEPTH
  BY DepthAssumption DEF PutNoWait, QueueFull

LEMMA EventOK == ASSUME NEW type \in EventTypes PROVE Event(type) \in Events
  BY DEF Event, Events, Origins

LEMMA PostOK ==
    ASSUME TypeOK, NEW t \in {"audio", "shell"},
           PostStart(t) \/ PostDone(t)
    PROVE  TypeOK'
<1>1. Event("AUDIO_START") \in Events /\ Event("AUDIO_DONE") \in Events
  BY EventOK DEF EventTypes
<1>2. AfterStart(t) \in PcsOf(t)
  BY OwnLabels DEF AfterStart
<1>3. PcOK'
  BY <1>2, GotoLabel, OwnLabels DEF TypeOK, PostStart, PostDone, Post, Threads
<1>4. event_q' \in Seq(Events) /\ Len(event_q') <= EVENT_QUEUE_DEPTH
  BY <1>1, DepthAssumption DEF TypeOK, PostStart, PostDone, Post, QueueFull
<1> QED
  BY <1>3, <1>4 DEF TypeOK, PostStart, PostDone, Post, gateVars, audioVars, fsVars, otaVars

\* Where the main thread goes with an event is one of its labels.
LEMMA DispatchOK == ASSUME NEW e \in Events PROVE Dispatch(e) \in PcsOf("main")
  BY OwnLabels DEF Dispatch, Events, EventTypes, Origins

LEMMA GetOK == ASSUME TypeOK, Get PROVE TypeOK'
<1> DEFINE e == Head(event_q)
<1>1. /\ e \in Events /\ Dispatch(e) \in PcsOf("main")
      /\ Tail(event_q) \in Seq(Events) /\ Len(Tail(event_q)) = Len(event_q) - 1
  BY DispatchOK DEF TypeOK, Get
<1>2. evt' \in Events /\ cooldown_timer' \in BOOLEAN
  BY <1>1 DEF TypeOK, Get, CooldownAfter, NoEvent, Event, Events, EventTypes, Origins
<1>3. CASE event_q' = Tail(event_q) /\ Goto("main", Dispatch(e))
  <2>1. PcOK'
    BY <1>1, <1>3, GotoLabel DEF TypeOK, Threads
  <2>2. event_q' \in Seq(Events) /\ Len(event_q') <= EVENT_QUEUE_DEPTH
    BY <1>1, <1>3, DepthAssumption DEF TypeOK
  <2> QED
    BY <1>2, <2>1, <2>2 DEF TypeOK, Get, audioVars, fsVars, otaVars
<1>4. ASSUME NEW t \in {"audio", "shell"},
             event_q' = Append(Tail(event_q), PendedEvent(t)),
             pc' = [pc EXCEPT !["main"] = Dispatch(e), ![t] = PendedNext(t)]
      PROVE  TypeOK'
  <2>1. PendedEvent(t) \in Events
    BY EventOK DEF PendedEvent, EventTypes
  <2>2. PendedNext(t) \in PcsOf(t)
    BY OwnLabels DEF PendedNext, AfterStart
  <2>3. PcOK'
    BY <1>1, <1>4, <2>2 DEF TypeOK, PcOK, PcsOf, Threads, Labels
  <2>4. event_q' \in Seq(Events) /\ Len(event_q') <= EVENT_QUEUE_DEPTH
    BY <1>1, <1>4, <2>1, DepthAssumption DEF TypeOK
  <2> QED
    BY <1>2, <2>3, <2>4 DEF TypeOK, Get, audioVars, fsVars, otaVars
<1> QED
  BY <1>3, <1>4 DEF Get

-----------------------------------------------------------------------------
(* Type correctness *)

\* Every step keeps the queue within its depth and every variable in its type.
LEMMA TypeStep == TypeOK /\ [Next]_vars => TypeOK'
<1> SUFFICES ASSUME TypeOK, [Next]_vars PROVE TypeOK'
  OBVIOUS
<1> USE DEF TypeOK, gateVars, audioVars, fsVars, otaVars
<1>1. ASSUME InitModules \/ Mount \/ ReadCard \/ Suppress \/ StartProducers \/ Check \/ Send
      PROVE  TypeOK'
  <2>1. PcOK' /\ evt' \in Events
    BY <1>1, GotoLabel, ReturnOK, OwnLabels
    DEF InitModules, Mount, ReadCard, Suppress, StartProducers, Check, Send, Threads
  <2>2. CASE InitModules
    BY <2>2, <2>1 DEF InitModules
  <2>3. CASE Mount
    BY <2>3, <2>1 DEF Mount
  <2>4. CASE ReadCard
    BY <2>4, <2>1 DEF ReadCard
  <2>5. CASE Suppress
    BY <2>5, <2>1 DEF Suppress
  <2>6. CASE StartProducers
    BY <2>6, <2>1 DEF StartProducers
  <2>7. CASE Check
    BY <2>7, <2>1 DEF Check
  <2>8. CASE Send
    BY <2>8, <2>1 DEF Send
  <2> QED
    BY <1>1, <2>2, <2>3, <2>4, <2>5, <2>6, <2>7, <2>8
<1>2. CASE Get
  BY <1>2, GetOK
<1>3. ASSUME NEW t \in {"main", "shell"}, Claim(t) \/ PutRequest(t)
      PROVE  TypeOK'
  <2>1. PcOK' /\ evt' \in Events
    BY <1>3, GotoLabel, ReturnOK, OwnLabels
    DEF Claim, Refused, PutRequest, Threads
  <2>2. CASE Claim(t)
    <3>1. g_playing' \in BOOLEAN
      BY <2>2 DEF Claim, Refused
    <3> QED
      BY <2>1, <2>2, <3>1 DEF Claim
  <2>3. CASE PutRequest(t)
    <3>1. g_playing' \in BOOLEAN
      BY <2>3 DEF PutRequest
    <3>2. g_play_q' \in {0, 1}
      BY <2>3 DEF PutRequest
    <3> QED
      BY <2>1, <2>3, <3>1, <3>2 DEF PutRequest
  <2> QED
    BY <1>3, <2>2, <2>3
<1>4. ASSUME NEW t \in {"main", "shell"},
             ArmCheck(t) \/ ArmFinish(t) \/ CancelCheck(t) \/ CancelClear(t) \/ CancelFinish(t)
      PROVE  TypeOK'
  <2>1. PcOK' /\ evt' \in Events
    BY <1>4, GotoLabel, ReturnOK, OwnLabels
    DEF ArmCheck, ArmFinish, CancelCheck, CancelClear, CancelFinish, Threads
  <2>2. CASE ArmCheck(t)
    BY <2>2, <2>1 DEF ArmCheck
  <2>3. CASE ArmFinish(t)
    BY <2>3, <2>1 DEF ArmFinish
  <2>4. CASE CancelCheck(t)
    BY <2>4, <2>1 DEF CancelCheck
  <2>5. CASE CancelClear(t)
    BY <2>5, <2>1 DEF CancelClear
  <2>6. CASE CancelFinish(t)
    BY <2>6, <2>1 DEF CancelFinish
  <2> QED
    BY <1>4, <2>2, <2>3, <2>4, <2>5, <2>6
<1>5. ASSUME NEW t \in {"audio", "shell"}, PostStart(t) \/ PostDone(t)
      PROVE  TypeOK'
  BY <1>5, PostOK
<1>6. ASSUME NEW t \in {"audio", "shell"}, Release(t)
      PROVE  TypeOK'
  <2>1. PcOK' /\ evt' \in Events
    BY <1>6, ReturnOK DEF Release, Threads
  <2> QED
    BY <1>6, <2>1 DEF Release
<1>7. ASSUME TakeRequest \/ AudioLock \/ OpenSound \/ EndSound
      PROVE  TypeOK'
  <2>1. PcOK' /\ evt' \in Events
    BY <1>7, GotoLabel, OwnLabels
    DEF TakeRequest, AudioLock, OpenSound, OpenFailed, EndSound, Threads
  <2> QED
    BY <1>7, <2>1 DEF TakeRequest, AudioLock, OpenSound, OpenFailed, EndSound
<1>8. ASSUME ShellCommand \/ ToneUp \/ ShellLock \/ Rewrite
      PROVE  TypeOK'
  <2>1. PcOK' /\ evt' \in Events
    BY <1>8, GotoLabel, OwnLabels
    DEF ShellCommand, CmdPlay, CmdSineOn, CmdSineOff, CmdSave, CmdOta, ToneUp,
        ToneFailed, ShellLock, Rewrite, Threads
  <2>2. CASE CmdPlay
    BY <2>2, <2>1 DEF CmdPlay
  <2>3. CASE CmdSineOn
    BY <2>3, <2>1 DEF CmdSineOn
  <2>4. CASE CmdSineOff
    BY <2>4, <2>1 DEF CmdSineOff
  <2>5. CASE CmdSave
    BY <2>5, <2>1 DEF CmdSave
  <2>6. CASE CmdOta
    BY <2>6, <2>1 DEF CmdOta
  <2>7. CASE ToneUp
    BY <2>7, <2>1 DEF ToneUp, ToneFailed
  <2>8. CASE ShellLock
    BY <2>8, <2>1 DEF ShellLock
  <2>9. CASE Rewrite
    BY <2>9, <2>1 DEF Rewrite
  <2> QED
    BY <1>8, <2>2, <2>3, <2>4, <2>5, <2>6, <2>7, <2>8, <2>9 DEF ShellCommand
<1>9. CASE CooldownExpired
  BY <1>9 DEF CooldownExpired, PcOK
<1>10. CASE WindowExpiry
  <2>1. event_q' \in Seq(Events) /\ Len(event_q)' <= EVENT_QUEUE_DEPTH
    BY <1>10, PutOK, EventOK DEF WindowExpiry, EventTypes
  <2> QED
    BY <1>10, <2>1 DEF WindowExpiry, PcOK
<1>11. CASE Produce
  <2>1. PICK e \in Events : PutNoWait(e)
    BY <1>11, StimuliAssumption DEF Produce, Events, EventTypes, Origins
  <2>2. event_q' \in Seq(Events) /\ Len(event_q)' <= EVENT_QUEUE_DEPTH
    BY <2>1, PutOK
  <2> QED
    BY <1>11, <2>2 DEF Produce, PcOK
<1>12. CASE UNCHANGED vars
  BY <1>12 DEF vars, PcOK
<1>13. CASE SmpStep
  BY <1>13 DEF SmpStep, ClientConnects, ClientLeaves, PcOK
<1> QED
  BY <1>1, <1>2, <1>3, <1>4, <1>5, <1>6, <1>7, <1>8, <1>9, <1>10, <1>11, <1>12, <1>13
  DEF Next, MainStep, AudioStep, ShellStep

\* Init gives every variable a value of its type.
LEMMA TypeInit == Init => TypeOK
<1> SUFFICES ASSUME Init PROVE TypeOK
  OBVIOUS
<1>1. PcOK
  <2>1. \A t \in Threads : pc[t] = (IF t = "main" THEN "init" ELSE Rest(t))
    BY DEF Init
  <2>2. /\ pc["main"] \in MainPcs /\ pc["audio"] \in AudioPcs
        /\ pc["shell"] \in ShellPcs
    BY <2>1, OwnLabels DEF PcsOf, Threads
  <2>3. pc \in [Threads -> Labels]
    BY <2>1, <2>2 DEF Init, Labels, Threads
  <2> QED
    BY <2>2, <2>3 DEF PcOK
<1>2. evt \in Events
  BY DEF Init, NoEvent, Event, Events, EventTypes, Origins
<1>3. event_q \in Seq(Events) /\ Len(event_q) <= EVENT_QUEUE_DEPTH
  BY DepthAssumption DEF Init
<1>4. /\ g_ready \in BOOLEAN /\ g_playing \in BOOLEAN /\ g_sine_active \in BOOLEAN
      /\ g_mounted \in BOOLEAN /\ g_active \in BOOLEAN /\ window_timer \in BOOLEAN
      /\ smp_client \in BOOLEAN
      /\ g_drop_vibration_events \in BOOLEAN /\ cooldown_timer \in BOOLEAN
  BY DEF Init
<1>5. g_play_q \in {0, 1} /\ g_fs_mutex \in {"free", "audio", "shell"}
  BY DEF Init
<1> QED
  BY <1>1, <1>2, <1>3, <1>4, <1>5 DEF TypeOK

\* The event queue never holds more than its slots, and every variable keeps
\* its type (main.c's event_q under every producer).
THEOREM TypeCorrect == Spec => []TypeOK
  BY TypeInit, TypeStep, PTL DEF Spec

-----------------------------------------------------------------------------
(* The codec claim *)

\* The holders one by one, and that they exclude each other.
MainHolds == pc["main"] = "put"
ShellHolds == pc["shell"] = "put"
RequestHolds == g_play_q = 1
AudioHolds == pc["audio"] # "wait"
ToneHolds ==
    g_sine_active \/ pc["shell"] \in {"postStart", "startPended", "postDone",
                                      "donePended", "release", "tone"}
Exclusive ==
    /\ g_playing <=> MainHolds \/ ShellHolds \/ RequestHolds \/ AudioHolds \/ ToneHolds
    /\ MainHolds => ~ShellHolds /\ ~RequestHolds /\ ~AudioHolds /\ ~ToneHolds
    /\ ShellHolds => ~RequestHolds /\ ~AudioHolds /\ ~ToneHolds
    /\ RequestHolds => ~AudioHolds /\ ~ToneHolds
    /\ AudioHolds => ~ToneHolds

\* Where the shell is on either side of the tone.
ToneOrder ==
    /\ pc["shell"] \in {"postStart", "startPended"} => g_sine_active
    /\ pc["shell"] \in {"tone", "postDone", "donePended", "release"} => ~g_sine_active

ClaimInv == Exclusive /\ ToneOrder

USE DEF MainHolds, ShellHolds, RequestHolds, AudioHolds, ToneHolds

LEMMA ClaimInit == Init => ClaimInv
  BY DEF Init, ClaimInv, Exclusive, ToneOrder, Threads, Rest

LEMMA ClaimStep == TypeOK /\ ClaimInv /\ [Next]_vars => ClaimInv'
<1> SUFFICES ASSUME TypeOK, ClaimInv, [Next]_vars PROVE ClaimInv'
  OBVIOUS
<1>0. PcOK /\ evt \in Events
  BY DEF TypeOK
<1> USE DEF gateVars, audioVars, fsVars, otaVars, ClaimInv, Exclusive, ToneOrder
<1>1. ASSUME InitModules \/ Mount \/ ReadCard \/ Suppress \/ StartProducers \/ Check \/ Send
      PROVE  ClaimInv'
  <2>1. /\ pc'["audio"] = pc["audio"] /\ pc'["shell"] = pc["shell"]
        /\ pc["main"] # "put" /\ pc'["main"] # "put"
    BY <1>0, <1>1, GotoLabel, ReturnOK, OwnLabels
    DEF InitModules, Mount, ReadCard, Suppress, StartProducers, Check, Send, Threads,
        At, Rest
  <2>2. UNCHANGED <<g_playing, g_play_q, g_sine_active>>
    BY <1>1 DEF InitModules, Mount, ReadCard, Suppress, StartProducers, Check, Send
  <2> QED
    BY <2>1, <2>2
<1>2. CASE Get
  <2>0. UNCHANGED <<g_playing, g_play_q, g_sine_active>>
    BY <1>2 DEF Get
  <2>1. pc["main"] = "get" /\ Dispatch(Head(event_q)) # "put"
    <3>1. Head(event_q) \in Events
      BY <1>2 DEF Get, TypeOK
    <3> QED
      BY <1>2, <3>1 DEF Get, At, Dispatch, Events, EventTypes
  <2>2. CASE Goto("main", Dispatch(Head(event_q)))
    <3>1. /\ pc'["main"] # "put" /\ pc'["audio"] = pc["audio"]
          /\ pc'["shell"] = pc["shell"]
      BY <1>0, <2>1, <2>2 DEF PcOK, Goto, Threads
    <3> QED
      BY <2>0, <2>1, <3>1
  <2>3. ASSUME NEW t \in {"audio", "shell"}, Pended(t),
               pc' = [pc EXCEPT !["main"] = Dispatch(Head(event_q)),
                                ![t] = PendedNext(t)]
        PROVE  ClaimInv'
    <3>1. /\ pc'["main"] # "put" /\ pc'[t] = PendedNext(t)
          /\ \A u \in {"audio", "shell"} \ {t} : pc'[u] = pc[u]
      BY <1>0, <2>1, <2>3 DEF PcOK, Threads
    <3>2. CASE t = "audio"
      <4>1. pc["audio"] # "wait" /\ pc'["audio"] # "wait"
        BY <2>3, <3>1, <3>2 DEF Pended, PendedNext, AfterStart
      <4> QED
        BY <2>0, <2>1, <3>1, <3>2, <4>1
    <3>3. CASE t = "shell"
      <4>1. \/ pc["shell"] = "startPended" /\ pc'["shell"] = "idle"
            \/ pc["shell"] = "donePended" /\ pc'["shell"] = "release"
        BY <2>3, <3>1, <3>3 DEF Pended, PendedNext, AfterStart, At
      <4> QED
        BY <2>0, <2>1, <3>1, <3>3, <4>1
    <3> QED
      BY <3>2, <3>3
  <2> QED
    BY <1>2, <2>2, <2>3 DEF Get
<1>3. ASSUME NEW t \in {"main", "shell"}, Claim(t)
      PROVE  ClaimInv'
  <2>1. CASE CanClaim
    <3>1. pc'[t] = "put" /\ \A u \in Threads \ {t} : pc'[u] = pc[u]
      BY <1>0, <1>3, <2>1, GotoLabel, OwnLabels DEF Claim, Threads
    <3>2. ~g_playing /\ g_playing' /\ UNCHANGED <<g_play_q, g_sine_active>>
      BY <1>3, <2>1 DEF Claim, CanClaim
    <3> QED
      BY <1>3, <3>1, <3>2 DEF Threads, At, Claim
  <2>2. CASE ~CanClaim
    <3>1. pc'[t] = Rest(t) /\ \A u \in Threads \ {t} : pc'[u] = pc[u]
      BY <1>0, <1>3, <2>2, ReturnOK DEF Claim, Refused, Threads
    <3>2. UNCHANGED <<g_playing, g_play_q, g_sine_active>>
      BY <1>3, <2>2 DEF Claim, Refused
    <3> QED
      BY <1>3, <3>1, <3>2 DEF Threads, At, Claim, Rest
  <2> QED
    BY <2>1, <2>2
<1>4. ASSUME NEW t \in {"main", "shell"}, PutRequest(t)
      PROVE  ClaimInv'
  <2>1. pc[t] = "put" /\ g_play_q = 0 /\ g_play_q' = 1
        /\ UNCHANGED <<g_playing, g_sine_active>>
    BY <1>4 DEF PutRequest, At, TypeOK
  <2>2. pc'[t] \in {"send", Rest(t)} /\ \A u \in Threads \ {t} : pc'[u] = pc[u]
    BY <1>0, <1>4, <2>1, GotoLabel, ReturnOK, OwnLabels DEF PutRequest, Threads
  <2> QED
    <3>1. CASE t = "main"
      BY <2>1, <2>2, <3>1 DEF Threads, Rest
    <3>2. CASE t = "shell"
      <4>1. pc'["shell"] = "idle"
        BY <1>0, <1>4, <2>1, <3>2, ReturnOK DEF PutRequest, Threads, Rest
      <4> QED
        BY <2>1, <2>2, <3>2, <4>1 DEF Threads
    <3> QED
      BY <3>1, <3>2
<1>5. ASSUME NEW t \in {"main", "shell"},
             ArmCheck(t) \/ ArmFinish(t) \/ CancelCheck(t) \/ CancelClear(t) \/ CancelFinish(t)
      PROVE  ClaimInv'
  <2>1. /\ pc[t] \in {"arm", "arming", "cancel", "clearing", "closing"}
        /\ pc'[t] \in {"arming", "clearing", "closing", Rest(t)}
        /\ \A u \in Threads \ {t} : pc'[u] = pc[u]
    BY <1>0, <1>5, GotoLabel, ReturnOK, OwnLabels
    DEF ArmCheck, ArmFinish, CancelCheck, CancelClear, CancelFinish, Threads, At
  <2>2. UNCHANGED <<g_playing, g_play_q, g_sine_active>>
    BY <1>5 DEF ArmCheck, ArmFinish, CancelCheck, CancelClear, CancelFinish
  <2> QED
    BY <2>1, <2>2 DEF Threads, Rest
<1>6. ASSUME NEW t \in {"audio", "shell"}, PostStart(t)
      PROVE  ClaimInv'
  <2>1. /\ pc[t] = "postStart" /\ pc'[t] \in {"startPended", AfterStart(t)}
        /\ \A u \in Threads \ {t} : pc'[u] = pc[u]
    BY <1>0, <1>6, GotoLabel, OwnLabels DEF PostStart, Post, Threads, At, AfterStart
  <2>2. UNCHANGED <<g_playing, g_play_q, g_sine_active>>
    BY <1>6 DEF PostStart, Post
  <2> QED
    BY <2>1, <2>2 DEF Threads, AfterStart
<1>7. ASSUME NEW t \in {"audio", "shell"}, PostDone(t)
      PROVE  ClaimInv'
  <2>1. /\ pc[t] = "postDone" /\ pc'[t] \in {"donePended", "release"}
        /\ \A u \in Threads \ {t} : pc'[u] = pc[u]
    BY <1>0, <1>7, GotoLabel, OwnLabels DEF PostDone, Post, Threads, At
  <2>2. UNCHANGED <<g_playing, g_play_q, g_sine_active>>
    BY <1>7 DEF PostDone, Post
  <2> QED
    BY <2>1, <2>2 DEF Threads
<1>8. ASSUME NEW t \in {"audio", "shell"}, Release(t)
      PROVE  ClaimInv'
  <2>1. /\ pc[t] = "release" /\ pc'[t] = Rest(t)
        /\ \A u \in Threads \ {t} : pc'[u] = pc[u]
    BY <1>0, <1>8, ReturnOK DEF Release, Threads, At
  <2>2. ~g_playing' /\ UNCHANGED <<g_play_q, g_sine_active>>
    BY <1>8 DEF Release
  <2> QED
    BY <2>1, <2>2 DEF Threads, Rest
<1>9. CASE TakeRequest
  <2>1. /\ pc["audio"] = "wait" /\ pc'["audio"] = "postStart"
        /\ pc'["main"] = pc["main"] /\ pc'["shell"] = pc["shell"]
    BY <1>0, <1>9, GotoLabel, OwnLabels DEF TakeRequest, Threads, At
  <2>2. g_play_q = 1 /\ g_play_q' = 0 /\ UNCHANGED <<g_playing, g_sine_active>>
    BY <1>9 DEF TakeRequest
  <2> QED
    BY <2>1, <2>2
<1>10. ASSUME AudioLock \/ OpenSound \/ EndSound
       PROVE  ClaimInv'
  <2>1. /\ pc["audio"] # "wait" /\ pc'["audio"] # "wait"
        /\ pc'["main"] = pc["main"] /\ pc'["shell"] = pc["shell"]
    BY <1>0, <1>10, GotoLabel, OwnLabels
    DEF AudioLock, OpenSound, OpenFailed, EndSound, Threads, At
  <2>2. UNCHANGED <<g_playing, g_play_q, g_sine_active>>
    BY <1>10 DEF AudioLock, OpenSound, EndSound
  <2> QED
    BY <2>1, <2>2
<1>11. ASSUME CmdPlay \/ CmdSave \/ CmdOta \/ ShellLock \/ Rewrite
       PROVE  ClaimInv'
  <2>1. /\ pc["shell"] \in {"idle", "lock", "rewrite"}
        /\ pc'["shell"] \in {"claim", "lock", "arm", "cancel", "rewrite", "idle"}
        /\ pc'["main"] = pc["main"] /\ pc'["audio"] = pc["audio"]
    BY <1>0, <1>11, GotoLabel, OwnLabels
    DEF CmdPlay, CmdSave, CmdOta, ShellLock, Rewrite, Threads, At
  <2>2. UNCHANGED <<g_playing, g_play_q, g_sine_active>>
    BY <1>11 DEF CmdPlay, CmdSave, CmdOta, ShellLock, Rewrite
  <2> QED
    BY <2>1, <2>2
<1>12. CASE CmdSineOn
  <2>1. /\ pc["shell"] = "idle" /\ pc'["shell"] = "tone"
        /\ pc'["main"] = pc["main"] /\ pc'["audio"] = pc["audio"]
    BY <1>0, <1>12, GotoLabel, OwnLabels DEF CmdSineOn, Threads, At
  <2>2. ~g_playing /\ g_playing' /\ ~g_sine_active
        /\ UNCHANGED <<g_play_q, g_sine_active>>
    BY <1>12 DEF CmdSineOn, CanClaim
  <2> QED
    BY <2>1, <2>2
<1>13. CASE ToneUp
  <2>1. pc["shell"] = "tone" /\ ~g_sine_active
    BY <1>13 DEF ToneUp, At
  <2>2. /\ pc'["main"] = pc["main"] /\ pc'["audio"] = pc["audio"]
        /\ \/ pc'["shell"] = "postStart" /\ g_sine_active' /\ UNCHANGED g_playing
           \/ pc'["shell"] = "idle" /\ ~g_playing' /\ UNCHANGED g_sine_active
    BY <1>0, <1>13, GotoLabel, OwnLabels DEF ToneUp, ToneFailed, Threads
  <2>3. UNCHANGED g_play_q
    BY <1>13 DEF ToneUp
  <2>4. g_playing /\ ~MainHolds /\ ~ShellHolds /\ ~RequestHolds /\ ~AudioHolds
    BY <2>1
  <2>5. CASE pc'["shell"] = "postStart" /\ g_sine_active' /\ UNCHANGED g_playing
    BY <2>2, <2>3, <2>4, <2>5
  <2>6. CASE pc'["shell"] = "idle" /\ ~g_playing' /\ UNCHANGED g_sine_active
    BY <2>1, <2>2, <2>3, <2>4, <2>6
  <2> QED
    BY <2>2, <2>5, <2>6
<1>14. CASE CmdSineOff
  <2>1. /\ pc["shell"] = "idle" /\ pc'["shell"] = "postDone"
        /\ pc'["main"] = pc["main"] /\ pc'["audio"] = pc["audio"]
    BY <1>0, <1>14, GotoLabel, OwnLabels DEF CmdSineOff, Threads, At
  <2>2. g_sine_active /\ ~g_sine_active' /\ UNCHANGED <<g_playing, g_play_q>>
    BY <1>14 DEF CmdSineOff
  <2> QED
    BY <2>1, <2>2
<1>15. CASE UNCHANGED vars \/ CooldownExpired \/ WindowExpiry \/ Produce \/ SmpStep
  BY <1>15 DEF vars, CooldownExpired, WindowExpiry, Produce, SmpStep, ClientConnects, ClientLeaves
<1> QED
  BY <1>1, <1>2, <1>3, <1>4, <1>5, <1>6, <1>7, <1>8, <1>9, <1>10, <1>11, <1>12,
     <1>13, <1>14, <1>15
  DEF Next, MainStep, AudioStep, ShellStep, ShellCommand

\* The claim and its holders agree for any queue depth and any mix of
\* stimuli and commands: nothing strands the codec and nothing shares it.
THEOREM ClaimCorrect == Spec => []OneHolder
<1>1. TypeOK /\ ClaimInv => OneHolder
  <2> SUFFICES ASSUME ClaimInv PROVE OneHolder
    OBVIOUS
  <2>1. /\ Holds("main") <=> MainHolds
        /\ Holds("shell") <=> ShellHolds
        /\ Holds("request") <=> RequestHolds
        /\ Holds("audio") <=> AudioHolds
        /\ Holds("sine test") <=> ToneHolds
    BY DEF Holds, At, PostSteps
  <2>2. g_playing <=> Holders # {}
    BY <2>1 DEF Holders, ClaimInv, Exclusive
  <2>3. \A h1, h2 \in Holders : h1 = h2
    BY <2>1 DEF Holders, ClaimInv, Exclusive
  <2> QED
    BY <2>2, <2>3 DEF OneHolder
<1> QED
  BY <1>1, TypeInit, TypeStep, ClaimInit, ClaimStep, PTL DEF Spec

\* audio_play_sound()'s "unreachable" branch is unreachable.
THEOREM NeverRefused == Spec => []PlayRequestNeverRefused
<1>1. TypeOK /\ ClaimInv => PlayRequestNeverRefused
  BY DEF TypeOK, ClaimInv, Exclusive, PlayRequestNeverRefused, At
<1> QED
  BY <1>1, TypeInit, TypeStep, ClaimInit, ClaimStep, PTL DEF Spec

-----------------------------------------------------------------------------
(* The filesystem mutex *)

\* The mutex is held exactly by the thread that is inside FatFs under it.
FsInv ==
    /\ g_fs_mutex = "audio" <=> pc["audio"] \in {"open", "stream"}
    /\ g_fs_mutex = "shell" <=> pc["shell"] = "rewrite"

LEMMA FsInit == Init => FsInv
  BY DEF Init, FsInv, Threads, Rest

\* A step that leaves the mutex alone and moves neither thread into the card
\* nor out of it keeps FsInv.
LEMMA FsFrame ==
    ASSUME FsInv, UNCHANGED g_fs_mutex,
           pc'["audio"] \in {"open", "stream"} <=> pc["audio"] \in {"open", "stream"},
           pc'["shell"] = "rewrite" <=> pc["shell"] = "rewrite"
    PROVE  FsInv'
  BY DEF FsInv

LEMMA FsStep == TypeOK /\ FsInv /\ [Next]_vars => FsInv'
<1> SUFFICES ASSUME TypeOK, FsInv, [Next]_vars PROVE FsInv'
  OBVIOUS
<1>0. PcOK /\ evt \in Events
  BY DEF TypeOK
<1> USE DEF gateVars, audioVars, fsVars, otaVars
<1>1. ASSUME InitModules \/ Mount \/ ReadCard \/ Suppress \/ StartProducers \/ Check \/ Send
      PROVE  FsInv'
  <2>1. pc'["audio"] = pc["audio"] /\ pc'["shell"] = pc["shell"]
    BY <1>0, <1>1, GotoLabel, ReturnOK, OwnLabels
    DEF InitModules, Mount, ReadCard, Suppress, StartProducers, Check, Send, Threads
  <2>2. UNCHANGED g_fs_mutex
    BY <1>1 DEF InitModules, Mount, ReadCard, Suppress, StartProducers, Check, Send
  <2> QED
    BY <2>1, <2>2, FsFrame
<1>2. CASE Get
  <2>1. UNCHANGED g_fs_mutex
    BY <1>2 DEF Get
  <2>2. CASE Goto("main", Dispatch(Head(event_q)))
    <3>1. pc'["audio"] = pc["audio"] /\ pc'["shell"] = pc["shell"]
      BY <1>0, <2>2 DEF PcOK, Goto, Threads
    <3> QED
      BY <2>1, <3>1, FsFrame
  <2>3. ASSUME NEW t \in {"audio", "shell"}, Pended(t),
               pc' = [pc EXCEPT !["main"] = Dispatch(Head(event_q)),
                                ![t] = PendedNext(t)]
        PROVE  FsInv'
    <3>1. pc'[t] = PendedNext(t) /\ \A u \in {"audio", "shell"} \ {t} : pc'[u] = pc[u]
      BY <1>0, <2>3 DEF PcOK, Threads
    <3>2. pc[t] \in {"startPended", "donePended"}
      BY <2>3 DEF Pended
    <3>3. PendedNext(t) \in {"delay", "idle", "release"}
      BY DEF PendedNext, AfterStart
    <3>4. /\ pc'["audio"] \in {"open", "stream"} <=> pc["audio"] \in {"open", "stream"}
          /\ pc'["shell"] = "rewrite" <=> pc["shell"] = "rewrite"
      BY <3>1, <3>2, <3>3
    <3> QED
      BY <2>1, <3>4, FsFrame
  <2> QED
    BY <1>2, <2>2, <2>3 DEF Get
<1>3. ASSUME NEW t \in {"main", "shell"},
             \/ Claim(t) \/ PutRequest(t)
             \/ ArmCheck(t) \/ ArmFinish(t)
             \/ CancelCheck(t) \/ CancelClear(t) \/ CancelFinish(t)
      PROVE  FsInv'
  <2>1. /\ pc[t] \in {"claim", "put", "arm", "arming", "cancel", "clearing", "closing"}
        /\ pc'[t] \in {"put", "send", "arming", "clearing", "closing", Rest(t)}
        /\ \A u \in Threads \ {t} : pc'[u] = pc[u]
    BY <1>0, <1>3, GotoLabel, ReturnOK, OwnLabels
    DEF Claim, Refused, PutRequest, ArmCheck, ArmFinish, CancelCheck, CancelClear,
        CancelFinish, Threads, At
  <2>2. UNCHANGED g_fs_mutex
    BY <1>3 DEF Claim, PutRequest, ArmCheck, ArmFinish, CancelCheck, CancelClear,
                CancelFinish
  <2> QED
    BY <2>1, <2>2, FsFrame DEF Threads, Rest
<1>4. ASSUME NEW t \in {"audio", "shell"}, PostStart(t) \/ PostDone(t) \/ Release(t)
      PROVE  FsInv'
  <2>1. /\ pc[t] \in {"postStart", "postDone", "release"}
        /\ pc'[t] \in {"startPended", "delay", "idle", "donePended", "release", Rest(t)}
        /\ \A u \in Threads \ {t} : pc'[u] = pc[u]
    BY <1>0, <1>4, GotoLabel, ReturnOK, OwnLabels
    DEF PostStart, PostDone, Post, Release, AfterStart, Threads, At
  <2>2. UNCHANGED g_fs_mutex
    BY <1>4 DEF PostStart, PostDone, Post, Release
  <2> QED
    BY <2>1, <2>2, FsFrame DEF Threads, Rest
<1>5. CASE TakeRequest
  <2>1. /\ pc["audio"] = "wait" /\ pc'["audio"] = "postStart"
        /\ pc'["shell"] = pc["shell"]
    BY <1>0, <1>5, GotoLabel, OwnLabels DEF TakeRequest, Threads, At
  <2> QED
    BY <1>5, <2>1, FsFrame DEF TakeRequest
<1>6. CASE AudioLock
  <2>1. pc'["audio"] = "open" /\ pc'["shell"] = pc["shell"]
    BY <1>0, <1>6, GotoLabel, OwnLabels DEF AudioLock, Threads
  <2> QED
    BY <1>6, <2>1 DEF AudioLock, FsInv
<1>7. CASE OpenSound \/ EndSound
  <2>1. /\ pc["audio"] \in {"open", "stream"} /\ pc'["shell"] = pc["shell"]
        /\ \/ pc'["audio"] = "stream" /\ UNCHANGED g_fs_mutex
           \/ pc'["audio"] = "postDone" /\ g_fs_mutex' = "free"
    BY <1>0, <1>7, GotoLabel, OwnLabels DEF OpenSound, OpenFailed, EndSound, Threads, At
  <2> QED
    BY <2>1 DEF FsInv
<1>8. ASSUME CmdPlay \/ CmdSineOn \/ CmdSineOff \/ CmdSave \/ CmdOta \/ ToneUp
      PROVE  FsInv'
  <2>1. /\ pc["shell"] # "rewrite" /\ pc'["shell"] # "rewrite"
        /\ pc'["audio"] = pc["audio"]
    BY <1>0, <1>8, GotoLabel, OwnLabels
    DEF CmdPlay, CmdSineOn, CmdSineOff, CmdSave, CmdOta, ToneUp, ToneFailed, Threads, At
  <2>2. UNCHANGED g_fs_mutex
    BY <1>8 DEF CmdPlay, CmdSineOn, CmdSineOff, CmdSave, CmdOta, ToneUp
  <2> QED
    BY <2>1, <2>2, FsFrame
<1>9. CASE ShellLock
  <2>1. pc'["shell"] = "rewrite" /\ pc'["audio"] = pc["audio"]
    BY <1>0, <1>9, GotoLabel, OwnLabels DEF ShellLock, Threads
  <2> QED
    BY <1>9, <2>1 DEF ShellLock, FsInv
<1>10. CASE Rewrite
  <2>1. /\ pc["shell"] = "rewrite" /\ pc'["shell"] = "idle"
        /\ pc'["audio"] = pc["audio"]
    BY <1>0, <1>10, GotoLabel, OwnLabels DEF Rewrite, Threads, At
  <2> QED
    BY <1>10, <2>1 DEF Rewrite, FsInv
<1>11. CASE UNCHANGED vars \/ CooldownExpired \/ WindowExpiry \/ Produce \/ SmpStep
  BY <1>11, FsFrame
  DEF vars, CooldownExpired, WindowExpiry, Produce, SmpStep, ClientConnects, ClientLeaves
<1> QED
  BY <1>1, <1>2, <1>3, <1>4, <1>5, <1>6, <1>7, <1>8, <1>9, <1>10, <1>11
  DEF Next, MainStep, AudioStep, ShellStep, ShellCommand

\* The mutex belongs to whoever is inside FatFs under it and no path, failures
\* included, keeps it, so an overlap in FatFs always has the boot or a connected
\* client in it (sdcard_lock() and its callers).
THEOREM CardSerialized == Spec => []FsSerialized
<1>1. TypeOK /\ FsInv => FsSerialized
  <2> SUFFICES ASSUME TypeOK, FsInv PROVE FsSerialized
    OBVIOUS
  <2>1. LockedUsers = IF g_fs_mutex = "free" THEN {} ELSE {g_fs_mutex}
    BY DEF LockedUsers, FsUsers, FsInv, TypeOK, At
  <2>2. ASSUME NEW t1 \in FsUsers, NEW t2 \in FsUsers, t1 # t2
        PROVE  {t1, t2} \cap {"main", "smp"} # {}
    <3>1. CASE t1 \in {"main", "smp"}
      BY <3>1
    <3>2. CASE t2 \in {"main", "smp"}
      BY <3>2
    <3>3. CASE t1 \notin {"main", "smp"} /\ t2 \notin {"main", "smp"}
      <4>1. t1 \in LockedUsers /\ t2 \in LockedUsers
        BY <3>3 DEF LockedUsers
      <4> QED
        BY <2>1, <2>2, <4>1
    <3> QED
      BY <3>1, <3>2, <3>3
  <2> QED
    BY <2>1, <2>2 DEF FsSerialized
<1> QED
  BY <1>1, TypeInit, TypeStep, FsInit, FsStep, PTL DEF Spec

-----------------------------------------------------------------------------
(* Queues whose session events alternate *)

AudioTypes == {"AUDIO_START", "AUDIO_DONE"}

\* The slot i of q lies inside a session, for a consumer inside one or not.
InsideAt(q, inside, i) ==
    /\ (\A k \in AudioAt(q) : k > i) => inside
    /\ \A k \in AudioAt(q) :
         k < i /\ (\A m \in AudioAt(q) : m <= k \/ m > i) => q[k].type = "AUDIO_START"

\* A vibration marked as reported during a session lies inside one.
MarksInside(q, inside) ==
    \A i \in DOMAIN q : q[i].origin = "session" =>
        q[i].type = "VIBRATION" /\ InsideAt(q, inside, i)

LEMMA AudioAtAppend ==
    ASSUME NEW q \in Seq(Events), NEW e \in Events
    PROVE  /\ e.type \in AudioTypes => AudioAt(Append(q, e)) = AudioAt(q) \cup {Len(q) + 1}
           /\ e.type \notin AudioTypes => AudioAt(Append(q, e)) = AudioAt(q)
           /\ \A i \in AudioAt(q) : i \in 1..Len(q) /\ Append(q, e)[i] = q[i]
           /\ Append(q, e)[Len(q) + 1] = e
  BY DEF AudioAt, AudioTypes

LEMMA AudioAtTail ==
    ASSUME NEW q \in Seq(Events), q # <<>>
    PROVE  /\ \A i \in AudioAt(Tail(q)) : i \in Nat /\ i >= 1 /\ i + 1 \in AudioAt(q) /\ Tail(q)[i] = q[i + 1]
           /\ \A i \in AudioAt(q) : i \in Nat /\ (i = 1 \/ (i > 1 /\ i - 1 \in AudioAt(Tail(q))))
           /\ 1 \in AudioAt(q) <=> Head(q).type \in AudioTypes
           /\ q[1] = Head(q)
  BY DEF AudioAt, AudioTypes

\* The three clauses of Alternates, for one slot or two.
LEMMA FirstLastNext ==
    ASSUME NEW q, NEW inside, NEW announced, Alternates(q, inside, announced),
           NEW i \in AudioAt(q)
    PROVE  /\ (\A k \in AudioAt(q) : k >= i) => (q[i].type = "AUDIO_DONE" <=> inside)
           /\ (\A k \in AudioAt(q) : k <= i) => (q[i].type = "AUDIO_START" <=> announced)
           /\ \A j \in AudioAt(q) :
                i < j /\ (\A k \in AudioAt(q) : k <= i \/ k >= j) => q[i].type # q[j].type
  BY DEF Alternates

LEMMA AppendAudio ==
    ASSUME NEW q \in Seq(Events), NEW e \in Events,
           NEW inside \in BOOLEAN, NEW announced \in BOOLEAN,
           Alternates(q, inside, announced),
           e.type = IF announced THEN "AUDIO_DONE" ELSE "AUDIO_START"
    PROVE  Alternates(Append(q, e), inside, ~announced)
  BY AudioAtAppend DEF Alternates, AudioTypes

LEMMA AppendOther ==
    ASSUME NEW q \in Seq(Events), NEW e \in Events,
           NEW inside \in BOOLEAN, NEW announced \in BOOLEAN,
           Alternates(q, inside, announced), e.type \notin AudioTypes
    PROVE  Alternates(Append(q, e), inside, announced)
  BY AudioAtAppend DEF Alternates, AudioTypes

LEMMA TailAudio ==
    ASSUME NEW q \in Seq(Events), q # <<>>,
           NEW inside \in BOOLEAN, NEW announced \in BOOLEAN,
           Alternates(q, inside, announced), Head(q).type \in AudioTypes
    PROVE  /\ Alternates(Tail(q), ~inside, announced)
           /\ Head(q).type = "AUDIO_DONE" <=> inside
<1> DEFINE t == Tail(q)
<1>1. 1 \in AudioAt(q) /\ q[1] = Head(q) /\ \A k \in AudioAt(q) : k \in Nat /\ k >= 1
  BY AudioAtTail
<1>0. \A j \in AudioAt(t) : j \in Nat /\ j >= 1 /\ j + 1 \in AudioAt(q) /\ t[j] = q[j + 1]
  BY AudioAtTail
<1>2. Head(q).type = "AUDIO_DONE" <=> inside
  BY <1>1 DEF Alternates
<1>3. AudioAt(t) = {} => (~inside <=> announced)
  <2> SUFFICES ASSUME AudioAt(t) = {} PROVE ~inside <=> announced
    OBVIOUS
  <2>1. \A k \in AudioAt(q) : k <= 1
    BY AudioAtTail
  <2>2. q[1].type = "AUDIO_START" <=> announced
    BY <1>1, <2>1 DEF Alternates
  <2> QED
    BY <1>1, <1>2, <2>2 DEF AudioTypes
<1>4. ASSUME NEW j \in AudioAt(t), \A k \in AudioAt(t) : k >= j
      PROVE  t[j].type = "AUDIO_DONE" <=> ~inside
  <2>1. j + 1 \in AudioAt(q) /\ t[j] = q[j + 1] /\ j \in Nat /\ j >= 1
    BY <1>0
  <2>2. \A k \in AudioAt(q) : k <= 1 \/ k >= j + 1
    BY <1>4, <2>1, AudioAtTail
  <2>3. q[1].type # q[j + 1].type
    <3>1. 1 < j + 1
      BY <2>1
    <3> QED
      BY <1>1, <2>1, <2>2, <3>1 DEF Alternates
  <2>4. q[j + 1].type \in AudioTypes
    BY <2>1 DEF AudioAt, AudioTypes
  <2> QED
    BY <1>1, <1>2, <2>1, <2>3, <2>4 DEF AudioTypes
<1>5. ASSUME NEW j \in AudioAt(t), \A k \in AudioAt(t) : k <= j
      PROVE  t[j].type = "AUDIO_START" <=> announced
  <2>1. j + 1 \in AudioAt(q) /\ t[j] = q[j + 1] /\ j \in Nat
    BY AudioAtTail
  <2>2. \A k \in AudioAt(q) : k <= j + 1
    BY <1>5, <2>1, AudioAtTail
  <2>3. q[j + 1].type = "AUDIO_START" <=> announced
    BY <2>1, <2>2, FirstLastNext
  <2> QED
    BY <2>1, <2>3
<1>6. ASSUME NEW i \in AudioAt(t), NEW j \in AudioAt(t), i < j,
             \A k \in AudioAt(t) : k <= i \/ k >= j
      PROVE  t[i].type # t[j].type
  <2>1. /\ i + 1 \in AudioAt(q) /\ t[i] = q[i + 1] /\ i \in Nat
        /\ j + 1 \in AudioAt(q) /\ t[j] = q[j + 1] /\ j \in Nat
    BY AudioAtTail
  <2>2. \A k \in AudioAt(q) : k <= i + 1 \/ k >= j + 1
    BY <1>6, <2>1, AudioAtTail
  <2>3. i + 1 < j + 1
    BY <1>6, <2>1
  <2>4. q[i + 1].type # q[j + 1].type
    BY <2>1, <2>2, <2>3, FirstLastNext
  <2> QED
    BY <2>1, <2>4
<1> QED
  BY <1>2, <1>3, <1>4, <1>5, <1>6 DEF Alternates

LEMMA TailOther ==
    ASSUME NEW q \in Seq(Events), q # <<>>,
           NEW inside \in BOOLEAN, NEW announced \in BOOLEAN,
           Alternates(q, inside, announced), Head(q).type \notin AudioTypes
    PROVE  Alternates(Tail(q), inside, announced)
<1> DEFINE t == Tail(q)
<1>1. 1 \notin AudioAt(q) /\ \A k \in AudioAt(q) : k \in Nat /\ k - 1 \in AudioAt(t)
  BY AudioAtTail
<1>2. \A j \in AudioAt(t) : j \in Nat /\ j + 1 \in AudioAt(q) /\ t[j] = q[j + 1]
  BY AudioAtTail
<1>3. AudioAt(t) = {} => AudioAt(q) = {}
  BY <1>1
<1>4. ASSUME NEW j \in AudioAt(t)
      PROVE  /\ (\A k \in AudioAt(t) : k >= j) => (t[j].type = "AUDIO_DONE" <=> inside)
             /\ (\A k \in AudioAt(t) : k <= j) => (t[j].type = "AUDIO_START" <=> announced)
  <2>1. (\A k \in AudioAt(t) : k >= j) => \A k \in AudioAt(q) : k >= j + 1
    BY <1>1, <1>2
  <2>2. (\A k \in AudioAt(t) : k <= j) => \A k \in AudioAt(q) : k <= j + 1
    BY <1>1, <1>2
  <2> QED
    BY <1>2, <2>1, <2>2 DEF Alternates
<1>5. ASSUME NEW i \in AudioAt(t), NEW j \in AudioAt(t), i < j,
             \A k \in AudioAt(t) : k <= i \/ k >= j
      PROVE  t[i].type # t[j].type
  <2>1. i + 1 < j + 1 /\ i + 1 \in AudioAt(q) /\ j + 1 \in AudioAt(q)
    BY <1>2, <1>5
  <2>2. ASSUME NEW k \in AudioAt(q)
        PROVE  k <= i + 1 \/ k >= j + 1
    <3>1. k - 1 <= i \/ k - 1 >= j
      BY <1>1, <1>5
    <3> QED
      BY <1>1, <1>2, <3>1
  <2>3. q[i + 1].type # q[j + 1].type
    BY <2>1, <2>2, FirstLastNext
  <2> QED
    BY <1>2, <2>3
<1> QED
  BY <1>3, <1>4, <1>5 DEF Alternates

-----------------------------------------------------------------------------
(* Queues whose marked vibrations lie inside a session *)

LEMMA AppendMarked ==
    ASSUME NEW q \in Seq(Events), NEW e \in Events,
           NEW inside \in BOOLEAN, NEW announced \in BOOLEAN,
           Alternates(q, inside, announced), MarksInside(q, inside),
           e.origin = "session" => announced /\ e.type = "VIBRATION"
    PROVE  MarksInside(Append(q, e), inside)
<1> DEFINE a == Append(q, e)
           n == Len(q) + 1
<1>1. \A i \in AudioAt(q) : i \in 1..Len(q) /\ a[i] = q[i]
  BY AudioAtAppend
<1>2. AudioAt(a) \subseteq AudioAt(q) \cup {n} /\ AudioAt(q) \subseteq AudioAt(a)
  BY AudioAtAppend
<1>3. ASSUME NEW i \in 1..Len(q), a[i].origin = "session"
      PROVE  a[i].type = "VIBRATION" /\ InsideAt(a, inside, i)
  <2>1. a[i] = q[i] /\ q[i].type = "VIBRATION" /\ InsideAt(q, inside, i)
    BY <1>3 DEF MarksInside
  <2>2. (\A k \in AudioAt(a) : k > i) => inside
    BY <1>2, <2>1 DEF InsideAt
  <2>3. ASSUME NEW k \in AudioAt(a), k < i, \A m \in AudioAt(a) : m <= k \/ m > i
        PROVE  a[k].type = "AUDIO_START"
    <3>1. k \in AudioAt(q)
      BY <1>2, <2>3
    <3> QED
      BY <1>1, <1>2, <2>1, <2>3, <3>1 DEF InsideAt
  <2> QED
    BY <2>1, <2>2, <2>3 DEF InsideAt
<1>4. ASSUME e.origin = "session"
      PROVE  InsideAt(a, inside, n)
  <2>1. announced /\ AudioAt(a) = AudioAt(q)
    BY <1>4, AudioAtAppend DEF AudioTypes
  <2>2. (\A k \in AudioAt(a) : k > n) => inside
    BY <1>1, <2>1 DEF Alternates
  <2>3. ASSUME NEW k \in AudioAt(a), k < n, \A m \in AudioAt(a) : m <= k \/ m > n
        PROVE  a[k].type = "AUDIO_START"
    <3>1. \A m \in AudioAt(q) : m <= k
      BY <1>1, <2>1, <2>3
    <3> QED
      BY <1>1, <2>1, <3>1 DEF Alternates
  <2> QED
    BY <2>2, <2>3 DEF InsideAt
<1>5. DOMAIN a = 1..Len(q) \cup {n} /\ a[n] = e
  OBVIOUS
<1> QED
  BY <1>3, <1>4, <1>5 DEF MarksInside

LEMMA TailMarked ==
    ASSUME NEW q \in Seq(Events), q # <<>>,
           NEW inside \in BOOLEAN, NEW next \in BOOLEAN,
           MarksInside(q, inside),
           next <=> IF Head(q).type \in AudioTypes THEN ~inside ELSE inside,
           Head(q).type = "AUDIO_DONE" => inside,
           Head(q).type = "AUDIO_START" => ~inside
    PROVE  /\ MarksInside(Tail(q), next)
           /\ Head(q).origin = "session" => inside /\ Head(q).type = "VIBRATION"
<1> DEFINE t == Tail(q)
<1>1. \A j \in AudioAt(t) : j \in Nat /\ j + 1 \in AudioAt(q) /\ t[j] = q[j + 1]
  BY AudioAtTail
<1>2. \A k \in AudioAt(q) : k \in Nat /\ (k = 1 \/ (k > 1 /\ k - 1 \in AudioAt(t)))
  BY AudioAtTail
<1>3. (1 \in AudioAt(q) <=> Head(q).type \in AudioTypes) /\ q[1] = Head(q)
  BY AudioAtTail
<1>4. ASSUME NEW j \in DOMAIN t, t[j].origin = "session"
      PROVE  t[j].type = "VIBRATION" /\ InsideAt(t, next, j)
  <2>1. j \in Nat /\ j >= 1 /\ j + 1 \in DOMAIN q /\ t[j] = q[j + 1]
    OBVIOUS
  <2>2. q[j + 1].type = "VIBRATION" /\ InsideAt(q, inside, j + 1)
    BY <1>4, <2>1 DEF MarksInside
  <2>3. ASSUME \A k \in AudioAt(t) : k > j
        PROVE  next
    <3>1. \A k \in AudioAt(q) : k <= 1 \/ k > j + 1
      BY <1>1, <1>2, <2>1, <2>3
    <3>2. CASE 1 \in AudioAt(q)
      BY <1>3, <2>1, <2>2, <3>1, <3>2 DEF InsideAt, AudioTypes
    <3>3. CASE 1 \notin AudioAt(q)
      BY <1>2, <1>3, <2>1, <2>2, <3>1, <3>3 DEF InsideAt
    <3> QED
      BY <3>2, <3>3
  <2>4. ASSUME NEW k \in AudioAt(t), k < j, \A m \in AudioAt(t) : m <= k \/ m > j
        PROVE  t[k].type = "AUDIO_START"
    <3>1. k + 1 < j + 1
      BY <1>1, <2>1, <2>4
    <3>2. ASSUME NEW m \in AudioAt(q)
          PROVE  m <= k + 1 \/ m > j + 1
      <4>1. CASE m = 1
        BY <1>1, <4>1
      <4>2. CASE m > 1 /\ m - 1 \in AudioAt(t)
        <5>1. m - 1 <= k \/ m - 1 > j
          BY <2>4, <4>2
        <5> QED
          BY <1>1, <1>2, <2>1, <5>1
      <4> QED
        BY <1>2, <4>1, <4>2
    <3> QED
      BY <1>1, <2>2, <2>4, <3>1, <3>2 DEF InsideAt
  <2> QED
    BY <2>1, <2>2, <2>3, <2>4 DEF InsideAt
<1>5. ASSUME Head(q).origin = "session"
      PROVE  inside /\ Head(q).type = "VIBRATION"
  <2>1. q[1].type = "VIBRATION" /\ InsideAt(q, inside, 1)
    BY <1>3, <1>5 DEF MarksInside
  <2>2. \A k \in AudioAt(q) : k > 1
    BY <1>2, <1>3, <2>1 DEF AudioTypes
  <2> QED
    BY <1>3, <2>1, <2>2 DEF InsideAt
<1> QED
  BY <1>4, <1>5 DEF MarksInside

-----------------------------------------------------------------------------
(* The session invariant *)

USE DEF MainHolds, ShellHolds, RequestHolds, AudioHolds, ToneHolds

\* The suppression flag and the cooldown timer, as main.c moves them.
GateOrder ==
    /\ pc["main"] \in BootSteps => ~g_drop_vibration_events /\ ~cooldown_timer
    /\ pc["main"] = "suppress" => ~cooldown_timer
    /\ cooldown_timer => g_drop_vibration_events

SessionInv ==
    /\ GateOrder
    /\ AudioEventsAlternate
    /\ MarksInside(event_q, MainInSession)
    /\ SessionVibrationDropped

LEMMA SessionInit == Init => SessionInv
<1> SUFFICES ASSUME Init PROVE SessionInv
  OBVIOUS
<1>1. /\ pc["main"] = "init" /\ pc["audio"] = "wait" /\ pc["shell"] = "idle"
      /\ ~g_drop_vibration_events /\ ~cooldown_timer /\ ~g_sine_active
      /\ event_q = <<>>
  BY DEF Init, Threads, Rest
<1>2. GateOrder /\ SessionVibrationDropped
  BY <1>1 DEF GateOrder, SessionVibrationDropped
<1>3. ~MainInSession /\ ~Announced
  BY <1>1 DEF MainInSession, Announced, AudioSession, ToneSession, At
<1>4. AudioAt(event_q) = {} /\ DOMAIN event_q = {}
  BY <1>1 DEF AudioAt
<1> QED
  BY <1>2, <1>3, <1>4 DEF SessionInv, AudioEventsAlternate, Alternates, MarksInside

\* A step that keeps the queue and both ends' view of the session.
LEMMA SessionFrame ==
    ASSUME AudioEventsAlternate, MarksInside(event_q, MainInSession),
           event_q' = event_q,
           MainInSession' <=> MainInSession, Announced' <=> Announced
    PROVE  AudioEventsAlternate' /\ MarksInside(event_q, MainInSession)'
<1>1. MainInSession' = MainInSession /\ Announced' = Announced
  BY DEF MainInSession, Announced
<1> QED
  BY <1>1 DEF AudioEventsAlternate

\* The steps that touch neither the queue nor the gate.
LEMMA QuietStep ==
    ASSUME TypeOK, ClaimInv, SessionInv,
           UNCHANGED <<event_q, g_drop_vibration_events, cooldown_timer>>,
           pc'["main"] = "suppress" <=> pc["main"] = "suppress",
           pc'["main"] \in BootSteps => pc["main"] \in BootSteps,
           pc'["main"] \in {"check", "claim", "put", "send"} =>
              pc["main"] \in {"check", "claim", "put", "send"} /\ evt' = evt,
           Announced' <=> Announced
    PROVE  SessionInv'
<1>1. MainInSession' <=> MainInSession
  BY DEF MainInSession, At
<1>2. GateOrder'
  BY DEF SessionInv, GateOrder
<1>3. SessionVibrationDropped'
  BY DEF SessionInv, SessionVibrationDropped
<1> QED
  BY <1>1, <1>2, <1>3, SessionFrame DEF SessionInv

\* Posting START and DONE, and any other event, at the tail of the queue.
LEMMA PostStep ==
    ASSUME TypeOK, ClaimInv, SessionInv, NEW t \in {"audio", "shell"},
           PostStart(t) \/ PostDone(t)
    PROVE  SessionInv'
<1>0. PcOK /\ event_q \in Seq(Events)
  BY DEF TypeOK
<1>1. /\ pc[t] \in {"postStart", "postDone"}
      /\ pc'[t] \in PcsOf(t)
      /\ \A u \in Threads \ {t} : pc'[u] = pc[u]
      /\ UNCHANGED <<g_drop_vibration_events, cooldown_timer, g_sine_active, evt>>
  BY <1>0, GotoLabel, OwnLabels
  DEF PostStart, PostDone, Post, Threads, At, AfterStart, gateVars, audioVars
<1>2. pc'["main"] = pc["main"]
  BY <1>1 DEF Threads
<1>3. CASE QueueFull
  <2>1. event_q' = event_q
    BY <1>3 DEF PostStart, PostDone, Post
  <2>2. \/ pc[t] = "postStart" /\ pc'[t] = "startPended"
        \/ pc[t] = "postDone" /\ pc'[t] = "donePended"
    BY <1>0, <1>3, GotoLabel, OwnLabels DEF PostStart, PostDone, Post, Threads, At
  <2>3. Announced' <=> Announced
    BY <1>1, <2>2 DEF Announced, AudioSession, ToneSession, Threads
  <2> QED
    BY <1>1, <1>2, <2>1, <2>3, QuietStep
<1>4. CASE ~QueueFull
  <2>0. \/ /\ pc[t] = "postStart" /\ pc'[t] = AfterStart(t)
           /\ event_q' = Append(event_q, Event("AUDIO_START"))
        \/ /\ pc[t] = "postDone" /\ pc'[t] = "release"
           /\ event_q' = Append(event_q, Event("AUDIO_DONE"))
    BY <1>0, <1>4, GotoLabel, OwnLabels
    DEF PostStart, PostDone, Post, Threads, At, AfterStart
  <2>1. PICK e \in Events :
          /\ event_q' = Append(event_q, e)
          /\ e.origin = "none"
          /\ e.type = IF Announced THEN "AUDIO_DONE" ELSE "AUDIO_START"
          /\ Announced' <=> ~Announced
    <3>1. CASE pc[t] = "postStart"
      <4>1. ~Announced /\ Announced'
        <5>1. CASE t = "audio"
          <6>1. pc["audio"] = "postStart" /\ pc'["audio"] = "delay" /\ ~ToneHolds
            BY <2>0, <3>1, <5>1 DEF AfterStart, ClaimInv, Exclusive
          <6> QED
            BY <6>1 DEF Announced, AudioSession, ToneSession
        <5>2. CASE t = "shell"
          <6>1. /\ pc["shell"] = "postStart" /\ pc'["shell"] = "idle"
                /\ g_sine_active /\ g_sine_active' /\ pc["audio"] = "wait"
            BY <1>1, <2>0, <3>1, <5>2 DEF AfterStart, ClaimInv, Exclusive, ToneOrder
          <6> QED
            BY <6>1 DEF Announced, AudioSession, ToneSession
        <5> QED
          BY <5>1, <5>2
      <4>2. Event("AUDIO_START") \in Events
        BY EventOK DEF EventTypes
      <4> QED
        BY <2>0, <3>1, <4>1, <4>2 DEF Event
    <3>2. CASE pc[t] = "postDone"
      <4>1. Announced /\ ~Announced'
        <5>1. CASE t = "audio"
          <6>1. /\ pc["audio"] = "postDone" /\ pc'["audio"] = "release" /\ ~ToneHolds
                /\ pc'["shell"] = pc["shell"] /\ ~g_sine_active'
            BY <1>1, <2>0, <3>2, <5>1 DEF ClaimInv, Exclusive, Threads
          <6> QED
            BY <6>1 DEF Announced, AudioSession, ToneSession
        <5>2. CASE t = "shell"
          <6>1. /\ pc["shell"] = "postDone" /\ pc'["shell"] = "release"
                /\ ~g_sine_active' /\ pc'["audio"] = "wait"
            BY <1>1, <2>0, <3>2, <5>2 DEF ClaimInv, Exclusive, ToneOrder, Threads
          <6> QED
            BY <6>1 DEF Announced, AudioSession, ToneSession
        <5> QED
          BY <5>1, <5>2
      <4>2. Event("AUDIO_DONE") \in Events
        BY EventOK DEF EventTypes
      <4> QED
        BY <2>0, <3>2, <4>1, <4>2 DEF Event
    <3> QED
      BY <1>1, <3>1, <3>2
  <2>2. MainInSession' = MainInSession /\ MainInSession \in BOOLEAN
        /\ Announced' = ~Announced /\ Announced \in BOOLEAN
    BY <1>1, <1>2, <2>1 DEF MainInSession, At, Announced
  <2>3. AudioEventsAlternate'
    BY <1>0, <2>1, <2>2, AppendAudio DEF AudioEventsAlternate, SessionInv
  <2>4. MarksInside(event_q, MainInSession)'
    BY <1>0, <2>1, <2>2, AppendMarked DEF AudioEventsAlternate, SessionInv
  <2>5. GateOrder' /\ SessionVibrationDropped'
    BY <1>1, <1>2 DEF SessionInv, GateOrder, SessionVibrationDropped
  <2> QED
    BY <2>3, <2>4, <2>5 DEF SessionInv
<1> QED
  BY <1>3, <1>4

\* Events of the timers and the producers.
LEMMA PutStep ==
    ASSUME TypeOK, SessionInv, NEW e \in Events, PutNoWait(e),
           e.type \notin AudioTypes,
           e.origin = "session" => Announced /\ e.type = "VIBRATION",
           UNCHANGED <<pc, g_drop_vibration_events, cooldown_timer, g_sine_active, evt>>
    PROVE  SessionInv'
<1>1. MainInSession' = MainInSession /\ Announced' = Announced
      /\ MainInSession \in BOOLEAN /\ Announced \in BOOLEAN
  BY DEF MainInSession, At, Announced, AudioSession, ToneSession
<1>2. GateOrder' /\ SessionVibrationDropped'
  BY DEF SessionInv, GateOrder, SessionVibrationDropped
<1>3. CASE event_q' = event_q
  BY <1>1, <1>2, <1>3, SessionFrame DEF SessionInv
<1>4. CASE event_q' = Append(event_q, e)
  <2>1. AudioEventsAlternate'
    BY <1>1, <1>4, AppendOther DEF AudioEventsAlternate, SessionInv, TypeOK
  <2>2. MarksInside(event_q, MainInSession)'
    BY <1>1, <1>4, AppendMarked DEF AudioEventsAlternate, SessionInv, TypeOK
  <2> QED
    BY <1>2, <2>1, <2>2 DEF SessionInv
<1> QED
  BY <1>3, <1>4 DEF PutNoWait

\* The main loop takes the oldest event: what that does to both ends.
LEMMA GetStep == ASSUME TypeOK, ClaimInv, SessionInv, Get PROVE SessionInv'
<1> DEFINE e == Head(event_q)
           rest == Tail(event_q)
<1>1. /\ event_q \in Seq(Events) /\ event_q # <<>> /\ e \in Events /\ rest \in Seq(Events)
      /\ pc["main"] = "get" /\ PcOK
  BY DEF TypeOK, Get, At
<1>2. MainInSession \in BOOLEAN /\ Announced \in BOOLEAN
  BY DEF MainInSession, Announced
<1>3. MainInSession <=> g_drop_vibration_events /\ ~cooldown_timer
  BY <1>1 DEF MainInSession, At
<1>4. e.type = "AUDIO_DONE" => MainInSession
  BY <1>1, <1>2, TailAudio DEF SessionInv, AudioEventsAlternate, AudioTypes
<1>5. e.type = "AUDIO_START" => ~MainInSession
  BY <1>1, <1>2, TailAudio DEF SessionInv, AudioEventsAlternate, AudioTypes
<1> DEFINE inside == IF e.type \in AudioTypes THEN ~MainInSession ELSE MainInSession
<1>6. inside \in BOOLEAN /\ Alternates(rest, inside, Announced)
  <2>1. Alternates(event_q, MainInSession, Announced)
    BY DEF SessionInv, AudioEventsAlternate
  <2>2. CASE e.type \in AudioTypes
    <3>1. Alternates(rest, ~MainInSession, Announced)
      BY <1>1, <1>2, <2>1, <2>2, TailAudio
    <3> QED
      BY <1>2, <2>2, <3>1
  <2>3. CASE e.type \notin AudioTypes
    <3>1. Alternates(rest, MainInSession, Announced)
      BY <1>1, <1>2, <2>1, <2>3, TailOther
    <3> QED
      BY <1>2, <2>3, <3>1
  <2> QED
    BY <2>2, <2>3
<1>7. /\ MarksInside(rest, inside)
      /\ e.origin = "session" => MainInSession /\ e.type = "VIBRATION"
  BY <1>1, <1>2, <1>4, <1>5, <1>6, TailMarked DEF SessionInv
<1>8. pc'["main"] = Dispatch(e)
  BY <1>1, DispatchOK DEF Get, Goto, PcOK, Threads
<1>9. /\ UNCHANGED g_drop_vibration_events /\ UNCHANGED g_sine_active
      /\ cooldown_timer' = CooldownAfter(e)
      /\ evt' = IF Dispatch(e) = "get" THEN NoEvent ELSE e
  BY DEF Get, audioVars
<1>10. MainInSession' = inside
  <2>1. CASE e.type = "AUDIO_START"
    BY <1>5, <1>8, <2>1 DEF MainInSession, At, Dispatch, AudioTypes
  <2>2. CASE e.type = "AUDIO_DONE"
    BY <1>3, <1>4, <1>8, <1>9, <2>2
    DEF MainInSession, At, Dispatch, AudioTypes, CooldownAfter
  <2>3. CASE e.type \notin AudioTypes
    BY <1>1, <1>3, <1>8, <1>9, <2>3
    DEF MainInSession, At, Dispatch, AudioTypes, CooldownAfter, Events, EventTypes
  <2> QED
    BY <2>1, <2>2, <2>3 DEF AudioTypes
<1>11. GateOrder'
  <2>1. Dispatch(e) \notin BootSteps
    BY <1>1 DEF Dispatch, BootSteps, Events, EventTypes
  <2>2. Dispatch(e) = "suppress" => e.type = "AUDIO_START"
    BY <1>1 DEF Dispatch, Events, EventTypes
  <2>3. CASE e.type = "AUDIO_START"
    BY <1>8, <1>9, <2>1, <2>3 DEF GateOrder, CooldownAfter
  <2>4. CASE e.type = "AUDIO_DONE"
    BY <1>3, <1>4, <1>8, <1>9, <2>1, <2>2, <2>4 DEF GateOrder, CooldownAfter
  <2>5. CASE e.type \notin AudioTypes
    BY <1>8, <1>9, <2>1, <2>2, <2>5 DEF GateOrder, CooldownAfter, AudioTypes, SessionInv
  <2> QED
    BY <2>3, <2>4, <2>5 DEF AudioTypes
<1>12. SessionVibrationDropped'
  <2>1. CASE Dispatch(e) = "get"
    BY <1>8, <2>1 DEF SessionVibrationDropped
  <2>2. CASE Dispatch(e) # "get"
    <3>1. e.type = "VIBRATION" => ~g_drop_vibration_events
      BY <2>2 DEF Dispatch
    <3>2. e.origin # "session"
      BY <1>3, <1>7, <3>1
    <3> QED
      BY <1>9, <2>2, <3>2 DEF SessionVibrationDropped
  <2> QED
    BY <2>1, <2>2
<1>13. CASE event_q' = rest /\ Goto("main", Dispatch(e))
  <2>1. pc'["audio"] = pc["audio"] /\ pc'["shell"] = pc["shell"]
    BY <1>1, <1>13, DispatchOK, GotoLabel DEF Threads
  <2>2. Announced' = Announced
    BY <1>9, <2>1 DEF Announced, AudioSession, ToneSession
  <2>3. AudioEventsAlternate' /\ MarksInside(event_q, MainInSession)'
    BY <1>6, <1>7, <1>10, <1>13, <2>2 DEF AudioEventsAlternate
  <2> QED
    BY <1>11, <1>12, <2>3 DEF SessionInv
<1>14. ASSUME NEW t \in {"audio", "shell"}, Pended(t),
              event_q' = Append(rest, PendedEvent(t)),
              pc' = [pc EXCEPT !["main"] = Dispatch(e), ![t] = PendedNext(t)]
       PROVE  SessionInv'
  <2>1. pc'[t] = PendedNext(t) /\ \A u \in {"audio", "shell"} \ {t} : pc'[u] = pc[u]
    BY <1>1, <1>14 DEF PcOK, Threads
  <2>2. /\ PendedEvent(t) \in Events
        /\ PendedEvent(t).origin = "none"
        /\ PendedEvent(t).type = IF pc[t] = "startPended" THEN "AUDIO_START" ELSE "AUDIO_DONE"
    <3>1. {"AUDIO_START", "AUDIO_DONE"} \subseteq EventTypes
      BY DEF EventTypes
    <3> QED
      BY <3>1, EventOK DEF PendedEvent, Event, At
  <2>3. CASE pc[t] = "startPended"
    <3>1. ~Announced /\ Announced'
      <4>1. CASE t = "audio"
        <5>1. pc'["audio"] = "delay" /\ ~ToneHolds
          BY <2>1, <2>3, <4>1 DEF PendedNext, AfterStart, At, ClaimInv, Exclusive
        <5> QED
          BY <2>3, <4>1, <5>1 DEF Announced, AudioSession, ToneSession
      <4>2. CASE t = "shell"
        <5>1. pc'["shell"] = "idle" /\ g_sine_active' /\ pc["audio"] = "wait"
          BY <1>9, <2>1, <2>3, <4>2
          DEF PendedNext, AfterStart, At, ClaimInv, Exclusive, ToneOrder
        <5> QED
          BY <2>3, <4>2, <5>1 DEF Announced, AudioSession, ToneSession
      <4> QED
        BY <4>1, <4>2
    <3>2. PendedEvent(t).type = IF Announced THEN "AUDIO_DONE" ELSE "AUDIO_START"
      BY <2>2, <2>3, <3>1
    <3>3. Alternates(event_q', inside, ~Announced)
      BY <1>1, <1>2, <1>6, <1>14, <2>2, <3>2, AppendAudio
    <3>4. MarksInside(event_q', inside)
      BY <1>1, <1>2, <1>6, <1>7, <1>14, <2>2, AppendMarked
    <3>5. Announced' = ~Announced
      BY <3>1 DEF Announced
    <3> QED
      BY <1>10, <1>11, <1>12, <3>3, <3>4, <3>5 DEF SessionInv, AudioEventsAlternate
  <2>4. CASE pc[t] = "donePended"
    <3>1. Announced /\ ~Announced'
      <4>1. CASE t = "audio"
        <5>1. /\ pc'["audio"] = "release" /\ ~ToneHolds
              /\ pc'["shell"] = pc["shell"] /\ ~g_sine_active'
          BY <1>9, <2>1, <2>4, <4>1 DEF PendedNext, At, ClaimInv, Exclusive
        <5> QED
          BY <2>4, <4>1, <5>1 DEF Announced, AudioSession, ToneSession
      <4>2. CASE t = "shell"
        <5>1. /\ pc'["shell"] = "release" /\ ~g_sine_active'
              /\ pc'["audio"] = "wait"
          BY <1>9, <2>1, <2>4, <4>2 DEF PendedNext, At, ClaimInv, Exclusive, ToneOrder
        <5> QED
          BY <2>4, <4>2, <5>1 DEF Announced, AudioSession, ToneSession
      <4> QED
        BY <4>1, <4>2
    <3>2. PendedEvent(t).type = IF Announced THEN "AUDIO_DONE" ELSE "AUDIO_START"
      BY <2>2, <2>4, <3>1
    <3>3. Alternates(event_q', inside, ~Announced)
      BY <1>1, <1>2, <1>6, <1>14, <2>2, <3>2, AppendAudio
    <3>4. MarksInside(event_q', inside)
      BY <1>1, <1>2, <1>6, <1>7, <1>14, <2>2, AppendMarked
    <3>5. Announced' = ~Announced
      BY <3>1 DEF Announced
    <3> QED
      BY <1>10, <1>11, <1>12, <3>3, <3>4, <3>5 DEF SessionInv, AudioEventsAlternate
  <2> QED
    BY <1>14, <2>3, <2>4 DEF Pended
<1> QED
  BY <1>13, <1>14 DEF Get

\* Every step keeps the session invariant: most leave the queue, the gate and
\* both ends' view of the session alone.
LEMMA SessionStep == TypeOK /\ ClaimInv /\ SessionInv /\ [Next]_vars => SessionInv'
<1> SUFFICES ASSUME TypeOK, ClaimInv, SessionInv, [Next]_vars PROVE SessionInv'
  OBVIOUS
<1>0. PcOK /\ evt \in Events
  BY DEF TypeOK
<1> USE DEF gateVars, audioVars, fsVars, otaVars
<1>1. ASSUME InitModules \/ Mount \/ ReadCard \/ Check \/ Send
      PROVE  SessionInv'
  <2>1. /\ pc'["audio"] = pc["audio"] /\ pc'["shell"] = pc["shell"]
        /\ pc["main"] # "suppress" /\ pc'["main"] # "suppress"
        /\ pc'["main"] \in BootSteps => pc["main"] \in BootSteps
        /\ pc'["main"] \in {"check", "claim", "put", "send"} =>
             pc["main"] \in {"check", "claim", "put", "send"} /\ evt' = evt
    BY <1>0, <1>1, GotoLabel, ReturnOK, OwnLabels
    DEF InitModules, Mount, ReadCard, Check, Send, Threads, At, Rest, BootSteps
  <2>2. UNCHANGED <<event_q, g_drop_vibration_events, cooldown_timer, g_sine_active>>
    BY <1>1 DEF InitModules, Mount, ReadCard, Check, Send
  <2>3. Announced' <=> Announced
    BY <2>1, <2>2 DEF Announced, AudioSession, ToneSession
  <2> QED
    BY <2>1, <2>2, <2>3, QuietStep
<1>2. ASSUME StartProducers \/ Suppress
      PROVE  SessionInv'
  <2>1. /\ pc'["audio"] = pc["audio"] /\ pc'["shell"] = pc["shell"]
        /\ pc'["main"] = "get"
    BY <1>0, <1>2, ReturnOK DEF StartProducers, Suppress, Threads, Rest
  <2>2. /\ UNCHANGED <<event_q, cooldown_timer, g_sine_active>> /\ ~cooldown_timer
        /\ MainInSession <=> pc["main"] = "suppress"
        /\ g_drop_vibration_events' <=> pc["main"] = "suppress"
    BY <1>2 DEF StartProducers, Suppress, SessionInv, GateOrder, MainInSession, At, BootSteps
  <2>3. Announced' <=> Announced
    BY <2>1, <2>2 DEF Announced, AudioSession, ToneSession
  <2>4. MainInSession' <=> MainInSession
    BY <2>1, <2>2 DEF MainInSession, At
  <2>5. GateOrder' /\ SessionVibrationDropped'
    BY <2>1, <2>2 DEF GateOrder, SessionVibrationDropped, BootSteps
  <2> QED
    BY <2>2, <2>3, <2>4, <2>5, SessionFrame DEF SessionInv
<1>3. CASE Get
  BY <1>3, GetStep
<1>4. ASSUME NEW t \in {"main", "shell"}, Claim(t) \/ PutRequest(t)
      PROVE  SessionInv'
  <2>1. /\ \A u \in Threads \ {t} : pc'[u] = pc[u]
        /\ pc[t] \in {"claim", "put"}
        /\ \/ pc'[t] \in {"put", "send"} /\ evt' = evt
           \/ pc'[t] = Rest(t)
        /\ t = "shell" => evt' = evt /\ pc'[t] \in {"put", "idle"}
    BY <1>0, <1>4, GotoLabel, ReturnOK, OwnLabels
    DEF Claim, Refused, PutRequest, Threads, At, Rest, Return
  <2>2. UNCHANGED <<event_q, g_drop_vibration_events, cooldown_timer, g_sine_active>>
    BY <1>4 DEF Claim, PutRequest
  <2>3. Announced' <=> Announced
    BY <2>1, <2>2 DEF Announced, AudioSession, ToneSession, Threads, Rest
  <2>4. CASE t = "main"
    BY <2>1, <2>2, <2>3, <2>4, QuietStep DEF Rest, BootSteps
  <2>5. CASE t = "shell"
    BY <2>1, <2>2, <2>3, <2>5, QuietStep DEF Threads
  <2> QED
    BY <2>4, <2>5
<1>5. ASSUME NEW t \in {"main", "shell"},
             ArmCheck(t) \/ ArmFinish(t) \/ CancelCheck(t) \/ CancelClear(t) \/ CancelFinish(t)
      PROVE  SessionInv'
  <2>1. /\ \A u \in Threads \ {t} : pc'[u] = pc[u]
        /\ pc[t] \in OtaSteps /\ pc'[t] \in OtaSteps \cup {Rest(t)}
        /\ t = "shell" => evt' = evt
    BY <1>0, <1>5, GotoLabel, ReturnOK, OwnLabels
    DEF ArmCheck, ArmFinish, CancelCheck, CancelClear, CancelFinish, Threads, At,
        OtaSteps, Return
  <2>2. UNCHANGED <<event_q, g_drop_vibration_events, cooldown_timer, g_sine_active>>
    BY <1>5 DEF ArmCheck, ArmFinish, CancelCheck, CancelClear, CancelFinish
  <2>3. Announced' <=> Announced
    BY <2>1, <2>2 DEF Announced, AudioSession, ToneSession, Threads, Rest, OtaSteps
  <2>4. CASE t = "main"
    BY <2>1, <2>2, <2>3, <2>4, QuietStep DEF Rest, BootSteps, OtaSteps
  <2>5. CASE t = "shell"
    BY <2>1, <2>2, <2>3, <2>5, QuietStep DEF Threads
  <2> QED
    BY <2>4, <2>5
<1>6. ASSUME NEW t \in {"audio", "shell"}, PostStart(t) \/ PostDone(t)
      PROVE  SessionInv'
  BY <1>6, PostStep
<1>7. ASSUME NEW t \in {"audio", "shell"}, Release(t)
      PROVE  SessionInv'
  <2>1. /\ \A u \in Threads \ {t} : pc'[u] = pc[u]
        /\ pc[t] = "release" /\ pc'[t] = Rest(t) /\ evt' = evt
    BY <1>0, <1>7, ReturnOK DEF Release, Threads, At, Return
  <2>2. UNCHANGED <<event_q, g_drop_vibration_events, cooldown_timer, g_sine_active>>
    BY <1>7 DEF Release
  <2>3. Announced' <=> Announced
    BY <2>1, <2>2 DEF Announced, AudioSession, ToneSession, Threads, Rest
  <2> QED
    BY <2>1, <2>2, <2>3, QuietStep DEF Threads
<1>8. ASSUME TakeRequest \/ AudioLock \/ OpenSound \/ EndSound
      PROVE  SessionInv'
  <2>1. /\ pc'["main"] = pc["main"] /\ pc'["shell"] = pc["shell"] /\ evt' = evt
        /\ \/ pc["audio"] = "wait" /\ pc'["audio"] = "postStart"
           \/ /\ pc["audio"] \in {"delay", "open", "stream"}
              /\ pc'["audio"] \in {"open", "stream", "postDone"}
    BY <1>0, <1>8, GotoLabel, OwnLabels
    DEF TakeRequest, AudioLock, OpenSound, OpenFailed, EndSound, Threads, At
  <2>2. UNCHANGED <<event_q, g_drop_vibration_events, cooldown_timer, g_sine_active>>
    BY <1>8 DEF TakeRequest, AudioLock, OpenSound, EndSound
  <2>3. Announced' <=> Announced
    BY <2>1, <2>2 DEF Announced, AudioSession, ToneSession
  <2> QED
    BY <2>1, <2>2, <2>3, QuietStep
<1>9. ASSUME CmdPlay \/ CmdSave \/ CmdOta \/ ShellLock \/ Rewrite \/ CmdSineOn
      PROVE  SessionInv'
  <2>1. /\ pc'["main"] = pc["main"] /\ pc'["audio"] = pc["audio"] /\ evt' = evt
        /\ pc["shell"] \in {"idle", "lock", "rewrite"}
        /\ pc'["shell"] \in {"claim", "lock", "arm", "cancel", "rewrite", "idle", "tone"}
    BY <1>0, <1>9, GotoLabel, OwnLabels
    DEF CmdPlay, CmdSave, CmdOta, ShellLock, Rewrite, CmdSineOn, Threads, At
  <2>2. UNCHANGED <<event_q, g_drop_vibration_events, cooldown_timer, g_sine_active>>
    BY <1>9 DEF CmdPlay, CmdSave, CmdOta, ShellLock, Rewrite, CmdSineOn
  <2>3. Announced' <=> Announced
    BY <2>1, <2>2 DEF Announced, AudioSession, ToneSession
  <2> QED
    BY <2>1, <2>2, <2>3, QuietStep
<1>10. ASSUME ToneUp \/ CmdSineOff
       PROVE  SessionInv'
  <2>1. /\ pc'["main"] = pc["main"] /\ pc'["audio"] = pc["audio"] /\ evt' = evt
        /\ \/ /\ pc["shell"] = "tone"
              /\ \/ pc'["shell"] = "postStart"
                 \/ pc'["shell"] = "idle" /\ g_sine_active' = g_sine_active
           \/ pc["shell"] = "idle" /\ pc'["shell"] = "postDone" /\ g_sine_active
    BY <1>0, <1>10, GotoLabel, OwnLabels DEF ToneUp, ToneFailed, CmdSineOff, Threads, At
  <2>2. UNCHANGED <<event_q, g_drop_vibration_events, cooldown_timer>>
    BY <1>10 DEF ToneUp, CmdSineOff
  <2>3. pc["shell"] = "tone" => ~g_sine_active
    BY DEF ClaimInv, ToneOrder
  <2>4. Announced' <=> Announced
    BY <2>1, <2>3 DEF Announced, AudioSession, ToneSession
  <2> QED
    BY <2>1, <2>2, <2>4, QuietStep
<1>11. CASE CooldownExpired
  <2>1. /\ UNCHANGED <<event_q, pc, evt, g_sine_active>>
        /\ ~cooldown_timer' /\ ~g_drop_vibration_events' /\ cooldown_timer
    BY <1>11 DEF CooldownExpired
  <2>2. Announced' <=> Announced
    BY <2>1 DEF Announced, AudioSession, ToneSession
  <2>3. MainInSession' <=> MainInSession
    BY <2>1 DEF MainInSession, At, SessionInv, GateOrder
  <2>4. GateOrder' /\ SessionVibrationDropped'
    BY <2>1 DEF SessionInv, GateOrder, SessionVibrationDropped
  <2> QED
    BY <2>1, <2>2, <2>3, <2>4, SessionFrame DEF SessionInv
<1>12. CASE WindowExpiry
  <2>1. Event("OTA_CANCEL") \in Events /\ "OTA_CANCEL" \notin AudioTypes
        /\ Event("OTA_CANCEL").type = "OTA_CANCEL" /\ Event("OTA_CANCEL").origin = "none"
    BY EventOK DEF EventTypes, AudioTypes, Event
  <2> QED
    BY <1>12, <2>1, PutStep DEF WindowExpiry
<1>13. CASE Produce
  <2>1. PICK e \in Events : /\ PutNoWait(e)
                            /\ e.type \in Stimuli
                            /\ e.origin = "session" => Announced /\ e.type = "VIBRATION"
    BY <1>13, StimuliAssumption DEF Produce, Events, EventTypes, Origins
  <2>2. e.type \notin AudioTypes
    BY <2>1, StimuliAssumption DEF AudioTypes
  <2> QED
    BY <1>13, <2>1, <2>2, PutStep DEF Produce
<1>14. CASE UNCHANGED vars \/ SmpStep
  <2>1. UNCHANGED <<event_q, pc, evt, g_sine_active, g_drop_vibration_events, cooldown_timer>>
    BY <1>14 DEF vars, SmpStep, ClientConnects, ClientLeaves
  <2>2. Announced' <=> Announced
    BY <2>1 DEF Announced, AudioSession, ToneSession
  <2> QED
    BY <2>1, <2>2, QuietStep
<1> QED
  BY <1>1, <1>2, <1>3, <1>4, <1>5, <1>6, <1>7, <1>8, <1>9, <1>10, <1>11, <1>12, <1>13, <1>14
  DEF Next, MainStep, AudioStep, ShellCommand, ShellStep

LEMMA SessionCorrect == Spec => []SessionInv
<1>1. Init => TypeOK /\ ClaimInv /\ SessionInv
  BY TypeInit, ClaimInit, SessionInit
<1>2. TypeOK /\ ClaimInv /\ SessionInv /\ [Next]_vars => (TypeOK /\ ClaimInv /\ SessionInv)'
  BY TypeStep, ClaimStep, SessionStep
<1> QED
  BY <1>1, <1>2, PTL DEF Spec

\* The main loop receives AUDIO_START and AUDIO_DONE as strictly alternating
\* pairs, however the playback thread, the sine test and a full queue interleave
\* (audio.c, post_audio_event).
THEOREM PairsAlternate == Spec => []AudioEventsAlternate
<1>1. SessionInv => AudioEventsAlternate
  BY DEF SessionInv
<1> QED
  BY <1>1, SessionCorrect, PTL

\* A vibration reported while a session is announced is never acted on (main.c,
\* the suppression flag that the loop derives from the session events).
THEOREM SessionsNotSelfTriggered == Spec => []SessionVibrationDropped
<1>1. SessionInv => SessionVibrationDropped
  BY DEF SessionInv
<1> QED
  BY <1>1, SessionCorrect, PTL

-----------------------------------------------------------------------------
(* The vibration gate *)

\* Only three steps move the gate.
LEMMA GateFrame ==
    ASSUME TypeOK, ClaimInv, SessionInv, [Next]_vars,
           ~Get, ~Suppress, ~CooldownExpired
    PROVE  Phase' = Phase
<1> USE DEF gateVars
<1>1. CASE StartProducers
  BY <1>1 DEF StartProducers, SessionInv, GateOrder, BootSteps, At, Phase
<1>2. CASE ~StartProducers
  <2>1. UNCHANGED gateVars
    BY <1>2 DEF Next, MainStep, AudioStep, ShellCommand, ShellStep, vars, InitModules,
       Mount, ReadCard, Check, Send, Claim, PutRequest, ArmCheck, ArmFinish, CancelCheck,
       CancelClear, CancelFinish, PostStart, PostDone, Post, Release, TakeRequest,
       AudioLock, OpenSound, EndSound, CmdPlay, CmdSave, CmdOta, ShellLock, Rewrite,
       CmdSineOn, CmdSineOff, ToneUp, WindowExpiry, Produce, SmpStep, ClientConnects, ClientLeaves
  <2> QED
    BY <2>1 DEF Phase
<1> QED
  BY <1>1, <1>2

LEMMA GateStep ==
    TypeOK /\ ClaimInv /\ SessionInv /\ [Next]_vars => [Gate!Next]_Phase
<1> SUFFICES ASSUME TypeOK, ClaimInv, SessionInv, [Next]_vars
             PROVE  Gate!Next \/ Phase' = Phase
  OBVIOUS
<1> USE DEF Gate!Next, Gate!Start, Gate!Done, Gate!Expire
<1>1. cooldown_timer => g_drop_vibration_events
  BY DEF SessionInv, GateOrder
<1>2. CASE Get
  <2> DEFINE e == Head(event_q)
  <2>1. /\ pc["main"] = "get" /\ event_q \in Seq(Events) /\ event_q # <<>> /\ e \in Events
        /\ g_drop_vibration_events' = g_drop_vibration_events
        /\ cooldown_timer' = CooldownAfter(e)
    BY <1>2 DEF Get, TypeOK, At
  <2>2. MainInSession <=> g_drop_vibration_events /\ ~cooldown_timer
    BY <2>1 DEF MainInSession, At
  <2>3. e.type \in AudioTypes => (e.type = "AUDIO_DONE" <=> MainInSession)
    <3>1. MainInSession \in BOOLEAN /\ Announced \in BOOLEAN
      BY DEF MainInSession, Announced
    <3> QED
      BY <2>1, <3>1, TailAudio DEF SessionInv, AudioEventsAlternate
  <2>4. CASE e.type = "AUDIO_START"
    BY <1>1, <2>1, <2>2, <2>3, <2>4 DEF AudioTypes, CooldownAfter, Phase
  <2>5. CASE e.type = "AUDIO_DONE"
    BY <2>1, <2>2, <2>3, <2>5 DEF AudioTypes, CooldownAfter, Phase
  <2>6. CASE e.type \notin AudioTypes
    BY <2>1, <2>6 DEF AudioTypes, CooldownAfter, Phase
  <2> QED
    BY <2>4, <2>5, <2>6 DEF AudioTypes
<1>3. CASE Suppress
  BY <1>3 DEF Suppress, SessionInv, GateOrder, At, Phase
<1>4. CASE CooldownExpired
  BY <1>1, <1>4 DEF CooldownExpired, Phase
<1> QED
  BY <1>2, <1>3, <1>4, GateFrame

\* The main loop's flag and timer implement the vibration gate: suppression
\* begins only with a session, ends only through the ring-down, and a session
\* that begins during the ring-down is not cut short by the old timer.
THEOREM GateRefined == Spec => Gate!Safety
<1>1. Init => Gate!Init
  BY DEF Init, Gate!Init, Phase
<1>2. TypeOK /\ ClaimInv /\ SessionInv /\ [Next]_vars => [Gate!Next]_Phase
  BY GateStep
<1>3. Spec => []TypeOK /\ []ClaimInv
  <2>1. TypeOK /\ ClaimInv /\ [Next]_vars => (TypeOK /\ ClaimInv)'
    BY TypeStep, ClaimStep
  <2> QED
    BY <2>1, TypeInit, ClaimInit, PTL DEF Spec
<1> QED
  BY <1>1, <1>2, <1>3, SessionCorrect, PTL DEF Spec, Gate!Safety
-----------------------------------------------------------------------------
(* The box quiets down *)

\* The weights of the events and of the labels.
LEMMA EventWeights ==
    /\ \A e \in Events : EventWork(e.type) \in 2..16
    /\ EventWork("AUDIO_DONE") = 2 /\ EventWork("AUDIO_START") = 2
    /\ EventWork("OTA_CANCEL") = 4 /\ EventWork("OTA_ARM") = 8
    /\ EventWork("VIBRATION") = 16 /\ EventWork("BLE_RX") = 16
BY DEF EventWork, Events, EventTypes

LEMMA LabelWeights ==
    /\ \A label \in Labels : LabelWork(label) \in 0..15
    /\ \A label \in {"get", "wait", "idle"} : LabelWork(label) = 0
    /\ \A label \in {"start", "send", "suppress", "closing", "release", "rewrite"} :
         LabelWork(label) = 1
    /\ \A label \in {"load", "clearing", "lock"} : LabelWork(label) = 2
    /\ \A label \in {"scan", "cancel", "donePended"} : LabelWork(label) = 3
    /\ \A label \in {"mount", "postDone"} : LabelWork(label) = 4
    /\ \A label \in {"init", "stream"} : LabelWork(label) = 5
    /\ \A label \in {"open", "arming"} : LabelWork(label) = 6
    /\ \A label \in {"delay", "arm"} : LabelWork(label) = 7
    /\ LabelWork("startPended") = 9 /\ LabelWork("postStart") = 10
    /\ LabelWork("tone") = 11 /\ LabelWork("put") = 13
    /\ LabelWork("claim") = 14 /\ LabelWork("check") = 15
BY DEF LabelWork, Labels, MainPcs, BootSteps, OtaSteps, AudioPcs, PostSteps, ShellPcs

\* f sums the work of the first events of q.
Sums(f, q) ==
    /\ f \in [0..Len(q) -> Nat]
    /\ f[0] = 0
    /\ \A i \in 1..Len(q) : f[i] = f[i - 1] + EventWork(q[i].type)

LEMMA SumsExist ==
    ASSUME NEW q \in Seq(Events)
    PROVE  \E f : Sums(f, q) /\ QueueWork(q) = f[Len(q)]
<1> DEFINE n == Len(q)
           F == [x \in (1..n) \X Nat |-> x[2] + EventWork(q[x[1]].type)]
           p == CHOOSE f : f = [i \in 0..n |->
                  IF i = 0 THEN 0 ELSE f[i - 1] + EventWork(q[i].type)]
<1>1. n \in Nat /\ \A i \in 1..n : q[i] \in Events /\ EventWork(q[i].type) \in Nat
  <2>1. \A i \in 1..n : q[i] \in Events
    OBVIOUS
  <2> QED
    BY <2>1, EventWeights
<1>2. F \in [(1..n) \X Nat -> Nat]
  <2>1. \A x \in (1..n) \X Nat : x[1] \in 1..n /\ x[2] \in Nat
    OBVIOUS
  <2>2. \A x \in (1..n) \X Nat : x[2] + EventWork(q[x[1]].type) \in Nat
    BY <1>1, <2>1
  <2> QED
    BY <2>2
<1>3. \E f \in [0..n -> Nat] : Follows(f, n, 0, F)
  <2> HIDE DEF F, p, n
  <2> QED
    BY <1>1, <1>2, RecursionExists, Zenon
<1>4. PICK f \in [0..n -> Nat] : f[0] = 0 /\ \A i \in 1..n : f[i] = F[<<i, f[i - 1]>>]
  BY <1>3 DEF Follows
<1>5. ASSUME NEW i \in 1..n PROVE f[i] = f[i - 1] + EventWork(q[i].type)
  <2>1. f[i - 1] \in Nat
    BY <1>1
  <2>2. <<i, f[i - 1]>> \in (1..n) \X Nat
    BY <2>1
  <2> QED
    BY <1>4, <2>2
<1>6. f = [i \in 0..n |-> IF i = 0 THEN 0 ELSE f[i - 1] + EventWork(q[i].type)]
  <2>1. ASSUME NEW i \in 0..n
        PROVE  f[i] = IF i = 0 THEN 0 ELSE f[i - 1] + EventWork(q[i].type)
    BY <1>4, <1>5
  <2> QED
    BY <2>1
<1>7. p = [i \in 0..n |-> IF i = 0 THEN 0 ELSE p[i - 1] + EventWork(q[i].type)]
  BY <1>6
<1>8. QueueWork(q) = p[n]
  BY DEF QueueWork
<1> HIDE DEF p, F
<1>9. p[0] = 0 /\ \A i \in 1..n : p[i] = p[i - 1] + EventWork(q[i].type)
  BY <1>1, <1>7
<1>10. Alike(p, f, n)
  BY <1>4, <1>5, <1>9 DEF Alike
<1>11. \A i \in 0..n : p[i] = f[i]
  <2> HIDE DEF n
  <2> QED
    BY <1>1, <1>10, Agreement DEF Agree
<1>12. Sums(f, q)
  BY <1>4, <1>5 DEF Sums
<1>13. QueueWork(q) = f[Len(q)]
  BY <1>1, <1>8, <1>11
<1> QED
  BY <1>12, <1>13

LEMMA QueueWorkIsNat == ASSUME NEW q \in Seq(Events) PROVE QueueWork(q) \in Nat
BY SumsExist DEF Sums

\* A put adds the work of its event.
LEMMA AppendWork ==
    ASSUME NEW q \in Seq(Events), NEW e \in Events
    PROVE  QueueWork(Append(q, e)) = QueueWork(q) + EventWork(e.type)
<1> DEFINE r == Append(q, e)
           n == Len(q)
<1>1. /\ r \in Seq(Events) /\ Len(r) = n + 1 /\ r[n + 1] = e /\ n \in Nat
      /\ \A i \in 1..n : r[i] = q[i]
  OBVIOUS
<1>2. PICK f : Sums(f, q) /\ QueueWork(q) = f[n]
  BY SumsExist
<1>3. PICK g : Sums(g, r) /\ QueueWork(r) = g[Len(r)]
  BY <1>1, SumsExist
<1> HIDE DEF r
<1>4. \A i \in 1..n : f[i] = f[i - 1] + EventWork(q[i].type)
  BY <1>2 DEF Sums
<1>5. \A i \in 1..(n + 1) : g[i] = g[i - 1] + EventWork(r[i].type)
  BY <1>1, <1>3 DEF Sums
<1>6. Alike(f, g, n)
  <2>1. ASSUME NEW i \in 1..n, f[i - 1] = g[i - 1] PROVE f[i] = g[i]
    BY <1>1, <1>4, <1>5, <2>1
  <2>2. f[0] = g[0]
    BY <1>2, <1>3 DEF Sums
  <2> QED
    BY <2>1, <2>2 DEF Alike
<1>7. f[n] = g[n]
  <2> HIDE DEF n
  <2>1. Agree(f, g, n)
    BY <1>1, <1>6, Agreement
  <2> QED
    BY <1>1, <2>1 DEF Agree
<1>8. g[n + 1] = g[n] + EventWork(e.type)
  BY <1>1, <1>5
<1>9. QueueWork(r) = QueueWork(q) + EventWork(e.type)
  BY <1>1, <1>2, <1>3, <1>7, <1>8
<1> QED
  BY <1>9 DEF r

\* A get takes the work of the oldest event off.
LEMMA TailWork ==
    ASSUME NEW q \in Seq(Events), q # <<>>
    PROVE  QueueWork(q) = EventWork(Head(q).type) + QueueWork(Tail(q))
<1> DEFINE r == Tail(q)
           n == Len(r)
           w == EventWork(Head(q).type)
<1>1. /\ r \in Seq(Events) /\ Len(q) = n + 1 /\ n \in Nat /\ Head(q) = q[1] /\ q[1] \in Events
      /\ \A i \in 1..n : r[i] = q[i + 1]
  OBVIOUS
<1>2. PICK f : Sums(f, q) /\ QueueWork(q) = f[Len(q)]
  BY SumsExist
<1>3. PICK g : Sums(g, r) /\ QueueWork(r) = g[n]
  BY <1>1, SumsExist
<1>4. w \in Nat
  BY <1>1, EventWeights
<1>5. \A i \in 0..n : g[i] \in Nat
  BY <1>3 DEF Sums
<1> HIDE DEF r, n, w
<1> DEFINE h == [i \in 0..n |-> w + g[i]]
           k == [i \in 0..n |-> f[i + 1]]
<1>6. \A i \in 0..n : h[i] = w + g[i] /\ k[i] = f[i + 1]
  OBVIOUS
<1>7. /\ f[0] = 0 /\ \A i \in 1..(n + 1) : f[i] = f[i - 1] + EventWork(q[i].type)
      /\ g[0] = 0 /\ \A i \in 1..n : g[i] = g[i - 1] + EventWork(r[i].type)
  BY <1>1, <1>2, <1>3 DEF Sums, n
<1> HIDE DEF h, k
<1>8. k[0] = h[0]
  <2>1. k[0] = f[1] /\ h[0] = w + g[0]
    BY <1>1, <1>6
  <2>2. f[1] = f[0] + EventWork(q[1].type)
    BY <1>1, <1>7
  <2> QED
    BY <1>1, <1>4, <1>7, <2>1, <2>2 DEF w
<1>9. ASSUME NEW i \in 1..n, k[i - 1] = h[i - 1] PROVE k[i] = h[i]
  <2>1. i \in 0..n /\ i - 1 \in 0..n /\ i + 1 \in 1..(n + 1) /\ (i - 1) + 1 = i /\ (i + 1) - 1 = i
    BY <1>1
  <2>2. k[i] = f[i] + EventWork(r[i].type)
    BY <1>1, <1>6, <1>7, <2>1
  <2>3. f[i] = w + g[i - 1]
    BY <1>6, <1>9, <2>1
  <2>4. g[i] = g[i - 1] + EventWork(r[i].type)
    BY <1>7
  <2>5. EventWork(r[i].type) \in Nat
    <3>1. r[i] \in Events
      BY <1>1 DEF n
    <3> QED
      BY <3>1, EventWeights
  <2>6. g[i - 1] \in Nat
    BY <1>5, <2>1
  <2> QED
    BY <1>4, <1>6, <2>1, <2>2, <2>3, <2>4, <2>5, <2>6
<1>10. k[n] = h[n]
  <2>1. Alike(k, h, n)
    BY <1>8, <1>9 DEF Alike
  <2>2. Agree(k, h, n)
    BY <1>1, <2>1, Agreement
  <2> QED
    BY <1>1, <2>2 DEF Agree
<1>11. QueueWork(q) = w + QueueWork(r)
  BY <1>1, <1>2, <1>3, <1>6, <1>10
<1> QED
  BY <1>11 DEF w, r

-----------------------------------------------------------------------------
\* What is not at a thread's place.
Outside == QueueWork(event_q) + RequestWork + TimersWork

LEMMA WorkTypes ==
    ASSUME TypeOK
    PROVE  /\ QueueWork(event_q) \in Nat /\ RequestWork \in Nat /\ TimersWork \in Nat
           /\ Outside \in Nat
           /\ \A t \in Threads : LabelWork(pc[t]) \in Nat
           /\ Work = LabelWork(pc["main"]) + LabelWork(pc["audio"]) + LabelWork(pc["shell"]) + Outside
<1>1. QueueWork(event_q) \in Nat
  BY QueueWorkIsNat DEF TypeOK
<1>2. RequestWork \in Nat /\ TimersWork \in Nat
  BY DEF RequestWork, TimersWork
<1>3. \A t \in Threads : LabelWork(pc[t]) \in Nat
  BY LabelWeights DEF TypeOK, PcOK
<1> QED
  BY <1>1, <1>2, <1>3 DEF Outside, Work, Threads

LEMMA WorkTypesNext == (TypeOK => Work \in Nat /\ Outside \in Nat)'
<1>1. TypeOK => Work \in Nat /\ Outside \in Nat
  BY WorkTypes DEF Threads
<1> QED
  BY <1>1, PTL

\* A thread that moves gives up more work than it leaves elsewhere.
LEMMA MoveWorks ==
    ASSUME TypeOK, TypeOK', NEW t \in Threads, NEW label \in Labels, Goto(t, label),
           LabelWork(label) + Outside' < LabelWork(pc[t]) + Outside
    PROVE  Work' < Work
<1>1. pc'[t] = label /\ \A u \in Threads \ {t} : pc'[u] = pc[u]
  BY DEF TypeOK, PcOK, Goto
<1>2. \A u \in Threads : LabelWork(pc[u]) \in Nat
  BY WorkTypes
<1>3. LabelWork(label) \in Nat /\ Outside' \in Nat /\ Outside \in Nat
  BY WorkTypes, WorkTypesNext, LabelWeights
<1>4. Work = LabelWork(pc["main"]) + LabelWork(pc["audio"]) + LabelWork(pc["shell"]) + Outside
  BY WorkTypes
<1>5. Work' = LabelWork(pc'["main"]) + LabelWork(pc'["audio"]) + LabelWork(pc'["shell"]) + Outside'
  <2>1. \A a, b, c, x, y, z \in Nat : (a + b + c) + x + y + z = a + b + c + (x + y + z)
    OBVIOUS
  <2>2. QueueWork(event_q)' \in Nat /\ RequestWork' \in Nat /\ TimersWork' \in Nat
    <3>1. event_q' \in Seq(Events)
      BY DEF TypeOK
    <3> QED
      BY <3>1, QueueWorkIsNat DEF RequestWork, TimersWork
  <2>3. \A u \in Threads : LabelWork(pc'[u]) \in Nat
    BY <1>1, <1>2, <1>3
  <2> QED
    BY <2>1, <2>2, <2>3 DEF Work, Outside, Threads
<1> QED
  BY <1>1, <1>2, <1>3, <1>4, <1>5 DEF Threads

\* A thread that only moves moves towards its rest.
LEMMA StepWorks ==
    ASSUME TypeOK, TypeOK', NEW t \in Threads, NEW label \in Labels, Goto(t, label),
           LabelWork(label) < LabelWork(pc[t]),
           UNCHANGED <<event_q, g_play_q, window_timer, cooldown_timer>>
    PROVE  Work' < Work
<1>1. Outside' = Outside /\ Outside \in Nat
  BY WorkTypes DEF Outside, RequestWork, TimersWork
<1>2. LabelWork(label) \in Nat /\ LabelWork(pc[t]) \in Nat
  BY WorkTypes, LabelWeights
<1> QED
  BY <1>1, <1>2, MoveWorks

LEMMA ReturnWorks ==
    ASSUME TypeOK, TypeOK', NEW t \in Threads, Return(t), LabelWork(pc[t]) > 0,
           UNCHANGED <<event_q, g_play_q, window_timer, cooldown_timer>>
    PROVE  Work' < Work
<1>1. Rest(t) \in Labels /\ LabelWork(Rest(t)) = 0
  BY LabelWeights DEF Rest, Labels, MainPcs, AudioPcs, ShellPcs
<1> QED
  BY <1>1, StepWorks DEF Return

\* The handlers of the main loop, and the same code in the shell.
LEMMA HandlerWorks ==
    ASSUME TypeOK, TypeOK',
           \/ InitModules \/ Mount \/ ReadCard \/ StartProducers \/ Suppress \/ Check \/ Send
           \/ \E t \in {"main", "shell"} :
                Claim(t) \/ PutRequest(t) \/ ArmCheck(t) \/ ArmFinish(t)
                  \/ CancelCheck(t) \/ CancelClear(t) \/ CancelFinish(t)
    PROVE  Work' < Work
<1> USE DEF At, gateVars, audioVars, fsVars, otaVars, Threads
<1>0. {"get", "mount", "scan", "load", "start", "claim", "put", "send", "arming",
       "clearing", "closing"} \subseteq Labels
  BY DEF Labels, MainPcs, BootSteps, OtaSteps
<1>1. CASE InitModules
  BY <1>0, <1>1, StepWorks, LabelWeights DEF InitModules
<1>2. CASE Mount
  BY <1>0, <1>2, StepWorks, LabelWeights DEF Mount
<1>3. CASE ReadCard
  BY <1>0, <1>3, StepWorks, LabelWeights DEF ReadCard
<1>4. CASE StartProducers
  BY <1>4, ReturnWorks, LabelWeights DEF StartProducers
<1>5. CASE Suppress
  BY <1>5, ReturnWorks, LabelWeights DEF Suppress
<1>6. CASE Check
  BY <1>0, <1>6, StepWorks, ReturnWorks, LabelWeights DEF Check
<1>7. CASE Send
  BY <1>7, ReturnWorks, LabelWeights DEF Send
<1>8. ASSUME NEW t \in {"main", "shell"}, Claim(t) PROVE Work' < Work
  BY <1>0, <1>8, StepWorks, ReturnWorks, LabelWeights DEF Claim, Refused
<1>9. ASSUME NEW t \in {"main", "shell"}, PutRequest(t) PROVE Work' < Work
  <2>1. LabelWork(pc[t]) = 13 /\ UNCHANGED <<event_q, window_timer, cooldown_timer>>
    BY <1>9, LabelWeights DEF PutRequest
  <2>2. CASE g_play_q = 0
    <3>1. PICK label \in {"send", Rest(t)} : Goto(t, label)
      BY <1>9, <2>2 DEF PutRequest, Return
    <3>2. label \in Labels /\ LabelWork(label) \in 0..1
      BY <1>0, LabelWeights DEF Rest, Labels, ShellPcs
    <3>3. Outside' = Outside + 11 /\ Outside \in Nat
      <4>1. RequestWork = 0 /\ RequestWork' = 11
        BY <1>9, <2>2 DEF PutRequest, RequestWork
      <4>2. QueueWork(event_q') = QueueWork(event_q) /\ TimersWork' = TimersWork
        BY <2>1 DEF TimersWork
      <4> QED
        BY <4>1, <4>2, WorkTypes DEF Outside
    <3> QED
      BY <2>1, <3>1, <3>2, <3>3, MoveWorks
  <2>3. CASE g_play_q # 0
    BY <1>9, <2>1, <2>3, ReturnWorks DEF PutRequest
  <2> QED
    BY <2>2, <2>3
<1>10. ASSUME NEW t \in {"main", "shell"}, ArmCheck(t) \/ ArmFinish(t) PROVE Work' < Work
  <2>1. /\ LabelWork(pc[t]) \in 6..7 /\ UNCHANGED <<event_q, g_play_q, cooldown_timer>>
        /\ UNCHANGED window_timer \/ window_timer' = TRUE
    BY <1>10, LabelWeights DEF ArmCheck, ArmFinish
  <2>2. CASE ArmCheck(t) /\ ~g_active
    BY <1>0, <2>2, StepWorks, LabelWeights DEF ArmCheck
  <2>3. CASE Return(t)
    <3>1. Outside' <= Outside + 5 /\ Outside' \in Nat /\ Outside \in Nat
      <4>1. QueueWork(event_q') = QueueWork(event_q) /\ RequestWork' = RequestWork
        BY <2>1 DEF RequestWork
      <4>2. TimersWork' <= TimersWork + 5
        BY <2>1 DEF TimersWork
      <4>3. TimersWork' \in Nat
        BY DEF TimersWork
      <4> QED
        BY <4>1, <4>2, <4>3, WorkTypes DEF Outside
    <3>2. Rest(t) \in Labels /\ LabelWork(Rest(t)) = 0
      BY <1>0, LabelWeights DEF Rest, Labels, ShellPcs
    <3> QED
      BY <2>1, <2>3, <3>1, <3>2, MoveWorks DEF Return
  <2> QED
    BY <1>10, <2>2, <2>3 DEF ArmCheck, ArmFinish
<1>11. ASSUME NEW t \in {"main", "shell"}, CancelCheck(t) PROVE Work' < Work
  <2>1. CASE g_active
    <3>1. /\ Goto(t, "clearing") /\ LabelWork(pc[t]) = 3 /\ ~window_timer'
          /\ UNCHANGED <<event_q, g_play_q, cooldown_timer>>
      BY <1>11, <2>1, LabelWeights DEF CancelCheck
    <3>2. Outside' <= Outside /\ Outside' \in Nat /\ Outside \in Nat
      <4>1. QueueWork(event_q') = QueueWork(event_q) /\ RequestWork' = RequestWork
        BY <3>1 DEF RequestWork
      <4>2. TimersWork' <= TimersWork /\ TimersWork' \in Nat
        BY <3>1 DEF TimersWork
      <4> QED
        BY <4>1, <4>2, WorkTypes DEF Outside
    <3> QED
      BY <1>0, <3>1, <3>2, MoveWorks, LabelWeights
  <2>2. CASE ~g_active
    BY <1>11, <2>2, ReturnWorks, LabelWeights DEF CancelCheck
  <2> QED
    BY <2>1, <2>2
<1>12. ASSUME NEW t \in {"main", "shell"}, CancelClear(t) \/ CancelFinish(t) PROVE Work' < Work
  BY <1>0, <1>12, StepWorks, ReturnWorks, LabelWeights DEF CancelClear, CancelFinish
<1> QED
  BY <1>1, <1>2, <1>3, <1>4, <1>5, <1>6, <1>7, <1>8, <1>9, <1>10, <1>11, <1>12

\* A session's events are paid for by its steps.
LEMMA SessionWorks ==
    ASSUME TypeOK, TypeOK',
           \/ TakeRequest \/ AudioLock \/ OpenSound \/ EndSound
           \/ ToneUp \/ ShellLock \/ Rewrite
           \/ \E t \in {"audio", "shell"} : PostStart(t) \/ PostDone(t) \/ Release(t)
    PROVE  Work' < Work
<1> USE DEF At, gateVars, audioVars, fsVars, otaVars, Threads
<1>0. /\ {"postStart", "startPended", "postDone", "donePended", "release", "delay", "open",
          "stream", "idle", "rewrite", "wait"} \subseteq Labels
      /\ \A t \in {"audio", "shell"} : AfterStart(t) \in {"delay", "idle"}
  BY DEF Labels, AudioPcs, ShellPcs, PostSteps, AfterStart
<1>1. CASE TakeRequest
  <2>1. /\ Goto("audio", "postStart") /\ LabelWork(pc["audio"]) = 0
        /\ UNCHANGED <<event_q, window_timer, cooldown_timer>>
    BY <1>1, LabelWeights DEF TakeRequest
  <2>2. Outside = Outside' + 11 /\ Outside' \in Nat
    <3>1. RequestWork = 11 /\ RequestWork' = 0
      BY <1>1 DEF TakeRequest, RequestWork
    <3>2. QueueWork(event_q') = QueueWork(event_q) /\ TimersWork' = TimersWork
      BY <2>1 DEF TimersWork
    <3> QED
      BY <3>1, <3>2, WorkTypes DEF Outside
  <2> QED
    BY <1>0, <2>1, <2>2, MoveWorks, LabelWeights
<1>2. CASE AudioLock \/ OpenSound \/ EndSound
  BY <1>0, <1>2, StepWorks, LabelWeights DEF AudioLock, OpenSound, OpenFailed, EndSound
<1>3. CASE ToneUp \/ ShellLock \/ Rewrite
  BY <1>0, <1>3, StepWorks, LabelWeights DEF ToneUp, ToneFailed, ShellLock, Rewrite
<1>4. ASSUME NEW t \in {"audio", "shell"}, NEW type \in {"AUDIO_START", "AUDIO_DONE"},
             NEW pended \in Labels, NEW next \in Labels, Post(t, type, pended, next),
             LabelWork(pended) < LabelWork(pc[t]), LabelWork(next) + 2 < LabelWork(pc[t])
      PROVE  Work' < Work
  <2>1. CASE QueueFull
    BY <1>4, <2>1, StepWorks DEF Post
  <2>2. CASE ~QueueFull
    <3>1. Event(type) \in Events /\ EventWork(Event(type).type) = 2
      BY EventWeights DEF Event, Events, EventTypes, Origins
    <3>2. QueueWork(event_q') = QueueWork(event_q) + 2
      BY <1>4, <2>2, <3>1, AppendWork DEF Post, TypeOK
    <3>3. Outside' = Outside + 2 /\ Outside \in Nat
      <4>1. RequestWork' = RequestWork /\ TimersWork' = TimersWork
        BY <1>4 DEF Post, RequestWork, TimersWork
      <4> QED
        BY <3>2, <4>1, WorkTypes DEF Outside
    <3>4. LabelWork(next) \in Nat /\ LabelWork(pc[t]) \in Nat
      BY LabelWeights, WorkTypes
    <3> QED
      BY <1>4, <2>2, <3>3, <3>4, MoveWorks DEF Post
  <2> QED
    BY <2>1, <2>2
<1>5. ASSUME NEW t \in {"audio", "shell"}, PostStart(t) PROVE Work' < Work
  <2>1. Post(t, "AUDIO_START", "startPended", AfterStart(t)) /\ LabelWork(pc[t]) = 10
    BY <1>5, LabelWeights DEF PostStart
  <2>2. LabelWork(AfterStart(t)) \in {0, 7} /\ AfterStart(t) \in Labels
    BY <1>0, LabelWeights
  <2> QED
    BY <1>0, <1>4, <2>1, <2>2, LabelWeights
<1>6. ASSUME NEW t \in {"audio", "shell"}, PostDone(t) PROVE Work' < Work
  <2>1. Post(t, "AUDIO_DONE", "donePended", "release") /\ LabelWork(pc[t]) = 4
    BY <1>6, LabelWeights DEF PostDone
  <2> QED
    BY <1>0, <1>4, <2>1, LabelWeights
<1>7. ASSUME NEW t \in {"audio", "shell"}, Release(t) PROVE Work' < Work
  BY <1>7, ReturnWorks, LabelWeights DEF Release
<1> QED
  BY <1>1, <1>2, <1>3, <1>5, <1>6, <1>7
\* What an event makes main do is less than the work it stood for.
LEMMA DispatchWorks ==
    ASSUME TypeOK, NEW e \in Events, cooldown_timer' = CooldownAfter(e), UNCHANGED window_timer
    PROVE  /\ Dispatch(e) \in Labels
           /\ LabelWork(Dispatch(e)) + TimersWork' < EventWork(e.type) + TimersWork
<1>1. e.type \in EventTypes
  BY DEF Events
<1>2. TimersWork \in Nat /\ TimersWork' \in Nat
  BY DEF TimersWork
<1>3. Dispatch(e) \in Labels
  BY <1>1 DEF Dispatch, EventTypes, Labels, MainPcs, OtaSteps
<1>4. CASE e.type \in {"AUDIO_DONE", "AUDIO_START"}
  <2>1. TimersWork' <= TimersWork + (IF e.type = "AUDIO_DONE" THEN 1 ELSE 0)
    BY <1>4 DEF CooldownAfter, TimersWork
  <2>2. LabelWork(Dispatch(e)) = IF e.type = "AUDIO_DONE" THEN 0 ELSE 1
    BY <1>4, LabelWeights DEF Dispatch
  <2>3. EventWork(e.type) = 2
    BY <1>4, EventWeights
  <2>4. LabelWork(Dispatch(e)) + TimersWork' < 2 + TimersWork
    <3>0. \A a, b \in Nat : (a <= b + 1 => 0 + a < 2 + b) /\ (a <= b + 0 => 1 + a < 2 + b)
      OBVIOUS
    <3>1. CASE e.type = "AUDIO_DONE"
      <4>1. TimersWork' <= TimersWork + 1
        BY <2>1, <3>1
      <4>2. LabelWork(Dispatch(e)) = 0
        BY <2>2, <3>1
      <4> QED
        BY <1>2, <3>0, <4>1, <4>2
    <3>2. CASE e.type = "AUDIO_START"
      <4>1. TimersWork' <= TimersWork + 0
        BY <2>1, <3>2
      <4>2. LabelWork(Dispatch(e)) = 1
        BY <2>2, <3>2
      <4> QED
        BY <1>2, <3>0, <4>1, <4>2
    <3> QED
      BY <1>4, <3>1, <3>2
  <2> QED
    BY <1>3, <2>3, <2>4
<1>5. CASE e.type \in {"OTA_CANCEL", "OTA_ARM", "VIBRATION", "BLE_RX"}
  <2>1. TimersWork' = TimersWork /\ TimersWork \in Nat
    BY <1>5 DEF CooldownAfter, TimersWork
  <2>2. LabelWork(Dispatch(e)) < EventWork(e.type)
    BY <1>5, EventWeights, LabelWeights DEF Dispatch
  <2>3. LabelWork(Dispatch(e)) \in Nat /\ EventWork(e.type) \in Nat
    BY <1>3, EventWeights, LabelWeights
  <2> QED
    BY <1>3, <2>1, <2>2, <2>3
<1> QED
  BY <1>1, <1>4, <1>5 DEF EventTypes

\* The get that frees a slot takes a pended thread on with it.
LEMMA GetWorks == ASSUME TypeOK, TypeOK', Get PROVE Work' < Work
<1> DEFINE e == Head(event_q)
           next == Dispatch(e)
<1>1. /\ e \in Events /\ Tail(event_q) \in Seq(Events) /\ pc["main"] = "get"
      /\ cooldown_timer' = CooldownAfter(e) /\ UNCHANGED <<window_timer, g_play_q>>
  BY DEF Get, At, TypeOK, otaVars, audioVars
<1>2. next \in Labels /\ LabelWork(next) + TimersWork' < EventWork(e.type) + TimersWork
  BY <1>1, DispatchWorks
<1>3. QueueWork(event_q) = EventWork(e.type) + QueueWork(Tail(event_q))
  BY TailWork DEF Get, TypeOK
<1>4. /\ TimersWork \in Nat /\ TimersWork' \in Nat /\ RequestWork \in Nat
      /\ EventWork(e.type) \in Nat /\ QueueWork(Tail(event_q)) \in Nat
      /\ LabelWork(next) \in Nat /\ LabelWork(pc["main"]) = 0 /\ RequestWork' = RequestWork
  <2>1. TimersWork \in Nat /\ TimersWork' \in Nat /\ RequestWork \in Nat
    BY DEF TimersWork, RequestWork
  <2>2. RequestWork' = RequestWork
    BY <1>1 DEF RequestWork
  <2> HIDE DEF e, next
  <2>3. EventWork(e.type) \in Nat /\ LabelWork(next) \in Nat /\ LabelWork(pc["main"]) = 0
    BY <1>1, <1>2, EventWeights, LabelWeights
  <2>4. QueueWork(Tail(event_q)) \in Nat
    BY <1>1, QueueWorkIsNat
  <2> QED
    BY <2>1, <2>2, <2>3, <2>4
<1>5. CASE event_q' = Tail(event_q) /\ Goto("main", next)
  <2>1. LabelWork(next) + Outside' < LabelWork(pc["main"]) + Outside
    BY <1>2, <1>3, <1>4, <1>5 DEF Outside
  <2> HIDE DEF next
  <2> QED
    BY <1>2, <1>5, <2>1, MoveWorks DEF Threads
<1>6. ASSUME NEW t \in {"audio", "shell"}, Pended(t),
             event_q' = Append(Tail(event_q), PendedEvent(t)),
             pc' = [pc EXCEPT !["main"] = next, ![t] = PendedNext(t)]
      PROVE  Work' < Work
  <2>1. PendedEvent(t) \in Events /\ EventWork(PendedEvent(t).type) = 2
    BY EventWeights DEF PendedEvent, Event, Events, EventTypes, Origins
  <2>2. QueueWork(event_q') = QueueWork(Tail(event_q)) + 2
    BY <1>1, <1>6, <2>1, AppendWork
  <2>3. LabelWork(PendedNext(t)) + 2 <= LabelWork(pc[t]) /\ LabelWork(PendedNext(t)) \in Nat
    BY <1>6, LabelWeights DEF Pended, PendedNext, At, AfterStart
  <2>4. /\ pc'["main"] = next /\ pc'[t] = PendedNext(t)
        /\ \A u \in {"audio", "shell"} \ {t} : pc'[u] = pc[u]
    BY <1>6 DEF TypeOK, PcOK, Threads
  <2>5. \A u \in Threads : LabelWork(pc[u]) \in Nat
    BY WorkTypes
  <2> HIDE DEF next, e
  <2>6. Work = LabelWork(pc["audio"]) + LabelWork(pc["shell"]) + EventWork(e.type)
                 + QueueWork(Tail(event_q)) + RequestWork + TimersWork
    BY <1>3, <1>4, <2>5 DEF Work, Threads
  <2>7. Work' = LabelWork(next) + LabelWork(pc'["audio"]) + LabelWork(pc'["shell"])
                  + QueueWork(Tail(event_q)) + 2 + RequestWork + TimersWork'
    <3>1. LabelWork(pc'["audio"]) \in Nat /\ LabelWork(pc'["shell"]) \in Nat
      BY <2>3, <2>4, <2>5 DEF Threads
    <3>2. Work' = (LabelWork(pc'["main"]) + LabelWork(pc'["audio"]) + LabelWork(pc'["shell"]))
                    + QueueWork(event_q') + RequestWork' + TimersWork'
      BY DEF Work
    <3> QED
      BY <1>4, <2>2, <2>4, <3>1, <3>2
  <2> QED
    BY <1>2, <1>4, <2>3, <2>4, <2>5, <2>6, <2>7 DEF Threads
<1> QED
  BY <1>5, <1>6 DEF Get

\* A timer that has run out pays for the event it puts.
LEMMA TimerWorks ==
    ASSUME TypeOK, TypeOK', CooldownExpired \/ WindowExpiry PROVE Work' < Work
<1>1. UNCHANGED pc /\ RequestWork' = RequestWork
  BY DEF CooldownExpired, WindowExpiry, audioVars, RequestWork
<1>2. /\ \A t \in Threads : LabelWork(pc[t]) \in Nat
      /\ QueueWork(event_q) \in Nat /\ RequestWork \in Nat /\ TimersWork \in Nat
  BY WorkTypes
<1>3. CASE CooldownExpired
  <2>1. QueueWork(event_q') = QueueWork(event_q) /\ TimersWork' < TimersWork /\ TimersWork' \in Nat
    BY <1>3 DEF CooldownExpired, TimersWork, otaVars
  <2> QED
    BY <1>1, <1>2, <2>1 DEF Work, Threads
<1>4. CASE WindowExpiry
  <2>1. TimersWork' + 5 = TimersWork /\ TimersWork' \in Nat
    BY <1>4 DEF WindowExpiry, TimersWork, gateVars
  <2>2. Event("OTA_CANCEL") \in Events /\ EventWork(Event("OTA_CANCEL").type) = 4
    BY EventWeights DEF Event, Events, EventTypes, Origins
  <2>3. QueueWork(event_q') \in {QueueWork(event_q), QueueWork(event_q) + 4}
    <3>1. event_q' = event_q \/ event_q' = Append(event_q, Event("OTA_CANCEL"))
      BY <1>4 DEF WindowExpiry, PutNoWait
    <3>2. QueueWork(Append(event_q, Event("OTA_CANCEL"))) = QueueWork(event_q) + 4
      BY <2>2, AppendWork DEF TypeOK
    <3> QED
      BY <3>1, <3>2
  <2>4. QueueWork(event_q') + TimersWork' < QueueWork(event_q) + TimersWork
    <3>1. \A q, r, a, b \in Nat : a + 5 = b /\ r \in {q, q + 4} => r + a < q + b
      OBVIOUS
    <3>2. QueueWork(event_q') \in Nat
      BY <1>2, <2>3
    <3> QED
      BY <1>2, <2>1, <2>3, <3>1, <3>2
  <2>5. QueueWork(event_q') \in Nat
    BY <1>2, <2>3
  <2> QED
    BY <1>1, <1>2, <2>1, <2>4, <2>5 DEF Work, Threads
<1> QED
  BY <1>3, <1>4

\* Nothing is going on, and nothing will by itself.
Quiet ==
    /\ \A t \in Threads : At(t, Rest(t))
    /\ event_q = <<>> /\ g_play_q = 0
    /\ ~cooldown_timer /\ ~window_timer

LEMMA WorkedOff == ASSUME TypeOK PROVE Work = 0 <=> Quiet
<1>1. \A t \in Threads : LabelWork(pc[t]) = 0 <=> At(t, Rest(t))
  BY DEF LabelWork, TypeOK, PcOK, MainPcs, BootSteps, OtaSteps, AudioPcs, PostSteps, ShellPcs,
         Threads, Rest, At
<1>2. QueueWork(event_q) = 0 <=> event_q = <<>>
  <2>1. CASE event_q = <<>>
    <3>1. PICK f : Sums(f, event_q) /\ QueueWork(event_q) = f[Len(event_q)]
      BY SumsExist DEF TypeOK
    <3> QED
      BY <2>1, <3>1 DEF Sums
  <2>2. CASE event_q # <<>>
    <3>1. Head(event_q) \in Events /\ Tail(event_q) \in Seq(Events)
      BY <2>2 DEF TypeOK
    <3>2. QueueWork(event_q) = EventWork(Head(event_q).type) + QueueWork(Tail(event_q))
      BY <2>2, TailWork DEF TypeOK
    <3>3. EventWork(Head(event_q).type) \in 2..16 /\ QueueWork(Tail(event_q)) \in Nat
      BY <3>1, EventWeights, QueueWorkIsNat
    <3>4. QueueWork(event_q) # 0
      BY <3>2, <3>3
    <3> QED
      BY <2>2, <3>4
  <2> QED
    BY <2>1, <2>2
<1>3. RequestWork = 0 <=> g_play_q = 0
  BY DEF RequestWork, TypeOK
<1>4. TimersWork = 0 <=> ~cooldown_timer /\ ~window_timer
  BY DEF TimersWork
<1>5. /\ QueueWork(event_q) \in Nat /\ RequestWork \in Nat /\ TimersWork \in Nat
      /\ \A t \in Threads : LabelWork(pc[t]) \in Nat
  BY WorkTypes
<1>6. Work = 0 <=> /\ QueueWork(event_q) = 0 /\ RequestWork = 0 /\ TimersWork = 0
                   /\ \A t \in Threads : LabelWork(pc[t]) = 0
  <2>2. (\A t \in Threads : LabelWork(pc[t]) = 0)
          <=> LabelWork(pc["main"]) = 0 /\ LabelWork(pc["audio"]) = 0 /\ LabelWork(pc["shell"]) = 0
    BY DEF Threads
  <2>3. /\ LabelWork(pc["main"]) \in Nat /\ LabelWork(pc["audio"]) \in Nat
        /\ LabelWork(pc["shell"]) \in Nat
    BY <1>5 DEF Threads
  <2> DEFINE a == LabelWork(pc["main"])
             b == LabelWork(pc["audio"])
             c == LabelWork(pc["shell"])
             q == QueueWork(event_q)
             r == RequestWork
             w == TimersWork
  <2>4. Work = 0 <=> a = 0 /\ b = 0 /\ c = 0 /\ q = 0 /\ r = 0 /\ w = 0
    <3>1. Work = (a + b + c) + q + r + w
      BY DEF Work
    <3>2. a \in Nat /\ b \in Nat /\ c \in Nat /\ q \in Nat /\ r \in Nat /\ w \in Nat
      BY <1>5, <2>3
    <3> HIDE DEF a, b, c, q, r, w
    <3> QED
      BY <3>1, <3>2
  <2> QED
    BY <2>2, <2>4, Zenon
<1> QED
  BY <1>1, <1>2, <1>3, <1>4, <1>6 DEF Quiet

\* Whatever the box was set off by makes it do a finite number of things: no
\* sequence of sounds, events, timers and windows feeds itself.  With the fair
\* threads of FairSpec the box is at rest once the world leaves it alone.
THEOREM BoxQuietsDown == Spec => QuietsDown /\ [](Work \in Nat /\ (Work = 0 <=> Quiet))
<1>1. TypeOK /\ TypeOK' /\ [Next]_vars
        => [~(Produce \/ ShellCommand \/ SmpStep) => Work' < Work]_vars
  <2> SUFFICES ASSUME TypeOK, TypeOK', Next, ~(Produce \/ ShellCommand \/ SmpStep)
               PROVE  Work' < Work
    OBVIOUS
  <2> QED
    BY HandlerWorks, SessionWorks, GetWorks, TimerWorks
    DEF Next, MainStep, AudioStep, ShellStep
<1>2. TypeOK => Work \in Nat /\ (Work = 0 <=> Quiet)
  BY WorkTypes, WorkedOff DEF Threads
<1> QED
  BY <1>1, <1>2, TypeCorrect, PTL DEF Spec, QuietsDown
=============================================================================
