-------------------------------- MODULE Mesh --------------------------------
(***************************************************************************)
(* A fleet of boxes flooding messages over the air (app/src/ble.c,         *)
(* broadcast_log_core.c): a box broadcasts an assignment of its own, hears *)
(* its neighbours' bursts and the Mac's advertisement, tells duplicates by *)
(* a short log, acts on what is new and relays it with one hop less to go. *)
(*                                                                         *)
(* A burst is heard by any neighbours or none, any number of times while   *)
(* it is on air, so losses and duplicates need no action of their own, nor *)
(* does a box that has stopped listening.  A box does not hear while it    *)
(* sends.  Radio has the steps of a transmission; here it is one.          *)
(***************************************************************************)
EXTENDS Integers, Sequences, FiniteSets, Functions

CONSTANTS
    Boxes,     \* the boxes, by their ids
    Links,     \* the pairs <<sender, receiver>> in radio range
    RelayTtl,  \* box -> g_relay_ttl, its hop limit, not changed while messages fly
    LogSize,   \* BROADCAST_LOG_SIZE
    Mac,       \* MESSAGE_EXT_ORIGINATOR, the originator of the Mac's messages
    None,      \* no packet, no message
    MaxSent    \* bound on the messages composed, far below the wrap of a seq

ASSUME LinksAssumption == Links \subseteq Boxes \X Boxes
ASSUME RelayTtlAssumption == RelayTtl \in [Boxes -> Nat]
ASSUME LogAssumption == LogSize \in Nat \ {0}
ASSUME MacAssumption == Mac \notin Boxes
ASSUME BoundAssumption == MaxSent \in Nat

VARIABLES
    g_seq,          \* box -> the seq of its next broadcast
    log,            \* box -> the <<originator, seq>> pairs recorded, oldest first
    g_relay_buf,    \* box -> the packet to relay
    g_relay_work,   \* box -> the relay work is pending
    txq,            \* box -> the relay work has begun
    air,            \* box -> the packet its burst carries, or None
    last_uuid,      \* box -> the seq last gatewayed, within MESSAGE_DEBOUNCE_MS
    mac,            \* the message the Mac advertises, or None
    mac_seq,        \* the seq of the Mac's next message
    acted,          \* history: box -> the messages it has acted on or composed
    again           \* history: the boxes that acted on such a message again

txVars == <<g_relay_buf, g_relay_work, txq, air>>
macVars == <<mac, mac_seq>>
history == <<acted, again>>
vars == <<g_seq, log, txVars, last_uuid, macVars, history>>

\* A message is its composer, its seq and its command.
Messages == [from : Boxes \cup {Mac}, seq : Nat, cmd : {"play", "arm"}]

\* A packet adds the relay header.  The hops it has been relayed are history,
\* counted to one past the largest limit.
Packets == [msg : Messages, originator : Boxes \cup {Mac}, ttl : Nat, hops : Nat]
Packet(m, originator, ttl, hops) ==
    [msg |-> m, originator |-> originator, ttl |-> ttl, hops |-> hops]

\* Among the types: a log never outgrows its ring.
TypeOK ==
    /\ g_seq \in [Boxes -> Nat]
    /\ log \in [Boxes -> Seq((Boxes \cup {Mac}) \X Nat)]
    /\ \A b \in Boxes : Len(log[b]) <= LogSize
    /\ g_relay_buf \in [Boxes -> Packets \cup {None}]
    /\ g_relay_work \in [Boxes -> BOOLEAN]
    /\ txq \in [Boxes -> BOOLEAN]
    /\ air \in [Boxes -> Packets \cup {None}]
    /\ last_uuid \in [Boxes -> Nat \cup {None}]
    /\ mac \in Messages \cup {None}
    /\ mac_seq \in Nat
    /\ acted \in [Boxes -> SUBSET Messages]
    /\ again \subseteq Boxes

Init ==
    /\ g_seq = [b \in Boxes |-> 0]
    /\ log = [b \in Boxes |-> <<>>]
    /\ g_relay_buf = [b \in Boxes |-> None]
    /\ g_relay_work = [b \in Boxes |-> FALSE]
    /\ txq = [b \in Boxes |-> FALSE]
    /\ air = [b \in Boxes |-> None]
    /\ last_uuid = [b \in Boxes |-> None]
    /\ mac = None /\ mac_seq = 0
    /\ acted = [b \in Boxes |-> {}]
    /\ again = {}

-----------------------------------------------------------------------------
(* The broadcast log: a ring whose oldest entry makes room for a new one *)

Recorded(l, entry) == Append(IF Len(l) < LogSize THEN l ELSE Tail(l), entry)

Duplicate(b, entry) == \E i \in DOMAIN log[b] : log[b][i] = entry

Record(b, entry) == log' = [log EXCEPT ![b] = Recorded(log[b], entry)]

-----------------------------------------------------------------------------
(* Sending *)

\* Messages composed so far, in the fleet and on the Mac.
Sent == FoldFunction(+, mac_seq, g_seq)

\* ble_broadcast_message(): preempts a burst on air, and may fail to start.
Broadcast(b) ==
    /\ Sent < MaxSent
    /\ LET m == [from |-> b, seq |-> g_seq[b], cmd |-> "play"] IN
         /\ g_seq' = [g_seq EXCEPT ![b] = @ + 1]
         /\ Record(b, <<b, g_seq[b]>>)
         /\ \/ air' = [air EXCEPT ![b] = Packet(m, b, RelayTtl[b], 0)]
            \/ air' = [air EXCEPT ![b] = None]
         /\ acted' = [acted EXCEPT ![b] = @ \cup {m}]
    /\ UNCHANGED <<g_relay_buf, g_relay_work, txq, last_uuid, macVars, again>>

\* schedule_relay(): a relay still pending is superseded.
ScheduleRelay(b, p) ==
    /\ g_relay_buf' = [g_relay_buf EXCEPT ![b] = p]
    /\ g_relay_work' = [g_relay_work EXCEPT ![b] = TRUE]
    /\ UNCHANGED <<txq, air>>

\* The work queue takes the item off; it may be submitted again from here on.
BeginRelay(b) ==
    /\ g_relay_work[b] /\ ~txq[b]
    /\ g_relay_work' = [g_relay_work EXCEPT ![b] = FALSE]
    /\ txq' = [txq EXCEPT ![b] = TRUE]
    /\ UNCHANGED <<g_seq, log, g_relay_buf, air, last_uuid, macVars, history>>

\* Mutant: a relay skipped or failed is submitted again.
NotSent_Retried(b) == TRUE

\* Whether the work is pending after a relay skipped or failed: best effort.
NotSent(b) == g_relay_work[b]

\* relay_work_handler(): skipped while a burst is on air, and a burst may not
\* start.  What is left in the buffer is read again only if it is pending.
Relay(b) ==
    /\ txq[b]
    /\ txq' = [txq EXCEPT ![b] = FALSE]
    /\ \/ air[b] = None /\ air' = [air EXCEPT ![b] = g_relay_buf[b]] /\ UNCHANGED g_relay_work
       \/ UNCHANGED air /\ g_relay_work' = [g_relay_work EXCEPT ![b] = NotSent(b)]
    /\ g_relay_buf' = [g_relay_buf EXCEPT ![b] = IF g_relay_work'[b] THEN @ ELSE None]
    /\ UNCHANGED <<g_seq, log, last_uuid, macVars, history>>

BurstEnds(b) ==
    /\ air[b] # None
    /\ air' = [air EXCEPT ![b] = None]
    /\ UNCHANGED <<g_seq, log, g_relay_buf, g_relay_work, txq, last_uuid,
                   macVars, history>>

-----------------------------------------------------------------------------
(* Receiving *)

\* dedup_and_act(): new to the log, recorded, and acted on.  What a new
\* message asks of the main loop is an event (EventLoop).
DedupAndAct(b, originator, m) ==
    /\ ~Duplicate(b, <<originator, m.seq>>)
    /\ Record(b, <<originator, m.seq>>)
    /\ acted' = [acted EXCEPT ![b] = @ \cup {m}]
    /\ again' = IF m \in acted[b] THEN again \cup {b} ELSE again

\* Mutant: an arm command is propagated like any other.
Propagates_Always(m) == TRUE

Propagates(m) == m.cmd # "arm"

Clamped(b, ttl) == IF ttl < RelayTtl[b] THEN ttl ELSE RelayTtl[b]

\* Mutant: a relay does not use up a hop.
NextTtl_Same(ttl) == ttl

NextTtl(ttl) == ttl - 1

Further(hops) == IF \E b \in Boxes : hops <= RelayTtl[b] THEN hops + 1 ELSE hops

\* handle_mfg_data(): a neighbour's burst.
Hear(b, sender) ==
    /\ <<sender, b>> \in Links
    /\ air[b] = None /\ air[sender] # None
    /\ LET p == air[sender]
           ttl == Clamped(b, p.ttl)
       IN  /\ DedupAndAct(b, p.originator, p.msg)
           /\ IF ttl > 0 /\ Propagates(p.msg)
                THEN ScheduleRelay(b, Packet(p.msg, p.originator, NextTtl(ttl), Further(p.hops)))
                ELSE UNCHANGED txVars
    /\ UNCHANGED <<g_seq, last_uuid, macVars>>

\* Mutant: a gateway signs the Mac's message with its own id.
GatewayOriginator_Own(b) == b

GatewayOriginator(b) == Mac

\* handle_message_uuid(): the Mac's advertisement, which stays on air.
HearMac(b) ==
    /\ mac # None
    /\ air[b] = None
    /\ last_uuid[b] # mac.seq
    /\ DedupAndAct(b, Mac, mac)
    /\ last_uuid' = [last_uuid EXCEPT ![b] = mac.seq]
    /\ IF Propagates(mac)
         THEN ScheduleRelay(b, Packet(mac, GatewayOriginator(b), RelayTtl[b], 0))
         ELSE UNCHANGED txVars
    /\ UNCHANGED <<g_seq, macVars>>

\* MESSAGE_DEBOUNCE_MS have passed.
DebounceExpires(b) ==
    /\ last_uuid[b] # None
    /\ last_uuid' = [last_uuid EXCEPT ![b] = None]
    /\ UNCHANGED <<g_seq, log, txVars, macVars, history>>

-----------------------------------------------------------------------------
(* The Mac *)

MacStart ==
    /\ mac = None /\ Sent < MaxSent
    /\ \E cmd \in {"play", "arm"} : mac' = [from |-> Mac, seq |-> mac_seq, cmd |-> cmd]
    /\ mac_seq' = mac_seq + 1
    /\ UNCHANGED <<g_seq, log, txVars, last_uuid, history>>

MacStop ==
    /\ mac # None
    /\ mac' = None
    /\ UNCHANGED <<g_seq, log, txVars, last_uuid, mac_seq, history>>

-----------------------------------------------------------------------------
Next ==
    \/ \E b \in Boxes : Broadcast(b) \/ BeginRelay(b) \/ Relay(b) \/ BurstEnds(b)
    \/ \E b, sender \in Boxes : Hear(b, sender)
    \/ \E b \in Boxes : HearMac(b) \/ DebounceExpires(b)
    \/ MacStart \/ MacStop

\* Bursts end and work queues run.
Fairness ==
    \A b \in Boxes : WF_vars(BeginRelay(b)) /\ WF_vars(Relay(b)) /\ WF_vars(BurstEnds(b))

Spec == Init /\ [][Next]_vars
FairSpec == Spec /\ Fairness
-----------------------------------------------------------------------------
(* Properties *)

\* While a box has met no more messages than its log has room for, it acts on
\* none twice and on none of its own, whatever way and however often they come
\* back, and whoever gatewayed them ("a burst of broadcasts from every device
\* can't evict entries whose packets are still being relayed").
ActsOnce == \A b \in again : Cardinality(acted[b]) > LogSize

\* A box never sends a packet with more hops to go than its own limit
\* ("clamp it to our own configured limit"), and no packet travels further
\* than the largest limit in the fleet.
FloodBounded ==
    \A b \in Boxes : \A p \in {air[b], g_relay_buf[b]} \ {None} :
        /\ p.ttl <= RelayTtl[b]
        /\ \E c \in Boxes : p.hops + p.ttl <= RelayTtl[c]

\* An arm command is acted on where it is heard and is never sent on ("OTA
\* commands must NOT be relayed/gatewayed").
ArmStaysLocal ==
    \A b \in Boxes : \A p \in {air[b], g_relay_buf[b]} \ {None} : p.msg.cmd # "arm"

\* Once boxes and the Mac are silent the flood ends, even with more messages
\* in it than the logs can tell apart: no message circles for ever.
Quiet == \A b \in Boxes : air[b] = None /\ ~g_relay_work[b] /\ ~txq[b]
FloodEnds == <>[](mac = None) => <>[]Quiet
=============================================================================
