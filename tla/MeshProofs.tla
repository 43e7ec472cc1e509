----------------------------- MODULE MeshProofs -----------------------------
(***************************************************************************)
(* Theorems about Mesh, for every fleet, every radio range, every          *)
(* assignment of hop limits and every size of the log.                     *)
(***************************************************************************)
EXTENDS Mesh, FiniteSetTheorems, TLAPS

\* What holds of a packet in box b's hands: its counts are numbers, it is no
\* arm command, its hops to go are within b's limit, and all its hops within
\* the limit of some box.
Sound(b, p) ==
    /\ p.ttl \in Nat /\ p.hops \in Nat
    /\ p.msg.cmd # "arm"
    /\ p.ttl <= RelayTtl[b]
    /\ \E c \in Boxes : p.hops + p.ttl <= RelayTtl[c]

PacketInv ==
    /\ DOMAIN air = Boxes /\ DOMAIN g_relay_buf = Boxes
    /\ \A b \in Boxes : air[b] # None => Sound(b, air[b])
    /\ \A b \in Boxes : g_relay_buf[b] # None => Sound(b, g_relay_buf[b])

-----------------------------------------------------------------------------
LEMMA PacketInit == Init => PacketInv
  BY DEF Init, PacketInv

\* A packet that starts at box b with b's own limit is sound.
LEMMA FreshSound ==
    ASSUME NEW b \in Boxes, NEW m, NEW originator, m.cmd # "arm"
    PROVE  Sound(b, Packet(m, originator, RelayTtl[b], 0))
<1>1. RelayTtl[b] \in Nat
  BY RelayTtlAssumption
<1> QED
  BY <1>1 DEF Sound, Packet

\* A sound packet stays sound in the hands of the box that relays it: what it
\* gains in hops it loses in ttl.
LEMMA RelayedSound ==
    ASSUME NEW b \in Boxes, NEW sender \in Boxes, NEW p, Sound(sender, p),
           Clamped(b, p.ttl) > 0
    PROVE  Sound(b, Packet(p.msg, p.originator, NextTtl(Clamped(b, p.ttl)), Further(p.hops)))
<1> DEFINE ttl == Clamped(b, p.ttl)
<1>1. RelayTtl \in [Boxes -> Nat]
  BY RelayTtlAssumption
<1>2. ttl \in Nat /\ ttl <= p.ttl /\ ttl <= RelayTtl[b]
  BY <1>1 DEF Clamped, Sound
<1>3. NextTtl(ttl) \in Nat /\ NextTtl(ttl) = ttl - 1
  BY <1>2 DEF NextTtl
<1>4. Further(p.hops) \in Nat /\ Further(p.hops) <= p.hops + 1
  BY DEF Further, Sound
<1>5. PICK c \in Boxes : p.hops + p.ttl <= RelayTtl[c]
  BY DEF Sound
<1>6. Further(p.hops) + NextTtl(ttl) <= RelayTtl[c]
  <2>1. p.hops \in Nat /\ p.ttl \in Nat /\ RelayTtl[c] \in Nat
    BY <1>1 DEF Sound
  <2> HIDE DEF ttl
  <2> QED
    BY <1>2, <1>3, <1>4, <1>5, <2>1
<1>7. NextTtl(ttl) <= RelayTtl[b]
  <2>1. RelayTtl[b] \in Nat
    BY <1>1
  <2> HIDE DEF ttl
  <2> QED
    BY <1>2, <1>3, <2>1
<1> HIDE DEF ttl
<1> QED
  BY <1>3, <1>4, <1>6, <1>7 DEF Sound, Packet, ttl

\* A relay scheduled with a sound packet keeps the invariant.
LEMMA ScheduleOK ==
    ASSUME PacketInv, NEW b \in Boxes, NEW p, Sound(b, p), ScheduleRelay(b, p)
    PROVE  PacketInv'
  BY DEF PacketInv, ScheduleRelay, Sound

LEMMA PacketStep == PacketInv /\ [Next]_vars => PacketInv'
<1> SUFFICES ASSUME PacketInv, [Next]_vars PROVE PacketInv'
  OBVIOUS
<1>1. ASSUME NEW b \in Boxes, Broadcast(b) PROVE PacketInv'
  <2> DEFINE m == [from |-> b, seq |-> g_seq[b], cmd |-> "play"]
  <2>1. Sound(b, Packet(m, b, RelayTtl[b], 0))
    BY FreshSound
  <2>2. /\ UNCHANGED g_relay_buf
        /\ \/ air' = [air EXCEPT ![b] = Packet(m, b, RelayTtl[b], 0)]
           \/ air' = [air EXCEPT ![b] = None]
    BY <1>1 DEF Broadcast
  <2> HIDE DEF m
  <2> QED
    BY <2>1, <2>2 DEF PacketInv, Sound
<1>2. ASSUME NEW b \in Boxes, BeginRelay(b) PROVE PacketInv'
  BY <1>2 DEF BeginRelay, PacketInv, Sound
<1>3. ASSUME NEW b \in Boxes, Relay(b) PROVE PacketInv'
  BY <1>3 DEF Relay, PacketInv, Sound
<1>4. ASSUME NEW b \in Boxes, BurstEnds(b) PROVE PacketInv'
  BY <1>4 DEF BurstEnds, PacketInv, Sound
<1>5. ASSUME NEW b \in Boxes, NEW sender \in Boxes, Hear(b, sender) PROVE PacketInv'
  <2> DEFINE p == air[sender]
             ttl == Clamped(b, p.ttl)
             relayed == Packet(p.msg, p.originator, NextTtl(ttl), Further(p.hops))
  <2>1. Sound(sender, p)
    BY <1>5 DEF Hear, PacketInv
  <2>2. CASE ttl > 0 /\ Propagates(p.msg)
    <3>1. ScheduleRelay(b, relayed)
      BY <1>5, <2>2 DEF Hear
    <3>2. Sound(b, relayed)
      BY <2>1, <2>2, RelayedSound
    <3> QED
      BY <3>1, <3>2, ScheduleOK
  <2>3. CASE ~(ttl > 0 /\ Propagates(p.msg))
    <3>1. UNCHANGED txVars
      BY <1>5, <2>3 DEF Hear
    <3> QED
      BY <3>1 DEF txVars, PacketInv, Sound
  <2> QED
    BY <2>2, <2>3
<1>6. ASSUME NEW b \in Boxes, HearMac(b) PROVE PacketInv'
  <2>1. CASE Propagates(mac)
    <3>1. ScheduleRelay(b, Packet(mac, GatewayOriginator(b), RelayTtl[b], 0))
      BY <1>6, <2>1 DEF HearMac
    <3>2. Sound(b, Packet(mac, GatewayOriginator(b), RelayTtl[b], 0))
      BY <2>1, FreshSound DEF Propagates
    <3> QED
      BY <3>1, <3>2, ScheduleOK
  <2>2. CASE ~Propagates(mac)
    <3>1. UNCHANGED txVars
      BY <1>6, <2>2 DEF HearMac
    <3> QED
      BY <3>1 DEF txVars, PacketInv, Sound
  <2> QED
    BY <2>1, <2>2
<1>7. CASE UNCHANGED txVars
  BY <1>7 DEF txVars, PacketInv, Sound
<1>8. ASSUME NEW b \in Boxes, DebounceExpires(b) PROVE PacketInv'
  BY <1>7, <1>8 DEF DebounceExpires
<1>9. CASE MacStart \/ MacStop
  BY <1>7, <1>9 DEF MacStart, MacStop
<1>10. CASE UNCHANGED vars
  BY <1>7, <1>10 DEF vars
<1> QED
  BY <1>1, <1>2, <1>3, <1>4, <1>5, <1>6, <1>8, <1>9, <1>10 DEF Next

LEMMA PacketCorrect == Spec => []PacketInv
<1> QED
  BY PacketInit, PacketStep, PTL DEF Spec

\* However a fleet is configured and wherever its boxes stand, no box sends
\* beyond its own limit and no packet travels further than the largest one
\* (handle_mfg_data()'s clamp and its ttl - 1).
THEOREM HopsBounded == Spec => []FloodBounded
<1>1. PacketInv => FloodBounded
  BY DEF PacketInv, FloodBounded, Sound
<1> QED
  BY <1>1, PacketCorrect, PTL

\* No arm command is ever in a packet (act_on_message()'s result, looked at
\* on both ways in).
THEOREM ArmsNeverSent == Spec => []ArmStaysLocal
<1>1. PacketInv => ArmStaysLocal
  BY DEF PacketInv, ArmStaysLocal, Sound
<1> QED
  BY <1>1, PacketCorrect, PTL
-----------------------------------------------------------------------------
(* Types, and acting once *)

\* A message somebody has composed: a box's seq is below the box's next one.
Composed(m) == m \in Messages /\ (m.from \in Boxes => m.seq < g_seq[m.from])

\* A packet carries a composed message and names its composer.
Carries(p) == p \in Packets /\ Composed(p.msg) /\ p.originator = p.msg.from

CarryInv ==
    /\ \A b \in Boxes : air[b] # None => Carries(air[b])
    /\ \A b \in Boxes : g_relay_buf[b] # None => Carries(g_relay_buf[b])
    /\ mac # None => mac.from = Mac
    /\ \A b \in Boxes : \A m \in acted[b] : Composed(m)

Entries == (Boxes \cup {Mac}) \X Nat
EntryOf(m) == <<m.from, m.seq>>
Logged(l, e) == \E i \in DOMAIN l : l[i] = e

\* As long as a box has met no more messages than its log has room for, the log
\* is the messages it acted on, each recorded once.
Remembers(b) ==
    /\ IsFiniteSet(acted[b])
    /\ b \in again => Cardinality(acted[b]) > LogSize
    /\ b \notin again /\ Cardinality(acted[b]) <= LogSize =>
         /\ Len(log[b]) = Cardinality(acted[b])
         /\ \A m \in acted[b] : Logged(log[b], EntryOf(m))

OnceInv == TypeOK /\ CarryInv /\ \A b \in Boxes : Remembers(b)

LEMMA OnceInit == Init => OnceInv
<1> SUFFICES ASSUME Init PROVE OnceInv
  OBVIOUS
<1>1. LogSize \in Nat /\ LogSize > 0
  BY LogAssumption
<1>2. \A b \in Boxes : log[b] = <<>> /\ log[b] \in Seq(Entries) /\ Len(log[b]) = 0
  BY DEF Init, Entries
<1>3. TypeOK
  BY <1>1, <1>2 DEF Init, TypeOK, Entries
<1>4. CarryInv
  BY DEF Init, CarryInv
<1>5. \A b \in Boxes : Remembers(b)
  BY <1>2, FS_EmptySet DEF Init, Remembers
<1> QED
  BY <1>3, <1>4, <1>5 DEF OnceInv

\* broadcast_log_record(): the ring stays a ring, has the new entry, and loses
\* none while it has room.
LEMMA RecordedLog ==
    ASSUME NEW l \in Seq(Entries), Len(l) <= LogSize, NEW e \in Entries
    PROVE  /\ Recorded(l, e) \in Seq(Entries) /\ Len(Recorded(l, e)) <= LogSize
           /\ Logged(Recorded(l, e), e)
           /\ Len(l) < LogSize =>
                /\ Len(Recorded(l, e)) = Len(l) + 1
                /\ \A f : Logged(l, f) => Logged(Recorded(l, e), f)
<1>1. LogSize \in Nat /\ LogSize > 0
  BY LogAssumption
<1>2. CASE Len(l) < LogSize
  <2>1. Recorded(l, e) = Append(l, e)
    BY <1>2 DEF Recorded
  <2>2. Append(l, e)[Len(l) + 1] = e /\ Len(l) + 1 \in DOMAIN Append(l, e)
    OBVIOUS
  <2>3. \A i \in DOMAIN l : i \in DOMAIN Append(l, e) /\ Append(l, e)[i] = l[i]
    OBVIOUS
  <2> QED
    BY <1>1, <1>2, <2>1, <2>2, <2>3 DEF Logged
<1>3. CASE ~(Len(l) < LogSize)
  <2>1. Recorded(l, e) = Append(Tail(l), e) /\ l # <<>>
    BY <1>1, <1>3 DEF Recorded
  <2>2. Tail(l) \in Seq(Entries) /\ Len(Tail(l)) = Len(l) - 1
    BY <2>1
  <2>3. /\ Append(Tail(l), e) \in Seq(Entries) /\ Len(Append(Tail(l), e)) = Len(l)
        /\ Append(Tail(l), e)[Len(l)] = e /\ Len(l) \in DOMAIN Append(Tail(l), e)
    BY <2>1, <2>2
  <2> QED
    BY <1>3, <2>1, <2>3 DEF Logged
<1> QED
  BY <1>2, <1>3

\* A box that acts on a message its log does not have keeps its memory: while
\* there was room, a message acted on before would still be in the log.
LEMMA ActedOn ==
    ASSUME OnceInv, NEW b \in Boxes, NEW m \in Messages,
           ~Duplicate(b, EntryOf(m)) \/ m \notin acted[b], Record(b, EntryOf(m)),
           acted' = [acted EXCEPT ![b] = @ \cup {m}],
           again' = IF m \in acted[b] THEN again \cup {b} ELSE again
    PROVE  /\ log' \in [Boxes -> Seq(Entries)] /\ \A c \in Boxes : Len(log'[c]) <= LogSize
           /\ acted' \in [Boxes -> SUBSET Messages] /\ again' \subseteq Boxes
           /\ \A c \in Boxes : Remembers(c)'
<1>1. /\ log \in [Boxes -> Seq(Entries)] /\ \A c \in Boxes : Len(log[c]) <= LogSize
      /\ acted \in [Boxes -> SUBSET Messages] /\ again \subseteq Boxes
      /\ \A c \in Boxes : Remembers(c)
  BY DEF OnceInv, TypeOK, Entries
<1>2. EntryOf(m) \in Entries
  BY DEF EntryOf, Entries, Messages
<1>3. log' = [log EXCEPT ![b] = Recorded(log[b], EntryOf(m))]
  BY DEF Record
<1>4. /\ Recorded(log[b], EntryOf(m)) \in Seq(Entries)
      /\ Len(Recorded(log[b], EntryOf(m))) <= LogSize
      /\ Logged(Recorded(log[b], EntryOf(m)), EntryOf(m))
      /\ Len(log[b]) < LogSize =>
           /\ Len(Recorded(log[b], EntryOf(m))) = Len(log[b]) + 1
           /\ \A f : Logged(log[b], f) => Logged(Recorded(log[b], EntryOf(m)), f)
  <2> HIDE DEF OnceInv
  <2> QED
    BY <1>1, <1>2, RecordedLog
<1>5. LogSize \in Nat
  BY LogAssumption
<1>6. IsFiniteSet(acted[b]) /\ Cardinality(acted[b]) \in Nat
  BY <1>1, FS_CardinalityType DEF Remembers
<1>7. /\ IsFiniteSet(acted[b] \cup {m})
      /\ Cardinality(acted[b] \cup {m}) =
           IF m \in acted[b] THEN Cardinality(acted[b]) ELSE Cardinality(acted[b]) + 1
  BY <1>6, FS_AddElement
<1>8. ASSUME b \notin again, Cardinality(acted[b]) <= LogSize
      PROVE  m \notin acted[b]
  <2>1. m \in acted[b] => Logged(log[b], EntryOf(m))
    BY <1>1, <1>8 DEF Remembers
  <2> QED
    BY <2>1 DEF Duplicate, Logged
<1>9. /\ log'[b] = Recorded(log[b], EntryOf(m)) /\ acted'[b] = acted[b] \cup {m}
      /\ \A c \in Boxes \ {b} :
           log'[c] = log[c] /\ acted'[c] = acted[c] /\ (c \in again' <=> c \in again)
  BY <1>1, <1>3
<1>10. Remembers(b)'
  <2>1. ASSUME b \in again' PROVE Cardinality(acted[b] \cup {m}) > LogSize
    <3>1. Cardinality(acted[b]) > LogSize
      <4>1. CASE b \in again
        BY <1>1, <4>1 DEF Remembers
      <4>2. CASE b \notin again
        BY <1>5, <1>6, <1>8, <2>1, <4>2
      <4> QED
        BY <4>1, <4>2
    <3> QED
      BY <1>5, <1>6, <1>7, <3>1
  <2>2. ASSUME b \notin again', Cardinality(acted[b] \cup {m}) <= LogSize
        PROVE  /\ Len(log'[b]) = Cardinality(acted[b] \cup {m})
               /\ \A n \in acted[b] \cup {m} : Logged(log'[b], EntryOf(n))
    <3>1. b \notin again /\ Cardinality(acted[b]) <= LogSize
      BY <1>5, <1>6, <1>7, <2>2
    <3>2. m \notin acted[b]
      BY <1>8, <3>1
    <3>3. /\ Len(log[b]) = Cardinality(acted[b])
          /\ \A n \in acted[b] : Logged(log[b], EntryOf(n))
      BY <1>1, <3>1 DEF Remembers
    <3>4. Len(log[b]) < LogSize /\ Cardinality(acted[b] \cup {m}) = Cardinality(acted[b]) + 1
      BY <1>5, <1>6, <1>7, <2>2, <3>2, <3>3
    <3>5. /\ Len(log'[b]) = Len(log[b]) + 1
          /\ \A f : Logged(log[b], f) => Logged(log'[b], f)
          /\ Logged(log'[b], EntryOf(m))
      BY <1>4, <1>9, <3>4
    <3> QED
      BY <3>3, <3>4, <3>5
  <2> QED
    BY <1>7, <1>9, <2>1, <2>2 DEF Remembers
<1>11. \A c \in Boxes \ {b} : Remembers(c)'
  BY <1>1, <1>9 DEF Remembers
<1> QED
  BY <1>1, <1>3, <1>4, <1>9, <1>10, <1>11

\* Of a step that leaves the log and what was acted on alone, only the packets
\* and the debounce are left to look at.
LEMMA QuietStep ==
    ASSUME OnceInv, UNCHANGED <<g_seq, log, acted, again>>,
           air' \in [Boxes -> Packets \cup {None}],
           g_relay_buf' \in [Boxes -> Packets \cup {None}],
           g_relay_work' \in [Boxes -> BOOLEAN], txq' \in [Boxes -> BOOLEAN],
           last_uuid' \in [Boxes -> Nat \cup {None}],
           mac' \in Messages \cup {None}, mac_seq' \in Nat, mac' # None => mac'.from = Mac,
           \A b \in Boxes : air'[b] # None =>
             \E c \in Boxes : air'[b] \in {air[c], g_relay_buf[c]},
           \A b \in Boxes : g_relay_buf'[b] # None => g_relay_buf'[b] = g_relay_buf[b]
    PROVE  OnceInv'
<1>1. TypeOK'
  BY DEF OnceInv, TypeOK
<1>2. CarryInv'
  BY DEF OnceInv, CarryInv, Carries, Composed
<1>3. \A b \in Boxes : Remembers(b)'
  BY DEF OnceInv, Remembers
<1> QED
  BY <1>1, <1>2, <1>3 DEF OnceInv

LEMMA BroadcastOnce == ASSUME OnceInv, NEW b \in Boxes, Broadcast(b) PROVE OnceInv'
<1>a. PICK m : m = [from |-> b, seq |-> g_seq[b], cmd |-> "play"]
  OBVIOUS
<1>b. PICK p : p = Packet(m, b, RelayTtl[b], 0)
  OBVIOUS
<1>1. TypeOK /\ CarryInv
  BY DEF OnceInv
<1>2. /\ g_seq' = [g_seq EXCEPT ![b] = @ + 1]
      /\ Record(b, EntryOf(m))
      /\ \/ air' = [air EXCEPT ![b] = p]
         \/ air' = [air EXCEPT ![b] = None]
      /\ acted' = [acted EXCEPT ![b] = @ \cup {m}]
      /\ UNCHANGED <<g_relay_buf, g_relay_work, txq, last_uuid, mac, mac_seq, again>>
  BY <1>a, <1>b DEF Broadcast, EntryOf, macVars
<1>3. m \in Messages /\ m.from = b /\ m.seq = g_seq[b] /\ g_seq[b] \in Nat
  BY <1>1, <1>a DEF TypeOK, Messages
<1>4. m \notin acted[b]
  <2>1. m \in acted[b] => m.seq < g_seq[b]
    BY <1>1, <1>3 DEF CarryInv, Composed
  <2> QED
    BY <1>3, <2>1
<1>5. p \in Packets /\ p.msg = m /\ p.originator = b
  BY <1>3, <1>b, RelayTtlAssumption DEF Packet, Packets
<1>6. \A c \in Boxes : g_seq'[c] \in Nat /\ g_seq[c] <= g_seq'[c]
  BY <1>1, <1>2 DEF TypeOK
<1>7. g_seq[b] < g_seq'[b] /\ g_seq' \in [Boxes -> Nat]
  BY <1>1, <1>2, <1>3 DEF TypeOK
<1>8. \A n : Composed(n) => Composed(n)'
  BY <1>1, <1>6 DEF Composed, TypeOK, Messages
<1>9. Composed(m)' /\ Carries(p)'
  BY <1>2, <1>3, <1>5, <1>7 DEF Composed, Carries
<1>10. /\ log' \in [Boxes -> Seq(Entries)] /\ \A c \in Boxes : Len(log'[c]) <= LogSize
       /\ acted' \in [Boxes -> SUBSET Messages] /\ again' \subseteq Boxes
       /\ \A c \in Boxes : Remembers(c)'
  BY <1>2, <1>3, <1>4, ActedOn
<1>11. air' \in [Boxes -> Packets \cup {None}]
  BY <1>1, <1>2, <1>5 DEF TypeOK
<1>12. TypeOK'
  BY <1>1, <1>2, <1>7, <1>10, <1>11 DEF TypeOK, Entries
<1>13. \A c \in Boxes : air'[c] # None => air'[c] = air[c] \/ air'[c] = p
  BY <1>1, <1>2 DEF TypeOK
<1>14. \A c \in Boxes : \A n \in acted'[c] : n \in acted[c] \/ n = m
  BY <1>1, <1>2 DEF TypeOK
<1>15. CarryInv'
  <2>1. p \in Packets /\ p.originator = p.msg.from /\ Composed(p.msg)'
    BY <1>3, <1>5, <1>9
  <2>2. \A c \in Boxes : air'[c] # None => Carries(air[c])'
    BY <1>1, <1>6, <1>8, <1>13, <2>1 DEF CarryInv, Carries, Composed
  <2>3. \A c \in Boxes : g_relay_buf'[c] # None => Carries(g_relay_buf[c])'
    BY <1>1, <1>2, <1>8 DEF CarryInv, Carries, Composed
  <2>4. \A c \in Boxes : \A n \in acted'[c] : Composed(n)'
    BY <1>1, <1>8, <1>9, <1>14 DEF CarryInv
  <2> QED
    BY <1>1, <1>2, <2>2, <2>3, <2>4 DEF CarryInv
<1> QED
  BY <1>10, <1>12, <1>15 DEF OnceInv

\* A box that hears a new message: what it acts on and what it passes on are
\* the message heard.
LEMMA HeardOnce ==
    ASSUME OnceInv, NEW b \in Boxes, NEW m, Composed(m), DedupAndAct(b, m.from, m),
           UNCHANGED <<g_seq, macVars>>, last_uuid' \in [Boxes -> Nat \cup {None}],
           \/ UNCHANGED txVars
           \/ \E ttl, hops \in Nat : ScheduleRelay(b, Packet(m, m.from, ttl, hops))
    PROVE  OnceInv'
<1>1. TypeOK /\ CarryInv /\ m \in Messages
  BY DEF OnceInv, Composed
<1>2. /\ ~Duplicate(b, EntryOf(m)) /\ Record(b, EntryOf(m))
      /\ acted' = [acted EXCEPT ![b] = @ \cup {m}]
      /\ again' = IF m \in acted[b] THEN again \cup {b} ELSE again
  BY DEF DedupAndAct, EntryOf
<1>3. /\ log' \in [Boxes -> Seq(Entries)] /\ \A c \in Boxes : Len(log'[c]) <= LogSize
      /\ acted' \in [Boxes -> SUBSET Messages] /\ again' \subseteq Boxes
      /\ \A c \in Boxes : Remembers(c)'
  BY <1>1, <1>2, ActedOn
<1>4. /\ UNCHANGED air
      /\ g_relay_buf' \in [Boxes -> Packets \cup {None}]
      /\ g_relay_work' \in [Boxes -> BOOLEAN] /\ UNCHANGED txq
      /\ \A c \in Boxes : g_relay_buf'[c] # None =>
           \/ g_relay_buf'[c] = g_relay_buf[c]
           \/ /\ g_relay_buf'[c] \in Packets
              /\ g_relay_buf'[c].msg = m /\ g_relay_buf'[c].originator = m.from
  <2>1. CASE UNCHANGED txVars
    BY <1>1, <2>1 DEF txVars, TypeOK
  <2>2. ASSUME NEW ttl \in Nat, NEW hops \in Nat,
               ScheduleRelay(b, Packet(m, m.from, ttl, hops))
        PROVE  <1>4!:
    <3> DEFINE p == Packet(m, m.from, ttl, hops)
    <3>1. p \in Packets /\ p.msg = m /\ p.originator = m.from
      BY <1>1 DEF Packet, Packets, Messages
    <3>2. /\ g_relay_buf' = [g_relay_buf EXCEPT ![b] = p]
          /\ g_relay_work' = [g_relay_work EXCEPT ![b] = TRUE]
          /\ UNCHANGED <<txq, air>>
      BY <2>2 DEF ScheduleRelay
    <3> HIDE DEF p
    <3> QED
      BY <1>1, <3>1, <3>2 DEF TypeOK
  <2> QED
    BY <2>1, <2>2
<1>5. TypeOK'
  BY <1>1, <1>3, <1>4 DEF TypeOK, macVars, Entries
<1>6. \A c \in Boxes : \A n \in acted'[c] : n \in acted[c] \/ n = m
  BY <1>1, <1>2 DEF TypeOK
<1>7. CarryInv'
  BY <1>1, <1>4, <1>6 DEF CarryInv, Carries, Composed, macVars
<1> QED
  BY <1>3, <1>5, <1>7 DEF OnceInv

LEMMA HearOnce ==
    ASSUME OnceInv, NEW b \in Boxes, NEW sender \in Boxes, Hear(b, sender) PROVE OnceInv'
<1> DEFINE p == air[sender]
           ttl == Clamped(b, p.ttl)
<1>1. Carries(p) /\ p.ttl \in Nat /\ p.hops \in Nat
  BY DEF Hear, OnceInv, CarryInv, Carries, Packets
<1>2. DedupAndAct(b, p.msg.from, p.msg) /\ UNCHANGED <<g_seq, last_uuid, macVars>>
  BY <1>1 DEF Hear, Carries
<1>3. \/ UNCHANGED txVars
      \/ /\ ttl > 0
         /\ ScheduleRelay(b, Packet(p.msg, p.originator, NextTtl(ttl), Further(p.hops)))
  BY DEF Hear
<1>4. ttl \in Nat
  BY <1>1, RelayTtlAssumption DEF Clamped
<1>5. ttl > 0 => NextTtl(ttl) \in Nat
  BY <1>4 DEF NextTtl
<1>6. Further(p.hops) \in Nat
  BY <1>1 DEF Further
<1>7. p.originator = p.msg.from /\ Composed(p.msg)
  BY <1>1 DEF Carries
<1>8. last_uuid' \in [Boxes -> Nat \cup {None}]
  BY <1>2 DEF OnceInv, TypeOK
<1> HIDE DEF p, ttl
<1>9. \/ UNCHANGED txVars
      \/ \E t, h \in Nat : ScheduleRelay(b, Packet(p.msg, p.msg.from, t, h))
  BY <1>3, <1>5, <1>6, <1>7
<1> QED
  BY <1>2, <1>7, <1>8, <1>9, HeardOnce

LEMMA HearMacOnce == ASSUME OnceInv, NEW b \in Boxes, HearMac(b) PROVE OnceInv'
<1>1. mac \in Messages /\ mac.from = Mac /\ mac.seq \in Nat
  BY DEF HearMac, OnceInv, TypeOK, CarryInv, Messages
<1>2. Composed(mac)
  BY <1>1, MacAssumption DEF Composed
<1>3. DedupAndAct(b, mac.from, mac) /\ UNCHANGED <<g_seq, macVars>>
  BY <1>1 DEF HearMac
<1>4. last_uuid' \in [Boxes -> Nat \cup {None}]
  BY <1>1 DEF HearMac, OnceInv, TypeOK
<1>5. RelayTtl[b] \in Nat
  BY RelayTtlAssumption
<1>6. \/ UNCHANGED txVars
      \/ \E t, h \in Nat : ScheduleRelay(b, Packet(mac, mac.from, t, h))
  BY <1>1, <1>5 DEF HearMac, GatewayOriginator
<1> QED
  BY <1>2, <1>3, <1>4, <1>6, HeardOnce

LEMMA OnceStep == OnceInv /\ [Next]_vars => OnceInv'
<1> SUFFICES ASSUME OnceInv, [Next]_vars PROVE OnceInv'
  OBVIOUS
<1>1. TypeOK /\ CarryInv
  BY DEF OnceInv
<1>2. ASSUME NEW b \in Boxes, BeginRelay(b) PROVE OnceInv'
  BY <1>1, <1>2, QuietStep DEF BeginRelay, TypeOK, CarryInv, macVars, history
<1>3. ASSUME NEW b \in Boxes, Relay(b) PROVE OnceInv'
  <2>1. /\ UNCHANGED <<g_seq, log, last_uuid, mac, mac_seq, acted, again>>
        /\ txq' = [txq EXCEPT ![b] = FALSE]
        /\ \/ air' = [air EXCEPT ![b] = g_relay_buf[b]]
           \/ UNCHANGED air
        /\ g_relay_work' \in [Boxes -> BOOLEAN]
        /\ \E p \in {g_relay_buf[b], None} : g_relay_buf' = [g_relay_buf EXCEPT ![b] = p]
    BY <1>1, <1>3 DEF Relay, NotSent, TypeOK, macVars, history
  <2> QED
    BY <1>1, <2>1, QuietStep DEF TypeOK, CarryInv
<1>4. ASSUME NEW b \in Boxes, BurstEnds(b) PROVE OnceInv'
  BY <1>1, <1>4, QuietStep DEF BurstEnds, TypeOK, CarryInv, macVars, history
<1>5. ASSUME NEW b \in Boxes, DebounceExpires(b) PROVE OnceInv'
  BY <1>1, <1>5, QuietStep DEF DebounceExpires, TypeOK, CarryInv, txVars, macVars, history
<1>6. CASE MacStart
  <2>1. mac' \in Messages /\ mac'.from = Mac /\ mac_seq' \in Nat
    BY <1>1, <1>6 DEF MacStart, TypeOK, Messages
  <2>2. UNCHANGED <<g_seq, log, g_relay_buf, g_relay_work, txq, air, last_uuid, acted, again>>
    BY <1>6 DEF MacStart, txVars, history
  <2> QED
    BY <1>1, <2>1, <2>2, QuietStep DEF TypeOK, CarryInv
<1>7. CASE MacStop
  BY <1>1, <1>7, QuietStep DEF MacStop, TypeOK, CarryInv, txVars, history
<1>8. CASE UNCHANGED vars
  BY <1>1, <1>8, QuietStep DEF vars, TypeOK, CarryInv, txVars, macVars, history
<1> QED
  BY <1>2, <1>3, <1>4, <1>5, <1>6, <1>7, <1>8, BroadcastOnce, HearOnce, HearMacOnce DEF Next

LEMMA OnceCorrect == Spec => []OnceInv
<1> QED
  BY OnceInit, OnceStep, PTL DEF Spec

\* The log stays within its ring, and what is in it, on air and to be relayed
\* is what boxes and the Mac have composed.
THEOREM MeshTypes == Spec => []TypeOK
<1>1. OnceInv => TypeOK
  BY DEF OnceInv
<1> QED
  BY <1>1, OnceCorrect, PTL

\* In any fleet, a box that acts on a message again has met more messages than
\* its log holds (dedup_and_act(), broadcast_log_record()).
THEOREM NeverActsAgain == Spec => []ActsOnce
<1>1. OnceInv => ActsOnce
  BY DEF OnceInv, TypeOK, Remembers, ActsOnce
<1> QED
  BY <1>1, OnceCorrect, PTL
=============================================================================
