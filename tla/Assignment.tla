----------------------------- MODULE Assignment -----------------------------
(***************************************************************************)
(* Who plays what: the boxes find the sounds on their cards                *)
(* (app/src/sounds.c), a box whose tissue is pulled plays its own sound    *)
(* and draws one for every slot (compose.c), the Mac assigns sounds as its *)
(* operator likes (scripts/bleatctl.py), and a box that hears a message    *)
(* plays the part of its slot (ble.c, main.c).                             *)
(*                                                                         *)
(* One message is on air at a time: how messages spread and repeat is in   *)
(* Mesh.  The queue between hearing and playing, the codec and the update  *)
(* window, each of which may drop a play, are in EventLoop; here a box     *)
(* plays what it hears at once or not at all.                              *)
(***************************************************************************)
EXTENDS Message, Sequences, FiniteSetsExt

CONSTANTS
    Boxes,       \* the boxes
    Shells,      \* the boxes whose shell is used
    Mac,         \* the Mac
    None,        \* no message, no range, no sound
    Cards,       \* the cards: their sound files <<type, number>>, in directory order
    Ids,         \* the ids given to boxes
    Ranges,      \* the pairs <<delay_min, delay_max>> given to boxes
    FirstRange,  \* the one in their configuration files
    WordMax,     \* UINT32_MAX, the largest random word
    Draws,       \* the random words of a message: slot -> <<word, word>>
    Seqs,        \* the sequence numbers stamped
    MacParts     \* the parts the Mac's operator assigns: slot -> part

SlotSet == 0..(Slots - 1)
Words == 0..WordMax

ASSUME ShellsAssumption == Shells \subseteq Boxes
ASSUME MacAssumption == Mac \notin Boxes
ASSUME CardsAssumption == \A c \in Cards : c \in Seq(Types \X (0..99))
ASSUME NoneAssumption == None \notin Ranges
ASSUME RangesAssumption ==
    FirstRange \in Ranges /\ \A r \in Ranges : r \in Nat \X Nat /\ r[1] <= r[2]
ASSUME WordsAssumption == WordMax \in Nat
ASSUME DrawsAssumption == Draws \subseteq [SlotSet -> Words \X Words]
ASSUME SeqsAssumption == Seqs \subseteq 0..(TwoTo(SeqBits) - 1)
ASSUME MacPartsAssumption ==
    MacParts \subseteq [SlotSet -> [type : Types, sound : 0..Silent, delay : 0..DelayMax]]
ASSUME IndexAssumption == Silent <= 128  \* an index has seven bits, ble_encode.h

VARIABLES
    card,     \* box -> the sound files on its card
    started,  \* the boxes that have started
    count,    \* box -> type -> g_goat_count, g_misc_count
    slot,     \* box -> g_local_slot
    delays,   \* box -> <<g_delay_min_ms, g_delay_max_ms>>
    setting,  \* box -> the range being set, or None
    air,      \* the message on air, or None
    playing,  \* the sound a box has last started to play, or None
    ranges    \* history: box -> the ranges in force, two while one is set

configVars == <<slot, delays, setting, ranges>>
vars == <<card, started, count, configVars, air, playing>>

TypeOK ==
    /\ card \in [Boxes -> Cards]
    /\ started \subseteq Boxes
    /\ count \in [Boxes -> [Types -> 0..100]]
    /\ slot \in [Boxes -> SlotSet \cup {NoSlot}]
    /\ delays \in [Boxes -> Nat \X Nat]
    /\ setting \in [Boxes -> Ranges \cup {None}]
    /\ ranges \in [Boxes -> SUBSET Ranges]

Init ==
    /\ card \in [Boxes -> Cards]
    /\ started = {}
    /\ count = [b \in Boxes |-> [t \in Types |-> 0]]
    /\ \E id \in [Boxes -> Ids] : slot = [b \in Boxes |-> SlotForId(id[b])]
    /\ delays = [b \in Boxes |-> FirstRange]
    /\ ranges = [b \in Boxes |-> {FirstRange}]
    /\ setting = [b \in Boxes |-> None]
    /\ air = None
    /\ playing = None

-----------------------------------------------------------------------------
(* The catalogue: sounds.c, sounds_match.c *)

\* Mutant: only the first number is looked for.
Validated_WithGaps(present) == IF 0 \in present THEN Max(present) + 1 ELSE 0

\* sounds_validate_set(): the files must be numbered from 0 without a gap.
Validated(present) ==
    LET sizes == {n \in 1..100 : present = 0..(n - 1)}
    IN  IF sizes = {} THEN 0 ELSE CHOOSE n \in sizes : TRUE

Numbers(files, type) == {files[i][2] : i \in {j \in DOMAIN files : files[j][1] = type}}

\* sounds_scan(): the card or its directory cannot be opened, or an error in
\* the middle is taken for the end.  Without goats the other set is not
\* looked at.
Scan(b) ==
    /\ b \notin started
    /\ started' = started \cup {b}
    /\ \E n \in 0..Len(card[b]) :
         LET seen  == SubSeq(card[b], 1, n)
             goats == Validated(Numbers(seen, Goat))
         IN  count' = [count EXCEPT ![b] =
                 [t \in Types |-> IF t = Goat \/ goats = 0
                                    THEN goats
                                    ELSE Validated(Numbers(seen, Misc))]]
    /\ UNCHANGED <<card, configVars, air, playing>>

\* sounds_get_path() finds the name of a file.
HasPath(b, type, index) == index \in 0..(count[b][type] - 1)

-----------------------------------------------------------------------------
(* Settings *)

\* compose_set_delay() stores one limit, then the other; a trigger may come in
\* between.
SetDelayMin(b) ==
    /\ b \in Shells \cap started /\ setting[b] = None
    /\ \E r \in Ranges :
        /\ setting' = [setting EXCEPT ![b] = r]
        /\ delays' = [delays EXCEPT ![b][1] = r[1]]
        /\ ranges' = [ranges EXCEPT ![b] = @ \cup {r}]
    /\ UNCHANGED <<card, started, count, slot, air, playing>>

SetDelayMax(b) ==
    /\ setting[b] # None
    /\ delays' = [delays EXCEPT ![b][2] = setting[b][2]]
    /\ ranges' = [ranges EXCEPT ![b] = {setting[b]}]
    /\ setting' = [setting EXCEPT ![b] = None]
    /\ UNCHANGED <<card, started, count, slot, air, playing>>

\* ble_set_device_id()
SetId(b) ==
    /\ b \in Shells \cap started
    /\ \E id \in Ids : slot' = [slot EXCEPT ![b] = SlotForId(id)]
    /\ UNCHANGED <<card, started, count, delays, setting, ranges, air, playing>>

-----------------------------------------------------------------------------
(* Messages *)

\* A message on air; parts, command and ranges are what its sender meant.
Message(bits, from, parts, command, seq, rs) ==
    [bits |-> bits, from |-> from, parts |-> parts, command |-> command,
     seq |-> seq, ranges |-> rs]

\* Mutant: the range is taken for one longer.
WrapToRange_OneMore(word, low, high) ==
    IF low >= high THEN low
    ELSE low + (((word - low) % (WordMax + 1)) % (high - low + 2))

\* wrap_to_range(), its subtraction modulo the size of a word.
WrapToRange(word, low, high) ==
    IF low >= high THEN low
    ELSE low + (((word - low) % (WordMax + 1)) % (high - low + 1))

\* compose_message(): main.c keeps sound 0 for the box that is shaken.
Drawn(b, draw) ==
    [s \in SlotSet |->
        Part(Goat, WrapToRange(draw[s][1], 1, count[b][Goat] - 1),
                   WrapToRange(draw[s][2], delays[b][1], delays[b][2]))]

\* A part as the receivers can be told it.
Told(part) ==
    IF part.sound >= Silent THEN NoPart ELSE [part EXCEPT !.delay = Cut(@)]

\* A sound as the box starts to play it.
Sound(b, type, index, delay) ==
    [box |-> b, type |-> type, index |-> index, delay |-> delay]

\* handle_vibration(): the box plays its own sound, then ble_broadcast_message()
\* stamps the seq, if there are sounds to assign and the radio lets it.
PullTissue(b) ==
    /\ b \in started
    /\ HasPath(b, Goat, 0)
    /\ playing' = Sound(b, Goat, 0, 0)
    /\ \/ /\ count[b][Goat] >= 2
          /\ \E draw \in Draws, seq \in Seqs :
               LET parts == Drawn(b, draw)
                   bits  == SetCommand(PackSlots(parts), Play)
               IN  air' = Message(SetSeq(bits, seq), b,
                                  [s \in SlotSet |-> Told(parts[s])],
                                  Play, seq, ranges[b])
       \/ UNCHANGED air
    /\ UNCHANGED <<card, started, count, configVars>>

\* bleatctl.py: sounds for some slots, with any command, or an arm command
\* with its slots zero.
MacSends ==
    /\ \E seq \in Seqs :
        \/ \E parts \in MacParts, command \in Commands :
             air' = Message(SetSeq(SetCommand(PackSlots(parts), command), seq),
                            Mac, [s \in SlotSet |-> Told(parts[s])], command, seq, {})
        \/ air' = Message(SetSeq(SetCommand(Zeros, Arm), seq), Mac,
                          [s \in SlotSet |-> NoPart], Arm, seq, {})
    /\ UNCHANGED <<card, started, count, configVars, playing>>

\* ble_encode.h: a type and an index in a byte.
Encode(type, index) == (type * 128 + (index % 128)) % 256

\* Mutant: the type is lost on the way.
DecodeType_Goat(sound) == Goat

DecodeType(sound) == IF sound >= 128 THEN Misc ELSE Goat
DecodeIndex(sound) == sound % 128

\* act_on_message() reads the part of the box's slot out of a play message,
\* and handle_ble_rx() plays it if the box has the sound.
Hear(b) ==
    /\ air # None
    /\ b \in started \ {air.from}
    /\ GetCommand(air.bits) = Play
    /\ LET part  == ParseSlot(air.bits, slot[b])
           sound == Encode(part.type, part.sound)
       IN  /\ part # NoPart
           /\ HasPath(b, DecodeType(sound), DecodeIndex(sound))
           /\ playing' = Sound(b, DecodeType(sound), DecodeIndex(sound), part.delay)
    /\ UNCHANGED <<card, started, count, configVars, air>>

\* cmd_play()
ShellPlay(b) ==
    /\ b \in Shells \cap started
    /\ \E type \in Types, index \in 0..255 :
        HasPath(b, type, index) /\ playing' = Sound(b, type, index, 0)
    /\ UNCHANGED <<card, started, count, configVars, air>>

Next ==
    \/ MacSends
    \/ \E b \in Boxes :
        \/ Scan(b) \/ SetDelayMin(b) \/ SetDelayMax(b) \/ SetId(b)
        \/ PullTissue(b) \/ Hear(b) \/ ShellPlay(b)

Spec == Init /\ [][Next]_vars

-----------------------------------------------------------------------------
(* Properties *)

\* A message says to every slot what its sender meant and nothing else: no
\* slot's bits, and neither the command nor the seq stamped last, disturb
\* another's, up to the largest value of each ("each device reads only its own
\* slot", message.h).
HeardAsMeant ==
    air # None =>
        /\ air.command = Play =>
             \A s \in SlotSet : ParseSlot(air.bits, s) = air.parts[s]
        /\ GetCommand(air.bits) = air.command
        /\ GetSeq(air.bits) = air.seq

\* A box that starts to play at a message plays, with the delay assigned, the
\* sound its sender meant for the slot the box has, and never for an arm
\* command or a command not known.
PlaysItsPart ==
    [][\A b \in Boxes : Hear(b) =>
         /\ air.command = Play
         /\ slot[b] # NoSlot
         /\ Part(playing'.type, playing'.index, playing'.delay) = air.parts[slot[b]]]_vars

\* Whatever the card holds, however far the scan of it came, and whatever a
\* message or the shell asks for, the sound played is a file on the card.
PlaysAnExistingFile ==
    playing # None => playing.index \in Numbers(card[playing.box], playing.type)

\* A box assigns goats only, never the one kept for the box that is shaken and
\* none it does not have; its delays lie in the ranges in force, cut to what a
\* slot can hold, also when the range is changed under it.
AssignsInRange ==
    air # None /\ air.from \in Boxes =>
        \A s \in SlotSet : air.parts[s] # NoPart =>
            /\ air.parts[s].type = Goat
            /\ air.parts[s].sound \in 1..(count[air.from][Goat] - 1)
            /\ \E low, high \in air.ranges :
                 air.parts[s].delay \in Cut(low[1])..Cut(high[2])
=============================================================================
