------------------------------ MODULE Message ------------------------------
(***************************************************************************)
(* The payload that every message carries (app/src/message.c), as the      *)
(* function of its bits, counted from the lowest of the first byte:        *)
(* Slots slots of a delay, a sound and a type each, then the command and   *)
(* the sequence number.                                                    *)
(***************************************************************************)
EXTENDS Integers

CONSTANTS
    Slots,     \* MESSAGE_SLOTS
    DelayBits, \* the width of a slot's delay
    SoundBits, \* the width of a slot's sound
    SeqBits,   \* MESSAGE_SEQ_BITS
    DelayMax,  \* MESSAGE_DELAY_MAX
    Silent     \* MESSAGE_SOUND_SILENT

\* 1 shifted left by n.
TwoTo(n) ==
    LET shifted[i \in 0..n] == IF i = 0 THEN 1 ELSE 2 * shifted[i - 1]
    IN  shifted[n]

ASSUME WidthsAssumption == {Slots, DelayBits, SoundBits, SeqBits} \subseteq Nat \ {0}
ASSUME DelayMaxAssumption == DelayMax \in Nat /\ DelayMax = TwoTo(DelayBits) - 1
ASSUME SilentAssumption == Silent \in Nat /\ Silent = TwoTo(SoundBits) - 1

Goat == 0
Misc == 1
Types == {Goat, Misc}

Play == 0
Arm == 1  \* BLE_OTA_CMD
Commands == 0..3

NoSlot == -1  \* MESSAGE_NO_SLOT

TypeOffset == DelayBits + SoundBits
SlotBits == TypeOffset + 1
CmdOffset == Slots * SlotBits
SeqOffset == CmdOffset + 2
Payload == [0..(SeqOffset + SeqBits - 1) -> {0, 1}]

\* read_bits(), a bit at a time from the lowest.
ReadBits(p, start, n) ==
    LET result[i \in 0..n] ==
            IF i = 0 THEN 0 ELSE result[i - 1] + p[start + i - 1] * TwoTo(i - 1)
    IN  result[n]

WriteBits(p, start, n, value) ==
    [b \in DOMAIN p |->
        IF b \in start..(start + n - 1) THEN (value \div TwoTo(b - start)) % 2 ELSE p[b]]

Zeros == [b \in 0..(SeqOffset + SeqBits - 1) |-> 0]

\* What a slot may tell its box: a part to play, or nothing.
Part(type, sound, delay) == [type |-> type, sound |-> sound, delay |-> delay]
NoPart == Part(Goat, Silent, 0)

\* message_parse_slot() takes the slot's field apart; a box without a slot has
\* no part.
ParseSlot(p, slot) ==
    LET field == ReadBits(p, slot * SlotBits, SlotBits)
        sound == (field \div TwoTo(DelayBits)) % TwoTo(SoundBits)
    IN  IF slot = NoSlot \/ sound = Silent
          THEN NoPart
          ELSE Part((field \div TwoTo(TypeOffset)) % 2, sound, field % TwoTo(DelayBits))

\* A delay that does not fit is cut to the longest.
Cut(delay) == IF delay > DelayMax THEN DelayMax ELSE delay

\* Mutant: a sound that does not fit is wrapped to another.
FittingSound_Wraps(sound) == sound % (Silent + 1)

\* A sound that does not fit is none.
FittingSound(sound) == IF sound > Silent THEN Silent ELSE sound

\* A part as the bits of a slot.
Field(part) ==
    part.type * TwoTo(TypeOffset) + FittingSound(part.sound) * TwoTo(DelayBits)
      + Cut(part.delay)

\* message_pack_slot()
PackSlot(p, slot, part) == WriteBits(p, slot * SlotBits, SlotBits, Field(part))

\* A payload with a part for every slot, written one after the other.
PackSlots(parts) ==
    LET packed[i \in 0..Slots] ==
            IF i = 0 THEN Zeros ELSE PackSlot(packed[i - 1], i - 1, parts[i - 1])
    IN  packed[Slots]

GetCommand(p) == ReadBits(p, CmdOffset, 2)
SetCommand(p, command) == WriteBits(p, CmdOffset, 2, command)
GetSeq(p) == ReadBits(p, SeqOffset, SeqBits)
SetSeq(p, seq) == WriteBits(p, SeqOffset, SeqBits, seq)

SlotForId(id) == IF id \in 1..Slots THEN id - 1 ELSE NoSlot
=============================================================================
