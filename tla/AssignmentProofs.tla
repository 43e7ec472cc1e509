-------------------------- MODULE AssignmentProofs --------------------------
(***************************************************************************)
(* Proofs about Assignment, for every layout of the payload, all cards and *)
(* all ranges of delays: what is played is a file, what a box assigns is   *)
(* in range, every slot of a message says what its sender meant, and a box *)
(* plays the part of its own slot.                                         *)
(***************************************************************************)
EXTENDS Assignment, Recursion


-----------------------------------------------------------------------------
(* The powers of two, and numbers taken apart with them *)

\* f doubles from 1 up to n.
Doubles(f, n) ==
    /\ f \in [0..n -> Nat]
    /\ f[0] = 1
    /\ \A i \in 1..n : f[i] = 2 * f[i - 1]

LEMMA PowersExist ==
    ASSUME NEW n \in Nat
    PROVE  \E f : Doubles(f, n) /\ TwoTo(n) = f[n]
<1> DEFINE F == [x \in (1..n) \X Nat |-> 2 * x[2]]
           p == CHOOSE f : f = [i \in 0..n |-> IF i = 0 THEN 1 ELSE 2 * f[i - 1]]
<1>1. F \in [(1..n) \X Nat -> Nat]
  OBVIOUS
<1>2. \E f \in [0..n -> Nat] : Follows(f, n, 1, F)
  <2> HIDE DEF F, p
  <2> QED
    BY <1>1, RecursionExists, Zenon
<1>3. PICK f \in [0..n -> Nat] : f[0] = 1 /\ \A i \in 1..n : f[i] = F[<<i, f[i - 1]>>]
  BY <1>2 DEF Follows
<1>4. ASSUME NEW i \in 1..n PROVE f[i] = 2 * f[i - 1]
  <2>1. i - 1 \in 0..n
    OBVIOUS
  <2>2. f[i - 1] \in Nat
    BY <2>1
  <2>3. <<i, f[i - 1]>> \in (1..n) \X Nat
    BY <2>2
  <2> QED
    BY <1>3, <2>3
<1>5. f = [i \in 0..n |-> IF i = 0 THEN 1 ELSE 2 * f[i - 1]]
  <2>1. ASSUME NEW i \in 0..n PROVE f[i] = IF i = 0 THEN 1 ELSE 2 * f[i - 1]
    BY <1>3, <1>4
  <2> QED
    BY <2>1
<1>6. p = [i \in 0..n |-> IF i = 0 THEN 1 ELSE 2 * p[i - 1]]
  BY <1>5
<1>7. TwoTo(n) = p[n]
  BY DEF TwoTo
<1> HIDE DEF p, F
<1>8. p[0] = 1 /\ \A i \in 1..n : p[i] = 2 * p[i - 1]
  BY <1>6
<1>9. \A i \in 0..n : p[i] = f[i]
  <2>1. p[0] = f[0]
    BY <1>3, <1>8
  <2>2. \A i \in 1..n : p[i - 1] = f[i - 1] => p[i] = f[i]
    BY <1>4, <1>8
  <2>3. Alike(p, f, n)
    BY <2>1, <2>2 DEF Alike
  <2>4. Agree(p, f, n)
    BY <2>3, Agreement
  <2> QED
    BY <2>4 DEF Agree
<1>10. Doubles(f, n)
  BY <1>3, <1>4 DEF Doubles
<1>11. TwoTo(n) = f[n]
  BY <1>7, <1>9
<1> QED
  BY <1>10, <1>11

LEMMA Powers ==
    /\ TwoTo(0) = 1
    /\ \A n \in Nat : TwoTo(n) \in Nat \ {0} /\ TwoTo(n + 1) = 2 * TwoTo(n)
<1>1. TwoTo(0) = 1
  <2>1. PICK f : Doubles(f, 0) /\ TwoTo(0) = f[0]
    BY PowersExist
  <2> QED
    BY <2>1 DEF Doubles
<1>2. ASSUME NEW n \in Nat PROVE TwoTo(n) \in Nat /\ TwoTo(n + 1) = 2 * TwoTo(n)
  <2>1. PICK f : Doubles(f, n) /\ TwoTo(n) = f[n]
    BY PowersExist
  <2>2. n \in Nat /\ n + 1 \in Nat
    OBVIOUS
  <2>3. PICK g : Doubles(g, n + 1) /\ TwoTo(n + 1) = g[n + 1]
    BY <2>2, PowersExist
  <2>4. \A i \in 1..n : f[i - 1] = g[i - 1] => f[i] = g[i]
    BY <2>1, <2>3 DEF Doubles
  <2>5. f[0] = g[0]
    BY <2>1, <2>3 DEF Doubles
  <2>6. Alike(f, g, n)
    BY <2>4, <2>5 DEF Alike
  <2>7. Agree(f, g, n)
    BY <2>6, Agreement
  <2>8. \A i \in 0..n : f[i] = g[i]
    BY <2>7 DEF Agree
  <2>9. n + 1 \in 1..(n + 1) /\ (n + 1) - 1 = n /\ n \in 0..n
    OBVIOUS
  <2> QED
    BY <2>1, <2>3, <2>8, <2>9 DEF Doubles
<1> DEFINE S == {n \in Nat : TwoTo(n) # 0}
<1>3. 0 \in S
  BY <1>1
<1>4. \A n \in Nat : n \in S => n + 1 \in S
  BY <1>2
<1>5. \A n \in Nat : n \in S
  <2> HIDE DEF S
  <2> QED
    BY <1>3, <1>4, Induction
<1> QED
  BY <1>1, <1>2, <1>5

\* A sum of exponents is a product of powers.
LEMMA PowersMultiply ==
    \A a, b \in Nat : TwoTo(a + b) = TwoTo(a) * TwoTo(b)
<1> SUFFICES ASSUME NEW a \in Nat PROVE \A b \in Nat : TwoTo(a + b) = TwoTo(a) * TwoTo(b)
  OBVIOUS
<1> DEFINE S == {b \in Nat : TwoTo(a + b) = TwoTo(a) * TwoTo(b)}
<1>1. 0 \in S
  BY Powers
<1>2. ASSUME NEW b \in Nat, b \in S PROVE b + 1 \in S
  <2>1. TwoTo(a + b) = TwoTo(a) * TwoTo(b)
    BY <1>2
  <2>2. a + b \in Nat /\ a + (b + 1) = (a + b) + 1
    OBVIOUS
  <2>3. TwoTo(a + (b + 1)) = 2 * TwoTo(a + b)
    BY <2>2, Powers
  <2>4. TwoTo(b + 1) = 2 * TwoTo(b)
    BY Powers
  <2>5. TwoTo(a) \in Nat /\ TwoTo(b) \in Nat
    BY Powers
  <2>6. ASSUME NEW x \in Nat, NEW y \in Nat PROVE 2 * (x * y) = x * (2 * y)
    OBVIOUS
  <2> QED
    BY <2>1, <2>3, <2>4, <2>5, <2>6
<1>3. \A b \in Nat : b \in S
  <2> HIDE DEF S
  <2> QED
    BY <1>1, <1>2, Induction
<1> QED
  BY <1>3

\* The next bit of a number: its remainder by twice m.
LEMMA NextBit ==
    ASSUME NEW v \in Nat, NEW m \in Nat \ {0}
    PROVE  /\ v % (2 * m) = (v % m) + ((v \div m) % 2) * m
           /\ v \div m \in Nat
<1>1. PICK q \in Nat, r \in 0..(m - 1) : v = q * m + r
  BY Division
<1>2. v \div m = q /\ v % m = r
  BY <1>1, QuotientRemainder
<1>3. PICK h \in Nat, b \in 0..1 : q = 2 * h + b
  <2>1. q = 2 * (q \div 2) + (q % 2) /\ q \div 2 \in Nat /\ q % 2 \in 0..1
    OBVIOUS
  <2> QED
    BY <2>1
<1>4. q % 2 = b
  BY <1>3
<1>5. v = h * (2 * m) + (b * m + r)
  <2>1. (2 * h + b) * m = h * (2 * m) + b * m
    OBVIOUS
  <2> QED
    BY <1>1, <1>3, <2>1
<1>6. b * m + r \in 0..(2 * m - 1)
  <2>1. CASE b = 0
    BY <2>1
  <2>2. CASE b = 1
    BY <2>2
  <2> QED
    BY <2>1, <2>2
<1>7. v % (2 * m) = b * m + r
  <2>1. 2 * m \in Nat \ {0}
    OBVIOUS
  <2>2. \A k \in Nat \ {0}, x \in Nat : \A y \in 0..(k - 1) : (x * k + y) % k = y
    BY QuotientRemainder
  <2> QED
    BY <1>5, <1>6, <2>1, <2>2
<1> QED
  BY <1>2, <1>4, <1>7

-----------------------------------------------------------------------------

\* f sums up the first n bits of p from start.
Sums(f, p, start, n) ==
    /\ f \in [0..n -> Nat]
    /\ f[0] = 0
    /\ \A i \in 1..n : f[i] = f[i - 1] + p[start + i - 1] * TwoTo(i - 1)

\* They are bits.
Readable(p, start, n) == \A i \in 1..n : p[start + i - 1] \in {0, 1}

LEMMA SumsExist ==
    ASSUME NEW n \in Nat, NEW start \in Nat, NEW p, Readable(p, start, n)
    PROVE  \E f : Sums(f, p, start, n) /\ ReadBits(p, start, n) = f[n]
<1> DEFINE F == [x \in (1..n) \X Nat |-> x[2] + p[start + x[1] - 1] * TwoTo(x[1] - 1)]
           sum == CHOOSE f : f = [i \in 0..n |->
                  IF i = 0 THEN 0 ELSE f[i - 1] + p[start + i - 1] * TwoTo(i - 1)]
<1>0. ASSUME NEW i \in 1..n PROVE p[start + i - 1] * TwoTo(i - 1) \in Nat
  <2>1. i - 1 \in Nat
    OBVIOUS
  <2>2. TwoTo(i - 1) \in Nat
    BY <2>1, Powers
  <2>3. p[start + i - 1] \in {0, 1}
    BY DEF Readable
  <2> QED
    BY <2>2, <2>3
<1>1. F \in [(1..n) \X Nat -> Nat]
  <2>1. ASSUME NEW x \in (1..n) \X Nat
        PROVE  x[2] + p[start + x[1] - 1] * TwoTo(x[1] - 1) \in Nat
    <3>1. x[1] \in 1..n /\ x[2] \in Nat
      OBVIOUS
    <3>2. p[start + x[1] - 1] * TwoTo(x[1] - 1) \in Nat
      BY <1>0, <3>1
    <3> QED
      BY <3>1, <3>2
  <2> QED
    BY <2>1
<1>2. \E f \in [0..n -> Nat] : Follows(f, n, 0, F)
  <2> HIDE DEF F, sum
  <2> QED
    BY <1>1, RecursionExists, Zenon
<1>3. PICK f \in [0..n -> Nat] : f[0] = 0 /\ \A i \in 1..n : f[i] = F[<<i, f[i - 1]>>]
  BY <1>2 DEF Follows
<1>4. ASSUME NEW i \in 1..n PROVE f[i] = f[i - 1] + p[start + i - 1] * TwoTo(i - 1)
  <2>1. i - 1 \in 0..n
    OBVIOUS
  <2>2. f[i - 1] \in Nat
    BY <2>1
  <2>3. <<i, f[i - 1]>> \in (1..n) \X Nat
    BY <2>2
  <2> QED
    BY <1>3, <2>3
<1>5. f = [i \in 0..n |->
             IF i = 0 THEN 0 ELSE f[i - 1] + p[start + i - 1] * TwoTo(i - 1)]
  <2>1. ASSUME NEW i \in 0..n
        PROVE  f[i] = IF i = 0 THEN 0 ELSE f[i - 1] + p[start + i - 1] * TwoTo(i - 1)
    BY <1>3, <1>4
  <2> QED
    BY <2>1
<1>6. sum = [i \in 0..n |->
             IF i = 0 THEN 0 ELSE sum[i - 1] + p[start + i - 1] * TwoTo(i - 1)]
  BY <1>5
<1>7. ReadBits(p, start, n) = sum[n]
  BY DEF ReadBits
<1> HIDE DEF sum, F
<1>8. sum[0] = 0 /\ \A i \in 1..n : sum[i] = sum[i - 1] + p[start + i - 1] * TwoTo(i - 1)
  BY <1>6
<1>9. \A i \in 0..n : sum[i] = f[i]
  <2>1. Alike(sum, f, n)
    BY <1>3, <1>4, <1>8 DEF Alike
  <2>2. Agree(sum, f, n)
    BY <2>1, Agreement
  <2> QED
    BY <2>2 DEF Agree
<1>10. Sums(f, p, start, n)
  BY <1>3, <1>4 DEF Sums
<1>11. ReadBits(p, start, n) = f[n]
  BY <1>7, <1>9
<1> QED
  BY <1>10, <1>11

\* The same bits are read alike.
LEMMA ReadAgain ==
    ASSUME NEW n \in Nat, NEW start \in Nat, NEW p, NEW q, Readable(p, start, n),
           \A i \in 1..n : q[start + i - 1] = p[start + i - 1]
    PROVE  ReadBits(q, start, n) = ReadBits(p, start, n)
<1>1. Readable(q, start, n)
  BY DEF Readable
<1>2. PICK f : Sums(f, p, start, n) /\ ReadBits(p, start, n) = f[n]
  BY SumsExist
<1>3. PICK g : Sums(g, q, start, n) /\ ReadBits(q, start, n) = g[n]
  BY <1>1, SumsExist
<1>4. \A i \in 1..n : f[i - 1] = g[i - 1] => f[i] = g[i]
  BY <1>2, <1>3 DEF Sums
<1>5. f[0] = g[0]
  BY <1>2, <1>3 DEF Sums
<1>6. Agree(f, g, n)
  <2>1. Alike(f, g, n)
    BY <1>4, <1>5 DEF Alike
  <2> QED
    BY <2>1, Agreement
<1> QED
  BY <1>2, <1>3, <1>6 DEF Agree

\* Bits that are those of a number are read as it, cut to their width.
LEMMA ReadValue ==
    ASSUME NEW n \in Nat, NEW start \in Nat, NEW v \in Nat, NEW p,
           \A i \in 1..n : p[start + i - 1] = (v \div TwoTo(i - 1)) % 2
    PROVE  ReadBits(p, start, n) = v % TwoTo(n)
<1>1. ASSUME NEW i \in 1..n PROVE TwoTo(i - 1) \in Nat \ {0} /\ TwoTo(i) = 2 * TwoTo(i - 1)
  <2>1. i - 1 \in Nat /\ (i - 1) + 1 = i
    OBVIOUS
  <2> QED
    BY <2>1, Powers
<1>2. ASSUME NEW i \in 1..n
      PROVE  /\ v % TwoTo(i) = (v % TwoTo(i - 1)) + ((v \div TwoTo(i - 1)) % 2) * TwoTo(i - 1)
             /\ v \div TwoTo(i - 1) \in Nat
  BY <1>1, NextBit
<1>3. Readable(p, start, n)
  <2>1. ASSUME NEW i \in 1..n PROVE p[start + i - 1] \in {0, 1}
    <3>1. v \div TwoTo(i - 1) \in Nat
      BY <1>2
    <3>2. \A k \in Nat : k % 2 \in {0, 1}
      OBVIOUS
    <3> QED
      BY <3>1, <3>2
  <2> QED
    BY <2>1 DEF Readable
<1>4. PICK f : Sums(f, p, start, n) /\ ReadBits(p, start, n) = f[n]
  BY <1>3, SumsExist
<1> DEFINE g == [i \in 0..n |-> v % TwoTo(i)]
<1>5. f[0] = g[0]
  BY <1>4, Powers DEF Sums
<1>6. ASSUME NEW i \in 1..n, f[i - 1] = g[i - 1] PROVE f[i] = g[i]
  <2>1. f[i] = f[i - 1] + p[start + i - 1] * TwoTo(i - 1)
    BY <1>4 DEF Sums
  <2>2. g[i] = v % TwoTo(i) /\ g[i - 1] = v % TwoTo(i - 1)
    OBVIOUS
  <2> HIDE DEF g
  <2>3. p[start + i - 1] = (v \div TwoTo(i - 1)) % 2
    OBVIOUS
  <2> QED
    BY <1>2, <1>6, <2>1, <2>2, <2>3
<1>7. Agree(f, g, n)
  <2>1. Alike(f, g, n)
    BY <1>5, <1>6 DEF Alike
  <2> HIDE DEF g
  <2> QED
    BY <2>1, Agreement
<1> QED
  BY <1>4, <1>7 DEF Agree

-----------------------------------------------------------------------------
(* Payloads: what is written is read, and nothing else is disturbed *)

\* The number of bits of a payload.
Bits == SeqOffset + SeqBits

\* Slots are within the payload and apart, below the command.
LEMMA Layout ==
    /\ SlotBits \in Nat \ {0} /\ CmdOffset \in Nat /\ SeqOffset = CmdOffset + 2
    /\ SeqBits \in Nat \ {0} /\ SeqOffset \in Nat /\ Bits \in Nat
    /\ Slots \in Nat \ {0}
    /\ \A s \in Nat : s * SlotBits \in Nat
    /\ \A s \in 0..(Slots - 1) : s * SlotBits + SlotBits <= CmdOffset
    /\ \A s, t \in Nat : s < t => s * SlotBits + SlotBits <= t * SlotBits
<1>1. /\ SlotBits \in Nat \ {0} /\ Slots \in Nat \ {0} /\ SeqBits \in Nat \ {0}
  BY WidthsAssumption DEF SlotBits, TypeOffset
<1>2. ASSUME NEW s \in Nat, NEW t \in Nat, NEW b \in Nat, s < t
      PROVE  s * b + b <= t * b
  <2>1. t = (s + 1) + (t - s - 1) /\ t - s - 1 \in Nat
    BY <1>2
  <2>2. PICK d \in Nat : t = (s + 1) + d
    BY <2>1
  <2>3. t * b = s * b + b + d * b /\ d * b \in Nat /\ s * b \in Nat
    BY <2>2
  <2> QED
    BY <2>3
<1>3. ASSUME NEW s \in Nat, NEW b \in Nat PROVE s * b \in Nat
  OBVIOUS
<1>4. CmdOffset = Slots * SlotBits /\ CmdOffset \in Nat
  BY <1>1, <1>3 DEF CmdOffset
<1>5. \A s, t \in Nat : s < t => s * SlotBits + SlotBits <= t * SlotBits
  BY <1>1, <1>2
<1>6. \A s \in 0..(Slots - 1) : s * SlotBits + SlotBits <= CmdOffset
  <2> SUFFICES ASSUME NEW s \in 0..(Slots - 1) PROVE s * SlotBits + SlotBits <= CmdOffset
    OBVIOUS
  <2>1. s \in Nat /\ s < Slots /\ Slots \in Nat
    BY <1>1
  <2> QED
    BY <1>4, <1>5, <2>1
<1>7. \A s \in Nat : s * SlotBits \in Nat
  BY <1>1, <1>3
<1> QED
  BY <1>1, <1>4, <1>5, <1>6, <1>7 DEF SeqOffset, Bits

\* A write gives its bits and leaves the others.
LEMMA Written ==
    ASSUME NEW p \in Payload, NEW start \in Nat, NEW n \in Nat, start + n <= Bits,
           NEW v \in Nat
    PROVE  /\ WriteBits(p, start, n, v) \in Payload
           /\ ReadBits(WriteBits(p, start, n, v), start, n) = v % TwoTo(n)
<1> DEFINE w == WriteBits(p, start, n, v)
<1>0. Bits \in Nat /\ Payload = [0..(Bits - 1) -> {0, 1}] /\ DOMAIN p = 0..(Bits - 1)
  <2>1. Bits \in Nat /\ Payload = [0..(Bits - 1) -> {0, 1}]
    BY Layout DEF Payload, Bits
  <2> QED
    BY <2>1
<1>1. ASSUME NEW i \in Nat PROVE (v \div TwoTo(i)) % 2 \in {0, 1}
  <2>1. v \div TwoTo(i) \in Nat
    BY Powers, NextBit
  <2>2. \A k \in Nat : k % 2 \in {0, 1}
    OBVIOUS
  <2> QED
    BY <2>1, <2>2
<1>2. ASSUME NEW b \in 0..(Bits - 1)
      PROVE  w[b] = IF b \in start..(start + n - 1) THEN (v \div TwoTo(b - start)) % 2 ELSE p[b]
  BY <1>0 DEF WriteBits
<1>3. w \in Payload
  <2>1. ASSUME NEW b \in 0..(Bits - 1) PROVE w[b] \in {0, 1}
    <3>1. CASE b \in start..(start + n - 1)
      <4>1. b - start \in Nat
        BY <3>1, <1>0
      <4> QED
        BY <1>1, <1>2, <3>1, <4>1
    <3>2. CASE b \notin start..(start + n - 1)
      BY <1>0, <1>2, <3>2
    <3> QED
      BY <3>1, <3>2
  <2>2. w = [b \in 0..(Bits - 1) |-> w[b]]
    BY <1>0 DEF WriteBits
  <2> HIDE DEF w
  <2> QED
    BY <1>0, <2>1, <2>2
<1>4. ASSUME NEW i \in 1..n PROVE w[start + i - 1] = (v \div TwoTo(i - 1)) % 2
  <2>1. /\ start + i - 1 \in 0..(Bits - 1)
        /\ start + i - 1 \in start..(start + n - 1)
        /\ (start + i - 1) - start = i - 1
    BY <1>0
  <2> QED
    BY <1>2, <2>1
<1>5. ReadBits(w, start, n) = v % TwoTo(n)
  <2> HIDE DEF w
  <2> QED
    BY <1>4, ReadValue
<1> QED
  BY <1>3, <1>5

LEMMA Unwritten ==
    ASSUME NEW p \in Payload, NEW start \in Nat, NEW n \in Nat, NEW v \in Nat,
           NEW at \in Nat, NEW m \in Nat, at + m <= Bits,
           at + m <= start \/ start + n <= at
    PROVE  ReadBits(WriteBits(p, start, n, v), at, m) = ReadBits(p, at, m)
<1> DEFINE w == WriteBits(p, start, n, v)
<1>0. Bits \in Nat /\ Payload = [0..(Bits - 1) -> {0, 1}] /\ DOMAIN p = 0..(Bits - 1)
  <2>1. Bits \in Nat /\ Payload = [0..(Bits - 1) -> {0, 1}]
    BY Layout DEF Payload, Bits
  <2> QED
    BY <2>1
<1>1. ASSUME NEW i \in 1..m PROVE at + i - 1 \in 0..(Bits - 1) /\ at + i - 1 \notin start..(start + n - 1)
  BY <1>0
<1>2. Readable(p, at, m)
  BY <1>0, <1>1 DEF Readable
<1>3. \A i \in 1..m : w[at + i - 1] = p[at + i - 1]
  BY <1>0, <1>1 DEF WriteBits
<1> HIDE DEF w
<1>4. ReadBits(w, at, m) = ReadBits(p, at, m)
  BY <1>2, <1>3, ReadAgain
<1> QED
  BY <1>4 DEF w

\* The parts a slot can be told.
Parts == [type : Types, sound : Nat, delay : Nat]

\* A field is taken apart into what it was put together from.
LEMMA FieldParts ==
    ASSUME NEW part \in Parts
    PROVE  /\ Field(part) \in Nat
           /\ Field(part) % TwoTo(SlotBits) = Field(part)
           /\ Field(part) % TwoTo(DelayBits) = Cut(part.delay)
           /\ (Field(part) \div TwoTo(DelayBits)) % TwoTo(SoundBits) = FittingSound(part.sound)
           /\ (Field(part) \div TwoTo(TypeOffset)) % 2 = part.type
<1> DEFINE D == TwoTo(DelayBits)
           S == TwoTo(SoundBits)
           t == part.type
           s == FittingSound(part.sound)
           d == Cut(part.delay)
<1>1. DelayBits \in Nat /\ SoundBits \in Nat /\ D \in Nat \ {0} /\ S \in Nat \ {0}
  BY WidthsAssumption, Powers
<1>2. TwoTo(TypeOffset) = D * S
  BY <1>1, PowersMultiply DEF TypeOffset
<1>3. TwoTo(SlotBits) = 2 * (D * S)
  <2>1. TypeOffset \in Nat
    BY <1>1 DEF TypeOffset
  <2> QED
    BY <1>2, <2>1, Powers DEF SlotBits
<1>4. t \in 0..1
  BY DEF Parts, Types, Goat, Misc
<1>5. s \in 0..(S - 1)
  BY SilentAssumption DEF Parts, FittingSound
<1>6. d \in 0..(D - 1)
  BY DelayMaxAssumption DEF Parts, Cut
<1>7. Field(part) = t * (D * S) + s * D + d
  BY <1>2 DEF Field
<1> HIDE DEF D, S, t, s, d
<1>8. t * (D * S) + s * D + d = (t * S + s) * D + d
  <2>1. t * (D * S) = (t * S) * D
    BY <1>1, <1>4
  <2>2. (t * S + s) * D = (t * S) * D + s * D
    BY <1>1, <1>4, <1>5
  <2> QED
    BY <1>1, <1>4, <1>5, <1>6, <2>1, <2>2
<1>9. t * S + s \in Nat /\ t * S \in Nat /\ t \in Nat /\ s \in Nat /\ d \in Nat
  BY <1>1, <1>4, <1>5, <1>6
<1>10. Field(part) % D = d /\ Field(part) \div D = t * S + s
  <2> DEFINE q == t * S + s
  <2>1. Field(part) = q * D + d
    BY <1>7, <1>8
  <2>2. q \in Nat
    BY <1>9
  <2> HIDE DEF q
  <2>3. (q * D + d) % D = d /\ (q * D + d) \div D = q
    BY <1>1, <1>6, <2>2, QuotientRemainder
  <2>4. Field(part) % D = d /\ Field(part) \div D = q
    BY <2>1, <2>3
  <2> QED
    BY <2>4 DEF q
<1>11. (t * S + s) % S = s
  BY <1>1, <1>5, <1>9, QuotientRemainder
<1>12. s * D + d \in 0..(D * S - 1)
  <2>1. PICK r \in Nat : S = (s + 1) + r
    <3>1. S - (s + 1) \in Nat /\ S = (s + 1) + (S - (s + 1))
      BY <1>1, <1>5
    <3> QED
      BY <3>1
  <2>2. D * S = s * D + D + r * D /\ r * D \in Nat /\ s * D \in Nat
    BY <1>1, <1>9, <2>1
  <2> QED
    BY <1>1, <1>6, <1>9, <2>2
<1>13. D * S \in Nat \ {0}
  BY <1>1
<1>14. t * (D * S) + s * D + d = t * (D * S) + (s * D + d)
  <2>1. t * (D * S) \in Nat /\ s * D \in Nat
    BY <1>1, <1>9, <1>13
  <2>2. \A x, y, z \in Nat : x + y + z = x + (y + z)
    OBVIOUS
  <2> QED
    BY <1>9, <2>1, <2>2
<1>15. Field(part) \div (D * S) = t /\ Field(part) \in Nat
  <2>1. t * (D * S) + s * D + d = t * (D * S) + (s * D + d)
    BY <1>14
  <2>2. (t * (D * S) + (s * D + d)) \div (D * S) = t
    BY <1>9, <1>12, <1>13, QuotientRemainder
  <2>3. Field(part) \in Nat
    BY <1>1, <1>7, <1>8, <1>9
  <2> QED
    BY <1>7, <2>1, <2>2, <2>3
<1>16. Field(part) % (2 * (D * S)) = Field(part)
  <2> DEFINE M == D * S
             x == s * D + d
  <2>1. Field(part) = t * M + x
    BY <1>7, <1>14
  <2>2. M \in Nat \ {0} /\ x \in 0..(M - 1)
    BY <1>12, <1>13
  <2> HIDE DEF M, x
  <2>3. t * M + x \in 0..(2 * M - 1)
    <3>1. CASE t = 0
      BY <2>2, <3>1
    <3>2. CASE t = 1
      BY <2>2, <3>2
    <3> QED
      BY <1>4, <3>1, <3>2
  <2>4. (0 * (2 * M) + (t * M + x)) % (2 * M) = t * M + x
    <3>1. 2 * M \in Nat \ {0}
      BY <2>2
    <3> QED
      BY <2>3, <3>1, QuotientRemainder
  <2>5. 0 * (2 * M) + (t * M + x) = t * M + x
    BY <2>2, <2>3
  <2>6. Field(part) % (2 * M) = Field(part)
    BY <2>1, <2>4, <2>5
  <2> QED
    BY <2>6 DEF M
<1>17. t % 2 = t
  BY <1>4
<1> QED
  BY <1>2, <1>3, <1>10, <1>11, <1>15, <1>16, <1>17 DEF D, S, t, s, d

\* f writes the parts one slot after the other.
Packs(f, parts) ==
    /\ f \in [0..Slots -> Payload]
    /\ f[0] = Zeros
    /\ \A i \in 1..Slots : f[i] = PackSlot(f[i - 1], i - 1, parts[i - 1])

LEMMA SlotWritten ==
    ASSUME NEW parts \in [SlotSet -> Parts], NEW i \in 1..Slots, NEW p \in Payload
    PROVE  /\ PackSlot(p, i - 1, parts[i - 1]) \in Payload
           /\ ReadBits(PackSlot(p, i - 1, parts[i - 1]), (i - 1) * SlotBits, SlotBits)
                = Field(parts[i - 1])
           /\ \A s \in 0..(i - 2) :
                ReadBits(PackSlot(p, i - 1, parts[i - 1]), s * SlotBits, SlotBits)
                  = ReadBits(p, s * SlotBits, SlotBits)
<1> DEFINE start == (i - 1) * SlotBits
           v == Field(parts[i - 1])
<1>1. i - 1 \in SlotSet /\ i - 1 \in Nat /\ i - 1 \in 0..(Slots - 1)
  BY Layout DEF SlotSet
<1>2. v \in Nat /\ v % TwoTo(SlotBits) = v
  BY <1>1, FieldParts
<1>3. start \in Nat /\ start + SlotBits <= Bits /\ SlotBits \in Nat
  BY <1>1, Layout DEF Bits
<1>4. PackSlot(p, i - 1, parts[i - 1]) = WriteBits(p, start, SlotBits, v)
  BY DEF PackSlot
<1>5. ASSUME NEW s \in 0..(i - 2)
      PROVE  /\ s * SlotBits \in Nat
             /\ s * SlotBits + SlotBits <= start
             /\ s * SlotBits + SlotBits <= Bits
  <2>1. s \in Nat /\ s < i - 1
    BY <1>1
  <2>2. s * SlotBits \in Nat /\ s * SlotBits + SlotBits <= start
    BY <1>1, <2>1, Layout
  <2> HIDE DEF start
  <2> QED
    BY <1>3, <2>2, Layout
<1> HIDE DEF start, v
<1>6. /\ WriteBits(p, start, SlotBits, v) \in Payload
      /\ ReadBits(WriteBits(p, start, SlotBits, v), start, SlotBits) = v
  BY <1>2, <1>3, Written
<1>7. ASSUME NEW s \in 0..(i - 2)
      PROVE  ReadBits(WriteBits(p, start, SlotBits, v), s * SlotBits, SlotBits)
               = ReadBits(p, s * SlotBits, SlotBits)
  <2> DEFINE at == s * SlotBits
  <2>1. at \in Nat /\ at + SlotBits <= start /\ at + SlotBits <= Bits
    BY <1>5
  <2> HIDE DEF at
  <2>2. ReadBits(WriteBits(p, start, SlotBits, v), at, SlotBits) = ReadBits(p, at, SlotBits)
    BY <1>2, <1>3, <2>1, Unwritten
  <2> QED
    BY <2>2 DEF at
<1> QED
  BY <1>4, <1>6, <1>7 DEF start, v

LEMMA PacksExist ==
    ASSUME NEW parts \in [SlotSet -> Parts]
    PROVE  \E f : Packs(f, parts) /\ PackSlots(parts) = f[Slots]
<1> DEFINE F == [x \in (1..Slots) \X Payload |-> PackSlot(x[2], x[1] - 1, parts[x[1] - 1])]
           packed == CHOOSE f : f = [i \in 0..Slots |->
                       IF i = 0 THEN Zeros ELSE PackSlot(f[i - 1], i - 1, parts[i - 1])]
<1>0. Slots \in Nat /\ Zeros \in Payload
  BY Layout DEF Zeros, Payload
<1>1. F \in [(1..Slots) \X Payload -> Payload]
  <2>1. ASSUME NEW x \in (1..Slots) \X Payload
        PROVE  PackSlot(x[2], x[1] - 1, parts[x[1] - 1]) \in Payload
    <3>1. x[1] \in 1..Slots /\ x[2] \in Payload
      OBVIOUS
    <3> QED
      BY <3>1, SlotWritten
  <2> QED
    BY <2>1
<1>2. \E f \in [0..Slots -> Payload] : Follows(f, Slots, Zeros, F)
  <2> HIDE DEF F, packed
  <2> QED
    BY <1>0, <1>1, RecursionExists, Zenon
<1>3. PICK f \in [0..Slots -> Payload] :
        f[0] = Zeros /\ \A i \in 1..Slots : f[i] = F[<<i, f[i - 1]>>]
  BY <1>2 DEF Follows
<1>4. ASSUME NEW i \in 1..Slots PROVE f[i] = PackSlot(f[i - 1], i - 1, parts[i - 1])
  <2>1. i - 1 \in 0..Slots
    BY <1>0
  <2>2. f[i - 1] \in Payload
    BY <2>1
  <2>3. <<i, f[i - 1]>> \in (1..Slots) \X Payload
    BY <2>2
  <2> QED
    BY <1>3, <2>3
<1>5. f = [i \in 0..Slots |->
             IF i = 0 THEN Zeros ELSE PackSlot(f[i - 1], i - 1, parts[i - 1])]
  <2>1. ASSUME NEW i \in 0..Slots
        PROVE  f[i] = IF i = 0 THEN Zeros ELSE PackSlot(f[i - 1], i - 1, parts[i - 1])
    <3>1. i # 0 => i \in 1..Slots
      BY <1>0
    <3> QED
      BY <1>3, <1>4, <3>1
  <2> QED
    BY <2>1
<1>6. packed = [i \in 0..Slots |->
                  IF i = 0 THEN Zeros ELSE PackSlot(packed[i - 1], i - 1, parts[i - 1])]
  BY <1>5
<1>7. PackSlots(parts) = packed[Slots]
  BY DEF PackSlots
<1> HIDE DEF packed, F
<1>8. /\ packed[0] = Zeros
      /\ \A i \in 1..Slots : packed[i] = PackSlot(packed[i - 1], i - 1, parts[i - 1])
  <2>1. packed[0] = Zeros
    BY <1>0, <1>6
  <2>2. ASSUME NEW i \in 1..Slots
        PROVE  packed[i] = PackSlot(packed[i - 1], i - 1, parts[i - 1])
    <3>1. i # 0 /\ i \in 0..Slots
      BY <1>0
    <3> QED
      BY <1>6, <3>1
  <2> QED
    BY <2>1, <2>2
<1>9. Alike(packed, f, Slots)
  BY <1>3, <1>4, <1>8 DEF Alike
<1>10. Agree(packed, f, Slots)
  BY <1>0, <1>9, Agreement
<1>11. Packs(f, parts)
  BY <1>3, <1>4 DEF Packs
<1>12. PackSlots(parts) = f[Slots]
  BY <1>0, <1>7, <1>10 DEF Agree
<1> QED
  BY <1>11, <1>12

\* Every slot of a payload packed has its field.
LEMMA Packed ==
    ASSUME NEW parts \in [SlotSet -> Parts]
    PROVE  /\ PackSlots(parts) \in Payload
           /\ \A s \in SlotSet :
                ReadBits(PackSlots(parts), s * SlotBits, SlotBits) = Field(parts[s])
<1>1. PICK f : Packs(f, parts) /\ PackSlots(parts) = f[Slots]
  BY PacksExist
<1>2. Slots \in Nat /\ f \in [0..Slots -> Payload]
  BY <1>1, Layout DEF Packs
<1> DEFINE Kept(i) == \A s \in 0..(i - 1) : ReadBits(f[i], s * SlotBits, SlotBits) = Field(parts[s])
           S == {i \in Nat : i <= Slots => Kept(i)}
<1>3. 0 \in S
  OBVIOUS
<1>4. ASSUME NEW i \in Nat, i \in S PROVE i + 1 \in S
  <2> SUFFICES ASSUME i + 1 <= Slots PROVE Kept(i + 1)
    OBVIOUS
  <2>1. i + 1 \in 1..Slots /\ (i + 1) - 1 = i /\ (i + 1) - 2 = i - 1 /\ i \in 0..Slots /\ i <= Slots
    BY <1>2
  <2>2. Kept(i)
    BY <1>4, <2>1
  <2>3. f[i] \in Payload /\ f[i + 1] = PackSlot(f[i], i, parts[i])
    BY <1>1, <1>2, <2>1 DEF Packs
  <2>4. /\ ReadBits(f[i + 1], i * SlotBits, SlotBits) = Field(parts[i])
        /\ \A s \in 0..(i - 1) :
             ReadBits(f[i + 1], s * SlotBits, SlotBits) = ReadBits(f[i], s * SlotBits, SlotBits)
    BY <2>1, <2>3, SlotWritten
  <2>5. ASSUME NEW s \in 0..((i + 1) - 1)
        PROVE  ReadBits(f[i + 1], s * SlotBits, SlotBits) = Field(parts[s])
    <3>1. s = i \/ s \in 0..(i - 1)
      OBVIOUS
    <3> QED
      BY <2>2, <2>4, <3>1
  <2> QED
    BY <2>5
<1>5. \A i \in Nat : i \in S
  <2> HIDE DEF S
  <2> QED
    BY <1>3, <1>4, Induction
<1>6. Kept(Slots)
  BY <1>2, <1>5
<1> QED
  BY <1>1, <1>2, <1>6 DEF SlotSet

\* The command and the seq, stamped last, are read back and leave the slots.
LEMMA Stamped ==
    ASSUME NEW p \in Payload, NEW c \in Commands, NEW q \in 0..(TwoTo(SeqBits) - 1)
    PROVE  LET b == SetSeq(SetCommand(p, c), q)
           IN  /\ GetCommand(b) = c
               /\ GetSeq(b) = q
               /\ \A s \in SlotSet :
                    ReadBits(b, s * SlotBits, SlotBits) = ReadBits(p, s * SlotBits, SlotBits)
<1> DEFINE x == SetCommand(p, c)
           b == SetSeq(x, q)
<1>1. /\ CmdOffset \in Nat /\ SeqOffset \in Nat /\ SeqBits \in Nat /\ Bits \in Nat
      /\ CmdOffset + 2 = SeqOffset /\ SeqOffset + SeqBits = Bits /\ CmdOffset + 2 <= Bits
  BY Layout DEF Bits
<1>2. c \in Nat /\ c % TwoTo(2) = c
  <2>1. TwoTo(2) = 4
    <3>1. TwoTo(1) = 2
      BY Powers
    <3> QED
      BY <3>1, Powers
  <2> QED
    BY <2>1 DEF Commands
<1>3. q \in Nat /\ q % TwoTo(SeqBits) = q
  <2>1. TwoTo(SeqBits) \in Nat \ {0}
    BY <1>1, Powers
  <2> QED
    BY <2>1
<1>4. x \in Payload /\ ReadBits(x, CmdOffset, 2) = c
  BY <1>1, <1>2, Written DEF SetCommand
<1> HIDE DEF x
<1>5. b \in Payload /\ ReadBits(b, SeqOffset, SeqBits) = q
  BY <1>1, <1>3, <1>4, Written DEF SetSeq
<1>6. ReadBits(b, CmdOffset, 2) = ReadBits(x, CmdOffset, 2)
  BY <1>1, <1>3, <1>4, Unwritten DEF SetSeq
<1>7. ASSUME NEW s \in SlotSet
      PROVE  ReadBits(b, s * SlotBits, SlotBits) = ReadBits(p, s * SlotBits, SlotBits)
  <2>1. /\ s * SlotBits \in Nat /\ SlotBits \in Nat
        /\ s * SlotBits + SlotBits <= CmdOffset
    BY Layout DEF SlotSet
  <2>2. s * SlotBits + SlotBits <= SeqOffset /\ s * SlotBits + SlotBits <= Bits
    BY <1>1, <2>1
  <2>3. ReadBits(b, s * SlotBits, SlotBits) = ReadBits(x, s * SlotBits, SlotBits)
    BY <1>1, <1>3, <1>4, <2>1, <2>2, Unwritten DEF SetSeq
  <2>4. ReadBits(x, s * SlotBits, SlotBits) = ReadBits(p, s * SlotBits, SlotBits)
    BY <1>1, <1>2, <2>1, <2>2, Unwritten DEF SetCommand, x
  <2> QED
    BY <2>3, <2>4
<1> QED
  BY <1>4, <1>5, <1>6, <1>7 DEF GetCommand, GetSeq, x

\* A slot with the field of a part tells the part.
LEMMA Parsed ==
    ASSUME NEW b, NEW s \in SlotSet, NEW part \in Parts,
           ReadBits(b, s * SlotBits, SlotBits) = Field(part)
    PROVE  ParseSlot(b, s) = Told(part)
<1>1. ParseSlot(b, s) =
        IF FittingSound(part.sound) = Silent THEN NoPart
        ELSE Part(part.type, FittingSound(part.sound), Cut(part.delay))
  <2>1. s # NoSlot
    BY DEF SlotSet, NoSlot
  <2> QED
    BY <2>1, FieldParts DEF ParseSlot
<1>2. CASE part.sound >= Silent
  <2>1. FittingSound(part.sound) = Silent
    BY <1>2, SilentAssumption DEF FittingSound, Parts
  <2> QED
    BY <1>1, <1>2, <2>1 DEF Told
<1>3. CASE ~(part.sound >= Silent)
  <2>1. FittingSound(part.sound) = part.sound /\ part.sound # Silent
    BY <1>3, SilentAssumption DEF FittingSound, Parts
  <2>2. Told(part) = Part(part.type, part.sound, Cut(part.delay))
    BY <1>3 DEF Told, Part, Parts
  <2> QED
    BY <1>1, <2>1, <2>2
<1> QED
  BY <1>2, <1>3

\* A message says what its sender meant.
Meant(message) ==
    /\ message.command = Play =>
         \A s \in SlotSet : ParseSlot(message.bits, s) = message.parts[s]
    /\ GetCommand(message.bits) = message.command
    /\ GetSeq(message.bits) = message.seq

LEMMA SentAsMeant ==
    ASSUME NEW parts \in [SlotSet -> Parts], NEW c \in Commands,
           NEW q \in 0..(TwoTo(SeqBits) - 1), NEW from, NEW rs
    PROVE  Meant(Message(SetSeq(SetCommand(PackSlots(parts), c), q), from,
                         [s \in SlotSet |-> Told(parts[s])], c, q, rs))
<1> DEFINE b == SetSeq(SetCommand(PackSlots(parts), c), q)
<1>1. PackSlots(parts) \in Payload
  BY Packed
<1>2. /\ GetCommand(b) = c /\ GetSeq(b) = q
      /\ \A s \in SlotSet :
           ReadBits(b, s * SlotBits, SlotBits) = ReadBits(PackSlots(parts), s * SlotBits, SlotBits)
  BY <1>1, Stamped
<1> HIDE DEF b
<1>3. ASSUME NEW s \in SlotSet PROVE ParseSlot(b, s) = Told(parts[s])
  <2>1. parts[s] \in Parts
    OBVIOUS
  <2>2. ReadBits(b, s * SlotBits, SlotBits) = Field(parts[s])
    BY <1>2, Packed
  <2> QED
    BY <2>1, <2>2, Parsed
<1>4. Meant(Message(b, from, [s \in SlotSet |-> Told(parts[s])], c, q, rs))
  BY <1>2, <1>3 DEF Meant, Message
<1> QED
  BY <1>4 DEF b

-----------------------------------------------------------------------------
(* Who plays what *)

\* The counts of a box are no more than the files it has.
Catalogued ==
    \A b \in Boxes, t \in Types :
        \A i \in 0..(count[b][t] - 1) : i \in Numbers(card[b], t)

\* Each limit a box draws with belongs to a range in force, the lower one to
\* the range being set.
InForce ==
    \A b \in Boxes :
        \E r, old \in ranges[b] :
            /\ delays[b] = <<r[1], old[2]>>
            /\ setting[b] = None => r = old
            /\ setting[b] # None => r = setting[b]

\* A box that has sent has started, so its count does not change.
SenderStarted == air # None => air.from \in started \cup {Mac}

Inv ==
    /\ TypeOK /\ Catalogued /\ InForce /\ SenderStarted
    /\ PlaysAnExistingFile /\ AssignsInRange

-----------------------------------------------------------------------------

\* A word wrapped to a range is in it; a range upside down gives its lower
\* limit (wrap_to_range()).
LEMMA Wrapped ==
    ASSUME NEW word \in Nat, NEW low \in Nat, NEW high \in Nat
    PROVE  /\ low <= high => WrapToRange(word, low, high) \in low..high
           /\ low > high => WrapToRange(word, low, high) = low
<1>1. WordMax + 1 \in Nat \ {0}
  BY WordsAssumption
<1>2. (word - low) % (WordMax + 1) \in Nat
  BY <1>1
<1>3. CASE low < high
  <2>1. high - low + 1 \in Nat \ {0}
    BY <1>3
  <2>2. ((word - low) % (WordMax + 1)) % (high - low + 1) \in 0..(high - low)
    BY <1>2, <2>1
  <2> QED
    BY <1>3, <2>2 DEF WrapToRange
<1>4. CASE ~(low < high)
  BY <1>4 DEF WrapToRange
<1> QED
  BY <1>3, <1>4

\* The size of a validated set counts numbers that are in it
\* (sounds_validate_set()).
LEMMA ValidatedCounts ==
    ASSUME NEW present
    PROVE  /\ Validated(present) \in 0..100
           /\ \A i \in 0..(Validated(present) - 1) : i \in present
<1> DEFINE sizes == {n \in 1..100 : present = 0..(n - 1)}
<1>1. CASE sizes = {}
  BY <1>1 DEF Validated
<1>2. CASE sizes # {}
  <2>1. Validated(present) \in sizes
    BY <1>2 DEF Validated
  <2>2. PICK n \in 1..100 : Validated(present) = n /\ present = 0..(n - 1)
    BY <2>1
  <2> HIDE DEF sizes
  <2> QED
    BY <2>2
<1> QED
  BY <1>1, <1>2

\* What was read of a directory is in it.
LEMMA SeenOnCard ==
    ASSUME NEW c \in Cards, NEW n \in 0..Len(c), NEW t \in Types
    PROVE  Numbers(SubSeq(c, 1, n), t) \subseteq Numbers(c, t)
<1>1. c \in Seq(Types \X (0..99))
  BY CardsAssumption
<1>2. /\ SubSeq(c, 1, n) \in Seq(Types \X (0..99))
      /\ DOMAIN SubSeq(c, 1, n) = 1..n
      /\ \A i \in 1..n : SubSeq(c, 1, n)[i] = c[i]
  BY <1>1
<1>3. 1..n \subseteq DOMAIN c
  BY <1>1
<1> QED
  BY <1>2, <1>3 DEF Numbers

\* The cut keeps the order of delays.
LEMMA CutMonotone ==
    ASSUME NEW x \in Nat, NEW y \in Nat, x <= y
    PROVE  Cut(x) \in Nat /\ Cut(x) <= Cut(y)
BY DelayMaxAssumption DEF Cut

-----------------------------------------------------------------------------

\* An id has a slot of the payload or none (message_slot_for_id()).
LEMMA SlotOfId == \A id : SlotForId(id) \in SlotSet \cup {NoSlot}
<1> SUFFICES ASSUME NEW id PROVE SlotForId(id) \in SlotSet \cup {NoSlot}
  OBVIOUS
<1>1. CASE id \in 1..Slots
  BY <1>1, Layout DEF SlotForId, SlotSet
<1>2. CASE id \notin 1..Slots
  BY <1>2 DEF SlotForId
<1> QED
  BY <1>1, <1>2

LEMMA InitInv == Init => Inv
<1> SUFFICES ASSUME Init PROVE Inv
  OBVIOUS
<1>1. TypeOK
  <2>1. PICK id \in [Boxes -> Ids] : slot = [b \in Boxes |-> SlotForId(id[b])]
    BY DEF Init
  <2>2. slot \in [Boxes -> SlotSet \cup {NoSlot}]
    BY <2>1, SlotOfId
  <2> QED
    BY <2>2, RangesAssumption DEF Init, TypeOK
<1>2. Catalogued
  BY DEF Init, Catalogued
<1>3. InForce
  <2> SUFFICES ASSUME NEW b \in Boxes
               PROVE  \E r, old \in ranges[b] :
                        /\ delays[b] = <<r[1], old[2]>>
                        /\ setting[b] = None => r = old
                        /\ setting[b] # None => r = setting[b]
    BY DEF InForce
  <2>1. FirstRange \in ranges[b] /\ delays[b] = FirstRange /\ setting[b] = None
    BY DEF Init
  <2>2. FirstRange = <<FirstRange[1], FirstRange[2]>>
    BY RangesAssumption
  <2> QED
    BY <2>1, <2>2
<1> QED
  BY <1>1, <1>2, <1>3 DEF Init, Inv, SenderStarted, PlaysAnExistingFile, AssignsInRange

\* A scan counts files of the card.
LEMMA ScanInv ==
    ASSUME Inv, NEW b \in Boxes, Scan(b)
    PROVE  Inv'
<1>1. PICK n \in 0..Len(card[b]) :
        LET seen  == SubSeq(card[b], 1, n)
            goats == Validated(Numbers(seen, Goat))
        IN  count' = [count EXCEPT ![b] =
                [t \in Types |-> IF t = Goat \/ goats = 0
                                   THEN goats
                                   ELSE Validated(Numbers(seen, Misc))]]
  BY DEF Scan
<1> DEFINE seen == SubSeq(card[b], 1, n)
           found == [t \in Types |-> IF t = Goat \/ Validated(Numbers(seen, Goat)) = 0
                                       THEN Validated(Numbers(seen, Goat))
                                       ELSE Validated(Numbers(seen, Misc))]
<1>2. count' = [count EXCEPT ![b] = found]
  BY <1>1
<1>3. card[b] \in Cards
  BY DEF Inv, TypeOK
<1>4. \A t \in Types : /\ found[t] \in 0..100
                       /\ \A i \in 0..(found[t] - 1) : i \in Numbers(card[b], t)
  <2> SUFFICES ASSUME NEW t \in Types
               PROVE  /\ found[t] \in 0..100
                      /\ \A i \in 0..(found[t] - 1) : i \in Numbers(card[b], t)
    OBVIOUS
  <2>1. found[t] = Validated(Numbers(seen, t)) \/ found[t] = 0
    BY DEF Types
  <2>2. CASE found[t] = Validated(Numbers(seen, t))
    <3>1. Numbers(seen, t) \subseteq Numbers(card[b], t)
      BY <1>3, SeenOnCard
    <3> HIDE DEF found, seen
    <3> QED
      BY <2>2, <3>1, ValidatedCounts
  <2>3. CASE found[t] = 0
    BY <2>3
  <2> QED
    BY <2>1, <2>2, <2>3
<1> HIDE DEF found, seen
<1>5. TypeOK'
  <2>1. found = [t \in Types |-> found[t]]
    BY DEF found
  <2>2. found \in [Types -> 0..100]
    BY <1>4, <2>1
  <2> QED
    BY <1>2, <2>2 DEF Inv, TypeOK, Scan, configVars
<1>6. Catalogued'
  <2> SUFFICES ASSUME NEW a \in Boxes, NEW t \in Types, NEW i \in 0..(count'[a][t] - 1)
               PROVE  i \in Numbers(card[a], t)
    BY DEF Catalogued, Scan
  <2>1. CASE a = b
    BY <1>2, <1>4, <2>1 DEF Inv, TypeOK
  <2>2. CASE a # b
    BY <1>2, <2>2 DEF Inv, TypeOK, Catalogued
  <2> QED
    BY <2>1, <2>2
<1>7. InForce' /\ SenderStarted' /\ PlaysAnExistingFile'
  BY DEF Inv, InForce, SenderStarted, PlaysAnExistingFile, Scan, configVars
<1>8. AssignsInRange'
  <2> SUFFICES ASSUME air # None, air.from \in Boxes
               PROVE  count'[air.from] = count[air.from]
    BY DEF Inv, AssignsInRange, Scan, configVars
  <2>1. air.from # b
    BY MacAssumption DEF Inv, SenderStarted, Scan
  <2> QED
    BY <1>2, <2>1 DEF Inv, TypeOK
<1> QED
  BY <1>5, <1>6, <1>7, <1>8 DEF Inv

\* Setting a range, one limit at a time, keeps each limit in a range in force.
LEMMA SettingInv ==
    ASSUME Inv, NEW b \in Boxes, SetDelayMin(b) \/ SetDelayMax(b) \/ SetId(b)
    PROVE  Inv'
<1>1. UNCHANGED <<card, started, count, air, playing>>
  BY DEF SetDelayMin, SetDelayMax, SetId
<1>2. Catalogued' /\ SenderStarted' /\ PlaysAnExistingFile' /\ AssignsInRange'
  BY <1>1 DEF Inv, Catalogued, SenderStarted, PlaysAnExistingFile, AssignsInRange
<1>3. CASE SetDelayMin(b)
  <2>1. PICK new \in Ranges :
          /\ setting' = [setting EXCEPT ![b] = new]
          /\ delays' = [delays EXCEPT ![b][1] = new[1]]
          /\ ranges' = [ranges EXCEPT ![b] = @ \cup {new}]
    BY <1>3 DEF SetDelayMin
  <2>2. new \in Nat \X Nat /\ new # None
    BY RangesAssumption, NoneAssumption
  <2>3. PICK r, old \in ranges[b] : delays[b] = <<r[1], old[2]>>
    BY DEF Inv, InForce
  <2>5. delays'[b] = <<new[1], old[2]>> /\ old[2] \in Nat
    BY <2>1, <2>3 DEF Inv, TypeOK
  <2>4. TypeOK'
    <3>1. \A a \in Boxes : delays'[a] = IF a = b THEN <<new[1], old[2]>> ELSE delays[a]
      BY <2>1, <2>5 DEF Inv, TypeOK
    <3>4. delays' = [a \in Boxes |-> delays'[a]]
      BY <2>1 DEF Inv, TypeOK
    <3>6. <<new[1], old[2]>> \in Nat \X Nat
      BY <2>2, <2>5
    <3>5. \A a \in Boxes : delays'[a] \in Nat \X Nat
      BY <3>1, <3>6 DEF Inv, TypeOK
    <3>2. delays' \in [Boxes -> Nat \X Nat]
      BY <3>4, <3>5
    <3>3. ranges' \in [Boxes -> SUBSET Ranges] /\ setting' \in [Boxes -> Ranges \cup {None}]
      BY <2>1 DEF Inv, TypeOK
    <3> QED
      BY <1>1, <1>3, <3>2, <3>3 DEF Inv, TypeOK, SetDelayMin
  <2>6. InForce'
    <3> SUFFICES ASSUME NEW a \in Boxes
                 PROVE  \E x, y \in ranges'[a] :
                          /\ delays'[a] = <<x[1], y[2]>>
                          /\ setting'[a] = None => x = y
                          /\ setting'[a] # None => x = setting'[a]
      BY DEF InForce
    <3>1. CASE a = b
      BY <2>1, <2>2, <2>5, <3>1 DEF Inv, TypeOK
    <3>2. CASE a # b
      BY <2>1, <3>2 DEF Inv, TypeOK, InForce
    <3> QED
      BY <3>1, <3>2
  <2> QED
    BY <1>2, <2>4, <2>6 DEF Inv
<1>4. CASE SetDelayMax(b)
  <2>1. /\ setting[b] # None
        /\ delays' = [delays EXCEPT ![b][2] = setting[b][2]]
        /\ ranges' = [ranges EXCEPT ![b] = {setting[b]}]
        /\ setting' = [setting EXCEPT ![b] = None]
    BY <1>4 DEF SetDelayMax
  <2>2. setting[b] \in Ranges /\ setting[b] \in Nat \X Nat
    BY <2>1, RangesAssumption DEF Inv, TypeOK
  <2>3. delays[b][1] = setting[b][1]
    <3>1. PICK r, old \in ranges[b] : delays[b] = <<r[1], old[2]>> /\ r = setting[b]
      BY <2>1 DEF Inv, InForce
    <3> QED
      BY <3>1
  <2>5. delays'[b] = <<setting[b][1], setting[b][2]>>
    BY <2>1, <2>2, <2>3 DEF Inv, TypeOK
  <2>4. TypeOK'
    <3>1. \A a \in Boxes : delays'[a] = IF a = b THEN <<setting[b][1], setting[b][2]>> ELSE delays[a]
      BY <2>1, <2>5 DEF Inv, TypeOK
    <3>4. delays' = [a \in Boxes |-> delays'[a]]
      BY <2>1 DEF Inv, TypeOK
    <3>6. <<setting[b][1], setting[b][2]>> \in Nat \X Nat
      BY <2>2
    <3>5. \A a \in Boxes : delays'[a] \in Nat \X Nat
      BY <3>1, <3>6 DEF Inv, TypeOK
    <3>2. delays' \in [Boxes -> Nat \X Nat]
      BY <3>4, <3>5
    <3>3. ranges' \in [Boxes -> SUBSET Ranges] /\ setting' \in [Boxes -> Ranges \cup {None}]
      BY <2>1, <2>2 DEF Inv, TypeOK
    <3> QED
      BY <1>1, <1>4, <3>2, <3>3 DEF Inv, TypeOK, SetDelayMax
  <2>6. InForce'
    <3> SUFFICES ASSUME NEW a \in Boxes
                 PROVE  \E x, y \in ranges'[a] :
                          /\ delays'[a] = <<x[1], y[2]>>
                          /\ setting'[a] = None => x = y
                          /\ setting'[a] # None => x = setting'[a]
      BY DEF InForce
    <3>1. CASE a = b
      BY <2>1, <2>5, <3>1 DEF Inv, TypeOK
    <3>2. CASE a # b
      BY <2>1, <3>2 DEF Inv, TypeOK, InForce
    <3> QED
      BY <3>1, <3>2
  <2> QED
    BY <1>2, <2>4, <2>6 DEF Inv
<1>5. CASE SetId(b)
  <2>1. slot' \in [Boxes -> SlotSet \cup {NoSlot}]
    BY <1>5, SlotOfId DEF Inv, SetId, TypeOK
  <2> QED
    BY <1>1, <1>2, <1>5, <2>1 DEF Inv, SetId, TypeOK, InForce
<1> QED
  BY <1>3, <1>4, <1>5

\* What a box draws is in range: sounds above the first, delays between the
\* limits in force.
LEMMA DrawnInRange ==
    ASSUME Inv, NEW b \in Boxes, b \in started, count[b][Goat] >= 2,
           NEW draw \in Draws, NEW s \in SlotSet,
           NEW part, part = Told(Drawn(b, draw)[s]), part # NoPart
    PROVE  /\ part.type = Goat
           /\ part.sound \in 1..(count[b][Goat] - 1)
           /\ \E low, high \in ranges[b] : part.delay \in Cut(low[1])..Cut(high[2])
<1> DEFINE sound == WrapToRange(draw[s][1], 1, count[b][Goat] - 1)
           delay == WrapToRange(draw[s][2], delays[b][1], delays[b][2])
<1>1. draw[s][1] \in Nat /\ draw[s][2] \in Nat
  BY DrawsAssumption, WordsAssumption DEF Words
<1>2. part.type = Goat /\ part.sound = sound /\ part.delay = Cut(delay)
  BY DEF Told, Drawn, Part
<1>11. count[b][Goat] \in 0..100
  BY DEF Inv, TypeOK, Types
<1>3. count[b][Goat] - 1 \in Nat /\ 1 <= count[b][Goat] - 1
  BY <1>11
<1>4. sound \in 1..(count[b][Goat] - 1)
  BY <1>1, <1>3, Wrapped
<1>5. PICK r, old \in ranges[b] : delays[b] = <<r[1], old[2]>>
  BY DEF Inv, InForce
<1>6. /\ r \in Nat \X Nat /\ r[1] <= r[2]
      /\ old \in Nat \X Nat /\ old[1] <= old[2]
  BY RangesAssumption DEF Inv, TypeOK
<1>7. delay = WrapToRange(draw[s][2], r[1], old[2])
  BY <1>5
<1>8. r[1] \in Nat /\ r[2] \in Nat /\ old[2] \in Nat
  BY <1>6
<1> HIDE DEF sound, delay
<1>9. CASE r[1] <= old[2]
  <2>3. delay \in r[1]..old[2]
    BY <1>1, <1>7, <1>8, <1>9, Wrapped
  <2>1. delay \in Nat /\ r[1] <= delay /\ delay <= old[2]
    BY <1>8, <2>3
  <2>2. Cut(delay) \in Cut(r[1])..Cut(old[2])
    BY <1>8, <2>1, CutMonotone
  <2> QED
    BY <1>2, <1>4, <2>2
<1>10. CASE r[1] > old[2]
  <2>1. delay = r[1]
    BY <1>1, <1>7, <1>8, <1>10, Wrapped
  <2>2. Cut(delay) \in Cut(r[1])..Cut(r[2])
    BY <1>6, <1>8, <2>1, CutMonotone
  <2> QED
    BY <1>2, <1>4, <2>2
<1> QED
  BY <1>8, <1>9, <1>10

\* A sound started through sounds_get_path() is a file.
LEMMA FileFound ==
    ASSUME Inv, NEW b \in Boxes, NEW t \in Types, NEW i, NEW delay, HasPath(b, t, i)
    PROVE  LET p == Sound(b, t, i, delay)
           IN  p.index \in Numbers(card[p.box], p.type)
BY DEF Inv, Catalogued, HasPath, Sound

\* A pulled tissue plays a file and assigns in range.
LEMMA PullInv ==
    ASSUME Inv, NEW b \in Boxes, PullTissue(b)
    PROVE  Inv'
<1>1. UNCHANGED <<card, started, count, slot, delays, setting, ranges>>
  BY DEF PullTissue, configVars
<1>2. TypeOK' /\ Catalogued' /\ InForce'
  BY <1>1 DEF Inv, TypeOK, Catalogued, InForce
<1>3. PlaysAnExistingFile'
  <2>1. playing' = Sound(b, Goat, 0, 0) /\ HasPath(b, Goat, 0)
    BY DEF PullTissue
  <2>2. Goat \in Types
    BY DEF Types
  <2> QED
    BY <1>1, <2>1, <2>2, FileFound DEF PlaysAnExistingFile
<1>4. CASE UNCHANGED air
  BY <1>1, <1>2, <1>3, <1>4 DEF Inv, SenderStarted, AssignsInRange
<1>5. CASE air' # air
  <2>1. PICK draw \in Draws, seq \in Seqs :
          air' = Message(SetSeq(SetCommand(PackSlots(Drawn(b, draw)), Play), seq), b,
                         [s \in SlotSet |-> Told(Drawn(b, draw)[s])],
                         Play, seq, ranges[b])
    BY <1>5 DEF PullTissue
  <2>2. b \in started /\ count[b][Goat] >= 2
    BY <1>5 DEF PullTissue
  <2>3. /\ air'.from = b
        /\ air'.ranges = ranges[b]
        /\ \A s \in SlotSet : air'.parts[s] = Told(Drawn(b, draw)[s])
    BY <2>1 DEF Message
  <2>4. SenderStarted'
    BY <1>1, <2>2, <2>3 DEF SenderStarted
  <2>5. AssignsInRange'
    <3> SUFFICES ASSUME NEW s \in SlotSet, air'.parts[s] # NoPart
                 PROVE  /\ air'.parts[s].type = Goat
                        /\ air'.parts[s].sound \in 1..(count[b][Goat] - 1)
                        /\ \E low, high \in ranges[b] :
                             air'.parts[s].delay \in Cut(low[1])..Cut(high[2])
      BY <1>1, <2>3 DEF AssignsInRange
    <3> QED
      BY <2>2, <2>3, DrawnInRange
  <2> QED
    BY <1>2, <1>3, <2>4, <2>5 DEF Inv
<1> QED
  BY <1>4, <1>5

\* What the Mac assigns is no box's, and what is played is a file.
LEMMA OthersInv ==
    ASSUME Inv, MacSends \/ \E b \in Boxes : Hear(b) \/ ShellPlay(b)
    PROVE  Inv'
<1>1. UNCHANGED <<card, started, count, slot, delays, setting, ranges>>
  BY DEF MacSends, Hear, ShellPlay, configVars
<1>2. TypeOK' /\ Catalogued' /\ InForce'
  BY <1>1 DEF Inv, TypeOK, Catalogued, InForce
<1>3. CASE MacSends
  <2>1. air'.from = Mac /\ UNCHANGED playing
    BY <1>3 DEF MacSends, Message
  <2> QED
    BY <1>1, <1>2, <2>1, MacAssumption
    DEF Inv, SenderStarted, AssignsInRange, PlaysAnExistingFile
<1>4. CASE \E b \in Boxes : Hear(b) \/ ShellPlay(b)
  <2>1. PICK b \in Boxes : Hear(b) \/ ShellPlay(b)
    BY <1>4
  <2>2. UNCHANGED air
    BY <2>1 DEF Hear, ShellPlay
  <2>3. \E t \in Types : \E i, delay : HasPath(b, t, i) /\ playing' = Sound(b, t, i, delay)
    <3>1. CASE Hear(b)
      <4>1. PICK sound, delay :
              /\ HasPath(b, DecodeType(sound), DecodeIndex(sound))
              /\ playing' = Sound(b, DecodeType(sound), DecodeIndex(sound), delay)
        BY <3>1 DEF Hear
      <4>2. DecodeType(sound) \in Types
        BY DEF DecodeType, Types
      <4> QED
        BY <4>1, <4>2
    <3>2. CASE ShellPlay(b)
      BY <3>2 DEF ShellPlay
    <3> QED
      BY <2>1, <3>1, <3>2
  <2>4. PlaysAnExistingFile'
    BY <1>1, <2>3, FileFound DEF PlaysAnExistingFile
  <2> QED
    BY <1>1, <1>2, <2>2, <2>4 DEF Inv, SenderStarted, AssignsInRange
<1> QED
  BY <1>3, <1>4

\* Every step keeps the invariant.
THEOREM Invariance == Spec => []Inv
<1>1. Init => Inv
  BY InitInv
<1>2. Inv /\ [Next]_vars => Inv'
  <2> SUFFICES ASSUME Inv, [Next]_vars PROVE Inv'
    OBVIOUS
  <2>1. CASE UNCHANGED vars
    BY <2>1 DEF Inv, vars, configVars, TypeOK, Catalogued, InForce, SenderStarted,
                PlaysAnExistingFile, AssignsInRange
  <2>2. CASE Next
    <3>1. CASE MacSends
      BY <3>1, OthersInv
    <3>2. ASSUME NEW b \in Boxes,
                 Scan(b) \/ SetDelayMin(b) \/ SetDelayMax(b) \/ SetId(b)
                   \/ PullTissue(b) \/ Hear(b) \/ ShellPlay(b)
          PROVE  Inv'
      BY <3>2, ScanInv, SettingInv, PullInv, OthersInv
    <3> QED
      BY <2>2, <3>1, <3>2 DEF Next
  <2> QED
    BY <2>1, <2>2
<1> QED
  BY <1>1, <1>2, PTL DEF Spec

\* Counts stay those of a catalogue, and the limits of a delay numbers in ranges.
THEOREM AssignmentTypes == Spec => []TypeOK
<1>1. Inv => TypeOK
  BY DEF Inv
<1> QED
  BY <1>1, Invariance, PTL

\* Whatever is on the cards and in the messages, a box only plays files it has.
THEOREM PlaysFiles == Spec => []PlaysAnExistingFile
<1>1. Inv => PlaysAnExistingFile
  BY DEF Inv
<1> QED
  BY <1>1, Invariance, PTL

\* What a box assigns is a goat of its own other than its first, and its delay
\* lies in the ranges in force.
THEOREM AssignsSoundly == Spec => []AssignsInRange
<1>1. Inv => AssignsInRange
  BY DEF Inv
<1> QED
  BY <1>1, Invariance, PTL

-----------------------------------------------------------------------------
(* Messages say what is meant *)

\* A part as told: a sound below silence, or nothing.
Tellable == [type : Types, sound : 0..(Silent - 1), delay : Nat] \cup {NoPart}

PartsTold == air # None => air.parts \in [SlotSet -> Tellable]

LEMMA ToldTellable ==
    ASSUME NEW part \in Parts
    PROVE  Told(part) \in Tellable
<1>1. CASE part.sound >= Silent
  BY <1>1 DEF Told, Tellable
<1>2. CASE ~(part.sound >= Silent)
  <2>1. part.sound \in 0..(Silent - 1) /\ Cut(part.delay) \in Nat
    BY <1>2, SilentAssumption, DelayMaxAssumption DEF Parts, Cut
  <2>2. Told(part) = [part EXCEPT !.delay = Cut(part.delay)]
    BY <1>2 DEF Told
  <2>3. Told(part) \in [type : Types, sound : 0..(Silent - 1), delay : Nat]
    BY <2>1, <2>2 DEF Parts
  <2> QED
    BY <2>3 DEF Tellable
<1> QED
  BY <1>1, <1>2

\* Whatever words are drawn, a box draws parts.
LEMMA DrawnParts ==
    ASSUME Inv, NEW b \in Boxes, count[b][Goat] >= 2, NEW draw \in Draws
    PROVE  Drawn(b, draw) \in [SlotSet -> Parts]
<1>1. ASSUME NEW s \in SlotSet PROVE Drawn(b, draw)[s] \in Parts
  <2> DEFINE sound == WrapToRange(draw[s][1], 1, count[b][Goat] - 1)
             delay == WrapToRange(draw[s][2], delays[b][1], delays[b][2])
  <2>1. draw[s][1] \in Nat /\ draw[s][2] \in Nat
    BY DrawsAssumption, WordsAssumption DEF Words
  <2>2. count[b][Goat] \in 0..100 /\ delays[b] \in Nat \X Nat
    BY DEF Inv, TypeOK, Types
  <2>3. count[b][Goat] - 1 \in Nat /\ delays[b][1] \in Nat /\ delays[b][2] \in Nat
    BY <2>2
  <2>4. \A word, low, high \in Nat : WrapToRange(word, low, high) \in Nat
    <3> SUFFICES ASSUME NEW word \in Nat, NEW low \in Nat, NEW high \in Nat
                 PROVE  WrapToRange(word, low, high) \in Nat
      OBVIOUS
    <3>1. /\ low <= high => WrapToRange(word, low, high) \in low..high
          /\ low > high => WrapToRange(word, low, high) = low
      BY Wrapped
    <3> QED
      BY <3>1
  <2>5. sound \in Nat /\ delay \in Nat
    BY <2>1, <2>3, <2>4
  <2>6. Drawn(b, draw)[s] = [type |-> Goat, sound |-> sound, delay |-> delay]
    BY DEF Drawn, Part
  <2> HIDE DEF sound, delay
  <2> QED
    BY <2>5, <2>6 DEF Parts, Types
<1> QED
  BY <1>1 DEF Drawn

\* What the Mac's operator assigns are parts.
LEMMA MacDraws == ASSUME NEW parts \in MacParts PROVE parts \in [SlotSet -> Parts]
<1>1. parts \in [SlotSet -> [type : Types, sound : 0..Silent, delay : 0..DelayMax]]
  BY MacPartsAssumption
<1>2. ASSUME NEW s \in SlotSet PROVE parts[s] \in Parts
  <2>1. parts[s] \in [type : Types, sound : 0..Silent, delay : 0..DelayMax]
    BY <1>1
  <2> QED
    BY <2>1, SilentAssumption, DelayMaxAssumption DEF Parts
<1> QED
  BY <1>1, <1>2

\* A message with parts packed is meant, and its parts can be told.
LEMMA Sends ==
    ASSUME NEW parts \in [SlotSet -> Parts], NEW c \in Commands, NEW q \in Seqs,
           NEW from, NEW rs,
           air' = Message(SetSeq(SetCommand(PackSlots(parts), c), q), from,
                          [s \in SlotSet |-> Told(parts[s])], c, q, rs)
    PROVE  HeardAsMeant' /\ PartsTold'
<1>1. q \in 0..(TwoTo(SeqBits) - 1)
  BY SeqsAssumption
<1>2. Meant(air')
  BY <1>1, SentAsMeant
<1>3. air'.parts = [s \in SlotSet |-> Told(parts[s])]
  BY DEF Message
<1>4. air'.parts \in [SlotSet -> Tellable]
  BY <1>3, ToldTellable
<1> QED
  BY <1>2, <1>4 DEF Meant, HeardAsMeant, PartsTold

LEMMA SentStep ==
    ASSUME Inv, HeardAsMeant, PartsTold, [Next]_vars
    PROVE  HeardAsMeant' /\ PartsTold'
<1>1. CASE UNCHANGED air
  BY <1>1 DEF HeardAsMeant, PartsTold
<1>2. ASSUME NEW b \in Boxes, PullTissue(b), air' # air
      PROVE  HeardAsMeant' /\ PartsTold'
  <2>1. PICK draw \in Draws, seq \in Seqs :
          air' = Message(SetSeq(SetCommand(PackSlots(Drawn(b, draw)), Play), seq), b,
                         [s \in SlotSet |-> Told(Drawn(b, draw)[s])],
                         Play, seq, ranges[b])
    BY <1>2 DEF PullTissue
  <2>2. count[b][Goat] >= 2
    BY <1>2 DEF PullTissue
  <2>3. Drawn(b, draw) \in [SlotSet -> Parts]
    BY <2>2, DrawnParts
  <2>4. Play \in Commands
    BY DEF Play, Commands
  <2> QED
    BY <2>1, <2>3, <2>4, Sends
<1>3. CASE MacSends
  <2>1. PICK seq \in Seqs :
          \/ \E parts \in MacParts, command \in Commands :
               air' = Message(SetSeq(SetCommand(PackSlots(parts), command), seq),
                              Mac, [s \in SlotSet |-> Told(parts[s])], command, seq, {})
          \/ air' = Message(SetSeq(SetCommand(Zeros, Arm), seq), Mac,
                            [s \in SlotSet |-> NoPart], Arm, seq, {})
    BY <1>3 DEF MacSends
  <2>2. CASE \E parts \in MacParts, command \in Commands :
               air' = Message(SetSeq(SetCommand(PackSlots(parts), command), seq),
                              Mac, [s \in SlotSet |-> Told(parts[s])], command, seq, {})
    <3>1. PICK parts \in MacParts, command \in Commands :
               air' = Message(SetSeq(SetCommand(PackSlots(parts), command), seq),
                              Mac, [s \in SlotSet |-> Told(parts[s])], command, seq, {})
      BY <2>2
    <3> QED
      BY <3>1, MacDraws, Sends
  <2>3. CASE air' = Message(SetSeq(SetCommand(Zeros, Arm), seq), Mac,
                            [s \in SlotSet |-> NoPart], Arm, seq, {})
    <3>1. Zeros \in Payload /\ Arm \in Commands /\ Arm # Play
      BY DEF Zeros, Payload, Arm, Play, Commands
    <3>2. seq \in 0..(TwoTo(SeqBits) - 1)
      BY SeqsAssumption
    <3>3. /\ air'.command = Arm /\ air'.seq = seq
          /\ air'.bits = SetSeq(SetCommand(Zeros, Arm), seq)
          /\ air'.parts = [s \in SlotSet |-> NoPart]
      BY <2>3 DEF Message
    <3>4. GetCommand(air'.bits) = Arm /\ GetSeq(air'.bits) = seq
      BY <3>1, <3>2, <3>3, Stamped
    <3> QED
      BY <3>1, <3>3, <3>4 DEF HeardAsMeant, PartsTold, Tellable
  <2> QED
    BY <2>1, <2>2, <2>3
<1>4. CASE Next /\ air' # air
  <2>1. \A b \in Boxes : Scan(b) \/ SetDelayMin(b) \/ SetDelayMax(b) \/ SetId(b)
                           \/ Hear(b) \/ ShellPlay(b) => air' = air
    BY DEF Scan, SetDelayMin, SetDelayMax, SetId, Hear, ShellPlay, configVars
  <2> QED
    BY <1>2, <1>3, <1>4, <2>1 DEF Next
<1> QED
  BY <1>1, <1>4 DEF vars

LEMMA SentKept == Spec => [](Inv /\ HeardAsMeant /\ PartsTold)
<1>1. Init => HeardAsMeant /\ PartsTold
  BY DEF Init, HeardAsMeant, PartsTold
<1>2. Inv /\ HeardAsMeant /\ PartsTold /\ [Next]_vars => HeardAsMeant' /\ PartsTold'
  BY SentStep
<1> QED
  BY <1>1, <1>2, Invariance, PTL DEF Spec

\* For every layout of the payload, all parts and all stamps: every slot of a
\* message says what its sender meant and the command and the seq are read as
\* they were written (message.c, "each device reads only its own slot").
THEOREM SaysWhatIsMeant == Spec => []HeardAsMeant
BY SentKept, PTL

\* A type and an index that fit survive the byte between the radio and the
\* main loop (ble_encode.h).
LEMMA Decoded ==
    ASSUME NEW type \in Types, NEW index \in 0..127
    PROVE  /\ DecodeType(Encode(type, index)) = type
           /\ DecodeIndex(Encode(type, index)) = index
<1>1. CASE type = Goat
  <2>1. Encode(type, index) = index
    BY <1>1 DEF Encode, Goat
  <2> QED
    BY <1>1, <2>1 DEF DecodeType, DecodeIndex
<1>2. CASE type = Misc
  <2>1. Encode(type, index) = 128 + index
    BY <1>2 DEF Encode, Misc
  <2> QED
    BY <1>2, <2>1 DEF DecodeType, DecodeIndex
<1> QED
  BY <1>1, <1>2 DEF Types

LEMMA PartPlayed ==
    ASSUME Inv, HeardAsMeant, PartsTold, NEW b \in Boxes, Hear(b)
    PROVE  /\ air.command = Play
           /\ slot[b] # NoSlot
           /\ Part(playing'.type, playing'.index, playing'.delay) = air.parts[slot[b]]
<1> DEFINE part == ParseSlot(air.bits, slot[b])
           sound == Encode(part.type, part.sound)
<1>1. /\ air # None /\ GetCommand(air.bits) = Play /\ part # NoPart
      /\ playing' = Sound(b, DecodeType(sound), DecodeIndex(sound), part.delay)
  BY DEF Hear
<1>2. air.command = Play
  BY <1>1 DEF HeardAsMeant
<1>3. slot[b] # NoSlot
  BY <1>1 DEF ParseSlot
<1>4. slot[b] \in SlotSet
  BY <1>3 DEF Inv, TypeOK
<1>5. part = air.parts[slot[b]]
  BY <1>1, <1>2, <1>4 DEF HeardAsMeant
<1> HIDE DEF part
<1>6. part \in [type : Types, sound : 0..(Silent - 1), delay : Nat]
  BY <1>1, <1>4, <1>5 DEF PartsTold, Tellable
<1>7. part.type \in Types /\ part.sound \in 0..127
  BY <1>6, SilentAssumption, IndexAssumption
<1>8. DecodeType(sound) = part.type /\ DecodeIndex(sound) = part.sound
  BY <1>7, Decoded
<1>9. /\ playing'.type = part.type /\ playing'.index = part.sound
      /\ playing'.delay = part.delay
  BY <1>1, <1>8 DEF Sound
<1>10. Part(part.type, part.sound, part.delay) = part
  BY <1>6 DEF Part
<1> QED
  BY <1>2, <1>3, <1>5, <1>9, <1>10

\* Whatever has been sent, set and scanned before, a box that plays at a
\* message plays the part meant for its slot.
THEOREM PlaysOwnPart == Spec => PlaysItsPart
<1>1. Inv /\ HeardAsMeant /\ PartsTold /\ [Next]_vars
        => [\A b \in Boxes : Hear(b) =>
              /\ air.command = Play
              /\ slot[b] # NoSlot
              /\ Part(playing'.type, playing'.index, playing'.delay) = air.parts[slot[b]]]_vars
  BY PartPlayed
<1> QED
  BY <1>1, SentKept, PTL DEF Spec, PlaysItsPart
=============================================================================
