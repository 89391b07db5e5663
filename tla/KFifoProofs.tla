----------------------------- MODULE KFifoProofs -----------------------------
(***************************************************************************)
(* Machine-checked proofs about KFifo, for every ring size, every width of *)
(* the indices that the size divides, and every request.                   *)
(***************************************************************************)
EXTENDS KFifo, TLAPS

(* Arithmetic of remainders.                                               *)

\* What the remainder of an index is.
LEMMA ModDef ==
    ASSUME NEW x \in Int, NEW m \in Nat \ {0}
    PROVE  x % m \in 0..m-1 /\ x \div m \in Int /\ x = m * (x \div m) + (x % m)
  OBVIOUS

\* The quotient that goes with a remainder.
LEMMA ModPick ==
    ASSUME NEW x \in Int, NEW m \in Nat \ {0}
    PROVE  \E p \in Int, r \in 0..m-1 : x = m * p + r /\ r = x % m
  BY ModDef

\* The only multiple of m strictly between -m and m is 0.
LEMMA SmallMultiple ==
    ASSUME NEW m \in Nat \ {0}, NEW q \in Int, -m < m * q, m * q < m
    PROVE  q = 0
  <1>1. CASE q >= 1
    <2>1. m * q >= m
      BY <1>1, SMT
    <2> QED
      BY <2>1
  <1>2. CASE q <= -1
    <2>1. m * q <= -m
      BY <1>2, SMT
    <2> QED
      BY <2>1
  <1> QED
    BY <1>1, <1>2

\* A remainder is determined by its range.
LEMMA ModUnique ==
    ASSUME NEW m \in Nat \ {0}, NEW q \in Int, NEW r \in 0..m-1
    PROVE  (m * q + r) % m = r
  <1> DEFINE x == m * q + r
  <1>1. x \in Int
    OBVIOUS
  <1>2. x % m \in 0..m-1 /\ x \div m \in Int /\ x = m * (x \div m) + (x % m)
    BY <1>1, ModDef
  <1> HIDE DEF x
  <1>3. PICK p \in Int, e \in 0..m-1 : x = m * p + e /\ e = x % m
    BY <1>2
  <1>4. m * (p - q) = r - e
    <2>1. m * (p - q) = m * p - m * q
      BY SMT
    <2> QED
      BY <2>1, <1>3 DEF x
  <1>5. p - q = 0
    <2>1. -m < m * (p - q) /\ m * (p - q) < m
      BY <1>4
    <2> QED
      BY <2>1, SmallMultiple
  <1>6. p = q
    BY <1>5
  <1>7. r = e
    BY <1>3, <1>6 DEF x
  <1> QED
    BY <1>3, <1>7 DEF x

\* Adding a multiple of a multiple of m.
LEMMA ModShift ==
    ASSUME NEW m \in Nat \ {0}, NEW k \in Nat, NEW q \in Int, NEW x \in Int
    PROVE  (x + (k * m) * q) % m = x % m
  <1>1. PICK p \in Int, e \in 0..m-1 : x = m * p + e /\ e = x % m
    BY ModDef
  <1>2. x + (k * m) * q = m * (p + k * q) + e
    <2>1. (k * m) * q = m * (k * q)
      BY SMT
    <2>2. m * (p + k * q) = m * p + m * (k * q)
      BY SMT
    <2> QED
      BY <2>1, <2>2, <1>1
  <1>3. (m * (p + k * q) + e) % m = e
    <2>1. p + k * q \in Int
      OBVIOUS
    <2> QED
      BY <2>1, ModUnique
  <1> QED
    BY <1>1, <1>2, <1>3

-----------------------------------------------------------------------------
(* Indices and slots.                                                      *)

\* The modulus of the indices exceeds the size of the ring.
LEMMA ModulusFacts == Modulus \in Nat \ {0} /\ Size \in Nat \ {0} /\ Size < Modulus
  <1>1. PICK k \in 2..Modulus : Modulus = k * Size
    BY SizeAssumption
  <1>2. k * Size >= 2 * Size
    BY <1>1, SizeAssumption, SMT
  <1> QED
    BY <1>1, <1>2, SizeAssumption

\* Sums and differences of two indices wrap at most once.
LEMMA Wrap ==
    ASSUME NEW x \in Int
    PROVE  /\ 0 <= x /\ x < Modulus => x % Modulus = x
           /\ Modulus <= x /\ x < 2 * Modulus => x % Modulus = x - Modulus
           /\ -Modulus <= x /\ x < 0 => x % Modulus = x + Modulus
  <1>1. ASSUME 0 <= x, x < Modulus PROVE x % Modulus = x
    <2>1. (Modulus * 0 + x) % Modulus = x
      BY <1>1, ModulusFacts, ModUnique
    <2> QED
      BY <2>1, ModulusFacts
  <1>2. ASSUME Modulus <= x, x < 2 * Modulus PROVE x % Modulus = x - Modulus
    <2>1. (Modulus * 1 + (x - Modulus)) % Modulus = x - Modulus
      BY <1>2, ModulusFacts, ModUnique
    <2> QED
      BY <2>1, ModulusFacts
  <1>3. ASSUME -Modulus <= x, x < 0 PROVE x % Modulus = x + Modulus
    <2>1. (Modulus * (-1) + (x + Modulus)) % Modulus = x + Modulus
      BY <1>3, ModulusFacts, ModUnique
    <2> QED
      BY <2>1, ModulusFacts
  <1> QED
    BY <1>1, <1>2, <1>3

\* A wrapped index designates the same slot as the unwrapped one.
LEMMA IndexSlot ==
    ASSUME NEW x \in Int, NEW j \in Int
    PROVE  ((x % Modulus) + j) % Size = (x + j) % Size
  <1>1. PICK k \in 2..Modulus : Modulus = k * Size
    BY SizeAssumption
  <1>2. PICK p \in Int, r \in 0..Modulus - 1 : x = Modulus * p + r /\ r = x % Modulus
    BY ModulusFacts, ModPick
  <1>3. (x % Modulus) + j = (x + j) + (k * Size) * (-p)
    <2>1. Modulus * (-p) = -(Modulus * p)
      BY ModulusFacts, SMT
    <2> QED
      BY <1>1, <1>2, <2>1, ModulusFacts
  <1>4. k \in Nat /\ -p \in Int /\ x + j \in Int
    BY <1>1, ModulusFacts
  <1>5. ((x + j) + (k * Size) * (-p)) % Size = (x + j) % Size
    BY ZenonT(30), <1>4, ModulusFacts, ModShift
  <1> QED
    BY <1>3, <1>5

\* A reduced index is a slot of the buffer.
LEMMA SlotType == ASSUME NEW x \in Int PROVE x % Size \in 0..Size - 1
  BY ModulusFacts, ModDef

\* Two indices less than a ring apart designate different slots.
LEMMA SlotsDiffer ==
    ASSUME NEW x \in Int, NEW y \in Int, x < y, y - x < Size
    PROVE  x % Size # y % Size
  <1> SUFFICES ASSUME x % Size = y % Size PROVE FALSE
    OBVIOUS
  <1>1. PICK p \in Int, r \in 0..Size - 1 : x = Size * p + r /\ r = x % Size
    BY ModulusFacts, ModPick
  <1>2. PICK q \in Int, e \in 0..Size - 1 : y = Size * q + e /\ e = y % Size
    BY ModulusFacts, ModPick
  <1>3. Size * (q - p) = y - x
    <2>1. Size * (q - p) = Size * q - Size * p
      BY ModulusFacts, SMT
    <2> QED
      BY <2>1, <1>1, <1>2, ModulusFacts
  <1>4. q - p = 0
    <2>1. -Size < Size * (q - p) /\ Size * (q - p) < Size
      BY <1>3, ModulusFacts
    <2> QED
      BY <2>1, ModulusFacts, SmallMultiple
  <1> QED
    BY <1>3, <1>4, ModulusFacts

\* The two memcpy() calls together address consecutive slots of the ring.
LEMMA SlotIs ==
    ASSUME NEW start \in Nat, NEW len \in 0..Size, NEW j \in 0..len - 1
    PROVE  Slot(start, len, j) = (start + j) % Size
  <1>1. PICK p \in Int, r \in 0..Size - 1 : start = Size * p + r /\ r = start % Size
    BY ModulusFacts, ModPick
  <1> DEFINE l == Least(len, Size - r)
  <1>2. Slot(start, len, j) = IF j < l THEN r + j ELSE j - l
    BY <1>1 DEF Slot
  <1>3. CASE j < l
    <2>1. r + j \in 0..Size - 1
      BY <1>3, ModulusFacts DEF Least
    <2>2. start + j = Size * p + (r + j)
      BY <1>1, ModulusFacts
    <2> QED
      BY ZenonT(30), <1>2, <1>3, <2>1, <2>2, ModulusFacts, ModUnique
  <1>4. CASE ~(j < l)
    <2>1. l = Size - r /\ j - l = r + j - Size /\ j - l \in 0..Size - 1
      BY <1>4, ModulusFacts DEF Least
    <2>2. start + j = Size * (p + 1) + (j - l)
      <3>1. Size * (p + 1) = Size * p + Size
        BY ModulusFacts, SMT
      <3> QED
        BY <3>1, <1>1, <2>1, ModulusFacts
    <2>3. p + 1 \in Int
      OBVIOUS
    <2>4. (Size * (p + 1) + (j - l)) % Size = j - l
      BY <2>1, <2>3, ModulusFacts, ModUnique
    <2> QED
      BY <1>2, <1>4, <2>2, <2>4
  <1> QED
    BY <1>3, <1>4

\* The producer's index is the length away from the consumer's.
LEMMA LenFacts ==
    ASSUME NEW i \in 0..Modulus - 1, NEW o \in 0..Modulus - 1
    PROVE  /\ (i - o) % Modulus \in 0..Modulus - 1
           /\ \A j \in Int : (i + j) % Size = (o + ((i - o) % Modulus) + j) % Size
  <1>1. (i - o) % Modulus \in 0..Modulus - 1
    BY ModulusFacts, ModDef
  <1>2. ASSUME NEW j \in Int
        PROVE  (i + j) % Size = (o + ((i - o) % Modulus) + j) % Size
    <2>1. (((i - o) % Modulus) + (o + j)) % Size = ((i - o) + (o + j)) % Size
      <3>1. i - o \in Int /\ o + j \in Int
        BY ModulusFacts
      <3> QED
        BY <3>1, IndexSlot
    <2>2. (i - o) + (o + j) = i + j
      BY ModulusFacts
    <2>3. ((i - o) % Modulus) + (o + j) = o + ((i - o) % Modulus) + j
      BY <1>1, ModulusFacts
    <2> QED
      BY <2>1, <2>2, <2>3
  <1> QED
    BY <1>1, <1>2

\* Publishing len bytes lengthens the FIFO by len, across a wrap of in.
LEMMA AdvanceIn ==
    ASSUME NEW i \in 0..Modulus - 1, NEW o \in 0..Modulus - 1, NEW len \in Nat,
           ((i - o) % Modulus) + len < Modulus
    PROVE  /\ (i + len) % Modulus \in 0..Modulus - 1
           /\ (((i + len) % Modulus) - o) % Modulus = ((i - o) % Modulus) + len
  <1>1. len < Modulus /\ i + len \in Nat /\ i + len < 2 * Modulus /\ i - o \in Int
    BY LenFacts, ModulusFacts
  <1>2. (i + len) % Modulus = IF i + len < Modulus THEN i + len ELSE i + len - Modulus
    BY <1>1, Wrap, ModulusFacts
  <1>3. (i - o) % Modulus = IF i < o THEN i - o + Modulus ELSE i - o
    BY <1>1, Wrap, ModulusFacts
  <1> DEFINE x == ((i + len) % Modulus) - o
  <1>4. x \in Int /\ -Modulus <= x /\ x < Modulus
    BY <1>1, <1>2, ModulusFacts
  <1>5. x % Modulus = IF x < 0 THEN x + Modulus ELSE x
    BY <1>4, Wrap, ModulusFacts
  <1> QED
    BY <1>1, <1>2, <1>3, <1>5, ModulusFacts

\* Consuming n bytes shortens the FIFO by n, across a wrap of out.
LEMMA AdvanceOut ==
    ASSUME NEW i \in 0..Modulus - 1, NEW o \in 0..Modulus - 1, NEW n \in Nat,
           n <= (i - o) % Modulus
    PROVE  /\ (o + n) % Modulus \in 0..Modulus - 1
           /\ (i - ((o + n) % Modulus)) % Modulus = ((i - o) % Modulus) - n
  <1>1. n < Modulus /\ o + n \in Nat /\ o + n < 2 * Modulus /\ i - o \in Int
    BY LenFacts, ModulusFacts
  <1>2. (o + n) % Modulus = IF o + n < Modulus THEN o + n ELSE o + n - Modulus
    BY <1>1, Wrap, ModulusFacts
  <1>3. (i - o) % Modulus = IF i < o THEN i - o + Modulus ELSE i - o
    BY <1>1, Wrap, ModulusFacts
  <1> DEFINE x == i - ((o + n) % Modulus)
  <1>4. x \in Int /\ -Modulus <= x /\ x < Modulus
    BY <1>1, <1>2, ModulusFacts
  <1>5. x % Modulus = IF x < 0 THEN x + Modulus ELSE x
    BY <1>4, Wrap, ModulusFacts
  <1> QED
    BY <1>1, <1>2, <1>3, <1>5, ModulusFacts

-----------------------------------------------------------------------------
(* The invariant of the ring, with or without a lock.                      *)

\* What the producer has copied lies behind in, where the consumer will find it.
ProducerInv ==
    /\ put = -1 => putting = <<>>
    /\ put <= Len(putting)
    /\ \A j \in 0..put - 1 : buffer[(in + j) % Size] = putting[j + 1]

ConsumerInv ==
    /\ getting = -1 => copied = <<>>
    /\ getting # -1 => /\ Len(copied) <= getting /\ getting <= KfifoLen
                       /\ \A i \in 1..Len(copied) : copied[i] = buffer[(out + i - 1) % Size]

RingInv == TypeOK /\ NeverOverfull /\ ProducerInv /\ ConsumerInv

\* The contents of the FIFO, byte by byte.
LEMMA ContentsFacts ==
    ASSUME TypeOK
    PROVE  /\ KfifoLen \in 0..Modulus - 1
           /\ Contents \in Seq(Values) /\ Len(Contents) = KfifoLen
           /\ \A i \in 1..KfifoLen : Contents[i] = buffer[(out + i - 1) % Size]
  <1>1. KfifoLen \in 0..Modulus - 1
    BY LenFacts DEF TypeOK, KfifoLen
  <1>2. \A i \in 1..KfifoLen : (out + i - 1) % Size \in 0..Size - 1
    BY <1>1, ModulusFacts, ModDef DEF TypeOK
  <1>3. Contents \in [1..KfifoLen -> Values]
    BY <1>2 DEF TypeOK, Contents
  <1> QED
    BY <1>1, <1>3 DEF Contents

\* A prefix of a sequence, element by element.
LEMMA PrefixIs ==
    ASSUME NEW S, NEW s \in Seq(S), NEW c \in Seq(S), Len(c) <= Len(s),
           \A i \in 1..Len(c) : c[i] = s[i]
    PROVE  c = SubSeq(s, 1, Len(c))
  OBVIOUS

\* A concatenation, element by element.
LEMMA ConcatIs ==
    ASSUME NEW S, NEW s \in Seq(S), NEW c \in Seq(S), NEW u \in Seq(S),
           Len(u) = Len(s) + Len(c),
           \A i \in 1..Len(s) : u[i] = s[i],
           \A i \in 1..Len(c) : u[Len(s) + i] = c[i]
    PROVE  u = s \o c
  <1>1. Len(s \o c) = Len(u) /\ s \o c \in Seq(S)
    OBVIOUS
  <1>2. \A i \in 1..Len(u) : u[i] = (s \o c)[i]
    <2> TAKE i \in 1..Len(u)
    <2>1. CASE i <= Len(s)
      BY <2>1
    <2>2. CASE i > Len(s)
      <3>1. i - Len(s) \in 1..Len(c) /\ Len(s) + (i - Len(s)) = i
        BY <2>2
      <3>2. u[i] = c[i - Len(s)]
        BY <3>1
      <3> QED
        BY <2>2, <3>1, <3>2
    <2> QED
      BY <2>1, <2>2
  <1> QED
    BY <1>1, <1>2

\* The types and bounds that the steps use.
LEMMA BasicFacts ==
    ASSUME RingInv
    PROVE  /\ in \in 0..Modulus - 1 /\ out \in 0..Modulus - 1 /\ in \in Nat /\ out \in Nat
           /\ KfifoLen \in Nat /\ Len(putting) \in Nat /\ putting \in Seq(Values)
           /\ KfifoLen + Len(putting) <= Size /\ KfifoLen <= Size
           /\ buffer \in [0..Size - 1 -> Values]
  <1>1. /\ in \in 0..Modulus - 1 /\ out \in 0..Modulus - 1 /\ putting \in Seq(Values)
        /\ buffer \in [0..Size - 1 -> Values]
    BY DEF RingInv, TypeOK
  <1>2. KfifoLen \in 0..Modulus - 1 /\ KfifoLen + Len(putting) <= Size
    BY ContentsFacts DEF RingInv, NeverOverfull
  <1>3. KfifoLen \in Nat /\ Len(putting) \in Nat /\ in \in Nat /\ out \in Nat
    BY <1>1, <1>2
  <1> QED
    BY <1>1, <1>2, <1>3, ModulusFacts

\* The invariant says what the consumer may rely on.
LEMMA ReadStableCorrect == RingInv => ReadStable
  <1> SUFFICES ASSUME RingInv, getting # -1
               PROVE  /\ Len(copied) <= getting /\ getting <= KfifoLen
                      /\ copied = SubSeq(Contents, 1, Len(copied))
    BY DEF ReadStable
  <1>1. Len(copied) <= getting /\ getting <= KfifoLen /\ getting \in Nat
    BY DEF RingInv, ConsumerInv, TypeOK
  <1>2. copied \in Seq(Values) /\ Contents \in Seq(Values) /\ Len(Contents) = KfifoLen
    BY ContentsFacts DEF RingInv, TypeOK
  <1>3. Len(copied) \in Nat /\ KfifoLen \in Nat
    BY <1>2
  <1>4. \A i \in 1..Len(copied) : copied[i] = Contents[i]
    BY <1>1, <1>3, ContentsFacts DEF RingInv, ConsumerInv
  <1> QED
    BY <1>1, <1>2, <1>3, <1>4, PrefixIs

\* A new FIFO satisfies the invariant and maps to an empty one.
LEMMA InitRingInv == Init => RingInv /\ Abstract!FInit
  <1> SUFFICES ASSUME Init PROVE RingInv /\ Abstract!FInit
    OBVIOUS
  <1>1. KfifoLen = 0
    BY Wrap, ModulusFacts DEF Init, KfifoLen
  <1>2. TypeOK
    BY ModulusFacts DEF Init, TypeOK
  <1>3. NeverOverfull /\ ProducerInv /\ ConsumerInv
    BY <1>1, ModulusFacts DEF Init, NeverOverfull, ProducerInv, ConsumerInv
  <1>4. Contents = <<>>
    BY <1>1, <1>2, ContentsFacts
  <1> QED
    BY <1>2, <1>3, <1>4 DEF Init, RingInv, Abstract!FInit

\* A request to put is a sequence of bytes.
LEMMA RequestType == ASSUME NEW d \in Requests PROVE d \in Seq(Values)
  BY SizeAssumption DEF Requests

\* The unsigned subtraction of __kfifo_put() is the free space.
LEMMA RoomIs == ASSUME RingInv PROVE Room = Size - KfifoLen /\ KfifoLen \in 0..Size
  <1>1. in \in 0..Modulus - 1 /\ out \in 0..Modulus - 1 /\ KfifoLen <= Size
    BY BasicFacts
  <1>2. KfifoLen = IF in < out THEN in - out + Modulus ELSE in - out
    BY <1>1, Wrap, ModulusFacts DEF KfifoLen
  <1>3. Size - in + out \in Int
    BY <1>1, ModulusFacts
  <1> QED
    BY <1>1, <1>2, <1>3, Wrap, ModulusFacts DEF Room

-----------------------------------------------------------------------------
(* The steps.                                                              *)

\* __kfifo_put() reads out.
LEMMA PutSampleStep ==
    ASSUME RingInv, UNCHANGED locked, NEW d \in Requests, PutSample(d)
    PROVE  RingInv' /\ Abstract!FNext
  <1>1. d \in Seq(Values) /\ Len(d) \in Nat
    BY RequestType
  <1>2. Room = Size - KfifoLen /\ KfifoLen \in 0..Size
    BY RoomIs
  <1> DEFINE len == Least(Len(d), Room)
  <1>3. len \in 0..Len(d) /\ KfifoLen + len <= Size
    BY <1>1, <1>2, ModulusFacts DEF Least
  <1>4. putting' = SubSeq(d, 1, len) /\ put' = 0 /\ putting = <<>>
    BY DEF PutSample, RingInv, ProducerInv
  <1>5. UNCHANGED <<buffer, in, out, getting, copied, got>>
    BY DEF PutSample, consumer
  <1> HIDE DEF len
  <1>6. putting' \in Seq(Values) /\ Len(putting') = len
    BY <1>1, <1>3, <1>4
  <1>7. KfifoLen' = KfifoLen /\ Contents' = Contents
    BY <1>5 DEF KfifoLen, Contents
  <1>8. RingInv'
    BY <1>3, <1>4, <1>5, <1>6, <1>7
       DEF RingInv, TypeOK, NeverOverfull, ProducerInv, ConsumerInv
  <1>9. Len(Contents) = KfifoLen
    BY ContentsFacts DEF RingInv
  <1>10. Abstract!Accept
    BY <1>3, <1>4, <1>5, <1>6, <1>7, <1>9 DEF Abstract!Accept
  <1> QED
    BY <1>8, <1>10 DEF Abstract!FNext

\* __kfifo_put() copies a byte.
LEMMA PutCopyStep ==
    ASSUME RingInv, UNCHANGED locked, PutCopy
    PROVE  RingInv' /\ UNCHANGED <<Contents, putting, got>>
  <1>1. /\ put \in Nat /\ put < Len(putting) /\ put' = put + 1 /\ in \in Nat /\ out \in Nat
        /\ UNCHANGED <<in, out, putting, getting, copied, got>>
    BY DEF PutCopy, consumer, RingInv, TypeOK
  <1>2. KfifoLen \in Nat /\ Len(putting) \in Nat /\ KfifoLen + Len(putting) <= Size
    BY BasicFacts
  <1> DEFINE w == (in + put) % Size
  <1>3. buffer' = [buffer EXCEPT ![w] = putting[put + 1]] /\ putting[put + 1] \in Values
    <2>1. put \in 0..Len(putting) - 1 /\ Len(putting) \in 0..Size /\ put + 1 \in 1..Len(putting)
      BY <1>1, <1>2, ModulusFacts
    <2>2. Slot(in, Len(putting), put) = w
      BY <1>1, <2>1, SlotIs
    <2>3. putting[put + 1] \in Values
      BY <2>1, BasicFacts
    <2> QED
      BY <2>2, <2>3 DEF PutCopy
  <1>4. w \in 0..Size - 1 /\ w = (out + KfifoLen + put) % Size
    <2>1. in + put \in Int /\ put \in Int
      BY <1>1
    <2>2. in \in 0..Modulus - 1 /\ out \in 0..Modulus - 1
      BY BasicFacts
    <2>3. w = (out + KfifoLen + put) % Size
      BY <2>1, <2>2, LenFacts DEF KfifoLen
    <2> QED
      BY <2>1, <2>3, SlotType
  <1>5. \A i \in 1..KfifoLen : (out + i - 1) % Size # w
    <2> TAKE i \in 1..KfifoLen
    <2> DEFINE x == out + i - 1
               y == out + KfifoLen + put
    <2>1. x \in Int /\ y \in Int /\ x < y /\ y - x < Size
      BY <1>1, <1>2, ModulusFacts
    <2>2. x % Size # y % Size
      BY <2>1, SlotsDiffer
    <2> QED
      BY <1>4, <2>2
  <1>6. \A j \in 0..put - 1 : (in + j) % Size # w
    <2> TAKE j \in 0..put - 1
    <2> DEFINE x == in + j
               y == in + put
    <2>1. x \in Int /\ y \in Int /\ x < y /\ y - x < Size
      BY <1>1, <1>2, ModulusFacts
    <2> QED
      BY <2>1, SlotsDiffer
  <1>w. w \in DOMAIN buffer /\ buffer \in [0..Size - 1 -> Values]
    BY <1>4 DEF RingInv, TypeOK
  <1> HIDE DEF w
  <1>7. buffer' \in [0..Size - 1 -> Values] /\ buffer'[w] = putting[put + 1]
    BY <1>3, <1>w
  <1>8. \A s : s # w => buffer'[s] = buffer[s]
    BY <1>3, <1>w
  <1>9. KfifoLen' = KfifoLen /\ Contents' = Contents
    BY <1>1, <1>5, <1>8 DEF KfifoLen, Contents
  <1>10. TypeOK' /\ NeverOverfull'
    BY <1>1, <1>7, <1>9 DEF RingInv, TypeOK, NeverOverfull
  <1>11. ProducerInv'
    <2>1. \A j \in 0..put' - 1 : buffer'[(in' + j) % Size] = putting'[j + 1]
      <3> TAKE j \in 0..put' - 1
      <3>1. CASE j = put
        BY <3>1, <1>1, <1>7 DEF w
      <3>2. CASE j # put
        <4>1. j \in 0..put - 1
          BY <3>2, <1>1
        <4> QED
          BY <4>1, <1>1, <1>6, <1>8 DEF RingInv, ProducerInv
      <3> QED
        BY <3>1, <3>2
    <2> QED
      BY <1>1, <1>2, <2>1 DEF ProducerInv
  <1>12. ConsumerInv'
    <2>1. ASSUME getting # -1, NEW i \in 1..Len(copied)
          PROVE  copied[i] = buffer'[(out + i - 1) % Size]
      <3>1. i \in 1..KfifoLen
        BY <1>2, <2>1 DEF RingInv, TypeOK, ConsumerInv
      <3> QED
        BY <3>1, <2>1, <1>5, <1>8 DEF RingInv, ConsumerInv
    <2> QED
      BY <1>1, <1>9, <2>1 DEF RingInv, ConsumerInv
  <1> QED
    BY <1>1, <1>9, <1>10, <1>11, <1>12 DEF RingInv

\* __kfifo_put() stores in: the abstract put.
LEMMA PutPublishStep ==
    ASSUME RingInv, UNCHANGED locked, PutPublish
    PROVE  RingInv' /\ Abstract!FNext
  <1>1. /\ put \in Nat /\ put = Len(putting) /\ put' = -1 /\ putting' = <<>>
        /\ in' = (in + Len(putting)) % Modulus
        /\ UNCHANGED <<buffer, out, getting, copied, got>>
    BY DEF PutPublish, consumer, RingInv, TypeOK
  <1>2. /\ KfifoLen \in Nat /\ Len(putting) \in Nat /\ KfifoLen + Len(putting) <= Size
        /\ in \in 0..Modulus - 1 /\ out \in 0..Modulus - 1 /\ putting \in Seq(Values)
    BY BasicFacts
  <1>3. in' \in 0..Modulus - 1 /\ KfifoLen' = KfifoLen + Len(putting)
    <2>1. KfifoLen + Len(putting) < Modulus
      BY <1>2, ModulusFacts
    <2> QED
      BY <1>1, <1>2, <2>1, AdvanceIn DEF KfifoLen
  <1>4. TypeOK'
    BY <1>1, <1>3 DEF RingInv, TypeOK
  <1>5. NeverOverfull' /\ ProducerInv'
    BY <1>1, <1>2, <1>3 DEF NeverOverfull, ProducerInv
  <1>6. ConsumerInv'
    BY <1>1, <1>2, <1>3 DEF RingInv, TypeOK, ConsumerInv
  <1>7. /\ Contents \in Seq(Values) /\ Len(Contents) = KfifoLen
        /\ Contents' \in Seq(Values) /\ Len(Contents') = KfifoLen + Len(putting)
    <2>1. Contents' \in Seq(Values) /\ Len(Contents') = KfifoLen'
      <3>1. KfifoLen' \in Nat /\ Contents' = [i \in 1..KfifoLen' |-> buffer[(out + i - 1) % Size]]
        BY <1>1, <1>2, <1>3 DEF Contents
      <3>2. \A i \in 1..KfifoLen' : (out + i - 1) % Size \in 0..Size - 1
        <4> TAKE i \in 1..KfifoLen'
        <4>1. out + i - 1 \in Int
          BY <1>2, <3>1
        <4> QED
          BY <4>1, SlotType
      <3>3. \A i \in 1..KfifoLen' : buffer[(out + i - 1) % Size] \in Values
        BY <3>2 DEF RingInv, TypeOK
      <3> QED
        BY <3>1, <3>3
    <2> QED
      BY <2>1, <1>3, ContentsFacts DEF RingInv
  <1>8. \A i \in 1..KfifoLen : Contents'[i] = Contents[i]
    BY <1>1, <1>2, <1>3 DEF Contents
  <1>9. \A j \in 1..Len(putting) : Contents'[KfifoLen + j] = putting[j]
    <2> TAKE j \in 1..Len(putting)
    <2>1. Contents'[KfifoLen + j] = buffer[(out + (KfifoLen + j) - 1) % Size]
      BY <1>1, <1>2, <1>3 DEF Contents
    <2>2. j - 1 \in 0..put - 1 /\ (j - 1) + 1 = j
      BY <1>1, <1>2
    <2>3. buffer[(in + (j - 1)) % Size] = putting[j]
      BY <2>2 DEF RingInv, ProducerInv
    <2>4. j - 1 \in Int
      BY <2>2
    <2>5. (in + (j - 1)) % Size = (out + KfifoLen + (j - 1)) % Size
      BY <2>4, <1>2, LenFacts DEF KfifoLen
    <2>6. out + KfifoLen + (j - 1) = out + (KfifoLen + j) - 1
      BY <1>2
    <2> QED
      BY <2>1, <2>3, <2>5, <2>6
  <1>10. Contents' = Contents \o putting
    BY <1>2, <1>7, <1>8, <1>9, ConcatIs
  <1>11. Abstract!Commit
    BY <1>1, <1>10 DEF Abstract!Commit
  <1> QED
    BY <1>4, <1>5, <1>6, <1>11 DEF RingInv, Abstract!FNext

\* __kfifo_get() reads in.
LEMMA GetSampleStep ==
    ASSUME RingInv, UNCHANGED locked, NEW n \in 0..MaxLen, GetSample(n)
    PROVE  RingInv' /\ UNCHANGED <<Contents, putting, got>>
  <1>1. /\ getting' = Least(n, KfifoLen) /\ copied = <<>>
        /\ UNCHANGED <<buffer, in, out, putting, put, copied, got>>
    BY DEF GetSample, producer, RingInv, ConsumerInv
  <1>2. getting' \in Nat /\ getting' <= KfifoLen
    BY <1>1, BasicFacts, SizeAssumption DEF Least
  <1>3. KfifoLen' = KfifoLen /\ Contents' = Contents
    BY <1>1 DEF KfifoLen, Contents
  <1> QED
    BY <1>1, <1>2, <1>3 DEF RingInv, TypeOK, NeverOverfull, ProducerInv, ConsumerInv

\* __kfifo_get() copies a byte.
LEMMA GetCopyStep ==
    ASSUME RingInv, UNCHANGED locked, GetCopy
    PROVE  RingInv' /\ UNCHANGED <<Contents, putting, got>>
  <1> DEFINE c == Len(copied)
  <1>1. /\ UNCHANGED <<buffer, in, out, putting, put, getting, got>>
        /\ c < getting /\ copied' = Append(copied, buffer[Slot(out, getting, c)])
    BY DEF GetCopy, producer
  <1>2. c \in Nat /\ copied \in Seq(Values) /\ getting \in Nat \cup {-1}
    BY DEF RingInv, TypeOK
  <1>3. getting \in Nat /\ getting <= KfifoLen
    BY <1>1, <1>2 DEF RingInv, ConsumerInv
  <1>4. Slot(out, getting, c) = (out + c) % Size
    <2>1. getting \in 0..Size /\ c \in 0..getting - 1
      BY <1>1, <1>2, <1>3, BasicFacts, ModulusFacts
    <2> QED
      BY <2>1, BasicFacts, SlotIs
  <1>5. (out + c) % Size \in 0..Size - 1
    <2>1. out + c \in Int
      BY <1>2, BasicFacts
    <2> QED
      BY <2>1, SlotType
  <1>6. buffer[(out + c) % Size] \in Values
    BY <1>5, BasicFacts
  <1>7. /\ copied' \in Seq(Values) /\ Len(copied') = c + 1
        /\ copied'[c + 1] = buffer[(out + c) % Size]
        /\ \A i \in 1..c : copied'[i] = copied[i]
    BY <1>1, <1>2, <1>4, <1>6
  <1>8. KfifoLen' = KfifoLen /\ Contents' = Contents
    BY <1>1 DEF KfifoLen, Contents
  <1>9. \A i \in 1..Len(copied') : copied'[i] = buffer[(out + i - 1) % Size]
    <2> TAKE i \in 1..Len(copied')
    <2>1. CASE i = c + 1
      <3>1. out + i - 1 = out + c
        BY <2>1, <1>2, BasicFacts
      <3> QED
        BY <2>1, <3>1, <1>7
    <2>2. CASE i # c + 1
      <3>1. i \in 1..c
        BY <2>2, <1>2, <1>7
      <3> QED
        BY <3>1, <1>3, <1>7 DEF RingInv, ConsumerInv
    <2> QED
      BY <2>1, <2>2
  <1>10. ConsumerInv'
    BY <1>1, <1>2, <1>3, <1>7, <1>8, <1>9 DEF ConsumerInv
  <1>11. TypeOK' /\ NeverOverfull' /\ ProducerInv'
    BY <1>1, <1>7, <1>8 DEF RingInv, TypeOK, NeverOverfull, ProducerInv
  <1> QED
    BY <1>1, <1>8, <1>10, <1>11 DEF RingInv

\* What a get leaves behind once the length has gone down by what it returned
\* and the remaining bytes are where out now points: GetPublish without the
\* rewinding, and with it.
LEMMA RemoveFront ==
    ASSUME RingInv, UNCHANGED locked, getting # -1, Len(copied) = getting, got' = copied,
           UNCHANGED putting,
           KfifoLen' = KfifoLen - getting, Contents' \in Seq(Values),
           Len(Contents') = KfifoLen',
           \A i \in 1..KfifoLen' : Contents'[i] = Contents[getting + i]
    PROVE  Abstract!FNext
  <1>1. getting \in Nat /\ getting <= KfifoLen /\ KfifoLen \in Nat
    BY BasicFacts DEF RingInv, TypeOK, ConsumerInv
  <1>2. Contents \in Seq(Values) /\ Len(Contents) = KfifoLen
    BY ContentsFacts DEF RingInv
  <1>3. got' = SubSeq(Contents, 1, getting)
    BY ReadStableCorrect DEF ReadStable
  <1> DEFINE u == SubSeq(Contents, getting + 1, Len(Contents))
  <1>4. u \in Seq(Values) /\ Len(u) = KfifoLen - getting
    BY <1>1, <1>2
  <1>5. \A i \in 1..KfifoLen - getting : u[i] = Contents[getting + i]
    BY <1>1, <1>2
  <1> HIDE DEF u
  <1>6. Contents' = u
    BY <1>4, <1>5
  <1>7. getting \in 0..Len(Contents)
    BY <1>1, <1>2
  <1>8. Abstract!Get
    BY <1>3, <1>6, <1>7 DEF u, Abstract!Get
  <1> QED
    BY <1>8 DEF Abstract!FNext

\* __kfifo_get() stores out: the abstract get.
LEMMA GetPublishStep ==
    ASSUME RingInv, UNCHANGED locked, GetPublish
    PROVE  RingInv' /\ Abstract!FNext
  <1>1. /\ getting # -1 /\ Len(copied) = getting /\ out' = (out + getting) % Modulus
        /\ got' = copied /\ getting' = -1 /\ copied' = <<>>
        /\ UNCHANGED <<buffer, in, putting, put>>
    BY DEF GetPublish, producer
  <1>2. getting \in Nat /\ getting <= KfifoLen
    BY <1>1 DEF RingInv, TypeOK, ConsumerInv
  <1>3. out' \in 0..Modulus - 1 /\ KfifoLen' = KfifoLen - getting
    BY <1>1, <1>2, BasicFacts, AdvanceOut DEF KfifoLen
  <1>4. KfifoLen' \in Nat /\ KfifoLen' <= KfifoLen
    BY <1>2, <1>3, BasicFacts
  <1>5. RingInv'
    <2>1. TypeOK'
      BY <1>1, <1>3 DEF RingInv, TypeOK
    <2>2. NeverOverfull'
      BY SMTT(20), <1>1, <1>4, BasicFacts, ModulusFacts DEF NeverOverfull
    <2>3. ProducerInv' /\ ConsumerInv'
      BY <1>1 DEF RingInv, ProducerInv, ConsumerInv
    <2> QED
      BY <2>1, <2>2, <2>3 DEF RingInv
  <1>6. Contents' \in Seq(Values) /\ Len(Contents') = KfifoLen'
    <2>1. Contents' = [i \in 1..KfifoLen' |-> buffer[(out' + i - 1) % Size]]
      BY <1>1 DEF Contents
    <2>2. \A i \in 1..KfifoLen' : (out' + i - 1) % Size \in 0..Size - 1
      <3> TAKE i \in 1..KfifoLen'
      <3>1. out' + i - 1 \in Int
        BY <1>3, <1>4
      <3> QED
        BY <3>1, SlotType
    <2>3. \A i \in 1..KfifoLen' : buffer[(out' + i - 1) % Size] \in Values
      BY <2>2, BasicFacts
    <2> QED
      BY <1>4, <2>1, <2>3
  <1>7. \A i \in 1..KfifoLen' : Contents'[i] = Contents[getting + i]
    <2> TAKE i \in 1..KfifoLen'
    <2>1. Contents'[i] = buffer[(out' + i - 1) % Size]
      BY <1>1 DEF Contents
    <2>2. getting + i \in 1..KfifoLen
      BY <1>2, <1>3, BasicFacts
    <2>3. Contents[getting + i] = buffer[(out + (getting + i) - 1) % Size]
      BY <2>2 DEF Contents
    <2>4. out + getting \in Int /\ i - 1 \in Int /\ i \in Int
      BY <1>2, <1>4, BasicFacts
    <2>5. (((out + getting) % Modulus) + (i - 1)) % Size = ((out + getting) + (i - 1)) % Size
      BY <2>4, IndexSlot
    <2>6. /\ (out + getting) + (i - 1) = out + (getting + i) - 1
          /\ out' + i - 1 = ((out + getting) % Modulus) + (i - 1)
      BY <1>1, <1>2, <1>3, <2>4, BasicFacts
    <2> QED
      BY <2>1, <2>3, <2>5, <2>6
  <1>8. Abstract!FNext
    BY <1>1, <1>3, <1>6, <1>7, RemoveFront
  <1> QED
    BY <1>5, <1>8

\* kfifo_get(): the indices of an empty FIFO may be rewound, since under the lock
\* no producer is inside.
LEMMA GetPublishLockedStep ==
    ASSUME RingInv, UNCHANGED locked, put = -1, GetPublishLocked
    PROVE  RingInv' /\ Abstract!FNext
  <1>1. CASE in # (out + getting) % Modulus
    <2>1. GetPublish
      BY <1>1 DEF GetPublishLocked, GetPublish, producer
    <2> QED
      BY <2>1, GetPublishStep
  <1>2. CASE in = (out + getting) % Modulus
    <2>1. /\ getting # -1 /\ Len(copied) = getting /\ in' = 0 /\ out' = 0
          /\ got' = copied /\ getting' = -1 /\ copied' = <<>>
          /\ UNCHANGED <<buffer, putting, put>>
      BY <1>2 DEF GetPublishLocked
    <2>2. getting \in Nat /\ getting <= KfifoLen
      BY <2>1 DEF RingInv, TypeOK, ConsumerInv
    <2>3. KfifoLen - getting = 0
      <3>1. (in - ((out + getting) % Modulus)) % Modulus = KfifoLen - getting
        BY <2>2, BasicFacts, AdvanceOut DEF KfifoLen
      <3>2. in - in = 0 /\ 0 % Modulus = 0
        BY BasicFacts, Wrap, ModulusFacts
      <3> QED
        BY <3>1, <3>2, <1>2
    <2>4. KfifoLen' = 0
      BY <2>1, Wrap, ModulusFacts DEF KfifoLen
    <2>5. Contents' = <<>> /\ putting = <<>>
      BY <2>1, <2>4 DEF Contents, RingInv, ProducerInv
    <2>6. RingInv'
      BY <2>1, <2>4, <2>5, ModulusFacts
         DEF RingInv, TypeOK, NeverOverfull, ProducerInv, ConsumerInv
    <2>7. Contents' \in Seq(Values) /\ Len(Contents') = 0
      BY <2>5
    <2> QED
      BY <2>1, <2>3, <2>4, <2>6, <2>7, RemoveFront
  <1> QED
    BY <1>1, <1>2

\* kfifo_reset() between calls: the abstract reset.
LEMMA KfifoResetStep ==
    ASSUME RingInv, UNCHANGED locked, locked, KfifoReset
    PROVE  RingInv' /\ Abstract!FNext
  <1>1. /\ put = -1 /\ getting = -1 /\ in' = 0 /\ out' = 0
        /\ UNCHANGED <<buffer, putting, put, getting, copied, got>>
    BY DEF KfifoReset
  <1>2. KfifoLen' = 0
    BY <1>1, Wrap, ModulusFacts DEF KfifoLen
  <1>3. Contents' = <<>> /\ putting = <<>>
    BY <1>1, <1>2 DEF Contents, RingInv, ProducerInv
  <1>4. RingInv'
    BY <1>1, <1>2, <1>3, ModulusFacts
       DEF RingInv, TypeOK, NeverOverfull, ProducerInv, ConsumerInv
  <1> QED
    BY <1>1, <1>3, <1>4 DEF Abstract!FNext, Abstract!Reset

\* Nothing happens.
LEMMA StutterStep ==
    ASSUME RingInv, UNCHANGED vars
    PROVE  RingInv' /\ UNCHANGED <<Contents, putting, got>>
  BY DEF vars, RingInv, TypeOK, NeverOverfull, ProducerInv, ConsumerInv, Contents, KfifoLen

-----------------------------------------------------------------------------
(* The inductive invariant.                                                *)

\* Under fifo->lock an owner of one kind excludes the other, which is what lets
\* kfifo_get() and kfifo_reset() rewind both indices.
LockInv == locked => put = -1 \/ getting = -1

IInv == RingInv /\ LockInv

\* Every step without a lock keeps the invariant and is an abstract step or a stutter.
LEMMA FreeNextIInv ==
    ASSUME IInv, ~locked, UNCHANGED locked, FreeNext
    PROVE  IInv' /\ [Abstract!FNext]_(Abstract!fvars)
  <1>1. LockInv'
    BY DEF LockInv
  <1> QED
    BY <1>1, PutSampleStep, PutCopyStep, PutPublishStep, GetSampleStep, GetCopyStep,
       GetPublishStep DEF IInv, FreeNext, Abstract!fvars

\* So does every step under fifo->lock.
LEMMA LockedNextIInv ==
    ASSUME IInv, locked, UNCHANGED locked, LockedNext
    PROVE  IInv' /\ [Abstract!FNext]_(Abstract!fvars)
  <1>1. LockInv'
    BY DEF IInv, LockInv, LockedNext, PutSample, PutCopy, PutPublish, GetSample, GetCopy,
           GetPublishLocked, KfifoReset, producer, consumer
  <1>2. GetPublishLocked => put = -1
    BY DEF IInv, LockInv, GetPublishLocked
  <1> QED
    BY <1>1, <1>2, PutSampleStep, PutCopyStep, PutPublishStep, GetSampleStep, GetCopyStep,
       GetPublishLockedStep, KfifoResetStep DEF IInv, LockedNext, Abstract!fvars

\* The invariant is inductive.
LEMMA NextIInv == IInv /\ [Next]_vars => IInv' /\ [Abstract!FNext]_(Abstract!fvars)
  <1>1. ASSUME IInv, UNCHANGED vars PROVE IInv' /\ UNCHANGED Abstract!fvars
    BY <1>1, StutterStep DEF IInv, LockInv, vars, Abstract!fvars
  <1> QED
    BY <1>1, FreeNextIInv, LockedNextIInv DEF Next

\* A new FIFO satisfies it.
LEMMA InitIInv == Init => IInv
  BY InitRingInv DEF IInv, LockInv, Init

\* The inductive invariant holds in both uses of a FIFO.
THEOREM SpecIInv == Spec => []IInv
  BY InitIInv, NextIInv, PTL DEF Spec

\* Types, and indices that stay in the range of an unsigned int.
THEOREM TypeCorrect == Spec => []TypeOK
  BY SpecIInv, PTL DEF IInv, RingInv

\* The stale sample of out never lets the producer overfill the ring.
THEOREM RoomCorrect == Spec => []NeverOverfull
  BY SpecIInv, PTL DEF IInv, RingInv

\* The producer never overtakes the consumer's copy.
THEOREM ReadCorrect == Spec => []ReadStable
  BY SpecIInv, ReadStableCorrect, PTL DEF IInv

\* The ring of __kfifo_put() is never overfull, and what __kfifo_get() reads stays in it.
THEOREM ConsistentCorrect == Spec => []Consistent
  BY TypeCorrect, RoomCorrect, ReadCorrect, PTL DEF Consistent

\* One producer and one consumer without a lock, and any number of callers under
\* fifo->lock, see a bounded FIFO that only kfifo_reset() empties.
THEOREM Refinement == Spec => RefinesFifo
  BY InitRingInv, NextIInv, SpecIInv, PTL DEF Spec, RefinesFifo, Abstract!FSpec
=============================================================================
