----------------------------- MODULE HandlingProofs ----------------------------
(***************************************************************************)
(* Proofs about the codec and about what a server makes of a request: what *)
(* is encoded is decoded again, for every number of values, and bytes stay *)
(* bytes.                                                                  *)
(***************************************************************************)
EXTENDS Handling, SequenceTheorems, TLAPS

\* A sequence, of whatever.
IsSeq(q) == \E S : q \in Seq(S)

\* What Append does.
LEMMA SeqAppend ==
    ASSUME NEW q, IsSeq(q), NEW x
    PROVE  /\ IsSeq(Append(q, x))
           /\ Len(q) \in Nat /\ Len(Append(q, x)) = Len(q) + 1
           /\ Append(q, x)[Len(q) + 1] = x
           /\ \A i \in 1..Len(q) : Append(q, x)[i] = q[i]
<1>1. PICK S : q \in Seq(S)
  BY DEF IsSeq
<1> DEFINE T == S \union {x}
<1>2. q \in Seq(T) /\ x \in T
  BY <1>1
<1> HIDE DEF T
<1>3. Append(q, x) \in Seq(T)
  BY <1>2
<1>4. /\ Len(q) \in Nat /\ Len(Append(q, x)) = Len(q) + 1
      /\ Append(q, x)[Len(q) + 1] = x
      /\ \A i \in 1..Len(q) : Append(q, x)[i] = q[i]
  BY <1>2
<1> QED BY <1>3, <1>4 DEF IsSeq

\* What Head and Tail do.
LEMMA SeqTail ==
    ASSUME NEW q, IsSeq(q), q # << >>
    PROVE  /\ IsSeq(Tail(q))
           /\ Len(q) \in Nat /\ Len(q) >= 1 /\ Len(Tail(q)) = Len(q) - 1
           /\ Head(q) = q[1]
           /\ \A i \in 1..(Len(q) - 1) : Tail(q)[i] = q[i + 1]
<1>1. PICK S : q \in Seq(S)
  BY DEF IsSeq
<1>2. Tail(q) \in Seq(S)
  BY <1>1
<1>3. /\ Len(q) \in Nat /\ Len(q) >= 1 /\ Len(Tail(q)) = Len(q) - 1
      /\ Head(q) = q[1]
      /\ \A i \in 1..(Len(q) - 1) : Tail(q)[i] = q[i + 1]
  BY <1>1
<1> QED BY <1>2, <1>3 DEF IsSeq

\* Sequences stay sequences, whatever is appended; a sequence of length 0 is empty.
LEMMA SeqGrows == \A q, x : IsSeq(q) => IsSeq(Append(q, x))
BY SeqAppend, Zenon

LEMMA SeqLenZero ==
    ASSUME NEW q, IsSeq(q), Len(q) = 0 PROVE q = << >>
<1>1. PICK S : q \in Seq(S)
  BY DEF IsSeq
<1> QED BY <1>1

\* A function on 1..n is a sequence of length n.
LEMMA IsSequence ==
    ASSUME NEW S, NEW n \in Nat, NEW f \in [1..n -> S]
    PROVE  f \in Seq(S) /\ Len(f) = n
OBVIOUS

\* Two sequences with the same elements are the same.
LEMMA SameSequence ==
    ASSUME NEW S, NEW s \in Seq(S), NEW t \in Seq(S), Len(t) = Len(s),
           \A i \in 1..Len(s) : t[i] = s[i]
    PROVE  t = s
OBVIOUS

\* A sequence that is not empty has a length.
LEMMA NotEmpty ==
    ASSUME NEW S, NEW s \in Seq(S) PROVE Len(s) \in Nat /\ (s # << >> <=> Len(s) >= 1)
OBVIOUS

-------------------------------------------------------------------------------
(***************************************************************************)
(* Bits.                                                                   *)
(***************************************************************************)
\* A byte made of eight bits gives each of them back.
LEMMA ByteOfBits ==
    ASSUME NEW v \in [1..8 -> Bits], NEW n,
           n = v[1] + 2 * v[2] + 4 * v[3] + 8 * v[4]
                 + 16 * v[5] + 32 * v[6] + 64 * v[7] + 128 * v[8]
    PROVE  n \in Byte /\ \A j \in 0..7 : Bit(n, j) = v[j + 1]
<1> DEFINE a == v[1]
           b == v[2]
           c == v[3]
           d == v[4]
           e == v[5]
           f == v[6]
           g == v[7]
           h == v[8]
<1>1. /\ a \in Bits /\ b \in Bits /\ c \in Bits /\ d \in Bits
      /\ e \in Bits /\ f \in Bits /\ g \in Bits /\ h \in Bits
  OBVIOUS
<1> DEFINE l == a + 2 * b + 4 * c + 8 * d
           u == e + 2 * f + 4 * g + 8 * h
<1>2. n = l + 16 * u
  BY <1>1 DEF Bits
<1> HIDE DEF a, b, c, d, e, f, g, h
<1>3. l \in 0..15 /\ u \in 0..15
  BY <1>1 DEF Bits
<1>4. /\ l % 2 = a /\ (l \div 2) % 2 = b /\ (l \div 4) % 2 = c /\ (l \div 8) % 2 = d
      /\ u % 2 = e /\ (u \div 2) % 2 = f /\ (u \div 4) % 2 = g /\ (u \div 8) % 2 = h
  BY <1>1 DEF Bits
<1> HIDE DEF l, u
<1>5. n \in Byte
  BY <1>2, <1>3 DEF Byte
<1>6. /\ Bit(n, 0) = (n \div 1) % 2 /\ Bit(n, 1) = (n \div 2) % 2
      /\ Bit(n, 2) = (n \div 4) % 2 /\ Bit(n, 3) = (n \div 8) % 2
      /\ Bit(n, 4) = (n \div 16) % 2 /\ Bit(n, 5) = (n \div 32) % 2
      /\ Bit(n, 6) = (n \div 64) % 2 /\ Bit(n, 7) = (n \div 128) % 2
  BY DEF Bit, Weight
<1>7. /\ (n \div 1) % 2 = l % 2 /\ (n \div 2) % 2 = (l \div 2) % 2
      /\ (n \div 4) % 2 = (l \div 4) % 2 /\ (n \div 8) % 2 = (l \div 8) % 2
  BY <1>2, <1>3
<1>8. /\ n \div 16 = u /\ n \div 32 = u \div 2 /\ n \div 64 = u \div 4
      /\ n \div 128 = u \div 8
  BY <1>2, <1>3
<1>9. ASSUME NEW j \in 0..7 PROVE Bit(n, j) = v[j + 1]
  <2>1. j = 0 \/ j = 1 \/ j = 2 \/ j = 3 \/ j = 4 \/ j = 5 \/ j = 6 \/ j = 7
    OBVIOUS
  <2> QED BY <2>1, <1>4, <1>6, <1>7, <1>8 DEF a, b, c, d, e, f, g, h
<1> QED BY <1>5, <1>9

\* A bit of a byte is a bit.
LEMMA BitOfByte ==
    ASSUME NEW n \in Byte, NEW j \in 0..7 PROVE Bit(n, j) \in Bits
<1>1. Weight[j + 1] \in {1, 2, 4, 8, 16, 32, 64, 128}
  BY DEF Weight
<1>2. n \div Weight[j + 1] \in Nat
  BY <1>1 DEF Byte
<1> QED BY <1>2 DEF Bit, Bits

\* What BoolsToData makes of any number of bits.
LEMMA PackedBits ==
    ASSUME NEW values \in Seq(Bits)
    PROVE  /\ PackBits(values) \in Seq(Byte)
           /\ Len(PackBits(values)) = (Len(values) + 7) \div 8
           /\ \A i \in 1..Len(values) :
                 Bit(PackBits(values)[1 + ((i - 1) \div 8)], (i - 1) % 8) = values[i]
<1> DEFINE n == (Len(values) + 7) \div 8
           v(k, j) == ValueAt(values, 8 * (k - 1) + j)
           sum(k) == v(k, 1) + 2 * v(k, 2) + 4 * v(k, 3) + 8 * v(k, 4)
                       + 16 * v(k, 5) + 32 * v(k, 6) + 64 * v(k, 7) + 128 * v(k, 8)
<1>1. Len(values) \in Nat /\ n \in Nat
  OBVIOUS
<1>2. ASSUME NEW k \in Nat \ {0}, NEW j \in 1..8 PROVE v(k, j) \in Bits
  <2>1. 8 * (k - 1) + j \in Nat \ {0}
    OBVIOUS
  <2> QED BY <2>1 DEF ValueAt, Bits
<1>3. PackBits(values) = [k \in 1..n |-> sum(k)]
  BY DEF PackBits
<1> HIDE DEF v
<1>4. ASSUME NEW k \in 1..n
      PROVE  sum(k) \in Byte /\ \A j \in 0..7 : Bit(sum(k), j) = v(k, j + 1)
  <2> DEFINE u == [j \in 1..8 |-> v(k, j)]
             m == sum(k)
  <2>1. u \in [1..8 -> Bits]
    BY <1>2, <1>1
  <2>2. m = u[1] + 2 * u[2] + 4 * u[3] + 8 * u[4]
              + 16 * u[5] + 32 * u[6] + 64 * u[7] + 128 * u[8]
    OBVIOUS
  <2>3. \A j \in 0..7 : u[j + 1] = v(k, j + 1)
    OBVIOUS
  <2> HIDE DEF m, u
  <2>4. m \in Byte /\ \A j \in 0..7 : Bit(m, j) = u[j + 1]
    BY <2>1, <2>2, ByteOfBits
  <2> QED BY <2>3, <2>4 DEF m
<1> HIDE DEF sum, n
<1>5. PackBits(values) \in Seq(Byte) /\ Len(PackBits(values)) = n
  BY <1>1, <1>3, <1>4
<1>6. ASSUME NEW i \in 1..Len(values)
      PROVE  Bit(PackBits(values)[1 + ((i - 1) \div 8)], (i - 1) % 8) = values[i]
  <2> DEFINE k == 1 + ((i - 1) \div 8)
             j == (i - 1) % 8
  <2>1. k \in 1..n /\ j \in 0..7 /\ 8 * (k - 1) + (j + 1) = i
    BY <1>1 DEF n
  <2>2. PackBits(values)[k] = sum(k)
    BY <1>3, <2>1
  <2>3. v(k, j + 1) = values[i]
    BY <2>1 DEF v, ValueAt
  <2> HIDE DEF k, j
  <2>4. Bit(sum(k), j) = v(k, j + 1)
    BY <1>4, <2>1
  <2> QED BY <2>2, <2>3, <2>4 DEF k, j
<1> QED BY <1>5, <1>6 DEF n

\* What a handler is asked to write as bools are bits, as many as were asked for.
LEMMA UnpackedBits ==
    ASSUME NEW data \in Seq(Byte), NEW count \in Uint16, NEW fc,
           data # << >>, Len(data) < 65536, DataToBools(data, count, fc).err = NoErr
    PROVE  /\ DataToBools(data, count, fc).values \in Seq(Bits)
           /\ Len(DataToBools(data, count, fc).values)
                = IF fc = FcWriteSingleCoil THEN 1 ELSE count
<1>0. EcIllegalDataValue # NoErr
  BY DEF EcIllegalDataValue, NoErr
<1>1. CASE fc = FcWriteSingleCoil
  <2>1. /\ data[1] \in {0, 255}
        /\ DataToBools(data, count, fc).values = <<data[1] \div 255>>
    BY <1>0, <1>1 DEF DataToBools
  <2>2. data[1] \div 255 \in Bits
    BY <2>1 DEF Bits
  <2> QED BY <1>1, <2>1, <2>2
<1>2. CASE fc # FcWriteSingleCoil
  <2> DEFINE v == [i \in 1..count |-> Bit(data[1 + ((i - 1) \div 8)], (i - 1) % 8)]
  <2>1. /\ ((count + 7) % 65536) \div 8 = Len(data) % 65536
        /\ DataToBools(data, count, fc).values = v
    BY <1>0, <1>2 DEF DataToBools
  <2> DEFINE n == Len(data)
  <2>2. count \in Nat /\ count < 65536 /\ n \in Nat /\ n >= 1 /\ n < 65536
    BY NotEmpty DEF Uint16
  <2> HIDE DEF n
  <2>3. (count + 7) \div 8 = n
    <3>1. ((count + 7) % 65536) \div 8 = n
      BY <2>1, <2>2 DEF n
    <3> QED BY <2>2, <3>1
  <2>4. ASSUME NEW i \in 1..count PROVE v[i] \in Bits
    <3>1. 1 + ((i - 1) \div 8) \in 1..n /\ (i - 1) % 8 \in 0..7
      BY <2>2, <2>3
    <3>2. data[1 + ((i - 1) \div 8)] \in Byte
      BY <3>1 DEF n
    <3>3. Bit(data[1 + ((i - 1) \div 8)], (i - 1) % 8) \in Bits
      BY <3>1, <3>2, BitOfByte
    <3> QED BY <3>3
  <2> HIDE DEF v
  <2>5. v \in Seq(Bits) /\ Len(v) = count
    <3>1. v \in [1..count -> Bits]
      BY <2>4 DEF v
    <3> QED BY <2>2, <3>1, IsSequence
  <2> QED BY <1>2, <2>1, <2>5
<1> QED BY <1>1, <1>2

\* A single coil is one bool, and a sum of data.go:31, (count+7), does not wrap.
BoolsFit(values, fc) == /\ fc = FcWriteSingleCoil => Len(values) = 1
                        /\ Len(values) + 7 < 65536

\* DataToBools gives back what BoolsToData was given, for every number of bools up
\* to 65528; beyond that the sum (count+7) of data.go:31 wraps.
THEOREM BoolsRoundTrip ==
    ASSUME NEW fc, NEW values \in Seq(Bits),
           BoolsFit(values, fc)
    PROVE  /\ BoolsToData(values, fc).err = NoErr
           /\ BoolsToData(values, fc).data \in Seq(Byte)
           /\ DataToBools(BoolsToData(values, fc).data, Len(values), fc)
                = [values |-> values, err |-> NoErr]
<1>1. CASE fc = FcWriteSingleCoil
  <2>1. Len(values) = 1 /\ values = <<values[1]>> /\ values[1] \in {0, 1}
    BY <1>1 DEF Bits, BoolsFit
  <2>2. BoolsToData(values, fc) = [data |-> <<values[1] * 255, 0>>, err |-> NoErr]
    BY <1>1, <2>1 DEF BoolsToData
  <2>3. <<values[1] * 255, 0>> \in Seq(Byte)
    BY <2>1 DEF Byte
  <2>4. DataToBools(<<values[1] * 255, 0>>, 1, fc) = [values |-> <<values[1]>>, err |-> NoErr]
    <3>1. CASE values[1] = 0
      BY <1>1, <3>1 DEF DataToBools
    <3>2. CASE values[1] = 1
      BY <1>1, <3>2 DEF DataToBools
    <3> QED BY <2>1, <3>1, <3>2
  <2> QED BY <2>1, <2>2, <2>3, <2>4
<1>2. CASE fc # FcWriteSingleCoil
  <2> DEFINE p == PackBits(values)
             v == [i \in 1..Len(values) |-> Bit(p[1 + ((i - 1) \div 8)], (i - 1) % 8)]
  <2>1. BoolsToData(values, fc) = [data |-> p, err |-> NoErr]
    BY <1>2 DEF BoolsToData
  <2>2. p \in Seq(Byte) /\ Len(p) = (Len(values) + 7) \div 8
    BY PackedBits
  <2>3. \A i \in 1..Len(values) : v[i] = values[i]
    BY PackedBits
  <2>4. v = values
    BY <2>3
  <2>5. Len(values) \in Nat /\ Len(values) + 7 < 65536
    BY DEF BoolsFit
  <2>6. ((Len(values) + 7) % 65536) \div 8 = Len(p) % 65536
    BY <2>2, <2>5
  <2>7. DataToBools(p, Len(values), fc) = [values |-> v, err |-> NoErr]
    BY <1>2, <2>6 DEF DataToBools
  <2> QED BY <2>1, <2>2, <2>4, <2>7
<1> QED BY <1>1, <1>2

-------------------------------------------------------------------------------
(***************************************************************************)
(* Registers.                                                              *)
(***************************************************************************)
\* The two bytes of a register, and the register of two bytes.
LEMMA RegisterBytes ==
    /\ \A v \in Uint16 : High(v) \in Byte /\ Low(v) \in Byte /\ High(v) * 256 + Low(v) = v
    /\ \A a \in Byte, b \in Byte :
          /\ a * 256 + b \in Uint16
          /\ High(a * 256 + b) = a /\ Low(a * 256 + b) = b
BY DEF Uint16, Byte, High, Low

\* What RegistersToData makes of any number of registers.
LEMMA PackedRegisters ==
    ASSUME NEW values \in Seq(Uint16)
    PROVE  LET d == RegistersToData(values).data
           IN  /\ d \in Seq(Byte) /\ Len(d) = 2 * Len(values)
               /\ \A i \in 1..Len(values) : d[2 * i - 1] = High(values[i])
                                              /\ d[2 * i] = Low(values[i])
<1> DEFINE n == Len(values)
           d == [k \in 1..(2 * n) |-> LET v == values[(k + 1) \div 2]
                                      IN  IF k % 2 = 1 THEN High(v) ELSE Low(v)]
<1>1. RegistersToData(values).data = d
  BY DEF RegistersToData
<1>2. n \in Nat
  OBVIOUS
<1>3. ASSUME NEW k \in 1..(2 * n) PROVE d[k] \in Byte
  <2>1. (k + 1) \div 2 \in 1..n
    BY <1>2
  <2>2. values[(k + 1) \div 2] \in Uint16
    BY <2>1
  <2> QED BY <2>2, RegisterBytes
<1>4. ASSUME NEW i \in 1..n PROVE d[2 * i - 1] = High(values[i]) /\ d[2 * i] = Low(values[i])
  <2>1. /\ 2 * i - 1 \in 1..(2 * n) /\ (2 * i - 1) % 2 = 1 /\ ((2 * i - 1) + 1) \div 2 = i
        /\ 2 * i \in 1..(2 * n) /\ (2 * i) % 2 # 1 /\ (2 * i + 1) \div 2 = i
    BY <1>2
  <2> QED BY <2>1
<1>5. DOMAIN d = 1..(2 * n)
  OBVIOUS
<1> HIDE DEF d
<1>6. d \in Seq(Byte) /\ Len(d) = 2 * n
  <2>1. 2 * n \in Nat /\ d = [k \in 1..(2 * n) |-> d[k]]
    BY <1>2 DEF d
  <2> QED BY <1>3, <1>5, <2>1
<1> QED BY <1>1, <1>4, <1>6

\* What a handler is asked to write as registers are 16-bit numbers, one for every
\* two bytes.
LEMMA UnpackedRegisters ==
    ASSUME NEW data \in Seq(Byte), DataToRegisters(data).err = NoErr
    PROVE  /\ DataToRegisters(data).values \in Seq(Uint16)
           /\ 2 * Len(DataToRegisters(data).values) = Len(data)
<1> DEFINE n == Len(data) \div 2
           v == [i \in 1..n |-> data[2 * i - 1] * 256 + data[2 * i]]
<1>1. Len(data) % 2 = 0 /\ DataToRegisters(data).values = v
  BY DEF DataToRegisters, EcIllegalDataValue, NoErr
<1>2. n \in Nat /\ 2 * n = Len(data)
  BY <1>1
<1>3. ASSUME NEW i \in 1..n PROVE v[i] \in Uint16
  <2>1. 2 * i - 1 \in 1..Len(data) /\ 2 * i \in 1..Len(data)
    BY <1>2
  <2>2. data[2 * i - 1] \in Byte /\ data[2 * i] \in Byte
    BY <2>1
  <2> QED BY <2>2, RegisterBytes
<1>4. v = [i \in 1..n |-> v[i]]
  OBVIOUS
<1> HIDE DEF v
<1> QED BY <1>1, <1>2, <1>3, <1>4

\* DataToRegisters gives back what RegistersToData was given, high byte first.
THEOREM RegistersRoundTrip ==
    ASSUME NEW values \in Seq(Uint16), values # << >>
    PROVE  /\ RegistersToData(values).err = NoErr
           /\ RegistersToData(values).data \in Seq(Byte)
           /\ DataToRegisters(RegistersToData(values).data)
                = [values |-> values, err |-> NoErr]
<1> DEFINE n == Len(values)
           d == RegistersToData(values).data
           v == [i \in 1..(Len(d) \div 2) |-> d[2 * i - 1] * 256 + d[2 * i]]
<1>1. n \in Nat /\ n >= 1
  OBVIOUS
<1>2. /\ d \in Seq(Byte) /\ Len(d) = 2 * n
      /\ \A i \in 1..n : d[2 * i - 1] = High(values[i]) /\ d[2 * i] = Low(values[i])
  BY PackedRegisters
<1> HIDE DEF d
<1>3. Len(d) >= 2 /\ Len(d) % 2 = 0 /\ Len(d) \div 2 = n
  BY <1>1, <1>2
<1>4. DataToRegisters(d) = [values |-> v, err |-> NoErr]
  BY <1>3 DEF DataToRegisters
<1>5. v = values
  <2>1. ASSUME NEW i \in 1..n PROVE v[i] = values[i]
    <3>1. values[i] \in Uint16
      OBVIOUS
    <3> QED BY <1>2, <1>3, <3>1, RegisterBytes
  <2>2. v \in [1..n -> Uint16]
    <3>1. v = [i \in 1..n |-> v[i]]
      BY <1>3
    <3>2. \A i \in 1..n : v[i] \in Uint16
      <4> HIDE DEF v
      <4> QED BY <2>1
    <3> HIDE DEF v
    <3> QED BY <3>1, <3>2
  <2> HIDE DEF v
  <2>3. v \in Seq(Uint16) /\ Len(v) = n
    BY <1>1, <2>2, IsSequence
  <2> QED BY <2>1, <2>3, SameSequence
<1>6. RegistersToData(values).err = NoErr
  BY DEF RegistersToData
<1> QED BY <1>2, <1>4, <1>5, <1>6 DEF d

-------------------------------------------------------------------------------
(***************************************************************************)
(* The tables of an application.                                           *)
(***************************************************************************)
\* A range is read whole or not at all.
LEMMA RangeRead ==
    ASSUME NEW S, NEW t \in Seq(S), NEW a \in Nat, NEW n \in Nat
    PROVE  LET v == checkValues(ReadValues(t, a, n), n)
           IN  /\ v.err = NoErr =>
                     /\ v.values = SubSeq(t, a + 1, a + n)
                     /\ v.values \in Seq(S) /\ Len(v.values) = n
                     /\ n >= 1 => a + n <= Len(t)
               /\ v.err # NoErr => a + n > Len(t)
<1> DEFINE l == Len(t)
           e == IF a + n < l THEN a + n ELSE l
           r == SubSeq(t, a + 1, e)
           s == SubSeq(t, a + 1, a + n)
<1>1. l \in Nat /\ e \in Nat /\ e <= l /\ e <= a + n
  OBVIOUS
<1>2. ReadValues(t, a, n) = r
  BY DEF ReadValues
<1> HIDE DEF e
<1>3. \A i \in (a + 1)..e : t[i] \in S
  BY <1>1
<1>4. /\ r \in Seq(S) /\ Len(r) = IF a + 1 <= e THEN e - (a + 1) + 1 ELSE 0
      /\ \A i \in 1..(e - (a + 1) + 1) : r[i] = t[a + 1 + i - 1]
  <2>1. a + 1 \in Int /\ e \in Int
    BY <1>1
  <2> QED BY <1>3, <2>1, SubSeqProperties
<1> HIDE DEF r, s
<1>5. CASE Len(r) < n
  <2>1. checkValues(r, n).err = EcServerDeviceFailure /\ EcServerDeviceFailure # NoErr
    BY <1>5 DEF checkValues, EcServerDeviceFailure, NoErr
  <2>2. a + n > l
    BY <1>1, <1>4, <1>5 DEF e
  <2> QED BY <1>2, <2>1, <2>2
<1>6. CASE ~(Len(r) < n)
  <2>1. checkValues(r, n) = [values |-> SubSeq(r, 1, n), err |-> NoErr]
    BY <1>6 DEF checkValues
  <2>2. n >= 1 => e = a + n /\ a + n <= l
    BY <1>1, <1>4, <1>6
  <2>3. CASE n = 0
    <3>1. SubSeq(r, 1, n) = << >> /\ s = << >>
      BY <2>3, SubSeqEmpty DEF s
    <3>2. << >> \in Seq(S) /\ Len(<< >>) = 0
      OBVIOUS
    <3> QED BY <1>2, <2>1, <2>3, <3>1, <3>2 DEF s
  <2>4. CASE n >= 1
    <3>1. r = s /\ Len(r) = n
      <4>1. e = a + n
        BY <2>2, <2>4
      <4>2. r = s
        BY <4>1, Zenon DEF r, s
      <4>3. Len(r) = e - (a + 1) + 1
        BY <1>1, <1>4, <2>4, <4>1
      <4>4. e - (a + 1) + 1 = n
        BY <4>1
      <4> QED BY <4>2, <4>3, <4>4
    <3>2. SubSeq(r, 1, n) = r
      BY <1>4, <3>1, SubSeqFull
    <3> QED BY <1>2, <1>4, <2>1, <2>2, <3>1, <3>2 DEF s
  <2> QED BY <2>3, <2>4
<1> QED BY <1>5, <1>6

\* A range is written whole or not at all, and the table keeps its size.
LEMMA RangeWrite ==
    ASSUME NEW S, NEW t \in Seq(S), NEW a \in Nat, NEW values \in Seq(S)
    PROVE  LET w == WriteValues(t, a, values)
           IN  /\ w.table \in Seq(S) /\ Len(w.table) = Len(t)
               /\ w.err = NoErr <=> a + Len(values) <= Len(t)
               /\ w.err # NoErr => w.table = t
<1> DEFINE n == Len(t)
           u == [i \in 1..n |-> IF i - a \in 1..Len(values) THEN values[i - a] ELSE t[i]]
<1>1. n \in Nat /\ Len(values) \in Nat /\ EcIllegalDataAddress # NoErr
  BY DEF EcIllegalDataAddress, NoErr
<1>2. CASE a + Len(values) > n
  BY <1>1, <1>2 DEF WriteValues
<1>3. CASE ~(a + Len(values) > n)
  <2>1. WriteValues(t, a, values) = [table |-> u, err |-> NoErr]
    BY <1>3 DEF WriteValues
  <2>2. u \in [1..n -> S]
    OBVIOUS
  <2> HIDE DEF u
  <2>3. u \in Seq(S) /\ Len(u) = n
    BY <1>1, <2>2, IsSequence
  <2> QED BY <1>1, <1>3, <2>1, <2>3
<1> QED BY <1>2, <1>3

-------------------------------------------------------------------------------
(***************************************************************************)
(* SimpleHandler.                                                          *)
(***************************************************************************)
Count(p) == GetRequestCount(p).count
TableFor(p) == TableOf(GetFunctionCode(p))

\* The values of the range that p asks for, and whether m has all of it.
ValuesAsked(m, p) == SubSeq(m[TableFor(p)], GetAddress(p) + 1, GetAddress(p) + Count(p))
HasRange(m, p) == /\ TableFor(p) \in DOMAIN m
                  /\ GetAddress(p) + Count(p) <= Len(m[TableFor(p)])

\* The values of a function code as bytes, and as values again: OnRead and OnWrite of
\* simple_handler.go on either side of a connection.
ToData(f, values) == IF IsBool(f) THEN BoolsToData(values, f) ELSE RegistersToData(values)
Encode(p, values) == ToData(GetFunctionCode(p), values)
Decode(p, data) ==
    IF IsBool(GetFunctionCode(p)) THEN DataToBools(data, Count(p), GetFunctionCode(p))
    ELSE DataToRegisters(data)

\* Bools are kept in two of the tables, registers in the others.
LEMMA TableTypes ==
    ASSUME NEW fc, TableOf(fc) \in Tables
    PROVE  /\ fc \in {1, 2, 3, 4, 5, 6, 15, 16}
           /\ IsBool(fc) => ValueType(TableOf(fc)) = Bits
           /\ ~IsBool(fc) => ValueType(TableOf(fc)) = Uint16
<1> USE DEF TableOf, IsBool, FcReadDiscreteInputs, FcReadCoils, FcWriteSingleCoil,
            FcWriteMultipleCoils, FcReadInputRegisters, FcReadHoldingRegisters,
            FcWriteSingleRegister, FcWriteMultipleRegisters
<1>1. fc \in {1, 2, 3, 4, 5, 6, 15, 16}
  BY DEF Tables
<1>2. fc \in {1, 5, 15} => TableOf(fc) = "coils" /\ IsBool(fc)
  OBVIOUS
<1>3. fc = 2 => TableOf(fc) = "discreteInputs" /\ IsBool(fc)
  OBVIOUS
<1>4. fc = 4 => TableOf(fc) = "inputRegisters" /\ ~IsBool(fc)
  OBVIOUS
<1>5. fc \in {3, 6, 16} => TableOf(fc) = "holdingRegisters" /\ ~IsBool(fc)
  OBVIOUS
<1> HIDE DEF TableOf, IsBool
<1>6. fc \in {1, 5, 15} \/ fc = 2 \/ fc = 4 \/ fc \in {3, 6, 16}
  BY <1>1
<1> QED BY <1>1, <1>2, <1>3, <1>4, <1>5, <1>6 DEF ValueType

\* The numbers that a PDU of three bytes or more carries.
LEMMA HeaderTypes ==
    ASSUME NEW p \in Seq(Byte), Len(p) >= 3
    PROVE  /\ GetFunctionCode(p) = p[1] /\ GetFunctionCode(p) \in Byte
           /\ GetAddress(p) \in Uint16
           /\ GetRequestCount(p).err = NoErr => Count(p) \in Uint16
           /\ IsSingle(GetFunctionCode(p)) => Count(p) = 1
<1>1. p[1] \in Byte /\ p[2] \in Byte /\ p[3] \in Byte /\ p # << >>
  OBVIOUS
<1>2. GetFunctionCode(p) = p[1]
  BY <1>1 DEF GetFunctionCode
<1>3. GetAddress(p) \in Uint16
  BY <1>1 DEF GetAddress, Uint16, Byte
<1>4. CASE IsSingle(GetFunctionCode(p))
  <2>1. Count(p) = 1
    BY <1>4 DEF Count, GetRequestCount
  <2> QED BY <1>1, <1>2, <1>3, <2>1 DEF Uint16
<1>5. CASE ~IsSingle(GetFunctionCode(p)) /\ Len(p) < 5
  <2>1. GetRequestCount(p).err # NoErr
    BY <1>5 DEF GetRequestCount, EcIllegalDataValue, NoErr
  <2> QED BY <1>1, <1>2, <1>3, <1>5, <2>1
<1>6. CASE ~IsSingle(GetFunctionCode(p)) /\ ~(Len(p) < 5)
  <2>1. p[4] \in Byte /\ p[5] \in Byte
    BY <1>6
  <2>2. Count(p) = p[4] * 256 + p[5]
    BY <1>6 DEF Count, GetRequestCount
  <2>3. Count(p) \in Uint16
    BY <2>1, <2>2 DEF Uint16, Byte
  <2> QED BY <1>1, <1>2, <1>3, <1>6, <2>3
<1> QED BY <1>4, <1>5, <1>6

\* What OnRead returns: the values of the range, encoded.
LEMMA OnReadResult ==
    ASSUME NEW m, IsMemory(m), NEW p \in Seq(Byte), Len(p) >= 3, OnRead(m, p).err = NoErr
    PROVE  /\ GetRequestCount(p).err = NoErr /\ TableFor(p) \in DOMAIN m
           /\ ValuesAsked(m, p) \in Seq(ValueType(TableFor(p)))
           /\ Len(ValuesAsked(m, p)) = Count(p)
           /\ Count(p) >= 1 => HasRange(m, p)
           /\ OnRead(m, p) = Encode(p, ValuesAsked(m, p))
<1> DEFINE fc == GetFunctionCode(p)
           a == GetAddress(p)
           n == GetRequestCount(p)
           t == m[TableFor(p)]
           v == checkValues(ReadValues(t, a, n.count), n.count)
<1>1. n.err = NoErr /\ TableFor(p) \in DOMAIN m
  BY DEF OnRead, Supports, TableFor, ErrFcNotSupported, NoErr
<1>2. a \in Nat /\ n.count \in Nat
  BY <1>1, HeaderTypes DEF Uint16, Count
<1>3. t \in Seq(ValueType(TableFor(p)))
  BY <1>1 DEF IsMemory
<1>4. OnRead(m, p) = IF v.err # NoErr THEN [data |-> << >>, err |-> v.err]
                     ELSE Encode(p, v.values)
  BY <1>1 DEF OnRead, Encode, ToData, Supports, TableFor
<1> HIDE DEF t, a, n
<1>5. v.err = NoErr
  BY <1>4
<1>6. /\ v.values = SubSeq(t, a + 1, a + n.count)
      /\ v.values \in Seq(ValueType(TableFor(p))) /\ Len(v.values) = n.count
      /\ n.count >= 1 => a + n.count <= Len(t)
  BY <1>2, <1>3, <1>5, RangeRead
<1>7. ValuesAsked(m, p) = v.values
  BY <1>6 DEF ValuesAsked, Count, t, a, n
<1> QED BY <1>1, <1>4, <1>5, <1>6, <1>7 DEF HasRange, Count, t, a, n

\* The bytes that values are encoded in, and their number.
LEMMA EncodeType ==
    ASSUME NEW p, TableFor(p) \in Tables, NEW values \in Seq(ValueType(TableFor(p))),
           Encode(p, values).err = NoErr
    PROVE  LET data == Encode(p, values).data
               fc == GetFunctionCode(p)
           IN  /\ data \in Seq(Byte)
               /\ Len(data) = IF fc = FcWriteSingleCoil THEN 2
                              ELSE IF IsBool(fc) THEN (Len(values) + 7) \div 8
                              ELSE 2 * Len(values)
<1> DEFINE fc == GetFunctionCode(p)
<1>1. IsBool(fc) => values \in Seq(Bits)
  BY TableTypes DEF TableFor
<1>2. ~IsBool(fc) => values \in Seq(Uint16)
  BY TableTypes DEF TableFor
<1>3. CASE ~IsBool(fc)
  <2>1. Encode(p, values) = RegistersToData(values) /\ fc # FcWriteSingleCoil
    BY <1>3 DEF Encode, ToData, IsBool, FcWriteSingleCoil
  <2> QED BY <1>2, <1>3, <2>1, PackedRegisters
<1>4. CASE IsBool(fc) /\ fc # FcWriteSingleCoil
  <2>1. Encode(p, values).data = PackBits(values)
    BY <1>4 DEF Encode, ToData, BoolsToData
  <2> QED BY <1>1, <1>4, <2>1, PackedBits
<1>5. CASE fc = FcWriteSingleCoil
  <2>1. IsBool(fc)
    BY <1>5 DEF IsBool, FcWriteSingleCoil
  <2>2. Len(values) = 1 /\ Encode(p, values).data = <<values[1] * 255, 0>>
    BY <1>5, <2>1 DEF Encode, ToData, BoolsToData, ErrOther, NoErr
  <2>3. values[1] \in {0, 1}
    <3>1. values \in Seq(Bits) /\ 1 \in 1..Len(values)
      BY <1>1, <2>1, <2>2
    <3>2. values[1] \in Bits
      BY <3>1
    <3> QED BY <3>2 DEF Bits
  <2>4. <<values[1] * 255, 0>> \in Seq(Byte) /\ Len(<<values[1] * 255, 0>>) = 2
    BY <2>3 DEF Byte
  <2> QED BY <1>5, <2>2, <2>4
<1> QED BY <1>3, <1>4, <1>5

\* The handler of one side is given the values that the handler of the other side
\* returned, whatever the function code.
THEOREM ValuesRoundTrip ==
    ASSUME NEW p, TableFor(p) \in Tables, NEW values \in Seq(ValueType(TableFor(p))),
           Len(values) = Count(p), Count(p) >= 1, Count(p) <= 65528,
           IsSingle(GetFunctionCode(p)) => Count(p) = 1
    PROVE  /\ Encode(p, values).err = NoErr
           /\ Decode(p, Encode(p, values).data) = [values |-> values, err |-> NoErr]
<1> DEFINE fc == GetFunctionCode(p)
<1>0. Len(values) \in Nat /\ Len(values) >= 1 /\ Len(values) + 7 < 65536
  OBVIOUS
<1>1. CASE ~IsBool(fc)
  <2>1. ValueType(TableFor(p)) = Uint16
    BY <1>1, TableTypes DEF TableFor
  <2>2. values \in Seq(Uint16)
    BY <2>1
  <2>3. values # << >>
    BY <1>0, <2>2, NotEmpty
  <2>4. /\ RegistersToData(values).err = NoErr
        /\ DataToRegisters(RegistersToData(values).data)
             = [values |-> values, err |-> NoErr]
    BY <2>2, <2>3, RegistersRoundTrip
  <2> QED BY <1>1, <2>4 DEF Encode, ToData, Decode
<1>2. CASE IsBool(fc)
  <2>0. ValueType(TableFor(p)) = Bits
    BY <1>2, TableTypes DEF TableFor
  <2>1. values \in Seq(Bits)
    BY <2>0
  <2>2. BoolsFit(values, fc)
    BY <1>0 DEF BoolsFit, IsSingle, FcWriteSingleCoil
  <2>3. /\ BoolsToData(values, fc).err = NoErr
        /\ DataToBools(BoolsToData(values, fc).data, Count(p), fc)
             = [values |-> values, err |-> NoErr]
    <3> HIDE DEF fc
    <3>1. /\ BoolsToData(values, fc).err = NoErr
          /\ DataToBools(BoolsToData(values, fc).data, Len(values), fc)
               = [values |-> values, err |-> NoErr]
      <4> HIDE DEF BoolsToData, DataToBools
      <4> QED BY <2>1, <2>2, BoolsRoundTrip, SMTT(30)
    <3> QED BY <3>1
  <2> QED BY <1>2, <2>3 DEF Encode, ToData, Decode
<1> QED BY <1>1, <1>2

\* What is decoded has the types of the table it goes to.
LEMMA DecodeType ==
    ASSUME NEW p \in Seq(Byte), Len(p) >= 3, TableFor(p) \in Tables,
           GetRequestCount(p).err = NoErr,
           NEW data \in Seq(Byte), data # << >>,
           IsBool(GetFunctionCode(p)) => Len(data) < 65536,
           Decode(p, data).err = NoErr
    PROVE  /\ Decode(p, data).values \in Seq(ValueType(TableFor(p)))
           /\ IF IsBool(GetFunctionCode(p))
              THEN Len(Decode(p, data).values) = Count(p)
              ELSE 2 * Len(Decode(p, data).values) = Len(data)
<1> DEFINE fc == GetFunctionCode(p)
<1>1. CASE ~IsBool(fc)
  <2>1. ValueType(TableFor(p)) = Uint16
    BY <1>1, TableTypes DEF TableFor
  <2> QED BY <1>1, <2>1, UnpackedRegisters DEF Decode
<1>2. CASE IsBool(fc)
  <2>1. ValueType(TableFor(p)) = Bits
    BY <1>2, TableTypes DEF TableFor
  <2>2. Count(p) \in Uint16 /\ (fc = FcWriteSingleCoil => Count(p) = 1)
    BY HeaderTypes DEF IsSingle, FcWriteSingleCoil
  <2>3. /\ Decode(p, data) = DataToBools(data, Count(p), fc)
        /\ DataToBools(data, Count(p), fc).err = NoErr
    BY <1>2 DEF Decode
  <2>4. /\ DataToBools(data, Count(p), fc).values \in Seq(Bits)
        /\ Len(DataToBools(data, Count(p), fc).values)
             = IF fc = FcWriteSingleCoil THEN 1 ELSE Count(p)
    BY <1>2, <2>2, <2>3, UnpackedBits
  <2> QED BY <1>2, <2>1, <2>2, <2>3, <2>4
<1> QED BY <1>1, <1>2

\* A memory with one table replaced is a memory.
LEMMA MemoryUpdate ==
    ASSUME NEW m, IsMemory(m), NEW k \in DOMAIN m, NEW t \in Seq(ValueType(k))
    PROVE  IsMemory([m EXCEPT ![k] = t]) /\ DOMAIN [m EXCEPT ![k] = t] = DOMAIN m
BY DEF IsMemory

\* A handler that fails leaves the memory as it was; one that succeeds has written
\* the values it decoded, all of them inside the table.
Intact(m, w) ==
    /\ IsMemory(w.mem) /\ DOMAIN w.mem = DOMAIN m
    /\ w.err # NoErr => w.mem = m
Written(m, p, d, mem) ==
    /\ GetRequestCount(p).err = NoErr /\ TableFor(p) \in DOMAIN m
    /\ d.err = NoErr /\ d.values \in Seq(ValueType(TableFor(p)))
    /\ GetAddress(p) + Len(d.values) <= Len(m[TableFor(p)])
    /\ mem = [m EXCEPT ![TableFor(p)] =
                 WriteValues(m[TableFor(p)], GetAddress(p), d.values).table]

\* What OnWrite does: the whole range is written, or nothing.
LEMMA OnWriteResult ==
    ASSUME NEW m, IsMemory(m), NEW p \in Seq(Byte), Len(p) >= 3,
           NEW data \in Seq(Byte), data # << >>,
           IsBool(GetFunctionCode(p)) => Len(data) < 65536
    PROVE  /\ Intact(m, OnWrite(m, p, data))
           /\ OnWrite(m, p, data).err = NoErr =>
                 Written(m, p, Decode(p, data), OnWrite(m, p, data).mem)
<1> DEFINE w == OnWrite(m, p, data)
           d == Decode(p, data)
           k == TableFor(p)
           a == GetAddress(p)
           u == WriteValues(m[k], a, d.values)
<1>1. CASE GetRequestCount(p).err # NoErr \/ k \notin DOMAIN m \/ d.err # NoErr
  <2>1. w.mem = m /\ w.err # NoErr
    BY <1>1 DEF OnWrite, Supports, TableFor, Decode, Count, ErrFcNotSupported, NoErr
  <2> QED BY <2>1 DEF Intact
<1>2. CASE GetRequestCount(p).err = NoErr /\ k \in DOMAIN m /\ d.err = NoErr
  <2>1. w = [mem |-> [m EXCEPT ![k] = u.table], err |-> u.err]
    BY <1>2 DEF OnWrite, Supports, TableFor, Decode, Count
  <2>2. k \in Tables /\ m[k] \in Seq(ValueType(k)) /\ a \in Nat
    BY <1>2, HeaderTypes DEF IsMemory, Uint16
  <2>3. d.values \in Seq(ValueType(k))
    BY <1>2, <2>2, DecodeType
  <2> HIDE DEF w, d, k, a
  <2>4. /\ u.table \in Seq(ValueType(k))
        /\ u.err = NoErr <=> a + Len(d.values) <= Len(m[k])
        /\ u.err # NoErr => u.table = m[k]
    BY <2>2, <2>3, RangeWrite
  <2> HIDE DEF u
  <2>5. IsMemory(w.mem) /\ DOMAIN w.mem = DOMAIN m
    <3>1. k \in DOMAIN m /\ w.mem = [m EXCEPT ![k] = u.table]
      BY <1>2, <2>1 DEF k
    <3> QED BY <2>4, <3>1, MemoryUpdate
  <2>6. u.table = m[k] => w.mem = m
    BY <1>2, <2>1 DEF IsMemory
  <2>7. Intact(m, w)
    BY <2>1, <2>4, <2>5, <2>6 DEF Intact
  <2>8. w.err = NoErr => Written(m, p, d, w.mem)
    BY <1>2, <2>1, <2>3, <2>4 DEF Written, u, k, a
  <2> QED BY <2>7, <2>8 DEF w, d
<1> QED BY <1>1, <1>2

-------------------------------------------------------------------------------
(***************************************************************************)
(* The server's loop.                                                      *)
(***************************************************************************)
\* An exception reply is two bytes, and its function code has the error bit.
LEMMA ExceptionType ==
    ASSUME NEW p \in Seq(Byte), NEW err
    PROVE  LET r == ExceptionReplyPacket(p, ToExceptionCode(err))
           IN  /\ r \in Seq(Byte) /\ Len(r) = 2
               /\ SeparateError(GetFunctionCode(r)).hasErr
<1> DEFINE fc == GetFunctionCode(p)
           e == ToExceptionCode(err)
           c == IF fc > 127 THEN fc ELSE fc + 128
<1>1. fc \in Byte
  <2>1. p # << >> => p[1] \in Byte
    OBVIOUS
  <2> QED BY <2>1 DEF GetFunctionCode, Byte
<1>2. e \in Byte
  <2>1. CASE err \in 1..255
    <3>1. err # ErrFcNotSupported
      BY <2>1 DEF ErrFcNotSupported
    <3>2. e = err
      BY <2>1, <3>1, Zenon DEF ToExceptionCode
    <3> HIDE DEF e
    <3> QED BY <2>1, <3>2 DEF Byte
  <2>2. CASE err \notin 1..255
    <3>1. e = EcIllegalFunction \/ e = EcServerDeviceFailure
      BY <2>2 DEF ToExceptionCode
    <3> HIDE DEF e
    <3> QED BY <3>1 DEF EcIllegalFunction, EcServerDeviceFailure, Byte
  <2> QED BY <2>1, <2>2
<1>3. c \in Byte /\ c > 127
  BY <1>1 DEF Byte
<1>4. ExceptionReplyPacket(p, e) = <<c, e>>
  BY DEF ExceptionReplyPacket
<1> HIDE DEF c, e
<1>5. <<c, e>> \in Seq(Byte) /\ Len(<<c, e>>) = 2 /\ GetFunctionCode(<<c, e>>) = c
  BY <1>2, <1>3 DEF GetFunctionCode
<1>6. SeparateError(c).hasErr
  BY <1>3 DEF SeparateError
<1> QED BY <1>4, <1>5, <1>6 DEF e

\* The request PDUs that ValidateRequest lets through.
LEMMA Validated ==
    ASSUME NEW p \in Seq(Byte), ValidateRequest(p) = NoErr
    PROVE  /\ Len(p) >= 3 /\ p # << >> /\ GetFunctionCode(p) = p[1]
           /\ GetFunctionCode(p) \in {1, 2, 3, 4, 5, 6, 15, 16}
<1>1. Valid(GetFunctionCode(p)) /\ Len(p) >= 3
  <2>1. Len(p) \in Nat
    OBVIOUS
  <2> QED BY <2>1 DEF ValidateRequest, EcIllegalFunction, EcIllegalDataAddress, NoErr
<1>2. p # << >> /\ p[1] \in Byte
  BY <1>1
<1>3. GetFunctionCode(p) = p[1]
  BY <1>2 DEF GetFunctionCode
<1>4. \A f \in Byte : Valid(f) => f \in {1, 2, 3, 4, 5, 6, 15, 16}
  BY DEF Valid, Byte
<1> QED BY <1>1, <1>2, <1>3, <1>4

\* The data of a write request, whose length fits what the header says.
LEMMA RequestValues ==
    ASSUME NEW p \in Seq(Byte), Len(p) >= 3, GetRequestValues(p).err = NoErr
    PROVE  LET f == GetFunctionCode(p)
               data == GetRequestValues(p).data
           IN  /\ data \in Seq(Byte) /\ data # << >>
               /\ GetRequestCount(p).err = NoErr
               /\ IsSingle(f) => Len(p) = 5 /\ Len(data) = 2
               /\ ~IsSingle(f) => /\ Len(p) >= 7 /\ Len(data) = Len(p) - 6
                                  /\ p[6] = Len(p) - 6 \/ OverSizeSupport
                                  /\ Fits(f, Len(data), Count(p))
               /\ ~IsUint16(f) => Len(data) < 65536
<1> DEFINE f == GetFunctionCode(p)
           d == GetRequestValues(p).data
<1>0. Len(p) \in Nat /\ f # 0
  BY DEF GetRequestValues, EcIllegalFunction, NoErr
<1>1. CASE IsSingle(f)
  <2>1. Len(p) = 5 /\ d = SubSeq(p, 4, Len(p))
    <3> HIDE DEF f
    <3>1. f = GetFunctionCode(p)
      BY DEF f
    <3> QED BY <1>0, <1>1, <3>1 DEF GetRequestValues, From, EcIllegalDataValue, NoErr
  <2>2. GetRequestCount(p).err = NoErr
    BY <1>1 DEF GetRequestCount
  <2>3. d \in Seq(Byte) /\ Len(d) = 2
    <3>1. Len(p) = 5 /\ d = SubSeq(p, 4, 5)
      BY <2>1
    <3> HIDE DEF d
    <3>2. \A i \in 1..5 : p[i] \in Byte
      <4>1. \A i \in 1..Len(p) : p[i] \in Byte
        OBVIOUS
      <4> QED BY <3>1, <4>1
    <3>3. \A i \in 4..5 : p[i] \in Byte
      BY <3>2
    <3> QED BY <3>1, <3>3, SubSeqProperties
  <2> QED BY <1>1, <2>1, <2>2, <2>3
<1>2. CASE ~IsSingle(f)
  <2>1. /\ Len(p) >= 7 /\ (p[6] = Len(p) - 6 \/ OverSizeSupport)
        /\ d = SubSeq(p, 7, Len(p)) /\ Fits(f, Len(p) - 6, Count(p))
    BY <1>0, <1>2 DEF GetRequestValues, From, Count, EcIllegalDataValue,
                      EcIllegalDataAddress, NoErr
  <2>2. GetRequestCount(p).err = NoErr
    BY <1>2, <2>1 DEF GetRequestCount
  <2>3. d \in Seq(Byte) /\ Len(d) = Len(p) - 6
    <3>1. \A i \in 7..Len(p) : p[i] \in Byte
      BY <2>1
    <3> HIDE DEF d
    <3> QED BY <1>0, <2>1, <3>1, SubSeqProperties
  <2>4. Count(p) \in Uint16
    BY <2>2, HeaderTypes
  <2>5. ~IsUint16(f) => Len(d) < 65536
    BY <2>1, <2>3, <2>4 DEF Fits, Uint16
  <2>6. d # << >>
    <3>1. d \in Seq(Byte) /\ Len(d) >= 1
      BY <1>0, <2>1, <2>3
    <3> HIDE DEF d
    <3> QED BY <3>1, NotEmpty
  <2>7. Fits(f, Len(d), Count(p))
    <3> HIDE DEF f, d
    <3> QED BY <2>1, <2>3
  <2> HIDE DEF d
  <2> QED BY <1>2, <2>1, <2>2, <2>3, <2>5, <2>6, <2>7 DEF d
<1> QED BY <1>1, <1>2

\* What a server's loop needs to know of it.
LEMMA RequestData ==
    ASSUME NEW p \in Seq(Byte), Len(p) >= 3, GetRequestValues(p).err = NoErr
    PROVE  /\ GetRequestValues(p).data \in Seq(Byte)
           /\ GetRequestValues(p).data # << >>
           /\ IsBool(GetFunctionCode(p)) => Len(GetRequestValues(p).data) < 65536
           /\ Len(p) >= 5
<1> DEFINE f == GetFunctionCode(p)
           d == GetRequestValues(p).data
<1>1. /\ d \in Seq(Byte) /\ d # << >>
      /\ IsSingle(f) => Len(p) = 5
      /\ ~IsSingle(f) => Len(p) >= 7
      /\ ~IsUint16(f) => Len(d) < 65536
  BY RequestValues
<1>2. IsBool(f) => ~IsUint16(f)
  BY DEF IsBool, IsUint16
<1>3. Len(p) >= 5
  <2> DEFINE n == Len(p)
  <2>1. n \in Nat /\ (n = 5 \/ n >= 7)
    BY <1>1
  <2> HIDE DEF n
  <2>2. n >= 5
    BY <2>1
  <2> QED BY <2>2 DEF n
<1> HIDE DEF d, f
<1> QED BY <1>1, <1>2, <1>3 DEF d, f

\* And of what becomes of the memory.
LEMMA OnWriteKeeps ==
    ASSUME NEW m, IsMemory(m), NEW p \in Seq(Byte), Len(p) >= 3,
           GetRequestValues(p).err = NoErr
    PROVE  Intact(m, OnWrite(m, p, GetRequestValues(p).data))
<1> DEFINE d == GetRequestValues(p).data
<1>1. /\ d \in Seq(Byte) /\ d # << >>
      /\ IsBool(GetFunctionCode(p)) => Len(d) < 65536
  BY RequestData
<1> HIDE DEF d
<1>2. Intact(m, OnWrite(m, p, d))
  BY <1>1, OnWriteResult
<1> QED BY <1>2 DEF d

\* A reply that carries data.
LEMMA ReadReplyBytes ==
    ASSUME NEW p \in Seq(Byte), p # << >>, NEW data \in Seq(Byte)
    PROVE  LET r == MakeReadReply(p, data)
           IN  /\ r \in Seq(Byte) /\ Len(r) = Len(data) + 2
               /\ r[1] = GetFunctionCode(p) /\ r[2] = Len(data) % 256
               /\ \A i \in 1..Len(data) : r[i + 2] = data[i]
<1> DEFINE h == <<GetFunctionCode(p), Len(data) % 256>>
<1>1. GetFunctionCode(p) \in Byte /\ Len(data) \in Nat
  BY DEF GetFunctionCode
<1>2. Len(data) % 256 \in Byte
  BY <1>1 DEF Byte
<1>3. /\ h \in Seq(Byte) /\ Len(h) = 2
      /\ h[1] = GetFunctionCode(p) /\ h[2] = Len(data) % 256
  BY <1>1, <1>2
<1>4. MakeReadReply(p, data) = h \o data
  BY DEF MakeReadReply
<1> HIDE DEF h
<1>5. /\ h \o data \in Seq(Byte) /\ Len(h \o data) = Len(h) + Len(data)
      /\ \A i \in 1..(Len(h) + Len(data)) :
            (h \o data)[i] = IF i <= Len(h) THEN h[i] ELSE data[i - Len(h)]
  <2>1. h \in Seq(Byte)
    BY <1>3
  <2> QED BY <2>1, ConcatProperties
<1>6. \A i \in 1..Len(data) : (h \o data)[i + 2] = data[i]
  <2> TAKE i \in 1..Len(data)
  <2>1. i + 2 \in 1..(Len(h) + Len(data)) /\ ~(i + 2 <= Len(h)) /\ i + 2 - Len(h) = i
    BY <1>1, <1>3
  <2> QED BY <1>5, <2>1
<1>7. 1 \in 1..(Len(h) + Len(data)) /\ 2 \in 1..(Len(h) + Len(data))
  BY <1>1, <1>3
<1>8. (h \o data)[1] = h[1] /\ (h \o data)[2] = h[2]
  BY <1>3, <1>5, <1>7
<1> QED BY <1>1, <1>3, <1>4, <1>5, <1>6, <1>8

\* A write is confirmed by the first five bytes of its request.
LEMMA WriteReplyBytes ==
    ASSUME NEW p \in Seq(Byte), Len(p) >= 5
    PROVE  LET r == MakeWriteReply(p)
           IN  /\ r \in Seq(Byte) /\ Len(r) = 5 /\ r = SubSeq(p, 1, 5)
               /\ \A i \in 1..5 : r[i] = p[i]
<1>1. Len(p) \in Nat
  OBVIOUS
<1>2. \A i \in 1..5 : p[i] \in Byte
  BY <1>1
<1>3. /\ SubSeq(p, 1, 5) \in Seq(Byte) /\ Len(SubSeq(p, 1, 5)) = 5
      /\ \A i \in 1..5 : SubSeq(p, 1, 5)[i] = p[i]
  BY <1>2, SubSeqProperties
<1>4. CASE Len(p) > 5
  BY <1>3, <1>4 DEF MakeWriteReply
<1>5. CASE Len(p) = 5
  <2>1. SubSeq(p, 1, 5) = p
    BY <1>5, SubSeqFull
  <2>2. MakeWriteReply(p) = p
    BY <1>5 DEF MakeWriteReply
  <2> QED BY <1>3, <2>1, <2>2
<1>6. Len(p) > 5 \/ Len(p) = 5
  <2> DEFINE n == Len(p)
  <2>1. n \in Nat /\ n >= 5
    BY <1>1
  <2> HIDE DEF n
  <2>2. n > 5 \/ n = 5
    BY <2>1
  <2> QED BY <2>2 DEF n
<1> QED BY <1>4, <1>5, <1>6, Zenon

\* The result of a read that succeeds.
LEMMA HandledRead ==
    ASSUME NEW m, IsMemory(m), NEW p \in Seq(Byte), Len(p) >= 3, p # << >>,
           OnRead(m, p).err = NoErr
    PROVE  /\ HandleRead(m, p) = [mem |-> m, err |-> NoErr,
                                  reply |-> MakeReadReply(p, OnRead(m, p).data)]
           /\ OnRead(m, p).data \in Seq(Byte)
<1>1. HandleRead(m, p) = [mem |-> m, err |-> NoErr,
                          reply |-> MakeReadReply(p, OnRead(m, p).data)]
  BY DEF HandleRead
<1>2. /\ TableFor(p) \in DOMAIN m
      /\ ValuesAsked(m, p) \in Seq(ValueType(TableFor(p)))
      /\ OnRead(m, p) = Encode(p, ValuesAsked(m, p))
  BY OnReadResult
<1>3. TableFor(p) \in Tables
  BY <1>2 DEF IsMemory
<1>4. Encode(p, ValuesAsked(m, p)).data \in Seq(Byte)
  BY <1>2, <1>3, EncodeType
<1> QED BY <1>1, <1>2, <1>4

\* A request is executed whole or refused: whatever bytes a server is sent, its
\* memory keeps its tables and their types, a request that fails leaves it as it
\* was and is answered with an exception, and a request that succeeds is answered
\* under its own function code (serve of rtu_server.go and of tcp_server.go).
THEOREM Handled ==
    ASSUME NEW m, IsMemory(m), NEW p \in Seq(Byte)
    PROVE  LET h == Handle(m, p)
           IN  /\ IsMemory(h.mem) /\ DOMAIN h.mem = DOMAIN m
               /\ h.reply \in Seq(Byte) /\ Len(h.reply) >= 2
               /\ h.err # NoErr => /\ h.mem = m
                                   /\ SeparateError(GetFunctionCode(h.reply)).hasErr
               /\ h.err = NoErr => GetFunctionCode(h.reply) = GetFunctionCode(p)
<1> DEFINE h == Handle(m, p)
           Good(r) == /\ IsMemory(r.mem) /\ DOMAIN r.mem = DOMAIN m
                      /\ r.reply \in Seq(Byte) /\ Len(r.reply) >= 2
                      /\ r.err # NoErr =>
                            /\ r.mem = m
                            /\ SeparateError(GetFunctionCode(r.reply)).hasErr
                      /\ r.err = NoErr => GetFunctionCode(r.reply) = GetFunctionCode(p)
<1>1. ASSUME NEW e, e # NoErr PROVE Good(Failed(m, p, e))
  <2> DEFINE r == ExceptionReplyPacket(p, ToExceptionCode(e))
  <2>1. r \in Seq(Byte) /\ Len(r) = 2 /\ SeparateError(GetFunctionCode(r)).hasErr
    BY ExceptionType
  <2>2. Failed(m, p, e) = [mem |-> m, err |-> e, reply |-> r]
    BY DEF Failed
  <2> HIDE DEF r
  <2> QED BY <1>1, <2>1, <2>2
<1>2. CASE ValidateRequest(p) # NoErr
  <2>1. h = Failed(m, p, ValidateRequest(p))
    BY <1>2 DEF Handle
  <2> HIDE DEF Good, h
  <2>2. Good(h)
    BY <1>1, <1>2, <2>1
  <2> QED BY <2>2 DEF Good, h
<1>3. CASE ValidateRequest(p) = NoErr /\ IsReadToServer(GetFunctionCode(p))
  <2>1. h = HandleRead(m, p)
    BY <1>3 DEF Handle, Dispatch
  <2>2. Len(p) >= 3 /\ p # << >>
    BY <1>3, Validated
  <2>3. CASE OnRead(m, p).err # NoErr
    <3>1. h = Failed(m, p, OnRead(m, p).err)
      BY <2>1, <2>3 DEF HandleRead
    <3> HIDE DEF Good, h
    <3>2. Good(h)
      BY <1>1, <2>3, <3>1
    <3> QED BY <3>2 DEF Good, h
  <2>4. CASE OnRead(m, p).err = NoErr
    <3> DEFINE d == OnRead(m, p).data
    <3>1. d \in Seq(Byte) /\ h = [mem |-> m, err |-> NoErr, reply |-> MakeReadReply(p, d)]
      BY <2>1, <2>2, <2>4, HandledRead
    <3> HIDE DEF d, h
    <3>2. /\ h.reply \in Seq(Byte) /\ Len(h.reply) = Len(d) + 2
          /\ h.reply[1] = GetFunctionCode(p)
      BY <2>2, <3>1, ReadReplyBytes
    <3>3. Len(h.reply) >= 2 /\ h.reply # << >>
      BY <3>1, <3>2
    <3>4. GetFunctionCode(h.reply) = GetFunctionCode(p)
      BY <3>2, <3>3 DEF GetFunctionCode
    <3> QED BY <3>1, <3>2, <3>3, <3>4 DEF h
  <2> QED BY <2>3, <2>4
<1>4. CASE ValidateRequest(p) = NoErr /\ ~IsReadToServer(GetFunctionCode(p))
  <2> DEFINE v == GetRequestValues(p)
             w == OnWrite(m, p, v.data)
  <2>1. h = HandleWrite(m, p)
    BY <1>4 DEF Handle, Dispatch
  <2>2. Len(p) >= 3
    BY <1>4, Validated
  <2>3. CASE v.err # NoErr
    <3>1. h = Failed(m, p, v.err)
      BY <2>1, <2>3 DEF HandleWrite
    <3> HIDE DEF Good, h
    <3>2. Good(h)
      BY <1>1, <2>3, <3>1
    <3> QED BY <3>2 DEF Good, h
  <2>4. CASE v.err = NoErr
    <3>1. Len(p) >= 5
      BY <2>2, <2>4, RequestData
    <3>2. IsMemory(w.mem) /\ DOMAIN w.mem = DOMAIN m /\ (w.err # NoErr => w.mem = m)
      BY <2>2, <2>4, OnWriteKeeps DEF Intact
    <3>3. CASE w.err # NoErr
      <4>1. h = Failed(m, p, w.err)
        BY <2>1, <2>4, <3>2, <3>3 DEF HandleWrite
      <4> HIDE DEF Good, h
      <4>2. Good(h)
        BY <1>1, <3>3, <4>1
      <4> QED BY <4>2 DEF Good, h
    <3>4. CASE w.err = NoErr
      <4>1. h = [mem |-> w.mem, err |-> NoErr, reply |-> MakeWriteReply(p)]
        BY <2>1, <2>4, <3>4 DEF HandleWrite
      <4> HIDE DEF h, w
      <4>2. /\ h.reply \in Seq(Byte) /\ Len(h.reply) = 5
            /\ \A i \in 1..5 : h.reply[i] = p[i]
        BY <3>1, <4>1, WriteReplyBytes
      <4>3. h.reply # << >> /\ p # << >> /\ h.reply[1] = p[1]
        BY <3>1, <4>2
      <4>4. GetFunctionCode(h.reply) = GetFunctionCode(p)
        BY <4>3 DEF GetFunctionCode
      <4>5. h.mem = w.mem /\ h.err = NoErr
        BY <4>1
      <4>a. Len(h.reply) >= 2
        BY <4>2
      <4>6. Good(h)
        BY <3>2, <4>2, <4>4, <4>5, <4>a
      <4> QED BY <4>6 DEF Good, h
    <3> QED BY <3>3, <3>4
  <2> QED BY <2>3, <2>4
<1> QED BY <1>2, <1>3, <1>4

\* The data of a reply to a read that asks for no more than MaxPerPacket.
LEMMA ReadData ==
    ASSUME NEW m, IsMemory(m), NEW p \in Seq(Byte), ValidateRequest(p) = NoErr,
           IsReadToServer(GetFunctionCode(p)), OnRead(m, p).err = NoErr,
           Count(p) <= MaxPerPacket(GetFunctionCode(p))
    PROVE  /\ GetFunctionCode(p) \in {1, 2, 3, 4} /\ GetRequestCount(p).err = NoErr
           /\ Count(p) \in Nat /\ Count(p) <= 2000
           /\ GetFunctionCode(p) \in {1, 2} =>
                 Len(OnRead(m, p).data) = (Count(p) + 7) \div 8
           /\ GetFunctionCode(p) \in {3, 4} => Len(OnRead(m, p).data) = 2 * Count(p)
           /\ Len(OnRead(m, p).data) \in Nat /\ Len(OnRead(m, p).data) <= 250
<1> DEFINE f == GetFunctionCode(p)
           v == ValuesAsked(m, p)
           c == Count(p)
           l == Len(OnRead(m, p).data)
<1>1. Len(p) >= 3 /\ f \in {1, 2, 3, 4, 5, 6, 15, 16}
  BY Validated
<1>2. f \in {1, 2, 3, 4}
  <2> HIDE DEF f
  <2> QED BY <1>1 DEF IsReadToServer, f
<1>3. /\ GetRequestCount(p).err = NoErr /\ TableFor(p) \in DOMAIN m
      /\ v \in Seq(ValueType(TableFor(p))) /\ Len(v) = c
      /\ OnRead(m, p) = Encode(p, v)
  BY <1>1, OnReadResult
<1>4. c \in Nat
  BY <1>1, <1>3, HeaderTypes DEF Uint16
<1>5. TableFor(p) \in Tables
  BY <1>3 DEF IsMemory
<1>6. Encode(p, v).err = NoErr
  BY <1>3
<1> HIDE DEF v
<1>7. l = IF f = FcWriteSingleCoil THEN 2 ELSE IF IsBool(f) THEN (Len(v) + 7) \div 8
          ELSE 2 * Len(v)
  BY <1>3, <1>5, <1>6, EncodeType
<1>8. c <= MaxPerPacket(f)
  OBVIOUS
<1> HIDE DEF c, l, f
<1>9. CASE f \in {1, 2}
  <2>1. MaxPerPacket(f) = 2000 /\ IsBool(f) /\ f # FcWriteSingleCoil
    BY <1>9 DEF MaxPerPacket, FcReadCoils, FcReadDiscreteInputs, FcReadHoldingRegisters,
       FcReadInputRegisters, FcWriteSingleCoil, FcWriteSingleRegister,
       FcWriteMultipleCoils, FcWriteMultipleRegisters, IsBool
  <2>2. l = (c + 7) \div 8 /\ l \in Nat /\ l <= 250 /\ c <= 2000
    BY <1>3, <1>4, <1>7, <1>8, <2>1
  <2> QED BY <1>2, <1>3, <1>4, <1>9, <2>2 DEF c, l, f
<1>10. CASE f \in {3, 4}
  <2>1. MaxPerPacket(f) = 125 /\ ~IsBool(f) /\ f # FcWriteSingleCoil
    BY <1>10 DEF MaxPerPacket, FcReadCoils, FcReadDiscreteInputs, FcReadHoldingRegisters,
       FcReadInputRegisters, FcWriteSingleCoil, FcWriteSingleRegister,
       FcWriteMultipleCoils, FcWriteMultipleRegisters, IsBool
  <2>2. l = 2 * c /\ l \in Nat /\ l <= 250 /\ c <= 2000
    BY <1>3, <1>4, <1>7, <1>8, <2>1
  <2> QED BY <1>2, <1>3, <1>4, <1>10, <2>2 DEF c, l, f
<1> QED BY <1>2, <1>9, <1>10

\* GetReplyValues gives back the data that MakeReadReply was given.
LEMMA ReplyCarries ==
    ASSUME NEW p \in Seq(Byte), p # << >>, NEW data \in Seq(Byte), data # << >>,
           Len(data) <= 255
    PROVE  /\ GetReplyValues(MakeReadReply(p, data)).err = NoErr
           /\ GetReplyValues(MakeReadReply(p, data)).data = data
<1> DEFINE r == MakeReadReply(p, data)
           n == Len(data)
           s == SubSeq(r, 3, Len(r))
<1>1. n \in Nat /\ n >= 1 /\ n <= 255
  BY NotEmpty
<1>2. /\ r \in Seq(Byte) /\ Len(r) = n + 2 /\ r[2] = n % 256
      /\ \A i \in 1..n : r[i + 2] = data[i]
  BY ReadReplyBytes
<1> HIDE DEF r
<1>3. n % 256 = n
  <2> HIDE DEF n
  <2> QED BY <1>1
<1>4. GetReplyValues(r).err = NoErr /\ GetReplyValues(r).data = s
  <2> HIDE DEF n
  <2>1. ~(Len(r) - 2 < 1 \/ Len(r) - 2 # r[2])
    BY <1>1, <1>2, <1>3
  <2> QED BY <2>1 DEF GetReplyValues, From
<1>5. s \in Seq(Byte) /\ Len(s) = n /\ \A i \in 1..n : s[i] = r[i + 2]
  <2> HIDE DEF n
  <2> DEFINE k == n + 2
  <2>1. k \in Int /\ 3 <= k /\ k - 3 + 1 = n /\ \A i \in 1..n : 3 + i - 1 = i + 2
    BY <1>1
  <2>2. s = SubSeq(r, 3, k) /\ \A i \in 3..k : r[i] \in Byte
    BY <1>1, <1>2
  <2> HIDE DEF s, k
  <2>3. /\ s \in Seq(Byte) /\ Len(s) = IF 3 <= k THEN k - 3 + 1 ELSE 0
        /\ \A i \in 1..(k - 3 + 1) : s[i] = r[3 + i - 1]
    <3>1. 3 \in Int
      OBVIOUS
    <3> QED BY <2>1, <2>2, <3>1, SubSeqProperties
  <2> QED BY <2>1, <2>3
<1> HIDE DEF s
<1>6. s = data
  BY <1>2, <1>5, SameSequence
<1> QED BY <1>4, <1>6 DEF r

\* End to end: what the client decodes from the reply to a read is what the
\* server's table has in the range that was asked for, for every function code,
\* address and count up to MaxPerPacket (OnRead and MakeReadReply at the server,
\* GetReplyValues and the codec at the client).
THEOREM ReadServed ==
    ASSUME NEW m, IsMemory(m), NEW p \in Seq(Byte), Handle(m, p).err = NoErr,
           IsReadToServer(GetFunctionCode(p)),
           Count(p) >= 1, Count(p) <= MaxPerPacket(GetFunctionCode(p))
    PROVE  /\ HasRange(m, p)
           /\ GetReplyValues(Handle(m, p).reply).err = NoErr
           /\ Decode(p, GetReplyValues(Handle(m, p).reply).data)
                = [values |-> ValuesAsked(m, p), err |-> NoErr]
<1> DEFINE f == GetFunctionCode(p)
           v == ValuesAsked(m, p)
           d == OnRead(m, p).data
<1>0. \A e : Failed(m, p, e).err = e
  BY DEF Failed
<1>1. ValidateRequest(p) = NoErr
  BY <1>0 DEF Handle
<1>2. Len(p) >= 3 /\ p # << >>
  BY <1>1, Validated
<1>3. Handle(m, p) = HandleRead(m, p) /\ OnRead(m, p).err = NoErr
  BY <1>0, <1>1 DEF Handle, Dispatch, HandleRead
<1>4. d \in Seq(Byte) /\ Handle(m, p).reply = MakeReadReply(p, d)
  BY <1>2, <1>3, HandledRead
<1>5. /\ f \in {1, 2, 3, 4} /\ Count(p) \in Nat /\ Count(p) <= 2000
      /\ f \in {1, 2} => Len(d) = (Count(p) + 7) \div 8
      /\ f \in {3, 4} => Len(d) = 2 * Count(p)
      /\ Len(d) <= 250
  BY <1>1, <1>3, ReadData
<1>6. /\ TableFor(p) \in DOMAIN m
      /\ v \in Seq(ValueType(TableFor(p))) /\ Len(v) = Count(p)
      /\ HasRange(m, p) /\ OnRead(m, p) = Encode(p, v)
  BY <1>2, <1>3, OnReadResult
<1>7. TableFor(p) \in Tables
  BY <1>6 DEF IsMemory
<1>8. d # << >> /\ Len(d) <= 255
  <2> HIDE DEF d, f
  <2>1. Len(d) >= 1 /\ Len(d) <= 255
    <3> DEFINE c == Count(p)
               l == Len(d)
    <3>1. /\ c \in Nat /\ c >= 1 /\ l \in Nat /\ l <= 250
          /\ l = (c + 7) \div 8 \/ l = 2 * c
      BY <1>4, <1>5
    <3> HIDE DEF c, l
    <3>2. l >= 1 /\ l <= 255
      BY <3>1
    <3> QED BY <3>2 DEF l
  <2> QED BY <1>4, <2>1, NotEmpty
<1>9. /\ GetReplyValues(Handle(m, p).reply).err = NoErr
      /\ GetReplyValues(Handle(m, p).reply).data = d
  <2> HIDE DEF d
  <2> QED BY <1>2, <1>4, <1>8, ReplyCarries
<1>10. ~IsSingle(f)
  <2> HIDE DEF f
  <2> QED BY <1>5 DEF IsSingle
<1>11. Decode(p, Encode(p, v).data) = [values |-> v, err |-> NoErr]
  <2> HIDE DEF v
  <2>1. Count(p) <= 65528
    BY <1>5
  <2> QED BY <1>6, <1>7, <1>10, <2>1, ValuesRoundTrip
<1> QED BY <1>6, <1>9, <1>11

\* The first bytes of a request and its data, put together.
Joined(p, h, k, data) ==
    /\ p \in Seq(Byte) /\ Len(p) = k + Len(data) /\ p # << >>
    /\ \A i \in 1..k : p[i] = h[i]
    /\ SubSeq(p, k + 1, Len(p)) = data

LEMMA RequestBytes ==
    ASSUME NEW h \in Seq(Byte), NEW k \in Nat, k >= 3, k <= Len(h),
           NEW data \in Seq(Byte)
    PROVE  Joined(SubSeq(h, 1, k) \o data, h, k, data)
<1> DEFINE b == SubSeq(h, 1, k)
           p == b \o data
           n == Len(data)
           s == SubSeq(p, k + 1, Len(p))
<1>1. \A i \in 1..k : h[i] \in Byte
  OBVIOUS
<1>2. b \in Seq(Byte) /\ Len(b) = k /\ \A i \in 1..k : b[i] = h[i]
  BY <1>1, SubSeqProperties
<1>3. n \in Nat
  OBVIOUS
<1> HIDE DEF b
<1>4. /\ p \in Seq(Byte) /\ Len(p) = k + n
      /\ \A i \in 1..(k + n) : p[i] = IF i <= k THEN b[i] ELSE data[i - k]
  <2>1. /\ b \o data \in Seq(Byte) /\ Len(b \o data) = Len(b) + Len(data)
        /\ \A i \in 1..(Len(b) + Len(data)) :
              (b \o data)[i] = IF i <= Len(b) THEN b[i] ELSE data[i - Len(b)]
    <3>1. b \in Seq(Byte) /\ data \in Seq(Byte)
      BY <1>2
    <3> HIDE DEF p, n, s
    <3> QED BY <3>1, ConcatProperties
  <2>2. Len(b) = k
    BY <1>2
  <2> QED BY <2>1, <2>2
<1> HIDE DEF p, n
<1>5. \A i \in 1..k : p[i] = h[i]
  BY <1>2, <1>3, <1>4
<1>6. p # << >>
  BY <1>3, <1>4
<1>7. /\ s \in Seq(Byte) /\ Len(s) = n
      /\ \A i \in 1..n : s[i] = p[i + k]
  <2> DEFINE a == k + 1
             e == k + n
  <2>1. a \in Int /\ e \in Int /\ \A i \in a..e : p[i] \in Byte
    BY <1>3, <1>4
  <2>2. s = SubSeq(p, a, e)
    BY <1>4
  <2>3. e - a + 1 = n /\ (a <= e \/ n = 0) /\ \A i \in 1..n : a + i - 1 = i + k
    BY <1>3
  <2> HIDE DEF a, e, s
  <2>4. /\ s \in Seq(Byte) /\ Len(s) = IF a <= e THEN e - a + 1 ELSE 0
        /\ \A i \in 1..(e - a + 1) : s[i] = p[a + i - 1]
    BY <2>1, <2>2, SubSeqProperties
  <2> QED BY <1>3, <2>1, <2>3, <2>4
<1> HIDE DEF s
<1>8. \A i \in 1..n : s[i] = data[i]
  <2> TAKE i \in 1..n
  <2>1. i + k \in 1..(k + n) /\ ~(i + k <= k) /\ i + k - k = i
    BY <1>3
  <2>2. p[i + k] = data[i + k - k]
    BY <1>4, <2>1
  <2> QED BY <1>7, <2>1, <2>2
<1>9. s = data
  BY <1>7, <1>8, SameSequence DEF n
<1>10. Joined(p, h, k, data)
  BY <1>4, <1>5, <1>6, <1>9 DEF Joined, s, n
<1> QED BY <1>10 DEF p, b

\* The bytes before the data of a write request.
HeaderLen(f) == IF IsSingle(f) THEN 3 ELSE 6
DataLen(f, q) == IF IsSingle(f) THEN 2 ELSE IF IsUint16(f) THEN 2 * q ELSE (q + 7) \div 8

\* The header of a write request has the numbers it was made of.
IsWriteHeader(h, f, a, q) ==
    /\ h \in Seq(Byte) /\ Len(h) = HeaderLen(f)
    /\ h[1] = f /\ h[2] * 256 + h[3] = a
    /\ IsSingle(f) => q = 1
    /\ ~IsSingle(f) => /\ h[4] * 256 + h[5] = q /\ h[6] = DataLen(f, q)
                       /\ q + a <= MaxRange
    /\ q >= 1 /\ q <= 1968

LEMMA WriteHeader ==
    ASSUME NEW f \in {5, 6, 15, 16}, NEW a \in Uint16, NEW q \in Nat,
           HeaderError(f, a, q) = NoErr
    PROVE  IsWriteHeader(MakeRequestHeader(f, a, q).pdu, f, a, q)
<1> DEFINE h == MakeRequestHeader(f, a, q).pdu
<1>1. h = HeaderBytes(f, a, q)
  BY DEF MakeRequestHeader
<1>2. /\ MaxPerPacket(f) # 0 /\ q # 0 /\ ~(q > MaxPerPacket(f)) /\ ~(a + q > MaxRange)
  BY DEF HeaderError, EcIllegalFunction, EcIllegalDataAddress, NoErr
<1>3. /\ f \in {5, 6} => MaxPerPacket(f) = 1
      /\ f = 15 => MaxPerPacket(f) = 1968
      /\ f = 16 => MaxPerPacket(f) = 123
  BY DEF MaxPerPacket, FcReadCoils, FcReadDiscreteInputs, FcReadHoldingRegisters,
         FcReadInputRegisters, FcWriteSingleCoil, FcWriteSingleRegister,
         FcWriteMultipleCoils, FcWriteMultipleRegisters
<1>4. /\ f \in {5, 6} <=> IsSingle(f)
      /\ f = 15 => ~IsUint16(f)
      /\ f = 16 => IsUint16(f)
  BY DEF IsSingle, IsUint16
<1>5. High(a) \in Byte /\ Low(a) \in Byte /\ High(a) * 256 + Low(a) = a /\ f \in Byte
  <2>1. f \in Byte
    BY DEF Byte
  <2> QED BY <2>1, RegisterBytes
<1>6. q >= 1 /\ q <= 1968 /\ q + a <= MaxRange
  BY <1>2, <1>3 DEF Uint16, MaxRange
<1> HIDE DEF h
<1>7. CASE f \in {5, 6}
  <2>1. h = <<f, High(a), Low(a)>>
    BY <1>1, <1>4, <1>7 DEF HeaderBytes, FcWriteMultipleCoils, FcWriteMultipleRegisters
  <2>2. h \in Seq(Byte) /\ Len(h) = 3 /\ h[1] = f /\ h[2] = High(a) /\ h[3] = Low(a)
    BY <1>5, <2>1
  <2>3. q = 1
    BY <1>2, <1>3, <1>7
  <2> QED BY <1>4, <1>5, <1>6, <1>7, <2>2, <2>3 DEF HeaderLen, IsWriteHeader, h
<1>8. CASE f \in {15, 16}
  <2> DEFINE c == IF f = 15 THEN (q + 7) \div 8 ELSE q * 2
  <2>1. h = <<f, High(a), Low(a), High(q), Low(q), Low(c)>>
    BY <1>1, <1>4, <1>8 DEF HeaderBytes, FcWriteMultipleCoils, FcWriteMultipleRegisters
  <2>2. c \in Nat /\ c < 256 /\ c = DataLen(f, q)
    BY <1>2, <1>3, <1>4, <1>8 DEF DataLen
  <2>3. Low(c) = c /\ c \in Byte
    <3> HIDE DEF c
    <3> QED BY <2>2 DEF Low, Byte
  <2>4. q \in Uint16
    BY <1>6 DEF Uint16
  <2>5. High(q) \in Byte /\ Low(q) \in Byte /\ High(q) * 256 + Low(q) = q
    BY <2>4, RegisterBytes
  <2> HIDE DEF c
  <2>6. /\ h \in Seq(Byte) /\ Len(h) = 6 /\ h[1] = f /\ h[2] = High(a) /\ h[3] = Low(a)
        /\ h[4] = High(q) /\ h[5] = Low(q) /\ h[6] = c
    BY <1>5, <2>1, <2>3, <2>5
  <2>7. ~IsSingle(f)
    BY <1>4, <1>8
  <2> QED BY <1>5, <1>6, <2>2, <2>5, <2>6, <2>7 DEF HeaderLen, IsWriteHeader, h
<1> QED BY <1>7, <1>8

\* What a client makes of a write, and what the server reads in it.
WriteRequest(f, a, q, data) == MakeWriteRequest(MakeRequestHeader(f, a, q).pdu, data)

Carries(p, f, a, q, data) ==
    /\ p \in Seq(Byte) /\ Len(p) >= 5 /\ p # << >>
    /\ GetFunctionCode(p) = f /\ GetAddress(p) = a /\ Count(p) = q
    /\ GetRequestCount(p).err = NoErr
    /\ GetRequestValues(p) = [data |-> data, err |-> NoErr]

LEMMA WriteRequestCarries ==
    ASSUME NEW f \in {5, 6, 15, 16}, NEW a \in Uint16, NEW q \in Nat,
           HeaderError(f, a, q) = NoErr,
           NEW data \in Seq(Byte), Len(data) = DataLen(f, q)
    PROVE  Carries(WriteRequest(f, a, q, data), f, a, q, data)
<1> DEFINE h == MakeRequestHeader(f, a, q).pdu
           k == HeaderLen(f)
           p == WriteRequest(f, a, q, data)
           n == Len(data)
<1>1. /\ h \in Seq(Byte) /\ Len(h) = k
      /\ h[1] = f /\ h[2] * 256 + h[3] = a
      /\ IsSingle(f) => q = 1
      /\ ~IsSingle(f) => /\ h[4] * 256 + h[5] = q /\ h[6] = DataLen(f, q)
                         /\ q + a <= MaxRange
      /\ q >= 1 /\ q <= 1968
  <2>1. IsWriteHeader(h, f, a, q)
    BY WriteHeader
  <2> HIDE DEF h
  <2> QED BY <2>1 DEF IsWriteHeader
<1> HIDE DEF h
<1>2. h # << >> /\ GetFunctionCode(h) = f
  <2>1. Len(h) >= 3
    BY <1>1 DEF HeaderLen
  <2>2. h # << >>
    BY <1>1, <2>1
  <2> QED BY <1>1, <2>2 DEF GetFunctionCode
<1>3. p = SubSeq(h, 1, k) \o data
  <2>1. p = MakeWriteRequest(h, data)
    BY DEF WriteRequest, h
  <2> HIDE DEF p, k
  <2>2. CASE IsSingle(f)
    <3>1. k = 3
      BY <2>2 DEF k, HeaderLen
    <3>2. f \notin {15, 16}
      BY <2>2 DEF IsSingle
    <3> QED BY <1>2, <2>1, <2>2, <3>1, <3>2
        DEF MakeWriteRequest, FcWriteMultipleCoils, FcWriteMultipleRegisters
  <2>3. CASE ~IsSingle(f)
    <3>1. k = 6 /\ f \in {15, 16}
      BY <2>3 DEF k, HeaderLen, IsSingle
    <3> QED BY <1>2, <2>1, <2>3, <3>1
        DEF MakeWriteRequest, FcWriteMultipleCoils, FcWriteMultipleRegisters
  <2> QED BY <2>2, <2>3
<1>4. k \in Nat /\ k >= 3 /\ k <= Len(h)
  BY <1>1 DEF HeaderLen
<1>5. n \in Nat /\ n = DataLen(f, q)
  OBVIOUS
<1>6. (IsSingle(f) => n = 2) /\ n >= 1
  <2> HIDE DEF n
  <2> QED BY <1>1, <1>5 DEF DataLen
<1> HIDE DEF p, k, n
<1>7. /\ p \in Seq(Byte) /\ Len(p) = k + n /\ p # << >>
      /\ \A i \in 1..k : p[i] = h[i]
      /\ SubSeq(p, k + 1, Len(p)) = data
  <2>1. Joined(p, h, k, data)
    BY <1>1, <1>3, <1>4, RequestBytes
  <2> QED BY <2>1 DEF Joined, n
<1>8. p[1] = f /\ p[2] = h[2] /\ p[3] = h[3]
  BY <1>1, <1>4, <1>7
<1>9. GetFunctionCode(p) = f /\ GetAddress(p) = a
  BY <1>1, <1>7, <1>8 DEF GetFunctionCode, GetAddress
<1>10. CASE IsSingle(f)
  <2>1. k = 3 /\ n = 2 /\ Len(p) = 5 /\ f # 0
    BY <1>6, <1>7, <1>10 DEF k, HeaderLen
  <2>2. GetRequestCount(p) = [count |-> 1, err |-> NoErr]
    BY <1>9, <1>10 DEF GetRequestCount
  <2>3. From(p, 3) = data
    BY <1>7, <2>1 DEF From
  <2>4. GetRequestValues(p) = [data |-> data, err |-> NoErr]
    BY <1>9, <1>10, <2>1, <2>3 DEF GetRequestValues
  <2> QED BY <1>1, <1>7, <1>9, <1>10, <2>1, <2>2, <2>4 DEF Carries, Count, p
<1>11. CASE ~IsSingle(f)
  <2>1. k = 6 /\ f # 0
    BY <1>11 DEF k, HeaderLen
  <2>2. /\ Len(p) = n + 6 /\ p[4] * 256 + p[5] = q /\ p[6] = n
    <3>1. p[4] = h[4] /\ p[5] = h[5] /\ p[6] = h[6]
      <4>1. \A i \in 1..6 : p[i] = h[i]
        BY <1>7, <2>1
      <4> QED BY <4>1
    <3>2. Len(p) = n + 6
      BY <1>5, <1>7, <2>1
    <3> QED BY <1>1, <1>5, <1>11, <3>1, <3>2
  <2>3. ~(Len(p) < 5) /\ Len(p) - 6 = n /\ Len(p) >= 5
    BY <1>5, <1>6, <2>2
  <2>4. GetRequestCount(p) = [count |-> q, err |-> NoErr]
    BY <1>9, <1>11, <2>2, <2>3 DEF GetRequestCount
  <2>5. From(p, 6) = data
    BY <1>7, <2>1 DEF From
  <2>6. Fits(f, n, q)
    BY <1>1, <1>5, <1>11 DEF Fits, DataLen
  <2>7. ~(q + a > MaxRange)
    BY <1>1, <1>11 DEF MaxRange, Uint16
  <2>8. ~(n < 1 \/ (n # p[6] /\ ~OverSizeSupport))
    BY <1>5, <1>6, <2>2
  <2>9. GetRequestValues(p) = [data |-> data, err |-> NoErr]
    BY <1>9, <1>11, <2>1, <2>3, <2>4, <2>5, <2>6, <2>7, <2>8 DEF GetRequestValues
  <2> QED BY <1>7, <1>9, <2>3, <2>4, <2>9 DEF Carries, Count, p
<1> QED BY <1>10, <1>11

\* The values that a client encodes into a write request are those that the server
\* decodes from it.
LEMMA WriteEncoded ==
    ASSUME NEW f \in {5, 6, 15, 16}, NEW a \in Uint16, TableOf(f) \in Tables,
           NEW values \in Seq(ValueType(TableOf(f))),
           HeaderError(f, a, Len(values)) = NoErr
    PROVE  LET d == ToData(f, values)
               p == WriteRequest(f, a, Len(values), d.data)
           IN  /\ d.err = NoErr /\ d.data \in Seq(Byte)
               /\ Carries(p, f, a, Len(values), d.data)
               /\ Decode(p, d.data) = [values |-> values, err |-> NoErr]
<1> DEFINE q == Len(values)
           d == ToData(f, values)
           p == WriteRequest(f, a, q, d.data)
<1>1. q \in Nat /\ TableOf(f) \in Tables
  OBVIOUS
<1>2. q >= 1 /\ q <= 1968 /\ (IsSingle(f) => q = 1)
  <2> HIDE DEF q
  <2>1. IsWriteHeader(MakeRequestHeader(f, a, q).pdu, f, a, q)
    BY <1>1, WriteHeader DEF q
  <2> QED BY <2>1 DEF IsWriteHeader
<1>3. d.err = NoErr /\ d.data \in Seq(Byte) /\ Len(d.data) = DataLen(f, q)
  <2>1. CASE IsBool(f)
    <3>1. ValueType(TableOf(f)) = Bits
      BY <1>1, <2>1, TableTypes
    <3>2. values \in Seq(Bits) /\ d = BoolsToData(values, f)
      BY <2>1, <3>1 DEF ToData
    <3>3. CASE f = FcWriteSingleCoil
      <4>1. q = 1 /\ IsSingle(f)
        BY <1>2, <3>3 DEF IsSingle, FcWriteSingleCoil
      <4>2. values[1] \in Bits
        <5>1. 1 \in 1..Len(values)
          BY <4>1
        <5> QED BY <3>2, <5>1
      <4>3. d = [data |-> <<values[1] * 255, 0>>, err |-> NoErr]
        BY <3>2, <3>3, <4>1 DEF BoolsToData
      <4>4. <<values[1] * 255, 0>> \in Seq(Byte) /\ Len(<<values[1] * 255, 0>>) = 2
        BY <4>2 DEF Bits, Byte
      <4> HIDE DEF d
      <4> QED BY <4>1, <4>3, <4>4 DEF DataLen
    <3>4. CASE f # FcWriteSingleCoil
      <4>1. ~IsSingle(f) /\ ~IsUint16(f)
        BY <2>1, <3>4 DEF IsSingle, IsBool, IsUint16, FcWriteSingleCoil
      <4>2. d = [data |-> PackBits(values), err |-> NoErr]
        BY <3>2, <3>4 DEF BoolsToData
      <4>3. PackBits(values) \in Seq(Byte) /\ Len(PackBits(values)) = (q + 7) \div 8
        BY <3>2, PackedBits
      <4> HIDE DEF d
      <4> QED BY <4>1, <4>2, <4>3 DEF DataLen
    <3> QED BY <3>3, <3>4
  <2>2. CASE ~IsBool(f)
    <3>1. ValueType(TableOf(f)) = Uint16
      BY <1>1, <2>2, TableTypes
    <3>2. values \in Seq(Uint16) /\ d = RegistersToData(values)
      BY <2>2, <3>1 DEF ToData
    <3>3. d.data \in Seq(Byte) /\ Len(d.data) = 2 * q
      BY <3>2, PackedRegisters
    <3>4. d.err = NoErr
      BY <3>2 DEF RegistersToData
    <3>5. IsUint16(f)
      BY <2>2 DEF IsBool, IsUint16
    <3> HIDE DEF d
    <3>6. DataLen(f, q) = 2 * q
      <4> HIDE DEF q
      <4> QED BY <1>2, <3>5 DEF DataLen
    <3> QED BY <3>3, <3>4, <3>6
  <2> QED BY <2>1, <2>2
<1> HIDE DEF d
<1>4. Carries(p, f, a, q, d.data)
  BY <1>1, <1>3, WriteRequestCarries
<1> HIDE DEF p
<1>5. /\ p \in Seq(Byte) /\ Len(p) >= 5
      /\ GetFunctionCode(p) = f /\ GetAddress(p) = a /\ Count(p) = q
      /\ GetRequestCount(p).err = NoErr
      /\ GetRequestValues(p).err = NoErr /\ GetRequestValues(p).data = d.data
      /\ TableFor(p) = TableOf(f)
  BY <1>4 DEF Carries, TableFor
<1>6. Encode(p, values) = d
  BY <1>5 DEF Encode, d
<1>7. Decode(p, d.data) = [values |-> values, err |-> NoErr]
  <2>1. Count(p) >= 1 /\ Count(p) <= 65528 /\ Len(values) = Count(p)
    BY <1>1, <1>2, <1>5
  <2>2. Decode(p, Encode(p, values).data) = [values |-> values, err |-> NoErr]
    <3>1. IsSingle(GetFunctionCode(p)) => Count(p) = 1
      BY <1>2, <1>5
    <3>2. TableFor(p) \in Tables /\ values \in Seq(ValueType(TableFor(p)))
      BY <1>1, <1>5
    <3> HIDE DEF q
    <3> QED BY <2>1, <3>1, <3>2, ValuesRoundTrip
  <2> QED BY <1>6, <2>2
<1> QED BY <1>3, <1>4, <1>7 DEF p, d

\* End to end: the values that a client writes are the values that the server's
\* table then has, for every write function code, and for every address and number
\* of values that MakeRequestHeader accepts, if the table has the range; nothing
\* else changes (the codec, MakeRequestHeader and MakeWriteRequest at the client,
\* GetRequestValues and OnWrite at the server).
THEOREM WriteServed ==
    ASSUME NEW m, IsMemory(m), NEW f \in {5, 6, 15, 16}, NEW a \in Uint16,
           TableOf(f) \in DOMAIN m, NEW values \in Seq(ValueType(TableOf(f))),
           HeaderError(f, a, Len(values)) = NoErr,
           a + Len(values) <= Len(m[TableOf(f)])
    PROVE  /\ ToData(f, values).err = NoErr
           /\ Handle(m, WriteRequest(f, a, Len(values), ToData(f, values).data)).err = NoErr
           /\ Handle(m, WriteRequest(f, a, Len(values), ToData(f, values).data)).mem
                = [m EXCEPT ![TableOf(f)] =
                     WriteValues(m[TableOf(f)], a, values).table]
<1> DEFINE q == Len(values)
           d == ToData(f, values)
           p == WriteRequest(f, a, q, d.data)
<1>1. TableOf(f) \in Tables
  BY DEF IsMemory
<1>2. d.err = NoErr /\ Carries(p, f, a, q, d.data)
      /\ Decode(p, d.data) = [values |-> values, err |-> NoErr]
  BY <1>1, WriteEncoded
<1> HIDE DEF d, p
<1>5. /\ p \in Seq(Byte) /\ Len(p) >= 5
      /\ GetFunctionCode(p) = f /\ GetAddress(p) = a /\ Count(p) = q
      /\ GetRequestCount(p).err = NoErr
      /\ GetRequestValues(p).err = NoErr /\ GetRequestValues(p).data = d.data
      /\ TableFor(p) = TableOf(f)
  BY <1>2 DEF Carries, TableFor
<1>8. OnWrite(m, p, d.data)
        = [mem |-> [m EXCEPT ![TableOf(f)] = WriteValues(m[TableOf(f)], a, values).table],
           err |-> WriteValues(m[TableOf(f)], a, values).err]
  <2> HIDE DEF q
  <2>1. Decode(p, d.data).err = NoErr /\ Decode(p, d.data).values = values
    BY <1>2
  <2> QED BY <1>5, <2>1 DEF OnWrite, Supports, TableFor, Decode, Count
<1>9. WriteValues(m[TableOf(f)], a, values).err = NoErr
  <2>1. m[TableOf(f)] \in Seq(ValueType(TableOf(f))) /\ a \in Nat
    BY DEF IsMemory, Uint16
  <2> QED BY <2>1, RangeWrite
<1>10. ValidateRequest(p) = NoErr /\ ~IsReadToServer(GetFunctionCode(p))
  BY <1>5 DEF ValidateRequest, Valid, IsReadToServer
<1>11. Handle(m, p) = HandleWrite(m, p)
  BY <1>10 DEF Handle, Dispatch
<1>12. /\ HandleWrite(m, p).err = NoErr
       /\ HandleWrite(m, p).mem
            = [m EXCEPT ![TableOf(f)] = WriteValues(m[TableOf(f)], a, values).table]
  BY <1>5, <1>8, <1>9 DEF HandleWrite
<1> QED BY <1>2, <1>11, <1>12 DEF p, d

\* The size that a client infers for a reply.
LEMMA ReplySize ==
    ASSUME NEW r \in Seq(Byte), Len(r) >= 2, r[1] \in {1, 2, 3, 4, 5, 6, 15, 16}
    PROVE  /\ r[1] \in {1, 2, 3, 4} => GetPDUSizeFromHeader(r, TRUE) = 2 + r[2]
           /\ r[1] \notin {1, 2, 3, 4} => GetPDUSizeFromHeader(r, TRUE) = 5
<1>1. Valid(r[1]) /\ ~(Len(r) < 2)
  BY DEF Valid
<1>2. CASE r[1] \in {1, 2, 3, 4}
  <2>1. IsWriteToServer(r[1]) = FALSE
    BY <1>2 DEF IsWriteToServer
  <2> QED BY <1>1, <1>2, <2>1 DEF GetPDUSizeFromHeader
<1>3. CASE r[1] \notin {1, 2, 3, 4}
  <2>1. IsWriteToServer(r[1]) = TRUE
    BY <1>3 DEF IsWriteToServer
  <2> QED BY <1>1, <1>3, <2>1 DEF GetPDUSizeFromHeader
<1> QED BY <1>2, <1>3

\* The last switch of IsRequestReply, code by code.
LEMMA MatchBits ==
    ASSUME NEW p, GetFunctionCode(p) \in {1, 2}, NEW r, NEW c,
           (((c + 7) % 65536) \div 8) % 256 = r[2]
    PROVE  HeaderMatches(p, r, c)
BY DEF HeaderMatches, FcReadCoils, FcReadDiscreteInputs

LEMMA MatchRegisters ==
    ASSUME NEW p, GetFunctionCode(p) \in {3, 4}, NEW r, NEW c, (c * 2) % 256 = r[2]
    PROVE  HeaderMatches(p, r, c)
BY DEF HeaderMatches, FcReadHoldingRegisters, FcReadInputRegisters

SameHeader(p, r) == SubSeq(p, 1, 5) = SubSeq(r, 1, 5)

LEMMA MatchWrite ==
    ASSUME NEW p, GetFunctionCode(p) \in {5, 6, 15, 16}, NEW r, NEW c,
           SameHeader(p, r)
    PROVE  HeaderMatches(p, r, c)
BY DEF SameHeader, HeaderMatches, FcWriteSingleCoil, FcWriteSingleRegister,
       FcWriteMultipleCoils, FcWriteMultipleRegisters

\* What a server answers to a whole request that it serves is a reply to it, for
\* IsRequestReply: two servers of a failover pair that hear each other take it for
\* what it is (failover.go).  A read asks for no more than MaxPerPacket.
THEOREM ServedIsReply ==
    ASSUME NEW m, IsMemory(m), NEW p \in Seq(Byte), Handle(m, p).err = NoErr,
           GetPDUSizeFromHeader(p, FALSE) = Len(p),
           IsReadToServer(GetFunctionCode(p)) =>
              Count(p) <= MaxPerPacket(GetFunctionCode(p))
    PROVE  IsRequestReply(p, Handle(m, p).reply)
<1> DEFINE f == GetFunctionCode(p)
           r == Handle(m, p).reply
           c == GetRequestCount(p).count
<1>0. \A x, e : Failed(x, p, e).err = e
  BY DEF Failed
<1>1. ValidateRequest(p) = NoErr
  BY <1>0 DEF Handle
<1>2. /\ Len(p) >= 3 /\ p # << >> /\ f = p[1]
      /\ f \in {1, 2, 3, 4, 5, 6, 15, 16}
  BY <1>1, Validated
<1>3. SUFFICES /\ f = GetFunctionCode(r) /\ GetPDUSizeFromHeader(r, TRUE) = Len(r)
               /\ GetRequestCount(p).err = NoErr /\ HeaderMatches(p, r, c)
  <2> HIDE DEF r
  <2> QED BY <1>3 DEF IsRequestReply, r
<1> HIDE DEF r
<1>4. CASE IsReadToServer(f)
  <2> DEFINE d == OnRead(m, p).data
  <2>1. Handle(m, p) = HandleRead(m, p) /\ OnRead(m, p).err = NoErr
    BY <1>0, <1>1, <1>4 DEF Handle, Dispatch, HandleRead
  <2>2. d \in Seq(Byte) /\ r = MakeReadReply(p, d)
    BY <1>2, <2>1, HandledRead DEF r
  <2>3. /\ f \in {1, 2, 3, 4} /\ GetRequestCount(p).err = NoErr
        /\ c \in Nat /\ c <= 2000
        /\ f \in {1, 2} => Len(d) = (c + 7) \div 8
        /\ f \in {3, 4} => Len(d) = 2 * c
        /\ Len(d) \in Nat /\ Len(d) <= 250
    BY <1>1, <1>4, <2>1, ReadData DEF Count
  <2> HIDE DEF d
  <2>4. r \in Seq(Byte) /\ Len(r) = Len(d) + 2 /\ r[1] = f /\ r[2] = Len(d) % 256
    <3> DEFINE x == MakeReadReply(p, d)
    <3>1. x \in Seq(Byte) /\ Len(x) = Len(d) + 2 /\ x[1] = f /\ x[2] = Len(d) % 256
      <4>1. p # << >> /\ d \in Seq(Byte)
        BY <1>2, <2>2
      <4> QED BY <4>1, ReadReplyBytes
    <3>2. r = x
      BY <2>2
    <3> HIDE DEF x
    <3> QED BY <3>1, <3>2
  <2> HIDE DEF f, c
  <2>5. r[2] = Len(d) /\ Len(r) >= 2
    <3> DEFINE l == Len(d)
    <3>1. l \in Nat /\ l <= 250 /\ r[2] = l % 256 /\ Len(r) = l + 2
      BY <2>3, <2>4
    <3> HIDE DEF l
    <3>2. r[2] = l /\ Len(r) >= 2
      BY <3>1
    <3> QED BY <3>2 DEF l
  <2>6. GetPDUSizeFromHeader(r, TRUE) = 2 + r[2]
    <3>1. r \in Seq(Byte) /\ Len(r) >= 2 /\ r[1] = f
      BY <2>4, <2>5
    <3>2. f \in {1, 2, 3, 4} /\ f \in {1, 2, 3, 4, 5, 6, 15, 16}
      BY <2>3
    <3> QED BY <3>1, <3>2, ReplySize
  <2>7. GetPDUSizeFromHeader(r, TRUE) = Len(r)
    <3> DEFINE l == Len(d)
               n == Len(r)
               g == GetPDUSizeFromHeader(r, TRUE)
    <3>1. l \in Nat /\ n = l + 2 /\ g = 2 + l
      <4>1. l \in Nat
        BY <2>3
      <4>2. n = l + 2
        BY <2>4
      <4>3. r[2] = l
        BY <2>5
      <4> HIDE DEF l, n, g
      <4>4. g = 2 + r[2]
        BY <2>6 DEF g
      <4> QED BY <4>1, <4>2, <4>3, <4>4
    <3> HIDE DEF l, n, g
    <3>2. g = n
      BY <3>1
    <3> QED BY <3>2 DEF g, n
  <2>8. r # << >> /\ GetFunctionCode(r) = f
    <3>1. r # << >>
      BY <2>4, <2>5, NotEmpty
    <3> QED BY <2>4, <3>1 DEF GetFunctionCode
  <2>9. HeaderMatches(p, r, c)
    <3> DEFINE l == Len(d)
    <3>1. l \in Nat /\ l <= 250 /\ r[2] = l /\ c \in Nat /\ c <= 2000
      BY <2>3, <2>5
    <3>2. f \in {1, 2} => l = (c + 7) \div 8
      BY <2>3
    <3>3. f \in {3, 4} => l = 2 * c
      BY <2>3
    <3> HIDE DEF l
    <3>4. f \in {1, 2} => (((c + 7) % 65536) \div 8) % 256 = l
      BY <3>1, <3>2
    <3>5. f \in {3, 4} => (c * 2) % 256 = l
      BY <3>1, <3>3
    <3>6. GetFunctionCode(p) = f
      BY DEF f
    <3>7. CASE f \in {1, 2}
      <4>1. (((c + 7) % 65536) \div 8) % 256 = r[2] /\ GetFunctionCode(p) \in {1, 2}
        BY <3>1, <3>4, <3>6, <3>7
      <4> QED BY <4>1, MatchBits
    <3>8. CASE f \in {3, 4}
      <4>1. (c * 2) % 256 = r[2] /\ GetFunctionCode(p) \in {3, 4}
        BY <3>1, <3>5, <3>6, <3>8
      <4> QED BY <4>1, MatchRegisters
    <3> QED BY <2>3, <3>7, <3>8
  <2>10. GetRequestCount(p).err = NoErr
    BY <2>3
  <2> QED BY <2>7, <2>8, <2>9, <2>10, Zenon
<1>5. CASE ~IsReadToServer(f)
  <2> DEFINE w == OnWrite(m, p, GetRequestValues(p).data)
  <2>1. f \in {5, 6, 15, 16}
    <3> HIDE DEF f
    <3> QED BY <1>2, <1>5 DEF IsReadToServer
  <2>2. Handle(m, p) = HandleWrite(m, p)
    BY <1>1, <1>5 DEF Handle, Dispatch
  <2>3. GetRequestValues(p).err = NoErr /\ w.err = NoErr
    BY <1>0, <2>2 DEF HandleWrite
  <2>4. r = MakeWriteReply(p)
    BY <2>2, <2>3 DEF HandleWrite, r
  <2>5. Len(p) >= 5
    BY <1>2, <2>3, RequestData
  <2>6. GetRequestCount(p).err = NoErr
    BY <1>2, <2>3, RequestValues
  <2>7. /\ r \in Seq(Byte) /\ Len(r) = 5 /\ r = SubSeq(p, 1, 5)
        /\ \A i \in 1..5 : r[i] = p[i]
    BY <2>4, <2>5, WriteReplyBytes
  <2>a. r \in Seq(Byte) /\ Len(r) = 5
    BY <2>7, Zenon
  <2>b. Len(r) >= 2 /\ Len(r) >= 1
    BY <2>a
  <2>8. r[1] = f
    BY <1>2, <2>7
  <2>9. r # << >> /\ GetFunctionCode(r) = f
    <3>1. r # << >>
      BY <2>a, <2>b, NotEmpty
    <3> QED BY <2>8, <3>1 DEF GetFunctionCode
  <2>10. GetPDUSizeFromHeader(r, TRUE) = Len(r)
    <3> HIDE DEF f
    <3>1. Len(r) >= 2 /\ r[1] \in {1, 2, 3, 4, 5, 6, 15, 16} /\ r[1] \notin {1, 2, 3, 4}
      BY <2>1, <2>b, <2>8
    <3> QED BY <2>a, <3>1, ReplySize
  <2>11. SameHeader(p, r)
    <3>1. SubSeq(r, 1, 5) = r
      BY <2>7, SubSeqFull
    <3> QED BY <2>7, <3>1 DEF SameHeader
  <2>12. HeaderMatches(p, r, c)
    <3>1. GetFunctionCode(p) \in {5, 6, 15, 16}
      BY <2>1
    <3> HIDE DEF c, f
    <3> QED BY <2>11, <3>1, MatchWrite
  <2> QED BY <2>6, <2>9, <2>10, <2>12
<1> QED BY <1>4, <1>5

-------------------------------------------------------------------------------
(***************************************************************************)
(* Whole transactions, in the terms of a specification that has no bytes.  *)
(***************************************************************************)
\* The values of a write have the number the request says.
LEMMA WrittenCount ==
    ASSUME NEW p \in Seq(Byte), Len(p) >= 3, TableFor(p) \in Tables,
           GetRequestValues(p).err = NoErr,
           IsWriteToServer(GetFunctionCode(p)),
           Decode(p, GetRequestValues(p).data).err = NoErr
    PROVE  Len(Decode(p, GetRequestValues(p).data).values) = Count(p)
<1> DEFINE f == GetFunctionCode(p)
           data == GetRequestValues(p).data
           v == Decode(p, data).values
<1>1. /\ data \in Seq(Byte) /\ data # << >> /\ GetRequestCount(p).err = NoErr
      /\ IsSingle(f) => Len(data) = 2
      /\ ~IsSingle(f) => Fits(f, Len(data), Count(p))
      /\ ~IsUint16(f) => Len(data) < 65536
  BY RequestValues
<1>2. IsBool(f) => Len(data) < 65536
  <2>1. IsBool(f) => ~IsUint16(f)
    BY DEF IsBool, IsUint16
  <2> QED BY <1>1, <2>1
<1>3. /\ v \in Seq(ValueType(TableFor(p)))
      /\ IF IsBool(f) THEN Len(v) = Count(p) ELSE 2 * Len(v) = Len(data)
  <2>1. data \in Seq(Byte) /\ data # << >> /\ GetRequestCount(p).err = NoErr
        /\ Decode(p, data).err = NoErr
    BY <1>1
  <2> HIDE DEF data
  <2> QED BY <1>2, <2>1, DecodeType
<1>4. f \in {1, 2, 3, 4, 5, 6, 15, 16}
  BY TableTypes DEF TableFor
<1>5. IsSingle(f) => Count(p) = 1
  BY HeaderTypes
<1>6. Count(p) \in Nat
  BY <1>1, HeaderTypes DEF Uint16
<1> DEFINE l == Len(data)
           n == Len(v)
<1>7. l \in Nat /\ n \in Nat
  BY <1>1, <1>3
<1>8. CASE IsBool(f)
  BY <1>3, <1>8
<1>9. CASE ~IsBool(f)
  <2>1. 2 * n = l
    BY <1>3, <1>9
  <2>2. IsUint16(f)
    <3> HIDE DEF f
    <3> QED BY <1>4, <1>9 DEF IsUint16, IsBool
  <2>3. IsSingle(f) => l = 2 /\ Count(p) = 1
    BY <1>1, <1>5
  <2>4. ~IsSingle(f) => l = Count(p) * 2
    BY <1>1, <2>2 DEF Fits
  <2> HIDE DEF l, n, f
  <2>5. n = Count(p)
    BY <1>6, <1>7, <2>1, <2>3, <2>4
  <2> QED BY <2>5 DEF n
<1> QED BY <1>8, <1>9

\* Success and failure of a reply, for the history.
LEMMA ReplyOk ==
    ASSUME NEW a, GetFunctionCode(a) \in Nat, GetFunctionCode(a) < 128, NEW r
    PROVE  Execution(r, a) =
             [txn |-> r.txn, ok |-> TRUE,
              values |-> IF IsReadToServer(GetFunctionCode(r.pdu))
                         THEN DecodeValues(r.pdu, GetReplyValues(a).data)
                         ELSE WrittenValues(r.pdu)]
<1>1. SeparateError(GetFunctionCode(a)).hasErr = (GetFunctionCode(a) > 127)
  BY Zenon DEF SeparateError
<1>2. ~(GetFunctionCode(a) > 127)
  OBVIOUS
<1>3. ~SeparateError(GetFunctionCode(a)).hasErr = TRUE
  BY <1>1, <1>2, Zenon
<1> QED BY <1>3 DEF Execution

LEMMA ReplyNotOk ==
    ASSUME NEW a, SeparateError(GetFunctionCode(a)).hasErr, NEW r
    PROVE  Execution(r, a) = [txn |-> r.txn, ok |-> FALSE, values |-> << >>]
<1>1. ~SeparateError(GetFunctionCode(a)).hasErr = FALSE
  OBVIOUS
<1> QED BY <1>1 DEF Execution

\* A request read the whole range it asked for, or wrote all of its values.
ReadWhole(m, p, h) == HasRange(m, p) /\ h.mem = m
WroteAll(m, p, h) ==
    /\ Len(p) >= 3 /\ IsWriteToServer(GetFunctionCode(p))
    /\ GetRequestValues(p).err = NoErr
    /\ Written(m, p, Decode(p, GetRequestValues(p).data), h.mem)
    /\ Len(WrittenValues(p)) = Count(p)
    /\ WrittenValues(p) = Decode(p, GetRequestValues(p).data).values

\* A server executes a request whole or refuses it, and its reply tells which: a
\* reply that is no exception carries the values of the whole range, as the table
\* had them when it was read, or says that all values of the request are in the
\* table (Handle of both servers, and the decoding at the client).
THEOREM Executed ==
    ASSUME NEW m, IsMemory(m), NEW p \in Seq(Byte), NEW r, r.pdu = p,
           IsReadToServer(GetFunctionCode(p)) =>
              Count(p) \in 1..MaxPerPacket(GetFunctionCode(p))
    PROVE  LET h == Handle(m, p)
               e == Execution(r, h.reply)
           IN  \/ /\ e = [txn |-> r.txn, ok |-> FALSE, values |-> << >>]
                  /\ h.mem = m
               \/ /\ IsReadToServer(GetFunctionCode(p)) /\ ReadWhole(m, p, h)
                  /\ e = [txn |-> r.txn, ok |-> TRUE, values |-> ValuesAsked(m, p)]
               \/ /\ WroteAll(m, p, h)
                  /\ e = [txn |-> r.txn, ok |-> TRUE, values |-> WrittenValues(p)]
<1> DEFINE h == Handle(m, p)
           f == GetFunctionCode(p)
           e == Execution(r, h.reply)
<1>1. /\ h.err # NoErr => h.mem = m /\ SeparateError(GetFunctionCode(h.reply)).hasErr
      /\ h.err = NoErr => GetFunctionCode(h.reply) = f
  BY Handled
<1>0. \A x, y : Failed(x, p, y).err = y
  BY DEF Failed
<1>2. CASE h.err # NoErr
  BY <1>1, <1>2, ReplyNotOk
<1>3. CASE h.err = NoErr
  <2>1. ValidateRequest(p) = NoErr
    BY <1>0, <1>3 DEF Handle
  <2>2. Len(p) >= 3 /\ p # << >> /\ f \in {1, 2, 3, 4, 5, 6, 15, 16}
    BY <2>1, Validated
  <2>3. e = [txn |-> r.txn, ok |-> TRUE,
             values |-> IF IsReadToServer(f) THEN DecodeValues(p, GetReplyValues(h.reply).data)
                        ELSE WrittenValues(p)]
    <3> HIDE DEF h, f
    <3>1. GetFunctionCode(h.reply) \in Nat /\ GetFunctionCode(h.reply) < 128
      BY <1>1, <1>3, <2>2
    <3> QED BY <3>1, ReplyOk DEF f
  <2>4. CASE IsReadToServer(f)
    <3>1. /\ HasRange(m, p)
          /\ Decode(p, GetReplyValues(h.reply).data) = [values |-> ValuesAsked(m, p), err |-> NoErr]
      <4>1. Count(p) >= 1 /\ Count(p) <= MaxPerPacket(f)
        BY <2>4
      <4> QED BY <1>3, <2>4, <4>1, ReadServed
    <3>2. DecodeValues(p, GetReplyValues(h.reply).data) = ValuesAsked(m, p)
      <4>1. DecodeValues(p, GetReplyValues(h.reply).data) = Decode(p, GetReplyValues(h.reply).data).values
        BY DEF DecodeValues, Decode, Count
      <4> QED BY <3>1, <4>1
    <3>3. h.mem = m
      BY <1>0, <1>3, <2>1, <2>4 DEF Handle, Dispatch, HandleRead
    <3> QED BY <2>3, <2>4, <3>1, <3>2, <3>3 DEF ReadWhole
  <2>5. CASE ~IsReadToServer(f)
    <3> DEFINE d == GetRequestValues(p).data
               w == OnWrite(m, p, d)
    <3>1. h = HandleWrite(m, p)
      BY <2>1, <2>5 DEF Handle, Dispatch
    <3>2. GetRequestValues(p).err = NoErr /\ w.err = NoErr
      BY <1>0, <1>3, <3>1 DEF HandleWrite
    <3>3. h.mem = w.mem
      BY <3>1, <3>2 DEF HandleWrite
    <3>4. d \in Seq(Byte) /\ d # << >> /\ (IsBool(f) => Len(d) < 65536)
      BY <2>2, <3>2, RequestData
    <3> HIDE DEF h, d
    <3>5. Written(m, p, Decode(p, d), w.mem)
      BY <2>2, <3>2, <3>4, OnWriteResult
    <3>6. IsWriteToServer(f)
      <4> HIDE DEF f
      <4> QED BY <2>2, <2>5 DEF IsReadToServer, IsWriteToServer
    <3>7. WrittenValues(p) = Decode(p, d).values
      BY <3>6 DEF WrittenValues, DecodeValues, Decode, Count, d
    <3>8. Len(Decode(p, d).values) = Count(p)
      <4>1. Decode(p, d).err = NoErr /\ TableFor(p) \in Tables
        BY <3>5 DEF Written, IsMemory
      <4> QED BY <2>2, <3>2, <3>6, <4>1, WrittenCount DEF d
    <3>9. WroteAll(m, p, h)
      BY <2>2, <3>2, <3>3, <3>5, <3>6, <3>7, <3>8 DEF WroteAll, d
    <3> QED BY <2>3, <2>5, <3>9 DEF h
  <2> QED BY <2>4, <2>5
<1> QED BY <1>2, <1>3

\* IsRequestReply measures the request, too.
LEMMA MatchedLen ==
    ASSUME NEW p \in Seq(Byte), NEW a, IsRequestReply(p, a)
    PROVE  Len(p) >= 3
<1>1. GetPDUSizeFromHeader(p, FALSE) = Len(p)
  BY DEF IsRequestReply
<1>2. HeaderMatches(p, a, GetRequestCount(p).count)
  BY DEF IsRequestReply
<1> DEFINE f == GetFunctionCode(p)
           n == Len(p)
<1>3. f \in {1, 2, 3, 4, 5, 6, 15, 16}
  BY <1>2 DEF HeaderMatches, FcReadDiscreteInputs, FcReadCoils,
         FcWriteSingleCoil, FcWriteMultipleCoils, FcReadInputRegisters,
         FcReadHoldingRegisters, FcWriteSingleRegister, FcWriteMultipleRegisters
<1>4. n \in Nat
  OBVIOUS
<1>5. CASE n < 2
  BY <1>1, <1>4, <1>5 DEF GetPDUSizeFromHeader
<1>6. CASE ~(n < 2)
  <2>1. f = p[1]
    BY <1>3 DEF GetFunctionCode
  <2>2. Valid(f)
    <3> HIDE DEF f
    <3> QED BY <1>3 DEF Valid
  <2>3. /\ f \in {1, 2, 3, 4} => ~IsWriteToServer(f)
        /\ f \in {5, 6} => IsWriteToServer(f) /\ IsSingle(f)
        /\ f \in {15, 16} => IsWriteToServer(f) /\ ~IsSingle(f)
    BY DEF IsWriteToServer, IsSingle
  <2> HIDE DEF f, n
  <2>4. ~(n < 6) \/ n \in {5, 6}
    BY <1>1, <1>3, <1>4, <1>6, <2>1, <2>2, <2>3 DEF GetPDUSizeFromHeader, n
  <2>5. n >= 3
    BY <1>4, <2>4
  <2> QED BY <2>5 DEF n
<1> QED BY <1>5, <1>6

\* The data of a reply is as long as the reply says, in one byte.
LEMMA ReplyData ==
    ASSUME NEW p \in Seq(Byte), GetReplyValues(p).err = NoErr
    PROVE  /\ GetReplyValues(p).data \in Seq(Byte) /\ GetReplyValues(p).data # << >>
           /\ Len(GetReplyValues(p).data) = p[2] /\ p[2] < 256
<1> DEFINE n == Len(p)
<1>1. n \in Nat /\ n - 2 >= 1 /\ n - 2 = p[2] /\ GetReplyValues(p).data = SubSeq(p, 3, n)
  BY DEF GetReplyValues, From, ErrOther, NoErr
<1>2. p[2] \in Byte /\ \A i \in 3..n : p[i] \in Byte
  BY <1>1
<1>3. p[2] < 256
  BY <1>2 DEF Byte
<1> DEFINE d == GetReplyValues(p).data
<1>4. d \in Seq(Byte) /\ Len(d) = n - 2
  BY <1>1, <1>2, SubSeqProperties
<1> HIDE DEF n, d
<1>5. Len(d) >= 1 /\ Len(d) = p[2]
  BY <1>1, <1>4
<1>6. d # << >>
  BY <1>4, <1>5, NotEmpty
<1> QED BY <1>3, <1>4, <1>5, <1>6 DEF d

LEMMA MatchedRegisters ==
    ASSUME NEW p, GetFunctionCode(p) \in {3, 4}, NEW r, NEW c, HeaderMatches(p, r, c)
    PROVE  (c * 2) % 256 = r[2]
BY DEF HeaderMatches, FcReadCoils, FcReadDiscreteInputs, FcReadHoldingRegisters,
       FcReadInputRegisters, FcWriteSingleCoil, FcWriteSingleRegister,
       FcWriteMultipleCoils, FcWriteMultipleRegisters

\* A client that takes a reply to a read writes all of the values it asked for.
LEMMA ReplyTaken ==
    ASSUME NEW m, IsMemory(m), NEW p \in Seq(Byte), NEW a \in Seq(Byte),
           IsReadToServer(GetFunctionCode(p)),
           Count(p) \in 1..MaxPerPacket(GetFunctionCode(p)),
           IsRequestReply(p, a), GetReplyValues(a).err = NoErr,
           OnWrite(m, p, GetReplyValues(a).data).err = NoErr
    PROVE  LET d == Decode(p, GetReplyValues(a).data)
           IN  /\ Written(m, p, d, OnWrite(m, p, GetReplyValues(a).data).mem)
               /\ Len(d.values) = Count(p)
<1> DEFINE data == GetReplyValues(a).data
           d == Decode(p, data)
           f == GetFunctionCode(p)
           c == Count(p)
           l == Len(data)
           n == Len(d.values)
<1>1. data \in Seq(Byte) /\ data # << >> /\ l = a[2] /\ l \in Nat /\ l < 256
  BY ReplyData
<1>2. Len(p) >= 3
  BY MatchedLen
<1>3. HeaderMatches(p, a, GetRequestCount(p).count)
  BY DEF IsRequestReply
<1>4. Written(m, p, d, OnWrite(m, p, data).mem)
  <2>1. l < 65536 /\ OnWrite(m, p, data).err = NoErr
    BY <1>1
  <2> HIDE DEF data
  <2> QED BY <1>1, <1>2, <2>1, OnWriteResult
<1>5. /\ GetRequestCount(p).err = NoErr /\ TableFor(p) \in Tables /\ d.err = NoErr
      /\ d.values \in Seq(ValueType(TableFor(p)))
  <2> HIDE DEF d
  <2> QED BY <1>4 DEF Written, IsMemory
<1>6. f \in {1, 2, 3, 4}
  <2>1. f \in {1, 2, 3, 4, 5, 6, 15, 16}
    BY <1>5, TableTypes DEF TableFor
  <2> HIDE DEF f
  <2> QED BY <2>1 DEF IsReadToServer, f
<1>7. IF IsBool(f) THEN n = c ELSE 2 * n = l
  <2>1. /\ data \in Seq(Byte) /\ data # << >> /\ l < 65536
        /\ GetRequestCount(p).err = NoErr /\ Decode(p, data).err = NoErr
    BY <1>1, <1>5
  <2> HIDE DEF data
  <2> QED BY <1>2, <1>5, <2>1, DecodeType
<1>8. n \in Nat
  BY <1>5
<1>9. CASE f \in {1, 2}
  <2>1. IsBool(f)
    BY <1>9 DEF IsBool
  <2> QED BY <1>4, <1>7, <2>1
<1>10. CASE f \in {3, 4}
  <2>1. ~IsBool(f)
    BY <1>10 DEF IsBool
  <2>2. (c * 2) % 256 = a[2]
    BY <1>3, <1>10, MatchedRegisters DEF Count
  <2>3. MaxPerPacket(f) = 125
    <3> HIDE DEF f
    <3> QED BY <1>10 DEF MaxPerPacket, FcReadCoils, FcReadDiscreteInputs,
            FcReadHoldingRegisters, FcReadInputRegisters, FcWriteSingleCoil,
            FcWriteSingleRegister, FcWriteMultipleCoils, FcWriteMultipleRegisters
  <2>4. c \in Nat /\ c <= 125
    <3>1. c \in 1..MaxPerPacket(f)
      OBVIOUS
    <3> HIDE DEF c, f
    <3> QED BY <2>3, <3>1
  <2>5. 2 * n = l
    BY <1>7, <2>1
  <2> HIDE DEF c, l, n
  <2>6. n = c
    <3>1. (c * 2) % 256 = c * 2
      BY <2>4
    <3>2. c * 2 = l
      BY <1>1, <2>2, <3>1
    <3> QED BY <1>8, <2>4, <2>5, <3>2
  <2> QED BY <1>4, <2>6 DEF n, c
<1> QED BY <1>6, <1>9, <1>10

\* What MakeRequestHeader accepts.
LEMMA HeaderNumbers ==
    ASSUME NEW p \in Seq(Byte), IsRequestHeader(p)
    PROVE  /\ GetFunctionCode(p) \in {1, 2, 3, 4, 5, 6, 15, 16}
           /\ GetAddress(p) \in Uint16 /\ Count(p) \in Nat /\ Count(p) >= 1
           /\ Count(p) \in 1..MaxPerPacket(GetFunctionCode(p))
           /\ GetRequestCount(p).err = NoErr
           /\ HeaderError(GetFunctionCode(p), GetAddress(p), Count(p)) = NoErr
           /\ MakeRequestHeader(GetFunctionCode(p), GetAddress(p), Count(p)).pdu = p
<1> DEFINE f == GetFunctionCode(p)
           a == GetAddress(p)
           c == Count(p)
<1>1. Len(p) >= 3 /\ MakeRequestHeader(f, a, c) = [pdu |-> p, err |-> NoErr]
  BY DEF IsRequestHeader, Count
<1>2. MakeRequestHeader(f, a, c).err = HeaderError(f, a, c)
  BY DEF MakeRequestHeader
<1>3. HeaderError(f, a, c) = NoErr /\ MakeRequestHeader(f, a, c).pdu = p
  BY <1>1, <1>2
<1>4. a \in Uint16 /\ f \in Byte
  BY <1>1, HeaderTypes
<1> HIDE DEF f, a, c
<1>5. MaxPerPacket(f) # 0 /\ c # 0 /\ ~(c > MaxPerPacket(f))
  BY <1>3 DEF HeaderError, NoErr, EcIllegalFunction, EcIllegalDataAddress
<1>6. f \in {1, 2, 3, 4, 5, 6, 15, 16} /\ MaxPerPacket(f) \in Nat
  BY <1>5 DEF MaxPerPacket, FcReadCoils, FcReadDiscreteInputs, FcReadHoldingRegisters,
     FcReadInputRegisters, FcWriteSingleCoil, FcWriteSingleRegister,
     FcWriteMultipleCoils, FcWriteMultipleRegisters
<1>7. GetRequestCount(p).err = NoErr
  BY <1>5 DEF c, Count, GetRequestCount, NoErr, EcIllegalDataValue
<1>8. c \in Nat
  BY <1>1, <1>7, HeaderTypes DEF c, Uint16
<1>9. c >= 1 /\ c \in 1..MaxPerPacket(f)
  BY <1>5, <1>6, <1>8
<1> QED BY <1>3, <1>4, <1>6, <1>7, <1>8, <1>9 DEF f, a, c

\* The request that a client makes of a write header and of its own values carries
\* those values.
LEMMA WritePrepared ==
    ASSUME NEW m, IsMemory(m), NEW h \in Seq(Byte), IsRequestHeader(h),
           IsWriteToServer(GetFunctionCode(h)), OnRead(m, h).err = NoErr
    PROVE  LET p == MakeWriteRequest(h, OnRead(m, h).data)
           IN  /\ p \in Seq(Byte) /\ Len(p) >= 5 /\ GetRequestValues(p).err = NoErr
               /\ GetFunctionCode(p) = GetFunctionCode(h)
               /\ GetAddress(p) = GetAddress(h) /\ Count(p) = Count(h)
               /\ HasRange(m, p) /\ WrittenValues(p) = ValuesAsked(m, p)
<1> DEFINE f == GetFunctionCode(h)
           a == GetAddress(h)
           q == Count(h)
           v == ValuesAsked(m, h)
           d == ToData(f, v)
           p == MakeWriteRequest(h, OnRead(m, h).data)
<1>1. /\ f \in {1, 2, 3, 4, 5, 6, 15, 16} /\ a \in Uint16 /\ q \in Nat /\ q >= 1
      /\ HeaderError(f, a, q) = NoErr /\ MakeRequestHeader(f, a, q).pdu = h
  BY HeaderNumbers
<1>2. f \in {5, 6, 15, 16}
  <2> HIDE DEF f
  <2> QED BY <1>1 DEF IsWriteToServer, f
<1>3. /\ TableFor(h) \in DOMAIN m /\ v \in Seq(ValueType(TableFor(h))) /\ Len(v) = q
      /\ HasRange(m, h) /\ OnRead(m, h) = Encode(h, v)
  <2>1. Len(h) >= 3
    BY DEF IsRequestHeader
  <2> QED BY <1>1, <2>1, OnReadResult
<1>4. TableOf(f) \in Tables /\ OnRead(m, h) = d /\ TableFor(h) = TableOf(f)
  BY <1>3 DEF IsMemory, TableFor, Encode
<1>5. p = WriteRequest(f, a, q, d.data)
  BY <1>1, <1>4 DEF WriteRequest
<1> HIDE DEF f, a, q, v, d, p
<1>6. Carries(p, f, a, q, d.data) /\ Decode(p, d.data) = [values |-> v, err |-> NoErr]
  <2>1. v \in Seq(ValueType(TableOf(f))) /\ HeaderError(f, a, Len(v)) = NoErr
    BY <1>1, <1>3, <1>4
  <2>2. LET x == WriteRequest(f, a, Len(v), d.data)
        IN  /\ Carries(x, f, a, Len(v), d.data)
            /\ Decode(x, d.data) = [values |-> v, err |-> NoErr]
    BY <1>1, <1>2, <1>4, <2>1, WriteEncoded DEF d
  <2> QED BY <1>3, <1>5, <2>2
<1>7. /\ p \in Seq(Byte) /\ GetFunctionCode(p) = f /\ GetAddress(p) = a /\ Count(p) = q
      /\ GetRequestValues(p).data = d.data
      /\ Len(p) >= 5 /\ GetRequestValues(p).err = NoErr
  BY <1>6 DEF Carries
<1>8. WrittenValues(p) = v
  <2>1. WrittenValues(p) = Decode(p, d.data).values
    BY <1>7 DEF WrittenValues, DecodeValues, Decode, Count, f
  <2> QED BY <1>6, <2>1
<1>9. HasRange(m, p) /\ ValuesAsked(m, p) = v
  BY <1>3, <1>7 DEF HasRange, ValuesAsked, TableFor, v, f, a, q
<1> QED BY <1>7, <1>8, <1>9 DEF p, f, a, q

\* The memory m with the values in the range of p.
Updated(m, p, values) ==
    [m EXCEPT ![TableFor(p)] =
       [i \in 1..Len(@) |-> IF i - GetAddress(p) \in 1..Count(p)
                            THEN values[i - GetAddress(p)] ELSE @[i]]]

\* A handler that wrote all values of a request updated the range.
LEMMA WrittenUpdates ==
    ASSUME NEW m, IsMemory(m), NEW p \in Seq(Byte), Len(p) >= 3, NEW d, NEW n,
           Written(m, p, d, n), Len(d.values) = Count(p)
    PROVE  n = Updated(m, p, d.values) /\ HasRange(m, p)
<1> DEFINE k == TableFor(p)
           a == GetAddress(p)
           v == d.values
           t == m[k]
<1>1. /\ k \in DOMAIN m /\ v \in Seq(ValueType(k)) /\ a + Len(v) <= Len(t)
      /\ n = [m EXCEPT ![k] = WriteValues(t, a, v).table] /\ t \in Seq(ValueType(k))
  BY DEF Written, IsMemory
<1>2. a \in Nat
  BY HeaderTypes DEF Uint16
<1> HIDE DEF k, a, v
<1>3. Len(v) \in Nat /\ Len(t) \in Nat
  BY <1>1
<1>4. WriteValues(t, a, v).table
        = [i \in 1..Len(t) |-> IF i - a \in 1..Len(v) THEN v[i - a] ELSE t[i]]
  <2> HIDE DEF t
  <2>1. ~(a + Len(v) > Len(t))
    BY <1>1, <1>2, <1>3
  <2> QED BY <2>1 DEF WriteValues
<1>5. Updated(m, p, v)
        = [m EXCEPT ![k] = [i \in 1..Len(t) |-> IF i - a \in 1..Len(v) THEN v[i - a]
                                               ELSE t[i]]]
  BY <1>1 DEF Updated, k, a, v
<1>6. HasRange(m, p)
  BY <1>1 DEF HasRange, k, a, v
<1> QED BY <1>1, <1>4, <1>5, <1>6 DEF v

\* Writing back what a table has changes nothing.
LEMMA UpdateSame ==
    ASSUME NEW m, IsMemory(m), NEW p \in Seq(Byte), Len(p) >= 3, HasRange(m, p),
           Count(p) \in Nat
    PROVE  Updated(m, p, ValuesAsked(m, p)) = m
<1> DEFINE k == TableFor(p)
           a == GetAddress(p)
           c == Count(p)
           t == m[k]
           v == ValuesAsked(m, p)
<1>1. /\ k \in DOMAIN m /\ a + c <= Len(t) /\ t \in Seq(ValueType(k))
      /\ v = SubSeq(t, a + 1, a + c)
  BY DEF HasRange, IsMemory, ValuesAsked
<1>2. a \in Nat /\ c \in Nat
  BY HeaderTypes DEF Uint16
<1> HIDE DEF k, a, c, v
<1>4. ASSUME NEW i \in 1..Len(t), i - a \in 1..c PROVE v[i - a] = t[i]
  <2>1. (a + 1) + (i - a) - 1 = i
    BY <1>1, <1>2
  <2>2. i - a \in 1..((a + c) - (a + 1) + 1)
    BY <1>2, <1>4
  <2>3. SubSeq(t, a + 1, a + c)[i - a] = t[(a + 1) + (i - a) - 1]
    BY <1>1, <1>2, <1>4, <2>2
  <2> QED BY <1>1, <2>1, <2>3
<1>5. [i \in 1..Len(t) |-> IF i - a \in 1..c THEN v[i - a] ELSE t[i]] = t
  <2>1. [i \in 1..Len(t) |-> IF i - a \in 1..c THEN v[i - a] ELSE t[i]]
          = [i \in 1..Len(t) |-> t[i]]
    BY <1>4
  <2>2. t = [i \in 1..Len(t) |-> t[i]]
    BY <1>1
  <2> QED BY <2>1, <2>2
<1>6. Updated(m, p, v) = [m EXCEPT ![k] = t]
  BY <1>1, <1>5 DEF Updated, k, a, c
<1>7. [m EXCEPT ![k] = t] = m
  BY <1>1 DEF IsMemory
<1> QED BY <1>6, <1>7 DEF v

-------------------------------------------------------------------------------
(***************************************************************************)
(* Errors of the handlers and of the packet functions are errors.          *)
(***************************************************************************)
LEMMA KnownErrors ==
    /\ NoErr \in Errors /\ EcIllegalDataAddress \in Errors
    /\ EcIllegalDataValue \in Errors /\ EcServerDeviceFailure \in Errors
    /\ ErrFcNotSupported \in Errors /\ ErrorCrc \in Errors
    /\ ErrServerTimeOut \in Errors /\ ErrOther \in Errors
    /\ ErrOther # NoErr /\ ErrorCrc # NoErr /\ ErrServerTimeOut # NoErr
BY DEF Errors, NoErr, EcIllegalDataAddress, EcIllegalDataValue,
   EcServerDeviceFailure, ErrFcNotSupported, ErrorCrc, ErrServerTimeOut, ErrOther

\* What OnRead reports is an error or nil.
LEMMA OnReadError ==
    ASSUME NEW m, NEW req PROVE OnRead(m, req).err \in Errors
<1>1. GetRequestCount(req).err \in Errors
  BY KnownErrors DEF GetRequestCount
<1>2. \A values, count : checkValues(values, count).err \in Errors
  BY KnownErrors DEF checkValues
<1>3. \A values, fc : BoolsToData(values, fc).err \in Errors
  BY KnownErrors DEF BoolsToData
<1>4. \A values : RegistersToData(values).err \in Errors
  BY KnownErrors DEF RegistersToData
<1> QED BY <1>1, <1>2, <1>3, <1>4, KnownErrors DEF OnRead

\* What OnWrite reports is an error or nil.
LEMMA OnWriteError ==
    ASSUME NEW m, NEW req, NEW data PROVE OnWrite(m, req, data).err \in Errors
<1>1. GetRequestCount(req).err \in Errors
  BY KnownErrors DEF GetRequestCount
<1>2. \A d, count, fc : DataToBools(d, count, fc).err \in Errors
  BY KnownErrors DEF DataToBools
<1>3. \A d : DataToRegisters(d).err \in Errors
  BY KnownErrors DEF DataToRegisters
<1>4. \A table, address, values : WriteValues(table, address, values).err \in Errors
  BY KnownErrors DEF WriteValues
<1> QED BY <1>1, <1>2, <1>3, <1>4, KnownErrors DEF OnWrite
================================================================================
