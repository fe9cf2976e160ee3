------------------------- MODULE RequestHeadersProofs -------------------------
(***************************************************************************)
(* Proofs about RequestHeaders: what the splitting loop returns, for every *)
(* function code, range and limit.                                         *)
(***************************************************************************)
EXTENDS RequestHeaders, TLAPS

-------------------------------------------------------------------------------
(***************************************************************************)
(* MakeRequestHeader and its inverses.                                     *)
(***************************************************************************)

\* A uint16 is recovered from its two bytes.
LEMMA TwoBytes ==
    ASSUME NEW n \in Uint16
    PROVE  /\ High(n) \in Byte
           /\ Low(n) \in Byte
           /\ High(n) * 256 + Low(n) = n
BY DEF Uint16, Byte, High, Low

\* The shape of a header: its first three bytes, and the two of the count for a
\* code that is not single.
LEMMA HeaderShape ==
    ASSUME NEW f \in Byte, NEW a \in Uint16, NEW n \in Uint16
    PROVE  LET p == HeaderBytes(f, a, n)
           IN  /\ p \in Seq(Byte)
               /\ Len(p) >= 3
               /\ p[1] = f /\ p[2] = High(a) /\ p[3] = Low(a)
               /\ ~IsSingle(f) => /\ Len(p) >= 5
                                  /\ p[4] = High(n) /\ p[5] = Low(n)
<1>1. /\ High(a) \in Byte /\ Low(a) \in Byte
      /\ High(n) \in Byte /\ Low(n) \in Byte
  BY TwoBytes
<1>2. /\ Low((n + 7) \div 8) \in Byte
      /\ Low(n * 2) \in Byte
  BY DEF Uint16, Byte, Low
<1>3. CASE IsSingle(f)
  <2>1. HeaderBytes(f, a, n) = <<f, High(a), Low(a)>>
    BY <1>3 DEF HeaderBytes, IsSingle, FcWriteMultipleCoils, FcWriteMultipleRegisters
  <2> QED BY <1>1, <1>3, <2>1
<1>4. CASE ~IsSingle(f) /\ f = FcWriteMultipleCoils
  <2>1. HeaderBytes(f, a, n)
          = <<f, High(a), Low(a), High(n), Low(n), Low((n + 7) \div 8)>>
    BY <1>4 DEF HeaderBytes, FcWriteMultipleCoils, FcWriteMultipleRegisters
  <2> QED BY <1>1, <1>2, <2>1
<1>5. CASE ~IsSingle(f) /\ f = FcWriteMultipleRegisters
  <2>1. HeaderBytes(f, a, n)
          = <<f, High(a), Low(a), High(n), Low(n), Low(n * 2)>>
    BY <1>5 DEF HeaderBytes, FcWriteMultipleCoils, FcWriteMultipleRegisters
  <2> QED BY <1>1, <1>2, <2>1
<1>6. CASE ~IsSingle(f) /\ f \notin {FcWriteMultipleCoils, FcWriteMultipleRegisters}
  <2>1. HeaderBytes(f, a, n) = <<f, High(a), Low(a), High(n), Low(n)>>
    BY <1>6 DEF HeaderBytes
  <2> QED BY <1>1, <2>1
<1> QED BY <1>3, <1>4, <1>5, <1>6

\* What each function code packs at most is a uint16.
LEMMA MaxPerPacketType ==
    ASSUME NEW f \in Byte
    PROVE  /\ MaxPerPacket(f) \in Uint16
           /\ IsSingle(f) => MaxPerPacket(f) = 1
<1> USE DEF FcReadCoils, FcReadDiscreteInputs, FcReadHoldingRegisters,
        FcReadInputRegisters, FcWriteSingleCoil, FcWriteSingleRegister,
        FcWriteMultipleCoils, FcWriteMultipleRegisters
<1>1. MaxPerPacket(f) \in {0, 1, 123, 125, 1968, 2000}
  BY DEF MaxPerPacket
<1>2. IsSingle(f) => MaxPerPacket(f) = 1
  BY DEF MaxPerPacket, IsSingle
<1> QED BY <1>1, <1>2 DEF Uint16

\* MakeRequestHeader succeeds exactly for a supported function, a quantity that
\* fits one packet and a range below MaxRange.
LEMMA HeaderAccepted ==
    ASSUME NEW f \in Byte, NEW a \in Uint16, NEW n \in Uint16
    PROVE  /\ MakeRequestHeader(f, a, n).err = NoErr
                <=> n \in 1..MaxPerPacket(f) /\ a + n <= MaxRange
           /\ MakeRequestHeader(f, a, n).err \in Errors
<1>1. MakeRequestHeader(f, a, n).err = HeaderError(f, a, n)
  BY DEF MakeRequestHeader
<1>2. HeaderError(f, a, n) = NoErr
        <=> n \in 1..MaxPerPacket(f) /\ a + n <= MaxRange
  <2>1. MaxPerPacket(f) \in Uint16
    BY MaxPerPacketType
  <2> QED
    BY <2>1 DEF HeaderError, NoErr, EcIllegalFunction, EcIllegalDataAddress,
       Uint16, MaxRange
<1>3. HeaderError(f, a, n) \in Errors
  BY DEF HeaderError, NoErr, EcIllegalFunction, EcIllegalDataAddress, Errors
<1> QED BY <1>1, <1>2, <1>3

\* modbus.go:161 "The inverse functions are PDU.GetFunctionCode(),
\* .GetAddress(), and .GetRequestCount()": they recover the three arguments of
\* every header MakeRequestHeader makes.
THEOREM HeaderInverse ==
    ASSUME NEW f \in Byte, NEW a \in Uint16, NEW n \in Uint16,
           MakeRequestHeader(f, a, n).err = NoErr
    PROVE  LET p == MakeRequestHeader(f, a, n).pdu
           IN  /\ p \in Seq(Byte)
               /\ GetFunctionCode(p) = f
               /\ GetAddress(p) = a
               /\ GetRequestCount(p) = [count |-> n, err |-> NoErr]
<1> DEFINE p == HeaderBytes(f, a, n)
<1>1. /\ HeaderError(f, a, n) = NoErr
      /\ MakeRequestHeader(f, a, n).pdu = p
  BY DEF MakeRequestHeader
<1>2. /\ p \in Seq(Byte) /\ Len(p) >= 3
      /\ p[1] = f /\ p[2] = High(a) /\ p[3] = Low(a)
      /\ ~IsSingle(f) => /\ Len(p) >= 5
                         /\ p[4] = High(n) /\ p[5] = Low(n)
  BY HeaderShape
<1> HIDE DEF p
<1>3. p # << >>
  BY <1>2
<1>4. GetFunctionCode(p) = f
  BY <1>2, <1>3 DEF GetFunctionCode
<1>5. GetAddress(p) = a
  BY <1>2, TwoBytes DEF GetAddress
<1>6. CASE IsSingle(f)
  <2>1. n \in 1..MaxPerPacket(f)
    BY HeaderAccepted
  <2>2. MaxPerPacket(f) = 1
    BY <1>6, MaxPerPacketType
  <2>3. n = 1
    BY <2>1, <2>2
  <2> QED BY <1>1, <1>2, <1>4, <1>5, <1>6, <2>3 DEF GetRequestCount
<1>7. CASE ~IsSingle(f)
  <2>1. p[4] * 256 + p[5] = n
    BY <1>2, <1>7, TwoBytes
  <2>2. ~(Len(p) < 5)
    BY <1>2, <1>7
  <2>3. GetRequestCount(p) = [count |-> n, err |-> NoErr]
    BY <1>4, <1>7, <2>1, <2>2 DEF GetRequestCount
  <2> QED BY <1>1, <1>2, <1>4, <1>5, <2>3
<1> QED BY <1>6, <1>7

-------------------------------------------------------------------------------
(***************************************************************************)
(* MaxPerPacketSized: the limit a caller is told to split with.            *)
(***************************************************************************)
\* The longest PDU of a transaction of n values: the reply to a read, the
\* request of a write.
PacketBytes(f, n) ==
    IF IsSingle(f) THEN 5
    ELSE (IF IsReadToServer(f) THEN 2 ELSE 6)
         + (IF IsUint16(f) THEN 2 * n ELSE (n + 7) \div 8)

\* For every supported function and every size, MaxPerPacketSized returns a limit
\* MakeRequestHeader accepts, and from size 10 on the packets of a transaction
\* with that many values fit in size bytes (modbus.go:115-157; a size too small
\* for one value still gives one, eight for bools).
THEOREM SizedLimit ==
    ASSUME NEW f \in Byte, Valid(f), NEW size \in Nat
    PROVE  LET n == MaxPerPacketSized(f, size)
           IN  /\ n \in 1..MaxPerPacket(f)
               /\ size >= 10 => PacketBytes(f, n) <= size
<1> DEFINE s == SizedBytes(size)
           b == SizedBitBytes(size)
<1>1. /\ s \in Nat /\ s <= 253 /\ s <= size
      /\ size >= 10 => s >= 10
      /\ b \in Nat /\ b <= 252 /\ b <= s /\ s - b <= 1
      /\ s < 253 => b = s
  BY DEF SizedBytes, SizedBitBytes, MaxPDUSize
<1> USE DEF FcReadCoils, FcReadDiscreteInputs, FcReadHoldingRegisters,
            FcReadInputRegisters, FcWriteSingleCoil, FcWriteSingleRegister,
            FcWriteMultipleCoils, FcWriteMultipleRegisters
<1>2. f \in {1, 2, 3, 4, 5, 6, 15, 16}
  BY DEF Byte, Valid
<1> HIDE DEF s, b
<1>3. CASE f \in {1, 2}
  <2>1. MaxPerPacketSized(f, size) = IF s < 4 THEN 8 ELSE ((b - 2) * 8) % 65536
    BY <1>3 DEF MaxPerPacketSized, s, b
  <2>2. MaxPerPacket(f) = 2000
    BY <1>3 DEF MaxPerPacket
  <2>3. \A n : PacketBytes(f, n) = 2 + ((n + 7) \div 8)
    BY <1>3 DEF PacketBytes, IsSingle, IsReadToServer, IsUint16
  <2>4. ~(s < 4) => ((b - 2) * 8) % 65536 = (b - 2) * 8
    BY <1>1
  <2> QED BY <1>1, <2>1, <2>2, <2>3, <2>4
<1>4. CASE f \in {3, 4}
  <2>1. MaxPerPacketSized(f, size) = IF s < 6 THEN 1 ELSE (s - 2) \div 2
    BY <1>4 DEF MaxPerPacketSized, s, b
  <2>2. MaxPerPacket(f) = 125
    BY <1>4 DEF MaxPerPacket
  <2>3. \A n : PacketBytes(f, n) = 2 + 2 * n
    BY <1>4 DEF PacketBytes, IsSingle, IsReadToServer, IsUint16
  <2> QED BY <1>1, <2>1, <2>2, <2>3
<1>5. CASE f \in {5, 6}
  <2>1. MaxPerPacketSized(f, size) = 1 /\ MaxPerPacket(f) = 1
    BY <1>5 DEF MaxPerPacketSized, MaxPerPacket
  <2>2. \A n : PacketBytes(f, n) = 5
    BY <1>5 DEF PacketBytes, IsSingle
  <2> QED BY <2>1, <2>2
<1>6. CASE f = 15
  <2>1. MaxPerPacketSized(f, size) = IF s < 8 THEN 8 ELSE ((b - 6) * 8) % 65536
    BY <1>6 DEF MaxPerPacketSized, s, b
  <2>2. MaxPerPacket(f) = 1968
    BY <1>6 DEF MaxPerPacket
  <2>3. \A n : PacketBytes(f, n) = 6 + ((n + 7) \div 8)
    BY <1>6 DEF PacketBytes, IsSingle, IsReadToServer, IsUint16
  <2>4. ~(s < 8) => ((b - 6) * 8) % 65536 = (b - 6) * 8
    BY <1>1
  <2> QED BY <1>1, <2>1, <2>2, <2>3, <2>4
<1>7. CASE f = 16
  <2>1. MaxPerPacketSized(f, size) = IF s < 10 THEN 1 ELSE (s - 6) \div 2
    BY <1>7 DEF MaxPerPacketSized, s, b
  <2>2. MaxPerPacket(f) = 123
    BY <1>7 DEF MaxPerPacket
  <2>3. \A n : PacketBytes(f, n) = 6 + 2 * n
    BY <1>7 DEF PacketBytes, IsSingle, IsReadToServer, IsUint16
  <2> QED BY <1>1, <2>1, <2>2, <2>3
<1> QED BY <1>2, <1>3, <1>4, <1>5, <1>6, <1>7

-------------------------------------------------------------------------------
(***************************************************************************)
(* The loop.  The properties are inductive together with LoopState.        *)
(***************************************************************************)
IInv == TypeOK /\ LoopState /\ Tiling /\ WithinLimits /\ FailsOnlyOutOfRange

\* Append, element by element.
LEMMA AppendFacts ==
    ASSUME NEW S, NEW s \in Seq(S), NEW e \in S
    PROVE  /\ Append(s, e) \in Seq(S)
           /\ Len(Append(s, e)) = Len(s) + 1
           /\ \A i \in 1..Len(s) : Append(s, e)[i] = s[i]
           /\ Append(s, e)[Len(s) + 1] = e
OBVIOUS

\* The invariant holds at first.
LEMMA InitIInv == Init => IInv
<1> SUFFICES ASSUME Init PROVE IInv
  OBVIOUS
<1>1. TypeOK
  BY ArgumentAssumption DEF Init, TypeOK, NoErr, Errors
<1>2. LoopState
  BY DEF Init, LoopState
<1>3. Tiling /\ WithinLimits
  BY DEF Init, Tiling, WithinLimits
<1>4. FailsOnlyOutOfRange
  BY DEF Init, FailsOnlyOutOfRange
<1> QED BY <1>1, <1>2, <1>3, <1>4 DEF IInv

\* The two ways out with an error leave the empty slice.
LEMMA ReturnIInv ==
    ASSUME TypeOK, q' \in Uint16, NEW e \in Errors, e # NoErr, Return(<< >>, e),
           maxPerPacket \in 1..MaxPerPacket(fc) => a0 + q0 > MaxRange
    PROVE  IInv'
<1>1. TypeOK'
  BY DEF TypeOK, Return
<1>2. LoopState'
  BY DEF LoopState, Return
<1>3. (Tiling /\ WithinLimits)'
  BY DEF Tiling, WithinLimits, Return
<1>4. FailsOnlyOutOfRange'
  BY DEF FailsOnlyOutOfRange, Return
<1> QED BY <1>1, <1>2, <1>3, <1>4 DEF IInv

\* The check of the range before the loop.
LEMMA CheckIInv == IInv /\ Check => IInv'
<1> SUFFICES ASSUME IInv, Check PROVE IInv'
  OBVIOUS
<1> USE DEF IInv
<1>1. pc = "check" /\ address = a0 /\ quantity = q0 /\ appendTO = << >>
  BY DEF Check, LoopState
<1>2. CASE OutOfRange /\ Return(<< >>, ErrOther)
  <2>1. a0 + q0 > MaxRange
    BY <1>1, <1>2 DEF OutOfRange
  <2>2. q' \in Uint16 /\ ErrOther \in Errors /\ ErrOther # NoErr
    BY DEF Check, TypeOK, Errors, ErrOther, NoErr
  <2> QED BY <1>2, <2>1, <2>2, ReturnIInv
<1>3. CASE ~OutOfRange /\ pc' = "loop"
             /\ UNCHANGED <<fc, a0, q0, maxPerPacket, address, quantity, appendTO, err>>
  <2>1. TypeOK'
    BY <1>3 DEF Check, TypeOK
  <2>2. a0 + q0 <= MaxRange
    BY <1>1, <1>3 DEF OutOfRange, MaxRange, TypeOK, Uint16
  <2>3. LoopState'
    BY <1>1, <1>3, <2>2 DEF Check, LoopState
  <2>4. (Tiling /\ WithinLimits /\ FailsOnlyOutOfRange)'
    BY <1>1, <1>3 DEF Tiling, WithinLimits, FailsOnlyOutOfRange
  <2> QED BY <2>1, <2>3, <2>4
<1> QED BY <1>2, <1>3 DEF Check

\* The loop ends.
LEMMA FinishIInv == IInv /\ Finish => IInv'
<1> SUFFICES ASSUME IInv, Finish PROVE IInv'
  OBVIOUS
<1> USE DEF IInv
<1>1. /\ pc = "loop" /\ pc' = "done" /\ err = NoErr /\ err' = NoErr /\ quantity = 0
      /\ UNCHANGED <<fc, a0, q0, maxPerPacket, address, quantity, q, appendTO>>
  BY DEF Finish, Return, LoopState
<1>2. TypeOK'
  BY <1>1 DEF TypeOK
<1>3. LoopState'
  BY <1>1 DEF LoopState
<1>4. (Tiling /\ WithinLimits /\ FailsOnlyOutOfRange)'
  BY <1>1 DEF Tiling, WithinLimits, FailsOnlyOutOfRange
<1> QED BY <1>2, <1>3, <1>4

\* One iteration: the chunk it takes is the smaller of the limit and what is
\* left, so it neither wraps nor passes the end of the range.
LEMMA ChunkFacts ==
    ASSUME IInv, pc = "loop", quantity > 0
    PROVE  /\ NextQ \in Uint16
           /\ NextQ <= quantity /\ NextQ <= maxPerPacket
           /\ maxPerPacket > 0 => NextQ > 0
           /\ address + NextQ <= MaxRange
<1>1. /\ q = maxPerPacket
      /\ address + quantity <= MaxRange
  BY DEF IInv, LoopState, NoErr
<1> QED BY <1>1 DEF NextQ, IInv, TypeOK, Uint16, MaxRange

\* One iteration: a header is appended, and the rest of the range is left.
LEMMA IterateIInv == IInv /\ Iterate => IInv'
<1> SUFFICES ASSUME IInv, Iterate PROVE IInv'
  OBVIOUS
<1> USE DEF IInv
<1> DEFINE h == MakeRequestHeader(fc, address, NextQ)
<1>1. /\ pc = "loop" /\ quantity > 0 /\ q' = NextQ
      /\ fc \in Byte /\ address \in Uint16 /\ quantity \in Uint16
      /\ maxPerPacket \in Uint16 /\ a0 \in Uint16 /\ q0 \in Uint16
  BY DEF Iterate, TypeOK
<1>2. /\ NextQ \in Uint16
      /\ NextQ <= quantity /\ NextQ <= maxPerPacket
      /\ maxPerPacket > 0 => NextQ > 0
      /\ address + NextQ <= MaxRange
  BY <1>1, ChunkFacts
<1>3. /\ h.err = NoErr <=> NextQ \in 1..MaxPerPacket(fc) /\ address + NextQ <= MaxRange
      /\ h.err \in Errors
  BY <1>1, <1>2, HeaderAccepted
<1>4. MaxPerPacket(fc) \in Uint16
  BY <1>1, MaxPerPacketType
<1>5. CASE Refused /\ Return(<< >>, h.err)
  <2>1. h.err # NoErr
    BY <1>5 DEF Refused
  <2>2. NextQ \notin 1..MaxPerPacket(fc)
    BY <1>2, <1>3, <2>1
  <2>3. maxPerPacket \notin 1..MaxPerPacket(fc)
    BY <1>1, <1>2, <1>4, <2>2 DEF Uint16
  <2> QED BY <1>1, <1>2, <1>3, <1>5, <2>1, <2>3, ReturnIInv
<1>6. CASE ~Refused /\ Advance /\ UNCHANGED <<pc, fc, a0, q0, maxPerPacket, err>>
  <2> DEFINE p == h.pdu
             n == Len(appendTO)
  <2>1. h.err = NoErr /\ NextQ \in 1..MaxPerPacket(fc)
    BY <1>3, <1>6 DEF Refused
  <2>2. /\ p \in PduType
        /\ GetFunctionCode(p) = fc
        /\ GetAddress(p) = address
        /\ Count(p) = NextQ
    <3>1. /\ p \in Seq(Byte)
          /\ GetFunctionCode(p) = fc
          /\ GetAddress(p) = address
          /\ GetRequestCount(p) = [count |-> NextQ, err |-> NoErr]
      BY <1>1, <1>2, <2>1, HeaderInverse
    <3> QED BY <3>1 DEF PduType, Count
  <2>3. /\ address' = address + NextQ
        /\ quantity' = quantity - NextQ
        /\ appendTO' = Append(appendTO, p)
    BY <1>1, <1>2, <1>6 DEF Advance, Uint16, MaxRange
  <2> HIDE DEF p, h
  <2>4. /\ appendTO' \in Seq(PduType)
        /\ Len(appendTO') = n + 1
        /\ \A i \in 1..n : appendTO'[i] = appendTO[i]
        /\ appendTO'[n + 1] = p
        /\ n \in Nat
    BY <2>2, <2>3, AppendFacts DEF TypeOK
  <2>5. TypeOK'
    <3>1. address' \in Uint16 /\ quantity' \in Uint16 /\ q' \in Uint16
      BY <1>1, <1>2, <2>3 DEF Uint16, MaxRange
    <3> QED BY <1>6, <2>4, <3>1 DEF TypeOK
  <2>6. LoopState'
    <3>1. quantity' > 0 => q' = maxPerPacket
      BY <1>1, <1>2, <2>3 DEF NextQ, LoopState, Uint16
    <3>2. appendTO' # << >>
      BY <2>4
    <3>3. address' + quantity' = address + quantity
      BY <1>1, <1>2, <2>3 DEF Uint16
    <3>4. address' > a0
      BY <1>1, <1>2, <2>1, <2>3 DEF LoopState, Uint16
    <3> QED BY <1>1, <1>6, <3>1, <3>2, <3>3, <3>4 DEF LoopState
  <2>7. Tiling'
    <3>1. Stop(p) = address'
      BY <2>2, <2>3 DEF Stop
    <3>2. appendTO'[Len(appendTO')] = p
      BY <2>4
    <3>3. GetAddress(appendTO'[1]) = a0
      <4>1. CASE n = 0
        <5>1. appendTO = << >>
          BY <4>1 DEF TypeOK
        <5>2. address = a0
          BY <1>1, <5>1 DEF LoopState
        <5> QED BY <2>2, <2>4, <4>1, <5>2
      <4>2. CASE n > 0
        <5>1. appendTO'[1] = appendTO[1]
          BY <2>4, <4>2
        <5> QED BY <4>2, <5>1 DEF Tiling
      <4> QED BY <2>4, <4>1, <4>2
    <3>4. ASSUME NEW i \in 1..n
          PROVE  Stop(appendTO'[i]) = GetAddress(appendTO'[i + 1])
      <4>1. CASE i = n
        BY <2>2, <2>4, <4>1 DEF Tiling
      <4>2. CASE i # n
        <5>1. i \in 1..(n - 1) /\ i + 1 \in 1..n
          BY <2>4, <4>2
        <5> QED BY <2>4, <5>1 DEF Tiling
      <4> QED BY <4>1, <4>2
    <3> QED BY <1>6, <2>4, <3>1, <3>2, <3>3, <3>4 DEF Tiling
  <2>8. WithinLimits'
    <3>1. /\ Count(p) \in 1..maxPerPacket
          /\ Count(p) <= MaxPerPacket(fc)
          /\ Stop(p) <= MaxRange
      BY <1>1, <1>2, <1>4, <2>1, <2>2 DEF Stop, Uint16
    <3>2. ASSUME NEW i \in 1..(n + 1)
          PROVE  \/ i \in 1..n /\ appendTO'[i] = appendTO[i]
                 \/ appendTO'[i] = p
      BY <2>4
    <3> QED BY <1>6, <2>2, <2>4, <3>1, <3>2 DEF WithinLimits
  <2>9. FailsOnlyOutOfRange'
    BY <1>1, <1>6 DEF FailsOnlyOutOfRange
  <2> QED BY <2>5, <2>6, <2>7, <2>8, <2>9
<1> QED BY <1>5, <1>6 DEF Iterate

\* Every step keeps the invariant.
LEMMA NextIInv == IInv /\ [Next]_vars => IInv'
<1> SUFFICES ASSUME IInv, [Next]_vars PROVE IInv'
  OBVIOUS
<1>1. CASE UNCHANGED vars
  BY <1>1 DEF vars, IInv, TypeOK, LoopState, Tiling, WithinLimits,
     FailsOnlyOutOfRange
<1> QED BY <1>1, CheckIInv, IterateIInv, FinishIInv DEF Next

\* For every function code, range and limit: the headers tile the range
\* without gap, overlap or wrap, each within the caller's and the protocol's
\* limits; a call that succeeds covers the whole range and, with a legal limit,
\* a call fails only for a range out of bounds (MakePDURequestHeadersSized,
\* rtu_client.go:324).
THEOREM SplitCorrect ==
    Spec => [](TypeOK /\ Tiling /\ WithinLimits /\ CoversRange /\ FailsOnlyOutOfRange)
<1>1. IInv => CoversRange
  <2> SUFFICES ASSUME IInv, pc = "done", err = NoErr
               PROVE  IF q0 = 0 THEN appendTO = << >>
                      ELSE /\ appendTO # << >>
                           /\ GetAddress(appendTO[1]) = a0
                           /\ Stop(appendTO[Len(appendTO)]) = a0 + q0
    BY DEF CoversRange
  <2>1. /\ address = a0 + q0
        /\ IF appendTO = << >> THEN address = a0 ELSE address > a0
        /\ a0 \in Uint16 /\ q0 \in Uint16
    BY DEF IInv, LoopState, TypeOK, Uint16
  <2>2. CASE appendTO = << >>
    BY <2>1, <2>2 DEF Uint16
  <2>3. CASE appendTO # << >>
    <3> DEFINE n == Len(appendTO)
    <3>1. n \in Nat /\ n > 0
      BY <2>3 DEF IInv, TypeOK
    <3>2. GetAddress(appendTO[1]) = a0 /\ Stop(appendTO[n]) = a0 + q0
      BY <2>1, <3>1 DEF IInv, Tiling
    <3>3. q0 # 0
      BY <2>1, <2>3 DEF Uint16
    <3> QED BY <2>3, <3>2, <3>3
  <2> QED BY <2>2, <2>3
<1> QED BY <1>1, InitIInv, NextIInv, PTL DEF Spec, IInv

\* The uint16s of MakePDURequestHeadersSized never overflow (rtu_client.go:324-353).
THEOREM TypeCorrect == Spec => []TypeOK
BY SplitCorrect, PTL

\* Read back, each header starts where the one before stops: no value is asked for
\* twice or left out, while the loop runs as when it has ended.
THEOREM HeadersTile == Spec => []Tiling
BY SplitCorrect, PTL

\* No header asks for nothing, for more than the caller's limit or the protocol's,
\* or for an address past the last.
THEOREM HeadersWithinLimits == Spec => []WithinLimits
BY SplitCorrect, PTL

\* With a legal limit the call never fails in the middle of a range that it accepted.
THEOREM NoFailureHalfway == Spec => []FailsOnlyOutOfRange
BY SplitCorrect, PTL
===============================================================================
