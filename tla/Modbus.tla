-------------------------------- MODULE Modbus --------------------------------
(***************************************************************************)
(* Function codes, exception codes and PDUs: the pure functions of         *)
(* modbus.go, with the request/reply matching of failover.go and the size  *)
(* inference of packet_reader.go that both ends of a connection share.     *)
(*                                                                         *)
(* A PDU is a sequence of bytes (0..255); the byte the code calls p[i] is  *)
(* p[i + 1] here and the nil PDU is << >>.  A Go error is a number: NoErr  *)
(* is nil, 1..255 are the ExceptionCodes (errors that wrap one included,   *)
(* since ToExceptionCode looks through the wrapping), larger numbers are   *)
(* the errors the code tells apart by identity.  A pair of results is a    *)
(* record with a field err.                                                *)
(***************************************************************************)
EXTENDS Integers, Sequences

CONSTANTS
    OverSizeSupport,    \* var OverSizeSupport, fixed for the life of a process
    OverSizeMaxRTU      \* var OverSizeMaxRTU

ASSUME OverSizeAssumption == /\ OverSizeSupport \in BOOLEAN
                             /\ OverSizeMaxRTU \in Nat

Byte == {b \in Nat : b < 256}
Uint16 == {n \in Nat : n < 65536}

(***************************************************************************)
(* Function codes.                                                         *)
(***************************************************************************)
FcReadCoils == 1
FcReadDiscreteInputs == 2
FcReadHoldingRegisters == 3
FcReadInputRegisters == 4
FcWriteSingleCoil == 5
FcWriteSingleRegister == 6
FcWriteMultipleCoils == 15
FcWriteMultipleRegisters == 16

Valid(f) == (f > 0 /\ f < 7) \/ (f > 14 /\ f < 17)

IsUint16(f) == f \in {3, 4, 6, 16}
IsBool(f) == f \in {1, 2, 5, 15}
IsSingle(f) == f \in {5, 6}
IsWriteToServer(f) == f \in {5, 6, 15, 16, 22, 23}
IsReadToServer(f) == f \in {1, 2, 3, 4, 23}

SeparateError(f) == [hasErr |-> f > 127, fc |-> f % 128]

MaxRange == 65535

MaxPerPacket(f) ==
    CASE f \in {FcReadCoils, FcReadDiscreteInputs} -> 2000
      [] f \in {FcReadHoldingRegisters, FcReadInputRegisters} -> 125
      [] f \in {FcWriteSingleCoil, FcWriteSingleRegister} -> 1
      [] f = FcWriteMultipleCoils -> 1968
      [] f = FcWriteMultipleRegisters -> 123
      [] OTHER -> 0

MaxPDUSize == 253

GetMaxPDUSize ==
    IF OverSizeSupport /\ OverSizeMaxRTU - 3 > MaxPDUSize
    THEN OverSizeMaxRTU - 3
    ELSE MaxPDUSize

\* s after the code's uint16 conversion, and after "one byte is not used even
\* at max" for the codes that carry bits.
SizedBytes(size) == (IF size > MaxPDUSize THEN MaxPDUSize ELSE size) % 65536
SizedBitBytes(size) ==
    IF SizedBytes(size) = MaxPDUSize THEN MaxPDUSize - 1 ELSE SizedBytes(size)

MaxPerPacketSized(f, size) ==
    LET s == SizedBytes(size)
        b == SizedBitBytes(size)
    IN  CASE f \in {FcReadCoils, FcReadDiscreteInputs} ->
               IF s < 4 THEN 8 ELSE ((b - 2) * 8) % 65536
          [] f \in {FcReadHoldingRegisters, FcReadInputRegisters} ->
               IF s < 6 THEN 1 ELSE (s - 2) \div 2
          [] f \in {FcWriteSingleCoil, FcWriteSingleRegister} -> 1
          [] f = FcWriteMultipleCoils ->
               IF s < 8 THEN 8 ELSE ((b - 6) * 8) % 65536
          [] f = FcWriteMultipleRegisters ->
               IF s < 10 THEN 1 ELSE (s - 6) \div 2
          [] OTHER -> 0

(***************************************************************************)
(* Errors.                                                                 *)
(***************************************************************************)
NoErr == 0
EcIllegalFunction == 1
EcIllegalDataAddress == 2
EcIllegalDataValue == 3
EcServerDeviceFailure == 4
ErrFcNotSupported == 256
ErrorCrc == 257
ErrServerTimeOut == 258
ErrOther == 259         \* any error the code compares with nothing

Errors == 0..259

ToExceptionCode(err) ==
    CASE err \in 1..255 -> err
      [] err = ErrFcNotSupported -> EcIllegalFunction
      [] OTHER -> EcServerDeviceFailure

(***************************************************************************)
(* Reading a PDU.                                                          *)
(***************************************************************************)
GetFunctionCode(p) == IF p = << >> THEN 0 ELSE p[1]

GetAddress(p) == p[2] * 256 + p[3]

GetRequestCount(p) ==
    CASE IsSingle(GetFunctionCode(p)) -> [count |-> 1, err |-> NoErr]
      [] ~IsSingle(GetFunctionCode(p)) /\ Len(p) < 5 ->
           [count |-> 0, err |-> EcIllegalDataValue]
      [] OTHER -> [count |-> p[4] * 256 + p[5], err |-> NoErr]

ValidateRequest(p) ==
    CASE ~Valid(GetFunctionCode(p)) -> EcIllegalFunction
      [] Valid(GetFunctionCode(p)) /\ Len(p) < 3 -> EcIllegalDataAddress
      [] OTHER -> NoErr

\* The bytes of p from the code's index i on: p[i:].
From(p, i) == SubSeq(p, i + 1, Len(p))

\* Whether lb bytes carry exactly l values of function code f.
Fits(f, lb, l) == lb = IF IsUint16(f) THEN l * 2 ELSE (l + 7) \div 8

GetRequestValues(p) ==
    LET f == GetFunctionCode(p)
        lb == Len(p) - 6
        l == GetRequestCount(p).count
        Fail(e) == [data |-> << >>, err |-> e]
    IN  IF f = 0 THEN Fail(EcIllegalFunction)
        ELSE IF IsSingle(f)
        THEN IF Len(p) # 5 THEN Fail(EcIllegalDataValue)
             ELSE [data |-> From(p, 3), err |-> NoErr]
        ELSE IF lb < 1 \/ (lb # p[6] /\ ~OverSizeSupport)
        THEN Fail(EcIllegalDataValue)
        ELSE IF l + GetAddress(p) > MaxRange THEN Fail(EcIllegalDataAddress)
        ELSE IF ~Fits(f, lb, l) THEN Fail(EcIllegalDataValue)
        ELSE [data |-> From(p, 6), err |-> NoErr]

GetReplyValues(p) ==
    LET l == Len(p) - 2
    IN  IF l < 1 \/ l # p[2] THEN [data |-> << >>, err |-> ErrOther]
        ELSE [data |-> From(p, 2), err |-> NoErr]

(***************************************************************************)
(* Making a PDU.                                                           *)
(***************************************************************************)
HeaderError(f, address, quantity) ==
    IF MaxPerPacket(f) = 0 THEN EcIllegalFunction
    ELSE IF \/ quantity = 0
            \/ quantity > MaxPerPacket(f)
            \/ address + quantity > MaxRange
    THEN EcIllegalDataAddress
    ELSE NoErr

High(n) == n \div 256
Low(n) == n % 256

HeaderBytes(f, address, quantity) ==
    CASE IsSingle(f) -> <<f, High(address), Low(address)>>
      [] f = FcWriteMultipleCoils ->
           <<f, High(address), Low(address), High(quantity), Low(quantity),
             Low((quantity + 7) \div 8)>>
      [] f = FcWriteMultipleRegisters ->
           <<f, High(address), Low(address), High(quantity), Low(quantity),
             Low(quantity * 2)>>
      [] OTHER ->
           <<f, High(address), Low(address), High(quantity), Low(quantity)>>

MakeRequestHeader(f, address, quantity) ==
    LET e == HeaderError(f, address, quantity)
    IN  [pdu |-> IF e = NoErr THEN HeaderBytes(f, address, quantity) ELSE << >>,
         err |-> e]

MakeReadReply(p, data) == <<GetFunctionCode(p), Len(data) % 256>> \o data

MakeWriteRequest(p, data) ==
    CASE IsSingle(GetFunctionCode(p)) -> SubSeq(p, 1, 3) \o data
      [] GetFunctionCode(p) \in {FcWriteMultipleCoils, FcWriteMultipleRegisters} ->
           SubSeq(p, 1, 6) \o data
      [] OTHER -> << >>

MakeWriteReply(p) == IF Len(p) > 5 THEN SubSeq(p, 1, 5) ELSE p

ExceptionReplyPacket(req, e) ==
    LET fc == GetFunctionCode(req)
    IN  <<IF fc > 127 THEN fc ELSE fc + 128, e>>

(***************************************************************************)
(* Matching a reply with its request.                                      *)
(***************************************************************************)
\* (n-1)/8 of Go rounds towards zero: (0-1)/8 = 0.
OverSize(header) ==
    LET n == header[4] * 256 + header[5]
    IN  IF IsUint16(header[1]) THEN 6 + n * 2
        ELSE 6 + (IF n = 0 THEN 0 ELSE (n - 1) \div 8) + 1

GetPDUSizeFromHeader(header, isClient) ==
    IF Len(header) < 2 THEN 2
    ELSE LET f == header[1]
         IN  IF ~Valid(f) THEN 2
             ELSE IF isClient = IsWriteToServer(f) THEN 5
             ELSE IF isClient THEN 2 + header[2]
             ELSE IF IsSingle(f) THEN 5
             ELSE IF Len(header) < 6 THEN 6
             ELSE IF ~OverSizeSupport THEN 6 + header[6]
             ELSE IF OverSize(header) < GetMaxPDUSize THEN OverSize(header)
             ELSE GetMaxPDUSize

\* The switch over the function code at the end of IsRequestReply: the counts
\* are compared as one byte.
HeaderMatches(r, a, c) ==
    LET f == GetFunctionCode(r)
    IN  \/ /\ f \in {FcReadCoils, FcReadDiscreteInputs}
           /\ (((c + 7) % 65536) \div 8) % 256 = a[2]
        \/ /\ f \in {FcReadHoldingRegisters, FcReadInputRegisters}
           /\ (c * 2) % 256 = a[2]
        \/ /\ f \in {FcWriteSingleCoil, FcWriteSingleRegister,
                     FcWriteMultipleCoils, FcWriteMultipleRegisters}
           /\ SubSeq(r, 1, 5) = SubSeq(a, 1, 5)

IsRequestReply(r, a) ==
    /\ GetFunctionCode(r) = GetFunctionCode(a)
    /\ GetPDUSizeFromHeader(r, FALSE) = Len(r)
    /\ GetPDUSizeFromHeader(a, TRUE) = Len(a)
    /\ GetRequestCount(r).err = NoErr
    /\ HeaderMatches(r, a, GetRequestCount(r).count)

(***************************************************************************)
(* RTU frames.  A frame on the wire is [id, pdu, ok]: the slave id, the    *)
(* bytes between the id and the CRC, and whether the CRC is that of the    *)
(* bytes (crc.Validate).  The CRC itself is not computed.                  *)
(***************************************************************************)
MakeRTU(id, p) == [id |-> id, pdu |-> p, ok |-> TRUE]

smallestRTUSize == 5

GetPDU(r) ==
    IF Len(r.pdu) + 3 < smallestRTUSize THEN [pdu |-> << >>, err |-> ErrOther]
    ELSE IF ~r.ok THEN [pdu |-> << >>, err |-> ErrorCrc]
    ELSE [pdu |-> r.pdu, err |-> NoErr]
===============================================================================
