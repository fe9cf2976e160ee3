--------------------------------- MODULE Data ---------------------------------
(***************************************************************************)
(* The data part of a PDU and the values it carries (data.go).  A bool of  *)
(* the code is a bit, 0 or 1, so that all values are numbers.              *)
(***************************************************************************)
EXTENDS Modbus

Bits == {0, 1}

\* 1 << j, for the bits of a byte.
Weight == <<1, 2, 4, 8, 16, 32, 64, 128>>

Bit(byte, j) == (byte \div Weight[j + 1]) % 2

\* BoolsToData's loop: eight values to a byte, the first in the lowest bit, and
\* what the last byte lacks stays 0.
ValueAt(values, i) == IF i <= Len(values) THEN values[i] ELSE 0

PackBits(values) ==
    [k \in 1..((Len(values) + 7) \div 8) |->
       LET v(j) == ValueAt(values, 8 * (k - 1) + j)
       IN  v(1) + 2 * v(2) + 4 * v(3) + 8 * v(4)
             + 16 * v(5) + 32 * v(6) + 64 * v(7) + 128 * v(8)]

BoolsToData(values, fc) ==
    IF fc # FcWriteSingleCoil THEN [data |-> PackBits(values), err |-> NoErr]
    ELSE IF Len(values) # 1 THEN [data |-> << >>, err |-> ErrOther]
    ELSE [data |-> <<values[1] * 255, 0>>, err |-> NoErr]

DataToBools(data, count, fc) ==
    LET Fail == [values |-> << >>, err |-> EcIllegalDataValue]
    IN  IF fc = FcWriteSingleCoil
        THEN IF Len(data) # 2 \/ data[2] # 0 \/ data[1] \notin {0, 255} THEN Fail
             ELSE [values |-> <<data[1] \div 255>>, err |-> NoErr]
        ELSE IF ((count + 7) % 65536) \div 8 # Len(data) % 65536 THEN Fail
        ELSE [values |-> [i \in 1..count |->
                            Bit(data[1 + ((i - 1) \div 8)], (i - 1) % 8)],
              err |-> NoErr]

DataToRegisters(data) ==
    IF Len(data) < 2 \/ Len(data) % 2 # 0
    THEN [values |-> << >>, err |-> EcIllegalDataValue]
    ELSE [values |-> [i \in 1..(Len(data) \div 2) |->
                        data[2 * i - 1] * 256 + data[2 * i]],
          err |-> NoErr]

\* Mutant: the low byte of a register comes first.
RegistersToDataLittle(values) ==
    [data |-> [k \in 1..(2 * Len(values)) |->
                 LET v == values[(k + 1) \div 2]
                 IN  IF k % 2 = 1 THEN Low(v) ELSE High(v)],
     err |-> NoErr]

RegistersToData(values) ==
    [data |-> [k \in 1..(2 * Len(values)) |->
                 LET v == values[(k + 1) \div 2]
                 IN  IF k % 2 = 1 THEN High(v) ELSE Low(v)],
     err |-> NoErr]
===============================================================================
