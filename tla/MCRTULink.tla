------------------------------ MODULE MCRTULink -------------------------------
(***************************************************************************)
(* One caller and two servers.  The caller writes a register of server 1   *)
(* and reads two back; then it broadcasts two coils and asks server 2 for  *)
(* a register more than it has, which is refused.  LiveWork instead uses   *)
(* every function code, within what the servers have.                      *)
(***************************************************************************)
EXTENDS RTULink, TLC

LOCAL INSTANCE SequencesExt

CONSTANT c1

To(id, p) == [id |-> id, pdu |-> p]

MCWork ==
    (c1 :> <<<<To(1, <<FcWriteSingleRegister, 0, 1>>),
               To(1, <<FcReadHoldingRegisters, 0, 0, 0, 2>>)>>,
             <<To(0, <<FcWriteMultipleCoils, 0, 0, 0, 2, 1>>),
               To(2, <<FcReadHoldingRegisters, 0, 1, 0, 2>>)>>>>)

LiveWork ==
    (c1 :> <<<<To(1, <<FcReadCoils, 0, 0, 0, 2>>),
               To(0, <<FcWriteSingleCoil, 0, 1>>),
               To(2, <<FcWriteMultipleCoils, 0, 0, 0, 2, 1>>)>>,
             <<To(1, <<FcReadDiscreteInputs, 0, 0, 0, 1>>),
               To(2, <<FcReadInputRegisters, 0, 1, 0, 1>>)>>,
             <<To(0, <<FcWriteMultipleRegisters, 0, 0, 0, 2, 4>>),
               To(2, <<FcWriteSingleRegister, 0, 0>>),
               To(2, <<FcReadHoldingRegisters, 0, 0, 0, 2>>)>>>>)

Memory(a, b) ==
    [holdingRegisters |-> <<a, b>>, inputRegisters |-> <<b, a>>,
     coils |-> <<a % 2, b % 2>>, discreteInputs |-> <<b % 2>>]

MCLocalMemory == (0 :> Memory(3, 4)) @@ (1 :> Memory(300, 301)) @@ (2 :> Memory(0, 0))
MCServerMemory == (1 :> Memory(100, 101)) @@ (2 :> Memory(200, 201))

ASSUME DeploymentAssumption == Deployment

-------------------------------------------------------------------------------
(***************************************************************************)
(* PackBits is what the loop of BoolsToData computes, value by value.      *)
(***************************************************************************)
\* One value of the loop: acc is the data written so far, the byte being filled
\* and its next bit; last tells the final value.
PackBit(acc, value, last) ==
    LET byteVal == acc.byteVal + value * 2^acc.bitNr
    IN  IF acc.bitNr = 7
        THEN [data |-> Append(acc.data, byteVal), byteVal |-> 0, bitNr |-> 0]
        ELSE IF last
        THEN [acc EXCEPT !.data = Append(acc.data, byteVal)]
        ELSE [acc EXCEPT !.byteVal = byteVal, !.bitNr = acc.bitNr + 1]

PackLoop(values) ==
    FoldLeftDomain(LAMBDA acc, v : PackBit(acc, values[v], v = Len(values)),
                   [data |-> << >>, byteVal |-> 0, bitNr |-> 0],
                   values).data

ASSUME PackBitsIsTheLoop ==
    \A n \in 0..10 : \A values \in [1..n -> Bits] : PackBits(values) = PackLoop(values)
===============================================================================
