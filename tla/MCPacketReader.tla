---------------------------- MODULE MCPacketReader -----------------------------
(***************************************************************************)
(* Four readers: a server and a client alone on their line, a reader that  *)
(* listens in both directions, and server 1 on two wires beside server 2.  *)
(* Frames carry the checksum of the standard, computed by the reference.   *)
(***************************************************************************)
EXTENDS PacketReader, CRC

F(bytes) == [bytes |-> ReferenceSum(bytes), frame |-> TRUE]
Noise(bytes) == [bytes |-> bytes, frame |-> FALSE]
Damaged(bytes) == Noise([ReferenceSum(bytes) EXCEPT ![3] = (@ + 1) % 256])

ReadRequest(id) == F(<<id, FcReadHoldingRegisters, 0, 0, 0, 1>>)
ReadReply(id) == F(<<id, FcReadHoldingRegisters, 2, 0, 7>>)
LongReply(id) == F(<<id, FcReadHoldingRegisters, 4, 0, 7, 0, 8>>)
WriteRequest(id) == F(<<id, FcWriteMultipleRegisters, 0, 0, 0, 1, 2, 0, 9>>)
WriteReply(id) == F(<<id, FcWriteMultipleRegisters, 0, 0, 0, 1>>)
ExceptionReply(id) == F(<<id, 128 + FcReadHoldingRegisters, 2>>)

Reader(isClient, bidirectional, twoWire) ==
    [isClient |-> isClient, bidirectional |-> bidirectional, twoWire |-> twoWire,
     slaveID |-> 1]
Server == Reader(FALSE, FALSE, FALSE)
Client == Reader(TRUE, FALSE, FALSE)
Both == Reader(FALSE, TRUE, FALSE)
TwoWireServer == Reader(FALSE, FALSE, TRUE)

\* A stray byte, a header that announces more than the buffer holds, a damaged
\* request.
Junk == {Noise(<<0>>), Noise(<<1, 16, 0, 0, 0, 1, 200, 0, 9>>),
         Damaged(<<1, FcReadHoldingRegisters, 0, 0, 0, 1>>)}

MCScripts(r) ==
    CASE r = Server ->
           {<<ReadRequest(1), WriteRequest(1)>>, <<WriteRequest(0), ReadRequest(1)>>}
           \cup {<<n, ReadRequest(1), WriteRequest(1)>> : n \in Junk}
      [] r = Client ->
           {<<LongReply(1), ReadReply(1)>>, <<ExceptionReply(1), WriteReply(1)>>}
           \cup {<<ReadReply(1), n, LongReply(1)>> : n \in Junk}
      [] r = Both ->
           {<<ReadRequest(1), ReadReply(1)>>, <<ReadRequest(1), ExceptionReply(1)>>,
            <<WriteRequest(1), WriteReply(1)>>}
           \cup {<<n, ReadRequest(1), ReadReply(1)>> : n \in Junk}
      [] r = TwoWireServer ->
           {<<ReadRequest(2), ReadReply(2), ReadRequest(1)>>,
            <<ReadRequest(2), ExceptionReply(2), WriteRequest(0)>>}
           \cup {<<n, WriteRequest(1)>> : n \in Junk}

\* A write of two registers to server 2, and then a read from server 1.
WriteTwo == F(<<2, FcWriteMultipleRegisters, 0, 0, 0, 2, 4, 0, 8, 0, 9>>)
TwoWireScripts(r) ==
    {<<WriteTwo, F(<<2, FcWriteMultipleRegisters, 0, 0, 0, 2>>), ReadRequest(1)>>}

AllReaders == {Server, Client, Both, TwoWireServer}
OnlyTwoWire == {TwoWireServer}
================================================================================
