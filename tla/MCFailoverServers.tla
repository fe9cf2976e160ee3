--------------------------- MODULE MCFailoverServers ---------------------------
(***************************************************************************)
(* A register that the client reads, sets to 1, and sets to 2 with a       *)
(* broadcast.                                                              *)
(***************************************************************************)
EXTENDS FailoverServers

Set(v) == <<FcWriteSingleRegister, 0, 0, 0, v>>

MCRequests == {MakeRTU(1, Set(1)), MakeRTU(0, Set(2)),
               MakeRTU(1, <<FcReadHoldingRegisters, 0, 0, 0, 1>>)}

Memory(v) == [holdingRegisters |-> <<v>>]

MCMemory == Memory(0)
MCMemories == {Memory(v) : v \in 0..2}

\* A reply that is taken for a request is answered with an exception.
MCPdus == {f.pdu : f \in MCRequests}
          \cup {<<FcReadHoldingRegisters, 2, 0, v>> : v \in 0..2}
          \cup {<<FcReadHoldingRegisters + 128, e>> : e \in 1..4}

ASSUME DeploymentAssumption == Deployment
================================================================================
