-------------------------- MODULE MCFailoverClients ---------------------------
(***************************************************************************)
(* The applications poll a register that changes all the time.  Out of     *)
(* turn they write another, to the server or to all, ask for coils that    *)
(* the server does not have, or for a register that they do not have.      *)
(***************************************************************************)
EXTENDS FailoverClients

MCRequests == {MakeRTU(1, <<FcReadHoldingRegisters, 0, 0, 0, 1>>)}
MCOthers == MCRequests \cup
            {MakeRTU(1, <<FcWriteSingleRegister, 0, 1>>),
             MakeRTU(0, <<FcWriteSingleRegister, 0, 1>>),
             MakeRTU(1, <<FcWriteSingleRegister, 0, 2>>),
             MakeRTU(1, <<FcReadCoils, 0, 0, 0, 1>>)}

MCLocalMemory == [holdingRegisters |-> <<0, 5>>]
MCServerMemories == {[holdingRegisters |-> <<v, 5>>] : v \in {0, 1}}

ASSUME DeploymentAssumption == Deployment
================================================================================
