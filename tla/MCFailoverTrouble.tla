--------------------------- MODULE MCFailoverTrouble ---------------------------
(***************************************************************************)
(* The same pair of servers outside of Deployment: a client that sets a    *)
(* register, and a primary that is forced back when the clock says so.     *)
(***************************************************************************)
EXTENDS FailoverServers

Set(v) == <<FcWriteSingleRegister, 0, 0, 0, v>>
Memory(v) == [holdingRegisters |-> <<v>>]

MCMemory == Memory(0)
MCMemories == {Memory(v) : v \in 0..1}

Served == {MakeRTU(1, Set(1))}

\* What the application writes is echoed; an exception that is taken for a request
\* is answered with another.
MCPdus == {f.pdu : f \in Served}
          \cup {<<fc, e>> : fc \in {FcWriteSingleRegister + 128}, e \in 1..4}
================================================================================
