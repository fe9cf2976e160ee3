----------------------------- MODULE MCRTUClient ------------------------------
(***************************************************************************)
(* Two callers.  The first reads and then writes a register of server 1;   *)
(* the second broadcasts, reads a table the handler does not have, and     *)
(* writes to an id that has no handler.  The packets are the replies to    *)
(* these requests, an exception, and packets that are damaged, too short,  *)
(* from another server or of another function.                             *)
(***************************************************************************)
EXTENDS RTUClientPort, TLC

CONSTANTS c1, c2

Read(id) == [id |-> id, pdu |-> <<FcReadHoldingRegisters, 0, 0, 0, 1>>]
Write(id) == [id |-> id, pdu |-> <<FcWriteSingleRegister, 0, 0>>]

MCWork ==
    (c1 :> <<<<Read(1), Write(1)>>>>)
    @@ (c2 :> <<<<Write(0)>>, <<[id |-> 1, pdu |-> <<FcReadCoils, 0, 0, 0, 1>>]>>,
                <<Write(2)>>>>)

MCLocalMemory == [id \in {0, 1} |-> [holdingRegisters |-> <<5>>]]

Wire(id, p, ok) == Tagged([id |-> id, pdu |-> p, ok |-> ok], 0)

MCArrivals == {Wire(1, <<3, 2, 0, 7>>, TRUE), Wire(1, <<6, 0, 0, 0, 5>>, TRUE),
              Wire(1, <<1, 1, 1>>, TRUE), Wire(1, <<131, 2>>, TRUE),
              Wire(1, <<3, 2, 0, 7>>, FALSE), Wire(1, <<3>>, TRUE),
              Wire(2, <<3, 2, 0, 7>>, TRUE)}

\* One caller with one read (for caller_abandoned).
SoloWork == (c1 :> <<<<Read(1)>>>>)

\* A caller of server 2, whose id has no handler (for onerror_panic).
PanicWork == (c1 :> <<<<Read(2)>>>>)
PanicArrivals == {Wire(2, <<131, 2>>, TRUE)}
===============================================================================
