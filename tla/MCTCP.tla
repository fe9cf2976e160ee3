--------------------------------- MODULE MCTCP ---------------------------------
(***************************************************************************)
(* Two callers: one sets a register, reads two back and writes a coil,     *)
(* which the server does not have; the other sends a request with a byte   *)
(* too many, which the server answers and the client does not accept.  A   *)
(* stranger writes a register and goes on with half a header, or sends an  *)
(* unknown function code, an unknown protocol or a length that is too long.*)
(***************************************************************************)
EXTENDS TCP, TLC

CONSTANTS c1, c2

Read(address, count) == <<FcReadHoldingRegisters, 0, address, 0, count>>

MCWork == (c1 :> <<<<FcWriteSingleRegister, 0, 1>>, Read(0, 2),
                  <<FcWriteSingleCoil, 0, 0>>>>)
          @@ (c2 :> <<Append(Read(0, 1), 9)>>)

MCLocalMemory == [holdingRegisters |-> <<3, 4>>, coils |-> <<1>>]
MCServerMemory == [holdingRegisters |-> <<100, 101>>]

ASSUME DeploymentAssumption == Deployment

MCSays == {writeTCP(NewBuffer, <<FcWriteSingleRegister, 0, 1, 1, 1>>) \o <<0, 1, 0>>,
           writeTCP(NewBuffer, <<43, 14, 1>>),
           <<0, 1, 1, 0, 0, 6, 1, 3, 0, 0, 0, 1>>,
           <<0, 1, 0, 0, 1, 0, 1, 3, 0, 0, 0, 1>>}
================================================================================
