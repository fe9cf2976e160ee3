------------------------------- MODULE Handling -------------------------------
(***************************************************************************)
(* What a server's loop makes of a request PDU p with a handler over the   *)
(* memory m: the memory after it, the reply, and the error it reports.     *)
(* The same lines are in rtu_server.go and in tcp_server.go.               *)
(***************************************************************************)
EXTENDS SimpleHandler

Failed(m, p, err) ==
    [mem |-> m, err |-> err, reply |-> ExceptionReplyPacket(p, ToExceptionCode(err))]

HandleRead(m, p) ==
    LET r == OnRead(m, p)
    IN  IF r.err # NoErr THEN Failed(m, p, r.err)
        ELSE [mem |-> m, err |-> NoErr, reply |-> MakeReadReply(p, r.data)]

HandleWrite(m, p) ==
    LET v == GetRequestValues(p)
        w == OnWrite(m, p, v.data)
    IN  IF v.err # NoErr THEN Failed(m, p, v.err)
        ELSE IF w.err # NoErr THEN Failed(w.mem, p, w.err)
        ELSE [mem |-> w.mem, err |-> NoErr, reply |-> MakeWriteReply(p)]

Dispatch(m, p) ==
    IF IsReadToServer(GetFunctionCode(p)) THEN HandleRead(m, p) ELSE HandleWrite(m, p)

Handle(m, p) ==
    IF ValidateRequest(p) # NoErr THEN Failed(m, p, ValidateRequest(p))
    ELSE Dispatch(m, p)

(***************************************************************************)
(* The values that the bytes of a request and of its reply carry, for the  *)
(* history of what a server executed.                                      *)
(***************************************************************************)
DecodeValues(p, data) ==
    IF IsBool(GetFunctionCode(p))
    THEN DataToBools(data, GetRequestCount(p).count, GetFunctionCode(p)).values
    ELSE DataToRegisters(data).values

WrittenValues(p) ==
    IF IsWriteToServer(GetFunctionCode(p))
    THEN DecodeValues(p, GetRequestValues(p).data) ELSE << >>

Execution(r, reply) ==
    LET ok == ~SeparateError(GetFunctionCode(reply)).hasErr
    IN  [txn |-> r.txn, ok |-> ok,
         values |-> IF ~ok THEN << >>
                    ELSE IF IsReadToServer(GetFunctionCode(r.pdu))
                    THEN DecodeValues(r.pdu, GetReplyValues(reply).data)
                    ELSE WrittenValues(r.pdu)]

\* A request that MakeRequestHeader makes, of the numbers that are read in it.
IsRequestHeader(p) ==
    /\ Len(p) >= 3
    /\ MakeRequestHeader(GetFunctionCode(p), GetAddress(p), GetRequestCount(p).count)
         = [pdu |-> p, err |-> NoErr]
===============================================================================
