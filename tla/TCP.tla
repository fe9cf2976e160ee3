---------------------------------- MODULE TCP ----------------------------------
(***************************************************************************)
(* A TCPClient (tcp_client.go) used by several goroutines, and the         *)
(* TCPServer (tcp_server.go) that it and strangers are connected to.  A    *)
(* stream keeps its bytes and their order; what is sent to an end that was *)
(* closed is lost, and the other end reads what was sent before it closed. *)
(*                                                                         *)
(* exitError is written under no common lock: a reader that races with a   *)
(* writer is modelled as seeing either value.                              *)
(***************************************************************************)
EXTENDS Handling

CONSTANTS
    Callers,        \* goroutines that run DoTransactions on the client
    Work,           \* the requests of each: sequences of PDUs
    LocalMemory,    \* the memory behind the client's handler
    ServerMemory,   \* the memory behind the server's handler
    Strangers,      \* other connections to the server
    Says            \* what a stranger may send before it closes

ASSUME TCPAssumption == /\ Work \in [Callers -> Seq(Seq(Byte))]
                        /\ \A c \in Callers : Work[c] # << >>
                        /\ Says \subseteq Seq(Byte)
                        /\ IsMemory(LocalMemory) /\ IsMemory(ServerMemory)

VARIABLES
    caller,     \* of each caller: pc, i (its request) and last error
    reply,      \* the PDU that the caller who holds the lock has read
    serve,      \* Serve of the client: "new", "serving", "closing", "returned"
    closer,     \* Close by the user: "none", "set", "closed"
    cancelled,  \* ctx is done
    exitError,  \* the client's: "nil" or why it ended
    result,     \* what Serve returned
    open,       \* the client's end of its connection is open
    mem,        \* the memory behind the client's handler
    listening,  \* the server's listener is open
    conns,      \* the server's end of each connection: "queued", "served", "closed"
    toServer,   \* bytes on their way on each connection
    toClient,   \* bytes on their way to the client
    smem,       \* the memory behind the server's handler
    written,    \* history: the requests the client wrote
    log         \* history: what the server executed for the client

vars == <<caller, reply, serve, closer, cancelled, exitError, result, open, mem,
          listening, conns, toServer, toClient, smem, written, log>>
clientVars == <<caller, reply, serve, closer, cancelled, exitError, result, open, mem,
                written>>
exitVars == <<serve, closer, cancelled, exitError, result, open>>
serverVars == <<listening, conns, smem, log>>

Client == "client"
Connections == {Client} \cup Strangers

-------------------------------------------------------------------------------
(***************************************************************************)
(* Frames: an MBAP header of seven bytes and a PDU.                        *)
(***************************************************************************)
TCPHeaderLength == 6
MBAPHeaderLength == TCPHeaderLength + 1
MaxRTUSize == GetMaxPDUSize + 3

\* pdu with the header of the buffer, in which only the length is filled in.
writeTCP(header, pdu) ==
    LET l == Len(pdu) + 1
    IN  SubSeq(header, 1, 4) \o <<High(l), Low(l), header[7]>> \o pdu

\* What readTCP makes of a stream with a buffer of size bytes: "wait" while the
\* frame is incomplete, unless the other end has closed.
readTCP(stream, size, ended) ==
    LET l == stream[5] * 256 + stream[6]
        Incomplete == IF ended THEN "error" ELSE "wait"
    IN  IF Len(stream) < TCPHeaderLength THEN Incomplete
        ELSE IF stream[3] # 0 \/ stream[4] # 0 THEN "error"
        ELSE IF l <= 2 \/ size < l + TCPHeaderLength THEN "error"
        ELSE IF Len(stream) < l + TCPHeaderLength THEN Incomplete
        ELSE "frame"

FrameLength(stream) == TCPHeaderLength + stream[5] * 256 + stream[6]
FramePDU(stream) == SubSeq(stream, MBAPHeaderLength + 1, FrameLength(stream))

-------------------------------------------------------------------------------
Init ==
    /\ caller = [c \in Callers |-> [pc |-> "lock", i |-> 1, err |-> NoErr]]
    /\ reply = << >>
    /\ serve = "new" /\ closer = "none"
    /\ cancelled = FALSE /\ exitError = "nil" /\ result = "nil"
    /\ open = TRUE
    /\ mem = LocalMemory
    /\ listening = TRUE
    /\ conns = [k \in Connections |-> "queued"]
    /\ toServer \in {f \in [Connections -> Says \cup {<< >>}] :
                      f[Client] = << >> /\ \A k \in Strangers : f[k] \in Says}
    /\ toClient = << >>
    /\ smem = ServerMemory
    /\ written = << >> /\ log = << >>

(***************************************************************************)
(* The server.                                                             *)
(***************************************************************************)
Accept(k) ==
    /\ listening /\ conns[k] = "queued"
    /\ conns' = [conns EXCEPT ![k] = "served"]
    /\ UNCHANGED <<clientVars, listening, toServer, toClient, smem, log>>

\* Close of the server: Accept fails and Serve returns; connections that have
\* been accepted are served on.
CloseListener ==
    /\ listening /\ listening' = FALSE
    /\ LET refused == {k \in Connections : conns[k] = "queued"}
       IN  /\ conns' = [k \in Connections |-> IF k \in refused THEN "closed" ELSE conns[k]]
           /\ toServer' = [k \in Connections |-> IF k \in refused THEN << >> ELSE toServer[k]]
    /\ UNCHANGED <<clientVars, toClient, smem, log>>

ServerBuffer ==
    IF OverSizeSupport THEN MBAPHeaderLength + OverSizeMaxRTU + TCPHeaderLength
    ELSE MBAPHeaderLength + MaxPDUSize

ServerReads(k) ==
    readTCP(toServer[k], ServerBuffer, IF k = Client THEN ~open ELSE TRUE)

\* The connection is closed; what is still on its way is lost.
Gone(k) == /\ conns' = [conns EXCEPT ![k] = "closed"]
           /\ toServer' = [toServer EXCEPT ![k] = << >>]

\* The handler's result h for the request p goes out.
Replies(k, p, h) ==
    /\ smem' = h.mem
    /\ toServer' = [toServer EXCEPT ![k] = From(@, FrameLength(@))]
    /\ IF k = Client
       THEN /\ toClient' = toClient \o writeTCP(toServer[k], h.reply)
            /\ log' = Append(log, Execution([txn |-> Len(log) + 1, pdu |-> p], h.reply))
       ELSE UNCHANGED <<toClient, log>>
    /\ UNCHANGED conns

\* A request is executed and answered; the connection is closed without an answer
\* when a request is not valid.
Respond(k) ==
    /\ ServerReads(k) = "frame"
    /\ \E p \in {FramePDU(toServer[k])} :
          IF ValidateRequest(p) # NoErr
          THEN Gone(k) /\ UNCHANGED <<toClient, smem, log>>
          ELSE \E h \in {Dispatch(smem, p)} : Replies(k, p, h)

HangUp(k) ==
    /\ ServerReads(k) = "error"
    /\ Gone(k)
    /\ UNCHANGED <<toClient, smem, log>>

ServeConn(k) ==
    /\ conns[k] = "served"
    /\ Respond(k) \/ HangUp(k)
    /\ UNCHANGED <<clientVars, listening>>

-------------------------------------------------------------------------------
(***************************************************************************)
(* DoTransaction2 of the client, and the caller that waits for its result. *)
(***************************************************************************)
Request(c) == Work[c][caller[c].i]

\* The caller gets err: DoTransactions goes on to the next request, or returns.
Finish(c, err) ==
    caller' = [caller EXCEPT ![c] =
                 IF err = NoErr /\ @.i < Len(Work[c])
                 THEN [pc |-> "lock", i |-> @.i + 1, err |-> err]
                 ELSE [pc |-> "done", i |-> @.i, err |-> err]]

Moves(c, pc) == caller' = [caller EXCEPT ![c].pc = pc]

\* The transaction fails and takes the client down with it: exitError is set first,
\* and ctx is cancelled by a step of its own, Cancels.
Breaks(c, reason) ==
    /\ caller' = [caller EXCEPT ![c] = [pc |-> "cancel", i |-> @.i, err |-> ErrOther]]
    /\ exitError' = reason
    /\ UNCHANGED <<serve, closer, cancelled, result, open>>

Cancels(c) ==
    /\ caller[c].pc = "cancel"
    /\ Moves(c, "done")
    /\ cancelled' = TRUE
    /\ UNCHANGED <<reply, serve, closer, exitError, result, open, mem, serverVars, toServer,
                   toClient, written>>

\* Mutant: transactions overlap.
LockFreeAlways == TRUE

LockFree == \A d \in Callers : caller[d].pc \in {"lock", "done"}

Lock(c) ==
    /\ caller[c].pc = "lock" /\ LockFree
    /\ Moves(c, "send")
    /\ UNCHANGED <<reply, exitVars, mem, serverVars, toServer, toClient, written>>

\* Mutant: Serve says that the handler is there when it has waited for ctx.
HandlerReadyLate == serve \in {"closing", "returned"}

\* getHandler waits until Serve has been called.
HandlerReady == serve # "new"

NewBuffer == <<0, 0, 0, 0, 0, 0, 0>>

\* The request as it is written: a write gets its data from the handler.
Outgoing(c) ==
    IF IsWriteToServer(GetFunctionCode(Request(c)))
    THEN LET r == OnRead(mem, Request(c))
         IN  [pdu |-> MakeWriteRequest(Request(c), r.data), err |-> r.err]
    ELSE [pdu |-> Request(c), err |-> NoErr]

MaySend(c) ==
    /\ caller[c].pc = "send"
    /\ IsWriteToServer(GetFunctionCode(Request(c))) => HandlerReady

Send(c) ==
    LET r == Outgoing(c)
    IN  /\ MaySend(c)
        /\ IF r.err # NoErr
           THEN Finish(c, r.err) /\ UNCHANGED <<written, toServer>>
           ELSE /\ open
                /\ Moves(c, "read")
                /\ written' = Append(written, r.pdu)
                /\ toServer' = [toServer EXCEPT ![Client] =
                                  IF conns[Client] = "closed" THEN @
                                  ELSE @ \o writeTCP(NewBuffer, r.pdu)]
        /\ UNCHANGED <<reply, exitVars, mem, serverVars, toClient>>

\* A write fails for sure once the client has closed, perhaps once the server has.
SendFails(c) ==
    /\ MaySend(c) /\ Outgoing(c).err = NoErr
    /\ ~open \/ conns[Client] = "closed"
    /\ Breaks(c, "write")
    /\ UNCHANGED <<reply, mem, serverVars, toServer, toClient, written>>

ClientReads == readTCP(toClient, MaxRTUSize + TCPHeaderLength, conns[Client] = "closed")

Receive(c) ==
    /\ caller[c].pc = "read" /\ open
    /\ ClientReads = "frame"
    /\ reply' = FramePDU(toClient)
    /\ toClient' = From(toClient, FrameLength(toClient))
    /\ Moves(c, "reply")
    /\ UNCHANGED <<exitVars, mem, serverVars, toServer, written>>

ReceiveFails(c) ==
    /\ caller[c].pc = "read"
    /\ ~open \/ ClientReads = "error"
    /\ Breaks(c, "read")
    /\ UNCHANGED <<reply, mem, serverVars, toServer, toClient, written>>

Sent == written[Len(written)]
IsException == SeparateError(GetFunctionCode(reply)).hasErr

\* A reply to the request, with values if it is a read.
Expected == /\ ~IsException
            /\ IsRequestReply(Sent, reply)
            /\ IsReadToServer(GetFunctionCode(reply)) => GetReplyValues(reply).err = NoErr

\* Mutant: an exception is not an error.
ServerErrorSilent(c) ==
    /\ caller[c].pc = "reply" /\ IsException /\ HandlerReady
    /\ Finish(c, NoErr)
    /\ UNCHANGED <<reply, exitVars, mem, serverVars, toServer, toClient, written>>

\* An exception; the application's OnError is called.
ServerError(c) ==
    /\ caller[c].pc = "reply" /\ IsException /\ HandlerReady
    /\ Finish(c, ErrOther)
    /\ UNCHANGED <<reply, exitVars, mem, serverVars, toServer, toClient, written>>

Unexpected(c) ==
    /\ caller[c].pc = "reply" /\ ~IsException /\ ~Expected
    /\ Breaks(c, "unexpected")
    /\ UNCHANGED <<reply, mem, serverVars, toServer, toClient, written>>

ReadDone(c) ==
    LET w == OnWrite(mem, Sent, GetReplyValues(reply).data)
    IN  /\ caller[c].pc = "reply" /\ Expected
        /\ IsReadToServer(GetFunctionCode(reply))
        /\ HandlerReady
        /\ mem' = w.mem
        /\ Finish(c, w.err)
        /\ UNCHANGED <<reply, exitVars, serverVars, toServer, toClient, written>>

WriteDone(c) ==
    /\ caller[c].pc = "reply" /\ Expected
    /\ ~IsReadToServer(GetFunctionCode(reply))
    /\ Finish(c, NoErr)
    /\ UNCHANGED <<reply, exitVars, mem, serverVars, toServer, toClient, written>>

CallerStep(c) ==
    \/ Lock(c) \/ Send(c) \/ SendFails(c) \/ Receive(c) \/ ReceiveFails(c)
    \/ ServerError(c) \/ Unexpected(c) \/ ReadDone(c) \/ WriteDone(c) \/ Cancels(c)

-------------------------------------------------------------------------------
(***************************************************************************)
(* Serve and Close of the client.  Close sets exitError and only then      *)
(* cancels and closes; so does the end of Serve, once it has its result.   *)
(***************************************************************************)
SetClosed == IF exitError = "nil" THEN "closed by user action" ELSE exitError

StartServe ==
    /\ serve = "new" /\ serve' = "serving"
    /\ UNCHANGED <<closer, cancelled, exitError, result, open>>

ServeEnds ==
    /\ serve = "serving" /\ cancelled
    /\ serve' = "closing" /\ result' = exitError
    /\ UNCHANGED <<closer, cancelled, exitError, open>>

ServeCloses ==
    /\ serve = "closing" /\ serve' = "returned"
    /\ exitError' = SetClosed /\ open' = FALSE
    /\ UNCHANGED <<closer, cancelled, result>>

\* Mutant: Close cancels before it says why.
CloseStartsLate ==
    /\ closer = "none" /\ closer' = "set"
    /\ cancelled' = TRUE
    /\ UNCHANGED <<serve, exitError, result, open>>

CloseStarts ==
    /\ closer = "none" /\ closer' = "set"
    /\ exitError' = SetClosed
    /\ UNCHANGED <<serve, cancelled, result, open>>

CloseEnds ==
    /\ closer = "set" /\ closer' = "closed"
    /\ cancelled' = TRUE /\ open' = FALSE
    /\ UNCHANGED <<serve, exitError, result>>

Serves == /\ StartServe \/ ServeEnds \/ ServeCloses
          /\ UNCHANGED <<caller, reply, mem, serverVars, toServer, toClient, written>>

Closes == /\ CloseStarts \/ CloseEnds
          /\ UNCHANGED <<caller, reply, mem, serverVars, toServer, toClient, written>>

Next == \/ \E c \in Callers : CallerStep(c)
        \/ Serves \/ Closes
        \/ CloseListener
        \/ \E k \in Connections : Accept(k) \/ ServeConn(k)

Spec == Init /\ [][Next]_vars

\* Goroutines are scheduled, the application calls Serve, a connection is accepted
\* or refused, and a Close that has begun ends.
FairSpec ==
    /\ Spec
    /\ \A c \in Callers : WF_vars(CallerStep(c)) /\ SF_vars(Lock(c))
    /\ WF_vars(Serves) /\ WF_vars(closer = "set" /\ Closes)
    /\ \A k \in Connections : WF_vars(Accept(k)) /\ WF_vars(ServeConn(k))

-------------------------------------------------------------------------------
\* Where a caller holds the lock, and everywhere a caller can be.
Busy == {"send", "read", "reply", "cancel"}
Pcs == {"lock", "done"} \cup Busy
\* Type correctness; the lock has one holder, and nothing is left to read once
\* it is free: every reply was taken by the transaction it answers.
TypeOK ==
    /\ \A c \in Callers : /\ caller[c].pc \in Pcs
                          /\ caller[c].i \in 1..Len(Work[c])
                          /\ caller[c].err \in Errors
    /\ conns \in [Connections -> {"queued", "served", "closed"}]
    /\ {cancelled, open, listening} \subseteq BOOLEAN
    /\ \A c, d \in Callers : {caller[c].pc, caller[d].pc} \subseteq Busy => c = d
    /\ LockFree /\ open => toClient = << >>

\* Serve never returns before somebody has said why, and then the connection is
\* closed: exitError is set before ctx is cancelled, whoever does it, while calls
\* of Close and transactions race.
ExitReason ==
    /\ cancelled => exitError # "nil"
    /\ serve = "returned" => result # "nil" /\ ~open

(***************************************************************************)
(* Client and server implement Transactions: one server, number 1, that    *)
(* strangers may write to; a caller was told what DoTransaction2 returned. *)
(***************************************************************************)
\* What the requests have to be for that: they fit the buffers, a read asks for as
\* much as one packet holds, and a write is one that MakeRequestHeader makes.
Deployment ==
    \A c \in Callers : \A i \in 1..Len(Work[c]) :
       LET p == Work[c][i]
           fc == GetFunctionCode(p)
       IN  /\ Len(p) <= MaxPDUSize
           /\ IsWriteToServer(fc) => IsRequestHeader(p)
           /\ IsReadToServer(fc) => GetRequestCount(p).count \in 1..MaxPerPacket(fc)

Header(p) ==
    [id |-> 1, fc |-> GetFunctionCode(p), address |-> GetAddress(p),
     count |-> GetRequestCount(p).count]

DecodeRequest(p) ==
    [id |-> 1, fc |-> GetFunctionCode(p), address |-> GetAddress(p),
     count |-> GetRequestCount(p).count, values |-> WrittenValues(p)]

AllRequests == UNION {{Header(Work[c][i]) : i \in 1..Len(Work[c])} : c \in Callers}

Only(x) == [s \in {1} |-> x]

\* The caller whose request is written and whose call has not ended, and what each
\* caller's last call returned.
Waiting == {c \in Callers : caller[c].pc \in {"read", "reply"}}
Told == [c \in Callers |-> caller[c].err]

Abstract == INSTANCE Transactions WITH
    Servers <- {1},
    ServerMemory <- Only(ServerMemory),
    LocalMemory <- Only(LocalMemory),
    Requests <- AllRequests,
    OthersWrite <- (Strangers # {}),
    issued <- [n \in 1..Len(written) |-> DecodeRequest(written[n])],
    waiting <- Waiting,
    told <- Told,
    db <- Only(smem),
    log <- Only(log),
    local <- Only(mem)

\* Client and server together implement Transactions, with several callers, a
\* client that goes on after a failure, and strangers that write to the server,
\* too: a caller whose call returns nil, for a read or a write, had its request
\* executed once, and a read moved the values of that moment; what ends with an
\* error was executed at most once and left the client's copy alone.
ImplementsTransactions == Abstract!Spec

\* Every call returns and, once the client has failed or is closed, so does Serve:
\* nobody waits for a reply, the lock or the handler for good.
AllReturn == /\ <>(\A c \in Callers : caller[c].pc = "done")
             /\ cancelled ~> serve = "returned"
================================================================================
