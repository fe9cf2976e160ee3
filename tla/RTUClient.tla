------------------------------ MODULE RTUClient -------------------------------
(***************************************************************************)
(* RTUClient (rtu_client.go): ServeRTU, the reader goroutine it starts and *)
(* the goroutines that call DoTransactions on it, each for one batch of    *)
(* requests after another (as examples/memory/client.go does for the lines *)
(* it reads).  They meet on the unbuffered channel c.actions: a send and   *)
(* its receive are one step.  So are the send of an answer on errChan and  *)
(* its receive, since the caller does nothing else in between.             *)
(*                                                                         *)
(* A packet carries, beside its bytes, the number txn of the request frame *)
(* it answers (its place in the history variable written); no step of the  *)
(* program depends on it.                                                  *)
(***************************************************************************)
EXTENDS SimpleHandler

CONSTANTS
    Callers,        \* goroutines that run DoTransactions
    Work,           \* the batches of each: sequences of requests [id, pdu]
    LocalMemory,    \* MultiIDHandler: the initial memory behind each slave id
    Faults          \* subset of {"close", "write"}: what may go wrong

HandlerIDs == DOMAIN LocalMemory
Requests == [id : Byte, pdu : Seq(Byte)]

ASSUME WorkAssumption ==
    /\ Work \in [Callers -> Seq(Seq(Requests))]
    /\ \A c \in Callers : /\ Work[c] # << >>
                          /\ \A b \in 1..Len(Work[c]) : Work[c][b] # << >>
    /\ Callers # {}
\* The header of a write is as long as MakeRequestHeader makes it (MakeWriteRequest
\* slices it), and the application's functions return values of their Go types.
IsHeader(p) ==
    /\ IsSingle(GetFunctionCode(p)) => Len(p) >= 3
    /\ GetFunctionCode(p) \in {FcWriteMultipleCoils, FcWriteMultipleRegisters} => Len(p) >= 6
ASSUME HandlerAssumption ==
    /\ \A c \in Callers : \A b \in 1..Len(Work[c]) : \A i \in 1..Len(Work[c][b]) :
          IsHeader(Work[c][b][i].pdu)
    /\ LocalMemory = [id \in HandlerIDs |-> LocalMemory[id]]
    /\ \A id \in HandlerIDs : IsMemory(LocalMemory[id])
ASSUME FaultsAssumption == Faults \subseteq {"close", "write"}

VARIABLES
    caller,     \* of each caller: pc, batch, i (its request) and its last answer
    serve,      \* where ServeRTU is: see ServeStates
    act,        \* the transaction ServeRTU is in: from, id, pdu and fc
    reader,     \* where the reader goroutine is: see ReaderStates
    held,       \* the packet the reader offers on c.actions
    open,       \* the SerialContext is open
    in,         \* packets the packetReader has for the reader
    mem,        \* the memories behind the handlers
    stats,      \* com.Stats(), the counters that ServeRTU increments
    written,    \* history: the frames written to the SerialContext
    taken,      \* history: packets ServeRTU received from the reader
    accepted    \* history: packets that ended a transaction with success

clientVars == <<caller, serve, act, reader, held, open, in, mem, stats,
                written, taken, accepted>>

ServeStates == {"outer", "write", "read", "returned", "panic"}
ReaderStates == {"read", "send", "fail", "done"}
Counters == {"OtherDrops", "IDDrops", "CrcErrors", "OtherErrors"}

RTU == [id : Byte, pdu : Seq(Byte), ok : BOOLEAN]
Packets == [id : Byte, pdu : Seq(Byte), ok : BOOLEAN, txn : Nat]

Tagged(rtu, n) == [id |-> rtu.id, pdu |-> rtu.pdu, ok |-> rtu.ok, txn |-> n]
NoPacket == Tagged(MakeRTU(0, << >>), 0)

ClientInit ==
    /\ caller = [c \in Callers |-> [pc |-> "start", b |-> 1, i |-> 1, err |-> NoErr]]
    /\ serve = "outer"
    /\ act = [from |-> CHOOSE c \in Callers : TRUE,
              id |-> 0, pdu |-> << >>, fc |-> 0]
    /\ reader = "read"
    /\ held = NoPacket
    /\ open = TRUE
    /\ in = << >>
    /\ mem = LocalMemory
    /\ stats = [k \in Counters |-> 0]
    /\ written = << >>
    /\ taken = 0 /\ accepted = 0

-------------------------------------------------------------------------------
(***************************************************************************)
(* The callers: DoTransactions runs its batch in order and returns at the  *)
(* first error.                                                            *)
(***************************************************************************)
Request(c) == Work[c][caller[c].b][caller[c].i]

\* Mutant: a batch ends after one request too many.
AnsweredPastEnd(c, err) ==
    LET w == caller[c]
        returns == err # NoErr \/ w.i > Len(Work[c][w.b])
    IN  IF returns
        THEN [pc |-> IF w.b = Len(Work[c]) THEN "done" ELSE "start",
              b |-> w.b + 1, i |-> 1, err |-> err]
        ELSE [pc |-> "start", b |-> w.b, i |-> w.i + 1, err |-> err]

\* A caller's state once it has received err on its errChan.
Answered(c, err) ==
    LET w == caller[c]
        returns == err # NoErr \/ w.i = Len(Work[c][w.b])
    IN  IF returns
        THEN [pc |-> IF w.b = Len(Work[c]) THEN "done" ELSE "start",
              b |-> w.b + 1, i |-> 1, err |-> err]
        ELSE [pc |-> "start", b |-> w.b, i |-> w.i + 1, err |-> err]

Answer(err) == caller' = [caller EXCEPT ![act.from] = Answered(act.from, err)]

-------------------------------------------------------------------------------
(***************************************************************************)
(* MultiIDHandler.                                                         *)
(***************************************************************************)
MultiOnRead(id, req) ==
    IF id \in HandlerIDs THEN OnRead(mem[id], req)
    ELSE [data |-> << >>, err |-> ErrOther]

MultiOnWrite(id, req, data) ==
    IF id \in HandlerIDs
    THEN LET w == OnWrite(mem[id], req, data)
         IN  [mem |-> [mem EXCEPT ![id] = w.mem], err |-> w.err]
    ELSE [mem |-> mem, err |-> ErrOther]

-------------------------------------------------------------------------------
(***************************************************************************)
(* ServeRTU, outside a transaction.                                        *)
(***************************************************************************)
Return == serve' = "returned" /\ open' = FALSE      \* defer c.Close()

\* A caller's clientStart is taken: for a write the handler is asked for the
\* data, and its error ends the transaction.
Start(c) ==
    LET r == Request(c)
        fc == GetFunctionCode(r.pdu)
        read == MultiOnRead(r.id, r.pdu)
        Begin(p) == /\ serve' = "write"
                    /\ act' = [from |-> c, id |-> r.id, pdu |-> p, fc |-> fc]
                    /\ caller' = [caller EXCEPT ![c].pc = "wait"]
    IN  /\ serve = "outer"
        /\ caller[c].pc = "start"
        /\ \/ ~IsWriteToServer(fc) /\ Begin(r.pdu)
           \/ /\ IsWriteToServer(fc) /\ read.err = NoErr
              /\ Begin(MakeWriteRequest(r.pdu, read.data))
           \/ /\ IsWriteToServer(fc) /\ read.err # NoErr
              /\ caller' = [caller EXCEPT ![c] = Answered(c, read.err)]
              /\ UNCHANGED <<serve, act>>
        /\ UNCHANGED <<reader, held, open, in, mem, stats, written, taken, accepted>>

\* A packet when no transaction is in progress.
DropUnexpected ==
    /\ serve = "outer" /\ reader = "send"
    /\ reader' = "read" /\ held' = NoPacket
    /\ stats' = [stats EXCEPT !.OtherDrops = @ + 1]
    /\ taken' = taken + 1
    /\ UNCHANGED <<caller, serve, act, open, in, mem, written, accepted>>

-------------------------------------------------------------------------------
(***************************************************************************)
(* ServeRTU, writing the request after c.com.MinDelay().                   *)
(***************************************************************************)
\* Mutant: a reply to a multicast is awaited too.
IsMulticastNever == FALSE

IsMulticast == act.id = 0

WriteOk ==
    /\ serve = "write" /\ open
    /\ written' = Append(written, MakeRTU(act.id, act.pdu))
    /\ IF IsMulticast
       THEN Answer(NoErr) /\ serve' = "outer"
       ELSE serve' = "read" /\ UNCHANGED caller
    /\ UNCHANGED <<act, reader, held, open, in, mem, stats, taken, accepted>>

WriteFail ==
    /\ serve = "write"
    /\ ~open \/ "write" \in Faults
    /\ Answer(ErrOther)
    /\ Return
    /\ UNCHANGED <<act, reader, held, in, mem, stats, written, taken, accepted>>

-------------------------------------------------------------------------------
(***************************************************************************)
(* ServeRTU, READ_LOOP.                                                    *)
(***************************************************************************)
EndTransaction(err) == Answer(err) /\ serve' = "outer"

\* Mutant: the timeout is reported as success.
TimeoutSucceeds ==
    /\ serve = "read"
    /\ EndTransaction(NoErr)
    /\ UNCHANGED <<act, reader, held, open, in, mem, stats, written, taken, accepted>>

\* Mutant: the loop is left at the timeout without a word to the caller.
TimeoutUnanswered ==
    /\ serve = "read"
    /\ serve' = "outer"
    /\ UNCHANGED <<caller, act, reader, held, open, in, mem, stats, written, taken, accepted>>

Timeout ==
    /\ serve = "read"
    /\ EndTransaction(ErrServerTimeOut)
    /\ UNCHANGED <<act, reader, held, open, in, mem, stats, written, taken, accepted>>

\* Another caller's clientStart is taken while a reply is awaited: the current
\* caller is given an error and ServeRTU returns; the other one has sent its
\* request and goes on to wait for an answer.
Overlap(c) ==
    /\ serve = "read"
    /\ caller[c].pc = "start"
    /\ caller' = [caller EXCEPT ![act.from] = Answered(act.from, ErrOther),
                                ![c].pc = "wait"]
    /\ Return
    /\ UNCHANGED <<act, reader, held, in, mem, stats, written, taken, accepted>>

\* The reader's clientError is taken in either select; the reader then closes
\* the port too, and ends.
TakeReadError ==
    /\ serve \in {"outer", "read"} /\ reader = "fail"
    /\ reader' = "done"
    /\ Return
    /\ UNCHANGED <<caller, act, held, in, mem, stats, written, taken, accepted>>

\* A packet is taken in READ_LOOP; k names the counter it increments, or "none".
Take(k) ==
    /\ serve = "read" /\ reader = "send"
    /\ reader' = "read" /\ held' = NoPacket
    /\ taken' = taken + 1
    /\ stats' = IF k = "none" THEN stats ELSE [stats EXCEPT ![k] = @ + 1]
    /\ UNCHANGED <<act, in, written>>

SameID == held.id = act.id
Packet == GetPDU(held)
GoodPacket == SameID /\ Packet.err = NoErr
IsException ==
    LET e == SeparateError(GetFunctionCode(Packet.pdu))
    IN  e.hasErr /\ e.fc = act.fc
Matches == IsRequestReply(act.pdu, Packet.pdu)

DropOtherID ==
    /\ ~SameID
    /\ Take("IDDrops")
    /\ UNCHANGED <<caller, serve, open, mem, accepted>>

\* Mutant: break leaves the select and not READ_LOOP.
BadPacketStays ==
    /\ SameID /\ Packet.err # NoErr
    /\ Take(IF Packet.err = ErrorCrc THEN "CrcErrors" ELSE "OtherErrors")
    /\ Answer(Packet.err)
    /\ UNCHANGED <<serve, open, mem, accepted>>

\* Mutant: a packet that fails GetPDU is counted only if its CRC is wrong.
BadPacketUncounted ==
    /\ SameID /\ Packet.err # NoErr
    /\ Take(IF Packet.err = ErrorCrc THEN "CrcErrors" ELSE "none")
    /\ EndTransaction(Packet.err)
    /\ UNCHANGED <<open, mem, accepted>>

BadPacket ==
    /\ SameID /\ Packet.err # NoErr
    /\ Take(IF Packet.err = ErrorCrc THEN "CrcErrors" ELSE "OtherErrors")
    /\ EndTransaction(Packet.err)
    /\ UNCHANGED <<open, mem, accepted>>

\* The error wraps the server's code; it is an error whatever the code is.
ServerError(ec) == IF ec = 0 THEN ErrOther ELSE ec

\* MultiIDHandler.OnError, for an id it has no handler for.
OnErrorPanics == act.id \notin HandlerIDs

ExceptionReply ==
    /\ GoodPacket /\ IsException
    /\ Take("OtherErrors")
    /\ IF OnErrorPanics
       THEN serve' = "panic" /\ open' = FALSE /\ UNCHANGED caller
       ELSE EndTransaction(ServerError(Packet.pdu[2])) /\ UNCHANGED open
    /\ UNCHANGED <<mem, accepted>>

UnexpectedReply ==
    /\ GoodPacket /\ ~IsException /\ ~Matches
    /\ Take("OtherErrors")
    /\ EndTransaction(ErrOther)
    /\ UNCHANGED <<open, mem, accepted>>

\* The reply to a read: its values are given to the handler.
ReadReply ==
    LET bs == GetReplyValues(Packet.pdu)
        w == IF bs.err = NoErr THEN MultiOnWrite(act.id, act.pdu, bs.data)
             ELSE [mem |-> mem, err |-> bs.err]
    IN  /\ GoodPacket /\ ~IsException /\ Matches
        /\ IsReadToServer(act.fc)
        /\ Take(IF w.err = NoErr THEN "none" ELSE "OtherErrors")
        /\ mem' = w.mem
        /\ accepted' = accepted + (IF w.err = NoErr THEN 1 ELSE 0)
        /\ EndTransaction(w.err)
        /\ UNCHANGED open

WriteReply ==
    /\ GoodPacket /\ ~IsException /\ Matches
    /\ ~IsReadToServer(act.fc)
    /\ Take("none")
    /\ accepted' = accepted + 1
    /\ EndTransaction(NoErr)
    /\ UNCHANGED <<open, mem>>

-------------------------------------------------------------------------------
(***************************************************************************)
(* The reader goroutine.  A closed port makes Read fail; packets already   *)
(* buffered may be returned first.                                         *)
(***************************************************************************)
ReaderRead ==
    /\ reader = "read" /\ in # << >>
    /\ reader' = "send"
    /\ held' = Head(in)
    /\ in' = Tail(in)
    /\ UNCHANGED <<caller, serve, act, open, mem, stats, written, taken, accepted>>

\* Mutant: the reader ends without sending its clientError.
ReaderFailSilent ==
    /\ reader = "read" /\ ~open
    /\ reader' = "done"
    /\ UNCHANGED <<caller, serve, act, held, open, in, mem, stats, written, taken, accepted>>

ReaderFail ==
    /\ reader = "read" /\ ~open
    /\ reader' = "fail"
    /\ UNCHANGED <<caller, serve, act, held, open, in, mem, stats, written, taken, accepted>>

\* Close called by another goroutine, or the port failing under the client.
ClosePort ==
    /\ "close" \in Faults
    /\ open /\ open' = FALSE
    /\ UNCHANGED <<caller, serve, act, reader, held, in, mem, stats, written, taken, accepted>>

-------------------------------------------------------------------------------
TakePacket ==
    \/ DropUnexpected \/ DropOtherID \/ BadPacket \/ ExceptionReply
    \/ UnexpectedReply \/ ReadReply \/ WriteReply

ServeStep ==
    \/ \E c \in Callers : Start(c) \/ Overlap(c)
    \/ WriteOk \/ WriteFail \/ Timeout \/ TakeReadError \/ TakePacket

ReaderStep == ReaderRead \/ ReaderFail

ClientNext == ServeStep \/ ReaderStep \/ ClosePort

\* The port has one packet more for the reader.
Delivers(f) ==
    /\ in' = Append(in, f)
    /\ UNCHANGED <<caller, serve, act, reader, held, open, mem, stats, written, taken,
                   accepted>>

\* The client on a port that delivers any packet at any time: what holds here holds
\* on every port.
AnyPortNext == ClientNext \/ \E f \in Packets : Delivers(f)
AnyPortSpec == ClientInit /\ [][AnyPortNext]_clientVars

-------------------------------------------------------------------------------
Serving == serve \in {"outer", "write", "read"}
Stopped == serve \in {"returned", "panic"}

\* The control states of the three kinds of goroutine, every caller's place
\* within its work, the counters, and the packets on their way in.
CallerStates == [pc : {"start", "wait", "done"}, b : Nat, i : Nat, err : Errors]
CallerOK(c, w) ==
    /\ w \in CallerStates
    /\ w.pc # "done" => /\ w.b \in 1..Len(Work[c])
                        /\ w.i \in 1..Len(Work[c][w.b])
ControlOK ==
    /\ caller \in [Callers -> CallerStates]
    /\ \A c \in Callers : CallerOK(c, caller[c])
    /\ serve \in ServeStates
    /\ act.from \in Callers
    /\ reader \in ReaderStates
    /\ held \in Packets /\ in \in Seq(Packets)
    /\ open \in BOOLEAN
    /\ DOMAIN mem = HandlerIDs
    /\ stats \in [Counters -> Nat]
    /\ taken \in Nat /\ accepted \in Nat

\* Type correctness: the control, the bytes the client puts on the wire, and the
\* values it leaves with its handlers.
Transacts == [from : Callers, id : Byte, pdu : Seq(Byte), fc : Byte]
ClientTypeOK ==
    /\ ControlOK
    /\ act \in Transacts
    /\ written \in Seq(RTU)
    /\ \A id \in HandlerIDs : IsMemory(mem[id])

\* While ServeRTU runs, a caller waits for an answer exactly when it is the one
\* whose transaction is in progress: every path out of a transaction answers
\* its errChan, and no request is taken before the one before it is answered.
\* The reply awaited is to that caller's current request, and that request is
\* the last frame on the wire.
OneTransaction ==
    /\ Serving => \A c \in Callers :
                     caller[c].pc = "wait" <=> serve # "outer" /\ c = act.from
    /\ serve \in {"write", "read"} =>
          /\ act.id = Request(act.from).id
          /\ act.fc = GetFunctionCode(Request(act.from).pdu)
    /\ serve = "read" =>
          /\ written # << >>
          /\ written[Len(written)] = MakeRTU(act.id, act.pdu)
          /\ ~IsMulticast

\* serial.go:104 "TotalDrops adds up all the errors for the total number of
\* read packets dropped": every packet taken from the reader has either ended a
\* transaction with success or been counted, once, whichever branch of the loop
\* took it.
DropsAccounted ==
    taken = accepted + stats["OtherDrops"] + stats["IDDrops"]
                     + stats["CrcErrors"] + stats["OtherErrors"]

\* A caller that waits is answered, by a reply, an error or the timeout, unless
\* ServeRTU stops: no path through the loops forgets the transaction.
WaitersAnswered ==
    \A c \in Callers : (caller[c].pc = "wait") ~> (caller[c].pc # "wait" \/ Stopped)

\* Close, from any goroutine and at any point of a transaction, makes ServeRTU
\* return: through the reader's clientError or through a failing Write.
CloseStopsServe == (~open) ~> Stopped

\* rtu_client.go:281 "errChan is required, an error is set is the transaction
\* failed, or nil for success": once ServeRTU has returned nobody sends on an
\* errChan any more, so no caller may still be waiting for its answer.
EveryTransactionAnswered ==
    serve = "returned" => \A c \in Callers : caller[c].pc # "wait"

\* rtu_client.go:121 "This should never happen since req must be valid when
\* sent": MultiIDHandler.OnError never meets a request to an id it has no
\* handler for.
NeverPanics == serve # "panic"
===============================================================================
