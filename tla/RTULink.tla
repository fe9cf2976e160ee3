-------------------------------- MODULE RTULink -------------------------------
(***************************************************************************)
(* One RTUClient and several RTUServers on one serial bus.  Every server   *)
(* hears the client; with TwoWire the servers hear each other too.  The    *)
(* bus keeps the order of packets and may lose any of them, at any of the  *)
(* receivers (a damaged packet is dropped by the receiver's packetReader,  *)
(* which is the same).                                                     *)
(***************************************************************************)
EXTENDS RTUClient, RTUServer

CONSTANTS
    TwoWire,    \* Option.TwoWire
    Lossy,      \* whether the bus loses packets
    Timely      \* the client's timeout is longer than a server can take

ASSUME LinkAssumption == {TwoWire, Lossy, Timely} \subseteq BOOLEAN

\* What the callers' requests have to be for the link to keep its promise: they
\* are made by MakeRequestHeader.
Deployment ==
    \A c \in Callers : \A b \in 1..Len(Work[c]) : \A i \in 1..Len(Work[c][b]) :
       IsRequestHeader(Work[c][b][i].pdu)

vars == <<clientVars, serverVars>>

Init == ClientInit /\ ServerInit

\* What the servers in hear have in their inboxes after f is on the bus: those
\* in got receive it, all of them unless the bus is lossy.
Bus(hear, f) ==
    \E got \in IF Lossy THEN SUBSET hear ELSE {hear} :
       inbox' = [s \in Servers |->
                   IF s \in got /\ srv[s] # "stopped" THEN Append(inbox[s], f)
                   ELSE inbox[s]]

ClientWrites ==
    /\ WriteOk
    /\ Bus(Servers, Tagged(written'[Len(written')], Len(written')))
    /\ UNCHANGED <<srv, rsp, smem, sstats, log>>

ServerWrites(s) ==
    /\ ServerReply(s)
    /\ Bus(IF TwoWire THEN Servers \ {s} ELSE {}, ReplyFrame(s))
    /\ \/ in' = Append(in, ReplyFrame(s))
       \/ Lossy /\ UNCHANGED in
    /\ UNCHANGED <<caller, serve, act, reader, held, open, mem, stats, written,
                   taken, accepted>>

\* No packet is on its way to or from the client and no server is at work.
Quiet == /\ \A s \in Servers : inbox[s] = << >> /\ srv[s] # "reply"
         /\ in = << >> /\ reader # "send"

TimesOut == /\ Timely => Quiet
            /\ Timeout
            /\ UNCHANGED serverVars

\* The steps of ServeRTU that neither write a frame nor wait for the timer.
Serves == /\ \/ \E c \in Callers : Start(c) \/ Overlap(c)
             \/ WriteFail \/ TakeReadError \/ TakePacket
          /\ UNCHANGED serverVars

Reads == ReaderStep /\ UNCHANGED serverVars

Closes == ClosePort /\ UNCHANGED serverVars

ServerWorks(s) ==
    /\ ServerDrop(s) \/ ServerHandle(s)
    /\ UNCHANGED clientVars

ServerStops(s) == ServerStop(s) /\ UNCHANGED clientVars

Next == \/ ClientWrites \/ TimesOut \/ Serves \/ Reads \/ Closes
        \/ \E s \in Servers : ServerWorks(s) \/ ServerWrites(s) \/ ServerStops(s)

Spec == Init /\ [][Next]_vars

\* Goroutines are scheduled and timers fire; a server that has not stopped works
\* through its inbox.
Fairness ==
    /\ WF_vars(ClientWrites \/ TimesOut \/ Serves)
    /\ WF_vars(Reads)
    /\ \A s \in Servers : WF_vars(ServerWorks(s) \/ ServerWrites(s))

FairSpec == Spec /\ Fairness

-------------------------------------------------------------------------------
(***************************************************************************)
(* The link implements Transactions: bytes are decoded to the values they  *)
(* carry, and a caller was told what came last on its errChan.             *)
(***************************************************************************)
DecodeRequest(f) ==
    [id |-> f.id, fc |-> GetFunctionCode(f.pdu), address |-> GetAddress(f.pdu),
     count |-> GetRequestCount(f.pdu).count, values |-> WrittenValues(f.pdu)]

AllRequests ==
    UNION {UNION {{LET r == Work[c][b][i]
                   IN  [id |-> r.id, fc |-> GetFunctionCode(r.pdu),
                        address |-> GetAddress(r.pdu),
                        count |-> GetRequestCount(r.pdu).count]
                   : i \in 1..Len(Work[c][b])}
                  : b \in 1..Len(Work[c])}
           : c \in Callers}

\* The caller whose request is on the wire and who has no answer yet; it keeps
\* waiting when ServeRTU ends without one.
Waiting == {c \in Callers : c = act.from /\ serve # "write" /\ caller[c].pc = "wait"}

\* What each caller received last on its errChan.
Told == [c \in Callers |-> caller[c].err]

Abstract == INSTANCE Transactions WITH
    Requests <- AllRequests,
    OthersWrite <- FALSE,
    issued <- [n \in 1..Len(written) |-> DecodeRequest(written[n])],
    waiting <- Waiting,
    told <- Told,
    db <- smem,
    local <- mem

\* The client and the servers together implement Transactions: a caller that is
\* told nil, for a read or a write, had its request executed exactly once, by the
\* server it addressed and while it waited, and a read moved the values of that
\* moment; a request that ends with an error was executed at most once and left the
\* client's copy alone.  The timeout has to be longer than the servers can take.
ImplementsTransactions == Abstract!Spec

\* With a timeout longer than the servers can take, no reply is ever in the
\* client's hands outside the transaction it answers: what the reader dumps or
\* offers always belongs to the request that is waiting.
NoStaleReply ==
    Serving =>
       \A p \in {in[k] : k \in 1..Len(in)}
                \cup (IF reader = "send" THEN {held} ELSE {}) :
          serve = "read" /\ p.txn = Len(written)

\* On a bus that loses nothing, with servers that stay up and have what they are
\* asked for, every transaction of a lone caller succeeds: the reader, ServeRTU,
\* the servers and the timer never wait on each other for good, and nothing
\* dumps a reply that is awaited.
AllSucceed ==
    \A c \in Callers : [](caller[c].err = NoErr) /\ <>(caller[c].pc = "done")
===============================================================================
