------------------------------- MODULE RTUServer ------------------------------
(***************************************************************************)
(* RTUServer (rtu_server.go): one Serve loop for each of several servers,  *)
(* each with a SimpleHandler over its own memory.  A server's name is its  *)
(* SlaveID.  Between handling a request and writing the reply the loop     *)
(* sleeps; packets that arrive meanwhile wait in its inbox.                *)
(***************************************************************************)
EXTENDS Handling

CONSTANTS
    Servers,        \* the SlaveIDs served
    ServerMemory,   \* the initial memory of each
    ServersMayStop  \* whether a server's SerialContext may fail

ASSUME ServersAssumption == /\ Servers \subseteq 1..247
                            /\ ServerMemory = [s \in Servers |-> ServerMemory[s]]
                            /\ \A s \in Servers : IsMemory(ServerMemory[s])
                            /\ ServersMayStop \in BOOLEAN

VARIABLES
    inbox,      \* packets each server's packetReader has for it
    srv,        \* where each loop is: "read", "reply" or "stopped"
    rsp,        \* the reply a server in "reply" is about to write
    smem,       \* the memory behind each handler
    sstats,     \* com.Stats() of each server
    log         \* history: what each server executed: [txn, ok, values]

serverVars == <<inbox, srv, rsp, smem, sstats, log>>

ServerCounters == {"IDDrops", "CrcErrors", "OtherErrors"}
NoReply == << >>

ServerInit ==
    /\ inbox = [s \in Servers |-> << >>]
    /\ srv = [s \in Servers |-> "read"]
    /\ rsp = [s \in Servers |-> NoReply]
    /\ smem = ServerMemory
    /\ sstats = [s \in Servers |-> [k \in ServerCounters |-> 0]]
    /\ log = [s \in Servers |-> << >>]

CountError(s, k) == sstats' = [sstats EXCEPT ![s][k] = @ + 1]

(***************************************************************************)
(* The loop.                                                               *)
(***************************************************************************)
ReadPacket(s) ==
    /\ srv[s] = "read" /\ inbox[s] # << >>
    /\ inbox' = [inbox EXCEPT ![s] = Tail(@)]

ServerDrop(s) ==
    LET r == Head(inbox[s])
        err == GetPDU(r).err
    IN  /\ ReadPacket(s)
        /\ \/ err = ErrorCrc /\ CountError(s, "CrcErrors")
           \/ err \notin {ErrorCrc, NoErr} /\ CountError(s, "OtherErrors")
           \/ err = NoErr /\ r.id \notin {0, s} /\ CountError(s, "IDDrops")
        /\ UNCHANGED <<srv, rsp, smem, log>>

\* Mutant: a multicast is replied to.
ServerHandleReplies(s) ==
    LET r == Head(inbox[s])
        h == Handle(smem[s], r.pdu)
    IN  /\ ReadPacket(s)
        /\ GetPDU(r).err = NoErr /\ r.id \in {0, s}
        /\ smem' = [smem EXCEPT ![s] = h.mem]
        /\ IF h.err = NoErr THEN UNCHANGED sstats ELSE CountError(s, "OtherErrors")
        /\ log' = [log EXCEPT ![s] = Append(@, Execution(r, h.reply))]
        /\ srv' = [srv EXCEPT ![s] = "reply"]
        /\ rsp' = [rsp EXCEPT ![s] = h.reply]

\* A multicast is executed and not replied to.
ServerHandle(s) ==
    LET r == Head(inbox[s])
        h == Handle(smem[s], r.pdu)
    IN  /\ ReadPacket(s)
        /\ GetPDU(r).err = NoErr /\ r.id \in {0, s}
        /\ smem' = [smem EXCEPT ![s] = h.mem]
        /\ IF h.err = NoErr THEN UNCHANGED sstats ELSE CountError(s, "OtherErrors")
        /\ log' = [log EXCEPT ![s] = Append(@, Execution(r, h.reply))]
        /\ IF r.id = 0 THEN UNCHANGED <<srv, rsp>>
           ELSE /\ srv' = [srv EXCEPT ![s] = "reply"]
                /\ rsp' = [rsp EXCEPT ![s] = h.reply]

ReplyFrame(s) ==
    [id |-> s, pdu |-> rsp[s], ok |-> TRUE, txn |-> log[s][Len(log[s])].txn]

\* The reply is written; where it goes is up to the bus.
ServerReply(s) ==
    /\ srv[s] = "reply"
    /\ srv' = [srv EXCEPT ![s] = "read"]
    /\ rsp' = [rsp EXCEPT ![s] = NoReply]
    /\ UNCHANGED <<smem, sstats, log>>

\* Serve returns when Read or Write fails, perhaps between handling a request
\* and replying to it, and closes the port.
ServerStop(s) ==
    /\ ServersMayStop
    /\ srv[s] # "stopped"
    /\ srv' = [srv EXCEPT ![s] = "stopped"]
    /\ rsp' = [rsp EXCEPT ![s] = NoReply]
    /\ inbox' = [inbox EXCEPT ![s] = << >>]
    /\ UNCHANGED <<smem, sstats, log>>
===============================================================================
