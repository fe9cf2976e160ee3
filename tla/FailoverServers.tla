---------------------------- MODULE FailoverServers ----------------------------
(***************************************************************************)
(* Two RTUServers with the same SlaveID on one bus, a primary and its      *)
(* failover, each behind a FailoverSerialConn, and the client they serve.  *)
(* Everybody hears everybody.  A server may stop at any point, with its    *)
(* application, and start again from nothing.  A request to another id is  *)
(* one to a third server, that is off.                                     *)
(*                                                                         *)
(* The delays are those that the code asks for: the primary replies within *)
(* SecondaryDelay, the failover within MissDelay, and the client waits for *)
(* longer than MissDelay before it gives up.  Nothing on the bus is lost.  *)
(***************************************************************************)
EXTENDS FailoverConn, Handling

CONSTANTS
    SlaveID,
    Requests,       \* the frames the client may send: [id, pdu, ok]
    InitialMemory,  \* the application's memory when it starts
    Memories,       \* the memories that the application may come to have
    Pdus,           \* what may be heard: the requests, and replies to what is heard
    ForcesBack,     \* whether PrimaryForceBackDelay may end at any time, and not
                    \* only while the failover is passive and the bus is quiet
    StartsEarly,    \* whether the primary may start while the failover is at a
                    \* request or counts misses
    MaxStops,       \* bound: how often a server stops
    MaxQueue        \* bound: packets of a server's that wait to be read

ASSUME FailoverAssumption ==
    /\ SlaveID \in 1..247
    /\ Requests \subseteq [id : 0..247, pdu : Seq(Byte), ok : {TRUE}]
    /\ {ForcesBack, StartsEarly} \subseteq BOOLEAN
    /\ {MaxStops, MaxQueue} \subseteq Nat
    /\ InitialMemory \in Memories
    /\ Pdus \subseteq {p \in Seq(Byte) : Len(p) + 3 >= smallestRTUSize}
    /\ \A f \in Requests : f.pdu \in Pdus
    /\ \A m \in Memories, p \in Pdus :
          Handle(m, p).mem \in Memories /\ Handle(m, p).reply \in Pdus

VARIABLES
    conn,       \* the FailoverSerialConn of each server
    loop,       \* where each Serve is: "read", "reply", "sleep" or "down"
    inbox,      \* the packets that wait to be read; isReply is history
    rsp,        \* the reply a server is about to write
    smem,       \* the memory of each application
    client,     \* "idle" or "wait"
    asked,      \* the client's last request
    in,         \* the packets that wait for the client
    stops,      \* how often a server has stopped
    answered,   \* history: the last transaction succeeded
    voices,     \* history: the servers that replied to the last request
    truth,      \* history: the memory of a server that never stopped
    fresh       \* history: the servers that have missed nothing

vars == <<conn, loop, inbox, rsp, smem, client, asked, in, stops, answered, voices,
          truth, fresh>>
clientVars == <<client, asked, in, answered>>
histories == <<truth, fresh>>

Primary == "primary"
Failover == "failover"
Nodes == {Primary, Failover}
Up(s) == loop[s] # "down"

Init ==
    /\ conn = [s \in Nodes |-> NewFailoverConn(s = Failover)]
    /\ loop = [s \in Nodes |-> "read"]
    /\ inbox = [s \in Nodes |-> << >>]
    /\ rsp = [s \in Nodes |-> << >>]
    /\ smem = [s \in Nodes |-> InitialMemory]
    /\ client = "idle" /\ asked = MakeRTU(0, << >>) /\ in = << >>
    /\ stops = 0 /\ answered = FALSE /\ voices = {}
    /\ truth = InitialMemory /\ fresh = Nodes

Packet(f, isReply) == [id |-> f.id, pdu |-> f.pdu, ok |-> f.ok, isReply |-> isReply]

Hear(nodes, p) ==
    inbox' = [s \in Nodes |->
                IF s \in nodes /\ Up(s) THEN Append(inbox[s], p) ELSE inbox[s]]

-------------------------------------------------------------------------------
(***************************************************************************)
(* The client and the clock.                                               *)
(***************************************************************************)
Send(f) ==
    /\ client = "idle"
    /\ \A s \in Nodes : Len(inbox[s]) < MaxQueue
    /\ client' = IF f.id = 0 THEN "idle" ELSE "wait"
    /\ asked' = f
    /\ Hear(Nodes, Packet(f, FALSE))
    /\ truth' = IF f.id \in {0, SlaveID} THEN Handle(truth, f.pdu).mem ELSE truth
    /\ voices' = {}
    /\ UNCHANGED <<conn, loop, rsp, smem, in, stops, answered, fresh>>

\* The first packet ends a transaction; one that nobody waits for is dumped.
Receive ==
    /\ in # << >>
    /\ in' = Tail(in)
    /\ client' = "idle"
    /\ answered' = IF client = "wait" THEN IsRequestReply(asked.pdu, Head(in).pdu)
                   ELSE answered
    /\ UNCHANGED <<conn, loop, inbox, rsp, smem, asked, stops, voices, histories>>

Quiet == /\ \A s \in Nodes : inbox[s] = << >> /\ loop[s] \in {"read", "down"}
         /\ in = << >>

Passes(Later(_)) ==
    conn' = [s \in Nodes |-> IF Up(s) THEN Later(conn[s]) ELSE conn[s]]

GiveUp ==
    /\ client = "wait" /\ Quiet
    /\ client' = "idle" /\ answered' = FALSE
    /\ Passes(MissDelayPasses)
    /\ UNCHANGED <<loop, inbox, rsp, smem, asked, in, stops, voices, histories>>

\* The client has nothing to ask, for a short or for a long while.
Rest ==
    /\ client = "idle" /\ Quiet
    /\ Passes(MissDelayPasses) \/ Passes(PrimaryDisconnectDelayPasses)
    /\ UNCHANGED <<loop, inbox, rsp, smem, clientVars, stops, voices, histories>>

\* A primary that is forced back while its failover is active makes two of them,
\* and one that is forced back by a reply executes it.  While the primary is
\* active startTime is not asked for.
ForceBack ==
    /\ Up(Primary) /\ ~conn[Primary].isActive
    /\ ForcesBack \/ (Quiet /\ ~conn[Failover].isActive)
    /\ Passes(PrimaryForceBackDelayPasses)
    /\ UNCHANGED <<loop, inbox, rsp, smem, clientVars, stops, voices, histories>>

-------------------------------------------------------------------------------
(***************************************************************************)
(* RTUServer.Serve over a FailoverSerialConn.                              *)
(***************************************************************************)
ReadAndHandle(s) ==
    /\ loop[s] = "read" /\ inbox[s] # << >>
    /\ \E f \in {Head(inbox[s])} :
       \E r \in {serverRead(conn[s], f)}, h \in {Handle(smem[s], f.pdu)} :
          /\ inbox' = [inbox EXCEPT ![s] = Tail(@)]
          /\ conn' = [conn EXCEPT ![s] = r.conn]
          /\ IF r.returns /\ GetPDU(f).err = NoErr /\ f.id \in {0, SlaveID}
             THEN /\ smem' = [smem EXCEPT ![s] = h.mem]
                  /\ IF f.id = 0 THEN UNCHANGED <<loop, rsp>>
                     ELSE /\ loop' = [loop EXCEPT ![s] = "reply"]
                          /\ rsp' = [rsp EXCEPT ![s] = h.reply]
             ELSE UNCHANGED <<smem, loop, rsp>>
    /\ UNCHANGED <<clientVars, stops, voices, histories>>

\* The end of Write.
WriteNow(s) ==
    LET f == MakeRTU(SlaveID, rsp[s])
    IN  /\ conn' = [conn EXCEPT ![s] = serverWrite(@)]
        /\ loop' = [loop EXCEPT ![s] = "read"]
        /\ rsp' = [rsp EXCEPT ![s] = << >>]
        /\ IF conn[s].isActive
           THEN /\ Hear(Nodes \ {s}, Packet(f, TRUE))
                /\ in' = Append(in, f)
                /\ voices' = voices \cup {s}
           ELSE UNCHANGED <<inbox, in, voices>>
        /\ UNCHANGED <<smem, client, asked, answered, stops, histories>>

Write(s) == loop[s] = "reply" /\ ~SleepsBeforeWrite(conn[s]) /\ WriteNow(s)

Sleep(s) ==
    /\ loop[s] = "reply" /\ SleepsBeforeWrite(conn[s])
    /\ loop' = [loop EXCEPT ![s] = "sleep"]
    /\ UNCHANGED <<conn, inbox, rsp, smem, clientVars, stops, voices, histories>>

\* After SecondaryDelay the primary has done what it does.
WakeUp(s) ==
    /\ loop[s] = "sleep"
    /\ loop[Primary] \in {"read", "down"} /\ inbox[Primary] = << >>
    /\ WriteNow(s)

\* The process ends, with all that it keeps; nothing else survives it.
Stop(s) ==
    /\ Up(s) /\ stops < MaxStops
    /\ stops' = stops + 1
    /\ loop' = [loop EXCEPT ![s] = "down"]
    /\ inbox' = [inbox EXCEPT ![s] = << >>]
    /\ rsp' = [rsp EXCEPT ![s] = << >>]
    /\ conn' = [conn EXCEPT ![s] = NewFailoverConn(s = Failover)]
    /\ smem' = [smem EXCEPT ![s] = InitialMemory]
    /\ fresh' = fresh \ {s}
    /\ UNCHANGED <<clientVars, voices, truth>>

\* A primary that starts while its failover is counting misses may become active
\* with the same request as the failover, or sooner.
MayStart(s) ==
    s = Primary => \/ StartsEarly \/ ~Up(Failover) \/ conn[Failover].isActive
                   \/ conn[Failover].misses = 0 /\ inbox[Failover] = << >>

Start(s) ==
    /\ ~Up(s) /\ MayStart(s)
    /\ loop' = [loop EXCEPT ![s] = "read"]
    /\ UNCHANGED <<conn, inbox, rsp, smem, clientVars, stops, voices, histories>>

ServerStep(s) == ReadAndHandle(s) \/ Write(s) \/ Sleep(s) \/ WakeUp(s)

Next == \/ \E f \in Requests : Send(f)
        \/ Receive \/ GiveUp \/ Rest \/ ForceBack
        \/ \E s \in Nodes : ServerStep(s) \/ Stop(s) \/ Start(s)

Spec == Init /\ [][Next]_vars

\* A server that is up works, and the client goes on asking.
FairSpec ==
    /\ Spec
    /\ \A s \in Nodes : WF_vars(ServerStep(s))
    /\ WF_vars(Receive) /\ WF_vars(GiveUp)
    /\ SF_vars(\E f \in Requests : f.id # 0 /\ Send(f))

-------------------------------------------------------------------------------
\* Type correctness; only a failover sleeps, and only a server that is up has
\* anything to read or to write.
TypeOK ==
    /\ conn \in [Nodes -> Conns]
    /\ loop \in [Nodes -> {"read", "reply", "sleep", "down"}]
    /\ loop[Primary] # "sleep"
    /\ \A s \in Nodes : /\ conn[s].isFailover = (s = Failover)
                        /\ conn[s].misses <= MissesMax(conn[s]) + 1
                        /\ loop[s] = "down" => inbox[s] = << >> /\ rsp[s] = << >>
    /\ client \in {"idle", "wait"}
    /\ DOMAIN smem = Nodes

\* A deployment in which the failover can tell that the primary works: it waits
\* for two requests more than the primary, the primary is not started while the
\* failover counts misses nor forced back while it is active, and the client asks
\* for nothing but what the application serves (neither an exception nor silence is
\* a reply to IsRequestReply, so that each such request counts as a miss).
Deployment ==
    /\ ~ForcesBack /\ ~StartsEarly
    /\ \A f \in Requests : f.id \in {0, SlaveID}
    /\ PrimaryMissesMax >= 1 /\ FailoverMissesMax >= PrimaryMissesMax + 2
    /\ \A m \in Memories, f \in Requests :
          f.id # 0 => IsRequestReply(f.pdu, Handle(m, f.pdu).reply)

\* To the client the two are a single device: never do both answer a request.
OneReply == voices # Nodes

\* The failover stays quiet until the primary fails: never do both answer a
\* request, and never are both active, although either may stop at any point.  A
\* stopped primary comes back while the failover is down, is active, or has heard no
\* miss; started or forced back at another time it breaks OneReply, as does an
\* application that refuses requests.
OneVoice ==
    /\ OneReply
    /\ \E s \in Nodes : ~conn[s].isActive

\* The standby stays in sync for a hot switch over: active or passive, a server
\* that has heard all that was sent has executed all of it and nothing else.
StandbyInSync ==
    \A s \in fresh : inbox[s] = << >> => smem[s] = truth

\* Once a server stays up and the broadcasts end, the client is answered again and
\* again, by the primary or by the failover: neither waits for the other for good.
\* (A broadcast between two requests makes both forget the first of them.)
SomebodyAnswers ==
    (\E s \in Nodes : []<>Up(s)) /\ <>[](asked.id # 0) => []<>answered
================================================================================
