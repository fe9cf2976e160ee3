---------------------------- MODULE FailoverClients ----------------------------
(***************************************************************************)
(* Two FailoverRTUClients (failover_rtu_client.go), a primary and its      *)
(* failover, that ask the same server over one bus, each behind a          *)
(* FailoverSerialConn of its own.  Everybody hears the clients, and both   *)
(* clients hear the server.                                                *)
(*                                                                         *)
(* Both applications poll at the same pace: in a round each of them runs   *)
(* one transaction, in either order, and a round begins when the bus is    *)
(* quiet.  (A client that polls faster than its twin would take silence    *)
(* for a failure.)  That both ask at once is a fault, as are a port that   *)
(* is closed, a packet with an error and a server that is slow or off.     *)
(* What is sent is not lost, and a transaction times out only when nothing *)
(* is on its way.                                                          *)
(***************************************************************************)
EXTENDS FailoverConn, Handling

CONSTANTS
    SlaveID,
    Requests,       \* what the applications ask in a round: frames [id, pdu, ok]
    Others,         \* and what they ask out of turn
    LocalMemory,    \* the memory of a client's application when it starts
    ServerMemories, \* the memories the server's application may have
    MaxFaults       \* bound: faults of any kind

ASSUME FailoverClientsAssumption ==
    /\ SlaveID \in 1..247
    /\ Requests \cup Others \subseteq [id : {0, SlaveID}, pdu : Seq(Byte), ok : {TRUE}]
    /\ MaxFaults \in Nat

VARIABLES
    cl,         \* the clients: [conn, closed, inbox, reader, actions, serve, act,
                \* last, mem, calls]
    polled,     \* the clients that were given a transaction in this round
    up,         \* the server is up
    toServer,   \* the packets on their way to it
    faults,     \* how many faults there were
    truth,      \* history: what all the replies of the server, in order, say
    fresh       \* history: the clients that no packet escaped, and that never asked
                \* while something else was on its way

vars == <<cl, polled, up, toServer, faults, truth, fresh>>
serverVars == <<up, truth>>

Primary == "primary"
Failover == "failover"
Nodes == {Primary, Failover}
Running(n) == cl[n].serve # "ended"

\* A client that has been created and whose Serve runs.  actions holds what is
\* being sent on the unbuffered channel, in the order in which it will be received.
NewClient(n) ==
    [conn |-> NewFailoverConn(n = Failover), closed |-> FALSE, inbox |-> << >>,
     reader |-> "reading", actions |-> << >>, serve |-> "actions",
     act |-> MakeRTU(0, << >>), last |-> << >>, mem |-> LocalMemory, calls |-> 0]

Init ==
    /\ cl = [n \in Nodes |-> NewClient(n)]
    /\ polled = {}
    /\ up = TRUE /\ toServer = << >>
    /\ faults = 0
    /\ truth = LocalMemory /\ fresh = Nodes

Becomes(n, c) == \E d \in {c} : cl' = [cl EXCEPT ![n] = d]

Sending(t, f) == [t |-> t, data |-> f]
Action(c) == Head(c.actions)
Offers(n, t) == cl[n].actions # << >> /\ Action(cl[n]).t = t
Received(c) == [c EXCEPT !.actions = Tail(@)]
Ended(c) == [c EXCEPT !.serve = "ended", !.closed = TRUE, !.inbox = << >>]
Answered(c) == [c EXCEPT !.serve = "actions", !.calls = @ - 1,
                         !.act = MakeRTU(0, << >>)]

Hears(c, f) == IF c.closed THEN c ELSE [c EXCEPT !.inbox = Append(@, f)]

-------------------------------------------------------------------------------
(***************************************************************************)
(* The reader goroutine: Read of the connection, and the packet or the     *)
(* error is sent on the channel.  An invalid packet is an error.           *)
(***************************************************************************)
ReaderRead(n) ==
    LET c == cl[n]
        f == Head(c.inbox)
        t == IF GetPDU(f).err = NoErr THEN "clientRead" ELSE "clientError"
    IN  /\ c.reader = "reading" /\ c.inbox # << >>
        /\ Becomes(n, [c EXCEPT !.inbox = Tail(@), !.conn = clientRead(@, f),
                                !.reader = "sending",
                                !.actions = Append(@, Sending(t, f))])
        /\ UNCHANGED <<polled, serverVars, toServer, faults, fresh>>

ReaderFail(n) ==
    LET c == cl[n]
    IN  /\ c.reader = "reading" /\ c.closed
        /\ Becomes(n, [c EXCEPT !.reader = "sending",
                         !.actions = Append(@, Sending("clientError", MakeRTU(0, << >>)))])
        /\ UNCHANGED <<polled, serverVars, toServer, faults, fresh>>

\* The reader goes on once its packet is received.
TakesPacket(c) == [Received(c) EXCEPT !.reader = "reading"]

\* The error ends both goroutines.
ServeError(n) ==
    LET c == cl[n]
    IN  /\ c.serve \in {"actions", "reply"}
        /\ Offers(n, "clientError")
        /\ Becomes(n, [Ended(Received(c)) EXCEPT !.reader = "ended"])
        /\ UNCHANGED <<polled, serverVars, toServer, faults, fresh>>

-------------------------------------------------------------------------------
(***************************************************************************)
(* Serve: a packet that nobody waits for, and the transaction act.         *)
(***************************************************************************)
\* Mutant: a packet that is no reply does not take the place of last.
readUnexpectedKeeps(c, pdu) ==
    LET v == GetReplyValues(pdu)
    IN  IF ~IsRequestReply(c.last, pdu) THEN [c EXCEPT !.last = IF @ = << >> THEN pdu ELSE @]
        ELSE IF IsWriteToServer(GetFunctionCode(pdu)) \/ v.err # NoErr
        THEN [c EXCEPT !.last = << >>]
        ELSE [c EXCEPT !.last = << >>, !.mem = OnWrite(@, c.last, v.data).mem]

\* Packets are paired: a read that was answered goes to the handler.
readUnexpected(c, pdu) ==
    LET v == GetReplyValues(pdu)
    IN  IF ~IsRequestReply(c.last, pdu) THEN [c EXCEPT !.last = pdu]
        ELSE IF IsWriteToServer(GetFunctionCode(pdu)) \/ v.err # NoErr
        THEN [c EXCEPT !.last = << >>]
        ELSE [c EXCEPT !.last = << >>, !.mem = OnWrite(@, c.last, v.data).mem]

ServeUnexpected(n) ==
    /\ cl[n].serve = "actions" /\ Offers(n, "clientRead")
    /\ \E c \in {TakesPacket(cl[n])}, p \in {Action(cl[n]).data.pdu} :
          Becomes(n, readUnexpected(c, p))
    /\ UNCHANGED <<polled, serverVars, toServer, faults, fresh>>

\* The request as it is written: a write gets its data from the handler.
Filled(c, f) ==
    LET r == OnRead(c.mem, f.pdu)
    IN  IF ~IsWriteToServer(GetFunctionCode(f.pdu)) THEN [data |-> f, err |-> NoErr]
        ELSE [data |-> MakeRTU(f.id, MakeWriteRequest(f.pdu, r.data)), err |-> r.err]

\* A transaction is taken from the channel and written.  What a passive client
\* writes is dropped; what an active one writes is heard by all, or fails when the
\* port is closed.
ServeStart(n) ==
    /\ cl[n].serve = "actions" /\ Offers(n, "clientStart")
    /\ \E c \in {Received(cl[n])} : \E f \in {Filled(c, Action(cl[n]).data)} :
       \E d \in {[c EXCEPT !.act = f.data, !.conn = clientWrite(@, f.data.pdu)]} :
          \/ /\ f.err # NoErr
             /\ Becomes(n, Answered(c)) /\ UNCHANGED <<toServer, fresh>>
          \/ /\ f.err = NoErr /\ ~d.conn.isActive
             /\ Becomes(n, [d EXCEPT !.serve = "dropped"]) /\ UNCHANGED <<toServer, fresh>>
          \/ /\ f.err = NoErr /\ d.conn.isActive /\ c.closed
             /\ Becomes(n, Ended(Answered(d))) /\ UNCHANGED <<toServer, fresh>>
          \/ /\ f.err = NoErr /\ d.conn.isActive /\ ~c.closed
             /\ cl' = [m \in Nodes |-> IF m = n THEN [d EXCEPT !.serve = "sent"]
                                       ELSE Hears(cl[m], d.act)]
             /\ toServer' = IF up THEN Append(toServer, d.act) ELSE toServer
             /\ fresh' = IF toServer # << >> THEN {}
                         ELSE IF c.inbox = << >> /\ c.actions = << >> THEN fresh
                         ELSE fresh \ {n}
    /\ UNCHANGED <<polled, serverVars, faults>>

\* isActive is read again, after the lock was given up, so that the reply to what was
\* sent may be skipped.  A transaction that is skipped succeeds; the sleep before that
\* shows in nothing but the order of steps.
ServeWritten(n) ==
    LET c == cl[n]
        skips == c.act.id = 0 \/ ~c.conn.isActive
    IN  /\ c.serve \in {"sent", "dropped"}
        /\ Becomes(n, IF skips THEN Answered(c) ELSE [c EXCEPT !.serve = "reply"])
        /\ fresh' = IF skips /\ c.serve = "sent" /\ c.act.id # 0 THEN fresh \ {n} ELSE fresh
        /\ UNCHANGED <<polled, serverVars, toServer, faults>>

IsException(c, rp) ==
    LET e == SeparateError(GetFunctionCode(rp))
    IN  e.hasErr /\ e.fc = GetFunctionCode(c.act.pdu)

\* What a reply to act, or an exception, leaves of the client.
Completed(c, rp) ==
    LET v == GetReplyValues(rp)
    IN  IF /\ IsReadToServer(GetFunctionCode(c.act.pdu))
           /\ ~IsException(c, rp) /\ v.err = NoErr
        THEN Answered([c EXCEPT !.mem = OnWrite(@, c.act.pdu, v.data).mem])
        ELSE Answered(c)

Matches(c, rp) == IsException(c, rp) \/ IsRequestReply(c.act.pdu, rp)

\* A packet while act waits for its reply.  One from another id is dropped.  One
\* that is no reply ends the transaction; readUnexpected is given act instead of
\* it, so that the packet itself escapes.
ServeReply(n) ==
    /\ cl[n].serve = "reply" /\ Offers(n, "clientRead")
    /\ \E c \in {TakesPacket(cl[n])}, f \in {Action(cl[n]).data} :
          \/ /\ f.id # c.act.id
             /\ Becomes(n, c) /\ UNCHANGED fresh
          \/ /\ f.id = c.act.id /\ Matches(c, f.pdu)
             /\ Becomes(n, Completed(c, f.pdu)) /\ UNCHANGED fresh
          \/ /\ f.id = c.act.id /\ ~Matches(c, f.pdu)
             /\ Becomes(n, Answered(c)) /\ fresh' = fresh \ {n}
    /\ UNCHANGED <<polled, serverVars, toServer, faults>>

\* A second transaction while act waits for its reply: Serve ends.
ServeInterrupted(n) ==
    LET c == cl[n]
    IN  /\ c.serve = "reply"
        /\ Offers(n, "clientStart")
        /\ Becomes(n, Ended(Answered(Received(c))))
        /\ UNCHANGED <<polled, serverVars, toServer, faults, fresh>>

\* Nothing is on its way.
Quiet == /\ toServer = << >>
         /\ \A n \in Nodes : Running(n) => cl[n].inbox = << >> /\ cl[n].actions = << >>

Later(Passes(_)) ==
    [n \in Nodes |-> [cl[n] EXCEPT !.conn = IF Running(n) THEN Passes(@) ELSE @]]

\* Mutant: the caller is not told.
ServeTimeOutSilent(n) ==
    /\ cl[n].serve = "reply" /\ Quiet
    /\ cl' = [Later(MissDelayPasses) EXCEPT ![n].serve = "actions"]
    /\ UNCHANGED <<polled, serverVars, toServer, faults, fresh>>

ServeTimeOut(n) ==
    /\ cl[n].serve = "reply" /\ Quiet
    /\ cl' = [Later(MissDelayPasses) EXCEPT ![n] = Answered(@)]
    /\ UNCHANGED <<polled, serverVars, toServer, faults, fresh>>

ReaderStep(n) == ReaderRead(n) \/ ReaderFail(n)
ServeStep(n) ==
    \/ ServeError(n) \/ ServeUnexpected(n) \/ ServeStart(n) \/ ServeWritten(n)
    \/ ServeReply(n) \/ ServeInterrupted(n) \/ ServeTimeOut(n)

-------------------------------------------------------------------------------
(***************************************************************************)
(* The applications and the clock.                                         *)
(***************************************************************************)
StartTransactionToServer(n, f) ==
    /\ Running(n)
    /\ Becomes(n, [cl[n] EXCEPT !.calls = @ + 1,
                                !.actions = Append(@, Sending("clientStart", f))])

Silence == Quiet /\ \A n \in Nodes : Running(n) => cl[n].calls = 0

Poll(n) ==
    /\ n \notin polled /\ Silence
    /\ \E f \in Requests : StartTransactionToServer(n, f)
    /\ polled' = polled \cup {n}
    /\ UNCHANGED <<serverVars, toServer, faults, fresh>>

Idle == Silence /\ \A n \in Nodes : Running(n) => n \in polled

\* The next round, when the bus has been quiet for a short or for a long while, or
\* PrimaryForceBackDelay has passed.
NewRound(Passes(_)) ==
    /\ Idle
    /\ polled' = {}
    /\ cl' = Later(Passes)
    /\ UNCHANGED <<serverVars, toServer, faults, fresh>>

NextRound == NewRound(MissDelayPasses)
RoundAfterPause == NewRound(PrimaryDisconnectDelayPasses)
RoundAfterForceBackDelay == NewRound(PrimaryForceBackDelayPasses)

Restart(n) ==
    /\ ~Running(n) /\ Silence
    /\ Becomes(n, NewClient(n))
    /\ fresh' = fresh \ {n}
    /\ UNCHANGED <<polled, serverVars, toServer, faults>>

-------------------------------------------------------------------------------
(***************************************************************************)
(* The server, whose memory changes all the time, and faults.              *)
(***************************************************************************)
Reply(clients) ==
    /\ toServer # << >> /\ Head(toServer).id # 0
    /\ toServer' = Tail(toServer)
    /\ \E p \in {Head(toServer).pdu}, m \in ServerMemories \ {truth} :
       \E h \in {Handle(m, p)}, c \in {clients} :
          /\ cl' = [n \in Nodes |-> Hears(c[n], MakeRTU(SlaveID, h.reply))]
          /\ truth' = IF h.err = NoErr /\ IsReadToServer(GetFunctionCode(p))
                      THEN OnWrite(truth, p, GetReplyValues(h.reply).data).mem
                      ELSE truth
    /\ UNCHANGED <<polled, up, fresh>>

HearBroadcast ==
    /\ toServer # << >> /\ Head(toServer).id = 0
    /\ toServer' = Tail(toServer)
    /\ UNCHANGED <<cl, polled, serverVars, faults, fresh>>

Respond == Reply(cl) /\ UNCHANGED faults

Fault == faults < MaxFaults /\ faults' = faults + 1

\* The server takes longer than MissDelay.
RespondLate == Fault /\ Reply(Later(MissDelayPasses))

\* Close by the application, or a port that fails.
Close(n) ==
    /\ Fault
    /\ Running(n) /\ ~cl[n].closed
    /\ Becomes(n, [cl[n] EXCEPT !.closed = TRUE, !.inbox = << >>])
    /\ UNCHANGED <<polled, up, truth, toServer, fresh>>

\* A packet with an error is heard by both clients.
Noise ==
    /\ Fault
    /\ cl' = [n \in Nodes |-> Hears(cl[n], [MakeRTU(SlaveID, << >>) EXCEPT !.ok = FALSE])]
    /\ UNCHANGED <<polled, up, truth, toServer, fresh>>

\* An application that asks something out of turn, and does not wait for the
\* transaction of its own or of its twin to end.
AskOutOfTurn(n) ==
    /\ Fault
    /\ ~Silence /\ cl[n].calls <= 1
    /\ \E f \in Others : StartTransactionToServer(n, f)
    /\ UNCHANGED <<polled, up, truth, toServer, fresh>>

ServerStops ==
    /\ Fault
    /\ up /\ up' = FALSE /\ toServer' = << >>
    /\ UNCHANGED <<cl, polled, truth, fresh>>

ServerStarts ==
    /\ ~up /\ up' = TRUE
    /\ UNCHANGED <<cl, polled, toServer, faults, truth, fresh>>

ClientStep(n) == ReaderStep(n) \/ ServeStep(n)

Next == \/ \E n \in Nodes : ClientStep(n) \/ Poll(n) \/ Close(n) \/ AskOutOfTurn(n) \/ Restart(n)
        \/ Respond \/ RespondLate \/ HearBroadcast \/ Noise \/ ServerStops \/ ServerStarts
        \/ NextRound \/ RoundAfterPause \/ RoundAfterForceBackDelay

Spec == Init /\ [][Next]_vars

\* Something goes on: a goroutine runs, the server that is up replies, an application
\* polls, or the next round begins; and the delays pass.
FairSpec ==
    /\ Spec
    /\ WF_vars((\E n \in Nodes : ClientStep(n) \/ Poll(n))
               \/ Respond \/ HearBroadcast \/ NextRound)
    /\ SF_vars(RoundAfterForceBackDelay)

-------------------------------------------------------------------------------
\* Type correctness; Serve waits for a reply only for a call that is outstanding,
\* and nothing more can be in the channel than what the reader and the callers send.
TypeOK ==
    /\ polled \subseteq Nodes /\ fresh \subseteq Nodes
    /\ up \in BOOLEAN /\ faults \in 0..MaxFaults
    /\ \A n \in Nodes :
          LET c == cl[n]
          IN  /\ c.conn \in Conns /\ c.conn.isFailover = (n = Failover)
              /\ c.conn.misses <= MissesMax(c.conn)
              /\ c.reader \in {"reading", "sending", "ended"}
              /\ c.serve \in {"actions", "sent", "dropped", "reply", "ended"}
              /\ Len(c.actions) <= c.calls + 1
              /\ c.serve \in {"sent", "dropped", "reply"} => c.calls > 0

(***************************************************************************)
(* What the applications ask, for the standby to be able to follow it.     *)
(***************************************************************************)
Asked == Requests \cup Others

\* Requests are ones that MakeRequestHeader makes, a broadcast is a write, and no read
\* looks like a reply: IsRequestReply tells the two directions of the bus apart by
\* nothing but the bytes.
Deployment ==
    /\ IsMemory(LocalMemory) /\ \A m \in ServerMemories : IsMemory(m)
    /\ \A f \in Asked : /\ IsRequestHeader(f.pdu)
                        /\ f.id = 0 => IsWriteToServer(GetFunctionCode(f.pdu))
    /\ \A f, g \in Asked : IsReadToServer(GetFunctionCode(g.pdu))
                           => ~IsRequestReply(f.pdu, g.pdu)

Active(n) == Running(n) /\ cl[n].conn.isActive
Settled(n) == cl[n].inbox = << >> /\ cl[n].actions = << >>

\* The standby stays in sync for a hot switch over: active or passive, a client that
\* no packet escaped has given its handler all that the server has told anybody.
StandbyInSync ==
    \A n \in fresh : ~cl[n].closed /\ Settled(n) => cl[n].mem = truth

\* However often the failover takes over, a primary that stays up is active again,
\* and then the failover is not.
PrimaryComesBack ==
    <>[]Running(Primary) => []<>(Active(Primary) /\ ~Active(Failover))

\* As long as a client stays up the server is asked again and again.
SomebodyAsks ==
    <>[]up /\ (\E n \in Nodes : <>[]Running(n)) => []<><<Respond>>_vars
================================================================================
