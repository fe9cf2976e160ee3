------------------------- MODULE FailoverClientsProofs -------------------------
(***************************************************************************)
(* Proofs about two FailoverRTUClients on one bus: for any requests, any   *)
(* memories and any number of faults.                                      *)
(***************************************************************************)
EXTENDS FailoverClients, HandlingProofs, TLAPS

-------------------------------------------------------------------------------
(***************************************************************************)
(* What a client that listens makes of the packets on the bus.             *)
(***************************************************************************)
Reads(p) == IsReadToServer(GetFunctionCode(p))
ReadPdus == {f.pdu : f \in {g \in Asked : Reads(g.pdu)}}

\* A packet that tells nobody a value: a request, the reply to a write, an exception.
Plain(p) == p \in ReadPdus \/ ~Reads(p)

\* The packet p tells what was asked with r.
Tells(r, p) == r \in ReadPdus /\ IsRequestReply(r, p) /\ GetReplyValues(p).err = NoErr

\* The packet p, that follows r on the bus, turns the memory a into b.
Turns(a, r, p, b) ==
    \/ Plain(p) /\ b = a
    \/ Tells(r, p) /\ b = OnWrite(a, r, GetReplyValues(p).data).mem

\* The packet before the i-th of q, which r precedes, and the last of them.
Before(r, q, i) == IF i = 1 THEN r ELSE q[i - 1].pdu
LastOf(r, q) == IF q = << >> THEN r ELSE q[Len(q)].pdu

\* The packets q, that follow r on the bus, turn the memory a into b.
Replay(a, r, q, b) ==
    \E ms : /\ ms[0] = a /\ ms[Len(q)] = b
            /\ \A i \in 1..Len(q) : Turns(ms[i - 1], Before(r, q, i), q[i].pdu, ms[i])

\* What Deployment says of the requests that read.
LEMMA ReadRequests ==
    ASSUME Deployment, NEW r \in ReadPdus
    PROVE  /\ r \in Seq(Byte) /\ IsRequestHeader(r) /\ Reads(r)
           /\ \A x : Plain(x) => ~IsRequestReply(x, r)
<1>1. PICK f \in Asked : r = f.pdu /\ Reads(f.pdu)
  BY DEF ReadPdus
<1>2. r \in Seq(Byte)
  BY <1>1, FailoverClientsAssumption DEF Asked
<1>3. IsRequestHeader(r)
  BY <1>1 DEF Deployment
<1>4. ASSUME NEW x, Plain(x) PROVE ~IsRequestReply(x, r)
  <2>1. CASE x \in ReadPdus
    <3>1. PICK g \in Asked : x = g.pdu
      BY <2>1 DEF ReadPdus
    <3> QED BY <1>1, <3>1 DEF Deployment, Reads
  <2>2. CASE ~Reads(x)
    <3>1. GetFunctionCode(x) # GetFunctionCode(r)
      BY <1>1, <2>2 DEF Reads
    <3> QED BY <3>1 DEF IsRequestReply
  <2> QED BY <1>4, <2>1, <2>2 DEF Plain
<1> QED BY <1>1, <1>2, <1>3, <1>4

\* No packet is both a request and an answer.
LEMMA TellsNoRequest ==
    ASSUME Deployment, NEW r, NEW p, Tells(r, p)
    PROVE  p \notin ReadPdus /\ Reads(p) /\ Reads(r)
<1>1. Reads(r) /\ Plain(r)
  BY ReadRequests DEF Tells, Plain
<1>2. Reads(p)
  BY <1>1 DEF Tells, IsRequestReply, Reads
<1> QED BY <1>1, <1>2, ReadRequests DEF Tells

\* Nothing has to be replayed.
LEMMA ReplayEmpty ==
    ASSUME NEW a, NEW r, NEW b
    PROVE  Replay(a, r, << >>, b) <=> a = b
<1>1. ASSUME a = b PROVE Replay(a, r, << >>, b)
  <2> DEFINE ms == [i \in {0} |-> a]
  <2>1. ms[0] = a /\ ms[Len(<< >>)] = b
    BY <1>1
  <2>2. \A i \in 1..Len(<< >>) : FALSE
    OBVIOUS
  <2> HIDE DEF ms
  <2> QED BY <2>1, <2>2 DEF Replay
<1>2. ASSUME Replay(a, r, << >>, b) PROVE a = b
  BY <1>2 DEF Replay
<1> QED BY <1>1, <1>2

\* The first packet is taken off.
LEMMA ReplayHead ==
    ASSUME NEW a, NEW r, NEW q, IsSeq(q), q # << >>, NEW b, Replay(a, r, q, b)
    PROVE  \E m : Turns(a, r, Head(q).pdu, m) /\ Replay(m, Head(q).pdu, Tail(q), b)
<1> DEFINE t == Tail(q)
           n == Len(q)
           p == Head(q).pdu
<1>1. PICK ms : /\ ms[0] = a /\ ms[n] = b
                /\ \A i \in 1..n : Turns(ms[i - 1], Before(r, q, i), q[i].pdu, ms[i])
  BY DEF Replay
<1>2. /\ n \in Nat /\ n >= 1 /\ Len(t) = n - 1 /\ Head(q) = q[1]
      /\ \A i \in 1..(n - 1) : t[i] = q[i + 1]
  BY SeqTail
<1> DEFINE ns == [i \in 0..(n - 1) |-> ms[i + 1]]
<1> HIDE DEF n, t
<1>3. Turns(a, r, p, ms[1])
  <2>1. 1 \in 1..n /\ 1 - 1 = 0
    BY <1>2
  <2>2. Before(r, q, 1) = r
    BY DEF Before
  <2> QED BY <1>1, <1>2, <2>1, <2>2
<1>4. ns[0] = ms[1] /\ ns[Len(t)] = b
  <2>1. 0 \in 0..(n - 1) /\ n - 1 \in 0..(n - 1) /\ 0 + 1 = 1 /\ (n - 1) + 1 = n
    BY <1>2
  <2> QED BY <1>1, <1>2, <2>1
<1>5. ASSUME NEW i \in 1..Len(t)
      PROVE  Turns(ns[i - 1], Before(p, t, i), t[i].pdu, ns[i])
  <2>1. /\ i \in Nat /\ i \in 1..(n - 1) /\ i + 1 \in 1..n /\ (i + 1) - 1 = i
        /\ i - 1 \in 0..(n - 1) /\ i \in 0..(n - 1) /\ (i - 1) + 1 = i
    BY <1>2
  <2>2. ns[i - 1] = ms[i] /\ ns[i] = ms[i + 1] /\ t[i] = q[i + 1]
    BY <1>2, <2>1
  <2>3. Before(p, t, i) = Before(r, q, i + 1)
    <3>1. Before(r, q, i + 1) = q[i].pdu
      BY <2>1 DEF Before
    <3>2. CASE i = 1
      BY <1>2, <3>1, <3>2 DEF Before
    <3>3. CASE i # 1
      <4>1. i - 1 \in 1..(n - 1)
        BY <1>2, <2>1, <3>3
      <4>2. t[i - 1] = q[i]
        BY <1>2, <2>1, <4>1
      <4> QED BY <3>1, <3>3, <4>2 DEF Before
    <3> QED BY <3>2, <3>3
  <2>4. Turns(ms[i], Before(r, q, i + 1), q[i + 1].pdu, ms[i + 1])
    BY <1>1, <2>1
  <2> HIDE DEF ns, p
  <2> QED BY <2>2, <2>3, <2>4
<1> HIDE DEF ns, p
<1>6. Replay(ms[1], p, t, b)
  BY <1>4, <1>5 DEF Replay
<1> QED BY <1>3, <1>6 DEF p, t

\* A packet is heard.
LEMMA ReplayAppend ==
    ASSUME NEW a, NEW r, NEW q, IsSeq(q), NEW b, Replay(a, r, q, b), NEW f, NEW c,
           Turns(b, LastOf(r, q), f.pdu, c)
    PROVE  /\ Replay(a, r, Append(q, f), c)
           /\ LastOf(r, Append(q, f)) = f.pdu
<1> DEFINE n == Len(q)
           u == Append(q, f)
<1>1. PICK ms : /\ ms[0] = a /\ ms[n] = b
                /\ \A i \in 1..n : Turns(ms[i - 1], Before(r, q, i), q[i].pdu, ms[i])
  BY DEF Replay
<1>2. /\ n \in Nat /\ Len(u) = n + 1 /\ u[n + 1] = f
      /\ \A i \in 1..n : u[i] = q[i]
  BY SeqAppend
<1>3. q = << >> <=> n = 0
  BY SeqLenZero
<1> DEFINE ns == [i \in 0..(n + 1) |-> IF i = n + 1 THEN c ELSE ms[i]]
<1> HIDE DEF n, u
<1>4. ns[0] = a /\ ns[Len(u)] = c
  <2>1. 0 \in 0..(n + 1) /\ n + 1 \in 0..(n + 1) /\ 0 # n + 1
    BY <1>2
  <2> QED BY <1>1, <1>2, <2>1
<1>5. ASSUME NEW i \in 1..Len(u)
      PROVE  Turns(ns[i - 1], Before(r, u, i), u[i].pdu, ns[i])
  <2>1. CASE i = n + 1
    <3>1. i - 1 = n /\ n \in 0..(n + 1) /\ i \in 0..(n + 1) /\ n # n + 1
      BY <1>2, <2>1
    <3>2. ns[i - 1] = b /\ ns[i] = c /\ u[i] = f
      BY <1>1, <1>2, <2>1, <3>1
    <3>3. Before(r, u, i) = LastOf(r, q)
      <4>1. CASE n = 0
        BY <1>3, <2>1, <4>1 DEF Before, LastOf
      <4>2. CASE n # 0
        <5>1. i # 1 /\ n \in 1..n
          BY <1>2, <2>1, <4>2
        <5>2. Before(r, u, i) = q[n].pdu
          BY <1>2, <3>1, <5>1 DEF Before
        <5> QED BY <1>3, <4>2, <5>2 DEF LastOf, n
      <4> QED BY <4>1, <4>2
    <3> HIDE DEF ns
    <3> QED BY <3>2, <3>3
  <2>2. CASE i # n + 1
    <3>1. /\ i \in 1..n /\ i - 1 \in 0..(n + 1) /\ i \in 0..(n + 1) /\ i - 1 # n + 1
      BY <1>2, <2>2
    <3>2. ns[i - 1] = ms[i - 1] /\ ns[i] = ms[i] /\ u[i] = q[i]
      BY <1>2, <2>2, <3>1
    <3>3. Before(r, u, i) = Before(r, q, i)
      <4>1. CASE i = 1
        BY <4>1 DEF Before
      <4>2. CASE i # 1
        <5>1. i - 1 \in 1..n
          BY <1>2, <3>1, <4>2
        <5> QED BY <1>2, <4>2, <5>1 DEF Before
      <4> QED BY <4>1, <4>2
    <3> HIDE DEF ns
    <3> QED BY <1>1, <3>1, <3>2, <3>3
  <2> QED BY <2>1, <2>2
<1> HIDE DEF ns
<1>6. Replay(a, r, u, c)
  BY <1>4, <1>5 DEF Replay
<1>7. LastOf(r, u) = f.pdu
  <2>1. u # << >>
    <3>1. Len(u) # 0 /\ Len(<< >>) = 0
      BY <1>2
    <3> QED BY <3>1
  <2> QED BY <1>2, <2>1 DEF LastOf
<1> QED BY <1>6, <1>7 DEF u

\* After a packet that is no request to read, it does not matter which it was.
LEMMA ReplayAny ==
    ASSUME Deployment, NEW a, NEW r, r \notin ReadPdus, NEW q, IsSeq(q), NEW b,
           Replay(a, r, q, b), NEW s
    PROVE  Replay(a, s, q, b)
<1> DEFINE n == Len(q)
<1>1. PICK ms : /\ ms[0] = a /\ ms[n] = b
                /\ \A i \in 1..n : Turns(ms[i - 1], Before(r, q, i), q[i].pdu, ms[i])
  BY DEF Replay
<1>2. ASSUME NEW i \in 1..n
      PROVE  Turns(ms[i - 1], Before(s, q, i), q[i].pdu, ms[i])
  <2>1. Turns(ms[i - 1], Before(r, q, i), q[i].pdu, ms[i])
    BY <1>1
  <2>2. CASE i = 1
    <3>1. Before(r, q, i) = r
      BY <2>2 DEF Before
    <3>2. Plain(q[i].pdu) /\ ms[i] = ms[i - 1]
      BY <2>1, <3>1 DEF Turns, Tells
    <3> QED BY <3>2 DEF Turns
  <2>3. CASE i # 1
    BY <2>1, <2>3 DEF Before
  <2> QED BY <2>2, <2>3
<1> QED BY <1>1, <1>2 DEF Replay

-------------------------------------------------------------------------------
(***************************************************************************)
(* The types of a client.                                                  *)
(***************************************************************************)
Frames == {f \in [id : {0, SlaveID}, pdu : Seq(Byte), ok : BOOLEAN] :
              f.id = 0 => ~Reads(f.pdu)}
Signals == [t : {"clientStart", "clientRead", "clientError"}, data : Frames]

IsClient(c) ==
    /\ c \in [conn : Conns, closed : BOOLEAN, inbox : Seq(Frames),
              reader : {"reading", "sending", "ended"}, actions : Seq(Signals),
              serve : {"actions", "sent", "dropped", "reply", "ended"},
              act : Frames, last : Seq(Byte), mem : {c.mem}, calls : Int]
    /\ IsMemory(c.mem)

ConnOK(n, x) == x \in Conns /\ x.isFailover = (n = Failover) /\ x.misses <= MissesMax(x)

\* What goes out on the bus.
Bus == {f \in Frames : Plain(f.pdu)}
Sendable(f) == f \in Bus

\* The reader sends on the channel while it is "sending", and callers send requests.
Channel(a, reader) ==
    /\ \A i \in 1..Len(a) :
          a[i].t # "clientStart" => /\ reader = "sending"
                                    /\ \A j \in 1..Len(a) : a[j].t # "clientStart" => j = i
    /\ reader = "sending" => \E i \in 1..Len(a) : a[i].t # "clientStart"
    /\ \A i \in 1..Len(a) : a[i].t = "clientStart" => a[i].data \in Asked

\* The calls that wait for the channel, or for an answer, are outstanding.
Awaited(serve) == IF serve \in {"sent", "dropped", "reply"} THEN 1 ELSE 0
Extra(reader) == IF reader = "sending" THEN 1 ELSE 0
Calls(c) == Len(c.actions) + Awaited(c.serve) <= c.calls + Extra(c.reader)

ClientOK(n, c) ==
    /\ IsClient(c) /\ ConnOK(n, c.conn)
    /\ Channel(c.actions, c.reader) /\ Calls(c)
    /\ Sendable(c.act)
    /\ c.serve = "dropped" => ~c.conn.isActive
    /\ c.serve = "reply" => c.act.id # 0

\* The channel: a caller or the reader sends, and Serve receives.
LEMMA ChannelStart ==
    ASSUME NEW a \in Seq(Signals), NEW reader, Channel(a, reader),
           NEW f \in Asked, f \in Frames
    PROVE  LET b == Append(a, Sending("clientStart", f))
           IN  b \in Seq(Signals) /\ Channel(b, reader) /\ Len(b) = Len(a) + 1
<1> DEFINE x == Sending("clientStart", f)
           b == Append(a, x)
           n == Len(a)
<1>1. x \in Signals /\ x.t = "clientStart" /\ x.data = f
  BY DEF Sending, Signals
<1> HIDE DEF x
<1>2. /\ b \in Seq(Signals) /\ n \in Nat /\ Len(b) = n + 1 /\ b[n + 1] = x
      /\ \A i \in 1..n : b[i] = a[i]
  BY <1>1
<1> HIDE DEF b, n
<1>3. \A i \in 1..(n + 1) : i = n + 1 \/ i \in 1..n
  BY <1>2
<1>4. \A i \in 1..n : i \in 1..(n + 1)
  BY <1>2
<1>5. Channel(b, reader)
  BY <1>1, <1>2, <1>3, <1>4 DEF Channel, n
<1> QED BY <1>2, <1>5 DEF b, x, n

LEMMA ChannelRead ==
    ASSUME NEW a \in Seq(Signals), Channel(a, "reading"), NEW f \in Frames,
           NEW t \in {"clientRead", "clientError"}
    PROVE  LET b == Append(a, Sending(t, f))
           IN  b \in Seq(Signals) /\ Channel(b, "sending") /\ Len(b) = Len(a) + 1
<1> DEFINE x == Sending(t, f)
           b == Append(a, x)
           n == Len(a)
<1>1. x \in Signals /\ x.t = t /\ x.data = f /\ x.t # "clientStart"
  BY DEF Sending, Signals
<1> HIDE DEF x
<1>2. /\ b \in Seq(Signals) /\ n \in Nat /\ Len(b) = n + 1 /\ b[n + 1] = x
      /\ \A i \in 1..n : b[i] = a[i]
  BY <1>1
<1> HIDE DEF b, n
<1>3. \A i \in 1..(n + 1) : i = n + 1 \/ i \in 1..n
  BY <1>2
<1>4. n + 1 \in 1..(n + 1)
  BY <1>2
<1>5. \A i \in 1..n : a[i].t = "clientStart" /\ a[i].data \in Asked
  BY DEF Channel, n
<1>6. Channel(b, "sending")
  BY <1>1, <1>2, <1>3, <1>4, <1>5 DEF Channel
<1> QED BY <1>2, <1>6 DEF b, x, n

LEMMA ChannelTail ==
    ASSUME NEW a \in Seq(Signals), a # << >>, NEW reader, Channel(a, reader)
    PROVE  /\ Tail(a) \in Seq(Signals) /\ Len(a) \in Nat /\ Len(Tail(a)) = Len(a) - 1
           /\ Head(a) \in Signals
           /\ Head(a).t = "clientStart" =>
                 /\ Channel(Tail(a), reader) /\ Head(a).data \in Asked
                 /\ reader = "sending" => Len(Tail(a)) >= 1
           /\ Head(a).t # "clientStart" =>
                 /\ reader = "sending"
                 /\ \A r \in {"reading", "ended"} : Channel(Tail(a), r)
<1> DEFINE b == Tail(a)
           n == Len(a)
           h == Head(a)
<1>1. /\ b \in Seq(Signals) /\ n \in Nat /\ n >= 1 /\ Len(b) = n - 1 /\ h = a[1]
      /\ h \in Signals /\ \A i \in 1..(n - 1) : b[i] = a[i + 1]
  <2>1. IsSeq(a)
    BY DEF IsSeq
  <2>2. h \in Signals /\ b \in Seq(Signals)
    OBVIOUS
  <2> QED BY <2>1, <2>2, SeqTail
<1>2. /\ \A i \in 1..n :
            a[i].t # "clientStart" => /\ reader = "sending"
                                      /\ \A j \in 1..n : a[j].t # "clientStart" => j = i
      /\ reader = "sending" => \E i \in 1..n : a[i].t # "clientStart"
      /\ \A i \in 1..n : a[i].t = "clientStart" => a[i].data \in Asked
  BY DEF Channel
<1> HIDE DEF b, n, h
<1>3. \A i \in 1..(n - 1) : i + 1 \in 1..n /\ i \in Nat /\ i + 1 # 1
  BY <1>1
<1>4. 1 \in 1..n
  BY <1>1
<1>5. \A i, j \in 1..(n - 1) : i + 1 = j + 1 => i = j
  BY <1>1
<1>6. ASSUME h.t = "clientStart"
      PROVE  /\ Channel(b, reader) /\ h.data \in Asked
             /\ reader = "sending" => n - 1 >= 1
  <2>1. ASSUME reader = "sending"
        PROVE  \E i \in 1..(n - 1) : b[i].t # "clientStart"
    <3>1. PICK i \in 1..n : a[i].t # "clientStart"
      BY <1>2, <2>1
    <3>2. i # 1
      BY <1>1, <1>6, <3>1
    <3>3. i - 1 \in 1..(n - 1) /\ (i - 1) + 1 = i
      BY <1>1, <3>2
    <3>4. b[i - 1] = a[i]
      BY <1>1, <3>3
    <3> QED BY <3>1, <3>3, <3>4
  <2>2. \A i \in 1..(n - 1) :
           b[i].t # "clientStart" => /\ reader = "sending"
                                     /\ \A j \in 1..(n - 1) : b[j].t # "clientStart" => j = i
    <3> SUFFICES ASSUME NEW i \in 1..(n - 1), b[i].t # "clientStart"
                 PROVE  /\ reader = "sending"
                        /\ \A j \in 1..(n - 1) : b[j].t # "clientStart" => j = i
      OBVIOUS
    <3>1. i + 1 \in 1..n /\ a[i + 1].t # "clientStart"
      BY <1>1, <1>3
    <3>2. reader = "sending" /\ \A j \in 1..n : a[j].t # "clientStart" => j = i + 1
      BY <1>2, <3>1
    <3>3. ASSUME NEW j \in 1..(n - 1), b[j].t # "clientStart" PROVE j = i
      <4>1. j + 1 \in 1..n /\ a[j + 1].t # "clientStart"
        BY <1>1, <1>3, <3>3
      <4>2. j + 1 = i + 1
        BY <3>2, <4>1
      <4> QED BY <1>5, <4>2
    <3> QED BY <3>2, <3>3
  <2>3. \A i \in 1..(n - 1) : b[i].t = "clientStart" => b[i].data \in Asked
    BY <1>1, <1>2, <1>3
  <2>4. reader = "sending" => n - 1 >= 1
    <3> SUFFICES ASSUME reader = "sending" PROVE n - 1 >= 1
      OBVIOUS
    <3>1. PICK i \in 1..(n - 1) : b[i].t # "clientStart"
      BY <2>1
    <3> QED BY <1>1, <3>1
  <2>5. Channel(b, reader)
    BY <1>1, <2>1, <2>2, <2>3 DEF Channel
  <2> QED BY <1>1, <1>2, <1>4, <1>6, <2>4, <2>5
<1>7. ASSUME h.t # "clientStart"
      PROVE  reader = "sending" /\ \A r \in {"reading", "ended"} : Channel(b, r)
  <2>1. reader = "sending" /\ \A j \in 1..n : a[j].t # "clientStart" => j = 1
    BY <1>1, <1>2, <1>4, <1>7
  <2>2. \A i \in 1..(n - 1) : b[i].t = "clientStart" /\ b[i].data \in Asked
    BY <1>1, <1>2, <1>3, <2>1
  <2> QED BY <1>1, <2>1, <2>2 DEF Channel
<1> QED BY <1>1, <1>6, <1>7 DEF b, n, h

\* What is on the channel.
Holds(a, f) == \E i \in 1..Len(a) : a[i].t = "clientRead" /\ a[i].data = f
NoError(a) == \A i \in 1..Len(a) : a[i].t # "clientError"

LEMMA ChannelHolds ==
    ASSUME NEW a \in Seq(Signals), NEW x \in Signals
    PROVE  /\ NoError(Append(a, x)) <=> NoError(a) /\ x.t # "clientError"
           /\ \A f : Holds(a, f) => Holds(Append(a, x), f)
           /\ x.t = "clientRead" => Holds(Append(a, x), x.data)
<1> DEFINE b == Append(a, x)
           n == Len(a)
<1>1. /\ n \in Nat /\ Len(b) = n + 1 /\ b[n + 1] = x /\ \A i \in 1..n : b[i] = a[i]
  OBVIOUS
<1> HIDE DEF b, n
<1>2. /\ \A i \in 1..(n + 1) : i = n + 1 \/ i \in 1..n
      /\ \A i \in 1..n : i \in 1..(n + 1)
      /\ n + 1 \in 1..(n + 1)
  BY <1>1
<1>3. NoError(b) <=> NoError(a) /\ x.t # "clientError"
  BY <1>1, <1>2 DEF NoError, n
<1>4. \A f : Holds(a, f) => Holds(b, f)
  BY <1>1, <1>2 DEF Holds, n
<1>5. x.t = "clientRead" => Holds(b, x.data)
  BY <1>1, <1>2 DEF Holds
<1> QED BY <1>3, <1>4, <1>5 DEF b

LEMMA ChannelKeeps ==
    ASSUME NEW a \in Seq(Signals), a # << >>
    PROVE  /\ Head(a).t # "clientError" => (NoError(Tail(a)) <=> NoError(a))
           /\ Head(a).t = "clientStart" => \A f : Holds(a, f) => Holds(Tail(a), f)
           /\ \A reader, f : Channel(a, reader) /\ Head(a).t # "clientStart" /\ Holds(a, f)
                               => f = Head(a).data
<1> DEFINE b == Tail(a)
           n == Len(a)
           h == Head(a)
<1>1. /\ n \in Nat /\ n >= 1 /\ Len(b) = n - 1 /\ h = a[1]
      /\ \A i \in 1..(n - 1) : b[i] = a[i + 1]
  <2>1. IsSeq(a)
    BY DEF IsSeq
  <2> QED BY <2>1, SeqTail
<1> HIDE DEF b, n, h
<1>2. /\ \A i \in 1..(n - 1) : i + 1 \in 1..n
      /\ \A i \in 1..n : i = 1 \/ (i - 1 \in 1..(n - 1) /\ (i - 1) + 1 = i)
      /\ 1 \in 1..n
  BY <1>1
<1>3. \A i \in 1..n : i # 1 => b[i - 1] = a[i] /\ i - 1 \in 1..(n - 1)
  <2> SUFFICES ASSUME NEW i \in 1..n, i # 1 PROVE b[i - 1] = a[i] /\ i - 1 \in 1..(n - 1)
    OBVIOUS
  <2>1. i - 1 \in 1..(n - 1) /\ (i - 1) + 1 = i
    BY <1>2
  <2> QED BY <1>1, <2>1
<1>4. ASSUME h.t # "clientError" PROVE NoError(b) <=> NoError(a)
  <2>1. ASSUME NoError(a) PROVE NoError(b)
    BY <1>1, <1>2, <2>1 DEF NoError, n
  <2>2. ASSUME NoError(b), NEW i \in 1..n PROVE a[i].t # "clientError"
    BY <1>1, <1>3, <1>4, <2>2 DEF NoError
  <2> QED BY <2>1, <2>2 DEF NoError, n
<1>5. ASSUME h.t = "clientStart", NEW f, Holds(a, f) PROVE Holds(b, f)
  <2>1. PICK i \in 1..n : a[i].t = "clientRead" /\ a[i].data = f
    BY <1>5 DEF Holds, n
  <2>2. i # 1
    BY <1>1, <1>5, <2>1
  <2>3. b[i - 1] = a[i] /\ i - 1 \in 1..(n - 1)
    BY <1>3, <2>2
  <2> QED BY <1>1, <2>1, <2>3 DEF Holds
<1>6. ASSUME NEW reader, NEW f, Channel(a, reader), h.t # "clientStart", Holds(a, f)
      PROVE  f = h.data
  <2>1. PICK i \in 1..n : a[i].t = "clientRead" /\ a[i].data = f
    BY <1>6 DEF Holds, n
  <2>2. 1 = i
    BY <1>1, <1>2, <1>6, <2>1 DEF Channel, n
  <2> QED BY <1>1, <2>1, <2>2
<1> QED BY <1>4, <1>5, <1>6 DEF b, h

-------------------------------------------------------------------------------
(***************************************************************************)
(* The connection of a client.                                             *)
(***************************************************************************)
\* MissesMax is that of the side, and a connection may count up to it.
LEMMA MissesMaxNat == \A x : MissesMax(x) \in Nat
BY MissesAssumption DEF MissesMax

\* z differs from x in nothing but its times.
SameSide(x, z) ==
    z \in Conns /\ z.isFailover = x.isFailover /\ z.isActive = x.isActive /\ z.misses = x.misses

LEMMA SetConn ==
    ASSUME NEW x \in Conns, NEW t \in RequestTimes, NEW p \in Seq(Byte)
    PROVE  SameSide(x, [x EXCEPT !.requestTime = t, !.reqPacket = p])
BY DEF Conns, SameSide

LEMMA SetActive ==
    ASSUME NEW x \in Conns, NEW a \in BOOLEAN
    PROVE  LET z == [x EXCEPT !.isActive = a]
           IN  z \in Conns /\ z.isFailover = x.isFailover /\ z.isActive = a /\ z.misses = x.misses
BY DEF Conns

LEMMA SetMisses ==
    ASSUME NEW x \in Conns, NEW k \in Nat
    PROVE  LET z == [x EXCEPT !.misses = k]
           IN  z \in Conns /\ z.isFailover = x.isFailover /\ z.isActive = x.isActive /\ z.misses = k
BY DEF Conns

LEMMA SetFlags ==
    ASSUME NEW x \in Conns, NEW a \in BOOLEAN
    PROVE  SameSide(x, [x EXCEPT !.disconnected = a]) /\ SameSide(x, [x EXCEPT !.forceBack = a])
BY DEF Conns, SameSide

LEMMA ResetConn ==
    ASSUME NEW x \in Conns
    PROVE  SameSide(x, resetRequestTime(x))
<1>1. "zero" \in RequestTimes /\ << >> \in Seq(Byte)
  BY DEF RequestTimes
<1> QED BY <1>1, SetConn DEF resetRequestTime

LEMMA RequestConn ==
    ASSUME NEW x \in Conns, NEW p \in Seq(Byte)
    PROVE  SameSide(x, setLastReqTime(x, p))
<1>1. "recent" \in RequestTimes
  BY DEF RequestTimes
<1> QED BY <1>1, SetConn DEF setLastReqTime

LEMMA ReadConn ==
    ASSUME NEW n, NEW x, ConnOK(n, x), NEW f \in Frames
    PROVE  LET y == clientRead(x, f)
           IN  ConnOK(n, y) /\ (y.isActive => x.isActive)
<1> DEFINE y == clientRead(x, f)
           p == GetPDU(f)
           d == [x EXCEPT !.misses = 0, !.disconnected = FALSE]
<1>1. p.pdu \in Seq(Byte)
  BY DEF GetPDU, Frames
<1>2. x \in Conns /\ x.isFailover = (n = Failover)
  BY DEF ConnOK
<1>3. /\ d \in Conns /\ d.isFailover = x.isFailover /\ d.isActive = x.isActive /\ d.misses = 0
  BY <1>2 DEF Conns
<1> HIDE DEF p, d
<1>4. ASSUME NEW z \in Conns
      PROVE  LET w == [z EXCEPT !.isActive = FALSE]
             IN  w \in Conns /\ w.isFailover = z.isFailover /\ ~w.isActive /\ w.misses = z.misses
  BY SetActive
<1>5. /\ y \in Conns /\ y.isFailover = x.isFailover /\ y.misses = 0
      /\ y.isActive => x.isActive
  <2>1. \/ y = d \/ y = resetRequestTime(d) \/ y = setLastReqTime(d, p.pdu)
        \/ y = [setLastReqTime(d, p.pdu) EXCEPT !.isActive = FALSE]
    BY DEF clientRead, p, d
  <2>2. SameSide(d, resetRequestTime(d)) /\ SameSide(d, setLastReqTime(d, p.pdu))
    BY <1>1, <1>3, ResetConn, RequestConn
  <2> HIDE DEF y
  <2>3. CASE y = d
    BY <1>3, <2>3
  <2>4. CASE y = resetRequestTime(d) \/ y = setLastReqTime(d, p.pdu)
    BY <1>3, <2>2, <2>4 DEF SameSide
  <2>5. CASE y = [setLastReqTime(d, p.pdu) EXCEPT !.isActive = FALSE]
    <3> DEFINE z == setLastReqTime(d, p.pdu)
    <3>1. z \in Conns /\ z.isFailover = x.isFailover /\ z.misses = 0
      BY <1>3, <2>2 DEF SameSide
    <3> HIDE DEF z
    <3>2. y = [z EXCEPT !.isActive = FALSE]
      BY <2>5 DEF z
    <3> QED BY <1>4, <3>1, <3>2
  <2> QED BY <2>1, <2>3, <2>4, <2>5
<1> HIDE DEF y
<1>6. y.misses <= MissesMax(y)
  BY <1>5, MissesMaxNat
<1> QED BY <1>2, <1>5, <1>6 DEF ConnOK, y

LEMMA WriteConn ==
    ASSUME NEW n, NEW x, ConnOK(n, x), NEW p \in Seq(Byte)
    PROVE  ConnOK(n, clientWrite(x, p))
<1> DEFINE Fine(z) == z \in Conns /\ z.isFailover = x.isFailover /\ z.misses <= MissesMax(x)
<1>1. \A z : z.isFailover = x.isFailover => MissesMax(z) = MissesMax(x)
  BY DEF MissesMax
<1>2. MissesMax(x) \in Nat
  BY MissesMaxNat
<1>3. ASSUME NEW z, Fine(z)
      PROVE  /\ Fine([z EXCEPT !.isActive = TRUE]) /\ Fine([z EXCEPT !.isActive = FALSE])
             /\ Fine([z EXCEPT !.isActive = TRUE, !.forceBack = FALSE])
             /\ Fine(setLastReqTime(z, p))
             /\ z.misses < MissesMax(x) => Fine([z EXCEPT !.misses = @ + 1])
  <2>1. ASSUME NEW w \in Conns, w.isFailover = z.isFailover, w.misses = z.misses
        PROVE  Fine(w)
    BY <1>3, <2>1
  <2>2. Fine([z EXCEPT !.isActive = TRUE]) /\ Fine([z EXCEPT !.isActive = FALSE])
    BY <1>3, <2>1, SetActive
  <2>3. Fine([z EXCEPT !.isActive = TRUE, !.forceBack = FALSE])
    <3> DEFINE w == [z EXCEPT !.isActive = TRUE, !.forceBack = FALSE]
    <3>1. w \in Conns /\ w.isFailover = z.isFailover /\ w.misses = z.misses
      BY <1>3 DEF Conns
    <3> HIDE DEF w, Fine
    <3> QED BY <2>1, <3>1 DEF w
  <2>4. Fine(setLastReqTime(z, p))
    BY <1>3, <2>1, RequestConn DEF SameSide
  <2>5. ASSUME z.misses < MissesMax(x) PROVE Fine([z EXCEPT !.misses = @ + 1])
    <3> DEFINE w == [z EXCEPT !.misses = z.misses + 1]
               k == MissesMax(x)
    <3>1. z.misses \in Nat
      BY <1>3 DEF Conns
    <3>2. w \in Conns /\ w.isFailover = z.isFailover /\ w.misses = z.misses + 1
      <4>1. z.misses + 1 \in Nat
        BY <3>1
      <4> QED BY <1>3, <4>1, SetMisses
    <3>3. z.misses + 1 <= k
      <4> HIDE DEF w, k
      <4>1. k \in Nat /\ z.misses < k
        BY <1>2, <2>5 DEF k
      <4> QED BY <3>1, <4>1
    <3>4. w = [z EXCEPT !.misses = @ + 1]
      OBVIOUS
    <3> HIDE DEF w
    <3> QED BY <1>3, <3>2, <3>3, <3>4
  <2> HIDE DEF Fine
  <2> QED BY <2>2, <2>3, <2>4, <2>5
<1>4. Fine(x)
  BY DEF ConnOK
<1> HIDE DEF Fine
<1>5. Fine(PrimaryWrite(x))
  <2> DEFINE d == IF x.disconnected THEN [x EXCEPT !.isActive = FALSE] ELSE x
  <2>1. Fine(d)
    BY <1>3, <1>4
  <2>2. \/ PrimaryWrite(x) = d
        \/ PrimaryWrite(x) = [d EXCEPT !.isActive = TRUE, !.forceBack = FALSE]
    BY DEF PrimaryWrite
  <2> HIDE DEF d
  <2> QED BY <1>3, <2>1, <2>2
<1> DEFINE d == IF x.isFailover THEN x ELSE PrimaryWrite(x)
           e == IF d.isActive THEN d
                ELSE IF d.misses >= MissesMax(d) THEN [d EXCEPT !.isActive = TRUE]
                ELSE [d EXCEPT !.misses = @ + 1]
<1>6. Fine(d)
  BY <1>4, <1>5
<1> HIDE DEF d
<1>7. Fine(e)
  <2>1. MissesMax(d) = MissesMax(x) /\ d.misses \in Nat
    BY <1>1, <1>6 DEF Fine, Conns
  <2>2. \/ e = d \/ e = [d EXCEPT !.isActive = TRUE]
        \/ ~(d.misses >= MissesMax(x)) /\ e = [d EXCEPT !.misses = @ + 1]
    BY <2>1
  <2>3. ~(d.misses >= MissesMax(x)) => d.misses < MissesMax(x)
    BY <1>2, <2>1
  <2> HIDE DEF e
  <2> QED BY <1>3, <1>6, <2>2, <2>3
<1>8. clientWrite(x, p) = e \/ clientWrite(x, p) = setLastReqTime(e, p)
  BY DEF clientWrite, d
<1> HIDE DEF e
<1>9. Fine(clientWrite(x, p))
  BY <1>3, <1>7, <1>8
<1> QED BY <1>1, <1>9 DEF Fine, ConnOK

\* Time passes.
Passing(x, y) == y \in {MissDelayPasses(x), PrimaryDisconnectDelayPasses(x),
                        PrimaryForceBackDelayPasses(x)}

LEMMA PassesConn ==
    ASSUME NEW n, NEW x, ConnOK(n, x), NEW y, Passing(x, y)
    PROVE  ConnOK(n, y) /\ y.isActive = x.isActive
<1>1. x \in Conns /\ x.isFailover = (n = Failover) /\ x.misses <= MissesMax(x)
  BY DEF ConnOK
<1>2. /\ y \in Conns /\ y.isFailover = x.isFailover /\ y.misses = x.misses
      /\ y.isActive = x.isActive
  <2>1. LET z == MissDelayPasses(x)
        IN  /\ z \in Conns /\ z.isFailover = x.isFailover /\ z.misses = x.misses
            /\ z.isActive = x.isActive
    <3>1. "missed" \in RequestTimes /\ << >> \in Seq(Byte)
      BY DEF RequestTimes
    <3>2. SameSide(x, [x EXCEPT !.requestTime = "missed", !.reqPacket = << >>])
      BY <1>1, <3>1, SetConn
    <3>3. CASE x.requestTime = "recent"
      BY <3>2, <3>3 DEF MissDelayPasses, SameSide
    <3>4. CASE x.requestTime # "recent"
      BY <1>1, <3>4 DEF MissDelayPasses
    <3> QED BY <3>3, <3>4
  <2>2. ASSUME NEW z \in Conns, NEW b \in BOOLEAN
        PROVE  LET u == [z EXCEPT !.disconnected = b]
                   v == [z EXCEPT !.forceBack = b]
               IN  /\ u \in Conns /\ u.isFailover = z.isFailover /\ u.misses = z.misses
                   /\ u.isActive = z.isActive
                   /\ v \in Conns /\ v.isFailover = z.isFailover /\ v.misses = z.misses
                   /\ v.isActive = z.isActive
    BY DEF Conns
  <2>3. CASE y = MissDelayPasses(x)
    BY <2>1, <2>3
  <2>4. CASE y = PrimaryDisconnectDelayPasses(x)
    <3> DEFINE z == MissDelayPasses(x)
               b == z.disconnected \/ ~x.isFailover
    <3>1. y = [z EXCEPT !.disconnected = b] /\ b \in BOOLEAN
      BY <2>4 DEF PrimaryDisconnectDelayPasses
    <3> HIDE DEF z, b
    <3> QED BY <2>1, <2>2, <3>1 DEF z
  <2>5. CASE y = PrimaryForceBackDelayPasses(x)
    <3> DEFINE b == ~x.isFailover
    <3>1. y = [x EXCEPT !.forceBack = b] /\ b \in BOOLEAN
      BY <2>5 DEF PrimaryForceBackDelayPasses
    <3> HIDE DEF b
    <3> QED BY <1>1, <2>2, <3>1
  <2> QED BY <2>3, <2>4, <2>5 DEF Passing
<1>3. MissesMax(y) = MissesMax(x)
  BY <1>2 DEF MissesMax
<1> QED BY <1>1, <1>2, <1>3 DEF ConnOK

-------------------------------------------------------------------------------
(***************************************************************************)
(* The updates of a client.                                                *)
(***************************************************************************)
\* What the applications ask may be sent, once a write has its data.
LEMMA AskedFrames ==
    ASSUME Deployment, NEW f \in Asked
    PROVE  f \in Frames /\ f.pdu \in Seq(Byte) /\ f.id \in {0, SlaveID}
           /\ IsRequestHeader(f.pdu) /\ (Reads(f.pdu) => f.pdu \in ReadPdus)
<1>1. f \in [id : {0, SlaveID}, pdu : Seq(Byte), ok : {TRUE}]
  BY FailoverClientsAssumption DEF Asked
<1>2. IsRequestHeader(f.pdu) /\ (f.id = 0 => IsWriteToServer(GetFunctionCode(f.pdu)))
  BY DEF Deployment
<1>3. GetFunctionCode(f.pdu) \in {1, 2, 3, 4, 5, 6, 15, 16}
  BY <1>1, <1>2, HeaderNumbers
<1>4. f.id = 0 => ~Reads(f.pdu)
  BY <1>2, <1>3 DEF Reads, IsReadToServer, IsWriteToServer
<1>5. f \in [id : {0, SlaveID}, pdu : Seq(Byte), ok : BOOLEAN]
  BY <1>1
<1> QED BY <1>1, <1>2, <1>4, <1>5 DEF Frames, ReadPdus

LEMMA EmptyFrame ==
    /\ Sendable(MakeRTU(0, << >>)) /\ MakeRTU(0, << >>).id = 0
    /\ ~Reads(<< >>) /\ << >> \notin ReadPdus
<1>1. ~Reads(<< >>)
  BY DEF Reads, GetFunctionCode, IsReadToServer
<1>2. MakeRTU(0, << >>) = [id |-> 0, pdu |-> << >>, ok |-> TRUE]
  BY DEF MakeRTU
<1>3. [id |-> 0, pdu |-> << >>, ok |-> TRUE] \in [id : {0, SlaveID}, pdu : Seq(Byte), ok : BOOLEAN]
  OBVIOUS
<1>4. << >> \notin ReadPdus
  BY <1>1 DEF ReadPdus
<1> DEFINE f == MakeRTU(0, << >>)
<1>5. f \in [id : {0, SlaveID}, pdu : Seq(Byte), ok : BOOLEAN] /\ f.id = 0 /\ f.pdu = << >>
  <2>1. f.id = 0 /\ f.pdu = << >>
    BY <1>2
  <2> QED BY <1>2, <1>3, <2>1
<1> HIDE DEF f
<1>6. f \in Frames /\ Plain(f.pdu)
  BY <1>1, <1>5 DEF Frames, Plain
<1> QED BY <1>1, <1>4, <1>5, <1>6 DEF Sendable, Bus, f

\* The fields that a step of Serve or of the reader leaves alone.
SameBus(c, d) == d.closed = c.closed /\ d.inbox = c.inbox /\ d.last = c.last /\ d.mem = c.mem
SameCall(c, d) == d.serve = c.serve /\ d.act = c.act /\ d.calls = c.calls

LEMMA UpdateReceived ==
    ASSUME NEW c, IsClient(c), c.actions # << >>
    PROVE  LET d == Received(c)
           IN  /\ IsClient(d) /\ SameBus(c, d) /\ SameCall(c, d)
               /\ d.conn = c.conn /\ d.reader = c.reader /\ d.actions = Tail(c.actions)
<1>1. Tail(c.actions) \in Seq(Signals)
  BY DEF IsClient
<1> QED BY <1>1 DEF IsClient, Received, SameBus, SameCall

LEMMA UpdateTakes ==
    ASSUME NEW c, IsClient(c), c.actions # << >>
    PROVE  LET d == TakesPacket(c)
           IN  /\ IsClient(d) /\ SameBus(c, d) /\ SameCall(c, d)
               /\ d.conn = c.conn /\ d.reader = "reading" /\ d.actions = Tail(c.actions)
<1> DEFINE d == Received(c)
<1>1. /\ IsClient(d) /\ SameBus(c, d) /\ SameCall(c, d)
      /\ d.conn = c.conn /\ d.actions = Tail(c.actions)
  BY UpdateReceived
<1>2. TakesPacket(c) = [d EXCEPT !.reader = "reading"]
  BY DEF TakesPacket
<1> HIDE DEF d
<1> QED BY <1>1, <1>2 DEF IsClient, SameBus, SameCall

LEMMA UpdateAnswered ==
    ASSUME NEW c, IsClient(c)
    PROVE  LET d == Answered(c)
           IN  /\ IsClient(d) /\ SameBus(c, d) /\ d.serve = "actions"
               /\ d.act = MakeRTU(0, << >>) /\ d.calls = c.calls - 1
               /\ d.conn = c.conn /\ d.reader = c.reader /\ d.actions = c.actions
<1> DEFINE f == MakeRTU(0, << >>)
<1>1. f \in Frames /\ c.calls - 1 \in Int
  BY EmptyFrame DEF Sendable, Bus, IsClient
<1>2. Answered(c) = [c EXCEPT !.serve = "actions", !.calls = c.calls - 1, !.act = f]
  BY DEF Answered
<1> HIDE DEF f
<1> QED BY <1>1, <1>2 DEF IsClient, SameBus, f

LEMMA UpdateEnded ==
    ASSUME NEW c, IsClient(c)
    PROVE  LET d == Ended(c)
           IN  /\ IsClient(d) /\ d.closed /\ d.serve = "ended"
               /\ d.act = c.act /\ d.calls = c.calls
               /\ d.conn = c.conn /\ d.reader = c.reader /\ d.actions = c.actions
<1>1. << >> \in Seq(Frames)
  OBVIOUS
<1> QED BY <1>1 DEF IsClient, Ended

LEMMA UpdateHears ==
    ASSUME NEW c, IsClient(c), NEW f \in Frames
    PROVE  LET d == Hears(c, f)
           IN  /\ IsClient(d) /\ SameCall(c, d) /\ d.closed = c.closed
               /\ d.last = c.last /\ d.mem = c.mem
               /\ d.conn = c.conn /\ d.reader = c.reader /\ d.actions = c.actions
               /\ ~c.closed => d.inbox = Append(c.inbox, f)
<1>1. Append(c.inbox, f) \in Seq(Frames)
  BY DEF IsClient
<1>2. CASE c.closed
  BY <1>2 DEF Hears, SameCall
<1>3. CASE ~c.closed
  BY <1>1, <1>3 DEF IsClient, Hears, SameCall
<1> QED BY <1>2, <1>3

LEMMA UpdateConn ==
    ASSUME NEW c, IsClient(c), NEW x \in Conns
    PROVE  LET d == [c EXCEPT !.conn = x]
           IN  /\ IsClient(d) /\ SameBus(c, d) /\ SameCall(c, d)
               /\ d.conn = x /\ d.reader = c.reader /\ d.actions = c.actions
BY DEF IsClient, SameBus, SameCall

LEMMA UpdateServe ==
    ASSUME NEW c, IsClient(c), NEW x \in {"actions", "sent", "dropped", "reply", "ended"}
    PROVE  LET d == [c EXCEPT !.serve = x]
           IN  /\ IsClient(d) /\ SameBus(c, d) /\ d.serve = x
               /\ d.act = c.act /\ d.calls = c.calls
               /\ d.conn = c.conn /\ d.reader = c.reader /\ d.actions = c.actions
BY DEF IsClient, SameBus

LEMMA UpdateLast ==
    ASSUME NEW c, IsClient(c), NEW l \in Seq(Byte)
    PROVE  LET d == [c EXCEPT !.last = l]
           IN  /\ IsClient(d) /\ SameCall(c, d) /\ d.closed = c.closed
               /\ d.inbox = c.inbox /\ d.last = l /\ d.mem = c.mem
               /\ d.conn = c.conn /\ d.reader = c.reader /\ d.actions = c.actions
BY DEF IsClient, SameCall

\* The client as it is created.
LEMMA NewClientOK ==
    ASSUME NEW n \in Nodes, IsMemory(LocalMemory)
    PROVE  ClientOK(n, NewClient(n))
<1> DEFINE c == NewClient(n)
           x == NewFailoverConn(n = Failover)
           f == MakeRTU(0, << >>)
<1>1. x \in Conns /\ x.isFailover = (n = Failover) /\ x.misses = 0
  BY DEF NewFailoverConn, Conns, RequestTimes
<1>2. f \in Frames /\ Sendable(f)
  BY EmptyFrame DEF Sendable, Bus
<1>3. ConnOK(n, x)
  BY <1>1, MissesMaxNat DEF ConnOK
<1> HIDE DEF x, f
<1>4. << >> \in Seq(Frames) /\ << >> \in Seq(Signals) /\ << >> \in Seq(Byte)
  OBVIOUS
<1>5. c = [conn |-> x, closed |-> FALSE, inbox |-> << >>,
           reader |-> "reading", actions |-> << >>, serve |-> "actions",
           act |-> f, last |-> << >>, mem |-> LocalMemory, calls |-> 0]
  BY DEF NewClient, x, f
<1> HIDE DEF c
<1>6. IsClient(c)
  BY <1>1, <1>2, <1>4, <1>5 DEF IsClient
<1>7. /\ c.conn = x /\ c.actions = << >> /\ c.reader = "reading" /\ c.serve = "actions"
      /\ c.act = f /\ c.calls = 0
  BY <1>5
<1>8. Channel(c.actions, c.reader)
  BY <1>7 DEF Channel
<1>9. Calls(c)
  BY <1>7 DEF Calls, Awaited, Extra
<1> QED BY <1>2, <1>3, <1>6, <1>7, <1>8, <1>9 DEF ClientOK, c

-------------------------------------------------------------------------------
(***************************************************************************)
(* The steps of a client keep it well formed.                              *)
(***************************************************************************)
LEMMA Counting ==
    /\ \A s : Awaited(s) \in Nat
    /\ \A s \in {"sent", "dropped", "reply"} : Awaited(s) = 1
    /\ \A s \in {"actions", "ended"} : Awaited(s) = 0
    /\ \A r : Extra(r) \in Nat /\ Extra(r) <= 1
    /\ Extra("sending") = 1 /\ \A r \in {"reading", "ended"} : Extra(r) = 0
<1>1. /\ \A s : Awaited(s) \in Nat
      /\ \A s \in {"sent", "dropped", "reply"} : Awaited(s) = 1
      /\ \A s \in {"actions", "ended"} : Awaited(s) = 0
  BY DEF Awaited
<1>2. /\ \A r : Extra(r) \in Nat /\ Extra(r) <= 1
      /\ Extra("sending") = 1 /\ \A r \in {"reading", "ended"} : Extra(r) = 0
  BY DEF Extra
<1> QED BY <1>1, <1>2

\* Outstanding calls are neither lost nor invented.
LEMMA CallsKeep ==
    ASSUME NEW a, NEW b, Calls(a), a.calls \in Int, b.calls \in Int,
           NEW k \in Nat, NEW l \in Nat, Len(a.actions) = k, Len(b.actions) = l,
           l + Awaited(b.serve) + a.calls + Extra(a.reader)
             <= k + Awaited(a.serve) + b.calls + Extra(b.reader)
    PROVE  Calls(b)
<1>1. /\ Awaited(a.serve) \in Nat /\ Awaited(b.serve) \in Nat
      /\ Extra(a.reader) \in Nat /\ Extra(b.reader) \in Nat
  BY Counting
<1>2. k + Awaited(a.serve) <= a.calls + Extra(a.reader)
  BY DEF Calls
<1>3. l + Awaited(b.serve) <= b.calls + Extra(b.reader)
  BY <1>1, <1>2
<1> QED BY <1>3 DEF Calls

\* Time passes for it.
LEMMA PassesOK ==
    ASSUME NEW n, NEW c, ClientOK(n, c), NEW x, Passing(c.conn, x) \/ x = c.conn
    PROVE  LET d == [c EXCEPT !.conn = x]
           IN  /\ ClientOK(n, d) /\ SameBus(c, d) /\ SameCall(c, d)
               /\ d.reader = c.reader /\ d.actions = c.actions
<1> DEFINE d == [c EXCEPT !.conn = x]
<1>1. IsClient(c) /\ ConnOK(n, c.conn)
  BY DEF ClientOK
<1>2. ConnOK(n, x) /\ x.isActive = c.conn.isActive
  BY <1>1, PassesConn
<1>3. x \in Conns
  BY <1>2 DEF ConnOK
<1>4. /\ IsClient(d) /\ SameBus(c, d) /\ SameCall(c, d)
      /\ d.conn = x /\ d.reader = c.reader /\ d.actions = c.actions
  BY <1>1, <1>3, UpdateConn
<1> HIDE DEF d
<1>5. Channel(d.actions, d.reader) /\ Calls(d)
  BY <1>4 DEF ClientOK, Calls, SameCall
<1>6. ClientOK(n, d)
  BY <1>2, <1>4, <1>5 DEF ClientOK, SameCall
<1> QED BY <1>4, <1>6 DEF d

\* The reader offers a packet or an error.
LEMMA OffersOK ==
    ASSUME NEW n, NEW c, ClientOK(n, c), c.reader = "reading", NEW f \in Frames,
           NEW t \in {"clientRead", "clientError"}, NEW d, IsClient(d), SameCall(c, d),
           d.reader = "sending", d.actions = Append(c.actions, Sending(t, f)),
           ConnOK(n, d.conn), d.conn.isActive => c.conn.isActive
    PROVE  ClientOK(n, d)
<1>1. c.actions \in Seq(Signals) /\ c.calls \in Int
  BY DEF ClientOK, IsClient
<1>2. Channel(c.actions, "reading")
  BY DEF ClientOK
<1>3. Channel(d.actions, d.reader) /\ Len(d.actions) = Len(c.actions) + 1
  BY <1>1, <1>2, ChannelRead
<1>4. Len(c.actions) \in Nat
  BY <1>1
<1>5. Calls(d)
  <2> DEFINE k == Len(c.actions)
  <2>1. /\ Extra(c.reader) = 0 /\ Extra(d.reader) = 1 /\ Awaited(c.serve) \in Nat
        /\ d.serve = c.serve /\ d.calls = c.calls /\ k \in Nat /\ Len(d.actions) = k + 1
    BY <1>3, <1>4, Counting DEF SameCall
  <2> HIDE DEF k
  <2>2. /\ k + 1 \in Nat
        /\ (k + 1) + Awaited(d.serve) + c.calls + Extra(c.reader)
             <= k + Awaited(c.serve) + d.calls + Extra(d.reader)
    BY <1>1, <2>1
  <2>3. Calls(c)
    BY DEF ClientOK
  <2> QED BY <1>1, <2>1, <2>2, <2>3, CallsKeep DEF k
<1> QED BY <1>3, <1>5 DEF ClientOK, SameCall

\* What is received from the channel leaves of it.
LEMMA ReceivedOK ==
    ASSUME NEW n, NEW c, ClientOK(n, c), c.actions # << >>
    PROVE  LET h == Head(c.actions)
               t == Tail(c.actions)
           IN  /\ h \in Signals /\ t \in Seq(Signals) /\ h.data \in Frames
               /\ Len(t) \in Nat /\ Len(c.actions) = Len(t) + 1
               /\ h.t = "clientStart" => /\ Channel(t, c.reader) /\ h.data \in Asked
                                         /\ c.reader = "sending" => t # << >>
               /\ h.t # "clientStart" => /\ c.reader = "sending"
                                         /\ Channel(t, "reading") /\ Channel(t, "ended")
<1> DEFINE a == c.actions
           h == Head(a)
           t == Tail(a)
<1>1. a \in Seq(Signals) /\ Channel(a, c.reader)
  BY DEF ClientOK, IsClient
<1> HIDE DEF a
<1>2. a # << >>
  BY DEF a
<1>3. /\ t \in Seq(Signals) /\ Len(a) \in Nat /\ Len(t) = Len(a) - 1 /\ h \in Signals
      /\ h.t = "clientStart" => /\ Channel(t, c.reader) /\ h.data \in Asked
                                /\ c.reader = "sending" => Len(t) >= 1
      /\ h.t # "clientStart" => /\ c.reader = "sending"
                                /\ \A r \in {"reading", "ended"} : Channel(t, r)
  BY <1>1, <1>2, ChannelTail
<1> HIDE DEF h, t
<1>4. Len(t) \in Nat /\ Len(a) = Len(t) + 1
  BY <1>3
<1>5. Len(t) >= 1 => t # << >>
  OBVIOUS
<1>6. h.data \in Frames
  BY <1>3 DEF Signals
<1> QED BY <1>3, <1>4, <1>5, <1>6 DEF a, h, t

\* Serve takes a packet, and the transaction goes on or is answered.
LEMMA TakenOK ==
    ASSUME NEW n, NEW c, ClientOK(n, c), c.actions # << >>, Head(c.actions).t # "clientStart",
           NEW d, IsClient(d), d.conn = c.conn, d.actions = Tail(c.actions),
           \/ SameCall(c, d) /\ d.reader = "reading"
           \/ /\ d.act = MakeRTU(0, << >>) /\ d.serve = "actions" /\ d.reader = "reading"
              /\ c.serve = "reply" /\ d.calls = c.calls - 1
           \/ d.act = c.act /\ d.serve = "ended" /\ d.reader = "ended" /\ d.calls = c.calls
    PROVE  ClientOK(n, d)
<1>1. /\ Channel(Tail(c.actions), "reading") /\ Channel(Tail(c.actions), "ended")
      /\ c.reader = "sending" /\ Len(Tail(c.actions)) \in Nat
      /\ Len(c.actions) = Len(Tail(c.actions)) + 1
  BY ReceivedOK
<1>2. c.calls \in Int /\ d.reader \in {"reading", "ended"}
  BY DEF ClientOK, IsClient
<1>3. Channel(d.actions, d.reader)
  BY <1>1, <1>2
<1>4. Calls(d)
  <2> DEFINE l == Len(d.actions)
  <2>1. /\ Extra(c.reader) = 1 /\ Extra(d.reader) = 0 /\ Awaited(c.serve) \in Nat
        /\ l \in Nat /\ Len(c.actions) = l + 1
    BY <1>1, <1>2, Counting
  <2>2. \/ Awaited(d.serve) = Awaited(c.serve) /\ d.calls = c.calls
        \/ Awaited(d.serve) = 0 /\ Awaited(c.serve) = 1 /\ d.calls = c.calls - 1
        \/ Awaited(d.serve) = 0 /\ d.calls = c.calls
    BY Counting DEF SameCall
  <2> HIDE DEF l
  <2>3. /\ l + 1 \in Nat /\ d.calls \in Int
        /\ l + Awaited(d.serve) + c.calls + Extra(c.reader)
             <= (l + 1) + Awaited(c.serve) + d.calls + Extra(d.reader)
    BY <1>2, <2>1, <2>2
  <2>4. Calls(c)
    BY DEF ClientOK
  <2> QED BY <1>2, <2>1, <2>3, <2>4, CallsKeep DEF l
<1>5. Sendable(d.act) /\ (d.serve = "dropped" => ~d.conn.isActive)
      /\ (d.serve = "reply" => d.act.id # 0)
  BY EmptyFrame DEF ClientOK, SameCall
<1> QED BY <1>3, <1>4, <1>5 DEF ClientOK

\* Serve takes a transaction, and it is on its way, answered, or the end of Serve.
LEMMA StartedOK ==
    ASSUME NEW n, NEW c, ClientOK(n, c), c.actions # << >>, Head(c.actions).t = "clientStart",
           NEW d, IsClient(d), ConnOK(n, d.conn), d.actions = Tail(c.actions),
           d.reader = c.reader, Sendable(d.act),
           \/ d.serve \in {"sent", "dropped"} /\ d.calls = c.calls /\ c.serve = "actions"
           \/ d.serve \in {"actions", "ended"} /\ d.calls = c.calls - 1,
           d.serve = "dropped" => ~d.conn.isActive
    PROVE  ClientOK(n, d)
<1>1. /\ Channel(Tail(c.actions), c.reader) /\ Len(Tail(c.actions)) \in Nat
      /\ Len(c.actions) = Len(Tail(c.actions)) + 1
  BY ReceivedOK
<1>2. c.calls \in Int
  BY DEF ClientOK, IsClient
<1>3. Channel(d.actions, d.reader)
  BY <1>1
<1>4. Calls(d)
  <2> DEFINE l == Len(d.actions)
  <2>1. /\ Extra(d.reader) = Extra(c.reader) /\ Extra(c.reader) \in Nat
        /\ Awaited(c.serve) \in Nat /\ l \in Nat /\ Len(c.actions) = l + 1
    BY <1>1, Counting
  <2>2. \/ Awaited(d.serve) = 1 /\ Awaited(c.serve) = 0 /\ d.calls = c.calls
        \/ Awaited(d.serve) = 0 /\ d.calls = c.calls - 1
    BY Counting
  <2> HIDE DEF l
  <2>3. /\ l + 1 \in Nat /\ d.calls \in Int
        /\ l + Awaited(d.serve) + c.calls + Extra(c.reader)
             <= (l + 1) + Awaited(c.serve) + d.calls + Extra(d.reader)
    BY <1>2, <2>1, <2>2
  <2>4. Calls(c)
    BY DEF ClientOK
  <2> QED BY <1>2, <2>1, <2>3, <2>4, CallsKeep DEF l
<1>5. d.serve # "reply"
  OBVIOUS
<1> QED BY <1>3, <1>4, <1>5 DEF ClientOK

\* A transaction that was written is answered, or waits for its reply.
LEMMA WrittenOK ==
    ASSUME NEW n, NEW c, ClientOK(n, c), c.serve \in {"sent", "dropped", "reply"},
           NEW d, IsClient(d), ConnOK(n, d.conn), d.actions = c.actions, d.reader = c.reader,
           \/ d.act = c.act /\ d.serve = "reply" /\ c.act.id # 0 /\ d.calls = c.calls
           \/ d.act = MakeRTU(0, << >>) /\ d.serve = "actions" /\ d.calls = c.calls - 1
    PROVE  ClientOK(n, d)
<1>1. c.calls \in Int /\ Len(c.actions) \in Nat
  BY DEF ClientOK, IsClient
<1>2. Channel(d.actions, d.reader)
  BY DEF ClientOK
<1>3. Calls(d)
  <2> DEFINE l == Len(c.actions)
  <2>1. /\ Extra(d.reader) = Extra(c.reader) /\ Extra(c.reader) \in Nat
        /\ Awaited(c.serve) = 1 /\ l \in Nat /\ Len(d.actions) = l
    BY <1>1, Counting
  <2>2. \/ Awaited(d.serve) = 1 /\ d.calls = c.calls
        \/ Awaited(d.serve) = 0 /\ d.calls = c.calls - 1
    BY Counting
  <2> HIDE DEF l
  <2>3. /\ d.calls \in Int
        /\ l + Awaited(d.serve) + c.calls + Extra(c.reader)
             <= l + Awaited(c.serve) + d.calls + Extra(d.reader)
    BY <1>1, <2>1, <2>2
  <2>4. Calls(c)
    BY DEF ClientOK
  <2> QED BY <1>1, <2>1, <2>3, <2>4, CallsKeep DEF l
<1>4. Sendable(d.act) /\ d.serve # "dropped" /\ (d.serve = "reply" => d.act.id # 0)
  BY EmptyFrame DEF ClientOK
<1> QED BY <1>2, <1>3, <1>4 DEF ClientOK

\* A packet is heard.
LEMMA HearsOK ==
    ASSUME NEW n, NEW c, ClientOK(n, c), NEW f \in Frames
    PROVE  ClientOK(n, Hears(c, f))
<1> DEFINE d == Hears(c, f)
<1>1. IsClient(c)
  BY DEF ClientOK
<1>2. /\ IsClient(d) /\ SameCall(c, d)
      /\ d.conn = c.conn /\ d.reader = c.reader /\ d.actions = c.actions
  BY <1>1, UpdateHears
<1> HIDE DEF d
<1>3. Channel(d.actions, d.reader) /\ Calls(d)
  BY <1>2 DEF ClientOK, Calls, SameCall
<1>4. ClientOK(n, d)
  BY <1>2, <1>3 DEF ClientOK, SameCall
<1> QED BY <1>4 DEF d

\* A caller offers a request.
LEMMA AskedOK ==
    ASSUME Deployment, NEW n, NEW c, ClientOK(n, c), NEW f \in Asked
    PROVE  LET d == [c EXCEPT !.calls = @ + 1,
                              !.actions = Append(@, Sending("clientStart", f))]
           IN  /\ ClientOK(n, d) /\ SameBus(c, d) /\ d.serve = c.serve /\ d.act = c.act
               /\ d.reader = c.reader
               /\ d.actions = Append(c.actions, Sending("clientStart", f))
<1> DEFINE a == Append(c.actions, Sending("clientStart", f))
           d == [c EXCEPT !.calls = c.calls + 1, !.actions = a]
<1>1. /\ IsClient(c) /\ c.actions \in Seq(Signals) /\ Channel(c.actions, c.reader)
      /\ c.calls \in Int /\ Len(c.actions) \in Nat
  BY DEF ClientOK, IsClient
<1>2. a \in Seq(Signals) /\ Channel(a, c.reader) /\ Len(a) = Len(c.actions) + 1
  BY <1>1, AskedFrames, ChannelStart
<1>3. c.calls + 1 \in Int
  BY <1>1
<1> HIDE DEF a
<1>4. /\ IsClient(d) /\ SameBus(c, d) /\ d.serve = c.serve /\ d.act = c.act
      /\ d.conn = c.conn /\ d.reader = c.reader /\ d.actions = a /\ d.calls = c.calls + 1
  BY <1>1, <1>2, <1>3 DEF IsClient, SameBus
<1>5. d = [c EXCEPT !.calls = @ + 1, !.actions = Append(@, Sending("clientStart", f))]
  BY DEF a
<1> HIDE DEF d
<1>6. Calls(d)
  <2>1. Extra(c.reader) \in Nat /\ Awaited(c.serve) \in Nat
    BY DEF Extra, Awaited
  <2> QED BY <1>1, <1>2, <1>4, <2>1 DEF ClientOK, Calls
<1>7. ClientOK(n, d)
  BY <1>2, <1>4, <1>6 DEF ClientOK
<1> QED BY <1>4, <1>5, <1>7 DEF a

-------------------------------------------------------------------------------
(***************************************************************************)
(* How a client that no packet escaped follows the bus: the packet that    *)
(* the reader offers and those in the inbox turn its memory into what the  *)
(* server has told, paired with what Serve expects an answer to.           *)
(***************************************************************************)
Readable(f) == GetPDU(f).err = NoErr

\* No error will end Serve before it has taken what was heard.
Sound(c) == NoError(c.actions) /\ \A i \in 1..Len(c.inbox) : Readable(c.inbox[i])

\* The packet that Serve pairs the next one with.
Waiting(c) == c.serve \in {"sent", "reply"} /\ c.act.id # 0
Expects(c) == IF Waiting(c) THEN c.act.pdu ELSE c.last

\* Once Serve has taken what the reader offers its memory is m, and e was the packet.
Pending(c, m, e) ==
    \/ c.reader # "sending" /\ m = c.mem /\ e \in {<< >>, Expects(c)}
    \/ /\ c.reader = "sending"
       /\ \E d \in {<< >>, Expects(c)} : \E f :
             Holds(c.actions, f) /\ Turns(c.mem, d, f.pdu, m) /\ e = f.pdu

\* The packets q turn m into t, and the last packet is the read, if it is one, that the
\* server will answer next.
Asks(s, r) == s # << >> /\ Reads(Head(s).pdu) => r = Head(s).pdu
Sees(m, e, q, t, s) == Replay(m, e, q, t) /\ Asks(s, LastOf(e, q))

Following(c, t, s) ==
    ~c.closed /\ Sound(c) =>
       Plain(c.last) /\ \E m, e : Pending(c, m, e) /\ Sees(m, e, c.inbox, t, s)

\* Nothing that matters has changed.
LEMMA FollowSame ==
    ASSUME NEW c, NEW d, NEW t, NEW s, Following(c, t, s),
           SameBus(c, d), d.reader = c.reader, Expects(d) = Expects(c),
           NoError(d.actions) => NoError(c.actions),
           \A f : Holds(c.actions, f) => Holds(d.actions, f)
    PROVE  Following(d, t, s)
<1> SUFFICES ASSUME ~d.closed, Sound(d)
             PROVE  Plain(d.last) /\ \E m, e : Pending(d, m, e) /\ Sees(m, e, d.inbox, t, s)
  BY DEF Following
<1>1. ~c.closed /\ Sound(c)
  BY DEF SameBus, Sound
<1>2. Plain(c.last)
  BY <1>1 DEF Following
<1>3. PICK m, e : Pending(c, m, e) /\ Sees(m, e, c.inbox, t, s)
  BY <1>1 DEF Following
<1>4. Pending(d, m, e)
  BY <1>3 DEF Pending, SameBus
<1> QED BY <1>2, <1>3, <1>4 DEF SameBus

\* The server has nothing to answer any more.
LEMMA FollowSilence ==
    ASSUME NEW c, NEW t, NEW s, Following(c, t, s)
    PROVE  Following(c, t, << >>)
BY DEF Following, Sees, Asks

\* A client that has taken everything has what the server told.
LEMMA FollowQuiet ==
    ASSUME NEW c, NEW t, NEW s, Following(c, t, s),
           ~c.closed, c.inbox = << >>, NoError(c.actions), c.reader # "sending"
    PROVE  c.mem = t /\ Plain(c.last)
<1>1. Sound(c)
  BY DEF Sound
<1>2. PICK m, e : Pending(c, m, e) /\ Sees(m, e, c.inbox, t, s)
  BY <1>1 DEF Following
<1>3. m = c.mem /\ Replay(m, e, << >>, t)
  BY <1>2 DEF Pending, Sees
<1>4. c.mem = t
  BY <1>3, ReplayEmpty
<1> QED BY <1>1, <1>4 DEF Following

\* And the other way round.
LEMMA FollowArrived ==
    ASSUME NEW d, NEW t, NEW s, d.inbox = << >>, d.reader # "sending", d.mem = t,
           Plain(d.last), Asks(s, Expects(d))
    PROVE  Following(d, t, s)
<1>1. Pending(d, t, Expects(d))
  BY DEF Pending
<1>2. Replay(t, Expects(d), << >>, t)
  BY ReplayEmpty
<1>3. Sees(t, Expects(d), d.inbox, t, s)
  BY <1>2 DEF Sees, LastOf
<1> QED BY <1>1, <1>3 DEF Following

\* The reader takes a packet from the inbox and offers it.
LEMMA LastOfTail ==
    ASSUME NEW q, IsSeq(q), q # << >>, NEW r
    PROVE  LastOf(Head(q).pdu, Tail(q)) = LastOf(r, q)
<1> DEFINE t == Tail(q)
           n == Len(q)
<1>1. /\ n \in Nat /\ n >= 1 /\ Len(t) = n - 1 /\ Head(q) = q[1] /\ IsSeq(t)
      /\ \A i \in 1..(n - 1) : t[i] = q[i + 1]
  BY SeqTail
<1> HIDE DEF t
<1>2. (Len(t) = 0 => t = << >>) /\ (t = << >> => Len(t) = 0)
  BY <1>1, SeqLenZero
<1>3. CASE n = 1
  <2>1. t = << >>
    BY <1>1, <1>2, <1>3
  <2> QED BY <1>1, <1>3, <2>1 DEF LastOf, t
<1>4. CASE n # 1
  <2> HIDE DEF n
  <2>1. t # << >> /\ n - 1 \in 1..(n - 1) /\ (n - 1) + 1 = n
    BY <1>1, <1>2, <1>4
  <2>2. t[Len(t)] = q[n]
    BY <1>1, <2>1
  <2>3. LastOf(Head(q).pdu, t) = t[Len(t)].pdu
    BY <2>1 DEF LastOf
  <2> QED BY <2>2, <2>3 DEF LastOf, t, n
<1> QED BY <1>3, <1>4

LEMMA ReadableTail ==
    ASSUME NEW q, IsSeq(q), q # << >>, Readable(Head(q)),
           \A i \in 1..Len(Tail(q)) : Readable(Tail(q)[i])
    PROVE  \A i \in 1..Len(q) : Readable(q[i])
<1> DEFINE t == Tail(q)
           n == Len(q)
<1>1. /\ n \in Nat /\ n >= 1 /\ Len(t) = n - 1 /\ Head(q) = q[1]
      /\ \A i \in 1..(n - 1) : t[i] = q[i + 1]
  BY SeqTail
<1> HIDE DEF t, n
<1>2. ASSUME NEW i \in 1..n PROVE Readable(q[i])
  <2>1. CASE i = 1
    BY <1>1, <2>1
  <2>2. CASE i # 1
    <3>1. i - 1 \in 1..(n - 1) /\ (i - 1) + 1 = i
      BY <1>1, <2>2
    <3>2. t[i - 1] = q[i]
      BY <1>1, <3>1
    <3>3. Readable(t[i - 1])
      BY <1>1, <3>1 DEF t
    <3> QED BY <3>2, <3>3
  <2> QED BY <2>1, <2>2
<1> QED BY <1>2 DEF n

LEMMA FollowRead ==
    ASSUME NEW c, IsClient(c), NEW t, NEW s, Following(c, t, s),
           c.reader = "reading", c.inbox # << >>, NEW d,
           d.closed = c.closed, d.last = c.last, d.mem = c.mem,
           d.serve = c.serve, d.act = c.act,
           d.reader = "sending", d.inbox = Tail(c.inbox),
           LET f == Head(c.inbox)
           IN  d.actions = Append(c.actions,
                             Sending(IF Readable(f) THEN "clientRead" ELSE "clientError", f))
    PROVE  Following(d, t, s)
<1> DEFINE q == c.inbox
           f == Head(q)
           k == IF Readable(f) THEN "clientRead" ELSE "clientError"
           x == Sending(k, f)
<1>1. IsSeq(q) /\ f \in Frames /\ c.actions \in Seq(Signals)
  BY DEF IsClient, IsSeq
<1>2. x \in Signals /\ x.t = k /\ x.data = f
  BY <1>1 DEF Sending, Signals
<1>3. d.actions = Append(c.actions, x)
  OBVIOUS
<1> SUFFICES ASSUME ~d.closed, Sound(d)
             PROVE  Plain(d.last) /\ \E m, e : Pending(d, m, e) /\ Sees(m, e, d.inbox, t, s)
  BY DEF Following
<1> HIDE DEF x, k, q
<1>4. NoError(c.actions) /\ x.t # "clientError"
  BY <1>1, <1>2, <1>3, ChannelHolds DEF Sound
<1>5. Readable(f) /\ x.t = "clientRead"
  BY <1>2, <1>4 DEF k
<1>6. Sound(c)
  <2>1. \A i \in 1..Len(Tail(q)) : Readable(Tail(q)[i])
    BY DEF Sound, q
  <2>2. \A i \in 1..Len(q) : Readable(q[i])
    BY <1>1, <1>5, <2>1, ReadableTail DEF q
  <2> QED BY <1>4, <2>2 DEF Sound, q
<1>7. PICK m, e : Pending(c, m, e) /\ Sees(m, e, q, t, s)
  BY <1>6 DEF Following, q
<1>8. m = c.mem /\ e \in {<< >>, Expects(c)}
  BY <1>7 DEF Pending
<1>9. PICK u : Turns(m, e, f.pdu, u) /\ Replay(u, f.pdu, Tail(q), t)
  <2>1. Replay(m, e, q, t) /\ q # << >>
    BY <1>7 DEF Sees, q
  <2> QED BY <1>1, <2>1, ReplayHead
<1>10. Pending(d, u, f.pdu)
  <2>1. Holds(d.actions, f)
    BY <1>1, <1>2, <1>3, <1>5, ChannelHolds
  <2>2. Expects(d) = Expects(c)
    BY DEF Expects, Waiting
  <2> QED BY <1>8, <1>9, <2>1, <2>2 DEF Pending
<1>11. Sees(u, f.pdu, d.inbox, t, s)
  <2>1. LastOf(f.pdu, Tail(q)) = LastOf(e, q)
    BY <1>1, LastOfTail DEF q
  <2> QED BY <1>7, <1>9, <2>1 DEF Sees, q
<1> QED BY <1>6, <1>10, <1>11 DEF Following

\* A packet is heard.
LEMMA FollowHears ==
    ASSUME NEW c, IsClient(c), NEW t, NEW s, Following(c, t, s), NEW f \in Frames,
           NEW u, NEW z, \A r : Asks(s, r) => Turns(t, r, f.pdu, u), Asks(z, f.pdu)
    PROVE  Following(Hears(c, f), u, z)
<1> DEFINE d == Hears(c, f)
           q == c.inbox
<1>1. /\ SameCall(c, d) /\ d.closed = c.closed /\ d.last = c.last /\ d.mem = c.mem
      /\ d.reader = c.reader /\ d.actions = c.actions
      /\ ~c.closed => d.inbox = Append(q, f)
  BY UpdateHears
<1>2. IsSeq(q) /\ q \in Seq(Frames)
  BY DEF IsClient, IsSeq
<1> HIDE DEF d, q
<1> SUFFICES ASSUME ~d.closed, Sound(d)
             PROVE  Plain(d.last) /\ \E m, e : Pending(d, m, e) /\ Sees(m, e, d.inbox, u, z)
  BY DEF Following, d
<1>3. d.inbox = Append(q, f) /\ ~c.closed
  BY <1>1
<1>4. Sound(c)
  <2> DEFINE n == Len(q)
  <2>1. n \in Nat /\ Len(d.inbox) = n + 1 /\ \A i \in 1..n : d.inbox[i] = q[i]
    BY <1>2, <1>3
  <2> HIDE DEF n
  <2>2. \A i \in 1..n : i \in 1..(n + 1)
    BY <2>1
  <2>3. \A i \in 1..n : Readable(q[i])
    BY <2>1, <2>2 DEF Sound
  <2> QED BY <1>1, <2>3 DEF Sound, n, q
<1>5. PICK m, e : Pending(c, m, e) /\ Sees(m, e, q, t, s)
  BY <1>3, <1>4 DEF Following, q
<1>6. Plain(d.last)
  BY <1>1, <1>3, <1>4 DEF Following
<1>7. Pending(d, m, e)
  <2>1. Expects(d) = Expects(c)
    BY <1>1 DEF Expects, Waiting, SameCall
  <2> QED BY <1>1, <1>5, <2>1 DEF Pending
<1>8. Sees(m, e, d.inbox, u, z)
  <2>1. Turns(t, LastOf(e, q), f.pdu, u) /\ Replay(m, e, q, t)
    BY <1>5 DEF Sees
  <2>2. Replay(m, e, Append(q, f), u) /\ LastOf(e, Append(q, f)) = f.pdu
    BY <1>2, <2>1, ReplayAppend
  <2> QED BY <1>3, <2>2 DEF Sees
<1> QED BY <1>6, <1>7, <1>8

-------------------------------------------------------------------------------
(***************************************************************************)
(* What Serve makes of a packet.                                           *)
(***************************************************************************)
\* What a reply carries may be written, whatever request it is paired with.
LEMMA ToldMemory ==
    ASSUME NEW m, IsMemory(m), NEW r \in Seq(Byte), NEW p \in Seq(Byte),
           IsRequestReply(r, p), GetReplyValues(p).err = NoErr
    PROVE  IsMemory(OnWrite(m, r, GetReplyValues(p).data).mem)
<1> DEFINE data == GetReplyValues(p).data
<1>1. /\ data \in Seq(Byte) /\ data # << >> /\ Len(data) = p[2] /\ p[2] < 256
  BY ReplyData
<1>2. Len(r) >= 3
  BY MatchedLen
<1> HIDE DEF data
<1>3. Len(data) \in Nat /\ Len(data) < 65536
  BY <1>1
<1>4. Intact(m, OnWrite(m, r, data))
  BY <1>1, <1>2, <1>3, OnWriteResult
<1> QED BY <1>4 DEF Intact, data

\* A packet that is paired is a reply to a read or to a write.
LEMMA MatchedCode ==
    ASSUME NEW r, NEW p, IsRequestReply(r, p)
    PROVE  /\ GetFunctionCode(p) = GetFunctionCode(r)
           /\ GetFunctionCode(p) \in {1, 2, 3, 4, 5, 6, 15, 16}
           /\ Reads(p) <=> Reads(r)
           /\ Reads(p) <=> ~IsWriteToServer(GetFunctionCode(p))
<1>1. GetFunctionCode(p) = GetFunctionCode(r)
  BY DEF IsRequestReply
<1> DEFINE k == GetRequestCount(r).count
<1>3. HeaderMatches(r, p, k)
  BY DEF IsRequestReply
<1> HIDE DEF k
<1>2. GetFunctionCode(r) \in {1, 2, 3, 4, 5, 6, 15, 16}
  BY <1>3 DEF HeaderMatches, FcReadCoils, FcReadDiscreteInputs,
         FcReadHoldingRegisters, FcReadInputRegisters, FcWriteSingleCoil,
         FcWriteSingleRegister, FcWriteMultipleCoils, FcWriteMultipleRegisters
<1> QED BY <1>1, <1>2 DEF Reads, IsReadToServer, IsWriteToServer

\* After a packet that is no request to read, it does not matter which it was.
LEMMA SeesAny ==
    ASSUME Deployment, NEW m, NEW p, p \notin ReadPdus, NEW q, IsSeq(q), NEW t, NEW s,
           s # << >> => Plain(Head(s).pdu), Sees(m, p, q, t, s), NEW x
    PROVE  Sees(m, x, q, t, s)
<1>1. Replay(m, x, q, t)
  BY ReplayAny DEF Sees
<1>2. Asks(s, LastOf(x, q))
  <2>1. CASE q = << >>
    <3>1. ~(s # << >> /\ Reads(Head(s).pdu))
      BY <2>1 DEF Sees, Asks, LastOf, Plain
    <3> QED BY <3>1 DEF Asks
  <2>2. CASE q # << >>
    BY <2>2 DEF Sees, LastOf
  <2> QED BY <2>1, <2>2
<1> QED BY <1>1, <1>2 DEF Sees

\* The packet that is taken: the memory it leads to, and what is seen after it.
LEMMA TakesHead ==
    ASSUME NEW c, IsClient(c), Channel(c.actions, c.reader), c.actions # << >>,
           Head(c.actions).t = "clientRead", NEW t, NEW s, Following(c, t, s),
           ~c.closed, NEW a, a = Tail(c.actions), NoError(a),
           \A i \in 1..Len(c.inbox) : Readable(c.inbox[i])
    PROVE  /\ Plain(c.last)
           /\ LET p == Head(c.actions).data.pdu
              IN  \E m : /\ \E d \in {<< >>, Expects(c)} : Turns(c.mem, d, p, m)
                         /\ Sees(m, p, c.inbox, t, s)
<1> DEFINE h == Head(c.actions)
<1>1. c.actions \in Seq(Signals)
  BY DEF IsClient
<1>2. NoError(c.actions)
  BY <1>1, ChannelKeeps
<1>3. Sound(c)
  BY <1>2 DEF Sound
<1>4. PICK m, e : Pending(c, m, e) /\ Sees(m, e, c.inbox, t, s)
  BY <1>3 DEF Following
<1>5. h.t # "clientStart"
  OBVIOUS
<1>6. c.reader = "sending"
  BY <1>1, <1>5, ChannelTail
<1>7. PICK d \in {<< >>, Expects(c)} :
         \E f : Holds(c.actions, f) /\ Turns(c.mem, d, f.pdu, m) /\ e = f.pdu
  BY <1>4, <1>6 DEF Pending
<1>8. PICK f : Holds(c.actions, f) /\ Turns(c.mem, d, f.pdu, m) /\ e = f.pdu
  BY <1>7
<1>9. f = h.data
  BY <1>1, <1>5, <1>8, ChannelKeeps
<1> QED BY <1>3, <1>4, <1>7, <1>8, <1>9 DEF Following

\* The end of a step of Serve that has taken the packet p.
LEMMA FollowTaken ==
    ASSUME NEW c, NEW d, NEW t, NEW s, d.inbox = c.inbox, d.reader = "reading",
           Plain(d.last), NEW e \in {<< >>, Expects(d)}, Sees(d.mem, e, c.inbox, t, s)
    PROVE  Following(d, t, s)
<1>1. Pending(d, d.mem, e)
  BY DEF Pending
<1> QED BY <1>1 DEF Following

\* readUnexpected pairs the packet with the one before it.
Unexpected(c, p) == readUnexpected(TakesPacket(c), p)

LEMMA UpdateUnexpected ==
    ASSUME NEW c, IsClient(c), c.actions # << >>, NEW p \in Seq(Byte)
    PROVE  LET d == Unexpected(c, p)
               v == GetReplyValues(p)
           IN  /\ IsClient(d) /\ SameCall(c, d) /\ d.closed = c.closed /\ d.inbox = c.inbox
               /\ d.conn = c.conn /\ d.reader = "reading" /\ d.actions = Tail(c.actions)
               /\ \/ ~IsRequestReply(c.last, p) /\ d.last = p /\ d.mem = c.mem
                  \/ /\ IsRequestReply(c.last, p) /\ d.last = << >>
                     /\ IsWriteToServer(GetFunctionCode(p)) \/ v.err # NoErr
                     /\ d.mem = c.mem
                  \/ /\ IsRequestReply(c.last, p) /\ d.last = << >>
                     /\ ~IsWriteToServer(GetFunctionCode(p)) /\ v.err = NoErr
                     /\ d.mem = OnWrite(c.mem, c.last, v.data).mem
<1> DEFINE b == TakesPacket(c)
           v == GetReplyValues(p)
           w == OnWrite(b.mem, b.last, v.data).mem
           d == Unexpected(c, p)
<1>1. /\ IsClient(b) /\ SameBus(c, b) /\ SameCall(c, b)
      /\ b.conn = c.conn /\ b.reader = "reading" /\ b.actions = Tail(c.actions)
  BY UpdateTakes
<1> HIDE DEF b
<1>2. << >> \in Seq(Byte) /\ b.last \in Seq(Byte) /\ IsMemory(b.mem)
  BY <1>1 DEF IsClient
<1>3. CASE ~IsRequestReply(b.last, p)
  <2>1. d = [b EXCEPT !.last = p]
    BY <1>3 DEF Unexpected, readUnexpected, b
  <2> HIDE DEF d
  <2>2. /\ IsClient(d) /\ SameCall(b, d) /\ d.closed = b.closed
        /\ d.inbox = b.inbox /\ d.last = p /\ d.mem = b.mem
        /\ d.conn = b.conn /\ d.reader = b.reader /\ d.actions = b.actions
    BY <1>1, <2>1, UpdateLast
  <2> QED BY <1>1, <1>3, <2>2 DEF SameBus, SameCall, d
<1>4. CASE IsRequestReply(b.last, p) /\ (IsWriteToServer(GetFunctionCode(p)) \/ v.err # NoErr)
  <2>1. d = [b EXCEPT !.last = << >>]
    BY <1>4 DEF Unexpected, readUnexpected, b
  <2> HIDE DEF d
  <2>2. /\ IsClient(d) /\ SameCall(b, d) /\ d.closed = b.closed
        /\ d.inbox = b.inbox /\ d.last = << >> /\ d.mem = b.mem
        /\ d.conn = b.conn /\ d.reader = b.reader /\ d.actions = b.actions
    BY <1>1, <1>2, <2>1, UpdateLast
  <2> QED BY <1>1, <1>4, <2>2 DEF SameBus, SameCall, d
<1>5. CASE IsRequestReply(b.last, p) /\ ~(IsWriteToServer(GetFunctionCode(p)) \/ v.err # NoErr)
  <2>1. d = [b EXCEPT !.last = << >>, !.mem = OnWrite(@, b.last, v.data).mem]
    BY <1>5 DEF Unexpected, readUnexpected, b
  <2>2. d = [b EXCEPT !.last = << >>, !.mem = w]
    BY <2>1
  <2>3. IsMemory(w)
    BY <1>2, <1>5, ToldMemory
  <2> HIDE DEF d, w, v
  <2>4. /\ IsClient(d) /\ SameCall(b, d) /\ d.closed = b.closed
        /\ d.inbox = b.inbox /\ d.last = << >> /\ d.mem = w
        /\ d.conn = b.conn /\ d.reader = b.reader /\ d.actions = b.actions
    <3>1. IsClient(b) /\ << >> \in Seq(Byte)
      BY <1>1, <1>2
    <3> QED BY <2>2, <2>3, <3>1 DEF IsClient, SameCall
  <2>5. w = OnWrite(c.mem, c.last, v.data).mem
    BY <1>1 DEF w, SameBus
  <2> QED BY <1>1, <1>5, <2>4, <2>5 DEF SameBus, SameCall, d, v
<1> QED BY <1>3, <1>4, <1>5

LEMMA FollowUnexpected ==
    ASSUME Deployment, NEW n, NEW c, ClientOK(n, c), c.actions # << >>,
           Head(c.actions).t = "clientRead", c.serve = "actions",
           NEW t, NEW s, Following(c, t, s), s # << >> => Plain(Head(s).pdu)
    PROVE  Following(Unexpected(c, Head(c.actions).data.pdu), t, s)
<1> DEFINE p == Head(c.actions).data.pdu
           d == Unexpected(c, p)
           v == GetReplyValues(p)
<1>1. /\ IsClient(c) /\ Channel(c.actions, c.reader) /\ IsSeq(c.inbox)
      /\ p \in Seq(Byte) /\ Expects(c) = c.last
  <2>1. IsClient(c) /\ Channel(c.actions, c.reader) /\ IsSeq(c.inbox)
    BY DEF ClientOK, IsClient, IsSeq
  <2>2. Head(c.actions).data \in Frames
    BY ReceivedOK
  <2>3. p \in Seq(Byte)
    BY <2>2 DEF Frames
  <2> QED BY <2>1, <2>3 DEF Expects, Waiting
<1>2. /\ d.closed = c.closed /\ d.inbox = c.inbox
      /\ d.reader = "reading" /\ d.actions = Tail(c.actions)
      /\ \/ ~IsRequestReply(c.last, p) /\ d.last = p /\ d.mem = c.mem
         \/ /\ IsRequestReply(c.last, p) /\ d.last = << >>
            /\ IsWriteToServer(GetFunctionCode(p)) \/ v.err # NoErr
            /\ d.mem = c.mem
         \/ /\ IsRequestReply(c.last, p) /\ d.last = << >>
            /\ ~IsWriteToServer(GetFunctionCode(p)) /\ v.err = NoErr
            /\ d.mem = OnWrite(c.mem, c.last, v.data).mem
  BY <1>1, UpdateUnexpected
<1>3. Expects(d) = d.last
  <2>1. d.serve = c.serve
    BY <1>1, UpdateUnexpected DEF SameCall
  <2> QED BY <2>1 DEF Expects, Waiting
<1> HIDE DEF d
<1> SUFFICES ASSUME ~d.closed, Sound(d) PROVE Following(d, t, s)
  BY DEF Following, d
<1>4. NoError(Tail(c.actions)) /\ \A i \in 1..Len(c.inbox) : Readable(c.inbox[i])
  BY <1>2 DEF Sound
<1>5. /\ Plain(c.last)
      /\ \E m : /\ \E e \in {<< >>, c.last} : Turns(c.mem, e, p, m)
                /\ Sees(m, p, c.inbox, t, s)
  BY <1>1, <1>2, <1>4, TakesHead
<1>6. PICK m : (\E e \in {<< >>, c.last} : Turns(c.mem, e, p, m)) /\ Sees(m, p, c.inbox, t, s)
  BY <1>5
<1>7. PICK e \in {<< >>, c.last} : Turns(c.mem, e, p, m)
  BY <1>6
<1> HIDE DEF p, v
<1>8. Plain(<< >>)
  BY EmptyFrame DEF Plain
<1>9. CASE Tells(e, p) /\ m = OnWrite(c.mem, e, v.data).mem
  <2>1. e = c.last
    BY <1>9, EmptyFrame DEF Tells
  <2>2. IsRequestReply(c.last, p) /\ v.err = NoErr
    BY <1>9, <2>1 DEF Tells, v
  <2>3. p \notin ReadPdus /\ Reads(p)
    BY <1>9, TellsNoRequest
  <2>4. ~IsWriteToServer(GetFunctionCode(p))
    BY <2>2, <2>3, MatchedCode
  <2>5. d.last = << >> /\ d.mem = m
    BY <1>2, <1>9, <2>1, <2>2, <2>4
  <2>6. Sees(m, << >>, c.inbox, t, s)
    BY <1>1, <1>6, <2>3, SeesAny
  <2>7. << >> \in {<< >>, Expects(d)} /\ Sees(d.mem, << >>, c.inbox, t, s) /\ Plain(d.last)
    BY <1>8, <2>5, <2>6
  <2> QED BY <1>2, <2>7, FollowTaken
<1>10. CASE Plain(p) /\ m = c.mem
  <2>1. CASE ~IsRequestReply(c.last, p)
    <3>1. d.last = p /\ d.mem = m
      BY <1>2, <1>10, <2>1
    <3>2. p \in {<< >>, Expects(d)} /\ Sees(d.mem, p, c.inbox, t, s) /\ Plain(d.last)
      BY <1>3, <1>6, <1>10, <3>1
    <3> QED BY <1>2, <3>2, FollowTaken
  <2>2. CASE IsRequestReply(c.last, p)
    <3>1. p \notin ReadPdus
      BY <1>5, <2>2, ReadRequests
    <3>2. IsWriteToServer(GetFunctionCode(p))
      BY <1>10, <2>2, <3>1, MatchedCode DEF Plain
    <3>3. d.last = << >> /\ d.mem = m
      BY <1>2, <1>10, <2>2, <3>2
    <3>4. Sees(m, << >>, c.inbox, t, s)
      BY <1>1, <1>6, <3>1, SeesAny
    <3>5. << >> \in {<< >>, Expects(d)} /\ Sees(d.mem, << >>, c.inbox, t, s) /\ Plain(d.last)
      BY <1>8, <3>3, <3>4
    <3> QED BY <1>2, <3>5, FollowTaken
  <2> QED BY <2>1, <2>2
<1> QED BY <1>7, <1>9, <1>10 DEF Turns, v

\* While a transaction waits for its reply.
Taken(c, rp) == Completed(TakesPacket(c), rp)

LEMMA UpdateCompleted ==
    ASSUME NEW c, IsClient(c), c.actions # << >>, NEW p \in Seq(Byte), Matches(c, p)
    PROVE  LET d == Taken(c, p)
               v == GetReplyValues(p)
           IN  /\ IsClient(d) /\ d.closed = c.closed /\ d.inbox = c.inbox /\ d.last = c.last
               /\ d.serve = "actions" /\ d.act = MakeRTU(0, << >>) /\ d.calls = c.calls - 1
               /\ d.conn = c.conn /\ d.reader = "reading" /\ d.actions = Tail(c.actions)
               /\ \/ /\ Reads(c.act.pdu) /\ ~IsException(c, p) /\ v.err = NoErr
                     /\ d.mem = OnWrite(c.mem, c.act.pdu, v.data).mem
                  \/ /\ ~(Reads(c.act.pdu) /\ ~IsException(c, p) /\ v.err = NoErr)
                     /\ d.mem = c.mem
<1> DEFINE b == TakesPacket(c)
           v == GetReplyValues(p)
           w == OnWrite(b.mem, b.act.pdu, v.data).mem
           x == [b EXCEPT !.mem = w]
           d == Taken(c, p)
           Told == Reads(c.act.pdu) /\ ~IsException(c, p) /\ v.err = NoErr
<1>1. /\ IsClient(b) /\ SameBus(c, b) /\ SameCall(c, b)
      /\ b.conn = c.conn /\ b.reader = "reading" /\ b.actions = Tail(c.actions)
  BY UpdateTakes
<1> HIDE DEF b
<1>2. b.act.pdu \in Seq(Byte) /\ IsMemory(b.mem)
  BY <1>1 DEF IsClient, Frames
<1>3. IsException(b, p) = IsException(c, p)
  BY <1>1 DEF IsException, SameCall
<1>4. CASE Told
  <2>1. IsRequestReply(b.act.pdu, p)
    BY <1>1, <1>4 DEF Matches, SameCall
  <2>2. IsMemory(w)
    BY <1>2, <1>4, <2>1, ToldMemory
  <2>3. IsReadToServer(GetFunctionCode(b.act.pdu)) /\ ~IsException(b, p) /\ v.err = NoErr
    BY <1>1, <1>3, <1>4 DEF Reads, SameCall
  <2>4. d = Answered(x)
    BY <2>3 DEF Taken, Completed, b
  <2> HIDE DEF w, v
  <2>5. /\ IsClient(x) /\ SameCall(b, x) /\ x.closed = b.closed
        /\ x.inbox = b.inbox /\ x.last = b.last /\ x.mem = w
        /\ x.conn = b.conn /\ x.reader = b.reader /\ x.actions = b.actions
    BY <1>1, <2>2 DEF IsClient, SameCall
  <2> HIDE DEF x, d
  <2>6. /\ IsClient(d) /\ SameBus(x, d) /\ d.serve = "actions"
        /\ d.act = MakeRTU(0, << >>) /\ d.calls = x.calls - 1
        /\ d.conn = x.conn /\ d.reader = x.reader /\ d.actions = x.actions
    BY <2>4, <2>5, UpdateAnswered
  <2>7. w = OnWrite(c.mem, c.act.pdu, v.data).mem
    BY <1>1 DEF w, SameBus, SameCall
  <2>8. /\ IsClient(d) /\ d.closed = c.closed /\ d.inbox = c.inbox /\ d.last = c.last
        /\ d.serve = "actions" /\ d.act = MakeRTU(0, << >>) /\ d.calls = c.calls - 1
        /\ d.conn = c.conn /\ d.reader = "reading" /\ d.actions = Tail(c.actions)
        /\ d.mem = w
    BY <1>1, <2>5, <2>6 DEF SameBus, SameCall
  <2> QED BY <1>4, <2>7, <2>8 DEF d, v
<1>5. CASE ~Told
  <2>1. ~(/\ IsReadToServer(GetFunctionCode(b.act.pdu))
          /\ ~IsException(b, p) /\ v.err = NoErr)
    BY <1>1, <1>3, <1>5 DEF Reads, SameCall
  <2>2. d = Answered(b)
    BY <2>1 DEF Taken, Completed, b
  <2> HIDE DEF d
  <2>3. /\ IsClient(d) /\ SameBus(b, d) /\ d.serve = "actions"
        /\ d.act = MakeRTU(0, << >>) /\ d.calls = b.calls - 1
        /\ d.conn = b.conn /\ d.reader = b.reader /\ d.actions = b.actions
    BY <1>1, <2>2, UpdateAnswered
  <2>4. /\ IsClient(d) /\ d.closed = c.closed /\ d.inbox = c.inbox /\ d.last = c.last
        /\ d.serve = "actions" /\ d.act = MakeRTU(0, << >>) /\ d.calls = c.calls - 1
        /\ d.conn = c.conn /\ d.reader = "reading" /\ d.actions = Tail(c.actions)
        /\ d.mem = c.mem
    BY <1>1, <2>3 DEF SameBus, SameCall
  <2> QED BY <1>5, <2>4 DEF d
<1> QED BY <1>4, <1>5

LEMMA NoException ==
    \A k \in {1, 2, 3, 4, 5, 6, 15, 16, 23} : ~SeparateError(k).hasErr
<1> SUFFICES ASSUME NEW k \in {1, 2, 3, 4, 5, 6, 15, 16, 23} PROVE ~SeparateError(k).hasErr
  OBVIOUS
<1>1. SeparateError(k).hasErr = (k > 127)
  BY DEF SeparateError
<1>2. ~(k > 127)
  OBVIOUS
<1> QED BY <1>1, <1>2

\* A packet that is the reply, or an exception, or that comes from another id.
LEMMA FollowReply ==
    ASSUME Deployment, NEW n, NEW c, ClientOK(n, c), c.actions # << >>,
           Head(c.actions).t = "clientRead", c.serve = "reply",
           NEW t, NEW s, Following(c, t, s), s # << >> => Plain(Head(s).pdu),
           NEW d,
           LET f == Head(c.actions).data
           IN  \/ f.id # c.act.id /\ d = TakesPacket(c)
               \/ Matches(c, f.pdu) /\ d = Taken(c, f.pdu)
    PROVE  Following(d, t, s)
<1> DEFINE f == Head(c.actions).data
           p == f.pdu
           v == GetReplyValues(p)
<1>1. /\ IsClient(c) /\ Channel(c.actions, c.reader) /\ IsSeq(c.inbox)
      /\ p \in Seq(Byte) /\ Expects(c) = c.act.pdu /\ f \in Frames
      /\ c.act \in Frames /\ c.act.id # 0 /\ Plain(c.act.pdu)
  <2>1. IsClient(c) /\ Channel(c.actions, c.reader) /\ IsSeq(c.inbox)
    BY DEF ClientOK, IsClient, IsSeq
  <2>2. Head(c.actions).data \in Frames
    BY ReceivedOK
  <2>3. p \in Seq(Byte)
    BY <2>2 DEF Frames
  <2>4. c.act \in Frames /\ c.act.id # 0 /\ Plain(c.act.pdu)
    BY DEF ClientOK, Sendable, Bus
  <2> QED BY <2>1, <2>2, <2>3, <2>4 DEF Expects, Waiting
<1>2. /\ d.closed = c.closed /\ d.inbox = c.inbox /\ d.last = c.last
      /\ d.reader = "reading" /\ d.actions = Tail(c.actions)
  <2>1. CASE d = TakesPacket(c)
    BY <1>1, <2>1, UpdateTakes DEF SameBus
  <2>2. CASE Matches(c, p) /\ d = Taken(c, p)
    BY <1>1, <2>2, UpdateCompleted
  <2> QED BY <2>1, <2>2
<1> SUFFICES ASSUME ~d.closed, Sound(d) PROVE Following(d, t, s)
  BY DEF Following
<1>3. NoError(Tail(c.actions)) /\ \A i \in 1..Len(c.inbox) : Readable(c.inbox[i])
  BY <1>2 DEF Sound
<1>4. /\ Plain(c.last)
      /\ \E m : /\ \E e \in {<< >>, c.act.pdu} : Turns(c.mem, e, p, m)
                /\ Sees(m, p, c.inbox, t, s)
  BY <1>1, <1>2, <1>3, TakesHead
<1>5. PICK m : (\E e \in {<< >>, c.act.pdu} : Turns(c.mem, e, p, m))
               /\ Sees(m, p, c.inbox, t, s)
  BY <1>4
<1>6. PICK e \in {<< >>, c.act.pdu} : Turns(c.mem, e, p, m)
  BY <1>5
<1>7. p \notin ReadPdus /\ d.mem = m
  <2>1. ASSUME Tells(e, p)
        PROVE  /\ e = c.act.pdu /\ Reads(p) /\ Reads(e) /\ p \notin ReadPdus
               /\ IsRequestReply(e, p) /\ v.err = NoErr /\ GetFunctionCode(p) \in {1, 2, 3, 4}
    <3>1. e = c.act.pdu
      BY <2>1, EmptyFrame DEF Tells
    <3>2. Reads(p) /\ Reads(e) /\ p \notin ReadPdus
      BY <2>1, TellsNoRequest
    <3>3. IsRequestReply(e, p) /\ v.err = NoErr
      BY <2>1 DEF Tells
    <3>4. GetFunctionCode(p) \in {1, 2, 3, 4, 5, 6, 15, 16}
      BY <3>3, MatchedCode
    <3>5. GetFunctionCode(p) \in {1, 2, 3, 4}
      BY <3>2, <3>4 DEF Reads, IsReadToServer
    <3> QED BY <3>1, <3>2, <3>3, <3>5
  <2>2. \/ Plain(p) /\ m = c.mem
        \/ Tells(e, p) /\ m = OnWrite(c.mem, e, v.data).mem
    BY <1>6 DEF Turns
  <2>3. CASE f.id # c.act.id /\ d = TakesPacket(c)
    <3>1. f.id = 0
      BY <1>1, <2>3 DEF Frames
    <3>2. ~Reads(p)
      BY <1>1, <3>1 DEF Frames
    <3>3. p \notin ReadPdus
      BY <3>2 DEF ReadPdus
    <3>4. d.mem = c.mem
      BY <1>1, <2>3, UpdateTakes DEF SameBus
    <3> QED BY <2>1, <2>2, <3>2, <3>3, <3>4
  <2>4. CASE Matches(c, p) /\ d = Taken(c, p)
    <3> DEFINE Told == Reads(c.act.pdu) /\ ~IsException(c, p) /\ v.err = NoErr
    <3>1. \/ Told /\ d.mem = OnWrite(c.mem, c.act.pdu, v.data).mem
          \/ ~Told /\ d.mem = c.mem
      BY <1>1, <2>4, UpdateCompleted
    <3>2. GetFunctionCode(p) \in {1, 2, 3, 4, 5, 6, 15, 16} => ~IsException(c, p)
      BY NoException DEF IsException
    <3>3. CASE Tells(e, p) /\ m = OnWrite(c.mem, e, v.data).mem
      <4>1. Told /\ e = c.act.pdu /\ p \notin ReadPdus
        BY <2>1, <3>2, <3>3
      <4> HIDE DEF v, Told
      <4> QED BY <3>1, <3>3, <4>1
    <3>4. CASE Plain(p) /\ m = c.mem
      <4>1. p \notin ReadPdus
        <5> SUFFICES ASSUME p \in ReadPdus PROVE FALSE
          OBVIOUS
        <5>1. IsRequestHeader(p) /\ ~IsRequestReply(c.act.pdu, p)
          BY <1>1, ReadRequests
        <5>2. GetFunctionCode(p) \in {1, 2, 3, 4, 5, 6, 15, 16}
          BY <1>1, <5>1, HeaderNumbers
        <5> QED BY <2>4, <3>2, <5>1, <5>2 DEF Matches
      <4>2. ~Told
        <5> SUFFICES ASSUME Told PROVE FALSE
          OBVIOUS
        <5>1. IsRequestReply(c.act.pdu, p)
          BY <2>4 DEF Matches
        <5>2. Reads(p)
          BY <5>1, MatchedCode
        <5> QED BY <3>4, <4>1, <5>2 DEF Plain
      <4> HIDE DEF v, Told
      <4> QED BY <3>1, <3>4, <4>1, <4>2
    <3> QED BY <2>2, <3>3, <3>4
  <2> QED BY <2>3, <2>4
<1>8. Sees(m, << >>, c.inbox, t, s)
  BY <1>1, <1>5, <1>7, SeesAny
<1>9. << >> \in {<< >>, Expects(d)} /\ Sees(d.mem, << >>, c.inbox, t, s) /\ Plain(d.last)
  BY <1>2, <1>4, <1>7, <1>8
<1> QED BY <1>2, <1>9, FollowTaken

-------------------------------------------------------------------------------
(***************************************************************************)
(* The inductive invariant.                                                *)
(***************************************************************************)
Apart ==
    /\ polled \subseteq Nodes /\ fresh \subseteq Nodes
    /\ up \in BOOLEAN /\ faults \in 0..MaxFaults
    /\ toServer \in Seq(Bus) /\ (fresh # {} => Len(toServer) <= 1)

Clients ==
    cl = [n \in Nodes |-> cl[n]] /\ \A n \in Nodes : ClientOK(n, cl[n])

Follow == \A n \in fresh : Following(cl[n], truth, toServer)

IInv == Apart /\ Clients /\ Follow

LEMMA ToServerHead ==
    ASSUME NEW s \in Seq(Bus), s # << >>
    PROVE  /\ Head(s) \in Frames /\ Plain(Head(s).pdu) /\ Head(s).pdu \in Seq(Byte)
           /\ Tail(s) \in Seq(Bus) /\ (Len(s) <= 1 => Tail(s) = << >>)
<1>1. Head(s) \in Bus /\ Tail(s) \in Seq(Bus)
  OBVIOUS
<1>2. Head(s) \in Frames /\ Plain(Head(s).pdu)
  BY <1>1 DEF Bus
<1>3. Head(s).pdu \in Seq(Byte)
  BY <1>2 DEF Frames
<1>4. IsSeq(s) /\ IsSeq(Tail(s))
  BY <1>1 DEF IsSeq
<1>5. Len(s) \in Nat /\ Len(s) >= 1 /\ Len(Tail(s)) = Len(s) - 1
  BY <1>4, SeqTail
<1>6. Len(s) <= 1 => Len(Tail(s)) = 0
  BY <1>5
<1>7. Len(s) <= 1 => Tail(s) = << >>
  BY <1>4, <1>6, SeqLenZero
<1> QED BY <1>1, <1>2, <1>3, <1>7

\* A step of one client.
LEMMA StepOne ==
    ASSUME IInv, NEW n \in Nodes, NEW d, cl' = [cl EXCEPT ![n] = d], ClientOK(n, d),
           UNCHANGED <<serverVars, toServer>>, polled' \subseteq Nodes,
           faults' \in 0..MaxFaults, fresh' \subseteq fresh,
           n \in fresh' => Following(d, truth, toServer)
    PROVE  IInv'
<1>1. cl' = [m \in Nodes |-> IF m = n THEN d ELSE cl[m]]
  BY DEF IInv, Clients
<1>2. cl'[n] = d /\ \A m \in Nodes \ {n} : cl'[m] = cl[m]
  BY <1>1
<1>3. cl' = [m \in Nodes |-> cl'[m]]
  BY <1>1
<1>4. Clients'
  BY <1>2, <1>3 DEF IInv, Clients
<1>5. Apart'
  BY DEF IInv, Apart, serverVars
<1>6. Follow'
  <2> SUFFICES ASSUME NEW m \in fresh' PROVE Following(cl'[m], truth', toServer')
    BY DEF Follow
  <2>1. m \in fresh /\ m \in Nodes
    BY DEF IInv, Apart
  <2>2. truth' = truth /\ toServer' = toServer
    BY DEF serverVars
  <2>3. CASE m = n
    BY <1>2, <2>2, <2>3
  <2>4. CASE m # n
    BY <1>2, <2>1, <2>2, <2>4 DEF IInv, Follow
  <2> QED BY <2>3, <2>4
<1> QED BY <1>4, <1>5, <1>6 DEF IInv

LEMMA StepOneSame ==
    ASSUME IInv, NEW n \in Nodes, NEW d, Becomes(n, d), ClientOK(n, d),
           UNCHANGED <<polled, serverVars, toServer, faults, fresh>>,
           n \in fresh => Following(d, truth, toServer)
    PROVE  IInv'
<1>1. cl' = [cl EXCEPT ![n] = d]
  BY DEF Becomes
<1>2. polled' \subseteq Nodes /\ faults' \in 0..MaxFaults /\ fresh' \subseteq fresh
  BY DEF IInv, Apart
<1>3. n \in fresh' => Following(d, truth, toServer)
  OBVIOUS
<1> QED BY <1>1, <1>2, <1>3, StepOne

\* What the invariant says of a client.
LEMMA OfClient ==
    ASSUME IInv, NEW n \in Nodes
    PROVE  /\ ClientOK(n, cl[n]) /\ IsClient(cl[n]) /\ ConnOK(n, cl[n].conn)
           /\ n \in fresh => Following(cl[n], truth, toServer)
           /\ toServer \in Seq(Bus) /\ (toServer # << >> => Plain(Head(toServer).pdu))
<1>1. ClientOK(n, cl[n]) /\ toServer \in Seq(Bus)
  BY DEF IInv, Clients, Apart
<1>2. n \in fresh => Following(cl[n], truth, toServer)
  BY DEF IInv, Follow
<1>3. toServer # << >> => Plain(Head(toServer).pdu)
  BY <1>1, ToServerHead
<1> QED BY <1>1, <1>2, <1>3 DEF ClientOK

LEMMA InitOK ==
    ASSUME Deployment, Init
    PROVE  IInv
<1>1. IsMemory(LocalMemory)
  BY DEF Deployment
<1>2. cl = [n \in Nodes |-> cl[n]] /\ \A n \in Nodes : cl[n] = NewClient(n)
  BY DEF Init
<1>3. Clients
  BY <1>1, <1>2, NewClientOK DEF Clients
<1>4. Apart
  BY FailoverClientsAssumption DEF Init, Apart
<1>5. ASSUME NEW n \in Nodes PROVE Following(cl[n], truth, toServer)
  <2> DEFINE d == cl[n]
  <2>1. d = NewClient(n) /\ toServer = << >> /\ truth = LocalMemory
    BY <1>2 DEF Init
  <2>2. /\ d.inbox = << >> /\ d.reader # "sending" /\ d.mem = truth /\ d.last = << >>
    BY <2>1 DEF NewClient
  <2>3. Plain(d.last) /\ Asks(toServer, Expects(d))
    BY <2>1, <2>2, EmptyFrame DEF Plain, Asks
  <2> HIDE DEF d
  <2>4. Following(d, truth, toServer)
    BY <2>2, <2>3, FollowArrived
  <2> QED BY <2>4 DEF d
<1>6. Follow
  BY <1>5 DEF Follow, Init
<1> QED BY <1>3, <1>4, <1>6 DEF IInv

-------------------------------------------------------------------------------
(***************************************************************************)
(* The reader.                                                             *)
(***************************************************************************)
LEMMA StepReaderRead ==
    ASSUME IInv, NEW n \in Nodes, ReaderRead(n)
    PROVE  IInv'
<1> DEFINE c == cl[n]
           f == Head(c.inbox)
           t == IF GetPDU(f).err = NoErr THEN "clientRead" ELSE "clientError"
           a == Append(c.actions, Sending(t, f))
           x == clientRead(c.conn, f)
           d == [c EXCEPT !.inbox = Tail(c.inbox), !.conn = x, !.reader = "sending",
                          !.actions = a]
<1>1. /\ c.reader = "reading" /\ c.inbox # << >> /\ Becomes(n, d)
      /\ UNCHANGED <<polled, serverVars, toServer, faults, fresh>>
  BY DEF ReaderRead, Becomes
<1>2. /\ ClientOK(n, c) /\ IsClient(c) /\ ConnOK(n, c.conn)
      /\ n \in fresh => Following(c, truth, toServer)
  BY OfClient
<1>3. c.inbox \in Seq(Frames) /\ c.actions \in Seq(Signals) /\ Channel(c.actions, "reading")
  BY <1>1, <1>2 DEF ClientOK, IsClient
<1>4. f \in Frames /\ Tail(c.inbox) \in Seq(Frames) /\ t \in {"clientRead", "clientError"}
  BY <1>1, <1>3
<1> HIDE DEF c
<1> HIDE DEF t, f
<1>5. a \in Seq(Signals)
  BY <1>3, <1>4, ChannelRead
<1>6. ConnOK(n, x) /\ (x.isActive => c.conn.isActive)
  BY <1>2, <1>4, ReadConn
<1>7. x \in Conns
  BY <1>6 DEF ConnOK
<1> HIDE DEF a, x
<1>8. /\ IsClient(d) /\ SameCall(c, d) /\ d.closed = c.closed /\ d.last = c.last
      /\ d.mem = c.mem /\ d.conn = x /\ d.reader = "sending" /\ d.actions = a
      /\ d.inbox = Tail(c.inbox)
  BY <1>2, <1>4, <1>5, <1>7 DEF IsClient, SameCall
<1> HIDE DEF d
<1>9. ClientOK(n, d)
  <2>1. d.actions = Append(c.actions, Sending(t, f)) /\ ConnOK(n, d.conn)
        /\ (d.conn.isActive => c.conn.isActive)
    BY <1>6, <1>8 DEF a
  <2> QED BY <1>1, <1>2, <1>4, <1>8, <2>1, OffersOK
<1>10. ASSUME n \in fresh PROVE Following(d, truth, toServer)
  <2>1. d.actions = Append(c.actions,
                      Sending(IF Readable(Head(c.inbox)) THEN "clientRead" ELSE "clientError",
                              Head(c.inbox)))
    BY <1>8 DEF a, t, f, Readable
  <2>2. Following(c, truth, toServer) /\ d.serve = c.serve /\ d.act = c.act
    BY <1>2, <1>8, <1>10 DEF SameCall
  <2> QED BY <1>1, <1>2, <1>8, <2>1, <2>2, FollowRead
<1> QED BY <1>1, <1>9, <1>10, StepOneSame

LEMMA StepReaderFail ==
    ASSUME IInv, NEW n \in Nodes, ReaderFail(n)
    PROVE  IInv'
<1> DEFINE c == cl[n]
           f == MakeRTU(0, << >>)
           a == Append(c.actions, Sending("clientError", f))
           d == [c EXCEPT !.reader = "sending", !.actions = a]
<1>1. /\ c.reader = "reading" /\ c.closed /\ Becomes(n, d)
      /\ UNCHANGED <<polled, serverVars, toServer, faults, fresh>>
  BY DEF ReaderFail, Becomes
<1>2. /\ ClientOK(n, c) /\ IsClient(c) /\ ConnOK(n, c.conn)
  BY OfClient
<1>3. c.actions \in Seq(Signals) /\ Channel(c.actions, "reading")
  BY <1>1, <1>2 DEF ClientOK, IsClient
<1>4. f \in Frames
  BY EmptyFrame DEF Sendable, Bus
<1> HIDE DEF c, f
<1>5. a \in Seq(Signals)
  BY <1>3, <1>4, ChannelRead
<1> HIDE DEF a
<1>6. /\ IsClient(d) /\ SameCall(c, d) /\ d.closed = c.closed
      /\ d.conn = c.conn /\ d.reader = "sending" /\ d.actions = a
  BY <1>2, <1>5 DEF IsClient, SameCall
<1> HIDE DEF d
<1>7. ClientOK(n, d)
  <2>1. d.actions = Append(c.actions, Sending("clientError", f)) /\ ConnOK(n, d.conn)
        /\ (d.conn.isActive => c.conn.isActive)
    BY <1>2, <1>6 DEF a
  <2> QED BY <1>1, <1>2, <1>4, <1>6, <2>1, OffersOK
<1>8. Following(d, truth, toServer)
  BY <1>1, <1>6 DEF Following
<1> QED BY <1>1, <1>7, <1>8, StepOneSame

-------------------------------------------------------------------------------
(***************************************************************************)
(* Serve.                                                                  *)
(***************************************************************************)
LEMMA StepServeError ==
    ASSUME IInv, NEW n \in Nodes, ServeError(n)
    PROVE  IInv'
<1> DEFINE c == cl[n]
           e == Ended(Received(c))
           d == [e EXCEPT !.reader = "ended"]
<1>1. /\ c.actions # << >> /\ Head(c.actions).t = "clientError" /\ Becomes(n, d)
      /\ UNCHANGED <<polled, serverVars, toServer, faults, fresh>>
  BY DEF ServeError, Offers, Action
<1>2. ClientOK(n, c) /\ IsClient(c)
  BY OfClient
<1> HIDE DEF c
<1>3. /\ IsClient(e) /\ e.closed /\ e.serve = "ended" /\ e.act = c.act /\ e.calls = c.calls
      /\ e.conn = c.conn /\ e.actions = Tail(c.actions)
  <2> DEFINE b == Received(c)
  <2>1. IsClient(b) /\ SameCall(c, b) /\ b.conn = c.conn /\ b.actions = Tail(c.actions)
    BY <1>1, <1>2, UpdateReceived
  <2> HIDE DEF b
  <2>2. e = Ended(b)
    BY DEF b
  <2> QED BY <2>1, <2>2, UpdateEnded DEF SameCall
<1> HIDE DEF e
<1>4. /\ IsClient(d) /\ d.closed /\ d.serve = "ended" /\ d.act = c.act /\ d.calls = c.calls
      /\ d.conn = c.conn /\ d.actions = Tail(c.actions) /\ d.reader = "ended"
  BY <1>3 DEF IsClient
<1> HIDE DEF d
<1>5. ClientOK(n, d)
  BY <1>1, <1>2, <1>4, TakenOK
<1>6. Following(d, truth, toServer)
  BY <1>4 DEF Following
<1> QED BY <1>1, <1>5, <1>6, StepOneSame

LEMMA StepServeUnexpected ==
    ASSUME Deployment, IInv, NEW n \in Nodes, ServeUnexpected(n)
    PROVE  IInv'
<1> DEFINE c == cl[n]
           p == Head(c.actions).data.pdu
           d == Unexpected(c, p)
<1>1. /\ c.actions # << >> /\ Head(c.actions).t = "clientRead" /\ c.serve = "actions"
      /\ Becomes(n, d)
      /\ UNCHANGED <<polled, serverVars, toServer, faults, fresh>>
  BY DEF ServeUnexpected, Offers, Action, Unexpected
<1>2. /\ ClientOK(n, c) /\ IsClient(c) /\ (n \in fresh => Following(c, truth, toServer))
      /\ toServer # << >> => Plain(Head(toServer).pdu)
  BY OfClient
<1> HIDE DEF c
<1>3. p \in Seq(Byte)
  <2>1. Head(c.actions).data \in Frames
    BY <1>1, <1>2, ReceivedOK
  <2> QED BY <2>1 DEF Frames
<1>4. ClientOK(n, d)
  <2> HIDE DEF p
  <2>1. /\ IsClient(d) /\ SameCall(c, d) /\ d.conn = c.conn /\ d.reader = "reading"
        /\ d.actions = Tail(c.actions)
    BY <1>1, <1>2, <1>3, UpdateUnexpected
  <2> HIDE DEF d
  <2> QED BY <1>1, <1>2, <2>1, TakenOK
<1>5. n \in fresh => Following(d, truth, toServer)
  BY <1>1, <1>2, FollowUnexpected
<1> HIDE DEF d
<1> QED BY <1>1, <1>4, <1>5, StepOneSame

LEMMA StepServeReply ==
    ASSUME Deployment, IInv, NEW n \in Nodes, ServeReply(n)
    PROVE  IInv'
<1> DEFINE c == cl[n]
           f == Head(c.actions).data
           b == TakesPacket(c)
<1>1. /\ c.actions # << >> /\ Head(c.actions).t = "clientRead" /\ c.serve = "reply"
      /\ UNCHANGED <<polled, serverVars, toServer, faults>>
      /\ \/ f.id # b.act.id /\ Becomes(n, b) /\ UNCHANGED fresh
         \/ Matches(b, f.pdu) /\ Becomes(n, Completed(b, f.pdu)) /\ UNCHANGED fresh
         \/ Becomes(n, Answered(b)) /\ fresh' = fresh \ {n}
  BY DEF ServeReply, Offers, Action
<1>2. /\ ClientOK(n, c) /\ IsClient(c) /\ (n \in fresh => Following(c, truth, toServer))
      /\ toServer # << >> => Plain(Head(toServer).pdu)
  BY OfClient
<1> HIDE DEF c
<1>3. f.pdu \in Seq(Byte)
  <2>1. Head(c.actions).data \in Frames
    BY <1>1, <1>2, ReceivedOK
  <2> QED BY <2>1 DEF Frames
<1>4. /\ IsClient(b) /\ SameBus(c, b) /\ SameCall(c, b) /\ b.conn = c.conn
      /\ b.reader = "reading" /\ b.actions = Tail(c.actions)
  BY <1>1, <1>2, UpdateTakes
<1>5. Matches(b, f.pdu) <=> Matches(c, f.pdu)
  BY <1>4 DEF Matches, IsException, SameCall
<1>6. CASE f.id # b.act.id /\ Becomes(n, b) /\ UNCHANGED fresh
  <2>1. ClientOK(n, b)
    BY <1>1, <1>2, <1>4, TakenOK
  <2>2. f.id # c.act.id
    BY <1>4, <1>6 DEF SameCall
  <2>3. n \in fresh => Following(b, truth, toServer)
    BY <1>1, <1>2, <2>2, FollowReply
  <2> HIDE DEF b
  <2> QED BY <1>1, <1>6, <2>1, <2>3, StepOneSame
<1>7. CASE Matches(b, f.pdu) /\ Becomes(n, Completed(b, f.pdu)) /\ UNCHANGED fresh
  <2> DEFINE d == Taken(c, f.pdu)
  <2>1. Matches(c, f.pdu) /\ Becomes(n, d)
    BY <1>5, <1>7 DEF Taken
  <2>2. /\ IsClient(d) /\ d.conn = c.conn /\ d.reader = "reading"
        /\ d.actions = Tail(c.actions) /\ d.act = MakeRTU(0, << >>) /\ d.serve = "actions"
        /\ d.calls = c.calls - 1
    BY <1>1, <1>2, <1>3, <2>1, UpdateCompleted
  <2>3. n \in fresh => Following(d, truth, toServer)
    BY <1>1, <1>2, <2>1, FollowReply
  <2> HIDE DEF d
  <2>4. ClientOK(n, d)
    BY <1>1, <1>2, <2>2, TakenOK
  <2> QED BY <1>1, <1>7, <2>1, <2>3, <2>4, StepOneSame
<1>8. CASE Becomes(n, Answered(b)) /\ fresh' = fresh \ {n}
  <2> DEFINE d == Answered(b)
  <2> HIDE DEF b
  <2>1. /\ IsClient(d) /\ d.serve = "actions"
        /\ d.act = MakeRTU(0, << >>) /\ d.calls = c.calls - 1
        /\ d.conn = c.conn /\ d.reader = "reading" /\ d.actions = Tail(c.actions)
    BY <1>4, UpdateAnswered DEF SameCall
  <2>2. cl' = [cl EXCEPT ![n] = d]
    BY <1>8 DEF Becomes
  <2> HIDE DEF d
  <2>3. ClientOK(n, d)
    BY <1>1, <1>2, <2>1, TakenOK
  <2>4. /\ UNCHANGED <<serverVars, toServer>> /\ polled' \subseteq Nodes
        /\ faults' \in 0..MaxFaults /\ fresh' \subseteq fresh /\ n \notin fresh'
    BY <1>1, <1>8 DEF IInv, Apart
  <2> QED BY <2>2, <2>3, <2>4, StepOne
<1> QED BY <1>1, <1>6, <1>7, <1>8

LEMMA StepServeInterrupted ==
    ASSUME IInv, NEW n \in Nodes, ServeInterrupted(n)
    PROVE  IInv'
<1> DEFINE c == cl[n]
           b == Received(c)
           e == Answered(b)
           d == Ended(e)
<1>1. /\ c.actions # << >> /\ Head(c.actions).t = "clientStart" /\ Becomes(n, d)
      /\ UNCHANGED <<polled, serverVars, toServer, faults, fresh>>
  BY DEF ServeInterrupted, Offers, Action
<1>2. ClientOK(n, c) /\ IsClient(c) /\ ConnOK(n, c.conn)
  BY OfClient
<1> HIDE DEF c
<1>3. /\ IsClient(b) /\ SameCall(c, b) /\ b.conn = c.conn /\ b.actions = Tail(c.actions)
      /\ b.reader = c.reader
  BY <1>1, <1>2, UpdateReceived
<1> HIDE DEF b
<1>4. /\ IsClient(e) /\ e.act = MakeRTU(0, << >>) /\ e.calls = b.calls - 1
      /\ e.conn = b.conn /\ e.reader = b.reader /\ e.actions = b.actions
  BY <1>3, UpdateAnswered
<1> HIDE DEF e
<1>5. /\ IsClient(d) /\ d.closed /\ d.serve = "ended"
      /\ d.act = e.act /\ d.calls = e.calls
      /\ d.conn = e.conn /\ d.reader = e.reader /\ d.actions = e.actions
  BY <1>4, UpdateEnded
<1> HIDE DEF d
<1>6. /\ d.act = MakeRTU(0, << >>) /\ d.calls = c.calls - 1 /\ d.conn = c.conn
      /\ d.reader = c.reader /\ d.actions = Tail(c.actions)
  BY <1>3, <1>4, <1>5 DEF SameCall
<1>7. Sendable(d.act)
  BY <1>6, EmptyFrame
<1>8. ClientOK(n, d)
  BY <1>1, <1>2, <1>5, <1>6, <1>7, StartedOK
<1>9. Following(d, truth, toServer)
  BY <1>5 DEF Following
<1> QED BY <1>1, <1>8, <1>9, StepOneSame

LEMMA StepServeWritten ==
    ASSUME IInv, NEW n \in Nodes, ServeWritten(n)
    PROVE  IInv'
<1> DEFINE c == cl[n]
           skips == c.act.id = 0 \/ ~c.conn.isActive
           d == IF skips THEN Answered(c) ELSE [c EXCEPT !.serve = "reply"]
<1>1. /\ c.serve \in {"sent", "dropped"} /\ cl' = [cl EXCEPT ![n] = d]
      /\ fresh' = IF skips /\ c.serve = "sent" /\ c.act.id # 0 THEN fresh \ {n} ELSE fresh
      /\ UNCHANGED <<polled, serverVars, toServer, faults>>
  BY DEF ServeWritten, Becomes
<1>2. /\ ClientOK(n, c) /\ IsClient(c) /\ ConnOK(n, c.conn)
      /\ n \in fresh => Following(c, truth, toServer)
  BY OfClient
<1>3. /\ UNCHANGED <<serverVars, toServer>> /\ polled' \subseteq Nodes
      /\ faults' \in 0..MaxFaults /\ fresh' \subseteq fresh
  BY <1>1 DEF IInv, Apart
<1> HIDE DEF c
<1>4. CASE skips
  <2>1. d = Answered(c)
    BY <1>4
  <2> HIDE DEF d
  <2>2. /\ IsClient(d) /\ SameBus(c, d) /\ d.serve = "actions"
        /\ d.act = MakeRTU(0, << >>) /\ d.calls = c.calls - 1
        /\ d.conn = c.conn /\ d.reader = c.reader /\ d.actions = c.actions
    BY <1>2, <2>1, UpdateAnswered
  <2>3. ClientOK(n, d)
    BY <1>1, <1>2, <2>2, WrittenOK
  <2>4. ASSUME n \in fresh' PROVE Following(d, truth, toServer)
    <3>1. n \in fresh /\ ~(c.serve = "sent" /\ c.act.id # 0)
      BY <1>1, <1>4, <2>4
    <3>2. ~Waiting(c) /\ ~Waiting(d)
      BY <1>1, <2>2, <3>1 DEF Waiting
    <3>3. Expects(d) = Expects(c)
      BY <2>2, <3>2 DEF Expects, SameBus
    <3> QED BY <1>2, <2>2, <3>1, <3>3, FollowSame
  <2> QED BY <1>1, <1>3, <2>3, <2>4, StepOne
<1>5. CASE ~skips
  <2>1. d = [c EXCEPT !.serve = "reply"]
    BY <1>5
  <2> HIDE DEF d
  <2>2. /\ IsClient(d) /\ SameBus(c, d) /\ d.serve = "reply"
        /\ d.act = c.act /\ d.calls = c.calls
        /\ d.conn = c.conn /\ d.reader = c.reader /\ d.actions = c.actions
    BY <1>2, <2>1, UpdateServe
  <2>3. c.act.id # 0 /\ c.conn.isActive
    BY <1>5
  <2>4. c.serve = "sent"
    BY <1>1, <1>2, <2>3 DEF ClientOK
  <2>5. ClientOK(n, d)
    BY <1>1, <1>2, <2>2, <2>3, WrittenOK
  <2>6. ASSUME n \in fresh' PROVE Following(d, truth, toServer)
    <3>1. Waiting(c) /\ Waiting(d)
      BY <2>2, <2>3, <2>4 DEF Waiting
    <3>2. Expects(d) = Expects(c)
      BY <2>2, <3>1 DEF Expects
    <3>3. n \in fresh
      BY <1>3, <2>6
    <3> QED BY <1>2, <2>2, <3>2, <3>3, FollowSame
  <2> QED BY <1>1, <1>3, <2>5, <2>6, StepOne
<1> QED BY <1>4, <1>5

\* A request is written with its data.
LEMMA FilledOK ==
    ASSUME Deployment, NEW c, IsMemory(c.mem), NEW g \in Asked, Filled(c, g).err = NoErr
    PROVE  Sendable(Filled(c, g).data) /\ Filled(c, g).data.pdu \in Seq(Byte)
<1> DEFINE h == g.pdu
           p == MakeWriteRequest(h, OnRead(c.mem, h).data)
           f == Filled(c, g).data
<1>1. /\ g \in Frames /\ h \in Seq(Byte) /\ g.id \in {0, SlaveID}
      /\ IsRequestHeader(h) /\ (Reads(h) => h \in ReadPdus)
  BY AskedFrames
<1>2. CASE ~IsWriteToServer(GetFunctionCode(h))
  <2>1. f = g
    BY <1>2 DEF Filled
  <2> HIDE DEF f
  <2>2. f \in Frames /\ Plain(f.pdu) /\ f.pdu \in Seq(Byte)
    BY <1>1, <2>1 DEF Plain
  <2> QED BY <2>2 DEF Sendable, Bus, f
<1>3. CASE IsWriteToServer(GetFunctionCode(h))
  <2>1. f = MakeRTU(g.id, p) /\ OnRead(c.mem, h).err = NoErr
    BY <1>3 DEF Filled
  <2>2. p \in Seq(Byte) /\ GetFunctionCode(p) = GetFunctionCode(h)
    BY <1>1, <1>3, <2>1, WritePrepared
  <2>3. GetFunctionCode(h) \in {1, 2, 3, 4, 5, 6, 15, 16}
    BY <1>1, HeaderNumbers
  <2>4. ~Reads(p)
    BY <1>3, <2>2, <2>3 DEF Reads, IsReadToServer, IsWriteToServer
  <2> HIDE DEF p, f
  <2>5. f = [id |-> g.id, pdu |-> p, ok |-> TRUE]
    BY <2>1 DEF MakeRTU
  <2>6. f \in [id : {0, SlaveID}, pdu : Seq(Byte), ok : BOOLEAN] /\ f.pdu = p
    BY <1>1, <2>2, <2>5
  <2>7. f \in Frames /\ Plain(f.pdu)
    BY <2>4, <2>6 DEF Frames, Plain
  <2> QED BY <2>2, <2>6, <2>7 DEF Sendable, Bus, f
<1> QED BY <1>2, <1>3

LEMMA StepServeStart ==
    ASSUME Deployment, IInv, NEW n \in Nodes, ServeStart(n)
    PROVE  IInv'
<1> DEFINE b == cl[n]
           c == Received(b)
           g == Head(b.actions).data
           f == Filled(c, g)
           x == clientWrite(c.conn, f.data.pdu)
           d == [c EXCEPT !.act = f.data, !.conn = x]
           Failing == f.err # NoErr /\ Becomes(n, Answered(c)) /\ UNCHANGED <<toServer, fresh>>
           Dropped == /\ f.err = NoErr /\ ~d.conn.isActive
                      /\ Becomes(n, [d EXCEPT !.serve = "dropped"])
                      /\ UNCHANGED <<toServer, fresh>>
           Closed == /\ f.err = NoErr
                     /\ Becomes(n, Ended(Answered(d))) /\ UNCHANGED <<toServer, fresh>>
           Sent == /\ f.err = NoErr /\ ~c.closed
                   /\ cl' = [m \in Nodes |-> IF m = n THEN [d EXCEPT !.serve = "sent"]
                                             ELSE Hears(cl[m], d.act)]
                   /\ toServer' = IF up THEN Append(toServer, d.act) ELSE toServer
                   /\ fresh' = IF toServer # << >> THEN {}
                               ELSE IF c.inbox = << >> /\ c.actions = << >> THEN fresh
                               ELSE fresh \ {n}
<1>1. /\ b.serve = "actions" /\ b.actions # << >> /\ Head(b.actions).t = "clientStart"
      /\ UNCHANGED <<polled, serverVars, faults>>
      /\ Failing \/ Dropped \/ Closed \/ Sent
  <2>1. /\ b.serve = "actions" /\ b.actions # << >> /\ Head(b.actions).t = "clientStart"
        /\ UNCHANGED <<polled, serverVars, faults>>
    BY DEF ServeStart, Offers, Action
  <2> DEFINE Body(u, v, w) ==
        \/ v.err # NoErr /\ Becomes(n, Answered(u)) /\ UNCHANGED <<toServer, fresh>>
        \/ /\ v.err = NoErr /\ ~w.conn.isActive
           /\ Becomes(n, [w EXCEPT !.serve = "dropped"]) /\ UNCHANGED <<toServer, fresh>>
        \/ /\ v.err = NoErr /\ w.conn.isActive /\ u.closed
           /\ Becomes(n, Ended(Answered(w))) /\ UNCHANGED <<toServer, fresh>>
        \/ /\ v.err = NoErr /\ w.conn.isActive /\ ~u.closed
           /\ cl' = [m \in Nodes |-> IF m = n THEN [w EXCEPT !.serve = "sent"]
                                     ELSE Hears(cl[m], w.act)]
           /\ toServer' = IF up THEN Append(toServer, w.act) ELSE toServer
           /\ fresh' = IF toServer # << >> THEN {}
                       ELSE IF u.inbox = << >> /\ u.actions = << >> THEN fresh
                       ELSE fresh \ {n}
  <2>2. \E u \in {Received(cl[n])} : \E v \in {Filled(u, Action(cl[n]).data)} :
        \E w \in {[u EXCEPT !.act = v.data, !.conn = clientWrite(@, v.data.pdu)]} :
           Body(u, v, w)
    BY DEF ServeStart
  <2> HIDE DEF Body
  <2>3. Body(c, f, d)
    <3>1. PICK u \in {Received(cl[n])} : \E v \in {Filled(u, Action(cl[n]).data)} :
          \E w \in {[u EXCEPT !.act = v.data, !.conn = clientWrite(@, v.data.pdu)]} :
             Body(u, v, w)
      BY <2>2
    <3>2. u = c
      OBVIOUS
    <3>3. PICK v \in {Filled(u, Action(cl[n]).data)} :
          \E w \in {[u EXCEPT !.act = v.data, !.conn = clientWrite(@, v.data.pdu)]} :
             Body(u, v, w)
      BY <3>1
    <3>4. v = f
      BY <3>2 DEF Action
    <3>5. PICK w \in {[u EXCEPT !.act = v.data, !.conn = clientWrite(@, v.data.pdu)]} :
             Body(u, v, w)
      BY <3>3
    <3> HIDE DEF c, f
    <3>6. w = d
      BY <3>2, <3>4
    <3> HIDE DEF d
    <3> QED BY <3>2, <3>4, <3>5, <3>6
  <2>4. Failing \/ Dropped \/ Closed \/ Sent
    <3> HIDE DEF c, f, d
    <3> QED BY <2>3 DEF Body
  <2> HIDE DEF Failing, Dropped, Closed, Sent
  <2> QED BY <2>1, <2>4
<1>2. /\ ClientOK(n, b) /\ IsClient(b) /\ ConnOK(n, b.conn)
      /\ n \in fresh => Following(b, truth, toServer)
  BY OfClient
<1> HIDE DEF b
<1>3. /\ IsClient(c) /\ SameBus(b, c) /\ SameCall(b, c) /\ c.conn = b.conn
      /\ c.reader = b.reader /\ c.actions = Tail(b.actions)
  BY <1>1, <1>2, UpdateReceived
<1>4. /\ g \in Asked /\ (b.reader = "sending" => c.actions # << >>)
  BY <1>1, <1>2, <1>3, ReceivedOK
<1> HIDE DEF c, g
<1>5. ASSUME NEW y, IsClient(y), SameBus(b, y), y.reader = b.reader, y.actions = c.actions,
             ~Waiting(y), n \in fresh
      PROVE  Following(y, truth, toServer)
  <2>1. ~Waiting(b)
    BY <1>1 DEF Waiting
  <2>2. Expects(y) = Expects(b)
    BY <1>5, <2>1 DEF Expects, SameBus
  <2>3. /\ NoError(y.actions) => NoError(b.actions)
        /\ \A z : Holds(b.actions, z) => Holds(y.actions, z)
    <3>1. b.actions \in Seq(Signals) /\ Head(b.actions).t # "clientError"
      BY <1>1, <1>2 DEF IsClient
    <3> QED BY <1>1, <1>3, <1>5, <3>1, ChannelKeeps
  <2> QED BY <1>2, <1>5, <2>2, <2>3, FollowSame
<1>6. CASE Failing
  <2> DEFINE y == Answered(c)
  <2>1. /\ IsClient(y) /\ SameBus(c, y) /\ y.serve = "actions"
        /\ y.act = MakeRTU(0, << >>) /\ y.calls = c.calls - 1
        /\ y.conn = c.conn /\ y.reader = c.reader /\ y.actions = c.actions
    BY <1>3, UpdateAnswered
  <2>2. Becomes(n, y) /\ UNCHANGED <<polled, serverVars, toServer, faults, fresh>>
    BY <1>1, <1>6
  <2> HIDE DEF y
  <2>3. Sendable(y.act) /\ ConnOK(n, y.conn)
    BY <1>2, <1>3, <2>1, EmptyFrame
  <2>4. SameBus(b, y) /\ y.reader = b.reader /\ ~Waiting(y) /\ y.calls = b.calls - 1
    BY <1>3, <2>1 DEF SameBus, SameCall, Waiting
  <2>5. ClientOK(n, y)
    BY <1>1, <1>2, <1>3, <2>1, <2>3, <2>4, StartedOK
  <2>6. n \in fresh => Following(y, truth, toServer)
    BY <1>5, <2>1, <2>4
  <2> QED BY <2>2, <2>5, <2>6, StepOneSame
<1>7. ASSUME f.err = NoErr
      PROVE  /\ Sendable(f.data) /\ f.data \in Frames /\ ConnOK(n, x)
             /\ IsClient(d) /\ SameBus(b, d) /\ d.serve = b.serve /\ d.act = f.data
             /\ d.calls = b.calls /\ d.conn = x /\ d.reader = b.reader
             /\ d.actions = Tail(b.actions) /\ d.actions = c.actions
  <2>1. Sendable(f.data) /\ f.data.pdu \in Seq(Byte) /\ f.data \in Frames
    <3>1. IsMemory(c.mem)
      BY <1>3 DEF IsClient
    <3>2. Sendable(f.data) /\ f.data.pdu \in Seq(Byte)
      BY <1>4, <1>7, <3>1, FilledOK
    <3> QED BY <3>2 DEF Sendable, Bus
  <2> HIDE DEF f
  <2>2. ConnOK(n, x)
    BY <1>2, <1>3, <2>1, WriteConn
  <2>3. x \in Conns
    BY <2>2 DEF ConnOK
  <2> HIDE DEF x
  <2>4. /\ IsClient(d) /\ SameBus(c, d) /\ d.serve = c.serve
        /\ d.act = f.data /\ d.calls = c.calls
        /\ d.conn = x /\ d.reader = c.reader /\ d.actions = c.actions
    BY <1>3, <2>1, <2>3 DEF IsClient, SameBus
  <2> HIDE DEF d
  <2> QED BY <1>3, <2>1, <2>2, <2>4 DEF SameBus, SameCall
<1> HIDE DEF f, x, d
<1>8. CASE Dropped
  <2> DEFINE y == [d EXCEPT !.serve = "dropped"]
  <2>1. f.err = NoErr /\ ~d.conn.isActive /\ Becomes(n, y)
        /\ UNCHANGED <<polled, serverVars, toServer, faults, fresh>>
    BY <1>1, <1>8
  <2>2. /\ IsClient(y) /\ SameBus(d, y) /\ y.serve = "dropped" /\ y.act = d.act
        /\ y.calls = d.calls /\ y.conn = d.conn /\ y.reader = d.reader
        /\ y.actions = d.actions
    BY <1>7, <2>1, UpdateServe
  <2> HIDE DEF y
  <2>3. /\ SameBus(b, y) /\ ~Waiting(y) /\ y.reader = b.reader /\ y.calls = b.calls
        /\ y.actions = Tail(b.actions) /\ Sendable(y.act) /\ ConnOK(n, y.conn)
        /\ ~y.conn.isActive /\ y.actions = c.actions
    BY <1>7, <2>1, <2>2 DEF SameBus, Waiting
  <2>4. ClientOK(n, y)
    BY <1>1, <1>2, <2>2, <2>3, StartedOK
  <2>5. n \in fresh => Following(y, truth, toServer)
    BY <1>5, <2>2, <2>3
  <2> QED BY <2>1, <2>4, <2>5, StepOneSame
<1>9. CASE Closed
  <2> DEFINE e == Answered(d)
             y == Ended(e)
  <2>1. f.err = NoErr /\ Becomes(n, y)
        /\ UNCHANGED <<polled, serverVars, toServer, faults, fresh>>
    BY <1>1, <1>9
  <2>2. /\ IsClient(e) /\ e.act = MakeRTU(0, << >>) /\ e.calls = d.calls - 1
        /\ e.conn = d.conn /\ e.reader = d.reader /\ e.actions = d.actions
    BY <1>7, <2>1, UpdateAnswered
  <2> HIDE DEF e
  <2>3. /\ IsClient(y) /\ y.closed /\ y.serve = "ended" /\ y.act = e.act
        /\ y.calls = e.calls /\ y.conn = e.conn /\ y.reader = e.reader
        /\ y.actions = e.actions
    BY <2>2, UpdateEnded
  <2> HIDE DEF y
  <2>4. /\ y.reader = b.reader /\ y.calls = b.calls - 1 /\ y.actions = Tail(b.actions)
        /\ Sendable(y.act) /\ ConnOK(n, y.conn)
    BY <1>7, <2>1, <2>2, <2>3, EmptyFrame
  <2>5. ClientOK(n, y)
    BY <1>1, <1>2, <2>3, <2>4, StartedOK
  <2>6. Following(y, truth, toServer)
    BY <2>3 DEF Following
  <2> QED BY <2>1, <2>5, <2>6, StepOneSame
<1>10. CASE Sent
  <2> DEFINE y == [d EXCEPT !.serve = "sent"]
             a == d.act
  <2>1. /\ f.err = NoErr /\ ~c.closed
        /\ cl' = [m \in Nodes |-> IF m = n THEN y ELSE Hears(cl[m], a)]
        /\ toServer' = IF up THEN Append(toServer, a) ELSE toServer
        /\ fresh' = IF toServer # << >> THEN {}
                    ELSE IF c.inbox = << >> /\ c.actions = << >> THEN fresh
                    ELSE fresh \ {n}
    BY <1>10
  <2>2. a \in Frames /\ Sendable(a) /\ a \in Bus /\ Plain(a.pdu)
    BY <1>7, <2>1 DEF Sendable, Bus
  <2>3. /\ IsClient(y) /\ SameBus(d, y) /\ y.serve = "sent" /\ y.act = a
        /\ y.calls = d.calls /\ y.conn = d.conn /\ y.reader = d.reader
        /\ y.actions = d.actions
    BY <1>7, <2>1, UpdateServe
  <2> HIDE DEF y, a
  <2>4. /\ SameBus(b, y) /\ y.reader = b.reader /\ y.calls = b.calls
        /\ y.actions = Tail(b.actions) /\ ConnOK(n, y.conn)
    BY <1>7, <2>1, <2>3 DEF SameBus
  <2>5. ClientOK(n, y)
    BY <1>1, <1>2, <2>2, <2>3, <2>4, StartedOK
  <2>6. /\ cl'[n] = y /\ \A m \in Nodes \ {n} : cl'[m] = Hears(cl[m], a)
        /\ cl' = [m \in Nodes |-> cl'[m]]
    BY <2>1
  <2>7. \A m \in Nodes : ClientOK(m, cl[m]) /\ IsClient(cl[m])
    BY OfClient
  <2>8. ASSUME NEW m \in Nodes PROVE ClientOK(m, cl'[m])
    <3>1. CASE m = n
      BY <2>5, <2>6, <3>1
    <3>2. CASE m # n
      BY <2>2, <2>6, <2>7, <3>2, HearsOK
    <3> QED BY <3>1, <3>2
  <2>9. Clients'
    BY <2>6, <2>8 DEF Clients
  <2>10. /\ toServer \in Seq(Bus) /\ up \in BOOLEAN /\ fresh \subseteq Nodes
    BY DEF IInv, Apart
  <2>11. /\ toServer' \in Seq(Bus) /\ fresh' \subseteq fresh
         /\ fresh' # {} => toServer = << >>
    BY <2>1, <2>2, <2>10
  <2>12. fresh' # {} => /\ Len(toServer') <= 1
                        /\ toServer' # << >> => Head(toServer') = a
    <3> SUFFICES ASSUME toServer = << >>
                 PROVE  Len(toServer') <= 1 /\ (toServer' # << >> => Head(toServer') = a)
      BY <2>11
    <3>1. Len(<< >>) = 0 /\ Len(Append(<< >>, a)) = 1 /\ Head(Append(<< >>, a)) = a
      OBVIOUS
    <3> QED BY <2>1, <3>1
  <2>13. Apart'
    BY <1>1, <2>11, <2>12 DEF IInv, Apart, serverVars
  <2>14. ASSUME NEW m \in fresh' PROVE Following(cl'[m], truth, toServer')
    <3>1. /\ toServer = << >> /\ m \in fresh /\ m \in Nodes
          /\ toServer' # << >> => Head(toServer') = a
      BY <2>10, <2>11, <2>12, <2>14
    <3>2. CASE m = n
      <4>1. c.inbox = << >> /\ c.actions = << >>
        BY <2>1, <2>14, <3>1, <3>2
      <4>2. c.reader # "sending" /\ ~b.closed /\ b.inbox = << >>
        BY <1>3, <1>4, <2>1, <4>1 DEF SameBus
      <4>3. NoError(b.actions)
        <5>1. NoError(<< >>)
          BY DEF NoError
        <5>2. b.actions \in Seq(Signals) /\ Head(b.actions).t # "clientError"
          BY <1>1, <1>2 DEF IsClient
        <5> QED BY <1>1, <1>3, <4>1, <5>1, <5>2, ChannelKeeps
      <4>4. b.mem = truth /\ Plain(b.last)
        BY <1>2, <1>3, <3>1, <3>2, <4>2, <4>3, FollowQuiet
      <4>5. /\ y.inbox = << >> /\ y.reader # "sending" /\ y.mem = truth /\ Plain(y.last)
        BY <1>3, <2>4, <4>2, <4>4 DEF SameBus
      <4>6. Asks(toServer', Expects(y))
        <5>1. ASSUME toServer' # << >>, Reads(Head(toServer').pdu)
              PROVE  Expects(y) = Head(toServer').pdu
          <6>1. Reads(a.pdu) /\ Head(toServer') = a
            BY <3>1, <5>1
          <6>2. a.id # 0
            BY <2>2, <6>1 DEF Frames
          <6> QED BY <2>3, <6>1, <6>2 DEF Expects, Waiting
        <5> QED BY <5>1 DEF Asks
      <4>7. Following(y, truth, toServer')
        BY <4>5, <4>6, FollowArrived
      <4> QED BY <2>6, <3>2, <4>7
    <3>3. CASE m # n
      <4>1. Following(cl[m], truth, toServer)
        BY <3>1, OfClient
      <4>2. \A r : Turns(truth, r, a.pdu, truth)
        BY <2>2 DEF Turns
      <4>3. Asks(toServer', a.pdu)
        BY <3>1 DEF Asks
      <4>4. Following(Hears(cl[m], a), truth, toServer')
        BY <2>2, <2>7, <3>1, <4>1, <4>2, <4>3, FollowHears
      <4> QED BY <2>6, <3>1, <3>3, <4>4
    <3> QED BY <3>2, <3>3
  <2>15. Follow'
    BY <1>1, <2>14 DEF Follow, serverVars
  <2> QED BY <2>9, <2>13, <2>15 DEF IInv
<1> QED BY <1>1, <1>6, <1>8, <1>9, <1>10

-------------------------------------------------------------------------------
(***************************************************************************)
(* The clock.                                                              *)
(***************************************************************************)
\* The clients after a delay has passed for those that run.
Waited(lat) ==
    /\ lat = [n \in Nodes |-> lat[n]]
    /\ \A n \in Nodes : \E x : /\ Passing(cl[n].conn, x) \/ x = cl[n].conn
                               /\ lat[n] = [cl[n] EXCEPT !.conn = x]

LEMMA LaterWaited ==
    /\ Waited(Later(MissDelayPasses)) /\ Waited(Later(PrimaryDisconnectDelayPasses))
    /\ Waited(Later(PrimaryForceBackDelayPasses))
<1>1. Waited(Later(MissDelayPasses))
  <2> DEFINE lat == Later(MissDelayPasses)
             x(n) == IF Running(n) THEN MissDelayPasses(cl[n].conn) ELSE cl[n].conn
  <2>1. lat = [n \in Nodes |-> [cl[n] EXCEPT !.conn = x(n)]]
    BY DEF Later
  <2>2. \A n \in Nodes : Passing(cl[n].conn, x(n)) \/ x(n) = cl[n].conn
    BY DEF Passing
  <2> HIDE DEF lat, x
  <2>3. Waited(lat)
    BY <2>1, <2>2 DEF Waited
  <2> QED BY <2>3 DEF lat
<1>2. Waited(Later(PrimaryDisconnectDelayPasses))
  <2> DEFINE lat == Later(PrimaryDisconnectDelayPasses)
             x(n) == IF Running(n) THEN PrimaryDisconnectDelayPasses(cl[n].conn)
                     ELSE cl[n].conn
  <2>1. lat = [n \in Nodes |-> [cl[n] EXCEPT !.conn = x(n)]]
    BY DEF Later
  <2>2. \A n \in Nodes : Passing(cl[n].conn, x(n)) \/ x(n) = cl[n].conn
    BY DEF Passing
  <2> HIDE DEF lat, x
  <2>3. Waited(lat)
    BY <2>1, <2>2 DEF Waited
  <2> QED BY <2>3 DEF lat
<1>3. Waited(Later(PrimaryForceBackDelayPasses))
  <2> DEFINE lat == Later(PrimaryForceBackDelayPasses)
             x(n) == IF Running(n) THEN PrimaryForceBackDelayPasses(cl[n].conn)
                     ELSE cl[n].conn
  <2>1. lat = [n \in Nodes |-> [cl[n] EXCEPT !.conn = x(n)]]
    BY DEF Later
  <2>2. \A n \in Nodes : Passing(cl[n].conn, x(n)) \/ x(n) = cl[n].conn
    BY DEF Passing
  <2> HIDE DEF lat, x
  <2>3. Waited(lat)
    BY <2>1, <2>2 DEF Waited
  <2> QED BY <2>3 DEF lat
<1> QED BY <1>1, <1>2, <1>3

LEMMA WaitedOK ==
    ASSUME IInv, NEW lat, Waited(lat), NEW n \in Nodes
    PROVE  /\ ClientOK(n, lat[n]) /\ IsClient(lat[n])
           /\ SameBus(cl[n], lat[n]) /\ SameCall(cl[n], lat[n])
           /\ lat[n].reader = cl[n].reader /\ lat[n].actions = cl[n].actions
           /\ n \in fresh => Following(lat[n], truth, toServer)
<1> DEFINE c == cl[n]
           d == lat[n]
<1>1. PICK x : (Passing(c.conn, x) \/ x = c.conn) /\ d = [c EXCEPT !.conn = x]
  BY DEF Waited
<1>2. ClientOK(n, c) /\ (n \in fresh => Following(c, truth, toServer))
  BY OfClient
<1> HIDE DEF c, d
<1>3. /\ ClientOK(n, d) /\ SameBus(c, d) /\ SameCall(c, d)
      /\ d.reader = c.reader /\ d.actions = c.actions
  BY <1>1, <1>2, PassesOK
<1>4. Expects(d) = Expects(c)
  BY <1>3 DEF Expects, Waiting, SameBus, SameCall
<1>5. n \in fresh => Following(d, truth, toServer)
  BY <1>2, <1>3, <1>4, FollowSame
<1>6. IsClient(d)
  BY <1>3 DEF ClientOK
<1> QED BY <1>3, <1>5, <1>6 DEF c, d

LEMMA WaitedNow == IInv => Waited(cl)
<1> SUFFICES ASSUME IInv, NEW n \in Nodes PROVE cl[n] = [cl[n] EXCEPT !.conn = cl[n].conn]
  BY DEF Waited, IInv, Clients
<1> DEFINE c == cl[n]
<1>1. IsClient(c)
  BY OfClient
<1> HIDE DEF c
<1>2. c = [c EXCEPT !.conn = c.conn]
  BY <1>1 DEF IsClient
<1> QED BY <1>2 DEF c

LEMMA StepNewRound ==
    ASSUME IInv, NextRound \/ RoundAfterPause \/ RoundAfterForceBackDelay
    PROVE  IInv'
<1>1. PICK lat : /\ Waited(lat) /\ polled' = {} /\ cl' = lat
                 /\ UNCHANGED <<serverVars, toServer, faults, fresh>>
  <2>1. CASE NextRound
    <3>1. /\ polled' = {} /\ cl' = Later(MissDelayPasses)
          /\ UNCHANGED <<serverVars, toServer, faults, fresh>>
      BY <2>1 DEF NextRound, NewRound
    <3> QED BY <3>1, LaterWaited
  <2>2. CASE RoundAfterPause
    <3>1. /\ polled' = {} /\ cl' = Later(PrimaryDisconnectDelayPasses)
          /\ UNCHANGED <<serverVars, toServer, faults, fresh>>
      BY <2>2 DEF RoundAfterPause, NewRound
    <3> QED BY <3>1, LaterWaited
  <2>3. CASE RoundAfterForceBackDelay
    <3>1. /\ polled' = {} /\ cl' = Later(PrimaryForceBackDelayPasses)
          /\ UNCHANGED <<serverVars, toServer, faults, fresh>>
      BY <2>3 DEF RoundAfterForceBackDelay, NewRound
    <3> QED BY <3>1, LaterWaited
  <2> QED BY <2>1, <2>2, <2>3
<1>2. Clients'
  BY <1>1, WaitedOK DEF Clients, Waited
<1>3. Apart'
  BY <1>1 DEF IInv, Apart, serverVars
<1>4. Follow'
  <2> SUFFICES ASSUME NEW n \in fresh' PROVE Following(cl'[n], truth', toServer')
    BY DEF Follow
  <2>1. n \in fresh /\ n \in Nodes /\ truth' = truth /\ toServer' = toServer
    BY <1>1 DEF IInv, Apart, serverVars
  <2> QED BY <1>1, <2>1, WaitedOK
<1> QED BY <1>2, <1>3, <1>4 DEF IInv

LEMMA StepServeTimeOut ==
    ASSUME IInv, NEW n \in Nodes, ServeTimeOut(n)
    PROVE  IInv'
<1> DEFINE c == cl[n]
           lat == Later(MissDelayPasses)
           b == lat[n]
           d == Answered(b)
<1>1. /\ c.serve = "reply" /\ Quiet /\ cl' = [lat EXCEPT ![n] = Answered(@)]
      /\ UNCHANGED <<polled, serverVars, toServer, faults, fresh>>
  BY DEF ServeTimeOut
<1>2. Waited(lat)
  BY LaterWaited
<1> HIDE DEF lat
<1>3. lat = [m \in Nodes |-> lat[m]]
  BY <1>2 DEF Waited
<1>4. cl' = [m \in Nodes |-> IF m = n THEN d ELSE lat[m]]
  BY <1>1, <1>3
<1>5. \A m \in Nodes : /\ ClientOK(m, lat[m])
                       /\ m \in fresh => Following(lat[m], truth, toServer)
  BY <1>2, WaitedOK
<1>6. /\ ClientOK(n, b) /\ IsClient(b) /\ SameBus(c, b) /\ SameCall(c, b)
      /\ b.reader = c.reader /\ b.actions = c.actions
  BY <1>2, WaitedOK
<1>7. toServer = << >> /\ c.inbox = << >> /\ c.actions = << >>
  BY <1>1 DEF Quiet, Running
<1> HIDE DEF b
<1>8. /\ IsClient(d) /\ SameBus(b, d) /\ d.serve = "actions"
      /\ d.act = MakeRTU(0, << >>) /\ d.calls = b.calls - 1
      /\ d.conn = b.conn /\ d.reader = b.reader /\ d.actions = b.actions
  BY <1>6, UpdateAnswered
<1> HIDE DEF d, c
<1>9. ClientOK(n, d)
  <2>1. b.serve = "reply" /\ ConnOK(n, d.conn)
    BY <1>1, <1>6, <1>8 DEF SameCall, ClientOK
  <2> QED BY <1>6, <1>8, <2>1, WrittenOK
<1>10. ASSUME n \in fresh, ~d.closed PROVE Following(d, truth, toServer)
  <2>1. Following(b, truth, toServer)
    BY <1>5, <1>10 DEF b
  <2>2. b.inbox = << >> /\ b.actions = << >> /\ ~b.closed
    BY <1>6, <1>7, <1>8, <1>10 DEF SameBus
  <2>3. NoError(b.actions) /\ b.reader # "sending"
    <3>1. Channel(b.actions, b.reader)
      BY <1>6 DEF ClientOK
    <3> QED BY <2>2, <3>1 DEF Channel, NoError
  <2>4. b.mem = truth /\ Plain(b.last)
    BY <2>1, <2>2, <2>3, FollowQuiet
  <2>5. /\ d.inbox = << >> /\ d.reader # "sending" /\ d.mem = truth /\ Plain(d.last)
    BY <1>8, <2>2, <2>3, <2>4 DEF SameBus
  <2>6. Asks(toServer, Expects(d))
    BY <1>7 DEF Asks
  <2> QED BY <2>5, <2>6, FollowArrived
<1>11. n \in fresh => Following(d, truth, toServer)
  BY <1>10 DEF Following
<1>12. /\ cl' = [m \in Nodes |-> cl'[m]] /\ cl'[n] = d
       /\ \A m \in Nodes \ {n} : cl'[m] = lat[m]
  BY <1>4
<1>13. Clients'
  BY <1>5, <1>9, <1>12 DEF Clients
<1>14. Apart'
  BY <1>1 DEF IInv, Apart, serverVars
<1>15. Follow'
  <2> SUFFICES ASSUME NEW m \in fresh' PROVE Following(cl'[m], truth', toServer')
    BY DEF Follow
  <2>1. m \in fresh /\ m \in Nodes /\ truth' = truth /\ toServer' = toServer
    BY <1>1 DEF IInv, Apart, serverVars
  <2>2. CASE m = n
    BY <1>11, <1>12, <2>1, <2>2
  <2>3. CASE m # n
    BY <1>5, <1>12, <2>1, <2>3
  <2> QED BY <2>2, <2>3
<1> QED BY <1>13, <1>14, <1>15 DEF IInv

-------------------------------------------------------------------------------
(***************************************************************************)
(* The applications.                                                       *)
(***************************************************************************)
LEMMA StepAsked ==
    ASSUME Deployment, IInv, NEW n \in Nodes, NEW f \in Asked,
           StartTransactionToServer(n, f), UNCHANGED <<up, truth, toServer, fresh>>,
           polled' \subseteq Nodes, faults' \in 0..MaxFaults
    PROVE  IInv'
<1> DEFINE c == cl[n]
           x == Sending("clientStart", f)
           d == [c EXCEPT !.calls = @ + 1, !.actions = Append(@, x)]
<1>1. cl' = [cl EXCEPT ![n] = d]
  BY DEF StartTransactionToServer, Becomes
<1>2. ClientOK(n, c) /\ IsClient(c) /\ (n \in fresh => Following(c, truth, toServer))
  BY OfClient
<1> HIDE DEF c
<1>3. /\ ClientOK(n, d) /\ SameBus(c, d) /\ d.serve = c.serve /\ d.act = c.act
      /\ d.reader = c.reader /\ d.actions = Append(c.actions, x)
  BY <1>2, AskedOK
<1> HIDE DEF d
<1>4. c.actions \in Seq(Signals) /\ x \in Signals /\ x.t = "clientStart"
  BY <1>2, AskedFrames DEF IsClient, Sending, Signals
<1> HIDE DEF x
<1>5. ASSUME n \in fresh PROVE Following(d, truth, toServer)
  <2>1. /\ NoError(d.actions) => NoError(c.actions)
        /\ \A z : Holds(c.actions, z) => Holds(d.actions, z)
    BY <1>3, <1>4, ChannelHolds
  <2>2. Expects(d) = Expects(c)
    BY <1>3 DEF Expects, Waiting, SameBus
  <2>3. Following(c, truth, toServer)
    BY <1>2, <1>5
  <2> QED BY <1>3, <2>1, <2>2, <2>3, FollowSame
<1>6. UNCHANGED <<serverVars, toServer>> /\ fresh' \subseteq fresh
      /\ (n \in fresh' => Following(d, truth, toServer))
  BY <1>5 DEF serverVars
<1> QED BY <1>1, <1>3, <1>6, StepOne

LEMMA StepPoll ==
    ASSUME Deployment, IInv, NEW n \in Nodes, Poll(n)
    PROVE  IInv'
<1>1. PICK f \in Requests : StartTransactionToServer(n, f)
  BY DEF Poll
<1>2. f \in Asked
  BY DEF Asked
<1>3. /\ UNCHANGED <<up, truth, toServer, fresh>> /\ polled' \subseteq Nodes
      /\ faults' \in 0..MaxFaults
  BY DEF Poll, IInv, Apart, serverVars
<1> QED BY <1>1, <1>2, <1>3, StepAsked

\* A fault is counted.
LEMMA FaultCounts ==
    ASSUME IInv, Fault PROVE faults' \in 0..MaxFaults
<1>1. faults \in 0..MaxFaults /\ faults < MaxFaults /\ faults' = faults + 1
  BY DEF IInv, Apart, Fault
<1> QED BY <1>1, FailoverClientsAssumption

LEMMA StepAskOutOfTurn ==
    ASSUME Deployment, IInv, NEW n \in Nodes, AskOutOfTurn(n)
    PROVE  IInv'
<1>1. PICK f \in Others : StartTransactionToServer(n, f)
  BY DEF AskOutOfTurn
<1>2. f \in Asked
  BY DEF Asked
<1>3. /\ UNCHANGED <<up, truth, toServer, fresh>> /\ polled' \subseteq Nodes
  BY DEF AskOutOfTurn, IInv, Apart
<1>4. faults' \in 0..MaxFaults
  BY FaultCounts DEF AskOutOfTurn
<1> QED BY <1>1, <1>2, <1>3, <1>4, StepAsked

LEMMA StepClose ==
    ASSUME IInv, NEW n \in Nodes, Close(n)
    PROVE  IInv'
<1> DEFINE c == cl[n]
           d == [c EXCEPT !.closed = TRUE, !.inbox = << >>]
<1>1. cl' = [cl EXCEPT ![n] = d] /\ UNCHANGED <<polled, up, truth, toServer, fresh>>
  BY DEF Close, Becomes
<1>2. ClientOK(n, c) /\ IsClient(c)
  BY OfClient
<1> HIDE DEF c
<1>3. << >> \in Seq(Frames)
  OBVIOUS
<1>4. /\ IsClient(d) /\ SameCall(c, d) /\ d.closed
      /\ d.conn = c.conn /\ d.reader = c.reader /\ d.actions = c.actions
  BY <1>2, <1>3 DEF IsClient, SameCall
<1> HIDE DEF d
<1>5. Channel(d.actions, d.reader) /\ Calls(d)
  BY <1>2, <1>4 DEF ClientOK, Calls, SameCall
<1>6. ClientOK(n, d)
  BY <1>2, <1>4, <1>5 DEF ClientOK, SameCall
<1>7. Following(d, truth, toServer)
  BY <1>4 DEF Following
<1>8. faults' \in 0..MaxFaults
  BY FaultCounts DEF Close
<1>9. UNCHANGED <<serverVars, toServer>> /\ polled' \subseteq Nodes /\ fresh' \subseteq fresh
  BY <1>1 DEF IInv, Apart, serverVars
<1> QED BY <1>1, <1>6, <1>7, <1>8, <1>9, StepOne

LEMMA StepRestart ==
    ASSUME Deployment, IInv, NEW n \in Nodes, Restart(n)
    PROVE  IInv'
<1> DEFINE d == NewClient(n)
<1>1. /\ cl' = [cl EXCEPT ![n] = d] /\ fresh' = fresh \ {n}
      /\ UNCHANGED <<polled, serverVars, toServer, faults>>
  BY DEF Restart, Becomes
<1>2. ClientOK(n, d)
  BY NewClientOK DEF Deployment
<1> HIDE DEF d
<1>3. /\ UNCHANGED <<serverVars, toServer>> /\ polled' \subseteq Nodes
      /\ faults' \in 0..MaxFaults /\ fresh' \subseteq fresh /\ n \notin fresh'
  BY <1>1 DEF IInv, Apart
<1> QED BY <1>1, <1>2, <1>3, StepOne

-------------------------------------------------------------------------------
(***************************************************************************)
(* The server.                                                             *)
(***************************************************************************)
\* A request to read has the size that its header says.
LEMMA ReadSize ==
    ASSUME NEW p \in Seq(Byte), IsRequestHeader(p), Reads(p)
    PROVE  GetPDUSizeFromHeader(p, FALSE) = Len(p)
<1> DEFINE f == GetFunctionCode(p)
           a == GetAddress(p)
           c == Count(p)
<1>1. /\ f \in {1, 2, 3, 4, 5, 6, 15, 16} /\ HeaderError(f, a, c) = NoErr
      /\ MakeRequestHeader(f, a, c).pdu = p
  BY HeaderNumbers
<1>2. f \in {1, 2, 3, 4}
  BY <1>1 DEF Reads, IsReadToServer
<1>3. p = HeaderBytes(f, a, c)
  BY <1>1 DEF MakeRequestHeader
<1>4. Len(p) = 5
  <2> HIDE DEF f, a, c
  <2>1. HeaderBytes(f, a, c) = <<f, High(a), Low(a), High(c), Low(c)>>
    BY <1>2 DEF HeaderBytes, IsSingle, FcWriteMultipleCoils, FcWriteMultipleRegisters
  <2> QED BY <1>3, <2>1
<1>5. p # << >> /\ p[1] = f
  <2>1. p # << >>
    BY <1>4
  <2> QED BY <2>1 DEF GetFunctionCode
<1>6. ~(Len(p) < 2) /\ Valid(p[1]) /\ IsWriteToServer(p[1]) = FALSE
  BY <1>2, <1>4, <1>5 DEF Valid, IsWriteToServer
<1>7. GetPDUSizeFromHeader(p, FALSE) = 5
  BY <1>6 DEF GetPDUSizeFromHeader
<1> QED BY <1>4, <1>7

\* What the reply tells, to whoever has heard the request.
LEMMA ReplyTurns ==
    ASSUME Deployment, NEW m, IsMemory(m), NEW p \in Seq(Byte), Plain(p), NEW t, NEW r,
           Reads(p) => r = p
    PROVE  LET h == Handle(m, p)
           IN  Turns(t, r, h.reply,
                     IF h.err = NoErr /\ IsReadToServer(GetFunctionCode(p))
                     THEN OnWrite(t, p, GetReplyValues(h.reply).data).mem ELSE t)
<1> DEFINE h == Handle(m, p)
           u == IF h.err = NoErr /\ IsReadToServer(GetFunctionCode(p))
                THEN OnWrite(t, p, GetReplyValues(h.reply).data).mem ELSE t
<1>1. /\ h.reply \in Seq(Byte)
      /\ h.err # NoErr => SeparateError(GetFunctionCode(h.reply)).hasErr
      /\ h.err = NoErr => GetFunctionCode(h.reply) = GetFunctionCode(p)
  BY Handled
<1>2. CASE h.err = NoErr /\ Reads(p)
  <2>1. p \in ReadPdus /\ r = p
    BY <1>2 DEF Plain
  <2>2. IsRequestHeader(p)
    BY <2>1, ReadRequests
  <2>3. Count(p) \in Nat /\ Count(p) >= 1 /\ Count(p) <= MaxPerPacket(GetFunctionCode(p))
    BY <2>2, HeaderNumbers
  <2>4. IsReadToServer(GetFunctionCode(p)) /\ h.err = NoErr
    BY <1>2 DEF Reads
  <2>5. IsRequestReply(p, h.reply)
    BY <1>2, <2>2, <2>3, ReadSize, ServedIsReply
  <2>6. GetReplyValues(h.reply).err = NoErr
    BY <2>3, <2>4, ReadServed
  <2>7. u = OnWrite(t, p, GetReplyValues(h.reply).data).mem
    BY <2>4
  <2> HIDE DEF h, u
  <2>8. Turns(t, r, h.reply, u)
    BY <2>1, <2>5, <2>6, <2>7 DEF Turns, Tells
  <2> QED BY <2>8 DEF u, h
<1>3. CASE ~(h.err = NoErr /\ Reads(p))
  <2>1. u = t
    BY <1>3 DEF Reads
  <2>2. ~Reads(h.reply)
    <3>1. CASE h.err = NoErr
      BY <1>1, <1>3, <3>1 DEF Reads
    <3>2. CASE h.err # NoErr
      <4> DEFINE k == GetFunctionCode(h.reply)
      <4>1. SeparateError(k).hasErr
        BY <1>1, <3>2
      <4> HIDE DEF k
      <4>2. k \notin {1, 2, 3, 4, 23}
        BY <4>1, NoException
      <4> QED BY <4>2 DEF Reads, IsReadToServer, k
    <3> QED BY <3>1, <3>2
  <2> HIDE DEF h, u
  <2>3. Turns(t, r, h.reply, u)
    BY <2>1, <2>2 DEF Turns, Plain
  <2> QED BY <2>3 DEF u, h
<1> QED BY <1>2, <1>3

\* A packet with the server's id.
LEMMA ReplyFrame ==
    ASSUME NEW p \in Seq(Byte), NEW b \in BOOLEAN
    PROVE  LET f == [id |-> SlaveID, pdu |-> p, ok |-> b]
           IN  f \in Frames /\ f.pdu = p /\ f.ok = b
<1> DEFINE f == [id |-> SlaveID, pdu |-> p, ok |-> b]
<1>1. /\ f \in [id : {0, SlaveID}, pdu : Seq(Byte), ok : BOOLEAN] /\ f.id = SlaveID
      /\ f.pdu = p /\ f.ok = b
  OBVIOUS
<1>2. SlaveID # 0
  BY FailoverClientsAssumption
<1> HIDE DEF f
<1>3. f \in Frames
  BY <1>1, <1>2 DEF Frames
<1> QED BY <1>1, <1>3 DEF f

LEMMA StepReply ==
    ASSUME Deployment, IInv, NEW lat, Waited(lat), Reply(lat), faults' \in 0..MaxFaults
    PROVE  IInv'
<1> DEFINE p == Head(toServer).pdu
           New(h) == IF h.err = NoErr /\ IsReadToServer(GetFunctionCode(p))
                     THEN OnWrite(truth, p, GetReplyValues(h.reply).data).mem
                     ELSE truth
<1>1. /\ toServer # << >> /\ toServer' = Tail(toServer) /\ UNCHANGED <<polled, up, fresh>>
  BY DEF Reply
<1>2. PICK m \in ServerMemories \ {truth} :
         /\ cl' = [n \in Nodes |-> Hears(lat[n], MakeRTU(SlaveID, Handle(m, p).reply))]
         /\ truth' = New(Handle(m, p))
  BY DEF Reply
<1> DEFINE h == Handle(m, p)
           f == MakeRTU(SlaveID, h.reply)
<1>3. /\ cl' = [n \in Nodes |-> Hears(lat[n], f)] /\ truth' = New(h)
  BY <1>2
<1>4. IsMemory(m)
  BY DEF Deployment
<1>5. /\ toServer \in Seq(Bus) /\ Plain(p) /\ p \in Seq(Byte) /\ Tail(toServer) \in Seq(Bus)
      /\ Len(toServer) <= 1 => Tail(toServer) = << >>
  BY <1>1, ToServerHead DEF IInv, Apart
<1>6. f \in Frames /\ f.pdu = h.reply
  <2>1. h.reply \in Seq(Byte)
    BY <1>4, <1>5, Handled
  <2> HIDE DEF h
  <2> QED BY <2>1, ReplyFrame DEF MakeRTU
<1>7. ASSUME NEW r, Reads(p) => r = p PROVE Turns(truth, r, f.pdu, truth')
  <2>1. Turns(truth, r, h.reply, New(h))
    BY <1>4, <1>5, <1>7, ReplyTurns
  <2> HIDE DEF h, New
  <2> QED BY <1>3, <1>6, <2>1
<1> HIDE DEF f, h, New
<1>8. /\ cl' = [n \in Nodes |-> cl'[n]] /\ \A n \in Nodes : cl'[n] = Hears(lat[n], f)
  BY <1>3
<1>9. Clients'
  <2>1. ASSUME NEW n \in Nodes PROVE ClientOK(n, cl'[n])
    <3>1. ClientOK(n, lat[n])
      BY WaitedOK
    <3> QED BY <1>6, <1>8, <3>1, HearsOK
  <2> QED BY <1>8, <2>1 DEF Clients
<1>10. fresh' # {} => toServer' = << >>
  BY <1>1, <1>5 DEF IInv, Apart
<1>11. Apart'
  <2>1. fresh' # {} => Len(toServer') <= 1
    <3>1. Len(<< >>) <= 1
      OBVIOUS
    <3> QED BY <1>10, <3>1
  <2> QED BY <1>1, <1>5, <2>1 DEF IInv, Apart
<1>12. Follow'
  <2> SUFFICES ASSUME NEW n \in fresh' PROVE Following(cl'[n], truth', toServer')
    BY DEF Follow
  <2>1. n \in fresh /\ n \in Nodes /\ toServer' = << >>
    BY <1>1, <1>10 DEF IInv, Apart
  <2>2. IsClient(lat[n]) /\ Following(lat[n], truth, toServer)
    BY <2>1, WaitedOK
  <2>3. \A r : Asks(toServer, r) => Turns(truth, r, f.pdu, truth')
    BY <1>1, <1>7 DEF Asks
  <2>4. Asks(<< >>, f.pdu)
    BY DEF Asks
  <2>5. Following(Hears(lat[n], f), truth', << >>)
    BY <1>6, <2>2, <2>3, <2>4, FollowHears
  <2> QED BY <1>8, <2>1, <2>5
<1> QED BY <1>9, <1>11, <1>12 DEF IInv

\* The server takes a packet and says nothing, or it is off.
LEMMA StepSilent ==
    ASSUME IInv, UNCHANGED <<cl, polled, truth, fresh>>, up' \in BOOLEAN,
           faults' \in 0..MaxFaults,
           \/ UNCHANGED toServer
           \/ toServer' = << >>
           \/ toServer # << >> /\ toServer' = Tail(toServer)
    PROVE  IInv'
<1>1. toServer \in Seq(Bus) /\ (fresh # {} => Len(toServer) <= 1)
  BY DEF IInv, Apart
<1>2. /\ toServer' \in Seq(Bus)
      /\ fresh # {} => toServer' = toServer \/ toServer' = << >>
  <2>1. << >> \in Seq(Bus)
    OBVIOUS
  <2>2. toServer # << >> => /\ Tail(toServer) \in Seq(Bus)
                            /\ Len(toServer) <= 1 => Tail(toServer) = << >>
    BY <1>1, ToServerHead
  <2>3. CASE UNCHANGED toServer
    BY <1>1, <2>3
  <2>4. CASE toServer' = << >>
    BY <2>1, <2>4
  <2>5. CASE toServer # << >> /\ toServer' = Tail(toServer)
    BY <1>1, <2>2, <2>5
  <2> QED BY <2>3, <2>4, <2>5
<1>3. fresh # {} => Len(toServer') <= 1
  <2>1. Len(<< >>) <= 1
    OBVIOUS
  <2> QED BY <1>1, <1>2, <2>1
<1>4. Apart'
  BY <1>2, <1>3 DEF IInv, Apart
<1>5. Clients'
  BY DEF IInv, Clients
<1>6. Follow'
  <2> SUFFICES ASSUME NEW n \in fresh PROVE Following(cl[n], truth, toServer')
    BY DEF Follow
  <2>1. Following(cl[n], truth, toServer)
    BY DEF IInv, Follow
  <2>2. Following(cl[n], truth, << >>)
    BY <2>1, FollowSilence
  <2> QED BY <1>2, <2>1, <2>2
<1> QED BY <1>4, <1>5, <1>6 DEF IInv

\* A packet with an error: Serve of a client that hears it will end.
LEMMA StepNoise ==
    ASSUME IInv, Noise
    PROVE  IInv'
<1> DEFINE f == [MakeRTU(SlaveID, << >>) EXCEPT !.ok = FALSE]
<1>1. /\ cl' = [n \in Nodes |-> Hears(cl[n], f)]
      /\ UNCHANGED <<polled, up, truth, toServer, fresh>>
  BY DEF Noise
<1>2. f \in Frames /\ ~Readable(f)
  <2> DEFINE g == MakeRTU(SlaveID, << >>)
  <2>1. g \in [id : {0, SlaveID}, pdu : Seq(Byte), ok : BOOLEAN] /\ g.id = SlaveID
        /\ g.pdu = << >>
    BY DEF MakeRTU
  <2> HIDE DEF g
  <2>2. f \in Frames /\ f.pdu = << >>
    <3>1. f = [g EXCEPT !.ok = FALSE]
      BY DEF g
    <3> HIDE DEF f
    <3>2. f \in [id : {0, SlaveID}, pdu : Seq(Byte), ok : BOOLEAN] /\ f.id = SlaveID
          /\ f.pdu = << >>
      BY <2>1, <3>1
    <3>3. SlaveID # 0
      BY FailoverClientsAssumption
    <3> QED BY <3>2, <3>3 DEF Frames
  <2> HIDE DEF f
  <2>3. GetPDU(f).err = ErrOther
    BY <2>2 DEF GetPDU, smallestRTUSize
  <2> QED BY <2>2, <2>3, KnownErrors DEF Readable
<1> HIDE DEF f
<1>3. /\ cl' = [n \in Nodes |-> cl'[n]] /\ \A n \in Nodes : cl'[n] = Hears(cl[n], f)
  BY <1>1
<1>4. Clients'
  BY <1>2, <1>3, HearsOK DEF IInv, Clients
<1>5. Apart'
  BY <1>1, FaultCounts DEF IInv, Apart, Noise
<1>6. Follow'
  <2> SUFFICES ASSUME NEW n \in fresh PROVE Following(cl'[n], truth, toServer)
    BY <1>1 DEF Follow
  <2> DEFINE c == cl[n]
             d == Hears(c, f)
  <2>1. n \in Nodes /\ IsClient(c)
    <3>1. n \in Nodes
      BY DEF IInv, Apart
    <3> QED BY <3>1, OfClient
  <2>2. d.closed = c.closed /\ (~c.closed => d.inbox = Append(c.inbox, f))
    BY <1>2, <2>1, UpdateHears
  <2>3. c.inbox \in Seq(Frames)
    BY <2>1 DEF IsClient
  <2> HIDE DEF c, d
  <2>4. ASSUME ~d.closed PROVE ~Sound(d)
    <3> DEFINE k == Len(c.inbox)
    <3>1. k \in Nat /\ Len(d.inbox) = k + 1 /\ d.inbox[k + 1] = f
      BY <2>2, <2>3, <2>4
    <3> HIDE DEF k
    <3>2. k + 1 \in 1..(k + 1)
      BY <3>1
    <3> QED BY <1>2, <3>1, <3>2 DEF Sound
  <2>5. Following(d, truth, toServer)
    BY <2>4 DEF Following
  <2> QED BY <1>3, <2>1, <2>5 DEF c, d
<1> QED BY <1>4, <1>5, <1>6 DEF IInv

-------------------------------------------------------------------------------
(***************************************************************************)
(* The invariant is inductive.                                             *)
(***************************************************************************)
LEMMA NextOK ==
    ASSUME Deployment, IInv, [Next]_vars
    PROVE  IInv'
<1>1. ASSUME NEW n \in Nodes, ClientStep(n) PROVE IInv'
  <2>1. CASE ReaderStep(n)
    BY <2>1, StepReaderRead, StepReaderFail DEF ReaderStep
  <2>2. CASE ServeStep(n)
    BY <2>2, StepServeError, StepServeUnexpected, StepServeStart, StepServeWritten,
       StepServeReply, StepServeInterrupted, StepServeTimeOut DEF ServeStep
  <2> QED BY <1>1, <2>1, <2>2 DEF ClientStep
<1>2. ASSUME NEW n \in Nodes, Poll(n) \/ Close(n) \/ AskOutOfTurn(n) \/ Restart(n)
      PROVE  IInv'
  BY <1>2, StepPoll, StepClose, StepAskOutOfTurn, StepRestart
<1>3. CASE Respond
  <2>1. Reply(cl) /\ faults' \in 0..MaxFaults
    BY <1>3 DEF Respond, IInv, Apart
  <2> QED BY <2>1, WaitedNow, StepReply
<1>4. CASE RespondLate
  <2>1. Reply(Later(MissDelayPasses)) /\ faults' \in 0..MaxFaults
    BY <1>4, FaultCounts DEF RespondLate
  <2> QED BY <2>1, LaterWaited, StepReply
<1>5. CASE HearBroadcast
  <2>1. /\ UNCHANGED <<cl, polled, truth, fresh>> /\ up' \in BOOLEAN
        /\ faults' \in 0..MaxFaults /\ toServer # << >> /\ toServer' = Tail(toServer)
    BY <1>5 DEF HearBroadcast, serverVars, IInv, Apart
  <2> QED BY <2>1, StepSilent
<1>6. CASE Noise
  BY <1>6, StepNoise
<1>7. CASE ServerStops
  <2>1. faults' \in 0..MaxFaults
    BY <1>7, FaultCounts DEF ServerStops
  <2>2. /\ UNCHANGED <<cl, polled, truth, fresh>> /\ up' \in BOOLEAN /\ toServer' = << >>
    BY <1>7 DEF ServerStops
  <2> QED BY <2>1, <2>2, StepSilent
<1>8. CASE ServerStarts
  <2>1. /\ UNCHANGED <<cl, polled, truth, fresh>> /\ up' \in BOOLEAN
        /\ faults' \in 0..MaxFaults /\ UNCHANGED toServer
    BY <1>8 DEF ServerStarts, IInv, Apart
  <2> QED BY <2>1, StepSilent
<1>9. CASE NextRound \/ RoundAfterPause \/ RoundAfterForceBackDelay
  BY <1>9, StepNewRound
<1>10. CASE UNCHANGED vars
  <2>1. /\ UNCHANGED <<cl, polled, truth, fresh>> /\ up' \in BOOLEAN
        /\ faults' \in 0..MaxFaults /\ UNCHANGED toServer
    BY <1>10 DEF vars, IInv, Apart
  <2> QED BY <2>1, StepSilent
<1> QED BY <1>1, <1>2, <1>3, <1>4, <1>5, <1>6, <1>7, <1>8, <1>9, <1>10 DEF Next

\* What it implies.
LEMMA TypeHolds == IInv => TypeOK
<1> SUFFICES ASSUME IInv PROVE TypeOK
  OBVIOUS
<1>1. /\ polled \subseteq Nodes /\ fresh \subseteq Nodes
      /\ up \in BOOLEAN /\ faults \in 0..MaxFaults
  BY DEF IInv, Apart
<1>2. ASSUME NEW n \in Nodes
      PROVE  LET c == cl[n]
             IN  /\ c.conn \in Conns /\ c.conn.isFailover = (n = Failover)
                 /\ c.conn.misses <= MissesMax(c.conn)
                 /\ c.reader \in {"reading", "sending", "ended"}
                 /\ c.serve \in {"actions", "sent", "dropped", "reply", "ended"}
                 /\ Len(c.actions) <= c.calls + 1
                 /\ c.serve \in {"sent", "dropped", "reply"} => c.calls > 0
  <2> DEFINE c == cl[n]
             k == Len(c.actions)
             w == Awaited(c.serve)
             x == Extra(c.reader)
  <2>1. ClientOK(n, c) /\ IsClient(c) /\ ConnOK(n, c.conn)
    BY OfClient
  <2> HIDE DEF c
  <2>2. /\ c.reader \in {"reading", "sending", "ended"}
        /\ c.serve \in {"actions", "sent", "dropped", "reply", "ended"}
        /\ c.actions \in Seq(Signals) /\ c.calls \in Int
    BY <2>1 DEF IsClient
  <2>3. k \in Nat
    BY <2>2
  <2>4. x = 1 => k # 0
    <3>1. x = 1 => c.reader = "sending"
      BY DEF Extra
    <3>2. c.reader = "sending" => \E i \in 1..k : TRUE
      BY <2>1 DEF ClientOK, Channel
    <3>3. (\E i \in 1..k : TRUE) => k # 0
      BY <2>3
    <3> QED BY <3>1, <3>2, <3>3
  <2>5. /\ k + w <= c.calls + x /\ w \in Nat /\ x \in Nat /\ x <= 1
        /\ c.serve \in {"sent", "dropped", "reply"} => w = 1
    BY <2>1, Counting DEF ClientOK, Calls
  <2> HIDE DEF k, w, x
  <2>6. k <= c.calls + 1 /\ (w = 1 => c.calls > 0)
    BY <2>2, <2>3, <2>4, <2>5
  <2> QED BY <2>1, <2>2, <2>5, <2>6 DEF ConnOK, c, k
<1> QED BY <1>1, <1>2 DEF TypeOK

LEMMA SyncHolds == IInv => StandbyInSync
<1> SUFFICES ASSUME IInv, NEW n \in fresh, ~cl[n].closed, Settled(n)
             PROVE  cl[n].mem = truth
  BY DEF StandbyInSync
<1> DEFINE c == cl[n]
<1>1. n \in Nodes
  BY DEF IInv, Apart
<1>2. ClientOK(n, c) /\ Following(c, truth, toServer)
  BY <1>1, OfClient
<1>3. c.inbox = << >> /\ c.actions = << >> /\ ~c.closed
  BY DEF Settled
<1> HIDE DEF c
<1>4. NoError(c.actions) /\ c.reader # "sending"
  <2>1. Channel(c.actions, c.reader)
    BY <1>2 DEF ClientOK
  <2> QED BY <1>3, <2>1 DEF Channel, NoError
<1>5. c.mem = truth
  BY <1>2, <1>3, <1>4, FollowQuiet
<1> QED BY <1>5 DEF c

\* TypeOK for any number of clients' calls and faults: a connection counts no more
\* misses than its side may, Serve waits only for calls that are outstanding, and the
\* channel holds no more than the reader and the callers send.
THEOREM TypeCorrect ==
    ASSUME Deployment
    PROVE  Spec => []TypeOK
<1>1. Init => IInv
  BY InitOK
<1>2. IInv /\ [Next]_vars => IInv'
  BY NextOK
<1> QED BY <1>1, <1>2, TypeHolds, PTL DEF Spec

\* StandbyInSync for any requests, memories and faults: whether it is active or passive, a
\* client that no packet escaped has given its handler everything that the server told
\* either of the two, once it has taken what it heard.
THEOREM StandbyFollows ==
    ASSUME Deployment
    PROVE  Spec => []StandbyInSync
<1>1. Init => IInv
  BY InitOK
<1>2. IInv /\ [Next]_vars => IInv'
  BY NextOK
<1> QED BY <1>1, <1>2, SyncHolds, PTL DEF Spec
================================================================================
