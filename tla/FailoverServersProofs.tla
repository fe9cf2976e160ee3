------------------------- MODULE FailoverServersProofs --------------------------
(***************************************************************************)
(* Proofs about a primary and its failover on one bus: for any requests,   *)
(* any application, any number of stops and starts, any backlog and any    *)
(* MissesMax of the two.                                                   *)
(***************************************************************************)
EXTENDS FailoverServers, TLAPS

-------------------------------------------------------------------------------
(***************************************************************************)
(* What waits to be read: broadcasts, requests and replies.                *)
(***************************************************************************)
Ids == {0, SlaveID} \cup {f.id : f \in Requests}
Packets == {f \in [id : Ids, pdu : Pdus, ok : {TRUE}, isReply : BOOLEAN] :
              f.isReply => f.id # 0}

IsR(f) == f.isReply
IsQ(f) == ~f.isReply /\ f.id # 0
IsB(f) == ~f.isReply /\ f.id = 0

HasR(q) == \E i \in 1..Len(q) : IsR(q[i])
HasB(q) == \E i \in 1..Len(q) : IsB(q[i])
LastOf(q) == q[Len(q)]
EndsQ(q) == q # << >> /\ IsQ(LastOf(q))

\* A request is followed by its reply, if by anything, and a reply, if it follows
\* anything, follows its request.
Shape(q) ==
    \A i \in 1..Len(q) : i > 1 =>
       /\ IsR(q[i]) <=> IsQ(q[i - 1])
       /\ IsQ(q[i - 1]) => IsRequestReply(q[i - 1].pdu, q[i].pdu)

\* An empty backlog holds nothing.
LEMMA EmptyQueue ==
    Shape(<< >>) /\ ~HasR(<< >>) /\ ~HasB(<< >>) /\ ~EndsQ(<< >>)
BY DEF Shape, HasR, HasB, EndsQ

\* A backlog without its first packet.
LEMMA TailQueue ==
    ASSUME NEW q \in Seq(Packets), q # << >>
    PROVE  /\ Head(q) \in Packets /\ Tail(q) \in Seq(Packets)
           /\ HasR(q) <=> IsR(Head(q)) \/ HasR(Tail(q))
           /\ HasB(q) <=> IsB(Head(q)) \/ HasB(Tail(q))
           /\ Tail(q) = << >> => LastOf(q) = Head(q)
           /\ Tail(q) # << >> => LastOf(q) = LastOf(Tail(q))
           /\ EndsQ(q) <=> IF Tail(q) = << >> THEN IsQ(Head(q)) ELSE EndsQ(Tail(q))
           /\ Shape(q) => Shape(Tail(q))
           /\ Shape(q) /\ Tail(q) # << >> =>
                 /\ IsR(Head(Tail(q))) <=> IsQ(Head(q))
                 /\ IsQ(Head(q)) => IsRequestReply(Head(q).pdu, Head(Tail(q)).pdu)
<1> DEFINE t == Tail(q)
<1>1. Len(q) \in Nat /\ Len(q) > 0
  OBVIOUS
<1>2. /\ Head(q) \in Packets /\ Head(q) = q[1]
      /\ t \in Seq(Packets) /\ Len(t) = Len(q) - 1
      /\ \A i \in 1..Len(t) : t[i] = q[i + 1]
  BY <1>1
<1>3. t = << >> <=> Len(q) = 1
  BY <1>1, <1>2
<1> HIDE DEF t
<1>4. HasR(q) <=> IsR(Head(q)) \/ HasR(t)
  <2>1. ASSUME NEW i \in 1..Len(q), IsR(q[i]), i # 1 PROVE HasR(t)
    <3>1. i - 1 \in 1..Len(t) /\ t[i - 1] = q[i]
      BY <1>1, <1>2, <2>1
    <3> QED BY <2>1, <3>1 DEF HasR
  <2>2. ASSUME NEW i \in 1..Len(t), IsR(t[i]) PROVE HasR(q)
    <3>1. i + 1 \in 1..Len(q) /\ t[i] = q[i + 1]
      BY <1>1, <1>2
    <3> QED BY <2>2, <3>1 DEF HasR
  <2>3. 1 \in 1..Len(q)
    BY <1>1
  <2> QED BY <1>2, <2>1, <2>2, <2>3 DEF HasR
<1>5. HasB(q) <=> IsB(Head(q)) \/ HasB(t)
  <2>1. ASSUME NEW i \in 1..Len(q), IsB(q[i]), i # 1 PROVE HasB(t)
    <3>1. i - 1 \in 1..Len(t) /\ t[i - 1] = q[i]
      BY <1>1, <1>2, <2>1
    <3> QED BY <2>1, <3>1 DEF HasB
  <2>2. ASSUME NEW i \in 1..Len(t), IsB(t[i]) PROVE HasB(q)
    <3>1. i + 1 \in 1..Len(q) /\ t[i] = q[i + 1]
      BY <1>1, <1>2
    <3> QED BY <2>2, <3>1 DEF HasB
  <2>3. 1 \in 1..Len(q)
    BY <1>1
  <2> QED BY <1>2, <2>1, <2>2, <2>3 DEF HasB
<1>6. t = << >> => LastOf(q) = Head(q)
  BY <1>2, <1>3 DEF LastOf
<1>7. t # << >> => LastOf(q) = LastOf(t)
  <2>1. ASSUME t # << >> PROVE t[Len(t)] = q[Len(q)]
    <3>1. Len(t) \in 1..Len(t) /\ Len(t) + 1 = Len(q)
      BY <1>1, <1>2, <1>3, <2>1
    <3> QED BY <1>2, <3>1
  <2> QED BY <2>1 DEF LastOf
<1>8. EndsQ(q) <=> IF t = << >> THEN IsQ(Head(q)) ELSE EndsQ(t)
  BY <1>6, <1>7 DEF EndsQ
<1>9. Shape(q) => Shape(t)
  <2> SUFFICES ASSUME Shape(q), NEW i \in 1..Len(t), i > 1
               PROVE  /\ IsR(t[i]) <=> IsQ(t[i - 1])
                      /\ IsQ(t[i - 1]) => IsRequestReply(t[i - 1].pdu, t[i].pdu)
    BY DEF Shape
  <2>1. i + 1 \in 1..Len(q) /\ i + 1 > 1 /\ t[i] = q[i + 1]
    BY <1>1, <1>2
  <2>2. i - 1 \in 1..Len(t) /\ (i + 1) - 1 = (i - 1) + 1
    BY <1>1, <1>2
  <2>3. t[i - 1] = q[(i + 1) - 1]
    BY <1>2, <2>2
  <2> QED BY <2>1, <2>3 DEF Shape
<1>10. ASSUME Shape(q), t # << >>
       PROVE  /\ IsR(Head(t)) <=> IsQ(Head(q))
              /\ IsQ(Head(q)) => IsRequestReply(Head(q).pdu, Head(t).pdu)
  <2>1. 2 \in 1..Len(q) /\ 1 \in 1..Len(t) /\ Head(t) = t[1]
    BY <1>1, <1>2, <1>3, <1>10
  <2>2. Head(t) = q[2]
    BY <1>2, <2>1
  <2>3. /\ IsR(q[2]) <=> IsQ(q[2 - 1])
        /\ IsQ(q[2 - 1]) => IsRequestReply(q[2 - 1].pdu, q[2].pdu)
    BY <1>10, <2>1 DEF Shape
  <2> QED BY <1>2, <2>2, <2>3
<1> QED BY <1>2, <1>4, <1>5, <1>6, <1>7, <1>8, <1>9, <1>10 DEF t

\* A backlog with one more packet.
LEMMA AppendQueue ==
    ASSUME NEW q \in Seq(Packets), NEW f \in Packets
    PROVE  /\ Append(q, f) \in Seq(Packets) /\ Append(q, f) # << >>
           /\ HasR(Append(q, f)) <=> HasR(q) \/ IsR(f)
           /\ HasB(Append(q, f)) <=> HasB(q) \/ IsB(f)
           /\ LastOf(Append(q, f)) = f
           /\ EndsQ(Append(q, f)) <=> IsQ(f)
           /\ Head(Append(q, f)) = IF q = << >> THEN f ELSE Head(q)
           /\ Tail(Append(q, f)) = IF q = << >> THEN << >> ELSE Append(Tail(q), f)
           /\ /\ Shape(q)
              /\ q # << >> => (IsR(f) <=> EndsQ(q))
              /\ EndsQ(q) => IsRequestReply(LastOf(q).pdu, f.pdu)
              => Shape(Append(q, f))
<1> DEFINE a == Append(q, f)
           n == Len(q)
<1>1. n \in Nat
  OBVIOUS
<1>2. /\ a \in Seq(Packets) /\ Len(a) = n + 1 /\ a[n + 1] = f
      /\ \A i \in 1..n : a[i] = q[i]
  BY <1>1
<1>3. q # << >> => n > 0
  BY <1>1
<1>4. Head(a) = IF q = << >> THEN f ELSE Head(q)
  BY <1>1
<1>5. Tail(a) = IF q = << >> THEN << >> ELSE Append(Tail(q), f)
  BY <1>1
<1>6. n + 1 \in 1..Len(a) /\ \A i \in 1..n : i \in 1..Len(a)
  BY <1>1, <1>2
<1>7. \A i \in 1..Len(a) : i \in 1..n \/ i = n + 1
  BY <1>1, <1>2
<1>8. a # << >>
  BY <1>1, <1>2
<1> HIDE DEF a, n
<1>9. HasR(a) <=> HasR(q) \/ IsR(f)
  BY <1>2, <1>6, <1>7 DEF HasR, n
<1>10. HasB(a) <=> HasB(q) \/ IsB(f)
  BY <1>2, <1>6, <1>7 DEF HasB, n
<1>11. LastOf(a) = f
  BY <1>2 DEF LastOf
<1>12. EndsQ(a) <=> IsQ(f)
  BY <1>8, <1>11 DEF EndsQ
<1>13. ASSUME Shape(q), q # << >> => (IsR(f) <=> EndsQ(q)),
              EndsQ(q) => IsRequestReply(LastOf(q).pdu, f.pdu)
       PROVE  Shape(a)
  <2> SUFFICES ASSUME NEW i \in 1..Len(a), i > 1
               PROVE  /\ IsR(a[i]) <=> IsQ(a[i - 1])
                      /\ IsQ(a[i - 1]) => IsRequestReply(a[i - 1].pdu, a[i].pdu)
    BY DEF Shape
  <2>1. CASE i = n + 1
    <3>1. q # << >> /\ n \in 1..n /\ i - 1 = n
      BY <1>1, <2>1 DEF n
    <3>2. a[i - 1] = LastOf(q) /\ a[i] = f
      BY <1>2, <2>1, <3>1 DEF LastOf, n
    <3> QED BY <1>13, <3>1, <3>2 DEF EndsQ
  <2>2. CASE i # n + 1
    <3>1. i \in 1..n /\ i - 1 \in 1..n
      BY <1>1, <1>2, <2>2
    <3>2. a[i] = q[i] /\ a[i - 1] = q[i - 1]
      BY <1>2, <3>1
    <3> QED BY <1>13, <3>1, <3>2 DEF Shape, n
  <2> QED BY <2>1, <2>2
<1> QED BY <1>2, <1>4, <1>5, <1>8, <1>9, <1>10, <1>11, <1>12, <1>13 DEF a

-------------------------------------------------------------------------------
(***************************************************************************)
(* Read of a FailoverSerialConn, for a packet that is heard.               *)
(***************************************************************************)
ConnOK(c) == c \in Conns /\ c.misses <= MissesMax(c) + 1

\* MissesMax is a number for either connection.
LEMMA MaxIsNat == ASSUME NEW c PROVE MissesMax(c) \in Nat
BY MissesAssumption DEF MissesMax

\* A connection whose request and misses are set anew is a connection.
LEMMA ConnUpdate ==
    ASSUME NEW c \in Conns, NEW t \in RequestTimes, NEW p \in Seq(Byte), NEW m \in Nat
    PROVE  [c EXCEPT !.requestTime = t, !.reqPacket = p, !.misses = m] \in Conns
BY DEF Conns

\* The three ways in which a passive connection takes a packet with the PDU p: as
\* the first request, as the reply to the request before, or as a miss.
TakesFirst(c, p, r) ==
    /\ c.requestTime = "zero"
    /\ r.returns = TRUE
    /\ r.conn = [c EXCEPT !.requestTime = "recent", !.reqPacket = p,
                          !.disconnected = FALSE]

TakesReply(c, p, r) ==
    /\ c.requestTime = "recent" /\ IsRequestReply(c.reqPacket, p)
    /\ r.returns = FALSE
    /\ r.conn = [c EXCEPT !.requestTime = "zero", !.reqPacket = << >>, !.misses = 0]

TakesMiss(c, p, r) ==
    /\ c.requestTime # "zero"
    /\ ~(c.requestTime = "recent" /\ IsRequestReply(c.reqPacket, p))
    /\ r.returns = TRUE
    /\ r.conn.isFailover = c.isFailover
    /\ r.conn.forceBack = c.forceBack
    /\ r.conn.disconnected = FALSE
    /\ r.conn.misses = IF c.misses > MissesMax(c) THEN c.misses ELSE c.misses + 1
    /\ r.conn.misses > MissesMax(c) =>
          r.conn.isActive = TRUE /\ r.conn.requestTime # "zero"
    /\ r.conn.misses <= MissesMax(c) =>
          /\ r.conn.isActive = c.isActive
          /\ r.conn.requestTime = "recent" /\ r.conn.reqPacket = p

\* A passive connection takes any packet in one of three ways.
LEMMA PassiveReadResult ==
    ASSUME NEW c, ConnOK(c), NEW p \in Seq(Byte)
    PROVE  LET r == PassiveRead(c, p)
           IN  /\ ConnOK(r.conn)
               /\ TakesFirst(c, p, r) \/ TakesReply(c, p, r) \/ TakesMiss(c, p, r)
<1> DEFINE r == PassiveRead(c, p)
           m == MissesMax(c)
<1>1. c \in Conns /\ c.misses <= m + 1 /\ c.misses \in Nat /\ m \in Nat
  BY MaxIsNat DEF ConnOK, Conns
<1>2. CASE c.requestTime = "zero"
  <2>1. r = Returns(setLastReqTime(c, p))
    BY <1>2 DEF PassiveRead
  <2>2. TakesFirst(c, p, r)
    BY <1>1, <1>2, <2>1 DEF TakesFirst, Returns, setLastReqTime, Conns
  <2>3. ConnOK(r.conn)
    BY <1>1, <2>2 DEF ConnOK, TakesFirst, Conns, RequestTimes, MissesMax
  <2> QED BY <2>2, <2>3
<1>3. CASE c.requestTime = "recent" /\ IsRequestReply(c.reqPacket, p)
  <2>1. r = ReadsAgain([resetRequestTime(c) EXCEPT !.misses = 0])
    BY <1>3 DEF PassiveRead
  <2>2. TakesReply(c, p, r)
    BY <1>1, <1>3, <2>1 DEF TakesReply, ReadsAgain, resetRequestTime, Conns
  <2>3. ConnOK(r.conn)
    <3>1. << >> \in Seq(Byte)
      OBVIOUS
    <3>2. r.conn = [c EXCEPT !.requestTime = "zero", !.reqPacket = << >>, !.misses = 0]
      BY <2>2 DEF TakesReply
    <3>3. r.conn \in Conns
      <4>1. "zero" \in RequestTimes /\ 0 \in Nat
        BY DEF RequestTimes
      <4>2. \A t \in RequestTimes, q \in Seq(Byte), k \in Nat :
               [c EXCEPT !.requestTime = t, !.reqPacket = q, !.misses = k] \in Conns
        BY <1>1, ConnUpdate, Zenon
      <4>3. [c EXCEPT !.requestTime = "zero", !.reqPacket = << >>, !.misses = 0] \in Conns
        BY <3>1, <4>1, <4>2, Zenon
      <4> QED BY <3>2, <4>3, Zenon
    <3>4. r.conn.misses = 0
      BY <1>1, <3>2 DEF Conns
    <3> QED BY <3>3, <3>4, MaxIsNat DEF ConnOK
  <2> QED BY <2>2, <2>3
<1>4. CASE /\ c.requestTime # "zero"
           /\ ~(c.requestTime = "recent" /\ IsRequestReply(c.reqPacket, p))
  <2>1. PICK b \in {c, setLastReqTime(c, p)} : r = Returns(incMisses(b, p))
    <3>1. CASE c.requestTime = "missed"
      BY <1>4, <3>1, Zenon DEF PassiveRead
    <3>2. CASE c.requestTime # "missed"
      <4>1. r = Returns(incMisses(setLastReqTime(c, p), p))
        BY <1>1, <1>4, <3>2 DEF PassiveRead, Conns, RequestTimes
      <4> QED BY <4>1, Zenon
    <3> QED BY <3>1, <3>2
  <2>2. /\ b \in Conns /\ b.requestTime # "zero"
        /\ b.isFailover = c.isFailover /\ b.isActive = c.isActive
        /\ b.forceBack = c.forceBack /\ b.misses = c.misses
    BY <1>1, <1>4 DEF setLastReqTime, Conns, RequestTimes
  <2>3. MissesMax(b) = m
    BY <2>2 DEF MissesMax
  <2> DEFINE n == IF c.misses > m THEN c.misses ELSE c.misses + 1
             d == CountMiss(b)
  <2>4. /\ d \in Conns /\ d.misses = n /\ d.requestTime # "zero"
        /\ d.isFailover = c.isFailover /\ d.isActive = c.isActive
        /\ d.forceBack = c.forceBack
    BY <1>1, <2>2, <2>3 DEF CountMiss, Conns
  <2>5. r = Returns(IF n > m THEN [d EXCEPT !.isActive = TRUE]
                    ELSE setLastReqTime(d, p))
    BY <2>1, <2>3, <2>4, Zenon DEF incMisses
  <2>6. n \in Nat /\ n <= m + 1
    BY <1>1
  <2> HIDE DEF d, n
  <2>7. r.conn \in Conns /\ TakesMiss(c, p, r) /\ r.conn.misses = n
    <3>1. CASE n > m
      <4> DEFINE e == [d EXCEPT !.isActive = TRUE]
      <4>1. r.returns = TRUE /\ r.conn = [e EXCEPT !.disconnected = FALSE]
        BY <2>5, <3>1 DEF Returns
      <4>3. /\ e \in Conns /\ e.isActive = TRUE /\ e.requestTime # "zero"
            /\ e.isFailover = c.isFailover /\ e.forceBack = c.forceBack
            /\ e.misses = n
        BY <2>4 DEF Conns
      <4> HIDE DEF e
      <4>4. r.conn \in Conns
        BY <4>1, <4>3 DEF Conns
      <4>2. /\ r.conn.isActive = TRUE /\ r.conn.requestTime # "zero"
            /\ r.conn.isFailover = c.isFailover /\ r.conn.forceBack = c.forceBack
            /\ r.conn.disconnected = FALSE /\ r.conn.misses = n
        BY <4>1, <4>3 DEF Conns
      <4> QED BY <1>1, <1>4, <2>6, <3>1, <4>1, <4>2, <4>4 DEF TakesMiss, n
    <3>2. CASE ~(n > m)
      <4> DEFINE e == setLastReqTime(d, p)
      <4>1. r.returns = TRUE /\ r.conn = [e EXCEPT !.disconnected = FALSE]
        BY <2>5, <3>2 DEF Returns
      <4>3. /\ e \in Conns /\ e.isActive = c.isActive
            /\ e.requestTime = "recent" /\ e.reqPacket = p
            /\ e.isFailover = c.isFailover /\ e.forceBack = c.forceBack
            /\ e.misses = n
        BY <2>4 DEF setLastReqTime, Conns, RequestTimes
      <4> HIDE DEF e
      <4>2. /\ r.returns = TRUE /\ r.conn \in Conns
            /\ r.conn.isActive = c.isActive
            /\ r.conn.requestTime = "recent" /\ r.conn.reqPacket = p
            /\ r.conn.isFailover = c.isFailover /\ r.conn.forceBack = c.forceBack
            /\ r.conn.disconnected = FALSE /\ r.conn.misses = n
        BY <4>1, <4>3 DEF Conns
      <4> QED BY <1>1, <1>4, <2>6, <3>2, <4>2 DEF TakesMiss, n
    <3> QED BY <3>1, <3>2
  <2>8. MissesMax(r.conn) = m
    BY <2>7 DEF TakesMiss, MissesMax
  <2> QED BY <2>6, <2>7, <2>8 DEF ConnOK
<1> QED BY <1>1, <1>2, <1>3, <1>4 DEF Conns, RequestTimes

\* GetPDU succeeds for whatever is heard on the bus.
LEMMA HeardPDU ==
    ASSUME NEW f \in Packets
    PROVE  /\ f.pdu \in Pdus /\ f.pdu \in Seq(Byte)
           /\ GetPDU(f).err = NoErr /\ GetPDU(f).pdu = f.pdu
<1>1. f.pdu \in Pdus /\ f.ok = TRUE
  BY DEF Packets
<1>2. f.pdu \in Seq(Byte) /\ Len(f.pdu) + 3 >= smallestRTUSize
  BY <1>1, FailoverAssumption
<1>3. ~(Len(f.pdu) + 3 < smallestRTUSize)
  BY <1>2 DEF smallestRTUSize
<1> QED BY <1>1, <1>2, <1>3, Zenon DEF GetPDU

\* In a Deployment nothing is heard that is for another server.
LEMMA HeardId == ASSUME Deployment, NEW f \in Packets PROVE f.id \in {0, SlaveID}
<1>1. f.id \in Ids
  BY DEF Packets
<1>2. \A g \in Requests : g.id \in {0, SlaveID}
  BY DEF Deployment
<1> QED BY <1>1, <1>2 DEF Ids

\* What serverRead leaves after a broadcast.
LEMMA ResetType ==
    ASSUME NEW c, ConnOK(c)
    PROVE  LET r == Returns(resetRequestTime(c))
           IN  /\ ConnOK(r.conn) /\ r.returns = TRUE
               /\ r.conn.isFailover = c.isFailover /\ r.conn.isActive = c.isActive
               /\ r.conn.requestTime = "zero" /\ r.conn.misses = c.misses
               /\ r.conn.disconnected = FALSE /\ r.conn.forceBack = c.forceBack
<1> DEFINE d == resetRequestTime(c)
           r == Returns(d)
<1>1. c \in Conns
  BY DEF ConnOK
<1>2. /\ d \in Conns /\ d.isFailover = c.isFailover /\ d.isActive = c.isActive
      /\ d.requestTime = "zero" /\ d.misses = c.misses /\ d.forceBack = c.forceBack
  <2>1. \A e \in Seq(Byte), t \in RequestTimes :
          LET g == [c EXCEPT !.requestTime = t, !.reqPacket = e]
          IN  /\ g \in Conns /\ g.isFailover = c.isFailover /\ g.isActive = c.isActive
              /\ g.requestTime = t /\ g.misses = c.misses /\ g.forceBack = c.forceBack
    BY <1>1 DEF Conns
  <2>2. << >> \in Seq(Byte) /\ "zero" \in RequestTimes
    BY DEF RequestTimes
  <2> QED BY <2>1, <2>2, Zenon DEF resetRequestTime
<1>3. r.returns = TRUE /\ r.conn = [d EXCEPT !.disconnected = FALSE]
  BY DEF Returns
<1> HIDE DEF d
<1>4. /\ r.conn.isFailover = c.isFailover /\ r.conn.isActive = c.isActive
      /\ r.conn.requestTime = "zero" /\ r.conn.misses = c.misses
      /\ r.conn.disconnected = FALSE /\ r.conn.forceBack = c.forceBack
  BY <1>2, <1>3 DEF Conns
<1>5. r.conn \in Conns
  BY <1>2, <1>3 DEF Conns
<1> QED BY <1>3, <1>4, <1>5 DEF ConnOK, MissesMax, d

\* A primary that is active, or is forced back, and has not been cut off answers;
\* otherwise it listens as a passive one.
Listens(c, d) ==
    /\ ConnOK(d) /\ d.isActive = FALSE /\ d.isFailover = c.isFailover
    /\ d.misses = c.misses /\ d.requestTime = c.requestTime
    /\ d.reqPacket = c.reqPacket /\ d.disconnected = c.disconnected
    /\ d.forceBack => c.forceBack
    /\ c.isActive \/ c.forceBack => c.disconnected /\ ~d.forceBack

PrimaryAnswers(c, r) ==
    /\ ~c.disconnected
    /\ c.isActive \/ c.forceBack
    /\ r.returns = TRUE
    /\ r.conn = [c EXCEPT !.isActive = TRUE, !.disconnected = FALSE]

\* serverRead of a primary: an active one that was not disconnected returns the
\* packet, any other listens to it.
LEMMA PrimaryRead ==
    ASSUME NEW c, ConnOK(c), ~c.isFailover, NEW f \in Packets
    PROVE  LET r == serverRead(c, f)
           IN  \/ PrimaryAnswers(c, r)
               \/ \E d : Listens(c, d) /\ r = IF f.id = 0 THEN Returns(resetRequestTime(d))
                                             ELSE PassiveRead(d, f.pdu)
<1> DEFINE r == serverRead(c, f)
           d == ForcedBack(c)
<1>1. c \in Conns /\ c.misses <= MissesMax(c) + 1
  BY DEF ConnOK
<1>2. /\ d \in Conns /\ d.isFailover = c.isFailover
      /\ d.isActive = (c.isActive \/ c.forceBack)
      /\ d.misses = c.misses /\ d.requestTime = c.requestTime
      /\ d.reqPacket = c.reqPacket /\ d.disconnected = c.disconnected
      /\ d.forceBack = c.forceBack
  BY <1>1 DEF ForcedBack, Conns
<1>3. ASSUME NEW e, e.isActive = FALSE
      PROVE  Listen(e, f) = IF f.id = 0 THEN Returns(resetRequestTime(e))
                            ELSE PassiveRead(e, f.pdu)
  BY <1>3, HeardPDU, Zenon DEF Listen
<1>4. d.isActive \in BOOLEAN /\ d.disconnected \in BOOLEAN /\ ~d.isFailover
  BY <1>2 DEF Conns
<1>5. CASE ~d.isActive
  <2>1. r = Listen(d, f)
    BY <1>4, <1>5, Zenon DEF serverRead
  <2>2. Listens(c, d)
    BY <1>1, <1>2, <1>4, <1>5 DEF Listens, ConnOK, MissesMax
  <2>3. d.isActive = FALSE
    BY <1>4, <1>5
  <2> QED BY <1>3, <2>1, <2>2, <2>3, Zenon
<1>6. CASE d.isActive /\ d.disconnected
  <2>1. r = Listen(Disconnected(d), f)
    BY <1>4, <1>6, Zenon DEF serverRead
  <2>2. /\ Disconnected(d) \in Conns /\ Disconnected(d).isActive = FALSE
        /\ Disconnected(d).forceBack = FALSE
        /\ Disconnected(d).isFailover = c.isFailover
        /\ Disconnected(d).misses = c.misses
        /\ Disconnected(d).requestTime = c.requestTime
        /\ Disconnected(d).reqPacket = c.reqPacket
        /\ Disconnected(d).disconnected = c.disconnected
    BY <1>2 DEF Disconnected, Conns
  <2>3. Listens(c, Disconnected(d))
    BY <1>1, <1>2, <1>6, <2>2 DEF Listens, ConnOK, MissesMax
  <2> QED BY <1>3, <2>1, <2>2, <2>3, Zenon
<1>7. CASE d.isActive /\ ~d.disconnected
  <2>1. r = Returns(d)
    BY <1>4, <1>7, Zenon DEF serverRead
  <2>2. d = [c EXCEPT !.isActive = TRUE]
    BY <1>1, <1>2, <1>7 DEF ForcedBack, Conns
  <2>3. r.returns = TRUE /\ r.conn = [c EXCEPT !.isActive = TRUE, !.disconnected = FALSE]
    BY <1>1, <2>1, <2>2 DEF Returns, Conns
  <2> QED BY <1>2, <1>7, <2>3 DEF PrimaryAnswers
<1> QED BY <1>4, <1>5, <1>6, <1>7

\* serverRead of a failover.
LEMMA FailoverRead ==
    ASSUME NEW c, ConnOK(c), c.isFailover, NEW f \in Packets
    PROVE  serverRead(c, f) =
             IF f.id = 0 THEN Returns(resetRequestTime(c))
             ELSE IF c.isActive THEN ActiveFailoverRead(c, f.pdu)
             ELSE PassiveRead(c, f.pdu)
<1>1. ForcedBack(c) = c
  BY DEF ForcedBack
<1> QED BY <1>1, HeardPDU, Zenon DEF serverRead, Listen

\* An active failover takes a request when it has answered the one before;
\* otherwise somebody else is active, and it goes passive.
LEMMA ActiveReadResult ==
    ASSUME NEW c, ConnOK(c), NEW p \in Seq(Byte)
    PROVE  LET r == ActiveFailoverRead(c, p)
           IN  /\ ConnOK(r.conn) /\ r.conn.isFailover = c.isFailover
               /\ c.requestTime = "zero" => TakesFirst(c, p, r)
               /\ c.requestTime # "zero" =>
                     /\ r.returns = FALSE /\ r.conn.isActive = FALSE
                     /\ r.conn.misses = 0 /\ r.conn.requestTime = "zero"
<1> DEFINE r == ActiveFailoverRead(c, p)
<1>1. c \in Conns /\ c.misses <= MissesMax(c) + 1
  BY DEF ConnOK
<1>2. CASE c.requestTime = "zero"
  <2>1. r = Returns(setLastReqTime(c, p))
    BY <1>2, Zenon DEF ActiveFailoverRead
  <2>2. TakesFirst(c, p, r)
    BY <1>1, <1>2, <2>1 DEF TakesFirst, Returns, setLastReqTime, Conns
  <2> HIDE DEF r
  <2>3. /\ r.conn \in Conns /\ r.conn.isFailover = c.isFailover
        /\ r.conn.misses = c.misses
    BY <1>1, <2>2 DEF TakesFirst, Conns, RequestTimes
  <2>4. ConnOK(r.conn)
    BY <1>1, <2>3, Zenon DEF ConnOK, MissesMax
  <2> QED BY <1>2, <2>2, <2>3, <2>4 DEF r
<1>3. CASE c.requestTime # "zero"
  <2> DEFINE d == [c EXCEPT !.isActive = FALSE, !.misses = 0]
  <2>1. r.returns = FALSE /\ r.conn = resetRequestTime(d)
    BY <1>3 DEF ActiveFailoverRead, ReadsAgain
  <2>2. d \in Conns /\ d.isFailover = c.isFailover /\ d.misses = 0 /\ d.isActive = FALSE
    BY <1>1 DEF Conns
  <2> HIDE DEF d
  <2>3. \A e \in Seq(Byte), t \in RequestTimes :
          LET g == [d EXCEPT !.requestTime = t, !.reqPacket = e]
          IN  /\ g \in Conns /\ g.isFailover = d.isFailover /\ g.misses = d.misses
              /\ g.isActive = d.isActive /\ g.requestTime = t
    BY <2>2 DEF Conns
  <2>4. << >> \in Seq(Byte) /\ "zero" \in RequestTimes
    BY DEF RequestTimes
  <2>5. /\ r.conn \in Conns /\ r.conn.isFailover = d.isFailover /\ r.conn.misses = d.misses
        /\ r.conn.isActive = d.isActive /\ r.conn.requestTime = "zero"
    <3>1. LET g == resetRequestTime(d)
          IN  /\ g \in Conns /\ g.isFailover = d.isFailover /\ g.misses = d.misses
              /\ g.isActive = d.isActive /\ g.requestTime = "zero"
      BY <2>3, <2>4, Zenon DEF resetRequestTime
    <3> HIDE DEF r
    <3> QED BY <2>1, <3>1, Zenon
  <2> HIDE DEF r
  <2>6. ConnOK(r.conn)
    BY <2>2, <2>5, MaxIsNat DEF ConnOK
  <2> QED BY <1>3, <2>1, <2>2, <2>5, <2>6 DEF r
<1> QED BY <1>2, <1>3

\* serverRead keeps a connection's types and its role, whatever it reads.
LEMMA ServerReadType ==
    ASSUME NEW c, ConnOK(c), NEW f \in Packets
    PROVE  /\ ConnOK(serverRead(c, f).conn)
           /\ serverRead(c, f).conn.isFailover = c.isFailover
<1> DEFINE r == serverRead(c, f)
<1>1. f.pdu \in Seq(Byte)
  BY HeardPDU
<1>2. ASSUME NEW d, ConnOK(d)
      PROVE  LET t == PassiveRead(d, f.pdu)
             IN  ConnOK(t.conn) /\ t.conn.isFailover = d.isFailover
  <2> DEFINE t == PassiveRead(d, f.pdu)
  <2>1. /\ ConnOK(t.conn)
        /\ TakesFirst(d, f.pdu, t) \/ TakesReply(d, f.pdu, t) \/ TakesMiss(d, f.pdu, t)
    BY <1>1, <1>2, PassiveReadResult
  <2>2. t.conn.isFailover = d.isFailover
    BY <1>2, <2>1 DEF ConnOK, Conns, TakesFirst, TakesReply, TakesMiss
  <2> QED BY <2>1, <2>2
<1>3. CASE ~c.isFailover
  <2>1. CASE PrimaryAnswers(c, r)
    <3>1. c \in Conns /\ c.misses <= MissesMax(c) + 1
      BY DEF ConnOK
    <3>2. r.conn = [c EXCEPT !.isActive = TRUE, !.disconnected = FALSE]
      BY <2>1 DEF PrimaryAnswers
    <3>3. /\ r.conn \in Conns /\ r.conn.isFailover = c.isFailover
          /\ r.conn.misses = c.misses
      BY <3>1, <3>2 DEF Conns
    <3> QED BY <3>1, <3>3 DEF ConnOK, MissesMax
  <2>2. ASSUME NEW d, Listens(c, d),
               r = IF f.id = 0 THEN Returns(resetRequestTime(d)) ELSE PassiveRead(d, f.pdu)
        PROVE  ConnOK(r.conn) /\ r.conn.isFailover = c.isFailover
    BY <1>2, <2>2, ResetType DEF Listens
  <2> QED BY <1>3, <2>1, <2>2, PrimaryRead
<1>4. CASE c.isFailover
  <2>1. r = IF f.id = 0 THEN Returns(resetRequestTime(c))
            ELSE IF c.isActive THEN ActiveFailoverRead(c, f.pdu)
            ELSE PassiveRead(c, f.pdu)
    BY <1>4, FailoverRead
  <2>2. CASE f.id = 0
    BY <2>1, <2>2, ResetType
  <2>3. CASE f.id # 0 /\ c.isActive
    <3>1. r = ActiveFailoverRead(c, f.pdu)
      BY <2>1, <2>3
    <3>2. LET t == ActiveFailoverRead(c, f.pdu)
          IN  ConnOK(t.conn) /\ t.conn.isFailover = c.isFailover
      BY <1>1, ActiveReadResult
    <3> QED BY <3>1, <3>2, Zenon
  <2>4. CASE f.id # 0 /\ ~c.isActive
    BY <1>2, <2>1, <2>4
  <2> QED BY <2>2, <2>3, <2>4
<1> QED BY <1>3, <1>4

-------------------------------------------------------------------------------
(***************************************************************************)
(* Type correctness.                                                       *)
(***************************************************************************)
Frames == [id : {SlaveID}, pdu : Pdus, ok : {TRUE}]

TInv ==
    /\ TypeOK
    /\ inbox \in [Nodes -> Seq(Packets)]
    /\ smem \in [Nodes -> Memories]
    /\ rsp \in [Nodes -> Pdus \cup {<< >>}]
    /\ \A s \in Nodes : loop[s] \in {"reply", "sleep"} => rsp[s] \in Pdus
    /\ in \in Seq(Frames)

\* A new connection has its types.
LEMMA NewConn ==
    ASSUME NEW b \in BOOLEAN
    PROVE  /\ ConnOK(NewFailoverConn(b)) /\ NewFailoverConn(b).isFailover = b
<1>1. << >> \in Seq(Byte)
  OBVIOUS
<1>2. \A e \in Seq(Byte) :
        [isFailover |-> b, isActive |-> FALSE, requestTime |-> "zero",
         reqPacket |-> e, misses |-> 0, disconnected |-> TRUE, forceBack |-> FALSE] \in Conns
  BY DEF Conns, RequestTimes
<1>3. NewFailoverConn(b) \in Conns
  BY <1>1, <1>2, Zenon DEF NewFailoverConn
<1>4. NewFailoverConn(b).misses = 0 /\ NewFailoverConn(b).isFailover = b
  BY DEF NewFailoverConn
<1> QED BY <1>3, <1>4, MaxIsNat DEF ConnOK

\* TypeOK, of each connection.
LEMMA ConnType ==
    TypeOK => \A s \in Nodes : ConnOK(conn[s]) /\ conn[s].isFailover = (s = Failover)
BY DEF TypeOK, ConnOK

\* The invariant holds at first.
LEMMA InitTInv == Init => TInv
<1> SUFFICES ASSUME Init PROVE TInv
  OBVIOUS
<1>1. \A s \in Nodes : /\ conn[s] \in Conns
                        /\ conn[s].isFailover = (s = Failover)
                        /\ conn[s].misses <= MissesMax(conn[s]) + 1
  BY NewConn DEF Init, ConnOK
<1>2. conn \in [Nodes -> Conns]
  BY <1>1 DEF Init
<1>3. TypeOK
  BY <1>1, <1>2 DEF Init, TypeOK, Nodes, Primary, Failover
<1>4. inbox \in [Nodes -> Seq(Packets)]
  BY DEF Init
<1>5. smem \in [Nodes -> Memories]
  BY FailoverAssumption DEF Init
<1>6. rsp \in [Nodes -> Pdus \cup {<< >>}] /\ in \in Seq(Frames)
  BY DEF Init
<1>7. \A s \in Nodes : loop[s] = "read"
  BY DEF Init
<1> QED BY <1>3, <1>4, <1>5, <1>6, <1>7 DEF TInv

\* A packet on the bus reaches only servers that are up.
LEMMA HearType ==
    ASSUME TInv, NEW nodes, NEW p \in Packets, Hear(nodes, p)
    PROVE  /\ inbox' \in [Nodes -> Seq(Packets)]
           /\ \A s \in Nodes : loop[s] = "down" => inbox'[s] = inbox[s]
<1>1. inbox \in [Nodes -> Seq(Packets)]
  BY DEF TInv
<1>2. \A s \in Nodes : Append(inbox[s], p) \in Seq(Packets) /\ inbox[s] \in Seq(Packets)
  BY <1>1
<1> QED BY <1>2 DEF Hear, Up

\* Time that passes changes neither role nor misses of a connection.
LEMMA PassesType ==
    ASSUME TInv,
           \/ Passes(MissDelayPasses) \/ Passes(PrimaryDisconnectDelayPasses)
           \/ Passes(PrimaryForceBackDelayPasses)
    PROVE  /\ conn' \in [Nodes -> Conns]
           /\ \A s \in Nodes : /\ conn'[s].isFailover = conn[s].isFailover
                               /\ conn'[s].misses = conn[s].misses
<1>1. ASSUME NEW c \in Conns
      PROVE  LET d == MissDelayPasses(c)
             IN  d \in Conns /\ d.isFailover = c.isFailover /\ d.misses = c.misses
  <2>1. \A e \in Seq(Byte), t \in RequestTimes :
          LET g == [c EXCEPT !.requestTime = t, !.reqPacket = e]
          IN  g \in Conns /\ g.isFailover = c.isFailover /\ g.misses = c.misses
    BY DEF Conns
  <2>2. << >> \in Seq(Byte) /\ "missed" \in RequestTimes
    BY DEF RequestTimes
  <2> QED BY <2>1, <2>2, Zenon DEF MissDelayPasses
<1>2. ASSUME NEW c \in Conns
      PROVE  LET d == PrimaryDisconnectDelayPasses(c)
             IN  d \in Conns /\ d.isFailover = c.isFailover /\ d.misses = c.misses
  <2> DEFINE d == MissDelayPasses(c)
  <2>1. d \in Conns /\ d.isFailover = c.isFailover /\ d.misses = c.misses
    BY <1>1
  <2>2. PrimaryDisconnectDelayPasses(c) =
          [d EXCEPT !.disconnected = d.disconnected \/ ~c.isFailover]
    BY Zenon DEF PrimaryDisconnectDelayPasses
  <2> HIDE DEF d
  <2> QED BY <2>1, <2>2 DEF Conns
<1>3. ASSUME NEW c \in Conns
      PROVE  LET d == PrimaryForceBackDelayPasses(c)
             IN  d \in Conns /\ d.isFailover = c.isFailover /\ d.misses = c.misses
  BY DEF PrimaryForceBackDelayPasses, Conns
<1>4. conn \in [Nodes -> Conns]
  BY DEF TInv, TypeOK
<1>5. CASE Passes(MissDelayPasses)
  BY <1>1, <1>4, <1>5 DEF Passes
<1>6. CASE Passes(PrimaryDisconnectDelayPasses)
  BY <1>2, <1>4, <1>6 DEF Passes
<1>7. CASE Passes(PrimaryForceBackDelayPasses)
  BY <1>3, <1>4, <1>7 DEF Passes
<1> QED BY <1>5, <1>6, <1>7

\* One step, as seen from the types: what an action may do to a connection.
LEMMA ConnStep ==
    ASSUME TInv, conn' \in [Nodes -> Conns],
           \A s \in Nodes : /\ conn'[s].isFailover = conn[s].isFailover
                            /\ conn'[s].misses <= MissesMax(conn'[s]) + 1,
           loop' \in [Nodes -> {"read", "reply", "sleep", "down"}],
           loop'[Primary] # "sleep",
           inbox' \in [Nodes -> Seq(Packets)],
           smem' \in [Nodes -> Memories],
           rsp' \in [Nodes -> Pdus \cup {<< >>}],
           \A s \in Nodes : loop'[s] \in {"reply", "sleep"} => rsp'[s] \in Pdus,
           \A s \in Nodes : loop'[s] = "down" => inbox'[s] = << >> /\ rsp'[s] = << >>,
           in' \in Seq(Frames), client' \in {"idle", "wait"}
    PROVE  TInv'
<1>1. TypeOK'
  BY DEF TInv, TypeOK
<1> QED BY <1>1 DEF TInv

\* The bound on misses depends on role and misses only.
LEMMA SameMisses ==
    ASSUME TInv,
           \A s \in Nodes : /\ conn'[s].isFailover = conn[s].isFailover
                            /\ conn'[s].misses = conn[s].misses
    PROVE  \A s \in Nodes : conn'[s].misses <= MissesMax(conn'[s]) + 1
BY DEF TInv, TypeOK, MissesMax

\* A server that reads and handles a packet keeps the types.
LEMMA ReadType ==
    ASSUME TInv, NEW s \in Nodes, ReadAndHandle(s) PROVE TInv'
<1> DEFINE f == Head(inbox[s])
           r == serverRead(conn[s], f)
           h == Handle(smem[s], f.pdu)
<1>1. /\ loop[s] = "read" /\ inbox[s] # << >>
      /\ inbox' = [inbox EXCEPT ![s] = Tail(@)]
      /\ conn' = [conn EXCEPT ![s] = r.conn]
      /\ \/ /\ smem' = [smem EXCEPT ![s] = h.mem]
            /\ \/ UNCHANGED <<loop, rsp>>
               \/ /\ loop' = [loop EXCEPT ![s] = "reply"]
                  /\ rsp' = [rsp EXCEPT ![s] = h.reply]
         \/ UNCHANGED <<smem, loop, rsp>>
      /\ UNCHANGED <<client, in>>
  BY DEF ReadAndHandle, clientVars
<1>2. /\ TypeOK /\ inbox \in [Nodes -> Seq(Packets)] /\ smem \in [Nodes -> Memories]
      /\ rsp \in [Nodes -> Pdus \cup {<< >>}] /\ in \in Seq(Frames)
      /\ \A t \in Nodes : loop[t] \in {"reply", "sleep"} => rsp[t] \in Pdus
  BY DEF TInv
<1>3. f \in Packets /\ Tail(inbox[s]) \in Seq(Packets)
  BY <1>1, <1>2, TailQueue
<1>4. ConnOK(conn[s]) /\ conn \in [Nodes -> Conns]
  BY <1>2, ConnType DEF TypeOK
<1>5. ConnOK(r.conn) /\ r.conn.isFailover = conn[s].isFailover
  BY <1>3, <1>4, ServerReadType
<1>6. h.mem \in Memories /\ h.reply \in Pdus
  <2>1. f.pdu \in Pdus /\ smem[s] \in Memories
    BY <1>2, <1>3, HeardPDU
  <2> QED BY <2>1, FailoverAssumption
<1> HIDE DEF f, r, h
<1>7. /\ conn' \in [Nodes -> Conns]
      /\ \A t \in Nodes : /\ conn'[t].isFailover = conn[t].isFailover
                           /\ conn'[t].misses <= MissesMax(conn'[t]) + 1
  <2>1. conn' \in [Nodes -> Conns]
    BY <1>1, <1>4, <1>5 DEF ConnOK
  <2>2. ASSUME NEW t \in Nodes
        PROVE  /\ conn'[t].isFailover = conn[t].isFailover
               /\ conn'[t].misses <= MissesMax(conn'[t]) + 1
    <3>1. CASE t = s
      BY <1>1, <1>4, <1>5, <3>1 DEF ConnOK
    <3>2. CASE t # s
      <4>1. conn'[t] = conn[t]
        BY <1>1, <1>4, <3>2
      <4> QED BY <1>2, <4>1 DEF TypeOK
    <3> QED BY <3>1, <3>2
  <2> QED BY <2>1, <2>2
<1>8. inbox' \in [Nodes -> Seq(Packets)] /\ smem' \in [Nodes -> Memories]
  BY <1>1, <1>2, <1>3, <1>6
<1>9. /\ loop' \in [Nodes -> {"read", "reply", "sleep", "down"}]
      /\ loop'[Primary] # "sleep"
      /\ rsp' \in [Nodes -> Pdus \cup {<< >>}]
      /\ \A t \in Nodes : loop'[t] \in {"reply", "sleep"} => rsp'[t] \in Pdus
      /\ \A t \in Nodes : loop'[t] = "down" => inbox'[t] = << >> /\ rsp'[t] = << >>
  <2>1. /\ loop \in [Nodes -> {"read", "reply", "sleep", "down"}]
        /\ loop[Primary] # "sleep" /\ Primary \in Nodes
        /\ \A t \in Nodes : loop[t] = "down" => inbox[t] = << >> /\ rsp[t] = << >>
    BY <1>2 DEF TypeOK, Nodes
  <2>2. \A t \in Nodes : t # s => inbox'[t] = inbox[t]
    BY <1>1, <1>2
  <2>3. CASE UNCHANGED <<loop, rsp>>
    BY <1>1, <1>2, <2>1, <2>2, <2>3
  <2>4. CASE /\ loop' = [loop EXCEPT ![s] = "reply"]
             /\ rsp' = [rsp EXCEPT ![s] = h.reply]
    BY <1>2, <1>6, <2>1, <2>2, <2>4
  <2> QED BY <1>1, <2>3, <2>4
<1> QED BY <1>1, <1>2, <1>7, <1>8, <1>9, ConnStep DEF TypeOK

\* So does one that writes its reply.
LEMMA WriteNowType ==
    ASSUME TInv, NEW s \in Nodes, loop[s] \in {"reply", "sleep"}, WriteNow(s)
    PROVE  TInv'
<1> DEFINE f == MakeRTU(SlaveID, rsp[s])
<1>1. /\ conn' = [conn EXCEPT ![s] = serverWrite(conn[s])]
      /\ loop' = [loop EXCEPT ![s] = "read"]
      /\ rsp' = [rsp EXCEPT ![s] = << >>]
      /\ \/ Hear(Nodes \ {s}, Packet(f, TRUE)) /\ in' = Append(in, f)
         \/ UNCHANGED <<inbox, in>>
      /\ UNCHANGED <<smem, client>>
  BY DEF WriteNow
<1>2. /\ TypeOK /\ inbox \in [Nodes -> Seq(Packets)] /\ smem \in [Nodes -> Memories]
      /\ rsp \in [Nodes -> Pdus \cup {<< >>}] /\ in \in Seq(Frames) /\ rsp[s] \in Pdus
      /\ \A t \in Nodes : loop[t] \in {"reply", "sleep"} => rsp[t] \in Pdus
  BY DEF TInv
<1>3. f \in Frames /\ Packet(f, TRUE) \in Packets
  BY <1>2, FailoverAssumption DEF MakeRTU, Packet, Frames, Packets, Ids
<1> HIDE DEF f
<1>4. /\ inbox' \in [Nodes -> Seq(Packets)] /\ in' \in Seq(Frames)
      /\ \A t \in Nodes : loop[t] = "down" => inbox'[t] = inbox[t]
  <2>1. CASE Hear(Nodes \ {s}, Packet(f, TRUE)) /\ in' = Append(in, f)
    <3>1. /\ inbox' \in [Nodes -> Seq(Packets)]
          /\ \A t \in Nodes : loop[t] = "down" => inbox'[t] = inbox[t]
      BY <1>3, <2>1, HearType
    <3>2. in' \in Seq(Frames)
      BY <1>2, <1>3, <2>1
    <3> QED BY <3>1, <3>2
  <2>2. CASE UNCHANGED <<inbox, in>>
    BY <1>2, <2>2
  <2> QED BY <1>1, <2>1, <2>2
<1>5. ConnOK(conn[s]) /\ conn \in [Nodes -> Conns]
  BY <1>2, ConnType DEF TypeOK
<1>6. /\ serverWrite(conn[s]) \in Conns
      /\ serverWrite(conn[s]).isFailover = conn[s].isFailover
      /\ serverWrite(conn[s]).misses = conn[s].misses
  <2>1. conn[s] \in Conns
    BY <1>5
  <2>2. \A e \in Seq(Byte), t \in RequestTimes :
          LET g == [conn[s] EXCEPT !.requestTime = t, !.reqPacket = e]
          IN  /\ g \in Conns /\ g.isFailover = conn[s].isFailover
              /\ g.misses = conn[s].misses
    BY <2>1 DEF Conns
  <2>3. << >> \in Seq(Byte) /\ "zero" \in RequestTimes
    BY DEF RequestTimes
  <2> QED BY <2>1, <2>2, <2>3, Zenon DEF serverWrite, resetRequestTime
<1>7. /\ conn' \in [Nodes -> Conns]
      /\ \A t \in Nodes : /\ conn'[t].isFailover = conn[t].isFailover
                           /\ conn'[t].misses = conn[t].misses
  BY <1>1, <1>5, <1>6
<1>8. \A t \in Nodes : conn'[t].misses <= MissesMax(conn'[t]) + 1
  BY <1>7, SameMisses
<1>9. /\ loop' \in [Nodes -> {"read", "reply", "sleep", "down"}]
      /\ loop'[Primary] # "sleep"
      /\ rsp' \in [Nodes -> Pdus \cup {<< >>}]
      /\ \A t \in Nodes : loop'[t] \in {"reply", "sleep"} => rsp'[t] \in Pdus
      /\ \A t \in Nodes : loop'[t] = "down" => inbox'[t] = << >> /\ rsp'[t] = << >>
  BY <1>1, <1>2, <1>4 DEF TypeOK, Nodes
<1> QED BY <1>1, <1>2, <1>4, <1>7, <1>8, <1>9, ConnStep DEF TypeOK

\* Every step keeps the types.
LEMMA NextTInv == ASSUME TInv, [Next]_vars PROVE TInv'
<1>1. /\ TypeOK /\ inbox \in [Nodes -> Seq(Packets)] /\ smem \in [Nodes -> Memories]
      /\ rsp \in [Nodes -> Pdus \cup {<< >>}] /\ in \in Seq(Frames)
      /\ \A s \in Nodes : loop[s] \in {"reply", "sleep"} => rsp[s] \in Pdus
  BY DEF TInv
<1>2. /\ conn \in [Nodes -> Conns]
      /\ loop \in [Nodes -> {"read", "reply", "sleep", "down"}]
      /\ loop[Primary] # "sleep" /\ client \in {"idle", "wait"}
      /\ \A s \in Nodes : loop[s] = "down" => inbox[s] = << >> /\ rsp[s] = << >>
      /\ \A s \in Nodes : conn[s].misses <= MissesMax(conn[s]) + 1
  BY <1>1 DEF TypeOK
<1>3. ASSUME NEW f \in Requests, Send(f) PROVE TInv'
  <2>1. Packet(f, FALSE) \in Packets
    BY FailoverAssumption DEF Packet, Packets, Ids
  <2>2. /\ inbox' \in [Nodes -> Seq(Packets)]
        /\ \A s \in Nodes : loop[s] = "down" => inbox'[s] = inbox[s]
    BY <1>3, <2>1, HearType DEF Send
  <2>3. UNCHANGED <<conn, loop, rsp, smem, in>> /\ client' \in {"idle", "wait"}
    BY <1>3 DEF Send
  <2> QED BY <1>1, <1>2, <2>2, <2>3, ConnStep
<1>4. CASE Receive
  <2>1. /\ UNCHANGED <<conn, loop, inbox, rsp, smem>>
        /\ client' = "idle" /\ in' \in Seq(Frames)
    BY <1>1, <1>4 DEF Receive
  <2> QED BY <1>1, <1>2, <2>1, ConnStep
<1>5. CASE GiveUp \/ Rest \/ ForceBack
  <2>1. /\ UNCHANGED <<loop, inbox, rsp, smem, in>> /\ client' \in {"idle", "wait"}
        /\ \/ Passes(MissDelayPasses) \/ Passes(PrimaryDisconnectDelayPasses)
           \/ Passes(PrimaryForceBackDelayPasses)
    BY <1>2, <1>5 DEF GiveUp, Rest, ForceBack, clientVars
  <2>2. /\ conn' \in [Nodes -> Conns]
        /\ \A s \in Nodes : /\ conn'[s].isFailover = conn[s].isFailover
                            /\ conn'[s].misses = conn[s].misses
    BY <2>1, PassesType
  <2>3. \A s \in Nodes : conn'[s].misses <= MissesMax(conn'[s]) + 1
    BY <2>2, SameMisses
  <2> QED BY <1>1, <1>2, <2>1, <2>2, <2>3, ConnStep
<1>6. ASSUME NEW s \in Nodes, ServerStep(s) PROVE TInv'
  <2>1. CASE ReadAndHandle(s)
    BY <2>1, ReadType
  <2>2. CASE Write(s) \/ WakeUp(s)
    BY <2>2, WriteNowType DEF Write, WakeUp
  <2>3. CASE Sleep(s)
    <3>1. /\ UNCHANGED <<conn, inbox, rsp, smem, in, client>>
          /\ loop[s] = "reply" /\ loop' = [loop EXCEPT ![s] = "sleep"]
          /\ conn[s].isFailover
      BY <2>3 DEF Sleep, SleepsBeforeWrite, clientVars
    <3>2. s # Primary
      BY <1>1, <3>1 DEF TypeOK, Primary, Failover
    <3>3. /\ loop' \in [Nodes -> {"read", "reply", "sleep", "down"}]
          /\ loop'[Primary] # "sleep"
          /\ \A t \in Nodes : loop'[t] \in {"reply", "sleep"} => rsp'[t] \in Pdus
          /\ \A t \in Nodes : loop'[t] = "down" => inbox'[t] = << >> /\ rsp'[t] = << >>
      BY <1>1, <1>2, <3>1, <3>2 DEF Nodes
    <3> QED BY <1>1, <1>2, <3>1, <3>3, ConnStep
  <2> QED BY <1>6, <2>1, <2>2, <2>3 DEF ServerStep
<1>7. ASSUME NEW s \in Nodes, Stop(s) PROVE TInv'
  <2>1. /\ loop' = [loop EXCEPT ![s] = "down"]
        /\ inbox' = [inbox EXCEPT ![s] = << >>]
        /\ rsp' = [rsp EXCEPT ![s] = << >>]
        /\ conn' = [conn EXCEPT ![s] = NewFailoverConn(s = Failover)]
        /\ smem' = [smem EXCEPT ![s] = InitialMemory]
        /\ UNCHANGED <<in, client>>
    BY <1>7 DEF Stop, clientVars
  <2>2. /\ ConnOK(NewFailoverConn(s = Failover))
        /\ NewFailoverConn(s = Failover).isFailover = (s = Failover)
    BY NewConn
  <2>3. conn' \in [Nodes -> Conns]
    BY <1>2, <2>1, <2>2 DEF ConnOK
  <2>4. ASSUME NEW t \in Nodes
        PROVE  /\ conn'[t].isFailover = conn[t].isFailover
               /\ conn'[t].misses <= MissesMax(conn'[t]) + 1
    <3>1. CASE t = s
      BY <1>1, <1>2, <2>1, <2>2, <3>1 DEF ConnOK, TypeOK
    <3>2. CASE t # s
      BY <1>2, <2>1, <3>2
    <3> QED BY <3>1, <3>2
  <2>5. /\ loop' \in [Nodes -> {"read", "reply", "sleep", "down"}]
        /\ loop'[Primary] # "sleep"
        /\ inbox' \in [Nodes -> Seq(Packets)]
        /\ rsp' \in [Nodes -> Pdus \cup {<< >>}]
        /\ \A t \in Nodes : loop'[t] \in {"reply", "sleep"} => rsp'[t] \in Pdus
        /\ \A t \in Nodes : loop'[t] = "down" => inbox'[t] = << >> /\ rsp'[t] = << >>
    BY <1>1, <1>2, <2>1 DEF Nodes
  <2>6. smem' \in [Nodes -> Memories]
    BY <1>1, <2>1, FailoverAssumption
  <2> QED BY <1>1, <1>2, <2>1, <2>3, <2>4, <2>5, <2>6, ConnStep
<1>8. ASSUME NEW s \in Nodes, Start(s) PROVE TInv'
  <2>1. /\ loop' = [loop EXCEPT ![s] = "read"]
        /\ UNCHANGED <<conn, inbox, rsp, smem, in, client>>
    BY <1>8 DEF Start, clientVars
  <2>2. /\ loop' \in [Nodes -> {"read", "reply", "sleep", "down"}]
        /\ loop'[Primary] # "sleep"
        /\ \A t \in Nodes : loop'[t] \in {"reply", "sleep"} => rsp'[t] \in Pdus
        /\ \A t \in Nodes : loop'[t] = "down" => inbox'[t] = << >> /\ rsp'[t] = << >>
    BY <1>1, <1>2, <2>1 DEF Nodes
  <2> QED BY <1>1, <1>2, <2>1, <2>2, ConnStep
<1>9. CASE UNCHANGED vars
  BY <1>1, <1>2, <1>9, ConnStep DEF vars
<1> QED BY <1>3, <1>4, <1>5, <1>6, <1>7, <1>8, <1>9 DEF Next

\* The two connections, loops and queues keep their types through every stop and
\* start: misses never grow past MissesMax + 1, only a failover sleeps before it
\* writes, and a server that is down keeps nothing of what it had.
THEOREM TypeCorrect == Spec => []TypeOK
<1>1. TInv => TypeOK
  BY DEF TInv
<1> QED BY <1>1, InitTInv, NextTInv, PTL DEF Spec

-------------------------------------------------------------------------------
(***************************************************************************)
(* The failover stays quiet until the primary fails: a proof of OneVoice,  *)
(* for any requests, any application, any number of stops and starts, any  *)
(* backlog and any MissesMax of the two that Deployment allows.            *)
(***************************************************************************)
HeadR(q) == q # << >> /\ IsR(Head(q))
TailR(q) == q # << >> /\ HasR(Tail(q))

\* What a packet at the end of a backlog changes in it.
LEMMA AppendView ==
    ASSUME NEW q \in Seq(Packets), NEW f \in Packets
    PROVE  LET a == Append(q, f)
           IN  /\ a # << >>
               /\ HasR(a) <=> HasR(q) \/ IsR(f)
               /\ HasB(a) <=> HasB(q) \/ IsB(f)
               /\ EndsQ(a) <=> IsQ(f)
               /\ HeadR(a) <=> IF q = << >> THEN IsR(f) ELSE HeadR(q)
               /\ TailR(a) <=> q # << >> /\ (TailR(q) \/ IsR(f))
<1> DEFINE a == Append(q, f)
<1>1. /\ a # << >>
      /\ HasR(a) <=> HasR(q) \/ IsR(f)
      /\ HasB(a) <=> HasB(q) \/ IsB(f)
      /\ EndsQ(a) <=> IsQ(f)
      /\ Head(a) = IF q = << >> THEN f ELSE Head(q)
      /\ Tail(a) = IF q = << >> THEN << >> ELSE Append(Tail(q), f)
  BY AppendQueue
<1> HIDE DEF a
<1>2. HeadR(a) <=> IF q = << >> THEN IsR(f) ELSE HeadR(q)
  BY <1>1 DEF HeadR
<1>3. CASE q = << >>
  <2>1. ~TailR(a)
    BY <1>1, <1>3, EmptyQueue DEF TailR
  <2> QED BY <1>1, <1>2, <1>3, <2>1 DEF a
<1>4. CASE q # << >>
  <2>1. Tail(q) \in Seq(Packets)
    BY <1>4
  <2>2. HasR(Tail(a)) <=> HasR(Tail(q)) \/ IsR(f)
    <3>1. HasR(Append(Tail(q), f)) <=> HasR(Tail(q)) \/ IsR(f)
      BY <2>1, AppendQueue
    <3> QED BY <1>1, <1>4, <3>1, Zenon
  <2>3. TailR(a) <=> TailR(q) \/ IsR(f)
    BY <1>1, <1>4, <2>2 DEF TailR
  <2> QED BY <1>1, <1>2, <1>4, <2>3 DEF a
<1> QED BY <1>3, <1>4

\* What a backlog of the right shape is without its first packet.
LEMMA TailView ==
    ASSUME NEW q \in Seq(Packets), q # << >>, Shape(q)
    PROVE  LET h == Head(q)
               t == Tail(q)
           IN  /\ HasR(q) <=> IsR(h) \/ HasR(t)
               /\ HasB(q) <=> IsB(h) \/ HasB(t)
               /\ EndsQ(q) <=> (t = << >> /\ IsQ(h)) \/ EndsQ(t)
               /\ HeadR(q) <=> IsR(h)
               /\ HeadR(t) <=> t # << >> /\ IsQ(h)
               /\ HeadR(t) => HasR(t)
               /\ TailR(q) <=> HasR(t)
               /\ TailR(t) => HasR(t)
               /\ HasR(t) \/ HasB(t) \/ EndsQ(t) => t # << >>
               /\ IsQ(h) /\ t # << >> => IsRequestReply(h.pdu, Head(t).pdu)
<1> DEFINE h == Head(q)
           t == Tail(q)
<1>1. /\ h \in Packets /\ t \in Seq(Packets)
      /\ HasR(q) <=> IsR(h) \/ HasR(t)
      /\ HasB(q) <=> IsB(h) \/ HasB(t)
      /\ EndsQ(q) <=> IF t = << >> THEN IsQ(h) ELSE EndsQ(t)
      /\ t # << >> => /\ IsR(Head(t)) <=> IsQ(h)
                      /\ IsQ(h) => IsRequestReply(h.pdu, Head(t).pdu)
  BY TailQueue
<1> HIDE DEF h, t
<1>2. t # << >> => (HasR(t) <=> IsR(Head(t)) \/ HasR(Tail(t)))
  BY <1>1, TailQueue
<1>3. HasR(t) \/ HasB(t) \/ EndsQ(t) => t # << >>
  BY EmptyQueue
<1> QED BY <1>1, <1>2, <1>3 DEF HeadR, TailR, h, t

-------------------------------------------------------------------------------
(***************************************************************************)
(* The inductive invariant.                                                *)
(***************************************************************************)
P == conn[Primary]
F == conn[Failover]
PQ == inbox[Primary]
FQ == inbox[Failover]
PL == loop[Primary]
FL == loop[Failover]

Answering(c, l) == l \in {"reply", "sleep"} /\ c.isActive
Outstanding == client = "wait" /\ in = << >>

\* The client: a request is outstanding until it is answered, once, or given up.
Bus ==
    /\ Outstanding => voices = {} /\ asked \in Requests /\ asked.id # 0
    /\ in # << >> => client = "wait" /\ Len(in) = 1
    /\ voices # Nodes

\* A server: it has heard of each request before the reply to it, an outstanding
\* request waits at the end of its queue or has been read, and if the server is
\* active it answers.
Lined(c, l, q, r) ==
    /\ Shape(q)
    /\ EndsQ(q) => Outstanding /\ LastOf(q).pdu = asked.pdu
    /\ Answering(c, l) => Outstanding /\ q = << >> /\ IsRequestReply(asked.pdu, r)
    /\ Outstanding => q = << >> \/ EndsQ(q)
    /\ Outstanding /\ c.isActive => EndsQ(q) \/ Answering(c, l)
    /\ l = "down" => /\ ~c.isActive /\ ~c.forceBack
                     /\ c.requestTime = "zero" /\ c.misses = 0

MayAnswer(c, l, q) == EndsQ(q) \/ Answering(c, l)

\* A passive server knows the request to which the next reply belongs, or has
\* missed nothing at all.
Ready(c, l, q, other) ==
    l # "down" /\ ~c.isActive /\ ~(c.requestTime = "zero" /\ c.misses = 0) =>
       /\ HeadR(q) => c.requestTime = "recent" /\ IsRequestReply(c.reqPacket, Head(q).pdu)
       /\ q = << >> /\ other => c.requestTime = "recent" /\ c.reqPacket = asked.pdu

\* What a connection that is active may hear.
Roles ==
    /\ F.isActive => ~HasR(FQ)
    /\ ~F.isActive => F.misses <= FailoverMissesMax
    /\ P.isActive \/ P.forceBack => ~HasR(PQ)
    /\ ~TailR(PQ)
    /\ Answering(P, PL) => ~P.disconnected
    /\ HasR(FQ) /\ PL # "down" => P.isActive /\ ~P.disconnected

\* The misses that c will have counted when it has read q, and when one more
\* request has come, if no reply does.
Pending(c, q) == ~HasB(q) /\ c.requestTime # "zero"
MissesThen(c, q) == c.misses + (IF EndsQ(q) /\ Pending(c, q) THEN 1 ELSE 0)
MissesNext(c, q) == c.misses + (IF EndsQ(q) THEN 1 ELSE 0)
                             + (IF Pending(c, q) THEN 1 ELSE 0)

\* The primary has answered, or will.
Coming == \/ HasR(FQ) \/ Answering(P, PL)
          \/ P.isActive /\ ~P.disconnected /\ EndsQ(PQ)

Passive == ~F.isActive /\ FL # "down"

\* A failover at its last miss has nothing to read before the reply that comes.
Patient ==
    Passive /\ Coming /\ F.misses = FailoverMissesMax => FQ = << >> \/ HeadR(FQ)

\* A failover is at most one miss ahead of a primary that counts as well, and has
\* missed one at most when the primary has counted all of its own.
Lead == IF P.misses > PrimaryMissesMax THEN 0 - PrimaryMissesMax ELSE 1

KeepsPace ==
    Passive /\ PL # "down" /\ ~Coming =>
       /\ MissesThen(F, FQ) <= MissesThen(P, PQ) + Lead
       /\ MissesNext(F, FQ) <= MissesNext(P, PQ) + Lead
       /\ EndsQ(FQ) => F.misses <= P.misses + Lead

\* The primary has heard a reply, or the request before it, of a failover that
\* has been started again since.
FreshFailover ==
    Passive /\ PL # "down" =>
       /\ ~Outstanding /\ (HasR(PQ) \/ P.requestTime = "recent") =>
             MissesNext(F, FQ) = 0 /\ ~HasR(FQ)
       /\ Outstanding /\ (HasR(PQ) \/ (P.requestTime = "recent" /\ EndsQ(PQ))) =>
             MissesThen(F, FQ) = 0 /\ MissesNext(F, FQ) <= 1 /\ ~HasR(FQ)

\* While the failover is active the primary counts one miss at most, and the next
\* that it reads is the reply that clears it.
Yields ==
    F.isActive /\ PL # "down" =>
       /\ ~P.isActive /\ ~P.forceBack /\ P.misses <= 1
       /\ P.misses = 1 => IF PQ = << >> THEN MayAnswer(F, FL, FQ) ELSE HeadR(PQ)

VInv ==
    /\ TInv /\ Bus
    /\ Lined(P, PL, PQ, rsp[Primary]) /\ Lined(F, FL, FQ, rsp[Failover])
    /\ Ready(P, PL, PQ, MayAnswer(F, FL, FQ)) /\ Ready(F, FL, FQ, MayAnswer(P, PL, PQ))
    /\ Roles /\ Patient /\ KeepsPace /\ FreshFailover /\ Yields

-------------------------------------------------------------------------------
(***************************************************************************)
(* The two servers, as the steps below see them.                           *)
(***************************************************************************)
Fields(c) ==
    /\ c \in Conns /\ c.misses \in Nat
    /\ c.isActive \in BOOLEAN /\ c.disconnected \in BOOLEAN /\ c.forceBack \in BOOLEAN
    /\ c.requestTime \in {"zero", "recent", "missed"}

Types ==
    /\ Fields(P) /\ P.isFailover = FALSE /\ P.misses <= PrimaryMissesMax + 1
    /\ Fields(F) /\ F.isFailover = TRUE /\ F.misses <= FailoverMissesMax + 1
    /\ PQ \in Seq(Packets) /\ FQ \in Seq(Packets)
    /\ PL \in {"read", "reply", "down"} /\ FL \in {"read", "reply", "sleep", "down"}
    /\ PL = "down" => PQ = << >>
    /\ FL = "down" => FQ = << >>

\* The types of the two servers.
LEMMA HasTypes == TInv => Types
BY DEF TInv, TypeOK, Types, Fields, Conns, RequestTimes, MissesMax, Nodes, Primary, Failover,
       P, F, PQ, FQ, PL, FL

\* The same after a step.
LEMMA HasTypesNext == TInv' => Types'
BY DEF TInv, TypeOK, Types, Fields, Conns, RequestTimes, MissesMax, Nodes, Primary, Failover,
       P, F, PQ, FQ, PL, FL

\* What Deployment says of MissesMax.
LEMMA Bounds ==
    ASSUME Deployment
    PROVE  /\ PrimaryMissesMax \in Nat /\ FailoverMissesMax \in Nat
           /\ PrimaryMissesMax >= 1 /\ FailoverMissesMax >= PrimaryMissesMax + 2
BY MissesAssumption DEF Deployment

\* The invariant holds at first.
LEMMA VInit == Init => VInv
<1> SUFFICES ASSUME Init PROVE VInv
  OBVIOUS
<1>1. TInv
  BY InitTInv
<1>2. /\ ~P.isActive /\ ~P.forceBack /\ P.requestTime = "zero" /\ P.misses = 0
      /\ ~F.isActive /\ ~F.forceBack /\ F.requestTime = "zero" /\ F.misses = 0
  BY DEF Init, P, F, Nodes, Primary, Failover, NewFailoverConn
<1>3. PQ = << >> /\ FQ = << >> /\ PL = "read" /\ FL = "read"
  BY DEF Init, PQ, FQ, PL, FL, Nodes
<1>4. client = "idle" /\ in = << >> /\ voices = {}
  BY DEF Init
<1>5. ~HeadR(<< >>) /\ ~TailR(<< >>)
  BY DEF HeadR, TailR
<1>6. Bus
  BY <1>4 DEF Bus, Outstanding, Nodes
<1>7. /\ Lined(P, PL, PQ, rsp[Primary]) /\ Lined(F, FL, FQ, rsp[Failover])
      /\ ~Answering(P, PL) /\ ~Answering(F, FL)
  BY <1>2, <1>3, <1>4, EmptyQueue DEF Lined, Answering, Outstanding
<1>8. ~MayAnswer(P, PL, PQ) /\ ~MayAnswer(F, FL, FQ)
  BY <1>3, <1>7, EmptyQueue DEF MayAnswer
<1>9. Ready(P, PL, PQ, MayAnswer(F, FL, FQ)) /\ Ready(F, FL, FQ, MayAnswer(P, PL, PQ))
  BY <1>2, Zenon DEF Ready
<1>10. Roles /\ Patient /\ Yields
  BY <1>2, <1>3, <1>5, <1>7, EmptyQueue, MissesAssumption DEF Roles, Patient, Yields, Coming
<1>11. /\ MissesThen(P, PQ) = 0 /\ MissesNext(P, PQ) = 0
       /\ MissesThen(F, FQ) = 0 /\ MissesNext(F, FQ) = 0
  BY <1>2, <1>3, EmptyQueue DEF MissesThen, MissesNext, Pending
<1>12. KeepsPace /\ FreshFailover
  BY <1>2, <1>3, <1>11, EmptyQueue, MissesAssumption DEF KeepsPace, FreshFailover, Lead
<1> QED BY <1>1, <1>6, <1>7, <1>9, <1>10, <1>12 DEF VInv

-------------------------------------------------------------------------------
(***************************************************************************)
(* The client and the clock.                                               *)
(***************************************************************************)
\* A request, or a broadcast, is the last that a server hears.
LEMMA Heard ==
    ASSUME NEW q \in Seq(Packets), NEW k \in Packets, ~IsR(k),
           NEW l, l = "down" => q = << >>,
           NEW q2, q2 = IF l # "down" THEN Append(q, k) ELSE q
    PROVE  /\ HasR(q2) <=> HasR(q)
           /\ HasB(q2) <=> HasB(q) \/ (l # "down" /\ IsB(k))
           /\ EndsQ(q2) <=> IF l # "down" THEN IsQ(k) ELSE EndsQ(q)
           /\ HeadR(q2) <=> HeadR(q)
           /\ TailR(q2) <=> TailR(q)
           /\ q2 = << >> <=> l = "down"
           /\ HeadR(q) => Head(q2) = Head(q)
<1>1. CASE l = "down"
  BY <1>1
<1>2. CASE l # "down"
  <2>1. q2 = Append(q, k)
    BY <1>2
  <2>2. HeadR(q) => Head(q2) = Head(q)
    BY <2>1, AppendQueue DEF HeadR
  <2>3. HeadR(<< >>) = FALSE /\ TailR(<< >>) = FALSE
    BY DEF HeadR, TailR
  <2> QED BY <1>2, <2>1, <2>2, <2>3, AppendView
<1> QED BY <1>1, <1>2

\* The client sends a request.
LEMMA SendVoice ==
    ASSUME Deployment, VInv, NEW f \in Requests, Send(f), TInv' PROVE VInv'
<1> DEFINE k == Packet(f, FALSE)
<1>1. /\ client = "idle" /\ asked' = f /\ voices' = {} /\ UNCHANGED in
      /\ client' = IF f.id = 0 THEN "idle" ELSE "wait"
      /\ P' = P /\ F' = F /\ PL' = PL /\ FL' = FL /\ rsp' = rsp
  BY DEF Send, P, F, PL, FL
<1>2. Types /\ Types'
  BY HasTypes, HasTypesNext DEF VInv
<1>3. /\ PQ' = IF PL # "down" THEN Append(PQ, k) ELSE PQ
      /\ FQ' = IF FL # "down" THEN Append(FQ, k) ELSE FQ
  BY DEF Send, Hear, Up, PQ, FQ, PL, FL, Nodes
<1>4. /\ k \in Packets /\ ~IsR(k) /\ k.pdu = f.pdu
      /\ IsB(k) <=> f.id = 0
      /\ IsQ(k) <=> f.id # 0
  BY FailoverAssumption DEF Packet, Packets, Ids, IsR, IsB, IsQ
<1> HIDE DEF k
<1>5. /\ in = << >> /\ ~Outstanding
      /\ ~EndsQ(PQ) /\ ~EndsQ(FQ) /\ ~Answering(P, PL) /\ ~Answering(F, FL)
  BY <1>1 DEF VInv, Bus, Lined, Outstanding
<1>6. Outstanding' <=> f.id # 0
  BY <1>1, <1>5 DEF Outstanding
<1>7. /\ HasR(PQ') <=> HasR(PQ)
      /\ HasB(PQ') <=> HasB(PQ) \/ (PL # "down" /\ f.id = 0)
      /\ EndsQ(PQ') <=> PL # "down" /\ f.id # 0
      /\ HeadR(PQ') <=> HeadR(PQ)
      /\ TailR(PQ') <=> TailR(PQ)
      /\ PQ' = << >> <=> PL = "down"
      /\ HeadR(PQ) => Head(PQ') = Head(PQ)
  BY <1>2, <1>3, <1>4, <1>5, Heard DEF Types
<1>8. /\ HasR(FQ') <=> HasR(FQ)
      /\ HasB(FQ') <=> HasB(FQ) \/ (FL # "down" /\ f.id = 0)
      /\ EndsQ(FQ') <=> FL # "down" /\ f.id # 0
      /\ HeadR(FQ') <=> HeadR(FQ)
      /\ TailR(FQ') <=> TailR(FQ)
      /\ FQ' = << >> <=> FL = "down"
      /\ HeadR(FQ) => Head(FQ') = Head(FQ)
  BY <1>2, <1>3, <1>4, <1>5, Heard DEF Types
<1>9. Bus'
  BY <1>1, <1>5, <1>6 DEF Bus, Nodes
<1>10. Lined(P, PL, PQ, rsp[Primary])'
  <2>1. Shape(PQ') /\ (PL # "down" => LastOf(PQ') = k)
    BY <1>2, <1>3, <1>4, <1>5, AppendQueue DEF VInv, Lined, Types
  <2> QED BY <1>1, <1>2, <1>4, <1>5, <1>6, <1>7, <2>1 DEF VInv, Lined, Types
<1>11. Lined(F, FL, FQ, rsp[Failover])'
  <2>1. Shape(FQ') /\ (FL # "down" => LastOf(FQ') = k)
    BY <1>2, <1>3, <1>4, <1>5, AppendQueue DEF VInv, Lined, Types
  <2> QED BY <1>1, <1>2, <1>4, <1>5, <1>6, <1>8, <2>1 DEF VInv, Lined, Types
<1>12. Ready(P, PL, PQ, MayAnswer(F, FL, FQ))' /\ Ready(F, FL, FQ, MayAnswer(P, PL, PQ))'
  BY <1>1, <1>7, <1>8 DEF VInv, Ready
<1>13. Roles'
  BY <1>1, <1>7, <1>8 DEF VInv, Roles
<1>14. /\ MissesThen(P, PQ) = P.misses /\ MissesThen(F, FQ) = F.misses
       /\ P.misses \in Nat /\ F.misses \in Nat /\ P.misses <= PrimaryMissesMax + 1
       /\ Lead <= 1 /\ P.misses + Lead <= PrimaryMissesMax + 1 /\ Lead' = Lead /\ Lead \in Int
       /\ P.isActive => PL # "down"
  BY <1>1, <1>2, <1>5, Bounds, SMTT(30) DEF VInv, Lined, MissesThen, Lead, Types, Fields
<1>15. Patient'
  <2> SUFFICES ASSUME Passive', Coming', F'.misses = FailoverMissesMax PROVE HeadR(FQ')
    BY DEF Patient
  <2>1. CASE Coming
    BY <1>1, <1>5, <1>8, <2>1 DEF VInv, Patient, Passive, Coming, HasR
  <2>2. CASE ~Coming
    <3>1. P.isActive
      BY <1>1, <1>5, <1>7, <1>8, <2>2 DEF Coming
    <3>2. F.misses <= P.misses + Lead
      BY <1>1, <1>14, <2>2, <3>1 DEF VInv, KeepsPace, Passive
    <3> QED BY <1>1, <1>14, <3>2, Bounds
  <2> QED BY <2>1, <2>2
<1>18. KeepsPace'
  <2> SUFFICES ASSUME Passive', PL' # "down", ~Coming'
               PROVE  /\ MissesThen(F, FQ)' <= MissesThen(P, PQ)' + Lead'
                      /\ MissesNext(F, FQ)' <= MissesNext(P, PQ)' + Lead'
                      /\ EndsQ(FQ') => F'.misses <= P'.misses + Lead'
    BY DEF KeepsPace
  <2>1. PL # "down" /\ FL # "down"
    BY <1>1 DEF Passive
  <2>2. /\ F.misses <= P.misses + Lead
        /\ MissesNext(F, FQ) <= MissesNext(P, PQ) + Lead
    BY <1>1, <1>5, <1>7, <1>8, <1>14 DEF VInv, KeepsPace, Passive, Coming
  <2>3. /\ MissesThen(P, PQ)' = IF f.id # 0 THEN MissesNext(P, PQ) ELSE P.misses
        /\ MissesNext(P, PQ)' = IF f.id # 0 THEN MissesNext(P, PQ) + 1 ELSE P.misses
        /\ MissesNext(P, PQ) \in Nat
    BY <1>1, <1>5, <1>7, <1>14, <2>1 DEF MissesThen, MissesNext, Pending
  <2>4. /\ MissesThen(F, FQ)' = IF f.id # 0 THEN MissesNext(F, FQ) ELSE F.misses
        /\ MissesNext(F, FQ)' = IF f.id # 0 THEN MissesNext(F, FQ) + 1 ELSE F.misses
        /\ MissesNext(F, FQ) \in Nat
    BY <1>1, <1>5, <1>8, <1>14, <2>1 DEF MissesThen, MissesNext, Pending
  <2> QED BY <1>1, <1>14, <2>2, <2>3, <2>4
<1>16. FreshFailover'
  BY <1>1, <1>2, <1>5, <1>6, <1>7, <1>8, Bounds
     DEF VInv, FreshFailover, Passive, MissesThen, MissesNext, Pending, Types, Fields
<1>17. Yields'
  BY <1>1, <1>5, <1>7, <1>8 DEF VInv, Yields, MayAnswer
<1> QED BY <1>9, <1>10, <1>11, <1>12, <1>13, <1>15, <1>16, <1>17, <1>18 DEF VInv

\* The client takes a reply.
LEMMA ReceiveVoice == ASSUME VInv, Receive, TInv' PROVE VInv'
<1>1. /\ in # << >> /\ in' = Tail(in) /\ client' = "idle" /\ UNCHANGED <<asked, voices>>
      /\ P' = P /\ F' = F /\ PL' = PL /\ FL' = FL /\ PQ' = PQ /\ FQ' = FQ /\ rsp' = rsp
  BY DEF Receive, histories, P, F, PL, FL, PQ, FQ
<1>2. in' = << >>
  <2>1. in \in Seq(Frames) /\ Len(in) = 1
    BY <1>1 DEF VInv, Bus, TInv
  <2> QED BY <1>1, <2>1
<1>3. ~Outstanding /\ ~Outstanding'
  BY <1>1 DEF Outstanding
<1>4. Bus'
  BY <1>1, <1>2, <1>3 DEF VInv, Bus
<1>5. Lined(P, PL, PQ, rsp[Primary])' /\ Lined(F, FL, FQ, rsp[Failover])'
  BY <1>1, <1>3 DEF VInv, Lined
<1>6. Ready(P, PL, PQ, MayAnswer(F, FL, FQ))' /\ Ready(F, FL, FQ, MayAnswer(P, PL, PQ))'
  BY <1>1 DEF VInv, Ready, MayAnswer
<1>7. Roles' /\ Patient' /\ KeepsPace' /\ Yields'
  BY <1>1 DEF VInv, Roles, Patient, KeepsPace, Yields, Coming, Passive, Lead
<1>8. FreshFailover'
  BY <1>1, <1>3 DEF VInv, FreshFailover, Passive
<1> QED BY <1>4, <1>5, <1>6, <1>7, <1>8 DEF VInv

\* A connection after MissDelay, and perhaps PrimaryDisconnectDelay, has passed.
LEMMA Later ==
    ASSUME NEW c \in Conns,
           NEW d, d = MissDelayPasses(c) \/ d = PrimaryDisconnectDelayPasses(c)
    PROVE  /\ d.isActive = c.isActive /\ d.misses = c.misses /\ d.forceBack = c.forceBack
           /\ d.requestTime # "recent"
           /\ d.requestTime = "zero" <=> c.requestTime = "zero"
<1> DEFINE e == MissDelayPasses(c)
<1>1. /\ e \in Conns
      /\ e.isActive = c.isActive /\ e.misses = c.misses /\ e.forceBack = c.forceBack
      /\ e.requestTime # "recent"
      /\ e.requestTime = "zero" <=> c.requestTime = "zero"
  <2>1. \A b \in Seq(Byte), t \in RequestTimes :
          LET g == [c EXCEPT !.requestTime = t, !.reqPacket = b]
          IN  /\ g \in Conns /\ g.isActive = c.isActive /\ g.misses = c.misses
              /\ g.forceBack = c.forceBack /\ g.requestTime = t
    BY DEF Conns
  <2>2. << >> \in Seq(Byte) /\ "missed" \in RequestTimes
    BY DEF RequestTimes
  <2>3. CASE c.requestTime = "recent"
    <3>1. e = [c EXCEPT !.requestTime = "missed", !.reqPacket = << >>]
      BY <2>3, Zenon DEF MissDelayPasses
    <3> HIDE DEF e
    <3>2. LET g == [c EXCEPT !.requestTime = "missed", !.reqPacket = << >>]
          IN  /\ g \in Conns /\ g.isActive = c.isActive /\ g.misses = c.misses
              /\ g.forceBack = c.forceBack /\ g.requestTime = "missed"
      BY <2>1, <2>2, Zenon
    <3>3. /\ e \in Conns /\ e.isActive = c.isActive /\ e.misses = c.misses
          /\ e.forceBack = c.forceBack /\ e.requestTime = "missed"
      BY <3>1, <3>2, Zenon
    <3> QED BY <2>3, <3>3
  <2>4. CASE c.requestTime # "recent"
    BY <2>4 DEF MissDelayPasses
  <2> QED BY <2>3, <2>4
<1>2. PrimaryDisconnectDelayPasses(c) =
        [e EXCEPT !.disconnected = e.disconnected \/ ~c.isFailover]
  BY Zenon DEF PrimaryDisconnectDelayPasses
<1> HIDE DEF e
<1>3. CASE d = e
  BY <1>1, <1>3
<1>4. CASE d = PrimaryDisconnectDelayPasses(c)
  BY <1>1, <1>2, <1>4 DEF Conns
<1> QED BY <1>3, <1>4 DEF e

\* On a bus that is quiet nobody has anything to read or to answer.
LEMMA OnQuiet ==
    ASSUME VInv, Quiet
    PROVE  /\ PQ = << >> /\ FQ = << >> /\ in = << >>
           /\ ~Answering(P, PL) /\ ~Answering(F, FL)
           /\ ~MayAnswer(P, PL, PQ) /\ ~MayAnswer(F, FL, FQ)
           /\ ~HasR(PQ) /\ ~HasR(FQ) /\ ~EndsQ(PQ) /\ ~EndsQ(FQ) /\ ~HasB(PQ) /\ ~HasB(FQ)
           /\ ~HeadR(PQ) /\ ~HeadR(FQ) /\ ~TailR(PQ) /\ ~Coming
<1>1. /\ PQ = << >> /\ FQ = << >> /\ in = << >>
      /\ PL \in {"read", "down"} /\ FL \in {"read", "down"}
  BY DEF Quiet, PQ, FQ, PL, FL, Nodes
<1>2. ~Answering(P, PL) /\ ~Answering(F, FL)
  BY <1>1 DEF Answering
<1>3. ~HeadR(<< >>) /\ ~TailR(<< >>)
  BY DEF HeadR, TailR
<1> QED BY <1>1, <1>2, <1>3, EmptyQueue DEF MayAnswer, Coming

\* The client gives up, or rests.
LEMMA TimeVoice == ASSUME VInv, GiveUp \/ Rest, TInv' PROVE VInv'
<1>1. /\ Quiet
      /\ Passes(MissDelayPasses) \/ Passes(PrimaryDisconnectDelayPasses)
      /\ client' = "idle" /\ UNCHANGED <<in, asked, voices>>
      /\ PL' = PL /\ FL' = FL /\ PQ' = PQ /\ FQ' = FQ /\ rsp' = rsp
  BY DEF GiveUp, Rest, clientVars, histories, PL, FL, PQ, FQ
<1>2. /\ PQ = << >> /\ FQ = << >> /\ in = << >>
      /\ ~Answering(P, PL) /\ ~Answering(F, FL) /\ ~MayAnswer(F, FL, FQ)
      /\ ~HasR(PQ) /\ ~HasR(FQ) /\ ~EndsQ(PQ) /\ ~EndsQ(FQ)
      /\ ~HeadR(PQ) /\ ~HeadR(FQ) /\ ~TailR(PQ) /\ ~Coming
  BY <1>1, OnQuiet
<1>3. Types /\ Types'
  BY HasTypes, HasTypesNext DEF VInv
<1>4. /\ P'.isActive = P.isActive /\ P'.misses = P.misses /\ P'.forceBack = P.forceBack
      /\ P'.requestTime # "recent"
      /\ P'.requestTime = "zero" <=> P.requestTime = "zero"
  <2>1. CASE PL = "down"
    <3>1. P' = P
      BY <1>1, <2>1 DEF Passes, Up, Nodes, P, PL
    <3> QED BY <2>1, <3>1 DEF VInv, Lined
  <2>2. CASE PL # "down"
    <3>1. P' = MissDelayPasses(P) \/ P' = PrimaryDisconnectDelayPasses(P)
      BY <1>1, <2>2 DEF Passes, Up, Nodes, P, PL
    <3> QED BY <1>3, <3>1, Later DEF Types, Fields
  <2> QED BY <2>1, <2>2
<1>5. /\ F'.isActive = F.isActive /\ F'.misses = F.misses /\ F'.forceBack = F.forceBack
      /\ F'.requestTime # "recent"
      /\ F'.requestTime = "zero" <=> F.requestTime = "zero"
  <2>1. CASE FL = "down"
    <3>1. F' = F
      BY <1>1, <2>1 DEF Passes, Up, Nodes, F, FL
    <3> QED BY <2>1, <3>1 DEF VInv, Lined
  <2>2. CASE FL # "down"
    <3>1. F' = MissDelayPasses(F) \/ F' = PrimaryDisconnectDelayPasses(F)
      BY <1>1, <2>2 DEF Passes, Up, Nodes, F, FL
    <3> QED BY <1>3, <3>1, Later DEF Types, Fields
  <2> QED BY <2>1, <2>2
<1>6. ~Outstanding' /\ ~Answering(P, PL)' /\ ~Answering(F, FL)'
  BY <1>1, <1>2, <1>4, <1>5 DEF Outstanding, Answering
<1>7. ~MayAnswer(P, PL, PQ)' /\ ~MayAnswer(F, FL, FQ)' /\ ~Coming'
  BY <1>1, <1>2, <1>6 DEF MayAnswer, Coming
<1>8. Bus'
  BY <1>1, <1>2, <1>6 DEF VInv, Bus
<1>9. Lined(P, PL, PQ, rsp[Primary])' /\ Lined(F, FL, FQ, rsp[Failover])'
  BY <1>1, <1>2, <1>4, <1>5, <1>6 DEF VInv, Lined
<1>10. Ready(P, PL, PQ, MayAnswer(F, FL, FQ))' /\ Ready(F, FL, FQ, MayAnswer(P, PL, PQ))'
  BY <1>1, <1>2, <1>7 DEF Ready
<1>11. Roles' /\ Patient'
  BY <1>1, <1>2, <1>4, <1>5, <1>6, <1>7 DEF VInv, Roles, Patient
<1>12. KeepsPace'
  BY <1>1, <1>2, <1>3, <1>4, <1>5
     DEF VInv, KeepsPace, Passive, MissesThen, MissesNext, Pending, Lead, Types, Fields
<1>13. FreshFailover'
  BY <1>1, <1>2, <1>4, <1>6 DEF FreshFailover
<1>14. Yields'
  BY <1>1, <1>2, <1>4, <1>5 DEF VInv, Yields
<1> QED BY <1>8, <1>9, <1>10, <1>11, <1>12, <1>13, <1>14 DEF VInv

\* The primary is forced back only while its failover is passive.
LEMMA ForceBackVoice == ASSUME Deployment, VInv, ForceBack, TInv' PROVE VInv'
<1>1. /\ Quiet /\ PL # "down" /\ ~P.isActive /\ ~F.isActive
      /\ Passes(PrimaryForceBackDelayPasses)
      /\ UNCHANGED <<client, in, asked, voices>>
      /\ PL' = PL /\ FL' = FL /\ PQ' = PQ /\ FQ' = FQ /\ rsp' = rsp
  BY DEF Deployment, ForceBack, Up, clientVars, histories, P, F, PL, FL, PQ, FQ
<1>2. /\ PQ = << >> /\ FQ = << >> /\ in = << >>
      /\ ~Answering(P, PL) /\ ~Answering(F, FL)
      /\ ~MayAnswer(P, PL, PQ) /\ ~MayAnswer(F, FL, FQ)
      /\ ~HasR(PQ) /\ ~HasR(FQ) /\ ~EndsQ(PQ) /\ ~EndsQ(FQ)
      /\ ~HeadR(PQ) /\ ~HeadR(FQ) /\ ~TailR(PQ) /\ ~Coming
  BY <1>1, OnQuiet
<1>3. Types /\ Types'
  BY HasTypes, HasTypesNext DEF VInv
<1>4. /\ ~P'.isActive /\ P'.misses = P.misses /\ P'.requestTime = P.requestTime
  <2>1. P' = [P EXCEPT !.forceBack = ~P.isFailover]
    BY <1>1 DEF Passes, PrimaryForceBackDelayPasses, Up, Nodes, P, PL
  <2> QED BY <1>1, <1>3, <2>1 DEF Types, Fields, Conns
<1>5. /\ ~F'.isActive /\ F'.misses = F.misses /\ F'.requestTime = F.requestTime
      /\ FL = "down" => ~F'.forceBack
  <2>1. F' = [F EXCEPT !.forceBack = ~F.isFailover] \/ F' = F
    BY <1>1 DEF Passes, PrimaryForceBackDelayPasses, Up, Nodes, F, FL
  <2>2. FL = "down" => ~F.forceBack
    BY DEF VInv, Lined
  <2> QED BY <1>1, <1>3, <2>1, <2>2 DEF Types, Fields, Conns
<1>6. (Outstanding' <=> Outstanding) /\ ~Answering(P, PL)' /\ ~Answering(F, FL)'
  BY <1>1, <1>2, <1>4, <1>5 DEF Outstanding, Answering
<1>7. ~MayAnswer(P, PL, PQ)' /\ ~MayAnswer(F, FL, FQ)' /\ ~Coming'
  BY <1>1, <1>2, <1>6 DEF MayAnswer, Coming
<1>8. Bus'
  BY <1>1, <1>6 DEF VInv, Bus
<1>9. Lined(P, PL, PQ, rsp[Primary])' /\ Lined(F, FL, FQ, rsp[Failover])'
  BY <1>1, <1>2, <1>4, <1>5, <1>6 DEF VInv, Lined
<1>10. Ready(P, PL, PQ, MayAnswer(F, FL, FQ))' /\ Ready(F, FL, FQ, MayAnswer(P, PL, PQ))'
  BY <1>1, <1>2, <1>7 DEF Ready
<1>11. Roles' /\ Patient' /\ Yields'
  BY <1>1, <1>2, <1>5, <1>6, <1>7 DEF VInv, Roles, Patient, Yields
<1>12. KeepsPace'
  BY <1>1, <1>2, <1>3, <1>4, <1>5
     DEF VInv, KeepsPace, Passive, MissesThen, MissesNext, Pending, Lead, Types, Fields
<1>13. FreshFailover'
  BY <1>1, <1>2, <1>4, <1>5, <1>6
     DEF VInv, FreshFailover, Passive, MissesThen, MissesNext, Pending
<1> QED BY <1>8, <1>9, <1>10, <1>11, <1>12, <1>13 DEF VInv

-------------------------------------------------------------------------------
(***************************************************************************)
(* A server stops, starts, or sleeps before it writes.                     *)
(***************************************************************************)
LEMMA StopPrimaryVoice == ASSUME VInv, Stop(Primary), TInv' PROVE VInv'
<1>1. /\ UNCHANGED <<client, in, asked, voices>>
      /\ PL' = "down" /\ PQ' = << >> /\ P' = NewFailoverConn(Primary = Failover)
      /\ F' = F /\ FL' = FL /\ FQ' = FQ /\ rsp'[Failover] = rsp[Failover]
  BY DEF VInv, TInv, TypeOK, Stop, clientVars, P, F, PL, FL, PQ, FQ, Nodes, Primary, Failover
<1>2. /\ ~P'.isActive /\ ~P'.forceBack /\ P'.requestTime = "zero" /\ P'.misses = 0
  BY <1>1 DEF NewFailoverConn
<1>3. ~Answering(P, PL)' /\ (Outstanding' <=> Outstanding)
  BY <1>1 DEF Answering, Outstanding
<1>4. /\ Shape(PQ') /\ ~HasR(PQ') /\ ~EndsQ(PQ') /\ ~TailR(PQ')
      /\ ~MayAnswer(P, PL, PQ)'
  BY <1>1, <1>3, EmptyQueue DEF TailR, MayAnswer
<1>5. Bus' /\ Lined(P, PL, PQ, rsp[Primary])' /\ Lined(F, FL, FQ, rsp[Failover])'
  BY <1>1, <1>2, <1>3, <1>4 DEF VInv, Bus, Lined
<1>6. Ready(P, PL, PQ, MayAnswer(F, FL, FQ))' /\ Ready(F, FL, FQ, MayAnswer(P, PL, PQ))'
  BY <1>1, <1>4 DEF VInv, Ready
<1>7. Roles'
  BY <1>1, <1>2, <1>3, <1>4 DEF VInv, Roles
<1>8. Patient'
  BY <1>1, <1>2, <1>3 DEF VInv, Patient, Passive, Coming
<1>9. KeepsPace' /\ FreshFailover' /\ Yields'
  BY <1>1 DEF KeepsPace, FreshFailover, Yields
<1> QED BY <1>5, <1>6, <1>7, <1>8, <1>9 DEF VInv

\* The failover stops.
LEMMA StopFailoverVoice == ASSUME VInv, Stop(Failover), TInv' PROVE VInv'
<1>1. /\ UNCHANGED <<client, in, asked, voices>>
      /\ FL' = "down" /\ FQ' = << >> /\ F' = NewFailoverConn(Failover = Failover)
      /\ P' = P /\ PL' = PL /\ PQ' = PQ /\ rsp'[Primary] = rsp[Primary]
  BY DEF VInv, TInv, TypeOK, Stop, clientVars, P, F, PL, FL, PQ, FQ, Nodes, Primary, Failover
<1>2. /\ ~F'.isActive /\ ~F'.forceBack /\ F'.requestTime = "zero" /\ F'.misses = 0
  BY <1>1 DEF NewFailoverConn
<1>3. ~Answering(F, FL)' /\ (Outstanding' <=> Outstanding)
  BY <1>1 DEF Answering, Outstanding
<1>4. /\ Shape(FQ') /\ ~HasR(FQ') /\ ~EndsQ(FQ')
      /\ ~MayAnswer(F, FL, FQ)'
  BY <1>1, <1>3, EmptyQueue DEF MayAnswer
<1>5. Bus' /\ Lined(P, PL, PQ, rsp[Primary])' /\ Lined(F, FL, FQ, rsp[Failover])'
  BY <1>1, <1>2, <1>3, <1>4 DEF VInv, Bus, Lined
<1>6. Ready(P, PL, PQ, MayAnswer(F, FL, FQ))' /\ Ready(F, FL, FQ, MayAnswer(P, PL, PQ))'
  BY <1>1, <1>4 DEF VInv, Ready
<1>7. Roles'
  BY <1>1, <1>2, <1>4, MissesAssumption DEF VInv, Roles
<1>8. Patient' /\ KeepsPace' /\ FreshFailover' /\ Yields'
  BY <1>1, <1>2 DEF Patient, Passive, KeepsPace, FreshFailover, Yields
<1> QED BY <1>5, <1>6, <1>7, <1>8 DEF VInv

\* The primary starts while its failover is down, is active, or has missed nothing.
LEMMA StartPrimaryVoice == ASSUME Deployment, VInv, Start(Primary), TInv' PROVE VInv'
<1>1. /\ UNCHANGED <<client, in, asked, voices>>
      /\ PL = "down" /\ PL' = "read" /\ P' = P /\ PQ' = PQ
      /\ F' = F /\ FL' = FL /\ FQ' = FQ /\ rsp' = rsp
      /\ FL = "down" \/ F.isActive \/ (F.misses = 0 /\ FQ = << >>)
  BY DEF Deployment, VInv, TInv, TypeOK, Start, MayStart, Up, clientVars, histories,
         P, F, PL, FL, PQ, FQ, Nodes, Primary, Failover
<1>2. Types
  BY HasTypes DEF VInv
<1>3. /\ PQ = << >> /\ ~EndsQ(PQ) /\ ~HasR(PQ) /\ ~HasR(FQ)
  BY <1>1, <1>2, EmptyQueue DEF Types, VInv, Roles
<1>4. ~P.isActive /\ ~P.forceBack /\ P.requestTime = "zero" /\ P.misses = 0
  BY <1>1 DEF VInv, Lined
<1>5. ~Answering(P, PL)' /\ (Outstanding' <=> Outstanding) /\ ~MayAnswer(P, PL, PQ)'
  BY <1>1, <1>3 DEF Answering, Outstanding, MayAnswer
<1>6. Bus' /\ Lined(P, PL, PQ, rsp[Primary])' /\ Lined(F, FL, FQ, rsp[Failover])'
  BY <1>1, <1>3, <1>4, <1>5 DEF VInv, Bus, Lined
<1>7. Ready(P, PL, PQ, MayAnswer(F, FL, FQ))' /\ Ready(F, FL, FQ, MayAnswer(P, PL, PQ))'
  BY <1>1, <1>4, <1>5 DEF VInv, Ready
<1>8. Roles' /\ Yields'
  BY <1>1, <1>3, <1>4, <1>5 DEF VInv, Roles, Yields
<1>9. ~Coming' /\ Patient' /\ FreshFailover'
  BY <1>1, <1>3, <1>4, <1>5 DEF Coming, Patient, Passive, FreshFailover
<1>10. KeepsPace'
  <2>1. CASE FL = "down" \/ F.isActive
    BY <1>1, <2>1 DEF KeepsPace, Passive
  <2>2. CASE F.misses = 0 /\ FQ = << >>
    <3>1. /\ MissesThen(P, PQ)' = 0 /\ MissesNext(P, PQ)' = 0
          /\ MissesThen(F, FQ)' = 0 /\ MissesNext(F, FQ)' \in {0, 1}
      BY <1>1, <1>3, <1>4, <2>2, EmptyQueue DEF MissesThen, MissesNext, Pending
    <3>2. Lead' = 1 /\ ~EndsQ(FQ)'
      BY <1>1, <1>4, <2>2, Bounds, EmptyQueue DEF Lead
    <3> QED BY <3>1, <3>2 DEF KeepsPace
  <2> QED BY <1>1, <2>1, <2>2
<1> QED BY <1>6, <1>7, <1>8, <1>9, <1>10 DEF VInv

\* The failover starts again.
LEMMA StartFailoverVoice == ASSUME Deployment, VInv, Start(Failover), TInv' PROVE VInv'
<1>1. /\ UNCHANGED <<client, in, asked, voices>>
      /\ FL = "down" /\ FL' = "read" /\ F' = F /\ FQ' = FQ
      /\ P' = P /\ PL' = PL /\ PQ' = PQ /\ rsp' = rsp
  BY DEF VInv, TInv, TypeOK, Start, Up, clientVars, histories,
         P, F, PL, FL, PQ, FQ, Nodes, Primary, Failover
<1>2. Types
  BY HasTypes DEF VInv
<1>3. /\ FQ = << >> /\ ~EndsQ(FQ) /\ ~HasR(FQ)
  BY <1>1, <1>2, EmptyQueue DEF Types
<1>4. ~F.isActive /\ ~F.forceBack /\ F.requestTime = "zero" /\ F.misses = 0
  BY <1>1 DEF VInv, Lined
<1>5. ~Answering(F, FL)' /\ (Outstanding' <=> Outstanding) /\ ~MayAnswer(F, FL, FQ)'
  BY <1>1, <1>3 DEF Answering, Outstanding, MayAnswer
<1>6. Bus' /\ Lined(P, PL, PQ, rsp[Primary])' /\ Lined(F, FL, FQ, rsp[Failover])'
  BY <1>1, <1>3, <1>4, <1>5 DEF VInv, Bus, Lined
<1>7. Ready(P, PL, PQ, MayAnswer(F, FL, FQ))' /\ Ready(F, FL, FQ, MayAnswer(P, PL, PQ))'
  BY <1>1, <1>4, <1>5 DEF VInv, Ready
<1>8. Roles' /\ Yields' /\ Patient'
  BY <1>1, <1>3, <1>4, Bounds DEF VInv, Roles, Yields, Patient
<1>9. /\ MissesThen(F, FQ)' = 0 /\ MissesNext(F, FQ)' = 0
  BY <1>1, <1>3, <1>4 DEF MissesThen, MissesNext, Pending
<1>10. /\ MissesThen(P, PQ)' >= P.misses /\ MissesNext(P, PQ)' >= P.misses
       /\ MissesThen(P, PQ)' \in Nat /\ MissesNext(P, PQ)' \in Nat
       /\ P.misses + Lead' >= 0 /\ Lead' \in Int /\ P.misses \in Nat
  <2>1. P.misses \in Nat /\ PrimaryMissesMax \in Nat
    BY <1>2, Bounds DEF Types, Fields
  <2>2. Lead' = (IF P.misses > PrimaryMissesMax THEN 0 - PrimaryMissesMax ELSE 1)
    BY <1>1 DEF Lead
  <2>3. /\ MissesThen(P, PQ)' \in {P.misses, P.misses + 1}
        /\ MissesNext(P, PQ)' \in {P.misses, P.misses + 1, P.misses + 2}
    BY <1>1, <2>1 DEF MissesThen, MissesNext
  <2> QED BY <2>1, <2>2, <2>3
<1>11. KeepsPace' /\ FreshFailover'
  BY <1>1, <1>3, <1>9, <1>10 DEF KeepsPace, FreshFailover
<1> QED BY <1>6, <1>7, <1>8, <1>11 DEF VInv

\* The failover waits for SecondaryDelay before it writes.
LEMMA SleepVoice == ASSUME VInv, NEW s \in Nodes, Sleep(s), TInv' PROVE VInv'
<1>1. s = Failover
  BY DEF VInv, TInv, TypeOK, Sleep, SleepsBeforeWrite, Nodes
<1>2. /\ UNCHANGED <<client, in, asked, voices>>
      /\ FL = "reply" /\ FL' = "sleep" /\ F' = F /\ FQ' = FQ /\ F.isActive
      /\ P' = P /\ PL' = PL /\ PQ' = PQ /\ rsp' = rsp
  BY <1>1 DEF VInv, TInv, TypeOK, Sleep, SleepsBeforeWrite, clientVars, histories,
              P, F, PL, FL, PQ, FQ, Nodes, Primary, Failover
<1>3. /\ Answering(F, FL)' /\ Answering(F, FL) /\ (Outstanding' <=> Outstanding)
  BY <1>2 DEF Answering, Outstanding
<1>4. MayAnswer(F, FL, FQ)' /\ MayAnswer(F, FL, FQ)
  BY <1>3 DEF MayAnswer
<1>5. Bus' /\ Lined(P, PL, PQ, rsp[Primary])' /\ Lined(F, FL, FQ, rsp[Failover])'
  BY <1>2, <1>3 DEF VInv, Bus, Lined
<1>6. Ready(P, PL, PQ, MayAnswer(F, FL, FQ))' /\ Ready(F, FL, FQ, MayAnswer(P, PL, PQ))'
  BY <1>2, <1>4 DEF VInv, Ready
<1>7. Roles' /\ Yields'
  BY <1>2, <1>4 DEF VInv, Roles, Yields
<1>8. Patient' /\ KeepsPace' /\ FreshFailover'
  BY <1>2 DEF Patient, Passive, KeepsPace, FreshFailover
<1> QED BY <1>5, <1>6, <1>7, <1>8 DEF VInv

-------------------------------------------------------------------------------
(***************************************************************************)
(* A server writes.                                                        *)
(***************************************************************************)
\* What a passive server writes is dropped.
LEMMA DroppedVoice ==
    ASSUME VInv, NEW s \in Nodes, loop[s] \in {"reply", "sleep"}, ~conn[s].isActive,
           WriteNow(s), TInv'
    PROVE  VInv'
<1>1. /\ UNCHANGED <<client, in, asked, voices, inbox>>
      /\ conn' = [conn EXCEPT ![s] = conn[s]]
      /\ loop' = [loop EXCEPT ![s] = "read"]
      /\ rsp' = [rsp EXCEPT ![s] = << >>]
  BY DEF WriteNow, serverWrite
<1>2. P' = P /\ F' = F /\ PQ' = PQ /\ FQ' = FQ
  BY <1>1 DEF VInv, TInv, TypeOK, P, F, PQ, FQ
<1>3. /\ PL' = "down" <=> PL = "down"
      /\ Answering(P, PL)' <=> Answering(P, PL)
      /\ Answering(P, PL) => rsp'[Primary] = rsp[Primary]
  BY <1>1, <1>2 DEF VInv, TInv, TypeOK, PL, P, Answering, Nodes, Primary, Failover
<1>4. /\ FL' = "down" <=> FL = "down"
      /\ Answering(F, FL)' <=> Answering(F, FL)
      /\ Answering(F, FL) => rsp'[Failover] = rsp[Failover]
  BY <1>1, <1>2 DEF VInv, TInv, TypeOK, FL, F, Answering, Nodes, Primary, Failover
<1>5. Outstanding' <=> Outstanding
  BY <1>1 DEF Outstanding
<1>6. /\ MayAnswer(P, PL, PQ)' <=> MayAnswer(P, PL, PQ)
      /\ MayAnswer(F, FL, FQ)' <=> MayAnswer(F, FL, FQ)
      /\ Coming' <=> Coming
      /\ Passive' <=> Passive
  BY <1>2, <1>3, <1>4 DEF MayAnswer, Coming, Passive
<1>7. Bus'
  BY <1>1, <1>5 DEF VInv, Bus
<1>8. Lined(P, PL, PQ, rsp[Primary])' /\ Lined(F, FL, FQ, rsp[Failover])'
  BY <1>1, <1>2, <1>3, <1>4, <1>5 DEF VInv, Lined
<1>9. Ready(P, PL, PQ, MayAnswer(F, FL, FQ))' /\ Ready(F, FL, FQ, MayAnswer(P, PL, PQ))'
  BY <1>1, <1>2, <1>3, <1>4, <1>6 DEF VInv, Ready
<1>10. Roles' /\ Patient' /\ KeepsPace' /\ FreshFailover' /\ Yields'
  BY <1>2, <1>3, <1>4, <1>5, <1>6
     DEF VInv, Roles, Patient, KeepsPace, FreshFailover, Yields, Lead
<1> QED BY <1>7, <1>8, <1>9, <1>10 DEF VInv

\* A reply is the last that the other server hears, and follows its request.
LEMMA HeardReply ==
    ASSUME NEW q \in Seq(Packets), NEW k \in Packets, IsR(k), ~IsQ(k), Shape(q),
           q = << >> \/ EndsQ(q), EndsQ(q) => IsRequestReply(LastOf(q).pdu, k.pdu)
    PROVE  /\ Shape(Append(q, k)) /\ HasR(Append(q, k)) /\ ~EndsQ(Append(q, k))
           /\ HeadR(Append(q, k)) <=> q = << >> \/ HeadR(q)
           /\ q = << >> => ~TailR(Append(q, k)) /\ Head(Append(q, k)) = k
           /\ HeadR(q) => Head(Append(q, k)) = Head(q)
<1>1. q = << >> => ~EndsQ(q)
  BY EmptyQueue
<1>2. HeadR(q) => q # << >>
  BY DEF HeadR
<1> QED BY <1>1, <1>2, AppendView, AppendQueue

\* An active connection after Write.
LEMMA Reset ==
    ASSUME NEW c, Fields(c), c.isActive
    PROVE  /\ serverWrite(c).isActive /\ serverWrite(c).misses = c.misses
           /\ serverWrite(c).requestTime = "zero"
           /\ serverWrite(c).disconnected = c.disconnected
           /\ serverWrite(c).forceBack = c.forceBack
<1>1. serverWrite(c) = [c EXCEPT !.requestTime = "zero", !.reqPacket = << >>]
  BY DEF serverWrite, resetRequestTime
<1> QED BY <1>1 DEF Fields, Conns

\* A reply on the bus is a packet, and is known as a reply.
LEMMA ReplyPacket ==
    ASSUME NEW p \in Pdus
    PROVE  LET k == Packet(MakeRTU(SlaveID, p), TRUE)
           IN  k \in Packets /\ IsR(k) /\ ~IsQ(k) /\ k.pdu = p
<1>1. SlaveID # 0
  BY FailoverAssumption
<1> QED BY <1>1 DEF MakeRTU, Packet, Packets, Ids, IsR, IsQ

\* The primary writes a reply, which clears the misses of the failover.
LEMMA PrimaryVoice ==
    ASSUME VInv, PL = "reply", P.isActive, WriteNow(Primary), TInv' PROVE VInv'
<1> DEFINE f == MakeRTU(SlaveID, rsp[Primary])
           k == Packet(f, TRUE)
<1>1. /\ UNCHANGED <<client, asked>> /\ in' = Append(in, f)
      /\ voices' = voices \cup {Primary}
      /\ P' = serverWrite(P) /\ F' = F /\ PL' = "read" /\ FL' = FL /\ PQ' = PQ
      /\ FQ' = IF FL # "down" THEN Append(FQ, k) ELSE FQ
      /\ rsp'[Failover] = rsp[Failover]
  BY DEF VInv, TInv, TypeOK, WriteNow, Hear, Up, P, F, PL, FL, PQ, FQ, Nodes, Primary, Failover
<1>2. Types /\ Types'
  BY HasTypes, HasTypesNext DEF VInv
<1>3. k \in Packets /\ IsR(k) /\ ~IsQ(k) /\ k.pdu = rsp[Primary]
  <2>1. rsp[Primary] \in Pdus
    BY DEF VInv, TInv, PL, Nodes
  <2> QED BY <2>1, ReplyPacket
<1> HIDE DEF k, f
<1>4. Answering(P, PL)
  BY DEF Answering
<1>5. /\ Outstanding /\ PQ = << >> /\ IsRequestReply(asked.pdu, rsp[Primary])
      /\ FQ = << >> \/ EndsQ(FQ)
      /\ EndsQ(FQ) => LastOf(FQ).pdu = asked.pdu
      /\ ~EndsQ(PQ) /\ ~HasR(PQ) /\ ~HeadR(PQ) /\ ~TailR(PQ) /\ ~P.disconnected
  <2>1. PQ = << >> => ~HeadR(PQ)
    BY DEF HeadR
  <2> QED BY <1>4, <2>1, EmptyQueue DEF VInv, Lined, Roles
<1>6. ~F.isActive /\ Coming /\ MayAnswer(P, PL, PQ)
  BY <1>4 DEF VInv, Yields, Coming, MayAnswer
<1>7. /\ P'.isActive /\ P'.misses = P.misses /\ P'.requestTime = "zero"
      /\ ~P'.disconnected /\ P'.forceBack = P.forceBack
  BY <1>1, <1>2, <1>5, Reset DEF Types
<1>8. ~Outstanding' /\ ~Answering(P, PL)' /\ ~Answering(F, FL)' /\ ~MayAnswer(P, PL, PQ)'
  BY <1>1, <1>5, <1>6 DEF Outstanding, Answering, MayAnswer
<1>9. /\ Shape(FQ') /\ ~EndsQ(FQ')
      /\ FL # "down" => /\ HasR(FQ')
                        /\ HeadR(FQ') <=> FQ = << >> \/ HeadR(FQ)
                        /\ FQ = << >> => Head(FQ') = k
                        /\ HeadR(FQ) => Head(FQ') = Head(FQ)
      /\ FL = "down" => FQ' = << >>
  <2>1. CASE FL = "down"
    BY <1>1, <1>2, <2>1, EmptyQueue DEF Types
  <2>2. CASE FL # "down"
    <3>1. FQ' = Append(FQ, k)
      BY <1>1, <2>2
    <3>2. Shape(FQ) /\ FQ \in Seq(Packets)
      BY <1>2 DEF VInv, Lined, Types
    <3>3. EndsQ(FQ) => IsRequestReply(LastOf(FQ).pdu, k.pdu)
      BY <1>3, <1>5
    <3> QED BY <1>3, <1>5, <2>2, <3>1, <3>2, <3>3, HeardReply
  <2> QED BY <2>1, <2>2
<1>10. Bus'
  <2>1. in' # << >> /\ Len(in') = 1 /\ client' = "wait"
    BY <1>1, <1>5 DEF Outstanding
  <2>2. voices' = {Primary}
    BY <1>1, <1>5 DEF VInv, Bus
  <2> QED BY <1>8, <2>1, <2>2 DEF Bus, Nodes, Primary, Failover
<1>11. Lined(P, PL, PQ, rsp[Primary])' /\ Lined(F, FL, FQ, rsp[Failover])'
  BY <1>1, <1>5, <1>8, <1>9, EmptyQueue DEF VInv, Lined
<1>12. Ready(P, PL, PQ, MayAnswer(F, FL, FQ))'
  BY <1>7 DEF Ready
<1>13. Ready(F, FL, FQ, MayAnswer(P, PL, PQ))'
  BY <1>1, <1>3, <1>5, <1>6, <1>8, <1>9 DEF VInv, Ready
<1>14. Roles'
  BY <1>1, <1>5, <1>6, <1>7, <1>8 DEF VInv, Roles
<1>15. Patient' /\ KeepsPace'
  BY <1>1, <1>6, <1>9 DEF VInv, Patient, KeepsPace, Passive, Coming
<1>16. FreshFailover' /\ Yields'
  BY <1>1, <1>5, <1>6, <1>7 DEF FreshFailover, Yields
<1> QED BY <1>10, <1>11, <1>12, <1>13, <1>14, <1>15, <1>16 DEF VInv

\* The failover writes a reply, which clears those of the primary.
LEMMA FailoverVoice ==
    ASSUME VInv, FL = "sleep", PQ = << >>, F.isActive, WriteNow(Failover), TInv' PROVE VInv'
<1> DEFINE f == MakeRTU(SlaveID, rsp[Failover])
           k == Packet(f, TRUE)
<1>1. /\ UNCHANGED <<client, asked>> /\ in' = Append(in, f)
      /\ voices' = voices \cup {Failover}
      /\ F' = serverWrite(F) /\ P' = P /\ FL' = "read" /\ PL' = PL /\ FQ' = FQ
      /\ PQ' = IF PL # "down" THEN Append(PQ, k) ELSE PQ
      /\ rsp'[Primary] = rsp[Primary]
  BY DEF VInv, TInv, TypeOK, WriteNow, Hear, Up, P, F, PL, FL, PQ, FQ, Nodes, Primary, Failover
<1>2. Types /\ Types'
  BY HasTypes, HasTypesNext DEF VInv
<1>3. k \in Packets /\ IsR(k) /\ ~IsQ(k) /\ k.pdu = rsp[Failover]
  <2>1. rsp[Failover] \in Pdus
    BY DEF VInv, TInv, FL, Nodes
  <2> QED BY <2>1, ReplyPacket
<1> HIDE DEF k, f
<1>4. Answering(F, FL) /\ MayAnswer(F, FL, FQ)
  BY DEF Answering, MayAnswer
<1>5. /\ Outstanding /\ FQ = << >> /\ IsRequestReply(asked.pdu, rsp[Failover])
      /\ ~EndsQ(FQ) /\ ~HasR(FQ) /\ ~EndsQ(PQ)
  BY <1>4, EmptyQueue DEF VInv, Lined
<1>6. /\ ~P.isActive /\ ~P.forceBack /\ ~Answering(P, PL)
      /\ PL # "down" => P.misses <= 1
  BY DEF VInv, Yields, Lined, Answering
<1>7. F'.isActive
  BY <1>1, <1>2, Reset DEF Types
<1>8. ~Outstanding' /\ ~Answering(P, PL)' /\ ~Answering(F, FL)' /\ ~MayAnswer(F, FL, FQ)'
  BY <1>1, <1>5, <1>6 DEF Outstanding, Answering, MayAnswer
<1>9. /\ Shape(PQ') /\ ~EndsQ(PQ') /\ ~TailR(PQ')
      /\ PL # "down" => PQ' # << >> /\ HeadR(PQ') /\ Head(PQ') = k
      /\ PL = "down" => PQ' = << >> /\ ~HasR(PQ')
  <2>1. CASE PL = "down"
    BY <1>1, <2>1, EmptyQueue DEF TailR
  <2>2. CASE PL # "down"
    <3>1. PQ' = Append(PQ, k)
      BY <1>1, <2>2
    <3>2. Shape(PQ) /\ PQ \in Seq(Packets)
      BY <1>2 DEF VInv, Lined, Types
    <3> QED BY <1>3, <1>5, <2>2, <3>1, <3>2, HeardReply DEF HeadR
  <2> QED BY <2>1, <2>2
<1>10. Bus'
  <2>1. in' # << >> /\ Len(in') = 1 /\ client' = "wait"
    BY <1>1, <1>5 DEF Outstanding
  <2>2. voices' = {Failover}
    BY <1>1, <1>5 DEF VInv, Bus
  <2> QED BY <1>8, <2>1, <2>2 DEF Bus, Nodes, Primary, Failover
<1>11. Lined(P, PL, PQ, rsp[Primary])' /\ Lined(F, FL, FQ, rsp[Failover])'
  BY <1>1, <1>5, <1>8, <1>9, EmptyQueue DEF VInv, Lined
<1>12. Ready(P, PL, PQ, MayAnswer(F, FL, FQ))'
  BY <1>1, <1>3, <1>4, <1>5, <1>8, <1>9 DEF VInv, Ready
<1>13. Ready(F, FL, FQ, MayAnswer(P, PL, PQ))'
  BY <1>7 DEF Ready
<1>14. Roles'
  BY <1>1, <1>5, <1>6, <1>7, <1>8, <1>9 DEF VInv, Roles
<1>15. Patient' /\ KeepsPace' /\ FreshFailover'
  BY <1>7 DEF Patient, KeepsPace, FreshFailover, Passive
<1>16. Yields'
  BY <1>1, <1>6, <1>9 DEF VInv, Yields
<1> QED BY <1>10, <1>11, <1>12, <1>13, <1>14, <1>15, <1>16 DEF VInv

-------------------------------------------------------------------------------
(***************************************************************************)
(* A server reads: a broadcast, the first request, a reply, a miss.        *)
(***************************************************************************)
Forgets(c, d) ==
    d.isActive = c.isActive /\ d.misses = c.misses /\ d.requestTime = "zero"

Notes(c, p, d) ==
    /\ c.requestTime = "zero"
    /\ d.isActive = c.isActive /\ d.misses = c.misses
    /\ d.requestTime = "recent" /\ d.reqPacket = p

Clears(c, p, d) ==
    /\ c.requestTime = "recent" /\ IsRequestReply(c.reqPacket, p)
    /\ d.isActive = c.isActive /\ d.misses = 0 /\ d.requestTime = "zero"

Counts(c, p, d) ==
    /\ c.requestTime # "zero"
    /\ ~(c.requestTime = "recent" /\ IsRequestReply(c.reqPacket, p))
    /\ d.misses = IF c.misses > MissesMax(c) THEN c.misses ELSE c.misses + 1
    /\ d.misses > MissesMax(c) => d.isActive = TRUE
    /\ d.misses <= MissesMax(c) =>
          d.isActive = c.isActive /\ d.requestTime = "recent" /\ d.reqPacket = p

\* What a connection that listens makes of a packet.
LEMMA PassiveReads ==
    ASSUME NEW c, ConnOK(c), NEW h \in Packets, NEW r,
           r = IF h.id = 0 THEN Returns(resetRequestTime(c)) ELSE PassiveRead(c, h.pdu)
    PROVE  /\ \/ h.id = 0 /\ r.returns /\ Forgets(c, r.conn) /\ ~r.conn.disconnected
              \/ h.id # 0 /\ r.returns /\ Notes(c, h.pdu, r.conn) /\ ~r.conn.disconnected
              \/ h.id # 0 /\ ~r.returns /\ Clears(c, h.pdu, r.conn)
              \/ h.id # 0 /\ r.returns /\ Counts(c, h.pdu, r.conn) /\ ~r.conn.disconnected
           /\ r.conn.forceBack = c.forceBack
<1>1. CASE h.id = 0
  BY <1>1, ResetType DEF Forgets
<1>2. CASE h.id # 0
  <2>1. r = PassiveRead(c, h.pdu) /\ h.pdu \in Seq(Byte) /\ c \in Conns
    BY <1>2, HeardPDU DEF ConnOK
  <2>2. TakesFirst(c, h.pdu, r) \/ TakesReply(c, h.pdu, r) \/ TakesMiss(c, h.pdu, r)
    BY <2>1, PassiveReadResult
  <2>3. CASE TakesFirst(c, h.pdu, r)
    <3>1. /\ c.requestTime = "zero" /\ r.returns
          /\ r.conn = [c EXCEPT !.requestTime = "recent", !.reqPacket = h.pdu,
                                !.disconnected = FALSE]
      BY <2>3 DEF TakesFirst
    <3> QED BY <1>2, <2>1, <3>1, ZenonT(30) DEF Notes, Conns
  <2>4. CASE TakesReply(c, h.pdu, r)
    <3>1. /\ c.requestTime = "recent" /\ IsRequestReply(c.reqPacket, h.pdu) /\ ~r.returns
          /\ r.conn = [c EXCEPT !.requestTime = "zero", !.reqPacket = << >>, !.misses = 0]
      BY <2>4 DEF TakesReply
    <3> QED BY <1>2, <2>1, <3>1 DEF Clears, Conns
  <2>5. CASE TakesMiss(c, h.pdu, r)
    BY <1>2, <2>5 DEF TakesMiss, Counts
  <2> QED BY <2>2, <2>3, <2>4, <2>5
<1> QED BY <1>1, <1>2

\* What a failover makes of a packet.
LEMMA FailoverReads ==
    ASSUME NEW c, ConnOK(c), c.isFailover, NEW h \in Packets
    PROVE  LET r == serverRead(c, h)
           IN  \/ h.id = 0 /\ r.returns /\ Forgets(c, r.conn)
               \/ h.id # 0 /\ r.returns /\ Notes(c, h.pdu, r.conn)
               \/ h.id # 0 /\ ~r.returns /\ ~c.isActive /\ Clears(c, h.pdu, r.conn)
               \/ h.id # 0 /\ r.returns /\ ~c.isActive /\ Counts(c, h.pdu, r.conn)
               \/ /\ h.id # 0 /\ ~r.returns /\ c.isActive /\ c.requestTime # "zero"
                  /\ ~r.conn.isActive
                  /\ r.conn.misses = 0 /\ r.conn.requestTime = "zero"
<1> DEFINE r == serverRead(c, h)
<1>1. r = IF h.id = 0 THEN Returns(resetRequestTime(c))
          ELSE IF c.isActive THEN ActiveFailoverRead(c, h.pdu)
          ELSE PassiveRead(c, h.pdu)
  BY FailoverRead
<1> HIDE DEF r
<1>2. CASE h.id # 0 /\ c.isActive
  <2>1. r = ActiveFailoverRead(c, h.pdu) /\ h.pdu \in Seq(Byte) /\ c \in Conns
    BY <1>1, <1>2, HeardPDU DEF ConnOK
  <2>2. CASE c.requestTime = "zero"
    <3>1. TakesFirst(c, h.pdu, r)
      BY <2>1, <2>2, ActiveReadResult
    <3>2. /\ r.returns
          /\ r.conn = [c EXCEPT !.requestTime = "recent", !.reqPacket = h.pdu,
                                !.disconnected = FALSE]
      BY <3>1 DEF TakesFirst
    <3>3. Notes(c, h.pdu, r.conn)
      BY <2>1, <2>2, <3>2 DEF Notes, Conns
    <3> QED BY <1>2, <3>2, <3>3 DEF r
  <2>3. CASE c.requestTime # "zero"
    <3>1. /\ ~r.returns /\ ~r.conn.isActive
          /\ r.conn.misses = 0 /\ r.conn.requestTime = "zero"
      BY <2>1, <2>3, ActiveReadResult
    <3> QED BY <1>2, <2>3, <3>1 DEF r
  <2> QED BY <2>2, <2>3
<1>3. CASE h.id = 0 \/ ~c.isActive
  <2>1. r = IF h.id = 0 THEN Returns(resetRequestTime(c)) ELSE PassiveRead(c, h.pdu)
    BY <1>1, <1>3
  <2> QED BY <1>3, <2>1, PassiveReads DEF r
<1> QED BY <1>2, <1>3

\* The failover reads a packet: the step that may make it active.
LEMMA ReadFailoverVoice ==
    ASSUME Deployment, VInv, ReadAndHandle(Failover), TInv' PROVE VInv'
<1> DEFINE h == Head(FQ)
           t == Tail(FQ)
           r == serverRead(F, h)
           reply == Handle(smem[Failover], h.pdu).reply
<1>1. Types /\ Types' /\ ConnOK(F)
  BY HasTypes, HasTypesNext, ConnType DEF VInv, TInv, F, Nodes
<1>2. FL = "read" /\ FQ # << >> /\ h \in Packets
  <2>1. FL = "read" /\ FQ # << >>
    BY DEF ReadAndHandle, FL, FQ
  <2> QED BY <1>1, <2>1, TailQueue DEF Types
<1>3. /\ UNCHANGED <<client, in, asked, voices>>
      /\ P' = P /\ PL' = PL /\ PQ' = PQ /\ rsp'[Primary] = rsp[Primary]
      /\ F' = r.conn /\ FQ' = t
      /\ IF r.returns /\ h.id # 0 THEN FL' = "reply" /\ rsp'[Failover] = reply
         ELSE FL' = "read"
  <2>1. /\ GetPDU(h).err = NoErr /\ h.id \in {0, SlaveID}
    BY <1>2, HeardPDU, HeardId
  <2>2. Primary # Failover /\ Primary \in Nodes /\ Failover \in Nodes
    BY DEF Nodes, Primary, Failover
  <2>3. /\ UNCHANGED <<client, in, asked, voices>>
        /\ conn' = [conn EXCEPT ![Failover] = r.conn]
        /\ inbox' = [inbox EXCEPT ![Failover] = t]
        /\ IF r.returns /\ h.id # 0
           THEN /\ loop' = [loop EXCEPT ![Failover] = "reply"]
                /\ rsp' = [rsp EXCEPT ![Failover] = reply]
           ELSE UNCHANGED <<loop, rsp>>
    BY <2>1 DEF ReadAndHandle, clientVars, F, FQ
  <2> HIDE DEF h, t, r, reply
  <2> QED BY <1>2, <2>2, <2>3 DEF VInv, TInv, TypeOK, P, F, PL, FL, PQ, FQ
<1>4. /\ IsB(h) <=> h.id = 0
      /\ IsQ(h) <=> h.id # 0 /\ ~IsR(h)
      /\ IsR(h) => h.id # 0
  BY <1>2 DEF Packets, IsB, IsQ, IsR
<1>5. /\ HasR(FQ) <=> IsR(h) \/ HasR(t)
      /\ HasB(FQ) <=> IsB(h) \/ HasB(t)
      /\ EndsQ(FQ) <=> (t = << >> /\ IsQ(h)) \/ EndsQ(t)
      /\ HeadR(FQ) <=> IsR(h)
      /\ HeadR(t) <=> t # << >> /\ IsQ(h)
      /\ HeadR(t) => HasR(t)
      /\ HasR(t) \/ HasB(t) \/ EndsQ(t) => t # << >>
      /\ IsQ(h) /\ t # << >> => IsRequestReply(h.pdu, Head(t).pdu)
      /\ Shape(t)
      /\ t # << >> => LastOf(t) = LastOf(FQ)
      /\ t = << >> => LastOf(FQ) = h
  BY <1>1, <1>2, TailView, TailQueue DEF VInv, Lined, Types
<1>6. \/ h.id = 0 /\ r.returns /\ Forgets(F, r.conn)
      \/ h.id # 0 /\ r.returns /\ Notes(F, h.pdu, r.conn)
      \/ h.id # 0 /\ ~r.returns /\ ~F.isActive /\ Clears(F, h.pdu, r.conn)
      \/ h.id # 0 /\ r.returns /\ ~F.isActive /\ Counts(F, h.pdu, r.conn)
      \/ /\ h.id # 0 /\ ~r.returns /\ F.isActive /\ ~r.conn.isActive
         /\ r.conn.misses = 0 /\ r.conn.requestTime = "zero"
  BY <1>1, <1>2, FailoverReads DEF Types
<1>7. \/ h.id = 0 /\ Forgets(F, F') /\ FL' = "read"
      \/ h.id # 0 /\ Notes(F, h.pdu, F') /\ FL' = "reply"
      \/ h.id # 0 /\ ~F.isActive /\ Clears(F, h.pdu, F') /\ FL' = "read"
      \/ h.id # 0 /\ ~F.isActive /\ Counts(F, h.pdu, F') /\ FL' = "reply"
      \/ /\ h.id # 0 /\ F.isActive /\ ~F'.isActive /\ FL' = "read"
         /\ F'.misses = 0 /\ F'.requestTime = "zero"
  BY <1>3, <1>6
<1>8. IsQ(h) /\ t = << >> => IsRequestReply(asked.pdu, reply) /\ h.pdu = asked.pdu /\ Outstanding
  <2> SUFFICES ASSUME IsQ(h), t = << >>
               PROVE  IsRequestReply(asked.pdu, reply) /\ h.pdu = asked.pdu /\ Outstanding
    OBVIOUS
  <2>1. Outstanding /\ h.pdu = asked.pdu /\ asked \in Requests /\ asked.id # 0
    BY <1>5 DEF VInv, Lined, Bus
  <2>2. smem[Failover] \in Memories
    BY DEF VInv, TInv, Nodes
  <2>3. reply = Handle(smem[Failover], asked.pdu).reply
    BY <2>1
  <2> QED BY <2>1, <2>2, <2>3 DEF Deployment
<1> HIDE DEF h, t, r, reply
<1>9. /\ Outstanding' <=> Outstanding
      /\ Answering(P, PL)' <=> Answering(P, PL)
      /\ MayAnswer(P, PL, PQ)' <=> MayAnswer(P, PL, PQ)
      /\ ~Answering(F, FL)
      /\ MayAnswer(P, PL, PQ) => Outstanding
      /\ Outstanding => EndsQ(FQ)
  BY <1>2, <1>3 DEF VInv, Lined, Outstanding, Answering, MayAnswer
<1>10. Bus' /\ Lined(P, PL, PQ, rsp[Primary])'
  BY <1>3, <1>9 DEF VInv, Bus, Lined
<1>11. /\ PrimaryMissesMax \in Nat /\ FailoverMissesMax \in Nat
       /\ PrimaryMissesMax >= 1 /\ FailoverMissesMax >= PrimaryMissesMax + 2
       /\ P.misses \in Nat /\ P.misses <= PrimaryMissesMax + 1
       /\ F.misses \in Nat /\ MissesMax(F) = FailoverMissesMax
  BY <1>1, Bounds DEF Types, Fields, MissesMax
<1>12. /\ Lead' = Lead /\ Lead \in Int
       /\ P.misses + Lead >= 0 /\ P.misses + Lead <= PrimaryMissesMax + 1
       /\ MissesThen(P, PQ)' = MissesThen(P, PQ) /\ MissesNext(P, PQ)' = MissesNext(P, PQ)
       /\ MissesThen(P, PQ) \in Nat /\ MissesThen(P, PQ) >= P.misses
       /\ MissesNext(P, PQ) \in Nat /\ MissesNext(P, PQ) >= P.misses
       /\ MissesNext(P, PQ) + Lead >= 1
  BY <1>3, <1>11 DEF Lead, MissesThen, MissesNext, Pending
<1>13. ASSUME ~F'.isActive
       PROVE  /\ Lined(F, FL, FQ, rsp[Failover])'
              /\ Ready(P, PL, PQ, MayAnswer(F, FL, FQ))'
              /\ F'.misses <= FailoverMissesMax => Roles'
              /\ Yields'
  <2>1. ~Answering(F, FL)' /\ (MayAnswer(F, FL, FQ)' => MayAnswer(F, FL, FQ))
    BY <1>3, <1>5, <1>13 DEF Answering, MayAnswer
  <2>2. Lined(F, FL, FQ, rsp[Failover])'
    BY <1>3, <1>5, <1>7, <1>9, <1>13, <2>1 DEF VInv, Lined
  <2>3. Ready(P, PL, PQ, MayAnswer(F, FL, FQ))'
    BY <1>3, <2>1 DEF VInv, Ready
  <2>4. F'.misses <= FailoverMissesMax => Roles'
    BY <1>3, <1>5, <1>9, <1>13 DEF VInv, Roles
  <2>5. Yields'
    BY <1>13 DEF Yields
  <2> QED BY <2>2, <2>3, <2>4, <2>5
<1>14. CASE h.id = 0 /\ Forgets(F, F') /\ FL' = "read"
  <2>1. /\ F'.isActive = F.isActive /\ F'.misses = F.misses /\ F'.requestTime = "zero"
        /\ HasR(FQ') <=> HasR(FQ)
        /\ EndsQ(FQ') <=> EndsQ(FQ)
        /\ ~HeadR(FQ') /\ ~HeadR(FQ) /\ HasB(FQ)
        /\ FQ' = << >> => ~EndsQ(FQ)
    BY <1>3, <1>4, <1>5, <1>14 DEF Forgets
  <2>2. /\ ~Answering(F, FL)' /\ (MayAnswer(F, FL, FQ)' <=> MayAnswer(F, FL, FQ))
        /\ Coming' <=> Coming
        /\ Passive' <=> Passive
    BY <1>2, <1>3, <1>9, <1>14, <2>1 DEF Answering, MayAnswer, Coming, Passive
  <2>3. /\ MissesThen(F, FQ) = F.misses /\ MissesThen(F, FQ)' = F.misses
        /\ MissesNext(F, FQ)' = MissesNext(F, FQ)
    BY <1>11, <2>1 DEF MissesThen, MissesNext, Pending
  <2>4. Lined(F, FL, FQ, rsp[Failover])'
    BY <1>3, <1>5, <1>9, <1>14, <2>1, <2>2 DEF VInv, Lined
  <2>5. Ready(P, PL, PQ, MayAnswer(F, FL, FQ))'
    BY <1>3, <2>2 DEF VInv, Ready
  <2>6. Ready(F, FL, FQ, MayAnswer(P, PL, PQ))'
    BY <1>9, <2>1 DEF Ready
  <2>7. Roles'
    BY <1>3, <1>9, <2>1 DEF VInv, Roles
  <2>8. Patient'
    BY <1>2, <2>1, <2>2 DEF VInv, Patient
  <2>9. KeepsPace' /\ FreshFailover'
    BY <1>3, <1>9, <1>12, <2>1, <2>2, <2>3 DEF VInv, KeepsPace, FreshFailover
  <2>10. Yields'
    BY <1>3, <2>1, <2>2 DEF VInv, Yields
  <2> QED BY <1>10, <2>4, <2>5, <2>6, <2>7, <2>8, <2>9, <2>10 DEF VInv
\* An active failover takes the request that is outstanding.
<1>15. CASE h.id # 0 /\ F.isActive
  <2>1. /\ IsQ(h) /\ t = << >> /\ ~HasR(FQ') /\ ~HeadR(FQ') /\ ~EndsQ(FQ')
        /\ EndsQ(FQ) /\ Outstanding
    BY <1>3, <1>4, <1>5, <1>8, <1>15 DEF VInv, Roles
  <2>2. CASE Notes(F, h.pdu, F') /\ FL' = "reply"
    <3>1. /\ F'.isActive /\ Answering(F, FL)' /\ MayAnswer(F, FL, FQ)' /\ MayAnswer(F, FL, FQ)
          /\ rsp'[Failover] = reply
      BY <1>3, <1>15, <2>1, <2>2 DEF Notes, Answering, MayAnswer
    <3>2. Lined(F, FL, FQ, rsp[Failover])'
      BY <1>3, <1>5, <1>8, <1>9, <2>1, <2>2, <3>1 DEF Lined
    <3>3. Ready(P, PL, PQ, MayAnswer(F, FL, FQ))'
      BY <1>3, <3>1 DEF VInv, Ready
    <3>4. Ready(F, FL, FQ, MayAnswer(P, PL, PQ))'
      BY <3>1 DEF Ready
    <3>5. Roles' /\ Yields'
      BY <1>3, <1>9, <1>15, <2>1, <3>1 DEF VInv, Roles, Yields
    <3>6. Patient' /\ KeepsPace' /\ FreshFailover'
      BY <3>1 DEF Patient, KeepsPace, FreshFailover, Passive
    <3> QED BY <1>10, <3>2, <3>3, <3>4, <3>5, <3>6 DEF VInv
  <2>3. CASE ~F'.isActive /\ F'.misses = 0 /\ F'.requestTime = "zero"
    <3>1. MissesThen(F, FQ)' = 0 /\ MissesNext(F, FQ)' = 0
      BY <2>1, <2>3 DEF MissesThen, MissesNext, Pending
    <3>2. Ready(F, FL, FQ, MayAnswer(P, PL, PQ))' /\ Patient'
      BY <1>11, <2>3 DEF Ready, Patient
    <3>3. KeepsPace' /\ FreshFailover'
      BY <1>3, <1>11, <1>12, <2>1, <3>1 DEF KeepsPace, FreshFailover
    <3>4. Roles'
      BY <1>11, <1>13, <2>3
    <3> QED BY <1>10, <1>13, <2>3, <3>2, <3>3, <3>4 DEF VInv
  <2> QED BY <1>7, <1>15, <2>2, <2>3
\* A passive failover takes a reply: it knows the request, or has missed nothing.
<1>16. CASE ~F.isActive /\ IsR(h)
  <2>1. ~HeadR(FQ') /\ HeadR(FQ) /\ HasR(FQ) /\ Coming /\ (FQ' = << >> => ~Outstanding)
    BY <1>3, <1>4, <1>5, <1>9, <1>16 DEF Coming
  <2>2. /\ ~F'.isActive /\ F'.misses = 0
    <3>1. \/ F.requestTime = "zero" /\ F.misses = 0
          \/ F.requestTime = "recent" /\ IsRequestReply(F.reqPacket, h.pdu)
      BY <1>2, <1>16, <2>1 DEF VInv, Ready, h
    <3> QED BY <1>4, <1>7, <1>16, <3>1 DEF Notes, Clears, Counts
  <2>3. Ready(F, FL, FQ, MayAnswer(P, PL, PQ))' /\ Patient'
    BY <1>9, <1>11, <2>1, <2>2 DEF Ready, Patient
  <2>4. FreshFailover'
    BY <1>2, <1>3, <1>9, <1>16, <2>1 DEF VInv, FreshFailover, Passive
  <2>5. KeepsPace'
    <3> SUFFICES ASSUME PL # "down", ~Coming'
                 PROVE  /\ MissesThen(F, FQ)' <= MissesThen(P, PQ)' + Lead'
                        /\ MissesNext(F, FQ)' <= MissesNext(P, PQ)' + Lead'
                        /\ EndsQ(FQ') => F'.misses <= P'.misses + Lead'
      BY <1>3 DEF KeepsPace
    <3>1. P.isActive /\ ~P.disconnected
      BY <2>1 DEF VInv, Roles
    <3>2. ~EndsQ(PQ) /\ ~Answering(P, PL)
      BY <1>3, <1>9, <3>1 DEF Coming
    <3>3. ~Outstanding
      BY <3>1, <3>2 DEF VInv, Lined
    <3>4. ~EndsQ(FQ')
      BY <1>3, <1>5, <3>3 DEF VInv, Lined
    <3>5. /\ MissesThen(F, FQ)' = 0 /\ MissesNext(F, FQ)' \in {0, 1}
      BY <2>2, <3>4 DEF MissesThen, MissesNext
    <3> QED BY <1>11, <1>12, <3>4, <3>5
  <2>6. Roles'
    BY <1>11, <1>13, <2>2
  <2> QED BY <1>10, <1>13, <2>2, <2>3, <2>4, <2>5, <2>6 DEF VInv
\* A passive failover takes a request.
<1>17. CASE ~F.isActive /\ IsQ(h)
  <2>1. /\ ~HeadR(FQ) /\ Passive
        /\ HasR(FQ') <=> HasR(FQ)
        /\ FQ' = << >> \/ HeadR(FQ')
        /\ FQ' = << >> => FQ' = t /\ ~HasB(FQ) /\ EndsQ(FQ)
        /\ Coming' <=> Coming
        /\ ~Coming => FQ' = << >>
        /\ ~HasR(FQ) => FQ' = << >>
    BY <1>2, <1>3, <1>4, <1>5, <1>9, <1>17, EmptyQueue DEF Coming, Passive, HeadR, IsQ, IsB
  <2>2. Coming => F.misses # FailoverMissesMax
    BY <1>2, <2>1 DEF VInv, Patient
  <2>3. CASE Clears(F, h.pdu, F')
    <3>1. ~F'.isActive /\ F'.misses = 0 /\ F'.requestTime = "zero"
      BY <1>17, <2>3 DEF Clears
    <3>2. Ready(F, FL, FQ, MayAnswer(P, PL, PQ))' /\ Patient'
      BY <1>11, <3>1 DEF Ready, Patient
    <3>3. FQ' = << >> => MissesThen(F, FQ)' = 0 /\ MissesNext(F, FQ)' = 0 /\ ~EndsQ(FQ')
      BY <3>1, EmptyQueue DEF MissesThen, MissesNext, Pending
    <3>4. KeepsPace'
      BY <1>3, <1>11, <1>12, <2>1, <3>3 DEF KeepsPace
    <3>5. FreshFailover'
      BY <1>3, <1>9, <2>1, <3>3 DEF VInv, FreshFailover
    <3>6. Roles'
      BY <1>11, <1>13, <3>1
    <3> QED BY <1>10, <1>13, <3>1, <3>2, <3>4, <3>5, <3>6 DEF VInv
  <2>4. ASSUME ~F'.isActive, F'.requestTime = "recent", F'.reqPacket = h.pdu
        PROVE  Ready(F, FL, FQ, MayAnswer(P, PL, PQ))'
    BY <1>3, <1>5, <1>8, <1>17, <2>1, <2>4 DEF Ready
  <2>5. CASE Notes(F, h.pdu, F')
    <3>1. /\ ~F'.isActive /\ F'.misses = F.misses /\ F.requestTime = "zero"
          /\ F'.requestTime = "recent" /\ F'.reqPacket = h.pdu
      BY <1>17, <2>5 DEF Notes
    <3>2. FQ' = << >> => /\ MissesThen(F, FQ)' = MissesThen(F, FQ)
                         /\ MissesNext(F, FQ)' = MissesNext(F, FQ) /\ ~EndsQ(FQ')
      BY <1>11, <2>1, <3>1, EmptyQueue DEF MissesThen, MissesNext, Pending
    <3>3. Patient'
      BY <2>1 DEF Patient
    <3>4. KeepsPace'
      BY <1>3, <1>12, <2>1, <3>2 DEF VInv, KeepsPace
    <3>5. FreshFailover'
      BY <1>3, <1>9, <2>1, <3>2 DEF VInv, FreshFailover
    <3>6. Roles'
      BY <1>13, <1>17, <3>1 DEF VInv, Roles
    <3> QED BY <1>10, <1>13, <2>4, <3>1, <3>3, <3>4, <3>5, <3>6 DEF VInv
  <2>6. CASE Counts(F, h.pdu, F') /\ FL' = "reply"
    <3>1. F.misses <= FailoverMissesMax /\ F'.misses = F.misses + 1 /\ F.requestTime # "zero"
      BY <1>11, <1>17, <2>6 DEF VInv, Roles, Counts
    <3>2. FQ' = << >> => /\ MissesThen(F, FQ) = F.misses + 1
                         /\ MissesNext(F, FQ) = F.misses + 2
      BY <1>11, <2>1, <3>1 DEF MissesThen, MissesNext, Pending
    <3>3. CASE F.misses = FailoverMissesMax
      <4>1. ~Coming /\ FQ' = << >> /\ EndsQ(FQ) /\ Outstanding
        BY <1>8, <1>17, <2>1, <2>2, <3>3
      <4>2. PL = "down"
        BY <1>11, <1>12, <2>1, <3>3, <4>1 DEF VInv, KeepsPace
      <4>3. F'.isActive /\ Answering(F, FL)' /\ rsp'[Failover] = reply
        <5>1. F'.isActive
          BY <1>11, <2>6, <3>1, <3>3 DEF Counts
        <5> QED BY <1>3, <1>4, <1>17, <2>6, <5>1 DEF Answering
      <4>4. MayAnswer(F, FL, FQ)' /\ MayAnswer(F, FL, FQ) /\ ~HasR(FQ')
        BY <4>1, <4>3, EmptyQueue DEF MayAnswer
      <4>5. Lined(F, FL, FQ, rsp[Failover])'
        BY <1>3, <1>5, <1>8, <1>9, <1>17, <2>6, <4>1, <4>3, EmptyQueue DEF Lined
      <4>6. Ready(P, PL, PQ, MayAnswer(F, FL, FQ))'
        BY <1>3, <4>4 DEF VInv, Ready
      <4>7. Ready(F, FL, FQ, MayAnswer(P, PL, PQ))'
        BY <4>3 DEF Ready
      <4>8. Roles' /\ Yields'
        BY <1>3, <1>9, <4>2, <4>3, <4>4 DEF VInv, Roles, Yields
      <4>9. Patient' /\ KeepsPace' /\ FreshFailover'
        BY <4>3 DEF Patient, KeepsPace, FreshFailover, Passive
      <4> QED BY <1>10, <4>5, <4>6, <4>7, <4>8, <4>9 DEF VInv
    <3>4. CASE F.misses # FailoverMissesMax
      <4>1. /\ ~F'.isActive /\ F'.misses <= FailoverMissesMax
            /\ F'.requestTime = "recent" /\ F'.reqPacket = h.pdu
        BY <1>11, <1>17, <2>6, <3>1, <3>4 DEF Counts
      <4>2. FQ' = << >> => /\ MissesThen(F, FQ)' = F.misses + 1
                           /\ MissesNext(F, FQ)' = F.misses + 2 /\ ~EndsQ(FQ')
        BY <1>11, <3>1, <4>1, EmptyQueue DEF MissesThen, MissesNext, Pending
      <4>3. Patient'
        BY <2>1 DEF Patient
      <4>4. KeepsPace'
        BY <1>3, <1>12, <2>1, <3>2, <4>2 DEF VInv, KeepsPace
      <4>5. FreshFailover'
        BY <1>3, <1>9, <1>11, <2>1, <3>2 DEF VInv, FreshFailover
      <4> QED BY <1>10, <1>13, <2>4, <4>1, <4>3, <4>4, <4>5 DEF VInv
    <3> QED BY <3>3, <3>4
  <2> QED BY <1>4, <1>7, <1>17, <2>3, <2>5, <2>6
<1> QED BY <1>4, <1>7, <1>14, <1>15, <1>16, <1>17

\* A primary that has been cut off, or is passive, listens as a passive one.
Hears(c, h, r) ==
    /\ c.isActive \/ c.forceBack => c.disconnected
    /\ ~r.conn.forceBack
    /\ \E b : /\ ~b.isActive /\ b.misses = c.misses
              /\ b.requestTime = c.requestTime /\ b.reqPacket = c.reqPacket
              /\ MissesMax(b) = MissesMax(c)
              /\ \/ h.id = 0 /\ r.returns /\ Forgets(b, r.conn)
                 \/ h.id # 0 /\ r.returns /\ Notes(b, h.pdu, r.conn)
                 \/ h.id # 0 /\ ~r.returns /\ Clears(b, h.pdu, r.conn)
                 \/ h.id # 0 /\ r.returns /\ Counts(b, h.pdu, r.conn) /\ ~r.conn.disconnected

Answers(c, d) ==
    /\ ~c.disconnected
    /\ c.isActive \/ c.forceBack
    /\ d.isActive /\ ~d.disconnected /\ d.misses = c.misses /\ d.requestTime = c.requestTime

\* What a primary makes of a packet.
LEMMA PrimaryReads ==
    ASSUME NEW c, ConnOK(c), ~c.isFailover, NEW h \in Packets
    PROVE  LET r == serverRead(c, h)
           IN  (r.returns /\ Answers(c, r.conn)) \/ Hears(c, h, r)
<1> DEFINE r == serverRead(c, h)
<1>1. \/ PrimaryAnswers(c, r)
      \/ \E b : Listens(c, b) /\ r = IF h.id = 0 THEN Returns(resetRequestTime(b))
                                     ELSE PassiveRead(b, h.pdu)
  BY PrimaryRead
<1> HIDE DEF r
<1>2. CASE PrimaryAnswers(c, r)
  <2>1. /\ ~c.disconnected /\ r.returns
        /\ c.isActive \/ c.forceBack
        /\ r.conn = [c EXCEPT !.isActive = TRUE, !.disconnected = FALSE] /\ c \in Conns
    BY <1>2 DEF PrimaryAnswers, ConnOK
  <2> QED BY <2>1 DEF Answers, Conns, r
<1>3. ASSUME NEW b, Listens(c, b),
             r = IF h.id = 0 THEN Returns(resetRequestTime(b)) ELSE PassiveRead(b, h.pdu)
      PROVE  Hears(c, h, r)
  <2>1. /\ ConnOK(b) /\ b.isActive = FALSE /\ b.isFailover = c.isFailover
        /\ b.misses = c.misses /\ b.requestTime = c.requestTime
        /\ b.reqPacket = c.reqPacket
        /\ b.forceBack => c.forceBack
        /\ c.isActive \/ c.forceBack => c.disconnected /\ ~b.forceBack
    BY <1>3 DEF Listens
  <2>2. MissesMax(b) = MissesMax(c)
    BY <2>1 DEF MissesMax
  <2>3. /\ \/ h.id = 0 /\ r.returns /\ Forgets(b, r.conn) /\ ~r.conn.disconnected
           \/ h.id # 0 /\ r.returns /\ Notes(b, h.pdu, r.conn) /\ ~r.conn.disconnected
           \/ h.id # 0 /\ ~r.returns /\ Clears(b, h.pdu, r.conn)
           \/ h.id # 0 /\ r.returns /\ Counts(b, h.pdu, r.conn) /\ ~r.conn.disconnected
        /\ r.conn.forceBack = b.forceBack
    BY <1>3, <2>1, PassiveReads
  <2>4. /\ c.isActive \/ c.forceBack => c.disconnected
        /\ ~r.conn.forceBack /\ ~b.isActive
    BY <2>1, <2>3
  <2> QED BY <2>1, <2>2, <2>3, <2>4, Zenon DEF Hears
<1> QED BY <1>1, <1>2, <1>3 DEF r

\* The primary reads a packet: the step that may make it active.
LEMMA ReadPrimaryVoice ==
    ASSUME Deployment, VInv, ReadAndHandle(Primary), TInv' PROVE VInv'
<1> DEFINE h == Head(PQ)
           t == Tail(PQ)
           r == serverRead(P, h)
           reply == Handle(smem[Primary], h.pdu).reply
<1>1. Types /\ Types' /\ ConnOK(P)
  BY HasTypes, HasTypesNext, ConnType DEF VInv, TInv, P, Nodes
<1>2. PL = "read" /\ PQ # << >> /\ h \in Packets
  <2>1. PL = "read" /\ PQ # << >>
    BY DEF ReadAndHandle, PL, PQ
  <2> QED BY <1>1, <2>1, TailQueue DEF Types
<1>3. /\ UNCHANGED <<client, in, asked, voices>>
      /\ F' = F /\ FL' = FL /\ FQ' = FQ /\ rsp'[Failover] = rsp[Failover]
      /\ P' = r.conn /\ PQ' = t
      /\ IF r.returns /\ h.id # 0 THEN PL' = "reply" /\ rsp'[Primary] = reply
         ELSE PL' = "read"
  <2>1. /\ GetPDU(h).err = NoErr /\ h.id \in {0, SlaveID}
    BY <1>2, HeardPDU, HeardId
  <2>2. Primary # Failover /\ Primary \in Nodes /\ Failover \in Nodes
    BY DEF Nodes, Primary, Failover
  <2>3. /\ UNCHANGED <<client, in, asked, voices>>
        /\ conn' = [conn EXCEPT ![Primary] = r.conn]
        /\ inbox' = [inbox EXCEPT ![Primary] = t]
        /\ IF r.returns /\ h.id # 0
           THEN /\ loop' = [loop EXCEPT ![Primary] = "reply"]
                /\ rsp' = [rsp EXCEPT ![Primary] = reply]
           ELSE UNCHANGED <<loop, rsp>>
    BY <2>1 DEF ReadAndHandle, clientVars, P, PQ
  <2> HIDE DEF h, t, r, reply
  <2> QED BY <1>2, <2>2, <2>3 DEF VInv, TInv, TypeOK, P, F, PL, FL, PQ, FQ
<1>4. /\ IsB(h) <=> h.id = 0
      /\ IsQ(h) <=> h.id # 0 /\ ~IsR(h)
      /\ IsR(h) => h.id # 0
  BY <1>2 DEF Packets, IsB, IsQ, IsR
<1>5. /\ HasR(PQ) <=> IsR(h)
      /\ HasB(PQ) <=> IsB(h) \/ HasB(t)
      /\ EndsQ(PQ) <=> (t = << >> /\ IsQ(h)) \/ EndsQ(t)
      /\ HeadR(PQ) <=> IsR(h)
      /\ IsQ(h) => t = << >>
      /\ ~HeadR(t) /\ ~HasR(t) /\ ~TailR(t)
      /\ HasB(t) \/ EndsQ(t) => t # << >>
      /\ Shape(t)
      /\ t # << >> => LastOf(t) = LastOf(PQ)
      /\ t = << >> => LastOf(PQ) = h
  BY <1>1, <1>2, TailView, TailQueue DEF VInv, Lined, Roles, Types
<1>6. (r.returns /\ Answers(P, r.conn)) \/ Hears(P, h, r)
  BY <1>1, <1>2, PrimaryReads DEF Types
<1>7. IsQ(h) => IsRequestReply(asked.pdu, reply) /\ h.pdu = asked.pdu /\ Outstanding
  <2> SUFFICES ASSUME IsQ(h)
               PROVE  IsRequestReply(asked.pdu, reply) /\ h.pdu = asked.pdu /\ Outstanding
    OBVIOUS
  <2>1. Outstanding /\ h.pdu = asked.pdu /\ asked \in Requests /\ asked.id # 0
    BY <1>5 DEF VInv, Lined, Bus
  <2>2. smem[Primary] \in Memories
    BY DEF VInv, TInv, Nodes
  <2>3. reply = Handle(smem[Primary], asked.pdu).reply
    BY <2>1
  <2> QED BY <2>1, <2>2, <2>3 DEF Deployment
<1> HIDE DEF h, t, r, reply
<1>8. /\ Outstanding' <=> Outstanding
      /\ Answering(F, FL)' <=> Answering(F, FL)
      /\ MayAnswer(F, FL, FQ)' <=> MayAnswer(F, FL, FQ)
      /\ ~Answering(P, PL)
      /\ MayAnswer(F, FL, FQ) => Outstanding
      /\ Outstanding => EndsQ(PQ)
      /\ Passive' <=> Passive
  BY <1>2, <1>3 DEF VInv, Lined, Outstanding, Answering, MayAnswer, Passive
<1>9. Bus' /\ Lined(F, FL, FQ, rsp[Failover])'
  BY <1>3, <1>8 DEF VInv, Bus, Lined
<1>10. /\ PrimaryMissesMax \in Nat /\ FailoverMissesMax \in Nat
       /\ PrimaryMissesMax >= 1 /\ FailoverMissesMax >= PrimaryMissesMax + 2
       /\ P.misses \in Nat /\ P.misses <= PrimaryMissesMax + 1
       /\ F.misses \in Nat /\ MissesMax(P) = PrimaryMissesMax
  BY <1>1, Bounds DEF Types, Fields, MissesMax
<1>11. /\ Lead \in Int /\ P.misses + Lead >= 0 /\ P.misses + Lead <= PrimaryMissesMax + 1
       /\ MissesThen(F, FQ)' = MissesThen(F, FQ) /\ MissesNext(F, FQ)' = MissesNext(F, FQ)
       /\ MissesThen(F, FQ) \in Nat /\ MissesThen(F, FQ) >= F.misses
       /\ MissesNext(F, FQ) \in Nat /\ MissesNext(F, FQ) >= F.misses
  BY <1>3, <1>10 DEF Lead, MissesThen, MissesNext, Pending
\* The primary is active, or forced back, and the failover is passive.
<1>12. CASE r.returns /\ Answers(P, r.conn)
  <2>1. /\ ~P.disconnected /\ P'.isActive /\ ~P'.disconnected
        /\ P'.misses = P.misses /\ P'.requestTime = P.requestTime
        /\ P.isActive \/ P.forceBack
    BY <1>3, <1>12 DEF Answers
  <2>2. /\ ~IsR(h) /\ ~F.isActive /\ Lead' = Lead
        /\ ~P.isActive => ~HasR(FQ) /\ ~Coming
        /\ ~P.isActive /\ Passive /\ EndsQ(FQ) => F.misses # FailoverMissesMax
    <3>1. /\ ~IsR(h) /\ ~F.isActive
          /\ ~P.isActive => ~HasR(FQ)
      BY <1>2, <1>5, <2>1 DEF VInv, Roles, Yields
    <3>2. ~P.isActive => ~Coming
      BY <1>8, <3>1 DEF Coming
    <3>3. ~P.isActive /\ Passive /\ EndsQ(FQ) => F.misses <= P.misses + Lead
      BY <1>2, <3>2 DEF VInv, KeepsPace
    <3> QED BY <1>10, <1>11, <2>1, <3>1, <3>2, <3>3 DEF Lead
  <2>3. Ready(P, PL, PQ, MayAnswer(F, FL, FQ))' /\ Yields'
    BY <1>3, <2>1, <2>2 DEF Ready, Yields
  <2>4. CASE IsQ(h)
    <3>1. /\ Answering(P, PL)' /\ MayAnswer(P, PL, PQ)' /\ MayAnswer(P, PL, PQ)
          /\ rsp'[Primary] = reply /\ PL' = "reply" /\ PQ' = << >> /\ Coming'
      BY <1>3, <1>4, <1>5, <1>12, <2>1, <2>4 DEF Answering, MayAnswer, Coming
    <3>2. Lined(P, PL, PQ, rsp[Primary])'
      BY <1>3, <1>5, <1>7, <1>8, <2>4, <3>1 DEF Lined
    <3>3. Ready(F, FL, FQ, MayAnswer(P, PL, PQ))'
      BY <1>3, <3>1 DEF VInv, Ready
    <3>4. Roles'
      BY <1>3, <1>5, <2>1, <2>2 DEF VInv, Roles
    <3>5. Patient'
      <4>1. Outstanding => FQ = << >> \/ EndsQ(FQ)
        BY DEF VInv, Lined
      <4>2. P.isActive => Coming
        BY <1>5, <2>1, <2>4 DEF Coming
      <4> QED BY <1>3, <1>7, <1>8, <2>2, <2>4, <4>1, <4>2 DEF VInv, Patient
    <3>6. KeepsPace' /\ FreshFailover'
      BY <1>3, <1>5, <1>7, <1>8, <2>4, <3>1 DEF KeepsPace, FreshFailover
    <3> QED BY <1>9, <2>3, <3>2, <3>3, <3>4, <3>5, <3>6 DEF VInv
  <2>5. CASE IsB(h)
    <3>1. /\ PL' = "read" /\ ~Answering(P, PL)' /\ (EndsQ(PQ') <=> EndsQ(PQ))
          /\ MayAnswer(P, PL, PQ)' <=> MayAnswer(P, PL, PQ)
          /\ HasB(PQ) /\ ~HasR(PQ) /\ ~HasR(PQ')
      BY <1>2, <1>3, <1>4, <1>5, <1>8, <2>2, <2>5 DEF Answering, MayAnswer
    <3>2. Lined(P, PL, PQ, rsp[Primary])'
      BY <1>3, <1>5, <1>8, <3>1 DEF VInv, Lined
    <3>3. Ready(F, FL, FQ, MayAnswer(P, PL, PQ))'
      BY <1>3, <3>1 DEF VInv, Ready
    <3>4. Roles'
      BY <1>3, <1>5, <2>1, <2>2 DEF VInv, Roles
    <3>5. /\ MissesThen(P, PQ) = P.misses /\ MissesThen(P, PQ)' >= P.misses
          /\ MissesThen(P, PQ)' \in Nat /\ MissesNext(P, PQ)' \in Nat
          /\ MissesNext(P, PQ)' >= MissesNext(P, PQ) /\ MissesNext(P, PQ) \in Nat
      BY <1>10, <2>1, <3>1 DEF MissesThen, MissesNext, Pending
    <3>6. P.isActive => (Coming' <=> Coming)
      BY <1>3, <1>8, <2>1, <3>1 DEF Coming
    <3>7. Patient'
      <4>1. ~P.isActive /\ Passive => F.misses <= P.misses + Lead
        BY <1>2, <1>10, <1>11, <2>2, <3>5 DEF VInv, KeepsPace
      <4> QED BY <1>3, <1>8, <1>10, <1>11, <3>6, <4>1 DEF VInv, Patient
    <3>8. KeepsPace'
      <4>1. ~Coming' => ~Coming
        BY <2>2, <3>6
      <4>2. Passive' /\ ~Coming' =>
               /\ MissesThen(F, FQ) <= P.misses + Lead
               /\ MissesNext(F, FQ) <= MissesNext(P, PQ) + Lead
               /\ EndsQ(FQ) => F.misses <= P.misses + Lead
        BY <1>2, <1>8, <3>5, <4>1 DEF VInv, KeepsPace
      <4> QED BY <1>3, <1>10, <1>11, <2>1, <2>2, <3>5, <4>2 DEF KeepsPace
    <3>9. FreshFailover'
      BY <1>2, <1>3, <1>8, <1>11, <2>1, <3>1 DEF VInv, FreshFailover
    <3> QED BY <1>9, <2>3, <3>2, <3>3, <3>4, <3>7, <3>8, <3>9 DEF VInv
  <2> QED BY <1>4, <2>2, <2>4, <2>5
<1>13. CASE Hears(P, h, r)
  <2>1. /\ P.isActive \/ P.forceBack => P.disconnected
        /\ ~P'.forceBack
    BY <1>3, <1>13 DEF Hears
  <2>2. PICK b : /\ ~b.isActive /\ b.misses = P.misses
                 /\ b.requestTime = P.requestTime /\ b.reqPacket = P.reqPacket
                 /\ MissesMax(b) = PrimaryMissesMax
                 /\ \/ h.id = 0 /\ r.returns /\ Forgets(b, r.conn)
                    \/ h.id # 0 /\ r.returns /\ Notes(b, h.pdu, r.conn)
                    \/ h.id # 0 /\ ~r.returns /\ Clears(b, h.pdu, r.conn)
                    \/ h.id # 0 /\ r.returns /\ Counts(b, h.pdu, r.conn) /\ ~r.conn.disconnected
    BY <1>10, <1>13 DEF Hears
  <2>3. \/ h.id = 0 /\ PL' = "read" /\ Forgets(b, P')
        \/ h.id # 0 /\ PL' = "reply" /\ Notes(b, h.pdu, P')
        \/ h.id # 0 /\ PL' = "read" /\ Clears(b, h.pdu, P')
        \/ /\ h.id # 0 /\ PL' = "reply" /\ Counts(b, h.pdu, P') /\ ~P'.disconnected
           /\ rsp'[Primary] = reply
    BY <1>3, <2>2
  <2>4. /\ ~HasR(FQ) /\ ~Coming /\ PL' # "down"
        /\ P.misses = 1 /\ F.isActive => IsR(h)
    <3>1. ~HasR(FQ)
      BY <1>2, <2>1 DEF VInv, Roles
    <3> QED BY <1>2, <1>5, <1>8, <2>1, <2>3, <3>1 DEF VInv, Yields, Coming
  <2>5. ASSUME ~P'.isActive
        PROVE  /\ Lined(P, PL, PQ, rsp[Primary])' /\ Ready(F, FL, FQ, MayAnswer(P, PL, PQ))'
               /\ Roles' /\ Patient' /\ ~Coming'
    <3>1. ~Answering(P, PL)' /\ (MayAnswer(P, PL, PQ)' => MayAnswer(P, PL, PQ))
      BY <1>3, <1>5, <2>5 DEF Answering, MayAnswer
    <3>2. Lined(P, PL, PQ, rsp[Primary])'
      BY <1>3, <1>5, <1>8, <2>4, <2>5, <3>1 DEF VInv, Lined
    <3>3. Ready(F, FL, FQ, MayAnswer(P, PL, PQ))'
      BY <1>3, <3>1 DEF VInv, Ready
    <3>4. Roles'
      BY <1>3, <1>5, <2>1, <2>4, <2>5, <3>1 DEF VInv, Roles
    <3>5. ~Coming'
      BY <1>3, <2>4, <2>5, <3>1 DEF Coming
    <3> QED BY <3>2, <3>3, <3>4, <3>5 DEF Patient
  <2>6. CASE IsB(h)
    <3>1. /\ ~P'.isActive /\ P'.misses = P.misses /\ P'.requestTime = "zero"
      BY <1>4, <2>2, <2>3, <2>6 DEF Forgets
    <3>2. (EndsQ(PQ') <=> EndsQ(PQ)) /\ ~HeadR(PQ') /\ (PQ' = << >> => ~Outstanding) /\ HasB(PQ)
      BY <1>3, <1>4, <1>5, <1>8, <2>6
    <3>3. Ready(P, PL, PQ, MayAnswer(F, FL, FQ))'
      BY <1>8, <3>2 DEF Ready
    <3>4. /\ MissesThen(P, PQ) = P.misses /\ MissesThen(P, PQ)' = P.misses
          /\ MissesNext(P, PQ)' = MissesNext(P, PQ) /\ Lead' = Lead
      BY <1>10, <3>1, <3>2 DEF MissesThen, MissesNext, Pending, Lead
    <3>5. KeepsPace'
      BY <1>2, <1>3, <1>8, <1>11, <2>4, <3>1, <3>4 DEF VInv, KeepsPace
    <3>6. FreshFailover'
      BY <1>3, <1>5, <3>1 DEF FreshFailover
    <3>7. Yields'
      BY <1>2, <1>3, <1>4, <1>10, <2>1, <2>4, <2>6, <3>1 DEF VInv, Yields
    <3> QED BY <1>9, <2>5, <3>1, <3>3, <3>5, <3>6, <3>7 DEF VInv
  <2>7. CASE IsR(h)
    <3>1. ~P.isActive /\ ~P.forceBack /\ HasR(PQ) /\ HeadR(PQ)
      BY <1>5, <2>7 DEF VInv, Roles
    <3>2. ~P'.isActive /\ P'.misses = 0
      <4>1. \/ P.requestTime = "zero" /\ P.misses = 0
            \/ P.requestTime = "recent" /\ IsRequestReply(P.reqPacket, h.pdu)
        BY <1>2, <3>1 DEF VInv, Ready, h
      <4> QED BY <1>4, <2>2, <2>3, <2>7, <4>1 DEF Notes, Clears, Counts
    <3>3. ~HeadR(PQ') /\ (PQ' = << >> => ~Outstanding)
      BY <1>3, <1>4, <1>5, <1>8, <2>7
    <3>4. Ready(P, PL, PQ, MayAnswer(F, FL, FQ))'
      BY <1>8, <3>3 DEF Ready
    <3>5. /\ MissesThen(P, PQ)' \in Nat /\ MissesNext(P, PQ)' \in Nat /\ Lead' = 1
      BY <1>10, <3>2 DEF MissesThen, MissesNext, Lead
    <3>6. Passive => /\ MissesThen(F, FQ) <= MissesNext(F, FQ) /\ MissesNext(F, FQ) <= 1
                     /\ ~Outstanding => MissesNext(F, FQ) = 0
                     /\ Outstanding => MissesThen(F, FQ) = 0
      <4>1. MissesThen(F, FQ) <= MissesNext(F, FQ)
        BY <1>10 DEF MissesThen, MissesNext
      <4> QED BY <1>2, <3>1, <4>1 DEF VInv, FreshFailover
    <3>7. KeepsPace'
      BY <1>3, <1>8, <1>10, <1>11, <3>2, <3>5, <3>6 DEF KeepsPace
    <3>8. FreshFailover'
      BY <1>3, <1>8, <1>11, <2>4, <3>6 DEF FreshFailover
    <3>9. Yields'
      BY <2>1, <3>2 DEF Yields
    <3> QED BY <1>9, <2>5, <3>2, <3>4, <3>7, <3>8, <3>9 DEF VInv
  <2>8. CASE IsQ(h)
    <3>1. /\ PQ' = << >> /\ Outstanding /\ EndsQ(PQ) /\ ~HasB(PQ) /\ h.pdu = asked.pdu
          /\ ~EndsQ(PQ') /\ ~HasR(PQ') /\ ~HasB(PQ') /\ ~HeadR(PQ')
          /\ IsRequestReply(asked.pdu, reply)
      BY <1>3, <1>4, <1>5, <1>7, <2>8, EmptyQueue DEF IsQ, IsB
    <3>2. FreshFailover'
      BY <1>3, <1>8, <3>1 DEF FreshFailover
    <3>3. F.isActive => P.misses = 0 /\ MayAnswer(F, FL, FQ)
      BY <1>2, <1>4, <1>10, <2>4, <2>8, <3>1 DEF VInv, Yields, Lined, MayAnswer
    <3>4. ASSUME ~P'.isActive, P'.requestTime = "recent", P'.reqPacket = h.pdu
          PROVE  Ready(P, PL, PQ, MayAnswer(F, FL, FQ))'
      BY <1>3, <3>1, <3>4 DEF Ready
    <3>5. CASE Notes(b, h.pdu, P')
      <4>1. /\ ~P'.isActive /\ P'.misses = P.misses /\ P.requestTime = "zero"
            /\ P'.requestTime = "recent" /\ P'.reqPacket = h.pdu
        BY <2>2, <3>5 DEF Notes
      <4>2. /\ MissesThen(P, PQ)' = MissesThen(P, PQ) /\ MissesNext(P, PQ)' = MissesNext(P, PQ)
            /\ Lead' = Lead
        BY <1>10, <3>1, <4>1 DEF MissesThen, MissesNext, Pending, Lead
      <4>3. KeepsPace'
        BY <1>2, <1>3, <1>8, <1>11, <2>4, <4>1, <4>2 DEF VInv, KeepsPace
      <4>4. Yields'
        BY <1>3, <2>1, <3>3, <4>1 DEF Yields
      <4> QED BY <1>9, <2>5, <3>2, <3>4, <4>1, <4>3, <4>4 DEF VInv
    <3>6. CASE Clears(b, h.pdu, P')
      <4>1. /\ ~P'.isActive /\ P'.misses = 0 /\ P'.requestTime = "zero"
            /\ P.requestTime = "recent"
        BY <2>2, <3>6 DEF Clears
      <4>2. /\ MissesThen(P, PQ)' = 0 /\ MissesNext(P, PQ)' = 0 /\ Lead' = 1
        BY <1>10, <3>1, <4>1 DEF MissesThen, MissesNext, Pending, Lead
      <4>3. Passive => MissesThen(F, FQ) = 0 /\ MissesNext(F, FQ) <= 1
        BY <1>2, <3>1, <4>1 DEF VInv, FreshFailover
      <4>4. KeepsPace'
        BY <1>3, <1>8, <1>10, <1>11, <4>1, <4>2, <4>3 DEF KeepsPace
      <4>5. Yields' /\ Ready(P, PL, PQ, MayAnswer(F, FL, FQ))'
        BY <2>1, <4>1 DEF Yields, Ready
      <4> QED BY <1>9, <2>5, <3>2, <4>1, <4>4, <4>5 DEF VInv
    <3>7. CASE Counts(b, h.pdu, P') /\ ~P'.disconnected /\ PL' = "reply" /\ rsp'[Primary] = reply
      <4>1. /\ P.requestTime # "zero"
            /\ P'.misses = IF P.misses > PrimaryMissesMax THEN P.misses ELSE P.misses + 1
            /\ P'.misses > PrimaryMissesMax => P'.isActive
            /\ P'.misses <= PrimaryMissesMax =>
                  ~P'.isActive /\ P'.requestTime = "recent" /\ P'.reqPacket = h.pdu
        BY <2>2, <3>7 DEF Counts
      <4>2. CASE P'.misses > PrimaryMissesMax
        <5>1. /\ P'.isActive /\ Answering(P, PL)' /\ MayAnswer(P, PL, PQ)' /\ Coming'
              /\ MayAnswer(P, PL, PQ)
          BY <3>1, <3>7, <4>1, <4>2 DEF Answering, MayAnswer, Coming
        <5>2. ~F.isActive
          BY <1>10, <3>3, <4>1, <4>2
        <5>3. Lined(P, PL, PQ, rsp[Primary])'
          BY <1>3, <1>5, <1>8, <3>1, <3>7, <5>1 DEF Lined
        <5>4. Ready(P, PL, PQ, MayAnswer(F, FL, FQ))' /\ Yields'
          BY <1>3, <5>1, <5>2 DEF Ready, Yields
        <5>5. Ready(F, FL, FQ, MayAnswer(P, PL, PQ))'
          BY <1>3, <5>1 DEF VInv, Ready
        <5>6. Roles'
          BY <1>3, <1>5, <2>4, <3>1, <3>7, <5>2 DEF VInv, Roles
        <5>7. Patient'
          <6>1. FQ = << >> \/ EndsQ(FQ)
            BY <3>1 DEF VInv, Lined
          <6>2. Passive /\ EndsQ(FQ) => F.misses <= P.misses + Lead
            BY <1>2, <2>4 DEF VInv, KeepsPace
          <6> QED BY <1>3, <1>8, <1>10, <1>11, <6>1, <6>2 DEF Patient
        <5>8. KeepsPace'
          BY <5>1 DEF KeepsPace
        <5> QED BY <1>9, <3>2, <5>3, <5>4, <5>5, <5>6, <5>7, <5>8 DEF VInv
      <4>3. CASE ~(P'.misses > PrimaryMissesMax)
        <5>1. /\ ~P'.isActive /\ P'.misses = P.misses + 1 /\ P'.misses <= PrimaryMissesMax
              /\ P'.requestTime = "recent" /\ P'.reqPacket = h.pdu
          BY <1>10, <4>1, <4>3
        <5>2. /\ MissesThen(P, PQ)' = MissesThen(P, PQ) /\ MissesNext(P, PQ)' = MissesNext(P, PQ)
              /\ Lead' = Lead
          BY <1>10, <3>1, <4>1, <5>1 DEF MissesThen, MissesNext, Pending, Lead
        <5>3. KeepsPace'
          BY <1>2, <1>3, <1>8, <1>10, <1>11, <2>4, <5>1, <5>2 DEF VInv, KeepsPace
        <5>4. Yields'
          BY <1>3, <1>8, <2>1, <3>1, <3>3, <5>1 DEF Yields
        <5> QED BY <1>9, <2>5, <3>2, <3>4, <5>1, <5>3, <5>4 DEF VInv
      <4> QED BY <4>2, <4>3
    <3> QED BY <1>4, <2>3, <2>8, <3>5, <3>6, <3>7
  <2> QED BY <1>4, <2>6, <2>7, <2>8
<1> QED BY <1>6, <1>12, <1>13

-------------------------------------------------------------------------------
(***************************************************************************)
(* The theorem.                                                            *)
(***************************************************************************)
LEMMA VNext == ASSUME Deployment, VInv, [Next]_vars PROVE VInv'
<1>1. TInv'
  BY NextTInv DEF VInv
<1>2. ASSUME NEW f \in Requests, Send(f) PROVE VInv'
  BY <1>1, <1>2, SendVoice
<1>3. CASE Receive
  BY <1>1, <1>3, ReceiveVoice
<1>4. CASE GiveUp \/ Rest
  BY <1>1, <1>4, TimeVoice
<1>5. CASE ForceBack
  BY <1>1, <1>5, ForceBackVoice
<1>6. ASSUME NEW s \in Nodes, ServerStep(s) PROVE VInv'
  <2>1. CASE ReadAndHandle(s)
    BY <1>1, <2>1, ReadPrimaryVoice, ReadFailoverVoice DEF Nodes
  <2>2. CASE Sleep(s)
    BY <1>1, <2>2, SleepVoice
  <2>3. CASE Write(s) \/ WakeUp(s)
    <3>1. /\ WriteNow(s) /\ loop[s] \in {"reply", "sleep"}
          /\ loop[s] = "sleep" => PQ = << >>
          /\ loop[s] = "reply" => ~(conn[s].isActive /\ conn[s].isFailover)
      BY <2>3 DEF Write, WakeUp, SleepsBeforeWrite, PQ
    <3>2. CASE ~conn[s].isActive
      BY <1>1, <3>1, <3>2, DroppedVoice
    <3>3. CASE conn[s].isActive /\ s = Primary
      <4>1. loop[Primary] # "sleep"
        BY DEF VInv, TInv, TypeOK
      <4> QED BY <1>1, <3>1, <3>3, <4>1, PrimaryVoice DEF P, PL
    <3>4. CASE conn[s].isActive /\ s = Failover
      <4>1. conn[Failover].isFailover
        BY DEF VInv, TInv, TypeOK, Nodes
      <4> QED BY <1>1, <3>1, <3>4, <4>1, FailoverVoice DEF F, FL
    <3> QED BY <3>2, <3>3, <3>4 DEF Nodes
  <2> QED BY <1>6, <2>1, <2>2, <2>3 DEF ServerStep
<1>7. ASSUME NEW s \in Nodes, Stop(s) PROVE VInv'
  BY <1>1, <1>7, StopPrimaryVoice, StopFailoverVoice DEF Nodes
<1>8. ASSUME NEW s \in Nodes, Start(s) PROVE VInv'
  BY <1>1, <1>8, StartPrimaryVoice, StartFailoverVoice DEF Nodes
<1>9. CASE UNCHANGED vars
  <2>1. /\ UNCHANGED <<client, in, asked, voices>>
        /\ P' = P /\ F' = F /\ PL' = PL /\ FL' = FL /\ PQ' = PQ /\ FQ' = FQ /\ rsp' = rsp
    BY <1>9 DEF vars, P, F, PL, FL, PQ, FQ
  <2>2. Outstanding' <=> Outstanding
    BY <2>1 DEF Outstanding
  <2>3. Bus' /\ Lined(P, PL, PQ, rsp[Primary])' /\ Lined(F, FL, FQ, rsp[Failover])'
    BY <2>1, <2>2 DEF VInv, Bus, Lined
  <2>4. Ready(P, PL, PQ, MayAnswer(F, FL, FQ))' /\ Ready(F, FL, FQ, MayAnswer(P, PL, PQ))'
    BY <2>1 DEF VInv, Ready, MayAnswer
  <2>5. Roles' /\ Patient' /\ KeepsPace' /\ FreshFailover' /\ Yields'
    BY <2>1, <2>2 DEF VInv, Roles, Patient, KeepsPace, FreshFailover, Yields, Coming, Passive, Lead
  <2> QED BY <1>1, <2>3, <2>4, <2>5 DEF VInv
<1> QED BY <1>2, <1>3, <1>4, <1>5, <1>6, <1>7, <1>8, <1>9 DEF Next

\* The failover of failover.go stays quiet until the primary fails, as long as the
\* primary is not started while the failover counts misses, nor forced back beside
\* an active failover (failover.go:115 asks the clock only), and the application
\* serves every request: in such a Deployment never do both servers answer one
\* request and never are both active, however often either stops, and however far
\* the two are behind in reading.
THEOREM NeverTwoVoices == ASSUME Deployment PROVE Spec => []OneVoice
<1>1. VInv => OneVoice
  <2> SUFFICES ASSUME VInv PROVE OneVoice
    OBVIOUS
  <2>1. voices # Nodes
    BY DEF VInv, Bus
  <2>2. ~P.isActive \/ ~F.isActive
    BY DEF VInv, Lined, Yields
  <2> QED BY <2>1, <2>2 DEF OneVoice, OneReply, Nodes, P, F
<1>2. VInv /\ [Next]_vars => VInv'
  BY VNext
<1> QED BY <1>1, <1>2, VInit, PTL DEF Spec

-------------------------------------------------------------------------------
(***************************************************************************)
(* The standby stays in sync for a hot switch over: a proof of             *)
(* StandbyInSync of FailoverServers.  What a server has heard and not yet  *)
(* read leads from its memory to that of a server that never stopped.      *)
(***************************************************************************)
\* What a packet does to the memory of a server that reads it in order.
Executed(m, f) == IF IsR(f) THEN m ELSE Handle(m, f.pdu).mem

\* There are memories m[1], m[2]... that lead from a to b through the packets of q.
Replays(a, q, b) ==
    \E m \in [1..(Len(q) + 1) -> Memories] :
       /\ m[1] = a /\ m[Len(q) + 1] = b
       /\ \A i \in 1..Len(q) : m[i + 1] = Executed(m[i], q[i])

\* An execution leads to a memory.
LEMMA ExecutedType ==
    ASSUME NEW m \in Memories, NEW f \in Packets PROVE Executed(m, f) \in Memories
BY HeardPDU, FailoverAssumption DEF Executed

\* Without packets nothing changes.
LEMMA ReplaysNothing ==
    ASSUME NEW a \in Memories, NEW b
    PROVE  Replays(a, << >>, b) <=> a = b
<1> DEFINE m == [i \in 1..1 |-> a]
<1>1. Len(<< >>) = 0 /\ 0 + 1 = 1
  OBVIOUS
<1>2. m \in [1..1 -> Memories] /\ m[1] = a
  OBVIOUS
<1> HIDE DEF m
<1>3. ASSUME a = b PROVE Replays(a, << >>, b)
  BY <1>1, <1>2, <1>3 DEF Replays
<1>4. ASSUME Replays(a, << >>, b) PROVE a = b
  BY <1>1, <1>4 DEF Replays
<1> QED BY <1>3, <1>4

\* One more packet is heard.
LEMMA ReplaysAppend ==
    ASSUME NEW a, NEW q \in Seq(Packets), NEW b \in Memories, Replays(a, q, b), NEW f \in Packets
    PROVE  Replays(a, Append(q, f), Executed(b, f))
<1>1. PICK m \in [1..(Len(q) + 1) -> Memories] :
         /\ m[1] = a /\ m[Len(q) + 1] = b
         /\ \A i \in 1..Len(q) : m[i + 1] = Executed(m[i], q[i])
  BY DEF Replays
<1> DEFINE n == Len(q) + 1
           p == Append(q, f)
           e == Executed(b, f)
           l == [i \in 1..(n + 1) |-> IF i = n + 1 THEN e ELSE m[i]]
<1>2. n \in Nat /\ n >= 1 /\ Len(q) \in Nat
  OBVIOUS
<1>3. Len(p) = n /\ p[n] = f /\ \A i \in 1..Len(q) : p[i] = q[i]
  OBVIOUS
<1>4. e \in Memories
  BY ExecutedType
<1> HIDE DEF e, p
<1>5. /\ l \in [1..(n + 1) -> Memories]
      /\ l[n + 1] = e /\ \A i \in 1..n : l[i] = m[i]
  BY <1>1, <1>2, <1>4
<1> HIDE DEF l
<1>6. ASSUME NEW i \in 1..n PROVE l[i + 1] = Executed(l[i], p[i])
  <2>1. CASE i = n
    BY <1>1, <1>2, <1>3, <1>5, <2>1 DEF e
  <2>2. CASE i # n
    <3>1. i \in 1..Len(q) /\ i + 1 \in 1..n
      BY <1>2, <2>2
    <3> QED BY <1>1, <1>3, <1>5, <3>1
  <2> QED BY <2>1, <2>2
<1>7. l[1] = a /\ l[Len(p) + 1] = e
  BY <1>1, <1>2, <1>3, <1>5
<1> QED BY <1>3, <1>5, <1>6, <1>7 DEF Replays, e, p

\* The first packet is executed.
LEMMA ReplaysTail ==
    ASSUME NEW a, NEW q \in Seq(Packets), q # << >>, NEW b, Replays(a, q, b)
    PROVE  Replays(Executed(a, Head(q)), Tail(q), b)
<1>1. PICK m \in [1..(Len(q) + 1) -> Memories] :
         /\ m[1] = a /\ m[Len(q) + 1] = b
         /\ \A i \in 1..Len(q) : m[i + 1] = Executed(m[i], q[i])
  BY DEF Replays
<1> DEFINE t == Tail(q)
           n == Len(q)
           l == [i \in 1..n |-> m[i + 1]]
<1>2. n \in Nat /\ n >= 1 /\ Len(t) = n - 1 /\ Len(t) \in Nat
      /\ Head(q) = q[1] /\ \A i \in 1..Len(t) : t[i] = q[i + 1]
  OBVIOUS
<1> HIDE DEF t
<1>3. l \in [1..n -> Memories] /\ \A i \in 1..n : l[i] = m[i + 1]
  BY <1>1, <1>2
<1> HIDE DEF l
<1>4. ASSUME NEW i \in 1..Len(t) PROVE l[i + 1] = Executed(l[i], t[i])
  <2>1. i \in 1..n /\ i + 1 \in 1..n
    BY <1>2
  <2> QED BY <1>1, <1>2, <1>3, <2>1
<1>5. l[1] = Executed(a, Head(q)) /\ l[Len(t) + 1] = b /\ Len(t) + 1 = n
  BY <1>1, <1>2, <1>3
<1> QED BY <1>3, <1>4, <1>5 DEF Replays, t

-------------------------------------------------------------------------------
(***************************************************************************)
(* The inductive invariant.                                                *)
(***************************************************************************)
\* A server that has missed nothing remembers a request only until the reply to
\* it, or until the request is given up, and knows the request when a reply comes.
Synced(c, l, q, other) ==
    /\ l # "down"
    /\ c.requestTime = "recent" => HeadR(q) \/ (q = << >> /\ Outstanding)
    /\ ~c.isActive /\ (HeadR(q) \/ (q = << >> /\ other)) => c.requestTime = "recent"
    /\ c.isActive /\ c.isFailover /\ l = "read" => c.requestTime = "zero"

InStep == \A s \in fresh : Replays(smem[s], inbox[s], truth)

SInv ==
    /\ VInv
    /\ fresh \subseteq Nodes /\ truth \in Memories
    /\ Primary \in fresh => Synced(P, PL, PQ, MayAnswer(F, FL, FQ))
    /\ Failover \in fresh => Synced(F, FL, FQ, MayAnswer(P, PL, PQ))
    /\ InStep

\* The invariant holds at first.
LEMMA SInit == Init => SInv
<1> SUFFICES ASSUME Init PROVE SInv
  OBVIOUS
<1>1. VInv
  BY VInit
<1>2. /\ ~P.isActive /\ P.requestTime = "zero" /\ ~F.isActive /\ F.requestTime = "zero"
  BY DEF Init, P, F, Nodes, Primary, Failover, NewFailoverConn
<1>3. PQ = << >> /\ FQ = << >> /\ PL = "read" /\ FL = "read"
  BY DEF Init, PQ, FQ, PL, FL, Nodes
<1>4. ~HeadR(<< >>)
  BY DEF HeadR
<1>5. ~MayAnswer(P, PL, PQ) /\ ~MayAnswer(F, FL, FQ)
  BY <1>2, <1>3, EmptyQueue DEF MayAnswer, Answering
<1>6. /\ Synced(P, PL, PQ, MayAnswer(F, FL, FQ))
      /\ Synced(F, FL, FQ, MayAnswer(P, PL, PQ))
  BY <1>2, <1>3, <1>4, <1>5 DEF Synced
<1>7. truth \in Memories /\ fresh = Nodes
  BY FailoverAssumption DEF Init
<1>8. InStep
  <2> SUFFICES ASSUME NEW s \in Nodes PROVE Replays(smem[s], inbox[s], truth)
    BY <1>7 DEF InStep
  <2>1. smem[s] = truth /\ inbox[s] = << >>
    BY DEF Init
  <2> QED BY <1>7, <2>1, ReplaysNothing
<1> QED BY <1>1, <1>6, <1>7, <1>8 DEF SInv

-------------------------------------------------------------------------------
(***************************************************************************)
(* The client, the clock, and what a server does but read and write.       *)
(***************************************************************************)
LEMMA SameStep ==
    ASSUME SInv, VInv', UNCHANGED <<inbox, smem, truth, fresh>>,
           Primary \in fresh => Synced(P, PL, PQ, MayAnswer(F, FL, FQ))',
           Failover \in fresh => Synced(F, FL, FQ, MayAnswer(P, PL, PQ))'
    PROVE  SInv'
BY DEF SInv, InStep

\* The client sends a request, which both hear and the truth executes.
LEMMA SendSync ==
    ASSUME Deployment, SInv, NEW f \in Requests, Send(f), VInv' PROVE SInv'
<1> DEFINE k == Packet(f, FALSE)
<1>1. /\ client = "idle" /\ UNCHANGED <<in, smem, fresh>>
      /\ P' = P /\ F' = F /\ PL' = PL /\ FL' = FL
      /\ truth' = Handle(truth, f.pdu).mem
  BY DEF Deployment, Send, P, F, PL, FL
<1>2. Types
  BY HasTypes DEF SInv, VInv
<1>3. \A s \in Nodes : inbox'[s] = IF loop[s] # "down" THEN Append(inbox[s], k) ELSE inbox[s]
  BY DEF Send, Hear, Up
<1>4. k \in Packets /\ ~IsR(k) /\ k.pdu = f.pdu
  BY FailoverAssumption DEF Packet, Packets, Ids, IsR
<1> HIDE DEF k
<1>5. ~Outstanding
  BY <1>1 DEF Outstanding
<1>6. Primary \in fresh' => Synced(P, PL, PQ, MayAnswer(F, FL, FQ))'
  <2> SUFFICES ASSUME Primary \in fresh PROVE Synced(P, PL, PQ, MayAnswer(F, FL, FQ))'
    BY <1>1
  <2>1. Synced(P, PL, PQ, MayAnswer(F, FL, FQ))
    BY DEF SInv
  <2>2. PQ' = IF PL # "down" THEN Append(PQ, k) ELSE PQ
    BY <1>3 DEF PQ, PL, Nodes
  <2>3. (HeadR(PQ') <=> HeadR(PQ)) /\ (PQ' = << >> <=> PL = "down")
    BY <1>2, <1>4, <2>2, Heard DEF Types
  <2> QED BY <1>1, <1>5, <2>1, <2>3 DEF Synced
<1>7. Failover \in fresh' => Synced(F, FL, FQ, MayAnswer(P, PL, PQ))'
  <2> SUFFICES ASSUME Failover \in fresh PROVE Synced(F, FL, FQ, MayAnswer(P, PL, PQ))'
    BY <1>1
  <2>1. Synced(F, FL, FQ, MayAnswer(P, PL, PQ))
    BY DEF SInv
  <2>2. FQ' = IF FL # "down" THEN Append(FQ, k) ELSE FQ
    BY <1>3 DEF FQ, FL, Nodes
  <2>3. (HeadR(FQ') <=> HeadR(FQ)) /\ (FQ' = << >> <=> FL = "down")
    BY <1>2, <1>4, <2>2, Heard DEF Types
  <2> QED BY <1>1, <1>5, <2>1, <2>3 DEF Synced
<1>8. truth' = Executed(truth, k) /\ truth \in Memories /\ truth' \in Memories
  <2>1. truth' = Executed(truth, k) /\ truth \in Memories
    BY <1>1, <1>4 DEF Executed, SInv
  <2> QED BY <1>4, <2>1, ExecutedType
<1>9. InStep'
  <2> SUFFICES ASSUME NEW s \in fresh PROVE Replays(smem[s], inbox'[s], truth')
    BY <1>1 DEF InStep
  <2>1. s \in Nodes /\ loop[s] # "down"
    BY DEF SInv, Synced, PL, FL, Nodes
  <2>2. inbox[s] \in Seq(Packets)
    BY <2>1 DEF SInv, VInv, TInv
  <2>3. Replays(smem[s], inbox[s], truth)
    BY DEF SInv, InStep
  <2>4. Replays(smem[s], Append(inbox[s], k), Executed(truth, k))
    BY <1>4, <1>8, <2>2, <2>3, ReplaysAppend
  <2> QED BY <1>3, <1>8, <2>1, <2>4
<1> QED BY <1>1, <1>6, <1>7, <1>8, <1>9 DEF SInv

\* The client takes a reply.
LEMMA ReceiveSync == ASSUME SInv, Receive, VInv' PROVE SInv'
<1>1. /\ in # << >> /\ client' = "idle" /\ UNCHANGED <<inbox, smem, truth, fresh>>
      /\ P' = P /\ F' = F /\ PL' = PL /\ FL' = FL /\ PQ' = PQ /\ FQ' = FQ
  BY DEF Receive, histories, P, F, PL, FL, PQ, FQ
<1>2. ~Outstanding /\ ~Outstanding'
  BY <1>1 DEF Outstanding
<1>3. /\ MayAnswer(P, PL, PQ)' <=> MayAnswer(P, PL, PQ)
      /\ MayAnswer(F, FL, FQ)' <=> MayAnswer(F, FL, FQ)
  BY <1>1 DEF MayAnswer
<1>4. /\ Primary \in fresh => Synced(P, PL, PQ, MayAnswer(F, FL, FQ))'
      /\ Failover \in fresh => Synced(F, FL, FQ, MayAnswer(P, PL, PQ))'
  BY <1>1, <1>2, <1>3 DEF SInv, Synced
<1> QED BY <1>1, <1>4, SameStep

\* The client gives up, or rests.
LEMMA TimeSync == ASSUME SInv, GiveUp \/ Rest, VInv' PROVE SInv'
<1>1. /\ Quiet
      /\ Passes(MissDelayPasses) \/ Passes(PrimaryDisconnectDelayPasses)
      /\ UNCHANGED <<inbox, smem, truth, fresh>>
      /\ PL' = PL /\ FL' = FL /\ PQ' = PQ /\ FQ' = FQ
  BY DEF GiveUp, Rest, clientVars, histories, PL, FL, PQ, FQ
<1>2. ~HeadR(PQ) /\ ~HeadR(FQ) /\ ~EndsQ(PQ) /\ ~EndsQ(FQ) /\ PL # "reply" /\ FL \notin {"reply", "sleep"}
      /\ PL # "sleep"
  <2>1. ~HeadR(PQ) /\ ~HeadR(FQ) /\ ~EndsQ(PQ) /\ ~EndsQ(FQ)
    BY <1>1, OnQuiet DEF SInv
  <2> QED BY <1>1, <2>1 DEF Quiet, PL, FL, Nodes
<1>3. ~MayAnswer(P, PL, PQ)' /\ ~MayAnswer(F, FL, FQ)'
  BY <1>1, <1>2 DEF MayAnswer, Answering
<1>4. Types
  BY HasTypes DEF SInv, VInv
<1>5. Primary \in fresh => Synced(P, PL, PQ, MayAnswer(F, FL, FQ))'
  <2> SUFFICES ASSUME Primary \in fresh PROVE Synced(P, PL, PQ, MayAnswer(F, FL, FQ))'
    OBVIOUS
  <2>1. Synced(P, PL, PQ, MayAnswer(F, FL, FQ)) /\ PL # "down"
    BY DEF SInv, Synced
  <2>2. P' = MissDelayPasses(P) \/ P' = PrimaryDisconnectDelayPasses(P)
    BY <1>1, <2>1 DEF Passes, Up, Nodes, P, PL
  <2>3. P'.requestTime # "recent"
    BY <1>4, <2>2, Later DEF Types, Fields
  <2>4. ~P'.isFailover
    BY HasTypesNext DEF VInv, Types
  <2> QED BY <1>1, <1>2, <1>3, <2>1, <2>3, <2>4 DEF Synced
<1>6. Failover \in fresh => Synced(F, FL, FQ, MayAnswer(P, PL, PQ))'
  <2> SUFFICES ASSUME Failover \in fresh PROVE Synced(F, FL, FQ, MayAnswer(P, PL, PQ))'
    OBVIOUS
  <2>1. Synced(F, FL, FQ, MayAnswer(P, PL, PQ)) /\ FL # "down"
    BY DEF SInv, Synced
  <2>2. F' = MissDelayPasses(F) \/ F' = PrimaryDisconnectDelayPasses(F)
    BY <1>1, <2>1 DEF Passes, Up, Nodes, F, FL
  <2>3. /\ F'.requestTime # "recent" /\ F'.isActive = F.isActive
        /\ F'.requestTime = "zero" <=> F.requestTime = "zero"
    BY <1>4, <2>2, Later DEF Types, Fields
  <2>4. F.isFailover
    BY <1>4 DEF Types
  <2> QED BY <1>1, <1>2, <1>3, <2>1, <2>3, <2>4 DEF Synced
<1> QED BY <1>1, <1>5, <1>6, SameStep

\* PrimaryForceBackDelay passes.
LEMMA ForceBackSync == ASSUME Deployment, SInv, ForceBack, VInv' PROVE SInv'
<1>1. /\ Quiet /\ Passes(PrimaryForceBackDelayPasses)
      /\ UNCHANGED <<client, in, inbox, smem, truth, fresh>>
      /\ PL' = PL /\ FL' = FL /\ PQ' = PQ /\ FQ' = FQ
  BY DEF Deployment, ForceBack, clientVars, histories, P, F, PL, FL, PQ, FQ
<1>2. ~HeadR(PQ) /\ ~HeadR(FQ) /\ ~EndsQ(PQ) /\ ~EndsQ(FQ) /\ PL # "reply" /\ FL \notin {"reply", "sleep"}
      /\ PL # "sleep"
  <2>1. ~HeadR(PQ) /\ ~HeadR(FQ) /\ ~EndsQ(PQ) /\ ~EndsQ(FQ)
    BY <1>1, OnQuiet DEF SInv
  <2> QED BY <1>1, <2>1 DEF Quiet, PL, FL, Nodes
<1>3. ~MayAnswer(P, PL, PQ)' /\ ~MayAnswer(F, FL, FQ)' /\ (Outstanding' <=> Outstanding)
  BY <1>1, <1>2 DEF MayAnswer, Answering, Outstanding
<1>4. Types /\ Types'
  BY HasTypes, HasTypesNext DEF SInv, VInv
<1>5. P'.requestTime = P.requestTime /\ F'.requestTime = F.requestTime /\ F'.isActive = F.isActive
  <2>1. P' = [P EXCEPT !.forceBack = ~P.isFailover] \/ P' = P
    BY <1>1 DEF Passes, PrimaryForceBackDelayPasses, Up, Nodes, P, PL
  <2>2. F' = [F EXCEPT !.forceBack = ~F.isFailover] \/ F' = F
    BY <1>1 DEF Passes, PrimaryForceBackDelayPasses, Up, Nodes, F, FL
  <2> QED BY <1>4, <2>1, <2>2 DEF Types, Fields, Conns
<1>6. Primary \in fresh => Synced(P, PL, PQ, MayAnswer(F, FL, FQ))'
  BY <1>1, <1>2, <1>3, <1>4, <1>5 DEF SInv, Synced, Types
<1>7. Failover \in fresh => Synced(F, FL, FQ, MayAnswer(P, PL, PQ))'
  BY <1>1, <1>2, <1>3, <1>4, <1>5 DEF SInv, Synced, Types
<1> QED BY <1>1, <1>6, <1>7, SameStep

\* A server that stops is no longer one that has missed nothing, nor one that answers.
LEMMA StopSync == ASSUME SInv, NEW s \in Nodes, Stop(s), VInv' PROVE SInv'
<1>1. /\ UNCHANGED <<client, in, truth>> /\ fresh' = fresh \ {s}
      /\ \A n \in Nodes \ {s} : /\ conn'[n] = conn[n] /\ loop'[n] = loop[n]
                                /\ inbox'[n] = inbox[n] /\ smem'[n] = smem[n]
      /\ loop'[s] = "down" /\ inbox'[s] = << >>
  BY DEF SInv, VInv, TInv, TypeOK, Stop, clientVars
<1>2. Outstanding' <=> Outstanding
  BY <1>1 DEF Outstanding
<1>3. ~EndsQ(inbox'[s])
  BY <1>1, EmptyQueue
<1>4. Primary \in fresh' => Synced(P, PL, PQ, MayAnswer(F, FL, FQ))'
  <2> SUFFICES ASSUME Primary \in fresh, s = Failover
               PROVE  Synced(P, PL, PQ, MayAnswer(F, FL, FQ))'
    BY <1>1 DEF Nodes
  <2>1. P' = P /\ PL' = PL /\ PQ' = PQ
    BY <1>1 DEF P, PL, PQ, Nodes, Primary, Failover
  <2>2. ~MayAnswer(F, FL, FQ)'
    BY <1>1, <1>3 DEF MayAnswer, Answering, FL, FQ
  <2> QED BY <1>2, <2>1, <2>2 DEF SInv, Synced
<1>5. Failover \in fresh' => Synced(F, FL, FQ, MayAnswer(P, PL, PQ))'
  <2> SUFFICES ASSUME Failover \in fresh, s = Primary
               PROVE  Synced(F, FL, FQ, MayAnswer(P, PL, PQ))'
    BY <1>1 DEF Nodes
  <2>1. F' = F /\ FL' = FL /\ FQ' = FQ
    BY <1>1 DEF F, FL, FQ, Nodes, Primary, Failover
  <2>2. ~MayAnswer(P, PL, PQ)'
    BY <1>1, <1>3 DEF MayAnswer, Answering, PL, PQ
  <2> QED BY <1>2, <2>1, <2>2 DEF SInv, Synced
<1>6. InStep' /\ fresh' \subseteq Nodes /\ truth' \in Memories
  BY <1>1 DEF SInv, InStep
<1> QED BY <1>4, <1>5, <1>6 DEF SInv

\* A server starts again; what it missed it will never know.
LEMMA StartSync == ASSUME SInv, NEW s \in Nodes, Start(s), VInv' PROVE SInv'
<1>1. /\ UNCHANGED <<client, in, conn, inbox, smem, truth, fresh>>
      /\ loop[s] = "down"
      /\ loop' = [loop EXCEPT ![s] = "read"]
  BY DEF Start, Up, clientVars, histories
<1>2. (Outstanding' <=> Outstanding) /\ P' = P /\ F' = F /\ PQ' = PQ /\ FQ' = FQ
  BY <1>1 DEF Outstanding, P, F, PQ, FQ
<1>3. /\ s = Primary => PL = "down" /\ FL' = FL /\ ~Answering(P, PL)'
      /\ s = Failover => FL = "down" /\ PL' = PL /\ ~Answering(F, FL)'
  BY <1>1 DEF SInv, VInv, TInv, TypeOK, PL, FL, Answering, Nodes, Primary, Failover
<1>4. Primary \in fresh => Synced(P, PL, PQ, MayAnswer(F, FL, FQ))'
  <2> SUFFICES ASSUME Primary \in fresh PROVE Synced(P, PL, PQ, MayAnswer(F, FL, FQ))'
    OBVIOUS
  <2>1. s = Failover
    BY <1>3 DEF SInv, Synced, Nodes
  <2>2. MayAnswer(F, FL, FQ)' => MayAnswer(F, FL, FQ)
    BY <1>2, <1>3, <2>1 DEF MayAnswer
  <2> QED BY <1>2, <1>3, <2>1, <2>2 DEF SInv, Synced
<1>5. Failover \in fresh => Synced(F, FL, FQ, MayAnswer(P, PL, PQ))'
  <2> SUFFICES ASSUME Failover \in fresh PROVE Synced(F, FL, FQ, MayAnswer(P, PL, PQ))'
    OBVIOUS
  <2>1. s = Primary
    BY <1>3 DEF SInv, Synced, Nodes
  <2>2. MayAnswer(P, PL, PQ)' => MayAnswer(P, PL, PQ)
    BY <1>2, <1>3, <2>1 DEF MayAnswer
  <2> QED BY <1>2, <1>3, <2>1, <2>2 DEF SInv, Synced
<1> QED BY <1>1, <1>4, <1>5, SameStep

\* The failover waits before it writes.
LEMMA SleepSync == ASSUME SInv, NEW s \in Nodes, Sleep(s), VInv' PROVE SInv'
<1>1. s = Failover
  BY DEF SInv, VInv, TInv, TypeOK, Sleep, SleepsBeforeWrite, Nodes
<1>2. /\ UNCHANGED <<client, in, inbox, smem, truth, fresh>>
      /\ FL = "reply" /\ FL' = "sleep" /\ F' = F /\ FQ' = FQ
      /\ P' = P /\ PL' = PL /\ PQ' = PQ
  BY <1>1 DEF SInv, VInv, TInv, TypeOK, Sleep, clientVars, histories,
              P, F, PL, FL, PQ, FQ, Nodes, Primary, Failover
<1>3. /\ Outstanding' <=> Outstanding
      /\ MayAnswer(P, PL, PQ)' <=> MayAnswer(P, PL, PQ)
      /\ MayAnswer(F, FL, FQ)' <=> MayAnswer(F, FL, FQ)
  BY <1>2 DEF MayAnswer, Answering, Outstanding
<1>4. /\ Primary \in fresh => Synced(P, PL, PQ, MayAnswer(F, FL, FQ))'
      /\ Failover \in fresh => Synced(F, FL, FQ, MayAnswer(P, PL, PQ))'
  BY <1>2, <1>3 DEF SInv, Synced
<1> QED BY <1>2, <1>4, SameStep

-------------------------------------------------------------------------------
(***************************************************************************)
(* A server writes.                                                        *)
(***************************************************************************)
LEMMA DroppedSync ==
    ASSUME SInv, NEW s \in Nodes, loop[s] \in {"reply", "sleep"}, ~conn[s].isActive,
           WriteNow(s), VInv'
    PROVE  SInv'
<1>1. /\ UNCHANGED <<client, in, inbox, smem, truth, fresh>>
      /\ conn' = [conn EXCEPT ![s] = conn[s]]
      /\ loop' = [loop EXCEPT ![s] = "read"]
  BY DEF WriteNow, serverWrite, histories
<1>2. P' = P /\ F' = F /\ PQ' = PQ /\ FQ' = FQ
  BY <1>1 DEF SInv, VInv, TInv, TypeOK, P, F, PQ, FQ
<1>3. /\ PL' = "down" <=> PL = "down"
      /\ Answering(P, PL)' <=> Answering(P, PL)
      /\ FL' = "down" <=> FL = "down"
      /\ Answering(F, FL)' <=> Answering(F, FL)
      /\ P.isActive => PL' = PL
      /\ F.isActive => FL' = FL
  BY <1>1, <1>2 DEF SInv, VInv, TInv, TypeOK, PL, FL, P, F, Answering, Nodes, Primary, Failover
<1>4. /\ MayAnswer(P, PL, PQ)' <=> MayAnswer(P, PL, PQ)
      /\ MayAnswer(F, FL, FQ)' <=> MayAnswer(F, FL, FQ)
      /\ Outstanding' <=> Outstanding
  BY <1>1, <1>2, <1>3 DEF MayAnswer, Outstanding
<1>5. /\ Primary \in fresh => Synced(P, PL, PQ, MayAnswer(F, FL, FQ))'
      /\ Failover \in fresh => Synced(F, FL, FQ, MayAnswer(P, PL, PQ))'
  BY <1>2, <1>3, <1>4 DEF SInv, Synced
<1> QED BY <1>1, <1>5, SameStep

\* The other server hears the reply, and what is to be executed stays the same.
LEMMA HeardInStep ==
    ASSUME SInv, NEW s \in Nodes, NEW k \in Packets, IsR(k),
           UNCHANGED <<smem, truth, fresh>>, Hear(Nodes \ {s}, k)
    PROVE  InStep'
<1> SUFFICES ASSUME NEW n \in fresh PROVE Replays(smem[n], inbox'[n], truth)
  BY DEF InStep
<1>1. n \in Nodes /\ Replays(smem[n], inbox[n], truth) /\ inbox[n] \in Seq(Packets)
  BY DEF SInv, InStep, VInv, TInv
<1>2. Replays(smem[n], Append(inbox[n], k), truth)
  <2>1. Executed(truth, k) = truth
    BY DEF Executed
  <2> QED BY <1>1, <2>1, ReplaysAppend DEF SInv
<1>3. inbox'[n] = Append(inbox[n], k) \/ inbox'[n] = inbox[n]
  BY <1>1 DEF Hear
<1> QED BY <1>1, <1>2, <1>3

\* The primary writes a reply: the failover hears it, and will not execute it.
LEMMA PrimarySync ==
    ASSUME SInv, PL = "reply", P.isActive, WriteNow(Primary), VInv' PROVE SInv'
<1> DEFINE f == MakeRTU(SlaveID, rsp[Primary])
           k == Packet(f, TRUE)
<1>1. /\ P' = serverWrite(P) /\ F' = F /\ PL' = "read" /\ FL' = FL /\ PQ' = PQ
      /\ FQ' = IF FL # "down" THEN Append(FQ, k) ELSE FQ
      /\ UNCHANGED <<smem, truth, fresh>> /\ Hear(Nodes \ {Primary}, k)
      /\ in' = Append(in, f)
  BY ZenonT(30) DEF SInv, VInv, TInv, TypeOK, WriteNow, Hear, Up, histories, P, F, PL, FL, PQ, FQ,
         Nodes, Primary, Failover
<1>2. Types
  BY HasTypes DEF SInv, VInv
<1>3. k \in Packets /\ IsR(k) /\ ~IsQ(k) /\ k.pdu = rsp[Primary]
  <2>1. rsp[Primary] \in Pdus
    BY DEF SInv, VInv, TInv, PL, Nodes
  <2> QED BY <2>1, ReplyPacket
<1>4. in' # << >>
  BY <1>1 DEF SInv, VInv, TInv
<1> HIDE DEF k, f
<1>5. InStep'
  <2>1. Primary \in Nodes
    BY DEF Nodes
  <2> QED BY <1>1, <1>3, <2>1, HeardInStep
<1>6. ~Outstanding' /\ ~MayAnswer(P, PL, PQ)' /\ Answering(P, PL) /\ MayAnswer(P, PL, PQ)
  <2>1. ~Outstanding' /\ Answering(P, PL)
    BY <1>4 DEF Outstanding, Answering
  <2>2. ~MayAnswer(P, PL, PQ)'
    BY <1>1, <2>1 DEF VInv, Lined, MayAnswer, Answering
  <2> QED BY <2>1, <2>2 DEF MayAnswer
<1>7. /\ Shape(FQ) /\ Outstanding /\ ~F.isActive
      /\ FQ = << >> \/ EndsQ(FQ)
      /\ EndsQ(FQ) => IsRequestReply(LastOf(FQ).pdu, k.pdu)
  BY <1>3, <1>6 DEF SInv, VInv, Lined, Yields
<1>8. Primary \in fresh => Synced(P, PL, PQ, MayAnswer(F, FL, FQ))'
  <2>1. P'.isActive /\ P'.requestTime = "zero"
    BY <1>1, <1>2, Reset DEF Types
  <2> QED BY <1>1, <2>1 DEF Synced
<1>9. Failover \in fresh => Synced(F, FL, FQ, MayAnswer(P, PL, PQ))'
  <2> SUFFICES ASSUME Failover \in fresh PROVE Synced(F, FL, FQ, MayAnswer(P, PL, PQ))'
    OBVIOUS
  <2>1. Synced(F, FL, FQ, MayAnswer(P, PL, PQ)) /\ FL # "down"
    BY DEF SInv, Synced
  <2>2. HeadR(FQ') <=> FQ = << >> \/ HeadR(FQ)
    BY <1>1, <1>2, <1>3, <1>7, <2>1, HeardReply DEF Types
  <2> QED BY <1>1, <1>6, <1>7, <2>1, <2>2 DEF Synced
<1> QED BY <1>1, <1>5, <1>8, <1>9 DEF SInv

\* The failover writes a reply.
LEMMA FailoverSync ==
    ASSUME SInv, FL = "sleep", PQ = << >>, F.isActive, WriteNow(Failover), VInv' PROVE SInv'
<1> DEFINE f == MakeRTU(SlaveID, rsp[Failover])
           k == Packet(f, TRUE)
<1>1. /\ F' = serverWrite(F) /\ P' = P /\ FL' = "read" /\ PL' = PL /\ FQ' = FQ
      /\ PQ' = IF PL # "down" THEN Append(PQ, k) ELSE PQ
      /\ UNCHANGED <<smem, truth, fresh>> /\ Hear(Nodes \ {Failover}, k)
      /\ in' = Append(in, f)
  BY ZenonT(30) DEF SInv, VInv, TInv, TypeOK, WriteNow, Hear, Up, histories, P, F, PL, FL, PQ, FQ,
         Nodes, Primary, Failover
<1>2. Types
  BY HasTypes DEF SInv, VInv
<1>3. k \in Packets /\ IsR(k) /\ ~IsQ(k) /\ k.pdu = rsp[Failover]
  <2>1. rsp[Failover] \in Pdus
    BY DEF SInv, VInv, TInv, FL, Nodes
  <2> QED BY <2>1, ReplyPacket
<1>4. in' # << >>
  BY <1>1 DEF SInv, VInv, TInv
<1> HIDE DEF k, f
<1>5. InStep'
  <2>1. Failover \in Nodes
    BY DEF Nodes
  <2> QED BY <1>1, <1>3, <2>1, HeardInStep
<1>6. ~Outstanding' /\ ~MayAnswer(F, FL, FQ)' /\ Answering(F, FL) /\ MayAnswer(F, FL, FQ)
  <2>1. ~Outstanding' /\ Answering(F, FL)
    BY <1>4 DEF Outstanding, Answering
  <2>2. ~MayAnswer(F, FL, FQ)'
    BY <1>1, <2>1 DEF VInv, Lined, MayAnswer, Answering
  <2> QED BY <2>1, <2>2 DEF MayAnswer
<1>7. Shape(PQ) /\ ~EndsQ(PQ)
  BY EmptyQueue
<1>8. Failover \in fresh => Synced(F, FL, FQ, MayAnswer(P, PL, PQ))'
  <2>1. F'.isActive /\ F'.requestTime = "zero"
    BY <1>1, <1>2, Reset DEF Types
  <2> QED BY <1>1, <2>1 DEF Synced
<1>9. Primary \in fresh => Synced(P, PL, PQ, MayAnswer(F, FL, FQ))'
  <2> SUFFICES ASSUME Primary \in fresh PROVE Synced(P, PL, PQ, MayAnswer(F, FL, FQ))'
    OBVIOUS
  <2>1. Synced(P, PL, PQ, MayAnswer(F, FL, FQ)) /\ PL # "down"
    BY DEF SInv, Synced
  <2>2. HeadR(PQ')
    BY <1>1, <1>2, <1>3, <1>7, <2>1, HeardReply DEF Types
  <2>3. ~P.isFailover
    BY <1>2 DEF Types
  <2> QED BY <1>1, <1>6, <2>1, <2>2, <2>3 DEF Synced
<1> QED BY <1>1, <1>5, <1>8, <1>9 DEF SInv

-------------------------------------------------------------------------------
(***************************************************************************)
(* A server reads: a server that has missed nothing executes the requests  *)
(* and the broadcasts, and no reply.                                       *)
(***************************************************************************)
\* Nobody is about to answer who was not before.
LEMMA StillAnswers ==
    ASSUME VInv, VInv', UNCHANGED <<client, in>>
    PROVE  /\ FL = "read" /\ FQ # << >> /\ MayAnswer(F, FL, FQ)' => MayAnswer(F, FL, FQ)
           /\ PL = "read" /\ PQ # << >> /\ MayAnswer(P, PL, PQ)' => MayAnswer(P, PL, PQ)
<1>1. Outstanding' <=> Outstanding
  BY DEF Outstanding
<1> QED BY <1>1 DEF VInv, Lined, MayAnswer

\* If the server returns what is no reply, it stays in step.
LEMMA ReadInStep ==
    ASSUME Deployment, SInv, NEW s \in Nodes, ReadAndHandle(s),
           s \in fresh => (serverRead(conn[s], Head(inbox[s])).returns <=> ~IsR(Head(inbox[s])))
    PROVE  InStep' /\ UNCHANGED <<truth, fresh>>
<1> DEFINE h == Head(inbox[s])
           r == serverRead(conn[s], h)
           m == Handle(smem[s], h.pdu).mem
<1>1. inbox[s] # << >> /\ inbox[s] \in Seq(Packets) /\ h \in Packets
  <2>1. inbox[s] # << >> /\ inbox[s] \in Seq(Packets)
    BY DEF ReadAndHandle, SInv, VInv, TInv
  <2> QED BY <2>1, TailQueue
<1>2. GetPDU(h).err = NoErr /\ h.id \in {0, SlaveID}
  BY <1>1, HeardPDU, HeardId
<1>3. /\ UNCHANGED <<truth, fresh>>
      /\ inbox' = [inbox EXCEPT ![s] = Tail(inbox[s])]
      /\ smem' = IF r.returns THEN [smem EXCEPT ![s] = m] ELSE smem
  BY <1>2 DEF ReadAndHandle, histories
<1> HIDE DEF r, m
<1>4. ASSUME NEW n \in fresh PROVE Replays(smem'[n], inbox'[n], truth)
  <2>1. n \in Nodes /\ Replays(smem[n], inbox[n], truth)
    BY DEF SInv, InStep
  <2>2. DOMAIN smem = Nodes /\ DOMAIN inbox = Nodes
    BY DEF SInv, VInv, TInv
  <2>3. CASE n # s
    BY <1>3, <2>1, <2>2, <2>3
  <2>4. CASE n = s
    <3>1. r.returns <=> ~IsR(h)
      BY <2>4 DEF r
    <3>2. smem'[s] = Executed(smem[s], h) /\ inbox'[s] = Tail(inbox[s])
      BY <1>3, <2>2, <3>1 DEF Executed, m
    <3>3. Replays(Executed(smem[s], h), Tail(inbox[s]), truth)
      BY <1>1, <2>1, <2>4, ReplaysTail
    <3> QED BY <2>4, <3>2, <3>3
  <2> QED BY <2>3, <2>4
<1> QED BY <1>3, <1>4 DEF InStep

\* The failover reads a packet and executes it, unless it is a reply.
LEMMA ReadFailoverSync ==
    ASSUME Deployment, SInv, ReadAndHandle(Failover), VInv' PROVE SInv'
<1> DEFINE h == Head(FQ)
           t == Tail(FQ)
           r == serverRead(F, h)
<1>1. Types /\ Types' /\ ConnOK(F)
  BY HasTypes, HasTypesNext, ConnType DEF SInv, VInv, TInv, F, Nodes
<1>2. FL = "read" /\ FQ # << >> /\ h \in Packets
  <2>1. FL = "read" /\ FQ # << >>
    BY DEF ReadAndHandle, FL, FQ
  <2> QED BY <1>1, <2>1, TailQueue DEF Types
<1>3. /\ UNCHANGED <<client, in>>
      /\ P' = P /\ PL' = PL /\ PQ' = PQ /\ F' = r.conn /\ FQ' = t
      /\ FL' = IF r.returns /\ h.id # 0 THEN "reply" ELSE "read"
  <2>1. /\ GetPDU(h).err = NoErr /\ h.id \in {0, SlaveID}
    BY <1>2, HeardPDU, HeardId
  <2>2. Primary # Failover /\ Primary \in Nodes /\ Failover \in Nodes
    BY DEF Nodes, Primary, Failover
  <2>3. /\ UNCHANGED <<client, in>>
        /\ conn' = [conn EXCEPT ![Failover] = r.conn]
        /\ inbox' = [inbox EXCEPT ![Failover] = t]
        /\ loop' = IF r.returns /\ h.id # 0 THEN [loop EXCEPT ![Failover] = "reply"] ELSE loop
    BY <2>1 DEF ReadAndHandle, clientVars, F, FQ
  <2> HIDE DEF h, t, r
  <2> QED BY <1>2, <2>2, <2>3 DEF SInv, VInv, TInv, TypeOK, P, F, PL, FL, PQ, FQ
<1>4. /\ IsB(h) <=> h.id = 0
      /\ IsQ(h) <=> h.id # 0 /\ ~IsR(h)
      /\ IsR(h) => h.id # 0
  BY <1>2 DEF Packets, IsB, IsQ, IsR
<1>5. /\ HasR(FQ) <=> IsR(h) \/ HasR(t)
      /\ EndsQ(FQ) <=> (t = << >> /\ IsQ(h)) \/ EndsQ(t)
      /\ HeadR(FQ) <=> IsR(h)
      /\ HeadR(t) <=> t # << >> /\ IsQ(h)
      /\ EndsQ(t) => t # << >>
  BY <1>1, <1>2, TailView DEF SInv, VInv, Lined, Types
<1>6. \/ h.id = 0 /\ r.returns /\ Forgets(F, r.conn)
      \/ h.id # 0 /\ r.returns /\ Notes(F, h.pdu, r.conn)
      \/ h.id # 0 /\ ~r.returns /\ ~F.isActive /\ Clears(F, h.pdu, r.conn)
      \/ h.id # 0 /\ r.returns /\ ~F.isActive /\ Counts(F, h.pdu, r.conn)
      \/ h.id # 0 /\ ~r.returns /\ F.isActive /\ F.requestTime # "zero"
  BY <1>1, <1>2, FailoverReads DEF Types
<1>7. Outstanding' <=> Outstanding
  BY <1>3 DEF Outstanding
<1> HIDE DEF t, r
<1>8. Primary \in fresh => Synced(P, PL, PQ, MayAnswer(F, FL, FQ))'
  <2>1. MayAnswer(F, FL, FQ)' => MayAnswer(F, FL, FQ)
    BY <1>2, <1>3, StillAnswers DEF SInv
  <2> QED BY <1>3, <1>7, <2>1 DEF SInv, Synced
<1>9. ASSUME Failover \in fresh
      PROVE  Synced(F, FL, FQ, MayAnswer(P, PL, PQ))' /\ (r.returns <=> ~IsR(h))
  <2>1. /\ F.requestTime = "recent" => HeadR(FQ)
        /\ ~F.isActive /\ HeadR(FQ) => F.requestTime = "recent"
        /\ F.isActive => F.requestTime = "zero"
    BY <1>1, <1>2, <1>9 DEF SInv, Synced, Types
  <2>2. EndsQ(FQ) <=> Outstanding
    BY <1>2 DEF SInv, VInv, Lined
  <2>3. MayAnswer(P, PL, PQ)' => Outstanding
    BY <1>7 DEF VInv, Lined, MayAnswer
  <2>4. MissesMax(F) = FailoverMissesMax
    BY <1>1 DEF Types, MissesMax
  <2>5. CASE IsR(h)
    <3>1. ~F.isActive /\ F.requestTime = "recent" /\ IsRequestReply(F.reqPacket, h.pdu)
      BY <1>2, <1>5, <2>1, <2>5 DEF SInv, VInv, Roles, Ready
    <3>2. Clears(F, h.pdu, F') /\ ~r.returns
      BY <1>3, <1>4, <1>6, <2>5, <3>1 DEF Notes, Counts
    <3>3. ~F'.isActive /\ F'.requestTime = "zero" /\ ~HeadR(FQ')
      BY <1>3, <1>4, <1>5, <2>5, <3>1, <3>2 DEF Clears
    <3>4. ~(FQ' = << >> /\ MayAnswer(P, PL, PQ)')
      BY <1>3, <1>4, <1>5, <2>2, <2>3, <2>5
    <3> QED BY <1>3, <2>5, <3>2, <3>3, <3>4 DEF Synced
  <2>6. CASE IsB(h)
    <3>1. r.returns /\ F'.requestTime = "zero" /\ ~HeadR(FQ')
      BY <1>3, <1>4, <1>5, <1>6, <2>6 DEF Forgets
    <3>2. ~(FQ' = << >> /\ MayAnswer(P, PL, PQ)')
      BY <1>3, <1>4, <1>5, <2>2, <2>3, <2>6
    <3> QED BY <1>3, <1>4, <2>6, <3>1, <3>2 DEF Synced
  <2>7. CASE IsQ(h)
    <3>1. /\ r.returns /\ FL' = "reply" /\ ~IsR(h)
          /\ F'.isActive \/ F'.requestTime = "recent"
      <4>1. F.requestTime # "recent"
        BY <1>4, <1>5, <2>1, <2>7
      <4>2. r.returns
        BY <1>4, <1>6, <2>1, <2>7, <4>1 DEF Notes, Clears
      <4>3. Notes(F, h.pdu, F') \/ Counts(F, h.pdu, F')
        BY <1>3, <1>4, <1>6, <2>7, <4>2
      <4>4. F'.misses \in Nat /\ FailoverMissesMax \in Nat
        BY <1>1, MissesAssumption DEF Types, Fields
      <4> QED BY <1>3, <1>4, <2>4, <2>7, <4>2, <4>3, <4>4 DEF Notes, Counts
    <3>2. HeadR(FQ') \/ (FQ' = << >> /\ Outstanding')
      BY <1>3, <1>5, <1>7, <2>2, <2>7
    <3> QED BY <3>1, <3>2 DEF Synced
  <2> QED BY <1>4, <2>5, <2>6, <2>7
<1>10. InStep' /\ UNCHANGED <<truth, fresh>>
  <2>1. Failover \in Nodes
    BY DEF Nodes
  <2> QED BY <1>9, <2>1, ReadInStep DEF r, F, FQ
<1> QED BY <1>8, <1>9, <1>10 DEF SInv

\* The primary reads a packet and executes it, unless it is a reply.
LEMMA ReadPrimarySync ==
    ASSUME Deployment, SInv, ReadAndHandle(Primary), VInv' PROVE SInv'
<1> DEFINE h == Head(PQ)
           t == Tail(PQ)
           r == serverRead(P, h)
<1>1. Types /\ Types' /\ ConnOK(P)
  BY HasTypes, HasTypesNext, ConnType DEF SInv, VInv, TInv, P, Nodes
<1>2. PL = "read" /\ PQ # << >> /\ h \in Packets
  <2>1. PL = "read" /\ PQ # << >>
    BY DEF ReadAndHandle, PL, PQ
  <2> QED BY <1>1, <2>1, TailQueue DEF Types
<1>3. /\ UNCHANGED <<client, in>>
      /\ F' = F /\ FL' = FL /\ FQ' = FQ /\ P' = r.conn /\ PQ' = t
      /\ PL' = IF r.returns /\ h.id # 0 THEN "reply" ELSE "read"
  <2>1. /\ GetPDU(h).err = NoErr /\ h.id \in {0, SlaveID}
    BY <1>2, HeardPDU, HeardId
  <2>2. Primary # Failover /\ Primary \in Nodes /\ Failover \in Nodes
    BY DEF Nodes, Primary, Failover
  <2>3. /\ UNCHANGED <<client, in>>
        /\ conn' = [conn EXCEPT ![Primary] = r.conn]
        /\ inbox' = [inbox EXCEPT ![Primary] = t]
        /\ loop' = IF r.returns /\ h.id # 0 THEN [loop EXCEPT ![Primary] = "reply"] ELSE loop
    BY <2>1 DEF ReadAndHandle, clientVars, P, PQ
  <2> HIDE DEF h, t, r
  <2> QED BY <1>2, <2>2, <2>3 DEF SInv, VInv, TInv, TypeOK, P, F, PL, FL, PQ, FQ
<1>4. /\ IsB(h) <=> h.id = 0
      /\ IsQ(h) <=> h.id # 0 /\ ~IsR(h)
      /\ IsR(h) => h.id # 0
  BY <1>2 DEF Packets, IsB, IsQ, IsR
<1>5. /\ HasR(PQ) <=> IsR(h) \/ HasR(t)
      /\ EndsQ(PQ) <=> (t = << >> /\ IsQ(h)) \/ EndsQ(t)
      /\ HeadR(PQ) <=> IsR(h)
      /\ HeadR(t) <=> t # << >> /\ IsQ(h)
      /\ EndsQ(t) => t # << >>
  BY <1>1, <1>2, TailView DEF SInv, VInv, Lined, Types
<1>6. (r.returns /\ Answers(P, r.conn)) \/ Hears(P, h, r)
  BY <1>1, <1>2, PrimaryReads DEF Types
<1>7. Outstanding' <=> Outstanding
  BY <1>3 DEF Outstanding
<1> HIDE DEF t, r
<1>8. Failover \in fresh => Synced(F, FL, FQ, MayAnswer(P, PL, PQ))'
  <2>1. MayAnswer(P, PL, PQ)' => MayAnswer(P, PL, PQ)
    BY <1>2, <1>3, StillAnswers DEF SInv
  <2> QED BY <1>3, <1>7, <2>1 DEF SInv, Synced
<1>9. ASSUME Primary \in fresh
      PROVE  Synced(P, PL, PQ, MayAnswer(F, FL, FQ))' /\ (r.returns <=> ~IsR(h))
  <2>1. /\ P.requestTime = "recent" => HeadR(PQ)
        /\ ~P.isActive /\ HeadR(PQ) => P.requestTime = "recent"
        /\ P'.isFailover = FALSE
    BY <1>1, <1>2, <1>9 DEF SInv, Synced, Types
  <2>2. EndsQ(PQ) <=> Outstanding
    BY <1>2 DEF SInv, VInv, Lined
  <2>3. MayAnswer(F, FL, FQ)' => Outstanding
    BY <1>7 DEF VInv, Lined, MayAnswer
  <2>4. MissesMax(P) = PrimaryMissesMax
    BY <1>1 DEF Types, MissesMax
  <2>5. IsR(h) => ~P.isActive /\ ~P.forceBack
    BY <1>5 DEF SInv, VInv, Roles
  <2>6. CASE r.returns /\ Answers(P, r.conn)
    <3>1. ~IsR(h) /\ P'.isActive /\ P'.requestTime = P.requestTime /\ PL' # "down"
      BY <1>3, <2>5, <2>6 DEF Answers
    <3> QED BY <1>5, <2>1, <2>6, <3>1 DEF Synced
  <2>7. CASE Hears(P, h, r)
    <3>1. PICK b : /\ ~b.isActive /\ b.misses = P.misses
                   /\ b.requestTime = P.requestTime /\ b.reqPacket = P.reqPacket
                   /\ MissesMax(b) = PrimaryMissesMax
                   /\ \/ h.id = 0 /\ r.returns /\ Forgets(b, P')
                      \/ h.id # 0 /\ r.returns /\ Notes(b, h.pdu, P')
                      \/ h.id # 0 /\ ~r.returns /\ Clears(b, h.pdu, P')
                      \/ h.id # 0 /\ r.returns /\ Counts(b, h.pdu, P')
      BY <1>3, <2>4, <2>7 DEF Hears
    <3>2. CASE IsR(h)
      <4>1. P.requestTime = "recent" /\ IsRequestReply(P.reqPacket, h.pdu)
        BY <1>2, <1>5, <2>1, <2>5, <3>2 DEF SInv, VInv, Ready
      <4>2. Clears(b, h.pdu, P') /\ ~r.returns
        BY <1>4, <3>1, <3>2, <4>1 DEF Notes, Counts
      <4>3. P'.requestTime = "zero" /\ ~HeadR(PQ')
        BY <1>3, <1>4, <1>5, <3>2, <4>2 DEF Clears
      <4>4. ~(PQ' = << >> /\ MayAnswer(F, FL, FQ)')
        BY <1>3, <1>4, <1>5, <2>2, <2>3, <3>2
      <4> QED BY <1>3, <3>2, <4>2, <4>3, <4>4 DEF Synced
    <3>3. CASE IsB(h)
      <4>1. r.returns /\ P'.requestTime = "zero" /\ ~HeadR(PQ')
        BY <1>3, <1>4, <1>5, <3>1, <3>3 DEF Forgets
      <4>2. ~(PQ' = << >> /\ MayAnswer(F, FL, FQ)')
        BY <1>3, <1>4, <1>5, <2>2, <2>3, <3>3
      <4> QED BY <1>3, <1>4, <3>3, <4>1, <4>2 DEF Synced
    <3>4. CASE IsQ(h)
      <4>1. P.requestTime # "recent"
        BY <1>4, <1>5, <2>1, <3>4
      <4>2. r.returns /\ (Notes(b, h.pdu, P') \/ Counts(b, h.pdu, P'))
        BY <1>4, <3>1, <3>4, <4>1 DEF Clears
      <4>3. P'.misses \in Nat /\ PrimaryMissesMax \in Nat
        BY <1>1, MissesAssumption DEF Types, Fields
      <4>4. P'.isActive \/ P'.requestTime = "recent"
        BY <3>1, <4>2, <4>3 DEF Notes, Counts
      <4>5. HeadR(PQ') \/ (PQ' = << >> /\ Outstanding')
        BY <1>3, <1>5, <1>7, <2>2, <3>4
      <4>6. PL' # "down" /\ ~IsR(h)
        BY <1>3, <1>4, <3>4
      <4> QED BY <2>1, <4>2, <4>4, <4>5, <4>6 DEF Synced
    <3> QED BY <1>4, <3>2, <3>3, <3>4
  <2> QED BY <1>6, <2>6, <2>7
<1>10. InStep' /\ UNCHANGED <<truth, fresh>>
  <2>1. Primary \in Nodes
    BY DEF Nodes
  <2> QED BY <1>9, <2>1, ReadInStep DEF r, P, PQ
<1> QED BY <1>8, <1>9, <1>10 DEF SInv

-------------------------------------------------------------------------------
(***************************************************************************)
(* The theorem.                                                            *)
(***************************************************************************)
LEMMA SNext == ASSUME Deployment, SInv, [Next]_vars PROVE SInv'
<1>1. VInv'
  BY VNext DEF SInv
<1>2. ASSUME NEW f \in Requests, Send(f) PROVE SInv'
  BY <1>1, <1>2, SendSync
<1>3. CASE Receive
  BY <1>1, <1>3, ReceiveSync
<1>4. CASE GiveUp \/ Rest
  BY <1>1, <1>4, TimeSync
<1>5. CASE ForceBack
  BY <1>1, <1>5, ForceBackSync
<1>6. ASSUME NEW s \in Nodes, ServerStep(s) PROVE SInv'
  <2>1. CASE ReadAndHandle(s)
    BY <1>1, <2>1, ReadPrimarySync, ReadFailoverSync DEF Nodes
  <2>2. CASE Sleep(s)
    BY <1>1, <2>2, SleepSync
  <2>3. CASE Write(s) \/ WakeUp(s)
    <3>1. /\ WriteNow(s) /\ loop[s] \in {"reply", "sleep"}
          /\ loop[s] = "sleep" => PQ = << >>
          /\ loop[s] = "reply" => ~(conn[s].isActive /\ conn[s].isFailover)
      BY <2>3 DEF Write, WakeUp, SleepsBeforeWrite, PQ
    <3>2. CASE ~conn[s].isActive
      BY <1>1, <3>1, <3>2, DroppedSync
    <3>3. CASE conn[s].isActive /\ s = Primary
      <4>1. loop[Primary] # "sleep"
        BY DEF SInv, VInv, TInv, TypeOK
      <4> QED BY <1>1, <3>1, <3>3, <4>1, PrimarySync DEF P, PL
    <3>4. CASE conn[s].isActive /\ s = Failover
      <4>1. conn[Failover].isFailover
        BY DEF SInv, VInv, TInv, TypeOK, Nodes
      <4> QED BY <1>1, <3>1, <3>4, <4>1, FailoverSync DEF F, FL
    <3> QED BY <3>2, <3>3, <3>4 DEF Nodes
  <2> QED BY <1>6, <2>1, <2>2, <2>3 DEF ServerStep
<1>7. ASSUME NEW s \in Nodes, Stop(s) PROVE SInv'
  BY <1>1, <1>7, StopSync
<1>8. ASSUME NEW s \in Nodes, Start(s) PROVE SInv'
  BY <1>1, <1>8, StartSync
<1>9. CASE UNCHANGED vars
  <2>1. /\ UNCHANGED <<client, in, inbox, smem, truth, fresh>>
        /\ P' = P /\ F' = F /\ PL' = PL /\ FL' = FL /\ PQ' = PQ /\ FQ' = FQ
    BY <1>9 DEF vars, P, F, PL, FL, PQ, FQ
  <2>2. /\ Outstanding' <=> Outstanding
        /\ MayAnswer(P, PL, PQ)' <=> MayAnswer(P, PL, PQ)
        /\ MayAnswer(F, FL, FQ)' <=> MayAnswer(F, FL, FQ)
    BY <2>1 DEF Outstanding, MayAnswer
  <2>3. /\ Primary \in fresh => Synced(P, PL, PQ, MayAnswer(F, FL, FQ))'
        /\ Failover \in fresh => Synced(F, FL, FQ, MayAnswer(P, PL, PQ))'
    BY <2>1, <2>2 DEF SInv, Synced
  <2> QED BY <1>1, <2>1, <2>3, SameStep
<1> QED BY <1>2, <1>3, <1>4, <1>5, <1>6, <1>7, <1>8, <1>9 DEF Next

\* The standby of failover.go stays in sync for a hot switch over: in a Deployment,
\* a server that has been up since the start and has read all that was sent has
\* executed every request and broadcast, in their order, and no reply, while it
\* was passive as while it was active.
THEOREM StandbyExecutesAll == ASSUME Deployment PROVE Spec => []StandbyInSync
<1>1. SInv => StandbyInSync
  <2> SUFFICES ASSUME SInv, NEW s \in fresh, inbox[s] = << >> PROVE smem[s] = truth
    BY DEF StandbyInSync
  <2>1. smem[s] \in Memories /\ Replays(smem[s], << >>, truth)
    BY DEF SInv, InStep, VInv, TInv
  <2> QED BY <2>1, ReplaysNothing
<1>2. SInv /\ [Next]_vars => SInv'
  BY SNext
<1> QED BY <1>1, <1>2, SInit, PTL DEF Spec
================================================================================
