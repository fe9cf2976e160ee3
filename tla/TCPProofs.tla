------------------------------- MODULE TCPProofs -------------------------------
(***************************************************************************)
(* Proofs about TCPClient: for any number of callers, any requests, any    *)
(* memories and any bytes from strangers.                                  *)
(***************************************************************************)
EXTENDS TCP, HandlingProofs, TLAPS

-------------------------------------------------------------------------------
(***************************************************************************)
(* Frames on a stream.                                                     *)
(***************************************************************************)
Frame(p) == writeTCP(NewBuffer, p)

\* A stream that holds the frame of p, with zeros in the rest of the header, and
\* nothing else.
IsFrame(s, p) ==
    /\ s \in Seq(Byte) /\ Len(s) = Len(p) + 7
    /\ s[1] = 0 /\ s[2] = 0 /\ s[3] = 0 /\ s[4] = 0 /\ s[7] = 0
    /\ s[5] = High(Len(p) + 1) /\ s[6] = Low(Len(p) + 1)
    /\ \A i \in 1..Len(p) : s[i + 7] = p[i]

\* A 16-bit number is recovered from its two bytes.
LEMMA TwoBytes ==
    ASSUME NEW l \in Nat, l < 65536
    PROVE  High(l) \in Byte /\ Low(l) \in Byte /\ High(l) * 256 + Low(l) = l
BY DEF High, Low, Byte

\* writeTCP makes a frame, with a header of zeros.
LEMMA Framed ==
    ASSUME NEW p \in Seq(Byte), Len(p) + 1 < 65536,
           NEW h \in Seq(Byte), Len(h) >= 7,
           h[1] = 0, h[2] = 0, h[3] = 0, h[4] = 0, h[7] = 0
    PROVE  IsFrame(writeTCP(h, p), p)
<1> DEFINE n == Len(p)
           x == High(n + 1)
           y == Low(n + 1)
           a == SubSeq(h, 1, 4)
           b == <<x, y, h[7]>>
           c == a \o b
           s == c \o p
<1>1. n \in Nat /\ n + 1 < 65536
  OBVIOUS
<1>2. x \in Byte /\ y \in Byte /\ 0 \in Byte
  <2>1. 0 \in Byte
    BY DEF Byte
  <2> HIDE DEF n
  <2> QED BY <1>1, <2>1, TwoBytes
<1>3. writeTCP(h, p) = s
  BY DEF writeTCP
<1> HIDE DEF n, x, y
<1>4. /\ a \in Seq(Byte) /\ Len(a) = 4
      /\ a[1] = 0 /\ a[2] = 0 /\ a[3] = 0 /\ a[4] = 0
  <2>1. Len(h) \in Nat /\ \A i \in 1..4 : h[i] \in Byte
    BY <1>2
  <2>2. a \in Seq(Byte) /\ Len(a) = 4 /\ \A i \in 1..4 : a[i] = h[i]
    BY <2>1, SubSeqProperties
  <2> HIDE DEF a
  <2> QED BY <2>2
<1>5. b \in Seq(Byte) /\ Len(b) = 3 /\ b[1] = x /\ b[2] = y /\ b[3] = 0
  BY <1>2
<1> HIDE DEF a, b
<1>6. /\ c \in Seq(Byte) /\ Len(c) = 7
      /\ \A i \in 1..7 : c[i] = IF i <= 4 THEN a[i] ELSE b[i - 4]
  <2>1. /\ a \o b \in Seq(Byte) /\ Len(a \o b) = Len(a) + Len(b)
        /\ \A i \in 1..(Len(a) + Len(b)) :
              (a \o b)[i] = IF i <= Len(a) THEN a[i] ELSE b[i - Len(a)]
    <3>1. a \in Seq(Byte) /\ b \in Seq(Byte)
      BY <1>4, <1>5
    <3> HIDE DEF c, s
    <3> QED BY <3>1, ConcatProperties
  <2>2. Len(a) = 4 /\ Len(b) = 3
    BY <1>4, <1>5
  <2> QED BY <2>1, <2>2
<1> HIDE DEF c
<1>7. /\ s \in Seq(Byte) /\ Len(s) = 7 + n
      /\ \A i \in 1..(7 + n) : s[i] = IF i <= 7 THEN c[i] ELSE p[i - 7]
  <2>1. /\ c \o p \in Seq(Byte) /\ Len(c \o p) = Len(c) + Len(p)
        /\ \A i \in 1..(Len(c) + Len(p)) :
              (c \o p)[i] = IF i <= Len(c) THEN c[i] ELSE p[i - Len(c)]
    <3>1. c \in Seq(Byte)
      BY <1>6
    <3> HIDE DEF s
    <3> QED BY <3>1, ConcatProperties
  <2>2. Len(c) = 7 /\ Len(p) = n
    BY <1>6 DEF n
  <2> QED BY <2>1, <2>2
<1> HIDE DEF s
<1>8. \A i \in 1..7 : s[i] = c[i]
  BY <1>1, <1>7
<1>9. /\ c[1] = a[1] /\ c[2] = a[2] /\ c[3] = a[3] /\ c[4] = a[4]
      /\ c[5] = b[1] /\ c[6] = b[2] /\ c[7] = b[3]
  BY <1>6
<1>10. /\ s[1] = 0 /\ s[2] = 0 /\ s[3] = 0 /\ s[4] = 0 /\ s[5] = x /\ s[6] = y /\ s[7] = 0
  BY <1>4, <1>5, <1>8, <1>9
<1>11. \A i \in 1..n : s[i + 7] = p[i]
  <2> TAKE i \in 1..n
  <2>1. i + 7 \in 1..(7 + n) /\ ~(i + 7 <= 7) /\ i + 7 - 7 = i
    BY <1>1
  <2>2. s[i + 7] = p[i + 7 - 7]
    BY <1>7, <2>1
  <2> QED BY <2>1, <2>2
<1>12. Len(s) = n + 7
  BY <1>1, <1>7
<1>13. s \in Seq(Byte)
  BY <1>7
<1>14. IsFrame(s, p)
  BY <1>10, <1>11, <1>12, <1>13 DEF IsFrame, n, x, y
<1> QED BY <1>3, <1>14

LEMMA FrameIs ==
    ASSUME NEW p \in Seq(Byte), Len(p) + 1 < 65536
    PROVE  IsFrame(Frame(p), p)
<1> DEFINE h == NewBuffer
<1>1. 0 \in Byte
  BY DEF Byte
<1>2. /\ h \in Seq(Byte) /\ Len(h) = 7
      /\ h[1] = 0 /\ h[2] = 0 /\ h[3] = 0 /\ h[4] = 0 /\ h[7] = 0
  BY <1>1 DEF NewBuffer
<1> HIDE DEF h
<1>3. Len(h) >= 7
  BY <1>2
<1>4. IsFrame(writeTCP(h, p), p)
  BY <1>2, <1>3, Framed
<1> QED BY <1>4 DEF Frame, h

\* There is one frame of a PDU.
LEMMA OneFrame ==
    ASSUME NEW p \in Seq(Byte), NEW s, NEW t, IsFrame(s, p), IsFrame(t, p)
    PROVE  s = t
<1> DEFINE n == Len(p)
<1>1. n \in Nat
  OBVIOUS
<1>2. /\ s \in Seq(Byte) /\ t \in Seq(Byte) /\ Len(s) = n + 7 /\ Len(t) = n + 7
      /\ s[1] = t[1] /\ s[2] = t[2] /\ s[3] = t[3] /\ s[4] = t[4]
      /\ s[5] = t[5] /\ s[6] = t[6] /\ s[7] = t[7]
      /\ \A i \in 1..n : s[i + 7] = t[i + 7]
  BY DEF IsFrame
<1> HIDE DEF n
<1>3. ASSUME NEW j \in 1..(n + 7) PROVE s[j] = t[j]
  <2>1. \/ j = 1 \/ j = 2 \/ j = 3 \/ j = 4 \/ j = 5 \/ j = 6 \/ j = 7
        \/ (j - 7 \in 1..n /\ j - 7 + 7 = j)
    BY <1>1
  <2> QED BY <1>2, <2>1
<1>4. Len(t) = Len(s) /\ \A j \in 1..Len(s) : t[j] = s[j]
  BY <1>2, <1>3
<1> QED BY <1>2, <1>4, SameSequence

\* A reply goes out with the header of the request, in which only the length is set.
LEMMA ReplyHeader ==
    ASSUME NEW p \in Seq(Byte), Len(p) + 1 < 65536,
           NEW r \in Seq(Byte), Len(r) + 1 < 65536
    PROVE  writeTCP(Frame(p), r) = Frame(r)
<1> DEFINE h == Frame(p)
<1>1. IsFrame(h, p) /\ IsFrame(Frame(r), r)
  BY FrameIs
<1>2. Len(p) \in Nat
  OBVIOUS
<1> HIDE DEF h
<1>3. /\ h \in Seq(Byte) /\ Len(h) = Len(p) + 7
      /\ h[1] = 0 /\ h[2] = 0 /\ h[3] = 0 /\ h[4] = 0 /\ h[7] = 0
  BY <1>1 DEF IsFrame
<1>4. Len(h) >= 7
  BY <1>2, <1>3
<1>5. IsFrame(writeTCP(h, r), r)
  BY <1>3, <1>4, Framed
<1> QED BY <1>1, <1>5, OneFrame DEF h

\* What readTCP and those who use its result find in a frame.
LEMMA FrameRead ==
    ASSUME NEW p \in Seq(Byte), Len(p) + 1 < 65536
    PROVE  LET s == Frame(p)
           IN  /\ s \in Seq(Byte) /\ Len(s) = Len(p) + 7 /\ s # << >>
               /\ s[3] = 0 /\ s[4] = 0 /\ s[5] * 256 + s[6] = Len(p) + 1
               /\ FramePDU(s) = p /\ From(s, FrameLength(s)) = << >>
<1> DEFINE s == Frame(p)
           n == Len(p)
<1>1. n \in Nat /\ n + 1 \in Nat /\ n + 1 < 65536
  OBVIOUS
<1>2. IsFrame(s, p)
  BY FrameIs
<1>3. /\ s \in Seq(Byte) /\ Len(s) = n + 7 /\ s[3] = 0 /\ s[4] = 0
      /\ s[5] = High(n + 1) /\ s[6] = Low(n + 1)
      /\ \A i \in 1..n : s[i + 7] = p[i]
  <2> HIDE DEF s
  <2> QED BY <1>2 DEF IsFrame
<1> HIDE DEF s, n
<1>4. s[5] \in Byte /\ s[6] \in Byte /\ s[5] * 256 + s[6] = n + 1
  BY <1>1, <1>3, TwoBytes
<1>5. FrameLength(s) = n + 7
  <2> DEFINE u == s[5]
             v == s[6]
  <2>1. u \in Nat /\ v \in Nat /\ u * 256 + v = n + 1
    BY <1>4 DEF Byte
  <2>2. FrameLength(s) = 6 + u * 256 + v
    BY DEF FrameLength, TCPHeaderLength
  <2> HIDE DEF u, v
  <2> QED BY <1>1, <2>1, <2>2
<1>6. s # << >>
  BY <1>1, <1>3
<1>7. FramePDU(s) = p
  <2> DEFINE e == n + 7
             q == SubSeq(s, 8, e)
  <2>1. FramePDU(s) = q
    BY <1>5 DEF FramePDU, MBAPHeaderLength, TCPHeaderLength
  <2>2. e \in Int /\ \A i \in 8..e : s[i] \in Byte
    BY <1>1, <1>3
  <2>3. e - 8 + 1 = n /\ (8 <= e \/ n = 0) /\ \A i \in 1..n : 8 + i - 1 = i + 7
    BY <1>1
  <2> HIDE DEF e
  <2>4. /\ q \in Seq(Byte) /\ Len(q) = IF 8 <= e THEN e - 8 + 1 ELSE 0
        /\ \A i \in 1..(e - 8 + 1) : q[i] = s[8 + i - 1]
    BY <2>2, SubSeqProperties
  <2> HIDE DEF q
  <2>5. Len(q) = n /\ \A i \in 1..n : q[i] = p[i]
    BY <1>1, <1>3, <2>2, <2>3, <2>4
  <2>6. Len(q) = Len(p) /\ \A i \in 1..Len(p) : q[i] = p[i]
    BY <2>5 DEF n
  <2> QED BY <2>1, <2>4, <2>6, SameSequence
<1>8. From(s, FrameLength(s)) = << >>
  <2>1. From(s, FrameLength(s)) = SubSeq(s, n + 7 + 1, n + 7)
    BY <1>3, <1>5 DEF From
  <2> QED BY <1>1, <2>1, SubSeqEmpty
<1> QED BY <1>3, <1>4, <1>6, <1>7, <1>8 DEF s, n

\* readTCP of a whole frame that fits in the buffer, and of an empty stream.
LEMMA ReadFrame ==
    ASSUME NEW p \in Seq(Byte), Len(p) >= 2, Len(p) + 1 < 65536,
           NEW size \in Nat, Len(p) + 7 <= size, NEW ended
    PROVE  readTCP(Frame(p), size, ended) = "frame"
<1> DEFINE s == Frame(p)
<1>1. /\ Len(s) = Len(p) + 7 /\ s[3] = 0 /\ s[4] = 0
      /\ s[5] * 256 + s[6] = Len(p) + 1
  BY FrameRead
<1> HIDE DEF s
<1>2. readTCP(s, size, ended) = "frame"
  BY <1>1 DEF readTCP, TCPHeaderLength
<1> QED BY <1>2 DEF s

LEMMA ReadNothing ==
    ASSUME NEW size, NEW ended
    PROVE  readTCP(<< >>, size, ended) = IF ended THEN "error" ELSE "wait"
<1>1. Len(<< >>) < TCPHeaderLength
  BY DEF TCPHeaderLength
<1> QED BY <1>1 DEF readTCP

\* Bytes stay bytes: what is left of a stream, and the PDU of a frame in it.
LEMMA StreamBytes ==
    ASSUME NEW s \in Seq(Byte), NEW size, NEW ended, readTCP(s, size, ended) = "frame"
    PROVE  FramePDU(s) \in Seq(Byte) /\ From(s, FrameLength(s)) \in Seq(Byte)
<1> DEFINE n == FrameLength(s)
<1>1. Len(s) \in Nat /\ ~(Len(s) < 6)
  BY DEF readTCP, TCPHeaderLength
<1>2. s[5] \in Byte /\ s[6] \in Byte
  BY <1>1
<1>3. n \in Nat /\ n >= 6 /\ n = s[5] * 256 + s[6] + 6
  BY <1>2 DEF FrameLength, TCPHeaderLength, Byte
<1>4. ~(Len(s) < s[5] * 256 + s[6] + 6)
  BY <1>1 DEF readTCP, TCPHeaderLength
<1> HIDE DEF n
<1>5. n <= Len(s)
  BY <1>1, <1>3, <1>4
<1>6. \A i \in 1..Len(s) : s[i] \in Byte
  OBVIOUS
<1>7. SubSeq(s, 8, n) \in Seq(Byte)
  BY <1>1, <1>3, <1>5
<1>8. SubSeq(s, n + 1, Len(s)) \in Seq(Byte)
  BY <1>1, <1>3, <1>5
<1> QED BY <1>7, <1>8 DEF FramePDU, From, MBAPHeaderLength, TCPHeaderLength, n

-------------------------------------------------------------------------------
(***************************************************************************)
(* The invariant.  The one frame of the client's connection is a request   *)
(* on its way to the server, or the reply to the request written last, or  *)
(* there is none; and while the client's end is open there is one only     *)
(* while somebody waits for it.                                            *)
(***************************************************************************)
Reading == \E c \in Callers : caller[c].pc = "read"
Holding == \E c \in Callers : caller[c].pc = "reply"
Pending == \E c \in Callers : caller[c].pc \in {"read", "reply"}
Cancelling == \E c \in Callers : caller[c].pc = "cancel"

CallersOK ==
    /\ caller \in [Callers -> [pc : Pcs, i : Nat, err : Errors]]
    /\ \A c \in Callers : caller[c].i \in 1..Len(Work[c])
    /\ \A c, d \in Callers : caller[c].pc \in Busy /\ caller[d].pc \in Busy => c = d

TypesOK ==
    /\ conns \in [Connections -> {"queued", "served", "closed"}]
    /\ {cancelled, open, listening} \subseteq BOOLEAN
    /\ IsMemory(mem) /\ IsMemory(smem)
    /\ toServer \in [Connections -> Seq(Byte)]

\* A request whose execution is known: it can be framed, and a read asks for what
\* one packet holds.
Askable(p) ==
    /\ p \in Seq(Byte) /\ Len(p) + 1 < 65536
    /\ IsReadToServer(GetFunctionCode(p)) => Count(p) \in 1..MaxPerPacket(GetFunctionCode(p))

\* The server executes the requests one by one, in the order they were written.
Histories ==
    /\ written \in Seq(Seq(Byte)) /\ \A n \in 1..Len(written) : Askable(written[n])
    /\ IsSeq(log) /\ Len(log) <= Len(written)
    /\ \A k \in 1..Len(log) : log[k].txn = k

\* A reply that the client's buffer has room for.
Short(r) == r \in Seq(Byte) /\ Len(r) \in 2..255

\* rp reports what the server made of the request written last.
Reports(rp) ==
    /\ Short(rp)
    /\ Len(written) >= 1 /\ Len(log) = Len(written)
    /\ log[Len(log)] = Execution([txn |-> Len(written), pdu |-> Sent], rp)

Quiet == toServer[Client] = << >> /\ toClient = << >>
Asked == /\ conns[Client] # "closed"
         /\ Len(written) >= 1 /\ Len(log) = Len(written) - 1
         /\ toServer[Client] = Frame(Sent) /\ toClient = << >>
Answered == /\ toServer[Client] = << >> /\ toClient # << >>
            /\ toClient = Frame(FramePDU(toClient)) /\ Reports(FramePDU(toClient))

Flow ==
    /\ Quiet \/ Asked \/ Answered
    /\ open /\ ~Reading => /\ Quiet
                           /\ conns[Client] # "closed" => Len(log) = Len(written)
    /\ Holding => Quiet /\ Reports(reply)

\* A write in progress carries the values that the client's own memory has until
\* the transaction ends.
CarriesOwn(m, p) ==
    /\ HasRange(m, p) /\ Count(p) \in Nat /\ WrittenValues(p) = ValuesAsked(m, p)

Prepared ==
    Pending => /\ Len(written) >= 1
               /\ IsWriteToServer(GetFunctionCode(Sent)) => CarriesOwn(mem, Sent)

TInv == CallersOK /\ TypesOK /\ Histories /\ Flow /\ Prepared

-------------------------------------------------------------------------------
(***************************************************************************)
(* What goes over the connection.                                          *)
(***************************************************************************)
LEMMA HasLength ==
    ASSUME NEW r \in Seq(Byte), NEW l \in 2..255, Len(r) = l
    PROVE  Short(r)
BY DEF Short

\* A reply to a request that is valid fits the client's buffer, whatever the memory.
LEMMA ReplyLength ==
    ASSUME NEW m, IsMemory(m), NEW p \in Seq(Byte), ValidateRequest(p) = NoErr,
           IsReadToServer(GetFunctionCode(p)) =>
              Count(p) \in 1..MaxPerPacket(GetFunctionCode(p))
    PROVE  LET h == Dispatch(m, p)
           IN  /\ h = Handle(m, p)
               /\ Short(h.reply)
<1> DEFINE h == Dispatch(m, p)
           d == OnRead(m, p).data
<1>1. h = Handle(m, p)
  BY DEF Handle
<1>2. Len(p) >= 3 /\ p # << >>
  BY Validated
<1>3. ASSUME NEW x, NEW e, h = Failed(x, p, e)
      PROVE  Short(h.reply)
  <2>1. h.reply = ExceptionReplyPacket(p, ToExceptionCode(e))
    BY <1>3 DEF Failed
  <2> HIDE DEF h
  <2>2. h.reply \in Seq(Byte) /\ Len(h.reply) = 2
    BY <2>1, ExceptionType
  <2>3. 2 \in 2..255
    OBVIOUS
  <2> QED BY <2>2, <2>3, HasLength
<1> HIDE DEF h
<1>4. ASSUME IsReadToServer(GetFunctionCode(p)) PROVE Short(h.reply)
  <2>1. h = HandleRead(m, p)
    BY <1>4 DEF Dispatch, h
  <2>2. CASE OnRead(m, p).err # NoErr
    <3>1. h = Failed(m, p, OnRead(m, p).err)
      BY <2>1, <2>2 DEF HandleRead
    <3> QED BY <1>3, <3>1
  <2>3. CASE OnRead(m, p).err = NoErr
    <3>1. d \in Seq(Byte) /\ h.reply = MakeReadReply(p, d)
      BY <1>2, <2>1, <2>3, HandledRead
    <3>2. Count(p) <= MaxPerPacket(GetFunctionCode(p))
      BY <1>4
    <3>3. Len(d) \in Nat /\ Len(d) <= 250
      BY <1>4, <2>3, <3>2, ReadData
    <3> HIDE DEF d
    <3>4. h.reply \in Seq(Byte) /\ Len(h.reply) = Len(d) + 2
      BY <1>2, <3>1, ReadReplyBytes
    <3> DEFINE k == Len(d)
               l == k + 2
    <3>5. Len(h.reply) = l
      BY <3>4
    <3>6. l \in 2..255
      <4>1. k \in Nat /\ k <= 250
        BY <3>3
      <4> HIDE DEF k
      <4> QED BY <4>1
    <3> HIDE DEF l
    <3> QED BY <3>4, <3>5, <3>6, HasLength
  <2> QED BY <2>2, <2>3
<1>5. ASSUME ~IsReadToServer(GetFunctionCode(p)) PROVE Short(h.reply)
  <2> DEFINE v == GetRequestValues(p)
             w == OnWrite(m, p, v.data)
  <2>1. h = HandleWrite(m, p)
    BY <1>5 DEF Dispatch, h
  <2>2. CASE v.err # NoErr
    <3>1. h = Failed(m, p, v.err)
      BY <2>1, <2>2 DEF HandleWrite
    <3> QED BY <1>3, <3>1
  <2>3. CASE v.err = NoErr /\ w.err # NoErr
    <3>1. h = Failed(w.mem, p, w.err)
      BY <2>1, <2>3 DEF HandleWrite
    <3> QED BY <1>3, <3>1
  <2>4. CASE v.err = NoErr /\ w.err = NoErr
    <3>1. h.reply = MakeWriteReply(p)
      BY <2>1, <2>4 DEF HandleWrite
    <3>2. Len(p) >= 5
      BY <1>2, <2>4, RequestData
    <3>3. h.reply \in Seq(Byte) /\ Len(h.reply) = 5
      BY <3>1, <3>2, WriteReplyBytes
    <3>4. 5 \in 2..255
      OBVIOUS
    <3> QED BY <3>3, <3>4, HasLength
  <2> QED BY <2>2, <2>3, <2>4
<1> QED BY <1>1, <1>4, <1>5 DEF h

\* A write that the client makes of a header can be framed.
LEMMA WriteLength ==
    ASSUME NEW p \in Seq(Byte), Len(p) >= 5, GetRequestValues(p).err = NoErr,
           Count(p) \in Nat, Count(p) <= 2000
    PROVE  Len(p) + 1 < 65536
<1> DEFINE f == GetFunctionCode(p)
           n == Len(p)
           l == Len(GetRequestValues(p).data)
           c == Count(p)
<1>1. n \in Nat
  OBVIOUS
<1>2. /\ IsSingle(f) => n = 5
      /\ ~IsSingle(f) => l = n - 6 /\ Fits(f, l, c)
  <2>1. Len(p) >= 3
    OBVIOUS
  <2> QED BY <2>1, RequestValues
<1>3. c \in Nat /\ c <= 2000
  OBVIOUS
<1> HIDE DEF f, n, l, c
<1>4. Fits(f, l, c) => l <= 4000
  BY <1>3 DEF Fits
<1>5. n + 1 < 65536
  <2>1. CASE IsSingle(f)
    BY <1>2, <2>1
  <2>2. CASE ~IsSingle(f)
    BY <1>1, <1>2, <1>4, <2>2
  <2> QED BY <2>1, <2>2
<1> QED BY <1>5 DEF n

-------------------------------------------------------------------------------
(***************************************************************************)
(* The callers.                                                            *)
(***************************************************************************)
\* A caller that holds the lock is the only one who can be waiting.
LEMMA Alone ==
    ASSUME CallersOK, NEW c \in Callers, caller[c].pc \in Busy
    PROVE  /\ Reading <=> caller[c].pc = "read"
           /\ Holding <=> caller[c].pc = "reply"
           /\ Pending <=> caller[c].pc \in {"read", "reply"}
<1>1. \A d \in Callers : caller[d].pc \in Busy => d = c
  BY DEF CallersOK
<1> QED BY <1>1 DEF Busy, Reading, Holding, Pending

\* The lock is free exactly when nobody is busy.
LEMMA NoneBusy ==
    ASSUME CallersOK, LockFree PROVE \A d \in Callers : caller[d].pc \notin Busy
BY DEF LockFree, Busy

\* The caller who holds the lock, or takes it, goes on.
LEMMA MovesCaller ==
    ASSUME CallersOK, NEW c \in Callers, NEW pc \in Busy \ {"cancel"}, Moves(c, pc),
           caller[c].pc \in Busy \/ LockFree
    PROVE  /\ CallersOK' /\ ~Cancelling'
           /\ Reading' <=> pc = "read"
           /\ Holding' <=> pc = "reply"
           /\ Pending' <=> pc # "send"
           /\ Told' = Told /\ caller'[c].pc = pc
<1>1. \A d \in Callers : d # c => caller[d].pc \notin Busy
  BY NoneBusy DEF CallersOK
<1>2. caller \in [Callers -> [pc : Pcs, i : Nat, err : Errors]]
  BY DEF CallersOK
<1>3. caller' = [caller EXCEPT ![c] = [caller[c] EXCEPT !.pc = pc]]
  BY DEF Moves
<1>4. pc \in Pcs
  BY DEF Busy, Pcs
<1>5. /\ caller' \in [Callers -> [pc : Pcs, i : Nat, err : Errors]]
      /\ caller'[c].pc = pc /\ caller'[c].i = caller[c].i /\ caller'[c].err = caller[c].err
      /\ \A d \in Callers : d # c => caller'[d] = caller[d]
  BY <1>2, <1>3, <1>4
<1>6. \A d \in Callers : caller'[d].i \in 1..Len(Work[d])
  BY <1>5 DEF CallersOK
<1>7. \A d \in Callers : caller'[d].pc \in Busy => d = c
  BY <1>1, <1>5
<1>8. CallersOK'
  BY <1>5, <1>6, <1>7 DEF CallersOK
<1>9. /\ Reading' <=> pc = "read"
      /\ Holding' <=> pc = "reply"
      /\ Pending' <=> pc # "send"
      /\ ~Cancelling'
  BY <1>5, <1>7 DEF Busy, Reading, Holding, Pending, Cancelling
<1>10. Told' = Told
  BY <1>5 DEF Told
<1> QED BY <1>5, <1>8, <1>9, <1>10

\* The caller who holds the lock is given x as its state and holds it no more, or
\* only to cancel.
LEMMA LeavesCaller ==
    ASSUME CallersOK, NEW c \in Callers, caller[c].pc \in Busy,
           NEW x \in [pc : {"lock", "cancel", "done"}, i : 1..Len(Work[c]), err : Errors],
           caller' = [caller EXCEPT ![c] = x]
    PROVE  /\ CallersOK' /\ ~Reading' /\ ~Holding' /\ ~Pending'
           /\ Cancelling' <=> x.pc = "cancel"
           /\ Told' = [Told EXCEPT ![c] = x.err]
<1>1. \A d \in Callers : d # c => caller[d].pc \notin Busy
  BY DEF CallersOK
<1>2. caller \in [Callers -> [pc : Pcs, i : Nat, err : Errors]]
  BY DEF CallersOK
<1>3. Len(Work[c]) \in Nat
  <2>1. Work[c] \in Seq(Seq(Byte))
    BY TCPAssumption
  <2> QED BY <2>1
<1>4. /\ x \in [pc : Pcs, i : Nat, err : Errors]
      /\ x.pc \in {"lock", "cancel", "done"} /\ x.i \in 1..Len(Work[c])
  BY <1>3 DEF Pcs, Busy
<1>5. /\ caller' \in [Callers -> [pc : Pcs, i : Nat, err : Errors]]
      /\ caller'[c] = x
      /\ \A d \in Callers : d # c => caller'[d] = caller[d]
  BY <1>2, <1>4
<1>6. \A d \in Callers : caller'[d].i \in 1..Len(Work[d])
  BY <1>4, <1>5 DEF CallersOK
<1>7. \A d \in Callers : caller'[d].pc \in Busy => d = c
  BY <1>1, <1>5
<1>8. CallersOK'
  BY <1>5, <1>6, <1>7 DEF CallersOK
<1>9. ~Reading' /\ ~Holding' /\ ~Pending' /\ (Cancelling' <=> x.pc = "cancel")
  BY <1>4, <1>5, <1>7 DEF Busy, Reading, Holding, Pending, Cancelling
<1>10. Told' = [Told EXCEPT ![c] = x.err]
  BY <1>5 DEF Told
<1> QED BY <1>8, <1>9, <1>10

\* It gets its result.
LEMMA FinishCaller ==
    ASSUME CallersOK, NEW c \in Callers, NEW err \in Errors, Finish(c, err),
           caller[c].pc \in Busy
    PROVE  /\ CallersOK' /\ ~Reading' /\ ~Holding' /\ ~Pending' /\ ~Cancelling'
           /\ Told' = [Told EXCEPT ![c] = err]
<1> DEFINE n == Len(Work[c])
           i == caller[c].i
           x == IF err = NoErr /\ i < n THEN [pc |-> "lock", i |-> i + 1, err |-> err]
                ELSE [pc |-> "done", i |-> i, err |-> err]
<1>1. caller' = [caller EXCEPT ![c] = x]
  BY DEF Finish
<1>2. n \in Nat /\ i \in 1..n
  <2>1. Work[c] \in Seq(Seq(Byte))
    BY TCPAssumption
  <2> QED BY <2>1 DEF CallersOK
<1> HIDE DEF n, i
<1>3. x \in [pc : {"lock", "cancel", "done"}, i : 1..n, err : Errors]
      /\ x.pc # "cancel" /\ x.err = err
  BY <1>2
<1> HIDE DEF x
<1> QED BY <1>1, <1>3, LeavesCaller DEF n

\* It fails and goes on to cancel.
LEMMA BreaksCaller ==
    ASSUME CallersOK, NEW c \in Callers, NEW reason, Breaks(c, reason), caller[c].pc \in Busy
    PROVE  /\ CallersOK' /\ ~Reading' /\ ~Holding' /\ ~Pending'
           /\ Told' = [Told EXCEPT ![c] = ErrOther]
<1> DEFINE x == [pc |-> "cancel", i |-> caller[c].i, err |-> ErrOther]
<1>1. caller \in [Callers -> [pc : Pcs, i : Nat, err : Errors]] /\ caller[c].i \in 1..Len(Work[c])
  BY DEF CallersOK
<1>2. caller' = [caller EXCEPT ![c] = x]
  BY <1>1 DEF Breaks
<1>3. x \in [pc : {"lock", "cancel", "done"}, i : 1..Len(Work[c]), err : Errors]
      /\ x.err = ErrOther
  BY <1>1, KnownErrors
<1> HIDE DEF x
<1> QED BY <1>2, <1>3, LeavesCaller

\* It has cancelled.
LEMMA CancelsCaller ==
    ASSUME CallersOK, NEW c \in Callers, Moves(c, "done"), caller[c].pc = "cancel"
    PROVE  /\ CallersOK' /\ ~Reading' /\ ~Holding' /\ ~Pending' /\ ~Cancelling'
           /\ Told' = Told
<1> DEFINE x == [caller[c] EXCEPT !.pc = "done"]
<1>1. caller \in [Callers -> [pc : Pcs, i : Nat, err : Errors]] /\ caller[c].i \in 1..Len(Work[c])
  BY DEF CallersOK
<1>2. caller' = [caller EXCEPT ![c] = x]
  BY <1>1 DEF Moves
<1>3. x \in [pc : {"lock", "cancel", "done"}, i : 1..Len(Work[c]), err : Errors]
      /\ x.pc # "cancel" /\ x.err = caller[c].err
  BY <1>1
<1>4. caller[c].pc \in Busy
  BY DEF Busy
<1> HIDE DEF x
<1>5. /\ CallersOK' /\ ~Reading' /\ ~Holding' /\ ~Pending' /\ ~Cancelling'
      /\ Told' = [Told EXCEPT ![c] = caller[c].err]
  BY <1>2, <1>3, <1>4, LeavesCaller
<1>6. [Told EXCEPT ![c] = caller[c].err] = Told
  BY DEF Told
<1> QED BY <1>5, <1>6

\* Steps of others leave the callers as they are.
LEMMA SameCallers ==
    ASSUME CallersOK, UNCHANGED caller
    PROVE  /\ CallersOK'
           /\ Reading' <=> Reading
           /\ Holding' <=> Holding
           /\ Pending' <=> Pending
<1>1. CallersOK'
  BY DEF CallersOK
<1>2. /\ Reading' <=> Reading
      /\ Holding' <=> Holding
      /\ Pending' <=> Pending
  BY DEF Reading, Holding, Pending
<1> QED BY <1>1, <1>2

-------------------------------------------------------------------------------
(***************************************************************************)
(* Why the client ends.  exitError only ever goes from nil to a reason:    *)
(* whoever cancels ctx has said why before, and Serve, which waits for     *)
(* ctx, takes the reason before it closes the connection.                  *)
(***************************************************************************)
ExitInv ==
    /\ CallersOK
    /\ cancelled \/ Cancelling \/ closer # "none" => exitError # "nil"
    /\ serve \in {"new", "serving", "closing", "returned"}
    /\ serve \in {"closing", "returned"} => result # "nil"
    /\ serve = "returned" => ~open

\* The invariant holds at first.
LEMMA InitCallers == Init => CallersOK /\ ~Reading /\ ~Holding /\ ~Pending /\ ~Cancelling
<1> SUFFICES ASSUME Init
             PROVE  CallersOK /\ ~Reading /\ ~Holding /\ ~Pending /\ ~Cancelling
  OBVIOUS
<1>1. ASSUME NEW c \in Callers PROVE 1 \in 1..Len(Work[c])
  <2>1. Work[c] \in Seq(Seq(Byte)) /\ Work[c] # << >>
    BY TCPAssumption
  <2> QED BY <2>1, NotEmpty
<1>2. /\ \A c \in Callers : caller[c] = [pc |-> "lock", i |-> 1, err |-> NoErr]
      /\ caller = [c \in Callers |-> [pc |-> "lock", i |-> 1, err |-> NoErr]]
  BY DEF Init
<1>3. \A c \in Callers : caller[c].pc \notin Busy
  BY <1>2 DEF Busy
<1>4. caller \in [Callers -> [pc : Pcs, i : Nat, err : Errors]]
  BY <1>2, KnownErrors DEF Pcs
<1>5. ~Reading /\ ~Holding /\ ~Pending /\ ~Cancelling
  BY <1>2 DEF Reading, Holding, Pending, Cancelling
<1> QED BY <1>1, <1>2, <1>3, <1>4, <1>5 DEF CallersOK

LEMMA InitExit == Init => ExitInv
BY InitCallers DEF Init, ExitInv

\* A caller's step either leaves the exit alone, or gives the reason, or cancels.
LEMMA CallerExit ==
    ASSUME CallersOK, NEW c \in Callers, CallerStep(c)
    PROVE  /\ CallersOK'
           /\ \/ UNCHANGED exitVars /\ ~Cancelling'
              \/ \E reason \in {"write", "read", "unexpected"} : Breaks(c, reason)
              \/ /\ Cancelling /\ ~Cancelling' /\ cancelled' = TRUE
                 /\ UNCHANGED <<serve, closer, exitError, result, open>>
<1>0. ErrOther \in Errors /\ NoErr \in Errors
  BY KnownErrors
<1>1. CASE Lock(c)
  <2>1. "send" \in Busy \ {"cancel"} /\ Moves(c, "send") /\ LockFree /\ UNCHANGED exitVars
    BY <1>1 DEF Lock, Busy
  <2> QED BY <2>1, MovesCaller
<1>2. CASE Send(c)
  <2>1. caller[c].pc \in Busy /\ "read" \in Busy \ {"cancel"} /\ UNCHANGED exitVars
        /\ (Finish(c, Outgoing(c).err) \/ Moves(c, "read"))
    BY <1>2 DEF Send, MaySend, Busy
  <2>2. Outgoing(c).err \in Errors
    BY <1>0, OnReadError DEF Outgoing
  <2> QED BY <2>1, <2>2, FinishCaller, MovesCaller
<1>3. CASE SendFails(c) \/ ReceiveFails(c) \/ Unexpected(c)
  <2>1. caller[c].pc \in Busy
        /\ \E reason \in {"write", "read", "unexpected"} : Breaks(c, reason)
    BY <1>3 DEF SendFails, MaySend, ReceiveFails, Unexpected, Busy
  <2> QED BY <2>1, BreaksCaller
<1>4. CASE Receive(c)
  <2>1. caller[c].pc \in Busy /\ "reply" \in Busy \ {"cancel"} /\ UNCHANGED exitVars /\ Moves(c, "reply")
    BY <1>4 DEF Receive, Busy
  <2> QED BY <2>1, MovesCaller
<1>5. CASE ServerError(c) \/ WriteDone(c)
  <2>1. caller[c].pc \in Busy /\ UNCHANGED exitVars
        /\ (Finish(c, ErrOther) \/ Finish(c, NoErr))
    BY <1>5 DEF ServerError, WriteDone, Busy
  <2> QED BY <1>0, <2>1, FinishCaller
<1>6. CASE ReadDone(c)
  <2> DEFINE e == OnWrite(mem, Sent, GetReplyValues(reply).data).err
  <2>1. caller[c].pc \in Busy /\ UNCHANGED exitVars /\ Finish(c, e)
    BY <1>6 DEF ReadDone, Busy
  <2>2. e \in Errors
    BY OnWriteError
  <2> HIDE DEF e
  <2> QED BY <2>1, <2>2, FinishCaller
<1>7. CASE Cancels(c)
  <2>1. /\ caller[c].pc = "cancel" /\ Moves(c, "done") /\ cancelled' = TRUE
        /\ UNCHANGED <<serve, closer, exitError, result, open>>
    BY <1>7 DEF Cancels
  <2> QED BY <2>1, CancelsCaller DEF Cancelling
<1> QED BY <1>1, <1>2, <1>3, <1>4, <1>5, <1>6, <1>7 DEF CallerStep

\* Every step keeps the invariant.
LEMMA NextExit == ASSUME ExitInv, [Next]_vars PROVE ExitInv'
<1>0. CallersOK
  BY DEF ExitInv
<1>1. ASSUME NEW c \in Callers, CallerStep(c) PROVE ExitInv'
  <2>1. CallersOK'
    BY <1>0, <1>1, CallerExit
  <2>2. CASE UNCHANGED exitVars /\ ~Cancelling'
    BY <2>1, <2>2 DEF ExitInv, exitVars
  <2>3. ASSUME NEW reason \in {"write", "read", "unexpected"}, Breaks(c, reason)
        PROVE  ExitInv'
    BY <2>1, <2>3 DEF ExitInv, Breaks
  <2>4. CASE /\ Cancelling /\ ~Cancelling' /\ cancelled' = TRUE
             /\ UNCHANGED <<serve, closer, exitError, result, open>>
    BY <2>1, <2>4 DEF ExitInv
  <2> QED BY <1>0, <1>1, <2>2, <2>3, <2>4, CallerExit
<1>2. ASSUME UNCHANGED caller PROVE CallersOK' /\ (Cancelling' <=> Cancelling)
  BY <1>0, <1>2, SameCallers DEF Cancelling
<1>3. CASE Serves
  <2>1. CallersOK' /\ (Cancelling' <=> Cancelling)
    BY <1>2, <1>3 DEF Serves
  <2>2. CASE StartServe
    BY <2>1, <2>2, Zenon DEF StartServe, ExitInv
  <2>3. CASE ServeEnds
    BY <2>1, <2>3, Zenon DEF ServeEnds, ExitInv
  <2>4. CASE ServeCloses
    BY <2>1, <2>4, Zenon DEF ServeCloses, SetClosed, ExitInv
  <2> QED BY <1>3, <2>2, <2>3, <2>4 DEF Serves
<1>4. CASE Closes
  <2>1. CallersOK' /\ (Cancelling' <=> Cancelling)
    BY <1>2, <1>4 DEF Closes
  <2>2. CASE CloseStarts
    BY <2>1, <2>2, Zenon DEF CloseStarts, SetClosed, ExitInv
  <2>3. CASE CloseEnds
    BY <2>1, <2>3, Zenon DEF CloseEnds, ExitInv
  <2> QED BY <1>4, <2>2, <2>3 DEF Closes
<1>5. ASSUME UNCHANGED clientVars PROVE ExitInv'
  <2>1. UNCHANGED <<caller, serve, closer, cancelled, exitError, result, open>>
    BY <1>5 DEF clientVars
  <2> QED BY <1>2, <2>1 DEF ExitInv
<1>6. CASE CloseListener \/ UNCHANGED vars
  BY <1>5, <1>6 DEF CloseListener, vars, clientVars
<1>7. ASSUME NEW k \in Connections, Accept(k) \/ ServeConn(k) PROVE ExitInv'
  BY <1>5, <1>7 DEF Accept, ServeConn
<1> QED BY <1>1, <1>3, <1>4, <1>6, <1>7 DEF Next

\* Serve of a TCPClient returns only with a reason and with its connection
\* closed, however calls of Close, failing transactions and Serve interleave.
THEOREM ExitsWithReason == Spec => []ExitReason
<1>1. ExitInv => ExitReason
  BY DEF ExitInv, ExitReason
<1> QED BY <1>1, InitExit, NextExit, PTL DEF Spec

-------------------------------------------------------------------------------
(***************************************************************************)
(* The parts of the invariant that most steps leave alone.                 *)
(***************************************************************************)
\* What Quiet, Asked, Answered and Reports are about.
wire == <<toServer, toClient, written, log>>

LEMMA SameWire ==
    ASSUME UNCHANGED wire
    PROVE  /\ Quiet' = Quiet /\ Answered' = Answered
           /\ \A rp : Reports(rp)' = Reports(rp)
           /\ conns'[Client] = conns[Client] => Asked' = Asked
           /\ Histories => Histories'
BY DEF wire, Quiet, Answered, Reports, Asked, Sent, Histories

\* A transaction ends, and what it leaves in the client's memory.
LEMMA EndsTInv ==
    ASSUME TInv, NEW c \in Callers, caller[c].pc \in Busy,
           CallersOK', ~Reading', ~Holding', ~Pending',
           UNCHANGED wire, UNCHANGED <<conns, listening, smem, open>>,
           cancelled' \in BOOLEAN, IsMemory(mem'),
           caller[c].pc = "read" /\ open => Quiet /\ conns[Client] = "closed"
    PROVE  TInv'
<1>1. CallersOK' /\ ~Reading' /\ ~Holding' /\ ~Pending'
  OBVIOUS
<1>2. TypesOK'
  BY DEF TInv, TypesOK, wire
<1>3. Histories' /\ Quiet' = Quiet /\ Answered' = Answered /\ Asked' = Asked
  BY SameWire DEF TInv
<1>4. Prepared'
  BY <1>1 DEF Prepared
<1>5. /\ Reading <=> caller[c].pc = "read"
      /\ Quiet \/ Asked \/ Answered
      /\ open /\ ~Reading => /\ Quiet
                             /\ conns[Client] # "closed" => Len(log) = Len(written)
  BY Alone DEF TInv, Flow
<1>6. /\ Quiet' \/ Asked' \/ Answered'
      /\ open' /\ ~Reading' => /\ Quiet'
                               /\ conns'[Client] # "closed" => Len(log') = Len(written')
  BY <1>3, <1>5 DEF wire
<1>7. Flow'
  BY <1>1, <1>6 DEF Flow
<1> QED BY <1>1, <1>2, <1>3, <1>4, <1>7 DEF TInv

-------------------------------------------------------------------------------
(***************************************************************************)
(* The steps of a caller.                                                  *)
(***************************************************************************)
\* The requests written.
LEMMA WrittenSeq ==
    ASSUME TInv
    PROVE  /\ written \in Seq(Seq(Byte)) /\ IsSeq(written) /\ Len(written) \in Nat
           /\ \A p \in Seq(Byte) :
                 LET w == Append(written, p)
                     n == Len(written)
                 IN  /\ w \in Seq(Seq(Byte)) /\ Len(w) = n + 1 /\ w[n + 1] = p
                     /\ \A k \in 1..n : w[k] = written[k]
<1> DEFINE B == Seq(Byte)
<1>1. written \in Seq(B)
  BY DEF TInv, Histories
<1> HIDE DEF B
<1>2. IsSeq(written) /\ Len(written) \in Nat
  BY <1>1 DEF IsSeq
<1>3. ASSUME NEW p \in B
      PROVE  LET w == Append(written, p)
                 n == Len(written)
             IN  /\ w \in Seq(B) /\ Len(w) = n + 1 /\ w[n + 1] = p
                 /\ \A k \in 1..n : w[k] = written[k]
  <2>1. Append(written, p) \in Seq(B)
    BY <1>1
  <2> QED BY <1>2, <2>1, SeqAppend
<1> QED BY <1>1, <1>2, <1>3 DEF B

\* The reply that a caller holds, and the request it answers.
LEMMA Reported ==
    ASSUME TInv, NEW c \in Callers, caller[c].pc = "reply"
    PROVE  /\ Len(written) \in Nat /\ Len(written) >= 1 /\ Len(log) = Len(written)
           /\ log[Len(log)] = Execution([txn |-> Len(written), pdu |-> Sent], reply)
           /\ Askable(Sent) /\ Sent \in Seq(Byte) /\ reply \in Seq(Byte)
<1>1. Reports(reply)
  BY DEF TInv, Flow, Holding
<1>2. Len(written) \in Nat /\ \A n \in 1..Len(written) : Askable(written[n])
  BY WrittenSeq DEF TInv, Histories
<1>3. Len(written) \in 1..Len(written)
  BY <1>1, <1>2 DEF Reports
<1>4. Askable(Sent)
  BY <1>2, <1>3 DEF Sent
<1> QED BY <1>1, <1>2, <1>4 DEF Reports, Short, Askable

\* What the client's handler makes of the values of a reply: all of them are
\* written, or nothing.
LEMMA Taken ==
    ASSUME TInv, NEW c \in Callers, caller[c].pc = "reply", Expected,
           IsReadToServer(GetFunctionCode(reply))
    PROVE  LET o == OnWrite(mem, Sent, GetReplyValues(reply).data)
               d == Decode(Sent, GetReplyValues(reply).data)
           IN  /\ IsReadToServer(GetFunctionCode(Sent))
               /\ Len(Sent) >= 3 /\ Sent \in Seq(Byte)
               /\ IsMemory(o.mem)
               /\ o.err # NoErr => o.mem = mem
               /\ o.err = NoErr => Written(mem, Sent, d, o.mem) /\ Len(d.values) = Count(Sent)
<1> DEFINE p == Sent
           a == reply
           x == GetReplyValues(a)
           o == OnWrite(mem, p, x.data)
           d == Decode(p, x.data)
<1>1. Askable(p) /\ p \in Seq(Byte) /\ a \in Seq(Byte) /\ IsMemory(mem)
  BY Reported DEF TInv, TypesOK
<1>2. IsRequestReply(p, a) /\ x.err = NoErr
  BY DEF Expected
<1>3. GetFunctionCode(p) = GetFunctionCode(a)
  BY <1>2 DEF IsRequestReply
<1>4. /\ IsReadToServer(GetFunctionCode(p))
      /\ Count(p) \in 1..MaxPerPacket(GetFunctionCode(p))
  <2>1. IsReadToServer(GetFunctionCode(p))
    BY <1>3
  <2> QED BY <1>1, <2>1 DEF Askable
<1> HIDE DEF p, a
<1>5. Len(p) >= 3
  BY <1>1, <1>2, MatchedLen
<1>6. x.data \in Seq(Byte) /\ x.data # << >> /\ Len(x.data) = a[2] /\ a[2] < 256
  BY <1>1, <1>2, ReplyData
<1>7. Len(x.data) < 65536
  <2>1. Len(x.data) \in Nat
    BY <1>6
  <2> HIDE DEF x
  <2> QED BY <1>6, <2>1
<1>8. o.err = NoErr => Written(mem, p, d, o.mem) /\ Len(d.values) = Count(p)
  BY <1>1, <1>2, <1>4, ReplyTaken
<1> HIDE DEF x
<1>9. Intact(mem, o)
  BY <1>1, <1>5, <1>6, <1>7, OnWriteResult
<1> QED BY <1>1, <1>4, <1>5, <1>8, <1>9 DEF Intact, p, a, x

\* The client reads a whole frame when there is one, and fails only when the server
\* has closed the connection and there is none.
LEMMA ClientReadsFrame ==
    ASSUME TInv, toClient # << >>
    PROVE  ClientReads = "frame"
<1> DEFINE rp == FramePDU(toClient)
           n == Len(rp)
           size == MaxRTUSize + TCPHeaderLength
<1>1. toClient = Frame(rp) /\ Short(rp)
  BY DEF TInv, Flow, Quiet, Asked, Answered, Reports
<1>2. size \in Nat /\ size >= 262
  <2>1. GetMaxPDUSize \in Nat /\ GetMaxPDUSize >= 253
    BY OverSizeAssumption DEF GetMaxPDUSize, MaxPDUSize
  <2> QED BY <2>1 DEF MaxRTUSize, TCPHeaderLength
<1> HIDE DEF size, rp
<1>3. rp \in Seq(Byte) /\ n \in 2..255
  BY <1>1 DEF Short
<1> HIDE DEF n
<1>4. n >= 2 /\ n + 1 < 65536 /\ n + 7 <= size
  BY <1>2, <1>3
<1>5. readTCP(Frame(rp), size, conns[Client] = "closed") = "frame"
  BY <1>2, <1>3, <1>4, ReadFrame DEF n
<1> QED BY <1>1, <1>5 DEF ClientReads, size

LEMMA ReadFails ==
    ASSUME TInv, ClientReads = "error"
    PROVE  Quiet /\ conns[Client] = "closed"
<1>1. toClient = << >>
  BY ClientReadsFrame
<1>2. conns[Client] = "closed"
  BY <1>1, ReadNothing DEF ClientReads
<1> QED BY <1>1, <1>2 DEF TInv, Flow, Asked, Answered

\* Steps that end a transaction.
LEMMA EndingTInv ==
    ASSUME TInv, NEW c \in Callers,
           \/ SendFails(c) \/ ReceiveFails(c) \/ ServerError(c) \/ Unexpected(c)
           \/ ReadDone(c) \/ WriteDone(c) \/ Cancels(c)
    PROVE  TInv'
<1> USE DEF exitVars, serverVars, wire
<1>0. ErrOther \in Errors /\ NoErr \in Errors
  BY KnownErrors
<1>1. IsMemory(mem) /\ cancelled \in BOOLEAN /\ CallersOK
  BY DEF TInv, TypesOK
<1>2. ASSUME NEW reason, Breaks(c, reason), caller[c].pc \in Busy
      PROVE  CallersOK' /\ ~Reading' /\ ~Holding' /\ ~Pending' /\ UNCHANGED <<cancelled, open>>
  BY <1>1, <1>2, BreaksCaller DEF Breaks
<1>3. CASE SendFails(c)
  <2>1. /\ caller[c].pc = "send" /\ Breaks(c, "write") /\ UNCHANGED wire
        /\ UNCHANGED <<conns, listening, smem, mem>>
    BY <1>3 DEF SendFails, MaySend
  <2> QED BY <1>1, <1>2, <2>1, EndsTInv DEF Busy
<1>4. CASE ReceiveFails(c)
  <2>1. /\ caller[c].pc = "read" /\ Breaks(c, "read") /\ UNCHANGED wire
        /\ UNCHANGED <<conns, listening, smem, mem>>
        /\ ~open \/ ClientReads = "error"
    BY <1>4 DEF ReceiveFails
  <2>2. ClientReads = "error" => Quiet /\ conns[Client] = "closed"
    BY <2>1, ReadFails
  <2> QED BY <1>1, <1>2, <2>1, <2>2, EndsTInv DEF Busy
<1>5. CASE Unexpected(c)
  <2>1. /\ caller[c].pc = "reply" /\ Breaks(c, "unexpected") /\ UNCHANGED wire
        /\ UNCHANGED <<conns, listening, smem, mem>>
    BY <1>5 DEF Unexpected
  <2> QED BY <1>1, <1>2, <2>1, EndsTInv DEF Busy
<1>6. CASE ServerError(c) \/ WriteDone(c)
  <2>1. /\ caller[c].pc = "reply" /\ UNCHANGED wire
        /\ UNCHANGED <<conns, listening, smem, open, mem, cancelled>>
        /\ Finish(c, ErrOther) \/ Finish(c, NoErr)
    BY <1>6 DEF ServerError, WriteDone
  <2>2. CallersOK' /\ ~Reading' /\ ~Holding' /\ ~Pending'
    BY <1>0, <1>1, <2>1, FinishCaller DEF Busy
  <2> QED BY <1>1, <2>1, <2>2, EndsTInv DEF Busy
<1>7. CASE ReadDone(c)
  <2> DEFINE o == OnWrite(mem, Sent, GetReplyValues(reply).data)
  <2>1. /\ caller[c].pc = "reply" /\ Expected /\ IsReadToServer(GetFunctionCode(reply))
        /\ mem' = o.mem /\ Finish(c, o.err) /\ UNCHANGED wire
        /\ UNCHANGED <<conns, listening, smem, open, cancelled>>
    BY <1>7 DEF ReadDone
  <2>2. IsMemory(o.mem)
    BY <2>1, Taken
  <2>3. o.err \in Errors
    BY OnWriteError
  <2> HIDE DEF o
  <2>4. CallersOK' /\ ~Reading' /\ ~Holding' /\ ~Pending'
    BY <1>1, <2>1, <2>3, FinishCaller DEF Busy
  <2> QED BY <1>1, <2>1, <2>2, <2>4, EndsTInv DEF Busy
<1>8. CASE Cancels(c)
  <2>1. /\ caller[c].pc = "cancel" /\ Moves(c, "done") /\ UNCHANGED wire
        /\ UNCHANGED <<conns, listening, smem, open, mem>> /\ cancelled' = TRUE
    BY <1>8 DEF Cancels
  <2>2. CallersOK' /\ ~Reading' /\ ~Holding' /\ ~Pending'
    BY <1>1, <2>1, CancelsCaller
  <2> QED BY <1>1, <2>1, <2>2, EndsTInv DEF Busy
<1> QED BY <1>3, <1>4, <1>5, <1>6, <1>7, <1>8

\* The lock is taken when nobody waits.
LEMMA LockTInv ==
    ASSUME TInv, NEW c \in Callers, Lock(c)
    PROVE  TInv'
<1>1. /\ LockFree /\ Moves(c, "send") /\ UNCHANGED wire
      /\ UNCHANGED <<conns, listening, smem, open, mem, cancelled>>
  BY DEF Lock, exitVars, serverVars, wire
<1>2. CallersOK /\ ~Reading
  BY <1>1 DEF TInv, LockFree, Reading
<1>3. CallersOK' /\ ~Reading' /\ ~Holding' /\ ~Pending'
  <2>1. "send" \in Busy \ {"cancel"}
    BY DEF Busy
  <2> QED BY <1>1, <1>2, <2>1, MovesCaller
<1>4. TypesOK' /\ Prepared'
  BY <1>1, <1>3 DEF TInv, TypesOK, wire, Prepared
<1>5. Histories' /\ Quiet' = Quiet /\ Answered' = Answered /\ Asked' = Asked
  BY <1>1, SameWire DEF TInv
<1>6. /\ Quiet' \/ Asked' \/ Answered'
      /\ open' /\ ~Reading' => /\ Quiet'
                               /\ conns'[Client] # "closed" => Len(log') = Len(written')
  BY <1>1, <1>2, <1>5 DEF TInv, Flow, wire
<1> QED BY <1>3, <1>4, <1>5, <1>6 DEF TInv, Flow

\* The reply is taken by the caller who waits for it; nothing is left to read.
LEMMA ReceiveTInv ==
    ASSUME TInv, NEW c \in Callers, Receive(c)
    PROVE  TInv'
<1> DEFINE rp == FramePDU(toClient)
<1>1. /\ caller[c].pc = "read" /\ ClientReads = "frame" /\ Moves(c, "reply")
      /\ reply' = rp /\ toClient' = From(toClient, FrameLength(toClient))
      /\ UNCHANGED <<toServer, written, log, conns, listening, smem, open, mem, cancelled>>
  BY DEF Receive, exitVars, serverVars
<1>2. CallersOK' /\ ~Reading' /\ Holding' /\ Pending'
  <2>1. "reply" \in Busy \ {"cancel"} /\ caller[c].pc \in Busy
    BY <1>1 DEF Busy
  <2> QED BY <1>1, <2>1, MovesCaller DEF TInv
<1>3. toClient # << >>
  <2>1. ASSUME toClient = << >> PROVE ClientReads \in {"error", "wait"}
    BY <2>1, ReadNothing DEF ClientReads
  <2> QED BY <1>1, <2>1
<1>4. Answered
  BY <1>3 DEF TInv, Flow, Quiet, Asked
<1>5. toServer[Client] = << >> /\ toClient = Frame(rp) /\ Reports(rp)
  BY <1>4 DEF Answered
<1>6. From(Frame(rp), FrameLength(Frame(rp))) = << >>
  <2> HIDE DEF rp
  <2>1. rp \in Seq(Byte) /\ Len(rp) \in 2..255
    BY <1>5 DEF Reports, Short
  <2>2. Len(rp) + 1 < 65536
    <3> DEFINE n == Len(rp)
    <3>1. n \in 2..255
      BY <2>1
    <3> HIDE DEF n
    <3>2. n + 1 < 65536
      BY <3>1
    <3> QED BY <3>2 DEF n
  <2> QED BY <2>1, <2>2, FrameRead
<1>7. Quiet'
  <2> HIDE DEF rp
  <2> QED BY <1>1, <1>5, <1>6 DEF Quiet
<1>8. Reports(reply)'
  <2> HIDE DEF rp
  <2>1. written' = written /\ log' = log /\ reply' = rp
    BY <1>1
  <2> QED BY <1>5, <2>1 DEF Reports, Sent
<1>9. TypesOK' /\ Histories'
  BY <1>1 DEF TInv, TypesOK, Histories
<1>10. Prepared'
  <2>1. Pending
    BY <1>1 DEF Pending
  <2> QED BY <1>1, <2>1 DEF TInv, Prepared, Sent
<1>11. Flow'
  <2>1. Len(log') = Len(written')
    BY <1>8 DEF Reports
  <2> QED BY <1>7, <1>8, <2>1 DEF Flow
<1> QED BY <1>2, <1>9, <1>10, <1>11 DEF TInv

\* A caller's request is one of the deployment.
LEMMA RequestOK ==
    ASSUME Deployment, CallersOK, NEW c \in Callers
    PROVE  LET p == Request(c)
               fc == GetFunctionCode(p)
           IN  /\ p \in Seq(Byte) /\ Len(p) + 1 < 65536
               /\ IsWriteToServer(fc) => IsRequestHeader(p)
               /\ IsReadToServer(fc) => Count(p) \in 1..MaxPerPacket(fc)
               /\ Header(p) \in AllRequests
<1> DEFINE i == caller[c].i
           p == Work[c][i]
<1>1. i \in 1..Len(Work[c]) /\ p = Request(c)
  BY DEF CallersOK, Request
<1>2. p \in Seq(Byte)
  <2>1. Work[c] \in Seq(Seq(Byte))
    BY TCPAssumption
  <2> HIDE DEF i
  <2> QED BY <1>1, <2>1
<1>3. /\ Len(p) <= MaxPDUSize
      /\ IsWriteToServer(GetFunctionCode(p)) => IsRequestHeader(p)
      /\ IsReadToServer(GetFunctionCode(p)) =>
            GetRequestCount(p).count \in 1..MaxPerPacket(GetFunctionCode(p))
  <2> HIDE DEF i
  <2> QED BY <1>1 DEF Deployment
<1>4. Header(p) \in AllRequests
  <2> HIDE DEF i
  <2> QED BY <1>1 DEF AllRequests
<1> HIDE DEF p
<1>5. Len(p) + 1 < 65536
  <2>1. Len(p) \in Nat
    BY <1>2
  <2> QED BY <1>3, <2>1 DEF MaxPDUSize
<1> QED BY <1>1, <1>2, <1>3, <1>4, <1>5 DEF Count

\* What the client writes asks what the caller asks; a write carries the client's
\* values.
LEMMA OutgoingOK ==
    ASSUME Deployment, CallersOK, IsMemory(mem), NEW c \in Callers, Outgoing(c).err = NoErr
    PROVE  LET p == Outgoing(c).pdu
           IN  /\ Askable(p)
               /\ Header(p) = Header(Request(c)) /\ Header(p) \in AllRequests
               /\ IsWriteToServer(GetFunctionCode(p)) => CarriesOwn(mem, p)
<1> DEFINE h == Request(c)
           f == GetFunctionCode(h)
           p == Outgoing(c).pdu
<1>1. /\ h \in Seq(Byte) /\ Len(h) + 1 < 65536
      /\ IsWriteToServer(f) => IsRequestHeader(h)
      /\ IsReadToServer(f) => Count(h) \in 1..MaxPerPacket(f)
      /\ Header(h) \in AllRequests
  BY RequestOK
<1>2. CASE IsWriteToServer(f)
  <2>1. OnRead(mem, h).err = NoErr /\ p = MakeWriteRequest(h, OnRead(mem, h).data)
    BY <1>2 DEF Outgoing
  <2> HIDE DEF h, p
  <2>2. IsRequestHeader(h) /\ IsWriteToServer(GetFunctionCode(h))
    BY <1>1, <1>2
  <2>3. /\ p \in Seq(Byte) /\ Len(p) >= 5 /\ GetRequestValues(p).err = NoErr
        /\ GetFunctionCode(p) = f
        /\ GetAddress(p) = GetAddress(h) /\ Count(p) = Count(h)
        /\ HasRange(mem, p) /\ WrittenValues(p) = ValuesAsked(mem, p)
    BY <1>1, <2>1, <2>2, WritePrepared
  <2>4. /\ f \in {1, 2, 3, 4, 5, 6, 15, 16} /\ Count(h) \in Nat
        /\ Count(h) \in 1..MaxPerPacket(f)
    BY <1>1, <2>2, HeaderNumbers
  <2> HIDE DEF f
  <2>5. MaxPerPacket(f) \in 0..2000
    BY <2>4 DEF MaxPerPacket, FcReadCoils, FcReadDiscreteInputs, FcReadHoldingRegisters,
       FcReadInputRegisters, FcWriteSingleCoil, FcWriteSingleRegister,
       FcWriteMultipleCoils, FcWriteMultipleRegisters
  <2>6. Count(p) \in Nat /\ Count(p) <= 2000
    <3> DEFINE q == Count(h)
               x == MaxPerPacket(f)
    <3>1. q \in Nat /\ q \in 1..x /\ x \in 0..2000
      BY <2>4, <2>5
    <3> HIDE DEF q, x
    <3>2. q <= 2000
      BY <3>1
    <3> QED BY <2>3, <3>1, <3>2 DEF q
  <2>7. Len(p) + 1 < 65536
    BY <2>3, <2>6, WriteLength
  <2>8. Askable(p) /\ CarriesOwn(mem, p)
    BY <2>3, <2>4, <2>6, <2>7 DEF Askable, CarriesOwn
  <2>9. Header(p) = Header(h)
    BY <2>3 DEF Header, Count, f
  <2> QED BY <1>1, <2>8, <2>9 DEF p, h
<1>3. CASE ~IsWriteToServer(f)
  <2>1. p = h
    BY <1>3 DEF Outgoing
  <2> HIDE DEF h, p
  <2>2. Askable(p) /\ ~IsWriteToServer(GetFunctionCode(p))
    BY <1>1, <1>3, <2>1 DEF Askable
  <2> QED BY <1>1, <2>1, <2>2 DEF p, h
<1> QED BY <1>2, <1>3

\* The request goes out when nothing is on the connection.
LEMMA SendTInv ==
    ASSUME Deployment, TInv, NEW c \in Callers, Send(c)
    PROVE  TInv'
<1> DEFINE r == Outgoing(c)
           p == r.pdu
<1>1. /\ caller[c].pc = "send"
      /\ UNCHANGED <<toClient, log, conns, listening, smem, open, mem, cancelled>>
  BY DEF Send, MaySend, exitVars, serverVars
<1>2. CASE r.err # NoErr
  <2>1. Finish(c, r.err) /\ UNCHANGED wire
    BY <1>1, <1>2 DEF Send, wire
  <2>2. r.err \in Errors
    BY OnReadError, KnownErrors DEF Outgoing
  <2>3. IsMemory(mem') /\ cancelled' \in BOOLEAN
    BY <1>1 DEF TInv, TypesOK
  <2> HIDE DEF r
  <2>4. CallersOK' /\ ~Reading' /\ ~Holding' /\ ~Pending'
    BY <1>1, <2>1, <2>2, FinishCaller DEF TInv, Busy
  <2> QED BY <1>1, <2>1, <2>3, <2>4, EndsTInv DEF Busy
<1>3. CASE r.err = NoErr
  <2>1. /\ open /\ Moves(c, "read") /\ written' = Append(written, p)
        /\ toServer' = [toServer EXCEPT ![Client] =
                          IF conns[Client] = "closed" THEN @ ELSE @ \o Frame(p)]
    BY <1>3 DEF Send, Frame
  <2>2. Askable(p) /\ (IsWriteToServer(GetFunctionCode(p)) => CarriesOwn(mem, p))
    BY <1>3, OutgoingOK DEF TInv, TypesOK
  <2> HIDE DEF p, r
  <2>3. CallersOK' /\ Reading' /\ ~Holding'
    <3>1. "read" \in Busy \ {"cancel"} /\ caller[c].pc \in Busy
      BY <1>1 DEF Busy
    <3> QED BY <2>1, <3>1, MovesCaller DEF TInv
  <2>4. Quiet /\ (conns[Client] # "closed" => Len(log) = Len(written))
    <3>1. ~Reading
      BY <1>1, Alone DEF TInv, Busy
    <3> QED BY <2>1, <3>1 DEF TInv, Flow
  <2>5. /\ p \in Seq(Byte) /\ Frame(p) \in Seq(Byte)
    BY <2>2, FrameRead DEF Askable
  <2>6. /\ toServer' \in [Connections -> Seq(Byte)]
        /\ toServer'[Client] = IF conns[Client] = "closed" THEN << >> ELSE Frame(p)
    <3>1. Client \in Connections /\ toServer \in [Connections -> Seq(Byte)]
      BY DEF TInv, TypesOK, Connections
    <3>2. << >> \o Frame(p) = Frame(p) /\ << >> \in Seq(Byte)
      BY <2>5, ConcatEmptySeq
    <3>3. toServer[Client] = << >>
      BY <2>4 DEF Quiet
    <3>4. toServer' = [toServer EXCEPT ![Client] =
                         IF conns[Client] = "closed" THEN << >> ELSE Frame(p)]
      BY <2>1, <3>2, <3>3
    <3> QED BY <2>5, <3>1, <3>2, <3>4
  <2>7. TypesOK'
    BY <1>1, <2>6 DEF TInv, TypesOK
  <2> DEFINE n == Len(written)
  <2>8. /\ n \in Nat /\ written' \in Seq(Seq(Byte)) /\ Len(written') = n + 1
        /\ written'[n + 1] = p /\ \A k \in 1..n : written'[k] = written[k]
    BY <2>1, <2>5, WrittenSeq
  <2>9. /\ IsSeq(log) /\ Len(log) <= n /\ Len(log) \in Nat
        /\ \A k \in 1..Len(log) : log[k].txn = k
        /\ \A k \in 1..n : Askable(written[k])
    BY SeqAppend DEF TInv, Histories
  <2> DEFINE l == Len(log)
  <2> HIDE DEF n
  <2>10. Histories'
    <3>1. \A k \in 1..Len(written') : k \in 1..n \/ k = n + 1
      BY <2>8
    <3>2. \A k \in 1..Len(written') : Askable(written'[k])
      BY <2>2, <2>8, <2>9, <3>1
    <3>3. l <= n + 1
      <4>1. l \in Nat /\ l <= n
        BY <2>9
      <4> HIDE DEF l
      <4> QED BY <2>8, <4>1
    <3> QED BY <1>1, <2>8, <2>9, <3>2, <3>3 DEF Histories
  <2>11. Sent' = p /\ Len(written') >= 1
    BY <2>8 DEF Sent
  <2>12. Prepared'
    BY <1>1, <2>2, <2>11 DEF Prepared
  <2>13. CASE conns[Client] = "closed"
    <3>1. Quiet'
      BY <1>1, <2>4, <2>6, <2>13 DEF Quiet
    <3> QED BY <2>3, <2>7, <2>10, <2>12, <3>1 DEF TInv, Flow
  <2>14. CASE conns[Client] # "closed"
    <3>1. l = n /\ toClient = << >>
      BY <2>4, <2>14 DEF Quiet, n
    <3>2. l = Len(written') - 1
      <4> HIDE DEF l
      <4> QED BY <2>8, <3>1
    <3>3. Asked'
      BY <1>1, <2>6, <2>11, <2>14, <3>1, <3>2 DEF Asked
    <3> QED BY <2>3, <2>7, <2>10, <2>12, <3>3 DEF TInv, Flow
  <2> QED BY <2>13, <2>14
<1> QED BY <1>2, <1>3

-------------------------------------------------------------------------------
(***************************************************************************)
(* The steps of Serve, of Close and of the server.                         *)
(***************************************************************************)
\* Steps that at most close the client's end.
LEMMA ExitTInv ==
    ASSUME TInv, Serves \/ Closes
    PROVE  TInv'
<1>1. /\ UNCHANGED <<caller, reply, mem, listening, conns, smem>> /\ UNCHANGED wire
      /\ open' = open \/ open' = FALSE
      /\ cancelled' = cancelled \/ cancelled' = TRUE
  BY DEF Serves, StartServe, ServeEnds, ServeCloses, Closes, CloseStarts, CloseEnds,
     serverVars, wire
<1>2. /\ CallersOK' /\ (Reading' <=> Reading) /\ (Holding' <=> Holding)
      /\ (Pending' <=> Pending)
  BY <1>1, SameCallers DEF TInv
<1>3. /\ Histories' /\ Quiet' = Quiet /\ Answered' = Answered /\ Asked' = Asked
  BY <1>1, SameWire DEF TInv
<1>4. Reports(reply)' <=> Reports(reply)
  BY <1>1 DEF Reports, Sent, wire
<1>5. TypesOK'
  <2>1. cancelled' \in BOOLEAN /\ open' \in BOOLEAN /\ listening' \in BOOLEAN
    BY <1>1 DEF TInv, TypesOK
  <2> QED BY <1>1, <2>1 DEF TInv, TypesOK, wire
<1>6. Prepared'
  BY <1>1, <1>2 DEF TInv, Prepared, Sent, wire
<1>7. Flow'
  <2>1. open' => open
    BY <1>1
  <2>2. /\ Quiet' \/ Asked' \/ Answered'
        /\ open' /\ ~Reading' => /\ Quiet'
                                 /\ conns'[Client] # "closed" => Len(log') = Len(written')
    BY <1>1, <1>2, <1>3, <2>1 DEF TInv, Flow, wire
  <2> QED BY <1>2, <1>3, <1>4, <2>2 DEF TInv, Flow
<1> QED BY <1>2, <1>3, <1>5, <1>6, <1>7 DEF TInv

\* Steps of the server that do not answer the client: its connection stays as it
\* was, or is closed.
KeepsClient == /\ toServer'[Client] = toServer[Client]
               /\ conns'[Client] = "closed" <=> conns[Client] = "closed"
ClosesClient == toServer'[Client] = << >> /\ conns'[Client] = "closed"

LEMMA ServerTInv ==
    ASSUME TInv, UNCHANGED clientVars, UNCHANGED <<toClient, log>>,
           conns' \in [Connections -> {"queued", "served", "closed"}],
           toServer' \in [Connections -> Seq(Byte)],
           listening' \in BOOLEAN, IsMemory(smem'),
           KeepsClient \/ ClosesClient
    PROVE  TInv'
<1>1. UNCHANGED <<caller, reply, cancelled, open, mem, written, toClient, log>>
  BY DEF clientVars
<1>2. /\ CallersOK' /\ (Reading' <=> Reading) /\ (Holding' <=> Holding)
      /\ (Pending' <=> Pending)
  BY <1>1, SameCallers DEF TInv
<1>3. TypesOK' /\ Histories'
  BY <1>1 DEF TInv, TypesOK, Histories
<1>4. Prepared'
  BY <1>1, <1>2 DEF TInv, Prepared, Sent
<1>5. \A rp : Reports(rp)' <=> Reports(rp)
  BY <1>1 DEF Reports, Sent
<1>6. /\ Quiet => Quiet'
      /\ Answered => Answered'
      /\ Asked => Asked' \/ Quiet'
  <2>1. Quiet => Quiet'
    BY <1>1 DEF KeepsClient, ClosesClient, Quiet
  <2>2. Answered => Answered'
    BY <1>1, <1>5 DEF KeepsClient, ClosesClient, Answered
  <2>3. Asked => Asked' \/ Quiet'
    BY <1>1 DEF KeepsClient, ClosesClient, Quiet, Asked, Sent
  <2> QED BY <2>1, <2>2, <2>3
<1>7. conns'[Client] # "closed" => conns[Client] # "closed"
  BY DEF KeepsClient, ClosesClient
<1>8. Flow'
  <2>1. /\ Quiet \/ Asked \/ Answered
        /\ open /\ ~Reading => /\ Quiet
                               /\ conns[Client] # "closed" => Len(log) = Len(written)
        /\ Holding => Quiet /\ Reports(reply)
    BY DEF TInv, Flow
  <2>2. Reports(reply) => Reports(reply)'
    BY <1>1 DEF Reports, Sent
  <2> QED BY <1>1, <1>2, <1>6, <1>7, <2>1, <2>2 DEF Flow
<1> QED BY <1>2, <1>3, <1>4, <1>8 DEF TInv

\* Connections are accepted, refused and closed.
LEMMA AcceptTInv ==
    ASSUME TInv, NEW k \in Connections, Accept(k)
    PROVE  TInv'
<1>1. /\ UNCHANGED clientVars /\ UNCHANGED <<toClient, log, toServer, smem, listening>>
      /\ conns[k] = "queued" /\ conns' = [conns EXCEPT ![k] = "served"]
  BY DEF Accept
<1>2. /\ conns \in [Connections -> {"queued", "served", "closed"}]
      /\ toServer \in [Connections -> Seq(Byte)] /\ listening \in BOOLEAN
      /\ IsMemory(smem) /\ Client \in Connections
  BY DEF TInv, TypesOK, Connections
<1>3. /\ conns' \in [Connections -> {"queued", "served", "closed"}]
      /\ conns'[Client] = "closed" <=> conns[Client] = "closed"
  BY <1>1, <1>2
<1> QED BY <1>1, <1>2, <1>3, ServerTInv DEF KeepsClient

LEMMA CloseListenerTInv ==
    ASSUME TInv, CloseListener
    PROVE  TInv'
<1> DEFINE Refused(k) == conns[k] = "queued"
<1>1. /\ UNCHANGED clientVars /\ UNCHANGED <<toClient, log, smem>> /\ listening' = FALSE
      /\ conns' = [k \in Connections |-> IF Refused(k) THEN "closed" ELSE conns[k]]
      /\ toServer' = [k \in Connections |-> IF Refused(k) THEN << >> ELSE toServer[k]]
  BY DEF CloseListener
<1>2. /\ conns \in [Connections -> {"queued", "served", "closed"}]
      /\ toServer \in [Connections -> Seq(Byte)]
      /\ IsMemory(smem) /\ Client \in Connections /\ << >> \in Seq(Byte)
  BY DEF TInv, TypesOK, Connections
<1>3. /\ conns' \in [Connections -> {"queued", "served", "closed"}]
      /\ toServer' \in [Connections -> Seq(Byte)]
  BY <1>1, <1>2
<1>4. KeepsClient \/ ClosesClient
  BY <1>1, <1>2 DEF KeepsClient, ClosesClient
<1>5. listening' \in BOOLEAN /\ IsMemory(smem')
  BY <1>1, <1>2
<1> QED BY <1>1, <1>3, <1>4, <1>5, ServerTInv

LEMMA GoneTInv ==
    ASSUME TInv, NEW k \in Connections, Gone(k),
           UNCHANGED clientVars, UNCHANGED <<toClient, log, smem, listening>>
    PROVE  TInv'
<1>1. /\ conns' = [conns EXCEPT ![k] = "closed"]
      /\ toServer' = [toServer EXCEPT ![k] = << >>]
  BY DEF Gone
<1>2. /\ conns \in [Connections -> {"queued", "served", "closed"}]
      /\ toServer \in [Connections -> Seq(Byte)] /\ listening \in BOOLEAN
      /\ IsMemory(smem) /\ Client \in Connections /\ << >> \in Seq(Byte)
  BY DEF TInv, TypesOK, Connections
<1>3. /\ conns' \in [Connections -> {"queued", "served", "closed"}]
      /\ toServer' \in [Connections -> Seq(Byte)]
  BY <1>1, <1>2
<1>4. KeepsClient \/ ClosesClient
  BY <1>1, <1>2 DEF KeepsClient, ClosesClient
<1>5. listening' \in BOOLEAN /\ IsMemory(smem')
  BY <1>2
<1> QED BY <1>3, <1>4, <1>5, ServerTInv

\* A stranger's request leaves the client's connection alone.
LEMMA StrangerTInv ==
    ASSUME TInv, NEW k \in Connections, k # Client, ServerReads(k) = "frame",
           NEW p, p = FramePDU(toServer[k]), ValidateRequest(p) = NoErr,
           Replies(k, p, Dispatch(smem, p)), UNCHANGED clientVars, UNCHANGED listening
    PROVE  TInv' /\ DOMAIN smem' = DOMAIN smem /\ UNCHANGED log
<1> DEFINE h == Dispatch(smem, p)
           s == toServer[k]
<1>1. /\ smem' = h.mem /\ UNCHANGED <<toClient, log, conns>>
      /\ toServer' = [toServer EXCEPT ![k] = From(s, FrameLength(s))]
  BY DEF Replies
<1>2. /\ conns \in [Connections -> {"queued", "served", "closed"}]
      /\ toServer \in [Connections -> Seq(Byte)] /\ listening \in BOOLEAN
      /\ IsMemory(smem) /\ Client \in Connections
  BY DEF TInv, TypesOK, Connections
<1>3. s \in Seq(Byte)
  BY <1>2
<1>4. p \in Seq(Byte) /\ From(s, FrameLength(s)) \in Seq(Byte)
  <2> HIDE DEF s
  <2> QED BY <1>3, StreamBytes DEF ServerReads, s
<1>5. h = Handle(smem, p)
  BY DEF Handle
<1>6. IsMemory(h.mem) /\ DOMAIN h.mem = DOMAIN smem
  <2> HIDE DEF h
  <2> QED BY <1>2, <1>4, <1>5, Handled
<1> HIDE DEF h, s
<1>7. toServer' \in [Connections -> Seq(Byte)] /\ toServer'[Client] = toServer[Client]
  BY <1>1, <1>2, <1>4
<1>8. KeepsClient
  BY <1>1, <1>7 DEF KeepsClient
<1>9. TInv'
  BY <1>1, <1>2, <1>6, <1>7, <1>8, ServerTInv
<1> QED BY <1>1, <1>6, <1>9

\* The request that the server reads is the one written last, and nothing else is
\* on the connection.
LEMMA RequestArrives ==
    ASSUME TInv, ServerReads(Client) = "frame"
    PROVE  /\ Asked /\ ~Quiet /\ Askable(Sent) /\ Sent \in Seq(Byte)
           /\ toServer[Client] = Frame(Sent) /\ FramePDU(toServer[Client]) = Sent
           /\ From(toServer[Client], FrameLength(toServer[Client])) = << >>
           /\ Len(written) \in Nat /\ Len(written) >= 1 /\ Len(log) = Len(written) - 1
<1>1. toServer[Client] # << >>
  <2>1. ASSUME toServer[Client] = << >> PROVE ServerReads(Client) \in {"error", "wait"}
    BY <2>1, ReadNothing DEF ServerReads
  <2> QED BY <2>1
<1>2. Asked /\ ~Quiet
  BY <1>1 DEF TInv, Flow, Quiet, Answered
<1>3. /\ Len(written) \in Nat /\ Len(written) >= 1 /\ Len(log) = Len(written) - 1
      /\ toServer[Client] = Frame(Sent)
  BY <1>2, WrittenSeq DEF Asked
<1>4. Len(written) \in 1..Len(written)
  BY <1>3
<1>5. Askable(Sent)
  BY <1>4 DEF TInv, Histories, Sent
<1>6. Sent \in Seq(Byte) /\ Len(Sent) + 1 < 65536
  BY <1>5 DEF Askable
<1> DEFINE p == Sent
<1> HIDE DEF p
<1>7. FramePDU(Frame(p)) = p /\ From(Frame(p), FrameLength(Frame(p))) = << >>
  BY <1>6, FrameRead DEF p
<1> QED BY <1>2, <1>3, <1>5, <1>6, <1>7 DEF p

\* The server executes it and answers.
LEMMA AnswerTInv ==
    ASSUME TInv, ServerReads(Client) = "frame", ValidateRequest(Sent) = NoErr,
           Replies(Client, Sent, Dispatch(smem, Sent)), UNCHANGED clientVars,
           UNCHANGED listening
    PROVE  TInv'
<1> DEFINE p == Sent
           h == Dispatch(smem, p)
           rp == h.reply
           n == Len(written)
           e == Execution([txn |-> n, pdu |-> p], rp)
<1>1. /\ Asked /\ ~Quiet /\ Askable(p) /\ p \in Seq(Byte)
      /\ toServer[Client] = Frame(p)
      /\ From(toServer[Client], FrameLength(toServer[Client])) = << >>
      /\ n \in Nat /\ n >= 1 /\ Len(log) = n - 1
  BY RequestArrives
<1>2. /\ conns \in [Connections -> {"queued", "served", "closed"}]
      /\ toServer \in [Connections -> Seq(Byte)] /\ listening \in BOOLEAN
      /\ IsMemory(smem) /\ Client \in Connections /\ << >> \in Seq(Byte)
      /\ cancelled \in BOOLEAN /\ open \in BOOLEAN /\ IsMemory(mem)
  BY DEF TInv, TypesOK, Connections
<1>3. h = Handle(smem, p) /\ Short(rp)
  <2> HIDE DEF p
  <2> QED BY <1>1, <1>2, ReplyLength DEF Askable, p
<1>4. IsMemory(h.mem)
  <2> HIDE DEF h, p
  <2> QED BY <1>1, <1>2, <1>3, Handled
<1>5. /\ smem' = h.mem /\ UNCHANGED conns
      /\ toServer' = [toServer EXCEPT ![Client] =
                        From(toServer[Client], FrameLength(toServer[Client]))]
      /\ toClient' = toClient \o writeTCP(toServer[Client], rp)
      /\ log' = Append(log, Execution([txn |-> Len(log) + 1, pdu |-> p], rp))
  BY DEF Replies
<1>6. UNCHANGED <<caller, reply, cancelled, open, mem, written>>
  BY DEF clientVars
<1> HIDE DEF h, rp, p, n
<1>7. rp \in Seq(Byte) /\ Len(rp) + 1 < 65536 /\ Frame(rp) # << >> /\ FramePDU(Frame(rp)) = rp
      /\ Frame(rp) \in Seq(Byte)
  <2> DEFINE l == Len(rp)
  <2>1. rp \in Seq(Byte) /\ l \in 2..255
    BY <1>3 DEF Short
  <2> HIDE DEF l
  <2>2. l + 1 < 65536
    BY <2>1
  <2>3. Len(rp) + 1 < 65536
    BY <2>2 DEF l
  <2> QED BY <2>1, <2>3, FrameRead
<1>8. toClient' = Frame(rp)
  <2>1. toClient = << >>
    BY <1>1 DEF Asked
  <2>2. writeTCP(Frame(p), rp) = Frame(rp)
    BY <1>1, <1>7, ReplyHeader DEF Askable
  <2>3. << >> \o Frame(rp) = Frame(rp)
    BY <1>7, ConcatEmptySeq
  <2> QED BY <1>1, <1>5, <2>1, <2>2, <2>3
<1>9. toServer' \in [Connections -> Seq(Byte)] /\ toServer'[Client] = << >>
  BY <1>1, <1>2, <1>5
<1>10. log' = Append(log, e) /\ e.txn = n
  <2>1. Len(log) + 1 = n
    <3> DEFINE l == Len(log)
    <3>1. l = n - 1 /\ n \in Nat
      BY <1>1
    <3> HIDE DEF l
    <3>2. l + 1 = n
      BY <3>1
    <3> QED BY <3>2 DEF l
  <2> QED BY <1>5, <2>1 DEF Execution
<1> HIDE DEF e
<1>11. /\ IsSeq(log') /\ Len(log') = n /\ log'[n] = e
       /\ \A k \in 1..(n - 1) : log'[k] = log[k] /\ log[k].txn = k
  <2> DEFINE l == Len(log)
  <2>1. IsSeq(log) /\ \A k \in 1..l : log[k].txn = k
    BY DEF TInv, Histories
  <2>2. /\ IsSeq(log') /\ Len(log') = l + 1 /\ log'[l + 1] = e
        /\ \A k \in 1..l : log'[k] = log[k]
    BY <1>10, <2>1, SeqAppend
  <2>3. l = n - 1 /\ n \in Nat
    BY <1>1
  <2> HIDE DEF l
  <2>4. l + 1 = n
    BY <2>3
  <2> QED BY <2>1, <2>2, <2>3, <2>4
<1>12. Histories'
  <2>1. written \in Seq(Seq(Byte)) /\ \A k \in 1..n : Askable(written[k])
    BY DEF TInv, Histories, n
  <2>2. \A k \in 1..n : k = n \/ k \in 1..(n - 1)
    BY <1>1
  <2>3. \A k \in 1..Len(log') : log'[k].txn = k
    BY <1>10, <1>11, <2>2
  <2>4. Len(written') = n /\ n <= n
    BY <1>1, <1>6 DEF n
  <2> QED BY <1>6, <1>11, <2>1, <2>3, <2>4 DEF Histories
<1>13. /\ CallersOK' /\ (Reading' <=> Reading) /\ (Holding' <=> Holding)
       /\ (Pending' <=> Pending)
  BY <1>6, SameCallers DEF TInv
<1>14. Prepared' /\ TypesOK'
  BY <1>2, <1>4, <1>5, <1>6, <1>9, <1>13 DEF TInv, Prepared, Sent, TypesOK
<1>15. Answered'
  <2>1. Sent' = p /\ Len(written') = n
    BY <1>6 DEF Sent, p, n
  <2>2. log'[Len(log')] = Execution([txn |-> n, pdu |-> p], rp)
    BY <1>11 DEF e
  <2>3. FramePDU(toClient') = rp /\ toClient' # << >>
    BY <1>7, <1>8
  <2>4. Short(FramePDU(toClient')) /\ toClient' = Frame(FramePDU(toClient'))
    BY <1>3, <1>8, <2>3
  <2> QED BY <1>1, <1>9, <1>11, <2>1, <2>2, <2>3, <2>4 DEF Answered, Reports
<1>16. ~(open /\ ~Reading) /\ ~Holding
  BY <1>1 DEF TInv, Flow
<1>17. Flow'
  BY <1>6, <1>13, <1>15, <1>16 DEF Flow
<1> QED BY <1>12, <1>13, <1>14, <1>17 DEF TInv

\* A step of a connection's goroutine.
LEMMA ServeConnTInv ==
    ASSUME TInv, NEW k \in Connections, ServeConn(k)
    PROVE  TInv'
<1>1. UNCHANGED clientVars /\ UNCHANGED listening /\ (Respond(k) \/ HangUp(k))
  BY DEF ServeConn
<1>2. CASE HangUp(k)
  BY <1>1, <1>2, GoneTInv DEF HangUp
<1>3. CASE Respond(k)
  <2> DEFINE p == FramePDU(toServer[k])
  <2>1. /\ ServerReads(k) = "frame"
        /\ \/ Gone(k) /\ UNCHANGED <<toClient, smem, log>>
           \/ ValidateRequest(p) = NoErr /\ Replies(k, p, Dispatch(smem, p))
    BY <1>3 DEF Respond
  <2>2. CASE Gone(k) /\ UNCHANGED <<toClient, smem, log>>
    BY <1>1, <2>2, GoneTInv
  <2>3. CASE /\ k # Client
             /\ ValidateRequest(p) = NoErr /\ Replies(k, p, Dispatch(smem, p))
    <3> HIDE DEF p
    <3> QED BY <1>1, <2>1, <2>3, StrangerTInv DEF p
  <2>4. CASE /\ k = Client
             /\ ValidateRequest(p) = NoErr /\ Replies(k, p, Dispatch(smem, p))
    <3>1. ServerReads(Client) = "frame" /\ p = Sent
      BY <2>1, <2>4, RequestArrives
    <3> HIDE DEF p
    <3> QED BY <1>1, <2>4, <3>1, AnswerTInv
  <2> QED BY <2>1, <2>2, <2>3, <2>4
<1> QED BY <1>1, <1>2, <1>3

\* The invariant holds at first, and every step keeps it.
LEMMA InitTInv == Init => TInv
<1> SUFFICES ASSUME Init PROVE TInv
  OBVIOUS
<1> USE DEF Init
<1>1. CallersOK
  BY InitCallers
<1>2. ~Reading /\ ~Holding /\ ~Pending
  BY InitCallers
<1>3. toServer \in [Connections -> Seq(Byte)] /\ toServer[Client] = << >>
  <2>1. Says \subseteq Seq(Byte) /\ << >> \in Seq(Byte)
    BY TCPAssumption
  <2>2. Says \cup {<< >>} \subseteq Seq(Byte)
    BY <2>1
  <2> QED BY <2>2
<1>4. TypesOK
  BY <1>3, TCPAssumption DEF TypesOK
<1>5. Histories
  <2>1. << >> \in Seq(Seq(Byte)) /\ IsSeq(<< >>) /\ Len(<< >>) = 0
    BY DEF IsSeq
  <2> QED BY <2>1 DEF Histories
<1>6. Flow
  BY <1>2, <1>3 DEF Flow, Quiet
<1> QED BY <1>1, <1>2, <1>4, <1>5, <1>6 DEF TInv, Prepared

LEMMA NextTInv == ASSUME Deployment PROVE TInv /\ [Next]_vars => TInv'
<1> SUFFICES ASSUME TInv, [Next]_vars PROVE TInv'
  OBVIOUS
<1>1. ASSUME NEW c \in Callers, CallerStep(c) PROVE TInv'
  BY <1>1, LockTInv, SendTInv, ReceiveTInv, EndingTInv DEF CallerStep
<1>2. ASSUME NEW k \in Connections, Accept(k) \/ ServeConn(k) PROVE TInv'
  BY <1>2, AcceptTInv, ServeConnTInv
<1>3. CASE UNCHANGED vars
  <2>1. UNCHANGED clientVars /\ UNCHANGED <<toClient, log, conns, toServer, listening, smem>>
    BY <1>3 DEF vars, clientVars
  <2>2. /\ conns \in [Connections -> {"queued", "served", "closed"}]
        /\ toServer \in [Connections -> Seq(Byte)] /\ listening \in BOOLEAN
        /\ IsMemory(smem)
    BY DEF TInv, TypesOK
  <2> QED BY <2>1, <2>2, ServerTInv DEF KeepsClient
<1> QED BY <1>1, <1>2, <1>3, ExitTInv, CloseListenerTInv DEF Next

\* Any callers, any requests that fit the buffers, any memories and any bytes from
\* strangers: one caller at a time holds the lock, and when it is free nothing is
\* left to read on an open connection (the mutex of tcp_client.go:81 and the
\* synchronous write and read under it).
THEOREM TypeCorrect == ASSUME Deployment PROVE Spec => []TypeOK
<1>1. TInv => TypeOK
  <2> SUFFICES ASSUME TInv PROVE TypeOK
    OBVIOUS
  <2>1. LockFree => ~Reading
    BY DEF LockFree, Reading
  <2>2. LockFree /\ open => toClient = << >>
    BY <2>1 DEF TInv, Flow, Quiet
  <2>3. \A c, d \in Callers :
           {caller[c].pc, caller[d].pc} \subseteq Busy => c = d
    BY DEF TInv, CallersOK
  <2>4. \A c \in Callers : /\ caller[c].pc \in Pcs
                           /\ caller[c].i \in 1..Len(Work[c])
                           /\ caller[c].err \in Errors
    BY DEF TInv, CallersOK
  <2> QED BY <2>2, <2>3, <2>4 DEF TInv, TypesOK, TypeOK
<1>2. TInv /\ [Next]_vars => TInv'
  BY NextTInv
<1> QED BY <1>1, <1>2, InitTInv, PTL DEF Spec

-------------------------------------------------------------------------------
(***************************************************************************)
(* Every step is one of the abstract specification, or changes nothing     *)
(* there.                                                                  *)
(***************************************************************************)
\* The function codes are the same there, and so is what a request asks.
LEMMA SameCodes ==
    \A f : /\ Abstract!TableOf(f) = TableOf(f)
           /\ Abstract!IsWriteToServer(f) <=> IsWriteToServer(f)
           /\ Abstract!IsReadToServer(f) <=> IsReadToServer(f)
<1>1. \A f : Abstract!TableOf(f) = TableOf(f)
  BY DEF Abstract!TableOf, TableOf, Abstract!FcReadCoils, FcReadCoils,
     Abstract!FcReadDiscreteInputs, FcReadDiscreteInputs,
     Abstract!FcReadHoldingRegisters, FcReadHoldingRegisters,
     Abstract!FcReadInputRegisters, FcReadInputRegisters,
     Abstract!FcWriteSingleCoil, FcWriteSingleCoil,
     Abstract!FcWriteSingleRegister, FcWriteSingleRegister,
     Abstract!FcWriteMultipleCoils, FcWriteMultipleCoils,
     Abstract!FcWriteMultipleRegisters, FcWriteMultipleRegisters
<1>2. \A f : /\ Abstract!IsWriteToServer(f) <=> IsWriteToServer(f)
             /\ Abstract!IsReadToServer(f) <=> IsReadToServer(f)
  BY DEF Abstract!IsWriteToServer, IsWriteToServer, Abstract!IsReadToServer,
     IsReadToServer
<1> QED BY <1>1, <1>2

\* The requests w, as the abstract specification has them.
Decoded(w) == [n \in 1..Len(w) |-> DecodeRequest(w[n])]

LEMMA DecodedSeq ==
    ASSUME NEW w, IsSeq(w)
    PROVE  /\ IsSeq(Decoded(w)) /\ Len(Decoded(w)) = Len(w)
           /\ \A n \in 1..Len(w) : Decoded(w)[n] = DecodeRequest(w[n])
<1> DEFINE S == {DecodeRequest(w[n]) : n \in 1..Len(w)}
<1>1. Len(w) \in Nat
  BY SeqAppend
<1>2. Decoded(w) \in [1..Len(w) -> S]
  BY DEF Decoded
<1> HIDE DEF S
<1>3. Decoded(w) \in Seq(S) /\ Len(Decoded(w)) = Len(w)
  BY <1>1, <1>2, IsSequence
<1>4. \A n \in 1..Len(w) : Decoded(w)[n] = DecodeRequest(w[n])
  BY DEF Decoded
<1> QED BY <1>3, <1>4 DEF IsSeq

LEMMA DecodedAppend ==
    ASSUME NEW w, IsSeq(w), NEW x
    PROVE  Decoded(Append(w, x)) = Append(Decoded(w), DecodeRequest(x))
<1> DEFINE n == Len(w)
           a == Append(w, x)
           d == Decoded(w)
           y == DecodeRequest(x)
           b == Append(d, y)
           c == Decoded(a)
<1>1. /\ IsSeq(a) /\ n \in Nat /\ Len(a) = n + 1 /\ a[n + 1] = x
      /\ \A i \in 1..n : a[i] = w[i]
  BY SeqAppend
<1>2. IsSeq(d) /\ Len(d) = n /\ \A i \in 1..n : d[i] = DecodeRequest(w[i])
  BY DecodedSeq
<1> HIDE DEF n, a, d
<1>3. /\ IsSeq(b) /\ Len(b) = n + 1 /\ b[n + 1] = y /\ \A i \in 1..n : b[i] = d[i]
  BY <1>2, SeqAppend
<1>4. IsSeq(c) /\ Len(c) = n + 1 /\ \A i \in 1..(n + 1) : c[i] = DecodeRequest(a[i])
  BY <1>1, DecodedSeq
<1> HIDE DEF b, c, y
<1>5. \A i \in 1..(n + 1) : c[i] = b[i]
  <2> SUFFICES ASSUME NEW i \in 1..(n + 1) PROVE c[i] = b[i]
    OBVIOUS
  <2>1. i = n + 1 \/ i \in 1..n
    BY <1>1
  <2> QED BY <1>1, <1>2, <1>3, <1>4, <2>1 DEF y
<1>6. PICK S, T : b \in Seq(S) /\ c \in Seq(T)
  BY <1>3, <1>4 DEF IsSeq
<1>7. b \in Seq(S \union T) /\ c \in Seq(S \union T)
  BY <1>6
<1>8. c = b
  <2> DEFINE U == S \union T
  <2> HIDE DEF U
  <2>1. b \in Seq(U) /\ c \in Seq(U)
    BY <1>7 DEF U
  <2>2. Len(c) = Len(b) /\ \A i \in 1..Len(b) : c[i] = b[i]
    BY <1>3, <1>4, <1>5
  <2> QED BY <2>1, <2>2, SameSequence
<1> QED BY <1>8 DEF a, b, c, d, y

\* The request r of the abstract specification asks what the bytes p ask.
Asks(r, p) == r.fc = GetFunctionCode(p) /\ r.address = GetAddress(p) /\ r.count = Count(p)

LEMMA SameRange ==
    ASSUME NEW m, NEW p, NEW r, Asks(r, p)
    PROVE  /\ HasRange(m, p) => Abstract!Has(m, r)
           /\ Abstract!Values(m, r) = ValuesAsked(m, p)
           /\ \A v : Abstract!Update(m, r, v) = Updated(m, p, v)
<1>1. /\ r.address = GetAddress(p) /\ r.count = Count(p)
      /\ Abstract!TableOf(r.fc) = TableFor(p)
  BY SameCodes DEF Asks, TableFor
<1> QED BY <1>1 DEF Abstract!Has, Abstract!Values, Abstract!Update, Abstract!InRange,
        HasRange, ValuesAsked, Updated

\* There is one server, and one handler at the client.
LEMMA OnlyOne ==
    /\ \A x : Only(x)[1] = x
    /\ \A x, y : [Only(x) EXCEPT ![1] = y] = Only(y)
BY DEF Only

\* Who waits, before a step and after it.
LEMMA WhoWaits ==
    /\ ~Pending => Waiting = {}
    /\ ~Pending' => Waiting' = {}
BY DEF Pending, Waiting

LEMMA Waits ==
    ASSUME CallersOK, NEW c \in Callers, caller[c].pc \in {"read", "reply"}
    PROVE  Waiting = {c}
<1>1. \A d \in Callers : caller[d].pc \in Busy => d = c
  BY DEF CallersOK, Busy
<1> QED BY <1>1 DEF Waiting, Busy

LEMMA SameOutcome ==
    ASSUME UNCHANGED caller
    PROVE  Waiting' = Waiting /\ Told' = Told
BY DEF Waiting, Told

LEMMA SameErrors == Abstract!Errors = Errors /\ Abstract!NoErr = NoErr
BY DEF Abstract!Errors, Errors, Abstract!NoErr, NoErr

\* Steps that change nothing there.
LEMMA Stutters ==
    ASSUME UNCHANGED <<written, smem, log, mem>>, Waiting' = Waiting, Told' = Told
    PROVE  UNCHANGED Abstract!vars
BY DEF Abstract!vars, Only

\* Those that end a transaction with an error, before its request is written and after.
LEMMA Fails ==
    ASSUME NEW c \in Callers, Waiting = {c}, Waiting' = {},
           NEW e \in Errors \ {NoErr}, Told' = [Told EXCEPT ![c] = e],
           UNCHANGED <<written, smem, log, mem>>
    PROVE  Abstract!Next
<1>1. \E x \in Errors \ {NoErr} : Told' = [Told EXCEPT ![c] = x]
  OBVIOUS
<1>2. Abstract!Fail(c)
  BY <1>1, SameErrors DEF Abstract!Fail, Abstract!Tells, Only
<1> QED BY <1>2 DEF Abstract!Next

LEMMA RefusesStep ==
    ASSUME NEW c \in Callers, Waiting = {}, Waiting' = {},
           NEW e \in Errors \ {NoErr}, Told' = [Told EXCEPT ![c] = e],
           UNCHANGED <<written, smem, log, mem>>
    PROVE  Abstract!Next
<1>1. \E x \in Errors \ {NoErr} : Told' = [Told EXCEPT ![c] = x]
  OBVIOUS
<1>2. Abstract!Refuse(c)
  BY <1>1, SameErrors DEF Abstract!Refuse, Abstract!Tells, Only
<1> QED BY <1>2 DEF Abstract!Next

\* The request that the client writes is issued.
LEMMA IssueStep ==
    ASSUME Deployment, TInv, NEW c \in Callers, Send(c), Outgoing(c).err = NoErr
    PROVE  \E q \in AllRequests : Abstract!Issue(c, q)
<1> DEFINE p == Outgoing(c).pdu
           M == Only(mem)
<1>1. /\ caller[c].pc = "send" /\ Moves(c, "read") /\ written' = Append(written, p)
      /\ UNCHANGED <<smem, log, mem>>
  BY DEF Send, MaySend, serverVars
<1>2. /\ Header(p) \in AllRequests
      /\ IsWriteToServer(GetFunctionCode(p)) => WrittenValues(p) = ValuesAsked(mem, p)
  BY OutgoingOK DEF TInv, TypesOK, CarriesOwn
<1>3. Waiting = {} /\ Waiting' = {c} /\ Told' = Told
  <2>1. "read" \in Busy \ {"cancel"} /\ caller[c].pc \in Busy
    BY <1>1 DEF Busy
  <2>2. ~Pending
    BY <1>1, <2>1, Alone DEF TInv
  <2>3. CallersOK' /\ caller'[c].pc = "read" /\ Told' = Told
    BY <1>1, <2>1, MovesCaller DEF TInv
  <2>4. \A d \in Callers : caller'[d].pc \in Busy => d = c
    BY <2>1, <2>3 DEF CallersOK
  <2>5. Waiting' = {c}
    BY <2>3, <2>4 DEF Waiting, Busy
  <2> QED BY <2>2, <2>3, <2>5, WhoWaits
<1>4. PICK q \in AllRequests : q = Header(p)
  BY <1>2
<1> DEFINE v == IF Abstract!IsWriteToServer(q.fc) THEN Abstract!Values(M[q.id], q)
                ELSE << >>
           x == [id |-> q.id, fc |-> q.fc, address |-> q.address, count |-> q.count,
                 values |-> v]
<1>5. /\ q.id = 1 /\ q.fc = GetFunctionCode(p) /\ q.address = GetAddress(p)
      /\ q.count = Count(p) /\ Asks(q, p)
  BY <1>4 DEF Header, Asks, Count
<1>6. M[1] = mem
  BY OnlyOne
<1> HIDE DEF p, M
<1>7. v = WrittenValues(p)
  <2>1. Abstract!Values(M[q.id], q) = ValuesAsked(mem, p)
    BY <1>5, <1>6, SameRange
  <2>2. CASE IsWriteToServer(GetFunctionCode(p))
    BY <1>2, <1>5, <2>1, <2>2, SameCodes
  <2>3. CASE ~IsWriteToServer(GetFunctionCode(p))
    <3>1. WrittenValues(p) = << >>
      BY <2>3 DEF WrittenValues
    <3> QED BY <1>5, <2>3, <3>1, SameCodes
  <2> QED BY <2>2, <2>3
<1> HIDE DEF v
<1>8. DecodeRequest(p) = x
  BY <1>5, <1>7 DEF DecodeRequest, Count
<1> HIDE DEF x
<1>9. Decoded(written') = Append(Decoded(written), x)
  BY <1>1, <1>8, WrittenSeq, DecodedAppend
<1> DEFINE D == Decoded(written)
<1>10. IF q.id = 0 THEN Abstract!Tells(c, Abstract!NoErr) /\ Waiting' = Waiting
       ELSE Waiting' = {c} /\ Told' = Told
  BY <1>3, <1>5
<1>11. UNCHANGED <<Only(smem), Only(log), Only(mem)>>
  BY <1>1
<1>12. D' = Append(D, [id |-> q.id, fc |-> q.fc, address |-> q.address,
                       count |-> q.count, values |-> v])
  BY <1>9 DEF x
<1>13. Abstract!Issue(c, q)
  BY <1>3, <1>10, <1>11, <1>12, Zenon DEF Abstract!Issue, Decoded, v, M
<1> QED BY <1>13

\* The request that the server handles is executed, or refused.
LEMMA ExecuteStep ==
    ASSUME TInv, ServerReads(Client) = "frame", ValidateRequest(Sent) = NoErr,
           Replies(Client, Sent, Dispatch(smem, Sent)), UNCHANGED clientVars
    PROVE  \E n \in 1..Len(Decoded(written)) : Abstract!Execute(1, n)
<1> DEFINE p == Sent
           n == Len(written)
           h == Handle(smem, p)
           r == [txn |-> n, pdu |-> p]
           e == Execution(r, h.reply)
           d == DecodeRequest(p)
           m == smem
<1>1. /\ Askable(p) /\ p \in Seq(Byte) /\ IsMemory(m)
      /\ n \in Nat /\ n >= 1 /\ Len(log) = n - 1
  BY RequestArrives DEF TInv, TypesOK
<1>2. smem' = h.mem /\ log' = Append(log, e)
  <2>1. Dispatch(smem, p) = h
    BY DEF Handle
  <2>2. /\ smem' = h.mem
        /\ log' = Append(log, Execution([txn |-> Len(log) + 1, pdu |-> p], h.reply))
    BY <2>1 DEF Replies
  <2>3. Len(log) + 1 = n
    <3> DEFINE l == Len(log)
    <3>1. l = n - 1 /\ n \in Nat
      BY <1>1
    <3> HIDE DEF l, n
    <3>2. l + 1 = n
      BY <3>1
    <3> QED BY <3>2 DEF l
  <2> QED BY <2>2, <2>3
<1>3. UNCHANGED <<written, mem, caller>>
  BY DEF clientVars
<1>4. Asks(d, p) /\ d.id = 1 /\ d.values = WrittenValues(p)
  BY DEF Asks, DecodeRequest, Count
<1>5. n \in 1..Len(Decoded(written)) /\ Decoded(written)[n] = d
  <2>1. n \in 1..n
    BY <1>1
  <2> QED BY <2>1, WrittenSeq, DecodedSeq DEF Sent
<1>6. n > Abstract!LastExecuted(1)
  <2> DEFINE l == Len(log)
  <2>1. l = n - 1 /\ n \in Nat /\ n >= 1
    BY <1>1
  <2>2. IsSeq(log) /\ \A k \in 1..l : log[k].txn = k
    BY DEF TInv, Histories
  <2>3. Only(log)[1] = log
    BY OnlyOne
  <2>4. Abstract!LastExecuted(1) = IF log = << >> THEN 0 ELSE log[l].txn
    BY <2>3 DEF Abstract!LastExecuted
  <2>5. log # << >> => l \in Nat /\ l >= 1
    BY <2>2, SeqTail
  <2> HIDE DEF l, n
  <2>6. log # << >> => log[l].txn = n - 1
    <3> SUFFICES ASSUME log # << >> PROVE log[l].txn = n - 1
      OBVIOUS
    <3>1. l \in 1..l
      BY <2>5
    <3> QED BY <2>1, <2>2, <3>1
  <2> QED BY <2>1, <2>4, <2>6
<1>7. \/ e = [txn |-> n, ok |-> FALSE, values |-> << >>] /\ h.mem = m
      \/ /\ IsReadToServer(GetFunctionCode(p)) /\ ReadWhole(m, p, h)
         /\ e = [txn |-> n, ok |-> TRUE, values |-> ValuesAsked(m, p)]
      \/ /\ WroteAll(m, p, h)
         /\ e = [txn |-> n, ok |-> TRUE, values |-> WrittenValues(p)]
  <2>1. r.txn = n /\ r.pdu = p
    OBVIOUS
  <2> HIDE DEF p, n, r
  <2> QED BY <1>1, <2>1, Executed DEF Askable
<1> DEFINE DB == Only(smem)
           LOG == Only(log)
           DBn == Only(smem')
           LOGn == Only(log')
<1>8. DB[1] = m /\ LOGn = [LOG EXCEPT ![1] = Append(LOG[1], e)]
  BY <1>2, OnlyOne
<1>9. h.mem = m => DBn = DB
  BY <1>2
<1>10. DBn = [DB EXCEPT ![1] = h.mem]
  BY <1>2, OnlyOne
<1> HIDE DEF p, n, h, e, d, m, r, DB, LOG, DBn, LOGn
<1> DEFINE Logs(ok, values) ==
             LOGn = [LOG EXCEPT ![1] = Append(@, [txn |-> n, ok |-> ok, values |-> values])]
           Refuses == Logs(FALSE, << >>) /\ DBn = DB
           AnswersRead == /\ Abstract!IsReadToServer(d.fc) /\ Abstract!Has(DB[1], d)
                          /\ Logs(TRUE, Abstract!Values(DB[1], d)) /\ DBn = DB
           AnswersWrite == /\ Abstract!IsWriteToServer(d.fc) /\ Abstract!Has(DB[1], d)
                           /\ Logs(TRUE, d.values)
                           /\ DBn = [DB EXCEPT ![1] = Abstract!Update(@, d, d.values)]
<1>11. Refuses \/ AnswersRead \/ AnswersWrite
  <2>1. CASE e = [txn |-> n, ok |-> FALSE, values |-> << >>] /\ h.mem = m
    BY <1>8, <1>9, <2>1
  <2>2. CASE /\ IsReadToServer(GetFunctionCode(p)) /\ ReadWhole(m, p, h)
             /\ e = [txn |-> n, ok |-> TRUE, values |-> ValuesAsked(m, p)]
    <3>1. HasRange(m, p) /\ h.mem = m
      BY <2>2 DEF ReadWhole
    <3>2. Abstract!Has(m, d) /\ Abstract!Values(m, d) = ValuesAsked(m, p)
      BY <1>4, <3>1, SameRange
    <3>3. Abstract!IsReadToServer(d.fc)
      BY <1>4, <2>2, SameCodes DEF Asks
    <3>4. AnswersRead
      BY <1>8, <1>9, <2>2, <3>1, <3>2, <3>3
    <3> QED BY <3>4
  <2>3. CASE /\ WroteAll(m, p, h)
             /\ e = [txn |-> n, ok |-> TRUE, values |-> WrittenValues(p)]
    <3> DEFINE v == Decode(p, GetRequestValues(p).data)
    <3>1. /\ IsWriteToServer(GetFunctionCode(p)) /\ Written(m, p, v, h.mem)
          /\ Len(v.values) = Count(p) /\ WrittenValues(p) = v.values /\ Len(p) >= 3
      BY <2>3 DEF WroteAll
    <3> HIDE DEF v
    <3>2. h.mem = Updated(m, p, v.values) /\ HasRange(m, p)
      BY <1>1, <3>1, WrittenUpdates
    <3>3. Abstract!Has(m, d) /\ Abstract!Update(m, d, v.values) = Updated(m, p, v.values)
      BY <1>4, <3>2, SameRange
    <3>4. Abstract!IsWriteToServer(d.fc)
      BY <1>4, <3>1, SameCodes DEF Asks
    <3>5. AnswersWrite
      BY <1>4, <1>8, <1>10, <2>3, <3>1, <3>2, <3>3, <3>4
    <3> QED BY <3>5
  <2> QED BY <1>7, <2>1, <2>2, <2>3
<1>12. Abstract!Execute(1, n)
  <2>1. UNCHANGED <<Decoded(written), Waiting, Told, Only(mem)>>
    BY <1>3, SameOutcome DEF Decoded
  <2>2. d.id \in {0, 1}
    BY <1>4
  <2> QED BY <1>5, <1>6, <1>11, <2>1, <2>2
      DEF Abstract!Execute, Abstract!Logs, Decoded, DB, LOG, DBn, LOGn
<1> QED BY <1>5, <1>12

\* A stranger's request may write to the server at any time.
LEMMA DisturbStep ==
    ASSUME Strangers # {}, DOMAIN smem' = DOMAIN smem,
           UNCHANGED clientVars, UNCHANGED log
    PROVE  Abstract!Disturb
<1>1. UNCHANGED <<written, caller, mem>>
  BY DEF clientVars
<1>2. \A s \in {1} : DOMAIN Only(smem')[s] = DOMAIN Only(smem)[s]
  BY OnlyOne
<1> QED BY <1>1, <1>2, SameOutcome DEF Abstract!Disturb, Only

\* A reply that matches the request reports a success.
LEMMA Successful ==
    ASSUME TInv, NEW c \in Callers, caller[c].pc = "reply", Expected
    PROVE  /\ GetFunctionCode(reply) = GetFunctionCode(Sent)
           /\ GetFunctionCode(Sent) \in {1, 2, 3, 4, 5, 6, 15, 16}
           /\ log[Len(log)] =
                [txn |-> Len(written), ok |-> TRUE,
                 values |-> IF IsReadToServer(GetFunctionCode(Sent))
                            THEN Decode(Sent, GetReplyValues(reply).data).values
                            ELSE WrittenValues(Sent)]
<1> DEFINE p == Sent
           a == reply
           t == [txn |-> Len(written), pdu |-> p]
<1>1. log[Len(log)] = Execution(t, a)
  BY Reported
<1>2. t.pdu = p /\ t.txn = Len(written)
  OBVIOUS
<1>3. GetFunctionCode(a) = GetFunctionCode(p)
  BY DEF Expected, IsRequestReply
<1>4. GetFunctionCode(p) \in {1, 2, 3, 4, 5, 6, 15, 16}
  <2>1. HeaderMatches(p, a, GetRequestCount(p).count)
    BY DEF Expected, IsRequestReply
  <2> HIDE DEF p
  <2> QED BY <2>1 DEF HeaderMatches, FcReadCoils, FcReadDiscreteInputs,
          FcReadHoldingRegisters, FcReadInputRegisters, FcWriteSingleCoil,
          FcWriteSingleRegister, FcWriteMultipleCoils, FcWriteMultipleRegisters
<1> HIDE DEF p, t
<1>5. GetFunctionCode(a) \in Nat /\ GetFunctionCode(a) < 128
  BY <1>3, <1>4
<1>6. Execution(t, a) = [txn |-> Len(written), ok |-> TRUE,
                         values |-> IF IsReadToServer(GetFunctionCode(p))
                                    THEN DecodeValues(p, GetReplyValues(a).data)
                                    ELSE WrittenValues(p)]
  BY <1>2, <1>5, ReplyOk
<1>7. DecodeValues(p, GetReplyValues(a).data) = Decode(p, GetReplyValues(a).data).values
  BY DEF DecodeValues, Decode, Count
<1> QED BY <1>1, <1>3, <1>4, <1>6, <1>7 DEF p

\* The transaction ends with success, and with the values of that execution.
LEMMA Succeeds ==
    ASSUME TInv, NEW c \in Callers, Waiting = {c}, Waiting' = {},
           Told' = [Told EXCEPT ![c] = NoErr], UNCHANGED <<written, smem, log>>,
           Len(written) >= 1, Len(log) = Len(written),
           log[Len(log)].txn = Len(written), log[Len(log)].ok,
           mem' = Abstract!Update(mem, DecodeRequest(Sent), log[Len(log)].values)
    PROVE  Abstract!Next
<1> DEFINE n == Len(written)
           r == DecodeRequest(Sent)
           e == log[n]
           I == Decoded(written)
           L == Only(log)
           M == Only(mem)
           Mn == Only(mem')
<1>1. /\ Len(I) = n /\ \A i \in 1..n : I[i] = DecodeRequest(written[i])
  BY WrittenSeq, DecodedSeq
<1>2. n \in 1..n
  BY WrittenSeq
<1>3. I[n] = r
  BY <1>1, <1>2 DEF Sent
<1>4. r.id = 1
  BY DEF DecodeRequest
<1>5. L[1] = log /\ M[1] = mem /\ Mn = [M EXCEPT ![1] = mem']
  BY OnlyOne
<1>6. e.txn = n /\ e.ok /\ n \in 1..Len(log) /\ mem' = Abstract!Update(mem, r, e.values)
  BY <1>2
<1>7. UNCHANGED Decoded(written)
  BY DEF Decoded
<1> HIDE DEF n, r, I, L, M, Mn
<1>8. LET x == Len(I)
          y == I[x]
      IN  \E j \in 1..Len(L[y.id]) :
             LET z == L[y.id][j]
             IN  /\ z.txn = x /\ z.ok
                 /\ Mn = [M EXCEPT ![y.id] = Abstract!Update(@, y, z.values)]
  BY <1>1, <1>3, <1>4, <1>5, <1>6
<1>9. UNCHANGED <<Only(smem), Only(log)>>
  OBVIOUS
<1>10. c \in Waiting /\ Abstract!Tells(c, Abstract!NoErr)
  BY SameErrors DEF Abstract!Tells
<1>11. Abstract!Succeed(c)
  BY <1>7, <1>8, <1>9, <1>10, Zenon DEF Abstract!Succeed, Decoded, I, L, M, Mn
<1> QED BY <1>11 DEF Abstract!Next

\* A read that the client's handler takes succeeds; one that it refuses fails.
LEMMA ReadDoneStep ==
    ASSUME TInv, NEW c \in Callers, ReadDone(c), Waiting = {c}, Waiting' = {},
           \A e \in Errors : Finish(c, e) => Told' = [Told EXCEPT ![c] = e]
    PROVE  Abstract!Next
<1> DEFINE p == Sent
           b == GetReplyValues(reply).data
           o == OnWrite(mem, p, b)
           d == Decode(p, b)
           r == DecodeRequest(p)
           e == log[Len(log)]
<1>1. /\ caller[c].pc = "reply" /\ Expected /\ IsReadToServer(GetFunctionCode(reply))
      /\ mem' = o.mem /\ Finish(c, o.err) /\ UNCHANGED <<written, smem, log>>
  BY DEF ReadDone, serverVars
<1>0. o.err \in Errors /\ NoErr \in Errors
  BY OnWriteError, KnownErrors
<1>2. /\ IsReadToServer(GetFunctionCode(p)) /\ Len(p) >= 3 /\ p \in Seq(Byte)
      /\ o.err # NoErr => o.mem = mem
      /\ o.err = NoErr => Written(mem, p, d, o.mem) /\ Len(d.values) = Count(p)
  <2> HIDE DEF o, d
  <2> QED BY <1>1, Taken DEF o, d
<1>3. CASE o.err # NoErr
  <2>1. mem' = mem
    BY <1>1, <1>2, <1>3
  <2> HIDE DEF o
  <2> QED BY <1>0, <1>1, <1>3, <2>1, Fails
<1>4. CASE o.err = NoErr
  <2>1. e = [txn |-> Len(written), ok |-> TRUE, values |-> d.values]
    <3> HIDE DEF d, e
    <3>1. log[Len(log)] = [txn |-> Len(written), ok |-> TRUE, values |-> d.values]
      BY <1>1, <1>2, Successful DEF d
    <3> QED BY <3>1 DEF e
  <2>2. Len(written) >= 1 /\ Len(log) = Len(written)
    BY <1>1, Reported
  <2>3. IsMemory(mem)
    BY DEF TInv, TypesOK
  <2>4. Asks(r, p)
    BY DEF Asks, DecodeRequest, Count
  <2> HIDE DEF p, b, o, d, r, e
  <2>5. o.mem = Updated(mem, p, d.values)
    BY <1>2, <1>4, <2>3, WrittenUpdates
  <2>6. mem' = Abstract!Update(mem, r, d.values)
    <3>1. mem' = o.mem
      BY <1>1
    <3>2. Updated(mem, p, d.values) = Abstract!Update(mem, r, d.values)
      BY <2>4, SameRange
    <3> QED BY <2>5, <3>1, <3>2
  <2>7. e.txn = Len(written) /\ e.ok /\ mem' = Abstract!Update(mem, r, e.values)
    BY <2>1, <2>6
  <2>8. Told' = [Told EXCEPT ![c] = NoErr]
    BY <1>0, <1>1, <1>4
  <2> QED BY <1>1, <2>2, <2>7, <2>8, Succeeds DEF e, r, p
<1> QED BY <1>3, <1>4

\* A write that succeeds leaves the client what it sent.
LEMMA WriteDoneStep ==
    ASSUME TInv, NEW c \in Callers, WriteDone(c), Waiting = {c}, Waiting' = {},
           \A e \in Errors : Finish(c, e) => Told' = [Told EXCEPT ![c] = e]
    PROVE  Abstract!Next
<1> DEFINE p == Sent
           r == DecodeRequest(p)
           e == log[Len(log)]
<1>1. /\ caller[c].pc = "reply" /\ Expected /\ ~IsReadToServer(GetFunctionCode(reply))
      /\ UNCHANGED <<written, smem, log, mem>> /\ Told' = [Told EXCEPT ![c] = NoErr]
  BY KnownErrors DEF WriteDone, serverVars
<1>2. /\ IsWriteToServer(GetFunctionCode(p)) /\ ~IsReadToServer(GetFunctionCode(p))
  BY <1>1, Successful DEF IsReadToServer, IsWriteToServer
<1>3. e = [txn |-> Len(written), ok |-> TRUE, values |-> WrittenValues(p)]
  BY <1>1, <1>2, Successful
<1>4. Len(written) >= 1 /\ Len(log) = Len(written) /\ p \in Seq(Byte)
  BY <1>1, Reported
<1>5. CarriesOwn(mem, p) /\ IsMemory(mem)
  <2>1. Pending
    BY <1>1 DEF Pending
  <2>2. Prepared /\ IsMemory(mem)
    BY DEF TInv, TypesOK
  <2> QED BY <1>2, <2>1, <2>2 DEF Prepared
<1>6. Len(p) >= 3
  BY <1>1, <1>4, MatchedLen DEF Expected
<1>7. Asks(r, p)
  BY DEF Asks, DecodeRequest, Count
<1> HIDE DEF p, r, e
<1>8. WrittenValues(p) = ValuesAsked(mem, p) /\ Updated(mem, p, ValuesAsked(mem, p)) = mem
  BY <1>4, <1>5, <1>6, UpdateSame DEF CarriesOwn
<1>9. mem = Abstract!Update(mem, r, WrittenValues(p))
  BY <1>7, <1>8, SameRange
<1>10. e.txn = Len(written) /\ e.ok /\ mem' = Abstract!Update(mem, r, e.values)
  BY <1>1, <1>3, <1>9
<1> QED BY <1>1, <1>4, <1>10, Succeeds DEF e, r, p

\* The steps of a caller.
LEMMA CallerRefines ==
    ASSUME Deployment, TInv, NEW c \in Callers, CallerStep(c)
    PROVE  [Abstract!Next]_Abstract!vars
<1>0. CallersOK /\ ErrOther \in Errors \ {NoErr}
  BY KnownErrors DEF TInv
<1>1. CASE Lock(c)
  <2>1. /\ "send" \in Busy \ {"cancel"} /\ LockFree /\ Moves(c, "send")
        /\ UNCHANGED <<written, smem, log, mem>>
    BY <1>1 DEF Lock, Busy, serverVars
  <2>2. ~Pending' /\ Told' = Told
    BY <1>0, <2>1, MovesCaller
  <2>3. ~Pending
    BY <1>0, <2>1, NoneBusy DEF Pending, Busy
  <2> QED BY <2>1, <2>2, <2>3, WhoWaits, Stutters
<1>2. CASE Send(c)
  <2>1. CASE Outgoing(c).err = NoErr
    BY <1>2, <2>1, IssueStep DEF Abstract!Next
  <2>2. CASE Outgoing(c).err # NoErr
    <3> DEFINE e == Outgoing(c).err
    <3>1. /\ Finish(c, e) /\ caller[c].pc = "send"
          /\ UNCHANGED <<written, smem, log, mem>>
      BY <1>2, <2>2 DEF Send, MaySend, serverVars
    <3>2. caller[c].pc \in Busy /\ e \in Errors
      BY <3>1, OnReadError, KnownErrors DEF Outgoing, Busy
    <3> HIDE DEF e
    <3>3. Waiting = {} /\ Waiting' = {} /\ Told' = [Told EXCEPT ![c] = e]
      BY <1>0, <3>1, <3>2, Alone, FinishCaller, WhoWaits
    <3> QED BY <2>2, <3>1, <3>2, <3>3, RefusesStep DEF e
  <2> QED BY <2>1, <2>2
<1>3. CASE SendFails(c)
  <2>1. /\ Breaks(c, "write") /\ caller[c].pc = "send" /\ caller[c].pc \in Busy
        /\ UNCHANGED <<written, smem, log, mem>>
    BY <1>3 DEF SendFails, MaySend, serverVars, Busy
  <2>2. Waiting = {} /\ Waiting' = {} /\ Told' = [Told EXCEPT ![c] = ErrOther]
    BY <1>0, <2>1, Alone, BreaksCaller, WhoWaits
  <2> QED BY <1>0, <2>1, <2>2, RefusesStep
<1>4. CASE Receive(c)
  <2>1. /\ Moves(c, "reply") /\ caller[c].pc = "read" /\ caller[c].pc \in Busy
        /\ "reply" \in Busy \ {"cancel"} /\ UNCHANGED <<written, smem, log, mem>>
    BY <1>4 DEF Receive, serverVars, Busy
  <2>2. CallersOK' /\ caller'[c].pc = "reply" /\ Told' = Told
    BY <1>0, <2>1, MovesCaller
  <2>3. \A d \in Callers : caller'[d].pc \in Busy => d = c
    BY <2>1, <2>2 DEF CallersOK
  <2>4. Waiting' = {c}
    BY <2>2, <2>3 DEF Waiting, Busy
  <2>5. Waiting = {c}
    BY <1>0, <2>1, Waits
  <2> QED BY <2>1, <2>2, <2>4, <2>5, Stutters
<1>5. CASE ReceiveFails(c) \/ Unexpected(c)
  <2>1. /\ Breaks(c, "read") \/ Breaks(c, "unexpected")
        /\ caller[c].pc \in {"read", "reply"} /\ caller[c].pc \in Busy
        /\ UNCHANGED <<written, smem, log, mem>>
    BY <1>5 DEF ReceiveFails, Unexpected, serverVars, Busy
  <2>2. Waiting = {c} /\ Waiting' = {} /\ Told' = [Told EXCEPT ![c] = ErrOther]
    BY <1>0, <2>1, Waits, BreaksCaller, WhoWaits
  <2> QED BY <1>0, <2>1, <2>2, Fails
<1>6. CASE ServerError(c)
  <2>1. /\ Finish(c, ErrOther) /\ caller[c].pc \in {"read", "reply"} /\ caller[c].pc \in Busy
        /\ UNCHANGED <<written, smem, log, mem>>
    BY <1>6 DEF ServerError, serverVars, Busy
  <2>2. Waiting = {c} /\ Waiting' = {} /\ Told' = [Told EXCEPT ![c] = ErrOther]
    BY <1>0, <2>1, Waits, FinishCaller, WhoWaits
  <2> QED BY <1>0, <2>1, <2>2, Fails
<1>7. CASE ReadDone(c) \/ WriteDone(c)
  <2>1. PICK err \in Errors : Finish(c, err) /\ caller[c].pc = "reply"
    <3>1. CASE ReadDone(c)
      <4> DEFINE w == OnWrite(mem, Sent, GetReplyValues(reply).data)
      <4>1. w.err \in Errors
        BY OnWriteError
      <4>2. Finish(c, w.err) /\ caller[c].pc = "reply"
        BY <3>1 DEF ReadDone
      <4> QED BY <4>1, <4>2
    <3>2. CASE WriteDone(c)
      BY <3>2, KnownErrors DEF WriteDone
    <3> QED BY <1>7, <3>1, <3>2
  <2>2. caller[c].pc \in Busy
    BY <2>1 DEF Busy
  <2>3. Waiting = {c} /\ Waiting' = {}
    BY <1>0, <2>1, <2>2, Waits, FinishCaller, WhoWaits
  <2>4. \A e \in Errors : Finish(c, e) => Told' = [Told EXCEPT ![c] = e]
    BY <1>0, <2>2, FinishCaller
  <2> QED BY <1>7, <2>3, <2>4, ReadDoneStep, WriteDoneStep
<1>8. CASE Cancels(c)
  <2>1. /\ caller[c].pc = "cancel" /\ caller[c].pc \in Busy /\ Moves(c, "done")
        /\ UNCHANGED <<written, smem, log, mem>>
    BY <1>8 DEF Cancels, serverVars, Busy
  <2>2. Waiting = {} /\ Waiting' = {} /\ Told' = Told
    BY <1>0, <2>1, Alone, CancelsCaller, WhoWaits
  <2> QED BY <2>1, <2>2, Stutters
<1> QED BY <1>1, <1>2, <1>3, <1>4, <1>5, <1>6, <1>7, <1>8 DEF CallerStep

\* The steps on a connection that the server has accepted.
LEMMA ServeConnRefines ==
    ASSUME TInv, NEW k \in Connections, ServeConn(k)
    PROVE  [Abstract!Next]_Abstract!vars
<1> DEFINE p == FramePDU(toServer[k])
<1>1. UNCHANGED clientVars /\ UNCHANGED listening /\ (Respond(k) \/ HangUp(k))
  BY DEF ServeConn
<1>2. ASSUME UNCHANGED <<smem, log>> PROVE UNCHANGED Abstract!vars
  <2>1. UNCHANGED <<written, mem, caller>>
    BY <1>1 DEF clientVars
  <2> QED BY <1>2, <2>1, SameOutcome, Stutters
<1>3. \/ UNCHANGED <<smem, log>>
      \/ /\ ServerReads(k) = "frame" /\ ValidateRequest(p) = NoErr
         /\ Replies(k, p, Dispatch(smem, p))
  BY <1>1 DEF Respond, HangUp
<1>4. CASE /\ k # Client /\ ServerReads(k) = "frame" /\ ValidateRequest(p) = NoErr
           /\ Replies(k, p, Dispatch(smem, p))
  <2> HIDE DEF p
  <2>1. DOMAIN smem' = DOMAIN smem /\ UNCHANGED log
    BY <1>1, <1>4, StrangerTInv DEF p
  <2>2. Strangers # {}
    BY <1>4 DEF Connections
  <2> QED BY <1>1, <2>1, <2>2, DisturbStep DEF Abstract!Next
<1>5. CASE /\ k = Client /\ ServerReads(k) = "frame" /\ ValidateRequest(p) = NoErr
           /\ Replies(k, p, Dispatch(smem, p))
  <2>1. ServerReads(Client) = "frame" /\ p = Sent
    BY <1>5, RequestArrives
  <2> HIDE DEF p
  <2>2. \E n \in 1..Len(Decoded(written)) : Abstract!Execute(1, n)
    BY <1>1, <1>5, <2>1, ExecuteStep
  <2> QED BY <2>2 DEF Abstract!Next, Decoded
<1> QED BY <1>2, <1>3, <1>4, <1>5

\* Every step.
LEMMA RefinesStep ==
    ASSUME Deployment
    PROVE  TInv /\ [Next]_vars => [Abstract!Next]_Abstract!vars
<1> SUFFICES ASSUME TInv, [Next]_vars PROVE [Abstract!Next]_Abstract!vars
  OBVIOUS
<1>1. ASSUME NEW c \in Callers, CallerStep(c) PROVE [Abstract!Next]_Abstract!vars
  BY <1>1, CallerRefines
<1>2. ASSUME NEW k \in Connections, ServeConn(k) PROVE [Abstract!Next]_Abstract!vars
  BY <1>2, ServeConnRefines
<1>3. ASSUME UNCHANGED <<caller, written, smem, log, mem>>
      PROVE  [Abstract!Next]_Abstract!vars
  BY <1>3, SameOutcome, Stutters
<1>4. ASSUME NEW k \in Connections, Accept(k) PROVE [Abstract!Next]_Abstract!vars
  BY <1>3, <1>4 DEF Accept, clientVars
<1>5. CASE Serves \/ Closes \/ CloseListener \/ UNCHANGED vars
  BY <1>3, <1>5 DEF Serves, Closes, CloseListener, clientVars, serverVars, vars
<1> QED BY <1>1, <1>2, <1>4, <1>5 DEF Next

\* The first state.
LEMMA InitRefines == Init => Abstract!Init
<1> SUFFICES ASSUME Init PROVE Abstract!Init
  OBVIOUS
<1>1. Decoded(written) = << >>
  BY DEF Init, Decoded
<1>2. Waiting = {} /\ Told = [c \in Callers |-> NoErr]
  BY InitCallers, WhoWaits DEF Init, Told
<1> QED BY <1>1, <1>2, SameErrors DEF Init, Abstract!Init, Decoded, Only

\* For any callers, any requests that fit the client's buffer, any memories and
\* strangers that send any bytes, while Close, a cancelled context and a closing
\* listener may come in between at any point: the client and the server implement
\* Transactions.  A call that returns nil, for a read or a write, had its request
\* executed exactly once, and a read moved the values of that moment; one that
\* returns an error left the client's copy alone; and a reply is never taken for the
\* answer to another request, although the client ignores the transaction number of
\* the header (tcp_client.go:80-127, tcp_server.go:58-122).
THEOREM ClientServerImplementTransactions ==
    ASSUME Deployment PROVE Spec => ImplementsTransactions
<1>1. Init => TInv
  BY InitTInv
<1>2. TInv /\ [Next]_vars => TInv'
  BY NextTInv
<1>3. TInv /\ [Next]_vars => [Abstract!Next]_Abstract!vars
  BY RefinesStep
<1>4. Init => Abstract!Init
  BY InitRefines
<1> QED BY <1>1, <1>2, <1>3, <1>4, PTL DEF Spec, ImplementsTransactions, Abstract!Spec
================================================================================
