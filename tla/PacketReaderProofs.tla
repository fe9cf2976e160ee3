-------------------------- MODULE PacketReaderProofs ---------------------------
(***************************************************************************)
(* Proofs about rtuPacketReader: for every configuration, every sequence   *)
(* of bytes, frames and noise alike, every way in which the port cuts them *)
(* and every checksum.                                                     *)
(***************************************************************************)
EXTENDS PacketReader, TLAPS

USE DEF smallestRTUSize

-------------------------------------------------------------------------------
(***************************************************************************)
(* What is cut off a sequence of bytes.                                    *)
(***************************************************************************)
LEMMA Cut ==
    ASSUME NEW S, NEW s \in Seq(S), NEW n \in 0..Len(s)
    PROVE  /\ Prefix(s, n) \in Seq(S) /\ Len(Prefix(s, n)) = n
           /\ From(s, n) \in Seq(S) /\ Len(From(s, n)) = Len(s) - n
<1>1. Len(s) \in Nat
  OBVIOUS
<1>2. n \in Nat /\ n <= Len(s)
  BY <1>1
<1>3. \A i \in 1..n : s[i] \in S
  BY <1>1, <1>2
<1>4. \A i \in (n + 1)..Len(s) : s[i] \in S
  BY <1>1, <1>2
<1>5. Prefix(s, n) \in Seq(S) /\ Len(Prefix(s, n)) = n
  BY <1>1, <1>2, <1>3 DEF Prefix
<1>6. From(s, n) \in Seq(S) /\ Len(From(s, n)) = Len(s) - n
  BY <1>1, <1>2, <1>4 DEF From
<1> QED BY <1>5, <1>6

\* Two sequences of bytes joined.
LEMMA Joined ==
    ASSUME NEW S, NEW s \in Seq(S), NEW t \in Seq(S)
    PROVE  s \o t \in Seq(S) /\ Len(s \o t) = Len(s) + Len(t)
OBVIOUS

\* A sequence without its first element.
LEMMA Taken ==
    ASSUME NEW S, NEW s \in Seq(S), s # << >>
    PROVE  /\ Head(s) \in S
           /\ Tail(s) \in Seq(S) /\ Tail(s) # s
<1>1. Len(s) \in Nat /\ Len(s) > 0
  OBVIOUS
<1>2. Head(s) \in S
  BY <1>1
<1>3. Tail(s) \in Seq(S) /\ Len(Tail(s)) = Len(s) - 1
  BY <1>1
<1>4. \A m \in Nat : m - 1 # m
  OBVIOUS
<1> QED BY <1>1, <1>2, <1>3, <1>4, Zenon

(***************************************************************************)
(* Every header that is long enough to be looked at announces a frame of   *)
(* at least the smallest size: the reader never takes nothing for a frame. *)
(***************************************************************************)
LEMMA PDUSize ==
    ASSUME NEW h \in Seq(Byte), NEW c \in BOOLEAN
    PROVE  GetPDUSizeFromHeader(h, c) \in Nat /\ GetPDUSizeFromHeader(h, c) >= 2
<1>1. \A i \in 1..Len(h) : h[i] \in Nat
  BY DEF Byte
<1>2. Len(h) \in Nat
  OBVIOUS
<1>3. GetMaxPDUSize \in Nat /\ GetMaxPDUSize >= 253
  BY OverSizeAssumption DEF GetMaxPDUSize, MaxPDUSize
<1>4. ASSUME Len(h) >= 6 PROVE OverSize(h) \in Nat /\ OverSize(h) >= 6
  <2> DEFINE n == h[4] * 256 + h[5]
  <2>1. h[4] \in Nat /\ h[5] \in Nat
    BY <1>1, <1>2, <1>4
  <2>2. n \in Nat
    BY <2>1
  <2>3. OverSize(h) = IF IsUint16(h[1]) THEN 6 + n * 2
                      ELSE 6 + (IF n = 0 THEN 0 ELSE (n - 1) \div 8) + 1
    BY DEF OverSize
  <2> HIDE DEF n
  <2>4. n # 0 => (n - 1) \div 8 \in Nat
    BY <2>2
  <2> QED BY <2>2, <2>3, <2>4
<1>5. ASSUME Len(h) >= 2 PROVE h[2] \in Nat
  BY <1>1, <1>2, <1>5
<1>6. ASSUME Len(h) >= 6 PROVE h[6] \in Nat
  BY <1>1, <1>2, <1>6
<1> QED BY <1>2, <1>3, <1>4, <1>5, <1>6 DEF GetPDUSizeFromHeader

\* A header never announces less than the smallest packet.
LEMMA RTUSize ==
    ASSUME NEW h \in Seq(Byte), NEW c \in BOOLEAN, Len(h) >= 3
    PROVE  GetRTUSizeFromHeader(h, c) \in Nat /\ GetRTUSizeFromHeader(h, c) >= 5
<1>1. From(h, 1) \in Seq(Byte)
  BY Cut
<1> DEFINE d == c /\ h[1] # 0
<1>2. d \in BOOLEAN
  OBVIOUS
<1>3. GetRTUSizeFromHeader(h, c) = GetPDUSizeFromHeader(From(h, 1), d) + 3
  <2>1. Len(h) \in Nat /\ ~(Len(h) < 3)
    OBVIOUS
  <2> QED BY <2>1, Zenon DEF GetRTUSizeFromHeader
<1> HIDE DEF d
<1>4. /\ GetPDUSizeFromHeader(From(h, 1), d) \in Nat
      /\ GetPDUSizeFromHeader(From(h, 1), d) >= 2
  BY <1>1, <1>2, PDUSize
<1> QED BY <1>3, <1>4

\* Nor does any of the size functions.
LEMMA Expected ==
    ASSUME reader \in Readers, NEW b \in Seq(Byte), Len(b) >= 3
    PROVE  ExpectedSize(b) \in Nat /\ ExpectedSize(b) >= smallestRTUSize
<1>1. \A c \in BOOLEAN : /\ GetRTUSizeFromHeader(b, c) \in Nat
                         /\ GetRTUSizeFromHeader(b, c) >= 5
  BY RTUSize
<1>2. reader.isClient \in BOOLEAN
  BY ReadersAssumption
<1>3. \A c \in BOOLEAN : /\ PreferredSize(b, c) \in Nat
                         /\ PreferredSize(b, c) >= 5
  BY <1>1 DEF PreferredSize, Smaller
<1>4. \A l : /\ GetRTUBidirectionalSizeFromHeader2(b, l) \in Nat
             /\ GetRTUBidirectionalSizeFromHeader2(b, l) >= 5
  BY <1>3 DEF GetRTUBidirectionalSizeFromHeader2
<1>5. /\ GetRTUBidirectionalSizeFromHeader(b) \in Nat
      /\ GetRTUBidirectionalSizeFromHeader(b) >= 5
  BY <1>1 DEF GetRTUBidirectionalSizeFromHeader, Smaller, Larger
<1>6. Len(b) \in Nat
  OBVIOUS
<1>7. /\ GetRTUSizeFromHeader2(b, reader.isClient, reader.slaveID, lastRTU) \in Nat
      /\ GetRTUSizeFromHeader2(b, reader.isClient, reader.slaveID, lastRTU) >= 5
  BY <1>1, <1>2, <1>4, <1>6 DEF GetRTUSizeFromHeader2
<1> QED BY <1>1, <1>2, <1>5, <1>7 DEF ExpectedSize

-------------------------------------------------------------------------------
(***************************************************************************)
(* The inductive invariant.  Between two calls nothing is left in the      *)
(* buffer: what has been read is returned, dropped or kept in s.last.      *)
(***************************************************************************)
HistoryOK ==
    /\ script \in Seq([bytes : Seq(Byte), frame : BOOLEAN])
    /\ returned \in Seq(Seq(Byte))
    /\ expected \in Nat

IdleEmpty == pc = "idle" => buf = << >>

IInv == TypeOK /\ HistoryOK /\ IdleEmpty /\ ReturnedWhole

\* The invariant holds at first.
LEMMA InitIInv == Init => IInv
<1> SUFFICES ASSUME Init PROVE IInv
  OBVIOUS
<1> USE DEF Init
<1>1. BufSize \in Nat /\ BufSize > 5
  BY ReadersAssumption
<1>2. TypeOK
  <2>1. << >> \in Seq(Byte) /\ Len(<< >>) < BufSize
    BY <1>1
  <2>2. {late, open, clean} \subseteq BOOLEAN
    OBVIOUS
  <2> QED BY <2>1, <2>2 DEF TypeOK
<1>3. HistoryOK
  <2>1. script \in Scripts(reader) /\ reader \in Readers
    OBVIOUS
  <2>2. script \in Seq([bytes : Seq(Byte), frame : BOOLEAN])
    BY <2>1, ReadersAssumption, Zenon
  <2>3. returned \in Seq(Seq(Byte)) /\ expected \in Nat
    OBVIOUS
  <2> QED BY <2>2, <2>3 DEF HistoryOK
<1>4. IdleEmpty /\ ReturnedWhole
  BY DEF IdleEmpty, ReturnedWhole
<1> QED BY <1>2, <1>3, <1>4 DEF IInv

\* What a call returns is whole: all that is returned stays whole.
LEMMA ReturnWhole ==
    ASSUME IInv, NEW p \in Seq(Byte), NEW r \in Seq(Byte), Return(p, r),
           Validate(p) \/ Len(p) = BufSize
    PROVE  returned' \in Seq(Seq(Byte)) /\ ReturnedWhole'
<1>1. returned \in Seq(Seq(Byte)) /\ ReturnedWhole
  BY DEF IInv, HistoryOK
<1>2. CASE clean
  <2>1. returned' = Append(returned, p)
    BY <1>2 DEF Return
  <2>2. Len(returned') = Len(returned) + 1 /\ returned' \in Seq(Seq(Byte))
    BY <1>1, <2>1
  <2>3. ASSUME NEW k \in 1..Len(returned')
        PROVE  Validate(returned'[k]) \/ Len(returned'[k]) = BufSize
    <3>1. Len(returned) \in Nat
      BY <1>1
    <3>2. CASE k = Len(returned) + 1
      <4>1. returned'[k] = p
        BY <1>1, <2>1, <3>1, <3>2
      <4> QED BY <4>1
    <3>3. CASE k # Len(returned) + 1
      <4>1. k \in 1..Len(returned)
        BY <2>2, <3>1, <3>3
      <4>2. returned'[k] = returned[k]
        BY <1>1, <2>1, <4>1
      <4> QED BY <1>1, <4>1, <4>2 DEF ReturnedWhole
    <3> QED BY <3>2, <3>3
  <2> QED BY <2>2, <2>3 DEF ReturnedWhole
<1>3. CASE ~clean
  <2>1. returned' = <<p>>
    BY <1>3 DEF Return
  <2>2. \A k \in 1..Len(returned') : returned'[k] = p
    BY <2>1
  <2> QED BY <2>1, <2>2 DEF ReturnedWhole
<1> QED BY <1>2, <1>3

(***************************************************************************)
(* The end of an iteration, whether the bytes came from s.last or from the *)
(* port: b is what has been read, fewer bytes than the buffer holds.       *)
(***************************************************************************)
ReadOK == 
    /\ buf \in Seq(Byte) /\ last \in Seq(Byte)
    /\ pc \in {"idle", "loop", "failed"}
    /\ Len(buf) < BufSize /\ Len(last) < BufSize
    /\ last # << >> => buf = << >>
    /\ expected \in Nat /\ expected >= smallestRTUSize
    /\ returned \in Seq(Seq(Byte))
    /\ IdleEmpty /\ ReturnedWhole

\* Finish returns a packet and keeps the rest, which is less.
LEMMA FinishOK ==
    ASSUME IInv, NEW b \in Seq(Byte), Len(b) < BufSize,
           NEW e \in Nat, e >= 5, e <= Len(b), Finish(b, e)
    PROVE  ReadOK' /\ Len(buf') + Len(last') < Len(b)
<1>1. BufSize \in Nat /\ BufSize > 5 /\ Len(b) \in Nat
  BY ReadersAssumption
<1>2. /\ Prefix(b, e) \in Seq(Byte)
      /\ From(b, e) \in Seq(Byte) /\ Len(From(b, e)) = Len(b) - e
  <2>1. e \in 0..Len(b)
    BY <1>1
  <2> QED BY <2>1, Cut
<1>3. CASE Len(b) > e /\ Validate(Prefix(b, e))
  <2>1. Return(Prefix(b, e), From(b, e))
    BY <1>3 DEF Finish
  <2>2. returned' \in Seq(Seq(Byte)) /\ ReturnedWhole'
    BY <1>2, <1>3, <2>1, ReturnWhole
  <2>3. pc' = "idle" /\ buf' = << >> /\ expected' = 5 /\ last' = From(b, e)
    BY <2>1 DEF Return
  <2> QED BY <1>1, <1>2, <2>2, <2>3 DEF ReadOK, IdleEmpty
<1>4. CASE ~(Len(b) > e /\ Validate(Prefix(b, e))) /\ Validate(b)
  <2>1. Return(b, << >>)
    BY <1>4 DEF Finish
  <2>2. returned' \in Seq(Seq(Byte)) /\ ReturnedWhole'
    <3>1. << >> \in Seq(Byte)
      OBVIOUS
    <3> QED BY <1>4, <2>1, <3>1, ReturnWhole
  <2>3. pc' = "idle" /\ buf' = << >> /\ expected' = 5 /\ last' = << >>
    BY <2>1 DEF Return
  <2> QED BY <1>1, <2>2, <2>3 DEF ReadOK, IdleEmpty
<1>5. CASE ~(Len(b) > e /\ Validate(Prefix(b, e))) /\ ~Validate(b)
  <2>1. /\ pc' = "loop" /\ buf' = << >> /\ expected' = 5 /\ last' = << >>
        /\ returned' = returned
    BY <1>5 DEF Finish, Restart
  <2> QED BY <1>1, <2>1 DEF ReadOK, IdleEmpty, ReturnedWhole, IInv, HistoryOK
<1> QED BY <1>3, <1>4, <1>5

\* Either there is less to look at, or all of it is in the buffer.
LEMMA ExamineOK ==
    ASSUME IInv, pc = "loop", NEW b \in Seq(Byte), Len(b) < BufSize, Examine(b)
    PROVE  /\ ReadOK'
           /\ \/ Len(buf') + Len(last') < Len(b)
              \/ Len(buf') = Len(b) /\ last' = << >> /\ pc' = "loop"
<1> DEFINE e == IF Len(b) < expected THEN expected ELSE ExpectedSize(b)
<1>1. BufSize \in Nat /\ Len(b) \in Nat /\ expected \in Nat /\ expected >= 5
  BY ReadersAssumption DEF IInv, TypeOK, HistoryOK
<1>2. e \in Nat /\ e >= 5
  <2>1. CASE Len(b) < expected
    BY <1>1, <2>1
  <2>2. CASE ~(Len(b) < expected)
    <3>1. reader \in Readers /\ Len(b) >= 3
      BY <1>1, <2>2 DEF IInv, TypeOK
    <3> QED BY <2>2, <3>1, Expected
  <2> QED BY <2>1, <2>2
<1>3. IF Len(b) < e THEN Continue(b, e) ELSE Finish(b, e)
  BY Zenon DEF Examine
<1> HIDE DEF e
<1>4. CASE Len(b) < e
  <2>1. /\ buf' = b /\ expected' = e /\ last' = << >>
        /\ pc' = pc /\ returned' = returned
    BY <1>3, <1>4 DEF Continue
  <2> QED BY <1>1, <1>2, <2>1 DEF ReadOK, IdleEmpty, ReturnedWhole, IInv, HistoryOK
<1>5. CASE ~(Len(b) < e)
  BY <1>1, <1>2, <1>3, <1>5, FinishOK
<1> QED BY <1>4, <1>5

-------------------------------------------------------------------------------
(***************************************************************************)
(* One step.  An action that leaves the reader's variables well formed     *)
(* keeps the invariant, and an action of Read leaves less to do.           *)
(***************************************************************************)
AroundOK ==
    /\ reader \in Readers /\ line \in Seq(Byte)
    /\ late \in BOOLEAN /\ open \in BOOLEAN /\ clean \in BOOLEAN
    /\ script \in Seq([bytes : Seq(Byte), frame : BOOLEAN])

\* The invariant in two parts: what Read changes, and what it leaves alone.
LEMMA Assemble ==
    ASSUME ReadOK', AroundOK'
    PROVE  IInv'
<1>1. {late', open', clean'} \subseteq BOOLEAN
  BY DEF AroundOK
<1> QED BY <1>1 DEF ReadOK, AroundOK, IInv, TypeOK, HistoryOK

\* The converse, before a step.
LEMMA Disassemble ==
    ASSUME IInv PROVE ReadOK /\ AroundOK
<1>1. {late, open, clean} \subseteq BOOLEAN
  BY DEF IInv, TypeOK
<1>2. late \in BOOLEAN /\ open \in BOOLEAN /\ clean \in BOOLEAN
  BY <1>1
<1> QED BY <1>2 DEF ReadOK, AroundOK, IInv, TypeOK, HistoryOK

\* Bytes after the cutoff replace the ones held, which are dropped.
LEMMA CutOffOK ==
    ASSUME IInv, pc = "loop", NEW bytes \in Seq(Byte),
           Len(bytes) + Len(buf) <= BufSize, TooOld, CutOff(bytes)
    PROVE  ReadOK' /\ Len(buf') + Len(last') < Len(buf) + Len(bytes)
<1>1. ReadOK
  BY Disassemble
<1>2. Len(buf) \in Nat /\ buf # << >> /\ Len(bytes) \in Nat /\ BufSize \in Nat
  BY <1>1, ReadersAssumption DEF ReadOK, TooOld
<1>3. Len(buf) > 0
  BY <1>1, <1>2 DEF ReadOK
<1>4. /\ buf' = << >> /\ last' = bytes /\ expected' = 5
      /\ pc' = pc /\ returned' = returned
  BY DEF CutOff
<1> QED BY <1>1, <1>2, <1>3, <1>4 DEF ReadOK, IdleEmpty, ReturnedWhole

\* How far Read is: what Work compares second.
Stage == CASE pc = "idle" -> 2 [] pc = "loop" -> 1 [] pc = "failed" -> 0

Held == Len(line) + Len(buf) + Len(last)

\* The order in which the parts of Work are lowered.
LEMMA LowerWork ==
    ASSUME IInv, IInv',
           \/ Held' < Held
           \/ Held' = Held /\ Stage' < Stage
           \/ Held' = Held /\ Stage' = Stage /\ Len(line') < Len(line)
           \/ /\ Held' = Held /\ Stage' = Stage /\ line' = line
              /\ Len(last') < Len(last)
    PROVE  Lower(Work', Work)
<1>1. Work = <<Held, Stage, Len(line), Len(last)>>
  BY Zenon DEF Work, Held, Stage
<1>2. Work' = <<Held', Stage', Len(line'), Len(last')>>
  BY Zenon DEF Work, Held, Stage
<1>3. ASSUME NEW a, NEW b, NEW c, NEW d, NEW a1, NEW b1, NEW c1, NEW d1,
             \/ a1 < a
             \/ a1 = a /\ b1 < b
             \/ a1 = a /\ b1 = b /\ c1 < c
             \/ a1 = a /\ b1 = b /\ c1 = c /\ d1 < d
      PROVE  Lower(<<a1, b1, c1, d1>>, <<a, b, c, d>>)
  <2> DEFINE v == <<a1, b1, c1, d1>>
             w == <<a, b, c, d>>
  <2>1. SUFFICES \E i \in 1..4 : v[i] < w[i] /\ \A j \in 1..(i - 1) : v[j] = w[j]
    BY DEF Lower
  <2>2. CASE a1 < a
    <3>1. v[1] < w[1] /\ \A j \in 1..(1 - 1) : v[j] = w[j]
      BY <2>2
    <3> QED BY <3>1
  <2>3. CASE a1 = a /\ b1 < b
    <3>1. v[2] < w[2] /\ \A j \in 1..(2 - 1) : v[j] = w[j]
      BY <2>3
    <3> QED BY <3>1
  <2>4. CASE a1 = a /\ b1 = b /\ c1 < c
    <3>1. v[3] < w[3] /\ \A j \in 1..(3 - 1) : v[j] = w[j]
      BY <2>4
    <3> QED BY <3>1
  <2>5. CASE a1 = a /\ b1 = b /\ c1 = c /\ d1 < d
    <3>1. v[4] < w[4] /\ \A j \in 1..(4 - 1) : v[j] = w[j]
      BY <2>5
    <3> QED BY <3>1
  <2> QED BY <1>3, <2>2, <2>3, <2>4, <2>5
<1> QED BY <1>1, <1>2, <1>3

\* Read is called.
LEMMA CallStep == ASSUME IInv, Call PROVE IInv' /\ Lower(Work', Work)
<1>1. ReadOK /\ AroundOK
  BY Disassemble
<1>2. /\ pc = "idle" /\ pc' = "loop" /\ buf' = << >> /\ expected' = 5
      /\ UNCHANGED <<reader, script, open, clean, line, late, last, returned>>
  BY DEF Call, Restart, lineVars, gapVars
<1>3. buf = << >>
  BY <1>1, <1>2 DEF ReadOK, IdleEmpty
<1>4. ReadOK'
  BY <1>1, <1>2, <1>3 DEF ReadOK, IdleEmpty, ReturnedWhole
<1>5. AroundOK'
  BY <1>1, <1>2 DEF AroundOK
<1>6. IInv'
  BY <1>4, <1>5, Assemble
<1>7. Held' = Held /\ Stage' < Stage
  BY <1>2, <1>3 DEF Held, Stage
<1> QED BY <1>6, <1>7, LowerWork

\* Read takes the bytes left over.
LEMMA TakeLastStep == ASSUME IInv, TakeLast PROVE IInv' /\ Lower(Work', Work)
<1>1. ReadOK /\ AroundOK
  BY Disassemble
<1>2. /\ pc = "loop" /\ last # << >>
      /\ Examine(Prefix(last, Smaller(Len(last), BufSize)))
      /\ UNCHANGED <<reader, script, open, clean, line, late>>
  BY DEF TakeLast, lineVars, gapVars
<1>3. /\ last \in Seq(Byte) /\ Len(last) \in Nat /\ Len(last) < BufSize
      /\ BufSize \in Nat /\ buf = << >> /\ Len(buf) = 0
  BY <1>1, <1>2, ReadersAssumption DEF ReadOK
<1>4. Smaller(Len(last), BufSize) = Len(last)
  BY <1>3 DEF Smaller
<1> DEFINE b == Prefix(last, Len(last))
<1>5. b \in Seq(Byte) /\ Len(b) = Len(last)
  BY <1>3, Cut
<1>6. Examine(b)
  BY <1>2, <1>4
<1> HIDE DEF b
<1>7. /\ ReadOK'
      /\ \/ Len(buf') + Len(last') < Len(b)
         \/ Len(buf') = Len(b) /\ last' = << >> /\ pc' = "loop"
  BY <1>2, <1>3, <1>5, <1>6, ExamineOK
<1>8. AroundOK'
  BY <1>1, <1>2 DEF AroundOK
<1>9. IInv'
  BY <1>7, <1>8, Assemble
<1>10. Len(line) \in Nat /\ Len(buf') \in Nat /\ Len(last') \in Nat
  BY <1>1, <1>7 DEF ReadOK, AroundOK
<1>11. Len(last) > 0
  BY <1>2, <1>3
<1>12. CASE Len(buf') + Len(last') < Len(b)
  <2>1. Held' < Held
    BY <1>2, <1>3, <1>5, <1>10, <1>12 DEF Held
  <2> QED BY <1>9, <2>1, LowerWork
<1>13. CASE Len(buf') = Len(b) /\ last' = << >> /\ pc' = "loop"
  <2>1. Held' = Held /\ Len(last') < Len(last)
    BY <1>2, <1>3, <1>5, <1>10, <1>11, <1>13 DEF Held
  <2>2. Stage' = Stage /\ line' = line
    BY <1>2, <1>13 DEF Stage
  <2> QED BY <1>9, <2>1, <2>2, LowerWork
<1> QED BY <1>7, <1>9, <1>12, <1>13

\* Read takes n bytes from the port.
LEMMA PortReadStep ==
    ASSUME IInv, NEW n \in 1..Smaller(Len(line), BufSize - Len(buf)), PortRead(n)
    PROVE  IInv' /\ Lower(Work', Work)
<1> DEFINE bytes == Prefix(line, n)
           b == buf \o bytes
<1>1. ReadOK /\ AroundOK
  BY Disassemble
<1>2. /\ BufSize \in Nat /\ Len(buf) \in Nat /\ Len(line) \in Nat
      /\ buf \in Seq(Byte) /\ line \in Seq(Byte) /\ clean \in BOOLEAN
  BY <1>1, ReadersAssumption DEF ReadOK, AroundOK
<1>3. n \in Nat /\ n >= 1 /\ n <= Len(line) /\ n + Len(buf) <= BufSize
  BY <1>2 DEF Smaller
<1>4. n \in 0..Len(line)
  BY <1>2, <1>3
<1>5. /\ bytes \in Seq(Byte) /\ Len(bytes) = n
      /\ From(line, n) \in Seq(Byte) /\ Len(From(line, n)) = Len(line) - n
  BY <1>2, <1>4, Cut
<1>6. b \in Seq(Byte) /\ Len(b) = Len(buf) + n
  BY <1>2, <1>5, Joined
<1>7. /\ pc = "loop" /\ last = << >>
      /\ line' = From(line, n)
      /\ IF TooOld THEN CutOff(bytes) /\ UNCHANGED gapVars
         ELSE /\ late' = FALSE
              /\ IF Len(b) = BufSize
                 THEN /\ Return(b, << >>)
                      /\ clean' = FALSE /\ tail' = << >>
                      /\ UNCHANGED lastRTU
                 ELSE Examine(b) /\ UNCHANGED gapVars
      /\ UNCHANGED <<reader, script, open>>
  BY DEF PortRead, lineVars
<1> HIDE DEF b, bytes
<1>8. ASSUME ReadOK', late' \in BOOLEAN, clean' \in BOOLEAN PROVE IInv'
  <2>1. AroundOK'
    BY <1>1, <1>5, <1>7, <1>8 DEF AroundOK
  <2> QED BY <1>8, <2>1, Assemble
<1>9. ASSUME ReadOK', late' \in BOOLEAN, clean' \in BOOLEAN,
             Len(buf') + Len(last') < Len(buf) + n
      PROVE  IInv' /\ Lower(Work', Work)
  <2>1. Len(buf') \in Nat /\ Len(last') \in Nat /\ Len(last) = 0
    BY <1>7, <1>9 DEF ReadOK
  <2>2. Held' < Held
    BY <1>2, <1>3, <1>5, <1>7, <1>9, <2>1 DEF Held
  <2> QED BY <1>8, <1>9, <2>2, LowerWork
<1>10. CASE TooOld
  <2>1. CutOff(bytes) /\ clean' = clean /\ late' = FALSE
    BY <1>7, <1>10 DEF gapVars, CutOff
  <2>2. ReadOK' /\ Len(buf') + Len(last') < Len(buf) + n
    BY <1>2, <1>3, <1>5, <1>7, <1>10, <2>1, CutOffOK
  <2> QED BY <1>2, <1>9, <2>1, <2>2
<1>11. CASE ~TooOld /\ Len(b) = BufSize
  <2>1. Return(b, << >>) /\ clean' = FALSE /\ late' = FALSE
    BY <1>7, <1>11
  <2>2. << >> \in Seq(Byte)
    OBVIOUS
  <2>3. returned' \in Seq(Seq(Byte)) /\ ReturnedWhole'
    BY <1>6, <1>11, <2>1, <2>2, ReturnWhole
  <2>4. pc' = "idle" /\ buf' = << >> /\ expected' = 5 /\ last' = << >>
    BY <2>1 DEF Return
  <2>5. ReadOK' /\ Len(buf') + Len(last') < Len(buf) + n
    BY <1>2, <1>3, <2>3, <2>4, ReadersAssumption DEF ReadOK, IdleEmpty
  <2> QED BY <1>9, <2>1, <2>5
<1>12. CASE ~TooOld /\ Len(b) # BufSize
  <2>1. Examine(b) /\ clean' = clean /\ late' = FALSE
    BY <1>7, <1>12 DEF gapVars
  <2>2. /\ ReadOK'
        /\ \/ Len(buf') + Len(last') < Len(b)
           \/ Len(buf') = Len(b) /\ last' = << >> /\ pc' = "loop"
    <3>1. Len(b) < BufSize
      BY <1>2, <1>3, <1>6, <1>12
    <3> QED BY <1>6, <1>7, <2>1, <3>1, ExamineOK
  <2>3. CASE Len(buf') + Len(last') < Len(b)
    BY <1>2, <1>6, <1>9, <2>1, <2>2, <2>3
  <2>4. CASE Len(buf') = Len(b) /\ last' = << >> /\ pc' = "loop"
    <3>1. IInv'
      BY <1>2, <1>8, <2>1, <2>2
    <3>2. Held' = Held /\ Len(line') < Len(line)
      <4>1. Len(last) = 0 /\ Len(last') = 0 /\ Len(buf') = Len(buf) + n
        BY <1>6, <1>7, <2>4
      <4>2. Len(line') = Len(line) - n
        BY <1>5, <1>7
      <4> QED BY <1>2, <1>3, <4>1, <4>2 DEF Held
    <3>3. Stage' = Stage
      BY <1>7, <2>4 DEF Stage
    <3> QED BY <3>1, <3>2, <3>3, LowerWork
  <2> QED BY <2>2, <2>3, <2>4
<1> QED BY <1>10, <1>11, <1>12

\* The port returns nothing, or an error.
LEMMA PortStep ==
    ASSUME IInv, PortEmpty \/ PortFail PROVE IInv' /\ Lower(Work', Work)
<1>1. ReadOK /\ AroundOK
  BY Disassemble
<1>2. /\ pc = "loop" /\ last = << >>
      /\ UNCHANGED <<reader, script, open, clean, line>>
      /\ \/ TooOld /\ CutOff(<< >>)
         \/ pc' = "failed" /\ UNCHANGED <<late, buf, expected, last, lastRTU, returned>>
  BY DEF PortEmpty, PortFail, lineVars, gapVars
<1>3. /\ Len(line) \in Nat /\ Len(buf) \in Nat /\ Len(last) = 0
      /\ BufSize \in Nat /\ Len(buf) < BufSize
  BY <1>1, <1>2, ReadersAssumption DEF ReadOK, AroundOK
<1>4. CASE TooOld /\ CutOff(<< >>)
  <2>1. << >> \in Seq(Byte) /\ Len(<< >>) = 0
    OBVIOUS
  <2>2. Len(<< >>) + Len(buf) <= BufSize /\ Len(buf) + Len(<< >>) = Len(buf)
    BY <1>3, <2>1
  <2>3. ReadOK' /\ Len(buf') + Len(last') < Len(buf) + Len(<< >>)
    BY <1>2, <1>4, <2>1, <2>2, CutOffOK
  <2>4. AroundOK'
    BY <1>1, <1>2, <1>4 DEF AroundOK, CutOff
  <2>5. IInv'
    BY <2>3, <2>4, Assemble
  <2>6. Held' < Held
    <3>1. Len(buf') \in Nat /\ Len(last') \in Nat
      BY <2>3 DEF ReadOK
    <3> QED BY <1>2, <1>3, <2>2, <2>3, <3>1 DEF Held
  <2> QED BY <2>5, <2>6, LowerWork
<1>5. CASE pc' = "failed" /\ UNCHANGED <<late, buf, expected, last, lastRTU, returned>>
  <2>1. ReadOK'
    BY <1>1, <1>5 DEF ReadOK, IdleEmpty, ReturnedWhole
  <2>2. AroundOK'
    BY <1>1, <1>2, <1>5 DEF AroundOK
  <2>3. IInv'
    BY <2>1, <2>2, Assemble
  <2>4. Held' = Held /\ Stage' < Stage
    BY <1>2, <1>5 DEF Held, Stage
  <2> QED BY <2>3, <2>4, LowerWork
<1> QED BY <1>2, <1>4, <1>5

\* The steps of the line, which Settles leaves out.
LEMMA LineStep ==
    ASSUME IInv, Arrive \/ Pause \/ Close
    PROVE  IInv' /\ ~(UNCHANGED <<script, open>> /\ (late' => late))
<1>1. ReadOK /\ AroundOK
  BY Disassemble
<1>2. UNCHANGED <<reader, pc, buf, expected, last, returned>>
  BY DEF Arrive, Pause, Close
<1>3. ReadOK'
  BY <1>1, <1>2 DEF ReadOK, IdleEmpty, ReturnedWhole
<1>4. CASE Arrive
  <2> DEFINE a == Head(script)
  <2>1. /\ script # << >> /\ script' = Tail(script)
        /\ line' = line \o a.bytes /\ clean' = (clean /\ a.frame)
        /\ UNCHANGED <<late, open>>
    BY <1>4 DEF Arrive
  <2>2. /\ a \in [bytes : Seq(Byte), frame : BOOLEAN]
        /\ script' \in Seq([bytes : Seq(Byte), frame : BOOLEAN])
        /\ script' # script
    BY <1>1, <2>1, Taken DEF AroundOK
  <2>3. line' \in Seq(Byte)
    <3>1. a.bytes \in Seq(Byte) /\ line \in Seq(Byte)
      BY <1>1, <2>2 DEF AroundOK
    <3> QED BY <2>1, <3>1, Joined
  <2>4. AroundOK'
    BY <1>1, <1>2, <2>1, <2>2, <2>3 DEF AroundOK
  <2> QED BY <1>3, <2>2, <2>4, Assemble
<1>5. CASE Pause
  <2>1. AroundOK'
    BY <1>1, <1>5 DEF AroundOK, Pause
  <2> QED BY <1>3, <1>5, <2>1, Assemble DEF Pause
<1>6. CASE Close
  <2>1. AroundOK'
    BY <1>1, <1>6 DEF AroundOK, Close
  <2> QED BY <1>3, <1>6, <2>1, Assemble DEF Close
<1> QED BY <1>4, <1>5, <1>6

\* Every step keeps the invariant and lowers Work, or is one of the line.
LEMMA NextStep ==
    ASSUME IInv, [Next]_vars
    PROVE  /\ IInv'
           /\ [UNCHANGED <<script, open>> /\ (late' => late)
                 => Lower(Work', Work)]_vars
<1>1. CASE Arrive \/ Pause \/ Close
  BY <1>1, LineStep
<1>2. CASE Call
  BY <1>2, CallStep
<1>3. CASE TakeLast
  BY <1>3, TakeLastStep
<1>4. CASE PortFail \/ PortEmpty
  BY <1>4, PortStep
<1>5. ASSUME NEW n \in 1..Smaller(Len(line), BufSize - Len(buf)), PortRead(n)
      PROVE  IInv' /\ Lower(Work', Work)
  BY <1>5, PortReadStep
<1>6. CASE UNCHANGED vars
  BY <1>6 DEF vars, IInv, TypeOK, HistoryOK, IdleEmpty, ReturnedWhole
<1> QED BY <1>1, <1>2, <1>3, <1>4, <1>5, <1>6 DEF Next, ReaderStep

-------------------------------------------------------------------------------
\* The invariant holds in every state.
LEMMA Invariance == Spec => []IInv
BY InitIInv, NextStep, PTL DEF Spec

\* The variables of rtuPacketReader keep their types and their bounds: Read
\* never writes beyond p, what is carried to the next call is shorter than p,
\* and bytes are carried over only when the buffer is empty.
THEOREM TypeCorrect == Spec => []TypeOK
<1>1. IInv => TypeOK
  BY DEF IInv
<1> QED BY <1>1, Invariance, PTL

\* Read returns only packets that end in their checksum or fill the buffer,
\* whatever arrives and however the port cuts it.
THEOREM OnlyWholePackets == Spec => []ReturnedWhole
<1>1. IInv => ReturnedWhole
  BY DEF IInv
<1> QED BY <1>1, Invariance, PTL

\* The loops of Read end: every step of it lowers a measure that only the
\* arrival of bytes, the closing of the port or a new pause can raise.
THEOREM ReadSettles == Spec => Settles
BY Invariance, NextStep, PTL DEF Spec, Settles
================================================================================
