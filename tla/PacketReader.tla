----------------------------- MODULE PacketReader ------------------------------
(***************************************************************************)
(* rtuPacketReader (packet_reader.go): frames cut out of a stream of       *)
(* bytes.  The port returns any number of the bytes that have arrived; a   *)
(* pause longer than PacketCutoffDuration since the last read makes the    *)
(* next one late.  The lengths are inferred from the bytes themselves and, *)
(* on a shared line, from the checksum.  The statistics, which Read only   *)
(* increments, are left out.                                               *)
(***************************************************************************)
EXTENDS Modbus

CONSTANTS
    Validate(_),    \* crc.Validate
    Readers,        \* [isClient, bidirectional, twoWire, slaveID]
    Scripts(_),     \* what may arrive at a reader: sequences of [bytes, frame]
    BufSize         \* len(p), the same in every call of Read

ASSUME ReadersAssumption ==
    /\ Readers \subseteq [isClient : BOOLEAN, bidirectional : BOOLEAN,
                          twoWire : BOOLEAN, slaveID : 1..247]
    /\ \A r \in Readers : Scripts(r) \subseteq Seq([bytes : Seq(Byte), frame : BOOLEAN])
    /\ BufSize \in Nat /\ BufSize > smallestRTUSize

VARIABLES
    reader,     \* the reader's configuration
    script,     \* what is still to arrive
    line,       \* bytes that have arrived at the port
    late,       \* the cutoff has passed since the last read of the port
    open,       \* the port is open
    pc,         \* "idle" between calls, "loop" in Read, "failed" after an error
    buf,        \* p[:read]
    expected,
    last,       \* s.last
    lastRTU,    \* s.lastRTU
    returned,   \* history: the packets returned, only the latest of those
                \* returned before the line became clean
    clean,      \* history: only whole, timely frames since the last gap, and
                \* none of them filled the buffer
    tail        \* history: the frames that have arrived since then

vars == <<reader, script, line, late, open, pc, buf, expected, last, lastRTU,
          returned, clean, tail>>

-------------------------------------------------------------------------------
(***************************************************************************)
(* The length of the frame that starts with the bytes in header.           *)
(***************************************************************************)
Smaller(a, b) == IF a < b THEN a ELSE b
Larger(a, b) == IF a < b THEN b ELSE a
Prefix(s, n) == SubSeq(s, 1, n)

GetRTUSizeFromHeader(header, isClient) ==
    IF Len(header) < 3 THEN 3
    ELSE GetPDUSizeFromHeader(From(header, 1), isClient /\ header[1] # 0) + 3

GetRTUBidirectionalSizeFromHeader(header) ==
    LET a == GetRTUSizeFromHeader(header, FALSE)
        b == GetRTUSizeFromHeader(header, TRUE)
        s == Smaller(a, b)
        l == Larger(a, b)
    IN  IF s > Len(header) THEN s
        ELSE IF l <= Len(header) /\ Validate(Prefix(header, l)) THEN l
        ELSE IF Validate(Prefix(header, s)) THEN s
        ELSE l

PreferredSize(header, isClient) ==
    LET size == GetRTUSizeFromHeader(header, isClient)
        size2 == GetRTUSizeFromHeader(header, ~isClient)
    IN  IF size > Len(header) \/ Validate(Prefix(header, size)) THEN size
        ELSE IF size2 > Len(header) \/ Validate(Prefix(header, size2)) THEN size2
        ELSE Smaller(size, size2)

GetRTUBidirectionalSizeFromHeader2(header, lastPacket) ==
    PreferredSize(header, /\ lastPacket # << >>
                          /\ Len(lastPacket) # GetRTUSizeFromHeader(lastPacket, FALSE))

GetRTUSizeFromHeader2(header, isClient, slaveID, lastPacket) ==
    IF Len(header) < 3 THEN 3
    ELSE IF isClient \/ header[1] = slaveID THEN GetRTUSizeFromHeader(header, isClient)
    ELSE GetRTUBidirectionalSizeFromHeader2(header, lastPacket)

ExpectedSize(b) ==
    IF reader.bidirectional THEN GetRTUBidirectionalSizeFromHeader(b)
    ELSE IF reader.twoWire
    THEN GetRTUSizeFromHeader2(b, reader.isClient, reader.slaveID, lastRTU)
    ELSE GetRTUSizeFromHeader(b, reader.isClient)

-------------------------------------------------------------------------------
Init ==
    /\ reader \in Readers
    /\ script \in Scripts(reader)
    /\ line = << >> /\ late = FALSE /\ open = TRUE
    /\ pc = "idle" /\ buf = << >> /\ expected = smallestRTUSize
    /\ last = << >> /\ lastRTU = << >>
    /\ returned = << >>
    /\ clean = TRUE /\ tail = << >>

(***************************************************************************)
(* The line.  Noise, a pause before the port has been emptied, and a read  *)
(* that fills the buffer may damage what is on its way; a pause once       *)
(* everything is read ends that.                                           *)
(***************************************************************************)
lineVars == <<reader, script, open>>
gapVars == <<clean, tail>>

Arrive ==
    LET a == Head(script)
    IN  /\ script # << >> /\ open
        /\ script' = Tail(script)
        /\ line' = line \o a.bytes
        /\ clean' = (clean /\ a.frame)
        /\ tail' = IF clean /\ a.frame THEN Append(tail, a.bytes) ELSE << >>
        /\ UNCHANGED <<reader, late, open, pc, buf, expected, last, lastRTU, returned>>

Pause ==
    /\ ~late /\ late' = TRUE
    /\ clean' = (line = << >>)
    /\ tail' = IF clean /\ line = << >> THEN tail ELSE << >>
    /\ UNCHANGED <<reader, script, line, open, pc, buf, expected, last, lastRTU, returned>>

Close ==
    /\ open /\ open' = FALSE
    /\ UNCHANGED <<reader, script, line, late, pc, buf, expected, last, lastRTU,
                   returned, clean, tail>>

-------------------------------------------------------------------------------
(***************************************************************************)
(* Read.                                                                   *)
(***************************************************************************)
Restart ==
    /\ pc' = "loop" /\ buf' = << >> /\ expected' = smallestRTUSize

Call ==
    /\ pc = "idle"
    /\ Restart
    /\ UNCHANGED <<lineVars, gapVars, line, late, last, lastRTU, returned>>

Return(packet, rest) ==
    /\ pc' = "idle" /\ buf' = << >> /\ expected' = smallestRTUSize
    /\ returned' = IF clean THEN Append(returned, packet) ELSE <<packet>>
    /\ last' = rest

\* Mutant: a frame of the expected length is not checked.
FinishUnchecked(b, e) ==
    IF Len(b) > e /\ Validate(Prefix(b, e))
    THEN /\ Return(Prefix(b, e), From(b, e))
         /\ lastRTU' = Prefix(b, e)
    ELSE /\ Return(b, << >>)
         /\ lastRTU' = b

\* b holds at least the e bytes of a frame.
Finish(b, e) ==
    IF Len(b) > e /\ Validate(Prefix(b, e))
    THEN /\ Return(Prefix(b, e), From(b, e))
         /\ lastRTU' = Prefix(b, e)
    ELSE IF Validate(b)
    THEN /\ Return(b, << >>)
         /\ lastRTU' = b
    ELSE /\ Restart
         /\ last' = << >> /\ UNCHANGED <<returned, lastRTU>>

Continue(b, e) ==
    /\ buf' = b /\ expected' = e
    /\ last' = << >>
    /\ UNCHANGED <<pc, lastRTU, returned>>

\* The end of an iteration of the inner loop, with the bytes b read so far.
Examine(b) ==
    LET e == IF Len(b) < expected THEN expected ELSE ExpectedSize(b)
    IN  IF Len(b) < e THEN Continue(b, e) ELSE Finish(b, e)

\* Mutant: s.last is not emptied.
TakeLastKept ==
    /\ pc = "loop" /\ last # << >>
    /\ LET b == Prefix(last, Smaller(Len(last), BufSize))
       IN  /\ buf' = b /\ expected' = expected
           /\ UNCHANGED <<pc, last, lastRTU, returned>>
    /\ UNCHANGED <<lineVars, gapVars, line, late>>

TakeLast ==
    /\ pc = "loop" /\ last # << >>
    /\ Examine(Prefix(last, Smaller(Len(last), BufSize)))
    /\ UNCHANGED <<lineVars, gapVars, line, late>>

\* A read that comes after the cutoff starts a new packet with its bytes.
CutOff(bytes) ==
    /\ last' = bytes
    /\ buf' = << >> /\ expected' = smallestRTUSize
    /\ late' = FALSE
    /\ UNCHANGED <<pc, lastRTU, returned>>

\* Mutant: the age of what has been read is not looked at.
TooOldNever == FALSE

TooOld == late /\ buf # << >>

\* The port returns n bytes.  A full buffer is returned as it is.
PortRead(n) ==
    LET bytes == Prefix(line, n)
        b == buf \o bytes
    IN  /\ pc = "loop" /\ last = << >> /\ open
        /\ line' = From(line, n)
        /\ IF TooOld THEN CutOff(bytes) /\ UNCHANGED gapVars
           ELSE /\ late' = FALSE
                /\ IF Len(b) = BufSize
                   THEN /\ Return(b, << >>)
                        /\ clean' = FALSE /\ tail' = << >>
                        /\ UNCHANGED lastRTU
                   ELSE Examine(b) /\ UNCHANGED gapVars
        /\ UNCHANGED lineVars

\* The port returns nothing, and no error: only the age of the packet matters.
PortEmpty ==
    /\ pc = "loop" /\ last = << >> /\ open
    /\ TooOld /\ CutOff(<< >>)
    /\ UNCHANGED <<lineVars, gapVars, line>>

\* Mutant: an error of the port starts a new packet.
PortFailRetries ==
    /\ pc = "loop" /\ last = << >> /\ ~open
    /\ late /\ CutOff(<< >>)
    /\ UNCHANGED <<lineVars, gapVars, line>>

\* The port returns an error; the cutoff is looked at first.
PortFail ==
    /\ pc = "loop" /\ last = << >> /\ ~open
    /\ IF TooOld THEN CutOff(<< >>)
       ELSE /\ pc' = "failed"
            /\ UNCHANGED <<late, buf, expected, last, lastRTU, returned>>
    /\ UNCHANGED <<lineVars, gapVars, line>>

ReaderStep ==
    \/ Call \/ TakeLast \/ PortFail
    \/ \E n \in 1..Smaller(Len(line), BufSize - Len(buf)) : PortRead(n)

Next == Arrive \/ Pause \/ Close \/ ReaderStep \/ PortEmpty

Spec == Init /\ [][Next]_vars

-------------------------------------------------------------------------------
\* Type correctness: in particular bytes are left over only between packets,
\* and what has been read always leaves room for more.
TypeOK ==
    /\ reader \in Readers
    /\ line \in Seq(Byte) /\ buf \in Seq(Byte) /\ last \in Seq(Byte)
    /\ {late, open, clean} \subseteq BOOLEAN
    /\ pc \in {"idle", "loop", "failed"}
    /\ Len(buf) < BufSize /\ Len(last) < BufSize
    /\ last # << >> => buf = << >>
    /\ expected >= smallestRTUSize

\* Everything returned ends in its checksum, unless it fills the buffer: bytes
\* of two packets are never taken for one, whatever arrives and whenever.
ReturnedWhole ==
    \A k \in 1..Len(returned) : Validate(returned[k]) \/ Len(returned[k]) = BufSize

\* The port has nothing and Read waits for it.
Drained == line = << >> /\ pc = "loop" /\ last = << >>

\* On a line that others use too only the frames for this server count.
Ours(f) == \/ ~reader.twoWire \/ reader.isClient \/ reader.bidirectional
           \/ f[1] \in {0, reader.slaveID}

OursOf(s) == SelectSeq(s, Ours)

\* What FuzzReaderDrop (packet_reader_test.go) tries at random: whatever came
\* before, once the line has paused with nothing left to read, every frame that
\* arrives whole is returned exactly, once and in order, however the port cuts
\* or joins the bytes; none is held back while the reader waits for more.
Delivered ==
    clean /\ Drained =>
       LET want == OursOf(tail)
           got == OursOf(returned)
       IN  /\ Len(want) <= Len(got)
           /\ want = SubSeq(got, Len(got) - Len(want) + 1, Len(got))

\* How much Read has left to do: the bytes still held, then the bytes not yet
\* looked at.
Work == <<Len(line) + Len(buf) + Len(last),
          CASE pc = "idle" -> 2 [] pc = "loop" -> 1 [] pc = "failed" -> 0,
          Len(line), Len(last)>>

Lower(v, w) == \E i \in 1..Len(v) : v[i] < w[i] /\ \A j \in 1..(i - 1) : v[j] = w[j]

\* Read never spins, whatever arrives: each of its steps, and of its caller's,
\* leaves less to do, so that it ends up waiting for the port or with its error.
Settles ==
    [][UNCHANGED <<script, open>> /\ (late' => late) => Lower(Work', Work)]_vars
================================================================================
