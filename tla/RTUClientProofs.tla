--------------------------- MODULE RTUClientProofs ----------------------------
(***************************************************************************)
(* What the steps of RTUClient preserve, whatever the port delivers, for   *)
(* any number of callers and any requests, handlers and packets.           *)
(***************************************************************************)
EXTENDS RTUClient, HandlingProofs, TLAPS

USE DEF HandlerIDs

-------------------------------------------------------------------------------
(***************************************************************************)
(* The errors of MultiIDHandler are errors.                                *)
(***************************************************************************)
\* It passes on what its handlers report, and has the same ids ever after.
LEMMA MultiErrors ==
    ASSUME NEW id, NEW req, NEW data
    PROVE  /\ MultiOnRead(id, req).err \in Errors
           /\ MultiOnWrite(id, req, data).err \in Errors
           /\ DOMAIN MultiOnWrite(id, req, data).mem = DOMAIN mem
BY KnownErrors, OnReadError, OnWriteError DEF MultiOnRead, MultiOnWrite

-------------------------------------------------------------------------------
(***************************************************************************)
(* The inductive invariant.  The frames written form a sequence, of        *)
(* whatever the handlers put in them.                                      *)
(***************************************************************************)
WrittenIsSeq == \E S : written \in Seq(S)

IInv == ControlOK /\ WrittenIsSeq /\ OneTransaction /\ DropsAccounted

\* The invariant holds at first.
LEMMA InitIInv == ClientInit => IInv
<1> SUFFICES ASSUME ClientInit PROVE IInv
  OBVIOUS
<1> USE DEF ClientInit
<1>1. NoPacket \in Packets
  BY DEF NoPacket, Tagged, MakeRTU, Packets, Byte
<1>2. act.from \in Callers
  BY WorkAssumption
<1>3. \A c \in Callers : Len(Work[c]) \in Nat /\ Len(Work[c]) >= 1
                           /\ Len(Work[c][1]) \in Nat /\ Len(Work[c][1]) >= 1
  BY WorkAssumption
<1>4. ControlOK
  <2>1. caller \in [Callers -> CallerStates]
    BY KnownErrors DEF CallerStates
  <2>2. \A c \in Callers : CallerOK(c, caller[c])
    BY <1>3, <2>1 DEF CallerOK
  <2> QED BY <1>1, <1>2, <2>1, <2>2 DEF ControlOK, ServeStates, ReaderStates
<1>5. written \in Seq({})
  OBVIOUS
<1>6. OneTransaction
  BY DEF OneTransaction, Serving
<1>7. DropsAccounted
  BY DEF DropsAccounted, Counters
<1> QED BY <1>4, <1>5, <1>6, <1>7 DEF IInv, WrittenIsSeq

\* A caller that is not done is at a request of its work.
LEMMA RequestType ==
    ASSUME ControlOK, NEW c \in Callers, caller[c].pc # "done"
    PROVE  /\ Request(c).id \in Byte
           /\ GetFunctionCode(Request(c).pdu) \in Byte
<1>1. Work[c] \in Seq(Seq(Requests))
  BY WorkAssumption
<1>2. Work[c][caller[c].b] \in Seq(Requests)
  BY <1>1 DEF ControlOK, CallerOK
<1>3. Request(c) \in Requests
  BY <1>2 DEF Request, ControlOK, CallerOK
<1>4. Request(c).id \in Byte /\ Request(c).pdu \in Seq(Byte)
  BY <1>3 DEF Requests
<1>5. ASSUME NEW p \in Seq(Byte) PROVE GetFunctionCode(p) \in Byte
  <2>1. CASE p = << >>
    BY <2>1 DEF GetFunctionCode, Byte
  <2>2. CASE p # << >>
    <3>1. 1 \in 1..Len(p)
      BY <2>2
    <3> QED BY <2>2, <3>1 DEF GetFunctionCode
  <2> QED BY <2>1, <2>2
<1> QED BY <1>4, <1>5

\* An answer moves a caller to its next request, its next batch or its end.
LEMMA AnsweredType ==
    ASSUME NEW c \in Callers, CallerOK(c, caller[c]), caller[c].pc # "done",
           NEW e \in Errors
    PROVE  CallerOK(c, Answered(c, e)) /\ Answered(c, e).pc # "wait"
<1> DEFINE w == caller[c]
<1>1. /\ w \in CallerStates
      /\ w.b \in 1..Len(Work[c])
      /\ w.i \in 1..Len(Work[c][w.b])
  BY DEF CallerOK
<1>2. /\ w.b \in Nat /\ w.i \in Nat /\ w.err \in Errors
  BY <1>1 DEF CallerStates
<1>3. Work[c] \in Seq(Seq(Requests))
  BY WorkAssumption
<1>4. ASSUME NEW b \in 1..Len(Work[c])
      PROVE  Len(Work[c][b]) \in Nat /\ Len(Work[c][b]) >= 1
  <2>1. Work[c][b] \in Seq(Requests)
    BY <1>3
  <2>2. Work[c][b] # << >>
    BY WorkAssumption
  <2> QED BY <2>1, <2>2
<1>5. Len(Work[c]) \in Nat
  BY <1>3
<1>6. CASE e # NoErr \/ w.i = Len(Work[c][w.b])
  <2>1. Answered(c, e) = [pc |-> IF w.b = Len(Work[c]) THEN "done" ELSE "start",
                          b |-> w.b + 1, i |-> 1, err |-> e]
    BY <1>6 DEF Answered
  <2>2. CASE w.b = Len(Work[c])
    BY <1>2, <2>1, <2>2 DEF CallerOK, CallerStates
  <2>3. CASE w.b # Len(Work[c])
    <3>1. w.b + 1 \in 1..Len(Work[c])
      BY <1>1, <1>2, <1>5, <2>3
    <3>2. 1 \in 1..Len(Work[c][w.b + 1])
      BY <1>4, <3>1
    <3>3. Answered(c, e) = [pc |-> "start", b |-> w.b + 1, i |-> 1, err |-> e]
      BY <2>1, <2>3
    <3> QED BY <1>2, <3>1, <3>2, <3>3 DEF CallerOK, CallerStates
  <2> QED BY <2>2, <2>3
<1>7. CASE e = NoErr /\ w.i # Len(Work[c][w.b])
  <2>1. Answered(c, e) = [pc |-> "start", b |-> w.b, i |-> w.i + 1, err |-> e]
    BY <1>7 DEF Answered
  <2>2. w.i + 1 \in 1..Len(Work[c][w.b])
    <3> DEFINE n == Len(Work[c][w.b])
    <3>1. n \in Nat /\ w.i \in 1..n /\ w.i # n
      BY <1>1, <1>4, <1>7
    <3> HIDE DEF n
    <3>2. w.i + 1 \in 1..n
      BY <3>1
    <3> QED BY <3>2 DEF n
  <2> QED BY <1>1, <1>2, <2>1, <2>2 DEF CallerOK, CallerStates
<1> QED BY <1>6, <1>7

-------------------------------------------------------------------------------
(***************************************************************************)
(* What an answer, and a packet taken from the reader, do to the state.    *)
(***************************************************************************)
LEMMA AnswerFacts ==
    ASSUME IInv, serve \in {"write", "read"}, NEW e \in Errors, Answer(e)
    PROVE  /\ caller' \in [Callers -> CallerStates]
           /\ \A c \in Callers : CallerOK(c, caller'[c])
           /\ \A c \in Callers : caller'[c].pc # "wait"
<1>1. /\ act.from \in Callers /\ caller \in [Callers -> CallerStates]
      /\ \A c \in Callers : CallerOK(c, caller[c])
  BY DEF IInv, ControlOK
<1>2. \A c \in Callers : caller[c].pc = "wait" <=> c = act.from
  BY DEF IInv, OneTransaction, Serving
<1>3. caller[act.from].pc # "done"
  BY <1>1, <1>2
<1>4. /\ CallerOK(act.from, Answered(act.from, e))
      /\ Answered(act.from, e).pc # "wait"
  BY <1>1, <1>3, AnsweredType
<1>5. Answered(act.from, e) \in CallerStates
  BY <1>4 DEF CallerOK
<1>6. /\ caller'[act.from] = Answered(act.from, e)
      /\ \A c \in Callers : c # act.from => caller'[c] = caller[c]
      /\ caller' \in [Callers -> CallerStates]
  BY <1>1, <1>5 DEF Answer
<1> QED BY <1>1, <1>2, <1>4, <1>6

\* A server's exception is an error to the caller, whatever its code.
LEMMA ExceptionIsError ==
    ASSUME IInv, ExceptionReply
    PROVE  ServerError(Packet.pdu[2]) \in Errors /\ ServerError(Packet.pdu[2]) # NoErr
<1>1. held.pdu \in Seq(Byte)
  BY DEF IInv, ControlOK, Packets
<1>2. Packet.pdu = held.pdu /\ ~(Len(held.pdu) + 3 < 5)
  BY KnownErrors DEF ExceptionReply, GoodPacket, Packet, GetPDU, smallestRTUSize
<1>3. Packet.pdu[2] \in Byte
  BY <1>1, <1>2
<1> QED BY <1>3, KnownErrors DEF ServerError, Byte, Errors, NoErr

\* A packet that ends in no counter has ended a transaction with success.
Accepts(k) == accepted' = accepted + (IF k = "none" THEN 1 ELSE 0)

\* A packet is taken: it is counted once, or accepted.
LEMMA TakeAccounts ==
    ASSUME IInv, NEW k \in Counters \union {"none"}, Take(k), Accepts(k)
    PROVE  /\ stats' \in [Counters -> Nat] /\ taken' \in Nat /\ accepted' \in Nat
           /\ DropsAccounted'
<1>1. stats \in [Counters -> Nat] /\ taken \in Nat /\ accepted \in Nat
  BY DEF IInv, ControlOK
<1>2. /\ stats["OtherDrops"] \in Nat /\ stats["IDDrops"] \in Nat
      /\ stats["CrcErrors"] \in Nat /\ stats["OtherErrors"] \in Nat
      /\ taken = accepted + stats["OtherDrops"] + stats["IDDrops"]
                     + stats["CrcErrors"] + stats["OtherErrors"]
  BY <1>1 DEF Counters, IInv, DropsAccounted
<1>3. CASE k = "none"
  <2>1. stats' = stats /\ accepted' = accepted + 1 /\ taken' = taken + 1
    BY <1>3 DEF Take, Accepts
  <2> QED BY <1>1, <1>2, <2>1 DEF DropsAccounted
<1>4. CASE k # "none"
  <2>1. k \in Counters
    BY <1>4
  <2>2. /\ stats' = [stats EXCEPT ![k] = @ + 1]
        /\ accepted' = accepted + 0 /\ taken' = taken + 1
    BY <1>4 DEF Take, Accepts
  <2>3. stats' \in [Counters -> Nat]
    BY <1>1, <2>1, <2>2
  <2>4. \A j \in Counters : stats'[j] = IF j = k THEN stats[j] + 1 ELSE stats[j]
    BY <1>1, <2>1, <2>2
  <2>5. stats'["OtherDrops"] + stats'["IDDrops"] + stats'["CrcErrors"]
          + stats'["OtherErrors"]
        = stats["OtherDrops"] + stats["IDDrops"] + stats["CrcErrors"]
          + stats["OtherErrors"] + 1
    <3>1. CASE k = "OtherDrops"
      BY <1>2, <2>4, <3>1 DEF Counters
    <3>2. CASE k = "IDDrops"
      BY <1>2, <2>4, <3>2 DEF Counters
    <3>3. CASE k = "CrcErrors"
      BY <1>2, <2>4, <3>3 DEF Counters
    <3>4. CASE k = "OtherErrors"
      BY <1>2, <2>4, <3>4 DEF Counters
    <3> QED BY <2>1, <3>1, <3>2, <3>3, <3>4 DEF Counters
  <2>6. \A j \in Counters : stats'[j] \in Nat
    BY <2>3
  <2>7. /\ stats'["OtherDrops"] \in Nat /\ stats'["IDDrops"] \in Nat
        /\ stats'["CrcErrors"] \in Nat /\ stats'["OtherErrors"] \in Nat
    BY <2>6 DEF Counters
  <2>8. DropsAccounted'
    BY <1>1, <1>2, <2>2, <2>5, <2>7 DEF DropsAccounted
  <2> QED BY <1>1, <2>2, <2>3, <2>8
<1> QED BY <1>3, <1>4

\* What the reader holds while it holds nothing.
LEMMA NoPacketType == NoPacket \in Packets
BY DEF NoPacket, Tagged, MakeRTU, Packets, Byte

\* A packet that ends the transaction, with any error or none.
LEMMA EndPreserves ==
    ASSUME IInv, NEW k \in Counters \union {"none"}, NEW e \in Errors,
           Take(k), Accepts(k), EndTransaction(e),
           UNCHANGED open, DOMAIN mem' = DOMAIN mem
    PROVE  IInv'
<1>1. /\ stats' \in [Counters -> Nat] /\ taken' \in Nat /\ accepted' \in Nat
      /\ DropsAccounted'
  BY TakeAccounts
<1>2. serve = "read" /\ serve' = "outer" /\ Answer(e)
  BY DEF Take, EndTransaction
<1>3. /\ caller' \in [Callers -> CallerStates]
      /\ \A c \in Callers : CallerOK(c, caller'[c])
      /\ \A c \in Callers : caller'[c].pc # "wait"
  BY <1>2, AnswerFacts
<1>4. ControlOK'
  BY <1>1, <1>2, <1>3, NoPacketType
     DEF IInv, ControlOK, Take, ServeStates, ReaderStates
<1>5. OneTransaction'
  BY <1>2, <1>3 DEF OneTransaction
<1>6. WrittenIsSeq'
  BY DEF IInv, WrittenIsSeq, Take
<1> QED BY <1>1, <1>4, <1>5, <1>6 DEF IInv

-------------------------------------------------------------------------------
(***************************************************************************)
(* One lemma per action.                                                   *)
(***************************************************************************)
\* A step that changes nothing the transaction depends on.
LEMMA TransactionUntouched ==
    ASSUME IInv, UNCHANGED <<caller, serve, act, written>>
    PROVE  OneTransaction' /\ WrittenIsSeq'
BY DEF IInv, OneTransaction, WrittenIsSeq, Serving, Request, IsMulticast

\* The branches of READ_LOOP that end a transaction.
LEMMA ReplySteps ==
    ASSUME IInv, BadPacket \/ ExceptionReply \/ UnexpectedReply \/ ReadReply \/ WriteReply
    PROVE  IInv'
<1>1. Packet.err \in Errors
  BY KnownErrors DEF Packet, GetPDU
<1>2. CASE BadPacket
  <2> DEFINE k == IF Packet.err = ErrorCrc THEN "CrcErrors" ELSE "OtherErrors"
  <2>1. k \in Counters \union {"none"} /\ k # "none"
    BY DEF Counters
  <2>2. accepted \in Nat
    BY DEF IInv, ControlOK
  <2>3. Take(k) /\ Accepts(k) /\ EndTransaction(Packet.err) /\ UNCHANGED <<open, mem>>
    BY <1>2, <2>1, <2>2 DEF BadPacket, Accepts
  <2> HIDE DEF k
  <2> QED BY <1>1, <2>1, <2>3, EndPreserves
<1>3. CASE ExceptionReply
  <2>1. "OtherErrors" \in Counters \union {"none"}
    BY DEF Counters
  <2>2. accepted \in Nat
    BY DEF IInv, ControlOK
  <2>3. Take("OtherErrors") /\ Accepts("OtherErrors") /\ UNCHANGED mem
    BY <1>3, <2>2 DEF ExceptionReply, Accepts
  <2>4. CASE ~OnErrorPanics
    <3>1. EndTransaction(ServerError(Packet.pdu[2])) /\ UNCHANGED open
      BY <1>3, <2>4 DEF ExceptionReply
    <3>2. ServerError(Packet.pdu[2]) \in Errors
      BY <1>3, ExceptionIsError
    <3> QED BY <2>1, <2>3, <3>1, <3>2, EndPreserves
  <2>5. CASE OnErrorPanics
    <3>1. serve' = "panic" /\ open' = FALSE /\ UNCHANGED caller
      BY <1>3, <2>5 DEF ExceptionReply
    <3>2. /\ stats' \in [Counters -> Nat] /\ taken' \in Nat /\ accepted' \in Nat
          /\ DropsAccounted'
      BY <2>1, <2>3, TakeAccounts
    <3>3. ControlOK'
      BY <2>3, <3>1, <3>2, NoPacketType
         DEF IInv, ControlOK, Take, ServeStates, ReaderStates
    <3>4. OneTransaction'
      BY <3>1 DEF OneTransaction, Serving
    <3>5. WrittenIsSeq'
      BY <2>3 DEF IInv, WrittenIsSeq, Take
    <3> QED BY <3>2, <3>3, <3>4, <3>5 DEF IInv
  <2> QED BY <2>4, <2>5
<1>4. CASE UnexpectedReply
  <2>1. "OtherErrors" \in Counters \union {"none"} /\ accepted \in Nat
    BY DEF Counters, IInv, ControlOK
  <2>2. /\ Take("OtherErrors") /\ Accepts("OtherErrors")
        /\ EndTransaction(ErrOther) /\ UNCHANGED <<open, mem>>
    BY <1>4, <2>1 DEF UnexpectedReply, Accepts
  <2> QED BY <2>1, <2>2, KnownErrors, EndPreserves
<1>5. CASE ReadReply
  <2> DEFINE bs == GetReplyValues(Packet.pdu)
             w == IF bs.err = NoErr THEN MultiOnWrite(act.id, act.pdu, bs.data)
                  ELSE [mem |-> mem, err |-> bs.err]
             k == IF w.err = NoErr THEN "none" ELSE "OtherErrors"
  <2>1. bs.err \in Errors
    BY KnownErrors DEF GetReplyValues
  <2>2. w.err \in Errors /\ DOMAIN w.mem = DOMAIN mem
    BY <2>1, MultiErrors
  <2>3. k \in Counters \union {"none"} /\ (k = "none" <=> w.err = NoErr)
    BY DEF Counters
  <2>4. /\ Take(k) /\ mem' = w.mem
        /\ accepted' = accepted + (IF w.err = NoErr THEN 1 ELSE 0)
        /\ EndTransaction(w.err) /\ UNCHANGED open
    BY <1>5 DEF ReadReply
  <2>5. Accepts(k)
    BY <2>3, <2>4 DEF Accepts
  <2>6. DOMAIN mem' = DOMAIN mem
    BY <2>2, <2>4
  <2> HIDE DEF k, w
  <2> QED BY <2>2, <2>3, <2>4, <2>5, <2>6, EndPreserves
<1>6. CASE WriteReply
  <2>1. /\ Take("none") /\ Accepts("none") /\ EndTransaction(NoErr)
        /\ UNCHANGED <<open, mem>>
    BY <1>6 DEF WriteReply, Accepts
  <2> QED BY <2>1, KnownErrors, EndPreserves
<1> QED BY <1>2, <1>3, <1>4, <1>5, <1>6

\* The branches that drop a packet.
LEMMA DropSteps ==
    ASSUME IInv, DropUnexpected \/ DropOtherID
    PROVE  IInv'
<1>1. CASE DropOtherID
  <2>1. /\ Take("IDDrops") /\ UNCHANGED <<caller, serve, open, mem, accepted>>
        /\ UNCHANGED <<act, in, written>>
    BY <1>1 DEF DropOtherID, Take
  <2>2. "IDDrops" \in Counters \union {"none"} /\ accepted \in Nat
    BY DEF Counters, IInv, ControlOK
  <2>3. Accepts("IDDrops")
    BY <2>1, <2>2 DEF Accepts
  <2>4. /\ stats' \in [Counters -> Nat] /\ taken' \in Nat /\ accepted' \in Nat
        /\ DropsAccounted'
    BY <2>1, <2>2, <2>3, TakeAccounts
  <2>5. ControlOK'
    BY <2>1, <2>4, NoPacketType DEF IInv, ControlOK, Take, ReaderStates
  <2>6. OneTransaction' /\ WrittenIsSeq'
    BY <2>1, TransactionUntouched
  <2> QED BY <2>4, <2>5, <2>6 DEF IInv
<1>2. CASE DropUnexpected
  <2>1. /\ stats \in [Counters -> Nat] /\ taken \in Nat /\ accepted \in Nat
        /\ "OtherDrops" \in Counters
    BY DEF IInv, ControlOK, Counters
  <2>2. /\ stats' = [stats EXCEPT !["OtherDrops"] = @ + 1]
        /\ taken' = taken + 1 /\ accepted' = accepted
        /\ reader' = "read" /\ held' = NoPacket
        /\ UNCHANGED <<caller, serve, act, open, in, mem, written>>
    BY <1>2 DEF DropUnexpected
  <2>3. stats' \in [Counters -> Nat]
    BY <2>1, <2>2
  <2>4. /\ stats["OtherDrops"] \in Nat /\ stats["IDDrops"] \in Nat
        /\ stats["CrcErrors"] \in Nat /\ stats["OtherErrors"] \in Nat
        /\ stats'["OtherDrops"] = stats["OtherDrops"] + 1
        /\ stats'["IDDrops"] = stats["IDDrops"]
        /\ stats'["CrcErrors"] = stats["CrcErrors"]
        /\ stats'["OtherErrors"] = stats["OtherErrors"]
    BY <2>1, <2>2 DEF Counters
  <2>5. DropsAccounted'
    BY <2>1, <2>2, <2>4 DEF IInv, DropsAccounted
  <2>6. ControlOK'
    <3>1. taken' \in Nat /\ accepted' \in Nat
      BY <2>1, <2>2
    <3> QED BY <2>2, <2>3, <3>1, NoPacketType DEF IInv, ControlOK, ReaderStates
  <2>7. OneTransaction' /\ WrittenIsSeq'
    BY <2>2, TransactionUntouched
  <2> QED BY <2>5, <2>6, <2>7 DEF IInv
<1> QED BY <1>1, <1>2

\* A request is taken from a caller.
LEMMA StartStep ==
    ASSUME IInv, NEW c \in Callers, Start(c)
    PROVE  IInv'
<1> DEFINE r == Request(c)
           fc == GetFunctionCode(r.pdu)
           read == MultiOnRead(r.id, r.pdu)
<1>1. /\ serve = "outer" /\ caller[c].pc = "start"
      /\ UNCHANGED <<reader, held, open, in, mem, stats, written, taken, accepted>>
  BY DEF Start
<1>2. /\ caller \in [Callers -> CallerStates] /\ CallerOK(c, caller[c])
      /\ \A d \in Callers : CallerOK(d, caller[d]) /\ caller[d].pc # "wait"
  BY <1>1 DEF IInv, ControlOK, OneTransaction, Serving
<1>3. DropsAccounted' /\ WrittenIsSeq'
  BY <1>1 DEF IInv, DropsAccounted, WrittenIsSeq
<1>4. ASSUME NEW p, serve' = "write",
             act' = [from |-> c, id |-> r.id, pdu |-> p, fc |-> fc],
             caller' = [caller EXCEPT ![c].pc = "wait"]
      PROVE  IInv'
  <2>1. /\ caller' \in [Callers -> CallerStates]
        /\ \A d \in Callers : d # c => caller'[d] = caller[d]
        /\ caller'[c].pc = "wait"
        /\ caller'[c].b = caller[c].b /\ caller'[c].i = caller[c].i
    BY <1>2, <1>4 DEF CallerStates
  <2>2. \A d \in Callers : CallerOK(d, caller'[d])
    <3>1. CallerOK(c, caller'[c])
      BY <1>1, <1>2, <2>1 DEF CallerOK
    <3> QED BY <1>2, <2>1, <3>1
  <2>3. ControlOK'
    BY <1>1, <1>4, <2>1, <2>2 DEF IInv, ControlOK, ServeStates
  <2>4. Request(c)' = r
    BY <2>1 DEF Request
  <2>5. OneTransaction'
    BY <1>2, <1>4, <2>1, <2>4 DEF OneTransaction
  <2> QED BY <1>3, <2>3, <2>5 DEF IInv
<1>5. ASSUME caller' = [caller EXCEPT ![c] = Answered(c, read.err)],
             UNCHANGED <<serve, act>>
      PROVE  IInv'
  <2>1. read.err \in Errors
    BY MultiErrors
  <2>2. CallerOK(c, Answered(c, read.err)) /\ Answered(c, read.err).pc # "wait"
    BY <1>1, <1>2, <2>1, AnsweredType
  <2>3. Answered(c, read.err) \in CallerStates
    BY <2>2 DEF CallerOK
  <2>4. /\ caller' \in [Callers -> CallerStates]
        /\ \A d \in Callers : CallerOK(d, caller'[d]) /\ caller'[d].pc # "wait"
    BY <1>2, <1>5, <2>2, <2>3
  <2>5. ControlOK'
    BY <1>1, <1>5, <2>4 DEF IInv, ControlOK
  <2>6. OneTransaction'
    BY <1>1, <1>5, <2>4 DEF OneTransaction
  <2> QED BY <1>3, <2>5, <2>6 DEF IInv
<1> QED BY <1>4, <1>5 DEF Start

\* The request is written.
LEMMA WriteStep ==
    ASSUME IInv, WriteOk
    PROVE  IInv'
<1>1. /\ serve = "write" /\ written' = Append(written, MakeRTU(act.id, act.pdu))
      /\ UNCHANGED <<act, reader, held, open, in, mem, stats, taken, accepted>>
  BY DEF WriteOk
<1>2. DropsAccounted'
  BY <1>1 DEF IInv, DropsAccounted
<1>3. PICK S : written \in Seq(S)
  BY DEF IInv, WrittenIsSeq
<1>4. WrittenIsSeq' /\ written' # << >>
      /\ written'[Len(written')] = MakeRTU(act.id, act.pdu)
  <2> DEFINE f == MakeRTU(act.id, act.pdu)
             T == S \union {f}
  <2>1. written \in Seq(T) /\ f \in T
    BY <1>3
  <2> HIDE DEF T, f
  <2>2. /\ Append(written, f) \in Seq(T) /\ Append(written, f) # << >>
        /\ Append(written, f)[Len(Append(written, f))] = f
    BY <2>1
  <2> QED BY <1>1, <2>2 DEF WrittenIsSeq, f
<1>5. CASE IsMulticast
  <2>1. Answer(NoErr) /\ serve' = "outer"
    BY <1>5 DEF WriteOk
  <2>2. /\ caller' \in [Callers -> CallerStates]
        /\ \A c \in Callers : CallerOK(c, caller'[c])
        /\ \A c \in Callers : caller'[c].pc # "wait"
    BY <1>1, <2>1, KnownErrors, AnswerFacts
  <2>3. ControlOK'
    BY <1>1, <2>1, <2>2 DEF IInv, ControlOK, ServeStates
  <2>4. OneTransaction'
    BY <2>1, <2>2 DEF OneTransaction
  <2> QED BY <1>2, <1>4, <2>3, <2>4 DEF IInv
<1>6. CASE ~IsMulticast
  <2>1. serve' = "read" /\ UNCHANGED caller
    BY <1>6 DEF WriteOk
  <2>2. ControlOK'
    BY <1>1, <2>1 DEF IInv, ControlOK, ServeStates
  <2>3. OneTransaction'
    BY <1>1, <1>4, <1>6, <2>1
       DEF IInv, OneTransaction, Serving, Request, IsMulticast
  <2> QED BY <1>2, <1>4, <2>2, <2>3 DEF IInv
<1> QED BY <1>5, <1>6

\* The timer fires.
LEMMA TimeoutStep ==
    ASSUME IInv, Timeout
    PROVE  IInv'
<1>1. /\ serve = "read" /\ serve' = "outer" /\ Answer(ErrServerTimeOut)
      /\ UNCHANGED <<act, reader, held, open, in, mem, stats, written, taken, accepted>>
  BY DEF Timeout, EndTransaction
<1>2. /\ caller' \in [Callers -> CallerStates]
      /\ \A c \in Callers : CallerOK(c, caller'[c])
      /\ \A c \in Callers : caller'[c].pc # "wait"
  BY <1>1, KnownErrors, AnswerFacts
<1>3. ControlOK'
  BY <1>1, <1>2 DEF IInv, ControlOK, ServeStates
<1>4. OneTransaction'
  BY <1>1, <1>2 DEF OneTransaction
<1>5. DropsAccounted' /\ WrittenIsSeq'
  BY <1>1 DEF IInv, DropsAccounted, WrittenIsSeq
<1> QED BY <1>3, <1>4, <1>5 DEF IInv

\* The steps with which ServeRTU returns.
LEMMA ReturnSteps ==
    ASSUME IInv, NEW c \in Callers, WriteFail \/ Overlap(c) \/ TakeReadError
    PROVE  IInv'
<1>1. /\ serve' = "returned" /\ open' = FALSE /\ reader' \in {reader, "done"}
      /\ UNCHANGED <<act, held, in, mem, stats, written, taken, accepted>>
  BY DEF WriteFail, Overlap, TakeReadError, Return
<1>2. /\ caller' \in [Callers -> CallerStates]
      /\ \A d \in Callers : CallerOK(d, caller'[d])
  <2>1. CASE WriteFail
    <3>1. serve = "write" /\ Answer(ErrOther)
      BY <2>1 DEF WriteFail
    <3> QED BY <3>1, KnownErrors, AnswerFacts
  <2>2. CASE Overlap(c)
    <3> DEFINE ans == [caller EXCEPT ![act.from] = Answered(act.from, ErrOther)]
    <3>1. /\ serve = "read" /\ caller[c].pc = "start"
          /\ caller' = [ans EXCEPT ![c].pc = "wait"]
      BY <2>2 DEF Overlap
    <3>2. /\ act.from \in Callers /\ caller \in [Callers -> CallerStates]
          /\ \A d \in Callers : CallerOK(d, caller[d])
          /\ caller[act.from].pc = "wait"
      BY <3>1 DEF IInv, ControlOK, OneTransaction, Serving
    <3>3. CallerOK(act.from, Answered(act.from, ErrOther))
      BY <3>2, KnownErrors, AnsweredType
    <3>4. Answered(act.from, ErrOther) \in CallerStates
      BY <3>3 DEF CallerOK
    <3>5. c # act.from
      BY <3>1, <3>2
    <3>6. /\ ans \in [Callers -> CallerStates] /\ ans[c] = caller[c]
          /\ \A d \in Callers : CallerOK(d, ans[d])
      BY <3>2, <3>3, <3>4, <3>5
    <3> HIDE DEF ans
    <3>7. /\ caller' \in [Callers -> CallerStates]
          /\ \A d \in Callers : d # c => caller'[d] = ans[d]
          /\ caller'[c].b = ans[c].b /\ caller'[c].i = ans[c].i
      BY <3>1, <3>6 DEF CallerStates
    <3>8. CallerOK(c, caller'[c])
      BY <3>1, <3>6, <3>7 DEF CallerOK
    <3> QED BY <3>6, <3>7, <3>8
  <2>3. CASE TakeReadError
    BY <2>3 DEF TakeReadError, IInv, ControlOK
  <2> QED BY <2>1, <2>2, <2>3
<1>3. ControlOK'
  BY <1>1, <1>2 DEF IInv, ControlOK, ServeStates, ReaderStates
<1>4. OneTransaction'
  BY <1>1 DEF OneTransaction, Serving
<1>5. DropsAccounted' /\ WrittenIsSeq'
  BY <1>1 DEF IInv, DropsAccounted, WrittenIsSeq
<1> QED BY <1>3, <1>4, <1>5 DEF IInv

\* The reader goroutine and Close leave the transaction alone.
LEMMA OtherSteps ==
    ASSUME IInv, ReaderRead \/ ReaderFail \/ ClosePort
    PROVE  IInv'
<1>1. UNCHANGED <<caller, serve, act, mem, stats, written, taken, accepted>>
  BY DEF ReaderRead, ReaderFail, ClosePort
<1>2. DropsAccounted'
  BY <1>1 DEF IInv, DropsAccounted
<1>3. OneTransaction' /\ WrittenIsSeq'
  BY <1>1, TransactionUntouched
<1>4. in \in Seq(Packets) /\ held \in Packets
  BY DEF IInv, ControlOK
<1>5. ControlOK'
  <2>1. CASE ReaderRead
    <3>1. held' \in Packets /\ in' \in Seq(Packets)
      BY <1>4, <2>1 DEF ReaderRead
    <3> QED BY <1>1, <2>1, <3>1 DEF IInv, ControlOK, ReaderRead, ReaderStates
  <2>2. CASE ReaderFail
    BY <1>1, <2>2 DEF IInv, ControlOK, ReaderFail, ReaderStates
  <2>3. CASE ClosePort
    BY <1>1, <2>3 DEF IInv, ControlOK, ClosePort
  <2> QED BY <2>1, <2>2, <2>3
<1> QED BY <1>2, <1>3, <1>5 DEF IInv

\* So does the wire, which brings the reader one packet more.
LEMMA DeliversIInv ==
    ASSUME IInv, NEW f \in Packets, Delivers(f)
    PROVE  IInv'
<1>1. DropsAccounted'
  BY DEF IInv, DropsAccounted, Delivers
<1>2. OneTransaction' /\ WrittenIsSeq'
  BY TransactionUntouched DEF Delivers
<1>3. ControlOK'
  BY DEF IInv, ControlOK, Delivers
<1> QED BY <1>1, <1>2, <1>3 DEF IInv

\* Every step keeps the invariant.
LEMMA ClientIInv == IInv /\ [ClientNext]_clientVars => IInv'
<1> SUFFICES ASSUME IInv, [ClientNext]_clientVars PROVE IInv'
  OBVIOUS
<1>1. ASSUME NEW c \in Callers, Start(c) \/ Overlap(c) PROVE IInv'
  BY <1>1, StartStep, ReturnSteps
<1>2. CASE WriteOk
  BY <1>2, WriteStep
<1>3. CASE WriteFail \/ TakeReadError
  BY <1>3, WorkAssumption, ReturnSteps
<1>4. CASE Timeout
  BY <1>4, TimeoutStep
<1>5. CASE TakePacket
  BY <1>5, DropSteps, ReplySteps DEF TakePacket
<1>6. CASE ReaderStep \/ ClosePort
  BY <1>6, OtherSteps DEF ReaderStep
<1>7. CASE UNCHANGED clientVars
  BY <1>7 DEF clientVars, IInv, ControlOK, WrittenIsSeq, OneTransaction,
     DropsAccounted, Serving, Request, IsMulticast
<1> QED BY <1>1, <1>2, <1>3, <1>4, <1>5, <1>6, <1>7 DEF ClientNext, ServeStep

-------------------------------------------------------------------------------
(***************************************************************************)
(* The bytes.                                                              *)
(***************************************************************************)
\* A caller that is not done is at a request of its work.
LEMMA RequestIsHeader ==
    ASSUME ControlOK, NEW c \in Callers, caller[c].pc # "done"
    PROVE  /\ Request(c).id \in Byte /\ Request(c).pdu \in Seq(Byte)
           /\ IsHeader(Request(c).pdu)
<1>1. Work[c] \in Seq(Seq(Requests))
  BY WorkAssumption
<1>2. caller[c].b \in 1..Len(Work[c]) /\ caller[c].i \in 1..Len(Work[c][caller[c].b])
  BY DEF ControlOK, CallerOK
<1>3. Work[c][caller[c].b] \in Seq(Requests)
  BY <1>1, <1>2
<1>4. Request(c) \in Requests
  BY <1>2, <1>3 DEF Request
<1>5. IsHeader(Request(c).pdu)
  BY <1>2, HandlerAssumption DEF Request
<1> QED BY <1>4, <1>5 DEF Requests

\* The frame of a write is made of the header and of what the handler read.
LEMMA WriteBytes ==
    ASSUME NEW m, IsMemory(m), NEW p \in Seq(Byte), IsHeader(p),
           OnRead(m, p).err = NoErr, IsWriteToServer(GetFunctionCode(p))
    PROVE  MakeWriteRequest(p, OnRead(m, p).data) \in Seq(Byte)
<1> DEFINE f == GetFunctionCode(p)
           data == OnRead(m, p).data
<1>1. TableFor(p) \in DOMAIN m /\ TableFor(p) \in Tables
  <2>1. Supports(m, f)
    BY DEF OnRead, NoErr, ErrFcNotSupported
  <2> QED BY <2>1 DEF Supports, TableFor, IsMemory
<1>2. f \in {5, 6, 15, 16}
  <2>1. f \in {1, 2, 3, 4, 5, 6, 15, 16}
    BY <1>1, TableTypes DEF TableFor
  <2> QED BY <2>1 DEF IsWriteToServer
<1>3. /\ f \in {5, 6} => IsSingle(f) /\ Len(p) >= 3
      /\ f \in {15, 16} => ~IsSingle(f) /\ Len(p) >= 6
  BY DEF IsHeader, IsSingle, FcWriteMultipleCoils, FcWriteMultipleRegisters
<1>4. Len(p) \in Nat /\ Len(p) >= 3
  BY <1>2, <1>3
<1>5. data \in Seq(Byte)
  <2>1. /\ ValuesAsked(m, p) \in Seq(ValueType(TableFor(p)))
        /\ OnRead(m, p) = Encode(p, ValuesAsked(m, p))
    BY <1>4, OnReadResult
  <2> HIDE DEF f
  <2> QED BY <1>1, <2>1, EncodeType
<1> HIDE DEF data
<1>6. CASE f \in {5, 6}
  <2>1. MakeWriteRequest(p, data) = SubSeq(p, 1, 3) \o data
    BY <1>3, <1>6 DEF MakeWriteRequest, FcWriteMultipleCoils, FcWriteMultipleRegisters
  <2>2. Joined(SubSeq(p, 1, 3) \o data, p, 3, data)
    BY <1>3, <1>5, <1>6, RequestBytes
  <2> QED BY <2>1, <2>2 DEF Joined, data
<1>7. CASE f \in {15, 16}
  <2>1. MakeWriteRequest(p, data) = SubSeq(p, 1, 6) \o data
    BY <1>3, <1>7 DEF MakeWriteRequest, FcWriteMultipleCoils, FcWriteMultipleRegisters
  <2>2. Joined(SubSeq(p, 1, 6) \o data, p, 6, data)
    BY <1>3, <1>5, <1>7, RequestBytes
  <2> QED BY <2>1, <2>2 DEF Joined, data
<1> QED BY <1>2, <1>6, <1>7

\* A handler that is given the values of a reply keeps the types of its tables.
LEMMA ReplyKeepsMemory ==
    ASSUME NEW m, IsMemory(m), NEW p \in Seq(Byte), NEW a \in Seq(Byte),
           IsRequestReply(p, a), GetReplyValues(a).err = NoErr
    PROVE  IsMemory(OnWrite(m, p, GetReplyValues(a).data).mem)
<1> DEFINE d == GetReplyValues(a).data
<1>1. d \in Seq(Byte) /\ d # << >> /\ Len(d) < 65536
  <2>1. d \in Seq(Byte) /\ d # << >> /\ Len(d) = a[2] /\ a[2] < 256
    BY ReplyData
  <2> HIDE DEF d
  <2> QED BY <2>1
<1>2. Len(p) >= 3
  BY MatchedLen
<1> HIDE DEF d
<1>3. Intact(m, OnWrite(m, p, d))
  BY <1>1, <1>2, OnWriteResult
<1> QED BY <1>3 DEF Intact, d

-------------------------------------------------------------------------------
\* The types hold at first.
LEMMA InitTypes == ClientInit => ClientTypeOK
<1> SUFFICES ASSUME ClientInit PROVE ClientTypeOK
  OBVIOUS
<1>1. ControlOK
  BY InitIInv DEF IInv
<1>2. act \in Transacts
  BY WorkAssumption DEF ClientInit, Transacts, Byte
<1>3. written \in Seq(RTU) /\ mem = LocalMemory
  BY DEF ClientInit
<1> QED BY <1>1, <1>2, <1>3, HandlerAssumption DEF ClientTypeOK

\* Of the steps only these three change what ClientTypeOK adds to ControlOK.
LEMMA StartTypes ==
    ASSUME ControlOK, ClientTypeOK, NEW c \in Callers, Start(c)
    PROVE  act' \in Transacts /\ UNCHANGED <<written, mem>>
<1> DEFINE r == Request(c)
           fc == GetFunctionCode(r.pdu)
           read == MultiOnRead(r.id, r.pdu)
           p == MakeWriteRequest(r.pdu, read.data)
<1>1. /\ caller[c].pc = "start"
      /\ UNCHANGED <<written, mem>>
      /\ \/ act' = [from |-> c, id |-> r.id, pdu |-> r.pdu, fc |-> fc]
         \/ /\ IsWriteToServer(fc) /\ read.err = NoErr
            /\ act' = [from |-> c, id |-> r.id, pdu |-> p, fc |-> fc]
         \/ act' = act
  BY DEF Start
<1>2. r.id \in Byte /\ r.pdu \in Seq(Byte) /\ fc \in Byte /\ IsHeader(r.pdu)
  BY <1>1, RequestIsHeader, RequestType
<1>3. CASE act' = [from |-> c, id |-> r.id, pdu |-> r.pdu, fc |-> fc]
  BY <1>1, <1>2, <1>3 DEF Transacts
<1>4. CASE /\ IsWriteToServer(fc) /\ read.err = NoErr
           /\ act' = [from |-> c, id |-> r.id, pdu |-> p, fc |-> fc]
  <2>1. r.id \in HandlerIDs /\ read = OnRead(mem[r.id], r.pdu)
    BY <1>4, KnownErrors DEF MultiOnRead
  <2>2. IsMemory(mem[r.id])
    BY <2>1 DEF ClientTypeOK
  <2>3. p \in Seq(Byte)
    <3> HIDE DEF r
    <3> QED BY <1>2, <1>4, <2>1, <2>2, WriteBytes
  <2> QED BY <1>1, <1>2, <1>4, <2>3 DEF Transacts
<1>5. CASE act' = act
  BY <1>1, <1>5 DEF ClientTypeOK
<1> QED BY <1>1, <1>3, <1>4, <1>5

LEMMA WriteTypes ==
    ASSUME ClientTypeOK, WriteOk
    PROVE  written' \in Seq(RTU) /\ UNCHANGED <<act, mem>>
<1>1. MakeRTU(act.id, act.pdu) \in RTU
  BY DEF ClientTypeOK, Transacts, MakeRTU, RTU
<1> QED BY <1>1 DEF WriteOk, ClientTypeOK

LEMMA ReadReplyTypes ==
    ASSUME ControlOK, ClientTypeOK, ReadReply
    PROVE  UNCHANGED <<act, written>> /\ \A id \in HandlerIDs : IsMemory(mem'[id])
<1> DEFINE a == Packet.pdu
           bs == GetReplyValues(a)
           w == MultiOnWrite(act.id, act.pdu, bs.data)
           o == OnWrite(mem[act.id], act.pdu, bs.data)
<1>1. /\ UNCHANGED <<act, written>> /\ GoodPacket /\ Matches
      /\ \/ bs.err = NoErr /\ mem' = w.mem
         \/ mem' = mem
  BY DEF ReadReply, Take
<1>2. a \in Seq(Byte)
  BY <1>1 DEF GoodPacket, Packet, GetPDU, ControlOK, Packets, ErrOther, ErrorCrc, NoErr
<1>3. act.pdu \in Seq(Byte) /\ IsRequestReply(act.pdu, a)
  BY <1>1 DEF ClientTypeOK, Transacts, Matches
<1>4. CASE mem' = mem
  BY <1>1, <1>4 DEF ClientTypeOK
<1>5. CASE bs.err = NoErr /\ mem' = w.mem /\ act.id \in HandlerIDs
  <2>1. IsMemory(mem[act.id])
    BY <1>5 DEF ClientTypeOK
  <2> HIDE DEF a
  <2>2. IsMemory(o.mem)
    BY <1>2, <1>3, <1>5, <2>1, ReplyKeepsMemory
  <2>3. mem' = [mem EXCEPT ![act.id] = o.mem]
    BY <1>5 DEF MultiOnWrite
  <2> HIDE DEF o
  <2> QED BY <1>1, <2>2, <2>3 DEF ClientTypeOK, ControlOK
<1>6. CASE bs.err = NoErr /\ mem' = w.mem /\ act.id \notin HandlerIDs
  BY <1>1, <1>6 DEF ClientTypeOK, MultiOnWrite
<1> QED BY <1>1, <1>4, <1>5, <1>6

\* Every step keeps the types.
LEMMA ClientTypes ==
    IInv /\ IInv' /\ ClientTypeOK /\ [ClientNext]_clientVars => ClientTypeOK'
<1> SUFFICES ASSUME IInv, IInv', ClientTypeOK, [ClientNext]_clientVars PROVE ClientTypeOK'
  OBVIOUS
<1>1. ControlOK /\ ControlOK'
  BY DEF IInv
<1>2. CASE UNCHANGED <<act, written, mem>>
  BY <1>1, <1>2 DEF ClientTypeOK
<1>3. ASSUME NEW c \in Callers, Start(c) PROVE ClientTypeOK'
  <2>1. act' \in Transacts /\ UNCHANGED <<written, mem>>
    BY <1>1, <1>3, StartTypes
  <2> QED BY <1>1, <2>1 DEF ClientTypeOK
<1>4. CASE WriteOk
  <2>1. written' \in Seq(RTU) /\ UNCHANGED <<act, mem>>
    BY <1>4, WriteTypes
  <2> QED BY <1>1, <2>1 DEF ClientTypeOK
<1>5. CASE ReadReply
  <2>1. UNCHANGED <<act, written>> /\ \A id \in HandlerIDs : IsMemory(mem'[id])
    BY <1>1, <1>5, ReadReplyTypes
  <2> QED BY <1>1, <2>1 DEF ClientTypeOK
<1>6. ASSUME NEW c \in Callers, Overlap(c) PROVE UNCHANGED <<act, written, mem>>
  BY <1>6 DEF Overlap
<1>7. CASE \/ WriteFail \/ Timeout \/ TakeReadError \/ DropUnexpected \/ DropOtherID
           \/ BadPacket \/ ExceptionReply \/ UnexpectedReply \/ WriteReply
  BY <1>2, <1>7 DEF WriteFail, Timeout, TakeReadError, DropUnexpected, DropOtherID,
     BadPacket, ExceptionReply, UnexpectedReply, WriteReply, Take
<1>8. CASE ReaderRead \/ ReaderFail \/ ClosePort
  BY <1>2, <1>8 DEF ReaderRead, ReaderFail, ClosePort
<1>9. CASE UNCHANGED clientVars
  BY <1>2, <1>9 DEF clientVars
<1> QED BY <1>2, <1>3, <1>4, <1>5, <1>6, <1>7, <1>8, <1>9
        DEF ClientNext, ServeStep, ReaderStep, TakePacket

LEMMA DeliversTypes ==
    ASSUME IInv, ClientTypeOK, NEW f \in Packets, Delivers(f)
    PROVE  ClientTypeOK'
<1>1. ControlOK'
  BY DeliversIInv DEF IInv
<1> QED BY <1>1 DEF ClientTypeOK, Delivers

-------------------------------------------------------------------------------
(***************************************************************************)
(* The client on a port that delivers any packet at any time.              *)
(***************************************************************************)
\* Every step keeps the invariant and the types.
LEMMA PortIInv == IInv /\ [AnyPortNext]_clientVars => IInv'
BY ClientIInv, DeliversIInv DEF AnyPortNext

LEMMA PortTypes == IInv /\ ClientTypeOK /\ [AnyPortNext]_clientVars => ClientTypeOK'
BY PortIInv, ClientTypes, DeliversTypes DEF AnyPortNext

\* For any callers, requests, handlers and arriving packets: ServeRTU answers
\* the caller of every transaction before it takes another request, the reply
\* it awaits is to the frame last written for the caller that waits, and every
\* packet it takes ends a transaction with success or is counted once
\* (rtu_client.go:149-252).
THEOREM ClientSafety ==
    AnyPortSpec => [](ControlOK /\ OneTransaction /\ DropsAccounted)
<1>1. IInv => ControlOK /\ OneTransaction /\ DropsAccounted
  BY DEF IInv
<1> QED BY <1>1, InitIInv, PortIInv, PTL DEF AnyPortSpec

\* TotalDrops is right (serial.go:104): each packet that ServeRTU takes is accounted
\* for once, whichever of the branches of its two loops takes it.
THEOREM PacketsAccounted == AnyPortSpec => []DropsAccounted
BY ClientSafety, PTL

\* For any callers, headers, handlers and arriving packets: what ServeRTU writes is
\* bytes, and whatever a reply contains the handlers' tables keep the types of their
\* values (rtu_client.go:149-252, simple_handler.go).
THEOREM ClientTypeCorrect == AnyPortSpec => []ClientTypeOK
BY InitIInv, PortIInv, InitTypes, PortTypes, PTL DEF AnyPortSpec
===============================================================================
