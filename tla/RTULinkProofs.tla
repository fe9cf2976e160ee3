----------------------------- MODULE RTULinkProofs -----------------------------
(***************************************************************************)
(* Proofs about a client and any number of servers on one bus: a timeout   *)
(* that is long enough keeps the replies of one transaction out of the     *)
(* next, although nothing in an RTU frame says which request it answers;   *)
(* and the client and the servers then implement Transactions.             *)
(***************************************************************************)
EXTENDS RTULink, RTUClientProofs, TLAPS

-------------------------------------------------------------------------------
(***************************************************************************)
(* Queues of packets.                                                      *)
(***************************************************************************)
\* No packet of q is for the id s; exactly one is, and it is of transaction n.
None(q, s) == \A k \in 1..Len(q) : q[k].id # s
One(q, s, n) ==
    \E k \in 1..Len(q) : /\ q[k].id = s /\ q[k].txn = n
                         /\ \A j \in 1..Len(q) : q[j].id = s => j = k

\* The empty queue.
LEMMA SeqEmpty == IsSeq(<< >>) /\ \A s : None(<< >>, s)
<1>1. << >> \in Seq({})
  OBVIOUS
<1>2. \A s : None(<< >>, s)
  BY DEF None
<1> QED BY <1>1, <1>2 DEF IsSeq

\* A packet is put at the end of a queue.
LEMMA QueueAppend ==
    ASSUME NEW q, IsSeq(q), NEW s, NEW f, None(q, s)
    PROVE  /\ f.id # s => None(Append(q, f), s)
           /\ f.id = s => One(Append(q, f), s, f.txn)
<1> DEFINE n == Len(q)
           a == Append(q, f)
<1>1. /\ n \in Nat /\ Len(a) = n + 1 /\ a[n + 1] = f
      /\ \A i \in 1..n : a[i] = q[i]
  BY SeqAppend
<1>2. \A i \in 1..n : a[i].id # s
  BY <1>1 DEF None
<1> HIDE DEF n, a
<1>3. \A i \in 1..Len(a) : i # n + 1 => i \in 1..n
  BY <1>1
<1>4. n + 1 \in 1..Len(a)
  BY <1>1
<1>5. f.id # s => None(a, s)
  BY <1>1, <1>2, <1>3 DEF None
<1>6. f.id = s => One(a, s, f.txn)
  BY <1>1, <1>2, <1>3, <1>4 DEF One
<1> QED BY <1>5, <1>6 DEF a

\* The first packet is taken from a queue.
LEMMA QueueTail ==
    ASSUME NEW q, IsSeq(q), q # << >>, NEW s
    PROVE  /\ None(q, s) => None(Tail(q), s) /\ Head(q).id # s
           /\ \A n : One(q, s, n) =>
                 \/ Head(q).id = s /\ Head(q).txn = n /\ None(Tail(q), s)
                 \/ Head(q).id # s /\ One(Tail(q), s, n)
<1> DEFINE l == Len(q)
           t == Tail(q)
<1>1. /\ l \in Nat /\ l >= 1 /\ Len(t) = l - 1 /\ Head(q) = q[1]
      /\ \A i \in 1..(l - 1) : t[i] = q[i + 1]
  BY SeqTail
<1>2. ASSUME None(q, s) PROVE None(t, s) /\ Head(q).id # s
  <2>1. \A i \in 1..l : q[i].id # s
    BY <1>2 DEF None
  <2> HIDE DEF l, t
  <2>2. \A i \in 1..(l - 1) : i + 1 \in 1..l
    BY <1>1
  <2>3. 1 \in 1..l
    BY <1>1
  <2> QED BY <1>1, <2>1, <2>2, <2>3 DEF None
<1>3. ASSUME NEW n, One(q, s, n)
      PROVE  \/ Head(q).id = s /\ Head(q).txn = n /\ None(t, s)
             \/ Head(q).id # s /\ One(t, s, n)
  <2>1. PICK k \in 1..l : /\ q[k].id = s /\ q[k].txn = n
                          /\ \A j \in 1..l : q[j].id = s => j = k
    BY <1>3 DEF One
  <2> HIDE DEF l, t
  <2>2. /\ \A i \in 1..(l - 1) : i + 1 \in 1..l
        /\ 1 \in 1..l
    BY <1>1
  <2>3. CASE k = 1
    <3>1. \A i \in 1..(l - 1) : i + 1 # k
      BY <1>1, <2>3
    <3>2. None(t, s)
      BY <1>1, <2>1, <2>2, <3>1 DEF None
    <3> QED BY <1>1, <2>1, <2>3, <3>2
  <2>4. CASE k # 1
    <3>1. k - 1 \in 1..(l - 1) /\ k - 1 + 1 = k
      BY <1>1, <2>4
    <3>2. t[k - 1] = q[k]
      BY <1>1, <3>1
    <3>3. \A i \in 1..(l - 1) : t[i].id = s => i + 1 = k
      BY <1>1, <2>1, <2>2
    <3>4. \A i \in 1..(l - 1) : t[i].id = s => i = k - 1
      BY <1>1, <3>1, <3>3
    <3>5. One(t, s, n)
      BY <1>1, <2>1, <3>1, <3>2, <3>4 DEF One
    <3>6. Head(q).id # s
      BY <1>1, <2>1, <2>2, <2>4
    <3> QED BY <3>5, <3>6
  <2> QED BY <2>3, <2>4
<1> QED BY <1>2, <1>3

-------------------------------------------------------------------------------
(***************************************************************************)
(* The invariant.  The one packet that can still lead to a reply, or is    *)
(* one, is at one of five places; at all the others there is none.         *)
(***************************************************************************)
Shapes ==
    /\ IsSeq(written) /\ IsSeq(in)
    /\ inbox = [s \in Servers |-> inbox[s]] /\ srv = [s \in Servers |-> srv[s]]
    /\ log = [s \in Servers |-> log[s]]
    /\ \A s \in Servers : IsSeq(inbox[s]) /\ IsSeq(log[s])

\* Server s has no request of its own to answer, and the client no packet to take.
Idle(s) == None(inbox[s], s) /\ srv[s] # "reply"
Empty == in = << >> /\ reader # "send"
AllIdle == \A s \in Servers : Idle(s)
OthersIdle == \A s \in Servers : s # act.id => Idle(s)

\* The packet p is a reply to the request that was written last.
Current(p) == p.id = act.id /\ p.txn = Len(written)

Nowhere == AllIdle /\ Empty
Asked == /\ OthersIdle /\ Empty /\ act.id \in Servers
         /\ One(inbox[act.id], act.id, Len(written)) /\ srv[act.id] # "reply"
Replying == /\ OthersIdle /\ Empty /\ act.id \in Servers
            /\ None(inbox[act.id], act.id) /\ srv[act.id] = "reply"
            /\ log[act.id][Len(log[act.id])].txn = Len(written)
Arrived == AllIdle /\ Len(in) = 1 /\ Current(in[1]) /\ reader # "send"
Offered == AllIdle /\ in = << >> /\ reader = "send" /\ Current(held)

OneInFlight ==
    /\ serve # "read" => Nowhere
    /\ serve = "read" => Nowhere \/ Asked \/ Replying \/ Arrived \/ Offered

LInv == Shapes /\ (Timely /\ Serving => OneInFlight)

\* It holds at first.
LEMMA InitLInv == Init => LInv
<1> SUFFICES ASSUME Init PROVE LInv
  OBVIOUS
<1> USE DEF Init, ClientInit, ServerInit
<1>1. Shapes
  BY SeqEmpty DEF Shapes
<1>2. Nowhere
  BY SeqEmpty DEF Nowhere, AllIdle, Idle, Empty
<1>3. serve # "read"
  OBVIOUS
<1> QED BY <1>1, <1>2, <1>3 DEF LInv, OneInFlight

\* It implies that no reply is stale.
LEMMA LInvNoStale == ASSUME Timely PROVE LInv => NoStaleReply
<1> SUFFICES ASSUME LInv, Serving,
                    NEW p \in {in[k] : k \in 1..Len(in)}
                               \cup (IF reader = "send" THEN {held} ELSE {})
             PROVE  serve = "read" /\ p.txn = Len(written)
  BY DEF NoStaleReply
<1>1. OneInFlight
  BY DEF LInv
<1>2. CASE Empty
  BY <1>2 DEF Empty
<1>3. CASE ~Empty
  <2>1. serve = "read" /\ (Arrived \/ Offered)
    BY <1>1, <1>3 DEF OneInFlight, Nowhere, Asked, Replying
  <2> QED BY <2>1 DEF Arrived, Offered, Current
<1> QED BY <1>2, <1>3

-------------------------------------------------------------------------------
(***************************************************************************)
(* The steps of the client.                                                *)
(***************************************************************************)
\* A step that leaves the servers, the client's packets and the frames alone.
LEMMA StaysNowhere ==
    ASSUME Nowhere, UNCHANGED serverVars, in' = in, reader' # "send"
    PROVE  Nowhere'
BY DEF Nowhere, AllIdle, Idle, Empty, serverVars

LEMMA StaysShaped ==
    ASSUME Shapes, UNCHANGED serverVars, UNCHANGED <<in, written>>
    PROVE  Shapes'
BY DEF Shapes, serverVars

\* Outside a transaction there is no packet, so nothing can be left over in one.
LEMMA StartLInv ==
    ASSUME LInv, NEW c \in Callers, Start(c), UNCHANGED serverVars
    PROVE  LInv'
<1>1. serve = "outer" /\ serve' \in {"outer", "write"}
      /\ UNCHANGED <<reader, in, written>>
  BY DEF Start
<1>2. Shapes'
  BY <1>1, StaysShaped DEF LInv
<1>3. Timely /\ Serving' => Nowhere'
  <2>1. Timely => Nowhere
    BY <1>1 DEF LInv, OneInFlight, Serving
  <2>2. Nowhere => reader' # "send"
    BY <1>1 DEF Nowhere, Empty
  <2> QED BY <1>1, <2>1, <2>2, StaysNowhere
<1> QED BY <1>1, <1>2, <1>3 DEF LInv, OneInFlight

\* The steps after which ServeRTU has returned.
LEMMA ReturnLInv ==
    ASSUME LInv, UNCHANGED serverVars,
           WriteFail \/ TakeReadError \/ \E c \in Callers : Overlap(c)
    PROVE  LInv'
<1>1. serve' = "returned" /\ UNCHANGED <<in, written>>
  BY DEF WriteFail, TakeReadError, Overlap, Return
<1>2. Shapes'
  BY <1>1, StaysShaped DEF LInv
<1> QED BY <1>1, <1>2 DEF LInv, Serving

\* ServeRTU takes a packet: it is the only one.
LEMMA TakeLInv ==
    ASSUME LInv, UNCHANGED serverVars, TakePacket
    PROVE  LInv'
<1>1. /\ serve \in {"outer", "read"} /\ reader = "send" /\ reader' = "read"
      /\ UNCHANGED <<act, in, written>>
  BY DEF TakePacket, DropUnexpected, DropOtherID, BadPacket, ExceptionReply,
         UnexpectedReply, ReadReply, WriteReply, Take
<1>2. Shapes'
  BY <1>1, StaysShaped DEF LInv
<1>3. Timely => Nowhere'
  <2> SUFFICES ASSUME Timely PROVE Nowhere'
    OBVIOUS
  <2>1. OneInFlight
    BY <1>1 DEF LInv, Serving
  <2>2. Offered
    BY <1>1, <2>1
       DEF OneInFlight, Nowhere, Asked, Replying, Arrived, Empty
  <2> QED BY <1>1, <2>2 DEF Offered, Nowhere, AllIdle, Idle, Empty, serverVars
<1> QED BY <1>2, <1>3 DEF LInv, OneInFlight

\* The timer fires when nothing is on its way.
LEMMA TimeoutLInv ==
    ASSUME LInv, TimesOut
    PROVE  LInv'
<1>1. /\ serve' = "outer" /\ (Timely => Quiet)
      /\ UNCHANGED <<reader, in, written>> /\ UNCHANGED serverVars
  BY DEF TimesOut, Timeout, EndTransaction
<1>2. Shapes'
  BY <1>1, StaysShaped DEF LInv
<1>3. Quiet => Nowhere
  BY SeqEmpty DEF Quiet, Nowhere, AllIdle, Idle, Empty
<1>4. Timely => Nowhere'
  BY <1>1, <1>3, StaysNowhere DEF Quiet
<1> QED BY <1>1, <1>2, <1>4 DEF LInv, OneInFlight

\* The reader goroutine, and Close.
LEMMA ReaderLInv ==
    ASSUME LInv, ReaderStep \/ ClosePort, UNCHANGED serverVars
    PROVE  LInv'
<1>1. UNCHANGED <<serve, act, written>>
  BY DEF ReaderStep, ReaderRead, ReaderFail, ClosePort
<1>2. CASE ReaderRead
  <2>1. /\ reader = "read" /\ in # << >> /\ reader' = "send"
        /\ held' = Head(in) /\ in' = Tail(in)
    BY <1>2 DEF ReaderRead
  <2>2. IsSeq(in)
    BY DEF LInv, Shapes
  <2>3. Shapes'
    BY <1>1, <2>1, <2>2, SeqTail DEF LInv, Shapes, serverVars
  <2>4. ASSUME Timely, Serving PROVE OneInFlight'
    <3>1. serve = "read" /\ Arrived
      BY <2>1, <2>4 DEF LInv, OneInFlight, Nowhere, Asked, Replying, Offered, Empty
    <3>2. in' = << >> /\ held' = in[1]
      <4>1. /\ IsSeq(Tail(in)) /\ Len(Tail(in)) = Len(in) - 1 /\ Head(in) = in[1]
            /\ Len(in) = 1
        <5>1. Len(in) = 1
          BY <3>1 DEF Arrived
        <5> QED BY <2>1, <2>2, <5>1, SeqTail
      <4>2. Len(Tail(in)) = 0
        BY <4>1
      <4>3. Tail(in) = << >>
        BY <4>1, <4>2, SeqLenZero
      <4> QED BY <2>1, <4>1, <4>3
    <3>3. Offered'
      BY <1>1, <2>1, <3>1, <3>2
         DEF Arrived, Offered, Current, AllIdle, Idle, serverVars
    <3> QED BY <1>1, <3>1, <3>3 DEF OneInFlight
  <2> QED BY <1>1, <2>3, <2>4 DEF LInv, Serving
<1>3. CASE ReaderFail \/ ClosePort
  <2>1. UNCHANGED <<in, held>> /\ (reader' = "send" <=> reader = "send")
    BY <1>3 DEF ReaderFail, ClosePort
  <2>2. Shapes'
    BY <1>1, <2>1, StaysShaped DEF LInv
  <2>3. OneInFlight => OneInFlight'
    BY <1>1, <2>1 DEF OneInFlight, Nowhere, Asked, Replying, Arrived, Offered,
       AllIdle, OthersIdle, Idle, Empty, Current, serverVars
  <2> QED BY <1>1, <2>2, <2>3 DEF LInv, Serving
<1> QED BY <1>2, <1>3 DEF ReaderStep

-------------------------------------------------------------------------------
(***************************************************************************)
(* The steps that use the bus.                                             *)
(***************************************************************************)
\* What a frame on the bus does to the inbox of a server.
LEMMA BusStep ==
    ASSUME Shapes, NEW hear, NEW f, Bus(hear, f)
    PROVE  /\ inbox' = [s \in Servers |-> inbox'[s]]
           /\ \A s \in Servers : /\ IsSeq(inbox'[s])
                                 /\ \/ inbox'[s] = inbox[s]
                                    \/ s \in hear /\ inbox'[s] = Append(inbox[s], f)
<1>1. PICK got \in SUBSET hear :
         inbox' = [s \in Servers |->
                     IF s \in got /\ srv[s] # "stopped" THEN Append(inbox[s], f)
                     ELSE inbox[s]]
  BY DEF Bus
<1>2. \A s \in Servers : IsSeq(inbox[s]) /\ IsSeq(Append(inbox[s], f))
  BY SeqAppend DEF Shapes
<1> QED BY <1>1, <1>2

\* The request is written when nothing is left of the one before.
LEMMA ClientWritesLInv ==
    ASSUME LInv, ClientWrites
    PROVE  LInv'
<1> DEFINE f == Tagged(written'[Len(written')], Len(written'))
<1>1. /\ serve = "write" /\ written' = Append(written, MakeRTU(act.id, act.pdu))
      /\ serve' = (IF IsMulticast THEN "outer" ELSE "read")
      /\ UNCHANGED <<act, reader, in, srv, log>>
      /\ Bus(Servers, f)
  BY DEF ClientWrites, WriteOk
<1>2. Shapes
  BY DEF LInv
<1>3. IsSeq(written') /\ f.id = act.id /\ f.txn = Len(written')
  <2>1. /\ IsSeq(written') /\ Len(written) \in Nat /\ Len(written') = Len(written) + 1
        /\ written'[Len(written) + 1] = MakeRTU(act.id, act.pdu)
    BY <1>1, <1>2, SeqAppend DEF Shapes
  <2>2. written'[Len(written')] = MakeRTU(act.id, act.pdu)
    BY <2>1
  <2> QED BY <2>1, <2>2 DEF Tagged, MakeRTU
<1> HIDE DEF f
<1>4. /\ inbox' = [s \in Servers |-> inbox'[s]]
      /\ \A s \in Servers : /\ IsSeq(inbox'[s])
                            /\ \/ inbox'[s] = inbox[s]
                               \/ inbox'[s] = Append(inbox[s], f)
  BY <1>1, <1>2, BusStep
<1>5. Shapes'
  BY <1>1, <1>2, <1>3, <1>4 DEF Shapes
<1>6. ASSUME Timely PROVE OneInFlight'
  <2>1. Nowhere
    BY <1>1, <1>6 DEF LInv, Serving, OneInFlight
  <2>2. ASSUME NEW s \in Servers
        PROVE  /\ srv'[s] # "reply"
               /\ s # act.id => None(inbox'[s], s)
               /\ s = act.id => \/ None(inbox'[s], s)
                                \/ One(inbox'[s], s, Len(written'))
    <3>1. IsSeq(inbox[s]) /\ None(inbox[s], s) /\ srv[s] # "reply"
      BY <1>2, <2>1 DEF Shapes, Nowhere, AllIdle, Idle
    <3>2. /\ s # act.id => None(Append(inbox[s], f), s)
          /\ s = act.id => One(Append(inbox[s], f), s, Len(written'))
      <4>1. /\ f.id # s => None(Append(inbox[s], f), s)
            /\ f.id = s => One(Append(inbox[s], f), s, f.txn)
        BY <3>1, QueueAppend
      <4> QED BY <1>3, <4>1
    <3> QED BY <1>1, <1>4, <3>1, <3>2
  <2>3. OthersIdle' /\ Empty'
    BY <1>1, <2>1, <2>2 DEF OthersIdle, Idle, Empty, Nowhere
  <2>4. CASE IsMulticast
    <3>1. \A s \in Servers : s # act.id
      BY <2>4, ServersAssumption DEF IsMulticast
    <3> QED BY <1>1, <2>3, <2>4, <3>1
        DEF OneInFlight, Nowhere, AllIdle, OthersIdle
  <2>5. CASE act.id \in Servers /\ One(inbox'[act.id], act.id, Len(written'))
    <3>1. Asked'
      BY <1>1, <2>2, <2>3, <2>5 DEF Asked
    <3> QED BY <1>1, <2>4, <3>1 DEF OneInFlight
  <2>6. CASE ~(act.id \in Servers /\ One(inbox'[act.id], act.id, Len(written')))
    <3>1. AllIdle'
      BY <1>1, <2>2, <2>6 DEF AllIdle, Idle
    <3> QED BY <2>3, <3>1 DEF OneInFlight, Nowhere
  <2> QED BY <2>5, <2>6
<1> QED BY <1>5, <1>6 DEF LInv

\* A server writes its reply: the only one, to the request written last.
LEMMA ServerWritesLInv ==
    ASSUME LInv, NEW s \in Servers, ServerWrites(s)
    PROVE  LInv'
<1> DEFINE f == ReplyFrame(s)
           hear == IF TwoWire THEN Servers \ {s} ELSE {}
<1>1. /\ srv[s] = "reply" /\ srv' = [srv EXCEPT ![s] = "read"]
      /\ Bus(hear, f)
      /\ in' = Append(in, f) \/ in' = in
      /\ UNCHANGED <<serve, act, reader, held, written, log>>
  BY DEF ServerWrites, ServerReply
<1>2. Shapes /\ s \notin hear
  BY DEF LInv
<1>3. f.id = s /\ f.txn = log[s][Len(log[s])].txn
  BY DEF ReplyFrame
<1> HIDE DEF f, hear
<1>4. /\ inbox' = [t \in Servers |-> inbox'[t]]
      /\ \A t \in Servers : /\ IsSeq(inbox'[t])
                            /\ \/ inbox'[t] = inbox[t]
                               \/ t \in hear /\ inbox'[t] = Append(inbox[t], f)
  BY <1>1, <1>2, BusStep
<1>5. /\ IsSeq(in') /\ srv' = [t \in Servers |-> srv'[t]]
      /\ srv'[s] = "read" /\ \A t \in Servers : t # s => srv'[t] = srv[t]
  <2>1. IsSeq(in) /\ srv = [t \in Servers |-> srv[t]]
    BY <1>2 DEF Shapes
  <2>2. IsSeq(in')
    BY <1>1, <2>1, SeqGrows
  <2> QED BY <1>1, <2>1, <2>2
<1>6. Shapes'
  BY <1>1, <1>2, <1>4, <1>5 DEF Shapes
<1>7. ASSUME Timely, Serving PROVE OneInFlight'
  <2>1. serve = "read" /\ Replying /\ s = act.id
    BY <1>1, <1>7 DEF LInv, OneInFlight, Nowhere, Asked, Replying, Arrived, Offered,
       AllIdle, OthersIdle, Idle
  <2>2. AllIdle'
    <3> SUFFICES ASSUME NEW t \in Servers PROVE None(inbox'[t], t) /\ srv'[t] # "reply"
      BY DEF AllIdle, Idle
    <3>1. None(inbox[t], t) /\ (t # s => srv[t] # "reply") /\ IsSeq(inbox[t])
      BY <1>2, <2>1 DEF Replying, OthersIdle, Idle, Shapes
    <3>2. t \in hear => f.id # t
      BY <1>2, <1>3
    <3>3. None(inbox'[t], t)
      BY <1>4, <3>1, <3>2, QueueAppend
    <3> QED BY <1>5, <3>1, <3>3
  <2>3. CASE in' = in
    BY <1>1, <2>1, <2>2, <2>3 DEF Replying, OneInFlight, Nowhere, Empty
  <2>4. CASE in' = Append(in, f)
    <3>1. in = << >> /\ reader # "send" /\ f.id = act.id /\ f.txn = Len(written)
      BY <1>3, <2>1 DEF Replying, Empty
    <3>2. Len(in') = 1 /\ in'[1] = f
      BY <2>4, <3>1, SeqEmpty, SeqAppend
    <3>3. Arrived'
      BY <1>1, <2>2, <3>1, <3>2 DEF Arrived, Current
    <3> QED BY <1>1, <2>1, <3>3 DEF OneInFlight
  <2> QED BY <1>1, <2>3, <2>4
<1> QED BY <1>1, <1>6, <1>7 DEF LInv, Serving

\* A server drops or executes a packet: the request it then replies to is the last.
LEMMA ServerWorksLInv ==
    ASSUME LInv, NEW s \in Servers, ServerWorks(s)
    PROVE  LInv'
<1> DEFINE q == inbox[s]
           r == Head(q)
<1>1. /\ srv[s] = "read" /\ q # << >> /\ inbox' = [inbox EXCEPT ![s] = Tail(@)]
      /\ UNCHANGED <<serve, act, reader, held, in, written>>
      /\ \/ UNCHANGED <<srv, log>>
         \/ /\ r.id \in {0, s}
            /\ \E e : e.txn = r.txn /\ log' = [log EXCEPT ![s] = Append(@, e)]
            /\ IF r.id = 0 THEN UNCHANGED srv ELSE srv' = [srv EXCEPT ![s] = "reply"]
  BY DEF ServerWorks, ServerDrop, ServerHandle, ReadPacket, Execution, clientVars
<1>2. Shapes /\ IsSeq(q) /\ IsSeq(log[s]) /\ s # 0
  BY ServersAssumption DEF LInv, Shapes
<1>3. /\ inbox'[s] = Tail(q) /\ IsSeq(Tail(q))
      /\ inbox' = [t \in Servers |-> inbox'[t]]
      /\ \A t \in Servers : t # s => inbox'[t] = inbox[t]
  BY <1>1, <1>2, SeqTail DEF Shapes
<1>4. CASE UNCHANGED <<srv, log>> \/ r.id = 0
  <2>1. /\ UNCHANGED srv /\ log' = [t \in Servers |-> log'[t]]
        /\ \A t \in Servers : IsSeq(log'[t])
        /\ \A t \in Servers : t # s => log'[t] = log[t]
    <3>1. CASE UNCHANGED <<srv, log>>
      BY <1>2, <3>1 DEF Shapes
    <3>2. CASE ~UNCHANGED <<srv, log>>
      <4>1. PICK e : UNCHANGED srv /\ log' = [log EXCEPT ![s] = Append(@, e)]
        BY <1>1, <1>4, <3>2
      <4>2. IsSeq(Append(log[s], e))
        BY <1>2, SeqGrows
      <4> QED BY <1>2, <4>1, <4>2 DEF Shapes
    <3> QED BY <3>1, <3>2
  <2>2. Shapes'
    BY <1>1, <1>2, <1>3, <2>1 DEF Shapes
  <2>3. ASSUME OneInFlight PROVE OneInFlight'
    <3>1. /\ None(q, s) => None(Tail(q), s)
          /\ One(q, s, Len(written)) => None(Tail(q), s) \/ One(Tail(q), s, Len(written))
      BY <1>1, <1>2, QueueTail
    <3>2. \A t \in Servers : Idle(t) => Idle(t)'
      BY <1>3, <2>1, <3>1 DEF Idle
    <3>3. Empty => Empty'
      BY <1>1 DEF Empty
    <3>4. (Nowhere => Nowhere') /\ (AllIdle => AllIdle') /\ (OthersIdle => OthersIdle')
      BY <1>1, <3>2, <3>3 DEF Nowhere, AllIdle, OthersIdle
    <3>5. CASE serve # "read" \/ Nowhere
      BY <1>1, <2>3, <3>4, <3>5 DEF OneInFlight
    <3>6. CASE serve = "read" /\ Asked
      <4>1. OthersIdle' /\ Empty' /\ act'.id \in Servers /\ srv'[act.id] # "reply"
        BY <1>1, <2>1, <3>3, <3>4, <3>6 DEF Asked
      <4>2. One(inbox'[act.id], act.id, Len(written)) \/ None(inbox'[act.id], act.id)
        BY <1>3, <3>1, <3>6 DEF Asked
      <4>3. Asked' \/ Nowhere'
        BY <1>1, <4>1, <4>2 DEF Asked, Nowhere, AllIdle, OthersIdle, Idle
      <4> QED BY <1>1, <3>6, <4>3 DEF OneInFlight
    <3>7. CASE serve = "read" /\ Replying
      <4>1. act.id # s
        BY <1>1, <3>7 DEF Replying
      <4>2. Replying'
        BY <1>1, <1>3, <2>1, <3>3, <3>4, <3>7, <4>1 DEF Replying
      <4> QED BY <1>1, <3>7, <4>2 DEF OneInFlight
    <3>8. CASE serve = "read" /\ (Arrived \/ Offered)
      <4>1. Arrived' \/ Offered'
        BY <1>1, <3>4, <3>8 DEF Arrived, Offered, Current
      <4> QED BY <1>1, <3>8, <4>1 DEF OneInFlight
    <3> QED BY <2>3, <3>5, <3>6, <3>7, <3>8 DEF OneInFlight
  <2> QED BY <1>1, <2>2, <2>3 DEF LInv, Serving
<1>5. CASE ~(UNCHANGED <<srv, log>> \/ r.id = 0)
  <2>1. /\ r.id = s /\ srv' = [srv EXCEPT ![s] = "reply"]
        /\ \E e : e.txn = r.txn /\ log' = [log EXCEPT ![s] = Append(@, e)]
    BY <1>1, <1>5
  <2>2. PICK e : e.txn = r.txn /\ log' = [log EXCEPT ![s] = Append(@, e)]
    BY <2>1
  <2>3. /\ log' = [t \in Servers |-> log'[t]] /\ srv' = [t \in Servers |-> srv'[t]]
        /\ \A t \in Servers : IsSeq(log'[t])
        /\ log'[s] = Append(log[s], e) /\ srv'[s] = "reply"
        /\ \A t \in Servers : t # s => srv'[t] = srv[t]
    BY <1>2, <2>1, <2>2, SeqGrows DEF Shapes
  <2>4. Shapes'
    BY <1>1, <1>2, <1>3, <2>3 DEF Shapes
  <2>5. ASSUME Timely, Serving PROVE OneInFlight'
    <3>1. ~None(q, s)
      BY <1>1, <1>2, <2>1, QueueTail
    <3>2. serve = "read" /\ Asked /\ s = act.id
      BY <2>5, <3>1 DEF LInv, OneInFlight, Nowhere, Asked, Replying, Arrived, Offered,
         AllIdle, OthersIdle, Idle
    <3>3. r.txn = Len(written) /\ None(Tail(q), s)
      <4>1. One(q, s, Len(written))
        BY <3>2 DEF Asked
      <4> QED BY <1>1, <1>2, <2>1, <4>1, QueueTail
    <3>4. log'[s][Len(log'[s])] = e
      <4>1. /\ Len(Append(log[s], e)) = Len(log[s]) + 1
            /\ Append(log[s], e)[Len(log[s]) + 1] = e
        BY <1>2, SeqAppend
      <4> QED BY <2>3, <4>1
    <3>5. OthersIdle' /\ Empty'
      BY <1>1, <1>3, <2>3, <3>2 DEF Asked, OthersIdle, Idle, Empty
    <3>6. Replying'
      BY <1>1, <1>3, <2>2, <2>3, <3>2, <3>3, <3>4, <3>5 DEF Replying, Asked
    <3> QED BY <1>1, <3>2, <3>6 DEF OneInFlight
  <2> QED BY <1>1, <2>4, <2>5 DEF LInv, Serving
<1> QED BY <1>4, <1>5

\* A server that stops takes its packets with it.
LEMMA ServerStopsLInv ==
    ASSUME LInv, NEW s \in Servers, ServerStops(s)
    PROVE  LInv'
<1>1. /\ srv' = [srv EXCEPT ![s] = "stopped"]
      /\ inbox' = [inbox EXCEPT ![s] = << >>]
      /\ UNCHANGED <<serve, act, reader, held, in, written, log>>
  BY DEF ServerStops, ServerStop, clientVars
<1>2. Shapes
  BY DEF LInv
<1>3. /\ srv' = [t \in Servers |-> srv'[t]] /\ inbox' = [t \in Servers |-> inbox'[t]]
      /\ srv'[s] = "stopped" /\ inbox'[s] = << >>
      /\ \A t \in Servers : t # s => srv'[t] = srv[t] /\ inbox'[t] = inbox[t]
  BY <1>1, <1>2 DEF Shapes
<1>4. Shapes'
  BY <1>1, <1>2, <1>3, SeqEmpty DEF Shapes
<1>5. Idle(s)' /\ \A t \in Servers : Idle(t) => Idle(t)'
  BY <1>3, SeqEmpty DEF Idle
<1>6. ASSUME OneInFlight PROVE OneInFlight'
  <2>1. (AllIdle => AllIdle') /\ (OthersIdle => OthersIdle') /\ (Empty => Empty')
        /\ (OthersIdle /\ s = act.id => AllIdle')
    BY <1>1, <1>5 DEF AllIdle, OthersIdle, Empty
  <2>2. Nowhere \/ Arrived \/ Offered => Nowhere' \/ Arrived' \/ Offered'
    BY <1>1, <2>1 DEF Nowhere, Arrived, Offered, Current
  <2>3. Nowhere => Nowhere'
    BY <2>1 DEF Nowhere
  <2>4. Asked \/ Replying => Nowhere' \/ Asked' \/ Replying'
    <3>1. CASE s = act.id
      BY <2>1, <3>1 DEF Asked, Replying, Nowhere
    <3>2. CASE s # act.id
      BY <1>1, <1>3, <2>1, <3>2 DEF Asked, Replying
    <3> QED BY <3>1, <3>2
  <2> QED BY <1>1, <1>6, <2>2, <2>3, <2>4 DEF OneInFlight
<1> QED BY <1>1, <1>4, <1>6 DEF LInv, Serving

-------------------------------------------------------------------------------
\* Every step keeps the invariant.
LEMMA NextLInv == LInv /\ [Next]_vars => LInv'
<1> SUFFICES ASSUME LInv, [Next]_vars PROVE LInv'
  OBVIOUS
<1>1. CASE ClientWrites
  BY <1>1, ClientWritesLInv
<1>2. CASE TimesOut
  BY <1>2, TimeoutLInv
<1>3. CASE Serves
  BY <1>3, StartLInv, ReturnLInv, TakeLInv DEF Serves
<1>4. CASE Reads \/ Closes
  BY <1>4, ReaderLInv DEF Reads, Closes
<1>5. ASSUME NEW s \in Servers, ServerWorks(s) \/ ServerWrites(s) \/ ServerStops(s)
      PROVE  LInv'
  BY <1>5, ServerWorksLInv, ServerWritesLInv, ServerStopsLInv
<1>6. CASE UNCHANGED vars
  <2>1. /\ UNCHANGED <<serve, act, reader, held, in, written>> /\ UNCHANGED serverVars
    BY <1>6 DEF vars, clientVars
  <2>2. Shapes'
    BY <2>1, StaysShaped DEF LInv
  <2>3. OneInFlight => OneInFlight'
    BY <2>1 DEF OneInFlight, Nowhere, Asked, Replying, Arrived, Offered,
       AllIdle, OthersIdle, Idle, Empty, Current, serverVars
  <2> QED BY <2>1, <2>2, <2>3 DEF LInv, Serving
<1> QED BY <1>1, <1>2, <1>3, <1>4, <1>5, <1>6 DEF Next

\* For any callers, requests and servers, on a bus that may lose any packet at any
\* receiver, with servers that may stop: if the client's timeout is longer than a
\* server can take, a reply is in the client's hands only during the transaction
\* it answers (rtu_client.go:173-252, rtu_server.go).
THEOREM RepliesNeverStale == ASSUME Timely PROVE Spec => []NoStaleReply
<1>1. LInv => NoStaleReply
  BY LInvNoStale
<1> QED BY <1>1, InitLInv, NextLInv, PTL DEF Spec

-------------------------------------------------------------------------------
(***************************************************************************)
(* The terms of Transactions and those of the bytes.                       *)
(***************************************************************************)
\* The function codes' tables and kinds are those of the abstract specification.
LEMMA SameCodes ==
    \A f : /\ Abstract!TableOf(f) = TableOf(f)
           /\ Abstract!IsWriteToServer(f) <=> IsWriteToServer(f)
           /\ Abstract!IsReadToServer(f) <=> IsReadToServer(f)
<1>1. \A f : Abstract!TableOf(f) = TableOf(f)
  BY DEF Abstract!TableOf, TableOf, Abstract!FcReadCoils, FcReadCoils,
     Abstract!FcReadDiscreteInputs, FcReadDiscreteInputs,
     Abstract!FcReadHoldingRegisters, FcReadHoldingRegisters,
     Abstract!FcReadInputRegisters, FcReadInputRegisters,
     Abstract!FcWriteSingleCoil, FcWriteSingleCoil,
     Abstract!FcWriteSingleRegister, FcWriteSingleRegister,
     Abstract!FcWriteMultipleCoils, FcWriteMultipleCoils,
     Abstract!FcWriteMultipleRegisters, FcWriteMultipleRegisters
<1>2. \A f : /\ Abstract!IsWriteToServer(f) <=> IsWriteToServer(f)
             /\ Abstract!IsReadToServer(f) <=> IsReadToServer(f)
  BY DEF Abstract!IsWriteToServer, IsWriteToServer, Abstract!IsReadToServer,
     IsReadToServer
<1> QED BY <1>1, <1>2

\* The requests of the frames w, as the abstract specification has them.
Decoded(w) == [n \in 1..Len(w) |-> DecodeRequest(w[n])]

LEMMA DecodedSeq ==
    ASSUME NEW w, IsSeq(w)
    PROVE  /\ IsSeq(Decoded(w)) /\ Len(Decoded(w)) = Len(w)
           /\ \A n \in 1..Len(w) : Decoded(w)[n] = DecodeRequest(w[n])
<1> DEFINE S == {DecodeRequest(w[n]) : n \in 1..Len(w)}
<1>1. Len(w) \in Nat
  BY SeqAppend
<1>2. Decoded(w) \in [1..Len(w) -> S]
  BY DEF Decoded
<1> HIDE DEF S
<1>3. Decoded(w) \in Seq(S) /\ Len(Decoded(w)) = Len(w)
  BY <1>1, <1>2, IsSequence
<1>4. \A n \in 1..Len(w) : Decoded(w)[n] = DecodeRequest(w[n])
  BY DEF Decoded
<1> QED BY <1>3, <1>4 DEF IsSeq

LEMMA DecodedAppend ==
    ASSUME NEW w, IsSeq(w), NEW x
    PROVE  Decoded(Append(w, x)) = Append(Decoded(w), DecodeRequest(x))
<1> DEFINE n == Len(w)
           a == Append(w, x)
           d == Decoded(w)
           y == DecodeRequest(x)
           b == Append(d, y)
           c == Decoded(a)
<1>1. /\ IsSeq(a) /\ n \in Nat /\ Len(a) = n + 1 /\ a[n + 1] = x
      /\ \A i \in 1..n : a[i] = w[i]
  BY SeqAppend
<1>2. IsSeq(d) /\ Len(d) = n /\ \A i \in 1..n : d[i] = DecodeRequest(w[i])
  BY DecodedSeq
<1> HIDE DEF n, a, d
<1>3. /\ IsSeq(b) /\ Len(b) = n + 1 /\ b[n + 1] = y /\ \A i \in 1..n : b[i] = d[i]
  BY <1>2, SeqAppend
<1>4. IsSeq(c) /\ Len(c) = n + 1 /\ \A i \in 1..(n + 1) : c[i] = DecodeRequest(a[i])
  BY <1>1, DecodedSeq
<1> HIDE DEF b, c, y
<1>5. \A i \in 1..(n + 1) : c[i] = b[i]
  <2> SUFFICES ASSUME NEW i \in 1..(n + 1) PROVE c[i] = b[i]
    OBVIOUS
  <2>1. i = n + 1 \/ i \in 1..n
    BY <1>1
  <2> QED BY <1>1, <1>2, <1>3, <1>4, <2>1 DEF y
<1>6. PICK S, T : b \in Seq(S) /\ c \in Seq(T)
  BY <1>3, <1>4 DEF IsSeq
<1>7. b \in Seq(S \union T) /\ c \in Seq(S \union T)
  BY <1>6
<1>8. c = b
  <2> DEFINE U == S \union T
  <2> HIDE DEF U
  <2>1. b \in Seq(U) /\ c \in Seq(U)
    BY <1>7 DEF U
  <2>2. Len(c) = Len(b) /\ \A i \in 1..Len(b) : c[i] = b[i]
    BY <1>3, <1>4, <1>5
  <2> QED BY <2>1, <2>2, SameSequence
<1> QED BY <1>8 DEF a, b, c, d, y

\* The request r of the abstract specification asks what the bytes p ask.
Asks(r, p) == r.fc = GetFunctionCode(p) /\ r.address = GetAddress(p) /\ r.count = Count(p)

LEMMA DecodedAsks == \A f : Asks(DecodeRequest(f), f.pdu)
BY DEF Asks, DecodeRequest, Count

\* The range of a request and its values.
LEMMA SameRange ==
    ASSUME NEW m, NEW p, NEW r, Asks(r, p)
    PROVE  /\ HasRange(m, p) => Abstract!Has(m, r)
           /\ Abstract!Values(m, r) = ValuesAsked(m, p)
           /\ \A v : Abstract!Update(m, r, v) = Updated(m, p, v)
<1>1. /\ r.address = GetAddress(p) /\ r.count = Count(p)
      /\ Abstract!TableOf(r.fc) = TableFor(p)
  BY SameCodes DEF Asks, TableFor
<1> QED BY <1>1 DEF Abstract!Has, Abstract!Values, Abstract!Update, Abstract!InRange,
        HasRange, ValuesAsked, Updated

-------------------------------------------------------------------------------
(***************************************************************************)
(* The invariant of the refinement.  The bytes on the wire are those of    *)
(* the requests; what a server takes, records and replies to, and what the *)
(* client holds, are requests the client wrote and their executions.       *)
(***************************************************************************)
\* A request of which Executed and ReplyTaken hold.
Askable(p) ==
    /\ p \in Seq(Byte)
    /\ IsReadToServer(GetFunctionCode(p)) =>
          Count(p) \in 1..MaxPerPacket(GetFunctionCode(p))

Header(id, p) ==
    [id |-> id, fc |-> GetFunctionCode(p), address |-> GetAddress(p), count |-> Count(p)]

Memories ==
    /\ mem = [id \in HandlerIDs |-> mem[id]]
    /\ smem = [s \in Servers |-> smem[s]] /\ rsp = [s \in Servers |-> rsp[s]]
    /\ \A s \in Servers : IsMemory(smem[s])

\* The request in progress was asked for; one that writes carries the values that
\* the client's own memory has until the transaction ends.
CarriesOwn(m, p) ==
    /\ HasRange(m, p) /\ Count(p) \in Nat /\ WrittenValues(p) = ValuesAsked(m, p)
Prepared ==
    serve \in {"write", "read"} =>
       /\ Askable(act.pdu) /\ act.fc = GetFunctionCode(act.pdu)
       /\ act.fc \in {1, 2, 3, 4, 5, 6, 15, 16}
       /\ Header(act.id, act.pdu) \in AllRequests
       /\ IsWriteToServer(act.fc) => /\ act.id \in HandlerIDs
                                     /\ CarriesOwn(mem[act.id], act.pdu)

Requested == \A n \in 1..Len(written) : Askable(written[n].pdu)

\* The packets of q that server s takes are frames of w, after the first lo, in the
\* order they were written.
For(s, f) == f.id \in {0, s}
Genuine(q, s, lo, w) ==
    /\ lo \in 0..Len(w)
    /\ \A i \in 1..Len(q) : For(s, q[i]) => /\ q[i].txn \in (lo + 1)..Len(w)
                                            /\ q[i] = Tagged(w[q[i].txn], q[i].txn)
    /\ \A i, j \in 1..Len(q) :
          For(s, q[i]) /\ For(s, q[j]) /\ i < j => q[i].txn < q[j].txn
LastTxn(s) == IF log[s] = << >> THEN 0 ELSE log[s][Len(log[s])].txn
Queued == \A s \in Servers : Genuine(inbox[s], s, LastTxn(s), written)

\* A server about to reply has recorded the execution that its reply reports.
Recorded ==
    \A s \in Servers : srv[s] = "reply" =>
       /\ rsp[s] \in Seq(Byte) /\ log[s] # << >> /\ LastTxn(s) \in 1..Len(written)
       /\ log[s][Len(log[s])] = Execution(Tagged(written[LastTxn(s)], LastTxn(s)), rsp[s])

\* The packet p reports an execution recorded in l, of a frame of w.
IsReply(p, w, l) ==
    /\ p.id \in Servers /\ p.txn \in 1..Len(w)
    /\ \E k \in 1..Len(l[p.id]) :
          l[p.id][k] = Execution(Tagged(w[p.txn], p.txn), p.pdu)
Replies == /\ \A k \in 1..Len(in) : IsReply(in[k], written, log)
           /\ reader = "send" => IsReply(held, written, log)

RInv == /\ LInv /\ IInv /\ ClientTypeOK
        /\ Memories /\ Prepared /\ Requested /\ Queued /\ Recorded /\ Replies

\* It holds at first.
LEMMA InitRInv == Init => RInv
<1> SUFFICES ASSUME Init PROVE RInv
  OBVIOUS
<1>1. LInv /\ IInv /\ ClientTypeOK
  BY InitLInv, InitIInv, InitTypes DEF Init
<1> USE DEF Init, ClientInit, ServerInit
<1>2. Memories
  BY HandlerAssumption, ServersAssumption DEF Memories
<1>3. Prepared /\ Requested /\ Recorded /\ Replies
  BY DEF Prepared, Requested, Recorded, Replies
<1>4. Queued
  BY DEF Queued, Genuine, LastTxn
<1> QED BY <1>1, <1>2, <1>3, <1>4 DEF RInv

-------------------------------------------------------------------------------
(***************************************************************************)
(* The histories only grow.                                                *)
(***************************************************************************)
Longer(w, v) ==
    /\ Len(w) \in Nat /\ Len(v) \in Nat /\ Len(w) <= Len(v)
    /\ \A n \in 1..Len(w) : v[n] = w[n]
Grow == Longer(written, written') /\ \A s \in Servers : Longer(log[s], log'[s])

\* A sequence with one more element, and the same one.
LEMMA AppendLonger == \A q, x : IsSeq(q) => Longer(q, Append(q, x))
<1> SUFFICES ASSUME NEW q, IsSeq(q), NEW x PROVE Longer(q, Append(q, x))
  OBVIOUS
<1>1. /\ Len(q) \in Nat /\ Len(Append(q, x)) = Len(q) + 1
      /\ \A i \in 1..Len(q) : Append(q, x)[i] = q[i]
  BY SeqAppend
<1> QED BY <1>1 DEF Longer

LEMMA SameLonger == \A q : IsSeq(q) => Longer(q, q)
<1> SUFFICES ASSUME NEW q, IsSeq(q) PROVE Longer(q, q)
  OBVIOUS
<1>1. Len(q) \in Nat
  BY SeqAppend
<1> QED BY <1>1 DEF Longer

\* What the steps that neither write a frame nor belong to a server leave alone.
LEMMA Silent ==
    ASSUME TimesOut \/ Serves \/ Reads \/ Closes
    PROVE  UNCHANGED serverVars /\ UNCHANGED written
<1>1. ASSUME NEW c \in Callers, Start(c) \/ Overlap(c) PROVE UNCHANGED written
  BY <1>1 DEF Start, Overlap
<1> QED BY <1>1 DEF TimesOut, Timeout, Serves, WriteFail, TakeReadError, TakePacket,
        DropUnexpected, DropOtherID, BadPacket, ExceptionReply, UnexpectedReply,
        ReadReply, WriteReply, Take, Reads, ReaderStep, ReaderRead, ReaderFail,
        Closes, ClosePort

\* No step takes anything back.
LEMMA StepsGrow ==
    ASSUME LInv, [Next]_vars
    PROVE  Grow
<1>1. IsSeq(written) /\ \A s \in Servers : IsSeq(log[s])
  BY DEF LInv, Shapes
<1>2. Longer(written, written) /\ \A s \in Servers : Longer(log[s], log[s])
  BY <1>1, SameLonger
<1>3. CASE TimesOut \/ Serves \/ Reads \/ Closes
  <2>1. UNCHANGED <<written, log>>
    BY <1>3, Silent DEF serverVars
  <2> QED BY <1>2, <2>1 DEF Grow
<1>4. CASE ClientWrites
  <2>1. written' = Append(written, MakeRTU(act.id, act.pdu)) /\ UNCHANGED log
    BY <1>4 DEF ClientWrites, WriteOk
  <2>2. Longer(written, written')
    BY <1>1, <2>1, AppendLonger
  <2> QED BY <1>2, <2>1, <2>2 DEF Grow
<1>5. ASSUME NEW s \in Servers, ServerWorks(s) PROVE Grow
  <2>1. /\ UNCHANGED written
        /\ UNCHANGED log \/ \E e : log' = [log EXCEPT ![s] = Append(@, e)]
    BY <1>5 DEF ServerWorks, ServerDrop, ServerHandle, clientVars
  <2>2. \A e : Longer(log[s], Append(log[s], e))
    BY <1>1, AppendLonger
  <2>3. log = [t \in Servers |-> log[t]]
    BY DEF LInv, Shapes
  <2> QED BY <1>2, <2>1, <2>2, <2>3 DEF Grow
<1>6. ASSUME NEW s \in Servers, ServerWrites(s) \/ ServerStops(s) PROVE Grow
  <2>1. UNCHANGED <<written, log>>
    BY <1>6 DEF ServerWrites, ServerReply, ServerStops, ServerStop, clientVars
  <2> QED BY <1>2, <2>1 DEF Grow
<1>7. CASE UNCHANGED vars
  BY <1>2, <1>7 DEF Grow, vars, clientVars, serverVars
<1> QED BY <1>3, <1>4, <1>5, <1>6, <1>7 DEF Next

\* What was a reply still is one.
LEMMA ReplyStays ==
    ASSUME Grow, NEW p, IsReply(p, written, log)
    PROVE  IsReply(p, written', log')
<1> DEFINE s == p.id
           n == p.txn
<1>1. s \in Servers /\ n \in 1..Len(written)
  BY DEF IsReply
<1>2. PICK k \in 1..Len(log[s]) : log[s][k] = Execution(Tagged(written[n], n), p.pdu)
  BY DEF IsReply
<1>3. Longer(written, written') /\ Longer(log[s], log'[s])
  BY <1>1 DEF Grow
<1> HIDE DEF s, n
<1>4. n \in 1..Len(written') /\ written'[n] = written[n]
  BY <1>1, <1>3 DEF Longer
<1>5. k \in 1..Len(log'[s]) /\ log'[s][k] = log[s][k]
  BY <1>2, <1>3 DEF Longer
<1> QED BY <1>1, <1>2, <1>4, <1>5 DEF IsReply, s, n

-------------------------------------------------------------------------------
(***************************************************************************)
(* Every step keeps the invariant.                                         *)
(***************************************************************************)
\* A reply reports what its server recorded last.
LEMMA ReplyFrameIsReply ==
    ASSUME LInv, Recorded, NEW s \in Servers, srv[s] = "reply"
    PROVE  /\ ReplyFrame(s) \in Packets
           /\ IsReply(ReplyFrame(s), written, log)
<1> DEFINE f == ReplyFrame(s)
           n == LastTxn(s)
           k == Len(log[s])
<1>1. /\ rsp[s] \in Seq(Byte) /\ log[s] # << >> /\ n \in 1..Len(written)
      /\ log[s][k] = Execution(Tagged(written[n], n), rsp[s])
  BY DEF Recorded
<1>2. f.id = s /\ f.pdu = rsp[s] /\ f.ok = TRUE /\ f.txn = n
      /\ f = [id |-> s, pdu |-> rsp[s], ok |-> TRUE, txn |-> n]
  BY <1>1 DEF ReplyFrame, LastTxn
<1>3. Len(written) \in Nat /\ IsSeq(log[s])
  BY SeqAppend DEF LInv, Shapes
<1>4. k \in Nat /\ k >= 1
  BY <1>1, <1>3, SeqTail
<1>5. s \in Byte
  BY ServersAssumption DEF Byte
<1> HIDE DEF f, n, k
<1>6. n \in Nat
  BY <1>1, <1>3
<1>7. f \in Packets
  BY <1>1, <1>2, <1>5, <1>6 DEF Packets
<1>8. k \in 1..k
  BY <1>4
<1>9. IsReply(f, written, log)
  BY <1>1, <1>2, <1>8 DEF IsReply, k
<1> QED BY <1>7, <1>9 DEF f

\* A server writes its reply: at the client it is a packet more, or nothing.
LEMMA ReplyDelivered ==
    ASSUME RInv, NEW s \in Servers, ServerWrites(s)
    PROVE  \/ UNCHANGED clientVars
           \/ \E f \in Packets : IsReply(f, written, log) /\ Delivers(f)
<1>1. srv[s] = "reply"
  BY DEF ServerWrites, ServerReply
<1>2. ReplyFrame(s) \in Packets /\ IsReply(ReplyFrame(s), written, log)
  BY <1>1, ReplyFrameIsReply DEF RInv
<1>3. CASE UNCHANGED in
  BY <1>3 DEF ServerWrites, clientVars
<1>4. CASE in' = Append(in, ReplyFrame(s))
  <2>1. Delivers(ReplyFrame(s))
    BY <1>4 DEF ServerWrites, Delivers
  <2> QED BY <1>2, <2>1
<1> QED BY <1>3, <1>4 DEF ServerWrites

\* The other steps are steps of the client, or of no concern to it.
LEMMA ClientOrServer ==
    ASSUME [Next]_vars
    PROVE  [ClientNext]_clientVars \/ \E s \in Servers : ServerWrites(s)
<1>1. CASE ClientWrites \/ TimesOut \/ Serves \/ Reads \/ Closes
  <2>1. ClientNext
    BY <1>1 DEF ClientWrites, TimesOut, Serves, Reads, Closes, ClientNext, ServeStep
  <2> QED BY <2>1
<1>2. ASSUME NEW s \in Servers, ServerWorks(s) \/ ServerStops(s) PROVE UNCHANGED clientVars
  BY <1>2 DEF ServerWorks, ServerStops
<1>3. CASE UNCHANGED vars
  BY <1>3 DEF vars
<1> QED BY <1>1, <1>2, <1>3 DEF Next

\* What RTUClientProofs shows of the client alone holds of it on a bus.
LEMMA LinkIInv ==
    ASSUME RInv, [Next]_vars
    PROVE  IInv' /\ ClientTypeOK'
<1>1. IInv /\ ClientTypeOK
  BY DEF RInv
<1>2. CASE [ClientNext]_clientVars
  <2>1. IInv'
    BY <1>1, <1>2, ClientIInv
  <2> QED BY <1>1, <1>2, <2>1, ClientTypes
<1>3. ASSUME NEW s \in Servers, ServerWrites(s), ~[ClientNext]_clientVars
      PROVE  IInv' /\ ClientTypeOK'
  <2>1. PICK f \in Packets : Delivers(f)
    BY <1>3, ReplyDelivered
  <2> QED BY <1>1, <2>1, DeliversIInv, DeliversTypes
<1> QED BY <1>2, <1>3, ClientOrServer

\* Replies: the reader takes a packet from the queue, a server adds one.
LEMMA RepliesStep ==
    ASSUME RInv, [Next]_vars
    PROVE  Replies'
<1>1. Grow
  BY StepsGrow DEF RInv
<1>2. /\ \A k \in 1..Len(in) : IsReply(in[k], written', log')
      /\ reader = "send" => IsReply(held, written', log')
  BY <1>1, ReplyStays DEF RInv, Replies
<1>3. IsSeq(in)
  BY DEF RInv, LInv, Shapes
<1>4. CASE UNCHANGED in /\ (reader' = "send" => reader = "send" /\ held' = held)
  BY <1>2, <1>4 DEF Replies
<1>5. CASE ReaderRead
  <2>1. in # << >> /\ held' = Head(in) /\ in' = Tail(in)
    BY <1>5 DEF ReaderRead
  <2>2. /\ Len(in) \in Nat /\ Len(in) >= 1 /\ Len(in') = Len(in) - 1 /\ held' = in[1]
        /\ \A i \in 1..(Len(in) - 1) : in'[i] = in[i + 1]
    BY <1>3, <2>1, SeqTail
  <2>3. /\ 1 \in 1..Len(in)
        /\ \A i \in 1..Len(in') : i \in 1..(Len(in) - 1) /\ i + 1 \in 1..Len(in)
    BY <2>2
  <2> QED BY <1>2, <2>2, <2>3 DEF Replies
<1>6. ASSUME NEW s \in Servers, ServerWrites(s) PROVE Replies'
  <2>1. CASE UNCHANGED clientVars
    BY <1>2, <2>1 DEF Replies, clientVars
  <2>2. ASSUME NEW f, IsReply(f, written, log), Delivers(f) PROVE Replies'
    <3>1. in' = Append(in, f) /\ UNCHANGED <<reader, held>>
      BY <2>2 DEF Delivers
    <3>2. /\ Len(in) \in Nat /\ Len(in') = Len(in) + 1 /\ in'[Len(in) + 1] = f
          /\ \A i \in 1..Len(in) : in'[i] = in[i]
      BY <1>3, <3>1, SeqAppend
    <3>3. IsReply(f, written', log')
      BY <1>1, <2>2, ReplyStays
    <3>4. \A i \in 1..Len(in') : i \in 1..Len(in) \/ i = Len(in) + 1
      BY <3>2
    <3> QED BY <1>2, <3>1, <3>2, <3>3, <3>4 DEF Replies
  <2> QED BY <1>6, <2>1, <2>2, ReplyDelivered
<1>7. CASE TimesOut \/ Serves \/ Reads \/ Closes \/ ClientWrites
  <2>1. ASSUME NEW c \in Callers, Start(c) \/ Overlap(c)
        PROVE  UNCHANGED <<in, reader, held>>
    BY <2>1 DEF Start, Overlap
  <2> QED BY <1>4, <1>5, <1>7, <2>1
          DEF ClientWrites, WriteOk, TimesOut, Timeout, Serves, WriteFail, TakeReadError,
          TakePacket, DropUnexpected, DropOtherID, BadPacket, ExceptionReply,
          UnexpectedReply, ReadReply, WriteReply, Take, Reads, ReaderStep, ReaderFail,
          Closes, ClosePort
<1>8. ASSUME NEW s \in Servers, ServerWorks(s) \/ ServerStops(s) PROVE Replies'
  BY <1>4, <1>8 DEF ServerWorks, ServerStops, clientVars
<1>9. CASE UNCHANGED vars
  BY <1>4, <1>9 DEF vars, clientVars
<1> QED BY <1>6, <1>7, <1>8, <1>9 DEF Next

\* The packet that a server takes is a request of the client's, the next one.
LEMMA HeadGenuine ==
    ASSUME RInv, NEW s \in Servers, inbox[s] # << >>, For(s, Head(inbox[s]))
    PROVE  LET r == Head(inbox[s])
           IN  /\ r.txn \in 1..Len(written) /\ r.txn > LastTxn(s)
               /\ r = Tagged(written[r.txn], r.txn) /\ Askable(r.pdu)
<1> DEFINE q == inbox[s]
           r == Head(q)
           lo == LastTxn(s)
           n == Len(written)
<1>1. IsSeq(q) /\ IsSeq(written)
  BY DEF RInv, LInv, Shapes
<1>2. n \in Nat
  BY <1>1, SeqAppend
<1>3. Len(q) \in Nat /\ Len(q) >= 1 /\ r = q[1]
  BY <1>1, SeqTail
<1>4. 1 \in 1..Len(q)
  BY <1>3
<1>5. Genuine(q, s, lo, written)
  BY DEF RInv, Queued
<1> HIDE DEF q, lo, n
<1>6. lo \in 0..n /\ r.txn \in (lo + 1)..n /\ r = Tagged(written[r.txn], r.txn)
  BY <1>3, <1>4, <1>5 DEF Genuine, n, q
<1> HIDE DEF r
<1>7. r.txn \in 1..n /\ r.txn > lo
  <2> DEFINE x == r.txn
  <2>1. x \in (lo + 1)..n
    BY <1>6
  <2> HIDE DEF x
  <2>2. x \in 1..n /\ x > lo
    BY <1>2, <1>6, <2>1
  <2> QED BY <2>2 DEF x
<1>8. Askable(r.pdu)
  <2>1. Askable(written[r.txn].pdu)
    BY <1>7 DEF RInv, Requested, n
  <2>2. r.pdu = written[r.txn].pdu
    <3>1. \A w, x : Tagged(w, x).pdu = w.pdu
      BY DEF Tagged
    <3> QED BY <1>6, <3>1
  <2> QED BY <2>1, <2>2
<1> QED BY <1>6, <1>7, <1>8 DEF r, q, lo, n

\* The memories of the servers, and their replies.
LEMMA MemoriesStep ==
    ASSUME RInv, [Next]_vars
    PROVE  Memories'
<1>1. Memories /\ ClientTypeOK /\ ControlOK
  BY DEF RInv, IInv
<1>2. mem' = [id \in HandlerIDs |-> mem'[id]]
  <2>1. CASE ReadReply
    <3>1. mem' = mem \/ \E id, m : mem' = [mem EXCEPT ![id] = m]
      BY <2>1 DEF ReadReply, MultiOnWrite
    <3> QED BY <1>1, <3>1 DEF Memories
  <2>2. CASE ~ReadReply
    <3>1. ASSUME NEW c \in Callers, Start(c) \/ Overlap(c) PROVE UNCHANGED mem
      BY <3>1 DEF Start, Overlap
    <3>2. CASE [ClientNext]_clientVars
      <4>1. UNCHANGED mem
        BY <2>2, <3>1, <3>2 DEF ClientNext, ServeStep, WriteOk, WriteFail, Timeout,
           TakeReadError, TakePacket, DropUnexpected, DropOtherID, BadPacket,
           ExceptionReply, UnexpectedReply, WriteReply, ReaderStep, ReaderRead,
           ReaderFail, ClosePort, clientVars
      <4> QED BY <1>1, <4>1 DEF Memories
    <3>3. ASSUME NEW s \in Servers, ServerWrites(s) PROVE UNCHANGED mem
      BY <3>3 DEF ServerWrites
    <3> QED BY <1>1, <3>2, <3>3, ClientOrServer DEF Memories
  <2> QED BY <2>1, <2>2
<1>3. CASE UNCHANGED <<smem, rsp>>
  BY <1>1, <1>2, <1>3 DEF Memories
<1>4. CASE ClientWrites \/ TimesOut \/ Serves \/ Reads \/ Closes \/ UNCHANGED vars
  <2>1. UNCHANGED <<smem, rsp>>
    BY <1>4, Silent DEF ClientWrites, serverVars, vars
  <2> QED BY <1>3, <2>1
<1>5. ASSUME NEW s \in Servers, ServerHandle(s) PROVE Memories'
  <2> DEFINE r == Head(inbox[s])
             h == Handle(smem[s], r.pdu)
  <2>1. /\ inbox[s] # << >> /\ r.id \in {0, s} /\ smem' = [smem EXCEPT ![s] = h.mem]
        /\ rsp' = rsp \/ rsp' = [rsp EXCEPT ![s] = h.reply]
    BY <1>5 DEF ServerHandle, ReadPacket
  <2>2. r.pdu \in Seq(Byte)
    <3>1. For(s, Head(inbox[s]))
      BY <2>1 DEF For
    <3>2. Askable(r.pdu)
      BY <2>1, <3>1, HeadGenuine
    <3> QED BY <3>2 DEF Askable
  <2>3. IsMemory(h.mem)
    <3>1. IsMemory(smem[s])
      BY <1>1 DEF Memories
    <3> HIDE DEF r
    <3> QED BY <2>2, <3>1, Handled
  <2> HIDE DEF h
  <2> QED BY <1>1, <1>2, <2>1, <2>3 DEF Memories
<1>6. ASSUME NEW s \in Servers, ServerWorks(s) PROVE Memories'
  <2>1. CASE ServerHandle(s)
    BY <1>5, <2>1
  <2>2. CASE ServerDrop(s)
    BY <1>3, <2>2 DEF ServerDrop
  <2> QED BY <1>6, <2>1, <2>2 DEF ServerWorks
<1>7. ASSUME NEW s \in Servers, ServerWrites(s) \/ ServerStops(s) PROVE Memories'
  <2>1. UNCHANGED smem /\ rsp' = [rsp EXCEPT ![s] = NoReply]
    BY <1>7 DEF ServerWrites, ServerReply, ServerStops, ServerStop
  <2> QED BY <1>1, <1>2, <2>1 DEF Memories
<1> QED BY <1>4, <1>6, <1>7 DEF Next

-------------------------------------------------------------------------------
\* The queues of requests: more frames are written, a packet is put at the end of
\* the queue or taken from it.
LEMMA GenuineLonger ==
    ASSUME NEW q, NEW s, NEW lo, NEW w, NEW v, Longer(w, v), Genuine(q, s, lo, w)
    PROVE  Genuine(q, s, lo, v)
<1> DEFINE n == Len(w)
           m == Len(v)
<1>1. n \in Nat /\ m \in Nat /\ n <= m /\ \A i \in 1..n : v[i] = w[i]
  BY DEF Longer
<1>2. /\ lo \in 0..n
      /\ \A i \in 1..Len(q) : For(s, q[i]) => /\ q[i].txn \in (lo + 1)..n
                                              /\ q[i] = Tagged(w[q[i].txn], q[i].txn)
  BY DEF Genuine
<1> HIDE DEF n, m
<1>3. lo \in 0..m /\ \A x \in (lo + 1)..n : x \in (lo + 1)..m /\ v[x] = w[x]
  BY <1>1, <1>2
<1>4. \A i \in 1..Len(q) : For(s, q[i]) => /\ q[i].txn \in (lo + 1)..m
                                           /\ q[i] = Tagged(v[q[i].txn], q[i].txn)
  BY <1>2, <1>3
<1> QED BY <1>3, <1>4 DEF Genuine, m

LEMMA GenuineAppend ==
    ASSUME NEW q, IsSeq(q), NEW s, NEW lo, NEW w, Len(w) \in Nat,
           Genuine(q, s, lo, w), NEW f,
           For(s, f) => /\ f.txn \in (lo + 1)..Len(w) /\ f = Tagged(w[f.txn], f.txn)
                        /\ \A i \in 1..Len(q) : For(s, q[i]) => q[i].txn < f.txn
    PROVE  Genuine(Append(q, f), s, lo, w)
<1> DEFINE a == Append(q, f)
           n == Len(q)
           In(g) == g.txn \in (lo + 1)..Len(w) /\ g = Tagged(w[g.txn], g.txn)
<1>1. /\ n \in Nat /\ Len(a) = n + 1 /\ a[n + 1] = f
      /\ \A i \in 1..n : a[i] = q[i]
  BY SeqAppend
<1>2. /\ lo \in 0..Len(w)
      /\ \A i \in 1..n : For(s, q[i]) => In(q[i])
      /\ \A i, j \in 1..n : For(s, q[i]) /\ For(s, q[j]) /\ i < j => q[i].txn < q[j].txn
  BY DEF Genuine
<1>3. For(s, f) => In(f) /\ \A i \in 1..n : For(s, q[i]) => q[i].txn < f.txn
  OBVIOUS
<1> HIDE DEF a, n, In
<1>4. \A i \in 1..Len(a) : i \in 1..n \/ i = n + 1
  BY <1>1
<1>5. \A i \in 1..Len(a) : For(s, a[i]) => In(a[i])
  BY <1>1, <1>2, <1>3, <1>4
<1>6. ASSUME NEW i \in 1..Len(a), NEW j \in 1..Len(a), For(s, a[i]), For(s, a[j]), i < j
      PROVE  a[i].txn < a[j].txn
  <2>1. i \in 1..n
    BY <1>1, <1>6
  <2>2. CASE j \in 1..n
    BY <1>1, <1>2, <1>6, <2>1, <2>2
  <2>3. CASE j = n + 1
    BY <1>1, <1>3, <1>6, <2>1, <2>3
  <2> QED BY <1>4, <2>2, <2>3
<1> QED BY <1>2, <1>5, <1>6 DEF Genuine, a, In

LEMMA GenuineTail ==
    ASSUME NEW q, IsSeq(q), q # << >>, NEW s, NEW lo, NEW w, Len(w) \in Nat,
           Genuine(q, s, lo, w)
    PROVE  /\ Genuine(Tail(q), s, lo, w)
           /\ For(s, Head(q)) => Genuine(Tail(q), s, Head(q).txn, w)
<1> DEFINE t == Tail(q)
           n == Len(q)
           h == Head(q)
           l == Len(w)
<1>1. /\ n \in Nat /\ n >= 1 /\ Len(t) = n - 1 /\ h = q[1]
      /\ \A i \in 1..(n - 1) : t[i] = q[i + 1]
  BY SeqTail
<1>2. /\ lo \in 0..l
      /\ \A i \in 1..n : For(s, q[i]) => q[i].txn \in (lo + 1)..l
                                         /\ q[i] = Tagged(w[q[i].txn], q[i].txn)
      /\ \A i, j \in 1..n : For(s, q[i]) /\ For(s, q[j]) /\ i < j => q[i].txn < q[j].txn
  BY DEF Genuine
<1>0. l \in Nat
  OBVIOUS
<1> HIDE DEF t, n, h, l
<1>3. 1 \in 1..n /\ \A i \in 1..(n - 1) : i + 1 \in 1..n /\ 1 < i + 1
  BY <1>1
<1>4. \A i, j \in 1..(n - 1) : i < j => i + 1 < j + 1
  BY <1>1
<1>5. \A i, j \in 1..Len(t) : For(s, t[i]) /\ For(s, t[j]) /\ i < j => t[i].txn < t[j].txn
  <2> SUFFICES ASSUME NEW i \in 1..(n - 1), NEW j \in 1..(n - 1),
                      For(s, t[i]), For(s, t[j]), i < j
               PROVE  t[i].txn < t[j].txn
    BY <1>1
  <2>1. t[i] = q[i + 1] /\ t[j] = q[j + 1]
    BY <1>1
  <2>2. i + 1 \in 1..n /\ j + 1 \in 1..n /\ i + 1 < j + 1
    BY <1>3, <1>4
  <2> QED BY <1>2, <2>1, <2>2
<1>6. \A i \in 1..Len(t) : For(s, t[i]) => t[i].txn \in (lo + 1)..l
                                           /\ t[i] = Tagged(w[t[i].txn], t[i].txn)
  BY <1>1, <1>2, <1>3
<1>7. Genuine(t, s, lo, w)
  BY <1>2, <1>5, <1>6 DEF Genuine, l
<1>8. ASSUME For(s, h) PROVE Genuine(t, s, h.txn, w)
  <2> DEFINE x == h.txn
  <2>1. x \in (lo + 1)..l
    BY <1>1, <1>2, <1>3, <1>8
  <2>2. \A i \in 1..Len(t) : For(s, t[i]) => x < t[i].txn
    BY <1>1, <1>2, <1>3, <1>8
  <2> HIDE DEF x
  <2>3. x \in 0..l /\ \A y \in (lo + 1)..l : x < y => y \in (x + 1)..l
    BY <1>0, <1>2, <2>1
  <2>4. \A i \in 1..Len(t) : For(s, t[i]) => t[i].txn \in (x + 1)..l
                                             /\ t[i] = Tagged(w[t[i].txn], t[i].txn)
    BY <1>6, <2>2, <2>3
  <2>5. Genuine(t, s, x, w)
    BY <1>5, <2>3, <2>4 DEF Genuine, l
  <2> QED BY <2>5 DEF x
<1> QED BY <1>7, <1>8 DEF t, h

\* A server executes the request it takes: what it records.
LEMMA HandleFacts ==
    ASSUME RInv, NEW s \in Servers, ServerHandle(s)
    PROVE  LET r == Head(inbox[s])
               h == Handle(smem[s], r.pdu)
           IN  /\ inbox[s] # << >> /\ For(s, r) /\ srv[s] = "read"
               /\ r.txn \in 1..Len(written) /\ r.txn > LastTxn(s)
               /\ r = Tagged(written[r.txn], r.txn) /\ Askable(r.pdu)
               /\ inbox' = [inbox EXCEPT ![s] = Tail(@)]
               /\ smem' = [smem EXCEPT ![s] = h.mem]
               /\ log' = [log EXCEPT ![s] = Append(@, Execution(r, h.reply))]
               /\ \/ UNCHANGED <<srv, rsp>>
                  \/ /\ srv' = [srv EXCEPT ![s] = "reply"]
                     /\ rsp' = [rsp EXCEPT ![s] = h.reply]
<1>1. /\ inbox[s] # << >> /\ For(s, Head(inbox[s])) /\ srv[s] = "read"
      /\ inbox' = [inbox EXCEPT ![s] = Tail(@)]
  BY DEF ServerHandle, ReadPacket, For
<1>2. LET r == Head(inbox[s])
          h == Handle(smem[s], r.pdu)
      IN  /\ smem' = [smem EXCEPT ![s] = h.mem]
          /\ log' = [log EXCEPT ![s] = Append(@, Execution(r, h.reply))]
          /\ \/ UNCHANGED <<srv, rsp>>
             \/ /\ srv' = [srv EXCEPT ![s] = "reply"]
                /\ rsp' = [rsp EXCEPT ![s] = h.reply]
  BY DEF ServerHandle
<1> QED BY <1>1, <1>2, HeadGenuine

\* The last transaction a server executed, when it executes one more.
LEMMA Records ==
    ASSUME LInv, NEW s \in Servers, NEW e, log' = [log EXCEPT ![s] = Append(@, e)]
    PROVE  /\ log'[s] # << >> /\ log'[s][Len(log'[s])] = e /\ LastTxn(s)' = e.txn
           /\ \A t \in Servers : t # s => log'[t] = log[t] /\ LastTxn(t)' = LastTxn(t)
<1>1. log = [t \in Servers |-> log[t]] /\ IsSeq(log[s])
  BY DEF LInv, Shapes
<1>2. log'[s] = Append(log[s], e) /\ \A t \in Servers : t # s => log'[t] = log[t]
  BY <1>1
<1>3. /\ Len(log[s]) \in Nat /\ Len(log'[s]) = Len(log[s]) + 1
      /\ log'[s][Len(log[s]) + 1] = e
  BY <1>1, <1>2, SeqAppend
<1>4. log'[s] # << >> /\ log'[s][Len(log'[s])] = e
  <2>1. log'[s] = << >> => Len(log'[s]) = 0
    OBVIOUS
  <2> QED BY <1>3, <2>1
<1> QED BY <1>2, <1>4 DEF LastTxn

\* A server finds the requests in its inbox in the order they were written.
LEMMA QueuedStep ==
    ASSUME RInv, [Next]_vars
    PROVE  Queued'
<1>1. /\ Queued /\ LInv /\ Shapes /\ IsSeq(written) /\ Len(written) \in Nat
  BY SeqAppend DEF RInv, LInv, Shapes
<1>2. CASE UNCHANGED <<inbox, log, written>>
  BY <1>1, <1>2 DEF Queued, LastTxn
<1>3. CASE TimesOut \/ Serves \/ Reads \/ Closes \/ UNCHANGED vars
  <2>1. UNCHANGED <<inbox, log, written>>
    BY <1>3, Silent DEF serverVars, vars, clientVars
  <2> QED BY <1>2, <2>1
<1>4. CASE ClientWrites
  <2> DEFINE f == Tagged(written'[Len(written')], Len(written'))
             n == Len(written)
  <2>1. /\ written' = Append(written, MakeRTU(act.id, act.pdu)) /\ UNCHANGED log
        /\ Bus(Servers, f)
    BY <1>4 DEF ClientWrites, WriteOk
  <2>2. n \in Nat /\ Len(written') = n + 1 /\ Longer(written, written')
    BY <1>1, <2>1, SeqAppend, AppendLonger
  <2>3. f.txn = n + 1 /\ f = Tagged(written'[f.txn], f.txn)
    <3>1. \A w, x : Tagged(w, x).txn = x
      BY DEF Tagged
    <3> QED BY <2>2, <3>1
  <2> HIDE DEF f
  <2>4. SUFFICES ASSUME NEW s \in Servers
                 PROVE  Genuine(inbox'[s], s, LastTxn(s), written')
    BY <2>1 DEF Queued, LastTxn
  <2>5. /\ inbox'[s] = inbox[s] \/ inbox'[s] = Append(inbox[s], f)
        /\ IsSeq(inbox[s])
    BY <1>1, <2>1, BusStep DEF Shapes
  <2> DEFINE q == inbox[s]
             lo == LastTxn(s)
  <2>6. Genuine(q, s, lo, written)
    BY <1>1 DEF Queued
  <2> HIDE DEF q, lo
  <2>7. Genuine(q, s, lo, written')
    BY <2>2, <2>6, GenuineLonger
  <2>8. /\ lo \in 0..n
        /\ \A i \in 1..Len(q) : For(s, q[i]) => q[i].txn \in (lo + 1)..n
    BY <2>6 DEF Genuine
  <2> HIDE DEF n
  <2>9. n + 1 \in (lo + 1)..(n + 1) /\ \A x \in (lo + 1)..n : x < n + 1
    BY <2>2, <2>8
  <2>10. f.txn \in (lo + 1)..Len(written') /\ Len(written') \in Nat
    BY <2>2, <2>3, <2>9
  <2>11. \A i \in 1..Len(q) : For(s, q[i]) => q[i].txn < f.txn
    BY <2>3, <2>8, <2>9
  <2>12. Genuine(Append(q, f), s, lo, written')
    <3>1. IsSeq(q)
      BY <2>5 DEF q
    <3> QED BY <2>3, <2>7, <2>10, <2>11, <3>1, GenuineAppend
  <2> QED BY <2>5, <2>7, <2>12 DEF q, lo
<1>5. ASSUME NEW t \in Servers, ServerWrites(t) PROVE Queued'
  <2> DEFINE f == ReplyFrame(t)
             hear == IF TwoWire THEN Servers \ {t} ELSE {}
  <2>1. UNCHANGED <<log, written>> /\ Bus(hear, f) /\ t \notin hear
    BY <1>5 DEF ServerWrites, ServerReply
  <2>2. f.id = t /\ t # 0
    BY ServersAssumption DEF ReplyFrame
  <2> HIDE DEF f, hear
  <2>3. SUFFICES ASSUME NEW s \in Servers
                 PROVE  Genuine(inbox'[s], s, LastTxn(s), written)
    BY <2>1 DEF Queued, LastTxn
  <2>4. /\ inbox'[s] = inbox[s] \/ (s \in hear /\ inbox'[s] = Append(inbox[s], f))
        /\ IsSeq(inbox[s])
    BY <1>1, <2>1, BusStep DEF Shapes
  <2>5. Genuine(inbox[s], s, LastTxn(s), written)
    BY <1>1 DEF Queued
  <2>6. s \in hear => ~For(s, f)
    BY <2>1, <2>2 DEF For
  <2>7. s \in hear => Genuine(Append(inbox[s], f), s, LastTxn(s), written)
    <3> DEFINE lo == LastTxn(s)
    <3>1. Genuine(inbox[s], s, lo, written)
      BY <2>5
    <3> HIDE DEF lo
    <3>2. s \in hear => Genuine(Append(inbox[s], f), s, lo, written)
      BY <1>1, <2>4, <2>6, <3>1, GenuineAppend
    <3> QED BY <3>2 DEF lo
  <2> QED BY <2>4, <2>5, <2>7
<1>6. ASSUME NEW s \in Servers, ServerWorks(s) PROVE Queued'
  <2> DEFINE q == inbox[s]
             lo == LastTxn(s)
  <2>1. UNCHANGED written
    BY <1>6 DEF ServerWorks, clientVars
  <2>2. q # << >> /\ inbox' = [inbox EXCEPT ![s] = Tail(@)] /\ IsSeq(q)
    BY <1>1, <1>6 DEF ServerWorks, ServerDrop, ServerHandle, ReadPacket, Shapes
  <2>3. inbox'[s] = Tail(q) /\ \A t \in Servers : t # s => inbox'[t] = inbox[t]
    BY <1>1, <2>2 DEF Shapes
  <2>4. Genuine(q, s, lo, written)
    BY <1>1 DEF Queued
  <2>5. /\ Genuine(Tail(q), s, lo, written)
        /\ For(s, Head(q)) => Genuine(Tail(q), s, Head(q).txn, written)
    <3> HIDE DEF q, lo
    <3> QED BY <1>1, <2>2, <2>4, GenuineTail
  <2>6. CASE ServerDrop(s)
    <3>1. UNCHANGED log
      BY <2>6 DEF ServerDrop
    <3> QED BY <1>1, <2>1, <2>3, <2>5, <3>1 DEF Queued, LastTxn
  <2>7. CASE ServerHandle(s)
    <3> DEFINE r == Head(q)
               e == Execution(r, Handle(smem[s], r.pdu).reply)
    <3>1. For(s, r) /\ log' = [log EXCEPT ![s] = Append(@, e)]
      BY <2>7, HandleFacts
    <3>2. e.txn = r.txn
      BY DEF Execution
    <3> HIDE DEF e
    <3>3. LastTxn(s)' = r.txn /\ \A t \in Servers : t # s => LastTxn(t)' = LastTxn(t)
      BY <1>1, <3>1, <3>2, Records
    <3>4. Genuine(inbox'[s], s, LastTxn(s)', written)
      BY <2>3, <2>5, <3>1, <3>3
    <3>5. \A t \in Servers : t # s => Genuine(inbox'[t], t, LastTxn(t)', written)
      BY <1>1, <2>3, <3>3 DEF Queued
    <3> QED BY <2>1, <3>4, <3>5 DEF Queued
  <2> QED BY <1>6, <2>6, <2>7 DEF ServerWorks
<1>7. ASSUME NEW s \in Servers, ServerStops(s) PROVE Queued'
  <2>1. UNCHANGED <<log, written>> /\ inbox' = [inbox EXCEPT ![s] = << >>]
    BY <1>7 DEF ServerStops, ServerStop, clientVars
  <2>2. inbox'[s] = << >> /\ \A t \in Servers : t # s => inbox'[t] = inbox[t]
    BY <1>1, <2>1 DEF Shapes
  <2>3. Genuine(<< >>, s, LastTxn(s), written)
    <3>1. LastTxn(s) \in 0..Len(written)
      BY <1>1 DEF Queued, Genuine
    <3> QED BY <3>1 DEF Genuine
  <2> QED BY <1>1, <2>1, <2>2, <2>3 DEF Queued, LastTxn
<1> QED BY <1>3, <1>4, <1>5, <1>6, <1>7 DEF Next

\* The reply that a server is about to write is to what it executed last.
LEMMA RecordedStep ==
    ASSUME RInv, [Next]_vars
    PROVE  Recorded'
<1>1. Recorded /\ LInv /\ Shapes /\ Memories
  BY DEF RInv, LInv
<1>2. Grow
  BY <1>1, StepsGrow
<1>3. ASSUME NEW s \in Servers, srv[s] = "reply", rsp'[s] = rsp[s], log'[s] = log[s]
      PROVE  /\ rsp'[s] \in Seq(Byte) /\ log'[s] # << >> /\ LastTxn(s)' \in 1..Len(written')
             /\ log'[s][Len(log'[s])]
                  = Execution(Tagged(written'[LastTxn(s)'], LastTxn(s)'), rsp'[s])
  <2> DEFINE n == LastTxn(s)
  <2>1. /\ rsp[s] \in Seq(Byte) /\ log[s] # << >> /\ n \in 1..Len(written)
        /\ log[s][Len(log[s])] = Execution(Tagged(written[n], n), rsp[s])
    BY <1>1, <1>3 DEF Recorded
  <2>2. LastTxn(s)' = n
    BY <1>3 DEF LastTxn
  <2> HIDE DEF n
  <2>3. n \in 1..Len(written') /\ written'[n] = written[n]
    BY <1>2, <2>1 DEF Grow, Longer
  <2> QED BY <1>3, <2>1, <2>2, <2>3
<1>4. CASE UNCHANGED <<srv, rsp, log>>
  BY <1>3, <1>4 DEF Recorded
<1>5. CASE ClientWrites \/ TimesOut \/ Serves \/ Reads \/ Closes \/ UNCHANGED vars
  <2>1. UNCHANGED <<srv, rsp, log>>
    BY <1>5, Silent DEF ClientWrites, serverVars, vars
  <2> QED BY <1>4, <2>1
<1>6. ASSUME NEW t \in Servers, ServerWrites(t) \/ ServerStops(t) PROVE Recorded'
  <2>1. /\ \E x \in {"read", "stopped"} : srv' = [srv EXCEPT ![t] = x]
        /\ rsp' = [rsp EXCEPT ![t] = NoReply] /\ UNCHANGED log
    BY <1>6 DEF ServerWrites, ServerReply, ServerStops, ServerStop
  <2>2. /\ srv'[t] # "reply"
        /\ \A s \in Servers : s # t => srv'[s] = srv[s] /\ rsp'[s] = rsp[s]
    BY <1>1, <2>1 DEF Shapes, Memories
  <2> QED BY <1>3, <2>1, <2>2 DEF Recorded
<1>7. ASSUME NEW t \in Servers, ServerHandle(t), UNCHANGED written PROVE Recorded'
  <2> DEFINE r == Head(inbox[t])
             h == Handle(smem[t], r.pdu)
             e == Execution(r, h.reply)
  <2>1. /\ srv[t] = "read" /\ r.txn \in 1..Len(written)
        /\ r = Tagged(written[r.txn], r.txn) /\ Askable(r.pdu)
        /\ log' = [log EXCEPT ![t] = Append(@, e)]
        /\ \/ UNCHANGED <<srv, rsp>>
           \/ srv' = [srv EXCEPT ![t] = "reply"] /\ rsp' = [rsp EXCEPT ![t] = h.reply]
    BY <1>7, HandleFacts
  <2>2. e.txn = r.txn
    BY DEF Execution
  <2>3. h.reply \in Seq(Byte)
    <3>1. IsMemory(smem[t]) /\ r.pdu \in Seq(Byte)
      BY <1>1, <2>1 DEF Memories, Askable
    <3> HIDE DEF r
    <3> QED BY <3>1, Handled
  <2> DEFINE a == h.reply
  <2>4. e = Execution(Tagged(written[r.txn], r.txn), a)
    BY <2>1
  <2> HIDE DEF h, e, a
  <2>5. /\ log'[t] # << >> /\ log'[t][Len(log'[t])] = e /\ LastTxn(t)' = r.txn
        /\ \A s \in Servers : s # t => log'[s] = log[s]
    BY <1>1, <2>1, <2>2, Records
  <2> HIDE DEF r
  <2>6. CASE UNCHANGED <<srv, rsp>>
    <3>1. \A s \in Servers : srv'[s] = "reply" =>
             s # t /\ srv[s] = "reply" /\ rsp'[s] = rsp[s]
      BY <2>1, <2>6
    <3> QED BY <1>3, <2>5, <3>1 DEF Recorded
  <2>7. CASE srv' = [srv EXCEPT ![t] = "reply"] /\ rsp' = [rsp EXCEPT ![t] = a]
    <3>1. rsp'[t] = a /\ \A s \in Servers : s # t => srv'[s] = srv[s] /\ rsp'[s] = rsp[s]
      BY <1>1, <2>7 DEF Shapes, Memories
    <3>2. /\ rsp'[t] \in Seq(Byte) /\ log'[t] # << >> /\ LastTxn(t)' \in 1..Len(written')
          /\ log'[t][Len(log'[t])]
               = Execution(Tagged(written'[LastTxn(t)'], LastTxn(t)'), rsp'[t])
      BY <1>7, <2>1, <2>3, <2>4, <2>5, <3>1 DEF a
    <3> QED BY <1>3, <2>5, <3>1, <3>2 DEF Recorded
  <2> QED BY <2>1, <2>6, <2>7 DEF a
<1>8. ASSUME NEW t \in Servers, ServerWorks(t) PROVE Recorded'
  <2>1. UNCHANGED written
    BY <1>8 DEF ServerWorks, clientVars
  <2>2. CASE ServerDrop(t)
    BY <1>4, <2>2 DEF ServerDrop
  <2> QED BY <1>7, <1>8, <2>1, <2>2 DEF ServerWorks
<1> QED BY <1>5, <1>6, <1>8 DEF Next

\* The frames written are requests of which a server's execution is known.
LEMMA RequestedStep ==
    ASSUME RInv, [Next]_vars
    PROVE  Requested'
<1>1. Requested /\ IsSeq(written)
  BY DEF RInv, LInv, Shapes
<1>2. CASE UNCHANGED written
  BY <1>1, <1>2 DEF Requested
<1>3. CASE ClientWrites
  <2> DEFINE f == MakeRTU(act.id, act.pdu)
             n == Len(written)
  <2>1. serve = "write" /\ written' = Append(written, f)
    BY <1>3 DEF ClientWrites, WriteOk
  <2>2. Askable(act.pdu)
    BY <2>1 DEF RInv, Prepared
  <2>3. f.pdu = act.pdu
    BY DEF MakeRTU
  <2>4. /\ n \in Nat /\ Len(written') = n + 1 /\ written'[n + 1] = f
        /\ \A i \in 1..n : written'[i] = written[i]
    BY <1>1, <2>1, SeqAppend
  <2>5. \A i \in 1..n : Askable(written[i].pdu)
    BY <1>1 DEF Requested
  <2> HIDE DEF f, n
  <2>6. \A i \in 1..Len(written') : i \in 1..n \/ i = n + 1
    BY <2>4
  <2> QED BY <2>2, <2>3, <2>4, <2>5, <2>6 DEF Requested
<1>4. CASE TimesOut \/ Serves \/ Reads \/ Closes \/ UNCHANGED vars
  BY <1>2, <1>4, Silent DEF vars, clientVars
<1>5. ASSUME NEW s \in Servers, ServerWorks(s) \/ ServerWrites(s) \/ ServerStops(s)
      PROVE  UNCHANGED written
  BY <1>5 DEF ServerWorks, ServerWrites, ServerStops, clientVars
<1> QED BY <1>2, <1>3, <1>4, <1>5 DEF Next

\* A caller's request is one that MakeRequestHeader made.
LEMMA RequestIsMade ==
    ASSUME Deployment, ControlOK, NEW c \in Callers, caller[c].pc # "done"
    PROVE  /\ IsRequestHeader(Request(c).pdu)
           /\ Header(Request(c).id, Request(c).pdu) \in AllRequests
<1> DEFINE b == caller[c].b
           i == caller[c].i
           r == Work[c][b][i]
<1>1. b \in 1..Len(Work[c]) /\ i \in 1..Len(Work[c][b])
  BY DEF ControlOK, CallerOK
<1>2. r = Request(c)
  BY DEF Request
<1>3. IsRequestHeader(r.pdu)
  BY <1>1 DEF Deployment
<1>4. Header(r.id, r.pdu) \in AllRequests
  <2> HIDE DEF b, i
  <2> QED BY <1>1 DEF AllRequests, Header, Count
<1> QED BY <1>2, <1>3, <1>4

\* A transaction starts with the request, and for a write with the client's values.
LEMMA StartPrepared ==
    ASSUME Deployment, RInv, NEW c \in Callers, Start(c)
    PROVE  Prepared'
<1> DEFINE r == Request(c)
           h == r.pdu
           fc == GetFunctionCode(h)
           read == MultiOnRead(r.id, h)
           p == MakeWriteRequest(h, read.data)
<1>1. /\ caller[c].pc = "start" /\ UNCHANGED mem
      /\ \/ ~IsWriteToServer(fc) /\ act' = [from |-> c, id |-> r.id, pdu |-> h, fc |-> fc]
         \/ /\ IsWriteToServer(fc) /\ read.err = NoErr
            /\ act' = [from |-> c, id |-> r.id, pdu |-> p, fc |-> fc]
         \/ serve' = "outer"
  BY DEF Start
<1>2. ControlOK /\ ClientTypeOK
  BY DEF RInv, IInv
<1>3. /\ h \in Seq(Byte) /\ IsRequestHeader(h) /\ Header(r.id, h) \in AllRequests
  BY <1>1, <1>2, RequestIsHeader, RequestIsMade
<1> HIDE DEF r, h
<1>4. /\ fc \in {1, 2, 3, 4, 5, 6, 15, 16}
      /\ Count(h) \in Nat /\ Count(h) \in 1..MaxPerPacket(fc)
  BY <1>3, HeaderNumbers
<1>5. CASE ~IsWriteToServer(fc) /\ act' = [from |-> c, id |-> r.id, pdu |-> h, fc |-> fc]
  <2>1. Askable(h)
    BY <1>3, <1>4 DEF Askable
  <2>2. act'.pdu = h /\ act'.fc = fc /\ act'.id = r.id
    BY <1>5
  <2> QED BY <1>3, <1>4, <1>5, <2>1, <2>2 DEF Prepared
<1>6. CASE /\ IsWriteToServer(fc) /\ read.err = NoErr
           /\ act' = [from |-> c, id |-> r.id, pdu |-> p, fc |-> fc]
  <2> DEFINE m == mem[r.id]
  <2>1. r.id \in HandlerIDs /\ read = OnRead(m, h)
    BY <1>6 DEF MultiOnRead, ErrOther, NoErr
  <2>2. IsMemory(m)
    BY <1>2, <2>1 DEF ClientTypeOK
  <2>3. /\ p \in Seq(Byte)
        /\ GetFunctionCode(p) = fc /\ GetAddress(p) = GetAddress(h) /\ Count(p) = Count(h)
        /\ HasRange(m, p) /\ WrittenValues(p) = ValuesAsked(m, p)
    <3> HIDE DEF m
    <3>1. OnRead(m, h).err = NoErr /\ p = MakeWriteRequest(h, OnRead(m, h).data)
      BY <1>6, <2>1
    <3> HIDE DEF p
    <3> QED BY <1>3, <1>6, <2>2, <3>1, WritePrepared
  <2>4. act'.pdu = p /\ act'.fc = fc /\ act'.id = r.id /\ mem'[r.id] = m
    BY <1>1, <1>6
  <2> HIDE DEF p, m
  <2>5. Askable(p)
    BY <1>4, <2>3 DEF Askable
  <2>6. Header(r.id, p) = Header(r.id, h)
    BY <2>3 DEF Header
  <2>7. CarriesOwn(m, p)
    BY <1>4, <2>3 DEF CarriesOwn
  <2> HIDE DEF fc
  <2> QED BY <1>3, <1>4, <1>6, <2>1, <2>3, <2>4, <2>5, <2>6, <2>7 DEF Prepared
<1>7. CASE serve' = "outer"
  BY <1>7 DEF Prepared
<1> QED BY <1>1, <1>5, <1>6, <1>7

\* The request in progress, until the transaction ends.
LEMMA PreparedStep ==
    ASSUME Deployment, RInv, [Next]_vars
    PROVE  Prepared'
<1>1. Prepared
  BY DEF RInv
<1>2. CASE /\ UNCHANGED <<act, mem>>
           /\ serve' \in {"write", "read"} => serve \in {"write", "read"}
  BY <1>1, <1>2 DEF Prepared
<1>3. ASSUME NEW c \in Callers, Start(c) PROVE Prepared'
  BY <1>3, StartPrepared
<1>4. ASSUME NEW c \in Callers, Overlap(c) PROVE Prepared'
  BY <1>4 DEF Overlap, Return, Prepared
<1>5. CASE ReadReply
  BY <1>5 DEF ReadReply, EndTransaction, Prepared
<1>6. CASE ClientWrites \/ TimesOut \/ WriteFail \/ TakeReadError \/ DropUnexpected
           \/ DropOtherID \/ BadPacket \/ ExceptionReply \/ UnexpectedReply \/ WriteReply
  <2>1. CASE serve' \in {"outer", "returned", "panic"}
    BY <2>1 DEF Prepared
  <2> QED BY <1>2, <1>6, <2>1 DEF ClientWrites, WriteOk, TimesOut, Timeout, WriteFail,
          TakeReadError, Return, DropUnexpected, DropOtherID, BadPacket, ExceptionReply,
          UnexpectedReply, WriteReply, EndTransaction, Take
<1>7. CASE Reads \/ Closes
  BY <1>2, <1>7 DEF Reads, ReaderStep, ReaderRead, ReaderFail, Closes, ClosePort
<1>8. ASSUME NEW s \in Servers, ServerWorks(s) \/ ServerWrites(s) \/ ServerStops(s)
      PROVE  Prepared'
  BY <1>2, <1>8 DEF ServerWorks, ServerWrites, ServerStops, clientVars
<1>9. CASE UNCHANGED vars
  BY <1>2, <1>9 DEF vars, clientVars
<1> QED BY <1>3, <1>4, <1>5, <1>6, <1>7, <1>8, <1>9 DEF Next, Serves, TakePacket

\* All parts together.
LEMMA NextRInv == ASSUME Deployment PROVE RInv /\ [Next]_vars => RInv'
<1> SUFFICES ASSUME RInv, [Next]_vars PROVE RInv'
  OBVIOUS
<1>1. LInv'
  BY NextLInv DEF RInv
<1>2. IInv' /\ ClientTypeOK'
  BY LinkIInv
<1> QED BY <1>1, <1>2, MemoriesStep, PreparedStep, RequestedStep, QueuedStep,
        RecordedStep, RepliesStep DEF RInv

-------------------------------------------------------------------------------
(***************************************************************************)
(* Every step is one of the abstract specification, or changes nothing     *)
(* there.                                                                  *)
(***************************************************************************)
\* Who waits: nobody before a frame is written, then the caller of act.
LEMMA WhoWaits ==
    ASSUME IInv
    PROVE  /\ serve \in {"outer", "write"} => Waiting = {}
           /\ serve = "read" => Waiting = {act.from}
           /\ act.from \in Callers
<1>1. /\ act.from \in Callers
      /\ Serving => \A c \in Callers : caller[c].pc = "wait" <=> serve # "outer" /\ c = act.from
  BY DEF IInv, ControlOK, OneTransaction
<1> QED BY <1>1 DEF Waiting, Serving

\* Whoever is answered was told so, and does not wait.
LEMMA AnsweredTold ==
    ASSUME NEW c \in Callers, NEW e
    PROVE  Answered(c, e).err = e /\ Answered(c, e).pc # "wait"
BY DEF Answered

LEMMA AnswerTells ==
    ASSUME IInv, NEW e, Answer(e), act' = act
    PROVE  Told' = [Told EXCEPT ![act.from] = e] /\ Waiting' = {}
<1>1. act.from \in Callers /\ caller \in [Callers -> CallerStates]
  BY DEF IInv, ControlOK
<1>2. Answered(act.from, e).err = e /\ Answered(act.from, e).pc # "wait"
  BY <1>1, AnsweredTold
<1>3. /\ caller'[act.from] = Answered(act.from, e)
      /\ \A c \in Callers : c # act.from => caller'[c] = caller[c]
  BY <1>1 DEF Answer
<1>4. Waiting' = {}
  BY <1>2, <1>3 DEF Waiting
<1>5. Told' = [Told EXCEPT ![act.from] = e]
  BY <1>1, <1>2, <1>3 DEF Told
<1> QED BY <1>4, <1>5

\* Steps that change nothing there.
LEMMA Stutters ==
    ASSUME UNCHANGED <<written, smem, log, mem>>, Waiting' = Waiting, Told' = Told
    PROVE  UNCHANGED Abstract!vars
BY DEF Abstract!vars

LEMMA SameOutcome ==
    ASSUME UNCHANGED <<caller, act>>, serve' = "write" <=> serve = "write"
    PROVE  Waiting' = Waiting /\ Told' = Told
BY DEF Waiting, Told

\* Steps that end a transaction with an error, and those that end it before its
\* request is written.
LEMMA Fails ==
    ASSUME IInv, serve = "read", UNCHANGED <<written, smem, log, mem>>,
           NEW e \in Errors \ {NoErr},
           Told' = [Told EXCEPT ![act.from] = e], Waiting' = {}
    PROVE  Abstract!Next
<1>1. act.from \in Callers /\ act.from \in Waiting
  BY WhoWaits
<1>2. \E x \in Errors \ {NoErr} : Told' = [Told EXCEPT ![act.from] = x]
  OBVIOUS
<1>3. Abstract!Errors = Errors /\ Abstract!NoErr = NoErr
  BY DEF Abstract!Errors, Errors, Abstract!NoErr, NoErr
<1>4. Abstract!Fail(act.from)
  BY <1>1, <1>2, <1>3 DEF Abstract!Fail, Abstract!Tells
<1> QED BY <1>1, <1>4 DEF Abstract!Next

LEMMA RefusesStep ==
    ASSUME Waiting = {}, Waiting' = {}, UNCHANGED <<written, smem, log, mem>>,
           NEW c \in Callers, NEW e \in Errors \ {NoErr},
           Told' = [Told EXCEPT ![c] = e]
    PROVE  Abstract!Next
<1>1. \E x \in Errors \ {NoErr} : Told' = [Told EXCEPT ![c] = x]
  OBVIOUS
<1>2. Abstract!Errors = Errors /\ Abstract!NoErr = NoErr
  BY DEF Abstract!Errors, Errors, Abstract!NoErr, NoErr
<1>3. Abstract!Refuse(c)
  BY <1>1, <1>2 DEF Abstract!Refuse, Abstract!Tells
<1> QED BY <1>3 DEF Abstract!Next

\* The transaction in progress is answered with an error.
LEMMA EndsFailing ==
    ASSUME IInv, serve = "read", UNCHANGED <<written, smem, log, mem, act>>,
           NEW e \in Errors, e # NoErr, Answer(e)
    PROVE  Abstract!Next
BY AnswerTells, Fails

\* The request that the client writes is issued.
LEMMA IssueStep ==
    ASSUME RInv, ClientWrites
    PROVE  \E q \in AllRequests : Abstract!Issue(act.from, q)
<1> DEFINE p == act.pdu
           f == MakeRTU(act.id, p)
           q == Header(act.id, p)
           v == IF Abstract!IsWriteToServer(q.fc) THEN Abstract!Values(mem[q.id], q)
                ELSE << >>
           x == [id |-> q.id, fc |-> q.fc, address |-> q.address, count |-> q.count,
                 values |-> v]
<1>1. /\ serve = "write" /\ written' = Append(written, f)
      /\ serve' = IF act.id = 0 THEN "outer" ELSE "read"
      /\ UNCHANGED <<smem, log, mem>>
  BY DEF ClientWrites, WriteOk, EndTransaction, IsMulticast
<1>2. /\ act.fc = GetFunctionCode(p) /\ q \in AllRequests
      /\ IsWriteToServer(act.fc) => WrittenValues(p) = ValuesAsked(mem[act.id], p)
  BY <1>1 DEF RInv, Prepared, CarriesOwn
<1>3. /\ q.id = act.id /\ q.fc = GetFunctionCode(p) /\ q.address = GetAddress(p)
      /\ q.count = Count(p) /\ Asks(q, p)
  BY DEF Header, Asks
<1>4. v = WrittenValues(p)
  <2>1. Abstract!Values(mem[act.id], q) = ValuesAsked(mem[act.id], p)
    BY <1>3, SameRange
  <2>2. CASE IsWriteToServer(GetFunctionCode(p))
    BY <1>2, <1>3, <2>1, <2>2, SameCodes
  <2>3. CASE ~IsWriteToServer(GetFunctionCode(p))
    <3>1. WrittenValues(p) = << >>
      BY <2>3 DEF WrittenValues
    <3> QED BY <1>3, <2>3, <3>1, SameCodes
  <2> QED BY <2>2, <2>3
<1> HIDE DEF v, q
<1>5. DecodeRequest(f) = x
  BY <1>3, <1>4 DEF DecodeRequest, MakeRTU, Count
<1> HIDE DEF f, x
<1>6. Decoded(written') = Append(Decoded(written), x)
  <2>1. IsSeq(written)
    BY DEF RInv, LInv, Shapes
  <2> QED BY <1>1, <1>5, <2>1, DecodedAppend
<1>7. Waiting = {} /\ act.from \in Callers /\ UNCHANGED act
  BY <1>1, WhoWaits DEF RInv, ClientWrites, WriteOk
<1>8. CASE q.id = 0
  <2>1. Answer(NoErr)
    BY <1>3, <1>8 DEF ClientWrites, WriteOk, IsMulticast
  <2>2. Told' = [Told EXCEPT ![act.from] = NoErr] /\ Waiting' = {}
    BY <1>7, <2>1, AnswerTells DEF RInv
  <2>3. Abstract!NoErr = NoErr
    BY DEF Abstract!NoErr, NoErr
  <2>4. IF q.id = 0 THEN Abstract!Tells(act.from, Abstract!NoErr) /\ Waiting' = Waiting
        ELSE Waiting' = {act.from} /\ Told' = Told
    BY <1>7, <1>8, <2>2, <2>3 DEF Abstract!Tells
  <2>5. Abstract!Issue(act.from, q)
    BY <1>1, <1>6, <1>7, <2>4 DEF Abstract!Issue, Decoded, x, v
  <2> QED BY <1>2, <2>5
<1>9. CASE q.id # 0
  <2>1. UNCHANGED caller /\ serve' = "read"
    BY <1>3, <1>9 DEF ClientWrites, WriteOk, IsMulticast
  <2>2. caller[act.from].pc = "wait"
    BY <1>1, <1>7 DEF RInv, IInv, OneTransaction, Serving
  <2>3. Waiting' = {act.from} /\ Told' = Told
    BY <1>7, <2>1, <2>2 DEF Waiting, Told
  <2>4. IF q.id = 0 THEN Abstract!Tells(act.from, Abstract!NoErr) /\ Waiting' = Waiting
        ELSE Waiting' = {act.from} /\ Told' = Told
    BY <1>9, <2>3
  <2>5. Abstract!Issue(act.from, q)
    BY <1>1, <1>6, <1>7, <2>4 DEF Abstract!Issue, Decoded, x, v
  <2> QED BY <1>2, <2>5
<1> QED BY <1>8, <1>9

\* The request that a server handles is executed, or refused.
LEMMA ExecuteStep ==
    ASSUME RInv, NEW s \in Servers, ServerHandle(s), UNCHANGED clientVars
    PROVE  \E n \in 1..Len(Decoded(written)) : Abstract!Execute(s, n)
<1> DEFINE r == Head(inbox[s])
           p == r.pdu
           n == r.txn
           h == Handle(smem[s], p)
           e == Execution(r, h.reply)
           d == DecodeRequest(written[n])
           m == smem[s]
<1>1. /\ For(s, r) /\ n \in 1..Len(written) /\ n > LastTxn(s)
      /\ r = Tagged(written[n], n) /\ Askable(p)
      /\ smem' = [smem EXCEPT ![s] = h.mem]
      /\ log' = [log EXCEPT ![s] = Append(@, e)]
  BY HandleFacts
<1>2. /\ IsSeq(written) /\ IsMemory(m) /\ smem = [t \in Servers |-> smem[t]]
      /\ UNCHANGED <<written, serve, mem>>
  BY DEF RInv, LInv, Shapes, Memories, clientVars
<1>3. p = written[n].pdu /\ r.id = written[n].id
  <2>1. \A w, x : Tagged(w, x).pdu = w.pdu /\ Tagged(w, x).id = w.id
    BY DEF Tagged
  <2> HIDE DEF r
  <2> QED BY <1>1, <2>1
<1>4. /\ Asks(d, p) /\ d.id \in {0, s} /\ d.values = WrittenValues(p)
  <2>1. d.id = r.id /\ d.values = WrittenValues(p)
    BY <1>3 DEF DecodeRequest
  <2> QED BY <1>1, <1>3, <2>1, DecodedAsks DEF For
<1>5. /\ n \in 1..Len(Decoded(written)) /\ Decoded(written)[n] = d
  BY <1>1, <1>2, DecodedSeq
<1>6. n > Abstract!LastExecuted(s)
  BY <1>1 DEF LastTxn, Abstract!LastExecuted
<1>7. \/ e = [txn |-> n, ok |-> FALSE, values |-> << >>] /\ h.mem = m
      \/ /\ IsReadToServer(GetFunctionCode(p)) /\ ReadWhole(m, p, h)
         /\ e = [txn |-> n, ok |-> TRUE, values |-> ValuesAsked(m, p)]
      \/ /\ WroteAll(m, p, h)
         /\ e = [txn |-> n, ok |-> TRUE, values |-> WrittenValues(p)]
  BY <1>1, <1>2, Executed DEF Askable
<1> HIDE DEF r, p, n, h, e, d, m
<1>8. h.mem = m => smem' = smem
  BY <1>1, <1>2 DEF m
<1> DEFINE Refuses == Abstract!Logs(s, n, FALSE, << >>) /\ UNCHANGED smem
           AnswersRead == /\ Abstract!IsReadToServer(d.fc) /\ Abstract!Has(m, d)
                     /\ Abstract!Logs(s, n, TRUE, Abstract!Values(m, d))
                     /\ UNCHANGED smem
           AnswersWrite == /\ Abstract!IsWriteToServer(d.fc) /\ Abstract!Has(m, d)
                      /\ Abstract!Logs(s, n, TRUE, d.values)
                      /\ smem' = [smem EXCEPT ![s] = Abstract!Update(m, d, d.values)]
<1>9. Refuses \/ AnswersRead \/ AnswersWrite
  <2>1. CASE e = [txn |-> n, ok |-> FALSE, values |-> << >>] /\ h.mem = m
    BY <1>1, <1>8, <2>1 DEF Abstract!Logs
  <2>2. CASE /\ IsReadToServer(GetFunctionCode(p)) /\ ReadWhole(m, p, h)
             /\ e = [txn |-> n, ok |-> TRUE, values |-> ValuesAsked(m, p)]
    <3>1. HasRange(m, p) /\ h.mem = m
      BY <2>2 DEF ReadWhole
    <3>2. Abstract!Has(m, d) /\ Abstract!Values(m, d) = ValuesAsked(m, p)
      BY <1>4, <3>1, SameRange
    <3>3. Abstract!IsReadToServer(d.fc)
      BY <1>4, <2>2, SameCodes DEF Asks
    <3>4. AnswersRead
      BY <1>1, <1>8, <2>2, <3>1, <3>2, <3>3 DEF Abstract!Logs
    <3> QED BY <3>4
  <2>3. CASE /\ WroteAll(m, p, h)
             /\ e = [txn |-> n, ok |-> TRUE, values |-> WrittenValues(p)]
    <3> DEFINE v == Decode(p, GetRequestValues(p).data)
    <3>1. /\ IsWriteToServer(GetFunctionCode(p)) /\ Written(m, p, v, h.mem)
          /\ Len(v.values) = Count(p) /\ WrittenValues(p) = v.values
      BY <2>3 DEF WroteAll
    <3>2. p \in Seq(Byte) /\ Len(p) >= 3
      BY <1>1, <2>3 DEF Askable, WroteAll
    <3> HIDE DEF v
    <3>3. h.mem = Abstract!Update(m, d, d.values) /\ Abstract!Has(m, d)
      <4>1. h.mem = Updated(m, p, v.values) /\ HasRange(m, p)
        BY <1>2, <3>1, <3>2, WrittenUpdates
      <4>2. Abstract!Has(m, d) /\ Abstract!Update(m, d, v.values) = Updated(m, p, v.values)
        BY <1>4, <4>1, SameRange
      <4> QED BY <1>4, <3>1, <4>1, <4>2
    <3>4. Abstract!IsWriteToServer(d.fc)
      BY <1>4, <3>1, SameCodes DEF Asks
    <3>5. Abstract!Logs(s, n, TRUE, d.values)
      BY <1>1, <1>4, <2>3 DEF Abstract!Logs
    <3>6. AnswersWrite
      BY <1>1, <3>3, <3>4, <3>5
    <3> QED BY <3>6
  <2> QED BY <1>7, <2>1, <2>2, <2>3
<1>10. Abstract!Execute(s, n)
  <2>1. UNCHANGED <<Decoded(written), Waiting, Told, mem>>
    BY <1>2 DEF Decoded, Waiting, Told, clientVars
  <2> QED BY <1>2, <1>4, <1>5, <1>6, <1>9, <2>1 DEF Abstract!Execute, Decoded, m
<1> QED BY <1>5, <1>10

\* The reply that the client takes reports an execution of the request it waits for.
LEMMA HeldReply ==
    ASSUME Timely, RInv, serve = "read", reader = "send", GoodPacket
    PROVE  LET n == Len(written)
               f == MakeRTU(act.id, act.pdu)
           IN  /\ n \in Nat /\ n >= 1 /\ written[n] = f
               /\ Packet.pdu \in Seq(Byte)
               /\ \E k \in 1..Len(log[act.id]) :
                     log[act.id][k] = Execution(Tagged(f, n), Packet.pdu)
<1> DEFINE n == Len(written)
           f == MakeRTU(act.id, act.pdu)
<1>1. OneInFlight
  BY DEF RInv, LInv, Serving
<1>2. held.id = act.id /\ held.txn = n
  BY <1>1 DEF OneInFlight, Nowhere, Asked, Replying, Arrived, Offered, Empty, Current
<1>3. IsReply(held, written, log)
  BY DEF RInv, Replies
<1>4. n \in Nat /\ n \in 1..n
  BY <1>2, <1>3, SeqAppend DEF IsReply, RInv, LInv, Shapes
<1>5. written[n] = f
  BY DEF RInv, IInv, OneTransaction
<1>6. Packet.pdu = held.pdu
  BY DEF GoodPacket, Packet, GetPDU, ErrOther, ErrorCrc, NoErr
<1>7. held.pdu \in Seq(Byte)
  BY DEF RInv, IInv, ControlOK, Packets
<1>8. \E k \in 1..Len(log[act.id]) : log[act.id][k] = Execution(Tagged(f, n), held.pdu)
  BY <1>2, <1>3, <1>5 DEF IsReply
<1>9. n >= 1
  BY <1>4
<1> QED BY <1>4, <1>5, <1>6, <1>7, <1>8, <1>9

\* One that matches the request reports a success.
LEMMA HeldSuccess ==
    ASSUME Timely, RInv, serve = "read", reader = "send", GoodPacket, Matches
    PROVE  LET n == Len(written)
               p == act.pdu
           IN  \E k \in 1..Len(log[act.id]) :
                  log[act.id][k] =
                    [txn |-> n, ok |-> TRUE,
                     values |-> IF IsReadToServer(act.fc)
                                THEN Decode(p, GetReplyValues(Packet.pdu).data).values
                                ELSE WrittenValues(p)]
<1> DEFINE n == Len(written)
           p == act.pdu
           a == Packet.pdu
           f == MakeRTU(act.id, p)
           t == Tagged(f, n)
<1>1. PICK k \in 1..Len(log[act.id]) : log[act.id][k] = Execution(t, a)
  BY HeldReply
<1>2. t.pdu = p /\ t.txn = n
  BY DEF Tagged, MakeRTU
<1>3. act.fc = GetFunctionCode(p) /\ act.fc \in {1, 2, 3, 4, 5, 6, 15, 16}
  BY DEF RInv, Prepared
<1>4. GetFunctionCode(a) = GetFunctionCode(p)
  <2> HIDE DEF a
  <2> QED BY DEF Matches, IsRequestReply, a
<1> HIDE DEF a, t, p
<1>5. GetFunctionCode(a) \in Nat /\ GetFunctionCode(a) < 128
  BY <1>3, <1>4
<1>6. Execution(t, a) = [txn |-> n, ok |-> TRUE,
                         values |-> IF IsReadToServer(act.fc)
                                    THEN DecodeValues(p, GetReplyValues(a).data)
                                    ELSE WrittenValues(p)]
  BY <1>2, <1>3, <1>5, ReplyOk
<1>7. DecodeValues(p, GetReplyValues(a).data) = Decode(p, GetReplyValues(a).data).values
  BY DEF DecodeValues, Decode, Count
<1> QED BY <1>1, <1>6, <1>7 DEF a, p

\* The transaction ends with success, and with the values of that execution.
LEMMA Succeeds ==
    ASSUME RInv, serve = "read", UNCHANGED <<written, smem, log, act>>, Answer(NoErr),
           NEW k \in 1..Len(log[act.id]),
           log[act.id][k].txn = Len(written), log[act.id][k].ok,
           mem' = [mem EXCEPT ![act.id] =
                     Abstract!Update(@, DecodeRequest(MakeRTU(act.id, act.pdu)),
                                     log[act.id][k].values)]
    PROVE  Abstract!Next
<1> DEFINE n == Len(written)
           r == DecodeRequest(MakeRTU(act.id, act.pdu))
<1>1. IsSeq(written) /\ written # << >> /\ written[n] = MakeRTU(act.id, act.pdu)
  BY DEF RInv, LInv, Shapes, IInv, OneTransaction
<1>2. n \in Nat /\ n >= 1
  BY <1>1, SeqTail
<1>3. /\ Len(Decoded(written)) = n
      /\ \A i \in 1..n : Decoded(written)[i] = DecodeRequest(written[i])
  BY <1>1, DecodedSeq
<1>4. Decoded(written)[n] = r
  BY <1>1, <1>2, <1>3
<1>5. r.id = act.id
  BY DEF DecodeRequest, MakeRTU
<1>6. UNCHANGED Decoded(written)
  BY DEF Decoded
<1> DEFINE I == Decoded(written)
<1>7. /\ k \in 1..Len(log[r.id]) /\ log[r.id][k].txn = n /\ log[r.id][k].ok
      /\ mem' = [mem EXCEPT ![r.id] = Abstract!Update(@, r, log[r.id][k].values)]
  BY <1>5
<1> HIDE DEF r, n, I
<1>8. LET x == Len(I)
          y == I[x]
      IN  \E j \in 1..Len(log[y.id]) :
             LET e == log[y.id][j]
             IN  /\ e.txn = x /\ e.ok
                 /\ mem' = [mem EXCEPT ![y.id] = Abstract!Update(@, y, e.values)]
  BY <1>3, <1>4, <1>7 DEF I
<1>9. /\ act.from \in Callers /\ act.from \in Waiting
      /\ Told' = [Told EXCEPT ![act.from] = NoErr] /\ Waiting' = {}
  BY WhoWaits, AnswerTells DEF RInv
<1>10. Abstract!NoErr = NoErr
  BY DEF Abstract!NoErr, NoErr
<1>11. Abstract!Succeed(act.from)
  BY <1>6, <1>8, <1>9, <1>10 DEF Abstract!Succeed, Abstract!Tells, Decoded, I
<1> QED BY <1>9, <1>11 DEF Abstract!Next

\* The replies that end a transaction with success, or fail to.
LEMMA ReadReplyStep ==
    ASSUME Timely, RInv, ReadReply, UNCHANGED serverVars
    PROVE  Abstract!Next
<1> DEFINE p == act.pdu
           a == Packet.pdu
           bs == GetReplyValues(a)
           m == mem[act.id]
           o == OnWrite(m, p, bs.data)
           d == Decode(p, bs.data)
           r == DecodeRequest(MakeRTU(act.id, p))
           n == Len(written)
<1>1. /\ serve = "read" /\ reader = "send" /\ GoodPacket /\ Matches
      /\ IsReadToServer(act.fc)
      /\ UNCHANGED <<written, smem, log, act>> /\ IInv
  BY DEF ReadReply, Take, serverVars, RInv
<1>2. CASE bs.err # NoErr
  <2>1. mem' = mem /\ Answer(bs.err)
    BY <1>2 DEF ReadReply, EndTransaction
  <2>2. bs.err \in Errors
    BY KnownErrors DEF GetReplyValues
  <2> HIDE DEF bs
  <2> QED BY <1>1, <1>2, <2>1, <2>2, EndsFailing
<1>3. CASE bs.err = NoErr /\ act.id \notin HandlerIDs
  <2>1. mem' = mem /\ Answer(ErrOther)
    BY <1>3 DEF ReadReply, MultiOnWrite, EndTransaction
  <2> QED BY <1>1, <2>1, KnownErrors, EndsFailing
<1>4. CASE bs.err = NoErr /\ act.id \in HandlerIDs
  <2>1. mem' = [mem EXCEPT ![act.id] = o.mem] /\ Answer(o.err)
    BY <1>4 DEF ReadReply, MultiOnWrite, EndTransaction
  <2>2. IsMemory(m) /\ mem = [id \in HandlerIDs |-> mem[id]]
    BY <1>4 DEF RInv, ClientTypeOK, Memories
  <2>3. a \in Seq(Byte)
    BY <1>1, HeldReply
  <2>4. /\ p \in Seq(Byte) /\ act.fc = GetFunctionCode(p)
        /\ Count(p) \in 1..MaxPerPacket(GetFunctionCode(p))
        /\ IsReadToServer(GetFunctionCode(p))
    BY <1>1 DEF RInv, Prepared, Askable
  <2>5. IsRequestReply(p, a)
    BY <1>1 DEF Matches
  <2>6. PICK k \in 1..Len(log[act.id]) :
           log[act.id][k] = [txn |-> n, ok |-> TRUE, values |-> d.values]
    <3> HIDE DEF d, n
    <3> QED BY <1>1, HeldSuccess DEF d, n
  <2>7. o.err \in Errors
    BY OnWriteError
  <2> HIDE DEF p, a, m
  <2>8. Len(p) >= 3
    BY <2>4, <2>5, MatchedLen
  <2>9. CASE o.err # NoErr
    <3>1. bs.data \in Seq(Byte) /\ bs.data # << >> /\ Len(bs.data) < 65536
      <4>1. /\ bs.data \in Seq(Byte) /\ bs.data # << >>
            /\ Len(bs.data) = a[2] /\ a[2] < 256
        BY <1>4, <2>3, ReplyData
      <4>2. Len(bs.data) \in Nat
        BY <4>1
      <4> HIDE DEF bs
      <4>3. Len(bs.data) < 65536
        BY <4>1, <4>2
      <4> QED BY <4>1, <4>3
    <3> HIDE DEF bs
    <3>2. o.mem = m
      BY <2>2, <2>4, <2>8, <2>9, <3>1, OnWriteResult DEF Intact
    <3>3. mem' = mem
      <4> HIDE DEF o
      <4> QED BY <1>4, <2>1, <2>2, <3>2 DEF m
    <3> HIDE DEF o
    <3> QED BY <1>1, <2>1, <2>7, <2>9, <3>3, EndsFailing
  <2>10. CASE o.err = NoErr
    <3>1. Written(m, p, d, o.mem) /\ Len(d.values) = Count(p)
      BY <1>4, <2>2, <2>3, <2>4, <2>5, <2>10, ReplyTaken
    <3>2. Asks(r, p)
      BY DEF Asks, DecodeRequest, MakeRTU, Count
    <3> HIDE DEF d, o, r
    <3>3. o.mem = Abstract!Update(m, r, d.values)
      <4>1. o.mem = Updated(m, p, d.values)
        BY <2>2, <2>4, <2>8, <3>1, WrittenUpdates
      <4> QED BY <3>2, <4>1, SameRange
    <3>4. /\ log[act.id][k].txn = n /\ log[act.id][k].ok /\ log[act.id][k].values = d.values
      BY <2>6
    <3>5. mem' = [mem EXCEPT ![act.id] = Abstract!Update(@, r, log[act.id][k].values)]
      BY <2>1, <3>3, <3>4 DEF m
    <3>6. Answer(NoErr)
      BY <2>1, <2>10
    <3> QED BY <1>1, <3>4, <3>5, <3>6, Succeeds DEF r, p
  <2> QED BY <2>9, <2>10
<1> QED BY <1>2, <1>3, <1>4

\* A write that succeeds leaves the client what it sent.
LEMMA WriteReplyStep ==
    ASSUME Timely, RInv, WriteReply, UNCHANGED serverVars
    PROVE  Abstract!Next
<1> DEFINE p == act.pdu
           m == mem[act.id]
           r == DecodeRequest(MakeRTU(act.id, p))
           n == Len(written)
<1>1. /\ serve = "read" /\ reader = "send" /\ GoodPacket /\ Matches
      /\ ~IsReadToServer(act.fc) /\ Answer(NoErr)
      /\ UNCHANGED <<written, smem, log, mem, act>>
  BY DEF WriteReply, Take, EndTransaction, serverVars
<1>2. /\ p \in Seq(Byte) /\ act.fc \in {1, 2, 3, 4, 5, 6, 15, 16}
      /\ IsWriteToServer(act.fc) => act.id \in HandlerIDs /\ CarriesOwn(m, p)
  BY <1>1 DEF RInv, Prepared, Askable
<1>3. act.id \in HandlerIDs /\ CarriesOwn(m, p)
  BY <1>1, <1>2 DEF IsReadToServer, IsWriteToServer
<1>4. Len(p) >= 3
  BY <1>1, <1>2, MatchedLen DEF Matches
<1>5. IsMemory(m) /\ mem = [id \in HandlerIDs |-> mem[id]]
  BY <1>3 DEF RInv, ClientTypeOK, Memories
<1>6. Asks(r, p)
  BY DEF Asks, DecodeRequest, MakeRTU, Count
<1>7. PICK k \in 1..Len(log[act.id]) :
         log[act.id][k] = [txn |-> n, ok |-> TRUE, values |-> WrittenValues(p)]
  BY <1>1, HeldSuccess
<1> HIDE DEF p, m, r
<1>8. Abstract!Update(m, r, WrittenValues(p)) = m
  <2>1. WrittenValues(p) = ValuesAsked(m, p) /\ Updated(m, p, ValuesAsked(m, p)) = m
    BY <1>2, <1>3, <1>4, <1>5, UpdateSame DEF CarriesOwn
  <2> QED BY <1>6, <2>1, SameRange
<1>9. /\ log[act.id][k].txn = n /\ log[act.id][k].ok
      /\ log[act.id][k].values = WrittenValues(p)
  BY <1>7
<1>10. mem' = [mem EXCEPT ![act.id] = Abstract!Update(@, r, log[act.id][k].values)]
  BY <1>1, <1>3, <1>5, <1>8, <1>9 DEF m
<1> QED BY <1>1, <1>9, <1>10, Succeeds DEF r, p

\* Every step of the link.
LEMMA ServesRefines ==
    ASSUME Timely, RInv, Serves
    PROVE  [Abstract!Next]_Abstract!vars
<1>1. UNCHANGED serverVars /\ UNCHANGED <<written, smem, log>> /\ IInv
  BY Silent DEF RInv, serverVars
<1>2. caller \in [Callers -> CallerStates]
  BY <1>1 DEF IInv, ControlOK
<1>3. ASSUME NEW c \in Callers, Start(c) PROVE [Abstract!Next]_Abstract!vars
  <2> DEFINE e == MultiOnRead(Request(c).id, Request(c).pdu).err
  <2>1. UNCHANGED mem /\ serve = "outer"
    BY <1>3 DEF Start
  <2>2. Waiting = {}
    BY <1>1, <2>1, WhoWaits
  <2>3. e \in Errors
    BY MultiErrors
  <2>4. \/ serve' = "write" /\ caller' = [caller EXCEPT ![c].pc = "wait"]
        \/ /\ e # NoErr /\ caller' = [caller EXCEPT ![c] = Answered(c, e)]
           /\ UNCHANGED <<serve, act>>
    BY <1>3 DEF Start
  <2> HIDE DEF e
  <2>5. CASE serve' = "write" /\ caller' = [caller EXCEPT ![c].pc = "wait"]
    <3>1. Waiting' = {}
      BY <2>5 DEF Waiting
    <3>2. \A x \in Callers : caller'[x].err = caller[x].err
      BY <1>2, <2>5 DEF CallerStates
    <3>3. Told' = Told
      BY <3>2 DEF Told
    <3> QED BY <1>1, <2>1, <2>2, <3>1, <3>3, Stutters
  <2>6. CASE /\ e # NoErr /\ caller' = [caller EXCEPT ![c] = Answered(c, e)]
             /\ UNCHANGED <<serve, act>>
    <3>1. Answered(c, e).err = e /\ Answered(c, e).pc # "wait"
      BY AnsweredTold
    <3>2. /\ caller'[c] = Answered(c, e)
          /\ \A x \in Callers : x # c => caller'[x] = caller[x]
      BY <1>2, <2>6
    <3>3. Told' = [Told EXCEPT ![c] = e]
      BY <3>1, <3>2 DEF Told
    <3>4. Waiting' = {}
      BY <2>2, <2>6, <3>1, <3>2 DEF Waiting
    <3> QED BY <1>1, <2>1, <2>2, <2>3, <2>6, <3>3, <3>4, RefusesStep
  <2> QED BY <2>4, <2>5, <2>6
<1>4. ASSUME NEW c \in Callers, Overlap(c) PROVE [Abstract!Next]_Abstract!vars
  <2> DEFINE f == act.from
  <2>1. /\ serve = "read" /\ UNCHANGED <<mem, act>> /\ caller[c].pc = "start"
        /\ caller' = [caller EXCEPT ![f] = Answered(f, ErrOther), ![c].pc = "wait"]
    BY <1>4 DEF Overlap, Return
  <2>2. f \in Callers /\ f # c
    BY <1>1, <2>1 DEF IInv, ControlOK, OneTransaction, Serving
  <2>3. Answered(f, ErrOther).err = ErrOther /\ Answered(f, ErrOther).pc # "wait"
    BY <2>2, AnsweredTold
  <2> HIDE DEF f
  <2>4. /\ caller'[f] = Answered(f, ErrOther)
        /\ \A x \in Callers : x # f => caller'[x].err = caller[x].err
    BY <1>2, <2>1, <2>2 DEF CallerStates
  <2>5. Told' = [Told EXCEPT ![f] = ErrOther]
    BY <2>2, <2>3, <2>4 DEF Told
  <2>6. Waiting' = {}
    BY <2>1, <2>3, <2>4 DEF Waiting, f
  <2>7. ErrOther \in Errors \ {NoErr}
    BY KnownErrors
  <2> QED BY <1>1, <2>1, <2>5, <2>6, <2>7, Fails DEF f
<1>5. CASE WriteFail
  <2>1. serve = "write" /\ Answer(ErrOther) /\ UNCHANGED <<mem, act>>
    BY <1>5 DEF WriteFail
  <2>2. Waiting = {} /\ act.from \in Callers
    BY <1>1, <2>1, WhoWaits
  <2>3. Told' = [Told EXCEPT ![act.from] = ErrOther] /\ Waiting' = {}
    BY <1>1, <2>1, AnswerTells
  <2>4. ErrOther \in Errors \ {NoErr}
    BY KnownErrors
  <2> QED BY <1>1, <2>1, <2>2, <2>3, <2>4, RefusesStep
<1>6. CASE TakeReadError \/ DropUnexpected \/ DropOtherID
  <2>1. UNCHANGED <<mem, caller, act>> /\ serve # "write" /\ serve' # "write"
    BY <1>6 DEF TakeReadError, Return, DropUnexpected, DropOtherID, Take
  <2> QED BY <1>1, <2>1, SameOutcome, Stutters
<1>7. CASE BadPacket
  <2>1. serve = "read" /\ UNCHANGED <<mem, act>> /\ Answer(Packet.err) /\ Packet.err # NoErr
    BY <1>7 DEF BadPacket, Take, EndTransaction
  <2>2. Packet.err \in Errors
    BY KnownErrors DEF Packet, GetPDU
  <2> QED BY <1>1, <2>1, <2>2, EndsFailing
<1>8. CASE UnexpectedReply
  <2>1. serve = "read" /\ UNCHANGED <<mem, act>> /\ Answer(ErrOther)
    BY <1>8 DEF UnexpectedReply, Take, EndTransaction
  <2> QED BY <1>1, <2>1, KnownErrors, EndsFailing
<1>9. CASE ExceptionReply
  <2>1. serve = "read" /\ UNCHANGED <<mem, act>> /\ GoodPacket
    BY <1>9 DEF ExceptionReply, Take
  <2>2. CASE serve' = "panic" /\ UNCHANGED caller
    BY <1>1, <2>1, <2>2, SameOutcome, Stutters
  <2>3. CASE Answer(ServerError(Packet.pdu[2]))
    <3>1. ServerError(Packet.pdu[2]) \in Errors /\ ServerError(Packet.pdu[2]) # NoErr
      BY <1>1, <1>9, <2>1, ExceptionIsError
    <3> QED BY <1>1, <2>1, <2>3, <3>1, EndsFailing
  <2> QED BY <1>9, <2>2, <2>3 DEF ExceptionReply, EndTransaction
<1>10. CASE ReadReply
  BY <1>1, <1>10, ReadReplyStep
<1>11. CASE WriteReply
  BY <1>1, <1>11, WriteReplyStep
<1> QED BY <1>3, <1>4, <1>5, <1>6, <1>7, <1>8, <1>9, <1>10, <1>11 DEF Serves, TakePacket

LEMMA RefinesStep ==
    ASSUME Timely
    PROVE  RInv /\ [Next]_vars => [Abstract!Next]_Abstract!vars
<1> SUFFICES ASSUME RInv, [Next]_vars PROVE [Abstract!Next]_Abstract!vars
  OBVIOUS
<1>1. CASE ClientWrites
  <2>1. act.from \in Callers
    BY WhoWaits DEF RInv
  <2> QED BY <1>1, <2>1, IssueStep DEF Abstract!Next
<1>2. ASSUME NEW s \in Servers, ServerWorks(s) PROVE [Abstract!Next]_Abstract!vars
  <2>1. CASE ServerHandle(s)
    <3>1. \E n \in 1..Len(Decoded(written)) : Abstract!Execute(s, n)
      BY <1>2, <2>1, ExecuteStep DEF ServerWorks
    <3> QED BY <3>1 DEF Abstract!Next, Decoded
  <2>2. CASE ServerDrop(s)
    <3>1. UNCHANGED <<written, smem, log, mem, caller, act, serve>>
      BY <1>2, <2>2 DEF ServerWorks, ServerDrop, clientVars
    <3> QED BY <3>1, SameOutcome, Stutters
  <2> QED BY <1>2, <2>1, <2>2 DEF ServerWorks
<1>3. ASSUME NEW s \in Servers, ServerWrites(s) \/ ServerStops(s)
      PROVE  [Abstract!Next]_Abstract!vars
  <2>1. UNCHANGED <<written, smem, log, mem, caller, act, serve>>
    BY <1>3 DEF ServerWrites, ServerReply, ServerStops, ServerStop, clientVars
  <2> QED BY <2>1, SameOutcome, Stutters
<1>4. CASE TimesOut
  <2>1. serve = "read" /\ UNCHANGED <<written, smem, log, mem, act>>
        /\ Answer(ErrServerTimeOut)
    BY <1>4 DEF TimesOut, Timeout, EndTransaction, serverVars
  <2> QED BY <2>1, KnownErrors, EndsFailing DEF RInv
<1>5. CASE Reads \/ Closes \/ UNCHANGED vars
  <2>1. UNCHANGED <<written, smem, log, mem, caller, act, serve>>
    BY <1>5 DEF Reads, ReaderStep, ReaderRead, ReaderFail, Closes, ClosePort,
       vars, clientVars, serverVars
  <2> QED BY <2>1, SameOutcome, Stutters
<1> QED BY <1>1, <1>2, <1>3, <1>4, <1>5, ServesRefines DEF Next

\* The first state.
LEMMA InitRefines == Init => Abstract!Init
<1> SUFFICES ASSUME Init PROVE Abstract!Init
  OBVIOUS
<1>1. Waiting = {} /\ Told = [c \in Callers |-> NoErr]
  BY DEF Init, ClientInit, Waiting, Told
<1>2. Abstract!NoErr = NoErr
  BY DEF Abstract!NoErr, NoErr
<1> QED BY <1>1, <1>2 DEF Init, ClientInit, ServerInit, Abstract!Init

\* For any callers, any requests that MakeRequestHeader makes, any servers and any
\* memories, on a bus that may lose any packet at any receiver, with servers and a
\* port that may fail at any point: if the client's timeout is longer than a server
\* can take, the client and the servers implement Transactions.  A caller that is
\* told nil, for a read or a write, had its request executed exactly once, by the
\* server it addressed, and a read moved the values of that moment; a request that
\* ends with an error left the client's copy alone (rtu_client.go:148-254,
\* rtu_server.go).
THEOREM LinkImplementsTransactions ==
    ASSUME Timely, Deployment PROVE Spec => ImplementsTransactions
<1>1. Init => RInv
  BY InitRInv
<1>2. RInv /\ [Next]_vars => RInv'
  BY NextRInv
<1>3. RInv /\ [Next]_vars => [Abstract!Next]_Abstract!vars
  BY RefinesStep
<1>4. Init => Abstract!Init
  BY InitRefines
<1> QED BY <1>1, <1>2, <1>3, <1>4, PTL DEF Spec, ImplementsTransactions, Abstract!Spec
===============================================================================
