----------------------------- MODULE FailoverConn -----------------------------
(***************************************************************************)
(* FailoverSerialConn (failover.go): a connection that listens to both     *)
(* directions of a shared bus and stays quiet while its twin answers.  A   *)
(* connection is a record c; an operation maps it to the connection after  *)
(* it and to what the caller sees.  Each runs under the lock, so that it   *)
(* is one step; Write of an active failover server, which sleeps without   *)
(* the lock, is two.                                                       *)
(*                                                                         *)
(* The code compares ages with three delays and nothing else, so an age is *)
(* only known to be past its delay or not: requestTime against MissDelay,  *)
(* lastRead against PrimaryDisconnectDelay, startTime against              *)
(* PrimaryForceBackDelay.  The zero time of lastRead is long ago.          *)
(***************************************************************************)
EXTENDS Modbus

CONSTANTS
    PrimaryMissesMax,   \* MissesMax of a primary, by default 2
    FailoverMissesMax   \* and of a failover, by default 4

ASSUME MissesAssumption == {PrimaryMissesMax, FailoverMissesMax} \subseteq Nat

RequestTimes == {"zero", "recent", "missed"}

Conns == [isFailover : BOOLEAN, isActive : BOOLEAN, requestTime : RequestTimes,
          reqPacket : Seq(Byte), misses : Nat, disconnected : BOOLEAN,
          forceBack : BOOLEAN]

NewFailoverConn(isFailover) ==
    [isFailover |-> isFailover, isActive |-> FALSE, requestTime |-> "zero",
     reqPacket |-> << >>, misses |-> 0, disconnected |-> TRUE, forceBack |-> FALSE]

\* Mutant: the failover does not wait for longer than the primary.
MissesMaxSame(c) == PrimaryMissesMax

MissesMax(c) == IF c.isFailover THEN FailoverMissesMax ELSE PrimaryMissesMax

resetRequestTime(c) == [c EXCEPT !.requestTime = "zero", !.reqPacket = << >>]

setLastReqTime(c, pdu) == [c EXCEPT !.requestTime = "recent", !.reqPacket = pdu]

\* Only misses > MissesMax is asked, so that counting on past it changes nothing.
CountMiss(c) == [c EXCEPT !.misses = IF @ > MissesMax(c) THEN @ ELSE @ + 1]

\* Mutant: misses are counted and never acted on.
incMissesOnly(c, pdu) == setLastReqTime(CountMiss(c), pdu)

incMisses(c, pdu) ==
    LET d == CountMiss(c)
    IN  IF d.misses > MissesMax(c) THEN [d EXCEPT !.isActive = TRUE]
        ELSE setLastReqTime(d, pdu)

(***************************************************************************)
(* Time passes.                                                            *)
(***************************************************************************)
\* reqPacket is compared with a packet only before MissDelay has passed.
MissDelayPasses(c) ==
    IF c.requestTime = "recent"
    THEN [c EXCEPT !.requestTime = "missed", !.reqPacket = << >>] ELSE c
\* Only a primary asks for the other two.
PrimaryDisconnectDelayPasses(c) ==
    [MissDelayPasses(c) EXCEPT !.disconnected = @ \/ ~c.isFailover]
PrimaryForceBackDelayPasses(c) == [c EXCEPT !.forceBack = ~c.isFailover]

(***************************************************************************)
(* Read of a server, for the packet f that the PacketReader returned: the  *)
(* packet is returned too, or the loop reads again.  lastRead is set when  *)
(* Read returns.                                                           *)
(***************************************************************************)
Returns(c) == [conn |-> [c EXCEPT !.disconnected = FALSE], returns |-> TRUE]
ReadsAgain(c) == [conn |-> c, returns |-> FALSE]

ForcedBack(c) ==
    IF ~c.isFailover /\ c.forceBack THEN [c EXCEPT !.isActive = TRUE] ELSE c

Disconnected(c) == [c EXCEPT !.isActive = FALSE, !.forceBack = FALSE]

ActiveFailoverRead(c, pdu) ==
    IF c.requestTime = "zero" THEN Returns(setLastReqTime(c, pdu))
    ELSE ReadsAgain(resetRequestTime([c EXCEPT !.isActive = FALSE, !.misses = 0]))

\* Mutant: a passive connection keeps the requests to itself.
PassiveReadWithholds(c, pdu) ==
    IF c.requestTime = "zero" THEN ReadsAgain(setLastReqTime(c, pdu))
    ELSE IF c.requestTime = "missed" THEN Returns(incMisses(c, pdu))
    ELSE IF IsRequestReply(c.reqPacket, pdu)
    THEN ReadsAgain([resetRequestTime(c) EXCEPT !.misses = 0])
    ELSE Returns(incMisses(setLastReqTime(c, pdu), pdu))

PassiveRead(c, pdu) ==
    IF c.requestTime = "zero" THEN Returns(setLastReqTime(c, pdu))
    ELSE IF c.requestTime = "missed" THEN Returns(incMisses(c, pdu))
    ELSE IF IsRequestReply(c.reqPacket, pdu)
    THEN ReadsAgain([resetRequestTime(c) EXCEPT !.misses = 0])
    ELSE Returns(incMisses(setLastReqTime(c, pdu), pdu))

\* What is left of serverRead once an active primary has been dealt with.
Listen(c, f) ==
    LET p == GetPDU(f)
    IN  IF p.err # NoErr THEN ReadsAgain([c EXCEPT !.misses = 0])
        ELSE IF f.id = 0 THEN Returns(resetRequestTime(c))
        ELSE IF c.isActive THEN ActiveFailoverRead(c, p.pdu)
        ELSE PassiveRead(c, p.pdu)

serverRead(c, f) ==
    LET d == ForcedBack(c)
    IN  IF d.isFailover \/ ~d.isActive THEN Listen(d, f)
        ELSE IF d.disconnected THEN Listen(Disconnected(d), f)
        ELSE Returns(d)

(***************************************************************************)
(* Read of a client.                                                       *)
(***************************************************************************)
IsReply(c, pdu) == c.requestTime = "recent" /\ IsRequestReply(c.reqPacket, pdu)

\* Mutant: a failover that hears another client stays active.
clientReadStays(c, f) ==
    LET p == GetPDU(f)
        d == [c EXCEPT !.misses = 0, !.disconnected = FALSE]
    IN  IF p.err # NoErr THEN d
        ELSE IF IsReply(c, p.pdu) THEN resetRequestTime(d)
        ELSE setLastReqTime(d, p.pdu)

clientRead(c, f) ==
    LET p == GetPDU(f)
        d == [c EXCEPT !.misses = 0, !.disconnected = FALSE]
    IN  IF p.err # NoErr THEN d
        ELSE IF IsReply(c, p.pdu) THEN resetRequestTime(d)
        ELSE LET e == setLastReqTime(d, p.pdu)
             IN  IF c.isFailover THEN [e EXCEPT !.isActive = FALSE] ELSE e

(***************************************************************************)
(* Write.  What a passive side writes is dropped, without an error.        *)
(***************************************************************************)
\* A primary that heard nothing for long goes passive, and after its delay
\* active again.
PrimaryWrite(c) ==
    LET d == IF c.disconnected THEN [c EXCEPT !.isActive = FALSE] ELSE c
    IN  IF ~d.isActive /\ d.forceBack
        THEN [d EXCEPT !.isActive = TRUE, !.forceBack = FALSE] ELSE d

\* Mutant: one more write is dropped than MissesMax says.
clientWriteLate(c, pdu) ==
    LET d == IF c.isFailover THEN c ELSE PrimaryWrite(c)
        e == IF d.isActive THEN d
             ELSE IF d.misses > MissesMax(d) THEN [d EXCEPT !.isActive = TRUE]
             ELSE [d EXCEPT !.misses = @ + 1]
    IN  IF e.isActive THEN setLastReqTime(e, pdu) ELSE e

clientWrite(c, pdu) ==
    LET d == IF c.isFailover THEN c ELSE PrimaryWrite(c)
        e == IF d.isActive THEN d
             ELSE IF d.misses >= MissesMax(d) THEN [d EXCEPT !.isActive = TRUE]
             ELSE [d EXCEPT !.misses = @ + 1]
    IN  IF e.isActive THEN setLastReqTime(e, pdu) ELSE e

\* Mutant: the primary sleeps too.
SleepsBeforeWriteBoth(c) == c.isActive

SleepsBeforeWrite(c) == c.isActive /\ c.isFailover

serverWrite(c) == IF c.isActive THEN resetRequestTime(c) ELSE c
===============================================================================
