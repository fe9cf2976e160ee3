---------------------------- MODULE RequestHeaders ----------------------------
(***************************************************************************)
(* MakePDURequestHeadersSized: one call that splits a range of addresses   *)
(* into request headers of at most maxPerPacket values each.  The loop is  *)
(* a state machine, one step per iteration; address and quantity are       *)
(* uint16 and wrap as the code's do.  a0 and q0 remember the arguments the  *)
(* loop overwrites.  The slice the caller passes in is taken to be empty.  *)
(***************************************************************************)
EXTENDS Modbus

CONSTANTS Codes, Addresses, Quantities, Limits   \* the arguments tried

ASSUME ArgumentAssumption == /\ Codes \subseteq Byte
                             /\ Addresses \subseteq Uint16
                             /\ Quantities \subseteq Uint16
                             /\ Limits \subseteq Uint16

VARIABLES
    pc,             \* "check", "loop" or "done"
    fc, a0, q0,     \* the arguments, as given
    maxPerPacket,
    address, quantity, q,
    appendTO,       \* the slice built so far; nil when an error is returned
    err             \* the error returned

vars == <<pc, fc, a0, q0, maxPerPacket, address, quantity, q, appendTO, err>>

Init ==
    /\ pc = "check"
    /\ fc \in Codes
    /\ a0 \in Addresses
    /\ q0 \in Quantities
    /\ maxPerPacket \in Limits
    /\ address = a0
    /\ quantity = q0
    /\ q = maxPerPacket
    /\ appendTO = << >>
    /\ err = NoErr

Return(out, e) ==
    /\ pc' = "done"
    /\ appendTO' = out
    /\ err' = e
    /\ UNCHANGED <<fc, a0, q0, maxPerPacket, address, quantity>>

\* Mutant: the bound excludes the last range the code accepts.
OutOfRangeEarly == address + quantity >= MaxRange

OutOfRange == address + quantity > MaxRange

Check ==
    /\ pc = "check"
    /\ q' = q
    /\ \/ /\ OutOfRange
          /\ Return(<< >>, ErrOther)
       \/ /\ ~OutOfRange
          /\ pc' = "loop"
          /\ UNCHANGED <<fc, a0, q0, maxPerPacket, address, quantity, appendTO, err>>

\* Mutant: the chunk ignores the limit.
NextQUnlimited == quantity

\* The size of the next chunk: q keeps its value until the remainder is smaller.
NextQ == IF quantity < maxPerPacket THEN quantity ELSE q

Refused == MakeRequestHeader(fc, address, NextQ).err # NoErr

\* Mutant: the address advances by the limit, also after the shorter last chunk.
AdvanceByLimit ==
    /\ appendTO' = Append(appendTO, MakeRequestHeader(fc, address, NextQ).pdu)
    /\ address' = (address + maxPerPacket) % 65536
    /\ quantity' = (quantity - NextQ) % 65536

\* Mutant: the limit is subtracted from a signed quantity.
AdvanceSigned ==
    /\ appendTO' = Append(appendTO, MakeRequestHeader(fc, address, NextQ).pdu)
    /\ address' = (address + NextQ) % 65536
    /\ quantity' = quantity - maxPerPacket

Advance ==
    /\ appendTO' = Append(appendTO, MakeRequestHeader(fc, address, NextQ).pdu)
    /\ address' = (address + NextQ) % 65536
    /\ quantity' = (quantity - NextQ) % 65536

Iterate ==
    /\ pc = "loop"
    /\ quantity > 0
    /\ q' = NextQ
    /\ \/ /\ Refused
          /\ Return(<< >>, MakeRequestHeader(fc, address, NextQ).err)
       \/ /\ ~Refused
          /\ Advance
          /\ UNCHANGED <<pc, fc, a0, q0, maxPerPacket, err>>

\* Mutant: the loop runs while quantity > 1.
FinishEarly ==
    /\ pc = "loop"
    /\ quantity <= 1
    /\ q' = q
    /\ Return(appendTO, NoErr)

\* Mutant: the loop runs while quantity >= 0.
FinishNever ==
    /\ pc = "loop"
    /\ quantity < 0
    /\ q' = q
    /\ Return(appendTO, NoErr)

Finish ==
    /\ pc = "loop"
    /\ quantity = 0
    /\ q' = q
    /\ Return(appendTO, NoErr)

Next == Check \/ Iterate \/ Finish

Spec == Init /\ [][Next]_vars

\* One goroutine runs the call without blocking: it is scheduled until it ends.
FairSpec == Spec /\ WF_vars(Next)

-------------------------------------------------------------------------------
PduType == Seq(Byte)

\* Type correctness of the loop's variables: the uint16s stay in range and the
\* slice holds byte strings.
TypeOK ==
    /\ pc \in {"check", "loop", "done"}
    /\ fc \in Byte
    /\ {a0, q0, maxPerPacket, address, quantity, q} \subseteq Uint16
    /\ appendTO \in Seq(PduType)
    /\ err \in Errors

Count(p) == GetRequestCount(p).count
Stop(p) == GetAddress(p) + Count(p)      \* one past the last value of header p

\* The headers are read back with the inverse functions (modbus.go:161): each
\* starts where the one before stops, the first at a0 and the last stops where
\* the loop stands, so no value is asked for twice or left out between two
\* requests and no chunk wraps around the address space.
Tiling ==
    LET n == Len(appendTO)
    IN  /\ n > 0 => /\ GetAddress(appendTO[1]) = a0
                    /\ Stop(appendTO[n]) = address
        /\ \A i \in 1..(n - 1) :
              Stop(appendTO[i]) = GetAddress(appendTO[i + 1])

\* Every header carries the function code asked for, at least one value, and no
\* more than the caller's limit nor than the protocol's.
WithinLimits ==
    \A i \in 1..Len(appendTO) :
       /\ GetFunctionCode(appendTO[i]) = fc
       /\ Count(appendTO[i]) \in 1..maxPerPacket
       /\ Count(appendTO[i]) <= MaxPerPacket(fc)
       /\ Stop(appendTO[i]) <= MaxRange

\* A call that returns without an error returns headers for the whole range
\* [a0, a0 + q0): a split that stops early would silently read less.
CoversRange ==
    pc = "done" /\ err = NoErr =>
       IF q0 = 0 THEN appendTO = << >>
       ELSE /\ appendTO # << >>
            /\ GetAddress(appendTO[1]) = a0
            /\ Stop(appendTO[Len(appendTO)]) = a0 + q0

\* What the loop keeps between two iterations, for the proofs: the part of the
\* range still to split starts at address and ends where the whole range ends,
\* and q is the caller's limit until the last chunk.
LoopState ==
    /\ pc = "check" => /\ address = a0 /\ quantity = q0 /\ q = maxPerPacket
                       /\ appendTO = << >> /\ err = NoErr
    /\ pc = "loop" => /\ err = NoErr
                      /\ a0 + q0 <= MaxRange
                      /\ quantity > 0 => q = maxPerPacket
    /\ pc # "check" /\ err = NoErr => /\ address + quantity = a0 + q0
                                      /\ IF appendTO = << >> THEN address = a0
                                         ELSE address > a0
    /\ pc = "done" => IF err = NoErr THEN quantity = 0 ELSE appendTO = << >>

\* With a supported function and a limit the protocol allows, the call fails
\* only for a range that is out of bounds, never in the middle of a split.
FailsOnlyOutOfRange ==
    /\ pc = "done" /\ err # NoErr
    /\ maxPerPacket \in 1..MaxPerPacket(fc)
    => a0 + q0 > MaxRange

\* The loop ends for every argument, the ones it refuses included: q is never
\* zero without MakeRequestHeader failing.
Terminates == <>(pc = "done")
===============================================================================
