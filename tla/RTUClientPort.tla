---------------------------- MODULE RTUClientPort -----------------------------
(***************************************************************************)
(* RTUClient on a port that delivers any packets at any time: replies that *)
(* come early, late, twice, from the wrong server, damaged or not at all.  *)
(* It bounds their number, and Arrivals their choice; a behaviour of it is *)
(* one of AnyPortSpec, about which RTUClientProofs proves its theorems.    *)
(***************************************************************************)
EXTENDS RTUClient

CONSTANTS
    Arrivals,       \* what the packetReader may return
    MaxArrivals     \* bound on the packets delivered in one behaviour

ASSUME PortAssumption == Arrivals \subseteq Packets /\ MaxArrivals \in Nat

VARIABLE arrivals   \* packets delivered so far

vars == <<clientVars, arrivals>>

Init == ClientInit /\ arrivals = 0

Deliver(f) ==
    /\ open
    /\ arrivals < MaxArrivals
    /\ arrivals' = arrivals + 1
    /\ Delivers(f)

Client == ClientNext /\ UNCHANGED arrivals

Next == Client \/ \E f \in Arrivals : Deliver(f)

Spec == Init /\ [][Next]_vars

\* The goroutines of the client are scheduled, and the timer of a transaction
\* fires; the wire owes nothing.
Fairness == /\ WF_vars(ServeStep /\ UNCHANGED arrivals)
            /\ WF_vars(ReaderStep /\ UNCHANGED arrivals)

FairSpec == Spec /\ Fairness
===============================================================================
