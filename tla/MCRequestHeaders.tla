--------------------------- MODULE MCRequestHeaders ---------------------------
(***************************************************************************)
(* Arguments for the splitting loop: reads and writes of bits and of       *)
(* registers, single writes and a code that is not supported; ranges that  *)
(* are empty, small, larger than one packet, that end at either side of    *)
(* the largest address; limits of zero, small, at and past the protocol's, *)
(* and those that MaxPerPacketSized gives for packets of some sizes.       *)
(***************************************************************************)
EXTENDS RequestHeaders

MCCodes == {1, 3, 6, 7, 15, 16}
MCAddresses == {0, 5, 65410, 65534, 65535}
MCQuantities == {0, 1, 2, 123, 124, 125, 126, 130, 250}
MCLimits == {0, 1, 7, 123, 125, 126, 2000}
            \cup {MaxPerPacketSized(f, size) : f \in {1, 3, 15, 16}, size \in {20, 300}}
===============================================================================
