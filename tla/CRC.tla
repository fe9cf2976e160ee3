---------------------------------- MODULE CRC ----------------------------------
(***************************************************************************)
(* The checksum of an RTU frame (crc/crc.go, crc/rtu.go): the two tables   *)
(* of the code, and, as the reference, the polynomial of the Modbus        *)
(* standard that every other device on the line computes with.  A byte     *)
(* that the code finds at index i is at i + 1.                             *)
(***************************************************************************)
EXTENDS Integers, Sequences

LOCAL INSTANCE Bitwise
LOCAL INSTANCE SequencesExt

crcHighBytes == <<
    0, 193, 129, 64, 1, 192, 128, 65, 1, 192, 128, 65, 0, 193, 129, 64,
    1, 192, 128, 65, 0, 193, 129, 64, 0, 193, 129, 64, 1, 192, 128, 65,
    1, 192, 128, 65, 0, 193, 129, 64, 0, 193, 129, 64, 1, 192, 128, 65,
    0, 193, 129, 64, 1, 192, 128, 65, 1, 192, 128, 65, 0, 193, 129, 64,
    1, 192, 128, 65, 0, 193, 129, 64, 0, 193, 129, 64, 1, 192, 128, 65,
    0, 193, 129, 64, 1, 192, 128, 65, 1, 192, 128, 65, 0, 193, 129, 64,
    0, 193, 129, 64, 1, 192, 128, 65, 1, 192, 128, 65, 0, 193, 129, 64,
    1, 192, 128, 65, 0, 193, 129, 64, 0, 193, 129, 64, 1, 192, 128, 65,
    1, 192, 128, 65, 0, 193, 129, 64, 0, 193, 129, 64, 1, 192, 128, 65,
    0, 193, 129, 64, 1, 192, 128, 65, 1, 192, 128, 65, 0, 193, 129, 64,
    0, 193, 129, 64, 1, 192, 128, 65, 1, 192, 128, 65, 0, 193, 129, 64,
    1, 192, 128, 65, 0, 193, 129, 64, 0, 193, 129, 64, 1, 192, 128, 65,
    0, 193, 129, 64, 1, 192, 128, 65, 1, 192, 128, 65, 0, 193, 129, 64,
    1, 192, 128, 65, 0, 193, 129, 64, 0, 193, 129, 64, 1, 192, 128, 65,
    1, 192, 128, 65, 0, 193, 129, 64, 0, 193, 129, 64, 1, 192, 128, 65,
    0, 193, 129, 64, 1, 192, 128, 65, 1, 192, 128, 65, 0, 193, 129, 64 >>

crcLowBytes == <<
    0, 192, 193, 1, 195, 3, 2, 194, 198, 6, 7, 199, 5, 197, 196, 4,
    204, 12, 13, 205, 15, 207, 206, 14, 10, 202, 203, 11, 201, 9, 8, 200,
    216, 24, 25, 217, 27, 219, 218, 26, 30, 222, 223, 31, 221, 29, 28, 220,
    20, 212, 213, 21, 215, 23, 22, 214, 210, 18, 19, 211, 17, 209, 208, 16,
    240, 48, 49, 241, 51, 243, 242, 50, 54, 246, 247, 55, 245, 53, 52, 244,
    60, 252, 253, 61, 255, 63, 62, 254, 250, 58, 59, 251, 57, 249, 248, 56,
    40, 232, 233, 41, 235, 43, 42, 234, 238, 46, 47, 239, 45, 237, 236, 44,
    228, 36, 37, 229, 39, 231, 230, 38, 34, 226, 227, 35, 225, 33, 32, 224,
    160, 96, 97, 161, 99, 163, 162, 98, 102, 166, 167, 103, 165, 101, 100, 164,
    108, 172, 173, 109, 175, 111, 110, 174, 170, 106, 107, 171, 105, 169, 168, 104,
    120, 184, 185, 121, 187, 123, 122, 186, 190, 126, 127, 191, 125, 189, 188, 124,
    180, 116, 117, 181, 119, 183, 182, 118, 114, 178, 179, 115, 177, 113, 112, 176,
    80, 144, 145, 81, 147, 83, 82, 146, 150, 86, 87, 151, 85, 149, 148, 84,
    156, 92, 93, 157, 95, 159, 158, 94, 90, 154, 155, 91, 153, 89, 88, 152,
    136, 72, 73, 137, 75, 139, 138, 74, 78, 142, 143, 79, 141, 77, 76, 140,
    68, 132, 133, 69, 135, 71, 70, 134, 130, 66, 67, 131, 65, 129, 128, 64 >>

Reset == [high |-> 255, low |-> 255]

WriteByte == [c \in [low : 0..255, high : 0..255], b \in 0..255 |->
    LET idx == c.low ^^ b
    IN  [low |-> c.high ^^ crcHighBytes[idx + 1], high |-> crcLowBytes[idx + 1]]]

Write(c, bs) == FoldLeft(LAMBDA d, b : WriteByte[d, b], c, bs)

Sum(bs) == LET c == Write(Reset, bs) IN bs \o <<c.low, c.high>>

CrcValidate(bs) == Len(bs) > 2 /\ bs = Sum(SubSeq(bs, 1, Len(bs) - 2))

(***************************************************************************)
(* The reference: the remainder of the division by x^16 + x^15 + x^2 + 1,  *)
(* least significant bit first, from 16#FFFF#.                             *)
(***************************************************************************)
Polynomial == 40961     \* 16#A001#

ShiftOut(r) == IF r % 2 = 1 THEN (r \div 2) ^^ Polynomial ELSE r \div 2

DivideByte(b) == [r \in 0..65535 |->
    LET step[k \in 0..8] == IF k = 0 THEN r ^^ b ELSE ShiftOut(step[k - 1])
    IN  step[8]]

ReferenceSum(bs) ==
    LET r == FoldLeft(LAMBDA d, b : DivideByte(b)[d], 65535, bs)
    IN  bs \o <<r % 256, r \div 256>>

\* Every entry of the two tables is the polynomial's remainder of its index.
ASSUME TablesArePolynomial ==
    \A i \in 0..255 :
       crcHighBytes[i + 1] + 256 * crcLowBytes[i + 1] = DivideByte(i)[0]
================================================================================
