----------------------------- MODULE Modulation -----------------------------
(***************************************************************************)
(* Soft decisions for the symbols of QPSK, 16QAM and 64QAM, the hard ones   *)
(* for QPSK (qam.c), and the removal of scrambling (scramble.c).  A symbol  *)
(* is a pair of integers: its real and imaginary part after division by the *)
(* constellation's scale, in sixteenths (SCALE8), so that the conversion    *)
(* to a signed char is a reduction to eight bits.                           *)
(***************************************************************************)
EXTENDS Integers, Sequences

\* The cast to signed char; out of range it is undefined, and built for x86 it
\* keeps the low byte
Int8(v) == ((v + 128) % 256) - 128

Abs(v) == IF v < 0 THEN -v ELSE v

\* lte_qpsk_decode2, lte_qam16_decode and lte_qam64_decode for one part of a
\* symbol: the bits it carries
Unit == 16
QpskBits(v)  == <<Int8(v)>>
Qam16Bits(v) == <<Int8(v), Int8(2 * Unit - Abs(v))>>


Qam64Bits(v) ==
    <<Int8(v), Int8(4 * Unit - Abs(v)),
      Int8(IF Abs(v) > 4 * Unit THEN 6 * Unit - Abs(v) ELSE Abs(v) - 2 * Unit)>>


SoftPart(mod, v) == CASE mod = 2 -> QpskBits(v) [] mod = 4 -> Qam16Bits(v) [] mod = 6 -> Qam64Bits(v)

\* The loops over a vector: bits of the real and of the imaginary part
\* alternate.  A length that is no multiple of mod is refused, as is 256QAM.
SoftBits(mod, vec, len) ==
    IF mod \notin {2, 4, 6} \/ len % mod # 0 THEN << >>
    ELSE [i \in 1..len |->
            LET sym == vec[((i - 1) \div mod) + 1]
                bit == (i - 1) % mod
            IN SoftPart(mod, sym[(bit % 2) + 1])[(bit \div 2) + 1]]

\* lte_qpsk_decode: a symbol on an axis gives two zeros
HardBits(vec, len) ==
    IF len % 2 # 0 THEN << >>
    ELSE [i \in 1..len |->
            LET sym == vec[((i - 1) \div 2) + 1]
            IN IF sym[1] = 0 \/ sym[2] = 0 THEN 0 ELSE IF sym[((i - 1) % 2) + 1] > 0 THEN 0 ELSE 1]

\* lte_scramble2: soft bits change sign where the sequence is 0
Scramble2(bits, c) == [i \in DOMAIN bits |-> bits[i] * (2 * c[i] - 1)]

\* lte_scramble and lte_descramble
Scramble(bits, c) == [i \in DOMAIN bits |-> (bits[i] + c[i]) % 2]

-----------------------------------------------------------------------------
(* The symbols of 36.211, in the same unit: what a transmitter sends.       *)

Level(mod, bits) ==
    LET sign == 1 - 2 * bits[1]
    IN CASE mod = 2 -> 11 * sign
         [] mod = 4 -> Unit * sign * (2 - (1 - 2 * bits[2]))
         [] mod = 6 -> Unit * sign * (4 - (1 - 2 * bits[2]) * (2 - (1 - 2 * bits[3])))

Symbols(mod, bits) ==
    LET Part(i, first) == [j \in 1..(mod \div 2) |-> bits[mod * (i - 1) + 2 * (j - 1) + first]]
    IN [i \in 1..(Len(bits) \div mod) |-> <<Level(mod, Part(i, 1)), Level(mod, Part(i, 2))>>]
=============================================================================
