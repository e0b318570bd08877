---------------------------- MODULE ControlBlock ----------------------------
(***************************************************************************)
(* A block of control information: its bits with a masked check, in a tail-  *)
(* biting code, in a number of soft bits (pdcch_block.c, pbch_block.c), the  *)
(* master information block (pbch.c), and the scrambling sequences (gold.c,  *)
(* and where they are seeded).  A Gold register is the set of its bits that  *)
(* are one.                                                                *)
(***************************************************************************)
EXTENDS ConvolutionalCode, RateMatching, Checksum, Modulation

CrcBits == 16           \* L_CRC16
MaxBlockA == 51         \* MAX_A and MAX_E of pdcch_block.c
MaxBlockE == 576
PbchD == 40
PbchE == 480

-----------------------------------------------------------------------------
(* Scrambling sequences.                                                   *)

\* gold_shift, for one register with its feedback taps
GoldShift(reg, taps) ==
    {i - 1 : i \in reg \ {0}} \cup (IF Cardinality(reg \cap taps) % 2 = 1 THEN {30} ELSE {})

Taps0 == {0, 3}
Taps1 == {0, 1, 2, 3}

\* The two registers, moved on by n places with the bits read off on the way
GoldStart(init) == [x |-> {0}, y |-> {b \in 0..30 : (init \div 2^b) % 2 = 1}, out |-> << >>]
Moved(regs, n) ==
    LET run[i \in 0..n] ==
            IF i = 0 THEN regs
            ELSE LET old == run[i - 1]
                 IN [x |-> GoldShift(old.x, Taps0), y |-> GoldShift(old.y, Taps1),
                     out |-> Append(old.out, IF (0 \in old.x) = (0 \in old.y) THEN 0 ELSE 1)]
    IN run[n]

\* The same in pieces, each from the value of the one before
Piece == 40
Pieces(regs, n) ==
    LET after[i \in 0..n] ==
            IF i = 0 THEN regs ELSE CHOOSE m \in {Moved(old, Piece) : old \in {after[i - 1]}} : TRUE
    IN after[n]

\* init_regs: 1600 places, whose bits are not used
InitRegs(init) == [Pieces(GoldStart(init), 1600 \div Piece) EXCEPT !.out = << >>]

\* lte_gen_gold_seq
GoldSeq(init, len) == SubSeq(Pieces(InitRegs(init), (len + Piece - 1) \div Piece).out, 1, len)

\* DecoderPDSCH::generateSequences, and gen_scram_seq of pdsch.c
PcfichSeed(cell, sf) == (sf + 1) * (2 * cell + 1) * 512 + cell
PdcchSeed(cell, sf)  == sf * 512 + cell
PdschSeed(cell, sf, rnti) == rnti * 16384 + sf * 512 + cell

-----------------------------------------------------------------------------
(* Decoding of a block.                                                    *)

\* lte_pdcch_blk_init
BlockAccepted(A, E) == A \in 0..MaxBlockA /\ E \in 0..MaxBlockE

\* The code of lte_pdcch_blk_chan_decode and lte_pbch_blk_chan_decode
ControlCode(K) ==
    [n |-> 3, k |-> 7, len |-> K, rgen |-> 0, gen |-> <<91, 121, 117>>, punc |-> {}, term |-> "tail_biting"]

\* lte_pdcch_blk_rate_unmatch: the soft bits of a coded bit are added up in a
\* signed char, and the three streams are taken in turn.  A sum of -128 on the
\* way would be taken for a null from then on; sums are clear of it here.
SumOf(set, soft) ==
    LET idx == SelectSeq([i \in 1..Len(soft) |-> i], LAMBDA i: i \in set)
        sum[i \in 0..Len(idx)] == IF i = 0 THEN 0 ELSE Int8(sum[i - 1] + soft[idx[i]])
    IN sum[Len(idx)]

RateUnmatch(m, soft) ==
    LET places == Unmatched(m, Len(soft))
    IN [s \in 1..3 |-> [i \in 1..m.D |->
            IF <<s, i - 1>> \in DOMAIN places THEN SumOf(places[<<s, i - 1>>], soft) ELSE 0] \o << >>] \o << >>

BlockWord(K, soft) ==
    LET d == RateUnmatch(ConvMatcher(K), soft)
    IN [j \in 1..(3 * K) |-> d[((j - 1) % 3) + 1][((j - 1) \div 3) + 1]] \o << >>

\* The check in front and the one carried, as sets of bits
Computed(c) == Crc16Gen(SubSeq(c, 1, Len(c) - CrcBits))
Carried(c)  == Crc16Pack(SubSeq(c, Len(c) - CrcBits + 1, Len(c)))

\* lte_pdcch_blk_crc
PdcchBlkCrc(c, rnti) == Computed(c) = XorSet(Carried(c), BitsOf(rnti))

\* lte_pbch_blk_crc: the number of antennas, 0 for none
PbchBlkCrc(c) ==
    CASE Computed(c) = Carried(c) -> 1
      [] Computed(c) = XorSet(Carried(c), BitsOf(65535)) -> 2
      [] Computed(c) = XorSet(Carried(c), BitsOf(21845)) -> 4
      [] OTHER -> 0

-----------------------------------------------------------------------------
(* Master information block.                                               *)

MibBandwidths == <<6, 15, 25, 50, 75, 100>>
NoMib == [ant |-> 0]

\* pbch_unpack; -1 leaves the caller's structure alone
Number(bits, from, n) == LET v[i \in 0..n] == IF i = 0 THEN 0 ELSE 2 * v[i - 1] + bits[from + i] IN v[n]

PbchUnpack(bits, ant, frame) ==
    LET n == Number(bits, 0, 3)
    IN IF Len(bits) # PbchD \/ frame \notin 0..3 \/ n > 5 THEN NoMib
       ELSE [ant |-> ant, rbs |-> MibBandwidths[n + 1], fn |-> 4 * Number(bits, 6, 8) + frame,
             phich_dur |-> bits[4], phich_ng |-> Number(bits, 4, 2)]

\* pbch_descramble for quarter n of a sequence.  The array of pbch_decode has the
\* first quarter alone, so stack goes on with what lies behind it.
Quarters == 4
PbchDescramble(in, stack, n) ==
    [i \in 1..PbchE |-> Int8(in[i] * (2 * stack[n * PbchE + i] - 1))] \o << >>

\* The end of pbch_decode, after the word of quarter n: one that is accepted is
\* unpacked and, whatever that says, reported as a success
PbchDecode(word, n) ==
    LET ant == PbchBlkCrc(word)
    IN IF ant = 0 THEN [success |-> 0, mib |-> NoMib] ELSE [success |-> 1, mib |-> PbchUnpack(word, ant, n)]
=============================================================================
