------------------------- MODULE ResourceAllocation -------------------------
(***************************************************************************)
(* From the assignment field of a DCI to the physical resource blocks of    *)
(* each slot: the two bitmaps of Format 1, the indication values of Formats *)
(* 1A to 1D, and the mapping of virtual blocks (pdsch_riv.c, pdsch_vrb.c).  *)
(* An allocation is a record with the blocks of the even and of the odd     *)
(* slot as sequences; Refused stands for the return value -1.               *)
(***************************************************************************)
EXTENDS DciFormats, ResourceGrid

SI_RNTI == 65535
P_RNTI  == 65534

MaxRbs == 110           \* the length of prbs0 and prbs1

Refused == [blocks |-> 0]
Allocation(first, second) == [blocks |-> Len(first), even |-> first, odd |-> second]

CeilDiv(a, b) == (a + b - 1) \div b

\* lte_ra_type0_p: blocks in a resource block group
TypeZeroP(rbs) == IF rbs <= 10 THEN 1 ELSE IF rbs <= 26 THEN 2 ELSE IF rbs <= 63 THEN 3 ELSE 4

-----------------------------------------------------------------------------
(* Virtual resource blocks.                                                *)

\* lte_dist_vrb_gap; a gap of 0 is RIV_N_GAP1, of 1 RIV_N_GAP2
FirstGap(rbs) ==
    CASE rbs \in 6..10  -> CeilDiv(rbs, 2)
      [] rbs = 11       -> 4
      [] rbs \in 12..19 -> 8
      [] rbs \in 20..26 -> 12
      [] rbs \in 27..44 -> 18
      [] rbs \in 45..63 -> 27
      [] rbs \in 64..79 -> 32
      [] rbs \in 80..110 -> 48

DistVrbGap(rbs, gap) ==
    CASE gap = 0 -> FirstGap(rbs)
      [] gap = 1 /\ rbs \in 50..63  -> 9
      [] gap = 1 /\ rbs \in 64..110 -> 16
      [] OTHER -> -1

\* lte_dist_n_vrb
DistVrbs(rbs, gap) ==
    LET g == DistVrbGap(rbs, gap)
    IN CASE g < 0   -> -1
         [] gap = 0 -> 2 * (IF g < rbs - g THEN g ELSE rbs - g)
         [] gap = 1 -> (rbs \div (2 * g)) * 2 * g

\* Variant of DistPrb: the empty places are forgotten.
DistPrbNoNulls(rbs, slot, gap, vrb) ==
    LET g     == DistVrbGap(rbs, gap)
        width == IF gap = 0 THEN DistVrbs(rbs, gap) ELSE 2 * g
        rows  == CeilDiv(width, 4 * TypeZeroP(rbs)) * TypeZeroP(rbs)
        v     == vrb % width
        unit  == width * (vrb \div width)
        even  == rows * (v % 4) + v \div 4 + unit
        place == IF slot = 0 THEN even ELSE ((even + width \div 2) % width) + unit
    IN IF place < width \div 2 THEN place ELSE place + g - width \div 2

\* lte_dist_vrb_to_prb for one virtual block: an interleaver of four columns
\* whose empty places are the bottom of the second and of the last column
DistPrb(rbs, slot, gap, vrb) ==
    LET g     == DistVrbGap(rbs, gap)
        p     == TypeZeroP(rbs)
        width == IF gap = 0 THEN DistVrbs(rbs, gap) ELSE 2 * g
        rows  == CeilDiv(width, 4 * p) * p
        nulls == 4 * rows - width
        v     == vrb % width
        unit  == width * (vrb \div width)
        two   == 2 * rows * (v % 2) + v \div 2 + unit
        four  == rows * (v % 4) + v \div 4 + unit
        last  == nulls # 0 /\ v >= width - nulls
        even  == CASE last /\ v % 2 = 1 -> two - rows
                   [] last /\ v % 2 = 0 -> two - rows + nulls \div 2
                   [] nulls # 0 /\ ~last /\ v % 4 >= 2 -> four - nulls \div 2
                   [] OTHER -> four
        place == IF slot = 0 THEN even ELSE ((even + width \div 2) % width) + unit
    IN IF place < width \div 2 THEN place ELSE place + g - width \div 2


\* qsort of the blocks: each as often as it is there, the lowest first
Sorted(seq) ==
    LET Copies(b) == [k \in 1..Cardinality({i \in DOMAIN seq : seq[i] = b}) |-> b]
        below[n \in 0..MaxRbs] == IF n = 0 THEN << >> ELSE below[n - 1] \o Copies(n - 1)
    IN below[MaxRbs]

DistBlocks(rbs, slot, gap, start, n) == Sorted([i \in 1..n |-> DistPrb(rbs, slot, gap, start + i - 1)])

\* lte_local_vrb_to_prb
LocalBlocks(rbs, start, n) == Sorted([i \in 1..n |-> (start + i - 1) % rbs])

-----------------------------------------------------------------------------
(* Indication values.                                                      *)

\* The two forms a value has for a start and a length, in a band of total blocks
RivMatches(total, val, start, n) ==
    val \in {total * (n - 1) + start, total * (total - n + 1) + total - 1 - start}

\* The loops of decode_ra_type2 and decode_ra_ul_type0: the last start that
\* matches, with its shortest length.
RivSearch(total, vrbs, val) ==
    LET Lengths(start) == {n \in 1..(vrbs - start) : RivMatches(total, val, start, n)}
        starts == {start \in 0..vrbs : Lengths(start) # {}}
        start == Max(starts)
    IN IF starts = {} THEN [n |-> 0] ELSE [n |-> Min(Lengths(start)), start |-> start]


\* decode_ra_type2
DecodeType2(rbs, gap, val, dist) == RivSearch(rbs, IF dist THEN DistVrbs(rbs, gap) ELSE rbs, val)

\* decode_ra_type2_1c: starts and lengths in steps
DecodeType21c(rbs, gap, val) ==
    LET step  == IF rbs < 50 THEN 2 ELSE 4
        vrbs  == DistVrbs(rbs, gap) \div step
        found == RivSearch(vrbs, vrbs, val)
    IN IF found.n = 0 THEN found ELSE [n |-> found.n * step, start |-> found.start * step]

-----------------------------------------------------------------------------
(* Bitmaps.  Bit 1 is the most significant one.                            *)

BitAt(bmp, size, i) == (bmp \div 2^(size - i)) % 2 = 1

\* decode_ra_type0: groups of P blocks, the last one possibly shorter
Type0Blocks(rbs, bmp, size) ==
    LET p == TypeZeroP(rbs)
        Group(i) == {b \in (p * (i - 1)) .. (p * i - 1) : i = size => b < rbs}
    IN Ascending(UNION {Group(i) : i \in {k \in 1..size : BitAt(bmp, size, k)}}, p * size)


\* The shift of decode_ra_type1: blocks of subset sub beyond those of the bitmap
Type1Shift(rbs, sub, size) ==
    LET p     == TypeZeroP(rbs)
        limit == ((rbs - 1) \div p) % p
        whole == ((rbs - 1) \div (p * p)) * p
    IN CASE sub < limit -> whole + p - size
         [] sub = limit -> whole + ((rbs - 1) % p) + 1 - size
         [] sub > limit -> whole - size

\* decode_ra_type1: single blocks of one subset of the groups
Type1Blocks(rbs, sub, shifted, bmp, size) ==
    LET p     == TypeZeroP(rbs)
        shift == IF shifted = 0 THEN 0 ELSE Type1Shift(rbs, sub, size)
        Block(i) == ((i + shift) \div p) * p * p + sub * p + ((i + shift) % p)
        bits == Ascending({i \in 1..size : BitAt(bmp, size, i)}, size + 1)
    IN [k \in DOMAIN bits |-> Block(bits[k] - 1)]


-----------------------------------------------------------------------------
(* One DCI.                                                                *)

Same(blocks) == Allocation(blocks, blocks)

\* lte_decode_riv_1
DecodeRiv1(dci) ==
    IF dci.rbs <= 10 \/ GetVal(dci, "ra_header") = 0
    THEN Same(Type0Blocks(dci.rbs, GetVal(dci, "blk_assign"), Type0BmpSize(dci)))
    ELSE LET sub == Type1Sub(dci)
         IN Same(Type1Blocks(dci.rbs, sub.p, sub.shift, sub.bmp, Type1BmpSize(dci)))

\* lte_decode_riv_1c
DecodeRiv1c(dci) ==
    LET gap   == GetVal(dci, "gap")
        found == DecodeType21c(dci.rbs, gap, GetVal(dci, "blk_assign"))
    IN IF found.n = 0 THEN Refused
       ELSE Allocation(DistBlocks(dci.rbs, 0, gap, found.start, found.n),
                       DistBlocks(dci.rbs, 1, gap, found.start, found.n))

\* lte_decode_riv_1x
DecodeRiv1x(dci, dist, gap, ra) ==
    LET found == DecodeType2(dci.rbs, gap, ra, dist)
    IN IF found.n = 0 THEN Refused
       ELSE IF dist
       THEN Allocation(DistBlocks(dci.rbs, 0, gap, found.start, found.n),
                       DistBlocks(dci.rbs, 1, gap, found.start, found.n))
       ELSE Same(LocalBlocks(dci.rbs, found.start, found.n))

\* lte_decode_riv_1a: in a small band, and for paging and system information,
\* the new data indicator is the gap
DecodeRiv1a(dci) ==
    LET dist == GetVal(dci, "local_vrb") # 0
        whole == dci.rbs < 50 \/ dci.rnti \in {SI_RNTI, P_RNTI}
    IN CASE ~dist -> DecodeRiv1x(dci, FALSE, 0, GetVal(dci, "blk_assign"))
         [] dist /\ whole -> DecodeRiv1x(dci, TRUE, GetVal(dci, "ndi"), GetVal(dci, "blk_assign"))
         [] dist /\ ~whole -> DecodeRiv1x(dci, TRUE, DistGap(dci), DistRa(dci))

\* lte_decode_riv_1b and lte_decode_riv_1d
DecodeRiv1bd(dci) ==
    LET dist == GetVal(dci, "local_vrb") # 0
    IN IF dist /\ dci.rbs >= 50 THEN DecodeRiv1x(dci, TRUE, DistGap(dci), DistRa(dci))
       ELSE DecodeRiv1x(dci, dist, 0, GetVal(dci, "blk_assign"))

\* lte_decode_riv; what Format 0 returns is not read: such a DCI is not kept
DecodeRiv(dci) ==
    CASE dci.type = "1"  -> DecodeRiv1(dci)
      [] dci.type = "1a" -> DecodeRiv1a(dci)
      [] dci.type = "1c" -> DecodeRiv1c(dci)
      [] dci.type \in {"1b", "1d"} -> DecodeRiv1bd(dci)
      [] OTHER -> Refused
=============================================================================
