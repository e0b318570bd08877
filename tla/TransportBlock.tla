--------------------------- MODULE TransportBlock ---------------------------
(***************************************************************************)
(* The transport block of a shared channel transmission: its size and       *)
(* modulation from a DCI (pdsch_tbs.c), its redundancy version (pdsch.c),   *)
(* and the handler that is initialised for each block and kept by the       *)
(* decoder from one block to the next (pdsch_block.c).  The handler is a    *)
(* record of the fields of struct lte_pdsch_blk; bits are left out, and     *)
(* whether a cyclic redundancy check holds is the caller's choice.          *)
(***************************************************************************)
EXTENDS DciFormats, BlockSizes

ZMax == 6144
CrcLen == 24            \* L_CRC
MinA == 16
MaxA == 75376
MaxC == 13
MaxG == 86400
MaxE == 28800           \* of the rate matcher

-----------------------------------------------------------------------------
(* Size, modulation and redundancy version.                                *)

\* RNTIs of system information, paging and random access
IsCommon(rnti) == rnti \in {65534, 65535} \/ rnti <= 10

\* mod_table_1: modulation order and I_TBS; the last three have no size
ModOrder(mcs) ==
    CASE mcs \in 0..9 \cup {29} -> 2 [] mcs \in 10..16 \cup {30} -> 4 [] mcs \in 17..28 \cup {31} -> 6

\* lte_tbs_format1a_val
SizeIndexOf(mcs) ==
    CASE mcs \in 0..9 -> mcs [] mcs \in 10..16 -> mcs - 1 [] mcs \in 17..28 -> mcs - 2 [] OTHER -> -1

TbsFormat1a(mcs, prbs) ==
    IF SizeIndexOf(mcs) < 0 \/ prbs \notin 1..110 THEN -1 ELSE Format1aTable[SizeIndexOf(mcs) + 1][prbs]

\* lte_tbs_get_mod_order
TbsGetModOrder(dci) ==
    CASE IsCommon(dci.rnti) -> 2
      [] ~IsCommon(dci.rnti) /\ GetMod(dci) \in 0..31 -> ModOrder(GetMod(dci))
      [] OTHER -> -1

\* tbs_get_si: a bit of the power control field selects the column
TbsGetSi(dci) ==
    CASE dci.type = "1a" ->
            LET mcs == GetVal(dci, "mod")
                column == 2 + (GetVal(dci, "tpc") % 2)
            IN IF mcs \in 0..26 THEN Format1aTable[mcs + 1][column] ELSE -1
      [] dci.type = "1c" -> Format1cTable[GetVal(dci, "blk_size") + 1]
      [] OTHER -> -1

\* lte_tbs_get
TbsGet(dci, prbs) ==
    IF IsCommon(dci.rnti) THEN TbsGetSi(dci)
    ELSE IF GetMod(dci) \in 0..28 THEN TbsFormat1a(GetMod(dci), prbs) ELSE -1

\* pdsch_get_rv
GetRv(dci, frame) ==
    CASE dci.type \in {"1", "1a", "1b", "1d", "2"} -> GetVal(dci, "rv")
      [] dci.type = "2a" -> GetVal(dci, "rv_1")
      [] dci.type = "1c" /\ dci.rnti = 65535 -> LET k == (frame \div 2) % 4 IN ((3 * k + 1) \div 2) % 4
      [] dci.type = "1c" /\ dci.rnti # 65535 -> 0
      [] OTHER -> -1

-----------------------------------------------------------------------------
(* The handler.                                                            *)

\* lte_pdsch_blk_alloc
EmptyBlock ==
    [A |-> 0, G |-> 0, N_l |-> 0, Q_m |-> 0, B |-> 0, C |-> 0, F |-> 0,
     K |-> [r \in 1..MaxC |-> 0], E |-> [r \in 1..MaxC |-> 0]]

\* lte_interlv_k, counted from 1
InterlvK(i) ==
    CASE i \in 1..60    -> 32 + 8 * i
      [] i \in 61..92   -> 512 + 16 * (i - 60)
      [] i \in 93..124  -> 1024 + 32 * (i - 92)
      [] i \in 125..188 -> 2048 + 64 * (i - 124)

Segments(B) == IF B <= ZMax THEN 1 ELSE (B + ZMax - CrcLen - 1) \div (ZMax - CrcLen)

\* The computation of lte_pdsch_blk_init_c: the larger and the smaller size,
\* how many there are of each, and the filler bits
Segmentation(B) ==
    LET C     == Segments(B)
        total == IF C = 1 THEN B ELSE B + C * CrcLen
        fits  == {i \in 1..188 : C * InterlvK(i) >= total}
        i     == CHOOSE n \in fits : \A other \in fits : n <= other
        large == InterlvK(i)
        small == IF C = 1 THEN 0 ELSE InterlvK(i - 1)
        few   == IF C = 1 THEN 0 ELSE (C * large - total) \div (large - small)
    IN IF fits = {} \/ (C > 1 /\ i = 1) THEN [C |-> 0]
       ELSE [C |-> C, large |-> large, small |-> small, few |-> few,
             F |-> (C - few) * large + few * small - total]

\* lte_pdsch_blk_init_c and lte_pdsch_blk_init_d, whose lengths are K + 4
InitC(blk) ==
    LET s == Segmentation(blk.B)
        set == [blk EXCEPT !.C = s.C, !.F = s.F]
        Size(r) == IF s.C = 1 THEN blk.B ELSE IF r <= s.few THEN s.small ELSE s.large
    IN CASE s.C = 0 -> [rc |-> -1, blk |-> blk]
         [] s.C = 1 /\ s.F # 0 -> [rc |-> -1, blk |-> set]
         [] OTHER -> [rc |-> 0, blk |-> [set EXCEPT !.K = [r \in 1..MaxC |-> IF r <= s.C THEN Size(r) ELSE @[r]]]]

\* Variant of SegmentBits: the segments are all as short as the first one.
SegmentBitsShort(blk, nl, qm, r) == nl * qm * ((blk.G \div (nl * qm)) \div blk.C)

\* lte_pdsch_blk_init_e: the bits of each segment
SegmentBits(blk, nl, qm, r) ==
    LET symbols == blk.G \div (nl * qm)
        longer  == symbols % blk.C
    IN IF r <= blk.C - longer THEN nl * qm * (symbols \div blk.C)
       ELSE nl * qm * ((symbols + blk.C - 1) \div blk.C)

SumUpTo(f, n) == LET sum[r \in 0..n] == IF r = 0 THEN 0 ELSE sum[r - 1] + f[r] IN sum[n]

InitE(blk, nl, qm) ==
    LET E == [r \in 1..MaxC |-> IF r <= blk.C THEN SegmentBits(blk, nl, qm, r) ELSE blk.E[r]]
    IN IF SumUpTo(E, blk.C) # blk.G THEN [rc |-> -2, blk |-> [blk EXCEPT !.E = E]]
       ELSE [rc |-> 0, blk |-> [blk EXCEPT !.E = E, !.N_l = nl, !.Q_m = qm]]

\* Variant of Initialised: the number of physical bits is not compared.
InitialisedForSize(blk, A, G, nl, qm) == blk.A = A /\ blk.N_l = nl /\ blk.Q_m = qm

\* "if ((tblk->A == A) && (tblk->G == G) && ...) return 0"
Initialised(blk, A, G, nl, qm) == blk.A = A /\ blk.G = G /\ blk.N_l = nl /\ blk.Q_m = qm

\* lte_pdsch_blk_init; a return code of -2 is exit(1).  What has been set before
\* a failure stays set.
BlkInit(blk, A, G, nl, qm) ==
    LET a == [blk EXCEPT !.A = A]
        b == [a EXCEPT !.B = A + CrcLen]
        c == InitC(b)
        f == [c.blk EXCEPT !.G = G]
    IN CASE Initialised(blk, A, G, nl, qm) -> [rc |-> 0, blk |-> blk]
         [] ~Initialised(blk, A, G, nl, qm) /\ A \notin MinA..MaxA -> [rc |-> -1, blk |-> blk]
         [] ~Initialised(blk, A, G, nl, qm) /\ A \in MinA..MaxA ->
            (CASE (A + CrcLen) % 8 # 0 -> [rc |-> -1, blk |-> b]
               [] (A + CrcLen) % 8 = 0 /\ c.rc < 0 -> c
               [] (A + CrcLen) % 8 = 0 /\ c.rc = 0 /\ G \notin 1..MaxG -> [rc |-> -1, blk |-> c.blk]
               [] OTHER -> InitE(f, nl, qm))

\* What lte_pdsch_blk_decode needs of the segments before any check can hold:
\* the rate matcher takes at most MAX_E bits and the decoder sizes of the table
CanDecode(blk) == \A r \in 1..blk.C : blk.E[r] \in 1..MaxE /\ blk.K[r] \in 40..ZMax

\* Where lte_pdsch_blk_combine writes segment r, in bytes, and how many
SegmentStart(blk, r) == LET size == [s \in 1..MaxC |-> (blk.K[s] - CrcLen) \div 8] IN SumUpTo(size, r - 1)
SegmentBytes(blk, r) == IF blk.C = 1 THEN blk.K[r] \div 8 ELSE (blk.K[r] - CrcLen) \div 8
=============================================================================
