---------------------------- MODULE ResourceGrid ----------------------------
(***************************************************************************)
(* The time and frequency grid of a slot: lengths and positions (slot.h,    *)
(* slot.c), where the blocks and the reference signals are found among the  *)
(* bins of the transform (ofdm.c), and which subcarriers carry references   *)
(* (ref.c).  Samples and their values are left out.                         *)
(***************************************************************************)
EXTENDS Integers, Sequences, FiniteSets, SequencesExt

RbLen == 12
SlotSymbols == 0..6
CellIds == 0..503

\* The members of a set of numbers below a bound, lowest first: of each row of
\* 24 numbers in turn
Ascending(set, bound) ==
    LET One(n) == IF n \in set /\ n < bound THEN <<n>> ELSE << >>
        Row(r) == FlattenSeq([j \in 1..24 |-> One(24 * (r - 1) + j - 1)])
    IN FlattenSeq([r \in 1..(bound + 23) \div 24 |-> Row(r)])

\* The lengths of slot.h are those of 30.72 MHz times a ratio, in sixteenths.
Sixteenths(rbs) ==
    CASE rbs = 6 -> 1 [] rbs = 15 -> 2 [] rbs = 25 -> 3 [] rbs = 50 -> 6 [] rbs = 75 -> 8 [] rbs = 100 -> 12

SlotLen(rbs) == (15360 * Sixteenths(rbs)) \div 16
SymLen(rbs)  == (2048 * Sixteenths(rbs)) \div 16
CpLen(rbs)   == (144 * Sixteenths(rbs)) \div 16
Cp0Len(rbs)  == (160 * Sixteenths(rbs)) \div 16

\* lte_sym_pos: where the cyclic prefix of symbol l begins
SymPos(rbs, l) ==
    IF l = 0 THEN Cp0Len(rbs) - CpLen(rbs)
    ELSE Cp0Len(rbs) + SymLen(rbs) + (l - 1) * (CpLen(rbs) + SymLen(rbs))


\* The samples cxvec_fft reads for symbol l (create_fft): seven inputs that
\* follow each other at a distance of CpLen + SymLen from the first one.
FftInput(rbs, l) ==
    LET first == SymPos(rbs, 0) + l * (CpLen(rbs) + SymLen(rbs))
    IN first .. first + SymLen(rbs) - 1

-----------------------------------------------------------------------------
(* Blocks.  Bin 0 is the carrier; the lower half of the band is at the end  *)
(* of the transform and a block in the middle of an odd band is split.      *)

\* The positions LTE_N*_RB* of slot.h
LowerHalf(rbs) == rbs \div 2
IsSplit(rbs, rb) == rbs % 2 = 1 /\ rb = LowerHalf(rbs)

LowerPos(rbs, rb) == SymLen(rbs) - (rbs * RbLen) \div 2 + rb * RbLen
UpperPos(rbs, rb) == 1 + rb * RbLen - (rbs * RbLen) \div 2

RbPos(rbs, rb) ==
    IF rb < LowerHalf(rbs) \/ IsSplit(rbs, rb) THEN LowerPos(rbs, rb) ELSE UpperPos(rbs, rb)

\* lte_rb_pos_mid: the first bin above the carrier
RbPosMid == 1

\* lte_sym_rb_map and lte_sym_chan_rb_map: the bins of the subcarriers of a block
RbBins(rbs, rb) == [sc \in 0..(RbLen - 1) |->
    IF IsSplit(rbs, rb) /\ sc >= RbLen \div 2 THEN RbPosMid + sc - RbLen \div 2 ELSE RbPos(rbs, rb) + sc]


-----------------------------------------------------------------------------
(* Reference signals of antennas 0 and 1, in symbols 0 and 4.               *)

\* compute_v
V(p, l) == IF (p = 0) = (l = 0) THEN 0 ELSE 3

\* gen_ref_map and gen_ak: the subcarriers, lowest first
RefSubcarriers(rbs, cell, p, l) ==
    [m \in 0..(2 * rbs - 1) |-> 6 * m + ((V(p, l) + (cell % 6)) % 6)]

\* gen_ak: which entry of the sequence for the widest band each one carries
RefEntry(rbs, m) == m + 110 - rbs

\* gen_c_init with a normal cyclic prefix
RefSeed(cell, slot, l) == 1024 * (7 * (slot + 1) + l + 1) * (2 * cell + 1) + 2 * cell + 1

\* init_ref_indices: the references of both antennas in a block of symbol 0
RefIndices(cell) ==
    LET base == (V(0, 0) + (cell % 6)) % 3 IN {base, base + 3, base + 6, base + 9}

\* lte_chk_ref
ChkRef(cell, slot, l, sc, ants) ==
    CASE (slot = 0 /\ l = 0) \/ ants = 2 -> sc \in RefIndices(cell)
      [] ants = 1 /\ (slot # 0 \/ l # 0) /\ l \in {0, 4} ->
            LET base == (V(0, l) + (cell % 6)) % 6 IN sc \in {base, base + 6}
      [] OTHER -> FALSE

-----------------------------------------------------------------------------
(* lte_extract_pilots: from a reference to the bin it is read from.         *)

PilotBin(rbs, k) ==
    IF k + RbPos(rbs, 0) >= SymLen(rbs) THEN k - (rbs * RbLen) \div 2 + RbPosMid ELSE k + RbPos(rbs, 0)


\* The virtual references that continue the first and the last one outwards
VirtualPilots(rbs, cell, p, l) ==
    LET k     == RefSubcarriers(rbs, cell, p, l)
        first == k[0] + RbPos(rbs, 0)
        last  == k[2 * rbs - 1] - (rbs * RbLen) \div 2 + RbPosMid
    IN {first - 6, first - 12, first - 18, last + 6, last + 12, last + 18}

Pilots(rbs, cell, p, l) ==
    LET k == RefSubcarriers(rbs, cell, p, l) IN {PilotBin(rbs, k[m]) : m \in DOMAIN k}

\* avg_pilots: the entries that are not zero once the four symbols are added
AveragedPilots(rbs, cell, p) ==
    UNION {Pilots(rbs, cell, p, l) \cup VirtualPilots(rbs, cell, p, l) : l \in {0, 4}}
=============================================================================
