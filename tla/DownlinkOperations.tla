-------------------------- MODULE DownlinkOperations --------------------------
(***************************************************************************)
(* Calls into the decoding library, one after the other: which elements are  *)
(* read, what a payload grants, how words of the control, the broadcast and  *)
(* the shared channel are decoded and how a cell is recognised.  A call is a *)
(* record of the operation, its input and its output; decoders of the two    *)
(* channel codes run turn by turn, and what the turbo decoder keeps from one *)
(* block to the next is the variable left.  The inputs are what a base       *)
(* station may send; the properties compare the output with 36.211, 36.212   *)
(* and 36.213, which the repository's README names.                          *)
(***************************************************************************)
EXTENDS ControlBlock, TurboDecoder, DataRegion, ResourceAllocation, TransportBlock, SyncSignals

CONSTANTS
    ControlInputs,      \* rbs, cell, symbols of control and ng
    DataInputs,         \* rbs, cell, ants, sf, cfi and the blocks of both slots
    BroadcastCells,
    ReferenceInputs,    \* rbs, cell, slot and symbol
    PilotInputs,        \* rbs, cell and antenna
    PairInputs,         \* two symbols and the channels
    DciInputs,          \* format, mode, rbs and the values of the fields
    RivInputs,          \* rbs, start, number, and the gap of a distributed grant or -1
    BitmapInputs,       \* rbs, header and assignment of Format 1
    GrantInputs,        \* format, rnti, mcs, tpc, rv, blocks and frame
    SizeRows,           \* rows of the table, from 0
    InterleaverSizes,
    Words,              \* a code and its bits
    ControlWords,       \* bits, rnti, length, cell, sf and places received badly
    MibWords,           \* bits, antennas, cell, quarter and places received badly
    Behind,             \* what lies in memory behind the sequence of the first quarter
    SharedWords,        \* bits, modulation, version, length, cell, sf, rnti, whether
                        \* it is a segment, and places received badly
    Cfis,               \* cfi, cell, sf and places received badly
    CellsHeard,         \* n1, n2, half of the frame and places received badly
    PssTables,          \* the signs of the three sequences
    PssInputs,          \* the sequence, its place, the length and places received badly
    Seeds               \* seed and length

VARIABLES call, left
opsVars == <<call, left>>

Idle == [op |-> "idle"]
Returned(op, in, out) == [op |-> op, in |-> in, out |-> out]
Init == call = Idle /\ left = AllocTdec.bwsums

\* An operation that returns at once
Calls(op, in, out) == call = Idle /\ call' = Returned(op, in, out) /\ UNCHANGED left

-----------------------------------------------------------------------------
(* Transmission: what a base station sends and a receiver hears.  Soft bits   *)
(* are those of a symbol without noise but for the places in bad, which have  *)
(* been erased.                                                            *)

Heard(mod, bits, bad) ==
    LET soft == SoftBits(mod, Symbols(mod, bits), Len(bits))
    IN [i \in DOMAIN soft |-> IF i \in bad THEN 0 ELSE soft[i]] \o << >>

BitSeq(set, width) == [i \in 1..width |-> IF width - i \in set THEN 1 ELSE 0]

\* 36.212, 5.3.3.2, 5.3.1.1 and 5.1.1: the remainder, masked
WithCrc16(bits, mask) == bits \o BitSeq(XorSet(Remainder(bits, Generator16, 16), mask), 16)
WithCrc24(bits, generator) == bits \o BitSeq(Remainder(bits, generator, 24), 24)

\* A word of the tail-biting code: E of its scrambled bits, as they are heard
SentControl(word, from, E, seed, bad) ==
    LET K     == Len(word)
        coded == ConvEncode(ControlCode(K), word)
        m     == Matched(ConvMatcher(K), from + E)
        seq   == GoldSeq(seed, from + E)
        e     == [i \in 1..E |-> coded[3 * m[from + i][2] + m[from + i][1]]] \o << >>
    IN Heard(2, Scramble(e, SubSeq(seq, from + 1, from + E)), bad)

\* A word of the turbo code in E scrambled bits, as it is heard
LteTurbo == [k |-> 4, rgen |-> 11, gen |-> 13]
SentShared(word, mod, rv, E, seed, bad) ==
    LET coded == TurboEncode(LteTurbo, word)
        m     == TurboMatcher(Len(word) + 4, rv)
        at    == Matched(m, E)
        seq   == GoldSeq(seed, E)
        e     == [i \in 1..E |-> coded[at[i][1]][at[i][2] + 1]] \o << >>
    IN Heard(mod, Scramble(e, seq), bad)

-----------------------------------------------------------------------------
(* Elements.                                                               *)

\* A control region has one to three symbols.
ASSUME ControlAssumption ==
    \A in \in ControlInputs :
        in.rbs \in Bandwidths /\ in.cell \in CellIds /\ in.cfi \in 1..3 /\ in.ng \in 0..3

\* lte_decode_pdcch up to its search, for a band and a control region
ReadControl ==
    \E in \in ControlInputs :
        LET once == MarkPhich(MarkPcfich(NothingReserved, in.rbs, in.cell), in.rbs, in.cell, in.ng)
        IN Calls("control", in,
                 [quads |-> Extract(in.rbs, in.cell, in.cfi, once), reserve |-> once,
                  again |-> MarkPhich(once, in.rbs, in.cell, in.ng)])

\* pdcch_deinterlv for as many quadruplets
PutInOrder ==
    \E in \in ControlInputs :
        LET count  == PdcchLen(in.rbs, in.cfi, in.ng) \div 4
            From(q) == TakenFrom(ConvMatcher(count), 1, q)
            order  == Ascending({q \in 0..(InterleavedLen(count) - 1) : From(q) >= 0}, InterleavedLen(count))
            sent   == [i \in 1..count |-> From(order[((i - 1 + in.cell) % count) + 1])]
        IN Calls("order", in, Deinterleave(sent, in.cell) \o << >>)

\* The blocks of a grant ascend, as many in one slot as in the other.
ASSUME DataAssumption ==
    \A in \in DataInputs :
        /\ in.rbs \in Bandwidths /\ in.cell \in CellIds /\ in.ants \in {1, 2} /\ in.sf \in 0..9 /\ in.cfi \in 1..3
        /\ in.even \in Seq(0..(in.rbs - 1)) /\ in.odd \in Seq(0..(in.rbs - 1)) /\ Len(in.even) = Len(in.odd)
        /\ \A i, j \in 1..Len(in.even) : i < j => in.even[i] < in.even[j] /\ in.odd[i] < in.odd[j]

\* lte_decode_pdsch up to the symbols
ReadData ==
    \E in \in DataInputs :
        Calls("data", in, SharedElements(in.rbs, in.cell, in.ants, in.sf, in.cfi, in.even, in.odd))

ASSUME BroadcastAssumption == BroadcastCells \subseteq CellIds

\* lte_decode_pbch up to the symbols
ReadBroadcast == \E cell \in BroadcastCells : Calls("broadcast", cell, PbchElements(cell))

ASSUME PilotAssumption ==
    \A in \in PilotInputs : in.rbs \in Bandwidths /\ in.cell \in CellIds /\ in.ant \in {0, 1}

\* lte_subframe_convert: the transform, the references and the averages
ConvertReferences ==
    \E in \in PilotInputs :
        Calls("pilots", in,
              [bins |-> [k \in Subcarriers(in.rbs) |-> RbBins(in.rbs, k \div RbLen)[k % RbLen]],
               fft  |-> [l \in SlotSymbols |-> FftInput(in.rbs, l)],
               read |-> [l \in {0, 4} |->
                            LET k == RefSubcarriers(in.rbs, in.cell, in.ant, l)
                            IN [m \in DOMAIN k |-> PilotBin(in.rbs, k[m])]],
               averaged |-> AveragedPilots(in.rbs, in.cell, in.ant)])

\* A reference symbol of a slot: the first or the fifth
ASSUME ReferenceAssumption ==
    \A in \in ReferenceInputs : in.rbs \in Bandwidths /\ in.cell \in CellIds /\ in.slot \in 0..19 /\ in.l \in {0, 4}

\* lte_gen_ref_map: the pair of bits each reference is made of
MakeReferences ==
    \E in \in ReferenceInputs :
        LET seq == GoldSeq(RefSeed(in.cell, in.slot, in.l), 440)
            Bits(m) == <<seq[2 * RefEntry(in.rbs, m) + 1], seq[2 * RefEntry(in.rbs, m) + 2]>>
        IN Calls("references", in, [m \in 0..(2 * in.rbs - 1) |-> Bits(m)])

\* Numbers are complex, and a receiver has one antenna or two.
ASSUME PairAssumption ==
    \A in \in PairInputs :
        LET Complex == Int \X Int
        IN /\ in.x \in Complex \X Complex
           /\ in.h \in Seq(Complex \X Complex) /\ Len(in.h) \in {1, 2}

\* lte_unprecode for a pair of elements; one channel for each antenna
UndoDiversity ==
    \E in \in PairInputs :
        LET r(a) == <<Plus(Times(in.h[a][1], in.x[1]), Minus(Times(in.h[a][2], Conj(in.x[2])))),
                      Plus(Times(in.h[a][1], in.x[2]), Times(in.h[a][2], Conj(in.x[1])))>>
            h(a) == <<<<in.h[a][1], in.h[a][1]>>, <<in.h[a][2], in.h[a][2]>>>>
            alone(a) == <<Times(in.h[a][1], in.x[1]), Times(in.h[a][1], in.x[2])>>
        IN Calls("pair", in,
                 [two |-> UnprecodeTwo([a \in DOMAIN in.h |-> r(a)], [a \in DOMAIN in.h |-> h(a)]),
                  one |-> UnprecodeOne([a \in DOMAIN in.h |-> alone(a)], [a \in DOMAIN in.h |-> h(a)[1]])])

-----------------------------------------------------------------------------
(* Grants.                                                                 *)

\* lte_dci_decode and lte_dci_get_val; a payload is filled up with zeros
PayloadBits(in) ==
    LET layout == Layout(in.format, in.rbs, in.mode)
        Bits(i) == LET w == layout[i].width IN [b \in 1..w |-> (in.values[i] \div 2^(w - b)) % 2]
        bits[i \in 0..Len(layout)] == IF i = 0 THEN << >> ELSE bits[i - 1] \o Bits(i)
        used == bits[Len(layout)]
    IN used \o [i \in 1..(FormatSize(in.format, in.rbs, in.mode) - Len(used)) |-> 0]

ReadDci == \E in \in DciInputs : Calls("dci", in, DciDecode(in.rbs, in.mode, PayloadBits(in), 61))

\* lte_decode_riv for a Format 1A grant from the values of its fields
Format1aDci(rbs, local, riv, ndi) ==
    [type |-> "1a", mode |-> "fdd", rbs |-> rbs, rnti |-> 61, vals |-> <<1, local, riv, 0, 0, ndi, 0, 0, NA>>]

RivValue(rbs, start, n) ==
    IF n - 1 <= rbs \div 2 THEN rbs * (n - 1) + start ELSE rbs * (rbs - n + 1) + (rbs - 1 - start)

\* A grant that can be sent is a range of the band or of its virtual blocks, and
\* its value fits beside the gap.
ASSUME RivAssumption ==
    \A in \in RivInputs :
        /\ in.rbs \in Bandwidths /\ in.start \in Nat /\ in.n \in Nat \ {0}
        /\ in.gap \in {-1, 0} \/ (in.gap = 1 /\ in.rbs >= 50)
        /\ in.start + in.n <= IF in.gap = -1 THEN in.rbs ELSE DistVrbs(in.rbs, in.gap)
        /\ in.gap >= 0 /\ in.rbs >= 50 => RivValue(in.rbs, in.start, in.n) < 2^(BlkAssign(in.rbs) - 1)

ReadRiv ==
    \E in \in RivInputs :
        LET riv == RivValue(in.rbs, in.start, in.n)
            dci == CASE in.gap < 0 -> Format1aDci(in.rbs, 0, riv, 0)
                     [] in.gap >= 0 /\ in.rbs < 50 -> Format1aDci(in.rbs, 1, riv, in.gap)
                     [] OTHER -> Format1aDci(in.rbs, 1, riv + in.gap * 2^(BlkAssign(in.rbs) - 1), 0)
        IN Calls("riv", in, DecodeRiv(dci))

\* An assignment fills its field; in a wide band its header tells how it is read,
\* and a subset is one of those there are.
ASSUME BitmapAssumption ==
    \A in \in BitmapInputs :
        /\ in.rbs \in Bandwidths /\ in.assign \in Nat /\ in.assign < 2^Type0Ra(in.rbs)
        /\ in.header \in {0, RaHeader(in.rbs)}
        /\ in.header = 1 => in.assign \div 2^(Type0Ra(in.rbs) - (IF in.rbs <= 26 THEN 1 ELSE 2)) < TypeZeroP(in.rbs)

\* lte_decode_riv for a Format 1 grant
ReadBitmap ==
    \E in \in BitmapInputs :
        Calls("bitmap", in,
              DecodeRiv([type |-> "1", mode |-> "fdd", rbs |-> in.rbs, rnti |-> 61,
                         vals |-> <<in.header, in.assign, 0, 0, 0, 0, 0, NA>>]))

\* A grant of common information has one of the compact formats, another one a
\* scheme with a size and a number of blocks of the table.
ASSUME GrantAssumption ==
    \A in \in GrantInputs :
        /\ in.rv \in 0..3 /\ in.tpc \in 0..3 /\ in.frame \in Nat
        /\ \/ in.rnti \in {SI_RNTI, P_RNTI} /\ in.format = "1a" /\ in.mcs \in 0..26
           \/ in.rnti \in {SI_RNTI, P_RNTI} /\ in.format = "1c" /\ in.mcs \in 0..31
           \/ ~IsCommon(in.rnti) /\ in.format \in {"1", "1a"} /\ in.mcs \in 0..28 /\ in.blocks \in 1..110

\* lte_tbs_get, lte_tbs_get_mod_order and pdsch_get_rv
ReadGrant ==
    \E in \in GrantInputs :
        LET vals == CASE in.format = "1"  -> <<0, 0, in.mcs, 0, 0, in.rv, in.tpc, NA>>
                      [] in.format = "1a" -> <<1, 0, 0, in.mcs, 0, 0, in.rv, in.tpc, NA>>
                      [] in.format = "1c" -> <<NA, 0, in.mcs>>
            dci  == [type |-> in.format, mode |-> "fdd", rbs |-> 50, rnti |-> in.rnti, vals |-> vals]
        IN Calls("grant", in, [A |-> TbsGet(dci, in.blocks), mod |-> TbsGetModOrder(dci), rv |-> GetRv(dci, in.frame)])

\* The sizes of the table take whole bytes and are cut without filler.
ASSUME SizesAssumption ==
    \A row \in SizeRows, n \in 1..110 :
        LET A == Format1aTable[row + 1][n]
        IN A \in MinA..MaxA /\ (A + CrcLen) % 8 = 0 /\ Segmentation(A + CrcLen).F = 0

\* lte_pdsch_blk_init for each size of a row of the table
ReadSizes ==
    \E row \in SizeRows :
        Calls("sizes", row, {BlkInit(EmptyBlock, A, 2880, 1, 2) : A \in {Format1aTable[row + 1][n] : n \in 1..110}})

-----------------------------------------------------------------------------
(* Words.                                                                  *)

\* turbo_interleave for every place of a size
ReadInterleaver ==
    \E i \in InterleaverSizes : Calls("interleaver", i, {<<n, DeinterlvMap(i, n)>> : n \in 0..(BlockSize(i) - 1)})

\* A seed has 31 bits.
ASSUME SeedAssumption == \A in \in Seeds : in.seed \in Nat /\ in.seed \div 2^30 < 2 /\ in.len \in Nat

\* lte_gen_gold_seq
MakeSequence == \E in \in Seeds : Calls("sequence", in, GoldSeq(in.seed, in.len))

\* lte_conv_encode and lte_conv_decode for any code
StartWord ==
    /\ call = Idle
    /\ \E in \in Words :
          LET sent == ConvEncode(in.code, in.bits)
              soft == [i \in DOMAIN sent |-> IF i \in in.bad THEN 0 ELSE 20 * (2 * sent[i] - 1)]
          IN call' = [op |-> "decoding", kind |-> "word", in |-> in, dec |-> Start(in.code, soft)]
    /\ UNCHANGED left

\* lte_pdcch_blk_decode, up to the decoder
StartControlWord ==
    /\ call = Idle
    /\ \E in \in ControlWords :
          LET word == WithCrc16(in.bits, {b \in 0..15 : Bit(in.rnti, b) = 1})
              soft == Scramble2(SentControl(word, 0, in.E, in.sf * 2^9 + in.cell, in.bad),
                                GoldSeq(PdcchSeed(in.cell, in.sf), in.E)) \o << >>
              K    == Len(word)
          IN BlockAccepted(Len(in.bits), in.E) /\ call' = [op |-> "decoding", kind |-> "pdcch", in |-> in, dec |-> Start(ControlCode(K), BlockWord(K, soft))]
    /\ UNCHANGED left

\* A quarter of a master information block is sent; what lies in memory behind
\* the sequence are signed characters.
ASSUME MibAssumption ==
    /\ \A in \in MibWords : in.cell \in CellIds /\ in.ants \in {1, 2, 4} /\ in.quarter \in 0..(Quarters - 1)
    /\ \A behind \in Behind : Len(behind) = (Quarters - 1) * PbchE /\ \A i \in DOMAIN behind : behind[i] \in -128..127

\* pbch_decode for its first quarter, up to the decoder of lte_pbch_blk_decode
AntennaMask(ants) == CASE ants = 1 -> {} [] ants = 2 -> 0..15 [] ants = 4 -> {0, 2, 4, 6, 8, 10, 12, 14}
Quarter(heard, stack, n) == Start(ControlCode(PbchD), BlockWord(PbchD, PbchDescramble(heard, stack, n)))
StartMib ==
    /\ call = Idle
    /\ \E in \in MibWords, behind \in Behind :
          LET heard == SentControl(WithCrc16(in.bits, AntennaMask(in.ants)), in.quarter * PbchE, PbchE, in.cell, in.bad)
              stack == GoldSeq(in.cell, PbchE) \o behind
          IN call' = [op |-> "decoding", kind |-> "pbch", in |-> [sent |-> in, behind |-> behind], n |-> 0,
                      heard |-> heard, stack |-> stack, dec |-> Quarter(heard, stack, 0)]
    /\ UNCHANGED left

\* pbch_decode: a quarter whose check fails is followed by the next
IsRefused == call.kind = "pbch" /\ PbchBlkCrc(ConvDecode(call.dec)) = 0 /\ call.n < Quarters - 1
NextQuarter ==
    /\ call.op = "decoding" /\ Finished(call.dec) /\ IsRefused
    /\ call' = [call EXCEPT !.n = @ + 1, !.dec = Quarter(call.heard, call.stack, call.n + 1)]
    /\ UNCHANGED left

\* A turn of _conv_decode or of _traceback
AdvanceWord ==
    /\ call.op = "decoding" /\ ~Finished(call.dec)
    /\ call' = [call EXCEPT !.dec = Advance(@)]
    /\ UNCHANGED left

\* traceback, the check of the block and, for the broadcast channel, the end of
\* pbch_decode
FinishWord ==
    /\ call.op = "decoding" /\ Finished(call.dec) /\ ~IsRefused
    /\ LET c == ConvDecode(call.dec)
       IN call' = Returned(call.kind, call.in,
                     CASE call.kind = "word"  -> c
                       [] call.kind = "pdcch" -> [bits |-> SubSeq(c, 1, Len(c) - CrcBits),
                                                  rntis |-> {r \in {0, 61, 65535, call.in.rnti} : PdcchBlkCrc(c, r)}]
                       [] call.kind = "pbch"  -> PbchDecode(c, call.n))
    /\ UNCHANGED left

\* lte_pdsch_blk_decode of one segment, up to the decoder
StartShared ==
    /\ call = Idle
    /\ \E in \in SharedWords :
          LET word == WithCrc24(in.bits, IF in.segment THEN Generator24b ELSE Generator24a)
              seed == in.rnti * 2^14 + in.sf * 2^9 + in.cell
              soft == Scramble2(SentShared(word, in.mod, in.rv, in.E, seed, in.bad),
                                GoldSeq(PdschSeed(in.cell, in.sf, in.rnti), in.E)) \o << >>
          IN call' = [op |-> "turbo", in |-> in,
                      dec |-> Loaded([AllocTdec EXCEPT !.bwsums = left],
                                     RateUnmatch(TurboMatcher(Len(word) + 4, in.rv), soft))]
    /\ UNCHANGED left

AdvanceShared ==
    /\ call.op = "turbo" /\ ~DecoderDone(call.dec)
    /\ call' = [call EXCEPT !.dec = Walked(@)]
    /\ UNCHANGED left

\* Slicing, and lte_pdsch_blk_crc or lte_pdsch_blk_segment_crc; the sums stay in
\* the decoder
FinishShared ==
    /\ call.op = "turbo" /\ DecoderDone(call.dec)
    /\ left' = call.dec.bwsums
    /\ LET c     == Sliced(call.dec)
           bytes == [i \in 1..(Len(c) \div 8) |-> PackBits(c, 8 * (i - 1), 8, 8)]
           n     == Len(bytes) - 3
           front == SubSeq(bytes, 1, n)
           check == SubSeq(bytes, n + 1, n + 3)
       IN call' = Returned("shared", call.in,
                     [bits |-> SubSeq(c, 1, 8 * n),
                      ok |-> IF call.in.segment THEN Crc24bChk(front, check) ELSE Crc24aChk(front, check)])

-----------------------------------------------------------------------------
(* Recognition.                                                            *)

\* A format indicator is heard with up to four of its 32 bits wrong.
ASSUME CfiAssumption ==
    \A in \in Cfis :
        /\ in.cfi \in 1..4 /\ in.cell \in CellIds /\ in.sf \in 0..9
        /\ in.bad \in SUBSET (1..32) /\ Cardinality(in.bad) <= 4

\* lte_decode_pcfich from the symbols on
ReadCfi ==
    \E in \in Cfis :
        LET code == CfiCode(in.cfi)
            bits == [i \in 1..32 |-> IF i \in in.bad THEN 1 - code[i] ELSE code[i]]
            sent == Scramble(bits, GoldSeq((in.sf + 1) * (2 * in.cell + 1) * 2^9 + in.cell, 32)) \o << >>
        IN Calls("cfi", in,
                 CfiDecode(Scramble(HardBits(Symbols(2, sent), 32), GoldSeq(PcfichSeed(in.cell, in.sf), 32)) \o << >>))

\* The register of a cell is heard with up to seven of its 64 bits wrong.
ASSUME HeardAssumption ==
    \A in \in CellsHeard :
        /\ in.n1 \in CellGroups /\ in.n2 \in Identities /\ in.half \in HalfFrames
        /\ in.bad \in SUBSET (0..63) /\ Cardinality(in.bad) <= 7

\* lte_init, and lte_sss_detect with its table
InitReceiver == call = Idle /\ call' = [op |-> "receiver", sss |-> SssTable] /\ UNCHANGED left

DetectSss ==
    /\ call.op = "receiver"
    /\ \E in \in CellsHeard :
          LET reg == SssRegister(in.n1, in.n2, in.half)
          IN call' = Returned("sss", in, SssDetect(call.sss, in.n2, XorSet(reg, in.bad)))
    /\ UNCHANGED left

\* lte_pss_search in a channel that holds one of the sequences; those of the
\* tables are conjugated
SearchPss ==
    \E in \in PssInputs :
        LET h == PssTables[in.n2 + 1]
            Part(bit) == 2 * bit - 1
            Sent(k) == LET v == <<Part(h[k][1]), -Part(h[k][2])>> IN IF k \in in.bad THEN Minus(v) ELSE v
            heard == [i \in 1..in.len |->
                        IF i - in.at \in DOMAIN h THEN Sent(i - in.at) ELSE <<Part(i % 2), Part((i \div 2) % 2)>>] \o << >>
        IN Calls("pss", in, PssSearch(PssTables, <<heard>>))

Return == call.op \notin {"idle", "decoding", "turbo", "receiver"} /\ call' = Idle /\ UNCHANGED left

Next ==
    \/ ReadControl \/ PutInOrder \/ ReadData \/ ReadBroadcast \/ MakeReferences \/ ConvertReferences
    \/ UndoDiversity
    \/ ReadDci \/ ReadRiv \/ ReadBitmap \/ ReadGrant \/ ReadSizes
    \/ ReadInterleaver \/ MakeSequence \/ StartWord \/ StartControlWord \/ StartMib \/ NextQuarter
    \/ AdvanceWord \/ FinishWord
    \/ StartShared \/ AdvanceShared \/ FinishShared
    \/ ReadCfi \/ InitReceiver \/ DetectSss \/ SearchPss \/ Return

Spec == Init /\ [][Next]_opsVars

-----------------------------------------------------------------------------
(* What is where in a subframe (36.211, chapter 6).                        *)

Ended(op) == call.op = op

Increasing(seq, Key(_)) == \A i \in 1..(Len(seq) - 1) : Key(seq[i]) < Key(seq[i + 1])

\* References of two antennas, and of the first one alone
RefOfTwo(cell, k) == k % 3 = cell % 3
RefOfOne(cell, l, k) == k % 6 = (cell + (IF l = 0 THEN 0 ELSE 3)) % 6

\* The control symbols are tiled: references, indicators and quadruplets, which
\* are read group by group, the lowest subcarrier first, then symbol by symbol
ControlIsTiled ==
    LET in   == call.in
        quads == call.out.quads
        mark == call.out.reserve
        read == UNION {ToSet(quads[i]) : i \in DOMAIN quads}
        told == {0} \X (mark.one \cup mark.two)
        refs == {0} \X {k \in Subcarriers(in.rbs) : RefOfTwo(in.cell, k)}
        GroupPlace(q) == in.cfi * (IF q[1][1] = 0 THEN 6 * (q[1][2] \div 6) ELSE 4 * (q[1][2] \div 4)) + q[1][1]
    IN /\ \A i \in DOMAIN quads : Len(quads[i]) = 4
       /\ Increasing(quads, GroupPlace)
       /\ 4 * Len(quads) = PdcchLen(in.rbs, in.cfi, in.ng)
       /\ 4 * Len(quads) = Cardinality(read)
       /\ Cardinality(mark.one) = PcfichSymbols
       /\ Cardinality(mark.two) = 12 * PhichGroups(in.rbs, in.ng)
       /\ mark.one \cap mark.two = {}
       /\ read \cap told = {} /\ (read \cup told) \cap refs = {}
       /\ read \cup told \cup refs = (0..(in.cfi - 1)) \X Subcarriers(in.rbs)
       /\ call.out.again = mark

QuadrupletsAreInOrder == \A i \in DOMAIN call.out : call.out[i] = i - 1

\* The centre of the band, where subframes 0 and 5 carry synchronisation and
\* broadcast
InCentre(rbs, k) == k \in (6 * rbs - 36)..(6 * rbs + 35)

SharedReference(in) ==
    LET Blocks(slot) == ToSet(IF slot = 0 THEN in.even ELSE in.odd)
        Grid == {0, 1} \X SlotSymbols \X Subcarriers(in.rbs)
        IsRef(l, k) == l \in {0, 4} /\ (IF in.ants = 2 THEN RefOfTwo(in.cell, k) ELSE RefOfOne(in.cell, l, k))
    IN {e \in Grid : /\ e[3] \div RbLen \in Blocks(e[1])
                     /\ e[1] = 1 \/ e[2] >= in.cfi + (IF in.rbs <= 10 THEN 1 ELSE 0)
                     /\ ~IsRef(e[2], e[3])
                     /\ ~(HasReserved(in.sf, e[1], e[2]) /\ InCentre(in.rbs, e[3]))}

\* The blocks at the edges of the centre of an odd band, of which half is taken
HalfTaken(rbs) == IF rbs % 2 = 1 THEN {(rbs - 7) \div 2, (rbs + 5) \div 2} ELSE {}

\* Grants the extraction misreads: reserved_rb skips block 4 of 15 and reads block
\* 10 as a whole, and pairs of one antenna do not come out even in half a block.
Misread(in) ==
    \/ in.rbs = 15 /\ in.sf \in {0, 5} /\ ToSet(in.even) \cap HalfTaken(15) # {}
    \/ in.sf = 0 /\ (in.rbs = 15 \/ in.ants = 1) /\ ToSet(in.odd) \cap HalfTaken(in.rbs) # {}

SharedIsWhole ==
    LET in == call.in
        Place(e) == (7 * e[1] + e[2]) * in.rbs * RbLen + e[3]
        room == SharedLen(in.ants, Len(in.even), FirstSymbol(in.rbs, in.cfi))
    IN /\ ToSet(call.out) = SharedReference(in)
       /\ Increasing(call.out, Place)
       /\ Len(call.out) <= room
       /\ in.sf \notin {0, 5} => Len(call.out) = room

BroadcastIsWhole ==
    LET Place(e) == e[2] * PbchBlocks * RbLen + e[3]
    IN /\ ToSet(call.out) = {e \in {1} \X (0..3) \X Subcarriers(PbchBlocks) : e[2] >= 2 \/ ~RefOfTwo(call.in, e[3])}
       /\ Increasing(call.out, Place)
       /\ Len(call.out) = PbchSymbols

\* The bin of a subcarrier, the carrier being bin 0 of the transform; symbols
\* begin where the one before ends
BinOf(rbs, k) == IF k < 6 * rbs THEN SymLen(rbs) - 6 * rbs + k ELSE k - 6 * rbs + 1
SymbolStart(rbs, l) == IF l = 0 THEN 0 ELSE Cp0Len(rbs) + SymLen(rbs) + (l - 1) * (CpLen(rbs) + SymLen(rbs))

PilotsAreFound ==
    LET in == call.in
        out == call.out
        used == {BinOf(in.rbs, k) : k \in Subcarriers(in.rbs)}
    IN /\ \A k \in Subcarriers(in.rbs) : out.bins[k] = BinOf(in.rbs, k)
       /\ \A l \in SlotSymbols :
             /\ out.fft[l] \subseteq SymbolStart(in.rbs, l)..(SymbolStart(in.rbs, l + 1) - 1)
             /\ Cardinality(out.fft[l]) = SymLen(in.rbs)
       /\ SymbolStart(in.rbs, 7) = SlotLen(in.rbs)
       /\ \A l \in {0, 4}, m \in 0..(2 * in.rbs - 1) :
             out.read[l][m] = BinOf(in.rbs, 6 * m + ((V(in.ant, l) + in.cell) % 6))
       /\ out.averaged \cap used = {BinOf(in.rbs, k) : k \in {j \in Subcarriers(in.rbs) : RefOfTwo(in.cell, j)}}

\* A symbol comes back times the energy of the channels it has passed
DiversityIsUndone ==
    LET Energy(h) == h[1] * h[1] + h[2] * h[2]
        Sum(f) == IF Len(f) = 1 THEN f[1] ELSE f[1] + f[2]
        h == call.in.h
        Scaled(energy) == [k \in 1..2 |-> Times(<<energy, 0>>, call.in.x[k])]
    IN /\ call.out.two = Scaled(Sum([a \in DOMAIN h |-> Energy(h[a][1]) + Energy(h[a][2])]))
       /\ call.out.one = Scaled(Sum([a \in DOMAIN h |-> Energy(h[a][1])]))

\* Entry p of a sequence of length 31: recurrences doubled as often as fits
Far(p) == CHOOSE k \in 0..12 : 31 * 2^k <= p /\ p < 31 * 2^(k + 1)
FirstAt(p) ==
    LET x[q \in 0..p] == IF q < 31 THEN IF q = 0 THEN 1 ELSE 0
                         ELSE LET k == Far(q) IN Xor(x[q - 28 * 2^k], x[q - 31 * 2^k])
    IN x[p]
SecondAt(seed, p) ==
    LET x[q \in 0..p] == IF q < 31 THEN Bit(seed, q)
                         ELSE LET k == Far(q)
                              IN (x[q - 28 * 2^k] + x[q - 29 * 2^k] + x[q - 30 * 2^k] + x[q - 31 * 2^k]) % 2
    IN x[p]

GoldAt(seed, n) == Xor(FirstAt(n + 1600), SecondAt(seed, n + 1600))

SequenceIsShifted ==
    /\ Len(call.out) = call.in.len
    /\ \A n \in {0, 1, 30, 31, 77} \cap 0..(call.in.len - 1) : call.out[n + 1] = GoldAt(call.in.seed, n)

\* The reference in the middle of every band is the same entry
ReferencesAreOfCell ==
    LET in == call.in
        seed == 2^10 * (7 * (in.slot + 1) + in.l + 1) * (2 * in.cell + 1) + 2 * in.cell + 1
    IN \A m \in {0, in.rbs, 2 * in.rbs - 1}, part \in {0, 1} :
          call.out[m][part + 1] = GoldAt(seed, 2 * (m - in.rbs + 110) + part)

\* No element is read twice, forgotten or read for another: references,
\* indicators and quadruplets tile the control symbols for every band, cell and
\* size of the indicator channel, and the quadruplets come back in the order
\* they were made; the shared and the broadcast channel are read in full and in
\* order, but for the grants that are misread; references are looked for where
\* they are sent, and they and the scrambling sequences are those of the
\* standard; and a pair of elements gives back its symbols (extract_syms of
\* pdcch.c, pdsch.c and pbch.c, lte_gen_phich_indices, ofdm.c, ref.c, gold.c,
\* precode.c).
ElementsAreExact ==
    /\ Ended("control") => ControlIsTiled
    /\ Ended("order") => QuadrupletsAreInOrder
    /\ Ended("data") /\ ~Misread(call.in) => SharedIsWhole
    /\ Ended("broadcast") => BroadcastIsWhole
    /\ Ended("pilots") => PilotsAreFound
    /\ Ended("references") => ReferencesAreOfCell
    /\ Ended("sequence") => SequenceIsShifted
    /\ Ended("pair") => DiversityIsUndone

\* What the repository says of its bands: README.md:23 lists "Bandwidth: 1.4, 3, 5,
\* 10, and 20 MHz" and line 18 36.211, by whose section 6.4 every element of a
\* grant is read that carries neither a reference nor synchronisation or
\* broadcast.  The blocks beside the centre of 15 are not (reserved_rb of pdsch.c).
SharedChannelIsWhole == Ended("data") => SharedIsWhole

-----------------------------------------------------------------------------
(* What is granted (36.213, 7.1.6, and 36.212, 5.1.2).                     *)

\* Fields that are not read under their names: Format 1B's and 1D's second bit
\* of the precoder, and 1D's power offset, which are read as 1B's; the scheme of
\* Format 2, whose enumeration has no name for it and shifts those behind it; and
\* a header of no bits of Format 2A that is read as one.
MisreadFields(format, rbs, mode) ==
    CASE format = "1b" -> {"tpmi"}
      [] format = "1d" -> {"tpmi", "dl_pwr_offset"}
      [] format = "2"  -> {"mod", "ndi", "rv", "precoding"}
      [] format = "2a" /\ mode = "tdd" /\ rbs = 6 -> {"ra_header"}
      [] OTHER -> {}

\* A length that Formats 1B and 1D share with Format 1 is taken for Format 1's.
TakenForFormat1(in) ==
    in.format \in {"1b", "1d"} /\ FormatSize(in.format, in.rbs, in.mode) = FormatSize("1", in.rbs, in.mode)

FieldsAreNamed ==
    LET in == call.in
        layout == Layout(in.format, in.rbs, in.mode)
    IN TakenForFormat1(in)
       \/ /\ call.out.type = IF in.format = "1d" THEN "1b" ELSE in.format
          /\ \A i \in DOMAIN layout :
                layout[i].name \notin MisreadFields(in.format, in.rbs, in.mode) =>
                   GetVal(call.out, layout[i].name) = in.values[i]

\* A local grant is where it says.  The blocks of a distributed one differ in
\* each slot, and all virtual blocks fill both sides of the first gap, or the
\* lower part of the band with the second.
BlocksAreOwn ==
    LET in == call.in
        out == call.out
        gap == DistVrbGap(in.rbs, in.gap)
        half == DistVrbs(in.rbs, in.gap) \div 2
        all  == IF in.gap = 0 THEN (0..(half - 1)) \cup (gap..(gap + half - 1)) ELSE 0..(2 * half - 1)
        Own(blocks) == /\ Len(blocks) = in.n /\ Cardinality(ToSet(blocks)) = in.n
                       /\ ToSet(blocks) \subseteq 0..(in.rbs - 1)
                       /\ Increasing(blocks, LAMBDA b: b)
    IN /\ out.blocks = in.n /\ Own(out.even) /\ Own(out.odd)
       /\ in.gap < 0 => ToSet(out.even) = in.start..(in.start + in.n - 1) /\ out.odd = out.even
       /\ in.gap >= 0 /\ in.n = 2 * half => ToSet(out.even) = all /\ ToSet(out.odd) = all

\* Bits of the bitmap stand for groups, or for the blocks of one subset, counted
\* from its first block or so that its last block has the last bit
BitmapIsRead ==
    LET in   == call.in
        p    == TypeZeroP(in.rbs)
        size == Type0Ra(in.rbs)
        wide == IF in.rbs <= 26 THEN 1 ELSE 2
        sub  == in.assign \div 2^(size - wide)
        shifted == (in.assign \div 2^(size - wide - 1)) % 2 = 1
        n    == size - wide - 1
        members == Ascending({b \in 0..(in.rbs - 1) : (b \div p) % p = sub}, in.rbs)
        first == IF shifted THEN Len(members) - n ELSE 0
        Granted(b) ==
            IF in.header = 0 THEN BitAt(in.assign, size, b \div p + 1)
            ELSE \E i \in 1..n : BitAt(in.assign % 2^n, n, i) /\ first + i \in DOMAIN members /\ members[first + i] = b
    IN call.out.even = Ascending({b \in 0..(in.rbs - 1) : Granted(b)}, in.rbs) /\ call.out.odd = call.out.even

\* Schemes up to 9 are sent in QPSK, up to 16 in 16QAM, the others in 64QAM, and
\* the first of an order has the size of the last of the order before.  Common
\* information is sent in QPSK and its versions alternate from frame to frame.
GrantIsRead ==
    LET in == call.in
        mod == IF in.mcs <= 9 THEN 2 ELSE IF in.mcs <= 16 THEN 4 ELSE 6
    IN /\ IF in.rnti \in {SI_RNTI, P_RNTI}
          THEN /\ call.out.mod = 2
               /\ call.out.A = IF in.format = "1c" THEN Format1cTable[in.mcs + 1]
                               ELSE Format1aTable[in.mcs + 1][IF in.tpc % 2 = 1 THEN 3 ELSE 2]
          ELSE call.out.mod = mod /\ call.out.A = Format1aTable[in.mcs + 2 - mod \div 2][in.blocks]
       /\ call.out.rv = IF in.format # "1c" THEN in.rv
                        ELSE IF in.rnti = SI_RNTI THEN <<0, 2, 3, 1>>[((in.frame \div 2) % 4) + 1] ELSE 0

\* Segments take up the block and its check without filler, each of a size the
\* interleaver has, and are joined without a gap
SegmentsTile ==
    \A result \in call.out :
        LET blk == result.blk
            joined == IF blk.C = 1 THEN blk.K[1] ELSE SumUpTo(blk.K, blk.C) - blk.C * CrcLen
        IN /\ result.rc = 0 /\ blk.F = 0
           /\ joined = blk.A + CrcLen
           /\ \A r \in 1..blk.C : blk.K[r] \in {InterlvK(i) : i \in 1..188}
           /\ \A r \in 1..(blk.C - 1) : SegmentStart(blk, r) + SegmentBytes(blk, r) = SegmentStart(blk, r + 1)

\* A grant is read as it was meant: every block of an assignment once and in its
\* place, the modulation, the size and the version that go with it, and every
\* size of the table cut into segments that fill it (pdsch_riv.c, pdsch_vrb.c,
\* pdsch_tbs.c, lte_pdsch_blk_init).
GrantsAreRead ==
    /\ Ended("riv") => BlocksAreOwn
    /\ Ended("bitmap") => BitmapIsRead
    /\ Ended("grant") => GrantIsRead
    /\ Ended("sizes") => SegmentsTile

-----------------------------------------------------------------------------
(* What comes back of a signal or a word (36.211, 6.11 and 7.2, and 36.212,  *)
(* chapter 5).                                                             *)

\* Descrambling goes by the sequence up to the quarter that was sent
SequenceReaches(in) ==
    LET last == in.sent.quarter * PbchE
    IN SubSeq(in.behind, 1, last) = SubSeq(GoldSeq(in.sent.cell, PbchE + last), PbchE + 1, PbchE + last)

\* A word is read back although some of its soft bits are missing, whatever its
\* code: the trellis, the two turns of a tail-biting word and the way back are
\* those of its encoder.  The fields of a payload are read under their names (the
\* structures and enumerations of dci_formats.h and dci.h), but for those of
\* MisreadFields: README.md:25 lists "PDCCH formats (DCI): 0, 1, 1A, 1C, 1D, 2,
\* 2A", and those of them that the control channel is searched for are read in
\* full.  A control word is taken for that of its own RNTI only.  A master
\* information block sent in the first quarter is read with its frame; one sent
\* in another only if memory holds the sequence's continuation by chance
\* (pbch.c:348 reads past its end).  A primary sequence is found where it ends
\* (conv_dec.c, pdcch_block.c, pbch_block.c, pbch.c, conv_rate_match.c,
\* lte_pss_search).
SignalsAreReadBack ==
    /\ Ended("pss") => call.out.n_id_2 = call.in.n2 /\ call.out.coarse = call.in.at + 63
    /\ Ended("dci") => FieldsAreNamed
    /\ Ended("word") => call.out = call.in.bits
    /\ Ended("pdcch") => call.out.bits = call.in.bits /\ call.out.rntis = {call.in.rnti}
    /\ Ended("pbch") /\ SequenceReaches(call.in) =>
          LET sent == call.in.sent
              bits == sent.bits
          IN /\ call.out.success = 1
             /\ call.out.mib = [ant |-> sent.ants, rbs |-> MibBandwidths[4 * bits[1] + 2 * bits[2] + bits[3] + 1],
                                phich_dur |-> bits[4], phich_ng |-> 2 * bits[5] + bits[6],
                                fn |-> 4 * Number(bits, 6, 8) + sent.quarter]

\* A segment of the shared channel is read back, and its check holds, whatever
\* the decoder has decoded before: it keeps its sums from block to block, and
\* those it does not reset are small beside the one it does.  The interleaver of
\* every size is a permutation (turbo_dec.c:148, "We have enough headroom to not
\* clear all sums", turbo_enc.c, turbo_rate_match.c, pdsch_block.c).
SharedWordsAreReadBack ==
    /\ Ended("shared") => call.out.ok /\ call.out.bits = call.in.bits
    /\ Ended("turbo") => \A lane \in 2..8 : (call.dec.fw = <<FwInit>> => call.dec.bwsums[lane] <= SumInit \div 2)
    /\ Ended("interleaver") =>
          LET k == BlockSize(call.in)
              f == LteInterlvParams[call.in]
          IN /\ {pair[2] : pair \in call.out} = 0..(k - 1)
             /\ \A pair \in call.out : pair[2] = (((f[1] * pair[1]) % k) + ((((f[2] * pair[1]) % k) * pair[1]) % k)) % k

-----------------------------------------------------------------------------
(* Which cell it is (36.211, 6.11).                                        *)

\* Pairs (m0, m1) are numbered by their difference, then by m0
GroupNumber(m0, m1) ==
    Cardinality({pair \in (0..30) \X (1..30) : /\ pair[1] + pair[2] <= 30
                                               /\ \/ pair[2] < m1 - m0
                                                  \/ pair[2] = m1 - m0 /\ pair[1] < m0})

\* A cell is named although the register that is compared has up to seven bits
\* wrong, with the half of its frame; groups are numbered as the standard's
\* table; and the format indicator is read with up to four bits wrong
\* (lte_sss_detect, gen_m, lte_gen_sss, pcfich_decode).
CellIsNamed ==
    /\ Ended("sss") =>
          /\ GroupNumber(GenM(call.in.n1, 0), GenM(call.in.n1, 1)) = call.in.n1
          /\ call.out = [n_id_1 |-> call.in.n1, n_id_cell |-> 3 * call.in.n1 + call.in.n2, dn |-> call.in.half]
    /\ Ended("cfi") => call.out = call.in.cfi
=============================================================================
