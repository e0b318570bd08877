--------------------------- MODULE ControlRegion ---------------------------
(***************************************************************************)
(* The first symbols of a subframe: which resource elements carry the       *)
(* format indicator, the HARQ indicators and the control channel, in which  *)
(* order the control channel is read and how its quadruplets are put back   *)
(* in order (pcfich.c, phich.c, pdcch.c, pdcch_interleave.c).  An element   *)
(* is a pair of symbol and subcarrier, counted from the lowest one.         *)
(***************************************************************************)
EXTENDS ResourceGrid

PcfichSymbols == 16     \* LTE_PCFICH_LEN
CceLen == 36            \* symbols of a control channel element, 72 bits

Subcarriers(rbs) == 0..(rbs * RbLen - 1)

\* The table reserve of a subframe: the subcarriers of symbol 0 marked 1 and 2
NothingReserved == [one |-> {}, two |-> {}]
Reserved(reserve, k) == k \in reserve.one \cup reserve.two

\* Four data elements around the references, from where a reading starts;
\* none is the "Reference map fault".
QuadFrom(cell, sc) ==
    CASE sc \in RefIndices(cell)     -> <<1, 2, 4, 5>>
      [] sc + 1 \in RefIndices(cell) -> <<0, 2, 3, 5>>
      [] sc + 2 \in RefIndices(cell) -> <<0, 1, 3, 4>>
      [] OTHER -> << >>

-----------------------------------------------------------------------------
(* Format indicator.                                                       *)

\* pcfich_extract_syms: four groups of four, spread over the band
PcfichStart(rbs, cell, i) ==
    (6 * (cell % (2 * rbs)) + ((i * rbs) \div 2) * 6) % (rbs * RbLen)

PcfichElements(rbs, cell) ==
    LET Group(i) == LET k == PcfichStart(rbs, cell, i) IN
            {k + QuadFrom(cell, k % RbLen)[j] : j \in 1..4}
    IN UNION {Group(i) : i \in 0..3}

MarkPcfich(reserve, rbs, cell) ==
    LET marked == PcfichElements(rbs, cell)
    IN [one |-> reserve.one \cup marked, two |-> reserve.two \ marked]

\* Codewords of pcfich_cfi: a pattern of period three, and all zeros
CfiCode(cfi) ==
    LET pattern == CASE cfi = 1 -> <<0, 1, 1>> [] cfi = 2 -> <<1, 0, 1>> [] cfi = 3 -> <<1, 1, 0>>
                     [] cfi = 4 -> <<0, 0, 0>>
    IN [n \in 1..32 |-> pattern[((n - 1) % 3) + 1]]

\* pcfich_decode: the first codeword with fewer than five errors
CfiDecode(bits) ==
    LET Errors(cfi) == Cardinality({n \in 1..32 : bits[n] # CfiCode(cfi)[n]})
        near == {cfi \in 1..4 : Errors(cfi) < 5}
    IN IF near = {} THEN -1 ELSE CHOOSE cfi \in near : \A other \in near : cfi <= other

-----------------------------------------------------------------------------
(* HARQ indicators.                                                        *)

\* phich_grp_table and lte_phich_num_groups, for N_g in sixths
PhichSixths == <<1, 3, 6, 12>>
PhichGroups(rbs, ng) == (rbs * PhichSixths[ng + 1] + 47) \div 48

\* The elements of a group that lie around the references, by the cell's shift
PhichQuad(shift) ==
    CASE shift = 0 -> {1, 2, 4, 5} [] shift = 1 -> {0, 2, 3, 5} [] shift = 2 -> {0, 1, 3, 4}

\* One turn of lte_gen_phich_indices: the group whose number is n_bar among
\* those the format indicator has left
MarkPhichGroup(reserve, rbs, cell, nbar) ==
    LET shift == cell % 3
        free  == Ascending({q \in 0..(2 * rbs - 1) : q * 6 + shift + 1 \notin reserve.one}, 2 * rbs)
        marked == IF nbar >= Len(free) THEN {} ELSE {6 * free[nbar + 1] + j : j \in PhichQuad(shift)}
    IN [one |-> reserve.one \ marked, two |-> reserve.two \cup marked]

NBar(rbs, cell, n, i) ==
    LET length == 2 * rbs - 4 IN (cell + n + (i * length) \div 3) % length


\* lte_gen_phich_indices
MarkPhich(reserve, rbs, cell, ng) ==
    LET groups == PhichGroups(rbs, ng)
        map[t \in 0..(3 * groups)] ==
            IF t = 0 THEN reserve
            ELSE MarkPhichGroup(map[t - 1], rbs, cell, NBar(rbs, cell, (t - 1) % groups, (t - 1) \div groups))
    IN map[3 * groups]

-----------------------------------------------------------------------------
(* Control channel.                                                        *)

\* pdcch_slot_alloc: the symbols it makes room for
PdcchLen(rbs, cfi, ng) ==
    rbs * 8 - PcfichSymbols - 12 * PhichGroups(rbs, ng) + (cfi - 1) * (rbs * RbLen)

\* next_element: of the symbols' counters the smallest is served, the earliest
\* symbol in a tie, so that places are visited by subcarrier, then by symbol:
\* the symbol and the subcarrier of the n-th place in a block.
NthPlace(cfi, rb, n) == <<n % cfi, rb * RbLen + n \div cfi>>

\* Symbol 0 in pdcch_extract_syms: in the first seven places of a block, a group
\* is read where neither of two elements is reserved, and six places later the
\* next; other places are stepped over one by one.
FreePlaces(rbs, rb, reserve) ==
    {sc \in 0..6 : ~Reserved(reserve, rb * RbLen + sc) /\ ~Reserved(reserve, rb * RbLen + sc + 1)}


FirstSymbolStarts(rbs, reserve) ==
    LET Starts(rb) == LET free == FreePlaces(rbs, rb, reserve) IN
            {sc \in free : \/ \A other \in free : sc <= other
                          \/ \E other \in free : sc >= other + 6}
    IN UNION {{rb * RbLen + sc : sc \in Starts(rb)} : rb \in 0..(rbs - 1)}

\* pdcch_extract_syms: the groups in the order they are read; an empty one is
\* the "Reference map fault"
Extract(rbs, cell, cfi, reserve) ==
    LET first == FirstSymbolStarts(rbs, reserve)
        Starts(e) == IF e[1] = 0 THEN e[2] \in first ELSE e[2] % 4 = 0
        Quad(e)   == IF e[1] = 0 THEN QuadFrom(cell, e[2] % RbLen) ELSE <<0, 1, 2, 3>>
        Group(e)  == [j \in DOMAIN Quad(e) |-> <<e[1], e[2] + Quad(e)[j]>>]
        Turn(rb)  == LET starts == Ascending({n \in 0..(RbLen * cfi - 1) : Starts(NthPlace(cfi, rb, n))}, RbLen * cfi)
                     IN [i \in DOMAIN starts |-> Group(NthPlace(cfi, rb, starts[i]))]
    IN FlattenSeq([n \in 1..rbs |-> Turn(n - 1)])

-----------------------------------------------------------------------------
(* Interleaving of quadruplets.                                            *)

\* _permute_fw: the column that is read i-th
ControlColumns == <<1, 17, 9, 25, 5, 21, 13, 29, 3, 19, 11, 27, 7, 23, 15, 31,
                    0, 16, 8, 24, 4, 20, 12, 28, 2, 18, 10, 26, 6, 22, 14, 30>>

\* lte_gen_interlv_seq: entries written by rows after the padding, read by columns
InterleaverSeq(len) ==
    LET rows  == (len + 31) \div 32
        shift == rows * 32 - len
        Read(i) == 32 * (i % rows) + ControlColumns[(i \div rows) + 1] - shift
        kept  == Ascending({i \in 0..(rows * 32 - 1) : Read(i) >= 0}, rows * 32)
    IN [n \in DOMAIN kept |-> Read(kept[n])]

\* cyclic_shift and lte_alloc_pdcch_deinterlv
DeinterleaverSeq(len, cell) ==
    LET seq == InterleaverSeq(len) IN [i \in 1..len |-> seq[((i - 1 + cell) % len) + 1]]


\* pdcch_deinterlv
Deinterleave(in, cell) ==
    LET seq == DeinterleaverSeq(Len(in), cell)
    IN [j \in 1..Len(in) |-> in[CHOOSE i \in 1..Len(in) : seq[i] = j - 1]]
=============================================================================
