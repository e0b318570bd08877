----------------------------- MODULE DataRegion -----------------------------
(***************************************************************************)
(* The elements of the shared channel in the blocks of a grant (pdsch.c) and *)
(* those of the broadcast channel (pbch.c), in the order they are read, and  *)
(* the undoing of transmit diversity on each pair of them (precode.c).  An   *)
(* element is a triple of slot, symbol and subcarrier; complex numbers are   *)
(* pairs of integers.                                                        *)
(***************************************************************************)
EXTENDS ControlRegion

MaxBlocks == 110            \* "riv->n_vrb >= 110"

-----------------------------------------------------------------------------
(* Shared channel.                                                         *)

\* The symbols in which reserved_rb finds synchronisation signals or the
\* broadcast channel
HasReserved(sf, slot, l) ==
    \/ sf = 0 /\ slot = 0 /\ l >= 5
    \/ sf = 0 /\ slot = 1 /\ l <= 3
    \/ sf = 5 /\ slot = 0 /\ l >= 5

\* The blocks of the switch in reserved_rb: all of a block, its upper half or
\* its lower half
WholeReserved(rbs) ==
    CASE rbs = 6 -> 0..5 [] rbs = 15 -> 4..9 [] rbs = 25 -> 10..14
      [] rbs = 50 -> 22..27 [] rbs = 75 -> 35..39 [] rbs = 100 -> 47..52
UpperReserved(rbs) == CASE rbs = 25 -> {9}  [] rbs = 75 -> {34} [] OTHER -> {}
LowerReserved(rbs) == CASE rbs = 25 -> {15} [] rbs = 75 -> {40} [] OTHER -> {}

\* Variant of Window below: half blocks are skipped.
WindowWhole(rbs, sf, slot, l, rb) ==
    IF HasReserved(sf, slot, l) /\ rb \in WholeReserved(rbs) \cup UpperReserved(rbs) \cup LowerReserved(rbs)
    THEN <<0, 0>> ELSE <<0, 12>>

\* The n and end that pdsch_extract_* take from reserved_rb
Window(rbs, sf, slot, l, rb) ==
    CASE HasReserved(sf, slot, l) /\ rb \in WholeReserved(rbs) -> <<0, 0>>
      [] HasReserved(sf, slot, l) /\ rb \in UpperReserved(rbs) -> <<0, 6>>
      [] HasReserved(sf, slot, l) /\ rb \in LowerReserved(rbs) -> <<6, 12>>
      [] OTHER -> <<0, 12>>

\* pdsch_extract_norm: neighbours in pairs
Neighbours(n, end) == [i \in 1..(end - n) |-> n + i - 1]

\* pdsch_extract_ref2: four around the references of each half; the "Reference
\* map fault" leaves what was read before it
AroundBoth(cell, n, end) ==
    LET Quad(half) == IF QuadFrom(cell, half) = << >> THEN << >>
                      ELSE [j \in 1..4 |-> half + QuadFrom(cell, half)[j]]
    IN (IF n = 0 /\ end > 0 THEN Quad(0) ELSE << >>) \o (IF n <= 6 /\ end > 6 THEN Quad(6) ELSE << >>)

\* pdsch_extract_ref1: pairs that step over a reference of the one antenna
AroundOne(cell, slot, l, n, end) ==
    LET IsRef(sc) == ChkRef(cell, slot, l, sc, 1)
        read[i \in 0..6] ==
            IF i = 0 THEN [n |-> n, out |-> << >>]
            ELSE LET old == read[i - 1]
                     at  == old.n
                 IN CASE at + 1 >= end -> old
                      [] at + 1 < end /\ IsRef(at) -> [n |-> at + 3, out |-> old.out \o <<at + 1, at + 2>>]
                      [] at + 1 < end /\ ~IsRef(at) /\ IsRef(at + 1) ->
                            [n |-> at + 3, out |-> old.out \o <<at, at + 2>>]
                      [] OTHER -> [n |-> at + 2, out |-> old.out \o <<at, at + 1>>]
    IN read[6].out

\* pdsch_extract_rb: the subcarriers of one block in one symbol
BlockElements(rbs, cell, ants, sf, slot, l, rb) ==
    LET w == Window(rbs, sf, slot, l, rb)
        at == CASE l \in {0, 4} /\ ants = 2 -> AroundBoth(cell, w[1], w[2])
                [] l \in {0, 4} /\ ants = 1 -> AroundOne(cell, slot, l, w[1], w[2])
                [] OTHER -> Neighbours(w[1], w[2])
    IN [i \in DOMAIN at |-> <<slot, l, rb * RbLen + at[i]>>]

\* pdsch_extract_symbols for one slot: its blocks, symbol by symbol
SlotElements(rbs, cell, ants, sf, slot, first, blocks) ==
    LET turns == (7 - first) * Len(blocks)
        Turn(t) == BlockElements(rbs, cell, ants, sf, slot,
                                 first + (t - 1) \div Len(blocks), blocks[((t - 1) % Len(blocks)) + 1])
    IN IF Len(blocks) >= MaxBlocks THEN << >> ELSE FlattenSeq([t \in 1..turns |-> Turn(t)])

\* lte_decode_pdsch: both slots; in a narrow band the control region is one longer
FirstSymbol(rbs, cfi) == IF rbs <= 10 THEN cfi + 1 ELSE cfi
SharedElements(rbs, cell, ants, sf, cfi, even, odd) ==
    SlotElements(rbs, cell, ants, sf, 0, FirstSymbol(rbs, cfi), even)
    \o SlotElements(rbs, cell, ants, sf, 1, 0, odd)

\* pdsch_sym_blk_alloc: the symbols it makes room for
SharedLen(ants, blocks, first) == blocks * (12 * (14 - first) - (IF ants = 2 THEN 12 ELSE 6))

-----------------------------------------------------------------------------
(* Broadcast channel, in the six blocks of its own grid.                   *)

PbchBlocks == 6
PbchSymbols == 240

\* pbch_extract and pbch_extract_simple
PbchElements(cell) ==
    LET Both(rb) == AroundBoth(cell, 0, 12)
        Plain(rb) == Neighbours(0, 12)
        At(l, rb) == LET at == IF l < 2 THEN Both(rb) ELSE Plain(rb)
                     IN [i \in DOMAIN at |-> <<1, l, rb * RbLen + at[i]>>]
    IN FlattenSeq([t \in 1..(4 * PbchBlocks) |-> At((t - 1) \div PbchBlocks, (t - 1) % PbchBlocks)])

-----------------------------------------------------------------------------
(* Transmit diversity.  The scale by the channel's squared amplitude is left  *)
(* out: a result is the symbol times that amplitude, as both subcarriers of   *)
(* a pair are taken to have the same.                                        *)

Times(a, b) == <<a[1] * b[1] - a[2] * b[2], a[1] * b[2] + a[2] * b[1]>>
Plus(a, b)  == <<a[1] + b[1], a[2] + b[2]>>
Minus(a)    == <<-a[1], -a[2]>>
Conj(a)     == <<a[1], -a[2]>>

\* lte_unprecode_1x1 and lte_unprecode_1x2: r and h are the received values and
\* the channels by receiving antenna, each a pair over the two subcarriers
UnprecodeOne(r, h) ==
    LET One(k) == [a \in DOMAIN r |-> Times(r[a][k], Conj(h[a][k]))]
        Sum(s) == IF Len(s) = 1 THEN s[1] ELSE Plus(s[1], s[2])
    IN <<Sum(One(1)), Sum(One(2))>>

\* lte_unprecode_2x1 and lte_unprecode_2x2: h[a][p] is the channel from antenna
\* p to antenna a
UnprecodeTwo(r, h) ==
    LET Sum(s) == IF Len(s) = 1 THEN s[1] ELSE Plus(s[1], s[2])
    IN <<Sum([a \in DOMAIN r |-> Plus(Times(r[a][1], Conj(h[a][1][1])), Times(Conj(r[a][2]), h[a][2][2]))]),
         Sum([a \in DOMAIN r |-> Plus(Times(r[a][2], Conj(h[a][1][2])), Minus(Times(Conj(r[a][1]), h[a][2][1])))])>>
=============================================================================
