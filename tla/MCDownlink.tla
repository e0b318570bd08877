----------------------------- MODULE MCDownlink -----------------------------
(***************************************************************************)
(* Calls into the decoding library, over every bandwidth and every shift of  *)
(* a cell that changes what is read.                                        *)
(***************************************************************************)
EXTENDS DownlinkOperations

MCControlInputs ==
    {[rbs |-> rbs, cell |-> cell, cfi |-> cfi, ng |-> ng] :
        rbs \in {6, 15, 25}, cell \in {0, 1, 5, 167}, cfi \in {1, 2, 3}, ng \in {0, 3}}
    \cup {[rbs |-> rbs, cell |-> cell, cfi |-> cfi, ng |-> 1] :
              rbs \in {50, 75, 100}, cell \in {3, 388}, cfi \in {1, 2}}

\* Blocks around the centre and at both ends of the band
Around(rbs) ==
    LET wanted == {0, 1, rbs \div 2 - 4, rbs \div 2 - 3, rbs \div 2 - 1, rbs \div 2, rbs \div 2 + 2,
                   rbs \div 2 + 3, rbs \div 2 + 4, rbs - 1}
    IN Ascending(wanted \cap 0..(rbs - 1), rbs)

MCDataInputs ==
    {[rbs |-> rbs, cell |-> cell, ants |-> 2, sf |-> sf, cfi |-> cfi, even |-> Around(rbs), odd |-> Around(rbs)] :
        rbs \in Bandwidths, cell \in {0, 4, 11}, sf \in {0, 5, 7}, cfi \in {1, 3}}
    \cup {[rbs |-> rbs, cell |-> cell, ants |-> 1, sf |-> sf, cfi |-> 2, even |-> Around(rbs), odd |-> Around(rbs)] :
        rbs \in Bandwidths, cell \in 0..5, sf \in {0, 5, 7}}
    \cup {[rbs |-> rbs, cell |-> 1, ants |-> ants, sf |-> sf, cfi |-> 1, even |-> <<0, rbs \div 2, rbs - 1>>,
           odd |-> <<1, rbs \div 2 - 1, rbs \div 2 + 1>>] : rbs \in {15, 25, 75}, sf \in {0, 3, 5}, ants \in {1, 2}}

\* One block of 15, in each place
MCThreeMegahertz ==
    {[rbs |-> 15, cell |-> cell, ants |-> 2, sf |-> sf, cfi |-> 2, even |-> <<block>>, odd |-> <<block>>] :
        cell \in {0, 4}, sf \in {0, 5, 7}, block \in 0..14}

MCReferenceInputs ==
    {[rbs |-> 6, cell |-> 0, slot |-> 0, l |-> 0], [rbs |-> 100, cell |-> 503, slot |-> 19, l |-> 4],
     [rbs |-> 25, cell |-> 167, slot |-> 10, l |-> 4]}

MCPilotInputs ==
    {[rbs |-> rbs, cell |-> cell, ant |-> ant] : rbs \in {6, 15, 25}, cell \in {0, 1, 2, 3, 4, 5, 503}, ant \in {0, 1}}
    \cup {[rbs |-> rbs, cell |-> 5, ant |-> 1] : rbs \in {50, 75, 100}}

Values == {<<1, 1>>, <<1, -1>>, <<-3, 2>>}
MCPairInputs ==
    {[x |-> <<a, b>>, h |-> h] : a \in Values, b \in Values,
        h \in {<<<<u, v>>>> : u \in Values, v \in Values} \cup {<<<<u, v>>, <<v, <<2, 5>>>>>> : u \in Values, v \in Values}}

\* Each field in turn is all ones, the others 0; Format 1A has its first bit set
MCDciInputs ==
    UNION {LET layout == Layout(format, rbs, mode)
               Ones(i, j) == IF i = j \/ (format = "1a" /\ j = 1) THEN 2^(layout[j].width) - 1 ELSE 0
           IN {[format |-> format, mode |-> mode, rbs |-> rbs, values |-> [j \in DOMAIN layout |-> Ones(i, j)]] :
                  i \in {k \in DOMAIN layout : ~(format = "0" /\ k = 1)}} :
              format \in {"0", "1", "1a", "1b", "1c", "1d", "2", "2a"}, mode \in Modes, rbs \in Bandwidths}

Lengths(total) == {1, 2, 3, total \div 2, total - 1, total}
MCRivInputs ==
    {in \in [rbs : {6, 15, 25, 50}, start : {0, 1, 5, 24}, n : UNION {Lengths(r) : r \in {6, 15, 25, 50}}, gap : {-1}] :
        in.n \in 1..in.rbs /\ in.start + in.n <= in.rbs}
    \cup {[rbs |-> rbs, start |-> 0, n |-> DistVrbs(rbs, 0), gap |-> 0] : rbs \in Bandwidths}
    \cup {[rbs |-> rbs, start |-> 0, n |-> DistVrbs(rbs, 1), gap |-> 1] : rbs \in {50, 75, 100}}
    \cup {[rbs |-> rbs, start |-> start, n |-> 3, gap |-> 0] : rbs \in Bandwidths, start \in {0, 1, 3}}
    \cup {[rbs |-> rbs, start |-> start, n |-> 5, gap |-> 1] : rbs \in {50, 75, 100}, start \in {0, 7, 29}}

MCBitmapInputs ==
    {[rbs |-> rbs, header |-> 0, assign |-> 2^(Type0Ra(rbs)) - 1 - a] : rbs \in Bandwidths, a \in {0, 1, 6, 37}}
    \cup UNION {LET size == Type0Ra(rbs)
                    wide == IF rbs <= 26 THEN 1 ELSE 2
                IN {[rbs |-> rbs, header |-> 1,
                     assign |-> sub * 2^(size - wide) + shift * 2^(size - wide - 1) + bits] :
                        sub \in 0..(TypeZeroP(rbs) - 1), shift \in {0, 1}, bits \in {1, 5, 2^(size - wide - 2) + 1}} :
                    rbs \in Bandwidths \ {6}}

MCGrantInputs ==
    [format : {"1", "1a"}, rnti : {4660}, mcs : {0, 9, 10, 16, 17, 28}, tpc : {1}, rv : 0..3, blocks : {1, 110}, frame : {0}]
    \cup [format : {"1a"}, rnti : {SI_RNTI, P_RNTI}, mcs : {0, 5, 26}, tpc : 0..3, rv : {2}, blocks : {4}, frame : {0}]
    \cup [format : {"1c"}, rnti : {SI_RNTI, P_RNTI}, mcs : {0, 31}, tpc : {0}, rv : {0}, blocks : {4}, frame : 0..9]

\* A tail-biting word, a flushed one with places left out, a recursive one
Plain     == [n |-> 3, k |-> 5, len |-> 12, rgen |-> 0, gen |-> <<25, 27, 31>>, punc |-> {}, term |-> "tail_biting"]
Flushed   == [n |-> 2, k |-> 5, len |-> 12, rgen |-> 0, gen |-> <<19, 29>>, punc |-> {3, 14}, term |-> "flush"]
Recursive == [n |-> 2, k |-> 5, len |-> 12, rgen |-> 19, gen |-> <<16, 29>>, punc |-> {}, term |-> "flush"]
Bits(v, n) == [i \in 1..n |-> (v \div 2^((i - 1) % 12) + i \div 12) % 2]
MCWords ==
    {[code |-> code, bits |-> Bits(v, 12), bad |-> {5}] : code \in {Plain, Flushed, Recursive}, v \in {0, 1, 2805, 1234}}

MCControlWords ==
    {[bits |-> Bits(2805, 8), rnti |-> 65535, E |-> 72, cell |-> 501, sf |-> 5, bad |-> {1, 20}],
     [bits |-> Bits(1234, 10), rnti |-> 4660, E |-> 96, cell |-> 0, sf |-> 0, bad |-> {}]}
MCMibWords ==
    {[bits |-> <<0, 1, 0, 1, 1, 0, 1, 0, 1, 1, 0, 1, 0, 1>> \o [i \in 1..10 |-> 0], ants |-> 2, cell |-> 42,
      quarter |-> quarter, bad |-> 30..60] : quarter \in {0, 1}}

\* Behind the first quarter: minus ones, or by chance the second quarter of cell 42
MCBehind ==
    {[i \in 1..(3 * PbchE) |-> -1], SubSeq(GoldSeq(42, 2 * PbchE), PbchE + 1, 2 * PbchE) \o [i \in 1..(2 * PbchE) |-> 1]}

\* Of the first one almost half is missing.
MCSharedWords ==
    {[bits |-> Bits(2805, 16), mod |-> 2, rv |-> 0, E |-> 120, cell |-> 77, sf |-> 5, rnti |-> SI_RNTI,
      segment |-> FALSE, bad |-> {i \in 1..120 : (5 * i * i) % 11 < 4}],
     [bits |-> Bits(1911, 16), mod |-> 4, rv |-> 1, E |-> 140, cell |-> 4, sf |-> 9, rnti |-> 61, segment |-> TRUE, bad |-> {}],
     [bits |-> Bits(64, 16), mod |-> 6, rv |-> 2, E |-> 132, cell |-> 9, sf |-> 0, rnti |-> 4660, segment |-> FALSE, bad |-> {1}]}

MCCfis == {[cfi |-> cfi, cell |-> 101 * cfi, sf |-> 2 * cfi, bad |-> bad] : cfi \in 1..4, bad \in {{}, {1, 2, 3, 4}, {7, 9, 20, 32}}}
MCCellsHeard ==
    {[n1 |-> n1, n2 |-> n2, half |-> half, bad |-> bad] :
        n1 \in {0, 29, 30, 59, 110, 167}, n2 \in {0, 2}, half \in HalfFrames, bad \in {{}, {3, 9, 27, 33, 40, 51, 63}}}

\* The signs of the sequences with roots 25, 29 and 34, sixteen to a number
Word(words, k) == Bit(words[((k - 1) \div 16) + 1], (k - 1) % 16)
PssSigns(real, imag) == [k \in 1..64 |-> <<Word(real, k), Word(imag, k)>>] \o << >>
MCPssTables ==
    <<PssSigns(<<21513, 59774, 64814, 8276>>, <<10437, 14051, 36568, 17961>>),
      PssSigns(<<17822, 11039, 61865, 62277>>, <<46034, 40009, 9331, 38811>>),
      PssSigns(<<17822, 11039, 61865, 62277>>, <<19501, 25526, 56204, 26724>>)>>
MCPssInputs == {[n2 |-> n2, at |-> at, len |-> 74, bad |-> {2, 31, 50}] : n2 \in Identities, at \in {0, 10}}

MCSeeds == {[seed |-> seed, len |-> 80] : seed \in {0, 1, 513, 1073741823}}
=============================================================================
