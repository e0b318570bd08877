---------------------------- MODULE RateMatching ----------------------------
(***************************************************************************)
(* Rate matching of the two channel codes, forwards and in reverse          *)
(* (conv_rate_match.c, turbo_rate_match.c).  A coded bit is a pair of its   *)
(* stream, 1 to 3, and its index in the stream; matching gives the coded    *)
(* bit of each of the E places, unmatching gives for each coded bit the     *)
(* set of places that are added up in it.  Values of bits are left out.     *)
(***************************************************************************)
EXTENDS Integers, Sequences, FiniteSets

Columns == 32
MaxWNull == 93          \* MAX_W_NULL, the nulls a matcher can record

\* rate_match_init_fw
Rows(D) == (D + Columns - 1) \div Columns
InterleavedLen(D) == Rows(D) * Columns

\* A matcher is a record of the length of its streams, the columns' order, the
\* streams in which entries are one further, whether the last two streams
\* alternate, and where the circle begins.
ConvColumns  == <<1, 17, 9, 25, 5, 21, 13, 29, 3, 19, 11, 27, 7, 23, 15, 31,
                  0, 16, 8, 24, 4, 20, 12, 28, 2, 18, 10, 26, 6, 22, 14, 30>>
TurboColumns == <<0, 16, 8, 24, 4, 20, 12, 28, 2, 18, 10, 26, 6, 22, 14, 30,
                  1, 17, 9, 25, 5, 21, 13, 29, 3, 19, 11, 27, 7, 23, 15, 31>>

ConvMatcher(D) == [D |-> D, columns |-> ConvColumns, further |-> {}, alternate |-> FALSE, start |-> 0]

\* k_0, the start of a redundancy version
TurboStart(D, rv) ==
    LET per == (3 * InterleavedLen(D) + 8 * Rows(D) - 1) \div (8 * Rows(D))
    IN Rows(D) * (2 * per * rv + 2)

TurboMatcher(D, rv) ==
    [D |-> D, columns |-> TurboColumns, further |-> {3}, alternate |-> TRUE, start |-> TurboStart(D, rv)]

-----------------------------------------------------------------------------
(* The circle w.                                                           *)

\* interlv and interlv_v2: the index that entry q of an interleaved stream is
\* taken from; negative for one of the nulls in front
TakenFrom(m, s, q) ==
    LET rows == Rows(m.D)
        V    == InterleavedLen(m.D)
        at   == Columns * (q % rows) + m.columns[(q \div rows) + 1]
    IN (IF s \in m.further THEN (at + 1) % V ELSE at) - (V - m.D)

\* The collection of the three streams: place n of w
CodedBit(m, n) ==
    LET V == InterleavedLen(m.D)
        s == IF n < V THEN 1 ELSE IF m.alternate THEN 2 + ((n - V) % 2) ELSE (n \div V) + 1
        q == IF n < V THEN n ELSE IF m.alternate THEN (n - V) \div 2 ELSE n % V
    IN <<s, TakenFrom(m, s, q)>>

IsNull(m, n) == CodedBit(m, n)[2] < 0

\* The places of w in the order they are walked
Circle(m) == LET w == 3 * InterleavedLen(m.D) IN [i \in 1..w |-> (m.start + i - 1) % w]

\* rate_match_fw: the coded bit that is sent in each of E places
Matched(m, E) ==
    LET sent == SelectSeq(Circle(m), LAMBDA n: ~IsNull(m, n))
    IN [i \in 1..E |-> CodedBit(m, sent[((i - 1) % Len(sent)) + 1])]

\* w_null, as rate_match_fw leaves it for a walk in reverse
RecordedNulls(m) ==
    LET nulls == SelectSeq(Circle(m), LAMBDA n: IsNull(m, n))
    IN {nulls[i] : i \in {j \in DOMAIN nulls : j <= MaxWNull}}


\* rate_match_rv, deinterlv and deinterlv_v2: the places added up in each bit
Unmatched(m, E) ==
    LET nulls == RecordedNulls(m)
        open  == SelectSeq(Circle(m), LAMBDA n: n \notin nulls)
        Bit(i) == CodedBit(m, open[((i - 1) % Len(open)) + 1])
        pairs == {<<i, Bit(i)>> : i \in 1..E}
    IN [b \in {pair[2] : pair \in pairs} |-> {pair[1] : pair \in {p \in pairs : p[2] = b}}]
=============================================================================
