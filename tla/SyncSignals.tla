---------------------------- MODULE SyncSignals ----------------------------
(***************************************************************************)
(* The synchronisation signals.  The secondary one is made (sss.c), turned   *)
(* into a register of 64 bits for each identity and half of the frame       *)
(* (lte.c), and a received register is compared with all of them (sync.c).  *)
(* The primary one is looked for with a correlation of signs over a whole   *)
(* subframe (sync_pss.c); its sequences are parameters here.  A register    *)
(* is the set of its bits that are one.                                     *)
(***************************************************************************)
EXTENDS Integers, Sequences, FiniteSets

CellGroups  == 0..167       \* n_id_1
Identities  == 0..2         \* n_id_2
HalfFrames  == {0, 5}       \* the subframe of a secondary signal
MinStart == 9999            \* "min = 9999"
MaxErrors == 19             \* "min < 20"

-----------------------------------------------------------------------------
(* Secondary synchronisation signal.                                       *)

\* gen_tilda: a shift register of length five, from the bits it adds up
Tilda(taps) ==
    LET x[i \in 5..31] ==
            IF i = 5 THEN <<0, 0, 0, 0, 1>>
            ELSE LET old == x[i - 1]
                 IN Append(old, Cardinality({t \in taps : old[i - 5 + t] = 1}) % 2)
        bits == x[31]
    IN [i \in 1..31 |-> 1 - 2 * bits[i]] \o << >>

STilda == Tilda({0, 2})
CTilda == Tilda({0, 3})
ZTilda == Tilda({0, 1, 2, 4})

\* Variant of gen_m below: the two parts of the group are not carried over.
GenMFlat(n1, num) == IF num = 0 THEN n1 % 31 ELSE ((n1 % 31) + n1 \div 31 + 1) % 31

\* gen_m
GenM(n1, num) ==
    LET qp == n1 \div 30
        q  == (n1 + (qp * (qp + 1)) \div 2) \div 30
        mp == n1 + (q * (q + 1)) \div 2
    IN IF num = 0 THEN mp % 31 ELSE ((mp % 31) + mp \div 31 + 1) % 31

\* lte_gen_sss: the entries of d0 or d5, from the first one
Sss(n1, n2, half) ==
    LET m0 == GenM(n1, 0)
        m1 == GenM(n1, 1)
        first  == IF half = 0 THEN m0 ELSE m1
        second == IF half = 0 THEN m1 ELSE m0
        At(seq, n) == seq[(n % 31) + 1]
        Even(n) == At(STilda, n + first) * At(CTilda, n + n2)
        Odd(n)  == At(STilda, n + second) * At(CTilda, n + n2 + 3) * At(ZTilda, n + (first % 8))
    IN [i \in 1..62 |-> IF i % 2 = 1 THEN Even(i \div 2) ELSE Odd(i \div 2 - 1)] \o << >>

\* lte_gen_sss_f: the lower half of the sequence at the end of the register;
\* bits 0 and 32 carry nothing and count as not negative
SssRegister(n1, n2, half) ==
    LET d == Sss(n1, n2, half)
    IN {0, 32} \cup {32 + n : n \in {k \in 1..31 : d[k] > 0}} \cup {n : n \in {k \in 1..31 : d[31 + k] > 0}}

\* lte_init: rx->sss
SssTable == {[n2 |-> n2, n1 |-> n1, half |-> half, reg |-> SssRegister(n1, n2, half)] :
                n2 \in Identities, n1 \in CellGroups, half \in HalfFrames}

Distance(a, b) == Cardinality(a \ b) + Cardinality(b \ a)

\* The search of lte_sss_detect through a table: the first of the nearest
\* registers, in the order of the groups and of the halves
Nearest(table, n2, reg) ==
    LET all  == {<<Distance(reg, t.reg), t.n1, t.half>> : t \in {u \in table : u.n2 = n2}}
        min  == CHOOSE e \in {a[1] : a \in all} : \A a \in all : e <= a[1]
        near == {a \in all : a[1] = min}
        found == CHOOSE a \in near : \A other \in near : 10 * a[2] + a[3] <= 10 * other[2] + other[3]
    IN [n1 |-> found[2], half |-> found[3], errors |-> min]

\* What lte_sss_detect leaves in sync, and the value of dn
SssDetect(table, n2, reg) ==
    LET found == Nearest(table, n2, reg)
    IN IF found.errors < MinStart /\ found.errors <= MaxErrors
       THEN [n_id_1 |-> found.n1, n_id_cell |-> 3 * found.n1 + n2, dn |-> found.half]
       ELSE [n_id_1 |-> 0, n_id_cell |-> 0, dn |-> -1]

-----------------------------------------------------------------------------
(* Primary synchronisation signal.  A sample is a pair of signs, 0 for a     *)
(* negative one; a sequence to look for has PssLen of them.                 *)

\* pss_slice_cvt
Slice(v) == <<IF v[1] < 0 THEN 0 ELSE 1, IF v[2] < 0 THEN 0 ELSE 1>>

\* pss_bit_dot_prod of two sequences of equal length
BitDot(x, h) ==
    LET N == DOMAIN h
        same(i, a, b) == x[i][a] = h[i][b]
        positive0 == {i \in N :  same(i, 1, 1) /\ ~same(i, 2, 2)}
        negative0 == {i \in N : ~same(i, 1, 1) /\  same(i, 2, 2)}
        positive1 == {i \in N :  same(i, 1, 2) /\  same(i, 2, 1)}
        negative1 == {i \in N : ~same(i, 1, 2) /\ ~same(i, 2, 1)}
        s0 == Cardinality(positive0) - Cardinality(negative0)
        s1 == Cardinality(positive1) - Cardinality(negative1)
    IN s0 * s0 + s1 * s1

\* pss_bit_corr: the registers hold the last samples, zeros before the first
BitCorr(in, h) ==
    LET Last(i) == [k \in 1..Len(h) |-> IF i - Len(h) + k >= 1 THEN in[i - Len(h) + k] ELSE <<0, 0>>] \o << >>
    IN [i \in 1..Len(in) |-> BitDot(Last(i), h)] \o << >>

\* pss_findmax: the first of the largest values
FindMax(seq) ==
    LET best == CHOOSE v \in {seq[i] : i \in DOMAIN seq} : \A i \in DOMAIN seq : seq[i] <= v
    IN IF best <= 0 THEN [mag |-> 0, pos |-> 0]
       ELSE [mag |-> best, pos |-> (CHOOSE i \in DOMAIN seq : seq[i] = best /\ \A j \in 1..(i - 1) : seq[j] < best) - 1]

\* lte_pss_search over the sequences and the channels, sequence first
PssSearch(sequences, channels) ==
    LET turns == Len(sequences) * Len(channels)
        sliced == [n \in 1..Len(channels) |-> [i \in DOMAIN channels[n] |-> Slice(channels[n][i])] \o << >>]
        At(t) == <<((t - 1) \div Len(channels)) + 1, ((t - 1) % Len(channels)) + 1>>
        peak  == [t \in 1..turns |-> FindMax(BitCorr(sliced[At(t)[2]], sequences[At(t)[1]]))] \o << >>
        best  == CHOOSE t \in 1..turns :
                    /\ \A u \in 1..turns : peak[u].mag <= peak[t].mag
                    /\ \A u \in 1..(t - 1) : peak[u].mag < peak[t].mag
    IN [n_id_2 |-> At(best)[1] - 1, coarse |-> peak[best].pos, fine |-> 0, mag |-> peak[best].mag]
=============================================================================
