---------------------------- MODULE GrantProofs ----------------------------
(***************************************************************************)
(* Lemmas about what a grant means, for grants and blocks of any size: the  *)
(* segments of a transport block (module TransportBlock), which share out   *)
(* all the bits and are cut without a gap, and the blocks of an allocation  *)
(* (module ResourceAllocation), as a range or as a bitmap; about the        *)
(* sequences it is scrambled with (module ControlBlock), of any seed and    *)
(* length; about the groups of elements the control region is read by       *)
(* (module ControlRegion), for any band and cell; and about the registers   *)
(* of cells (module SyncSignals), for any cell.  Sums, lists and registers  *)
(* are recursive functions; what such a function computes follows by        *)
(* induction over a set of numbers.                                         *)
(***************************************************************************)
EXTENDS ResourceAllocation, TransportBlock, ControlBlock, ControlRegion, SyncSignals, WellFoundedInduction,
        FiniteSetTheorems, SequenceTheorems, TLAPS

-----------------------------------------------------------------------------
(* Induction.                                                              *)

Below == {p \in Nat \X Nat : p[1] < p[2]}

\* A set that holds 0 and the successor of each of its numbers holds them all.
LEMMA Climb ==
  ASSUME NEW S, 0 \in S, \A n \in Nat : n \in S => n + 1 \in S
  PROVE  Nat \subseteq S
<1> DEFINE T == Nat \ S
<1> SUFFICES ASSUME T # {} PROVE FALSE
  OBVIOUS
<1>0. IsWellFoundedOn(Below, Nat)
  BY NatLessThanWellFounded DEF OpToRel, Below
<1>1. \E x \in T : \A y \in T : <<y, x>> \notin Below
  <2>1. T \subseteq Nat
    OBVIOUS
  <2> HIDE DEF T
  <2> QED
    BY <1>0, WFMin, <2>1
<1>2. PICK x \in T : \A y \in T : <<y, x>> \notin Below
  BY <1>1
<1>3. x # 0 /\ x - 1 \in Nat /\ x - 1 + 1 = x
  OBVIOUS
<1>4. x - 1 \in T
  BY <1>3
<1>5. <<x - 1, x>> \in Below
  BY <1>3 DEF Below
<1> QED
  BY <1>2, <1>4, <1>5

\* The same up to a bound.
LEMMA ClimbTo ==
  ASSUME NEW n \in Nat, NEW S, 0 \in S, \A i \in 1..n : i - 1 \in S => i \in S
  PROVE  0..n \subseteq S
<1> DEFINE T == S \cup {i \in Nat : i > n}
<1>1. 0 \in T
  OBVIOUS
<1>2. ASSUME NEW i \in Nat, i \in T PROVE i + 1 \in T
  <2>1. CASE i + 1 > n
    BY <2>1
  <2>2. CASE i + 1 \in 1..n
    <3>1. (i + 1) - 1 = i /\ i \in S
      BY <1>2, <2>2
    <3>2. i + 1 \in S
      BY <2>2, <3>1
    <3> QED
      BY <3>2
  <2> QED
    BY <2>1, <2>2
<1>3. Nat \subseteq T
  <2> HIDE DEF T
  <2> QED
    BY <1>1, <1>2, Climb
<1> QED
  BY <1>3

\* A set of numbers that is not empty has a least one.
LEMMA LeastOf ==
  ASSUME NEW S, S \subseteq Nat, S # {}
  PROVE  \E n \in S : \A other \in S : n <= other
<1>1. IsWellFoundedOn(Below, Nat)
  BY NatLessThanWellFounded DEF OpToRel, Below
<1>2. PICK n \in S : \A other \in S : <<other, n>> \notin Below
  BY <1>1, WFMin
<1>3. \A other \in S : n <= other
  <2> SUFFICES ASSUME NEW other \in S PROVE n <= other
    OBVIOUS
  <2>1. n \in Nat /\ other \in Nat
    OBVIOUS
  <2>2. <<other, n>> \in Nat \X Nat /\ <<other, n>>[1] = other /\ <<other, n>>[2] = n
    BY <2>1
  <2>3. ~(other < n)
    BY <1>2, <2>2 DEF Below
  <2> QED
    BY <2>1, <2>3
<1> QED
  BY <1>3

\* A function that is defined by recursion over its argument
Iterates(f, n, first, Rule) == f[0] = first /\ \A i \in 1..n : f[i] = Rule[<<i, f[i - 1]>>]

\* It exists.
LEMMA Iteration ==
  ASSUME NEW S, NEW first \in S, NEW Rule \in [Nat \X S -> S], NEW n \in Nat
  PROVE  \E f \in [0..n -> S] : Iterates(f, n, first, Rule)
<1> DEFINE Good(k) == \E f \in [0..k -> S] : f[0] = first /\ \A i \in 1..k : f[i] = Rule[<<i, f[i - 1]>>]
           G == {k \in Nat : Good(k)}
<1>1. Good(0)
  <2> DEFINE f == [i \in 0..0 |-> first]
  <2>1. f \in [0..0 -> S] /\ f[0] = first /\ \A i \in 1..0 : f[i] = Rule[<<i, f[i - 1]>>]
    OBVIOUS
  <2> HIDE DEF f
  <2> QED
    BY <2>1
<1>2. ASSUME NEW k \in Nat, Good(k) PROVE Good(k + 1)
  <2>1. PICK f \in [0..k -> S] : f[0] = first /\ \A i \in 1..k : f[i] = Rule[<<i, f[i - 1]>>]
    BY <1>2
  <2> DEFINE g == [i \in 0..(k + 1) |-> IF i = k + 1 THEN Rule[<<k + 1, f[k]>>] ELSE f[i]]
  <2>2. Rule[<<k + 1, f[k]>>] \in S
    BY <2>1
  <2>3. g \in [0..(k + 1) -> S]
    BY <2>2
  <2>4. g[0] = first
    BY <2>1
  <2>5. ASSUME NEW i \in 1..(k + 1) PROVE g[i] = Rule[<<i, g[i - 1]>>]
    <3>1. CASE i = k + 1
      <4>1. g[i] = Rule[<<k + 1, f[k]>>] /\ g[i - 1] = f[k]
        BY <3>1
      <4> HIDE DEF g
      <4> QED
        BY <3>1, <4>1
    <3>2. CASE i \in 1..k
      <4>1. g[i] = f[i] /\ g[i - 1] = f[i - 1]
        BY <3>2
      <4> HIDE DEF g
      <4> QED
        BY <2>1, <3>2, <4>1
    <3> QED
      BY <3>1, <3>2
  <2> HIDE DEF g
  <2> QED
    BY <2>3, <2>4, <2>5
<1>3. Good(n)
  <2>1. 0 \in G /\ \A k \in Nat : k \in G => k + 1 \in G
    BY <1>1, <1>2
  <2> HIDE DEF G
  <2>2. n \in G
    BY <2>1, Climb
  <2> QED
    BY <2>2 DEF G
<1> QED
  BY <1>3 DEF Iterates

-----------------------------------------------------------------------------
(* Sums.                                                                   *)

\* A function that adds up the entries one by one ends with their sum.
LEMMA SumIs ==
  ASSUME NEW n \in Nat, NEW f, NEW s \in [0..n -> Int],
         s[0] = 0, \A i \in 1..n : s[i] = s[i - 1] + f[i]
  PROVE  SumUpTo(f, n) = s[n]
<1> DEFINE Adds(g) == g = [r \in 0..n |-> IF r = 0 THEN 0 ELSE g[r - 1] + f[r]]
           sum == CHOOSE g : Adds(g)
<1>1. Adds(s)
  <2>1. \A r \in 0..n : s[r] = IF r = 0 THEN 0 ELSE s[r - 1] + f[r]
    OBVIOUS
  <2> QED
    BY <2>1
<1>2. Adds(sum)
  <2> HIDE DEF Adds
  <2> QED
    BY <1>1
<1>3. SumUpTo(f, n) = sum[n]
  BY DEF SumUpTo
<1> HIDE DEF sum
<1>4. /\ sum[0] = 0
      /\ \A i \in 1..n : sum[i] = sum[i - 1] + f[i]
  BY <1>2
<1> DEFINE Agree == {i \in 0..n : sum[i] = s[i]}
<1>5. 0 \in Agree
  BY <1>4
<1>6. \A i \in 1..n : i - 1 \in Agree => i \in Agree
  BY <1>4
<1> HIDE DEF Agree
<1>7. 0..n \subseteq Agree
  BY <1>5, <1>6, ClimbTo, Zenon
<1>8. n \in Agree
  BY <1>7
<1> QED
  BY <1>3, <1>8 DEF Agree

-----------------------------------------------------------------------------
(* The bits of each segment.                                               *)

\* Division with remainder.
LEMMA Division ==
  ASSUME NEW a \in Nat, NEW b \in Nat \ {0}
  PROVE  /\ a \div b \in Nat /\ a % b \in 0..(b - 1)
         /\ a = b * (a \div b) + (a % b)
  OBVIOUS

LEMMA RoundedUp ==
  ASSUME NEW a \in Nat, NEW b \in Nat \ {0}
  PROVE  (a + b - 1) \div b = IF a % b = 0 THEN a \div b ELSE a \div b + 1
<1> DEFINE q == a \div b
           r == a % b
<1>1. q \in Nat /\ r \in 0..(b - 1) /\ a = b * q + r
  BY Division
<1> HIDE DEF q, r
<1>2. CASE r = 0
  <2>1. a + b - 1 = b * q + (b - 1)
    BY <1>1, <1>2
  <2>2. (b * q + (b - 1)) \div b = q
    BY <1>1
  <2> QED
    BY <1>2, <2>1, <2>2 DEF q, r
<1>3. CASE r # 0
  <2>1. a + b - 1 = b * (q + 1) + (r - 1) /\ r - 1 \in 0..(b - 1)
    BY <1>1, <1>3
  <2>2. (b * (q + 1) + (r - 1)) \div b = q + 1
    BY <1>1, <2>1
  <2> QED
    BY <1>3, <2>1, <2>2 DEF q, r
<1> QED
  BY <1>2, <1>3

\* C entries of which the last ones are greater by a unit
LastLonger(E, C, lo, unit, longer) ==
    \A r \in 1..C : E[r] = IF r <= C - longer THEN lo ELSE lo + unit

\* Their sum.
LEMMA TwoSizes ==
  ASSUME NEW C \in Nat, NEW lo \in Nat, NEW unit \in Nat, NEW longer \in 0..C, NEW E,
         LastLonger(E, C, lo, unit, longer)
  PROVE  SumUpTo(E, C) = lo * C + unit * longer
<1> DEFINE sum == [r \in 0..C |-> IF r <= C - longer THEN lo * r ELSE lo * r + unit * (r - (C - longer))]
<1>1. sum \in [0..C -> Int] /\ sum[0] = 0
  OBVIOUS
<1>2. ASSUME NEW r \in 1..C PROVE sum[r] = sum[r - 1] + E[r]
  <2>1. /\ sum[r] = IF r <= C - longer THEN lo * r ELSE lo * r + unit * (r - (C - longer))
        /\ sum[r - 1] = IF r - 1 <= C - longer THEN lo * (r - 1)
                        ELSE lo * (r - 1) + unit * (r - 1 - (C - longer))
    OBVIOUS
  <2>2. lo * r = lo * (r - 1) + lo /\ lo * r \in Int /\ lo * (r - 1) \in Int
    OBVIOUS
  <2>3. E[r] = IF r <= C - longer THEN lo ELSE lo + unit
    BY DEF LastLonger
  <2> DEFINE d == r - (C - longer)
  <2>4. d \in Int /\ r - 1 - (C - longer) = d - 1 /\ (r <= C - longer <=> d <= 0)
        /\ (r - 1 <= C - longer <=> d - 1 <= 0)
    OBVIOUS
  <2>5. unit * d = unit * (d - 1) + unit /\ unit * (d - 1) \in Int
    BY <2>4
  <2> HIDE DEF d, sum
  <2>6. CASE d <= 0
    BY <2>1, <2>2, <2>3, <2>4, <2>6
  <2>7. CASE d = 1
    BY <2>1, <2>2, <2>3, <2>4, <2>5, <2>7 DEF d
  <2>8. CASE d > 1
    BY <2>1, <2>2, <2>3, <2>4, <2>5, <2>8 DEF d
  <2> QED
    BY <2>4, <2>6, <2>7, <2>8
<1>3. sum[C] = lo * C + unit * longer
  <2>1. sum[C] = IF C <= C - longer THEN lo * C ELSE lo * C + unit * (C - (C - longer))
    OBVIOUS
  <2>2. C - (C - longer) = longer /\ (C <= C - longer <=> longer = 0) /\ unit * 0 = 0
    OBVIOUS
  <2>3. lo * C \in Int /\ lo * C + 0 = lo * C
    OBVIOUS
  <2> HIDE DEF sum
  <2> QED
    BY <2>1, <2>2, <2>3
<1> HIDE DEF sum
<1> QED
  BY <1>1, <1>2, <1>3, SumIs

\* What lte_pdsch_blk_init_e does with a number of symbols
Share(E, C, unit, symbols) ==
    \A r \in 1..C : E[r] = IF r <= C - (symbols % C) THEN unit * (symbols \div C)
                           ELSE unit * ((symbols + C - 1) \div C)

\* What is shared out over C segments, the last ones one unit longer, is all there is.
LEMMA SharedOut ==
  ASSUME NEW C \in Nat \ {0}, NEW unit \in Nat, NEW symbols \in Nat, NEW E,
         Share(E, C, unit, symbols)
  PROVE  SumUpTo(E, C) = unit * symbols
<1> DEFINE each    == symbols \div C
           longer  == symbols % C
           lo      == unit * each
<1>1. each \in Nat /\ longer \in 0..(C - 1) /\ symbols = C * each + longer
  BY Division
<1>2. longer # 0 => unit * ((symbols + C - 1) \div C) = lo + unit
  <2> SUFFICES ASSUME longer # 0 PROVE unit * ((symbols + C - 1) \div C) = lo + unit
    OBVIOUS
  <2>1. (symbols + C - 1) \div C = each + 1
    BY RoundedUp
  <2> HIDE DEF each, longer
  <2>2. unit * (each + 1) = unit * each + unit
    BY <1>1
  <2> QED
    BY <2>1, <2>2
<1>3. LastLonger(E, C, lo, unit, longer)
  <2> HIDE DEF lo
  <2>1. longer = 0 => \A r \in 1..C : r <= C - longer
    <3> HIDE DEF longer
    <3> QED
      OBVIOUS
  <2> QED
    BY <1>1, <1>2, <2>1 DEF lo, LastLonger, Share
<1>4. lo \in Nat
  <2> HIDE DEF each
  <2> QED
    BY <1>1
<1> HIDE DEF each, longer, lo
<1>5. C \in Nat /\ longer \in 0..C
  BY <1>1
<1>6. SumUpTo(E, C) = lo * C + unit * longer
  BY <1>3, <1>4, <1>5, TwoSizes
<1>7. lo * C = unit * (C * each)
  BY <1>1 DEF lo
<1>8. unit * symbols = unit * (C * each) + unit * longer
  BY <1>1
<1> QED
  BY <1>6, <1>7, <1>8

\* The segments are given all the bits there are: the "longer" last ones make up
\* for what the division leaves, so that exit(1) of lte_pdsch_blk_init is not
\* reached.
LEMMA BitsAreShared ==
  ASSUME NEW blk, NEW nl \in Nat \ {0}, NEW qm \in Nat \ {0},
         blk.C \in 1..MaxC, blk.G \in Nat, blk.G % (nl * qm) = 0
  PROVE  InitE(blk, nl, qm).rc = 0
<1> DEFINE unit    == nl * qm
           symbols == blk.G \div unit
           E       == [r \in 1..MaxC |-> IF r <= blk.C THEN SegmentBits(blk, nl, qm, r) ELSE blk.E[r]]
<1>1. unit \in Nat \ {0} /\ blk.C \in 1..13
  BY DEF MaxC
<1>2. symbols \in Nat /\ blk.G = unit * symbols
  <2>1. blk.G % unit = 0
    OBVIOUS
  <2> HIDE DEF unit
  <2>2. /\ blk.G \div unit \in Nat
        /\ blk.G = unit * (blk.G \div unit) + (blk.G % unit)
    BY <1>1, Division
  <2> QED
    BY <1>1, <2>1, <2>2
<1>3. Share(E, blk.C, unit, symbols)
  <2>1. \A r \in 1..blk.C : E[r] = SegmentBits(blk, nl, qm, r)
    BY <1>1 DEF MaxC
  <2> HIDE DEF E
  <2> QED
    BY <2>1 DEF SegmentBits, Share
<1>4. SumUpTo(E, blk.C) = unit * symbols
  <2>1. blk.C \in Nat \ {0} /\ unit \in Nat /\ symbols \in Nat
    <3> HIDE DEF unit, symbols
    <3> QED
      BY <1>1, <1>2
  <2> HIDE DEF E, unit, symbols
  <2> QED
    BY <1>3, <2>1, SharedOut
<1> HIDE DEF unit, symbols
<1>5. SumUpTo(E, blk.C) = blk.G
  BY <1>2, <1>4
<1> QED
  BY <1>5 DEF InitE

-----------------------------------------------------------------------------
(* The segments of a block.                                                *)

\* The sizes of the interleaver are whole bytes from 40 to 6144, in ascending order.
LEMMA InterleaverSizesAscend ==
  /\ \A i \in 1..188 : InterlvK(i) \in Nat /\ 40 <= InterlvK(i) /\ InterlvK(i) <= ZMax
  /\ \A i \in 1..188 : InterlvK(i) % 8 = 0
  /\ \A i \in 2..188 : InterlvK(i - 1) < InterlvK(i)
  /\ InterlvK(1) = 40 /\ InterlvK(188) = ZMax
<1>1. \A i \in 1..188 : InterlvK(i) = IF i <= 60 THEN 32 + 8 * i ELSE IF i <= 92 THEN 512 + 16 * (i - 60)
                                     ELSE IF i <= 124 THEN 1024 + 32 * (i - 92) ELSE 2048 + 64 * (i - 124)
  BY DEF InterlvK
<1>2. \A i \in 1..188 : InterlvK(i) \in Nat /\ 40 <= InterlvK(i) /\ InterlvK(i) <= ZMax
  BY <1>1 DEF ZMax
<1>3. \A i \in 1..188 : InterlvK(i) % 8 = 0
  BY <1>1
<1>4. \A i \in 2..188 : InterlvK(i - 1) < InterlvK(i)
  BY <1>1
<1>5. InterlvK(1) = 40 /\ InterlvK(188) = ZMax
  BY <1>1 DEF ZMax
<1> QED
  BY <1>2, <1>3, <1>4, <1>5

\* A block has at most thirteen segments, which have room for it and their checks.
LEMMA SegmentsHaveRoom ==
  ASSUME NEW B \in Nat, 0 < B, B <= MaxA + CrcLen
  PROVE  /\ Segments(B) \in 1..MaxC
         /\ Segments(B) = 1 => B <= ZMax
         /\ Segments(B) # 1 => B > ZMax /\ B + Segments(B) * CrcLen <= Segments(B) * ZMax
<1> DEFINE n == Segments(B)
<1>0. B <= 75400
  BY DEF MaxA, CrcLen
<1>1. n = IF B <= 6144 THEN 1 ELSE (B + 6119) \div 6120
  <2>1. n = IF B <= 6144 THEN 1 ELSE (B + 6144 - 24 - 1) \div (6144 - 24)
    BY DEF Segments, ZMax, CrcLen
  <2>2. B + 6144 - 24 - 1 = B + 6119 /\ 6144 - 24 = 6120
    OBVIOUS
  <2> HIDE DEF n
  <2> QED
    BY <2>1, <2>2
<1> HIDE DEF n
<1>2. CASE B <= 6144
  <2>1. n = 1
    BY <1>1, <1>2
  <2> QED
    BY <1>2, <2>1 DEF n, MaxC, ZMax
<1>3. CASE B > 6144
  <2> DEFINE q == (B + 6119) \div 6120
             r == (B + 6119) % 6120
  <2>1. q \in Nat /\ r \in Nat /\ r < 6120 /\ B + 6119 = 6120 * q + r
    OBVIOUS
  <2>2. n = q
    BY <1>1, <1>3
  <2> HIDE DEF q, r
  <2>3. n \in 2..13 /\ B <= n * 6120
    BY <1>0, <1>3, <2>1, <2>2
  <2>4. n * 24 \in Int /\ n * 6144 = n * 6120 + n * 24
    BY <2>3
  <2>5. B + n * 24 <= n * 6144
    BY <1>0, <2>3, <2>4
  <2> QED
    BY <1>3, <2>3, <2>5 DEF n, MaxC, ZMax, CrcLen
<1> QED
  BY <1>2, <1>3

\* How B bits are cut: C - few segments of one size of the interleaver and few of
\* the one before, which hold the block, a check each, and F filler bits
Cut(B, s) ==
  /\ s.C = Segments(B)
  /\ \E i \in 1..188 : /\ s.large = InterlvK(i)
                       /\ s.C # 1 => i # 1 /\ s.small = InterlvK(i - 1)
  /\ s.few \in 0..(s.C - 1)
  /\ s.C = 1 => s.few = 0 /\ s.small = 0
  /\ s.F \in Nat
  /\ (s.C - s.few) * s.large + s.few * s.small
       = B + (IF s.C = 1 THEN 0 ELSE s.C * CrcLen) + s.F

\* lte_pdsch_blk_init_c finds a size for every block there is.
LEMMA SegmentationCuts ==
  ASSUME NEW B \in Nat, 0 < B, B <= MaxA + CrcLen
  PROVE  Cut(B, Segmentation(B))
<1> DEFINE C     == Segments(B)
           total == IF C = 1 THEN B ELSE B + C * CrcLen
           fits  == {i \in 1..188 : C * InterlvK(i) >= total}
           i     == CHOOSE n \in fits : \A other \in fits : n <= other
           large == InterlvK(i)
           small == IF C = 1 THEN 0 ELSE InterlvK(i - 1)
           few   == IF C = 1 THEN 0 ELSE (C * large - total) \div (large - small)
           F     == (C - few) * large + few * small - total
<1>1. /\ C \in 1..13 /\ C \in Nat
      /\ C = 1 => total = B /\ B <= 6144
      /\ C # 1 => B > 6144 /\ total = B + C * 24 /\ total <= C * 6144
  BY SegmentsHaveRoom DEF MaxC, ZMax, CrcLen
<1>2. total \in Nat /\ total > 0 /\ total <= C * 6144
  <2> HIDE DEF C, total
  <2> QED
    BY <1>1
<1>3. 188 \in fits /\ fits \subseteq Nat
  <2>1. InterlvK(188) = 6144
    BY InterleaverSizesAscend DEF ZMax
  <2> HIDE DEF C, total
  <2> QED
    BY <1>1, <1>2, <2>1
<1>4. i \in fits /\ \A other \in fits : i <= other
  <2> HIDE DEF fits
  <2>1. \E n \in fits : \A other \in fits : n <= other
    BY <1>3, LeastOf
  <2> QED
    BY <2>1
<1>5. i \in 1..188 /\ C * large >= total /\ fits # {}
  BY <1>4
<1>6. large \in Nat /\ 40 <= large
  <2> HIDE DEF i
  <2> QED
    BY <1>5, InterleaverSizesAscend
<1>7. i - 1 \in 1..188 => C * InterlvK(i - 1) < total
  <2> SUFFICES ASSUME i - 1 \in 1..188 PROVE C * InterlvK(i - 1) < total
    OBVIOUS
  <2>1. i - 1 \notin fits
    <3> HIDE DEF fits, i
    <3> QED
      BY <1>4, <1>5
  <2>2. InterlvK(i - 1) \in Nat
    <3> HIDE DEF i
    <3> QED
      BY InterleaverSizesAscend
  <2>3. ~(C * InterlvK(i - 1) >= total)
    BY <2>1
  <2> HIDE DEF C, total, i
  <2> QED
    BY <1>1, <1>2, <2>2, <2>3
<1>8. C # 1 => i # 1
  <2> SUFFICES ASSUME C # 1, i = 1 PROVE FALSE
    OBVIOUS
  <2>1. large = 40
    BY InterleaverSizesAscend
  <2> HIDE DEF large, i, C, total
  <2> QED
    BY <1>1, <1>5, <2>1
<1>9. Segmentation(B) = [C |-> C, large |-> large, small |-> small, few |-> few, F |-> F]
  <2>1. Segmentation(B) = IF fits = {} \/ (C > 1 /\ i = 1) THEN [C |-> 0]
                          ELSE [C |-> C, large |-> large, small |-> small, few |-> few, F |-> F]
    BY DEF Segmentation
  <2> HIDE DEF C, fits, i, large, small, few, F
  <2>2. ~(fits = {} \/ (C > 1 /\ i = 1))
    BY <1>1, <1>5, <1>8
  <2> QED
    BY <2>1, <2>2
<1> DEFINE s == Segmentation(B)
<1>10. s.C = C /\ s.large = large /\ s.small = small /\ s.few = few /\ s.F = F
  <2> HIDE DEF C, large, small, few, F
  <2> QED
    BY <1>9
<1> HIDE DEF s
<1>11. \E j \in 1..188 : large = InterlvK(j) /\ (C # 1 => j # 1 /\ small = InterlvK(j - 1))
  <2> HIDE DEF i, C
  <2> QED
    BY <1>5, <1>8
<1>12. /\ few \in 0..(C - 1) /\ F \in Nat
       /\ C = 1 => few = 0 /\ small = 0
       /\ (C - few) * large + few * small = total + F
  <2>1. CASE C = 1
    <3>1. few = 0 /\ small = 0 /\ F = (C - 0) * large + 0 * 0 - total
      BY <2>1
    <3> HIDE DEF few, small, large, total, C, F, i, fits
    <3>2. F = large - total /\ large >= total
      BY <1>2, <1>5, <1>6, <2>1, <3>1
    <3>3. (C - few) * large + few * small = large
      <4>1. C - few = 1 /\ few * small = 0
        BY <2>1, <3>1
      <4> QED
        BY <1>6, <4>1
    <3>4. F \in Nat /\ few \in 0..(C - 1)
      BY <1>2, <1>6, <2>1, <3>1, <3>2
    <3> QED
      BY <1>2, <1>6, <3>1, <3>2, <3>3, <3>4
  <2>2. CASE C # 1
    <3>1. i - 1 \in 1..188 /\ small = InterlvK(i - 1) /\ small < large /\ small \in Nat
      <4>1. i \in 2..188
        <5> HIDE DEF i, C
        <5> QED
          BY <1>5, <1>8, <2>2
      <4> HIDE DEF i
      <4>2. i - 1 \in 1..188 /\ InterlvK(i - 1) < InterlvK(i)
        <5>1. \A k \in 2..188 : InterlvK(k - 1) < InterlvK(k)
          BY InterleaverSizesAscend
        <5>2. InterlvK(i - 1) < InterlvK(i)
          BY <4>1, <5>1, Zenon
        <5> QED
          BY <4>1, <5>2
      <4> QED
        BY <2>2, <4>2, InterleaverSizesAscend
    <3>2. C * small < total
      <4> HIDE DEF i, C, total, small
      <4> QED
        BY <1>7, <3>1
    <3>3. few = (C * large - total) \div (large - small)
      BY <2>2
    <3>4. F = (C - few) * large + few * small - total
      OBVIOUS
    <3> DEFINE d == large - small
               a == C * large - total
    <3> HIDE DEF i, C, total, small, large, few, F
    <3>5. d \in Nat \ {0} /\ a \in Nat /\ few = a \div d
      <4>1. C * large \in Int
        BY <1>1, <1>6
      <4> QED
        BY <1>2, <1>5, <1>6, <3>1, <3>3, <4>1
    <3>6. C * large = C * small + C * d /\ C * small \in Int /\ C * d \in Int
      BY <1>1, <1>6, <3>1
    <3>7. a < C * d
      BY <1>1, <1>2, <1>6, <3>1, <3>2, <3>6
    <3> HIDE DEF d, a
    <3> DEFINE r == a % d
    <3>8. few \in Nat /\ r \in Nat /\ a = d * few + r
      BY <3>5, Division
    <3> HIDE DEF r
    <3>9. few < C
      <4> SUFFICES ASSUME few >= C PROVE FALSE
        BY <1>1, <3>8
      <4>1. d * few = d * C + d * (few - C) /\ few - C \in Nat
        BY <1>1, <3>5, <3>8
      <4>2. d * (few - C) \in Nat /\ d * C = C * d
        BY <1>1, <3>5, <4>1
      <4> QED
        BY <3>5, <3>6, <3>7, <3>8, <4>1, <4>2
    <3>10. F = a - d * few
      <4>1. (C - few) * large = C * large - few * large
        BY <1>1, <1>6, <3>8
      <4>2. few * large = few * small + d * few
        BY <1>6, <3>1, <3>8 DEF d
      <4>3. few * large \in Int /\ few * small \in Int /\ C * large \in Int /\ d * few \in Int
        BY <1>1, <1>6, <3>1, <3>5, <3>8
      <4> QED
        BY <1>2, <3>4, <4>1, <4>2, <4>3 DEF a
    <3>11. F \in Nat
      <4>1. d * few \in Nat
        BY <3>5, <3>8
      <4> QED
        BY <3>5, <3>8, <3>10, <4>1
    <3>12. (C - few) * large \in Int /\ few * small \in Int
      BY <1>1, <1>6, <3>1, <3>8
    <3> QED
      BY <1>1, <1>2, <2>2, <3>4, <3>8, <3>9, <3>11, <3>12
  <2> QED
    BY <2>1, <2>2
<1>13. total = B + (IF C = 1 THEN 0 ELSE C * CrcLen)
  OBVIOUS
<1> HIDE DEF large, small, few, F, total
<1> QED
  BY <1>10, <1>11, <1>12, <1>13 DEF Cut, s

-----------------------------------------------------------------------------
(* The block handler.                                                      *)

BlockFields == {"A", "G", "N_l", "Q_m", "B", "C", "F", "K", "E"}

\* What an initialisation for A bits in G, of one layer and modulation qm, makes of
\* the handler, whatever it held before
SizeOf(A, r) ==
  LET s == Segmentation(A + CrcLen)
  IN IF s.C = 1 THEN A + CrcLen ELSE IF r <= s.few THEN s.small ELSE s.large

BitsFor(A, G, qm, r) == SegmentBits([G |-> G, C |-> Segmentation(A + CrcLen).C], 1, qm, r)

Sized(blk, A) ==
  /\ DOMAIN blk = BlockFields
  /\ blk.A = A
  /\ blk.C = Segmentation(A + CrcLen).C /\ blk.F = Segmentation(A + CrcLen).F
  /\ \A r \in 1..blk.C : blk.K[r] = SizeOf(A, r)

Segmented(blk, A, G, qm) ==
  /\ DOMAIN blk = BlockFields
  /\ blk.A = A /\ blk.G = G
  /\ blk.C = Segmentation(A + CrcLen).C /\ blk.F = Segmentation(A + CrcLen).F
  /\ \A r \in 1..blk.C : blk.K[r] = SizeOf(A, r) /\ blk.E[r] = BitsFor(A, G, qm, r)

\* A block that may be granted
Granted(A, G, qm) ==
  /\ A \in MinA..MaxA /\ G \in Nat \ {0}
  /\ qm \in {2, 4, 6} /\ G % qm = 0
  /\ (A + CrcLen) % 8 = 0
  /\ Segmentation(A + CrcLen).C = 1 => Segmentation(A + CrcLen).F = 0

LEMMA GrantedIsCut ==
  ASSUME NEW A, NEW G, NEW qm, Granted(A, G, qm)
  PROVE  /\ A \in Nat /\ A # 0 /\ G \in Nat /\ qm \in Nat \ {0}
         /\ Segmentation(A + CrcLen).C \in 1..MaxC
<1>1. A \in Int /\ MinA <= A /\ A <= MaxA /\ G \in Nat
  BY DEF Granted, MinA
<1>2. A \in Nat /\ A # 0 /\ A + CrcLen \in Nat /\ 0 < A + CrcLen /\ A + CrcLen <= MaxA + CrcLen
  BY <1>1 DEF MinA, MaxA, CrcLen
<1>3. Segmentation(A + CrcLen).C \in 1..MaxC
  BY <1>2, SegmentationCuts, SegmentsHaveRoom DEF Cut
<1> QED
  BY <1>1, <1>2, <1>3 DEF Granted

LEMMA WithinMaxG ==
  ASSUME NEW G \in Nat \ {0}, G <= MaxG
  PROVE  G \in 1..MaxG
<1>1. MaxG \in Nat
  BY DEF MaxG
<1> QED
  BY <1>1

\* An initialisation that does not return at once, for no more bits than MAX_G, sets
\* everything.
LEMMA InitSegments ==
  ASSUME NEW blk, DOMAIN blk = BlockFields, NEW A, NEW G, NEW qm, Granted(A, G, qm),
         G <= MaxG, ~Initialised(blk, A, G, 1, qm)
  PROVE  /\ Segmented(BlkInit(blk, A, G, 1, qm).blk, A, G, qm)
         /\ BlkInit(blk, A, G, 1, qm).rc = 0
         /\ BlkInit(blk, A, G, 1, qm).blk.N_l = 1
         /\ BlkInit(blk, A, G, 1, qm).blk.Q_m = qm
<1> DEFINE s == Segmentation(A + CrcLen)
           b == [[blk EXCEPT !.A = A] EXCEPT !.B = A + CrcLen]
           K == [r \in 1..MaxC |-> IF r <= s.C THEN SizeOf(A, r) ELSE b.K[r]]
           c == [[b EXCEPT !.C = s.C, !.F = s.F] EXCEPT !.K = K]
           f == [c EXCEPT !.G = G]
           E == [r \in 1..MaxC |-> IF r <= f.C THEN SegmentBits(f, 1, qm, r) ELSE f.E[r]]
<1>0. /\ A \in Nat /\ G \in Nat /\ qm \in Nat \ {0}
      /\ s.C \in 1..MaxC
  BY GrantedIsCut
<1>1. DOMAIN b = BlockFields /\ b.A = A /\ b.B = A + CrcLen
  BY DEF BlockFields
<1>2. InitC(b) = [rc |-> 0, blk |-> c]
  <2>1. s.C # 0 /\ (s.C = 1 => s.F = 0)
    BY <1>0 DEF Granted, MaxC
  <2> QED
    BY <1>1, <2>1 DEF InitC, SizeOf
<1>3. BlkInit(blk, A, G, 1, qm) = InitE(f, 1, qm)
  <2>1. InitC(b).rc = 0 /\ InitC(b).blk = c
    BY <1>2
  <2>2. A \in MinA..MaxA /\ G \in 1..MaxG /\ (A + CrcLen) % 8 = 0
    <3>1. A \in MinA..MaxA /\ G \in Nat \ {0} /\ (A + CrcLen) % 8 = 0
      BY DEF Granted
    <3>2. G \in 1..MaxG
      BY <3>1, WithinMaxG
    <3> QED
      BY <3>1, <3>2
  <2> HIDE DEF c
  <2>3. BlkInit(blk, A, G, 1, qm) = InitE([InitC(b).blk EXCEPT !.G = G], 1, qm)
    BY <2>1, <2>2 DEF BlkInit
  <2> QED
    BY <2>1, <2>3
<1>4. DOMAIN f = BlockFields /\ f.A = A /\ f.G = G /\ f.C = s.C /\ f.F = s.F /\ f.K = K
  BY <1>1 DEF BlockFields
<1> HIDE DEF f
<1>5. \A r \in 1..s.C : /\ r \in 1..MaxC /\ r <= s.C
                       /\ K[r] = SizeOf(A, r) /\ E[r] = BitsFor(A, G, qm, r)
  <2> SUFFICES ASSUME NEW r \in 1..s.C
               PROVE  /\ r \in 1..MaxC /\ r <= s.C
                      /\ K[r] = SizeOf(A, r) /\ E[r] = BitsFor(A, G, qm, r)
    OBVIOUS
  <2>1. r \in 1..MaxC /\ r <= s.C
    BY <1>0 DEF MaxC
  <2>2. SegmentBits(f, 1, qm, r) = BitsFor(A, G, qm, r)
    BY <1>4 DEF SegmentBits, BitsFor
  <2> QED
    BY <1>4, <2>1, <2>2
<1> DEFINE full == [f EXCEPT !.E = E, !.N_l = 1, !.Q_m = qm]
<1>6. InitE(f, 1, qm) = [rc |-> 0, blk |-> full]
  <2>1. InitE(f, 1, qm).rc = 0
    <3>1. f.C \in 1..MaxC /\ f.G \in Nat /\ 1 \in Nat \ {0}
      <4> HIDE DEF s
      <4> QED
        BY <1>0, <1>4
    <3>2. f.G % (1 * qm) = 0
      <4>1. 1 * qm = qm
        BY <1>0
      <4> QED
        BY <1>4, <4>1 DEF Granted
    <3> QED
      BY <1>0, <3>1, <3>2, BitsAreShared
  <2>2. InitE(f, 1, qm) \in {[rc |-> -2, blk |-> [f EXCEPT !.E = E]], [rc |-> 0, blk |-> full]}
    BY DEF InitE
  <2> HIDE DEF E
  <2> QED
    BY <2>1, <2>2
<1> HIDE DEF E, K, s
<1>7. /\ DOMAIN full = BlockFields
      /\ full.A = A /\ full.G = G /\ full.C = s.C /\ full.F = s.F
      /\ full.K = K /\ full.E = E
      /\ full.N_l = 1 /\ full.Q_m = qm
  BY <1>4 DEF BlockFields
<1> HIDE DEF full
<1>8. Segmented(full, A, G, qm)
  BY <1>5, <1>7 DEF Segmented, s
<1> QED
  BY <1>3, <1>6, <1>7, <1>8

LEMMA NotUpTo ==
  ASSUME NEW n \in Int, NEW m \in Int, ~(n <= m)
  PROVE  n \notin 1..m
  OBVIOUS

\* For more bits it is refused, when the size and its segments have been set and the
\* rest has not.
LEMMA InitRefuses ==
  ASSUME NEW blk, DOMAIN blk = BlockFields, NEW A, NEW G, NEW qm, Granted(A, G, qm),
         ~(G <= MaxG), ~Initialised(blk, A, G, 1, qm)
  PROVE  /\ Sized(BlkInit(blk, A, G, 1, qm).blk, A)
         /\ BlkInit(blk, A, G, 1, qm).rc = -1
         /\ BlkInit(blk, A, G, 1, qm).blk.G = blk.G
<1> DEFINE s == Segmentation(A + CrcLen)
           b == [[blk EXCEPT !.A = A] EXCEPT !.B = A + CrcLen]
           K == [r \in 1..MaxC |-> IF r <= s.C THEN SizeOf(A, r) ELSE b.K[r]]
           c == [[b EXCEPT !.C = s.C, !.F = s.F] EXCEPT !.K = K]
<1>0. A \in Nat /\ G \in Nat /\ s.C \in 1..MaxC
  BY GrantedIsCut
<1>1. DOMAIN b = BlockFields /\ b.A = A /\ b.B = A + CrcLen
  BY DEF BlockFields
<1>2. InitC(b) = [rc |-> 0, blk |-> c]
  <2>1. s.C # 0 /\ (s.C = 1 => s.F = 0)
    BY <1>0 DEF Granted, MaxC
  <2> QED
    BY <1>1, <2>1 DEF InitC, SizeOf
<1>3. BlkInit(blk, A, G, 1, qm) = [rc |-> -1, blk |-> c]
  <2>1. InitC(b).rc = 0 /\ InitC(b).blk = c
    BY <1>2
  <2>2. A \in MinA..MaxA /\ G \notin 1..MaxG /\ (A + CrcLen) % 8 = 0
    <3>1. A \in MinA..MaxA /\ (A + CrcLen) % 8 = 0
      BY DEF Granted
    <3>2. G \in Nat
      BY <1>0
    <3>3. G \in Int /\ MaxG \in Int
      BY <3>2 DEF MaxG
    <3>4. G \notin 1..MaxG
      BY <3>3, NotUpTo
    <3> QED
      BY <3>1, <3>4, Zenon
  <2> HIDE DEF c
  <2>3. BlkInit(blk, A, G, 1, qm) = [rc |-> -1, blk |-> InitC(b).blk]
    BY <2>1, <2>2 DEF BlkInit
  <2> QED
    BY <2>1, <2>3
<1>4. /\ DOMAIN c = BlockFields /\ c.A = A /\ c.G = blk.G
      /\ c.C = s.C /\ c.F = s.F /\ c.K = K
  BY <1>1 DEF BlockFields
<1> HIDE DEF c
<1>5. \A r \in 1..s.C : K[r] = SizeOf(A, r)
  BY <1>0 DEF MaxC
<1> HIDE DEF K, s
<1>6. Sized(c, A)
  BY <1>4, <1>5 DEF Sized, s
<1> QED
  BY <1>3, <1>4, <1>6

LEMMA SegmentedIsSized ==
  ASSUME NEW blk, NEW A, NEW G, NEW qm, Segmented(blk, A, G, qm)
  PROVE  Sized(blk, A)
  BY DEF Segmented, Sized

LEMMA EmptyIsFresh == DOMAIN EmptyBlock = BlockFields /\ EmptyBlock.A = 0
  BY DEF EmptyBlock, BlockFields

\* A sum goes on with the next entry.
LEMMA SumsAdd ==
  ASSUME NEW m \in Nat, NEW f, \A i \in 1..m : f[i] \in Int, NEW n \in 1..m
  PROVE  SumUpTo(f, n) = SumUpTo(f, n - 1) + f[n]
<1> DEFINE Rule == [p \in Nat \X Int |-> IF p[1] \in 1..m THEN p[2] + f[p[1]] ELSE p[2]]
<1>1. Rule \in [Nat \X Int -> Int]
  OBVIOUS
<1>2. \A i \in 1..m, s \in Int : <<i, s>> \in Nat \X Int /\ Rule[<<i, s>>] = s + f[i]
  OBVIOUS
<1> HIDE DEF Rule
<1>3. PICK s \in [0..m -> Int] : Iterates(s, m, 0, Rule)
  <2>1. 0 \in Int
    OBVIOUS
  <2> QED
    BY <1>1, <2>1, Iteration
<1>4. s[0] = 0 /\ \A i \in 1..m : s[i] = Rule[<<i, s[i - 1]>>]
  BY <1>3 DEF Iterates
<1>5. \A i \in 1..m : s[i] = s[i - 1] + f[i]
  <2> SUFFICES ASSUME NEW i \in 1..m PROVE s[i] = s[i - 1] + f[i]
    OBVIOUS
  <2>1. s[i - 1] \in Int
    OBVIOUS
  <2> QED
    BY <1>2, <1>4, <2>1
<1>6. ASSUME NEW k \in 0..m PROVE SumUpTo(f, k) = s[k]
  <2> DEFINE t == [i \in 0..k |-> s[i]]
  <2>1. k \in Nat /\ t \in [0..k -> Int] /\ t[0] = 0 /\ t[k] = s[k]
    BY <1>4
  <2>2. \A i \in 1..k : t[i] = t[i - 1] + f[i]
    BY <1>5
  <2> HIDE DEF t
  <2>3. SumUpTo(f, k) = t[k]
    BY <2>1, <2>2, SumIs
  <2> QED
    BY <2>1, <2>3
<1>7. n \in 0..m /\ n - 1 \in 0..m
  OBVIOUS
<1> QED
  BY <1>5, <1>6, <1>7

\* The segments of a block, joined without their checks, are the block with its own
Tiled(blk) ==
  LET joined == IF blk.C = 1 THEN blk.K[1] ELSE SumUpTo(blk.K, blk.C) - blk.C * CrcLen
  IN /\ joined = blk.A + CrcLen
     /\ \A r \in 1..blk.C : blk.K[r] \in {InterlvK(i) : i \in 1..188}
     /\ \A r \in 1..(blk.C - 1) : SegmentStart(blk, r) + SegmentBytes(blk, r) = SegmentStart(blk, r + 1)

\* They take it up when it is cut without filler.
LEMMA SegmentsAreTiled ==
  ASSUME NEW A, NEW G, NEW qm, Granted(A, G, qm), NEW blk, Segmented(blk, A, G, qm), blk.F = 0
  PROVE  Tiled(blk)
<1> DEFINE B     == A + CrcLen
           s     == Segmentation(B)
           C     == s.C
           large == s.large
           small == s.small
           few   == s.few
           K     == blk.K
<1>1. A \in Nat /\ B \in Nat /\ 0 < B /\ B <= MaxA + CrcLen
  <2>1. A \in Int /\ MinA <= A /\ A <= MaxA
    BY DEF Granted, MinA
  <2> QED
    BY <2>1 DEF MinA, MaxA, CrcLen
<1>2. Cut(B, s)
  <2> HIDE DEF B
  <2> QED
    BY <1>1, SegmentationCuts
<1>3. /\ C \in 1..13 /\ s.F = 0 /\ blk.C = C /\ blk.A = A
      /\ \A r \in 1..C : K[r] = IF C = 1 THEN B ELSE IF r <= few THEN small ELSE large
  BY GrantedIsCut DEF Segmented, SizeOf, MaxC
<1> HIDE DEF B, s
<1>4. PICK i \in 1..188 : large = InterlvK(i) /\ (C # 1 => i # 1 /\ small = InterlvK(i - 1))
  BY <1>2 DEF Cut
<1>5. /\ few \in 0..(C - 1) /\ (C = 1 => few = 0 /\ small = 0)
      /\ (C - few) * large + few * small = B + (IF C = 1 THEN 0 ELSE C * 24)
  BY <1>1, <1>2, <1>3 DEF Cut, CrcLen
<1>6. /\ large \in Nat
      /\ C # 1 => small \in Nat /\ i - 1 \in 1..188 /\ i \in 2..188 /\ small < large
  <2>1. large \in Nat
    BY <1>4, InterleaverSizesAscend
  <2>2. C # 1 => i - 1 \in 1..188 /\ i \in 2..188
    BY <1>4
  <2>3. C # 1 => small \in Nat /\ small < large
    <3>1. \A k \in 2..188 : InterlvK(k - 1) < InterlvK(k)
      BY InterleaverSizesAscend
    <3>2. \A k \in 1..188 : InterlvK(k) \in Nat
      BY InterleaverSizesAscend
    <3>3. C # 1 => InterlvK(i - 1) \in Nat /\ InterlvK(i - 1) < InterlvK(i)
      BY <2>2, <3>1, <3>2, Zenon
    <3> QED
      BY <1>4, <3>3, Zenon
  <2> QED
    BY <2>1, <2>2, <2>3
<1> HIDE DEF C, large, small, few, K
<1>7. CASE C = 1
  <2>1. K[1] = B /\ large = B
    BY <1>1, <1>3, <1>5, <1>6, <1>7
  <2>2. \A r \in 1..blk.C : K[r] \in {InterlvK(k) : k \in 1..188}
    <3>1. \A r \in 1..blk.C : r = 1
      BY <1>3, <1>7
    <3>2. InterlvK(i) \in {InterlvK(k) : k \in 1..188}
      OBVIOUS
    <3>3. K[1] = InterlvK(i)
      BY <1>4, <2>1
    <3>4. K[1] \in {InterlvK(k) : k \in 1..188}
      BY <3>2, <3>3, Zenon
    <3> DEFINE Sizes == {InterlvK(k) : k \in 1..188}
    <3>5. \A r \in 1..blk.C : K[r] = K[1]
      BY <3>1
    <3>6. K[1] \in Sizes
      BY <3>4
    <3> HIDE DEF Sizes
    <3> QED
      BY <3>5, <3>6 DEF Sizes
  <2>3. \A r \in 1..(blk.C - 1) : FALSE
    BY <1>3, <1>7
  <2> QED
    BY <1>3, <1>7, <2>1, <2>2, <2>3 DEF Tiled, K, B
<1>8. CASE C # 1
  <2> DEFINE unit   == large - small
             longer == C - few
             size   == [r \in 1..MaxC |-> (K[r] - CrcLen) \div 8]
  <2>1. unit \in Nat /\ longer \in 0..C /\ small \in Nat /\ C \in Nat
    BY <1>3, <1>5, <1>6, <1>8
  <2>2. LastLonger(K, C, small, unit, longer)
    <3>1. \A r \in 1..C : K[r] = IF r <= few THEN small ELSE large
      BY <1>3, <1>8
    <3>2. C - longer = few /\ small + unit = large
      BY <1>3, <1>5, <1>6, <1>8
    <3> HIDE DEF unit, longer
    <3> QED
      BY <3>1, <3>2 DEF LastLonger
  <2>3. SumUpTo(K, C) = small * C + unit * longer
    <3> HIDE DEF unit, longer
    <3> QED
      BY <2>1, <2>2, TwoSizes
  <2>4. small * C + unit * longer = B + C * 24
    <3>1. small * C + (large - small) * (C - few) = (C - few) * large + few * small
      BY <1>3, <1>5, <1>6, <1>8
    <3> QED
      BY <1>5, <1>8, <3>1
  <2>5. SumUpTo(K, C) - C * 24 = B
    <3> DEFINE total == SumUpTo(K, C)
               over  == C * 24
    <3>1. total = B + over /\ over \in Nat /\ B \in Nat
      BY <1>1, <1>3, <2>3, <2>4
    <3> HIDE DEF total, over
    <3>2. total - over = B
      BY <3>1
    <3> QED
      BY <3>2 DEF total, over
  <2>6. \A r \in 1..C : K[r] \in {InterlvK(k) : k \in 1..188}
    <3>1. \A r \in 1..C : K[r] = small \/ K[r] = large
      BY <1>3, <1>8
    <3> QED
      BY <1>4, <1>6, <1>8, <3>1
  <2>7. ASSUME NEW r \in 1..(C - 1)
        PROVE  SegmentStart(blk, r) + SegmentBytes(blk, r) = SegmentStart(blk, r + 1)
    <3>1. \A k \in 1..C : size[k] \in Int
      <4>1. ASSUME NEW k \in 1..C PROVE (K[k] - CrcLen) \div 8 \in Int /\ k \in 1..MaxC
        <5>1. K[k] \in Int
          BY <1>3, <1>6, <1>8
        <5>2. CrcLen \in Int
          BY DEF CrcLen
        <5>3. k \in 1..MaxC
          BY <1>3 DEF MaxC
        <5> QED
          BY <5>1, <5>2, <5>3
      <4> HIDE DEF K
      <4> QED
        BY <4>1
    <3>2. r \in 1..C /\ (r + 1) - 1 = r /\ r \in 1..MaxC
      BY <1>3 DEF MaxC
    <3>3. size[r] = (K[r] - CrcLen) \div 8
      BY <3>2
    <3> HIDE DEF size
    <3>4. SumUpTo(size, r) = SumUpTo(size, r - 1) + size[r]
      BY <2>1, <3>1, <3>2, SumsAdd
    <3>5. SegmentStart(blk, r) = SumUpTo(size, r - 1) /\ SegmentStart(blk, r + 1) = SumUpTo(size, (r + 1) - 1)
      BY Zenon DEF SegmentStart, size, K
    <3>6. SegmentBytes(blk, r) = (K[r] - CrcLen) \div 8
      BY <1>3, <1>8 DEF SegmentBytes, K
    <3> QED
      BY <3>2, <3>3, <3>4, <3>5, <3>6
  <2>8. CrcLen = 24
    BY DEF CrcLen
  <2> HIDE DEF size
  <2> QED
    BY <1>3, <1>8, <2>5, <2>6, <2>7, <2>8 DEF Tiled, K, B
<1> QED
  BY <1>7, <1>8

-----------------------------------------------------------------------------
(* Sequences that go up.                                                   *)

\* s lists the members of T, the lowest first
ListsUp(s, T) ==
  /\ s \in Seq(Nat)
  /\ \A i, j \in 1..Len(s) : i < j => s[i] < s[j]
  /\ {s[i] : i \in 1..Len(s)} = T

\* A list of numbers below n goes on with n.
LEMMA AppendUp ==
  ASSUME NEW n \in Nat, NEW T \in SUBSET (0..(n - 1)), NEW s, ListsUp(s, T)
  PROVE  ListsUp(Append(s, n), T \cup {n})
<1> DEFINE t == Append(s, n)
           m == Len(s)
<1>1. s \in Seq(Nat) /\ m \in Nat
  BY DEF ListsUp
<1>2. /\ t \in Seq(Nat) /\ Len(t) = m + 1
      /\ \A i \in 1..m : t[i] = s[i]
      /\ t[m + 1] = n
  BY <1>1
<1>3. \A i \in 1..m : s[i] \in T /\ s[i] < n
  BY <1>1 DEF ListsUp
<1>4. \A i, j \in 1..m : i < j => s[i] < s[j]
  BY DEF ListsUp
<1>5. {s[i] : i \in 1..m} = T
  BY DEF ListsUp
<1> HIDE DEF t, m
<1>6. 1..(m + 1) = 1..m \cup {m + 1}
  BY <1>1
<1>7. ASSUME NEW i \in 1..(m + 1), NEW j \in 1..(m + 1), i < j PROVE t[i] < t[j]
  <2>1. i \in 1..m /\ (j \in 1..m \/ j = m + 1)
    BY <1>1, <1>7
  <2>2. CASE j \in 1..m
    BY <1>2, <1>4, <1>7, <2>1, <2>2
  <2>3. CASE j = m + 1
    BY <1>2, <1>3, <2>1, <2>3
  <2> QED
    BY <2>1, <2>2, <2>3
<1>8. {t[i] : i \in 1..(m + 1)} = T \cup {n}
  <2>1. {t[i] : i \in 1..(m + 1)} = {t[i] : i \in 1..m} \cup {t[m + 1]}
    BY <1>6
  <2>2. {t[i] : i \in 1..m} = {s[i] : i \in 1..m}
    BY <1>2
  <2> QED
    BY <1>2, <1>5, <2>1, <2>2
<1> QED
  BY <1>2, <1>7, <1>8 DEF t, ListsUp

\* A set has one such list.
LEMMA OneListUp ==
  ASSUME NEW T, NEW s, NEW t, ListsUp(s, T), ListsUp(t, T)
  PROVE  s = t
<1> DEFINE m == Len(s)
           n == Len(t)
<1>1. /\ s \in Seq(Nat) /\ m \in Nat
      /\ t \in Seq(Nat) /\ n \in Nat
  BY DEF ListsUp
<1>2. (\A i \in 1..m : s[i] \in Nat) /\ (\A i \in 1..n : t[i] \in Nat)
  BY <1>1
<1>3. /\ \A i, j \in 1..m : i < j => s[i] < s[j]
      /\ \A i, j \in 1..n : i < j => t[i] < t[j]
  BY DEF ListsUp
<1>4. /\ \A i \in 1..m : \E k \in 1..n : t[k] = s[i]
      /\ \A i \in 1..n : \E k \in 1..m : s[k] = t[i]
  BY DEF ListsUp
<1> HIDE DEF m, n
<1> DEFINE A == {i \in Nat : \A j \in 1..i : j <= m /\ j <= n => s[j] = t[j]}
<1>5. Nat \subseteq A
  <2>1. 0 \in A
    OBVIOUS
  <2>2. ASSUME NEW i \in Nat, i \in A PROVE i + 1 \in A
    <3> DEFINE z == i + 1
    <3>0. z \in Nat /\ z >= 1
      OBVIOUS
    <3>1. \A j \in 1..i : j <= m /\ j <= n => s[j] = t[j]
      BY <2>2
    <3>2. ASSUME z <= m, z <= n PROVE s[z] = t[z]
      <4>1. z \in 1..m /\ z \in 1..n
        BY <1>1, <3>0, <3>2
      <4>2. s[z] \in Nat /\ t[z] \in Nat
        <5> HIDE DEF z
        <5> QED
          BY <1>2, <4>1
      <4>3. PICK k \in 1..n : t[k] = s[z]
        <5> HIDE DEF z
        <5> QED
          BY <1>4, <4>1
      <4>4. PICK l \in 1..m : s[l] = t[z]
        <5> HIDE DEF z
        <5> QED
          BY <1>4, <4>1
      <4>5. k >= z
        <5> SUFFICES ASSUME k < z PROVE FALSE
          BY <1>1, <3>0
        <5>1. k \in 1..i /\ k <= m /\ k <= n
          BY <1>1, <3>2
        <5>2. k \in 1..m
          BY <1>1, <5>1
        <5>3. s[k] < s[z]
          <6> HIDE DEF z
          <6> QED
            BY <1>3, <4>1, <5>2
        <5>4. s[k] = s[z]
          BY <3>1, <4>3, <5>1
        <5> HIDE DEF z
        <5> QED
          BY <4>2, <5>3, <5>4
      <4>6. l >= z
        <5> SUFFICES ASSUME l < z PROVE FALSE
          BY <1>1, <3>0
        <5>1. l \in 1..i /\ l <= m /\ l <= n
          BY <1>1, <3>2
        <5>2. l \in 1..n
          BY <1>1, <5>1
        <5>3. t[l] < t[z]
          <6> HIDE DEF z
          <6> QED
            BY <1>3, <4>1, <5>2
        <5>4. t[l] = t[z]
          BY <3>1, <4>4, <5>1
        <5> HIDE DEF z
        <5> QED
          BY <4>2, <5>3, <5>4
      <4> HIDE DEF z
      <4>7. t[z] <= s[z]
        <5>1. CASE k = z
          BY <4>2, <4>3, <5>1
        <5>2. CASE k > z
          BY <1>3, <4>1, <4>2, <4>3, <5>2
        <5> QED
          BY <1>1, <3>0, <4>5, <5>1, <5>2
      <4>8. s[z] <= t[z]
        <5>1. CASE l = z
          BY <4>2, <4>4, <5>1
        <5>2. CASE l > z
          BY <1>3, <4>1, <4>2, <4>4, <5>2
        <5> QED
          BY <1>1, <3>0, <4>6, <5>1, <5>2
      <4>9. \A a, b \in Nat : a <= b /\ b <= a => a = b
        OBVIOUS
      <4> QED
        BY <4>2, <4>7, <4>8, <4>9
    <3>3. 1..z = 1..i \cup {z}
      OBVIOUS
    <3> HIDE DEF z
    <3> QED
      BY <3>0, <3>1, <3>2, <3>3 DEF z
  <2> HIDE DEF A
  <2> QED
    BY <2>1, <2>2, Climb
<1>6. \A j \in Nat : j \in 1..m /\ j \in 1..n => s[j] = t[j]
  <2> SUFFICES ASSUME NEW j \in Nat, j \in 1..m, j \in 1..n PROVE s[j] = t[j]
    OBVIOUS
  <2>1. j \in A /\ j \in 1..j /\ j <= m /\ j <= n
    BY <1>1, <1>5
  <2> QED
    BY <2>1
<1> HIDE DEF A
<1>7. ~(m > n)
  <2> SUFFICES ASSUME m > n PROVE FALSE
    OBVIOUS
  <2> DEFINE z == n + 1
  <2>1. z \in 1..m /\ z > n
    BY <1>1
  <2> HIDE DEF z
  <2>2. PICK k \in 1..n : t[k] = s[z]
    BY <1>4, <2>1
  <2>3. k \in 1..m /\ k < z /\ k \in Nat
    BY <1>1, <2>1
  <2>4. s[k] = t[k]
    BY <1>6, <2>3
  <2>5. s[k] < s[z] /\ s[k] \in Nat
    BY <1>2, <1>3, <2>1, <2>3
  <2> QED
    BY <2>2, <2>4, <2>5
<1>8. ~(n > m)
  <2> SUFFICES ASSUME n > m PROVE FALSE
    OBVIOUS
  <2> DEFINE z == m + 1
  <2>1. z \in 1..n /\ z > m
    BY <1>1
  <2> HIDE DEF z
  <2>2. PICK k \in 1..m : s[k] = t[z]
    BY <1>4, <2>1
  <2>3. k \in 1..n /\ k < z /\ k \in Nat
    BY <1>1, <2>1
  <2>4. s[k] = t[k]
    BY <1>6, <2>3
  <2>5. t[k] < t[z] /\ t[k] \in Nat
    BY <1>2, <1>3, <2>1, <2>3
  <2> QED
    BY <2>2, <2>4, <2>5
<1>9. m = n
  BY <1>1, <1>7, <1>8
<1>10. \A j \in 1..m : s[j] = t[j]
  BY <1>1, <1>6, <1>9
<1> QED
  BY <1>1, <1>9, <1>10 DEF m, n

\* Lists made of the lists of one turn after the other
Joins(out, T, n) == out[0] = << >> /\ \A t \in 1..n : out[t] = out[t - 1] \o T[t]

\* There are such lists.
LEMMA JoinExists ==
  ASSUME NEW n \in Nat, NEW E, NEW T \in [1..n -> Seq(E)]
  PROVE  \E out \in [0..n -> Seq(E)] : Joins(out, T, n)
<1> DEFINE S == Seq(E)
           first == << >>
           TurnTaken == [p \in Nat \X S |-> IF p[1] \in 1..n THEN p[2] \o T[p[1]] ELSE p[2]]
<1>1. first \in S
  OBVIOUS
<1>2. TurnTaken \in [Nat \X S -> S]
  <2>1. ASSUME NEW i \in Nat, NEW s \in S PROVE (IF i \in 1..n THEN s \o T[i] ELSE s) \in S
    OBVIOUS
  <2> QED
    BY <2>1
<1>3. \A i \in 1..n, s \in S : TurnTaken[<<i, s>>] = s \o T[i]
  <2> SUFFICES ASSUME NEW i \in 1..n, NEW s \in S PROVE TurnTaken[<<i, s>>] = s \o T[i]
    OBVIOUS
  <2>1. <<i, s>> \in Nat \X S /\ <<i, s>>[1] = i /\ <<i, s>>[2] = s
    OBVIOUS
  <2> HIDE DEF S
  <2> QED
    BY <2>1
<1> HIDE DEF S, TurnTaken, first
<1>4. PICK out \in [0..n -> S] : Iterates(out, n, first, TurnTaken)
  BY <1>1, <1>2, Iteration
<1>5. ASSUME NEW t \in 1..n PROVE out[t] = out[t - 1] \o T[t]
  <2>1. t - 1 \in 0..n
    OBVIOUS
  <2>2. out[t - 1] \in S
    BY <2>1
  <2> QED
    BY <1>3, <1>4, <2>2 DEF Iterates
<1>6. out[0] = << >>
  BY <1>4 DEF Iterates, first
<1> QED
  BY <1>4, <1>5, <1>6 DEF Joins, S

\* FlattenSeq joins the lists of all turns.
LEMMA FlattenedTurns ==
  ASSUME NEW n \in Nat, NEW E, NEW T \in [1..n -> Seq(E)]
  PROVE  \E out : Joins(out, T, n) /\ FlattenSeq(T) = out[n]
<1>1. Len(T) = n
  <2>1. T \in Seq(Seq(E)) /\ DOMAIN T = 1..n
    OBVIOUS
  <2> QED
    BY <2>1
<1>2. CASE n = 0
  <2>1. T = << >>
    BY <1>2
  <2>2. FlattenSeq(T) = << >>
    BY <1>1, <1>2, <2>1, Zenon DEF FlattenSeq
  <2> DEFINE out == [t \in {0} |-> << >>]
  <2>3. Joins(out, T, n) /\ out[n] = << >>
    BY <1>2 DEF Joins
  <2> QED
    BY <2>2, <2>3, Zenon
<1>3. CASE n # 0
  <2> DEFINE Runs(g) == g = [i \in 1..n |-> IF i = 1 THEN T[i] ELSE g[i - 1] \o T[i]]
             flatten == CHOOSE g : Runs(g)
  <2>1. PICK out \in [0..n -> Seq(E)] : Joins(out, T, n)
    BY JoinExists
  <2> DEFINE g == [i \in 1..n |-> out[i]]
  <2>2. ASSUME NEW i \in 1..n PROVE g[i] = IF i = 1 THEN T[i] ELSE g[i - 1] \o T[i]
    <3>1. out[i] = out[i - 1] \o T[i] /\ out[0] = << >> /\ T[i] \in Seq(E)
      BY <2>1 DEF Joins
    <3>2. << >> \o T[i] = T[i]
      BY <3>1
    <3>3. CASE i = 1
      <4>1. i - 1 = 0
        BY <3>3
      <4>2. out[i] = T[i]
        BY <3>1, <3>2, <4>1, Zenon
      <4> QED
        BY <3>3, <4>2
    <3>4. CASE i # 1
      <4>1. i - 1 \in 1..n
        BY <3>4
      <4> QED
        BY <3>1, <3>4, <4>1
    <3> QED
      BY <3>3, <3>4
  <2>3. Runs(g)
    <3>1. g = [i \in 1..n |-> g[i]]
      OBVIOUS
    <3> HIDE DEF g
    <3> QED
      BY <2>2, <3>1, Zenon
  <2>4. Runs(flatten)
    <3> HIDE DEF Runs, g
    <3> QED
      BY <2>3, Zenon
  <2>5. FlattenSeq(T) = flatten[n]
    BY <1>1, <1>3, Zenon DEF FlattenSeq
  <2> HIDE DEF flatten
  <2>6. \A i \in 1..n : flatten[i] = IF i = 1 THEN T[i] ELSE flatten[i - 1] \o T[i]
    BY <2>4, Zenon
  <2> DEFINE all == [t \in 0..n |-> IF t = 0 THEN << >> ELSE flatten[t]]
  <2>7. ASSUME NEW t \in 1..n PROVE all[t] = all[t - 1] \o T[t]
    <3>1. T[t] \in Seq(E) /\ << >> \o T[t] = T[t]
      OBVIOUS
    <3>2. CASE t = 1
      BY <2>6, <3>1, <3>2
    <3>3. CASE t # 1
      <4>1. t - 1 \in 1..n /\ t - 1 \in 0..n /\ t \in 0..n
        BY <3>3
      <4>2. flatten[t] = flatten[t - 1] \o T[t]
        BY <2>6, <3>3
      <4>3. all[t] = flatten[t] /\ all[t - 1] = flatten[t - 1]
        BY <3>3, <4>1
      <4> QED
        BY <4>2, <4>3, Zenon
    <3> QED
      BY <3>2, <3>3
  <2>8. all[0] = << >> /\ all[n] = flatten[n]
    BY <1>3
  <2> HIDE DEF all
  <2> QED
    BY <2>5, <2>7, <2>8 DEF Joins
<1> QED
  BY <1>2, <1>3

\* The last of n turns
LEMMA OneMore ==
  ASSUME NEW n \in Nat \ {0}
  PROVE  1..n = 1..(n - 1) \cup {n}
  OBVIOUS

\* A list that goes up and a higher one make one that goes up.
LEMMA JoinUp ==
  ASSUME NEW a, NEW b, NEW A, NEW B, ListsUp(a, A), ListsUp(b, B), \A x \in A, y \in B : x < y
  PROVE  ListsUp(a \o b, A \cup B)
<1> DEFINE m == Len(a)
           n == Len(b)
           c == a \o b
<1>1. /\ a \in Seq(Nat) /\ m \in Nat /\ {a[i] : i \in 1..m} = A
      /\ b \in Seq(Nat) /\ n \in Nat /\ {b[i] : i \in 1..n} = B
  BY DEF ListsUp
<1>2. /\ \A i, j \in 1..m : i < j => a[i] < a[j]
      /\ \A i, j \in 1..n : i < j => b[i] < b[j]
  BY DEF ListsUp
<1>3. /\ c \in Seq(Nat) /\ Len(c) = m + n
      /\ \A i \in 1..m : c[i] = a[i]
      /\ \A i \in 1..n : c[m + i] = b[i]
      /\ \A i \in 1..(m + n) : i > m => i - m \in 1..n /\ c[i] = b[i - m]
  BY <1>1
<1> HIDE DEF m, n, c
<1>4. ASSUME NEW i \in 1..(m + n), NEW j \in 1..(m + n), i < j PROVE c[i] < c[j]
  <2>1. CASE j <= m
    <3>1. i \in 1..m /\ j \in 1..m
      BY <1>1, <1>4, <2>1
    <3> QED
      BY <1>2, <1>3, <1>4, <3>1
  <2>2. CASE i <= m /\ j > m
    <3>1. i \in 1..m /\ j - m \in 1..n
      BY <1>1, <1>3, <2>2
    <3>2. a[i] \in A /\ b[j - m] \in B
      BY <1>1, <3>1
    <3> QED
      BY <1>3, <2>2, <3>1, <3>2
  <2>3. CASE i > m
    <3>1. j > m /\ i - m \in 1..n /\ j - m \in 1..n /\ i - m < j - m
      BY <1>1, <1>3, <1>4, <2>3
    <3> QED
      BY <1>2, <1>3, <2>3, <3>1
  <2> QED
    BY <1>1, <2>1, <2>2, <2>3
<1>5. {c[i] : i \in 1..(m + n)} = A \cup B
  <2>1. ASSUME NEW i \in 1..(m + n) PROVE c[i] \in A \cup B
    <3>1. CASE i <= m
      <4>1. i \in 1..m
        BY <1>1, <3>1
      <4> QED
        BY <1>1, <1>3, <4>1
    <3>2. CASE i > m
      BY <1>1, <1>3, <3>2
    <3> QED
      BY <1>1, <3>1, <3>2
  <2>2. ASSUME NEW x \in A PROVE \E i \in 1..(m + n) : x = c[i]
    <3>1. PICK i \in 1..m : x = a[i]
      BY <1>1
    <3>2. i \in 1..(m + n)
      BY <1>1
    <3> QED
      BY <1>3, <3>1, <3>2
  <2>3. ASSUME NEW x \in B PROVE \E i \in 1..(m + n) : x = c[i]
    <3>1. PICK i \in 1..n : x = b[i]
      BY <1>1
    <3>2. m + i \in 1..(m + n)
      BY <1>1
    <3> QED
      BY <1>3, <3>1, <3>2
  <2> QED
    BY <2>1, <2>2, <2>3
<1> QED
  BY <1>3, <1>4, <1>5 DEF c, ListsUp

\* The members of turn t are A[t], those of a turn below those of the next.
TurnsUp(T, A, n) ==
  /\ \A t \in 1..n : ListsUp(T[t], A[t])
  /\ \A s, t \in 1..n : s < t => \A x \in A[s], y \in A[t] : x < y

\* FlattenSeq makes one list of them that goes up.
LEMMA FlattenedUp ==
  ASSUME NEW n \in Nat, NEW T \in [1..n -> Seq(Nat)], NEW A, TurnsUp(T, A, n)
  PROVE  ListsUp(FlattenSeq(T), UNION {A[t] : t \in 1..n})
<1>1. PICK out : Joins(out, T, n) /\ FlattenSeq(T) = out[n]
  BY FlattenedTurns
<1>2. /\ out[0] = << >>
      /\ \A t \in 1..n : out[t] = out[t - 1] \o T[t]
  BY <1>1 DEF Joins
<1>3. /\ \A t \in 1..n : ListsUp(T[t], A[t])
      /\ \A s, t \in 1..n : s < t => \A x \in A[s], y \in A[t] : x < y
  BY DEF TurnsUp
<1> DEFINE Upto(t) == UNION {A[s] : s \in 1..t}
           G == {t \in 0..n : ListsUp(out[t], Upto(t))}
<1>4. 0 \in G
  <2>1. Upto(0) = {} /\ Len(<< >>) = 0 /\ << >> \in Seq(Nat)
    OBVIOUS
  <2>2. ListsUp(<< >>, {})
    BY DEF ListsUp
  <2> HIDE DEF Upto
  <2>3. ListsUp(out[0], Upto(0))
    BY <1>2, <2>1, <2>2, Zenon
  <2> QED
    BY <2>3
<1>5. ASSUME NEW t \in 1..n, t - 1 \in G PROVE t \in G
  <2>1. ListsUp(out[t - 1], Upto(t - 1)) /\ ListsUp(T[t], A[t]) /\ out[t] = out[t - 1] \o T[t]
    BY <1>2, <1>3, <1>5
  <2>2. \A x \in Upto(t - 1), y \in A[t] : x < y
    <3>1. \A s \in 1..(t - 1) : s \in 1..n /\ s < t
      OBVIOUS
    <3> QED
      BY <1>3, <3>1
  <2>3. Upto(t) = Upto(t - 1) \cup A[t]
    <3>1. 1..t = 1..(t - 1) \cup {t}
      BY OneMore
    <3> QED
      BY <3>1
  <2> HIDE DEF Upto
  <2>4. ListsUp(out[t - 1] \o T[t], Upto(t - 1) \cup A[t])
    BY <2>1, <2>2, JoinUp
  <2>5. ListsUp(out[t], Upto(t))
    BY <2>1, <2>3, <2>4, Zenon
  <2> QED
    BY <2>5
<1>6. n \in G
  <2> HIDE DEF G
  <2>1. 0..n \subseteq G
    BY <1>4, <1>5, ClimbTo
  <2> QED
    BY <2>1
<1> QED
  BY <1>1, <1>6

\* What Ascending gives are the members below the bound.
LEMMA AscendingLists ==
  ASSUME NEW set, NEW bound \in Nat
  PROVE  ListsUp(Ascending(set, bound), set \cap 0..(bound - 1))
<1> DEFINE M == set \cap 0..(bound - 1)
           Single(k) == IF k \in set /\ k < bound THEN <<k>> ELSE << >>
           TurnOf(r) == [j \in 1..24 |-> Single(24 * (r - 1) + j - 1)]
           Row(r) == FlattenSeq(TurnOf(r))
           rows == (bound + 23) \div 24
           T == [r \in 1..rows |-> Row(r)]
           A == [r \in 1..rows |-> M \cap (24 * (r - 1))..(24 * r - 1)]
<1>1. Ascending(set, bound) = FlattenSeq(T)
  BY DEF Ascending
<1>2. ASSUME NEW k \in Nat PROVE ListsUp(Single(k), M \cap {k}) /\ Single(k) \in Seq(Nat)
  <2>1. CASE k \in set /\ k < bound
    <3>1. M \cap {k} = {k} /\ Single(k) = <<k>>
      BY <2>1
    <3>2. ListsUp(<<k>>, {k}) /\ <<k>> \in Seq(Nat)
      BY DEF ListsUp
    <3> QED
      BY <3>1, <3>2, Zenon
  <2>2. CASE ~(k \in set /\ k < bound)
    <3>1. M \cap {k} = {} /\ Single(k) = << >>
      BY <2>2
    <3>2. ListsUp(<< >>, {}) /\ << >> \in Seq(Nat)
      BY DEF ListsUp
    <3> QED
      BY <3>1, <3>2, Zenon
  <2> QED
    BY <2>1, <2>2
<1> HIDE DEF Single
<1>3. ASSUME NEW r \in 1..rows PROVE ListsUp(Row(r), A[r])
  <2> DEFINE first == 24 * (r - 1)
             B == [j \in 1..24 |-> M \cap {first + j - 1}]
  <2>1. rows \in Nat /\ r \in Nat /\ first \in Nat
    OBVIOUS
  <2>2. \A j \in 1..24 : first + j - 1 \in Nat
    BY <2>1
  <2> HIDE DEF first
  <2>3. TurnOf(r) \in [1..24 -> Seq(Nat)]
    BY <1>2, <2>2 DEF first
  <2>4. TurnsUp(TurnOf(r), B, 24)
    <3>1. ASSUME NEW j \in 1..24 PROVE ListsUp(TurnOf(r)[j], B[j])
      <4>1. TurnOf(r)[j] = Single(first + j - 1) /\ B[j] = M \cap {first + j - 1}
        BY DEF first
      <4> QED
        BY <1>2, <2>2, <4>1
    <3>2. ASSUME NEW s \in 1..24, NEW t \in 1..24, s < t, NEW x \in B[s], NEW y \in B[t] PROVE x < y
      <4>1. x = first + s - 1 /\ y = first + t - 1
        OBVIOUS
      <4> QED
        BY <2>1, <3>2, <4>1
    <3> QED
      BY <3>1, <3>2 DEF TurnsUp
  <2>5. UNION {B[j] : j \in 1..24} = A[r]
    <3>1. \A j \in 1..24 : B[j] = M \cap {first + j - 1}
      OBVIOUS
    <3>2. A[r] = M \cap first..(24 * r - 1)
      BY DEF first
    <3>3. ASSUME NEW k \in Nat PROVE k \in first..(24 * r - 1) <=> \E j \in 1..24 : k = first + j - 1
      <4>1. k \in first..(24 * r - 1) => k - first + 1 \in 1..24 /\ k = first + (k - first + 1) - 1
        BY <2>1 DEF first
      <4>2. \A j \in 1..24 : first + j - 1 \in first..(24 * r - 1)
        BY <2>1 DEF first
      <4> QED
        BY <4>1, <4>2
    <3>4. M \subseteq Nat
      OBVIOUS
    <3> HIDE DEF A, B, M
    <3>5. ASSUME NEW k \in A[r] PROVE \E j \in 1..24 : k \in B[j]
      BY <3>1, <3>2, <3>3, <3>4
    <3>6. ASSUME NEW j \in 1..24 PROVE B[j] \subseteq A[r]
      BY <2>2, <3>1, <3>2, <3>3
    <3> QED
      BY <3>5, <3>6
  <2> HIDE DEF TurnOf, B, A
  <2>6. ListsUp(FlattenSeq(TurnOf(r)), UNION {B[j] : j \in 1..24})
    <3> DEFINE U == TurnOf(r)
    <3> HIDE DEF U
    <3>1. PICK n \in Nat : n = 24
      OBVIOUS
    <3>2. U \in [1..n -> Seq(Nat)] /\ TurnsUp(U, B, n)
      BY <2>3, <2>4, <3>1 DEF U
    <3>3. ListsUp(FlattenSeq(U), UNION {B[j] : j \in 1..n})
      BY <3>2, FlattenedUp
    <3> QED
      BY <3>1, <3>3, Zenon DEF U
  <2> QED
    BY <2>5, <2>6, Zenon
<1> HIDE DEF Row
<1>4. rows \in Nat /\ T \in [1..rows -> Seq(Nat)]
  BY <1>3 DEF ListsUp
<1>5. TurnsUp(T, A, rows)
  <2>1. ASSUME NEW s \in 1..rows, NEW t \in 1..rows, s < t, NEW x \in A[s], NEW y \in A[t] PROVE x < y
    <3>1. x \in (24 * (s - 1))..(24 * s - 1) /\ y \in (24 * (t - 1))..(24 * t - 1)
      OBVIOUS
    <3>2. s \in Int /\ t \in Int /\ s + 1 <= t
      BY <1>4, <2>1
    <3> QED
      BY <3>1, <3>2
  <2>2. \A r \in 1..rows : T[r] = Row(r)
    OBVIOUS
  <2> HIDE DEF A, T
  <2> QED
    BY <1>3, <2>1, <2>2 DEF TurnsUp
<1>6. UNION {A[r] : r \in 1..rows} = M
  <2>1. ASSUME NEW k \in M PROVE \E r \in 1..rows : k \in A[r]
    <3> DEFINE q == k \div 24
    <3>1. k \in Nat /\ k < bound
      OBVIOUS
    <3>2. q \in Nat /\ 24 * q <= k /\ k < 24 * q + 24
      BY <3>1
    <3>3. q < rows
      BY <3>1, <3>2
    <3> HIDE DEF q, rows
    <3>4. q + 1 \in 1..rows
      BY <1>4, <3>2, <3>3
    <3>5. k \in (24 * ((q + 1) - 1))..(24 * (q + 1) - 1)
      BY <3>1, <3>2
    <3>6. k \in A[q + 1]
      BY <3>4, <3>5
    <3> QED
      BY <3>4, <3>6
  <2>2. \A r \in 1..rows : A[r] \subseteq M
    OBVIOUS
  <2> HIDE DEF A, M
  <2> QED
    BY <2>1, <2>2
<1> HIDE DEF T, A, M, rows
<1>7. ListsUp(FlattenSeq(T), UNION {A[r] : r \in 1..rows})
  BY <1>4, <1>5, FlattenedUp
<1> QED
  BY <1>1, <1>6, <1>7, Zenon DEF M

\* Sorting numbers that differ gives their set, the lowest first.
LEMMA SortedLists ==
  ASSUME NEW n \in Nat, NEW seq \in [1..n -> 0..(MaxRbs - 1)],
         \A i, j \in 1..n : seq[i] = seq[j] => i = j
  PROVE  ListsUp(Sorted(seq), {seq[i] : i \in 1..n})
<1> DEFINE Copies(b) == [k \in 1..Cardinality({i \in DOMAIN seq : seq[i] = b}) |-> b]
           Runs(g) == g = [m \in 0..MaxRbs |-> IF m = 0 THEN << >> ELSE g[m - 1] \o Copies(m - 1)]
           below == CHOOSE g : Runs(g)
           T == {seq[i] : i \in 1..n}
           Rule == [p \in Nat \X Seq(Nat) |-> IF p[1] # 0 THEN p[2] \o Copies(p[1] - 1) ELSE p[2]]
<1>0. MaxRbs \in Nat
  BY DEF MaxRbs
<1>1. DOMAIN seq = 1..n /\ T \in SUBSET (0..(MaxRbs - 1))
  OBVIOUS
<1>2. ASSUME NEW b \in Nat PROVE Copies(b) = IF b \in T THEN <<b>> ELSE << >>
  <2>1. CASE b \in T
    <3>1. PICK i \in 1..n : seq[i] = b
      BY <2>1
    <3>2. {j \in DOMAIN seq : seq[j] = b} = {i}
      BY <1>1, <3>1
    <3>3. Cardinality({i}) = 1
      BY FS_Singleton
    <3>4. [k \in 1..1 |-> b] = <<b>>
      OBVIOUS
    <3> QED
      BY <2>1, <3>2, <3>3, <3>4
  <2>2. CASE b \notin T
    <3>1. {j \in DOMAIN seq : seq[j] = b} = {}
      BY <1>1, <2>2
    <3>2. Cardinality({}) = 0
      BY FS_EmptySet
    <3>3. [k \in 1..0 |-> b] = << >>
      OBVIOUS
    <3> QED
      BY <2>2, <3>1, <3>2, <3>3
  <2> QED
    BY <2>1, <2>2
<1>3. Sorted(seq) = below[MaxRbs]
  BY DEF Sorted
<1> HIDE DEF Copies, T
<1>4. ASSUME NEW s \in Seq(Nat), NEW b \in Nat
      PROVE  s \o Copies(b) = (IF b \in T THEN Append(s, b) ELSE s) /\ s \o Copies(b) \in Seq(Nat)
  <2>1. s \o <<b>> = Append(s, b) /\ s \o << >> = s /\ Append(s, b) \in Seq(Nat)
    OBVIOUS
  <2> QED
    BY <1>2, <2>1
<1>5. \E g : Runs(g)
  <2>1. Rule \in [Nat \X Seq(Nat) -> Seq(Nat)] /\ << >> \in Seq(Nat)
    <3>1. ASSUME NEW i \in Nat, NEW s \in Seq(Nat)
          PROVE  (IF i # 0 THEN s \o Copies(i - 1) ELSE s) \in Seq(Nat)
      <4>1. i # 0 => i - 1 \in Nat
        OBVIOUS
      <4> QED
        BY <1>4, <4>1
    <3>2. \A p \in Nat \X Seq(Nat) : (IF p[1] # 0 THEN p[2] \o Copies(p[1] - 1) ELSE p[2]) \in Seq(Nat)
      BY <3>1
    <3> QED
      BY <3>2
  <2>2. \A i \in Nat \ {0}, s \in Seq(Nat) : Rule[<<i, s>>] = s \o Copies(i - 1)
    OBVIOUS
  <2> HIDE DEF Rule
  <2>3. PICK g \in [0..MaxRbs -> Seq(Nat)] : Iterates(g, MaxRbs, << >>, Rule)
    <3> DEFINE S == Seq(Nat)
               first == << >>
    <3>1. first \in S /\ Rule \in [Nat \X S -> S]
      BY <2>1
    <3> HIDE DEF S, first
    <3>2. \E g \in [0..MaxRbs -> S] : Iterates(g, MaxRbs, first, Rule)
      BY <1>0, <3>1, Iteration
    <3> QED
      BY <3>2 DEF S, first
  <2>4. ASSUME NEW i \in 0..MaxRbs
        PROVE  g[i] = IF i = 0 THEN << >> ELSE g[i - 1] \o Copies(i - 1)
    <3>1. i # 0 => i - 1 \in 0..MaxRbs /\ i \in Nat \ {0}
      BY <1>0
    <3>2. i # 0 => g[i - 1] \in Seq(Nat)
      BY <3>1
    <3>3. g[i] = IF i = 0 THEN << >> ELSE Rule[<<i, g[i - 1]>>]
      BY <2>3 DEF Iterates
    <3> QED
      BY <2>2, <3>1, <3>2, <3>3
  <2>5. Runs(g)
    BY <2>4
  <2> HIDE DEF Runs
  <2> QED
    BY <2>5
<1>6. Runs(below)
  <2> HIDE DEF Runs
  <2> QED
    BY <1>5
<1> HIDE DEF below, Rule
<1>7. /\ below[0] = << >>
      /\ \A m \in 1..MaxRbs : below[m] = below[m - 1] \o Copies(m - 1)
  <2>1. \A m \in 0..MaxRbs : below[m] = IF m = 0 THEN << >> ELSE below[m - 1] \o Copies(m - 1)
    BY <1>6, Zenon
  <2>2. 0 \in 0..MaxRbs /\ \A m \in 1..MaxRbs : m \in 0..MaxRbs /\ m # 0
    BY <1>0
  <2> QED
    BY <2>1, <2>2, Zenon
<1> DEFINE Good == {m \in 0..MaxRbs : ListsUp(below[m], T \cap 0..(m - 1))}
<1>8. 0 \in Good
  <2>1. T \cap 0..(0 - 1) = {} /\ Len(<< >>) = 0 /\ << >> \in Seq(Nat)
    OBVIOUS
  <2>2. ListsUp(<< >>, {})
    BY DEF ListsUp
  <2> QED
    BY <1>0, <1>7, <2>1, <2>2
<1>9. ASSUME NEW m \in 1..MaxRbs, m - 1 \in Good PROVE m \in Good
  <2> DEFINE k == m - 1
             U == T \cap 0..(k - 1)
  <2>1. k \in Nat /\ m = k + 1 /\ m \in 0..MaxRbs
    BY <1>0
  <2>2. ListsUp(below[k], U)
    BY <1>9
  <2>3. 0..(m - 1) = 0..(k - 1) \cup {k}
    OBVIOUS
  <2>4. below[m] = IF k \in T THEN Append(below[k], k) ELSE below[k]
    <3>1. below[m] = below[k] \o Copies(k)
      BY <1>7
    <3>2. below[k] \in Seq(Nat)
      BY <2>2 DEF ListsUp
    <3> HIDE DEF k
    <3> QED
      BY <1>4, <2>1, <3>1, <3>2
  <2>5. CASE k \in T
    <3>1. T \cap 0..(m - 1) = U \cup {k}
      BY <2>3, <2>5
    <3>2. U \in SUBSET (0..(k - 1))
      OBVIOUS
    <3> HIDE DEF U, k
    <3>3. ListsUp(Append(below[k], k), U \cup {k})
      BY <2>1, <2>2, <3>2, AppendUp
    <3> QED
      BY <2>1, <2>4, <2>5, <3>1, <3>3
  <2>6. CASE k \notin T
    <3>1. T \cap 0..(m - 1) = U
      BY <2>3, <2>6
    <3> HIDE DEF U, k
    <3> QED
      BY <2>1, <2>2, <2>4, <2>6, <3>1
  <2> QED
    BY <2>5, <2>6
<1>10. MaxRbs \in Good
  <2> HIDE DEF Good
  <2>1. 0..MaxRbs \subseteq Good
    BY <1>0, <1>8, <1>9, ClimbTo
  <2> QED
    BY <1>0, <2>1
<1>11. T \cap 0..(MaxRbs - 1) = T
  BY <1>1
<1> QED
  BY <1>3, <1>10, <1>11 DEF T

\* There are as many members as places in the list.
LEMMA ListCounts ==
  ASSUME NEW T, NEW s, ListsUp(s, T)
  PROVE  IsFiniteSet(T) /\ Cardinality(T) = Len(s) /\ ToSet(s) = T
<1> DEFINE m == Len(s)
<1>1. s \in Seq(Nat) /\ m \in Nat /\ DOMAIN s = 1..m
  BY DEF ListsUp
<1>2. \A i, j \in 1..m : i < j => s[i] < s[j]
  BY DEF ListsUp
<1>3. \A i \in 1..m : s[i] \in Nat
  BY <1>1
<1>4. {s[i] : i \in 1..m} = T
  BY DEF ListsUp
<1> HIDE DEF m
<1>5. \A i, j \in 1..m : s[i] = s[j] => i = j
  <2> SUFFICES ASSUME NEW i \in 1..m, NEW j \in 1..m, s[i] = s[j], i < j PROVE FALSE
    OBVIOUS
  <2>1. s[i] < s[j] /\ s[i] \in Nat
    BY <1>2, <1>3
  <2> QED
    BY <2>1
<1> DEFINE f == [i \in 1..m |-> s[i]]
<1>6. ExistsBijection(1..m, T)
  <2>1. f \in [1..m -> T] /\ \A i \in 1..m : f[i] = s[i]
    BY <1>4
  <2>2. \A i, j \in 1..m : f[i] = f[j] => i = j
    BY <1>5, <2>1
  <2>3. \A x \in T : \E i \in 1..m : f[i] = x
    BY <1>4, <2>1
  <2> HIDE DEF f
  <2>4. f \in Injection(1..m, T)
    BY <2>1, <2>2 DEF Injection, IsInjective
  <2>5. f \in Bijection(1..m, T)
    BY <2>1, <2>3, <2>4 DEF Bijection, Surjection
  <2> QED
    BY <2>5 DEF ExistsBijection
<1>7. IsFiniteSet(T) /\ Cardinality(T) = m
  BY <1>1, <1>6, FS_CountingElements, FS_NatBijection
<1> QED
  BY <1>1, <1>4, <1>7 DEF ToSet, m

-----------------------------------------------------------------------------
(* Indication values.                                                      *)

\* A number has one quotient and one remainder.
LEMMA OneQuotient ==
  ASSUME NEW T \in Nat \ {0}, NEW q \in Int, NEW p \in Int, NEW r \in 0..(T - 1), NEW s \in 0..(T - 1),
         T * q + r = T * p + s
  PROVE  q = p /\ r = s
<1>1. ASSUME NEW a \in Int, NEW b \in Int, NEW x \in 0..(T - 1), NEW y \in 0..(T - 1), T * a + x = T * b + y, a > b
      PROVE  FALSE
  <2> DEFINE d == a - b
  <2>1. d \in Nat /\ d >= 1 /\ a = b + d
    BY <1>1
  <2> HIDE DEF d
  <2>2. T * a = T * b + T * d /\ T * b \in Int /\ T * d \in Int
    BY <2>1
  <2>3. T * d >= T
    <3>1. T * d = T * (d - 1) + T /\ d - 1 \in Nat
      BY <2>1
    <3>2. T * (d - 1) \in Nat
      BY <3>1
    <3> QED
      BY <3>1, <3>2
  <2> QED
    BY <1>1, <2>2, <2>3
<1>2. q = p
  BY <1>1
<1> QED
  BY <1>2

\* A value stands for one start and one length.
LEMMA OneRange ==
  ASSUME NEW T \in Nat \ {0}, NEW val, NEW start \in Nat, NEW n \in Nat \ {0}, start + n <= T,
         NEW first \in Nat, NEW len \in Nat \ {0}, first + len <= T,
         RivMatches(T, val, start, n), RivMatches(T, val, first, len)
  PROVE  first = start /\ len = n
<1>1. \/ val = T * (n - 1) + start
      \/ val = T * (T - n + 1) + (T - 1 - start)
  <2>1. T * (T - n + 1) + T - 1 - start = T * (T - n + 1) + (T - 1 - start)
    <3>1. T * (T - n + 1) \in Int
      OBVIOUS
    <3> QED
      BY <3>1
  <2> QED
    BY <2>1 DEF RivMatches
<1>2. \/ val = T * (len - 1) + first
      \/ val = T * (T - len + 1) + (T - 1 - first)
  <2>1. T * (T - len + 1) + T - 1 - first = T * (T - len + 1) + (T - 1 - first)
    <3>1. T * (T - len + 1) \in Int
      OBVIOUS
    <3> QED
      BY <3>1
  <2> QED
    BY <2>1 DEF RivMatches
<1>3. /\ start \in 0..(T - 1) /\ first \in 0..(T - 1)
      /\ T - 1 - start \in 0..(T - 1) /\ T - 1 - first \in 0..(T - 1)
      /\ n - 1 \in Int /\ len - 1 \in Int /\ T - n + 1 \in Int /\ T - len + 1 \in Int
  OBVIOUS
<1>4. CASE val = T * (n - 1) + start /\ val = T * (len - 1) + first
  <2>1. n - 1 = len - 1 /\ start = first
    BY <1>3, <1>4, OneQuotient
  <2> QED
    BY <2>1
<1>5. CASE val = T * (n - 1) + start /\ val = T * (T - len + 1) + (T - 1 - first)
  <2> DEFINE p == n - 1
             q == T - len + 1
             r == T - 1 - first
  <2>1. p \in Int /\ q \in Int /\ r \in 0..(T - 1) /\ T * p + start = T * q + r
    BY <1>3, <1>5
  <2> HIDE DEF p, q, r
  <2>2. p = q /\ start = r
    BY <1>3, <2>1, OneQuotient
  <2> QED
    BY <2>2 DEF p, q, r
<1>6. CASE val = T * (T - n + 1) + (T - 1 - start) /\ val = T * (len - 1) + first
  <2> DEFINE p == len - 1
             q == T - n + 1
             r == T - 1 - start
  <2>1. p \in Int /\ q \in Int /\ r \in 0..(T - 1) /\ T * q + r = T * p + first
    BY <1>3, <1>6
  <2> HIDE DEF p, q, r
  <2>2. q = p /\ r = first
    BY <1>3, <2>1, OneQuotient
  <2> QED
    BY <2>2 DEF p, q, r
<1>7. CASE val = T * (T - n + 1) + (T - 1 - start) /\ val = T * (T - len + 1) + (T - 1 - first)
  <2>1. T - n + 1 = T - len + 1 /\ T - 1 - start = T - 1 - first
    BY <1>3, <1>7, OneQuotient
  <2> QED
    BY <2>1
<1> QED
  BY <1>1, <1>2, <1>4, <1>5, <1>6, <1>7

\* The search finds the range a value was made of.
LEMMA SearchFinds ==
  ASSUME NEW T \in Nat \ {0}, NEW vrbs \in Nat, vrbs <= T,
         NEW start \in Nat, NEW n \in Nat \ {0}, start + n <= vrbs,
         NEW val, RivMatches(T, val, start, n)
  PROVE  RivSearch(T, vrbs, val) = [n |-> n, start |-> start]
<1> DEFINE Lengths(first) == {len \in 1..(vrbs - first) : RivMatches(T, val, first, len)}
           starts == {first \in 0..vrbs : Lengths(first) # {}}
<1>1. RivMatches(T, val, start, n)
  OBVIOUS
<1>2. ASSUME NEW first \in 0..vrbs, NEW len \in 1..(vrbs - first), RivMatches(T, val, first, len)
      PROVE  first = start /\ len = n
  <2>1. first \in Nat /\ len \in Nat \ {0} /\ first + len <= T /\ start + n <= T
    OBVIOUS
  <2> QED
    BY <1>1, <1>2, <2>1, OneRange
<1>3. Lengths(start) = {n}
  <2>1. n \in 1..(vrbs - start) /\ start \in 0..vrbs
    OBVIOUS
  <2> QED
    BY <1>1, <1>2, <2>1
<1>4. starts = {start}
  <2>1. start \in 0..vrbs
    OBVIOUS
  <2>2. \A first \in 0..vrbs : Lengths(first) # {} => first = start
    BY <1>2
  <2> QED
    BY <1>3, <2>1, <2>2
<1>5. Max(starts) = start /\ Min(Lengths(start)) = n
  <2>1. Max({start}) = start
    BY DEF Max
  <2>2. Min({n}) = n
    BY DEF Min
  <2> QED
    BY <1>3, <1>4, <2>1, <2>2
<1>6. RivSearch(T, vrbs, val) = IF starts = {} THEN [n |-> 0] ELSE [n |-> Min(Lengths(Max(starts))), start |-> Max(starts)]
  BY DEF RivSearch
<1> HIDE DEF starts, Lengths
<1> QED
  BY <1>4, <1>5, <1>6

-----------------------------------------------------------------------------
(* Distributed virtual blocks.                                             *)

\* The interleaver of lte_dist_vrb_to_prb for a unit of virtual blocks: four
\* columns of rows, with h places left out of the second and of the last one
Interleaved(rows, h, v) ==
  IF v >= 4 * (rows - h) THEN IF v % 2 = 1 THEN rows + (v \div 2) ELSE (v \div 2) - rows + h
  ELSE rows * (v % 4) + (v \div 4) - IF v % 4 >= 2 THEN h ELSE 0

\* Where virtual block v goes: the k-th place of one of six runs of places
Run(rows, h, v, e, k) ==
  \/ k < rows - h /\ v = 4 * k /\ e = k
  \/ k < rows - h /\ v = 4 * k + 1 /\ e = rows + k
  \/ k < rows - h /\ v = 4 * k + 2 /\ e = 2 * rows - h + k
  \/ k < rows - h /\ v = 4 * k + 3 /\ e = 3 * rows - h + k
  \/ k < h /\ v = 4 * (rows - h) + 2 * k /\ e = rows - h + k
  \/ k < h /\ v = 4 * (rows - h) + 2 * k + 1 /\ e = 3 * rows - 2 * h + k

LEMMA InterleavedRuns ==
  ASSUME NEW rows \in Nat, NEW h \in Nat, h <= rows, NEW v \in Nat, v < 4 * rows - 2 * h
  PROVE  \E k \in Nat : Run(rows, h, v, Interleaved(rows, h, v), k)
<1>1. CASE v >= 4 * (rows - h)
  <2> DEFINE d == v - 4 * (rows - h)
             k == d \div 2
  <2>1. d \in Nat /\ v = 4 * (rows - h) + d /\ d < 2 * h
    BY <1>1
  <2>2. k \in Nat /\ (d = 2 * k \/ d = 2 * k + 1) /\ k < h
    BY <2>1
  <2>3. CASE d = 2 * k
    <3> HIDE DEF d, k
    <3>1. v % 2 = 0 /\ v \div 2 = 2 * (rows - h) + k
      BY <2>1, <2>2, <2>3
    <3>2. Interleaved(rows, h, v) = rows - h + k
      BY <1>1, <2>2, <3>1 DEF Interleaved
    <3>3. Run(rows, h, v, Interleaved(rows, h, v), k)
      BY <2>1, <2>2, <2>3, <3>2 DEF Run
    <3> QED
      BY <2>2, <3>3
  <2>4. CASE d = 2 * k + 1
    <3> HIDE DEF d, k
    <3>1. v % 2 = 1 /\ v \div 2 = 2 * (rows - h) + k
      BY <2>1, <2>2, <2>4
    <3>2. Interleaved(rows, h, v) = 3 * rows - 2 * h + k
      BY <1>1, <2>2, <3>1 DEF Interleaved
    <3>3. Run(rows, h, v, Interleaved(rows, h, v), k)
      BY <2>1, <2>2, <2>4, <3>2 DEF Run
    <3> QED
      BY <2>2, <3>3
  <2> HIDE DEF d, k
  <2> QED
    BY <2>2, <2>3, <2>4
<1>2. CASE v < 4 * (rows - h)
  <2> DEFINE k == v \div 4
             b == v % 4
  <2>1. k \in Nat /\ b \in {0, 1, 2, 3} /\ v = 4 * k + b /\ k < rows - h
    BY <1>2
  <2>2. Interleaved(rows, h, v) = rows * b + k - IF b >= 2 THEN h ELSE 0
    BY <1>2 DEF Interleaved
  <2> HIDE DEF k, b
  <2>3. Interleaved(rows, h, v) = IF b = 0 THEN k ELSE IF b = 1 THEN rows + k
                                  ELSE IF b = 2 THEN 2 * rows - h + k ELSE 3 * rows - h + k
    BY <2>1, <2>2
  <2>4. Run(rows, h, v, Interleaved(rows, h, v), k)
    BY <2>1, <2>3 DEF Run
  <2> QED
    BY <2>1, <2>4
<1> QED
  BY <1>1, <1>2

\* It is a permutation of the places of a unit.
LEMMA InterleaverPermutes ==
  ASSUME NEW rows \in Nat, NEW h \in Nat, h <= rows
  PROVE  /\ \A v \in Nat : v < 4 * rows - 2 * h =>
               Interleaved(rows, h, v) \in Nat /\ Interleaved(rows, h, v) < 4 * rows - 2 * h
         /\ \A v, w \in Nat : /\ v < 4 * rows - 2 * h /\ w < 4 * rows - 2 * h
                              /\ Interleaved(rows, h, v) = Interleaved(rows, h, w)
                              => v = w
<1>1. ASSUME NEW v \in Nat, v < 4 * rows - 2 * h
      PROVE  Interleaved(rows, h, v) \in Nat /\ Interleaved(rows, h, v) < 4 * rows - 2 * h
  <2> DEFINE e == Interleaved(rows, h, v)
  <2>1. PICK k \in Nat : Run(rows, h, v, e, k)
    BY <1>1, InterleavedRuns
  <2> HIDE DEF e
  <2>2. e \in Nat /\ e < 4 * rows - 2 * h
    BY <2>1 DEF Run
  <2> QED
    BY <2>2 DEF e
<1>2. ASSUME NEW v \in Nat, NEW w \in Nat, v < 4 * rows - 2 * h, w < 4 * rows - 2 * h,
             Interleaved(rows, h, v) = Interleaved(rows, h, w)
      PROVE  v = w
  <2> DEFINE e == Interleaved(rows, h, v)
  <2>1. PICK k \in Nat : Run(rows, h, v, e, k)
    BY <1>2, InterleavedRuns
  <2>2. PICK l \in Nat : Run(rows, h, w, e, l)
    BY <1>2, InterleavedRuns
  <2>3. e \in Nat
    BY <1>1, <1>2
  <2> HIDE DEF e
  <2> QED
    BY <2>1, <2>2, <2>3 DEF Run
<1> QED
  BY <1>1, <1>2

\* How a band is laid out for a gap: units of 2 * m virtual blocks, k of them
Arranged(rbs, gap, m, rows, h, k) ==
  /\ rows \in Nat /\ h \in Nat /\ h <= rows /\ m = 2 * rows - h /\ m > 0 /\ k \in Nat
  /\ DistVrbGap(rbs, gap) \in Nat /\ DistVrbs(rbs, gap) = 2 * m * k
  /\ TypeZeroP(rbs) \in Nat /\ CeilDiv(2 * m, 4 * TypeZeroP(rbs)) * TypeZeroP(rbs) = rows
  /\ rbs \in Nat /\ rbs <= MaxRbs
  /\ \/ gap = 0 /\ k = 1 /\ DistVrbGap(rbs, gap) >= m /\ DistVrbGap(rbs, gap) + m <= rbs
     \/ gap = 1 /\ DistVrbGap(rbs, gap) = m /\ 2 * m * k <= rbs

\* Every band is, with the first gap, and the wide ones with the second.
LEMMA BandsAreArranged ==
  ASSUME NEW rbs \in Bandwidths, NEW gap \in {0, 1}, gap = 1 => rbs >= 50
  PROVE  \E m, rows, h, k \in Nat : Arranged(rbs, gap, m, rows, h, k)
<1>1. CASE rbs = 6 /\ gap = 0
  <2>1. DistVrbGap(6, 0) = 3
    BY DEF DistVrbGap, FirstGap, CeilDiv
  <2>2. DistVrbs(6, 0) = 6 /\ TypeZeroP(6) = 1
    BY <2>1 DEF DistVrbs, TypeZeroP
  <2>3. CeilDiv(6, 4) * 1 = 2
    BY DEF CeilDiv
  <2>4. Arranged(6, 0, 3, 2, 1, 1)
    BY <2>1, <2>2, <2>3 DEF Arranged, MaxRbs
  <2> QED
    BY <1>1, <2>4
<1>2. CASE rbs = 15 /\ gap = 0
  <2>1. DistVrbGap(15, 0) = 8
    BY DEF DistVrbGap, FirstGap, CeilDiv
  <2>2. DistVrbs(15, 0) = 14 /\ TypeZeroP(15) = 2
    BY <2>1 DEF DistVrbs, TypeZeroP
  <2>3. CeilDiv(14, 8) * 2 = 4
    BY DEF CeilDiv
  <2>4. Arranged(15, 0, 7, 4, 1, 1)
    BY <2>1, <2>2, <2>3 DEF Arranged, MaxRbs
  <2> QED
    BY <1>2, <2>4
<1>3. CASE rbs = 25 /\ gap = 0
  <2>1. DistVrbGap(25, 0) = 12
    BY DEF DistVrbGap, FirstGap, CeilDiv
  <2>2. DistVrbs(25, 0) = 24 /\ TypeZeroP(25) = 2
    BY <2>1 DEF DistVrbs, TypeZeroP
  <2>3. CeilDiv(24, 8) * 2 = 6
    BY DEF CeilDiv
  <2>4. Arranged(25, 0, 12, 6, 0, 1)
    BY <2>1, <2>2, <2>3 DEF Arranged, MaxRbs
  <2> QED
    BY <1>3, <2>4
<1>4. CASE rbs = 50 /\ gap = 0
  <2>1. DistVrbGap(50, 0) = 27
    BY DEF DistVrbGap, FirstGap, CeilDiv
  <2>2. DistVrbs(50, 0) = 46 /\ TypeZeroP(50) = 3
    BY <2>1 DEF DistVrbs, TypeZeroP
  <2>3. CeilDiv(46, 12) * 3 = 12
    BY DEF CeilDiv
  <2>4. Arranged(50, 0, 23, 12, 1, 1)
    BY <2>1, <2>2, <2>3 DEF Arranged, MaxRbs
  <2> QED
    BY <1>4, <2>4
<1>5. CASE rbs = 75 /\ gap = 0
  <2>1. DistVrbGap(75, 0) = 32
    BY DEF DistVrbGap, FirstGap, CeilDiv
  <2>2. DistVrbs(75, 0) = 64 /\ TypeZeroP(75) = 4
    BY <2>1 DEF DistVrbs, TypeZeroP
  <2>3. CeilDiv(64, 16) * 4 = 16
    BY DEF CeilDiv
  <2>4. Arranged(75, 0, 32, 16, 0, 1)
    BY <2>1, <2>2, <2>3 DEF Arranged, MaxRbs
  <2> QED
    BY <1>5, <2>4
<1>6. CASE rbs = 100 /\ gap = 0
  <2>1. DistVrbGap(100, 0) = 48
    BY DEF DistVrbGap, FirstGap, CeilDiv
  <2>2. DistVrbs(100, 0) = 96 /\ TypeZeroP(100) = 4
    BY <2>1 DEF DistVrbs, TypeZeroP
  <2>3. CeilDiv(96, 16) * 4 = 24
    BY DEF CeilDiv
  <2>4. Arranged(100, 0, 48, 24, 0, 1)
    BY <2>1, <2>2, <2>3 DEF Arranged, MaxRbs
  <2> QED
    BY <1>6, <2>4
<1>7. CASE rbs = 50 /\ gap = 1
  <2>1. DistVrbGap(50, 1) = 9
    BY DEF DistVrbGap
  <2>2. DistVrbs(50, 1) = 36 /\ TypeZeroP(50) = 3
    BY <2>1 DEF DistVrbs, TypeZeroP
  <2>3. CeilDiv(18, 12) * 3 = 6
    BY DEF CeilDiv
  <2>4. Arranged(50, 1, 9, 6, 3, 2)
    BY <2>1, <2>2, <2>3 DEF Arranged, MaxRbs
  <2> QED
    BY <1>7, <2>4
<1>8. CASE rbs = 75 /\ gap = 1
  <2>1. DistVrbGap(75, 1) = 16
    BY DEF DistVrbGap
  <2>2. DistVrbs(75, 1) = 64 /\ TypeZeroP(75) = 4
    BY <2>1 DEF DistVrbs, TypeZeroP
  <2>3. CeilDiv(32, 16) * 4 = 8
    BY DEF CeilDiv
  <2>4. Arranged(75, 1, 16, 8, 0, 2)
    BY <2>1, <2>2, <2>3 DEF Arranged, MaxRbs
  <2> QED
    BY <1>8, <2>4
<1>9. CASE rbs = 100 /\ gap = 1
  <2>1. DistVrbGap(100, 1) = 16
    BY DEF DistVrbGap
  <2>2. DistVrbs(100, 1) = 96 /\ TypeZeroP(100) = 4
    BY <2>1 DEF DistVrbs, TypeZeroP
  <2>3. CeilDiv(32, 16) * 4 = 8
    BY DEF CeilDiv
  <2>4. Arranged(100, 1, 16, 8, 0, 3)
    BY <2>1, <2>2, <2>3 DEF Arranged, MaxRbs
  <2> QED
    BY <1>9, <2>4
<1>10. rbs \in {6, 15, 25, 50, 75, 100}
  BY DEF Bandwidths
<1> QED
  BY <1>1, <1>2, <1>3, <1>4, <1>5, <1>6, <1>7, <1>8, <1>9, <1>10

\* Where the v-th block of unit q goes in a slot
Turned(m, rows, h, slot, v) ==
  IF slot = 0 THEN Interleaved(rows, h, v) ELSE (Interleaved(rows, h, v) + m) % (2 * m)
Placed(m, g, rows, h, slot, q, v) ==
  IF Turned(m, rows, h, slot, v) + 2 * m * q < m THEN Turned(m, rows, h, slot, v) + 2 * m * q
  ELSE Turned(m, rows, h, slot, v) + 2 * m * q + g - m

LEMMA DistPrbIs ==
  ASSUME NEW rbs, NEW gap \in {0, 1}, NEW m, NEW rows, NEW h, NEW k, Arranged(rbs, gap, m, rows, h, k),
         NEW slot \in {0, 1}, NEW q \in Nat, NEW v \in Nat, v < 2 * m, gap = 0 => q = 0
  PROVE  DistPrb(rbs, slot, gap, 2 * m * q + v) = Placed(m, DistVrbGap(rbs, gap), rows, h, slot, q, v)
<1> DEFINE vrb   == 2 * m * q + v
           g     == DistVrbGap(rbs, gap)
           p     == TypeZeroP(rbs)
           width == IF gap = 0 THEN DistVrbs(rbs, gap) ELSE 2 * g
           r     == CeilDiv(width, 4 * p) * p
           nulls == 4 * r - width
           u     == vrb % width
           unit  == width * (vrb \div width)
           two   == 2 * r * (u % 2) + u \div 2 + unit
           four  == r * (u % 4) + u \div 4 + unit
           last  == nulls # 0 /\ u >= width - nulls
           even  == CASE last /\ u % 2 = 1 -> two - r
                      [] last /\ u % 2 = 0 -> two - r + nulls \div 2
                      [] nulls # 0 /\ ~last /\ u % 4 >= 2 -> four - nulls \div 2
                      [] OTHER -> four
           place == IF slot = 0 THEN even ELSE ((even + width \div 2) % width) + unit
<1>1. DistPrb(rbs, slot, gap, vrb) = IF place < width \div 2 THEN place ELSE place + g - width \div 2
  BY DEF DistPrb
<1>2. /\ rows \in Nat /\ h \in Nat /\ h <= rows /\ m = 2 * rows - h /\ m \in Nat \ {0} /\ g \in Nat
  BY DEF Arranged
<1>3. width = 2 * m
  BY DEF Arranged
<1> HIDE DEF width
<1>4. r = rows
  BY <1>3 DEF Arranged
<1> HIDE DEF r, g, p
<1>5. nulls = 2 * h
  BY <1>2, <1>3, <1>4
<1> HIDE DEF nulls
<1>6. 2 * m * q \in Nat /\ 2 * m * q = (2 * m) * q
  BY <1>2
<1>7. u = v /\ vrb \div width = q
  <2> DEFINE W == 2 * m
  <2>1. W \in Nat \ {0} /\ v \in 0..(W - 1) /\ vrb = W * q + v /\ width = W
    BY <1>2, <1>3, <1>6
  <2> HIDE DEF W
  <2>2. W * q + v \in Nat
    BY <2>1
  <2> DEFINE x == W * q + v
  <2>3. x \in Nat /\ x \div W \in Int /\ x % W \in 0..(W - 1) /\ x = W * (x \div W) + (x % W)
    <3>1. x \in Nat
      BY <2>2
    <3>2. W \in Nat \ {0}
      BY <2>1
    <3> HIDE DEF x
    <3> QED
      BY <3>1, <3>2, Division
  <2>4. W * (x \div W) + (x % W) = W * q + v
    BY <2>3
  <2>5. x \div W = q /\ x % W = v
    <3> HIDE DEF x
    <3> QED
      BY <2>1, <2>3, <2>4, OneQuotient
  <2> QED
    BY <2>1, <2>5
<1>8. unit = 2 * m * q
  BY <1>2, <1>3, <1>7
<1> HIDE DEF u, unit, vrb
<1> DEFINE e == Interleaved(rows, h, v)
<1>9. even = e + 2 * m * q
  <2> DEFINE n == 2 * m * q
  <2>1. n \in Nat
    BY <1>6
  <2>2. unit = n
    BY <1>8
  <2> HIDE DEF n
  <2>3. /\ two = 2 * rows * (v % 2) + v \div 2 + n
        /\ four = rows * (v % 4) + v \div 4 + n
        /\ last <=> h # 0 /\ v >= 4 * (rows - h)
    BY <1>2, <1>3, <1>4, <1>5, <1>7, <2>2
  <2>4. even = CASE last /\ v % 2 = 1 -> two - rows
                 [] last /\ v % 2 = 0 -> two - rows + h
                 [] h # 0 /\ ~last /\ v % 4 >= 2 -> four - h
                 [] OTHER -> four
    BY <1>2, <1>4, <1>5, <1>7
  <2> HIDE DEF two, four, last, even
  <2>5. h = 0 => ~(v >= 4 * (rows - h))
    BY <1>2
  <2>6. v % 2 \in {0, 1} /\ v % 4 \in {0, 1, 2, 3} /\ v \div 2 \in Nat /\ v \div 4 \in Nat
    OBVIOUS
  <2>7. ASSUME last PROVE even = e + n
    <3>1. e = IF v % 2 = 1 THEN rows + (v \div 2) ELSE (v \div 2) - rows + h
      BY <2>3, <2>7 DEF Interleaved
    <3>2. v % 2 = 1 => 2 * rows * (v % 2) = 2 * rows
      BY <1>2
    <3>3. v % 2 = 0 => 2 * rows * (v % 2) = 0
      BY <1>2
    <3> DEFINE w == v \div 2
               t == 2 * rows * (v % 2)
    <3>4. w \in Nat /\ two = t + w + n
      BY <2>3, <2>6
    <3> HIDE DEF e, w, t
    <3>5. CASE v % 2 = 1
      <4>1. t = 2 * rows /\ e = rows + w /\ even = two - rows
        BY <2>4, <2>7, <3>1, <3>2, <3>5 DEF t, w
      <4> QED
        BY <1>2, <2>1, <3>4, <4>1
    <3>6. CASE v % 2 = 0
      <4>1. t = 0 /\ e = w - rows + h /\ even = two - rows + h
        BY <2>4, <2>7, <3>1, <3>3, <3>6 DEF t, w
      <4> QED
        BY <1>2, <2>1, <3>4, <4>1
    <3> QED
      BY <2>6, <3>5, <3>6
  <2>8. ASSUME ~last PROVE even = e + n
    <3>1. e = rows * (v % 4) + (v \div 4) - IF v % 4 >= 2 THEN h ELSE 0
      <4>1. ~(v >= 4 * (rows - h))
        BY <2>3, <2>5, <2>8
      <4> QED
        BY <4>1 DEF Interleaved
    <3>2. rows * (v % 4) \in Int
      BY <1>2, <2>6
    <3>3. even = IF h # 0 /\ v % 4 >= 2 THEN four - h ELSE four
      BY <2>4, <2>8
    <3> HIDE DEF e
    <3> QED
      BY <1>2, <2>1, <2>3, <2>6, <3>1, <3>2, <3>3
  <2> QED
    BY <2>7, <2>8 DEF n
<1> HIDE DEF even
<1>10. e \in Nat
  <2>1. v < 4 * rows - 2 * h
    BY <1>2
  <2> QED
    BY <1>2, <2>1, InterleaverPermutes
<1> HIDE DEF e
<1>11. place = Turned(m, rows, h, slot, v) + 2 * m * q
  <2>1. CASE slot = 0
    BY <1>9, <2>1 DEF Turned, e
  <2>2. CASE slot = 1
    <3>1. width \div 2 = m
      BY <1>2, <1>3
    <3>2. place = ((e + 2 * m * q + m) % (2 * m)) + 2 * m * q
      BY <1>3, <1>8, <1>9, <2>2, <3>1
    <3>3. (e + 2 * m * q + m) % (2 * m) = (e + m) % (2 * m)
      <4> DEFINE W == 2 * m
                 y == e + m
                 x == y + W * q
      <4>1. W \in Nat \ {0} /\ y \in Nat
        BY <1>2, <1>10
      <4>2. e + 2 * m * q + m = x
        <5>1. 2 * m * q \in Nat /\ W * q = 2 * m * q
          BY <1>6
        <5> HIDE DEF W
        <5> QED
          BY <1>2, <1>10, <5>1
      <4> HIDE DEF W, y
      <4>3. x \in Nat
        BY <4>1
      <4> HIDE DEF x
      <4>4. /\ x \div W \in Int /\ x % W \in 0..(W - 1) /\ x = W * (x \div W) + (x % W)
            /\ y \div W \in Int /\ y % W \in 0..(W - 1) /\ y = W * (y \div W) + (y % W)
        BY <4>1, <4>3, Division
      <4> DEFINE a == x \div W
                 b == y \div W
                 s == x % W
                 t == y % W
                 c == b + q
      <4>5. c \in Int /\ W * c = W * b + W * q
        <5>1. b \in Int
          BY <4>4
        <5> HIDE DEF b
        <5> QED
          BY <4>1, <5>1
      <4>6. W * a + s = W * c + t
        <5>1. x = W * a + s /\ y = W * b + t /\ x = y + W * q
          BY <4>4 DEF x
        <5>2. a \in Int /\ b \in Int /\ s \in Int /\ t \in Int
          BY <4>4
        <5> HIDE DEF a, b, s, t, c
        <5>3. W * a \in Int /\ W * b \in Int /\ W * q \in Int
          BY <4>1, <5>2
        <5> QED
          BY <4>5, <5>1, <5>2, <5>3
      <4>7. a \in Int /\ s \in 0..(W - 1) /\ t \in 0..(W - 1)
        BY <4>4
      <4> HIDE DEF a, c, s, t
      <4>8. s = t
        BY <4>1, <4>5, <4>6, <4>7, OneQuotient
      <4> QED
        BY <4>2, <4>8 DEF s, t, W, y
    <3> QED
      BY <2>2, <3>2, <3>3 DEF Turned, e
  <2> QED
    BY <2>1, <2>2
<1> HIDE DEF place
<1>12. width \div 2 = m
  BY <1>2, <1>3
<1> QED
  BY <1>1, <1>11, <1>12 DEF Placed, vrb, g

Permutes(m, rows, h, slot) ==
  /\ \A v \in Nat : v < 2 * m => Turned(m, rows, h, slot, v) \in 0..(2 * m - 1)
  /\ \A v, w \in Nat : /\ v < 2 * m /\ w < 2 * m
                       /\ Turned(m, rows, h, slot, v) = Turned(m, rows, h, slot, w)
                       => v = w

\* Turning by half a unit keeps the blocks of a unit apart.
LEMMA TurnedPermutes ==
  ASSUME NEW rows \in Nat, NEW h \in Nat, h <= rows, NEW m \in Nat, m = 2 * rows - h, m > 0, NEW slot \in {0, 1}
  PROVE  Permutes(m, rows, h, slot)
<1>1. m \in Nat \ {0} /\ 2 * m = 4 * rows - 2 * h
  OBVIOUS
<1>2. /\ \A v \in Nat : v < 2 * m => Interleaved(rows, h, v) \in Nat /\ Interleaved(rows, h, v) < 2 * m
      /\ \A v, w \in Nat : /\ v < 2 * m /\ w < 2 * m
                           /\ Interleaved(rows, h, v) = Interleaved(rows, h, w)
                           => v = w
  BY <1>1, InterleaverPermutes
<1>3. CASE slot = 0
  BY <1>1, <1>2, <1>3 DEF Turned, Permutes
<1>4. CASE slot = 1
  <2>1. ASSUME NEW e \in Nat, e < 2 * m
        PROVE  (e + m) % (2 * m) = IF e < m THEN e + m ELSE e - m
    <3> DEFINE W == 2 * m
    <3>1. W \in Nat \ {0} /\ e + m \in Nat
      BY <1>1
    <3>2. (e + m) \div W \in Nat /\ (e + m) % W \in 0..(W - 1) /\ e + m = W * ((e + m) \div W) + ((e + m) % W)
      <4> HIDE DEF W
      <4> QED
        BY <3>1, Division
    <3> DEFINE q == (e + m) \div W
               s == (e + m) % W
               p == IF e < m THEN 0 ELSE 1
               t == IF e < m THEN e + m ELSE e - m
    <3>3. q \in Int /\ p \in Int /\ s \in 0..(W - 1) /\ t \in 0..(W - 1) /\ W * q + s = W * p + t
      <4>1. t \in 0..(W - 1) /\ W * p + t = e + m
        BY <1>1, <2>1
      <4> QED
        BY <3>2, <4>1
    <3>4. s = t
      <4> HIDE DEF W, q, p, s, t
      <4> QED
        BY <3>1, <3>3, OneQuotient
    <3> QED
      BY <3>4
  <2>2. ASSUME NEW v \in Nat, v < 2 * m
        PROVE  /\ Turned(m, rows, h, slot, v) \in 0..(2 * m - 1)
               /\ Turned(m, rows, h, slot, v) = IF Interleaved(rows, h, v) < m THEN Interleaved(rows, h, v) + m
                                                ELSE Interleaved(rows, h, v) - m
    <3> DEFINE e == Interleaved(rows, h, v)
    <3>1. e \in Nat /\ e < 2 * m /\ Turned(m, rows, h, slot, v) = (e + m) % (2 * m)
      BY <1>2, <1>4, <2>2 DEF Turned
    <3> HIDE DEF e
    <3>2. Turned(m, rows, h, slot, v) = IF e < m THEN e + m ELSE e - m
      BY <2>1, <3>1
    <3> QED
      BY <1>1, <3>1, <3>2 DEF e
  <2>3. ASSUME NEW v \in Nat, NEW w \in Nat, v < 2 * m, w < 2 * m,
               Turned(m, rows, h, slot, v) = Turned(m, rows, h, slot, w)
        PROVE  v = w
    <3> DEFINE e == Interleaved(rows, h, v)
               f == Interleaved(rows, h, w)
    <3>1. e \in Nat /\ e < 2 * m /\ f \in Nat /\ f < 2 * m
      BY <1>2, <2>3
    <3>2. (IF e < m THEN e + m ELSE e - m) = IF f < m THEN f + m ELSE f - m
      BY <2>2, <2>3
    <3> HIDE DEF e, f
    <3>3. e = f
      BY <1>1, <3>1, <3>2
    <3> QED
      BY <1>2, <2>3, <3>3 DEF e, f
  <2> QED
    BY <2>2, <2>3 DEF Permutes
<1> QED
  BY <1>3, <1>4

\* The physical blocks that all virtual ones fill
AllPlaces(rbs, gap) ==
  LET g == DistVrbGap(rbs, gap)
      half == DistVrbs(rbs, gap) \div 2
  IN IF gap = 0 THEN (0..(half - 1)) \cup (g..(g + half - 1)) ELSE 0..(2 * half - 1)

\* Each virtual block has one of its own, in each slot.
LEMMA PlacesApart ==
  ASSUME NEW rbs \in Bandwidths, NEW gap \in {0, 1}, gap = 1 => rbs >= 50, NEW slot \in {0, 1}
  PROVE  /\ \A x \in Nat : x < DistVrbs(rbs, gap) =>
                DistPrb(rbs, slot, gap, x) \in AllPlaces(rbs, gap)
         /\ \A x, y \in Nat : /\ x < DistVrbs(rbs, gap) /\ y < DistVrbs(rbs, gap)
                              /\ DistPrb(rbs, slot, gap, x) = DistPrb(rbs, slot, gap, y)
                              => x = y
<1>1. PICK m \in Nat, rows \in Nat, h \in Nat, k \in Nat : Arranged(rbs, gap, m, rows, h, k)
  BY BandsAreArranged
<1> DEFINE g == DistVrbGap(rbs, gap)
           TurnOf(v) == Turned(m, rows, h, slot, v)
<1>2. /\ h <= rows /\ m = 2 * rows - h /\ m > 0 /\ m \in Nat \ {0}
      /\ g \in Nat /\ DistVrbs(rbs, gap) = 2 * m * k
      /\ \/ gap = 0 /\ k = 1 /\ g >= m
         \/ gap = 1 /\ g = m
  BY <1>1 DEF Arranged
<1>3. /\ \A v \in Nat : v < 2 * m => TurnOf(v) \in 0..(2 * m - 1)
      /\ \A v, w \in Nat : v < 2 * m /\ w < 2 * m /\ TurnOf(v) = TurnOf(w) => v = w
  <2>1. h <= rows /\ m = 2 * rows - h /\ m > 0
    BY <1>2
  <2>2. Permutes(m, rows, h, slot)
    BY <2>1, TurnedPermutes
  <2> QED
    BY <2>2 DEF Permutes
<1>4. ASSUME NEW x \in Nat, x < 2 * m * k
      PROVE  \E q, v \in Nat : /\ q < k /\ v < 2 * m /\ x = 2 * m * q + v /\ (gap = 0 => q = 0)
                               /\ DistPrb(rbs, slot, gap, x) = Placed(m, g, rows, h, slot, q, v)
  <2> DEFINE W == 2 * m
             q == x \div W
             v == x % W
  <2>1. W \in Nat \ {0}
    BY <1>2
  <2>2. q \in Nat /\ v \in Nat /\ v < W /\ x = W * q + v
    <3> HIDE DEF W
    <3> QED
      BY <2>1, Division
  <2>3. W * k = 2 * m * k /\ W * q = 2 * m * q
    <3> HIDE DEF q
    <3> QED
      BY <1>2, <2>2
  <2>4. q < k
    <3> SUFFICES ASSUME q >= k PROVE FALSE
      BY <2>2
    <3>1. x < W * k
      BY <1>4, <2>3
    <3> HIDE DEF q, v, W
    <3>2. W * q = W * k + W * (q - k) /\ W * (q - k) \in Nat
      BY <2>1, <2>2
    <3>3. W * k \in Nat
      BY <2>1
    <3> QED
      BY <2>2, <3>1, <3>2, <3>3
  <2> HIDE DEF q, v
  <2>5. gap = 0 => q = 0
    BY <1>2, <2>2, <2>4
  <2>6. v < 2 * m /\ x = 2 * m * q + v
    BY <2>2, <2>3
  <2>7. DistPrb(rbs, slot, gap, 2 * m * q + v) = Placed(m, g, rows, h, slot, q, v)
    BY <1>1, <2>2, <2>5, <2>6, DistPrbIs
  <2> QED
    BY <2>2, <2>4, <2>5, <2>6, <2>7
<1>5. CASE gap = 0
  <2>1. k = 1 /\ g >= m /\ g \in Nat /\ DistVrbs(rbs, gap) = 2 * m
    BY <1>2, <1>5
  <2>2. AllPlaces(rbs, gap) = (0..(m - 1)) \cup (g..(g + m - 1))
    BY <1>2, <1>5, <2>1 DEF AllPlaces
  <2>3. ASSUME NEW x \in Nat, x < 2 * m
        PROVE  DistPrb(rbs, slot, gap, x) = IF TurnOf(x) < m THEN TurnOf(x) ELSE TurnOf(x) + g - m
    <3>0. x < 2 * m * k
      BY <1>2, <2>1, <2>3
    <3>1. PICK q \in Nat, v \in Nat : /\ v < 2 * m /\ x = 2 * m * q + v /\ q = 0
                                      /\ DistPrb(rbs, slot, gap, x) = Placed(m, g, rows, h, slot, q, v)
      BY <1>4, <1>5, <3>0
    <3>2. x = v /\ 2 * m * q = 0
      BY <1>2, <3>1
    <3>3. TurnOf(v) \in Nat
      BY <1>2, <1>3, <3>1
    <3> HIDE DEF g
    <3> QED
      BY <1>2, <2>1, <3>1, <3>2, <3>3 DEF Placed
  <2> HIDE DEF g, TurnOf
  <2>4. ASSUME NEW x \in Nat, x < 2 * m PROVE DistPrb(rbs, slot, gap, x) \in AllPlaces(rbs, gap)
    <3>1. TurnOf(x) \in 0..(2 * m - 1)
      BY <1>3, <2>4
    <3> QED
      BY <1>2, <2>1, <2>2, <2>3, <2>4, <3>1
  <2>5. ASSUME NEW x \in Nat, NEW y \in Nat, x < 2 * m, y < 2 * m,
               DistPrb(rbs, slot, gap, x) = DistPrb(rbs, slot, gap, y)
        PROVE  x = y
    <3>1. TurnOf(x) \in 0..(2 * m - 1) /\ TurnOf(y) \in 0..(2 * m - 1)
      BY <1>3, <2>5
    <3>2. (IF TurnOf(x) < m THEN TurnOf(x) ELSE TurnOf(x) + g - m) = IF TurnOf(y) < m THEN TurnOf(y) ELSE TurnOf(y) + g - m
      BY <2>3, <2>5
    <3>3. TurnOf(x) = TurnOf(y)
      BY <1>2, <2>1, <3>1, <3>2
    <3> QED
      BY <1>3, <2>5, <3>3
  <2> QED
    BY <2>1, <2>4, <2>5
<1>6. CASE gap = 1
  <2>1. g = m
    BY <1>2, <1>6
  <2> DEFINE W == 2 * m
  <2>2. W \in Nat \ {0} /\ W * k \in Nat /\ W * k = 2 * m * k
    BY <1>2
  <2>3. AllPlaces(rbs, gap) = 0..(W * k - 1)
    <3>1. DistVrbs(rbs, gap) = 2 * (m * k) /\ m * k \in Nat /\ W * k = 2 * (m * k)
      BY <1>2
    <3> DEFINE a == m * k
    <3>2. (2 * a) \div 2 = a
      BY <3>1
    <3> QED
      BY <1>6, <3>1, <3>2 DEF AllPlaces
  <2>4. ASSUME NEW x \in Nat, x < 2 * m * k
        PROVE  \E q, v \in Nat : /\ q < k /\ v < W /\ x = W * q + v /\ TurnOf(v) \in 0..(W - 1)
                                 /\ DistPrb(rbs, slot, gap, x) = W * q + TurnOf(v)
    <3>1. PICK q \in Nat, v \in Nat : /\ q < k /\ v < 2 * m /\ x = 2 * m * q + v
                                      /\ DistPrb(rbs, slot, gap, x) = Placed(m, g, rows, h, slot, q, v)
      BY <1>4, <2>4
    <3>2. 2 * m * q = W * q /\ W * q \in Nat
      BY <1>2
    <3>3. TurnOf(v) \in 0..(W - 1)
      BY <1>3, <3>1
    <3>4. Placed(m, g, rows, h, slot, q, v) = W * q + TurnOf(v)
      <4>1. Placed(m, g, rows, h, slot, q, v) = IF TurnOf(v) + 2 * m * q < m THEN TurnOf(v) + 2 * m * q
                                                ELSE TurnOf(v) + 2 * m * q + g - m
        BY DEF Placed
      <4>2. TurnOf(v) \in Nat
        BY <1>2, <3>3
      <4> HIDE DEF g, TurnOf
      <4> DEFINE a == W * q
      <4>3. a \in Nat /\ 2 * m * q = a
        BY <3>2
      <4> HIDE DEF a, W
      <4> QED
        BY <1>2, <2>1, <4>1, <4>2, <4>3 DEF a
    <3> QED
      BY <3>1, <3>2, <3>3, <3>4
  <2> HIDE DEF g, TurnOf, W
  <2>5. ASSUME NEW x \in Nat, x < 2 * m * k PROVE DistPrb(rbs, slot, gap, x) \in AllPlaces(rbs, gap)
    <3>1. PICK q \in Nat, v \in Nat : /\ q < k /\ TurnOf(v) \in 0..(W - 1)
                                      /\ DistPrb(rbs, slot, gap, x) = W * q + TurnOf(v)
      BY <2>4, <2>5
    <3>2. W * k = W * q + W * (k - q) /\ k - q \in Nat /\ k - q >= 1
      BY <2>2, <3>1
    <3>3. W * (k - q) = W * (k - q - 1) + W /\ W * (k - q - 1) \in Nat
      BY <2>2, <3>2
    <3>4. W * q \in Nat
      BY <2>2
    <3> QED
      BY <2>2, <2>3, <3>1, <3>2, <3>3, <3>4
  <2>6. ASSUME NEW x \in Nat, NEW y \in Nat, x < 2 * m * k, y < 2 * m * k,
               DistPrb(rbs, slot, gap, x) = DistPrb(rbs, slot, gap, y)
        PROVE  x = y
    <3>1. PICK q \in Nat, v \in Nat : /\ v < W /\ x = W * q + v /\ TurnOf(v) \in 0..(W - 1)
                                      /\ DistPrb(rbs, slot, gap, x) = W * q + TurnOf(v)
      BY <2>4, <2>6
    <3>2. PICK p \in Nat, w \in Nat : /\ w < W /\ y = W * p + w /\ TurnOf(w) \in 0..(W - 1)
                                      /\ DistPrb(rbs, slot, gap, y) = W * p + TurnOf(w)
      BY <2>4, <2>6
    <3>3. W * q + TurnOf(v) = W * p + TurnOf(w)
      BY <2>6, <3>1, <3>2
    <3>4. q = p /\ TurnOf(v) = TurnOf(w)
      BY <2>2, <3>1, <3>2, <3>3, OneQuotient
    <3>5. v = w
      BY <1>3, <3>1, <3>2, <3>4 DEF W
    <3> QED
      BY <3>1, <3>2, <3>4, <3>5
  <2> QED
    BY <1>2, <2>5, <2>6
<1> QED
  BY <1>5, <1>6

\* n different blocks of a band, the lowest first
Owns(blocks, n, rbs) ==
  /\ Len(blocks) = n /\ Cardinality(ToSet(blocks)) = n
  /\ ToSet(blocks) \subseteq 0..(rbs - 1)
  /\ \A i \in 1..(Len(blocks) - 1) : blocks[i] < blocks[i + 1]

\* So are n blocks that differ, sorted.
LEMMA SortedOwns ==
  ASSUME NEW n \in Nat, NEW rbs \in Nat, rbs <= MaxRbs, NEW seq \in [1..n -> 0..(rbs - 1)],
         \A i, j \in 1..n : seq[i] = seq[j] => i = j
  PROVE  Owns(Sorted(seq), n, rbs) /\ ToSet(Sorted(seq)) = {seq[i] : i \in 1..n}
<1> DEFINE T == {seq[i] : i \in 1..n}
           s == Sorted(seq)
<1>1. ListsUp(s, T)
  <2>1. MaxRbs \in Nat
    BY DEF MaxRbs
  <2>2. seq \in [1..n -> 0..(MaxRbs - 1)]
    <3>1. \A i \in 1..n : seq[i] \in 0..(MaxRbs - 1)
      BY <2>1
    <3> QED
      BY <3>1
  <2> QED
    BY <2>2, SortedLists
<1>2. T \subseteq 0..(rbs - 1)
  OBVIOUS
<1>3. IsFiniteSet(T) /\ Cardinality(T) = n
  <2>1. seq \in [1..n -> T] /\ \A x \in T : \E i \in 1..n : seq[i] = x
    OBVIOUS
  <2> HIDE DEF T
  <2>2. seq \in Bijection(1..n, T)
    <3>1. seq \in Injection(1..n, T)
      BY <2>1 DEF Injection, IsInjective
    <3> QED
      BY <2>1, <3>1 DEF Bijection, Surjection
  <2>3. ExistsBijection(1..n, T)
    BY <2>2 DEF ExistsBijection
  <2> QED
    BY <2>3, FS_CountingElements, FS_NatBijection
<1> HIDE DEF s, T
<1>4. Len(s) = n /\ ToSet(s) = T
  BY <1>1, <1>3, ListCounts
<1>5. ASSUME NEW i \in 1..(Len(s) - 1) PROVE s[i] < s[i + 1]
  <2>1. i \in 1..Len(s) /\ i + 1 \in 1..Len(s) /\ i < i + 1
    BY <1>4
  <2> QED
    BY <1>1, <2>1 DEF ListsUp
<1>6. Owns(s, n, rbs) /\ ToSet(s) = T
  BY <1>2, <1>3, <1>4, <1>5 DEF Owns
<1> QED
  BY <1>6 DEF s, T

\* The places of all virtual blocks: as many, and in the band.
LEMMA AllPlacesCount ==
  ASSUME NEW rbs \in Bandwidths, NEW gap \in {0, 1}, gap = 1 => rbs >= 50
  PROVE  /\ IsFiniteSet(AllPlaces(rbs, gap)) /\ Cardinality(AllPlaces(rbs, gap)) = DistVrbs(rbs, gap)
         /\ AllPlaces(rbs, gap) \subseteq 0..(rbs - 1)
         /\ DistVrbs(rbs, gap) \in Nat /\ DistVrbs(rbs, gap) <= rbs
         /\ rbs \in Nat /\ rbs <= MaxRbs
<1>1. PICK m \in Nat, rows \in Nat, h \in Nat, k \in Nat : Arranged(rbs, gap, m, rows, h, k)
  BY BandsAreArranged
<1> DEFINE g == DistVrbGap(rbs, gap)
           a == m * k
<1>2. /\ g \in Nat /\ DistVrbs(rbs, gap) = 2 * a /\ a \in Nat /\ m \in Nat
      /\ \/ gap = 0 /\ k = 1 /\ a = m /\ g >= m /\ g + m <= rbs
         \/ gap = 1 /\ 2 * a <= rbs
      /\ rbs \in Nat /\ rbs <= MaxRbs /\ MaxRbs \in Nat
  <2>1. 2 * m * k = 2 * a /\ a \in Nat
    OBVIOUS
  <2>2. MaxRbs \in Nat
    BY DEF MaxRbs
  <2>3. k = 1 => a = m
    OBVIOUS
  <2> HIDE DEF a
  <2> QED
    BY <1>1, <2>1, <2>2, <2>3 DEF Arranged
<1> HIDE DEF g, a
<1>3. (2 * a) \div 2 = a
  BY <1>2
<1>4. AllPlaces(rbs, gap) = IF gap = 0 THEN (0..(a - 1)) \cup (g..(g + a - 1)) ELSE 0..(2 * a - 1)
  BY <1>2, <1>3 DEF AllPlaces, g
<1>5. CASE gap = 0
  <2> DEFINE low  == 0..(a - 1)
             high == g..(g + a - 1)
  <2>1. g >= a /\ g + a <= rbs
    BY <1>2, <1>5
  <2>2. /\ IsFiniteSet(low) /\ Cardinality(low) = a
        /\ IsFiniteSet(high) /\ Cardinality(high) = a
    <3>1. 0 \in Int /\ a - 1 \in Int /\ g \in Int /\ g + a - 1 \in Int
      BY <1>2
    <3>2. /\ IsFiniteSet(low) /\ Cardinality(low) = IF 0 > a - 1 THEN 0 ELSE (a - 1) - 0 + 1
          /\ IsFiniteSet(high) /\ Cardinality(high) = IF g > g + a - 1 THEN 0 ELSE (g + a - 1) - g + 1
      BY <3>1, FS_Interval
    <3> QED
      BY <1>2, <3>2
  <2>3. low \cap high = {} /\ low \cup high \subseteq 0..(rbs - 1)
    BY <1>2, <2>1
  <2> HIDE DEF low, high
  <2>4. IsFiniteSet(low \cup high) /\ Cardinality(low \cup high) = a + a
    <3>1. Cardinality({}) = 0
      BY FS_EmptySet
    <3>2. IsFiniteSet(low \cup high) /\ Cardinality(low \cup high) = a + a - 0
      BY <2>2, <2>3, <3>1, FS_Union
    <3> QED
      BY <1>2, <3>2
  <2>5. AllPlaces(rbs, gap) = low \cup high
    BY <1>4, <1>5 DEF low, high
  <2>6. a + a = 2 * a /\ 2 * a <= rbs
    BY <1>2, <2>1
  <2> QED
    BY <1>2, <2>3, <2>4, <2>5, <2>6
<1>6. CASE gap = 1
  <2>1. AllPlaces(rbs, gap) = 0..(2 * a - 1) /\ 2 * a <= rbs
    BY <1>2, <1>4, <1>6
  <2>2. IsFiniteSet(0..(2 * a - 1)) /\ Cardinality(0..(2 * a - 1)) = 2 * a
    <3>1. 2 * a - 1 \in Int
      BY <1>2
    <3>2. IsFiniteSet(0..(2 * a - 1)) /\ Cardinality(0..(2 * a - 1)) = IF 0 > 2 * a - 1 THEN 0 ELSE (2 * a - 1) - 0 + 1
      BY <3>1, FS_Interval
    <3> QED
      BY <1>2, <3>2
  <2>3. 0..(2 * a - 1) \subseteq 0..(rbs - 1)
    BY <1>2, <2>1
  <2> QED
    BY <1>2, <2>1, <2>2, <2>3
<1> QED
  BY <1>5, <1>6

\* A range of virtual blocks has as many blocks of its own in each slot, and all
\* of them have all places.
LEMMA DistributedOwns ==
  ASSUME NEW rbs \in Bandwidths, NEW gap \in {0, 1}, gap = 1 => rbs >= 50, NEW slot \in {0, 1},
         NEW start \in Nat, NEW n \in Nat, start + n <= DistVrbs(rbs, gap)
  PROVE  /\ Owns(DistBlocks(rbs, slot, gap, start, n), n, rbs)
         /\ n = DistVrbs(rbs, gap) => ToSet(DistBlocks(rbs, slot, gap, start, n)) = AllPlaces(rbs, gap)
<1> DEFINE seq == [i \in 1..n |-> DistPrb(rbs, slot, gap, start + i - 1)]
           All == AllPlaces(rbs, gap)
           vrbs == DistVrbs(rbs, gap)
<1>1. /\ IsFiniteSet(All) /\ Cardinality(All) = vrbs /\ All \subseteq 0..(rbs - 1)
      /\ vrbs \in Nat /\ rbs \in Nat /\ rbs <= MaxRbs
  BY AllPlacesCount
<1>2. ASSUME NEW i \in 1..n PROVE seq[i] \in All
  <2>1. start + i - 1 \in Nat /\ start + i - 1 < vrbs
    BY <1>1
  <2>2. DistPrb(rbs, slot, gap, start + i - 1) \in All
    BY <2>1, PlacesApart
  <2> QED
    BY <2>2
<1>3. ASSUME NEW i \in 1..n, NEW j \in 1..n, seq[i] = seq[j] PROVE i = j
  <2> DEFINE x == start + i - 1
             y == start + j - 1
  <2>1. x \in Nat /\ x < vrbs /\ y \in Nat /\ y < vrbs
    BY <1>1
  <2>2. DistPrb(rbs, slot, gap, x) = DistPrb(rbs, slot, gap, y)
    BY <1>3
  <2> HIDE DEF x, y
  <2>3. x = y
    BY <2>1, <2>2, PlacesApart
  <2> QED
    BY <2>3 DEF x, y
<1>4. seq \in [1..n -> 0..(rbs - 1)]
  <2>1. \A i \in 1..n : seq[i] \in 0..(rbs - 1)
    BY <1>1, <1>2
  <2> QED
    BY <2>1
<1>5. DistBlocks(rbs, slot, gap, start, n) = Sorted(seq)
  BY DEF DistBlocks
<1> HIDE DEF seq, All, vrbs
<1>6. Owns(Sorted(seq), n, rbs) /\ ToSet(Sorted(seq)) = {seq[i] : i \in 1..n}
  <2>1. rbs \in Nat /\ rbs <= MaxRbs
    BY <1>1
  <2>2. \A i, j \in 1..n : seq[i] = seq[j] => i = j
    BY <1>3
  <2> QED
    BY <1>4, <2>1, <2>2, SortedOwns
<1>7. ASSUME n = vrbs PROVE ToSet(Sorted(seq)) = All
  <2>1. ToSet(Sorted(seq)) \in SUBSET All
    BY <1>2, <1>6
  <2>2. Cardinality(ToSet(Sorted(seq))) = Cardinality(All)
    BY <1>1, <1>6, <1>7 DEF Owns
  <2> QED
    BY <1>1, <2>1, <2>2, FS_Subset
<1> QED
  BY <1>5, <1>6, <1>7 DEF All, vrbs

\* A local range is its blocks.
LEMMA LocalOwns ==
  ASSUME NEW rbs \in Nat, rbs <= MaxRbs, NEW start \in Nat, NEW n \in Nat \ {0}, start + n <= rbs
  PROVE  /\ Owns(LocalBlocks(rbs, start, n), n, rbs)
         /\ ToSet(LocalBlocks(rbs, start, n)) = start..(start + n - 1)
<1> DEFINE seq == [i \in 1..n |-> (start + i - 1) % rbs]
<1>1. \A i \in 1..n : seq[i] = start + i - 1
  <2>1. ASSUME NEW i \in 1..n PROVE (start + i - 1) % rbs = start + i - 1
    <3> DEFINE x == start + i - 1
    <3>1. x \in Nat /\ x < rbs /\ rbs > 0
      OBVIOUS
    <3> HIDE DEF x
    <3>2. x % rbs = x
      BY <3>1
    <3> QED
      BY <3>2 DEF x
  <2> QED
    BY <2>1
<1>2. LocalBlocks(rbs, start, n) = Sorted(seq)
  BY DEF LocalBlocks
<1>3. seq \in [1..n -> 0..(rbs - 1)]
  <2>1. \A i \in 1..n : seq[i] \in 0..(rbs - 1)
    BY <1>1
  <2> QED
    BY <2>1
<1> HIDE DEF seq
<1>4. \A i, j \in 1..n : seq[i] = seq[j] => i = j
  BY <1>1
<1>5. Owns(Sorted(seq), n, rbs) /\ ToSet(Sorted(seq)) = {seq[i] : i \in 1..n}
  <2>1. n \in Nat
    OBVIOUS
  <2> QED
    BY <1>3, <1>4, <2>1, SortedOwns
<1>6. {seq[i] : i \in 1..n} = start..(start + n - 1)
  <2>1. ASSUME NEW x \in start..(start + n - 1) PROVE \E i \in 1..n : seq[i] = x
    <3>1. x - start + 1 \in 1..n /\ start + (x - start + 1) - 1 = x
      OBVIOUS
    <3>2. seq[x - start + 1] = x
      BY <1>1, <3>1
    <3> QED
      BY <3>1, <3>2
  <2>2. ASSUME NEW i \in 1..n PROVE seq[i] \in start..(start + n - 1)
    BY <1>1
  <2> QED
    BY <2>1, <2>2
<1> QED
  BY <1>2, <1>5, <1>6

-----------------------------------------------------------------------------
(* The fields of a grant.                                                  *)

\* The entries of vals[] that are read of Formats 1, 1A and 1C.
LEMMA Format1Fields ==
  ASSUME NEW dci, dci.type = "1"
  PROVE  /\ GetVal(dci, "ra_header") = dci.vals[1] /\ GetVal(dci, "blk_assign") = dci.vals[2]
         /\ GetVal(dci, "mod") = dci.vals[3] /\ GetVal(dci, "rv") = dci.vals[6]
<1> DEFINE At(name) == {k \in DOMAIN Values1 : Values1[k] = name}
<1>1. \A name : GetVal(dci, name) = IF At(name) = {} THEN -1 ELSE dci.vals[CHOOSE k \in At(name) : TRUE]
  BY DEF GetVal, EnumOf, ValuesOf
<1>2. DOMAIN Values1 = 1..8
  BY DEF Values1
<1>3. /\ At("ra_header") = {1} /\ At("blk_assign") = {2} /\ At("mod") = {3} /\ At("rv") = {6}
  BY <1>2 DEF Values1
<1>4. \A k : (CHOOSE j \in {k} : TRUE) = k
  OBVIOUS
<1> HIDE DEF At
<1> QED
  BY <1>1, <1>3, <1>4

LEMMA Format1aFields ==
  ASSUME NEW dci, dci.type = "1a"
  PROVE  /\ GetVal(dci, "local_vrb") = dci.vals[2] /\ GetVal(dci, "blk_assign") = dci.vals[3]
         /\ GetVal(dci, "mod") = dci.vals[4] /\ GetVal(dci, "ndi") = dci.vals[6]
         /\ GetVal(dci, "rv") = dci.vals[7] /\ GetVal(dci, "tpc") = dci.vals[8]
<1> DEFINE At(name) == {k \in DOMAIN Values1a : Values1a[k] = name}
<1>1. \A name : GetVal(dci, name) = IF At(name) = {} THEN -1 ELSE dci.vals[CHOOSE k \in At(name) : TRUE]
  BY DEF GetVal, EnumOf, ValuesOf
<1>2. DOMAIN Values1a = 1..9
  BY DEF Values1a
<1>3. /\ At("local_vrb") = {2} /\ At("blk_assign") = {3} /\ At("mod") = {4} /\ At("ndi") = {6}
      /\ At("rv") = {7} /\ At("tpc") = {8}
  BY <1>2 DEF Values1a
<1>4. \A k : (CHOOSE j \in {k} : TRUE) = k
  OBVIOUS
<1> HIDE DEF At
<1> QED
  BY <1>1, <1>3, <1>4

LEMMA Format1cFields ==
  ASSUME NEW dci, dci.type = "1c"
  PROVE  GetVal(dci, "blk_size") = dci.vals[3]
<1> DEFINE At(name) == {k \in DOMAIN Values1c : Values1c[k] = name}
<1>1. \A name : GetVal(dci, name) = IF At(name) = {} THEN -1 ELSE dci.vals[CHOOSE k \in At(name) : TRUE]
  BY DEF GetVal, EnumOf, ValuesOf
<1>2. DOMAIN Values1c = 1..3
  BY DEF Values1c
<1>3. At("blk_size") = {3}
  BY <1>2 DEF Values1c
<1>4. \A k : (CHOOSE j \in {k} : TRUE) = k
  OBVIOUS
<1> HIDE DEF At
<1> QED
  BY <1>1, <1>3, <1>4

\* The gap and the value that share the assignment of a wide band come apart.
LEMMA GapComesApart ==
  ASSUME NEW rbs \in {50, 75, 100}, NEW gap \in {0, 1}, NEW riv \in Nat, riv < 2^(BlkAssign(rbs) - 1),
         NEW dci, dci.rbs = rbs, GetVal(dci, "local_vrb") = 1,
         GetVal(dci, "blk_assign") = riv + gap * 2^(BlkAssign(rbs) - 1)
  PROVE  DistGap(dci) = gap /\ DistRa(dci) = riv
<1> DEFINE power == 2^(BlkAssign(rbs) - 1)
<1>1. power = IF rbs = 50 THEN 1024 ELSE IF rbs = 75 THEN 2048 ELSE 4096
  <2>1. rbs = 50 => power = 2^10
    BY DEF BlkAssign
  <2>2. rbs = 75 => power = 2^11
    BY DEF BlkAssign
  <2>3. rbs = 100 => power = 2^12
    BY DEF BlkAssign
  <2>4. 2^10 = 1024 /\ 2^11 = 2048 /\ 2^12 = 4096
    OBVIOUS
  <2> HIDE DEF power
  <2> QED
    BY <2>1, <2>2, <2>3, <2>4
<1>2. DistRa(dci) = (riv + gap * power) % power
  <2>1. DistRa(dci) = (riv + gap * power) % 2^(IF rbs = 50 THEN 10 ELSE IF rbs = 75 THEN 11 ELSE 12)
    BY DEF DistRa
  <2>2. 2^10 = 1024 /\ 2^11 = 2048 /\ 2^12 = 4096
    OBVIOUS
  <2> HIDE DEF power
  <2> QED
    BY <1>1, <2>1, <2>2
<1>3. DistGap(dci) = (riv + gap * power) \div power
  BY DEF DistGap
<1>4. power \in Nat \ {0} /\ riv < power
  <2> HIDE DEF power
  <2>1. power \in Nat \ {0}
    BY <1>1
  <2> QED
    BY <2>1 DEF power
<1> HIDE DEF power
<1>5. (riv + gap * power) % power = riv /\ (riv + gap * power) \div power = gap
  <2>1. CASE gap = 0
    BY <1>4, <2>1
  <2>2. CASE gap = 1
    <3>1. gap * power = power
      BY <1>4, <2>2
    <3>2. (riv + power) % power = riv /\ (riv + power) \div power = 1
      <4> DEFINE x == riv + power
                 d == x \div power
                 r == x % power
      <4>1. x \in Nat /\ power \in Nat \ {0}
        BY <1>4
      <4>2. d \in Nat /\ r \in 0..(power - 1) /\ x = power * d + r
        <5> HIDE DEF x
        <5> QED
          BY <4>1, Division
      <4>3. power * d + r = power * 1 + riv
        BY <1>4, <4>2
      <4>4. riv \in 0..(power - 1)
        BY <1>4
      <4> HIDE DEF x, d, r
      <4>5. d = 1 /\ r = riv
        BY <4>1, <4>2, <4>3, <4>4, OneQuotient
      <4> QED
        BY <4>5 DEF x, d, r
    <3> QED
      BY <2>2, <3>1, <3>2
  <2> QED
    BY <2>1, <2>2
<1> QED
  BY <1>2, <1>3, <1>5

-----------------------------------------------------------------------------
(* Bitmaps.                                                                *)

\* The quotient of a number by its place between two multiples.
LEMMA QuotientIs ==
  ASSUME NEW p \in Nat \ {0}, NEW b \in Nat, NEW q \in Nat, p * q <= b, b < p * q + p
  PROVE  b \div p = q /\ b % p = b - p * q
<1> DEFINE r == b - p * q
           d == b \div p
           s == b % p
<1>1. p * q \in Nat
  OBVIOUS
<1>2. r \in 0..(p - 1) /\ p * q + r = b
  BY <1>1
<1>3. d \in Nat /\ s \in 0..(p - 1) /\ b = p * d + s
  BY Division
<1> HIDE DEF r, d, s
<1>4. p * d + s = p * q + r
  BY <1>2, <1>3
<1>5. d = q /\ s = r
  BY <1>2, <1>3, <1>4, OneQuotient
<1> QED
  BY <1>5 DEF r, d, s

\* The groups of a bitmap are the blocks whose group has its bit.
LEMMA GroupsAreRead ==
  ASSUME NEW rbs \in Nat, NEW p \in Nat \ {0}, p = TypeZeroP(rbs), NEW size \in Nat \ {0},
         p * (size - 1) < rbs, rbs <= p * size, NEW bmp
  PROVE  Type0Blocks(rbs, bmp, size) = Ascending({b \in 0..(rbs - 1) : BitAt(bmp, size, b \div p + 1)}, rbs)
<1> DEFINE Group(i) == {b \in (p * (i - 1)) .. (p * i - 1) : i = size => b < rbs}
           bits     == {k \in 1..size : BitAt(bmp, size, k)}
           groups   == UNION {Group(i) : i \in bits}
           granted  == {b \in 0..(rbs - 1) : BitAt(bmp, size, b \div p + 1)}
<1>1. Type0Blocks(rbs, bmp, size) = Ascending(groups, p * size)
  BY DEF Type0Blocks
<1>2. ASSUME NEW b \in groups PROVE b \in granted
  <2>1. PICK i \in bits : b \in Group(i)
    OBVIOUS
  <2>2. i \in 1..size /\ BitAt(bmp, size, i)
    OBVIOUS
  <2> DEFINE q == i - 1
  <2>3. q \in Nat /\ i = q + 1 /\ p * i = p * q + p /\ p * q \in Nat
    BY <2>2
  <2>4. b \in Nat /\ p * q <= b /\ b < p * q + p /\ (i = size => b < rbs)
    BY <2>1, <2>3
  <2>5. b < rbs
    <3>1. CASE i = size
      BY <2>4, <3>1
    <3>2. CASE i # size
      <4>1. size - 1 - i \in Nat /\ p * (size - 1) = p * i + p * (size - 1 - i)
        BY <2>2, <3>2
      <4>2. p * (size - 1 - i) \in Nat
        BY <4>1
      <4> HIDE DEF q
      <4> QED
        BY <2>3, <2>4, <4>1, <4>2
    <3> QED
      BY <3>1, <3>2
  <2> HIDE DEF q
  <2>6. b \div p = q
    BY <2>3, <2>4, QuotientIs
  <2> HIDE DEF bits, Group, groups
  <2> QED
    BY <2>2, <2>3, <2>4, <2>5, <2>6
<1>3. ASSUME NEW b \in granted PROVE b \in groups /\ b \in 0..(p * size - 1)
  <2> DEFINE q == b \div p
             i == q + 1
  <2>1. b \in Nat /\ b < rbs /\ BitAt(bmp, size, i)
    OBVIOUS
  <2>2. q \in Nat /\ b % p \in 0..(p - 1) /\ b = p * q + (b % p) /\ p * q \in Nat
    <3>1. q \in Nat /\ b % p \in 0..(p - 1) /\ b = p * q + (b % p)
      BY <2>1, Division
    <3> HIDE DEF q
    <3> QED
      BY <3>1
  <2> HIDE DEF granted
  <2>3. q < size
    <3> SUFFICES ASSUME q >= size PROVE FALSE
      BY <2>2
    <3> HIDE DEF q
    <3>1. p * q = p * size + p * (q - size) /\ p * (q - size) \in Nat /\ p * size \in Nat
      BY <2>2
    <3> QED
      BY <2>1, <2>2, <3>1
  <2>4. i \in 1..size /\ i - 1 = q /\ p * i = p * q + p
    <3> HIDE DEF q
    <3> QED
      BY <2>2, <2>3
  <2>5. i \in bits
    BY <2>1, <2>4
  <2>6. b \in Group(i)
    <3> HIDE DEF i, q
    <3> QED
      BY <2>1, <2>2, <2>4
  <2>7. b < p * size
    BY <2>1
  <2> HIDE DEF Group, bits, i
  <2> QED
    BY <2>1, <2>5, <2>6, <2>7
<1> HIDE DEF groups, granted
<1>4. groups \cap 0..(p * size - 1) = granted
  BY <1>2, <1>3
<1>5. granted \cap 0..(rbs - 1) = granted
  BY DEF granted
<1>6. ListsUp(Ascending(groups, p * size), granted)
  <2>1. p * size \in Nat
    OBVIOUS
  <2>2. ListsUp(Ascending(groups, p * size), groups \cap 0..(p * size - 1))
    BY <2>1, AscendingLists
  <2> QED
    BY <1>4, <2>2
<1>7. ListsUp(Ascending(granted, rbs), granted)
  BY <1>5, AscendingLists
<1>8. Ascending(groups, p * size) = Ascending(granted, rbs)
  BY <1>6, <1>7, OneListUp
<1> QED
  BY <1>1, <1>8 DEF granted

\* Block x of a subset of the groups, and how many it has
SubsetBlock(p, sub, x) == (x \div p) * p * p + sub * p + (x % p)
SubsetSize(rbs, sub) == Type1Shift(rbs, sub, 0)

\* The bits of the bitmap of a subset
SubsetBits(rbs) == Type0Ra(rbs) - IF rbs <= 26 THEN 2 ELSE 3

\* A subset has at least as many blocks as the bitmap has bits.
LEMMA SubsetSizes ==
  ASSUME NEW rbs \in Bandwidths \ {6}, NEW p, p = TypeZeroP(rbs), NEW sub \in 0..(p - 1)
  PROVE  /\ p \in {2, 3, 4} /\ SubsetBits(rbs) \in Nat /\ SubsetSize(rbs, sub) \in Nat
         /\ SubsetBits(rbs) <= SubsetSize(rbs, sub)
         /\ Type1Shift(rbs, sub, SubsetBits(rbs)) = SubsetSize(rbs, sub) - SubsetBits(rbs)
         /\ \A x \in Nat : x < SubsetSize(rbs, sub) <=> SubsetBlock(p, sub, x) < rbs
<1>1. rbs \in {15, 25, 50, 75, 100}
  BY DEF Bandwidths
<1>2. CASE rbs = 15
  <2>1. p = 2 /\ SubsetBits(rbs) = 6 /\ sub \in {0, 1}
    BY <1>2 DEF TypeZeroP, SubsetBits, Type0Ra
  <2>2. \A size \in Nat : Type1Shift(rbs, sub, size) = (IF sub = 0 THEN 8 ELSE 7) - size
    BY <1>2, <2>1 DEF Type1Shift, TypeZeroP
  <2> QED
    BY <1>2, <2>1, <2>2 DEF SubsetSize, SubsetBlock
<1>3. CASE rbs = 25
  <2>1. p = 2 /\ SubsetBits(rbs) = 11 /\ sub \in {0, 1}
    BY <1>3 DEF TypeZeroP, SubsetBits, Type0Ra
  <2>2. \A size \in Nat : Type1Shift(rbs, sub, size) = (IF sub = 0 THEN 13 ELSE 12) - size
    BY <1>3, <2>1 DEF Type1Shift, TypeZeroP
  <2> QED
    BY <1>3, <2>1, <2>2 DEF SubsetSize, SubsetBlock
<1>4. CASE rbs = 50
  <2>1. p = 3 /\ SubsetBits(rbs) = 14 /\ sub \in {0, 1, 2}
    BY <1>4 DEF TypeZeroP, SubsetBits, Type0Ra
  <2>2. \A size \in Nat : Type1Shift(rbs, sub, size) = (IF sub = 0 THEN 18 ELSE IF sub = 1 THEN 17 ELSE 15) - size
    BY <1>4, <2>1 DEF Type1Shift, TypeZeroP
  <2> QED
    BY <1>4, <2>1, <2>2 DEF SubsetSize, SubsetBlock
<1>5. CASE rbs = 75
  <2>1. p = 4 /\ SubsetBits(rbs) = 16 /\ sub \in {0, 1, 2, 3}
    BY <1>5 DEF TypeZeroP, SubsetBits, Type0Ra
  <2>2. \A size \in Nat : Type1Shift(rbs, sub, size)
                           = (IF sub <= 1 THEN 20 ELSE IF sub = 2 THEN 19 ELSE 16) - size
    BY <1>5, <2>1 DEF Type1Shift, TypeZeroP
  <2> QED
    BY <1>5, <2>1, <2>2 DEF SubsetSize, SubsetBlock
<1>6. CASE rbs = 100
  <2>1. p = 4 /\ SubsetBits(rbs) = 22 /\ sub \in {0, 1, 2, 3}
    BY <1>6 DEF TypeZeroP, SubsetBits, Type0Ra
  <2>2. \A size \in Nat : Type1Shift(rbs, sub, size) = (IF sub = 0 THEN 28 ELSE 24) - size
    BY <1>6, <2>1 DEF Type1Shift, TypeZeroP
  <2> QED
    BY <1>6, <2>1, <2>2 DEF SubsetSize, SubsetBlock
<1> QED
  BY <1>1, <1>2, <1>3, <1>4, <1>5, <1>6

\* The blocks of a subset go up, and are those whose group belongs to it.
LEMMA SubsetBlocksGoUp ==
  ASSUME NEW p \in {2, 3, 4}, NEW sub \in 0..(p - 1)
  PROVE  /\ \A x \in Nat : SubsetBlock(p, sub, x) \in Nat /\ (SubsetBlock(p, sub, x) \div p) % p = sub
         /\ \A x, y \in Nat : x < y => SubsetBlock(p, sub, x) < SubsetBlock(p, sub, y)
         /\ \A b \in Nat : (b \div p) % p = sub => \E x \in Nat : SubsetBlock(p, sub, x) = b
<1>1. CASE p = 2
  <2>1. \A x \in Nat : SubsetBlock(p, sub, x) = 4 * (x \div 2) + 2 * sub + (x % 2)
    BY <1>1 DEF SubsetBlock
  <2>2. ASSUME NEW x \in Nat PROVE SubsetBlock(p, sub, x) \in Nat /\ (SubsetBlock(p, sub, x) \div p) % p = sub
    <3> DEFINE q == x \div 2
               r == x % 2
               b == 4 * q + 2 * sub + r
    <3>1. SubsetBlock(p, sub, x) = b
      BY <2>1, Zenon
    <3>2. q \in Nat /\ r \in 0..1
      OBVIOUS
    <3>3. sub \in 0..1
      BY <1>1
    <3> HIDE DEF q, r
    <3>4. b \in Nat /\ b \div 2 = 2 * q + sub
      BY <3>2, <3>3
    <3>5. (2 * q + sub) % 2 = sub
      BY <3>2, <3>3
    <3> HIDE DEF b
    <3> QED
      BY <1>1, <3>1, <3>4, <3>5
  <2>3. \A x, y \in Nat : x < y => SubsetBlock(p, sub, x) < SubsetBlock(p, sub, y)
    BY <1>1, <2>1
  <2>4. ASSUME NEW b \in Nat, (b \div p) % p = sub PROVE \E x \in Nat : SubsetBlock(p, sub, x) = b
    <3> DEFINE x == 2 * (b \div 4) + (b % 2)
    <3>1. x \in Nat /\ 4 * (x \div 2) + 2 * sub + (x % 2) = b
      BY <1>1, <2>4
    <3> HIDE DEF x
    <3> QED
      BY <2>1, <3>1
  <2> QED
    BY <2>2, <2>3, <2>4
<1>2. CASE p = 3
  <2>1. \A x \in Nat : SubsetBlock(p, sub, x) = 9 * (x \div 3) + 3 * sub + (x % 3)
    BY <1>2 DEF SubsetBlock
  <2>2. ASSUME NEW x \in Nat PROVE SubsetBlock(p, sub, x) \in Nat /\ (SubsetBlock(p, sub, x) \div p) % p = sub
    <3> DEFINE q == x \div 3
               r == x % 3
               b == 9 * q + 3 * sub + r
    <3>1. SubsetBlock(p, sub, x) = b
      BY <2>1, Zenon
    <3>2. q \in Nat /\ r \in 0..2
      OBVIOUS
    <3>3. sub \in 0..2
      BY <1>2
    <3> HIDE DEF q, r
    <3>4. b \in Nat /\ b \div 3 = 3 * q + sub
      BY <3>2, <3>3
    <3>5. (3 * q + sub) % 3 = sub
      BY <3>2, <3>3
    <3> HIDE DEF b
    <3> QED
      BY <1>2, <3>1, <3>4, <3>5
  <2>3. \A x, y \in Nat : x < y => SubsetBlock(p, sub, x) < SubsetBlock(p, sub, y)
    BY <1>2, <2>1
  <2>4. ASSUME NEW b \in Nat, (b \div p) % p = sub PROVE \E x \in Nat : SubsetBlock(p, sub, x) = b
    <3> DEFINE x == 3 * (b \div 9) + (b % 3)
    <3>1. x \in Nat /\ 9 * (x \div 3) + 3 * sub + (x % 3) = b
      BY <1>2, <2>4
    <3> HIDE DEF x
    <3> QED
      BY <2>1, <3>1
  <2> QED
    BY <2>2, <2>3, <2>4
<1>3. CASE p = 4
  <2>1. \A x \in Nat : SubsetBlock(p, sub, x) = 16 * (x \div 4) + 4 * sub + (x % 4)
    BY <1>3 DEF SubsetBlock
  <2>2. ASSUME NEW x \in Nat PROVE SubsetBlock(p, sub, x) \in Nat /\ (SubsetBlock(p, sub, x) \div p) % p = sub
    <3> DEFINE q == x \div 4
               r == x % 4
               b == 16 * q + 4 * sub + r
    <3>1. SubsetBlock(p, sub, x) = b
      BY <2>1, Zenon
    <3>2. q \in Nat /\ r \in 0..3
      OBVIOUS
    <3>3. sub \in 0..3
      BY <1>3
    <3> HIDE DEF q, r
    <3>4. b \in Nat /\ b \div 4 = 4 * q + sub
      BY <3>2, <3>3
    <3>5. (4 * q + sub) % 4 = sub
      BY <3>2, <3>3
    <3> HIDE DEF b
    <3> QED
      BY <1>3, <3>1, <3>4, <3>5
  <2>3. \A x, y \in Nat : x < y => SubsetBlock(p, sub, x) < SubsetBlock(p, sub, y)
    BY <1>3, <2>1
  <2>4. ASSUME NEW b \in Nat, (b \div p) % p = sub PROVE \E x \in Nat : SubsetBlock(p, sub, x) = b
    <3> DEFINE x == 4 * (b \div 16) + (b % 4)
    <3>1. x \in Nat /\ 16 * (x \div 4) + 4 * sub + (x % 4) = b
      BY <1>3, <2>4
    <3> HIDE DEF x
    <3> QED
      BY <2>1, <3>1
  <2> QED
    BY <2>2, <2>3, <2>4
<1> QED
  BY <1>1, <1>2, <1>3

\* A function on 1..n that goes up lists its values.
LEMMA FunctionListsUp ==
  ASSUME NEW n \in Nat, NEW f \in [1..n -> Nat], \A i, j \in 1..n : i < j => f[i] < f[j]
  PROVE  ListsUp(f, {f[i] : i \in 1..n})
<1>1. f \in Seq(Nat) /\ Len(f) = n
  BY DEF Seq
<1> QED
  BY <1>1 DEF ListsUp

\* The members of a subset, the lowest first
Members(rbs, p, sub) == Ascending({b \in 0..(rbs - 1) : (b \div p) % p = sub}, rbs)

LEMMA MembersAre ==
  ASSUME NEW rbs \in Bandwidths \ {6}, NEW p, p = TypeZeroP(rbs), NEW sub \in 0..(p - 1)
  PROVE  /\ Len(Members(rbs, p, sub)) = SubsetSize(rbs, sub)
         /\ DOMAIN Members(rbs, p, sub) = 1..SubsetSize(rbs, sub)
         /\ Members(rbs, p, sub) = [j \in 1..SubsetSize(rbs, sub) |-> SubsetBlock(p, sub, j - 1)]
<1> DEFINE M == SubsetSize(rbs, sub)
           T == {b \in 0..(rbs - 1) : (b \div p) % p = sub}
           f == [j \in 1..M |-> SubsetBlock(p, sub, j - 1)]
<1>1. /\ p \in {2, 3, 4} /\ M \in Nat /\ rbs \in Nat
      /\ \A x \in Nat : x < M <=> SubsetBlock(p, sub, x) < rbs
  <2>1. rbs \in Nat
    BY DEF Bandwidths
  <2> QED
    BY <2>1, SubsetSizes
<1>2. /\ \A x \in Nat : SubsetBlock(p, sub, x) \in Nat /\ (SubsetBlock(p, sub, x) \div p) % p = sub
      /\ \A x, y \in Nat : x < y => SubsetBlock(p, sub, x) < SubsetBlock(p, sub, y)
      /\ \A b \in Nat : (b \div p) % p = sub => \E x \in Nat : SubsetBlock(p, sub, x) = b
  BY <1>1, SubsetBlocksGoUp
<1> HIDE DEF M
<1>3. \A j \in 1..M : j - 1 \in Nat /\ j - 1 < M /\ f[j] = SubsetBlock(p, sub, j - 1)
  BY <1>1
<1>4. f \in [1..M -> Nat]
  BY <1>2, <1>3
<1>5. {f[j] : j \in 1..M} = T
  <2>1. ASSUME NEW j \in 1..M PROVE f[j] \in T
    <3>1. f[j] \in Nat /\ f[j] < rbs /\ (f[j] \div p) % p = sub
      BY <1>1, <1>2, <1>3
    <3> HIDE DEF f
    <3> QED
      BY <1>1, <3>1
  <2>2. ASSUME NEW b \in T PROVE \E j \in 1..M : f[j] = b
    <3>1. b \in Nat /\ b < rbs
      BY <1>1
    <3>2. PICK x \in Nat : SubsetBlock(p, sub, x) = b
      BY <1>2, <3>1
    <3>3. x < M
      BY <1>1, <3>1, <3>2
    <3>4. x + 1 \in 1..M /\ (x + 1) - 1 = x
      BY <1>1, <3>3
    <3>5. f[x + 1] = b
      BY <3>2, <3>4
    <3> QED
      BY <3>4, <3>5
  <2> QED
    BY <2>1, <2>2
<1>6. \A i, j \in 1..M : i < j => f[i] < f[j]
  BY <1>2, <1>3
<1> HIDE DEF f
<1>7. ListsUp(f, T)
  BY <1>1, <1>4, <1>5, <1>6, FunctionListsUp
<1>8. ListsUp(Ascending(T, rbs), T)
  <2>1. T \cap 0..(rbs - 1) = T
    OBVIOUS
  <2> QED
    BY <1>1, <2>1, AscendingLists
<1>9. Members(rbs, p, sub) = f
  BY <1>7, <1>8, OneListUp DEF Members
<1>10. Len(f) = M /\ DOMAIN f = 1..M
  <2>1. DOMAIN f = 1..M /\ f \in Seq(Nat)
    BY <1>1, <1>4 DEF Seq
  <2> QED
    BY <1>1, <2>1
<1> QED
  BY <1>9, <1>10 DEF M, f

\* What the bits of the bitmap grant: blocks of the subset counted from its
\* first one, or so that its last block has the last bit
SubsetGranted(rbs, sub, shifted, bmp) ==
  LET n       == SubsetBits(rbs)
      members == Members(rbs, TypeZeroP(rbs), sub)
      first   == IF shifted = 1 THEN Len(members) - n ELSE 0
  IN Ascending({b \in 0..(rbs - 1) : \E i \in 1..n : /\ BitAt(bmp, n, i)
                                                     /\ first + i \in DOMAIN members
                                                     /\ members[first + i] = b}, rbs)

\* Single blocks are those of the bits.
LEMMA SubsetsAreRead ==
  ASSUME NEW rbs \in Bandwidths \ {6}, NEW p, p = TypeZeroP(rbs), NEW sub \in 0..(p - 1),
         NEW shifted \in {0, 1}, NEW bmp
  PROVE  Type1Blocks(rbs, sub, shifted, bmp, SubsetBits(rbs)) = SubsetGranted(rbs, sub, shifted, bmp)
<1> DEFINE n       == SubsetBits(rbs)
           M       == SubsetSize(rbs, sub)
           members == Members(rbs, p, sub)
           first   == IF shifted = 1 THEN Len(members) - n ELSE 0
           granted == {b \in 0..(rbs - 1) : \E i \in 1..n : /\ BitAt(bmp, n, i)
                                                            /\ first + i \in DOMAIN members
                                                            /\ members[first + i] = b}
           set     == {i \in 1..n : BitAt(bmp, n, i)}
           bits    == Ascending(set, n + 1)
           f       == [k \in DOMAIN bits |-> SubsetBlock(p, sub, bits[k] - 1 + first)]
<1>1. /\ p \in {2, 3, 4} /\ M \in Nat /\ n \in Nat /\ n <= M /\ rbs \in Nat
      /\ Type1Shift(rbs, sub, n) = M - n
      /\ \A x \in Nat : x < M <=> SubsetBlock(p, sub, x) < rbs
  <2>1. rbs \in Nat
    BY DEF Bandwidths
  <2> QED
    BY <2>1, SubsetSizes
<1>2. /\ Len(members) = M /\ DOMAIN members = 1..M
      /\ members = [j \in 1..M |-> SubsetBlock(p, sub, j - 1)]
  BY MembersAre
<1>3. /\ \A x \in Nat : SubsetBlock(p, sub, x) \in Nat
      /\ \A x, y \in Nat : x < y => SubsetBlock(p, sub, x) < SubsetBlock(p, sub, y)
  BY <1>1, SubsetBlocksGoUp
<1> HIDE DEF n, M, members
<1>4. first \in Nat /\ first + n <= M /\ first = IF shifted = 0 THEN 0 ELSE Type1Shift(rbs, sub, n)
  BY <1>1, <1>2
<1>5. Type1Blocks(rbs, sub, shifted, bmp, n) = f
  <2> DEFINE shift == IF shifted = 0 THEN 0 ELSE Type1Shift(rbs, sub, n)
  <2>1. Type1Blocks(rbs, sub, shifted, bmp, n)
          = [k \in DOMAIN bits |-> ((bits[k] - 1 + shift) \div p) * p * p + sub * p + ((bits[k] - 1 + shift) % p)]
    BY DEF Type1Blocks
  <2>2. shift = first
    BY <1>4
  <2> HIDE DEF shift, bits, first
  <2> QED
    BY <2>1, <2>2 DEF SubsetBlock
<1> HIDE DEF first
<1>6. ListsUp(bits, set)
  <2> DEFINE t == n + 1
  <2>1. t \in Nat /\ t - 1 = n
    BY <1>1
  <2>2. bits = Ascending(set, t)
    OBVIOUS
  <2>3. set \cap 0..n = set
    BY <1>1
  <2> HIDE DEF t, set, bits, f, granted
  <2>4. ListsUp(Ascending(set, t), set \cap 0..(t - 1))
    BY <2>1, AscendingLists
  <2> QED
    BY <2>1, <2>2, <2>3, <2>4
<1> DEFINE m == Len(bits)
<1>7. /\ m \in Nat /\ DOMAIN bits = 1..m
      /\ \A i, j \in 1..m : i < j => bits[i] < bits[j]
      /\ {bits[i] : i \in 1..m} = set
  <2> HIDE DEF bits, set, f, granted
  <2>1. /\ bits \in Seq(Nat)
        /\ \A i, j \in 1..m : i < j => bits[i] < bits[j]
        /\ {bits[i] : i \in 1..m} = set
    BY <1>6, Zenon DEF ListsUp
  <2>2. m \in Nat /\ DOMAIN bits = 1..m
    BY <2>1
  <2> QED
    BY <2>1, <2>2, Zenon
<1> HIDE DEF bits, m
<1>8. ASSUME NEW k \in 1..m
      PROVE  /\ bits[k] \in 1..n /\ BitAt(bmp, n, bits[k]) /\ bits[k] - 1 + first \in Nat
             /\ bits[k] - 1 + first < M /\ f[k] = SubsetBlock(p, sub, bits[k] - 1 + first)
  <2>1. bits[k] \in set
    BY <1>7
  <2>2. bits[k] \in 1..n /\ BitAt(bmp, n, bits[k])
    BY <2>1
  <2>3. f[k] = SubsetBlock(p, sub, bits[k] - 1 + first)
    BY <1>7
  <2> HIDE DEF f, set
  <2> QED
    BY <1>1, <1>4, <2>2, <2>3
<1>9. f \in [1..m -> Nat]
  <2>1. \A k \in 1..m : f[k] \in Nat
    <3> HIDE DEF f
    <3> QED
      BY <1>3, <1>8
  <2> QED
    BY <1>7, <2>1
<1>10. ASSUME NEW i \in 1..m, NEW j \in 1..m, i < j PROVE f[i] < f[j]
  <2> DEFINE x == bits[i]
             y == bits[j]
  <2> HIDE DEF f
  <2>1. x \in 1..n /\ y \in 1..n
    BY <1>8
  <2>2. x < y
    BY <1>7, <1>10
  <2>3. x - 1 + first \in Nat /\ y - 1 + first \in Nat /\ f[i] = SubsetBlock(p, sub, x - 1 + first)
        /\ f[j] = SubsetBlock(p, sub, y - 1 + first)
    BY <1>8
  <2> HIDE DEF x, y
  <2>4. x - 1 + first < y - 1 + first
    BY <1>1, <1>4, <2>1, <2>2
  <2> QED
    BY <1>3, <2>3, <2>4
<1>11. {f[k] : k \in 1..m} = granted
  <2>1. ASSUME NEW k \in 1..m PROVE f[k] \in granted
    <3> DEFINE i == bits[k]
    <3>1. i \in 1..n /\ BitAt(bmp, n, i) /\ f[k] = SubsetBlock(p, sub, i - 1 + first) /\ i - 1 + first \in Nat /\ i - 1 + first < M
      BY <1>8
    <3> HIDE DEF i, f
    <3>2. first + i \in 1..M /\ (first + i) - 1 = i - 1 + first
      BY <1>1, <1>4, <3>1
    <3>3. members[first + i] = f[k]
      <4>1. members[first + i] = SubsetBlock(p, sub, (first + i) - 1)
        BY <1>2, <3>2, Zenon
      <4> QED
        BY <3>1, <3>2, <4>1, Zenon
    <3>4. f[k] \in Nat /\ f[k] < rbs
      BY <1>1, <1>3, <3>1
    <3>5. f[k] \in 0..(rbs - 1)
      BY <1>1, <3>4
    <3> QED
      BY <1>2, <3>1, <3>2, <3>3, <3>5
  <2>2. ASSUME NEW b \in granted PROVE \E k \in 1..m : f[k] = b
    <3>1. PICK i \in 1..n : BitAt(bmp, n, i) /\ first + i \in DOMAIN members /\ members[first + i] = b
      OBVIOUS
    <3>2. PICK k \in 1..m : bits[k] = i
      <4>1. i \in set
        BY <3>1
      <4> QED
        BY <1>7, <4>1
    <3> HIDE DEF f, granted
    <3>3. (first + i) - 1 = i - 1 + first
      BY <1>1, <1>4
    <3>4. members[first + i] = SubsetBlock(p, sub, (first + i) - 1)
      <4>1. first + i \in 1..M
        BY <1>2, <3>1
      <4> QED
        BY <1>2, <4>1, Zenon
    <3>5. f[k] = SubsetBlock(p, sub, i - 1 + first)
      BY <1>8, <3>2
    <3>6. f[k] = b
      BY <3>1, <3>3, <3>4, <3>5
    <3> QED
      BY <3>6
  <2> HIDE DEF f, granted
  <2> QED
    BY <2>1, <2>2
<1> HIDE DEF f
<1>12. ListsUp(f, granted)
  <2> HIDE DEF granted
  <2> QED
    BY <1>7, <1>9, <1>10, <1>11, FunctionListsUp
<1>13. ListsUp(Ascending(granted, rbs), granted)
  <2>1. granted \cap 0..(rbs - 1) = granted
    OBVIOUS
  <2> HIDE DEF granted
  <2> QED
    BY <1>1, <2>1, AscendingLists
<1>14. f = Ascending(granted, rbs)
  <2> HIDE DEF granted
  <2> QED
    BY <1>12, <1>13, OneListUp
<1>15. SubsetGranted(rbs, sub, shifted, bmp) = Ascending(granted, rbs)
  BY DEF SubsetGranted, granted, first, members, n
<1> QED
  BY <1>5, <1>14, <1>15 DEF n

\* The width of the bits below the subset of an assignment
BelowSubset(rbs) == Type0Ra(rbs) - IF rbs <= 26 THEN 1 ELSE 2

\* The powers that take an assignment apart.
LEMMA AssignmentPowers ==
  ASSUME NEW rbs \in Bandwidths \ {6}
  PROVE  /\ 2^BelowSubset(rbs) \in Nat \ {0} /\ 2^SubsetBits(rbs) \in Nat \ {0}
<1> DEFINE high == 2^BelowSubset(rbs)
           low  == 2^SubsetBits(rbs)
<1>1. rbs \in {15, 25, 50, 75, 100}
  BY DEF Bandwidths
<1>2. high \in Nat \ {0} /\ low \in Nat \ {0}
  <2>1. CASE rbs = 15
    <3>1. high = 2^7 /\ low = 2^6
      BY <2>1 DEF BelowSubset, SubsetBits, Type0Ra
    <3>2. 2^7 = 128 /\ 2^6 = 64
      BY SMT
    <3> HIDE DEF high, low
    <3> QED
      BY <3>1, <3>2, SMT
  <2>2. CASE rbs = 25
    <3>1. high = 2^12 /\ low = 2^11
      BY <2>2 DEF BelowSubset, SubsetBits, Type0Ra
    <3>2. 2^12 = 4096 /\ 2^11 = 2048
      BY SMT
    <3> HIDE DEF high, low
    <3> QED
      BY <3>1, <3>2, SMT
  <2>3. CASE rbs = 50
    <3>1. high = 2^15 /\ low = 2^14
      BY <2>3 DEF BelowSubset, SubsetBits, Type0Ra
    <3>2. 2^15 = 32768 /\ 2^14 = 16384
      BY SMT
    <3> HIDE DEF high, low
    <3> QED
      BY <3>1, <3>2, SMT
  <2>4. CASE rbs = 75
    <3>1. high = 2^17 /\ low = 2^16
      BY <2>4 DEF BelowSubset, SubsetBits, Type0Ra
    <3>2. 2^17 = 131072 /\ 2^16 = 65536
      BY SMT
    <3> HIDE DEF high, low
    <3> QED
      BY <3>1, <3>2, SMT
  <2>5. CASE rbs = 100
    <3>1. high = 2^23 /\ low = 2^22
      BY <2>5 DEF BelowSubset, SubsetBits, Type0Ra
    <3>2. 2^23 = 8388608 /\ 2^22 = 4194304
      BY SMT
    <3> HIDE DEF high, low
    <3> QED
      BY <3>1, <3>2, SMT
  <2> QED
    BY <1>1, <2>1, <2>2, <2>3, <2>4, <2>5
<1> QED
  BY <1>2

\* A subset, the way its bits are counted, and its bitmap come apart.
LEMMA SubsetComesApart ==
  ASSUME NEW rbs \in Bandwidths \ {6}, NEW dci, dci.rbs = rbs, NEW ra \in Nat, GetVal(dci, "blk_assign") = ra,
         ra \div 2^BelowSubset(rbs) < TypeZeroP(rbs)
  PROVE  /\ Type1Sub(dci).p = ra \div 2^BelowSubset(rbs)
         /\ Type1Sub(dci).shift = (ra \div 2^SubsetBits(rbs)) % 2
         /\ Type1Sub(dci).bmp = ra % 2^SubsetBits(rbs)
         /\ ra \div 2^BelowSubset(rbs) \in 0..(TypeZeroP(rbs) - 1)
         /\ (ra \div 2^SubsetBits(rbs)) % 2 \in {0, 1}
<1> DEFINE high == 2^BelowSubset(rbs)
           low  == 2^SubsetBits(rbs)
           sub  == ra \div high
           size == Type0Ra(rbs)
           bmp  == CASE rbs = 15 -> 6 [] rbs = 25 -> 11 [] rbs = 50 -> 14 [] rbs = 75 -> 16 [] rbs = 100 -> 22
<1>1. high \in Nat \ {0} /\ low \in Nat \ {0}
  BY AssignmentPowers
<1>2. rbs \in {15, 25, 50, 75, 100} /\ rbs \in Nat
  BY DEF Bandwidths
<1>3. sub \in Nat /\ (ra \div low) % 2 \in {0, 1}
  <2> HIDE DEF high, low
  <2>1. sub \in Nat /\ ra \div low \in Nat
    BY <1>1, Division
  <2> DEFINE q == ra \div low
  <2>2. q \in Nat
    BY <2>1
  <2> HIDE DEF q
  <2>3. q % 2 \in {0, 1}
    BY <2>2
  <2> QED
    BY <2>1, <2>3 DEF q
<1>4. bmp = SubsetBits(rbs)
  BY <1>2 DEF SubsetBits, Type0Ra
<1>5. TypeZeroP(rbs) = IF rbs <= 26 THEN 2 ELSE IF rbs = 50 THEN 3 ELSE 4
  BY <1>2 DEF TypeZeroP
<1>6. sub % (IF rbs <= 26 THEN 2 ELSE 4) = sub
  <2>1. sub < TypeZeroP(rbs)
    OBVIOUS
  <2> HIDE DEF sub
  <2> QED
    BY <1>3, <1>5, <2>1
<1>7. CASE rbs <= 26
  <2>1. BelowSubset(rbs) = size - 1 /\ SubsetBits(rbs) = size - 2
    BY <1>7 DEF BelowSubset, SubsetBits
  <2>2. Type1Sub(dci) = [p |-> (ra \div 2^(size - 1)) % 2, shift |-> (ra \div 2^(size - 2)) % 2, bmp |-> ra % 2^bmp]
    BY <1>7 DEF Type1Sub
  <2>3. Type1Sub(dci) = [p |-> sub % 2, shift |-> (ra \div low) % 2, bmp |-> ra % low]
    BY <1>4, <2>1, <2>2, Zenon
  <2>4. sub % 2 = sub /\ sub \in 0..(TypeZeroP(rbs) - 1)
    <3>1. sub < TypeZeroP(rbs)
      OBVIOUS
    <3> HIDE DEF sub
    <3> QED
      BY <1>3, <1>5, <1>6, <1>7, <3>1
  <2> HIDE DEF sub, low, bmp, size
  <2>5. Type1Sub(dci).p = sub /\ Type1Sub(dci).shift = (ra \div low) % 2 /\ Type1Sub(dci).bmp = ra % low
    BY <2>3, <2>4
  <2> QED
    BY <1>3, <2>4, <2>5 DEF sub, low
<1>8. CASE ~(rbs <= 26)
  <2>1. BelowSubset(rbs) = size - 2 /\ SubsetBits(rbs) = size - 3
    BY <1>8 DEF BelowSubset, SubsetBits
  <2>2. Type1Sub(dci) = [p |-> (ra \div 2^(size - 2)) % 4, shift |-> (ra \div 2^(size - 3)) % 2, bmp |-> ra % 2^bmp]
    BY <1>8 DEF Type1Sub
  <2>3. Type1Sub(dci) = [p |-> sub % 4, shift |-> (ra \div low) % 2, bmp |-> ra % low]
    BY <1>4, <2>1, <2>2, Zenon
  <2>4. sub % 4 = sub /\ sub \in 0..(TypeZeroP(rbs) - 1)
    <3>1. sub < TypeZeroP(rbs)
      OBVIOUS
    <3> HIDE DEF sub
    <3> QED
      BY <1>3, <1>5, <1>6, <1>8, <3>1
  <2> HIDE DEF sub, low, bmp, size
  <2>5. Type1Sub(dci).p = sub /\ Type1Sub(dci).shift = (ra \div low) % 2 /\ Type1Sub(dci).bmp = ra % low
    BY <2>3, <2>4
  <2> QED
    BY <1>3, <2>4, <2>5 DEF sub, low
<1> QED
  BY <1>7, <1>8

-----------------------------------------------------------------------------
(* Scrambling sequences are those of 36.211, 7.2.                          *)

GoldRegisters == SUBSET (0..30)

\* One shift of a register: its bits move down, and the highest is fed back.
LEMMA ShiftIs ==
  ASSUME NEW reg \in GoldRegisters, NEW taps
  PROVE  /\ GoldShift(reg, taps) \in GoldRegisters
         /\ \A i \in 0..29 : i \in GoldShift(reg, taps) <=> i + 1 \in reg
         /\ 30 \in GoldShift(reg, taps) <=> Cardinality(reg \cap taps) % 2 = 1
<1> DEFINE back == Cardinality(reg \cap taps) % 2 = 1
           down == {i - 1 : i \in reg \ {0}}
<1>1. GoldShift(reg, taps) = down \cup (IF back THEN {30} ELSE {})
  BY DEF GoldShift
<1>2. \A i \in 0..30 : i \in down <=> i + 1 \in reg
  <2> SUFFICES ASSUME NEW i \in 0..30 PROVE i \in down <=> i + 1 \in reg
    OBVIOUS
  <2>1. i \in down => i + 1 \in reg
    BY DEF GoldRegisters
  <2>2. i + 1 \in reg => i + 1 \in reg \ {0} /\ i = (i + 1) - 1
    OBVIOUS
  <2> QED
    BY <2>1, <2>2
<1>3. down \subseteq 0..30 /\ 31 \notin reg
  BY DEF GoldRegisters
<1> HIDE DEF down, back
<1>4. 30 \notin down
  BY <1>2, <1>3
<1>5. \A i \in 0..29 : i \in 0..30 /\ i # 30
  OBVIOUS
<1> QED
  BY <1>1, <1>2, <1>3, <1>4, <1>5 DEF GoldRegisters, back

\* One element more
LEMMA TapAdded ==
  ASSUME NEW reg, NEW set, IsFiniteSet(set), NEW tap, tap \notin set
  PROVE  Cardinality(reg \cap (set \cup {tap})) = Cardinality(reg \cap set) + (IF tap \in reg THEN 1 ELSE 0)
<1>1. IsFiniteSet(reg \cap set) /\ Cardinality(reg \cap set) \in Nat
  BY FS_Intersection, FS_CardinalityType
<1>2. CASE tap \in reg
  <2>1. reg \cap (set \cup {tap}) = (reg \cap set) \cup {tap} /\ tap \notin reg \cap set
    BY <1>2
  <2>2. Cardinality((reg \cap set) \cup {tap}) = Cardinality(reg \cap set) + 1
    BY <1>1, <2>1, FS_AddElement
  <2> QED
    BY <1>2, <2>1, <2>2
<1>3. CASE tap \notin reg
  <2>1. reg \cap (set \cup {tap}) = reg \cap set
    BY <1>3
  <2>2. Cardinality(reg \cap (set \cup {tap})) = Cardinality(reg \cap set)
    BY <2>1, Zenon
  <2> HIDE <2>1
  <2>3. (IF tap \in reg THEN 1 ELSE 0) = 0
    BY <1>3
  <2> QED
    BY <1>1, <2>2, <2>3
<1> QED
  BY <1>2, <1>3

Holds(reg, i) == IF i \in reg THEN 1 ELSE 0

\* The taps of a register that are one are counted.
LEMMA TapsAre ==
  ASSUME NEW reg
  PROVE  /\ Cardinality(reg \cap Taps0) = Holds(reg, 0) + Holds(reg, 3)
         /\ Cardinality(reg \cap Taps1) = Holds(reg, 0) + Holds(reg, 1) + Holds(reg, 2) + Holds(reg, 3)
<1>0. Cardinality(reg \cap {}) = 0 /\ IsFiniteSet({})
  <2>1. reg \cap {} = {}
    OBVIOUS
  <2> QED
    BY <2>1, FS_EmptySet
<1>1. IsFiniteSet({0}) /\ IsFiniteSet({0, 1}) /\ IsFiniteSet({0, 1, 2})
  <2>1. {0} = {} \cup {0} /\ {0, 1} = {0} \cup {1} /\ {0, 1, 2} = {0, 1} \cup {2}
    OBVIOUS
  <2>2. IsFiniteSet({0})
    BY <1>0, <2>1, FS_AddElement
  <2>3. IsFiniteSet({0, 1})
    BY <2>1, <2>2, FS_AddElement
  <2> QED
    BY <2>1, <2>2, <2>3, FS_AddElement
<1>2. Cardinality(reg \cap {0}) = Holds(reg, 0)
  <2>1. Cardinality(reg \cap ({} \cup {0})) = Cardinality(reg \cap {}) + Holds(reg, 0)
    <3> DEFINE none == reg \ reg
    <3>0. none = {}
      OBVIOUS
    <3>1. IsFiniteSet(none) /\ 0 \notin none
      BY <1>0, <3>0
    <3> HIDE DEF none
    <3>2. Cardinality(reg \cap (none \cup {0})) = Cardinality(reg \cap none) + Holds(reg, 0)
      BY <3>1, TapAdded, Zenon DEF Holds
    <3> QED
      BY <3>0, <3>2, Zenon
  <2>2. {} \cup {0} = {0} /\ Holds(reg, 0) \in Int
    BY DEF Holds
  <2> QED
    BY <1>0, <2>1, <2>2
<1>3. Cardinality(reg \cap {0, 1}) = Holds(reg, 0) + Holds(reg, 1)
  <2>1. {0} \cup {1} = {0, 1} /\ 1 \notin {0}
    OBVIOUS
  <2>2. Cardinality(reg \cap ({0} \cup {1})) = Cardinality(reg \cap {0}) + Holds(reg, 1)
    BY <1>1, <2>1, TapAdded, Zenon DEF Holds
  <2> QED
    BY <1>2, <2>1, <2>2
<1>4. Cardinality(reg \cap {0, 1, 2}) = Holds(reg, 0) + Holds(reg, 1) + Holds(reg, 2)
  <2>1. {0, 1} \cup {2} = {0, 1, 2} /\ 2 \notin {0, 1}
    OBVIOUS
  <2>2. Cardinality(reg \cap ({0, 1} \cup {2})) = Cardinality(reg \cap {0, 1}) + Holds(reg, 2)
    BY <1>1, <2>1, TapAdded, Zenon DEF Holds
  <2> QED
    BY <1>3, <2>1, <2>2
<1>5. Cardinality(reg \cap Taps1) = Holds(reg, 0) + Holds(reg, 1) + Holds(reg, 2) + Holds(reg, 3)
  <2>1. {0, 1, 2} \cup {3} = Taps1 /\ 3 \notin {0, 1, 2}
    BY DEF Taps1
  <2>2. Cardinality(reg \cap ({0, 1, 2} \cup {3})) = Cardinality(reg \cap {0, 1, 2}) + Holds(reg, 3)
    BY <1>1, <2>1, TapAdded, Zenon DEF Holds
  <2> QED
    BY <1>4, <2>1, <2>2
<1>6. Cardinality(reg \cap Taps0) = Holds(reg, 0) + Holds(reg, 3)
  <2>1. {0} \cup {3} = Taps0 /\ 3 \notin {0}
    BY DEF Taps0
  <2>2. Cardinality(reg \cap ({0} \cup {3})) = Cardinality(reg \cap {0}) + Holds(reg, 3)
    BY <1>1, <2>1, TapAdded, Zenon DEF Holds
  <2> QED
    BY <1>2, <2>1, <2>2
<1> QED
  BY <1>5, <1>6

\* The registers a sequence goes through
Walks(X, taps, n) == X \in [0..n -> GoldRegisters] /\ \A t \in 1..n : X[t] = GoldShift(X[t - 1], taps)

HasWalk(taps, first, n) == \E X : Walks(X, taps, n) /\ X[0] = first

\* There are such registers.
LEMMA WalkExists ==
  ASSUME NEW taps, NEW first \in GoldRegisters, NEW n \in Nat
  PROVE  HasWalk(taps, first, n)
<1> DEFINE RegTurned == [p \in Nat \X GoldRegisters |-> GoldShift(p[2], taps)]
<1>1. RegTurned \in [Nat \X GoldRegisters -> GoldRegisters]
  BY ShiftIs
<1>2. \A i \in Nat, reg \in GoldRegisters : RegTurned[<<i, reg>>] = GoldShift(reg, taps)
  OBVIOUS
<1> HIDE DEF RegTurned
<1>3. PICK X \in [0..n -> GoldRegisters] : Iterates(X, n, first, RegTurned)
  BY <1>1, Iteration
<1>4. ASSUME NEW t \in 1..n PROVE X[t] = GoldShift(X[t - 1], taps)
  <2>1. t \in Nat /\ t - 1 \in 0..n
    OBVIOUS
  <2>2. X[t - 1] \in GoldRegisters
    BY <2>1
  <2>3. X[t] = RegTurned[<<t, X[t - 1]>>]
    BY <1>3 DEF Iterates
  <2> QED
    BY <1>2, <2>1, <2>2, <2>3
<1>5. X[0] = first
  BY <1>3 DEF Iterates
<1> QED
  BY <1>4, <1>5 DEF Walks, HasWalk

\* Places of a register pass its lowest one, one after the other.
LEMMA WalkPasses ==
  ASSUME NEW X, NEW taps, NEW n \in Nat, Walks(X, taps, n), NEW t \in 0..n
  PROVE  \A i \in 0..30 : t + i <= n => (i \in X[t] <=> 0 \in X[t + i])
<1>1. X \in [0..n -> GoldRegisters] /\ \A u \in 1..n : X[u] = GoldShift(X[u - 1], taps)
  BY DEF Walks
<1> DEFINE Passed(i) == \A u \in 0..n : u + i <= n => (i \in X[u] <=> 0 \in X[u + i])
           G == {i \in 0..30 : Passed(i)}
<1>2. 0 \in G
  <2>1. \A u \in 0..n : u + 0 = u
    OBVIOUS
  <2> QED
    BY <2>1
<1>3. ASSUME NEW i \in 1..30, i - 1 \in G PROVE i \in G
  <2>1. ASSUME NEW u \in 0..n, u + i <= n PROVE i \in X[u] <=> 0 \in X[u + i]
    <3>1. u + 1 \in 1..n /\ u + 1 \in 0..n /\ (u + 1) + (i - 1) <= n /\ (u + 1) + (i - 1) = u + i /\ (u + 1) - 1 = u
      BY <2>1
    <3>2. X[u + 1] = GoldShift(X[u], taps) /\ X[u] \in GoldRegisters
      BY <1>1, <3>1
    <3>3. i - 1 \in 0..29 /\ (i - 1) + 1 = i
      OBVIOUS
    <3>4. \A k \in 0..29 : k \in X[u + 1] <=> k + 1 \in X[u]
      <4> DEFINE r == X[u]
      <4>1. r \in GoldRegisters /\ X[u + 1] = GoldShift(r, taps)
        BY <3>2
      <4> HIDE DEF r
      <4>2. \A k \in 0..29 : k \in GoldShift(r, taps) <=> k + 1 \in r
        BY <4>1, ShiftIs
      <4> QED
        BY <4>1, <4>2, Zenon DEF r
    <3>6. i - 1 \in X[u + 1] <=> i \in X[u]
      BY <3>3, <3>4
    <3>5. i - 1 \in X[u + 1] <=> 0 \in X[u + i]
      BY <1>3, <3>1
    <3> QED
      BY <3>5, <3>6
  <2> QED
    BY <2>1
<1>4. 0..30 \subseteq G
  <2> HIDE DEF G
  <2> QED
    BY <1>2, <1>3, ClimbTo
<1> QED
  BY <1>4

Mixed(X, Y, t) == IF (0 \in X[t]) = (0 \in Y[t]) THEN 0 ELSE 1
Stretch(X, Y, a, n) == [j \in 1..n |-> Mixed(X, Y, a + j - 1)]

\* Registers that have been moved by n places from place a, with the bits of s
\* and those of the way
RegsAt(X, Y, a, n, s) == [x |-> X[a + n], y |-> Y[a + n], out |-> s \o Stretch(X, Y, a, n)]

\* Three sequences are joined in either order.
LEMMA JoinIsAssociative ==
  ASSUME NEW s \in Seq(Int), NEW u \in Seq(Int), NEW v \in Seq(Int)
  PROVE  (s \o u) \o v = s \o (u \o v)
  OBVIOUS

\* Two stretches are one.
Follows(s, a, m, n) == s \in Seq(Int) /\ a \in Nat /\ m \in Nat /\ n \in Nat

Joined(X, Y, s, a, m, n) ==
    /\ s \o Stretch(X, Y, a, m) \in Seq(Int)
    /\ (s \o Stretch(X, Y, a, m)) \o Stretch(X, Y, a + m, n) = s \o Stretch(X, Y, a, m + n)

LEMMA StretchJoins ==
  ASSUME NEW X, NEW Y, NEW a, NEW m, NEW n, NEW s, Follows(s, a, m, n)
  PROVE  Joined(X, Y, s, a, m, n)
<1>0. s \in Seq(Int) /\ a \in Nat /\ m \in Nat /\ n \in Nat
  BY DEF Follows
<1>1. \A b, k \in Nat : Stretch(X, Y, b, k) \in Seq(Int) /\ Len(Stretch(X, Y, b, k)) = k
  BY DEF Stretch, Mixed
<1> DEFINE u == Stretch(X, Y, a, m)
           v == Stretch(X, Y, a + m, n)
           w == Stretch(X, Y, a, m + n)
<1>2. a + m \in Nat /\ m + n \in Nat
  BY <1>0
<1>3. /\ u \in Seq(Int) /\ Len(u) = m /\ v \in Seq(Int) /\ Len(v) = n /\ w \in Seq(Int) /\ Len(w) = m + n
  BY <1>0, <1>1, <1>2
<1>4. ASSUME NEW j \in 1..(m + n) PROVE w[j] = IF j <= m THEN u[j] ELSE v[j - m]
  <2>1. w[j] = Mixed(X, Y, a + j - 1)
    BY <1>0 DEF Stretch
  <2>2. CASE j <= m
    <3>1. j \in 1..m
      BY <1>0, <2>2
    <3>2. u[j] = Mixed(X, Y, a + j - 1)
      BY <3>1 DEF Stretch
    <3> QED
      BY <2>1, <2>2, <3>2
  <2>3. CASE j > m
    <3>1. j - m \in 1..n /\ (a + m) + (j - m) - 1 = a + j - 1
      BY <1>0, <2>3
    <3>2. v[j - m] = Mixed(X, Y, (a + m) + (j - m) - 1)
      BY <3>1 DEF Stretch
    <3>3. v[j - m] = w[j]
      BY <2>1, <3>1, <3>2, Zenon
    <3> HIDE DEF v, w
    <3> QED
      BY <1>0, <2>3, <3>3
  <2> QED
    BY <1>0, <2>2, <2>3
<1> HIDE DEF u, v, w
<1>5. u \o v = w
  <2>1. /\ u \o v \in Seq(Int) /\ Len(u \o v) = m + n
        /\ \A j \in 1..(m + n) : (u \o v)[j] = IF j <= m THEN u[j] ELSE v[j - m]
    BY <1>0, <1>3, ConcatProperties
  <2>2. \A j \in 1..(m + n) : (u \o v)[j] = w[j]
    BY <1>0, <1>4, <2>1
  <2>3. u \o v \in Seq(Int) /\ w \in Seq(Int) /\ Len(u \o v) = Len(w) /\ \A j \in 1..Len(u \o v) : (u \o v)[j] = w[j]
    BY <1>0, <1>3, <2>1, <2>2
  <2> QED
    BY <2>3, SeqEqual
<1>6. (s \o u) \o v = s \o (u \o v)
  <2>1. u \in Seq(Int) /\ v \in Seq(Int)
    BY <1>3
  <2> QED
    BY <1>0, <2>1, JoinIsAssociative
<1>7. s \o u \in Seq(Int)
  BY <1>0, <1>3
<1> QED
  BY <1>0, <1>1, <1>5, <1>6, <1>7 DEF u, v, w, Joined

\* What becomes of registers in one turn of Moved
ShiftedRegs(old) ==
  [x |-> GoldShift(old.x, Taps0), y |-> GoldShift(old.y, Taps1),
   out |-> Append(old.out, IF (0 \in old.x) = (0 \in old.y) THEN 0 ELSE 1)]

WalksPast(X, Y, N, a, n) ==
    /\ N \in Nat /\ Walks(X, Taps0, N) /\ Walks(Y, Taps1, N)
    /\ a \in Nat /\ n \in Nat /\ a + n <= N

LEMMA MovedIs ==
  ASSUME NEW N, NEW X, NEW Y, NEW a, NEW n, NEW s \in Seq(Int), WalksPast(X, Y, N, a, n)
  PROVE  Moved([x |-> X[a], y |-> Y[a], out |-> s], n) = RegsAt(X, Y, a, n, s)
<1> DEFINE regs == [x |-> X[a], y |-> Y[a], out |-> s]
           Runs(g) == g = [i \in 0..n |-> IF i = 0 THEN regs ELSE ShiftedRegs(g[i - 1])]
           run == CHOOSE g : Runs(g)
           way == [i \in 0..n |-> RegsAt(X, Y, a, i, s)]
<1>0. N \in Nat /\ Walks(X, Taps0, N) /\ Walks(Y, Taps1, N) /\ a \in Nat /\ n \in Nat /\ a + n <= N
  BY DEF WalksPast
<1>1. Moved(regs, n) = run[n]
  BY Zenon DEF Moved, ShiftedRegs
<1>2. RegsAt(X, Y, a, 0, s) = regs
  <2>1. Stretch(X, Y, a, 0) = << >>
    BY DEF Stretch
  <2>2. s \o << >> = s /\ a + 0 = a
    BY <1>0
  <2> QED
    BY <2>1, <2>2, Zenon DEF RegsAt
<1>3. ASSUME NEW i \in 1..n PROVE RegsAt(X, Y, a, i, s) = ShiftedRegs(RegsAt(X, Y, a, i - 1, s))
  <2> DEFINE k == i - 1
             e == Mixed(X, Y, a + k)
             t == s \o Stretch(X, Y, a, k)
  <2>1. k \in Nat /\ a + k \in Nat /\ i = k + 1 /\ a + i \in 1..N /\ (a + i) - 1 = a + k /\ e \in Int
    BY <1>0 DEF Mixed
  <2>2. X[a + i] = GoldShift(X[a + k], Taps0) /\ Y[a + i] = GoldShift(Y[a + k], Taps1)
    BY <1>0, <2>1 DEF Walks
  <2> HIDE DEF k, e
  <2>3. Stretch(X, Y, a + k, 1) = <<e>>
    <3>1. (a + k) + 1 - 1 = a + k
      BY <2>1
    <3>2. Stretch(X, Y, a + k, 1) = [j \in 1..1 |-> Mixed(X, Y, (a + k) + j - 1)]
      BY DEF Stretch
    <3>3. \A j \in 1..1 : Mixed(X, Y, (a + k) + j - 1) = e
      <4>1. \A j \in 1..1 : (a + k) + j - 1 = a + k
        BY <2>1
      <4> QED
        BY <4>1, Zenon DEF e
    <3>4. Stretch(X, Y, a + k, 1) = [j \in 1..1 |-> e]
      BY <3>2, <3>3, Zenon
    <3> QED
      BY <3>4
  <2>4. t \in Seq(Int) /\ t \o Stretch(X, Y, a + k, 1) = s \o Stretch(X, Y, a, i)
    <3>1. PICK one \in Nat : one = 1
      OBVIOUS
    <3>3. Follows(s, a, k, one)
      BY <1>0, <2>1 DEF Follows
    <3>2. /\ s \o Stretch(X, Y, a, k) \in Seq(Int)
          /\ (s \o Stretch(X, Y, a, k)) \o Stretch(X, Y, a + k, one) = s \o Stretch(X, Y, a, k + one)
      <4>1. Joined(X, Y, s, a, k, one)
        BY <3>3, StretchJoins
      <4> QED
        BY <4>1, Zenon DEF Joined
    <3> QED
      BY <2>1, <3>1, <3>2, Zenon
  <2>5. Append(t, e) = s \o Stretch(X, Y, a, i)
    <3> HIDE DEF t
    <3>1. Append(t, e) = t \o <<e>>
      BY <2>1, <2>4, AppendIsConcat
    <3> QED
      BY <2>3, <2>4, <3>1, Zenon
  <2> DEFINE old == RegsAt(X, Y, a, k, s)
  <2>6. old.x = X[a + k] /\ old.y = Y[a + k] /\ old.out = t
    BY DEF RegsAt
  <2> HIDE DEF old, t
  <2>7. ShiftedRegs(old) = [x |-> X[a + i], y |-> Y[a + i], out |-> Append(t, e)]
    BY <2>2, <2>6, Zenon DEF ShiftedRegs, Mixed, e
  <2> QED
    BY <2>1, <2>5, <2>7, Zenon DEF RegsAt, k, old
<1>4. Runs(way)
  <2>1. ASSUME NEW i \in 0..n PROVE way[i] = IF i = 0 THEN regs ELSE ShiftedRegs(way[i - 1])
    <3>1. CASE i = 0
      BY <1>2, <3>1, Zenon
    <3>2. CASE i # 0
      <4>1. i \in 1..n /\ i - 1 \in 0..n
        BY <1>0, <3>2
      <4>2. way[i] = RegsAt(X, Y, a, i, s) /\ way[i - 1] = RegsAt(X, Y, a, i - 1, s)
        BY <4>1
      <4> HIDE DEF way
      <4> QED
        BY <1>3, <3>2, <4>1, <4>2, Zenon
    <3> QED
      BY <3>1, <3>2
  <2>2. way = [i \in 0..n |-> way[i]]
    OBVIOUS
  <2> HIDE DEF way, regs
  <2> QED
    BY <2>1, <2>2, Zenon
<1>5. Runs(run)
  <2> HIDE DEF Runs, way
  <2> QED
    BY <1>4, Zenon
<1> HIDE DEF run
<1> DEFINE G == {i \in 0..n : run[i] = RegsAt(X, Y, a, i, s)}
<1>6. \A i \in 0..n : run[i] = IF i = 0 THEN regs ELSE ShiftedRegs(run[i - 1])
  <2> HIDE DEF regs
  <2> QED
    BY <1>5, Zenon
<1>7. 0 \in G
  <2>1. 0 \in 0..n
    BY <1>0
  <2>2. run[0] = regs
    BY <1>6, <2>1, Zenon
  <2> HIDE DEF regs
  <2> QED
    BY <1>2, <2>1, <2>2, Zenon
<1>8. ASSUME NEW i \in 1..n, i - 1 \in G PROVE i \in G
  <2>1. i \in 0..n /\ i # 0
    BY <1>0
  <2>2. run[i] = ShiftedRegs(run[i - 1]) /\ run[i - 1] = RegsAt(X, Y, a, i - 1, s)
    BY <1>6, <1>8, <2>1, Zenon
  <2>3. run[i] = RegsAt(X, Y, a, i, s)
    BY <1>3, <2>2, Zenon
  <2> QED
    BY <2>1, <2>3, Zenon
<1>9. n \in G
  <2> HIDE DEF G
  <2>1. 0..n \subseteq G
    BY <1>0, <1>7, <1>8, ClimbTo
  <2> QED
    BY <1>0, <2>1
<1> QED
  BY <1>1, <1>9, Zenon

\* Pieces goes as far in pieces of 40.
LEMMA PiecesAre ==
  ASSUME NEW N, NEW X, NEW Y, NEW a, NEW n \in Nat, WalksPast(X, Y, N, a, 40 * n)
  PROVE  Pieces([x |-> X[a], y |-> Y[a], out |-> << >>], n) = RegsAt(X, Y, a, 40 * n, << >>)
<1> DEFINE regs == [x |-> X[a], y |-> Y[a], out |-> << >>]
           At(i) == RegsAt(X, Y, a, 40 * i, << >>)
           Far40(v) == CHOOSE m \in {Moved(old, Piece) : old \in {v}} : TRUE
           Runs(g) == g = [i \in 0..n |-> IF i = 0 THEN regs ELSE Far40(g[i - 1])]
           after == CHOOSE g : Runs(g)
           way == [i \in 0..n |-> At(i)]
<1>0. N \in Nat /\ Walks(X, Taps0, N) /\ Walks(Y, Taps1, N) /\ a \in Nat /\ a + 40 * n <= N
  BY DEF WalksPast
<1>1. Pieces(regs, n) = after[n]
  BY Zenon DEF Pieces
<1>2. \A v : Far40(v) = Moved(v, Piece)
  <2> TAKE v
  <2>1. {Moved(old, Piece) : old \in {v}} = {Moved(v, Piece)}
    OBVIOUS
  <2>2. Far40(v) \in {Moved(v, Piece)}
    BY <2>1
  <2> QED
    BY <2>2
<1> HIDE DEF Far40
<1>3. << >> \in Seq(Int)
  OBVIOUS
<1>4. At(0) = regs
  <2>1. 40 * 0 = 0 /\ a + 0 = a /\ Stretch(X, Y, a, 0) = << >> /\ << >> \o << >> = << >>
    BY <1>0 DEF Stretch
  <2> QED
    BY <2>1, Zenon DEF RegsAt
<1>5. ASSUME NEW i \in 1..n PROVE At(i) = Moved(At(i - 1), Piece)
  <2> DEFINE k == 40 * (i - 1)
             b == a + k
             s == << >> \o Stretch(X, Y, a, k)
  <2>1. k \in Nat /\ b \in Nat /\ k + 40 = 40 * i /\ a + (k + 40) <= N /\ b + 40 = a + (k + 40) /\ b + 40 <= N
    BY <1>0
  <2> HIDE DEF k
  <2>2. PICK len \in Nat : len = 40
    OBVIOUS
  <2> DEFINE none == << >>
  <2>8. none \in Seq(Int)
    OBVIOUS
  <2> HIDE DEF none
  <2>9. Follows(none, a, k, len)
    BY <1>0, <2>1, <2>2, <2>8 DEF Follows
  <2>10. /\ none \o Stretch(X, Y, a, k) \in Seq(Int)
         /\ (none \o Stretch(X, Y, a, k)) \o Stretch(X, Y, a + k, len) = none \o Stretch(X, Y, a, k + len)
    <3>1. Joined(X, Y, none, a, k, len)
      BY <2>9, StretchJoins
    <3> QED
      BY <3>1, Zenon DEF Joined
  <2>3. s \in Seq(Int) /\ s \o Stretch(X, Y, a + k, len) = << >> \o Stretch(X, Y, a, k + len)
    BY <2>10, Zenon DEF none
  <2>4. At(i - 1) = [x |-> X[b], y |-> Y[b], out |-> s]
    BY Zenon DEF RegsAt, k
  <2> HIDE DEF s, b
  <2>11. WalksPast(X, Y, N, b, len)
    BY <1>0, <2>1, <2>2 DEF WalksPast
  <2>5. Moved([x |-> X[b], y |-> Y[b], out |-> s], len) = RegsAt(X, Y, b, len, s)
    BY <2>3, <2>11, MovedIs, SMT
  <2>6. RegsAt(X, Y, b, len, s) = At(i)
    <3>1. b + len = a + 40 * i /\ k + len = 40 * i /\ b = a + k
      BY <2>1, <2>2 DEF b
    <3>2. s \o Stretch(X, Y, b, len) = << >> \o Stretch(X, Y, a, 40 * i)
      BY <2>3, <3>1, Zenon
    <3> QED
      BY <3>1, <3>2, Zenon DEF RegsAt
  <2>7. Piece = len
    BY <2>2 DEF Piece
  <2> QED
    BY <2>4, <2>5, <2>6, <2>7, Zenon
<1> HIDE DEF At, regs
<1>6. Runs(way)
  <2>1. ASSUME NEW i \in 0..n PROVE way[i] = IF i = 0 THEN regs ELSE Far40(way[i - 1])
    <3>1. CASE i = 0
      BY <1>4, <3>1, Zenon
    <3>2. CASE i # 0
      <4>1. i \in 1..n /\ i - 1 \in 0..n
        BY <3>2
      <4>2. way[i] = At(i) /\ way[i - 1] = At(i - 1)
        BY <4>1
      <4> HIDE DEF way
      <4> QED
        BY <1>2, <1>5, <3>2, <4>1, <4>2, Zenon
    <3> QED
      BY <3>1, <3>2
  <2>2. way = [i \in 0..n |-> way[i]]
    OBVIOUS
  <2> HIDE DEF way
  <2> QED
    BY <2>1, <2>2, Zenon
<1>7. Runs(after)
  <2> HIDE DEF Runs, way
  <2> QED
    BY <1>6, Zenon
<1> HIDE DEF after
<1> DEFINE G == {i \in 0..n : after[i] = At(i)}
<1>8. \A i \in 0..n : after[i] = IF i = 0 THEN regs ELSE Far40(after[i - 1])
  BY <1>7, Zenon
<1>9. 0 \in G
  <2>1. 0 \in 0..n
    OBVIOUS
  <2> QED
    BY <1>4, <1>8, <2>1, Zenon
<1>10. ASSUME NEW i \in 1..n, i - 1 \in G PROVE i \in G
  <2>1. i \in 0..n /\ i # 0
    OBVIOUS
  <2>2. after[i] = Moved(after[i - 1], Piece) /\ after[i - 1] = At(i - 1)
    BY <1>2, <1>8, <1>10, <2>1, Zenon
  <2>3. after[i] = At(i)
    BY <1>5, <2>2, Zenon
  <2> QED
    BY <2>1, <2>3, Zenon
<1>11. n \in G
  <2> HIDE DEF G
  <2>1. 0..n \subseteq G
    BY <1>9, <1>10, ClimbTo
  <2> QED
    BY <2>1
<1> QED
  BY <1>1, <1>11, Zenon DEF At, regs

\* What lte_gen_gold_seq gives are the lowest bits of both registers, mixed, from
\* place 1600 on.
Lead == 1600
GoldWay(X, Y, seed, n) ==
    /\ Walks(X, Taps0, n) /\ X[0] = {0}
    /\ Walks(Y, Taps1, n) /\ Y[0] = {b \in 0..30 : (seed \div 2^b) % 2 = 1}

GoldRead(init, len, n) == \E X, Y : GoldWay(X, Y, init, n) /\ GoldSeq(init, len) = Stretch(X, Y, Lead, len)
GoldFound(init, len, n) == n \in Nat /\ n >= Lead + len /\ GoldRead(init, len, n)

LEMMA GoldIs ==
  ASSUME NEW init \in Nat, NEW len \in Nat
  PROVE  \E n : GoldFound(init, len, n)
<1> DEFINE w == (len + 39) \div 40
           N == 1600 + 40 * w
           start == {0}
           second == {b \in 0..30 : (init \div 2^b) % 2 = 1}
           none == << >>
<1>1. w \in Nat /\ len <= 40 * w /\ N \in Nat /\ 1600 <= N /\ N >= Lead + len
  BY DEF Lead
<1>2. start \in GoldRegisters /\ second \in GoldRegisters
  BY DEF GoldRegisters
<1>3. GoldStart(init) = [x |-> start, y |-> second, out |-> none]
  BY Zenon DEF GoldStart
<1>4. (len + Piece - 1) \div Piece = w
  BY DEF Piece
<1>5. none \in Seq(Int)
  OBVIOUS
<1>6. GoldSeq(init, len) = SubSeq(Pieces(InitRegs(init), (len + Piece - 1) \div Piece).out, 1, len)
  BY Zenon DEF GoldSeq
<1> DEFINE d == 1600 \div Piece
<1>7. InitRegs(init) = [Pieces(GoldStart(init), d) EXCEPT !.out = none]
  BY Zenon DEF InitRegs
<1>8. Lead \in Nat /\ Lead = 1600
  BY DEF Lead
<1>9. PICK pieces \in Nat : pieces = 40
  OBVIOUS
<1>10. PICK zero \in Nat : zero = 0
  OBVIOUS
<1>11. d = pieces /\ zero + 40 * pieces = Lead /\ zero + 40 * pieces <= N /\ Lead + 40 * w = N
  BY <1>1, <1>8, <1>9, <1>10 DEF Piece
<1> HIDE DEF d, w, N, start, second, none
<1>12. PICK X : Walks(X, Taps0, N) /\ X[0] = start
  <2>1. HasWalk(Taps0, start, N)
    BY <1>1, <1>2, WalkExists
  <2> QED
    BY <2>1, Zenon DEF HasWalk
<1>13. PICK Y : Walks(Y, Taps1, N) /\ Y[0] = second
  <2>1. HasWalk(Taps1, second, N)
    BY <1>1, <1>2, WalkExists
  <2> QED
    BY <2>1, Zenon DEF HasWalk
<1>14. GoldStart(init) = [x |-> X[zero], y |-> Y[zero], out |-> none]
  BY <1>3, <1>10, <1>12, <1>13, Zenon
<1>15. Pieces(GoldStart(init), pieces) = RegsAt(X, Y, zero, 40 * pieces, none)
  <2>1. Pieces([x |-> X[zero], y |-> Y[zero], out |-> << >>], pieces) = RegsAt(X, Y, zero, 40 * pieces, << >>)
    <3>1. 40 * pieces \in Nat
      OBVIOUS
    <3>2. WalksPast(X, Y, N, zero, 40 * pieces)
      BY <1>1, <1>11, <1>12, <1>13, <3>1 DEF WalksPast
    <3> QED
      BY <3>2, PiecesAre, SMT
  <2> QED
    BY <1>14, <2>1, Zenon DEF none
<1>16. InitRegs(init) = [x |-> X[Lead], y |-> Y[Lead], out |-> none]
  <2> DEFINE way == 40 * pieces
             before == RegsAt(X, Y, zero, way, none)
             was == none \o Stretch(X, Y, zero, way)
  <2>2. before = [x |-> X[Lead], y |-> Y[Lead], out |-> was]
    <3>1. zero + way = Lead
      BY <1>11
    <3> HIDE DEF way
    <3> QED
      BY <3>1, Zenon DEF RegsAt
  <2>3. InitRegs(init) = [before EXCEPT !.out = none]
    BY <1>7, <1>11, <1>15, Zenon
  <2> HIDE DEF before, was
  <2> QED
    BY <2>2, <2>3
<1>17. Pieces(InitRegs(init), w) = RegsAt(X, Y, Lead, 40 * w, none)
  <2>1. Lead + 40 * w <= N
    BY <1>1, <1>11
  <2>2. Pieces([x |-> X[Lead], y |-> Y[Lead], out |-> << >>], w) = RegsAt(X, Y, Lead, 40 * w, << >>)
    <3>1. 40 * w \in Nat
      BY <1>1
    <3>2. WalksPast(X, Y, N, Lead, 40 * w)
      BY <1>1, <1>8, <1>12, <1>13, <2>1, <3>1 DEF WalksPast
    <3> QED
      BY <1>1, <3>2, PiecesAre, SMT
  <2> QED
    BY <1>16, <2>2, Zenon DEF none
<1> DEFINE whole == Stretch(X, Y, Lead, 40 * w)
           part  == SubSeq(none \o whole, 1, len)
           mixed == Stretch(X, Y, Lead, len)
<1>18. GoldSeq(init, len) = part
  <2>1. RegsAt(X, Y, Lead, 40 * w, none).out = none \o whole
    BY Zenon DEF RegsAt
  <2> HIDE DEF whole
  <2> QED
    BY <1>4, <1>6, <1>17, <2>1, Zenon
<1>19. part = mixed
  <2>1. whole \in Seq(Int) /\ Len(whole) = 40 * w /\ mixed \in Seq(Int) /\ Len(mixed) = len
    BY <1>1 DEF Stretch, Mixed
  <2>2. \A j \in 1..len : whole[j] = mixed[j]
    BY <1>1 DEF Stretch
  <2> HIDE DEF whole, mixed
  <2>3. none \o whole = whole
    BY <2>1 DEF none
  <2>4. part \in Seq(Int) /\ Len(part) = len /\ \A j \in 1..len : part[j] = whole[j]
    BY <1>1, <2>1, <2>3
  <2> HIDE DEF part
  <2> QED
    BY <2>1, <2>2, <2>4, SeqEqual
<1>20. GoldSeq(init, len) = Stretch(X, Y, Lead, len)
  <2> HIDE DEF part
  <2> QED
    BY <1>18, <1>19, Zenon
<1>21. GoldWay(X, Y, init, N)
  BY <1>12, <1>13, Zenon DEF GoldWay, start, second
<1>22. GoldFound(init, len, N)
  <2> HIDE DEF part, mixed, whole
  <2>1. GoldRead(init, len, N)
    BY <1>20, <1>21, Zenon DEF GoldRead
  <2> QED
    BY <1>1, <2>1 DEF GoldFound
<1> QED
  BY <1>22, Zenon

\* The two sequences whose sum a scrambling sequence is (36.211, 7.2), up to bit n
BitsTo(n) == [0..n -> 0..1]
FirstLine(x, n) ==
    /\ x \in BitsTo(n)
    /\ \A q \in 0..n : x[q] = IF q < 31 THEN (IF q = 0 THEN 1 ELSE 0) ELSE (x[q - 28] + x[q - 31]) % 2
SecondLine(y, seed, n) ==
    /\ y \in BitsTo(n)
    /\ \A q \in 0..n : y[q] = IF q < 31 THEN Bit(seed, q)
                              ELSE (y[q - 28] + y[q - 29] + y[q - 30] + y[q - 31]) % 2

LineOf(X, n) == [q \in 0..n |-> Holds(X[q], 0)]

\* The powers of two that are used
LEMMA PowersAre ==
  /\ 2^0 = 1 /\ \A k \in 0..31 : 2^k \in Nat \ {0}
  /\ \A k \in 1..31 : 2^k = 2 * 2^(k - 1)
<1>1. \A k \in 0..31 : \/ k \in {0, 1, 2, 3, 4, 5, 6, 7, 8, 9, 10, 11, 12, 13, 14, 15}
                       \/ k \in {16, 17, 18, 19, 20, 21, 22, 23, 24, 25, 26, 27, 28, 29, 30, 31}
  OBVIOUS
<1> QED
  BY <1>1

\* A bit of a register's line comes of those fed back when it was made.
FedBack(X, taps, q) ==
    /\ 0 \in X[q] <=> Cardinality(X[q - 31] \cap taps) % 2 = 1
    /\ \A i \in 0..30 : Holds(X[q - 31], i) = Holds(X[q - 31 + i], 0)

LEMMA LineIsFedBack ==
  ASSUME NEW X, NEW taps, NEW n \in Nat, Walks(X, taps, n), NEW q \in 31..n
  PROVE  FedBack(X, taps, q)
<1> DEFINE a == q - 31
           b == q - 30
<1>1. a \in 0..n /\ b \in 1..n /\ b \in 0..n /\ b - 1 = a /\ b + 30 = q /\ q <= n /\ 30 \in 0..30 /\ a = q - 31
      /\ \A i \in 0..30 : a + i <= n
  OBVIOUS
<1> HIDE DEF a, b
<1>2. \A i \in 0..30 : i \in X[a] <=> 0 \in X[a + i]
  <2>1. \A i \in 0..30 : a + i <= n => (i \in X[a] <=> 0 \in X[a + i])
    BY <1>1, WalkPasses
  <2> QED
    BY <1>1, <2>1
<1>3. 30 \in X[b] <=> 0 \in X[q]
  <2>1. \A i \in 0..30 : b + i <= n => (i \in X[b] <=> 0 \in X[b + i])
    BY <1>1, WalkPasses
  <2> QED
    BY <1>1, <2>1
<1>4. X[b] = GoldShift(X[a], taps) /\ X[a] \in GoldRegisters
  BY <1>1 DEF Walks
<1>5. 30 \in X[b] <=> Cardinality(X[a] \cap taps) % 2 = 1
  BY <1>4, ShiftIs
<1>6. \A i \in 0..30 : Holds(X[a], i) = Holds(X[a + i], 0)
  BY <1>2 DEF Holds
<1> QED
  BY <1>1, <1>3, <1>5, <1>6 DEF FedBack

\* Both registers give the sequences of the standard.
LEMMA LinesAre ==
  ASSUME NEW X, NEW Y, NEW seed \in Nat, NEW n \in Nat, GoldWay(X, Y, seed, n)
  PROVE  FirstLine(LineOf(X, n), n) /\ SecondLine(LineOf(Y, n), seed, n)
<1> DEFINE x == LineOf(X, n)
           y == LineOf(Y, n)
           second == {b \in 0..30 : Bit(seed, b) = 1}
<1>1. Walks(X, Taps0, n) /\ Walks(Y, Taps1, n) /\ X[0] = {0} /\ Y[0] = second
  BY Zenon DEF GoldWay, Bit
<1>2. x \in BitsTo(n) /\ y \in BitsTo(n)
  BY DEF LineOf, Holds, BitsTo
<1>3. \A q \in 0..n : x[q] = Holds(X[q], 0) /\ y[q] = Holds(Y[q], 0)
  BY DEF LineOf
<1>4. ASSUME NEW q \in 0..n, q < 31
      PROVE  x[q] = (IF q = 0 THEN 1 ELSE 0) /\ y[q] = Bit(seed, q)
  <2>1. 0 \in 0..n /\ q \in 0..30 /\ 0 + q <= n /\ 0 + q = q
    BY <1>4
  <2>2. q \in X[0] <=> 0 \in X[q]
    <3>1. \A i \in 0..30 : 0 + i <= n => (i \in X[0] <=> 0 \in X[0 + i])
      BY <1>1, <2>1, WalkPasses
    <3> QED
      BY <2>1, <3>1
  <2>3. q \in Y[0] <=> 0 \in Y[q]
    <3>1. \A i \in 0..30 : 0 + i <= n => (i \in Y[0] <=> 0 \in Y[0 + i])
      BY <1>1, <2>1, WalkPasses
    <3> QED
      BY <2>1, <3>1
  <2>4. q \in second <=> Bit(seed, q) = 1
    BY <2>1
  <2>5. Bit(seed, q) \in {0, 1}
    <3> DEFINE rest == seed \div 2^q
    <3>1. 2^q \in Nat \ {0}
      <4>1. q \in 0..31
        BY <2>1
      <4> QED
        BY <4>1, PowersAre, Zenon
    <3>2. rest \in Nat
      BY <3>1
    <3> HIDE DEF rest
    <3>3. rest % 2 \in {0, 1}
      BY <3>2
    <3> QED
      BY <3>3, Zenon DEF Bit, rest
  <2> HIDE DEF second, x, y
  <2>6. x[q] = IF q = 0 THEN 1 ELSE 0
    BY <1>1, <1>3, <2>2 DEF Holds
  <2>7. y[q] = Bit(seed, q)
    BY <1>1, <1>3, <2>3, <2>4, <2>5 DEF Holds
  <2> QED
    BY <2>6, <2>7
<1>5. ASSUME NEW q \in 0..n, q >= 31
      PROVE  /\ x[q] = (x[q - 28] + x[q - 31]) % 2
             /\ y[q] = (y[q - 28] + y[q - 29] + y[q - 30] + y[q - 31]) % 2
  <2>1. /\ q \in 31..n /\ q - 31 \in 0..n /\ q - 30 \in 0..n /\ q - 29 \in 0..n /\ q - 28 \in 0..n
        /\ q - 31 + 0 = q - 31 /\ q - 31 + 1 = q - 30 /\ q - 31 + 2 = q - 29 /\ q - 31 + 3 = q - 28
        /\ 0 \in 0..30 /\ 1 \in 0..30 /\ 2 \in 0..30 /\ 3 \in 0..30
    BY <1>5
  <2> DEFINE a == X[q - 31]
             b == Y[q - 31]
  <2>2. /\ 0 \in X[q] <=> Cardinality(a \cap Taps0) % 2 = 1
        /\ \A i \in 0..30 : Holds(a, i) = Holds(X[q - 31 + i], 0)
    <3>1. FedBack(X, Taps0, q)
      BY <1>1, <2>1, LineIsFedBack
    <3> QED
      BY <3>1, Zenon DEF FedBack
  <2>3. /\ 0 \in Y[q] <=> Cardinality(b \cap Taps1) % 2 = 1
        /\ \A i \in 0..30 : Holds(b, i) = Holds(Y[q - 31 + i], 0)
    <3>1. FedBack(Y, Taps1, q)
      BY <1>1, <2>1, LineIsFedBack
    <3> QED
      BY <3>1, Zenon DEF FedBack
  <2>4. /\ Cardinality(a \cap Taps0) = Holds(a, 0) + Holds(a, 3)
        /\ Cardinality(b \cap Taps1) = Holds(b, 0) + Holds(b, 1) + Holds(b, 2) + Holds(b, 3)
    BY TapsAre
  <2> HIDE DEF a, b, x, y
  <2>5. Holds(a, 0) = x[q - 31] /\ Holds(a, 3) = x[q - 28]
    BY <1>3, <2>1, <2>2
  <2>6. Holds(b, 0) = y[q - 31] /\ Holds(b, 1) = y[q - 30] /\ Holds(b, 2) = y[q - 29] /\ Holds(b, 3) = y[q - 28]
    BY <1>3, <2>1, <2>3
  <2>7. x[q - 28] \in 0..1 /\ x[q - 31] \in 0..1
    BY <1>2, <2>1 DEF BitsTo
  <2>8. y[q - 28] \in 0..1 /\ y[q - 29] \in 0..1 /\ y[q - 30] \in 0..1 /\ y[q - 31] \in 0..1
    BY <1>2, <2>1 DEF BitsTo
  <2>9. x[q] = (x[q - 28] + x[q - 31]) % 2
    <3>1. x[q] = IF (x[q - 28] + x[q - 31]) % 2 = 1 THEN 1 ELSE 0
      BY <1>3, <2>2, <2>4, <2>5, <2>7 DEF Holds
    <3> QED
      BY <2>7, <3>1
  <2>10. y[q] = (y[q - 28] + y[q - 29] + y[q - 30] + y[q - 31]) % 2
    <3> DEFINE sum == y[q - 28] + y[q - 29] + y[q - 30] + y[q - 31]
    <3>1. Cardinality(b \cap Taps1) = sum /\ sum \in Int
      BY <2>4, <2>6, <2>8
    <3> HIDE DEF sum
    <3>2. y[q] = IF sum % 2 = 1 THEN 1 ELSE 0
      BY <1>3, <2>3, <3>1 DEF Holds
    <3> QED
      BY <3>1, <3>2 DEF sum
  <2> QED
    BY <2>9, <2>10
<1> HIDE DEF x, y
<1>6. FirstLine(x, n)
  BY <1>2, <1>4, <1>5 DEF FirstLine
<1>7. SecondLine(y, seed, n)
  BY <1>2, <1>4, <1>5 DEF SecondLine
<1> QED
  BY <1>6, <1>7 DEF x, y

\* A scrambling sequence is the sum of both from bit 1600 on.
SequenceOf(x, y, len) == [j \in 1..len |-> (x[Lead + j - 1] + y[Lead + j - 1]) % 2]
Standard(init, len, x, y, n) ==
    /\ n \in Nat /\ n >= Lead + len
    /\ FirstLine(x, n) /\ SecondLine(y, init, n)
    /\ GoldSeq(init, len) = SequenceOf(x, y, len)

\* Whatever its seed and length, what lte_gen_gold_seq gives is the sum of both
\* sequences of the standard from bit 1600 on: the registers of gold_shift, run
\* in pieces, lose and repeat no bit (gold.c).
THEOREM GoldIsStandard ==
  ASSUME NEW init \in Nat, NEW len \in Nat
  PROVE  \E x, y, n : Standard(init, len, x, y, n)
<1>1. PICK n : GoldFound(init, len, n)
  BY GoldIs
<1>2. n \in Nat /\ n >= Lead + len /\ GoldRead(init, len, n)
  BY <1>1 DEF GoldFound
<1>3. PICK X, Y : GoldWay(X, Y, init, n) /\ GoldSeq(init, len) = Stretch(X, Y, Lead, len)
  BY <1>2, Zenon DEF GoldRead
<1> DEFINE x == LineOf(X, n)
           y == LineOf(Y, n)
<1>4. FirstLine(x, n) /\ SecondLine(y, init, n)
  BY <1>2, <1>3, LinesAre
<1>5. \A q \in 0..n : Mixed(X, Y, q) = (x[q] + y[q]) % 2
  BY DEF Mixed, LineOf, Holds
<1> HIDE DEF x, y
<1>6. \A j \in 1..len : Mixed(X, Y, Lead + j - 1) = (x[Lead + j - 1] + y[Lead + j - 1]) % 2
  <2>1. \A j \in 1..len : Lead + j - 1 \in 0..n
    BY <1>2 DEF Lead
  <2> QED
    BY <1>5, <2>1, Zenon
<1>7. Stretch(X, Y, Lead, len) = SequenceOf(x, y, len)
  BY <1>6, Zenon DEF Stretch, SequenceOf
<1>8. Standard(init, len, x, y, n)
  BY <1>2, <1>3, <1>4, <1>7 DEF Standard
<1> QED
  BY <1>8, Zenon

-----------------------------------------------------------------------------
(* Lists made of the lists of one turn after the other.                    *)

\* The list climbs by a key if that of every turn does, and if the keys of a
\* turn are below those of the next ones; it is as long as they are together.
Climbs(s, key) == \A i, j \in 1..Len(s) : i < j => key[s[i]] < key[s[j]]

\* The members of a list are those at its places.
LEMMA MembersOf ==
  ASSUME NEW E, NEW s \in Seq(E)
  PROVE  \A e : e \in ToSet(s) <=> \E i \in 1..Len(s) : e = s[i]
<1>1. DOMAIN s = 1..Len(s)
  OBVIOUS
<1> QED
  BY <1>1 DEF ToSet

\* Places beyond the first m of m + n
LEMMA PastTheFirst ==
  ASSUME NEW m \in Nat, NEW n \in Nat, NEW i \in 1..(m + n), NEW j \in 1..(m + n), i < j, i > m
  PROVE  j > m /\ i - m \in 1..n /\ j - m \in 1..n /\ i - m < j - m
<1> QED
  OBVIOUS

\* Two lists that go up, one above the other, make one that goes up.
LEMMA Concatenation ==
  ASSUME NEW E, NEW key \in [E -> Int], NEW a \in Seq(E), NEW b \in Seq(E), Climbs(a, key), Climbs(b, key),
         \A i \in 1..Len(a), j \in 1..Len(b) : key[a[i]] < key[b[j]]
  PROVE  a \o b \in Seq(E) /\ Len(a \o b) = Len(a) + Len(b) /\ ToSet(a \o b) = ToSet(a) \cup ToSet(b)
         /\ Climbs(a \o b, key)
<1> DEFINE c == a \o b
           m == Len(a)
           n == Len(b)
<1>1. /\ c \in Seq(E) /\ Len(c) = m + n /\ m \in Nat /\ n \in Nat
      /\ \A i \in 1..m : c[i] = a[i]
      /\ \A i \in 1..n : c[m + i] = b[i]
      /\ \A i \in 1..(m + n) : i > m => c[i] = b[i - m]
  OBVIOUS
<1>2. DOMAIN a = 1..m /\ DOMAIN b = 1..n /\ DOMAIN c = 1..(m + n)
  BY <1>1
<1>3. /\ \A i, j \in 1..m : i < j => key[a[i]] < key[a[j]]
      /\ \A i, j \in 1..n : i < j => key[b[i]] < key[b[j]]
      /\ \A i \in 1..m, j \in 1..n : key[a[i]] < key[b[j]]
  BY DEF Climbs
<1> HIDE DEF c, m, n
<1>4. ToSet(c) = ToSet(a) \cup ToSet(b)
  <2>1. ASSUME NEW i \in 1..(m + n) PROVE (\E j \in 1..m : c[i] = a[j]) \/ (\E j \in 1..n : c[i] = b[j])
    <3>1. CASE i \in 1..m
      BY <1>1, <3>1
    <3>2. CASE i > m
      <4>1. i - m \in 1..n
        BY <1>1, <3>2
      <4> QED
        BY <1>1, <3>2, <4>1
    <3> QED
      BY <1>1, <3>1, <3>2
  <2>2. \A i \in 1..m : \E j \in 1..(m + n) : c[j] = a[i]
    BY <1>1
  <2>3. ASSUME NEW i \in 1..n PROVE \E j \in 1..(m + n) : c[j] = b[i]
    <3>1. m + i \in 1..(m + n)
      BY <1>1
    <3> QED
      BY <1>1, <3>1
  <2>4. ASSUME NEW e PROVE e \in ToSet(c) <=> e \in ToSet(a) \/ e \in ToSet(b)
    <3>1. e \in ToSet(c) <=> \E i \in 1..(m + n) : e = c[i]
      <4>1. c \in Seq(E) /\ Len(c) = m + n
        BY <1>1
      <4>2. e \in ToSet(c) <=> \E i \in 1..Len(c) : e = c[i]
        BY <4>1, MembersOf
      <4> QED
        BY <4>1, <4>2
    <3>2. e \in ToSet(a) <=> \E i \in 1..m : e = a[i]
      BY MembersOf DEF m
    <3>3. e \in ToSet(b) <=> \E i \in 1..n : e = b[i]
      BY MembersOf DEF n
    <3> QED
      BY <2>1, <2>2, <2>3, <3>1, <3>2, <3>3
  <2> QED
    BY <2>4
<1>5. ASSUME NEW i \in 1..(m + n), NEW j \in 1..(m + n), i < j PROVE key[c[i]] < key[c[j]]
  <2>1. CASE j \in 1..m
    <3>1. i \in 1..m
      BY <1>1, <1>5, <2>1
    <3> QED
      BY <1>1, <1>3, <1>5, <2>1, <3>1
  <2>2. CASE i \in 1..m /\ j > m
    <3>1. j - m \in 1..n /\ j \in 1..(m + n) /\ j > m
      <4>1. j \in Int /\ j <= m + n /\ j > m
        BY <1>1, <2>2
      <4> QED
        BY <1>1, <4>1
    <3>2. c[j] = b[j - m]
      BY <1>1, <3>1
    <3>3. c[i] = a[i]
      BY <1>1, <2>2
    <3> QED
      BY <1>3, <2>2, <3>1, <3>2, <3>3
  <2>3. CASE i > m
    <3>1. j > m /\ i - m \in 1..n /\ j - m \in 1..n /\ i - m < j - m
      <4>1. m \in Nat /\ n \in Nat
        BY <1>1
      <4> QED
        BY <1>5, <2>3, <4>1, PastTheFirst, Zenon
    <3>2. c[i] = b[i - m] /\ c[j] = b[j - m]
      BY <1>1, <2>3, <3>1
    <3> QED
      BY <1>3, <3>1, <3>2
  <2> QED
    BY <1>1, <2>1, <2>2, <2>3
<1>6. Climbs(c, key)
  BY <1>1, <1>5 DEF Climbs
<1> QED
  BY <1>1, <1>4, <1>6 DEF c, m, n

TurnsClimb(T, n, key) ==
  /\ \A t \in 1..n : Climbs(T[t], key)
  /\ \A s, t \in 1..n : s < t => \A i \in 1..Len(T[s]), j \in 1..Len(T[t]) : key[T[s][i]] < key[T[t][j]]

TurnsFit(T, n, room, cap) ==
  /\ room \in [1..n -> Int] /\ cap \in [0..n -> Int] /\ cap[0] = 0
  /\ \A t \in 1..n : cap[t] = cap[t - 1] + room[t] /\ Len(T[t]) <= room[t]

TurnsJoined(s, T, n, E, key, room, cap) ==
  /\ s \in Seq(E) /\ Climbs(s, key)
  /\ ToSet(s) = UNION {ToSet(T[t]) : t \in 1..n}
  /\ Len(s) <= cap[n]
  /\ (\A t \in 1..n : Len(T[t]) = room[t]) => Len(s) = cap[n]

\* What all turns have joined goes up and has the members of every turn.
LEMMA JoinedTurns ==
  ASSUME NEW n \in Nat, NEW E, NEW T \in [1..n -> Seq(E)], NEW key \in [E -> Int],
         NEW out, Joins(out, T, n), NEW room, NEW cap, TurnsClimb(T, n, key), TurnsFit(T, n, room, cap)
  PROVE  TurnsJoined(out[n], T, n, E, key, room, cap)
<1> DEFINE Full == \A t \in 1..n : Len(T[t]) = room[t]
           Good(t) == /\ out[t] \in Seq(E) /\ Len(out[t]) <= cap[t]
                      /\ Full => Len(out[t]) = cap[t]
                      /\ \A e : e \in ToSet(out[t]) <=> \E s \in 1..t : e \in ToSet(T[s])
                      /\ Climbs(out[t], key)
           G == {t \in 0..n : Good(t)}
<1>0. /\ room \in [1..n -> Int] /\ cap \in [0..n -> Int] /\ cap[0] = 0
      /\ \A t \in 1..n : cap[t] = cap[t - 1] + room[t]
      /\ \A t \in 1..n : Climbs(T[t], key) /\ Len(T[t]) <= room[t]
      /\ \A s, t \in 1..n : s < t => \A i \in 1..Len(T[s]), j \in 1..Len(T[t]) : key[T[s][i]] < key[T[t][j]]
  BY DEF TurnsClimb, TurnsFit
<1> USE <1>0
<1>1. 0 \in G
  <2>1. out[0] = << >> /\ Len(<< >>) = 0 /\ << >> \in Seq(E) /\ 1..0 = {} /\ DOMAIN << >> = {}
    BY DEF Joins
  <2>2. Climbs(out[0], key)
    BY <2>1 DEF Climbs
  <2>3. \A e : e \notin ToSet(<< >>)
    BY <2>1 DEF ToSet
  <2>4. Good(0)
    BY <2>1, <2>2, <2>3
  <2> QED
    BY <2>4
<1>2. ASSUME NEW t \in 1..n, t - 1 \in G PROVE t \in G
  <2> DEFINE a == out[t - 1]
             b == T[t]
  <2>1. /\ a \in Seq(E) /\ Len(a) <= cap[t - 1]
        /\ Full => Len(a) = cap[t - 1]
        /\ \A e : e \in ToSet(a) <=> \E s \in 1..(t - 1) : e \in ToSet(T[s])
        /\ Climbs(a, key)
    BY <1>2
  <2>2. b \in Seq(E) /\ Climbs(b, key) /\ out[t] = a \o b
    BY DEF Joins
  <2>3. cap[t] = cap[t - 1] + room[t] /\ Len(b) <= room[t] /\ (Full => Len(b) = room[t])
    OBVIOUS
  <2>4. ASSUME NEW i \in 1..Len(a), NEW j \in 1..Len(b) PROVE key[a[i]] < key[b[j]]
    <3>1. a[i] \in ToSet(a)
      <4> HIDE DEF a
      <4> QED
        BY <2>1, MembersOf
    <3>2. PICK s \in 1..(t - 1) : a[i] \in ToSet(T[s])
      <4> HIDE DEF a
      <4> QED
        BY <2>1, <3>1
    <3>3. s \in 1..n /\ s < t
      OBVIOUS
    <3>4. T[s] \in Seq(E)
      BY <3>3
    <3>5. PICK k \in 1..Len(T[s]) : a[i] = T[s][k]
      <4> DEFINE b1 == T[s]
                 e == a[i]
      <4>1. b1 \in Seq(E) /\ e \in ToSet(b1)
        BY <3>2, <3>4
      <4> HIDE DEF b1, e
      <4>2. \E k \in 1..Len(b1) : e = b1[k]
        BY <4>1, MembersOf
      <4> QED
        BY <4>2 DEF b1, e
    <3> HIDE DEF a
    <3> QED
      BY <3>3, <3>5
  <2> HIDE DEF a
  <2>5. a \o b \in Seq(E) /\ Len(a \o b) = Len(a) + Len(b) /\ ToSet(a \o b) = ToSet(a) \cup ToSet(b) /\ Climbs(a \o b, key)
    <3> HIDE DEF b
    <3> QED
      BY <2>1, <2>2, <2>4, Concatenation
  <2>6. \A e : e \in ToSet(a \o b) <=> \E s \in 1..t : e \in ToSet(T[s])
    <3>1. 1..t = 1..(t - 1) \cup {t}
      <4>1. t \in Nat \ {0}
        OBVIOUS
      <4> QED
        BY <4>1, OneMore, Zenon
    <3> QED
      BY <2>1, <2>5, <3>1
  <2> HIDE DEF b, Full
  <2>7. Good(t)
    <3>0. /\ cap[t] \in Int /\ cap[t - 1] \in Int /\ room[t] \in Int
          /\ Len(a) \in Nat /\ Len(b) \in Nat
      <4>1. t \in 0..n /\ t - 1 \in 0..n
        OBVIOUS
      <4>2. Len(a) \in Nat
        BY <2>1
      <4>3. Len(b) \in Nat
        BY <2>2
      <4> QED
        BY <4>1, <4>2, <4>3
    <3>1. Len(out[t]) = Len(a) + Len(b)
      BY <2>2, <2>5
    <3>2. Len(a) <= cap[t - 1] /\ (Full => Len(a) = cap[t - 1])
      BY <2>1
    <3>3. Len(out[t]) <= cap[t] /\ (Full => Len(out[t]) = cap[t])
      <4>1. \A x, y, z, u, v, w \in Int : /\ u = v + w /\ y <= z /\ v <= x /\ w <= y => u <= x + z
        OBVIOUS
      <4>2. Len(out[t]) <= cap[t]
        BY <2>3, <3>0, <3>1, <3>2
      <4>3. ASSUME Full PROVE Len(out[t]) = cap[t]
        BY <2>3, <3>0, <3>1, <3>2, <4>3
      <4> QED
        BY <4>2, <4>3
    <3> QED
      BY <2>2, <2>5, <2>6, <3>3
  <2>8. t \in 0..n
    OBVIOUS
  <2> QED
    BY <2>7, <2>8
<1> HIDE DEF G
<1>3. 0..n \subseteq G
  BY <1>1, <1>2, ClimbTo
<1>4. n \in G
  BY <1>3
<1>5. Good(n)
  BY <1>4 DEF G
<1>6. ToSet(out[n]) = UNION {ToSet(T[t]) : t \in 1..n}
  BY <1>5
<1> QED
  BY <1>5, <1>6 DEF TurnsJoined

-----------------------------------------------------------------------------
(* The turn of a symbol and a block, when the blocks follow each other     *)
(* within a symbol.                                                        *)

\* The symbol and the block of a turn
LEMMA TurnParts ==
  ASSUME NEW m \in Nat \ {0}, NEW h \in Nat, NEW t \in 1..(h * m)
  PROVE  /\ (t - 1) \div m \in 0..(h - 1) /\ (t - 1) % m \in 0..(m - 1)
         /\ t - 1 = m * ((t - 1) \div m) + ((t - 1) % m)
<1> DEFINE q == (t - 1) \div m
           r == (t - 1) % m
<1>0. t - 1 \in Nat /\ t - 1 < h * m /\ h * m \in Nat
  OBVIOUS
<1>1. q \in Nat /\ r \in 0..(m - 1) /\ t - 1 = m * q + r
  BY <1>0, Division
<1> HIDE DEF q, r
<1>2. q < h
  <2> SUFFICES ASSUME q >= h PROVE FALSE
    BY <1>1
  <2> DEFINE d == q - h
  <2>1. d \in Nat /\ q = h + d
    BY <1>1
  <2> HIDE DEF d
  <2>2. m * q = h * m + m * d /\ m * d \in Nat
    BY <2>1
  <2> QED
    BY <1>0, <1>1, <2>2
<1> QED
  BY <1>1, <1>2 DEF q, r

\* The turn of a symbol and a block
LEMMA TurnAt ==
  ASSUME NEW m \in Nat \ {0}, NEW q \in Nat, NEW r \in 0..(m - 1)
  PROVE  /\ (m * q + r) \div m = q /\ (m * q + r) % m = r
         /\ \A h \in Nat : q < h => (m * q + r) + 1 \in 1..(h * m)
<1> DEFINE b == m * q + r
<1>1. m * q \in Nat /\ b \in Nat
  OBVIOUS
<1>2. m * q <= b /\ b < m * q + m /\ b - m * q = r
  BY <1>1
<1>3. b \div m = q /\ b % m = b - m * q
  <2> HIDE DEF b
  <2> QED
    BY <1>1, <1>2, QuotientIs
<1>4. ASSUME NEW h \in Nat, q < h PROVE b + 1 \in 1..(h * m)
  <2> DEFINE d == (h - q) - 1
  <2>1. d \in Nat /\ h = (q + d) + 1
    BY <1>4
  <2> HIDE DEF d
  <2>2. h * m = m * q + m * d + m /\ m * d \in Nat
    BY <2>1
  <2> QED
    BY <1>1, <1>2, <2>2
<1> QED
  BY <1>2, <1>3, <1>4


-----------------------------------------------------------------------------
(* The control region (module ControlRegion): which halves of blocks are    *)
(* marked, and which groups of four are read of the others.                *)

\* Four around the references of a half
LEMMA QuadIsAround ==
  ASSUME NEW cell \in CellIds, NEW half \in {0, 6}
  PROVE  \/ cell % 3 = 0 /\ QuadFrom(cell, half) = <<1, 2, 4, 5>>
         \/ cell % 3 = 1 /\ QuadFrom(cell, half) = <<0, 2, 3, 5>>
         \/ cell % 3 = 2 /\ QuadFrom(cell, half) = <<0, 1, 3, 4>>
<1>1. cell \in Nat /\ (0 + (cell % 6)) % 3 = cell % 3 /\ cell % 3 \in {0, 1, 2}
  BY DEF CellIds
<1> DEFINE b == cell % 3
<1>2. RefIndices(cell) = {b, b + 3, b + 6, b + 9}
  BY <1>1 DEF RefIndices, V
<1> HIDE DEF b
<1>3. b \in {0, 1, 2}
  BY <1>1 DEF b
<1>4. CASE b = 0
  <2>1. half \in RefIndices(cell) /\ half + 1 \notin RefIndices(cell) /\ half + 2 \notin RefIndices(cell)
    BY <1>2, <1>4
  <2>2. QuadFrom(cell, half) = <<1, 2, 4, 5>>
    BY <2>1, Zenon DEF QuadFrom
  <2> QED
    BY <1>4, <2>2 DEF b
<1>5. CASE b = 1
  <2>1. half \notin RefIndices(cell) /\ half + 1 \in RefIndices(cell) /\ half + 2 \notin RefIndices(cell)
    BY <1>2, <1>5
  <2>2. QuadFrom(cell, half) = <<0, 2, 3, 5>>
    BY <2>1, Zenon DEF QuadFrom
  <2> QED
    BY <1>5, <2>2 DEF b
<1>6. CASE b = 2
  <2>1. half \notin RefIndices(cell) /\ half + 1 \notin RefIndices(cell) /\ half + 2 \in RefIndices(cell)
    BY <1>2, <1>6
  <2>2. QuadFrom(cell, half) = <<0, 1, 3, 4>>
    BY <2>1, Zenon DEF QuadFrom
  <2> QED
    BY <1>6, <2>2 DEF b
<1> QED
  BY <1>3, <1>4, <1>5, <1>6

Windows == {<<0, 0>>, <<0, 6>>, <<6, 12>>, <<0, 12>>}
-----------------------------------------------------------------------------
(* Quadruplets in order.                                                   *)

\* Where each column is read
ColumnTurns == <<17, 1, 25, 9, 21, 5, 29, 13, 19, 3, 27, 11, 23, 7, 31, 15, 18, 2, 26, 10, 22, 6, 30, 14, 20, 4, 28, 12, 24, 8, 32, 16>>

\* Every column of the matrix is read once.
LEMMA ColumnsPermute ==
  /\ \A p \in 1..32 : ControlColumns[p] \in 0..31 /\ ColumnTurns[ControlColumns[p] + 1] = p
  /\ \A v \in 0..31 : ColumnTurns[v + 1] \in 1..32 /\ ControlColumns[ColumnTurns[v + 1]] = v
<1>1. ASSUME NEW p \in 1..32 PROVE ControlColumns[p] \in 0..31 /\ ColumnTurns[ControlColumns[p] + 1] = p
  <2>1. p \in 1..8 \/ p \in 9..16 \/ p \in 17..24 \/ p \in 25..32
    OBVIOUS
  <2>2. CASE p \in 1..8
    <3>1. p \in {1, 2, 3, 4, 5, 6, 7, 8}
      BY <2>2
    <3> QED
      BY <3>1 DEF ControlColumns, ColumnTurns
  <2>3. CASE p \in 9..16
    <3>1. p \in {9, 10, 11, 12, 13, 14, 15, 16}
      BY <2>3
    <3> QED
      BY <3>1 DEF ControlColumns, ColumnTurns
  <2>4. CASE p \in 17..24
    <3>1. p \in {17, 18, 19, 20, 21, 22, 23, 24}
      BY <2>4
    <3> QED
      BY <3>1 DEF ControlColumns, ColumnTurns
  <2>5. CASE p \in 25..32
    <3>1. p \in {25, 26, 27, 28, 29, 30, 31, 32}
      BY <2>5
    <3> QED
      BY <3>1 DEF ControlColumns, ColumnTurns
  <2> QED
    BY <2>1, <2>2, <2>3, <2>4, <2>5
<1>2. ASSUME NEW v \in 0..31 PROVE ColumnTurns[v + 1] \in 1..32 /\ ControlColumns[ColumnTurns[v + 1]] = v
  <2>1. v \in 0..7 \/ v \in 8..15 \/ v \in 16..23 \/ v \in 24..31
    OBVIOUS
  <2>2. CASE v \in 0..7
    <3>1. v \in {0, 1, 2, 3, 4, 5, 6, 7}
      BY <2>2
    <3> QED
      BY <3>1 DEF ControlColumns, ColumnTurns
  <2>3. CASE v \in 8..15
    <3>1. v \in {8, 9, 10, 11, 12, 13, 14, 15}
      BY <2>3
    <3> QED
      BY <3>1 DEF ControlColumns, ColumnTurns
  <2>4. CASE v \in 16..23
    <3>1. v \in {16, 17, 18, 19, 20, 21, 22, 23}
      BY <2>4
    <3> QED
      BY <3>1 DEF ControlColumns, ColumnTurns
  <2>5. CASE v \in 24..31
    <3>1. v \in {24, 25, 26, 27, 28, 29, 30, 31}
      BY <2>5
    <3> QED
      BY <3>1 DEF ControlColumns, ColumnTurns
  <2> QED
    BY <2>1, <2>2, <2>3, <2>4, <2>5
<1> QED
  BY <1>1, <1>2

\* Reading by columns from entries of rows * 32 places, and the place of an entry
ReadAt(rows, shift, i) == 32 * (i % rows) + ControlColumns[(i \div rows) + 1] - shift
PlaceOf(rows, shift, v) == rows * (ColumnTurns[((v + shift) % 32) + 1] - 1) + ((v + shift) \div 32)

\* Reading the matrix permutes its places.
LEMMA ReadingPermutes ==
  ASSUME NEW rows \in Nat \ {0}, NEW shift \in Nat
  PROVE  /\ \A i \in 0..(32 * rows - 1) :
              /\ ReadAt(rows, shift, i) \in Int /\ ReadAt(rows, shift, i) + shift \in 0..(32 * rows - 1)
              /\ PlaceOf(rows, shift, ReadAt(rows, shift, i)) = i
         /\ \A v \in (0 - shift)..(32 * rows - shift - 1) :
              /\ PlaceOf(rows, shift, v) \in 0..(32 * rows - 1) /\ ReadAt(rows, shift, PlaceOf(rows, shift, v)) = v
<1>1. ASSUME NEW i \in 0..(32 * rows - 1)
      PROVE  /\ ReadAt(rows, shift, i) \in Int /\ ReadAt(rows, shift, i) + shift \in 0..(32 * rows - 1)
             /\ PlaceOf(rows, shift, ReadAt(rows, shift, i)) = i
  <2> DEFINE q == i \div rows
             r == i % rows
             u == ControlColumns[q + 1]
             w == 32 * r + u
             v == w - shift
  <2>0. i \in Nat
    OBVIOUS
  <2>1. q \in Nat /\ r \in 0..(rows - 1) /\ i = rows * q + r
    BY <2>0, Division
  <2> HIDE DEF q, r
  <2>2. q \in 0..31
    <3> SUFFICES ASSUME q >= 32 PROVE FALSE
      BY <2>1
    <3> DEFINE d == q - 32
    <3>1. d \in Nat /\ q = 32 + d
      BY <2>1
    <3> HIDE DEF d
    <3>2. rows * q = 32 * rows + rows * d /\ rows * d \in Nat
      BY <3>1
    <3> QED
      BY <2>1, <3>2
  <2>3. q + 1 \in 1..32
    BY <2>2
  <2>4. u \in 0..31 /\ ColumnTurns[u + 1] = q + 1
    BY <2>3, ColumnsPermute
  <2> HIDE DEF u
  <2>5. w \in Nat /\ w < 32 * rows /\ v + shift = w /\ w \div 32 = r /\ w % 32 = u /\ v \in Int
    BY <2>1, <2>4
  <2>6. ReadAt(rows, shift, i) = v
    <3>1. ReadAt(rows, shift, i) = 32 * r + u - shift
      BY Zenon DEF ReadAt, q, r, u
    <3>2. 32 * r + u - shift = v
      BY <2>1, <2>4
    <3> QED
      BY <3>1, <3>2, Zenon
  <2>7. PlaceOf(rows, shift, v) = rows * (ColumnTurns[u + 1] - 1) + r
    <3> HIDE DEF w, v
    <3> QED
      BY <2>5, Zenon DEF PlaceOf
  <2>8. (q + 1) - 1 = q
    BY <2>1
  <2>9. PlaceOf(rows, shift, v) = i
    BY <2>1, <2>4, <2>7, <2>8, Zenon
  <2>10. v + shift \in 0..(32 * rows - 1)
    BY <2>5
  <2> HIDE DEF v
  <2> QED
    BY <2>5, <2>6, <2>9, <2>10, Zenon
<1>2. ASSUME NEW v \in (0 - shift)..(32 * rows - shift - 1)
      PROVE  PlaceOf(rows, shift, v) \in 0..(32 * rows - 1) /\ ReadAt(rows, shift, PlaceOf(rows, shift, v)) = v
  <2> DEFINE w == v + shift
             r == w \div 32
             u == w % 32
             q == ColumnTurns[u + 1] - 1
             i == rows * q + r
  <2>1. w \in Nat /\ w < 32 * rows /\ v = w - shift
    OBVIOUS
  <2> HIDE DEF w
  <2>2. r \in 0..(rows - 1) /\ u \in 0..31 /\ w = 32 * r + u
    BY <2>1
  <2> HIDE DEF r, u
  <2>3. ColumnTurns[u + 1] \in 1..32 /\ ControlColumns[ColumnTurns[u + 1]] = u
    BY <2>2, ColumnsPermute
  <2>4. q \in 0..31 /\ q + 1 = ColumnTurns[u + 1]
    BY <2>3
  <2> HIDE DEF q
  <2>5. i \div rows = q /\ i % rows = r
    <3>1. q \in Nat
      BY <2>4
    <3> QED
      BY <2>2, <3>1, TurnAt
  <2>6. i \in 0..(32 * rows - 1)
    <3> DEFINE d == 31 - q
    <3>1. d \in Nat /\ q = 31 - d /\ q \in Nat
      BY <2>4
    <3> HIDE DEF d
    <3>2. rows * q = 31 * rows - rows * d /\ rows * d \in Nat /\ rows * q \in Nat
      BY <3>1
    <3> QED
      BY <2>2, <3>2
  <2>7. PlaceOf(rows, shift, v) = i
    BY DEF PlaceOf, w, r, u, q
  <2> HIDE DEF i
  <2>8. ReadAt(rows, shift, i) = 32 * r + ControlColumns[q + 1] - shift
    BY <2>5, Zenon DEF ReadAt
  <2>9. 32 * r + u - shift = v
    BY <2>1, <2>2
  <2>10. ReadAt(rows, shift, i) = v
    BY <2>3, <2>4, <2>8, <2>9, Zenon
  <2> QED
    BY <2>6, <2>7, <2>10, Zenon
<1> QED
  BY <1>1, <1>2

Permuted(s, len) ==
  /\ s \in [1..len -> 0..(len - 1)]
  /\ \A v \in 0..(len - 1) : \E i \in 1..len : s[i] = v

\* The places of a reading that are entries, those of the padding left out
KeptOf(len) ==
  LET rows == (len + 31) \div 32
  IN {i \in 0..(rows * 32 - 1) : ReadAt(rows, rows * 32 - len, i) >= 0}

RowsFit(rows, len) == rows \in Nat \ {0} /\ rows * 32 - len \in 0..31

\* The matrix has the fewest rows that hold the list.
LEMMA RowsOf ==
  ASSUME NEW len \in Nat \ {0}
  PROVE  RowsFit((len + 31) \div 32, len)
  BY DEF RowsFit

\* As many places of the matrix are kept as the list has, one for each entry.
LEMMA KeptCount ==
  ASSUME NEW len \in Nat \ {0}
  PROVE  /\ IsFiniteSet(KeptOf(len)) /\ Cardinality(KeptOf(len)) = len
         /\ \A i \in KeptOf(len) : ReadAt((len + 31) \div 32, ((len + 31) \div 32) * 32 - len, i) \in 0..(len - 1)
         /\ \A v \in 0..(len - 1) : \E i \in KeptOf(len) : ReadAt((len + 31) \div 32, ((len + 31) \div 32) * 32 - len, i) = v
<1> DEFINE rows == (len + 31) \div 32
           shift == rows * 32 - len
           K == KeptOf(len)
<1>1. rows \in Nat \ {0} /\ shift \in 0..31
  BY RowsOf DEF RowsFit
<1>2. K = {i \in 0..(rows * 32 - 1) : ReadAt(rows, shift, i) >= 0}
  BY Zenon DEF KeptOf
<1>2a. 32 * rows = rows * 32 /\ rows * 32 = len + shift
  BY <1>1
<1> HIDE DEF rows, shift, K
<1>3. /\ \A i \in 0..(32 * rows - 1) :
              /\ ReadAt(rows, shift, i) \in Int /\ ReadAt(rows, shift, i) + shift \in 0..(32 * rows - 1)
              /\ PlaceOf(rows, shift, ReadAt(rows, shift, i)) = i
      /\ \A v \in (0 - shift)..(32 * rows - shift - 1) :
              /\ PlaceOf(rows, shift, v) \in 0..(32 * rows - 1) /\ ReadAt(rows, shift, PlaceOf(rows, shift, v)) = v
  <2>1. shift \in Nat
    BY <1>1
  <2> QED
    BY <1>1, <2>1, ReadingPermutes
<1> DEFINE R(i) == ReadAt(rows, shift, i)
           P(v) == PlaceOf(rows, shift, v)
<1>4. ASSUME NEW i \in K PROVE R(i) \in 0..(len - 1) /\ P(R(i)) = i
  <2>1. i \in 0..(32 * rows - 1) /\ R(i) >= 0
    BY <1>2, <1>2a
  <2>2. R(i) \in Int /\ R(i) + shift \in 0..(32 * rows - 1) /\ P(R(i)) = i
    BY <1>3, <2>1
  <2> HIDE DEF R
  <2>3. R(i) \in 0..(len - 1)
    BY <1>1, <1>2a, <2>1, <2>2
  <2> QED
    BY <2>2, <2>3
<1>5. ASSUME NEW v \in 0..(len - 1) PROVE P(v) \in K /\ R(P(v)) = v
  <2>1. v \in (0 - shift)..(32 * rows - shift - 1) /\ v \in Int /\ v >= 0
    BY <1>1, <1>2a
  <2>2. P(v) \in 0..(32 * rows - 1) /\ R(P(v)) = v
    BY <1>3, <2>1
  <2>3. P(v) \in 0..(rows * 32 - 1)
    BY <1>2a, <2>2
  <2>4. R(P(v)) >= 0
    BY <2>1, <2>2
  <2> HIDE DEF P
  <2> QED
    BY <1>2, <2>2, <2>3, <2>4
<1> HIDE DEF R, P
<1>6. ExistsBijection(1..len, K)
  <2> DEFINE f == [n \in 1..len |-> P(n - 1)]
  <2>1. \A n \in 1..len : n - 1 \in 0..(len - 1)
    OBVIOUS
  <2>2. f \in [1..len -> K] /\ \A n \in 1..len : f[n] = P(n - 1)
    BY <1>5, <2>1
  <2>3. ASSUME NEW m \in 1..len, NEW n \in 1..len, f[m] = f[n] PROVE m = n
    <3>1. R(P(m - 1)) = m - 1 /\ R(P(n - 1)) = n - 1
      BY <1>5, <2>1
    <3>2. m - 1 = n - 1
      BY <2>2, <2>3, <3>1
    <3> QED
      BY <3>2
  <2>4. ASSUME NEW i \in K PROVE \E n \in 1..len : f[n] = i
    <3>1. R(i) \in 0..(len - 1) /\ P(R(i)) = i
      BY <1>4
    <3>2. R(i) + 1 \in 1..len /\ (R(i) + 1) - 1 = R(i)
      BY <3>1
    <3> QED
      BY <2>2, <3>1, <3>2
  <2> HIDE DEF f
  <2>5. f \in Injection(1..len, K)
    BY <2>2, <2>3 DEF Injection, IsInjective
  <2>6. f \in Bijection(1..len, K)
    BY <2>2, <2>4, <2>5 DEF Bijection, Surjection
  <2> QED
    BY <2>6 DEF ExistsBijection
<1>7. IsFiniteSet(K) /\ Cardinality(K) = len
  BY <1>6, FS_CountingElements, FS_NatBijection
<1> QED
  BY <1>4, <1>5, <1>7 DEF K, R, P, rows, shift

\* lte_gen_interlv_seq gives every entry once.
LEMMA InterleaverIsPermuted ==
  ASSUME NEW len \in Nat \ {0}
  PROVE  Permuted(InterleaverSeq(len), len)
<1> DEFINE rows == (len + 31) \div 32
           shift == rows * 32 - len
           K == KeptOf(len)
           kept == Ascending(K, rows * 32)
           R(i) == ReadAt(rows, shift, i)
<1>1. rows \in Nat \ {0} /\ shift \in 0..31
  BY RowsOf DEF RowsFit
<1>2. /\ IsFiniteSet(K) /\ Cardinality(K) = len
      /\ \A i \in K : R(i) \in 0..(len - 1)
      /\ \A v \in 0..(len - 1) : \E i \in K : R(i) = v
  BY KeptCount
<1>3. K \subseteq 0..(rows * 32 - 1)
  BY Zenon DEF KeptOf
<1>4. InterleaverSeq(len) = [n \in DOMAIN kept |-> R(kept[n])]
  BY Zenon DEF InterleaverSeq, KeptOf, ReadAt
<1> HIDE DEF rows, shift, K, R
<1>5. ListsUp(kept, K)
  <2>1. rows * 32 \in Nat /\ K \cap 0..(rows * 32 - 1) = K
    <3>1. rows * 32 \in Nat
      BY <1>1
    <3>2. K \cap 0..(rows * 32 - 1) = K
      BY <1>3, Zenon
    <3> QED
      BY <3>1, <3>2
  <2>2. ListsUp(kept, K \cap 0..(rows * 32 - 1))
    BY <2>1, AscendingLists
  <2> QED
    BY <2>1, <2>2
<1> HIDE DEF kept
<1>6. Len(kept) = len
  BY <1>2, <1>5, ListCounts
<1>7. kept \in Seq(Nat) /\ {kept[i] : i \in 1..Len(kept)} = K
  BY <1>5 DEF ListsUp
<1>8. DOMAIN kept = 1..len
  BY <1>6, <1>7
<1>9. \A n \in 1..len : kept[n] \in K
  BY <1>6, <1>7
<1>10. \A i \in K : \E n \in 1..len : kept[n] = i
  BY <1>6, <1>7
<1> DEFINE s == InterleaverSeq(len)
<1>11. s \in [1..len -> 0..(len - 1)] /\ \A n \in 1..len : s[n] = R(kept[n])
  BY <1>2, <1>4, <1>8, <1>9
<1> HIDE DEF s
<1>12. ASSUME NEW v \in 0..(len - 1) PROVE \E n \in 1..len : s[n] = v
  <2>1. PICK i \in K : R(i) = v
    BY <1>2, Zenon
  <2>2. PICK n \in 1..len : kept[n] = i
    BY <1>10, Zenon
  <2> QED
    BY <1>11, <2>1, <2>2, Zenon
<1> QED
  BY <1>11, <1>12 DEF Permuted, s

\* A rotation keeps every entry.
LEMMA RotationPermutes ==
  ASSUME NEW len \in Nat \ {0}, NEW cell \in Nat, NEW s, Permuted(s, len), NEW t,
         t = [i \in 1..len |-> s[((i - 1 + cell) % len) + 1]]
  PROVE  Permuted(t, len)
<1>1. ASSUME NEW i \in 1..len PROVE ((i - 1 + cell) % len) + 1 \in 1..len
  <2>1. i - 1 + cell \in Nat
    OBVIOUS
  <2>2. (i - 1 + cell) % len \in 0..(len - 1)
    BY <2>1, Division
  <2> QED
    BY <2>2
<1>2. t \in [1..len -> 0..(len - 1)]
  BY <1>1 DEF Permuted
<1>3. ASSUME NEW n \in 1..len PROVE \E i \in 1..len : ((i - 1 + cell) % len) + 1 = n
  <2> DEFINE q == cell \div len
             r == cell % len
             i == IF n - 1 >= r THEN (n - 1) - r ELSE ((n - 1) - r) + len
             p == IF n - 1 >= r THEN q ELSE q + 1
  <2>1. q \in Nat /\ r \in 0..(len - 1) /\ cell = len * q + r
    BY Division
  <2> HIDE DEF q, r
  <2>2. i \in 0..(len - 1) /\ p \in Nat
    BY <2>1
  <2>3. i + cell = len * p + (n - 1)
    <3>1. CASE n - 1 >= r
      BY <2>1, <3>1
    <3>2. CASE ~(n - 1 >= r)
      <4>1. i = ((n - 1) - r) + len /\ p = q + 1
        BY <3>2
      <4> HIDE DEF i, p
      <4>2. len * p = len * q + len /\ len * q \in Nat
        BY <2>1, <4>1
      <4> QED
        BY <2>1, <4>1, <4>2
    <3> QED
      BY <3>1, <3>2
  <2> HIDE DEF i, p
  <2>4. n - 1 \in 0..(len - 1)
    OBVIOUS
  <2>5. (len * p + (n - 1)) % len = n - 1
    BY <2>2, <2>4, TurnAt
  <2>6. i + 1 \in 1..len /\ ((i + 1) - 1 + cell) = i + cell
    BY <2>2
  <2>7. (((i + 1) - 1 + cell) % len) = n - 1 /\ (n - 1) + 1 = n
    BY <2>3, <2>5, <2>6
  <2> QED
    BY <2>6, <2>7
<1>4. \A v \in 0..(len - 1) : \E i \in 1..len : t[i] = v
  BY <1>3 DEF Permuted
<1> QED
  BY <1>2, <1>4 DEF Permuted

\* A third of a control region's symbols is a whole number of fours.
QuadCount(rbs, cfi, ng) == 2 * rbs - 4 - 3 * PhichGroups(rbs, ng) + (cfi - 1) * (3 * rbs)

\* There is a whole number of quadruplets, and at least one.
LEMMA QuadsCount ==
  ASSUME NEW rbs \in Bandwidths, NEW cfi \in 1..3, NEW ng \in 0..3
  PROVE  /\ QuadCount(rbs, cfi, ng) \in Nat \ {0} /\ PdcchLen(rbs, cfi, ng) = 4 * QuadCount(rbs, cfi, ng)
         /\ PdcchLen(rbs, cfi, ng) \div 4 = QuadCount(rbs, cfi, ng)
<1> DEFINE g == PhichGroups(rbs, ng)
           x == (cfi - 1) * rbs
           c == QuadCount(rbs, cfi, ng)
<1>1. rbs \in Nat /\ rbs >= 6
  BY DEF Bandwidths
<1>2. g \in Nat /\ 48 * g <= 12 * rbs + 47
  <2>1. ng = 0 \/ ng = 1 \/ ng = 2 \/ ng = 3
    OBVIOUS
  <2>2. PhichSixths[ng + 1] \in {1, 3, 6, 12}
    BY <2>1 DEF PhichSixths
  <2> DEFINE y == PhichSixths[ng + 1]
  <2>3. g = (rbs * y + 47) \div 48
    BY Zenon DEF PhichGroups
  <2> HIDE DEF y, g
  <2>4. rbs * y \in Nat /\ rbs * y <= 12 * rbs
    BY <1>1, <2>2 DEF y
  <2> QED
    BY <1>1, <2>3, <2>4
<1>3. x \in Nat /\ (cfi - 1) * (3 * rbs) = 3 * x /\ (cfi - 1) * (rbs * 12) = 12 * x
  <2>1. cfi = 1 \/ cfi = 2 \/ cfi = 3
    OBVIOUS
  <2> QED
    BY <1>1, <2>1
<1> HIDE DEF g, x
<1>4. c = 2 * rbs - 4 - 3 * g + 3 * x
  BY <1>3, Zenon DEF QuadCount, g
<1>5. PdcchLen(rbs, cfi, ng) = rbs * 8 - 16 - 12 * g + 12 * x
  BY <1>3, Zenon DEF PdcchLen, PcfichSymbols, RbLen, g
<1> HIDE DEF c
<1>6. c \in Nat \ {0} /\ PdcchLen(rbs, cfi, ng) = 4 * c
  BY <1>1, <1>2, <1>3, <1>4, <1>5
<1>7. PdcchLen(rbs, cfi, ng) \div 4 = c
  BY <1>6
<1> QED
  BY <1>6, <1>7 DEF c

\* The reading of a rate matcher without nulls is that of an interleaver.
ReadAgain(count) ==
  /\ InterleavedLen(count) = ((count + 31) \div 32) * 32
  /\ \A q \in 0..(InterleavedLen(count) - 1) :
       TakenFrom(ConvMatcher(count), 1, q) = ReadAt((count + 31) \div 32, ((count + 31) \div 32) * 32 - count, q)

\* What the matcher takes is the entry at its place in the matrix.
LEMMA TakenIsRead ==
  ASSUME NEW count \in Nat \ {0}
  PROVE  ReadAgain(count)
<1> DEFINE rows == (count + 31) \div 32
           m == ConvMatcher(count)
<1>0. rows \in Nat \ {0} /\ rows * 32 - count \in 0..31
  BY RowsOf DEF RowsFit
<1>1. Rows(count) = rows
  BY DEF Rows, Columns
<1>2. InterleavedLen(count) = rows * 32
  BY <1>1 DEF InterleavedLen, Columns
<1>3. m.D = count /\ m.columns = ControlColumns /\ m.further = {}
  BY DEF ConvMatcher, ConvColumns, ControlColumns
<1> HIDE DEF m, rows
<1>4. ASSUME NEW q \in 0..(rows * 32 - 1) PROVE TakenFrom(m, 1, q) = ReadAt(rows, rows * 32 - count, q)
  <2> DEFINE r == q % rows
             u == ControlColumns[(q \div rows) + 1]
             shift == rows * 32 - count
  <2>1. TakenFrom(m, 1, q) = (32 * r + u) - shift
    BY <1>1, <1>2, <1>3 DEF TakenFrom, Columns
  <2>2. ReadAt(rows, shift, q) = 32 * r + u - shift
    BY Zenon DEF ReadAt
  <2>3. r \in Nat /\ u \in Int /\ shift \in Int
    <3>1. 0 - shift <= 0 /\ shift \in Nat /\ q \in 0..(32 * rows - 1)
      BY <1>0
    <3>2. ReadAt(rows, shift, q) \in Int
      BY <1>0, <3>1, ReadingPermutes
    <3>3. q \div rows \in Nat /\ r \in Nat /\ q = rows * (q \div rows) + r
      BY <1>0, Division
    <3>4. q \div rows \in 0..31
      <4> DEFINE h == q \div rows
                 d == h - 32
      <4> SUFFICES ASSUME h >= 32 PROVE FALSE
        BY <3>3
      <4>1. h \in Nat /\ q = rows * h + r
        BY <3>3
      <4> HIDE DEF h, r
      <4>2. d \in Nat /\ h = 32 + d
        BY <4>1
      <4> HIDE DEF d
      <4>3. rows * h = 32 * rows + rows * d /\ rows * d \in Nat
        BY <1>0, <4>2
      <4> QED
        BY <1>0, <3>1, <3>3, <4>1, <4>3
    <3>5. (q \div rows) + 1 \in 1..32
      BY <3>4
    <3> QED
      BY <3>1, <3>3, <3>5, ColumnsPermute
  <2> HIDE DEF r, u, shift
  <2>4. (32 * r + u) - shift = 32 * r + u - shift
    BY <2>3
  <2> QED
    BY <2>1, <2>2, <2>4 DEF shift
<1> QED
  BY <1>2, <1>4 DEF m, rows, ReadAgain

\* What PutInOrder hands to pdcch_deinterlv is the sequence it undoes.
OrderSent(count, cell) ==
  LET From(q) == TakenFrom(ConvMatcher(count), 1, q)
      order  == Ascending({q \in 0..(InterleavedLen(count) - 1) : From(q) >= 0}, InterleavedLen(count))
  IN [i \in 1..count |-> From(order[((i - 1 + cell) % count) + 1])]

\* Quadruplets are sent in an order that permutes them, the one pdcch_deinterlv undoes.
LEMMA SentIsSequence ==
  ASSUME NEW count \in Nat \ {0}, NEW cell \in Nat
  PROVE  OrderSent(count, cell) = DeinterleaverSeq(count, cell) /\ Permuted(OrderSent(count, cell), count)
<1> DEFINE Vals == InterleavedLen(count)
           From(q) == TakenFrom(ConvMatcher(count), 1, q)
           K == {q \in 0..(Vals - 1) : From(q) >= 0}
           order == Ascending(K, Vals)
           rows == (count + 31) \div 32
           R(q) == ReadAt(rows, rows * 32 - count, q)
           at(i) == ((i - 1 + cell) % count) + 1
           s == InterleaverSeq(count)
<1>1. Vals = rows * 32 /\ \A q \in 0..(Vals - 1) : From(q) = R(q)
  BY TakenIsRead, Zenon DEF ReadAgain
<1>2. s = [n \in DOMAIN Ascending(KeptOf(count), rows * 32) |-> R(Ascending(KeptOf(count), rows * 32)[n])]
  BY Zenon DEF InterleaverSeq, KeptOf, ReadAt
<1>3. KeptOf(count) = {q \in 0..(rows * 32 - 1) : R(q) >= 0}
  BY Zenon DEF KeptOf
<1>4. OrderSent(count, cell) = [i \in 1..count |-> From(order[at(i)])]
  BY Zenon DEF OrderSent
<1>5. DeinterleaverSeq(count, cell) = [i \in 1..count |-> s[at(i)]]
  BY Zenon DEF DeinterleaverSeq
<1>6. Permuted(s, count)
  BY InterleaverIsPermuted, Zenon
<1>7. rows * 32 \in Nat
  <2>1. rows \in Nat
    BY RowsOf DEF RowsFit
  <2> HIDE DEF rows
  <2> QED
    BY <2>1
<1> HIDE DEF Vals, From, R, rows, s
<1>8. K = KeptOf(count)
  BY <1>1, <1>3
<1> HIDE DEF K
<1>9. order = Ascending(KeptOf(count), rows * 32)
  BY <1>1, <1>8, Zenon
<1>10. ListsUp(order, K \cap 0..(rows * 32 - 1))
  BY <1>7, <1>8, <1>9, AscendingLists
<1> HIDE DEF order
<1>11. \A n \in DOMAIN order : order[n] \in 0..(Vals - 1)
  <2>1. order \in Seq(Nat) /\ {order[n] : n \in 1..Len(order)} = K \cap 0..(rows * 32 - 1)
    BY <1>10 DEF ListsUp
  <2>2. DOMAIN order = 1..Len(order)
    BY <2>1
  <2> QED
    BY <1>1, <2>1, <2>2
<1>12. DOMAIN s = DOMAIN order /\ \A n \in DOMAIN order : s[n] = From(order[n])
  BY <1>1, <1>2, <1>9, <1>11
<1>13. DOMAIN s = 1..count
  BY <1>6 DEF Permuted
<1>14. ASSUME NEW i \in 1..count PROVE at(i) \in 1..count
  <2>1. i - 1 + cell \in Nat
    OBVIOUS
  <2>2. (i - 1 + cell) % count \in 0..(count - 1)
    BY <2>1, Division
  <2> QED
    BY <2>2
<1> HIDE DEF at
<1>15. OrderSent(count, cell) = DeinterleaverSeq(count, cell)
  BY <1>4, <1>5, <1>12, <1>13, <1>14
<1>16. Permuted(DeinterleaverSeq(count, cell), count)
  BY <1>5, <1>6, RotationPermutes, Zenon DEF at
<1> QED
  BY <1>15, <1>16

\* pdcch_deinterlv puts the entries back.
LEMMA OrderComesBack ==
  ASSUME NEW count \in Nat \ {0}, NEW cell \in Nat
  PROVE  \A i \in DOMAIN (Deinterleave(OrderSent(count, cell), cell) \o << >>) :
            (Deinterleave(OrderSent(count, cell), cell) \o << >>)[i] = i - 1
<1> DEFINE s == OrderSent(count, cell)
           out == Deinterleave(s, cell)
<1>1. s = DeinterleaverSeq(count, cell) /\ s \in [1..count -> 0..(count - 1)]
      /\ \A v \in 0..(count - 1) : \E i \in 1..count : s[i] = v
  BY SentIsSequence, Zenon DEF Permuted
<1>2. out = [j \in 1..Len(s) |-> s[CHOOSE i \in 1..Len(s) : DeinterleaverSeq(Len(s), cell)[i] = j - 1]]
  BY Zenon DEF Deinterleave
<1> HIDE DEF s, out
<1>3. Len(s) = count
  <2>1. s \in Seq(0..(count - 1))
    BY <1>1
  <2> QED
    BY <1>1, <2>1
<1>4. out = [j \in 1..count |-> s[CHOOSE i \in 1..count : s[i] = j - 1]]
  <2>1. DeinterleaverSeq(Len(s), cell) = s
    BY <1>1, <1>3
  <2> QED
    BY <1>2, <1>3, <2>1
<1>5. ASSUME NEW j \in 1..count PROVE out[j] = j - 1
  <2>1. j - 1 \in 0..(count - 1)
    OBVIOUS
  <2> DEFINE z == CHOOSE i \in 1..count : s[i] = j - 1
  <2>2. z \in 1..count /\ s[z] = j - 1
    BY <1>1, <2>1, Zenon
  <2>3. out[j] = s[z]
    BY <1>4, Zenon
  <2> QED
    BY <2>2, <2>3, Zenon
<1>6. out \in Seq(Int) /\ DOMAIN out = 1..count
  <2>1. DOMAIN out = 1..count /\ out = [j \in 1..count |-> out[j]]
    BY <1>4
  <2>2. \A j \in 1..count : out[j] \in Int
    BY <1>5
  <2> QED
    BY <2>1, <2>2
<1>7. out \o << >> = out
  BY <1>6
<1> QED
  BY <1>5, <1>6, <1>7 DEF out, s

-----------------------------------------------------------------------------
(* What is marked are halves of blocks.                                    *)

\* The elements of some halves that lie around the references
HalvesMarked(Q, cell) == {6 * q + j : q \in Q, j \in PhichQuad(cell % 3)}

\* A set with one more element
LEMMA OneIsAdded ==
  ASSUME NEW S, NEW x, IsFiniteSet(S), x \notin S
  PROVE  IsFiniteSet(S \cup {x}) /\ Cardinality(S \cup {x}) = Cardinality(S) + 1
<1> QED
  BY FS_AddElement

\* A quadruplet takes four of six places, those without a reference.
LEMMA QuadAvoids ==
  ASSUME NEW cell \in CellIds
  PROVE  /\ cell \in Nat /\ cell % 3 \in {0, 1, 2} /\ PhichQuad(cell % 3) = {j \in 0..5 : (j % 3) # cell % 3}
         /\ IsFiniteSet(PhichQuad(cell % 3)) /\ Cardinality(PhichQuad(cell % 3)) = 4
<1> DEFINE s == cell % 3
<1>1. cell \in Nat /\ s \in {0, 1, 2}
  BY DEF CellIds
<1> HIDE DEF s
<1>2. \/ PhichQuad(s) = {1, 2, 4, 5} /\ s = 0
      \/ PhichQuad(s) = {0, 2, 3, 5} /\ s = 1
      \/ PhichQuad(s) = {0, 1, 3, 4} /\ s = 2
  BY <1>1 DEF PhichQuad
<1>3. PhichQuad(s) = {j \in 0..5 : (j % 3) # s}
  BY <1>2
<1>4. ASSUME NEW a \in Int, NEW b \in Int, NEW c \in Int, NEW d \in Int, a # b, a # c, a # d, b # c, b # d, c # d
      PROVE  IsFiniteSet({a, b, c, d}) /\ Cardinality({a, b, c, d}) = 4
  <2>1. IsFiniteSet({a}) /\ Cardinality({a}) = 1
    BY FS_Singleton
  <2>2. {a, b} = {a} \cup {b} /\ {a, b, c} = {a, b} \cup {c} /\ {a, b, c, d} = {a, b, c} \cup {d}
    OBVIOUS
  <2>3. b \notin {a} /\ c \notin {a, b} /\ d \notin {a, b, c}
    BY <1>4, Zenon
  <2>4. IsFiniteSet({a, b}) /\ Cardinality({a, b}) = 2
    <3>1. IsFiniteSet({a} \cup {b}) /\ Cardinality({a} \cup {b}) = Cardinality({a}) + 1
      BY <2>3, <2>1, OneIsAdded
    <3>2. IsFiniteSet({a, b}) /\ Cardinality({a, b}) = Cardinality({a}) + 1
      BY <2>2, <3>1, Zenon
    <3> QED
      BY <2>1, <3>2
  <2>5. IsFiniteSet({a, b, c}) /\ Cardinality({a, b, c}) = 3
    <3>1. IsFiniteSet({a, b} \cup {c}) /\ Cardinality({a, b} \cup {c}) = Cardinality({a, b}) + 1
      BY <2>3, <2>4, OneIsAdded
    <3>2. IsFiniteSet({a, b, c}) /\ Cardinality({a, b, c}) = Cardinality({a, b}) + 1
      BY <2>2, <3>1, Zenon
    <3> QED
      BY <2>4, <3>2
  <2>6. IsFiniteSet({a, b, c, d}) /\ Cardinality({a, b, c, d}) = 4
    <3>1. IsFiniteSet({a, b, c} \cup {d}) /\ Cardinality({a, b, c} \cup {d}) = Cardinality({a, b, c}) + 1
      BY <2>3, <2>5, OneIsAdded
    <3>2. IsFiniteSet({a, b, c, d}) /\ Cardinality({a, b, c, d}) = Cardinality({a, b, c}) + 1
      BY <2>2, <3>1, Zenon
    <3> QED
      BY <2>5, <3>2
  <2> QED
    BY <2>6
<1>5. IsFiniteSet(PhichQuad(s)) /\ Cardinality(PhichQuad(s)) = 4
  BY <1>2, <1>4
<1> QED
  BY <1>1, <1>3, <1>5 DEF s

\* An element is marked when its half is and it is no reference.
LEMMA MarkedIs ==
  ASSUME NEW cell \in CellIds, NEW Q, Q \subseteq Nat
  PROVE  /\ HalvesMarked(Q, cell) \subseteq Nat
         /\ \A k \in Nat : k \in HalvesMarked(Q, cell) <=> k \div 6 \in Q /\ (k % 3) # cell % 3
<1>1. cell \in Nat /\ cell % 3 \in Nat /\ PhichQuad(cell % 3) = {j \in 0..5 : (j % 3) # cell % 3}
  BY QuadAvoids
<1> DEFINE P == PhichQuad(cell % 3)
           s == cell % 3
<1>2. HalvesMarked(Q, cell) = {6 * q + j : q \in Q, j \in P}
  BY DEF HalvesMarked
<1> HIDE DEF P
<1>3. P = {j \in 0..5 : (j % 3) # s}
  BY <1>1 DEF P
<1> HIDE DEF s
<1>4. HalvesMarked(Q, cell) \subseteq Nat
  BY <1>2, <1>3
<1>5. ASSUME NEW q \in Q, NEW j \in P
      PROVE  6 * q + j \in Nat /\ (6 * q + j) \div 6 = q /\ ((6 * q + j) % 3) # s
  <2>1. q \in Nat /\ j \in 0..5 /\ (j % 3) # s
    BY <1>3
  <2> QED
    BY <2>1
<1>6. ASSUME NEW k \in Nat, k \div 6 \in Q, (k % 3) # s PROVE k \in HalvesMarked(Q, cell)
  <2> DEFINE q == k \div 6
             j == k % 6
  <2>1. q \in Nat /\ j \in 0..5 /\ k = 6 * q + j /\ (j % 3) = k % 3
    OBVIOUS
  <2> HIDE DEF q, j
  <2>2. j \in P
    BY <1>3, <1>6, <2>1
  <2>3. q \in Q
    BY <1>6 DEF q
  <2> QED
    BY <1>2, <2>1, <2>2, <2>3
<1> QED
  BY <1>2, <1>4, <1>5, <1>6 DEF s

\* There are four marked elements in each marked half.
LEMMA MarkedCount ==
  ASSUME NEW cell \in CellIds, NEW Q, Q \subseteq Nat, IsFiniteSet(Q)
  PROVE  IsFiniteSet(HalvesMarked(Q, cell)) /\ Cardinality(HalvesMarked(Q, cell)) = 4 * Cardinality(Q)
<1> DEFINE P == PhichQuad(cell % 3)
           M == HalvesMarked(Q, cell)
<1>1. P \subseteq 0..5 /\ IsFiniteSet(P) /\ Cardinality(P) = 4
  BY QuadAvoids
<1>2. M = {6 * q + j : q \in Q, j \in P}
  BY DEF HalvesMarked
<1> HIDE DEF P, M
<1>3. IsFiniteSet(Q \X P) /\ Cardinality(Q \X P) = Cardinality(Q) * 4
  BY <1>1, FS_Product
<1> DEFINE f == [e \in Q \X P |-> 6 * e[1] + e[2]]
<1>4. f \in [Q \X P -> M]
  <2>1. ASSUME NEW x \in Q \X P PROVE 6 * x[1] + x[2] \in M
    <3> DEFINE a == x[1]
               b == x[2]
    <3>1. a \in Q /\ b \in P
      OBVIOUS
    <3> HIDE DEF a, b
    <3>2. 6 * a + b \in M
      BY <1>2, <3>1
    <3> QED
      BY <3>2 DEF a, b
  <2> QED
    BY <2>1
<1>5. ASSUME NEW x \in Q \X P, NEW y \in Q \X P, f[x] = f[y] PROVE x = y
  <2>1. x[1] \in Nat /\ y[1] \in Nat /\ x[2] \in 0..5 /\ y[2] \in 0..5
    BY <1>1
  <2>2. 6 * x[1] + x[2] = 6 * y[1] + y[2]
    BY <1>5
  <2>3. x[1] = y[1] /\ x[2] = y[2]
    BY <2>1, <2>2
  <2> QED
    BY <2>3
<1>6. ASSUME NEW k \in M PROVE \E x \in Q \X P : f[x] = k
  <2>1. PICK q \in Q, j \in P : k = 6 * q + j
    BY <1>2
  <2>2. <<q, j>> \in Q \X P /\ f[<<q, j>>] = k
    BY <2>1
  <2> QED
    BY <2>2
<1> HIDE DEF f
<1>7. f \in Injection(Q \X P, M)
  BY <1>4, <1>5 DEF Injection, IsInjective
<1>8. f \in Bijection(Q \X P, M)
  BY <1>4, <1>6, <1>7 DEF Bijection, Surjection
<1>9. IsFiniteSet(M) /\ Cardinality(M) = Cardinality(Q \X P)
  <2>1. ExistsBijection(Q \X P, M)
    BY <1>8 DEF ExistsBijection
  <2> QED
    BY <1>3, <1>8, <2>1, FS_Bijection, FS_SameCardinalityBij
<1>10. Cardinality(Q) \in Nat
  BY FS_CardinalityType
<1> QED
  BY <1>3, <1>9, <1>10 DEF M

-----------------------------------------------------------------------------
(* The format indicator takes four halves.                                 *)

PcfichHalf(rbs, cell, i) ==
  LET a == (cell % (2 * rbs)) + (i * rbs) \div 2 IN IF a < 2 * rbs THEN a ELSE a - 2 * rbs

PcfichHalves(rbs, cell) == {PcfichHalf(rbs, cell, i) : i \in 0..3}

\* The quadruplets of the PCFICH start at different halves of blocks.
LEMMA PcfichStartIs ==
  ASSUME NEW rbs \in Bandwidths, NEW cell \in CellIds
  PROVE  /\ \A i \in 0..3 : PcfichHalf(rbs, cell, i) \in 0..(2 * rbs - 1)
                            /\ PcfichStart(rbs, cell, i) = 6 * PcfichHalf(rbs, cell, i)
         /\ \A i, j \in 0..3 : i < j => PcfichHalf(rbs, cell, i) # PcfichHalf(rbs, cell, j)
<1> DEFINE c == cell % (2 * rbs)
           H(i) == LET a == c + (i * rbs) \div 2 IN IF a < 2 * rbs THEN a ELSE a - 2 * rbs
           S(i) == (6 * c + ((i * rbs) \div 2) * 6) % (rbs * 12)
<1>1. rbs \in Nat \ {0} /\ 2 * rbs \in Nat \ {0} /\ cell \in Nat
  BY DEF Bandwidths, CellIds
<1>2. c \in 0..(2 * rbs - 1)
  <2> DEFINE w == 2 * rbs
  <2>1. w \in Nat \ {0}
    BY <1>1
  <2> HIDE DEF w
  <2>2. (cell % w) \in 0..(w - 1)
    BY <1>1, <2>1, Division
  <2> QED
    BY <2>2 DEF w
<1>3. \A i : PcfichHalf(rbs, cell, i) = H(i) /\ PcfichStart(rbs, cell, i) = S(i)
  BY Zenon DEF PcfichHalf, PcfichStart, RbLen
<1> HIDE DEF c
<1>4. 0..3 = {0, 1, 2, 3}
  OBVIOUS
<1> DEFINE Good == /\ \A i \in {0, 1, 2, 3} : H(i) \in 0..(2 * rbs - 1) /\ S(i) = 6 * H(i)
                   /\ \A i, j \in {0, 1, 2, 3} : i < j => H(i) # H(j)
<1>5. Good
  <2>1. CASE rbs = 6
    BY <1>2, <2>1
  <2>2. CASE rbs = 15
    BY <1>2, <2>2
  <2>3. CASE rbs = 25
    BY <1>2, <2>3
  <2>4. CASE rbs = 50
    BY <1>2, <2>4
  <2>5. CASE rbs = 75
    BY <1>2, <2>5
  <2>6. CASE rbs = 100
    BY <1>2, <2>6
  <2> HIDE DEF Good
  <2> QED
    BY <2>1, <2>2, <2>3, <2>4, <2>5, <2>6 DEF Bandwidths
<1> HIDE DEF H, S
<1> QED
  BY <1>3, <1>4, <1>5

\* A quadruplet that starts at a half lies around its references.
LEMMA QuadFromHalf ==
  ASSUME NEW cell \in CellIds, NEW half \in {0, 6}
  PROVE  /\ {QuadFrom(cell, half)[j] : j \in 1..4} = PhichQuad(cell % 3)
         /\ QuadFrom(cell, half) \in Seq(Nat) /\ Len(QuadFrom(cell, half)) = 4
<1>1. 1..4 = {1, 2, 3, 4}
  OBVIOUS
<1>2. CASE cell % 3 = 0 /\ QuadFrom(cell, half) = <<1, 2, 4, 5>>
  <2>1. PhichQuad(0) = {1, 2, 4, 5}
    BY DEF PhichQuad
  <2> QED
    BY <1>1, <1>2, <2>1
<1>3. CASE cell % 3 = 1 /\ QuadFrom(cell, half) = <<0, 2, 3, 5>>
  <2>1. PhichQuad(1) = {0, 2, 3, 5}
    BY DEF PhichQuad
  <2> QED
    BY <1>1, <1>3, <2>1
<1>4. CASE cell % 3 = 2 /\ QuadFrom(cell, half) = <<0, 1, 3, 4>>
  <2>1. PhichQuad(2) = {0, 1, 3, 4}
    BY DEF PhichQuad
  <2> QED
    BY <1>1, <1>4, <2>1
<1> QED
  BY <1>2, <1>3, <1>4, QuadIsAround

\* The PCFICH marks four halves.
LEMMA PcfichIsMarked ==
  ASSUME NEW rbs \in Bandwidths, NEW cell \in CellIds
  PROVE  /\ PcfichElements(rbs, cell) = HalvesMarked(PcfichHalves(rbs, cell), cell)
         /\ PcfichHalves(rbs, cell) \subseteq 0..(2 * rbs - 1)
         /\ IsFiniteSet(PcfichHalves(rbs, cell)) /\ Cardinality(PcfichHalves(rbs, cell)) = 4
<1> DEFINE h(i) == PcfichHalf(rbs, cell, i)
           k(i) == PcfichStart(rbs, cell, i)
           H == PcfichHalves(rbs, cell)
           P == PhichQuad(cell % 3)
<1>1. /\ \A i \in 0..3 : h(i) \in 0..(2 * rbs - 1) /\ k(i) = 6 * h(i)
      /\ \A i, j \in 0..3 : i < j => h(i) # h(j)
  BY PcfichStartIs
<1>2. PcfichElements(rbs, cell) = UNION {{k(i) + QuadFrom(cell, k(i) % RbLen)[j] : j \in 1..4} : i \in 0..3}
  BY Zenon DEF PcfichElements
<1>3. H = {h(i) : i \in 0..3}
  BY Zenon DEF PcfichHalves
<1>4. HalvesMarked(H, cell) = {6 * q + j : q \in H, j \in P}
  BY DEF HalvesMarked
<1> HIDE DEF h, k, H, P
<1>5. ASSUME NEW i \in 0..3
      PROVE  {k(i) + QuadFrom(cell, k(i) % RbLen)[j] : j \in 1..4} = {6 * h(i) + x : x \in P}
  <2>1. h(i) \in Nat /\ k(i) = 6 * h(i)
    BY <1>1
  <2>2. k(i) % RbLen \in {0, 6}
    BY <2>1 DEF RbLen
  <2> DEFINE f == QuadFrom(cell, k(i) % RbLen)
  <2>3. {f[j] : j \in 1..4} = P
    BY <2>2, QuadFromHalf DEF P
  <2> HIDE DEF f
  <2>4. {k(i) + f[j] : j \in 1..4} = {6 * h(i) + x : x \in P}
    BY <2>1, <2>3
  <2> QED
    BY <2>4 DEF f
<1>6. PcfichElements(rbs, cell) = HalvesMarked(H, cell)
  <2>1. PcfichElements(rbs, cell) = UNION {{6 * h(i) + x : x \in P} : i \in 0..3}
    BY <1>2, <1>5
  <2> QED
    BY <1>3, <1>4, <2>1
<1>7. H \subseteq 0..(2 * rbs - 1)
  BY <1>1, <1>3
<1>8. IsFiniteSet(H) /\ Cardinality(H) = 4
  <2>1. H = (({h(0)} \cup {h(1)}) \cup {h(2)}) \cup {h(3)}
    <3>1. 0..3 = {0, 1, 2, 3}
      OBVIOUS
    <3> QED
      BY <1>3, <3>1
  <2>2. h(0) # h(1) /\ h(0) # h(2) /\ h(0) # h(3) /\ h(1) # h(2) /\ h(1) # h(3) /\ h(2) # h(3)
    BY <1>1
  <2>3. IsFiniteSet({h(0)}) /\ Cardinality({h(0)}) = 1
    BY FS_Singleton
  <2>4. IsFiniteSet({h(0)} \cup {h(1)}) /\ Cardinality({h(0)} \cup {h(1)}) = 2
    BY <2>2, <2>3, FS_AddElement
  <2>5. IsFiniteSet(({h(0)} \cup {h(1)}) \cup {h(2)}) /\ Cardinality(({h(0)} \cup {h(1)}) \cup {h(2)}) = 3
    BY <2>2, <2>4, FS_AddElement
  <2> QED
    BY <2>1, <2>2, <2>5, FS_AddElement
<1> QED
  BY <1>6, <1>7, <1>8 DEF H

-----------------------------------------------------------------------------
(* The groups of HARQ indicators take three halves each.                   *)

FreeHalves(rbs, cell) == (0..(2 * rbs - 1)) \ PcfichHalves(rbs, cell)
FreeList(rbs, cell) == Ascending(FreeHalves(rbs, cell), 2 * rbs)

\* The halves the PCFICH has left, in order
LEMMA FreeIsListed ==
  ASSUME NEW rbs \in Bandwidths, NEW cell \in CellIds
  PROVE  /\ FreeList(rbs, cell) \in Seq(Nat) /\ Len(FreeList(rbs, cell)) = 2 * rbs - 4
         /\ \A n \in 1..(2 * rbs - 4) : FreeList(rbs, cell)[n] \in FreeHalves(rbs, cell)
         /\ \A m, n \in 1..(2 * rbs - 4) : m < n => FreeList(rbs, cell)[m] # FreeList(rbs, cell)[n]
<1> DEFINE H == PcfichHalves(rbs, cell)
           B == 0..(2 * rbs - 1)
           F == FreeHalves(rbs, cell)
           f == FreeList(rbs, cell)
<1>0. rbs \in Nat /\ rbs >= 6 /\ 2 * rbs \in Nat
  BY DEF Bandwidths
<1>1. H \subseteq B /\ IsFiniteSet(H) /\ Cardinality(H) = 4
  BY PcfichIsMarked
<1>2. IsFiniteSet(B) /\ Cardinality(B) = 2 * rbs
  <2>1. 0 \in Int /\ 2 * rbs - 1 \in Int /\ ~(0 > 2 * rbs - 1) /\ (2 * rbs - 1) - 0 + 1 = 2 * rbs
    BY <1>0
  <2> QED
    BY <2>1, FS_Interval
<1>3. F = B \ H /\ B \cap H = H
  BY <1>1 DEF FreeHalves
<1> HIDE DEF H
<1>4. IsFiniteSet(F) /\ Cardinality(F) = 2 * rbs - 4
  <2>1. IsFiniteSet(B \ H) /\ Cardinality(B \ H) = Cardinality(B) - Cardinality(B \cap H)
    BY <1>2, FS_Difference
  <2> QED
    BY <1>1, <1>2, <1>3, <2>1
<1>5. ListsUp(f, F)
  <2>1. ListsUp(f, F \cap 0..(2 * rbs - 1))
    BY <1>0, AscendingLists DEF FreeList
  <2>2. F \cap 0..(2 * rbs - 1) = F
    BY <1>3
  <2> QED
    BY <2>1, <2>2
<1> HIDE DEF f, F, B
<1>6. Len(f) = 2 * rbs - 4
  BY <1>4, <1>5, ListCounts
<1>7. f \in Seq(Nat) /\ {f[i] : i \in 1..Len(f)} = F /\ \A i, j \in 1..Len(f) : i < j => f[i] < f[j]
  BY <1>5 DEF ListsUp
<1>8. ASSUME NEW m \in 1..(2 * rbs - 4), NEW n \in 1..(2 * rbs - 4), m < n PROVE f[m] # f[n]
  <2>1. f[m] < f[n] /\ f[m] \in Nat
    BY <1>6, <1>7, <1>8
  <2> QED
    BY <2>1
<1>9. \A n \in 1..(2 * rbs - 4) : f[n] \in F
  BY <1>6, <1>7
<1> QED
  BY <1>6, <1>7, <1>8, <1>9 DEF f, F

\* One turn marks a half that is free.
LEMMA GroupIsMarked ==
  ASSUME NEW rbs \in Bandwidths, NEW cell \in CellIds, NEW two, NEW nbar \in 0..(2 * rbs - 5)
  PROVE  LET one == HalvesMarked(PcfichHalves(rbs, cell), cell)
         IN MarkPhichGroup([one |-> one, two |-> two], rbs, cell, nbar)
              = [one |-> one, two |-> two \cup HalvesMarked({FreeList(rbs, cell)[nbar + 1]}, cell)]
<1> DEFINE H == PcfichHalves(rbs, cell)
           one == HalvesMarked(H, cell)
           r == [one |-> one, two |-> two]
           shift == cell % 3
           K == {q \in 0..(2 * rbs - 1) : q * 6 + shift + 1 \notin one}
           free == Ascending(K, 2 * rbs)
           marked == {6 * free[nbar + 1] + j : j \in PhichQuad(shift)}
           f == FreeList(rbs, cell)
           z == f[nbar + 1]
<1>0. rbs \in Nat /\ rbs >= 6 /\ 2 * rbs \in Nat /\ cell \in Nat /\ shift \in {0, 1, 2}
  BY QuadAvoids DEF Bandwidths
<1>1. r.one = one /\ r.two = two
  OBVIOUS
<1>2. LET all == IF nbar >= Len(free) THEN {} ELSE marked
      IN MarkPhichGroup(r, rbs, cell, nbar) = [one |-> one \ all, two |-> two \cup all]
  <2> HIDE DEF r, one
  <2> QED
    BY <1>1, Zenon DEF MarkPhichGroup
<1>3. H \subseteq 0..(2 * rbs - 1)
  BY PcfichIsMarked
<1>4. \A k \in Nat : k \in one <=> k \div 6 \in H /\ (k % 3) # shift
  <2>1. H \subseteq Nat
    BY <1>3
  <2> HIDE DEF H
  <2> QED
    BY <2>1, MarkedIs
<1> HIDE DEF H, one, shift
<1>5. K = FreeHalves(rbs, cell)
  <2>1. ASSUME NEW q \in 0..(2 * rbs - 1) PROVE q * 6 + shift + 1 \in one <=> q \in H
    <3> DEFINE k == q * 6 + shift + 1
    <3>1. k \in Nat /\ k \div 6 = q /\ (k % 3) # shift
      BY <1>0
    <3> HIDE DEF k
    <3> QED
      BY <1>4, <3>1 DEF k
  <2>2. FreeHalves(rbs, cell) = (0..(2 * rbs - 1)) \ H
    BY DEF FreeHalves, H
  <2> QED
    BY <2>1, <2>2
<1> HIDE DEF K
<1>6. free = f
  BY <1>5 DEF FreeList
<1> HIDE DEF free
<1>7. Len(f) = 2 * rbs - 4 /\ z \in FreeHalves(rbs, cell)
  <2>1. nbar + 1 \in 1..(2 * rbs - 4)
    BY <1>0
  <2> QED
    BY <2>1, FreeIsListed
<1>8. z \in Nat /\ z \notin H
  BY <1>7 DEF FreeHalves, H
<1>9. ~(nbar >= Len(free))
  BY <1>0, <1>6, <1>7
<1> HIDE DEF z, f
<1>10. marked = HalvesMarked({z}, cell)
  <2>1. free[nbar + 1] = z
    BY <1>6 DEF z
  <2>2. HalvesMarked({z}, cell) = {6 * z + j : j \in PhichQuad(shift)}
    BY DEF HalvesMarked, shift
  <2> QED
    BY <2>1, <2>2
<1> HIDE DEF marked
<1>11. one \ marked = one
  <2>1. one \subseteq Nat
    <3>1. H \subseteq Nat
      BY <1>3
    <3> QED
      BY <3>1, MarkedIs DEF one
  <2>2. \A k \in Nat : k \in marked => k \div 6 = z
    BY <1>8, <1>10, MarkedIs
  <2> QED
    BY <1>4, <1>8, <2>1, <2>2
<1>12. MarkPhichGroup(r, rbs, cell, nbar) = [one |-> one, two |-> two \cup marked]
  BY <1>2, <1>9, <1>11
<1> QED
  BY <1>10, <1>12, Zenon DEF r, z, f, one, H

\* A shift that wraps around keeps places apart.
LEMMA ShiftsApart ==
  ASSUME NEW len \in Nat \ {0}, NEW c \in Nat, NEW x \in 0..(len - 1), NEW y \in 0..(len - 1),
         (c + x) % len = (c + y) % len
  PROVE  x = y
<1> DEFINE q == (c + x) \div len
           p == (c + y) \div len
           r == (c + x) % len
           s == (c + y) % len
<1>1. /\ q \in Nat /\ r \in 0..(len - 1) /\ c + x = len * q + r
      /\ p \in Nat /\ s \in 0..(len - 1) /\ c + y = len * p + s
  <2>1. c + x \in Nat /\ c + y \in Nat
    OBVIOUS
  <2> QED
    BY <2>1, Division
<1>2. r = s
  OBVIOUS
<1> HIDE DEF q, p, r, s
<1>3. len * q \in Int /\ len * p \in Int
  BY <1>1
<1>4. len * p + x = len * q + y
  BY <1>1, <1>2, <1>3
<1>5. p \in Int /\ q \in Int
  BY <1>1
<1> QED
  BY <1>4, <1>5, OneQuotient

GroupsFit(g, len) == g \in Nat \ {0} /\ len \in Nat \ {0} /\ 3 * g <= len

\* The groups of a band fit in the halves that are left.
LEMMA GroupsOfBand ==
  ASSUME NEW rbs \in Bandwidths, NEW ng \in 0..3
  PROVE  GroupsFit(PhichGroups(rbs, ng), 2 * rbs - 4)
<1>1. rbs \in Nat /\ rbs >= 6
  BY DEF Bandwidths
<1>2. ng = 0 \/ ng = 1 \/ ng = 2 \/ ng = 3
  OBVIOUS
<1>3. PhichSixths[ng + 1] \in {1, 3, 6, 12}
  BY <1>2 DEF PhichSixths
<1> DEFINE y == PhichSixths[ng + 1]
           g == PhichGroups(rbs, ng)
<1>4. g = (rbs * y + 47) \div 48
  BY Zenon DEF PhichGroups
<1> HIDE DEF y, g
<1>5. rbs * y \in Nat /\ rbs * y <= 12 * rbs /\ rbs * y >= rbs
  BY <1>1, <1>3 DEF y
<1>6. g \in Nat \ {0} /\ 48 * g <= 12 * rbs + 47
  BY <1>1, <1>4, <1>5
<1> QED
  BY <1>1, <1>6 DEF GroupsFit, g

\* The offset of a group's turn from the cell's number
TurnOffset(len, n, i) == n + (i * len) \div 3

\* The quadruplets of the groups are apart before they are shifted by the cell.
LEMMA OffsetsApart ==
  ASSUME NEW g, NEW len, GroupsFit(g, len)
  PROVE  /\ \A n \in 0..(g - 1), i \in 0..2 : TurnOffset(len, n, i) \in 0..(len - 1)
         /\ \A n, m \in 0..(g - 1), i, j \in 0..2 :
              TurnOffset(len, n, i) = TurnOffset(len, m, j) => n = m /\ i = j
<1>1. g \in Nat \ {0} /\ len \in Nat \ {0} /\ 3 * g <= len
  BY DEF GroupsFit
<1>2. \A i \in 0..2 : i = 0 \/ i = 1 \/ i = 2
  OBVIOUS
<1>3. /\ (0 * len) \div 3 = 0 /\ (1 * len) \div 3 = len \div 3 /\ len \div 3 >= g
      /\ (2 * len) \div 3 >= len \div 3 + g /\ (2 * len) \div 3 + g <= len
      /\ len \div 3 \in Nat /\ (2 * len) \div 3 \in Nat
  BY <1>1
<1> QED
  BY <1>1, <1>2, <1>3 DEF TurnOffset

\* The number of a turn among the free halves
TurnNumber(rbs, cell, ng, t) ==
  NBar(rbs, cell, (t - 1) % PhichGroups(rbs, ng), (t - 1) \div PhichGroups(rbs, ng))

\* They stay apart when the cell shifts them.
LEMMA NumbersApart ==
  ASSUME NEW rbs \in Bandwidths, NEW cell \in CellIds, NEW ng \in 0..3
  PROVE  /\ \A t \in 1..(3 * PhichGroups(rbs, ng)) : TurnNumber(rbs, cell, ng, t) \in 0..(2 * rbs - 5)
         /\ \A s, t \in 1..(3 * PhichGroups(rbs, ng)) :
              TurnNumber(rbs, cell, ng, s) = TurnNumber(rbs, cell, ng, t) => s = t
<1> DEFINE g == PhichGroups(rbs, ng)
           len == 2 * rbs - 4
           N(t) == TurnNumber(rbs, cell, ng, t)
           n(t) == (t - 1) % g
           i(t) == (t - 1) \div g
           x(t) == TurnOffset(len, n(t), i(t))
<1>1. GroupsFit(g, len)
  BY GroupsOfBand
<1>2. g \in Nat \ {0} /\ len \in Nat \ {0} /\ rbs \in Nat /\ cell \in Nat
  BY <1>1 DEF GroupsFit, Bandwidths, CellIds
<1>3. \A t : N(t) = (cell + n(t) + (i(t) * len) \div 3) % len
  BY Zenon DEF TurnNumber, NBar
<1> HIDE DEF g, N
<1>4. ASSUME NEW t \in 1..(3 * g)
      PROVE  i(t) \in 0..2 /\ n(t) \in 0..(g - 1) /\ t - 1 = g * i(t) + n(t)
  <2>1. (t - 1) \div g \in 0..(3 - 1) /\ (t - 1) % g \in 0..(g - 1) /\ t - 1 = g * ((t - 1) \div g) + ((t - 1) % g)
    <3>1. g \in Nat \ {0} /\ 3 \in Nat
      BY <1>2
    <3> QED
      BY <3>1, TurnParts
  <2> QED
    BY <2>1
<1> HIDE DEF n, i
<1>5. ASSUME NEW t \in 1..(3 * g)
      PROVE  x(t) \in 0..(len - 1) /\ N(t) = (cell + x(t)) % len
  <2>1. i(t) \in 0..2 /\ n(t) \in 0..(g - 1)
    BY <1>4
  <2>2. x(t) \in 0..(len - 1)
    BY <1>1, <2>1, OffsetsApart
  <2>3. x(t) = n(t) + (i(t) * len) \div 3
    BY Zenon DEF TurnOffset
  <2>4. (i(t) * len) \div 3 \in Int /\ n(t) \in Int
    <3>1. i(t) = 0 \/ i(t) = 1 \/ i(t) = 2
      BY <2>1
    <3>2. n(t) \in Int
      BY <1>2, <2>1
    <3> QED
      BY <1>2, <3>1, <3>2
  <2> DEFINE v == (i(t) * len) \div 3
             u == n(t)
             w == x(t)
  <2>5. w = u + v /\ v \in Int /\ u \in Int
    BY <2>3, <2>4
  <2>6. N(t) = (cell + u + v) % len
    BY <1>3
  <2> HIDE DEF u, v, w
  <2>7. cell + u + v = cell + w
    BY <1>2, <2>5
  <2>8. N(t) = (cell + w) % len
    BY <2>6, <2>7
  <2> QED
    BY <2>2, <2>8 DEF w
<1>6. ASSUME NEW t \in 1..(3 * g) PROVE N(t) \in 0..(2 * rbs - 5)
  <2>1. x(t) \in 0..(len - 1) /\ N(t) = (cell + x(t)) % len
    BY <1>5
  <2> HIDE DEF x, len
  <2>2. cell + x(t) \in Nat
    BY <1>2, <2>1
  <2>3. (cell + x(t)) % len \in 0..(len - 1)
    BY <1>2, <2>2, Division
  <2>4. len - 1 = 2 * rbs - 5
    BY <1>2 DEF len
  <2> QED
    BY <2>1, <2>3, <2>4
<1>7. ASSUME NEW s \in 1..(3 * g), NEW t \in 1..(3 * g), N(s) = N(t) PROVE s = t
  <2>1. x(s) \in 0..(len - 1) /\ x(t) \in 0..(len - 1) /\ (cell + x(s)) % len = (cell + x(t)) % len
    BY <1>5, <1>7
  <2>2. x(s) = x(t)
    <3> HIDE DEF x, len
    <3> QED
      BY <1>2, <2>1, ShiftsApart
  <2>3. n(s) = n(t) /\ i(s) = i(t)
    <3> HIDE DEF len
    <3> QED
      BY <1>1, <1>4, <2>2, OffsetsApart
  <2>4. s - 1 = t - 1
    BY <1>4, <2>3
  <2> QED
    BY <2>4
<1> QED
  BY <1>6, <1>7 DEF g, N

\* The half that a turn marks
PhichHalf(rbs, cell, ng, t) == FreeList(rbs, cell)[TurnNumber(rbs, cell, ng, t) + 1]
PhichHalves(rbs, cell, ng, n) == {PhichHalf(rbs, cell, ng, t) : t \in 1..n}

\* The quadruplets of the PHICH take different halves that are free.
LEMMA HalvesApart ==
  ASSUME NEW rbs \in Bandwidths, NEW cell \in CellIds, NEW ng \in 0..3
  PROVE  /\ \A t \in 1..(3 * PhichGroups(rbs, ng)) : PhichHalf(rbs, cell, ng, t) \in FreeHalves(rbs, cell)
         /\ IsFiniteSet(PhichHalves(rbs, cell, ng, 3 * PhichGroups(rbs, ng)))
         /\ Cardinality(PhichHalves(rbs, cell, ng, 3 * PhichGroups(rbs, ng))) = 3 * PhichGroups(rbs, ng)
<1> DEFINE n == 3 * PhichGroups(rbs, ng)
           h(t) == PhichHalf(rbs, cell, ng, t)
           P == PhichHalves(rbs, cell, ng, n)
           N(t) == TurnNumber(rbs, cell, ng, t)
           f == FreeList(rbs, cell)
           len == 2 * rbs - 4
<1>1. n \in Nat
  <2>1. PhichGroups(rbs, ng) \in Nat
    BY GroupsOfBand DEF GroupsFit
  <2> QED
    BY <2>1
<1>2. /\ \A t \in 1..n : N(t) \in 0..(2 * rbs - 5)
      /\ \A s, t \in 1..n : N(s) = N(t) => s = t
  BY NumbersApart
<1>3. /\ \A m \in 1..len : f[m] \in FreeHalves(rbs, cell)
      /\ \A m, k \in 1..len : m < k => f[m] # f[k]
  BY FreeIsListed
<1>4. \A t : h(t) = f[N(t) + 1]
  BY Zenon DEF PhichHalf
<1>5. P = {h(t) : t \in 1..n}
  BY Zenon DEF PhichHalves
<1>6. rbs \in Nat
  BY DEF Bandwidths
<1> HIDE DEF n, h, P, N, f
<1>7. \A t \in 1..n : N(t) \in Nat /\ N(t) + 1 \in 1..len
  BY <1>2, <1>6
<1>8. \A m, k \in 1..len : f[m] = f[k] => m = k
  BY <1>3
<1> HIDE DEF len
<1>9. \A t \in 1..n : h(t) \in FreeHalves(rbs, cell)
  BY <1>3, <1>4, <1>7
<1>10. ASSUME NEW s \in 1..n, NEW t \in 1..n, h(s) = h(t) PROVE s = t
  <2>1. N(s) + 1 = N(t) + 1
    BY <1>4, <1>7, <1>8, <1>10
  <2>2. N(s) = N(t)
    BY <1>7, <2>1
  <2> QED
    BY <1>2, <2>2
<1> DEFINE b == [t \in 1..n |-> h(t)]
<1>11. b \in Bijection(1..n, P)
  <2>1. b \in [1..n -> P]
    BY <1>5
  <2>2. \A s, t \in 1..n : b[s] = b[t] => s = t
    BY <1>10
  <2>3. \A x \in P : \E t \in 1..n : b[t] = x
    BY <1>5
  <2> HIDE DEF b
  <2>4. b \in Injection(1..n, P)
    BY <2>1, <2>2 DEF Injection, IsInjective
  <2> QED
    BY <2>1, <2>3, <2>4 DEF Bijection, Surjection
<1>12. IsFiniteSet(P) /\ Cardinality(P) = n
  <2>1. ExistsBijection(1..n, P)
    BY <1>11 DEF ExistsBijection
  <2> QED
    BY <1>1, <2>1, FS_CountingElements, FS_NatBijection
<1> QED
  BY <1>9, <1>12 DEF n, h, P

\* lte_gen_phich_indices marks them all and takes nothing from the indicator.
PhichMarks(rbs, cell, ng, two) ==
  [one |-> HalvesMarked(PcfichHalves(rbs, cell), cell),
   two |-> two \cup HalvesMarked(PhichHalves(rbs, cell, ng, 3 * PhichGroups(rbs, ng)), cell)]

\* lte_phich marks three halves for each group.
LEMMA PhichIsMarked ==
  ASSUME NEW rbs \in Bandwidths, NEW cell \in CellIds, NEW ng \in 0..3, NEW two
  PROVE  MarkPhich([one |-> HalvesMarked(PcfichHalves(rbs, cell), cell), two |-> two], rbs, cell, ng)
           = PhichMarks(rbs, cell, ng, two)
<1> DEFINE g == PhichGroups(rbs, ng)
           n == 3 * g
           one == HalvesMarked(PcfichHalves(rbs, cell), cell)
           first == [one |-> one, two |-> two]
           N(t) == NBar(rbs, cell, (t - 1) % g, (t - 1) \div g)
           Mark(r, t) == MarkPhichGroup(r, rbs, cell, N(t))
           Runs(f) == f = [t \in 0..n |-> IF t = 0 THEN first ELSE Mark(f[t - 1], t)]
           map == CHOOSE f : Runs(f)
           H(t) == HalvesMarked(PhichHalves(rbs, cell, ng, t), cell)
           m == [t \in 0..n |-> [one |-> one, two |-> two \cup H(t)]]
<1>1. n \in Nat
  <2>1. g \in Nat
    BY GroupsOfBand DEF GroupsFit
  <2> QED
    BY <2>1
<1>2. MarkPhich(first, rbs, cell, ng) = map[n]
  BY Zenon DEF MarkPhich
<1>3. ASSUME NEW t \in 1..n, NEW X PROVE Mark([one |-> one, two |-> X], t)
                       = [one |-> one, two |-> X \cup HalvesMarked({PhichHalf(rbs, cell, ng, t)}, cell)]
  <2>1. N(t) = TurnNumber(rbs, cell, ng, t)
    BY Zenon DEF TurnNumber
  <2>2. N(t) \in 0..(2 * rbs - 5)
    BY <2>1, NumbersApart, Zenon
  <2> HIDE DEF N
  <2>3. Mark([one |-> one, two |-> X], t) = [one |-> one, two |-> X \cup HalvesMarked({FreeList(rbs, cell)[N(t) + 1]}, cell)]
    BY <2>2, GroupIsMarked, Zenon
  <2> QED
    BY <2>1, <2>3, Zenon DEF PhichHalf
<1> HIDE DEF N
<1>4. H(0) = {}
  <2>1. PhichHalves(rbs, cell, ng, 0) = {}
    BY DEF PhichHalves
  <2> QED
    BY <2>1 DEF HalvesMarked
<1>5. ASSUME NEW t \in 1..n PROVE H(t) = H(t - 1) \cup HalvesMarked({PhichHalf(rbs, cell, ng, t)}, cell)
  <2>1. t \in Nat \ {0}
    BY <1>1
  <2>2. 1..t = 1..(t - 1) \cup {t}
    BY <2>1, OneMore, Zenon
  <2>3. PhichHalves(rbs, cell, ng, t) = PhichHalves(rbs, cell, ng, t - 1) \cup {PhichHalf(rbs, cell, ng, t)}
    BY <2>2 DEF PhichHalves
  <2> QED
    BY <2>3 DEF HalvesMarked
<1> HIDE DEF H, n, one, Mark
<1>6. Runs(m)
  <2>1. m[0] = first
    BY <1>1, <1>4
  <2>2. ASSUME NEW t \in 1..n PROVE m[t] = Mark(m[t - 1], t)
    <3>1. t \in 0..n /\ t - 1 \in 0..n
      BY <1>1
    <3>2. m[t - 1] = [one |-> one, two |-> two \cup H(t - 1)] /\ m[t] = [one |-> one, two |-> two \cup H(t)]
      BY <3>1
    <3> HIDE DEF m
    <3>3. Mark(m[t - 1], t) = [one |-> one, two |-> (two \cup H(t - 1)) \cup HalvesMarked({PhichHalf(rbs, cell, ng, t)}, cell)]
      BY <1>3, <3>2, Zenon
    <3>4. two \cup H(t) = (two \cup H(t - 1)) \cup HalvesMarked({PhichHalf(rbs, cell, ng, t)}, cell)
      BY <1>5
    <3> QED
      BY <3>2, <3>3, <3>4, Zenon
  <2>3. \A t \in 0..n : m[t] = IF t = 0 THEN first ELSE Mark(m[t - 1], t)
    <3>1. \A t \in 0..n : t # 0 => t \in 1..n
      BY <1>1
    <3> HIDE DEF m, first
    <3> QED
      BY <2>1, <2>2, <3>1, Zenon
  <2>4. m = [t \in 0..n |-> m[t]]
    OBVIOUS
  <2> HIDE DEF m, first
  <2> QED
    BY <2>3, <2>4
<1>7. Runs(map)
  <2> HIDE DEF Runs, m
  <2> QED
    BY <1>6, Zenon
<1> HIDE DEF m, map, first
<1>8. /\ m[0] = first /\ map[0] = first
      /\ \A t \in 1..n : m[t] = Mark(m[t - 1], t) /\ map[t] = Mark(map[t - 1], t)
  BY <1>1, <1>6, <1>7
<1> DEFINE Agree == {t \in 0..n : map[t] = m[t]}
<1>9. 0 \in Agree
  BY <1>1, <1>8
<1>10. \A t \in 1..n : t - 1 \in Agree => t \in Agree
  BY <1>1, <1>8
<1> HIDE DEF Agree
<1>11. 0..n \subseteq Agree
  BY <1>1, <1>9, <1>10, ClimbTo, Zenon
<1>12. n \in 0..n
  BY <1>1
<1>13. map[n] = m[n]
  BY <1>11, <1>12 DEF Agree
<1>14. m[n] = [one |-> one, two |-> two \cup H(n)]
  BY <1>12 DEF m
<1> QED
  BY <1>2, <1>13, <1>14, Zenon DEF PhichMarks, first, one, H, n

\* The halves that both indicators take
TakenHalves(rbs, cell, ng) ==
  PcfichHalves(rbs, cell) \cup PhichHalves(rbs, cell, ng, 3 * PhichGroups(rbs, ng))

ControlMark(rbs, cell, ng) == MarkPhich(MarkPcfich(NothingReserved, rbs, cell), rbs, cell, ng)

MarksApart(mark, rbs, cell, ng) ==
  /\ Cardinality(mark.one) = PcfichSymbols /\ Cardinality(mark.two) = 12 * PhichGroups(rbs, ng)
  /\ mark.one \cap mark.two = {}
  /\ MarkPhich(mark, rbs, cell, ng) = mark
  /\ mark.one \cup mark.two = HalvesMarked(TakenHalves(rbs, cell, ng), cell)
  /\ TakenHalves(rbs, cell, ng) \subseteq 0..(2 * rbs - 1) /\ IsFiniteSet(TakenHalves(rbs, cell, ng))
  /\ Cardinality(TakenHalves(rbs, cell, ng)) = 4 + 3 * PhichGroups(rbs, ng)

\* The PCFICH and the PHICH mark halves that are apart.
LEMMA ControlIsMarked ==
  ASSUME NEW rbs \in Bandwidths, NEW cell \in CellIds, NEW ng \in 0..3
  PROVE  MarksApart(ControlMark(rbs, cell, ng), rbs, cell, ng)
<1> DEFINE g == PhichGroups(rbs, ng)
           H == PcfichHalves(rbs, cell)
           P == PhichHalves(rbs, cell, ng, 3 * g)
           Q == TakenHalves(rbs, cell, ng)
           one == HalvesMarked(H, cell)
           two == HalvesMarked(P, cell)
           mark == [one |-> one, two |-> two]
           B == 0..(2 * rbs - 1)
<1>1. MarkPcfich(NothingReserved, rbs, cell) = [one |-> one, two |-> {}]
  <2>1. PcfichElements(rbs, cell) = one
    BY PcfichIsMarked
  <2> HIDE DEF one
  <2>2. NothingReserved.one = {} /\ NothingReserved.two = {}
    BY DEF NothingReserved
  <2>3. MarkPcfich(NothingReserved, rbs, cell)
          = [one |-> NothingReserved.one \cup one, two |-> NothingReserved.two \ one]
    BY <2>1, Zenon DEF MarkPcfich
  <2> QED
    BY <2>2, <2>3
<1>2. \A X : MarkPhich([one |-> one, two |-> X], rbs, cell, ng) = [one |-> one, two |-> X \cup two]
  BY PhichIsMarked, Zenon DEF PhichMarks
<1>3. H \subseteq B /\ IsFiniteSet(H) /\ Cardinality(H) = 4
  BY PcfichIsMarked
<1>4. IsFiniteSet(P) /\ Cardinality(P) = 3 * g
  BY HalvesApart
<1>5. P \subseteq B /\ H \cap P = {}
  <2>1. \A t \in 1..(3 * g) : PhichHalf(rbs, cell, ng, t) \in FreeHalves(rbs, cell)
    BY HalvesApart
  <2>2. P \subseteq FreeHalves(rbs, cell)
    BY <2>1, Zenon DEF PhichHalves
  <2>3. FreeHalves(rbs, cell) = B \ H
    BY DEF FreeHalves
  <2> HIDE DEF P, B, H
  <2> QED
    BY <2>2, <2>3
<1>6. Q = H \cup P
  BY Zenon DEF TakenHalves
<1>7. g \in Nat
  BY GroupsOfBand DEF GroupsFit
<1>8. B \subseteq Nat
  OBVIOUS
<1> HIDE DEF g, H, P, Q, B
<1>9. H \subseteq Nat /\ P \subseteq Nat
  BY <1>3, <1>5, <1>8
<1>10. Cardinality(one) = 16
  <2>1. Cardinality(one) = 4 * Cardinality(H)
    BY <1>3, <1>9, MarkedCount, Zenon
  <2> QED
    BY <1>3, <1>9, <2>1
<1>11. Cardinality(two) = 12 * g
  <2>1. Cardinality(two) = 4 * Cardinality(P)
    BY <1>4, <1>7, <1>9, MarkedCount, Zenon
  <2> QED
    BY <1>4, <1>7, <1>9, <2>1
<1>12. one \cap two = {}
  <2>1. one \subseteq Nat /\ two \subseteq Nat
    BY <1>9, MarkedIs
  <2>2. \A k \in Nat : k \in one => k \div 6 \in H
    BY <1>9, MarkedIs
  <2>3. \A k \in Nat : k \in two => k \div 6 \in P
    BY <1>9, MarkedIs
  <2> HIDE DEF one, two
  <2> QED
    BY <1>5, <2>1, <2>2, <2>3
<1>13. one \cup two = HalvesMarked(Q, cell)
  BY <1>6 DEF HalvesMarked
<1> HIDE DEF one, two
<1>14. ControlMark(rbs, cell, ng) = mark /\ MarkPhich(mark, rbs, cell, ng) = mark
  <2>1. {} \cup two = two /\ two \cup two = two
    OBVIOUS
  <2> QED
    BY <1>1, <1>2, <2>1, Zenon DEF ControlMark
<1>15. mark.one = one /\ mark.two = two
  OBVIOUS
<1> HIDE DEF mark
<1>16. IsFiniteSet(Q) /\ Cardinality(Q) = 4 + 3 * g
  <2>1. Cardinality({}) = 0
    BY FS_EmptySet
  <2> QED
    BY <1>3, <1>4, <1>5, <1>6, <1>7, <2>1, FS_Union
<1>17. Q \subseteq B
  BY <1>3, <1>5, <1>6
<1> QED
  BY <1>10, <1>11, <1>12, <1>13, <1>14, <1>15, <1>16, <1>17, Zenon DEF MarksApart, PcfichSymbols, g, Q, B

-----------------------------------------------------------------------------
(* Where a block of the control region is read.                            *)

\* Where symbol 0 is read, if the halves are taken or not
BlockStarts(lower, upper, shift) ==
  (IF lower THEN {0} ELSE {}) \cup (IF upper THEN {IF ~lower /\ shift = 2 THEN 5 ELSE 6} ELSE {})

\* A taken element of a block
TakenOf(lower, upper, shift, sc) == (IF sc < 6 THEN ~lower ELSE ~upper) /\ (sc % 3) # shift

\* The least of some places, and those six places later
StartsIn(free) == {sc \in free : (\A other \in free : sc <= other) \/ (\E other \in free : sc >= other + 6)}
FreeOf(lower, upper, shift) ==
  {sc \in 0..6 : ~TakenOf(lower, upper, shift, sc) /\ ~TakenOf(lower, upper, shift, sc + 1)}

\* The first symbol of a block is read from where its halves are free.
LEMMA StartsOfBlock ==
  ASSUME NEW lower \in BOOLEAN, NEW upper \in BOOLEAN, NEW shift \in {0, 1, 2}
  PROVE  StartsIn(FreeOf(lower, upper, shift)) = BlockStarts(lower, upper, shift)
<1> DEFINE free == FreeOf(lower, upper, shift)
           Is(sc) == (\A other \in free : sc <= other) \/ (\E other \in free : sc >= other + 6)
<1>1. CASE lower /\ upper
  <2>1. free = {0, 1, 2, 3, 4, 5, 6}
    BY <1>1 DEF TakenOf, FreeOf
  <2> HIDE DEF free
  <2>2. \A sc \in free : Is(sc) <=> sc \in {0, 6}
    BY <2>1
  <2>3. StartsIn(free) = {0, 6}
    BY <2>1, <2>2 DEF StartsIn
  <2> QED
    BY <1>1, <2>3 DEF BlockStarts, free
<1>2. CASE lower /\ ~upper
  <2>1. free \subseteq {0, 1, 2, 3, 4, 5} /\ 0 \in free
    BY <1>2 DEF TakenOf, FreeOf
  <2> HIDE DEF free
  <2>2. \A sc \in free : Is(sc) <=> sc = 0
    BY <2>1
  <2>3. StartsIn(free) = {0}
    BY <2>1, <2>2 DEF StartsIn
  <2> QED
    BY <1>2, <2>3 DEF BlockStarts, free
<1>3. CASE ~lower /\ upper
  <2> DEFINE least == IF shift = 2 THEN 5 ELSE 6
  <2>1. free = {least, 6}
    BY <1>3 DEF TakenOf, FreeOf
  <2>2. least \in {5, 6}
    OBVIOUS
  <2> HIDE DEF free, least
  <2>3. \A sc \in free : Is(sc) <=> sc = least
    BY <2>1, <2>2
  <2>4. StartsIn(free) = {least}
    BY <2>1, <2>3 DEF StartsIn
  <2> QED
    BY <1>3, <2>4 DEF BlockStarts, free, least
<1>4. CASE ~lower /\ ~upper
  <2>1. free = {}
    BY <1>4 DEF TakenOf, FreeOf
  <2> HIDE DEF free
  <2>2. StartsIn(free) = {}
    BY <2>1 DEF StartsIn
  <2> QED
    BY <1>4, <2>2 DEF BlockStarts, free
<1> QED
  BY <1>1, <1>2, <1>3, <1>4

\* Which halves of a block are left
LowerLeft(Q, rb) == 2 * rb \notin Q
UpperLeft(Q, rb) == 2 * rb + 1 \notin Q

\* A subcarrier is reserved when its half is.
LEMMA TakenInBlock ==
  ASSUME NEW cell \in CellIds, NEW Q, Q \subseteq Nat, NEW reserve,
         reserve.one \cup reserve.two = HalvesMarked(Q, cell), NEW rb \in Nat, NEW sc \in 0..7
  PROVE  Reserved(reserve, rb * RbLen + sc) <=> TakenOf(LowerLeft(Q, rb), UpperLeft(Q, rb), cell % 3, sc)
<1> DEFINE k == rb * RbLen + sc
           s == cell % 3
<1>1. s \in {0, 1, 2}
  BY QuadAvoids
<1> HIDE DEF s
<1>2. k \in Nat /\ (k % 3) = sc % 3 /\ k \div 6 = IF sc < 6 THEN 2 * rb ELSE 2 * rb + 1
  <2>1. k = 12 * rb + sc /\ k \in Nat
    BY DEF RbLen
  <2> HIDE DEF k
  <2>2. k % 3 = sc % 3
    <3> DEFINE a == sc \div 3
               r == sc % 3
    <3>1. a \in Nat /\ r \in 0..2 /\ sc = 3 * a + r
      BY Division
    <3> HIDE DEF a, r
    <3> DEFINE b == k \div 3
               t == k % 3
    <3>2. b \in Nat /\ t \in 0..2 /\ k = 3 * b + t
      BY <2>1, Division
    <3> HIDE DEF b, t
    <3>3. t = r
      BY <2>1, <3>1, <3>2
    <3> QED
      BY <3>3 DEF r, t
  <2>3. CASE sc < 6
    <3>1. 2 * rb \in Nat /\ 6 * (2 * rb) <= k /\ k < 6 * (2 * rb) + 6
      BY <2>1, <2>3
    <3>2. k \div 6 = 2 * rb
      BY <2>1, <3>1, QuotientIs
    <3> QED
      BY <2>1, <2>2, <2>3, <3>2
  <2>4. CASE ~(sc < 6)
    <3>1. 2 * rb + 1 \in Nat /\ 6 * (2 * rb + 1) <= k /\ k < 6 * (2 * rb + 1) + 6
      BY <2>1, <2>4
    <3>2. k \div 6 = 2 * rb + 1
      BY <2>1, <3>1, QuotientIs
    <3> QED
      BY <2>1, <2>2, <2>4, <3>2
  <2> QED
    BY <2>3, <2>4
<1> HIDE DEF k
<1>3. k \in HalvesMarked(Q, cell) <=> k \div 6 \in Q /\ (k % 3) # s
  BY <1>2, MarkedIs DEF s
<1>4. Reserved(reserve, k) <=> k \in HalvesMarked(Q, cell)
  BY Zenon DEF Reserved
<1> QED
  BY <1>2, <1>3, <1>4 DEF TakenOf, LowerLeft, UpperLeft, k, s

\* The places of symbol 0 that pdcch_extract_syms starts from
FirstIs(first, rbs, cell, Q) ==
  \A rb \in 0..(rbs - 1), sc \in 0..11 :
     rb * RbLen + sc \in first <=> sc \in BlockStarts(LowerLeft(Q, rb), UpperLeft(Q, rb), cell % 3)

\* Quadruplets of the first symbol start at halves that are free.
LEMMA FirstStartsAre ==
  ASSUME NEW rbs \in Nat, NEW cell \in CellIds, NEW Q, Q \subseteq Nat, NEW reserve,
         reserve.one \cup reserve.two = HalvesMarked(Q, cell)
  PROVE  FirstIs(FirstSymbolStarts(rbs, reserve), rbs, cell, Q)
<1> DEFINE F(rb) == FreePlaces(rbs, rb, reserve)
           S(rb) == StartsIn(F(rb))
           B(rb) == BlockStarts(LowerLeft(Q, rb), UpperLeft(Q, rb), cell % 3)
<1>1. FirstSymbolStarts(rbs, reserve) = UNION {{rb * RbLen + sc : sc \in S(rb)} : rb \in 0..(rbs - 1)}
  BY Zenon DEF FirstSymbolStarts, StartsIn
<1>2. ASSUME NEW rb \in 0..(rbs - 1) PROVE S(rb) = B(rb)
  <2> DEFINE lower == LowerLeft(Q, rb)
             upper == UpperLeft(Q, rb)
             s == cell % 3
             T(sc) == TakenOf(lower, upper, s, sc)
  <2>1. lower \in BOOLEAN /\ upper \in BOOLEAN /\ s \in {0, 1, 2}
    BY QuadAvoids DEF LowerLeft, UpperLeft
  <2>2. ASSUME NEW sc \in 0..6
        PROVE  /\ Reserved(reserve, rb * RbLen + sc) <=> T(sc)
               /\ Reserved(reserve, rb * RbLen + sc + 1) <=> T(sc + 1)
    <3>1. sc \in 0..7 /\ sc + 1 \in 0..7 /\ rb \in Nat /\ rb * RbLen + sc + 1 = rb * RbLen + (sc + 1)
      BY DEF RbLen
    <3> HIDE DEF T
    <3> QED
      BY <3>1, TakenInBlock DEF T
  <2>3. F(rb) = FreeOf(lower, upper, s)
    <3>1. FreeOf(lower, upper, s) = {sc \in 0..6 : ~T(sc) /\ ~T(sc + 1)}
      BY Zenon DEF FreeOf
    <3>2. F(rb) = {sc \in 0..6 : ~Reserved(reserve, rb * RbLen + sc) /\ ~Reserved(reserve, rb * RbLen + sc + 1)}
      BY Zenon DEF FreePlaces
    <3> HIDE DEF T, F
    <3> QED
      BY <2>2, <3>1, <3>2
  <2> HIDE DEF lower, upper, s, F
  <2>4. S(rb) = BlockStarts(lower, upper, s)
    BY <2>1, <2>3, StartsOfBlock, Zenon
  <2> QED
    BY <2>4 DEF lower, upper, s
<1> HIDE DEF S
<1>3. \A rb : B(rb) \subseteq {0, 5, 6}
  BY DEF BlockStarts
<1> HIDE DEF B
<1>4. ASSUME NEW rb \in 0..(rbs - 1), NEW sc \in 0..11
      PROVE  rb * RbLen + sc \in FirstSymbolStarts(rbs, reserve) <=> sc \in B(rb)
  <2>1. ASSUME NEW other \in 0..(rbs - 1), NEW x \in B(other), rb * RbLen + sc = other * RbLen + x
        PROVE  sc \in B(rb)
    <3>1. x \in {0, 5, 6}
      BY <1>3
    <3>2. other = rb /\ x = sc
      BY <2>1, <3>1 DEF RbLen
    <3> QED
      BY <3>2
  <2> QED
    BY <1>1, <1>2, <2>1
<1> QED
  BY <1>4 DEF FirstIs, B

-----------------------------------------------------------------------------
(* A group is four elements.                                               *)

Place == Nat \X Nat

\* A function on the first numbers is a sequence.
LEMMA IsSequence ==
  ASSUME NEW n \in Nat, NEW S, NEW q \in [1..n -> S]
  PROVE  q \in Seq(S) /\ Len(q) = n
<1>1. q \in Seq(S)
  OBVIOUS
<1> QED
  BY <1>1

FourOf(q, l, base, a, b, c, d) ==
  /\ q \in Seq(Place) /\ Len(q) = 4
  /\ q[1] = <<l, base + a>> /\ q[2] = <<l, base + b>> /\ q[3] = <<l, base + c>> /\ q[4] = <<l, base + d>>

\* Four subcarriers are four elements.
LEMMA FourCount ==
  ASSUME NEW q, NEW l \in Nat, NEW base \in Nat, NEW a \in Nat, NEW b \in Nat, NEW c \in Nat, NEW d \in Nat,
         a < b, b < c, c < d, FourOf(q, l, base, a, b, c, d)
  PROVE  /\ \A e : e \in ToSet(q) <=> \E x \in {a, b, c, d} : e = <<l, base + x>>
         /\ IsFiniteSet(ToSet(q)) /\ Cardinality(ToSet(q)) = 4
<1>1. q \in Seq(Place) /\ Len(q) = 4 /\ q[1] = <<l, base + a>> /\ q[2] = <<l, base + b>> /\ q[3] = <<l, base + c>>
      /\ q[4] = <<l, base + d>>
  BY DEF FourOf
<1>2. DOMAIN q = {1, 2, 3, 4}
  <2>1. DOMAIN q = 1..4
    BY <1>1
  <2> QED
    BY <2>1
<1>3. ToSet(q) = (({q[1]} \cup {q[2]}) \cup {q[3]}) \cup {q[4]}
  BY <1>2 DEF ToSet
<1>4. q[1] # q[2] /\ q[1] # q[3] /\ q[1] # q[4] /\ q[2] # q[3] /\ q[2] # q[4] /\ q[3] # q[4]
  <2>1. \A x, y \in Nat : x < y => <<l, base + x>> # <<l, base + y>>
    OBVIOUS
  <2>2. a < c /\ a < d /\ b < d
    OBVIOUS
  <2> QED
    BY <1>1, <2>1, <2>2, Zenon
<1>5. \A e : e \in ToSet(q) <=> \E x \in {a, b, c, d} : e = <<l, base + x>>
  <2>1. \A e : e \in ToSet(q) <=> e = q[1] \/ e = q[2] \/ e = q[3] \/ e = q[4]
    BY <1>3
  <2> QED
    BY <1>1, <2>1, Zenon
<1>6. IsFiniteSet(ToSet(q)) /\ Cardinality(ToSet(q)) = 4
  <2> DEFINE w == q[1]
             x == q[2]
             y == q[3]
             z == q[4]
  <2>1. IsFiniteSet({w}) /\ Cardinality({w}) = 1
    BY FS_Singleton
  <2> HIDE DEF w, x, y, z
  <2>2. w # x /\ w # y /\ w # z /\ x # y /\ x # z /\ y # z
    BY <1>4 DEF w, x, y, z
  <2>3. IsFiniteSet({w} \cup {x}) /\ Cardinality({w} \cup {x}) = 2
    BY <2>1, <2>2, FS_AddElement
  <2>4. IsFiniteSet(({w} \cup {x}) \cup {y}) /\ Cardinality(({w} \cup {x}) \cup {y}) = 3
    BY <2>2, <2>3, FS_AddElement
  <2>5. IsFiniteSet((({w} \cup {x}) \cup {y}) \cup {z}) /\ Cardinality((({w} \cup {x}) \cup {y}) \cup {z}) = 4
    BY <2>2, <2>4, FS_AddElement
  <2> QED
    BY <1>3, <2>5, Zenon DEF w, x, y, z
<1> QED
  BY <1>5, <1>6

\* Group(e) of Extract, the symbol and the subcarrier apart
GroupAt(cell, l, k) ==
  LET quad == IF l = 0 THEN QuadFrom(cell, k % RbLen) ELSE <<0, 1, 2, 3>>
  IN [j \in DOMAIN quad |-> <<l, k + quad[j]>>]

\* What a group in symbol l stands for: a half of a block, or a third
UnitOf(l, k) == IF l = 0 THEN 6 * (k \div 6) ELSE 4 * (k \div 4)
GroupRead(q, cell, l, unit) ==
  /\ q \in Seq(Place) /\ Len(q) = 4
  /\ IsFiniteSet(ToSet(q)) /\ Cardinality(ToSet(q)) = 4
  /\ \A e : e \in ToSet(q) <=> \E k \in Nat : e = <<l, k>> /\ UnitOf(l, k) = unit /\ (l = 0 => (k % 3) # cell % 3)
  /\ q[1][1] = l /\ UnitOf(l, q[1][2]) = unit

\* A quadruplet of a later symbol is four neighbours.
LEMMA LaterGroupIs ==
  ASSUME NEW cell \in CellIds, NEW l \in Nat \ {0}, NEW k \in Nat, k % 4 = 0
  PROVE  GroupRead(GroupAt(cell, l, k), cell, l, k)
<1> DEFINE q == GroupAt(cell, l, k)
<1>1. q = [j \in DOMAIN <<0, 1, 2, 3>> |-> <<l, k + <<0, 1, 2, 3>>[j]>>]
  BY DEF GroupAt
<1>2. FourOf(q, l, k, 0, 1, 2, 3)
  <2>1. DOMAIN <<0, 1, 2, 3>> = 1..4
    OBVIOUS
  <2>2. q = [j \in 1..4 |-> <<l, k + <<0, 1, 2, 3>>[j]>>]
    BY <1>1, <2>1
  <2> HIDE DEF q
  <2>3. \A j \in 1..4 : <<0, 1, 2, 3>>[j] \in Nat
    OBVIOUS
  <2>4. q \in [1..4 -> Place]
    BY <2>2, <2>3 DEF Place
  <2>5. q \in Seq(Place) /\ Len(q) = 4
    <3>1. 4 \in Nat
      OBVIOUS
    <3> QED
      BY <2>4, <3>1, IsSequence, Zenon
  <2>6. q[1] = <<l, k + 0>> /\ q[2] = <<l, k + 1>> /\ q[3] = <<l, k + 2>> /\ q[4] = <<l, k + 3>>
    BY <2>2
  <2> QED
    BY <2>5, <2>6, Zenon DEF FourOf
<1> HIDE DEF q
<1>3. /\ \A e : e \in ToSet(q) <=> \E x \in {0, 1, 2, 3} : e = <<l, k + x>>
      /\ IsFiniteSet(ToSet(q)) /\ Cardinality(ToSet(q)) = 4
  <2>1. l \in Nat /\ 0 \in Nat /\ 1 \in Nat /\ 2 \in Nat /\ 3 \in Nat /\ 0 < 1 /\ 1 < 2 /\ 2 < 3
    OBVIOUS
  <2> QED
    BY <1>2, <2>1, FourCount, Zenon
<1>4. \A n \in Nat : UnitOf(l, n) = k <=> \E x \in {0, 1, 2, 3} : n = k + x
  BY DEF UnitOf
<1>5. \A x \in {0, 1, 2, 3} : k + x \in Nat
  OBVIOUS
<1>6. \A e : e \in ToSet(q) <=> \E n \in Nat : e = <<l, n>> /\ UnitOf(l, n) = k /\ (l = 0 => (n % 3) # cell % 3)
  BY <1>3, <1>4, <1>5
<1>7. q[1][1] = l /\ q[1][2] = k
  BY <1>2 DEF FourOf
<1>8. UnitOf(l, k) = k
  BY DEF UnitOf
<1>9. q \in Seq(Place) /\ Len(q) = 4
  BY <1>2 DEF FourOf
<1> QED
  BY <1>3, <1>6, <1>7, <1>8, <1>9 DEF GroupRead, q

\* The subcarriers from where a group of symbol 0 starts
FirstFour(cell, k, half) ==
  \/ cell % 3 = 0 /\ FourOf(GroupAt(cell, 0, k), 0, half, 1, 2, 4, 5)
  \/ cell % 3 = 1 /\ FourOf(GroupAt(cell, 0, k), 0, half, 0, 2, 3, 5)
  \/ cell % 3 = 2 /\ FourOf(GroupAt(cell, 0, k), 0, half, 0, 1, 3, 4)

\* A quadruplet of the first symbol is four of the places after its start.
LEMMA FourFrom ==
  ASSUME NEW cell, NEW k \in Nat, NEW a \in Nat, NEW b \in Nat, NEW c \in Nat, NEW d \in Nat,
         QuadFrom(cell, k % RbLen) = <<a, b, c, d>>
  PROVE  FourOf(GroupAt(cell, 0, k), 0, k, a, b, c, d)
<1> DEFINE q == GroupAt(cell, 0, k)
           f == <<a, b, c, d>>
<1>1. q = [j \in DOMAIN f |-> <<0, k + f[j]>>]
  BY Zenon DEF GroupAt
<1>2. f \in Seq(Nat) /\ Len(f) = 4 /\ DOMAIN f = 1..4 /\ f[1] = a /\ f[2] = b /\ f[3] = c /\ f[4] = d
      /\ \A j \in 1..4 : f[j] \in Nat
  OBVIOUS
<1> HIDE DEF f, q
<1>3. q = [j \in 1..4 |-> <<0, k + f[j]>>]
  BY <1>1, <1>2
<1>4. q \in Seq(Place) /\ Len(q) = 4
  <2>1. 4 \in Nat
    OBVIOUS
  <2>2. ASSUME NEW j \in 1..4 PROVE <<0, k + f[j]>> \in Place
    <3>1. f[j] \in Nat
      BY <1>2, Zenon
    <3>2. k + f[j] \in Nat
      BY <3>1
    <3> QED
      BY <3>2 DEF Place
  <2>3. q \in [1..4 -> Place]
    BY <1>3, <2>2
  <2> QED
    BY <2>1, <2>3, IsSequence, Zenon
<1>5. q[1] = <<0, k + a>> /\ q[2] = <<0, k + b>> /\ q[3] = <<0, k + c>> /\ q[4] = <<0, k + d>>
  <2>1. 1 \in 1..4 /\ 2 \in 1..4 /\ 3 \in 1..4 /\ 4 \in 1..4
    OBVIOUS
  <2>2. \A j \in 1..4 : q[j] = <<0, k + f[j]>>
    BY <1>3
  <2> QED
    BY <1>2, <2>1, <2>2
<1> QED
  BY <1>4, <1>5, Zenon DEF FourOf, q

\* Those are the four of its half that have no reference.
LEMMA FirstGroupFrom ==
  ASSUME NEW cell \in CellIds, NEW rb \in Nat, NEW sc \in {0, 5, 6}, sc = 5 => cell % 3 = 2
  PROVE  FirstFour(cell, rb * RbLen + sc, 12 * rb + (IF sc = 0 THEN 0 ELSE 6))
<1> DEFINE k == rb * RbLen + sc
           half == 12 * rb + (IF sc = 0 THEN 0 ELSE 6)
<1>1. k \in Nat /\ k % RbLen = sc
  BY DEF RbLen
<1>2. CASE sc \in {0, 6}
  <2>1. k = half
    BY <1>2 DEF RbLen
  <2>2. \/ cell % 3 = 0 /\ QuadFrom(cell, sc) = <<1, 2, 4, 5>>
        \/ cell % 3 = 1 /\ QuadFrom(cell, sc) = <<0, 2, 3, 5>>
        \/ cell % 3 = 2 /\ QuadFrom(cell, sc) = <<0, 1, 3, 4>>
    BY <1>2, QuadIsAround
  <2> HIDE DEF k, half
  <2>3. CASE cell % 3 = 0 /\ QuadFrom(cell, sc) = <<1, 2, 4, 5>>
    <3>1. FourOf(GroupAt(cell, 0, k), 0, k, 1, 2, 4, 5)
      BY <1>1, <2>3, FourFrom
    <3> QED
      BY <2>1, <2>3, <3>1 DEF FirstFour, k, half
  <2>4. CASE cell % 3 = 1 /\ QuadFrom(cell, sc) = <<0, 2, 3, 5>>
    <3>1. FourOf(GroupAt(cell, 0, k), 0, k, 0, 2, 3, 5)
      BY <1>1, <2>4, FourFrom
    <3> QED
      BY <2>1, <2>4, <3>1 DEF FirstFour, k, half
  <2>5. CASE cell % 3 = 2 /\ QuadFrom(cell, sc) = <<0, 1, 3, 4>>
    <3>1. FourOf(GroupAt(cell, 0, k), 0, k, 0, 1, 3, 4)
      BY <1>1, <2>5, FourFrom
    <3> QED
      BY <2>1, <2>5, <3>1 DEF FirstFour, k, half
  <2> QED
    BY <2>2, <2>3, <2>4, <2>5
<1>3. CASE sc = 5
  <2>1. cell \in Nat /\ cell % 3 = 2 /\ (0 + (cell % 6)) % 3 = cell % 3
    BY <1>3 DEF CellIds
  <2>2. 5 \in RefIndices(cell)
    BY <2>1 DEF RefIndices, V
  <2>3. QuadFrom(cell, 5) = <<1, 2, 4, 5>>
    <3>1. RefIndices(cell) = {2, 5, 8, 11}
      BY <2>1 DEF RefIndices, V
    <3>2. 5 + 1 \notin RefIndices(cell) /\ 5 + 2 \notin RefIndices(cell)
      BY <3>1
    <3> QED
      BY <2>2, <3>2, Zenon DEF QuadFrom
  <2>4. half = k + 1
    BY <1>3 DEF RbLen
  <2>5. k + 1 = half + 0 /\ k + 2 = half + 1 /\ k + 4 = half + 3 /\ k + 5 = half + 4
    BY <1>1, <2>4
  <2> HIDE DEF k, half
  <2>6. FourOf(GroupAt(cell, 0, k), 0, k, 1, 2, 4, 5)
    BY <1>1, <1>3, <2>3, FourFrom
  <2>7. FourOf(GroupAt(cell, 0, k), 0, half, 0, 1, 3, 4)
    BY <2>5, <2>6 DEF FourOf
  <2> QED
    BY <2>1, <2>7 DEF FirstFour, k, half
<1> QED
  BY <1>2, <1>3

\* A quadruplet of the first symbol is read around its references.
LEMMA FirstGroupIs ==
  ASSUME NEW cell \in CellIds, NEW rb \in Nat, NEW sc \in {0, 5, 6}, sc = 5 => cell % 3 = 2
  PROVE  GroupRead(GroupAt(cell, 0, rb * RbLen + sc), cell, 0, 12 * rb + (IF sc = 0 THEN 0 ELSE 6))
<1> DEFINE k == rb * RbLen + sc
           half == 12 * rb + (IF sc = 0 THEN 0 ELSE 6)
           q == GroupAt(cell, 0, k)
           s == cell % 3
<1>1. FirstFour(cell, k, half)
  BY FirstGroupFrom
<1>2. half \in Nat /\ (half % 6) = 0
  OBVIOUS
<1>3. PhichQuad(s) = {j \in 0..5 : (j % 3) # s}
  BY QuadAvoids
<1> HIDE DEF half, k
<1>4. \E a, b, c, d \in 0..5 : a < b /\ b < c /\ c < d /\ {a, b, c, d} = PhichQuad(s) /\ FourOf(q, 0, half, a, b, c, d)
  <2> HIDE DEF q, s
  <2>1. PhichQuad(0) = {1, 2, 4, 5} /\ PhichQuad(1) = {0, 2, 3, 5} /\ PhichQuad(2) = {0, 1, 3, 4}
    BY DEF PhichQuad
  <2>2. CASE s = 0 /\ FourOf(q, 0, half, 1, 2, 4, 5)
    BY <2>1, <2>2
  <2>3. CASE s = 1 /\ FourOf(q, 0, half, 0, 2, 3, 5)
    BY <2>1, <2>3
  <2>4. CASE s = 2 /\ FourOf(q, 0, half, 0, 1, 3, 4)
    BY <2>1, <2>4
  <2> QED
    BY <1>1, <2>2, <2>3, <2>4, Zenon DEF FirstFour, q, s
<1>5. PICK a \in 0..5, b \in 0..5, c \in 0..5, d \in 0..5 :
           a < b /\ b < c /\ c < d /\ {a, b, c, d} = PhichQuad(s) /\ FourOf(q, 0, half, a, b, c, d)
  BY <1>4
<1> HIDE DEF q, s
<1>6. /\ \A e : e \in ToSet(q) <=> \E x \in {a, b, c, d} : e = <<0, half + x>>
      /\ IsFiniteSet(ToSet(q)) /\ Cardinality(ToSet(q)) = 4
  <2>1. 0 \in Nat /\ a \in Nat /\ b \in Nat /\ c \in Nat /\ d \in Nat
    OBVIOUS
  <2> QED
    BY <1>2, <1>5, <2>1, FourCount
<1> DEFINE W == {a, b, c, d}
<1>7. W = {j \in 0..5 : (j % 3) # s}
  BY <1>3, <1>5
<1> HIDE DEF W
<1>8. \A x \in W : half + x \in Nat /\ UnitOf(0, half + x) = half /\ ((half + x) % 3) # s
  BY <1>2, <1>7 DEF UnitOf
<1>9. ASSUME NEW n \in Nat, UnitOf(0, n) = half, (n % 3) # s PROVE \E x \in W : n = half + x
  <2> DEFINE x == n - half
  <2>1. x \in 0..5 /\ (x % 3) # s /\ n = half + x
    BY <1>2, <1>9 DEF UnitOf
  <2> HIDE DEF x
  <2> QED
    BY <1>7, <2>1
<1>10. \A e : e \in ToSet(q) <=> \E n \in Nat : e = <<0, n>> /\ UnitOf(0, n) = half /\ (0 = 0 => (n % 3) # cell % 3)
  BY <1>6, <1>8, <1>9 DEF W, s
<1>11. q[1] = <<0, half + a>> /\ a \in W
  BY <1>5 DEF FourOf, W
<1>12. q[1][1] = 0 /\ UnitOf(0, q[1][2]) = half
  BY <1>8, <1>11
<1>13. q \in Seq(Place) /\ Len(q) = 4
  BY <1>5 DEF FourOf
<1> QED
  BY <1>6, <1>10, <1>12, <1>13 DEF GroupRead, q, k, half

\* The places of a block where a group starts, as they are counted
StartPlaces(cfi, lower, upper, shift) ==
  {n \in 0..(RbLen * cfi - 1) :
     IF n % cfi = 0 THEN n \div cfi \in BlockStarts(lower, upper, shift) ELSE (n \div cfi) % 4 = 0}

\* The same, one by one
FirstPlaces(cfi, lower, upper, shift) ==
  (IF lower THEN {0} ELSE {}) \cup (IF upper THEN {IF ~lower /\ shift = 2 THEN 5 * cfi ELSE 6 * cfi} ELSE {})
LaterPlaces(cfi) == CASE cfi = 1 -> {} [] cfi = 2 -> {1, 9, 17} [] cfi = 3 -> {1, 2, 13, 14, 25, 26}

StartCount(cfi, lower, upper) == (IF lower THEN 1 ELSE 0) + (IF upper THEN 1 ELSE 0) + 3 * (cfi - 1)

\* Quadruplets of a block start in the first symbol or in a later one.
LEMMA StartPlacesAre ==
  ASSUME NEW cfi \in 1..3, NEW lower \in BOOLEAN, NEW upper \in BOOLEAN, NEW shift
  PROVE  StartPlaces(cfi, lower, upper, shift) = FirstPlaces(cfi, lower, upper, shift) \cup LaterPlaces(cfi)
<1> DEFINE B == BlockStarts(lower, upper, shift)
           F == FirstPlaces(cfi, lower, upper, shift)
           S == StartPlaces(cfi, lower, upper, shift)
<1>1. B \subseteq {0, 5, 6} /\ F = {c * cfi : c \in B}
  BY DEF BlockStarts, FirstPlaces
<1>2. S = {n \in 0..(12 * cfi - 1) : IF n % cfi = 0 THEN n \div cfi \in B ELSE (n \div cfi) % 4 = 0}
  BY DEF StartPlaces, RbLen
<1> HIDE DEF B, F, S
<1>3. CASE cfi = 1
  <2>1. S = {n \in 0..11 : n \in B}
    BY <1>2, <1>3
  <2>2. F = B
    <3>1. \A c \in B : c * cfi = c
      BY <1>1, <1>3
    <3>2. F = {c : c \in B}
      BY <1>1, <3>1
    <3> QED
      BY <3>2
  <2> QED
    BY <1>1, <1>3, <2>1, <2>2 DEF LaterPlaces, F, S
<1>4. CASE cfi = 2
  <2>1. \A n \in 0..23 : n \in S <=> n \in F \/ n \in {1, 9, 17}
    BY <1>1, <1>2, <1>4
  <2>2. F \subseteq 0..23 /\ S \subseteq 0..23 /\ LaterPlaces(cfi) = {1, 9, 17}
    BY <1>1, <1>2, <1>4 DEF LaterPlaces
  <2> QED
    BY <2>1, <2>2 DEF F, S
<1>5. CASE cfi = 3
  <2>1. \A n \in 0..35 : n \in S <=> n \in F \/ n \in {1, 2, 13, 14, 25, 26}
    BY <1>1, <1>2, <1>5
  <2>2. F \subseteq 0..35 /\ S \subseteq 0..35 /\ LaterPlaces(cfi) = {1, 2, 13, 14, 25, 26}
    BY <1>1, <1>2, <1>5 DEF LaterPlaces
  <2> QED
    BY <2>1, <2>2 DEF F, S
<1> QED
  BY <1>3, <1>4, <1>5

\* A block has a quadruplet for each free half of the first symbol and three for later ones.
LEMMA StartsCount ==
  ASSUME NEW cfi \in 1..3, NEW lower \in BOOLEAN, NEW upper \in BOOLEAN, NEW shift
  PROVE  /\ IsFiniteSet(StartPlaces(cfi, lower, upper, shift))
         /\ Cardinality(StartPlaces(cfi, lower, upper, shift)) = StartCount(cfi, lower, upper)
<1> DEFINE w == IF ~lower /\ shift = 2 THEN 5 * cfi ELSE 6 * cfi
           L == LaterPlaces(cfi)
           A == L \cup (IF lower THEN {0} ELSE {})
           S == StartPlaces(cfi, lower, upper, shift)
<1>1. S = A \cup (IF upper THEN {w} ELSE {})
  <2>1. S = FirstPlaces(cfi, lower, upper, shift) \cup L
    BY StartPlacesAre
  <2> HIDE DEF S, L
  <2> QED
    BY <2>1 DEF FirstPlaces
<1>2. IsFiniteSet(L) /\ Cardinality(L) = 3 * (cfi - 1)
  <2>1. CASE cfi = 1
    <3>1. L = {} /\ 3 * (cfi - 1) = 0
      BY <2>1 DEF LaterPlaces
    <3> QED
      BY <3>1, FS_EmptySet
  <2>2. CASE cfi = 2
    <3>1. L = ({1} \cup {9}) \cup {17} /\ 3 * (cfi - 1) = 3
      BY <2>2 DEF LaterPlaces
    <3>2. IsFiniteSet({1}) /\ Cardinality({1}) = 1
      BY FS_Singleton
    <3>3. IsFiniteSet({1} \cup {9}) /\ Cardinality({1} \cup {9}) = 2
      BY <3>2, FS_AddElement
    <3> QED
      BY <3>1, <3>3, FS_AddElement
  <2>3. CASE cfi = 3
    <3>1. L = (((({1} \cup {2}) \cup {13}) \cup {14}) \cup {25}) \cup {26} /\ 3 * (cfi - 1) = 6
      BY <2>3 DEF LaterPlaces
    <3>2. IsFiniteSet({1}) /\ Cardinality({1}) = 1
      BY FS_Singleton
    <3>3. IsFiniteSet({1} \cup {2}) /\ Cardinality({1} \cup {2}) = 2
      BY <3>2, FS_AddElement
    <3>4. IsFiniteSet(({1} \cup {2}) \cup {13}) /\ Cardinality(({1} \cup {2}) \cup {13}) = 3
      BY <3>3, FS_AddElement
    <3>5. IsFiniteSet((({1} \cup {2}) \cup {13}) \cup {14}) /\ Cardinality((({1} \cup {2}) \cup {13}) \cup {14}) = 4
      BY <3>4, FS_AddElement
    <3>6. /\ IsFiniteSet(((({1} \cup {2}) \cup {13}) \cup {14}) \cup {25})
          /\ Cardinality(((({1} \cup {2}) \cup {13}) \cup {14}) \cup {25}) = 5
      BY <3>5, FS_AddElement
    <3> QED
      BY <3>1, <3>6, FS_AddElement
  <2> QED
    BY <2>1, <2>2, <2>3
<1>3. 0 \notin L /\ w \notin L /\ w # 0
  <2>1. CASE cfi = 1
    BY <2>1 DEF LaterPlaces
  <2>2. CASE cfi = 2
    BY <2>2 DEF LaterPlaces
  <2>3. CASE cfi = 3
    BY <2>3 DEF LaterPlaces
  <2> QED
    BY <2>1, <2>2, <2>3
<1> HIDE DEF L, w, S
<1>4. IsFiniteSet(A) /\ Cardinality(A) = 3 * (cfi - 1) + (IF lower THEN 1 ELSE 0)
  <2>1. CASE lower
    <3>1. A = L \cup {0}
      BY <2>1
    <3> QED
      BY <1>2, <1>3, <2>1, <3>1, FS_AddElement
  <2>2. CASE ~lower
    BY <1>2, <2>2
  <2> QED
    BY <2>1, <2>2
<1>5. w \notin A
  BY <1>3
<1> HIDE DEF A
<1>6. CASE upper
  <2>1. S = A \cup {w}
    BY <1>1, <1>6
  <2>2. IsFiniteSet(S) /\ Cardinality(S) = Cardinality(A) + 1
    BY <1>4, <1>5, <2>1, FS_AddElement
  <2> DEFINE y == IF lower THEN 1 ELSE 0
             z == 3 * (cfi - 1)
  <2>3. StartCount(cfi, lower, upper) = y + 1 + z
    BY <1>6 DEF StartCount
  <2>4. Cardinality(S) = (z + y) + 1 /\ y \in Nat /\ z \in Nat
    BY <1>4, <2>2
  <2> HIDE DEF y, z
  <2> QED
    BY <2>2, <2>3, <2>4 DEF S
<1>7. CASE ~upper
  <2>1. S = A
    BY <1>1, <1>7
  <2> QED
    BY <1>4, <1>7, <2>1 DEF StartCount, S
<1> QED
  BY <1>6, <1>7

\* The group that starts at a place of a block, and what it stands for
BlockGroup(cell, cfi, rb, n) == GroupAt(cell, n % cfi, rb * RbLen + n \div cfi)
BlockUnit(cfi, rb, n) == 12 * rb + (IF n % cfi = 0 THEN (IF n = 0 THEN 0 ELSE 6) ELSE n \div cfi)
\* The place it is read at, if symbol 0 is read from the half
PlaceRead(cfi, n) == IF n = 5 * cfi THEN 6 * cfi ELSE n

\* What is read from each start
LEMMA BlockGroupIs ==
  ASSUME NEW cell \in CellIds, NEW cfi \in 1..3, NEW rb \in Nat, NEW lower \in BOOLEAN, NEW upper \in BOOLEAN,
         NEW n \in StartPlaces(cfi, lower, upper, cell % 3)
  PROVE  /\ GroupRead(BlockGroup(cell, cfi, rb, n), cell, n % cfi, BlockUnit(cfi, rb, n))
         /\ cfi * BlockUnit(cfi, rb, n) + (n % cfi) = (12 * cfi) * rb + PlaceRead(cfi, n)
         /\ n \in 0..(12 * cfi - 1) /\ PlaceRead(cfi, n) \in 0..(12 * cfi - 1)
<1> DEFINE l == n % cfi
           sc == n \div cfi
           s == cell % 3
<1>1. n \in 0..(12 * cfi - 1) /\ IF l = 0 THEN sc \in BlockStarts(lower, upper, s) ELSE (sc % 4) = 0
  BY DEF StartPlaces, RbLen
<1>2. cfi \in {1, 2, 3}
  OBVIOUS
<1>3. l \in 0..(cfi - 1) /\ sc \in 0..11 /\ n = cfi * sc + l
  <2>1. CASE cfi = 1
    BY <1>1, <2>1
  <2>2. CASE cfi = 2
    BY <1>1, <2>2
  <2>3. CASE cfi = 3
    BY <1>1, <2>3
  <2> QED
    BY <1>2, <2>1, <2>2, <2>3
<1>4. BlockGroup(cell, cfi, rb, n) = GroupAt(cell, l, rb * RbLen + sc)
  BY Zenon DEF BlockGroup
<1>5. BlockUnit(cfi, rb, n) = 12 * rb + (IF l = 0 THEN (IF n = 0 THEN 0 ELSE 6) ELSE sc)
  BY Zenon DEF BlockUnit
<1> HIDE DEF s
<1>6. CASE l = 0
  <2>1. sc \in {0, 5, 6} /\ (sc = 5 => s = 2)
    BY <1>1, <1>6 DEF BlockStarts
  <2>2. n = cfi * sc
    BY <1>2, <1>3, <1>6
  <2> HIDE DEF l, sc
  <2>3. n = 0 <=> sc = 0
    BY <1>2, <2>1, <2>2
  <2>4. GroupRead(GroupAt(cell, 0, rb * RbLen + sc), cell, 0, 12 * rb + (IF sc = 0 THEN 0 ELSE 6))
    BY <2>1, FirstGroupIs DEF s
  <2>5. BlockUnit(cfi, rb, n) = 12 * rb + (IF sc = 0 THEN 0 ELSE 6)
    BY <1>5, <1>6, <2>3
  <2>6. GroupRead(BlockGroup(cell, cfi, rb, n), cell, l, BlockUnit(cfi, rb, n))
    BY <1>4, <1>6, <2>4, <2>5, Zenon
  <2>7. n = 5 * cfi <=> sc = 5
    BY <1>2, <2>1, <2>2
  <2>8. PlaceRead(cfi, n) = cfi * (IF sc = 0 THEN 0 ELSE 6)
    BY <1>2, <2>1, <2>2, <2>7 DEF PlaceRead
  <2>9. cfi * BlockUnit(cfi, rb, n) + l = (12 * cfi) * rb + PlaceRead(cfi, n)
    BY <1>2, <1>6, <2>5, <2>8
  <2>10. PlaceRead(cfi, n) \in 0..(12 * cfi - 1)
    BY <1>2, <2>8
  <2> QED
    BY <1>1, <2>6, <2>9, <2>10 DEF l
<1>7. CASE l # 0
  <2>1. (sc % 4) = 0
    BY <1>1, <1>7
  <2> HIDE DEF sc
  <2> DEFINE k == rb * RbLen + sc
  <2>2. k \in Nat /\ (k % 4) = 0 /\ k = 12 * rb + sc
    BY <1>3, <2>1 DEF RbLen
  <2>3. l \in Nat \ {0}
    BY <1>3, <1>7
  <2> HIDE DEF l, k
  <2>4. GroupRead(GroupAt(cell, l, k), cell, l, k)
    BY <2>2, <2>3, LaterGroupIs
  <2>5. BlockUnit(cfi, rb, n) = k
    BY <1>5, <1>7, <2>2
  <2>6. GroupRead(BlockGroup(cell, cfi, rb, n), cell, l, BlockUnit(cfi, rb, n))
    BY <1>4, <2>4, <2>5, Zenon DEF k
  <2>7. n # 5 * cfi
    BY <1>2, <1>3, <1>7
  <2>8. PlaceRead(cfi, n) = n
    BY <2>7 DEF PlaceRead
  <2>9. cfi * BlockUnit(cfi, rb, n) + l = (12 * cfi) * rb + n
    BY <1>2, <1>3, <2>2, <2>5
  <2> QED
    BY <1>1, <2>6, <2>8, <2>9 DEF l
<1> QED
  BY <1>6, <1>7

\* They are read in the order of the places.
LEMMA PlacesClimb ==
  ASSUME NEW cfi \in 1..3, NEW lower \in BOOLEAN, NEW upper \in BOOLEAN, NEW shift,
         NEW m \in StartPlaces(cfi, lower, upper, shift), NEW n \in StartPlaces(cfi, lower, upper, shift), m < n
  PROVE  PlaceRead(cfi, m) < PlaceRead(cfi, n)
<1> DEFINE F == FirstPlaces(cfi, lower, upper, shift)
           L == LaterPlaces(cfi)
           w == IF ~lower /\ shift = 2 THEN 5 * cfi ELSE 6 * cfi
<1>1. m \in F \cup L /\ n \in F \cup L
  BY StartPlacesAre
<1>2. F \subseteq {0, w}
  BY DEF FirstPlaces
<1>3. w \in {5 * cfi, 6 * cfi}
  OBVIOUS
<1> HIDE DEF F, w
<1>4. CASE cfi = 1
  <2>1. L = {}
    BY <1>4 DEF LaterPlaces
  <2> QED
    BY <1>1, <1>2, <1>3, <1>4, <2>1 DEF PlaceRead
<1>5. CASE cfi = 2
  <2>1. L = {1, 9, 17}
    BY <1>5 DEF LaterPlaces
  <2> QED
    BY <1>1, <1>2, <1>3, <1>5, <2>1 DEF PlaceRead
<1>6. CASE cfi = 3
  <2>1. L = {1, 2, 13, 14, 25, 26}
    BY <1>6 DEF LaterPlaces
  <2> QED
    BY <1>1, <1>2, <1>3, <1>6, <2>1 DEF PlaceRead
<1> QED
  BY <1>4, <1>5, <1>6

\* The elements of a block that carry the control channel
InBlock(e, cell, cfi, rb, lower, upper) ==
  \E l \in 0..(cfi - 1), sc \in 0..11 :
     /\ e = <<l, 12 * rb + sc>>
     /\ l = 0 => (sc % 3) # cell % 3 /\ IF sc < 6 THEN lower ELSE upper

InBlockGroup(e, cell, cfi, rb, lower, upper) ==
  \E n \in StartPlaces(cfi, lower, upper, cell % 3) : e \in ToSet(BlockGroup(cell, cfi, rb, n))

\* What is read of a block is what is free of it.
LEMMA BlockIsExtracted ==
  ASSUME NEW cell \in CellIds, NEW cfi \in 1..3, NEW rb \in Nat, NEW lower \in BOOLEAN, NEW upper \in BOOLEAN, NEW e
  PROVE  InBlockGroup(e, cell, cfi, rb, lower, upper) <=> InBlock(e, cell, cfi, rb, lower, upper)
<1> DEFINE s == cell % 3
           S == StartPlaces(cfi, lower, upper, s)
           w == IF ~lower /\ s = 2 THEN 5 * cfi ELSE 6 * cfi
<1>1. S = FirstPlaces(cfi, lower, upper, s) \cup LaterPlaces(cfi)
  BY StartPlacesAre, Zenon
<1>2. /\ 0 \in S <=> lower
      /\ w \in S <=> upper
      /\ \A n \in S : (n % cfi) = 0 => n = 0 \/ n = w
      /\ w # 0 /\ (w % cfi) = 0
  <2>1. CASE cfi = 1
    BY <1>1, <2>1 DEF FirstPlaces, LaterPlaces
  <2>2. CASE cfi = 2
    BY <1>1, <2>2 DEF FirstPlaces, LaterPlaces
  <2>3. CASE cfi = 3
    BY <1>1, <2>3 DEF FirstPlaces, LaterPlaces
  <2> QED
    BY <2>1, <2>2, <2>3
<1>3. ASSUME NEW n \in S
      PROVE  /\ n \in 0..(12 * cfi - 1)
             /\ e \in ToSet(BlockGroup(cell, cfi, rb, n)) <=>
                  \E k \in Nat : /\ e = <<n % cfi, k>> /\ UnitOf(n % cfi, k) = BlockUnit(cfi, rb, n)
                                 /\ ((n % cfi) = 0 => (k % 3) # s)
  <2> DEFINE q == BlockGroup(cell, cfi, rb, n)
             l == n % cfi
             u == BlockUnit(cfi, rb, n)
  <2>1. GroupRead(q, cell, l, u) /\ n \in 0..(12 * cfi - 1)
    BY BlockGroupIs, Zenon
  <2> HIDE DEF q, l, u
  <2>2. \A x : x \in ToSet(q) <=> \E k \in Nat : x = <<l, k>> /\ UnitOf(l, k) = u /\ (l = 0 => (k % 3) # s)
    BY <2>1, Zenon DEF GroupRead
  <2>3. e \in ToSet(q) <=> \E k \in Nat : e = <<l, k>> /\ UnitOf(l, k) = u /\ (l = 0 => (k % 3) # s)
    BY <2>2, Zenon
  <2> QED
    BY <2>1, <2>3, Zenon DEF q, l, u
<1>4. ASSUME NEW n \in S, NEW k \in Nat, e = <<n % cfi, k>>, UnitOf(n % cfi, k) = BlockUnit(cfi, rb, n),
             (n % cfi) = 0 => (k % 3) # s
      PROVE  InBlock(e, cell, cfi, rb, lower, upper)
  <2> DEFINE l == n % cfi
             sc == k - 12 * rb
  <2>1. n \in 0..(12 * cfi - 1)
    BY <1>3
  <2>2. l \in 0..(cfi - 1) /\ n \div cfi \in 0..11 /\ (l # 0 => ((n \div cfi) % 4) = 0)
    <3>1. l # 0 => ((n \div cfi) % 4) = 0
      BY Zenon DEF StartPlaces
    <3>2. CASE cfi = 1
      BY <2>1, <3>1, <3>2
    <3>3. CASE cfi = 2
      BY <2>1, <3>1, <3>3
    <3>4. CASE cfi = 3
      BY <2>1, <3>1, <3>4
    <3> QED
      BY <3>2, <3>3, <3>4
  <2>3. BlockUnit(cfi, rb, n) = 12 * rb + (IF l = 0 THEN (IF n = 0 THEN 0 ELSE 6) ELSE n \div cfi)
    BY Zenon DEF BlockUnit
  <2>4. CASE l = 0
    <3>1. UnitOf(0, k) = 12 * rb + (IF n = 0 THEN 0 ELSE 6)
      BY <1>4, <2>3, <2>4
    <3>2. sc \in 0..11 /\ (sc % 3) = k % 3 /\ k = 12 * rb + sc /\ (sc < 6 <=> n = 0)
      BY <3>1 DEF UnitOf
    <3>3. IF sc < 6 THEN lower ELSE upper
      BY <1>2, <2>4, <3>2
    <3>4. (k % 3) # s /\ e = <<l, k>>
      BY <1>4, <2>4
    <3> HIDE DEF l, sc
    <3> QED
      BY <2>2, <3>2, <3>3, <3>4 DEF InBlock
  <2>5. CASE l # 0
    <3>1. UnitOf(l, k) = 12 * rb + n \div cfi
      BY <1>4, <2>3, <2>5
    <3>2. sc \in 0..11 /\ k = 12 * rb + sc
      BY <2>2, <2>5, <3>1 DEF UnitOf
    <3>3. e = <<l, k>>
      BY <1>4
    <3> HIDE DEF l, sc
    <3> QED
      BY <2>2, <2>5, <3>2, <3>3 DEF InBlock
  <2> QED
    BY <2>4, <2>5
<1>5. ASSUME InBlock(e, cell, cfi, rb, lower, upper) PROVE \E n \in S : e \in ToSet(BlockGroup(cell, cfi, rb, n))
  <2>1. PICK l \in 0..(cfi - 1), sc \in 0..11 :
               /\ e = <<l, 12 * rb + sc>>
               /\ l = 0 => (sc % 3) # s /\ IF sc < 6 THEN lower ELSE upper
    BY <1>5, Zenon DEF InBlock
  <2> DEFINE k == 12 * rb + sc
  <2>2. k \in Nat /\ (k % 3) = sc % 3
    OBVIOUS
  <2>3. CASE l = 0
    <3> DEFINE n == IF sc < 6 THEN 0 ELSE w
    <3>1. n \in S
      BY <1>2, <2>1, <2>3
    <3>2. (n % cfi) = 0 /\ (n = 0 <=> sc < 6)
      BY <1>2
    <3>3. UnitOf(0, k) = 12 * rb + (IF n = 0 THEN 0 ELSE 6)
      BY <3>2 DEF UnitOf
    <3>4. BlockUnit(cfi, rb, n) = UnitOf(0, k)
      BY <3>2, <3>3 DEF BlockUnit
    <3>5. (k % 3) # s /\ e = <<0, k>>
      BY <2>1, <2>2, <2>3
    <3> HIDE DEF n, k, w, S, s
    <3>6. e \in ToSet(BlockGroup(cell, cfi, rb, n))
      BY <1>3, <2>2, <3>1, <3>2, <3>4, <3>5
    <3> QED
      BY <3>1, <3>6
  <2>4. CASE l # 0
    <3> DEFINE c == 4 * (sc \div 4)
               n == c * cfi + l
    <3>1. c \in {0, 4, 8} /\ l \in Nat
      BY <2>1
    <3>2. n \in 0..(12 * cfi - 1) /\ (n % cfi) = l /\ n \div cfi = c
      <4>1. CASE cfi = 1
        BY <2>4, <3>1, <4>1
      <4>2. CASE cfi = 2
        BY <2>4, <3>1, <4>2
      <4>3. CASE cfi = 3
        BY <2>4, <3>1, <4>3
      <4> QED
        BY <4>1, <4>2, <4>3
    <3>3. UnitOf(l, k) = 12 * rb + c
      BY <2>4 DEF UnitOf
    <3>4. (c % 4) = 0
      BY <3>1
    <3> HIDE DEF c, n, k
    <3>5. n \in S
      BY <2>4, <3>2, <3>4 DEF StartPlaces, RbLen
    <3>6. BlockUnit(cfi, rb, n) = UnitOf(l, k)
      BY <2>4, <3>2, <3>3 DEF BlockUnit
    <3>7. e = <<l, k>>
      BY <2>1 DEF k
    <3> HIDE DEF S, s
    <3>8. e \in ToSet(BlockGroup(cell, cfi, rb, n))
      BY <1>3, <2>2, <2>4, <3>2, <3>5, <3>6, <3>7
    <3> QED
      BY <3>5, <3>8
  <2> QED
    BY <2>3, <2>4
<1>6. ASSUME NEW n \in S, e \in ToSet(BlockGroup(cell, cfi, rb, n)) PROVE InBlock(e, cell, cfi, rb, lower, upper)
  <2>1. PICK k \in Nat : /\ e = <<n % cfi, k>> /\ UnitOf(n % cfi, k) = BlockUnit(cfi, rb, n)
                         /\ ((n % cfi) = 0 => (k % 3) # s)
    BY <1>3, <1>6, Zenon
  <2> QED
    BY <1>4, <2>1, Zenon
<1>7. InBlockGroup(e, cell, cfi, rb, lower, upper) <=> \E n \in S : e \in ToSet(BlockGroup(cell, cfi, rb, n))
  BY Zenon DEF InBlockGroup
<1> HIDE DEF S
<1>8. (\E n \in S : e \in ToSet(BlockGroup(cell, cfi, rb, n))) => InBlock(e, cell, cfi, rb, lower, upper)
  BY <1>6, Zenon
<1>9. InBlock(e, cell, cfi, rb, lower, upper) => (\E n \in S : e \in ToSet(BlockGroup(cell, cfi, rb, n)))
  BY <1>5, Zenon
<1> QED
  BY <1>7, <1>8, <1>9, Zenon

-----------------------------------------------------------------------------
(* The groups of a block, in the order they are read.                      *)

Quads == {q \in Seq(Place) : Len(q) = 4}
\* Where a group is read (GroupPlace of ControlIsTiled)
QuadKey(cfi) == [q \in Quads |-> cfi * UnitOf(q[1][1], q[1][2]) + q[1][1]]

\* A group of symbol l, below cfi
IsGroup(q, cell, cfi) == \E l \in 0..(cfi - 1), unit \in Nat : GroupRead(q, cell, l, unit)

\* The first element of a quadruplet
LEMMA QuadHead ==
  ASSUME NEW q \in Quads
  PROVE  q[1][1] \in Nat /\ q[1][2] \in Nat /\ UnitOf(q[1][1], q[1][2]) \in Nat
<1> DEFINE l == q[1][1]
           k == q[1][2]
<1>1. q \in Seq(Place) /\ Len(q) = 4
  BY DEF Quads
<1>2. q[1] \in Place
  BY <1>1
<1>3. l \in Nat /\ k \in Nat
  BY <1>2 DEF Place
<1> HIDE DEF l, k
<1>4. UnitOf(l, k) \in Nat
  BY <1>3 DEF UnitOf
<1> QED
  BY <1>3, <1>4 DEF l, k

\* The place of a quadruplet in the order of 36.211 is a number.
LEMMA QuadKeys ==
  ASSUME NEW cfi \in 1..3
  PROVE  QuadKey(cfi) \in [Quads -> Int]
<1>1. ASSUME NEW q \in Quads PROVE cfi * UnitOf(q[1][1], q[1][2]) + q[1][1] \in Int
  <2> DEFINE l == q[1][1]
             u == UnitOf(q[1][1], q[1][2])
  <2>1. l \in Nat /\ u \in Nat
    BY QuadHead
  <2> HIDE DEF l, u
  <2>2. cfi * u + l \in Int
    BY <2>1
  <2> QED
    BY <2>2 DEF l, u
<1> QED
  BY <1>1 DEF QuadKey

\* The place of what is read
LEMMA GroupKey ==
  ASSUME NEW cell, NEW cfi, NEW l, NEW unit, NEW q, GroupRead(q, cell, l, unit)
  PROVE  q \in Quads /\ QuadKey(cfi)[q] = cfi * unit + l
<1>1. q \in Seq(Place) /\ Len(q) = 4 /\ q[1][1] = l /\ UnitOf(l, q[1][2]) = unit
  BY Zenon DEF GroupRead
<1>2. q \in Quads
  BY <1>1, Zenon DEF Quads
<1> QED
  BY <1>1, <1>2, Zenon DEF QuadKey

\* Groups that are read at different places have no element in common.
LEMMA GroupsApart ==
  ASSUME NEW cell, NEW cfi, NEW p, NEW q, IsGroup(p, cell, cfi), IsGroup(q, cell, cfi),
         NEW e, e \in ToSet(p), e \in ToSet(q)
  PROVE  QuadKey(cfi)[p] = QuadKey(cfi)[q]
<1>1. PICK l, u : GroupRead(p, cell, l, u)
  BY Zenon DEF IsGroup
<1>2. PICK m, v : GroupRead(q, cell, m, v)
  BY Zenon DEF IsGroup
<1>3. PICK j : e = <<l, j>> /\ UnitOf(l, j) = u
  BY <1>1, Zenon DEF GroupRead
<1>4. PICK k : e = <<m, k>> /\ UnitOf(m, k) = v
  BY <1>2, Zenon DEF GroupRead
<1>5. l = m /\ j = k
  BY <1>3, <1>4
<1>6. u = v
  BY <1>3, <1>4, <1>5, Zenon
<1>7. QuadKey(cfi)[p] = cfi * u + l
  BY <1>1, GroupKey
<1>8. QuadKey(cfi)[q] = cfi * v + m
  BY <1>2, GroupKey
<1> QED
  BY <1>5, <1>6, <1>7, <1>8, Zenon

BlockPlaces(cell, cfi, rb, Q) == StartPlaces(cfi, LowerLeft(Q, rb), UpperLeft(Q, rb), cell % 3)

BlockTurn(cell, cfi, rb, Q) ==
  LET starts == Ascending(BlockPlaces(cell, cfi, rb, Q), RbLen * cfi)
  IN [i \in DOMAIN starts |-> BlockGroup(cell, cfi, rb, starts[i])]

\* A list of groups of a block, in the order of their places
BlockListed(s, cell, cfi, rb, Q) ==
  /\ s \in Seq(Quads) /\ Climbs(s, QuadKey(cfi))
  /\ Len(s) = StartCount(cfi, LowerLeft(Q, rb), UpperLeft(Q, rb))
  /\ \A i \in 1..Len(s) : /\ IsGroup(s[i], cell, cfi)
                          /\ QuadKey(cfi)[s[i]] \in ((12 * cfi) * rb)..((12 * cfi) * rb + 12 * cfi - 1)
  /\ \A e : (\E i \in 1..Len(s) : e \in ToSet(s[i])) <=> InBlock(e, cell, cfi, rb, LowerLeft(Q, rb), UpperLeft(Q, rb))

\* The quadruplets of a block, in order, are its free elements.
LEMMA BlockIsListed ==
  ASSUME NEW cell \in CellIds, NEW cfi \in 1..3, NEW rb \in Nat, NEW Q
  PROVE  BlockListed(BlockTurn(cell, cfi, rb, Q), cell, cfi, rb, Q)
<1> DEFINE lower == LowerLeft(Q, rb)
           upper == UpperLeft(Q, rb)
           P == BlockPlaces(cell, cfi, rb, Q)
           starts == Ascending(P, RbLen * cfi)
           m == Len(starts)
           Of(n) == BlockGroup(cell, cfi, rb, n)
           At(n) == PlaceRead(cfi, n)
           base == (12 * cfi) * rb
           key == QuadKey(cfi)
           s == BlockTurn(cell, cfi, rb, Q)
<1>1. lower \in BOOLEAN /\ upper \in BOOLEAN
  BY DEF LowerLeft, UpperLeft
<1>2. P = StartPlaces(cfi, lower, upper, cell % 3)
  BY Zenon DEF BlockPlaces
<1>3. ListsUp(starts, P)
  <2>1. RbLen * cfi \in Nat
    BY DEF RbLen
  <2>2. P \cap 0..(RbLen * cfi - 1) = P
    <3>1. P \subseteq 0..(RbLen * cfi - 1)
      BY <1>2 DEF StartPlaces
    <3> HIDE DEF P
    <3> QED
      BY <3>1
  <2> HIDE DEF P
  <2> QED
    BY <2>1, <2>2, AscendingLists
<1>4. s = [i \in DOMAIN starts |-> Of(starts[i])]
  BY Zenon DEF BlockTurn
<1>5. \A n \in P : \E l \in 0..(cfi - 1) :
         /\ GroupRead(Of(n), cell, l, BlockUnit(cfi, rb, n))
         /\ cfi * BlockUnit(cfi, rb, n) + l = base + At(n)
         /\ At(n) \in 0..(12 * cfi - 1)
  <2> SUFFICES ASSUME NEW n \in P
               PROVE  \E l \in 0..(cfi - 1) :
                         /\ GroupRead(Of(n), cell, l, BlockUnit(cfi, rb, n))
                         /\ cfi * BlockUnit(cfi, rb, n) + l = base + At(n)
                         /\ At(n) \in 0..(12 * cfi - 1)
    OBVIOUS
  <2>1. /\ GroupRead(Of(n), cell, n % cfi, BlockUnit(cfi, rb, n))
        /\ cfi * BlockUnit(cfi, rb, n) + (n % cfi) = base + At(n)
        /\ n \in 0..(12 * cfi - 1) /\ At(n) \in 0..(12 * cfi - 1)
    <3>1. n \in StartPlaces(cfi, lower, upper, cell % 3)
      BY <1>2
    <3> HIDE DEF lower, upper, P
    <3> QED
      BY <1>1, <3>1, BlockGroupIs
  <2>2. n % cfi \in 0..(cfi - 1)
    BY <2>1
  <2> QED
    BY <2>1, <2>2, Zenon
<1>6. \A n \in P : BlockUnit(cfi, rb, n) \in Nat
  <2>1. \A n \in 0..(12 * cfi - 1) : n \div cfi \in Nat
    OBVIOUS
  <2>2. P \subseteq 0..(12 * cfi - 1)
    BY <1>2 DEF StartPlaces, RbLen
  <2> HIDE DEF P
  <2> QED
    BY <2>1, <2>2 DEF BlockUnit
<1>7. \A n \in P : Of(n) \in Quads /\ IsGroup(Of(n), cell, cfi) /\ key[Of(n)] = base + At(n) /\ At(n) \in 0..(12 * cfi - 1)
  <2> SUFFICES ASSUME NEW n \in P
               PROVE  Of(n) \in Quads /\ IsGroup(Of(n), cell, cfi) /\ key[Of(n)] = base + At(n) /\ At(n) \in 0..(12 * cfi - 1)
    OBVIOUS
  <2>1. PICK l \in 0..(cfi - 1) :
         /\ GroupRead(Of(n), cell, l, BlockUnit(cfi, rb, n))
         /\ cfi * BlockUnit(cfi, rb, n) + l = base + At(n)
         /\ At(n) \in 0..(12 * cfi - 1)
    BY <1>5
  <2>2. BlockUnit(cfi, rb, n) \in Nat
    BY <1>6
  <2> HIDE DEF Of, key, base, At, P
  <2>3. IsGroup(Of(n), cell, cfi)
    BY <2>1, <2>2, Zenon DEF IsGroup
  <2>4. Of(n) \in Quads /\ key[Of(n)] = cfi * BlockUnit(cfi, rb, n) + l
    BY <2>1, GroupKey DEF key
  <2> QED
    BY <2>1, <2>3, <2>4
<1>8. \A i, j \in P : i < j => At(i) < At(j)
  BY <1>1, <1>2, PlacesClimb
<1>9. IsFiniteSet(P) /\ Cardinality(P) = StartCount(cfi, lower, upper)
  BY <1>1, <1>2, StartsCount
<1>10. \A e : (\E n \in P : e \in ToSet(Of(n))) <=> InBlock(e, cell, cfi, rb, lower, upper)
  BY <1>1, <1>2, BlockIsExtracted DEF InBlockGroup
<1>11. m = StartCount(cfi, lower, upper) /\ m \in Nat /\ DOMAIN starts = 1..m /\ starts \in Seq(Nat)
  <2> HIDE DEF P, starts
  <2>1. Cardinality(P) = Len(starts)
    BY <1>3, ListCounts
  <2>2. starts \in Seq(Nat)
    BY <1>3 DEF ListsUp
  <2> QED
    BY <1>9, <2>1, <2>2
<1>12. (\A i \in 1..m : starts[i] \in P) /\ (\A n \in P : \E i \in 1..m : n = starts[i])
       /\ (\A i, j \in 1..m : i < j => starts[i] < starts[j])
  <2> HIDE DEF P, starts
  <2> QED
    BY <1>3 DEF ListsUp
<1> HIDE DEF P, starts, m, Of, At, base, key, s, lower, upper
<1>13. s = [i \in 1..m |-> Of(starts[i])]
  BY <1>4, <1>11
<1>14. s \in Seq(Quads) /\ Len(s) = m
  <2>1. s \in [1..m -> Quads]
    BY <1>7, <1>12, <1>13
  <2> QED
    BY <1>11, <2>1, IsSequence, Zenon
<1>15. \A i \in 1..m : s[i] = Of(starts[i])
  BY <1>13
<1>16. base \in Nat
  BY DEF base
<1>17. \A i \in 1..m : IsGroup(s[i], cell, cfi) /\ key[s[i]] = base + At(starts[i]) /\ At(starts[i]) \in 0..(12 * cfi - 1)
  BY <1>7, <1>12, <1>15
<1>18. Climbs(s, key)
  <2>1. \A i, j \in 1..m : i < j => key[s[i]] < key[s[j]]
    <3> SUFFICES ASSUME NEW i \in 1..m, NEW j \in 1..m, i < j PROVE key[s[i]] < key[s[j]]
      OBVIOUS
    <3>1. At(starts[i]) < At(starts[j])
      BY <1>8, <1>12
    <3> QED
      BY <1>16, <1>17, <3>1
  <2> QED
    BY <1>14, <2>1 DEF Climbs
<1>19. \A i \in 1..m : key[s[i]] \in base..(base + 12 * cfi - 1)
  BY <1>16, <1>17
<1>20. \A e : (\E i \in 1..m : e \in ToSet(s[i])) <=> InBlock(e, cell, cfi, rb, lower, upper)
  <2>1. \A e : (\E i \in 1..m : e \in ToSet(s[i])) <=> (\E n \in P : e \in ToSet(Of(n)))
    BY <1>12, <1>15, Zenon
  <2> QED
    BY <1>10, <2>1, Zenon
<1>21. \A i \in 1..m : IsGroup(s[i], cell, cfi)
  BY <1>17
<1> QED
  BY <1>11, <1>14, <1>18, <1>19, <1>20, <1>21, Zenon DEF BlockListed, base, key, s, lower, upper

-----------------------------------------------------------------------------
(* pdcch_extract_syms reads the blocks one after the other.                *)

\* Turn of Extract
ExtractTurn(rbs, cell, cfi, reserve, rb) ==
    LET first == FirstSymbolStarts(rbs, reserve)
        Starts(e) == IF e[1] = 0 THEN e[2] \in first ELSE e[2] % 4 = 0
        Quad(e)   == IF e[1] = 0 THEN QuadFrom(cell, e[2] % RbLen) ELSE <<0, 1, 2, 3>>
        Group(e)  == [j \in DOMAIN Quad(e) |-> <<e[1], e[2] + Quad(e)[j]>>]
        starts == Ascending({n \in 0..(RbLen * cfi - 1) : Starts(NthPlace(cfi, rb, n))}, RbLen * cfi)
    IN [i \in DOMAIN starts |-> Group(NthPlace(cfi, rb, starts[i]))]

\* The quadruplets are those of one block after the other.
LEMMA ExtractTurns ==
  ASSUME NEW rbs, NEW cell, NEW cfi, NEW reserve
  PROVE  Extract(rbs, cell, cfi, reserve) = FlattenSeq([n \in 1..rbs |-> ExtractTurn(rbs, cell, cfi, reserve, n - 1)])
  BY Zenon DEF Extract, ExtractTurn

\* The elements of the halves are marked.
HalvesAreMarked(reserve, Q, cell) == Q \subseteq Nat /\ reserve.one \cup reserve.two = HalvesMarked(Q, cell)

\* A block is read by which of its halves are marked.
LEMMA TurnIsOfBlock ==
  ASSUME NEW rbs \in Nat, NEW cell \in CellIds, NEW cfi \in 1..3, NEW Q, NEW reserve,
         HalvesAreMarked(reserve, Q, cell), NEW rb \in 0..(rbs - 1)
  PROVE  ExtractTurn(rbs, cell, cfi, reserve, rb) = BlockTurn(cell, cfi, rb, Q)
<1> DEFINE first == FirstSymbolStarts(rbs, reserve)
           Starts(e) == IF e[1] = 0 THEN e[2] \in first ELSE e[2] % 4 = 0
           Quad(e)   == IF e[1] = 0 THEN QuadFrom(cell, e[2] % RbLen) ELSE <<0, 1, 2, 3>>
           Group(e)  == [j \in DOMAIN Quad(e) |-> <<e[1], e[2] + Quad(e)[j]>>]
           At(n) == NthPlace(cfi, rb, n)
           K == RbLen * cfi
           W == {n \in 0..(K - 1) : Starts(At(n))}
           P == BlockPlaces(cell, cfi, rb, Q)
           lower == LowerLeft(Q, rb)
           upper == UpperLeft(Q, rb)
           B == BlockStarts(lower, upper, cell % 3)
<1>1. FirstIs(first, rbs, cell, Q)
  BY FirstStartsAre DEF HalvesAreMarked
<1> HIDE DEF first
<1>2. \A sc \in 0..11 : rb * RbLen + sc \in first <=> sc \in B
  BY <1>1, Zenon DEF FirstIs
<1>3. P = {n \in 0..(K - 1) : IF n % cfi = 0 THEN n \div cfi \in B ELSE (n \div cfi) % 4 = 0}
  BY Zenon DEF BlockPlaces, StartPlaces
<1>4. \A n : At(n)[1] = n % cfi /\ At(n)[2] = rb * RbLen + n \div cfi
  BY DEF NthPlace
<1>5. \A n \in 0..(K - 1) : n \div cfi \in 0..11
  <2>1. cfi \in {1, 2, 3}
    OBVIOUS
  <2>2. CASE cfi = 1
    BY <2>2 DEF RbLen
  <2>3. CASE cfi = 2
    BY <2>3 DEF RbLen
  <2>4. CASE cfi = 3
    BY <2>4 DEF RbLen
  <2> QED
    BY <2>1, <2>2, <2>3, <2>4
<1>6. \A sc \in 0..11 : (rb * RbLen + sc) % 4 = sc % 4
  BY DEF RbLen
<1> HIDE DEF At, K, B
<1>7. ASSUME NEW n \in 0..(K - 1)
      PROVE  Starts(At(n)) <=> IF n % cfi = 0 THEN n \div cfi \in B ELSE (n \div cfi) % 4 = 0
  <2> DEFINE sc == n \div cfi
             l == n % cfi
             k == rb * RbLen + sc
  <2>1. sc \in 0..11 /\ At(n)[1] = l /\ At(n)[2] = k
    BY <1>4, <1>5, Zenon
  <2>2. Starts(At(n)) <=> IF l = 0 THEN k \in first ELSE k % 4 = 0
    <3> HIDE DEF l, k
    <3> QED
      BY <2>1, Zenon
  <2>3. (k \in first <=> sc \in B) /\ k % 4 = sc % 4
    BY <1>2, <1>6, <2>1, Zenon
  <2> HIDE DEF sc, l, k, Starts
  <2>4. Starts(At(n)) <=> IF l = 0 THEN sc \in B ELSE sc % 4 = 0
    BY <2>2, <2>3
  <2> QED
    BY <2>4 DEF sc, l
<1>8. W = P
  <2> HIDE DEF Starts
  <2>1. W = {n \in 0..(K - 1) : IF n % cfi = 0 THEN n \div cfi \in B ELSE (n \div cfi) % 4 = 0}
    BY <1>7
  <2> QED
    BY <1>3, <2>1, Zenon
<1>9. \A n : Group(At(n)) = BlockGroup(cell, cfi, rb, n)
  <2> SUFFICES ASSUME NEW n PROVE Group(At(n)) = BlockGroup(cell, cfi, rb, n)
    OBVIOUS
  <2> DEFINE l == n % cfi
             k == rb * RbLen + n \div cfi
  <2>1. At(n)[1] = l /\ At(n)[2] = k
    BY <1>4, Zenon
  <2>2. BlockGroup(cell, cfi, rb, n) = GroupAt(cell, l, k)
    BY Zenon DEF BlockGroup
  <2> HIDE DEF l, k
  <2> DEFINE quad == IF l = 0 THEN QuadFrom(cell, k % RbLen) ELSE <<0, 1, 2, 3>>
  <2>3. Quad(At(n)) = quad
    BY <2>1, Zenon
  <2>4. GroupAt(cell, l, k) = [j \in DOMAIN quad |-> <<l, k + quad[j]>>]
    BY Zenon DEF GroupAt
  <2> HIDE DEF Quad, quad
  <2>5. Group(At(n)) = [j \in DOMAIN quad |-> <<l, k + quad[j]>>]
    BY <2>1, <2>3, Zenon
  <2> QED
    BY <2>2, <2>4, <2>5, Zenon
<1>10. ExtractTurn(rbs, cell, cfi, reserve, rb)
         = [i \in DOMAIN Ascending(W, K) |-> Group(At(Ascending(W, K)[i]))]
  BY Zenon DEF ExtractTurn, first, At, K
<1>11. BlockTurn(cell, cfi, rb, Q) = [i \in DOMAIN Ascending(P, K) |-> BlockGroup(cell, cfi, rb, Ascending(P, K)[i])]
  BY Zenon DEF BlockTurn, K
<1> HIDE DEF W, P, Group
<1> QED
  BY <1>8, <1>9, <1>10, <1>11, Zenon

\* The halves of the first blocks that are left
FreeTo(Q, t) == (0..(2 * t - 1)) \ Q

\* One more block adds its own free halves.
LEMMA FreeGrows ==
  ASSUME NEW Q, NEW t \in Nat \ {0}, IsFiniteSet(FreeTo(Q, t - 1))
  PROVE  /\ IsFiniteSet(FreeTo(Q, t))
         /\ Cardinality(FreeTo(Q, t))
              = Cardinality(FreeTo(Q, t - 1)) + (IF LowerLeft(Q, t - 1) THEN 1 ELSE 0) + (IF UpperLeft(Q, t - 1) THEN 1 ELSE 0)
<1> DEFINE a == 2 * (t - 1)
           b == a + 1
           F == FreeTo(Q, t - 1)
           G == F \cup (IF a \in Q THEN {} ELSE {a})
           y == IF LowerLeft(Q, t - 1) THEN 1 ELSE 0
           z == IF UpperLeft(Q, t - 1) THEN 1 ELSE 0
<1>1. a \in Nat /\ 2 * t - 1 = b /\ 2 * (t - 1) - 1 = a - 1
  OBVIOUS
<1>2. y = (IF a \in Q THEN 0 ELSE 1) /\ z = (IF b \in Q THEN 0 ELSE 1)
  BY DEF LowerLeft, UpperLeft
<1>3. F = (0..(a - 1)) \ Q /\ FreeTo(Q, t) = (0..b) \ Q
  BY <1>1, Zenon DEF FreeTo
<1> HIDE DEF a, F, y, z
<1>4. 0..b = (0..(a - 1)) \cup {a, b} /\ a \notin F /\ b \notin F /\ a # b
  BY <1>1, <1>3
<1>5. FreeTo(Q, t) = G \cup (IF b \in Q THEN {} ELSE {b})
  BY <1>3, <1>4
<1>6. IsFiniteSet(F) /\ Cardinality(F) \in Nat
  BY FS_CardinalityType DEF F
<1>7. IsFiniteSet(G) /\ Cardinality(G) = Cardinality(F) + y /\ b \notin G
  <2>1. CASE a \in Q
    BY <1>2, <1>4, <1>6, <2>1
  <2>2. CASE a \notin Q
    <3>1. G = F \cup {a}
      BY <2>2
    <3>2. IsFiniteSet(F \cup {a}) /\ Cardinality(F \cup {a}) = Cardinality(F) + 1
      BY <1>4, <1>6, FS_AddElement
    <3> QED
      BY <1>2, <1>4, <2>2, <3>1, <3>2
  <2> QED
    BY <2>1, <2>2
<1> HIDE DEF G, b
<1>8. IsFiniteSet(FreeTo(Q, t)) /\ Cardinality(FreeTo(Q, t)) = Cardinality(G) + z
  <2>1. Cardinality(G) \in Nat
    BY <1>7, FS_CardinalityType
  <2>2. CASE b \in Q
    BY <1>2, <1>5, <1>7, <2>1, <2>2
  <2>3. CASE b \notin Q
    <3>1. FreeTo(Q, t) = G \cup {b}
      BY <1>5, <2>3
    <3>2. IsFiniteSet(G \cup {b}) /\ Cardinality(G \cup {b}) = Cardinality(G) + 1
      BY <1>7, FS_AddElement
    <3> QED
      BY <1>2, <2>3, <3>1, <3>2
  <2> QED
    BY <2>2, <2>3
<1> QED
  BY <1>7, <1>8 DEF F, y, z

\* Free halves are finite.
LEMMA FreeIsFinite ==
  ASSUME NEW Q, NEW t \in Nat
  PROVE  IsFiniteSet(FreeTo(Q, t)) /\ Cardinality(FreeTo(Q, t)) \in Nat
<1>1. IsFiniteSet(0..(2 * t - 1))
  BY FS_Interval
<1>2. FreeTo(Q, t) \subseteq 0..(2 * t - 1)
  BY DEF FreeTo
<1>3. IsFiniteSet(FreeTo(Q, t))
  BY <1>1, <1>2, FS_Subset
<1> QED
  BY <1>3, FS_CardinalityType

\* There are as many free halves as are not marked.
LEMMA FreeCounts ==
  ASSUME NEW Q, NEW t \in Nat, Q \subseteq 0..(2 * t - 1), IsFiniteSet(Q), NEW n \in Nat, Cardinality(Q) = n
  PROVE  Cardinality(FreeTo(Q, t)) = 2 * t - n
<1> DEFINE S == 0..(2 * t - 1)
<1>1. IsFiniteSet(S) /\ Cardinality(S) = 2 * t
  <2>1. 0 \in Int /\ 2 * t - 1 \in Int
    OBVIOUS
  <2>2. IsFiniteSet(S) /\ Cardinality(S) = (IF 0 > 2 * t - 1 THEN 0 ELSE (2 * t - 1) - 0 + 1)
    BY <2>1, FS_Interval
  <2> HIDE DEF S
  <2> QED
    BY <2>2
<1> HIDE DEF S
<1>2. S \cap Q = Q
  BY DEF S
<1>3. FreeTo(Q, t) = S \ Q
  BY Zenon DEF FreeTo, S
<1>4. Cardinality(S \ Q) = Cardinality(S) - Cardinality(S \cap Q)
  BY <1>1, FS_Difference
<1> QED
  BY <1>1, <1>2, <1>3, <1>4, Zenon

\* The groups of all blocks
QuadsListed(quads, rbs, cell, cfi, Q) ==
  /\ quads \in Seq(Quads) /\ Climbs(quads, QuadKey(cfi))
  /\ \A i \in 1..Len(quads) : IsGroup(quads[i], cell, cfi)
  /\ \A e : (\E i \in 1..Len(quads) : e \in ToSet(quads[i]))
              <=> \E rb \in 0..(rbs - 1) : InBlock(e, cell, cfi, rb, LowerLeft(Q, rb), UpperLeft(Q, rb))
  /\ Len(quads) = 3 * (cfi - 1) * rbs + Cardinality(FreeTo(Q, rbs))

\* lte_pdcch reads block after block.
LEMMA ExtractIsOfBlocks ==
  ASSUME NEW rbs \in Nat, NEW cell \in CellIds, NEW cfi \in 1..3, NEW Q, NEW reserve,
         HalvesAreMarked(reserve, Q, cell)
  PROVE  Extract(rbs, cell, cfi, reserve) = FlattenSeq([t \in 1..rbs |-> BlockTurn(cell, cfi, t - 1, Q)])
<1>1. \A rb \in 0..(rbs - 1) : ExtractTurn(rbs, cell, cfi, reserve, rb) = BlockTurn(cell, cfi, rb, Q)
  BY TurnIsOfBlock
<1>2. \A t \in 1..rbs : t - 1 \in 0..(rbs - 1)
  OBVIOUS
<1>3. \A t \in 1..rbs : ExtractTurn(rbs, cell, cfi, reserve, t - 1) = BlockTurn(cell, cfi, t - 1, Q)
  BY <1>1, <1>2, Zenon
<1>4. [t \in 1..rbs |-> ExtractTurn(rbs, cell, cfi, reserve, t - 1)] = [t \in 1..rbs |-> BlockTurn(cell, cfi, t - 1, Q)]
  BY <1>3
<1> QED
  BY <1>4, ExtractTurns

\* What it reads goes up, is what is free, and is as much.
LEMMA QuadsAreListed ==
  ASSUME NEW rbs \in Nat, NEW cell \in CellIds, NEW cfi \in 1..3, NEW Q, NEW reserve,
         HalvesAreMarked(reserve, Q, cell)
  PROVE  QuadsListed(Extract(rbs, cell, cfi, reserve), rbs, cell, cfi, Q)
<1> DEFINE E == Quads
           key == QuadKey(cfi)
           At(t) == BlockTurn(cell, cfi, t - 1, Q)
           T == [t \in 1..rbs |-> At(t)]
           Room(t) == StartCount(cfi, LowerLeft(Q, t - 1), UpperLeft(Q, t - 1))
           room == [t \in 1..rbs |-> Room(t)]
           x == 3 * (cfi - 1)
           Cap(t) == x * t + Cardinality(FreeTo(Q, t))
           cap == [t \in 0..rbs |-> Cap(t)]
           quads == Extract(rbs, cell, cfi, reserve)
<1>1. \A t \in 1..rbs : t - 1 \in Nat /\ t - 1 \in 0..(rbs - 1) /\ t \in Nat \ {0} /\ t \in 0..rbs /\ t - 1 \in 0..rbs
  OBVIOUS
<1>2. \A t \in 1..rbs : BlockListed(At(t), cell, cfi, t - 1, Q)
  BY <1>1, BlockIsListed
<1>3. key \in [E -> Int]
  BY QuadKeys
<1>4. T \in [1..rbs -> Seq(E)]
  <2>1. \A t \in 1..rbs : At(t) \in Seq(E)
    BY <1>2, Zenon DEF BlockListed
  <2> HIDE DEF At, E
  <2> QED
    BY <2>1
<1>5. quads = FlattenSeq(T)
  BY ExtractIsOfBlocks
<1>6. \A t \in 1..rbs : T[t] = At(t)
  OBVIOUS
<1> HIDE DEF T, E
<1>7. PICK out : Joins(out, T, rbs) /\ FlattenSeq(T) = out[rbs]
  BY <1>4, FlattenedTurns
<1>8. \A t \in 1..rbs : /\ Climbs(T[t], key) /\ Len(T[t]) = Room(t)
                        /\ \A i \in 1..Len(T[t]) :
                              /\ IsGroup(T[t][i], cell, cfi)
                              /\ key[T[t][i]] \in ((12 * cfi) * (t - 1))..((12 * cfi) * (t - 1) + 12 * cfi - 1)
                        /\ \A e : (\E i \in 1..Len(T[t]) : e \in ToSet(T[t][i]))
                                    <=> InBlock(e, cell, cfi, t - 1, LowerLeft(Q, t - 1), UpperLeft(Q, t - 1))
  BY <1>2, <1>6, Zenon DEF BlockListed
<1> HIDE DEF At, key, quads
<1>9. TurnsClimb(T, rbs, key)
  <2>1. ASSUME NEW s \in 1..rbs, NEW t \in 1..rbs, s < t, NEW i \in 1..Len(T[s]), NEW j \in 1..Len(T[t])
        PROVE  key[T[s][i]] < key[T[t][j]]
    <3> DEFINE a == key[T[s][i]]
               b == key[T[t][j]]
               y == 12 * cfi
    <3>1. a \in (y * (s - 1))..(y * (s - 1) + y - 1) /\ b \in (y * (t - 1))..(y * (t - 1) + y - 1)
      BY <1>8, Zenon
    <3>2. y \in {12, 24, 36}
      OBVIOUS
    <3> HIDE DEF a, b, y
    <3>3. s - 1 \in Nat /\ t - 1 \in Nat /\ (s - 1) + 1 <= t - 1
      BY <2>1
    <3>4. y * (s - 1) + y <= y * (t - 1)
      <4>1. CASE y = 12
        BY <3>3, <4>1
      <4>2. CASE y = 24
        BY <3>3, <4>2
      <4>3. CASE y = 36
        BY <3>3, <4>3
      <4> QED
        BY <3>2, <4>1, <4>2, <4>3
    <3>5. y * (s - 1) \in Int /\ y * (t - 1) \in Int
      BY <3>2, <3>3
    <3>6. a < b
      BY <3>1, <3>2, <3>4, <3>5
    <3> QED
      BY <3>6 DEF a, b
  <2>2. \A t \in 1..rbs : Climbs(T[t], key)
    BY <1>8, Zenon
  <2> QED
    BY <2>1, <2>2 DEF TurnsClimb
<1>10. \A t \in 0..rbs : Cardinality(FreeTo(Q, t)) \in Nat
  BY FreeIsFinite
<1>11. \A t \in 1..rbs : Room(t) \in Nat
  BY DEF StartCount
<1>12. \A t \in 1..rbs : Cap(t) = Cap(t - 1) + Room(t)
  <2> SUFFICES ASSUME NEW t \in 1..rbs PROVE Cap(t) = Cap(t - 1) + Room(t)
    OBVIOUS
  <2> DEFINE c == Cardinality(FreeTo(Q, t))
             d == Cardinality(FreeTo(Q, t - 1))
             y == IF LowerLeft(Q, t - 1) THEN 1 ELSE 0
             z == IF UpperLeft(Q, t - 1) THEN 1 ELSE 0
  <2>1. c = d + y + z
    BY <1>1, FreeIsFinite, FreeGrows
  <2>2. c \in Nat /\ d \in Nat /\ y \in Nat /\ z \in Nat
    BY <1>1, <1>10
  <2>3. Room(t) = y + z + x
    BY Zenon DEF StartCount
  <2> HIDE DEF c, d, y, z, Room
  <2>4. x \in {0, 3, 6}
    OBVIOUS
  <2> HIDE DEF x
  <2>5. x * t + c = (x * (t - 1) + d) + (y + z + x)
    BY <2>1, <2>2, <2>4
  <2> QED
    BY <2>3, <2>5, Zenon DEF c, d
<1>13. FreeTo(Q, 0) = {}
  BY DEF FreeTo
<1>14. Cap(0) = 0
  BY <1>13, FS_EmptySet
<1>15. \A t \in 0..rbs : Cap(t) \in Int
  <2>1. x \in {0, 3, 6}
    OBVIOUS
  <2> HIDE DEF x
  <2> QED
    BY <1>10, <2>1
<1> HIDE DEF Cap, Room
<1>16. TurnsFit(T, rbs, room, cap)
  <2>1. room \in [1..rbs -> Int] /\ cap \in [0..rbs -> Int]
    BY <1>11, <1>15
  <2>2. cap[0] = 0
    BY <1>14
  <2>3. \A t \in 1..rbs : cap[t] = cap[t - 1] + room[t] /\ Len(T[t]) <= room[t]
    BY <1>1, <1>8, <1>11, <1>12
  <2> HIDE DEF room, cap
  <2> QED
    BY <2>1, <2>2, <2>3 DEF TurnsFit
<1>17. \A t \in 1..rbs : Len(T[t]) = room[t]
  BY <1>8
<1>18. cap[rbs] = Cap(rbs)
  OBVIOUS
<1> HIDE DEF room, cap
<1>19. TurnsJoined(out[rbs], T, rbs, E, key, room, cap)
  BY <1>3, <1>4, <1>7, <1>9, <1>16, JoinedTurns
<1>20. /\ quads \in Seq(E) /\ Climbs(quads, key) /\ Len(quads) = Cap(rbs)
       /\ ToSet(quads) = UNION {ToSet(T[t]) : t \in 1..rbs}
  BY <1>5, <1>7, <1>17, <1>18, <1>19, Zenon DEF TurnsJoined
<1>21. \A q : (\E i \in 1..Len(quads) : q = quads[i]) <=> (\E t \in 1..rbs : \E i \in 1..Len(T[t]) : q = T[t][i])
  <2>1. \A q : q \in ToSet(quads) <=> \E i \in 1..Len(quads) : q = quads[i]
    BY <1>20, MembersOf
  <2>2. \A t \in 1..rbs : \A q : q \in ToSet(T[t]) <=> \E i \in 1..Len(T[t]) : q = T[t][i]
    BY <1>4, MembersOf
  <2>3. \A q : q \in ToSet(quads) <=> \E t \in 1..rbs : q \in ToSet(T[t])
    BY <1>20
  <2> TAKE q
  <2>4. q \in ToSet(quads) <=> \E i \in 1..Len(quads) : q = quads[i]
    BY <2>1, Zenon
  <2>5. \A t \in 1..rbs : q \in ToSet(T[t]) <=> \E i \in 1..Len(T[t]) : q = T[t][i]
    BY <2>2, Zenon
  <2>6. (\E t \in 1..rbs : q \in ToSet(T[t])) <=> (\E t \in 1..rbs : \E i \in 1..Len(T[t]) : q = T[t][i])
    BY <2>5, Zenon
  <2> QED
    BY <2>3, <2>4, <2>6, Zenon
<1>22. \A i \in 1..Len(quads) : IsGroup(quads[i], cell, cfi)
  BY <1>8, <1>21, Zenon
<1>23. \A e : (\E i \in 1..Len(quads) : e \in ToSet(quads[i]))
               <=> \E t \in 1..rbs : InBlock(e, cell, cfi, t - 1, LowerLeft(Q, t - 1), UpperLeft(Q, t - 1))
  <2>1. \A e : (\E i \in 1..Len(quads) : e \in ToSet(quads[i]))
               <=> \E t \in 1..rbs : \E i \in 1..Len(T[t]) : e \in ToSet(T[t][i])
    BY <1>21, Zenon
  <2> QED
    BY <1>8, <2>1, Zenon
<1>24. \A e : (\E t \in 1..rbs : InBlock(e, cell, cfi, t - 1, LowerLeft(Q, t - 1), UpperLeft(Q, t - 1)))
               <=> \E rb \in 0..(rbs - 1) : InBlock(e, cell, cfi, rb, LowerLeft(Q, rb), UpperLeft(Q, rb))
  <2>1. \A rb \in 0..(rbs - 1) : rb + 1 \in 1..rbs /\ (rb + 1) - 1 = rb
    OBVIOUS
  <2> QED
    BY <1>1, <2>1, Zenon
<1>25. \A e : (\E i \in 1..Len(quads) : e \in ToSet(quads[i]))
               <=> \E rb \in 0..(rbs - 1) : InBlock(e, cell, cfi, rb, LowerLeft(Q, rb), UpperLeft(Q, rb))
  BY <1>23, <1>24, Zenon
<1>26. Len(quads) = 3 * (cfi - 1) * rbs + Cardinality(FreeTo(Q, rbs))
  BY <1>20, Zenon DEF Cap
<1> QED
  BY <1>20, <1>22, <1>25, <1>26, Zenon DEF QuadsListed, quads, E, key

-----------------------------------------------------------------------------
(* The sequences of the secondary synchronisation signal.                  *)

\* Where a register of five bits starts, and what it adds
TildaStart == <<0, 0, 0, 0, 1>>
TildaNext(taps, i, old) == Cardinality({t \in taps : old[i - 5 + t] = 1}) % 2

\* The bits of a shift register of length five, one list for each length
TildaRuns(x, taps) == x = [i \in 5..31 |-> IF i = 5 THEN TildaStart ELSE Append(x[i - 1], TildaNext(taps, i, x[i - 1]))]

\* A tap adds a bit.
LEMMA TapIsBit ==
  ASSUME NEW taps \in SUBSET (0..4), NEW i, NEW old
  PROVE  TildaNext(taps, i, old) \in {0, 1}
<1> DEFINE R == {t \in taps : old[i - 5 + t] = 1}
<1>1. IsFiniteSet(0..4) /\ R \in SUBSET (0..4)
  <2>1. IsFiniteSet(0..4)
    <3>1. 0 \in Int /\ 4 \in Int
      OBVIOUS
    <3> QED
      BY <3>1, FS_Interval, Zenon
  <2> QED
    BY <2>1
<1>2. IsFiniteSet(R)
  BY <1>1, FS_Subset
<1>3. Cardinality(R) \in Nat
  BY <1>2, FS_CardinalityType
<1> DEFINE c == Cardinality(R)
<1>4. TildaNext(taps, i, old) = c % 2
  BY DEF TildaNext
<1> HIDE DEF c, R
<1> QED
  BY <1>3, <1>4 DEF c

\* The register runs on for every set of taps.
LEMMA TildaRunExists ==
  ASSUME NEW taps \in SUBSET (0..4)
  PROVE  \E x : TildaRuns(x, taps)
<1> DEFINE S == Seq({0, 1})
           Turn5 == [p \in Nat \X S |-> Append(p[2], TildaNext(taps, p[1] + 5, p[2]))]
<1>1. Turn5 \in [Nat \X S -> S]
  <2>1. ASSUME NEW p \in Nat \X S PROVE Append(p[2], TildaNext(taps, p[1] + 5, p[2])) \in S
    <3>1. p[2] \in S /\ TildaNext(taps, p[1] + 5, p[2]) \in {0, 1}
      BY TapIsBit
    <3> QED
      BY <3>1
  <2> QED
    BY <2>1
<1>2. TildaStart \in S
  BY DEF TildaStart
<1>3. \A i \in Nat, old \in S : Turn5[<<i, old>>] = Append(old, TildaNext(taps, i + 5, old))
  OBVIOUS
<1> HIDE DEF Turn5
<1>4. PICK f \in [0..26 -> S] : Iterates(f, 26, TildaStart, Turn5)
  BY <1>1, <1>2, Iteration
<1> HIDE DEF S
<1> DEFINE x == [i \in 5..31 |-> f[i - 5]]
<1>5. ASSUME NEW i \in 5..31
      PROVE  x[i] = IF i = 5 THEN TildaStart ELSE Append(x[i - 1], TildaNext(taps, i, x[i - 1]))
  <2>1. CASE i = 5
    <3>1. x[i] = f[0]
      BY <2>1
    <3> QED
      BY <1>4, <2>1, <3>1 DEF Iterates
  <2>2. CASE i # 5
    <3> DEFINE k == i - 5
    <3>1. k \in 1..26 /\ k \in Nat /\ k - 1 \in 0..26 /\ i - 1 \in 5..31 /\ (i - 1) - 5 = k - 1 /\ k + 5 = i
      BY <2>2
    <3>2. x[i] = f[k] /\ x[i - 1] = f[k - 1]
      BY <3>1
    <3> HIDE DEF x
    <3>3. f[k] = Turn5[<<k, f[k - 1]>>] /\ f[k - 1] \in S
      BY <1>4, <3>1 DEF Iterates
    <3>4. f[k] = Append(f[k - 1], TildaNext(taps, k + 5, f[k - 1]))
      BY <1>3, <3>1, <3>3
    <3> QED
      BY <2>2, <3>1, <3>2, <3>4
  <2> QED
    BY <2>1, <2>2
<1>6. x = [i \in 5..31 |-> IF i = 5 THEN TildaStart ELSE Append(x[i - 1], TildaNext(taps, i, x[i - 1]))]
  <2>1. x = [i \in 5..31 |-> x[i]]
    OBVIOUS
  <2> HIDE DEF x
  <2> QED
    BY <1>5, <2>1, Zenon
<1> QED
  BY <1>6, Zenon DEF TildaRuns

\* The bits of a register
TildaBits(b, taps) ==
  /\ b \in [1..31 -> {0, 1}]
  /\ b[1] = 0 /\ b[2] = 0 /\ b[3] = 0 /\ b[4] = 0 /\ b[5] = 1
  /\ \A i \in 6..31 : b[i] = TildaNext(taps, i, b)

\* So many of them
TildaListed(s, taps, i) ==
  /\ s \in Seq({0, 1}) /\ Len(s) = i
  /\ s[1] = 0 /\ s[2] = 0 /\ s[3] = 0 /\ s[4] = 0 /\ s[5] = 1
  /\ \A j \in 6..i : s[j] = TildaNext(taps, j, s)

\* What is added does not depend on what follows.
LEMMA NextOfPrefix ==
  ASSUME NEW taps \in SUBSET (0..4), NEW j \in 6..31, NEW s, NEW r, \A k \in 1..(j - 1) : r[k] = s[k]
  PROVE  TildaNext(taps, j, r) = TildaNext(taps, j, s)
<1>1. ASSUME NEW t \in taps PROVE r[j - 5 + t] = s[j - 5 + t]
  <2>1. t \in 0..4
    OBVIOUS
  <2>2. j - 5 + t \in 1..(j - 1)
    BY <2>1
  <2> QED
    BY <2>2
<1>2. {t \in taps : r[j - 5 + t] = 1} = {t \in taps : s[j - 5 + t] = 1}
  BY <1>1
<1> QED
  BY <1>2, Zenon DEF TildaNext

\* A list is a function of its places.
LEMMA ListIsFunction ==
  ASSUME NEW E, NEW s \in Seq(E), NEW n, Len(s) = n
  PROVE  s \in [1..n -> E]
  OBVIOUS

\* gen_tilda gives signs of bits each of which adds up those before it.
LEMMA TildaIs ==
  ASSUME NEW taps \in SUBSET (0..4)
  PROVE  \E b : TildaBits(b, taps) /\ Tilda(taps) = [i \in 1..31 |-> 1 - 2 * b[i]]
<1> DEFINE x == CHOOSE g : TildaRuns(g, taps)
<1>1. TildaRuns(x, taps)
  BY TildaRunExists, Zenon
<1>2. Tilda(taps) = [i \in 1..31 |-> 1 - 2 * x[31][i]] \o << >>
  BY Zenon DEF Tilda, TildaRuns, TildaNext, TildaStart
<1> HIDE DEF x
<1>3. x[5] = TildaStart /\ \A i \in 6..31 : x[i] = Append(x[i - 1], TildaNext(taps, i, x[i - 1]))
  <2>1. \A i \in 5..31 : x[i] = IF i = 5 THEN TildaStart ELSE Append(x[i - 1], TildaNext(taps, i, x[i - 1]))
    BY <1>1, Zenon DEF TildaRuns
  <2>2. x[5] = TildaStart
    BY <2>1
  <2>3. ASSUME NEW i \in 6..31 PROVE x[i] = Append(x[i - 1], TildaNext(taps, i, x[i - 1]))
    <3>1. i \in 5..31 /\ i # 5
      OBVIOUS
    <3> QED
      BY <2>1, <3>1, Zenon
  <2> QED
    BY <2>2, <2>3
<1> DEFINE G == {k \in 0..26 : TildaListed(x[k + 5], taps, k + 5)}
<1>4. 0 \in G
  <2>1. TildaListed(TildaStart, taps, 5)
    BY DEF TildaListed, TildaStart
  <2> QED
    BY <1>3, <2>1
<1>5. ASSUME NEW k \in 1..26, k - 1 \in G PROVE k \in G
  <2> DEFINE s == x[k + 4]
             i == k + 5
             v == TildaNext(taps, i, s)
             r == Append(s, v)
  <2>1. (k - 1) + 5 = k + 4 /\ i \in 6..31 /\ i - 1 = k + 4
    OBVIOUS
  <2>2. TildaListed(s, taps, i - 1)
    BY <1>5, <2>1
  <2>3. x[i] = r
    BY <1>3, <2>1
  <2>4. v \in {0, 1}
    BY TapIsBit
  <2> HIDE DEF s, v, i
  <2>5. r \in Seq({0, 1}) /\ Len(r) = i /\ (\A j \in 1..(i - 1) : r[j] = s[j]) /\ r[i] = v
    BY <2>1, <2>2, <2>4 DEF TildaListed
  <2> HIDE DEF r
  <2>6. r[1] = 0 /\ r[2] = 0 /\ r[3] = 0 /\ r[4] = 0 /\ r[5] = 1
    BY <2>1, <2>2, <2>5 DEF TildaListed
  <2>7. ASSUME NEW j \in 6..i PROVE r[j] = TildaNext(taps, j, r)
    <3>1. j \in 6..31 /\ \A m \in 1..(j - 1) : r[m] = s[m]
      BY <2>1, <2>5
    <3>2. TildaNext(taps, j, r) = TildaNext(taps, j, s)
      BY <3>1, NextOfPrefix
    <3>3. CASE j = i
      BY <2>5, <3>2, <3>3 DEF v
    <3>4. CASE j # i
      <4>1. j \in 6..(i - 1) /\ j \in 1..(i - 1)
        BY <2>1, <3>4
      <4> QED
        BY <2>2, <2>5, <3>2, <4>1 DEF TildaListed
    <3> QED
      BY <3>3, <3>4
  <2>8. TildaListed(r, taps, i)
    BY <2>5, <2>6, <2>7 DEF TildaListed
  <2> QED
    BY <2>3, <2>8 DEF i
<1>6. 0..26 \subseteq G
  <2> HIDE DEF G
  <2> QED
    BY <1>4, <1>5, ClimbTo
<1> DEFINE b == x[31]
<1>7. TildaListed(b, taps, 31)
  <2>1. 26 \in G
    BY <1>6
  <2> QED
    BY <2>1
<1> HIDE DEF b
<1>8. TildaBits(b, taps)
  <2>1. b \in [1..31 -> {0, 1}]
    <3>1. b \in Seq({0, 1}) /\ Len(b) = 31
      BY <1>7 DEF TildaListed
    <3> QED
      BY <3>1, ListIsFunction
  <2> QED
    BY <1>7, <2>1, Zenon DEF TildaListed, TildaBits
<1> DEFINE d == [i \in 1..31 |-> 1 - 2 * b[i]]
<1>9. d \o << >> = d
  <2>1. \A i \in 1..31 : 1 - 2 * b[i] \in Int
    BY <1>8 DEF TildaBits
  <2>2. d \in Seq(Int)
    BY <2>1
  <2> HIDE DEF d
  <2> QED
    BY <2>2
<1>10. Tilda(taps) = d \o << >>
  BY <1>2, Zenon DEF b, d
<1> QED
  BY <1>8, <1>9, <1>10, Zenon DEF d

-----------------------------------------------------------------------------
(* Two shifts of the sequence s are sixteen places apart.                  *)

\* The bits of the sequence s of 36.211, 6.11.2.1, and how far a sum of two of its
\* shifts, which is one itself, is shifted: by SumShift[d] for shifts d apart
SBits == <<0, 0, 0, 0, 1, 0, 0, 1, 0, 1, 1, 0, 0, 1, 1, 1, 1, 1, 0, 0, 0, 1, 1, 0, 1, 1, 1, 0, 1, 0, 1>>
SumShift == <<18, 5, 29, 10, 2, 27, 22, 20, 16, 4, 19, 23, 14, 13, 24, 9, 30, 1, 11, 8, 25, 7, 12, 15, 21, 28, 6, 26, 3, 17>>
SBit(n) == SBits[(n % 31) + 1]

\* Two taps add two bits.
LEMMA TwoTaps ==
  ASSUME NEW b \in [1..31 -> {0, 1}], NEW i \in 6..31
  PROVE  TildaNext({0, 2}, i, b) = (b[i - 5] + b[i - 3]) % 2
<1> DEFINE R == {t \in {0, 2} : b[i - 5 + t] = 1}
<1>1. i - 5 \in 1..31 /\ i - 3 \in 1..31 /\ i - 5 + 0 = i - 5 /\ i - 5 + 2 = i - 3
  OBVIOUS
<1>2. b[i - 5] \in {0, 1} /\ b[i - 3] \in {0, 1}
  BY <1>1
<1>3. \A t : t \in R <=> (t = 0 /\ b[i - 5] = 1) \/ (t = 2 /\ b[i - 3] = 1)
  BY <1>1
<1>4. TildaNext({0, 2}, i, b) = Cardinality(R) % 2
  BY DEF TildaNext
<1> HIDE DEF R
<1>5. CASE b[i - 5] = 1 /\ b[i - 3] = 1
  <2>0. IsFiniteSet({0}) /\ Cardinality({0}) = 1
    BY FS_Singleton, Zenon
  <2>1. R = {0} \cup {2} /\ 2 \notin {0}
    BY <1>3, <1>5
  <2>2. Cardinality({0} \cup {2}) = Cardinality({0}) + 1
    BY <2>0, <2>1, FS_AddElement
  <2> QED
    BY <1>4, <1>5, <2>0, <2>1, <2>2
<1>6. CASE b[i - 5] = 1 /\ b[i - 3] = 0
  <2>1. R = {0}
    BY <1>3, <1>6
  <2>2. Cardinality({0}) = 1
    BY FS_Singleton, Zenon
  <2> QED
    BY <1>4, <1>6, <2>1, <2>2
<1>7. CASE b[i - 5] = 0 /\ b[i - 3] = 1
  <2>1. R = {2}
    BY <1>3, <1>7
  <2>2. Cardinality({2}) = 1
    BY FS_Singleton, Zenon
  <2> QED
    BY <1>4, <1>7, <2>1, <2>2
<1>8. CASE b[i - 5] = 0 /\ b[i - 3] = 0
  <2>1. R = {} /\ Cardinality({}) = 0
    BY <1>3, <1>8, FS_EmptySet
  <2> QED
    BY <1>4, <1>8, <2>1
<1> QED
  BY <1>2, <1>5, <1>6, <1>7, <1>8

\* The first sequence has these bits.
LEMMA STildaIs == STilda = [i \in 1..31 |-> 1 - 2 * SBits[i]]
<1>1. {0, 2} \in SUBSET (0..4)
  OBVIOUS
<1>2. PICK b : TildaBits(b, {0, 2}) /\ Tilda({0, 2}) = [i \in 1..31 |-> 1 - 2 * b[i]]
  BY <1>1, TildaIs
<1>3. b \in [1..31 -> {0, 1}] /\ b[1] = 0 /\ b[2] = 0 /\ b[3] = 0 /\ b[4] = 0 /\ b[5] = 1
  BY <1>2 DEF TildaBits
<1>4. \A i \in 6..31 : b[i] = (b[i - 5] + b[i - 3]) % 2
  BY <1>2, <1>3, TwoTaps DEF TildaBits
<1>5. b[6] = 0 /\ b[7] = 0 /\ b[8] = 1 /\ b[9] = 0 /\ b[10] = 1
  BY <1>3, <1>4
<1>6. b[11] = 1 /\ b[12] = 0 /\ b[13] = 0 /\ b[14] = 1 /\ b[15] = 1
  BY <1>4, <1>5
<1>7. b[16] = 1 /\ b[17] = 1 /\ b[18] = 1 /\ b[19] = 0 /\ b[20] = 0
  BY <1>4, <1>6
<1>8. b[21] = 0 /\ b[22] = 1 /\ b[23] = 1 /\ b[24] = 0 /\ b[25] = 1
  BY <1>4, <1>7
<1>9. b[26] = 1 /\ b[27] = 1 /\ b[28] = 0 /\ b[29] = 1 /\ b[30] = 0 /\ b[31] = 1
  BY <1>4, <1>8
<1>10. ASSUME NEW i \in 1..31 PROVE b[i] = SBits[i]
  <2>1. CASE i \in 1..10
    BY <1>3, <1>5, <2>1 DEF SBits
  <2>2. CASE i \in 11..20
    BY <1>6, <1>7, <2>2 DEF SBits
  <2>3. CASE i \in 21..31
    BY <1>8, <1>9, <2>3 DEF SBits
  <2> QED
    BY <2>1, <2>2, <2>3
<1>11. [i \in 1..31 |-> 1 - 2 * b[i]] = [i \in 1..31 |-> 1 - 2 * SBits[i]]
  BY <1>10, Zenon
<1> QED
  BY <1>2, <1>11, Zenon DEF STilda

\* Bits by their place
LEMMA SBitOf ==
  ASSUME NEW n \in Nat
  PROVE  /\ n % 31 \in 0..30 /\ SBit(n) = SBits[(n % 31) + 1] /\ SBit(n) \in {0, 1} /\ SBit(n) = SBit(n % 31)
<1> DEFINE r == n % 31
<1>1. r \in 0..30 /\ r % 31 = r
  OBVIOUS
<1> HIDE DEF r
<1>2. SBits[r + 1] \in {0, 1}
  <2>1. CASE r \in 0..9
    BY <2>1 DEF SBits
  <2>2. CASE r \in 10..19
    BY <2>2 DEF SBits
  <2>3. CASE r \in 20..30
    BY <2>3 DEF SBits
  <2> QED
    BY <1>1, <2>1, <2>2, <2>3
<1>3. SBit(n) = SBits[r + 1]
  BY DEF SBit, r
<1>4. SBit(r) = SBits[r + 1]
  BY <1>1 DEF SBit
<1> QED
  BY <1>1, <1>2, <1>3, <1>4 DEF r

\* A bit is the sum of those five and three places before, all round.
LEMMA SBitsRecur ==
  ASSUME NEW n \in Nat
  PROVE  SBit(n + 5) = (SBit(n) + SBit(n + 2)) % 2
<1> DEFINE r == n % 31
<1>1. r \in 0..30 /\ (n + 5) % 31 = (r + 5) % 31 /\ (n + 2) % 31 = (r + 2) % 31
  <2> DEFINE q == n \div 31
  <2>1. q \in Nat /\ r \in 0..30 /\ n = 31 * q + r
    BY Division
  <2> HIDE DEF q, r
  <2> QED
    BY <2>1
<1>2. SBit(n) = SBits[r + 1] /\ SBit(n + 5) = SBits[((r + 5) % 31) + 1] /\ SBit(n + 2) = SBits[((r + 2) % 31) + 1]
  BY <1>1 DEF SBit, r
<1> HIDE DEF r
<1>3. SBits[((r + 5) % 31) + 1] = (SBits[r + 1] + SBits[((r + 2) % 31) + 1]) % 2
  <2>1. CASE r \in 0..7
    <3>1. r \in {0, 1, 2, 3, 4, 5, 6, 7}
      BY <2>1
    <3> QED
      BY <3>1 DEF SBits
  <2>2. CASE r \in 8..15
    <3>1. r \in {8, 9, 10, 11, 12, 13, 14, 15}
      BY <2>2
    <3> QED
      BY <3>1 DEF SBits
  <2>3. CASE r \in 16..23
    <3>1. r \in {16, 17, 18, 19, 20, 21, 22, 23}
      BY <2>3
    <3> QED
      BY <3>1 DEF SBits
  <2>4. CASE r \in 24..30
    <3>1. r \in {24, 25, 26, 27, 28, 29, 30}
      BY <2>4
    <3> QED
      BY <3>1 DEF SBits
  <2> QED
    BY <1>1, <2>1, <2>2, <2>3, <2>4
<1> QED
  BY <1>2, <1>3

SumsTo(d, n) == (SBit(n) + SBit(n + d)) % 2 = SBit(n + SumShift[d])

\* Their first five places
LEMMA FirstSums ==
  ASSUME NEW d \in 1..30
  PROVE  SumShift[d] \in 0..30 /\ SumsTo(d, 0) /\ SumsTo(d, 1) /\ SumsTo(d, 2) /\ SumsTo(d, 3) /\ SumsTo(d, 4)
<1>0. d \in 1..10 \/ d \in 11..20 \/ d \in 21..30
  OBVIOUS
<1>1. CASE d \in 1..10
  <2>1. CASE d = 1
    BY <2>1 DEF SumsTo, SumShift, SBit, SBits
  <2>2. CASE d = 2
    BY <2>2 DEF SumsTo, SumShift, SBit, SBits
  <2>3. CASE d = 3
    BY <2>3 DEF SumsTo, SumShift, SBit, SBits
  <2>4. CASE d = 4
    BY <2>4 DEF SumsTo, SumShift, SBit, SBits
  <2>5. CASE d = 5
    BY <2>5 DEF SumsTo, SumShift, SBit, SBits
  <2>6. CASE d = 6
    BY <2>6 DEF SumsTo, SumShift, SBit, SBits
  <2>7. CASE d = 7
    BY <2>7 DEF SumsTo, SumShift, SBit, SBits
  <2>8. CASE d = 8
    BY <2>8 DEF SumsTo, SumShift, SBit, SBits
  <2>9. CASE d = 9
    BY <2>9 DEF SumsTo, SumShift, SBit, SBits
  <2>10. CASE d = 10
    BY <2>10 DEF SumsTo, SumShift, SBit, SBits
  <2> QED
    BY <1>1, <2>1, <2>2, <2>3, <2>4, <2>5, <2>6, <2>7, <2>8, <2>9, <2>10
<1>2. CASE d \in 11..20
  <2>1. CASE d = 11
    BY <2>1 DEF SumsTo, SumShift, SBit, SBits
  <2>2. CASE d = 12
    BY <2>2 DEF SumsTo, SumShift, SBit, SBits
  <2>3. CASE d = 13
    BY <2>3 DEF SumsTo, SumShift, SBit, SBits
  <2>4. CASE d = 14
    BY <2>4 DEF SumsTo, SumShift, SBit, SBits
  <2>5. CASE d = 15
    BY <2>5 DEF SumsTo, SumShift, SBit, SBits
  <2>6. CASE d = 16
    BY <2>6 DEF SumsTo, SumShift, SBit, SBits
  <2>7. CASE d = 17
    BY <2>7 DEF SumsTo, SumShift, SBit, SBits
  <2>8. CASE d = 18
    BY <2>8 DEF SumsTo, SumShift, SBit, SBits
  <2>9. CASE d = 19
    BY <2>9 DEF SumsTo, SumShift, SBit, SBits
  <2>10. CASE d = 20
    BY <2>10 DEF SumsTo, SumShift, SBit, SBits
  <2> QED
    BY <1>2, <2>1, <2>2, <2>3, <2>4, <2>5, <2>6, <2>7, <2>8, <2>9, <2>10
<1>3. CASE d \in 21..30
  <2>1. CASE d = 21
    BY <2>1 DEF SumsTo, SumShift, SBit, SBits
  <2>2. CASE d = 22
    BY <2>2 DEF SumsTo, SumShift, SBit, SBits
  <2>3. CASE d = 23
    BY <2>3 DEF SumsTo, SumShift, SBit, SBits
  <2>4. CASE d = 24
    BY <2>4 DEF SumsTo, SumShift, SBit, SBits
  <2>5. CASE d = 25
    BY <2>5 DEF SumsTo, SumShift, SBit, SBits
  <2>6. CASE d = 26
    BY <2>6 DEF SumsTo, SumShift, SBit, SBits
  <2>7. CASE d = 27
    BY <2>7 DEF SumsTo, SumShift, SBit, SBits
  <2>8. CASE d = 28
    BY <2>8 DEF SumsTo, SumShift, SBit, SBits
  <2>9. CASE d = 29
    BY <2>9 DEF SumsTo, SumShift, SBit, SBits
  <2>10. CASE d = 30
    BY <2>10 DEF SumsTo, SumShift, SBit, SBits
  <2> QED
    BY <1>3, <2>1, <2>2, <2>3, <2>4, <2>5, <2>6, <2>7, <2>8, <2>9, <2>10
<1> QED
  BY <1>0, <1>1, <1>2, <1>3

\* The sum of two shifts is a shift.
LEMMA ShiftsAdd ==
  ASSUME NEW d \in 1..30, NEW n \in Nat
  PROVE  SumsTo(d, n)
<1> DEFINE e == SumShift[d]
           From(k) == SumsTo(d, k) /\ SumsTo(d, k + 1) /\ SumsTo(d, k + 2) /\ SumsTo(d, k + 3) /\ SumsTo(d, k + 4)
           G == {k \in Nat : From(k)}
<1>1. e \in 0..30
  BY FirstSums
<1>2. 0 \in G
  BY FirstSums
<1>3. ASSUME NEW k \in Nat, From(k) PROVE SumsTo(d, k + 5)
  <2> DEFINE P(i) == SBit(k + i)
             Q(i) == SBit((k + i) + d)
             R(i) == SBit((k + i) + e)
  <2>1. SumsTo(d, k + 0) /\ SumsTo(d, k + 2)
    BY <1>3
  <2>2. (P(0) + Q(0)) % 2 = R(0) /\ (P(2) + Q(2)) % 2 = R(2)
    BY <2>1, Zenon DEF SumsTo
  <2>3. P(5) = (P(0) + P(2)) % 2
    BY SBitsRecur
  <2>4. Q(5) = (Q(0) + Q(2)) % 2
    <3>1. k + d \in Nat /\ (k + 0) + d = k + d /\ (k + 5) + d = (k + d) + 5 /\ (k + 2) + d = (k + d) + 2
      OBVIOUS
    <3> QED
      BY <3>1, SBitsRecur
  <2>5. R(5) = (R(0) + R(2)) % 2
    <3>1. k + e \in Nat /\ (k + 0) + e = k + e /\ (k + 5) + e = (k + e) + 5 /\ (k + 2) + e = (k + e) + 2
      BY <1>1
    <3> HIDE DEF e
    <3> QED
      BY <3>1, SBitsRecur
  <2>6. P(0) \in {0, 1} /\ P(2) \in {0, 1} /\ Q(0) \in {0, 1} /\ Q(2) \in {0, 1}
    <3>1. k + 0 \in Nat /\ k + 2 \in Nat /\ (k + 0) + d \in Nat /\ (k + 2) + d \in Nat
      OBVIOUS
    <3> QED
      BY <3>1, SBitOf
  <2>7. (P(5) + Q(5)) % 2 = R(5)
    <3> HIDE DEF P, Q, R
    <3> QED
      BY <2>2, <2>3, <2>4, <2>5, <2>6
  <2> QED
    BY <2>7, Zenon DEF SumsTo
<1>4. ASSUME NEW k \in Nat, k \in G PROVE k + 1 \in G
  <2>1. From(k) /\ SumsTo(d, k + 5)
    BY <1>3, <1>4
  <2>2. (k + 1) + 1 = k + 2 /\ (k + 1) + 2 = k + 3 /\ (k + 1) + 3 = k + 4 /\ (k + 1) + 4 = k + 5 /\ k + 1 \in Nat
    OBVIOUS
  <2>3. From(k + 1)
    BY <2>1, <2>2
  <2> HIDE DEF From
  <2> QED
    BY <2>2, <2>3
<1>5. n \in G
  <2> HIDE DEF G
  <2> QED
    BY <1>2, <1>4, Climb
<1> QED
  BY <1>5

\* The places of the ones, and which one is where
Ones == <<4, 7, 9, 10, 13, 14, 15, 16, 17, 21, 22, 24, 25, 26, 28, 30>>
OneTurn == <<0, 0, 0, 0, 1, 0, 0, 2, 0, 3, 4, 0, 0, 5, 6, 7, 8, 9, 0, 0, 0, 10, 11, 0, 12, 13, 14, 0, 15, 0, 16>>

\* There they are ones.
LEMMA OnesAre == \A j \in 1..16 : Ones[j] \in 0..30 /\ SBit(Ones[j]) = 1 /\ OneTurn[Ones[j] + 1] = j
<1>1. ASSUME NEW j \in 1..16 PROVE Ones[j] \in 0..30 /\ SBit(Ones[j]) = 1 /\ OneTurn[Ones[j] + 1] = j
  <2>1. CASE j \in 1..4
    <3>1. j \in {1, 2, 3, 4}
      BY <2>1
    <3> QED
      BY <3>1 DEF Ones, OneTurn, SBit, SBits
  <2>2. CASE j \in 5..8
    <3>1. j \in {5, 6, 7, 8}
      BY <2>2
    <3> QED
      BY <3>1 DEF Ones, OneTurn, SBit, SBits
  <2>3. CASE j \in 9..12
    <3>1. j \in {9, 10, 11, 12}
      BY <2>3
    <3> QED
      BY <3>1 DEF Ones, OneTurn, SBit, SBits
  <2>4. CASE j \in 13..16
    <3>1. j \in {13, 14, 15, 16}
      BY <2>4
    <3> QED
      BY <3>1 DEF Ones, OneTurn, SBit, SBits
  <2> QED
    BY <2>1, <2>2, <2>3, <2>4
<1> QED
  BY <1>1

\* The ones of a shift
OnesAt(c) == {n \in 0..30 : SBit(n + c) = 1}
OneAt(c, j) == (Ones[j] + 30 * c) % 31

\* Each one of the sequence is one of the shift, turned back.
LEMMA OneIsAt ==
  ASSUME NEW c \in Nat, NEW j \in 1..16
  PROVE  OneAt(c, j) \in OnesAt(c) /\ (OneAt(c, j) + c) % 31 = Ones[j]
<1> DEFINE o == Ones[j]
           x == o + 30 * c
           f == x % 31
           q == x \div 31
           y == f + c
           r == y % 31
           p == y \div 31
<1>1. o \in 0..30 /\ SBit(o) = 1
  BY OnesAre
<1> HIDE DEF o
<1>3. x = o + 30 * c /\ x \in Nat
  BY <1>1
<1> HIDE DEF x
<1>2. q \in Nat /\ f \in 0..30 /\ x = 31 * q + f
  <2>1. x \in Nat
    BY <1>3
  <2>2. \A i \in Nat : i \div 31 \in Nat /\ i % 31 \in 0..30 /\ i = 31 * (i \div 31) + (i % 31)
    OBVIOUS
  <2> QED
    BY <2>1, <2>2, Zenon
<1> HIDE DEF q, f
<1>4. y \in Nat /\ p \in Nat /\ r \in 0..30 /\ y = 31 * p + r /\ y = f + c
  BY <1>2, Division
<1> HIDE DEF y, p, r
<1>5. r = o
  BY <1>1, <1>2, <1>3, <1>4
<1>6. SBit(y) = SBit(r)
  BY <1>4, SBitOf DEF r
<1>7. OneAt(c, j) = f
  BY DEF OneAt, f, x, o
<1>8. f \in OnesAt(c)
  BY <1>1, <1>2, <1>4, <1>5, <1>6 DEF OnesAt
<1>9. (f + c) % 31 = o
  BY <1>4, <1>5 DEF r
<1> QED
  BY <1>7, <1>8, <1>9 DEF o

\* Every shift has sixteen ones.
LEMMA OnesAreMany ==
  ASSUME NEW c \in Nat
  PROVE  IsFiniteSet(OnesAt(c)) /\ Cardinality(OnesAt(c)) \in Nat /\ Cardinality(OnesAt(c)) >= 16
<1> DEFINE f == [j \in 1..16 |-> OneAt(c, j)]
<1>1. IsFiniteSet(OnesAt(c)) /\ Cardinality(OnesAt(c)) \in Nat
  <2>1. OnesAt(c) \in SUBSET Nat /\ \A n \in OnesAt(c) : n <= 30
    BY DEF OnesAt
  <2>2. IsFiniteSet(OnesAt(c))
    BY <2>1, FS_BoundedSetOfNaturals
  <2> QED
    BY <2>2, FS_CardinalityType
<1>2. f \in [1..16 -> OnesAt(c)]
  BY OneIsAt
<1>3. ASSUME NEW i \in 1..16, NEW j \in 1..16, f[i] = f[j] PROVE i = j
  <2>1. OneAt(c, i) = OneAt(c, j)
    BY <1>3
  <2>2. Ones[i] = Ones[j]
    BY <2>1, OneIsAt
  <2> QED
    BY <2>2, OnesAre
<1> HIDE DEF f
<1>4. f \in Injection(1..16, OnesAt(c))
  BY <1>2, <1>3 DEF Injection, IsInjective
<1>5. Cardinality(1..16) <= Cardinality(OnesAt(c))
  BY <1>1, <1>4, FS_Injection
<1>6. Cardinality(1..16) = 16
  <2>1. 1 \in Int /\ 16 \in Int /\ ~(1 > 16) /\ 16 - 1 + 1 = 16
    OBVIOUS
  <2> QED
    BY <2>1, FS_Interval
<1> QED
  BY <1>1, <1>5, <1>6

\* Where two shifts differ
DifferAt(a, b) == {n \in 0..30 : SBit(n + a) # SBit(n + b)}

\* Two shifts differ in sixteen places.
LEMMA ShiftsDiffer ==
  ASSUME NEW a \in 0..30, NEW b \in 0..30, a # b
  PROVE  /\ IsFiniteSet(DifferAt(a, b)) /\ Cardinality(DifferAt(a, b)) \in Nat
         /\ Cardinality(DifferAt(a, b)) >= 16
<1>1. ASSUME NEW u \in 0..30, NEW v \in 0..30, u < v PROVE \E c \in Nat : DifferAt(u, v) = OnesAt(c)
  <2> DEFINE d == v - u
             e == SumShift[d]
  <2>1. d \in 1..30
    BY <1>1
  <2>2. v = u + d
    BY <1>1
  <2>3. e \in 0..30
    BY <2>1, FirstSums
  <2> HIDE DEF d, e
  <2>4. ASSUME NEW n \in 0..30 PROVE SBit(n + u) # SBit(n + v) <=> SBit(n + (u + e)) = 1
    <3> DEFINE m == n + u
    <3>1. m \in Nat /\ n + v = m + d /\ n + (u + e) = m + e /\ m + d \in Nat
      BY <2>1, <2>2, <2>3
    <3> HIDE DEF m
    <3>2. (SBit(m) + SBit(m + d)) % 2 = SBit(m + e)
      BY <2>1, <3>1, ShiftsAdd DEF SumsTo, e
    <3>3. SBit(m) \in {0, 1} /\ SBit(m + d) \in {0, 1}
      BY <3>1, SBitOf
    <3>4. SBit(m) # SBit(m + d) <=> SBit(m + e) = 1
      BY <3>2, <3>3
    <3> QED
      BY <3>1, <3>4 DEF m
  <2>5. DifferAt(u, v) = OnesAt(u + e)
    BY <2>4 DEF DifferAt, OnesAt
  <2>6. u + e \in Nat
    BY <2>3
  <2> QED
    BY <2>5, <2>6
<1>2. DifferAt(a, b) = DifferAt(b, a)
  BY DEF DifferAt
<1>3. a < b \/ b < a
  OBVIOUS
<1>4. \E c \in Nat : DifferAt(a, b) = OnesAt(c)
  BY <1>1, <1>2, <1>3
<1> QED
  BY <1>4, OnesAreMany

-----------------------------------------------------------------------------
(* gen_m finds the pair of a group in the standard's table.                *)

\* Where the groups of each difference begin
GroupStart == <<0, 30, 59, 87, 114, 140, 165>>

\* The pair of a group, a difference of q + 1
PairOf(n1, q) ==
  /\ q \in 0..6
  /\ GenM(n1, 0) = n1 - GroupStart[q + 1]
  /\ GenM(n1, 0) \in 0..(29 - q)
  /\ GenM(n1, 1) = GenM(n1, 0) + q + 1

\* What gen_m finds, for its first and its second guess of the difference
Guessed(n1, p, P, q, Q) ==
  /\ n1 \div 30 = p /\ (p * (p + 1)) \div 2 = P /\ (n1 + P) \div 30 = q /\ (q * (q + 1)) \div 2 = Q
  /\ (n1 + Q) \div 31 = q /\ (n1 + Q) % 31 = n1 - GroupStart[q + 1]
  /\ q \in 0..6 /\ n1 - GroupStart[q + 1] \in 0..(29 - q)

\* What it finds is the pair of the group.
LEMMA GuessedPair ==
  ASSUME NEW n1, NEW p, NEW P, NEW q, NEW Q, Guessed(n1, p, P, q, Q)
  PROVE  PairOf(n1, q)
<1> DEFINE m == n1 - GroupStart[q + 1]
           first  == n1 \div 30
           second == (n1 + (first * (first + 1)) \div 2) \div 30
           turn   == n1 + (second * (second + 1)) \div 2
<1>1. GenM(n1, 0) = turn % 31 /\ GenM(n1, 1) = ((turn % 31) + turn \div 31 + 1) % 31
  BY DEF GenM
<1>2. first = p
  BY Zenon DEF Guessed
<1> HIDE DEF first
<1>3. second = (n1 + P) \div 30
  BY <1>2, Zenon DEF Guessed
<1>4. second = q
  BY <1>3, Zenon DEF Guessed
<1> HIDE DEF second
<1>5. turn = n1 + Q
  BY <1>4, Zenon DEF Guessed
<1> HIDE DEF turn
<1>6. turn % 31 = m /\ turn \div 31 = q
  BY <1>5, Zenon DEF Guessed
<1>7. m \in 0..(29 - q) /\ q \in 0..6
  BY Zenon DEF Guessed
<1> HIDE DEF m
<1>8. (m + q + 1) % 31 = m + q + 1
  BY <1>7
<1>9. GenM(n1, 0) = m /\ GenM(n1, 1) = m + q + 1
  BY <1>1, <1>6, <1>8, Zenon
<1> QED
  BY <1>7, <1>9, Zenon DEF PairOf, m

\* Every group has its pair.
LEMMA GroupIs ==
  ASSUME NEW n1 \in CellGroups
  PROVE  \E q : PairOf(n1, q)
<1>1. CASE n1 \in 0..29
  <2>1. n1 \in Nat /\ n1 \div 30 = 0 /\ (n1 + 0) \div 30 = 0 /\ (n1 + 0) \div 31 = 0 /\ 0 \in 0..6 /\ 0 \in Nat
    BY <1>1
  <2>2. (0 * (0 + 1)) \div 2 = 0 /\ (0 * (0 + 1)) \div 2 = 0
    OBVIOUS
  <2>3. GroupStart[0 + 1] = 0
    BY DEF GroupStart
  <2>4. (n1 + 0) % 31 = n1 - 0 /\ n1 - 0 \in 0..(29 - 0)
    BY <1>1
  <2>5. Guessed(n1, 0, 0, 0, 0)
    BY <2>1, <2>2, <2>3, <2>4 DEF Guessed
  <2> QED
    BY <2>5, GuessedPair, Zenon
<1>2. CASE n1 \in 30..58
  <2>1. n1 \in Nat /\ n1 \div 30 = 1 /\ (n1 + 1) \div 30 = 1 /\ (n1 + 1) \div 31 = 1 /\ 1 \in 0..6 /\ 1 \in Nat
    BY <1>2
  <2>2. (1 * (1 + 1)) \div 2 = 1 /\ (1 * (1 + 1)) \div 2 = 1
    OBVIOUS
  <2>3. GroupStart[1 + 1] = 30
    BY DEF GroupStart
  <2>4. (n1 + 1) % 31 = n1 - 30 /\ n1 - 30 \in 0..(29 - 1)
    BY <1>2
  <2>5. Guessed(n1, 1, 1, 1, 1)
    BY <2>1, <2>2, <2>3, <2>4 DEF Guessed
  <2> QED
    BY <2>5, GuessedPair, Zenon
<1>3. CASE n1 \in 59..59
  <2>1. n1 \in Nat /\ n1 \div 30 = 1 /\ (n1 + 1) \div 30 = 2 /\ (n1 + 3) \div 31 = 2 /\ 2 \in 0..6 /\ 3 \in Nat
    BY <1>3
  <2>2. (1 * (1 + 1)) \div 2 = 1 /\ (2 * (2 + 1)) \div 2 = 3
    OBVIOUS
  <2>3. GroupStart[2 + 1] = 59
    BY DEF GroupStart
  <2>4. (n1 + 3) % 31 = n1 - 59 /\ n1 - 59 \in 0..(29 - 2)
    BY <1>3
  <2>5. Guessed(n1, 1, 1, 2, 3)
    BY <2>1, <2>2, <2>3, <2>4 DEF Guessed
  <2> QED
    BY <2>5, GuessedPair, Zenon
<1>4. CASE n1 \in 60..86
  <2>1. n1 \in Nat /\ n1 \div 30 = 2 /\ (n1 + 3) \div 30 = 2 /\ (n1 + 3) \div 31 = 2 /\ 2 \in 0..6 /\ 3 \in Nat
    BY <1>4
  <2>2. (2 * (2 + 1)) \div 2 = 3 /\ (2 * (2 + 1)) \div 2 = 3
    OBVIOUS
  <2>3. GroupStart[2 + 1] = 59
    BY DEF GroupStart
  <2>4. (n1 + 3) % 31 = n1 - 59 /\ n1 - 59 \in 0..(29 - 2)
    BY <1>4
  <2>5. Guessed(n1, 2, 3, 2, 3)
    BY <2>1, <2>2, <2>3, <2>4 DEF Guessed
  <2> QED
    BY <2>5, GuessedPair, Zenon
<1>5. CASE n1 \in 87..89
  <2>1. n1 \in Nat /\ n1 \div 30 = 2 /\ (n1 + 3) \div 30 = 3 /\ (n1 + 6) \div 31 = 3 /\ 3 \in 0..6 /\ 6 \in Nat
    BY <1>5
  <2>2. (2 * (2 + 1)) \div 2 = 3 /\ (3 * (3 + 1)) \div 2 = 6
    OBVIOUS
  <2>3. GroupStart[3 + 1] = 87
    BY DEF GroupStart
  <2>4. (n1 + 6) % 31 = n1 - 87 /\ n1 - 87 \in 0..(29 - 3)
    BY <1>5
  <2>5. Guessed(n1, 2, 3, 3, 6)
    BY <2>1, <2>2, <2>3, <2>4 DEF Guessed
  <2> QED
    BY <2>5, GuessedPair, Zenon
<1>6. CASE n1 \in 90..113
  <2>1. n1 \in Nat /\ n1 \div 30 = 3 /\ (n1 + 6) \div 30 = 3 /\ (n1 + 6) \div 31 = 3 /\ 3 \in 0..6 /\ 6 \in Nat
    BY <1>6
  <2>2. (3 * (3 + 1)) \div 2 = 6 /\ (3 * (3 + 1)) \div 2 = 6
    OBVIOUS
  <2>3. GroupStart[3 + 1] = 87
    BY DEF GroupStart
  <2>4. (n1 + 6) % 31 = n1 - 87 /\ n1 - 87 \in 0..(29 - 3)
    BY <1>6
  <2>5. Guessed(n1, 3, 6, 3, 6)
    BY <2>1, <2>2, <2>3, <2>4 DEF Guessed
  <2> QED
    BY <2>5, GuessedPair, Zenon
<1>7. CASE n1 \in 114..119
  <2>1. n1 \in Nat /\ n1 \div 30 = 3 /\ (n1 + 6) \div 30 = 4 /\ (n1 + 10) \div 31 = 4 /\ 4 \in 0..6 /\ 10 \in Nat
    BY <1>7
  <2>2. (3 * (3 + 1)) \div 2 = 6 /\ (4 * (4 + 1)) \div 2 = 10
    OBVIOUS
  <2>3. GroupStart[4 + 1] = 114
    BY DEF GroupStart
  <2>4. (n1 + 10) % 31 = n1 - 114 /\ n1 - 114 \in 0..(29 - 4)
    BY <1>7
  <2>5. Guessed(n1, 3, 6, 4, 10)
    BY <2>1, <2>2, <2>3, <2>4 DEF Guessed
  <2> QED
    BY <2>5, GuessedPair, Zenon
<1>8. CASE n1 \in 120..139
  <2>1. n1 \in Nat /\ n1 \div 30 = 4 /\ (n1 + 10) \div 30 = 4 /\ (n1 + 10) \div 31 = 4 /\ 4 \in 0..6 /\ 10 \in Nat
    BY <1>8
  <2>2. (4 * (4 + 1)) \div 2 = 10 /\ (4 * (4 + 1)) \div 2 = 10
    OBVIOUS
  <2>3. GroupStart[4 + 1] = 114
    BY DEF GroupStart
  <2>4. (n1 + 10) % 31 = n1 - 114 /\ n1 - 114 \in 0..(29 - 4)
    BY <1>8
  <2>5. Guessed(n1, 4, 10, 4, 10)
    BY <2>1, <2>2, <2>3, <2>4 DEF Guessed
  <2> QED
    BY <2>5, GuessedPair, Zenon
<1>9. CASE n1 \in 140..149
  <2>1. n1 \in Nat /\ n1 \div 30 = 4 /\ (n1 + 10) \div 30 = 5 /\ (n1 + 15) \div 31 = 5 /\ 5 \in 0..6 /\ 15 \in Nat
    BY <1>9
  <2>2. (4 * (4 + 1)) \div 2 = 10 /\ (5 * (5 + 1)) \div 2 = 15
    OBVIOUS
  <2>3. GroupStart[5 + 1] = 140
    BY DEF GroupStart
  <2>4. (n1 + 15) % 31 = n1 - 140 /\ n1 - 140 \in 0..(29 - 5)
    BY <1>9
  <2>5. Guessed(n1, 4, 10, 5, 15)
    BY <2>1, <2>2, <2>3, <2>4 DEF Guessed
  <2> QED
    BY <2>5, GuessedPair, Zenon
<1>10. CASE n1 \in 150..164
  <2>1. n1 \in Nat /\ n1 \div 30 = 5 /\ (n1 + 15) \div 30 = 5 /\ (n1 + 15) \div 31 = 5 /\ 5 \in 0..6 /\ 15 \in Nat
    BY <1>10
  <2>2. (5 * (5 + 1)) \div 2 = 15 /\ (5 * (5 + 1)) \div 2 = 15
    OBVIOUS
  <2>3. GroupStart[5 + 1] = 140
    BY DEF GroupStart
  <2>4. (n1 + 15) % 31 = n1 - 140 /\ n1 - 140 \in 0..(29 - 5)
    BY <1>10
  <2>5. Guessed(n1, 5, 15, 5, 15)
    BY <2>1, <2>2, <2>3, <2>4 DEF Guessed
  <2> QED
    BY <2>5, GuessedPair, Zenon
<1>11. CASE n1 \in 165..167
  <2>1. n1 \in Nat /\ n1 \div 30 = 5 /\ (n1 + 15) \div 30 = 6 /\ (n1 + 21) \div 31 = 6 /\ 6 \in 0..6 /\ 21 \in Nat
    BY <1>11
  <2>2. (5 * (5 + 1)) \div 2 = 15 /\ (6 * (6 + 1)) \div 2 = 21
    OBVIOUS
  <2>3. GroupStart[6 + 1] = 165
    BY DEF GroupStart
  <2>4. (n1 + 21) % 31 = n1 - 165 /\ n1 - 165 \in 0..(29 - 6)
    BY <1>11
  <2>5. Guessed(n1, 5, 15, 6, 21)
    BY <2>1, <2>2, <2>3, <2>4 DEF Guessed
  <2> QED
    BY <2>5, GuessedPair, Zenon
<1> QED
  BY <1>1, <1>2, <1>3, <1>4, <1>5, <1>6, <1>7, <1>8, <1>9, <1>10, <1>11 DEF CellGroups

\* The pairs below a difference, and those of a difference whose first is below w
AllPairs == (0..30) \X (1..30)
PairsBelow(k) == {pair \in AllPairs : pair[1] + pair[2] <= 30 /\ pair[2] < k}
PairsAt(k, w) == {pair \in AllPairs : pair[2] = k /\ pair[1] < w}

\* They are as many as their first entries.
LEMMA PairsAtCount ==
  ASSUME NEW k \in 1..30, NEW w \in 0..(31 - k)
  PROVE  IsFiniteSet(PairsAt(k, w)) /\ Cardinality(PairsAt(k, w)) = w
<1> DEFINE A == 0..(w - 1)
           B == {k}
<1>1. IsFiniteSet(A) /\ Cardinality(A) = w
  <2>1. 0 \in Int /\ w - 1 \in Int /\ (0 > w - 1 <=> w = 0) /\ (w - 1) - 0 + 1 = w
    OBVIOUS
  <2> QED
    BY <2>1, FS_Interval
<1>2. IsFiniteSet(B) /\ Cardinality(B) = 1
  BY FS_Singleton, Zenon
<1>3. PairsAt(k, w) = A \X B
  BY DEF PairsAt, AllPairs
<1> HIDE DEF A, B
<1>4. IsFiniteSet(A \X B) /\ Cardinality(A \X B) = Cardinality(A) * Cardinality(B)
  BY <1>1, <1>2, FS_Product
<1> QED
  BY <1>1, <1>2, <1>3, <1>4

\* More of one difference are added to all below it.
LEMMA PairsAdd ==
  ASSUME NEW k \in 1..30, NEW w \in 0..(31 - k), IsFiniteSet(PairsBelow(k)), NEW c \in Nat, Cardinality(PairsBelow(k)) = c
  PROVE  IsFiniteSet(PairsBelow(k) \cup PairsAt(k, w)) /\ Cardinality(PairsBelow(k) \cup PairsAt(k, w)) = c + w
<1>1. PairsBelow(k) \cap PairsAt(k, w) = {}
  BY DEF PairsBelow, PairsAt
<1>2. IsFiniteSet(PairsAt(k, w)) /\ Cardinality(PairsAt(k, w)) = w
  BY PairsAtCount
<1>3. Cardinality({}) = 0
  BY FS_EmptySet, Zenon
<1> DEFINE A == PairsBelow(k)
           B == PairsAt(k, w)
<1>4. IsFiniteSet(A \cup B) /\ Cardinality(A \cup B) = Cardinality(A) + Cardinality(B) - Cardinality(A \cap B)
  <2>1. IsFiniteSet(A) /\ IsFiniteSet(B)
    BY <1>2
  <2> HIDE DEF A, B
  <2> QED
    BY <2>1, FS_Union
<1> QED
  BY <1>1, <1>2, <1>3, <1>4

\* Their number
BelowCount(k, c) == IsFiniteSet(PairsBelow(k)) /\ Cardinality(PairsBelow(k)) = c

\* A difference more adds the pairs that have it.
LEMMA NextBelow ==
  ASSUME NEW k \in 1..30, NEW c \in Nat, BelowCount(k, c)
  PROVE  BelowCount(k + 1, c + 31 - k)
<1>1. PairsBelow(k + 1) = PairsBelow(k) \cup PairsAt(k, 31 - k)
  <2>1. ASSUME NEW a \in 0..30, NEW d \in 1..30 PROVE a + d <= 30 /\ d < k + 1 <=> (a + d <= 30 /\ d < k) \/ (d = k /\ a < 31 - k)
    OBVIOUS
  <2>2. ASSUME NEW pair \in AllPairs PROVE pair \in PairsBelow(k + 1) <=> pair \in PairsBelow(k) \cup PairsAt(k, 31 - k)
    <3>1. pair[1] \in 0..30 /\ pair[2] \in 1..30
      BY DEF AllPairs
    <3> QED
      BY <2>1, <3>1, Zenon DEF PairsBelow, PairsAt
  <2> QED
    BY <2>2 DEF PairsBelow, PairsAt
<1>2. 31 - k \in 0..(31 - k)
  OBVIOUS
<1>3. IsFiniteSet(PairsBelow(k) \cup PairsAt(k, 31 - k)) /\ Cardinality(PairsBelow(k) \cup PairsAt(k, 31 - k)) = c + (31 - k)
  BY <1>2, PairsAdd DEF BelowCount
<1> QED
  BY <1>1, <1>3 DEF BelowCount

\* The groups of each difference begin after the pairs below it.
LEMMA BelowAre == \A q \in 0..6 : BelowCount(q + 1, GroupStart[q + 1])
<1>1. BelowCount(1, 0)
  <2>1. PairsBelow(1) = {}
    BY DEF PairsBelow, AllPairs
  <2> QED
    BY <2>1, FS_EmptySet, Zenon DEF BelowCount
<1>2. BelowCount(2, 30)
  BY <1>1, NextBelow
<1>3. BelowCount(3, 59)
  BY <1>2, NextBelow
<1>4. BelowCount(4, 87)
  BY <1>3, NextBelow
<1>5. BelowCount(5, 114)
  BY <1>4, NextBelow
<1>6. BelowCount(6, 140)
  BY <1>5, NextBelow
<1>7. BelowCount(7, 165)
  BY <1>6, NextBelow
<1> QED
  BY <1>1, <1>2, <1>3, <1>4, <1>5, <1>6, <1>7 DEF GroupStart

\* Pairs before (m0, m1), of the difference k
PairsBefore(m0, k) == {pair \in (0..30) \X (1..30) : /\ pair[1] + pair[2] <= 30
                                                     /\ \/ pair[2] < k
                                                        \/ pair[2] = k /\ pair[1] < m0}

\* A group is as many places down the table as it says.
LEMMA GroupIsNumbered ==
  ASSUME NEW n1 \in CellGroups
  PROVE  Cardinality(PairsBefore(GenM(n1, 0), GenM(n1, 1) - GenM(n1, 0))) = n1
<1>1. PICK q : PairOf(n1, q)
  BY GroupIs
<1> DEFINE k == q + 1
           w == GenM(n1, 0)
           c == GroupStart[q + 1]
<1>2. k \in 1..30 /\ w \in 0..(31 - k) /\ GenM(n1, 1) - GenM(n1, 0) = k /\ w = n1 - c
  BY <1>1 DEF PairOf
<1>3. BelowCount(k, c)
  BY <1>1, BelowAre DEF PairOf
<1>4. c \in Nat /\ n1 \in Nat
  BY <1>1 DEF PairOf, GroupStart, CellGroups
<1> HIDE DEF k, w, c
<1>5. PairsBefore(w, k) = PairsBelow(k) \cup PairsAt(k, w)
  <2>1. ASSUME NEW a \in 0..30, NEW d \in 1..30
        PROVE  a + d <= 30 /\ (d < k \/ (d = k /\ a < w)) <=> (a + d <= 30 /\ d < k) \/ (d = k /\ a < w)
    BY <1>2
  <2>2. ASSUME NEW pair \in AllPairs PROVE pair \in PairsBefore(w, k) <=> pair \in PairsBelow(k) \cup PairsAt(k, w)
    <3>1. pair[1] \in 0..30 /\ pair[2] \in 1..30
      BY DEF AllPairs
    <3> QED
      BY <2>1, <3>1, Zenon DEF PairsBelow, PairsAt, PairsBefore, AllPairs
  <2> QED
    BY <2>2 DEF PairsBelow, PairsAt, PairsBefore, AllPairs
<1>6. Cardinality(PairsBelow(k) \cup PairsAt(k, w)) = c + w
  BY <1>2, <1>3, <1>4, PairsAdd DEF BelowCount
<1>7. Cardinality(PairsBefore(w, k)) = n1
  <2>1. c + w = n1
    BY <1>2, <1>4
  <2> QED
    BY <1>5, <1>6, <2>1
<1>8. GenM(n1, 1) - GenM(n1, 0) = k
  BY <1>2
<1> QED
  BY <1>7, <1>8, Zenon DEF w

\* Groups that have the same pair are the same; one pair is not another turned round.
LEMMA PairsApart ==
  ASSUME NEW a \in CellGroups, NEW b \in CellGroups
  PROVE  /\ GenM(a, 0) \in 0..30 /\ GenM(a, 1) \in 0..30
         /\ GenM(a, 0) = GenM(b, 0) /\ GenM(a, 1) = GenM(b, 1) => a = b
         /\ ~(GenM(a, 0) = GenM(b, 1) /\ GenM(a, 1) = GenM(b, 0))
<1>1. PICK q : PairOf(a, q)
  BY GroupIs
<1>2. PICK r : PairOf(b, r)
  BY GroupIs
<1> DEFINE u == GenM(a, 0)
           v == GenM(a, 1)
           x == GenM(b, 0)
           y == GenM(b, 1)
<1>9. u \in 0..30 /\ q \in Int /\ v = u + q + 1 /\ q >= 0
  BY <1>1 DEF PairOf
<1>10. x \in 0..30 /\ r \in Int /\ y = x + r + 1 /\ r >= 0
  BY <1>2 DEF PairOf
<1>3. q \in 0..6 /\ u = a - GroupStart[q + 1] /\ u \in 0..(29 - q) /\ v = u + q + 1
  BY <1>1 DEF PairOf
<1>4. r \in 0..6 /\ x = b - GroupStart[r + 1] /\ x \in 0..(29 - r) /\ y = x + r + 1
  BY <1>2 DEF PairOf
<1>5. a \in Int /\ b \in Int /\ GroupStart[q + 1] \in Int /\ GroupStart[r + 1] \in Int
  BY <1>3, <1>4 DEF GroupStart, CellGroups
<1> HIDE DEF u, v, x, y
<1>6. u \in 0..30 /\ v \in 0..30
  BY <1>3
<1>7. u = x /\ v = y => a = b
  <2> SUFFICES ASSUME u = x, v = y PROVE a = b
    OBVIOUS
  <2>1. q = r
    <3> SUFFICES u + q + 1 = u + r + 1
      BY <1>9, <1>10
    <3> QED
      BY <1>9, <1>10
  <2> DEFINE c == GroupStart[q + 1]
  <2>2. u = a - c /\ u = b - c /\ c \in Int
    BY <1>3, <1>4, <1>5, <2>1, Zenon
  <2> HIDE DEF c
  <2> QED
    BY <1>5, <2>2
<1>8. ~(u = y /\ v = x)
  BY <1>9, <1>10
<1> QED
  BY <1>6, <1>7, <1>8 DEF u, v, x, y

-----------------------------------------------------------------------------
(* Two cells of an identity have registers sixteen bits apart.             *)

\* The sequences of 6.11.2.1, all round
Signs == {-1, 1}
SSign(n) == STilda[(n % 31) + 1]
CSign(n) == CTilda[(n % 31) + 1]
ZSign(n) == ZTilda[(n % 31) + 1]

\* Sequences of signs
LEMMA TildaSigns ==
  ASSUME NEW taps \in SUBSET (0..4)
  PROVE  \A i \in 1..31 : Tilda(taps)[i] \in Signs
<1>1. PICK b : TildaBits(b, taps) /\ Tilda(taps) = [i \in 1..31 |-> 1 - 2 * b[i]]
  BY TildaIs
<1>2. ASSUME NEW i \in 1..31 PROVE Tilda(taps)[i] \in Signs
  <2>1. b[i] \in {0, 1}
    BY <1>1 DEF TildaBits
  <2>2. Tilda(taps)[i] = 1 - 2 * b[i]
    BY <1>1
  <2> QED
    BY <2>1, <2>2 DEF Signs
<1> QED
  BY <1>2

\* Every entry is a sign.
LEMMA SignsAre ==
  ASSUME NEW n \in Nat
  PROVE  SSign(n) = 1 - 2 * SBit(n) /\ SSign(n) \in Signs /\ CSign(n) \in Signs /\ ZSign(n) \in Signs
<1>1. (n % 31) + 1 \in 1..31
  OBVIOUS
<1>2. SSign(n) = 1 - 2 * SBit(n)
  <2>1. STilda[(n % 31) + 1] = 1 - 2 * SBits[(n % 31) + 1]
    BY <1>1, STildaIs
  <2> QED
    BY <2>1, Zenon DEF SSign, SBit
<1>3. SBit(n) \in {0, 1}
  BY SBitOf
<1>4. SSign(n) \in Signs
  BY <1>2, <1>3 DEF Signs
<1>5. CSign(n) \in Signs
  <2>1. {0, 3} \in SUBSET (0..4)
    OBVIOUS
  <2> QED
    BY <1>1, <2>1, TildaSigns, Zenon DEF CSign, CTilda
<1>6. ZSign(n) \in Signs
  <2>1. {0, 1, 2, 4} \in SUBSET (0..4)
    OBVIOUS
  <2> QED
    BY <1>1, <2>1, TildaSigns, Zenon DEF ZSign, ZTilda
<1> QED
  BY <1>2, <1>4, <1>5, <1>6

\* The shifts of a group in each half of a frame
FirstShift(n1, half) == IF half = 0 THEN GenM(n1, 0) ELSE GenM(n1, 1)
SecondShift(n1, half) == IF half = 0 THEN GenM(n1, 1) ELSE GenM(n1, 0)
EvenSign(n, first, n2) == SSign(n + first) * CSign(n + n2)
OddSign(n, first, second, n2) == SSign(n + second) * CSign(n + n2 + 3) * ZSign(n + (first % 8))

\* A sequence alternates between them.
SssSign(n1, n2, half, i) ==
  IF i % 2 = 1 THEN EvenSign(i \div 2, FirstShift(n1, half), n2)
  ELSE OddSign(i \div 2 - 1, FirstShift(n1, half), SecondShift(n1, half), n2)

\* Shifts are those of the sequences.
LEMMA ShiftsAre ==
  ASSUME NEW n1 \in CellGroups, NEW half \in HalfFrames
  PROVE  FirstShift(n1, half) \in 0..30 /\ SecondShift(n1, half) \in 0..30
  BY PairsApart DEF FirstShift, SecondShift

\* A product of signs is one.
LEMMA ProductOfSigns == \A x, y \in Signs : x * y \in Signs
  BY DEF Signs

\* What lte_gen_sss gives has these signs.
LEMMA SssIs ==
  ASSUME NEW n1 \in CellGroups, NEW n2 \in Identities, NEW half \in HalfFrames
  PROVE  /\ Sss(n1, n2, half) = [i \in 1..62 |-> SssSign(n1, n2, half, i)]
         /\ \A i \in 1..62 : SssSign(n1, n2, half, i) \in Signs
<1> DEFINE f == FirstShift(n1, half)
           s == SecondShift(n1, half)
           d == [i \in 1..62 |-> SssSign(n1, n2, half, i)]
<1>1. f \in Nat /\ s \in Nat /\ f % 8 \in Nat /\ n2 \in Nat
  <2>1. f \in 0..30 /\ s \in 0..30
    BY ShiftsAre
  <2> HIDE DEF f, s
  <2> QED
    BY <2>1 DEF Identities
<1>2. ASSUME NEW i \in 1..62 PROVE SssSign(n1, n2, half, i) \in Signs
  <2> HIDE DEF f, s
  <2>1. CASE i % 2 = 1
    <3> DEFINE n == i \div 2
    <3>1. n \in Nat /\ n + f \in Nat /\ n + n2 \in Nat
      BY <1>1
    <3> HIDE DEF n
    <3>2. SSign(n + f) \in Signs /\ CSign(n + n2) \in Signs
      BY <3>1, SignsAre
    <3>3. EvenSign(n, f, n2) \in Signs
      BY <3>2, ProductOfSigns, Zenon DEF EvenSign
    <3> QED
      BY <2>1, <3>3, Zenon DEF SssSign, n, f
  <2>2. CASE i % 2 # 1
    <3> DEFINE n == i \div 2 - 1
    <3>1. n \in Nat
      BY <2>2
    <3> HIDE DEF n
    <3>2. n + s \in Nat /\ n + n2 + 3 \in Nat /\ n + (f % 8) \in Nat
      BY <1>1, <3>1
    <3>3. SSign(n + s) \in Signs /\ CSign(n + n2 + 3) \in Signs /\ ZSign(n + (f % 8)) \in Signs
      BY <3>2, SignsAre
    <3>4. OddSign(n, f, s, n2) \in Signs
      BY <3>3, ProductOfSigns, Zenon DEF OddSign
    <3> QED
      BY <2>2, <3>4, Zenon DEF SssSign, n, f, s
  <2> QED
    BY <2>1, <2>2
<1>3. d \o << >> = d
  <2>1. d \in Seq(Signs)
    BY <1>2
  <2> HIDE DEF d
  <2> QED
    BY <2>1
<1>4. Sss(n1, n2, half) = d \o << >>
  BY Zenon DEF Sss, SssSign, EvenSign, OddSign, SSign, CSign, ZSign, FirstShift, SecondShift
<1> QED
  BY <1>2, <1>3, <1>4, Zenon

\* The bit of the register for each place of a sequence
BitOfPlace(i) == IF i <= 31 THEN 32 + i ELSE i - 31

\* A bit of the register is one where the sign is positive.
LEMMA PlacesOfBits ==
  ASSUME NEW n1 \in CellGroups, NEW n2 \in Identities, NEW half \in HalfFrames
  PROVE  /\ SssRegister(n1, n2, half) \in SUBSET (0..63)
         /\ \A i \in 1..62 : BitOfPlace(i) \in SssRegister(n1, n2, half) <=> SssSign(n1, n2, half, i) > 0
<1> DEFINE d == Sss(n1, n2, half)
           reg == SssRegister(n1, n2, half)
<1>1. \A i \in 1..62 : d[i] = SssSign(n1, n2, half, i)
  BY SssIs
<1>2. reg = {0, 32} \cup {32 + n : n \in {k \in 1..31 : d[k] > 0}} \cup {n : n \in {k \in 1..31 : d[31 + k] > 0}}
  BY Zenon DEF SssRegister
<1> HIDE DEF d, reg
<1>3. \A e : e \in reg <=> e = 0 \/ e = 32 \/ (\E k \in 1..31 : d[k] > 0 /\ e = 32 + k) \/ (e \in 1..31 /\ d[31 + e] > 0)
  BY <1>2
<1>4. ASSUME NEW e \in reg PROVE e \in 0..63
  BY <1>3
<1>5. ASSUME NEW i \in 1..62 PROVE BitOfPlace(i) \in reg <=> d[i] > 0
  <2>1. CASE i \in 1..31
    <3>1. BitOfPlace(i) = 32 + i
      BY <2>1 DEF BitOfPlace
    <3>2. 32 + i # 0 /\ 32 + i # 32 /\ 32 + i \notin 1..31 /\ \A k \in 1..31 : 32 + i = 32 + k <=> k = i
      BY <2>1
    <3> QED
      BY <1>3, <2>1, <3>1, <3>2
  <2>2. CASE i \in 32..62
    <3>1. BitOfPlace(i) = i - 31
      BY <2>2 DEF BitOfPlace
    <3>2. i - 31 # 0 /\ i - 31 # 32 /\ i - 31 \in 1..31 /\ 31 + (i - 31) = i /\ \A k \in 1..31 : i - 31 # 32 + k
      BY <2>2
    <3> QED
      BY <1>3, <3>1, <3>2
  <2> QED
    BY <2>1, <2>2
<1>6. reg \in SUBSET (0..63)
  BY <1>4
<1> QED
  BY <1>1, <1>5, <1>6, Zenon DEF reg

\* The distance of two registers is the number of their different bits.
LEMMA DistanceIs ==
  ASSUME NEW a, NEW b, IsFiniteSet(a), IsFiniteSet(b)
  PROVE  IsFiniteSet(XorSet(a, b)) /\ Distance(a, b) = Cardinality(XorSet(a, b)) /\ Distance(a, b) \in Nat
<1> DEFINE x == a \ b
           y == b \ a
<1>1. IsFiniteSet(x) /\ IsFiniteSet(y)
  BY FS_Difference
<1>2. x \cap y = {} /\ XorSet(a, b) = x \cup y
  BY DEF XorSet
<1>3. Distance(a, b) = Cardinality(x) + Cardinality(y)
  BY DEF Distance
<1> HIDE DEF x, y
<1>4. IsFiniteSet(x \cup y) /\ Cardinality(x \cup y) = Cardinality(x) + Cardinality(y) - Cardinality(x \cap y)
  BY <1>1, FS_Union
<1>5. Cardinality({}) = 0
  BY FS_EmptySet, Zenon
<1>6. Cardinality(x) \in Nat /\ Cardinality(y) \in Nat
  BY <1>1, FS_CardinalityType
<1>7. Cardinality(x \cap y) = 0
  BY <1>2, <1>5
<1>8. Cardinality(x \cup y) = Cardinality(x) + Cardinality(y)
  BY <1>4, <1>6, <1>7
<1>9. Cardinality(x) + Cardinality(y) \in Nat
  BY <1>6
<1> QED
  BY <1>2, <1>3, <1>4, <1>8, <1>9, Zenon

\* Registers that differ in other ones' bits are as far apart as they are together.
LEMMA DistancesAdd ==
  ASSUME NEW a, NEW b, NEW c, IsFiniteSet(a), IsFiniteSet(b), IsFiniteSet(c)
  PROVE  Distance(a, c) <= Distance(a, b) + Distance(b, c)
<1> DEFINE x == XorSet(a, b)
           y == XorSet(b, c)
           z == XorSet(a, c)
<1>1. /\ IsFiniteSet(x) /\ Distance(a, b) = Cardinality(x) /\ Distance(a, b) \in Nat
      /\ IsFiniteSet(y) /\ Distance(b, c) = Cardinality(y) /\ Distance(b, c) \in Nat
      /\ IsFiniteSet(z) /\ Distance(a, c) = Cardinality(z) /\ Distance(a, c) \in Nat
  BY DistanceIs
<1>2. z \in SUBSET (x \cup y)
  BY DEF XorSet
<1> HIDE DEF x, y, z
<1>3. IsFiniteSet(x \cup y) /\ Cardinality(x \cup y) = Cardinality(x) + Cardinality(y) - Cardinality(x \cap y)
  BY <1>1, FS_Union
<1>4. Cardinality(z) <= Cardinality(x \cup y)
  BY <1>2, <1>3, FS_Subset
<1>5. Cardinality(x \cap y) \in Nat
  <2>1. IsFiniteSet(x \cap y)
    BY <1>1, FS_Intersection
  <2> QED
    BY <2>1, FS_CardinalityType
<1> QED
  BY <1>1, <1>3, <1>4, <1>5

\* Different even places, or odd ones, are different bits.
LEMMA PlacesAreBits ==
  ASSUME NEW D \in SUBSET (0..30), NEW p \in {1, 2}, NEW X, IsFiniteSet(X),
         \A n \in D : BitOfPlace(2 * n + p) \in X
  PROVE  Cardinality(D) <= Cardinality(X)
<1> DEFINE f == [n \in D |-> BitOfPlace(2 * n + p)]
<1>1. f \in [D -> X]
  OBVIOUS
<1>2. ASSUME NEW m \in D, NEW n \in D, f[m] = f[n] PROVE m = n
  <2>1. m \in 0..30 /\ n \in 0..30
    OBVIOUS
  <2>2. BitOfPlace(2 * m + p) = BitOfPlace(2 * n + p)
    BY <1>2
  <2>3. \A i, j \in 1..62 : BitOfPlace(i) = BitOfPlace(j) => i = j
    BY DEF BitOfPlace
  <2>4. 2 * m + p \in 1..62 /\ 2 * n + p \in 1..62
    BY <2>1
  <2>5. 2 * m + p = 2 * n + p
    BY <2>2, <2>3, <2>4
  <2> QED
    BY <2>1, <2>5
<1> HIDE DEF f
<1>3. f \in Injection(D, X)
  BY <1>1, <1>2 DEF Injection, IsInjective
<1> QED
  BY <1>3, FS_Injection

\* Products that share a sign differ where the other ones do.
LEMMA SignsDiffer == \A x, y, z \in Signs : x # y => (x * z > 0 <=> ~(y * z > 0))
  BY DEF Signs

\* Two registers of the same identity differ in sixteen bits.
LEMMA RegistersApart ==
  ASSUME NEW n2 \in Identities, NEW a \in CellGroups, NEW g \in HalfFrames, NEW b \in CellGroups, NEW h \in HalfFrames,
         ~(a = b /\ g = h)
  PROVE  Distance(SssRegister(a, n2, g), SssRegister(b, n2, h)) >= 16
<1> DEFINE F == FirstShift(a, g)
           S == SecondShift(a, g)
           G == FirstShift(b, h)
           T == SecondShift(b, h)
           X == XorSet(SssRegister(a, n2, g), SssRegister(b, n2, h))
           Differ(i) == SssSign(a, n2, g, i) > 0 <=> ~(SssSign(b, n2, h, i) > 0)
<1>1. F \in 0..30 /\ S \in 0..30 /\ G \in 0..30 /\ T \in 0..30
  BY ShiftsAre
<1>2. F # G \/ S # T
  <2>1. g = 0 \/ g = 5
    BY DEF HalfFrames
  <2>2. h = 0 \/ h = 5
    BY DEF HalfFrames
  <2>3. /\ GenM(a, 0) = GenM(b, 0) /\ GenM(a, 1) = GenM(b, 1) => a = b
        /\ ~(GenM(a, 0) = GenM(b, 1) /\ GenM(a, 1) = GenM(b, 0))
    BY PairsApart
  <2> QED
    BY <2>1, <2>2, <2>3 DEF FirstShift, SecondShift
<1>3. /\ IsFiniteSet(X) /\ Distance(SssRegister(a, n2, g), SssRegister(b, n2, h)) = Cardinality(X)
      /\ Cardinality(X) \in Nat
  <2>1. IsFiniteSet(0..63)
    <3>1. 0 \in Int /\ 63 \in Int
      OBVIOUS
    <3> QED
      BY <3>1, FS_Interval, Zenon
  <2>2. IsFiniteSet(SssRegister(a, n2, g)) /\ IsFiniteSet(SssRegister(b, n2, h))
    BY <2>1, PlacesOfBits, FS_Subset
  <2> QED
    BY <2>2, DistanceIs
<1>4. ASSUME NEW i \in 1..62, Differ(i) PROVE BitOfPlace(i) \in X
  <2>1. BitOfPlace(i) \in SssRegister(a, n2, g) <=> SssSign(a, n2, g, i) > 0
    BY PlacesOfBits
  <2>2. BitOfPlace(i) \in SssRegister(b, n2, h) <=> SssSign(b, n2, h, i) > 0
    BY PlacesOfBits
  <2> QED
    BY <1>4, <2>1, <2>2, Zenon DEF XorSet
<1>5. n2 \in Nat
  BY DEF Identities
<1> HIDE DEF X
<1>6. CASE F # G
  <2> HIDE DEF F, G
  <2>1. ASSUME NEW n \in DifferAt(F, G) PROVE BitOfPlace(2 * n + 1) \in X
    <3>1. n \in 0..30 /\ SBit(n + F) # SBit(n + G)
      BY DEF DifferAt
    <3> DEFINE i == 2 * n + 1
    <3>2. i \in 1..62 /\ i % 2 = 1 /\ i \div 2 = n
      BY <3>1
    <3> HIDE DEF i
    <3>3. SssSign(a, n2, g, i) = SSign(n + F) * CSign(n + n2) /\ SssSign(b, n2, h, i) = SSign(n + G) * CSign(n + n2)
      BY <3>2, Zenon DEF SssSign, EvenSign, F, G
    <3>4. n + F \in Nat /\ n + G \in Nat /\ n + n2 \in Nat
      BY <1>1, <1>5, <3>1
    <3>5. /\ SSign(n + F) \in Signs /\ SSign(n + G) \in Signs /\ CSign(n + n2) \in Signs
          /\ SSign(n + F) = 1 - 2 * SBit(n + F) /\ SSign(n + G) = 1 - 2 * SBit(n + G)
      BY <3>4, SignsAre
    <3>6. SBit(n + F) \in {0, 1} /\ SBit(n + G) \in {0, 1}
      BY <3>4, SBitOf
    <3>7. SSign(n + F) # SSign(n + G)
      BY <3>1, <3>5, <3>6
    <3>9. SSign(n + F) * CSign(n + n2) > 0 <=> ~(SSign(n + G) * CSign(n + n2) > 0)
      BY <3>5, <3>7, SignsDiffer, Zenon
    <3>8. Differ(i)
      BY <3>3, <3>9, Zenon
    <3> QED
      BY <1>4, <3>2, <3>8 DEF i
  <2>2. IsFiniteSet(DifferAt(F, G)) /\ Cardinality(DifferAt(F, G)) \in Nat /\ Cardinality(DifferAt(F, G)) >= 16
    BY <1>1, <1>6, ShiftsDiffer
  <2>3. DifferAt(F, G) \in SUBSET (0..30)
    BY DEF DifferAt
  <2>4. Cardinality(DifferAt(F, G)) <= Cardinality(X)
    BY <1>3, <2>1, <2>3, PlacesAreBits
  <2> QED
    BY <1>3, <2>2, <2>4
<1>7. CASE F = G /\ S # T
  <2> HIDE DEF F, G, S, T
  <2>1. ASSUME NEW n \in DifferAt(S, T) PROVE BitOfPlace(2 * n + 2) \in X
    <3>1. n \in 0..30 /\ SBit(n + S) # SBit(n + T)
      BY DEF DifferAt
    <3> DEFINE i == 2 * n + 2
               c == n + n2 + 3
               z == n + (F % 8)
    <3>2. i \in 1..62 /\ i % 2 # 1 /\ i \div 2 - 1 = n
      BY <3>1
    <3>4. n + S \in Nat /\ n + T \in Nat /\ c \in Nat /\ z \in Nat
      BY <1>1, <1>5, <3>1
    <3> HIDE DEF i
    <3>3. SssSign(a, n2, g, i) = SSign(n + S) * CSign(c) * ZSign(z) /\ SssSign(b, n2, h, i) = SSign(n + T) * CSign(c) * ZSign(z)
      BY <1>7, <3>2, Zenon DEF SssSign, OddSign, F, G, S, T
    <3> HIDE DEF c, z
    <3>5. /\ SSign(n + S) \in Signs /\ SSign(n + T) \in Signs /\ CSign(c) \in Signs /\ ZSign(z) \in Signs
          /\ SSign(n + S) = 1 - 2 * SBit(n + S) /\ SSign(n + T) = 1 - 2 * SBit(n + T)
      BY <3>4, SignsAre
    <3>6. SBit(n + S) \in {0, 1} /\ SBit(n + T) \in {0, 1}
      BY <3>4, SBitOf
    <3>7. SSign(n + S) # SSign(n + T)
      BY <3>1, <3>5, <3>6
    <3>8. \A x, y, u, v \in Signs : x # y => (x * u * v > 0 <=> ~(y * u * v > 0))
      BY DEF Signs
    <3>10. SSign(n + S) * CSign(c) * ZSign(z) > 0 <=> ~(SSign(n + T) * CSign(c) * ZSign(z) > 0)
      BY <3>5, <3>7, <3>8, Zenon
    <3>9. Differ(i)
      BY <3>3, <3>10, Zenon
    <3> QED
      BY <1>4, <3>2, <3>9 DEF i
  <2>2. IsFiniteSet(DifferAt(S, T)) /\ Cardinality(DifferAt(S, T)) \in Nat /\ Cardinality(DifferAt(S, T)) >= 16
    BY <1>1, <1>7, ShiftsDiffer
  <2>3. DifferAt(S, T) \in SUBSET (0..30)
    BY DEF DifferAt
  <2>4. Cardinality(DifferAt(S, T)) <= Cardinality(X)
    BY <1>3, <2>1, <2>3, PlacesAreBits
  <2> QED
    BY <1>3, <2>2, <2>4
<1> QED
  BY <1>2, <1>6, <1>7

-----------------------------------------------------------------------------
(* A register is named although some bits are wrong.                        *)

\* What lte_sss_detect says of a cell
SssNamed(n1, n2, half) == [n_id_1 |-> n1, n_id_cell |-> 3 * n1 + n2, dn |-> half]

\* With seven wrong bits a register is nearer to its own cell than to any other.
LEMMA CellIsNearest ==
  ASSUME NEW n1 \in CellGroups, NEW n2 \in Identities, NEW half \in HalfFrames, NEW bad, IsFiniteSet(bad), Cardinality(bad) <= 7
  PROVE  SssDetect(SssTable, n2, XorSet(SssRegister(n1, n2, half), bad)) = SssNamed(n1, n2, half)
<1> DEFINE sent == SssRegister(n1, n2, half)
           reg == XorSet(sent, bad)
           D(a, g) == Distance(reg, SssRegister(a, n2, g))
           all  == {<<Distance(reg, t.reg), t.n1, t.half>> : t \in {u \in SssTable : u.n2 = n2}}
           min  == CHOOSE e \in {a[1] : a \in all} : \A a \in all : e <= a[1]
           near == {a \in all : a[1] = min}
           found == CHOOSE a \in near : \A other \in near : 10 * a[2] + a[3] <= 10 * other[2] + other[3]
           own == <<D(n1, half), n1, half>>
<1>1. IsFiniteSet(0..63)
  <2>1. 0 \in Int /\ 63 \in Int
    OBVIOUS
  <2> QED
    BY <2>1, FS_Interval, Zenon
<1>2. \A a \in CellGroups, g \in HalfFrames : IsFiniteSet(SssRegister(a, n2, g))
  BY <1>1, PlacesOfBits, FS_Subset
<1>3. IsFiniteSet(reg) /\ IsFiniteSet(sent)
  <2>1. IsFiniteSet(sent)
    BY <1>2
  <2> HIDE DEF sent
  <2> QED
    BY <2>1, DistanceIs
<1>4. D(n1, half) \in Nat /\ D(n1, half) <= 7
  <2>1. Distance(reg, sent) = Cardinality(XorSet(reg, sent)) /\ Distance(reg, sent) \in Nat
    BY <1>3, DistanceIs
  <2>2. XorSet(reg, sent) = bad
    BY DEF XorSet
  <2> HIDE DEF reg, sent
  <2> QED
    BY <2>1, <2>2 DEF sent
<1>5. ASSUME NEW a \in CellGroups, NEW g \in HalfFrames, ~(a = n1 /\ g = half)
      PROVE  D(a, g) \in Nat /\ D(a, g) > 7
  <2> DEFINE other == SssRegister(a, n2, g)
  <2>1. IsFiniteSet(other)
    BY <1>2
  <2>2. Distance(sent, other) >= 16
    BY <1>5, RegistersApart
  <2> HIDE DEF reg, sent, other
  <2>3. Distance(sent, reg) = Distance(reg, sent)
    <3>1. XorSet(sent, reg) = XorSet(reg, sent)
      BY DEF XorSet
    <3> QED
      BY <1>3, <3>1, DistanceIs
  <2>4. Distance(sent, other) <= Distance(sent, reg) + Distance(reg, other)
    BY <1>3, <2>1, DistancesAdd
  <2>5. Distance(reg, other) \in Nat /\ Distance(sent, other) \in Nat
    BY <1>3, <2>1, DistanceIs
  <2>6. Distance(reg, sent) <= 7 /\ Distance(reg, sent) \in Nat
    BY <1>4 DEF sent
  <2> QED
    BY <2>2, <2>3, <2>4, <2>5, <2>6 DEF other
<1> HIDE DEF reg, sent
<1>6. \A x : x \in all <=> \E a \in CellGroups, g \in HalfFrames : x = <<D(a, g), a, g>>
  <2>1. \A t : t \in {u \in SssTable : u.n2 = n2} <=>
               \E a \in CellGroups, g \in HalfFrames : t = [n2 |-> n2, n1 |-> a, half |-> g, reg |-> SssRegister(a, n2, g)]
    BY DEF SssTable
  <2>2. \A x : x \in all <=> \E t \in {u \in SssTable : u.n2 = n2} : x = <<Distance(reg, t.reg), t.n1, t.half>>
    OBVIOUS
  <2>3. ASSUME NEW x, x \in all PROVE \E a \in CellGroups, g \in HalfFrames : x = <<D(a, g), a, g>>
    <3>1. PICK t : t \in {u \in SssTable : u.n2 = n2} /\ x = <<Distance(reg, t.reg), t.n1, t.half>>
      BY <2>2, <2>3
    <3>2. PICK a \in CellGroups, g \in HalfFrames : t = [n2 |-> n2, n1 |-> a, half |-> g, reg |-> SssRegister(a, n2, g)]
      BY <2>1, <3>1, Zenon
    <3>3. t.reg = SssRegister(a, n2, g) /\ t.n1 = a /\ t.half = g
      BY <3>2
    <3>4. x = <<D(a, g), a, g>>
      BY <3>1, <3>3, Zenon
    <3> QED
      BY <3>4, Zenon
  <2>4. ASSUME NEW a \in CellGroups, NEW g \in HalfFrames PROVE <<D(a, g), a, g>> \in all
    <3> DEFINE t == [n2 |-> n2, n1 |-> a, half |-> g, reg |-> SssRegister(a, n2, g)]
    <3>1. t \in {u \in SssTable : u.n2 = n2}
      BY <2>1, Zenon
    <3>2. t.reg = SssRegister(a, n2, g) /\ t.n1 = a /\ t.half = g
      OBVIOUS
    <3> HIDE DEF t
    <3>3. <<D(a, g), a, g>> = <<Distance(reg, t.reg), t.n1, t.half>>
      BY <3>2, Zenon
    <3> QED
      BY <2>2, <3>1, <3>3, Zenon
  <2> HIDE DEF all, D
  <2> QED
    BY <2>3, <2>4, Zenon
<1> HIDE DEF all
<1>7. own \in all
  BY <1>6
<1>8. \A x \in all : x = own \/ x[1] > 7
  BY <1>5, <1>6
<1>9. own[1] = D(n1, half) /\ own[2] = n1 /\ own[3] = half
  OBVIOUS
<1> HIDE DEF own, D
<1>10. \A x \in all : own[1] <= x[1] /\ (x[1] = own[1] => x = own)
  <2>1. ASSUME NEW x \in all PROVE own[1] <= x[1] /\ (x[1] = own[1] => x = own)
    <3>1. CASE x = own
      BY <1>4, <1>9, <3>1
    <3>2. CASE x # own
      <4>1. x[1] \in Nat /\ x[1] > 7
        BY <1>5, <1>6, <1>9, <3>2 DEF own
      <4> QED
        BY <1>4, <1>9, <4>1
    <3> QED
      BY <3>1, <3>2
  <2> QED
    BY <2>1
<1>11. min = own[1]
  <2>1. own[1] \in {a[1] : a \in all} /\ \A a \in all : own[1] <= a[1]
    BY <1>7, <1>10
  <2>2. \A e \in {a[1] : a \in all} : (\A a \in all : e <= a[1]) => e = own[1]
    <3>1. ASSUME NEW b \in all, \A a \in all : b[1] <= a[1] PROVE b[1] = own[1]
      <4>1. b[1] <= own[1] /\ own[1] <= b[1]
        BY <1>7, <1>10, <3>1
      <4>2. own[1] \in Nat
        BY <1>4, <1>9
      <4>3. b[1] \in Nat
        <5>1. PICK a \in CellGroups, g \in HalfFrames : b = <<D(a, g), a, g>>
          BY <1>6
        <5>2. b[1] = D(a, g)
          BY <5>1
        <5>3. D(a, g) \in Nat
          BY <1>4, <1>5
        <5> QED
          BY <5>2, <5>3
      <4> QED
        BY <4>1, <4>2, <4>3
    <3> QED
      BY <3>1
  <2> QED
    BY <2>1, <2>2
<1> HIDE DEF min
<1>12. near = {own}
  BY <1>7, <1>10, <1>11
<1> HIDE DEF near
<1>13. found = own
  <2>1. \A a \in near : a = own
    BY <1>12
  <2>2. own \in near
    BY <1>12
  <2>3. n1 \in Int /\ half \in Int
    BY DEF CellGroups, HalfFrames
  <2>4. \A other \in near : 10 * own[2] + own[3] <= 10 * other[2] + other[3]
    BY <1>9, <2>1, <2>3
  <2> QED
    BY <2>1, <2>2, <2>4
<1> HIDE DEF found
<1>14. Nearest(SssTable, n2, reg) = [n1 |-> found[2], half |-> found[3], errors |-> min]
  BY Zenon DEF Nearest, found, near, min, all
<1>15. Nearest(SssTable, n2, reg).n1 = n1 /\ Nearest(SssTable, n2, reg).half = half /\ Nearest(SssTable, n2, reg).errors <= 7
  BY <1>4, <1>9, <1>11, <1>13, <1>14
<1>16. Nearest(SssTable, n2, reg).errors \in Nat
  BY <1>4, <1>9, <1>11, <1>14
<1> DEFINE N == Nearest(SssTable, n2, reg)
<1> HIDE DEF N
<1>17. N.errors < MinStart /\ N.errors <= MaxErrors
  BY <1>15, <1>16 DEF MinStart, MaxErrors, N
<1>18. SssDetect(SssTable, n2, reg) = SssNamed(N.n1, n2, N.half)
  BY <1>17, Zenon DEF SssDetect, SssNamed, N
<1> QED
  BY <1>15, <1>18, Zenon DEF N, reg, sent
=============================================================================
