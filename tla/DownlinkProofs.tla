---------------------------- MODULE DownlinkProofs ----------------------------
(***************************************************************************)
(* Proofs about module DownlinkOperations: what is read of a grant, for      *)
(* every grant that can be sent, which elements are read, for every band,     *)
(* cell and control region, and which cell is named, for every cell.         *)
(***************************************************************************)
EXTENDS DownlinkOperations, GrantProofs

-----------------------------------------------------------------------------
(* A range of blocks is read as it was sent.                               *)

\* What is allocated for the range of blocks of a grant
RangeIsOwn(in, out) ==
  /\ out.blocks = in.n /\ Owns(out.even, in.n, in.rbs) /\ Owns(out.odd, in.n, in.rbs)
  /\ in.gap < 0 => ToSet(out.even) = in.start..(in.start + in.n - 1) /\ out.odd = out.even
  /\ in.gap >= 0 /\ in.n = DistVrbs(in.rbs, in.gap) =>
        ToSet(out.even) = AllPlaces(in.rbs, in.gap) /\ ToSet(out.odd) = AllPlaces(in.rbs, in.gap)

\* The Format 1A grant of a range
RangeGrant(in) ==
  LET riv == RivValue(in.rbs, in.start, in.n)
  IN CASE in.gap < 0 -> Format1aDci(in.rbs, 0, riv, 0)
       [] in.gap >= 0 /\ in.rbs < 50 -> Format1aDci(in.rbs, 1, riv, in.gap)
       [] OTHER -> Format1aDci(in.rbs, 1, riv + in.gap * 2^(BlkAssign(in.rbs) - 1), 0)

\* The fields of a Format 1A grant
LEMMA Format1aIsDci ==
  ASSUME NEW rbs, NEW local, NEW riv, NEW ndi
  PROVE  LET dci == Format1aDci(rbs, local, riv, ndi)
         IN /\ dci.type = "1a" /\ dci.rbs = rbs /\ dci.rnti = 61
            /\ GetVal(dci, "local_vrb") = local /\ GetVal(dci, "blk_assign") = riv /\ GetVal(dci, "ndi") = ndi
<1> DEFINE dci == Format1aDci(rbs, local, riv, ndi)
<1>1. dci.type = "1a" /\ dci.rbs = rbs /\ dci.rnti = 61 /\ dci.vals = <<1, local, riv, 0, 0, ndi, 0, 0, NA>>
  BY DEF Format1aDci
<1>2. dci.vals[2] = local /\ dci.vals[3] = riv /\ dci.vals[6] = ndi
  BY <1>1
<1> HIDE DEF dci
<1>3. GetVal(dci, "local_vrb") = local /\ GetVal(dci, "blk_assign") = riv /\ GetVal(dci, "ndi") = ndi
  BY <1>1, <1>2, Format1aFields
<1> QED
  BY <1>1, <1>3 DEF dci

\* What is read of a value is the range it was made of.
LEMMA ValueIsRange ==
  ASSUME NEW T \in Nat \ {0}, NEW vrbs \in Nat, vrbs <= T,
         NEW start \in Nat, NEW n \in Nat \ {0}, start + n <= vrbs
  PROVE  RivSearch(T, vrbs, RivValue(T, start, n)) = [n |-> n, start |-> start]
<1> DEFINE val == RivValue(T, start, n)
<1>1. val \in {T * (n - 1) + start, T * (T - n + 1) + (T - 1 - start)}
  BY Zenon DEF RivValue
<1>2. T * (T - n + 1) + (T - 1 - start) = T * (T - n + 1) + T - 1 - start
  <2> DEFINE a == T * (T - n + 1)
  <2>1. a \in Int
    OBVIOUS
  <2> HIDE DEF a
  <2>2. a + (T - 1 - start) = a + T - 1 - start
    BY <2>1
  <2> QED
    BY <2>2 DEF a
<1>3. RivMatches(T, val, start, n)
  BY <1>1, <1>2, Zenon DEF RivMatches
<1> HIDE DEF val
<1>4. RivSearch(T, vrbs, val) = [n |-> n, start |-> start]
  BY <1>3, SearchFinds
<1> QED
  BY <1>4 DEF val

\* A local grant is read as its range.
LEMMA LocalIsOwn ==
  ASSUME NEW in \in RivInputs, in.gap = -1
  PROVE  RangeIsOwn(in, DecodeRiv(RangeGrant(in)))
<1> DEFINE rbs   == in.rbs
           start == in.start
           n     == in.n
           riv   == RivValue(rbs, start, n)
           dci   == Format1aDci(rbs, 0, riv, 0)
           blocks == LocalBlocks(rbs, start, n)
<1>1. rbs \in Bandwidths /\ start \in Nat /\ n \in Nat \ {0} /\ start + n <= rbs
  BY RivAssumption
<1>2. RangeGrant(in) = dci
  BY DEF RangeGrant
<1>3. /\ dci.type = "1a" /\ dci.rbs = rbs
      /\ GetVal(dci, "local_vrb") = 0 /\ GetVal(dci, "blk_assign") = riv
  BY Format1aIsDci
<1>4. rbs \in Nat \ {0} /\ rbs \in Nat /\ rbs <= MaxRbs
  BY <1>1 DEF Bandwidths, MaxRbs
<1>5. RivSearch(rbs, rbs, riv) = [n |-> n, start |-> start]
  <2> HIDE DEF rbs, start, n
  <2> QED
    BY <1>1, <1>4, ValueIsRange
<1> HIDE DEF dci, riv
<1>6. DecodeRiv(dci) = DecodeRiv1x(dci, FALSE, 0, riv)
  BY <1>3 DEF DecodeRiv, DecodeRiv1a
<1>7. DecodeType2(rbs, 0, riv, FALSE) = [n |-> n, start |-> start]
  BY <1>5 DEF DecodeType2
<1>8. n # 0
  BY <1>1
<1> HIDE DEF rbs, n, start
<1>9. DecodeRiv(dci) = Same(LocalBlocks(rbs, start, n))
  <2> DEFINE found == DecodeType2(rbs, 0, riv, FALSE)
  <2>1. found.n = n /\ found.start = start
    <3>1. found = [n |-> n, start |-> start]
      BY <1>7, Zenon
    <3> HIDE DEF found
    <3> QED
      BY <3>1
  <2>2. DecodeRiv1x(dci, FALSE, 0, riv)
          = IF found.n = 0 THEN Refused ELSE Same(LocalBlocks(rbs, found.start, found.n))
    BY <1>3, Zenon DEF DecodeRiv1x
  <2> HIDE DEF found
  <2>3. DecodeRiv1x(dci, FALSE, 0, riv) = Same(LocalBlocks(rbs, start, n))
    BY <1>8, <2>1, <2>2
  <2> QED
    BY <1>6, <2>3
<1>10. Owns(blocks, n, rbs) /\ ToSet(blocks) = start..(start + n - 1)
  BY <1>1, <1>4, LocalOwns
<1> HIDE DEF blocks
<1>11. DecodeRiv(dci) = [blocks |-> Len(blocks), even |-> blocks, odd |-> blocks]
  BY <1>9 DEF Same, Allocation, blocks
<1>12. Len(blocks) = n
  BY <1>10 DEF Owns
<1>13. ~(in.gap >= 0)
  OBVIOUS
<1> QED
  BY <1>2, <1>10, <1>11, <1>12, <1>13 DEF RangeIsOwn, n, rbs, start

\* A distributed grant is read as its range of virtual blocks.
LEMMA DistributedIsOwn ==
  ASSUME NEW in \in RivInputs, in.gap # -1
  PROVE  RangeIsOwn(in, DecodeRiv(RangeGrant(in)))
<1> DEFINE rbs   == in.rbs
           start == in.start
           n     == in.n
           gap   == in.gap
           vrbs  == DistVrbs(rbs, gap)
           riv   == RivValue(rbs, start, n)
           dci   == RangeGrant(in)
           even  == DistBlocks(rbs, 0, gap, start, n)
           odd   == DistBlocks(rbs, 1, gap, start, n)
<1>1. /\ rbs \in Bandwidths /\ start \in Nat /\ n \in Nat \ {0} /\ start + n <= vrbs
      /\ gap \in {0, 1} /\ (gap = 1 => rbs >= 50)
      /\ rbs >= 50 => riv < 2^(BlkAssign(rbs) - 1)
  BY RivAssumption
<1>2. rbs \in Nat \ {0} /\ (rbs >= 50 => rbs \in {50, 75, 100})
  BY <1>1 DEF Bandwidths
<1>3. vrbs \in Nat /\ vrbs <= rbs
  <2> HIDE DEF rbs, gap
  <2> QED
    BY <1>1, AllPlacesCount
<1>4. RivSearch(rbs, vrbs, riv) = [n |-> n, start |-> start]
  <2> HIDE DEF rbs, start, n, vrbs
  <2> QED
    BY <1>1, <1>2, <1>3, ValueIsRange
<1>5. riv \in Nat
  <2>1. n <= rbs /\ start + n <= rbs
    BY <1>1, <1>2, <1>3
  <2> HIDE DEF rbs, start, n, vrbs
  <2>2. rbs * (n - 1) \in Nat /\ rbs * (rbs - n + 1) \in Nat /\ rbs - 1 - start \in Nat
    BY <1>1, <1>2, <2>1
  <2>3. rbs * (n - 1) + start \in Nat /\ rbs * (rbs - n + 1) + (rbs - 1 - start) \in Nat
    BY <1>1, <2>2
  <2> QED
    BY <2>3, Zenon DEF RivValue
<1>6. DecodeRiv(dci) = DecodeRiv1x(dci, TRUE, gap, riv) /\ dci.rbs = rbs
  <2>1. CASE rbs < 50
    <3> DEFINE grant == Format1aDci(rbs, 1, riv, gap)
    <3>1. dci = grant
      BY <1>1, <2>1 DEF RangeGrant
    <3>2. /\ grant.type = "1a" /\ grant.rbs = rbs
          /\ GetVal(grant, "local_vrb") = 1 /\ GetVal(grant, "blk_assign") = riv /\ GetVal(grant, "ndi") = gap
      BY Format1aIsDci
    <3> HIDE DEF grant, riv, dci
    <3>3. DecodeRiv(grant) = DecodeRiv1x(grant, TRUE, gap, riv)
      <4>1. DecodeRiv(grant) = DecodeRiv1a(grant)
        BY <3>2 DEF DecodeRiv
      <4>2. DecodeRiv1a(grant) = DecodeRiv1x(grant, TRUE, GetVal(grant, "ndi"), GetVal(grant, "blk_assign"))
        <5>1. GetVal(grant, "local_vrb") # 0 /\ grant.rbs < 50
          BY <2>1, <3>2
        <5> QED
          BY <5>1 DEF DecodeRiv1a
      <4> QED
        BY <3>2, <4>1, <4>2
    <3> QED
      BY <3>1, <3>2, <3>3
  <2>2. CASE ~(rbs < 50)
    <3> DEFINE assign == riv + gap * 2^(BlkAssign(rbs) - 1)
               grant  == Format1aDci(rbs, 1, assign, 0)
    <3>1. dci = grant
      BY <1>1, <2>2 DEF RangeGrant
    <3>2. /\ grant.type = "1a" /\ grant.rbs = rbs /\ grant.rnti = 61
          /\ GetVal(grant, "local_vrb") = 1 /\ GetVal(grant, "blk_assign") = assign
      BY Format1aIsDci
    <3>3. rbs \in {50, 75, 100} /\ riv < 2^(BlkAssign(rbs) - 1)
      BY <1>1, <1>2, <2>2
    <3> HIDE DEF grant, riv, dci, rbs, gap
    <3>4. DistGap(grant) = gap /\ DistRa(grant) = riv
      BY <1>1, <1>5, <3>2, <3>3, GapComesApart
    <3>5. grant.rnti \notin {SI_RNTI, P_RNTI}
      BY <3>2 DEF SI_RNTI, P_RNTI
    <3>6. DecodeRiv(grant) = DecodeRiv1x(grant, TRUE, gap, riv)
      <4>1. DecodeRiv(grant) = DecodeRiv1a(grant)
        BY <3>2 DEF DecodeRiv
      <4>2. DecodeRiv1a(grant) = DecodeRiv1x(grant, TRUE, DistGap(grant), DistRa(grant))
        <5>1. GetVal(grant, "local_vrb") # 0 /\ ~(grant.rbs < 50)
          BY <2>2, <3>2
        <5> QED
          BY <3>5, <5>1 DEF DecodeRiv1a
      <4> QED
        BY <3>4, <4>1, <4>2
    <3> QED
      BY <3>1, <3>2, <3>6
  <2> QED
    BY <2>1, <2>2
<1> HIDE DEF dci, riv
<1>7. DecodeType2(rbs, gap, riv, TRUE) = [n |-> n, start |-> start]
  BY <1>4 DEF DecodeType2
<1>8. n # 0
  BY <1>1
<1> HIDE DEF rbs, n, start, gap
<1>9. DecodeRiv(dci) = Allocation(even, odd)
  <2> DEFINE found == DecodeType2(rbs, gap, riv, TRUE)
  <2>1. found.n = n /\ found.start = start
    <3>1. found = [n |-> n, start |-> start]
      BY <1>7, Zenon
    <3> HIDE DEF found
    <3> QED
      BY <3>1
  <2>2. DecodeRiv1x(dci, TRUE, gap, riv)
          = IF found.n = 0 THEN Refused
            ELSE Allocation(DistBlocks(rbs, 0, gap, found.start, found.n), DistBlocks(rbs, 1, gap, found.start, found.n))
    BY <1>6, Zenon DEF DecodeRiv1x
  <2> HIDE DEF found
  <2>3. DecodeRiv1x(dci, TRUE, gap, riv) = Allocation(even, odd)
    BY <1>8, <2>1, <2>2
  <2> QED
    BY <1>6, <2>3
<1>10. /\ Owns(even, n, rbs) /\ Owns(odd, n, rbs)
       /\ n = vrbs => ToSet(even) = AllPlaces(rbs, gap) /\ ToSet(odd) = AllPlaces(rbs, gap)
  <2>1. n \in Nat /\ 0 \in {0, 1} /\ 1 \in {0, 1}
    BY <1>1
  <2>2. Owns(even, n, rbs) /\ (n = vrbs => ToSet(even) = AllPlaces(rbs, gap))
    BY <1>1, <2>1, DistributedOwns
  <2>3. Owns(odd, n, rbs) /\ (n = vrbs => ToSet(odd) = AllPlaces(rbs, gap))
    BY <1>1, <2>1, DistributedOwns
  <2> QED
    BY <2>2, <2>3
<1> HIDE DEF even, odd
<1>11. DecodeRiv(dci) = [blocks |-> Len(even), even |-> even, odd |-> odd]
  BY <1>9 DEF Allocation
<1>12. Len(even) = n
  BY <1>10 DEF Owns
<1>13. ~(gap < 0)
  BY <1>1
<1> QED
  BY <1>10, <1>11, <1>12, <1>13 DEF RangeIsOwn, n, rbs, gap, dci, vrbs

\* What lte_decode_riv allocates for a range is that range.
LEMMA RangesAreOwn ==
  ASSUME NEW in \in RivInputs
  PROVE  RangeIsOwn(in, DecodeRiv(RangeGrant(in)))
<1>1. in.gap = -1 \/ in.gap # -1
  OBVIOUS
<1> QED
  BY <1>1, LocalIsOwn, DistributedIsOwn

-----------------------------------------------------------------------------
(* A bitmap is read as it was sent.                                        *)

\* The Format 1 grant of an assignment
BitmapGrant(in) ==
  [type |-> "1", mode |-> "fdd", rbs |-> in.rbs, rnti |-> 61,
   vals |-> <<in.header, in.assign, 0, 0, 0, 0, 0, NA>>]

\* What an assignment grants: groups, or blocks of a subset
BitmapMeans(in) ==
  LET n == SubsetBits(in.rbs)
  IN IF in.header = 0
     THEN Ascending({b \in 0..(in.rbs - 1) : BitAt(in.assign, Type0Ra(in.rbs), b \div TypeZeroP(in.rbs) + 1)}, in.rbs)
     ELSE SubsetGranted(in.rbs, in.assign \div 2^BelowSubset(in.rbs), (in.assign \div 2^n) % 2, in.assign % 2^n)

\* The fields of a Format 1 grant
LEMMA BitmapGrantIsDci ==
  ASSUME NEW in
  PROVE  LET dci == BitmapGrant(in)
         IN /\ dci.type = "1" /\ dci.rbs = in.rbs
            /\ GetVal(dci, "ra_header") = in.header /\ GetVal(dci, "blk_assign") = in.assign
<1> DEFINE dci == BitmapGrant(in)
<1>1. dci.type = "1" /\ dci.rbs = in.rbs /\ dci.vals = <<in.header, in.assign, 0, 0, 0, 0, 0, NA>>
  BY DEF BitmapGrant
<1>2. dci.vals[1] = in.header /\ dci.vals[2] = in.assign
  BY <1>1
<1> HIDE DEF dci
<1>3. GetVal(dci, "ra_header") = in.header /\ GetVal(dci, "blk_assign") = in.assign
  BY <1>1, <1>2, Format1Fields
<1> QED
  BY <1>1, <1>3 DEF dci

\* The blocks of a Format 1 grant are those its bits mean.
LEMMA BitmapIsMeant ==
  ASSUME NEW in \in BitmapInputs
  PROVE  DecodeRiv(BitmapGrant(in)) = Same(BitmapMeans(in))
<1> DEFINE dci  == BitmapGrant(in)
           rbs  == in.rbs
           p    == TypeZeroP(rbs)
           size == Type0Ra(rbs)
<1>1. /\ rbs \in Bandwidths /\ in.assign \in Nat /\ in.header \in {0, RaHeader(rbs)}
      /\ in.header = 1 => in.assign \div 2^(Type0Ra(rbs) - (IF rbs <= 26 THEN 1 ELSE 2)) < p
  BY BitmapAssumption
<1>2. /\ dci.type = "1" /\ dci.rbs = rbs
      /\ GetVal(dci, "ra_header") = in.header /\ GetVal(dci, "blk_assign") = in.assign
  BY BitmapGrantIsDci
<1> HIDE DEF dci
<1>3. DecodeRiv(dci) = DecodeRiv1(dci)
  BY <1>2 DEF DecodeRiv
<1>4. rbs \in Nat /\ RaHeader(rbs) \in {0, 1} /\ (rbs <= 10 <=> rbs = 6) /\ (RaHeader(rbs) = 1 => rbs # 6)
  BY <1>1 DEF Bandwidths, RaHeader
<1>5. CASE in.header = 0
  <2>1. Type0BmpSize(dci) = size
    BY <1>2, <1>5 DEF Type0BmpSize
  <2>2. DecodeRiv1(dci) = Same(Type0Blocks(rbs, in.assign, size))
    BY <1>2, <1>5, <2>1 DEF DecodeRiv1
  <2>3. p \in Nat \ {0} /\ size \in Nat \ {0} /\ p * (size - 1) < rbs /\ rbs <= p * size
    BY <1>1 DEF Bandwidths, TypeZeroP, Type0Ra
  <2>4. Type0Blocks(rbs, in.assign, size)
          = Ascending({b \in 0..(rbs - 1) : BitAt(in.assign, size, b \div p + 1)}, rbs)
    <3> DEFINE b == rbs
               s == size
               q == p
               a == in.assign
    <3>1. b \in Nat /\ q = TypeZeroP(b) /\ q \in Nat \ {0} /\ s \in Nat \ {0} /\ q * (s - 1) < b /\ b <= q * s
      BY <1>4, <2>3
    <3> HIDE DEF b, s, q, a
    <3>2. Type0Blocks(b, a, s) = Ascending({x \in 0..(b - 1) : BitAt(a, s, x \div q + 1)}, b)
      BY <3>1, GroupsAreRead
    <3> QED
      BY <3>2, Zenon DEF b, s, q, a
  <2> QED
    BY <1>3, <1>5, <2>2, <2>4 DEF BitmapMeans, dci
<1>6. CASE in.header # 0
  <2> DEFINE n       == SubsetBits(rbs)
             ra      == in.assign
             sub     == ra \div 2^BelowSubset(rbs)
             shifted == (ra \div 2^n) % 2
             bmp     == ra % 2^n
  <2>1. in.header = 1 /\ rbs \in Bandwidths \ {6}
    BY <1>1, <1>4, <1>6
  <2>2. sub < p
    BY <1>1, <2>1 DEF BelowSubset
  <2>3. /\ Type1Sub(dci).p = sub /\ Type1Sub(dci).shift = shifted /\ Type1Sub(dci).bmp = bmp
        /\ sub \in 0..(p - 1) /\ shifted \in {0, 1}
    BY <1>1, <1>2, <2>1, <2>2, SubsetComesApart
  <2>4. Type1BmpSize(dci) = n
    BY <1>2, <1>4, <2>1 DEF Type1BmpSize, SubsetBits
  <2>5. DecodeRiv1(dci) = Same(Type1Blocks(rbs, Type1Sub(dci).p, Type1Sub(dci).shift, Type1Sub(dci).bmp, Type1BmpSize(dci)))
    BY <1>2, <1>4, <2>1 DEF DecodeRiv1
  <2>6. DecodeRiv1(dci) = Same(Type1Blocks(rbs, sub, shifted, bmp, n))
    BY <2>3, <2>4, <2>5
  <2>7. Type1Blocks(rbs, sub, shifted, bmp, n) = SubsetGranted(rbs, sub, shifted, bmp)
    <3> HIDE DEF sub, shifted, bmp
    <3> QED
      BY <2>1, <2>3, SubsetsAreRead
  <2>8. BitmapMeans(in) = SubsetGranted(rbs, sub, shifted, bmp)
    BY <1>6, Zenon DEF BitmapMeans
  <2> QED
    BY <1>3, <2>6, <2>7, <2>8, Zenon DEF dci
<1> QED
  BY <1>5, <1>6 DEF dci

-----------------------------------------------------------------------------
(* A scheme, a size and a version are read as they were sent.              *)

\* The grant of a scheme and a version
SchemeGrant(in) ==
  LET vals == CASE in.format = "1"  -> <<0, 0, in.mcs, 0, 0, in.rv, in.tpc, NA>>
                [] in.format = "1a" -> <<1, 0, 0, in.mcs, 0, 0, in.rv, in.tpc, NA>>
                [] in.format = "1c" -> <<NA, 0, in.mcs>>
  IN [type |-> in.format, mode |-> "fdd", rbs |-> 50, rnti |-> in.rnti, vals |-> vals]

\* The fields of a grant that name its scheme
LEMMA SchemeGrantIsDci ==
  ASSUME NEW in, in.format \in {"1", "1a", "1c"}
  PROVE  LET dci == SchemeGrant(in)
         IN /\ dci.type = in.format /\ dci.rnti = in.rnti
            /\ GetMod(dci) = in.mcs
            /\ in.format # "1c" => GetVal(dci, "rv") = in.rv /\ GetVal(dci, "mod") = in.mcs
            /\ in.format = "1a" => GetVal(dci, "tpc") = in.tpc
            /\ in.format = "1c" => GetVal(dci, "blk_size") = in.mcs
<1> DEFINE dci == SchemeGrant(in)
<1>1. dci.type = in.format /\ dci.rnti = in.rnti
  BY DEF SchemeGrant
<1>2. CASE in.format = "1"
  <2>1. dci.vals = <<0, 0, in.mcs, 0, 0, in.rv, in.tpc, NA>>
    BY <1>2 DEF SchemeGrant
  <2>2. dci.vals[3] = in.mcs /\ dci.vals[6] = in.rv
    BY <2>1
  <2> HIDE DEF dci
  <2>3. GetVal(dci, "mod") = in.mcs /\ GetVal(dci, "rv") = in.rv
    BY <1>1, <1>2, <2>2, Format1Fields
  <2>4. GetMod(dci) = GetVal(dci, "mod")
    BY <1>1, <1>2 DEF GetMod
  <2> QED
    BY <1>1, <1>2, <2>3, <2>4 DEF dci
<1>3. CASE in.format = "1a"
  <2>1. dci.vals = <<1, 0, 0, in.mcs, 0, 0, in.rv, in.tpc, NA>>
    BY <1>3 DEF SchemeGrant
  <2>2. dci.vals[4] = in.mcs /\ dci.vals[7] = in.rv /\ dci.vals[8] = in.tpc
    BY <2>1
  <2> HIDE DEF dci
  <2>3. GetVal(dci, "mod") = in.mcs /\ GetVal(dci, "rv") = in.rv /\ GetVal(dci, "tpc") = in.tpc
    BY <1>1, <1>3, <2>2, Format1aFields
  <2>4. GetMod(dci) = GetVal(dci, "mod")
    BY <1>1, <1>3 DEF GetMod
  <2> QED
    BY <1>1, <1>3, <2>3, <2>4 DEF dci
<1>4. CASE in.format = "1c"
  <2>1. dci.vals = <<NA, 0, in.mcs>>
    BY <1>4 DEF SchemeGrant
  <2>2. dci.vals[3] = in.mcs
    BY <2>1
  <2> HIDE DEF dci
  <2>3. GetVal(dci, "blk_size") = in.mcs
    BY <1>1, <1>4, <2>2, Format1cFields
  <2>4. GetMod(dci) = GetVal(dci, "blk_size")
    BY <1>1, <1>4 DEF GetMod
  <2> QED
    BY <1>1, <1>4, <2>3, <2>4 DEF dci
<1> QED
  BY <1>2, <1>3, <1>4

\* The modulation, the size and the version a grant means
SchemeMeans(in, A, mod, rv) ==
  LET order == IF in.mcs <= 9 THEN 2 ELSE IF in.mcs <= 16 THEN 4 ELSE 6
  IN /\ IF in.rnti \in {SI_RNTI, P_RNTI}
        THEN /\ mod = 2
             /\ A = IF in.format = "1c" THEN Format1cTable[in.mcs + 1]
                    ELSE Format1aTable[in.mcs + 1][IF in.tpc % 2 = 1 THEN 3 ELSE 2]
        ELSE mod = order /\ A = Format1aTable[in.mcs + 2 - order \div 2][in.blocks]
     /\ rv = IF in.format # "1c" THEN in.rv
             ELSE IF in.rnti = SI_RNTI THEN <<0, 2, 3, 1>>[((in.frame \div 2) % 4) + 1] ELSE 0

\* The modulation, the size and the version of a scheme are those of 36.213.
LEMMA SchemesAreRead ==
  ASSUME NEW in \in GrantInputs
  PROVE  LET dci == SchemeGrant(in)
         IN SchemeMeans(in, TbsGet(dci, in.blocks), TbsGetModOrder(dci), GetRv(dci, in.frame))
<1> DEFINE dci == SchemeGrant(in)
           mcs == in.mcs
           order == IF mcs <= 9 THEN 2 ELSE IF mcs <= 16 THEN 4 ELSE 6
<1>1. /\ in.tpc \in 0..3 /\ in.frame \in Nat
      /\ \/ in.rnti \in {SI_RNTI, P_RNTI} /\ in.format = "1a" /\ mcs \in 0..26
         \/ in.rnti \in {SI_RNTI, P_RNTI} /\ in.format = "1c" /\ mcs \in 0..31
         \/ ~IsCommon(in.rnti) /\ in.format \in {"1", "1a"} /\ mcs \in 0..28 /\ in.blocks \in 1..110
  BY GrantAssumption
<1>2. in.format \in {"1", "1a", "1c"}
  BY <1>1
<1>3. /\ dci.type = in.format /\ dci.rnti = in.rnti
      /\ GetMod(dci) = mcs
      /\ in.format # "1c" => GetVal(dci, "rv") = in.rv /\ GetVal(dci, "mod") = mcs
      /\ in.format = "1a" => GetVal(dci, "tpc") = in.tpc
      /\ in.format = "1c" => GetVal(dci, "blk_size") = mcs
  BY <1>2, SchemeGrantIsDci
<1> HIDE DEF dci
<1>4. in.rnti \in {SI_RNTI, P_RNTI} => IsCommon(in.rnti)
  BY DEF IsCommon, SI_RNTI, P_RNTI
<1>5. IF in.rnti \in {SI_RNTI, P_RNTI}
      THEN /\ TbsGetModOrder(dci) = 2
           /\ TbsGet(dci, in.blocks) = IF in.format = "1c" THEN Format1cTable[mcs + 1]
                                       ELSE Format1aTable[mcs + 1][IF in.tpc % 2 = 1 THEN 3 ELSE 2]
      ELSE TbsGetModOrder(dci) = order /\ TbsGet(dci, in.blocks) = Format1aTable[mcs + 2 - order \div 2][in.blocks]
  <2>1. CASE in.rnti \in {SI_RNTI, P_RNTI} /\ in.format = "1a" /\ mcs \in 0..26
    <3>1. TbsGetModOrder(dci) = 2
      BY <1>3, <1>4, <2>1 DEF TbsGetModOrder
    <3>2. TbsGet(dci, in.blocks) = TbsGetSi(dci)
      BY <1>3, <1>4, <2>1 DEF TbsGet
    <3>3. TbsGetSi(dci) = Format1aTable[mcs + 1][2 + (in.tpc % 2)]
      BY <1>3, <2>1 DEF TbsGetSi
    <3>4. 2 + (in.tpc % 2) = IF in.tpc % 2 = 1 THEN 3 ELSE 2
      BY <1>1
    <3>5. in.format # "1c"
      BY <2>1
    <3> HIDE DEF mcs, order
    <3> QED
      BY <2>1, <3>1, <3>2, <3>3, <3>4, <3>5
  <2>2. CASE in.rnti \in {SI_RNTI, P_RNTI} /\ in.format = "1c" /\ mcs \in 0..31
    <3>1. TbsGetModOrder(dci) = 2
      BY <1>3, <1>4, <2>2 DEF TbsGetModOrder
    <3>2. TbsGet(dci, in.blocks) = TbsGetSi(dci)
      BY <1>3, <1>4, <2>2 DEF TbsGet
    <3>3. TbsGetSi(dci) = Format1cTable[mcs + 1]
      BY <1>3, <2>2 DEF TbsGetSi
    <3> HIDE DEF mcs, order
    <3> QED
      BY <2>2, <3>1, <3>2, <3>3
  <2>3. CASE ~IsCommon(in.rnti) /\ in.format \in {"1", "1a"} /\ mcs \in 0..28 /\ in.blocks \in 1..110
    <3>1. TbsGetModOrder(dci) = ModOrder(mcs)
      BY <1>3, <2>3 DEF TbsGetModOrder
    <3>2. TbsGet(dci, in.blocks) = TbsFormat1a(mcs, in.blocks)
      BY <1>3, <2>3 DEF TbsGet
    <3>3. ModOrder(mcs) = order
      <4> HIDE DEF mcs
      <4> QED
        BY <2>3 DEF ModOrder
    <3>4. SizeIndexOf(mcs) = IF mcs <= 9 THEN mcs ELSE IF mcs <= 16 THEN mcs - 1 ELSE mcs - 2
      <4> HIDE DEF mcs
      <4> QED
        BY <2>3 DEF SizeIndexOf
    <3>5. SizeIndexOf(mcs) >= 0 /\ SizeIndexOf(mcs) + 1 = mcs + 2 - order \div 2
      <4> HIDE DEF mcs
      <4> QED
        BY <2>3, <3>4
    <3> HIDE DEF mcs, order
    <3>6. TbsFormat1a(mcs, in.blocks) = Format1aTable[SizeIndexOf(mcs) + 1][in.blocks]
      <4>1. ~(SizeIndexOf(mcs) < 0 \/ in.blocks \notin 1..110)
        <5>1. SizeIndexOf(mcs) \in Int
          BY <2>3, <3>4
        <5> QED
          BY <2>3, <3>5, <5>1
      <4> QED
        BY <4>1, Zenon DEF TbsFormat1a
    <3> QED
      BY <1>4, <2>3, <3>1, <3>2, <3>3, <3>5, <3>6
  <2> QED
    BY <1>1, <2>1, <2>2, <2>3
<1>6. GetRv(dci, in.frame) = IF in.format # "1c" THEN in.rv
                             ELSE IF in.rnti = SI_RNTI THEN <<0, 2, 3, 1>>[((in.frame \div 2) % 4) + 1] ELSE 0
  <2>1. CASE in.format # "1c"
    BY <1>2, <1>3, <2>1 DEF GetRv
  <2>2. CASE in.format = "1c" /\ in.rnti = SI_RNTI
    <3> DEFINE k == (in.frame \div 2) % 4
    <3>1. GetRv(dci, in.frame) = ((3 * k + 1) \div 2) % 4
      BY <1>3, <2>2 DEF GetRv, SI_RNTI
    <3>2. k \in 0..3
      <4> DEFINE q == in.frame \div 2
      <4>1. q \in Nat
        BY <1>1
      <4> HIDE DEF q
      <4>2. q % 4 \in 0..3
        BY <4>1
      <4> QED
        BY <4>2 DEF q
    <3> HIDE DEF k
    <3>3. ((3 * k + 1) \div 2) % 4 = <<0, 2, 3, 1>>[k + 1]
      BY <3>2
    <3> QED
      BY <2>2, <3>1, <3>3 DEF k
  <2>3. CASE in.format = "1c" /\ in.rnti # SI_RNTI
    BY <1>3, <2>3 DEF GetRv, SI_RNTI
  <2> QED
    BY <2>1, <2>2, <2>3
<1> QED
  BY <1>5, <1>6, Zenon DEF SchemeMeans, dci

-----------------------------------------------------------------------------
(* The sizes of a row are cut.                                             *)

\* The blocks initialised for the sizes of a row
RowBlocks(row) == {BlkInit(EmptyBlock, A, 2880, 1, 2) : A \in {Format1aTable[row + 1][n] : n \in 1..110}}

\* The sizes of a row fill their segments.
LEMMA RowsAreTiled ==
  ASSUME NEW row \in SizeRows, NEW result \in RowBlocks(row)
  PROVE  result.rc = 0 /\ result.blk.F = 0 /\ Tiled(result.blk)
<1>1. PICK n \in 1..110 : result = BlkInit(EmptyBlock, Format1aTable[row + 1][n], 2880, 1, 2)
  BY DEF RowBlocks
<1> DEFINE A == Format1aTable[row + 1][n]
<1>2. A \in MinA..MaxA /\ (A + CrcLen) % 8 = 0 /\ Segmentation(A + CrcLen).F = 0
  BY Zenon, SizesAssumption
<1> HIDE DEF A
<1>3. 2880 \in 1..MaxG /\ 2880 <= MaxG
  BY DEF MaxG
<1>4. Granted(A, 2880, 2)
  BY <1>2, <1>3 DEF Granted
<1>5. DOMAIN EmptyBlock = BlockFields /\ ~Initialised(EmptyBlock, A, 2880, 1, 2)
  BY <1>4, EmptyIsFresh, GrantedIsCut DEF Initialised
<1>6. result = BlkInit(EmptyBlock, A, 2880, 1, 2)
  BY <1>1 DEF A
<1>7. result.rc = 0 /\ Segmented(result.blk, A, 2880, 2)
  <2>1. /\ Segmented(BlkInit(EmptyBlock, A, 2880, 1, 2).blk, A, 2880, 2)
        /\ BlkInit(EmptyBlock, A, 2880, 1, 2).rc = 0
    BY <1>3, <1>4, <1>5, InitSegments
  <2> QED
    BY <1>6, <2>1
<1>8. result.blk.F = 0
  BY <1>2, <1>7 DEF Segmented
<1> QED
  BY <1>4, <1>7, <1>8, SegmentsAreTiled

-----------------------------------------------------------------------------
(* The subcarriers that are read of one block.                             *)


\* Explicit lists of numbers that go up
LEMMA FourUp ==
  ASSUME NEW a \in Nat, NEW b \in Nat, NEW c \in Nat, NEW d \in Nat, a < b, b < c, c < d
  PROVE  ListsUp(<<a, b, c, d>>, {a, b, c, d})
<1> DEFINE s == <<a, b, c, d>>
<1>1. s \in Seq(Nat) /\ Len(s) = 4 /\ s[1] = a /\ s[2] = b /\ s[3] = c /\ s[4] = d
  OBVIOUS
<1> HIDE DEF s
<1>2. 1..4 = {1, 2, 3, 4}
  OBVIOUS
<1>3. \A i, j \in 1..4 : i < j => s[i] < s[j]
  BY <1>1, <1>2
<1>4. {s[i] : i \in 1..4} = {a, b, c, d}
  BY <1>1, <1>2
<1>5. ListsUp(s, {a, b, c, d})
  BY <1>1, <1>3, <1>4 DEF ListsUp
<1> QED
  BY <1>5 DEF s

\* Two lists that go up, one above the other
LEMMA UpAgain ==
  ASSUME NEW S, NEW T, NEW s, NEW t, ListsUp(s, S), ListsUp(t, T), \A x \in S, y \in T : x < y
  PROVE  ListsUp(s \o t, S \cup T) /\ Len(s \o t) = Len(s) + Len(t)
<1> DEFINE key == [x \in Nat |-> x]
<1>1. s \in Seq(Nat) /\ t \in Seq(Nat)
  BY DEF ListsUp
<1>2. (\A i \in 1..Len(s) : s[i] \in Nat /\ s[i] \in S) /\ (\A i \in 1..Len(t) : t[i] \in Nat /\ t[i] \in T)
  BY <1>1 DEF ListsUp
<1>3. key \in [Nat -> Int] /\ \A x \in Nat : key[x] = x
  OBVIOUS
<1> HIDE DEF key
<1>4. Climbs(s, key) /\ Climbs(t, key)
  BY <1>2, <1>3 DEF ListsUp, Climbs
<1>5. \A i \in 1..Len(s), j \in 1..Len(t) : key[s[i]] < key[t[j]]
  BY <1>2, <1>3
<1> DEFINE c == s \o t
<1>6. c \in Seq(Nat) /\ Len(c) = Len(s) + Len(t) /\ ToSet(c) = ToSet(s) \cup ToSet(t) /\ Climbs(c, key)
  BY <1>1, <1>3, <1>4, <1>5, Concatenation
<1> HIDE DEF c
<1>7. ToSet(s) = S /\ ToSet(t) = T
  BY ListCounts
<1>8. \A i \in 1..Len(c) : c[i] \in Nat
  BY <1>6
<1>9. \A i, j \in 1..Len(c) : i < j => c[i] < c[j]
  BY <1>3, <1>6, <1>8 DEF Climbs
<1>10. {c[i] : i \in 1..Len(c)} = S \cup T
  <2>1. DOMAIN c = 1..Len(c)
    BY <1>6
  <2> QED
    BY <1>6, <1>7, <2>1 DEF ToSet
<1> QED
  BY <1>6, <1>9, <1>10 DEF ListsUp, c

\* pdsch_extract_ref2 reads the rest of a window
LEMMA BothAreRead ==
  ASSUME NEW cell \in CellIds, NEW w \in Windows
  PROVE  /\ ListsUp(AroundBoth(cell, w[1], w[2]), {sc \in w[1]..(w[2] - 1) : sc % 3 # cell % 3})
         /\ Len(AroundBoth(cell, w[1], w[2])) <= 8
         /\ w = <<0, 12>> => Len(AroundBoth(cell, w[1], w[2])) = 8
<1> DEFINE Quad(half) == IF QuadFrom(cell, half) = << >> THEN << >>
                         ELSE [j \in 1..4 |-> half + QuadFrom(cell, half)[j]]
           Rest(half) == {sc \in half..(half + 5) : sc % 3 # cell % 3}
<1>1. ASSUME NEW half \in {0, 6} PROVE ListsUp(Quad(half), Rest(half)) /\ Len(Quad(half)) = 4
  <2>1. ASSUME NEW a \in 0..5, NEW b \in 0..5, NEW c \in 0..5, NEW d \in 0..5, a < b, b < c, c < d,
               QuadFrom(cell, half) = <<a, b, c, d>>, Rest(half) = {half + a, half + b, half + c, half + d}
        PROVE  ListsUp(Quad(half), Rest(half)) /\ Len(Quad(half)) = 4
    <3>1. Quad(half) = <<half + a, half + b, half + c, half + d>>
      <4>1. QuadFrom(cell, half) # << >>
        BY <2>1
      <4>2. [j \in 1..4 |-> half + QuadFrom(cell, half)[j]] = <<half + a, half + b, half + c, half + d>>
        BY <2>1
      <4> QED
        BY <4>1, <4>2
    <3>2. ListsUp(<<half + a, half + b, half + c, half + d>>, Rest(half))
      <4>1. /\ half + a \in Nat /\ half + b \in Nat /\ half + c \in Nat /\ half + d \in Nat
            /\ half + a < half + b /\ half + b < half + c /\ half + c < half + d
        BY <2>1
      <4> HIDE DEF Rest
      <4> QED
        BY <2>1, <4>1, FourUp
    <3>3. Len(<<half + a, half + b, half + c, half + d>>) = 4
      OBVIOUS
    <3> HIDE DEF Quad, Rest
    <3> QED
      BY <3>1, <3>2, <3>3
  <2>2. half..(half + 5) = {half, half + 1, half + 2, half + 3, half + 4, half + 5}
    OBVIOUS
  <2>3. /\ half % 3 = 0 /\ (half + 1) % 3 = 1 /\ (half + 2) % 3 = 2
        /\ (half + 3) % 3 = 0 /\ (half + 4) % 3 = 1 /\ (half + 5) % 3 = 2
    OBVIOUS
  <2>4. CASE cell % 3 = 0
    <3>1. Rest(half) = {half + 1, half + 2, half + 4, half + 5}
      BY <2>2, <2>3, <2>4
    <3>2. QuadFrom(cell, half) = <<1, 2, 4, 5>>
      BY <2>4, QuadIsAround
    <3> HIDE DEF Quad, Rest
    <3> QED
      BY <2>1, <3>1, <3>2
  <2>5. CASE cell % 3 = 1
    <3>1. Rest(half) = {half + 0, half + 2, half + 3, half + 5}
      BY <2>2, <2>3, <2>5
    <3>2. QuadFrom(cell, half) = <<0, 2, 3, 5>>
      BY <2>5, QuadIsAround
    <3> HIDE DEF Quad, Rest
    <3> QED
      BY <2>1, <3>1, <3>2
  <2>6. CASE cell % 3 = 2
    <3>1. Rest(half) = {half + 0, half + 1, half + 3, half + 4}
      BY <2>2, <2>3, <2>6
    <3>2. QuadFrom(cell, half) = <<0, 1, 3, 4>>
      BY <2>6, QuadIsAround
    <3> HIDE DEF Quad, Rest
    <3> QED
      BY <2>1, <3>1, <3>2
  <2> QED
    BY <2>4, <2>5, <2>6, QuadIsAround
<1>2. ListsUp(<< >>, {}) /\ Len(<< >>) = 0
  BY DEF ListsUp
<1>3. AroundBoth(cell, w[1], w[2]) = (IF w[1] = 0 /\ w[2] > 0 THEN Quad(0) ELSE << >>) \o (IF w[1] <= 6 /\ w[2] > 6 THEN Quad(6) ELSE << >>)
  BY DEF AroundBoth
<1> DEFINE Left == {sc \in w[1]..(w[2] - 1) : sc % 3 # cell % 3}
           at == AroundBoth(cell, w[1], w[2])
<1>4. CASE w = <<0, 0>>
  <2>1. at = << >> \o << >>
    BY <1>3, <1>4
  <2>2. Left = {}
    BY <1>4
  <2> HIDE DEF Quad, Rest, at, Left
  <2>3. ListsUp(<< >> \o << >>, {} \cup {}) /\ Len(<< >> \o << >>) = 0
    BY <1>2, UpAgain
  <2> QED
    BY <1>4, <2>1, <2>2, <2>3 DEF at, Left
<1>5. CASE w = <<0, 6>>
  <2>1. at = Quad(0) \o << >>
    BY <1>3, <1>5
  <2>2. Left = Rest(0)
    BY <1>5
  <2> HIDE DEF Quad, Rest, at, Left
  <2>3. ListsUp(Quad(0) \o << >>, Rest(0) \cup {}) /\ Len(Quad(0) \o << >>) = Len(Quad(0)) + Len(<< >>)
    BY <1>1, <1>2, UpAgain
  <2>4. Len(Quad(0) \o << >>) = 4 + 0
    BY <1>1, <1>2, <2>3, Zenon
  <2>5. ListsUp(at, Left) /\ Len(at) = 4
    BY <2>1, <2>2, <2>3, <2>4
  <2>6. Len(at) <= 8 /\ w # <<0, 12>>
    BY <1>5, <2>5
  <2> QED
    BY <2>5, <2>6 DEF at, Left
<1>6. CASE w = <<6, 12>>
  <2>1. at = << >> \o Quad(6)
    BY <1>3, <1>6
  <2>2. Left = Rest(6)
    BY <1>6
  <2> HIDE DEF Quad, Rest, at, Left
  <2>3. ListsUp(<< >> \o Quad(6), {} \cup Rest(6)) /\ Len(<< >> \o Quad(6)) = Len(<< >>) + Len(Quad(6))
    BY <1>1, <1>2, UpAgain
  <2>4. Len(<< >> \o Quad(6)) = 0 + 4
    BY <1>1, <1>2, <2>3, Zenon
  <2>5. ListsUp(at, Left) /\ Len(at) = 4
    BY <2>1, <2>2, <2>3, <2>4
  <2>6. Len(at) <= 8 /\ w # <<0, 12>>
    BY <1>6, <2>5
  <2> QED
    BY <2>5, <2>6 DEF at, Left
<1>7. CASE w = <<0, 12>>
  <2>1. at = Quad(0) \o Quad(6)
    BY <1>3, <1>7
  <2>2. Left = Rest(0) \cup Rest(6)
    <3>1. 0..11 = 0..5 \cup 6..11
      OBVIOUS
    <3> QED
      BY <1>7, <3>1
  <2>3. \A x \in Rest(0), y \in Rest(6) : x < y
    OBVIOUS
  <2> HIDE DEF Quad, Rest, at, Left
  <2>4. ListsUp(Quad(0) \o Quad(6), Rest(0) \cup Rest(6)) /\ Len(Quad(0) \o Quad(6)) = Len(Quad(0)) + Len(Quad(6))
    BY <1>1, <2>3, UpAgain
  <2>5. Len(Quad(0)) = 4 /\ Len(Quad(6)) = 4
    BY <1>1
  <2>6. ListsUp(at, Left)
    BY <2>1, <2>2, <2>4
  <2>7. Len(at) = 8
    <3>1. Len(at) = Len(Quad(0)) + Len(Quad(6))
      BY <2>1, <2>4
    <3>2. Len(at) = 4 + 4
      BY <2>5, <3>1, Zenon
    <3> QED
      BY <3>2
  <2> QED
    BY <2>6, <2>7 DEF at, Left
<1> QED
  BY <1>4, <1>5, <1>6, <1>7 DEF Windows

\* Neighbours are the whole window.
LEMMA NeighboursAreRead ==
  ASSUME NEW w \in Windows
  PROVE  ListsUp(Neighbours(w[1], w[2]), w[1]..(w[2] - 1)) /\ Len(Neighbours(w[1], w[2])) <= 12
         /\ (w = <<0, 12>> => Len(Neighbours(w[1], w[2])) = 12)
<1> DEFINE n == w[1]
           m == w[2] - w[1]
           s == Neighbours(w[1], w[2])
<1>1. n \in Nat /\ m \in Nat /\ w[2] = n + m /\ m <= 12 /\ (w = <<0, 12>> => m = 12)
  BY DEF Windows
<1>2. s = [i \in 1..m |-> (n + i) - 1]
  BY <1>1 DEF Neighbours
<1> HIDE DEF n, m, s
<1>3. s \in Seq(Nat) /\ Len(s) = m /\ \A i \in 1..m : s[i] = (n + i) - 1
  BY <1>1, <1>2
<1>4. \A i, j \in 1..m : i < j => s[i] < s[j]
  BY <1>1, <1>3
<1>5. {s[i] : i \in 1..m} = n..((n + m) - 1)
  <2>1. \A i \in 1..m : s[i] \in n..((n + m) - 1)
    BY <1>1, <1>3
  <2>2. ASSUME NEW x \in n..((n + m) - 1) PROVE \E i \in 1..m : s[i] = x
    <3>1. (x - n) + 1 \in 1..m /\ (n + ((x - n) + 1)) - 1 = x
      BY <1>1
    <3> QED
      BY <1>3, <3>1
  <2> QED
    BY <2>1, <2>2
<1> QED
  BY <1>1, <1>3, <1>4, <1>5 DEF ListsUp, s, n

\* lte_chk_ref for the one antenna finds the first reference of a block and the
\* one six further on.
OneBase(cell, l) == (cell + (IF l = 0 THEN 0 ELSE 3)) % 6

\* One antenna has a reference in two places of a block.
LEMMA OneIsRef ==
  ASSUME NEW cell \in CellIds, NEW slot \in {0, 1}, NEW l \in {0, 4}, ~(slot = 0 /\ l = 0), NEW sc
  PROVE  /\ OneBase(cell, l) \in 0..5
         /\ ChkRef(cell, slot, l, sc, 1) <=> sc \in {OneBase(cell, l), OneBase(cell, l) + 6}
<1>1. cell \in Nat
  BY DEF CellIds
<1> DEFINE v == IF l = 0 THEN 0 ELSE 3
           b == (cell + v) % 6
<1>2. v \in {0, 3} /\ V(0, l) = v
  BY DEF V
<1>3. (v + (cell % 6)) % 6 = b /\ b \in 0..5
  BY <1>1, <1>2
<1> HIDE DEF v, b
<1>4. (V(0, l) + (cell % 6)) % 6 = b
  BY <1>2, <1>3
<1>5. ~((slot = 0 /\ l = 0) \/ 1 = 2) /\ (1 = 1 /\ (slot # 0 \/ l # 0) /\ l \in {0, 4})
  OBVIOUS
<1>6. ChkRef(cell, slot, l, sc, 1) <=> LET base == (V(0, l) + (cell % 6)) % 6 IN sc \in {base, base + 6}
  BY <1>5 DEF ChkRef
<1>7. OneBase(cell, l) = b
  BY DEF OneBase, b, v
<1> QED
  BY <1>3, <1>4, <1>6, <1>7

\* Two more numbers at the end of a list
LEMMA TwoUp ==
  ASSUME NEW T, NEW s, ListsUp(s, T), NEW a \in Nat, NEW b \in Nat, a < b, \A x \in T : x \in Nat /\ x < a
  PROVE  ListsUp(s \o <<a, b>>, T \cup {a, b}) /\ Len(s \o <<a, b>>) = Len(s) + 2
<1>1. ListsUp(<<a, b>>, {a, b}) /\ Len(<<a, b>>) = 2
  <2> DEFINE p == <<a, b>>
  <2>1. p \in Seq(Nat) /\ Len(p) = 2 /\ p[1] = a /\ p[2] = b /\ 1..2 = {1, 2}
    OBVIOUS
  <2> HIDE DEF p
  <2>2. (\A i, j \in 1..2 : i < j => p[i] < p[j]) /\ {p[i] : i \in 1..2} = {a, b}
    BY <2>1
  <2>3. ListsUp(p, {a, b}) /\ Len(p) = 2
    BY <2>1, <2>2 DEF ListsUp
  <2> QED
    BY <2>3 DEF p
<1> DEFINE p == <<a, b>>
           U == {a, b}
<1>2. \A x \in T, y \in U : x < y
  OBVIOUS
<1>3. ListsUp(p, U) /\ Len(p) = 2
  BY <1>1
<1> HIDE DEF p, U
<1>6. ListsUp(p, U)
  BY <1>3
<1>7. ListsUp(s, T)
  OBVIOUS
<1>4. ListsUp(s \o p, T \cup U) /\ Len(s \o p) = Len(s) + Len(p)
  BY <1>2, <1>6, <1>7, UpAgain
<1>5. Len(s \o p) = Len(s) + 2
  BY <1>3, <1>4, Zenon
<1> QED
  BY <1>4, <1>5 DEF p, U

\* pdsch_extract_ref1 reads the rest of a block in pairs, and what it has read up
\* to a subcarrier is an even number of elements.
Passed(b, k) == IF k <= b THEN 0 ELSE IF k <= b + 6 THEN 1 ELSE 2
ReadTo(b, k, out) == /\ k \in 0..12 /\ ListsUp(out, {sc \in 0..(k - 1) : sc \notin {b, b + 6}})
                     /\ Len(out) = k - Passed(b, k) /\ (k - Passed(b, k)) % 2 = 0

\* One turn of pdsch_extract_ref1 steps over a reference and reads two elements.
LEMMA PairIsRead ==
  ASSUME NEW b \in 0..5, NEW k \in 0..10, NEW out, ReadTo(b, k, out)
  PROVE  /\ k \in {b, b + 6} => ReadTo(b, k + 3, out \o <<k + 1, k + 2>>)
         /\ k \notin {b, b + 6} /\ k + 1 \in {b, b + 6} => ReadTo(b, k + 3, out \o <<k, k + 2>>)
         /\ k \notin {b, b + 6} /\ k + 1 \notin {b, b + 6} => ReadTo(b, k + 2, out \o <<k, k + 1>>)
<1> DEFINE Left(n) == {sc \in 0..(n - 1) : sc \notin {b, b + 6}}
<1>1. ListsUp(out, Left(k)) /\ Len(out) = k - Passed(b, k) /\ (k - Passed(b, k)) % 2 = 0
  BY DEF ReadTo
<1>2. Left(k) \in SUBSET (0..(k - 1))
  OBVIOUS
<1>3. \A a, c \in Nat : a >= k /\ a < c => ListsUp(out \o <<a, c>>, Left(k) \cup {a, c}) /\ Len(out \o <<a, c>>) = Len(out) + 2
  <2> SUFFICES ASSUME NEW a \in Nat, NEW c \in Nat, a >= k, a < c
               PROVE  ListsUp(out \o <<a, c>>, Left(k) \cup {a, c}) /\ Len(out \o <<a, c>>) = Len(out) + 2
    OBVIOUS
  <2>1. \A x \in Left(k) : x \in Nat /\ x < a
    BY <1>2
  <2> HIDE DEF Left
  <2> QED
    BY <1>1, <2>1, TwoUp
<1>4. CASE k \in {b, b + 6}
  <2>1. k + 3 <= 12 /\ Passed(b, k + 3) = Passed(b, k) + 1
    BY <1>1, <1>4 DEF Passed
  <2>2. Left(k + 3) = Left(k) \cup {k + 1, k + 2}
    <3>1. \A sc : sc \in 0..(k + 2) <=> sc \in 0..(k - 1) \/ sc = k \/ sc = k + 1 \/ sc = k + 2
      OBVIOUS
    <3> QED
      BY <1>4, <3>1
  <2>3. k + 1 \in Nat /\ k + 2 \in Nat /\ k + 1 >= k /\ k + 1 < k + 2
    OBVIOUS
  <2>4. ListsUp(out \o <<k + 1, k + 2>>, Left(k + 3)) /\ Len(out \o <<k + 1, k + 2>>) = Len(out) + 2
    BY <1>3, <2>2, <2>3
  <2>5. Passed(b, k) \in {0, 1, 2}
    BY DEF Passed
  <2>6. Len(out) + 2 = (k + 3) - Passed(b, k + 3) /\ ((k + 3) - Passed(b, k + 3)) % 2 = 0
    BY <1>1, <2>1, <2>5
  <2> QED
    BY <1>4, <2>1, <2>4, <2>6 DEF ReadTo
<1>5. CASE k \notin {b, b + 6} /\ k + 1 \in {b, b + 6}
  <2>1. k + 3 <= 12 /\ Passed(b, k + 3) = Passed(b, k) + 1
    BY <1>1, <1>5 DEF Passed
  <2>2. Left(k + 3) = Left(k) \cup {k, k + 2}
    <3>1. \A sc : sc \in 0..(k + 2) <=> sc \in 0..(k - 1) \/ sc = k \/ sc = k + 1 \/ sc = k + 2
      OBVIOUS
    <3> QED
      BY <1>5, <3>1
  <2>3. k \in Nat /\ k + 2 \in Nat /\ k >= k /\ k < k + 2
    OBVIOUS
  <2>4. ListsUp(out \o <<k, k + 2>>, Left(k + 3)) /\ Len(out \o <<k, k + 2>>) = Len(out) + 2
    BY <1>3, <2>2, <2>3
  <2>5. Passed(b, k) \in {0, 1, 2}
    BY DEF Passed
  <2>6. Len(out) + 2 = (k + 3) - Passed(b, k + 3) /\ ((k + 3) - Passed(b, k + 3)) % 2 = 0
    BY <1>1, <2>1, <2>5
  <2> QED
    BY <1>5, <2>1, <2>4, <2>6 DEF ReadTo
<1>6. CASE k \notin {b, b + 6} /\ k + 1 \notin {b, b + 6}
  <2>1. k + 2 <= 12 /\ Passed(b, k + 2) = Passed(b, k)
    BY <1>6 DEF Passed
  <2>2. Left(k + 2) = Left(k) \cup {k, k + 1}
    <3>1. \A sc : sc \in 0..(k + 1) <=> sc \in 0..(k - 1) \/ sc = k \/ sc = k + 1
      OBVIOUS
    <3> QED
      BY <1>6, <3>1
  <2>3. k \in Nat /\ k + 1 \in Nat /\ k >= k /\ k < k + 1
    OBVIOUS
  <2>4. ListsUp(out \o <<k, k + 1>>, Left(k + 2)) /\ Len(out \o <<k, k + 1>>) = Len(out) + 2
    BY <1>3, <2>2, <2>3
  <2>5. Passed(b, k) \in {0, 1, 2}
    BY DEF Passed
  <2>6. Len(out) + 2 = (k + 2) - Passed(b, k + 2) /\ ((k + 2) - Passed(b, k + 2)) % 2 = 0
    BY <1>1, <2>1, <2>5
  <2> QED
    BY <1>6, <2>1, <2>4, <2>6 DEF ReadTo
<1> QED
  BY <1>4, <1>5, <1>6

\* pdsch_extract_ref1 reads the rest of a block.
LEMMA OneIsRead ==
  ASSUME NEW cell \in CellIds, NEW slot \in {0, 1}, NEW l \in {0, 4}, ~(slot = 0 /\ l = 0), NEW end \in {0, 12}
  PROVE  /\ ListsUp(AroundOne(cell, slot, l, 0, end), {sc \in 0..(end - 1) : sc \notin {OneBase(cell, l), OneBase(cell, l) + 6}})
         /\ Len(AroundOne(cell, slot, l, 0, end)) <= 10
         /\ end = 12 => Len(AroundOne(cell, slot, l, 0, end)) = 10
<1> DEFINE IsRef(sc) == ChkRef(cell, slot, l, sc, 1)
           Pairing(old) == LET at == old.n IN
                 CASE at + 1 >= end -> old
                      [] at + 1 < end /\ IsRef(at) -> [n |-> at + 3, out |-> old.out \o <<at + 1, at + 2>>]
                      [] at + 1 < end /\ ~IsRef(at) /\ IsRef(at + 1) ->
                            [n |-> at + 3, out |-> old.out \o <<at, at + 2>>]
                      [] OTHER -> [n |-> at + 2, out |-> old.out \o <<at, at + 1>>]
           Runs(g) == g = [i \in 0..6 |-> IF i = 0 THEN [n |-> 0, out |-> << >>] ELSE Pairing(g[i - 1])]
           read == CHOOSE g : Runs(g)
           b == OneBase(cell, l)
           S == [n : Nat, out : Seq(Nat)]
           Later == [p \in Nat \X S |-> Pairing(p[2])]
           first == [n |-> 0, out |-> << >>]
<1>1. AroundOne(cell, slot, l, 0, end) = read[6].out
  BY DEF AroundOne
<1>2. b \in 0..5 /\ \A sc : IsRef(sc) <=> sc \in {b, b + 6}
  BY OneIsRef
<1> HIDE DEF b, IsRef
<1>3. ASSUME NEW k \in Nat, NEW out \in Seq(Nat), NEW old, old = [n |-> k, out |-> out]
      PROVE  /\ k + 1 >= end => Pairing(old) = old
             /\ k + 1 < end /\ k \in {b, b + 6} => Pairing(old) = [n |-> k + 3, out |-> out \o <<k + 1, k + 2>>]
             /\ k + 1 < end /\ k \notin {b, b + 6} /\ k + 1 \in {b, b + 6} =>
                   Pairing(old) = [n |-> k + 3, out |-> out \o <<k, k + 2>>]
             /\ k + 1 < end /\ k \notin {b, b + 6} /\ k + 1 \notin {b, b + 6} =>
                   Pairing(old) = [n |-> k + 2, out |-> out \o <<k, k + 1>>]
  <2>1. old.n = k /\ old.out = out /\ k \in Int /\ end \in Int
    BY <1>3
  <2>2. k + 1 >= end <=> ~(k + 1 < end)
    BY <2>1
  <2>3. (IsRef(k) <=> k \in {b, b + 6}) /\ (IsRef(k + 1) <=> k + 1 \in {b, b + 6})
    BY <1>2
  <2>4. k + 1 >= end => Pairing(old) = old
    BY <2>1, <2>2
  <2>5. k + 1 < end /\ IsRef(k) => Pairing(old) = [n |-> k + 3, out |-> out \o <<k + 1, k + 2>>]
    BY <2>1, <2>2
  <2>6. k + 1 < end /\ ~IsRef(k) /\ IsRef(k + 1) => Pairing(old) = [n |-> k + 3, out |-> out \o <<k, k + 2>>]
    BY <2>1, <2>2
  <2>7. k + 1 < end /\ ~IsRef(k) /\ ~IsRef(k + 1) => Pairing(old) = [n |-> k + 2, out |-> out \o <<k, k + 1>>]
    BY <2>1, <2>2
  <2> HIDE DEF Pairing
  <2> QED
    BY <2>3, <2>4, <2>5, <2>6, <2>7
<1> HIDE DEF Pairing
<1>4. \E g : Runs(g)
  <2>1. \A old \in S : Pairing(old) \in S
    <3> SUFFICES ASSUME NEW old \in S PROVE Pairing(old) \in S
      OBVIOUS
    <3> DEFINE k == old.n
               out == old.out
    <3>1. k \in Nat /\ out \in Seq(Nat) /\ old = [n |-> k, out |-> out]
      OBVIOUS
    <3>2. ASSUME NEW x \in Nat, NEW y \in Nat, NEW z \in Nat PROVE [n |-> x, out |-> out \o <<y, z>>] \in S
      BY <3>1
    <3>3. /\ k + 1 \in Nat /\ k + 2 \in Nat /\ k + 3 \in Nat
          /\ k + 1 >= end \/ k + 1 < end
      BY <3>1
    <3> HIDE DEF k, out, S
    <3>4. /\ k + 1 >= end => Pairing(old) = old
          /\ k + 1 < end /\ k \in {b, b + 6} => Pairing(old) = [n |-> k + 3, out |-> out \o <<k + 1, k + 2>>]
          /\ k + 1 < end /\ k \notin {b, b + 6} /\ k + 1 \in {b, b + 6} =>
                Pairing(old) = [n |-> k + 3, out |-> out \o <<k, k + 2>>]
          /\ k + 1 < end /\ k \notin {b, b + 6} /\ k + 1 \notin {b, b + 6} =>
                Pairing(old) = [n |-> k + 2, out |-> out \o <<k, k + 1>>]
      BY <1>3, <3>1
    <3>5. /\ [n |-> k + 3, out |-> out \o <<k + 1, k + 2>>] \in S
          /\ [n |-> k + 3, out |-> out \o <<k, k + 2>>] \in S
          /\ [n |-> k + 2, out |-> out \o <<k, k + 1>>] \in S
      BY <3>1, <3>2, <3>3
    <3> QED
      BY <3>3, <3>4, <3>5, Zenon
  <2>2. first \in S
    OBVIOUS
  <2>3. Later \in [Nat \X S -> S] /\ \A i \in Nat, s \in S : Later[<<i, s>>] = Pairing(s)
    <3> HIDE DEF S
    <3> QED
      BY <2>1
  <2> HIDE DEF S, Later, first
  <2>4. PICK g \in [0..6 -> S] : Iterates(g, 6, first, Later)
    BY <2>2, <2>3, Iteration
  <2>5. \A i \in 0..6 : g[i] = IF i = 0 THEN first ELSE Pairing(g[i - 1])
    <3> SUFFICES ASSUME NEW i \in 1..6 PROVE g[i] = Pairing(g[i - 1])
      BY <2>4 DEF Iterates
    <3>1. i - 1 \in 0..6 /\ i \in Nat
      OBVIOUS
    <3> QED
      BY <2>3, <2>4, <3>1 DEF Iterates
  <2>6. Runs(g)
    BY <2>4, <2>5 DEF first
  <2> HIDE DEF Runs
  <2> QED
    BY <2>6
<1>5. Runs(read)
  <2> HIDE DEF Runs
  <2> QED
    BY <1>4
<1> HIDE DEF read
<1>6. read[0] = first /\ \A i \in 1..6 : read[i] = Pairing(read[i - 1])
  <2>1. \A i \in 0..6 : read[i] = IF i = 0 THEN first ELSE Pairing(read[i - 1])
    BY <1>5, Zenon
  <2>2. 0 \in 0..6 /\ \A i \in 1..6 : i \in 0..6 /\ i # 0
    OBVIOUS
  <2> QED
    BY <2>1, <2>2, Zenon
<1> HIDE DEF Later, S
<1>7. CASE end = 0
  <2> DEFINE G == {i \in 0..6 : read[i] = first}
  <2>1. 0 \in G
    BY <1>6
  <2>2. Pairing(first) = first
    <3>1. << >> \in Seq(Nat) /\ 0 + 1 >= end /\ 0 \in Nat
      BY <1>7
    <3> QED
      BY <1>3, <3>1
  <2>3. \A i \in 1..6 : i - 1 \in G => i \in G
    <3> HIDE DEF first
    <3> QED
      BY <1>6, <2>2
  <2> HIDE DEF G
  <2>4. 0..6 \subseteq G
    BY <2>1, <2>3, ClimbTo
  <2>5. read[6] = first
    BY <2>4 DEF G
  <2>6. ListsUp(<< >>, {})
    BY DEF ListsUp
  <2>7. {sc \in 0..(end - 1) : sc \notin {b, b + 6}} = {}
    BY <1>7
  <2> QED
    BY <1>1, <1>7, <2>5, <2>6, <2>7 DEF b
<1>8. CASE end = 12
  <2> DEFINE Good(i) == \E k \in Nat, out \in Seq(Nat) : /\ read[i] = [n |-> k, out |-> out] /\ ReadTo(b, k, out)
                                                         /\ k >= 11 \/ k >= 2 * i
             G == {i \in 0..6 : Good(i)}
  <2>1. 0 \in G
    <3>1. {sc \in 0..(0 - 1) : sc \notin {b, b + 6}} = {} /\ ListsUp(<< >>, {}) /\ Len(<< >>) = 0
      BY DEF ListsUp
    <3>2. Passed(b, 0) = 0
      BY <1>2 DEF Passed
    <3>3. ReadTo(b, 0, << >>)
      BY <3>1, <3>2 DEF ReadTo
    <3>4. 0 \in Nat /\ << >> \in Seq(Nat) /\ read[0] = [n |-> 0, out |-> << >>] /\ 0 >= 2 * 0
      BY <1>6
    <3>5. Good(0)
      BY <3>3, <3>4
    <3> QED
      BY <3>5
  <2>2. ASSUME NEW i \in 1..6, i - 1 \in G PROVE i \in G
    <3>1. PICK k \in Nat, out \in Seq(Nat) : /\ read[i - 1] = [n |-> k, out |-> out] /\ ReadTo(b, k, out)
                                             /\ k >= 11 \/ k >= 2 * (i - 1)
      BY <2>2
    <3>2. read[i] = Pairing(read[i - 1])
      BY <1>6
    <3>3. k \in 0..12
      BY <3>1 DEF ReadTo
    <3>4. CASE k >= 11
      <4>1. read[i] = [n |-> k, out |-> out]
        <5>1. k + 1 >= end
          BY <1>8, <3>4
        <5> QED
          BY <1>3, <3>1, <3>2, <5>1
      <4>2. Good(i)
        BY <3>1, <3>4, <4>1
      <4>3. i \in 0..6
        OBVIOUS
      <4> HIDE DEF Good
      <4> QED
        BY <4>2, <4>3
    <3>5. CASE k <= 10
      <4>1. k \in 0..10 /\ k + 1 < end /\ k >= 2 * (i - 1)
        BY <1>8, <3>1, <3>3, <3>5
      <4>2. /\ k \in {b, b + 6} => ReadTo(b, k + 3, out \o <<k + 1, k + 2>>)
            /\ k \notin {b, b + 6} /\ k + 1 \in {b, b + 6} => ReadTo(b, k + 3, out \o <<k, k + 2>>)
            /\ k \notin {b, b + 6} /\ k + 1 \notin {b, b + 6} => ReadTo(b, k + 2, out \o <<k, k + 1>>)
        BY <1>2, <3>1, <4>1, PairIsRead
      <4>3. /\ k \in {b, b + 6} => read[i] = [n |-> k + 3, out |-> out \o <<k + 1, k + 2>>]
            /\ k \notin {b, b + 6} /\ k + 1 \in {b, b + 6} => read[i] = [n |-> k + 3, out |-> out \o <<k, k + 2>>]
            /\ k \notin {b, b + 6} /\ k + 1 \notin {b, b + 6} => read[i] = [n |-> k + 2, out |-> out \o <<k, k + 1>>]
        BY <1>3, <3>1, <3>2, <4>1
      <4>4. /\ k + 2 \in Nat /\ k + 3 \in Nat /\ k + 2 >= 2 * i /\ k + 3 >= 2 * i
            /\ out \o <<k + 1, k + 2>> \in Seq(Nat) /\ out \o <<k, k + 2>> \in Seq(Nat) /\ out \o <<k, k + 1>> \in Seq(Nat)
        BY <4>1
      <4>5. Good(i)
        BY <4>2, <4>3, <4>4
      <4>6. i \in 0..6
        OBVIOUS
      <4> HIDE DEF Good
      <4> QED
        BY <4>5, <4>6
    <3>6. k >= 11 \/ k <= 10
      BY <3>3
    <3> HIDE DEF G
    <3> QED
      BY <3>4, <3>5, <3>6
  <2> HIDE DEF G
  <2>3. 0..6 \subseteq G
    BY <2>1, <2>2, ClimbTo
  <2>4. Good(6)
    <3>1. 6 \in G
      BY <2>3
    <3> HIDE DEF Good
    <3> QED
      BY <3>1 DEF G
  <2>5. PICK k \in Nat, out \in Seq(Nat) : read[6] = [n |-> k, out |-> out] /\ ReadTo(b, k, out) /\ k >= 11
    <3>1. PICK k \in Nat, out \in Seq(Nat) : read[6] = [n |-> k, out |-> out] /\ ReadTo(b, k, out) /\ (k >= 11 \/ k >= 2 * 6)
      BY <2>4
    <3>2. k >= 11
      BY <3>1
    <3> QED
      BY <3>1, <3>2
  <2>6. /\ k \in 0..12 /\ ListsUp(out, {sc \in 0..(k - 1) : sc \notin {b, b + 6}})
        /\ Len(out) = k - Passed(b, k) /\ (k - Passed(b, k)) % 2 = 0
    BY <2>5 DEF ReadTo
  <2> DEFINE at == AroundOne(cell, slot, l, 0, end)
             Rest == {sc \in 0..(12 - 1) : sc \notin {b, b + 6}}
  <2>9. at = out
    BY <1>1, <2>5
  <2> HIDE DEF at
  <2>7. k = 12 => ListsUp(out, Rest) /\ Len(out) = 10
    <3> SUFFICES ASSUME k = 12 PROVE ListsUp(out, Rest) /\ Len(out) = 10
      OBVIOUS
    <3>1. Passed(b, 12) = 2
      BY <1>2 DEF Passed
    <3>2. ListsUp(out, Rest)
      BY <2>6
    <3>3. Len(out) = 12 - 2
      BY <2>6, <3>1
    <3> QED
      BY <3>2, <3>3
  <2>8. k = 11 => ListsUp(out, Rest) /\ Len(out) = 10
    <3> SUFFICES ASSUME k = 11 PROVE ListsUp(out, Rest) /\ Len(out) = 10
      OBVIOUS
    <3>1. Passed(b, 11) = 1 /\ b = 5
      <4>1. (11 - Passed(b, 11)) % 2 = 0
        BY <2>6
      <4> QED
        BY <1>2, <4>1 DEF Passed
    <3>2. {sc \in 0..(11 - 1) : sc \notin {b, b + 6}} = Rest
      BY <3>1
    <3>3. Len(out) = 10
      BY <2>6, <3>1
    <3> QED
      BY <2>6, <3>2, <3>3
  <2>10. k = 11 \/ k = 12
    BY <2>5, <2>6
  <2>11. Rest = {sc \in 0..(end - 1) : sc \notin {OneBase(cell, l), OneBase(cell, l) + 6}}
    BY <1>8 DEF b
  <2> HIDE DEF Rest
  <2>12. ListsUp(at, Rest) /\ Len(at) = 10
    BY <2>7, <2>8, <2>9, <2>10, Zenon
  <2>13. 10 <= 10
    OBVIOUS
  <2>14. Len(at) <= 10
    BY <2>12, <2>13, Zenon
  <2> QED
    BY <2>11, <2>12, <2>14, Zenon DEF at
<1> QED
  BY <1>7, <1>8

\* reserved_rb leaves of a block what is not in the centre.
LEMMA WindowsAreFree ==
  ASSUME NEW rbs \in Bandwidths, NEW sf, NEW slot, NEW l, NEW rb \in 0..(rbs - 1),
         rbs = 15 /\ HasReserved(sf, slot, l) => rb \notin HalfTaken(15)
  PROVE  /\ Window(rbs, sf, slot, l, rb) \in Windows
         /\ rb \notin HalfTaken(rbs) => Window(rbs, sf, slot, l, rb) \in {<<0, 0>>, <<0, 12>>}
         /\ ~HasReserved(sf, slot, l) => Window(rbs, sf, slot, l, rb) = <<0, 12>>
         /\ \A sc \in 0..11 : LET w == Window(rbs, sf, slot, l, rb) IN
               sc \in w[1]..(w[2] - 1) <=> ~(HasReserved(sf, slot, l) /\ InCentre(rbs, rb * RbLen + sc))
<1> DEFINE w == Window(rbs, sf, slot, l, rb)
           Has == HasReserved(sf, slot, l)
           Free(x) == /\ x \in Windows
                      /\ rb \notin HalfTaken(rbs) => x \in {<<0, 0>>, <<0, 12>>}
                      /\ \A sc \in 0..11 : sc \in x[1]..(x[2] - 1) <=> ~InCentre(rbs, rb * RbLen + sc)
<1>1. CASE ~Has
  <2>1. w = <<0, 12>>
    BY <1>1 DEF Window
  <2>2. \A sc \in 0..11 : sc \in 0..(12 - 1)
    OBVIOUS
  <2> HIDE DEF w
  <2> QED
    BY <1>1, <2>1, <2>2 DEF Windows, w
<1>2. CASE Has
  <2> DEFINE whole == WholeReserved(rbs)
             upper == UpperReserved(rbs)
             lower == LowerReserved(rbs)
             x == CASE rb \in whole -> <<0, 0>> [] rb \in upper -> <<0, 6>> [] rb \in lower -> <<6, 12>> [] OTHER -> <<0, 12>>
  <2>1. w = CASE Has /\ rb \in whole -> <<0, 0>> [] Has /\ rb \in upper -> <<0, 6>> [] Has /\ rb \in lower -> <<6, 12>>
              [] OTHER -> <<0, 12>>
    BY DEF Window
  <2> HIDE DEF whole, upper, lower
  <2>2. Free(<<0, 0>>) <=> \A sc \in 0..11 : InCentre(rbs, rb * RbLen + sc)
    BY DEF Windows
  <2>3. Free(<<0, 12>>) <=> \A sc \in 0..11 : ~InCentre(rbs, rb * RbLen + sc)
    BY DEF Windows
  <2>4. Free(<<0, 6>>) <=> rb \in HalfTaken(rbs) /\ \A sc \in 0..11 : InCentre(rbs, rb * RbLen + sc) <=> sc >= 6
    BY DEF Windows
  <2>5. Free(<<6, 12>>) <=> rb \in HalfTaken(rbs) /\ \A sc \in 0..11 : InCentre(rbs, rb * RbLen + sc) <=> sc < 6
    BY DEF Windows
  <2> HIDE DEF w, Free
  <2>6. /\ rb \in whole => \A sc \in 0..11 : InCentre(rbs, rb * RbLen + sc)
        /\ rb \in upper => rb \in HalfTaken(rbs) /\ \A sc \in 0..11 : InCentre(rbs, rb * RbLen + sc) <=> sc >= 6
        /\ rb \in lower => rb \in HalfTaken(rbs) /\ \A sc \in 0..11 : InCentre(rbs, rb * RbLen + sc) <=> sc < 6
        /\ rb \notin whole \cup upper \cup lower => \A sc \in 0..11 : ~InCentre(rbs, rb * RbLen + sc)
        /\ whole \cap upper = {} /\ whole \cap lower = {} /\ upper \cap lower = {}
    <3>1. CASE rbs = 6
      <4>1. whole = 0..5 /\ upper = {} /\ lower = {}
        BY <3>1 DEF whole, upper, lower, WholeReserved, UpperReserved, LowerReserved
      <4> QED
        BY <3>1, <4>1 DEF InCentre, RbLen
    <3>2. CASE rbs = 15
      <4>1. whole = 4..9 /\ upper = {} /\ lower = {}
        BY <3>2 DEF whole, upper, lower, WholeReserved, UpperReserved, LowerReserved
      <4>2. rb # 4 /\ rb # 10
        BY <1>2, <3>2 DEF HalfTaken
      <4> QED
        BY <3>2, <4>1, <4>2 DEF InCentre, RbLen
    <3>3. CASE rbs = 25
      <4>1. whole = 10..14 /\ upper = {9} /\ lower = {15}
        BY <3>3 DEF whole, upper, lower, WholeReserved, UpperReserved, LowerReserved
      <4>2. HalfTaken(rbs) = {9, 15}
        BY <3>3 DEF HalfTaken
      <4> QED
        BY <3>3, <4>1, <4>2 DEF InCentre, RbLen
    <3>4. CASE rbs = 50
      <4>1. whole = 22..27 /\ upper = {} /\ lower = {}
        BY <3>4 DEF whole, upper, lower, WholeReserved, UpperReserved, LowerReserved
      <4> QED
        BY <3>4, <4>1 DEF InCentre, RbLen
    <3>5. CASE rbs = 75
      <4>1. whole = 35..39 /\ upper = {34} /\ lower = {40}
        BY <3>5 DEF whole, upper, lower, WholeReserved, UpperReserved, LowerReserved
      <4>2. HalfTaken(rbs) = {34, 40}
        BY <3>5 DEF HalfTaken
      <4> QED
        BY <3>5, <4>1, <4>2 DEF InCentre, RbLen
    <3>6. CASE rbs = 100
      <4>1. whole = 47..52 /\ upper = {} /\ lower = {}
        BY <3>6 DEF whole, upper, lower, WholeReserved, UpperReserved, LowerReserved
      <4> QED
        BY <3>6, <4>1 DEF InCentre, RbLen
    <3> QED
      BY <3>1, <3>2, <3>3, <3>4, <3>5, <3>6 DEF Bandwidths
  <2>7. CASE rb \in whole
    BY <1>2, <2>1, <2>2, <2>6, <2>7 DEF Free, w
  <2>8. CASE rb \in upper
    BY <1>2, <2>1, <2>4, <2>6, <2>8 DEF Free, w
  <2>9. CASE rb \in lower
    BY <1>2, <2>1, <2>5, <2>6, <2>9 DEF Free, w
  <2>10. CASE rb \notin whole \cup upper \cup lower
    BY <1>2, <2>1, <2>3, <2>6, <2>10 DEF Free, w
  <2> QED
    BY <2>7, <2>8, <2>9, <2>10
<1> QED
  BY <1>1, <1>2

\* The elements of one block in one symbol, the lowest first
Element == Nat \X Nat \X Nat

BlockIs(s, slot, l, rb, S) ==
  /\ s \in Seq(Element)
  /\ \A i \in 1..Len(s) : s[i][1] = slot /\ s[i][2] = l /\ s[i][3] \in (12 * rb)..(12 * rb + 11)
  /\ \A i, j \in 1..Len(s) : i < j => s[i][3] < s[j][3]
  /\ \A e : e \in ToSet(s) <=> \E sc \in S : e = <<slot, l, 12 * rb + sc>>

PlacedIn(slot, l, rb, at) == [i \in DOMAIN at |-> <<slot, l, rb * RbLen + at[i]>>]

\* A list of subcarriers that goes up, placed in a block
LEMMA PlacedBlock ==
  ASSUME NEW slot \in Nat, NEW l \in Nat, NEW rb \in Nat, NEW S \in SUBSET (0..11), NEW at, ListsUp(at, S)
  PROVE  BlockIs(PlacedIn(slot, l, rb, at), slot, l, rb, S) /\ Len(PlacedIn(slot, l, rb, at)) = Len(at)
<1> DEFINE s == PlacedIn(slot, l, rb, at)
           m == Len(at)
<1>1. m \in Nat /\ DOMAIN at = 1..m /\ \A i \in 1..m : at[i] \in Nat
  BY DEF ListsUp
<1>2. (\A i, j \in 1..m : i < j => at[i] < at[j]) /\ {at[i] : i \in 1..m} = S
  BY DEF ListsUp
<1>3. s = [i \in 1..m |-> <<slot, l, 12 * rb + at[i]>>]
  BY <1>1 DEF RbLen, PlacedIn
<1> HIDE DEF m, s
<1>4. \A i \in 1..m : <<slot, l, 12 * rb + at[i]>> \in Element
  BY <1>1 DEF Element
<1>5. s \in Seq(Element) /\ Len(s) = m /\ \A i \in 1..m : s[i] = <<slot, l, 12 * rb + at[i]>>
  BY <1>1, <1>3, <1>4
<1>6. \A i \in 1..m : s[i][1] = slot /\ s[i][2] = l /\ s[i][3] = 12 * rb + at[i]
  BY <1>5
<1>7. \A i \in 1..m : at[i] \in 0..11
  BY <1>2
<1>8. \A i \in 1..m : s[i][3] \in (12 * rb)..(12 * rb + 11)
  BY <1>6, <1>7
<1>9. \A i, j \in 1..m : i < j => s[i][3] < s[j][3]
  BY <1>1, <1>2, <1>6
<1>10. \A e : e \in ToSet(s) <=> \E sc \in S : e = <<slot, l, 12 * rb + sc>>
  <2> TAKE e
  <2>1. e \in ToSet(s) <=> \E i \in 1..m : e = s[i]
    BY <1>5, MembersOf
  <2>2. \A i \in 1..m : s[i] = <<slot, l, 12 * rb + at[i]>> /\ at[i] \in S
    BY <1>2, <1>5
  <2>3. \A sc \in S : \E i \in 1..m : at[i] = sc
    BY <1>2
  <2> QED
    BY <2>1, <2>2, <2>3
<1>11. BlockIs(s, slot, l, rb, S)
  BY <1>5, <1>6, <1>8, <1>9, <1>10 DEF BlockIs
<1> QED
  BY <1>5, <1>11 DEF s, m

\* References and reserved elements are left out.
IsReference(ants, cell, l, k) == l \in {0, 4} /\ (IF ants = 2 THEN RefOfTwo(cell, k) ELSE RefOfOne(cell, l, k))
FreeIn(rbs, cell, ants, sf, slot, l, rb) ==
  {sc \in 0..11 : /\ ~IsReference(ants, cell, l, rb * RbLen + sc)
                  /\ ~(HasReserved(sf, slot, l) /\ InCentre(rbs, rb * RbLen + sc))}
RoomIn(ants, l) == IF l \in {0, 4} THEN IF ants = 2 THEN 8 ELSE 10 ELSE 12

BlockRead(s, rbs, cell, ants, sf, slot, l, rb) ==
  /\ BlockIs(s, slot, l, rb, FreeIn(rbs, cell, ants, sf, slot, l, rb))
  /\ Len(s) <= RoomIn(ants, l)
  /\ ~HasReserved(sf, slot, l) => Len(s) = RoomIn(ants, l)

\* A block of which half is taken may be read only where reading goes by halves.
WholeWhere(rbs, ants, sf, slot, l, rb) == HasReserved(sf, slot, l) =>
  /\ rbs = 15 => rb \notin HalfTaken(15)
  /\ ants = 1 /\ l \in {0, 4} => rb \notin HalfTaken(rbs)

\* What is read of a block is what 36.211 leaves in it.
LEMMA BlockIsRead ==
  ASSUME NEW rbs \in Bandwidths, NEW cell \in CellIds, NEW ants \in {1, 2}, NEW sf, NEW slot \in {0, 1},
         NEW l \in SlotSymbols, ~(slot = 0 /\ l = 0), NEW rb \in 0..(rbs - 1),
         WholeWhere(rbs, ants, sf, slot, l, rb)
  PROVE  BlockRead(BlockElements(rbs, cell, ants, sf, slot, l, rb), rbs, cell, ants, sf, slot, l, rb)
<1> DEFINE w == Window(rbs, sf, slot, l, rb)
           both == AroundBoth(cell, w[1], w[2])
           one == AroundOne(cell, slot, l, w[1], w[2])
           all == Neighbours(w[1], w[2])
           at == CASE l \in {0, 4} /\ ants = 2 -> both
                   [] l \in {0, 4} /\ ants = 1 -> one
                   [] OTHER -> all
           s == BlockElements(rbs, cell, ants, sf, slot, l, rb)
           Has == HasReserved(sf, slot, l)
           Free == FreeIn(rbs, cell, ants, sf, slot, l, rb)
           b == OneBase(cell, l)
<1>0. /\ rbs = 15 /\ HasReserved(sf, slot, l) => rb \notin HalfTaken(15)
      /\ HasReserved(sf, slot, l) /\ ants = 1 /\ l \in {0, 4} => rb \notin HalfTaken(rbs)
  BY DEF WholeWhere
<1> USE <1>0
<1>1. s = PlacedIn(slot, l, rb, at)
  BY DEF BlockElements, PlacedIn
<1>2. /\ w \in Windows
      /\ rb \notin HalfTaken(rbs) => w \in {<<0, 0>>, <<0, 12>>}
      /\ ~Has => w = <<0, 12>>
      /\ \A sc \in 0..11 : sc \in w[1]..(w[2] - 1) <=> ~(Has /\ InCentre(rbs, rb * RbLen + sc))
  BY WindowsAreFree
<1>3. rbs \in Nat /\ rb \in Nat /\ cell \in Nat /\ slot \in Nat /\ l \in Nat
  BY DEF Bandwidths, CellIds, SlotSymbols
<1>4. \A sc \in 0..11 : RefOfTwo(cell, rb * RbLen + sc) <=> sc % 3 = cell % 3
  <2> SUFFICES ASSUME NEW sc \in 0..11 PROVE (rb * RbLen + sc) % 3 = sc % 3
    BY DEF RefOfTwo
  <2> QED
    BY <1>3 DEF RbLen
<1>5. l \in {0, 4} => \A sc \in 0..11 : RefOfOne(cell, l, rb * RbLen + sc) <=> sc \in {b, b + 6}
  <2> SUFFICES ASSUME l \in {0, 4}, NEW sc \in 0..11 PROVE RefOfOne(cell, l, rb * RbLen + sc) <=> sc \in {b, b + 6}
    OBVIOUS
  <2>1. (rb * RbLen + sc) % 6 = sc % 6
    BY <1>3 DEF RbLen
  <2>2. b \in 0..5
    BY OneIsRef
  <2>3. sc % 6 = b <=> sc \in {b, b + 6}
    <3> HIDE DEF b
    <3> QED
      BY <2>2
  <2> QED
    BY <2>1, <2>3 DEF RefOfOne, OneBase
<1>6. w[1]..(w[2] - 1) \subseteq 0..11
  BY <1>2 DEF Windows
<1> HIDE DEF w, Has
<1> DEFINE Goal == ListsUp(at, Free) /\ Len(at) <= RoomIn(ants, l) /\ (~Has => Len(at) = RoomIn(ants, l))
<1>7. ASSUME l \in {0, 4} /\ ants = 2 PROVE Goal
  <2>1. at = both /\ RoomIn(ants, l) = 8
    BY <1>7 DEF RoomIn
  <2>2. Free = {sc \in w[1]..(w[2] - 1) : sc % 3 # cell % 3}
    <3>1. \A sc \in 0..11 : sc \in Free <=> ~(sc % 3 = cell % 3) /\ sc \in w[1]..(w[2] - 1)
      BY <1>2, <1>4, <1>7 DEF FreeIn, IsReference, Has
    <3>2. Free \subseteq 0..11
      BY DEF FreeIn
    <3> QED
      BY <1>6, <3>1, <3>2
  <2> HIDE DEF at, Free
  <2>3. ListsUp(both, Free) /\ Len(both) <= 8 /\ (w = <<0, 12>> => Len(both) = 8)
    BY <1>2, <2>2, BothAreRead
  <2> QED
    BY <1>2, <2>1, <2>3
<1>8. ASSUME l \in {0, 4} /\ ants = 1 PROVE Goal
  <2>1. at = one /\ RoomIn(ants, l) = 10
    BY <1>8 DEF RoomIn
  <2>2. w \in {<<0, 0>>, <<0, 12>>}
    BY <1>2, <1>8 DEF Has
  <2>3. w[1] = 0 /\ w[2] \in {0, 12} /\ (w = <<0, 12>> => w[2] = 12)
    BY <2>2
  <2>4. Free = {sc \in 0..(w[2] - 1) : sc \notin {b, b + 6}}
    <3>1. \A sc \in 0..11 : sc \in Free <=> sc \notin {b, b + 6} /\ sc \in w[1]..(w[2] - 1)
      BY <1>2, <1>5, <1>8 DEF FreeIn, IsReference, Has
    <3>2. Free \subseteq 0..11
      BY DEF FreeIn
    <3> QED
      BY <1>6, <2>3, <3>1, <3>2
  <2>5. one = AroundOne(cell, slot, l, 0, w[2])
    BY <2>3
  <2> HIDE DEF at, Free, one
  <2>6. ListsUp(one, Free) /\ Len(one) <= 10 /\ (w[2] = 12 => Len(one) = 10)
    BY <1>8, <2>3, <2>4, <2>5, OneIsRead
  <2> QED
    BY <1>2, <2>1, <2>3, <2>6
<1>9. ASSUME l \notin {0, 4} PROVE Goal
  <2>1. at = all /\ RoomIn(ants, l) = 12
    BY <1>9 DEF RoomIn
  <2>2. Free = w[1]..(w[2] - 1)
    <3>1. \A sc \in 0..11 : sc \in Free <=> sc \in w[1]..(w[2] - 1)
      BY <1>2, <1>9 DEF FreeIn, IsReference, Has
    <3>2. Free \subseteq 0..11
      BY DEF FreeIn
    <3> QED
      BY <1>6, <3>1, <3>2
  <2> HIDE DEF at, Free
  <2>3. ListsUp(all, Free) /\ Len(all) <= 12 /\ (w = <<0, 12>> => Len(all) = 12)
    BY <1>2, <2>2, NeighboursAreRead
  <2> QED
    BY <1>2, <2>1, <2>3
<1>10. Goal
  <2> HIDE DEF Goal
  <2> QED
    BY <1>7, <1>8, <1>9
<1>11. Free \in SUBSET (0..11)
  BY DEF FreeIn
<1> HIDE DEF at, Free, s
<1>14. ListsUp(at, Free)
  BY <1>10
<1> HIDE DEF Goal
<1>15. \A n, m, k \in Nat, T \in SUBSET (0..11) : \A t :
         ListsUp(t, T) => BlockIs(PlacedIn(n, m, k, t), n, m, k, T) /\ Len(PlacedIn(n, m, k, t)) = Len(t)
  BY PlacedBlock
<1>12. BlockIs(PlacedIn(slot, l, rb, at), slot, l, rb, Free) /\ Len(PlacedIn(slot, l, rb, at)) = Len(at)
  <2>1. \A T \in SUBSET (0..11) : \A t : ListsUp(t, T) => BlockIs(PlacedIn(slot, l, rb, t), slot, l, rb, T) /\ Len(PlacedIn(slot, l, rb, t)) = Len(t)
    BY <1>3, <1>15, Zenon
  <2> QED
    BY <1>11, <1>14, <2>1, Zenon
<1>13. BlockIs(s, slot, l, rb, Free) /\ Len(s) <= RoomIn(ants, l) /\ (~Has => Len(s) = RoomIn(ants, l))
  <2>1. Len(s) = Len(at) /\ BlockIs(s, slot, l, rb, Free)
    BY <1>1, <1>12, Zenon
  <2> QED
    BY <1>10, <2>1, Zenon DEF Goal
<1> QED
  BY <1>13, Zenon DEF s, Free, Has, BlockRead

-----------------------------------------------------------------------------
(* Turns that go through the blocks of one symbol after the other.         *)

\* A later turn has a later symbol, or the same and a later block.
LEMMA TurnsInOrder ==
  ASSUME NEW m \in Nat \ {0}, NEW s \in Nat \ {0}, NEW t \in Nat \ {0}, s < t
  PROVE  \/ (s - 1) \div m < (t - 1) \div m
         \/ (s - 1) \div m = (t - 1) \div m /\ (s - 1) % m < (t - 1) % m
<1> DEFINE a == (s - 1) \div m
           b == (s - 1) % m
           c == (t - 1) \div m
           d == (t - 1) % m
<1>0. s - 1 \in Nat /\ t - 1 \in Nat
  OBVIOUS
<1>1. a \in Nat /\ b \in 0..(m - 1) /\ s - 1 = m * a + b
  BY <1>0, Division
<1>2. c \in Nat /\ d \in 0..(m - 1) /\ t - 1 = m * c + d
  BY <1>0, Division
<1> HIDE DEF a, b, c, d
<1>3. m * a + b < m * c + d
  BY <1>1, <1>2
<1>4. ~(a > c)
  <2> SUFFICES ASSUME a > c PROVE FALSE
    OBVIOUS
  <2> DEFINE x == (a - c) - 1
  <2>1. x \in Nat /\ a = (c + x) + 1
    BY <1>1, <1>2
  <2> HIDE DEF x
  <2>2. m * a = m * c + m * x + m /\ m * x \in Nat /\ m * c \in Nat
    BY <1>2, <2>1
  <2> QED
    BY <1>1, <1>2, <1>3, <2>2
<1>5. a = c => b < d
  BY <1>1, <1>2, <1>3
<1> QED
  BY <1>1, <1>2, <1>4, <1>5 DEF a, b, c, d

\* The room of the first turns: m times that of each whole symbol, C of the first
\* ones together, and as often that of the next as blocks of it are done
CapAt(m, C, c, t) == IF m = 0 THEN 0 ELSE m * C[t \div m] + (t % m) * c[t \div m]

\* The elements turns may have read add up symbol by symbol.
LEMMA CapsAdd ==
  ASSUME NEW m \in Nat, NEW h \in Nat, NEW c \in [0..h -> Int], NEW C \in [0..h -> Int],
         C[0] = 0, \A q \in 0..(h - 1) : C[q + 1] = C[q] + c[q]
  PROVE  /\ CapAt(m, C, c, 0) = 0 /\ CapAt(m, C, c, h * m) = m * C[h]
         /\ \A t \in 0..(h * m) : CapAt(m, C, c, t) \in Int
         /\ \A t \in 1..(h * m) : CapAt(m, C, c, t) = CapAt(m, C, c, t - 1) + c[(t - 1) \div m]
<1>1. CASE m = 0
  <2>1. h * m = 0 /\ C[h] \in Int
    BY <1>1
  <2> QED
    BY <1>1, <2>1 DEF CapAt
<1>2. CASE m # 0
  <2>1. m \in Nat \ {0} /\ 0 \in 0..(m - 1)
    BY <1>2
  <2> DEFINE At(q, r) == m * C[q] + r * c[q]
  <2>2. ASSUME NEW q \in 0..h, NEW r \in 0..(m - 1) PROVE CapAt(m, C, c, m * q + r) = At(q, r) /\ At(q, r) \in Int
    <3>1. q \in Nat /\ C[q] \in Int /\ c[q] \in Int
      OBVIOUS
    <3>2. (m * q + r) \div m = q /\ (m * q + r) % m = r
      BY <2>1, <3>1, TurnAt
    <3>3. m * C[q] \in Int /\ r * c[q] \in Int
      BY <3>1
    <3> DEFINE b == m * q + r
    <3> HIDE DEF b
    <3>4. b \div m = q /\ b % m = r
      BY <3>2, Zenon DEF b
    <3>5. CapAt(m, C, c, b) = m * C[b \div m] + (b % m) * c[b \div m]
      BY <1>2, Zenon DEF CapAt
    <3>6. CapAt(m, C, c, b) = At(q, r)
      BY <3>4, <3>5, Zenon
    <3>7. At(q, r) \in Int
      BY <3>3
    <3> QED
      BY <3>6, <3>7, Zenon DEF b
  <2>3. CapAt(m, C, c, 0) = 0
    <3>1. m * 0 + 0 = 0 /\ 0 \in 0..h /\ At(0, 0) = 0
      BY <2>1
    <3> HIDE DEF At
    <3> QED
      BY <2>1, <2>2, <3>1
  <2>4. CapAt(m, C, c, h * m) = m * C[h]
    <3>1. m * h + 0 = h * m /\ h \in 0..h
      OBVIOUS
    <3>2. C[h] \in Int /\ c[h] \in Int
      OBVIOUS
    <3>3. At(h, 0) = m * C[h]
      BY <3>2
    <3> HIDE DEF At
    <3> QED
      BY <2>1, <2>2, <3>1, <3>3
  <2>5. ASSUME NEW t \in 1..(h * m)
        PROVE  CapAt(m, C, c, t) = CapAt(m, C, c, t - 1) + c[(t - 1) \div m] /\ CapAt(m, C, c, t) \in Int
    <3> DEFINE q == (t - 1) \div m
               r == (t - 1) % m
    <3>1. q \in 0..(h - 1) /\ r \in 0..(m - 1) /\ t - 1 = m * q + r
      BY <2>1, TurnParts
    <3> HIDE DEF q, r
    <3>2. q \in 0..h /\ q + 1 \in 0..h /\ C[q] \in Int /\ c[q] \in Int /\ C[q + 1] = C[q] + c[q] /\ q \in Int /\ r \in Int
      BY <3>1
    <3>3. CapAt(m, C, c, t - 1) = At(q, r)
      BY <2>2, <3>1, <3>2
    <3>4. CASE r + 1 < m
      <4>1. r + 1 \in 0..(m - 1) /\ t = m * q + (r + 1)
        BY <3>1, <3>2, <3>4
      <4>2. CapAt(m, C, c, t) = At(q, r + 1) /\ At(q, r + 1) \in Int
        BY <2>2, <3>2, <4>1
      <4>3. At(q, r + 1) = At(q, r) + c[q]
        <5> DEFINE x == c[q]
                   y == C[q]
        <5>3. x \in Int /\ y \in Int /\ r \in Int
          BY <3>2
        <5> HIDE DEF x, y
        <5>4. (r + 1) * x = r * x + x /\ r * x \in Int /\ m * y \in Int
          BY <5>3
        <5>2. (r + 1) * c[q] = r * c[q] + c[q] /\ r * c[q] \in Int /\ m * C[q] \in Int
          BY <5>4 DEF x, y
        <5> QED
          BY <3>2, <5>2
      <4> QED
        BY <3>3, <4>2, <4>3 DEF q
    <3>5. CASE r + 1 = m
      <4>1. t = m * (q + 1) + 0
        BY <3>1, <3>2, <3>5
      <4>2. CapAt(m, C, c, t) = At(q + 1, 0) /\ At(q + 1, 0) \in Int
        BY <2>1, <2>2, <3>2, <4>1
      <4>3. At(q + 1, 0) = At(q, r) + c[q]
        <5>1. c[q + 1] \in Int /\ r = m - 1
          BY <3>2, <3>5
        <5> QED
          BY <3>2, <5>1
      <4> QED
        BY <3>3, <4>2, <4>3 DEF q
    <3> QED
      BY <3>1, <3>4, <3>5
  <2>6. \A t \in 0..(h * m) : CapAt(m, C, c, t) \in Int
    <3>1. \A t \in 0..(h * m) : t = 0 \/ t \in 1..(h * m)
      OBVIOUS
    <3> QED
      BY <2>3, <2>5, <3>1
  <2> QED
    BY <2>3, <2>4, <2>5, <2>6
<1> QED
  BY <1>1, <1>2

\* Elements come in the order of the grid: slot, symbol and subcarrier.
GridKey(rbs) == [e \in Element |-> (7 * e[1] + e[2]) * rbs * RbLen + e[3]]

\* Elements are ordered by their symbol, then by their subcarrier.
LEMMA GridOrder ==
  ASSUME NEW rbs \in Nat, NEW e \in Element, NEW f \in Element, e[3] < rbs * RbLen, f[3] < rbs * RbLen,
         \/ 7 * e[1] + e[2] < 7 * f[1] + f[2]
         \/ 7 * e[1] + e[2] = 7 * f[1] + f[2] /\ e[3] < f[3]
  PROVE  GridKey(rbs)[e] < GridKey(rbs)[f]
<1> DEFINE a == 7 * e[1] + e[2]
           b == 7 * f[1] + f[2]
           w == rbs * RbLen
           x == e[3]
           y == f[3]
<1>1. a \in Nat /\ b \in Nat /\ w \in Nat /\ x \in Nat /\ y \in Nat
  BY DEF Element, RbLen
<1>2. GridKey(rbs)[e] = a * rbs * RbLen + x /\ GridKey(rbs)[f] = b * rbs * RbLen + y
  BY DEF GridKey
<1>3. a * rbs * RbLen = a * w /\ b * rbs * RbLen = b * w
  <2> HIDE DEF a, b
  <2> QED
    BY <1>1 DEF RbLen
<1>4. x < w /\ (a < b \/ (a = b /\ x < y))
  OBVIOUS
<1> HIDE DEF a, b, w, x, y
<1>5. a * w + x < b * w + y
  <2>1. CASE a = b
    BY <1>1, <1>4, <2>1
  <2>2. CASE a < b
    <3> DEFINE d == (b - a) - 1
    <3>1. d \in Nat /\ b = (a + d) + 1
      BY <1>1, <2>2
    <3> HIDE DEF d
    <3>2. b * w = a * w + d * w + w /\ d * w \in Nat /\ a * w \in Nat
      BY <1>1, <3>1
    <3> QED
      BY <1>1, <1>4, <3>2
  <2> QED
    BY <1>4, <2>1, <2>2
<1> QED
  BY <1>2, <1>3, <1>5

\* The place of an element in this order is a number.
LEMMA GridKeyIsInt == ASSUME NEW rbs \in Nat PROVE GridKey(rbs) \in [Element -> Int]
<1>1. ASSUME NEW e \in Element PROVE (7 * e[1] + e[2]) * rbs * RbLen + e[3] \in Int
  <2> DEFINE a == 7 * e[1] + e[2]
  <2>1. a \in Nat /\ e[3] \in Nat
    BY DEF Element
  <2> HIDE DEF a
  <2> QED
    BY <2>1 DEF RbLen, a
<1> QED
  BY <1>1 DEF GridKey

\* Turns that go through m blocks for each of h symbols read them all in order.
LEMMA TurnsThrough ==
  ASSUME NEW m \in Nat, NEW h \in Nat, NEW E, NEW B \in [0..(h - 1) -> [0..(m - 1) -> Seq(E)]],
         NEW t \in 1..(h * m)
  PROVE  /\ m \in Nat \ {0} /\ (t - 1) \div m \in 0..(h - 1) /\ (t - 1) % m \in 0..(m - 1)
         /\ B[(t - 1) \div m][(t - 1) % m] \in Seq(E)
<1>1. m # 0
  <2> SUFFICES ASSUME m = 0 PROVE FALSE
    OBVIOUS
  <2>1. h * m = 0
    OBVIOUS
  <2> QED
    BY <2>1
<1>2. (t - 1) \div m \in 0..(h - 1) /\ (t - 1) % m \in 0..(m - 1)
  <2>1. m \in Nat \ {0}
    BY <1>1
  <2> QED
    BY <2>1, TurnParts
<1> QED
  BY <1>1, <1>2

LoopClimbs(B, h, m, key) ==
  /\ \A q \in 0..(h - 1), r \in 0..(m - 1) : Climbs(B[q][r], key)
  /\ \A q, x \in 0..(h - 1), r, y \in 0..(m - 1) : q < x \/ (q = x /\ r < y) =>
        \A i \in 1..Len(B[q][r]), j \in 1..Len(B[x][y]) : key[B[q][r][i]] < key[B[x][y][j]]

LoopFits(B, h, m, c, C) ==
  /\ c \in [0..h -> Int] /\ C \in [0..h -> Int] /\ C[0] = 0 /\ \A q \in 0..(h - 1) : C[q + 1] = C[q] + c[q]
  /\ \A q \in 0..(h - 1), r \in 0..(m - 1) : Len(B[q][r]) <= c[q]

LoopIsRead(s, B, h, m, E, key, c, C) ==
  /\ s \in Seq(E) /\ Climbs(s, key)
  /\ \A e : e \in ToSet(s) <=> \E q \in 0..(h - 1), r \in 0..(m - 1) : e \in ToSet(B[q][r])
  /\ Len(s) <= m * C[h]
  /\ (\A q \in 0..(h - 1), r \in 0..(m - 1) : Len(B[q][r]) = c[q]) => Len(s) = m * C[h]

LoopSeq(B, h, m) == FlattenSeq([t \in 1..(h * m) |-> B[(t - 1) \div m][(t - 1) % m]])

\* Two loops over lists that go up read them all in order.
LEMMA TwoLoops ==
  ASSUME NEW E, NEW key \in [E -> Int], NEW m \in Nat, NEW h \in Nat,
         NEW B \in [0..(h - 1) -> [0..(m - 1) -> Seq(E)]], NEW c, NEW C, LoopFits(B, h, m, c, C), LoopClimbs(B, h, m, key)
  PROVE  LoopIsRead(LoopSeq(B, h, m), B, h, m, E, key, c, C)
<1>0. /\ c \in [0..h -> Int] /\ C \in [0..h -> Int] /\ C[0] = 0 /\ \A q \in 0..(h - 1) : C[q + 1] = C[q] + c[q]
      /\ \A q \in 0..(h - 1), r \in 0..(m - 1) : Climbs(B[q][r], key) /\ Len(B[q][r]) <= c[q]
      /\ \A q, x \in 0..(h - 1), r, y \in 0..(m - 1) : q < x \/ (q = x /\ r < y) =>
            \A i \in 1..Len(B[q][r]), j \in 1..Len(B[x][y]) : key[B[q][r][i]] < key[B[x][y][j]]
  BY DEF LoopFits, LoopClimbs
<1> USE <1>0
<1> DEFINE n == h * m
           Q(t) == (t - 1) \div m
           R(t) == (t - 1) % m
           T == [t \in 1..n |-> B[Q(t)][R(t)]]
           room == [t \in 1..n |-> c[Q(t)]]
           cap == [t \in 0..n |-> CapAt(m, C, c, t)]
           Full == \A q \in 0..(h - 1), r \in 0..(m - 1) : Len(B[q][r]) = c[q]
<1>1. n \in Nat
  OBVIOUS
<1>2. ASSUME NEW t \in 1..n
      PROVE  /\ m \in Nat \ {0} /\ Q(t) \in 0..(h - 1) /\ R(t) \in 0..(m - 1)
             /\ T[t] = B[Q(t)][R(t)] /\ T[t] \in Seq(E) /\ room[t] = c[Q(t)] /\ room[t] \in Int
  <2>1. m \in Nat \ {0} /\ Q(t) \in 0..(h - 1) /\ R(t) \in 0..(m - 1) /\ B[Q(t)][R(t)] \in Seq(E)
    BY TurnsThrough
  <2>2. T[t] = B[Q(t)][R(t)] /\ room[t] = c[Q(t)]
    OBVIOUS
  <2> HIDE DEF Q, R, T, room
  <2>3. c[Q(t)] \in Int
    BY <2>1
  <2> QED
    BY <2>1, <2>2, <2>3
<1>3. T \in [1..n -> Seq(E)] /\ room \in [1..n -> Int]
  <2>1. T = [t \in 1..n |-> T[t]] /\ room = [t \in 1..n |-> room[t]]
    OBVIOUS
  <2> HIDE DEF T, room, n
  <2> QED
    BY <1>2, <2>1
<1>4. PICK out : Joins(out, T, n) /\ FlattenSeq(T) = out[n]
  <2> HIDE DEF T, n
  <2> QED
    BY <1>1, <1>3, FlattenedTurns
<1>5. /\ CapAt(m, C, c, 0) = 0 /\ CapAt(m, C, c, n) = m * C[h]
      /\ \A t \in 0..n : CapAt(m, C, c, t) \in Int
      /\ \A t \in 1..n : CapAt(m, C, c, t) = CapAt(m, C, c, t - 1) + c[Q(t)]
  BY CapsAdd
<1>6. /\ cap \in [0..n -> Int] /\ cap[0] = 0 /\ cap[n] = m * C[h]
      /\ \A t \in 1..n : cap[t] = cap[t - 1] + room[t]
  <2> HIDE DEF n, Q
  <2>1. 0 \in 0..n /\ n \in 0..n /\ \A t \in 1..n : t \in 0..n /\ t - 1 \in 0..n
    BY <1>1
  <2> QED
    BY <1>5, <2>1
<1>7. \A t \in 1..n : Climbs(T[t], key) /\ Len(T[t]) <= room[t] /\ (Full => Len(T[t]) = room[t])
  <2> TAKE t \in 1..n
  <2> HIDE DEF Q, R, T, room, n
  <2>1. Climbs(B[Q(t)][R(t)], key) /\ Len(B[Q(t)][R(t)]) <= c[Q(t)]
    BY <1>2
  <2>2. Full => Len(B[Q(t)][R(t)]) = c[Q(t)]
    BY <1>2
  <2> HIDE DEF Full
  <2> QED
    BY <1>2, <2>1, <2>2
<1>8. ASSUME NEW a \in 1..n, NEW b \in 1..n, a < b, NEW i \in 1..Len(T[a]), NEW j \in 1..Len(T[b])
      PROVE  key[T[a][i]] < key[T[b][j]]
  <2>1. Q(a) < Q(b) \/ (Q(a) = Q(b) /\ R(a) < R(b))
    <3>1. a \in Nat \ {0} /\ b \in Nat \ {0} /\ m \in Nat \ {0} /\ a < b
      <4>1. m \in Nat \ {0}
        BY <1>2, Zenon
      <4> HIDE DEF n
      <4> QED
        BY <1>1, <1>8, <4>1
    <3> HIDE DEF n, T
    <3> QED
      BY <3>1, TurnsInOrder
  <2> DEFINE q == Q(a)
             x == Q(b)
             r == R(a)
             y == R(b)
  <2>2. q \in 0..(h - 1) /\ x \in 0..(h - 1) /\ r \in 0..(m - 1) /\ y \in 0..(m - 1)
    BY <1>2
  <2>3. T[a] = B[q][r] /\ T[b] = B[x][y]
    BY <1>2
  <2>4. q < x \/ (q = x /\ r < y)
    BY <2>1
  <2> HIDE DEF T, q, x, r, y, n, Q, R
  <2>5. \A k \in 1..Len(B[q][r]), l \in 1..Len(B[x][y]) : key[B[q][r][k]] < key[B[x][y][l]]
    BY <2>2, <2>4
  <2> QED
    BY <2>3, <2>5
<1>9. /\ out[n] \in Seq(E) /\ Climbs(out[n], key)
      /\ ToSet(out[n]) = UNION {ToSet(T[t]) : t \in 1..n}
      /\ Len(out[n]) <= cap[n]
      /\ (\A t \in 1..n : Len(T[t]) = room[t]) => Len(out[n]) = cap[n]
  <2> HIDE DEF T, n, cap, room
  <2>1. TurnsClimb(T, n, key)
    BY <1>7, <1>8, Zenon DEF TurnsClimb
  <2>2. TurnsFit(T, n, room, cap)
    BY <1>3, <1>6, <1>7, Zenon DEF TurnsFit
  <2>3. Joins(out, T, n)
    BY <1>4
  <2>4. TurnsJoined(out[n], T, n, E, key, room, cap)
    BY <1>1, <1>3, <2>1, <2>2, <2>3, JoinedTurns
  <2> QED
    BY <2>4, Zenon DEF TurnsJoined
<1>10. \A e : e \in UNION {ToSet(T[t]) : t \in 1..n} <=> \E q \in 0..(h - 1), r \in 0..(m - 1) : e \in ToSet(B[q][r])
  <2> TAKE e
  <2>1. ASSUME NEW q \in 0..(h - 1), NEW r \in 0..(m - 1) PROVE \E t \in 1..n : T[t] = B[q][r]
    <3> DEFINE b == m * q + r
               t == b + 1
    <3>1. q \in Nat /\ q < h /\ m \in Nat \ {0}
      OBVIOUS
    <3>2. m * q \in Nat /\ r \in Nat
      BY <3>1
    <3>3. b \in Nat
      <4> DEFINE p == m * q
      <4>1. p \in Nat
        BY <3>2
      <4> HIDE DEF p
      <4>2. p + r \in Nat
        BY <3>2, <4>1
      <4> QED
        BY <4>2 DEF p
    <3>4. b \div m = q /\ b % m = r /\ t \in 1..n
      BY <3>1, TurnAt
    <3> HIDE DEF b
    <3>5. t - 1 = b
      BY <3>3
    <3> HIDE DEF t, n
    <3>6. Q(t) = q /\ R(t) = r
      BY <3>4, <3>5, Zenon
    <3> QED
      BY <3>4, <3>6, Zenon
  <2>2. \A t \in 1..n : \E q \in 0..(h - 1), r \in 0..(m - 1) : T[t] = B[q][r]
    <3> HIDE DEF T, Q, R, n
    <3> QED
      BY <1>2
  <2> HIDE DEF T, n
  <2>3. e \in UNION {ToSet(T[t]) : t \in 1..n} <=> \E t \in 1..n : e \in ToSet(T[t])
    OBVIOUS
  <2>4. ASSUME NEW t \in 1..n, e \in ToSet(T[t]) PROVE \E q \in 0..(h - 1), r \in 0..(m - 1) : e \in ToSet(B[q][r])
    BY <2>2, <2>4, Zenon
  <2>5. ASSUME NEW q \in 0..(h - 1), NEW r \in 0..(m - 1), e \in ToSet(B[q][r]) PROVE \E t \in 1..n : e \in ToSet(T[t])
    BY <2>1, <2>5, Zenon
  <2> QED
    BY <2>3, <2>4, <2>5, Zenon
<1>11. Full => \A t \in 1..n : Len(T[t]) = room[t]
  BY <1>7, Zenon
<1> DEFINE s == FlattenSeq(T)
<1>12. s = out[n] /\ cap[n] = m * C[h]
  BY <1>4, <1>6, Zenon
<1> HIDE DEF T, n, cap, room, Full, s
<1>13. /\ s \in Seq(E) /\ Climbs(s, key)
       /\ \A e : e \in ToSet(s) <=> \E q \in 0..(h - 1), r \in 0..(m - 1) : e \in ToSet(B[q][r])
       /\ Len(s) <= m * C[h] /\ (Full => Len(s) = m * C[h])
  BY <1>9, <1>10, <1>11, <1>12, Zenon
<1> QED
  BY <1>13, Zenon DEF s, T, n, Full, LoopIsRead, LoopSeq

\* An element of what is read of a block
LEMMA InPlaceOfBlock ==
  ASSUME NEW a, NEW slot, NEW l, NEW ra, NEW S, BlockIs(a, slot, l, ra, S), NEW i \in 1..Len(a)
  PROVE  a[i] \in Element /\ a[i][1] = slot /\ a[i][2] = l /\ a[i][3] \in (12 * ra)..(12 * ra + 11)
<1>1. a \in Seq(Element)
  BY Zenon DEF BlockIs
<1>2. a[i][1] = slot /\ a[i][2] = l /\ a[i][3] \in (12 * ra)..(12 * ra + 11)
  BY Zenon DEF BlockIs
<1>3. a[i] \in Element
  BY <1>1
<1> QED
  BY <1>2, <1>3

\* Two blocks in the order they are read
LEMMA BlocksInOrder ==
  ASSUME NEW rbs \in Nat, NEW slot \in Nat, NEW a, NEW b, NEW l \in Nat, NEW k \in Nat,
         NEW ra \in 0..(rbs - 1), NEW rb \in 0..(rbs - 1), NEW S, NEW T,
         BlockIs(a, slot, l, ra, S), BlockIs(b, slot, k, rb, T), l < k \/ (l = k /\ ra < rb)
  PROVE  \A i \in 1..Len(a), j \in 1..Len(b) : GridKey(rbs)[a[i]] < GridKey(rbs)[b[j]]
<1> SUFFICES ASSUME NEW i \in 1..Len(a), NEW j \in 1..Len(b) PROVE GridKey(rbs)[a[i]] < GridKey(rbs)[b[j]]
  OBVIOUS
<1> DEFINE e == a[i]
           f == b[j]
<1>1. e \in Element /\ e[1] = slot /\ e[2] = l /\ e[3] \in (12 * ra)..(12 * ra + 11)
  BY InPlaceOfBlock
<1>2. f \in Element /\ f[1] = slot /\ f[2] = k /\ f[3] \in (12 * rb)..(12 * rb + 11)
  BY InPlaceOfBlock
<1> HIDE DEF e, f
<1> DEFINE x == e[3]
           y == f[3]
<1>3. x \in (12 * ra)..(12 * ra + 11) /\ y \in (12 * rb)..(12 * rb + 11)
  BY <1>1, <1>2
<1> HIDE DEF x, y
<1>4. x < rbs * RbLen /\ y < rbs * RbLen /\ (ra < rb => x < y)
  BY <1>3 DEF RbLen
<1>5. 7 * slot + l \in Nat /\ 7 * slot + k \in Nat /\ (l < k => 7 * slot + l < 7 * slot + k)
  OBVIOUS
<1>6. \/ 7 * e[1] + e[2] < 7 * f[1] + f[2]
      \/ 7 * e[1] + e[2] = 7 * f[1] + f[2] /\ e[3] < f[3]
  <2>1. CASE l < k
    BY <1>1, <1>2, <1>5, <2>1, Zenon
  <2>2. CASE l = k /\ ra < rb
    BY <1>1, <1>2, <1>4, <2>2, Zenon DEF x, y
  <2> QED
    BY <2>1, <2>2
<1>7. e[3] < rbs * RbLen /\ f[3] < rbs * RbLen
  BY <1>4 DEF x, y
<1>8. GridKey(rbs)[e] < GridKey(rbs)[f]
  BY <1>1, <1>2, <1>6, <1>7, GridOrder
<1> QED
  BY <1>8 DEF e, f

\* What is read of a block goes up.
LEMMA BlockClimbs ==
  ASSUME NEW rbs \in Nat, NEW slot \in Nat, NEW a, NEW l \in Nat, NEW ra \in 0..(rbs - 1), NEW S,
         BlockIs(a, slot, l, ra, S)
  PROVE  Climbs(a, GridKey(rbs))
<1> SUFFICES ASSUME NEW i \in 1..Len(a), NEW j \in 1..Len(a), i < j PROVE GridKey(rbs)[a[i]] < GridKey(rbs)[a[j]]
  BY DEF Climbs
<1> DEFINE e == a[i]
           f == a[j]
<1>1. e \in Element /\ e[1] = slot /\ e[2] = l /\ e[3] \in (12 * ra)..(12 * ra + 11)
  BY DEF BlockIs
<1>2. f \in Element /\ f[1] = slot /\ f[2] = l /\ f[3] \in (12 * ra)..(12 * ra + 11) /\ e[3] < f[3]
  BY DEF BlockIs
<1> HIDE DEF e, f
<1> DEFINE x == e[3]
           y == f[3]
<1>3. x \in (12 * ra)..(12 * ra + 11) /\ y \in (12 * ra)..(12 * ra + 11)
  BY <1>1, <1>2
<1> HIDE DEF x, y
<1>4. x < rbs * RbLen /\ y < rbs * RbLen
  BY <1>3 DEF RbLen
<1>5. e[3] < rbs * RbLen /\ f[3] < rbs * RbLen
  BY <1>4 DEF x, y
<1>6. 7 * e[1] + e[2] = 7 * f[1] + f[2]
  BY <1>1, <1>2, Zenon
<1>7. GridKey(rbs)[e] < GridKey(rbs)[f]
  BY <1>1, <1>2, <1>5, <1>6, GridOrder
<1> QED
  BY <1>7 DEF e, f

RowsClimb(rb, m, rbs) ==
  rb \in [0..(m - 1) -> 0..(rbs - 1)] /\ \A r, y \in 0..(m - 1) : r < y => rb[r] < rb[y]

LoopOfBlocks(B, h, m, slot, first, rb, F) ==
  \A q \in 0..(h - 1), r \in 0..(m - 1) : BlockIs(B[q][r], slot, first + q, rb[r], F[q][r])

BlocksRead(s, rbs, B, h, m, slot, first, rb, F, c, C) ==
  /\ LoopIsRead(s, B, h, m, Element, GridKey(rbs), c, C)
  /\ \A e : e \in ToSet(s) <=>
        \E q \in 0..(h - 1), r \in 0..(m - 1) : \E sc \in F[q][r] : e = <<slot, first + q, 12 * rb[r] + sc>>

\* The blocks of a grant, symbol after symbol, are read in order.
LEMMA BlocksThrough ==
  ASSUME NEW rbs \in Nat, NEW slot \in Nat, NEW first \in Nat, NEW m \in Nat, NEW h \in Nat,
         NEW B \in [0..(h - 1) -> [0..(m - 1) -> Seq(Element)]],
         NEW rb, RowsClimb(rb, m, rbs), NEW F, LoopOfBlocks(B, h, m, slot, first, rb, F),
         NEW c, NEW C, LoopFits(B, h, m, c, C)
  PROVE  BlocksRead(LoopSeq(B, h, m), rbs, B, h, m, slot, first, rb, F, c, C)
<1> DEFINE key == GridKey(rbs)
           s == LoopSeq(B, h, m)
<1>1. key \in [Element -> Int]
  BY GridKeyIsInt
<1>2. ASSUME NEW q \in 0..(h - 1), NEW r \in 0..(m - 1)
      PROVE  first + q \in Nat /\ rb[r] \in 0..(rbs - 1) /\ BlockIs(B[q][r], slot, first + q, rb[r], F[q][r])
  <2>1. first + q \in Nat
    OBVIOUS
  <2>2. rb[r] \in 0..(rbs - 1)
    BY DEF RowsClimb
  <2>3. BlockIs(B[q][r], slot, first + q, rb[r], F[q][r])
    BY DEF LoopOfBlocks
  <2> QED
    BY <2>1, <2>2, <2>3
<1>3. \A q \in 0..(h - 1), r \in 0..(m - 1) : Climbs(B[q][r], key)
  BY <1>2, BlockClimbs
<1>4. ASSUME NEW q \in 0..(h - 1), NEW x \in 0..(h - 1), NEW r \in 0..(m - 1), NEW y \in 0..(m - 1), q < x \/ (q = x /\ r < y)
      PROVE  \A i \in 1..Len(B[q][r]), j \in 1..Len(B[x][y]) : key[B[q][r][i]] < key[B[x][y][j]]
  <2>1. first + q < first + x \/ (first + q = first + x /\ rb[r] < rb[y])
    <3>1. CASE q < x
      BY <3>1
    <3>2. CASE q = x /\ r < y
      BY <3>2 DEF RowsClimb
    <3> QED
      BY <1>4, <3>1, <3>2
  <2>2. /\ first + q \in Nat /\ first + x \in Nat /\ rb[r] \in 0..(rbs - 1) /\ rb[y] \in 0..(rbs - 1)
        /\ BlockIs(B[q][r], slot, first + q, rb[r], F[q][r]) /\ BlockIs(B[x][y], slot, first + x, rb[y], F[x][y])
    BY <1>2
  <2> QED
    BY <2>1, <2>2, BlocksInOrder
<1>5. LoopClimbs(B, h, m, key)
  BY <1>3, <1>4, Zenon DEF LoopClimbs
<1> HIDE DEF key, s
<1>6. LoopIsRead(s, B, h, m, Element, key, c, C)
  BY <1>1, <1>5, TwoLoops DEF s
<1>7. \A e : e \in ToSet(s) <=>
         \E q \in 0..(h - 1), r \in 0..(m - 1) : \E sc \in F[q][r] : e = <<slot, first + q, 12 * rb[r] + sc>>
  <2> TAKE e
  <2> DEFINE Is(q, r) == \E sc \in F[q][r] : e = <<slot, first + q, 12 * rb[r] + sc>>
  <2>1. ASSUME NEW q \in 0..(h - 1), NEW r \in 0..(m - 1) PROVE e \in ToSet(B[q][r]) <=> Is(q, r)
    <3>1. BlockIs(B[q][r], slot, first + q, rb[r], F[q][r])
      BY <1>2
    <3> QED
      BY <3>1, Zenon DEF BlockIs
  <2>2. e \in ToSet(s) <=> \E q \in 0..(h - 1), r \in 0..(m - 1) : e \in ToSet(B[q][r])
    BY <1>6, Zenon DEF LoopIsRead
  <2> HIDE DEF Is
  <2>3. e \in ToSet(s) <=> \E q \in 0..(h - 1), r \in 0..(m - 1) : Is(q, r)
    BY <2>1, <2>2, Zenon
  <2> QED
    BY <2>3, Zenon DEF Is
<1> QED
  BY <1>6, <1>7, Zenon DEF s, key, BlocksRead

\* No block is half taken where it matters, and the blocks of a grant ascend.
Clear(rbs, ants, sf, slot, blocks) ==
  \A l \in SlotSymbols, i \in 1..Len(blocks) : WholeWhere(rbs, ants, sf, slot, l, blocks[i])

GrantsBlocks(rbs, blocks) ==
  blocks \in Seq(0..(rbs - 1)) /\ \A i, j \in 1..Len(blocks) : i < j => blocks[i] < blocks[j]

\* The room in one block for the symbols before l
RoomBelow(ants, l) == 12 * l - (IF ants = 2 THEN 4 ELSE 2) * (IF l = 0 THEN 0 ELSE IF l <= 4 THEN 1 ELSE 2)

RoomFrom(ants, first) == [q \in 0..(7 - first) |-> RoomBelow(ants, first + q) - RoomBelow(ants, first)]
RoomAt(ants, first) == [q \in 0..(7 - first) |-> RoomIn(ants, first + q)]

\* The elements of a block add up symbol by symbol.
LEMMA RoomAdds ==
  ASSUME NEW ants \in {1, 2}, NEW first \in 0..6
  PROVE  /\ RoomAt(ants, first) \in [0..(7 - first) -> Int] /\ RoomFrom(ants, first) \in [0..(7 - first) -> Int]
         /\ RoomFrom(ants, first)[0] = 0
         /\ RoomFrom(ants, first)[7 - first] = RoomBelow(ants, 7) - RoomBelow(ants, first)
         /\ \A q \in 0..((7 - first) - 1) : RoomFrom(ants, first)[q + 1] = RoomFrom(ants, first)[q] + RoomAt(ants, first)[q]
<1>1. \A l \in 0..7 : RoomBelow(ants, l) \in Int /\ RoomIn(ants, l) \in Int
  BY DEF RoomBelow, RoomIn
<1>2. ASSUME NEW l \in 0..6 PROVE RoomBelow(ants, l + 1) = RoomBelow(ants, l) + RoomIn(ants, l)
  <2>1. l \in {0, 1, 2, 3, 4, 5, 6}
    OBVIOUS
  <2> QED
    BY <2>1 DEF RoomBelow, RoomIn
<1>3. ASSUME NEW q \in 0..(7 - first) PROVE first + q \in 0..7 /\ first + q \in Nat
  OBVIOUS
<1>4. \A q \in 0..(7 - first) :
         /\ RoomFrom(ants, first)[q] = RoomBelow(ants, first + q) - RoomBelow(ants, first)
         /\ RoomAt(ants, first)[q] = RoomIn(ants, first + q)
  BY DEF RoomFrom, RoomAt
<1>5. RoomAt(ants, first) \in [0..(7 - first) -> Int] /\ RoomFrom(ants, first) \in [0..(7 - first) -> Int]
  BY <1>1, <1>3 DEF RoomFrom, RoomAt
<1>6. first \in 0..7 /\ 0 \in 0..(7 - first) /\ first + 0 = first /\ (7 - first) \in 0..(7 - first) /\ first + (7 - first) = 7
  OBVIOUS
<1>7. RoomFrom(ants, first)[0] = 0
  BY <1>1, <1>4, <1>6
<1>8. RoomFrom(ants, first)[7 - first] = RoomBelow(ants, 7) - RoomBelow(ants, first)
  BY <1>4, <1>6, Zenon
<1>9. ASSUME NEW q \in 0..((7 - first) - 1)
      PROVE  RoomFrom(ants, first)[q + 1] = RoomFrom(ants, first)[q] + RoomAt(ants, first)[q]
  <2>1. q \in 0..(7 - first) /\ q + 1 \in 0..(7 - first) /\ first + q \in 0..6 /\ first + (q + 1) = (first + q) + 1
    OBVIOUS
  <2> DEFINE x == RoomBelow(ants, first + q)
             y == RoomBelow(ants, first)
             z == RoomIn(ants, first + q)
  <2>2. RoomFrom(ants, first)[q + 1] = (x + z) - y
    BY <1>2, <1>4, <2>1, Zenon
  <2>3. RoomFrom(ants, first)[q] = x - y /\ RoomAt(ants, first)[q] = z
    BY <1>4, <2>1, Zenon
  <2>4. x \in Int /\ y \in Int /\ z \in Int
    BY <1>1, <1>3, <1>6, <2>1
  <2> HIDE DEF x, y, z
  <2> QED
    BY <2>2, <2>3, <2>4
<1> QED
  BY <1>5, <1>7, <1>8, <1>9

\* A grant has no more blocks than the array of them.
LEMMA FewBlocks ==
  ASSUME NEW rbs \in Bandwidths, NEW blocks, GrantsBlocks(rbs, blocks)
  PROVE  Len(blocks) \in Nat /\ Len(blocks) < MaxBlocks /\ \A i \in 1..Len(blocks) : blocks[i] \in 0..(rbs - 1)
<1>1. blocks \in Seq(0..(rbs - 1)) /\ \A i, j \in 1..Len(blocks) : i < j => blocks[i] < blocks[j]
  BY DEF GrantsBlocks
<1>2. rbs \in Nat /\ rbs <= 100
  BY DEF Bandwidths
<1>3. ListsUp(blocks, ToSet(blocks)) /\ ToSet(blocks) \subseteq 0..(rbs - 1)
  <2>1. blocks \in Seq(Nat) /\ DOMAIN blocks = 1..Len(blocks) /\ \A i \in 1..Len(blocks) : blocks[i] \in 0..(rbs - 1)
    BY <1>1, <1>2
  <2>2. ToSet(blocks) = {blocks[i] : i \in 1..Len(blocks)}
    BY <2>1, Zenon DEF ToSet
  <2>3. ListsUp(blocks, ToSet(blocks))
    BY <1>1, <2>1, <2>2, Zenon DEF ListsUp
  <2> QED
    BY <2>1, <2>2, <2>3, Zenon
<1>4. Cardinality(ToSet(blocks)) = Len(blocks)
  BY <1>3, ListCounts
<1>5. IsFiniteSet(0..(rbs - 1)) /\ Cardinality(0..(rbs - 1)) = rbs
  BY <1>2, FS_Interval
<1>6. Len(blocks) <= rbs
  BY <1>3, <1>4, <1>5, FS_Subset
<1>7. Len(blocks) \in Nat /\ \A i \in 1..Len(blocks) : blocks[i] \in 0..(rbs - 1)
  <2> DEFINE S == 0..(rbs - 1)
  <2>1. blocks \in Seq(S)
    BY <1>1
  <2> HIDE DEF S
  <2>2. Len(blocks) \in Nat /\ \A i \in 1..Len(blocks) : blocks[i] \in S
    BY <2>1
  <2> QED
    BY <2>2 DEF S
<1> QED
  BY <1>2, <1>6, <1>7 DEF MaxBlocks

SlotReference(rbs, cell, ants, sf, slot, first, blocks, e) ==
  \E l \in first..6, i \in 1..Len(blocks) :
     \E sc \in FreeIn(rbs, cell, ants, sf, slot, l, blocks[i]) : e = <<slot, l, 12 * blocks[i] + sc>>

SlotRead(s, rbs, cell, ants, sf, slot, first, blocks) ==
  /\ s \in Seq(Element) /\ Climbs(s, GridKey(rbs))
  /\ \A e : e \in ToSet(s) <=> SlotReference(rbs, cell, ants, sf, slot, first, blocks, e)
  /\ Len(s) <= Len(blocks) * (RoomBelow(ants, 7) - RoomBelow(ants, first))
  /\ (\A l \in SlotSymbols : ~HasReserved(sf, slot, l)) =>
        Len(s) = Len(blocks) * (RoomBelow(ants, 7) - RoomBelow(ants, first))

\* What pdsch_extract_slot reads of a slot is what 36.211 leaves in its blocks.
LEMMA SlotIsRead ==
  ASSUME NEW rbs \in Bandwidths, NEW cell \in CellIds, NEW ants \in {1, 2}, NEW sf, NEW slot \in {0, 1},
         NEW first \in 0..6, slot = 0 => first > 0, NEW blocks, GrantsBlocks(rbs, blocks), Clear(rbs, ants, sf, slot, blocks)
  PROVE  SlotRead(SlotElements(rbs, cell, ants, sf, slot, first, blocks), rbs, cell, ants, sf, slot, first, blocks)
<1> DEFINE m == Len(blocks)
           h == 7 - first
           B == [q \in 0..(h - 1) |-> [r \in 0..(m - 1) |-> BlockElements(rbs, cell, ants, sf, slot, first + q, blocks[r + 1])]]
           rb == [r \in 0..(m - 1) |-> blocks[r + 1]]
           F == [q \in 0..(h - 1) |-> [r \in 0..(m - 1) |-> FreeIn(rbs, cell, ants, sf, slot, first + q, blocks[r + 1])]]
           c == RoomAt(ants, first)
           C == RoomFrom(ants, first)
           s == SlotElements(rbs, cell, ants, sf, slot, first, blocks)
           Bare == \A l \in SlotSymbols : ~HasReserved(sf, slot, l)
           RowOf(t) == BlockElements(rbs, cell, ants, sf, slot, first + (t - 1) \div m, blocks[((t - 1) % m) + 1])
<1>1. m \in Nat /\ m < MaxBlocks /\ \A i \in 1..m : blocks[i] \in 0..(rbs - 1)
  BY FewBlocks
<1>2. h \in Nat /\ rbs \in Nat /\ slot \in Nat /\ first \in Nat
  BY DEF Bandwidths
<1>3. ASSUME NEW l \in first..6, NEW i \in 1..m
      PROVE  LET x == BlockElements(rbs, cell, ants, sf, slot, l, blocks[i])
             IN /\ BlockIs(x, slot, l, blocks[i], FreeIn(rbs, cell, ants, sf, slot, l, blocks[i]))
                /\ Len(x) <= RoomIn(ants, l)
                /\ Bare => Len(x) = RoomIn(ants, l)
  <2>1. l \in SlotSymbols /\ ~(slot = 0 /\ l = 0)
    BY DEF SlotSymbols
  <2>2. WholeWhere(rbs, ants, sf, slot, l, blocks[i])
    BY <2>1 DEF Clear
  <2>3. Bare => ~HasReserved(sf, slot, l)
    BY <2>1
  <2> DEFINE b == blocks[i]
  <2>4. b \in 0..(rbs - 1)
    BY <1>1
  <2> HIDE DEF b, Bare
  <2>5. BlockRead(BlockElements(rbs, cell, ants, sf, slot, l, b), rbs, cell, ants, sf, slot, l, b)
    BY <2>1, <2>2, <2>4, BlockIsRead DEF b
  <2> QED
    BY <2>3, <2>5, Zenon DEF b, BlockRead
<1> HIDE DEF Bare
<1>4. ASSUME NEW q \in 0..(h - 1), NEW r \in 0..(m - 1)
      PROVE  /\ BlockIs(B[q][r], slot, first + q, rb[r], F[q][r])
             /\ Len(B[q][r]) <= c[q] /\ (Bare => Len(B[q][r]) = c[q])
             /\ rb[r] = blocks[r + 1] /\ F[q][r] = FreeIn(rbs, cell, ants, sf, slot, first + q, blocks[r + 1])
  <2> DEFINE l == first + q
             i == r + 1
  <2>1. l \in first..6 /\ i \in 1..m /\ q \in 0..h
    BY <1>1, <1>2
  <2>2. B[q][r] = BlockElements(rbs, cell, ants, sf, slot, l, blocks[i]) /\ rb[r] = blocks[i]
        /\ F[q][r] = FreeIn(rbs, cell, ants, sf, slot, l, blocks[i])
    OBVIOUS
  <2>3. c[q] = RoomIn(ants, l)
    BY <2>1 DEF RoomAt
  <2> HIDE DEF B, rb, F, c, l, i
  <2>4. /\ BlockIs(B[q][r], slot, l, rb[r], F[q][r])
        /\ Len(B[q][r]) <= c[q] /\ (Bare => Len(B[q][r]) = c[q])
    BY <1>3, <2>1, <2>2, <2>3, Zenon
  <2> QED
    BY <2>2, <2>4, Zenon DEF l, i
<1>5. B \in [0..(h - 1) -> [0..(m - 1) -> Seq(Element)]]
  <2>1. \A q \in 0..(h - 1), r \in 0..(m - 1) : B[q][r] \in Seq(Element)
    BY <1>4, Zenon DEF BlockIs
  <2>2. B = [q \in 0..(h - 1) |-> B[q]] /\ \A q \in 0..(h - 1) : B[q] = [r \in 0..(m - 1) |-> B[q][r]]
    OBVIOUS
  <2> HIDE DEF B, h, m
  <2> QED
    BY <2>1, <2>2
<1>6. LoopOfBlocks(B, h, m, slot, first, rb, F)
  <2> HIDE DEF B, h, m, rb, F
  <2> QED
    BY <1>4, Zenon DEF LoopOfBlocks
<1>7. RowsClimb(rb, m, rbs)
  <2>1. \A i, j \in 1..m : i < j => blocks[i] < blocks[j]
    BY DEF GrantsBlocks
  <2>2. \A r \in 0..(m - 1) : r + 1 \in 1..m /\ rb[r] = blocks[r + 1]
    BY <1>1
  <2>3. rb \in [0..(m - 1) -> 0..(rbs - 1)]
    BY <1>1, <2>2
  <2>4. \A r, y \in 0..(m - 1) : r < y => rb[r] < rb[y]
    <3> HIDE DEF rb, m
    <3> QED
      BY <1>1, <2>1, <2>2
  <2> QED
    BY <2>3, <2>4 DEF RowsClimb
<1>8. LoopFits(B, h, m, c, C) /\ C[h] = RoomBelow(ants, 7) - RoomBelow(ants, first)
  <2>1. /\ c \in [0..h -> Int] /\ C \in [0..h -> Int] /\ C[0] = 0
        /\ C[h] = RoomBelow(ants, 7) - RoomBelow(ants, first)
        /\ \A q \in 0..(h - 1) : C[q + 1] = C[q] + c[q]
    BY RoomAdds
  <2> HIDE DEF B, h, m, c, C
  <2> QED
    BY <1>4, <2>1, Zenon DEF LoopFits
<1>9. s = LoopSeq(B, h, m)
  <2>1. ~(Len(blocks) >= MaxBlocks)
    BY <1>1 DEF MaxBlocks
  <2>2. s = FlattenSeq([t \in 1..(h * m) |-> RowOf(t)])
    BY <2>1, Zenon DEF SlotElements
  <2>3. ASSUME NEW t \in 1..(h * m) PROVE RowOf(t) = B[(t - 1) \div m][(t - 1) % m]
    <3> DEFINE q == (t - 1) \div m
               r == (t - 1) % m
    <3>1. q \in 0..(h - 1) /\ r \in 0..(m - 1)
      <4> HIDE DEF B, h, m
      <4> QED
        BY <1>1, <1>2, <1>5, TurnsThrough
    <3>2. RowOf(t) = BlockElements(rbs, cell, ants, sf, slot, first + q, blocks[r + 1])
      OBVIOUS
    <3> HIDE DEF q, r, h, m
    <3>3. B[q][r] = BlockElements(rbs, cell, ants, sf, slot, first + q, blocks[r + 1])
      BY <3>1
    <3> QED
      BY <3>2, <3>3, Zenon DEF q, r
  <2>4. [t \in 1..(h * m) |-> RowOf(t)] = [t \in 1..(h * m) |-> B[(t - 1) \div m][(t - 1) % m]]
    <3> HIDE DEF RowOf, B, h, m
    <3> QED
      BY <2>3
  <2> QED
    BY <2>2, <2>4, Zenon DEF LoopSeq
<1>10. BlocksRead(s, rbs, B, h, m, slot, first, rb, F, c, C)
  <2> HIDE DEF B, h, m, rb, F, c, C, s
  <2> QED
    BY <1>1, <1>2, <1>5, <1>6, <1>7, <1>8, <1>9, BlocksThrough
<1>11. ASSUME NEW e PROVE e \in ToSet(s) <=> SlotReference(rbs, cell, ants, sf, slot, first, blocks, e)
  <2> DEFINE Is(l, i) == \E sc \in FreeIn(rbs, cell, ants, sf, slot, l, blocks[i]) : e = <<slot, l, 12 * blocks[i] + sc>>
             In(q, r) == \E sc \in F[q][r] : e = <<slot, first + q, 12 * rb[r] + sc>>
  <2>1. \A q \in 0..(h - 1), r \in 0..(m - 1) : In(q, r) <=> Is(first + q, r + 1)
    <3> HIDE DEF B, h, m, rb, F, c
    <3> QED
      BY <1>4, Zenon
  <2>2. \A q \in 0..(h - 1), r \in 0..(m - 1) : first + q \in first..6 /\ r + 1 \in 1..m
    BY <1>1
  <2>3. \A l \in first..6, i \in 1..m : l - first \in 0..(h - 1) /\ i - 1 \in 0..(m - 1) /\ first + (l - first) = l /\ (i - 1) + 1 = i
    BY <1>1
  <2>4. e \in ToSet(s) <=> \E q \in 0..(h - 1), r \in 0..(m - 1) : In(q, r)
    <3> HIDE DEF B, h, m, rb, F, c, C, s
    <3> QED
      BY <1>10, Zenon DEF BlocksRead
  <2>5. SlotReference(rbs, cell, ants, sf, slot, first, blocks, e) <=> \E l \in first..6, i \in 1..m : Is(l, i)
    BY Zenon DEF SlotReference
  <2> HIDE DEF Is, In, s, h, m
  <2>6. ASSUME NEW l \in first..6, NEW i \in 1..m, Is(l, i) PROVE In(l - first, i - 1)
    <3> DEFINE q == l - first
               r == i - 1
    <3>1. q \in 0..(h - 1) /\ r \in 0..(m - 1) /\ first + q = l /\ r + 1 = i
      BY <2>3
    <3> HIDE DEF q, r
    <3>2. In(q, r) <=> Is(first + q, r + 1)
      BY <2>1, <3>1, Zenon
    <3>3. In(q, r)
      BY <2>6, <3>1, <3>2, Zenon
    <3> QED
      BY <3>3 DEF q, r
  <2>7. ASSUME NEW q \in 0..(h - 1), NEW r \in 0..(m - 1), In(q, r) PROVE Is(first + q, r + 1)
    BY <2>1, <2>7, Zenon
  <2> QED
    BY <2>2, <2>3, <2>4, <2>5, <2>6, <2>7, Zenon
<1>12. s \in Seq(Element) /\ Climbs(s, GridKey(rbs)) /\ Len(s) <= m * C[h] /\ (Bare => Len(s) = m * C[h])
  <2> HIDE DEF B, h, m, rb, F, c, C, s
  <2>1. Bare => \A q \in 0..(h - 1), r \in 0..(m - 1) : Len(B[q][r]) = c[q]
    BY <1>4, Zenon
  <2> QED
    BY <1>10, <2>1, Zenon DEF LoopIsRead, BlocksRead
<1> HIDE DEF C, s
<1> QED
  BY <1>8, <1>11, <1>12, Zenon DEF SlotRead, s, Bare

\* A subcarrier of a block is one of the band.
LEMMA PlaceInBlock ==
  ASSUME NEW n \in Nat, NEW b \in 0..(n - 1), NEW sc \in 0..11
  PROVE  /\ 12 * b + sc = b * RbLen + sc /\ 12 * b + sc \in Nat /\ 12 * b + sc < 12 * n
         /\ (12 * b + sc) \div RbLen = b
<1> DEFINE k == 12 * b + sc
<1>1. k = b * RbLen + sc /\ k \in Nat /\ k < 12 * n /\ 12 * b <= k /\ k < 12 * b + 12
  BY DEF RbLen
<1> HIDE DEF k
<1>2. k \div 12 = b
  <2>1. b \in Nat /\ 12 \in Nat \ {0}
    OBVIOUS
  <2> QED
    BY <1>1, <2>1, QuotientIs, Zenon
<1> QED
  BY <1>1, <1>2 DEF k, RbLen

\* A block's part of the elements that 36.211 names
LEMMA SlotIsReference ==
  ASSUME NEW in \in DataInputs, NEW slot \in {0, 1}, NEW first \in 0..6, NEW blocks, GrantsBlocks(in.rbs, blocks),
         blocks = IF slot = 0 THEN in.even ELSE in.odd,
         first = IF slot = 0 THEN FirstSymbol(in.rbs, in.cfi) ELSE 0
  PROVE  \A e : SlotReference(in.rbs, in.cell, in.ants, in.sf, slot, first, blocks, e) <=> e \in SharedReference(in) /\ e[1] = slot
<1> TAKE e
<1> DEFINE rbs == in.rbs
           ants == in.ants
           sf == in.sf
           cell == in.cell
           Blocks(s) == ToSet(IF s = 0 THEN in.even ELSE in.odd)
           Named == /\ e \in {0, 1} \X SlotSymbols \X Subcarriers(rbs) /\ e[1] = slot
                    /\ e[3] \div RbLen \in ToSet(blocks) /\ e[2] >= first
                    /\ ~IsReference(ants, cell, e[2], e[3])
                    /\ ~(HasReserved(sf, e[1], e[2]) /\ InCentre(rbs, e[3]))
<1>1. rbs \in Bandwidths /\ in.cfi \in 1..3 /\ rbs \in Nat
  BY DataAssumption DEF Bandwidths
<1>2. Len(blocks) \in Nat /\ \A i \in 1..Len(blocks) : blocks[i] \in 0..(rbs - 1)
  BY <1>1, FewBlocks
<1>3. \A b : b \in ToSet(blocks) <=> \E i \in 1..Len(blocks) : b = blocks[i]
  BY MembersOf DEF GrantsBlocks
<1>4. e \in SharedReference(in) /\ e[1] = slot <=> Named
  <2>1. e[1] = slot => (e[3] \div RbLen \in Blocks(e[1]) <=> e[3] \div RbLen \in ToSet(blocks))
    OBVIOUS
  <2>2. e \in {0, 1} \X SlotSymbols \X Subcarriers(rbs) /\ e[1] = slot =>
          ((e[1] = 1 \/ e[2] >= in.cfi + (IF rbs <= 10 THEN 1 ELSE 0)) <=> e[2] >= first)
    <3> SUFFICES ASSUME e \in {0, 1} \X SlotSymbols \X Subcarriers(rbs), e[1] = slot
                 PROVE  (e[1] = 1 \/ e[2] >= in.cfi + (IF rbs <= 10 THEN 1 ELSE 0)) <=> e[2] >= first
      OBVIOUS
    <3>1. e[2] \in 0..6
      BY DEF SlotSymbols
    <3>2. CASE slot = 0
      BY <1>1, <3>1, <3>2 DEF FirstSymbol
    <3>3. CASE slot = 1
      BY <3>1, <3>3
    <3> QED
      BY <3>2, <3>3
  <2>3. e \in SharedReference(in) <=>
          /\ e \in {0, 1} \X SlotSymbols \X Subcarriers(rbs)
          /\ e[3] \div RbLen \in Blocks(e[1])
          /\ e[1] = 1 \/ e[2] >= in.cfi + (IF rbs <= 10 THEN 1 ELSE 0)
          /\ ~IsReference(ants, cell, e[2], e[3])
          /\ ~(HasReserved(sf, e[1], e[2]) /\ InCentre(rbs, e[3]))
    BY Zenon DEF SharedReference, IsReference
  <2> HIDE DEF Blocks
  <2> QED
    BY <2>1, <2>2, <2>3, Zenon
<1>5. ASSUME SlotReference(rbs, cell, ants, sf, slot, first, blocks, e) PROVE Named
  <2>1. PICK l \in first..6, i \in 1..Len(blocks) : \E sc \in FreeIn(rbs, cell, ants, sf, slot, l, blocks[i]) : e = <<slot, l, 12 * blocks[i] + sc>>
    BY <1>5 DEF SlotReference
  <2> DEFINE b == blocks[i]
  <2>2. PICK sc \in FreeIn(rbs, cell, ants, sf, slot, l, b) : e = <<slot, l, 12 * b + sc>>
    BY <2>1
  <2>3. b \in 0..(rbs - 1) /\ b \in ToSet(blocks)
    BY <1>2, <1>3
  <2> HIDE DEF b
  <2>4. sc \in 0..11 /\ ~IsReference(ants, cell, l, b * RbLen + sc) /\ ~(HasReserved(sf, slot, l) /\ InCentre(rbs, b * RbLen + sc))
    BY <2>2 DEF FreeIn
  <2> DEFINE k == 12 * b + sc
  <2>5. k = b * RbLen + sc /\ k \in Nat /\ k < 12 * rbs
    BY <1>1, <2>3, <2>4, PlaceInBlock, Zenon
  <2>6. k \div RbLen = b
    BY <1>1, <2>3, <2>4, PlaceInBlock, Zenon
  <2>7. e[1] = slot /\ e[2] = l /\ e[3] = k
    BY <2>2
  <2> HIDE DEF k
  <2>8. k \in Subcarriers(rbs) /\ l \in SlotSymbols
    BY <1>1, <2>5 DEF Subcarriers, RbLen, SlotSymbols
  <2>9. e \in {0, 1} \X SlotSymbols \X Subcarriers(rbs)
    BY <2>2, <2>8 DEF k
  <2>10. l >= first
    OBVIOUS
  <2> QED
    BY <2>3, <2>4, <2>5, <2>6, <2>7, <2>9, <2>10, Zenon
<1>6. ASSUME Named PROVE SlotReference(rbs, cell, ants, sf, slot, first, blocks, e)
  <2> DEFINE l == e[2]
             k == e[3]
             b == k \div 12
             sc == k % 12
  <2>1. l \in 0..6 /\ k \in 0..(12 * rbs - 1) /\ e = <<slot, l, k>>
    BY <1>1, <1>6 DEF SlotSymbols, Subcarriers, RbLen
  <2>2. l \in first..6
    BY <1>6, <2>1
  <2>3. b \in ToSet(blocks)
    BY <1>6 DEF RbLen
  <2>4. PICK i \in 1..Len(blocks) : b = blocks[i]
    BY <1>3, <2>3
  <2>5. ~IsReference(ants, cell, l, k) /\ ~(HasReserved(sf, slot, l) /\ InCentre(rbs, k))
    <3> HIDE DEF l, k, b, sc
    <3> QED
      BY <1>6, Zenon DEF l, k
  <2> HIDE DEF l, k
  <2>6. b \in Nat /\ sc \in 0..11 /\ k = 12 * b + sc /\ k = b * RbLen + sc
    BY <2>1 DEF RbLen
  <2> HIDE DEF b, sc
  <2>7. sc \in FreeIn(rbs, cell, ants, sf, slot, l, b)
    BY <2>5, <2>6, Zenon DEF FreeIn
  <2>8. e = <<slot, l, 12 * blocks[i] + sc>> /\ sc \in FreeIn(rbs, cell, ants, sf, slot, l, blocks[i])
    BY <2>1, <2>4, <2>6, <2>7, Zenon
  <2> QED
    BY <2>2, <2>8, Zenon DEF SlotReference
<1> QED
  BY <1>4, <1>5, <1>6

\* The shared channel is read in full and in order.
SharedSent(in) == SharedElements(in.rbs, in.cell, in.ants, in.sf, in.cfi, in.even, in.odd)

SharedRead(in, s) ==
  /\ ToSet(s) = SharedReference(in)
  /\ s \in Seq(Element) /\ Climbs(s, GridKey(in.rbs))
  /\ Len(s) <= SharedLen(in.ants, Len(in.even), FirstSymbol(in.rbs, in.cfi))
  /\ in.sf \notin {0, 5} => Len(s) = SharedLen(in.ants, Len(in.even), FirstSymbol(in.rbs, in.cfi))

\* lte_decode_pdsch reads the shared channel in full and in order, unless the
\* extraction misreads the grant.
LEMMA DataIsRead ==
  ASSUME NEW in \in DataInputs, ~Misread(in)
  PROVE  SharedRead(in, SharedSent(in))
<1> DEFINE rbs == in.rbs
           ants == in.ants
           sf == in.sf
           cell == in.cell
           first == FirstSymbol(rbs, in.cfi)
           a == SlotElements(rbs, cell, ants, sf, 0, first, in.even)
           b == SlotElements(rbs, cell, ants, sf, 1, 0, in.odd)
           key == GridKey(rbs)
           n == Len(in.even)
           Bare == sf \notin {0, 5}
<1>1. /\ rbs \in Bandwidths /\ cell \in CellIds /\ ants \in {1, 2} /\ in.cfi \in 1..3
      /\ GrantsBlocks(rbs, in.even) /\ GrantsBlocks(rbs, in.odd) /\ Len(in.odd) = n
  BY DataAssumption DEF GrantsBlocks
<1>2. first \in 1..4
  BY <1>1 DEF FirstSymbol
<1>3. Clear(rbs, ants, sf, 0, in.even) /\ Clear(rbs, ants, sf, 1, in.odd)
  <2>1. /\ rbs = 15 /\ sf \in {0, 5} => ToSet(in.even) \cap HalfTaken(15) = {}
        /\ sf = 0 /\ (rbs = 15 \/ ants = 1) => ToSet(in.odd) \cap HalfTaken(rbs) = {}
    BY Zenon DEF Misread
  <2>2. \A i \in 1..Len(in.even) : in.even[i] \in ToSet(in.even)
    BY <1>1, MembersOf DEF GrantsBlocks
  <2>3. \A i \in 1..Len(in.odd) : in.odd[i] \in ToSet(in.odd)
    BY <1>1, MembersOf DEF GrantsBlocks
  <2>4. ASSUME NEW l \in SlotSymbols, NEW i \in 1..Len(in.even) PROVE WholeWhere(rbs, ants, sf, 0, l, in.even[i])
    <3>1. HasReserved(sf, 0, l) => sf \in {0, 5} /\ l \notin {0, 4}
      BY DEF HasReserved, SlotSymbols
    <3> QED
      BY <2>1, <2>2, <3>1 DEF WholeWhere
  <2>5. ASSUME NEW l \in SlotSymbols, NEW i \in 1..Len(in.odd) PROVE WholeWhere(rbs, ants, sf, 1, l, in.odd[i])
    <3>1. HasReserved(sf, 1, l) => sf = 0
      BY DEF HasReserved, SlotSymbols
    <3> QED
      BY <2>1, <2>3, <3>1 DEF WholeWhere
  <2> QED
    BY <2>4, <2>5 DEF Clear
<1>4. SlotRead(a, rbs, cell, ants, sf, 0, first, in.even)
  <2> HIDE DEF first, rbs, cell, ants, sf, n
  <2>1. first \in 0..6 /\ first > 0 /\ 0 \in {0, 1}
    BY <1>2
  <2> QED
    BY <1>1, <1>3, <2>1, SlotIsRead
<1>5. SlotRead(b, rbs, cell, ants, sf, 1, 0, in.odd)
  <2> HIDE DEF first, rbs, cell, ants, sf, n
  <2>1. 0 \in 0..6 /\ (1 = 0 => 0 > 0) /\ 1 \in {0, 1}
    OBVIOUS
  <2> QED
    BY <1>1, <1>3, <2>1, SlotIsRead
<1>6. \A e : SlotReference(rbs, cell, ants, sf, 0, first, in.even, e) <=> e \in SharedReference(in) /\ e[1] = 0
  <2> HIDE DEF first
  <2>1. first \in 0..6
    BY <1>2
  <2> DEFINE x == in.even
  <2>2. GrantsBlocks(in.rbs, x) /\ x = (IF 0 = 0 THEN in.even ELSE in.odd) /\ 0 \in {0, 1}
        /\ first = (IF 0 = 0 THEN FirstSymbol(in.rbs, in.cfi) ELSE 0)
    BY <1>1 DEF first
  <2> QED
    BY <2>1, <2>2, SlotIsReference
<1>7. \A e : SlotReference(rbs, cell, ants, sf, 1, 0, in.odd, e) <=> e \in SharedReference(in) /\ e[1] = 1
  <2>1. GrantsBlocks(in.rbs, in.odd) /\ in.odd = (IF 1 = 0 THEN in.even ELSE in.odd) /\ 1 \in {0, 1}
        /\ 0 \in 0..6 /\ 0 = (IF 1 = 0 THEN FirstSymbol(in.rbs, in.cfi) ELSE 0)
    BY <1>1
  <2> QED
    BY <2>1, SlotIsReference
<1>8. \A e \in SharedReference(in) : e[1] \in {0, 1} /\ e[2] \in 0..6
  BY DEF SharedReference, SlotSymbols
<1>9. (\A e : e \in ToSet(a) <=> e \in SharedReference(in) /\ e[1] = 0) /\ (\A e : e \in ToSet(b) <=> e \in SharedReference(in) /\ e[1] = 1)
  BY <1>4, <1>5, <1>6, <1>7, Zenon DEF SlotRead
<1>10. /\ a \in Seq(Element) /\ Climbs(a, key) /\ b \in Seq(Element) /\ Climbs(b, key)
  BY <1>4, <1>5, Zenon DEF SlotRead
<1> HIDE DEF a, b
<1>11. key \in [Element -> Int] /\ rbs \in Nat
  BY <1>1, GridKeyIsInt DEF Bandwidths
<1>12. ASSUME NEW i \in 1..Len(a), NEW j \in 1..Len(b) PROVE key[a[i]] < key[b[j]]
  <2> DEFINE e == a[i]
             f == b[j]
  <2>1. e \in ToSet(a) /\ f \in ToSet(b) /\ e \in Element /\ f \in Element
    BY <1>10, MembersOf
  <2> HIDE DEF e, f
  <2>2. e \in SharedReference(in) /\ f \in SharedReference(in) /\ e[1] = 0 /\ f[1] = 1
    BY <1>9, <2>1
  <2>3. e[2] \in 0..6 /\ f[2] \in 0..6
    BY <1>8, <2>2
  <2>4. \A x \in SharedReference(in) : x[3] < rbs * RbLen
    BY <1>11 DEF SharedReference, Subcarriers, RbLen
  <2>5. 7 * e[1] + e[2] < 7 * f[1] + f[2] /\ e[3] < rbs * RbLen /\ f[3] < rbs * RbLen
    <3> DEFINE x == e[2]
               y == f[2]
    <3>1. x \in 0..6 /\ y \in 0..6
      BY <2>3
    <3> HIDE DEF x, y
    <3>2. 7 * 0 + x < 7 * 1 + y
      BY <3>1
    <3>3. 7 * e[1] + e[2] < 7 * f[1] + f[2]
      BY <2>2, <3>2, Zenon DEF x, y
    <3> QED
      BY <2>2, <2>4, <3>3, Zenon
  <2>6. key[e] < key[f]
    BY <1>11, <2>1, <2>5, GridOrder
  <2> QED
    BY <2>6 DEF e, f
<1> HIDE DEF key
<1>13. a \o b \in Seq(Element) /\ Len(a \o b) = Len(a) + Len(b) /\ ToSet(a \o b) = ToSet(a) \cup ToSet(b) /\ Climbs(a \o b, key)
  BY <1>10, <1>11, <1>12, Concatenation
<1>14. ToSet(a \o b) = SharedReference(in)
  <2>1. \A e : e \in ToSet(a \o b) <=> e \in ToSet(a) \/ e \in ToSet(b)
    BY <1>13
  <2>2. \A e : e \in ToSet(a \o b) <=> e \in SharedReference(in)
    BY <1>8, <1>9, <2>1
  <2> QED
    BY <2>2, Zenon
<1> DEFINE room == SharedLen(ants, n, first)
           ra == n * (RoomBelow(ants, 7) - RoomBelow(ants, first))
           rb == n * (RoomBelow(ants, 7) - RoomBelow(ants, 0))
<1>15. n \in Nat
  BY <1>1, FewBlocks
<1>16. room = ra + rb /\ ra \in Int /\ rb \in Int
  <2> HIDE DEF n, first
  <2> DEFINE x == RoomBelow(ants, 7) - RoomBelow(ants, first)
             y == RoomBelow(ants, 7) - RoomBelow(ants, 0)
             z == 12 * (14 - first) - (IF ants = 2 THEN 12 ELSE 6)
  <2>1. z = x + y /\ x \in Int /\ y \in Int
    <3>1. CASE ants = 1
      BY <1>2, <3>1 DEF RoomBelow
    <3>2. CASE ants = 2
      BY <1>2, <3>2 DEF RoomBelow
    <3> QED
      BY <1>1, <3>1, <3>2
  <2>2. room = n * z /\ ra = n * x /\ rb = n * y
    BY DEF SharedLen
  <2> HIDE DEF room, ra, rb, x, y, z
  <2> QED
    BY <1>15, <2>1, <2>2
<1>17. Len(a) <= ra /\ Len(b) <= rb /\ Len(a) \in Nat /\ Len(b) \in Nat
  <2>1. Len(a) \in Nat /\ Len(b) \in Nat
    BY <1>10
  <2> QED
    BY <1>1, <1>4, <1>5, <2>1, Zenon DEF SlotRead
<1>18. Bare => Len(a) = ra /\ Len(b) = rb
  <2>1. ASSUME Bare PROVE \A l \in SlotSymbols : ~HasReserved(sf, 0, l) /\ ~HasReserved(sf, 1, l)
    BY <2>1 DEF HasReserved
  <2> QED
    BY <1>1, <1>4, <1>5, <2>1, Zenon DEF SlotRead
<1> HIDE DEF room, ra, rb, Bare, n
<1>19. Len(a \o b) <= room /\ (Bare => Len(a \o b) = room)
  BY <1>13, <1>16, <1>17, <1>18
<1>20. SharedSent(in) = a \o b
  BY Zenon DEF SharedSent, SharedElements, a, b
<1> QED
  BY <1>13, <1>14, <1>19, <1>20, Zenon DEF SharedRead, room, n, Bare, key

\* The broadcast channel is read in full and in order.
BroadcastReference(cell) ==
  {e \in {1} \X (0..3) \X Subcarriers(PbchBlocks) : e[2] >= 2 \/ ~RefOfTwo(cell, e[3])}

BroadcastRead(cell, s) ==
  s \in Seq(Element) /\ Climbs(s, GridKey(PbchBlocks)) /\ ToSet(s) = BroadcastReference(cell) /\ Len(s) = PbchSymbols

\* What is read of a block
BroadcastAt(cell, l) == IF l < 2 THEN AroundBoth(cell, 0, 12) ELSE Neighbours(0, 12)
BroadcastFree(cell, l) == {sc \in 0..11 : l >= 2 \/ sc % 3 # cell % 3}

\* What lte_decode_pbch reads of a block
LEMMA BroadcastBlock ==
  ASSUME NEW cell \in CellIds, NEW l \in 0..3, NEW rb \in 0..5
  PROVE  /\ BlockIs(PlacedIn(1, l, rb, BroadcastAt(cell, l)), 1, l, rb, BroadcastFree(cell, l))
         /\ Len(PlacedIn(1, l, rb, BroadcastAt(cell, l))) = IF l < 2 THEN 8 ELSE 12
<1> DEFINE at == BroadcastAt(cell, l)
           S == BroadcastFree(cell, l)
           w == <<0, 12>>
<1>1. w \in Windows /\ w[1] = 0 /\ w[2] = 12
  BY DEF Windows
<1>2. 0..(12 - 1) = 0..11
  OBVIOUS
<1>3. ListsUp(at, S) /\ Len(at) = IF l < 2 THEN 8 ELSE 12
  <2>1. CASE l < 2
    <3>1. at = AroundBoth(cell, w[1], w[2])
      BY <1>1, <2>1 DEF BroadcastAt
    <3>2. S = {sc \in w[1]..(w[2] - 1) : sc % 3 # cell % 3}
      <4>1. ~(l >= 2)
        BY <2>1
      <4> QED
        BY <1>1, <1>2, <4>1 DEF BroadcastFree
    <3> HIDE DEF at, S
    <3>3. ListsUp(at, S) /\ Len(at) = 8
      <4> HIDE DEF w
      <4>1. /\ ListsUp(AroundBoth(cell, w[1], w[2]), {sc \in w[1]..(w[2] - 1) : sc % 3 # cell % 3})
            /\ w = <<0, 12>> => Len(AroundBoth(cell, w[1], w[2])) = 8
        BY <1>1, BothAreRead
      <4> QED
        BY <3>1, <3>2, <4>1, Zenon DEF w
    <3> QED
      BY <2>1, <3>3
  <2>2. CASE ~(l < 2)
    <3>1. at = Neighbours(w[1], w[2])
      BY <1>1, <2>2 DEF BroadcastAt
    <3>2. S = w[1]..(w[2] - 1)
      <4>1. l >= 2
        BY <2>2
      <4> QED
        BY <1>1, <1>2, <4>1 DEF BroadcastFree
    <3> HIDE DEF at, S
    <3>3. ListsUp(at, S) /\ Len(at) = 12
      <4> HIDE DEF w
      <4>1. /\ ListsUp(Neighbours(w[1], w[2]), w[1]..(w[2] - 1))
            /\ w = <<0, 12>> => Len(Neighbours(w[1], w[2])) = 12
        BY <1>1, NeighboursAreRead
      <4> QED
        BY <3>1, <3>2, <4>1, Zenon DEF w
    <3> QED
      BY <2>2, <3>3
  <2> QED
    BY <2>1, <2>2
<1>4. S \in SUBSET (0..11) /\ 1 \in Nat /\ l \in Nat /\ rb \in Nat
  BY DEF BroadcastFree
<1> HIDE DEF at, S
<1>15. \A n, m, k \in Nat, T \in SUBSET (0..11) : \A t :
         ListsUp(t, T) => BlockIs(PlacedIn(n, m, k, t), n, m, k, T) /\ Len(PlacedIn(n, m, k, t)) = Len(t)
  BY PlacedBlock
<1>16. BlockIs(PlacedIn(1, l, rb, at), 1, l, rb, S) /\ Len(PlacedIn(1, l, rb, at)) = Len(at)
  <2>1. \A T \in SUBSET (0..11) : \A t : ListsUp(t, T) => BlockIs(PlacedIn(1, l, rb, t), 1, l, rb, T) /\ Len(PlacedIn(1, l, rb, t)) = Len(t)
    BY <1>4, <1>15, Zenon
  <2> QED
    BY <1>3, <1>4, <2>1, Zenon
<1> QED
  BY <1>3, <1>16, Zenon DEF at, S

\* lte_decode_pbch reads the broadcast channel in full and in order.
LEMMA BroadcastIsRead ==
  ASSUME NEW cell \in CellIds
  PROVE  BroadcastRead(cell, PbchElements(cell))
<1> DEFINE At(l, rb) == PlacedIn(1, l, rb, BroadcastAt(cell, l))
           h == 4
           m == 6
           B == [q \in 0..(h - 1) |-> [r \in 0..(m - 1) |-> At(q, r)]]
           rb == [r \in 0..(m - 1) |-> r]
           F == [q \in 0..(h - 1) |-> [r \in 0..(m - 1) |-> BroadcastFree(cell, q)]]
           c == [q \in 0..h |-> IF q < 2 THEN 8 ELSE 12]
           C == [q \in 0..h |-> IF q <= 2 THEN 8 * q ELSE 12 * q - 8]
           s == PbchElements(cell)
<1>1. h \in Nat /\ m \in Nat /\ 0..(h - 1) = 0..3 /\ 0..(m - 1) = 0..5 /\ h * m = 24
  OBVIOUS
<1>2. ASSUME NEW q \in 0..(h - 1), NEW r \in 0..(m - 1)
      PROVE  /\ BlockIs(B[q][r], 1, 0 + q, rb[r], F[q][r]) /\ Len(B[q][r]) = c[q]
             /\ B[q][r] = At(q, r) /\ rb[r] = r /\ F[q][r] = BroadcastFree(cell, q)
  <2>1. B[q][r] = At(q, r) /\ rb[r] = r /\ F[q][r] = BroadcastFree(cell, q)
    OBVIOUS
  <2>2. q \in 0..3 /\ r \in 0..5 /\ 0 + q = q /\ q \in 0..h
    OBVIOUS
  <2>3. c[q] = IF q < 2 THEN 8 ELSE 12
    BY <2>2
  <2> HIDE DEF B, rb, F, c
  <2>4. BlockIs(At(q, r), 1, q, r, BroadcastFree(cell, q)) /\ Len(At(q, r)) = IF q < 2 THEN 8 ELSE 12
    BY <2>2, BroadcastBlock
  <2> QED
    BY <2>1, <2>2, <2>3, <2>4, Zenon
<1>3. B \in [0..(h - 1) -> [0..(m - 1) -> Seq(Element)]]
  <2>1. \A q \in 0..(h - 1), r \in 0..(m - 1) : B[q][r] \in Seq(Element)
    <3> HIDE DEF B, h, m, rb, F, c, At
    <3> QED
      BY <1>2, Zenon DEF BlockIs
  <2>2. B = [q \in 0..(h - 1) |-> B[q]] /\ \A q \in 0..(h - 1) : B[q] = [r \in 0..(m - 1) |-> B[q][r]]
    OBVIOUS
  <2> HIDE DEF B, h, m
  <2> QED
    BY <2>1, <2>2
<1>4. LoopOfBlocks(B, h, m, 1, 0, rb, F)
  <2> HIDE DEF B, h, m, rb, F, At, c
  <2> QED
    BY <1>2, Zenon DEF LoopOfBlocks
<1>5. RowsClimb(rb, m, PbchBlocks)
  BY DEF RowsClimb, PbchBlocks
<1>6. LoopFits(B, h, m, c, C) /\ C[h] = 40
  <2>1. c \in [0..h -> Int] /\ C \in [0..h -> Int] /\ C[0] = 0 /\ C[h] = 40
    OBVIOUS
  <2>2. \A q \in 0..(h - 1) : C[q + 1] = C[q] + c[q]
    <3>1. 0..(h - 1) = {0, 1, 2, 3} /\ 0..h = {0, 1, 2, 3, 4}
      OBVIOUS
    <3> QED
      BY <3>1
  <2>3. \A q \in 0..(h - 1) : c[q] \in Int /\ c[q] <= c[q]
    OBVIOUS
  <2> HIDE DEF B, h, m, c, C, At
  <2> QED
    BY <1>2, <2>1, <2>2, <2>3, Zenon DEF LoopFits
<1>7. s = LoopSeq(B, h, m)
  <2>1. s = FlattenSeq([t \in 1..(4 * PbchBlocks) |-> At((t - 1) \div PbchBlocks, (t - 1) % PbchBlocks)])
    BY Zenon DEF PbchElements, PlacedIn, BroadcastAt
  <2>2. ASSUME NEW t \in 1..24 PROVE At((t - 1) \div 6, (t - 1) % 6) = B[(t - 1) \div 6][(t - 1) % 6]
    <3>1. (t - 1) \div 6 \in 0..3 /\ (t - 1) % 6 \in 0..5
      OBVIOUS
    <3> DEFINE q == (t - 1) \div 6
               r == (t - 1) % 6
    <3> HIDE DEF q, r, At
    <3>2. q \in 0..(h - 1) /\ r \in 0..(m - 1)
      BY <3>1 DEF q, r
    <3>3. At(q, r) = B[q][r]
      BY <3>2
    <3> QED
      BY <3>3 DEF q, r
  <2> HIDE DEF At, B
  <2>3. [t \in 1..24 |-> At((t - 1) \div 6, (t - 1) % 6)] = [t \in 1..24 |-> B[(t - 1) \div 6][(t - 1) % 6]]
    BY <2>2, Zenon
  <2>4. 4 * PbchBlocks = 24 /\ PbchBlocks = 6
    BY DEF PbchBlocks
  <2> QED
    BY <1>1, <2>1, <2>3, <2>4, Zenon DEF LoopSeq
<1>8. BlocksRead(s, PbchBlocks, B, h, m, 1, 0, rb, F, c, C)
  <2>1. PbchBlocks \in Nat /\ 1 \in Nat /\ 0 \in Nat
    BY DEF PbchBlocks
  <2> HIDE DEF B, h, m, rb, F, c, C, s
  <2> QED
    BY <1>1, <1>3, <1>4, <1>5, <1>6, <1>7, <2>1, BlocksThrough
<1>9. s \in Seq(Element) /\ Climbs(s, GridKey(PbchBlocks)) /\ Len(s) = PbchSymbols
  <2>1. m * C[h] = PbchSymbols
    BY <1>6 DEF PbchSymbols
  <2> HIDE DEF B, h, m, rb, F, c, C, s
  <2>2. \A q \in 0..(h - 1), r \in 0..(m - 1) : Len(B[q][r]) = c[q]
    BY <1>2, Zenon
  <2> QED
    BY <1>8, <2>1, <2>2, Zenon DEF BlocksRead, LoopIsRead
<1>10. ASSUME NEW e PROVE e \in ToSet(s) <=> e \in BroadcastReference(cell)
  <2>1. e \in ToSet(s) <=> \E q \in 0..3, r \in 0..5 : \E sc \in BroadcastFree(cell, q) : e = <<1, q, 12 * r + sc>>
    <3> DEFINE In(q, r) == \E sc \in F[q][r] : e = <<1, 0 + q, 12 * rb[r] + sc>>
               Is(q, r) == \E sc \in BroadcastFree(cell, q) : e = <<1, q, 12 * r + sc>>
    <3>1. \A q \in 0..(h - 1), r \in 0..(m - 1) : In(q, r) <=> Is(q, r)
      <4>1. \A q \in 0..(h - 1) : 0 + q = q
        OBVIOUS
      <4> HIDE DEF B, h, m, rb, F, c, At
      <4> QED
        BY <1>2, <4>1, Zenon
    <3>2. e \in ToSet(s) <=> \E q \in 0..(h - 1), r \in 0..(m - 1) : In(q, r)
      <4> HIDE DEF B, h, m, rb, F, c, C, s
      <4> QED
        BY <1>8, Zenon DEF BlocksRead
    <3> HIDE DEF In, Is, h, m, s
    <3>3. e \in ToSet(s) <=> \E q \in 0..3, r \in 0..5 : Is(q, r)
      BY <1>1, <3>1, <3>2, Zenon
    <3> QED
      BY <3>3, Zenon DEF Is
  <2> HIDE DEF s, B, rb, F, c, C, At
  <2>2. ASSUME NEW q \in 0..3, NEW r \in 0..5, NEW sc \in BroadcastFree(cell, q), e = <<1, q, 12 * r + sc>>
        PROVE  e \in BroadcastReference(cell)
    <3>1. sc \in 0..11 /\ (q >= 2 \/ sc % 3 # cell % 3)
      BY DEF BroadcastFree
    <3> DEFINE k == 12 * r + sc
    <3>2. k \in 0..71 /\ (k % 3) = sc % 3
      BY <3>1
    <3> HIDE DEF k
    <3>3. k \in Subcarriers(PbchBlocks)
      BY <3>2 DEF Subcarriers, PbchBlocks, RbLen
    <3>4. e = <<1, q, k>>
      BY <2>2 DEF k
    <3> QED
      BY <3>1, <3>2, <3>3, <3>4 DEF BroadcastReference, RefOfTwo
  <2>3. ASSUME e \in BroadcastReference(cell)
        PROVE  \E q \in 0..3, r \in 0..5 : \E sc \in BroadcastFree(cell, q) : e = <<1, q, 12 * r + sc>>
    <3>1. e \in {1} \X (0..3) \X Subcarriers(PbchBlocks) /\ (e[2] >= 2 \/ ~(e[3] % 3 = cell % 3))
      BY <2>3 DEF BroadcastReference, RefOfTwo
    <3> DEFINE q == e[2]
               k == e[3]
               r == k \div 12
               sc == k % 12
    <3>2. q \in 0..3 /\ k \in 0..71 /\ e = <<1, q, k>>
      BY <3>1 DEF Subcarriers, PbchBlocks, RbLen
    <3>3. q >= 2 \/ ~(k % 3 = cell % 3)
      BY <3>1
    <3> HIDE DEF q, k
    <3>4. r \in 0..5 /\ sc \in 0..11 /\ k = 12 * r + sc /\ sc % 3 = k % 3
      BY <3>2
    <3> HIDE DEF r, sc
    <3>5. sc \in BroadcastFree(cell, q)
      BY <3>3, <3>4 DEF BroadcastFree
    <3> QED
      BY <3>2, <3>4, <3>5
  <2> QED
    BY <2>1, <2>2, <2>3
<1>11. ToSet(s) = BroadcastReference(cell)
  BY <1>10, Zenon
<1> QED
  BY <1>9, <1>11, Zenon DEF BroadcastRead, s

-----------------------------------------------------------------------------
(* The control region is tiled.                                            *)

UnionTo(F, n) == UNION {F[i] : i \in 1..n}

\* Sets of four that have no element in common
Fours(F, n) ==
  /\ \A i \in 1..n : IsFiniteSet(F[i]) /\ Cardinality(F[i]) = 4
  /\ \A i, j \in 1..n : i < j => F[i] \cap F[j] = {}

\* Sets of four that are apart have four times as many members.
LEMMA FoursCount ==
  ASSUME NEW n \in Nat, NEW F, Fours(F, n)
  PROVE  IsFiniteSet(UnionTo(F, n)) /\ Cardinality(UnionTo(F, n)) = 4 * n
<1> DEFINE Good(k) == IsFiniteSet(UnionTo(F, k)) /\ Cardinality(UnionTo(F, k)) = 4 * k
           G == {k \in 0..n : Good(k)}
<1>1. 0 \in G
  <2>1. UnionTo(F, 0) = {}
    BY DEF UnionTo
  <2>2. IsFiniteSet({}) /\ Cardinality({}) = 0
    BY FS_EmptySet
  <2> QED
    BY <2>1, <2>2
<1>2. ASSUME NEW k \in 1..n, k - 1 \in G PROVE k \in G
  <2> DEFINE U == UnionTo(F, k - 1)
             W == F[k]
  <2>1. IsFiniteSet(U) /\ Cardinality(U) = 4 * (k - 1)
    BY <1>2
  <2>2. IsFiniteSet(W) /\ Cardinality(W) = 4
    BY DEF Fours
  <2>3. UnionTo(F, k) = U \cup W
    <3>1. k \in Nat \ {0}
      OBVIOUS
    <3>2. 1..k = 1..(k - 1) \cup {k}
      BY <3>1, OneMore, Zenon
    <3> QED
      BY <3>2 DEF UnionTo
  <2>4. U \cap W = {}
    <3>1. \A i \in 1..(k - 1) : F[i] \cap F[k] = {}
      BY DEF Fours
    <3> QED
      BY <3>1 DEF UnionTo
  <2> HIDE DEF U, W
  <2>5. IsFiniteSet(U \cup W) /\ Cardinality(U \cup W) = Cardinality(U) + Cardinality(W) - Cardinality(U \cap W)
    BY <2>1, <2>2, FS_Union
  <2>6. Cardinality(U \cup W) = 4 * k
    <3>1. Cardinality(U \cap W) = 0
      <4>1. Cardinality({}) = 0
        BY FS_EmptySet
      <4> QED
        BY <2>4, <4>1, Zenon
    <3>2. k \in Nat
      OBVIOUS
    <3> DEFINE c == Cardinality(U)
               d == Cardinality(U \cup W)
    <3>3. c = 4 * (k - 1) /\ d = c + 4 - 0
      BY <2>1, <2>2, <2>5, <3>1, Zenon
    <3> HIDE DEF c, d
    <3>4. d = 4 * k
      BY <3>2, <3>3
    <3> QED
      BY <3>4 DEF d
  <2>7. Good(k)
    BY <2>3, <2>5, <2>6, Zenon
  <2> HIDE DEF Good
  <2> QED
    BY <2>7
<1>3. 0..n \subseteq G
  <2> HIDE DEF G
  <2> QED
    BY <1>1, <1>2, ClimbTo
<1>4. n \in G
  <2>1. n \in 0..n
    OBVIOUS
  <2> HIDE DEF G
  <2> QED
    BY <1>3, <2>1
<1> QED
  BY <1>4

ReadOf(quads) == UNION {ToSet(quads[i]) : i \in DOMAIN quads}

\* Quadruplets that go up have four times as many elements.
LEMMA QuadsCount4 ==
  ASSUME NEW cell, NEW cfi \in 1..3, NEW quads \in Seq(Quads), Climbs(quads, QuadKey(cfi)),
         \A i \in 1..Len(quads) : IsGroup(quads[i], cell, cfi)
  PROVE  Cardinality(ReadOf(quads)) = 4 * Len(quads)
<1> DEFINE n == Len(quads)
           F == [i \in 1..n |-> ToSet(quads[i])]
           key == QuadKey(cfi)
<1>1. n \in Nat /\ DOMAIN quads = 1..n
  OBVIOUS
<1>2. \A i, j \in 1..n : i < j => key[quads[i]] < key[quads[j]]
  BY DEF Climbs
<1>3. \A i \in 1..n : key[quads[i]] \in Int
  <2>1. \A i \in 1..n : quads[i] \in Quads
    OBVIOUS
  <2>2. key \in [Quads -> Int]
    BY QuadKeys
  <2> HIDE DEF key
  <2> QED
    BY <2>1, <2>2
<1> HIDE DEF n, key
<1>4. ASSUME NEW i \in 1..n PROVE IsFiniteSet(F[i]) /\ Cardinality(F[i]) = 4
  <2>1. F[i] = ToSet(quads[i])
    OBVIOUS
  <2>2. IsGroup(quads[i], cell, cfi)
    BY DEF n
  <2> HIDE DEF F
  <2> QED
    BY <2>1, <2>2, Zenon DEF IsGroup, GroupRead
<1>5. ASSUME NEW i \in 1..n, NEW j \in 1..n, i < j PROVE F[i] \cap F[j] = {}
  <2>1. F[i] = ToSet(quads[i]) /\ F[j] = ToSet(quads[j])
    OBVIOUS
  <2>2. IsGroup(quads[i], cell, cfi) /\ IsGroup(quads[j], cell, cfi)
    BY DEF n
  <2> HIDE DEF F
  <2>3. ASSUME NEW e \in F[i], e \in F[j] PROVE FALSE
    <3>1. e \in ToSet(quads[i]) /\ e \in ToSet(quads[j])
      BY <2>1, <2>3
    <3>2. key[quads[i]] = key[quads[j]]
      BY <2>2, <3>1, GroupsApart DEF key
    <3> QED
      BY <1>2, <1>3, <1>5, <3>2
  <2> QED
    BY <2>3
<1>6. ReadOf(quads) = UnionTo(F, n)
  <2>1. \A i \in 1..n : F[i] = ToSet(quads[i])
    OBVIOUS
  <2> HIDE DEF F
  <2>2. {F[i] : i \in 1..n} = {ToSet(quads[i]) : i \in 1..n}
    BY <2>1
  <2> QED
    BY <1>1, <2>2 DEF UnionTo, ReadOf
<1> HIDE DEF F
<1>7. Fours(F, n)
  BY <1>4, <1>5 DEF Fours
<1> QED
  BY <1>1, <1>6, <1>7, FoursCount DEF n

\* The elements that carry the control channel
ControlElement(e, rbs, cell, cfi, Q) ==
  \E l \in 0..(cfi - 1), k \in Subcarriers(rbs) :
     /\ e = <<l, k>>
     /\ l = 0 => (k % 3) # cell % 3 /\ k \div 6 \notin Q

\* What is free of the blocks is what is free of the band.
LEMMA BlocksAreElements ==
  ASSUME NEW rbs \in Nat, NEW cell, NEW cfi \in 1..3, NEW Q, NEW e
  PROVE  (\E rb \in 0..(rbs - 1) : InBlock(e, cell, cfi, rb, LowerLeft(Q, rb), UpperLeft(Q, rb)))
           <=> ControlElement(e, rbs, cell, cfi, Q)
<1> DEFINE s == cell % 3
           In(rb) == InBlock(e, cell, cfi, rb, LowerLeft(Q, rb), UpperLeft(Q, rb))
           Free(l, k) == l = 0 => (k % 3) # s /\ k \div 6 \notin Q
           FreeAt(l, rb, sc) == l = 0 => (sc % 3) # s /\ IF sc < 6 THEN LowerLeft(Q, rb) ELSE UpperLeft(Q, rb)
<1>1. ASSUME NEW l \in 0..(cfi - 1), NEW rb \in 0..(rbs - 1), NEW sc \in 0..11
      PROVE  /\ 12 * rb + sc \in Subcarriers(rbs)
             /\ FreeAt(l, rb, sc) <=> Free(l, 12 * rb + sc)
  <2> DEFINE k == 12 * rb + sc
  <2>1. k \in Subcarriers(rbs)
    BY DEF Subcarriers, RbLen
  <2>2. (k % 3) = sc % 3 /\ k \div 6 = IF sc < 6 THEN 2 * rb ELSE 2 * rb + 1
    OBVIOUS
  <2> HIDE DEF k
  <2>3. FreeAt(l, rb, sc) <=> Free(l, k)
    BY <2>2 DEF LowerLeft, UpperLeft
  <2> QED
    BY <2>1, <2>3 DEF k
<1>2. ASSUME NEW rb \in 0..(rbs - 1), In(rb) PROVE ControlElement(e, rbs, cell, cfi, Q)
  <2>1. PICK l \in 0..(cfi - 1), sc \in 0..11 : e = <<l, 12 * rb + sc>> /\ FreeAt(l, rb, sc)
    BY <1>2, Zenon DEF InBlock
  <2> DEFINE k == 12 * rb + sc
  <2>2. k \in Subcarriers(rbs) /\ Free(l, k) /\ e = <<l, k>>
    BY <1>1, <2>1, Zenon
  <2> HIDE DEF k
  <2> QED
    BY <2>2, Zenon DEF ControlElement
<1>3. ASSUME ControlElement(e, rbs, cell, cfi, Q) PROVE \E rb \in 0..(rbs - 1) : In(rb)
  <2>1. PICK l \in 0..(cfi - 1), k \in Subcarriers(rbs) : e = <<l, k>> /\ Free(l, k)
    BY <1>3, Zenon DEF ControlElement
  <2> DEFINE rb == k \div 12
             sc == k % 12
  <2>2. rb \in 0..(rbs - 1) /\ sc \in 0..11 /\ k = 12 * rb + sc
    BY DEF Subcarriers, RbLen
  <2> HIDE DEF rb, sc
  <2>3. FreeAt(l, rb, sc) /\ e = <<l, 12 * rb + sc>>
    BY <1>1, <2>1, <2>2, Zenon
  <2>4. In(rb)
    BY <2>2, <2>3, Zenon DEF InBlock
  <2> QED
    BY <2>2, <2>4, Zenon
<1> QED
  BY <1>2, <1>3, Zenon

\* ControlIsTiled for these results
ControlTiled(in, out) ==
    LET quads == out.quads
        mark == out.reserve
        read == UNION {ToSet(quads[i]) : i \in DOMAIN quads}
        told == {0} \X (mark.one \cup mark.two)
        refs == {0} \X {k \in Subcarriers(in.rbs) : RefOfTwo(in.cell, k)}
        GroupPlace(q) == in.cfi * (IF q[1][1] = 0 THEN 6 * (q[1][2] \div 6) ELSE 4 * (q[1][2] \div 4)) + q[1][1]
    IN /\ \A i \in DOMAIN quads : Len(quads[i]) = 4
       /\ Increasing(quads, GroupPlace)
       /\ 4 * Len(quads) = PdcchLen(in.rbs, in.cfi, in.ng)
       /\ 4 * Len(quads) = Cardinality(read)
       /\ Cardinality(mark.one) = PcfichSymbols
       /\ Cardinality(mark.two) = 12 * PhichGroups(in.rbs, in.ng)
       /\ mark.one \cap mark.two = {}
       /\ read \cap told = {} /\ (read \cup told) \cap refs = {}
       /\ read \cup told \cup refs = (0..(in.cfi - 1)) \X Subcarriers(in.rbs)
       /\ out.again = mark

\* What ReadControl sends
ControlSent(in) ==
  LET once == ControlMark(in.rbs, in.cell, in.ng)
  IN [quads |-> Extract(in.rbs, in.cell, in.cfi, once), reserve |-> once,
      again |-> MarkPhich(once, in.rbs, in.cell, in.ng)]

\* Every element of the region is read, taken by another channel, or a reference.
ElementsTiled(read, told, refs, all) ==
  read \cap told = {} /\ (read \cup told) \cap refs = {} /\ read \cup told \cup refs = all

\* What is read, what is marked and the references are the whole region.
LEMMA ElementsAreTiled ==
  ASSUME NEW rbs \in Nat, NEW cell \in CellIds, NEW cfi \in 1..3, NEW Q, Q \subseteq 0..(2 * rbs - 1), NEW read,
         \A e : e \in read <=> ControlElement(e, rbs, cell, cfi, Q)
  PROVE  ElementsTiled(read, {0} \X HalvesMarked(Q, cell), {0} \X {k \in Subcarriers(rbs) : RefOfTwo(cell, k)},
                       (0..(cfi - 1)) \X Subcarriers(rbs))
<1> DEFINE M == HalvesMarked(Q, cell)
           S == Subcarriers(rbs)
           s == cell % 3
           R == {k \in S : RefOfTwo(cell, k)}
           told == {0} \X M
           refs == {0} \X R
           all == (0..(cfi - 1)) \X S
<1>1. S = 0..(12 * rbs - 1)
  BY DEF Subcarriers, RbLen
<1>2. M \subseteq Nat /\ \A k \in Nat : k \in M <=> k \div 6 \in Q /\ (k % 3) # s
  <2>1. Q \subseteq Nat
    OBVIOUS
  <2> QED
    BY <2>1, MarkedIs, Zenon
<1> HIDE DEF M, S
<1>3. M \subseteq S
  <2>1. ASSUME NEW k \in M PROVE k \in S
    <3>1. k \in Nat /\ k \div 6 \in Q
      BY <1>2
    <3>2. k \div 6 <= 2 * rbs - 1
      BY <3>1
    <3> QED
      BY <1>1, <3>1, <3>2
  <2> QED
    BY <2>1
<1>4. \A k \in S : k \in Nat /\ (k \in R <=> (k % 3) = s)
  BY <1>1 DEF RefOfTwo
<1> HIDE DEF R
<1>5. \A l, k : <<l, k>> \in read <=> l \in 0..(cfi - 1) /\ k \in S /\ (l = 0 => (k % 3) # s /\ k \div 6 \notin Q)
  <2> TAKE l, k
  <2> DEFINE Free(m, j) == m = 0 => (j % 3) # s /\ j \div 6 \notin Q
  <2>1. <<l, k>> \in read <=> ControlElement(<<l, k>>, rbs, cell, cfi, Q)
    OBVIOUS
  <2>2. ControlElement(<<l, k>>, rbs, cell, cfi, Q)
          <=> \E m \in 0..(cfi - 1), j \in S : <<l, k>> = <<m, j>> /\ Free(m, j)
    BY Zenon DEF ControlElement, S
  <2> HIDE DEF Free
  <2>3. (\E m \in 0..(cfi - 1), j \in S : <<l, k>> = <<m, j>> /\ Free(m, j)) <=> l \in 0..(cfi - 1) /\ k \in S /\ Free(l, k)
    OBVIOUS
  <2> QED
    BY <2>1, <2>2, <2>3, Zenon DEF Free
<1>6. \A e \in read : \E l \in 0..(cfi - 1), k \in S : e = <<l, k>>
  BY Zenon DEF ControlElement, S
<1>17. \A e \in read : \E l, k : e = <<l, k>>
  BY <1>6, Zenon
<1>7. R \subseteq S
  BY DEF R
<1>8. \A l, k : <<l, k>> \in told <=> l = 0 /\ k \in S /\ (k % 3) # s /\ k \div 6 \in Q
  BY <1>2, <1>3, <1>4
<1>9. \A l, k : <<l, k>> \in refs <=> l = 0 /\ k \in S /\ (k % 3) = s
  BY <1>4, <1>7
<1>10. \A l, k : <<l, k>> \in all <=> l \in 0..(cfi - 1) /\ k \in S
  OBVIOUS
<1>11. (\A e \in told : \E l, k : e = <<l, k>>) /\ (\A e \in refs : \E l, k : e = <<l, k>>)
       /\ (\A e \in all : \E l, k : e = <<l, k>>)
  OBVIOUS
<1>12. 0 \in 0..(cfi - 1)
  OBVIOUS
<1> HIDE DEF s, told, refs, all
<1>13. read \cap told = {}
  BY <1>5, <1>8, <1>11
<1>14. (read \cup told) \cap refs = {}
  BY <1>5, <1>8, <1>9, <1>11
<1>15. \A l, k : <<l, k>> \in all <=> <<l, k>> \in read \/ <<l, k>> \in told \/ <<l, k>> \in refs
  BY <1>5, <1>8, <1>9, <1>10, <1>12
<1>16. read \cup told \cup refs = all
  <2>1. \A e \in all : e \in read \/ e \in told \/ e \in refs
    <3> TAKE e \in all
    <3>1. PICK l, k : e = <<l, k>>
      BY <1>11, Zenon
    <3> QED
      BY <1>15, <3>1
  <2>2. \A e : e \in read \/ e \in told \/ e \in refs => e \in all
    <3> SUFFICES ASSUME NEW e, e \in read \/ e \in told \/ e \in refs PROVE e \in all
      OBVIOUS
    <3>1. PICK l, k : e = <<l, k>>
      BY <1>11, <1>17, Zenon
    <3> QED
      BY <1>15, <3>1
  <2> QED
    BY <2>1, <2>2
<1> QED
  BY <1>13, <1>14, <1>16, Zenon DEF ElementsTiled, M, S, R, told, refs, all

ControlTiledFor(rbs, cell, cfi, ng, quads, mark, again) ==
  LET told == {0} \X (mark.one \cup mark.two)
      refs == {0} \X {k \in Subcarriers(rbs) : RefOfTwo(cell, k)}
  IN /\ \A i \in DOMAIN quads : Len(quads[i]) = 4
     /\ \A i \in 1..(Len(quads) - 1) :
          cfi * (IF quads[i][1][1] = 0 THEN 6 * (quads[i][1][2] \div 6) ELSE 4 * (quads[i][1][2] \div 4)) + quads[i][1][1]
          < cfi * (IF quads[i + 1][1][1] = 0 THEN 6 * (quads[i + 1][1][2] \div 6) ELSE 4 * (quads[i + 1][1][2] \div 4))
              + quads[i + 1][1][1]
     /\ 4 * Len(quads) = PdcchLen(rbs, cfi, ng)
     /\ 4 * Len(quads) = Cardinality(ReadOf(quads))
     /\ Cardinality(mark.one) = PcfichSymbols
     /\ Cardinality(mark.two) = 12 * PhichGroups(rbs, ng)
     /\ mark.one \cap mark.two = {}
     /\ ReadOf(quads) \cap told = {} /\ (ReadOf(quads) \cup told) \cap refs = {}
     /\ ReadOf(quads) \cup told \cup refs = (0..(cfi - 1)) \X Subcarriers(rbs)
     /\ again = mark

\* What it is for a control region to be tiled
LEMMA ControlTiledIs ==
  ASSUME NEW in, NEW out
  PROVE  ControlTiled(in, out) <=> ControlTiledFor(in.rbs, in.cell, in.cfi, in.ng, out.quads, out.reserve, out.again)
  BY Zenon DEF ControlTiled, ControlTiledFor, Increasing, ReadOf

\* A control region is tiled by what is read and what is marked.
LEMMA ControlIsRead ==
  ASSUME NEW in, in.rbs \in Bandwidths, in.cell \in CellIds, in.cfi \in 1..3, in.ng \in 0..3
  PROVE  ControlTiled(in, ControlSent(in))
<1> DEFINE rbs == in.rbs
           cell == in.cell
           cfi == in.cfi
           ng == in.ng
           g == PhichGroups(rbs, ng)
           mark == ControlMark(rbs, cell, ng)
           Q == TakenHalves(rbs, cell, ng)
           quads == Extract(rbs, cell, cfi, mark)
           out == ControlSent(in)
           n == Len(quads)
           read == ReadOf(quads)
           GroupPlace(q) == cfi * (IF q[1][1] = 0 THEN 6 * (q[1][2] \div 6) ELSE 4 * (q[1][2] \div 4)) + q[1][1]
           key == QuadKey(cfi)
<1>1. rbs \in Bandwidths /\ rbs \in Nat /\ cell \in CellIds /\ cfi \in 1..3 /\ ng \in 0..3
  BY DEF Bandwidths
<1>2. out.quads = quads /\ out.reserve = mark /\ out.again = MarkPhich(mark, rbs, cell, ng)
  BY DEF ControlSent
<1> HIDE DEF rbs, cell, cfi, ng
<1>3. MarksApart(mark, rbs, cell, ng)
  BY <1>1, ControlIsMarked
<1> HIDE DEF mark, out
<1>4. /\ Cardinality(mark.one) = PcfichSymbols /\ Cardinality(mark.two) = 12 * g /\ mark.one \cap mark.two = {}
      /\ MarkPhich(mark, rbs, cell, ng) = mark
      /\ mark.one \cup mark.two = HalvesMarked(Q, cell)
      /\ Q \subseteq 0..(2 * rbs - 1) /\ IsFiniteSet(Q) /\ Cardinality(Q) = 4 + 3 * g
  BY <1>3, Zenon DEF MarksApart
<1> HIDE DEF Q, quads
<1>5. HalvesAreMarked(mark, Q, cell)
  <2>1. Q \subseteq Nat
    BY <1>4
  <2> QED
    BY <1>4, <2>1, Zenon DEF HalvesAreMarked
<1>6. QuadsListed(quads, rbs, cell, cfi, Q)
  BY <1>1, <1>5, QuadsAreListed DEF quads
<1>7. /\ quads \in Seq(Quads) /\ Climbs(quads, key)
      /\ \A i \in 1..n : IsGroup(quads[i], cell, cfi)
      /\ \A e : (\E i \in 1..n : e \in ToSet(quads[i]))
                  <=> \E rb \in 0..(rbs - 1) : InBlock(e, cell, cfi, rb, LowerLeft(Q, rb), UpperLeft(Q, rb))
      /\ n = 3 * (cfi - 1) * rbs + Cardinality(FreeTo(Q, rbs))
  BY <1>6, Zenon DEF QuadsListed
<1>8. DOMAIN quads = 1..n /\ n \in Nat
  BY <1>7
<1>9. Cardinality(read) = 4 * n
  BY <1>1, <1>7, QuadsCount4
<1>10. \A e : e \in read <=> ControlElement(e, rbs, cell, cfi, Q)
  <2>1. \A e : e \in read <=> \E i \in 1..n : e \in ToSet(quads[i])
    BY <1>8 DEF ReadOf
  <2>2. \A e : (\E rb \in 0..(rbs - 1) : InBlock(e, cell, cfi, rb, LowerLeft(Q, rb), UpperLeft(Q, rb)))
                 <=> ControlElement(e, rbs, cell, cfi, Q)
    BY <1>1, BlocksAreElements
  <2> QED
    BY <1>7, <2>1, <2>2, Zenon
<1>11. ElementsTiled(read, {0} \X (mark.one \cup mark.two), {0} \X {k \in Subcarriers(rbs) : RefOfTwo(cell, k)},
                     (0..(cfi - 1)) \X Subcarriers(rbs))
  <2> HIDE DEF read
  <2>1. ElementsTiled(read, {0} \X HalvesMarked(Q, cell), {0} \X {k \in Subcarriers(rbs) : RefOfTwo(cell, k)},
                     (0..(cfi - 1)) \X Subcarriers(rbs))
    BY <1>1, <1>4, <1>10, ElementsAreTiled, Zenon
  <2> QED
    BY <1>4, <2>1, Zenon
<1>12. 4 * n = PdcchLen(rbs, cfi, ng)
  <2> DEFINE c == Cardinality(Q)
             x == (cfi - 1) * rbs
  <2>1. g \in Nat
    <3>1. ng \in 0..3
      BY <1>1
    <3> QED
      BY <1>1, GroupsOfBand DEF GroupsFit
  <2>2. Cardinality(FreeTo(Q, rbs)) = 2 * rbs - (4 + 3 * g)
    <3>1. 4 + 3 * g \in Nat
      BY <2>1
    <3> HIDE DEF g
    <3> QED
      BY <1>1, <1>4, <3>1, FreeCounts
  <2>3. PdcchLen(rbs, cfi, ng) = 4 * QuadCount(rbs, cfi, ng)
    BY <1>1, QuadsCount
  <2>4. QuadCount(rbs, cfi, ng) = 2 * rbs - 4 - 3 * g + (cfi - 1) * (3 * rbs)
    BY Zenon DEF QuadCount, g
  <2> HIDE DEF g
  <2>5. cfi = 1 \/ cfi = 2 \/ cfi = 3
    BY <1>1
  <2>6. (cfi - 1) * (3 * rbs) = 3 * (cfi - 1) * rbs /\ 3 * (cfi - 1) * rbs \in Nat
    BY <1>1, <2>5
  <2> DEFINE y == 3 * (cfi - 1) * rbs
             z == (cfi - 1) * (3 * rbs)
             f == Cardinality(FreeTo(Q, rbs))
             k == QuadCount(rbs, cfi, ng)
  <2>7. n = y + f /\ f = 2 * rbs - (4 + 3 * g) /\ k = 2 * rbs - 4 - 3 * g + z /\ z = y /\ y \in Nat
        /\ PdcchLen(rbs, cfi, ng) = 4 * k
    BY <1>7, <2>2, <2>3, <2>4, <2>6, Zenon
  <2> HIDE DEF y, z, f, k, n
  <2>8. n = k
    BY <1>1, <2>1, <2>7
  <2> QED
    BY <2>7, <2>8, Zenon
<1>13. \A i \in 1..n : quads[i] \in Quads /\ Len(quads[i]) = 4 /\ key[quads[i]] = GroupPlace(quads[i])
  <2>1. \A q \in Quads : Len(q) = 4 /\ key[q] = GroupPlace(q)
    BY Zenon DEF Quads, QuadKey, UnitOf
  <2>2. \A i \in 1..n : quads[i] \in Quads
    BY <1>7, <1>8
  <2> HIDE DEF GroupPlace, key
  <2> QED
    BY <2>1, <2>2, Zenon
<1>14. \A i \in 1..(n - 1) : GroupPlace(quads[i]) < GroupPlace(quads[i + 1])
  <2> HIDE DEF GroupPlace
  <2>1. \A i \in 1..(n - 1) : i \in 1..n /\ i + 1 \in 1..n /\ i < i + 1
    BY <1>8
  <2> QED
    BY <1>7, <1>13, <2>1, Zenon DEF Climbs
<1>15. /\ read \cap ({0} \X (mark.one \cup mark.two)) = {}
       /\ (read \cup ({0} \X (mark.one \cup mark.two))) \cap ({0} \X {k \in Subcarriers(rbs) : RefOfTwo(cell, k)}) = {}
       /\ read \cup ({0} \X (mark.one \cup mark.two)) \cup ({0} \X {k \in Subcarriers(rbs) : RefOfTwo(cell, k)})
            = (0..(cfi - 1)) \X Subcarriers(rbs)
  BY <1>11, Zenon DEF ElementsTiled
<1>16. \A i \in DOMAIN quads : Len(quads[i]) = 4
  BY <1>8, <1>13, Zenon
<1>17. ControlTiledFor(rbs, cell, cfi, ng, quads, mark, MarkPhich(mark, rbs, cell, ng))
  <2> DEFINE told == {0} \X (mark.one \cup mark.two)
             refs == {0} \X {k \in Subcarriers(rbs) : RefOfTwo(cell, k)}
             all == (0..(cfi - 1)) \X Subcarriers(rbs)
             again == MarkPhich(mark, rbs, cell, ng)
  <2>1. read \cap told = {} /\ (read \cup told) \cap refs = {} /\ read \cup told \cup refs = all
    BY <1>15, Zenon
  <2>2. again = mark
    BY <1>4, Zenon
  <2> HIDE DEF again, all, refs, told, read
  <2>3. ControlTiledFor(rbs, cell, cfi, ng, quads, mark, again)
    BY <1>4, <1>9, <1>12, <1>14, <1>16, <2>1, <2>2, Zenon DEF ControlTiledFor, told, refs, all, read, g
  <2> QED
    BY <2>3, Zenon DEF again
<1>18. ControlTiled(in, out) <=> ControlTiledFor(rbs, cell, cfi, ng, out.quads, out.reserve, out.again)
  BY ControlTiledIs, Zenon DEF rbs, cell, cfi, ng
<1>19. ControlTiled(in, out)
  BY <1>2, <1>17, <1>18, Zenon
<1> QED
  BY <1>19, Zenon DEF out

-----------------------------------------------------------------------------
(* A pair gives back its symbols.                                          *)

Complex == Int \X Int
Energy(h) == h[1] * h[1] + h[2] * h[2]
Scaled(e, x) == Times(<<e, 0>>, x)

\* What an antenna receives of the pair x from two antennas, and from the first
ReceivedOfTwo(h, x) ==
  <<Plus(Times(h[1], x[1]), Minus(Times(h[2], Conj(x[2])))), Plus(Times(h[1], x[2]), Times(h[2], Conj(x[1])))>>
ReceivedOfOne(h, x) == <<Times(h[1], x[1]), Times(h[1], x[2])>>

\* Parts of complex numbers
LEMMA ComplexParts ==
  ASSUME NEW a, NEW b, NEW c, NEW d
  PROVE  /\ Times(<<a, b>>, <<c, d>>) = <<a * c - b * d, a * d + b * c>>
         /\ Plus(<<a, b>>, <<c, d>>) = <<a + c, b + d>>
         /\ Minus(<<a, b>>) = <<-a, -b>> /\ Conj(<<a, b>>) = <<a, -b>>
  BY DEF Times, Plus, Minus, Conj

\* The sums of products of one antenna.
LEMMA ProductsCancel ==
  ASSUME NEW p \in Int, NEW q \in Int, NEW u \in Int, NEW v \in Int,
         NEW a \in Int, NEW b \in Int, NEW c \in Int, NEW d \in Int,
         NEW A \in Int, NEW B \in Int, NEW C \in Int, NEW D \in Int,
         A = p * a - q * b - (u * c + v * d),
         B = p * b + q * a - (v * c - u * d),
         C = p * c - q * d + (u * a + v * b),
         D = p * d + q * c + (v * a - u * b)
  PROVE  /\ A * p + B * q + (C * u + D * v) = (p * p + q * q + (u * u + v * v)) * a
         /\ B * p - A * q + (C * v - D * u) = (p * p + q * q + (u * u + v * v)) * b
         /\ C * p + D * q - (A * u + B * v) = (p * p + q * q + (u * u + v * v)) * c
         /\ D * p - C * q - (A * v - B * u) = (p * p + q * q + (u * u + v * v)) * d
<1>1. A * p + B * q + (C * u + D * v) = (p * p + q * q + (u * u + v * v)) * a
  OBVIOUS
<1>2. B * p - A * q + (C * v - D * u) = (p * p + q * q + (u * u + v * v)) * b
  OBVIOUS
<1>3. C * p + D * q - (A * u + B * v) = (p * p + q * q + (u * u + v * v)) * c
  OBVIOUS
<1>4. D * p - C * q - (A * v - B * u) = (p * p + q * q + (u * u + v * v)) * d
  OBVIOUS
<1> QED
  BY <1>1, <1>2, <1>3, <1>4

\* One antenna gives back a pair that two antennas have sent.
LEMMA OneAntennaOfTwo ==
  ASSUME NEW h \in Complex \X Complex, NEW x \in Complex \X Complex
  PROVE  LET r == ReceivedOfTwo(h, x)
             e == Energy(h[1]) + Energy(h[2])
         IN /\ Plus(Times(r[1], Conj(h[1])), Times(Conj(r[2]), h[2])) = Scaled(e, x[1])
            /\ Plus(Times(r[2], Conj(h[1])), Minus(Times(Conj(r[1]), h[2]))) = Scaled(e, x[2])
<1>1. PICK p \in Int, q \in Int, u \in Int, v \in Int : h = <<<<p, q>>, <<u, v>>>>
  BY DEF Complex
<1>2. PICK a \in Int, b \in Int, c \in Int, d \in Int : x = <<<<a, b>>, <<c, d>>>>
  BY DEF Complex
<1> DEFINE A == p * a - q * b - (u * c + v * d)
           B == p * b + q * a - (v * c - u * d)
           C == p * c - q * d + (u * a + v * b)
           D == p * d + q * c + (v * a - u * b)
           e == p * p + q * q + (u * u + v * v)
           r == ReceivedOfTwo(h, x)
<1>3. A \in Int /\ B \in Int /\ C \in Int /\ D \in Int /\ e \in Int
  OBVIOUS
<1>4. r[1] = <<A, B>> /\ r[2] = <<C, D>>
  <2>1. Times(<<p, q>>, <<a, b>>) = <<p * a - q * b, p * b + q * a>>
    BY ComplexParts
  <2>2. Times(<<p, q>>, <<c, d>>) = <<p * c - q * d, p * d + q * c>>
    BY ComplexParts
  <2>3. Times(<<u, v>>, <<c, -d>>) = <<u * c - v * (-d), u * (-d) + v * c>>
    BY ComplexParts
  <2>4. Times(<<u, v>>, <<a, -b>>) = <<u * a - v * (-b), u * (-b) + v * a>>
    BY ComplexParts
  <2>5. Conj(<<c, d>>) = <<c, -d>> /\ Conj(<<a, b>>) = <<a, -b>>
    BY ComplexParts
  <2>6. Minus(<<u * c - v * (-d), u * (-d) + v * c>>) = <<-(u * c - v * (-d)), -(u * (-d) + v * c)>>
    BY ComplexParts
  <2>7. r[1] = <<p * a - q * b + -(u * c - v * (-d)), p * b + q * a + -(u * (-d) + v * c)>>
    <3>1. r[1] = Plus(<<p * a - q * b, p * b + q * a>>, <<-(u * c - v * (-d)), -(u * (-d) + v * c)>>)
      BY <1>1, <1>2, <2>1, <2>3, <2>5, <2>6 DEF ReceivedOfTwo
    <3> QED
      BY <3>1, ComplexParts
  <2>8. r[2] = <<p * c - q * d + (u * a - v * (-b)), p * d + q * c + (u * (-b) + v * a)>>
    BY <1>1, <1>2, <2>2, <2>4, <2>5, ComplexParts DEF ReceivedOfTwo
  <2>9. /\ p * a - q * b + -(u * c - v * (-d)) = A
        /\ p * b + q * a + -(u * (-d) + v * c) = B
        /\ p * c - q * d + (u * a - v * (-b)) = C
        /\ p * d + q * c + (u * (-b) + v * a) = D
    OBVIOUS
  <2> QED
    BY <2>7, <2>8, <2>9
<1>5. Energy(h[1]) + Energy(h[2]) = e
  BY <1>1 DEF Energy
<1>6. /\ A * p + B * q + (C * u + D * v) = e * a
      /\ B * p - A * q + (C * v - D * u) = e * b
      /\ C * p + D * q - (A * u + B * v) = e * c
      /\ D * p - C * q - (A * v - B * u) = e * d
  BY ProductsCancel
<1> HIDE DEF A, B, C, D, e, r
<1>7. Scaled(e, x[1]) = <<e * a, e * b>> /\ Scaled(e, x[2]) = <<e * c, e * d>>
  <2>1. Times(<<e, 0>>, <<a, b>>) = <<e * a - 0 * b, e * b + 0 * a>>
    BY ComplexParts
  <2>2. Times(<<e, 0>>, <<c, d>>) = <<e * c - 0 * d, e * d + 0 * c>>
    BY ComplexParts
  <2>3. e * a \in Int /\ e * b \in Int /\ e * c \in Int /\ e * d \in Int
    BY <1>3
  <2>4. e * a - 0 * b = e * a /\ e * b + 0 * a = e * b /\ e * c - 0 * d = e * c /\ e * d + 0 * c = e * d
    BY <2>3
  <2> QED
    BY <1>2, <2>1, <2>2, <2>4 DEF Scaled
<1>8. Plus(Times(r[1], Conj(h[1])), Times(Conj(r[2]), h[2])) = <<e * a, e * b>>
  <2>1. Times(<<A, B>>, <<p, -q>>) = <<A * p - B * (-q), A * (-q) + B * p>>
    BY ComplexParts
  <2>2. Times(<<C, -D>>, <<u, v>>) = <<C * u - (-D) * v, C * v + (-D) * u>>
    BY ComplexParts
  <2>3. Conj(<<p, q>>) = <<p, -q>> /\ Conj(<<C, D>>) = <<C, -D>>
    BY ComplexParts
  <2>4. Plus(Times(r[1], Conj(h[1])), Times(Conj(r[2]), h[2]))
          = <<A * p - B * (-q) + (C * u - (-D) * v), A * (-q) + B * p + (C * v + (-D) * u)>>
    BY <1>1, <1>4, <2>1, <2>2, <2>3, ComplexParts
  <2>5. /\ A * p - B * (-q) + (C * u - (-D) * v) = A * p + B * q + (C * u + D * v)
        /\ A * (-q) + B * p + (C * v + (-D) * u) = B * p - A * q + (C * v - D * u)
    BY <1>3
  <2> QED
    BY <1>6, <2>4, <2>5
<1>9. Plus(Times(r[2], Conj(h[1])), Minus(Times(Conj(r[1]), h[2]))) = <<e * c, e * d>>
  <2>1. Times(<<C, D>>, <<p, -q>>) = <<C * p - D * (-q), C * (-q) + D * p>>
    BY ComplexParts
  <2>2. Times(<<A, -B>>, <<u, v>>) = <<A * u - (-B) * v, A * v + (-B) * u>>
    BY ComplexParts
  <2>3. Conj(<<p, q>>) = <<p, -q>> /\ Conj(<<A, B>>) = <<A, -B>>
    BY ComplexParts
  <2>4. Minus(<<A * u - (-B) * v, A * v + (-B) * u>>) = <<-(A * u - (-B) * v), -(A * v + (-B) * u)>>
    BY ComplexParts
  <2>5. Plus(Times(r[2], Conj(h[1])), Minus(Times(Conj(r[1]), h[2])))
          = <<C * p - D * (-q) + -(A * u - (-B) * v), C * (-q) + D * p + -(A * v + (-B) * u)>>
    <3>1. Plus(Times(r[2], Conj(h[1])), Minus(Times(Conj(r[1]), h[2])))
            = Plus(<<C * p - D * (-q), C * (-q) + D * p>>, <<-(A * u - (-B) * v), -(A * v + (-B) * u)>>)
      BY <1>1, <1>4, <2>1, <2>2, <2>3, <2>4
    <3> QED
      BY <3>1, ComplexParts
  <2>6. /\ C * p - D * (-q) + -(A * u - (-B) * v) = C * p + D * q - (A * u + B * v)
        /\ C * (-q) + D * p + -(A * v + (-B) * u) = D * p - C * q - (A * v - B * u)
    BY <1>3
  <2> QED
    BY <1>6, <2>5, <2>6
<1> QED
  BY <1>5, <1>7, <1>8, <1>9 DEF r

\* It gives back what the first antenna alone has sent.
LEMMA OneAntennaOfOne ==
  ASSUME NEW h \in Complex, NEW x \in Complex
  PROVE  Times(Times(h, x), Conj(h)) = Scaled(Energy(h), x)
<1>1. PICK p \in Int, q \in Int, a \in Int, b \in Int : h = <<p, q>> /\ x = <<a, b>>
  BY DEF Complex
<1> DEFINE A == p * a - q * b
           B == p * b + q * a
           e == p * p + q * q
<1>2. A \in Int /\ B \in Int /\ e \in Int /\ Energy(h) = e
  BY <1>1 DEF Energy
<1>3. Times(h, x) = <<A, B>> /\ Conj(h) = <<p, -q>>
  BY <1>1, ComplexParts
<1>4. A * p - B * (-q) = e * a /\ A * (-q) + B * p = e * b
  OBVIOUS
<1> HIDE DEF A, B, e
<1>5. Times(<<A, B>>, <<p, -q>>) = <<A * p - B * (-q), A * (-q) + B * p>>
  BY ComplexParts
<1>6. Times(<<e, 0>>, <<a, b>>) = <<e * a - 0 * b, e * b + 0 * a>>
  BY ComplexParts
<1>7. e * a - 0 * b = e * a /\ e * b + 0 * a = e * b
  BY <1>2
<1> QED
  BY <1>1, <1>2, <1>3, <1>4, <1>5, <1>6, <1>7 DEF Scaled

\* Energies add up.
LEMMA ScalesAdd ==
  ASSUME NEW e \in Int, NEW f \in Int, NEW x \in Complex
  PROVE  Plus(Scaled(e, x), Scaled(f, x)) = Scaled(e + f, x)
<1>1. PICK a \in Int, b \in Int : x = <<a, b>>
  BY DEF Complex
<1>2. Times(<<e, 0>>, <<a, b>>) = <<e * a - 0 * b, e * b + 0 * a>>
  BY ComplexParts
<1>3. Times(<<f, 0>>, <<a, b>>) = <<f * a - 0 * b, f * b + 0 * a>>
  BY ComplexParts
<1>4. Times(<<e + f, 0>>, <<a, b>>) = <<(e + f) * a - 0 * b, (e + f) * b + 0 * a>>
  BY ComplexParts
<1>5. Plus(<<e * a - 0 * b, e * b + 0 * a>>, <<f * a - 0 * b, f * b + 0 * a>>)
        = <<e * a - 0 * b + (f * a - 0 * b), e * b + 0 * a + (f * b + 0 * a)>>
  BY ComplexParts
<1>6. /\ e * a - 0 * b + (f * a - 0 * b) = (e + f) * a - 0 * b
      /\ e * b + 0 * a + (f * b + 0 * a) = (e + f) * b + 0 * a
  OBVIOUS
<1> QED
  BY <1>1, <1>2, <1>3, <1>4, <1>5, <1>6 DEF Scaled

\* The output for a pair
PairOutput(in) ==
  LET r(a) == <<Plus(Times(in.h[a][1], in.x[1]), Minus(Times(in.h[a][2], Conj(in.x[2])))),
                Plus(Times(in.h[a][1], in.x[2]), Times(in.h[a][2], Conj(in.x[1])))>>
      h(a) == <<<<in.h[a][1], in.h[a][1]>>, <<in.h[a][2], in.h[a][2]>>>>
      alone(a) == <<Times(in.h[a][1], in.x[1]), Times(in.h[a][1], in.x[2])>>
  IN [two |-> UnprecodeTwo([a \in DOMAIN in.h |-> r(a)], [a \in DOMAIN in.h |-> h(a)]),
      one |-> UnprecodeOne([a \in DOMAIN in.h |-> alone(a)], [a \in DOMAIN in.h |-> h(a)[1]])]

\* What is added up over one or two antennas
AddUp(s) == IF Len(s) = 1 THEN s[1] ELSE Plus(s[1], s[2])

\* A pair comes back times the energy of its channels, from one antenna or two.
LEMMA PairsComeBack ==
  ASSUME NEW in \in PairInputs
  PROVE  LET out == PairOutput(in)
             Sum(f) == IF Len(f) = 1 THEN f[1] ELSE f[1] + f[2]
             all  == Sum([a \in DOMAIN in.h |-> Energy(in.h[a][1]) + Energy(in.h[a][2])])
             part == Sum([a \in DOMAIN in.h |-> Energy(in.h[a][1])])
         IN /\ out.two = <<Scaled(all, in.x[1]), Scaled(all, in.x[2])>>
            /\ out.one = <<Scaled(part, in.x[1]), Scaled(part, in.x[2])>>
<1> DEFINE out == PairOutput(in)
           x == in.x
           n == Len(in.h)
           Sum(f) == IF Len(f) = 1 THEN f[1] ELSE f[1] + f[2]
           e == [a \in 1..n |-> Energy(in.h[a][1]) + Energy(in.h[a][2])]
           f == [a \in 1..n |-> Energy(in.h[a][1])]
           r == [a \in 1..n |-> ReceivedOfTwo(in.h[a], x)]
           alone == [a \in 1..n |-> ReceivedOfOne(in.h[a], x)]
           h == [a \in 1..n |-> <<<<in.h[a][1], in.h[a][1]>>, <<in.h[a][2], in.h[a][2]>>>>]
           g == [a \in 1..n |-> <<in.h[a][1], in.h[a][1]>>]
<1>1. /\ x \in Complex \X Complex /\ in.h \in Seq(Complex \X Complex) /\ n \in {1, 2}
  BY PairAssumption DEF Complex
<1>2. DOMAIN in.h = 1..n
  BY <1>1
<1>3. \A a \in 1..n : in.h[a] \in Complex \X Complex
  BY <1>1
<1>4. x[1] \in Complex /\ x[2] \in Complex /\ \A a \in 1..n : in.h[a][1] \in Complex /\ in.h[a][2] \in Complex
  BY <1>1, <1>3
<1>5. \A a \in 1..n : e[a] \in Int /\ f[a] \in Int
  <2>1. \A c \in Complex : Energy(c) \in Int
    BY DEF Complex, Energy
  <2> QED
    BY <1>4, <2>1
<1>6. \A a \in 1..n : /\ Plus(Times(r[a][1], Conj(in.h[a][1])), Times(Conj(r[a][2]), in.h[a][2])) = Scaled(e[a], x[1])
                      /\ Plus(Times(r[a][2], Conj(in.h[a][1])), Minus(Times(Conj(r[a][1]), in.h[a][2]))) = Scaled(e[a], x[2])
  BY <1>1, <1>3, OneAntennaOfTwo
<1>7. \A a \in 1..n : /\ Times(alone[a][1], Conj(in.h[a][1])) = Scaled(f[a], x[1])
                      /\ Times(alone[a][2], Conj(in.h[a][1])) = Scaled(f[a], x[2])
  BY <1>4, OneAntennaOfOne DEF ReceivedOfOne
<1>8. out.two = UnprecodeTwo(r, h) /\ out.one = UnprecodeOne(alone, g)
  BY <1>2 DEF PairOutput, ReceivedOfTwo, ReceivedOfOne
<1> DEFINE both == [a \in 1..n |-> Scaled(e[a], x[1])]
           others == [a \in 1..n |-> Scaled(e[a], x[2])]
           ones == [a \in 1..n |-> Scaled(f[a], x[1])]
           twos == [a \in 1..n |-> Scaled(f[a], x[2])]
<1>10. UnprecodeTwo(r, h) = <<AddUp(both), AddUp(others)>>
  <2>1. \A a \in 1..n : h[a][1][1] = in.h[a][1] /\ h[a][1][2] = in.h[a][1] /\ h[a][2][1] = in.h[a][2] /\ h[a][2][2] = in.h[a][2]
    OBVIOUS
  <2>2. DOMAIN r = 1..n
    OBVIOUS
  <2> HIDE DEF r, h, e, x
  <2>3. [a \in DOMAIN r |-> Plus(Times(r[a][1], Conj(h[a][1][1])), Times(Conj(r[a][2]), h[a][2][2]))] = both
    BY <1>6, <2>1, <2>2
  <2>4. [a \in DOMAIN r |-> Plus(Times(r[a][2], Conj(h[a][1][2])), Minus(Times(Conj(r[a][1]), h[a][2][1])))] = others
    BY <1>6, <2>1, <2>2
  <2> HIDE DEF both, others
  <2> QED
    BY <2>3, <2>4 DEF UnprecodeTwo, AddUp
<1>11. UnprecodeOne(alone, g) = <<AddUp(ones), AddUp(twos)>>
  <2>1. \A a \in 1..n : g[a][1] = in.h[a][1] /\ g[a][2] = in.h[a][1]
    OBVIOUS
  <2>2. DOMAIN alone = 1..n
    OBVIOUS
  <2> HIDE DEF alone, g, f, x
  <2>3. [a \in DOMAIN alone |-> Times(alone[a][1], Conj(g[a][1]))] = ones
    BY <1>7, <2>1, <2>2
  <2>4. [a \in DOMAIN alone |-> Times(alone[a][2], Conj(g[a][2]))] = twos
    BY <1>7, <2>1, <2>2
  <2> HIDE DEF ones, twos
  <2> QED
    BY <2>3, <2>4 DEF UnprecodeOne, AddUp
<1>12. ASSUME NEW w \in [1..n -> Int], NEW c \in Complex
       PROVE  AddUp([a \in 1..n |-> Scaled(w[a], c)]) = Scaled(Sum(w), c)
  <2>1. Len(w) = n /\ Len([a \in 1..n |-> Scaled(w[a], c)]) = n
    BY <1>1
  <2>2. CASE n = 1
    BY <2>1, <2>2 DEF AddUp
  <2>3. CASE n = 2
    <3>1. Plus(Scaled(w[1], c), Scaled(w[2], c)) = Scaled(w[1] + w[2], c)
      BY <2>3, ScalesAdd
    <3> QED
      BY <2>1, <2>3, <3>1 DEF AddUp
  <2> QED
    BY <1>1, <2>2, <2>3
<1>13. e \in [1..n -> Int] /\ f \in [1..n -> Int]
  BY <1>5
<1> HIDE DEF e, f
<1>14. /\ AddUp(both) = Scaled(Sum(e), x[1]) /\ AddUp(others) = Scaled(Sum(e), x[2])
       /\ AddUp(ones) = Scaled(Sum(f), x[1]) /\ AddUp(twos) = Scaled(Sum(f), x[2])
  BY <1>4, <1>12, <1>13
<1>15. /\ Sum(e) = Sum([a \in DOMAIN in.h |-> Energy(in.h[a][1]) + Energy(in.h[a][2])])
       /\ Sum(f) = Sum([a \in DOMAIN in.h |-> Energy(in.h[a][1])])
  BY <1>2 DEF e, f
<1> HIDE DEF Sum, out, both, others, ones, twos, r, h, alone, g
<1>16. out.two = <<Scaled(Sum(e), x[1]), Scaled(Sum(e), x[2])>> /\ out.one = <<Scaled(Sum(f), x[1]), Scaled(Sum(f), x[2])>>
  BY <1>8, <1>10, <1>11, <1>14
<1> QED
  BY <1>15, <1>16 DEF out, Sum

-----------------------------------------------------------------------------
(* References are looked for where they are sent.                          *)

\* What is used of a band's lengths
BandFits(rbs, sym, cp, cp0) ==
  /\ rbs \in Nat /\ sym \in Nat /\ cp \in Nat /\ cp0 \in Nat
  /\ rbs >= 6 /\ sym > 12 * rbs + 37 /\ cp0 >= cp
  /\ SlotLen(rbs) = cp0 + sym + 6 * (cp + sym)

\* A slot is the time of its seven symbols.
LEMMA BandsFit ==
  ASSUME NEW rbs \in Bandwidths
  PROVE  BandFits(rbs, SymLen(rbs), CpLen(rbs), Cp0Len(rbs))
<1>1. rbs \in {6, 15, 25, 50, 75, 100}
  BY DEF Bandwidths
<1>2. CASE rbs = 6
  BY <1>2 DEF BandFits, SymLen, CpLen, Cp0Len, SlotLen, Sixteenths
<1>3. CASE rbs = 15
  BY <1>3 DEF BandFits, SymLen, CpLen, Cp0Len, SlotLen, Sixteenths
<1>4. CASE rbs = 25
  BY <1>4 DEF BandFits, SymLen, CpLen, Cp0Len, SlotLen, Sixteenths
<1>5. CASE rbs = 50
  BY <1>5 DEF BandFits, SymLen, CpLen, Cp0Len, SlotLen, Sixteenths
<1>6. CASE rbs = 75
  BY <1>6 DEF BandFits, SymLen, CpLen, Cp0Len, SlotLen, Sixteenths
<1>7. CASE rbs = 100
  BY <1>7 DEF BandFits, SymLen, CpLen, Cp0Len, SlotLen, Sixteenths
<1> QED
  BY <1>1, <1>2, <1>3, <1>4, <1>5, <1>6, <1>7

\* A subcarrier is a block and a place in it.
LEMMA SubcarrierParts ==
  ASSUME NEW rbs \in Nat, NEW k \in Subcarriers(rbs)
  PROVE  /\ k \in Nat /\ k < 12 * rbs
         /\ k \div RbLen \in Nat /\ k \div RbLen < rbs /\ k % RbLen \in 0..11 /\ k = 12 * (k \div RbLen) + (k % RbLen)
<1>1. k \in Nat /\ k < 12 * rbs
  BY DEF Subcarriers, RbLen
<1>2. k \div 12 \in Nat /\ k % 12 \in 0..11 /\ k = 12 * (k \div 12) + (k % 12)
  BY <1>1
<1>3. k \div 12 < rbs
  BY <1>1, <1>2
<1> QED
  BY <1>1, <1>2, <1>3 DEF RbLen

\* The lowest block starts as far below the carrier as the band goes.
LEMMA LowestBlock ==
  ASSUME NEW rbs \in Bandwidths
  PROVE  RbPos(rbs, 0) = SymLen(rbs) - 6 * rbs
<1> DEFINE sym == SymLen(rbs)
<1>1. rbs \in Nat /\ rbs >= 6 /\ sym \in Nat
  BY BandsFit DEF BandFits
<1> HIDE DEF sym
<1>2. (rbs * 12) \div 2 = 6 * rbs /\ 0 < rbs \div 2
  BY <1>1
<1> QED
  BY <1>1, <1>2 DEF RbPos, LowerHalf, LowerPos, RbLen, sym

\* The bins of a block are those of its subcarriers.
LEMMA BinsAreBlocks ==
  ASSUME NEW rbs \in Bandwidths, NEW k \in Subcarriers(rbs)
  PROVE  RbBins(rbs, k \div RbLen)[k % RbLen] = BinOf(rbs, k)
<1> DEFINE sym == SymLen(rbs)
           rb == k \div RbLen
           sc == k % RbLen
<1>1. rbs \in Nat /\ rbs >= 6 /\ sym \in Nat
  BY BandsFit DEF BandFits
<1>2. k \in Nat /\ k < 12 * rbs /\ rb \in Nat /\ rb < rbs /\ sc \in 0..11 /\ k = 12 * rb + sc
  BY <1>1, SubcarrierParts
<1>3. RbBins(rbs, rb)[sc] = IF IsSplit(rbs, rb) /\ sc >= 6 THEN 1 + sc - 6 ELSE RbPos(rbs, rb) + sc
  BY <1>2 DEF RbBins, RbPosMid, RbLen
<1> HIDE DEF sym, rb, sc
<1>4. (rbs * 12) \div 2 = 6 * rbs
  BY <1>1
<1>5. RbPos(rbs, rb) = IF rb < rbs \div 2 \/ IsSplit(rbs, rb) THEN sym - 6 * rbs + rb * 12 ELSE 1 + rb * 12 - 6 * rbs
  BY <1>4 DEF RbPos, LowerPos, UpperPos, LowerHalf, RbLen, sym
<1>6. CASE IsSplit(rbs, rb)
  <2>1. 2 * rb + 1 = rbs
    BY <1>1, <1>2, <1>6 DEF IsSplit, LowerHalf
  <2> QED
    BY <1>1, <1>2, <1>3, <1>5, <1>6, <2>1 DEF BinOf, sym, rb, sc
<1>7. CASE ~IsSplit(rbs, rb)
  <2>1. (rb < rbs \div 2) <=> (k < 6 * rbs)
    BY <1>1, <1>2, <1>7 DEF IsSplit, LowerHalf
  <2> QED
    BY <1>1, <1>2, <1>3, <1>5, <1>7, <2>1 DEF BinOf, sym, rb, sc
<1> QED
  BY <1>6, <1>7 DEF rb, sc

\* The bin of a reference is that of its subcarrier.
LEMMA PilotBinIs ==
  ASSUME NEW rbs \in Bandwidths, NEW k \in Subcarriers(rbs)
  PROVE  PilotBin(rbs, k) = BinOf(rbs, k)
<1> DEFINE sym == SymLen(rbs)
<1>1. rbs \in Nat /\ rbs >= 6 /\ sym \in Nat /\ k \in Nat
  BY BandsFit, SubcarrierParts DEF BandFits
<1>2. (rbs * 12) \div 2 = 6 * rbs /\ RbPos(rbs, 0) = sym - 6 * rbs
  BY <1>1, LowestBlock
<1> HIDE DEF sym
<1> QED
  BY <1>1, <1>2 DEF PilotBin, BinOf, RbPosMid, RbLen, sym

\* The place among six of the references of an antenna
RefPlace(cell, p, l) == (V(p, l) + cell) % 6

\* References lie in one place of every six.
LEMMA ReferencePlaces ==
  ASSUME NEW rbs \in Bandwidths, NEW cell \in CellIds, NEW p \in {0, 1}, NEW l \in {0, 4}
  PROVE  /\ RefPlace(cell, p, l) \in 0..5 /\ DOMAIN RefSubcarriers(rbs, cell, p, l) = 0..(2 * rbs - 1)
         /\ \A m \in 0..(2 * rbs - 1) : /\ RefSubcarriers(rbs, cell, p, l)[m] = 6 * m + RefPlace(cell, p, l)
                                        /\ 6 * m + RefPlace(cell, p, l) \in Subcarriers(rbs)
<1> DEFINE v == RefPlace(cell, p, l)
<1>1. cell \in Nat /\ V(p, l) \in {0, 3} /\ rbs \in Nat
  BY DEF CellIds, V, Bandwidths
<1>2. (V(p, l) + (cell % 6)) % 6 = v /\ v \in 0..5
  BY <1>1 DEF RefPlace
<1> HIDE DEF v
<1>3. \A m \in 0..(2 * rbs - 1) : 6 * m + v \in Subcarriers(rbs)
  BY <1>1, <1>2 DEF Subcarriers, RbLen
<1> QED
  BY <1>2, <1>3 DEF RefSubcarriers, v

\* A symbol is transformed within its own time.
LEMMA SymbolsAreApart ==
  ASSUME NEW rbs \in Bandwidths, NEW l \in SlotSymbols
  PROVE  /\ FftInput(rbs, l) \subseteq SymbolStart(rbs, l)..(SymbolStart(rbs, l + 1) - 1)
         /\ Cardinality(FftInput(rbs, l)) = SymLen(rbs)
<1> DEFINE sym == SymLen(rbs)
           cp == CpLen(rbs)
           cp0 == Cp0Len(rbs)
           step == cp + sym
           first == cp0 - cp + l * step
<1>1. rbs \in Nat /\ sym \in Nat /\ cp \in Nat /\ cp0 \in Nat /\ sym > 0 /\ cp0 >= cp /\ l \in 0..6
  BY BandsFit DEF BandFits, SlotSymbols
<1>2. FftInput(rbs, l) = first..(first + sym - 1)
  BY DEF FftInput, SymPos
<1>3. SymbolStart(rbs, l) = (IF l = 0 THEN 0 ELSE cp0 + sym + (l - 1) * step) /\ SymbolStart(rbs, l + 1) = cp0 + sym + l * step
  <2>1. l + 1 # 0 /\ (l + 1) - 1 = l
    BY <1>1
  <2> QED
    BY <2>1 DEF SymbolStart
<1> HIDE DEF sym, cp, cp0
<1>4. step \in Nat /\ l * step \in Nat /\ (l # 0 => (l - 1) * step = l * step - step)
  BY <1>1
<1> DEFINE turn == l * step
<1>5. turn \in Nat /\ (l = 0 => turn = 0)
  BY <1>1, <1>4
<1>6. SymbolStart(rbs, l) <= first /\ first \in Int /\ SymbolStart(rbs, l + 1) = first + step /\ SymbolStart(rbs, l) \in Int
  <2> HIDE DEF turn
  <2>1. first = cp0 - cp + turn /\ SymbolStart(rbs, l + 1) = cp0 + sym + turn
    BY <1>3 DEF turn
  <2>2. SymbolStart(rbs, l) = IF l = 0 THEN 0 ELSE cp0 + sym + (turn - step)
    BY <1>3, <1>4 DEF turn
  <2> HIDE DEF first
  <2> QED
    BY <1>1, <1>4, <1>5, <2>1, <2>2
<1> HIDE DEF first
<1>7. FftInput(rbs, l) \subseteq SymbolStart(rbs, l)..(SymbolStart(rbs, l + 1) - 1)
  BY <1>1, <1>2, <1>6
<1>8. Cardinality(first..(first + sym - 1)) = sym
  <2>1. first + sym - 1 \in Int
    BY <1>1, <1>6
  <2>2. Cardinality(first..(first + sym - 1)) = IF first > first + sym - 1 THEN 0 ELSE (first + sym - 1) - first + 1
    BY <1>6, <2>1, FS_Interval
  <2> QED
    BY <1>1, <1>6, <2>2
<1> QED
  BY <1>2, <1>7, <1>8 DEF sym

\* The bins that are used lie on both sides of the carrier.
LEMMA UsedBins ==
  ASSUME NEW rbs \in Bandwidths
  PROVE  {BinOf(rbs, k) : k \in Subcarriers(rbs)} \subseteq 1..(6 * rbs) \cup (SymLen(rbs) - 6 * rbs)..(SymLen(rbs) - 1)
<1> DEFINE sym == SymLen(rbs)
<1>1. rbs \in Nat /\ sym \in Nat /\ \A k \in Subcarriers(rbs) : k \in Nat /\ k < 12 * rbs
  BY BandsFit, SubcarrierParts DEF BandFits
<1>2. \A k \in Subcarriers(rbs) : BinOf(rbs, k) = IF k < 6 * rbs THEN sym - 6 * rbs + k ELSE k - 6 * rbs + 1
  BY DEF BinOf
<1> HIDE DEF sym
<1>3. ASSUME NEW k \in Subcarriers(rbs) PROVE BinOf(rbs, k) \in 1..(6 * rbs) \cup (sym - 6 * rbs)..(sym - 1)
  <2>1. k \in Nat /\ k < 12 * rbs /\ BinOf(rbs, k) = IF k < 6 * rbs THEN sym - 6 * rbs + k ELSE k - 6 * rbs + 1
    BY <1>1, <1>2
  <2> QED
    BY <1>1, <2>1
<1> QED
  BY <1>3 DEF sym

\* The references that are continued outwards are beyond them.
LEMMA VirtualPilotsAreOutside ==
  ASSUME NEW rbs \in Bandwidths, NEW cell \in CellIds, NEW p \in {0, 1}, NEW l \in {0, 4},
         NEW bin \in VirtualPilots(rbs, cell, p, l)
  PROVE  bin > 6 * rbs /\ bin < SymLen(rbs) - 6 * rbs
<1> DEFINE v == RefPlace(cell, p, l)
           k == RefSubcarriers(rbs, cell, p, l)
           sym == SymLen(rbs)
<1>1. rbs \in Nat /\ rbs >= 6 /\ sym \in Nat /\ sym > 12 * rbs + 37 /\ RbPos(rbs, 0) = sym - 6 * rbs
  BY BandsFit, LowestBlock DEF BandFits
<1>2. v \in 0..5 /\ \A m \in 0..(2 * rbs - 1) : k[m] = 6 * m + v
  BY ReferencePlaces
<1>3. k[0] = v /\ k[2 * rbs - 1] = 6 * (2 * rbs - 1) + v
  BY <1>1, <1>2
<1> DEFINE first == k[0] + RbPos(rbs, 0)
           last == k[2 * rbs - 1] - 6 * rbs + 1
<1>4. bin \in {first - 6, first - 12, first - 18, last + 6, last + 12, last + 18}
  <2>1. (rbs * 12) \div 2 = 6 * rbs
    BY <1>1
  <2> QED
    BY <2>1 DEF VirtualPilots, RbLen, RbPosMid
<1> HIDE DEF v, k, sym
<1> QED
  BY <1>1, <1>2, <1>3, <1>4 DEF sym

\* The averages are taken over the references of both symbols and, of the bins
\* that are used, over no other.
LEMMA AveragesAreOfReferences ==
  ASSUME NEW rbs \in Bandwidths, NEW cell \in CellIds, NEW p \in {0, 1}
  PROVE  AveragedPilots(rbs, cell, p) \cap {BinOf(rbs, k) : k \in Subcarriers(rbs)}
           = {BinOf(rbs, k) : k \in {j \in Subcarriers(rbs) : RefOfTwo(cell, j)}}
<1> DEFINE v(l) == RefPlace(cell, p, l)
           used == {BinOf(rbs, k) : k \in Subcarriers(rbs)}
           refs == {BinOf(rbs, k) : k \in {j \in Subcarriers(rbs) : RefOfTwo(cell, j)}}
<1>1. rbs \in Nat /\ cell \in Nat
  BY DEF Bandwidths, CellIds
<1>2. ASSUME NEW l \in {0, 4} PROVE Pilots(rbs, cell, p, l) = {BinOf(rbs, 6 * m + v(l)) : m \in 0..(2 * rbs - 1)}
  <2> DEFINE k == RefSubcarriers(rbs, cell, p, l)
  <2>1. DOMAIN k = 0..(2 * rbs - 1) /\ \A m \in 0..(2 * rbs - 1) : k[m] = 6 * m + v(l) /\ 6 * m + v(l) \in Subcarriers(rbs)
    BY ReferencePlaces
  <2>2. Pilots(rbs, cell, p, l) = {PilotBin(rbs, k[m]) : m \in 0..(2 * rbs - 1)}
    BY <2>1 DEF Pilots
  <2> HIDE DEF k, v
  <2>3. \A m \in 0..(2 * rbs - 1) : PilotBin(rbs, k[m]) = BinOf(rbs, 6 * m + v(l))
    BY <2>1, PilotBinIs
  <2> QED
    BY <2>2, <2>3
<1>3. \A l \in {0, 4} : VirtualPilots(rbs, cell, p, l) \cap used = {}
  <2>1. \A l \in {0, 4} : \A bin \in VirtualPilots(rbs, cell, p, l) : bin > 6 * rbs /\ bin < SymLen(rbs) - 6 * rbs
    BY VirtualPilotsAreOutside
  <2>2. used \subseteq 1..(6 * rbs) \cup (SymLen(rbs) - 6 * rbs)..(SymLen(rbs) - 1)
    BY UsedBins
  <2>3. SymLen(rbs) \in Nat
    BY BandsFit DEF BandFits
  <2> HIDE DEF used
  <2>4. ASSUME NEW bin \in used, bin > 6 * rbs, bin < SymLen(rbs) - 6 * rbs PROVE FALSE
    BY <1>1, <2>2, <2>3, <2>4
  <2> QED
    BY <2>1, <2>4
<1>4. \A l \in {0, 4} : v(l) \in 0..5 /\ v(l) % 3 = cell % 3
  <2>1. \A l \in {0, 4} : V(p, l) \in {0, 3}
    BY DEF V
  <2>2. \A s \in {0, 3} : (s + cell) % 6 \in 0..5 /\ ((s + cell) % 6) % 3 = cell % 3
    BY <1>1
  <2> QED
    BY <2>1, <2>2 DEF RefPlace
<1>5. v(0) # v(4)
  <2>1. V(p, 0) # V(p, 4) /\ V(p, 0) \in {0, 3} /\ V(p, 4) \in {0, 3}
    BY DEF V
  <2>2. (0 + cell) % 6 # (3 + cell) % 6
    BY <1>1
  <2> QED
    BY <2>1, <2>2 DEF RefPlace
<1>6. \A l \in {0, 4} : Pilots(rbs, cell, p, l) \subseteq refs
  <2> SUFFICES ASSUME NEW l \in {0, 4}, NEW m \in 0..(2 * rbs - 1)
               PROVE  BinOf(rbs, 6 * m + v(l)) \in refs
    BY <1>2
  <2>1. 6 * m + v(l) \in Subcarriers(rbs)
    BY ReferencePlaces
  <2>2. RefOfTwo(cell, 6 * m + v(l))
    <3> DEFINE w == v(l)
    <3>1. w \in 0..5 /\ w % 3 = cell % 3
      BY <1>4
    <3> HIDE DEF w
    <3>2. (6 * m + w) % 3 = w % 3
      BY <3>1
    <3> QED
      BY <3>1, <3>2 DEF RefOfTwo, w
  <2> QED
    BY <2>1, <2>2
<1>7. refs \subseteq used
  OBVIOUS
<1>8. refs \subseteq Pilots(rbs, cell, p, 0) \cup Pilots(rbs, cell, p, 4)
  <2> SUFFICES ASSUME NEW k \in Subcarriers(rbs), RefOfTwo(cell, k)
               PROVE  BinOf(rbs, k) \in Pilots(rbs, cell, p, 0) \cup Pilots(rbs, cell, p, 4)
    OBVIOUS
  <2>1. k \in Nat /\ k < 12 * rbs /\ k % 3 = cell % 3
    BY <1>1, SubcarrierParts DEF RefOfTwo
  <2> DEFINE a == v(0)
             b == v(4)
             m == k \div 6
  <2>2. a \in 0..5 /\ b \in 0..5 /\ a % 3 = cell % 3 /\ b % 3 = cell % 3 /\ a # b
    BY <1>4, <1>5
  <2> HIDE DEF a, b
  <2>3. m \in 0..(2 * rbs - 1) /\ (k = 6 * m + a \/ k = 6 * m + b)
    <3>1. k % 6 \in 0..5 /\ (k % 6) % 3 = k % 3 /\ k = 6 * m + (k % 6) /\ m \in Nat
      BY <2>1
    <3> DEFINE r == k % 6
    <3> HIDE DEF r, m
    <3>2. r = a \/ r = b
      BY <2>1, <2>2, <3>1 DEF r
    <3> QED
      BY <1>1, <2>1, <2>2, <3>1, <3>2 DEF r
  <2> QED
    BY <1>2, <2>3 DEF a, b
<1> HIDE DEF used, refs
<1>9. AveragedPilots(rbs, cell, p)
        = Pilots(rbs, cell, p, 0) \cup VirtualPilots(rbs, cell, p, 0) \cup Pilots(rbs, cell, p, 4) \cup VirtualPilots(rbs, cell, p, 4)
  BY DEF AveragedPilots
<1>10. AveragedPilots(rbs, cell, p) \cap used = refs
  BY <1>3, <1>6, <1>7, <1>8, <1>9, Zenon
<1> QED
  BY <1>10 DEF used, refs

-----------------------------------------------------------------------------
(* The same bits, their recurrences doubled as often as fits.              *)

\* The recurrences over strides of d places
FirstBy(x, n, d) == \A q \in 0..n : q >= 31 * d => x[q] = (x[q - 28 * d] + x[q - 31 * d]) % 2
SecondBy(y, n, d) ==
    \A q \in 0..n : q >= 31 * d => y[q] = (y[q - 28 * d] + y[q - 29 * d] + y[q - 30 * d] + y[q - 31 * d]) % 2

LEMMA FirstDoubles ==
  ASSUME NEW n \in Nat, NEW x \in BitsTo(n), NEW d \in Nat, FirstBy(x, n, d)
  PROVE  FirstBy(x, n, 2 * d)
<1> SUFFICES ASSUME NEW q \in 0..n, q >= 31 * (2 * d)
             PROVE  x[q] = (x[q - 28 * (2 * d)] + x[q - 31 * (2 * d)]) % 2
  BY DEF FirstBy
<1> DEFINE a == q - 28 * d
           b == q - 31 * d
           A == x[q - 56 * d]
           B == x[q - 59 * d]
           C == x[q - 62 * d]
<1>1. /\ q >= 31 * d
      /\ a \in 0..n /\ a >= 31 * d /\ a - 28 * d = q - 56 * d /\ a - 31 * d = q - 59 * d
      /\ b \in 0..n /\ b >= 31 * d /\ b - 28 * d = q - 59 * d /\ b - 31 * d = q - 62 * d
      /\ q - 56 * d \in 0..n /\ q - 59 * d \in 0..n /\ q - 62 * d \in 0..n
      /\ 28 * (2 * d) = 56 * d /\ 31 * (2 * d) = 62 * d
  OBVIOUS
<1>2. x[q] = (x[a] + x[b]) % 2
  BY <1>1 DEF FirstBy
<1> HIDE DEF a, b
<1>3. x[a] = (A + B) % 2
  BY <1>1 DEF FirstBy
<1>4. x[b] = (B + C) % 2
  BY <1>1 DEF FirstBy
<1>5. A \in 0..1 /\ B \in 0..1 /\ C \in 0..1
  BY <1>1 DEF BitsTo
<1>6. x[q - 28 * (2 * d)] = A /\ x[q - 31 * (2 * d)] = C
  BY <1>1
<1> HIDE DEF A, B, C
<1> QED
  BY <1>2, <1>3, <1>4, <1>5, <1>6

\* Bits that are added twice do not count.
LEMMA SumsCancel ==
  ASSUME NEW A \in 0..1, NEW B \in 0..1, NEW C \in 0..1, NEW D \in 0..1, NEW E \in 0..1, NEW F \in 0..1, NEW G \in 0..1
  PROVE  (((A + B + C + D) % 2) + ((B + C + D + E) % 2) + ((C + D + E + F) % 2) + ((D + E + F + G) % 2)) % 2
         = (A + C + E + G) % 2
  OBVIOUS

LEMMA SecondDoubles ==
  ASSUME NEW n \in Nat, NEW y \in BitsTo(n), NEW d \in Nat, SecondBy(y, n, d)
  PROVE  SecondBy(y, n, 2 * d)
<1> SUFFICES ASSUME NEW q \in 0..n, q >= 31 * (2 * d)
             PROVE  y[q] = (y[q - 28 * (2 * d)] + y[q - 29 * (2 * d)] + y[q - 30 * (2 * d)] + y[q - 31 * (2 * d)]) % 2
  BY DEF SecondBy
<1> DEFINE At(i) == y[q - i * d]
<1>1. ASSUME NEW i \in 28..31
      PROVE  At(i) = (At(i + 28) + At(i + 29) + At(i + 30) + At(i + 31)) % 2
  <2> DEFINE k == i * d
  <2>1. k \in Nat /\ k <= 31 * d
    BY DEF k
  <2>2. /\ (i + 28) * d = k + 28 * d /\ (i + 29) * d = k + 29 * d
        /\ (i + 30) * d = k + 30 * d /\ (i + 31) * d = k + 31 * d
    BY DEF k
  <2> DEFINE a == q - k
  <2> HIDE DEF k
  <2>3. /\ a \in 0..n /\ a >= 31 * d
        /\ a - 28 * d = q - (k + 28 * d) /\ a - 29 * d = q - (k + 29 * d)
        /\ a - 30 * d = q - (k + 30 * d) /\ a - 31 * d = q - (k + 31 * d)
    BY <2>1
  <2> HIDE DEF a
  <2>4. y[a] = (y[a - 28 * d] + y[a - 29 * d] + y[a - 30 * d] + y[a - 31 * d]) % 2
    BY <2>3 DEF SecondBy
  <2> QED
    BY <2>2, <2>3, <2>4 DEF a, k
<1>2. y[q] = (At(28) + At(29) + At(30) + At(31)) % 2
  <2>1. q >= 31 * d
    OBVIOUS
  <2> QED
    BY <2>1 DEF SecondBy
<1>3. \A i \in 0..62 : At(i) \in 0..1
  <2> SUFFICES ASSUME NEW i \in 0..62 PROVE At(i) \in 0..1
    OBVIOUS
  <2>1. i * d \in Nat /\ i * d <= 62 * d
    OBVIOUS
  <2>2. q - i * d \in 0..n
    BY <2>1
  <2> QED
    BY <2>2 DEF BitsTo
<1>4. /\ y[q - 28 * (2 * d)] = At(56) /\ y[q - 29 * (2 * d)] = At(58)
      /\ y[q - 30 * (2 * d)] = At(60) /\ y[q - 31 * (2 * d)] = At(62)
  <2>1. 28 * (2 * d) = 56 * d /\ 29 * (2 * d) = 58 * d /\ 30 * (2 * d) = 60 * d /\ 31 * (2 * d) = 62 * d
    OBVIOUS
  <2> QED
    BY <2>1
<1> HIDE DEF At
<1>5. /\ At(28) = (At(56) + At(57) + At(58) + At(59)) % 2 /\ At(29) = (At(57) + At(58) + At(59) + At(60)) % 2
      /\ At(30) = (At(58) + At(59) + At(60) + At(61)) % 2 /\ At(31) = (At(59) + At(60) + At(61) + At(62)) % 2
  BY <1>1
<1>6. (((At(56) + At(57) + At(58) + At(59)) % 2) + ((At(57) + At(58) + At(59) + At(60)) % 2)
       + ((At(58) + At(59) + At(60) + At(61)) % 2) + ((At(59) + At(60) + At(61) + At(62)) % 2)) % 2
      = (At(56) + At(58) + At(60) + At(62)) % 2
  BY <1>3, SumsCancel
<1>7. y[q] = (At(56) + At(58) + At(60) + At(62)) % 2
  BY <1>2, <1>5, <1>6, Zenon
<1> QED
  BY <1>4, <1>7, Zenon

\* The stride used for a place is one the place is far enough for.
MostPlaces == 31 * 2^13
LEMMA FarIs ==
  ASSUME NEW p \in Nat, p >= 31, p < MostPlaces
  PROVE  Far(p) \in 0..12 /\ 31 * 2^Far(p) <= p
<1> DEFINE G == {k \in 0..12 : p < 31 * 2^(k + 1)}
<1>1. 12 \in G /\ G \subseteq Nat
  BY DEF MostPlaces
<1>2. PICK k \in G : \A other \in G : k <= other
  <2> HIDE DEF G
  <2> QED
    BY <1>1, LeastOf
<1>3. k \in 0..12 /\ p < 31 * 2^(k + 1)
  OBVIOUS
<1>4. 31 * 2^k <= p
  <2>1. CASE k = 0
    BY <2>1, PowersAre
  <2>2. CASE k # 0
    <3>1. k - 1 \in 0..12 /\ k - 1 \notin G /\ (k - 1) + 1 = k
      BY <1>2, <1>3, <2>2
    <3>2. ~(p < 31 * 2^k)
      BY <3>1, Zenon
    <3>3. 2^k \in Nat
      <4>1. k \in 0..31
        BY <1>3
      <4> QED
        BY <4>1, PowersAre, Zenon
    <3> QED
      BY <3>2, <3>3
  <2> QED
    BY <2>1, <2>2
<1> DEFINE Fits(j) == 31 * 2^j <= p /\ p < 31 * 2^(j + 1)
<1>5. \E j \in 0..12 : Fits(j)
  BY <1>3, <1>4, Zenon
<1>6. Far(p) = CHOOSE j \in 0..12 : Fits(j)
  BY Zenon DEF Far
<1> HIDE DEF Fits
<1>7. Far(p) \in 0..12 /\ Fits(Far(p))
  BY <1>5, <1>6, Zenon
<1> QED
  BY <1>7 DEF Fits

\* Both recurrences hold over every stride that is a power of two.
LEMMA StridesAre ==
  ASSUME NEW n \in Nat, NEW x, NEW y, NEW seed, FirstLine(x, n), SecondLine(y, seed, n)
  PROVE  \A k \in 0..12 : FirstBy(x, n, 2^k) /\ SecondBy(y, n, 2^k)
<1> DEFINE Good(d) == FirstBy(x, n, d) /\ SecondBy(y, n, d)
           G == {k \in 0..12 : Good(2^k)}
<1>0. x \in BitsTo(n) /\ y \in BitsTo(n)
  BY DEF FirstLine, SecondLine
<1>1. Good(1)
  <2>1. FirstBy(x, n, 1)
    BY DEF FirstBy, FirstLine
  <2>2. SecondBy(y, n, 1)
    BY DEF SecondBy, SecondLine
  <2> QED
    BY <2>1, <2>2
<1>2. ASSUME NEW d \in Nat, Good(d) PROVE Good(2 * d)
  BY <1>0, <1>2, FirstDoubles, SecondDoubles
<1> HIDE DEF Good
<1>3. 0 \in G
  BY <1>1, PowersAre
<1>4. ASSUME NEW k \in 1..12, k - 1 \in G PROVE k \in G
  <2>1. 2^(k - 1) \in Nat /\ 2^k = 2 * 2^(k - 1)
    <3>1. k \in 1..31 /\ k - 1 \in 0..31
      OBVIOUS
    <3> QED
      BY <3>1, PowersAre, Zenon
  <2>2. Good(2^(k - 1))
    BY <1>4
  <2>3. Good(2 * 2^(k - 1))
    BY <1>2, <2>1, <2>2
  <2>4. Good(2^k)
    BY <2>1, <2>3, Zenon
  <2> QED
    BY <2>4
<1>5. 0..12 \subseteq G
  <2> HIDE DEF G
  <2> QED
    BY <1>3, <1>4, ClimbTo
<1> QED
  BY <1>5 DEF Good

\* Entries of the first sequence
LEMMA FirstAtIs ==
  ASSUME NEW n \in Nat, NEW x, FirstLine(x, n), NEW p \in 0..n, p < MostPlaces,
         \A k \in 0..12 : FirstBy(x, n, 2^k)
  PROVE  FirstAt(p) = x[p]
<1> DEFINE Made(g, q) == IF q < 31 THEN (IF q = 0 THEN 1 ELSE 0)
                         ELSE Xor(g[q - 28 * 2^Far(q)], g[q - 31 * 2^Far(q)])
           Runs(g) == g = [q \in 0..p |-> Made(g, q)]
           run == CHOOSE g : Runs(g)
           way == [q \in 0..p |-> x[q]]
<1>1. FirstAt(p) = run[p]
  BY Zenon DEF FirstAt
<1>2. ASSUME NEW q \in 0..p, q >= 31
      PROVE  /\ q - 28 * 2^Far(q) \in 0..(q - 1) /\ q - 31 * 2^Far(q) \in 0..(q - 1)
             /\ x[q] = Xor(x[q - 28 * 2^Far(q)], x[q - 31 * 2^Far(q)])
  <2> DEFINE d == 2^Far(q)
  <2>1. Far(q) \in 0..12 /\ 31 * d <= q
    <3>1. q \in Nat /\ q >= 31 /\ q < MostPlaces
      BY <1>2 DEF MostPlaces
    <3> QED
      BY <3>1, FarIs
  <2>2. d \in Nat \ {0} /\ FirstBy(x, n, d)
    <3>1. Far(q) \in 0..31
      BY <2>1
    <3> QED
      BY <2>1, <3>1, PowersAre, Zenon
  <2> HIDE DEF d
  <2>3. q - 28 * d \in 0..(q - 1) /\ q - 31 * d \in 0..(q - 1) /\ q \in 0..n /\ q >= 31 * d
    BY <2>1, <2>2
  <2>4. x[q] = (x[q - 28 * d] + x[q - 31 * d]) % 2
    BY <2>2, <2>3 DEF FirstBy
  <2> QED
    BY <2>3, <2>4 DEF d, Xor
<1>3. ASSUME NEW q \in 0..p, q < 31 PROVE x[q] = IF q = 0 THEN 1 ELSE 0
  BY <1>3 DEF FirstLine
<1>4. Runs(way)
  <2>1. ASSUME NEW q \in 0..p PROVE way[q] = Made(way, q)
    <3>1. way[q] = x[q]
      OBVIOUS
    <3>2. CASE q < 31
      BY <1>3, <3>1, <3>2, Zenon
    <3>3. CASE q >= 31
      <4> DEFINE d == 2^Far(q)
      <4>1. q - 28 * d \in 0..p /\ q - 31 * d \in 0..p
        <5>1. q - 28 * d \in 0..(q - 1) /\ q - 31 * d \in 0..(q - 1)
          BY <1>2, <3>3, Zenon
        <5> HIDE DEF d
        <5> QED
          BY <5>1
      <4>2. way[q - 28 * d] = x[q - 28 * d] /\ way[q - 31 * d] = x[q - 31 * d]
        BY <4>1, Zenon
      <4>3. x[q] = Xor(x[q - 28 * d], x[q - 31 * d])
        BY <1>2, <3>3, Zenon
      <4>4. ~(q < 31)
        BY <3>3
      <4> HIDE DEF way
      <4> QED
        BY <3>1, <4>2, <4>3, <4>4, Zenon
    <3> QED
      BY <3>2, <3>3
  <2>2. way = [q \in 0..p |-> way[q]]
    OBVIOUS
  <2> HIDE DEF way, Made
  <2> QED
    BY <2>1, <2>2, Zenon
<1>5. Runs(run)
  <2> HIDE DEF Runs, way
  <2> QED
    BY <1>4, Zenon
<1> HIDE DEF run
<1>6. ASSUME NEW q \in 0..p PROVE run[q] = Made(run, q)
  <2> HIDE DEF Made
  <2> QED
    BY <1>5, Zenon
<1> DEFINE T == {q \in 0..p : run[q] # x[q]}
<1>7. T = {}
  <2> SUFFICES ASSUME T # {} PROVE FALSE
    OBVIOUS
  <2>1. T \subseteq Nat
    OBVIOUS
  <2>2. PICK q \in T : \A other \in T : q <= other
    <3> HIDE DEF T
    <3> QED
      BY <2>1, LeastOf
  <2>3. q \in 0..p /\ run[q] # x[q]
    OBVIOUS
  <2>4. CASE q < 31
    <3>1. run[q] = IF q = 0 THEN 1 ELSE 0
      BY <1>6, <2>3, <2>4, Zenon
    <3> QED
      BY <1>3, <2>3, <2>4, <3>1, Zenon
  <2>5. CASE q >= 31
    <3> DEFINE a == q - 28 * 2^Far(q)
               b == q - 31 * 2^Far(q)
    <3>1. a \in 0..(q - 1) /\ b \in 0..(q - 1) /\ x[q] = Xor(x[a], x[b])
      BY <1>2, <2>3, <2>5, Zenon
    <3>2. ~(q < 31)
      BY <2>5
    <3>3. run[q] = Xor(run[a], run[b])
      BY <1>6, <2>3, <3>2, Zenon
    <3> HIDE DEF a, b
    <3>4. a \in 0..p /\ b \in 0..p /\ ~(q <= a) /\ ~(q <= b)
      BY <2>3, <3>1
    <3>5. run[a] = x[a] /\ run[b] = x[b]
      BY <2>2, <3>4
    <3> QED
      BY <2>3, <3>1, <3>3, <3>5, Zenon
  <2> QED
    BY <2>3, <2>4, <2>5
<1> QED
  BY <1>1, <1>7
\* Entries of the second
Four(g, q, d) == (g[q - 28 * d] + g[q - 29 * d] + g[q - 30 * d] + g[q - 31 * d]) % 2
Back(q, d) == /\ d \in Nat
              /\ q - 28 * d \in 0..(q - 1) /\ q - 29 * d \in 0..(q - 1)
              /\ q - 30 * d \in 0..(q - 1) /\ q - 31 * d \in 0..(q - 1)

LEMMA SecondAtIs ==
  ASSUME NEW n \in Nat, NEW x, NEW seed, SecondLine(x, seed, n), NEW p \in 0..n, p < MostPlaces,
         \A k \in 0..12 : SecondBy(x, n, 2^k)
  PROVE  SecondAt(seed, p) = x[p]
<1> DEFINE Made(g, q) == IF q < 31 THEN Bit(seed, q)
                         ELSE Four(g, q, 2^Far(q))
           Runs(g) == g = [q \in 0..p |-> Made(g, q)]
           run == CHOOSE g : Runs(g)
           way == [q \in 0..p |-> x[q]]
<1>1. SecondAt(seed, p) = run[p]
  BY Zenon DEF SecondAt, Four
<1>2. ASSUME NEW q \in 0..p, q >= 31
      PROVE  /\ Back(q, 2^Far(q))
             /\ x[q] = Four(x, q, 2^Far(q))
  <2> DEFINE d == 2^Far(q)
  <2>1. Far(q) \in 0..12 /\ 31 * d <= q
    <3>1. q \in Nat /\ q >= 31 /\ q < MostPlaces
      BY <1>2 DEF MostPlaces
    <3> QED
      BY <3>1, FarIs
  <2>2. d \in Nat \ {0} /\ SecondBy(x, n, d)
    <3>1. Far(q) \in 0..31
      BY <2>1
    <3> QED
      BY <2>1, <3>1, PowersAre, Zenon
  <2> HIDE DEF d
  <2>3. Back(q, d) /\ q \in 0..n /\ q >= 31 * d
    BY <2>1, <2>2 DEF Back
  <2>4. x[q] = Four(x, q, d)
    BY <2>2, <2>3 DEF SecondBy, Four
  <2> QED
    BY <2>3, <2>4 DEF d
<1>3. ASSUME NEW q \in 0..p, q < 31 PROVE x[q] = Bit(seed, q)
  BY <1>3 DEF SecondLine
<1>4. Runs(way)
  <2>1. ASSUME NEW q \in 0..p PROVE way[q] = Made(way, q)
    <3>1. way[q] = x[q]
      OBVIOUS
    <3>2. CASE q < 31
      BY <1>3, <3>1, <3>2, Zenon
    <3>3. CASE q >= 31
      <4> DEFINE d == 2^Far(q)
      <4>1. Back(q, d)
        BY <1>2, <3>3, Zenon
      <4>2. Four(way, q, d) = Four(x, q, d)
        <5> HIDE DEF d
        <5>1. q - 28 * d \in 0..p /\ q - 29 * d \in 0..p /\ q - 30 * d \in 0..p /\ q - 31 * d \in 0..p
          BY <4>1 DEF Back
        <5>2. \A u \in 0..p : way[u] = x[u]
          OBVIOUS
        <5> HIDE DEF way
        <5> QED
          BY <5>1, <5>2, Zenon DEF Four
      <4>3. x[q] = Four(x, q, d)
        BY <1>2, <3>3, Zenon
      <4>4. ~(q < 31)
        BY <3>3
      <4> HIDE DEF way
      <4> QED
        BY <3>1, <4>2, <4>3, <4>4, Zenon
    <3> QED
      BY <3>2, <3>3
  <2>2. way = [q \in 0..p |-> way[q]]
    OBVIOUS
  <2> HIDE DEF way, Made
  <2> QED
    BY <2>1, <2>2, Zenon
<1>5. Runs(run)
  <2> HIDE DEF Runs, way
  <2> QED
    BY <1>4, Zenon
<1> HIDE DEF run
<1>6. ASSUME NEW q \in 0..p PROVE run[q] = Made(run, q)
  <2> HIDE DEF Made
  <2> QED
    BY <1>5, Zenon
<1> DEFINE T == {q \in 0..p : run[q] # x[q]}
<1>7. T = {}
  <2> SUFFICES ASSUME T # {} PROVE FALSE
    OBVIOUS
  <2>1. T \subseteq Nat
    OBVIOUS
  <2>2. PICK q \in T : \A other \in T : q <= other
    <3> HIDE DEF T
    <3> QED
      BY <2>1, LeastOf
  <2>3. q \in 0..p /\ run[q] # x[q]
    OBVIOUS
  <2>4. CASE q < 31
    <3>1. run[q] = Bit(seed, q)
      BY <1>6, <2>3, <2>4, Zenon
    <3> QED
      BY <1>3, <2>3, <2>4, <3>1, Zenon
  <2>5. CASE q >= 31
    <3> DEFINE d == 2^Far(q)
    <3>1. Back(q, d) /\ x[q] = Four(x, q, d)
      BY <1>2, <2>3, <2>5, Zenon
    <3>2. ~(q < 31)
      BY <2>5
    <3>3. run[q] = Four(run, q, d)
      BY <1>6, <2>3, <3>2, Zenon
    <3> HIDE DEF d
    <3>4. /\ q - 28 * d \in 0..p /\ q - 29 * d \in 0..p /\ q - 30 * d \in 0..p /\ q - 31 * d \in 0..p
          /\ ~(q <= q - 28 * d) /\ ~(q <= q - 29 * d) /\ ~(q <= q - 30 * d) /\ ~(q <= q - 31 * d)
      BY <2>3, <3>1 DEF Back
    <3>6. \A u \in 0..p : ~(q <= u) => run[u] = x[u]
      BY <2>2
    <3>5. Four(run, q, d) = Four(x, q, d)
      BY <3>4, <3>6, Zenon DEF Four
    <3> QED
      BY <2>3, <3>1, <3>3, <3>5, Zenon
  <2> QED
    BY <2>3, <2>4, <2>5
<1> QED
  BY <1>1, <1>7

\* Every bit of a scrambling sequence is that of the standard, as far as bit
\* MostPlaces of the two sequences it is the sum of.
LEMMA GoldIsGoldAt ==
  ASSUME NEW init \in Nat, NEW len \in Nat
  PROVE  /\ Len(GoldSeq(init, len)) = len
         /\ \A m \in 0..(len - 1) : m + 1600 < MostPlaces => GoldSeq(init, len)[m + 1] = GoldAt(init, m)
<1>1. PICK x, y, n : Standard(init, len, x, y, n)
  BY GoldIsStandard
<1>2. /\ n \in Nat /\ n >= Lead + len /\ FirstLine(x, n) /\ SecondLine(y, init, n)
      /\ GoldSeq(init, len) = SequenceOf(x, y, len)
  BY <1>1 DEF Standard
<1>3. \A k \in 0..12 : FirstBy(x, n, 2^k) /\ SecondBy(y, n, 2^k)
  BY <1>2, StridesAre
<1>4. Len(SequenceOf(x, y, len)) = len
  BY DEF SequenceOf
<1>5. ASSUME NEW m \in 0..(len - 1), m + 1600 < MostPlaces
      PROVE  GoldSeq(init, len)[m + 1] = GoldAt(init, m)
  <2> DEFINE p == m + 1600
  <2>1. p \in 0..n /\ p < MostPlaces /\ m + 1 \in 1..len /\ Lead + (m + 1) - 1 = p
    BY <1>2, <1>5 DEF Lead
  <2>5. GoldAt(init, m) = Xor(FirstAt(p), SecondAt(init, p))
    BY Zenon DEF GoldAt
  <2> HIDE DEF p
  <2>2. FirstAt(p) = x[p]
    BY <1>2, <1>3, <2>1, FirstAtIs
  <2>3. SecondAt(init, p) = y[p]
    BY <1>2, <1>3, <2>1, SecondAtIs
  <2>4. SequenceOf(x, y, len)[m + 1] = (x[p] + y[p]) % 2
    BY <2>1, Zenon DEF SequenceOf
  <2> QED
    BY <1>2, <2>2, <2>3, <2>4, <2>5, Zenon DEF Xor
<1> QED
  BY <1>2, <1>4, <1>5

\* What lte_gen_ref_map makes the references of
ReferenceBits(in) ==
    LET seq == GoldSeq(RefSeed(in.cell, in.slot, in.l), 440)
        Bits(m) == <<seq[2 * RefEntry(in.rbs, m) + 1], seq[2 * RefEntry(in.rbs, m) + 2]>>
    IN [m \in 0..(2 * in.rbs - 1) |-> Bits(m)]

\* The references are the middle of the sequence of their cell, slot and symbol.
ReferenceSent(rbs, cell, slot, l) == rbs \in Bandwidths /\ cell \in CellIds /\ slot \in 0..19 /\ l \in {0, 4}
ReferenceIs(bits, rbs, cell, slot, l, m, part) ==
    bits[m][part + 1]
      = GoldAt(2^10 * (7 * (slot + 1) + l + 1) * (2 * cell + 1) + 2 * cell + 1, 2 * (m - rbs + 110) + part)

LEMMA ReferencesAreRead ==
  ASSUME NEW rbs, NEW cell, NEW slot, NEW l, ReferenceSent(rbs, cell, slot, l),
         NEW m \in 0..(2 * rbs - 1), NEW part \in {0, 1}
  PROVE  ReferenceIs(ReferenceBits([rbs |-> rbs, cell |-> cell, slot |-> slot, l |-> l]), rbs, cell, slot, l, m, part)
<1> DEFINE in   == [rbs |-> rbs, cell |-> cell, slot |-> slot, l |-> l]
           seed == RefSeed(cell, slot, l)
           seq  == GoldSeq(seed, 440)
           e    == 2 * RefEntry(rbs, m)
<1>0. rbs \in Bandwidths /\ cell \in CellIds /\ slot \in 0..19 /\ l \in {0, 4}
  BY DEF ReferenceSent
<1>1. seed \in Nat /\ seed = 2^10 * (7 * (slot + 1) + l + 1) * (2 * cell + 1) + 2 * cell + 1
  <2>1. 2^10 = 1024
    OBVIOUS
  <2> DEFINE a == 7 * (slot + 1) + l + 1
             b == 2 * cell + 1
  <2>2. a \in Nat /\ b \in Nat
    BY <1>0 DEF CellIds
  <2> HIDE DEF a, b
  <2>3. a * b \in Nat /\ 1024 * a * b \in Nat
    BY <2>2
  <2>4. seed = 1024 * a * b + b /\ b = 2 * cell + 1
    BY <1>0, <2>2 DEF RefSeed, a, b, CellIds
  <2> QED
    BY <1>0, <2>1, <2>2, <2>3, <2>4 DEF a, b, CellIds
<1>2. e \in Nat /\ e + 1 < 440 /\ e = 2 * (m - rbs + 110)
  BY <1>0 DEF RefEntry, Bandwidths
<1>3. ReferenceBits(in)[m] = <<seq[e + 1], seq[e + 2]>>
  <2>1. in.rbs = rbs /\ in.cell = cell /\ in.slot = slot /\ in.l = l
    OBVIOUS
  <2> HIDE DEF in
  <2>2. m \in 0..(2 * in.rbs - 1)
    BY <2>1, Zenon
  <2>3. ReferenceBits(in)[m] = <<GoldSeq(RefSeed(in.cell, in.slot, in.l), 440)[2 * RefEntry(in.rbs, m) + 1],
                                 GoldSeq(RefSeed(in.cell, in.slot, in.l), 440)[2 * RefEntry(in.rbs, m) + 2]>>
    BY <2>2, Zenon DEF ReferenceBits
  <2> QED
    BY <2>1, <2>3, Zenon
<1> HIDE DEF e, seed, in
<1>4. ASSUME NEW i \in 0..439 PROVE seq[i + 1] = GoldAt(seed, i)
  <2>1. PICK len \in Nat : len = 440
    OBVIOUS
  <2>2. i \in 0..(len - 1) /\ i + 1600 < MostPlaces
    BY <2>1 DEF MostPlaces
  <2>3. GoldSeq(seed, len)[i + 1] = GoldAt(seed, i)
    BY <1>1, <2>2, GoldIsGoldAt
  <2> QED
    BY <2>1, <2>3
<1>5. ReferenceBits(in)[m][part + 1] = seq[e + part + 1]
  <2> HIDE DEF seq
  <2>1. (e + 1) + 1 = e + 2 /\ e + 0 = e
    BY <1>2
  <2> QED
    BY <1>3, <2>1
<1>6. e + part \in 0..439
  BY <1>2
<1>7. ReferenceBits(in)[m][part + 1] = GoldAt(seed, e + part)
  BY <1>4, <1>5, <1>6, Zenon
<1> QED
  BY <1>1, <1>2, <1>7, Zenon DEF in, ReferenceIs

-----------------------------------------------------------------------------
(* The cell is named although some bits are wrong.                         *)

\* The table of lte_init names a cell of which seven bits are heard wrong.
SssHeard(in) == SssDetect(SssTable, in.n2, XorSet(SssRegister(in.n1, in.n2, in.half), in.bad))

LEMMA HeardIsNamed ==
  ASSUME NEW in \in CellsHeard
  PROVE  /\ GroupNumber(GenM(in.n1, 0), GenM(in.n1, 1)) = in.n1
         /\ SssHeard(in) = SssNamed(in.n1, in.n2, in.half)
<1>1. /\ in.n1 \in CellGroups /\ in.n2 \in Identities /\ in.half \in HalfFrames
      /\ in.bad \in SUBSET (0..63) /\ Cardinality(in.bad) <= 7
  BY HeardAssumption, Zenon
<1>2. IsFiniteSet(in.bad)
  <2>1. in.bad \in SUBSET Nat /\ \A b \in in.bad : b <= 63
    BY <1>1
  <2> QED
    BY <2>1, FS_BoundedSetOfNaturals
<1>3. SssHeard(in) = SssNamed(in.n1, in.n2, in.half)
  BY <1>1, <1>2, CellIsNearest, Zenon DEF SssHeard
<1>4. GroupNumber(GenM(in.n1, 0), GenM(in.n1, 1)) = in.n1
  <2>1. Cardinality(PairsBefore(GenM(in.n1, 0), GenM(in.n1, 1) - GenM(in.n1, 0))) = in.n1
    BY <1>1, GroupIsNumbered
  <2> QED
    BY <2>1, Zenon DEF GroupNumber, PairsBefore
<1> QED
  BY <1>3, <1>4

-----------------------------------------------------------------------------
(* The format indicator is read although some bits are wrong.              *)

\* The codeword's bit for a place modulo 3
CfiBit(cfi, r) ==
  CASE cfi = 1 -> (IF r = 0 THEN 0 ELSE 1) [] cfi = 2 -> (IF r = 1 THEN 0 ELSE 1) [] cfi = 3 -> (IF r = 2 THEN 0 ELSE 1)
    [] cfi = 4 -> 0

\* The codewords repeat three bits.
LEMMA CodeIs ==
  ASSUME NEW cfi \in 1..4
  PROVE  /\ CfiCode(cfi) \in [1..32 -> {0, 1}]
         /\ \A n \in 1..32 : CfiCode(cfi)[n] = CfiBit(cfi, (n - 1) % 3)
<1> DEFINE pattern == CASE cfi = 1 -> <<0, 1, 1>> [] cfi = 2 -> <<1, 0, 1>> [] cfi = 3 -> <<1, 1, 0>>
                        [] cfi = 4 -> <<0, 0, 0>>
<1>1. CfiCode(cfi) = [n \in 1..32 |-> pattern[((n - 1) % 3) + 1]]
  BY Zenon DEF CfiCode
<1>2. \A r \in 0..2 : pattern[r + 1] = CfiBit(cfi, r) /\ CfiBit(cfi, r) \in {0, 1}
  <2>1. cfi = 1 \/ cfi = 2 \/ cfi = 3 \/ cfi = 4
    OBVIOUS
  <2>2. \A r \in 0..2 : r = 0 \/ r = 1 \/ r = 2
    OBVIOUS
  <2> QED
    BY <2>1, <2>2 DEF CfiBit
<1> HIDE DEF pattern
<1>3. \A n \in 1..32 : (n - 1) % 3 \in 0..2
  OBVIOUS
<1>4. \A n \in 1..32 : pattern[((n - 1) % 3) + 1] = CfiBit(cfi, (n - 1) % 3) /\ CfiBit(cfi, (n - 1) % 3) \in {0, 1}
  BY <1>2, <1>3, Zenon
<1> QED
  BY <1>1, <1>4

\* Where two codewords differ
CodesDiffer(a, b) == {n \in 1..32 : CfiCode(a)[n] # CfiCode(b)[n]}

\* They differ in one place of three, and so in ten of them.
LEMMA CodesApart ==
  ASSUME NEW a \in 1..4, NEW b \in 1..4, a # b
  PROVE  /\ IsFiniteSet(CodesDiffer(a, b)) /\ Cardinality(CodesDiffer(a, b)) \in Nat
         /\ Cardinality(CodesDiffer(a, b)) >= 10
<1> DEFINE D == CodesDiffer(a, b)
<1>1. \E r \in 0..2 : CfiBit(a, r) # CfiBit(b, r)
  <2>1. (a = 1 \/ a = 2 \/ a = 3 \/ a = 4) /\ (b = 1 \/ b = 2 \/ b = 3 \/ b = 4)
    OBVIOUS
  <2>2. 0 \in 0..2 /\ 1 \in 0..2 /\ 2 \in 0..2
    OBVIOUS
  <2>3. CfiBit(a, 0) # CfiBit(b, 0) \/ CfiBit(a, 1) # CfiBit(b, 1) \/ CfiBit(a, 2) # CfiBit(b, 2)
    BY <2>1 DEF CfiBit
  <2> QED
    BY <2>2, <2>3, Zenon
<1>2. PICK r \in 0..2 : CfiBit(a, r) # CfiBit(b, r)
  BY <1>1
<1> DEFINE f == [j \in 1..10 |-> 3 * (j - 1) + r + 1]
<1>3. IsFiniteSet(D) /\ Cardinality(D) \in Nat
  <2>1. D \in SUBSET Nat /\ \A n \in D : n <= 32
    BY DEF CodesDiffer
  <2>2. IsFiniteSet(D)
    BY <2>1, FS_BoundedSetOfNaturals
  <2> QED
    BY <2>2, FS_CardinalityType
<1>4. ASSUME NEW j \in 1..10 PROVE 3 * (j - 1) + r + 1 \in D
  <2> DEFINE n == 3 * (j - 1) + r + 1
  <2>1. n \in 1..32 /\ (n - 1) % 3 = r
    OBVIOUS
  <2> HIDE DEF n
  <2>2. CfiCode(a)[n] = CfiBit(a, r) /\ CfiCode(b)[n] = CfiBit(b, r)
    BY <2>1, CodeIs
  <2>3. n \in D
    BY <1>2, <2>1, <2>2 DEF CodesDiffer
  <2> QED
    BY <2>3 DEF n
<1> HIDE DEF D
<1>5. f \in [1..10 -> D]
  BY <1>4
<1>6. \A i, j \in 1..10 : f[i] = f[j] => i = j
  OBVIOUS
<1> HIDE DEF f
<1>7. f \in Injection(1..10, D)
  BY <1>5, <1>6 DEF Injection, IsInjective
<1>8. Cardinality(1..10) <= Cardinality(D)
  BY <1>3, <1>7, FS_Injection
<1>9. Cardinality(1..10) = 10
  <2>1. 1 \in Int /\ 10 \in Int /\ ~(1 > 10) /\ 10 - 1 + 1 = 10
    OBVIOUS
  <2> QED
    BY <2>1, FS_Interval
<1> QED
  BY <1>3, <1>8, <1>9 DEF D

\* Places where a word is not the codeword
Wrong(bits, cfi) == {n \in 1..32 : bits[n] # CfiCode(cfi)[n]}

\* A codeword with up to four wrong bits is read.
LEMMA CfiIsRead ==
  ASSUME NEW cfi \in 1..4, NEW bits, Cardinality(Wrong(bits, cfi)) <= 4
  PROVE  CfiDecode(bits) = cfi
<1>1. ASSUME NEW c \in 1..4 PROVE IsFiniteSet(Wrong(bits, c)) /\ Cardinality(Wrong(bits, c)) \in Nat
  <2>1. Wrong(bits, c) \in SUBSET Nat /\ \A n \in Wrong(bits, c) : n <= 32
    BY DEF Wrong
  <2>2. IsFiniteSet(Wrong(bits, c))
    BY <2>1, FS_BoundedSetOfNaturals
  <2> QED
    BY <2>2, FS_CardinalityType
<1>2. ASSUME NEW c \in 1..4, c # cfi PROVE Cardinality(Wrong(bits, c)) >= 5
  <2> DEFINE x == Wrong(bits, c)
             y == Wrong(bits, cfi)
             z == CodesDiffer(c, cfi)
  <2>1. z \in SUBSET (x \cup y)
    BY DEF CodesDiffer, Wrong
  <2>2. IsFiniteSet(x) /\ IsFiniteSet(y) /\ Cardinality(x) \in Nat /\ Cardinality(y) \in Nat /\ Cardinality(y) <= 4
    BY <1>1
  <2>3. IsFiniteSet(z) /\ Cardinality(z) \in Nat /\ Cardinality(z) >= 10
    BY <1>2, CodesApart
  <2> HIDE DEF x, y, z
  <2>4. IsFiniteSet(x \cup y) /\ Cardinality(x \cup y) = Cardinality(x) + Cardinality(y) - Cardinality(x \cap y)
    BY <2>2, FS_Union
  <2>5. Cardinality(x \cap y) \in Nat
    <3>1. IsFiniteSet(x \cap y)
      BY <2>2, FS_Intersection
    <3> QED
      BY <3>1, FS_CardinalityType
  <2>6. Cardinality(z) <= Cardinality(x \cup y)
    BY <2>1, <2>4, FS_Subset
  <2>7. Cardinality(x) >= 5
    BY <2>2, <2>3, <2>4, <2>5, <2>6
  <2> QED
    BY <2>7 DEF x
<1> DEFINE near == {c \in 1..4 : Cardinality(Wrong(bits, c)) < 5}
<1>3. near = {cfi}
  BY <1>1, <1>2
<1>4. CfiDecode(bits) = IF near = {} THEN -1 ELSE CHOOSE c \in near : \A other \in near : c <= other
  BY Zenon DEF CfiDecode, Wrong
<1> HIDE DEF near
<1>5. (CHOOSE c \in near : \A other \in near : c <= other) = cfi
  <2>1. cfi \in near /\ \A c \in near : c = cfi
    BY <1>3
  <2>2. \A other \in near : cfi <= other
    BY <2>1
  <2> QED
    BY <2>1, <2>2
<1>6. near # {}
  BY <1>3
<1> QED
  BY <1>4, <1>5, <1>6, Zenon

\* A scrambling sequence has bits.
LEMMA GoldHasBits ==
  ASSUME NEW seed \in Nat, NEW len \in Nat
  PROVE  GoldSeq(seed, len) \in [1..len -> {0, 1}]
<1>1. PICK x, y, n : Standard(seed, len, x, y, n)
  BY GoldIsStandard
<1>2. n \in Nat /\ n >= Lead + len /\ x \in BitsTo(n) /\ y \in BitsTo(n) /\ GoldSeq(seed, len) = SequenceOf(x, y, len)
  BY <1>1, Zenon DEF Standard, FirstLine, SecondLine
<1>3. ASSUME NEW j \in 1..len PROVE (x[Lead + j - 1] + y[Lead + j - 1]) % 2 \in {0, 1}
  <2>1. Lead + j - 1 \in 0..n
    BY <1>2 DEF Lead
  <2>2. x[Lead + j - 1] \in {0, 1} /\ y[Lead + j - 1] \in {0, 1}
    BY <1>2, <2>1 DEF BitsTo
  <2> QED
    BY <2>2
<1> QED
  BY <1>2, <1>3 DEF SequenceOf

\* Bits are a list.
LEMMA BitsAreList ==
  ASSUME NEW len \in Nat, NEW b \in [1..len -> {0, 1}]
  PROVE  b \in Seq({0, 1}) /\ b \o << >> = b
<1>1. b \in Seq({0, 1})
  OBVIOUS
<1> QED
  BY <1>1

\* Bits that are scrambled twice
ComesBack(len, b, c) ==
  /\ Scramble(b, c) \in [1..len -> {0, 1}] /\ Scramble(b, c) \o << >> = Scramble(b, c)
  /\ Scramble(Scramble(b, c), c) = b

\* They come back.
LEMMA ScrambledTwice ==
  ASSUME NEW len \in Nat, NEW b \in [1..len -> {0, 1}], NEW c \in [1..len -> {0, 1}]
  PROVE  ComesBack(len, b, c)
<1> DEFINE d == Scramble(b, c)
<1>1. d = [i \in 1..len |-> (b[i] + c[i]) % 2]
  BY DEF Scramble
<1>2. \A i \in 1..len : b[i] \in {0, 1} /\ c[i] \in {0, 1}
  OBVIOUS
<1>3. d \in [1..len -> {0, 1}]
  BY <1>1, <1>2
<1>4. \A i \in 1..len : (d[i] + c[i]) % 2 = b[i]
  BY <1>1, <1>2
<1> HIDE DEF d
<1>5. Scramble(d, c) = [i \in 1..len |-> (d[i] + c[i]) % 2]
  BY <1>3 DEF Scramble
<1>6. Scramble(d, c) = b
  BY <1>4, <1>5
<1>7. d \o << >> = d
  <2>1. d \in Seq({0, 1})
    BY <1>3
  <2> QED
    BY <2>1
<1> QED
  BY <1>3, <1>6, <1>7 DEF d, ComesBack

\* What a symbol of two bits says is what was sent.
LEMMA BitsOfSymbols ==
  ASSUME NEW n \in Nat, NEW b \in [1..(2 * n) -> {0, 1}]
  PROVE  HardBits(Symbols(2, b), 2 * n) = b
<1> DEFINE vec == Symbols(2, b)
           Sent(k) == 11 * (1 - 2 * b[k])
<1>1. Len(b) \div 2 = n
  <2>1. b \in Seq({0, 1}) /\ Len(b) = 2 * n
    OBVIOUS
  <2> QED
    BY <2>1
<1>2. ASSUME NEW i \in 1..n PROVE vec[i] = <<Sent(2 * i - 1), Sent(2 * i)>>
  <2> DEFINE Part(first) == [j \in 1..(2 \div 2) |-> b[2 * (i - 1) + 2 * (j - 1) + first]]
  <2>1. vec[i] = <<Level(2, Part(1)), Level(2, Part(2))>>
    BY <1>1 DEF Symbols
  <2>2. Part(1)[1] = b[2 * i - 1] /\ Part(2)[1] = b[2 * i]
    <3>1. 1 \in 1..(2 \div 2) /\ 2 * (i - 1) + 2 * (1 - 1) + 1 = 2 * i - 1 /\ 2 * (i - 1) + 2 * (1 - 1) + 2 = 2 * i
      OBVIOUS
    <3> QED
      BY <3>1
  <2> HIDE DEF Part
  <2>3. \A w : Level(2, w) = 11 * (1 - 2 * w[1])
    BY DEF Level
  <2> QED
    BY <2>1, <2>2, <2>3
<1> HIDE DEF vec
<1>3. ASSUME NEW k \in 1..(2 * n)
      PROVE  (LET sym == vec[((k - 1) \div 2) + 1]
              IN IF sym[1] = 0 \/ sym[2] = 0 THEN 0 ELSE IF sym[((k - 1) % 2) + 1] > 0 THEN 0 ELSE 1) = b[k]
  <2> DEFINE i == ((k - 1) \div 2) + 1
  <2>1. i \in 1..n /\ 2 * i - 1 \in 1..(2 * n) /\ 2 * i \in 1..(2 * n)
    OBVIOUS
  <2>2. (k = 2 * i - 1 /\ (k - 1) % 2 = 0) \/ (k = 2 * i /\ (k - 1) % 2 = 1)
    OBVIOUS
  <2>3. b[k] \in {0, 1} /\ b[2 * i - 1] \in {0, 1} /\ b[2 * i] \in {0, 1}
    BY <2>1
  <2> HIDE DEF i
  <2>4. vec[i] = <<Sent(2 * i - 1), Sent(2 * i)>>
    BY <1>2, <2>1
  <2> DEFINE sym == vec[i]
  <2>5. sym[1] = Sent(2 * i - 1) /\ sym[2] = Sent(2 * i)
    BY <2>4
  <2> HIDE DEF sym
  <2>6. sym[1] # 0 /\ sym[2] # 0
    BY <2>3, <2>5
  <2>7. sym[((k - 1) % 2) + 1] = Sent(k)
    BY <2>2, <2>5
  <2>8. (Sent(k) > 0 => b[k] = 0) /\ (~(Sent(k) > 0) => b[k] = 1)
    BY <2>3
  <2>9. (IF sym[1] = 0 \/ sym[2] = 0 THEN 0 ELSE IF sym[((k - 1) % 2) + 1] > 0 THEN 0 ELSE 1) = b[k]
    BY <2>6, <2>7, <2>8
  <2> QED
    BY <2>9 DEF sym, i
<1>4. (2 * n) % 2 = 0
  OBVIOUS
<1>5. HardBits(vec, 2 * n) = [k \in 1..(2 * n) |-> b[k]]
  BY <1>3, <1>4 DEF HardBits
<1> QED
  BY <1>5 DEF vec

\* A format indicator that is sent and heard as ReadCfi does
CfiSent(in) == [i \in 1..32 |-> IF i \in in.bad THEN 1 - CfiCode(in.cfi)[i] ELSE CfiCode(in.cfi)[i]]
CfiSequence(in) == GoldSeq((in.sf + 1) * (2 * in.cell + 1) * 2^9 + in.cell, 32)
CfiHeard(in) ==
  CfiDecode(Scramble(HardBits(Symbols(2, Scramble(CfiSent(in), CfiSequence(in)) \o << >>), 32),
                     GoldSeq(PcfichSeed(in.cell, in.sf), 32)) \o << >>)

\* It is read with up to four wrong bits.
LEMMA CfiComesBack ==
  ASSUME NEW in \in Cfis
  PROVE  CfiHeard(in) = in.cfi
<1> DEFINE bits == CfiSent(in)
           seq  == CfiSequence(in)
<1>1. /\ in.cfi \in 1..4 /\ in.cell \in CellIds /\ in.sf \in 0..9
      /\ in.bad \in SUBSET (1..32) /\ Cardinality(in.bad) <= 4
  BY CfiAssumption, Zenon
<1>2. in.cell \in Nat
  BY <1>1 DEF CellIds
<1>3. GoldSeq(PcfichSeed(in.cell, in.sf), 32) = seq
  <2>1. 2^9 = 512
    OBVIOUS
  <2> QED
    BY <2>1, Zenon DEF PcfichSeed, CfiSequence
<1>4. seq \in [1..32 -> {0, 1}]
  <2> DEFINE seed == (in.sf + 1) * (2 * in.cell + 1) * 512 + in.cell
  <2>1. seed \in Nat
    <3> DEFINE a == in.sf + 1
               b == 2 * in.cell + 1
    <3>1. a \in Nat /\ b \in Nat
      BY <1>1, <1>2
    <3> HIDE DEF a, b
    <3>2. a * b \in Nat
      BY <3>1
    <3> DEFINE c == a * b
    <3> HIDE DEF c
    <3>3. c * 512 + in.cell \in Nat
      BY <1>2, <3>2 DEF c
    <3> QED
      BY <3>3, Zenon DEF a, b, c
  <2> HIDE DEF seed
  <2>2. seq = GoldSeq(seed, 32)
    <3>1. 2^9 = 512
      OBVIOUS
    <3> QED
      BY <3>1, Zenon DEF CfiSequence, seed
  <2> QED
    BY <2>1, <2>2, GoldHasBits
<1>5. bits \in [1..32 -> {0, 1}] /\ Wrong(bits, in.cfi) = in.bad
  <2> DEFINE code == CfiCode(in.cfi)
  <2>1. code \in [1..32 -> {0, 1}]
    BY <1>1, CodeIs
  <2> HIDE DEF code
  <2>2. bits = [i \in 1..32 |-> IF i \in in.bad THEN 1 - code[i] ELSE code[i]]
    BY Zenon DEF CfiSent, code
  <2> HIDE DEF bits
  <2>3. \A i \in 1..32 : bits[i] \in {0, 1} /\ (bits[i] # code[i] <=> i \in in.bad)
    <3>1. ASSUME NEW i \in 1..32 PROVE bits[i] \in {0, 1} /\ (bits[i] # code[i] <=> i \in in.bad)
      <4>1. code[i] \in {0, 1} /\ bits[i] = IF i \in in.bad THEN 1 - code[i] ELSE code[i]
        BY <2>1, <2>2
      <4> QED
        BY <4>1
    <3> QED
      BY <3>1
  <2>4. bits \in [1..32 -> {0, 1}]
    BY <2>2, <2>3
  <2>5. Wrong(bits, in.cfi) = {i \in 1..32 : bits[i] # code[i]}
    BY Zenon DEF Wrong, code
  <2> QED
    BY <1>1, <2>3, <2>4, <2>5
<1> HIDE DEF bits, seq
<1>6. /\ Scramble(bits, seq) \in [1..32 -> {0, 1}] /\ Scramble(bits, seq) \o << >> = Scramble(bits, seq)
      /\ Scramble(Scramble(bits, seq), seq) = bits
  <2>1. 32 \in Nat
    OBVIOUS
  <2>2. ComesBack(32, bits, seq)
    BY <1>4, <1>5, <2>1, ScrambledTwice
  <2> QED
    BY <2>2, Zenon DEF ComesBack
<1>7. HardBits(Symbols(2, Scramble(bits, seq)), 32) = Scramble(bits, seq)
  <2>1. 16 \in Nat /\ 2 * 16 = 32
    OBVIOUS
  <2>2. Scramble(bits, seq) \in [1..(2 * 16) -> {0, 1}]
    BY <1>6, <2>1, Zenon
  <2>3. HardBits(Symbols(2, Scramble(bits, seq)), 2 * 16) = Scramble(bits, seq)
    BY <2>1, <2>2, BitsOfSymbols, Zenon
  <2> QED
    BY <2>1, <2>3, Zenon
<1>8. bits \o << >> = bits
  <2>1. 32 \in Nat
    OBVIOUS
  <2> QED
    BY <1>5, <2>1, BitsAreList, Zenon
<1>9. CfiHeard(in) = CfiDecode(bits)
  BY <1>3, <1>6, <1>7, <1>8, Zenon DEF CfiHeard, bits, seq
<1>10. CfiDecode(bits) = in.cfi
  BY <1>1, <1>5, CfiIsRead
<1> QED
  BY <1>9, <1>10

-----------------------------------------------------------------------------
(* What has been called for.                                               *)

\* What PutInOrder and ConvertReferences send
OrderRead(in) == Deinterleave(OrderSent(PdcchLen(in.rbs, in.cfi, in.ng) \div 4, in.cell), in.cell) \o << >>

PilotsRead(in) ==
  [bins |-> [k \in Subcarriers(in.rbs) |-> RbBins(in.rbs, k \div RbLen)[k % RbLen]],
   fft  |-> [l \in SlotSymbols |-> FftInput(in.rbs, l)],
   read |-> [l \in {0, 4} |->
                LET k == RefSubcarriers(in.rbs, in.cell, in.ant, l)
                IN [m \in DOMAIN k |-> PilotBin(in.rbs, k[m])]],
   averaged |-> AveragedPilots(in.rbs, in.cell, in.ant)]

\* The elements that are read are those of the call.
ElementsOfInputs ==
  /\ call.op = "control" => call.in \in ControlInputs /\ call.out = ControlSent(call.in)
  /\ call.op = "order" => call.in \in ControlInputs /\ call.out = OrderRead(call.in)
  /\ call.op = "data" => call.in \in DataInputs /\ call.out = SharedSent(call.in)
  /\ call.op = "broadcast" => call.in \in BroadcastCells /\ call.out = PbchElements(call.in)
  /\ call.op = "pilots" => call.in \in PilotInputs /\ call.out = PilotsRead(call.in)
  /\ call.op = "pair" => call.in \in PairInputs /\ call.out = PairOutput(call.in)
  /\ call.op = "references" => call.in \in ReferenceInputs /\ call.out = ReferenceBits(call.in)
  /\ call.op = "sequence" => call.in \in Seeds /\ call.out = GoldSeq(call.in.seed, call.in.len)

\* What is said of a cell or a format indicator is that of the call.
NamesOfInputs ==
  /\ call.op = "receiver" => call.sss = SssTable
  /\ call.op = "sss" => call.in \in CellsHeard /\ call.out = SssHeard(call.in)
  /\ call.op = "cfi" => call.in \in Cfis /\ call.out = CfiHeard(call.in)

\* What is returned of a grant is what is made of one that can be sent; words that
\* are being decoded end as words.
OutputsAreOfInputs ==
  /\ call.op = "riv" => call.in \in RivInputs /\ call.out = DecodeRiv(RangeGrant(call.in))
  /\ call.op = "bitmap" => call.in \in BitmapInputs /\ call.out = DecodeRiv(BitmapGrant(call.in))
  /\ call.op = "grant" => /\ call.in \in GrantInputs
                          /\ LET dci == SchemeGrant(call.in)
                             IN call.out = [A |-> TbsGet(dci, call.in.blocks), mod |-> TbsGetModOrder(dci),
                                            rv |-> GetRv(dci, call.in.frame)]
  /\ call.op = "sizes" => call.in \in SizeRows /\ call.out = RowBlocks(call.in)
  /\ call.op = "decoding" => {"op", "kind"} \subseteq DOMAIN call /\ call.kind \in {"word", "pdcch", "pbch"}
  /\ call.op = "turbo" => "op" \in DOMAIN call
  /\ ElementsOfInputs
  /\ NamesOfInputs

\* A range is its own blocks.
LEMMA RangesAreRead ==
  ASSUME OutputsAreOfInputs, call.op = "riv"
  PROVE  BlocksAreOwn
<1> DEFINE in   == call.in
           out  == call.out
           gap  == DistVrbGap(in.rbs, in.gap)
           vrbs == DistVrbs(in.rbs, in.gap)
           half == vrbs \div 2
           all  == IF in.gap = 0 THEN (0..(half - 1)) \cup (gap..(gap + half - 1)) ELSE 0..(2 * half - 1)
           Own(blocks) == /\ Len(blocks) = in.n /\ Cardinality(ToSet(blocks)) = in.n
                          /\ ToSet(blocks) \subseteq 0..(in.rbs - 1)
                          /\ Increasing(blocks, LAMBDA b: b)
<1>1. in \in RivInputs /\ out = DecodeRiv(RangeGrant(in))
  BY DEF OutputsAreOfInputs
<1> HIDE DEF in, out
<1>2. RangeIsOwn(in, out)
  BY <1>1, RangesAreOwn
<1>3. \A blocks : Owns(blocks, in.n, in.rbs) => Own(blocks)
  BY DEF Owns, Increasing
<1>4. in.gap >= 0 => 2 * half = vrbs
  <2> SUFFICES ASSUME in.gap >= 0 PROVE 2 * half = vrbs
    OBVIOUS
  <2>1. in.rbs \in Bandwidths /\ in.gap \in {0, 1} /\ (in.gap = 1 => in.rbs >= 50)
    BY <1>1, RivAssumption
  <2>2. PICK m \in Nat, rows \in Nat, h \in Nat, k \in Nat : Arranged(in.rbs, in.gap, m, rows, h, k)
    BY <2>1, BandsAreArranged
  <2> DEFINE a == m * k
  <2>3. a \in Nat /\ vrbs = 2 * a
    BY <2>2 DEF Arranged
  <2> HIDE DEF a, vrbs
  <2> QED
    BY <2>3
<1>5. all = AllPlaces(in.rbs, in.gap)
  BY DEF AllPlaces
<1> HIDE DEF all, half, Own
<1>6. /\ out.blocks = in.n /\ Own(out.even) /\ Own(out.odd)
      /\ in.gap < 0 => ToSet(out.even) = in.start..(in.start + in.n - 1) /\ out.odd = out.even
      /\ in.gap >= 0 /\ in.n = 2 * half => ToSet(out.even) = all /\ ToSet(out.odd) = all
  BY <1>2, <1>3, <1>4, <1>5 DEF RangeIsOwn
<1> QED
  BY <1>6 DEF BlocksAreOwn, all, half, Own, in, out

\* A bitmap is the blocks of its bits.
LEMMA BitmapsAreRead ==
  ASSUME OutputsAreOfInputs, call.op = "bitmap"
  PROVE  BitmapIsRead
<1> DEFINE in   == call.in
           p    == TypeZeroP(in.rbs)
           size == Type0Ra(in.rbs)
           wide == IF in.rbs <= 26 THEN 1 ELSE 2
           sub  == in.assign \div 2^(size - wide)
           shifted == (in.assign \div 2^(size - wide - 1)) % 2 = 1
           n    == size - wide - 1
           members == Ascending({b \in 0..(in.rbs - 1) : (b \div p) % p = sub}, in.rbs)
           first == IF shifted THEN Len(members) - n ELSE 0
           Granted1(b) ==
             IF in.header = 0 THEN BitAt(in.assign, size, b \div p + 1)
             ELSE \E i \in 1..n : BitAt(in.assign % 2^n, n, i) /\ first + i \in DOMAIN members /\ members[first + i] = b
<1>1. in \in BitmapInputs /\ call.out = Same(BitmapMeans(in))
  BY BitmapIsMeant DEF OutputsAreOfInputs
<1>2. call.out.even = BitmapMeans(in) /\ call.out.odd = BitmapMeans(in)
  BY <1>1 DEF Same, Allocation
<1>3. n = SubsetBits(in.rbs) /\ size - wide = BelowSubset(in.rbs)
  <2>1. size \in Int
    BY <1>1, BitmapAssumption DEF Bandwidths, Type0Ra
  <2> HIDE DEF size
  <2> QED
    BY <2>1 DEF SubsetBits, BelowSubset, size
<1> HIDE DEF in
<1>4. BitmapMeans(in) = Ascending({b \in 0..(in.rbs - 1) : Granted1(b)}, in.rbs)
  <2>1. CASE in.header = 0
    <3>1. BitmapMeans(in) = Ascending({b \in 0..(in.rbs - 1) : BitAt(in.assign, size, b \div p + 1)}, in.rbs)
      BY <2>1, Zenon DEF BitmapMeans
    <3>2. \A b : Granted1(b) <=> BitAt(in.assign, size, b \div p + 1)
      BY <2>1, Zenon
    <3> HIDE DEF Granted1
    <3>3. {b \in 0..(in.rbs - 1) : Granted1(b)} = {b \in 0..(in.rbs - 1) : BitAt(in.assign, size, b \div p + 1)}
      BY <3>2, Zenon
    <3> QED
      BY <3>1, <3>3, Zenon
  <2>2. CASE in.header # 0
    <3> DEFINE bits == SubsetBits(in.rbs)
               mem  == Members(in.rbs, p, sub)
               fst  == IF (in.assign \div 2^bits) % 2 = 1 THEN Len(mem) - bits ELSE 0
    <3>1. BitmapMeans(in) = SubsetGranted(in.rbs, in.assign \div 2^BelowSubset(in.rbs),
                                          (in.assign \div 2^bits) % 2, in.assign % 2^bits)
      BY <2>2, Zenon DEF BitmapMeans
    <3>2. sub = in.assign \div 2^BelowSubset(in.rbs)
      BY <1>3, Zenon
    <3>3. members = mem
      BY Zenon DEF Members
    <3>4. first = fst
      BY <1>3, <3>3, Zenon
    <3> HIDE DEF sub
    <3>5. BitmapMeans(in) = Ascending({b \in 0..(in.rbs - 1) : \E i \in 1..bits : /\ BitAt(in.assign % 2^bits, bits, i)
                                                                            /\ fst + i \in DOMAIN mem
                                                                            /\ mem[fst + i] = b}, in.rbs)
      BY <3>1, <3>2, Zenon DEF SubsetGranted
    <3> HIDE DEF members, mem, first, fst
    <3>6. \A b : Granted1(b) <=> \E i \in 1..bits : /\ BitAt(in.assign % 2^bits, bits, i)
                                                   /\ fst + i \in DOMAIN mem
                                                   /\ mem[fst + i] = b
      <4>1. \A b : Granted1(b) <=> \E i \in 1..n : /\ BitAt(in.assign % 2^n, n, i)
                                                  /\ first + i \in DOMAIN members
                                                  /\ members[first + i] = b
        BY <2>2, Zenon
      <4> HIDE DEF Granted1, n, bits
      <4>2. n = bits
        BY <1>3 DEF n, bits
      <4> QED
        BY <3>3, <3>4, <4>1, <4>2, Zenon
    <3> HIDE DEF Granted1, bits
    <3> QED
      BY <3>5, <3>6, Zenon
  <2> QED
    BY <2>1, <2>2
<1> QED
  BY <1>2, <1>4, Zenon DEF BitmapIsRead, in

\* A scheme has its modulation, its size and its version.
LEMMA GrantsAreMeant ==
  ASSUME OutputsAreOfInputs, call.op = "grant"
  PROVE  GrantIsRead
<1> DEFINE in  == call.in
           out == call.out
           dci == SchemeGrant(in)
<1>1. in \in GrantInputs /\ out = [A |-> TbsGet(dci, in.blocks), mod |-> TbsGetModOrder(dci), rv |-> GetRv(dci, in.frame)]
  BY DEF OutputsAreOfInputs
<1> HIDE DEF in, out
<1>2. SchemeMeans(in, TbsGet(dci, in.blocks), TbsGetModOrder(dci), GetRv(dci, in.frame))
  BY <1>1, SchemesAreRead
<1>3. out.A = TbsGet(dci, in.blocks) /\ out.mod = TbsGetModOrder(dci) /\ out.rv = GetRv(dci, in.frame)
  BY <1>1
<1>4. SchemeMeans(in, out.A, out.mod, out.rv)
  BY <1>2, <1>3, Zenon
<1> QED
  BY <1>4, Zenon DEF SchemeMeans, GrantIsRead, in, out

\* Sizes are cut into segments that fill them.
LEMMA SizesAreCut ==
  ASSUME OutputsAreOfInputs, call.op = "sizes"
  PROVE  SegmentsTile
<1>1. call.in \in SizeRows /\ call.out = RowBlocks(call.in)
  BY DEF OutputsAreOfInputs
<1>2. \A result \in call.out : result.rc = 0 /\ result.blk.F = 0 /\ Tiled(result.blk)
  BY <1>1, RowsAreTiled
<1> QED
  BY <1>2, Zenon DEF SegmentsTile, Tiled

\* The control region is tiled.
LEMMA ControlsAreTiled ==
  ASSUME ElementsOfInputs, call.op = "control"
  PROVE  ControlIsTiled
<1>1. call.in \in ControlInputs /\ call.out = ControlSent(call.in)
  BY DEF ElementsOfInputs
<1>2. call.in.rbs \in Bandwidths /\ call.in.cell \in CellIds /\ call.in.cfi \in 1..3 /\ call.in.ng \in 0..3
  BY <1>1, ControlAssumption, Zenon
<1>3. ControlTiled(call.in, call.out)
  BY <1>1, <1>2, ControlIsRead, Zenon
<1> QED
  BY <1>3, Zenon DEF ControlTiled, ControlIsTiled

\* The quadruplets come back in order.
LEMMA QuadrupletsComeBack ==
  ASSUME ElementsOfInputs, call.op = "order"
  PROVE  QuadrupletsAreInOrder
<1> DEFINE in == call.in
           count == PdcchLen(in.rbs, in.cfi, in.ng) \div 4
<1>1. in \in ControlInputs /\ call.out = OrderRead(in)
  BY DEF ElementsOfInputs
<1>2. in.rbs \in Bandwidths /\ in.cell \in CellIds /\ in.cfi \in 1..3 /\ in.ng \in 0..3
  BY <1>1, ControlAssumption, Zenon
<1>3. count \in Nat \ {0}
  BY <1>2, QuadsCount
<1>4. in.cell \in Nat
  BY <1>2 DEF CellIds
<1>5. call.out = Deinterleave(OrderSent(count, in.cell), in.cell) \o << >>
  BY <1>1, Zenon DEF OrderRead
<1> HIDE DEF count, in
<1> QED
  BY <1>3, <1>4, <1>5, OrderComesBack DEF QuadrupletsAreInOrder

\* The shared channel is read in full and in order.
LEMMA SharedAreWhole ==
  ASSUME ElementsOfInputs, call.op = "data", ~Misread(call.in)
  PROVE  SharedIsWhole
<1> DEFINE in == call.in
           s == call.out
           n == Len(s)
           GridAt(e) == (7 * e[1] + e[2]) * in.rbs * RbLen + e[3]
<1>1. in \in DataInputs /\ s = SharedSent(in)
  BY DEF ElementsOfInputs
<1>2. SharedRead(in, s)
  BY <1>1, DataIsRead, Zenon
<1>3. /\ ToSet(s) = SharedReference(in)
      /\ s \in Seq(Element) /\ Climbs(s, GridKey(in.rbs))
      /\ n <= SharedLen(in.ants, Len(in.even), FirstSymbol(in.rbs, in.cfi))
      /\ in.sf \notin {0, 5} => n = SharedLen(in.ants, Len(in.even), FirstSymbol(in.rbs, in.cfi))
  BY <1>2, Zenon DEF SharedRead
<1>4. \A e \in Element : GridKey(in.rbs)[e] = GridAt(e)
  BY Zenon DEF GridKey
<1> HIDE DEF in, s, GridAt
<1>5. n \in Nat /\ \A i \in 1..n : s[i] \in Element
  BY <1>3
<1>6. \A i \in 1..(n - 1) : i \in 1..n /\ i + 1 \in 1..n /\ i < i + 1
  BY <1>5
<1>7. \A i \in 1..(n - 1) : GridAt(s[i]) < GridAt(s[i + 1])
  BY <1>3, <1>4, <1>5, <1>6, Zenon DEF Climbs
<1> QED
  BY <1>3, <1>7, Zenon DEF SharedIsWhole, Increasing, in, s, GridAt

\* So is the broadcast channel.
LEMMA BroadcastsAreWhole ==
  ASSUME ElementsOfInputs, call.op = "broadcast"
  PROVE  BroadcastIsWhole
<1> DEFINE s == call.out
           n == Len(s)
           GridAt(e) == e[2] * PbchBlocks * RbLen + e[3]
<1>1. call.in \in CellIds /\ s = PbchElements(call.in)
  BY BroadcastAssumption DEF ElementsOfInputs
<1>2. BroadcastRead(call.in, s)
  BY <1>1, BroadcastIsRead, Zenon
<1>3. s \in Seq(Element) /\ Climbs(s, GridKey(PbchBlocks)) /\ n = PbchSymbols
      /\ ToSet(s) = {e \in {1} \X (0..3) \X Subcarriers(PbchBlocks) : e[2] >= 2 \/ ~RefOfTwo(call.in, e[3])}
  BY <1>2, Zenon DEF BroadcastRead, BroadcastReference
<1> HIDE DEF s
<1>4. n \in Nat /\ (\A i \in 1..n : s[i] \in Element /\ s[i] \in ToSet(s))
  <2>1. \A i \in 1..n : s[i] \in ToSet(s)
    BY <1>3, MembersOf
  <2> QED
    BY <1>3, <2>1
<1>5. \A i \in 1..n : s[i][1] = 1
  <2>1. \A e \in ToSet(s) : e[1] = 1
    BY <1>3
  <2> QED
    BY <1>4, <2>1
<1>6. \A i \in 1..n : GridKey(PbchBlocks)[s[i]] = GridAt(s[i]) + 504 /\ GridAt(s[i]) \in Int
  <2> TAKE i \in 1..n
  <2> DEFINE e == s[i]
  <2>1. e \in Element /\ e[1] = 1
    BY <1>4, <1>5
  <2> HIDE DEF e
  <2>2. e[2] \in Nat /\ e[3] \in Nat
    BY <2>1 DEF Element
  <2>3. GridKey(PbchBlocks)[e] = (7 * e[1] + e[2]) * 6 * 12 + e[3]
    BY <2>1, Zenon DEF GridKey, PbchBlocks, RbLen
  <2>4. GridAt(e) = e[2] * 6 * 12 + e[3]
    BY Zenon DEF PbchBlocks, RbLen
  <2> DEFINE y == GridAt(e)
             g == GridKey(PbchBlocks)[e]
  <2> HIDE DEF GridAt, y, g
  <2>5. g = (7 * e[1] + e[2]) * 6 * 12 + e[3] /\ y = e[2] * 6 * 12 + e[3]
    BY <2>3, <2>4, Zenon DEF g, y
  <2>6. g = y + 504 /\ y \in Int
    <3>1. PICK a \in Nat, b \in Nat : a = e[2] /\ b = e[3]
      BY <2>2, Zenon
    <3>2. g = (7 * 1 + a) * 6 * 12 + b
      BY <2>1, <2>5, <3>1, Zenon
    <3>3. y = a * 6 * 12 + b
      BY <2>5, <3>1, Zenon
    <3> QED
      BY <3>2, <3>3
  <2>7. GridKey(PbchBlocks)[e] = GridAt(e) + 504 /\ GridAt(e) \in Int
    BY <2>6, Zenon DEF g, y
  <2> QED
    BY <2>7 DEF e
<1> HIDE DEF GridAt
<1>7. \A i \in 1..(n - 1) : i \in 1..n /\ i + 1 \in 1..n /\ i < i + 1
  BY <1>4
<1>8. \A i \in 1..(n - 1) : GridAt(s[i]) < GridAt(s[i + 1])
  <2> SUFFICES ASSUME NEW i \in 1..(n - 1) PROVE GridAt(s[i]) < GridAt(s[i + 1])
    OBVIOUS
  <2>1. GridKey(PbchBlocks)[s[i]] < GridKey(PbchBlocks)[s[i + 1]]
    BY <1>3, <1>7, Zenon DEF Climbs
  <2> QED
    BY <1>6, <1>7, <2>1
<1> QED
  BY <1>3, <1>8, Zenon DEF BroadcastIsWhole, Increasing, s, GridAt

\* References are looked for where they are sent.
LEMMA PilotsAreWhere ==
  ASSUME ElementsOfInputs, call.op = "pilots"
  PROVE  PilotsAreFound
<1> DEFINE in == call.in
           out == call.out
           rbs == in.rbs
           cell == in.cell
           ant == in.ant
<1>1. in \in PilotInputs /\ out = PilotsRead(in)
  BY DEF ElementsOfInputs
<1>2. rbs \in Bandwidths /\ cell \in CellIds /\ ant \in {0, 1}
  BY <1>1, PilotAssumption, Zenon
<1>3. /\ out.bins = [k \in Subcarriers(rbs) |-> RbBins(rbs, k \div RbLen)[k % RbLen]]
      /\ out.fft = [l \in SlotSymbols |-> FftInput(rbs, l)]
      /\ out.read = [l \in {0, 4} |-> [m \in DOMAIN RefSubcarriers(rbs, cell, ant, l) |->
                                         PilotBin(rbs, RefSubcarriers(rbs, cell, ant, l)[m])]]
      /\ out.averaged = AveragedPilots(rbs, cell, ant)
  BY <1>1 DEF PilotsRead
<1> HIDE DEF in, out, rbs, cell, ant
<1>4. \A k \in Subcarriers(rbs) : out.bins[k] = BinOf(rbs, k)
  BY <1>2, <1>3, BinsAreBlocks
<1>5. \A l \in SlotSymbols : /\ out.fft[l] \subseteq SymbolStart(rbs, l)..(SymbolStart(rbs, l + 1) - 1)
                             /\ Cardinality(out.fft[l]) = SymLen(rbs)
  <2>1. \A l \in SlotSymbols : out.fft[l] = FftInput(rbs, l)
    BY <1>3
  <2> QED
    BY <1>2, <2>1, SymbolsAreApart
<1>6. SymbolStart(rbs, 7) = SlotLen(rbs)
  BY <1>2, BandsFit DEF BandFits, SymbolStart
<1>7. \A l \in {0, 4}, m \in 0..(2 * rbs - 1) : out.read[l][m] = BinOf(rbs, 6 * m + ((V(ant, l) + cell) % 6))
  <2> TAKE l \in {0, 4}, m \in 0..(2 * rbs - 1)
  <2> DEFINE k == RefSubcarriers(rbs, cell, ant, l)
             v == RefPlace(cell, ant, l)
  <2>1. DOMAIN k = 0..(2 * rbs - 1) /\ k[m] = 6 * m + v /\ 6 * m + v \in Subcarriers(rbs)
    BY <1>2, ReferencePlaces
  <2>2. out.read[l] = [j \in DOMAIN k |-> PilotBin(rbs, k[j])]
    BY <1>3
  <2> HIDE DEF k
  <2>3. out.read[l][m] = PilotBin(rbs, k[m])
    BY <2>1, <2>2
  <2>4. v = (V(ant, l) + cell) % 6
    BY Zenon DEF RefPlace
  <2> HIDE DEF v
  <2> QED
    BY <1>2, <2>1, <2>3, <2>4, PilotBinIs
<1>8. out.averaged \cap {BinOf(rbs, k) : k \in Subcarriers(rbs)}
        = {BinOf(rbs, k) : k \in {j \in Subcarriers(rbs) : RefOfTwo(cell, j)}}
  BY <1>2, <1>3, AveragesAreOfReferences
<1> QED
  BY <1>4, <1>5, <1>6, <1>7, <1>8, Zenon DEF PilotsAreFound, in, out, rbs, cell, ant

\* A pair gives back its symbols.
LEMMA DiversityComesBack ==
  ASSUME ElementsOfInputs, call.op = "pair"
  PROVE  DiversityIsUndone
<1> DEFINE in == call.in
           out == call.out
           Sum(f) == IF Len(f) = 1 THEN f[1] ELSE f[1] + f[2]
           all  == Sum([a \in DOMAIN in.h |-> Energy(in.h[a][1]) + Energy(in.h[a][2])])
           part == Sum([a \in DOMAIN in.h |-> Energy(in.h[a][1])])
<1>1. in \in PairInputs /\ out = PairOutput(in)
  BY DEF ElementsOfInputs
<1>2. /\ out.two = <<Scaled(all, in.x[1]), Scaled(all, in.x[2])>>
      /\ out.one = <<Scaled(part, in.x[1]), Scaled(part, in.x[2])>>
  BY <1>1, PairsComeBack, Zenon
<1>3. \A e : <<Scaled(e, in.x[1]), Scaled(e, in.x[2])>> = [k \in 1..2 |-> Times(<<e, 0>>, in.x[k])]
  BY DEF Scaled
<1>4. out.two = [k \in 1..2 |-> Times(<<all, 0>>, in.x[k])] /\ out.one = [k \in 1..2 |-> Times(<<part, 0>>, in.x[k])]
  <2> HIDE DEF all, part, in, out
  <2> QED
    BY <1>2, <1>3, Zenon
<1> QED
  BY <1>4, Zenon DEF DiversityIsUndone, Energy

\* The references of a cell
LEMMA ReferencesAreStandard ==
  ASSUME ElementsOfInputs, call.op = "references"
  PROVE  ReferencesAreOfCell
<1> DEFINE in == call.in
           out == call.out
           seed == 2^10 * (7 * (in.slot + 1) + in.l + 1) * (2 * in.cell + 1) + 2 * in.cell + 1
<1>1. in \in ReferenceInputs /\ out = ReferenceBits(in)
  BY DEF ElementsOfInputs
<1>2. in.rbs \in Bandwidths /\ in.cell \in CellIds /\ in.slot \in 0..19 /\ in.l \in {0, 4}
  BY <1>1, ReferenceAssumption
<1>3. ASSUME NEW m \in {0, in.rbs, 2 * in.rbs - 1}, NEW part \in {0, 1}
      PROVE  out[m][part + 1] = GoldAt(seed, 2 * (m - in.rbs + 110) + part)
  <2>1. m \in 0..(2 * in.rbs - 1)
    BY <1>2 DEF Bandwidths
  <2> DEFINE made == [rbs |-> in.rbs, cell |-> in.cell, slot |-> in.slot, l |-> in.l]
  <2>2. ReferenceBits(made)[m][part + 1] = GoldAt(seed, 2 * (m - in.rbs + 110) + part)
    <3> HIDE DEF in
    <3>1. ReferenceSent(in.rbs, in.cell, in.slot, in.l)
      BY <1>2, Zenon DEF ReferenceSent
    <3>2. ReferenceIs(ReferenceBits(made), in.rbs, in.cell, in.slot, in.l, m, part)
      BY <2>1, <3>1, ReferencesAreRead, Zenon
    <3> QED
      BY <3>2, Zenon DEF ReferenceIs
  <2>3. ReferenceBits(made) = ReferenceBits(in)
    <3>1. made.rbs = in.rbs /\ made.cell = in.cell /\ made.slot = in.slot /\ made.l = in.l
      OBVIOUS
    <3> HIDE DEF made, in
    <3> QED
      BY <3>1, Zenon DEF ReferenceBits
  <2> QED
    BY <1>1, <2>2, <2>3, Zenon
<1>4. \A m \in {0, in.rbs, 2 * in.rbs - 1}, part \in {0, 1} :
         out[m][part + 1] = GoldAt(seed, 2 * (m - in.rbs + 110) + part)
  <2> HIDE DEF in, out, seed
  <2> QED
    BY <1>3, Zenon
<1> QED
  BY <1>4 DEF ReferencesAreOfCell

\* A scrambling sequence
LEMMA SequencesAreStandard ==
  ASSUME ElementsOfInputs, call.op = "sequence"
  PROVE  SequenceIsShifted
<1> DEFINE seed == call.in.seed
           len  == call.in.len
<1>1. call.in \in Seeds /\ call.out = GoldSeq(seed, len)
  BY DEF ElementsOfInputs
<1>2. seed \in Nat /\ len \in Nat
  BY <1>1, SeedAssumption, Zenon
<1> HIDE DEF seed, len
<1>3. /\ Len(call.out) = len
      /\ \A m \in 0..(len - 1) : m + 1600 < MostPlaces => call.out[m + 1] = GoldAt(seed, m)
  BY <1>1, <1>2, GoldIsGoldAt
<1>4. \A m \in {0, 1, 30, 31, 77} : m + 1600 < MostPlaces
  BY DEF MostPlaces
<1>5. \A m \in {0, 1, 30, 31, 77} \cap 0..(len - 1) : call.out[m + 1] = GoldAt(seed, m)
  <2> SUFFICES ASSUME NEW m \in {0, 1, 30, 31, 77} \cap 0..(len - 1) PROVE call.out[m + 1] = GoldAt(seed, m)
    OBVIOUS
  <2>1. m \in 0..(len - 1) /\ m + 1600 < MostPlaces
    BY <1>4
  <2> QED
    BY <1>3, <2>1
<1> QED
  BY <1>3, <1>5, Zenon DEF SequenceIsShifted, seed, len

\* A cell and a format indicator
LEMMA NamesComeBack ==
  ASSUME NamesOfInputs
  PROVE  CellIsNamed
<1>1. ASSUME call.op = "sss"
      PROVE  /\ GroupNumber(GenM(call.in.n1, 0), GenM(call.in.n1, 1)) = call.in.n1
             /\ call.out = [n_id_1 |-> call.in.n1, n_id_cell |-> 3 * call.in.n1 + call.in.n2, dn |-> call.in.half]
  <2>1. call.in \in CellsHeard /\ call.out = SssHeard(call.in)
    BY <1>1, Zenon DEF NamesOfInputs
  <2> QED
    BY <2>1, HeardIsNamed, Zenon DEF SssNamed
<1>2. ASSUME call.op = "cfi" PROVE call.out = call.in.cfi
  <2>1. call.in \in Cfis /\ call.out = CfiHeard(call.in)
    BY <1>2, Zenon DEF NamesOfInputs
  <2> QED
    BY <2>1, CfiComesBack, Zenon
<1> QED
  BY <1>1, <1>2, Zenon DEF CellIsNamed, Ended

\* A call for something else has nothing to say of it.
LEMMA OtherOutputs ==
  ASSUME NEW op, NEW in, NEW out, call' = Returned(op, in, out),
         op \notin {"riv", "bitmap", "grant", "sizes", "decoding", "turbo"},
         op \notin {"control", "order", "data", "broadcast", "pilots", "pair", "references", "sequence"},
         op \notin {"receiver", "sss", "cfi"}
  PROVE  OutputsAreOfInputs'
<1>1. call'.op = op
  BY DEF Returned
<1> QED
  BY <1>1 DEF OutputsAreOfInputs, ElementsOfInputs, NamesOfInputs

\* Every call keeps it.
LEMMA OutputsInvariant == Spec => []OutputsAreOfInputs
<1>1. Init => OutputsAreOfInputs
  BY DEF Init, Idle, OutputsAreOfInputs, ElementsOfInputs, NamesOfInputs
<1>2. ASSUME OutputsAreOfInputs, [Next]_opsVars PROVE OutputsAreOfInputs'
  <2>1. CASE ReadControl
    <3>1. PICK in \in ControlInputs : call' = Returned("control", in, ControlSent(in))
      BY <2>1, Zenon DEF ReadControl, Calls, ControlSent, ControlMark
    <3>2. call'.op = "control" /\ call'.in = in /\ call'.out = ControlSent(in)
      BY <3>1 DEF Returned
    <3> QED
      BY <3>2 DEF OutputsAreOfInputs, ElementsOfInputs, NamesOfInputs
  <2>2. CASE PutInOrder
    <3>1. PICK in \in ControlInputs : call' = Returned("order", in, OrderRead(in))
      BY <2>2, Zenon DEF PutInOrder, Calls, OrderRead, OrderSent
    <3>2. call'.op = "order" /\ call'.in = in /\ call'.out = OrderRead(in)
      BY <3>1 DEF Returned
    <3> QED
      BY <3>2 DEF OutputsAreOfInputs, ElementsOfInputs, NamesOfInputs
  <2>3. CASE ReadData
    <3>1. PICK in \in DataInputs : call' = Returned("data", in, SharedSent(in))
      BY <2>3, Zenon DEF ReadData, Calls, SharedSent
    <3>2. call'.op = "data" /\ call'.in = in /\ call'.out = SharedSent(in)
      BY <3>1 DEF Returned
    <3> QED
      BY <3>2 DEF OutputsAreOfInputs, ElementsOfInputs, NamesOfInputs
  <2>4. CASE ReadBroadcast
    <3>1. PICK in \in BroadcastCells : call' = Returned("broadcast", in, PbchElements(in))
      BY <2>4, Zenon DEF ReadBroadcast, Calls
    <3>2. call'.op = "broadcast" /\ call'.in = in /\ call'.out = PbchElements(in)
      BY <3>1 DEF Returned
    <3> QED
      BY <3>2 DEF OutputsAreOfInputs, ElementsOfInputs, NamesOfInputs
  <2>5. CASE MakeReferences
    <3>1. PICK in \in ReferenceInputs : call' = Returned("references", in, ReferenceBits(in))
      BY <2>5, Zenon DEF MakeReferences, Calls, ReferenceBits
    <3>2. call'.op = "references" /\ call'.in = in /\ call'.out = ReferenceBits(in)
      BY <3>1 DEF Returned
    <3> QED
      BY <3>2 DEF OutputsAreOfInputs, ElementsOfInputs, NamesOfInputs
  <2>6. CASE ConvertReferences
    <3>1. PICK in \in PilotInputs : call' = Returned("pilots", in, PilotsRead(in))
      BY <2>6, Zenon DEF ConvertReferences, Calls, PilotsRead
    <3>2. call'.op = "pilots" /\ call'.in = in /\ call'.out = PilotsRead(in)
      BY <3>1 DEF Returned
    <3> QED
      BY <3>2 DEF OutputsAreOfInputs, ElementsOfInputs, NamesOfInputs
  <2>7. CASE UndoDiversity
    <3>1. PICK in \in PairInputs : call' = Returned("pair", in, PairOutput(in))
      BY <2>7, Zenon DEF UndoDiversity, Calls, PairOutput, ReceivedOfTwo, ReceivedOfOne
    <3>2. call'.op = "pair" /\ call'.in = in /\ call'.out = PairOutput(in)
      BY <3>1 DEF Returned
    <3> QED
      BY <3>2 DEF OutputsAreOfInputs, ElementsOfInputs, NamesOfInputs
  <2>8. CASE ReadDci
    <3>1. \E in, out : call' = Returned("dci", in, out)
      BY <2>8, Zenon DEF ReadDci, Calls
    <3> QED
      BY <3>1, OtherOutputs
  <2>9. CASE ReadRiv
    <3>1. PICK in \in RivInputs : call' = Returned("riv", in, DecodeRiv(RangeGrant(in)))
      BY <2>9, Zenon DEF ReadRiv, Calls, RangeGrant
    <3>2. call'.op = "riv" /\ call'.in = in /\ call'.out = DecodeRiv(RangeGrant(in))
      BY <3>1 DEF Returned
    <3> QED
      BY <3>2 DEF OutputsAreOfInputs, ElementsOfInputs, NamesOfInputs
  <2>10. CASE ReadBitmap
    <3>1. PICK in \in BitmapInputs : call' = Returned("bitmap", in, DecodeRiv(BitmapGrant(in)))
      BY <2>10, Zenon DEF ReadBitmap, Calls, BitmapGrant
    <3>2. call'.op = "bitmap" /\ call'.in = in /\ call'.out = DecodeRiv(BitmapGrant(in))
      BY <3>1 DEF Returned
    <3> QED
      BY <3>2 DEF OutputsAreOfInputs, ElementsOfInputs, NamesOfInputs
  <2>11. CASE ReadGrant
    <3> DEFINE Out(in) == [A |-> TbsGet(SchemeGrant(in), in.blocks), mod |-> TbsGetModOrder(SchemeGrant(in)),
                          rv |-> GetRv(SchemeGrant(in), in.frame)]
    <3>1. PICK in \in GrantInputs : call' = Returned("grant", in, Out(in))
      BY <2>11, Zenon DEF ReadGrant, Calls, SchemeGrant
    <3> HIDE DEF Out
    <3>2. call'.op = "grant" /\ call'.in = in /\ call'.out = Out(in)
      BY <3>1 DEF Returned
    <3> QED
      BY <3>2 DEF OutputsAreOfInputs, ElementsOfInputs, NamesOfInputs, Out
  <2>12. CASE ReadSizes
    <3>1. PICK row \in SizeRows : call' = Returned("sizes", row, RowBlocks(row))
      BY <2>12, Zenon DEF ReadSizes, Calls, RowBlocks
    <3>2. call'.op = "sizes" /\ call'.in = row /\ call'.out = RowBlocks(row)
      BY <3>1 DEF Returned
    <3> QED
      BY <3>2 DEF OutputsAreOfInputs, ElementsOfInputs, NamesOfInputs
  <2>13. CASE ReadInterleaver
    <3>1. \E in, out : call' = Returned("interleaver", in, out)
      BY <2>13, Zenon DEF ReadInterleaver, Calls
    <3> QED
      BY <3>1, OtherOutputs
  <2>14. CASE MakeSequence
    <3>1. PICK in \in Seeds : call' = Returned("sequence", in, GoldSeq(in.seed, in.len))
      BY <2>14, Zenon DEF MakeSequence, Calls
    <3>2. call'.op = "sequence" /\ call'.in = in /\ call'.out = GoldSeq(in.seed, in.len)
      BY <3>1 DEF Returned
    <3> QED
      BY <3>2 DEF OutputsAreOfInputs, ElementsOfInputs, NamesOfInputs
  <2>15. CASE StartWord
    <3>1. PICK in, dec : call' = [op |-> "decoding", kind |-> "word", in |-> in, dec |-> dec]
      BY <2>15, Zenon DEF StartWord
    <3>2. call'.op = "decoding" /\ call'.kind = "word" /\ {"op", "kind"} \subseteq DOMAIN call'
      BY <3>1
    <3> QED
      BY <3>2 DEF OutputsAreOfInputs, ElementsOfInputs, NamesOfInputs
  <2>16. CASE StartControlWord
    <3>1. PICK in, dec : call' = [op |-> "decoding", kind |-> "pdcch", in |-> in, dec |-> dec]
      BY <2>16, Zenon DEF StartControlWord
    <3>2. call'.op = "decoding" /\ call'.kind = "pdcch" /\ {"op", "kind"} \subseteq DOMAIN call'
      BY <3>1
    <3> QED
      BY <3>2 DEF OutputsAreOfInputs, ElementsOfInputs, NamesOfInputs
  <2>17. CASE StartMib
    <3>1. PICK in, heard, stack, dec : call' = [op |-> "decoding", kind |-> "pbch", in |-> in, n |-> 0,
                                                 heard |-> heard, stack |-> stack, dec |-> dec]
      BY <2>17, Zenon DEF StartMib
    <3>2. call'.op = "decoding" /\ call'.kind = "pbch" /\ {"op", "kind"} \subseteq DOMAIN call'
      BY <3>1
    <3> QED
      BY <3>2 DEF OutputsAreOfInputs, ElementsOfInputs, NamesOfInputs
  <2>18. CASE AdvanceWord
    <3>1. call.op = "decoding" /\ call' = [call EXCEPT !.dec = Advance(call.dec)]
      BY <2>18 DEF AdvanceWord
    <3>2. {"op", "kind"} \subseteq DOMAIN call /\ call.kind \in {"word", "pdcch", "pbch"}
      BY <1>2, <3>1 DEF OutputsAreOfInputs, ElementsOfInputs, NamesOfInputs
    <3>3. call'.op = "decoding" /\ call'.kind = call.kind /\ DOMAIN call' = DOMAIN call
      BY <3>1, <3>2
    <3> QED
      BY <3>2, <3>3 DEF OutputsAreOfInputs, ElementsOfInputs, NamesOfInputs
  <2>19. CASE FinishWord
    <3>1. call.op = "decoding" /\ call'.op = call.kind
      BY <2>19 DEF FinishWord, Returned
    <3>2. call.kind \in {"word", "pdcch", "pbch"}
      BY <1>2, <3>1 DEF OutputsAreOfInputs, ElementsOfInputs, NamesOfInputs
    <3> QED
      BY <3>1, <3>2 DEF OutputsAreOfInputs, ElementsOfInputs, NamesOfInputs
  <2>20. CASE StartShared
    <3>1. PICK in, dec : call' = [op |-> "turbo", in |-> in, dec |-> dec]
      BY <2>20, Zenon DEF StartShared
    <3>2. call'.op = "turbo" /\ "op" \in DOMAIN call'
      BY <3>1
    <3> QED
      BY <3>2 DEF OutputsAreOfInputs, ElementsOfInputs, NamesOfInputs
  <2>21. CASE AdvanceShared
    <3>1. call.op = "turbo" /\ call' = [call EXCEPT !.dec = Walked(call.dec)]
      BY <2>21 DEF AdvanceShared
    <3>2. "op" \in DOMAIN call
      BY <1>2, <3>1 DEF OutputsAreOfInputs, ElementsOfInputs, NamesOfInputs
    <3>3. call'.op = "turbo" /\ "op" \in DOMAIN call'
      BY <3>1, <3>2
    <3> QED
      BY <3>3 DEF OutputsAreOfInputs, ElementsOfInputs, NamesOfInputs
  <2>22. CASE FinishShared
    <3>1. \E in, out : call' = Returned("shared", in, out)
      BY <2>22, Zenon DEF FinishShared, Calls
    <3> QED
      BY <3>1, OtherOutputs
  <2>23. CASE ReadCfi
    <3>1. PICK in \in Cfis : call' = Returned("cfi", in, CfiHeard(in))
      BY <2>23, Zenon DEF ReadCfi, Calls, CfiHeard, CfiSent, CfiSequence
    <3>2. call'.op = "cfi" /\ call'.in = in /\ call'.out = CfiHeard(in)
      BY <3>1 DEF Returned
    <3> QED
      BY <3>2 DEF OutputsAreOfInputs, ElementsOfInputs, NamesOfInputs
  <2>24. CASE InitReceiver
    <3>1. call'.op = "receiver" /\ call'.sss = SssTable
      BY <2>24 DEF InitReceiver
    <3> QED
      BY <3>1 DEF OutputsAreOfInputs, ElementsOfInputs, NamesOfInputs
  <2>25. CASE DetectSss
    <3>1. call.sss = SssTable
      BY <1>2, <2>25 DEF DetectSss, OutputsAreOfInputs, NamesOfInputs
    <3>2. PICK in \in CellsHeard : call' = Returned("sss", in, SssHeard(in))
      BY <2>25, <3>1, Zenon DEF DetectSss, SssHeard
    <3>3. call'.op = "sss" /\ call'.in = in /\ call'.out = SssHeard(in)
      BY <3>2 DEF Returned
    <3> QED
      BY <3>3 DEF OutputsAreOfInputs, ElementsOfInputs, NamesOfInputs
  <2>26. CASE SearchPss
    <3>1. \E in, out : call' = Returned("pss", in, out)
      BY <2>26, Zenon DEF SearchPss, Calls
    <3> QED
      BY <3>1, OtherOutputs
  <2>27. CASE Return
    <3>1. call'.op = "idle"
      BY <2>27 DEF Return, Idle
    <3> QED
      BY <3>1 DEF OutputsAreOfInputs, ElementsOfInputs, NamesOfInputs
  <2>28. CASE NextQuarter
    <3>1. call.op = "decoding" /\ call' = [call EXCEPT !.n = call.n + 1, !.dec = Quarter(call.heard, call.stack, call.n + 1)]
      BY <2>28 DEF NextQuarter
    <3>2. {"op", "kind"} \subseteq DOMAIN call /\ call.kind \in {"word", "pdcch", "pbch"}
      BY <1>2, <3>1 DEF OutputsAreOfInputs, ElementsOfInputs, NamesOfInputs
    <3>3. call'.op = "decoding" /\ call'.kind = call.kind /\ DOMAIN call' = DOMAIN call
      BY <3>1, <3>2
    <3> QED
      BY <3>2, <3>3 DEF OutputsAreOfInputs, ElementsOfInputs, NamesOfInputs
  <2>29. CASE UNCHANGED opsVars
    BY <1>2, <2>29 DEF opsVars, OutputsAreOfInputs, ElementsOfInputs, NamesOfInputs
  <2> QED
    BY <1>2, <2>1, <2>2, <2>3, <2>4, <2>5, <2>6, <2>7, <2>8, <2>9, <2>10, <2>11, <2>12, <2>13, <2>14, <2>15, <2>16, <2>17, <2>18, <2>19, <2>20, <2>21, <2>22, <2>23, <2>24, <2>25, <2>26, <2>27, <2>28, <2>29, Zenon DEF Next
<1> QED
  BY <1>1, <1>2, PTL DEF Spec

\* Whatever grant a base station sends, it is read as it was meant: GrantsAreRead,
\* for every set of grants with the assumptions above (pdsch_riv.c, pdsch_vrb.c,
\* pdsch_tbs.c, lte_pdsch_blk_init).
THEOREM EveryGrantIsRead == Spec => []GrantsAreRead
<1>1. OutputsAreOfInputs => GrantsAreRead
  <2> SUFFICES ASSUME OutputsAreOfInputs PROVE GrantsAreRead
    OBVIOUS
  <2> QED
    BY RangesAreRead, BitmapsAreRead, GrantsAreMeant, SizesAreCut, Zenon DEF GrantsAreRead, Ended
<1> QED
  BY <1>1, OutputsInvariant, PTL

\* Whatever is sent, its elements are read as they were, but for the grants of the
\* shared channel that Misread names: in subframes 0 and 5 the half-taken blocks of
\* 15, and in subframe 0 those of any odd band for one antenna.  ElementsAreExact
\* holds for every set of inputs with the assumptions of the model (pcfich.c,
\* phich.c, pdcch.c, pdsch.c, pbch.c, ofdm.c, ref.c, gold.c, precode.c).
THEOREM EveryElementIsRead == Spec => []ElementsAreExact
<1>1. OutputsAreOfInputs => ElementsAreExact
  <2> SUFFICES ASSUME OutputsAreOfInputs PROVE ElementsAreExact
    OBVIOUS
  <2>1. ElementsOfInputs
    BY Zenon DEF OutputsAreOfInputs
  <2> QED
    BY <2>1, ControlsAreTiled, QuadrupletsComeBack, SharedAreWhole, BroadcastsAreWhole, PilotsAreWhere,
       ReferencesAreStandard, SequencesAreStandard, DiversityComesBack, Zenon DEF ElementsAreExact, Ended
<1> QED
  BY <1>1, OutputsInvariant, PTL

\* Whichever cell is heard with up to seven bits of its register wrong, it is named
\* with the half of its frame, its group is that of the standard's table, and a
\* format indicator is read with up to four bits wrong: CellIsNamed, for every set
\* of cells and indicators with the assumptions of the model (lte_sss_detect,
\* gen_m, lte_gen_sss, pcfich_decode).
THEOREM EveryCellIsNamed == Spec => []CellIsNamed
<1>1. OutputsAreOfInputs => CellIsNamed
  BY NamesComeBack, Zenon DEF OutputsAreOfInputs
<1> QED
  BY <1>1, OutputsInvariant, PTL
=============================================================================
