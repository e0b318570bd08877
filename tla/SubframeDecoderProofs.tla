------------------------ MODULE SubframeDecoderProofs ------------------------
(***************************************************************************)
(* Proofs about module SubframeDecoder, for any cells, RNTIs, table of DCIs *)
(* and payloads.                                                           *)
(***************************************************************************)
EXTENDS SubframeDecoder, GrantProofs

-----------------------------------------------------------------------------
(* The candidates of a group.                                              *)

LEMMA CandidateShape ==
  ASSUME NEW k \in 1..15
  PROVE  Candidates[k] = IF k = 1 THEN <<8, 0>> ELSE IF k <= 3 THEN <<4, k - 2>>
                         ELSE IF k <= 7 THEN <<2, k - 4>> ELSE <<1, k - 8>>
  BY DEF Candidates

LEMMA CandidateCount == Len(Candidates) = 15 /\ DOMAIN Candidates = 1..15
  BY DEF Candidates

\* Their levels, blocks and elements.
LEMMA CandidateLevels ==
  ASSUME NEW k \in 1..15
  PROVE  /\ k = 1 => /\ Candidates[k][1] = 8
                     /\ Span(Candidates[k]) = 0..7
         /\ k \in 2..3 => /\ Candidates[k][1] = 4 /\ Candidates[k][2] = k - 2
                          /\ Span(Candidates[k]) = (4 * (k - 2)) .. (4 * (k - 2) + 3)
         /\ k \in 4..7 => /\ Candidates[k][1] = 2 /\ Candidates[k][2] = k - 4
                          /\ Span(Candidates[k]) = (2 * (k - 4)) .. (2 * (k - 4) + 1)
         /\ k \in 8..15 => /\ Candidates[k][1] = 1 /\ Candidates[k][2] = k - 8
                           /\ Span(Candidates[k]) = (k - 8) .. (k - 8)
<1>1. CASE k = 1
  <2>1. Candidates[k] = <<8, 0>>
    BY <1>1, CandidateShape
  <2> QED
    BY <1>1, <2>1 DEF Span
<1>2. CASE k \in 2..3
  <2>1. Candidates[k] = <<4, k - 2>>
    BY <1>2, CandidateShape
  <2> QED
    BY <1>2, <2>1 DEF Span
<1>3. CASE k \in 4..7
  <2>1. Candidates[k] = <<2, k - 4>>
    BY <1>3, CandidateShape
  <2> QED
    BY <1>3, <2>1 DEF Span
<1>4. CASE k \in 8..15
  <2>1. Candidates[k] = <<1, k - 8>>
    BY <1>4, CandidateShape
  <2> QED
    BY <1>4, <2>1 DEF Span
<1> QED
  BY <1>1, <1>2, <1>3, <1>4

LEMMA SpanInGroup ==
  ASSUME NEW k \in 1..15
  PROVE  Span(Candidates[k]) \subseteq 0..7
  BY CandidateLevels

SearchRecords ==
  [group : Nat, size : Int, next : Nat, mask : SUBSET (0..7), agg4 : SUBSET Int,
   agg2 : SUBSET Int, dcis : Seq(Nat), cces : Seq(SUBSET Int)]

\* What a hit changes.
Taken(s, i) == {8 * s.group + e : e \in Span(Candidates[i])}

Hit(h, s, rnti, i) ==
  /\ h \in SearchRecords
  /\ h.group = s.group /\ h.size = s.size /\ h.mask = s.mask
  /\ h.next = IF i = 1 THEN 16 ELSE i + 1
  /\ h.agg4 = IF i \in 2..3 THEN s.agg4 \cup {i - 2} ELSE s.agg4
  /\ h.agg2 = IF i \in 4..7 THEN s.agg2 \cup {i - 4} ELSE s.agg2
  /\ h.dcis = Append(s.dcis, rnti)
  /\ h.cces = Append(s.cces, Taken(s, i))

LEMMA HitFields ==
  ASSUME NEW s \in SearchRecords, NEW rnti \in Nat, NEW i \in 1..15
  PROVE  Hit(AfterHit(s, rnti, i), s, rnti, i)
<1> DEFINE h == AfterHit(s, rnti, i)
           c == Candidates[i]
           next == IF c[1] = 8 THEN Len(Candidates) + 1 ELSE i + 1
           agg4 == IF c[1] = 4 THEN s.agg4 \cup {c[2]} ELSE s.agg4
           agg2 == IF c[1] = 2 THEN s.agg2 \cup {c[2]} ELSE s.agg2
           dcis == Append(s.dcis, rnti)
           cces == Append(s.cces, Taken(s, i))
<1>a. h = [s EXCEPT !.next = next, !.agg4 = agg4, !.agg2 = agg2, !.dcis = dcis, !.cces = cces]
  BY DEF AfterHit, Taken
<1> HIDE DEF h
<1>1. /\ next = IF i = 1 THEN 16 ELSE i + 1
      /\ agg4 = IF i \in 2..3 THEN s.agg4 \cup {i - 2} ELSE s.agg4
      /\ agg2 = IF i \in 4..7 THEN s.agg2 \cup {i - 4} ELSE s.agg2
  <2>1. CASE i = 1
    BY <2>1, CandidateLevels, CandidateCount
  <2>2. CASE i \in 2..3
    <3>1. c[1] = 4 /\ c[2] = i - 2 /\ i # 1
      BY <2>2, CandidateLevels
    <3> HIDE DEF c
    <3> QED
      BY <2>2, <3>1
  <2>3. CASE i \in 4..7
    <3>1. c[1] = 2 /\ c[2] = i - 4 /\ i # 1
      BY <2>3, CandidateLevels
    <3> HIDE DEF c
    <3> QED
      BY <2>3, <3>1
  <2>4. CASE i \in 8..15
    <3>1. c[1] = 1 /\ c[2] = i - 8 /\ i # 1
      BY <2>4, CandidateLevels
    <3> HIDE DEF c
    <3> QED
      BY <2>4, <3>1
  <2> QED
    BY <2>1, <2>2, <2>3, <2>4
<1> HIDE DEF next, agg4, agg2
<1>2. s.group \in Nat /\ s.agg4 \in SUBSET Int /\ s.agg2 \in SUBSET Int
      /\ s.dcis \in Seq(Nat) /\ s.cces \in Seq(SUBSET Int)
  BY DEF SearchRecords
<1>3. Taken(s, i) \in SUBSET Int
  <2> SUFFICES ASSUME NEW e \in Span(Candidates[i]) PROVE 8 * s.group + e \in Int
    BY DEF Taken
  <2>1. e \in 0..7
    BY SpanInGroup
  <2> QED
    BY <2>1, <1>2
<1>4. next \in Nat /\ agg4 \in SUBSET Int /\ agg2 \in SUBSET Int
  BY <1>1, <1>2
<1>5. dcis \in Seq(Nat) /\ cces \in Seq(SUBSET Int)
  BY <1>2, <1>3
<1> HIDE DEF dcis, cces
<1>7. /\ h \in SearchRecords
      /\ h.group = s.group /\ h.size = s.size /\ h.mask = s.mask
      /\ h.next = next /\ h.agg4 = agg4 /\ h.agg2 = agg2 /\ h.dcis = dcis /\ h.cces = cces
  BY <1>4, <1>5, <1>a DEF SearchRecords
<1> QED
  BY <1>1, <1>7 DEF h, dcis, cces, Hit

\* The elements of a later candidate that is still tried after a hit are not
\* those of the hit: the masks keep them apart.
LEMMA LaterIsApart ==
  ASSUME NEW s \in SearchRecords, NEW rnti \in Nat, NEW i \in 1..15, NEW k \in 1..15,
         AfterHit(s, rnti, i).next <= k, IsTried(AfterHit(s, rnti, i), rnti, Candidates[k])
  PROVE  /\ Span(Candidates[i]) \cap Span(Candidates[k]) = {}
         /\ IsTried(s, rnti, Candidates[k])
<1> DEFINE h == AfterHit(s, rnti, i)
<1>0. /\ h.size = s.size /\ h.mask = s.mask
      /\ h.next = IF i = 1 THEN 16 ELSE i + 1
      /\ h.agg4 = IF i \in 2..3 THEN s.agg4 \cup {i - 2} ELSE s.agg4
      /\ h.agg2 = IF i \in 4..7 THEN s.agg2 \cup {i - 4} ELSE s.agg2
  <2>1. Hit(h, s, rnti, i)
    BY HitFields
  <2> HIDE DEF h
  <2> QED
    BY <2>1 DEF Hit
<1>e. h.next <= k /\ IsTried(h, rnti, Candidates[k])
  OBVIOUS
<1> HIDE DEF h
<1>1. i # 1 /\ i < k
  BY <1>0, <1>e
<1>2. IsTried(s, rnti, Candidates[k])
  BY <1>0, <1>e DEF IsTried
<1>3. CASE i \in 2..3
  <2>1. i - 2 \in h.agg4
    BY <1>3, <1>0
  <2>2. Span(Candidates[i]) = (4 * (i - 2)) .. (4 * (i - 2) + 3)
    BY <1>3, CandidateLevels
  <2>3. CASE k <= 3
    <3>0. k \in 2..3
      BY <1>1, <1>3, <2>3
    <3>1. Span(Candidates[k]) = (4 * (k - 2)) .. (4 * (k - 2) + 3)
      BY <3>0, CandidateLevels
    <3> QED
      BY <1>1, <1>2, <1>3, <2>2, <3>0, <3>1
  <2>4. CASE k \in 4..7
    <3>1. (k - 4) \div 2 # i - 2
      BY <2>1, <2>4, <1>e, CandidateLevels DEF IsTried
    <3>2. Span(Candidates[k]) = (2 * (k - 4)) .. (2 * (k - 4) + 1)
      BY <2>4, CandidateLevels
    <3> QED
      BY <1>2, <1>3, <2>2, <2>4, <3>1, <3>2
  <2>5. CASE k \in 8..15
    <3>1. (k - 8) \div 4 # i - 2
      BY <2>1, <2>5, <1>e, CandidateLevels DEF IsTried
    <3>2. Span(Candidates[k]) = (k - 8) .. (k - 8)
      BY <2>5, CandidateLevels
    <3> QED
      BY <1>2, <1>3, <2>2, <2>5, <3>1, <3>2
  <2> QED
    BY <1>1, <2>3, <2>4, <2>5
<1>4. CASE i \in 4..7
  <2>1. i - 4 \in h.agg2
    BY <1>4, <1>0
  <2>2. Span(Candidates[i]) = (2 * (i - 4)) .. (2 * (i - 4) + 1)
    BY <1>4, CandidateLevels
  <2>3. CASE k <= 7
    <3>0. k \in 4..7
      BY <1>1, <1>4, <2>3
    <3>1. Span(Candidates[k]) = (2 * (k - 4)) .. (2 * (k - 4) + 1)
      BY <3>0, CandidateLevels
    <3> QED
      BY <1>1, <1>2, <1>4, <2>2, <3>0, <3>1
  <2>4. CASE k \in 8..15
    <3>1. (k - 8) \div 2 # i - 4
      BY <2>1, <2>4, <1>e, CandidateLevels DEF IsTried
    <3>2. Span(Candidates[k]) = (k - 8) .. (k - 8)
      BY <2>4, CandidateLevels
    <3> QED
      BY <1>2, <1>4, <2>2, <2>4, <3>1, <3>2
  <2> QED
    BY <2>3, <2>4
<1>5. CASE i \in 8..15
  BY <1>1, <1>2, <1>5, CandidateLevels
<1> QED
  BY <1>1, <1>2, <1>3, <1>4, <1>5
-----------------------------------------------------------------------------
(* The inductive invariant.                                                *)

InSearch == rx \in {"group", "search", "pdsch"}

Types ==
  /\ rx \in {"read", "pcfich", "pdcch", "group", "search", "pdsch", "write", "exited"}
  /\ DOMAIN sub = {"maps", "num_dci", "dci"}
  /\ todo \in Seq(Nat)
  /\ search \in SearchRecords
  /\ ndci \in Nat
  /\ rx \in {"pcfich", "pdcch"} \/ InSearch => lbuf.cell \in Cells
  /\ rx = "pdcch" \/ InSearch => cfi \in 1..4
  /\ InSearch => todo # << >>

\* What a search s over n elements has taken: elements that exist, from no later
\* group than top, no two the same, ...
Apart(s, n, top) ==
  /\ \A i \in DOMAIN s.cces : \A e \in s.cces[i] : 0 <= e /\ e < n /\ e < 8 * top
  /\ \A i, j \in DOMAIN s.cces : i # j => s.cces[i] \cap s.cces[j] = {}

\* ... and none that a candidate that may still be tried would take.
Ahead(s, rnti) ==
  \A k \in 1..15 : s.next <= k /\ IsTried(s, rnti, Candidates[k]) =>
     \A i \in DOMAIN s.cces : s.cces[i] \cap Taken(s, k) = {}

\* A group lies within the n elements.
Within(s, n) == s.size \in 0..8 /\ 8 * s.group + s.size <= n

Elements ==
  /\ rx \in {"group", "pdsch"} => Apart(search, NumCce, search.group)
  /\ rx = "search" => /\ Apart(search, NumCce, search.group + 1)
                      /\ Ahead(search, Head(todo))
                      /\ Within(search, NumCce)

\* The DCIs found are those of the current RNTI, and what is still to be decoded
\* has been copied into the subframe.
Dcis ==
  /\ InSearch => /\ Len(search.dcis) <= DciMax
                 /\ \A i \in DOMAIN search.dcis : search.dcis[i] = Head(todo)
  /\ rx = "pdsch" => /\ ndci <= Len(search.dcis)
                     /\ ndci > 0 => /\ sub.num_dci = Len(search.dcis)
                                    /\ \A i \in 1..ndci : sub.dci[i] = Head(todo)

Inv == Types /\ Elements /\ Dcis

-----------------------------------------------------------------------------
(* Steps of a search.                                                      *)

LEMMA TakenInGroup ==
  ASSUME NEW s \in SearchRecords, NEW k \in 1..15, NEW e \in Taken(s, k)
  PROVE  /\ e \in Int /\ 8 * s.group <= e /\ e < 8 * s.group + 8
         /\ e - 8 * s.group \in Span(Candidates[k])
<1>1. PICK d \in Span(Candidates[k]) : e = 8 * s.group + d
  BY DEF Taken
<1>2. d \in 0..7
  BY SpanInGroup
<1>3. s.group \in Nat
  BY DEF SearchRecords
<1>4. e - 8 * s.group = d
  BY <1>1, <1>2, <1>3
<1>5. e \in Int /\ 8 * s.group <= e /\ e < 8 * s.group + 8
  BY <1>1, <1>2, <1>3
<1> QED
  BY <1>4, <1>5

\* Once a group has been set up, what earlier ones took is behind it.
LEMMA GroupKeeps ==
  ASSUME NEW s \in SearchRecords, NEW h \in SearchRecords, NEW n \in Int, NEW rnti \in Nat,
         h.group = s.group, h.cces = s.cces, Apart(s, n, s.group)
  PROVE  Apart(h, n, h.group + 1) /\ Ahead(h, rnti)
<1>1. s.group \in Nat
  BY DEF SearchRecords
<1>2. Apart(h, n, h.group + 1)
  <2>1. \A i \in DOMAIN s.cces : \A e \in s.cces[i] : e \in Int
    BY DEF SearchRecords
  <2> QED
    BY <1>1, <2>1 DEF Apart
<1>3. Ahead(h, rnti)
  <2> SUFFICES ASSUME NEW k \in 1..15, NEW i \in DOMAIN s.cces, NEW e \in s.cces[i], e \in Taken(h, k)
               PROVE  FALSE
    BY DEF Ahead
  <2>1. e < 8 * s.group
    BY DEF Apart
  <2>2. e \in Int /\ 8 * s.group <= e
    BY TakenInGroup
  <2> QED
    BY <1>1, <2>1, <2>2
<1> QED
  BY <1>2, <1>3

LEMMA MissKeeps ==
  ASSUME NEW s \in SearchRecords, NEW n \in Int, NEW rnti \in Nat, NEW i \in 1..15,
         s.next <= i, Ahead(s, rnti)
  PROVE  /\ AfterMiss(s, i) \in SearchRecords
         /\ AfterMiss(s, i).group = s.group /\ AfterMiss(s, i).size = s.size
         /\ AfterMiss(s, i).cces = s.cces /\ AfterMiss(s, i).dcis = s.dcis
         /\ Ahead(AfterMiss(s, i), rnti)
<1> DEFINE h == AfterMiss(s, i)
<1>m. h = [s EXCEPT !.next = i + 1]
  BY DEF AfterMiss
<1> HIDE DEF h
<1>1. /\ h \in SearchRecords
      /\ h.group = s.group /\ h.size = s.size /\ h.mask = s.mask
      /\ h.agg4 = s.agg4 /\ h.agg2 = s.agg2
      /\ h.cces = s.cces /\ h.dcis = s.dcis
      /\ h.next = i + 1
  <2>1. i + 1 \in Nat
    OBVIOUS
  <2>2. h \in SearchRecords
    BY <1>m, <2>1 DEF SearchRecords
  <2> QED
    BY <1>m, <2>2 DEF SearchRecords
<1>n. s.next \in Nat
  BY DEF SearchRecords
<1>2. Ahead(h, rnti)
  <2> SUFFICES ASSUME NEW k \in 1..15, h.next <= k, IsTried(h, rnti, Candidates[k]),
                      NEW j \in DOMAIN h.cces
               PROVE  h.cces[j] \cap Taken(h, k) = {}
    BY DEF Ahead
  <2>1. s.next <= k
    BY <1>1, <1>n
  <2>2. IsTried(s, rnti, Candidates[k])
    BY <1>1 DEF IsTried
  <2>3. Taken(h, k) = Taken(s, k)
    BY <1>1 DEF Taken
  <2> QED
    BY <1>1, <2>1, <2>2, <2>3 DEF Ahead
<1> QED
  BY <1>1, <1>2 DEF h

\* A candidate that is taken is not in what was taken before, and what may still
\* be tried is not in it.
LEMMA HitKeeps ==
  ASSUME NEW s \in SearchRecords, NEW n \in Int, NEW rnti \in Nat, NEW i \in 1..15,
         s.next <= i, IsTried(s, rnti, Candidates[i]),
         Ahead(s, rnti), Within(s, n), Apart(s, n, s.group + 1)
  PROVE  /\ Hit(AfterHit(s, rnti, i), s, rnti, i)
         /\ Apart(AfterHit(s, rnti, i), n, s.group + 1)
         /\ Ahead(AfterHit(s, rnti, i), rnti)
<1> DEFINE h == AfterHit(s, rnti, i)
<1>1. Hit(h, s, rnti, i)
  BY HitFields
<1>a. \A k \in 1..15 : h.next <= k /\ IsTried(h, rnti, Candidates[k]) =>
         /\ Span(Candidates[i]) \cap Span(Candidates[k]) = {}
         /\ IsTried(s, rnti, Candidates[k])
  BY LaterIsApart
<1> HIDE DEF h
<1>2. /\ s.group \in Nat /\ s.next \in Nat /\ s.cces \in Seq(SUBSET Int)
      /\ s.size \in Int
  BY DEF SearchRecords
<1>3. h.cces = Append(s.cces, Taken(s, i)) /\ h.group = s.group
  BY <1>1 DEF Hit
<1>4. Taken(s, i) \in SUBSET Int
  BY TakenInGroup
<1>5. /\ DOMAIN h.cces = 1..(Len(s.cces) + 1) /\ DOMAIN s.cces = 1..Len(s.cces)
      /\ Len(s.cces) \in Nat
      /\ \A j \in 1..Len(s.cces) : h.cces[j] = s.cces[j]
      /\ h.cces[Len(s.cces) + 1] = Taken(s, i)
  BY <1>2, <1>3, <1>4
<1>6. \A e \in Taken(s, i) : 0 <= e /\ e < n /\ e < 8 * (s.group + 1)
  <2> SUFFICES ASSUME NEW e \in Taken(s, i)
               PROVE  0 <= e /\ e < n /\ e < 8 * (s.group + 1)
    OBVIOUS
  <2>1. /\ e \in Int /\ 8 * s.group <= e /\ e < 8 * s.group + 8
        /\ e - 8 * s.group \in Span(Candidates[i])
    BY TakenInGroup
  <2>2. e - 8 * s.group \in 0..(s.size - 1)
    BY <2>1 DEF IsTried
  <2>3. 8 * s.group + s.size <= n
    BY DEF Within
  <2> DEFINE base == 8 * s.group
  <2>a. s.group \in Nat /\ s.size \in Int
    BY <1>2
  <2>4. base \in Nat /\ 8 * (s.group + 1) = base + 8 /\ s.size \in Int
    BY <2>a
  <2>5. e \in Int /\ base <= e /\ e < base + 8 /\ base + s.size <= n
    BY <2>1, <2>3
  <2>6. e - base \in 0..(s.size - 1)
    BY <2>2
  <2> HIDE DEF base
  <2>7. e < base + s.size
    BY <2>4, <2>5, <2>6
  <2> QED
    BY <2>4, <2>5, <2>7
<1>7. \A j \in 1..Len(s.cces) : s.cces[j] \cap Taken(s, i) = {}
  BY <1>5 DEF Ahead
<1>8. Apart(h, n, s.group + 1)
  <2>1. \A j \in DOMAIN h.cces : \A e \in h.cces[j] : 0 <= e /\ e < n /\ e < 8 * (s.group + 1)
    <3> SUFFICES ASSUME NEW j \in DOMAIN h.cces, NEW e \in h.cces[j]
                 PROVE  0 <= e /\ e < n /\ e < 8 * (s.group + 1)
      OBVIOUS
    <3>1. CASE j = Len(s.cces) + 1
      BY <1>5, <1>6, <3>1
    <3>2. CASE j \in 1..Len(s.cces)
      BY <1>5, <3>2 DEF Apart
    <3> QED
      BY <1>5, <3>1, <3>2
  <2>2. ASSUME NEW j \in DOMAIN h.cces, NEW m \in DOMAIN h.cces, j # m
        PROVE  h.cces[j] \cap h.cces[m] = {}
    <3>1. CASE j = Len(s.cces) + 1 /\ m \in 1..Len(s.cces)
      BY <1>5, <1>7, <3>1
    <3>2. CASE m = Len(s.cces) + 1 /\ j \in 1..Len(s.cces)
      BY <1>5, <1>7, <3>2
    <3>3. CASE j \in 1..Len(s.cces) /\ m \in 1..Len(s.cces)
      BY <1>5, <2>2, <3>3 DEF Apart
    <3>4. /\ j = Len(s.cces) + 1 \/ j \in 1..Len(s.cces)
          /\ m = Len(s.cces) + 1 \/ m \in 1..Len(s.cces)
      BY <1>5
    <3> QED
      BY <2>2, <3>1, <3>2, <3>3, <3>4
  <2> QED
    BY <2>1, <2>2 DEF Apart
<1>9. Ahead(h, rnti)
  <2> SUFFICES ASSUME NEW k \in 1..15, h.next <= k, IsTried(h, rnti, Candidates[k]),
                      NEW j \in DOMAIN h.cces
               PROVE  h.cces[j] \cap Taken(h, k) = {}
    BY DEF Ahead
  <2>1. /\ Span(Candidates[i]) \cap Span(Candidates[k]) = {}
        /\ IsTried(s, rnti, Candidates[k])
    BY <1>a
  <2>2. s.next <= k
    <3>1. h.next = IF i = 1 THEN 16 ELSE i + 1
      BY <1>1 DEF Hit
    <3> QED
      BY <1>2, <3>1
  <2>3. Taken(h, k) = Taken(s, k)
    BY <1>3 DEF Taken
  <2>4. CASE j \in 1..Len(s.cces)
    BY <1>5, <2>1, <2>2, <2>3, <2>4 DEF Ahead
  <2>5. CASE j = Len(s.cces) + 1
    <3> SUFFICES ASSUME NEW e \in Taken(s, i), e \in Taken(s, k)
                 PROVE  FALSE
      BY <1>5, <2>3, <2>5
    <3>1. e - 8 * s.group \in Span(Candidates[i]) /\ e - 8 * s.group \in Span(Candidates[k])
      BY TakenInGroup
    <3> QED
      BY <2>1, <3>1
  <2> QED
    BY <1>5, <2>4, <2>5
<1> QED
  BY <1>1, <1>8, <1>9 DEF h
-----------------------------------------------------------------------------
(* Steps of the thread.                                                    *)

LEMMA ElementsAreInt ==
  ASSUME Types, rx = "pdcch" \/ InSearch
  PROVE  NumCce \in Int
<1>1. lbuf.cell.rbs \in Nat /\ lbuf.cell.ng \in 0..3 /\ cfi \in 1..4
  BY CellsAssumption DEF Types
<1>2. WideCfi \in 1..5
  BY <1>1 DEF WideCfi
<1>3. PhichSixths[lbuf.cell.ng + 1] \in Nat
  BY <1>1 DEF PhichSixths
<1>4. PhichGroups(lbuf.cell.rbs, lbuf.cell.ng) \in Int
  <2>1. lbuf.cell.rbs * PhichSixths[lbuf.cell.ng + 1] + 47 \in Int
    BY <1>1, <1>3
  <2> QED
    BY <2>1 DEF PhichGroups
<1>5. (WideCfi - 1) * (lbuf.cell.rbs * RbLen) \in Int
  BY <1>1, <1>2 DEF RbLen
<1>6. PdcchLen(lbuf.cell.rbs, WideCfi, lbuf.cell.ng) \in Int
  BY <1>1, <1>4, <1>5 DEF PdcchLen, PcfichSymbols
<1> QED
  BY <1>6 DEF NumCce, CceLen

LEMMA ElementsStay ==
  ASSUME UNCHANGED <<lbuf, cfi>>
  PROVE  NumCce' = NumCce
  BY DEF NumCce, WideCfi

LEMMA EmptySearchIsEmpty ==
  /\ EmptySearch \in SearchRecords
  /\ EmptySearch.group = 0 /\ EmptySearch.dcis = << >> /\ EmptySearch.cces = << >>
  BY DEF EmptySearch, SearchRecords

LEMMA InitInv == Init => Inv
<1> SUFFICES ASSUME Init PROVE Inv
  OBVIOUS
<1>1. Types
  BY EmptySearchIsEmpty DEF Init, Types, InSearch
<1> QED
  BY <1>1 DEF Init, Inv, Elements, Dcis, InSearch

LEMMA NextInv == Inv /\ [Next]_vars => Inv'
<1> SUFFICES ASSUME Inv, [Next]_vars PROVE Inv'
  OBVIOUS
<1> USE DEF Inv
<1>1. CASE ReadBuffer
  <2>1. DOMAIN sub' = {"maps", "num_dci", "dci"}
    BY <1>1 DEF ReadBuffer, SetUp, Types
  <2>2. lbuf'.cell \in Cells
    BY <1>1 DEF ReadBuffer
  <2>3. Types'
    BY <1>1, <2>1, <2>2 DEF ReadBuffer, Types, InSearch
  <2> QED
    BY <1>1, <2>3 DEF ReadBuffer, Elements, Dcis, InSearch
<1>2. CASE DecodePcfich
  <2>1. Types'
    BY <1>2, RntisAssumption DEF DecodePcfich, Types, InSearch
  <2> QED
    BY <1>2, <2>1 DEF DecodePcfich, Elements, Dcis, InSearch
<1>3. CASE StartPdcch
  <2>1. Types'
    BY <1>3, EmptySearchIsEmpty DEF StartPdcch, Types, InSearch
  <2>2. Elements'
    <3>1. search'.cces = << >> /\ rx' # "search"
      BY <1>3, EmptySearchIsEmpty DEF StartPdcch
    <3>2. Apart(search', NumCce', search'.group)
      BY <3>1 DEF Apart
    <3> QED
      BY <3>1, <3>2 DEF Elements
  <2>3. Dcis'
    BY <1>3, EmptySearchIsEmpty, DciMaxAssumption DEF StartPdcch, Dcis, InSearch
  <2> QED
    BY <2>1, <2>2, <2>3
<1>4. CASE EndDecode
  BY <1>4 DEF EndDecode, Types, Elements, Dcis, InSearch
<1>5. CASE StartGroup
  <2> DEFINE g == search.group
             size == GroupSize(NumCce, g)
  <2>1. NumCce \in Int /\ NumCce' = NumCce
    BY <1>5, ElementsAreInt, ElementsStay DEF StartGroup, InSearch
  <2>2. PICK mask \in Masks :
          search' = [search EXCEPT !.size = size, !.mask = mask, !.next = 1, !.agg4 = {}, !.agg2 = {}]
    BY <1>5 DEF StartGroup
  <2>3. mask \in SUBSET (0..7)
    BY MasksAssumption
  <2>4. g \in Nat /\ g <= NumCce \div 8
    BY <1>5, <2>1 DEF StartGroup, NumGroups, Types, SearchRecords
  <2>5. size \in 0..8 /\ 8 * g + size <= NumCce
    BY <2>1, <2>4 DEF GroupSize
  <2> HIDE DEF size
  <2>6. search' \in SearchRecords
    <3>1. search \in SearchRecords /\ size \in Int
      BY <2>5 DEF Types
    <3> QED
      BY <2>2, <2>3, <3>1 DEF SearchRecords
  <2>7. /\ search'.group = g /\ search'.size = size /\ search'.cces = search.cces
        /\ search'.dcis = search.dcis
    BY <2>2 DEF Types, SearchRecords
  <2>8. Types'
    BY <1>5, <2>6 DEF StartGroup, Types, InSearch
  <2>9. Head(todo) \in Nat
    BY <1>5 DEF StartGroup, Types, InSearch
  <2>10. Elements'
    <3>1. Apart(search, NumCce, search.group) /\ search \in SearchRecords
      BY <1>5 DEF StartGroup, Elements, Types
    <3>2. Apart(search', NumCce, search'.group + 1) /\ Ahead(search', Head(todo))
      BY <2>1, <2>6, <2>7, <2>9, <3>1, GroupKeeps
    <3>3. Within(search', NumCce)
      BY <2>5, <2>7 DEF Within
    <3> QED
      BY <1>5, <2>1, <3>2, <3>3 DEF StartGroup, Elements
  <2>11. Dcis'
    BY <1>5, <2>7 DEF StartGroup, Dcis, InSearch
  <2> QED
    BY <2>8, <2>10, <2>11
<1>6. CASE TryCandidate
  <2>1. PICK i \in DOMAIN Candidates :
          /\ IsNext(search, Head(todo), i)
          /\ \/ search' = AfterMiss(search, i)
             \/ Len(search.dcis) < DciMax /\ search' = AfterHit(search, Head(todo), i)
    BY <1>6 DEF TryCandidate
  <2>2. /\ rx = "search" /\ rx' = "search"
        /\ UNCHANGED <<lbuf, sub, cfi, todo, ndci>>
    BY <1>6 DEF TryCandidate
  <2>3. i \in 1..15
    BY CandidateCount
  <2>4. search.next <= i /\ IsTried(search, Head(todo), Candidates[i])
    BY <2>1, CandidateCount DEF IsNext
  <2>5. NumCce \in Int /\ NumCce' = NumCce
    BY <2>2, ElementsAreInt, ElementsStay DEF InSearch
  <2>6. /\ search \in SearchRecords /\ todo \in Seq(Nat) /\ todo # << >>
        /\ Head(todo) \in Nat
    BY <2>2 DEF Types, InSearch
  <2>7. /\ Apart(search, NumCce, search.group + 1) /\ Ahead(search, Head(todo))
        /\ Within(search, NumCce)
    BY <2>2 DEF Elements
  <2>8. /\ Len(search.dcis) <= DciMax
        /\ \A d \in DOMAIN search.dcis : search.dcis[d] = Head(todo)
    BY <2>2 DEF Dcis, InSearch
  <2>9. CASE search' = AfterMiss(search, i)
    <3>1. /\ search' \in SearchRecords
          /\ search'.group = search.group /\ search'.size = search.size
          /\ search'.cces = search.cces /\ search'.dcis = search.dcis
          /\ Ahead(search', Head(todo))
      BY <2>3, <2>4, <2>5, <2>6, <2>7, <2>9, MissKeeps
    <3>2. Types'
      BY <2>2, <3>1 DEF Types, InSearch
    <3>3. Elements'
      BY <2>2, <2>5, <2>7, <3>1 DEF Elements, Apart, Within
    <3>4. Dcis'
      BY <2>2, <2>8, <3>1 DEF Dcis, InSearch
    <3> QED
      BY <3>2, <3>3, <3>4
  <2>10. CASE Len(search.dcis) < DciMax /\ search' = AfterHit(search, Head(todo), i)
    <3>1. /\ Hit(search', search, Head(todo), i)
          /\ Apart(search', NumCce, search.group + 1)
          /\ Ahead(search', Head(todo))
      BY <2>3, <2>4, <2>5, <2>6, <2>7, <2>10, HitKeeps
    <3>2. /\ search' \in SearchRecords /\ search'.group = search.group /\ search'.size = search.size
          /\ search'.dcis = Append(search.dcis, Head(todo))
      BY <3>1 DEF Hit
    <3>3. Types'
      BY <2>2, <3>2 DEF Types, InSearch
    <3>4. Within(search', NumCce)
      BY <2>7, <3>2 DEF Within
    <3>5. Elements'
      BY <2>2, <2>5, <3>1, <3>2, <3>4 DEF Elements
    <3>6. Dcis'
      <4>1. search.dcis \in Seq(Nat)
        BY <2>6 DEF SearchRecords
      <4>2. Len(search'.dcis) <= DciMax
        BY <2>10, <3>2, <4>1, <2>6, DciMaxAssumption
      <4>3. \A d \in DOMAIN search'.dcis : search'.dcis[d] = Head(todo)
        BY <2>6, <2>8, <3>2, <4>1
      <4> QED
        BY <2>2, <4>2, <4>3 DEF Dcis, InSearch
    <3> QED
      BY <3>3, <3>5, <3>6
  <2> QED
    BY <2>1, <2>9, <2>10
<1>7. CASE EndGroup
  <2>1. /\ rx = "search" /\ rx' = "group" /\ search' = [search EXCEPT !.group = search.group + 1]
        /\ UNCHANGED <<lbuf, sub, cfi, todo, ndci>>
    BY <1>7 DEF EndGroup
  <2>2. search \in SearchRecords
    BY DEF Types
  <2>3. search.group + 1 \in Nat
    BY <2>2 DEF SearchRecords
  <2>4. search' \in SearchRecords
    BY <2>1, <2>2, <2>3 DEF SearchRecords
  <2>5. /\ search'.group = search.group + 1 /\ search'.cces = search.cces
        /\ search'.dcis = search.dcis
    BY <2>1, <2>2 DEF SearchRecords
  <2>6. Types'
    BY <2>1, <2>4 DEF Types, InSearch
  <2>7. Elements'
    <3>1. NumCce' = NumCce
      BY <2>1, ElementsStay
    <3>2. Apart(search, NumCce, search.group + 1)
      BY <2>1 DEF Elements
    <3>3. Apart(search', NumCce, search'.group)
      BY <2>5, <3>2 DEF Apart
    <3> QED
      BY <2>1, <3>1, <3>3 DEF Elements
  <2>8. Dcis'
    BY <2>1, <2>5 DEF Dcis, InSearch
  <2> QED
    BY <2>6, <2>7, <2>8
<1>8. CASE EndSearch
  <2>1. /\ rx = "group" /\ rx' = "pdsch"
        /\ sub' = IF search.dcis = << >> THEN sub ELSE Copied(search.dcis)
        /\ ndci' = Len(search.dcis)
        /\ UNCHANGED <<lbuf, cfi, todo, search>>
    BY <1>8 DEF EndSearch
  <2>2. search \in SearchRecords /\ search.dcis \in Seq(Nat)
    BY DEF Types, SearchRecords
  <2>3. DOMAIN sub' = {"maps", "num_dci", "dci"}
    BY <2>1 DEF Copied, Types
  <2>4. Types'
    BY <2>1, <2>2, <2>3 DEF Types, InSearch
  <2>5. Elements'
    BY <2>1, ElementsStay DEF Elements
  <2>6. Dcis'
    <3>1. /\ Len(search.dcis) <= DciMax
          /\ \A d \in DOMAIN search.dcis : search.dcis[d] = Head(todo)
      BY <2>1 DEF Dcis, InSearch
    <3>2. ASSUME ndci' > 0
          PROVE  /\ sub'.num_dci = Len(search.dcis)
                 /\ \A d \in 1..ndci' : sub'.dci[d] = Head(todo)
      <4>1. search.dcis # << >> /\ Len(search.dcis) \in Nat /\ DOMAIN search.dcis = 1..Len(search.dcis)
        BY <2>1, <2>2, <3>2
      <4>2. sub' = [sub EXCEPT !.num_dci = Len(search.dcis),
                               !.dci = [d \in 1..DciMax |-> IF d <= Len(search.dcis) THEN search.dcis[d]
                                                            ELSE sub.dci[d]]]
        BY <2>1, <4>1 DEF Copied
      <4>3. /\ sub'.num_dci = Len(search.dcis)
            /\ sub'.dci = [d \in 1..DciMax |-> IF d <= Len(search.dcis) THEN search.dcis[d]
                                               ELSE sub.dci[d]]
        BY <4>2 DEF Types
      <4> QED
        BY <2>1, <3>1, <4>1, <4>3, DciMaxAssumption
    <3> QED
      BY <2>1, <2>2, <3>1, <3>2 DEF Dcis, InSearch
  <2> QED
    BY <2>4, <2>5, <2>6
<1>9. CASE DecodePdsch
  <2>1. /\ rx = "pdsch" /\ ndci > 0 /\ ndci' = ndci - 1 /\ rx' \in {"pdsch", "exited"}
        /\ UNCHANGED <<lbuf, sub, cfi, todo, search>>
    BY <1>9 DEF DecodePdsch
  <2>2. ndci \in Nat /\ ndci' \in Nat
    BY <2>1 DEF Types
  <2>3. Types'
    BY <2>1, <2>2 DEF Types, InSearch
  <2>4. Elements'
    BY <2>1, ElementsStay DEF Elements
  <2>5. Dcis'
    <3>1. search.dcis \in Seq(Nat)
      BY DEF Types, SearchRecords
    <3> QED
      BY <2>1, <2>2, <3>1 DEF Dcis, InSearch
  <2> QED
    BY <2>3, <2>4, <2>5
<1>10. CASE NextRnti
  <2>1. Types'
    BY <1>10, EmptySearchIsEmpty DEF NextRnti, Types, InSearch
  <2> QED
    BY <1>10, <2>1 DEF NextRnti, Elements, Dcis, InSearch
<1>11. CASE WriteBuffer
  BY <1>11 DEF WriteBuffer, Types, Elements, Dcis, InSearch
<1>12. CASE UNCHANGED vars
  <2>1. UNCHANGED <<rx, lbuf, sub, cfi, todo, search, ndci>>
    BY <1>12 DEF vars
  <2>2. NumCce' = NumCce
    BY <2>1, ElementsStay
  <2> QED
    BY <2>1, <2>2 DEF Types, Elements, Dcis, InSearch
<1> QED
  BY <1>1, <1>2, <1>3, <1>4, <1>5, <1>6, <1>7, <1>8, <1>9, <1>10, <1>11, <1>12 DEF Next

-----------------------------------------------------------------------------
(* The properties.                                                         *)

\* The elements a search has taken, the lengths of what it has found and where
\* it may go on keep the relations of the invariant.
THEOREM DecoderInvariant == Spec => []Inv
  BY InitInv, NextInv, PTL DEF Spec

\* A control channel element lies in at most one of the DCIs a search has found,
\* and is one of the elements there are (pdcch.c: pdcch_dci_power_search_si).
THEOREM CceTakenOnce == Spec => []NoCceTwice
<1>1. Inv => NoCceTwice
  <2> SUFFICES ASSUME Inv, rx \in {"group", "search", "pdsch"}
               PROVE  /\ \A i \in DOMAIN search.cces : search.cces[i] \subseteq 0..(NumCce - 1)
                      /\ \A i, j \in DOMAIN search.cces : i # j => search.cces[i] \cap search.cces[j] = {}
    BY DEF NoCceTwice
  <2>1. NumCce \in Int /\ search.cces \in Seq(SUBSET Int)
    BY ElementsAreInt DEF Inv, InSearch, Types, SearchRecords
  <2>2. \E top : Apart(search, NumCce, top)
    BY DEF Inv, Elements
  <2>3. \A i \in DOMAIN search.cces : search.cces[i] \subseteq Int
    BY <2>1
  <2> QED
    BY <2>1, <2>2, <2>3 DEF Apart
<1> QED
  BY <1>1, DecoderInvariant, PTL

\* What is read from a subframe's table was found for the current RNTI in this
\* subframe (pdsch.c: lte_decode_pdsch; pdcch.c: lte_decode_pdcch).
THEOREM DcisAreFresh == Spec => []OnlyFreshDcis
<1>1. Inv => OnlyFreshDcis
  BY DEF Inv, Types, Dcis, OnlyFreshDcis
<1> QED
  BY <1>1, DecoderInvariant, PTL

\* The references are those of the cell the buffer is stamped with
\* (DecoderPDSCH.cpp: readBufferState, initSubframes).
THEOREM ReferencesOfStamp == Spec => ReferencesMatch
<1>1. Inv /\ [Next]_vars =>
        [IF rx = "read" /\ rx' = "pcfich"
         THEN /\ known' = lbuf'.cell
              /\ \A s \in 1..2 : sub'.maps[s].cell = lbuf'.cell
              /\ known = lbuf'.cell =>
                    sub'.maps = <<Map(lbuf'.cell, 2 * lbuf'.sf), Map(lbuf'.cell, 2 * lbuf'.sf + 1)>>
         ELSE sub'.maps = sub.maps]_vars
  <2> SUFFICES ASSUME Inv, Next
               PROVE  IF rx = "read" /\ rx' = "pcfich"
                      THEN /\ known' = lbuf'.cell
                           /\ \A s \in 1..2 : sub'.maps[s].cell = lbuf'.cell
                           /\ known = lbuf'.cell =>
                                 sub'.maps = <<Map(lbuf'.cell, 2 * lbuf'.sf), Map(lbuf'.cell, 2 * lbuf'.sf + 1)>>
                      ELSE sub'.maps = sub.maps
    OBVIOUS
  <2>1. DOMAIN sub = {"maps", "num_dci", "dci"}
    BY DEF Inv, Types
  <2>2. CASE ReadBuffer
    <3>1. PICK cell \in Cells, sf \in SubframeNumbers :
            /\ lbuf' = [cell |-> cell, sf |-> sf]
            /\ sub' = SetUp(cell, sf)
            /\ known' = IF IdChange(cell) THEN cell ELSE known
      BY <2>2 DEF ReadBuffer
    <3>2. lbuf'.cell = cell /\ lbuf'.sf = sf /\ known' = cell
      BY <3>1 DEF IdChange
    <3>3. CASE known # cell
      <4>1. sub'.maps = <<Map(cell, 0), Map(cell, 0)>>
        BY <3>1, <3>3 DEF SetUp, IdChange
      <4>2. Map(cell, 0).cell = cell
        BY DEF Map
      <4>3. \A s \in 1..2 : sub'.maps[s] = Map(cell, 0)
        BY <4>1
      <4> QED
        BY <2>2, <3>2, <3>3, <4>2, <4>3 DEF ReadBuffer
    <3>4. CASE known = cell
      <4>1. sub'.maps = <<Map(cell, 2 * sf), Map(cell, 2 * sf + 1)>>
        BY <2>1, <3>1, <3>4 DEF SetUp, IdChange
      <4>2. Map(cell, 2 * sf).cell = cell /\ Map(cell, 2 * sf + 1).cell = cell
        BY DEF Map
      <4>3. \A s \in 1..2 : sub'.maps[s].cell = cell
        BY <4>1, <4>2
      <4> QED
        BY <2>2, <3>2, <4>1, <4>3 DEF ReadBuffer
    <3> QED
      BY <3>3, <3>4
  <2>3. CASE EndSearch
    <3>1. rx = "group" /\ sub' = IF search.dcis = << >> THEN sub ELSE Copied(search.dcis)
      BY <2>3 DEF EndSearch
    <3>2. Copied(search.dcis).maps = sub.maps
      BY <2>1 DEF Copied
    <3> QED
      BY <3>1, <3>2
  <2>4. CASE DecodePcfich
    BY <2>4 DEF DecodePcfich
  <2>5. CASE StartPdcch \/ EndDecode \/ StartGroup
    BY <2>5 DEF StartPdcch, EndDecode, StartGroup
  <2>6. CASE TryCandidate \/ EndGroup \/ NextRnti
    BY <2>6 DEF TryCandidate, EndGroup, NextRnti
  <2>7. CASE DecodePdsch \/ WriteBuffer
    BY <2>7 DEF DecodePdsch, WriteBuffer
  <2> QED
    BY <2>2, <2>3, <2>4, <2>5, <2>6, <2>7 DEF Next
<1> QED
  BY <1>1, DecoderInvariant, PTL DEF Spec, ReferencesMatch

-----------------------------------------------------------------------------
(* The block handler.                                                      *)

\* The handler is fresh, or its segments are those of the size it was last initialised
\* for, and so are their lengths, unless that initialisation was refused.
Handler(blk, ref) ==
  /\ DOMAIN blk = BlockFields
  /\ blk.G <= MaxG
  /\ blk.A # 0 => /\ Sized(blk, blk.A)
                  /\ ~ref => Segmented(blk, blk.A, blk.G, blk.Q_m)

SetFor(blk, A, G, qm) == G <= MaxG /\ blk.A = A /\ blk.G = G /\ blk.Q_m = qm

\* So it is after the next one, which ends the process in no case.
LEMMA InitKeepsHandler ==
  ASSUME NEW blk, NEW ref, Handler(blk, ref), NEW A, NEW G, NEW qm, Granted(A, G, qm)
  PROVE  /\ BlkInit(blk, A, G, 1, qm).rc \in {0, -1}
         /\ Handler(BlkInit(blk, A, G, 1, qm).blk,
                    IF ~Initialised(blk, A, G, 1, qm) THEN BlkInit(blk, A, G, 1, qm).rc = -1 ELSE ref)
         /\ BlkInit(blk, A, G, 1, qm).rc = 0 => SetFor(BlkInit(blk, A, G, 1, qm).blk, A, G, qm)
<1> DEFINE init == BlkInit(blk, A, G, 1, qm)
<1>1. DOMAIN blk = BlockFields /\ blk.G <= MaxG
  BY DEF Handler
<1>2. CASE Initialised(blk, A, G, 1, qm)
  <2>1. /\ init = [rc |-> 0, blk |-> blk]
        /\ blk.A = A /\ blk.G = G /\ blk.Q_m = qm
    BY <1>2 DEF BlkInit, Initialised
  <2>2. init.rc = 0 /\ init.blk = blk /\ SetFor(blk, A, G, qm)
    BY <1>1, <2>1 DEF SetFor
  <2> HIDE DEF init
  <2> QED
    BY <1>2, <2>2 DEF init
<1>3. CASE ~Initialised(blk, A, G, 1, qm) /\ G <= MaxG
  <2>1. /\ Segmented(init.blk, A, G, qm)
        /\ init.rc = 0 /\ init.blk.Q_m = qm
    BY <1>1, <1>3, InitSegments
  <2> HIDE DEF init
  <2>2. /\ DOMAIN init.blk = BlockFields /\ init.blk.A = A /\ init.blk.G = G
        /\ Sized(init.blk, A)
    BY <2>1, SegmentedIsSized DEF Segmented
  <2>3. Handler(init.blk, FALSE) /\ SetFor(init.blk, A, G, qm)
    BY <1>3, <2>1, <2>2 DEF Handler, SetFor
  <2>4. (IF ~Initialised(blk, A, G, 1, qm) THEN init.rc = -1 ELSE ref) = FALSE
    BY <1>3, <2>1
  <2>5. /\ init.rc \in {0, -1}
        /\ Handler(init.blk, IF ~Initialised(blk, A, G, 1, qm) THEN init.rc = -1 ELSE ref)
        /\ init.rc = 0 => SetFor(init.blk, A, G, qm)
    BY <2>1, <2>3, <2>4
  <2> QED
    BY <2>5 DEF init
<1>4. CASE ~Initialised(blk, A, G, 1, qm) /\ ~(G <= MaxG)
  <2>1. Sized(init.blk, A) /\ init.rc = -1 /\ init.blk.G = blk.G
    BY <1>1, <1>4, InitRefuses
  <2> HIDE DEF init
  <2>2. Handler(init.blk, TRUE)
    BY <1>1, <2>1 DEF Handler, Sized
  <2>3. (IF ~Initialised(blk, A, G, 1, qm) THEN init.rc = -1 ELSE ref) = TRUE
    BY <1>4, <2>1
  <2>4. Handler(init.blk, IF ~Initialised(blk, A, G, 1, qm) THEN init.rc = -1 ELSE ref)
    BY <2>2, <2>3, Zenon
  <2>5. init.rc \in {0, -1} /\ init.rc # 0
    BY <2>1
  <2> QED
    BY <2>4, <2>5 DEF init
<1> QED
  BY <1>2, <1>3, <1>4

\* What is sent is what the handler is set for.
Blocks ==
  /\ Handler(block, refused)
  /\ sent # NoGrant => /\ Granted(sent.A, sent.G, sent.mod)
                       /\ SetFor(block, sent.A, sent.G, sent.mod)

\* A grant is decoded with a handler that is set up for it, and the thread goes on.
LEMMA DecodeKeepsBlocks ==
  ASSUME Blocks, DecodePdsch
  PROVE  Blocks' /\ rx' = "pdsch"
<1>0. rx = "pdsch"
  BY DEF DecodePdsch
<1>1. PICK p \in {q \in Payloads : q.type \in SearchedFormats(sub.dci[ndci])} :
        IF ndci > sub.num_dci \/ p.grant = NoGrant
        THEN rx' = rx /\ block' = block /\ sent' = NoGrant /\ refused' = refused
        ELSE \E init \in {BlkInit(block, p.grant.A, p.grant.G, 1, p.grant.mod)} :
                /\ rx' = IF HasVersion(p.type) /\ init.rc # -2 THEN rx ELSE "exited"
                /\ block' = IF HasVersion(p.type) THEN init.blk ELSE block
                /\ refused' = IF HasVersion(p.type) /\ ~Initialised(block, p.grant.A, p.grant.G, 1, p.grant.mod)
                              THEN init.rc = -1 ELSE refused
                /\ \/ sent' = NoGrant
                   \/ HasVersion(p.type) /\ init.rc = 0 /\ CanDecode(init.blk) /\ sent' = p.grant
  BY DEF DecodePdsch
<1>2. CASE ndci > sub.num_dci \/ p.grant = NoGrant
  BY <1>0, <1>1, <1>2 DEF Blocks
<1>3. CASE ~(ndci > sub.num_dci \/ p.grant = NoGrant)
  <2> DEFINE g == p.grant
             init == BlkInit(block, g.A, g.G, 1, g.mod)
             ref == IF ~Initialised(block, g.A, g.G, 1, g.mod) THEN init.rc = -1 ELSE refused
  <2>0. HasVersion(p.type)
    BY DEF SearchedFormats, HasVersion
  <2>1. /\ rx' = IF init.rc # -2 THEN "pdsch" ELSE "exited"
        /\ block' = init.blk
        /\ refused' = ref
        /\ sent' = NoGrant \/ (init.rc = 0 /\ sent' = g)
    BY <1>0, <1>1, <1>3, <2>0
  <2>2. Granted(g.A, g.G, g.mod)
    BY <1>3, GrantsAssumption DEF Granted
  <2>3. /\ init.rc \in {0, -1}
        /\ Handler(init.blk, ref)
        /\ init.rc = 0 => SetFor(init.blk, g.A, g.G, g.mod)
    BY <2>2, InitKeepsHandler DEF Blocks
  <2> HIDE DEF g, init, ref
  <2>4. rx' = "pdsch"
    BY <2>1, <2>3
  <2>5. Handler(block', refused')
    BY <2>1, <2>3
  <2>6. sent' # NoGrant => /\ Granted(sent'.A, sent'.G, sent'.mod)
                          /\ SetFor(block', sent'.A, sent'.G, sent'.mod)
    BY <2>1, <2>2, <2>3
  <2> QED
    BY <2>4, <2>5, <2>6 DEF Blocks
<1> QED
  BY <1>2, <1>3

LEMMA NextBlocks == Blocks /\ [Next]_vars => Blocks'
<1> SUFFICES ASSUME Blocks, [Next]_vars PROVE Blocks'
  OBVIOUS
<1>1. CASE ReadBuffer \/ DecodePcfich \/ StartPdcch \/ EndDecode
  BY <1>1 DEF ReadBuffer, DecodePcfich, StartPdcch, EndDecode, Blocks
<1>2. CASE StartGroup \/ TryCandidate \/ EndGroup \/ EndSearch
  BY <1>2 DEF StartGroup, TryCandidate, EndGroup, EndSearch, Blocks
<1>3. CASE NextRnti \/ WriteBuffer
  BY <1>3 DEF NextRnti, WriteBuffer, Blocks
<1>4. CASE DecodePdsch
  BY <1>4, DecodeKeepsBlocks
<1>5. CASE UNCHANGED vars
  BY <1>5 DEF vars, Blocks
<1> QED
  BY <1>1, <1>2, <1>3, <1>4, <1>5 DEF Next

LEMMA InitBlocks == Init => Blocks
<1>1. EmptyBlock.G <= MaxG
  BY DEF EmptyBlock, MaxG
<1> QED
  BY <1>1, EmptyIsFresh DEF Init, Blocks, Handler

\* A block that is sent was decoded with the segments a fresh handler would have
\* been given for its grant, in whatever order the grants come, and with their
\* lengths, unless the last initialisation was refused (pdsch_block.c: the early
\* return of lte_pdsch_blk_init).
THEOREM BlockAlwaysMatches == Spec => []BlockMatchesGrant
<1>1. Blocks => BlockMatchesGrant
  <2> SUFFICES ASSUME Blocks, sent # NoGrant,
                      NEW fresh, fresh = BlkInit(EmptyBlock, sent.A, sent.G, 1, sent.mod).blk
               PROVE  /\ block.A = sent.A /\ block.G = sent.G /\ block.Q_m = sent.mod /\ block.C = fresh.C
                      /\ \A r \in 1..fresh.C : block.K[r] = fresh.K[r]
                      /\ ~refused => \A r \in 1..fresh.C : block.E[r] = fresh.E[r]
    BY DEF BlockMatchesGrant
  <2>1. /\ Granted(sent.A, sent.G, sent.mod)
        /\ sent.G <= MaxG /\ block.A = sent.A /\ block.G = sent.G /\ block.Q_m = sent.mod
    BY DEF Blocks, SetFor
  <2>2. sent.A # 0
    BY <2>1, GrantedIsCut
  <2>3. ~Initialised(EmptyBlock, sent.A, sent.G, 1, sent.mod)
    BY <2>2, EmptyIsFresh DEF Initialised
  <2>4. Segmented(fresh, sent.A, sent.G, sent.mod)
    BY <2>1, <2>3, EmptyIsFresh, InitSegments
  <2>5. Sized(block, sent.A) /\ (~refused => Segmented(block, sent.A, sent.G, sent.mod))
    BY <2>1, <2>2 DEF Blocks, Handler
  <2>6. block.C = fresh.C /\ \A r \in 1..fresh.C : block.K[r] = fresh.K[r]
    BY <2>4, <2>5 DEF Segmented, Sized
  <2>7. ~refused => \A r \in 1..fresh.C : block.E[r] = fresh.E[r]
    BY <2>4, <2>5 DEF Segmented
  <2> QED
    BY <2>1, <2>6, <2>7
<1> QED
  BY <1>1, InitBlocks, NextBlocks, PTL DEF Spec

-----------------------------------------------------------------------------
(* The exits.                                                              *)

\* The RNTIs are there from the format indicator to the end of the last search,
\* which a subframe of more than two antennas does not come to.
Ends ==
  /\ rx \in {"read", "pcfich", "write"} => todo = << >>
  /\ rx \in {"pdcch", "group", "search", "pdsch"} => ~TooManyAntennas
  /\ ExitsBeforeSearch

\* Nothing that is found in a subframe ends the process: every format that is
\* searched has a version, and every grant is cut into segments that share out its
\* bits, whatever the handler held before (the exits of pdsch.c and pdsch_block.c).
\* More than two antennas end it in pcfich.c, and the check of pdcch.c is not reached.
THEOREM ExitsOnlyBeforeSearch == Spec => []ExitsBeforeSearch
<1>1. Init => Ends
  BY DEF Init, Ends, ExitsBeforeSearch
<1>2. Blocks /\ Ends /\ [Next]_vars => Ends'
  <2> SUFFICES ASSUME Blocks, Ends, [Next]_vars PROVE Ends'
    OBVIOUS
  <2>1. CASE StartPdcch
    BY <2>1 DEF StartPdcch, Ends, ExitsBeforeSearch, WideCfi, TooManyAntennas
  <2>2. CASE ReadBuffer
    BY <2>2 DEF ReadBuffer, Ends, ExitsBeforeSearch
  <2>3. CASE DecodePcfich
    BY <2>3 DEF DecodePcfich, Ends, ExitsBeforeSearch, TooManyAntennas
  <2>4. CASE EndDecode \/ StartGroup \/ TryCandidate \/ EndGroup
    BY <2>4 DEF EndDecode, StartGroup, TryCandidate, EndGroup, Ends, ExitsBeforeSearch, TooManyAntennas
  <2>5. CASE EndSearch \/ NextRnti \/ WriteBuffer
    BY <2>5 DEF EndSearch, NextRnti, WriteBuffer, Ends, ExitsBeforeSearch, TooManyAntennas
  <2>6. CASE DecodePdsch
    <3>1. rx = "pdsch" /\ rx' = "pdsch" /\ lbuf' = lbuf
      BY <2>6, DecodeKeepsBlocks DEF DecodePdsch
    <3> QED
      BY <3>1 DEF Ends, ExitsBeforeSearch, TooManyAntennas
  <2>7. CASE UNCHANGED vars
    BY <2>7 DEF vars, Ends, ExitsBeforeSearch, WideCfi, TooManyAntennas
  <2> QED
    BY <2>1, <2>2, <2>3, <2>4, <2>5, <2>6, <2>7 DEF Next
<1>3. Ends => ExitsBeforeSearch
  BY DEF Ends
<1> QED
  BY <1>1, <1>2, <1>3, InitBlocks, NextBlocks, PTL DEF Spec
=============================================================================
