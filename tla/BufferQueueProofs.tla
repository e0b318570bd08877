-------------------------- MODULE BufferQueueProofs --------------------------
(***************************************************************************)
(* Proofs about module BufferQueue, for any number of readers, writers and  *)
(* items.  "No wake-up is lost" is inductive together with the types and    *)
(* with the fact that a blocked reader is not counted as a woken one.       *)
(***************************************************************************)
EXTENDS BufferQueue, FiniteSetTheorems, TLAPS

\* A blocked reader is not also on its way back from the wait, so that a woken
\* reader really is one more reader that will look.
WokenIsAwake == waiting \cap woken = {}

\* The inductive invariant.
QInv == TypeOK /\ WokenIsAwake /\ NoLostWakeup

(***************************************************************************)
(* The cardinalities that NoLostWakeup compares are natural numbers.        *)
(***************************************************************************)
LEMMA FiniteThreads ==
  ASSUME TypeOK
  PROVE  /\ IsFiniteSet(woken) /\ IsFiniteSet(waiting) /\ IsFiniteSet(notifying)
         /\ Cardinality(woken) \in Nat /\ Cardinality(notifying) \in Nat
<1>1. IsFiniteSet(woken) /\ IsFiniteSet(waiting) /\ IsFiniteSet(notifying)
  BY FS_Subset, QueueAssumption DEF TypeOK
<1>2. QED
  BY <1>1, FS_CardinalityType

(***************************************************************************)
(* A thread that joins a set of others adds one to it, one that leaves it   *)
(* takes one away, and at most one.                                         *)
(***************************************************************************)
LEMMA JoinLeave ==
  ASSUME NEW S, IsFiniteSet(S), NEW x
  PROVE  /\ Cardinality(S) \in Nat
         /\ Cardinality(S \cup {x}) = IF x \in S THEN Cardinality(S)
                                                 ELSE Cardinality(S) + 1
         /\ Cardinality(S \ {x}) = IF x \in S THEN Cardinality(S) - 1
                                              ELSE Cardinality(S)
         /\ x \in S => Cardinality(S) >= 1
<1>1. Cardinality(S) \in Nat
  BY FS_CardinalityType
<1>2. Cardinality(S \cup {x}) = IF x \in S THEN Cardinality(S)
                                           ELSE Cardinality(S) + 1
  BY FS_AddElement
<1>3. Cardinality(S \ {x}) = IF x \in S THEN Cardinality(S) - 1
                                        ELSE Cardinality(S)
  BY FS_RemoveElement
<1>4. x \in S => Cardinality(S) >= 1
  <2>1. SUFFICES ASSUME x \in S PROVE Cardinality(S) # 0
    BY <1>1
  <2>2. QED
    BY <2>1, FS_EmptySet
<1>5. QED
  BY <1>1, <1>2, <1>3, <1>4

(***************************************************************************)
(* Every queue starts with nobody blocked (InitWith), whatever it holds.    *)
(***************************************************************************)
LEMMA QInvInitWith ==
  ASSUME NEW s \in Seq(Items), InitWith(s)
  PROVE  QInv
  BY DEF InitWith, QInv, TypeOK, WokenIsAwake, NoLostWakeup

(***************************************************************************)
(* Each operation of the queue preserves the invariant, whoever calls it.   *)
(***************************************************************************)
LEMMA ReadPreserves ==
  ASSUME QInv, NEW r \in Readers, NEW b \in Items, Read(r, b)
  PROVE  QInv'
<1> USE DEF QInv
<1>1. /\ q \in Seq(Items) /\ q # <<>> /\ q' = Tail(q) /\ r \notin waiting
      /\ woken' = woken \ {r} /\ waiting' = waiting /\ notifying' = notifying
  BY DEF Read, TypeOK
<1>2. q' \in Seq(Items) /\ Len(q') = Len(q) - 1 /\ Len(q) \in Nat
  BY <1>1
<1>3. TypeOK'
  BY <1>1, <1>2 DEF TypeOK
<1>4. WokenIsAwake'
  BY <1>1 DEF WokenIsAwake
<1>5. NoLostWakeup'
  <2>1. SUFFICES ASSUME waiting # {}
                 PROVE  Len(q') <= Cardinality(woken') + Cardinality(notifying')
    BY <1>1 DEF NoLostWakeup
  <2>2. Len(q) <= Cardinality(woken) + Cardinality(notifying)
    BY <2>1 DEF NoLostWakeup
  <2>3. /\ Cardinality(woken) \in Nat /\ Cardinality(notifying) \in Nat
        /\ IsFiniteSet(woken)
    BY FiniteThreads
  <2>4. Cardinality(woken \ {r}) = IF r \in woken THEN Cardinality(woken) - 1
                                                 ELSE Cardinality(woken)
    BY <2>3, JoinLeave
  <2>5. notifying' = notifying /\ woken' = woken \ {r}
    BY <1>1
  <2>6. QED
    BY <1>2, <2>2, <2>3, <2>4, <2>5
<1>6. QED
  BY <1>3, <1>4, <1>5

\* A reader blocks only on an empty queue, so that it sleeps on no item.
LEMMA BlockPreserves ==
  ASSUME QInv, NEW r \in Readers, Block(r)
  PROVE  QInv'
<1> USE DEF QInv
<1>1. TypeOK'
  BY DEF Block, TypeOK
<1>2. WokenIsAwake'
  BY DEF Block, WokenIsAwake
<1>3. NoLostWakeup'
  <2>1. Len(q') = 0
    BY DEF Block
  <2>2. Cardinality(woken)' \in Nat /\ Cardinality(notifying)' \in Nat
    BY <1>1, FiniteThreads, FS_Subset, FS_CardinalityType, QueueAssumption DEF TypeOK
  <2>3. QED
    BY <2>1, <2>2 DEF NoLostWakeup
<1>4. QED
  BY <1>1, <1>2, <1>3

\* readNoBlock() on an empty queue changes nothing.
LEMMA ReadNullPreserves ==
  ASSUME QInv, NEW r \in Readers, ReadNull(r)
  PROVE  QInv'
  BY DEF ReadNull, qvars, QInv, TypeOK, WokenIsAwake, NoLostWakeup

\* A written item comes with a writer that owes a notification.
LEMMA WritePreserves ==
  ASSUME QInv, NEW w \in Writers, NEW b \in Items, Write(w, b)
  PROVE  QInv'
<1> USE DEF QInv
<1>1. /\ q \in Seq(Items) /\ q' = Append(q, b) /\ w \notin notifying
      /\ notifying' = notifying \cup {w} /\ waiting' = waiting /\ woken' = woken
  BY DEF Write, TypeOK
<1>2. q' \in Seq(Items) /\ Len(q') = Len(q) + 1 /\ Len(q) \in Nat
  BY <1>1
<1>3. TypeOK'
  BY <1>1, <1>2 DEF TypeOK
<1>4. WokenIsAwake'
  BY <1>1 DEF WokenIsAwake
<1>5. NoLostWakeup'
  <2>1. SUFFICES ASSUME waiting # {}
                 PROVE  Len(q') <= Cardinality(woken') + Cardinality(notifying')
    BY <1>1 DEF NoLostWakeup
  <2>2. Len(q) <= Cardinality(woken) + Cardinality(notifying)
    BY <2>1 DEF NoLostWakeup
  <2>3. Cardinality(woken) \in Nat /\ Cardinality(notifying) \in Nat
    BY FiniteThreads
  <2>4. Cardinality(notifying') = Cardinality(notifying) + 1
    BY <1>1, FiniteThreads, JoinLeave
  <2>5. woken' = woken
    BY <1>1
  <2>6. QED
    BY <1>2, <2>2, <2>3, <2>4, <2>5
<1>6. QED
  BY <1>3, <1>4, <1>5

\* A reader returns from its wait: what a notification and a spurious wake-up
\* have in common.
LEMMA WakingOne ==
  ASSUME QInv, NEW r \in waiting,
         waiting' = waiting \ {r}, woken' = woken \cup {r}
  PROVE  /\ waiting' \in SUBSET Readers /\ woken' \in SUBSET Readers
         /\ WokenIsAwake'
         /\ Cardinality(woken') = Cardinality(woken) + 1
<1>1. r \notin woken /\ r \in Readers
  BY DEF QInv, WokenIsAwake, TypeOK
<1>2. Cardinality(woken') = Cardinality(woken) + 1
  BY <1>1, FiniteThreads, JoinLeave DEF QInv
<1>3. QED
  BY <1>1, <1>2 DEF QInv, TypeOK, WokenIsAwake

\* A notification paid turns a blocked reader into a woken one, or nobody is
\* blocked.
LEMMA NotifyOnePreserves ==
  ASSUME QInv, NEW w \in Writers, NotifyOne(w)
  PROVE  QInv'
<1>1. /\ TypeOK /\ WokenIsAwake /\ NoLostWakeup /\ q' = q /\ w \in notifying
      /\ notifying' = notifying \ {w} /\ notifying' \in SUBSET Writers
  BY DEF QInv, NotifyOne, TypeOK
<1>2. /\ Cardinality(notifying') = Cardinality(notifying) - 1
      /\ Cardinality(woken) \in Nat /\ Cardinality(notifying) \in Nat
  BY <1>1, FiniteThreads, JoinLeave
<1>3. CASE waiting = {} /\ waiting' = waiting /\ woken' = woken
  BY <1>1, <1>3 DEF QInv, TypeOK, WokenIsAwake, NoLostWakeup
<1>4. CASE \E r \in waiting : waiting' = waiting \ {r} /\ woken' = woken \cup {r}
  <2>1. PICK r \in waiting : waiting' = waiting \ {r} /\ woken' = woken \cup {r}
    BY <1>4
  <2>2. /\ waiting' \in SUBSET Readers /\ woken' \in SUBSET Readers
        /\ WokenIsAwake' /\ Cardinality(woken') = Cardinality(woken) + 1
    BY <2>1, WakingOne
  <2>3. Len(q) \in Nat /\ Len(q) <= Cardinality(woken) + Cardinality(notifying)
    BY <1>1, <2>1 DEF TypeOK, NoLostWakeup
  <2>4. NoLostWakeup'
    BY <1>1, <1>2, <2>2, <2>3 DEF NoLostWakeup
  <2>5. QED
    BY <1>1, <2>2, <2>4 DEF QInv, TypeOK
<1>5. QED
  BY <1>3, <1>4 DEF NotifyOne

\* A spurious wake-up only adds a woken reader.
LEMMA SpuriousWakeupPreserves ==
  ASSUME QInv, NEW r \in Readers, SpuriousWakeup(r)
  PROVE  QInv'
<1>1. /\ TypeOK /\ NoLostWakeup /\ r \in waiting /\ q' = q /\ notifying' = notifying
      /\ waiting' = waiting \ {r} /\ woken' = woken \cup {r}
  BY DEF QInv, SpuriousWakeup
<1>2. /\ waiting' \in SUBSET Readers /\ woken' \in SUBSET Readers
      /\ WokenIsAwake' /\ Cardinality(woken') = Cardinality(woken) + 1
  BY <1>1, WakingOne
<1>3. /\ Len(q) \in Nat /\ Len(q) <= Cardinality(woken) + Cardinality(notifying)
      /\ Cardinality(woken) \in Nat /\ Cardinality(notifying) \in Nat
  BY <1>1, FiniteThreads DEF TypeOK, NoLostWakeup
<1>4. NoLostWakeup'
  BY <1>1, <1>2, <1>3 DEF NoLostWakeup
<1>5. QED
  BY <1>1, <1>2, <1>4 DEF QInv, TypeOK

-----------------------------------------------------------------------------
(***************************************************************************)
(* The queue on its own keeps the invariant in every reachable state.       *)
(***************************************************************************)
THEOREM QueueInvariant == Spec => []QInv
<1>1. Init => QInv
  <2>1. <<>> \in Seq(Items)
    OBVIOUS
  <2>2. QED
    BY <2>1, QInvInitWith DEF Init
<1>2. QInv /\ [Next]_qvars => QInv'
  <2>1. SUFFICES ASSUME QInv, [Next]_qvars PROVE QInv'
    OBVIOUS
  <2>2. CASE \E r \in Readers : ReaderStep(r)
    BY <2>1, <2>2, ReadPreserves, BlockPreserves DEF ReaderStep
  <2>3. CASE \E r \in Readers : SpuriousWakeup(r)
    BY <2>1, <2>3, SpuriousWakeupPreserves
  <2>4. CASE \E w \in Writers : WriterStep(w)
    BY <2>1, <2>4, WritePreserves DEF WriterStep
  <2>5. CASE \E w \in Writers : NotifyOne(w)
    BY <2>1, <2>5, NotifyOnePreserves
  <2>6. CASE UNCHANGED qvars
    BY <2>1, <2>6 DEF qvars, QInv, TypeOK, WokenIsAwake, NoLostWakeup
  <2>7. QED
    BY <2>1, <2>2, <2>3, <2>4, <2>5, <2>6 DEF Next
<1>3. QED
  BY <1>1, <1>2, PTL DEF Spec

(***************************************************************************)
(* No wake-up is lost (BufferQueue.cpp:29-55), with any number of readers   *)
(* and writers.                                                             *)
(***************************************************************************)
THEOREM QueueLosesNoWakeup == Spec => []NoLostWakeup
<1>1. QInv => NoLostWakeup
  BY DEF QInv
<1>2. QED
  BY <1>1, QueueInvariant, PTL

(***************************************************************************)
(* The threads of the wait list, those on their way back from cv.wait and   *)
(* those that owe a notification are always readers and writers of the      *)
(* queue (BufferQueue.h:28-45).                                             *)
(***************************************************************************)
THEOREM QueueTypes == Spec => []TypeOK
<1>1. QInv => TypeOK
  BY DEF QInv
<1>2. QED
  BY <1>1, QueueInvariant, PTL
=============================================================================
