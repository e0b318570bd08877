----------------------------- MODULE BufferQueue -----------------------------
(***************************************************************************)
(* The blocking queue of subframe buffers (BufferQueue.cpp): a std::queue   *)
(* under a mutex, with a condition variable on which read() waits and which *)
(* write() notifies after it has released the mutex.                        *)
(*                                                                          *)
(* One critical section of the code is one action.  The two windows that    *)
(* the mutex leaves open are states of their own: a writer between unlock() *)
(* and notify_one() is in "notifying", a reader whose wait has returned but *)
(* has not yet taken the mutex again to re-check its predicate is in        *)
(* "woken".                                                                 *)
(***************************************************************************)
EXTENDS Naturals, Sequences, FiniteSets

CONSTANTS
  Readers,   (* threads that call read() and readNoBlock() *)
  Writers,   (* threads that call write()                  *)
  Items,     (* the buffers that can be queued             *)
  MaxLen     (* bound of the model: the code's queue has no capacity *)

ASSUME QueueAssumption ==
  /\ IsFiniteSet(Readers)
  /\ IsFiniteSet(Writers)
  /\ MaxLen \in Nat

VARIABLES
  q,          (* the std::queue                                        *)
  waiting,    (* readers blocked inside cv.wait                        *)
  woken,      (* readers returned from cv.wait, predicate not re-checked *)
  notifying   (* writers between unlock() and notify_one()             *)

qvars == <<q, waiting, woken, notifying>>

TypeOK ==
  /\ q \in Seq(Items)
  /\ waiting \in SUBSET Readers
  /\ woken \in SUBSET Readers
  /\ notifying \in SUBSET Writers

\* The queue holds the items of s, and no thread has used it yet.
InitWith(s) ==
  /\ q = s
  /\ waiting = {}
  /\ woken = {}
  /\ notifying = {}

-----------------------------------------------------------------------------
(***************************************************************************)
(* The operations.  A reader that waits can do nothing until it is woken;   *)
(* a writer that owes a notification can do nothing else.                   *)
(***************************************************************************)

\* Variant of Read: the queue used as a stack.
ReadNewest(r, b) ==
  /\ r \notin waiting
  /\ q # <<>>
  /\ b = q[Len(q)]
  /\ q' = SubSeq(q, 1, Len(q) - 1)
  /\ woken' = woken \ {r}
  /\ UNCHANGED <<waiting, notifying>>

\* read() finds, or finds on re-checking the predicate, an item: b is taken.
Read(r, b) ==
  /\ r \notin waiting
  /\ q # <<>>
  /\ b = Head(q)
  /\ q' = Tail(q)
  /\ woken' = woken \ {r}
  /\ UNCHANGED <<waiting, notifying>>

\* read() finds the queue empty: the wait releases the mutex and blocks in
\* one step.
Block(r) ==
  /\ r \notin waiting
  /\ q = <<>>
  /\ waiting' = waiting \cup {r}
  /\ woken' = woken \ {r}
  /\ UNCHANGED <<q, notifying>>

\* Variant of ReadNull: gives up as well when the mutex is taken.
ReadNullIfBusy(r) ==
  /\ r \notin waiting
  /\ UNCHANGED qvars

\* readNoBlock() finds the queue empty and returns nullptr.
ReadNull(r) ==
  /\ r \notin waiting
  /\ q = <<>>
  /\ UNCHANGED qvars

\* write(), up to the release of the mutex.
Write(w, b) ==
  /\ w \notin notifying
  /\ q' = Append(q, b)
  /\ notifying' = notifying \cup {w}
  /\ UNCHANGED <<waiting, woken>>

\* Variants of NotifyOne: nobody is woken; the writer wakes itself.
NotifyNobody(w) ==
  /\ w \in notifying
  /\ notifying' = notifying \ {w}
  /\ UNCHANGED <<q, waiting, woken>>

NotifySelf(w) ==
  /\ w \in notifying
  /\ notifying' = notifying \ {w}
  /\ woken' = woken \cup {w}
  /\ UNCHANGED <<q, waiting>>

\* write(), its notify_one(): some waiting reader returns from cv.wait.
NotifyOne(w) ==
  /\ w \in notifying
  /\ notifying' = notifying \ {w}
  /\ \/ /\ waiting = {}
        /\ UNCHANGED <<waiting, woken>>
     \/ \E r \in waiting : /\ waiting' = waiting \ {r}
                           /\ woken' = woken \cup {r}
  /\ UNCHANGED q

\* cv.wait may return without a notification.
SpuriousWakeup(r) ==
  /\ r \in waiting
  /\ waiting' = waiting \ {r}
  /\ woken' = woken \cup {r}
  /\ UNCHANGED <<q, notifying>>

-----------------------------------------------------------------------------
(***************************************************************************)
(* The queue on its own: readers that loop over read(), as the decoder      *)
(* threads do, and writers that write whenever they like.                   *)
(***************************************************************************)
Init == InitWith(<<>>)

ReaderStep(r) == (\E b \in Items : Read(r, b)) \/ Block(r)

WriterStep(w) == \E b \in Items : Len(q) < MaxLen /\ Write(w, b)

Next ==
  \/ \E r \in Readers : ReaderStep(r)
  \/ \E r \in Readers : SpuriousWakeup(r)
  \/ \E w \in Writers : WriterStep(w)
  \/ \E w \in Writers : NotifyOne(w)

Spec == Init /\ [][Next]_qvars

\* Threads are scheduled fairly: a reader that is not blocked runs on, and a
\* writer that has unlocked reaches its notify_one().  Nothing makes a
\* spurious wake-up happen, and nothing makes a writer write.
FairSpec ==
  /\ Spec
  /\ \A r \in Readers : WF_qvars(ReaderStep(r))
  /\ \A w \in Writers : WF_qvars(NotifyOne(w))

-----------------------------------------------------------------------------
(***************************************************************************)
(* No wake-up is lost (BufferQueue.cpp:29-55): as long as some reader is    *)
(* blocked, every queued item has a reader already on its way back from     *)
(* cv.wait or a writer about to notify one.  Notifying after the unlock,    *)
(* and notifying one reader only, are both safe because of this.            *)
(***************************************************************************)
NoLostWakeup ==
  waiting # {} => Len(q) <= Cardinality(woken) + Cardinality(notifying)

(***************************************************************************)
(* A full queue does not stay full: with fair threads an item is eventually *)
(* taken, whatever the interleaving of the wake-ups with readers that find  *)
(* the item before the woken one does (BufferQueue.cpp:29-37).              *)
(***************************************************************************)
ItemsAreTaken == (Len(q) = MaxLen) ~> (Len(q) < MaxLen)
=============================================================================
