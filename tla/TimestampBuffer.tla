--------------------------- MODULE TimestampBuffer ---------------------------
(***************************************************************************)
(* The ring of received samples, addressed by time (TimestampBuffer.cpp).   *)
(* A sample is modelled by the time it was written for.  Two markers, each  *)
(* a time and an index, stand for the oldest sample not read and for the    *)
(* end of what was written; the index of any other time is reckoned from    *)
(* the first.                                                               *)
(***************************************************************************)
EXTENDS Integers

CONSTANTS
  Size,    (* data.size(): 2^22 in the code; it divides 2^64, so that the
              conversions to size_t leave indices right modulo Size        *)
  Blank    (* a sample never written *)

ASSUME SizeAssumption == Size \in Nat \ {0}

VARIABLES data, timeStart, timeEnd, dataStart

ringVars == <<data, timeStart, timeEnd, dataStart>>

Cells == 0 .. Size - 1

\* Where the sample of time t is, or goes.
Index(t) == (dataStart + (t - timeStart)) % Size

WriteRefused(len, ts) == len >= Size \/ ts < 0 \/ ts + len <= timeEnd

\* Variant of Write: the empty ring's read marker is given its index only.
WriteHalfMarker(len, ts) ==
  /\ ~WriteRefused(len, ts)
  /\ data' = [i \in Cells |-> LET k == (i - Index(ts)) % Size
                              IN IF k < len THEN ts + k ELSE data[i]]
  /\ dataStart' = IF dataStart = 0 THEN Index(ts) ELSE dataStart
  /\ UNCHANGED timeStart
  /\ timeEnd' = ts + len

(***************************************************************************)
(* write(buf, len, ts).  The read marker is set by the first write; the     *)
(* test for that is dataStart = 0, which is true again whenever a read has  *)
(* ended at the end of the ring.                                            *)
(***************************************************************************)
Write(len, ts) ==
  /\ ~WriteRefused(len, ts)
  /\ data' = [i \in Cells |-> LET k == (i - Index(ts)) % Size
                              IN IF k < len THEN ts + k ELSE data[i]]
  /\ IF dataStart = 0 THEN dataStart' = Index(ts) /\ timeStart' = ts
                      ELSE UNCHANGED <<dataStart, timeStart>>
  /\ timeEnd' = ts + len

\* Too long, not all there yet, or all of it before the read marker.
ReadRefused(len, ts) ==
  \/ len >= Size
  \/ ts + len > timeEnd
  \/ ts + len < timeStart

\* What read(buf, ts) copies into a buffer of len samples.
Samples(len, ts) == [k \in 0 .. len - 1 |-> data[(Index(ts) + k) % Size]]

\* And what it does to the read marker.
Read(len, ts) ==
  /\ ~ReadRefused(len, ts)
  /\ dataStart' = (Index(ts) + len) % Size
  /\ timeStart' = ts + len
  /\ UNCHANGED <<data, timeEnd>>
=============================================================================
