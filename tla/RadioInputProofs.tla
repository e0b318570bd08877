--------------------------- MODULE RadioInputProofs ---------------------------
(***************************************************************************)
(* Proofs about module RadioInput, for any sizes, shifts and losses that    *)
(* InputAssumption allows.                                                  *)
(***************************************************************************)
EXTENDS RadioInput, TLAPS

USE SizeAssumption, InputAssumption

(***************************************************************************)
(* What the timestamps need: between two subframes want is the last one's   *)
(* time, reckoned from the base time, and the counter has moved by one.     *)
(***************************************************************************)
TimeTypes ==
  /\ ts0 \in Int /\ want \in Int
  /\ frame \in 0 .. FrameMod - 1 /\ prevFrame \in 0 .. FrameMod - 1

CounterInStep ==
  pc = "idle" /\ want # 0 =>
    want = ts0 + prevFrame * FrameSize /\ frame = (prevFrame + 1) % FrameMod

FillFollowsCounter == pc = "fill" => want = ts0 + frame * FrameSize

TimeInv == TimeTypes /\ CounterInStep /\ FillFollowsCounter

\* The frame counter stays below its modulus.
LEMMA NextFrameType == ASSUME TimeTypes PROVE NextFrame \in 0 .. FrameMod - 1
  BY DEF TimeTypes, NextFrame

\* getBuffer reckons the time from the base time it has just moved.
LEMMA GetBufferKeepsTime ==
  ASSUME TimeInv, NEW shift \in Shifts, GetBuffer(shift)
  PROVE  TimeInv'
<1>1. Advance \in Int /\ frame * FrameSize \in Int
  BY DEF Advance, TimeInv, TimeTypes
<1>2. QED
  BY <1>1 DEF TimeInv, TimeTypes, CounterInStep, FillFollowsCounter, GetBuffer

\* After a pull the counter is one ahead of the subframe pulled.
LEMMA PullKeepsTime ==
  ASSUME TimeInv, Pull
  PROVE  TimeInv'
<1>1. pc = "fill" /\ pc' = "idle" /\ prevFrame' = frame /\ frame' = NextFrame
      /\ ts0' = ts0 /\ want' = want
  BY DEF Pull
<1>2. frame' \in 0 .. FrameMod - 1
  BY <1>1, NextFrameType DEF TimeInv
<1>3. QED
  BY <1>1, <1>2 DEF TimeInv, TimeTypes, CounterInStep, FillFollowsCounter, NextFrame

\* Receiving touches none of it, but may end the program.
LEMMA ReceiveKeepsTime ==
  ASSUME TimeInv, pc' \in {pc, "thrown"}, UNCHANGED inputVars
  PROVE  TimeInv'
BY DEF TimeInv, TimeTypes, CounterInStep, FillFollowsCounter, inputVars

\* What a packet may change of the rest: it may end the program.
LEMMA ReceiveFrame ==
  ASSUME Receive
  PROVE  pc' \in {pc, "thrown"} /\ UNCHANGED inputVars
BY DEF Receive, Timeout, FullPacket, Discard, Throw, Store, ShortPacket

\* The times asked for and the counter are always in step.
LEMMA TimeInvHolds == Spec => []TimeInv
<1>1. Init => TimeInv
  BY DEF Init, Fresh, TimeInv, TimeTypes, CounterInStep, FillFollowsCounter
<1>2. TimeInv /\ [Next]_vars => TimeInv'
  <2> SUFFICES ASSUME TimeInv, [Next]_vars PROVE TimeInv'
    OBVIOUS
  <2>0. CASE Reopen
    BY <2>0 DEF Reopen, Fresh, TimeInv, TimeTypes, CounterInStep, FillFollowsCounter
  <2>1. CASE \E shift \in Shifts : GetBuffer(shift)
    BY <2>1, GetBufferKeepsTime
  <2>2. CASE Receive
    BY <2>2, ReceiveFrame, ReceiveKeepsTime
  <2>3. CASE Pull
    BY <2>3, PullKeepsTime
  <2>4. CASE UNCHANGED vars
    BY <2>4, ReceiveKeepsTime DEF vars
  <2>5. QED
    BY <2>0, <2>1, <2>2, <2>3, <2>4 DEF Next
<1>3. QED
  BY <1>1, <1>2, PTL DEF Spec

(***************************************************************************)
(* From an idle state, the time asked for next is the end of the last       *)
(* subframe: either the counter went on by one, or it wrapped and the base  *)
(* time moves by the whole of its range.                                    *)
(***************************************************************************)
LEMMA WantMovesOn ==
  ASSUME TimeInv, NEW shift \in Shifts, GetBuffer(shift), want # 0
  PROVE  want' = want + FrameSize + shift
<1>1. /\ pc = "idle" /\ ts0' = ts0 + shift + Advance
      /\ want' = ts0 + shift + Advance + frame * FrameSize
  BY DEF GetBuffer
<1>2. want = ts0 + prevFrame * FrameSize /\ frame = (prevFrame + 1) % FrameMod
  BY <1>1 DEF TimeInv, CounterInStep
<1>3. CASE prevFrame + 1 < FrameMod
  <2>1. frame = prevFrame + 1 /\ Advance = 0
    BY <1>2, <1>3 DEF TimeInv, TimeTypes, Advance
  <2>2. frame * FrameSize = prevFrame * FrameSize + FrameSize
    BY <2>1 DEF TimeInv, TimeTypes
  <2>3. QED
    BY <1>1, <1>2, <2>1, <2>2 DEF TimeInv, TimeTypes
<1>4. CASE prevFrame + 1 = FrameMod
  <2>1. frame = 0 /\ Advance = FrameMod * FrameSize
    BY <1>2, <1>4 DEF TimeInv, TimeTypes, Advance
  <2>2. FrameMod * FrameSize = prevFrame * FrameSize + FrameSize
    BY <1>4 DEF TimeInv, TimeTypes
  <2>3. QED
    BY <1>1, <1>2, <2>1, <2>2 DEF TimeInv, TimeTypes
<1>5. QED
  BY <1>3, <1>4 DEF TimeInv, TimeTypes

(***************************************************************************)
(* A subframe begins where the last one ended, whatever the frame modulus   *)
(* and the corrections (IOInterface.cpp:239-246).                           *)
(***************************************************************************)
THEOREM AlwaysContiguous == Spec => Contiguous
<1>1. TimeInv /\ [Next]_vars =>
        [\A shift \in Shifts : GetBuffer(shift) /\ want # 0
           => want' = want + FrameSize + shift]_vars
  BY WantMovesOn
<1>2. QED
  BY <1>1, TimeInvHolds, PTL DEF Spec, Contiguous

-----------------------------------------------------------------------------
(***************************************************************************)
(* What the packets' times need: the last packet's time, if it counts, lies *)
(* behind the air's, by at most a packet and a sample.                      *)
(***************************************************************************)
ClockInv ==
  /\ prevTs \in Nat /\ air \in Nat
  /\ prevTs # 0 => prevTs \in air - Spp - 1 .. air - 1
  /\ WithinOneSample

\* A full packet moves the last packet's time along with the air's.
LEMMA FullPacketKeepsClock ==
  ASSUME ClockInv, NEW drop \in Losses, NEW round \in 0..1, round <= air,
         FullPacket(drop, round)
  PROVE  ClockInv'
<1> DEFINE time == air + drop
<1>1. time \in Nat /\ time >= air /\ time - round \in Nat /\ air' = time + Spp
  BY DEF FullPacket, ClockInv
<1>2. CASE Discard(time - round)
  BY <1>1, <1>2 DEF Discard, ClockInv, WithinOneSample
<1>3. CASE Throw(time - round)
  BY <1>1, <1>3 DEF Throw, Backwards, ClockInv
<1>4. CASE Store(time - round, time)
  <2>1. Corrected(time - round) \in {time - round, time - round + 1}
    BY <1>1 DEF Corrected, ClockInv
  <2>2. /\ prevTs' = Corrected(time - round) /\ skew' = Corrected(time - round) - time
        /\ pc' = pc
    BY <1>4 DEF Store
  <2>3. QED
    BY <1>1, <2>1, <2>2 DEF ClockInv, WithinOneSample
<1>5. QED
  BY <1>2, <1>3, <1>4 DEF FullPacket

\* A short packet's time is that of its first sample, which is behind the
\* air's.
LEMMA ShortPacketKeepsClock ==
  ASSUME ClockInv, NEW drop \in Losses, NEW round \in 0..1, round <= air,
         NEW num \in 1 .. Spp - 1, ShortPacket(num, drop, round)
  PROVE  ClockInv'
BY DEF ShortPacket, ClockInv, WithinOneSample

\* Every turn of reload's loop keeps the clock.
LEMMA ReceiveKeepsClock ==
  ASSUME ClockInv, Receive
  PROVE  ClockInv'
<1>1. CASE Timeout
  BY <1>1 DEF Timeout, ClockInv, WithinOneSample
<1>2. CASE \E drop \in Losses, round \in 0..1 : round <= air /\ FullPacket(drop, round)
  BY <1>2, FullPacketKeepsClock
<1>3. CASE \E drop \in Losses, round \in 0..1 :
             round <= air /\ \E num \in 1 .. Spp - 1 : ShortPacket(num, drop, round)
  BY <1>3, ShortPacketKeepsClock
<1>4. QED
  BY <1>1, <1>2, <1>3 DEF Receive

\* The last packet's time is always behind the air's.
LEMMA ClockInvHolds == Spec => []ClockInv
<1>1. Init => ClockInv
  BY DEF Init, Fresh, ClockInv, WithinOneSample
<1>2. ClockInv /\ [Next]_vars => ClockInv'
  <2> SUFFICES ASSUME ClockInv, [Next]_vars PROVE ClockInv'
    OBVIOUS
  <2>0. CASE Reopen
    BY <2>0 DEF Reopen, Fresh, ClockInv, WithinOneSample
  <2>1. CASE \E shift \in Shifts : GetBuffer(shift)
    BY <2>1 DEF GetBuffer, ClockInv, WithinOneSample
  <2>2. CASE Receive
    BY <2>2, ReceiveKeepsClock
  <2>3. CASE Pull
    BY <2>3 DEF Pull, ClockInv, WithinOneSample
  <2>4. CASE UNCHANGED vars
    BY <2>4 DEF vars, ClockInv, WithinOneSample
  <2>5. QED
    BY <2>0, <2>1, <2>2, <2>3, <2>4 DEF Next
<1>3. QED
  BY <1>1, <1>2, PTL DEF Spec

(***************************************************************************)
(* Corrections of the timestamps do not accumulate, and the program never   *)
(* ends because of them (UHDDevice.cpp:218-229).                            *)
(***************************************************************************)
THEOREM AlwaysWithinOneSample == Spec => []WithinOneSample
<1>1. ClockInv => WithinOneSample
  BY DEF ClockInv
<1>2. QED
  BY <1>1, ClockInvHolds, PTL

-----------------------------------------------------------------------------
(***************************************************************************)
(* Remainders: what the indices of the ring are reckoned with.              *)
(***************************************************************************)
\* A remainder, and the number it is one of.
LEMMA Remainder ==
  ASSUME NEW a \in Int
  PROVE  /\ a % Size \in 0 .. Size - 1 /\ a \div Size \in Int
         /\ a = Size * (a \div Size) + (a % Size)
  OBVIOUS

\* Division with remainder has one result.
LEMMA OneQuotient ==
  ASSUME NEW q \in Int, NEW r \in 0 .. Size - 1, NEW p \in Int, NEW s \in 0 .. Size - 1,
         Size * q + r = Size * p + s
  PROVE  q = p /\ r = s
<1>1. Size * (q - p) = s - r
  OBVIOUS
<1>2. CASE q > p
  <2>1. Size * (q - p) >= Size
    BY <1>2
  <2>2. QED
    BY <1>1, <2>1
<1>3. CASE q < p
  <2>1. Size * (p - q) >= Size
    BY <1>3
  <2>2. QED
    BY <1>1, <2>1
<1>4. QED
  BY <1>1, <1>2, <1>3

\* Times a whole number of rings apart have the same index.
LEMMA Period ==
  ASSUME NEW a \in Int, NEW q \in Int
  PROVE  (a + Size * q) % Size = a % Size
<1> DEFINE b == a + Size * q
           p == (a \div Size) + q
           u == b \div Size
           r == a % Size
           s == b % Size
<1>1. a \in Int /\ b \in Int
  OBVIOUS
<1>2. r \in 0 .. Size - 1 /\ s \in 0 .. Size - 1 /\ a \div Size \in Int /\ u \in Int
  BY <1>1, Remainder
<1>3. a = Size * (a \div Size) + r /\ b = Size * u + s
  BY <1>1, Remainder
<1>4. p \in Int /\ Size * p + r = Size * u + s
  BY <1>2, <1>3
<1> HIDE DEF p, u, r, s
<1>5. r = s
  BY <1>2, <1>4, OneQuotient
<1>6. QED
  BY <1>5 DEF r, s

\* An index reckoned from another time's.
LEMMA Reckoned ==
  ASSUME NEW a \in Int, NEW b \in Int
  PROVE  ((a % Size) + (b - a)) % Size = b % Size
<1> DEFINE c == (a % Size) + (b - a)
<1>1. a \div Size \in Int /\ a % Size \in Int /\ a = Size * (a \div Size) + (a % Size)
  BY Remainder
<1>2. c \in Int /\ b = c + Size * (a \div Size)
  BY <1>1
<1>3. (c + Size * (a \div Size)) % Size = c % Size
  BY <1>1, <1>2, Period
<1>4. QED
  BY <1>2, <1>3

\* The index of the k-th sample from a time on.
LEMMA Onward ==
  ASSUME NEW a \in Int, NEW k \in Int
  PROVE  ((a % Size) + k) % Size = (a + k) % Size
<1> DEFINE b == a + k
<1>1. b \in Int /\ b - a = k
  OBVIOUS
<1>2. ((a % Size) + (b - a)) % Size = b % Size
  BY <1>1, Reckoned
<1>3. QED
  BY <1>1, <1>2

\* So it is for the samples from want on, and for the end of the subframe.
LEMMA OnwardFromWant ==
  ASSUME want \in Int, NEW k \in Int
  PROVE  ((want % Size) + k) % Size = (want + k) % Size
<1>1. \A a, b \in Int : ((a % Size) + b) % Size = (a + b) % Size
  BY Onward
<1> HIDE SizeAssumption, InputAssumption
<1>2. QED
  BY <1>1, Zenon

\* The distance of two indices is that of their times, round the ring.
LEMMA Distance ==
  ASSUME NEW a \in Int, NEW b \in Int
  PROVE  ((a % Size) - (b % Size)) % Size = (a - b) % Size
<1> DEFINE c == (a % Size) - (b % Size)
           q == (a \div Size) - (b \div Size)
<1>1. /\ a \div Size \in Int /\ a % Size \in Int /\ a = Size * (a \div Size) + (a % Size)
      /\ b \div Size \in Int /\ b % Size \in Int /\ b = Size * (b \div Size) + (b % Size)
  BY Remainder
<1>2. c \in Int /\ q \in Int /\ a - b = c + Size * q
  BY <1>1
<1>3. (c + Size * q) % Size = c % Size
  BY <1>2, Period
<1>4. QED
  BY <1>2, <1>3

LEMMA Near == ASSUME NEW a \in 0 .. Size - 1 PROVE a % Size = a
  OBVIOUS

\* A time before the one its index is reckoned from is a ring away at least.
LEMMA Far ==
  ASSUME NEW a \in Int, a < 0
  PROVE  (a % Size) - a >= Size
<1>1. a \div Size \in Int /\ a % Size \in 0 .. Size - 1 /\ a = Size * (a \div Size) + (a % Size)
  BY Remainder
<1>2. a \div Size <= -1
  BY <1>1
<1>3. Size * (a \div Size) <= -Size
  BY <1>1, <1>2
<1>4. QED
  BY <1>1, <1>3

-----------------------------------------------------------------------------
(***************************************************************************)
(* What the ring needs.  The read marker's index is its time's remainder,   *)
(* so that every index is.  Of the samples from want on, each one received  *)
(* is in its place, unless one was lost after it and before the end of the  *)
(* subframe wanted; only then can more than the ring's length have passed.  *)
(* And the read marker is ahead of what is wanted only past lost samples.   *)
(***************************************************************************)
RingTypes ==
  /\ timeStart \in Int /\ timeEnd \in Nat /\ dataStart = timeStart % Size
  /\ lost \subseteq Int /\ want \in Nat /\ ts0 \in Int /\ total \in Nat

\* Between two reloads the packets received so far are whole ones.
ReloadsWhole ==
  /\ pc = "idle" => total = 0
  /\ pc = "fill" /\ total > 0 => Missing

\* A new device is asked for samples of its future only.
AsksAhead ==
  /\ pc = "idle" /\ want = 0 => timeStart <= ts0 /\ timeEnd <= ts0
  /\ pc = "fill" => want > 0

Held(x) == data[x % Size] = x \/ \E z \in lost : x < z /\ z < want + FrameSize

HoldsReceived ==
  want > 0 => \A x \in Int : want <= x /\ x < timeEnd /\ x \notin lost => Held(x)

MarkerBehind ==
  want > 0 => \A z \in Int : /\ want + FrameSize - (IF pc = "fill" THEN 1 ELSE 0) <= z
                             /\ z < timeStart
                             => z \in lost

RingInv ==
  /\ RingTypes /\ ReloadsWhole /\ AsksAhead /\ HoldsReceived /\ MarkerBehind

\* Where the sample of any time is.
LEMMA IndexIsRemainder ==
  ASSUME RingTypes, NEW t \in Int
  PROVE  Index(t) = t % Size
BY Reckoned DEF RingTypes, Index

(***************************************************************************)
(* A write puts each of its samples in its place, and overwrites only       *)
(* samples that are a ring's length older.                                  *)
(***************************************************************************)
LEMMA WrittenInPlace ==
  ASSUME RingTypes, NEW t \in Int, Write(Spp, t), NEW x \in Int, x < t + Spp
  PROVE  /\ x >= t => data'[x % Size] = x
         /\ x < t => data'[x % Size] = data[x % Size] \/ x + Size < t + Spp
<1> DEFINE k == ((x % Size) - Index(t)) % Size
<1>0. x % Size \in 0 .. Size - 1
  BY Remainder
<1>1. x % Size \in Cells /\ x - t \in Int
  BY <1>0 DEF Cells
<1>2. k = (x - t) % Size
  BY IndexIsRemainder, Distance
<1>3. data'[x % Size] = IF k < Spp THEN t + k ELSE data[x % Size]
  BY <1>1 DEF Write
<1>4. k \in 0 .. Size - 1
  BY <1>1, <1>2, Remainder
<1> HIDE DEF k
<1>5. CASE x >= t
  <2>1. x - t \in 0 .. Size - 1 /\ x - t < Spp
    BY <1>5
  <2>2. k = x - t
    BY <1>2, <2>1, Near
  <2>3. QED
    BY <1>3, <1>5, <2>1, <2>2
<1>6. CASE x < t
  <2>1. k - (x - t) >= Size
    BY <1>1, <1>2, <1>6, Far
  <2>2. QED
    BY <1>3, <1>4, <1>6, <2>1
<1>7. QED
  BY <1>5, <1>6

\* The types and the markers after a write.
LEMMA WriteKeepsTypes ==
  ASSUME RingTypes, NEW t \in Int, Write(Spp, t), UNCHANGED <<want, ts0>>,
         lost' \subseteq Int, total' \in Nat
  PROVE  RingTypes'
<1>1. timeEnd' \in Nat
  BY DEF Write, WriteRefused
<1>2. timeStart' \in Int /\ dataStart' = timeStart' % Size
  BY IndexIsRemainder DEF Write, RingTypes
<1>3. QED
  BY <1>1, <1>2 DEF RingTypes

(***************************************************************************)
(* A packet that is written while the subframe is not all there.            *)
(***************************************************************************)
LEMMA WriteKeepsRing ==
  ASSUME RingInv, pc = "fill", pc' = "fill", Missing, NEW t \in Int, Write(Spp, t),
         lost' = {x \in lost \cup timeEnd .. t - 1 : x >= want},
         UNCHANGED inputVars, total' = 0
  PROVE  RingInv'
<1>1. /\ RingTypes /\ want \in Nat /\ want > 0 /\ timeEnd \in Nat /\ timeStart \in Int
      /\ timeEnd < want + FrameSize /\ lost \subseteq Int
      /\ want' = want /\ ts0' = ts0
  BY DEF RingInv, RingTypes, AsksAhead, Missing, inputVars
<1>2. timeEnd' = t + Spp
  BY DEF Write
<1>0. \A x : x \in lost' <=> (x \in lost \/ x \in timeEnd .. t - 1) /\ x >= want
  OBVIOUS
<1>3. /\ lost' \subseteq Int
      /\ \A x \in Int : x \in lost /\ x >= want => x \in lost'
      /\ \A x \in Int : timeEnd <= x /\ x < t /\ x >= want => x \in lost'
  <2>1. ASSUME NEW x \in lost' PROVE x \in Int
    <3>1. x \in lost \/ x \in timeEnd .. t - 1
      BY <1>0
    <3>2. QED
      BY <1>1, <3>1
  <2>2. \A x \in Int : x \in lost /\ x >= want => x \in lost'
    BY <1>0
  <2>3. ASSUME NEW x \in Int, timeEnd <= x, x < t, x >= want PROVE x \in lost'
    <3>1. x \in timeEnd .. t - 1
      BY <1>1, <2>3
    <3>2. QED
      BY <1>0, <2>3, <3>1
  <2>4. QED
    BY <2>1, <2>2, <2>3
<1>4. RingTypes'
  BY <1>1, <1>3, WriteKeepsTypes
<1>5. ReloadsWhole' /\ AsksAhead'
  BY <1>1 DEF ReloadsWhole, AsksAhead
<1>6. ASSUME NEW x \in Int, want <= x, x < t + Spp, x \notin lost'
      PROVE  Held(x)'
  <2>1. CASE x >= t
    BY <1>1, <1>6, <2>1, WrittenInPlace DEF Held
  <2>2. CASE x < t
    <3>1. x < timeEnd /\ x \notin lost
      BY <1>1, <1>3, <1>6, <2>2
    <3>2. Held(x)
      BY <1>1, <1>6, <3>1 DEF RingInv, HoldsReceived
    <3>3. CASE \E z \in lost : x < z /\ z < want + FrameSize
      <4>1. PICK z \in lost : x < z /\ z < want + FrameSize
        BY <3>3
      <4>2. z \in lost'
        BY <1>1, <1>3, <1>6, <4>1
      <4>3. QED
        BY <1>1, <4>1, <4>2 DEF Held
    <3>4. CASE data[x % Size] = x
      <4>1. data'[x % Size] = data[x % Size] \/ x + Size < t + Spp
        BY <1>1, <1>6, <2>2, WrittenInPlace
      <4>2. CASE data'[x % Size] = data[x % Size]
        BY <3>4, <4>2 DEF Held
      <4>3. CASE x + Size < t + Spp
        <5>1. timeEnd < t /\ timeEnd >= want
          BY <1>1, <1>6, <3>1, <4>3
        <5>2. timeEnd \in lost'
          BY <1>1, <1>3, <5>1
        <5>3. QED
          BY <1>1, <3>1, <5>2 DEF Held
      <4>4. QED
        BY <4>1, <4>2, <4>3
    <3>5. QED
      BY <3>2, <3>3, <3>4 DEF Held
  <2>3. QED
    BY <1>1, <1>6, <2>1, <2>2
<1>7. HoldsReceived'
  BY <1>1, <1>2, <1>6 DEF HoldsReceived
<1>8. ASSUME NEW z \in Int, want + FrameSize - 1 <= z, z < timeStart'
      PROVE  z \in lost'
  <2>1. CASE timeStart' = timeStart
    BY <1>1, <1>3, <1>8, <2>1 DEF RingInv, MarkerBehind
  <2>2. CASE timeStart' = t
    BY <1>1, <1>3, <1>8, <2>2
  <2>3. QED
    BY <2>1, <2>2 DEF Write
<1>9. MarkerBehind'
  BY <1>1, <1>8 DEF MarkerBehind
<1>10. QED
  BY <1>4, <1>5, <1>7, <1>9 DEF RingInv

\* The steps that leave the ring and the history alone.
LEMMA AsideKeepsRing ==
  ASSUME RingInv, UNCHANGED <<ringVars, lost, want, ts0>>, total' \in Nat,
         pc' = "thrown" \/ pc' = pc, ReloadsWhole'
  PROVE  RingInv'
<1>1. /\ dataStart' = dataStart /\ timeStart' = timeStart /\ timeEnd' = timeEnd
      /\ data' = data /\ lost' = lost /\ want' = want /\ ts0' = ts0
  BY DEF ringVars
<1>2. RingTypes' /\ AsksAhead'
  BY <1>1 DEF RingInv, RingTypes, AsksAhead
<1>3. HoldsReceived'
  BY <1>1 DEF RingInv, HoldsReceived, Held
<1>4. MarkerBehind'
  BY <1>1 DEF RingInv, MarkerBehind, RingTypes
<1>5. QED
  BY <1>2, <1>3, <1>4 DEF RingInv

LEMMA FullPacketKeepsRing ==
  ASSUME RingInv, ClockInv, NEW drop \in Losses, NEW round \in 0..1, round <= air,
         FullPacket(drop, round)
  PROVE  RingInv'
<1> DEFINE time == air + drop
<1>1. /\ pc = "fill" /\ Missing /\ total' = 0 /\ UNCHANGED inputVars
      /\ time - round \in Int /\ prevTs \in Int
  BY DEF FullPacket, Reloading, RingInv, ReloadsWhole, ClockInv
<1>2. want' = want /\ ts0' = ts0 /\ ReloadsWhole'
  BY <1>1 DEF inputVars, ReloadsWhole
<1>3. CASE Discard(time - round)
  BY <1>1, <1>2, <1>3, AsideKeepsRing DEF Discard
<1>4. CASE Throw(time - round)
  BY <1>1, <1>2, <1>4, AsideKeepsRing DEF Throw
<1>5. CASE Store(time - round, time)
  <2> DEFINE t == Corrected(time - round)
  <2>1. t \in Int
    BY <1>1 DEF Corrected
  <2>2. CASE WriteRefused(Spp, t)
    BY <1>1, <1>2, <1>5, <2>2, AsideKeepsRing DEF Store
  <2>3. CASE ~WriteRefused(Spp, t)
    BY <1>1, <1>5, <2>1, <2>3, WriteKeepsRing DEF Store
  <2>4. QED
    BY <2>2, <2>3
<1>6. QED
  BY <1>3, <1>4, <1>5 DEF FullPacket

LEMMA ReceiveKeepsRing ==
  ASSUME RingInv, ClockInv, Receive
  PROVE  RingInv'
<1>1. CASE Timeout
  BY <1>1, AsideKeepsRing
     DEF Timeout, inputVars, RingInv, RingTypes, ReloadsWhole, Missing, ringVars
<1>2. CASE \E drop \in Losses, round \in 0..1 : round <= air /\ FullPacket(drop, round)
  BY <1>2, FullPacketKeepsRing
<1>3. ASSUME NEW drop \in Losses, NEW round \in 0..1, NEW num \in 1 .. Spp - 1,
             ShortPacket(num, drop, round)
      PROVE  RingInv'
  <2>1. /\ pc = "fill" /\ pc' = pc /\ Missing /\ total \in Nat
        /\ UNCHANGED <<ringVars, lost, want, ts0>> /\ timeEnd' = timeEnd
    BY <1>3 DEF ShortPacket, Reloading, RingInv, ReloadsWhole, RingTypes, inputVars,
                ringVars
  <2>2. total' \in Nat
    BY <1>3, <2>1 DEF ShortPacket
  <2>3. ReloadsWhole'
    BY <2>1 DEF ReloadsWhole, Missing
  <2>4. QED
    BY <2>1, <2>2, <2>3, AsideKeepsRing
<1>4. QED
  BY <1>1, <1>2, <1>3 DEF Receive

(***************************************************************************)
(* What is asked for moves forward, from a new device's time too.           *)
(***************************************************************************)
LEMMA WantGrows ==
  ASSUME TimeInv, RingInv, NEW shift \in Shifts, GetBuffer(shift)
  PROVE  /\ want' \in Nat /\ ts0' \in Int
         /\ want = 0 => want' > timeStart - FrameSize /\ want' > timeEnd
         /\ want > 0 => want' >= want + 1
         /\ want' > 0
<1>1. /\ pc = "idle" /\ shift \in Int /\ shift > -FrameSize
      /\ ts0' = ts0 + shift + Advance /\ want' = ts0' + frame * FrameSize
      /\ ts0 \in Int /\ want \in Nat /\ timeEnd \in Nat /\ timeStart \in Int
  BY DEF GetBuffer, RingInv, RingTypes
<1>2. frame \in 0 .. FrameMod - 1 /\ prevFrame \in 0 .. FrameMod - 1
  BY DEF TimeInv, TimeTypes
<1>3. Advance \in Nat /\ frame * FrameSize \in Nat /\ FrameMod * FrameSize >= FrameSize
  BY <1>2 DEF Advance
<1>4. Advance + frame * FrameSize >= FrameSize
  <2>1. CASE frame = 0
    BY <1>2, <1>3, <2>1 DEF Advance
  <2>2. CASE frame >= 1
    <3>1. frame * FrameSize >= FrameSize
      BY <1>2, <2>2
    <3>2. QED
      BY <1>3, <3>1
  <2>3. QED
    BY <1>2, <2>1, <2>2
<1>5. CASE want = 0
  <2>1. timeStart <= ts0 /\ timeEnd <= ts0
    BY <1>1, <1>5 DEF RingInv, AsksAhead
  <2>2. QED
    BY <1>1, <1>3, <1>4, <1>5, <2>1
<1>6. CASE want > 0
  <2>1. want' = want + FrameSize + shift
    BY <1>1, <1>6, WantMovesOn
  <2>2. QED
    BY <1>1, <1>3, <1>6, <2>1
<1>7. QED
  BY <1>1, <1>5, <1>6

\* Of two subframes' times, one asked for after the other.
LEMMA Later ==
  ASSUME NEW w \in Nat, NEW v \in Nat, NEW s \in Int, NEW e \in Nat,
         w = 0 => v > s - FrameSize /\ v > e, w > 0 => v >= w + 1
  PROVE  /\ \A x \in Int : v <= x /\ x < e => w > 0 /\ w <= x
         /\ \A z \in Int : v + FrameSize - 1 <= z /\ z < s => w > 0 /\ w + FrameSize <= z
         /\ \A z \in Int : z < w + FrameSize => z < v + FrameSize
OBVIOUS

LEMMA GetBufferKeepsRing ==
  ASSUME TimeInv, RingInv, NEW shift \in Shifts, GetBuffer(shift)
  PROVE  RingInv'
<1>1. /\ pc = "idle" /\ pc' = "fill" /\ total' = total /\ lost' = lost
      /\ data' = data /\ dataStart' = dataStart
      /\ timeStart' = timeStart /\ timeEnd' = timeEnd
  BY DEF GetBuffer, ringVars
<1>2. /\ want \in Nat /\ timeStart \in Int /\ timeEnd \in Nat /\ lost \subseteq Int
  BY DEF RingInv, RingTypes
<1>3. RingTypes' /\ ReloadsWhole' /\ AsksAhead'
  BY <1>1, WantGrows DEF RingInv, RingTypes, ReloadsWhole, AsksAhead
<1>4. /\ want' \in Nat /\ (want = 0 => want' > timeStart - FrameSize /\ want' > timeEnd)
      /\ (want > 0 => want' >= want + 1)
  BY WantGrows
<1>5. /\ \A x \in Int : want' <= x /\ x < timeEnd => want > 0 /\ want <= x
      /\ \A z \in Int : want' + FrameSize - 1 <= z /\ z < timeStart
                         => want > 0 /\ want + FrameSize <= z
      /\ \A z \in Int : z < want + FrameSize => z < want' + FrameSize
  BY <1>2, <1>4, Later, Zenon
<1>6. ASSUME NEW x \in Int, want' <= x, x < timeEnd, x \notin lost
      PROVE  Held(x)'
  <2>1. want > 0 /\ want <= x
    BY <1>5, <1>6, Zenon
  <2>2. Held(x)
    BY <1>6, <2>1 DEF RingInv, HoldsReceived
  <2>3. \A z \in lost : z < want + FrameSize => z < want' + FrameSize
    BY <1>2, <1>5, Zenon
  <2>4. data' = data /\ lost' = lost
    BY <1>1
  <2>5. QED
    BY <2>2, <2>3, <2>4, Zenon DEF Held
<1>7. ASSUME NEW z \in Int, want' + FrameSize - 1 <= z, z < timeStart
      PROVE  z \in lost
  <2>1. want > 0 /\ want + FrameSize <= z
    BY <1>5, <1>7, Zenon
  <2>2. z \in Int /\ z < timeStart /\ want \in Nat
    BY <1>2, <1>7
  <2>3. want + FrameSize - 0 <= z
    BY <2>1, <2>2
  <2>4. QED
    BY <1>1, <2>1, <2>2, <2>3 DEF RingInv, MarkerBehind
<1>8. HoldsReceived' /\ MarkerBehind'
  BY <1>1, <1>6, <1>7, Zenon DEF HoldsReceived, MarkerBehind
<1>9. QED
  BY <1>3, <1>8 DEF RingInv

LEMMA PullKeepsRing ==
  ASSUME RingInv, Pull
  PROVE  RingInv'
<1>1. /\ pc = "fill" /\ pc' = "idle" /\ total = 0 /\ total' = 0 /\ lost' = lost
      /\ want' = want /\ ts0' = ts0 /\ data' = data /\ timeEnd' = timeEnd
  BY DEF Pull, Read, ringVars
<1>2. RingTypes /\ want \in Nat /\ want > 0 /\ timeStart \in Int
  BY <1>1 DEF RingInv, RingTypes, AsksAhead
<1>3. \/ timeStart' = timeStart /\ dataStart' = dataStart
      \/ timeStart' = want + FrameSize /\ dataStart' = (Index(want) + FrameSize) % Size
  BY DEF Pull, Read, ringVars
<1>4. timeStart' \in Int /\ dataStart' = timeStart' % Size
  <2>1. Index(want) = want % Size
    BY <1>2, IndexIsRemainder
  <2>2. ((want % Size) + FrameSize) % Size = (want + FrameSize) % Size
    BY <1>2, OnwardFromWant
  <2>3. QED
    BY <1>2, <1>3, <2>1, <2>2 DEF RingInv, RingTypes
<1>5. RingTypes' /\ ReloadsWhole' /\ AsksAhead'
  BY <1>1, <1>2, <1>4 DEF RingTypes, ReloadsWhole, AsksAhead
<1>6. HoldsReceived'
  BY <1>1 DEF RingInv, HoldsReceived, Held
<1>7. MarkerBehind'
  BY <1>1, <1>2, <1>3 DEF RingInv, MarkerBehind
<1>8. QED
  BY <1>5, <1>6, <1>7 DEF RingInv

\* A new device's ring holds nothing, and nothing is wanted yet.
LEMMA FreshRing ==
  ASSUME NEW at \in Nat
  PROVE  at <= at + FrameSize * StartOffset /\ at + FrameSize * StartOffset \in Int
OBVIOUS

LEMMA ReopenKeepsRing ==
  ASSUME RingInv, ClockInv, Reopen
  PROVE  RingInv'
<1>1. air \in Nat
  BY DEF ClockInv
<1>2. /\ pc' = "idle" /\ want' = 0 /\ lost' = {} /\ total' = total /\ pc = "idle"
      /\ timeStart' = air /\ timeEnd' = air /\ dataStart' = air % Size
      /\ ts0' = air + FrameSize * StartOffset
  BY DEF Reopen, Fresh
<1>3. QED
  BY <1>1, <1>2, FreshRing
     DEF RingInv, RingTypes, ReloadsWhole, AsksAhead, HoldsReceived, MarkerBehind

LEMMA InitRing == Init => RingInv
<1> SUFFICES ASSUME Init PROVE RingInv
  OBVIOUS
<1>1. /\ air \in Nat /\ pc = "idle" /\ want = 0 /\ lost = {} /\ total = 0
      /\ timeStart = air /\ timeEnd = air /\ dataStart = air % Size
      /\ ts0 = air + FrameSize * StartOffset
  BY DEF Init, Fresh
<1>2. QED
  BY <1>1, FreshRing
     DEF RingInv, RingTypes, ReloadsWhole, AsksAhead, HoldsReceived, MarkerBehind

(***************************************************************************)
(* A pull finds every sample of a subframe none of which was lost.          *)
(***************************************************************************)
LEMMA PullInTime ==
  ASSUME RingInv, Pull
  PROVE  PulledInTime'
<1>1. /\ pc = "fill" /\ ~Missing /\ want' = want /\ lost' = lost
      /\ RingTypes /\ want \in Nat /\ want > 0 /\ timeStart \in Int /\ timeEnd \in Nat
      /\ lost \subseteq Int
  BY DEF Pull, RingInv, RingTypes, AsksAhead
<1> SUFFICES ASSUME want .. want + FrameSize - 1 \cap lost = {}
             PROVE  out' = [k \in 0 .. FrameSize - 1 |-> want + k]
  BY <1>1 DEF PulledInTime
<1>2. want + FrameSize <= timeEnd
  BY <1>1 DEF Missing
<1>3. ~ReadRefused(FrameSize, want)
  <2>1. SUFFICES ASSUME want + FrameSize < timeStart PROVE FALSE
    BY <1>1, <1>2 DEF ReadRefused
  <2>2. want + FrameSize - 1 \in lost
    BY <1>1, <2>1 DEF RingInv, MarkerBehind
  <2>3. want + FrameSize - 1 \in want .. want + FrameSize - 1
    BY <1>1
  <2>4. QED
    BY <2>2, <2>3
<1>4. out' = [k \in 0 .. FrameSize - 1 |-> data[(Index(want) + k) % Size]]
  BY <1>3 DEF Pull, Samples
<1>5. ASSUME NEW k \in 0 .. FrameSize - 1
      PROVE  data[(Index(want) + k) % Size] = want + k
  <2>1. /\ want + k \in want .. want + FrameSize - 1
        /\ want + k \in Int /\ want \in Int /\ k \in Int
    BY <1>1
  <2>2. want + k \notin lost /\ want + k < timeEnd
    BY <1>1, <1>2, <2>1
  <2>3. (Index(want) + k) % Size = (want + k) % Size
    <3>1. Index(want) = want % Size
      BY <1>1, IndexIsRemainder
    <3>2. ((want % Size) + k) % Size = (want + k) % Size
      BY <1>1, <2>1, OnwardFromWant, Zenon
    <3>3. QED
      BY <3>1, <3>2
  <2>4. Held(want + k)
    BY <1>1, <2>1, <2>2 DEF RingInv, HoldsReceived
  <2>5. ASSUME NEW z \in lost, want + k < z, z < want + FrameSize PROVE FALSE
    BY <1>1, <2>5
  <2>6. QED
    BY <2>3, <2>4, <2>5 DEF Held
<1>6. QED
  BY <1>4, <1>5

(***************************************************************************)
(* The whole of the ring's invariant, with what it is for.                  *)
(***************************************************************************)
THEOREM RingAlwaysHolds == Spec => [](RingInv /\ PulledInTime)
<1>1. Init => RingInv /\ PulledInTime
  <2>1. Init => PulledInTime
    BY DEF Init, PulledInTime
  <2>2. QED
    BY <2>1, InitRing
<1>2. TimeInv /\ ClockInv /\ RingInv /\ PulledInTime /\ [Next]_vars
        => RingInv' /\ PulledInTime'
  <2> SUFFICES ASSUME TimeInv, ClockInv, RingInv, PulledInTime, [Next]_vars
               PROVE  RingInv' /\ PulledInTime'
    OBVIOUS
  <2>1. CASE Reopen
    BY <2>1, ReopenKeepsRing DEF Reopen, PulledInTime
  <2>2. CASE \E shift \in Shifts : GetBuffer(shift)
    BY <2>2, GetBufferKeepsRing DEF GetBuffer, PulledInTime
  <2>3. CASE Receive
    <3>1. pc' # "idle"
      BY <2>3 DEF Receive, Timeout, FullPacket, ShortPacket, Reloading, Discard, Throw,
                  Store
    <3>2. QED
      BY <2>3, <3>1, ReceiveKeepsRing DEF PulledInTime
  <2>4. CASE Pull
    BY <2>4, PullKeepsRing, PullInTime
  <2>5. CASE UNCHANGED vars
    <3>1. UNCHANGED <<pc, want, ts0, lost, out, total, ringVars>>
      BY <2>5 DEF vars, inputVars
    <3>2. RingInv'
      BY <3>1, AsideKeepsRing DEF RingInv, RingTypes, ReloadsWhole, Missing, ringVars
    <3>3. QED
      BY <3>1, <3>2 DEF PulledInTime
  <2>6. QED
    BY <2>1, <2>2, <2>3, <2>4, <2>5 DEF Next
<1>3. QED
  BY <1>1, <1>2, TimeInvHolds, ClockInvHolds, PTL DEF Spec

(***************************************************************************)
(* A subframe none of which was lost is pulled whole, for any ring that     *)
(* holds a packet and a subframe, any packets and any losses                *)
(* (TimestampBuffer.cpp:62-87, 101-129, IOInterface.cpp:248-251).           *)
(***************************************************************************)
THEOREM AlwaysPulledInTime == Spec => []PulledInTime
<1>1. RingInv /\ PulledInTime => PulledInTime
  OBVIOUS
<1>2. QED
  BY <1>1, RingAlwaysHolds, PTL

-----------------------------------------------------------------------------
(***************************************************************************)
(* Types.  What the invariants above leave open: no time before 0 is ever   *)
(* in the ring, or counted as lost, though all times are signed.            *)
(***************************************************************************)
NoTimeBefore0 ==
  /\ data \in [Cells -> Nat \cup {Blank}]
  /\ timeStart \in Nat /\ lost \subseteq Nat

PlaceTypes ==
  /\ pc \in {"idle", "fill", "thrown"}
  /\ total \in 0 .. Spp - 1

\* A write stores times of the future of 0 only.
LEMMA WriteAfter0 ==
  ASSUME NoTimeBefore0, RingTypes, NEW t \in Int, Write(Spp, t),
         lost' = {x \in lost \cup timeEnd .. t - 1 : x >= want}
  PROVE  NoTimeBefore0'
<1>1. t \in Nat
  BY DEF Write, WriteRefused
<1>2. data' \in [Cells -> Nat \cup {Blank}]
  <2>1. ASSUME NEW i \in Cells PROVE (i - Index(t)) % Size \in 0 .. Size - 1
    <3>1. Index(t) \in Int
      BY IndexIsRemainder, Remainder
    <3>2. i - Index(t) \in Int
      BY <3>1 DEF Cells
    <3>3. QED
      BY <3>2, Remainder
  <2>2. data' = [i \in Cells |-> IF (i - Index(t)) % Size < Spp
                                   THEN t + ((i - Index(t)) % Size) ELSE data[i]]
    BY DEF Write
  <2>3. ASSUME NEW i \in Cells
        PROVE  t + ((i - Index(t)) % Size) \in Nat /\ data[i] \in Nat \cup {Blank}
    BY <1>1, <2>1 DEF NoTimeBefore0
  <2>4. QED
    BY Zenon, <2>2, <2>3
<1>3. timeStart' \in Nat
  BY <1>1 DEF Write, NoTimeBefore0
<1>4. lost' \subseteq Nat
  <2>1. timeEnd \in Nat /\ lost \subseteq Nat
    BY DEF NoTimeBefore0, RingTypes
  <2>2. timeEnd .. t - 1 \subseteq Nat
    BY <2>1
  <2>3. QED
    BY <2>1, <2>2
<1>5. QED
  BY <1>2, <1>3, <1>4 DEF NoTimeBefore0

LEMMA ReceiveAfter0 ==
  ASSUME NoTimeBefore0, RingTypes, ClockInv, Receive
  PROVE  NoTimeBefore0'
<1>1. CASE UNCHANGED <<ringVars, lost>>
  BY <1>1 DEF ringVars, NoTimeBefore0
<1>2. ASSUME NEW drop \in Losses, NEW round \in 0 .. 1, FullPacket(drop, round)
      PROVE  NoTimeBefore0'
  <2> DEFINE time == air + drop
  <2>1. time - round \in Int
    BY DEF ClockInv
  <2>2. CASE Store(time - round, time)
    <3> DEFINE t == Corrected(time - round)
    <3>1. t \in Int
      BY <2>1 DEF Corrected
    <3>2. CASE WriteRefused(Spp, t)
      BY <1>1, <2>2, <3>2 DEF Store
    <3>3. CASE ~WriteRefused(Spp, t)
      BY <2>2, <3>1, <3>3, WriteAfter0 DEF Store
    <3>4. QED
      BY <3>2, <3>3
  <2>3. CASE Discard(time - round) \/ Throw(time - round)
    BY <1>1, <2>3 DEF Discard, Throw
  <2>4. QED
    BY <1>2, <2>2, <2>3 DEF FullPacket
<1>3. QED
  BY <1>1, <1>2 DEF Receive, Timeout, ShortPacket

LEMMA StepAfter0 ==
  ASSUME NoTimeBefore0, RingTypes, ClockInv, [Next]_vars
  PROVE  NoTimeBefore0'
<1>1. CASE UNCHANGED <<ringVars, lost>>
  BY <1>1 DEF ringVars, NoTimeBefore0
<1>2. CASE Reopen
  BY <1>2 DEF Reopen, Fresh, ClockInv, NoTimeBefore0
<1>3. CASE Pull
  BY <1>1, <1>3 DEF Pull, Read, RingTypes, NoTimeBefore0
<1>4. QED
  BY <1>1, <1>2, <1>3, ReceiveAfter0 DEF Next, GetBuffer, vars

LEMMA StepKeepsPlaces ==
  ASSUME PlaceTypes, [Next]_vars
  PROVE  PlaceTypes'
<1> USE DEF PlaceTypes
<1>1. CASE Receive
  <2>1. CASE Timeout
    BY <1>1, <2>1 DEF Timeout
  <2>2. CASE \E drop \in Losses, round \in 0 .. 1 : FullPacket(drop, round)
    BY <2>2 DEF FullPacket, Discard, Throw, Store
  <2>3. CASE \E drop \in Losses, round \in 0 .. 1 :
               \E num \in 1 .. Spp - 1 : ShortPacket(num, drop, round)
    BY <2>3 DEF ShortPacket
  <2>4. QED
    BY <1>1, <2>1, <2>2, <2>3 DEF Receive
<1>2. CASE ~Receive
  BY <1>2 DEF Next, Reopen, GetBuffer, Pull, vars
<1>3. QED
  BY <1>1, <1>2

(***************************************************************************)
(* The types of the path from the device: markers, counters and times stay  *)
(* what the code's unsigned and signed fields can hold, the ring's samples  *)
(* have times from 0 on (TimestampBuffer.h, UHDDevice.cpp:195-243).         *)
(***************************************************************************)
THEOREM RadioInputTypes == Spec => []TypeOK
<1>1. Init => NoTimeBefore0 /\ PlaceTypes
  BY DEF Init, Fresh, NoTimeBefore0, PlaceTypes
<1>2. RingInv => RingTypes
  BY DEF RingInv
<1>3. Spec => [](NoTimeBefore0 /\ PlaceTypes)
  BY <1>1, <1>2, StepAfter0, StepKeepsPlaces, ClockInvHolds, RingAlwaysHolds, PTL DEF Spec
<1>4. ASSUME NoTimeBefore0, PlaceTypes, RingTypes, ClockInv, TimeTypes PROVE TypeOK
  <2>1. dataStart \in Cells
    BY <1>4, Remainder DEF RingTypes, Cells
  <2>2. skew \in Int
    BY <1>4 DEF ClockInv, WithinOneSample
  <2>3. QED
    BY <1>4, <2>1, <2>2
       DEF NoTimeBefore0, PlaceTypes, RingTypes, ClockInv, TimeTypes, TypeOK
<1>5. TimeInv => TimeTypes
  BY DEF TimeInv
<1>6. QED
  BY <1>2, <1>3, <1>4, <1>5, ClockInvHolds, RingAlwaysHolds, TimeInvHolds, PTL
=============================================================================
