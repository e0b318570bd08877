------------------------------ MODULE RadioInput ------------------------------
(***************************************************************************)
(* How subframes of samples get from a device to the synchronizer:          *)
(* IOInterface::getBuffer reckons the time of the next subframe from the    *)
(* loop's counter and the timing correction, reloads the ring from the      *)
(* device until that subframe is there, and pulls it.                       *)
(*                                                                          *)
(* UHDDevice::reload is modelled, with packets that are lost, short or late *)
(* and timestamps that are rounded down.  FileDevice::reload is the same    *)
(* without those: full packets, one after the other, the first discarded.   *)
(***************************************************************************)
EXTENDS TimestampBuffer

CONSTANTS
  Spp,          (* _spp, samples in a full packet                          *)
  FrameSize,    (* _frameSize, samples in a subframe                       *)
  FrameMod,     (* _frameMod: 10                                           *)
  StartOffset,  (* DEV_START_OFFSET: 20                                    *)
  Shifts,       (* what comp_timing_offset returns                         *)
  Losses,       (* numbers of samples that are dropped between packets    *)
  StartTimes,   (* the device's time when it is opened                     *)
  MaxTime       (* bound of the model: nothing is asked for later          *)

ASSUME InputAssumption ==
  /\ Spp \in Nat \ {0, 1, 2} /\ FrameSize \in Nat \ {0}
  /\ Spp + FrameSize <= Size
  /\ FrameMod \in Nat \ {0}
  /\ StartOffset \in Nat
  /\ Shifts \subseteq Int /\ \A s \in Shifts : s > -FrameSize
  /\ Losses \subseteq Nat /\ StartTimes \subseteq Nat
  /\ MaxTime \in Nat

VARIABLES
  pc,         (* "idle"; "fill" in getBuffer; "thrown" after an exception *)
  ts0,        (* _ts0                                                     *)
  frame,      (* the loop's counter, modulo _frameMod                     *)
  prevFrame,  (* _prevFrameNum                                            *)
  want,       (* ts in getBuffer: the time of the subframe                *)
  prevTs,     (* _prev_ts: 0 if the last packet cannot be relied on       *)
  total,      (* samples received so far in this reload                   *)
  air,        (* environment: the time of the next sample on the air      *)
  lost,       (* history: the times that were passed over, from want on   *)
  skew,       (* history: the error of the last packet's time             *)
  out         (* bufs: the subframe pulled last                           *)

inputVars == <<ts0, frame, prevFrame, want>>
vars == <<ringVars, pc, inputVars, prevTs, total, air, lost, skew, out>>

TypeOK ==
  /\ data \in [Cells -> Nat \cup {Blank}]
  /\ timeStart \in Nat /\ timeEnd \in Nat /\ dataStart \in Cells
  /\ pc \in {"idle", "fill", "thrown"}
  /\ ts0 \in Int /\ want \in Int
  /\ frame \in 0 .. FrameMod - 1 /\ prevFrame \in 0 .. FrameMod - 1
  /\ prevTs \in Nat /\ total \in 0 .. Spp - 1 /\ air \in Nat
  /\ lost \subseteq Nat /\ skew \in Int

\* A device is new: so is its ring, whose markers initRx sets to the device's
\* time by a write of no samples; open adds the start offset.
Fresh(d, start, end, at, base) ==
  /\ d = [i \in Cells |-> Blank]
  /\ start = air /\ end = air /\ at = air % Size
  /\ base = air + FrameSize * StartOffset

Init ==
  /\ air \in StartTimes
  /\ Fresh(data, timeStart, timeEnd, dataStart, ts0)
  /\ pc = "idle"
  /\ frame = 0 /\ prevFrame = 0
  /\ want = 0
  /\ prevTs = 0 /\ total = 0
  /\ lost = {} /\ skew = 0 /\ out = <<>>

\* A MIB of another bandwidth, between two subframes.  The counter goes on.
Reopen ==
  /\ pc = "idle"
  /\ Fresh(data', timeStart', timeEnd', dataStart', ts0')
  /\ want' = 0 /\ prevTs' = 0 /\ lost' = {}
  /\ UNCHANGED <<pc, frame, prevFrame, total, air, skew, out>>

-----------------------------------------------------------------------------
(***************************************************************************)
(* getBuffer, up to its loop.                                               *)
(***************************************************************************)
\* Variant of Advance: the base time is moved by one subframe too few.
AdvanceShort == IF frame <= prevFrame THEN (FrameMod - 1) * FrameSize ELSE 0

\* Once every FrameMod subframes the base time moves on.
Advance == IF frame <= prevFrame THEN FrameMod * FrameSize ELSE 0

GetBuffer(shift) ==
  /\ pc = "idle"
  /\ pc' = "fill"
  /\ ts0' = ts0 + shift + Advance
  /\ want' = ts0' + frame * FrameSize
  /\ want' + FrameSize <= MaxTime
  /\ UNCHANGED <<ringVars, frame, prevFrame, prevTs, total, air, lost, skew, out>>

\* The loop's condition.
Missing == want + FrameSize > timeEnd

-----------------------------------------------------------------------------
(***************************************************************************)
(* reload: packets are received until they make up _spp samples.            *)
(***************************************************************************)
Reloading == pc = "fill" /\ (total > 0 \/ Missing)

Timeout ==
  /\ Reloading
  /\ prevTs' = 0
  /\ UNCHANGED <<ringVars, pc, inputVars, total, air, lost, skew, out>>

\* A short packet is counted, but not written.
ShortPacket(num, drop, round) ==
  /\ Reloading
  /\ num < Spp
  /\ total' = IF total + num >= Spp THEN 0 ELSE total + num
  /\ prevTs' = air + drop - round
  /\ air' = air + drop + num
  /\ UNCHANGED <<ringVars, pc, inputVars, lost, skew, out>>

\* Variant of Corrected: the packet is taken to follow the last one.
CorrectedAlways(ts) == prevTs + Spp

\* A time one sample short of the last packet's end is a slip.
Corrected(ts) == IF ts - prevTs = Spp - 1 THEN ts + 1 ELSE ts

Backwards(ts) == ts < prevTs

Discard(ts) ==
  /\ prevTs = 0
  /\ prevTs' = ts
  /\ UNCHANGED <<ringVars, pc, lost, skew>>

Throw(ts) ==
  /\ prevTs # 0 /\ Backwards(ts)
  /\ pc' = "thrown"
  /\ UNCHANGED <<ringVars, prevTs, lost, skew>>

Store(ts, time) ==
  /\ prevTs # 0 /\ ~Backwards(ts)
  /\ LET t == Corrected(ts)
     IN /\ prevTs' = t
        /\ IF WriteRefused(Spp, t)
             THEN UNCHANGED <<ringVars, lost>>
             ELSE /\ Write(Spp, t)
                  /\ lost' = {x \in lost \cup timeEnd .. t - 1 : x >= want}
        /\ skew' = t - time
  /\ UNCHANGED pc

\* A full packet: its time is rounded down to a tick, or one less.
FullPacket(drop, round) ==
  /\ Reloading
  /\ LET time == air + drop
     IN /\ \/ Discard(time - round)
           \/ Throw(time - round)
           \/ Store(time - round, time)
        /\ air' = time + Spp
  /\ total' = 0
  /\ UNCHANGED <<inputVars, out>>

-----------------------------------------------------------------------------
NextFrame == (frame + 1) % FrameMod

\* pull, the end of getBuffer, and the loop's counter.  A read that is refused
\* leaves the buffers as they were, and its result is not looked at.
Pull ==
  /\ pc = "fill" /\ total = 0 /\ ~Missing
  /\ pc' = "idle"
  /\ IF ReadRefused(FrameSize, want)
       THEN UNCHANGED <<ringVars, out>>
       ELSE Read(FrameSize, want) /\ out' = Samples(FrameSize, want)
  /\ prevFrame' = frame
  /\ frame' = NextFrame
  /\ UNCHANGED <<ts0, want, prevTs, total, air, lost, skew>>

\* One turn of reload's loop.
Receive ==
  \/ Timeout
  \/ \E drop \in Losses, round \in 0..1 :
       /\ round <= air
       /\ air + drop + Spp <= MaxTime + 2 * Spp
       /\ \/ FullPacket(drop, round)
          \/ \E num \in 1 .. Spp - 1 : ShortPacket(num, drop, round)

Next ==
  \/ Reopen
  \/ \E shift \in Shifts : GetBuffer(shift)
  \/ Receive
  \/ Pull

Spec == Init /\ [][Next]_vars
-----------------------------------------------------------------------------
(***************************************************************************)
(* A subframe none of which was lost is pulled whole, each sample in place: *)
(* the read marker, which the first write after a read to the end of the    *)
(* ring moves, and the indices reckoned from it stay in step; getBuffer's   *)
(* loop ends when the read will not be refused, and what was received in    *)
(* the meantime has not overwritten the subframe (TimestampBuffer.cpp:      *)
(* 62-87, 101-129, IOInterface.cpp:248-251).                                *)
(***************************************************************************)
PulledInTime ==
  pc = "idle" /\ want # 0 /\ want .. want + FrameSize - 1 \cap lost = {}
    => out = [k \in 0 .. FrameSize - 1 |-> want + k]

(***************************************************************************)
(* Corrections of the timestamps do not accumulate: whatever is rounded,    *)
(* lost or short, a packet is written within a sample of its time, and a    *)
(* device whose clock runs forward is never found to run backward           *)
(* (UHDDevice.cpp:218-229).                                                 *)
(***************************************************************************)
WithinOneSample == skew \in -1 .. 1 /\ pc # "thrown"

(***************************************************************************)
(* A subframe begins where the last one ended, but for the correction asked *)
(* for: the counter that wraps and the base time that then moves on never   *)
(* skip or repeat a sample (IOInterface.cpp:239-246).                       *)
(***************************************************************************)
Contiguous ==
  [][\A shift \in Shifts : GetBuffer(shift) /\ want # 0
       => want' = want + FrameSize + shift]_vars
=============================================================================
