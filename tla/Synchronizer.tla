---------------------------- MODULE Synchronizer ----------------------------
(***************************************************************************)
(* The synchronizer's state machine (Synchronizer.cpp and                   *)
(* SynchronizerPDSCH.cpp): primary and secondary synchronization, the MIB,  *)
(* and then the steady state in which every subframe goes to the decoders.  *)
(* One tick of the loop in SynchronizerPDSCH::start is one subframe; its    *)
(* three parts (the base drive(), the switch of SynchronizerPDSCH::drive(), *)
(* and the tests of _reset and _stop at the end of the loop) are steps of   *)
(* their own, because reset() and stop() are called by other threads.       *)
(*                                                                          *)
(* The signal processing is left out.  A detector's result is a choice, and *)
(* what is assumed of it is said where the choice is made.                  *)
(***************************************************************************)
EXTENDS Naturals

CONSTANTS
  Cells,          (* physical cell identities                             *)
  NoCell,         (* _cellId = -1                                         *)
  Rbs,            (* bandwidths, in resource blocks                       *)
  InitRbs,        (* the bandwidth the receiver is opened with            *)
  IsFile,         (* the samples come from a recording                    *)
  SpuriousMib,    (* a MIB may pass its CRC and still be malformed        *)
  SssLimit,       (* PSS misses that abandon SSS_SYNC: 4                  *)
  PbchSyncLimit,  (* PSS misses that PBCH_SYNC survives: 20               *)
  PbchLimit,      (* misses that a failed MIB survives: 10                *)
  PdschLimit      (* PSS misses that PDSCH_SYNC survives: 100             *)

ASSUME SynchronizerAssumption ==
  /\ NoCell \notin Cells
  /\ Rbs \subseteq Nat \ {0}
  /\ InitRbs \in Rbs
  /\ IsFile \in BOOLEAN
  /\ SpuriousMib \in BOOLEAN
  /\ SssLimit \in Nat \ {0} /\ PbchSyncLimit \in Nat
  /\ PbchLimit \in Nat /\ PdschLimit \in Nat
  /\ SssLimit < PbchSyncLimit /\ PbchLimit <= PbchSyncLimit

NumSubframes == 10
Subframes == 0 .. NumSubframes - 1

States ==
  {"PSS_SYNC", "PSS_SYNC2", "SSS_SYNC", "PBCH_SYNC", "PBCH", "PDSCH_SYNC"}

VARIABLES
  pc,         (* the loop's place: "idle" before start(), "crashed" when
                 what follows is undefined                               *)
  state,      (* _rx->state                                              *)
  subframe,   (* _rx->time.subframe                                      *)
  pssMisses,  (* _pssMisses                                              *)
  cellId,     (* _cellId                                                 *)
  refCell,    (* the cell _pbchRefMaps were generated for                *)
  nIdCell,    (* _rx->sync.n_id_cell, the cell SSS detection found       *)
  ioRbs,      (* IOInterface::_rbs                                       *)
  devRbs,     (* the bandwidth the device and the converter work at      *)
  mibRbs,     (* rbs of the static MIB: 0 before the first one           *)
  resetReq,   (* _reset                                                  *)
  stopReq,    (* _stop                                                   *)
  signal,     (* environment: the cell can be received                   *)
  skew,       (* history: the subframe in the air, less the label        *)
  frameKnown  (* history: the frame number is the air's                  *)

control  == <<pc, state>>
cellVars == <<cellId, refCell, nIdCell>>
rbVars   == <<ioRbs, devRbs, mibRbs>>
flags    == <<resetReq, stopReq>>
vars == <<control, subframe, pssMisses, cellVars, rbVars, flags, signal, skew,
          frameKnown>>

TypeOK ==
  /\ pc \in {"idle", "base", "pdsch", "end", "stopped", "crashed"}
  /\ state \in States
  /\ subframe \in Subframes
  /\ pssMisses \in Nat
  /\ cellId \in Cells \cup {NoCell} /\ refCell \in Cells \cup {NoCell}
  /\ nIdCell \in Cells \cup {NoCell}
  /\ ioRbs \in Rbs \cup {0} /\ devRbs \in Rbs /\ mibRbs \in Rbs \cup {0}
  /\ resetReq \in BOOLEAN /\ stopReq \in BOOLEAN
  /\ signal \in BOOLEAN /\ skew \in Subframes /\ frameKnown \in BOOLEAN

\* After Synchronizer::open.  _stop is not initialised.
Init ==
  /\ pc = "idle"
  /\ state = "PSS_SYNC"
  /\ subframe = 0
  /\ pssMisses = 0
  /\ cellId = NoCell /\ refCell = NoCell /\ nIdCell = NoCell
  /\ ioRbs = InitRbs /\ devRbs = InitRbs /\ mibRbs = 0
  /\ resetReq = FALSE /\ stopReq \in BOOLEAN
  /\ signal = TRUE /\ skew = 0 /\ frameKnown = FALSE

-----------------------------------------------------------------------------
(***************************************************************************)
(* Other threads and the environment.                                       *)
(***************************************************************************)
RequestReset ==
  /\ resetReq' = TRUE
  /\ UNCHANGED <<control, subframe, pssMisses, cellVars, rbVars, stopReq,
                 signal, skew, frameKnown>>

\* stop(): the flag; it stops the device a second later.
RequestStop ==
  /\ stopReq' = TRUE
  /\ UNCHANGED <<control, subframe, pssMisses, cellVars, rbVars, resetReq,
                 signal, skew, frameKnown>>

\* The cell goes off the air for good, and what was in flight is decoded.
LoseSignal ==
  /\ signal
  /\ signal' = FALSE
  /\ UNCHANGED <<control, subframe, pssMisses, cellVars, rbVars, flags, skew,
                 frameKnown>>

-----------------------------------------------------------------------------
(***************************************************************************)
(* Synchronizer::drive.  The subframe count has been advanced first, by     *)
(* SynchronizerPDSCH::drive.                                                *)
(***************************************************************************)
\* Variant: the count of subframes without its wrap.
TickedOn == subframe + 1

Ticked == (subframe + 1) % NumSubframes

\* Variant: a reset that forgets the counter.
ResetStateOnly ==
  /\ state' = "PSS_SYNC"
  /\ resetReq' = FALSE
  /\ UNCHANGED pssMisses

\* resetState(); the carrier goes back to its configured frequency.
ResetState ==
  /\ state' = "PSS_SYNC"
  /\ pssMisses' = 0
  /\ resetReq' = FALSE

\* Stage 1: a peak above the threshold labels its subframe 0.  It can be a
\* PSS, of subframe 0 or 5, or a false alarm anywhere.
PssSearch ==
  /\ pc = "base" /\ state = "PSS_SYNC"
  /\ pc' = "pdsch"
  /\ \/ /\ signal
        /\ subframe' = 0
        /\ skew' \in Subframes
        /\ frameKnown' = FALSE
        /\ state' = "PSS_SYNC2"
     \/ /\ subframe' = Ticked
        /\ UNCHANGED <<skew, frameKnown, state>>
  /\ UNCHANGED <<pssMisses, cellVars, rbVars, flags, signal>>

\* Stage 2, ten subframes on: one of two checks has to succeed.
PssConfirm ==
  /\ pc = "base" /\ state = "PSS_SYNC2" /\ Ticked = 0
  /\ pc' = "pdsch" /\ subframe' = 0
  /\ \/ signal /\ state' = "SSS_SYNC"
     \/ state' = "PSS_SYNC"
  /\ UNCHANGED <<pssMisses, cellVars, rbVars, flags, signal, skew, frameKnown>>

\* Variants of SssFound: the label is not corrected; the cell's parameters are
\* set for the first cell only.
SssFoundKeepsLabel ==
  /\ pc = "base" /\ state = "SSS_SYNC" /\ Ticked = 0
  /\ signal /\ skew \in {0, 5}
  /\ pc' = "pdsch"
  /\ subframe' = 0
  /\ \E m \in 0..2 : pssMisses' = pssMisses + m
  /\ nIdCell' \in Cells
  /\ cellId' = nIdCell' /\ refCell' = nIdCell'
  /\ state' = "PBCH_SYNC"
  /\ UNCHANGED <<rbVars, flags, signal, skew, frameKnown>>

SssFoundKeepsCell ==
  /\ pc = "base" /\ state = "SSS_SYNC" /\ Ticked = 0
  /\ signal /\ skew \in {0, 5}
  /\ pc' = "pdsch"
  /\ subframe' = skew /\ skew' = 0
  /\ \E m \in 0..2 : pssMisses' = pssMisses + m
  /\ nIdCell' \in Cells
  /\ IF cellId = NoCell THEN cellId' = nIdCell' /\ refCell' = nIdCell'
                        ELSE UNCHANGED <<cellId, refCell>>
  /\ state' = "PBCH_SYNC"
  /\ UNCHANGED <<rbVars, flags, signal, frameKnown>>

\* syncSSS found the secondary sequence.  Assumed of the detector: it matches
\* only at a PSS of the cell, so the label's error is 0 or 5, and it tells which.
SssFound ==
  /\ pc = "base" /\ state = "SSS_SYNC" /\ Ticked = 0
  /\ signal /\ skew \in {0, 5}
  /\ pc' = "pdsch"
  /\ subframe' = skew
  /\ skew' = 0
  /\ \E m \in 0..2 : pssMisses' = pssMisses + m
  /\ nIdCell' \in Cells
  /\ IF cellId # nIdCell' THEN cellId' = nIdCell' /\ refCell' = nIdCell'
                          ELSE UNCHANGED <<cellId, refCell>>
  /\ state' = "PBCH_SYNC"
  /\ UNCHANGED <<rbVars, flags, signal, frameKnown>>

\* Variant of SssNotFound: the misses of the PSS are not counted.
SssNotFoundUncounted ==
  /\ pc = "base" /\ state = "SSS_SYNC" /\ Ticked = 0
  /\ pc' = "pdsch" /\ subframe' = 0
  /\ UNCHANGED <<state, pssMisses, cellVars, rbVars, flags, signal, skew,
                 frameKnown>>

\* Still searching, or no sequence matched: each of the two PSS checks that
\* failed is a miss.  Without the cell on the air at least one fails.
SssNotFound ==
  /\ pc = "base" /\ state = "SSS_SYNC" /\ Ticked = 0
  /\ pc' = "pdsch" /\ subframe' = 0
  /\ \E m \in 0..2 :
       /\ m = 0 => signal
       /\ \/ /\ pssMisses + m >= SssLimit
             /\ ResetState
          \/ /\ pssMisses + m < SssLimit
             /\ pssMisses' = pssMisses + m
             /\ UNCHANGED <<state, resetReq>>
  /\ UNCHANGED <<cellVars, rbVars, stopReq, signal, skew, frameKnown>>

\* Stage 3: the PSS again, before the broadcast channel is decoded.  A peak
\* in the right place with another cell's identity counts for eleven misses.
PbchSync ==
  /\ pc = "base" /\ state = "PBCH_SYNC" /\ Ticked = 0
  /\ pc' = "pdsch" /\ subframe' = 0
  /\ \/ /\ signal
        /\ state' = "PBCH"
        /\ UNCHANGED <<pssMisses, resetReq>>
     \/ \E m \in {1, 11} :
          \/ /\ pssMisses + m > PbchSyncLimit
             /\ ResetState
          \/ /\ pssMisses + m <= PbchSyncLimit
             /\ pssMisses' = pssMisses + m
             /\ UNCHANGED <<state, resetReq>>
  /\ UNCHANGED <<cellVars, rbVars, stopReq, signal, skew, frameKnown>>

\* In between, and in PDSCH_SYNC, the base drive does nothing.
BaseIdle ==
  /\ pc = "base"
  /\ \/ state \in {"PSS_SYNC2", "SSS_SYNC", "PBCH_SYNC"} /\ Ticked # 0
     \/ state \in {"PBCH", "PDSCH_SYNC"}
  /\ pc' = "pdsch" /\ subframe' = Ticked
  /\ UNCHANGED <<state, pssMisses, cellVars, rbVars, flags, signal, skew,
                 frameKnown>>

BaseDrive ==
  \/ PssSearch \/ PssConfirm \/ SssFound \/ SssNotFound \/ PbchSync \/ BaseIdle

-----------------------------------------------------------------------------
(***************************************************************************)
(* The switch of SynchronizerPDSCH::drive.                                  *)
(***************************************************************************)

\* What decoding the MIB leaves in the static mib, from which the frame number
\* is taken.  pbch_decode reports success even if pbch_unpack has refused the
\* block, and then the mib is the one before.
DecodeMib ==
  \/ mibRbs' \in Rbs /\ frameKnown' = TRUE
  \/ SpuriousMib /\ mibRbs' = mibRbs /\ frameKnown' = FALSE

\* Variant of Reopen: the device is opened as it was at first.
ReopenAsBefore(r) ==
  /\ ~IsFile
  /\ pc' = "end"
  /\ devRbs' = InitRbs
  /\ subframe' = 0
  /\ cellId' = NoCell /\ nIdCell' = NoCell
  /\ resetReq' = FALSE

(***************************************************************************)
(* reopen(r).  A file refuses; a device is opened again and the receiver    *)
(* starts over, unless the open fails: then the new device object has no    *)
(* stream, and using it is undefined.  A bandwidth of 0 divides by zero.    *)
(***************************************************************************)
Reopen(r) ==
  \/ /\ IsFile
     /\ pc' = "end"
     /\ UNCHANGED <<devRbs, subframe, cellId, nIdCell, resetReq>>
  \/ /\ ~IsFile /\ r \in Rbs
     /\ pc' = "end"
     /\ devRbs' = r
     /\ subframe' = 0
     /\ cellId' = NoCell /\ nIdCell' = NoCell
     /\ resetReq' = FALSE
  \/ /\ ~IsFile
     /\ pc' = "crashed"
     /\ UNCHANGED <<devRbs, subframe, cellId, nIdCell, resetReq>>

\* Variant of MibMatches: it clears the request to reset with the counter.
MibMatchesClearsReset ==
  /\ pc = "pdsch" /\ state = "PBCH" /\ subframe = 0
  /\ signal
  /\ DecodeMib /\ mibRbs' = ioRbs
  /\ pc' = "end"
  /\ state' = "PDSCH_SYNC"
  /\ pssMisses' = 0 /\ resetReq' = FALSE
  /\ UNCHANGED <<subframe, cellVars, ioRbs, devRbs, stopReq, signal, skew>>

\* The MIB is decoded and announces the bandwidth in use.
MibMatches ==
  /\ pc = "pdsch" /\ state = "PBCH" /\ subframe = 0
  /\ signal
  /\ DecodeMib /\ mibRbs' = ioRbs
  /\ pc' = "end"
  /\ state' = "PDSCH_SYNC"
  /\ pssMisses' = 0
  /\ UNCHANGED <<subframe, cellVars, ioRbs, devRbs, flags, signal, skew>>

\* It announces another: _rbs is overwritten first, reopen's result is not
\* looked at, and the search starts again.
MibDiffers ==
  /\ pc = "pdsch" /\ state = "PBCH" /\ subframe = 0
  /\ signal
  /\ DecodeMib /\ mibRbs' # ioRbs
  /\ ioRbs' = mibRbs'
  /\ Reopen(mibRbs')
  /\ state' = "PSS_SYNC"
  /\ pssMisses' = 0
  /\ UNCHANGED <<refCell, stopReq, signal, skew>>

\* Variant of MibFails: the state is left as it is below the limit.
MibFailsStays ==
  /\ pc = "pdsch" /\ state = "PBCH" /\ subframe = 0
  /\ pc' = "end"
  /\ \/ pssMisses + 1 > PbchLimit /\ ResetState
     \/ /\ pssMisses + 1 <= PbchLimit
        /\ pssMisses' = pssMisses + 1
        /\ UNCHANGED <<state, resetReq>>
  /\ UNCHANGED <<subframe, cellVars, rbVars, stopReq, signal, skew, frameKnown>>

MibFails ==
  /\ pc = "pdsch" /\ state = "PBCH" /\ subframe = 0
  /\ pc' = "end"
  /\ \/ /\ pssMisses + 1 > PbchLimit
        /\ ResetState
     \/ /\ pssMisses + 1 <= PbchLimit
        /\ pssMisses' = pssMisses + 1
        /\ state' = "PBCH_SYNC"
        /\ UNCHANGED resetReq
  /\ UNCHANGED <<subframe, cellVars, rbVars, stopReq, signal, skew, frameKnown>>

\* Stage 4, in subframe 5, fails once too often.
PdschLost ==
  /\ pc = "pdsch" /\ state = "PDSCH_SYNC" /\ subframe = 5
  /\ pssMisses + 1 > PdschLimit
  /\ pc' = "end"
  /\ ResetState
  /\ UNCHANGED <<subframe, cellVars, rbVars, stopReq, signal, skew, frameKnown>>

\* Otherwise the subframe goes to the decoders, if there is a buffer for it.
\* The buffer taken for it may say that an earlier subframe had a valid CRC,
\* which clears the misses.  Once the signal is lost none does.
PdschDeliver ==
  /\ pc = "pdsch" /\ state = "PDSCH_SYNC"
  /\ \E m \in 0..1 :
       /\ m = 1 => subframe = 5
       /\ m = 0 => subframe # 5 \/ signal
       /\ m = 1 => pssMisses + 1 <= PdschLimit
       /\ \/ pssMisses' = pssMisses + m
          \/ signal /\ pssMisses' = 0
  /\ pc' = "end"
  /\ UNCHANGED <<state, subframe, cellVars, rbVars, flags, signal, skew,
                 frameKnown>>

\* In the other states, and in PBCH outside subframe 0, nothing is done.
PdschIdle ==
  /\ pc = "pdsch"
  /\ state # "PDSCH_SYNC"
  /\ state = "PBCH" => subframe # 0
  /\ pc' = "end"
  /\ UNCHANGED <<state, subframe, pssMisses, cellVars, rbVars, flags, signal,
                 skew, frameKnown>>

PdschDrive ==
  \/ MibMatches \/ MibDiffers \/ MibFails
  \/ PdschLost \/ PdschDeliver \/ PdschIdle

-----------------------------------------------------------------------------
(***************************************************************************)
(* The loop of SynchronizerPDSCH::start.                                    *)
(***************************************************************************)
Start ==
  /\ pc = "idle"
  /\ pc' = "base"
  /\ stopReq' = FALSE
  /\ UNCHANGED <<state, subframe, pssMisses, cellVars, rbVars, resetReq, signal,
                 skew, frameKnown>>

\* Variant of LoopEnd: _stop is looked at only if there is no reset to do.
LoopEndResetFirst ==
  /\ pc = "end"
  /\ \/ resetReq /\ ResetState /\ pc' = "base"
     \/ /\ ~resetReq
        /\ pc' = IF stopReq THEN "stopped" ELSE "base"
        /\ UNCHANGED <<state, pssMisses, resetReq>>
  /\ UNCHANGED <<subframe, cellVars, rbVars, stopReq, signal, skew, frameKnown>>

LoopEnd ==
  /\ pc = "end"
  /\ \/ resetReq /\ ResetState
     \/ ~resetReq /\ UNCHANGED <<state, pssMisses, resetReq>>
  /\ pc' = IF stopReq THEN "stopped" ELSE "base"
  /\ UNCHANGED <<subframe, cellVars, rbVars, stopReq, signal, skew, frameKnown>>

Loop == BaseDrive \/ PdschDrive \/ LoopEnd

Next == Start \/ Loop \/ RequestReset \/ RequestStop \/ LoseSignal

Spec == Init /\ [][Next]_vars

\* The receiver's thread keeps running: the radio delivers subframes.
FairSpec == Spec /\ WF_vars(Start) /\ WF_vars(Loop)
-----------------------------------------------------------------------------
Acquired == {"PBCH_SYNC", "PBCH", "PDSCH_SYNC"}

(***************************************************************************)
(* One counter serves four states, with a limit of its own in each.  It     *)
(* never carries misses into a new acquisition, nor past the limit of the   *)
(* state it is in, though SSS_SYNC hands its misses on to PBCH_SYNC and     *)
(* PBCH_SYNC and PBCH hand them to and fro (Synchronizer.cpp:406-434,       *)
(* SynchronizerPDSCH.cpp:68-96).                                            *)
(***************************************************************************)
MissesFitState ==
  /\ state \in {"PSS_SYNC", "PSS_SYNC2"} => pssMisses = 0
  /\ state = "SSS_SYNC" => pssMisses < SssLimit
  /\ state \in {"PBCH_SYNC", "PBCH"} => pssMisses <= PbchSyncLimit
  /\ state = "PDSCH_SYNC" => pssMisses <= PdschLimit

(***************************************************************************)
(* PBCH is passed through within a tick: whatever the MIB says, the next    *)
(* tick starts in another state.  Were it not so the receiver would stay    *)
(* there, where the base drive() does nothing (Synchronizer.cpp:384-436).   *)
(***************************************************************************)
PbchIsTransient == pc \in {"base", "end"} => state # "PBCH"

(***************************************************************************)
(* Once the cell is acquired the subframe label is the one on the air, and  *)
(* so is the frame number of every subframe that goes to the decoders:      *)
(* stage 1 labels a PSS 0 that may be 5, SSS corrects it in a tick that     *)
(* also advances it, and the label steps on through every state, reset and  *)
(* reopening (SynchronizerPDSCH.cpp:61-63, Synchronizer.cpp:410).           *)
(***************************************************************************)
LabelsAreTrue ==
  /\ state \in Acquired => skew = 0
  /\ state = "PDSCH_SYNC" => frameKnown

(***************************************************************************)
(* The identity stamped on the buffers, the one SSS detection found, and    *)
(* the one the PBCH's reference maps were generated for are the same cell,  *)
(* though each is written elsewhere, only when it has changed, and cleared  *)
(* by some resets and not by others (Synchronizer.cpp:412-416, 497-506).    *)
(***************************************************************************)
OneCell ==
  state \in Acquired => cellId # NoCell /\ nIdCell = cellId /\ refCell = cellId

(***************************************************************************)
(* Subframes go to the decoders only while the device runs at the bandwidth *)
(* stamped on them, which is the MIB's: a mismatch is an error              *)
(* ("Resource block configuration mismatch", IOInterface.cpp:137).          *)
(***************************************************************************)
DeviceMatchesMib == state = "PDSCH_SYNC" => devRbs = mibRbs

(***************************************************************************)
(* The receiver never takes over a number of resource blocks that does not  *)
(* exist ("Invalid number of resource blocks", pbch.c:309).                 *)
(***************************************************************************)
BandwidthIsValid == ioRbs \in Rbs

(***************************************************************************)
(* A request to reset is never swallowed: _reset is cleared in two places   *)
(* besides the end of the loop, and wherever it is, the search starts again *)
(* (Synchronizer.cpp:103, 438-447, SynchronizerPDSCH.cpp:149).              *)
(***************************************************************************)
ResetNotLost == [][resetReq /\ ~resetReq' => state' = "PSS_SYNC"]_vars

Halted == pc \in {"stopped", "crashed"}

(***************************************************************************)
(* A cell that goes off the air is noticed, in whatever state it happens:   *)
(* the miss counter gets to its limit and the search starts again.          *)
(***************************************************************************)
LossIsNoticed == ~signal ~> (state = "PSS_SYNC" \/ Halted)

(***************************************************************************)
(* stop() ends the loop, once start() has begun: start() clears the flag    *)
(* (SynchronizerPDSCH.cpp:135-150).                                         *)
(***************************************************************************)
StopEndsLoop == (stopReq /\ pc # "idle") ~> Halted
=============================================================================
