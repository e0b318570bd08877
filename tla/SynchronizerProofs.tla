-------------------------- MODULE SynchronizerProofs --------------------------
(***************************************************************************)
(* Proofs about module Synchronizer, for any limits, cells and bandwidths   *)
(* that SynchronizerAssumption allows.                                      *)
(***************************************************************************)
EXTENDS Synchronizer, TLAPS

(***************************************************************************)
(* What the invariants need to be inductive: the broadcast channel is only  *)
(* ever reached in subframe 0, so that it is decoded in the same tick; and  *)
(* the reference maps are the cell's whenever a cell is set, whatever the   *)
(* state, because SssFound leaves both alone when the cell is the same.     *)
(***************************************************************************)
PbchInSubframe0 == pc = "pdsch" /\ state = "PBCH" => subframe = 0

IdleIsFresh == pc = "idle" => state = "PSS_SYNC"

MapsFollowCell == cellId # NoCell => refCell = cellId

\* A device runs at the bandwidth IOInterface believes it does.
DeviceFollowsIO == ~IsFile /\ pc # "crashed" => devRbs = ioRbs

\* TypeOK in two parts: the flags, and the rest.
FlagTypes ==
  resetReq \in BOOLEAN /\ stopReq \in BOOLEAN /\ signal \in BOOLEAN /\ frameKnown \in BOOLEAN

ControlTypes ==
  /\ pc \in {"idle", "base", "pdsch", "end", "stopped", "crashed"}
  /\ state \in States
  /\ subframe \in Subframes /\ skew \in Subframes
  /\ pssMisses \in Nat
  /\ cellId \in Cells \cup {NoCell} /\ refCell \in Cells \cup {NoCell}
  /\ nIdCell \in Cells \cup {NoCell}
  /\ ioRbs \in Rbs \cup {0} /\ devRbs \in Rbs /\ mibRbs \in Rbs \cup {0}

SyncInv ==
  /\ ControlTypes /\ MissesFitState /\ PbchIsTransient /\ PbchInSubframe0
  /\ IdleIsFresh /\ OneCell /\ MapsFollowCell

\* The label stays a subframe number.
LEMMA TickedType == ASSUME ControlTypes PROVE Ticked \in Subframes
  BY DEF ControlTypes, Ticked, Subframes, NumSubframes

(***************************************************************************)
(* Each part of a tick preserves the invariant.                             *)
(***************************************************************************)
LEMMA SearchPreserves ==
  ASSUME SyncInv, PssSearch \/ PssConfirm \/ BaseIdle
  PROVE  SyncInv'
<1> USE SynchronizerAssumption, TickedType
    DEF SyncInv, ControlTypes, States, Subframes, NumSubframes, MissesFitState,
        PbchIsTransient, PbchInSubframe0, OneCell, MapsFollowCell, IdleIsFresh,
        Acquired, control, cellVars, rbVars, flags
<1>1. CASE PssSearch
  BY <1>1 DEF PssSearch
<1>2. CASE PssConfirm
  BY <1>2 DEF PssConfirm
<1>3. CASE BaseIdle
  BY <1>3 DEF BaseIdle
<1>4. QED
  BY <1>1, <1>2, <1>3

\* The search for the secondary sequence, and the check before the MIB.
LEMMA SssPreserves ==
  ASSUME SyncInv, SssFound \/ SssNotFound \/ PbchSync
  PROVE  SyncInv'
<1> USE SynchronizerAssumption
    DEF SyncInv, ControlTypes, States, Subframes, NumSubframes, MissesFitState,
        PbchIsTransient, PbchInSubframe0, OneCell, MapsFollowCell, IdleIsFresh,
        Acquired, control, cellVars, rbVars, flags, ResetState
<1>1. CASE SssFound
  BY <1>1 DEF SssFound
<1>2. CASE SssNotFound
  BY <1>2 DEF SssNotFound
<1>3. CASE PbchSync
  BY <1>3 DEF PbchSync
<1>4. QED
  BY <1>1, <1>2, <1>3

\* The three outcomes of the MIB.
LEMMA MibPreserves ==
  ASSUME SyncInv, MibMatches \/ MibDiffers \/ MibFails
  PROVE  SyncInv'
<1> USE SynchronizerAssumption
    DEF SyncInv, ControlTypes, States, Subframes, NumSubframes, MissesFitState,
        PbchIsTransient, PbchInSubframe0, OneCell, MapsFollowCell, IdleIsFresh,
        Acquired, control, cellVars, rbVars, flags, ResetState, DecodeMib
<1>1. CASE MibMatches
  BY <1>1 DEF MibMatches
<1>2. CASE MibDiffers
  BY <1>2 DEF MibDiffers, Reopen
<1>3. CASE MibFails
  BY <1>3 DEF MibFails
<1>4. QED
  BY <1>1, <1>2, <1>3

\* The steady state.
LEMMA PdschPreserves ==
  ASSUME SyncInv, PdschLost \/ PdschDeliver \/ PdschIdle
  PROVE  SyncInv'
<1> USE SynchronizerAssumption
    DEF SyncInv, ControlTypes, States, Subframes, NumSubframes, MissesFitState,
        PbchIsTransient, PbchInSubframe0, OneCell, MapsFollowCell, IdleIsFresh,
        Acquired, control, cellVars, rbVars, flags, ResetState
<1>1. CASE PdschLost
  BY <1>1 DEF PdschLost
<1>2. CASE PdschDeliver
  BY <1>2 DEF PdschDeliver
<1>3. CASE PdschIdle
  BY <1>3 DEF PdschIdle
<1>4. QED
  BY <1>1, <1>2, <1>3

\* The other threads, the loop's end and the environment.
LEMMA OutsidePreserves ==
  ASSUME SyncInv,
         Start \/ LoopEnd \/ RequestReset \/ RequestStop \/ LoseSignal
           \/ UNCHANGED vars
  PROVE  SyncInv'
<1> USE SynchronizerAssumption
    DEF SyncInv, ControlTypes, States, Subframes, NumSubframes, MissesFitState,
        PbchIsTransient, PbchInSubframe0, OneCell, MapsFollowCell, IdleIsFresh,
        Acquired, control, cellVars, rbVars, flags, ResetState, vars
<1>1. CASE Start
  BY <1>1 DEF Start
<1>2. CASE LoopEnd
  BY <1>2 DEF LoopEnd
<1>3. CASE RequestReset \/ RequestStop \/ LoseSignal \/ UNCHANGED vars
  BY <1>3 DEF RequestReset, RequestStop, LoseSignal
<1>4. QED
  BY <1>1, <1>2, <1>3

(***************************************************************************)
(* The miss counter fits its state, PBCH is passed through within a tick,   *)
(* and the cell is the same wherever it is kept, in every reachable state   *)
(* and from a recording as well as from a device.                           *)
(***************************************************************************)
THEOREM SynchronizerInvariant == Spec => []SyncInv
<1>1. Init => SyncInv
  BY SynchronizerAssumption
     DEF Init, SyncInv, ControlTypes, States, Subframes, NumSubframes, MissesFitState,
         PbchIsTransient, PbchInSubframe0, OneCell, MapsFollowCell, IdleIsFresh,
        Acquired
<1>2. SyncInv /\ [Next]_vars => SyncInv'
  BY SearchPreserves, SssPreserves, MibPreserves, PdschPreserves, OutsidePreserves
     DEF Next, Loop, BaseDrive, PdschDrive
<1>3. QED
  BY <1>1, <1>2, PTL DEF Spec

(***************************************************************************)
(* The shared counter of misses stays within the limit of the state it is   *)
(* in, for any limits in the code's order (Synchronizer.cpp:406-434,        *)
(* SynchronizerPDSCH.cpp:68-96).                                            *)
(***************************************************************************)
THEOREM MissesAlwaysFit == Spec => []MissesFitState
<1>1. SyncInv => MissesFitState
  BY DEF SyncInv
<1>2. QED
  BY <1>1, SynchronizerInvariant, PTL

(***************************************************************************)
(* No tick ends in PBCH: the attempt at the MIB is over, one way or the     *)
(* other, in the tick that started it (SynchronizerPDSCH.cpp:68-96).        *)
(***************************************************************************)
THEOREM PbchAlwaysTransient == Spec => []PbchIsTransient
<1>1. SyncInv => PbchIsTransient
  BY DEF SyncInv
<1>2. QED
  BY <1>1, SynchronizerInvariant, PTL

(***************************************************************************)
(* The identity stamped on the buffers, the one SSS detection found and the *)
(* one of the reference maps are the same cell once it is acquired          *)
(* (Synchronizer.cpp:412-416).                                              *)
(***************************************************************************)
THEOREM AlwaysOneCell == Spec => []OneCell
<1>1. SyncInv => OneCell
  BY DEF SyncInv
<1>2. QED
  BY <1>1, SynchronizerInvariant, PTL
-----------------------------------------------------------------------------
(***************************************************************************)
(* The flags stay Boolean, so that with SyncInv the whole of TypeOK holds.  *)
(***************************************************************************)
LEMMA FlagsPreserved == FlagTypes /\ [Next]_vars => FlagTypes'
<1> SUFFICES ASSUME FlagTypes, [Next]_vars PROVE FlagTypes'
  OBVIOUS
<1> USE Zenon DEF FlagTypes, control, cellVars, rbVars, flags
<1>1. CASE PssSearch \/ PssConfirm \/ BaseIdle
  BY <1>1 DEF PssSearch, PssConfirm, BaseIdle
<1>2. CASE SssFound \/ SssNotFound \/ PbchSync
  BY <1>2 DEF SssFound, SssNotFound, PbchSync, ResetState
<1>3. CASE MibMatches \/ MibDiffers \/ MibFails
  BY <1>3 DEF MibMatches, MibDiffers, MibFails, ResetState, DecodeMib, Reopen
<1>4. CASE PdschLost \/ PdschDeliver \/ PdschIdle
  BY <1>4 DEF PdschLost, PdschDeliver, PdschIdle, ResetState
<1>5. CASE Start \/ LoopEnd \/ RequestReset \/ RequestStop \/ LoseSignal
  BY <1>5 DEF Start, LoopEnd, RequestReset, RequestStop, LoseSignal, ResetState
<1>6. CASE UNCHANGED vars
  BY <1>6 DEF vars
<1>7. QED
  BY <1>1, <1>2, <1>3, <1>4, <1>5, <1>6 DEF Next, Loop, BaseDrive, PdschDrive

(***************************************************************************)
(* Every variable keeps its type: above all, the subframe label and the     *)
(* error of the label stay in a frame whatever SSS detection writes.        *)
(***************************************************************************)
THEOREM SynchronizerTypes == Spec => []TypeOK
<1>1. Init => FlagTypes
  BY DEF Init, FlagTypes
<1>2. FlagTypes /\ SyncInv => TypeOK
  BY Zenon DEF FlagTypes, SyncInv, ControlTypes, TypeOK
<1>3. QED
  BY <1>1, <1>2, FlagsPreserved, SynchronizerInvariant, PTL DEF Spec

(***************************************************************************)
(* The label is true, and so is the frame number of what is delivered, as   *)
(* long as no malformed MIB is taken for a good one: with one, the frame    *)
(* number is the one of the MIB before.                                     *)
(***************************************************************************)
THEOREM LabelsAlwaysTrue ==
  ASSUME ~SpuriousMib PROVE Spec => []LabelsAreTrue
<1>1. Init => LabelsAreTrue
  BY DEF Init, LabelsAreTrue, Acquired
<1>2. LabelsAreTrue /\ [Next]_vars => LabelsAreTrue'
  <2> SUFFICES ASSUME LabelsAreTrue, [Next]_vars PROVE LabelsAreTrue'
    OBVIOUS
  <2> USE DEF LabelsAreTrue, Acquired, control, cellVars, rbVars, flags
  <2>1. CASE PssSearch \/ PssConfirm \/ BaseIdle
    BY <2>1 DEF PssSearch, PssConfirm, BaseIdle
  <2>2. CASE SssFound \/ SssNotFound \/ PbchSync
    BY <2>2 DEF SssFound, SssNotFound, PbchSync, ResetState
  <2>3. CASE MibMatches \/ MibDiffers \/ MibFails
    BY <2>3 DEF MibMatches, MibDiffers, MibFails, ResetState, DecodeMib
  <2>4. CASE PdschLost \/ PdschDeliver \/ PdschIdle
    BY <2>4 DEF PdschLost, PdschDeliver, PdschIdle, ResetState
  <2>5. CASE Start \/ LoopEnd \/ RequestReset \/ RequestStop \/ LoseSignal
    BY <2>5 DEF Start, LoopEnd, RequestReset, RequestStop, LoseSignal, ResetState
  <2>6. CASE UNCHANGED vars
    BY <2>6 DEF vars
  <2>7. QED
    BY <2>1, <2>2, <2>3, <2>4, <2>5, <2>6 DEF Next, Loop, BaseDrive, PdschDrive
<1>3. QED
  BY <1>1, <1>2, PTL DEF Spec

(***************************************************************************)
(* From a device, subframes are delivered at the bandwidth of the MIB, even *)
(* if malformed MIBs are taken for good ones and devices fail to reopen.    *)
(***************************************************************************)
THEOREM DeviceAlwaysMatches ==
  ASSUME ~IsFile PROVE Spec => []DeviceMatchesMib
<1> DEFINE Inv == DeviceMatchesMib /\ DeviceFollowsIO /\ (state = "PDSCH_SYNC" => pc # "crashed")
<1>1. Init => Inv
  BY DEF Init, DeviceMatchesMib, DeviceFollowsIO
<1>2. Inv /\ [Next]_vars => Inv'
  <2> SUFFICES ASSUME Inv, [Next]_vars PROVE Inv'
    OBVIOUS
  <2> USE DEF DeviceMatchesMib, DeviceFollowsIO, control, cellVars, rbVars, flags
  <2>1. CASE PssSearch \/ PssConfirm \/ BaseIdle
    BY <2>1 DEF PssSearch, PssConfirm, BaseIdle
  <2>2. CASE SssFound \/ SssNotFound \/ PbchSync
    BY <2>2 DEF SssFound, SssNotFound, PbchSync, ResetState
  <2>3. CASE MibMatches \/ MibDiffers \/ MibFails
    BY <2>3 DEF MibMatches, MibDiffers, MibFails, ResetState, Reopen
  <2>4. CASE PdschLost \/ PdschDeliver \/ PdschIdle
    BY <2>4 DEF PdschLost, PdschDeliver, PdschIdle, ResetState
  <2>5. CASE Start \/ LoopEnd \/ RequestReset \/ RequestStop \/ LoseSignal
    BY <2>5 DEF Start, LoopEnd, RequestReset, RequestStop, LoseSignal, ResetState
  <2>6. CASE UNCHANGED vars
    BY <2>6 DEF vars
  <2>7. QED
    BY <2>1, <2>2, <2>3, <2>4, <2>5, <2>6 DEF Next, Loop, BaseDrive, PdschDrive
<1>3. Inv => DeviceMatchesMib
  OBVIOUS
<1>4. QED
  BY <1>1, <1>2, <1>3, PTL DEF Spec

(***************************************************************************)
(* Whatever clears a request to reset also starts the search again.         *)
(***************************************************************************)
THEOREM ResetNeverLost == Spec => ResetNotLost
<1>1. [Next]_vars => [resetReq /\ ~resetReq' => state' = "PSS_SYNC"]_vars
  <2> SUFFICES ASSUME Next, resetReq, ~resetReq' PROVE state' = "PSS_SYNC"
    OBVIOUS
  <2> USE DEF control, cellVars, rbVars, flags
  <2>1. CASE BaseDrive
    BY <2>1 DEF BaseDrive, PssSearch, PssConfirm, BaseIdle, SssFound, SssNotFound,
                PbchSync, ResetState
  <2>2. CASE PdschDrive
    BY <2>2 DEF PdschDrive, MibMatches, MibDiffers, MibFails, PdschLost,
                PdschDeliver, PdschIdle, ResetState
  <2>3. CASE Start \/ LoopEnd \/ RequestReset \/ RequestStop \/ LoseSignal
    BY <2>3 DEF Start, LoopEnd, RequestReset, RequestStop, LoseSignal, ResetState
  <2>4. QED
    BY <2>1, <2>2, <2>3 DEF Next, Loop
<1>2. QED
  BY <1>1, PTL DEF Spec, ResetNotLost
=============================================================================
