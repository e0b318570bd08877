-------------------------- MODULE SubframePipeline --------------------------
(***************************************************************************)
(* The path of a subframe through the receiver's threads: the synchronizer  *)
(* takes a buffer from pdschReturnQueue, consumes the feedback the last     *)
(* decoder left in it, stamps it with the cell's parameters and the         *)
(* subframe number, and writes it to pdschQueue; a decoder thread takes it, *)
(* decodes it, leaves new feedback and writes it back to pdschReturnQueue.  *)
(* The only memory the threads share is the two queues and the buffers.     *)
(*                                                                          *)
(* Of the synchronizer this module keeps what its thread does to the        *)
(* buffers.  When it searches, what it finds, and when the carrier moves    *)
(* are left open here; module Synchronizer says which of it can happen.     *)
(***************************************************************************)
EXTENDS Naturals, FiniteSets, SequencesExt

CONSTANTS
  Buffers,       (* the LteBuffers that prime the return queue           *)
  Decoders,      (* the DecoderPDSCH threads                             *)
  Sync,          (* the synchronizer's thread                            *)
  CellIds,       (* cell identities a search can find                    *)
  Mibs,          (* the (rbs, ng, txAntennas) a MIB can announce         *)
  NumSubframes,  (* subframes in a frame: 10 in the code                 *)
  Window,        (* size of the frequency averager: 200 in the code      *)
  Lag,           (* subframes sampled before a move of the oscillator that
                    are still to be delivered after it: the tail that the
                    converter carries over, and what the device buffers  *)
  IsFile,        (* a recording is played back, instead of a device      *)
  NoBuffer,      (* no buffer is held                                    *)
  NoConfig       (* _cellIdValid is false                                *)

ASSUME PipelineAssumption ==
  /\ IsFiniteSet(Buffers) /\ Buffers # {}
  /\ IsFiniteSet(Decoders)
  /\ Sync \notin Decoders
  /\ NumSubframes \in Nat \ {0}
  /\ Window \in Nat \ {0}
  /\ Lag \in Nat
  /\ IsFile \in BOOLEAN
  /\ NoBuffer \notin Buffers

Subframes == 0 .. NumSubframes - 1
Configs   == [cellId : CellIds, mib : Mibs]
Stamps    == [cfg : Configs, sfn : Subframes]

ASSUME NothingAssumption == NoConfig \notin Configs /\ NoBuffer \notin Stamps

(***************************************************************************)
(* How a frequency offset relates to the local oscillator: "zero" was never *)
(* measured (the constructor's and readBufferState's 0.0); "stale" was      *)
(* measured on samples taken before the oscillator last moved; "current"    *)
(* after it.                                                                *)
(***************************************************************************)
Offsets == {"zero", "stale", "current"}

VARIABLES
  retQ, retWaiting, retWoken, retNotifying,          (* pdschReturnQueue *)
  pdschQ, pdschWaiting, pdschWoken, pdschNotifying,  (* pdschQueue       *)
  syncPc,      (* the synchronizer thread's place in its loop             *)
  syncBuf,     (* lbuf in SynchronizerPDSCH::drive                        *)
  subframe,    (* _rx->time.subframe                                      *)
  config,      (* _cellId, and the static mib                             *)
  window,      (* _freqOffsets: how many of its entries are of which kind *)
  lag,         (* history: how many of the Lag subframes are still to come *)
  retuned,     (* history: since the last average, a search or a reset has
                  moved the oscillator                                    *)
  decPc,       (* each decoder's place in its loop                        *)
  decBuf,      (* lbuf in DecoderPDSCH::start                             *)
  decConfig,   (* _cellId, _rbs, _ng, _txAntennas of each decoder         *)
  decMaps,     (* the slot numbers whose reference maps are in _subframes *)
  stamp,       (* LteBuffer: cellId, rbs, ng, txAntennas, sfn             *)
  samples,     (* LteBuffer: buffers, relative to the oscillator          *)
  freqOffset,  (* LteBuffer: freqOffset, relative to the oscillator       *)
  crcValid     (* LteBuffer: crcValid                                     *)

retVars    == <<retQ, retWaiting, retWoken, retNotifying>>
pdschVars  == <<pdschQ, pdschWaiting, pdschWoken, pdschNotifying>>
syncVars   == <<syncPc, syncBuf, subframe, config, window, lag, retuned>>
decVars    == <<decPc, decBuf, decConfig, decMaps>>
bufferVars == <<stamp, samples, freqOffset, crcValid>>
vars == <<retVars, pdschVars, syncVars, decVars, bufferVars>>

Return == INSTANCE BufferQueue WITH
  Readers <- {Sync}, Writers <- Decoders, Items <- Buffers,
  MaxLen <- Cardinality(Buffers), q <- retQ,
  waiting <- retWaiting, woken <- retWoken, notifying <- retNotifying

Pdsch == INSTANCE BufferQueue WITH
  Readers <- Decoders, Writers <- {Sync}, Items <- Buffers,
  MaxLen <- Cardinality(Buffers), q <- pdschQ,
  waiting <- pdschWaiting, woken <- pdschWoken, notifying <- pdschNotifying

SyncPlaces == {"tick", "read", "write", "notify"}
DecPlaces  == {"read", "prepare", "decode", "write", "notify"}

TypeOK ==
  /\ Return!TypeOK /\ Pdsch!TypeOK
  /\ syncPc \in SyncPlaces /\ syncBuf \in Buffers \cup {NoBuffer}
  /\ subframe \in Subframes
  /\ config \in Configs
  /\ window \in [current : Nat, other : Nat]
  /\ lag \in 0..Lag
  /\ retuned \in BOOLEAN
  /\ decPc \in [Decoders -> DecPlaces]
  /\ decBuf \in [Decoders -> Buffers \cup {NoBuffer}]
  /\ decConfig \in [Decoders -> Configs \cup {NoConfig}]
  /\ decMaps \in [Decoders -> Nat \X Nat]
  /\ stamp \in [Buffers -> Stamps]
  /\ samples \in [Buffers -> {"stale", "current"}]
  /\ freqOffset \in [Buffers -> Offsets]
  /\ crcValid \in [Buffers -> BOOLEAN]

-----------------------------------------------------------------------------
(***************************************************************************)
(* LTEDecoder::start primes the return queue with every buffer, starts the  *)
(* decoders, and runs the synchronizer in the main thread.  The stamps of   *)
(* new buffers are not initialised; no thread reads them before the         *)
(* synchronizer has written them, so any value stands for them.             *)
(***************************************************************************)
Init ==
  /\ Return!InitWith(SetToSeq(Buffers))
  /\ Pdsch!InitWith(<<>>)
  /\ syncPc = "tick"
  /\ syncBuf = NoBuffer
  /\ subframe = 0
  /\ config \in Configs
  /\ window = [current |-> 0, other |-> 0]
  /\ lag = 0
  /\ retuned = FALSE
  /\ decPc = [d \in Decoders |-> "read"]
  /\ decBuf = [d \in Decoders |-> NoBuffer]
  /\ decConfig = [d \in Decoders |-> NoConfig]
  /\ decMaps = [d \in Decoders |-> <<0, 0>>]
  /\ stamp = [b \in Buffers |-> [cfg |-> config, sfn |-> 0]]
  /\ samples = [b \in Buffers |-> "stale"]
  /\ freqOffset = [b \in Buffers |-> "zero"]
  /\ crcValid = [b \in Buffers |-> FALSE]

\* The oscillator moves: whatever was sampled or measured before is stale.
Aged(f) == [b \in Buffers |-> IF f[b] = "current" THEN "stale" ELSE f[b]]

\* A subframe later, there is one less to come from before the move.
LessLag == IF lag > 0 THEN lag - 1 ELSE 0

-----------------------------------------------------------------------------
(***************************************************************************)
(* The synchronizer's thread.  A tick of its loop that is not in the PDSCH  *)
(* state touches no buffer: it may relabel the subframe (PSS and SSS        *)
(* found), change the cell, read a new MIB, and move the oscillator (SSS    *)
(* found, or a reset).  The averager is not emptied then.                   *)
(***************************************************************************)
SyncSearch ==
  /\ syncPc = "tick"
  /\ subframe' \in Subframes
  /\ config' \in Configs
  /\ UNCHANGED <<syncPc, syncBuf, window, retVars, pdschVars, decVars,
                 stamp, crcValid>>
  /\ \/ /\ lag' = LessLag
        /\ UNCHANGED <<retuned, samples, freqOffset>>
     \/ /\ lag' = Lag
        /\ samples' = Aged(samples)
        /\ freqOffset' = Aged(freqOffset)
        /\ retuned' = TRUE

\* A tick that reaches the PDSCH case of drive().
SyncDeliver ==
  /\ syncPc = "tick"
  /\ subframe' = (subframe + 1) % NumSubframes
  /\ syncPc' = "read"
  /\ UNCHANGED <<syncBuf, config, window, lag, retuned, retVars, pdschVars,
                 decVars, bufferVars>>

\* What handleFreqOffset makes of the window when an offset is pushed, and
\* whether the averager is then full: it is emptied and the average applied.
Pushed(o) ==
  IF o = "current" THEN [window EXCEPT !.current = @ + 1]
                   ELSE [window EXCEPT !.other = @ + 1]

Full(w) == w.current + w.other >= Window

\* Variant of SyncRead: the CRC flag is left in the buffer.
SyncReadKeepsCrc ==
  /\ syncPc = "read"
  /\ \E b \in Buffers :
       /\ Return!Read(Sync, b)
       /\ syncBuf' = b
       /\ stamp' = [stamp EXCEPT ![b] = [cfg |-> config, sfn |-> subframe]]
       /\ window' = IF Full(Pushed(freqOffset[b]))
                      THEN [current |-> 0, other |-> 0] ELSE Pushed(freqOffset[b])
  /\ syncPc' = "write"
  /\ UNCHANGED <<subframe, config, lag, retuned, pdschVars, decVars, samples,
                 freqOffset, crcValid>>

(***************************************************************************)
(* The feedback in the returned buffer is consumed and the buffer is filled *)
(* for the decoders.  The samples of this tick were pulled before the       *)
(* average moves the oscillator, so the move makes them stale too.          *)
(***************************************************************************)
SyncRead ==
  /\ syncPc = "read"
  /\ \E b \in Buffers :
       /\ Return!Read(Sync, b)
       /\ syncBuf' = b
       /\ crcValid' = [crcValid EXCEPT ![b] = FALSE]
       /\ stamp' = [stamp EXCEPT ![b] = [cfg |-> config, sfn |-> subframe]]
       /\ LET w == Pushed(freqOffset[b])
              s == [samples EXCEPT ![b] = IF lag > 0 THEN "stale" ELSE "current"]
          IN \/ /\ Full(w)
                /\ window' = [current |-> 0, other |-> 0]
                /\ lag' = Lag
                /\ retuned' = FALSE
                /\ samples' = Aged(s)
                /\ freqOffset' = Aged(freqOffset)
             \/ /\ ~Full(w)
                /\ window' = w
                /\ lag' = LessLag
                /\ samples' = s
                /\ UNCHANGED <<retuned, freqOffset>>
  /\ syncPc' = "write"
  /\ UNCHANGED <<subframe, config, pdschVars, decVars>>

\* Playing a file, the synchronizer waits for a buffer.
SyncBlock ==
  /\ syncPc = "read"
  /\ IsFile
  /\ Return!Block(Sync)
  /\ UNCHANGED <<pdschVars, syncVars, decVars, bufferVars>>

\* From a device, it drops the subframe.
SyncDrop ==
  /\ syncPc = "read"
  /\ ~IsFile
  /\ Return!ReadNull(Sync)
  /\ syncPc' = "tick"
  /\ lag' = LessLag
  /\ UNCHANGED <<syncBuf, subframe, config, window, retuned, pdschVars, decVars,
                 bufferVars>>

SyncWrite ==
  /\ syncPc = "write"
  /\ Pdsch!Write(Sync, syncBuf)
  /\ syncPc' = "notify"
  /\ syncBuf' = NoBuffer
  /\ UNCHANGED <<subframe, config, window, lag, retuned, retVars, decVars,
                 bufferVars>>

SyncNotify ==
  /\ syncPc = "notify"
  /\ Pdsch!NotifyOne(Sync)
  /\ syncPc' = "tick"
  /\ UNCHANGED <<syncBuf, subframe, config, window, lag, retuned, retVars, decVars,
                 bufferVars>>

-----------------------------------------------------------------------------
(***************************************************************************)
(* A decoder thread (DecoderPDSCH::start).                                  *)
(***************************************************************************)
DecRead(d) ==
  /\ decPc[d] = "read"
  /\ \E b \in Buffers : /\ Pdsch!Read(d, b)
                        /\ decBuf' = [decBuf EXCEPT ![d] = b]
  /\ decPc' = [decPc EXCEPT ![d] = "prepare"]
  /\ UNCHANGED <<decConfig, decMaps, retVars, syncVars, bufferVars>>

DecBlock(d) ==
  /\ decPc[d] = "read"
  /\ Pdsch!Block(d)
  /\ UNCHANGED <<retVars, syncVars, decVars, bufferVars>>

\* Variant of IdChange: the test looks at the MIB's parameters only.
MibChange(d, b) ==
  IF decConfig[d] = NoConfig THEN TRUE ELSE decConfig[d].mib # stamp[b].cfg.mib

\* readBufferState's test of the decoder's parameters against the buffer's.
IdChange(d, b) == decConfig[d] # stamp[b].cfg

(***************************************************************************)
(* readBufferState.  A change of parameters rebuilds the sequences, the     *)
(* maps and the subframe objects, which initSubframes fills with the maps   *)
(* of slot 0 for both slots; otherwise the subframes are reset with the     *)
(* maps of the buffer's two slots.                                          *)
(***************************************************************************)
DecPrepare(d) ==
  LET b == decBuf[d]
  IN /\ decPc[d] = "prepare"
     /\ \/ /\ IdChange(d, b)
           /\ decConfig' = [decConfig EXCEPT ![d] = stamp[b].cfg]
           /\ decMaps' = [decMaps EXCEPT ![d] = <<0, 0>>]
        \/ /\ ~IdChange(d, b)
           /\ decMaps' = [decMaps EXCEPT
                            ![d] = <<2 * stamp[b].sfn, 2 * stamp[b].sfn + 1>>]
           /\ UNCHANGED decConfig
     /\ freqOffset' = [freqOffset EXCEPT ![b] = "zero"]
     /\ crcValid' = [crcValid EXCEPT ![b] = FALSE]
     /\ decPc' = [decPc EXCEPT ![d] = "decode"]
     /\ UNCHANGED <<decBuf, retVars, pdschVars, syncVars, stamp, samples>>

\* Variants of DecDecode: the offset is not measured; a subframe whose PCFICH
\* fails is abandoned with its buffer.
DecDecodeUnmeasured(d) ==
  LET b == decBuf[d]
  IN /\ decPc[d] = "decode"
     /\ \E valid \in BOOLEAN : crcValid' = [crcValid EXCEPT ![b] = valid]
     /\ decPc' = [decPc EXCEPT ![d] = "write"]
     /\ UNCHANGED <<decBuf, decConfig, decMaps, retVars, pdschVars, syncVars,
                    stamp, samples, freqOffset>>

DecDecodeAbandons(d) ==
  /\ decPc[d] = "decode"
  /\ \/ decPc' = [decPc EXCEPT ![d] = "write"] /\ UNCHANGED decBuf
     \/ /\ decPc' = [decPc EXCEPT ![d] = "read"]
        /\ decBuf' = [decBuf EXCEPT ![d] = NoBuffer]
  /\ UNCHANGED <<decConfig, decMaps, retVars, pdschVars, syncVars, bufferVars>>

\* The control and shared channels are decoded, with or without a valid block,
\* and setFreqOffset measures the offset of the samples.
DecDecode(d) ==
  LET b == decBuf[d]
  IN /\ decPc[d] = "decode"
     /\ \E valid \in BOOLEAN : crcValid' = [crcValid EXCEPT ![b] = valid]
     /\ freqOffset' = [freqOffset EXCEPT ![b] = samples[b]]
     /\ decPc' = [decPc EXCEPT ![d] = "write"]
     /\ UNCHANGED <<decBuf, decConfig, decMaps, retVars, pdschVars, syncVars,
                    stamp, samples>>

\* Variant of DecWrite: the decoder keeps the buffer it has given back.
DecWriteKeeps(d) ==
  /\ decPc[d] = "write"
  /\ Return!Write(d, decBuf[d])
  /\ decPc' = [decPc EXCEPT ![d] = "notify"]
  /\ UNCHANGED <<decBuf, decConfig, decMaps, pdschVars, syncVars, bufferVars>>

DecWrite(d) ==
  /\ decPc[d] = "write"
  /\ Return!Write(d, decBuf[d])
  /\ decPc' = [decPc EXCEPT ![d] = "notify"]
  /\ decBuf' = [decBuf EXCEPT ![d] = NoBuffer]
  /\ UNCHANGED <<decConfig, decMaps, pdschVars, syncVars, bufferVars>>

\* Variant of DecNotify: the buffer is given back without waking the synchronizer.
DecNotifyNobody(d) ==
  /\ decPc[d] = "notify"
  /\ retNotifying' = retNotifying \ {d}
  /\ decPc' = [decPc EXCEPT ![d] = "read"]
  /\ UNCHANGED <<retQ, retWaiting, retWoken, decBuf, decConfig, decMaps,
                 pdschVars, syncVars, bufferVars>>

DecNotify(d) ==
  /\ decPc[d] = "notify"
  /\ Return!NotifyOne(d)
  /\ decPc' = [decPc EXCEPT ![d] = "read"]
  /\ UNCHANGED <<decBuf, decConfig, decMaps, pdschVars, syncVars, bufferVars>>

\* The condition variables may wake a thread for no reason.
SpuriousWakeup ==
  \/ /\ Return!SpuriousWakeup(Sync)
     /\ UNCHANGED <<pdschVars, syncVars, decVars, bufferVars>>
  \/ /\ \E d \in Decoders : Pdsch!SpuriousWakeup(d)
     /\ UNCHANGED <<retVars, syncVars, decVars, bufferVars>>

-----------------------------------------------------------------------------
SyncLoop == SyncRead \/ SyncBlock \/ SyncDrop \/ SyncWrite \/ SyncNotify

DecLoop(d) ==
  \/ DecRead(d) \/ DecBlock(d) \/ DecPrepare(d)
  \/ DecDecode(d) \/ DecWrite(d) \/ DecNotify(d)

Next ==
  \/ SyncSearch \/ SyncDeliver
  \/ SyncRead \/ SyncBlock \/ SyncDrop \/ SyncWrite \/ SyncNotify
  \/ \E d \in Decoders : DecLoop(d)
  \/ SpuriousWakeup

Spec == Init /\ [][Next]_vars

\* Every thread that can run does run in the end.  The synchronizer may
\* search for ever, so SyncSearch and SyncDeliver are not fair.
FairSpec ==
  /\ Spec
  /\ WF_vars(SyncLoop)
  /\ \A d \in Decoders : WF_vars(DecLoop(d))
-----------------------------------------------------------------------------
(***************************************************************************)
(* Who holds what.                                                          *)
(***************************************************************************)
Held == {syncBuf} \cup {decBuf[d] : d \in Decoders}

\* The buffers a decoder or pdschQueue has: the ones the synchronizer waits for.
InFlight == ToSet(pdschQ) \cup {decBuf[d] : d \in Decoders}

(***************************************************************************)
(* A buffer has at most one owner: it is in one queue, once, or in the      *)
(* hands of one thread.  The threads read and write the fields of a buffer  *)
(* without a lock (SynchronizerPDSCH.cpp:106-121, DecoderPDSCH.cpp:103-190); *)
(* this is what makes that safe.                                            *)
(***************************************************************************)
OneOwner ==
  /\ IsInjective(retQ) /\ IsInjective(pdschQ)
  /\ ToSet(retQ) \cap ToSet(pdschQ) = {}
  /\ Held \cap (ToSet(retQ) \cup ToSet(pdschQ)) = {}
  /\ \A d \in Decoders : decBuf[d] # NoBuffer =>
       /\ decBuf[d] # syncBuf
       /\ \A e \in Decoders \ {d} : decBuf[e] # decBuf[d]

(***************************************************************************)
(* No buffer is lost: each of the NUM_RECV_SUBFRAMES primed ones            *)
(* (ltedecode.cpp:291-292) is always in a queue or in the hands of a        *)
(* thread, so the receiver never runs out of them.                          *)
(***************************************************************************)
NoneLost == Buffers \subseteq ToSet(retQ) \cup ToSet(pdschQ) \cup Held

(***************************************************************************)
(* A device's subframe is dropped (SynchronizerPDSCH.cpp:101-104) only when *)
(* the decoders are behind by every single buffer.                          *)
(***************************************************************************)
DropsOnlyWhenAllInFlight == [][SyncDrop => Buffers \subseteq InFlight]_vars

(***************************************************************************)
(* A decoder decodes a buffer with the parameters it was stamped with,      *)
(* though the cell may change while buffers are in flight, each decoder     *)
(* keeps parameters of its own, and stamps are written by another thread.   *)
(* Its reference maps are those of the buffer's two slots, or, after a      *)
(* change of parameters, those of slot 0 (DecoderPDSCH.cpp:92-120).         *)
(***************************************************************************)
DecodesAsStamped ==
  \A d \in Decoders : decPc[d] = "decode" =>
    LET s == stamp[decBuf[d]]
    IN /\ decConfig[d] = s.cfg
       /\ decMaps[d] \in {<<0, 0>>, <<2 * s.sfn, 2 * s.sfn + 1>>}

(***************************************************************************)
(* One valid CRC clears the synchronizer's miss counter once: the flag      *)
(* never travels with the buffer into its next subframe, neither to a       *)
(* decoder nor back (SynchronizerPDSCH.cpp:108-112, DecoderPDSCH.cpp:135).  *)
(***************************************************************************)
CrcCountedOnce ==
  \A b \in Buffers : crcValid[b] =>
    \/ b \in ToSet(retQ)
    \/ \E d \in Decoders : decBuf[d] = b /\ decPc[d] = "write"

(***************************************************************************)
(* Between two averages, unless a search or a reset moved the oscillator in *)
(* between, the averager takes in at most one measurement per buffer, and   *)
(* one per subframe of lag, that was not made at the present frequency:     *)
(* with a window of 200 and 128 buffers (SynchronizerPDSCH.cpp:168,         *)
(* ltedecode.cpp:291) the correction cannot act on old measurements alone.  *)
(***************************************************************************)
StaleBounded == ~retuned => window.other <= Cardinality(Buffers) + Lag

(***************************************************************************)
(* Neither thread of the pair sleeps on a queue that has something for it.  *)
(***************************************************************************)
NobodySleepsOnWork == Return!NoLostWakeup /\ Pdsch!NoLostWakeup

(***************************************************************************)
(* The feedback path is closed: whatever is handed to the decoders comes    *)
(* back to the synchronizer's queue, for every buffer, with several         *)
(* decoders racing for it (ltedecode.cpp:297-303).                          *)
(***************************************************************************)
EveryBufferReturns ==
  \A b \in Buffers : (b \in InFlight) ~> (b \in ToSet(retQ))

(***************************************************************************)
(* The synchronizer always gets back to its radio: the blocking read of the *)
(* file case (SynchronizerPDSCH.cpp:99) cannot block for ever.              *)
(***************************************************************************)
SyncReturnsToRadio == (syncPc # "tick") ~> (syncPc = "tick")

(***************************************************************************)
(* The pipeline implements the dispatcher of SubframeDispatch: a credit is  *)
(* a buffer in the return queue; a subframe is accepted when the            *)
(* synchronizer has stamped a buffer with it, begun when a decoder takes    *)
(* the buffer, and finished when the buffer is back.                        *)
(***************************************************************************)
Dispatch == INSTANCE SubframeDispatch WITH
  Jobs <- Stamps, Workers <- Decoders, Credits <- Cardinality(Buffers),
  Idle <- NoBuffer,
  pending <- [i \in 1 .. Len(pdschQ) |-> stamp[pdschQ[i]]]
               \o (IF syncBuf = NoBuffer THEN <<>> ELSE <<stamp[syncBuf]>>),
  working <- [d \in Decoders |-> IF decBuf[d] = NoBuffer THEN NoBuffer
                                 ELSE stamp[decBuf[d]]],
  credits <- Len(retQ)

ImplementsDispatch == Dispatch!Spec

(***************************************************************************)
(* And so it does with its promise of progress: what is accepted is begun,  *)
(* and what is begun is finished.                                           *)
(***************************************************************************)
DispatchProgresses == Dispatch!FairSpec
=============================================================================
