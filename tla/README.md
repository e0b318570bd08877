# A verification project for openphy

openphy is an LTE downlink receiver. One program, `ltedecode`, takes samples from
a radio or from a recording, finds a cell, reads its broadcast information, and
then decodes the shared channel of every subframe and sends the blocks it finds
over UDP. This directory holds TLA+ models of it: the threads and what they
share, the state machine that acquires and keeps a cell, the buffering of samples
between the radio and the decoders, a decoder thread with the subframe objects
and the block handler it keeps, and the decoding library under it: which elements
are read, what a grant says, how words of the control, the broadcast and the
shared channel are decoded. TLC checks them on small instances, and TLAPS proves
the main results about the threads, and what a grant means, for every value of
the constants.

Contents: [the system](#the-system) ·
[modules and code](#modules-and-code) ·
[the runs](#the-runs) ·
[fairness](#fairness) ·
[the proofs](#the-proofs) ·
[disagreements found](#disagreements-found) ·
[not modelled](#not-modelled) ·
[what is left](#what-is-left) ·
[how to run it](#how-to-run-it)

Paths below are relative to `src/src/` of the repository.

## The system

```
 radio / recording
   |  packets
   v
 Device --> TimestampBuffer        main thread: SynchronizerPDSCH::start
   |  IOInterface::getBuffer         per subframe: getBuffer, drive, reset
   v
 Converter --> Synchronizer (PSS, SSS, PBCH/MIB) --> SynchronizerPDSCH
                                                        |          ^
                                          pdschQueue    v          |  pdschReturnQueue
                                                    DecoderPDSCH threads --> DecoderASN1 (UDP)
```

Two kinds of threads exist: the synchronizer, and the decoders. They share the
two `BufferQueue`s and the 128 `LteBuffer`s that circulate in them. Everything
below the synchronizer (device, ring, converter) runs in its thread, which is the
program's main thread. Its public `stop()` and `reset()` set flags (`std::atomic<bool>`) that the loop tests, so
that another thread can call them; `ltedecode` itself does not.

### Components

| component | state | operations | what is hard | what makes it correct |
|---|---|---|---|---|
| BufferQueue | a `std::queue`, a mutex, a condition variable | `read` (blocks), `readNoBlock`, `write` | one reader is notified, after the unlock | no wake-up is lost; items are taken |
| Subframe pipeline (`ltedecode.cpp`, `SynchronizerPDSCH::drive`, `DecoderPDSCH::start`, `LteBuffer`) | the two queues, the fields of a buffer, each decoder's parameters and reference maps | hand over, drop, decode, give back | fields are shared without a lock; a device cannot wait, a file must; the cell changes while buffers are in flight | one owner per buffer; none lost; each decoded as it was stamped, in order, once |
| Synchronizer, SynchronizerPDSCH | state, one miss counter, subframe label, cell identity in three places, bandwidth in three places, `_reset`, `_stop` | the five states' drives, `reopen`, `reset`, `stop` | one counter for four limits; a label that is corrected late; requests from other threads; a failed reopen | counter, label, cell and bandwidth are right in every state; a lost cell is noticed |
| SynchronizerPBCH | the same states up to the MIB | a `drive` that stops at the MIB | the same | the same |
| FreqAverager | a window of 200 offsets | push, average, reset | offsets are measured up to 128 subframes before they are used | how many old offsets an average may hold |
| IOInterface | base time, last frame number, device, bandwidth | `open`, `reopen`, `getBuffer`, oscillator | the counter wraps; corrections move the base time | subframes follow on from each other |
| TimestampBuffer | a ring, its times and indices | `read`, `write` with timestamps | `0` as "nothing yet"; wrapping; writes ahead of the reader | what is read is what was written for that time |
| UHDDevice, FileDevice | last timestamp, stream | `reload`, `pull` | timeouts, short packets, gaps, rounded timestamps | a packet is written at its time; the loop ends with the subframe there |
| Converter, Resampler | raw, converted and last subframe, a flag | conversions, `delayPDSCH`, `reset` (swap) | conversion happens only when first needed; buffers are swapped every tick | a delivered subframe is this tick's and continues the last one |
| DecoderASN1 | a socket | `open`, `send` | - | output only |
| DecoderPDSCH and its subframe objects | references, table of DCIs, block handler, "known" cell | take, set up, decode, give back | all of it is kept from one subframe to the next | what is used belongs to the subframe, the RNTI and the grant in hand |
| PSS/SSS (`lte/sync*.c`, `pss.c`, `sss.c`) | accumulated candidates, the table of sequences | detection | sequences are near one another; floating point | a cell is named although bits are wrong |
| PBCH and MIB (`lte/pbch*.c`) | a static MIB in the caller | decode, descramble, unpack | the number of antennas is guessed; a refused block counts as success | MIB fields are those sent |
| PCFICH, PHICH, PDCCH mapping (`lte/pcfich.c`, `phich.c`, `pdcch_interleave.c`, `slot.c`) | the reserved subcarriers of a subframe | resource mapping | index arithmetic over bandwidths and cells; the map is made again for every RNTI | channels are disjoint, complete, in order |
| PDCCH search, DCI (`lte/pdcch*.c`, `dci*.c`) | found DCIs | blind search, unpacking | overlapping candidates, ambiguous sizes | each element once, each field under its name |
| PDSCH (`lte/pdsch*.c`) | the block handler | RIV, VRB, TBS, segmentation | partial functions of transmitted values; an early return when four numbers agree | every granted block once; segments fill the block |
| Turbo and convolutional codes (`turbo/`) | sums kept between blocks | rate matching, encoding, decoding | permutations with dummies; tail-biting; saturation | words are read back with bits missing |
| OFDM, references, precoding, QAM, CRC, scrambling (`lte/`) | subframe objects | transforms | positions; seeds; checksums by table | the standard's sequences, positions and remainders |
| DSP kernels (`dsp/`) | - | SIMD kernels | numerical | - |
| Logging (`lte/log.c`) | - | - | - | - |

`PROJECT.json` lists the same components with their status, and under `hazards`
each place in the code that is hard to test, with the property that covers it or
the reason why none does.

## Modules and code

| module | code | |
|---|---|---|
| `BufferQueue` | `BufferQueue.cpp` | queue and condition variable |
| `SubframeDispatch` | - | abstract: what the pipeline promises |
| `SubframePipeline` | `SynchronizerPDSCH.cpp:66-121`, `DecoderPDSCH.cpp:88-205`, `ltedecode.cpp:285-312`, `FreqAverager.cpp` | instantiates `BufferQueue` twice |
| `Synchronizer` | `Synchronizer.cpp:316-506`, `SynchronizerPDSCH.cpp:48-155`, `IOInterface.cpp:110-150` | one tick in three steps |
| `TimestampBuffer` | `TimestampBuffer.cpp` | operators on the ring |
| `RadioInput` | `UHDDevice.cpp:195-270`, `IOInterface.cpp:230-262` | extends `TimestampBuffer` |
| `Converter` | `Converter.cpp`, as `SynchronizerPDSCH` and `Synchronizer` call it | which tick's samples are where |
| `SubframeDecoder` | `DecoderPDSCH.cpp`, the search of `lte/pdcch.c`, the use of `lte/pdsch.c` and `pdsch_block.c` | a decoder thread; extends `ControlRegion`, `TransportBlock` |
| `ResourceGrid` | `lte/slot.c`, `ref.c`, `ofdm.c` | blocks, symbols, references in the transform |
| `ControlRegion` | `lte/pcfich.c`, `phich.c`, `pdcch.c`, `pdcch_interleave.c` | the first symbols of a subframe |
| `DataRegion` | `lte/pdsch.c`, `pbch.c`, `precode.c`, `expand.c` | elements of the shared and the broadcast channel, antenna diversity |
| `DciFormats` | `lte/dci.c`, `dci_formats.c` | sizes and fields of every format |
| `ResourceAllocation` | `lte/pdsch_riv.c`, `pdsch_vrb.c` | the blocks a grant stands for |
| `BlockSizes` | `lte/pdsch_tbs.c` | the tables of block sizes |
| `TransportBlock` | `lte/pdsch_tbs.c`, `pdsch.c`, `pdsch_block.c` | size, version, segmentation, the handler |
| `ControlBlock` | `lte/pdcch_block.c`, `pbch_block.c`, `pbch.c`, `gold.c`, `scramble.c` | blocks of the tail-biting code, scrambling, the MIB |
| `ConvolutionalCode` | `turbo/conv_enc.c`, `conv_dec.c`, `conv_gen.h` | encoder and decoder, turn by turn |
| `TurboCode`, `TurboDecoder` | `turbo/turbo_enc.c`, `turbo_dec.c`, `turbo_sse.h` | encoder, interleaver and decoder, turn by turn |
| `RateMatching` | `turbo/turbo_rate_match.c`, `conv_rate_match.c` | both rate matchers |
| `Checksum` | `lte/crc.c`, the checks of `pdcch_block.c`, `pdsch_block.c` | the three checksums by their tables |
| `Modulation` | `lte/qam.c` | symbols, soft and hard bits |
| `SyncSignals` | `lte/sss.c`, `sync_pss.c`, `lte.c` | recognising a cell |
| `DownlinkOperations` | calls into all of these | composes the library |
| `MC...` | - | instances for TLC |
| `GrantProofs` | - | lemmas about `ResourceAllocation`, `TransportBlock`, the sequences of `ControlBlock` the groups of `ControlRegion` and the registers of `SyncSignals` |
| `...Proofs` | - | theorems, a module for each specification |

Names follow the code: `pssMisses` is `_pssMisses`, `resetReq` is `_reset`,
`retQ` is what `pdschReturnQueue` holds. The exact lines of each definition are
under `map` in `PROJECT.json`. Definitions commented as a *variant* are plausible
mistakes in the definition that follows them; nothing uses them but the check
that each property can fail.

**BufferQueue.** A `write` is two steps, because `notify_one()` comes after the
unlock: `Write` (under the mutex) and `NotifyOne`. A `read` that finds the queue
empty blocks (`waiting`), is woken (`woken`) by a notification or spuriously, and
tests the predicate again. Everything under the mutex is one step. `size()` reads
without changing anything and has no caller.

**SubframePipeline.** The synchronizer's part is one action per place where
another thread can come in between: `SyncSearch` (ticks outside `PDSCH_SYNC`,
which may change cell, MIB and oscillator), `SyncDeliver` (a tick that will
deliver), `SyncRead`/`SyncBlock`/`SyncDrop` (taking a buffer from the return queue:
blocking for a file, not for a device), `SyncWrite`, `SyncNotify`. A decoder is
`DecRead`/`DecBlock`, `DecPrepare`, `DecDecode`, `DecWrite`, `DecNotify`. A
buffer's fields are its `stamp` (cell, MIB, subframe number), when its `samples`
were taken, its `freqOffset` and its `crcValid`. Frequency offsets are classes,
not numbers: never measured, measured on samples from before the oscillator last
moved ("stale"), or since then. `lag` says for how many subframes more the radio
delivers samples taken before the move; the code states no number, so it is a
constant. Decoders are threads that run for ever: `LTEDecoder::start` joins them
after the synchronizer's loop, but nothing ends them.

**Synchronizer.** One tick is `BaseDrive` (`Synchronizer::drive`: the PSS and SSS
stages), `PdschDrive` (the switch of `SynchronizerPDSCH::drive`: MIB and delivery)
and `LoopEnd` (the tests of `_reset` and `_stop`), so that `reset()` and `stop()`
from another thread may fall between any two. What a detector finds is a choice:
any peak may be found anywhere while the cell is on the air, true or false. What
is assumed of detectors is written where the choice is made: SSS matches only at
a PSS of the cell and tells which of the two it is, and no CRC is valid once the
cell is gone. `skew` and `frameKnown` are history: the error of the label, and
whether the frame number comes from a MIB that was decoded.
`mibRbs` may stay as it was if `SpuriousMib` says that a block may pass its CRC
and be refused by `pbch_unpack`. After a failed reopen of a device, or a division
by a bandwidth of zero, the model is "crashed": what the program does then is
undefined.

**RadioInput.** Time is counted in samples. `GetBuffer` reckons the wanted time;
`Receive` is one turn of `UHDDevice::reload`'s loop, in which a packet may be lost
before it (`drop`), short, late (`Timeout`), or its timestamp rounded down by one;
`Pull` reads the ring and moves the loop's counter; `Reopen` is what a MIB of
another bandwidth does. Ring and times are real: a cell holds the time of the
sample in it. `FileDevice::reload` is the same without losses, so it adds nothing.

**Converter.** A vector holds the times of its samples; a conversion preserves
them. One tick is `GetBuffer`, one of `Search`/`Wait`/`Acquire`/`Reopen`/`Check`/
`NoCheck`, perhaps `Deliver` or `Drop`, and `EndTick`, which swaps the buffers.
The resampler's filter delays by half its taps, which is why a delivered subframe
begins with the end of the one before.

**SubframeDecoder.** One decoder with everything it keeps. `ReadBuffer` takes a
buffer and sets the members up for its stamp; `DecodePcfich` finds an indicator or
none; for each RNTI `StartPdcch`, `StartGroup`, `TryCandidate`, `EndGroup` and
`EndSearch` are the search of `lte_decode_pdcch`, candidate by candidate;
`DecodePdsch` is one turn of `while (--ndci >= 0)`; `NextRnti` and `WriteBuffer` go
on. The reference maps are named by cell and slot, a DCI by the RNTI it was found
for, a payload by its format and the block it grants. Whether a checksum holds
and which elements have power is a choice. `search.cces` is history: the elements
each DCI was found in. Where the library calls `exit`, the model is "exited".

**DownlinkOperations.** The library's functions are operators; a call is a state
with the operation, its input and its output, and the two decoders run turn by
turn in between (`AdvanceWord`, `AdvanceShared`). Each call begins with what a
transmitter does according to 36.211 and 36.212, and the properties compare the
output with what was sent, written independently of the code's way to compute it.
`left` is the one thing that lasts between calls: the turbo decoder's backward
sums, which it does not reset ("We have enough headroom to not clear all sums").
Samples are small integers, so that antenna diversity is exact; soft bits are
those of an undisturbed symbol, except for the places that a call erases.

Some things a reader of the code may wonder about, which the models settle:

- `data_start == 0` stands for "nothing written yet" in `TimestampBuffer`, although
  a read that ends at the ring's end leaves it 0 too. It is harmless: `data_start`
  is always `time_start` modulo the ring's length, so the write that takes it for an
  empty ring computes what was there (the proof's `RingTypes`).
- The overflow that `write` reports is only logged. What is checked is that
  nothing that is still wanted is overwritten (`PulledInTime`).
- `UHDDevice::pull` ignores the ring's result. A refused read leaves the samples
  of an older subframe in the buffers; it happens only for subframes with losses.
- A packet that follows a short one of `_spp - 1` samples looks like a slip and is
  moved by a sample. The error does not accumulate (`WithinOneSample`).
- A timing correction takes effect on the body of a subframe one tick late, and
  the head of the first subframe after a drop comes from an older tick
  (`Converter.cpp:206`). No line of the repository says otherwise, so the properties
  describe the first and except the second. The resamplers' `history` plays no
  part: `rotate` fills it from its input and never reads it.
- `IOInterface::reopen` does not reset `_prevFrameNum`: only `reset()` does, which
  has no caller. After a reopen the first subframe may therefore be asked for later than
  it could be, but never in the new device's past (`AsksAhead`, in the proofs).
- After a change of cell both slots of the first subframe get the reference maps of
  slot 0 (`DecoderPDSCH.cpp:95`). `ReferencesMatch` describes it and shows that the
  next subframe has its own.
- The count and the table of DCIs stay in the subframe where nothing is found for an
  RNTI. It is harmless: nothing is decoded then (`OnlyFreshDcis`).
- Masks of the search are made anew for each group of eight elements. As no candidate
  lies in two groups no element is found twice (`NoCceTwice`).
- The soft decoder for one segment keeps the sums of the last; they stay below half
  of the one that is set (`SharedWordsAreReadBack`).

## The runs

Sizes are of a full exploration (or until the violation), with two workers.

| run | question | properties | instance | distinct states |
|---|---|---|---|---|
| `buffer_queue` | Is notifying one reader after the unlock enough? | `TypeOK`, `NoLostWakeup`, `ItemsAreTaken` | 3 readers, 2 writers, 3 items | 1,022 |
| `pipeline_device` | Ownership, stamps, wake-ups, drops with a radio | `OneOwner`, `NoneLost`, `NobodySleepsOnWork`, `DecodesAsStamped`, `CrcCountedOnce`, `DropsOnlyWhenAllInFlight`, `ImplementsDispatch` | 2 buffers, 2 decoders, 2 cells, window 1, lag 1 | 873,924 |
| `pipeline_file` | Does everything come back when nobody may drop, and how stale can a frequency correction be? | `StaleBounded`, `DispatchProgresses`, `EveryBufferReturns`, `SyncReturnsToRadio` | 2 buffers, 2 decoders, 1 cell, window 4 | 181,768 |
| `synchronizer` | Counter, label, cell, bandwidth, requests | `TypeOK`, `MissesFitState`, `PbchIsTransient`, `LabelsAreTrue`, `OneCell`, `DeviceMatchesMib`, `ResetNotLost` | the code's limits 4, 20, 10, 100; 2 cells, 2 bandwidths | 336,488 |
| `synchronizer_live` | With a recording and malformed MIBs: is loss noticed, does stop end the loop? | `LossIsNoticed`, `StopEndsLoop` | limits 2, 4, 2, 3; 2 cells, 2 bandwidths | 124,648 |
| `radio_input` | Is every subframe whole and where the last one ended? | `PulledInTime`, `WithinOneSample`, `Contiguous` | ring of 8, packets of 3, subframes of 4, up to time 27 | 1,258,873 |
| `converter` | Are delivered samples of the right ticks? | `BodyKeepsTiming`, `HeadIsLastTick` | subframes of 6, 4 taps, corrections -3, -1, 0, 5, up to time 42 | 627,457 |
| `subframe_decoder` | Does what a decoder keeps ever get into another subframe? | `NoCceTwice`, `OnlyFreshDcis`, `BlockMatchesGrant`, `ExitsBeforeSearch`, `ReferencesMatch`, `SubframeComesBack` | 3 cells with one number, 2 RNTIs, a table of 2, 11 elements | 443,106 |
| `downlink` | Does the library read what a base station sends? | `ElementsAreExact`, `GrantsAreRead`, `SignalsAreReadBack`, `SharedWordsAreReadBack`, `CellIsNamed` | all six bandwidths, all formats; bounded cells, grants and words | 32,303 |
| `file_mismatch` | (violation) a recording of another bandwidth | `DeviceMatchesMib` | 2 bandwidths | 81,278 |
| `malformed_mib` | (violation) a refused MIB | `BandwidthIsValid` | 2 bandwidths | 15,445 |
| `three_megahertz` | (violation) the blocks beside the centre of 3 MHz | `SharedChannelIsWhole` | one block of 15 in each place | 6 |

Why the bounds are enough to see the interesting cases:

- *Queue*: with three readers a woken reader can lose its item to one that never
  slept while a third sleeps; two writers can be between unlock and notify at once.
- *Pipeline*: with two buffers the return queue runs empty while one buffer is with
  each decoder, so drops, races for the queue and changes of cell with a buffer of
  the old one in flight all happen. Buffers and decoders are symmetric where no
  liveness property is checked.
- *Frequency*: in `pipeline_file` the window (4) is longer than the buffers (2), as 200 is
  longer than 128; otherwise the bound could not be seen. A lag of the radio is in
  `pipeline_device`; the bound is proved for every window and lag.
- *Synchronizer*: with the code's limits the counter really runs to 100. The scaled
  limits keep their order, on which the properties depend
  (`SynchronizerAssumption`).
- *RadioInput*: the ring is a little longer than a packet and a subframe (8 against
  7, the least `InputAssumption` allows), so that it wraps in every subframe; a loss
  (9) laps it; lengths 3, 4 and 8 make all alignments occur; the device's time starts
  before and at the ring's end. `MaxTime` bounds every time, and a correction of
  3 is most of a subframe.
- *Converter*: corrections inside and beyond both limits; seven ticks suffice for a
  search, a MIB, deliveries, drops and a reopen.
- *SubframeDecoder*: one cell has a band too narrow for the widest indicator, one
  has eleven elements, hence a whole group and a part of one, one has four antennas;
  all have the same number, as a decoder must compare more than that. The table of two is filled
  by one RNTI, and the second finds fewer; grants have the same size in different
  numbers of bits, and two segments of different lengths; one asks for more bits than `MAX_G` and is refused. One subframe number is enough: its
  references are neither those of subframe 0 nor those of the other slot.
- *DownlinkOperations*: the elements differ between cells only by the cell's number
  modulo 6, the place of the indicator and the interleaver's shift, all of which occur;
  allocations lie around the centre and at both ends of the band, in subframes with
  and without the broadcast channel and the synchronisation signals; resource indication
  values on both sides of the wrap, distributed grants of every band and gap; modulation schemes on both
  sides of each step; every field of every DCI format; a MIB sent in the first quarter and one sent in the second, with and without the
  continuation of its sequence in memory; interleaver sizes in each of the four ranges. Words are short, for
  every position of a code is treated alike, and the decoders' arithmetic saturates no
  later for long ones.

`CHECK_DEADLOCK FALSE` is set where the model stops: a synchronizer that was
stopped or crashed, and the sample models at `MaxTime`. In the queue and
the pipeline runs deadlock is checked.

## Fairness

- *BufferQueue*: weak fairness of a reader that is not blocked, and of a writer's
  `notify_one()`. This is thread scheduling. No fairness for writes, nor for spurious wake-ups.
- *Pipeline*: weak fairness of the synchronizer's steps once it has begun to deliver
  a subframe, and of each decoder's loop: decoding a subframe ends, and both are threads that
  nothing else blocks. Ticks themselves are not fair: the radio may stop delivering.
- *Synchronizer*: weak fairness of `Start` and of the loop's steps: samples arrive, which
  is what a running device does (a device that is silent makes `reload` wait for ever,
  and nothing is promised then). No fairness of detections: a receiver may search for ever.
- *SubframeDispatch*: what is pending is begun by some decoder, and what is begun is
  finished; this is proved of nobody but checked of the pipeline (`DispatchProgresses`).
- *SubframeDecoder*: weak fairness of the thread's steps (`Walk`) and of lowering
  `ndci`: it runs, and nothing in its loops waits. That a buffer comes is not assumed.
- *DownlinkOperations*: none. The calls end by their own structure, and nothing is claimed of it.

## The proofs

All are for any value of the constants that the named assumptions of the modules
allow; TLC evaluates those assumptions in the runs. No other assumption is made
but the two that stand in the theorems themselves.

**BufferQueueProofs** (`QueueInvariant`, `QueueLosesNoWakeup`, `QueueTypes`). `NoLostWakeup`
compares the length of the queue with the number of readers woken and writers about
to notify. It is inductive with the types and with `WokenIsAwake` (no reader is both asleep and woken), without which a
notified reader would not be one more. The proof is bookkeeping with cardinalities
(`JoinLeave`), one lemma per action.

**SubframePipelineProofs**. `PipelineOwnership`: `OwnInv` says that program counters
and hands agree (`HandsOK`), and that each buffer has exactly one place. Queues are
handled by two lemmas on sequences without repetitions (`TakeHead`, `AddLast`).
`AlwaysOneOwner`, `NoBufferLost` and `DropsOnlyWhenStarved` follow. `FeedbackIsOfItsSubframe`
(`DecodesAsStamped`) and `CrcAlwaysCountedOnce` add `DataTypes`; they need ownership, for it
is what keeps a stamp from changing under a decoder. `StaleAlwaysBounded` uses a budget
(`StaleBudget`): old offsets in the window, plus buffers that still carry one, plus
the lag left, never exceed the number of buffers and the initial lag.

*The abstraction* (`PipelineImplementsDispatch`, the last part of `SubframePipelineProofs`). The mapping is
`Dispatch` in `SubframePipeline`: what is pending are the stamps of `pdschQueue`'s
buffers and of the one in the synchronizer's hands; a credit is a buffer in the
return queue. `SyncRead` implements `Accept`, `DecRead` `Begin`, `DecWrite` `Finish`;
every other step stutters. So a subframe is begun once, in order, as it was stamped.

*The queues* (`QueuesInvariant`, `NobodyEverSleepsOnWork`,
`PipelineTypes`). The pipeline's two queues are instances of `BufferQueue`, and the
theorems of `BufferQueueProofs` are used for both of them: every step of the pipeline is a step of
each queue or leaves it alone. What has to be added is that the pipeline's program counters
are the queues' sets of sleepers, woken and notifiers.

**SynchronizerProofs**. `SyncInv` adds to `MissesFitState`, `PbchIsTransient` and
`OneCell` what makes them inductive: PBCH is entered in subframe 0 only, and the
reference maps are the cell's whenever a cell is set, even while searching.
`MissesAlwaysFit`, `PbchAlwaysTransient`, `AlwaysOneCell`, `SynchronizerTypes` and
`ResetNeverLost` hold unconditionally; `LabelsAlwaysTrue` is proved under
`~SpuriousMib`, and `DeviceAlwaysMatches` under `~IsFile`: the runs `malformed_mib`
and `file_mismatch` show what goes wrong in those cases.

**RadioInputProofs** (with `RadioInputTypes` and `RingAlwaysHolds`). `AlwaysContiguous`: between subframes the wanted time is the base
time plus the last counter's subframes, and the counter has moved by one
(`TimeInv`). `AlwaysWithinOneSample`: `ClockInv` bounds the last timestamp from both
sides by the time on the air. `AlwaysPulledInTime` is the main one. Lemmas on
remainders (`OneQuotient`, `Period`, `Reckoned`, `Near`, `Far`) show that every index
the ring reckons is the time modulo the ring's length. `RingInv` then says: every
sample received from the wanted time on is in its place unless a later one, still
within the wanted subframe, was lost (`HoldsReceived`); the read marker is past the wanted subframe only over
lost samples (`MarkerBehind`); a reload ends with whole packets; and a new device is
asked for its future only. A write of a packet overwrites only what is a ring's
length older, and a ring holds a packet and a subframe (`InputAssumption`).

**ConverterProofs** (`ConverterTypes`, `BuffersInStep`, `BodyAlwaysKeepsTiming`, `HeadAlwaysLastTick`).
`ConvInv` says which subframe each buffer holds: the raw one is this tick's, the
converted one equals it if the flag says so, and the other is the last tick's in `PDSCH_SYNC`
unless that tick was skipped.

**SubframeDecoderProofs** (`DecoderInvariant`, `CceTakenOnce`, `DcisAreFresh`,
`ReferencesOfStamp`, `BlockAlwaysMatches`, `ExitsOnlyBeforeSearch`), for any cells, RNTIs, powers and
payloads. `Elements` says that what a search has taken lies behind it (`Apart`) and that no candidate
that may still be tried would take any of it (`Ahead`): that is the work of the masks, and
`LaterIsApart` shows it by the levels of two candidates. A group lies within the control
channel (`Within`). `Dcis` says that what is still to be decoded has been copied into the
subframe, which an RNTI without any DCI does not do. `Blocks` says that the handler is fresh or
holds the segments of its own four numbers (`Segmented`), which `InitSegments` shows of every
initialisation that does not return at once. `ExitsOnlyBeforeSearch` is about the
exits below the search: of `pdsch.c` for a format without a version, and of `pdsch_block.c` for
segments whose bits do not add up to the allocation's. No searched format lacks a version, and
`BitsAreShared` (below) shows that the bits add up whatever the handler held before. Grants are what `GrantsAssumption` says: of a size of whole
bytes, in whole symbols, and a size that is not cut takes no filler. They may ask for more than `MAX_G` bits and be refused, which
leaves the new segments with the old lengths; `Blocks` therefore speaks of the segments always and of the
lengths unless the last initialisation was refused (`refused`, a history variable), and so does `BlockMatchesGrant`. The exit for
lengths is not reached even then: an initialisation either returns at once, or is refused before the lengths, or shares all bits out.

**GrantProofs** holds the lemmas about what a grant means, for grants and blocks of any size, about scrambling
sequences (`GoldIsStandard`), about the groups of elements of the control region and about the registers of cells; nothing in
it is about an instance.

- *Induction.* Sums, sorting and lists of blocks are recursive functions. What they compute is
  shown by induction over a set of numbers: `Climb` says that a set with 0 in it and the successor
  of each of its numbers holds all of them, and `Iteration` gives the two equations of a function
  that is defined by recursion. Both follow from the library's theorems on well-founded relations
  that take a set.
- *Segments* (`SegmentationCuts`, `SegmentsHaveRoom`, `BitsAreShared`, `SegmentsAreTiled`). Every size a block may have
  is cut into at most `MaxC` segments of sizes the interleaver has, which differ by one step of its table; the two lengths
  in bits share out the allocation exactly; and in bytes each segment begins where the last one ended.
- *Ranges* (`SearchFinds`, `InterleaverPermutes`, `DistPrbIs`, `TurnedPermutes`, `PlacesApart`,
  `DistributedOwns`, `LocalOwns`). The value of a range has that range as its only reading, so the
  search's last match is the right one. The interleaver with its four columns and
  empty places permutes a unit of virtual blocks; the second slot turns it by half; and the gap keeps both halves
  apart. The case analysis over the six bands is in one lemma (`BandsAreArranged`), which
  gives what the others need of a width: it is even, and its empty places are fewer than a row.
- *Bitmaps* (`GroupsAreRead`, `SubsetsAreRead`). A bit stands for a group; or for a block of one
  subset, and then the list of a subset's blocks, the shift and the bits left over agree.
- *Sorting* (`SortedLists`, `AscendingLists`): `qsort` gives a sequence that goes up and has the
  members it had. `Ascending` lists a set of numbers row by row, which keeps the recursion that TLC follows
  short for the longest interleaver; that the rows make one list that goes up is `FlattenedUp`.
- *Scrambling sequences* (`GoldIsStandard`). Whatever the seed and the length, `lte_gen_gold_seq` gives the sum of the two
  sequences that 36.211, 7.2, defines by recurrences of length 31, from bit 1600 on. A shift puts back the parity of
  the bits at the taps (`ShiftIs`, `TapsAre`); so place `i` of a register is its lowest bit `i` shifts later (`WalkPasses`),
  and the lowest bits obey the recurrence (`LinesAre`). The registers run in pieces of 40, and pieces join to one way (`MovedIs`,
  `PiecesAre`, `StretchJoins`).
- *Lists* (`Concatenation`, `JoinedTurns`). What the code reads by loops with a position that runs along is first turned into
  lists: lists which go up, joined in order, go up, and have the members and at most the room of their turns.
- *Control region*. The PCFICH takes four halves of blocks (`PcfichIsMarked`), the PHICH three for each group, at
  thirds of what is left, which stay apart when the cell shifts them (`OffsetsApart`, `HalvesApart`), so that
  marking again changes nothing; every half that is left and every four subcarriers of a
  later symbol are one quadruplet, in the order of subcarriers, then symbols (`QuadsAreListed`). Reading the matrix by
  permuted columns permutes its places (`ReadingPermutes`), so undoing it and the shift by the cell gives
  back 0, 1, 2, ... (`OrderComesBack`).
- *Registers of cells* (`GroupIsNumbered`, `CellIsNearest`). `gen_m` guesses the difference of a group's pair twice; the second
  guess is right for all 168 groups (`GroupIs`), the number of pairs before it is the group's own, and no two groups have one
  pair or one the other turned round (`PairsApart`). `gen_tilda` gives a sequence of length 31 that obeys its recurrence all
  round (`SBitsRecur`), so the sum of two of its shifts obeys it too and, agreeing in five places with a third shift, is
  that shift (`ShiftsAdd`); a shift has sixteen ones (`OnesAreMany`), so two shifts differ in sixteen places. Two
  cells of an identity, or the halves of one cell's frame, have different shifts in the even places or, where those agree, in the
  odd ones, and the other factors there agree: their registers differ in sixteen bits (`RegistersApart`). With seven bits wrong, the
  triangle inequality (`DistancesAdd`) leaves every other register at nine or more.

**DownlinkProofs** (`EveryGrantIsRead`, `EveryElementIsRead`, `EveryCellIsNamed`). The inductive invariant `OutputsAreOfInputs` says that the output of a
call is what the code computes of an input that can be sent; on it rests one lemma for each part of `GrantsAreRead`:
`RangesAreRead`, `BitmapsAreRead`, `GrantsAreMeant`, `SizesAreCut`. The assumptions are what
36.212 and 36.213 let a base station send: a range within the band or within its virtual blocks whose value
fits its field (`RivAssumption`), a bitmap that fills its field with a header the band has and the number of a
subset there is (`BitmapAssumption`), a scheme with a size (`GrantAssumption`), and, of the rows of the table that are looked at, that every
size is one the segmentation is made for (`SizesAssumption`, which TLC evaluates). Which grants,
and how many, does not matter.

`EveryElementIsRead` says which elements are read, for all six bands, all 504 cells, one to three symbols of control
and every PHICH resource (`ElementsAreExact`). `TwoLoops` takes the lists of `JoinedTurns` to the code's loops over symbols and
blocks. On it and on the lemmas of `GrantProofs` rest

- *the shared channel* (`DataIsRead`): within a block each of the three ways to step around references reads what 36.211
  leaves of it (`NeighboursAreRead`, `BothAreRead`, `OneIsRead`); blocks and symbols follow (`BlocksThrough`, `SlotIsRead`),
  and the space for the symbols is the number read outside subframes 0 and 5;
- *the broadcast channel* (`BroadcastIsRead`), 240 symbols in order;
- *the control region* (`ControlIsRead`): the groups that are read are, with the references, the halves of the PCFICH
  and those of the PHICH, the whole region, each element once (`ElementsAreTiled`), and their order comes back;
- *references* (`BinsAreBlocks`, `PilotBinIs`, `SymbolsAreApart`, `AveragesAreOfReferences`): bins are those of the subcarriers on both sides of
  the carrier, a symbol's transform lies within its own time, and the averages are over references;
- *the bits of references and scrambling* (`GoldIsGoldAt`, `ReferencesAreRead`): the properties compute a single bit of a sequence by
  recurrences whose stride is doubled as often as it fits, which keeps TLC from running through 1600 bits for each. A recurrence
  over a stride holds over twice that stride, since the bits that come twice cancel (`FirstDoubles`, `SecondDoubles`); so
  both ways to compute a bit agree, and the references are the middle of the sequence of their cell, slot and symbol;
- *antenna diversity* (`PairsComeBack`): a pair comes back times the energy of its channels, for all integers.

The assumptions are the ranges of these numbers, and for a shared grant `DataAssumption`: blocks in ascending order, as many in one
slot as in the other. For the shared channel the property, and so the theorem, excepts the grants of `Misread`: those with a block that
is half-taken by the centre of an odd band, where the code reads all or nothing of such a
block (15 blocks) or splits a pair (one antenna). They are among the inputs of the run, which extracts them as the code does; what
goes wrong is described below, and for 15 blocks shown by `three_megahertz`.

`EveryCellIsNamed` says which cell is named and which format indicator is read (`CellIsNamed`), for all 504 cells and both halves of the
frame with up to any seven of a register's 64 bits wrong (`HeardAssumption`), and for every indicator, cell and subframe with up to
any four of 32 bits wrong (`CfiAssumption`). The first rests on `CellIsNearest`; the invariant carries that the table which is
searched is the one `lte_init` made. For the second, scrambling with one sequence twice gives back the bits (`ScrambledTwice`), a
symbol says what was sent (`BitsOfSymbols`), and codewords differ in one place of every three, which is ten at least (`CodesApart`).

*Only model-checked*: the liveness properties (`ItemsAreTaken`, `DispatchProgresses`,
`EveryBufferReturns`, `SyncReturnsToRadio`, `LossIsNoticed`, `StopEndsLoop`,
`SubframeComesBack`), which are outside what TLAPS can prove here; and two of the five properties of
`downlink`. `SignalsAreReadBack` and `SharedWordsAreReadBack` claim that the best path through a trellis is the
sent one although soft bits are missing. This is a property of the standard's polynomials and of the words and erasures chosen,
found by running the decoder and not by an argument that is shorter than the run.
The primary sequences, whose place `SignalsAreReadBack` claims too, are samples and a parameter of the model, so that
nothing follows about them but for those the run is given.

## Disagreements found

Three runs show a disagreement. Two are about ignored results, where the code's own
messages say what was meant; one is about a band that the repository's README lists.

- `file_mismatch`: a recording cannot be reopened for another bandwidth:
  `IOInterface::reopen` logs "File device cannot be reopened" and "Resource block
  configuration mismatch" and returns false (`IOInterface.cpp:136-138`).
  `SynchronizerPDSCH::drive` has stored the new value already and ignores the result
  (`SynchronizerPDSCH.cpp:72-75`), so that the next MIB compares equal and subframes
  go to the decoders as if the sampling rate were that of the new bandwidth.
- `malformed_mib`: `pbch_unpack` refuses a block with "Invalid number of resource
  blocks" (`lte/pbch.c:309-310`), but `pbch_decode` ignores that and returns success
  (line 380); the receiver then reopens the device for the bandwidth that the MIB
  had before, which is zero at first.
- `three_megahertz`: the repository's README lists "Bandwidth: 1.4, 3, 5, 10, and 20 MHz" (`README.md:23`)
  and 36.211 (line 18), by which every element of a grant is read that carries nothing else. In a band of fifteen blocks
  the signals around the centre take subcarriers 54 to 125, half of block 4 and half of block 10. `reserved_rb`
  (`lte/pdsch.c:146-149`) has no half blocks for that band: in subframes 0 and 5 it skips the whole of
  block 4 and reads the whole of block 10. `ElementsAreExact` excepts these grants (`Misread`).

The following were met while modelling the library, and no run of their own is made of them. The
definitions do what the code does, with inputs that reach it; the properties say what is right in spite
of it, and except the rest by name.

- *More than two antennas* end the process in `pcfich_extract_syms` (`lte/pcfich.c:166-169`), before the format
  indicator is read, so that the same check of `lte/pdcch.c:318` is never reached. *Indicators the band has no room for* end
  it in `lte_decode_pdcch`, where the allocation for the control channel fails: an indicator of 3 with at most ten blocks, and the
  fourth codeword. `ExitsBeforeSearch` describes both.
- *The first subframe of a cell* is decoded with the reference maps of slot 0 of subframe 0 in both
  slots (`DecoderPDSCH.cpp:94-95`, both `front()`). `ReferencesMatch` describes it.
- *A block refused for its number of bits* (more than `MAX_G`, which 100 blocks with one antenna, 64QAM
  and one control symbol exceed) leaves the handler with the new numbers but the old lengths. After a refusal
  for 90,000 bits, a block of the same size in the bits of the last accepted one returns at once
  with the segments' lengths of that one (`pdsch_block.c:337`). `BlockMatchesGrant` claims the segments even then, and the lengths
  until such a refusal.
- *Half-reserved blocks with one antenna* (25 and 75 blocks, first symbol of slot 1 in subframe 0): the
  elements around the reference are misread (`pdsch_extract_ref1`). `ElementsAreExact` excepts them (`Misread`).
- *The second to fourth quarter of a MIB*: `pbch_descramble` reads the sequence of length 480 from
  `480 n` on, behind its end (`lte/pbch.c:348`), in whatever lies there on the stack. The model makes that a choice (`Behind`): a MIB
  sent in the second quarter is tried for all four, and `SignalsAreReadBack` claims it only where memory happens to
  hold the sequence's continuation (`SequenceReaches`). A MIB is therefore read reliably in one frame of four only.
- *Formats 1B, 1D, 2 and 2A.* The repository's README lists "PDCCH formats (DCI): 0, 1, 1A, 1C, 1D, 2, 2A" (`README.md:25`).
  Formats 1B and 1D are not padded when their size is one of the ambiguous ones (24 bits for 15 blocks, 26
  for 25) and are then taken for Format 1 (`TakenForFormat1`); else 1D is named 1B. Of 1B's precoder one bit is read, 1D's power offset is
  read as 1B's, the enumeration of Format 2 has no name for a field and shifts those behind it, and 2A has a header of no bits
  in TDD with six blocks that is read as one (`MisreadFields`). `SignalsAreReadBack` claims all other fields of all formats. No run of its
  own shows the disagreement, for nothing is granted by it: the control channel is searched for Formats 1, 1A, 1B and 1C only
  (`pdcch_decode_blk`), and Format 1B's precoder has no reader.
- *Codes of rate 1/4*: `encode_n4` and `encode_rec_n4` take the third polynomial for
  the fourth output, too. The receiver uses none.
- *SSS detection* accepts up to 19 wrong bits of 62 although two sequences may differ in 16 only.
  `CellIsNamed` claims seven, the most that this distance allows.
- *A soft bit of -128* is the rate matcher's mark for a place that is not there
  (`turbo/conv_rate_match.c`). No soft bit of an undisturbed symbol has that value.

## Not modelled

- *Arithmetic on samples*: correlators, filters, transforms, resampling, channel estimates and their
  interpolation, the averages of the SSS detector and its frequency estimate. On
  a small instance it would not be the code; what the control sees of it is a choice,
  and the library's models begin with symbols.
- *SIMD kernels* (`dsp/`, `turbo/conv_sse.h`): they compute what the generic versions do;
  `turbo_sse.h`, which has no generic version, is modelled by what its instructions compute.
- *`SynchronizerPBCH`*: the same base class as the modelled synchronizer and the same states but the
  last; `ltedecode` does not use it.
- *Which correction* `comp_timing_offset` computes, and the averager's mean: choices
  and classes.
- *Start-up*: option parsing, construction and copying of decoders, the RNTI set, which
  does not change after the threads start.
- *The end of a recording*: an exception that leaves `start()` and ends the program.
- *Wrap of the frame counter* after 2^32 subframes (49 days): the counter is modelled
  modulo the frame modulus.
- *Output and logging*: `DecoderASN1`, `lte/log.c`.

`map` in `PROJECT.json` covers 46 % of the implementation's lines. Most of the rest
are the SIMD kernels and transforms, the parsing of options and logging.

## What is left

The plan of modules is done: `BufferQueue`, `SubframePipeline` with its abstraction,
`Synchronizer`, `TimestampBuffer`, `RadioInput` and `Converter` with their proofs; then the
library (`ResourceGrid` to `DownlinkOperations`) and `SubframeDecoder` over it, with proofs
about the decoder and about the pipeline's queues. Worth adding:

1. The SSS detector's averages over frames, if its sums were given as integers, in place of a
   choice in `Synchronizer`.
2. Six hazards have no property; `PROJECT.json` says why at each.

## How to run it

```
tlc -workers 2 -config RadioInput.cfg MCRadioInput.tla
tlapm RadioInputProofs.tla
```

`PROJECT.json` names the module and the configuration of each run, and for each
property a variant of the code's definition under which it fails.
