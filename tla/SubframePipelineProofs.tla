------------------------ MODULE SubframePipelineProofs ------------------------
(***************************************************************************)
(* Proofs about module SubframePipeline, for any number of buffers,         *)
(* decoders and subframes, any window and any lag.                          *)
(***************************************************************************)
EXTENDS SubframePipeline, FiniteSetTheorems, SequenceTheorems, TLAPS

-----------------------------------------------------------------------------
(***************************************************************************)
(* Queues without repetitions.                                              *)
(***************************************************************************)
LEMMA TakeHead ==
  ASSUME NEW S, NEW s \in Seq(S), s # <<>>, IsInjective(s)
  PROVE  /\ Head(s) \in ToSet(s) /\ Head(s) \in S
         /\ Tail(s) \in Seq(S) /\ IsInjective(Tail(s))
         /\ ToSet(Tail(s)) = ToSet(s) \ {Head(s)}
         /\ Len(Tail(s)) = Len(s) - 1
<1> DEFINE t == Tail(s)
<1>1. /\ Len(s) \in Nat \ {0} /\ DOMAIN s = 1 .. Len(s) /\ Head(s) = s[1]
      /\ t \in Seq(S) /\ Len(t) = Len(s) - 1 /\ DOMAIN t = 1 .. Len(t)
      /\ \A i \in 1 .. Len(t) : t[i] = s[i + 1]
  BY HeadTailProperties, LenProperties
<1>2. Head(s) \in ToSet(s) /\ Head(s) \in S
  BY <1>1 DEF ToSet
<1>3. IsInjective(t)
  BY <1>1 DEF IsInjective
<1>4. ToSet(t) \subseteq ToSet(s) \ {Head(s)}
  BY <1>1 DEF ToSet, IsInjective
<1>5. ASSUME NEW x \in ToSet(s) \ {Head(s)} PROVE x \in ToSet(t)
  <2>1. PICK i \in 1 .. Len(s) : x = s[i]
    BY <1>1, <1>5 DEF ToSet
  <2>2. i # 1 /\ i - 1 \in 1 .. Len(t) /\ t[i - 1] = x
    BY <1>1, <1>5, <2>1
  <2>3. QED
    BY <1>1, <2>2 DEF ToSet
<1>6. QED
  BY <1>1, <1>2, <1>3, <1>4, <1>5

\* What a write does to a queue without repetitions.
LEMMA AddLast ==
  ASSUME NEW S, NEW s \in Seq(S), NEW x \in S, x \notin ToSet(s), IsInjective(s)
  PROVE  /\ Append(s, x) \in Seq(S) /\ IsInjective(Append(s, x))
         /\ ToSet(Append(s, x)) = ToSet(s) \cup {x}
         /\ Len(Append(s, x)) = Len(s) + 1
<1> DEFINE t == Append(s, x)
<1>1. /\ Len(s) \in Nat /\ DOMAIN s = 1 .. Len(s)
      /\ t \in Seq(S) /\ Len(t) = Len(s) + 1 /\ DOMAIN t = 1 .. Len(s) + 1
      /\ \A i \in 1 .. Len(s) : t[i] = s[i]
      /\ t[Len(s) + 1] = x
  BY AppendProperties, LenProperties
<1>2. \A i \in 1 .. Len(s) : s[i] # x
  BY <1>1 DEF ToSet
<1>3. IsInjective(t)
  BY <1>1, <1>2 DEF IsInjective
<1>4. ToSet(t) = ToSet(s) \cup {x}
  BY <1>1 DEF ToSet
<1>5. QED
  BY <1>1, <1>3, <1>4

(***************************************************************************)
(* Priming: a finite set laid out as a sequence has each element once.      *)
(***************************************************************************)
LEMMA Priming ==
  ASSUME NEW S, IsFiniteSet(S)
  PROVE  /\ SetToSeq(S) \in Seq(S) /\ IsInjective(SetToSeq(S))
         /\ ToSet(SetToSeq(S)) = S
         /\ Len(SetToSeq(S)) = Cardinality(S)
<1> DEFINE n == Cardinality(S)
           s == SetToSeq(S)
<1>1. n \in Nat /\ ExistsBijection(1 .. n, S)
  BY FS_CardinalityType
<1>2. PICK f \in [1 .. n -> S] : IsInjective(f)
  BY <1>1 DEF ExistsBijection, Bijection, Injection
<1>3. s \in [1 .. n -> S] /\ IsInjective(s)
  BY <1>2 DEF SetToSeq
<1>4. s \in Seq(S) /\ Len(s) = n
  BY <1>1, <1>3
<1>5. IsFiniteSet(1 .. n) /\ Cardinality(1 .. n) = n
  BY <1>1, FS_Interval
<1>6. s \in Surjection(1 .. n, S)
  BY <1>3, <1>5, FS_Injection DEF Injection
<1>7. ToSet(s) = S
  BY <1>3, <1>6 DEF Surjection, ToSet
<1>8. QED
  BY <1>3, <1>4, <1>7

-----------------------------------------------------------------------------
(***************************************************************************)
(* Ownership.  A thread holds a buffer exactly at the places of its loop    *)
(* where it works on one; with that, OneOwner and NoneLost are inductive.   *)
(***************************************************************************)
Working == {"prepare", "decode", "write"}

OwnTypes ==
  /\ retQ \in Seq(Buffers) /\ pdschQ \in Seq(Buffers)
  /\ syncPc \in SyncPlaces
  /\ decPc \in [Decoders -> DecPlaces]
  /\ decBuf \in [Decoders -> Buffers \cup {NoBuffer}]

HandsOK ==
  /\ syncPc = "write" => syncBuf \in Buffers
  /\ syncPc # "write" => syncBuf = NoBuffer
  /\ \A d \in Decoders : decPc[d] \in Working => decBuf[d] \in Buffers
  /\ \A d \in Decoders : decPc[d] \notin Working => decBuf[d] = NoBuffer

OwnInv == OwnTypes /\ HandsOK /\ OneOwner /\ NoneLost

\* The steps that hand no buffer over.
LEMMA NobodyHands ==
  ASSUME OneOwner, NoneLost, UNCHANGED <<retQ, pdschQ, syncBuf, decBuf>>
  PROVE  OneOwner' /\ NoneLost'
  BY DEF OneOwner, NoneLost, Held

\* The synchronizer takes a buffer out of the return queue.
LEMMA SyncReadOwn == ASSUME OwnInv, SyncRead PROVE OwnInv'
<1>1. PICK b \in Buffers : Return!Read(Sync, b) /\ syncBuf' = b
  BY DEF SyncRead
<1>2. /\ retQ # <<>> /\ b = Head(retQ) /\ retQ' = Tail(retQ)
      /\ pdschQ' = pdschQ /\ decBuf' = decBuf /\ decPc' = decPc
      /\ syncPc = "read" /\ syncPc' = "write" /\ syncBuf' = b /\ syncBuf = NoBuffer
  BY <1>1 DEF Return!Read, SyncRead, OwnInv, HandsOK, pdschVars, decVars
<1>3. /\ retQ' \in Seq(Buffers) /\ IsInjective(retQ')
      /\ ToSet(retQ') = ToSet(retQ) \ {b} /\ b \in ToSet(retQ)
  BY <1>2, TakeHead DEF OwnInv, OwnTypes, OneOwner
<1>4. OwnTypes' /\ HandsOK'
  BY <1>2, <1>3 DEF OwnInv, OwnTypes, HandsOK, SyncPlaces
<1>5. /\ b # NoBuffer /\ b \notin Held /\ b \notin ToSet(pdschQ)
      /\ Held' = {b} \cup {decBuf[d] : d \in Decoders}
      /\ Held = {NoBuffer} \cup {decBuf[d] : d \in Decoders}
  BY <1>2, <1>3, PipelineAssumption DEF OwnInv, OneOwner, Held
<1>6. NoneLost'
  BY <1>2, <1>3, <1>5, PipelineAssumption DEF OwnInv, NoneLost
<1>7. OneOwner'
  <2>1. /\ IsInjective(retQ') /\ IsInjective(pdschQ')
        /\ ToSet(retQ') \cap ToSet(pdschQ') = {}
        /\ Held' \cap (ToSet(retQ') \cup ToSet(pdschQ')) = {}
    BY <1>2, <1>3, <1>5 DEF OwnInv, OneOwner
  <2>2. ASSUME NEW d \in Decoders, decBuf'[d] # NoBuffer
        PROVE  /\ decBuf'[d] # syncBuf'
               /\ \A e \in Decoders \ {d} : decBuf'[e] # decBuf'[d]
    BY <1>2, <1>5, <2>2 DEF OwnInv, OneOwner
  <2>3. QED
    BY <2>1, <2>2 DEF OneOwner
<1>8. QED
  BY <1>4, <1>6, <1>7 DEF OwnInv

\* The synchronizer gives its buffer to the decoders' queue.
LEMMA SyncWriteOwn == ASSUME OwnInv, SyncWrite PROVE OwnInv'
<1>1. /\ pdschQ' = Append(pdschQ, syncBuf) /\ retQ' = retQ
      /\ decBuf' = decBuf /\ decPc' = decPc
      /\ syncPc = "write" /\ syncPc' = "notify"
      /\ syncBuf' = NoBuffer /\ syncBuf \in Buffers
  BY DEF Pdsch!Write, SyncWrite, OwnInv, HandsOK, retVars, decVars
<1>2. syncBuf \notin ToSet(pdschQ) /\ syncBuf \notin ToSet(retQ)
  BY DEF OwnInv, OneOwner, Held
<1>3. /\ pdschQ' \in Seq(Buffers) /\ IsInjective(pdschQ')
      /\ ToSet(pdschQ') = ToSet(pdschQ) \cup {syncBuf}
  BY <1>1, <1>2, AddLast DEF OwnInv, OwnTypes, OneOwner
<1>4. OwnTypes' /\ HandsOK'
  BY <1>1, <1>3 DEF OwnInv, OwnTypes, HandsOK, SyncPlaces
<1>5. ToSet(retQ) \subseteq Buffers /\ ToSet(pdschQ) \subseteq Buffers
  BY DEF OwnInv, OwnTypes, ToSet
<1>6. OneOwner' /\ NoneLost'
  BY <1>1, <1>2, <1>3, <1>5, PipelineAssumption
     DEF OwnInv, OwnTypes, OneOwner, NoneLost, Held, HandsOK
<1>7. QED
  BY <1>4, <1>6 DEF OwnInv

\* A decoder takes a buffer out of its queue.
LEMMA DecReadOwn ==
  ASSUME OwnInv, NEW d \in Decoders, DecRead(d) PROVE OwnInv'
<1>1. PICK b \in Buffers : Pdsch!Read(d, b) /\ decBuf' = [decBuf EXCEPT ![d] = b]
  BY DEF DecRead
<1>2. /\ pdschQ # <<>> /\ b = Head(pdschQ) /\ pdschQ' = Tail(pdschQ)
      /\ retQ' = retQ /\ syncBuf' = syncBuf /\ syncPc' = syncPc
      /\ decPc' = [decPc EXCEPT ![d] = "prepare"]
      /\ decPc[d] = "read" /\ decBuf[d] = NoBuffer
  BY <1>1 DEF Pdsch!Read, DecRead, OwnInv, HandsOK, retVars, syncVars, Working
<1>3. /\ pdschQ' \in Seq(Buffers) /\ IsInjective(pdschQ')
      /\ ToSet(pdschQ') = ToSet(pdschQ) \ {b} /\ b \in ToSet(pdschQ)
  BY <1>2, TakeHead DEF OwnInv, OwnTypes, OneOwner
<1>4. OwnTypes' /\ HandsOK'
  BY <1>1, <1>2, <1>3 DEF OwnInv, OwnTypes, HandsOK, DecPlaces, Working
<1>5. /\ decBuf' = [decBuf EXCEPT ![d] = b]
      /\ decBuf'[d] = b /\ \A e \in Decoders \ {d} : decBuf'[e] = decBuf[e]
  BY <1>1 DEF OwnInv, OwnTypes
<1>6. b # NoBuffer /\ b \notin Held /\ b \notin ToSet(retQ)
  BY <1>3, PipelineAssumption DEF OwnInv, OneOwner
<1>7. Held' \subseteq Held \cup {b} /\ b \in Held' /\ Held \subseteq Held' \cup {NoBuffer}
  BY <1>2, <1>5 DEF Held
<1>8. NoneLost'
  BY <1>2, <1>3, <1>7, PipelineAssumption DEF OwnInv, NoneLost
<1>9. OneOwner'
  <2>1. IsInjective(retQ') /\ IsInjective(pdschQ')
    BY <1>2, <1>3 DEF OwnInv, OneOwner
  <2>2. ToSet(retQ') \cap ToSet(pdschQ') = {}
    BY <1>2, <1>3 DEF OwnInv, OneOwner
  <2>3. Held' \cap (ToSet(retQ') \cup ToSet(pdschQ')) = {}
    BY <1>2, <1>3, <1>6, <1>7 DEF OwnInv, OneOwner
  <2>4. ASSUME NEW e \in Decoders, decBuf'[e] # NoBuffer
        PROVE  /\ decBuf'[e] # syncBuf'
               /\ \A f \in Decoders \ {e} : decBuf'[f] # decBuf'[e]
    BY <1>2, <1>5, <1>6, <2>4 DEF OwnInv, OneOwner, Held
  <2>5. QED
    BY <2>1, <2>2, <2>3, <2>4 DEF OneOwner
<1>10. QED
  BY <1>4, <1>8, <1>9 DEF OwnInv

\* A decoder gives its buffer back.
LEMMA DecWriteOwn ==
  ASSUME OwnInv, NEW d \in Decoders, DecWrite(d) PROVE OwnInv'
<1> DEFINE b == decBuf[d]
<1>1. /\ retQ' = Append(retQ, b) /\ pdschQ' = pdschQ
      /\ syncBuf' = syncBuf /\ syncPc' = syncPc
      /\ decPc' = [decPc EXCEPT ![d] = "notify"]
      /\ decBuf' = [decBuf EXCEPT ![d] = NoBuffer]
      /\ decPc[d] = "write" /\ b \in Buffers /\ b # NoBuffer
  BY PipelineAssumption
     DEF Return!Write, DecWrite, OwnInv, HandsOK, pdschVars, syncVars, Working
<1>2. b \notin ToSet(retQ) /\ b \notin ToSet(pdschQ)
  BY DEF OwnInv, OneOwner, Held
<1>3. /\ retQ' \in Seq(Buffers) /\ IsInjective(retQ')
      /\ ToSet(retQ') = ToSet(retQ) \cup {b}
  BY <1>1, <1>2, AddLast DEF OwnInv, OwnTypes, OneOwner
<1>4. OwnTypes' /\ HandsOK'
  BY <1>1, <1>3 DEF OwnInv, OwnTypes, HandsOK, DecPlaces, Working
<1>5. decBuf'[d] = NoBuffer /\ \A e \in Decoders \ {d} : decBuf'[e] = decBuf[e]
  BY <1>1 DEF OwnInv, OwnTypes
<1>6. Held' \subseteq Held \cup {NoBuffer} /\ b \notin Held' /\ Held \subseteq Held' \cup {b}
  BY <1>1, <1>5 DEF Held, OwnInv, OneOwner
<1>7. NoBuffer \notin ToSet(retQ') \cup ToSet(pdschQ')
  BY <1>1, <1>3, PipelineAssumption DEF OwnInv, OwnTypes, ToSet
<1>8. NoneLost'
  BY <1>1, <1>3, <1>6 DEF OwnInv, NoneLost
<1>9. OneOwner'
  <2>1. IsInjective(retQ') /\ IsInjective(pdschQ')
    BY <1>1, <1>3 DEF OwnInv, OneOwner
  <2>2. ToSet(retQ') \cap ToSet(pdschQ') = {}
    BY <1>1, <1>2, <1>3 DEF OwnInv, OneOwner
  <2>3. Held' \cap (ToSet(retQ') \cup ToSet(pdschQ')) = {}
    BY <1>1, <1>3, <1>6, <1>7 DEF OwnInv, OneOwner
  <2>4. ASSUME NEW e \in Decoders, decBuf'[e] # NoBuffer
        PROVE  /\ decBuf'[e] # syncBuf'
               /\ \A f \in Decoders \ {e} : decBuf'[f] # decBuf'[e]
    BY <1>1, <1>5, <2>4 DEF OwnInv, OneOwner
  <2>5. QED
    BY <2>1, <2>2, <2>3, <2>4 DEF OneOwner
<1>10. QED
  BY <1>4, <1>8, <1>9 DEF OwnInv

\* The other steps move a thread along its loop, between two places where it
\* holds the same buffer or none.
LEMMA SyncOthersOwn ==
  ASSUME OwnInv, SyncSearch \/ SyncDeliver \/ SyncBlock \/ SyncDrop \/ SyncNotify
  PROVE  OwnInv'
<1>1. UNCHANGED <<retQ, pdschQ, syncBuf, decBuf, decPc>>
  BY DEF SyncSearch, SyncDeliver, SyncBlock, SyncDrop, SyncNotify, Return!Block,
         Return!ReadNull, Return!qvars, Pdsch!NotifyOne, retVars, pdschVars,
         syncVars, decVars
<1>2. syncPc \in {"tick", "read", "notify"} /\ syncPc' \in {"tick", "read"}
  BY DEF SyncSearch, SyncDeliver, SyncBlock, SyncDrop, SyncNotify, syncVars
<1>3. OwnTypes' /\ HandsOK'
  BY <1>1, <1>2 DEF OwnInv, OwnTypes, HandsOK, SyncPlaces
<1>4. QED
  BY <1>1, <1>3, NobodyHands DEF OwnInv

\* The decoder's other steps move no buffer.
LEMMA DecOthersOwn ==
  ASSUME OwnInv, NEW d \in Decoders,
         DecBlock(d) \/ DecPrepare(d) \/ DecDecode(d) \/ DecNotify(d)
  PROVE  OwnInv'
<1>1. UNCHANGED <<retQ, pdschQ, syncBuf, decBuf, syncPc>>
  BY DEF DecBlock, DecPrepare, DecDecode, DecNotify, Pdsch!Block,
         Return!NotifyOne, retVars, pdschVars, syncVars, decVars
<1>2. \/ decPc' = decPc
      \/ decPc[d] = "prepare" /\ decPc' = [decPc EXCEPT ![d] = "decode"]
      \/ decPc[d] = "decode" /\ decPc' = [decPc EXCEPT ![d] = "write"]
      \/ decPc[d] = "notify" /\ decPc' = [decPc EXCEPT ![d] = "read"]
  BY DEF DecBlock, DecPrepare, DecDecode, DecNotify, decVars
<1>3. OwnTypes' /\ HandsOK'
  BY <1>1, <1>2 DEF OwnInv, OwnTypes, HandsOK, DecPlaces, Working
<1>4. QED
  BY <1>1, <1>3, NobodyHands DEF OwnInv

\* A spurious wake-up moves no buffer.
LEMMA WakeupOwn == ASSUME OwnInv, SpuriousWakeup PROVE OwnInv'
<1>1. UNCHANGED <<retQ, pdschQ, syncBuf, decBuf, syncPc, decPc>>
  BY DEF SpuriousWakeup, Return!SpuriousWakeup, Pdsch!SpuriousWakeup, retVars,
         pdschVars, syncVars, decVars
<1>2. OwnTypes' /\ HandsOK'
  BY <1>1 DEF OwnInv, OwnTypes, HandsOK
<1>3. QED
  BY <1>1, <1>2, NobodyHands DEF OwnInv

\* Every step keeps one owner of each buffer.
LEMMA OwnStep == OwnInv /\ [Next]_vars => OwnInv'
<1> SUFFICES ASSUME OwnInv, [Next]_vars PROVE OwnInv'
  OBVIOUS
<1>1. CASE SyncRead
  BY <1>1, SyncReadOwn
<1>2. CASE SyncWrite
  BY <1>2, SyncWriteOwn
<1>3. CASE SyncSearch \/ SyncDeliver \/ SyncBlock \/ SyncDrop \/ SyncNotify
  BY <1>3, SyncOthersOwn
<1>4. CASE \E d \in Decoders : DecLoop(d)
  BY <1>4, DecReadOwn, DecWriteOwn, DecOthersOwn DEF DecLoop
<1>5. CASE SpuriousWakeup
  BY <1>5, WakeupOwn
<1>6. CASE UNCHANGED vars
  BY <1>6, NobodyHands
     DEF vars, retVars, pdschVars, syncVars, decVars, OwnInv, OwnTypes, HandsOK
<1>7. QED
  BY <1>1, <1>2, <1>3, <1>4, <1>5, <1>6 DEF Next

\* At first every buffer is in the return queue, once.
LEMMA OwnInit == Init => OwnInv
<1> SUFFICES ASSUME Init PROVE OwnInv
  OBVIOUS
<1>1. /\ retQ \in Seq(Buffers) /\ IsInjective(retQ) /\ ToSet(retQ) = Buffers
      /\ pdschQ = <<>>
  BY Priming, PipelineAssumption DEF Init, Return!InitWith, Pdsch!InitWith
<1>2. ToSet(pdschQ) = {} /\ IsInjective(pdschQ) /\ pdschQ \in Seq(Buffers)
  BY <1>1 DEF ToSet, IsInjective
<1>3. OwnTypes /\ HandsOK
  BY <1>1, <1>2 DEF Init, OwnTypes, HandsOK, SyncPlaces, DecPlaces, Working
<1>4. QED
  BY <1>1, <1>2, <1>3, PipelineAssumption
       DEF Init, OwnInv, OneOwner, NoneLost, Held

(***************************************************************************)
(* Every buffer always has exactly one owner: no two threads work on the    *)
(* same one, none is queued twice, and none is lost.                        *)
(***************************************************************************)
THEOREM PipelineOwnership == Spec => []OwnInv
  BY OwnInit, OwnStep, PTL DEF Spec

(***************************************************************************)
(* No two owners of a buffer, which is what makes the use of the buffers    *)
(* without a lock safe (SynchronizerPDSCH.cpp:106-121,                      *)
(* DecoderPDSCH.cpp:103-190).                                               *)
(***************************************************************************)
THEOREM AlwaysOneOwner == Spec => []OneOwner
<1>1. OwnInv => OneOwner
  BY DEF OwnInv
<1>2. QED
  BY <1>1, PipelineOwnership, PTL

(***************************************************************************)
(* No buffer is ever lost: the LteBuffers made at the start are all that    *)
(* there will be (ltedecode.cpp:291-303), however many steps have passed.   *)
(***************************************************************************)
THEOREM NoBufferLost == Spec => []NoneLost
<1>1. OwnInv => NoneLost
  BY DEF OwnInv
<1>2. QED
  BY <1>1, PipelineOwnership, PTL

-----------------------------------------------------------------------------
(***************************************************************************)
(* A subframe is dropped only when every buffer is with the decoders: the   *)
(* return queue is empty then, and no buffer is anywhere else.              *)
(***************************************************************************)
THEOREM DropsOnlyWhenStarved == Spec => DropsOnlyWhenAllInFlight
<1>1. OwnInv /\ [Next]_vars => [SyncDrop => Buffers \subseteq InFlight]_vars
  <2> SUFFICES ASSUME OwnInv, SyncDrop PROVE Buffers \subseteq InFlight
    OBVIOUS
  <2>1. retQ = <<>> /\ syncBuf = NoBuffer
    BY DEF SyncDrop, Return!ReadNull, OwnInv, HandsOK
  <2>2. ToSet(retQ) = {}
    BY <2>1 DEF ToSet
  <2>3. QED
    BY <2>1, <2>2, PipelineAssumption DEF OwnInv, NoneLost, Held, InFlight
<1>2. QED
  BY <1>1, PipelineOwnership, PTL DEF Spec, DropsOnlyWhenAllInFlight

-----------------------------------------------------------------------------
(***************************************************************************)
(* The types of what the threads leave in the buffers and remember.         *)
(***************************************************************************)
SyncTypes ==
  /\ subframe \in Subframes /\ config \in Configs
  /\ window \in [current : Nat, other : Nat]
  /\ lag \in 0 .. Lag

DecTypes ==
  /\ decConfig \in [Decoders -> Configs \cup {NoConfig}]
  /\ decMaps \in [Decoders -> Nat \X Nat]

BufferTypes ==
  /\ stamp \in [Buffers -> Stamps]
  /\ samples \in [Buffers -> {"stale", "current"}]
  /\ freqOffset \in [Buffers -> Offsets]
  /\ crcValid \in [Buffers -> BOOLEAN]

DataTypes == SyncTypes /\ DecTypes /\ BufferTypes

\* A move of the oscillator leaves offsets offsets.
LEMMA AgedType ==
  /\ \A s \in [Buffers -> {"stale", "current"}] :
       Aged(s) \in [Buffers -> {"stale", "current"}]
  /\ \A f \in [Buffers -> Offsets] : Aged(f) \in [Buffers -> Offsets]
  BY DEF Aged, Offsets

\* The lag stays within its bounds.
LEMMA LessLagType ==
  ASSUME lag \in 0 .. Lag
  PROVE  /\ LessLag \in 0 .. Lag /\ LessLag <= lag
         /\ lag > 0 => LessLag = lag - 1
  BY PipelineAssumption DEF LessLag

\* The averager's counts stay natural numbers.
LEMMA PushedType ==
  ASSUME SyncTypes, NEW o
  PROVE  /\ Pushed(o) \in [current : Nat, other : Nat]
         /\ Pushed(o).other = IF o = "current" THEN window.other ELSE window.other + 1
  BY DEF SyncTypes, Pushed

\* Every step keeps the types of what travels with the buffers.
LEMMA DataStep == OwnInv /\ DataTypes /\ [Next]_vars => DataTypes'
<1> SUFFICES ASSUME OwnInv, DataTypes, [Next]_vars PROVE DataTypes'
  OBVIOUS
<1>1. CASE SyncSearch
  <2>1. SyncTypes'
    BY <1>1, LessLagType, PipelineAssumption DEF SyncSearch, DataTypes, SyncTypes
  <2>2. BufferTypes'
    BY <1>1, AgedType DEF SyncSearch, DataTypes, BufferTypes
  <2>3. QED
    BY <1>1, <2>1, <2>2 DEF SyncSearch, DataTypes, DecTypes, decVars
<1>2. CASE SyncDeliver
  <2>1. (subframe + 1) % NumSubframes \in Subframes
    BY PipelineAssumption DEF DataTypes, SyncTypes, Subframes
  <2>2. QED
    BY <1>2, <2>1
       DEF SyncDeliver, DataTypes, SyncTypes, DecTypes, BufferTypes, decVars, bufferVars
<1>3. CASE SyncRead
  <2>1. PICK b \in Buffers :
          /\ crcValid' = [crcValid EXCEPT ![b] = FALSE]
          /\ stamp' = [stamp EXCEPT ![b] = [cfg |-> config, sfn |-> subframe]]
          /\ LET w == Pushed(freqOffset[b])
                 s == [samples EXCEPT ![b] = IF lag > 0 THEN "stale" ELSE "current"]
             IN \/ /\ window' = [current |-> 0, other |-> 0] /\ lag' = Lag
                   /\ samples' = Aged(s) /\ freqOffset' = Aged(freqOffset)
                \/ /\ window' = w /\ lag' = LessLag
                   /\ samples' = s /\ freqOffset' = freqOffset
    BY <1>3 DEF SyncRead
  <2>2. SyncTypes'
    BY <1>3, <2>1, PushedType, LessLagType, PipelineAssumption
       DEF SyncRead, DataTypes, SyncTypes
  <2>3. [samples EXCEPT ![b] = IF lag > 0 THEN "stale" ELSE "current"]
          \in [Buffers -> {"stale", "current"}]
    BY DEF DataTypes, BufferTypes
  <2>4. samples' \in [Buffers -> {"stale", "current"}] /\ freqOffset' \in [Buffers -> Offsets]
    BY <2>1, <2>3, AgedType DEF DataTypes, BufferTypes
  <2>5. stamp' \in [Buffers -> Stamps]
    BY <2>1 DEF DataTypes, SyncTypes, BufferTypes, Stamps
  <2>6. crcValid' \in [Buffers -> BOOLEAN]
    BY <2>1 DEF DataTypes, BufferTypes
  <2>7. QED
    BY <1>3, <2>2, <2>4, <2>5, <2>6 DEF SyncRead, DataTypes, DecTypes, BufferTypes, decVars
<1>4. CASE SyncDrop
  BY <1>4, LessLagType DEF SyncDrop, DataTypes, SyncTypes, DecTypes, BufferTypes,
                           decVars, bufferVars
<1>5. CASE SyncBlock \/ SyncWrite \/ SyncNotify
  BY <1>5 DEF SyncBlock, SyncWrite, SyncNotify, DataTypes, SyncTypes, DecTypes,
              BufferTypes, syncVars, decVars, bufferVars
<1>6. ASSUME NEW d \in Decoders, DecPrepare(d) PROVE DataTypes'
  <2>1. decBuf[d] \in Buffers
    BY <1>6 DEF DecPrepare, OwnInv, HandsOK, Working
  <2>2. SyncTypes'
    BY <1>6 DEF DecPrepare, DataTypes, SyncTypes, syncVars
  <2>3. stamp[decBuf[d]].cfg \in Configs /\ stamp[decBuf[d]].sfn \in Nat
    BY <2>1, PipelineAssumption DEF DataTypes, BufferTypes, Stamps, Subframes
  <2>4. DecTypes'
    BY <1>6, <2>3 DEF DecPrepare, DataTypes, DecTypes
  <2>5. BufferTypes'
    BY <1>6, <2>1 DEF DecPrepare, DataTypes, BufferTypes, Offsets
  <2>6. QED
    BY <2>2, <2>4, <2>5 DEF DataTypes
<1>7. ASSUME NEW d \in Decoders, DecDecode(d) PROVE DataTypes'
  <2>1. decBuf[d] \in Buffers
    BY <1>7 DEF DecDecode, OwnInv, HandsOK, Working
  <2>2. SyncTypes' /\ DecTypes'
    BY <1>7 DEF DecDecode, DataTypes, SyncTypes, DecTypes, syncVars
  <2>3. samples[decBuf[d]] \in Offsets
    BY <2>1 DEF DataTypes, BufferTypes, Offsets
  <2>4. BufferTypes'
    BY <1>7, <2>1, <2>3 DEF DecDecode, DataTypes, BufferTypes
  <2>5. QED
    BY <2>2, <2>4 DEF DataTypes
<1>8. ASSUME NEW d \in Decoders, DecRead(d) \/ DecBlock(d) \/ DecWrite(d) \/ DecNotify(d)
      PROVE  DataTypes'
  BY <1>8 DEF DecRead, DecBlock, DecWrite, DecNotify, DataTypes, SyncTypes, DecTypes,
              BufferTypes, syncVars, decVars, bufferVars
<1>9. CASE SpuriousWakeup \/ UNCHANGED vars
  BY <1>9 DEF SpuriousWakeup, vars, DataTypes, SyncTypes, DecTypes, BufferTypes,
              syncVars, decVars, bufferVars
<1>10. QED
  BY <1>1, <1>2, <1>3, <1>4, <1>5, <1>6, <1>7, <1>8, <1>9 DEF Next, DecLoop

(***************************************************************************)
(* A CRC is counted once: the flag is set only in a buffer on its way from  *)
(* the decoder to the synchronizer.  The ownership says that it is not in   *)
(* any other place at the same time.                                        *)
(***************************************************************************)
LEMMA CrcStep == OwnInv /\ DataTypes /\ CrcCountedOnce /\ [Next]_vars => CrcCountedOnce'
<1> SUFFICES ASSUME OwnInv, DataTypes, CrcCountedOnce, [Next]_vars,
                    NEW c \in Buffers, crcValid'[c]
             PROVE  \/ c \in ToSet(retQ')
                    \/ \E d \in Decoders : decBuf'[d] = c /\ decPc'[d] = "write"
  BY DEF CrcCountedOnce
<1> USE DEF OwnInv, OwnTypes, DataTypes, BufferTypes, CrcCountedOnce
<1>1. CASE SyncRead
  <2>1. PICK b \in Buffers : /\ retQ # <<>> /\ b = Head(retQ) /\ retQ' = Tail(retQ)
                             /\ crcValid' = [crcValid EXCEPT ![b] = FALSE]
    BY <1>1 DEF SyncRead, Return!Read
  <2>2. ToSet(retQ') = ToSet(retQ) \ {b}
    BY <2>1, TakeHead DEF OneOwner
  <2>3. c # b /\ crcValid[c]
    BY <2>1
  <2>4. QED
    BY <1>1, <2>2, <2>3 DEF SyncRead, decVars
<1> DEFINE Returning == \/ c \in ToSet(retQ')
                        \/ \E d \in Decoders : decBuf'[d] = c /\ decPc'[d] = "write"
<1>2. ASSUME NEW d \in Decoders, DecPrepare(d) PROVE Returning
  <2>1. /\ decPc[d] = "prepare" /\ decPc' = [decPc EXCEPT ![d] = "decode"]
        /\ crcValid' = [crcValid EXCEPT ![decBuf[d]] = FALSE]
        /\ retQ' = retQ /\ decBuf' = decBuf
    BY <1>2 DEF DecPrepare, retVars
  <2>2. c # decBuf[d] /\ crcValid[c]
    BY <2>1
  <2>3. QED
    BY <2>1, <2>2
<1>3. ASSUME NEW d \in Decoders, DecDecode(d) PROVE Returning
  <2>1. /\ decPc' = [decPc EXCEPT ![d] = "write"]
        /\ \E valid \in BOOLEAN : crcValid' = [crcValid EXCEPT ![decBuf[d]] = valid]
        /\ retQ' = retQ /\ decBuf' = decBuf
    BY <1>3 DEF DecDecode, retVars
  <2>2. CASE c = decBuf[d]
    BY <2>1, <2>2
  <2>3. CASE c # decBuf[d]
    <3>1. crcValid[c]
      BY <2>1, <2>3
    <3>2. QED
      BY <2>1, <3>1
  <2>4. QED
    BY <2>2, <2>3
<1>4. ASSUME NEW d \in Decoders, DecWrite(d) PROVE Returning
  <2>1. /\ retQ' = Append(retQ, decBuf[d]) /\ crcValid' = crcValid
        /\ decPc' = [decPc EXCEPT ![d] = "notify"]
        /\ decBuf' = [decBuf EXCEPT ![d] = NoBuffer]
        /\ decBuf[d] \in Buffers
    BY <1>4 DEF DecWrite, Return!Write, HandsOK, Working, bufferVars
  <2>2. decBuf[d] \notin ToSet(retQ)
    BY DEF OneOwner, Held
  <2>3. ToSet(retQ') = ToSet(retQ) \cup {decBuf[d]}
    BY <2>1, <2>2, AddLast DEF OneOwner
  <2>4. QED
    BY <2>1, <2>3
<1>5. ASSUME NEW d \in Decoders, DecRead(d) PROVE Returning
  <2>1. /\ decPc[d] = "read" /\ decPc' = [decPc EXCEPT ![d] = "prepare"]
        /\ \E b \in Buffers : decBuf' = [decBuf EXCEPT ![d] = b]
        /\ retQ' = retQ /\ crcValid' = crcValid
    BY <1>5 DEF DecRead, retVars, bufferVars
  <2>2. QED
    BY <2>1
<1>6. ASSUME NEW d \in Decoders, DecBlock(d) \/ DecNotify(d) PROVE Returning
  <2>1. /\ retQ' = retQ /\ crcValid' = crcValid /\ decBuf' = decBuf
        /\ \/ decPc' = decPc
           \/ decPc[d] = "notify" /\ decPc' = [decPc EXCEPT ![d] = "read"]
    BY <1>6 DEF DecBlock, DecNotify, Return!NotifyOne, retVars, decVars, bufferVars
  <2>2. QED
    BY <2>1
<1>7. CASE \/ SyncSearch \/ SyncDeliver \/ SyncBlock \/ SyncDrop \/ SyncWrite
           \/ SyncNotify \/ SpuriousWakeup \/ UNCHANGED vars
  <2>1. UNCHANGED <<retQ, crcValid, decBuf, decPc>>
    BY <1>7 DEF SyncSearch, SyncDeliver, SyncBlock, SyncDrop, SyncWrite, SyncNotify,
                SpuriousWakeup, Return!Block, Return!ReadNull, Return!qvars,
                Return!SpuriousWakeup, retVars, decVars, bufferVars, vars
  <2>2. QED
    BY <2>1
<1>8. QED
  BY <1>1, <1>2, <1>3, <1>4, <1>5, <1>6, <1>7 DEF Next, DecLoop

(***************************************************************************)
(* What a decoder decodes with: while it decodes, nobody else can write the *)
(* stamp of its buffer, because the synchronizer stamps only a buffer that  *)
(* was in the return queue.                                                 *)
(***************************************************************************)
LEMMA StampStep == OwnInv /\ DataTypes /\ DecodesAsStamped /\ [Next]_vars => DecodesAsStamped'
<1> SUFFICES ASSUME OwnInv, DataTypes, DecodesAsStamped, [Next]_vars,
                    NEW e \in Decoders, decPc'[e] = "decode"
             PROVE  /\ decConfig'[e] = stamp'[decBuf'[e]].cfg
                    /\ decMaps'[e] \in {<<0, 0>>, <<2 * stamp'[decBuf'[e]].sfn,
                                                   2 * stamp'[decBuf'[e]].sfn + 1>>}
  BY DEF DecodesAsStamped
<1> DEFINE AsStamped == /\ decConfig'[e] = stamp'[decBuf'[e]].cfg
                        /\ decMaps'[e] \in {<<0, 0>>, <<2 * stamp'[decBuf'[e]].sfn,
                                                       2 * stamp'[decBuf'[e]].sfn + 1>>}
<1> USE DEF OwnInv, OwnTypes, DataTypes, DecTypes, BufferTypes, DecodesAsStamped
<1>1. ASSUME decPc[e] = "decode", decBuf'[e] = decBuf[e], decConfig'[e] = decConfig[e],
             decMaps'[e] = decMaps[e], stamp'[decBuf[e]] = stamp[decBuf[e]]
      PROVE  AsStamped
  BY <1>1
<1>2. CASE SyncRead
  <2>1. PICK b \in Buffers : /\ retQ # <<>> /\ b = Head(retQ)
                             /\ stamp' = [stamp EXCEPT ![b] = [cfg |-> config, sfn |-> subframe]]
    BY <1>2 DEF SyncRead, Return!Read
  <2>2. /\ decPc[e] = "decode" /\ decBuf'[e] = decBuf[e]
        /\ decConfig'[e] = decConfig[e] /\ decMaps'[e] = decMaps[e]
    BY <1>2 DEF SyncRead, decVars
  <2>3. b # decBuf[e]
    BY <2>1, TakeHead DEF OneOwner, Held
  <2>4. QED
    BY <1>1, <2>1, <2>2, <2>3, <2>2 DEF HandsOK, Working
<1>3. ASSUME NEW d \in Decoders, DecPrepare(d) PROVE AsStamped
  <2>1. CASE d # e
    BY <1>1, <1>3, <2>1 DEF DecPrepare
  <2>2. CASE d = e
    BY <1>3, <2>2 DEF DecPrepare, IdChange
  <2>3. QED
    BY <2>1, <2>2
<1>4. ASSUME NEW d \in Decoders, DecRead(d) \/ DecDecode(d) \/ DecWrite(d)
      PROVE  AsStamped
  BY <1>1, <1>4 DEF DecRead, DecDecode, DecWrite, bufferVars
<1>5. ASSUME NEW d \in Decoders, DecBlock(d) \/ DecNotify(d) PROVE AsStamped
  BY <1>1, <1>5 DEF DecBlock, DecNotify, decVars, bufferVars
<1>6. CASE \/ SyncSearch \/ SyncDeliver \/ SyncBlock \/ SyncDrop \/ SyncWrite
           \/ SyncNotify \/ SpuriousWakeup \/ UNCHANGED vars
  BY <1>1, <1>6 DEF SyncSearch, SyncDeliver, SyncBlock, SyncDrop, SyncWrite, SyncNotify,
                    SpuriousWakeup, decVars, bufferVars, vars
<1>7. QED
  BY <1>2, <1>3, <1>4, <1>5, <1>6 DEF Next, DecLoop

-----------------------------------------------------------------------------
(***************************************************************************)
(* The frequency feedback.  A buffer is late when the next offset that the  *)
(* synchronizer reads from it will not be of the present frequency: the     *)
(* offset is already there, or still to be measured on the samples.  What   *)
(* the window has taken in, what is late, and what the lag can still make   *)
(* late never exceed the buffers and the lag together.                      *)
(***************************************************************************)
Measured(b) ==
  \/ b \in ToSet(retQ)
  \/ \E d \in Decoders : decBuf[d] = b /\ decPc[d] = "write"

Late ==
  {b \in Buffers : IF Measured(b) THEN freqOffset[b] # "current"
                                  ELSE samples[b] # "current"}

StaleBudget ==
  ~retuned => window.other + Cardinality(Late) + lag <= Cardinality(Buffers) + Lag

\* The sets of buffers that are counted are finite.
LEMMA BuffersFinite ==
  /\ Cardinality(Buffers) \in Nat
  /\ \A S \in SUBSET Buffers : /\ IsFiniteSet(S) /\ Cardinality(S) \in Nat
                                /\ Cardinality(S) <= Cardinality(Buffers)
  BY PipelineAssumption, FS_Subset, FS_CardinalityType

\* Where a buffer's offset is, and so whether it is late, does not change with
\* the steps of a decoder.
LEMMA DecKeepsLate ==
  ASSUME OwnInv, DataTypes, NEW d \in Decoders, DecLoop(d)
  PROVE  Late' = Late
<1> USE DEF OwnInv, OwnTypes, DataTypes, BufferTypes
<1>1. SUFFICES ASSUME NEW c \in Buffers
               PROVE  (IF Measured(c) THEN freqOffset[c] # "current"
                                      ELSE samples[c] # "current")
                      <=> (IF Measured(c)' THEN freqOffset'[c] # "current"
                                           ELSE samples'[c] # "current")
  BY DEF Late
<1>2. CASE DecRead(d)
  <2>1. PICK b \in Buffers : /\ b \in ToSet(pdschQ) /\ decBuf' = [decBuf EXCEPT ![d] = b]
    BY <1>2, TakeHead DEF DecRead, Pdsch!Read, OneOwner
  <2>2. /\ retQ' = retQ /\ freqOffset' = freqOffset /\ samples' = samples
        /\ decPc[d] = "read" /\ decPc' = [decPc EXCEPT ![d] = "prepare"]
    BY <1>2 DEF DecRead, retVars, bufferVars
  <2>3. Measured(c)' <=> Measured(c)
    BY <2>1, <2>2 DEF Measured
  <2>4. QED
    BY <2>2, <2>3
<1>3. CASE DecBlock(d) \/ DecNotify(d)
  <2>1. /\ retQ' = retQ /\ freqOffset' = freqOffset /\ samples' = samples
        /\ decBuf' = decBuf
        /\ \/ decPc' = decPc
           \/ decPc[d] = "notify" /\ decPc' = [decPc EXCEPT ![d] = "read"]
    BY <1>3 DEF DecBlock, DecNotify, Return!NotifyOne, retVars, decVars, bufferVars
  <2>2. Measured(c)' <=> Measured(c)
    BY <2>1 DEF Measured
  <2>3. QED
    BY <2>1, <2>2
<1>4. CASE DecPrepare(d)
  <2>1. /\ retQ' = retQ /\ samples' = samples /\ decBuf' = decBuf
        /\ decPc[d] = "prepare" /\ decPc' = [decPc EXCEPT ![d] = "decode"]
        /\ freqOffset' = [freqOffset EXCEPT ![decBuf[d]] = "zero"]
    BY <1>4 DEF DecPrepare, retVars
  <2>2. Measured(c)' <=> Measured(c)
    BY <2>1 DEF Measured
  <2>3. decBuf[d] \in Buffers /\ decBuf[d] # NoBuffer
    BY <2>1, PipelineAssumption DEF HandsOK, Working
  <2>4. ~Measured(decBuf[d])
    BY <2>1, <2>3 DEF Measured, OneOwner, Held
  <2>5. QED
    BY <2>1, <2>2, <2>3, <2>4
<1>5. CASE DecDecode(d)
  <2>1. /\ retQ' = retQ /\ samples' = samples /\ decBuf' = decBuf
        /\ decPc[d] = "decode" /\ decPc' = [decPc EXCEPT ![d] = "write"]
        /\ freqOffset' = [freqOffset EXCEPT ![decBuf[d]] = samples[decBuf[d]]]
    BY <1>5 DEF DecDecode, retVars
  <2>2. decBuf[d] \in Buffers /\ decBuf[d] # NoBuffer
    BY <2>1, PipelineAssumption DEF HandsOK, Working
  <2>3. ~Measured(decBuf[d]) /\ Measured(decBuf[d])'
    BY <2>1, <2>2 DEF Measured, OneOwner, Held
  <2>4. c # decBuf[d] => (Measured(c)' <=> Measured(c))
    BY <2>1 DEF Measured
  <2>5. QED
    BY <2>1, <2>2, <2>3, <2>4
<1>6. CASE DecWrite(d)
  <2>1. /\ retQ' = Append(retQ, decBuf[d]) /\ freqOffset' = freqOffset
        /\ samples' = samples /\ decPc[d] = "write"
        /\ decPc' = [decPc EXCEPT ![d] = "notify"]
        /\ decBuf' = [decBuf EXCEPT ![d] = NoBuffer]
        /\ decBuf[d] \in Buffers
    BY <1>6 DEF DecWrite, Return!Write, HandsOK, Working, bufferVars
  <2>2. decBuf[d] \notin ToSet(retQ)
    BY DEF OneOwner, Held
  <2>3. ToSet(retQ') = ToSet(retQ) \cup {decBuf[d]}
    BY <2>1, <2>2, AddLast DEF OneOwner
  <2>4. Measured(c)' <=> Measured(c)
    BY <2>1, <2>3 DEF Measured
  <2>5. QED
    BY <2>1, <2>4
<1>7. QED
  BY <1>2, <1>3, <1>4, <1>5, <1>6 DEF DecLoop

\* The step that matters: the offset of b goes into the window, and b goes out
\* with new samples, which are late only as long as there is lag.
LEMMA ReadKeepsBudget ==
  ASSUME OwnInv, DataTypes, StaleBudget, SyncRead
  PROVE  StaleBudget'
<1> USE DEF OwnInv, OwnTypes, DataTypes, BufferTypes
<1> DEFINE n == Cardinality(Buffers)
<1>1. PICK b \in Buffers :
        /\ retQ # <<>> /\ b = Head(retQ) /\ retQ' = Tail(retQ)
        /\ LET w == Pushed(freqOffset[b])
               s == [samples EXCEPT ![b] = IF lag > 0 THEN "stale" ELSE "current"]
           IN \/ window' = [current |-> 0, other |-> 0] /\ lag' = Lag
              \/ /\ window' = w /\ lag' = LessLag /\ samples' = s
                 /\ retuned' = retuned /\ freqOffset' = freqOffset
  BY DEF SyncRead, Return!Read
<1>2. /\ Late \in SUBSET Buffers /\ Late' \in SUBSET Buffers
      /\ IsFiniteSet(Late) /\ Cardinality(Late) \in Nat
      /\ Cardinality(Late') \in Nat /\ Cardinality(Late') <= n /\ n \in Nat
  <2>1. Late \in SUBSET Buffers /\ Late' \in SUBSET Buffers
    BY DEF Late
  <2>2. QED
    BY <2>1, BuffersFinite
<1>3. CASE window' = [current |-> 0, other |-> 0] /\ lag' = Lag
  BY <1>2, <1>3, PipelineAssumption DEF StaleBudget
<1>4. CASE /\ window' = Pushed(freqOffset[b]) /\ lag' = LessLag
           /\ samples' = [samples EXCEPT ![b] = IF lag > 0 THEN "stale" ELSE "current"]
           /\ retuned' = retuned /\ freqOffset' = freqOffset
  <2>1. /\ ToSet(retQ') = ToSet(retQ) \ {b} /\ b \in ToSet(retQ)
        /\ decBuf' = decBuf /\ decPc' = decPc
    BY <1>1, TakeHead DEF SyncRead, OneOwner, decVars
  <2>2. Measured(b) /\ ~Measured(b)'
    BY <2>1 DEF Measured, OneOwner, Held
  <2>3. \A c \in Buffers \ {b} : Measured(c)' <=> Measured(c)
    BY <2>1 DEF Measured
  <2>4. Late' = IF lag > 0 THEN Late \cup {b} ELSE Late \ {b}
    BY <1>4, <2>2, <2>3 DEF Late, SyncTypes
  <2>5. b \in Late <=> freqOffset[b] # "current"
    BY <2>2 DEF Late
  <2>6. /\ Cardinality(Late \cup {b}) = IF b \in Late THEN Cardinality(Late)
                                                     ELSE Cardinality(Late) + 1
        /\ Cardinality(Late \ {b}) = IF b \in Late THEN Cardinality(Late) - 1
                                                   ELSE Cardinality(Late)
    BY <1>2, FS_AddElement, FS_RemoveElement
  <2>7. window'.other = IF b \in Late THEN window.other + 1 ELSE window.other
    BY <1>4, <2>5, PushedType
  <2>8. /\ lag \in Nat /\ Lag \in Nat /\ window.other \in Nat
        /\ lag' = IF lag > 0 THEN lag - 1 ELSE 0
    BY <1>4, PipelineAssumption DEF SyncTypes, LessLag
  <2>9. CASE lag > 0
    <3>1. Cardinality(Late') = IF b \in Late THEN Cardinality(Late) ELSE Cardinality(Late) + 1
      BY <2>4, <2>6, <2>9
    <3>2. Cardinality(Late) \in Nat
      BY <1>2
    <3>3. window'.other + Cardinality(Late') + lag' = window.other + Cardinality(Late) + lag
      <4>1. lag' = lag - 1
        BY <2>8, <2>9
      <4>2. CASE b \in Late
        BY <2>7, <2>8, <3>1, <3>2, <4>1, <4>2
      <4>3. CASE b \notin Late
        BY <2>7, <2>8, <3>1, <3>2, <4>1, <4>3
      <4>4. QED
        BY <4>2, <4>3
    <3>4. QED
      BY <1>4, <3>3 DEF StaleBudget
  <2>10. CASE ~(lag > 0)
    <3>1. Cardinality(Late') = IF b \in Late THEN Cardinality(Late) - 1 ELSE Cardinality(Late)
      BY <2>4, <2>6, <2>10
    <3>2. Cardinality(Late) \in Nat
      BY <1>2
    <3>3. window'.other + Cardinality(Late') + lag' = window.other + Cardinality(Late) + lag
      <4>1. lag = 0 /\ lag' = 0
        BY <2>8, <2>10
      <4>2. CASE b \in Late
        BY <2>7, <2>8, <3>1, <3>2, <4>1, <4>2
      <4>3. CASE b \notin Late
        BY <2>7, <2>8, <3>1, <3>2, <4>1, <4>3
      <4>4. QED
        BY <4>2, <4>3
    <3>4. QED
      BY <1>4, <3>3 DEF StaleBudget
  <2>11. QED
    BY <2>9, <2>10
<1>5. QED
  BY <1>1, <1>3, <1>4

\* Every step keeps the budget of old measurements.
LEMMA BudgetStep ==
  OwnInv /\ DataTypes /\ StaleBudget /\ [Next]_vars => StaleBudget'
<1> SUFFICES ASSUME OwnInv, DataTypes, StaleBudget, [Next]_vars PROVE StaleBudget'
  OBVIOUS
<1>1. /\ Cardinality(Late) \in Nat /\ Cardinality(Buffers) \in Nat
      /\ lag \in Nat /\ Lag \in Nat /\ window.other \in Nat
  <2>1. Late \in SUBSET Buffers
    BY DEF Late
  <2>2. QED
    BY <2>1, BuffersFinite, PipelineAssumption DEF DataTypes, SyncTypes
<1>2. ASSUME UNCHANGED <<retQ, freqOffset, samples, decBuf, decPc, window, retuned>>,
             lag' = lag \/ lag' = LessLag
      PROVE  StaleBudget'
  <2>1. Late' = Late
    BY <1>2 DEF Late, Measured
  <2>2. lag' <= lag /\ lag' \in Nat
    BY <1>1, <1>2 DEF LessLag
  <2>3. QED
    BY <1>1, <1>2, <2>1, <2>2 DEF StaleBudget
<1>3. CASE SyncSearch
  <2>1. CASE retuned'
    BY <2>1 DEF StaleBudget
  <2>2. CASE ~retuned'
    BY <1>2, <1>3, <2>2 DEF SyncSearch, retVars, decVars
  <2>3. QED
    BY <2>1, <2>2
<1>4. CASE SyncRead
  BY <1>4, ReadKeepsBudget
<1>5. CASE SyncDeliver \/ SyncBlock \/ SyncDrop \/ SyncWrite \/ SyncNotify
  BY <1>2, <1>5 DEF SyncDeliver, SyncBlock, SyncDrop, SyncWrite, SyncNotify,
                    Return!Block, Return!ReadNull, Return!qvars, retVars, syncVars,
                    decVars, bufferVars
<1>6. ASSUME NEW d \in Decoders, DecLoop(d) PROVE StaleBudget'
  <2>1. Late' = Late
    BY <1>6, DecKeepsLate
  <2>2. UNCHANGED <<window, lag, retuned>>
    BY <1>6 DEF DecLoop, DecRead, DecBlock, DecPrepare, DecDecode, DecWrite,
                DecNotify, syncVars
  <2>3. QED
    BY <2>1, <2>2 DEF StaleBudget
<1>7. CASE SpuriousWakeup \/ UNCHANGED vars
  BY <1>2, <1>7 DEF SpuriousWakeup, Return!SpuriousWakeup, retVars, syncVars,
                    decVars, bufferVars, vars
<1>8. QED
  BY <1>3, <1>4, <1>5, <1>6, <1>7 DEF Next

-----------------------------------------------------------------------------
(***************************************************************************)
(* Together.                                                                *)
(***************************************************************************)
PipelineInv ==
  OwnInv /\ DataTypes /\ CrcCountedOnce /\ DecodesAsStamped /\ StaleBudget

(***************************************************************************)
(* The whole inductive invariant: owners, types, flags, stamps and the      *)
(* budget of old measurements.                                              *)
(***************************************************************************)
THEOREM PipelineInvariant == Spec => []PipelineInv
<1>1. Init => DataTypes /\ CrcCountedOnce /\ DecodesAsStamped /\ StaleBudget
  <2> SUFFICES ASSUME Init
               PROVE  DataTypes /\ CrcCountedOnce /\ DecodesAsStamped /\ StaleBudget
    OBVIOUS
  <2>1. SyncTypes
    BY PipelineAssumption DEF Init, SyncTypes, Subframes
  <2>2. DecTypes
    BY DEF Init, DecTypes
  <2>3. BufferTypes
    BY PipelineAssumption DEF Init, BufferTypes, Stamps, Subframes, Offsets
  <2>4. CrcCountedOnce /\ DecodesAsStamped
    BY DEF Init, CrcCountedOnce, DecodesAsStamped
  <2>5. Late \in SUBSET Buffers
    BY DEF Late
  <2>6. StaleBudget
    BY <2>5, BuffersFinite, PipelineAssumption DEF Init, StaleBudget
  <2>7. QED
    BY <2>1, <2>2, <2>3, <2>4, <2>6 DEF DataTypes
<1>2. PipelineInv /\ [Next]_vars => PipelineInv'
  BY OwnStep, DataStep, CrcStep, StampStep, BudgetStep DEF PipelineInv
<1>3. Init => OwnInv
  BY OwnInit
<1>4. QED
  BY <1>1, <1>2, <1>3, PTL DEF Spec, PipelineInv

(***************************************************************************)
(* A buffer's CRC flag never outlives the subframe it belongs to            *)
(* (SynchronizerPDSCH.cpp:108-112, DecoderPDSCH.cpp:135).                   *)
(***************************************************************************)
THEOREM CrcAlwaysCountedOnce == Spec => []CrcCountedOnce
<1>1. PipelineInv => CrcCountedOnce
  BY DEF PipelineInv
<1>2. QED
  BY <1>1, PipelineInvariant, PTL

(***************************************************************************)
(* A decoder decodes with the parameters stamped on its buffer              *)
(* (DecoderPDSCH.cpp:106-136).                                              *)
(***************************************************************************)
THEOREM FeedbackIsOfItsSubframe == Spec => []DecodesAsStamped
<1>1. PipelineInv => DecodesAsStamped
  BY DEF PipelineInv
<1>2. QED
  BY <1>1, PipelineInvariant, PTL

(***************************************************************************)
(* The averager never takes in more measurements of another frequency than  *)
(* there are buffers and subframes of lag.                                  *)
(***************************************************************************)
THEOREM StaleAlwaysBounded == Spec => []StaleBounded
<1>1. PipelineInv => StaleBounded
  <2>1. Late \in SUBSET Buffers
    BY DEF Late
  <2>2. QED
    BY <2>1, BuffersFinite, PipelineAssumption
       DEF PipelineInv, StaleBudget, StaleBounded, DataTypes, SyncTypes
<1>2. QED
  BY <1>1, PipelineInvariant, PTL

-----------------------------------------------------------------------------
(***************************************************************************)
(* The two queues inside the pipeline: what module BufferQueueProofs proves *)
(* of a queue alone holds of both, for any number of decoders and buffers,  *)
(* because every step of a thread is one operation on at most one of them.  *)
(***************************************************************************)
\* The queues once more, with the lemmas about them.
ReturnQ == INSTANCE BufferQueueProofs WITH
  Readers <- {Sync}, Writers <- Decoders, Items <- Buffers,
  MaxLen <- Cardinality(Buffers), q <- retQ,
  waiting <- retWaiting, woken <- retWoken, notifying <- retNotifying

PdschQ == INSTANCE BufferQueueProofs WITH
  Readers <- Decoders, Writers <- {Sync}, Items <- Buffers,
  MaxLen <- Cardinality(Buffers), q <- pdschQ,
  waiting <- pdschWaiting, woken <- pdschWoken, notifying <- pdschNotifying

QueuesOK == ReturnQ!QInv /\ PdschQ!QInv

LEMMA QueueAssumptions ==
  /\ ReturnQ!IsFiniteSet({Sync}) /\ ReturnQ!IsFiniteSet(Decoders)
  /\ PdschQ!IsFiniteSet({Sync}) /\ PdschQ!IsFiniteSet(Decoders)
  /\ Cardinality(Buffers) \in Nat
<1>1. IsFiniteSet({Sync}) /\ IsFiniteSet(Decoders) /\ Cardinality(Buffers) \in Nat
  BY PipelineAssumption, FS_CardinalityType, FS_Singleton
<1>2. QED
  BY <1>1 DEF IsFiniteSet, ReturnQ!IsFiniteSet, PdschQ!IsFiniteSet

(***************************************************************************)
(* The return queue: read by the synchronizer, written by the decoders.     *)
(***************************************************************************)
LEMMA ReturnOperations ==
  ASSUME ReturnQ!QInv,
         \/ \E b \in Buffers : Return!Read(Sync, b)
         \/ Return!Block(Sync) \/ Return!ReadNull(Sync)
         \/ \E d \in Decoders, b \in Buffers : Return!Write(d, b)
         \/ \E d \in Decoders : Return!NotifyOne(d)
         \/ Return!SpuriousWakeup(Sync)
         \/ UNCHANGED retVars
  PROVE  ReturnQ!QInv'
<1> USE QueueAssumptions
      DEF ReturnQ!QInv, ReturnQ!TypeOK, ReturnQ!WokenIsAwake, ReturnQ!NoLostWakeup
<1>1. ASSUME NEW b \in Buffers, Return!Read(Sync, b) PROVE ReturnQ!QInv'
  BY <1>1, ReturnQ!ReadPreserves DEF Return!Read, ReturnQ!Read
<1>2. CASE Return!Block(Sync)
  BY <1>2, ReturnQ!BlockPreserves DEF Return!Block, ReturnQ!Block
<1>3. CASE Return!ReadNull(Sync)
  BY <1>3 DEF Return!ReadNull, Return!qvars
<1>4. ASSUME NEW d \in Decoders, NEW b \in Buffers, Return!Write(d, b)
      PROVE  ReturnQ!QInv'
  BY <1>4, ReturnQ!WritePreserves DEF Return!Write, ReturnQ!Write
<1>5. ASSUME NEW d \in Decoders, Return!NotifyOne(d) PROVE ReturnQ!QInv'
  BY <1>5, ReturnQ!NotifyOnePreserves DEF Return!NotifyOne, ReturnQ!NotifyOne
<1>6. CASE Return!SpuriousWakeup(Sync)
  BY <1>6, ReturnQ!SpuriousWakeupPreserves
     DEF Return!SpuriousWakeup, ReturnQ!SpuriousWakeup
<1>7. CASE UNCHANGED retVars
  BY <1>7 DEF retVars
<1>8. QED
  BY <1>1, <1>2, <1>3, <1>4, <1>5, <1>6, <1>7

(***************************************************************************)
(* The queue of the decoders: written by the synchronizer, read by all.     *)
(***************************************************************************)
LEMMA PdschOperations ==
  ASSUME PdschQ!QInv,
         \/ \E d \in Decoders, b \in Buffers : Pdsch!Read(d, b)
         \/ \E d \in Decoders : Pdsch!Block(d)
         \/ \E b \in Buffers : Pdsch!Write(Sync, b)
         \/ Pdsch!NotifyOne(Sync)
         \/ \E d \in Decoders : Pdsch!SpuriousWakeup(d)
         \/ UNCHANGED pdschVars
  PROVE  PdschQ!QInv'
<1> USE QueueAssumptions
      DEF PdschQ!QInv, PdschQ!TypeOK, PdschQ!WokenIsAwake, PdschQ!NoLostWakeup
<1>1. ASSUME NEW d \in Decoders, NEW b \in Buffers, Pdsch!Read(d, b)
      PROVE  PdschQ!QInv'
  BY <1>1, PdschQ!ReadPreserves DEF Pdsch!Read, PdschQ!Read
<1>2. ASSUME NEW d \in Decoders, Pdsch!Block(d) PROVE PdschQ!QInv'
  BY <1>2, PdschQ!BlockPreserves DEF Pdsch!Block, PdschQ!Block
<1>3. ASSUME NEW b \in Buffers, Pdsch!Write(Sync, b) PROVE PdschQ!QInv'
  BY <1>3, PdschQ!WritePreserves DEF Pdsch!Write, PdschQ!Write
<1>4. CASE Pdsch!NotifyOne(Sync)
  BY <1>4, PdschQ!NotifyOnePreserves DEF Pdsch!NotifyOne, PdschQ!NotifyOne
<1>5. ASSUME NEW d \in Decoders, Pdsch!SpuriousWakeup(d) PROVE PdschQ!QInv'
  BY <1>5, PdschQ!SpuriousWakeupPreserves
     DEF Pdsch!SpuriousWakeup, PdschQ!SpuriousWakeup
<1>6. CASE UNCHANGED pdschVars
  BY <1>6 DEF pdschVars
<1>7. QED
  BY <1>1, <1>2, <1>3, <1>4, <1>5, <1>6

-----------------------------------------------------------------------------
(***************************************************************************)
(* Every step of a thread is one operation on at most one of the queues.    *)
(***************************************************************************)
LEMMA QueuesStep ==
  ASSUME QueuesOK, OwnInv, [Next]_vars
  PROVE  QueuesOK'
<1> USE ReturnOperations, PdschOperations DEF QueuesOK
<1>1. CASE UNCHANGED <<retVars, pdschVars>>
  BY <1>1
<1>2. CASE SyncSearch \/ SyncDeliver
  BY <1>1, <1>2 DEF SyncSearch, SyncDeliver
<1>3. CASE SyncRead \/ SyncBlock \/ SyncDrop
  <2>1. /\ UNCHANGED pdschVars
        /\ \/ \E b \in Buffers : Return!Read(Sync, b)
           \/ Return!Block(Sync) \/ Return!ReadNull(Sync)
    BY <1>3 DEF SyncRead, SyncBlock, SyncDrop
  <2>2. QED
    BY <2>1
<1>4. CASE SyncWrite \/ SyncNotify
  <2>1. /\ UNCHANGED retVars
        /\ (\E b \in Buffers : Pdsch!Write(Sync, b)) \/ Pdsch!NotifyOne(Sync)
    BY <1>4 DEF SyncWrite, SyncNotify, OwnInv, HandsOK
  <2>2. QED
    BY <2>1
<1>5. ASSUME NEW d \in Decoders, DecLoop(d) PROVE QueuesOK'
  <2>1. CASE DecRead(d) \/ DecBlock(d)
    <3>1. UNCHANGED retVars /\ ((\E b \in Buffers : Pdsch!Read(d, b)) \/ Pdsch!Block(d))
      BY <2>1 DEF DecRead, DecBlock
    <3>2. QED
      BY <3>1
  <2>2. CASE DecPrepare(d) \/ DecDecode(d)
    BY <1>1, <2>2 DEF DecPrepare, DecDecode
  <2>3. CASE DecWrite(d) \/ DecNotify(d)
    <3>1. /\ UNCHANGED pdschVars
          /\ (\E b \in Buffers : Return!Write(d, b)) \/ Return!NotifyOne(d)
      BY <2>3 DEF DecWrite, DecNotify, OwnInv, HandsOK, Working
    <3>2. QED
      BY <3>1
  <2>4. QED
    BY <1>5, <2>1, <2>2, <2>3 DEF DecLoop
<1>6. CASE SpuriousWakeup
  BY <1>6 DEF SpuriousWakeup
<1>7. QED
  BY <1>1, <1>2, <1>3, <1>4, <1>5, <1>6 DEF Next, vars

LEMMA QueuesInit == Init => QueuesOK
<1> SUFFICES ASSUME Init PROVE QueuesOK
  OBVIOUS
<1>1. SetToSeq(Buffers) \in Seq(Buffers) /\ <<>> \in Seq(Buffers)
  BY Priming, PipelineAssumption
<1>2. Return!InitWith(SetToSeq(Buffers)) /\ Pdsch!InitWith(<<>>)
  BY DEF Init
<1>3. QED
  BY <1>1, <1>2
     DEF QueuesOK, Return!InitWith, Pdsch!InitWith,
         ReturnQ!QInv, ReturnQ!TypeOK, ReturnQ!WokenIsAwake, ReturnQ!NoLostWakeup,
         PdschQ!QInv, PdschQ!TypeOK, PdschQ!WokenIsAwake, PdschQ!NoLostWakeup

THEOREM QueuesInvariant == Spec => []QueuesOK
  BY QueuesInit, QueuesStep, PipelineOwnership, PTL DEF Spec

(***************************************************************************)
(* Neither the synchronizer nor a decoder sleeps on a queue that has        *)
(* something for it, with any number of decoders racing for the buffers and *)
(* notifying after the unlock (BufferQueue.cpp:29-55, DecoderPDSCH.cpp:     *)
(* 167-192, SynchronizerPDSCH.cpp:98-124).                                  *)
(***************************************************************************)
THEOREM NobodyEverSleepsOnWork == Spec => []NobodySleepsOnWork
<1>1. QueuesOK => NobodySleepsOnWork
  BY DEF QueuesOK, ReturnQ!QInv, PdschQ!QInv, NobodySleepsOnWork,
         ReturnQ!NoLostWakeup, Return!NoLostWakeup,
         PdschQ!NoLostWakeup, Pdsch!NoLostWakeup,
         ReturnQ!Cardinality, Return!Cardinality,
         PdschQ!Cardinality, Pdsch!Cardinality
<1>2. QED
  BY <1>1, QueuesInvariant, PTL

\* The one history variable that no other invariant types.
LEMMA RetunedType == Spec => [](retuned \in BOOLEAN)
<1>1. Init => retuned \in BOOLEAN
  BY DEF Init
<1>2. retuned \in BOOLEAN /\ [Next]_vars => (retuned \in BOOLEAN)'
  <2> SUFFICES ASSUME retuned \in BOOLEAN, [Next]_vars PROVE retuned' \in BOOLEAN
    OBVIOUS
  <2>1. CASE UNCHANGED syncVars
    BY <2>1 DEF syncVars
  <2>2. CASE SyncSearch
    BY <2>2 DEF SyncSearch
  <2>3. CASE SyncRead
    BY <2>3 DEF SyncRead
  <2>4. CASE SyncDeliver \/ SyncBlock \/ SyncDrop \/ SyncWrite \/ SyncNotify
    BY <2>1, <2>4 DEF SyncDeliver, SyncBlock, SyncDrop, SyncWrite, SyncNotify
  <2>5. ASSUME NEW d \in Decoders, DecLoop(d) PROVE UNCHANGED syncVars
    BY <2>5 DEF DecLoop, DecRead, DecBlock, DecPrepare, DecDecode, DecWrite, DecNotify
  <2>6. SpuriousWakeup => UNCHANGED syncVars
    BY DEF SpuriousWakeup
  <2>7. QED
    BY <2>1, <2>2, <2>3, <2>4, <2>5, <2>6 DEF Next, vars
<1>3. QED
  BY <1>1, <1>2, PTL DEF Spec

(***************************************************************************)
(* The types of the whole pipeline: queues, threads and buffers, and what   *)
(* is stamped and measured in them (LteBuffer.h, SynchronizerPDSCH.cpp:     *)
(* 98-124, DecoderPDSCH.cpp:106-192).                                       *)
(***************************************************************************)
THEOREM PipelineTypes == Spec => []TypeOK
<1>1. QueuesOK /\ OwnInv /\ DataTypes /\ retuned \in BOOLEAN => TypeOK
  <2> SUFFICES ASSUME QueuesOK, OwnInv, DataTypes, retuned \in BOOLEAN PROVE TypeOK
    OBVIOUS
  <2>1. Return!TypeOK /\ Pdsch!TypeOK
    BY DEF QueuesOK, ReturnQ!QInv, PdschQ!QInv, ReturnQ!TypeOK, Return!TypeOK,
           PdschQ!TypeOK, Pdsch!TypeOK
  <2>2. syncBuf \in Buffers \cup {NoBuffer}
    BY DEF OwnInv, HandsOK
  <2>3. QED
    BY Zenon, <2>1, <2>2
       DEF OwnInv, OwnTypes, DataTypes, SyncTypes, DecTypes, BufferTypes, TypeOK
<1>2. QED
  BY <1>1, QueuesInvariant, PipelineInvariant, RetunedType, PTL DEF PipelineInv

-----------------------------------------------------------------------------
(***************************************************************************)
(* The pipeline implements the dispatcher, for any number of buffers and    *)
(* decoders: every step of a thread is a step of the dispatcher or leaves   *)
(* the dispatcher's variables alone.                                        *)
(***************************************************************************)
\* The dispatcher's variables, as Dispatch maps them.
Stamped == [i \in 1 .. Len(pdschQ) |-> stamp[pdschQ[i]]]
Pending == Stamped \o (IF syncBuf = NoBuffer THEN <<>> ELSE <<stamp[syncBuf]>>)
Works   == [d \in Decoders |-> IF decBuf[d] = NoBuffer THEN NoBuffer
                               ELSE stamp[decBuf[d]]]

\* What the stamps of the queued buffers form, and the two forms of what is
\* pending.
StampedFacts ==
  /\ Stamped \in Seq(Stamps) /\ Len(Stamped) = Len(pdschQ)
  /\ \A i \in 1 .. Len(pdschQ) : /\ pdschQ[i] \in ToSet(pdschQ)
                                 /\ pdschQ[i] \in Buffers
                                 /\ Stamped[i] = stamp[pdschQ[i]]

PendingFacts ==
  /\ syncBuf = NoBuffer => Pending = Stamped
  /\ syncBuf \in Buffers => Pending = Append(Stamped, stamp[syncBuf])

\* The stamps of the queued buffers form a sequence of stamps.
LEMMA StampedType == OwnInv /\ DataTypes => StampedFacts
<1> SUFFICES ASSUME OwnInv, DataTypes PROVE StampedFacts
  OBVIOUS
<1>1. Len(pdschQ) \in Nat /\ DOMAIN pdschQ = 1 .. Len(pdschQ)
      /\ \A i \in 1 .. Len(pdschQ) : pdschQ[i] \in Buffers
  BY LenProperties DEF OwnInv, OwnTypes
<1>2. \A i \in 1 .. Len(pdschQ) : stamp[pdschQ[i]] \in Stamps
  BY <1>1 DEF DataTypes, BufferTypes
<1>3. Stamped \in Seq(Stamps) /\ Len(Stamped) = Len(pdschQ)
  BY <1>1, <1>2, IsASeq DEF Stamped
<1>4. QED
  BY <1>1, <1>3 DEF Stamped, StampedFacts, ToSet

\* What is pending, with and without a buffer in the synchronizer's hands.
LEMMA PendingForms == OwnInv /\ DataTypes => PendingFacts
<1> SUFFICES ASSUME OwnInv, DataTypes PROVE PendingFacts
  OBVIOUS
<1>1. Stamped \in Seq(Stamps)
  BY StampedType DEF StampedFacts
<1>2. CASE syncBuf = NoBuffer
  BY <1>1, <1>2, ConcatEmptySeq, PipelineAssumption DEF Pending, PendingFacts
<1>3. CASE syncBuf \in Buffers
  <2>1. stamp[syncBuf] \in Stamps /\ syncBuf # NoBuffer
    BY <1>3, PipelineAssumption DEF DataTypes, BufferTypes
  <2>2. QED
    BY <1>1, <1>3, <2>1, AppendIsConcat, PipelineAssumption DEF Pending, PendingFacts
<1>4. QED
  BY <1>2, <1>3 DEF PendingFacts

\* The same facts of the state after a step.
LEMMA FormsNext ==
  OwnInv' /\ DataTypes' => StampedFacts' /\ PendingFacts'
BY StampedType, PendingForms, PTL

\* The synchronizer's read of a buffer accepts a subframe.
LEMMA ReadAccepts ==
  ASSUME OwnInv, DataTypes, OwnInv', DataTypes', SyncRead
  PROVE  \E j \in Stamps : Dispatch!Accept(j)
<1> DEFINE j == [cfg |-> config, sfn |-> subframe]
<1>1. PICK b \in Buffers : /\ retQ # <<>> /\ b = Head(retQ) /\ retQ' = Tail(retQ)
                           /\ syncBuf' = b /\ stamp' = [stamp EXCEPT ![b] = j]
  BY DEF SyncRead, Return!Read
<1>2. /\ b \in ToSet(retQ) /\ Len(retQ') = Len(retQ) - 1 /\ Len(retQ) \in Nat
      /\ pdschQ' = pdschQ /\ decBuf' = decBuf /\ syncBuf = NoBuffer
  BY <1>1, TakeHead DEF SyncRead, OwnInv, OwnTypes, OneOwner, HandsOK, pdschVars, decVars
<1>3. j \in Stamps /\ stamp'[b] = j /\ \A c \in Buffers \ {b} : stamp'[c] = stamp[c]
  BY <1>1 DEF DataTypes, SyncTypes, BufferTypes, Stamps
<1>4. Len(retQ) > 0
  BY <1>1, <1>2 DEF OwnInv, OwnTypes
<1>5. Works' = Works
  <2>1. ASSUME NEW d \in Decoders, decBuf[d] # NoBuffer
        PROVE  stamp'[decBuf[d]] = stamp[decBuf[d]]
    BY <1>2, <1>3, <2>1 DEF OwnInv, OwnTypes, OneOwner, Held
  <2>2. QED
    BY <1>2, <2>1 DEF Works
<1>6. Stamped' = Stamped
  <2>1. \A i \in 1 .. Len(pdschQ) : pdschQ[i] # b
    BY <1>2, StampedType DEF OwnInv, OneOwner, StampedFacts
  <2>2. QED
    BY <1>2, <1>3, <2>1, StampedType DEF Stamped, StampedFacts
<1>7. Pending = Stamped
  BY <1>2, PendingForms DEF PendingFacts
<1>8. Pending' = Append(Stamped, j)
  BY <1>1, <1>3, <1>6, FormsNext DEF PendingFacts
<1>9. QED
  BY <1>2, <1>3, <1>4, <1>5, <1>7, <1>8
     DEF Dispatch!Accept, Pending, Stamped, Works

\* Its write moves the stamp from its hands to the queue: nothing changes.
LEMMA WriteStutters ==
  ASSUME OwnInv, DataTypes, OwnInv', DataTypes', SyncWrite
  PROVE  UNCHANGED Dispatch!dvars
<1>1. /\ pdschQ' = Append(pdschQ, syncBuf) /\ syncBuf' = NoBuffer
      /\ syncBuf \in Buffers /\ UNCHANGED <<retQ, decBuf, stamp>>
  BY DEF Pdsch!Write, SyncWrite, OwnInv, HandsOK, retVars, decVars, bufferVars
<1>2. Pending = Append(Stamped, stamp[syncBuf]) /\ Pending' = Stamped'
  BY <1>1, PendingForms, FormsNext DEF PendingFacts
<1>3. Stamped' = Append(Stamped, stamp[syncBuf])
  <2>1. /\ Len(pdschQ') = Len(pdschQ) + 1 /\ Len(pdschQ) \in Nat
        /\ \A i \in 1 .. Len(pdschQ) : pdschQ'[i] = pdschQ[i]
        /\ pdschQ'[Len(pdschQ) + 1] = syncBuf
    BY <1>1, AppendProperties, LenProperties DEF OwnInv, OwnTypes
  <2>2. stamp[syncBuf] \in Stamps
    BY <1>1 DEF DataTypes, BufferTypes
  <2>3. /\ Stamped \in Seq(Stamps) /\ Len(Stamped) = Len(pdschQ)
        /\ Stamped' \in Seq(Stamps) /\ Len(Stamped') = Len(pdschQ) + 1
        /\ \A i \in 1 .. Len(pdschQ) : Stamped[i] = stamp[pdschQ[i]]
        /\ \A i \in 1 .. Len(pdschQ) + 1 : Stamped'[i] = stamp[pdschQ'[i]]
    BY <1>1, <2>1, StampedType, FormsNext DEF StampedFacts
  <2>4. /\ Append(Stamped, stamp[syncBuf]) \in Seq(Stamps)
        /\ Len(Append(Stamped, stamp[syncBuf])) = Len(pdschQ) + 1
        /\ \A i \in 1 .. Len(pdschQ) : Append(Stamped, stamp[syncBuf])[i] = Stamped[i]
        /\ Append(Stamped, stamp[syncBuf])[Len(pdschQ) + 1] = stamp[syncBuf]
    BY <2>2, <2>3, AppendProperties
  <2>5. \A i \in 1 .. Len(pdschQ) + 1 :
          Stamped'[i] = Append(Stamped, stamp[syncBuf])[i]
    BY <2>1, <2>3, <2>4
  <2>6. QED
    BY <2>3, <2>4, <2>5, SeqEqual
<1>4. QED
  BY <1>1, <1>2, <1>3 DEF Dispatch!dvars, Pending, Stamped, Works

\* A decoder's read begins the oldest subframe pending.
LEMMA ReadBegins ==
  ASSUME OwnInv, DataTypes, OwnInv', DataTypes', NEW d \in Decoders, DecRead(d)
  PROVE  Dispatch!Begin(d)
<1>1. PICK b \in Buffers : /\ pdschQ # <<>> /\ b = Head(pdschQ)
                           /\ pdschQ' = Tail(pdschQ)
                           /\ decBuf' = [decBuf EXCEPT ![d] = b]
  BY DEF DecRead, Pdsch!Read
<1>2. /\ UNCHANGED <<retQ, syncBuf, stamp>> /\ decBuf[d] = NoBuffer /\ b # NoBuffer
  BY PipelineAssumption
     DEF DecRead, retVars, syncVars, bufferVars, OwnInv, HandsOK, Working
<1>3. Works[d] = NoBuffer /\ Works' = [Works EXCEPT ![d] = stamp[b]]
  BY <1>1, <1>2 DEF Works, OwnInv, OwnTypes
<1>4. Stamped # <<>> /\ Head(Stamped) = stamp[b] /\ Stamped' = Tail(Stamped)
  <2>1. /\ Len(pdschQ) \in Nat \ {0} /\ Len(pdschQ') = Len(pdschQ) - 1
        /\ \A i \in 1 .. Len(pdschQ) - 1 : pdschQ'[i] = pdschQ[i + 1]
        /\ b = pdschQ[1]
    BY <1>1, HeadTailProperties, LenProperties DEF OwnInv, OwnTypes
  <2>2. /\ Stamped \in Seq(Stamps) /\ Len(Stamped) = Len(pdschQ)
        /\ Stamped' \in Seq(Stamps) /\ Len(Stamped') = Len(pdschQ) - 1
        /\ \A i \in 1 .. Len(pdschQ) : Stamped[i] = stamp[pdschQ[i]]
        /\ \A i \in 1 .. Len(pdschQ) - 1 : Stamped'[i] = stamp[pdschQ'[i]]
    BY <1>2, <2>1, StampedType, FormsNext DEF StampedFacts
  <2>3. Stamped # <<>> /\ Head(Stamped) = stamp[b]
    BY <2>1, <2>2
  <2>4. /\ Tail(Stamped) \in Seq(Stamps) /\ Len(Tail(Stamped)) = Len(pdschQ) - 1
        /\ \A i \in 1 .. Len(pdschQ) - 1 : Tail(Stamped)[i] = Stamped[i + 1]
    BY <2>2, <2>3, HeadTailProperties
  <2>5. \A i \in 1 .. Len(pdschQ) - 1 : Stamped'[i] = Tail(Stamped)[i]
    <3>1. SUFFICES ASSUME NEW i \in 1 .. Len(pdschQ) - 1 PROVE Stamped'[i] = Tail(Stamped)[i]
      OBVIOUS
    <3>2. i + 1 \in 1 .. Len(pdschQ)
      BY <2>1
    <3>3. Stamped'[i] = stamp[pdschQ[i + 1]]
      BY <2>1, <2>2
    <3>4. QED
      BY <2>2, <2>4, <3>2, <3>3
  <2>6. Stamped' = Tail(Stamped)
    BY <2>2, <2>4, <2>5, SeqEqual
  <2>7. QED
    BY <2>3, <2>6
<1>5. Pending # <<>> /\ Head(Pending) = stamp[b] /\ Pending' = Tail(Pending)
  <2>1. CASE syncBuf = NoBuffer
    BY <1>2, <1>4, <2>1, PendingForms, FormsNext DEF PendingFacts
  <2>2. CASE syncBuf \in Buffers
    <3>1. /\ Pending = Append(Stamped, stamp[syncBuf])
          /\ Pending' = Append(Stamped', stamp[syncBuf])
      BY <1>2, <2>2, PendingForms, FormsNext DEF PendingFacts
    <3>2. Stamped \in Seq(Stamps) /\ stamp[syncBuf] \in Stamps
      BY <2>2, StampedType DEF StampedFacts, DataTypes, BufferTypes
    <3>3. Pending # <<>>
      BY <3>1, <3>2, AppendProperties
    <3>4. QED
      BY <1>4, <3>1, <3>2, <3>3, HeadTailAppend
  <2>3. QED
    BY <2>1, <2>2 DEF OwnInv, HandsOK
<1>6. QED
  BY <1>2, <1>3, <1>5 DEF Dispatch!Begin, Pending, Stamped, Works

\* A decoder's write finishes its subframe and returns the credit.
LEMMA WriteFinishes ==
  ASSUME OwnInv, DataTypes, OwnInv', DataTypes', NEW d \in Decoders, DecWrite(d)
  PROVE  Dispatch!Finish(d)
<1>1. /\ retQ' = Append(retQ, decBuf[d]) /\ UNCHANGED <<pdschQ, syncBuf, stamp>>
      /\ decBuf' = [decBuf EXCEPT ![d] = NoBuffer]
      /\ decBuf[d] \in Buffers /\ decBuf[d] # NoBuffer
  BY PipelineAssumption DEF DecWrite, Return!Write, OwnInv, HandsOK, Working,
                            pdschVars, syncVars, bufferVars
<1>2. stamp[decBuf[d]] \in Stamps
  BY <1>1 DEF DataTypes, BufferTypes
<1>3. Works[d] # NoBuffer
  BY <1>1, <1>2, NothingAssumption DEF Works
<1>4. Works' = [Works EXCEPT ![d] = NoBuffer]
  BY <1>1 DEF Works, OwnInv, OwnTypes
<1>5. Len(retQ') = Len(retQ) + 1
  BY <1>1, AppendProperties DEF OwnInv, OwnTypes
<1>6. QED
  BY <1>1, <1>3, <1>4, <1>5 DEF Dispatch!Finish, Pending, Stamped, Works

(***************************************************************************)
(* Every step is a step of the dispatcher, or none.                         *)
(***************************************************************************)
LEMMA StepRefines ==
  OwnInv /\ DataTypes /\ OwnInv' /\ DataTypes' /\ [Next]_vars
    => [Dispatch!Next]_(Dispatch!dvars)
<1> SUFFICES ASSUME OwnInv, DataTypes, OwnInv', DataTypes', [Next]_vars
             PROVE  Dispatch!Next \/ UNCHANGED Dispatch!dvars
  OBVIOUS
<1>1. ASSUME UNCHANGED <<retQ, pdschQ, syncBuf, decBuf, stamp>>
      PROVE  UNCHANGED Dispatch!dvars
  BY <1>1 DEF Dispatch!dvars
<1>2. CASE SyncRead
  BY <1>2, ReadAccepts DEF Dispatch!Next
<1>3. CASE SyncWrite
  BY <1>3, WriteStutters
<1>4. ASSUME NEW d \in Decoders, DecRead(d) PROVE Dispatch!Next
  BY <1>4, ReadBegins DEF Dispatch!Next
<1>5. ASSUME NEW d \in Decoders, DecWrite(d) PROVE Dispatch!Next
  BY <1>5, WriteFinishes DEF Dispatch!Next
<1>6. CASE SyncSearch \/ SyncDeliver \/ SyncBlock \/ SyncDrop \/ SyncNotify
  BY <1>1, <1>6 DEF SyncSearch, SyncDeliver, SyncBlock, SyncDrop, SyncNotify,
                    Return!Block, Return!ReadNull, Return!qvars, Pdsch!NotifyOne,
                    retVars, pdschVars, syncVars, decVars, bufferVars
<1>7. ASSUME NEW d \in Decoders, DecBlock(d) \/ DecPrepare(d) \/ DecDecode(d) \/ DecNotify(d)
      PROVE  UNCHANGED Dispatch!dvars
  BY <1>1, <1>7 DEF DecBlock, DecPrepare, DecDecode, DecNotify, Pdsch!Block,
                    Return!NotifyOne, retVars, pdschVars, syncVars, decVars, bufferVars
<1>8. CASE SpuriousWakeup \/ UNCHANGED vars
  BY <1>1, <1>8 DEF SpuriousWakeup, Return!SpuriousWakeup, Pdsch!SpuriousWakeup,
                    retVars, pdschVars, syncVars, decVars, bufferVars, vars
<1>9. QED
  BY <1>2, <1>3, <1>4, <1>5, <1>6, <1>7, <1>8 DEF Next, DecLoop

(***************************************************************************)
(* The pipeline is a dispatcher: subframes are accepted only for a free     *)
(* buffer, begun in order, each once and as it was stamped, and no buffer   *)
(* is lost.                                                                 *)
(***************************************************************************)
THEOREM PipelineImplementsDispatch == Spec => ImplementsDispatch
<1>1. Init => Dispatch!Init
  <2> SUFFICES ASSUME Init PROVE Dispatch!Init
    OBVIOUS
  <2>1. /\ pdschQ = <<>> /\ syncBuf = NoBuffer
        /\ decBuf = [d \in Decoders |-> NoBuffer]
        /\ Len(retQ) = Cardinality(Buffers)
    BY Priming, PipelineAssumption DEF Init, Return!InitWith, Pdsch!InitWith
  <2>2. Pending = <<>>
    BY <2>1 DEF Pending, Stamped
  <2>3. Works = [d \in Decoders |-> NoBuffer]
    BY <2>1 DEF Works
  <2>4. QED
    BY <2>1, <2>2, <2>3 DEF Dispatch!Init, Pending, Stamped, Works
<1>2. PipelineInv /\ PipelineInv' /\ [Next]_vars => [Dispatch!Next]_(Dispatch!dvars)
  BY StepRefines DEF PipelineInv
<1>3. QED
  BY <1>1, <1>2, PipelineInvariant, PTL DEF Spec, ImplementsDispatch, Dispatch!Spec
=============================================================================
