--------------------------- MODULE ConverterProofs ---------------------------
(***************************************************************************)
(* Proofs about module Converter, for any subframe, filter and corrections. *)
(***************************************************************************)
EXTENDS Converter, TLAPS

\* The subframe that begins at time t.
From(t) == [p \in Positions |-> t + p]

(***************************************************************************)
(* What the properties need: which subframe each buffer holds.  The raw     *)
(* samples are this tick's, a set flag means that they have been converted, *)
(* and the buffer that is swapped in holds the last tick's from the tick    *)
(* that decoded the MIB on, unless a tick was skipped.                      *)
(***************************************************************************)
TickTypes ==
  /\ want \in Int /\ shift \in Int
  /\ converted \in BOOLEAN

RawIsThisTick == pc # "pull" => raw = From(want)

CurIsThisTick == converted => pc # "pull" /\ cur = raw

InTick == pc \in {"drive", "deliver", "delivered"}

PrevIsLastTick ==
  mode = "pdsch" /\ ~skipped =>
    /\ InTick => prev = From(LastEnd - Len)
    /\ pc = "pull" => prev = From(want)

\* The tick that ends is the next one's last, unless it is about to be skipped.
EndsConverted ==
  mode = "pdsch" /\ pc \in {"end", "delivered"} => converted

DeliveredIsDelayed ==
  pc = "delivered" => converted /\ out = Delayed(prev, From(want))

DeliversInPdsch == pc \in {"deliver", "delivered"} => mode = "pdsch"

ConvInv ==
  /\ TickTypes /\ RawIsThisTick /\ CurIsThisTick /\ PrevIsLastTick
  /\ EndsConverted /\ DeliveredIsDelayed /\ DeliversInPdsch

\* Every action ends or begins a tick, or takes one part of it.
LEMMA GetBufferPreserves ==
  ASSUME ConvInv, NEW s \in Shifts, GetBuffer(s)
  PROVE  ConvInv'
<1>1. s \in Int /\ Len \in Int
  BY ConverterAssumption
<1>2. /\ pc = "pull" /\ pc' = "drive" /\ want' = want + Len + s /\ shift' = s
      /\ raw' = From(want') /\ prev' = prev /\ cur' = cur /\ mode' = mode
      /\ converted' = converted /\ skipped' = skipped
  BY DEF GetBuffer, From
<1>3. ~converted
  BY <1>2 DEF ConvInv, CurIsThisTick
<1>4. LastEnd' - Len = want
  BY <1>1, <1>2 DEF LastEnd, ConvInv, TickTypes
<1>5. PrevIsLastTick'
  BY <1>2, <1>4 DEF PrevIsLastTick, ConvInv, InTick
<1>6. TickTypes'
  BY <1>1, <1>2 DEF TickTypes, ConvInv
<1>7. QED
  BY <1>2, <1>3, <1>5, <1>6
     DEF ConvInv, RawIsThisTick, CurIsThisTick, EndsConverted, DeliveredIsDelayed,
         DeliversInPdsch

\* The part of a tick before the delivery converts the raw samples or leaves
\* them.
LEMMA DrivePreserves ==
  ASSUME ConvInv, Search \/ Wait \/ Acquire \/ Reopen \/ Check \/ NoCheck
  PROVE  ConvInv'
<1> USE DEF ConvInv, TickTypes, RawIsThisTick, CurIsThisTick, PrevIsLastTick, InTick,
            EndsConverted, DeliveredIsDelayed, DeliversInPdsch, LastEnd, ConvertPDSCH, buffers
<1>1. CASE Search
  BY <1>1 DEF Search
<1>2. CASE Wait
  BY <1>2 DEF Wait
<1>3. CASE Acquire
  BY <1>3 DEF Acquire
<1>4. CASE Reopen
  BY <1>4 DEF Reopen
<1>5. CASE Check
  BY <1>5 DEF Check
<1>6. CASE NoCheck
  BY <1>6 DEF NoCheck
<1>7. QED
  BY <1>1, <1>2, <1>3, <1>4, <1>5, <1>6

\* A delivery is made of the last tick's subframe and of this one's.
LEMMA DeliverPreserves ==
  ASSUME ConvInv, Deliver
  PROVE  ConvInv'
<1>1. /\ pc = "deliver" /\ pc' = "delivered" /\ converted' = TRUE
      /\ UNCHANGED <<mode, want, shift, skipped, raw, prev>>
      /\ out' = Delayed(prev, cur')
  BY DEF Deliver, ConvertPDSCH
<1>2. cur' = From(want) /\ raw = From(want)
  BY <1>1 DEF Deliver, ConvertPDSCH, ConvInv, RawIsThisTick, CurIsThisTick
<1>3. From(want)' = From(want)
  BY <1>1 DEF From
<1>4. Delayed(prev, From(want))' = Delayed(prev, From(want))
  BY <1>1, <1>3 DEF Delayed, HeadLen, Offset
<1>5. DeliveredIsDelayed'
  BY <1>1, <1>2, <1>3, <1>4 DEF DeliveredIsDelayed
<1>6. QED
  BY <1>1, <1>2, <1>3, <1>5
     DEF ConvInv, TickTypes, RawIsThisTick, CurIsThisTick, PrevIsLastTick, InTick,
         EndsConverted, DeliversInPdsch, LastEnd

\* A dropped subframe leaves the buffers as they are.
LEMMA DropPreserves ==
  ASSUME ConvInv, Drop
  PROVE  ConvInv'
BY DEF Drop, ConvInv, TickTypes, RawIsThisTick, CurIsThisTick, PrevIsLastTick, InTick,
       EndsConverted, DeliveredIsDelayed, DeliversInPdsch, LastEnd, buffers

\* The swap makes of this tick's subframe the last one's, if it was converted.
LEMMA EndTickPreserves ==
  ASSUME ConvInv, EndTick
  PROVE  ConvInv'
<1>1. /\ pc \in {"end", "delivered", "dropped"} /\ pc' = "pull" /\ prev' = cur
      /\ converted' = FALSE /\ UNCHANGED <<want, shift, raw>>
      /\ skipped' = (pc = "dropped" /\ ~converted)
      /\ mode' \in {mode, "search"}
  BY DEF EndTick
<1>2. From(want)' = From(want)
  BY <1>1 DEF From
<1>3. ASSUME mode' = "pdsch", ~skipped'
      PROVE  prev' = From(want)'
  <2>1. mode = "pdsch" /\ converted
    BY <1>1, <1>3 DEF ConvInv, EndsConverted, TickTypes
  <2>2. QED
    BY <1>1, <1>2, <2>1 DEF ConvInv, CurIsThisTick, RawIsThisTick
<1>4. PrevIsLastTick'
  BY <1>1, <1>3 DEF PrevIsLastTick, InTick
<1>5. QED
  BY <1>1, <1>4
     DEF ConvInv, TickTypes, RawIsThisTick, CurIsThisTick, EndsConverted,
         DeliveredIsDelayed, DeliversInPdsch

\* The invariant is about the variables only.
LEMMA StutterPreserves == ConvInv /\ UNCHANGED vars => ConvInv'
BY DEF vars, buffers, ConvInv, TickTypes, RawIsThisTick, CurIsThisTick, PrevIsLastTick,
       InTick, EndsConverted, DeliveredIsDelayed, DeliversInPdsch, LastEnd, From, Delayed, HeadLen, Offset

(***************************************************************************)
(* Each buffer of the converter holds the subframe of a known tick.         *)
(***************************************************************************)
THEOREM BuffersInStep == Spec => []ConvInv
<1>1. Init => ConvInv
  <2>1. Init => TickTypes
    <3>1. Init => want \in Int /\ shift \in Int
      BY DEF Init
    <3>2. Init => converted \in BOOLEAN
      BY Zenon DEF Init
    <3>3. QED
      BY <3>1, <3>2 DEF TickTypes
  <2>2. Init => /\ RawIsThisTick /\ CurIsThisTick /\ PrevIsLastTick
                /\ EndsConverted /\ DeliveredIsDelayed /\ DeliversInPdsch
    BY DEF Init, RawIsThisTick, CurIsThisTick, PrevIsLastTick, EndsConverted,
           DeliveredIsDelayed, DeliversInPdsch
  <2>3. QED
    BY <2>1, <2>2 DEF ConvInv
<1>2. ConvInv /\ [Next]_vars => ConvInv'
  BY GetBufferPreserves, DrivePreserves, DeliverPreserves, DropPreserves,
     EndTickPreserves, StutterPreserves DEF Next
<1>3. QED
  BY <1>1, <1>2, PTL DEF Spec

\* Where the samples of a vector come from.
Vectors == [Positions -> Int \cup {Blank}]

BufferTypes == {raw, prev, cur, out} \subseteq Vectors

\* The delay filter reads two vectors and makes one.
LEMMA DelayedType == ASSUME NEW u \in Vectors, NEW v \in Vectors
                     PROVE  Delayed(u, v) \in Vectors
  BY DEF Vectors, Delayed, At

LEMMA BufferTypesPreserved ==
  ASSUME ConvInv, BufferTypes, [Next]_vars PROVE BufferTypes'
<1> USE DEF BufferTypes, buffers
<1>1. CASE UNCHANGED <<buffers, out>>
  BY <1>1
<1>2. ASSUME NEW s \in Shifts, GetBuffer(s) PROVE BufferTypes'
  <2>1. /\ s \in Int /\ Len \in Int /\ want \in Int
        /\ want' = want + Len + s /\ raw' = [p \in Positions |-> want' + p]
        /\ UNCHANGED <<prev, cur, out>>
    BY <1>2, ConverterAssumption DEF GetBuffer, ConvInv, TickTypes
  <2>2. want' \in Int
    BY <2>1
  <2>3. raw' \in Vectors
    BY <2>1, <2>2 DEF Vectors, Positions
  <2>4. QED
    BY <2>1, <2>3
<1>3. CASE ConvertPDSCH /\ UNCHANGED out
  BY <1>3 DEF ConvertPDSCH
<1>4. CASE Deliver
  <2>1. cur' \in Vectors /\ UNCHANGED <<raw, prev>> /\ out' = Delayed(prev, cur')
    BY <1>4 DEF Deliver, ConvertPDSCH
  <2>2. QED
    BY <2>1, DelayedType
<1>5. CASE Reopen
  BY <1>5 DEF Reopen, New, Vectors
<1>6. CASE EndTick
  BY <1>6 DEF EndTick
<1>7. QED
  BY <1>1, <1>2, <1>3, <1>4, <1>5, <1>6
     DEF Next, Search, Wait, Acquire, Check, NoCheck, Drop, vars

LEMMA PlacesPreserved ==
  Spec => [](/\ pc \in {"pull", "drive", "deliver", "delivered", "dropped", "end"}
             /\ mode \in {"search", "acquire", "pdsch"}
             /\ shift \in Shifts \cup {0} /\ skipped \in BOOLEAN)
<1> DEFINE Places ==
      /\ pc \in {"pull", "drive", "deliver", "delivered", "dropped", "end"}
      /\ mode \in {"search", "acquire", "pdsch"}
      /\ shift \in Shifts \cup {0}
<1>1. Init => Places /\ skipped \in BOOLEAN
  BY DEF Init
<1>2. Places /\ [Next]_vars => Places'
  BY DEF Next, GetBuffer, Search, Wait, Acquire, Reopen, Check, NoCheck, Deliver, Drop,
         EndTick, vars
<1>3. skipped \in BOOLEAN /\ [Next]_vars => (skipped \in BOOLEAN)'
  BY Zenon DEF Next, GetBuffer, Search, Wait, Acquire, Reopen, Check, NoCheck, Deliver,
         Drop, EndTick, vars
<1>4. QED
  BY <1>1, <1>2, <1>3, PTL DEF Spec

(***************************************************************************)
(* The types of the converter: every vector stays as long as a subframe,    *)
(* through filters, swaps and reopenings (Converter.cpp:165-207).           *)
(***************************************************************************)
THEOREM ConverterTypes == Spec => []TypeOK
<1>1. Init => BufferTypes
  BY DEF Init, New, BufferTypes, Vectors
<1>2. Spec => []BufferTypes
  BY <1>1, BufferTypesPreserved, BuffersInStep, PTL DEF Spec
<1>3. ConvInv /\ BufferTypes
      /\ pc \in {"pull", "drive", "deliver", "delivered", "dropped", "end"}
      /\ mode \in {"search", "acquire", "pdsch"}
      /\ shift \in Shifts \cup {0} /\ skipped \in BOOLEAN
      => TypeOK
  BY Zenon DEF ConvInv, TickTypes, BufferTypes, Vectors, TypeOK
<1>4. QED
  BY <1>2, <1>3, BuffersInStep, PlacesPreserved, PTL

-----------------------------------------------------------------------------
\* The correction is cut to what a subframe can supply.
LEMMA HeadFits == ASSUME shift \in Int PROVE HeadLen \in 0 .. Len
<1>1. Taps \div 2 \in Nat /\ Taps \div 2 <= Len
  BY ConverterAssumption
<1>2. QED
  BY <1>1, ConverterAssumption DEF HeadLen, Offset

\* Each sample of the body, from the invariant.
LEMMA BodySample ==
  ASSUME ConvInv, pc = "delivered", NEW p \in Positions, p >= HeadLen
  PROVE  out[p] = LastEnd - Taps \div 2 + p + (shift - Offset(shift))
<1>1. HeadLen \in 0 .. Len /\ want \in Int /\ shift \in Int
  BY HeadFits DEF ConvInv, TickTypes
<1>2. Taps \div 2 \in Nat /\ Offset(shift) \in Int
  BY <1>1, ConverterAssumption DEF Offset
<1>3. p - HeadLen \in Positions
  BY <1>1, ConverterAssumption DEF Positions
<1>4. out[p] = From(want)[p - HeadLen]
  BY <1>1, <1>3 DEF ConvInv, DeliveredIsDelayed, Delayed, At, Positions
<1>5. out[p] = want + (p - HeadLen)
  BY <1>3, <1>4 DEF From
<1>6. QED
  BY <1>1, <1>2, <1>5, ConverterAssumption DEF HeadLen, LastEnd, Positions

\* Each sample of the head, from the invariant.
LEMMA HeadSample ==
  ASSUME ConvInv, pc = "delivered", ~skipped, NEW p \in 0 .. HeadLen - 1
  PROVE  out[p] = LastEnd - HeadLen + p
<1>1. HeadLen \in 0 .. Len /\ want \in Int /\ shift \in Int
  BY HeadFits DEF ConvInv, TickTypes
<1>2. p \in Positions /\ Len - HeadLen + p \in Positions
  BY <1>1, ConverterAssumption DEF Positions
<1>3. prev = From(LastEnd - Len)
  BY DEF ConvInv, PrevIsLastTick, InTick, DeliversInPdsch
<1>4. out[p] = prev[Len - HeadLen + p]
  BY <1>1, <1>2 DEF ConvInv, DeliveredIsDelayed, Delayed, At
<1>5. out[p] = LastEnd - Len + (Len - HeadLen + p)
  BY <1>2, <1>3, <1>4 DEF From
<1>6. QED
  BY <1>1, <1>5, ConverterAssumption DEF LastEnd

(***************************************************************************)
(* The end of a delivered subframe is this tick's, in its place             *)
(* (Converter.cpp:165-187).                                                 *)
(***************************************************************************)
THEOREM BodyAlwaysKeepsTiming == Spec => []BodyKeepsTiming
<1>1. ConvInv => BodyKeepsTiming
  BY BodySample DEF BodyKeepsTiming
<1>2. QED
  BY <1>1, BuffersInStep, PTL

(***************************************************************************)
(* Its beginning is the end of the last tick's, unless that was skipped     *)
(* (Converter.cpp:199-207, SynchronizerPDSCH.cpp:67-121).                   *)
(***************************************************************************)
THEOREM HeadAlwaysLastTick == Spec => []HeadIsLastTick
<1>1. ASSUME ConvInv PROVE HeadIsLastTick
  <2>1. HeadLen \in 0 .. Len
    BY <1>1, HeadFits DEF ConvInv, TickTypes
  <2>2. QED
    BY <1>1, <2>1, HeadSample DEF HeadIsLastTick
<1>2. QED
  BY <1>1, BuffersInStep, PTL
=============================================================================
