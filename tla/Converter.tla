------------------------------ MODULE Converter ------------------------------
(***************************************************************************)
(* Which samples a decoder is given: the synchronizer pulls a subframe of   *)
(* raw samples every tick, converts it only if something in the tick needs  *)
(* it, and delivers the end of the last subframe followed by the beginning  *)
(* of this one.  A sample is modelled by its time (Converter.cpp, with the  *)
(* loop of SynchronizerPDSCH.cpp that drives it).                           *)
(***************************************************************************)
EXTENDS Integers

CONSTANTS
  Len,      (* pdschLen(): samples in a subframe                            *)
  Taps,     (* _taps                                                        *)
  Shifts,   (* the timing corrections getBuffer returns                     *)
  Blank,    (* a sample never written, or outside of a vector               *)
  MaxTime   (* bound of the model: nothing is pulled later                  *)

ASSUME ConverterAssumption ==
  /\ Len \in Nat \ {0} /\ Taps \in Nat /\ Taps % 2 = 0 /\ Taps < Len
  /\ Shifts \subseteq Int /\ MaxTime \in Nat

VARIABLES
  pc,         (* the part of the tick that comes next                       *)
  mode,       (* "search" in PSS_SYNC, "acquire" from PSS_SYNC2 to PBCH,
                 "pdsch" in PDSCH_SYNC                                      *)
  want,       (* the time of the subframe pulled last                       *)
  shift,      (* adjust: the correction made when it was pulled             *)
  raw,        (* _buffers                                                   *)
  prev,       (* _prev                                                      *)
  cur,        (* _pdsch                                                     *)
  converted,  (* _convertPDSCH                                              *)
  out,        (* the samples of the last LteBuffer delivered                *)
  skipped     (* history: the tick before was dropped, and not converted    *)

buffers == <<raw, prev, cur, converted>>
vars == <<pc, mode, want, shift, buffers, out, skipped>>

Positions == 0 .. Len - 1

TypeOK ==
  /\ pc \in {"pull", "drive", "deliver", "delivered", "dropped", "end"}
  /\ mode \in {"search", "acquire", "pdsch"}
  /\ want \in Int /\ shift \in Shifts \cup {0}
  /\ {raw, prev, cur, out} \subseteq [Positions -> Int \cup {Blank}]
  /\ converted \in BOOLEAN /\ skipped \in BOOLEAN

New == [p \in Positions |-> Blank]

Init ==
  /\ pc = "pull" /\ mode = "search"
  /\ want = 0 /\ shift = 0
  /\ raw = New /\ prev = New /\ cur = New /\ out = New
  /\ converted = FALSE /\ skipped = FALSE

-----------------------------------------------------------------------------
\* getBuffer.
GetBuffer(s) ==
  /\ pc = "pull" /\ pc' = "drive"
  /\ want' = want + Len + s
  /\ want' + Len <= MaxTime
  /\ shift' = s
  /\ raw' = [p \in Positions |-> want' + p]
  /\ UNCHANGED <<mode, prev, cur, converted, out, skipped>>

\* convertPDSCH, which every other conversion calls.
ConvertPDSCH ==
  /\ cur' = IF converted THEN cur ELSE raw
  /\ converted' = TRUE
  /\ UNCHANGED <<raw, prev>>

\* In PSS_SYNC the primary sequence is searched for in every subframe.
Search ==
  /\ pc = "drive" /\ mode = "search"
  /\ ConvertPDSCH
  /\ mode' \in {"search", "acquire"}
  /\ pc' = "end"
  /\ UNCHANGED <<want, shift, out, skipped>>

\* In the states up to PBCH only subframe 0 is looked at ...
Wait ==
  /\ pc = "drive" /\ mode = "acquire"
  /\ pc' = "end"
  /\ UNCHANGED <<mode, want, shift, buffers, out, skipped>>

\* Variant of Acquire: the MIB is decoded from samples of its own.
AcquireApart ==
  /\ pc = "drive" /\ mode = "acquire"
  /\ mode' \in {"search", "acquire", "pdsch"}
  /\ pc' = "end"
  /\ UNCHANGED <<want, shift, buffers, out, skipped>>

\* ... and the tick that decodes the MIB has converted it.
Acquire ==
  /\ pc = "drive" /\ mode = "acquire"
  /\ ConvertPDSCH
  /\ mode' \in {"search", "acquire", "pdsch"}
  /\ pc' = "end"
  /\ UNCHANGED <<want, shift, out, skipped>>

\* A MIB of another bandwidth: reopen and init, which ends with a reset.
Reopen ==
  /\ pc = "drive" /\ mode = "acquire"
  /\ mode' = "search" /\ pc' = "end"
  /\ prev' = New /\ cur' = New /\ converted' = FALSE
  /\ UNCHANGED <<want, shift, raw, out, skipped>>

\* In subframe 5 the primary sequence is checked, in the others not.
Check ==
  /\ pc = "drive" /\ mode = "pdsch"
  /\ ConvertPDSCH
  /\ \/ pc' = "deliver" /\ UNCHANGED mode
     \/ pc' = "end" /\ mode' = "search"
  /\ UNCHANGED <<want, shift, out, skipped>>

NoCheck ==
  /\ pc = "drive" /\ mode = "pdsch"
  /\ pc' = "deliver"
  /\ UNCHANGED <<mode, want, shift, buffers, out, skipped>>

-----------------------------------------------------------------------------
\* A read outside of a vector finds nothing the property would allow.
At(v, i) == IF i \in Positions THEN v[i] ELSE Blank

\* delayPDSCH limits the correction to what the last subframe can supply.
Offset(s) == IF s < -(Taps \div 2) THEN -(Taps \div 2)
             ELSE IF s > Len - Taps \div 2 THEN Len - Taps \div 2
             ELSE s

\* How much of the delivered subframe is the end of the last one.
HeadLen == Taps \div 2 + Offset(shift)

Delayed(last, this) ==
  [p \in Positions |-> IF p < HeadLen THEN At(last, Len - HeadLen + p)
                                      ELSE At(this, p - HeadLen)]

Deliver ==
  /\ pc = "deliver" /\ pc' = "delivered"
  /\ ConvertPDSCH
  /\ out' = Delayed(prev, cur')
  /\ UNCHANGED <<mode, want, shift, skipped>>

\* No buffer to deliver it in: the tick ends before the conversion.
Drop ==
  /\ pc = "deliver" /\ pc' = "dropped"
  /\ UNCHANGED <<mode, want, shift, buffers, out, skipped>>

\* Variant of EndTick: the flag stays.
EndTickStillConverted ==
  /\ pc \in {"end", "delivered", "dropped"} /\ pc' = "pull"
  /\ prev' = cur /\ cur' = prev
  /\ skipped' = (pc = "dropped" /\ ~converted)
  /\ mode' \in {mode, "search"}
  /\ UNCHANGED <<want, shift, raw, converted, out>>

\* The converter's reset, and perhaps the receiver's.
EndTick ==
  /\ pc \in {"end", "delivered", "dropped"} /\ pc' = "pull"
  /\ prev' = cur /\ cur' = prev
  /\ converted' = FALSE
  /\ skipped' = (pc = "dropped" /\ ~converted)
  /\ mode' \in {mode, "search"}
  /\ UNCHANGED <<want, shift, raw, out>>

Next ==
  \/ \E s \in Shifts : GetBuffer(s)
  \/ Search \/ Wait \/ Acquire \/ Reopen
  \/ Check \/ NoCheck \/ Deliver \/ Drop
  \/ EndTick

Spec == Init /\ [][Next]_vars
-----------------------------------------------------------------------------
\* When the subframe before this one ended.
LastEnd == want - shift

(***************************************************************************)
(* The end of a delivered subframe is this tick's, whichever conversion was *)
(* first to need it, and lies where it would without the correction: the    *)
(* samples follow on from the last subframe, half the taps late; a          *)
(* correction that is too large is cut (Converter.cpp:165-187).             *)
(***************************************************************************)
BodyKeepsTiming ==
  pc = "delivered" =>
    \A p \in Positions : p >= HeadLen =>
      out[p] = LastEnd - Taps \div 2 + p + (shift - Offset(shift))

(***************************************************************************)
(* Its beginning is the end of the subframe of the tick before, unless that *)
(* was dropped without being converted: every way into PDSCH_SYNC and every *)
(* tick in it converts, so that the swap of the two buffers keeps them in   *)
(* step (Converter.cpp:199-207, SynchronizerPDSCH.cpp:67-121).              *)
(***************************************************************************)
HeadIsLastTick ==
  pc = "delivered" /\ ~skipped =>
    /\ HeadLen \in 0 .. Len
    /\ \A p \in 0 .. HeadLen - 1 : out[p] = LastEnd - HeadLen + p
=============================================================================
