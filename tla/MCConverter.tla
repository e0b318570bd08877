----------------------------- MODULE MCConverter -----------------------------
(***************************************************************************)
(* A small instance of the converter for TLC: corrections inside and        *)
(* beyond the limits of a subframe of 6 samples and a filter of 4 taps.     *)
(***************************************************************************)
EXTENDS Converter

MCShifts == {-3, -1, 0, 5}
=============================================================================
