----------------------------- MODULE MCRadioInput -----------------------------
(***************************************************************************)
(* A small instance of the radio's input for TLC: the corrections by one    *)
(* sample back, none, and most of a subframe forward.                       *)
(***************************************************************************)
EXTENDS RadioInput

MCShifts == {-1, 0, 3}
=============================================================================
