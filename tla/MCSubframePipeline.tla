-------------------------- MODULE MCSubframePipeline --------------------------
(***************************************************************************)
(* Small instances of the pipeline for TLC.  Buffers and decoders are       *)
(* interchangeable, so runs without liveness properties use the symmetry.   *)
(***************************************************************************)
EXTENDS SubframePipeline, TLC

Symmetry == Permutations(Buffers) \cup Permutations(Decoders)
=============================================================================
