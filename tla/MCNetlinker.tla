----------------------------- MODULE MCNetlinker -----------------------------
(***************************************************************************)
(* Model checking of Netlinker.  The decoders are model values; they are   *)
(* interchangeable, but the run checks liveness, so no symmetry is used.   *)
(***************************************************************************)
EXTENDS Netlinker
==============================================================================
