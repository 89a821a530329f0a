----------------------------- MODULE MCS3Parquet -----------------------------
(***************************************************************************)
(* Model checking of S3Parquet: one envelope with a single row, one with   *)
(* two, so that an object can hold rows of both and can end in the middle  *)
(* of the second.                                                          *)
(***************************************************************************)
EXTENDS S3Parquet

CONSTANTS e1, e2
TwoEnvelopes == {e1, e2}
OneAndTwo == [e \in TwoEnvelopes |-> IF e = e1 THEN 1 ELSE 2]
==============================================================================
