----------------------------- MODULE MCDecimator -----------------------------
(* Instances of Decimator for TLC. *)
EXTENDS Decimator

(* Chunks shorter and longer than the factor and than the filter. *)
AnyChunks == {0, 1, 2, 4, 5, 7}
=============================================================================
