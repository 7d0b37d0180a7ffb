---------------------------- MODULE MCSdrplayApi ----------------------------
(* Instances of SdrplayApi for TLC; the cfg files give every constant. *)
EXTENDS SdrplayApi
=============================================================================
