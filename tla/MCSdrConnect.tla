---------------------------- MODULE MCSdrConnect ----------------------------
(* Instances of SdrConnect for TLC; the cfg file gives every constant. *)
EXTENDS SdrConnect
=============================================================================
