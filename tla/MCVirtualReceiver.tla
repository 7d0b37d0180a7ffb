-------------------------- MODULE MCVirtualReceiver --------------------------
(* Instances of VirtualReceiver for TLC; the chunks are those of MCDecimator. *)
EXTENDS VirtualReceiver, MCDecimator, TLC

(* The middle of the capture, a quarter of the rate above it, and beyond: *)
(* rotations that differ in both parts.                                     *)
AroundCenter == {WidebandCenter, WidebandCenter + 1, WidebandCenter + 3}

(* Clients differ in nothing but their name. *)
AnyClient == Permutations(Clients)
=============================================================================
