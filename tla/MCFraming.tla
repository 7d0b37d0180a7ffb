------------------------------ MODULE MCFraming ------------------------------
(* Instances of Framing for TLC. *)
EXTENDS Framing

(* No body, one that fits, the longest that fits, and one that is refused. *)
BodySizes == {0, 1, 2, 3}
=============================================================================
