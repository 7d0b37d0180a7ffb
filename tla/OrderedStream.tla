---------------------------- MODULE OrderedStream ----------------------------
(***************************************************************************)
(* What a reader of a byte stream owes its peer: what the peer sent is       *)
(* handled item by item, each whole, once and in order, until the reader     *)
(* ends the connection.  Framing shows that the read loops of the servers    *)
(* implement it, however TCP cuts the stream.                                *)
(***************************************************************************)
EXTENDS Naturals, Sequences

CONSTANT Items

VARIABLES sent, handled, over

vars == <<sent, handled, over>>

Init == sent = <<>> /\ handled = <<>> /\ over = FALSE

Send(i) == sent' = Append(sent, i) /\ UNCHANGED <<handled, over>>

Handle ==
    /\ ~over /\ Len(handled) < Len(sent)
    /\ handled' = Append(handled, sent[Len(handled) + 1])
    /\ UNCHANGED <<sent, over>>

End == over' = TRUE /\ UNCHANGED <<sent, handled>>

Next == (\E i \in Items : Send(i)) \/ Handle \/ End

Spec == Init /\ [][Next]_vars

FairSpec == Spec /\ WF_vars(Handle)
=============================================================================
