------------------------------ MODULE IqSource ------------------------------
(***************************************************************************)
(* What iq_source.hpp promises to main(), whichever backend is behind it:    *)
(* connect() streams or throws, the callback runs on another thread while    *)
(* the source streams or is being closed, and neither a connect() that has   *)
(* thrown nor a close() that has returned leaves one running.                *)
(* SdrplayApi and SdrConnect implement it; Process is built on it.           *)
(***************************************************************************)

VARIABLES
    state,       (* "idle", "connecting", "streaming", "closing", "closed",   *)
                 (* "failed" once connect() has thrown, "killed"              *)
    inCallback   (* onIq_ is running                                          *)

vars == <<state, inCallback>>

Init == state = "idle" /\ inCallback = FALSE

Connect   == state = "idle" /\ state' = "connecting" /\ UNCHANGED inCallback
Connected == state = "connecting" /\ state' = "streaming" /\ UNCHANGED inCallback
Throws    == state \in {"idle", "connecting"} /\ state' = "failed" /\ UNCHANGED inCallback

CallbackBegins == state \in {"streaming", "closing"} /\ ~inCallback /\ inCallback' = TRUE /\ UNCHANGED state
CallbackEnds   == inCallback /\ inCallback' = FALSE /\ UNCHANGED state

Close  == state = "streaming" /\ state' = "closing" /\ UNCHANGED inCallback
Closed == state = "closing" /\ ~inCallback /\ state' = "closed" /\ UNCHANGED inCallback

(* The process is killed. *)
Killed == state' = "killed" /\ inCallback' = FALSE

Next == Connect \/ Connected \/ Throws \/ CallbackBegins \/ CallbackEnds \/ Close \/ Closed \/ Killed

Spec == Init /\ [][Next]_vars
=============================================================================
