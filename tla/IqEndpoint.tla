----------------------------- MODULE IqEndpoint -----------------------------
(***************************************************************************)
(* What main() and the virtual receivers rely on of an endpoint, whatever    *)
(* protocol it speaks: once start()ed it takes clients in until stop() has   *)
(* its snapshot of them, IQ goes to the clients it has taken in and not to   *)
(* one that is over or let go, and stop() returns with every client it still *)
(* serves cut off.  RtlTcpServer and SpyServer implement it.                 *)
(***************************************************************************)
EXTENDS Sequences

CONSTANT Conns   (* the connections clients may make                          *)

VARIABLES
    state,   (* "down", "up", "stopping", "draining" once no client is taken  *)
             (* in any more, "stopped" when stop() has returned               *)
    phase,   (* each connection: "away", "served", "left" when the endpoint   *)
             (* has let go of it, "closed"                                    *)
    over,    (* connections their client or stop() has put an end to          *)
    heard    (* what each connection was sent: "iq", or "talk" of the protocol *)

vars == <<state, phase, over, heard>>

Init ==
    /\ state = "down" /\ over = {}
    /\ phase = [c \in Conns |-> "away"] /\ heard = [c \in Conns |-> <<>>]

Start == state = "down" /\ state' = "up" /\ UNCHANGED <<phase, over, heard>>
Stop  == state = "up" /\ state' = "stopping" /\ UNCHANGED <<phase, over, heard>>
Drain == state = "stopping" /\ state' = "draining" /\ UNCHANGED <<phase, over, heard>>

(* Every client's thread is on its way out. *)
Stopped ==
    /\ state = "draining" /\ \A c \in Conns : phase[c] = "served" => c \in over
    /\ state' = "stopped" /\ UNCHANGED <<phase, over, heard>>

(* From one phase to the next: a client is served once, and let go before   *)
(* its socket is closed.                                                     *)
Moves(c, from, to) ==
    /\ phase[c] = from /\ phase' = [phase EXCEPT ![c] = to]
    /\ UNCHANGED <<state, over, heard>>

TakeIn(c) == state \in {"up", "stopping"} /\ Moves(c, "away", "served")
LetGo(c)  == Moves(c, "served", "left")
Close(c)  == Moves(c, "left", "closed")

End(c) == over' = over \cup {c} /\ UNCHANGED <<state, phase, heard>>

(* A greeting may come before the client is taken in. *)
Talk(c) ==
    /\ state # "down" /\ phase[c] \in {"away", "served"} /\ c \notin over
    /\ heard' = [heard EXCEPT ![c] = Append(@, "talk")]
    /\ UNCHANGED <<state, phase, over>>

(* The clients in to get a chunk, or some of it; the others it is dropped for. *)
Broadcast(to) ==
    /\ state # "down" /\ \A c \in to : phase[c] = "served" /\ c \notin over
    /\ heard' = [c \in Conns |-> IF c \in to THEN Append(heard[c], "iq") ELSE heard[c]]
    /\ UNCHANGED <<state, phase, over>>

Next ==
    \/ Start \/ Stop \/ Drain \/ Stopped
    \/ \E c \in Conns : TakeIn(c) \/ LetGo(c) \/ Close(c) \/ End(c) \/ Talk(c)
    \/ \E to \in SUBSET Conns : Broadcast(to)

Spec == Init /\ [][Next]_vars
=============================================================================
