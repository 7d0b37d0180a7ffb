------------------------------- MODULE Framing -------------------------------
(***************************************************************************)
(* clientReadLoop() of both servers as a parser of one client's bytes: recv  *)
(* returns whatever TCP has, commands are cut out of recvBuf at an offset,   *)
(* and what is left is kept.  A SpyServer command is a header that says how  *)
(* long its body is (spyserver/server.cpp); an rtl_tcp command is all header *)
(* (rtltcp/server.cpp), which is the instance whose bodies are all empty.    *)
(*                                                                           *)
(* Bytes are positions in the client's stream.  What the parser reads as a   *)
(* header is one only where the client began a command; anywhere else the    *)
(* length it finds is arbitrary.                                             *)
(***************************************************************************)
EXTENDS Naturals, Sequences

CONSTANTS HeaderBytes,  (* sizeof(CommandHeader), or COMMAND_LENGTH           *)
          MaxBody,      (* kMaxCommandBodySize                                *)
          Bodies,       (* body sizes clients claim                           *)
          ChunkBytes,   (* the most one recv() returns                        *)
          MaxCommands   (* bound on the commands sent                         *)

ASSUME FramingAssumption ==
    /\ HeaderBytes \in Nat \ {0} /\ ChunkBytes \in Nat \ {0}
    /\ MaxBody \in Nat /\ MaxCommands \in Nat /\ Bodies \subseteq Nat

VARIABLES
    bodies,    (* the body size of each command the client has sent           *)
    starts,    (* the position of its first byte                              *)
    sent,      (* bytes the client has sent                                   *)
    gone,      (* the client has left, or stop() has shut the socket down     *)
    received,  (* bytes recv() has returned                                   *)
    erased,    (* bytes erased from the front of recvBuf                      *)
    offset,    (* offset                                                      *)
    handled,   (* what handleCommand() was called with                        *)
    pc         (* "recv", "parse", or "done" once the loop is left            *)

clientVars == <<bodies, starts, sent, gone>>
vars == <<clientVars, received, erased, offset, handled, pc>>

Init ==
    /\ bodies = <<>> /\ starts = <<>> /\ sent = 0 /\ gone = FALSE
    /\ received = 0 /\ erased = 0 /\ offset = 0
    /\ handled = <<>> /\ pc = "recv"

ClientSends(b) ==
    /\ ~gone /\ Len(bodies) < MaxCommands
    /\ bodies' = Append(bodies, b) /\ starts' = Append(starts, sent)
    /\ sent' = sent + HeaderBytes + b
    /\ UNCHANGED <<gone, received, erased, offset, handled, pc>>

ClientGoes ==
    /\ ~gone /\ gone' = TRUE
    /\ UNCHANGED <<bodies, starts, sent, received, erased, offset, handled, pc>>

Recv(n) ==
    /\ pc = "recv" /\ received + n <= sent
    /\ received' = received + n /\ pc' = "parse"
    /\ UNCHANGED <<clientVars, erased, offset, handled>>

(* n <= 0: what a client that has left had still sent may be lost. *)
RecvEnds ==
    /\ pc = "recv" /\ gone
    /\ pc' = "done"
    /\ UNCHANGED <<clientVars, received, erased, offset, handled>>

Unparsed == received - erased - offset

(* hdr.bodySize, as it may be read at a position. *)
BodySizeAt(p) ==
    LET here == {k \in 1..Len(starts) : starts[k] = p}
    IN  IF here = {} THEN Bodies ELSE {bodies[k] : k \in here}

HandleCommand(b) ==
    /\ pc = "parse" /\ Unparsed >= HeaderBytes
    /\ b \in BodySizeAt(erased + offset) /\ b <= MaxBody
    /\ Unparsed >= HeaderBytes + b
    /\ handled' = Append(handled, [at |-> erased + offset, body |-> b])
    /\ offset' = offset + HeaderBytes + b
    /\ UNCHANGED <<clientVars, received, erased, pc>>

(* protocolError: as soon as the header is there, and nothing after it is read. *)
Refuse(b) ==
    /\ pc = "parse" /\ Unparsed >= HeaderBytes
    /\ b \in BodySizeAt(erased + offset) /\ b > MaxBody
    /\ erased' = erased + offset /\ offset' = 0
    /\ pc' = "done"
    /\ UNCHANGED <<clientVars, received, handled>>

(* Mutant: an oversized body is waited for like any other. *)
IncompleteUnbounded ==
    \/ Unparsed < HeaderBytes
    \/ \E b \in BodySizeAt(erased + offset) : Unparsed < HeaderBytes + b

Incomplete ==
    \/ Unparsed < HeaderBytes
    \/ \E b \in BodySizeAt(erased + offset) : b <= MaxBody /\ Unparsed < HeaderBytes + b

(* Mutant: one command per recv(). *)
KeepEarly ==
    /\ pc = "parse" /\ (Incomplete \/ offset > 0)
    /\ erased' = erased + offset /\ offset' = 0
    /\ pc' = "recv"
    /\ UNCHANGED <<clientVars, received, handled>>

(* Mutant: all of recvBuf is dropped, not only what was handled. *)
KeepNothing ==
    /\ pc = "parse" /\ Incomplete
    /\ erased' = received /\ offset' = 0
    /\ pc' = "recv"
    /\ UNCHANGED <<clientVars, received, handled>>

(* The rest waits in recvBuf for the next recv(). *)
KeepRest ==
    /\ pc = "parse" /\ Incomplete
    /\ erased' = erased + offset /\ offset' = 0
    /\ pc' = "recv"
    /\ UNCHANGED <<clientVars, received, handled>>

ServerStep ==
    \/ \E n \in 1..ChunkBytes : Recv(n)
    \/ RecvEnds
    \/ \E b \in Bodies : HandleCommand(b) \/ Refuse(b)
    \/ KeepRest

Next == ServerStep \/ (\E b \in Bodies : ClientSends(b)) \/ ClientGoes

Spec == Init /\ [][Next]_vars

(* The read thread runs, and TCP delivers what was sent. *)
FairSpec == Spec /\ WF_vars(ServerStep)

-----------------------------------------------------------------------------
TypeOK ==
    /\ bodies \in Seq(Bodies) /\ starts \in Seq(Nat) /\ Len(starts) = Len(bodies)
    /\ handled \in Seq([at : Nat, body : Nat])
    /\ sent \in Nat /\ received \in 0..sent
    /\ erased \in Nat /\ offset \in Nat /\ erased + offset <= received
    /\ gone \in BOOLEAN /\ pc \in {"recv", "parse", "done"}

(* What handleCommand() has seen is the client's first commands, each with  *)
(* the bytes it was sent with, none twice and none skipped: the parser      *)
(* never takes the middle of a command for a header, wherever TCP cuts.      *)
HandledInOrder ==
    /\ Len(handled) <= Len(bodies)
    /\ \A k \in 1..Len(handled) : handled[k] = [at |-> starts[k], body |-> bodies[k]]

(* A read thread blocked in recv() has handled every command that has       *)
(* arrived whole: nothing it could have done waits for later bytes.          *)
NothingWholeWaits ==
    pc = "recv" => \A k \in Len(handled) + 1..Len(bodies) :
        bodies[k] <= MaxBody => starts[k] + HeaderBytes + bodies[k] > received

(* What kMaxCommandBodySize is for: whatever length a header claims, recvBuf *)
(* never holds more than one incomplete command and one recv().              *)
BufferBounded == received - erased < HeaderBytes + MaxBody + ChunkBytes

(* The loop as its client sees it, and the promise it keeps.  With fairness *)
(* that is also progress: each command is handled, unless the connection     *)
(* ends first, as it does at an oversized one.                               *)
Stream == INSTANCE OrderedStream WITH
    Items <- Bodies, sent <- bodies,
    handled <- [k \in 1..Len(handled) |-> handled[k].body], over <- pc = "done"

ImplementsStream == Stream!FairSpec
=============================================================================
