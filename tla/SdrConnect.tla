----------------------------- MODULE SdrConnect -----------------------------
(***************************************************************************)
(* Streaming from SDRconnect over a WebSocket (sdrconnect/client.cpp and     *)
(* websocket.cpp): connect() with its handshake and its settings, the read   *)
(* thread that puts messages together, and close(), on main's thread, over   *)
(* the one socket that both threads use without a lock.                      *)
(*                                                                           *)
(* A frame is whole or not yet there (Framing shows what arbitrary reads do  *)
(* to such a parser).  The server speaks RFC 6455: data frames of different  *)
(* messages are not interleaved, control frames may come anywhere.           *)
(***************************************************************************)
EXTENDS Naturals, Sequences

CONSTANTS MaxFrames,  (* bound on the frames the server sends                 *)
          Settings,   (* how many messages connect() sends                    *)
          Capacity    (* frames the socket's send buffer holds                *)

ASSUME SdrConnectAssumption == MaxFrames \in Nat /\ Settings \in Nat /\ Capacity \in Nat \ {0}

VARIABLES
    \* the server
    reply,      (* to the upgrade: "none", "drip" if it never ends, "ok", "bad" *)
    sent,       (* the frames it has sent                                     *)
    left,       (* it has ended the connection                                *)
    unread,     (* frames of the client it has not read                       *)
    \* the socket
    sock,       (* "none", "open" or "closed"                                 *)
    fdSet,      (* fd_ >= 0                                                   *)
    shut,       (* shutdown() was called on it                                *)
    \* main
    pc,         (* where connect(), close() or the destructor is              *)
    todo,       (* messages connect() has yet to send                         *)
    threw,      (* connect() threw                                            *)
    \* the read thread
    readPc,     (* where runReadLoop() is                                     *)
    early,      (* frames received with the upgrade's reply: pendingBytes_    *)
    received,   (* frames received in all                                     *)
    parsed,     (* frames taken out of buf                                    *)
    fragment,   (* fragPayload and fragOpcode while fragActive                *)
    delivered   (* the payloads onIq_ was called with                         *)

serverVars == <<reply, sent, left>>
sockVars   == <<sock, fdSet, shut>>
mainVars   == <<pc, todo, threw>>
readVars   == <<readPc, early, received, parsed, fragment, delivered>>
vars == <<serverVars, unread, sockVars, mainVars, readVars>>

(* "iq" is a binary message of type 2 with samples in it; "other" is text,  *)
(* a binary message of another type, or an empty one.                        *)
Kinds == {"iq", "other"}

NoFragment == [kind |-> "none", parts |-> <<>>]

Init ==
    /\ reply = "none" /\ sent = <<>> /\ left = FALSE /\ unread = 0
    /\ sock = "none" /\ fdSet = FALSE /\ shut = FALSE
    /\ pc = "idle" /\ todo = Settings /\ threw = FALSE
    /\ readPc = "none" /\ early = 0 /\ received = 0 /\ parsed = 0
    /\ fragment = NoFragment /\ delivered = <<>>

-----------------------------------------------------------------------------
(* The server. *)

Replies(r) ==
    /\ pc = "upgrade" /\ reply \in {"none", "drip"} /\ ~left
    /\ reply' = r
    /\ UNCHANGED <<sent, left, unread, sockVars, mainVars, readVars>>

IsData(f) == f.op \in Kinds \cup {"more"}

(* The last data frame the server has sent. *)
LastData ==
    LET last == {i \in 1..Len(sent) : IsData(sent[i]) /\ \A j \in (i + 1)..Len(sent) : ~IsData(sent[j])}
    IN  IF last = {} THEN [op |-> "other", fin |-> TRUE, msg |-> 0, part |-> 0]
                     ELSE sent[CHOOSE i \in last : TRUE]

(* The data frame that may come next: the start of a message, or the next   *)
(* part of the one that is being sent.                                       *)
NextData(op, fin) ==
    [op |-> op, fin |-> fin,
     msg  |-> IF LastData.fin THEN LastData.msg + 1 ELSE LastData.msg,
     part |-> IF LastData.fin THEN 1 ELSE LastData.part + 1]

Sendable ==
    {NextData(op, fin) : op \in IF LastData.fin THEN Kinds ELSE {"more"}, fin \in BOOLEAN}
      \cup {[op |-> op, fin |-> TRUE, msg |-> 0, part |-> 0] : op \in {"ping", "close"}}

ServerSends ==
    /\ reply = "ok" /\ ~left /\ Len(sent) < MaxFrames
    /\ \E f \in Sendable : sent' = Append(sent, f)
    /\ UNCHANGED <<reply, left, unread, sockVars, mainVars, readVars>>

ServerReads ==
    /\ unread > 0 /\ unread' = unread - 1
    /\ UNCHANGED <<serverVars, sockVars, mainVars, readVars>>

ServerLeaves ==
    /\ ~left /\ left' = TRUE
    /\ UNCHANGED <<reply, sent, unread, sockVars, mainVars, readVars>>

-----------------------------------------------------------------------------
(* sendAll(): blocks while the buffer is full, and fails on a dead socket. *)

Dead == left \/ shut \/ sock # "open"

Sends == unread < Capacity /\ sock = "open" /\ ~shut /\ unread' = unread + 1

Fails == Dead /\ UNCHANGED unread

-----------------------------------------------------------------------------
(* SdrConnectClient::connect(). *)

(* No address of the host could be connected to. *)
DialFails ==
    /\ pc = "idle" /\ pc' = "failed" /\ threw' = TRUE
    /\ UNCHANGED <<serverVars, unread, sockVars, todo, readVars>>

Dial ==
    /\ pc = "idle" /\ pc' = "upgrade"
    /\ sock' = "open" /\ fdSet' = TRUE
    /\ UNCHANGED <<serverVars, unread, shut, todo, threw, readVars>>

(* Mutant: no receive timeout during the handshake. *)
UpgradeFailsUntimed ==
    /\ pc = "upgrade" /\ (reply = "bad" \/ left)
    /\ sock' = "closed" /\ fdSet' = FALSE
    /\ pc' = "failed" /\ threw' = TRUE
    /\ UNCHANGED <<serverVars, unread, shut, todo, readVars>>

(* No byte for kHandshakeTimeoutSec, the end of the stream, or an answer    *)
(* that does not accept the upgrade.  A dripping answer resets the timeout.  *)
UpgradeFails ==
    /\ pc = "upgrade" /\ (reply \in {"none", "bad"} \/ left)
    /\ sock' = "closed" /\ fdSet' = FALSE
    /\ pc' = "failed" /\ threw' = TRUE
    /\ UNCHANGED <<serverVars, unread, shut, todo, readVars>>

(* n frames arrived in the same recv() as the end of the reply. *)
UpgradeOk(n) ==
    /\ pc = "upgrade" /\ reply = "ok"
    /\ pc' = "settings"
    /\ early' = n /\ received' = n
    /\ UNCHANGED <<serverVars, unread, sockVars, todo, threw, readPc, parsed, fragment, delivered>>

SendSetting ==
    /\ pc = "settings" /\ todo > 0 /\ Sends
    /\ todo' = todo - 1
    /\ UNCHANGED <<serverVars, sockVars, pc, threw, readVars>>

(* The exception leaves the socket open: the destructors see to it. *)
SettingFails ==
    /\ pc = "settings" /\ todo > 0 /\ Fails
    /\ pc' = "failed" /\ threw' = TRUE
    /\ UNCHANGED <<serverVars, sockVars, todo, readVars>>

StartReading ==
    /\ pc = "settings" /\ todo = 0
    /\ pc' = "streaming" /\ readPc' = "recv"
    /\ UNCHANGED <<serverVars, unread, sockVars, todo, threw, early, received, parsed, fragment, delivered>>

ConnectStep ==
    \/ DialFails \/ Dial \/ UpgradeFails \/ SendSetting \/ SettingFails \/ StartReading
    \/ \E n \in 0..Len(sent) : UpgradeOk(n)

-----------------------------------------------------------------------------
(* close(), called by main, and by the destructor after a failed connect(). *)

BeginClose ==
    /\ pc \in {"streaming", "failed"}
    /\ pc' = IF fdSet THEN "closeFrame" ELSE "join"
    /\ UNCHANGED <<serverVars, unread, sockVars, todo, threw, readVars>>

CloseFrame ==
    /\ pc = "closeFrame" /\ (Sends \/ Fails)
    /\ pc' = "shutdown"
    /\ UNCHANGED <<serverVars, sockVars, todo, threw, readVars>>

(* Mutant: close() only sends the CLOSE frame. *)
ShutdownForgotten ==
    /\ pc = "shutdown" /\ pc' = "join"
    /\ UNCHANGED <<serverVars, unread, sockVars, todo, threw, readVars>>

(* Mutant: close() closes the descriptor itself. *)
ShutdownAndClose ==
    /\ pc = "shutdown" /\ pc' = "join"
    /\ shut' = (shut \/ sock = "open") /\ sock' = "closed"
    /\ UNCHANGED <<serverVars, unread, fdSet, todo, threw, readVars>>

(* On a number the read thread may have closed by now. *)
Shutdown ==
    /\ pc = "shutdown" /\ pc' = "join"
    /\ shut' = (shut \/ sock = "open")
    /\ UNCHANGED <<serverVars, unread, sock, fdSet, todo, threw, readVars>>

(* Mutant: the read thread is not waited for. *)
JoinSkipped ==
    /\ pc = "join" /\ pc' = "closed"
    /\ UNCHANGED <<serverVars, unread, sockVars, todo, threw, readVars>>

Join ==
    /\ pc = "join" /\ readPc \in {"none", "done"}
    /\ pc' = "closed"
    /\ UNCHANGED <<serverVars, unread, sockVars, todo, threw, readVars>>

(* ~WebSocketClient(); the close() of ~SdrConnectClient() finds nothing to do. *)
Destroy ==
    /\ pc = "closed" /\ pc' = "destroyed"
    /\ sock' = IF fdSet THEN "closed" ELSE sock
    /\ UNCHANGED <<serverVars, unread, fdSet, shut, todo, threw, readVars>>

CloseStep == CloseFrame \/ Shutdown \/ Join \/ Destroy \/ (pc = "failed" /\ BeginClose)

-----------------------------------------------------------------------------
(* runReadLoop(), on the read thread. *)

Recv(n) ==
    /\ readPc = "recv" /\ received + n <= Len(sent)
    /\ received' = received + n /\ readPc' = "frames"
    /\ UNCHANGED <<serverVars, unread, sockVars, mainVars, early, parsed, fragment, delivered>>

RecvEnds ==
    /\ readPc = "recv" /\ (left \/ shut)
    /\ readPc' = "close"
    /\ UNCHANGED <<serverVars, unread, sockVars, mainVars, early, received, parsed, fragment, delivered>>

Frame == sent[parsed + 1]

Payload(f) == [msg |-> f.msg, part |-> f.part]

(* A whole message: handleBinaryMessage() calls onIq_ for raw IQ only. *)
Deliver(kind, parts) ==
    IF kind = "iq" THEN delivered' = Append(delivered, parts) /\ readPc' = "callback"
                   ELSE UNCHANGED delivered /\ readPc' = "frames"

(* Mutant: a control frame puts an end to the fragmented message. *)
ControlFrameResets ==
    /\ readPc = "frames" /\ parsed < received /\ ~IsData(Frame)
    /\ parsed' = parsed + 1 /\ fragment' = NoFragment
    /\ readPc' = IF Frame.op = "close" THEN "close" ELSE "pong"
    /\ UNCHANGED <<serverVars, unread, sockVars, mainVars, early, received, delivered>>

ControlFrame ==
    /\ readPc = "frames" /\ parsed < received /\ ~IsData(Frame)
    /\ parsed' = parsed + 1
    /\ readPc' = IF Frame.op = "close" THEN "close" ELSE "pong"
    /\ UNCHANGED <<serverVars, unread, sockVars, mainVars, early, received, fragment, delivered>>

FirstFrame ==
    /\ readPc = "frames" /\ parsed < received /\ Frame.op \in Kinds
    /\ parsed' = parsed + 1
    /\ IF Frame.fin THEN Deliver(Frame.op, <<Payload(Frame)>>) /\ UNCHANGED fragment
       ELSE /\ fragment' = [kind |-> Frame.op, parts |-> <<Payload(Frame)>>]
            /\ UNCHANGED <<delivered, readPc>>
    /\ UNCHANGED <<serverVars, unread, sockVars, mainVars, early, received>>

(* Without a start it is ignored. *)
Continuation ==
    /\ readPc = "frames" /\ parsed < received /\ Frame.op = "more"
    /\ parsed' = parsed + 1
    /\ LET parts == Append(fragment.parts, Payload(Frame))
       IN  IF fragment = NoFragment THEN UNCHANGED <<fragment, delivered, readPc>>
           ELSE IF Frame.fin THEN fragment' = NoFragment /\ Deliver(fragment.kind, parts)
           ELSE fragment' = [fragment EXCEPT !.parts = parts] /\ UNCHANGED <<delivered, readPc>>
    /\ UNCHANGED <<serverVars, unread, sockVars, mainVars, early, received>>

Pong ==
    /\ readPc = "pong" /\ (Sends \/ Fails)
    /\ readPc' = "frames"
    /\ UNCHANGED <<serverVars, sockVars, mainVars, early, received, parsed, fragment, delivered>>

CallbackEnds ==
    /\ readPc = "callback" /\ readPc' = "frames"
    /\ UNCHANGED <<serverVars, unread, sockVars, mainVars, early, received, parsed, fragment, delivered>>

(* Mutant: the loop goes back to recv() after every frame. *)
BufferLeft ==
    /\ readPc = "frames" /\ (parsed = received \/ parsed > early)
    /\ readPc' = "recv"
    /\ UNCHANGED <<serverVars, unread, sockVars, mainVars, early, received, parsed, fragment, delivered>>

BufferDone ==
    /\ readPc = "frames" /\ parsed = received
    /\ readPc' = "recv"
    /\ UNCHANGED <<serverVars, unread, sockVars, mainVars, early, received, parsed, fragment, delivered>>

(* ::close(fd_), and only then fd_ = -1. *)
CloseFd ==
    /\ readPc = "close" /\ readPc' = "clear"
    /\ sock' = "closed"
    /\ UNCHANGED <<serverVars, unread, fdSet, shut, mainVars, early, received, parsed, fragment, delivered>>

ClearFd ==
    /\ readPc = "clear" /\ readPc' = "done"
    /\ fdSet' = FALSE
    /\ UNCHANGED <<serverVars, unread, sock, shut, mainVars, early, received, parsed, fragment, delivered>>

ReadStep ==
    \/ \E n \in 1..MaxFrames : Recv(n)
    \/ RecvEnds \/ ControlFrame \/ FirstFrame \/ Continuation \/ Pong \/ CallbackEnds
    \/ BufferDone \/ CloseFd \/ ClearFd

-----------------------------------------------------------------------------
ServerStep == (\E r \in {"drip", "ok", "bad"} : Replies(r)) \/ ServerSends \/ ServerReads \/ ServerLeaves

Next == ConnectStep \/ BeginClose \/ CloseStep \/ ReadStep \/ ServerStep

Spec == Init /\ [][Next]_vars

(* Both threads run and TCP delivers; the server owes nothing, and main need *)
(* never be told to stop.                                                    *)
Fairness == WF_vars(ConnectStep) /\ WF_vars(CloseStep) /\ WF_vars(ReadStep)

FairSpec == Spec /\ Fairness

-----------------------------------------------------------------------------
Pieces == [msg : Nat, part : Nat]

Frames == [op : Kinds \cup {"more", "ping", "close"}, fin : BOOLEAN, msg : Nat, part : Nat]

TypeOK ==
    /\ reply \in {"none", "drip", "ok", "bad"} /\ left \in BOOLEAN /\ unread \in 0..Capacity
    /\ sent \in Seq(Frames)
    /\ sock \in {"none", "open", "closed"} /\ fdSet \in BOOLEAN /\ shut \in BOOLEAN
    /\ pc \in {"idle", "upgrade", "settings", "streaming", "failed",
               "closeFrame", "shutdown", "join", "closed", "destroyed"}
    /\ todo \in 0..Settings /\ threw \in BOOLEAN
    /\ readPc \in {"none", "recv", "frames", "callback", "pong", "close", "clear", "done"}
    /\ early \in Nat /\ received \in 0..Len(sent) /\ parsed \in 0..received
    /\ fragment \in [kind : Kinds \cup {"none"}, parts : Seq(Pieces)]
    /\ delivered \in Seq(Seq(Pieces))

(* The IQ messages whose last frame is among those taken out of buf. *)
Complete ==
    {sent[j].msg : j \in {i \in 1..parsed : IsData(sent[i]) /\ sent[i].fin
        /\ \E h \in 1..i : sent[h].op = "iq" /\ sent[h].msg = sent[i].msg}}

Whole(parts) ==
    LET m == parts[1].msg
    IN  /\ m \in Complete
        /\ \A k \in 1..Len(parts) : parts[k] = [msg |-> m, part |-> k]
        /\ \A i \in 1..Len(sent) : sent[i].msg = m => sent[i].part <= Len(parts)

(* onIq_ gets the server's IQ messages whole, in order, none twice and none *)
(* left out, however they are cut into fragments, with pings in between, and *)
(* however many frames each recv() returns.                                  *)
MessagesWhole ==
    /\ \A k \in 1..Len(delivered) : Whole(delivered[k])
    /\ \A j, k \in 1..Len(delivered) : j < k => delivered[j][1].msg < delivered[k][1].msg
    /\ \A m \in Complete : \E k \in 1..Len(delivered) : delivered[k][1].msg = m

(* When the read loop ends without a CLOSE frame, every frame it was given  *)
(* has been handled, but for those that came with the upgrade's reply: they  *)
(* wait for a recv() that succeeds.                                          *)
OnlyEarlyFramesLost ==
    readPc \in {"close", "clear", "done"} /\ parsed < received =>
        \/ parsed = 0 /\ received = early
        \/ parsed > 0 /\ sent[parsed].op = "close"

(* "avoiding a double-close/fd-reuse race" (close()): whichever thread gets *)
(* there first, and wherever connect() failed, the descriptor is closed      *)
(* exactly once: fd_ is never a closed number when the destructor looks.     *)
ClosedOnce ==
    /\ pc = "closed" => (fdSet <=> sock = "open")
    /\ readPc = "close" => sock = "open"
    /\ pc = "destroyed" => sock # "open"

SourceState ==
    IF threw THEN "failed"
    ELSE CASE pc = "idle" -> "idle"
           [] pc \in {"upgrade", "settings"} -> "connecting"
           [] pc = "streaming" -> "streaming"
           [] pc \in {"closed", "destroyed"} -> "closed"
           [] OTHER -> "closing"

Source == INSTANCE IqSource WITH state <- SourceState, inCallback <- readPc = "callback"

(* The promise of iq_source.hpp, kept by a read thread that is joined. *)
KeepsSourcePromise == Source!Spec

(* connect() comes to an end, with a server that accepts and never answers   *)
(* too, unless it drips its answer or does not read the settings.            *)
ConnectSettles ==
    pc = "upgrade" ~> (pc \in {"streaming", "failed"} \/ [](reply = "drip") \/ [](unread = Capacity))

(* close() ends and the client is destroyed, also with the server silent or *)
(* gone; only a server that stops reading can keep it from ending.           *)
CloseEnds == pc = "closeFrame" ~> (pc = "destroyed" \/ [](unread = Capacity))
=============================================================================
