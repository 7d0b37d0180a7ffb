------------------------------ MODULE SpyServer ------------------------------
(***************************************************************************)
(* The SpyServer endpoint of one virtual receiver (spyserver/server.cpp):    *)
(* sessions, replies and the IQ broadcast, under clientsMutex_.  Unlike      *)
(* rtl_tcp's, this lock is held over a BLOCKING send: sendMessage() waits    *)
(* inside it for room in the client's socket buffer.  That wait is the only  *)
(* critical section that is more than one step; the others are one step that *)
(* needs the lock free.                                                      *)
(*                                                                           *)
(* A connection stands for its descriptor (what the kernel does with the     *)
(* numbers is in RtlTcpServer).  Buffer room is counted in control messages. *)
(***************************************************************************)
EXTENDS Naturals, Sequences

CONSTANTS Conns,      (* connections clients may make                         *)
          Talkers,    (* those of them that send commands                     *)
          Free,       (* clientsMutex_ held by nobody                         *)
          Commands,   (* the commands clients send, out of AllCommands        *)
          MaxCommands,(* bound on the commands of all clients together        *)
          Capacity,   (* room of a socket buffer                              *)
          MaxChunks   (* bound on the chunks broadcast                        *)

(* "badHello" has a short body; "modeOther" is a StreamingMode without the   *)
(* IQ bit; "other" is any command that leaves the session alone: a setting   *)
(* that is ignored, a retune, an unknown type; "oversized" claims a body of  *)
(* more than kMaxCommandBodySize.                                            *)
AllCommands == {"hello", "badHello", "modeIq", "modeOther", "enable", "disable",
                "ping", "other", "oversized"}

ASSUME SpyAssumption ==
    /\ Free \notin Conns /\ Talkers \subseteq Conns /\ Commands \subseteq AllCommands
    /\ MaxCommands \in Nat /\ Capacity \in Nat /\ MaxChunks \in Nat

VARIABLES
    \* the kernel, and the clients
    listenFd,    (* "none", "open" or "closed"                                *)
    peer,        (* "new", "pending" in the backlog, "open", "closed"         *)
    gone, shut,  (* clients that left; sockets shutdown() was called on       *)
    inbox,       (* commands a client sent that recv() has not returned       *)
    buffered,    (* how much of the socket buffer is full                     *)
    asked,       (* commands the clients have sent                            *)
    first,       (* how each began: "silent", "polite" with a Hello, "rude"   *)
    wire,        (* messages the server put on each connection, in order      *)
    \* the process
    running, mainPc, toShut,
    acceptPc, newConn,
    mutex,       (* clientsMutex_: Free, or whose reply is being sent in it   *)
    clients,     (* the keys of clients_                                      *)
    session,     (* the ClientState of each                                   *)
    readPc,      (* where each clientReadLoop() is                            *)
    command,     (* the command it is handling                                *)
    replies,     (* the messages it has yet to send for it                    *)
    streamPc,    (* the streaming thread: "idle", or "waiting" for the lock   *)
    chunks       (* chunks broadcast so far                                   *)

netVars    == <<listenFd, peer, gone, shut, inbox, asked, first>>
outVars    == <<buffered, wire>>
mainVars   == <<running, mainPc, toShut>>
acceptVars == <<acceptPc, newConn>>
tableVars  == <<clients, session>>
readVars   == <<readPc, command, replies>>
streamVars == <<streamPc, chunks>>
vars == <<netVars, outVars, mainVars, acceptVars, mutex, tableVars, readVars, streamVars>>

(* ClientState{} *)
NewSession == [hello |-> FALSE, enabled |-> FALSE, iq |-> FALSE, seq |-> 0]

Init ==
    /\ listenFd = "none"
    /\ peer = [c \in Conns |-> "new"]
    /\ gone = {} /\ shut = {}
    /\ inbox = [c \in Conns |-> <<>>]
    /\ asked = 0 /\ first = [c \in Conns |-> "silent"]
    /\ buffered = [c \in Conns |-> 0]
    /\ wire = [c \in Conns |-> <<>>]
    /\ running = FALSE /\ mainPc = "init" /\ toShut = {}
    /\ acceptPc = "none" /\ newConn = Free
    /\ mutex = Free
    /\ clients = {} /\ session = [c \in Conns |-> NewSession]
    /\ readPc = [c \in Conns |-> "none"]
    /\ command = [c \in Conns |-> "other"]
    /\ replies = [c \in Conns |-> <<>>]
    /\ streamPc = "idle" /\ chunks = 0

-----------------------------------------------------------------------------
(* The clients. *)

Connect(c) ==
    /\ listenFd = "open" /\ peer[c] = "new"
    /\ peer' = [peer EXCEPT ![c] = "pending"]
    /\ UNCHANGED <<listenFd, gone, shut, inbox, asked, first, outVars, mainVars, acceptVars,
                   mutex, tableVars, readVars, streamVars>>

SendCommand(c, cmd) ==
    /\ c \in Talkers /\ peer[c] \in {"pending", "open"} /\ c \notin gone
    /\ asked < MaxCommands
    /\ asked' = asked + 1
    /\ inbox' = [inbox EXCEPT ![c] = Append(@, cmd)]
    /\ first' = [first EXCEPT ![c] = IF @ # "silent" THEN @ ELSE IF cmd = "hello" THEN "polite" ELSE "rude"]
    /\ UNCHANGED <<listenFd, peer, gone, shut, outVars, mainVars, acceptVars,
                   mutex, tableVars, readVars, streamVars>>

ClientRead(c) ==
    /\ buffered[c] > 0 /\ c \notin gone
    /\ buffered' = [buffered EXCEPT ![c] = @ - 1]
    /\ UNCHANGED <<netVars, wire, mainVars, acceptVars, mutex, tableVars, readVars, streamVars>>

Leave(c) ==
    /\ peer[c] # "new" /\ c \notin gone
    /\ gone' = gone \cup {c}
    /\ UNCHANGED <<listenFd, peer, shut, inbox, asked, first, outVars, mainVars, acceptVars,
                   mutex, tableVars, readVars, streamVars>>

-----------------------------------------------------------------------------
(* start() and stop(). *)

Start ==
    /\ mainPc = "init"
    /\ mainPc' = "up" /\ running' = TRUE
    /\ listenFd' = "open" /\ acceptPc' = "check"
    /\ UNCHANGED <<peer, gone, shut, inbox, asked, first, outVars, toShut, newConn,
                   mutex, tableVars, readVars, streamVars>>

StartFails ==
    /\ mainPc = "init"
    /\ mainPc' = "failed"
    /\ UNCHANGED <<netVars, outVars, running, toShut, acceptVars, mutex, tableVars, readVars, streamVars>>

StopBegin ==
    /\ mainPc = "up"
    /\ running' = FALSE /\ mainPc' = "closing"
    /\ UNCHANGED <<netVars, outVars, toShut, acceptVars, mutex, tableVars, readVars, streamVars>>

CloseListen ==
    /\ mainPc = "closing"
    /\ listenFd' = "closed" /\ mainPc' = "joining"
    /\ UNCHANGED <<peer, gone, shut, inbox, asked, first, outVars, running, toShut, acceptVars,
                   mutex, tableVars, readVars, streamVars>>

(* Mutant: the accept thread is not joined before the snapshot. *)
JoinSkipped ==
    /\ mainPc = "joining"
    /\ mainPc' = "snapshot"
    /\ UNCHANGED <<netVars, outVars, running, toShut, acceptVars, mutex, tableVars, readVars, streamVars>>

JoinAccept ==
    /\ mainPc = "joining" /\ acceptPc = "done"
    /\ mainPc' = "snapshot"
    /\ UNCHANGED <<netVars, outVars, running, toShut, acceptVars, mutex, tableVars, readVars, streamVars>>

Snapshot ==
    /\ mainPc = "snapshot" /\ mutex = Free
    /\ toShut' = clients /\ mainPc' = "shutting"
    /\ UNCHANGED <<netVars, outVars, running, acceptVars, mutex, tableVars, readVars, streamVars>>

ShutdownOne(c) ==
    /\ mainPc = "shutting" /\ c \in toShut
    /\ toShut' = toShut \ {c} /\ shut' = shut \cup {c}
    /\ UNCHANGED <<listenFd, peer, gone, inbox, asked, first, outVars, running, mainPc, acceptVars,
                   mutex, tableVars, readVars, streamVars>>

StopReturn ==
    /\ mainPc = "shutting" /\ toShut = {}
    /\ mainPc' = "stopped"
    /\ UNCHANGED <<netVars, outVars, running, toShut, acceptVars, mutex, tableVars, readVars, streamVars>>

StopStep == CloseListen \/ JoinAccept \/ Snapshot \/ (\E c \in Conns : ShutdownOne(c)) \/ StopReturn

-----------------------------------------------------------------------------
(* acceptLoop(). *)

AcceptCheck ==
    /\ acceptPc = "check"
    /\ acceptPc' = IF running THEN "accept" ELSE "done"
    /\ UNCHANGED <<netVars, outVars, mainVars, newConn, mutex, tableVars, readVars, streamVars>>

AcceptOne(c) ==
    /\ acceptPc = "accept" /\ listenFd = "open" /\ peer[c] = "pending"
    /\ peer' = [peer EXCEPT ![c] = "open"]
    /\ newConn' = c /\ acceptPc' = "register"
    /\ UNCHANGED <<listenFd, gone, shut, inbox, asked, first, outVars, mainVars,
                   mutex, tableVars, readVars, streamVars>>

AcceptFails ==
    /\ acceptPc = "accept" /\ listenFd = "closed"
    /\ acceptPc' = "check"
    /\ UNCHANGED <<netVars, outVars, mainVars, newConn, mutex, tableVars, readVars, streamVars>>

Register ==
    /\ acceptPc = "register" /\ mutex = Free
    /\ clients' = clients \cup {newConn}
    /\ session' = [session EXCEPT ![newConn] = NewSession]
    /\ acceptPc' = "spawn"
    /\ UNCHANGED <<netVars, outVars, mainVars, newConn, mutex, readVars, streamVars>>

Spawn ==
    /\ acceptPc = "spawn"
    /\ readPc' = [readPc EXCEPT ![newConn] = "recv"]
    /\ acceptPc' = "check" /\ newConn' = Free
    /\ UNCHANGED <<netVars, outVars, mainVars, mutex, tableVars, command, replies, streamVars>>

AcceptStep == AcceptCheck \/ (\E c \in Conns : AcceptOne(c)) \/ AcceptFails \/ Register \/ Spawn

-----------------------------------------------------------------------------
(* clientReadLoop() and handleCommand(), one thread per connection. *)

Recv(c) ==
    /\ readPc[c] = "recv" /\ inbox[c] # <<>>
    /\ command' = [command EXCEPT ![c] = Head(inbox[c])]
    /\ inbox' = [inbox EXCEPT ![c] = Tail(@)]
    /\ readPc' = [readPc EXCEPT ![c] = "handle"]
    /\ UNCHANGED <<listenFd, peer, gone, shut, asked, first, outVars, mainVars, acceptVars,
                   mutex, tableVars, replies, streamVars>>

(* Mutant: the thread closes its socket without removeClient(). *)
RecvEndsUnremoved(c) ==
    /\ readPc[c] = "recv" /\ c \in gone
    /\ readPc' = [readPc EXCEPT ![c] = "close"]
    /\ UNCHANGED <<netVars, outVars, mainVars, acceptVars, mutex, tableVars, command, replies, streamVars>>

(* What was sent before the end of the stream is received first, unless the *)
(* client reset the connection.                                              *)
RecvEnds(c) ==
    /\ readPc[c] = "recv"
    /\ c \in gone \/ (c \in shut /\ inbox[c] = <<>>)
    /\ readPc' = [readPc EXCEPT ![c] = "remove"]
    /\ UNCHANGED <<netVars, outVars, mainVars, acceptVars, mutex, tableVars, command, replies, streamVars>>

Handling(c, cmds) == readPc[c] = "handle" /\ command[c] \in cmds

(* The session as handleHello() leaves it: streamingMode defaults to IQ. *)
(* Mutant: and streaming is switched on at once.                         *)
AfterHelloEnabled(s) == [s EXCEPT !.hello = TRUE, !.iq = TRUE, !.enabled = TRUE]

(* Mutant: a new handshake numbers its messages from zero again. *)
AfterHelloReset(s) == [s EXCEPT !.hello = TRUE, !.iq = TRUE, !.seq = 0]

AfterHello(s) == [s EXCEPT !.hello = TRUE, !.iq = TRUE]

(* Mutant: only the device info is sent, the client sync forgotten. *)
HandleHelloShort(c) ==
    /\ Handling(c, {"hello"}) /\ mutex = Free
    /\ session' = [session EXCEPT ![c] = AfterHello(@)]
    /\ replies' = [replies EXCEPT ![c] = <<"DeviceInfo">>]
    /\ readPc' = [readPc EXCEPT ![c] = "reply"]
    /\ UNCHANGED <<netVars, outVars, mainVars, acceptVars, mutex, clients, command, streamVars>>

HandleHello(c) ==
    /\ Handling(c, {"hello"}) /\ mutex = Free
    /\ session' = [session EXCEPT ![c] = AfterHello(@)]
    /\ replies' = [replies EXCEPT ![c] = <<"DeviceInfo", "ClientSync">>]
    /\ readPc' = [readPc EXCEPT ![c] = "reply"]
    /\ UNCHANGED <<netVars, outVars, mainVars, acceptVars, mutex, clients, command, streamVars>>

AfterSetting(s, cmd) ==
    CASE cmd = "modeIq"    -> [s EXCEPT !.iq = TRUE]
      [] cmd = "modeOther" -> [s EXCEPT !.iq = FALSE]
      [] cmd = "enable"    -> [s EXCEPT !.enabled = TRUE]
      [] cmd = "disable"   -> [s EXCEPT !.enabled = FALSE]

HandleSetSetting(c) ==
    /\ Handling(c, {"modeIq", "modeOther", "enable", "disable"}) /\ mutex = Free
    /\ session' = [session EXCEPT ![c] = AfterSetting(@, command[c])]
    /\ readPc' = [readPc EXCEPT ![c] = "recv"]
    /\ UNCHANGED <<netVars, outVars, mainVars, acceptVars, mutex, clients, command, replies, streamVars>>

HandlePing(c) ==
    /\ Handling(c, {"ping"})
    /\ replies' = [replies EXCEPT ![c] = <<"Pong">>]
    /\ readPc' = [readPc EXCEPT ![c] = "reply"]
    /\ UNCHANGED <<netVars, outVars, mainVars, acceptVars, mutex, tableVars, command, streamVars>>

HandleOther(c) ==
    /\ Handling(c, {"badHello", "other"})
    /\ readPc' = [readPc EXCEPT ![c] = "recv"]
    /\ UNCHANGED <<netVars, outVars, mainVars, acceptVars, mutex, tableVars, command, replies, streamVars>>

(* protocolError: the loop is left, and the client disconnected. *)
HandleOversized(c) ==
    /\ Handling(c, {"oversized"})
    /\ readPc' = [readPc EXCEPT ![c] = "remove"]
    /\ UNCHANGED <<netVars, outVars, mainVars, acceptVars, mutex, tableVars, command, replies, streamVars>>

-----------------------------------------------------------------------------
(* sendMessage(): one control message, sent inside clientsMutex_. *)

Dead(c) == c \in gone \cup shut

Room(c) == Capacity - buffered[c]

ControlSize == 1

(* Put a message on the wire of c, or as much of it as there is room for. *)
Put(c, type, seq, size) ==
    LET taken == IF size <= Room(c) THEN size ELSE Room(c)
    IN  [buf   |-> buffered[c] + taken,
         items |-> IF taken = 0 THEN wire[c]
                   ELSE Append(wire[c], [type |-> type, seq |-> seq, whole |-> taken = size])]

(* The message is sent, or refused because the connection is over. *)
Sent(c) ==
    /\ IF Dead(c) THEN UNCHANGED outVars
       ELSE LET put == Put(c, Head(replies[c]), session[c].seq, ControlSize)
            IN  /\ buffered' = [buffered EXCEPT ![c] = put.buf]
                /\ wire' = [wire EXCEPT ![c] = put.items]
    /\ session' = [session EXCEPT ![c].seq = @ + 1]
    /\ replies' = [replies EXCEPT ![c] = Tail(@)]
    /\ readPc' = [readPc EXCEPT ![c] = IF Len(replies[c]) = 1 THEN "recv" ELSE "reply"]
    /\ UNCHANGED <<netVars, mainVars, acceptVars, clients, command, streamVars>>

SendNow(c) ==
    /\ readPc[c] = "reply" /\ mutex = Free
    /\ Dead(c) \/ Room(c) >= ControlSize
    /\ Sent(c)
    /\ UNCHANGED mutex

(* No room: send() blocks, with the lock held. *)
SendBlocks(c) ==
    /\ readPc[c] = "reply" /\ mutex = Free
    /\ ~Dead(c) /\ Room(c) < ControlSize
    /\ mutex' = c
    /\ readPc' = [readPc EXCEPT ![c] = "blocked"]
    /\ UNCHANGED <<netVars, outVars, mainVars, acceptVars, tableVars, command, replies, streamVars>>

(* Mutant: the blocked send only ends when there is room, not when the peer is gone. *)
SendResumesDeaf(c) ==
    /\ readPc[c] = "blocked"
    /\ Room(c) >= ControlSize
    /\ Sent(c)
    /\ mutex' = Free

SendResumes(c) ==
    /\ readPc[c] = "blocked"
    /\ Dead(c) \/ Room(c) >= ControlSize
    /\ Sent(c)
    /\ mutex' = Free

Remove(c) ==
    /\ readPc[c] = "remove" /\ mutex = Free
    /\ clients' = clients \ {c}
    /\ readPc' = [readPc EXCEPT ![c] = "close"]
    /\ UNCHANGED <<netVars, outVars, mainVars, acceptVars, mutex, session, command, replies, streamVars>>

Close(c) ==
    /\ readPc[c] = "close"
    /\ peer' = [peer EXCEPT ![c] = "closed"]
    /\ readPc' = [readPc EXCEPT ![c] = "done"]
    /\ UNCHANGED <<listenFd, gone, shut, inbox, asked, first, outVars, mainVars, acceptVars,
                   mutex, tableVars, command, replies, streamVars>>

ReadStep(c) ==
    \/ Recv(c) \/ RecvEnds(c)
    \/ HandleHello(c) \/ HandleSetSetting(c) \/ HandlePing(c) \/ HandleOther(c) \/ HandleOversized(c)
    \/ SendNow(c) \/ SendBlocks(c) \/ SendResumes(c)
    \/ Remove(c) \/ Close(c)

-----------------------------------------------------------------------------
(* broadcastIq(), on the streaming thread every virtual receiver shares. *)

IqSize == 2

ChunkArrives ==
    /\ streamPc = "idle" /\ chunks < MaxChunks /\ mainPc \notin {"init", "failed"}
    /\ streamPc' = "waiting" /\ chunks' = chunks + 1
    /\ UNCHANGED <<netVars, outVars, mainVars, acceptVars, mutex, tableVars, readVars>>

(* Mutant: the handshake is not asked for. *)
StreamingToAnyone(c) == c \in clients /\ session[c].enabled

Streaming(c) == c \in clients /\ session[c].hello /\ session[c].enabled /\ session[c].iq

(* Every send is MSG_DONTWAIT: what there is no room for is dropped, and *)
(* numbered all the same.                                                 *)
Broadcast ==
    /\ streamPc = "waiting" /\ mutex = Free
    /\ streamPc' = "idle"
    /\ LET put == [c \in Conns |->
                       IF Streaming(c) /\ ~Dead(c) THEN Put(c, "IQ", session[c].seq, IqSize)
                       ELSE [buf |-> buffered[c], items |-> wire[c]]]
       IN  /\ buffered' = [c \in Conns |-> put[c].buf]
           /\ wire' = [c \in Conns |-> put[c].items]
    /\ session' = [c \in Conns |-> IF Streaming(c) THEN [session[c] EXCEPT !.seq = @ + 1] ELSE session[c]]
    /\ UNCHANGED <<netVars, mainVars, acceptVars, mutex, clients, readVars, chunks>>

-----------------------------------------------------------------------------
EnvStep == \E c \in Conns :
    Connect(c) \/ (\E cmd \in Commands : SendCommand(c, cmd)) \/ ClientRead(c) \/ Leave(c)

(* The endpoint never came up, or has stopped and served its last client. *)
Ended ==
    /\ mainPc = "failed" \/ (mainPc = "stopped" /\ \A c \in Conns : readPc[c] \in {"none", "done"})
    /\ UNCHANGED vars

Next ==
    \/ Ended
    \/ Start \/ StartFails \/ StopBegin \/ StopStep
    \/ AcceptStep
    \/ \E c \in Conns : ReadStep(c)
    \/ ChunkArrives \/ Broadcast
    \/ EnvStep

Spec == Init /\ [][Next]_vars

(* The process's threads are scheduled; whoever waits for the lock gets it  *)
(* when it stays free; clients owe nothing.                                 *)
Fairness ==
    /\ WF_vars(StopStep) /\ WF_vars(AcceptStep) /\ WF_vars(Broadcast)
    /\ \A c \in Conns : WF_vars(ReadStep(c))

FairSpec == Spec /\ Fairness

(* Clients that go on reading what they are sent until they leave; who never *)
(* asks is sent nothing.                                                      *)
ReadingClients == FairSpec /\ \A c \in Talkers : WF_vars(ClientRead(c))

-----------------------------------------------------------------------------
Reply == {"DeviceInfo", "ClientSync", "Pong"}
Message == [type : Reply \cup {"IQ"}, seq : Nat, whole : BOOLEAN]
SessionState == [hello : BOOLEAN, enabled : BOOLEAN, iq : BOOLEAN, seq : Nat]

TypeOK ==
    /\ listenFd \in {"none", "open", "closed"}
    /\ peer \in [Conns -> {"new", "pending", "open", "closed"}]
    /\ gone \subseteq Conns /\ shut \subseteq Conns
    /\ inbox \in [Conns -> Seq(AllCommands)]
    /\ buffered \in [Conns -> 0..Capacity] /\ asked \in 0..MaxCommands
    /\ first \in [Conns -> {"silent", "polite", "rude"}]
    /\ wire \in [Conns -> Seq(Message)]
    /\ running \in BOOLEAN /\ toShut \subseteq Conns
    /\ mainPc \in {"init", "failed", "up", "closing", "joining", "snapshot", "shutting", "stopped"}
    /\ acceptPc \in {"none", "check", "accept", "register", "spawn", "done"}
    /\ newConn \in Conns \cup {Free} /\ mutex \in Conns \cup {Free}
    /\ clients \subseteq Conns
    /\ session \in [Conns -> SessionState]
    /\ readPc \in [Conns -> {"none", "recv", "handle", "reply", "blocked", "remove", "close", "done"}]
    /\ command \in [Conns -> AllCommands]
    /\ replies \in [Conns -> Seq(Reply)]
    /\ streamPc \in {"idle", "waiting"} /\ chunks \in 0..MaxChunks

(* Two threads number the messages of one client; on its wire the numbers   *)
(* still only ever grow, whatever was dropped between them.                  *)
SequenceGrows ==
    \A c \in Conns : \A i, j \in 1..Len(wire[c]) :
        i < j => wire[c][i].seq < wire[c][j].seq

(* A client that says Hello first hears the device info, then the client    *)
(* sync, before any IQ, whatever it asks for while they are being sent.      *)
HandshakeLeads ==
    \A c \in {d \in Conns : first[d] = "polite"} :
        /\ Len(wire[c]) >= 1 => wire[c][1].type = "DeviceInfo"
        /\ Len(wire[c]) >= 2 => wire[c][2].type = "ClientSync"

(* A client that never said Hello is never sent IQ, even if it enables it. *)
NoIqUninvited ==
    \A c \in Conns : (\E i \in 1..Len(wire[c]) : wire[c][i].type = "IQ") => session[c].hello

(* Whatever is streamed goes to connections that are still open: a client   *)
(* is out of clients_ before its socket is closed.                           *)
StreamedToOpen == \A c \in clients : peer[c] = "open"

(* What the endpoint is to main() and to the virtual receiver. *)
EndpointState ==
    CASE mainPc \in {"init", "failed"} -> "down"
      [] mainPc = "up" -> "up"
      [] mainPc \in {"closing", "joining", "snapshot"} -> "stopping"
      [] mainPc = "shutting" -> "draining"
      [] mainPc = "stopped" -> "stopped"

Phase(c) ==
    IF peer[c] = "closed" THEN "closed"
    ELSE IF c \in clients THEN "served" ELSE IF readPc[c] = "close" THEN "left" ELSE "away"

Heard(c) == [i \in 1..Len(wire[c]) |-> IF wire[c][i].type = "IQ" THEN "iq" ELSE "talk"]

Endpoint == INSTANCE IqEndpoint WITH
    state <- EndpointState, phase <- [c \in Conns |-> Phase(c)],
    over <- gone \cup shut, heard <- [c \in Conns |-> Heard(c)]

(* The promise of an endpoint: replies and IQ go to clients in clients_, on  *)
(* open sockets, a client is out of clients_ before its socket is closed,    *)
(* and stop() returns only when every client still there has left or was     *)
(* shut down, also with a reply blocked in the lock while it runs.           *)
KeepsEndpointPromise == Endpoint!Spec

(* From stop()'s snapshot on, no client is added that it would miss. *)
NoLateClient ==
    [][ (mainPc \in {"snapshot", "shutting", "stopped"}) => (clients' \subseteq clients) ]_vars

(* The streaming thread always gets through, so no client can hold up the   *)
(* virtual receivers it shares that thread with.                             *)
BroadcastReturns == streamPc = "waiting" ~> streamPc = "idle"

(* stop() always returns. *)
StopReturns == mainPc = "closing" ~> mainPc = "stopped"

Talk(c) == SelectSeq(wire[c], LAMBDA m : m.type # "IQ")

(* Every Hello, the first and a repeated one, is answered in full: when the *)
(* client's thread waits for the next command, the client sync was the last *)
(* reply, unless the connection has ended.                                   *)
HelloAnswered ==
    \A c \in Talkers : Handling(c, {"hello"}) ~>
        (Dead(c) \/ (readPc[c] = "recv" /\ Talk(c) # <<>> /\ Talk(c)[Len(Talk(c))].type = "ClientSync"))
=============================================================================
