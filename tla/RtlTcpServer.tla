---------------------------- MODULE RtlTcpServer ----------------------------
(***************************************************************************)
(* The rtl_tcp endpoint of one virtual receiver (rtltcp/server.cpp): the    *)
(* accept thread, one detached read thread per client, the streaming thread *)
(* that broadcasts, and main, which starts and stops it, over the kernel's  *)
(* table of file descriptors, which it shares with the other endpoints.     *)
(*                                                                          *)
(* clientsMutex_ is only ever held over non-blocking calls, so each of its  *)
(* critical sections is one step.  A client's commands (handleCommand) only *)
(* reach the VirtualReceiver and leave this state alone.                    *)
(***************************************************************************)
EXTENDS Naturals, Sequences, FiniteSets

CONSTANTS Conns,       (* TCP connections clients may make to this port       *)
          Foreign,     (* stands for any socket of another endpoint           *)
          NoConn,      (* a descriptor that is not open                       *)
          NumFds,      (* descriptors the process may hold (RLIMIT_NOFILE)    *)
          ChunkBytes,  (* bytes of one broadcast chunk                        *)
          MaxChunks    (* bound on the chunks broadcast                       *)

ASSUME RtlTcpAssumption ==
    /\ Foreign \notin Conns /\ NoConn \notin Conns /\ Foreign # NoConn
    /\ NumFds \in Nat /\ ChunkBytes \in Nat \ {0} /\ MaxChunks \in Nat

VARIABLES
    \* the kernel
    fdConn,      (* what each descriptor refers to                            *)
    listenFd,    (* the listening socket: "none", "open" or "closed"          *)
    peer,        (* each connection: "new", "pending" in the backlog, "open"  *)
    gone,        (* connections whose client has left                         *)
    shut,        (* connections shutdown() was called on                      *)
    wire,        (* what each client was sent: chunks and their bytes         *)
    \* the process
    running,     (* running_                                                  *)
    clientFds,   (* clientFds_: no descriptor is ever in it twice             *)
    mainPc,      (* where main is in start() and stop()                       *)
    toShut,      (* stop()'s snapshot, less what was shut down                *)
    acceptPc,    (* where the accept thread is                                *)
    newConn,     (* the connection accept() returned last                     *)
    readPc,      (* where each connection's clientReadLoop() is               *)
    fdOf,        (* the descriptor accept() gave each connection              *)
    chunks       (* chunks broadcast so far                                   *)

kernelVars == <<fdConn, listenFd, peer, gone, shut, wire>>
mainVars   == <<running, mainPc, toShut>>
acceptVars == <<acceptPc, newConn>>
readVars   == <<readPc, fdOf>>
vars == <<kernelVars, mainVars, acceptVars, readVars, clientFds, chunks>>

Fds == 1..NumFds

(* What one send() puts on a wire: bytes of a chunk. *)
Piece == [chunk : Nat, bytes : Nat]

(* The 12-byte RTL0 header, chunk number 0 of the wire. *)
Header == [chunk |-> 0, bytes |-> 12]

Init ==
    /\ fdConn = [fd \in Fds |-> NoConn]
    /\ listenFd = "none"
    /\ peer = [c \in Conns |-> "new"]
    /\ gone = {} /\ shut = {}
    /\ wire = [c \in Conns |-> <<>>]
    /\ running = FALSE
    /\ clientFds = {}
    /\ mainPc = "init" /\ toShut = {}
    /\ acceptPc = "none" /\ newConn = NoConn
    /\ readPc = [c \in Conns |-> "none"]
    /\ fdOf = [c \in Conns |-> 0]
    /\ chunks = 0

-----------------------------------------------------------------------------
(* The clients, and the other endpoints of the process. *)

Connect(c) ==
    /\ listenFd = "open" /\ peer[c] = "new"
    /\ peer' = [peer EXCEPT ![c] = "pending"]
    /\ UNCHANGED <<fdConn, listenFd, gone, shut, wire, mainVars, acceptVars, readVars, clientFds, chunks>>

Leave(c) ==
    /\ peer[c] # "new" /\ c \notin gone
    /\ gone' = gone \cup {c}
    /\ UNCHANGED <<fdConn, listenFd, peer, shut, wire, mainVars, acceptVars, readVars, clientFds, chunks>>

(* POSIX hands out the lowest free descriptor. *)
LowestFree(fd) == fdConn[fd] = NoConn /\ \A g \in 1..(fd - 1) : fdConn[g] # NoConn

ForeignOpen(fd) ==
    /\ LowestFree(fd)
    /\ fdConn' = [fdConn EXCEPT ![fd] = Foreign]
    /\ UNCHANGED <<listenFd, peer, gone, shut, wire, mainVars, acceptVars, readVars, clientFds, chunks>>

ForeignClose(fd) ==
    /\ fdConn[fd] = Foreign
    /\ fdConn' = [fdConn EXCEPT ![fd] = NoConn]
    /\ UNCHANGED <<listenFd, peer, gone, shut, wire, mainVars, acceptVars, readVars, clientFds, chunks>>

-----------------------------------------------------------------------------
(* start() and stop(), on the main thread. *)

Start ==
    /\ mainPc = "init"
    /\ mainPc' = "up" /\ running' = TRUE
    /\ listenFd' = "open"
    /\ acceptPc' = "check"
    /\ UNCHANGED <<fdConn, peer, gone, shut, wire, toShut, newConn, readVars, clientFds, chunks>>

(* socket(), bind() or listen() failed: start() throws; stop() then does nothing. *)
StartFails ==
    /\ mainPc = "init"
    /\ mainPc' = "failed"
    /\ UNCHANGED <<kernelVars, running, toShut, acceptVars, readVars, clientFds, chunks>>

StopBegin ==
    /\ mainPc = "up"
    /\ running' = FALSE /\ mainPc' = "closing"
    /\ UNCHANGED <<kernelVars, toShut, acceptVars, readVars, clientFds, chunks>>

CloseListen ==
    /\ mainPc = "closing"
    /\ listenFd' = "closed" /\ mainPc' = "joining"
    /\ UNCHANGED <<fdConn, peer, gone, shut, wire, running, toShut, acceptVars, readVars, clientFds, chunks>>

(* Mutant: the accept thread is not joined before the snapshot. *)
JoinSkipped ==
    /\ mainPc = "joining"
    /\ mainPc' = "snapshot"
    /\ UNCHANGED <<kernelVars, running, toShut, acceptVars, readVars, clientFds, chunks>>

JoinAccept ==
    /\ mainPc = "joining" /\ acceptPc = "done"
    /\ mainPc' = "snapshot"
    /\ UNCHANGED <<kernelVars, running, toShut, acceptVars, readVars, clientFds, chunks>>

Snapshot ==
    /\ mainPc = "snapshot"
    /\ toShut' = clientFds /\ mainPc' = "shutting"
    /\ UNCHANGED <<kernelVars, running, acceptVars, readVars, clientFds, chunks>>

(* Mutant: stop() also closes the descriptor, as if it owned it. *)
ShutdownAndClose(fd) ==
    /\ mainPc = "shutting" /\ fd \in toShut
    /\ toShut' = toShut \ {fd}
    /\ shut' = shut \cup ({fdConn[fd]} \cap Conns)
    /\ fdConn' = [fdConn EXCEPT ![fd] = NoConn]
    /\ UNCHANGED <<listenFd, peer, gone, wire, running, mainPc, acceptVars, readVars, clientFds, chunks>>

(* shutdown(fd), outside the lock: it acts on what the number refers to NOW. *)
ShutdownOne(fd) ==
    /\ mainPc = "shutting" /\ fd \in toShut
    /\ toShut' = toShut \ {fd}
    /\ shut' = shut \cup ({fdConn[fd]} \cap Conns)
    /\ UNCHANGED <<fdConn, listenFd, peer, gone, wire, running, mainPc, acceptVars, readVars, clientFds, chunks>>

StopReturn ==
    /\ mainPc = "shutting" /\ toShut = {}
    /\ mainPc' = "stopped"
    /\ UNCHANGED <<kernelVars, running, toShut, acceptVars, readVars, clientFds, chunks>>

-----------------------------------------------------------------------------
(* acceptLoop(). *)

(* Mutant: the loop does not look at running_ again. *)
AcceptCheckAlways ==
    /\ acceptPc = "check"
    /\ acceptPc' = "accept"
    /\ UNCHANGED <<kernelVars, mainVars, newConn, readVars, clientFds, chunks>>

AcceptCheck ==
    /\ acceptPc = "check"
    /\ acceptPc' = IF running THEN "accept" ELSE "done"
    /\ UNCHANGED <<kernelVars, mainVars, newConn, readVars, clientFds, chunks>>

(* Mutant: the client is put in clientFds_ before it was sent the header. *)
AcceptAndRegister(c, fd) ==
    /\ acceptPc = "accept" /\ listenFd = "open"
    /\ peer[c] = "pending" /\ LowestFree(fd)
    /\ peer' = [peer EXCEPT ![c] = "open"]
    /\ fdConn' = [fdConn EXCEPT ![fd] = c]
    /\ fdOf' = [fdOf EXCEPT ![c] = fd]
    /\ clientFds' = clientFds \cup {fd}
    /\ newConn' = c /\ acceptPc' = "greet"
    /\ UNCHANGED <<listenFd, gone, shut, wire, mainVars, readPc, chunks>>

AcceptOne(c, fd) ==
    /\ acceptPc = "accept" /\ listenFd = "open"
    /\ peer[c] = "pending" /\ LowestFree(fd)
    /\ peer' = [peer EXCEPT ![c] = "open"]
    /\ fdConn' = [fdConn EXCEPT ![fd] = c]
    /\ fdOf' = [fdOf EXCEPT ![c] = fd]
    /\ newConn' = c /\ acceptPc' = "greet"
    /\ UNCHANGED <<listenFd, gone, shut, wire, mainVars, readPc, clientFds, chunks>>

(* accept() fails once stop() has shut the listening socket down, and for   *)
(* as long as the process is out of descriptors; the loop goes round.       *)
AcceptFails ==
    /\ acceptPc = "accept"
    /\ \/ listenFd = "closed"
       \/ (\E c \in Conns : peer[c] = "pending") /\ (\A fd \in Fds : fdConn[fd] # NoConn)
    /\ acceptPc' = "check"
    /\ UNCHANGED <<kernelVars, mainVars, newConn, readVars, clientFds, chunks>>

SendHeader(w, c) == IF c \in gone THEN w ELSE [w EXCEPT ![c] = Append(@, Header)]

Greet ==
    /\ acceptPc = "greet"
    /\ wire' = SendHeader(wire, newConn)
    /\ acceptPc' = "register"
    /\ UNCHANGED <<fdConn, listenFd, peer, gone, shut, mainVars, newConn, readVars, clientFds, chunks>>

Register ==
    /\ acceptPc = "register"
    /\ clientFds' = clientFds \cup {fdOf[newConn]}
    /\ acceptPc' = "spawn"
    /\ UNCHANGED <<kernelVars, mainVars, newConn, readVars, chunks>>

Spawn ==
    /\ acceptPc = "spawn"
    /\ readPc' = [readPc EXCEPT ![newConn] = "recv"]
    /\ acceptPc' = "check"
    /\ UNCHANGED <<kernelVars, mainVars, newConn, fdOf, clientFds, chunks>>

-----------------------------------------------------------------------------
(* clientReadLoop(), one thread per connection. *)

(* Mutant: the thread closes its descriptor without removeClient(). *)
RecvEndsUnremoved(c) ==
    /\ readPc[c] = "recv" /\ c \in gone \cup shut
    /\ readPc' = [readPc EXCEPT ![c] = "close"]
    /\ UNCHANGED <<kernelVars, mainVars, acceptVars, fdOf, clientFds, chunks>>

(* Mutant: only the server's own shutdown() ends the thread. *)
RecvEndsByStop(c) ==
    /\ readPc[c] = "recv" /\ c \in shut
    /\ readPc' = [readPc EXCEPT ![c] = "remove"]
    /\ UNCHANGED <<kernelVars, mainVars, acceptVars, fdOf, clientFds, chunks>>

(* recv() returned 0 or -1: the client left, or stop() shut the socket down. *)
RecvEnds(c) ==
    /\ readPc[c] = "recv" /\ c \in gone \cup shut
    /\ readPc' = [readPc EXCEPT ![c] = "remove"]
    /\ UNCHANGED <<kernelVars, mainVars, acceptVars, fdOf, clientFds, chunks>>

Remove(c) ==
    /\ readPc[c] = "remove"
    /\ clientFds' = clientFds \ {fdOf[c]}
    /\ readPc' = [readPc EXCEPT ![c] = "close"]
    /\ UNCHANGED <<kernelVars, mainVars, acceptVars, fdOf, chunks>>

Close(c) ==
    /\ readPc[c] = "close"
    /\ fdConn' = [fdConn EXCEPT ![fdOf[c]] = NoConn]
    /\ readPc' = [readPc EXCEPT ![c] = "done"]
    /\ UNCHANGED <<listenFd, peer, gone, shut, wire, mainVars, acceptVars, fdOf, clientFds, chunks>>

-----------------------------------------------------------------------------
(* broadcastIq(), on the streaming thread; it goes on after stop(). *)

Receivers == {fdConn[fd] : fd \in clientFds} \cap Conns

(* What send(MSG_DONTWAIT) takes of the chunk is up to the socket buffer: *)
(* nothing (EAGAIN, or the connection is dead), part of it, or all of it.  *)
Sendable(c) == IF c \in gone \cup shut THEN {0} ELSE 0..ChunkBytes

Deliver(c, bytes) ==
    IF bytes = 0 THEN wire[c] ELSE Append(wire[c], [chunk |-> chunks + 1, bytes |-> bytes])

Broadcast ==
    /\ mainPc \notin {"init", "failed"} /\ chunks < MaxChunks
    /\ chunks' = chunks + 1
    /\ \E sent \in [Receivers -> 0..ChunkBytes] :
          /\ \A c \in Receivers : sent[c] \in Sendable(c)
          /\ wire' = [c \in Conns |-> IF c \in Receivers THEN Deliver(c, sent[c]) ELSE wire[c]]
    /\ UNCHANGED <<fdConn, listenFd, peer, gone, shut, mainVars, acceptVars, readVars, clientFds>>

-----------------------------------------------------------------------------
StopStep   == CloseListen \/ JoinAccept \/ Snapshot \/ (\E fd \in Fds : ShutdownOne(fd)) \/ StopReturn
MainStep   == Start \/ StartFails \/ StopBegin \/ StopStep
AcceptStep == AcceptCheck \/ (\E c \in Conns, fd \in Fds : AcceptOne(c, fd)) \/ AcceptFails
                \/ Greet \/ Register \/ Spawn
ReadStep(c) == RecvEnds(c) \/ Remove(c) \/ Close(c)
EnvStep    == \/ \E c \in Conns : Connect(c) \/ Leave(c)
              \/ \E fd \in Fds : ForeignOpen(fd) \/ ForeignClose(fd)

Next == MainStep \/ AcceptStep \/ (\E c \in Conns : ReadStep(c)) \/ Broadcast \/ EnvStep

Spec == Init /\ [][Next]_vars

(* Once stop() is called main runs to its end, and the accept and read      *)
(* threads are scheduled; clients and other endpoints owe nothing.          *)
Fairness ==
    /\ WF_vars(StopStep)
    /\ WF_vars(AcceptStep)
    /\ \A c \in Conns : WF_vars(ReadStep(c))

FairSpec == Spec /\ Fairness

-----------------------------------------------------------------------------
Accepting(c) == newConn = c /\ acceptPc \in {"greet", "register", "spawn"}
Reading(c)   == readPc[c] \in {"recv", "remove", "close"}

TypeOK ==
    /\ fdConn \in [Fds -> Conns \cup {Foreign, NoConn}]
    /\ listenFd \in {"none", "open", "closed"}
    /\ peer \in [Conns -> {"new", "pending", "open"}]
    /\ gone \subseteq Conns /\ shut \subseteq Conns
    /\ wire \in [Conns -> Seq(Piece)]
    /\ running \in BOOLEAN
    /\ clientFds \subseteq Fds /\ toShut \subseteq Fds
    /\ mainPc \in {"init", "failed", "up", "closing", "joining", "snapshot", "shutting", "stopped"}
    /\ acceptPc \in {"none", "check", "accept", "greet", "register", "spawn", "done"}
    /\ newConn \in Conns \cup {NoConn}
    /\ readPc \in [Conns -> {"none", "recv", "remove", "close", "done"}]
    /\ fdOf \in [Conns -> 0..NumFds]
    /\ chunks \in Nat

(* A descriptor the broadcast may write to is the open socket of a client   *)
(* whose read thread has not got past removeClient() (or is about to be     *)
(* spawned): IQ never goes to a closed descriptor, nor to a stranger's that *)
(* was given the same number.                                               *)
RegisteredFdIsLive ==
    \A fd \in clientFds :
        \E c \in Conns :
            /\ fdConn[fd] = c /\ fdOf[c] = fd
            /\ readPc[c] \in {"recv", "remove"} \/ (newConn = c /\ acceptPc = "spawn")

(* From accept() to its own close() a connection keeps its descriptor: the  *)
(* thread that will close it never closes somebody else's, which is what    *)
(* "sole owner of close()-ing its fd" in stop() relies on.  And no socket of *)
(* a client is ever open without a thread that will close it.                *)
SoleOwner ==
    \A c \in Conns :
        /\ Accepting(c) \/ Reading(c) => fdConn[fdOf[c]] = c
        /\ \A fd \in Fds : fdConn[fd] = c => fd = fdOf[c] /\ (Accepting(c) \/ Reading(c))

(* A client sees the dongle header before any IQ, and once, although the     *)
(* broadcast runs on another thread than the one that greets it; then it     *)
(* sees chunks in their order, none twice, whatever was dropped between.     *)
HeaderThenChunks ==
    \A c \in Conns :
        /\ wire[c] # <<>> => wire[c][1] = Header
        /\ \A i, j \in 1..Len(wire[c]) : i < j => wire[c][i].chunk < wire[c][j].chunk

(* What the endpoint is to main() and to the virtual receiver. *)
EndpointState ==
    CASE mainPc \in {"init", "failed"} -> "down"
      [] mainPc = "up" -> "up"
      [] mainPc \in {"closing", "joining", "snapshot"} -> "stopping"
      [] mainPc = "shutting" -> "draining"
      [] mainPc = "stopped" -> "stopped"

Phase(c) ==
    IF c \in Receivers THEN "served"
    ELSE IF readPc[c] = "close" THEN "left" ELSE IF readPc[c] = "done" THEN "closed" ELSE "away"

Heard(c) == [i \in 1..Len(wire[c]) |-> IF wire[c][i].chunk = 0 THEN "talk" ELSE "iq"]

Endpoint == INSTANCE IqEndpoint WITH
    state <- EndpointState, phase <- [c \in Conns |-> Phase(c)],
    over <- gone \cup shut, heard <- [c \in Conns |-> Heard(c)]

(* The promise of an endpoint, kept with descriptors that are closed and     *)
(* handed out again: in particular stop() returns only when every client it  *)
(* still serves has left or was shut down, so that its thread will end.      *)
KeepsEndpointPromise == Endpoint!Spec

(* Once stop() has joined the accept thread clientFds_ only ever shrinks,  *)
(* so its snapshot holds every client there will ever be.                   *)
NoLateClient ==
    [][ (mainPc \in {"snapshot", "shutting", "stopped"}) => (clientFds' \subseteq clientFds) ]_vars

(* stop() always returns, although it waits for the accept thread, and then *)
(* every client's thread ends and every socket is closed.                    *)
StopDrains ==
    mainPc = "closing" ~> /\ mainPc = "stopped" /\ clientFds = {}
                          /\ \A fd \in Fds : fdConn[fd] \notin Conns

(* A client that leaves is forgotten and its descriptor freed. *)
LeaverFreed ==
    \A c \in Conns : (Reading(c) /\ c \in gone) ~> (\A fd \in Fds : fdConn[fd] # c)

(* What the README says of a slow client: a chunk is dropped, or delivered. *)
(* (Whatever stop() cuts off at the end of the stream does not count.)      *)
WholeChunks ==
    \A c \in Conns : \A i \in 2..(Len(wire[c]) - 1) : wire[c][i].bytes = ChunkBytes
=============================================================================
