------------------------- MODULE RtlTcpServerProofs -------------------------
(* Proofs about RtlTcpServer, for every number of clients and descriptors. *)
EXTENDS RtlTcpServer, TLAPS

(* The accept thread and the read threads never work on one connection at   *)
(* a time, and whichever does owns the descriptor accept() returned.        *)
Owners ==
    /\ acceptPc \in {"greet", "register", "spawn"} => newConn \in Conns
    /\ \A c \in Conns : Accepting(c) => readPc[c] = "none" /\ peer[c] = "open"
    /\ \A c \in Conns : readPc[c] # "none" => peer[c] = "open"
    /\ \A c \in Conns : Accepting(c) \/ Reading(c) => fdOf[c] \in Fds
    /\ SoleOwner

(* Whoever may be broadcast to has been sent the header, or has left. *)
Greeted ==
    \A c \in Conns :
        \/ c \in gone
        \/ wire[c] # <<>>
        \/ readPc[c] = "none" /\ ~(newConn = c /\ acceptPc \in {"register", "spawn"})

(* Before it is greeted a client has been sent nothing, and no chunk on a   *)
(* wire is one that is still to come.                                        *)
Ungreeted ==
    \A c \in Conns : readPc[c] = "none" /\ ~(newConn = c /\ acceptPc \in {"register", "spawn"}) => wire[c] = <<>>

ChunksPast == \A c \in Conns : \A i \in 1..Len(wire[c]) : wire[c][i].chunk <= chunks

(* The accept thread runs between main's start() and its join, not outside. *)
AcceptJoined ==
    /\ mainPc = "init" => acceptPc = "none"
    /\ mainPc \in {"snapshot", "shutting", "stopped"} => acceptPc = "done"
    /\ mainPc = "failed" => acceptPc = "none"

(* The clients being served are those that are broadcast to. *)
Serving(c) == readPc[c] \in {"recv", "remove"} \/ (newConn = c /\ acceptPc = "spawn")

Registered == \A c \in Conns : Serving(c) => fdOf[c] \in clientFds

(* stop() has yet to shut down, or has shut down, every client that is still *)
(* served; what it no longer reaches is on its way out by itself.            *)
Reached ==
    /\ \A c \in Conns : readPc[c] = "remove" => c \in gone \cup shut
    /\ \A c \in shut : readPc[c] # "none"
    /\ mainPc \in {"shutting", "stopped"} =>
          \A c \in Conns : Serving(c) => c \in gone \cup shut \/ fdOf[c] \in toShut
    /\ mainPc = "stopped" => toShut = {}

Wires == Greeted /\ Ungreeted /\ ChunksPast /\ HeaderThenChunks

IInv == TypeOK /\ Owners /\ RegisteredFdIsLive /\ Registered /\ Reached /\ Wires /\ AcceptJoined

-----------------------------------------------------------------------------
LEMMA InitIInv == Init => IInv
  <1> USE RtlTcpAssumption
  <1> SUFFICES ASSUME Init PROVE IInv
    OBVIOUS
  <1>1. TypeOK
    <2>1. wire \in [Conns -> Seq(Piece)]
      BY DEF Init
    <2>2. fdOf \in [Conns -> 0..NumFds]
      BY DEF Init
    <2> QED
      BY <2>1, <2>2 DEF Init, TypeOK
  <1>2. Owners /\ RegisteredFdIsLive /\ Registered /\ Reached /\ AcceptJoined
    BY DEF Init, Owners, Accepting, Reading, SoleOwner, RegisteredFdIsLive, Registered, Serving, Reached, AcceptJoined
  <1>3. Wires
    BY DEF Init, Wires, Greeted, Ungreeted, ChunksPast, HeaderThenChunks
  <1> QED
    BY <1>1, <1>2, <1>3 DEF IInv

(* What a chunk or a header leaves in a client's wire. *)
LEMMA WireGrows ==
    ASSUME TypeOK, NEW c \in Conns, NEW item \in Piece
    PROVE  /\ Append(wire[c], item) \in Seq(Piece)
           /\ Append(wire[c], item) # <<>>
           /\ wire[c] = <<>> => Append(wire[c], item)[1] = item
           /\ wire[c] # <<>> => Append(wire[c], item)[1] = wire[c][1]
  <1>1. wire[c] \in Seq(Piece)
    BY DEF TypeOK
  <1> QED
    BY <1>1

LEMMA TypeStep == TypeOK /\ Owners /\ [Next]_vars => TypeOK'
  <1> USE RtlTcpAssumption DEF vars, kernelVars, mainVars, acceptVars, readVars
  <1> SUFFICES ASSUME TypeOK, Owners, [Next]_vars PROVE TypeOK'
    OBVIOUS
  <1>1. CASE MainStep
    BY <1>1 DEF TypeOK, MainStep, StopStep, Start, StartFails, StopBegin, CloseListen, JoinAccept,
                Snapshot, ShutdownOne, StopReturn
  <1>2. CASE AcceptStep
    <2>1. CASE AcceptCheck
      BY <2>1 DEF TypeOK, AcceptCheck
    <2>2. ASSUME NEW c \in Conns, NEW fd \in Fds, AcceptOne(c, fd) PROVE TypeOK'
      BY <2>2 DEF TypeOK, AcceptOne, Fds
    <2>3. CASE AcceptFails
      BY <2>3 DEF TypeOK, AcceptFails
    <2>4. CASE Greet
      <3>1. Header \in Piece
        BY DEF Header, Piece
      <3>2. wire' \in [Conns -> Seq(Piece)]
        BY <2>4, <3>1, WireGrows DEF Greet, SendHeader, TypeOK
      <3> QED
        BY <2>4, <3>2 DEF TypeOK, Greet
    <2>5. CASE Register
      <3>1. fdOf[newConn] \in Fds
        BY <2>5 DEF Owners, Accepting, Register
      <3> QED
        BY <2>5, <3>1 DEF TypeOK, Register
    <2>6. CASE Spawn
      BY <2>6 DEF TypeOK, Spawn
    <2> QED
      BY <1>2, <2>1, <2>2, <2>3, <2>4, <2>5, <2>6 DEF AcceptStep
  <1>3. ASSUME NEW c \in Conns, ReadStep(c) PROVE TypeOK'
    <2>1. CASE RecvEnds(c)
      BY <2>1 DEF TypeOK, RecvEnds
    <2>2. CASE Remove(c)
      BY <2>2 DEF TypeOK, Remove
    <2>3. CASE Close(c)
      BY <2>3 DEF TypeOK, Close
    <2> QED
      BY <1>3, <2>1, <2>2, <2>3 DEF ReadStep
  <1>4. CASE Broadcast
    <2>1. wire' \in [Conns -> Seq(Piece)]
      <3>1. PICK sent \in [Receivers -> 0..ChunkBytes] :
               wire' = [c \in Conns |-> IF c \in Receivers THEN Deliver(c, sent[c]) ELSE wire[c]]
        BY <1>4 DEF Broadcast
      <3>2. ASSUME NEW c \in Receivers PROVE Deliver(c, sent[c]) \in Seq(Piece)
        <4>1. c \in Conns /\ sent[c] \in Nat
          BY DEF Receivers
        <4>2. [chunk |-> chunks + 1, bytes |-> sent[c]] \in Piece
          BY <4>1 DEF TypeOK, Piece
        <4> QED
          BY <4>1, <4>2, WireGrows DEF Deliver, TypeOK
      <3> QED
        BY <3>1, <3>2 DEF TypeOK
    <2> QED
      BY <1>4, <2>1 DEF TypeOK, Broadcast
  <1>5. CASE EnvStep
    <2>1. ASSUME NEW c \in Conns, Connect(c) PROVE TypeOK'
      BY <2>1 DEF TypeOK, Connect
    <2>2. ASSUME NEW c \in Conns, Leave(c) PROVE TypeOK'
      BY <2>2 DEF TypeOK, Leave
    <2>3. ASSUME NEW fd \in Fds, ForeignOpen(fd) PROVE TypeOK'
      BY <2>3 DEF TypeOK, ForeignOpen
    <2>4. ASSUME NEW fd \in Fds, ForeignClose(fd) PROVE TypeOK'
      BY <2>4 DEF TypeOK, ForeignClose
    <2> QED
      BY <1>5, <2>1, <2>2, <2>3, <2>4 DEF EnvStep
  <1>6. CASE UNCHANGED vars
    BY <1>6 DEF TypeOK
  <1> QED
    BY <1>1, <1>2, <1>3, <1>4, <1>5, <1>6 DEF Next

-----------------------------------------------------------------------------
(* Safe is what IInv says of threads and descriptors; one lemma per thread  *)
(* keeps it.                                                                 *)
Safe == Owners /\ RegisteredFdIsLive /\ Registered /\ Reached /\ AcceptJoined

(* main only ever touches its own variables, the listening socket, and shut. *)
LEMMA MainSafe == TypeOK /\ Safe /\ MainStep => Safe'
  <1> USE RtlTcpAssumption DEF kernelVars, mainVars, acceptVars, readVars, Safe, Owners, Accepting,
          Reading, SoleOwner, RegisteredFdIsLive, AcceptJoined, Serving, Registered, Reached
  <1> SUFFICES ASSUME TypeOK, Safe, MainStep PROVE Safe'
    OBVIOUS
  <1>1. CASE Start
    BY <1>1 DEF Start
  <1>2. CASE StartFails
    BY <1>2 DEF StartFails
  <1>3. CASE StopBegin
    BY <1>3 DEF StopBegin
  <1>4. CASE CloseListen
    BY <1>4 DEF CloseListen
  <1>5. CASE JoinAccept
    BY <1>5 DEF JoinAccept
  <1>6. CASE Snapshot
    BY <1>6 DEF Snapshot
  <1>7. ASSUME NEW fd \in Fds, ShutdownOne(fd) PROVE Safe'
    <2> USE <1>7 DEF ShutdownOne
    <2>1. Owners' /\ RegisteredFdIsLive' /\ Registered' /\ AcceptJoined'
      OBVIOUS
    <2>2. Reached'
      <3>1. \A c \in Conns : Serving(c) /\ fdOf[c] = fd => c \in shut'
        OBVIOUS
      <3> QED
        BY <3>1
    <2> QED
      BY <2>1, <2>2
  <1>8. CASE StopReturn
    BY <1>8 DEF StopReturn
  <1> QED
    BY <1>1, <1>2, <1>3, <1>4, <1>5, <1>6, <1>7, <1>8 DEF MainStep, StopStep

LEMMA AcceptSafe == TypeOK /\ Safe /\ AcceptStep => Safe'
  <1> USE RtlTcpAssumption DEF kernelVars, mainVars, acceptVars, readVars, Safe, Owners, Accepting,
          Reading, SoleOwner, RegisteredFdIsLive, AcceptJoined, Serving, Registered, Reached
  <1> SUFFICES ASSUME TypeOK, Safe, AcceptStep PROVE Safe'
    OBVIOUS
  <1>1. CASE AcceptCheck
    BY <1>1 DEF AcceptCheck
  <1>2. ASSUME NEW c \in Conns, NEW fd \in Fds, AcceptOne(c, fd) PROVE Safe'
    <2> USE <1>2 DEF AcceptOne, LowestFree, TypeOK
    <2>1. readPc[c] = "none" /\ fdConn[fd] = NoConn
      OBVIOUS
    <2>2. Owners'
      BY <2>1
    <2>3. RegisteredFdIsLive'
      <3> SUFFICES ASSUME NEW g \in clientFds
                   PROVE  \E d \in Conns : /\ fdConn'[g] = d /\ fdOf'[d] = g
                                          /\ readPc'[d] \in {"recv", "remove"}
        OBVIOUS
      <3>1. PICK d \in Conns : fdConn[g] = d /\ fdOf[d] = g /\ readPc[d] \in {"recv", "remove"}
        OBVIOUS
      <3> QED
        BY <2>1, <3>1
    <2>4. Registered' /\ Reached' /\ AcceptJoined'
      BY <2>1
    <2> QED
      BY <2>2, <2>3, <2>4
  <1>3. CASE AcceptFails
    BY <1>3 DEF AcceptFails
  <1>4. CASE Greet
    BY <1>4 DEF Greet
  <1>5. CASE Register
    BY <1>5 DEF Register, TypeOK
  <1>6. CASE Spawn
    BY <1>6 DEF Spawn, TypeOK
  <1> QED
    BY <1>1, <1>2, <1>3, <1>4, <1>5, <1>6 DEF AcceptStep

LEMMA ReadSafe == TypeOK /\ Safe /\ (\E c \in Conns : ReadStep(c)) => Safe'
  <1> USE RtlTcpAssumption DEF kernelVars, mainVars, acceptVars, readVars, Safe, Owners, Accepting,
          Reading, SoleOwner, RegisteredFdIsLive, AcceptJoined, Serving, Registered, Reached, TypeOK
  <1> SUFFICES ASSUME TypeOK, Safe, NEW c \in Conns, ReadStep(c) PROVE Safe'
    OBVIOUS
  <1>1. CASE RecvEnds(c)
    BY <1>1 DEF RecvEnds
  <1>2. CASE Remove(c)
    BY <1>2 DEF Remove
  <1>3. CASE Close(c)
    BY <1>3 DEF Close
  <1> QED
    BY <1>1, <1>2, <1>3 DEF ReadStep

(* The broadcast only ever touches the wires. *)
LEMMA BroadcastSafe == TypeOK /\ Safe /\ Broadcast => Safe'
  BY DEF Broadcast, kernelVars, mainVars, acceptVars, readVars, Safe, Owners, Accepting,
         Reading, SoleOwner, RegisteredFdIsLive, AcceptJoined, Serving, Registered, Reached

(* Neither clients nor other endpoints can take a client's descriptor. *)
LEMMA EnvSafe == TypeOK /\ Safe /\ EnvStep => Safe'
  <1> USE RtlTcpAssumption DEF kernelVars, mainVars, acceptVars, readVars, Safe, Owners, Accepting,
          Reading, SoleOwner, RegisteredFdIsLive, AcceptJoined, Serving, Registered, Reached, TypeOK
  <1> SUFFICES ASSUME TypeOK, Safe, EnvStep PROVE Safe'
    OBVIOUS
  <1>1. ASSUME NEW c \in Conns, Connect(c) PROVE Safe'
    BY <1>1 DEF Connect
  <1>2. ASSUME NEW c \in Conns, Leave(c) PROVE Safe'
    BY <1>2 DEF Leave
  <1>3. ASSUME NEW fd \in Fds, ForeignOpen(fd) PROVE Safe'
    BY <1>3 DEF ForeignOpen, LowestFree
  <1>4. ASSUME NEW fd \in Fds, ForeignClose(fd) PROVE Safe'
    BY <1>4 DEF ForeignClose
  <1> QED
    BY <1>1, <1>2, <1>3, <1>4 DEF EnvStep

LEMMA SafeStep == TypeOK /\ Safe /\ [Next]_vars => Safe'
  <1>1. ASSUME Safe, UNCHANGED vars PROVE Safe'
    BY <1>1 DEF vars, kernelVars, mainVars, acceptVars, readVars, Safe, Owners, Accepting,
          Reading, SoleOwner, RegisteredFdIsLive, AcceptJoined, Serving, Registered, Reached
  <1> QED
    BY <1>1, MainSafe, AcceptSafe, ReadSafe, BroadcastSafe, EnvSafe DEF Next

-----------------------------------------------------------------------------
(* Whoever is broadcast to is being served, and the other way round. *)
LEMMA ReceiversServed ==
  ASSUME TypeOK, Safe, NEW c \in Conns
  PROVE  c \in Receivers <=> Serving(c)
  <1>1. c \in Receivers => Serving(c)
    BY DEF Safe, RegisteredFdIsLive, Receivers, Serving
  <1>2. Serving(c) => c \in Receivers
    <2> SUFFICES ASSUME Serving(c) PROVE c \in Receivers
      OBVIOUS
    <2>1. fdOf[c] \in clientFds /\ fdConn[fdOf[c]] = c
      BY DEF Safe, Registered, Owners, SoleOwner, Serving, Accepting, Reading
    <2> QED
      BY <2>1 DEF Receivers
  <1> QED
    BY <1>1, <1>2

(* One more piece, later than all there were, keeps a wire in order. *)
LEMMA OrderGrows ==
  ASSUME NEW w \in Seq(Piece), NEW item \in Piece, NEW n \in Nat, NEW m \in Nat, n <= m,
         \A i, j \in 1..Len(w) : i < j => w[i].chunk < w[j].chunk,
         \A i \in 1..Len(w) : w[i].chunk <= n,
         w = <<>> \/ item.chunk > n, item.chunk <= m
  PROVE  /\ \A i, j \in 1..Len(Append(w, item)) : i < j => Append(w, item)[i].chunk < Append(w, item)[j].chunk
         /\ \A i \in 1..Len(Append(w, item)) : Append(w, item)[i].chunk <= m
  <1> DEFINE more == Append(w, item)  len == Len(w)
  <1>1. /\ len \in Nat /\ Len(more) = len + 1 /\ more[len + 1] = item /\ \A i \in 1..len : more[i] = w[i]
        /\ w = <<>> => len = 0
    OBVIOUS
  <1>2. item.chunk \in Nat /\ \A i \in 1..len : w[i].chunk \in Nat
    <2>1. \A i \in 1..len : w[i] \in Piece
      OBVIOUS
    <2> QED
      BY <2>1 DEF Piece
  <1> HIDE DEF more, len
  <1>3. \A i \in 1..(len + 1) : i \in 1..len \/ i = len + 1
    BY <1>1
  <1>4. \A i \in 1..len : w[i].chunk <= n /\ (w # <<>> => w[i].chunk < item.chunk)
    BY <1>1, <1>2 DEF len
  <1>5. \A i \in 1..(len + 1) : more[i].chunk <= m
    BY <1>1, <1>2, <1>3, <1>4
  <1>6. ASSUME NEW i \in 1..(len + 1), NEW j \in 1..(len + 1), i < j PROVE more[i].chunk < more[j].chunk
    <2>1. i \in 1..len /\ w # <<>>
      BY <1>1, <1>6
    <2>2. CASE j \in 1..len
      BY <1>1, <1>6, <2>1, <2>2 DEF len
    <2>3. CASE j = len + 1
      BY <1>1, <1>4, <2>1, <2>3
    <2> QED
      BY <1>3, <2>2, <2>3
  <1> QED
    BY <1>1, <1>5, <1>6 DEF more

(* A wire that gets nothing, or the header first, or a chunk after it. *)
Fine(c) ==
    \/ wire'[c] = wire[c]
    \/ wire[c] = <<>> /\ wire'[c] = Append(wire[c], Header)
    \/ /\ wire[c] # <<>> /\ chunks' = chunks + 1
       /\ \E bytes \in Nat : wire'[c] = Append(wire[c], [chunk |-> chunks + 1, bytes |-> bytes])

LEMMA FineWires ==
  ASSUME TypeOK, ChunksPast, HeaderThenChunks, NEW c \in Conns, Fine(c), chunks' \in {chunks, chunks + 1}
  PROVE  /\ wire'[c] # <<>> => wire'[c][1] = Header
         /\ \A i, j \in 1..Len(wire'[c]) : i < j => wire'[c][i].chunk < wire'[c][j].chunk
         /\ \A i \in 1..Len(wire'[c]) : wire'[c][i].chunk <= chunks'
         /\ wire[c] # <<>> => wire'[c] # <<>>
  <1>1. /\ chunks \in Nat /\ chunks' \in Nat /\ chunks <= chunks' /\ wire[c] \in Seq(Piece)
        /\ \A i \in 1..Len(wire[c]) : wire[c][i].chunk <= chunks
        /\ \A i, j \in 1..Len(wire[c]) : i < j => wire[c][i].chunk < wire[c][j].chunk
        /\ wire[c] # <<>> => wire[c][1] = Header
    <2>1. chunks \in Nat /\ chunks' \in Nat /\ chunks <= chunks' /\ wire[c] \in Seq(Piece)
      BY DEF TypeOK
    <2>2. \A i, j \in 1..Len(wire[c]) : i < j => wire[c][i].chunk < wire[c][j].chunk
      BY DEF HeaderThenChunks
    <2> QED
      BY <2>1, <2>2 DEF ChunksPast, HeaderThenChunks
  <1>2. CASE wire'[c] = wire[c]
    <2>1. \A i \in 1..Len(wire[c]) : wire[c][i].chunk \in Nat
      <3>1. \A i \in 1..Len(wire[c]) : wire[c][i] \in Piece
        BY <1>1
      <3> QED
        BY <3>1 DEF Piece
    <2> QED
      BY <1>1, <1>2, <2>1
  <1>3. CASE wire[c] = <<>> /\ wire'[c] = Append(wire[c], Header)
    <2>1. Header \in Piece /\ Header.chunk = 0
      BY DEF Header, Piece
    <2> QED
      BY <1>1, <1>3, <2>1, OrderGrows, WireGrows
  <1>4. ASSUME wire[c] # <<>>, chunks' = chunks + 1, NEW bytes \in Nat,
               wire'[c] = Append(wire[c], [chunk |-> chunks + 1, bytes |-> bytes])
        PROVE  /\ wire'[c] # <<>> => wire'[c][1] = Header
               /\ \A i, j \in 1..Len(wire'[c]) : i < j => wire'[c][i].chunk < wire'[c][j].chunk
               /\ \A i \in 1..Len(wire'[c]) : wire'[c][i].chunk <= chunks'
               /\ wire[c] # <<>> => wire'[c] # <<>>
    <2> DEFINE item == [chunk |-> chunks + 1, bytes |-> bytes]
    <2>1. item \in Piece /\ item.chunk = chunks + 1
      BY <1>1 DEF Piece
    <2> HIDE DEF item
    <2>2. wire'[c] = Append(wire[c], item)
      BY <1>4 DEF item
    <2>3. item.chunk > chunks /\ item.chunk <= chunks'
      BY <1>1, <1>4, <2>1
    <2> QED
      BY <1>1, <1>4, <2>1, <2>2, <2>3, OrderGrows, WireGrows
  <1> QED
    BY <1>2, <1>3, <1>4 DEF Fine

LEMMA WiresStep == IInv /\ [Next]_vars => Wires'
  <1> SUFFICES ASSUME IInv, [Next]_vars PROVE Wires'
    OBVIOUS
  <1> USE RtlTcpAssumption DEF kernelVars, mainVars, acceptVars, readVars
  <1>0. TypeOK /\ Safe /\ Greeted /\ Ungreeted /\ ChunksPast /\ HeaderThenChunks
    BY DEF IInv, Safe, Wires
  <1>1. (\A c \in Conns : Fine(c)) /\ chunks' \in {chunks, chunks + 1}
    <2>1. CASE UNCHANGED <<wire, chunks>>
      BY <2>1 DEF Fine
    <2>2. CASE Greet
      <3>1. newConn \in Conns /\ wire[newConn] = <<>>
        BY <1>0, <2>2 DEF Greet, Safe, Owners, Accepting, Ungreeted
      <3>2. \A c \in Conns : wire'[c] = wire[c] \/ (c = newConn /\ wire'[c] = Append(wire[c], Header))
        BY <1>0, <2>2, <3>1 DEF Greet, SendHeader, TypeOK
      <3> QED
        BY <2>2, <3>1, <3>2 DEF Greet, Fine
    <2>3. CASE Broadcast
      <3>1. PICK sent \in [Receivers -> 0..ChunkBytes] :
               /\ \A c \in Receivers : sent[c] \in Sendable(c)
               /\ wire' = [c \in Conns |-> IF c \in Receivers THEN Deliver(c, sent[c]) ELSE wire[c]]
        BY <2>3 DEF Broadcast
      <3>2. ASSUME NEW c \in Conns PROVE Fine(c)
        <4>1. CASE c \notin Receivers
          BY <3>1, <4>1 DEF Fine
        <4>2. CASE c \in Receivers
          <5>1. c \in gone \/ wire[c] # <<>>
            BY <1>0, <4>2, ReceiversServed DEF Serving, Greeted
          <5>2. sent[c] \in Nat /\ (c \in gone => sent[c] = 0)
            BY <3>1, <4>2 DEF Sendable
          <5>3. wire'[c] = Deliver(c, sent[c])
            BY <3>1, <4>2
          <5> QED
            BY <2>3, <5>1, <5>2, <5>3 DEF Deliver, Fine, Broadcast
        <4> QED
          BY <4>1, <4>2
      <3> QED
        BY <2>3, <3>2 DEF Broadcast
    <2> QED
      BY <2>1, <2>2, <2>3 DEF Next, vars, MainStep, StopStep, AcceptStep, ReadStep, EnvStep, Start, StartFails, StopBegin,
          CloseListen, JoinAccept, Snapshot, ShutdownOne, StopReturn, AcceptCheck, AcceptOne, AcceptFails,
          Register, Spawn, RecvEnds, Remove, Close, Connect, Leave, ForeignOpen, ForeignClose
  <1>2. ChunksPast' /\ HeaderThenChunks' /\ \A c \in Conns : wire[c] # <<>> => wire'[c] # <<>>
    BY <1>0, <1>1, FineWires DEF ChunksPast, HeaderThenChunks
  <1>3. Greeted' /\ Ungreeted'
    <2>1. CASE MainStep
      BY <1>0, <2>1 DEF MainStep, StopStep, Start, StartFails, StopBegin, CloseListen, JoinAccept, Snapshot,
          ShutdownOne, StopReturn, Greeted, Ungreeted, Safe, AcceptJoined
    <2>2. CASE AcceptStep
      <3>1. CASE Greet
        <4>1. /\ newConn \in Conns /\ readPc[newConn] = "none" /\ acceptPc = "greet" /\ acceptPc' = "register"
              /\ UNCHANGED <<readPc, gone, newConn>>
          BY <1>0, <3>1 DEF Greet, Safe, Owners, Accepting
        <4>2. \A c \in Conns \ {newConn} : wire'[c] = wire[c]
          BY <1>0, <3>1 DEF Greet, SendHeader, TypeOK
        <4>3. newConn \notin gone => wire'[newConn] # <<>>
          <5>1. newConn \notin gone => wire'[newConn] = Append(wire[newConn], Header)
            BY <1>0, <3>1, <4>1 DEF Greet, SendHeader, TypeOK
          <5>2. Header \in Piece
            BY DEF Header, Piece
          <5> QED
            BY <1>0, <4>1, <5>1, <5>2, WireGrows
        <4> QED
          BY <1>0, <4>1, <4>2, <4>3 DEF Greeted, Ungreeted
      <3>2. ASSUME NEW d \in Conns, NEW fd \in Fds, AcceptOne(d, fd) PROVE Greeted' /\ Ungreeted'
        BY <1>0, <3>2 DEF AcceptOne, Greeted, Ungreeted, Safe, Owners
      <3>3. CASE AcceptCheck \/ AcceptFails
        BY <1>0, <3>3 DEF AcceptCheck, AcceptFails, Greeted, Ungreeted
      <3>4. CASE Register
        BY <1>0, <3>4 DEF Register, Greeted, Ungreeted
      <3>5. CASE Spawn
        BY <1>0, <3>5 DEF Spawn, Greeted, Ungreeted, TypeOK, Safe, Owners
      <3> QED
        BY <2>2, <3>1, <3>2, <3>3, <3>4, <3>5 DEF AcceptStep
    <2>3. ASSUME NEW c \in Conns, ReadStep(c) PROVE Greeted' /\ Ungreeted'
      BY <1>0, <2>3 DEF ReadStep, RecvEnds, Remove, Close, Greeted, Ungreeted, TypeOK
    <2>4. CASE Broadcast
      <3>1. \A c \in Conns : readPc[c] = "none" /\ ~(newConn = c /\ acceptPc \in {"register", "spawn"}) => wire'[c] = wire[c]
        BY <1>0, <2>4, ReceiversServed DEF Broadcast, Serving
      <3> QED
        BY <1>0, <1>2, <2>4, <3>1 DEF Broadcast, Greeted, Ungreeted
    <2>5. CASE EnvStep
      BY <1>0, <2>5 DEF EnvStep, Connect, Leave, ForeignOpen, ForeignClose, Greeted, Ungreeted
    <2>6. CASE UNCHANGED vars
      BY <1>0, <2>6 DEF vars, Greeted, Ungreeted
    <2> QED
      BY <2>1, <2>2, <2>3, <2>4, <2>5, <2>6 DEF Next
  <1> QED
    BY <1>2, <1>3 DEF Wires

LEMMA NextIInv == IInv /\ [Next]_vars => IInv'
  <1> SUFFICES ASSUME IInv, [Next]_vars PROVE IInv'
    OBVIOUS
  <1>1. TypeOK' /\ Safe'
    BY TypeStep, SafeStep DEF IInv, Safe
  <1>2. Wires'
    BY WiresStep
  <1> QED
    BY <1>1, <1>2 DEF IInv, Safe

(* The inductive invariant holds in every reachable state. *)
THEOREM Invariance == Spec => []IInv
  BY InitIInv, NextIInv, PTL DEF Spec

(* Every variable of the endpoint keeps its type. *)
THEOREM TypeCorrect == Spec => []TypeOK
  BY Invariance, PTL DEF IInv

(* broadcastIq() only writes to open sockets of clients being served. *)
THEOREM BroadcastOnlyToLive == Spec => []RegisteredFdIsLive
  BY Invariance, PTL DEF IInv

(* A read thread never closes a descriptor that is not its connection's. *)
THEOREM ReaderOwnsItsFd == Spec => []SoleOwner
  BY Invariance, PTL DEF IInv, Owners

(* A client gets the dongle header first and once, and chunks in order. *)
THEOREM HeaderBeforeIq == Spec => []HeaderThenChunks
  BY Invariance, PTL DEF IInv, Wires

(* From stop()'s snapshot on, no client is added that it would miss. *)
THEOREM SnapshotComplete == Spec => NoLateClient
  <1>1. IInv /\ [Next]_vars =>
          [ (mainPc \in {"snapshot", "shutting", "stopped"}) => (clientFds' \subseteq clientFds) ]_vars
    <2> SUFFICES ASSUME IInv, Next, mainPc \in {"snapshot", "shutting", "stopped"}
                 PROVE  clientFds' \subseteq clientFds
      OBVIOUS
    <2>1. acceptPc = "done"
      BY DEF IInv, AcceptJoined
    <2> QED
      BY <2>1 DEF Next, MainStep, StopStep, AcceptStep, ReadStep, EnvStep, Start, StartFails, StopBegin,
          CloseListen, JoinAccept, Snapshot, ShutdownOne, StopReturn, AcceptCheck, AcceptOne, AcceptFails,
          Greet, Register, Spawn, RecvEnds, Remove, Close, Broadcast, Connect, Leave, ForeignOpen, ForeignClose
  <1> QED
    BY <1>1, Invariance, PTL DEF Spec, NoLateClient

-----------------------------------------------------------------------------
(* The endpoint keeps its promise.  A step of a thread is a step of the      *)
(* abstract endpoint, or leaves it as it is.                                 *)
PhaseOf(c) ==
    IF Serving(c) THEN "served"
    ELSE IF readPc[c] = "close" THEN "left" ELSE IF readPc[c] = "done" THEN "closed" ELSE "away"

Phases == [c \in Conns |-> Phase(c)]

HeardAll == [c \in Conns |-> Heard(c)]

LEMMA PhaseIs ==
  ASSUME TypeOK, Safe
  PROVE  Phases = [c \in Conns |-> PhaseOf(c)]
  BY ReceiversServed DEF Phases, Phase, PhaseOf

LEMMA PhaseWillBe ==
  ASSUME TypeOK', Safe'
  PROVE  Phases' = [c \in Conns |-> PhaseOf(c)']
  <1>1. ASSUME NEW c \in Conns PROVE (c \in Receivers)' <=> Serving(c)'
    <2>1. (c \in Receivers)' => Serving(c)'
      BY DEF Safe, RegisteredFdIsLive, Receivers, Serving
    <2>2. ASSUME Serving(c)' PROVE (c \in Receivers)'
      <3>1. fdOf'[c] \in clientFds' /\ fdConn'[fdOf'[c]] = c
        BY <2>2 DEF Safe, Registered, Owners, SoleOwner, Serving, Accepting, Reading
      <3> QED
        BY <3>1 DEF Receivers
    <2> QED
      BY <2>1, <2>2
  <1>2. ASSUME NEW c \in Conns PROVE Phase(c)' = PhaseOf(c)'
    BY <1>1 DEF Phase, PhaseOf
  <1> QED
    BY <1>2 DEF Phases

(* What a message more on a wire is to the abstract endpoint. *)
LEMMA HeardGrows ==
  ASSUME TypeOK, NEW c \in Conns, NEW item \in Piece, wire'[c] = Append(wire[c], item)
  PROVE  Heard(c)' = Append(Heard(c), IF item.chunk = 0 THEN "talk" ELSE "iq")
  <1> DEFINE w == wire[c]
  <1>1. w \in Seq(Piece) /\ Len(w) \in Nat
    BY DEF TypeOK
  <1> DEFINE more == Append(w, item)
  <1>2. Len(more) = Len(w) + 1 /\ more[Len(w) + 1] = item /\ \A i \in 1..Len(w) : more[i] = w[i]
    BY <1>1
  <1>3. Heard(c) \in Seq({"talk", "iq"}) /\ Len(Heard(c)) = Len(w)
    <2>1. Heard(c) \in [1..Len(w) -> {"talk", "iq"}]
      BY DEF Heard
    <2> QED
      BY <1>1, <2>1
  <1>4. Heard(c)' = [i \in 1..Len(more) |-> IF more[i].chunk = 0 THEN "talk" ELSE "iq"]
    BY DEF Heard
  <1>5. Heard(c) = [i \in 1..Len(w) |-> IF w[i].chunk = 0 THEN "talk" ELSE "iq"]
    BY DEF Heard
  <1> HIDE DEF more, w
  <1> QED
    BY <1>1, <1>2, <1>3, <1>4, <1>5

LEMMA PhasesStay ==
  ASSUME IInv, IInv', readPc' = readPc, \A c \in Conns : Serving(c)' <=> Serving(c)
  PROVE  Phases' = Phases
  <1>1. Phases = [c \in Conns |-> PhaseOf(c)] /\ Phases' = [c \in Conns |-> PhaseOf(c)']
    BY PhaseIs, PhaseWillBe DEF IInv, Safe
  <1>2. \A c \in Conns : PhaseOf(c)' = PhaseOf(c)
    BY DEF PhaseOf
  <1> QED
    BY <1>1, <1>2

LEMMA PhaseChanges ==
  ASSUME IInv, IInv', NEW d \in Conns, \A c \in Conns \ {d} : readPc'[c] = readPc[c] /\ (Serving(c)' <=> Serving(c))
  PROVE  Phases[d] = PhaseOf(d) /\ Phases' = [Phases EXCEPT ![d] = PhaseOf(d)']
  <1>1. Phases = [c \in Conns |-> PhaseOf(c)] /\ Phases' = [c \in Conns |-> PhaseOf(c)']
    BY PhaseIs, PhaseWillBe DEF IInv, Safe
  <1>2. \A c \in Conns \ {d} : PhaseOf(c)' = PhaseOf(c)
    BY DEF PhaseOf
  <1> QED
    BY <1>1, <1>2

(* Steps that no promise is about. *)
LEMMA EndpointStays ==
  ASSUME UNCHANGED <<EndpointState, Phases, gone \cup shut, wire>>
  PROVE  UNCHANGED Endpoint!vars
  <1>1. HeardAll' = HeardAll
    BY DEF HeardAll, Heard
  <1> QED
    BY <1>1 DEF Endpoint!vars, Phases, HeardAll

LEMMA MainPromise == IInv /\ IInv' /\ MainStep => [Endpoint!Next]_(Endpoint!vars)
  <1> SUFFICES ASSUME IInv, IInv', MainStep PROVE [Endpoint!Next]_(Endpoint!vars)
    OBVIOUS
  <1> USE DEF kernelVars, mainVars, acceptVars, readVars
  <1>1. UNCHANGED <<readPc, wire>> /\ \A c \in Conns : Serving(c)' <=> Serving(c)
    BY DEF MainStep, StopStep, Start, StartFails, StopBegin, CloseListen, JoinAccept, Snapshot,
           ShutdownOne, StopReturn, Serving, IInv, AcceptJoined
  <1>2. Phases' = Phases /\ HeardAll' = HeardAll
    BY <1>1, PhasesStay DEF HeardAll, Heard
  <1>3. CASE Start
    <2>1. Endpoint!Start
      BY <1>2, <1>3 DEF Start, Endpoint!Start, EndpointState, Phases, HeardAll
    <2> QED
      BY <2>1 DEF Endpoint!Next
  <1>4. CASE StartFails \/ CloseListen \/ JoinAccept
    <2>1. UNCHANGED <<EndpointState, gone \cup shut>>
      BY <1>4 DEF StartFails, CloseListen, JoinAccept, EndpointState
    <2> QED
      BY <1>1, <1>2, <2>1, EndpointStays
  <1>5. CASE StopBegin
    <2>1. Endpoint!Stop
      BY <1>2, <1>5 DEF StopBegin, Endpoint!Stop, EndpointState, Phases, HeardAll
    <2> QED
      BY <2>1 DEF Endpoint!Next
  <1>6. CASE Snapshot
    <2>1. Endpoint!Drain
      BY <1>2, <1>6 DEF Snapshot, Endpoint!Drain, EndpointState, Phases, HeardAll
    <2> QED
      BY <2>1 DEF Endpoint!Next
  <1>7. ASSUME NEW fd \in Fds, ShutdownOne(fd) PROVE [Endpoint!Next]_(Endpoint!vars)
    <2>1. UNCHANGED EndpointState
      BY <1>7 DEF ShutdownOne, EndpointState
    <2>2. CASE fdConn[fd] \in Conns
      <3>1. (gone \cup shut)' = (gone \cup shut) \cup {fdConn[fd]}
        BY <1>7, <2>2 DEF ShutdownOne
      <3>2. Endpoint!End(fdConn[fd])
        BY <1>2, <2>1, <3>1 DEF Endpoint!End, Phases, HeardAll
      <3> QED
        BY <2>2, <3>2 DEF Endpoint!Next
    <2>3. CASE fdConn[fd] \notin Conns
      <3>1. UNCHANGED (gone \cup shut)
        BY <1>7, <2>3 DEF ShutdownOne
      <3> QED
        BY <1>1, <1>2, <2>1, <3>1, EndpointStays
    <2> QED
      BY <2>2, <2>3
  <1>8. CASE StopReturn
    <2>1. \A c \in Conns : Phases[c] = "served" => c \in gone \cup shut
      <3>1. Phases = [c \in Conns |-> PhaseOf(c)]
        BY PhaseIs DEF IInv, Safe
      <3>2. \A c \in Conns : Serving(c) => c \in gone \cup shut
        BY <1>8 DEF StopReturn, IInv, Reached
      <3> QED
        BY <3>1, <3>2 DEF PhaseOf
    <2>2. Endpoint!Stopped
      BY <1>2, <1>8, <2>1 DEF StopReturn, Endpoint!Stopped, EndpointState, Phases, HeardAll
    <2> QED
      BY <2>2 DEF Endpoint!Next
  <1> QED
    BY <1>3, <1>4, <1>5, <1>6, <1>7, <1>8 DEF MainStep, StopStep

LEMMA AcceptPromise == IInv /\ IInv' /\ AcceptStep => [Endpoint!Next]_(Endpoint!vars)
  <1> SUFFICES ASSUME IInv, IInv', AcceptStep PROVE [Endpoint!Next]_(Endpoint!vars)
    OBVIOUS
  <1> USE DEF kernelVars, mainVars, acceptVars, readVars
  <1>0. /\ UNCHANGED <<mainPc, gone, shut, EndpointState, gone \cup shut>>
        /\ EndpointState \in {"up", "stopping"}
    BY DEF AcceptStep, AcceptCheck, AcceptOne, AcceptFails, Greet, Register, Spawn, EndpointState, IInv, AcceptJoined, TypeOK
  <1>1. CASE AcceptCheck \/ AcceptFails \/ \E c \in Conns, fd \in Fds : AcceptOne(c, fd)
    <2>1. UNCHANGED <<readPc, wire>> /\ \A c \in Conns : Serving(c)' <=> Serving(c)
      BY <1>1 DEF AcceptCheck, AcceptFails, AcceptOne, Serving
    <2> QED
      BY <1>0, <2>1, PhasesStay, EndpointStays
  <1>2. CASE Greet
    <2>1. PICK d \in Conns : d = newConn /\ readPc[d] = "none"
      BY <1>2 DEF Greet, IInv, Owners, Accepting
    <2>2. UNCHANGED readPc /\ \A c \in Conns : Serving(c)' <=> Serving(c)
      BY <1>2 DEF Greet, Serving
    <2>3. Phases' = Phases
      BY <2>2, PhasesStay
    <2>4. CASE d \in gone
      BY <1>0, <1>2, <2>1, <2>3, <2>4, EndpointStays DEF Greet, SendHeader
    <2>5. CASE d \notin gone
      <3>1. wire'[d] = Append(wire[d], Header) /\ \A c \in Conns \ {d} : wire'[c] = wire[c]
        BY <1>2, <2>1, <2>5 DEF Greet, SendHeader, IInv, TypeOK
      <3>2. Header \in Piece /\ Header.chunk = 0
        BY DEF Header, Piece
      <3>3. Heard(d)' = Append(Heard(d), "talk")
        BY <3>1, <3>2, HeardGrows DEF IInv
      <3>4. \A c \in Conns \ {d} : Heard(c)' = Heard(c)
        BY <3>1 DEF Heard
      <3>5. HeardAll' = [HeardAll EXCEPT ![d] = Append(@, "talk")]
        BY <3>3, <3>4 DEF HeardAll
      <3>6. d \notin shut
        BY <2>1 DEF IInv, Reached
      <3>7. Phases[d] = "away"
        <4>1. Phases = [c \in Conns |-> PhaseOf(c)]
          BY PhaseIs DEF IInv, Safe
        <4> QED
          BY <1>2, <2>1, <4>1 DEF PhaseOf, Serving, Greet
      <3>8. Endpoint!Talk(d)
        BY <1>0, <2>3, <2>5, <3>5, <3>6, <3>7 DEF Endpoint!Talk, Phases, HeardAll
      <3> QED
        BY <3>8 DEF Endpoint!Next
    <2> QED
      BY <2>4, <2>5
  <1>3. CASE Register
    <2>1. PICK d \in Conns : d = newConn /\ readPc[d] = "none"
      BY <1>3 DEF Register, IInv, Owners, Accepting
    <2>2. \A c \in Conns \ {d} : readPc'[c] = readPc[c] /\ (Serving(c)' <=> Serving(c))
      BY <1>3, <2>1 DEF Register, Serving
    <2>3. PhaseOf(d) = "away" /\ PhaseOf(d)' = "served"
      BY <1>3, <2>1 DEF Register, PhaseOf, Serving
    <2>4. Phases[d] = "away" /\ Phases' = [Phases EXCEPT ![d] = "served"]
      BY <2>2, <2>3, PhaseChanges
    <2>5. HeardAll' = HeardAll
      BY <1>3 DEF Register, HeardAll, Heard
    <2>6. Endpoint!TakeIn(d)
      BY <1>0, <2>4, <2>5 DEF Endpoint!TakeIn, Endpoint!Moves, Phases, HeardAll
    <2> QED
      BY <2>6 DEF Endpoint!Next
  <1>4. CASE Spawn
    <2>1. PICK d \in Conns : d = newConn
      BY <1>4 DEF Spawn, IInv, Owners
    <2>2. readPc'[d] = "recv" /\ \A c \in Conns \ {d} : readPc'[c] = readPc[c]
      BY <1>4, <2>1 DEF Spawn, IInv, TypeOK
    <2>3. \A c \in Conns \ {d} : Serving(c)' <=> Serving(c)
      BY <1>4, <2>1, <2>2 DEF Spawn, Serving
    <2>4. PhaseOf(d) = "served" /\ PhaseOf(d)' = "served"
      BY <1>4, <2>1, <2>2 DEF Spawn, PhaseOf, Serving
    <2>5. Phases' = Phases
      BY <2>2, <2>3, <2>4, PhaseChanges DEF Phases
    <2> QED
      BY <1>0, <1>4, <2>5, EndpointStays DEF Spawn
  <1> QED
    BY <1>1, <1>2, <1>3, <1>4 DEF AcceptStep

LEMMA ReadPromise == IInv /\ IInv' /\ (\E c \in Conns : ReadStep(c)) => [Endpoint!Next]_(Endpoint!vars)
  <1> SUFFICES ASSUME IInv, IInv', NEW d \in Conns, ReadStep(d) PROVE [Endpoint!Next]_(Endpoint!vars)
    OBVIOUS
  <1> USE DEF kernelVars, mainVars, acceptVars, readVars
  <1>1. UNCHANGED <<EndpointState, gone \cup shut, wire>>
    BY DEF ReadStep, RecvEnds, Remove, Close, EndpointState
  <1>2. HeardAll' = HeardAll
    BY <1>1 DEF HeardAll, Heard
  <1>3. \A c \in Conns \ {d} : readPc'[c] = readPc[c] /\ (Serving(c)' <=> Serving(c))
    BY DEF ReadStep, RecvEnds, Remove, Close, Serving, IInv, TypeOK
  <1>4. Phases[d] = PhaseOf(d) /\ Phases' = [Phases EXCEPT ![d] = PhaseOf(d)']
    BY <1>3, PhaseChanges
  <1>5. CASE RecvEnds(d)
    <2>1. PhaseOf(d) = "served" /\ PhaseOf(d)' = "served"
      BY <1>5 DEF RecvEnds, PhaseOf, Serving, IInv, TypeOK
    <2>2. Phases' = Phases
      BY <1>4, <2>1 DEF Phases
    <2> QED
      BY <1>1, <2>2, EndpointStays
  <1>6. CASE Remove(d)
    <2>1. PhaseOf(d) = "served" /\ PhaseOf(d)' = "left"
      BY <1>6 DEF Remove, PhaseOf, Serving, IInv, TypeOK, Owners, Accepting
    <2>2. Endpoint!LetGo(d)
      BY <1>1, <1>2, <1>4, <2>1 DEF Endpoint!LetGo, Endpoint!Moves, Phases, HeardAll
    <2> QED
      BY <2>2 DEF Endpoint!Next
  <1>7. CASE Close(d)
    <2>1. PhaseOf(d) = "left" /\ PhaseOf(d)' = "closed"
      BY <1>7 DEF Close, PhaseOf, Serving, IInv, TypeOK, Owners, Accepting
    <2>2. Endpoint!Close(d)
      BY <1>1, <1>2, <1>4, <2>1 DEF Endpoint!Close, Endpoint!Moves, Phases, HeardAll
    <2> QED
      BY <2>2 DEF Endpoint!Next
  <1> QED
    BY <1>5, <1>6, <1>7 DEF ReadStep

(* The chunk reaches whoever send() takes a byte of it for. *)
LEMMA BroadcastPromise == IInv /\ IInv' /\ Broadcast => [Endpoint!Next]_(Endpoint!vars)
  <1> SUFFICES ASSUME IInv, IInv', Broadcast PROVE [Endpoint!Next]_(Endpoint!vars)
    OBVIOUS
  <1> USE DEF kernelVars, mainVars, acceptVars, readVars
  <1>1. UNCHANGED <<readPc, EndpointState, gone \cup shut>> /\ \A c \in Conns : Serving(c)' <=> Serving(c)
    BY DEF Broadcast, EndpointState, Serving
  <1>2. Phases' = Phases /\ Phases = [c \in Conns |-> PhaseOf(c)]
    BY <1>1, PhasesStay, PhaseIs DEF IInv, Safe
  <1>3. PICK sent \in [Receivers -> 0..ChunkBytes] :
           /\ \A c \in Receivers : sent[c] \in Sendable(c)
           /\ wire' = [c \in Conns |-> IF c \in Receivers THEN Deliver(c, sent[c]) ELSE wire[c]]
    BY DEF Broadcast
  <1> DEFINE to == {c \in Receivers : sent[c] # 0}
  <1>4. to \subseteq Conns /\ \A c \in to : Phases[c] = "served" /\ c \notin gone \cup shut
    BY <1>2, <1>3, ReceiversServed DEF PhaseOf, Sendable, Receivers, IInv, Safe
  <1>5. ASSUME NEW c \in to PROVE Heard(c)' = Append(Heard(c), "iq")
    <2> DEFINE item == [chunk |-> chunks + 1, bytes |-> sent[c]]
    <2>1. sent[c] \in Nat /\ chunks \in Nat
      BY RtlTcpAssumption DEF IInv, TypeOK
    <2>2. item \in Piece /\ item.chunk # 0
      BY <2>1 DEF Piece
    <2>3. wire'[c] = Append(wire[c], item) /\ c \in Conns
      BY <1>3, <1>4 DEF Deliver
    <2> HIDE DEF item, to
    <2> QED
      BY <2>2, <2>3, HeardGrows DEF IInv
  <1>6. ASSUME NEW c \in Conns \ to PROVE Heard(c)' = Heard(c)
    <2>1. wire'[c] = wire[c]
      BY <1>3 DEF Deliver
    <2> QED
      BY <2>1 DEF Heard
  <1> HIDE DEF to
  <1>7. HeardAll' = [c \in Conns |-> IF c \in to THEN Append(HeardAll[c], "iq") ELSE HeardAll[c]]
    BY <1>4, <1>5, <1>6 DEF HeardAll
  <1>8. EndpointState # "down"
    BY DEF Broadcast, EndpointState, IInv, TypeOK
  <1>9. Endpoint!Broadcast(to)
    BY <1>1, <1>2, <1>4, <1>7, <1>8 DEF Endpoint!Broadcast, Phases, HeardAll
  <1> QED
    BY <1>4, <1>9 DEF Endpoint!Next

LEMMA EnvPromise == IInv /\ IInv' /\ EnvStep => [Endpoint!Next]_(Endpoint!vars)
  <1> SUFFICES ASSUME IInv, IInv', EnvStep PROVE [Endpoint!Next]_(Endpoint!vars)
    OBVIOUS
  <1> USE DEF kernelVars, mainVars, acceptVars, readVars
  <1>1. UNCHANGED <<readPc, EndpointState, wire>> /\ \A c \in Conns : Serving(c)' <=> Serving(c)
    BY DEF EnvStep, Connect, Leave, ForeignOpen, ForeignClose, EndpointState, Serving
  <1>2. Phases' = Phases /\ HeardAll' = HeardAll
    BY <1>1, PhasesStay DEF HeardAll, Heard
  <1>3. ASSUME NEW c \in Conns, Leave(c) PROVE [Endpoint!Next]_(Endpoint!vars)
    <2>1. (gone \cup shut)' = (gone \cup shut) \cup {c}
      BY <1>3 DEF Leave
    <2>2. Endpoint!End(c)
      BY <1>1, <1>2, <2>1 DEF Endpoint!End, Phases, HeardAll
    <2> QED
      BY <2>2 DEF Endpoint!Next
  <1>4. CASE UNCHANGED (gone \cup shut)
    BY <1>1, <1>2, <1>4, EndpointStays
  <1> QED
    BY <1>3, <1>4 DEF EnvStep, Connect, ForeignOpen, ForeignClose

(* For any clients and descriptors the endpoint implements IqEndpoint: IQ to *)
(* clients it has taken in and that are not over, each client taken in once  *)
(* and let go before its socket is closed, and a stop() that returns with    *)
(* every client it still serves cut off.                                     *)
THEOREM EndpointImplemented == Spec => KeepsEndpointPromise
  <1>1. Init => Endpoint!Init
    BY RtlTcpAssumption DEF Init, Endpoint!Init, EndpointState, Phase, Heard, Receivers
  <1>2. IInv /\ IInv' /\ [Next]_vars => [Endpoint!Next]_(Endpoint!vars)
    <2>1. ASSUME IInv, IInv', UNCHANGED vars PROVE UNCHANGED Endpoint!vars
      <3> USE DEF vars, kernelVars, mainVars, acceptVars, readVars
      <3>1. UNCHANGED <<readPc, EndpointState, gone \cup shut, wire>> /\ \A c \in Conns : Serving(c)' <=> Serving(c)
        BY <2>1 DEF EndpointState, Serving
      <3> QED
        BY <2>1, <3>1, PhasesStay, EndpointStays
    <2> QED
      BY <2>1, MainPromise, AcceptPromise, ReadPromise, BroadcastPromise, EnvPromise DEF Next
  <1> QED
    BY <1>1, <1>2, Invariance, PTL DEF Spec, Endpoint!Spec, KeepsEndpointPromise
=============================================================================
