-------------------------- MODULE SpyServerProofs --------------------------
(* Proofs about SpyServer, for every number of clients, every set of        *)
(* commands and every size of the socket buffers.                            *)
EXTENDS SpyServer, SequenceTheorems, TLAPS

-----------------------------------------------------------------------------
(* Types. *)

LEMMA SessionTypes ==
    ASSUME NEW s \in SessionState, NEW cmd \in {"modeIq", "modeOther", "enable", "disable"}
    PROVE  /\ AfterHello(s) \in SessionState
           /\ AfterSetting(s, cmd) \in SessionState
           /\ [s EXCEPT !.seq = @ + 1] \in SessionState
  <1>1. AfterHello(s) \in SessionState
    BY DEF SessionState, AfterHello
  <1>2. [s EXCEPT !.seq = @ + 1] \in SessionState
    BY DEF SessionState
  <1>3. \A b \in BOOLEAN : [s EXCEPT !.iq = b] \in SessionState /\ [s EXCEPT !.enabled = b] \in SessionState
    BY DEF SessionState
  <1>4. CASE cmd = "modeIq"
    BY <1>1, <1>2, <1>3, <1>4 DEF AfterSetting
  <1>5. CASE cmd = "modeOther"
    BY <1>1, <1>2, <1>3, <1>5 DEF AfterSetting
  <1>6. CASE cmd = "enable"
    BY <1>1, <1>2, <1>3, <1>6 DEF AfterSetting
  <1>7. CASE cmd = "disable"
    BY <1>1, <1>2, <1>3, <1>7 DEF AfterSetting
  <1> QED
    BY <1>4, <1>5, <1>6, <1>7

LEMMA NewSessionType == NewSession \in SessionState
  BY DEF NewSession, SessionState

(* A message, whole or cut, takes room the buffer has, and is appended. *)
LEMMA PutType ==
    ASSUME TypeOK, NEW c \in Conns, NEW type \in Reply \cup {"IQ"}, NEW seq \in Nat, NEW size \in Nat
    PROVE  /\ Put(c, type, seq, size).buf \in 0..Capacity
           /\ Put(c, type, seq, size).items \in Seq(Message)
  <1>1. wire[c] \in Seq(Message) /\ buffered[c] \in 0..Capacity
    BY DEF TypeOK
  <1>2. \A whole \in BOOLEAN : [type |-> type, seq |-> seq, whole |-> whole] \in Message
    BY DEF Message
  <1>3. \A m \in Message : Append(wire[c], m) \in Seq(Message)
    BY <1>1
  <1>4. Put(c, type, seq, size).buf \in 0..Capacity
    BY <1>1, SpyAssumption DEF Put, Room
  <1>5. Put(c, type, seq, size).items \in Seq(Message)
    BY <1>1, <1>2, <1>3 DEF Put
  <1> QED
    BY <1>4, <1>5

LEMMA InitType == Init => TypeOK
  <1> SUFFICES ASSUME Init PROVE TypeOK
    OBVIOUS
  <1>1. session \in [Conns -> SessionState]
    BY NewSessionType DEF Init
  <1>2. command \in [Conns -> AllCommands]
    BY DEF Init, AllCommands
  <1>3. inbox \in [Conns -> Seq(AllCommands)] /\ wire \in [Conns -> Seq(Message)] /\ replies \in [Conns -> Seq(Reply)]
    BY DEF Init
  <1>4. asked \in 0..MaxCommands /\ chunks \in 0..MaxChunks /\ buffered \in [Conns -> 0..Capacity]
    BY SpyAssumption DEF Init
  <1> QED
    BY <1>1, <1>2, <1>3, <1>4 DEF Init, TypeOK

(* A registering connection is one; a replying one has a reply to send. *)
Attached ==
    /\ acceptPc \in {"register", "spawn"} => newConn \in Conns
    /\ \A c \in Conns : readPc[c] \in {"reply", "blocked"} => replies[c] # <<>>

LEMMA SentType ==
    ASSUME TypeOK, Attached, NEW c \in Conns, Sent(c), readPc[c] \in {"reply", "blocked"}
    PROVE  /\ buffered' \in [Conns -> 0..Capacity] /\ wire' \in [Conns -> Seq(Message)]
           /\ session' \in [Conns -> SessionState] /\ replies' \in [Conns -> Seq(Reply)]
           /\ readPc' \in [Conns -> {"none", "recv", "handle", "reply", "blocked", "remove", "close", "done"}]
  <1>1. replies[c] \in Seq(Reply) /\ replies[c] # <<>>
    BY DEF TypeOK, Attached
  <1>2. Head(replies[c]) \in Reply /\ Tail(replies[c]) \in Seq(Reply)
    BY <1>1
  <1>3. session[c] \in SessionState
    BY DEF TypeOK
  <1>4. session[c].seq \in Nat /\ [session[c] EXCEPT !.seq = @ + 1] \in SessionState
    BY <1>3 DEF SessionState
  <1> DEFINE put == Put(c, Head(replies[c]), session[c].seq, ControlSize)
  <1>5. put.buf \in 0..Capacity /\ put.items \in Seq(Message)
    BY <1>2, <1>4, PutType DEF ControlSize
  <1>6. buffered' \in [Conns -> 0..Capacity] /\ wire' \in [Conns -> Seq(Message)]
    <2> HIDE DEF put
    <2>1. \/ UNCHANGED outVars
          \/ buffered' = [buffered EXCEPT ![c] = put.buf] /\ wire' = [wire EXCEPT ![c] = put.items]
      BY DEF Sent, put
    <2> QED
      BY <1>5, <2>1 DEF TypeOK, outVars
  <1>7. session' \in [Conns -> SessionState]
    <2>1. session' = [session EXCEPT ![c] = [session[c] EXCEPT !.seq = @ + 1]]
      BY <1>3 DEF Sent
    <2> QED
      BY <1>4, <2>1 DEF TypeOK
  <1>8. replies' \in [Conns -> Seq(Reply)]
    BY <1>2 DEF Sent, TypeOK
  <1>9. readPc' \in [Conns -> {"none", "recv", "handle", "reply", "blocked", "remove", "close", "done"}]
    BY DEF Sent, TypeOK
  <1> QED
    BY <1>6, <1>7, <1>8, <1>9

LEMMA TailLeft ==
    ASSUME NEW S, NEW s \in Seq(S), s # <<>>, Len(s) # 1
    PROVE  Tail(s) # <<>>
  <1>1. Len(s) \in Nat /\ Len(s) # 0
    BY EmptySeq
  <1>2. Len(Tail(s)) = Len(s) - 1
    BY HeadTailProperties
  <1>3. Len(Tail(s)) # 0
    BY <1>1, <1>2
  <1>4. CASE Tail(s) = <<>>
    <2>1. Len(Tail(s)) = 0
      BY <1>4, EmptySeq
    <2> QED
      BY <1>3, <2>1
  <1> QED
    BY <1>4

LEMMA SentAttached ==
    ASSUME TypeOK, Attached, NEW c \in Conns, Sent(c), readPc[c] \in {"reply", "blocked"}
    PROVE  Attached'
  <1>1. replies[c] \in Seq(Reply) /\ replies[c] # <<>>
    BY DEF TypeOK, Attached
  <1>2. Len(replies[c]) # 1 => Tail(replies[c]) # <<>>
    BY <1>1, TailLeft
  <1>3. \A d \in Conns : readPc'[d] \in {"reply", "blocked"} => replies'[d] # <<>>
    BY <1>2 DEF Sent, TypeOK, Attached
  <1> QED
    BY <1>3 DEF Attached, Sent, acceptVars

(* One client's share of a chunk. *)
Share(c) == IF Streaming(c) /\ ~Dead(c) THEN Put(c, "IQ", session[c].seq, IqSize)
            ELSE [buf |-> buffered[c], items |-> wire[c]]

LEMMA BroadcastShares ==
    ASSUME Broadcast
    PROVE  /\ buffered' = [c \in Conns |-> Share(c).buf]
           /\ wire' = [c \in Conns |-> Share(c).items]
  BY DEF Broadcast, Share

LEMMA BroadcastType ==
    ASSUME TypeOK, Broadcast
    PROVE  /\ buffered' \in [Conns -> 0..Capacity] /\ wire' \in [Conns -> Seq(Message)]
           /\ session' \in [Conns -> SessionState]
  <1>1. \A c \in Conns : Share(c).buf \in 0..Capacity /\ Share(c).items \in Seq(Message)
    <2> TAKE c \in Conns
    <2>1. session[c].seq \in Nat /\ wire[c] \in Seq(Message) /\ buffered[c] \in 0..Capacity
      BY DEF TypeOK, SessionState
    <2>2. Put(c, "IQ", session[c].seq, IqSize).buf \in 0..Capacity /\ Put(c, "IQ", session[c].seq, IqSize).items \in Seq(Message)
      BY <2>1, PutType DEF IqSize
    <2>3. CASE Streaming(c) /\ ~Dead(c)
      BY <2>2, <2>3 DEF Share
    <2>4. CASE ~(Streaming(c) /\ ~Dead(c))
      BY <2>1, <2>4 DEF Share
    <2> QED
      BY <2>3, <2>4
  <1>2. \A c \in Conns : [session[c] EXCEPT !.seq = @ + 1] \in SessionState
    <2>1. \A s \in SessionState : [s EXCEPT !.seq = @ + 1] \in SessionState
      BY DEF SessionState
    <2> QED
      BY <2>1 DEF TypeOK
  <1>3. \A c \in Conns : session[c] \in SessionState
    BY DEF TypeOK
  <1>4. session' \in [Conns -> SessionState]
    BY <1>2, <1>3 DEF Broadcast
  <1> QED
    BY <1>1, <1>4, BroadcastShares

(* What one client may do. *)
EnvOf(c) == Connect(c) \/ (\E cmd \in Commands : SendCommand(c, cmd)) \/ ClientRead(c) \/ Leave(c)

(* TypeOK, by the groups of variables that change together. *)
NetType ==
    /\ listenFd \in {"none", "open", "closed"}
    /\ peer \in [Conns -> {"new", "pending", "open", "closed"}]
    /\ gone \subseteq Conns /\ shut \subseteq Conns
    /\ inbox \in [Conns -> Seq(AllCommands)] /\ asked \in 0..MaxCommands
    /\ first \in [Conns -> {"silent", "polite", "rude"}]

OutType == buffered \in [Conns -> 0..Capacity] /\ wire \in [Conns -> Seq(Message)]

MainType ==
    /\ running \in BOOLEAN /\ toShut \subseteq Conns
    /\ mainPc \in {"init", "failed", "up", "closing", "joining", "snapshot", "shutting", "stopped"}

AcceptType ==
    /\ acceptPc \in {"none", "check", "accept", "register", "spawn", "done"}
    /\ newConn \in Conns \cup {Free}
    /\ acceptPc \in {"register", "spawn"} => newConn \in Conns

TableType == clients \subseteq Conns /\ session \in [Conns -> SessionState]

ReadPcs == {"none", "recv", "handle", "reply", "blocked", "remove", "close", "done"}

ReadType ==
    /\ readPc \in [Conns -> ReadPcs]
    /\ command \in [Conns -> AllCommands] /\ replies \in [Conns -> Seq(Reply)]
    /\ \A c \in Conns : readPc[c] \in {"reply", "blocked"} => replies[c] # <<>>

LockType == mutex \in Conns \cup {Free}

StreamType == streamPc \in {"idle", "waiting"} /\ chunks \in 0..MaxChunks

Types == NetType /\ OutType /\ MainType /\ AcceptType /\ LockType /\ TableType /\ ReadType /\ StreamType

LEMMA TypeParts == Types <=> TypeOK /\ Attached
  BY DEF Types, NetType, OutType, MainType, AcceptType, LockType, TableType, ReadPcs, ReadType, StreamType,
         TypeOK, Attached

(* What a group of variables that a step leaves alone keeps. *)
LEMMA TypeFrame ==
    ASSUME Types
    PROVE  /\ UNCHANGED netVars => NetType'
           /\ UNCHANGED outVars => OutType'
           /\ UNCHANGED mainVars => MainType'
           /\ UNCHANGED acceptVars => AcceptType'
           /\ UNCHANGED mutex => LockType'
           /\ UNCHANGED tableVars => TableType'
           /\ UNCHANGED readVars => ReadType'
           /\ UNCHANGED streamVars => StreamType'
  <1>1. UNCHANGED netVars => NetType'
    BY DEF Types, NetType, netVars
  <1>2. UNCHANGED outVars => OutType'
    BY DEF Types, OutType, outVars
  <1>3. UNCHANGED mainVars => MainType'
    BY DEF Types, MainType, mainVars
  <1>4. UNCHANGED acceptVars => AcceptType'
    BY DEF Types, AcceptType, acceptVars
  <1>5. UNCHANGED mutex => LockType'
    BY DEF Types, LockType
  <1>6. UNCHANGED tableVars => TableType'
    BY DEF Types, TableType, tableVars
  <1>7. UNCHANGED readVars => ReadType'
    BY DEF Types, ReadType, readVars
  <1>8. UNCHANGED streamVars => StreamType'
    BY DEF Types, StreamType, streamVars
  <1> QED
    BY <1>1, <1>2, <1>3, <1>4, <1>5, <1>6, <1>7, <1>8

(* A read thread goes to another of its states, with nothing to reply. *)
LEMMA ReadMoves ==
    ASSUME Types, NEW c \in Conns, NEW to \in ReadPcs \ {"reply", "blocked"},
           readPc' = [readPc EXCEPT ![c] = to], UNCHANGED replies, UNCHANGED command
    PROVE  ReadType'
  <1>1. readPc' \in [Conns -> ReadPcs]
    BY DEF Types, ReadType
  <1>2. \A d \in Conns : readPc'[d] \in {"reply", "blocked"} => replies'[d] # <<>>
    BY DEF Types, ReadType
  <1> QED
    BY <1>1, <1>2 DEF Types, ReadType

(* ... with one or two messages to reply. *)
LEMMA ReadReplies ==
    ASSUME Types, NEW c \in Conns, NEW todo \in Seq(Reply), todo # <<>>,
           readPc' = [readPc EXCEPT ![c] = "reply"], replies' = [replies EXCEPT ![c] = todo],
           UNCHANGED command
    PROVE  ReadType'
  <1>1. readPc' \in [Conns -> ReadPcs]
    BY DEF Types, ReadType, ReadPcs
  <1>2. replies' \in [Conns -> Seq(Reply)]
    BY DEF Types, ReadType
  <1>3. \A d \in Conns : readPc'[d] \in {"reply", "blocked"} => replies'[d] # <<>>
    BY DEF Types, ReadType
  <1> QED
    BY <1>1, <1>2, <1>3 DEF Types, ReadType

LEMMA SentTypes ==
    ASSUME Types, NEW c \in Conns, Sent(c), readPc[c] \in {"reply", "blocked"}
    PROVE  OutType' /\ TableType' /\ ReadType' /\ NetType' /\ MainType' /\ AcceptType' /\ StreamType'
  <1>1. TypeOK /\ Attached
    BY TypeParts
  <1>2. OutType'
    BY <1>1, SentType DEF OutType
  <1>3. clients' = clients /\ command' = command
    BY DEF Sent
  <1>4. TableType'
    BY <1>1, <1>3, SentType DEF TableType, TypeOK
  <1>5. ReadType'
    <2>1. readPc' \in [Conns -> ReadPcs] /\ replies' \in [Conns -> Seq(Reply)]
      BY <1>1, SentType DEF ReadPcs
    <2>2. \A d \in Conns : readPc'[d] \in {"reply", "blocked"} => replies'[d] # <<>>
      BY <1>1, SentAttached DEF Attached
    <2> QED
      BY <1>1, <1>3, <2>1, <2>2 DEF ReadType, TypeOK
  <1>6. UNCHANGED <<netVars, mainVars, acceptVars, streamVars>>
    BY DEF Sent
  <1> QED
    BY <1>2, <1>4, <1>5, <1>6, TypeFrame

(* Every step keeps the types, and the two facts above that they rest on. *)
LEMMA TypesStep ==
    ASSUME Types, [Next]_vars
    PROVE  Types'
  <1> USE TypeFrame DEF Types
  <1>1. CASE Start \/ StartFails \/ StopBegin
    <2>1. MainType'
      BY <1>1 DEF Start, StartFails, StopBegin, MainType, mainVars
    <2>2. AcceptType'
      BY <1>1 DEF Start, StartFails, StopBegin, AcceptType, acceptVars
    <2>3. NetType'
      BY <1>1 DEF Start, StartFails, StopBegin, NetType, netVars
    <2>4. UNCHANGED <<outVars, mutex, tableVars, readVars, streamVars>>
      BY <1>1 DEF Start, StartFails, StopBegin
    <2> QED
      BY <2>1, <2>2, <2>3, <2>4
  <1>2. CASE StopStep
    <2>1. MainType'
      BY <1>2 DEF StopStep, CloseListen, JoinAccept, Snapshot, ShutdownOne, StopReturn, MainType, TableType, mainVars
    <2>2. NetType'
      BY <1>2 DEF StopStep, CloseListen, JoinAccept, Snapshot, ShutdownOne, StopReturn, NetType, netVars
    <2>3. UNCHANGED <<outVars, acceptVars, mutex, tableVars, readVars, streamVars>>
      BY <1>2 DEF StopStep, CloseListen, JoinAccept, Snapshot, ShutdownOne, StopReturn
    <2> QED
      BY <2>1, <2>2, <2>3
  <1>3. CASE AcceptStep
    <2>1. CASE AcceptCheck \/ AcceptFails
      <3>1. AcceptType'
        BY <2>1 DEF AcceptCheck, AcceptFails, AcceptType
      <3>2. UNCHANGED <<netVars, outVars, mainVars, mutex, tableVars, readVars, streamVars>>
        BY <2>1 DEF AcceptCheck, AcceptFails
      <3> QED
        BY <3>1, <3>2
    <2>2. ASSUME NEW c \in Conns, AcceptOne(c) PROVE Types'
      <3>1. AcceptType'
        BY <2>2 DEF AcceptOne, AcceptType
      <3>2. NetType'
        BY <2>2 DEF AcceptOne, NetType
      <3>3. UNCHANGED <<outVars, mainVars, mutex, tableVars, readVars, streamVars>>
        BY <2>2 DEF AcceptOne
      <3> QED
        BY <3>1, <3>2, <3>3
    <2>3. CASE Register
      <3>1. AcceptType' /\ newConn \in Conns
        BY <2>3 DEF Register, AcceptType
      <3>2. TableType'
        BY <2>3, <3>1, NewSessionType DEF Register, TableType
      <3>3. UNCHANGED <<netVars, outVars, mainVars, mutex, readVars, streamVars>>
        BY <2>3 DEF Register
      <3> QED
        BY <3>1, <3>2, <3>3
    <2>4. CASE Spawn
      <3>1. AcceptType' /\ newConn \in Conns
        BY <2>4 DEF Spawn, AcceptType
      <3>2. ReadType'
        BY <2>4, <3>1, ReadMoves DEF Spawn, ReadPcs
      <3>3. UNCHANGED <<netVars, outVars, mainVars, mutex, tableVars, streamVars>>
        BY <2>4 DEF Spawn
      <3> QED
        BY <3>1, <3>2, <3>3
    <2> QED
      BY <1>3, <2>1, <2>2, <2>3, <2>4 DEF AcceptStep
  <1>4. ASSUME NEW c \in Conns, ReadStep(c) PROVE Types'
    <2>1. CASE Recv(c)
      <3>1. inbox[c] \in Seq(AllCommands) /\ inbox[c] # <<>>
        BY <2>1 DEF Recv, NetType
      <3>2. Head(inbox[c]) \in AllCommands /\ Tail(inbox[c]) \in Seq(AllCommands)
        BY <3>1
      <3>3. inbox' \in [Conns -> Seq(AllCommands)]
        BY <2>1, <3>2 DEF Recv, NetType
      <3>4. NetType'
        BY <2>1, <3>3 DEF Recv, NetType
      <3>5. command' \in [Conns -> AllCommands]
        BY <2>1, <3>2 DEF Recv, ReadType
      <3>6. readPc' \in [Conns -> ReadPcs]
        BY <2>1 DEF Recv, ReadType, ReadPcs
      <3>7. \A d \in Conns : readPc'[d] \in {"reply", "blocked"} => replies'[d] # <<>>
        BY <2>1 DEF Recv, ReadType
      <3>8. ReadType'
        BY <2>1, <3>5, <3>6, <3>7 DEF Recv, ReadType
      <3>9. UNCHANGED <<outVars, mainVars, acceptVars, mutex, tableVars, streamVars>>
        BY <2>1 DEF Recv
      <3> QED
        BY <3>4, <3>8, <3>9
    <2>2. CASE RecvEnds(c) \/ HandleOther(c) \/ HandleOversized(c)
      <3>1. ReadType'
        BY <2>2, ReadMoves DEF RecvEnds, HandleOther, HandleOversized, ReadPcs
      <3>2. UNCHANGED <<netVars, outVars, mainVars, acceptVars, mutex, tableVars, streamVars>>
        BY <2>2 DEF RecvEnds, HandleOther, HandleOversized
      <3> QED
        BY <3>1, <3>2
    <2>3. CASE HandleHello(c)
      <3>1. AfterHello(session[c]) \in SessionState
        BY SessionTypes DEF TableType
      <3>2. <<"DeviceInfo", "ClientSync">> \in Seq(Reply) /\ <<"DeviceInfo", "ClientSync">> # <<>>
        BY DEF Reply
      <3>3. TableType'
        BY <2>3, <3>1 DEF HandleHello, TableType
      <3>4. ReadType'
        BY <2>3, <3>2, ReadReplies DEF HandleHello
      <3>5. UNCHANGED <<netVars, outVars, mainVars, acceptVars, mutex, streamVars>>
        BY <2>3 DEF HandleHello
      <3> QED
        BY <3>3, <3>4, <3>5
    <2>4. CASE HandleSetSetting(c)
      <3>1. AfterSetting(session[c], command[c]) \in SessionState
        BY <2>4, SessionTypes DEF HandleSetSetting, Handling, TableType
      <3>2. TableType'
        BY <2>4, <3>1 DEF HandleSetSetting, TableType
      <3>3. ReadType'
        BY <2>4, ReadMoves DEF HandleSetSetting, ReadPcs
      <3>4. UNCHANGED <<netVars, outVars, mainVars, acceptVars, mutex, streamVars>>
        BY <2>4 DEF HandleSetSetting
      <3> QED
        BY <3>2, <3>3, <3>4
    <2>5. CASE HandlePing(c)
      <3>1. <<"Pong">> \in Seq(Reply) /\ <<"Pong">> # <<>>
        BY DEF Reply
      <3>2. ReadType'
        BY <2>5, <3>1, ReadReplies DEF HandlePing
      <3>3. UNCHANGED <<netVars, outVars, mainVars, acceptVars, mutex, tableVars, streamVars>>
        BY <2>5 DEF HandlePing
      <3> QED
        BY <3>2, <3>3
    <2>6. CASE SendNow(c) \/ SendResumes(c)
      <3>1. Sent(c) /\ readPc[c] \in {"reply", "blocked"}
        BY <2>6 DEF SendNow, SendResumes
      <3>2. LockType'
        BY <2>6 DEF SendNow, SendResumes, LockType
      <3> QED
        BY <3>1, <3>2, SentTypes
    <2>7. CASE SendBlocks(c)
      <3>1. readPc' \in [Conns -> ReadPcs]
        BY <2>7 DEF SendBlocks, ReadType, ReadPcs
      <3>2. \A d \in Conns : readPc'[d] \in {"reply", "blocked"} => replies'[d] # <<>>
        BY <2>7 DEF SendBlocks, ReadType
      <3>3. ReadType' /\ LockType'
        BY <2>7, <3>1, <3>2 DEF SendBlocks, ReadType, LockType
      <3>4. UNCHANGED <<netVars, outVars, mainVars, acceptVars, tableVars, streamVars>>
        BY <2>7 DEF SendBlocks
      <3> QED
        BY <3>3, <3>4
    <2>8. CASE Remove(c)
      <3>1. ReadType'
        BY <2>8, ReadMoves DEF Remove, ReadPcs
      <3>2. TableType'
        BY <2>8 DEF Remove, TableType
      <3>3. UNCHANGED <<netVars, outVars, mainVars, acceptVars, mutex, streamVars>>
        BY <2>8 DEF Remove
      <3> QED
        BY <3>1, <3>2, <3>3
    <2>9. CASE Close(c)
      <3>1. ReadType'
        BY <2>9, ReadMoves DEF Close, ReadPcs
      <3>2. NetType'
        BY <2>9 DEF Close, NetType
      <3>3. UNCHANGED <<outVars, mainVars, acceptVars, mutex, tableVars, streamVars>>
        BY <2>9 DEF Close
      <3> QED
        BY <3>1, <3>2, <3>3
    <2> QED
      BY <1>4, <2>1, <2>2, <2>3, <2>4, <2>5, <2>6, <2>7, <2>8, <2>9 DEF ReadStep
  <1>5. CASE ChunkArrives
    <2>1. StreamType'
      BY <1>5, SpyAssumption DEF ChunkArrives, StreamType
    <2>2. UNCHANGED <<netVars, outVars, mainVars, acceptVars, mutex, tableVars, readVars>>
      BY <1>5 DEF ChunkArrives
    <2> QED
      BY <2>1, <2>2
  <1>6. CASE Broadcast
    <2>1. OutType' /\ session' \in [Conns -> SessionState]
      BY <1>6, TypeParts, BroadcastType DEF OutType
    <2>2. TableType' /\ StreamType'
      BY <1>6, <2>1 DEF Broadcast, TableType, StreamType
    <2>3. UNCHANGED <<netVars, mainVars, acceptVars, mutex, readVars>>
      BY <1>6 DEF Broadcast
    <2> QED
      BY <2>1, <2>2, <2>3
  <1>7. ASSUME NEW c \in Conns, EnvOf(c) PROVE Types'
    <2>1. CASE Connect(c) \/ Leave(c)
      <3>1. NetType'
        BY <2>1 DEF Connect, Leave, NetType
      <3>2. UNCHANGED <<outVars, mainVars, acceptVars, mutex, tableVars, readVars, streamVars>>
        BY <2>1 DEF Connect, Leave
      <3> QED
        BY <3>1, <3>2
    <2>2. ASSUME NEW cmd \in Commands, SendCommand(c, cmd) PROVE Types'
      <3>1. cmd \in AllCommands /\ inbox[c] \in Seq(AllCommands)
        BY SpyAssumption DEF NetType
      <3>2. Append(inbox[c], cmd) \in Seq(AllCommands)
        BY <3>1
      <3>3. inbox' \in [Conns -> Seq(AllCommands)]
        BY <2>2, <3>2 DEF SendCommand, NetType
      <3>4. asked' \in 0..MaxCommands
        BY <2>2, SpyAssumption DEF SendCommand, NetType
      <3>5. first' \in [Conns -> {"silent", "polite", "rude"}]
        BY <2>2 DEF SendCommand, NetType
      <3>6. NetType'
        BY <2>2, <3>3, <3>4, <3>5 DEF SendCommand, NetType
      <3>7. UNCHANGED <<outVars, mainVars, acceptVars, mutex, tableVars, readVars, streamVars>>
        BY <2>2 DEF SendCommand
      <3> QED
        BY <3>6, <3>7
    <2>3. CASE ClientRead(c)
      <3>1. OutType'
        BY <2>3, SpyAssumption DEF ClientRead, OutType
      <3>2. UNCHANGED <<netVars, mainVars, acceptVars, mutex, tableVars, readVars, streamVars>>
        BY <2>3 DEF ClientRead
      <3> QED
        BY <3>1, <3>2
    <2> QED
      BY <1>7, <2>1, <2>2, <2>3 DEF EnvOf
  <1>8. CASE UNCHANGED vars
    BY <1>8 DEF vars
  <1> QED
    BY <1>1, <1>2, <1>3, <1>4, <1>5, <1>6, <1>7, <1>8 DEF Next, Ended, EnvStep, EnvOf

LEMMA TypeStep ==
    ASSUME TypeOK, Attached, [Next]_vars
    PROVE  TypeOK' /\ Attached'
  <1>1. Types
    BY TypeParts
  <1>2. Types'
    BY <1>1, TypesStep
  <1>3. Types' <=> TypeOK' /\ Attached'
    BY TypeParts, PTL
  <1> QED
    BY <1>2, <1>3

(* The types hold of every reachable state (TypeOK). *)
THEOREM TypeCorrect == Spec => []TypeOK
  <1>1. Init => TypeOK /\ Attached
    BY InitType DEF Init, Attached
  <1>2. TypeOK /\ Attached /\ [Next]_vars => (TypeOK /\ Attached)'
    BY TypeStep
  <1> QED
    BY <1>1, <1>2, PTL DEF Spec

-----------------------------------------------------------------------------
(* Who is in clients_. *)

Active == {"recv", "handle", "reply", "blocked", "remove"}

(* The accept thread is alive only between start() and the join. *)
AcceptJoined ==
    /\ mainPc = "init" => acceptPc = "none"
    /\ mainPc \in {"snapshot", "shutting", "stopped"} => acceptPc = "done"

Accepted == (acceptPc \in {"register", "spawn"}) =>
    /\ newConn \in Conns /\ readPc[newConn] = "none" /\ peer[newConn] = "open"
    /\ acceptPc = "register" => newConn \notin clients /\ wire[newConn] = <<>>

Unaccepted == \A c \in Conns : (peer[c] \in {"new", "pending"}) =>
    readPc[c] = "none" /\ c \notin clients /\ wire[c] = <<>>

(* A client in the table is open: its thread has not got past removeClient(). *)
Members ==
    /\ \A c \in clients : peer[c] = "open"
                          /\ (readPc[c] \in Active \/ (acceptPc = "spawn" /\ newConn = c))
    /\ \A c \in Conns : readPc[c] \in Active \cup {"close"} => peer[c] = "open"

Table == AcceptJoined /\ Accepted /\ Unaccepted /\ Members

LEMMA SentTable ==
    ASSUME TypeOK, Table, NEW c \in Conns, Sent(c), readPc[c] \in {"reply", "blocked"}
    PROVE  Table'
  <1>1. readPc'[c] \in Active /\ (\A d \in Conns \ {c} : readPc'[d] = readPc[d] /\ wire'[d] = wire[d])
    BY DEF Sent, TypeOK, Active, outVars
  <1>2. UNCHANGED <<peer, mainPc, acceptPc, newConn, clients>>
    BY DEF Sent, netVars, mainVars, acceptVars
  <1>3. c \in clients \/ peer[c] = "open"
    BY DEF Table, Members, Active
  <1>4. AcceptJoined'
    BY <1>2 DEF Table, AcceptJoined
  <1>5. Accepted'
    BY <1>1, <1>2 DEF Table, Accepted
  <1>6. Unaccepted'
    BY <1>1, <1>2, <1>3 DEF Table, Unaccepted, Members, TypeOK
  <1>7. Members'
    BY <1>1, <1>2 DEF Table, Members, Active, TypeOK
  <1> QED
    BY <1>4, <1>5, <1>6, <1>7 DEF Table

(* A read thread's step keeps the table as long as it stays in its states,  *)
(* or leaves them the way removeClient() and the close do.                   *)
LEMMA TableStep ==
    ASSUME TypeOK, Table, [Next]_vars
    PROVE  Table'
  <1> USE DEF TypeOK, Table, AcceptJoined, Accepted, Unaccepted, Members, Active,
              netVars, outVars, mainVars, acceptVars, tableVars, readVars, streamVars
  <1>1. CASE Start
    BY <1>1 DEF Start
  <1>2. CASE StartFails
    BY <1>2 DEF StartFails
  <1>3. CASE StopBegin
    BY <1>3 DEF StopBegin
  <1>4. CASE StopStep
    BY <1>4 DEF StopStep, CloseListen, JoinAccept, Snapshot, ShutdownOne, StopReturn
  <1>5. CASE AcceptStep
    <2>1. CASE AcceptCheck
      BY <2>1 DEF AcceptCheck
    <2>2. ASSUME NEW c \in Conns, AcceptOne(c) PROVE Table'
      BY <2>2 DEF AcceptOne
    <2>3. CASE AcceptFails
      BY <2>3 DEF AcceptFails
    <2>4. CASE Register
      BY <2>4 DEF Register
    <2>5. CASE Spawn
      BY <2>5 DEF Spawn
    <2> QED
      BY <1>5, <2>1, <2>2, <2>3, <2>4, <2>5 DEF AcceptStep
  <1>6. ASSUME NEW c \in Conns, ReadStep(c) PROVE Table'
    <2>1. CASE Recv(c)
      BY <2>1 DEF Recv
    <2>2. CASE RecvEnds(c)
      BY <2>2 DEF RecvEnds
    <2>3. CASE HandleHello(c)
      BY <2>3 DEF HandleHello, Handling
    <2>4. CASE HandleSetSetting(c)
      BY <2>4 DEF HandleSetSetting, Handling
    <2>5. CASE HandlePing(c)
      BY <2>5 DEF HandlePing, Handling
    <2>6. CASE HandleOther(c)
      BY <2>6 DEF HandleOther, Handling
    <2>7. CASE HandleOversized(c)
      BY <2>7 DEF HandleOversized, Handling
    <2>8. CASE SendNow(c)
      BY <2>8, SentTable DEF SendNow
    <2>9. CASE SendBlocks(c)
      BY <2>9 DEF SendBlocks
    <2>10. CASE SendResumes(c)
      BY <2>10, SentTable DEF SendResumes
    <2>11. CASE Remove(c)
      BY <2>11 DEF Remove
    <2>12. CASE Close(c)
      BY <2>12 DEF Close
    <2> QED
      BY <1>6, <2>1, <2>2, <2>3, <2>4, <2>5, <2>6, <2>7, <2>8, <2>9, <2>10, <2>11, <2>12 DEF ReadStep
  <1>7. CASE ChunkArrives
    BY <1>7 DEF ChunkArrives
  <1>8. CASE Broadcast
    <2>1. \A c \in Conns : c \notin clients /\ readPc[c] = "none" => wire'[c] = wire[c]
      BY <1>8, BroadcastShares DEF Share, Streaming
    <2> QED
      BY <1>8, <2>1 DEF Broadcast
  <1>9. ASSUME NEW c \in Conns, EnvOf(c) PROVE Table'
    BY <1>9 DEF EnvOf, Connect, SendCommand, ClientRead, Leave
  <1>10. CASE UNCHANGED vars
    BY <1>10 DEF vars
  <1> QED
    BY <1>1, <1>2, <1>3, <1>4, <1>5, <1>6, <1>7, <1>8, <1>9, <1>10 DEF Next, Ended, EnvStep, EnvOf

LEMMA TableInit == Init => Table
  BY DEF Init, Table, AcceptJoined, Accepted, Unaccepted, Members, Active

(* IInv. *)
IInv == TypeOK /\ Attached /\ Table

LEMMA Inductive == Spec => []IInv
  <1>1. Init => IInv
    BY InitType, TableInit DEF Init, Attached, IInv
  <1>2. IInv /\ [Next]_vars => IInv'
    BY TypeStep, TableStep DEF IInv
  <1> QED
    BY <1>1, <1>2, PTL DEF Spec

(* Whatever is streamed goes to connections that are still open, whoever    *)
(* connects, leaves or is thrown out meanwhile (StreamedToOpen).             *)
THEOREM StreamedStaysOpen == Spec => []StreamedToOpen
  <1>1. IInv => StreamedToOpen
    BY DEF IInv, Table, Members, StreamedToOpen
  <1> QED
    BY <1>1, Inductive, PTL

(* Once stop() has taken its snapshot, no client is added that it would     *)
(* miss: the accept thread has been joined (NoLateClient).                   *)
THEOREM NoneAddedLate == Spec => NoLateClient
  <1>1. IInv /\ [Next]_vars =>
            [ (mainPc \in {"snapshot", "shutting", "stopped"}) => (clients' \subseteq clients) ]_vars
    <2> SUFFICES ASSUME IInv, [Next]_vars, mainPc \in {"snapshot", "shutting", "stopped"}
                 PROVE  clients' \subseteq clients
      OBVIOUS
    <2>1. acceptPc = "done"
      BY DEF IInv, Table, AcceptJoined
    <2> QED
      BY <2>1 DEF Next, vars, tableVars, StopStep, AcceptStep, ReadStep, EnvStep, Ended,
         Start, StartFails, StopBegin, CloseListen, JoinAccept, Snapshot, ShutdownOne, StopReturn,
         AcceptCheck, AcceptOne, AcceptFails, Register, Spawn, Recv, RecvEnds, HandleHello,
         HandleSetSetting, HandlePing, HandleOther, HandleOversized, SendNow, SendBlocks,
         SendResumes, Sent, Remove, Close, ChunkArrives, Broadcast, Connect, SendCommand,
         ClientRead, Leave
  <1> QED
    BY <1>1, Inductive, PTL DEF Spec, NoLateClient

-----------------------------------------------------------------------------
(* What a step does to one client's wire: nothing, or one more message that *)
(* takes the session's next number, and is IQ only after a Hello.            *)

Quiet(c) ==
    /\ wire'[c] = wire[c]
    /\ \/ wire[c] = <<>>
       \/ session'[c].seq >= session[c].seq /\ (session[c].hello => session'[c].hello)

Puts(c) == \E m \in Message :
    /\ wire'[c] = Append(wire[c], m)
    /\ m.seq = session[c].seq /\ session'[c].seq = session[c].seq + 1
    /\ session'[c].hello = session[c].hello
    /\ m.type = "IQ" => session[c].hello

(* Put() leaves the wire as it is, or adds the message it was given. *)
Extends(old, new, type, seq) ==
    new = old \/ \E m \in Message : new = Append(old, m) /\ m.seq = seq /\ m.type = type

LEMMA PutAdds ==
    ASSUME NEW c \in Conns, NEW type \in Reply \cup {"IQ"}, NEW seq \in Nat, NEW size \in Nat
    PROVE  Extends(wire[c], Put(c, type, seq, size).items, type, seq)
  <1> DEFINE whole == (IF size <= Room(c) THEN size ELSE Room(c)) = size
             msg == [type |-> type, seq |-> seq, whole |-> whole]
  <1>1. whole \in BOOLEAN
    OBVIOUS
  <1>2. msg \in Message /\ msg.seq = seq /\ msg.type = type
    BY <1>1 DEF Message
  <1>3. Put(c, type, seq, size).items = wire[c] \/ Put(c, type, seq, size).items = Append(wire[c], msg)
    BY DEF Put
  <1> HIDE DEF msg, whole
  <1> QED
    BY <1>2, <1>3 DEF Extends

LEMMA SentPuts ==
    ASSUME TypeOK, Attached, NEW c \in Conns, Sent(c), readPc[c] \in {"reply", "blocked"}, NEW d \in Conns
    PROVE  Quiet(d) \/ Puts(d)
  <1>1. session[c] \in SessionState /\ replies[c] \in Seq(Reply) /\ replies[c] # <<>>
    BY DEF TypeOK, Attached
  <1>2. session[c].seq \in Nat /\ Head(replies[c]) \in Reply
    BY <1>1 DEF SessionState
  <1>3. session' = [session EXCEPT ![c] = [session[c] EXCEPT !.seq = @ + 1]]
    BY <1>1 DEF Sent
  <1>4. session'[c] = [session[c] EXCEPT !.seq = @ + 1]
    BY <1>3 DEF TypeOK
  <1>5. session'[c].seq = session[c].seq + 1 /\ session'[c].hello = session[c].hello
    BY <1>1, <1>4 DEF SessionState
  <1> DEFINE put == Put(c, Head(replies[c]), session[c].seq, ControlSize)
  <1>6. wire' = wire \/ wire' = [wire EXCEPT ![c] = put.items]
    BY DEF Sent, outVars
  <1>7. \/ put.items = wire[c]
        \/ \E m \in Message : put.items = Append(wire[c], m) /\ m.seq = session[c].seq /\ m.type \in Reply
    <2>1. Extends(wire[c], put.items, Head(replies[c]), session[c].seq)
      BY <1>2, PutAdds DEF ControlSize
    <2> HIDE DEF put
    <2> QED
      BY <1>2, <2>1 DEF Extends
  <1> HIDE DEF put
  <1>8. CASE d = c
    <2>1. wire'[c] = wire[c] \/ wire'[c] = put.items
      BY <1>6 DEF TypeOK
    <2>2. CASE wire'[c] = wire[c]
      BY <1>2, <1>5, <1>8, <2>2 DEF Quiet
    <2>3. CASE wire'[c] # wire[c]
      <3>1. PICK m \in Message : wire'[c] = Append(wire[c], m) /\ m.seq = session[c].seq /\ m.type \in Reply
        BY <1>7, <2>1, <2>3
      <3> QED
        BY <1>5, <1>8, <3>1 DEF Puts, Reply
    <2> QED
      BY <2>2, <2>3
  <1>9. CASE d # c
    <2>1. wire'[d] = wire[d] /\ session'[d] = session[d]
      BY <1>3, <1>6, <1>9 DEF TypeOK
    <2>2. session[d].seq \in Nat
      BY DEF TypeOK, SessionState
    <2> QED
      BY <2>1, <2>2 DEF Quiet
  <1> QED
    BY <1>8, <1>9

LEMMA BroadcastPuts ==
    ASSUME TypeOK, Broadcast, NEW c \in Conns
    PROVE  Quiet(c) \/ Puts(c)
  <1>1. session[c] \in SessionState /\ session[c].seq \in Nat
    BY DEF TypeOK, SessionState
  <1>2. wire'[c] = Share(c).items
    BY BroadcastShares
  <1>3. session'[c] = IF Streaming(c) THEN [session[c] EXCEPT !.seq = @ + 1] ELSE session[c]
    BY DEF Broadcast
  <1>4. CASE Streaming(c) /\ ~Dead(c)
    <2>1. wire'[c] = Put(c, "IQ", session[c].seq, IqSize).items
      BY <1>2, <1>4 DEF Share
    <2>2. session'[c].seq = session[c].seq + 1 /\ session'[c].hello = session[c].hello
      BY <1>1, <1>3, <1>4 DEF SessionState
    <2>5. \/ Put(c, "IQ", session[c].seq, IqSize).items = wire[c]
          \/ \E m \in Message : /\ Put(c, "IQ", session[c].seq, IqSize).items = Append(wire[c], m)
                               /\ m.seq = session[c].seq /\ m.type = "IQ"
      <3>1. Extends(wire[c], Put(c, "IQ", session[c].seq, IqSize).items, "IQ", session[c].seq)
        BY <1>1, PutAdds DEF IqSize
      <3> QED
        BY <3>1 DEF Extends
    <2>3. CASE wire'[c] = wire[c]
      BY <1>1, <2>2, <2>3 DEF Quiet
    <2>4. CASE wire'[c] # wire[c]
      <3>1. PICK m \in Message : wire'[c] = Append(wire[c], m) /\ m.seq = session[c].seq /\ m.type = "IQ"
        BY <2>1, <2>4, <2>5
      <3> QED
        BY <1>4, <2>2, <3>1 DEF Puts, Streaming
    <2> QED
      BY <2>3, <2>4
  <1>5. CASE ~(Streaming(c) /\ ~Dead(c))
    <2>1. wire'[c] = wire[c]
      BY <1>2, <1>5 DEF Share
    <2>2. session'[c].seq >= session[c].seq /\ session'[c].hello = session[c].hello
      <3>1. CASE Streaming(c)
        BY <1>1, <1>3, <3>1 DEF SessionState
      <3>2. CASE ~Streaming(c)
        BY <1>1, <1>3, <3>2
      <3> QED
        BY <3>1, <3>2
    <2> QED
      BY <2>1, <2>2 DEF Quiet
  <1> QED
    BY <1>4, <1>5

LEMMA WireStep ==
    ASSUME IInv, [Next]_vars, NEW c \in Conns
    PROVE  Quiet(c) \/ Puts(c)
  <1>1. session[c] \in SessionState /\ session[c].seq \in Nat
    BY DEF IInv, TypeOK, SessionState
  <1>2. CASE UNCHANGED <<wire, session>>
    BY <1>1, <1>2 DEF Quiet
  <1>3. CASE Register
    <2>1. wire' = wire /\ newConn \in Conns /\ wire[newConn] = <<>>
      BY <1>3 DEF Register, outVars, IInv, Table, Accepted
    <2>2. c # newConn => session'[c] = session[c]
      BY <1>3 DEF Register, IInv, TypeOK
    <2> QED
      BY <1>1, <2>1, <2>2 DEF Quiet
  <1>4. ASSUME NEW d \in Conns, SendNow(d) \/ SendResumes(d) PROVE Quiet(c) \/ Puts(c)
    <2>1. Sent(d) /\ readPc[d] \in {"reply", "blocked"}
      BY <1>4 DEF SendNow, SendResumes
    <2> QED
      BY <2>1, SentPuts DEF IInv
  <1>5. CASE Broadcast
    BY <1>5, BroadcastPuts DEF IInv
  <1>6. ASSUME NEW d \in Conns, HandleHello(d) PROVE Quiet(c) \/ Puts(c)
    <2>1. wire' = wire /\ session' = [session EXCEPT ![d] = AfterHello(session[d])]
      BY <1>6 DEF HandleHello, outVars
    <2>2. session[d] \in SessionState
      BY DEF IInv, TypeOK
    <2>3. AfterHello(session[d]).seq = session[d].seq /\ AfterHello(session[d]).hello
      BY <2>2 DEF AfterHello, SessionState
    <2>4. session'[c] = IF c = d THEN AfterHello(session[d]) ELSE session[c]
      BY <2>1 DEF IInv, TypeOK
    <2>5. session'[c].seq = session[c].seq /\ (session[c].hello => session'[c].hello)
      BY <2>3, <2>4
    <2> QED
      BY <1>1, <2>1, <2>5 DEF Quiet
  <1>7. ASSUME NEW d \in Conns, HandleSetSetting(d) PROVE Quiet(c) \/ Puts(c)
    <2>1. wire' = wire /\ session' = [session EXCEPT ![d] = AfterSetting(session[d], command[d])]
      BY <1>7 DEF HandleSetSetting, outVars
    <2>2. session[d] \in SessionState
      BY DEF IInv, TypeOK
    <2>3. \A b \in BOOLEAN : /\ [session[d] EXCEPT !.iq = b].seq = session[d].seq
                            /\ [session[d] EXCEPT !.enabled = b].seq = session[d].seq
                            /\ [session[d] EXCEPT !.iq = b].hello = session[d].hello
                            /\ [session[d] EXCEPT !.enabled = b].hello = session[d].hello
      BY <2>2 DEF SessionState
    <2>4. \E b \in BOOLEAN : AfterSetting(session[d], command[d])
                              \in {[session[d] EXCEPT !.iq = b], [session[d] EXCEPT !.enabled = b]}
      BY <1>7 DEF HandleSetSetting, Handling, AfterSetting
    <2>5. AfterSetting(session[d], command[d]).seq = session[d].seq
          /\ AfterSetting(session[d], command[d]).hello = session[d].hello
      BY <2>3, <2>4
    <2>6. session'[c] = IF c = d THEN AfterSetting(session[d], command[d]) ELSE session[c]
      BY <2>1 DEF IInv, TypeOK
    <2>7. session'[c].seq = session[c].seq /\ session'[c].hello = session[c].hello
      BY <2>5, <2>6
    <2> QED
      BY <1>1, <2>1, <2>7 DEF Quiet
  <1> QED
    BY <1>2, <1>3, <1>4, <1>5, <1>6, <1>7
    DEF Next, vars, outVars, tableVars, StopStep, AcceptStep, ReadStep, EnvStep, Ended,
        Start, StartFails, StopBegin, CloseListen, JoinAccept, Snapshot, ShutdownOne, StopReturn,
        AcceptCheck, AcceptOne, AcceptFails, Spawn, Recv, RecvEnds, HandlePing, HandleOther,
        HandleOversized, SendBlocks, Remove, Close, ChunkArrives, Connect, SendCommand, Leave, ClientRead

(* Every message on a wire bears a number the session is past, the numbers  *)
(* grow, and there is IQ among them only after a Hello.                      *)
Numbered(c) ==
    /\ \A i \in 1..Len(wire[c]) : wire[c][i].seq < session[c].seq
    /\ \A i, j \in 1..Len(wire[c]) : i < j => wire[c][i].seq < wire[c][j].seq

Invited(c) == (\E i \in 1..Len(wire[c]) : wire[c][i].type = "IQ") => session[c].hello

LEMMA NumberedStep ==
    ASSUME IInv, [Next]_vars, NEW c \in Conns, Numbered(c), Invited(c)
    PROVE  Numbered(c)' /\ Invited(c)'
  <1>1. wire[c] \in Seq(Message) /\ session[c].seq \in Nat
    BY DEF IInv, TypeOK, SessionState
  <1>2. Len(wire[c]) \in Nat /\ (\A i \in 1..Len(wire[c]) : wire[c][i].seq \in Nat)
    <2>1. \A i \in 1..Len(wire[c]) : wire[c][i] \in Message
      BY <1>1
    <2> QED
      BY <1>1, <2>1 DEF Message
  <1>3. session'[c].seq \in Nat
    BY TypeStep DEF IInv, TypeOK, SessionState
  <1>4. CASE Quiet(c)
    <2>1. CASE wire[c] = <<>>
      <3>1. Len(wire'[c]) = 0
        BY <1>4, <2>1, EmptySeq DEF Quiet
      <3> QED
        BY <3>1 DEF Numbered, Invited
    <2>2. CASE wire[c] # <<>>
      <3>1. wire'[c] = wire[c] /\ session'[c].seq >= session[c].seq /\ (session[c].hello => session'[c].hello)
        BY <1>4, <2>2 DEF Quiet
      <3>2. Numbered(c)'
        BY <1>1, <1>2, <1>3, <3>1 DEF Numbered
      <3>3. Invited(c)'
        BY <3>1 DEF Invited
      <3> QED
        BY <3>2, <3>3
    <2> QED
      BY <2>1, <2>2
  <1>5. CASE Puts(c)
    <2>1. PICK m \in Message : /\ wire'[c] = Append(wire[c], m)
                               /\ m.seq = session[c].seq /\ session'[c].seq = session[c].seq + 1
                               /\ session'[c].hello = session[c].hello
                               /\ m.type = "IQ" => session[c].hello
      BY <1>5 DEF Puts
    <2> DEFINE n == Len(wire[c])
    <2>2. Len(wire'[c]) = n + 1
      BY <1>1, <2>1
    <2>3. \A i \in 1..n : wire'[c][i] = wire[c][i]
      BY <1>1, <2>1
    <2>4. wire'[c][n + 1] = m
      BY <1>1, <2>1
    <2>5. Numbered(c)'
      <3>1. \A i \in 1..Len(wire'[c]) : i \in 1..n \/ i = n + 1
        BY <1>2, <2>2
      <3>2. \A i \in 1..Len(wire'[c]) : wire'[c][i].seq < session'[c].seq
        BY <1>1, <1>2, <2>1, <2>3, <2>4, <3>1 DEF Numbered
      <3>3. \A i, j \in 1..Len(wire'[c]) : i < j => wire'[c][i].seq < wire'[c][j].seq
        <4> SUFFICES ASSUME NEW i \in 1..Len(wire'[c]), NEW j \in 1..Len(wire'[c]), i < j
                     PROVE  wire'[c][i].seq < wire'[c][j].seq
          OBVIOUS
        <4>1. i \in 1..n
          BY <1>2, <2>2
        <4>2. CASE j \in 1..n
          BY <2>3, <4>1, <4>2 DEF Numbered
        <4>3. CASE j = n + 1
          BY <2>1, <2>3, <2>4, <4>1, <4>3 DEF Numbered
        <4> QED
          BY <3>1, <4>2, <4>3
      <3> QED
        BY <3>2, <3>3 DEF Numbered
    <2>6. Invited(c)'
      <3>1. CASE \E i \in 1..n : wire[c][i].type = "IQ"
        BY <2>1, <3>1 DEF Invited
      <3>2. CASE ~ \E i \in 1..n : wire[c][i].type = "IQ"
        BY <1>2, <2>1, <2>2, <2>3, <2>4, <3>2 DEF Invited
      <3> QED
        BY <3>1, <3>2
    <2> QED
      BY <2>5, <2>6
  <1> QED
    BY <1>4, <1>5, WireStep

AllNumbered == \A c \in Conns : Numbered(c) /\ Invited(c)

LEMMA NumberedAlways == Spec => []AllNumbered
  <1>1. Init => AllNumbered
    <2> SUFFICES ASSUME Init, NEW c \in Conns PROVE Numbered(c) /\ Invited(c)
      BY DEF AllNumbered
    <2>1. Len(wire[c]) = 0
      BY EmptySeq DEF Init
    <2> QED
      BY <2>1 DEF Numbered, Invited
  <1>2. IInv /\ AllNumbered /\ [Next]_vars => AllNumbered'
    BY NumberedStep DEF AllNumbered
  <1> QED
    BY <1>1, <1>2, Inductive, PTL DEF Spec

(* The two threads that number a client's messages never number two alike,  *)
(* nor put them on the wire out of order (SequenceGrows).                    *)
THEOREM NumbersGrow == Spec => []SequenceGrows
  <1>1. AllNumbered => SequenceGrows
    BY DEF AllNumbered, Numbered, SequenceGrows
  <1> QED
    BY <1>1, NumberedAlways, PTL

(* A client that never said Hello is never sent IQ (NoIqUninvited). *)
THEOREM IqInvited == Spec => []NoIqUninvited
  <1>1. AllNumbered => NoIqUninvited
    BY DEF AllNumbered, Invited, NoIqUninvited
  <1> QED
    BY <1>1, NumberedAlways, PTL

-----------------------------------------------------------------------------
(* The handshake, stage by stage.  Until it is answered streaming is not    *)
(* enabled, since the thread that would enable it is busy answering; and on  *)
(* a dead connection the wire stays as it is.                                *)

Leads(c) == /\ Len(wire[c]) >= 1 => wire[c][1].type = "DeviceInfo"
            /\ Len(wire[c]) >= 2 => wire[c][2].type = "ClientSync"

Disabled(c) == ~session[c].enabled

Silent(c) ==
    /\ inbox[c] = <<>> /\ wire[c] = <<>> /\ Disabled(c)
    /\ readPc[c] \in {"none", "recv"} \/ (readPc[c] \in {"remove", "close", "done"} /\ Dead(c))

Asked(c) ==
    /\ readPc[c] \in {"none", "recv"} /\ inbox[c] # <<>> /\ Head(inbox[c]) = "hello"
    /\ wire[c] = <<>> /\ Disabled(c)

Greeted(c) == Handling(c, {"hello"}) /\ wire[c] = <<>> /\ Disabled(c)

Answering(c) ==
    /\ readPc[c] \in {"reply", "blocked"} /\ replies[c] = <<"DeviceInfo", "ClientSync">>
    /\ wire[c] = <<>> /\ Disabled(c)

HalfWay(c) ==
    /\ readPc[c] \in {"reply", "blocked"} /\ replies[c] = <<"ClientSync">>
    /\ Len(wire[c]) = 1 /\ wire[c][1].type = "DeviceInfo" /\ Disabled(c)

Answered(c) == Len(wire[c]) >= 2 /\ Leads(c)

Over(c) == Dead(c) /\ Leads(c)

Stage(c) ==
    /\ first[c] = "silent" => Silent(c)
    /\ first[c] = "polite" => \/ Asked(c) \/ Greeted(c) \/ Answering(c) \/ HalfWay(c)
                             \/ Answered(c) \/ Over(c)

(* The thread and the client of c do nothing, and nothing is sent to it. *)
Still(c) ==
    /\ first'[c] = first[c] /\ inbox'[c] = inbox[c] /\ readPc'[c] = readPc[c]
    /\ replies'[c] = replies[c] /\ command'[c] = command[c] /\ wire'[c] = wire[c]
    /\ Disabled(c) => ~session'[c].enabled
    /\ gone \subseteq gone' /\ shut \subseteq shut'

LEMMA StillStage ==
    ASSUME NEW c \in Conns, Stage(c), Still(c)
    PROVE  Stage(c)'
  <1> USE DEF Still
  <1>1. Dead(c) => Dead(c)'
    BY DEF Dead
  <1>2. Disabled(c) => Disabled(c)'
    BY DEF Disabled
  <1>3. Leads(c) => Leads(c)'
    BY DEF Leads
  <1>4. Silent(c) => Silent(c)'
    BY <1>1, <1>2 DEF Silent
  <1>5. Asked(c) => Asked(c)'
    BY <1>2 DEF Asked
  <1>6. Greeted(c) => Greeted(c)'
    BY <1>2 DEF Greeted, Handling
  <1>7. Answering(c) => Answering(c)'
    BY <1>2 DEF Answering
  <1>8. HalfWay(c) => HalfWay(c)'
    BY <1>2 DEF HalfWay
  <1>9. Answered(c) => Answered(c)'
    BY <1>3 DEF Answered
  <1>10. Over(c) => Over(c)'
    BY <1>1, <1>3 DEF Over
  <1> QED
    BY <1>4, <1>5, <1>6, <1>7, <1>8, <1>9, <1>10 DEF Stage

(* Once it leads, the answer to the Hello leads whatever is added. *)
LEMMA AnsweredStays ==
    ASSUME TypeOK, NEW c \in Conns, Answered(c), Quiet(c) \/ Puts(c)
    PROVE  Answered(c)'
  <1>1. wire[c] \in Seq(Message) /\ Len(wire[c]) \in Nat
    BY DEF TypeOK
  <1>2. CASE Quiet(c)
    BY <1>2 DEF Quiet, Answered, Leads
  <1>3. CASE Puts(c)
    <2>1. PICK m \in Message : wire'[c] = Append(wire[c], m)
      BY <1>3 DEF Puts
    <2>2. Len(wire'[c]) = Len(wire[c]) + 1 /\ wire'[c][1] = wire[c][1] /\ wire'[c][2] = wire[c][2]
      BY <1>1, <2>1 DEF Answered
    <2> QED
      BY <1>1, <2>2 DEF Answered, Leads
  <1> QED
    BY <1>2, <1>3

(* sendMessage() takes the answer one message further, or finds it over. *)
LEMMA SentStage ==
    ASSUME TypeOK, Attached, NEW c \in Conns, Stage(c), Sent(c),
           readPc[c] \in {"reply", "blocked"}, Dead(c) \/ Room(c) >= ControlSize
    PROVE  Stage(c)'
  <1>1. first'[c] = first[c] /\ inbox' = inbox /\ gone' = gone /\ shut' = shut
    BY DEF Sent, netVars
  <1>2. session[c] \in SessionState /\ session' = [session EXCEPT ![c] = [session[c] EXCEPT !.seq = @ + 1]]
    BY DEF TypeOK, Sent
  <1>3. session'[c] = [session[c] EXCEPT !.seq = @ + 1]
    BY <1>2 DEF TypeOK
  <1>4. Disabled(c) => Disabled(c)'
    BY <1>2, <1>3 DEF Disabled, SessionState
  <1>5. Dead(c) => wire'[c] = wire[c]
    BY DEF Sent, outVars
  <1>6. ~Dead(c) => wire'[c] = Append(wire[c], [type |-> Head(replies[c]), seq |-> session[c].seq, whole |-> TRUE])
    <2> SUFFICES ASSUME ~Dead(c) PROVE wire'[c] = Append(wire[c], [type |-> Head(replies[c]), seq |-> session[c].seq, whole |-> TRUE])
      OBVIOUS
    <2> DEFINE put == Put(c, Head(replies[c]), session[c].seq, ControlSize)
    <2>1. put.items = Append(wire[c], [type |-> Head(replies[c]), seq |-> session[c].seq, whole |-> TRUE])
      <3> DEFINE taken == IF ControlSize <= Room(c) THEN ControlSize ELSE Room(c)
      <3>1. taken = 1 /\ ControlSize = 1
        BY DEF ControlSize
      <3>2. (taken = ControlSize) = TRUE /\ taken # 0
        BY <3>1
      <3>3. put.items = IF taken = 0 THEN wire[c]
                        ELSE Append(wire[c], [type |-> Head(replies[c]), seq |-> session[c].seq, whole |-> taken = ControlSize])
        BY DEF Put
      <3> HIDE DEF taken, put
      <3> QED
        BY <3>2, <3>3
    <2>2. wire' = [wire EXCEPT ![c] = put.items]
      BY DEF Sent
    <2> QED
      BY <2>1, <2>2 DEF TypeOK
  <1>7. first[c] # "silent"
    BY DEF Stage, Silent
  <1> SUFFICES ASSUME first[c] = "polite"
               PROVE  Greeted(c)' \/ Answering(c)' \/ HalfWay(c)' \/ Answered(c)' \/ Over(c)'
    BY <1>1, <1>7 DEF Stage
  <1>8. CASE Dead(c) /\ Leads(c)
    BY <1>1, <1>5, <1>8 DEF Over, Dead, Leads
  <1>9. CASE Answered(c)
    BY <1>9, SentPuts, AnsweredStays
  <1>10. CASE Answering(c) /\ ~Dead(c)
    <2>1. Head(replies[c]) = "DeviceInfo" /\ Tail(replies[c]) = <<"ClientSync">> /\ Len(replies[c]) = 2
      BY <1>10 DEF Answering
    <2>2. Len(wire'[c]) = 1 /\ wire'[c][1].type = "DeviceInfo"
      BY <1>6, <1>10, <2>1 DEF Answering
    <2>3. replies'[c] = <<"ClientSync">> /\ readPc'[c] = "reply"
      BY <2>1 DEF Sent, TypeOK
    <2> QED
      BY <1>4, <1>10, <2>2, <2>3 DEF HalfWay, Answering
  <1>11. CASE HalfWay(c) /\ ~Dead(c)
    <2>1. Head(replies[c]) = "ClientSync" /\ wire[c] \in Seq(Message)
      BY <1>11 DEF HalfWay, TypeOK
    <2> DEFINE msg == [type |-> "ClientSync", seq |-> session[c].seq, whole |-> TRUE]
    <2>2. wire'[c] = Append(wire[c], msg) /\ Len(wire[c]) = 1 /\ wire[c][1].type = "DeviceInfo"
      BY <1>6, <1>11, <2>1 DEF HalfWay
    <2>3. msg.type = "ClientSync"
      OBVIOUS
    <2> HIDE DEF msg
    <2>4. Len(wire'[c]) = 2 /\ wire'[c][1] = wire[c][1] /\ wire'[c][2] = msg
      BY <2>1, <2>2
    <2> QED
      BY <2>2, <2>3, <2>4 DEF Answered, Leads
  <1>12. Answering(c) \/ HalfWay(c) \/ Answered(c) \/ Over(c)
    BY DEF Stage, Asked, Greeted, Handling
  <1>13. Answering(c) \/ HalfWay(c) => Leads(c)
    BY EmptySeq DEF Answering, HalfWay, Leads
  <1> QED
    BY <1>8, <1>9, <1>10, <1>11, <1>12, <1>13 DEF Over

(* What one client and its thread do leaves every other one still. *)
LEMMA OthersStill ==
    ASSUME TypeOK, NEW c \in Conns, NEW d \in Conns, d # c, ReadStep(d) \/ EnvOf(d)
    PROVE  Still(c)
  <1> USE DEF netVars, outVars, mainVars, acceptVars, tableVars, readVars, streamVars, TypeOK, Still, Disabled
  <1>1. CASE EnvOf(d)
    BY <1>1 DEF EnvOf, Connect, SendCommand, ClientRead, Leave
  <1>2. CASE SendNow(d) \/ SendResumes(d)
    <2>1. Sent(d)
      BY <1>2 DEF SendNow, SendResumes
    <2>2. wire'[c] = wire[c] /\ session'[c] = session[c]
      BY <2>1 DEF Sent
    <2> QED
      BY <2>1, <2>2 DEF Sent
  <1>3. CASE Recv(d) \/ RecvEnds(d) \/ SendBlocks(d) \/ Remove(d) \/ Close(d)
    BY <1>3 DEF Recv, RecvEnds, SendBlocks, Remove, Close
  <1>4. CASE HandleHello(d) \/ HandleSetSetting(d) \/ HandlePing(d) \/ HandleOther(d) \/ HandleOversized(d)
    BY <1>4 DEF HandleHello, HandleSetSetting, HandlePing, HandleOther, HandleOversized
  <1> QED
    BY <1>1, <1>2, <1>3, <1>4 DEF ReadStep

LEMMA HandshakeStep ==
    ASSUME IInv, [Next]_vars, NEW c \in Conns, Stage(c)
    PROVE  Stage(c)'
  <1> USE DEF netVars, outVars, mainVars, acceptVars, tableVars, readVars, streamVars
  <1>1. TypeOK /\ Attached
    BY DEF IInv
  <1>2. CASE Still(c)
    BY <1>2, StillStage
  <1>3. CASE Register
    <2>1. session'[c].enabled => session[c].enabled
      <3>1. CASE c = newConn
        BY <1>1, <1>3, <3>1 DEF Register, TypeOK, NewSession
      <3>2. CASE c # newConn
        BY <1>1, <1>3, <3>2 DEF Register, TypeOK
      <3> QED
        BY <3>1, <3>2
    <2> QED
      BY <1>3, <2>1, StillStage DEF Register, Still, Disabled
  <1>4. CASE Spawn
    <2>1. CASE c = newConn
      <3>1. readPc[c] = "none" /\ readPc'[c] = "recv"
        BY <1>1, <1>4, <2>1 DEF Spawn, IInv, Table, Accepted, TypeOK
      <3>2. UNCHANGED <<first, inbox, wire, session, gone, shut>>
        BY <1>4 DEF Spawn
      <3> QED
        BY <3>1, <3>2 DEF Stage, Silent, Asked, Greeted, Answering, HalfWay, Answered, Over, Handling,
                          Leads, Dead, Disabled
    <2>2. CASE c # newConn
      <3>1. readPc'[c] = readPc[c]
        BY <1>1, <1>4, <2>2 DEF Spawn, TypeOK
      <3> QED
        BY <1>4, <3>1, StillStage DEF Spawn, Still, Disabled
    <2> QED
      BY <2>1, <2>2
  <1>5. CASE Broadcast
    <2>1. UNCHANGED <<first, inbox, readPc, replies, command, gone, shut>>
      BY <1>5 DEF Broadcast
    <2>2. session'[c].enabled = session[c].enabled
      <3>1. session[c] \in SessionState
        BY <1>1 DEF TypeOK
      <3>2. session'[c] = IF Streaming(c) THEN [session[c] EXCEPT !.seq = @ + 1] ELSE session[c]
        BY <1>5 DEF Broadcast
      <3>3. [session[c] EXCEPT !.seq = @ + 1].enabled = session[c].enabled
        BY <3>1 DEF SessionState
      <3> QED
        BY <3>2, <3>3
    <2>3. CASE Disabled(c) \/ Dead(c)
      <3>1. wire'[c] = wire[c]
        BY <1>5, <2>3, BroadcastShares DEF Share, Streaming, Disabled
      <3> QED
        BY <2>1, <2>2, <3>1, StillStage DEF Still, Disabled
    <2>4. CASE ~(Disabled(c) \/ Dead(c))
      <3>1. first[c] = "silent" => FALSE
        BY <2>4 DEF Stage, Silent
      <3>2. first[c] = "polite" => Answered(c)
        BY <2>4 DEF Stage, Asked, Greeted, Answering, HalfWay, Over
      <3>3. Answered(c) => Answered(c)'
        BY <1>1, <1>5, BroadcastPuts, AnsweredStays
      <3> QED
        BY <2>1, <3>1, <3>2, <3>3 DEF Stage
    <2> QED
      BY <2>3, <2>4
  <1>6. ASSUME NEW cmd \in Commands, SendCommand(c, cmd) PROVE Stage(c)'
    <2>1. UNCHANGED <<wire, session, readPc, replies, command, gone, shut>> /\ inbox[c] \in Seq(AllCommands)
      BY <1>1, <1>6 DEF SendCommand, TypeOK
    <2>2. inbox'[c] = Append(inbox[c], cmd)
      BY <1>1, <1>6 DEF SendCommand, TypeOK
    <2>3. first'[c] = IF first[c] # "silent" THEN first[c] ELSE IF cmd = "hello" THEN "polite" ELSE "rude"
      BY <1>1, <1>6 DEF SendCommand, TypeOK
    <2>4. inbox'[c] # <<>> /\ (inbox[c] # <<>> => Head(inbox'[c]) = Head(inbox[c]))
                          /\ (inbox[c] = <<>> => Head(inbox'[c]) = cmd)
      <3>1. inbox[c] \in Seq(AllCommands) /\ cmd \in AllCommands
        BY <2>1, SpyAssumption
      <3>2. Len(inbox'[c]) = Len(inbox[c]) + 1 /\ Len(inbox[c]) \in Nat
        BY <2>2, <3>1
      <3>3. inbox'[c][1] = IF inbox[c] = <<>> THEN cmd ELSE inbox[c][1]
        BY <2>2, <3>1, EmptySeq
      <3>4. inbox'[c] # <<>>
        BY <3>2
      <3> QED
        BY <3>3, <3>4 DEF Head
    <2>5. CASE first[c] = "silent"
      <3>1. Silent(c) /\ Leads(c)
        BY <2>5, EmptySeq DEF Stage, Silent, Leads
      <3>2. CASE readPc[c] \in {"none", "recv"} /\ cmd = "hello"
        BY <2>1, <2>3, <2>4, <3>1, <3>2 DEF Silent, Asked, Stage, Disabled
      <3>3. CASE readPc[c] \notin {"none", "recv"} /\ cmd = "hello"
        BY <2>1, <2>3, <3>1, <3>3, <2>5 DEF Silent, Over, Stage, Dead, Leads
      <3>4. CASE cmd # "hello"
        BY <2>3, <2>5, <3>4 DEF Stage
      <3> QED
        BY <3>2, <3>3, <3>4
    <2>6. CASE first[c] # "silent"
      BY <2>1, <2>3, <2>4, <2>6 DEF Stage, Asked, Greeted, Answering, HalfWay, Answered, Over, Handling,
                                    Leads, Dead, Disabled
    <2> QED
      BY <2>5, <2>6
  <1>7. CASE Recv(c)
    <2>1. UNCHANGED <<first, wire, session, gone, shut>>
      BY <1>7 DEF Recv
    <2>2. readPc[c] = "recv" /\ inbox[c] # <<>> /\ readPc'[c] = "handle" /\ command'[c] = Head(inbox[c])
      BY <1>1, <1>7 DEF Recv, TypeOK
    <2> QED
      BY <2>1, <2>2 DEF Stage, Silent, Asked, Greeted, Answering, HalfWay, Answered, Over, Handling,
                        Leads, Dead, Disabled
  <1>8. CASE RecvEnds(c)
    <2>1. UNCHANGED <<first, inbox, wire, session, gone, shut>>
      BY <1>8 DEF RecvEnds
    <2>2. readPc[c] = "recv" /\ readPc'[c] = "remove"
      BY <1>1, <1>8 DEF RecvEnds, TypeOK
    <2>3. c \in gone \/ (c \in shut /\ inbox[c] = <<>>)
      BY <1>8 DEF RecvEnds
    <2>4. wire[c] = <<>> => Leads(c)
      BY EmptySeq DEF Leads
    <2> QED
      BY <2>1, <2>2, <2>3, <2>4 DEF Stage, Silent, Asked, Greeted, Answering, HalfWay, Answered, Over,
                                    Handling, Leads, Dead, Disabled
  <1>9. CASE HandleHello(c)
    <2>1. UNCHANGED <<first, inbox, wire, gone, shut>>
      BY <1>9 DEF HandleHello
    <2>2. readPc[c] = "handle" /\ command[c] = "hello" /\ readPc'[c] = "reply"
          /\ replies'[c] = <<"DeviceInfo", "ClientSync">>
      BY <1>1, <1>9 DEF HandleHello, Handling, TypeOK
    <2>3. session'[c].enabled = session[c].enabled
      <3>1. session[c] \in SessionState /\ session'[c] = AfterHello(session[c])
        BY <1>1, <1>9 DEF HandleHello, TypeOK
      <3> QED
        BY <3>1 DEF AfterHello, SessionState
    <2> QED
      BY <2>1, <2>2, <2>3 DEF Stage, Silent, Asked, Greeted, Answering, HalfWay, Answered, Over, Handling,
                              Leads, Dead, Disabled
  <1>10. ASSUME HandleSetSetting(c) \/ HandlePing(c) \/ HandleOther(c) \/ HandleOversized(c)
         PROVE  Stage(c)'
    <2>1. UNCHANGED <<first, inbox, wire, gone, shut>>
      BY <1>10 DEF HandleSetSetting, HandlePing, HandleOther, HandleOversized
    <2>2. readPc[c] = "handle" /\ command[c] # "hello"
      BY <1>10 DEF HandleSetSetting, HandlePing, HandleOther, HandleOversized, Handling
    <2>3. first[c] # "silent" /\ (first[c] = "polite" => Answered(c) \/ Over(c))
      BY <2>2 DEF Stage, Silent, Asked, Greeted, Answering, HalfWay, Handling
    <2> QED
      BY <2>1, <2>3 DEF Stage, Answered, Over, Leads, Dead
  <1>11. CASE SendNow(c) \/ SendResumes(c)
    BY <1>1, <1>11, SentStage DEF SendNow, SendResumes
  <1>12. CASE SendBlocks(c)
    <2>1. UNCHANGED <<first, inbox, wire, session, replies, gone, shut>>
      BY <1>12 DEF SendBlocks
    <2>2. readPc[c] = "reply" /\ readPc'[c] = "blocked"
      BY <1>1, <1>12 DEF SendBlocks, TypeOK
    <2> QED
      BY <2>1, <2>2 DEF Stage, Silent, Asked, Greeted, Answering, HalfWay, Answered, Over, Handling,
                        Leads, Dead, Disabled
  <1>13. ASSUME Remove(c) \/ Close(c) PROVE Stage(c)'
    <2>1. UNCHANGED <<first, inbox, wire, session, gone, shut>>
      BY <1>13 DEF Remove, Close
    <2>2. readPc[c] \in {"remove", "close"} /\ readPc'[c] \in {"close", "done"}
      BY <1>1, <1>13 DEF Remove, Close, TypeOK
    <2> QED
      BY <2>1, <2>2 DEF Stage, Silent, Asked, Greeted, Answering, HalfWay, Answered, Over, Handling,
                        Leads, Dead, Disabled
  <1>14. ASSUME NEW d \in Conns, d # c, ReadStep(d) \/ EnvOf(d) PROVE Still(c)
    BY <1>1, <1>14, OthersStill
  <1>15. Connect(c) \/ ClientRead(c) \/ Leave(c) => Still(c)
    BY DEF Connect, ClientRead, Leave, Still, Disabled
  <1>16. Start \/ StartFails \/ StopBegin \/ StopStep \/ ChunkArrives \/ UNCHANGED vars => Still(c)
    BY DEF Start, StartFails, StopBegin, StopStep, CloseListen, JoinAccept, Snapshot, ShutdownOne,
           StopReturn, ChunkArrives, vars, Still, Disabled
  <1>17. AcceptStep => Register \/ Spawn \/ Still(c)
    BY DEF AcceptStep, AcceptCheck, AcceptOne, AcceptFails, Still, Disabled
  <1>18. ReadStep(c) => Stage(c)'
    BY <1>7, <1>8, <1>9, <1>10, <1>11, <1>12, <1>13 DEF ReadStep
  <1>19. EnvOf(c) => Stage(c)'
    BY <1>2, <1>6, <1>15 DEF EnvOf
  <1> QED
    BY <1>2, <1>3, <1>4, <1>5, <1>14, <1>16, <1>17, <1>18, <1>19 DEF Next, Ended, EnvStep, EnvOf

(* A client that says Hello first hears the device info and the client sync *)
(* before any IQ, however the answer is held up (HandshakeLeads).            *)
THEOREM HelloLeads == Spec => []HandshakeLeads
  <1> DEFINE Stages == \A c \in Conns : Stage(c)
  <1>1. Init => Stages
    <2> SUFFICES ASSUME Init, NEW c \in Conns PROVE Stage(c)
      OBVIOUS
    <2>1. session[c] = NewSession /\ inbox[c] = <<>> /\ wire[c] = <<>> /\ readPc[c] = "none" /\ first[c] = "silent"
      BY DEF Init
    <2>2. Disabled(c)
      BY <2>1 DEF Disabled, NewSession
    <2> QED
      BY <2>1, <2>2 DEF Stage, Silent
  <1>2. IInv /\ Stages /\ [Next]_vars => Stages'
    BY HandshakeStep
  <1>3. Stages => HandshakeLeads
    <2> SUFFICES ASSUME Stages, NEW c \in Conns, first[c] = "polite" PROVE Leads(c)
      BY DEF HandshakeLeads, Leads
    <2>1. Asked(c) \/ Greeted(c) \/ Answering(c) => Leads(c)
      BY EmptySeq DEF Asked, Greeted, Answering, Leads
    <2>2. HalfWay(c) \/ Answered(c) \/ Over(c) => Leads(c)
      BY DEF HalfWay, Answered, Over, Leads
    <2> QED
      BY <2>1, <2>2 DEF Stage
  <1> HIDE DEF Stages
  <1> QED
    BY <1>1, <1>2, <1>3, Inductive, PTL DEF Spec
-----------------------------------------------------------------------------
(* The answer to a Hello, and the lock it is sent in. *)

Synced(c) == \E i \in 1..Len(wire[c]) : wire[c][i].type = "ClientSync"

InAnswer(c) ==
    readPc[c] \in {"reply", "blocked"} /\ replies[c] \in {<<"DeviceInfo", "ClientSync">>, <<"ClientSync">>}

Honoured(c) == session[c].hello => Dead(c) \/ Synced(c) \/ InAnswer(c)

LEMMA SyncedStays ==
    ASSUME IInv, [Next]_vars, NEW c \in Conns, Synced(c)
    PROVE  Synced(c)'
  <1>1. wire[c] \in Seq(Message) /\ Len(wire[c]) \in Nat
    BY DEF IInv, TypeOK
  <1>2. wire'[c] = wire[c] \/ \E m \in Message : wire'[c] = Append(wire[c], m)
    BY WireStep DEF Quiet, Puts
  <1>3. \A m \in Message : /\ Len(Append(wire[c], m)) = Len(wire[c]) + 1
                          /\ \A i \in 1..Len(wire[c]) : Append(wire[c], m)[i] = wire[c][i]
    BY <1>1
  <1>4. PICK i \in 1..Len(wire[c]) : wire[c][i].type = "ClientSync"
    BY DEF Synced
  <1>5. i \in 1..Len(wire'[c]) /\ wire'[c][i] = wire[c][i]
    BY <1>1, <1>2, <1>3
  <1> QED
    BY <1>4, <1>5 DEF Synced

(* A session is greeted by the handler of a Hello and by nothing else. *)
LEMMA HelloFrom ==
    ASSUME IInv, [Next]_vars, NEW c \in Conns, session'[c].hello
    PROVE  session[c].hello \/ HandleHello(c)
  <1>0. session \in [Conns -> SessionState] /\ session[c] \in SessionState
    BY DEF IInv, TypeOK
  <1>1. [session[c] EXCEPT !.seq = @ + 1].hello = session[c].hello
    BY <1>0 DEF SessionState
  <1>2. CASE UNCHANGED session
    BY <1>2
  <1>3. CASE Register
    <2>1. NewSession.hello = FALSE
      BY DEF NewSession
    <2>2. session' = [session EXCEPT ![newConn] = NewSession]
      BY <1>3 DEF Register
    <2> QED
      BY <1>0, <2>1, <2>2
  <1>4. ASSUME NEW d \in Conns, SendNow(d) \/ SendResumes(d) PROVE session[c].hello
    <2>1. session' = [session EXCEPT ![d] = [session[d] EXCEPT !.seq = @ + 1]]
      <3>1. Sent(d) /\ session[d] \in SessionState
        BY <1>0, <1>4 DEF SendNow, SendResumes
      <3> QED
        BY <3>1 DEF Sent
    <2>2. session'[c] = IF c = d THEN [session[c] EXCEPT !.seq = @ + 1] ELSE session[c]
      BY <1>0, <2>1
    <2> QED
      BY <1>1, <2>2
  <1>5. CASE Broadcast
    <2>1. session'[c] = IF Streaming(c) THEN [session[c] EXCEPT !.seq = @ + 1] ELSE session[c]
      BY <1>5 DEF Broadcast
    <2> QED
      BY <1>1, <2>1
  <1>6. ASSUME NEW d \in Conns, HandleSetSetting(d) PROVE session[c].hello
    <2>1. session' = [session EXCEPT ![d] = AfterSetting(session[d], command[d])] /\ session[d] \in SessionState
      BY <1>0, <1>6 DEF HandleSetSetting
    <2>2. \A b \in BOOLEAN : /\ [session[d] EXCEPT !.iq = b].hello = session[d].hello
                            /\ [session[d] EXCEPT !.enabled = b].hello = session[d].hello
      BY <2>1 DEF SessionState
    <2>3. \E b \in BOOLEAN : AfterSetting(session[d], command[d])
                              \in {[session[d] EXCEPT !.iq = b], [session[d] EXCEPT !.enabled = b]}
      BY <1>6 DEF HandleSetSetting, Handling, AfterSetting
    <2>4. AfterSetting(session[d], command[d]).hello = session[d].hello
      BY <2>2, <2>3
    <2>5. session'[c] = IF c = d THEN AfterSetting(session[d], command[d]) ELSE session[c]
      BY <1>0, <2>1
    <2> QED
      BY <2>4, <2>5
  <1>7. ASSUME NEW d \in Conns, HandleHello(d) PROVE session[c].hello \/ HandleHello(c)
    <2>1. d # c => session'[c] = session[c]
      BY <1>0, <1>7 DEF HandleHello
    <2> QED
      BY <1>7, <2>1
  <1> QED
    BY <1>2, <1>3, <1>4, <1>5, <1>6, <1>7
    DEF Next, vars, tableVars, StopStep, AcceptStep, ReadStep, EnvStep, Ended,
        Start, StartFails, StopBegin, CloseListen, JoinAccept, Snapshot, ShutdownOne, StopReturn,
        AcceptCheck, AcceptOne, AcceptFails, Spawn, Recv, RecvEnds, HandlePing, HandleOther,
        HandleOversized, SendBlocks, Remove, Close, ChunkArrives, Connect, SendCommand, Leave, ClientRead

(* A live connection with room is sent the whole of the next reply. *)
LEMMA SentWhole ==
    ASSUME TypeOK, NEW c \in Conns, Sent(c), ~Dead(c), Room(c) >= ControlSize
    PROVE  wire'[c] = Append(wire[c], [type |-> Head(replies[c]), seq |-> session[c].seq, whole |-> TRUE])
  <1> DEFINE put == Put(c, Head(replies[c]), session[c].seq, ControlSize)
  <1>1. put.items = Append(wire[c], [type |-> Head(replies[c]), seq |-> session[c].seq, whole |-> TRUE])
    <2> DEFINE taken == IF ControlSize <= Room(c) THEN ControlSize ELSE Room(c)
    <2>1. taken = 1 /\ ControlSize = 1
      BY DEF ControlSize
    <2>2. (taken = ControlSize) = TRUE /\ taken # 0
      BY <2>1
    <2>3. put.items = IF taken = 0 THEN wire[c]
                      ELSE Append(wire[c], [type |-> Head(replies[c]), seq |-> session[c].seq, whole |-> taken = ControlSize])
      BY DEF Put
    <2> HIDE DEF taken, put
    <2> QED
      BY <2>2, <2>3
  <1>2. wire' = [wire EXCEPT ![c] = put.items]
    BY DEF Sent
  <1> QED
    BY <1>1, <1>2 DEF TypeOK

LEMMA HonouredStep ==
    ASSUME IInv, [Next]_vars, NEW c \in Conns, Honoured(c)
    PROVE  Honoured(c)'
  <1> USE DEF netVars, outVars, mainVars, acceptVars, tableVars, readVars, streamVars
  <1> SUFFICES ASSUME session'[c].hello, ~Dead(c)', ~Synced(c)' PROVE InAnswer(c)'
    BY DEF Honoured
  <1>1. TypeOK /\ Attached
    BY DEF IInv
  <1>2. ~Synced(c)
    BY SyncedStays
  <1>3. CASE HandleHello(c)
    BY <1>1, <1>3 DEF HandleHello, InAnswer, TypeOK
  <1>4. session[c].hello \/ HandleHello(c)
    BY HelloFrom
  <1> SUFFICES ASSUME session[c].hello, ~HandleHello(c) PROVE InAnswer(c)'
    BY <1>3, <1>4
  <1>5. CASE gone \subseteq gone' /\ shut \subseteq shut' /\ readPc'[c] = readPc[c] /\ replies'[c] = replies[c]
    BY <1>2, <1>5 DEF Honoured, InAnswer, Dead
  <1>6. CASE SendNow(c) \/ SendResumes(c)
    <2>1. Sent(c) /\ readPc[c] \in {"reply", "blocked"} /\ (Dead(c) \/ Room(c) >= ControlSize)
      BY <1>6 DEF SendNow, SendResumes
    <2>2. ~Dead(c) /\ InAnswer(c)
      BY <1>2, <2>1 DEF Sent, Dead, Honoured
    <2> DEFINE msg == [type |-> Head(replies[c]), seq |-> session[c].seq, whole |-> TRUE]
    <2>3. wire'[c] = Append(wire[c], msg)
      BY <1>1, <2>1, <2>2, SentWhole
    <2>4. wire[c] \in Seq(Message) /\ msg.type = Head(replies[c])
      BY <1>1 DEF TypeOK
    <2> HIDE DEF msg
    <2>5. wire'[c][Len(wire'[c])] = msg /\ Len(wire'[c]) \in 1..Len(wire'[c])
      BY <2>3, <2>4
    <2>6. Head(replies[c]) # "ClientSync"
      BY <2>4, <2>5 DEF Synced
    <2>7. replies[c] = <<"DeviceInfo", "ClientSync">>
      BY <2>2, <2>6 DEF InAnswer
    <2>8. Tail(replies[c]) = <<"ClientSync">> /\ Len(replies[c]) = 2
      BY <2>7
    <2> QED
      BY <1>1, <2>1, <2>8 DEF Sent, InAnswer, TypeOK
  <1>7. CASE SendBlocks(c)
    BY <1>1, <1>2, <1>7 DEF SendBlocks, Honoured, InAnswer, Dead, TypeOK
  <1>8. ASSUME Recv(c) \/ RecvEnds(c) \/ HandleSetSetting(c) \/ HandlePing(c) \/ HandleOther(c)
               \/ HandleOversized(c) \/ Remove(c) \/ Close(c)
        PROVE  FALSE
    <2>1. readPc[c] \notin {"reply", "blocked"} /\ UNCHANGED <<gone, shut>>
      BY <1>8 DEF Recv, RecvEnds, HandleSetSetting, HandlePing, HandleOther, HandleOversized, Remove, Close, Handling
    <2> QED
      BY <1>2, <2>1 DEF Honoured, InAnswer, Dead
  <1>9. ASSUME NEW d \in Conns, d # c, ReadStep(d) \/ EnvOf(d) PROVE InAnswer(c)'
    BY <1>1, <1>5, <1>9, OthersStill DEF Still
  <1>10. ReadStep(c) => InAnswer(c)'
    BY <1>6, <1>7, <1>8 DEF ReadStep
  <1>11. EnvOf(c) => InAnswer(c)'
    BY <1>5 DEF EnvOf, Connect, SendCommand, ClientRead, Leave
  <1>12. Start \/ StartFails \/ StopBegin \/ StopStep \/ ChunkArrives \/ Broadcast \/ UNCHANGED vars => InAnswer(c)'
    BY <1>5 DEF Start, StartFails, StopBegin, StopStep, CloseListen, JoinAccept, Snapshot, ShutdownOne,
                StopReturn, ChunkArrives, Broadcast, vars
  <1>13. CASE Spawn
    <2>1. CASE c = newConn
      <3>1. readPc[c] = "none" /\ UNCHANGED <<gone, shut>>
        BY <1>13, <2>1 DEF Spawn, IInv, Table, Accepted
      <3> QED
        BY <1>2, <3>1 DEF Honoured, InAnswer, Dead
    <2>2. CASE c # newConn
      BY <1>1, <1>5, <1>13, <2>2 DEF Spawn, TypeOK
    <2> QED
      BY <2>1, <2>2
  <1>14. AcceptStep => InAnswer(c)'
    BY <1>5, <1>13 DEF AcceptStep, AcceptCheck, AcceptOne, AcceptFails, Register
  <1> QED
    BY <1>9, <1>10, <1>11, <1>12, <1>14 DEF Next, Ended, EnvStep, EnvOf

(* A session marked as greeted, whose thread is not in the middle of sending *)
(* a reply, has been sent its client sync, unless the connection is over:    *)
(* handleHello() sets the mark before it sends, and a client that enables    *)
(* streaming afterwards is streamed to as one that has been answered.        *)
HelloHonoured ==
    \A c \in Conns : session[c].hello /\ readPc[c] \notin {"reply", "blocked"} => Dead(c) \/ Synced(c)

THEOREM GreetedAreSynced == Spec => []HelloHonoured
  <1> DEFINE AllHonoured == \A c \in Conns : Honoured(c)
  <1>1. Init => AllHonoured
    BY DEF Init, Honoured, NewSession
  <1>2. IInv /\ AllHonoured /\ [Next]_vars => AllHonoured'
    BY HonouredStep
  <1>3. AllHonoured => HelloHonoured
    BY DEF HelloHonoured, Honoured, InAnswer
  <1> HIDE DEF AllHonoured
  <1> QED
    BY <1>1, <1>2, <1>3, Inductive, PTL DEF Spec

(* clientsMutex_ stays locked from one step to the next only around a send   *)
(* that blocks, and by the thread in it: no two replies block at a time, and *)
(* whoever waits for the lock waits for one client.                          *)
LockHeld == \A c \in Conns : mutex = c <=> readPc[c] = "blocked"

THEOREM LockIsBlockedReply == Spec => []LockHeld
  <1>1. Init => LockHeld
    <2>1. Init => mutex = Free /\ \A c \in Conns : readPc[c] = "none"
      BY DEF Init
    <2> QED
      BY <2>1, SpyAssumption DEF LockHeld
  <1>2. IInv /\ LockHeld /\ [Next]_vars => LockHeld'
    <2> SUFFICES ASSUME IInv, LockHeld, [Next]_vars PROVE LockHeld'
      OBVIOUS
    <2>0. Free \notin Conns /\ readPc \in [Conns -> ReadPcs]
      BY SpyAssumption DEF IInv, TypeOK, ReadPcs
    <2> USE <2>0 DEF LockHeld, readVars
    <2>1. CASE UNCHANGED <<mutex, readPc>>
      BY <2>1
    <2>2. CASE Spawn
      BY <2>2 DEF Spawn, IInv, Table, Accepted
    <2>3. ASSUME NEW c \in Conns, SendNow(c) \/ SendResumes(c) PROVE LockHeld'
      BY <2>3 DEF SendNow, SendResumes, Sent
    <2>4. ASSUME NEW c \in Conns, SendBlocks(c) PROVE LockHeld'
      BY <2>4 DEF SendBlocks
    <2>5. ASSUME NEW c \in Conns, Recv(c) \/ RecvEnds(c) \/ Remove(c) \/ Close(c) PROVE LockHeld'
      BY <2>5 DEF Recv, RecvEnds, Remove, Close
    <2>6. ASSUME NEW c \in Conns, HandleHello(c) \/ HandleSetSetting(c) \/ HandlePing(c) \/ HandleOther(c)
                                  \/ HandleOversized(c)
          PROVE  LockHeld'
      BY <2>6 DEF HandleHello, HandleSetSetting, HandlePing, HandleOther, HandleOversized, Handling
    <2>7. ASSUME NEW c \in Conns, ReadStep(c) PROVE LockHeld'
      BY <2>3, <2>4, <2>5, <2>6, <2>7 DEF ReadStep
    <2> QED
      BY <2>1, <2>2, <2>7 DEF Next, vars, Ended, StopStep, AcceptStep, EnvStep,
         Start, StartFails, StopBegin, CloseListen, JoinAccept, Snapshot, ShutdownOne, StopReturn,
         AcceptCheck, AcceptOne, AcceptFails, Register, ChunkArrives, Broadcast, Connect, SendCommand,
         ClientRead, Leave
  <1> QED
    BY <1>1, <1>2, Inductive, PTL DEF Spec

-----------------------------------------------------------------------------
(* SpyServer implements IqEndpoint.  On top of IInv this needs: a client is *)
(* in the table for as long as its thread may reply to it, nothing runs      *)
(* before start(), and stop() still has every client left to shut down that  *)
(* it has not reached.                                                       *)

Known ==
    /\ acceptPc = "spawn" => newConn \in clients
    /\ \A c \in Conns : readPc[c] \in Active => c \in clients

Begun == mainPc \in {"init", "failed"} =>
    acceptPc = "none" /\ streamPc = "idle" /\ \A c \in Conns : readPc[c] = "none"

Reached == mainPc = "shutting" => clients \subseteq shut \cup toShut

Promising == Known /\ Begun /\ Reached

(* A read thread at work on a command stays in the table. *)
LEMMA WorkingPromises ==
    ASSUME IInv, Promising, NEW c \in Conns, readPc[c] \in Active, readPc'[c] \in Active,
           \A d \in Conns \ {c} : readPc'[d] = readPc[d],
           UNCHANGED <<acceptPc, newConn, clients, mainPc, streamPc, shut, toShut>>
    PROVE  Promising'
  <1>1. Known'
    BY DEF Promising, Known
  <1>2. Begun' /\ Reached'
    BY DEF Promising, Begun, Reached, Active
  <1> QED
    BY <1>1, <1>2 DEF Promising

LEMMA WorkStep ==
    ASSUME IInv, NEW c \in Conns, ReadStep(c)
    PROVE  \/ Remove(c) \/ Close(c)
           \/ /\ readPc[c] \in Active /\ readPc'[c] \in Active
              /\ \A d \in Conns \ {c} : readPc'[d] = readPc[d]
              /\ UNCHANGED <<peer, gone, shut, acceptPc, newConn, clients, mainPc, streamPc, toShut>>
  <1> USE DEF netVars, mainVars, acceptVars, tableVars, streamVars, Active, IInv, TypeOK
  <1>1. CASE Recv(c) \/ RecvEnds(c) \/ SendBlocks(c)
    BY <1>1 DEF Recv, RecvEnds, SendBlocks
  <1>2. CASE HandleHello(c) \/ HandleSetSetting(c) \/ HandlePing(c) \/ HandleOther(c) \/ HandleOversized(c)
    BY <1>2 DEF HandleHello, HandleSetSetting, HandlePing, HandleOther, HandleOversized, Handling
  <1>3. CASE SendNow(c) \/ SendResumes(c)
    <2>1. Sent(c) /\ readPc[c] \in {"reply", "blocked"}
      BY <1>3 DEF SendNow, SendResumes
    <2> QED
      BY <2>1 DEF Sent
  <1> QED
    BY <1>1, <1>2, <1>3 DEF ReadStep

LEMMA PromisingStep ==
    ASSUME IInv, Promising, [Next]_vars
    PROVE  Promising'
  <1> USE DEF netVars, outVars, mainVars, acceptVars, tableVars, readVars, streamVars
  <1>1. CASE Start \/ StartFails \/ StopBegin \/ StopStep
    <2>1. Known'
      BY <1>1 DEF Promising, Known, Start, StartFails, StopBegin, StopStep, CloseListen, JoinAccept,
                  Snapshot, ShutdownOne, StopReturn
    <2>2. Begun'
      BY <1>1 DEF Promising, Begun, Start, StartFails, StopBegin, StopStep, CloseListen, JoinAccept,
                  Snapshot, ShutdownOne, StopReturn
    <2>3. Reached'
      BY <1>1 DEF Promising, Reached, Start, StartFails, StopBegin, StopStep, CloseListen, JoinAccept,
                  Snapshot, ShutdownOne, StopReturn
    <2> QED
      BY <2>1, <2>2, <2>3 DEF Promising
  <1>2. CASE AcceptStep
    <2>1. acceptPc # "none" /\ mainPc \notin {"init", "failed", "shutting"} /\ mainPc' = mainPc
      BY <1>2 DEF AcceptStep, AcceptCheck, AcceptOne, AcceptFails, Register, Spawn, Promising, Begun,
                  IInv, Table, AcceptJoined
    <2>2. Known'
      <3>1. CASE AcceptCheck \/ AcceptFails \/ \E c \in Conns : AcceptOne(c)
        BY <3>1 DEF AcceptCheck, AcceptFails, AcceptOne, Promising, Known
      <3>2. CASE Register
        BY <3>2 DEF Register, Promising, Known
      <3>3. CASE Spawn
        BY <3>3 DEF Spawn, Promising, Known, IInv, TypeOK
      <3> QED
        BY <1>2, <3>1, <3>2, <3>3 DEF AcceptStep
    <2> QED
      BY <2>1, <2>2 DEF Promising, Begun, Reached
  <1>3. ASSUME NEW c \in Conns, ReadStep(c) PROVE Promising'
    <2>1. CASE Remove(c)
      <3>1. Known'
        BY <2>1 DEF Remove, Promising, Known, Active, IInv, TypeOK, Table, Accepted
      <3>2. Begun' /\ Reached'
        BY <2>1 DEF Remove, Promising, Begun, Reached, IInv, TypeOK
      <3> QED
        BY <3>1, <3>2 DEF Promising
    <2>2. CASE Close(c)
      BY <2>2 DEF Close, Promising, Known, Begun, Reached, Active, IInv, TypeOK
    <2> QED
      BY <1>3, <2>1, <2>2, WorkStep, WorkingPromises
  <1>4. CASE ChunkArrives \/ Broadcast
    BY <1>4 DEF ChunkArrives, Broadcast, Promising, Known, Begun, Reached
  <1>5. ASSUME NEW c \in Conns, EnvOf(c) PROVE Promising'
    BY <1>5 DEF EnvOf, Connect, SendCommand, ClientRead, Leave, Promising, Known, Begun, Reached
  <1>6. CASE UNCHANGED vars
    BY <1>6 DEF vars, Promising, Known, Begun, Reached
  <1> QED
    BY <1>1, <1>2, <1>3, <1>4, <1>5, <1>6 DEF Next, Ended, EnvStep, EnvOf

Phases == [c \in Conns |-> Phase(c)]

HeardAll == [c \in Conns |-> Heard(c)]

(* Steps that no promise is about. *)
LEMMA EndpointStays ==
    ASSUME UNCHANGED <<EndpointState, Phases, gone \cup shut, wire>>
    PROVE  UNCHANGED Endpoint!vars
  <1>1. HeardAll' = HeardAll
    BY DEF HeardAll, Heard
  <1> QED
    BY <1>1 DEF Endpoint!vars, Phases, HeardAll

LEMMA PhasesStay ==
    ASSUME \A c \in Conns : Phase(c)' = Phase(c)
    PROVE  Phases' = Phases
  BY DEF Phases

LEMMA PhaseChanges ==
    ASSUME NEW d \in Conns, \A c \in Conns \ {d} : Phase(c)' = Phase(c)
    PROVE  Phases[d] = Phase(d) /\ Phases' = [Phases EXCEPT ![d] = Phase(d)']
  BY DEF Phases

(* What a message more on a wire is to the abstract endpoint. *)
LEMMA HeardGrows ==
    ASSUME TypeOK, NEW c \in Conns, NEW m \in Message, wire'[c] = Append(wire[c], m)
    PROVE  Heard(c)' = Append(Heard(c), IF m.type = "IQ" THEN "iq" ELSE "talk")
  <1> DEFINE w == wire[c]
  <1>1. w \in Seq(Message) /\ Len(w) \in Nat
    BY DEF TypeOK
  <1> DEFINE more == Append(w, m)
  <1>2. Len(more) = Len(w) + 1 /\ more[Len(w) + 1] = m /\ \A i \in 1..Len(w) : more[i] = w[i]
    BY <1>1
  <1>3. Heard(c) \in Seq({"talk", "iq"}) /\ Len(Heard(c)) = Len(w)
    <2>1. Heard(c) \in [1..Len(w) -> {"talk", "iq"}]
      BY DEF Heard
    <2>2. Heard(c) \in Seq({"talk", "iq"})
      BY <1>1, <2>1, SeqDef
    <2> QED
      BY <1>1, <2>1, <2>2, LenProperties
  <1>4. Heard(c)' = [i \in 1..Len(more) |-> IF more[i].type = "IQ" THEN "iq" ELSE "talk"]
    BY DEF Heard
  <1>5. Heard(c) = [i \in 1..Len(w) |-> IF w[i].type = "IQ" THEN "iq" ELSE "talk"]
    BY DEF Heard
  <1> HIDE DEF more, w
  <1> QED
    BY <1>1, <1>2, <1>3, <1>4, <1>5

LEMMA StopPromise ==
    ASSUME IInv, Promising, Start \/ StartFails \/ StopBegin \/ StopStep
    PROVE  [Endpoint!Next]_(Endpoint!vars)
  <1> USE DEF netVars, outVars, mainVars, acceptVars, tableVars, readVars
  <1>1. UNCHANGED <<wire, peer, clients, readPc>>
    BY DEF Start, StartFails, StopBegin, StopStep, CloseListen, JoinAccept, Snapshot, ShutdownOne, StopReturn
  <1>2. Phases' = Phases /\ HeardAll' = HeardAll
    BY <1>1 DEF Phases, Phase, HeardAll, Heard
  <1>3. CASE Start
    <2>1. Endpoint!Start
      BY <1>2, <1>3 DEF Start, Endpoint!Start, EndpointState, Phases, HeardAll
    <2> QED
      BY <2>1 DEF Endpoint!Next
  <1>4. CASE StartFails \/ CloseListen \/ JoinAccept
    <2>1. UNCHANGED <<EndpointState, gone \cup shut>>
      BY <1>4 DEF StartFails, CloseListen, JoinAccept, EndpointState
    <2> QED
      BY <1>1, <1>2, <2>1, EndpointStays
  <1>5. CASE StopBegin
    <2>1. Endpoint!Stop
      BY <1>2, <1>5 DEF StopBegin, Endpoint!Stop, EndpointState, Phases, HeardAll
    <2> QED
      BY <2>1 DEF Endpoint!Next
  <1>6. CASE Snapshot
    <2>1. Endpoint!Drain
      BY <1>2, <1>6 DEF Snapshot, Endpoint!Drain, EndpointState, Phases, HeardAll
    <2> QED
      BY <2>1 DEF Endpoint!Next
  <1>7. ASSUME NEW c \in Conns, ShutdownOne(c) PROVE [Endpoint!Next]_(Endpoint!vars)
    <2>1. UNCHANGED EndpointState /\ (gone \cup shut)' = (gone \cup shut) \cup {c}
      BY <1>7 DEF ShutdownOne, EndpointState
    <2>2. Endpoint!End(c)
      BY <1>2, <2>1 DEF Endpoint!End, Phases, HeardAll
    <2> QED
      BY <2>2 DEF Endpoint!Next
  <1>8. CASE StopReturn
    <2>1. \A c \in Conns : Phases[c] = "served" => c \in gone \cup shut
      BY <1>8 DEF StopReturn, Phases, Phase, Promising, Reached
    <2>2. Endpoint!Stopped
      BY <1>2, <1>8, <2>1 DEF StopReturn, Endpoint!Stopped, EndpointState, Phases, HeardAll
    <2> QED
      BY <2>2 DEF Endpoint!Next
  <1> QED
    BY <1>3, <1>4, <1>5, <1>6, <1>7, <1>8 DEF StopStep

LEMMA AcceptPromise ==
    ASSUME IInv, Promising, AcceptStep
    PROVE  [Endpoint!Next]_(Endpoint!vars)
  <1> USE DEF netVars, outVars, mainVars, acceptVars, tableVars, readVars
  <1>1. UNCHANGED <<wire, mainPc, EndpointState, gone \cup shut>> /\ EndpointState \in {"up", "stopping"}
    BY DEF AcceptStep, AcceptCheck, AcceptOne, AcceptFails, Register, Spawn, EndpointState, Promising, Begun,
           IInv, Table, AcceptJoined, TypeOK
  <1>2. HeardAll' = HeardAll
    BY <1>1 DEF HeardAll, Heard
  <1>3. CASE AcceptCheck \/ AcceptFails
    <2>1. Phases' = Phases
      BY <1>3 DEF AcceptCheck, AcceptFails, Phases, Phase
    <2> QED
      BY <1>1, <2>1, EndpointStays
  <1>4. ASSUME NEW d \in Conns, AcceptOne(d) PROVE [Endpoint!Next]_(Endpoint!vars)
    <2>1. \A c \in Conns : Phase(c)' = Phase(c)
      BY <1>4 DEF AcceptOne, Phase, IInv, TypeOK
    <2> QED
      BY <1>1, <2>1, PhasesStay, EndpointStays
  <1>5. CASE Register
    <2>1. PICK d \in Conns : /\ d = newConn /\ readPc[d] = "none" /\ peer[d] = "open" /\ d \notin clients
      BY <1>5 DEF Register, IInv, Table, Accepted
    <2>2. Phase(d) = "away" /\ Phase(d)' = "served" /\ \A c \in Conns \ {d} : Phase(c)' = Phase(c)
      BY <1>5, <2>1 DEF Register, Phase
    <2>3. Endpoint!TakeIn(d)
      BY <1>1, <1>2, <2>2, PhaseChanges DEF Endpoint!TakeIn, Endpoint!Moves, Phases, HeardAll
    <2> QED
      BY <2>3 DEF Endpoint!Next
  <1>6. CASE Spawn
    <2>1. \A c \in Conns : readPc'[c] = "close" <=> readPc[c] = "close"
      BY <1>6 DEF Spawn, IInv, TypeOK, Table, Accepted
    <2>2. \A c \in Conns : Phase(c)' = Phase(c)
      BY <1>6, <2>1 DEF Spawn, Phase
    <2> QED
      BY <1>1, <2>2, PhasesStay, EndpointStays
  <1> QED
    BY <1>3, <1>4, <1>5, <1>6 DEF AcceptStep

(* A reply goes to a client in the table whose connection is not over. *)
LEMMA SentPromise ==
    ASSUME IInv, Promising, NEW d \in Conns, Sent(d), readPc[d] \in {"reply", "blocked"}
    PROVE  [Endpoint!Next]_(Endpoint!vars)
  <1> USE DEF netVars, outVars, mainVars, acceptVars, tableVars, readVars
  <1>1. UNCHANGED <<peer, clients, gone, shut, mainPc, EndpointState, gone \cup shut>>
    BY DEF Sent, EndpointState
  <1>2. Phase(d) = "served" /\ Phase(d)' = "served" /\ \A c \in Conns \ {d} : Phase(c)' = Phase(c)
    <2>1. d \in clients /\ peer[d] = "open"
      BY DEF Promising, Known, Active, IInv, Table, Members
    <2>2. \A c \in Conns \ {d} : readPc'[c] = readPc[c]
      BY DEF Sent, IInv, TypeOK
    <2> QED
      BY <1>1, <2>1, <2>2 DEF Phase
  <1>3. Phases' = Phases /\ Phases[d] = "served"
    BY <1>2, PhasesStay DEF Phases
  <1>4. CASE wire'[d] = wire[d]
    <2>1. wire' = wire
      BY <1>4 DEF Sent, IInv, TypeOK
    <2> QED
      BY <1>1, <1>3, <2>1, EndpointStays
  <1>5. CASE wire'[d] # wire[d]
    <2>1. ~Dead(d)
      BY <1>5 DEF Sent
    <2>2. PICK m \in Message : wire'[d] = Append(wire[d], m) /\ m.type \in Reply
      <3>1. Head(replies[d]) \in Reply /\ session[d].seq \in Nat
        <4>1. replies[d] \in Seq(Reply) /\ replies[d] # <<>> /\ session[d] \in SessionState
          BY DEF IInv, TypeOK, Attached
        <4> QED
          BY <4>1 DEF SessionState
      <3> DEFINE put == Put(d, Head(replies[d]), session[d].seq, ControlSize)
      <3>2. Extends(wire[d], put.items, Head(replies[d]), session[d].seq)
        BY <3>1, PutAdds DEF ControlSize
      <3>3. wire' = [wire EXCEPT ![d] = put.items]
        BY <2>1 DEF Sent
      <3> HIDE DEF put
      <3>4. wire'[d] = put.items
        BY <3>3 DEF IInv, TypeOK
      <3> QED
        BY <1>5, <3>1, <3>2, <3>4 DEF Extends
    <2>3. \A c \in Conns \ {d} : wire'[c] = wire[c]
      BY <2>1 DEF Sent, IInv, TypeOK
    <2>4. Heard(d)' = Append(Heard(d), "talk")
      BY <2>2, HeardGrows DEF IInv, Reply
    <2>5. \A c \in Conns \ {d} : Heard(c)' = Heard(c)
      BY <2>3 DEF Heard
    <2>6. HeardAll' = [HeardAll EXCEPT ![d] = Append(@, "talk")]
      BY <2>4, <2>5 DEF HeardAll
    <2>7. EndpointState # "down"
      BY DEF EndpointState, Promising, Begun, IInv, TypeOK
    <2>8. Endpoint!Talk(d)
      BY <1>1, <1>3, <2>1, <2>6, <2>7 DEF Endpoint!Talk, Phases, HeardAll, Dead
    <2> QED
      BY <2>8 DEF Endpoint!Next
  <1> QED
    BY <1>4, <1>5

LEMMA ReadPromise ==
    ASSUME IInv, Promising, NEW d \in Conns, ReadStep(d)
    PROVE  [Endpoint!Next]_(Endpoint!vars)
  <1> USE DEF netVars, outVars, mainVars, acceptVars, tableVars, readVars
  <1>1. CASE SendNow(d) \/ SendResumes(d)
    BY <1>1, SentPromise DEF SendNow, SendResumes
  <1>2. CASE Remove(d)
    <2>1. peer[d] = "open" /\ d \in clients
      BY <1>2 DEF Remove, Promising, Known, Active, IInv, Table, Members
    <2>2. Phase(d) = "served" /\ Phase(d)' = "left" /\ \A c \in Conns \ {d} : Phase(c)' = Phase(c)
      BY <1>2, <2>1 DEF Remove, Phase, IInv, TypeOK
    <2>3. UNCHANGED <<EndpointState, gone \cup shut, HeardAll>>
      BY <1>2 DEF Remove, EndpointState, HeardAll, Heard
    <2>4. Endpoint!LetGo(d)
      BY <2>2, <2>3, PhaseChanges DEF Endpoint!LetGo, Endpoint!Moves, Phases, HeardAll
    <2> QED
      BY <2>4 DEF Endpoint!Next
  <1>3. CASE Close(d)
    <2>1. peer[d] = "open" /\ d \notin clients
      BY <1>3 DEF Close, Active, IInv, Table, Members, Accepted
    <2>2. Phase(d) = "left" /\ Phase(d)' = "closed" /\ \A c \in Conns \ {d} : Phase(c)' = Phase(c)
      BY <1>3, <2>1 DEF Close, Phase, IInv, TypeOK
    <2>3. UNCHANGED <<EndpointState, gone \cup shut, HeardAll>>
      BY <1>3 DEF Close, EndpointState, HeardAll, Heard
    <2>4. Endpoint!Close(d)
      BY <2>2, <2>3, PhaseChanges DEF Endpoint!Close, Endpoint!Moves, Phases, HeardAll
    <2> QED
      BY <2>4 DEF Endpoint!Next
  <1>4. CASE Recv(d) \/ RecvEnds(d) \/ SendBlocks(d) \/ HandleHello(d) \/ HandleSetSetting(d)
             \/ HandlePing(d) \/ HandleOther(d) \/ HandleOversized(d)
    <2>1. UNCHANGED <<wire, mainPc>>
      BY <1>4 DEF Recv, RecvEnds, SendBlocks, HandleHello, HandleSetSetting, HandlePing, HandleOther, HandleOversized
    <2>2. /\ readPc[d] \in Active /\ readPc'[d] \in Active
          /\ \A c \in Conns \ {d} : readPc'[c] = readPc[c]
          /\ UNCHANGED <<peer, gone, shut, clients>>
      <3>1. ~Remove(d) /\ ~Close(d)
        BY <1>4 DEF Recv, RecvEnds, SendBlocks, HandleHello, HandleSetSetting, HandlePing, HandleOther,
                    HandleOversized, Handling, Remove, Close
      <3> QED
        BY <3>1, WorkStep
    <2>3. \A c \in Conns : Phase(c)' = Phase(c)
      BY <2>2 DEF Phase, Active
    <2>4. UNCHANGED <<EndpointState, gone \cup shut>>
      BY <2>1, <2>2 DEF EndpointState
    <2> QED
      BY <2>1, <2>3, <2>4, PhasesStay, EndpointStays
  <1> QED
    BY <1>1, <1>2, <1>3, <1>4 DEF ReadStep

(* The chunk reaches whoever is streamed to and has room for some of it. *)
LEMMA BroadcastPromise ==
    ASSUME IInv, Promising, Broadcast
    PROVE  [Endpoint!Next]_(Endpoint!vars)
  <1> USE DEF netVars, outVars, mainVars, acceptVars, tableVars, readVars
  <1>1. UNCHANGED <<EndpointState, gone \cup shut, Phases>> /\ EndpointState # "down"
    BY DEF Broadcast, EndpointState, Phases, Phase, Promising, Begun, IInv, TypeOK
  <1> DEFINE to == {c \in Conns : wire'[c] # wire[c]}
  <1>2. ASSUME NEW c \in to PROVE Streaming(c) /\ ~Dead(c) /\ Heard(c)' = Append(Heard(c), "iq")
    <2>1. wire'[c] = Share(c).items /\ wire'[c] # wire[c]
      BY BroadcastShares
    <2>2. Streaming(c) /\ ~Dead(c)
      BY <2>1 DEF Share
    <2>3. session[c].seq \in Nat
      BY DEF IInv, TypeOK, SessionState
    <2> DEFINE put == Put(c, "IQ", session[c].seq, IqSize)
    <2>4. wire'[c] = put.items
      BY <2>1, <2>2 DEF Share
    <2>5. Extends(wire[c], put.items, "IQ", session[c].seq)
      BY <2>3, PutAdds DEF IqSize
    <2> HIDE DEF put
    <2>6. PICK m \in Message : wire'[c] = Append(wire[c], m) /\ m.type = "IQ"
      BY <2>1, <2>4, <2>5 DEF Extends
    <2> QED
      BY <2>2, <2>6, HeardGrows DEF IInv
  <1>3. ASSUME NEW c \in Conns \ to PROVE Heard(c)' = Heard(c)
    BY DEF Heard
  <1>4. to \subseteq Conns
    OBVIOUS
  <1> HIDE DEF to
  <1>5. HeardAll' = [c \in Conns |-> IF c \in to THEN Append(HeardAll[c], "iq") ELSE HeardAll[c]]
    BY <1>2, <1>3, <1>4 DEF HeardAll
  <1>6. \A c \in to : Phases[c] = "served" /\ c \notin gone \cup shut
    <2>1. \A c \in clients : peer[c] = "open"
      BY DEF IInv, Table, Members
    <2> QED
      BY <1>2, <1>4, <2>1 DEF Phases, Phase, Streaming, Dead
  <1>7. Endpoint!Broadcast(to)
    BY <1>1, <1>5, <1>6 DEF Endpoint!Broadcast, Phases, HeardAll
  <1> QED
    BY <1>4, <1>7 DEF Endpoint!Next

LEMMA EnvPromise ==
    ASSUME IInv, NEW c \in Conns, EnvOf(c)
    PROVE  [Endpoint!Next]_(Endpoint!vars)
  <1> USE DEF netVars, outVars, mainVars, acceptVars, tableVars, readVars
  <1>1. UNCHANGED <<EndpointState, wire>>
    BY DEF EnvOf, Connect, SendCommand, ClientRead, Leave, EndpointState
  <1>2. \A d \in Conns : Phase(d)' = Phase(d)
    BY DEF EnvOf, Connect, SendCommand, ClientRead, Leave, Phase, IInv, TypeOK
  <1>3. Phases' = Phases /\ HeardAll' = HeardAll
    BY <1>1, <1>2, PhasesStay DEF HeardAll, Heard
  <1>4. CASE Leave(c)
    <2>1. (gone \cup shut)' = (gone \cup shut) \cup {c}
      BY <1>4 DEF Leave
    <2>2. Endpoint!End(c)
      BY <1>1, <1>3, <2>1 DEF Endpoint!End, Phases, HeardAll
    <2> QED
      BY <2>2 DEF Endpoint!Next
  <1>5. CASE ~Leave(c)
    <2>1. UNCHANGED (gone \cup shut)
      BY <1>5 DEF EnvOf, Connect, SendCommand, ClientRead
    <2> QED
      BY <1>1, <1>3, <2>1, EndpointStays
  <1> QED
    BY <1>4, <1>5

(* For any clients, commands and buffers the endpoint implements IqEndpoint: *)
(* replies and IQ go to clients in the table whose connection is not over,   *)
(* each is taken in once and let go before its socket is closed, and stop()  *)
(* returns with every client it still serves cut off.                        *)
THEOREM EndpointImplemented == Spec => KeepsEndpointPromise
  <1>1. Init => Endpoint!Init /\ Promising
    <2> SUFFICES ASSUME Init PROVE Endpoint!Init /\ Promising
      OBVIOUS
    <2>1. Promising
      BY DEF Init, Promising, Known, Begun, Reached, Active
    <2>2. \A c \in Conns : Phase(c) = "away"
      <3>1. clients = {} /\ \A c \in Conns : peer[c] = "new" /\ readPc[c] = "none"
        BY DEF Init
      <3> QED
        BY <3>1 DEF Phase
    <2>3. ASSUME NEW c \in Conns PROVE Heard(c) = <<>>
      <3>1. wire[c] = <<>> /\ Len(<<>>) = 0
        BY EmptySeq DEF Init
      <3>2. Heard(c) \in [1..0 -> {"talk", "iq"}]
        BY <3>1 DEF Heard
      <3>3. Heard(c) \in Seq({"talk", "iq"})
        BY <3>2, SeqDef
      <3>4. Len(Heard(c)) = 0
        BY <3>2, <3>3, LenProperties
      <3> QED
        BY <3>3, <3>4, EmptySeq
    <2>4. EndpointState = "down" /\ gone \cup shut = {}
      BY DEF Init, EndpointState
    <2> QED
      BY <2>1, <2>2, <2>3, <2>4 DEF Endpoint!Init
  <1>2. IInv /\ Promising /\ [Next]_vars => Promising'
    BY PromisingStep
  <1>3. IInv /\ Promising /\ [Next]_vars => [Endpoint!Next]_(Endpoint!vars)
    <2> SUFFICES ASSUME IInv, Promising, [Next]_vars PROVE [Endpoint!Next]_(Endpoint!vars)
      OBVIOUS
    <2>1. ASSUME UNCHANGED vars \/ ChunkArrives PROVE UNCHANGED Endpoint!vars
      <3>1. UNCHANGED <<EndpointState, Phases, gone \cup shut, wire>>
        BY <2>1 DEF vars, ChunkArrives, netVars, outVars, mainVars, tableVars, readVars, EndpointState, Phases, Phase
      <3> QED
        BY <3>1, EndpointStays
    <2>2. ASSUME NEW c \in Conns, ReadStep(c) \/ EnvOf(c) PROVE [Endpoint!Next]_(Endpoint!vars)
      BY <2>2, ReadPromise, EnvPromise
    <2> QED
      BY <2>1, <2>2, StopPromise, AcceptPromise, BroadcastPromise DEF Next, Ended, EnvStep, EnvOf
  <1> QED
    BY <1>1, <1>2, <1>3, Inductive, PTL DEF Spec, Endpoint!Spec, KeepsEndpointPromise
=============================================================================
