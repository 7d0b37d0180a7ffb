-------------------------- MODULE SdrConnectProofs --------------------------
(***************************************************************************)
(* What holds of SdrConnectClient and WebSocketClient for every number of    *)
(* frames, of settings, and every size of the send buffer.                   *)
(***************************************************************************)
EXTENDS SdrConnect, SequenceTheorems, TLAPS

(* Which thread is where, and what that says of the one descriptor. *)
Threads ==
    /\ pc \in {"idle", "upgrade", "settings", "failed"} => readPc = "none"
    /\ pc = "streaming" => readPc # "none"
    /\ pc \in {"closed", "destroyed"} => readPc \in {"none", "done"}
    /\ pc \in {"idle", "upgrade", "settings", "streaming"} => ~threw
    /\ pc = "failed" => threw
    /\ threw => readPc = "none"

Descriptor ==
    /\ pc = "idle" => ~fdSet
    /\ pc \in {"upgrade", "settings"} => sock = "open"
    /\ readPc = "none" /\ pc # "destroyed" => (fdSet <=> sock = "open")
    /\ readPc \in {"recv", "frames", "callback", "pong", "close"} => sock = "open"
    /\ readPc = "clear" => sock = "closed"
    /\ readPc = "done" => sock = "closed" /\ ~fdSet
    /\ pc = "destroyed" => sock # "open"

(* What the buffer holds when the read loop waits in recv(). *)
Buffer ==
    /\ readPc = "none" => parsed = 0 /\ received = early
    /\ readPc = "recv" /\ parsed < received => parsed = 0 /\ received = early
    /\ OnlyEarlyFramesLost

IInv == TypeOK /\ Threads /\ Descriptor /\ Buffer

-----------------------------------------------------------------------------
(* A frame taken from the buffer is one the server has sent. *)
LEMMA FrameSent ==
  ASSUME TypeOK, parsed < received
  PROVE  /\ parsed \in Nat /\ received \in Nat /\ parsed + 1 \in 1..Len(sent)
         /\ Frame \in Frames /\ Payload(Frame) \in Pieces
  <1>1. parsed \in Nat /\ received \in Nat /\ Len(sent) \in Nat /\ parsed + 1 \in 1..Len(sent)
    BY DEF TypeOK
  <1>2. Frame \in Frames
    BY <1>1 DEF TypeOK, Frame
  <1>3. Payload(Frame) \in Pieces
    BY <1>2 DEF Payload, Pieces, Frames
  <1> QED
    BY <1>1, <1>2, <1>3

LEMMA SendableTyped ==
  ASSUME TypeOK, NEW f \in Sendable
  PROVE  f \in Frames
  <1>1. LastData \in Frames
    <2> DEFINE last == {i \in 1..Len(sent) : IsData(sent[i]) /\ \A j \in (i + 1)..Len(sent) : ~IsData(sent[j])}
    <2>1. CASE last = {}
      BY <2>1 DEF LastData, Frames, Kinds
    <2>2. CASE last # {}
      <3>1. (CHOOSE i \in last : TRUE) \in 1..Len(sent)
        BY <2>2
      <3>2. LastData = sent[CHOOSE i \in last : TRUE]
        BY <2>2 DEF LastData
      <3> HIDE DEF last
      <3> QED
        BY <3>1, <3>2 DEF TypeOK
    <2> QED
      BY <2>1, <2>2
  <1> QED
    <2>1. LastData.msg \in Nat /\ LastData.part \in Nat
      BY <1>1 DEF Frames
    <2>2. \A op \in Kinds \cup {"more"}, fin \in BOOLEAN : NextData(op, fin) \in Frames
      BY <2>1 DEF NextData, Frames
    <2>3. \A op \in {"ping", "close"} : [op |-> op, fin |-> TRUE, msg |-> 0, part |-> 0] \in Frames
      BY DEF Frames
    <2> QED
      <3>1. CASE \E op \in Kinds \cup {"more"}, fin \in BOOLEAN : f = NextData(op, fin)
        BY <2>2, <3>1
      <3>2. CASE \E op \in {"ping", "close"} : f = [op |-> op, fin |-> TRUE, msg |-> 0, part |-> 0]
        BY <2>3, <3>2
      <3>3. \/ \E op \in IF LastData.fin THEN Kinds ELSE {"more"}, fin \in BOOLEAN : f = NextData(op, fin)
            \/ \E op \in {"ping", "close"} : f = [op |-> op, fin |-> TRUE, msg |-> 0, part |-> 0]
        BY DEF Sendable
      <3> QED
        BY <3>1, <3>2, <3>3

LEMMA InitInv == Init => IInv
  <1> SUFFICES ASSUME Init PROVE IInv
    OBVIOUS
  <1>1. <<>> \in Seq(Frames) /\ <<>> \in Seq(Pieces) /\ <<>> \in Seq(Seq(Pieces)) /\ Len(<<>>) = 0
    OBVIOUS
  <1>2. fragment \in [kind : Kinds \cup {"none"}, parts : Seq(Pieces)]
    BY <1>1 DEF Init, NoFragment
  <1>3. TypeOK
    <2>1. todo \in 0..Settings /\ unread \in 0..Capacity
      BY SdrConnectAssumption DEF Init
    <2>2. early \in Nat /\ received \in 0..Len(sent) /\ parsed \in 0..received
      BY <1>1 DEF Init
    <2>3. sent \in Seq(Frames) /\ delivered \in Seq(Seq(Pieces))
      BY <1>1 DEF Init
    <2> QED
      BY <1>2, <2>1, <2>2, <2>3 DEF Init, TypeOK
  <1> QED
    BY <1>3 DEF Init, IInv, Threads, Descriptor, Buffer, OnlyEarlyFramesLost

-----------------------------------------------------------------------------
(* The server's steps leave both threads where they are. *)
LEMMA ServerInv == IInv /\ ServerStep => IInv'
  <1> SUFFICES ASSUME IInv, ServerStep PROVE IInv'
    OBVIOUS
  <1> USE DEF sockVars, mainVars, readVars, serverVars
  <1>1. UNCHANGED <<sockVars, mainVars, readVars>>
    BY DEF ServerStep, Replies, ServerSends, ServerReads, ServerLeaves
  <1>2. Threads' /\ Descriptor'
    BY <1>1 DEF IInv, Threads, Descriptor
  <1>3. /\ sent' \in Seq(Frames) /\ Len(sent) \in Nat /\ Len(sent') \in Nat /\ Len(sent) <= Len(sent')
        /\ \A k \in 1..Len(sent) : sent'[k] = sent[k]
    <2>1. sent \in Seq(Frames)
      BY DEF IInv, TypeOK
    <2>2. CASE \E f \in Sendable : sent' = Append(sent, f)
      BY <2>1, <2>2, SendableTyped DEF IInv
    <2>3. CASE UNCHANGED sent
      BY <2>1, <2>3
    <2> QED
      BY <2>2, <2>3 DEF ServerStep, Replies, ServerSends, ServerReads, ServerLeaves
  <1>4. TypeOK'
    <2>1. reply' \in {"none", "drip", "ok", "bad"} /\ left' \in BOOLEAN
      BY DEF IInv, TypeOK, ServerStep, Replies, ServerSends, ServerReads, ServerLeaves
    <2>2. unread' \in 0..Capacity
      BY SdrConnectAssumption DEF IInv, TypeOK, ServerStep, Replies, ServerSends, ServerReads, ServerLeaves
    <2>3. received' \in 0..Len(sent')
      BY <1>1, <1>3 DEF IInv, TypeOK
    <2> QED
      BY <1>1, <1>3, <2>1, <2>2, <2>3 DEF IInv, TypeOK
  <1>5. Buffer'
    <2>1. parsed \in Nat /\ received \in Nat /\ parsed <= received /\ received <= Len(sent)
      BY <1>3 DEF IInv, TypeOK
    <2>2. parsed # 0 => sent'[parsed] = sent[parsed]
      BY <1>3, <2>1
    <2> QED
      <3>1. readPc' \in {"close", "clear", "done"} /\ parsed' < received' =>
              \/ parsed' = 0 /\ received' = early'
              \/ parsed' > 0 /\ sent'[parsed'].op = "close"
        <4>1. parsed > 0 /\ sent[parsed].op = "close" => sent'[parsed].op = "close"
          BY <2>1, <2>2
        <4> QED
          BY <1>1, <4>1 DEF IInv, Buffer, OnlyEarlyFramesLost
      <3> QED
        BY <1>1, <3>1 DEF IInv, Buffer, OnlyEarlyFramesLost
  <1> QED
    BY <1>2, <1>4, <1>5 DEF IInv

(* connect(): there is no read thread until it has succeeded. *)
LEMMA ConnectInv == IInv /\ ConnectStep => IInv'
  <1> SUFFICES ASSUME IInv, ConnectStep PROVE IInv'
    OBVIOUS
  <1> USE DEF sockVars, mainVars, readVars, serverVars
  <1>0. /\ Len(sent) \in Nat /\ Settings \in Nat /\ Capacity \in Nat /\ Capacity > 0
        /\ UNCHANGED <<sent, reply, left>> /\ UNCHANGED <<parsed, fragment, delivered, shut>>
        /\ readPc = "none" /\ parsed = 0 /\ received = early /\ fragment \in [kind : Kinds \cup {"none"}, parts : Seq(Pieces)]
    BY SdrConnectAssumption DEF IInv, TypeOK, Threads, Buffer, ConnectStep, DialFails, Dial, UpgradeFails, SendSetting,
       SettingFails, StartReading, UpgradeOk
  <1>1. CASE DialFails \/ Dial \/ UpgradeFails \/ SettingFails
    <2>1. TypeOK'
      BY <1>0, <1>1 DEF IInv, TypeOK, DialFails, Dial, UpgradeFails, SettingFails, Fails
    <2>2. Threads'
      BY <1>0, <1>1 DEF IInv, Threads, DialFails, Dial, UpgradeFails, SettingFails
    <2>3. Descriptor'
      BY <1>0, <1>1 DEF IInv, Descriptor, DialFails, Dial, UpgradeFails, SettingFails
    <2>4. Buffer'
      BY <1>0, <1>1 DEF IInv, Buffer, OnlyEarlyFramesLost, DialFails, Dial, UpgradeFails, SettingFails
    <2> QED
      BY <2>1, <2>2, <2>3, <2>4 DEF IInv
  <1>2. CASE SendSetting
    <2>1. TypeOK'
      BY <1>0, <1>2 DEF IInv, TypeOK, SendSetting, Sends
    <2> QED
      BY <1>2, <2>1 DEF IInv, Threads, Descriptor, Buffer, OnlyEarlyFramesLost, SendSetting
  <1>3. CASE StartReading
    <2>1. TypeOK'
      BY <1>0, <1>3 DEF IInv, TypeOK, StartReading
    <2> QED
      BY <1>0, <1>3, <2>1 DEF IInv, Threads, Descriptor, Buffer, OnlyEarlyFramesLost, StartReading
  <1>4. ASSUME NEW n \in 0..Len(sent), UpgradeOk(n) PROVE IInv'
    <2>1. TypeOK'
      BY <1>0, <1>4 DEF IInv, TypeOK, UpgradeOk
    <2> QED
      BY <1>0, <1>4, <2>1 DEF IInv, Threads, Descriptor, Buffer, OnlyEarlyFramesLost, UpgradeOk
  <1> QED
    BY <1>1, <1>2, <1>3, <1>4 DEF ConnectStep

(* close() and the destructor: the descriptor is shut down, then joined, and *)
(* closed here only if the read thread never was.                            *)
LEMMA CloseInv == IInv /\ (BeginClose \/ CloseStep) => IInv'
  <1> SUFFICES ASSUME IInv, BeginClose \/ CloseFrame \/ Shutdown \/ Join \/ Destroy PROVE IInv'
    BY DEF CloseStep
  <1> USE DEF sockVars, mainVars, readVars, serverVars
  <1>1. TypeOK'
    <2>1. unread' \in 0..Capacity
      BY SdrConnectAssumption DEF IInv, TypeOK, BeginClose, CloseFrame, Shutdown, Join, Destroy, Sends, Fails
    <2>2. /\ UNCHANGED <<serverVars, todo, threw, readVars, fdSet>>
          /\ sock' \in {sock, "closed"} /\ shut' \in {shut, shut \/ sock = "open"}
      BY DEF BeginClose, CloseFrame, Shutdown, Join, Destroy
    <2>3. shut' \in BOOLEAN
      BY <2>2 DEF IInv, TypeOK
    <2>4. pc' \in {"closeFrame", "shutdown", "join", "closed", "destroyed"}
      BY DEF BeginClose, CloseFrame, Shutdown, Join, Destroy
    <2> QED
      BY <2>1, <2>2, <2>3, <2>4 DEF IInv, TypeOK
  <1>2. Threads'
    BY DEF IInv, Threads, BeginClose, CloseFrame, Shutdown, Join, Destroy
  <1>3. Descriptor'
    BY DEF IInv, Threads, Descriptor, BeginClose, CloseFrame, Shutdown, Join, Destroy
  <1>4. Buffer'
    BY DEF IInv, Buffer, OnlyEarlyFramesLost, BeginClose, CloseFrame, Shutdown, Join, Destroy
  <1> QED
    BY <1>1, <1>2, <1>3, <1>4 DEF IInv

(* A frame is handled: the read thread stays in its loop or leaves it by a   *)
(* CLOSE frame.                                                              *)
LEMMA FrameInv == IInv /\ (ControlFrame \/ FirstFrame \/ Continuation) => IInv'
  <1> SUFFICES ASSUME IInv, ControlFrame \/ FirstFrame \/ Continuation PROVE IInv'
    OBVIOUS
  <1> USE DEF sockVars, mainVars, readVars, serverVars
  <1>0. /\ readPc = "frames" /\ parsed < received /\ parsed' = parsed + 1
        /\ UNCHANGED <<serverVars, unread, sockVars, mainVars, early, received>>
        /\ readPc' \in {"frames", "callback", "pong", "close"}
        /\ readPc' = "close" => Frame.op = "close"
    BY DEF ControlFrame, FirstFrame, Continuation, Deliver
  <1>1. parsed \in Nat /\ received \in Nat /\ Frame \in Frames /\ Payload(Frame) \in Pieces
    BY <1>0, FrameSent DEF IInv
  <1>2. /\ fragment' \in [kind : Kinds \cup {"none"}, parts : Seq(Pieces)]
        /\ delivered' \in Seq(Seq(Pieces))
    <2>0. /\ fragment \in [kind : Kinds \cup {"none"}, parts : Seq(Pieces)]
          /\ fragment.parts \in Seq(Pieces) /\ fragment.kind \in Kinds \cup {"none"}
          /\ delivered \in Seq(Seq(Pieces))
      BY DEF IInv, TypeOK
    <2>1. /\ <<Payload(Frame)>> \in Seq(Pieces) /\ Append(fragment.parts, Payload(Frame)) \in Seq(Pieces)
          /\ NoFragment \in [kind : Kinds \cup {"none"}, parts : Seq(Pieces)]
      BY <1>1, <2>0 DEF NoFragment
    <2>2. \A parts \in Seq(Pieces) : Append(delivered, parts) \in Seq(Seq(Pieces))
      BY <2>0
    <2>3. CASE ControlFrame
      BY <2>0, <2>3 DEF ControlFrame
    <2>4. CASE FirstFrame
      <3> DEFINE start == [kind |-> Frame.op, parts |-> <<Payload(Frame)>>]
      <3>1. \/ delivered' \in {delivered, Append(delivered, <<Payload(Frame)>>)} /\ UNCHANGED fragment
            \/ fragment' = start /\ UNCHANGED delivered
        BY <2>4 DEF FirstFrame, Deliver
      <3>2. start \in [kind : Kinds \cup {"none"}, parts : Seq(Pieces)]
        BY <2>1, <2>4 DEF FirstFrame
      <3> HIDE DEF start
      <3> QED
        BY <2>0, <2>1, <2>2, <3>1, <3>2
    <2>5. CASE Continuation
      <3> DEFINE parts == Append(fragment.parts, Payload(Frame))
      <3>1. \/ UNCHANGED <<fragment, delivered>>
            \/ fragment' = NoFragment /\ delivered' \in {delivered, Append(delivered, parts)}
            \/ fragment' = [fragment EXCEPT !.parts = parts] /\ UNCHANGED delivered
        BY <2>5 DEF Continuation, Deliver
      <3>2. [fragment EXCEPT !.parts = parts] \in [kind : Kinds \cup {"none"}, parts : Seq(Pieces)]
        BY <2>0, <2>1
      <3> QED
        BY <2>0, <2>1, <2>2, <3>1, <3>2
    <2> QED
      BY <2>3, <2>4, <2>5
  <1>3. TypeOK'
    <2>1. parsed' \in 0..received'
      BY <1>0, <1>1
    <2> QED
      BY <1>0, <1>2, <2>1 DEF IInv, TypeOK
  <1>4. Threads' /\ Descriptor'
    BY <1>0 DEF IInv, Threads, Descriptor
  <1>5. Buffer'
    <2>1. readPc' = "close" => parsed' > 0 /\ sent'[parsed'].op = "close"
      BY <1>0, <1>1 DEF Frame
    <2> QED
      BY <1>0, <2>1 DEF Buffer, OnlyEarlyFramesLost
  <1> QED
    BY <1>3, <1>4, <1>5 DEF IInv

(* The rest of the read loop, to the end of the thread. *)
LEMMA LoopInv ==
  IInv /\ ((\E n \in 1..MaxFrames : Recv(n)) \/ RecvEnds \/ Pong \/ CallbackEnds \/ BufferDone \/ CloseFd \/ ClearFd)
    => IInv'
  <1> SUFFICES ASSUME IInv, (\E n \in 1..MaxFrames : Recv(n)) \/ RecvEnds \/ Pong \/ CallbackEnds \/ BufferDone
                            \/ CloseFd \/ ClearFd
               PROVE  IInv'
    OBVIOUS
  <1> USE DEF sockVars, mainVars, readVars, serverVars
  <1>1. TypeOK'
    <2>1. unread' \in 0..Capacity
      BY SdrConnectAssumption DEF IInv, TypeOK, Recv, RecvEnds, Pong, CallbackEnds, BufferDone, CloseFd, ClearFd, Sends, Fails
    <2>2. received' \in 0..Len(sent) /\ parsed' \in 0..received'
      <3>1. CASE UNCHANGED <<received, parsed>>
        BY <3>1 DEF IInv, TypeOK
      <3>2. ASSUME NEW n \in 1..MaxFrames, Recv(n)
            PROVE  received' \in 0..Len(sent) /\ parsed' \in 0..received'
        BY <3>2, SdrConnectAssumption DEF IInv, TypeOK, Recv
      <3> QED
        BY <3>1, <3>2 DEF RecvEnds, Pong, CallbackEnds, BufferDone, CloseFd, ClearFd
    <2>3. /\ UNCHANGED <<serverVars, shut, mainVars, early, fragment, delivered>>
          /\ sock' \in {sock, "closed"} /\ fdSet' \in {fdSet, FALSE}
      BY DEF Recv, RecvEnds, Pong, CallbackEnds, BufferDone, CloseFd, ClearFd
    <2>4. readPc' \in {"recv", "frames", "close", "clear", "done"}
      BY DEF Recv, RecvEnds, Pong, CallbackEnds, BufferDone, CloseFd, ClearFd
    <2>5. sock' \in {"none", "open", "closed"} /\ fdSet' \in BOOLEAN
      BY <2>3 DEF IInv, TypeOK
    <2>6. fragment' \in [kind : Kinds \cup {"none"}, parts : Seq(Pieces)] /\ delivered' \in Seq(Seq(Pieces))
      BY <2>3 DEF IInv, TypeOK
    <2>7. sent' = sent /\ UNCHANGED <<reply, left, shut, pc, todo, threw, early>>
      BY <2>3
    <2> QED
      BY <2>1, <2>2, <2>4, <2>5, <2>6, <2>7 DEF IInv, TypeOK
  <1>2. Threads'
    BY DEF IInv, Threads, Recv, RecvEnds, Pong, CallbackEnds, BufferDone, CloseFd, ClearFd
  <1>3. Descriptor'
    BY DEF IInv, Threads, Descriptor, Recv, RecvEnds, Pong, CallbackEnds, BufferDone, CloseFd, ClearFd
  <1>4. Buffer'
    <2>0. parsed \in Nat /\ received \in Nat
      BY DEF IInv, TypeOK
    <2> QED
      BY <2>0 DEF IInv, Buffer, OnlyEarlyFramesLost, Recv, RecvEnds, Pong, CallbackEnds, BufferDone, CloseFd, ClearFd
  <1> QED
    BY <1>1, <1>2, <1>3, <1>4 DEF IInv

LEMMA StutterInv == IInv /\ UNCHANGED vars => IInv'
  BY DEF IInv, TypeOK, Threads, Descriptor, Buffer, OnlyEarlyFramesLost, vars, sockVars, mainVars, readVars, serverVars

THEOREM Invariance == Spec => []IInv
  <1>1. IInv /\ [Next]_vars => IInv'
    BY ServerInv, ConnectInv, CloseInv, FrameInv, LoopInv, StutterInv DEF Next, ReadStep
  <1> QED
    BY InitInv, <1>1, PTL DEF Spec

(* Every variable of both threads and of the server keeps its type. *)
THEOREM TypeCorrect == Spec => []TypeOK
  <1>1. IInv => TypeOK
    BY DEF IInv
  <1> QED
    BY <1>1, Invariance, PTL

(* The descriptor is closed once, by the one thread that may. *)
THEOREM DescriptorClosedOnce == Spec => []ClosedOnce
  <1>1. IInv => ClosedOnce
    BY DEF IInv, Threads, Descriptor, ClosedOnce
  <1> QED
    BY <1>1, Invariance, PTL

(* Only frames that came with the upgrade's reply are ever left unhandled. *)
THEOREM FramesHandled == Spec => []OnlyEarlyFramesLost
  <1>1. IInv => OnlyEarlyFramesLost
    BY DEF IInv, Buffer
  <1> QED
    BY <1>1, Invariance, PTL

-----------------------------------------------------------------------------
(* Each step of either thread is one of the abstract source, or none. *)
LEMMA SourceStep ==
  ASSUME IInv, [Next]_vars
  PROVE  [Source!Next]_(Source!vars)
  <1>0. Threads /\ pc \in {"idle", "upgrade", "settings", "streaming", "failed",
                           "closeFrame", "shutdown", "join", "closed", "destroyed"}
    BY DEF IInv, TypeOK
  <1> USE DEF Threads, SourceState, Source!Next, Source!vars, sockVars, mainVars, readVars, serverVars
  <1>1. CASE ConnectStep
    <2>1. CASE DialFails \/ UpgradeFails \/ SettingFails
      BY <1>0, <2>1 DEF DialFails, UpgradeFails, SettingFails, Source!Throws
    <2>2. CASE Dial
      BY <1>0, <2>2 DEF Dial, Source!Connect
    <2>3. CASE SendSetting \/ \E n \in 0..Len(sent) : UpgradeOk(n)
      BY <1>0, <2>3 DEF SendSetting, UpgradeOk
    <2>4. CASE StartReading
      BY <1>0, <2>4 DEF StartReading, Source!Connected
    <2> QED
      BY <1>1, <2>1, <2>2, <2>3, <2>4 DEF ConnectStep
  <1>2. CASE BeginClose \/ CloseStep
    <2>1. CASE BeginClose
      BY <1>0, <2>1 DEF BeginClose, Source!Close
    <2>2. CASE CloseFrame \/ Shutdown \/ Destroy
      BY <1>0, <2>2 DEF CloseFrame, Shutdown, Destroy
    <2>3. CASE Join
      BY <1>0, <2>3 DEF Join, Source!Closed
    <2> QED
      BY <1>2, <2>1, <2>2, <2>3 DEF CloseStep
  <1>3. CASE ReadStep
    <2>0. UNCHANGED <<pc, threw>>
      BY <1>3 DEF ReadStep, Recv, RecvEnds, ControlFrame, FirstFrame, Continuation, Pong, CallbackEnds,
         BufferDone, CloseFd, ClearFd
    <2>1. SourceState' = SourceState
      BY <2>0
    <2>2. CASE readPc # "callback" /\ readPc' # "callback"
      BY <2>1, <2>2
    <2>3. CASE readPc = "callback"
      <3>1. CallbackEnds
        BY <1>3, <2>3 DEF ReadStep, Recv, RecvEnds, ControlFrame, FirstFrame, Continuation, Pong, BufferDone,
           CloseFd, ClearFd
      <3> QED
        BY <2>1, <2>3, <3>1 DEF CallbackEnds, Source!CallbackEnds
    <2>4. CASE readPc # "callback" /\ readPc' = "callback"
      <3>1. readPc = "frames"
        BY <1>3, <2>4 DEF ReadStep, Recv, RecvEnds, ControlFrame, FirstFrame, Continuation, Pong, CallbackEnds,
           BufferDone, CloseFd, ClearFd
      <3>2. SourceState \in {"streaming", "closing"}
        BY <1>0, <3>1
      <3> QED
        BY <2>1, <2>4, <3>2 DEF Source!CallbackBegins
    <2> QED
      BY <2>2, <2>3, <2>4
  <1>4. CASE ServerStep \/ UNCHANGED vars
    BY <1>4 DEF ServerStep, Replies, ServerSends, ServerReads, ServerLeaves, vars
  <1> QED
    BY <1>1, <1>2, <1>3, <1>4 DEF Next

(* The client keeps what iq_source.hpp promises, however the server and the  *)
(* two threads interleave.                                                   *)
THEOREM SourceImplemented == Spec => KeepsSourcePromise
  <1>1. Init => Source!Init
    BY DEF Init, Source!Init, SourceState
  <1>2. IInv /\ [Next]_vars => [Source!Next]_(Source!vars)
    BY SourceStep
  <1> QED
    BY <1>1, <1>2, Invariance, PTL DEF Spec, KeepsSourcePromise, Source!Spec

-----------------------------------------------------------------------------
(* The last data frame among the first n of a stream; before any, as if one *)
(* message had just ended.                                                   *)
Before == [op |-> "other", fin |-> TRUE, msg |-> 0, part |-> 0]

LastAmong(s, n) == {i \in 1..n : IsData(s[i]) /\ \A j \in (i + 1)..n : ~IsData(s[j])}

Latest(s, n) == IF LastAmong(s, n) = {} THEN Before ELSE s[CHOOSE i \in LastAmong(s, n) : TRUE]

(* RFC 6455, as Sendable has it: data frame g comes next after f. *)
Continues(f, g) ==
    IF f.fin THEN g.op \in Kinds /\ g.msg = f.msg + 1 /\ g.part = 1
             ELSE g.op = "more" /\ g.msg = f.msg /\ g.part = f.part + 1

Numbered(s) ==
    \A i \in 1..Len(s) : IF IsData(s[i]) THEN Continues(Latest(s, i - 1), s[i]) ELSE s[i].msg = 0

(* From any point of the stream back, and from there on. *)
Ordered(s) ==
    \A n \in 0..Len(s) :
        /\ \A i \in 1..n : IsData(s[i]) =>
              /\ s[i].msg >= 1 /\ s[i].msg <= Latest(s, n).msg /\ s[i].part >= 1
              /\ s[i].msg = Latest(s, n).msg => s[i].part <= Latest(s, n).part
        /\ \A i \in (n + 1)..Len(s) : IsData(s[i]) =>
              /\ s[i].msg >= Latest(s, n).msg
              /\ Latest(s, n).fin => s[i].msg > Latest(s, n).msg
        /\ \/ Latest(s, Len(s)) = Latest(s, n)
           \/ \E i \in (n + 1)..Len(s) : IsData(s[i]) /\ Latest(s, Len(s)) = s[i]

(* Some frame of message m among the first n says that it is IQ. *)
IsIq(s, m, n) == \E h \in 1..n : s[h].op = "iq" /\ s[h].msg = m

(* An IQ message m ends among the first n. *)
Ends(s, m, n) == \E j \in 1..n : IsData(s[j]) /\ s[j].fin /\ s[j].msg = m /\ IsIq(s, m, j)

Parts(f) == [k \in 1..f.part |-> [msg |-> f.msg, part |-> k]]

(* What the read loop has in hand of the message it is in. *)
InHand(s, n, frag) ==
    LET f == Latest(s, n)
    IN  /\ f.fin => frag = NoFragment
        /\ ~f.fin => /\ frag.kind \in Kinds /\ frag.parts = Parts(f)
                     /\ frag.kind = "iq" <=> IsIq(s, f.msg, n)

(* MessagesWhole of any stream, and of what was made of its first n frames. *)
WholeOf(s, n, parts) ==
    /\ Ends(s, parts[1].msg, n)
    /\ \A k \in 1..Len(parts) : parts[k] = [msg |-> parts[1].msg, part |-> k]
    /\ \A i \in 1..Len(s) : s[i].msg = parts[1].msg => s[i].part <= Len(parts)

Handed(s, n, handed) ==
    /\ \A k \in 1..Len(handed) : WholeOf(s, n, handed[k])
    /\ \A j, k \in 1..Len(handed) : j < k => handed[j][1].msg < handed[k][1].msg
    /\ \A m \in Nat : Ends(s, m, n) => \E k \in 1..Len(handed) : handed[k][1].msg = m

-----------------------------------------------------------------------------
(* There is at most one last data frame. *)
LEMMA OneLast ==
  ASSUME NEW s, NEW n \in Nat, NEW i \in LastAmong(s, n)
  PROVE  LastAmong(s, n) = {i} /\ Latest(s, n) = s[i]
  <1>1. ASSUME NEW j \in LastAmong(s, n) PROVE j = i
    <2>1. /\ i \in 1..n /\ IsData(s[i]) /\ \A k \in (i + 1)..n : ~IsData(s[k])
          /\ j \in 1..n /\ IsData(s[j]) /\ \A k \in (j + 1)..n : ~IsData(s[k])
      BY DEF LastAmong
    <2>2. j \notin (i + 1)..n /\ i \notin (j + 1)..n
      BY <2>1
    <2> QED
      BY <2>1, <2>2
  <1>2. LastAmong(s, n) = {i}
    BY <1>1
  <1> QED
    BY <1>2 DEF Latest

(* One more frame is the last data frame, or changes nothing. *)
LEMMA LatestStep ==
  ASSUME NEW s, NEW n \in Nat
  PROVE  Latest(s, n + 1) = IF IsData(s[n + 1]) THEN s[n + 1] ELSE Latest(s, n)
  <1>1. CASE IsData(s[n + 1])
    <2>1. n + 1 \in LastAmong(s, n + 1)
      BY <1>1 DEF LastAmong
    <2> QED
      BY <1>1, <2>1, OneLast
  <1>2. CASE ~IsData(s[n + 1])
    <2>1. ASSUME NEW i \in 1..(n + 1) PROVE i \in LastAmong(s, n + 1) <=> i \in LastAmong(s, n)
      <3>1. CASE i = n + 1
        BY <1>2, <3>1 DEF LastAmong
      <3>2. CASE i \in 1..n
        <4>1. (\A j \in (i + 1)..(n + 1) : ~IsData(s[j])) <=> (\A j \in (i + 1)..n : ~IsData(s[j]))
          BY <1>2, <3>2
        <4> QED
          BY <3>2, <4>1 DEF LastAmong
      <3> QED
        BY <3>1, <3>2
    <2>2. LastAmong(s, n + 1) \subseteq 1..(n + 1) /\ LastAmong(s, n) \subseteq 1..(n + 1)
      BY DEF LastAmong
    <2>3. LastAmong(s, n + 1) = LastAmong(s, n)
      BY <2>1, <2>2
    <2>4. CASE LastAmong(s, n) = {}
      BY <1>2, <2>3, <2>4 DEF Latest
    <2>5. ASSUME NEW i \in LastAmong(s, n) PROVE Latest(s, n + 1) = Latest(s, n)
      <3>1. i \in LastAmong(s, n + 1)
        BY <2>3
      <3> QED
        BY <3>1, OneLast
    <2> QED
      BY <1>2, <2>4, <2>5
  <1> QED
    BY <1>1, <1>2

LEMMA LatestNone == ASSUME NEW s PROVE Latest(s, 0) = Before
  BY DEF Latest, LastAmong

(* It is one of the frames, or there is none. *)
LEMMA LatestIsFrame ==
  ASSUME NEW s, NEW n \in Nat
  PROVE  \/ Latest(s, n) = Before
         \/ \E i \in 1..n : IsData(s[i]) /\ Latest(s, n) = s[i] /\ \A j \in (i + 1)..n : ~IsData(s[j])
  <1>1. CASE LastAmong(s, n) = {}
    BY <1>1 DEF Latest
  <1>2. ASSUME NEW i \in LastAmong(s, n)
        PROVE  \E k \in 1..n : IsData(s[k]) /\ Latest(s, n) = s[k] /\ \A j \in (k + 1)..n : ~IsData(s[j])
    <2>1. Latest(s, n) = s[i]
      BY OneLast
    <2> QED
      BY <2>1 DEF LastAmong
  <1> QED
    BY <1>1, <1>2

LEMMA LatestTyped ==
  ASSUME NEW s \in Seq(Frames), NEW n \in 0..Len(s)
  PROVE  Latest(s, n) \in Frames
  <1>1. Before \in Frames
    BY DEF Before, Frames, Kinds
  <1> QED
    BY <1>1, LatestIsFrame

(* It depends on the first n frames only. *)
LEMMA LatestSame ==
  ASSUME NEW s, NEW t, NEW n \in Nat, \A i \in 1..n : s[i] = t[i]
  PROVE  Latest(s, n) = Latest(t, n)
  <1>1. ASSUME NEW i \in 1..n PROVE i \in LastAmong(s, n) <=> i \in LastAmong(t, n)
    <2>1. \A j \in (i + 1)..n : s[j] = t[j]
      OBVIOUS
    <2> QED
      BY <2>1 DEF LastAmong
  <1>2. LastAmong(s, n) = LastAmong(t, n)
    BY <1>1 DEF LastAmong
  <1>3. CASE LastAmong(s, n) = {}
    BY <1>2, <1>3 DEF Latest
  <1>4. ASSUME NEW i \in LastAmong(s, n) PROVE Latest(s, n) = Latest(t, n)
    <2>1. i \in LastAmong(t, n) /\ i \in 1..n
      BY <1>2, <1>4 DEF LastAmong
    <2>2. Latest(s, n) = s[i] /\ Latest(t, n) = t[i]
      BY <2>1, OneLast
    <2> QED
      BY <2>1, <2>2
  <1> QED
    BY <1>3, <1>4

(* What the server may send next keeps the numbering. *)
LEMMA SendableContinues ==
  ASSUME NEW f \in Sendable
  PROVE  IF IsData(f) THEN Continues(Latest(sent, Len(sent)), f) ELSE f.msg = 0
  <1>1. LastData = Latest(sent, Len(sent))
    BY DEF LastData, Latest, LastAmong, Before
  <1>2. ASSUME NEW op \in IF LastData.fin THEN Kinds ELSE {"more"}, NEW fin \in BOOLEAN, f = NextData(op, fin)
        PROVE  IsData(f) /\ Continues(LastData, f)
    BY <1>2 DEF NextData, Continues, IsData
  <1>3. ASSUME NEW op \in {"ping", "close"}, f = [op |-> op, fin |-> TRUE, msg |-> 0, part |-> 0]
        PROVE  ~IsData(f) /\ f.msg = 0
    BY <1>3 DEF IsData, Kinds
  <1> QED
    BY <1>1, <1>2, <1>3 DEF Sendable

LEMMA StreamGrows ==
  ASSUME NEW s \in Seq(Frames), Numbered(s), Ordered(s), NEW f \in Frames,
         IF IsData(f) THEN Continues(Latest(s, Len(s)), f) ELSE f.msg = 0
  PROVE  Numbered(Append(s, f)) /\ Ordered(Append(s, f))
  <1> DEFINE t == Append(s, f)  len == Len(s)  last == Latest(s, len)
  <1>1. /\ len \in Nat /\ Len(t) = len + 1 /\ t \in Seq(Frames) /\ t[len + 1] = f
        /\ \A i \in 1..len : t[i] = s[i] /\ s[i] \in Frames
    OBVIOUS
  <1> HIDE DEF t, len
  <1>2. \A n \in 0..len : Latest(t, n) = Latest(s, n) /\ Latest(s, n) \in Frames
    <2> TAKE n \in 0..len
    <2>1. n \in Nat /\ \A i \in 1..n : t[i] = s[i]
      BY <1>1
    <2>2. Latest(s, n) \in Frames
      BY LatestTyped DEF len
    <2> QED
      BY <2>1, <2>2, LatestSame
  <1>3. Latest(t, len + 1) = IF IsData(f) THEN f ELSE last
    <2>1. Latest(t, len + 1) = IF IsData(t[len + 1]) THEN t[len + 1] ELSE Latest(t, len)
      BY <1>1, LatestStep
    <2>2. Latest(t, len) = last
      BY <1>1, <1>2
    <2> QED
      BY <1>1, <2>1, <2>2
  <1>4. last \in Frames /\ last.msg \in Nat /\ last.part \in Nat /\ f.msg \in Nat /\ f.part \in Nat
    BY <1>1, <1>2 DEF Frames
  <1>5. Numbered(t)
    <2>1. ASSUME NEW i \in 1..len
          PROVE  IF IsData(t[i]) THEN Continues(Latest(t, i - 1), t[i]) ELSE t[i].msg = 0
      <3>1. i - 1 \in 0..len
        BY <1>1
      <3>2. Latest(t, i - 1) = Latest(s, i - 1)
        BY <1>2, <3>1
      <3> QED
        BY <1>1, <3>2 DEF Numbered, len
    <2>2. IF IsData(t[len + 1]) THEN Continues(Latest(t, len), t[len + 1]) ELSE t[len + 1].msg = 0
      BY <1>1, <1>2 DEF len
    <2>3. \A i \in 1..(len + 1) : i \in 1..len \/ (i = len + 1 /\ i - 1 = len)
      BY <1>1
    <2> QED
      BY <1>1, <2>1, <2>2, <2>3 DEF Numbered
  <1>6. Ordered(t)
    <2>1. ASSUME NEW n \in 0..len
          PROVE  /\ \A i \in 1..n : IsData(t[i]) =>
                       /\ t[i].msg >= 1 /\ t[i].msg <= Latest(t, n).msg /\ t[i].part >= 1
                       /\ t[i].msg = Latest(t, n).msg => t[i].part <= Latest(t, n).part
                 /\ \A i \in (n + 1)..Len(t) : IsData(t[i]) =>
                       /\ t[i].msg >= Latest(t, n).msg
                       /\ Latest(t, n).fin => t[i].msg > Latest(t, n).msg
                 /\ \/ Latest(t, Len(t)) = Latest(t, n)
                    \/ \E i \in (n + 1)..Len(t) : IsData(t[i]) /\ Latest(t, Len(t)) = t[i]
      <3> DEFINE at == Latest(s, n)
      <3>0. Latest(t, n) = at /\ at \in Frames /\ at.msg \in Nat /\ n \in Nat /\ n <= len
        BY <1>1, <1>2 DEF Frames
      <3>1. \A i \in 1..n : t[i] = s[i]
        BY <1>1
      <3>2. /\ \A i \in 1..n : IsData(s[i]) =>
                  /\ s[i].msg >= 1 /\ s[i].msg <= at.msg /\ s[i].part >= 1
                  /\ s[i].msg = at.msg => s[i].part <= at.part
            /\ \A i \in (n + 1)..len : IsData(s[i]) => s[i].msg >= at.msg /\ (at.fin => s[i].msg > at.msg)
            /\ last = at \/ \E i \in (n + 1)..len : IsData(s[i]) /\ last = s[i]
        BY DEF Ordered, len
      <3> HIDE DEF at, last
      <3>3. last.msg >= at.msg /\ (at.fin => last.msg > at.msg \/ last = at)
        BY <3>0, <3>2
      <3>4. IsData(f) => f.msg >= at.msg /\ (at.fin => f.msg > at.msg)
        <4> SUFFICES ASSUME IsData(f) PROVE f.msg >= at.msg /\ (at.fin => f.msg > at.msg)
          OBVIOUS
        <4>1. Continues(last, f)
          BY DEF last, len
        <4>2. CASE last.fin
          BY <1>4, <3>0, <3>3, <4>1, <4>2 DEF Continues
        <4>3. CASE ~last.fin
          BY <1>4, <3>0, <3>3, <4>1, <4>3 DEF Continues
        <4> QED
          BY <4>2, <4>3
      <3>5. \A i \in (n + 1)..(len + 1) : IsData(t[i]) => t[i].msg >= at.msg /\ (at.fin => t[i].msg > at.msg)
        <4>1. \A i \in (n + 1)..(len + 1) : (i \in (n + 1)..len /\ t[i] = s[i]) \/ (i = len + 1 /\ t[i] = f)
          BY <1>1, <3>0
        <4> QED
          BY <3>2, <3>4, <4>1
      <3>6. \/ Latest(t, len + 1) = at
            \/ \E i \in (n + 1)..(len + 1) : IsData(t[i]) /\ Latest(t, len + 1) = t[i]
        <4>1. CASE IsData(f)
          <5>1. len + 1 \in (n + 1)..(len + 1)
            BY <1>1, <3>0
          <5> QED
            BY <1>1, <1>3, <4>1, <5>1
        <4>2. CASE ~IsData(f)
          <5>1. Latest(t, len + 1) = last
            BY <1>3, <4>2
          <5>2. CASE last = at
            BY <5>1, <5>2
          <5>3. ASSUME NEW i \in (n + 1)..len, IsData(s[i]), last = s[i]
                PROVE  i \in (n + 1)..(len + 1) /\ IsData(t[i]) /\ last = t[i]
            BY <1>1, <3>0, <5>3
          <5> QED
            BY <3>2, <5>1, <5>2, <5>3
        <4> QED
          BY <4>1, <4>2
      <3> QED
        BY <1>1, <3>0, <3>1, <3>2, <3>5, <3>6
    <2>2. \A i \in 1..(len + 1) : IsData(t[i]) =>
             LET now == Latest(t, len + 1)
             IN  /\ t[i].msg >= 1 /\ t[i].msg <= now.msg /\ t[i].part >= 1
                 /\ t[i].msg = now.msg => t[i].part <= now.part
      <3>1. \A i \in 1..len : IsData(s[i]) =>
               /\ s[i].msg >= 1 /\ s[i].msg <= last.msg /\ s[i].part >= 1
               /\ s[i].msg = last.msg => s[i].part <= last.part
        BY <1>1 DEF Ordered, len
      <3>2. \A i \in 1..(len + 1) : (i \in 1..len /\ t[i] = s[i]) \/ (i = len + 1 /\ t[i] = f)
        BY <1>1
      <3>3. \A i \in 1..len : s[i].msg \in Nat /\ s[i].part \in Nat
        BY <1>1 DEF Frames
      <3> HIDE DEF last
      <3>4. CASE ~IsData(f)
        BY <1>3, <3>1, <3>2, <3>4
      <3>5. CASE IsData(f)
        <4>1. Continues(last, f)
          BY <3>5 DEF last, len
        <4>2. f.msg >= 1 /\ f.part >= 1 /\ (f.msg = last.msg + 1 \/ (f.msg = last.msg /\ f.part = last.part + 1))
          <5>1. last.fin \/ last.msg >= 1
            <6>1. last = Before \/ \E i \in 1..len : IsData(s[i]) /\ last = s[i]
              BY <1>1, LatestIsFrame DEF last
            <6> QED
              BY <3>1, <6>1 DEF Before
          <5> QED
            BY <1>4, <4>1, <5>1 DEF Continues
        <4>3. ASSUME NEW i \in 1..len, IsData(s[i])
              PROVE  /\ s[i].msg >= 1 /\ s[i].msg <= f.msg /\ s[i].part >= 1
                     /\ s[i].msg = f.msg => s[i].part <= f.part
          <5>1. /\ s[i].msg >= 1 /\ s[i].msg <= last.msg /\ s[i].part >= 1
                /\ s[i].msg = last.msg => s[i].part <= last.part
            BY <3>1, <4>3
          <5> QED
            BY <1>4, <3>3, <4>2, <5>1
        <4> QED
          BY <1>3, <1>4, <3>2, <3>5, <4>2, <4>3
      <3> QED
        BY <3>4, <3>5
    <2> QED
      <3>1. \A n \in 0..(len + 1) : n \in 0..len \/ n = len + 1
        BY <1>1
      <3>2. (len + 2)..(len + 1) = {}
        BY <1>1
      <3>3. Len(t) = len + 1 /\ len + 1 + 1 = len + 2
        BY <1>1
      <3> QED
        BY <2>1, <2>2, <3>1, <3>2, <3>3 DEF Ordered
  <1> QED
    BY <1>5, <1>6 DEF t

-----------------------------------------------------------------------------
(* A message that has ended is not the one in progress, and nothing sent     *)
(* later belongs to it.                                                      *)
LEMMA EndedIsPast ==
  ASSUME NEW s \in Seq(Frames), Numbered(s), Ordered(s), NEW n \in 0..Len(s), NEW m, Ends(s, m, n)
  PROVE  /\ m \in Nat /\ m >= 1 /\ m <= Latest(s, n).msg
         /\ ~Latest(s, n).fin => m < Latest(s, n).msg
         /\ \A i \in (n + 1)..Len(s) : s[i].msg # m
  <1>0. PICK j \in 1..n : IsData(s[j]) /\ s[j].fin /\ s[j].msg = m
    BY DEF Ends
  <1>1. /\ n \in Nat /\ n <= Len(s) /\ Len(s) \in Nat /\ j \in Nat /\ j \in 0..Len(s)
        /\ s[j] \in Frames /\ m \in Nat
    <2>1. n \in Nat /\ n <= Len(s) /\ Len(s) \in Nat /\ j \in Nat /\ j \in 1..Len(s)
      OBVIOUS
    <2>2. s[j] \in Frames
      BY <2>1
    <2>3. s[j].msg \in Nat
      BY <2>2 DEF Frames
    <2> QED
      BY <1>0, <2>1, <2>2, <2>3
  <1>2. Latest(s, j) = s[j]
    <2>1. j \in LastAmong(s, j)
      BY <1>0, <1>1 DEF LastAmong
    <2> QED
      BY <1>1, <2>1, OneLast
  <1>3. m >= 1
    BY <1>0, <1>1, <1>2 DEF Ordered
  <1>4. \A i \in (j + 1)..Len(s) : IsData(s[i]) => s[i].msg > m
    BY <1>0, <1>1, <1>2 DEF Ordered
  <1>5. \A i \in 1..Len(s) : ~IsData(s[i]) => s[i].msg = 0
    BY DEF Numbered
  <1>6. \A i \in (n + 1)..Len(s) : s[i].msg # m
    <2>1. \A i \in (n + 1)..Len(s) : i \in (j + 1)..Len(s) /\ i \in 1..Len(s)
      BY <1>1
    <2>2. \A i \in 1..Len(s) : s[i] \in Frames
      OBVIOUS
    <2>3. \A i \in 1..Len(s) : s[i].msg \in Nat
      BY <2>2 DEF Frames
    <2> QED
      BY <1>1, <1>3, <1>4, <1>5, <2>1, <2>3
  <1>7. Latest(s, n) = s[j] \/ Latest(s, n).msg > m
    <2>1. PICK l \in 1..n : IsData(s[l]) /\ Latest(s, n) = s[l] /\ \A i \in (l + 1)..n : ~IsData(s[i])
      <3>1. Latest(s, n) # Before
        BY <1>0, <1>1, <1>3 DEF Ordered, Before
      <3> QED
        BY <1>1, <3>1, LatestIsFrame
    <2>2. l \in Nat /\ ~(j \in (l + 1)..n)
      BY <1>0, <2>1
    <2>3. l = j \/ l \in (j + 1)..Len(s)
      BY <1>1, <2>1, <2>2
    <2> QED
      BY <1>4, <2>1, <2>3
  <1>8. m <= Latest(s, n).msg /\ Latest(s, n) \in Frames
    BY <1>0, <1>1, LatestTyped DEF Ordered
  <1>9. ~Latest(s, n).fin => m < Latest(s, n).msg
    BY <1>0, <1>1, <1>7, <1>8 DEF Frames
  <1> QED
    BY <1>1, <1>3, <1>6, <1>8, <1>9

(* What is in hand, and what has been handed on, do not change as the server *)
(* sends more: nothing it sends belongs to a message that has ended.         *)
LEMMA SendingKeeps ==
  ASSUME NEW s \in Seq(Frames), Numbered(s), Ordered(s), NEW n \in 0..Len(s), NEW f \in Frames,
         IF IsData(f) THEN Continues(Latest(s, Len(s)), f) ELSE f.msg = 0,
         NEW frag, InHand(s, n, frag), NEW handed, Handed(s, n, handed)
  PROVE  InHand(Append(s, f), n, frag) /\ Handed(Append(s, f), n, handed)
  <1> DEFINE t == Append(s, f)  len == Len(s)
  <1>1. /\ n \in Nat /\ n <= len /\ len \in Nat /\ Len(t) = len + 1 /\ t \in Seq(Frames)
        /\ \A i \in 1..len : t[i] = s[i]
    OBVIOUS
  <1>2. Numbered(t) /\ Ordered(t)
    BY StreamGrows
  <1> HIDE DEF t
  <1>3. \A i \in 1..n : t[i] = s[i] /\ \A h \in 1..i : t[h] = s[h]
    BY <1>1
  <1>4. Latest(t, n) = Latest(s, n)
    BY <1>1, <1>3, LatestSame
  <1>5. \A m : IsIq(t, m, n) <=> IsIq(s, m, n)
    BY <1>3 DEF IsIq
  <1>6. \A m : Ends(t, m, n) <=> Ends(s, m, n)
    <2>1. \A m, j : j \in 1..n => (IsIq(t, m, j) <=> IsIq(s, m, j))
      BY <1>3 DEF IsIq
    <2> QED
      BY <1>3, <2>1 DEF Ends
  <1>7. InHand(t, n, frag)
    BY <1>4, <1>5 DEF InHand
  <1>8. ASSUME NEW k \in 1..Len(handed) PROVE WholeOf(t, n, handed[k])
    <2>1. WholeOf(s, n, handed[k])
      BY DEF Handed
    <2> DEFINE m == handed[k][1].msg
    <2>2. Ends(t, m, n)
      BY <1>6, <2>1 DEF WholeOf
    <2>3. n \in 0..Len(t)
      BY <1>1
    <2> HIDE DEF m
    <2>4. \A i \in (n + 1)..Len(t) : t[i].msg # m
      BY <1>1, <1>2, <2>2, <2>3, EndedIsPast
    <2>5. t[len + 1].msg # m
      BY <1>1, <2>4
    <2>6. \A i \in 1..Len(t) : (i \in 1..len /\ t[i] = s[i]) \/ i = len + 1
      BY <1>1
    <2> QED
      BY <2>1, <2>2, <2>5, <2>6 DEF WholeOf, m
  <1>9. Handed(t, n, handed)
    BY <1>6, <1>8 DEF Handed
  <1> QED
    BY <1>7, <1>9 DEF t

(* A control frame between the fragments changes nothing. *)
LEMMA ControlKeeps ==
  ASSUME NEW s \in Seq(Frames), NEW n \in Nat, n + 1 <= Len(s), ~IsData(s[n + 1]),
         NEW frag, InHand(s, n, frag), NEW handed, Handed(s, n, handed)
  PROVE  InHand(s, n + 1, frag) /\ Handed(s, n + 1, handed)
  <1>1. Latest(s, n + 1) = Latest(s, n)
    BY LatestStep
  <1>2. \A i \in 1..(n + 1) : i \in 1..n \/ i = n + 1
    OBVIOUS
  <1>3. 1..n \subseteq 1..(n + 1)
    OBVIOUS
  <1>4. \A m : IsIq(s, m, n + 1) <=> IsIq(s, m, n)
    <2>1. s[n + 1].op # "iq"
      BY DEF IsData, Kinds
    <2> QED
      BY <1>2, <1>3, <2>1 DEF IsIq
  <1>5. \A m : Ends(s, m, n + 1) <=> Ends(s, m, n)
    BY <1>2, <1>3 DEF Ends
  <1>6. InHand(s, n + 1, frag)
    BY <1>1, <1>4 DEF InHand
  <1>7. Handed(s, n + 1, handed)
    BY <1>5 DEF Handed, WholeOf
  <1> QED
    BY <1>6, <1>7

(* What is in hand of a message once its next frame is counted in. *)
KindWith(frag, f) == IF f.op \in Kinds THEN f.op ELSE frag.kind

PartsWith(frag, f) == IF f.op \in Kinds THEN <<Payload(f)>> ELSE Append(frag.parts, Payload(f))

(* A data frame is the next part of the one message that is in hand, and a   *)
(* continuation never comes without a start.                                 *)
LEMMA DataFrame ==
  ASSUME NEW s \in Seq(Frames), Numbered(s), Ordered(s), NEW n \in Nat, n + 1 <= Len(s), IsData(s[n + 1]),
         NEW frag, InHand(s, n, frag)
  PROVE  LET f == s[n + 1]
         IN  /\ PartsWith(frag, f) = Parts(f) /\ f.part >= 1 /\ f.msg >= 1
             /\ KindWith(frag, f) \in Kinds
             /\ KindWith(frag, f) = "iq" <=> IsIq(s, f.msg, n + 1)
             /\ f.op \in Kinds \/ frag # NoFragment
  <1> DEFINE f == s[n + 1]  last == Latest(s, n)
  <1>1. /\ n \in 0..Len(s) /\ n + 1 \in 1..Len(s) /\ n + 1 \in 0..Len(s) /\ n + 1 \in 1..(n + 1)
        /\ last \in Frames /\ f \in Frames
    <2>1. n \in 0..Len(s) /\ n + 1 \in 1..Len(s) /\ n + 1 \in 0..Len(s) /\ n + 1 \in 1..(n + 1)
      OBVIOUS
    <2> QED
      BY <2>1, LatestTyped
  <1>2. last.msg \in Nat /\ last.part \in Nat /\ f.msg \in Nat /\ f.part \in Nat
    BY <1>1 DEF Frames
  <1>3. Continues(last, f)
    <2>1. (n + 1) - 1 = n
      OBVIOUS
    <2> QED
      BY <1>1, <2>1 DEF Numbered
  <1>4. f.part >= 1 /\ f.msg >= 1
    BY <1>1 DEF Ordered
  <1>5. \A h \in 1..n : s[h].op = "iq" => s[h].msg <= last.msg
    BY <1>1 DEF Ordered, IsData, Kinds
  <1>6. \A h \in 1..(n + 1) : h \in 1..n \/ h = n + 1
    OBVIOUS
  <1>7. 1..n \subseteq 1..(n + 1)
    OBVIOUS
  <1>8. CASE last.fin
    <2>1. f.op \in Kinds /\ f.msg = last.msg + 1 /\ f.part = 1
      BY <1>3, <1>8 DEF Continues
    <2>2. IsIq(s, f.msg, n + 1) <=> f.op = "iq"
      <3>1. \A h \in 1..n : s[h].op = "iq" => s[h].msg # f.msg
        <4>1. \A h \in 1..n : s[h].msg \in Nat
          <5>1. \A h \in 1..n : s[h] \in Frames
            BY <1>1
          <5> QED
            BY <5>1 DEF Frames
        <4> HIDE DEF f, last
        <4> QED
          BY <1>2, <1>5, <2>1, <4>1
      <3> QED
        BY <1>1, <1>6, <3>1 DEF IsIq
    <2>3. <<Payload(f)>> = Parts(f)
      BY <1>2, <2>1 DEF Payload, Parts
    <2> QED
      BY <1>4, <2>1, <2>2, <2>3 DEF KindWith, PartsWith
  <1>9. CASE ~last.fin
    <2>1. f.op = "more" /\ f.msg = last.msg /\ f.part = last.part + 1
      BY <1>3, <1>9 DEF Continues
    <2>2. frag.kind \in Kinds /\ frag.parts = Parts(last) /\ (frag.kind = "iq" <=> IsIq(s, last.msg, n))
      BY <1>9 DEF InHand
    <2>3. IsIq(s, f.msg, n + 1) <=> IsIq(s, last.msg, n)
      BY <1>6, <1>7, <2>1 DEF IsIq
    <2>4. Append(Parts(last), Payload(f)) = Parts(f)
      <3> HIDE DEF f, last
      <3>1. Parts(last) \in Seq(Pieces) /\ Len(Parts(last)) = last.part
        <4>1. \A k \in 1..last.part : [msg |-> last.msg, part |-> k] \in Pieces
          BY <1>2 DEF Pieces
        <4>2. Parts(last) \in [1..last.part -> Pieces]
          BY <4>1 DEF Parts
        <4> QED
          BY <1>2, <4>2
      <3>2. Payload(f) = [msg |-> f.msg, part |-> f.part]
        BY DEF Payload
      <3> QED
        BY <1>2, <2>1, <3>1, <3>2 DEF Parts
    <2>5. f.op \notin Kinds /\ frag # NoFragment
      BY <2>1, <2>2 DEF Kinds, NoFragment
    <2> QED
      BY <1>4, <2>1, <2>2, <2>3, <2>4, <2>5 DEF KindWith, PartsWith
  <1> QED
    BY <1>8, <1>9

(* After it, a message that is not over is in hand, and an IQ message that is *)
(* over is handed on.                                                        *)
LEMMA DataKeeps ==
  ASSUME NEW s \in Seq(Frames), Numbered(s), Ordered(s), NEW n \in Nat, n + 1 <= Len(s), IsData(s[n + 1]),
         NEW frag, InHand(s, n, frag), NEW handed \in Seq(Seq(Pieces)), Handed(s, n, handed),
         NEW kind, kind = KindWith(frag, s[n + 1]), NEW parts, parts = PartsWith(frag, s[n + 1])
  PROVE  /\ ~s[n + 1].fin => InHand(s, n + 1, [kind |-> kind, parts |-> parts])
         /\ s[n + 1].fin => InHand(s, n + 1, NoFragment)
         /\ ~s[n + 1].fin \/ kind # "iq" => Handed(s, n + 1, handed)
         /\ s[n + 1].fin /\ kind = "iq" => Handed(s, n + 1, Append(handed, parts))
  <1> DEFINE f == s[n + 1]
  <1>1. Latest(s, n + 1) = f
    BY LatestStep
  <1>2. /\ parts = Parts(f) /\ kind \in Kinds /\ (kind = "iq" <=> IsIq(s, f.msg, n + 1))
        /\ f.part >= 1 /\ f.msg >= 1
    BY DataFrame
  <1>3. (\A i \in 1..(n + 1) : i \in 1..n \/ i = n + 1) /\ 1..n \subseteq 1..(n + 1) /\ n + 1 \in 1..(n + 1)
    OBVIOUS
  <1>4. ASSUME NEW m
        PROVE  Ends(s, m, n + 1) <=> Ends(s, m, n) \/ (f.fin /\ m = f.msg /\ kind = "iq")
    BY <1>2, <1>3 DEF Ends
  <1>5. /\ ~f.fin => InHand(s, n + 1, [kind |-> kind, parts |-> parts])
        /\ f.fin => InHand(s, n + 1, NoFragment)
    BY <1>1, <1>2 DEF InHand
  <1>6. ~f.fin \/ kind # "iq" => Handed(s, n + 1, handed)
    BY <1>4 DEF Handed, WholeOf
  <1>7. ASSUME f.fin, kind = "iq" PROVE Handed(s, n + 1, Append(handed, parts))
    <2> DEFINE more == Append(handed, parts)  len == Len(handed)
    <2>1. /\ len \in Nat /\ Len(more) = len + 1 /\ more[len + 1] = parts
          /\ \A k \in 1..len : more[k] = handed[k]
      OBVIOUS
    <2>2. /\ f \in Frames /\ f.msg \in Nat /\ f.part \in Nat /\ n \in 0..Len(s) /\ n + 1 \in 0..Len(s)
          /\ n + 1 \in 1..Len(s) /\ Latest(s, n) \in Frames /\ Latest(s, n).msg \in Nat
      <3>1. n \in 0..Len(s) /\ n + 1 \in 0..Len(s) /\ n + 1 \in 1..Len(s)
        OBVIOUS
      <3>2. f \in Frames /\ Latest(s, n) \in Frames
        BY <3>1, LatestTyped
      <3> QED
        BY <3>1, <3>2 DEF Frames
    <2>3. Len(parts) = f.part /\ parts[1].msg = f.msg /\ \A k \in 1..f.part : parts[k] = [msg |-> f.msg, part |-> k]
      BY <1>2, <2>2 DEF Parts
    <2> HIDE DEF more, len
    <2>4. WholeOf(s, n + 1, parts)
      <3>1. Ends(s, f.msg, n + 1)
        BY <1>4, <1>7
      <3>2. ASSUME NEW i \in 1..Len(s), s[i].msg = f.msg PROVE s[i].part <= f.part
        <4>1. IsData(s[i])
          BY <1>2, <3>2 DEF Numbered
        <4>2. CASE i \in 1..(n + 1)
          BY <1>1, <2>2, <3>2, <4>1, <4>2 DEF Ordered
        <4>3. CASE i \in (n + 2)..Len(s)
          <5>1. s[i].msg > f.msg
            <6>1. i \in ((n + 1) + 1)..Len(s)
              BY <4>3
            <6> QED
              BY <1>1, <1>7, <2>2, <4>1, <6>1 DEF Ordered
          <5> QED
            BY <2>2, <3>2, <5>1
        <4>4. i \in 1..(n + 1) \/ i \in (n + 2)..Len(s)
          OBVIOUS
        <4> QED
          BY <4>2, <4>3, <4>4
      <3> QED
        BY <2>3, <3>1, <3>2 DEF WholeOf
    <2>5. \A k \in 1..len : WholeOf(s, n + 1, handed[k])
      BY <1>4 DEF Handed, WholeOf, len
    <2>6. \A k \in 1..len : handed[k][1].msg < f.msg
      <3> TAKE k \in 1..len
      <3> DEFINE m == handed[k][1].msg
      <3>1. Ends(s, m, n)
        BY DEF Handed, WholeOf, len
      <3> HIDE DEF m
      <3>2. m \in Nat /\ m <= Latest(s, n).msg /\ (~Latest(s, n).fin => m < Latest(s, n).msg)
        BY <2>2, <3>1, EndedIsPast
      <3>3. Continues(Latest(s, n), f)
        <4>1. (n + 1) - 1 = n
          OBVIOUS
        <4> QED
          BY <2>2, <4>1 DEF Numbered
      <3>4. m < f.msg
        BY <2>2, <3>2, <3>3 DEF Continues
      <3> QED
        BY <3>4 DEF m
    <2>7. \A k \in 1..(len + 1) : k \in 1..len \/ k = len + 1
      BY <2>1
    <2>8. \A k \in 1..(len + 1) : WholeOf(s, n + 1, more[k])
      BY <2>1, <2>4, <2>5, <2>7
    <2>9. \A j, k \in 1..(len + 1) : j < k => more[j][1].msg < more[k][1].msg
      <3> SUFFICES ASSUME NEW j \in 1..(len + 1), NEW k \in 1..(len + 1), j < k
                   PROVE  more[j][1].msg < more[k][1].msg
        OBVIOUS
      <3>1. j \in 1..len
        BY <2>1
      <3>2. CASE k \in 1..len
        BY <2>1, <3>1, <3>2 DEF Handed, len
      <3>3. CASE k = len + 1
        BY <2>1, <2>3, <2>6, <3>1, <3>3
      <3> QED
        BY <2>7, <3>2, <3>3
    <2>10. ASSUME NEW m \in Nat, Ends(s, m, n + 1) PROVE \E k \in 1..(len + 1) : more[k][1].msg = m
      <3>1. CASE Ends(s, m, n)
        <4>1. PICK k \in 1..len : handed[k][1].msg = m
          BY <3>1 DEF Handed, len
        <4> QED
          BY <2>1, <4>1
      <3>2. CASE m = f.msg
        BY <2>1, <2>3, <3>2
      <3> QED
        BY <1>4, <2>10, <3>1, <3>2
    <2>11. Handed(s, n + 1, more)
      BY <2>1, <2>8, <2>9, <2>10 DEF Handed
    <2> QED
      BY <2>11 DEF more
  <1> QED
    BY <1>5, <1>6, <1>7

-----------------------------------------------------------------------------
MessageInv ==
    /\ Numbered(sent) /\ Ordered(sent)
    /\ InHand(sent, parsed, fragment) /\ Handed(sent, parsed, delivered)

LEMMA MessageInit == Init => MessageInv
  <1> SUFFICES ASSUME Init PROVE MessageInv
    OBVIOUS
  <1>1. sent = <<>> /\ Len(sent) = 0 /\ delivered = <<>> /\ Len(delivered) = 0 /\ parsed = 0 /\ fragment = NoFragment
    BY DEF Init
  <1>2. Latest(sent, 0) = Before
    BY LatestNone
  <1>3. Numbered(sent)
    BY <1>1 DEF Numbered
  <1>4. Ordered(sent)
    BY <1>1 DEF Ordered
  <1>5. InHand(sent, parsed, fragment)
    BY <1>1, <1>2 DEF InHand, Before
  <1>6. Handed(sent, parsed, delivered)
    BY <1>1 DEF Handed, Ends
  <1> QED
    BY <1>3, <1>4, <1>5, <1>6 DEF MessageInv

LEMMA ServerSendsKeeps == IInv /\ MessageInv /\ ServerSends => MessageInv'
  <1> SUFFICES ASSUME IInv, MessageInv, ServerSends PROVE MessageInv'
    OBVIOUS
  <1>1. PICK f \in Sendable : sent' = Append(sent, f)
    BY DEF ServerSends
  <1>2. UNCHANGED <<parsed, fragment, delivered>>
    BY DEF ServerSends, readVars
  <1>3. f \in Frames /\ sent \in Seq(Frames) /\ parsed \in 0..Len(sent)
    BY SendableTyped DEF IInv, TypeOK
  <1>4. IF IsData(f) THEN Continues(Latest(sent, Len(sent)), f) ELSE f.msg = 0
    BY SendableContinues
  <1>5. Numbered(Append(sent, f)) /\ Ordered(Append(sent, f))
    BY <1>3, <1>4, StreamGrows DEF MessageInv
  <1>6. InHand(Append(sent, f), parsed, fragment) /\ Handed(Append(sent, f), parsed, delivered)
    BY <1>3, <1>4, SendingKeeps DEF MessageInv
  <1> QED
    BY <1>1, <1>2, <1>5, <1>6 DEF MessageInv

LEMMA FrameKeeps == IInv /\ MessageInv /\ (ControlFrame \/ FirstFrame \/ Continuation) => MessageInv'
  <1> SUFFICES ASSUME IInv, MessageInv, ControlFrame \/ FirstFrame \/ Continuation PROVE MessageInv'
    OBVIOUS
  <1>1. parsed < received /\ parsed' = parsed + 1 /\ sent' = sent
    BY DEF ControlFrame, FirstFrame, Continuation, serverVars
  <1>2. /\ sent \in Seq(Frames) /\ parsed \in Nat /\ parsed + 1 <= Len(sent)
        /\ delivered \in Seq(Seq(Pieces)) /\ fragment \in [kind : Kinds \cup {"none"}, parts : Seq(Pieces)]
    BY <1>1 DEF IInv, TypeOK
  <1>3. CASE ControlFrame
    <2>1. ~IsData(sent[parsed + 1]) /\ UNCHANGED <<fragment, delivered>>
      BY <1>3 DEF ControlFrame, Frame
    <2>2. InHand(sent, parsed + 1, fragment) /\ Handed(sent, parsed + 1, delivered)
      BY <1>2, <2>1, ControlKeeps DEF MessageInv
    <2> QED
      BY <1>1, <2>1, <2>2 DEF MessageInv
  <1>4. CASE FirstFrame \/ Continuation
    <2> DEFINE kind == KindWith(fragment, Frame)  parts == PartsWith(fragment, Frame)
    <2>1. IsData(Frame)
      BY <1>4 DEF FirstFrame, Continuation, IsData
    <2>2. /\ ~Frame.fin => InHand(sent, parsed + 1, [kind |-> kind, parts |-> parts])
          /\ Frame.fin => InHand(sent, parsed + 1, NoFragment)
          /\ ~Frame.fin \/ kind # "iq" => Handed(sent, parsed + 1, delivered)
          /\ Frame.fin /\ kind = "iq" => Handed(sent, parsed + 1, Append(delivered, parts))
      BY <1>2, <2>1, DataKeeps DEF MessageInv, Frame
    <2>3. Frame.op \in Kinds \/ fragment # NoFragment
      BY <1>2, <2>1, DataFrame DEF MessageInv, Frame
    <2>4. /\ ~Frame.fin => fragment' = [kind |-> kind, parts |-> parts]
          /\ Frame.fin => fragment' = NoFragment
          /\ ~Frame.fin \/ kind # "iq" => delivered' = delivered
          /\ Frame.fin /\ kind = "iq" => delivered' = Append(delivered, parts)
      <3>1. CASE FirstFrame
        <4>1. Frame.op \in Kinds
          BY <3>1 DEF FirstFrame
        <4>2. kind = Frame.op /\ parts = <<Payload(Frame)>>
          BY <4>1 DEF KindWith, PartsWith
        <4>3. Latest(sent, parsed).fin
          <5>1. Continues(Latest(sent, parsed), Frame)
            <6>1. parsed + 1 \in 1..Len(sent) /\ (parsed + 1) - 1 = parsed
              BY <1>2
            <6> QED
              BY <2>1, <6>1 DEF MessageInv, Numbered, Frame
          <5> QED
            BY <4>1, <5>1 DEF Continues, Kinds
        <4>4. fragment = NoFragment
          BY <4>3 DEF MessageInv, InHand
        <4> QED
          BY <3>1, <4>2, <4>4 DEF FirstFrame, Deliver
      <3>2. CASE Continuation
        <4>1. Frame.op \notin Kinds
          BY <3>2 DEF Continuation, Kinds
        <4>2. kind = fragment.kind /\ parts = Append(fragment.parts, Payload(Frame)) /\ fragment # NoFragment
          BY <2>3, <4>1 DEF KindWith, PartsWith
        <4>3. [fragment EXCEPT !.parts = parts] = [kind |-> kind, parts |-> parts]
          <5>1. \A p : [fragment EXCEPT !.parts = p] = [kind |-> fragment.kind, parts |-> p]
            BY <1>2
          <5> QED
            BY <4>2, <5>1
        <4> QED
          BY <3>2, <4>2, <4>3 DEF Continuation, Deliver
      <3> QED
        BY <1>4, <3>1, <3>2
    <2> QED
      BY <1>1, <2>2, <2>4 DEF MessageInv
  <1> QED
    BY <1>3, <1>4

(* No other step of main, of the read thread or of the server touches the    *)
(* stream or what has been made of it.                                       *)
LEMMA RestKeeps ==
  MessageInv /\ [Next]_vars => ServerSends \/ ControlFrame \/ FirstFrame \/ Continuation \/ MessageInv'
  <1> SUFFICES ASSUME MessageInv, [Next]_vars, ~(ServerSends \/ ControlFrame \/ FirstFrame \/ Continuation)
               PROVE  MessageInv'
    OBVIOUS
  <1> USE DEF serverVars, sockVars, mainVars, readVars
  <1>1. CASE ServerStep
    BY <1>1 DEF ServerStep, Replies, ServerSends, ServerReads, ServerLeaves, MessageInv
  <1>2. CASE ConnectStep
    BY <1>2 DEF ConnectStep, DialFails, Dial, UpgradeFails, UpgradeOk, SendSetting, SettingFails, StartReading, MessageInv
  <1>3. CASE BeginClose \/ CloseStep
    BY <1>3 DEF CloseStep, BeginClose, CloseFrame, Shutdown, Join, Destroy, MessageInv
  <1>4. CASE ReadStep
    BY <1>4 DEF ReadStep, Recv, RecvEnds, Pong, CallbackEnds, BufferDone, CloseFd, ClearFd, MessageInv
  <1>5. CASE UNCHANGED vars
    BY <1>5 DEF vars, MessageInv
  <1> QED
    BY <1>1, <1>2, <1>3, <1>4, <1>5 DEF Next

LEMMA MessagesHanded == MessageInv /\ TypeOK => MessagesWhole
  <1> SUFFICES ASSUME MessageInv, TypeOK PROVE MessagesWhole
    OBVIOUS
  <1>1. \A m : m \in Complete <=> Ends(sent, m, parsed)
    BY DEF Complete, Ends, IsIq
  <1>2. \A m \in Complete : m \in Nat
    <2>1. \A j \in 1..parsed : sent[j] \in Frames
      BY DEF TypeOK
    <2> QED
      BY <2>1 DEF Complete, Frames
  <1>3. \A k \in 1..Len(delivered) : Whole(delivered[k])
    BY <1>1 DEF MessageInv, Handed, WholeOf, Whole
  <1>4. \A m \in Complete : \E k \in 1..Len(delivered) : delivered[k][1].msg = m
    BY <1>1, <1>2 DEF MessageInv, Handed
  <1> QED
    BY <1>3, <1>4 DEF MessageInv, Handed, MessagesWhole

(* onIq_ gets every IQ message of the server whole, once and in order,       *)
(* whatever it sends, however it is cut, and however many frames it sends.   *)
THEOREM MessagesDelivered == Spec => []MessagesWhole
  <1>1. IInv /\ MessageInv /\ [Next]_vars => MessageInv'
    BY ServerSendsKeeps, FrameKeeps, RestKeeps
  <1>2. IInv /\ MessageInv => MessagesWhole
    BY MessagesHanded DEF IInv
  <1>3. Init => MessageInv
    BY MessageInit
  <1> QED
    BY <1>1, <1>2, <1>3, Invariance, PTL DEF Spec
=============================================================================
