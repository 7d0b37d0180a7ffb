---------------------------- MODULE FramingProofs ----------------------------
(* Proofs about Framing, for every header, every body and every cutting. *)
EXTENDS Framing, SequenceTheorems, TLAPS

(* Where command k ends, and where the one after the first h begins. *)
EndOf(k)    == starts[k] + HeaderBytes + bodies[k]
StartPos(h) == IF h < Len(bodies) THEN starts[h + 1] ELSE sent

(* The client's commands follow each other without gaps. *)
Layout ==
    /\ StartPos(0) = 0
    /\ \A k \in 1..Len(bodies) : EndOf(k) = StartPos(k) /\ EndOf(k) <= sent
    /\ \A j, k \in 1..Len(bodies) : j < k => EndOf(j) <= starts[k]

(* The parser is at the start of the first command it has not handled. *)
Cursor == HandledInOrder /\ erased + offset = StartPos(Len(handled))

(* What is kept while recv() waits is less than one command. *)
Kept == pc = "recv" => offset = 0 /\ received - erased < HeaderBytes + MaxBody

Command == [at : Nat, body : Nat]

Types ==
    /\ bodies \in Seq(Bodies) /\ starts \in Seq(Nat) /\ Len(starts) = Len(bodies)
    /\ handled \in Seq(Command)
    /\ sent \in Nat /\ received \in Nat /\ received <= sent
    /\ erased \in Nat /\ offset \in Nat /\ erased + offset <= received
    /\ gone \in BOOLEAN /\ pc \in {"recv", "parse", "done"}

IInv == Types /\ Layout /\ Cursor /\ Kept /\ NothingWholeWaits /\ BufferBounded

LEMMA TypesOK == Types <=> TypeOK
  BY DEF Types, TypeOK, Command

LEMMA Numbers ==
  ASSUME Types
  PROVE  /\ HeaderBytes \in Nat /\ HeaderBytes > 0 /\ MaxBody \in Nat /\ ChunkBytes \in Nat /\ ChunkBytes > 0
         /\ Len(bodies) \in Nat /\ Len(starts) = Len(bodies) /\ Len(handled) \in Nat
         /\ \A k \in 1..Len(bodies) : bodies[k] \in Bodies /\ bodies[k] \in Nat /\ starts[k] \in Nat
         /\ sent \in Nat /\ received \in Nat /\ erased \in Nat /\ offset \in Nat
         /\ received <= sent /\ erased + offset <= received
  <1>1. /\ HeaderBytes \in Nat /\ HeaderBytes > 0 /\ MaxBody \in Nat /\ ChunkBytes \in Nat /\ ChunkBytes > 0
        /\ Bodies \subseteq Nat
    BY FramingAssumption
  <1>2. Len(bodies) \in Nat /\ \A k \in 1..Len(bodies) : bodies[k] \in Bodies
    BY DEF Types
  <1>3. Len(starts) = Len(bodies) /\ \A k \in 1..Len(starts) : starts[k] \in Nat
    BY DEF Types
  <1>4. Len(handled) \in Nat
    BY DEF Types
  <1> QED
    BY <1>1, <1>2, <1>3, <1>4 DEF Types

LEMMA InitInv == Init => IInv
  <1> SUFFICES ASSUME Init PROVE IInv
    OBVIOUS
  <1>1. HeaderBytes \in Nat /\ HeaderBytes > 0 /\ MaxBody \in Nat /\ ChunkBytes \in Nat /\ ChunkBytes > 0
    BY FramingAssumption
  <1>2. Len(bodies) = 0 /\ Len(handled) = 0 /\ Len(starts) = 0
    BY DEF Init
  <1>3. Types
    <2>1. <<>> \in Seq(Bodies) /\ <<>> \in Seq(Nat) /\ <<>> \in Seq(Command)
      OBVIOUS
    <2>2. gone \in BOOLEAN /\ pc \in {"recv", "parse", "done"}
      BY DEF Init
    <2>3. sent \in Nat /\ received \in Nat /\ received <= sent /\ erased \in Nat /\ offset \in Nat
          /\ erased + offset <= received
      BY DEF Init
    <2>4. bodies \in Seq(Bodies) /\ starts \in Seq(Nat) /\ handled \in Seq(Command)
      BY <2>1 DEF Init
    <2> QED
      BY <1>2, <2>2, <2>3, <2>4 DEF Types
  <1>4. Layout /\ Cursor /\ NothingWholeWaits
    BY <1>2 DEF Init, Layout, Cursor, StartPos, HandledInOrder, NothingWholeWaits
  <1>5. Kept /\ BufferBounded
    BY <1>1 DEF Init, Kept, BufferBounded
  <1> QED
    BY <1>3, <1>4, <1>5 DEF IInv

(* A command the client sends comes after all others. *)
LEMMA SendInv == IInv /\ (\E b \in Bodies : ClientSends(b)) => IInv'
  <1> SUFFICES ASSUME IInv, NEW b \in Bodies, ClientSends(b) PROVE IInv'
    OBVIOUS
  <1>z. Types
    BY DEF IInv
  <1>n. PICK n \in Nat : n = Len(bodies)
    BY <1>z, Numbers
  <1>0. /\ b \in Nat /\ n \in Nat /\ sent \in Nat /\ HeaderBytes \in Nat /\ HeaderBytes > 0
        /\ \A k \in 1..n : bodies[k] \in Nat /\ starts[k] \in Nat
        /\ UNCHANGED <<gone, received, erased, offset, handled, pc>>
    BY <1>z, <1>n, Numbers, FramingAssumption DEF ClientSends
  <1>1. /\ bodies' \in Seq(Bodies) /\ starts' \in Seq(Nat)
        /\ Len(bodies') = n + 1 /\ Len(starts') = n + 1
        /\ sent' = sent + HeaderBytes + b
        /\ bodies'[n + 1] = b /\ starts'[n + 1] = sent
        /\ \A k \in 1..n : bodies'[k] = bodies[k] /\ starts'[k] = starts[k]
    BY <1>0, <1>n, <1>z DEF Types, ClientSends
  <1>2. Types'
    BY <1>0, <1>1 DEF IInv, Types
  <1>3. /\ EndOf(n + 1)' = sent' /\ sent <= sent'
        /\ \A k \in 1..n : EndOf(k)' = EndOf(k) /\ EndOf(k) \in Nat
    BY <1>0, <1>1 DEF EndOf
  <1>4. \A h \in 0..n : StartPos(h)' = StartPos(h)
    BY <1>0, <1>1, <1>n DEF StartPos
  <1>5. StartPos(n + 1)' = sent'
    BY <1>0, <1>1, <1>n DEF StartPos
  <1>6. Layout'
    <2>1. StartPos(0)' = 0
      BY <1>0, <1>4 DEF IInv, Layout
    <2>2. ASSUME NEW k \in 1..Len(bodies') PROVE EndOf(k)' = StartPos(k)' /\ EndOf(k)' <= sent'
      <3>1. CASE k = n + 1
        BY <1>0, <1>1, <1>n, <3>1 DEF EndOf, StartPos
      <3>2. CASE k \in 1..n
        <4>1. EndOf(k) = StartPos(k) /\ EndOf(k) <= sent
          BY <1>n, <3>2 DEF IInv, Layout
        <4>2. EndOf(k)' = EndOf(k) /\ EndOf(k) \in Nat /\ StartPos(k)' = StartPos(k) /\ sent <= sent'
          BY <1>3, <1>4, <3>2
        <4>3. sent' \in Nat
          BY <1>0, <1>1
        <4>4. EndOf(k)' <= sent'
          BY <1>0, <4>1, <4>2, <4>3
        <4>5. EndOf(k)' = StartPos(k)'
          BY <4>1, <4>2
        <4> QED
          BY <4>4, <4>5
      <3> QED
        BY <1>0, <1>1, <2>2, <3>1, <3>2
    <2>3. ASSUME NEW j \in 1..Len(bodies'), NEW k \in 1..Len(bodies'), j < k PROVE EndOf(j)' <= starts'[k]
      <3>1. j \in 1..n /\ EndOf(j) <= sent
        BY <1>0, <1>1, <1>n, <2>3 DEF IInv, Layout
      <3>2. CASE k = n + 1
        BY <1>1, <1>3, <3>1, <3>2
      <3>3. CASE k \in 1..n
        BY <1>1, <1>3, <1>n, <2>3, <3>1, <3>3 DEF IInv, Layout
      <3> QED
        BY <1>0, <1>1, <2>3, <3>2, <3>3
    <2> QED
      BY <2>1, <2>2, <2>3 DEF Layout
  <1>7. Cursor'
    <2>1. Len(handled) \in 0..n
      BY <1>0, <1>n DEF IInv, Types, Cursor, HandledInOrder
    <2>2. HandledInOrder'
      <3>1. \A k \in 1..Len(handled) : k \in 1..n /\ handled[k] = [at |-> starts[k], body |-> bodies[k]]
        BY <1>n, <2>1 DEF IInv, Cursor, HandledInOrder
      <3> QED
        BY <1>0, <1>1, <2>1, <3>1 DEF HandledInOrder
    <2>3. PICK h \in 0..n : h = Len(handled)
      BY <2>1
    <2>4. h = Len(handled') /\ StartPos(h)' = StartPos(h)
      BY <1>0, <1>4, <2>3
    <2> QED
      BY <1>0, <2>2, <2>3, <2>4 DEF IInv, Cursor
  <1>8. NothingWholeWaits'
    <2> SUFFICES ASSUME pc = "recv", NEW k \in (Len(handled) + 1)..(n + 1), bodies'[k] <= MaxBody
                 PROVE  starts'[k] + HeaderBytes + bodies'[k] > received
      BY <1>0, <1>1 DEF NothingWholeWaits
    <2>1. Len(handled) \in Nat /\ received \in Nat /\ received <= sent
      BY Numbers DEF IInv
    <2>2. CASE k = n + 1
      BY <1>0, <1>1, <2>1, <2>2
    <2>3. CASE k \in (Len(handled) + 1)..n
      <3>1. bodies'[k] = bodies[k] /\ starts'[k] = starts[k]
        BY <1>1, <2>1, <2>3
      <3> QED
        BY <1>n, <2>3, <3>1 DEF IInv, NothingWholeWaits
    <2> QED
      BY <1>0, <2>1, <2>2, <2>3
  <1>9. Kept' /\ BufferBounded'
    BY <1>0 DEF IInv, Kept, BufferBounded
  <1> QED
    BY <1>2, <1>6, <1>7, <1>8, <1>9 DEF IInv

(* With a header's bytes there, the parser reads the length the client      *)
(* wrote, since it is at the start of a command and of no other.             *)
LEMMA HeaderRead ==
  ASSUME IInv, Unparsed >= HeaderBytes, NEW b \in BodySizeAt(erased + offset)
  PROVE  /\ Len(handled) + 1 \in 1..Len(bodies)
         /\ erased + offset = starts[Len(handled) + 1]
         /\ b = bodies[Len(handled) + 1]
  <1>0. Len(handled) \in Nat /\ Len(bodies) \in Nat /\ Len(handled) <= Len(bodies) /\ Len(starts) = Len(bodies)
    BY Numbers DEF IInv, Cursor, HandledInOrder
  <1>1. erased + offset < sent
    BY Numbers DEF IInv, Unparsed
  <1>2. Len(handled) < Len(bodies) /\ erased + offset = starts[Len(handled) + 1]
    BY <1>0, <1>1 DEF IInv, Cursor, StartPos, Types
  <1>3. ASSUME NEW k \in 1..Len(bodies), starts[k] = starts[Len(handled) + 1] PROVE k = Len(handled) + 1
    <2>1. HeaderBytes \in Nat /\ HeaderBytes > 0 /\ \A i \in 1..Len(bodies) : bodies[i] \in Nat /\ starts[i] \in Nat
      BY Numbers DEF IInv
    <2>2. \A i, j \in 1..Len(bodies) : i < j => starts[i] < starts[j]
      BY <1>0, <2>1 DEF IInv, Layout, EndOf
    <2> QED
      BY <1>0, <1>2, <1>3, <2>1, <2>2
  <1> QED
    BY <1>0, <1>2, <1>3 DEF BodySizeAt

LEMMA HandleInv ==
  ASSUME IInv, NEW b \in Bodies, HandleCommand(b)
  PROVE  /\ IInv'
         /\ Len(handled) + 1 \in 1..Len(bodies) /\ b = bodies[Len(handled) + 1]
  <1> DEFINE h == Len(handled)
  <1>0. /\ b \in Nat /\ h \in Nat /\ Len(bodies) \in Nat /\ MaxBody \in Nat /\ HeaderBytes \in Nat /\ HeaderBytes > 0
        /\ erased \in Nat /\ offset \in Nat /\ received \in Nat
        /\ \A k \in 1..Len(bodies) : bodies[k] \in Nat /\ starts[k] \in Nat
        /\ UNCHANGED <<bodies, starts, sent, gone, received, erased, pc>> /\ pc = "parse"
    BY Numbers, FramingAssumption DEF IInv, HandleCommand, clientVars
  <1>1. h + 1 \in 1..Len(bodies) /\ erased + offset = starts[h + 1] /\ b = bodies[h + 1]
    BY HeaderRead DEF HandleCommand
  <1>2. offset' = offset + HeaderBytes + b /\ erased + offset' <= received
    BY <1>0 DEF HandleCommand, Unparsed
  <1>3. [at |-> erased + offset, body |-> b] \in Command
    BY <1>0 DEF Command
  <1>4. /\ handled' \in Seq(Command) /\ Len(handled') = h + 1
        /\ \A k \in 1..h : handled'[k] = handled[k]
        /\ handled'[h + 1] = [at |-> starts[h + 1], body |-> bodies[h + 1]]
    BY <1>1, <1>3 DEF HandleCommand, IInv, Types
  <1>5. Types'
    BY <1>0, <1>2, <1>4 DEF IInv, Types
  <1>6. Layout' /\ \A i : StartPos(i)' = StartPos(i)
    BY <1>0 DEF IInv, Layout, EndOf, StartPos
  <1>7. HandledInOrder'
    <2>1. \A k \in 1..h : handled'[k] = [at |-> starts[k], body |-> bodies[k]]
      BY <1>4 DEF IInv, Cursor, HandledInOrder
    <2>2. ASSUME NEW k \in 1..(h + 1) PROVE handled'[k] = [at |-> starts[k], body |-> bodies[k]]
      <3>1. CASE k \in 1..h
        BY <2>1, <3>1
      <3>2. CASE k = h + 1
        BY <1>4, <3>2
      <3> QED
        BY <1>0, <3>1, <3>2
    <2> QED
      BY <1>0, <1>1, <1>4, <2>2 DEF HandledInOrder
  <1>8. erased + offset' = StartPos(h + 1)
    BY <1>0, <1>1, <1>2 DEF IInv, Layout, EndOf
  <1>9. Cursor'
    BY <1>0, <1>4, <1>6, <1>7, <1>8 DEF Cursor
  <1>10. Kept' /\ NothingWholeWaits' /\ BufferBounded'
    BY <1>0 DEF IInv, Kept, NothingWholeWaits, BufferBounded
  <1> QED
    BY <1>1, <1>5, <1>6, <1>9, <1>10 DEF IInv

LEMMA KeepInv == IInv /\ KeepRest => IInv'
  <1> SUFFICES ASSUME IInv, KeepRest PROVE IInv'
    OBVIOUS
  <1> DEFINE h == Len(handled)
  <1>0. /\ h \in Nat /\ Len(bodies) \in Nat /\ h <= Len(bodies) /\ MaxBody \in Nat /\ HeaderBytes \in Nat
        /\ erased \in Nat /\ offset \in Nat /\ received \in Nat /\ erased + offset <= received
        /\ \A k \in 1..Len(bodies) : bodies[k] \in Nat /\ starts[k] \in Nat
        /\ UNCHANGED <<bodies, starts, sent, gone, received, handled>>
        /\ erased' = erased + offset /\ offset' = 0 /\ pc' = "recv" /\ Incomplete
    BY Numbers DEF IInv, KeepRest, clientVars, Cursor, HandledInOrder
  <1>1. Types' /\ Layout'
    BY <1>0 DEF IInv, Types, Layout, EndOf, StartPos
  <1>2. Cursor'
    BY <1>0 DEF IInv, Cursor, HandledInOrder, StartPos
  <1>3. Kept' /\ BufferBounded'
    <2>1. received - erased' < HeaderBytes + MaxBody
      <3>1. CASE Unparsed < HeaderBytes
        BY <1>0, <3>1 DEF Unparsed
      <3>2. ASSUME NEW b \in BodySizeAt(erased + offset), b <= MaxBody, Unparsed < HeaderBytes + b
            PROVE  received - erased' < HeaderBytes + MaxBody
        <4>1. b \in Nat
          BY <1>0, <3>2, Numbers, FramingAssumption DEF BodySizeAt, IInv
        <4> QED
          BY <1>0, <3>2, <4>1 DEF Unparsed
      <3> QED
        BY <1>0, <3>1, <3>2 DEF Incomplete
    <2>2. ChunkBytes \in Nat /\ ChunkBytes > 0
      BY Numbers DEF IInv
    <2> QED
      BY <1>0, <2>1, <2>2 DEF Kept, BufferBounded
  <1>4. NothingWholeWaits'
    <2> SUFFICES ASSUME NEW k \in (h + 1)..Len(bodies) PROVE starts[k] + HeaderBytes + bodies[k] > received
      BY <1>0 DEF NothingWholeWaits
    <2>0. k \in 1..Len(bodies) /\ h + 1 \in 1..Len(bodies) /\ erased + offset = starts[h + 1]
      BY <1>0 DEF IInv, Cursor, StartPos
    <2>1. received < starts[h + 1] + HeaderBytes + bodies[h + 1]
      <3>1. CASE Unparsed < HeaderBytes
        BY <1>0, <2>0, <3>1 DEF Unparsed
      <3>2. CASE Unparsed >= HeaderBytes
        <4>1. PICK b \in BodySizeAt(erased + offset) : Unparsed < HeaderBytes + b
          BY <1>0, <3>2 DEF Incomplete, Unparsed
        <4>2. b = bodies[h + 1]
          BY <3>2, HeaderRead
        <4> QED
          BY <1>0, <2>0, <4>1, <4>2 DEF Unparsed
      <3> QED
        BY <1>0, <3>1, <3>2 DEF Unparsed
    <2>2. h + 1 # k => starts[h + 1] + HeaderBytes + bodies[h + 1] <= starts[k]
      BY <1>0, <2>0 DEF IInv, Layout, EndOf
    <2>3. starts[k] \in Nat /\ bodies[k] \in Nat /\ starts[h + 1] \in Nat /\ bodies[h + 1] \in Nat
      BY <1>0, <2>0
    <2>4. CASE k = h + 1
      BY <2>1, <2>4
    <2>5. CASE h + 1 # k
      <3>1. starts[h + 1] + HeaderBytes + bodies[h + 1] <= starts[k]
        BY <2>2, <2>5
      <3>2. starts[h + 1] + HeaderBytes + bodies[h + 1] \in Nat
        BY <1>0, <2>3
      <3> HIDE DEF h
      <3> QED
        BY <1>0, <2>1, <2>3, <3>1, <3>2
    <2> QED
      BY <2>4, <2>5
  <1> QED
    BY <1>1, <1>2, <1>3, <1>4 DEF IInv

LEMMA RestInv == IInv /\ ((\E n \in 1..ChunkBytes : Recv(n)) \/ RecvEnds \/ (\E b \in Bodies : Refuse(b))
                          \/ ClientGoes \/ UNCHANGED vars) => IInv'
  <1> SUFFICES ASSUME IInv, \/ \E n \in 1..ChunkBytes : Recv(n)
                            \/ RecvEnds \/ (\E b \in Bodies : Refuse(b)) \/ ClientGoes \/ UNCHANGED vars
               PROVE  IInv'
    OBVIOUS
  <1>1. UNCHANGED <<bodies, starts, sent, handled>>
    BY DEF Recv, RecvEnds, Refuse, ClientGoes, clientVars, vars
  <1>2. Layout' /\ StartPos(Len(handled))' = StartPos(Len(handled)) /\ HandledInOrder'
    BY <1>1 DEF IInv, Layout, EndOf, StartPos, Cursor, HandledInOrder
  <1>3. /\ erased \in Nat /\ offset \in Nat /\ received \in Nat /\ erased + offset <= received
        /\ MaxBody \in Nat /\ HeaderBytes \in Nat /\ ChunkBytes \in Nat
    BY Numbers DEF IInv
  <1>4. Types' /\ erased' + offset' = erased + offset
    <2> USE <1>3 DEF IInv, Types, clientVars
    <2>1. ASSUME NEW n \in 1..ChunkBytes, Recv(n) PROVE Types' /\ erased' + offset' = erased + offset
      BY <2>1 DEF Recv
    <2>2. ASSUME NEW b \in Bodies, Refuse(b) PROVE Types' /\ erased' + offset' = erased + offset
      BY <2>2 DEF Refuse
    <2>3. CASE RecvEnds \/ ClientGoes \/ UNCHANGED vars
      BY <2>3 DEF RecvEnds, ClientGoes, vars
    <2> QED
      BY <2>1, <2>2, <2>3
  <1>5. Cursor'
    BY <1>1, <1>2, <1>4 DEF IInv, Cursor
  <1>6. pc' = "recv" => pc = "recv" /\ UNCHANGED <<received, erased, offset>>
    BY DEF Recv, RecvEnds, Refuse, ClientGoes, clientVars, vars
  <1>7. Kept' /\ NothingWholeWaits'
    BY <1>1, <1>6 DEF IInv, Kept, NothingWholeWaits
  <1>8. BufferBounded'
    <2>1. ASSUME NEW n \in 1..ChunkBytes, Recv(n) PROVE BufferBounded'
      BY <1>3, <2>1 DEF IInv, Kept, BufferBounded, Recv
    <2>2. ASSUME NEW b \in Bodies, Refuse(b) PROVE BufferBounded'
      BY <1>3, <2>2 DEF IInv, BufferBounded, Refuse
    <2>3. CASE RecvEnds \/ ClientGoes \/ UNCHANGED vars
      BY <2>3 DEF IInv, BufferBounded, RecvEnds, ClientGoes, clientVars, vars
    <2> QED
      BY <2>1, <2>2, <2>3
  <1> QED
    BY <1>2, <1>4, <1>5, <1>7, <1>8 DEF IInv

THEOREM Invariance == Spec => []IInv
  <1>1. IInv /\ [Next]_vars => IInv'
    BY SendInv, HandleInv, KeepInv, RestInv DEF Next, ServerStep
  <1> QED
    BY InitInv, <1>1, PTL DEF Spec

(* Every variable keeps its type, and the parser stays within what arrived. *)
THEOREM TypeCorrect == Spec => []TypeOK
  <1>1. IInv => TypeOK
    BY TypesOK DEF IInv
  <1> QED
    BY <1>1, Invariance, PTL

(* However TCP cuts the stream, the commands are handled whole, once and in *)
(* order, for any sizes of header, bodies and chunks.                        *)
THEOREM InOrder == Spec => []HandledInOrder
  <1>1. IInv => HandledInOrder
    BY DEF IInv, Cursor
  <1> QED
    BY <1>1, Invariance, PTL

(* No command that has arrived whole waits for later bytes. *)
THEOREM NoneWaits == Spec => []NothingWholeWaits
  <1>1. IInv => NothingWholeWaits
    BY DEF IInv
  <1> QED
    BY <1>1, Invariance, PTL

(* recvBuf is bounded by one command and one recv(). *)
THEOREM BoundKept == Spec => []BufferBounded
  <1>1. IInv => BufferBounded
    BY DEF IInv
  <1> QED
    BY <1>1, Invariance, PTL

-----------------------------------------------------------------------------
SeenBodies == [k \in 1..Len(handled) |-> handled[k].body]

LEMMA StreamStep == IInv /\ [Next]_vars => [Stream!Next]_(Stream!vars)
  <1> SUFFICES ASSUME IInv, [Next]_vars PROVE [Stream!Next]_(Stream!vars)
    OBVIOUS
  <1> USE DEF Stream!Next, Stream!vars
  <1>1. ASSUME NEW b \in Bodies, ClientSends(b) PROVE Stream!Send(b)
    BY <1>1 DEF ClientSends, Stream!Send
  <1>2. ASSUME NEW b \in Bodies, HandleCommand(b) PROVE Stream!Handle
    <2>1. b = bodies[Len(handled) + 1] /\ Len(handled) + 1 \in 1..Len(bodies)
      BY <1>2, HandleInv
    <2>2. handled \in Seq(Command) /\ Len(handled) \in Nat /\ Len(bodies) \in Nat
      BY DEF IInv, Types
    <2>3. handled' = Append(handled, [at |-> erased + offset, body |-> b]) /\ UNCHANGED <<bodies, pc>> /\ pc = "parse"
      BY <1>2 DEF HandleCommand, clientVars
    <2>4. Len(handled') = Len(handled) + 1
          /\ \A k \in 1..(Len(handled) + 1) :
                handled'[k] = IF k = Len(handled) + 1 THEN [at |-> erased + offset, body |-> b] ELSE handled[k]
      BY <2>2, <2>3
    <2>5. SeenBodies \in Seq(Nat) /\ Len(SeenBodies) = Len(handled)
      <3>1. \A k \in 1..Len(handled) : handled[k] \in Command
        BY <2>2
      <3>2. \A k \in 1..Len(handled) : handled[k].body \in Nat
        BY <3>1 DEF Command
      <3> QED
        BY <2>2, <3>2 DEF SeenBodies
    <2>6. SeenBodies' = Append(SeenBodies, b)
      <3>1. SeenBodies' = [k \in 1..(Len(handled) + 1) |-> handled'[k].body]
        BY <2>4 DEF SeenBodies
      <3>2. Append(SeenBodies, b) = [k \in 1..(Len(handled) + 1) |-> IF k = Len(handled) + 1 THEN b ELSE handled[k].body]
        BY <2>2, <2>5 DEF SeenBodies
      <3> QED
        BY <2>4, <3>1, <3>2
    <2> QED
      BY <2>1, <2>2, <2>3, <2>5, <2>6 DEF Stream!Handle, SeenBodies
  <1>3. ASSUME NEW b \in Bodies, Refuse(b) PROVE Stream!End
    BY <1>3 DEF Refuse, clientVars, Stream!End
  <1>4. CASE RecvEnds
    BY <1>4 DEF RecvEnds, clientVars, Stream!End
  <1>5. CASE KeepRest \/ ClientGoes \/ (\E n \in 1..ChunkBytes : Recv(n)) \/ UNCHANGED vars
    BY <1>5 DEF KeepRest, ClientGoes, Recv, clientVars, vars
  <1> QED
    BY <1>1, <1>2, <1>3, <1>4, <1>5 DEF Next, ServerStep

(* The read loops implement the ordered stream their clients rely on. (The  *)
(* progress that ImplementsStream adds under fairness is left to TLC.)       *)
THEOREM StreamImplemented == Spec => Stream!Spec
  <1>1. Init => Stream!Init
    BY DEF Init, Stream!Init
  <1> QED
    BY <1>1, StreamStep, Invariance, PTL DEF Spec, Stream!Spec
=============================================================================
