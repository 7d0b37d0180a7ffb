--------------------------- MODULE DecimatorProofs ---------------------------
(* Proofs about Decimator, for every filter length, factor and chunking. *)
EXTENDS Decimator, TLAPS

(* The newest sample already filtered is at least one stride behind the next one. *)
NewestBehind == newest + Factor <= received + 1

IInv == DecimatorTypeOK /\ HistoryIsTail /\ WindowsContiguous /\ NewestBehind

(* What integer division promises: the strides counted fit, one more would not. *)
LEMMA StridesFit ==
    ASSUME NEW n \in Nat, NEW f \in Nat \ {0}
    PROVE  /\ n \div f \in Nat
           /\ (n \div f) * f <= n
           /\ n < (n \div f) * f + f
  BY SMT

(* A positive factor never shortens a count. *)
LEMMA FactorExpands ==
    ASSUME NEW m \in Nat, NEW f \in Nat \ {0}
    PROVE  m * f \in Nat /\ m <= m * f
  BY SMT

(* Multiplying by a natural number keeps the order. *)
LEMMA FactorMonotone ==
    ASSUME NEW a \in Nat, NEW b \in Nat, a <= b, NEW f \in Nat
    PROVE  a * f \in Nat /\ b * f \in Nat /\ a * f <= b * f
  BY SMT

(* process() returns one output sample for each whole stride of the chunk. *)
LEMMA OutSamplesIsDiv ==
    ASSUME NEW n \in Nat
    PROVE  /\ OutSamples(n) = n \div Factor
           /\ OutSamples(n) \in Nat
           /\ OutSamples(n) * Factor \in Nat
           /\ OutSamples(n) * Factor <= n
           /\ OutSamples(n) <= n
  <1> USE DecimatorAssumption
  <1>1. HistLen + n - NumTaps + 1 = n
    BY DEF HistLen
  <1>2. /\ n \div Factor \in Nat
        /\ (n \div Factor) * Factor <= n
    BY StridesFit
  <1>3. OutSamples(n) = n \div Factor
    BY <1>1, <1>2 DEF OutSamples, Larger
  <1>4. /\ (n \div Factor) * Factor \in Nat
        /\ n \div Factor <= (n \div Factor) * Factor
    BY <1>2, FactorExpands
  <1> QED
    BY <1>2, <1>3, <1>4

(* history_ and the chunk laid end to end are a stretch of the stream. *)
LEMMA BufIsStream ==
    ASSUME DecimatorTypeOK, HistoryIsTail, NEW n \in Nat,
           NEW i \in 1..(HistLen + n)
    PROVE  Buf(n)[i] = Stamp(received - HistLen + i)
  BY DecimatorAssumption DEF Buf, HistLen, Stamp, HistoryIsTail, DecimatorTypeOK

(* The window of output o, and the stream position of its newest sample. *)
LEMMA WindowIsStream ==
    ASSUME DecimatorTypeOK, HistoryIsTail, NEW n \in Nat, NEW o \in 1..OutSamples(n)
    PROVE  /\ (o - 1) * Factor \in Nat
           /\ (o - 1) * Factor + Factor <= n
           /\ \A t \in 1..NumTaps :
                 Window(n, o)[t] = Stamp(received - HistLen + (o - 1) * Factor + t)
           /\ Window(n, o)[NumTaps] = received + 1 + (o - 1) * Factor
           /\ Window(n, o) \in [1..NumTaps -> Nat]
  <1> USE DecimatorAssumption
  <1>1. OutSamples(n) \in Nat /\ OutSamples(n) * Factor <= n
    BY OutSamplesIsDiv
  <1>2. o \in Nat /\ o - 1 \in Nat /\ o <= OutSamples(n)
    BY <1>1
  <1>3. o * Factor \in Nat /\ o * Factor <= OutSamples(n) * Factor
    BY <1>1, <1>2, FactorMonotone
  <1>4. (o - 1) * Factor + Factor = o * Factor /\ (o - 1) * Factor \in Nat
    BY <1>2
  <1> DEFINE start == (o - 1) * Factor
  <1>5. start \in Nat /\ start + Factor <= n
    BY <1>1, <1>3, <1>4
  <1> HIDE DEF start
  <1>6. ASSUME NEW t \in 1..NumTaps
        PROVE  /\ start + t \in 1..(HistLen + n)
               /\ Buf(n)[start + t] = Stamp(received - HistLen + start + t)
    <2>1. start + t \in 1..(HistLen + n)
      BY <1>5 DEF HistLen
    <2>2. Buf(n)[start + t] = Stamp(received - HistLen + (start + t))
      BY <2>1, BufIsStream
    <2>3. received - HistLen + (start + t) = received - HistLen + start + t
      BY <1>5 DEF DecimatorTypeOK, HistLen
    <2> QED
      BY <2>1, <2>2, <2>3
  <1>7. Window(n, o) = [t \in 1..NumTaps |-> Buf(n)[start + t]]
    BY DEF Window, start
  <1>8. \A t \in 1..NumTaps : Window(n, o)[t] = Stamp(received - HistLen + start + t)
    BY <1>6, <1>7
  <1>9. Window(n, o)[NumTaps] = received + 1 + start
    BY <1>5, <1>8 DEF Stamp, HistLen, DecimatorTypeOK
  <1>10. \A t \in 1..NumTaps : Stamp(received - HistLen + start + t) \in Nat
    BY <1>5 DEF Stamp, Silence, HistLen, DecimatorTypeOK
  <1>11. Window(n, o) \in [1..NumTaps -> Nat]
    BY <1>6, <1>7, <1>10
  <1> QED
    BY <1>5, <1>8, <1>9, <1>11 DEF start

(* The history saved for the next call is again the tail of the stream. *)
LEMMA NextHistoryIsTail ==
    ASSUME DecimatorTypeOK, HistoryIsTail, NEW n \in Nat
    PROVE  NextHistory(n) = [i \in 1..HistLen |-> Stamp((received + n) - HistLen + i)]
  <1> USE DecimatorAssumption
  <1>1. OutSamples(n) * Factor \in Nat /\ OutSamples(n) * Factor <= n
    BY OutSamplesIsDiv
  <1>2. Smaller((HistLen + n) - OutSamples(n) * Factor, HistLen) = HistLen
    BY <1>1 DEF Smaller, HistLen
  <1>3. NextHistory(n) = [i \in 1..HistLen |-> Buf(n)[n + i]]
    BY <1>2 DEF NextHistory, HistLen
  <1>4. ASSUME NEW i \in 1..HistLen
        PROVE  Buf(n)[n + i] = Stamp((received + n) - HistLen + i)
    <2>1. n + i \in 1..(HistLen + n)
      BY DEF HistLen
    <2>2. Buf(n)[n + i] = Stamp(received - HistLen + (n + i))
      BY <2>1, BufIsStream
    <2>3. received - HistLen + (n + i) = (received + n) - HistLen + i
      BY DEF DecimatorTypeOK, HistLen
    <2> QED
      BY <2>2, <2>3
  <1> QED
    BY <1>3, <1>4

-----------------------------------------------------------------------------
(* A fresh decimator: history_ holds the silence before the stream. *)
LEMMA InitIInv == DecimatorInit => IInv
  <1> USE DecimatorAssumption
  <1> SUFFICES ASSUME DecimatorInit PROVE IInv
    OBVIOUS
  <1>1. HistoryIsTail
    BY DEF DecimatorInit, HistoryIsTail, HistLen, Stamp, Silence
  <1>2. DOMAIN out = {}
    BY DEF DecimatorInit
  <1>3. DecimatorTypeOK
    BY <1>2 DEF DecimatorInit, DecimatorTypeOK, HistLen, Silence
  <1>4. WindowsContiguous
    BY <1>2 DEF WindowsContiguous
  <1>5. NewestBehind
    BY DEF DecimatorInit, NewestBehind
  <1> QED
    BY <1>1, <1>3, <1>4, <1>5 DEF IInv

(* Where the newest sample of the last window is after a call. *)
LEMMA NewestAfterProcess ==
    ASSUME IInv, NEW n \in ChunkSizes, Process(n)
    PROVE  newest' \in Int /\ newest' + Factor <= received' + 1
  <1> USE DecimatorAssumption
  <1>1. n \in Nat
    OBVIOUS
  <1>2. OutSamples(n) \in Nat
    BY <1>1, OutSamplesIsDiv
  <1>3. received' = received + n /\ received \in Nat /\ newest \in Int
    BY DEF Process, IInv, DecimatorTypeOK
  <1>4. CASE OutSamples(n) = 0
    BY <1>1, <1>3, <1>4 DEF Process, IInv, NewestBehind
  <1>5. CASE OutSamples(n) # 0
    <2> DEFINE last == OutSamples(n)
    <2>1. last \in 1..OutSamples(n)
      BY <1>2, <1>5
    <2>2. /\ (last - 1) * Factor \in Nat
          /\ (last - 1) * Factor + Factor <= n
          /\ Window(n, last)[NumTaps] = received + 1 + (last - 1) * Factor
      BY <1>1, <2>1, WindowIsStream DEF IInv
    <2>3. newest' = Window(n, last)[NumTaps]
      BY <1>5 DEF Process
    <2> HIDE DEF last
    <2> QED
      BY <1>1, <1>3, <2>2, <2>3
  <1> QED
    BY <1>4, <1>5

(* A call of process() keeps the invariant. *)
LEMMA NextIInv == IInv /\ [DecimatorNext]_decimatorVars => IInv'
  <1> USE DecimatorAssumption
  <1> SUFFICES ASSUME IInv, [DecimatorNext]_decimatorVars PROVE IInv'
    OBVIOUS
  <1>1. ASSUME NEW n \in ChunkSizes, Process(n) PROVE IInv'
    <2>1. n \in Nat
      OBVIOUS
    <2>2. DecimatorTypeOK /\ HistoryIsTail
      BY DEF IInv
    <2>3. /\ OutSamples(n) \in Nat
          /\ OutSamples(n) <= n
      BY <2>1, OutSamplesIsDiv
    <2>4. received' = received + n /\ received' \in 0..MaxReceived
      BY <1>1, <2>1, <2>2 DEF Process, DecimatorTypeOK
    <2>5. HistoryIsTail'
      <3>1. history' = [i \in 1..HistLen |-> Stamp((received + n) - HistLen + i)]
        BY <1>1, <2>1, <2>2, NextHistoryIsTail DEF Process
      <3> QED
        BY <3>1, <2>4 DEF HistoryIsTail, HistLen, Stamp
    <2>6. /\ DOMAIN out' = 1..OutSamples(n)
          /\ \A o \in DOMAIN out' : out'[o] = Window(n, o)
      BY <1>1 DEF Process
    <2>7. WindowsContiguous'
      <3> SUFFICES ASSUME NEW o \in 1..OutSamples(n), NEW t \in 1..NumTaps
                   PROVE  Window(n, o)[t] = Stamp(Window(n, o)[NumTaps] - NumTaps + t)
        BY <2>6 DEF WindowsContiguous, Stamp
      <3>1. /\ (o - 1) * Factor \in Nat
            /\ Window(n, o)[t] = Stamp(received - HistLen + (o - 1) * Factor + t)
            /\ Window(n, o)[NumTaps] = received + 1 + (o - 1) * Factor
        BY <2>1, <2>2, WindowIsStream
      <3> DEFINE start == (o - 1) * Factor
      <3>2. received - HistLen + start + t = (received + 1 + start) - NumTaps + t
        <4> HIDE DEF start
        <4>1. start \in Nat
          BY <3>1 DEF start
        <4> QED
          BY <4>1, <2>2 DEF HistLen, DecimatorTypeOK
      <3> QED
        BY <3>1, <3>2
    <2>8. newest' \in Int /\ NewestBehind'
      BY <1>1, NewestAfterProcess DEF NewestBehind
    <2>9. DecimatorTypeOK'
      <3>1. \A o \in 1..OutSamples(n) : Window(n, o) \in [1..NumTaps -> Nat]
        BY <2>1, <2>2, WindowIsStream
      <3>2. DOMAIN out' \subseteq 1..MaxReceived
        BY <2>1, <2>3, <2>4, <2>6, <2>2 DEF DecimatorTypeOK
      <3>3. history' \in [1..HistLen -> Nat]
        BY <2>4, <2>5 DEF HistoryIsTail, HistLen, Stamp, Silence
      <3>4. produced' \in Nat
        BY <1>1, <2>2, <2>3 DEF Process, DecimatorTypeOK
      <3> QED
        BY <2>4, <2>6, <2>8, <3>1, <3>2, <3>3, <3>4 DEF DecimatorTypeOK
    <2> QED
      BY <2>5, <2>7, <2>8, <2>9 DEF IInv
  <1>2. CASE UNCHANGED decimatorVars
    BY <1>2 DEF decimatorVars, IInv, DecimatorTypeOK, HistoryIsTail, WindowsContiguous, NewestBehind, HistLen, Stamp
  <1> QED
    BY <1>1, <1>2 DEF DecimatorNext

(* The inductive invariant holds in every reachable state. *)
THEOREM Invariance == DecimatorSpec => []IInv
  BY InitIInv, NextIInv, PTL DEF DecimatorSpec

(* Every variable of the decimator keeps its type. *)
THEOREM DecimatorTypeCorrect == DecimatorSpec => []DecimatorTypeOK
  BY Invariance, PTL DEF IInv

(* history_ is always the last NumTaps-1 samples of the stream: the overlap *)
(* kept by process() loses and repeats nothing, whatever the chunking.      *)
THEOREM HistoryCorrect == DecimatorSpec => []HistoryIsTail
  BY Invariance, PTL DEF IInv

(* Every output sample is the FIR of consecutive samples of the stream. *)
THEOREM WindowsCorrect == DecimatorSpec => []WindowsContiguous
  BY Invariance, PTL DEF IInv

-----------------------------------------------------------------------------
(* Between two windows emitted by one call there are exactly Factor samples, *)
(* and the first one is at least Factor after the last call's last window.   *)
LEMMA StrideStep ==
    ASSUME IInv, NEW n \in ChunkSizes, Process(n), NEW o \in DOMAIN out'
    PROVE  /\ o = 1 => out'[o][NumTaps] = received + 1
           /\ o # 1 => out'[o][NumTaps] = out'[o - 1][NumTaps] + Factor
           /\ out'[o][NumTaps] >= (IF o = 1 THEN newest ELSE out'[o - 1][NumTaps]) + Factor
  <1> USE DecimatorAssumption
  <1>1. n \in Nat /\ DecimatorTypeOK /\ HistoryIsTail
    BY DEF IInv
  <1>2. /\ DOMAIN out' = 1..OutSamples(n)
        /\ \A p \in DOMAIN out' : out'[p] = Window(n, p)
    BY DEF Process
  <1>3. OutSamples(n) \in Nat
    BY <1>1, OutSamplesIsDiv
  <1>4. \A p \in 1..OutSamples(n) : Window(n, p)[NumTaps] = received + 1 + (p - 1) * Factor
    BY <1>1, WindowIsStream
  <1>5. o \in 1..OutSamples(n)
    BY <1>2
  <1>6. ASSUME o = 1 PROVE out'[o][NumTaps] = received + 1
    <2>1. (o - 1) * Factor = 0
      BY <1>6
    <2>2. out'[o][NumTaps] = received + 1 + (o - 1) * Factor
      BY <1>2, <1>4, <1>5
    <2> QED
      BY <1>1, <2>1, <2>2 DEF DecimatorTypeOK
  <1>7. ASSUME o # 1 PROVE out'[o][NumTaps] = out'[o - 1][NumTaps] + Factor
    <2>1. o - 1 \in 1..OutSamples(n) /\ o \in Nat
      BY <1>3, <1>5, <1>7
    <2>2. (o - 1) * Factor = ((o - 1) - 1) * Factor + Factor
      BY <2>1
    <2>3. ((o - 1) - 1) * Factor \in Nat
      BY <2>1
    <2> QED
      BY <1>1, <1>2, <1>4, <1>5, <2>1, <2>2, <2>3 DEF DecimatorTypeOK
  <1>8. newest + Factor <= received + 1 /\ newest \in Int /\ received \in Nat
    BY DEF IInv, DecimatorTypeOK, NewestBehind
  <1>9. CASE o = 1
    BY <1>6, <1>8, <1>9
  <1>10. CASE o # 1
    <2>1. o - 1 \in DOMAIN out'
      BY <1>2, <1>3, <1>5, <1>10
    <2>2. out'[o - 1][NumTaps] \in Int
      BY <2>1, NextIInv DEF IInv, DecimatorTypeOK, DecimatorNext
    <2> QED
      BY <1>7, <1>10, <2>2
  <1> QED
    BY <1>6, <1>7, <1>9, <1>10

(* The decimator never runs faster than one output for Factor inputs, from *)
(* one output sample to the next and from one call to the next.            *)
THEOREM StrideCorrect == DecimatorSpec => StrideAtLeastFactor
  <1>1. IInv /\ [DecimatorNext]_decimatorVars =>
          [ \A o \in DOMAIN out' :
              out'[o][NumTaps] >= (IF o = 1 THEN newest ELSE out'[o - 1][NumTaps]) + Factor ]_decimatorVars
    BY StrideStep DEF DecimatorNext
  <1> QED
    BY <1>1, Invariance, PTL DEF DecimatorSpec, StrideAtLeastFactor

-----------------------------------------------------------------------------
(* Chunks that hold whole strides only. *)
Aligned == \A n \in ChunkSizes : n % Factor = 0

(* With such chunks nothing is left over between two calls. *)
NothingLeft == produced * Factor = received /\ newest + Factor = received + 1

(* What the remainder says about division. *)
LEMMA WholeStrides ==
    ASSUME NEW n \in Nat, NEW f \in Nat \ {0}, n % f = 0
    PROVE  (n \div f) * f = n
  BY SMT

(* A chunk of whole strides is consumed to its last sample. *)
LEMMA WholeStrideConsumed ==
    ASSUME NEW n \in Nat, n % Factor = 0
    PROVE  OutSamples(n) * Factor = n
  <1>1. (n \div Factor) * Factor = n
    BY DecimatorAssumption, WholeStrides
  <1> QED
    BY <1>1, OutSamplesIsDiv

(* A call with a chunk of whole strides leaves nothing over. *)
LEMMA AlignedStep ==
    ASSUME Aligned, IInv, NothingLeft, NEW n \in ChunkSizes, Process(n)
    PROVE  NothingLeft'
  <1> USE DecimatorAssumption
  <1>1. n \in Nat /\ DecimatorTypeOK /\ HistoryIsTail
    BY DEF IInv
  <1>2. OutSamples(n) \in Nat /\ OutSamples(n) * Factor = n
    BY <1>1, OutSamplesIsDiv, WholeStrideConsumed DEF Aligned
  <1>3. received' = received + n /\ produced' = produced + OutSamples(n)
    BY DEF Process
  <1>4. produced' * Factor = received'
    BY <1>1, <1>2, <1>3 DEF NothingLeft, DecimatorTypeOK
  <1>5. CASE OutSamples(n) = 0
    BY <1>1, <1>2, <1>3, <1>4, <1>5 DEF NothingLeft, Process, DecimatorTypeOK
  <1>6. CASE OutSamples(n) # 0
    <2> DEFINE last == OutSamples(n)
    <2>1. last \in 1..OutSamples(n)
      BY <1>2, <1>6
    <2>2. /\ (last - 1) * Factor \in Nat
          /\ Window(n, last)[NumTaps] = received + 1 + (last - 1) * Factor
      BY <1>1, <2>1, WindowIsStream
    <2>3. (last - 1) * Factor + Factor = n
      BY <1>2
    <2>4. newest' = Window(n, last)[NumTaps]
      BY <1>6 DEF Process
    <2> DEFINE start == (last - 1) * Factor
    <2>5. start \in Nat /\ start + Factor = n /\ newest' = received + 1 + start
      BY <2>2, <2>3, <2>4
    <2> HIDE DEF last, start
    <2>6. newest' + Factor = received' + 1
      BY <1>1, <1>3, <2>5 DEF DecimatorTypeOK
    <2> QED
      BY <1>4, <2>6 DEF NothingLeft
  <1> QED
    BY <1>5, <1>6

(* When the source delivers whole strides, the output has exactly the       *)
(* configured rate: one sample for each Factor received, at every call.     *)
THEOREM AlignedRate == Aligned => (DecimatorSpec => []OutputRate)
  <1> USE DecimatorAssumption
  <1> SUFFICES ASSUME Aligned PROVE DecimatorSpec => []OutputRate
    OBVIOUS
  <1>1. DecimatorInit => NothingLeft
    BY DEF DecimatorInit, NothingLeft
  <1>2. IInv /\ NothingLeft /\ [DecimatorNext]_decimatorVars => NothingLeft'
    BY AlignedStep DEF DecimatorNext, decimatorVars, NothingLeft
  <1>3. IInv /\ NothingLeft => OutputRate
    <2> SUFFICES ASSUME IInv, NothingLeft PROVE produced = received \div Factor
      BY DEF OutputRate
    <2>1. produced \in Nat
      BY DEF IInv, DecimatorTypeOK
    <2> QED
      BY <2>1 DEF NothingLeft
  <1> QED
    BY <1>1, <1>2, <1>3, Invariance, PTL DEF DecimatorSpec

(* ... and consecutive windows are always exactly Factor samples apart. *)
THEOREM AlignedStride == Aligned => (DecimatorSpec => EvenStride)
  <1> SUFFICES ASSUME Aligned PROVE DecimatorSpec => EvenStride
    OBVIOUS
  <1>1. DecimatorInit => NothingLeft
    BY DecimatorAssumption DEF DecimatorInit, NothingLeft
  <1>2. IInv /\ NothingLeft /\ [DecimatorNext]_decimatorVars => NothingLeft'
    BY AlignedStep DEF DecimatorNext, decimatorVars, NothingLeft
  <1>3. IInv /\ NothingLeft /\ [DecimatorNext]_decimatorVars =>
          [ \A o \in DOMAIN out' :
              out'[o][NumTaps] = (IF o = 1 THEN newest ELSE out'[o - 1][NumTaps]) + Factor ]_decimatorVars
    BY StrideStep DEF DecimatorNext, NothingLeft
  <1> QED
    BY <1>1, <1>2, <1>3, Invariance, PTL DEF DecimatorSpec, EvenStride
=============================================================================
