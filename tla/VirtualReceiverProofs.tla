----------------------- MODULE VirtualReceiverProofs -----------------------
(* Proofs about VirtualReceiver, for every set of clients and frequencies. *)
EXTENDS VirtualReceiver, DecimatorProofs

(* A client's frequency is known once it has asked for one, and in span. *)
TargetsInSpan == \A c \in Clients : WithinSpan(target[c])

(* The type of what is the receiver's own; its decimator has its theorem. *)
MixerTypeOK ==
    /\ center \in Freqs /\ rotRe \in -1..1 /\ rotIm \in -1..1
    /\ target \in [Clients -> Freqs]
    /\ unwritten \in [Clients -> SUBSET Fields]
    /\ unread \subseteq {"re", "im"} /\ mixRe \in -1..1 /\ mixIm \in -1..1
    /\ streaming \in {"idle", "mixing"} /\ phase \in {"unit", "nan"}
    /\ mixed \in {"none", "steady", "fading", "growing", "stuck"}
    /\ alone \in BOOLEAN /\ undisturbed \in BOOLEAN

SpanInv == MixerTypeOK /\ WithinSpan(center) /\ TargetsInSpan

(* cos and sin of any tuning stay in range. *)
LEMMA TurnBounds == \A f \in Freqs : Cos(f) \in -1..1 /\ Sin(f) \in -1..1
  BY DEF Cos, Sin

LEMMA InitSpan == Init => SpanInv
  BY VrxAssumption, TurnBounds DEF Init, SpanInv, MixerTypeOK, Tunable, TargetsInSpan, Fields

LEMMA NextSpan == SpanInv /\ [Next]_vars => SpanInv'
  <1> USE VrxAssumption DEF SpanInv, MixerTypeOK, TargetsInSpan, nco, retuneVars, mixVars, vars
  <1> SUFFICES ASSUME SpanInv, [Next]_vars PROVE SpanInv'
    OBVIOUS
  <1>1. ASSUME NEW c \in Clients, NEW f \in Freqs, Retune(c, f) PROVE SpanInv'
    BY <1>1 DEF Retune, Quiet
  <1>2. ASSUME NEW c \in Clients, NEW field \in Fields, WriteField(c, field) PROVE SpanInv'
    <2>1. target[c] \in Freqs /\ WithinSpan(target[c])
      OBVIOUS
    <2> QED
      BY <1>2, <2>1, TurnBounds DEF WriteField
  <1>3. CASE BeginChunk
    BY <1>3 DEF BeginChunk
  <1>4. ASSUME NEW n \in ChunkSizes, Mix(n) PROVE SpanInv'
    <2>1. Power \in Int
      BY DEF Power
    <2>2. Amplitude \in {"steady", "fading", "growing", "stuck"} /\ Renormalised \subseteq {"unit", "nan"}
      <3>1. Power = 0 \/ Power = 1 \/ Power > 1
        BY DEF Power
      <3> QED
        BY <2>1, <3>1 DEF Amplitude, Renormalised
    <2> QED
      BY <1>4, <2>2 DEF Mix
  <1>5. ASSUME NEW field \in {"re", "im"}, ReadField(field) PROVE SpanInv'
    BY <1>5 DEF ReadField
  <1>6. CASE UNCHANGED vars
    BY <1>6
  <1> QED
    BY <1>1, <1>2, <1>3, <1>4, <1>5, <1>6 DEF Next

THEOREM SpanInvariance == Spec => []SpanInv
  BY InitSpan, NextSpan, PTL DEF Spec

(* A receiver's decimator only ever does what process() does: what is      *)
(* proved of it holds in the receiver, however its chunks meet retunes.     *)
THEOREM ReceiverDecimates == Spec => DecimatorSpec
  <1>1. Init => DecimatorInit
    BY DEF Init
  <1>2. [Next]_vars => [DecimatorNext]_decimatorVars
    <2> SUFFICES ASSUME [Next]_vars PROVE [DecimatorNext]_decimatorVars
      OBVIOUS
    <2>1. ASSUME NEW n \in ChunkSizes, Mix(n) PROVE DecimatorNext
      BY <2>1 DEF Mix, DecimatorNext
    <2>2. ASSUME NEW c \in Clients, NEW f \in Freqs, Retune(c, f) PROVE UNCHANGED decimatorVars
      BY <2>2 DEF Retune
    <2>3. ASSUME NEW c \in Clients, NEW field \in Fields, WriteField(c, field) PROVE UNCHANGED decimatorVars
      BY <2>3 DEF WriteField
    <2>4. ASSUME NEW field \in {"re", "im"}, BeginChunk \/ ReadField(field) PROVE UNCHANGED decimatorVars
      BY <2>4 DEF BeginChunk, ReadField
    <2> QED
      BY <2>1, <2>2, <2>3, <2>4 DEF Next, vars
  <1> QED
    BY <1>1, <1>2, PTL DEF Spec, DecimatorSpec

(* Every window the receiver filters is consecutive samples of the capture. *)
THEOREM ReceiverWindowsCorrect == Spec => []WindowsContiguous
  BY ReceiverDecimates, WindowsCorrect, PTL

(* No receiver gives its endpoints more than one sample for each Factor. *)
THEOREM ReceiverStrideCorrect == Spec => StrideAtLeastFactor
  BY ReceiverDecimates, StrideCorrect, PTL

(* Every variable of the receiver and of its decimator keeps its type. *)
THEOREM TypeCorrect == Spec => []TypeOK
  <1>1. SpanInv /\ DecimatorTypeOK => TypeOK
    BY DEF SpanInv, MixerTypeOK, TypeOK
  <1> QED
    BY <1>1, SpanInvariance, ReceiverDecimates, DecimatorTypeCorrect, PTL

(* No interleaving of any number of clients tunes outside the capture. *)
THEOREM SpanCorrect == Spec => []TunedWithinSpan
  <1>1. SpanInv => TunedWithinSpan
    BY DEF SpanInv, TunedWithinSpan, TargetsInSpan
  <1> QED
    BY <1>1, SpanInvariance, PTL

-----------------------------------------------------------------------------
(* What c's retune() has written is what it is setting. *)
WrittenIsTarget(c) ==
    /\ "center" \notin unwritten[c] => center = target[c]
    /\ "re" \notin unwritten[c] => rotRe = Cos(target[c])
    /\ "im" \notin unwritten[c] => rotIm = Sin(target[c])

(* One retune() at a time, however untuned the NCO was when it began. *)
LoneWriter ==
    alone => \A c \in Clients : unwritten[c] # {} =>
        /\ \A d \in Clients \ {c} : unwritten[d] = {}
        /\ WrittenIsTarget(c)

(* What an undisturbed chunk has read is what the NCO holds. *)
ReadIsCurrent ==
    streaming = "mixing" /\ undisturbed =>
        /\ "re" \notin unread => mixRe = rotRe
        /\ "im" \notin unread => mixIm = rotIm

TuneInv == SpanInv /\ LoneWriter /\ LoneRetuneTunes /\ ReadIsCurrent

LEMMA InitTune == Init => TuneInv
  BY InitSpan DEF Init, TuneInv, LoneWriter, LoneRetuneTunes, TunedTogether, ReadIsCurrent

LEMMA NextTune == TuneInv /\ [Next]_vars => TuneInv'
  <1> SUFFICES ASSUME TuneInv, [Next]_vars PROVE TuneInv'
    OBVIOUS
  <1> USE DEF TuneInv, LoneWriter, LoneRetuneTunes, TunedTogether, WrittenIsTarget, ReadIsCurrent,
          Quiet, nco, retuneVars, mixVars, vars
  <1>1. SpanInv' /\ MixerTypeOK
    BY NextSpan DEF SpanInv
  <1>2. ASSUME NEW c \in Clients, NEW f \in Freqs, Retune(c, f) PROVE TuneInv'
    <2>1. unwritten'[c] = Fields /\ \A d \in Clients \ {c} : unwritten'[d] = unwritten[d]
      BY <1>1, <1>2 DEF Retune, MixerTypeOK
    <2>2. ReadIsCurrent'
      BY <1>2 DEF Retune
    <2>3. LoneRetuneTunes'
      BY <2>1 DEF Fields
    <2>4. LoneWriter'
      BY <1>2, <2>1 DEF Retune, Fields
    <2> QED
      BY <1>1, <2>2, <2>3, <2>4
  <1>3. ASSUME NEW c \in Clients, NEW field \in Fields, WriteField(c, field) PROVE TuneInv'
    <2>1. unwritten'[c] = unwritten[c] \ {field} /\ field \in unwritten[c]
      BY <1>1, <1>3 DEF WriteField, MixerTypeOK
    <2>2. alone' = alone /\ \A d \in Clients \ {c} : unwritten'[d] = unwritten[d]
      BY <1>1, <1>3 DEF WriteField, MixerTypeOK
    <2>3. alone => WrittenIsTarget(c)' /\ \A d \in Clients \ {c} : unwritten'[d] = {}
      BY <1>3, <2>1, <2>2 DEF WriteField, Cos, Sin, Turns
    <2>4. ReadIsCurrent'
      BY <1>3 DEF WriteField
    <2>5. LoneRetuneTunes'
      BY <2>2, <2>3 DEF Cos, Sin, Turns
    <2>6. LoneWriter'
      BY <2>2, <2>3
    <2> QED
      BY <1>1, <2>4, <2>5, <2>6
  <1>4. CASE BeginChunk
    BY <1>1, <1>4 DEF BeginChunk
  <1>5. ASSUME NEW n \in ChunkSizes, Mix(n) PROVE TuneInv'
    BY <1>1, <1>5 DEF Mix
  <1>6. ASSUME NEW field \in {"re", "im"}, ReadField(field) PROVE TuneInv'
    BY <1>1, <1>6 DEF ReadField
  <1>7. CASE UNCHANGED vars
    BY <1>1, <1>7
  <1> QED
    BY <1>2, <1>3, <1>4, <1>5, <1>6, <1>7 DEF Next

(* Whoever retunes without meeting another retune() leaves the NCO at the  *)
(* frequency the receiver reports, whatever races have left before.         *)
THEOREM LoneRetuneCorrect == Spec => []LoneRetuneTunes
  <1>1. TuneInv => LoneRetuneTunes
    BY DEF TuneInv
  <1> QED
    BY <1>1, InitTune, NextTune, PTL DEF Spec

(* ... and every chunk that meets no retune() is mixed with that frequency. *)
THEOREM ChunkTuned == Spec => []UndisturbedChunkTuned
  <1>1. TuneInv => UndisturbedChunkTuned
    BY DEF TuneInv, UndisturbedChunkTuned, LoneRetuneTunes, TunedTogether, ReadIsCurrent
  <1> QED
    BY <1>1, InitTune, NextTune, PTL DEF Spec

(* At quarter turns the rotation is of magnitude one. *)
LEMMA UnitRotation == \A f \in Freqs : Cos(f) * Cos(f) + Sin(f) * Sin(f) = 1
  <1> SUFFICES ASSUME NEW f \in Freqs PROVE Cos(f) * Cos(f) + Sin(f) * Sin(f) = 1
    OBVIOUS
  <1>1. Turns(f) \in 0..3
    BY VrxAssumption DEF Turns
  <1> QED
    BY <1>1 DEF Cos, Sin

(* ... keeps its amplitude and leaves a usable phasor. *)
THEOREM SteadyChunk == Spec => SteadyUnlessDisturbed
  <1> DEFINE Undisturbed ==
        streaming = "mixing" /\ received' # received /\ alone /\ undisturbed /\ Quiet /\ phase = "unit"
  <1>1. ASSUME TuneInv, DecimatorTypeOK, [Next]_vars, Undisturbed PROVE mixed' = "steady" /\ phase' = "unit"
    <2>1. PICK n \in ChunkSizes : Mix(n)
      BY <1>1 DEF Next, Retune, WriteField, BeginChunk, ReadField, decimatorVars, vars
    <2>2. unread = {} /\ n # 0
      BY <1>1, <2>1, DecimatorAssumption DEF Mix, Process, DecimatorTypeOK
    <2>3. mixRe = Cos(center) /\ mixIm = Sin(center)
      BY <1>1, <2>2 DEF TuneInv, LoneRetuneTunes, TunedTogether, ReadIsCurrent
    <2>4. center \in Freqs
      BY <1>1 DEF TuneInv, SpanInv, MixerTypeOK
    <2>5. Power = 1
      BY <2>3, <2>4, UnitRotation DEF Power
    <2> QED
      BY <1>1, <2>1, <2>2, <2>5 DEF Mix, Amplitude, Renormalised
  <1> QED
    BY <1>1, InitTune, NextTune, ReceiverDecimates, DecimatorTypeCorrect, PTL
    DEF Spec, SteadyUnlessDisturbed
=============================================================================
