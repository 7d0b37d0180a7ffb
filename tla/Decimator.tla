------------------------------ MODULE Decimator ------------------------------
(***************************************************************************)
(* The FIR filter and integer decimator of one virtual receiver            *)
(* (dsp/decimator.cpp).  The data are abstracted to WHICH input samples    *)
(* meet in one FIR window: input sample k of the stream is the number k,   *)
(* and 0 stands for silence, the 0.0f a fresh history buffer holds.  The   *)
(* filter's arithmetic, which treats every window alike, is left out; the  *)
(* index arithmetic, which decides what the window contains, is kept.      *)
(***************************************************************************)
EXTENDS Integers

CONSTANTS NumTaps,     (* FIR length; 129 in virtual_receiver.cpp            *)
          Factor,      (* decimation factor                                  *)
          ChunkSizes,  (* numbers of samples one call of process() may bring *)
          MaxReceived  (* bound on the length of the stream                  *)

(* The constructor throws unless factor >= 1, and taps_.size() - 1 must be a size. *)
ASSUME DecimatorAssumption ==
    /\ NumTaps \in Nat \ {0}
    /\ Factor \in Nat \ {0}
    /\ ChunkSizes \subseteq Nat
    /\ MaxReceived \in Nat

VARIABLES received,    (* samples fed to process() so far                     *)
          history,     (* history_: the samples kept for the next call's FIR  *)
          out,         (* the windows behind the last call's output samples   *)
          produced,    (* output samples returned so far                      *)
          newest       (* newest input sample of the last window ever emitted *)

decimatorVars == <<received, history, out, produced, newest>>

HistLen == NumTaps - 1

Silence == 0

(* What stream position k holds: nothing was received before sample 1. *)
Stamp(k) == IF k <= 0 THEN Silence ELSE k

Smaller(a, b) == IF a < b THEN a ELSE b
Larger(a, b)  == IF a > b THEN a ELSE b

DecimatorInit ==
    /\ received = 0
    /\ history = [i \in 1..HistLen |-> Silence]
    /\ out = [o \in 1..0 |-> Silence]
    /\ produced = 0
    /\ newest = 1 - Factor

-----------------------------------------------------------------------------
(* process(): history and input are laid end to end in buf, then filtered. *)

Buf(n) == [i \in 1..(HistLen + n) |->
              IF i <= HistLen THEN history[i] ELSE received + (i - HistLen)]

(* Mutant: one window too many, as if the last partial stride counted. *)
OutSamplesRoundedUp(n) == Larger(0, (HistLen + n - NumTaps + 1 + (Factor - 1)) \div Factor)

OutSamples(n) == Larger(0, (HistLen + n - NumTaps + 1) \div Factor)

Window(n, o) == [t \in 1..NumTaps |-> Buf(n)[(o - 1) * Factor + t]]

(* Mutant: keeps the samples right after the consumed ones, not the last ones. *)
NextHistoryFromConsumed(n) ==
    LET start == OutSamples(n) * Factor
    IN  [i \in 1..HistLen |-> Buf(n)[start + i]]

(* The tail of buf, right-aligned in a buffer of zeros. *)
NextHistory(n) ==
    LET remainder == (HistLen + n) - OutSamples(n) * Factor
        kept      == Smaller(remainder, HistLen)
    IN  [i \in 1..HistLen |-> IF i > HistLen - kept THEN Buf(n)[n + i] ELSE Silence]

Process(n) ==
    /\ received + n <= MaxReceived
    /\ out' = [o \in 1..OutSamples(n) |-> Window(n, o)]
    /\ history' = NextHistory(n)
    /\ received' = received + n
    /\ produced' = produced + OutSamples(n)
    /\ newest' = IF OutSamples(n) = 0 THEN newest ELSE Window(n, OutSamples(n))[NumTaps]

DecimatorNext == \E n \in ChunkSizes : Process(n)

DecimatorSpec == DecimatorInit /\ [][DecimatorNext]_decimatorVars

-----------------------------------------------------------------------------
DecimatorTypeOK ==
    /\ received \in 0..MaxReceived
    /\ history \in [1..HistLen -> Nat]
    /\ produced \in Nat
    /\ newest \in Int
    /\ DOMAIN out \subseteq 1..MaxReceived
    /\ \A o \in DOMAIN out : out[o] \in [1..NumTaps -> Nat]

(* Between two calls history_ is exactly the last NumTaps-1 samples of the *)
(* stream, silence before its start: no sample is lost from, repeated in   *)
(* or reordered within the overlap, whatever the sizes of the chunks.      *)
HistoryIsTail == history = [i \in 1..HistLen |-> Stamp(received - HistLen + i)]

(* Every output sample is the FIR of NumTaps consecutive samples of the    *)
(* stream, also when its window spans two or more chunks.                  *)
WindowsContiguous ==
    \A o \in DOMAIN out : \A t \in 1..NumTaps :
        out[o][t] = Stamp(out[o][NumTaps] - NumTaps + t)

(* Two output samples never overlap by more than the filter intends: from  *)
(* one to the next, across calls too, the window moves on by at least      *)
(* Factor samples, so the output is never faster than the promised rate.   *)
StrideAtLeastFactor ==
    [][ \A o \in DOMAIN out' :
            out'[o][NumTaps] >= (IF o = 1 THEN newest ELSE out'[o - 1][NumTaps]) + Factor ]_decimatorVars

(* The output has the rate the configuration asks for: one sample for each *)
(* Factor input samples received, however they were cut into chunks.       *)
OutputRate == produced = received \div Factor

(* The stream cut into chunks is decimated like the stream in one piece:   *)
(* the next window always starts Factor samples after the last one.        *)
EvenStride ==
    [][ \A o \in DOMAIN out' :
            out'[o][NumTaps] = (IF o = 1 THEN newest ELSE out'[o - 1][NumTaps]) + Factor ]_decimatorVars
=============================================================================
