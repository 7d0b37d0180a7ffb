--------------------------- MODULE VirtualReceiver ---------------------------
(***************************************************************************)
(* Retuning one virtual receiver while it streams (dsp/virtual_receiver.cpp, *)
(* dsp/nco.hpp).  retune() runs on the read thread of whichever client asks, *)
(* of either endpoint; mixInPlace() runs on the streaming thread; no lock    *)
(* protects centerFrequencyHz_, rotationRe_ and rotationIm_ between them, so *)
(* each is a separate access and a thread's accesses may be seen in any      *)
(* order.  The mixed chunk goes on into the receiver's own Decimator.        *)
(*                                                                           *)
(* Frequencies are counted in quarters of the wideband sample rate: there    *)
(* cos and sin are the exact integers -1, 0 and 1, which is enough to tell a *)
(* rotation of magnitude one from the mixture of two.  The callbacks get the *)
(* output of every chunk that has one alike, and are in the endpoints.       *)
(***************************************************************************)
EXTENDS Decimator

CONSTANTS Clients,        (* clients that send SET_FREQUENCY                  *)
          Freqs,          (* frequencies they ask for                         *)
          WidebandCenter  (* widebandCenterHz_                                *)

ASSUME VrxAssumption == Freqs \subseteq Int /\ WidebandCenter \in Int

VARIABLES
    center,     (* centerFrequencyHz_                                         *)
    rotRe,      (* nco_.rotationRe_                                           *)
    rotIm,      (* nco_.rotationIm_                                           *)
    target,     (* the frequency each client's retune() is setting            *)
    unwritten,  (* the fields that retune() has yet to write                  *)
    unread,     (* the fields mixInPlace() has yet to read                    *)
    mixRe,      (* mixInPlace()'s copies of the rotation                      *)
    mixIm,
    streaming,  (* "idle", or "mixing" a chunk                                *)
    phase,      (* nco_'s phasor: "unit", or "nan" for good                   *)
    mixed,      (* amplitude of the last chunk mixed                          *)
    alone,      (* no retune() overlaps the one under way, or met the last one *)
    undisturbed (* no retune() wrote anything since this chunk was begun      *)

nco        == <<center, rotRe, rotIm>>
retuneVars == <<nco, target, unwritten>>
mixVars    == <<unread, mixRe, mixIm, streaming, phase, mixed>>
vars       == <<retuneVars, mixVars, alone, undisturbed, decimatorVars>>

(* assertWithinSpan(): half the wideband rate, two quarters, either side. *)
WithinSpan(f) == WidebandCenter - 2 <= f /\ f <= WidebandCenter + 2

Tunable == {f \in Freqs : WithinSpan(f)}

(* setOffsetHz(): the rotation that cancels the offset of frequency f. *)
Turns(f) == (WidebandCenter - f) % 4

Cos(f) == CASE Turns(f) = 0 -> 1 [] Turns(f) = 2 -> -1 [] OTHER -> 0

(* Mutant: the sine of a negative turn, lost. *)
SinTruncated(f) == IF Turns(f) = 1 THEN 1 ELSE 0

Sin(f) == CASE Turns(f) = 1 -> 1 [] Turns(f) = 3 -> -1 [] OTHER -> 0

(* The constructor checks the configured frequency and tunes to it. *)
Init ==
    /\ center \in Tunable
    /\ rotRe = Cos(center) /\ rotIm = Sin(center)
    /\ target = [c \in Clients |-> center]
    /\ unwritten = [c \in Clients |-> {}]
    /\ unread = {} /\ mixRe = 1 /\ mixIm = 0
    /\ streaming = "idle" /\ phase = "unit" /\ mixed = "none"
    /\ alone = TRUE /\ undisturbed = TRUE
    /\ DecimatorInit

-----------------------------------------------------------------------------
(* retune(), called by a client's read thread. *)

Fields == {"center", "re", "im"}

Quiet == \A c \in Clients : unwritten[c] = {}

(* Mutant: the frequency is stored, the NCO forgotten. *)
RetuneCenterOnly(c, f) ==
    /\ unwritten[c] = {} /\ WithinSpan(f)
    /\ target' = [target EXCEPT ![c] = f]
    /\ unwritten' = [unwritten EXCEPT ![c] = {"center"}]
    /\ alone' = Quiet
    /\ UNCHANGED <<nco, mixVars, undisturbed, decimatorVars>>

(* Out of span it throws, handleCommand() logs, and nothing changes. *)
Retune(c, f) ==
    /\ unwritten[c] = {} /\ WithinSpan(f)
    /\ target' = [target EXCEPT ![c] = f]
    /\ unwritten' = [unwritten EXCEPT ![c] = Fields]
    /\ alone' = Quiet
    /\ UNCHANGED <<nco, mixVars, undisturbed, decimatorVars>>

WriteField(c, field) ==
    /\ field \in unwritten[c]
    /\ unwritten' = [unwritten EXCEPT ![c] = @ \ {field}]
    /\ center' = IF field = "center" THEN target[c] ELSE center
    /\ rotRe' = IF field = "re" THEN Cos(target[c]) ELSE rotRe
    /\ rotIm' = IF field = "im" THEN Sin(target[c]) ELSE rotIm
    /\ undisturbed' = FALSE
    /\ UNCHANGED <<target, mixVars, alone, decimatorVars>>

-----------------------------------------------------------------------------
(* processWidebandChunk() and mixInPlace(), on the streaming thread. *)

BeginChunk ==
    /\ streaming = "idle"
    /\ streaming' = "mixing" /\ unread' = {"re", "im"}
    /\ undisturbed' = TRUE
    /\ UNCHANGED <<retuneVars, mixRe, mixIm, phase, mixed, alone, decimatorVars>>

ReadField(field) ==
    /\ field \in unread
    /\ unread' = unread \ {field}
    /\ mixRe' = IF field = "re" THEN rotRe ELSE mixRe
    /\ mixIm' = IF field = "im" THEN rotIm ELSE mixIm
    /\ UNCHANGED <<retuneVars, streaming, phase, mixed, alone, undisturbed, decimatorVars>>

Power == mixRe * mixRe + mixIm * mixIm

(* The phasor turns by the rotation at every sample: a magnitude other than *)
(* one is raised to the length of the chunk.                                *)
Amplitude ==
    CASE phase = "nan" -> "stuck"
      [] phase = "unit" /\ Power = 1 -> "steady"
      [] phase = "unit" /\ Power < 1 -> "fading"
      [] phase = "unit" /\ Power > 1 -> "growing"

(* Renormalised once per chunk, by the magnitude the chunk has left it at:   *)
(* zero when both copies of the rotation were, and as much as infinity after *)
(* enough samples of one greater than one.  Then 0/0 or inf/inf, and NaN.    *)
Renormalised ==
    CASE phase = "nan" \/ Power = 0 -> {"nan"}
      [] phase = "unit" /\ Power = 1 -> {"unit"}
      [] phase = "unit" /\ Power > 1 -> {"unit", "nan"}

(* The chunk of n samples is mixed, filtered and decimated. *)
Mix(n) ==
    /\ streaming = "mixing" /\ unread = {}
    /\ IF n = 0 THEN UNCHANGED <<phase, mixed>>
                ELSE phase' \in Renormalised /\ mixed' = Amplitude
    /\ Process(n)
    /\ streaming' = "idle"
    /\ UNCHANGED <<retuneVars, unread, mixRe, mixIm, alone, undisturbed>>

Next ==
    \/ \E c \in Clients, f \in Freqs : Retune(c, f)
    \/ \E c \in Clients, field \in Fields : WriteField(c, field)
    \/ BeginChunk
    \/ \E field \in {"re", "im"} : ReadField(field)
    \/ \E n \in ChunkSizes : Mix(n)

Spec == Init /\ [][Next]_vars

-----------------------------------------------------------------------------
TypeOK ==
    /\ center \in Freqs /\ rotRe \in -1..1 /\ rotIm \in -1..1
    /\ target \in [Clients -> Freqs]
    /\ unwritten \in [Clients -> SUBSET Fields]
    /\ unread \subseteq {"re", "im"} /\ mixRe \in -1..1 /\ mixIm \in -1..1
    /\ streaming \in {"idle", "mixing"} /\ phase \in {"unit", "nan"}
    /\ mixed \in {"none", "steady", "fading", "growing", "stuck"}
    /\ alone \in BOOLEAN /\ undisturbed \in BOOLEAN
    /\ DecimatorTypeOK

(* Whatever clients ask for, and however their requests interleave, the     *)
(* frequency a VRX reports and is about to be set to lies in the capture.   *)
TunedWithinSpan ==
    /\ WithinSpan(center)
    /\ \A c \in Clients : unwritten[c] # {} => WithinSpan(target[c])

(* A retune "moves the same shared VRX" for every client of both endpoints  *)
(* (README): when no retune() is under way, the NCO shifts down exactly the  *)
(* frequency the VRX reports as its center, whichever came last.             *)
TunedTogether == Quiet => rotRe = Cos(center) /\ rotIm = Sin(center)

(* A retune() that meets no other leaves the NCO at the frequency the VRX   *)
(* reports, whatever two that met may have left before: a lost tuning can be *)
(* set right by asking again.                                                *)
LoneRetuneTunes == alone => TunedTogether

(* After one, a chunk that no retune() disturbed is mixed with the reported *)
(* frequency.                                                                *)
UndisturbedChunkTuned ==
    streaming = "mixing" /\ unread = {} /\ alone /\ undisturbed /\ Quiet =>
        mixRe = Cos(center) /\ mixIm = Sin(center)

(* Such a chunk, unless empty, neither gains nor loses amplitude, and leaves *)
(* the phasor where the next can go on from it, also after chunks that faded *)
(* or grew, as long as those have not left it NaN.                           *)
SteadyUnlessDisturbed ==
    [][ (streaming = "mixing" /\ received' # received /\ alone /\ undisturbed /\ Quiet /\ phase = "unit")
            => (mixed' = "steady" /\ phase' = "unit") ]_vars
=============================================================================
