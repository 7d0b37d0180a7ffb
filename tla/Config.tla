------------------------------- MODULE Config -------------------------------
(***************************************************************************)
(* Which configurations loadConfig() accepts (config.cpp), which of those    *)
(* the receivers can be constructed from (virtual_receiver.cpp), and what    *)
(* the RSP is told for a sample rate (sdrplay/client.cpp).  Rates and        *)
(* frequencies are whole numbers of Hz; the code's doubles are exact there.  *)
(*                                                                           *)
(* A configuration is a record: complete (every required field is there and  *)
(* has its type), connection, sections (those of the two backends that are   *)
(* present), networkMode, center, rate, and receivers, a sequence of records *)
(* with tcpPort, spyserverPort, center and rate.                             *)
(***************************************************************************)
EXTENDS Integers, Sequences

Magnitude(x) == IF x < 0 THEN -x ELSE x

(* fmod(wide, rate) = 0: the sign of the divisor does not matter, and by 0  *)
(* it is not a number.                                                       *)
EvenlyDivides(rate, wide) == rate # 0 /\ wide % Magnitude(rate) = 0

(* Division, truncated to an int. *)
Factor(wide, rate) == LET n == wide \div Magnitude(rate) IN IF rate < 0 THEN -n ELSE n

WithinSpan(cfg, freq) == 2 * Magnitude(freq - cfg.center) <= cfg.rate

NetworkModes == {"Full IQ", "IQ Lite", "Compact"}

SectionsAccepted(cfg) ==
    CASE cfg.connection = "api"        -> "sdrplay" \in cfg.sections
      [] cfg.connection = "sdrconnect" -> "sdrconnect" \in cfg.sections /\ cfg.networkMode \in NetworkModes
      [] OTHER                         -> FALSE

(* loadConfig() returns. *)
Accepted(cfg) ==
    /\ cfg.complete /\ SectionsAccepted(cfg) /\ cfg.receivers # <<>>
    /\ \A i \in DOMAIN cfg.receivers : cfg.rate > 0 /\ EvenlyDivides(cfg.receivers[i].rate, cfg.rate)

(* The constructors of the receiver and of its decimator do not throw. *)
Constructs(cfg, r) ==
    /\ Factor(cfg.rate, r.rate) >= 1
    /\ EvenlyDivides(r.rate, cfg.rate)
    /\ WithinSpan(cfg, r.center)

-----------------------------------------------------------------------------
AdcMin == 2000000

(* decimationForSampleRate(): the rate and the factor are doubled until the  *)
(* ADC can run at that rate.                                                  *)
DecimationFactor[rate \in Nat \ {0}] == IF rate >= AdcMin THEN 1 ELSE 2 * DecimationFactor[2 * rate]

(* Mutant: the ADC is told the rate of the samples. *)
HardwareUndoubled(rate) ==
    LET factor == DecimationFactor[rate]
    IN  [adc |-> rate, enable |-> factor > 1, field |-> factor % 256]

(* What configureInitialParams() writes: the field is an unsigned char. *)
Hardware(rate) ==
    LET factor == DecimationFactor[rate]
    IN  [adc |-> rate * factor, enable |-> factor > 1, field |-> factor % 256]
=============================================================================
