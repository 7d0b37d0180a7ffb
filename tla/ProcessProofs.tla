---------------------------- MODULE ProcessProofs ----------------------------
(* Proofs about Process, for every set of configurations. *)
EXTENDS Process, WellFoundedInduction, TLAPS

Served == {"receivers", "servers", "spyServers"}

Everything == {"client"} \cup Served

(* The loops over the endpoints: those before turn are done. *)
Done == {e \in Endpoint : e < turn}

(* Before the endpoints. *)
Quiet == listening = {} /\ registered = {} /\ stalled = {} /\ turn = 1 /\ state = "idle"

(* Where the endpoints and the source are, by where main is. *)
ByStage ==
    /\ pc \in {"load", "build", "aborted", "killed"} => Quiet
    /\ pc = "start" => listening = Done /\ registered = Done /\ state = "idle"
    /\ pc \in {"connect", "poll"} => listening = Endpoint /\ registered = Endpoint
    /\ pc = "connect" => state = "connecting"
    /\ pc \in {"poll", "stop"} => state = "streaming"
    /\ pc = "stop" => listening = Endpoint \ Done /\ registered = Endpoint
    /\ pc = "unwind" => listening \cap Done = {} /\ state \in {"idle", "failed"}
    /\ pc = "close" => listening = {} /\ registered = Endpoint /\ state = "closing"
    /\ pc \in {"destroy", "exited"} => listening = {} /\ state \in {"idle", "failed", "closed"}

(* What is left, and what the run comes to. *)
Ended ==
    /\ pc \notin {"destroy", "exited"} => alive = Everything
    /\ inCallback => state \in {"streaming", "closing"}
    /\ pc \in {"stop", "close"} => signalled
    /\ pc \in {"destroy", "exited"} => (status = "success" <=> state = "closed")
    /\ status = "success" => signalled

(* What loadConfig(), the constructors and bind() have let through. *)
Checked ==
    /\ pc \notin {"load", "exited", "killed"} => Accepted(cfg)
    /\ \A i \in 1..built : Constructs(cfg, cfg.receivers[i])
    /\ pc \in {"start", "connect", "poll"} => built = Count
    /\ pc \in {"start", "connect", "poll"} => \A d, e \in listening : ~Clash(d, e)

IInv == TypeOK /\ cfg \in Configs /\ ByStage /\ Ended /\ Checked

LEMMA CountNat == cfg \in Configs => Count \in Nat /\ Last \in Nat /\ cfg.receivers \in Seq(Receivers)
  <1>1. cfg \in Configs => Count \in Nat /\ cfg.receivers \in Seq(Receivers)
    BY ConfigsAssumption DEF Count
  <1> QED
    BY <1>1 DEF Last

LEMMA LocalsSet == DOMAIN Locals = 1..4 /\ {Locals[i] : i \in DOMAIN Locals} = Everything
  BY DEF Locals, Everything, Served

(* What depends on the configuration alone goes on when it is kept. *)
LEMMA Kept ==
  ASSUME cfg' = cfg
  PROVE  Count' = Count /\ Last' = Last /\ Positions' = Positions /\ Endpoint' = Endpoint
  BY DEF Count, Last, Positions, Endpoint, Port

LEMMA InitInv == Init => IInv
  <1> SUFFICES ASSUME Init PROVE IInv
    OBVIOUS
  <1>1. Count \in Nat /\ Last \in Nat
    BY CountNat DEF Init
  <1>2. alive = Everything
    BY LocalsSet DEF Init
  <1>3. built \in 0..Count /\ turn \in 1..(Last + 1)
    BY <1>1 DEF Init
  <1>4. TypeOK
    BY <1>2, <1>3 DEF Init, TypeOK, PcNames, Source!Init, Everything, Served
  <1> QED
    BY <1>2, <1>4 DEF Init, IInv, ByStage, Quiet, Ended, Checked, Source!Init

LEMMA NextType == IInv /\ [Next]_vars => TypeOK' /\ cfg' \in Configs
  <1> SUFFICES ASSUME IInv, [Next]_vars PROVE TypeOK' /\ cfg' \in Configs
    OBVIOUS
  <1>0. cfg' = cfg
    BY DEF Next, MainStep, vars, LoadFails, Load, Build, BuildThrows, Built, StartEndpoint, NoEndpoint,
       StartFails, Connect, Connected, ConnectThrows, Signal, Poll, StopEndpoint, Unwound, Close, Closed,
       Destroy, Exit, CallbackBegins, CallbackEnds, Stall, Resume
  <1>1. Count' = Count /\ Last' = Last /\ Positions' = Positions /\ Endpoint' = Endpoint /\ Count \in Nat /\ Last \in Nat
    BY <1>0, Kept, CountNat DEF IInv
  <1>2. Endpoint \subseteq Positions /\ Positions = 1..Last
    BY DEF Endpoint, Positions
  <1>a. \A e \in Endpoint : e \in 1..Last
    BY <1>2
  <1>b. built \in Nat /\ built <= Count /\ turn \in Nat /\ 1 <= turn /\ turn <= Last + 1
    BY <1>1 DEF IInv, TypeOK
  <1>c. /\ pc \in PcNames /\ listening \subseteq registered /\ registered \subseteq Endpoint
        /\ \A e \in stalled : e \in listening /\ e > Count
        /\ state \in {"idle", "connecting", "streaming", "closing", "closed", "failed"}
        /\ inCallback \in BOOLEAN /\ signalled \in BOOLEAN
        /\ alive \subseteq {"client", "receivers", "servers", "spyServers"}
        /\ status \in {"none", "success", "failure"}
    BY DEF IInv, TypeOK
  <1> USE DEF PcNames, endpoints, sourceVars
  <1>d. built' \in Nat /\ built' <= Count /\ turn' \in Nat /\ 1 <= turn' /\ turn' <= Last + 1
    <2>1. CASE Build
      BY <1>1, <1>b, <2>1 DEF Build
    <2>2. CASE StartEndpoint \/ NoEndpoint \/ StopEndpoint
      <3>1. turn <= Last /\ turn' = turn + 1 /\ built' = built
        BY <1>1, <1>2, <1>a, <1>b, <2>2 DEF StartEndpoint, NoEndpoint, StopEndpoint
      <3> QED
        BY <1>1, <1>b, <3>1
    <2>3. CASE built' = built /\ turn' \in {turn, 1}
      BY <1>1, <1>b, <2>3
    <2>4. Build \/ StartEndpoint \/ NoEndpoint \/ StopEndpoint \/ (built' = built /\ turn' \in {turn, 1})
      BY DEF Next, MainStep, vars, LoadFails, Load, BuildThrows, Built, StartFails, Connect, Connected,
         ConnectThrows, Signal, Poll, Unwound, Close, Closed, Destroy, Exit, CallbackBegins, CallbackEnds, Stall, Resume
    <2> QED
      BY <2>1, <2>2, <2>3, <2>4
  <1> SUFFICES /\ pc' \in PcNames /\ listening' \subseteq registered' /\ registered' \subseteq Endpoint
               /\ \A e \in stalled' : e \in listening' /\ e > Count
               /\ state' \in {"idle", "connecting", "streaming", "closing", "closed", "failed"}
               /\ inCallback' \in BOOLEAN /\ signalled' \in BOOLEAN
               /\ alive' \subseteq {"client", "receivers", "servers", "spyServers"}
               /\ status' \in {"none", "success", "failure"}
    BY <1>0, <1>1, <1>d DEF IInv, TypeOK
  <1>3. CASE LoadFails \/ Load \/ Build \/ BuildThrows \/ Built
    BY <1>c, <1>3 DEF LoadFails, Load, Build, BuildThrows, Built
  <1>4. CASE StartEndpoint \/ NoEndpoint \/ StartFails \/ StopEndpoint \/ Poll
    BY <1>c, <1>4 DEF StartEndpoint, NoEndpoint, StartFails, StopEndpoint, Poll
  <1>5. CASE Connect \/ Connected \/ ConnectThrows
    BY <1>c, <1>5 DEF Connect, Connected, ConnectThrows, Source!Connect, Source!Connected, Source!Throws
  <1>6. CASE Unwound \/ Close \/ Closed
    BY <1>c, <1>6 DEF Unwound, Close, Closed, Source!Close, Source!Closed
  <1>7. CASE Signal \/ Destroy \/ Exit
    BY <1>c, <1>7 DEF Signal, Destroy, Exit
  <1>8. CASE CallbackBegins \/ CallbackEnds \/ UNCHANGED vars
    BY <1>c, <1>8 DEF CallbackBegins, CallbackEnds, Source!CallbackBegins, Source!CallbackEnds, vars
  <1>9. ASSUME NEW e \in Positions, Stall(e) \/ Resume(e)
        PROVE  /\ UNCHANGED <<pc, listening, registered, state, inCallback, signalled, alive, status>>
               /\ \A d \in stalled' : d \in listening' /\ d > Count
    BY <1>c, <1>9 DEF Stall, Resume
  <1> QED
    BY <1>c, <1>3, <1>4, <1>5, <1>6, <1>7, <1>8, <1>9 DEF Next, MainStep

LEMMA NextStage == IInv /\ [Next]_vars => ByStage' /\ Ended'
  <1> SUFFICES ASSUME IInv, [Next]_vars PROVE ByStage' /\ Ended'
    OBVIOUS
  <1>0. cfg' = cfg
    BY DEF Next, MainStep, vars, LoadFails, Load, Build, BuildThrows, Built, StartEndpoint, NoEndpoint,
       StartFails, Connect, Connected, ConnectThrows, Signal, Poll, StopEndpoint, Unwound, Close, Closed,
       Destroy, Exit, CallbackBegins, CallbackEnds, Stall, Resume
  <1>1. Count' = Count /\ Last' = Last /\ Positions' = Positions /\ Endpoint' = Endpoint /\ Count \in Nat /\ Last \in Nat
    BY <1>0, Kept, CountNat DEF IInv
  <1>2. Endpoint \subseteq Positions /\ Positions = 1..Last
    BY DEF Endpoint, Positions
  <1>a. \A e \in Endpoint : e \in Int /\ 1 <= e /\ e <= Last
    BY <1>1, <1>2
  <1>3. turn \in Int /\ listening \subseteq Endpoint /\ Done \subseteq Endpoint
    BY <1>1 DEF IInv, TypeOK, Done
  <1>4. turn = 1 => Done = {}
    BY <1>a DEF Done
  <1>5. turn \notin Positions => Done = Endpoint
    <2>1. turn \notin Positions => turn = Last + 1
      BY <1>1, <1>2 DEF IInv, TypeOK
    <2> QED
      BY <1>1, <1>a, <2>1 DEF Done
  <1>6. turn' = turn + 1 => Done' = Done \cup ({turn} \cap Endpoint) /\ turn \notin Done
    BY <1>1, <1>a, <1>3 DEF Done
  <1>7. turn' = turn => Done' = Done
    BY <1>1 DEF Done
  <1>8. turn' = 1 => Done' = {}
    BY <1>1, <1>a DEF Done
  <1> USE <1>0, <1>1, <1>3 DEF IInv, ByStage, Ended, Quiet, endpoints, sourceVars
  <1>9. CASE LoadFails \/ Load \/ Build \/ BuildThrows \/ Built
    <2>1. CASE LoadFails
      BY <1>7, <2>1 DEF LoadFails
    <2>2. CASE Load \/ Build
      BY <1>7, <2>2 DEF Load, Build
    <2>3. CASE BuildThrows
      BY <1>7, <2>3 DEF BuildThrows
    <2>4. CASE Built
      BY <1>4, <1>7, <2>4 DEF Built
    <2> QED
      BY <1>9, <2>1, <2>2, <2>3, <2>4
  <1>10. CASE StartEndpoint
    BY <1>6, <1>10 DEF StartEndpoint
  <1>11. CASE StartFails \/ Poll
    BY <1>8, <1>11 DEF StartFails, Poll
  <1>12. CASE NoEndpoint
    BY <1>6, <1>12 DEF NoEndpoint
  <1>13. CASE StopEndpoint
    BY <1>6, <1>13 DEF StopEndpoint
  <1>14. CASE Connect
    BY <1>5, <1>14 DEF Connect, Source!Connect
  <1>15. CASE Connected \/ ConnectThrows
    BY <1>7, <1>8, <1>15 DEF Connected, ConnectThrows, Source!Connected, Source!Throws
  <1>16. CASE Unwound
    BY <1>5, <1>16 DEF Unwound, TypeOK
  <1>17. CASE Close \/ Closed
    BY <1>5, <1>7, <1>17 DEF Close, Closed, Source!Close, Source!Closed
  <1>18. CASE Signal \/ Destroy \/ Exit
    BY <1>7, <1>18 DEF Signal, Destroy, Exit
  <1>19. CASE CallbackBegins \/ CallbackEnds \/ UNCHANGED vars
    BY <1>7, <1>19 DEF CallbackBegins, CallbackEnds, Source!CallbackBegins, Source!CallbackEnds, vars
  <1>20. ASSUME NEW e \in Positions, Stall(e) \/ Resume(e) PROVE ByStage' /\ Ended'
    BY <1>7, <1>20 DEF Stall, Resume
  <1> QED
    BY <1>9, <1>10, <1>11, <1>12, <1>13, <1>14, <1>15, <1>16, <1>17, <1>18, <1>19, <1>20 DEF Next, MainStep

LEMMA NextChecked == IInv /\ [Next]_vars => Checked'
  <1> SUFFICES ASSUME IInv, [Next]_vars PROVE Checked'
    OBVIOUS
  <1> USE DEF IInv, Checked, endpoints, sourceVars
  <1>1. CASE LoadFails \/ Load \/ BuildThrows
    BY <1>1 DEF LoadFails, Load, BuildThrows, ByStage, Quiet
  <1>2. CASE Build
    <2>1. 1..built' = 1..built \cup {built + 1}
      BY <1>2, CountNat DEF Build, TypeOK
    <2> QED
      BY <1>2, <2>1 DEF Build
  <1>3. CASE Built
    BY <1>3 DEF Built, ByStage, Quiet, Count
  <1>4. CASE StartEndpoint
    <2>1. \A d, e : Clash(d, e) <=> Clash(e, d)
      BY DEF Clash
    <2>2. cfg' = cfg /\ \A d, e : Clash(d, e)' <=> Clash(d, e)
      BY <1>4 DEF StartEndpoint, Clash, Port, Count
    <2>3. ~Clash(turn, turn)
      BY DEF Clash
    <2>4. \A d, e \in listening' : ~Clash(d, e)
      BY <1>4, <2>1, <2>3 DEF StartEndpoint
    <2> QED
      BY <1>4, <2>2, <2>4 DEF StartEndpoint, Count
  <1>5. ASSUME UNCHANGED <<cfg, built, listening>>, pc' = pc \/ pc' \notin {"start", "connect", "poll"}
                 \/ pc \in {"start", "connect"}, pc' # "load" => pc \notin {"load", "exited", "killed"} \/ pc' \in {"exited", "killed"}
        PROVE  Checked'
    <2>1. \A d, e : Clash(d, e)' <=> Clash(d, e)
      BY <1>5 DEF Clash, Port, Count
    <2> QED
      BY <1>5, <2>1 DEF Count
  <1>6. CASE StopEndpoint
    BY <1>6 DEF StopEndpoint
  <1>7. CASE NoEndpoint \/ StartFails \/ Connect \/ Connected \/ ConnectThrows
    BY <1>5, <1>7 DEF NoEndpoint, StartFails, Connect, Connected, ConnectThrows
  <1>8. CASE Signal \/ Poll \/ Unwound \/ Close \/ Closed \/ Destroy \/ Exit
    BY <1>5, <1>8 DEF Signal, Running, Poll, Unwound, Close, Closed, Destroy, Exit
  <1>9. CASE CallbackBegins \/ CallbackEnds \/ UNCHANGED vars
    <2>1. UNCHANGED <<cfg, pc, built, listening>>
      BY <1>9 DEF CallbackBegins, CallbackEnds, vars
    <2>2. \A d, e : Clash(d, e)' <=> Clash(d, e)
      BY <2>1 DEF Clash, Port, Count
    <2> QED
      BY <2>1, <2>2 DEF Count
  <1>10. ASSUME NEW e \in Positions, Stall(e) \/ Resume(e) PROVE Checked'
    BY <1>5, <1>10 DEF Stall, Resume
  <1> QED
    BY <1>1, <1>2, <1>3, <1>4, <1>6, <1>7, <1>8, <1>9, <1>10 DEF Next, MainStep

THEOREM Invariance == Spec => []IInv
  <1>1. IInv /\ [Next]_vars => IInv'
    BY NextType, NextStage, NextChecked DEF IInv
  <1> QED
    BY InitInv, <1>1, PTL DEF Spec

(* Every variable of main and of the source keeps its type. *)
THEOREM TypeCorrect == Spec => []TypeOK
  <1>1. IInv => TypeOK
    BY DEF IInv
  <1> QED
    BY <1>1, Invariance, PTL

(* The source's thread never meets a receiver or an endpoint that is gone,  *)
(* nor a list of callbacks that is still growing.                            *)
THEOREM CallbacksSafe == Spec => []CallbackSafe
  <1>1. IInv => CallbackSafe
    <2> SUFFICES ASSUME IInv, inCallback PROVE registered = Endpoint /\ alive = Everything
      BY DEF CallbackSafe, Everything, Served
    <2>1. state \in {"streaming", "closing"} /\ pc \in PcNames
      BY DEF IInv, Ended, TypeOK
    <2>2. pc \in {"poll", "stop", "close"}
      BY <2>1 DEF IInv, ByStage, Quiet, PcNames
    <2> QED
      BY <2>2 DEF IInv, ByStage, Ended
  <1> QED
    BY <1>1, Invariance, PTL

(* However far startup came, no port is open when main destroys or returns. *)
THEOREM AllUnwound == Spec => []NothingLeftListening
  <1>1. IInv => NothingLeftListening
    BY DEF IInv, ByStage, Quiet, Ended, NothingLeftListening, Everything, Served
  <1> QED
    BY <1>1, Invariance, PTL

(* Of a receiver that was constructed, the rate is positive. *)
LEMMA RatePositive ==
  ASSUME NEW c \in Configs, NEW r \in Receivers, c.rate > 0, Constructs(c, r)
  PROVE  r.rate > 0
  <1>1. r.rate \in Int /\ c.rate \in Int /\ r.rate # 0
    BY ConfigsAssumption DEF Receivers, Constructs, EvenlyDivides
  <1> SUFFICES ASSUME r.rate < 0 PROVE FALSE
    BY <1>1
  <1>2. Magnitude(r.rate) \in Int /\ Magnitude(r.rate) > 0
    BY <1>1 DEF Magnitude
  <1>3. c.rate \div Magnitude(r.rate) >= 0
    BY <1>1, <1>2, Z3
  <1>4. Factor(c.rate, r.rate) = -(c.rate \div Magnitude(r.rate))
    BY DEF Factor
  <1> QED
    BY <1>1, <1>2, <1>3, <1>4 DEF Constructs

(* IQ flows with everything that was configured up, and nothing amiss. *)
THEOREM AllServed == Spec => []ServesAll
  <1>1. IInv => ServesAll
    <2> SUFFICES ASSUME IInv, pc = "poll"
                 PROVE  /\ listening = Endpoint
                        /\ \A d, e \in Endpoint : ~Clash(d, e)
                        /\ \A i \in DOMAIN cfg.receivers :
                              cfg.receivers[i].rate > 0 /\ WithinSpan(cfg, cfg.receivers[i].center)
      BY DEF ServesAll
    <2>1. listening = Endpoint /\ \A d, e \in Endpoint : ~Clash(d, e)
      BY DEF IInv, ByStage, Checked
    <2>2. cfg \in Configs /\ cfg.receivers \in Seq(Receivers) /\ built = Len(cfg.receivers)
      BY CountNat DEF IInv, Checked, Count
    <2>3. ASSUME NEW i \in DOMAIN cfg.receivers
          PROVE  cfg.receivers[i].rate > 0 /\ WithinSpan(cfg, cfg.receivers[i].center)
      <3>1. Constructs(cfg, cfg.receivers[i]) /\ cfg.receivers[i] \in Receivers
        BY <2>2, <2>3 DEF IInv, Checked
      <3>2. cfg.rate > 0
        BY <2>3 DEF IInv, Checked, Accepted
      <3> QED
        BY <2>2, <3>1, <3>2, RatePositive DEF Constructs
    <2> QED
      BY <2>1, <2>3
  <1> QED
    BY <1>1, Invariance, PTL

(* The exit status says whether the program streamed and was stopped. *)
THEOREM StatusTrue == Spec => []ExitStatus
  <1>1. IInv => ExitStatus
    BY DEF IInv, Ended, ExitStatus
  <1> QED
    BY <1>1, Invariance, PTL

(* No endpoint accepts a client while the source is closed. *)
THEOREM SourceClosedAlone == Spec => []ClosedAlone
  <1>1. IInv => ClosedAlone
    BY DEF IInv, TypeOK, PcNames, ByStage, Quiet, ClosedAlone
  <1> QED
    BY <1>1, Invariance, PTL

-----------------------------------------------------------------------------
(* The loop of decimationForSampleRate() comes to an end for every rate, so *)
(* the recursive function is one: this table has its values.                 *)
LEMMA FactorUnfolds ==
  DecimationFactor = [r \in Nat \ {0} |-> IF r >= AdcMin THEN 1 ELSE 2 * DecimationFactor[2 * r]]
  <1> DEFINE Loop(f) == [r \in Nat \ {0} |-> IF r >= AdcMin THEN 1 ELSE 2 * f[2 * r]]
             table == [r \in Nat \ {0} |->
     IF r >= AdcMin THEN 1 ELSE
     IF 2 * r >= AdcMin THEN 2 ELSE
     IF 4 * r >= AdcMin THEN 4 ELSE
     IF 8 * r >= AdcMin THEN 8 ELSE
     IF 16 * r >= AdcMin THEN 16 ELSE
     IF 32 * r >= AdcMin THEN 32 ELSE
     IF 64 * r >= AdcMin THEN 64 ELSE
     IF 128 * r >= AdcMin THEN 128 ELSE
     IF 256 * r >= AdcMin THEN 256 ELSE
     IF 512 * r >= AdcMin THEN 512 ELSE
     IF 1024 * r >= AdcMin THEN 1024 ELSE
     IF 2048 * r >= AdcMin THEN 2048 ELSE
     IF 4096 * r >= AdcMin THEN 4096 ELSE
     IF 8192 * r >= AdcMin THEN 8192 ELSE
     IF 16384 * r >= AdcMin THEN 16384 ELSE
     IF 32768 * r >= AdcMin THEN 32768 ELSE
     IF 65536 * r >= AdcMin THEN 65536 ELSE
     IF 131072 * r >= AdcMin THEN 131072 ELSE
     IF 262144 * r >= AdcMin THEN 262144 ELSE
     IF 524288 * r >= AdcMin THEN 524288 ELSE
     IF 1048576 * r >= AdcMin THEN 1048576 ELSE
     2097152]
  <1>1. table = Loop(table)
    <2>1. \A r \in Nat \ {0} : table[r] = IF r >= AdcMin THEN 1 ELSE 2 * table[2 * r]
      BY DEF AdcMin
    <2>2. table = [r \in Nat \ {0} |-> table[r]]
      OBVIOUS
    <2> HIDE DEF table
    <2>3. [r \in Nat \ {0} |-> table[r]] = Loop(table)
      BY <2>1
    <2> QED
      BY <2>2, <2>3
  <1>2. DecimationFactor = CHOOSE f : f = Loop(f)
    BY DEF DecimationFactor
  <1> HIDE DEF table, Loop
  <1>3. DecimationFactor = Loop(DecimationFactor)
    BY <1>1, <1>2
  <1> QED
    BY <1>3 DEF Loop

(* Of the naturals in a set one is the least: induction is a least counterexample. *)
LEMMA LeastIn ==
  ASSUME NEW T \in SUBSET Nat, T # {}
  PROVE  \E n \in T : \A m \in T : n <= m
  <1> DEFINE Less == OpToRel(<, Nat)
  <1>0. \A m, n \in Nat : m < n => <<m, n>> \in Less
    BY DEF OpToRel
  <1>1. IsWellFoundedOn(Less, Nat)
    BY NatLessThanWellFounded
  <1> HIDE DEF Less
  <1>2. PICK n \in T : \A m \in T : <<m, n>> \notin Less
    BY <1>1, WFMin
  <1>3. ASSUME NEW m \in T PROVE n <= m
    <2>1. m \in Nat /\ n \in Nat /\ ~(m < n)
      BY <1>0, <1>2
    <2> QED
      BY <2>1
  <1> QED
    BY <1>3

(* What the ADC runs at with a factor, for the loop to have stopped there. *)
Fits(rate, factor) ==
    /\ factor \in Nat \ {0} /\ rate * factor >= AdcMin
    /\ factor > 1 <=> rate < AdcMin
    /\ factor > 1 => rate * factor < 2 * AdcMin

(* By induction on how far a rate lies below the ADC's lowest. *)
LEMMA FactorFits == \A rate \in Nat \ {0} : Fits(rate, DecimationFactor[rate])
  <1> DEFINE T == {n \in Nat : \E r \in Nat \ {0} : n + r = AdcMin /\ ~Fits(r, DecimationFactor[r])}
  <1>1. \A r \in Nat \ {0} : DecimationFactor[r] = IF r >= AdcMin THEN 1 ELSE 2 * DecimationFactor[2 * r]
    <2>1. \A f : f = [r \in Nat \ {0} |-> IF r >= AdcMin THEN 1 ELSE 2 * f[2 * r]]
                  => \A r \in Nat \ {0} : f[r] = IF r >= AdcMin THEN 1 ELSE 2 * f[2 * r]
      OBVIOUS
    <2> QED
      BY <2>1, FactorUnfolds
  <1>2. \A r \in Nat \ {0} : r >= AdcMin => Fits(r, DecimationFactor[r])
    BY <1>1 DEF Fits, AdcMin
  <1>3. T = {}
    <2> SUFFICES ASSUME T # {} PROVE FALSE
      OBVIOUS
    <2>1. PICK n \in T : \A m \in T : n <= m
      BY LeastIn
    <2>2. PICK r \in Nat \ {0} : n + r = AdcMin /\ ~Fits(r, DecimationFactor[r])
      BY <2>1
    <2>3. r < AdcMin /\ DecimationFactor[r] = 2 * DecimationFactor[2 * r] /\ n \in Nat
      BY <1>1, <1>2, <2>1, <2>2 DEF AdcMin
    <2>4. Fits(2 * r, DecimationFactor[2 * r])
      <3>1. CASE 2 * r >= AdcMin
        BY <1>2, <3>1
      <3>2. CASE 2 * r < AdcMin
        <4>1. n - r \in Nat /\ (n - r) + 2 * r = AdcMin /\ 2 * r \in Nat \ {0} /\ n - r < n
          BY <2>2, <2>3, <3>2 DEF AdcMin
        <4>2. n - r \notin T
          <5> HIDE DEF T
          <5> QED
            BY <2>1, <2>3, <4>1
        <4> QED
          BY <4>1, <4>2
      <3> QED
        BY <3>1, <3>2 DEF AdcMin
    <2>5. Fits(r, DecimationFactor[r])
      <3> DEFINE k == DecimationFactor[2 * r]
      <3>1. k \in Nat \ {0} /\ (2 * r) * k = r * (2 * k)
        BY <2>4 DEF Fits
      <3>2. 2 * k \in Nat \ {0} /\ r * (2 * k) >= AdcMin /\ 2 * k > 1
        BY <2>4, <3>1 DEF Fits
      <3>3. r * (2 * k) < 2 * AdcMin
        <4>1. CASE 2 * r >= AdcMin
          <5>1. k = 1
            BY <2>4, <3>1, <4>1 DEF Fits, AdcMin
          <5> QED
            BY <2>3, <5>1 DEF AdcMin
        <4>2. CASE 2 * r < AdcMin
          BY <2>4, <3>1, <4>2 DEF Fits
        <4> QED
          BY <4>1, <4>2 DEF AdcMin
      <3> QED
        BY <2>3, <3>2, <3>3 DEF Fits
    <2> QED
      BY <2>2, <2>5
  <1> QED
    <2> SUFFICES ASSUME NEW r \in Nat \ {0}, r < AdcMin PROVE Fits(r, DecimationFactor[r])
      BY <1>2 DEF AdcMin
    <2>1. AdcMin - r \in Nat /\ (AdcMin - r) + r = AdcMin
      BY DEF AdcMin
    <2> QED
      BY <1>3, <2>1

(* From 15625 Hz up the factor fits the 8 bits of its field. *)
LEMMA FieldHolds ==
  ASSUME NEW rate \in Nat \ {0}, NEW factor, Fits(rate, factor), 128 * rate >= AdcMin
  PROVE  factor % 256 = factor
  <1>1. factor \in Nat /\ rate * factor < 256 * rate
    <2>1. CASE factor > 1
      BY <2>1 DEF Fits, AdcMin
    <2>2. CASE factor = 1
      BY <2>2
    <2> QED
      BY <2>1, <2>2 DEF Fits
  <1>2. ~(factor >= 256)
    <2> SUFFICES ASSUME factor >= 256 PROVE FALSE
      OBVIOUS
    <2>1. PICK more \in Nat : factor = 256 + more
      BY <1>1
    <2>2. rate * factor = 256 * rate + rate * more /\ rate * more >= 0
      BY <2>1
    <2> QED
      BY <1>1, <2>2
  <1> QED
    BY <1>1, <1>2

(* What the RSP delivers is the configured rate, whichever rate that is. *)
THEOREM RateDelivered == Spec => []HardwareRate
  <1>1. IInv => HardwareRate
    <2> SUFFICES ASSUME IInv, cfg.connection = "api", pc = "poll" PROVE HardwareRate
      BY DEF HardwareRate
    <2> DEFINE rate == cfg.rate  factor == DecimationFactor[rate]
    <2>1. rate \in Nat \ {0}
      <3>1. cfg \in Configs /\ Accepted(cfg) /\ cfg.receivers \in Seq(Receivers) /\ rate \in Int
        BY ConfigsAssumption DEF IInv, Checked
      <3>2. 1 \in DOMAIN cfg.receivers
        BY <3>1 DEF Accepted
      <3>3. rate > 0
        BY <3>1, <3>2 DEF Accepted
      <3> QED
        BY <3>1, <3>3
    <2>2. Fits(rate, factor)
      BY <2>1, FactorFits
    <2>3. 128 * rate >= AdcMin => factor % 256 = factor
      BY <2>1, <2>2, FieldHolds
    <2>4. Hardware(rate) = [adc |-> rate * factor, enable |-> factor > 1, field |-> factor % 256]
      BY DEF Hardware
    <2> HIDE DEF factor
    <2>5. /\ rate * factor >= AdcMin /\ (factor > 1 <=> rate < AdcMin)
          /\ factor > 1 => rate * factor < 2 * AdcMin
      BY <2>2 DEF Fits
    <2>6. /\ Hardware(rate).adc = rate * factor /\ Hardware(rate).enable = (factor > 1)
          /\ Hardware(rate).field = factor % 256
      BY <2>4
    <2>7. Hardware(rate).enable => rate * factor < 2 * AdcMin
      BY <2>5, <2>6
    <2>8. 128 * rate >= AdcMin => rate * factor = rate * (factor % 256)
      BY <2>3
    <2> QED
      BY <2>5, <2>6, <2>7, <2>8 DEF HardwareRate
  <1> QED
    BY <1>1, Invariance, PTL
=============================================================================
