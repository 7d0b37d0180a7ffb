-------------------------- MODULE SdrplayApiProofs --------------------------
(* Proofs about SdrplayApi, for any number of processes and devices. *)
EXTENDS SdrplayApi, TLAPS

(* The calls made before anything is selected, and while it surely is. *)
Before == {"Open", "LockDeviceApi", "GetDevices", "SelectDevice"}
After  == {"UnlockDeviceApi", "GetDeviceParams", "Init", "streaming"}
Ending == {"Uninit", "ReleaseDevice"}
Over   == {"failed", "closed", "exited"}

(* What the service holds for p, by where p is. *)
DeviceByStage(p) ==
    /\ pc[p] = "SelectDevice" => device[p] \in Devices
    /\ pc[p] \in {"SelectDevice"} \cup After => wanted[p] \in {Any, device[p]}
    /\ pc[p] \in Before => held[p] = {} /\ p \notin deviceSelected /\ p \notin stuck
    /\ pc[p] \in After => held[p] = {device[p]} /\ p \in deviceSelected /\ p \notin stuck
    /\ pc[p] \in Ending =>
          /\ p \notin stuck
          /\ held[p] = IF p \in deviceSelected THEN {device[p]} ELSE {}
    /\ pc[p] \in {"Close"} \cup Over => p \notin deviceSelected /\ (held[p] # {} <=> p \in stuck)

SessionByStage(p) ==
    /\ pc[p] # "crashed" => (p \in opened <=> p \in session)
    /\ pc[p] \in {"Open"} \cup Over => p \notin opened
    /\ pc[p] = "crashed" => p \notin running

StreamByStage(p) ==
    /\ p \in running => pc[p] \in {"streaming", "Uninit", "ReleaseDevice", "Close", "crashed"}
    /\ pc[p] # "crashed" /\ p \in initialized => p \in running /\ pc[p] \in {"streaming", "Uninit"}
    /\ p \in inCallback => p \in running

Stages == \A p \in Procs : DeviceByStage(p) /\ SessionByStage(p) /\ StreamByStage(p)

(* Between LockDeviceApi and UnlockDeviceApi a process has the lock, and the *)
(* device it is about to select stays unselected.                            *)
Locking ==
    \A p \in Procs :
        /\ pc[p] \in {"GetDevices", "SelectDevice", "UnlockDeviceApi"} => lock = p
        /\ pc[p] = "SelectDevice" => \A q \in Procs \ {p} : device[p] \notin held[q]

(* Past UnlockDeviceApi it has not, unless connect() threw on the way there. *)
Unlocking ==
    \A p \in Procs : lock = p =>
        pc[p] \in {"GetDevices", "SelectDevice", "UnlockDeviceApi", "crashed"} \/ p \in threw

IInv == TypeOK /\ Stages /\ Locking /\ Unlocking /\ OneOwner

LEMMA InitInv == Init => IInv
  BY SdrplayAssumption DEF Init, IInv, TypeOK, PcNames, InTry, Stages, DeviceByStage, SessionByStage,
     StreamByStage, Before, After, Ending, Over, Locking, Unlocking, OneOwner

(* What SelectDevice adds to held is a device, by DeviceByStage. *)
LEMMA NextType == IInv /\ [Next]_vars => TypeOK'
  <1> SUFFICES ASSUME IInv, [Next]_vars PROVE TypeOK'
    OBVIOUS
  <1> USE SdrplayAssumption DEF IInv, TypeOK, service, flags, client, vars, PcNames, InTry, Goto
  <1>1. ASSUME NEW p \in Procs, ConnectStep(p) \/ LockRefused(p) PROVE TypeOK'
    <2>1. CASE SelectDeviceOk(p)
      <3>1. device[p] \in Devices
        BY <2>1 DEF SelectDeviceOk, Stages, DeviceByStage
      <3> QED
        BY <2>1, <3>1 DEF SelectDeviceOk
    <2>2. CASE OpenOk(p) \/ OpenFails(p) \/ LockOk(p)
      BY <2>2 DEF OpenOk, OpenFails, LockOk
    <2>3. CASE GetDevicesOk(p)
      BY <2>3 DEF GetDevicesOk, Available
    <2>4. CASE UnlockOk(p) \/ GetDeviceParamsOk(p) \/ InitOk(p) \/ Throws(p)
      BY <2>4 DEF UnlockOk, GetDeviceParamsOk, InitOk, Throws
    <2> QED
      BY <1>1, <2>1, <2>2, <2>3, <2>4 DEF ConnectStep, LockRefused
  <1>2. ASSUME NEW p \in Procs, CloseStep(p) PROVE TypeOK'
    <2>1. CASE Uninit(p)
      BY <2>1 DEF Uninit
    <2>2. CASE ReleaseDevice(p)
      BY <2>2 DEF ReleaseDevice
    <2>3. CASE Close(p)
      BY <2>3 DEF Close
    <2> QED
      BY <1>2, <2>1, <2>2, <2>3 DEF CloseStep
  <1>3. ASSUME NEW p \in Procs, MainLoopEnds(p) \/ Exit(p) \/ Signal(p) \/ Crash(p) PROVE TypeOK'
    BY <1>3 DEF MainLoopEnds, Exit, Signal, Crash
  <1>4. ASSUME NEW p \in Procs, CallbackBegins(p) \/ CallbackEnds(p) PROVE TypeOK'
    BY <1>4 DEF CallbackBegins, CallbackEnds
  <1>5. CASE UNCHANGED vars
    BY <1>5
  <1> QED
    BY <1>1, <1>2, <1>3, <1>4, <1>5 DEF Next, Step

(* Where a process is says what the service holds for it, step by step. *)
LEMMA NextStages == IInv /\ [Next]_vars => Stages'
  <1> SUFFICES ASSUME IInv, [Next]_vars, NEW r \in Procs
               PROVE (DeviceByStage(r) /\ SessionByStage(r) /\ StreamByStage(r))'
    BY DEF Stages
  <1>0. TypeOK /\ DeviceByStage(r) /\ SessionByStage(r) /\ StreamByStage(r)
    BY DEF IInv, Stages
  <1> DEFINE Kept == (DeviceByStage(r) /\ SessionByStage(r) /\ StreamByStage(r))'
  <1> USE DEF TypeOK, service, flags, client, vars, InTry, Goto, Before, After, Ending, Over,
          DeviceByStage, SessionByStage, StreamByStage
  <1>1. ASSUME NEW p \in Procs, OpenOk(p) \/ OpenFails(p) \/ LockOk(p) PROVE Kept
    <2>1. CASE OpenOk(p)
      BY <1>0, <2>1 DEF OpenOk
    <2>2. CASE OpenFails(p)
      BY <1>0, <2>2 DEF OpenFails
    <2>3. CASE LockOk(p)
      BY <1>0, <2>3 DEF LockOk
    <2> QED
      BY <1>1, <2>1, <2>2, <2>3
  <1>2. ASSUME NEW p \in Procs, GetDevicesOk(p) PROVE Kept
    BY <1>0, <1>2 DEF GetDevicesOk, Available
  <1>3. ASSUME NEW p \in Procs, SelectDeviceOk(p) PROVE Kept
    BY <1>0, <1>3 DEF SelectDeviceOk
  <1>4. ASSUME NEW p \in Procs, UnlockOk(p) \/ GetDeviceParamsOk(p) \/ InitOk(p) PROVE Kept
    <2>1. CASE UnlockOk(p)
      BY <1>0, <2>1 DEF UnlockOk
    <2>2. CASE GetDeviceParamsOk(p)
      BY <1>0, <2>2 DEF GetDeviceParamsOk
    <2>3. CASE InitOk(p)
      BY <1>0, <2>3 DEF InitOk
    <2> QED
      BY <1>4, <2>1, <2>2, <2>3
  <1>5. ASSUME NEW p \in Procs, Throws(p) PROVE Kept
    BY <1>0, <1>5 DEF Throws
  <1>6. ASSUME NEW p \in Procs, Uninit(p) PROVE Kept
    BY <1>0, <1>6 DEF Uninit
  <1>7. ASSUME NEW p \in Procs, ReleaseDevice(p) PROVE Kept
    <2>1. CASE r # p
      <3>1. UNCHANGED <<pc[r], held[r], device[r]>>
        BY <1>0, <1>7, <2>1 DEF ReleaseDevice
      <3>2. (r \in stuck' <=> r \in stuck) /\ (r \in deviceSelected' <=> r \in deviceSelected)
        BY <1>0, <1>7, <2>1 DEF ReleaseDevice
      <3> QED
        BY <1>0, <1>7, <3>1, <3>2 DEF ReleaseDevice
    <2>2. CASE r = p
      <3>1. pc[p] = "ReleaseDevice" /\ pc'[p] = "Close" /\ p \notin deviceSelected'
        BY <1>0, <1>7 DEF ReleaseDevice
      <3>2. held'[p] # {} <=> p \in stuck'
        BY <1>0, <1>7, <2>2 DEF ReleaseDevice
      <3> QED
        BY <1>0, <1>7, <2>2, <3>1, <3>2 DEF ReleaseDevice
    <2> QED
      BY <2>1, <2>2
  <1>8. ASSUME NEW p \in Procs, Close(p) PROVE Kept
    BY <1>0, <1>8 DEF Close
  <1>9. ASSUME NEW p \in Procs, MainLoopEnds(p) \/ Exit(p) \/ Signal(p) PROVE Kept
    BY <1>0, <1>9 DEF MainLoopEnds, Exit, Signal
  <1>10. ASSUME NEW p \in Procs, Crash(p) PROVE Kept
    BY <1>0, <1>10 DEF Crash
  <1>11. ASSUME NEW p \in Procs, CallbackBegins(p) \/ CallbackEnds(p) PROVE Kept
    BY <1>0, <1>11 DEF CallbackBegins, CallbackEnds
  <1>12. CASE UNCHANGED vars
    BY <1>0, <1>12
  <1> QED
    BY <1>1, <1>2, <1>3, <1>4, <1>5, <1>6, <1>7, <1>8, <1>9, <1>10, <1>11, <1>12
    DEF Next, Step, ConnectStep, CloseStep, LockRefused

(* A process that has the lock gives it back on its way to streaming, fails *)
(* there or is killed there.                                                 *)
LEMMA NextUnlocking == IInv /\ [Next]_vars => Unlocking'
  <1> SUFFICES ASSUME IInv, [Next]_vars PROVE Unlocking'
    OBVIOUS
  <1> USE SdrplayAssumption DEF IInv, TypeOK, service, flags, client, vars, Goto, Unlocking
  <1>1. ASSUME NEW p \in Procs, OpenOk(p) \/ OpenFails(p) \/ LockOk(p) PROVE Unlocking'
    BY <1>1 DEF OpenOk, OpenFails, LockOk
  <1>2. ASSUME NEW p \in Procs, GetDevicesOk(p) \/ SelectDeviceOk(p) PROVE Unlocking'
    BY <1>2 DEF GetDevicesOk, SelectDeviceOk
  <1>3. ASSUME NEW p \in Procs, UnlockOk(p) PROVE Unlocking'
    BY <1>3 DEF UnlockOk
  <1>4. ASSUME NEW p \in Procs, GetDeviceParamsOk(p) \/ InitOk(p) PROVE Unlocking'
    BY <1>4 DEF GetDeviceParamsOk, InitOk
  <1>5. ASSUME NEW p \in Procs, Throws(p) PROVE Unlocking'
    BY <1>5 DEF Throws
  <1>6. ASSUME NEW p \in Procs, Uninit(p) \/ ReleaseDevice(p) \/ Close(p) PROVE Unlocking'
    BY <1>6 DEF Uninit, ReleaseDevice, Close
  <1>7. ASSUME NEW p \in Procs, MainLoopEnds(p) \/ Exit(p) PROVE Unlocking'
    BY <1>7 DEF MainLoopEnds, Exit
  <1>8. ASSUME NEW p \in Procs, Signal(p) \/ Crash(p) \/ CallbackBegins(p) \/ CallbackEnds(p) PROVE Unlocking'
    BY <1>8 DEF Signal, Crash, CallbackBegins, CallbackEnds
  <1>9. CASE UNCHANGED vars
    BY <1>9
  <1> QED
    BY <1>1, <1>2, <1>3, <1>4, <1>5, <1>6, <1>7, <1>8, <1>9
    DEF Next, Step, ConnectStep, CloseStep, LockRefused

(* Only the process that has the lock selects or gives the lock back. *)
LEMMA NextLocking == IInv /\ [Next]_vars => Locking' /\ OneOwner'
  <1> SUFFICES ASSUME IInv, [Next]_vars PROVE Locking' /\ OneOwner'
    OBVIOUS
  <1> USE SdrplayAssumption DEF IInv, TypeOK, service, flags, client, vars, InTry, Goto, Locking, OneOwner
  <1>1. ASSUME NEW p \in Procs, OpenOk(p) \/ OpenFails(p) \/ LockOk(p) PROVE Locking' /\ OneOwner'
    BY <1>1 DEF OpenOk, OpenFails, LockOk
  <1>2. ASSUME NEW p \in Procs, GetDevicesOk(p) PROVE Locking' /\ OneOwner'
    BY <1>2 DEF GetDevicesOk, Available
  <1>3. ASSUME NEW p \in Procs, SelectDeviceOk(p) PROVE Locking' /\ OneOwner'
    BY <1>3 DEF SelectDeviceOk
  <1>4. ASSUME NEW p \in Procs, UnlockOk(p) \/ GetDeviceParamsOk(p) \/ InitOk(p) PROVE Locking' /\ OneOwner'
    BY <1>4 DEF UnlockOk, GetDeviceParamsOk, InitOk
  <1>5. ASSUME NEW p \in Procs, Throws(p) PROVE Locking' /\ OneOwner'
    BY <1>5 DEF Throws
  <1>6. ASSUME NEW p \in Procs, Uninit(p) \/ Close(p) PROVE Locking' /\ OneOwner'
    BY <1>6 DEF Uninit, Close
  <1>7. ASSUME NEW p \in Procs, ReleaseDevice(p) PROVE Locking' /\ OneOwner'
    BY <1>7 DEF ReleaseDevice
  <1>8. ASSUME NEW p \in Procs, MainLoopEnds(p) \/ Exit(p) \/ Signal(p) \/ Crash(p) PROVE Locking' /\ OneOwner'
    BY <1>8 DEF MainLoopEnds, Exit, Signal, Crash
  <1>9. ASSUME NEW p \in Procs, CallbackBegins(p) \/ CallbackEnds(p) PROVE Locking' /\ OneOwner'
    BY <1>9 DEF CallbackBegins, CallbackEnds
  <1>10. CASE UNCHANGED vars
    BY <1>10
  <1> QED
    BY <1>1, <1>2, <1>3, <1>4, <1>5, <1>6, <1>7, <1>8, <1>9, <1>10
    DEF Next, Step, ConnectStep, CloseStep, LockRefused

THEOREM Invariance == Spec => []IInv
  <1>1. IInv /\ [Next]_vars => IInv'
    BY NextType, NextStages, NextLocking, NextUnlocking DEF IInv
  <1> QED
    BY InitInv, <1>1, PTL DEF Spec

(* Every variable of the service and of the processes keeps its type. *)
THEOREM TypeCorrect == Spec => []TypeOK
  <1>1. IInv => TypeOK
    BY DEF IInv
  <1> QED
    BY <1>1, Invariance, PTL

(* No RSP is ever selected by two processes, whoever fails or is killed. *)
THEOREM OwnerUnique == Spec => []OneOwner
  <1>1. IInv => OneOwner
    BY DEF IInv
  <1> QED
    BY <1>1, Invariance, PTL

(* The client's flags agree with the service in every state of every run. *)
THEOREM FlagsCorrect == Spec => []FlagsTellTheTruth
  <1>1. IInv => FlagsTellTheTruth
    <2> SUFFICES ASSUME IInv, NEW p \in Procs, pc[p] # "crashed"
                 PROVE /\ p \in opened <=> p \in session
                       /\ p \in initialized => p \in running
                       /\ p \in deviceSelected <=> (held[p] # {} /\ p \notin stuck)
      BY DEF FlagsTellTheTruth
    <2>1. DeviceByStage(p) /\ SessionByStage(p) /\ StreamByStage(p) /\ pc[p] \in PcNames
      BY DEF IInv, Stages, TypeOK
    <2> QED
      BY <2>1 DEF DeviceByStage, SessionByStage, StreamByStage, PcNames, InTry, Before, After, Ending, Over
  <1> QED
    BY <1>1, Invariance, PTL

(* A client that is done has given back everything, its device lock too; but *)
(* an RSP whose release was refused, and the lock of a connect() that threw. *)
THEOREM CleanedUp == Spec => []NothingLeftBehind
  <1>1. IInv => NothingLeftBehind
    BY DEF IInv, Unlocking, Stages, NothingLeftBehind, DeviceByStage, SessionByStage, StreamByStage, Over
  <1> QED
    BY <1>1, Invariance, PTL

(* No callback runs once main has returned. *)
THEOREM CallbacksServed == Spec => []ReceiversOutliveCallbacks
  <1>1. IInv => ReceiversOutliveCallbacks
    BY DEF IInv, TypeOK, Stages, ReceiversOutliveCallbacks, StreamByStage
  <1> QED
    BY <1>1, Invariance, PTL

(* A process that was told which RSP to use never streams from another. *)
THEOREM WantedStreamed == Spec => []StreamsFromWanted
  <1>1. IInv => StreamsFromWanted
    BY SdrplayAssumption DEF IInv, Stages, StreamsFromWanted, DeviceByStage, After
  <1> QED
    BY <1>1, Invariance, PTL

(* A connect() that has failed, or is failing, has no stream running. *)
ThrewByStage(p) ==
    /\ p \in threw => p \notin running
    /\ pc[p] \in {"Open", "streaming"} \cup InTry => p \notin threw

Thrown == \A p \in Procs : ThrewByStage(p)

LEMMA NextThrown == IInv /\ Thrown /\ [Next]_vars => Thrown'
  <1> SUFFICES ASSUME IInv, Thrown, [Next]_vars, NEW p \in Procs PROVE ThrewByStage(p)'
    BY DEF Thrown
  <1>0. ThrewByStage(p) /\ StreamByStage(p) /\ pc \in [Procs -> PcNames]
    BY DEF IInv, TypeOK, Thrown, Stages
  <1> USE DEF ThrewByStage, StreamByStage, Goto, InTry, service, flags, client
  <1>1. ASSUME NEW q \in Procs, ConnectStep(q) \/ LockRefused(q) PROVE ThrewByStage(p)'
    <2>1. CASE OpenOk(q) \/ OpenFails(q) \/ LockOk(q) \/ GetDevicesOk(q) \/ SelectDeviceOk(q)
      BY <1>0, <2>1 DEF OpenOk, OpenFails, LockOk, GetDevicesOk, SelectDeviceOk
    <2>2. CASE UnlockOk(q) \/ GetDeviceParamsOk(q) \/ InitOk(q) \/ Throws(q)
      BY <1>0, <2>2 DEF UnlockOk, GetDeviceParamsOk, InitOk, Throws
    <2> QED
      BY <1>1, <2>1, <2>2 DEF ConnectStep, LockRefused
  <1>2. ASSUME NEW q \in Procs, CloseStep(q) \/ MainLoopEnds(q) \/ Exit(q) PROVE ThrewByStage(p)'
    BY <1>0, <1>2 DEF CloseStep, Uninit, ReleaseDevice, Close, MainLoopEnds, Exit
  <1>3. ASSUME NEW q \in Procs, Signal(q) \/ Crash(q) \/ CallbackBegins(q) \/ CallbackEnds(q)
        PROVE ThrewByStage(p)'
    BY <1>0, <1>3 DEF Signal, Crash, CallbackBegins, CallbackEnds
  <1>4. CASE UNCHANGED vars
    BY <1>0, <1>4 DEF vars
  <1> QED
    BY <1>1, <1>2, <1>3, <1>4 DEF Next, Step

(* Each step of the program is one of the abstract source, or none. *)
LEMMA SourceStep ==
  ASSUME IInv, Thrown, [Next]_vars, NEW p \in Procs
  PROVE  [Source(p)!Next]_(Source(p)!vars)
  <1>0. ThrewByStage(p) /\ StreamByStage(p) /\ pc \in [Procs -> PcNames]
    BY DEF IInv, TypeOK, Thrown, Stages
  <1> USE DEF ThrewByStage, StreamByStage, Goto, InTry, PcNames, service, flags, client, SourceState
  <1> USE DEF Source!Next, Source!vars
  <1>1. ASSUME NEW q \in Procs, ConnectStep(q) \/ LockRefused(q) PROVE [Source(p)!Next]_(Source(p)!vars)
    <2>1. CASE OpenOk(q) \/ OpenFails(q)
      BY <1>0, <2>1 DEF OpenOk, OpenFails, Source!Connect, Source!Throws
    <2>2. CASE LockOk(q) \/ GetDevicesOk(q) \/ SelectDeviceOk(q) \/ UnlockOk(q) \/ GetDeviceParamsOk(q)
      BY <1>0, <2>2 DEF LockOk, GetDevicesOk, SelectDeviceOk, UnlockOk, GetDeviceParamsOk
    <2>3. CASE InitOk(q) \/ Throws(q)
      BY <1>0, <2>3 DEF InitOk, Throws, Source!Connected
    <2> QED
      BY <1>1, <2>1, <2>2, <2>3 DEF ConnectStep, LockRefused
  <1>2. ASSUME NEW q \in Procs, CloseStep(q) \/ MainLoopEnds(q) \/ Exit(q)
        PROVE [Source(p)!Next]_(Source(p)!vars)
    <2>1. CASE Uninit(q) \/ ReleaseDevice(q) \/ Exit(q)
      BY <1>0, <2>1 DEF Uninit, ReleaseDevice, Exit
    <2>2. CASE Close(q)
      BY <1>0, <2>2 DEF Close, Source!Closed, Source!Throws
    <2>3. CASE MainLoopEnds(q)
      BY <1>0, <2>3 DEF MainLoopEnds, Source!Close
    <2> QED
      BY <1>2, <2>1, <2>2, <2>3 DEF CloseStep
  <1>3. ASSUME NEW q \in Procs, Signal(q) \/ Crash(q) PROVE [Source(p)!Next]_(Source(p)!vars)
    BY <1>0, <1>3 DEF Signal, Crash, Source!Killed
  <1>4. ASSUME NEW q \in Procs, CallbackBegins(q) \/ CallbackEnds(q) PROVE [Source(p)!Next]_(Source(p)!vars)
    <2>1. pc[p] = "crashed" => p \notin running
      BY DEF IInv, Stages, SessionByStage
    <2>2. UNCHANGED <<pc, threw>> /\ SourceState(p)' = SourceState(p)
      BY <1>4 DEF CallbackBegins, CallbackEnds
    <2>3. CASE q # p
      BY <1>4, <2>2, <2>3 DEF CallbackBegins, CallbackEnds
    <2>4. CASE q = p /\ CallbackBegins(p)
      <3>1. SourceState(p) \in {"streaming", "closing"}
        BY <1>0, <2>1, <2>4 DEF CallbackBegins
      <3>2. p \notin inCallback /\ p \in inCallback'
        BY <2>4 DEF CallbackBegins
      <3> QED
        BY <2>2, <3>1, <3>2 DEF Source!CallbackBegins
    <2>5. CASE q = p /\ CallbackEnds(p)
      BY <2>2, <2>5 DEF CallbackEnds, Source!CallbackEnds
    <2> QED
      BY <1>4, <2>3, <2>4, <2>5
  <1>5. CASE UNCHANGED vars
    BY <1>0, <1>5 DEF vars
  <1> QED
    BY <1>1, <1>2, <1>3, <1>4, <1>5 DEF Next, Step

(* Every process implements the abstract source, whoever it shares RSPs     *)
(* with and whichever calls fail.                                            *)
THEOREM SourceImplemented == Spec => KeepsSourcePromise
  <1>1. Init => Thrown /\ \A p \in Procs : Source(p)!Init
    BY DEF Init, Thrown, ThrewByStage, InTry, Source!Init, SourceState
  <1>2. IInv /\ Thrown /\ [Next]_vars => Thrown' /\ \A p \in Procs : [Source(p)!Next]_(Source(p)!vars)
    BY NextThrown, SourceStep
  <1>3. (\A p \in Procs : [Source(p)!Next]_(Source(p)!vars)) => [\A p \in Procs : [Source(p)!Next]_(Source(p)!vars)]_vars
    OBVIOUS
  <1> QED
    BY <1>1, <1>2, <1>3, Invariance, PTL DEF Spec, KeepsSourcePromise
=============================================================================
