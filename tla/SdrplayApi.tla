----------------------------- MODULE SdrplayApi -----------------------------
(***************************************************************************)
(* Owning an RSP through the vendor's service (sdrplay/client.cpp): what     *)
(* connect() and close() call, in which order, which flags they keep, and    *)
(* what is left when a call fails, for any number of processes that share    *)
(* the service.  Each process is one run of main.cpp; a restart is another.  *)
(*                                                                           *)
(* The service is external, and modelled as the source's comments describe   *)
(* it: the lock is one for all processes and is only given back by a call    *)
(* to unlock it; GetDevices lists what nobody has selected; SelectDevice     *)
(* itself does not look; every call may return an error; Uninit and Close    *)
(* return once no callback is running.                                       *)
(***************************************************************************)
EXTENDS Naturals

CONSTANTS Procs,    (* runs of this program                                   *)
          Devices,  (* the RSPs attached                                      *)
          Free,     (* the lock held by nobody; no device                     *)
          Any       (* no serial number configured                            *)

ASSUME SdrplayAssumption == Free \notin Procs \cup Devices /\ Any \notin Devices

VARIABLES
    \* the service
    session,     (* processes with an API session                             *)
    lock,        (* the device lock: Free, or the process that has it         *)
    held,        (* the devices each process has selected                     *)
    running,     (* processes whose device streams                            *)
    inCallback,  (* processes with a stream callback under way                *)
    \* each process
    pc,          (* the API call it makes next, or where main is              *)
    wanted,      (* cfg_.serialNumber                                         *)
    opened, deviceSelected, initialized,  (* the client's three flags         *)
    device,      (* device_                                                   *)
    threw,       (* processes whose connect() is throwing, or has             *)
    signalled,   (* g_shouldExit                                              *)
    stuck        (* processes whose ReleaseDevice was refused                 *)

service == <<session, lock, held, running, inCallback>>
flags   == <<opened, deviceSelected, initialized>>
client  == <<wanted, device, threw, signalled, stuck>>
vars    == <<service, pc, flags, client>>

Init ==
    /\ session = {} /\ lock = Free /\ running = {} /\ inCallback = {}
    /\ held = [p \in Procs |-> {}]
    /\ pc = [p \in Procs |-> "Open"]
    /\ wanted \in [Procs -> Devices \cup {Any}]
    /\ opened = {} /\ deviceSelected = {} /\ initialized = {}
    /\ device = [p \in Procs |-> Free]
    /\ threw = {} /\ signalled = {} /\ stuck = {}

Goto(p, next) == pc' = [pc EXCEPT ![p] = next]

-----------------------------------------------------------------------------
(* connect(): every call that succeeds, in order. *)

OpenOk(p) ==
    /\ pc[p] = "Open" /\ Goto(p, "LockDeviceApi")
    /\ session' = session \cup {p} /\ opened' = opened \cup {p}
    /\ UNCHANGED <<lock, held, running, inCallback, deviceSelected, initialized, client>>

(* Outside the try block: nothing to clean up. *)
OpenFails(p) ==
    /\ pc[p] = "Open" /\ Goto(p, "failed")
    /\ threw' = threw \cup {p}
    /\ UNCHANGED <<service, flags, wanted, device, signalled, stuck>>

(* Mutant: the devices are listed without waiting for the lock. *)
LockIgnored(p) ==
    /\ pc[p] = "LockDeviceApi" /\ Goto(p, "GetDevices")
    /\ UNCHANGED <<service, flags, client>>

(* lockDeviceApiWithHint() waits as long as it takes; the hint changes nothing. *)
LockOk(p) ==
    /\ pc[p] = "LockDeviceApi" /\ lock = Free /\ Goto(p, "GetDevices")
    /\ lock' = p
    /\ UNCHANGED <<session, held, running, inCallback, flags, client>>

Available(p) == {d \in Devices : \A q \in Procs \ {p} : d \notin held[q]}

(* Mutant: whatever the configuration says, the first device is used. *)
GetDevicesFirst(p) ==
    /\ pc[p] = "GetDevices" /\ Goto(p, "SelectDevice")
    /\ \E d \in Available(p) : device' = [device EXCEPT ![p] = d]
    /\ UNCHANGED <<service, flags, wanted, threw, signalled, stuck>>

(* The first listed, whichever that is, or the one with the serial number. *)
GetDevicesOk(p) ==
    /\ pc[p] = "GetDevices" /\ Goto(p, "SelectDevice")
    /\ \E d \in Available(p) :
          /\ wanted[p] \in {Any, d}
          /\ device' = [device EXCEPT ![p] = d]
    /\ UNCHANGED <<service, flags, wanted, threw, signalled, stuck>>

SelectDeviceOk(p) ==
    /\ pc[p] = "SelectDevice" /\ Goto(p, "UnlockDeviceApi")
    /\ held' = [held EXCEPT ![p] = @ \cup {device[p]}]
    /\ deviceSelected' = deviceSelected \cup {p}
    /\ UNCHANGED <<session, lock, running, inCallback, opened, initialized, client>>

(* Mutant: the lock is kept while streaming. *)
UnlockForgotten(p) ==
    /\ pc[p] = "UnlockDeviceApi" /\ Goto(p, "GetDeviceParams")
    /\ UNCHANGED <<service, flags, client>>

UnlockOk(p) ==
    /\ pc[p] = "UnlockDeviceApi" /\ Goto(p, "GetDeviceParams")
    /\ lock' = Free
    /\ UNCHANGED <<session, held, running, inCallback, flags, client>>

(* configureInitialParams() writes the settings and cannot fail. *)
GetDeviceParamsOk(p) ==
    /\ pc[p] = "GetDeviceParams" /\ Goto(p, "Init")
    /\ UNCHANGED <<service, flags, client>>

InitOk(p) ==
    /\ pc[p] = "Init" /\ Goto(p, "streaming")
    /\ running' = running \cup {p} /\ initialized' = initialized \cup {p}
    /\ UNCHANGED <<session, lock, held, inCallback, opened, deviceSelected, client>>

InTry == {"LockDeviceApi", "GetDevices", "SelectDevice", "UnlockDeviceApi", "GetDeviceParams", "Init"}

(* Mutant: initialized_ is set before Init's result is looked at. *)
ThrowsInitialized(p) ==
    /\ pc[p] \in InTry /\ Goto(p, "Uninit")
    /\ threw' = threw \cup {p}
    /\ initialized' = IF pc[p] = "Init" THEN initialized \cup {p} ELSE initialized
    /\ UNCHANGED <<service, opened, deviceSelected, wanted, device, signalled, stuck>>

(* Any of them returns an error, no device is found, or not the one wanted. *)
Throws(p) ==
    /\ pc[p] \in InTry /\ Goto(p, "Uninit")
    /\ threw' = threw \cup {p}
    /\ UNCHANGED <<service, flags, wanted, device, signalled, stuck>>

-----------------------------------------------------------------------------
(* close(), after a failed connect() or at the end of main. *)

(* Mutant: an Uninit that fails is the end of close(). *)
UninitGivesUp(p) ==
    /\ pc[p] = "Uninit"
    /\ IF p \in initialized THEN (p \notin inCallback /\ running' = running \ {p} /\ Goto(p, "ReleaseDevice"))
                                 \/ (UNCHANGED running /\ Goto(p, "closed"))
       ELSE UNCHANGED running /\ Goto(p, "ReleaseDevice")
    /\ initialized' = initialized \ {p}
    /\ UNCHANGED <<session, lock, held, inCallback, opened, deviceSelected, client>>

(* Only if initialized_; an error is logged, and close() goes on. *)
Uninit(p) ==
    /\ pc[p] = "Uninit" /\ Goto(p, "ReleaseDevice")
    /\ \/ p \in initialized /\ p \notin inCallback /\ running' = running \ {p}
       \/ UNCHANGED running
    /\ initialized' = initialized \ {p}
    /\ UNCHANGED <<session, lock, held, inCallback, opened, deviceSelected, client>>

ReleaseDevice(p) ==
    /\ pc[p] = "ReleaseDevice" /\ Goto(p, "Close")
    /\ \/ p \in deviceSelected /\ held' = [held EXCEPT ![p] = @ \ {device[p]}] /\ UNCHANGED stuck
       \/ p \in deviceSelected /\ stuck' = stuck \cup {p} /\ UNCHANGED held
       \/ p \notin deviceSelected /\ UNCHANGED <<held, stuck>>
    /\ deviceSelected' = deviceSelected \ {p}
    /\ UNCHANGED <<session, lock, running, inCallback, opened, initialized, wanted, device, threw, signalled>>

Close(p) ==
    /\ pc[p] = "Close" /\ p \notin inCallback
    /\ Goto(p, IF p \in threw THEN "failed" ELSE "closed")
    /\ session' = session \ {p} /\ running' = running \ {p}
    /\ opened' = opened \ {p}
    /\ UNCHANGED <<lock, held, inCallback, deviceSelected, initialized, client>>

-----------------------------------------------------------------------------
(* main(), and the service's streaming thread. *)

(* SIGINT or SIGTERM, which main only looks at once connect() has returned. *)
Signal(p) ==
    /\ pc[p] \notin {"exited", "crashed"} /\ p \notin signalled
    /\ signalled' = signalled \cup {p}
    /\ UNCHANGED <<service, pc, flags, wanted, device, threw, stuck>>

(* Mutant: main leaves close() to the client's destructor. *)
MainLoopReturns(p) ==
    /\ pc[p] = "streaming" /\ p \in signalled /\ Goto(p, "closed")
    /\ UNCHANGED <<service, flags, client>>

MainLoopEnds(p) ==
    /\ pc[p] = "streaming" /\ p \in signalled /\ Goto(p, "Uninit")
    /\ UNCHANGED <<service, flags, client>>

(* main returns: the receivers are destroyed, then the client, whose      *)
(* destructor finds it closed.                                             *)
Exit(p) ==
    /\ pc[p] \in {"failed", "closed"} /\ Goto(p, "exited")
    /\ UNCHANGED <<service, flags, client>>

(* Killed: the session ends, but the lock, and the device, stay taken. *)
Crash(p) ==
    /\ pc[p] \notin {"exited", "crashed"} /\ Goto(p, "crashed")
    /\ session' = session \ {p} /\ running' = running \ {p} /\ inCallback' = inCallback \ {p}
    /\ UNCHANGED <<lock, held, flags, client>>

(* handleStream() runs the receivers on the service's thread; a call that  *)
(* ends the stream waits for it and lets no further one begin.              *)
CallbackBegins(p) ==
    /\ p \in running /\ p \notin inCallback
    /\ pc[p] \notin {"Uninit", "Close"}
    /\ inCallback' = inCallback \cup {p}
    /\ UNCHANGED <<session, lock, held, running, pc, flags, client>>

CallbackEnds(p) ==
    /\ p \in inCallback
    /\ inCallback' = inCallback \ {p}
    /\ UNCHANGED <<session, lock, held, running, pc, flags, client>>

-----------------------------------------------------------------------------
ConnectStep(p) ==
    \/ OpenOk(p) \/ OpenFails(p) \/ LockOk(p) \/ GetDevicesOk(p) \/ SelectDeviceOk(p)
    \/ UnlockOk(p) \/ GetDeviceParamsOk(p) \/ InitOk(p)
    \/ (pc[p] # "LockDeviceApi" /\ Throws(p))

CloseStep(p) == Uninit(p) \/ ReleaseDevice(p) \/ Close(p)

Step(p) == ConnectStep(p) \/ CloseStep(p) \/ MainLoopEnds(p) \/ Exit(p)

LockRefused(p) == pc[p] = "LockDeviceApi" /\ Throws(p)

Next == \E p \in Procs :
    Step(p) \/ LockRefused(p) \/ Signal(p) \/ Crash(p) \/ CallbackBegins(p) \/ CallbackEnds(p)

Spec == Init /\ [][Next]_vars

(* Every call returns, with an error or without, except the one that waits  *)
(* for the lock; callbacks return; signals and crashes need not come.       *)
Fairness == \A p \in Procs : WF_vars(Step(p)) /\ WF_vars(CallbackEnds(p))

FairSpec == Spec /\ Fairness

-----------------------------------------------------------------------------
PcNames == {"Open", "streaming", "Uninit", "ReleaseDevice", "Close", "failed", "closed", "exited", "crashed"} \cup InTry

TypeOK ==
    /\ session \subseteq Procs /\ lock \in Procs \cup {Free}
    /\ held \in [Procs -> SUBSET Devices]
    /\ running \subseteq Procs /\ inCallback \subseteq Procs
    /\ pc \in [Procs -> PcNames]
    /\ wanted \in [Procs -> Devices \cup {Any}]
    /\ opened \subseteq Procs /\ deviceSelected \subseteq Procs /\ initialized \subseteq Procs
    /\ device \in [Procs -> Devices \cup {Free}]
    /\ threw \subseteq Procs /\ signalled \subseteq Procs /\ stuck \subseteq Procs

(* "Only one process can own an RSP at a time" (client.hpp): since devices  *)
(* are listed and selected under the lock, no two processes select one.      *)
OneOwner == \A p, q \in Procs : p # q => held[p] \cap held[q] = {}

(* A live client's flags say what the service knows of it, also when a call *)
(* has failed, so close() makes no call for something it does not have: no  *)
(* Uninit after a failed Init ("a confusing secondary NotInitialised error").*)
FlagsTellTheTruth ==
    \A p \in Procs : pc[p] # "crashed" =>
        /\ p \in opened <=> p \in session
        /\ p \in initialized => p \in running
        /\ p \in deviceSelected <=> (held[p] # {} /\ p \notin stuck)

(* However far connect() got, and whichever calls of close() fail, a client *)
(* that is done has no session, no stream, no RSP and no device lock; but an *)
(* RSP whose release was refused, and the lock of a connect() that threw.    *)
(* FailedConnectUnlocks is about the latter.                                 *)
NothingLeftBehind ==
    \A p \in Procs : pc[p] \in {"failed", "closed", "exited"} =>
        /\ p \notin session /\ p \notin running
        /\ held[p] # {} => p \in stuck
        /\ lock = p => p \in threw

(* "Best-effort cleanup so a failed connect() doesn't leave the API         *)
(* locked/open" (client.cpp).                                                *)
FailedConnectUnlocks == \A p \in Procs : pc[p] = "failed" => p \notin session /\ lock # p

(* The streaming thread never calls into receivers main has destroyed. *)
ReceiversOutliveCallbacks == \A p \in inCallback : pc[p] # "exited"

(* A process that was told which RSP to use streams from that one or not at *)
(* all, whichever RSPs others had selected when it listed them.              *)
StreamsFromWanted ==
    \A p \in Procs : pc[p] = "streaming" /\ wanted[p] # Any => held[p] = {wanted[p]}

Settled(p) == pc[p] \in {"failed", "closed", "exited", "crashed"}

(* The lock will never be given back: whoever has it is past unlocking it. *)
LockLost == \E q \in Procs : lock = q /\ (Settled(q) \/ pc[q] \in {"Uninit", "ReleaseDevice", "Close"})

(* connect() returns or throws, however many processes compete, unless the  *)
(* lock is lost: a process that streams keeps nobody else waiting.          *)
ConnectSettles == \A p \in Procs : pc[p] \in InTry ~> (pc[p] = "streaming" \/ Settled(p) \/ LockLost)

(* A signal ends the process, wherever it comes, unless the lock is lost. *)
SignalEnds == \A p \in Procs : p \in signalled ~> (pc[p] \in {"exited", "crashed"} \/ LockLost)

(* How far the client is as a source of IQ: the close() of a connect() that *)
(* has failed is part of that connect().                                     *)
SourceState(p) ==
    CASE pc[p] = "Open"      -> "idle"
      [] pc[p] = "streaming" -> "streaming"
      [] pc[p] = "crashed"   -> "killed"
      [] pc[p] \in InTry     -> "connecting"
      [] pc[p] \in {"Uninit", "ReleaseDevice", "Close"} -> IF p \in threw THEN "connecting" ELSE "closing"
      [] pc[p] \in {"failed", "closed", "exited"} -> IF p \in threw THEN "failed" ELSE "closed"

Source(p) == INSTANCE IqSource WITH state <- SourceState(p), inCallback <- p \in inCallback

(* Every process keeps what iq_source.hpp promises main(): whichever calls  *)
(* fail, no callback runs once connect() has thrown or close() returned.     *)
(* (Source(p)!Spec for every p, in a form TLC takes.)                        *)
KeepsSourcePromise ==
    /\ \A p \in Procs : Source(p)!Init
    /\ [][\A p \in Procs : [Source(p)!Next]_(Source(p)!vars)]_vars
=============================================================================
