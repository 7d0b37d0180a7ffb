------------------------------- MODULE Process -------------------------------
(***************************************************************************)
(* One run of the program (main.cpp), from its configuration to its exit:    *)
(* the receivers, their endpoints and the source of IQ brought up in order,  *)
(* unwound when one of them fails, stopped on a signal and destroyed, while  *)
(* the source calls back on a thread of its own.                             *)
(*                                                                           *)
(* The source is IqSource, which SdrplayApi and SdrConnect implement; of an  *)
(* endpoint there is what RtlTcpServer and SpyServer show: start() listens   *)
(* or throws, stop() leaves no accept thread, and a SpyServer endpoint keeps *)
(* stop() and the callback waiting while a client that does not read holds   *)
(* up a reply.                                                               *)
(***************************************************************************)
EXTENDS Config

CONSTANT Configs   (* the configurations the program may be started with     *)

Receivers == [tcpPort : Nat, spyserverPort : Nat, center : Int, rate : Int]

ASSUME ConfigsAssumption ==
    \A c \in Configs : c.receivers \in Seq(Receivers) /\ c.rate \in Int /\ c.center \in Int

VARIABLES
    cfg,         (* config                                                    *)
    pc,          (* where main is                                             *)
    built,       (* how many receivers are constructed                        *)
    turn,        (* the endpoint that the loop over endpoints is at           *)
    listening,   (* endpoints that listen                                     *)
    registered,  (* endpoints whose addIqCallback() was called                *)
    stalled,     (* endpoints whose mutex is held over a send() that blocks   *)
    state, inCallback,  (* the source                                         *)
    alive,       (* what main has yet to destroy                              *)
    signalled,   (* g_shouldExit                                              *)
    status       (* the exit status                                           *)

sourceVars == <<state, inCallback>>
endpoints  == <<turn, listening, registered, stalled>>
vars == <<cfg, pc, built, endpoints, sourceVars, alive, signalled, status>>

Source == INSTANCE IqSource

(* The endpoints in the order main starts and stops them: rtl_tcp for every *)
(* receiver, then SpyServer where a port is given.                           *)
Count == Len(cfg.receivers)

Last == 2 * Count

Positions == 1..Last

Port(i) == IF i <= Count THEN cfg.receivers[i].tcpPort ELSE cfg.receivers[i - Count].spyserverPort

Endpoint == {i \in Positions : i <= Count \/ Port(i) # 0}

(* Port 0 is any free one. *)
Clash(d, e) == d # e /\ Port(d) = Port(e) /\ Port(d) # 0

(* The locals of main() in the order they are destroyed. *)
Locals == <<"spyServers", "servers", "receivers", "client">>

Init ==
    /\ cfg \in Configs
    /\ pc = "load" /\ built = 0
    /\ turn = 1 /\ listening = {} /\ registered = {} /\ stalled = {}
    /\ Source!Init
    /\ alive = {Locals[i] : i \in DOMAIN Locals}
    /\ signalled = FALSE /\ status = "none"

-----------------------------------------------------------------------------
(* Starting. *)

(* loadConfig() throws: nothing has been made yet. *)
LoadFails ==
    /\ pc = "load" /\ ~Accepted(cfg)
    /\ pc' = "exited" /\ status' = "failure"
    /\ UNCHANGED <<cfg, built, endpoints, sourceVars, alive, signalled>>

Load ==
    /\ pc = "load" /\ Accepted(cfg)
    /\ pc' = "build"
    /\ UNCHANGED <<cfg, built, endpoints, sourceVars, alive, signalled, status>>

Build ==
    /\ pc = "build" /\ built < Count
    /\ Constructs(cfg, cfg.receivers[built + 1])
    /\ built' = built + 1
    /\ UNCHANGED <<cfg, pc, endpoints, sourceVars, alive, signalled, status>>

(* The exception of a constructor is outside the try block: std::terminate. *)
BuildThrows ==
    /\ pc = "build" /\ built < Count
    /\ ~Constructs(cfg, cfg.receivers[built + 1])
    /\ pc' = "aborted"
    /\ UNCHANGED <<cfg, built, endpoints, sourceVars, alive, signalled, status>>

Built ==
    /\ pc = "build" /\ built = Count
    /\ pc' = "start"
    /\ UNCHANGED <<cfg, built, endpoints, sourceVars, alive, signalled, status>>

(* Mutant: SO_REUSEPORT, so that a port can be bound twice. *)
StartEndpointReuse ==
    /\ pc = "start" /\ turn \in Endpoint
    /\ listening' = listening \cup {turn} /\ registered' = registered \cup {turn}
    /\ turn' = turn + 1
    /\ UNCHANGED <<cfg, pc, built, stalled, sourceVars, alive, signalled, status>>

StartEndpoint ==
    /\ pc = "start" /\ turn \in Endpoint
    /\ \A e \in listening : ~Clash(e, turn)
    /\ listening' = listening \cup {turn} /\ registered' = registered \cup {turn}
    /\ turn' = turn + 1
    /\ UNCHANGED <<cfg, pc, built, stalled, sourceVars, alive, signalled, status>>

(* Mutant: the handler leaves it to the destructors to stop the endpoints. *)
StartFailsReturn ==
    /\ pc = "start" /\ turn \in Endpoint
    /\ pc' = "destroy" /\ status' = "failure"
    /\ UNCHANGED <<cfg, built, endpoints, sourceVars, alive, signalled>>

(* socket(), bind() or listen() fails: another program, or another endpoint *)
(* of this one, has the port.                                                *)
StartFails ==
    /\ pc = "start" /\ turn \in Endpoint
    /\ pc' = "unwind" /\ turn' = 1
    /\ UNCHANGED <<cfg, built, listening, registered, stalled, sourceVars, alive, signalled, status>>

Connect ==
    /\ pc = "start" /\ turn \notin Positions /\ Source!Connect
    /\ pc' = "connect"
    /\ UNCHANGED <<cfg, built, endpoints, alive, signalled, status>>

Connected ==
    /\ pc = "connect" /\ Source!Connected
    /\ pc' = "poll"
    /\ UNCHANGED <<cfg, built, endpoints, alive, signalled, status>>

ConnectThrows ==
    /\ pc = "connect" /\ Source!Throws
    /\ pc' = "unwind" /\ turn' = 1
    /\ UNCHANGED <<cfg, built, listening, registered, stalled, alive, signalled, status>>

-----------------------------------------------------------------------------
(* Ending. *)

Running == pc \notin {"exited", "aborted", "killed"}

(* SIGINT or SIGTERM; until the handlers are installed it kills. *)
Signal ==
    /\ Running /\ ~signalled
    /\ signalled' = TRUE
    /\ IF pc = "load" THEN pc' = "killed" ELSE UNCHANGED pc
    /\ UNCHANGED <<cfg, built, endpoints, sourceVars, alive, status>>

Poll ==
    /\ pc = "poll" /\ signalled
    /\ pc' = "stop" /\ turn' = 1
    /\ UNCHANGED <<cfg, built, listening, registered, stalled, sourceVars, alive, signalled, status>>

(* Mutant: stop() waits for the accept thread of an endpoint without one. *)
StopEndpointStarted ==
    /\ pc \in {"unwind", "stop"} /\ turn \in listening \ stalled
    /\ listening' = listening \ {turn} /\ turn' = turn + 1
    /\ UNCHANGED <<cfg, pc, built, registered, stalled, sourceVars, alive, signalled, status>>

(* stop() needs the endpoint's mutex, and shuts down whoever is connected;  *)
(* an endpoint that never started has nothing to stop.                       *)
StopEndpoint ==
    /\ pc \in {"unwind", "stop"} /\ turn \in Endpoint \ stalled
    /\ listening' = listening \ {turn} /\ turn' = turn + 1
    /\ UNCHANGED <<cfg, pc, built, registered, stalled, sourceVars, alive, signalled, status>>

(* `if (spyserverPort == 0) continue`, in each of the loops. *)
NoEndpoint ==
    /\ pc \in {"start", "unwind", "stop"} /\ turn \in Positions \ Endpoint
    /\ turn' = turn + 1
    /\ UNCHANGED <<cfg, pc, built, listening, registered, stalled, sourceVars, alive, signalled, status>>

Unwound ==
    /\ pc = "unwind" /\ turn \notin Positions
    /\ pc' = "destroy" /\ status' = "failure"
    /\ UNCHANGED <<cfg, built, endpoints, sourceVars, alive, signalled>>

(* Mutant: the source is closed while endpoints are still up. *)
CloseEarly ==
    /\ pc = "stop" /\ Source!Close
    /\ pc' = "close"
    /\ UNCHANGED <<cfg, built, endpoints, alive, signalled, status>>

(* Mutant: main leaves closing the source to its destructor. *)
CloseLeft ==
    /\ pc = "stop" /\ turn \notin Positions
    /\ pc' = "destroy" /\ status' = "success"
    /\ UNCHANGED <<cfg, built, endpoints, sourceVars, alive, signalled>>

Close ==
    /\ pc = "stop" /\ turn \notin Positions /\ Source!Close
    /\ pc' = "close"
    /\ UNCHANGED <<cfg, built, endpoints, alive, signalled, status>>

Closed ==
    /\ pc = "close" /\ Source!Closed
    /\ pc' = "destroy" /\ status' = "success"
    /\ UNCHANGED <<cfg, built, endpoints, alive, signalled>>

(* The stop() and close() of the destructors find nothing to do. *)
Destroy ==
    /\ pc = "destroy"
    /\ \E i \in DOMAIN Locals :
          /\ Locals[i] \in alive /\ \A j \in 1..(i - 1) : Locals[j] \notin alive
          /\ alive' = alive \ {Locals[i]}
    /\ UNCHANGED <<cfg, pc, built, endpoints, sourceVars, signalled, status>>

Exit ==
    /\ pc = "destroy" /\ alive = {}
    /\ pc' = "exited"
    /\ UNCHANGED <<cfg, built, endpoints, sourceVars, alive, signalled, status>>

-----------------------------------------------------------------------------
(* A SpyServer client that has its reply block, and one that reads or leaves. *)
Stall(e) ==
    /\ e \in listening /\ e > Count
    /\ stalled' = stalled \cup {e}
    /\ UNCHANGED <<cfg, pc, built, turn, listening, registered, sourceVars, alive, signalled, status>>

Resume(e) ==
    /\ e \in stalled
    /\ stalled' = stalled \ {e}
    /\ UNCHANGED <<cfg, pc, built, turn, listening, registered, sourceVars, alive, signalled, status>>

(* The source's thread, in the callback main has given it, which goes to the *)
(* endpoints one by one and may be past one that stalls.                     *)
CallbackBegins == Running /\ Source!CallbackBegins /\ UNCHANGED <<cfg, pc, built, endpoints, alive, signalled, status>>

CallbackEnds == Source!CallbackEnds /\ UNCHANGED <<cfg, pc, built, endpoints, alive, signalled, status>>

MainStep ==
    \/ LoadFails \/ Load \/ Build \/ BuildThrows \/ Built
    \/ StartEndpoint \/ NoEndpoint \/ StartFails \/ Connect
    \/ Poll \/ StopEndpoint \/ Unwound \/ Close \/ Destroy \/ Exit

Next ==
    \/ MainStep \/ Connected \/ ConnectThrows \/ Closed \/ Signal
    \/ CallbackBegins \/ CallbackEnds
    \/ \E e \in Positions : Stall(e) \/ Resume(e)

Spec == Init /\ [][Next]_vars

(* main goes on, past a mutex that stays free; connect(), close() and        *)
(* callbacks need not come to an end, a signal need not come, and clients    *)
(* owe nothing.                                                              *)
FairSpec == Spec /\ WF_vars(MainStep)

-----------------------------------------------------------------------------
PcNames == {"load", "build", "start", "connect", "poll", "unwind", "stop", "close",
            "destroy", "exited", "aborted", "killed"}

TypeOK ==
    /\ pc \in PcNames
    /\ built \in 0..Count /\ turn \in 1..(Last + 1)
    /\ listening \subseteq registered /\ registered \subseteq Endpoint
    /\ stalled \subseteq {e \in listening : e > Count}
    /\ state \in {"idle", "connecting", "streaming", "closing", "closed", "failed"}
    /\ inCallback \in BOOLEAN /\ signalled \in BOOLEAN
    /\ alive \subseteq {"client", "receivers", "servers", "spyServers"}
    /\ status \in {"none", "success", "failure"}

(* While the source's thread is in the callback, which goes through the     *)
(* receivers and through each receiver's list of endpoints without a lock,   *)
(* no endpoint is still to be added to a list and nothing of it is destroyed. *)
CallbackSafe == inCallback => registered = Endpoint /\ {"receivers", "servers", "spyServers"} \subseteq alive

(* Nothing is destroyed under an endpoint that listens, however far startup *)
(* came: when main returns, and when a constructor ends the process, no port *)
(* is open.                                                                  *)
NothingLeftListening ==
    listening # {} => /\ {"receivers", "servers", "spyServers"} \subseteq alive
                      /\ pc \notin {"destroy", "exited", "aborted"}

(* IQ flows only with every configured endpoint up, on a port of its own,   *)
(* and every receiver at an offset and a rate the capture can serve.         *)
ServesAll ==
    pc = "poll" =>
        /\ listening = Endpoint
        /\ \A d, e \in Endpoint : ~Clash(d, e)
        /\ \A i \in DOMAIN cfg.receivers : cfg.receivers[i].rate > 0 /\ WithinSpan(cfg, cfg.receivers[i].center)

(* The process ends with success just when it streamed, was told to stop    *)
(* and gave its source back; Restart=on-failure (README.md) goes by that.    *)
ExitStatus == pc = "exited" => (status = "success" <=> state = "closed") /\ (status = "success" => signalled)

(* The source is closed with no endpoint accepting clients, so a descriptor *)
(* number its read thread gives back meanwhile is not given to anyone while  *)
(* close() still shuts that number down.                                     *)
ClosedAlone == state = "closing" => listening = {}

(* "sample rates below the RSP ADC's 2 MSPS floor are handled via hardware  *)
(* decimation automatically" (README.md): what the RSP delivers is the       *)
(* configured rate, from the lowest ADC rate that will do; but for rates so  *)
(* low that the factor does not fit its field.                               *)
HardwareRate ==
    cfg.connection = "api" /\ pc = "poll" =>
        LET hw == Hardware(cfg.rate)
        IN  /\ hw.adc >= AdcMin
            /\ hw.enable <=> cfg.rate < AdcMin
            /\ hw.enable => hw.adc < 2 * AdcMin
            /\ 128 * cfg.rate >= AdcMin => hw.adc = cfg.rate * hw.field

(* A signal ends the process, wherever it comes, unless a constructor has   *)
(* ended it, connect() or close() never comes to an end (when close() does  *)
(* is in CloseEnds of SdrConnect), or SpyServer clients that do not read    *)
(* keep blocking replies for ever.                                           *)
SignalEnds ==
    signalled ~> (~Running \/ [](state = "connecting") \/ [](state = "closing") \/ []<>(stalled # {}))
=============================================================================
