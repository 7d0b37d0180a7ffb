# Verification of sdrplay-vrx-server

TLA+ modules, TLC configurations and TLAPS proofs for the C++ service under `src/`.
Source paths are relative to `src/src/` unless they begin with `src/`.

## 1. The system

One process turns the wideband IQ stream of one receiver into several *virtual
receivers* (VRX). Each is served to TCP clients as an rtl_tcp dongle and, if
configured, as a SpyServer.

| Component | Source | State | Operations | Talks to |
|---|---|---|---|---|
| main | `main.cpp` | `g_shouldExit`, the objects it owns | build, start, wait for a signal, stop | everything |
| Config | `config.cpp` | `AppConfig` | load and validate | main |
| IqSource | `iq_source.hpp` | – | connect, close, setIqCallback | main, the VRXs |
| SdrplayApiClient | `sdrplay/client.cpp` | three flags, `device_`; the vendor service's sessions, lock, selections | connect, close, callbacks | vendor service |
| SdrConnectClient | `sdrconnect/client.cpp` | `running_`, read thread | connect, read loop, close | WebSocketClient |
| WebSocketClient | `sdrconnect/websocket.cpp` | `fd_`, `pendingBytes_` | handshake, frames, ping/pong, close | kernel |
| VirtualReceiver, Nco | `dsp/virtual_receiver.cpp`, `dsp/nco.hpp` | `centerFrequencyHz_`, phasor, rotation | retune, processWidebandChunk | endpoints |
| Decimator | `dsp/decimator.cpp` | `history_` | process | VirtualReceiver |
| RtlTcpServer | `rtltcp/server.cpp` | `running_`, `listenFd_`, `clientFds_`, threads | start, stop, accept, read, broadcast | kernel, VirtualReceiver |
| SpyServerServer | `spyserver/server.cpp` | `clients_` with a `ClientState` each, threads | the same, and commands with replies | kernel, VirtualReceiver |

**Threads.** main; the streaming thread (the driver's, or the WebSocket read
thread), which runs every VRX's DSP chain and every endpoint's broadcast one after
the other; per endpoint one accept thread; per client one detached read thread.

**Shared state.** `clientFds_` / `clients_` under each endpoint's `clientsMutex_`
(accept, read, streaming, main); the NCO and the centre frequency with no lock at
all (read threads of both endpoints, streaming); the kernel's descriptor numbers
(everyone); the vendor's device lock (every process on the machine).

**What is hard.** Descriptors closed by one thread while another writes to them;
a blocking `send()` under a mutex the streaming thread needs; `stop()` working on a
snapshot; torn reads of the rotation; chunk sizes the driver picks; failures in the
middle of the vendor's call sequence; another process holding the vendor's lock.
PROJECT.json lists all hazards with their lines, and the properties aimed at each.

## 2. Modules

Which module uses which (arrows point at what is used; ⇒ is a refinement shown by
TLC and proved):

    Process ── INSTANCE ──> IqSource <══ SdrplayApi
       └── EXTENDS ──> Config      <══ SdrConnect
    RtlTcpServer ══> IqEndpoint <══ SpyServer
    Framing ══> OrderedStream
    VirtualReceiver ── EXTENDS ──> Decimator

### Decimator — `dsp/decimator.cpp`
Input sample *k* of the stream is the number *k*, so an output sample *is* the window
it was computed from, and silence is 0. `Process(n)` is one call of `process()` with a
chunk of *n* samples: `Buf` is `buf`, `OutSamples` the window count, `NextHistory` the
right-aligned tail. The multiplication by the taps treats all windows alike and is
left out. `newest`, `produced` and `received` are history variables. The module's Init, Next
and Spec are called DecimatorInit, DecimatorNext and DecimatorSpec, since VirtualReceiver extends it.

### IqEndpoint — `rtltcp/server.hpp`, `spyserver/server.hpp`
The abstract endpoint, what main and the VRX rely on whatever protocol it speaks: a
client is taken in once, talked and broadcast to while it is served, let go of, and only
then is its socket closed; none is taken in once `stop()` has its snapshot, and `stop()` returns
with every client it still serves cut off (`over`: the client left, or was shut down). Descriptors,
locks, accept threads and handshakes are the implementations' affair. `Broadcast` may
pass over any client: chunks are dropped for the slow.

### RtlTcpServer — `rtltcp/server.cpp`
The descriptor table is explicit (`fdConn`, lowest free number first), and
`Foreign` stands for every socket of other endpoints, so numbers are reused the way
POSIX does. `clientsMutex_` only ever covers non-blocking calls: a critical section is
one step. `AcceptCheck … Spawn` is `acceptLoop()`, statement by statement
(`accept()`, header, registration, thread); `RecvEnds, Remove, Close` is the end of
`clientReadLoop()`; `CloseListen … StopReturn` is `stop()`. `Broadcast` lets each
`send()` take any number of bytes. Commands do not touch this state; how they are cut
out of the stream is in Framing, and what a retune does in VirtualReceiver.

### SpyServer — `spyserver/server.cpp`
The same threads, without the descriptor numbers (RtlTcpServer has them: the code is
the same), with the sessions and the messages. Here the mutex *is* a variable: a
reply that finds no room in the socket buffer keeps it (`SendBlocks` …
`SendResumes`). `first` and `asked` record what a client did; `wire` what it was sent.
`Talkers` are the clients that send commands; the others only connect, are served and leave.
Room is counted in control messages, an IQ message taking two; only *whether* a
message fits matters to the properties.

### Framing, OrderedStream — `rtltcp/server.cpp:112-134`, `spyserver/server.cpp:124-157`
One client's bytes are positions in its stream; `recvBuf` is what lies between
`erased` and `received`, and `offset` the parser's place in it. A SpyServer command is
a header that says how long its body is; an rtl_tcp command is all header, the
instance with empty bodies. What the parser reads as a header means something only
where the client began a command: anywhere else `BodySizeAt` lets it find any length, so a
parser that lost its place would be caught. `OrderedStream` is the promise: items
handled whole, once, in order, until the connection ends.

### VirtualReceiver — `dsp/virtual_receiver.cpp`, `dsp/nco.hpp`
`retune()` is the check, then one step per field written; `mixInPlace()` one step per
field read: the fields are plain `double`s shared without synchronisation, so each
access is separate and a thread's accesses come in any order. Frequencies are
quarters of the sample rate, where sine and cosine are exactly −1, 0 or 1: that is
enough to tell a rotation of magnitude one from a mixture of two. `Mix(n)` ends a chunk:
the phasor is turned once per sample and renormalised, and the samples go through the
receiver's Decimator (`Process(n)`). The phasor is `"unit"` or, for good, `"nan"`: after normalising by zero, and
perhaps after a rotation of magnitude above one, which *n* samples may take to infinity.
An empty chunk leaves it alone. `alone` and `undisturbed` are history variables: no retune overlaps
another; none has written since the chunk was begun.

### IqSource — `iq_source.hpp`
The abstract source: `connect()` streams or throws, the callback runs on another thread
while the source streams or is being closed, and neither a `connect()` that has
thrown nor a `close()` that has returned leaves one running.

### SdrplayApi — `sdrplay/client.cpp`, `main.cpp`
Any number of processes (runs of `main`) share the vendor's service. `pc` names the
API call a process makes next; each has a success action and `Throws`; `Uninit`,
`ReleaseDevice`, `Close` are `close()`, where every call may fail and is passed over.
The service is external, modelled after the source's comments: one lock
for all processes which only an unlock gives back; GetDevices lists what nobody has
selected. `Crash` is a kill: the session ends, the lock and the selection stay.
`Throws` leaves the lock where it is, as the code does.
`SourceState` maps a process to IqSource; the `close()` that a failing `connect()`
makes is still "connecting" there.

### SdrConnect — `sdrconnect/client.cpp`, `sdrconnect/websocket.cpp`
`pc` walks through `connect()` (dial, upgrade, settings, read thread) and `close()`
(CLOSE frame, `shutdown()`, join, destructor) on main's thread; `readPc` through
`runReadLoop()`. `fdSet` is `fd_ >= 0`, `sock` the descriptor itself: the read thread
closes it and clears `fd_` in two steps, without a lock. `early` is how much of
`received` came with the upgrade's reply (`pendingBytes_`). The server is free to
answer, drip, refuse, leave or stop reading at any point, but speaks RFC 6455. Frames are
whole: Framing shows what arbitrary reads do to a parser of that form.

### Config — `config.cpp`, and the checks and arithmetic of its consumers
Operators only: `Accepted` (loadConfig), `Constructs` (the constructors),
`Hardware` (the ADC rate and decimation factor the RSP is given, the factor in its
8-bit field). A configuration is a record; whether the YAML had its fields with the right
types is the one Boolean `complete`.

### Process — `main.cpp`
One run of the program from its configuration to its exit: `Build`, `StartEndpoint`
in the order of main's loops (`turn`), `Connect`; `StopEndpoint` for unwinding and
stopping; `Close`; `Destroy` in the reverse order of declaration. The source is an
instance of IqSource; of an endpoint there is what RtlTcpServer and SpyServer show:
`start()` listens or throws, and `stop()` returns unless the endpoint is `stalled`: a SpyServer
endpoint's mutex is held over a reply that blocks for as long as its client likes (`Stall`,
`Resume`). Every endpoint's start and `connect()` may fail, and a signal may come at any moment.

`MC*` modules instantiate these for TLC; `*Proofs` modules hold the theorems.
Operators introduced by a comment starting *Mutant:* are plausible bugs, not part of
any specification; each property fails when its mutant takes the definition's place.

## 3. Runs

| Run | Bounds | Properties | Shows |
|---|---|---|---|
| decimator_rate ✗ | 4 taps, factor 3, chunks of 0, 1, 2, 4, 5, 7 samples, 12 in all | OutputRate | output *is* too slow when chunks are not whole strides |
| rtltcp_clients | 2 clients, 2 descriptors, 2 chunks | RegisteredFdIsLive, SoleOwner, HeaderThenChunks, KeepsEndpointPromise, StopDrains, LeaverFreed | broadcast writes only to live clients, threads close only their own descriptor and leave none open, header first and once, chunks in order, `stop()` returns and misses nobody; implements IqEndpoint |
| rtltcp_short_write ✗ | 1 client, 2 chunks of 2 bytes | WholeChunks | chunks are cut, not dropped |
| vrx_clients | 2 clients alike, 2 frequencies within the span and 1 beyond; 4 taps, factor 3, chunks of 0, 1, 2, 4, 5, 7 samples, 8 in all | LoneRetuneTunes, UndisturbedChunkTuned, SteadyUnlessDisturbed, WindowsContiguous, StrideAtLeastFactor | a retune that meets no other tunes what it reports, undisturbed chunks are mixed with it at steady amplitude, windows are contiguous over chunk borders, output never too fast |
| vrx_retune_race ✗ | the same | TunedTogether | two retunes at once leave reported and actual frequency apart |
| spy_clients | 2 clients that read or leave, one of which sends 2 commands of 5 kinds; room for 1, 1 chunk | SequenceGrows, HandshakeLeads, NoIqUninvited, KeepsEndpointPromise, BroadcastReturns, HelloAnswered, StopReturns | numbering, handshake order, no IQ uninvited; implements IqEndpoint; every Hello answered; liveness of endpoint and `stop()` |
| spy_stalled ✗ | 1 client that need not read, 2 pings, room for 1 | BroadcastReturns | the shared streaming thread hangs |
| sdrplay_shared | 2 processes, 2 RSPs | OneOwner, FlagsTellTheTruth, NothingLeftBehind, StreamsFromWanted, ConnectSettles, SignalEnds, KeepsSourcePromise | ownership, flags, clean-up, progress, and each process implements IqSource |
| sdrplay_lock ✗ | 2 processes, 1 RSP | FailedConnectUnlocks | a `connect()` that throws may keep the vendor's lock |
| framing_commands | header 2, bodies 0–3 with limit 2, `recv()` up to 5, 4 commands | NothingWholeWaits, BufferBounded, ImplementsStream | each command whole, once, in order, without delay, in a bounded buffer |
| sdrconnect_source | 3 frames, 2 settings, room for 2 | MessagesWhole, OnlyEarlyFramesLost, ClosedOnce, KeepsSourcePromise, ConnectSettles, CloseEnds | messages whole, descriptor closed once, progress, and the client implements IqSource |
| process_life | 3,128 configurations, see below | CallbackSafe, NothingLeftListening, ServesAll, ClosedAlone, HardwareRate, SignalEnds | start-up is unwound, callbacks meet nothing that is going away, only what can be served is, a signal ends the process but for the exceptions SignalEnds names |

✗: the run checks one statement of the repository's documentation or comments and
TLC refutes it (section 5).

Type invariants, and NoLateClient (both endpoints), StreamedToOpen, HelloHonoured and LockHeld
(SpyServer), TunedWithinSpan, HistoryIsTail, HandledInOrder, ExitStatus and
ReceiversOutliveCallbacks, are not among the runs' properties: they are proved, for every value
of the constants (section 4).

**Why the bounds suffice.** *VRX*: a race needs two retunes and a streaming thread, and clients differ in
nothing but their name (symmetry). The two frequencies within the span have rotations that differ in
both parts, so that mixtures of magnitude nought, one and the square root of two arise. The chunk sizes are below, at and
above both the factor and the filter length, and 8 samples are more than two strides with calls that
produce nothing in between; the theorems then cover all sizes, frequencies and numbers of clients.
*RtlTcp*: two descriptors with two clients and a foreign socket give reuse, exhaustion and two
threads at the mutex, two chunks an order to keep. *Spy*: the five kinds are one for each way a
command is handled, and two in a row bring a repeated Hello, enabling before and after one, and
a client that is thrown out in the middle; a buffer that the first of the two Hello
replies fills is the smallest that blocks; two clients bring one blocked while the other is
accepted, removed or waits. The safety theorems cover every command, length and buffer. *Sdrplay*: two processes suffice for every conflict over the lock or an RSP.
*Framing*: a header of 2 can be cut in the middle; a body is absent, shorter than, exactly
and beyond the limit; a `recv()` of up to 5 returns parts of one command, two
whole ones, or a whole one with parts of the next; the theorems cover all sizes.
*SdrConnect*: three frames are a
message in three parts, a control frame between two parts, or two messages, each
cut anywhere between handshake and read loop; two settings overrun a
buffer of two when the PONG or CLOSE is added. *Process*: one receiver with every kind of
rate (negative, zero, not dividing, dividing) and centre (inside, at the edge,
outside), two receivers whose ports are free, equal or absent, at one capture rate, and
one whose configuration is wrong in each way the sections can be; capture rates below, at
and above the ADC's minimum, and one whose factor does not fit its field.

**Deadlock** is checked in the RtlTcpServer, SpyServer and VirtualReceiver runs. It says something in SpyServer only:
in RtlTcpServer other sockets can always come and go, and in VirtualReceiver a client can always retune. Elsewhere
the system may really stop: the stream of the Decimator runs is bounded and ends, the client
of Framing leaves, the connection of SdrConnect is over, the process of Process exits, and in
SdrplayApi a process may in addition wait for ever for a lock that is lost.

**Fairness.** RtlTcpServer: weak fairness of `stop()`'s steps once it has begun, of
the accept thread and of every read thread: the operating system schedules threads
that can run. Nothing is assumed of clients, of the other endpoints or of signals.
SpyServer: the same and of the broadcast,
waiting for the mutex. Weak fairness is
enough here because the clients' commands are bounded (`MaxCommands`): a thread is
not assumed to win against an unending stream of competitors. `ReadingClients` adds
clients that take what is in their buffer unless they leave; spy_stalled shows
what happens without. SdrplayApi: every vendor call returns, successfully or not, but for
LockDeviceApi, which the source says can block for ever; callbacks return.
Framing: weak fairness of the read thread, which includes that TCP delivers; the client owes
nothing. SdrConnect: weak fairness of `connect()`, of `close()` once begun and of the
read thread; the server owes nothing, and main need never close. Process: weak fairness
of main's own steps, and nothing else. A step of `stop()` is one that can be taken as long as the endpoint's mutex
stays free: if it is stalled again and again, main may wait for ever. `connect()`, `close()` and callbacks need not come to an
end, and SignalEnds names each of these exceptions; that they end with either backend is what SignalEnds
of SdrplayApi and CloseEnds of SdrConnect are about, and that stalls end where clients read or leave, StopReturns.

**Refinements.** `KeepsSourcePromise` of SdrplayApi (for every process) and of SdrConnect is
the specification of IqSource under `SourceState`; `ImplementsStream` of Framing is that of OrderedStream,
with its fairness. `KeepsEndpointPromise` of RtlTcpServer and of SpyServer is that of IqEndpoint under
`EndpointState` and `Phase`; it is the safety half, and StopDrains and StopReturns say that `stop()`
does return. Process composes IqSource with main, so what it shows holds with
either backend.

## 4. Proofs

Checked by TLAPS for every value of the constants, from the modules' `ASSUME`s
alone (sizes are naturals, null values differ from real ones, the receivers of a
configuration are a sequence of records).

- **DecimatorProofs.** The inductive invariant is TypeOK ∧ HistoryIsTail ∧
  WindowsContiguous ∧ `NewestBehind` (the newest sample filtered lies at least one
  stride before the next one): with the index arithmetic of `Buf` it gives
  HistoryIsTail, WindowsContiguous and StrideAtLeastFactor for any
  filter, factor and chunk sizes. `AlignedRate` and `AlignedStride` add the converse of the
  finding: if every chunk is whole strides, output has exactly the configured rate.
- **RtlTcpServerProofs.** The invariant says, of each descriptor number, which
  connection holds it and at which point of which thread (`Owners`): a number in `clientFds_`
  belongs to a reader that has not passed `removeClient()`, every such reader is there
  (`Registered`), and a number held by a connection is its own. `Wires` says what a client was sent
  when: nothing before it is greeted, no chunk from the future. From these RegisteredFdIsLive,
  SoleOwner, HeaderThenChunks and NoLateClient for any number of clients and descriptors.
  `Reached` (whoever is still served when `stop()` shuts clients down is over, or its number
  is still to come) holds although numbers are reused meanwhile, because a number
  only leaves its client after `removeClient()`; with it each step is one of IqEndpoint or
  none (EndpointImplemented).
- **SpyServerProofs.** `IInv` = types ∧ a replying thread has a reply ∧ the table
  (`AcceptJoined`, `Accepted`, `Unaccepted`, `Members`): who may be in `clients_` at
  which point of the accept and read threads. On top of it `WireStep`: any step leaves a
  client's wire alone or appends one message with the session's number, which
  it then passes. Hence StreamedToOpen, NoLateClient, SequenceGrows, NoIqUninvited.
  `Stage` follows a handshake from the client's Hello to its second reply: streaming
  stays disabled meanwhile because the thread that would enable it is the one that
  answers, and a dead connection's wire does not change. Hence HandshakeLeads. `Honoured` (a
  greeted session is dead, synced, or its thread has the client sync among its replies) gives
  HelloHonoured: no message of another thread, no full buffer and no wait for the lock loses
  the answer. LockHeld is inductive by itself: the lock outlives a step only in the hands of
  a blocked reply. `Promising` (a client is in the table while its thread may reply, nothing runs
  before `start()`, `stop()` has yet to reach whoever it has not shut down) gives
  EndpointImplemented, the refinement of IqEndpoint.
- **VirtualReceiverProofs.** Every step is one of Decimator or leaves it alone (ReceiverDecimates), so the
  theorems on windows and strides hold of a receiver. TunedWithinSpan, LoneRetuneTunes,
  UndisturbedChunkTuned and SteadyUnlessDisturbed for any number of clients. While `alone` holds, one client at most is
  retuning and each field it has written holds its target's value (`LoneWriter`), so
  its last write leaves all three in step, whatever was there before; what an undisturbed chunk has copied is
  still the rotation (`ReadIsCurrent`). Without `alone` TunedTogether is false (section 5).
- **SdrplayApiProofs.** `Stages` ties the flags and the service's state to the program
  counter; `Locking` says who can be between lock and unlock. With OneOwner they are
  inductive and give every safety property of sdrplay_shared for any number of
  processes and devices; that the only lock left behind is that of a `connect()` that threw needs `Unlocking`
  (who has got past the unlock, or never to the lock, does not have it). `Thrown` (where a process whose `connect()` throws may be) and
  `SourceStep` (each step maps to a step of IqSource or to none) give KeepsSourcePromise.
- **FramingProofs.** `Layout` (commands follow one another without gaps), `Cursor`
  (the parser is at the start of the first command not handled, and what is handled is
  what was sent) and `Kept` (what waits is less than one command) are inductive with
  NothingWholeWaits and BufferBounded; then every step is one of OrderedStream, or none.
- **SdrConnectProofs.** `Threads` (which thread is where), `Descriptor` (what that says of
  `fd_` and the socket) and `Buffer` (when frames are left over) are inductive and give
  ClosedOnce, OnlyEarlyFramesLost and, step by step, the refinement of IqSource. MessagesWhole
  needs to know what a stream of frames looks like at *any* point, since the read loop
  may be anywhere in it: `Latest(s, n)` is the last data frame among the first *n*; `Numbered`
  says that each data frame continues the one before it as RFC 6455 prescribes, and `Ordered`
  what follows of all frames before and after *n*. `InHand` (the fragment in hand is exactly the parts up to
  `Latest`) and `Handed` (each message handed on is whole, none twice, and none that ended
  is missing) are inductive with them: MessagesDelivered, for any number of
  messages, parts and control frames.
- **ProcessProofs.** `ByStage` (what listens, what is registered and what the source does
  at each stage of main), `Ended` (what is alive and which status is due) and
  `Checked` (what has passed the checks so far) are inductive for any set of configurations.
  HardwareRate depends on the recursive function `DecimationFactor`. That there is such a function
  is shown by a table of its values, one for each doubling up to the ADC's lowest rate
  (`FactorUnfolds`); what it is good for by the least counterexample, counted by how far a rate
  lies below that lowest (`FactorFits`); and from 15625 Hz up it fits its field (`FieldHolds`).

**Only model-checked:** all liveness (StopReturns, StopDrains, LeaverFreed,
BroadcastReturns, HelloAnswered, ConnectSettles, SignalEnds, CloseEnds and the fairness
of ImplementsStream), which is out of TLAPS's reach. Every invariant and every action property
that a passing run checks is also a theorem.

## 5. What the code does otherwise than it says

With a run, and quoted in PROJECT.json's findings:

1. Leftover samples of a chunk are skipped: output below the configured rate (`dsp/decimator.cpp:51`).
2. A short write delivers part of a chunk (`rtltcp/server.cpp:201`).
3. A blocking send under the mutex stalls every VRX (`spyserver/server.cpp:338`).
4. Two clients retuning at once can leave the reported frequency and the NCO's different, until
   somebody retunes again (`dsp/virtual_receiver.cpp:40`).
5. A `connect()` that fails between lock and unlock keeps the vendor's lock (`sdrplay/client.cpp:170`). It is also
   the exception `LockLost` in ConnectSettles and SignalEnds, and one in NothingLeftBehind.

Seen in the models, without a run of their own:

- `stop()` may `shutdown()` a number from its snapshot that is another endpoint's socket by
  then (`rtltcp/server.cpp:78`; `ShutdownOne` in RtlTcpServer); it closes nobody's descriptor (SoleOwner);
- a torn read of the rotation gives a chunk an amplitude other than one; a rotation
  of magnitude 0, or above 1 in a long chunk, makes the phasor NaN for good, against the
  renormalisation that `dsp/nco.hpp:57-59` describes (`Amplitude`, `Renormalised` in VirtualReceiver);
- a SpyServer client that does not read keeps `stop()` waiting for the mutex, and so the process from ending
  after a signal (`spyserver/server.cpp:87`; `stalled` in Process): the exception in SignalEnds;
- a short write cuts a framed SpyServer message, and the next one follows: the client
  loses the framing (`spyserver/server.cpp:377`; `whole = FALSE` in `wire`);
- an IQ message may come between two control messages the comments call consecutive,
  when the client said Hello before and is streaming (`spyserver/server.cpp:189`, `spyserver/protocol.hpp:146`);
- frames that came with the upgrade's reply wait for the next `recv()` and are dropped if that
  reports the end (`sdrconnect/websocket.cpp:373`): the exception in OnlyEarlyFramesLost;
- the handshake's timeout is per `recv()`: a server that drips its answer, or one that never
  reads the settings, keeps `connect()` from ending, and one that stops reading keeps `close()`
  from ending (`sdrconnect/websocket.cpp:271`, `:354`): the exceptions in ConnectSettles and CloseEnds;
- when SDRconnect or the RSP goes away nobody looks at `running_`: the process serves
  silence (`sdrconnect/client.cpp:56`, `sdrplay/client.cpp:282`);
- a negative VRX rate passes `fmod()` and ends the process with `std::terminate`
  (`config.cpp:109`; `BuildThrows` in Process);
- capture rates so low that the hardware factor exceeds 255 do not fit its 8-bit field
  (`sdrplay/client.cpp:64`): the exception in HardwareRate;
- `bias_t` has no effect on two models of RSP (`sdrplay/client.cpp:226`, `config.hpp:26`).

## 6. Not modelled

- Floating-point arithmetic: filter design, taps, rounding drift of the NCO, the
  16- to 8-bit conversions. The models follow *which* samples and rotations are used.
- Text: YAML parsing (of the configuration and of SDRconnect's messages, whose
  exception on the read thread is listed as a hazard), SHA-1, base64, HTTP headers, log output.
  All stateless.
- Of the vendor's parameter blocks everything but the sample rate and the decimation; the
  antenna and bias-tee fields; the setters of SdrplayApiClient that nothing calls; the table of
  `sdrplay_const.hpp`.
- Of SpyServer's messages the field values; of the rtl_tcp header its bytes.
- WebSocket frames that arrive in parts (Framing covers the technique), and the bytes of a PONG and of a
  CLOSE mixing when two threads send a frame in several `send()` calls.
- What a detached read thread does to a server object main has destroyed: the repository promises nothing
  of it, so there is nothing to check it against.

## 7. State of the plan

Done, in this order: the five core modules (Decimator, RtlTcpServer, SpyServer,
VirtualReceiver, SdrplayApi); Framing with OrderedStream; SdrConnect with the
WebSocket; IqSource with both refinements; Config; Process over IqSource; theorems for each;
IqEndpoint with both refinements.

VirtualReceiver over Decimator was added last. Worth adding: IqEndpoint in Process, in place of its own
account of an endpoint; partial frames in SdrConnect as an instance of Framing.
