# netware-ncp-server in TLA+

A model of the NetWare Core Protocol server of this repository: the client
transport, the server's dispatcher and stores, the bindery, the volume that
keeps its files in a GitHub repository, the start of a server and its SAP
broadcasts, the circuit breakers of the provider multiplexer, and the coordinator
that builds plans wave by wave. TLC checks the modules on small instances; TLAPS proves every
invariant and every action property of them, and that the transport implements its
abstract specification, for every value of the constants.

Paths are relative to the repository (`ncp-server.js:228` is line 228).

## 1. Inventory

| Component | Source | State | Operations |
| --- | --- | --- | --- |
| Client transport | `ncp-client.js` 28-112 | `_socket`, `_connLo/_connHi`, `_seq`, `_pending`, a timer per call | `connect`, `disconnect`, `_call`, `_sendRaw`; handlers for message, socket error, timeout |
| Client API | `ncp-client.js` 113-388 | none | encodes arguments, decodes answers |
| Packet layer | `ncp-packet.js` | none | header layout, widths of sequence and connection number |
| Dispatcher | `ncp-server.js` 168-451 | `_connections`, `_nextConn` | `_onPacket`, `_reply`, the promise of the file service |
| Semaphore store | `ncp-server.js` 34-92 | `_semas`, `_byName`, `_nextHdl` | open, examine, wait, signal, close |
| TTS store | `ncp-server.js` 95-139 | `_txns`, `_nextId`, `_enabled` | begin, end, abort, isCommitted, enable, disable |
| Broadcast store | `ncp-server.js` 141-163 | `_messages`, `_modes` | send, get, modes |
| Bindery | `nw-bindery.js` | `_objects`, `_byName`, `_nextId`, `_locked` | objects, properties, sets, scans, lock |
| File service | `nw-file-service.js` | open handles per connection | open, create, close, read, write, delete, rename, search |
| GitHub volume | `nw-github-volume.js` | `_fhs`, `_nextFH`, `_txns`, `_nextTxn` | files, buffers, transactions as branches |
| SAP broadcaster | `nw-sap.js` | `_sock`, `_registered`, `_pendingResolve`, `_timer`, `ackTimer`, `_serverName` | start, acknowledgement, fallback, broadcasts, stop, `setServerName`, announce, answer queries |
| Provider multiplexer | `provider-mux.mjs` | a circuit breaker per provider, telemetry | `call`: down a chain of providers until one answers |
| Genesis orchestrator | `genesis-orchestrator.mjs` | `PEERS`, chunks, waves, `allResults`, `summary`; the plan file and the outputs on disk | check peers, resolve a plan, order it into waves, build each wave on peers or locally, write, resume |
| Denormalizer | `nw-conduit-denormalizer.js` | none | one pass over its input |
| Server assembly | `index.js` | none of its own | `createServer`: volumes, server, bindery entry, SAP |
| Demo, tests | `demo-github.js`, `test-ncp.js` | none | call the parts |

How they interact:

* The client and the server exchange UDP datagrams. The client has one table of
  pending calls, by sequence byte, and a five second timer per call. It never
  sends again. The server attributes a request to a connection by the number in
  the packet alone and keeps no memory of what it already executed.
* Every service except the file service runs to completion inside the handler.
  The file service returns a promise; its answer goes out whenever that settles.
* The file service calls the volume, which awaits HTTP requests to GitHub. All
  calls share one event loop, so that they interleave at every `await` and
  nowhere else.
* `createServer` awaits the volumes, then the server's socket, then SAP; the SAP
  broadcaster talks to a relay that may never answer, and goes on without it.
* The coordinator sends a chunk to a worker by HTTP and builds it itself when the
  worker fails or does not answer in five minutes. Workers keep nothing.
* Stations share the stores: one `SemaphoreStore`, one `TTSStore`, one
  `BroadcastStore` and one bindery for all connections.

What is hard: lost, late and repeated datagrams; a sequence byte that comes
round; leaked sockets and timers that outlive their call; numbers and handles
used after they were given up; shared counters; several calls suspended on the
same open file; a branch that is created in the background while its
transaction ends; index and objects updated apart; an acknowledgement that races
the timer that stands in for it; chunks of a wave that settle in any order, on
peers that come late; files written one by one by a process that may end. `PROJECT.json` lists each of
these under `hazards` with its line and the properties that watch over it.

What makes each part correct:

* transport: every call that was sent settles, with the answer to itself unless
  the sequence byte has come round; a request stays within its session; a running
  server gives no number twice; a call succeeds only if it ran;
* semaphores: both indexes agree; without repeated requests no unit is made and
  nothing disappears while it is open, and what is lost or left over is bounded by
  the calls that were given up;
* TTS: a number END answered with is one station's, and committed until an ABORT
  names it;
* broadcasts: what is received was sent, to that station, once, in order;
* bindery: an object is found under its name and nowhere else; a scan that is told
  it is at its end has missed nothing that was there all along, and answered
  nothing twice; sets nobody wrote over hold what was put in;
* volume: what is on main stays, what was acknowledged is kept, a transaction is
  invisible until merged and complete afterwards;
* SAP: one interval broadcasts the current name, and none after a stop;
* orchestrator: waves hold each chunk once, behind what it depends on; nothing is
  built before its dependencies have ended; what is on disk is true of the run
  that wrote it; every run ends;
* multiplexer: a breaker opens on nothing but a burst of failures (not on every
  one: its window is fixed, and a burst may fall into two), leaves a failing
  provider alone for its rest, and never stays half open.

## 2. The modules

| Module | Models | Checked by |
| --- | --- | --- |
| `Rpc` | abstract: what a request/reply call promises | `NcpTransport` implements it |
| `NcpTransport` | client transport, dispatcher, network | `MCNcpTransport` |
| `NcpTransportProofs` | its theorems | TLAPS |
| `SemaphoreStore` | semaphores and the programs that use them | `MCSemaphoreStore` |
| `SemaphoreStoreProofs` | its theorems | TLAPS |
| `TtsStore` | transaction tracking, as stations use it | `MCTtsStore` |
| `BroadcastStore` | broadcasts with their encoding | `MCBroadcastStore` |
| `StationStoreProofs` | theorems of `TtsStore` and `BroadcastStore` | TLAPS |
| `GitHubVolume` | file service, volume, GitHub | `MCGitHubVolume` |
| `GitHubVolumeProofs` | its theorems | TLAPS |
| `Bindery` | objects, name index, sets, scans | `MCBindery` |
| `BinderyProofs` | its theorems | TLAPS |
| `SapServer` | start of a server, SAP broadcaster | `MCSapServer` |
| `SapServerProofs` | its theorems | TLAPS |
| `Orchestrator` | the coordinator's `main()` and its disk | `MCOrchestrator` |
| `OrchestratorProofs` | its theorems | TLAPS |
| `ProviderMux` | circuit breakers and the calls that use them | `MCProviderMux` |
| `ProviderMuxProofs` | its theorems | TLAPS |

State and actions carry the names of the code (`_pending` is `pending`, `_fhs`
is `fhs`). A handler that runs without `await` is one action; a handler that
awaits is one action up to each `await` and one from there to the next.
Variables marked "history" record what happened, for the properties; no guard
reads them unless it says what well-behaved programs do (a program closes only
handles it was answered with, a semaphore is signalled by one that has a unit).

A few definitions stand right before the one they vary and are introduced as "a
variant": each is a slip the code does not make. No action uses them. Putting
one in the place of its original makes TLC report the property that
`PROJECT.json` names under `mutants`: they show that each property can fail.

### NcpTransport

`Connect`, `Call`, `SendDestroy` are what programs do; `ClientReceive`,
`TimerFires` and `SocketError` are the client's handlers; `Server...` are the
branches of `_onPacket` and `FileDone` the promise of the file service;
`Restart` ends and starts the server process; `Lose` and `Duplicate` are UDP,
and reordering is that any datagram in `net` may be next. What a service does
with its request is left to the other modules: here it is carried out, and
answered with success or with an error.

Sockets are named by the connect call that made them, since `connect()` opens a
new one every time and never closes the old one, whose handlers keep acting on
the same table. A timer stays armed with its call and deletes whatever the table
holds under its number when it fires, as the code does.

`connect()` has two steps, the socket and the packet: `Connect` begins to bind,
`Bound` sends. Between them the table may change and an answer to an earlier
Logout may close the socket that was just made. `BindFails` is the error event of
a socket that is not bound: it rejects what is in the table, and `connect()`
itself, which is not in it, is settled by nothing (state "hung"; section 6).

An answer finds its caller by one byte. `ReplyMatch` says without any assumption
how far that goes: with `order` counting the calls of a client, an answer that
settles another call settles one a whole turn of the byte later, or one that shares
number 0 with a connect. `QuietReuse` excludes that turn. It is an assumption about
the environment, and a constant: a sequence number comes round only after
everything sent under it is gone. The code does not see to it, and awaiting each
call is not enough: a file request has no time bound at the server
(`ncp-server.js:431`), so that its answer may come after its caller timed out and
255 quick calls went by. What needs it (`WaitingIsPending`, `RpcSpec`) is what a
program may rely on while it is so; what does not is checked without it, in
`NcpTransport_wrap`.

`Rpc` is the abstract specification: a call is issued once, executed at most
once for each copy of its request, and settles once, successfully only after an
execution. `NcpTransport` implements it under the mapping of `R`.

### Stores

`SemaphoreStore` gives each use of `openSema` a name, an opening: the store
keeps no trace of openings, and the module says what its counter should count.
A call is a request (`OpenSema`, `WaitSema`, `SignalSema`, `CloseSema`), its
execution (`ServeOpen` and so on) and its answer (`Return`); `GiveUp` is the five
second timer of a program whose request or answer is lost or late, before or
after the server carried the request out. `hdl` and `holds` say what an opening
has of the store, and what no program knows of any more is nobody's. Repeated
requests (`Redeliver`, one that arrives after its program gave up included) are part
of it because no layer filters them.
`TtsStore` follows stations through BEGIN, END and ABORT as the server answers
them, END's own second transaction included; an ABORT may name any number, from
any station. `BroadcastStore` computes the bytes
the client sends and runs the server's loop over them, since the two disagree. A
message is an ASCII text, already cut at 58 characters; `Ascii` is
`toString('ascii')`, which drops the top bit of a byte, so that a number or a
length that the loop takes for text comes out altered. `StationStoreProofs` extends
both modules, and for that the `Init`, `Next`, `Spec`, `TypeOK` and `vars` of
`TtsStore` carry its name.

### GitHubVolume

A call is suspended at a request it sent (`task[k]`); `Hub` is GitHub carrying
out the request, refusing it or failing before or after the effect; the `...GoesOn`
actions are what follows the `await`. GitHub's own behaviour (a commit must name
the sha it replaces, branches, three-way merge path by path) is external. Content
is the set of the writes it holds, and stands for its own hash. Reads are left
out: they change nothing. The background creation of a branch has two steps of
its own because nobody waits for it. `Pipelined` is a constant of the environment:
programs that write to a handle before its close was answered.

### Bindery

`FindObj` returns the ids `_findObj` may return: for a wildcard type that depends
on the order of the index, which is left open. Scans are driven one request at a
time so that other stations act in between; a pattern is the set of the names it
fits, an object that is renamed may come to fit it or no longer fit it, and a lock
cuts a scan short. `WriteValue` is `writePropertyValue` and `changePassword`,
which write bytes over the members of a set: `rewritten` are the objects it was
done to. `UseWild` is a constant of the environment: programs that name objects by
the wildcard type.

### SapServer

`VolumesReady`, `ServerStarts`, `ServerFails` and `Returns` are `createServer`
between its awaits; the rest is the broadcaster. `start()` is `Starting` up to
the callback of `bind` and `Bound` from there; `Acknowledged` is `_onMessage` for
an acknowledgement, which the relay may send late, twice or never; `Fallback` is
`ackTimer`; `Tick(i)` is interval `i`, and there may be more than one, since
`_timer` holds only the last that was made. A broadcast without a socket throws in a timer and ends
the process (`alive`). Programs stop, rename and announce a broadcaster whose
start was resolved, and start again what they stopped. `index.js` itself only starts
it, once, and stops it at the end; `setServerName`, `announce` and a second start are
open to whoever holds the object it returns.

### Orchestrator

`phase` is how far `main()` is: the loop over `PEERS` (`CheckPeer`, which takes a
peer off the list it walks), `Resolve`, `PlanWaves`, the waves (`NextWave`, one
step for `buildChunk` up to its first await in every chunk of the wave, and for
the results of the wave before), and the outputs (`WriteFailed`, `WriteBuilt`,
`WriteThrows`, `Save`). `job[c]` is where the build of a chunk stands: at a
worker, here, or settled; a worker that answers after the timeout answers a
request that was destroyed, and changes nothing. Which peer gets a chunk makes no
difference to what follows, so that the list matters as empty or not. `Waves` is
`buildExecutionWaves`, a recursive function over its rounds. What models answer is
left open: any plan, and merged code as a sequence of markers and text, which is
what `parseFiles` tells apart. A marker may have spaces around its name
(`Spaced`): the pattern finds it, the search for the next marker does not, and
where that search finds nothing the section takes all that follows but the last
character (`Clipped`). `Crash` ends the process anywhere, `Restart` is a new one,
which finds the plan file, the outputs and the summary on disk.

### ProviderMux

The fields of the breakers are functions of the provider. `call` is suspended
only while it waits for a provider, so that what happens between two awaits is
one step: `Start` asks breakers from the head of the chain, `Fails` records the
failure and asks those behind, `Succeeds` records the success. `GoesOn` is the
stretch of the loop they share. A call may have started when its provider's
breaker was closed and end when it is open, half open or closed again, and the
breaker takes its result all the same: that is where the module looks. Time is
the clock the breakers read, assumed not to go back; `_probesSent` is counted up
to its limit. How a provider answers is external.

## 3. The runs

| Run | Question | Bounds |
| --- | --- | --- |
| `NcpTransport_sessions` | Do requests reach their own session only; is a number given out twice; does the transport implement `Rpc` while numbers are reused in time? | two clients, five calls, sequence numbers modulo 2, one duplicated datagram, any number lost or reordered, no restart |
| `NcpTransport_wrap` | Does every call that was sent settle, and with whose answer? | four calls of a client on two sequence numbers with no assumption on their reuse, one restart, file service on |
| `SemaphoreStore` | Do the indexes agree, and how far can counts and units be off? | three openings, two names, largest value 1, one repeated request, one call given up |
| `TtsStore` | Is a committed number one station's until an ABORT names it? | two stations, four transactions, aborts of any number |
| `BroadcastStore` | Are messages received in order, unaltered, by those they were sent to? | two stations, two messages, up to three targets, three sends |
| `GitHubVolume` | Are commits and acknowledged writes safe? Is a transaction isolated until merged and complete afterwards? | two calls at a time, two paths, two opens, two writes, one transaction, one delete or rename, one fault |
| `Bindery` | Do index and objects agree, are scans and sets exact? | two names, two types, three objects, scans by one caller with `*` or a pattern that fits one name, one set of two that may be written as bytes |
| `SapServer` | Does one interval broadcast the current name, whatever the relay does? | three starts, two names, two changes |
| `Orchestrator` | Are waves exact, dependencies ended before a chunk starts, and the disk true? Does every run end? | plans of two chunks with every dependency and six of three, one or two peers, three merged codes, a run and a resumed one |
| `ProviderMux` | Does a breaker open on bursts only, space its probes and leave the half-open state? | two providers, two calls at a time, two failures to open, clock up to four |

Two more, `BroadcastStore_many` and `SapServer_registered`, end in a counterexample on purpose; see section 6.

Why the bounds are enough. The wrap of the sequence byte needs one more call than
there are numbers, so that two numbers and three calls show it. One duplicate is
enough to have a request executed twice or an answer come twice, and one repeated
request or one call given up for a counter to be off by one, which
`OpenCountTracks` and `UnitsConserved` allow for each: the theorems carry this to
any number. A restart forgets the connections and the promises under way, and one
shows both; numbers of two runs of the server are not compared, and
`NcpTransport_sessions` has none. Two calls suspended at once are every race of a
pair on one handle, one path or one transaction; with two paths there is a rename
and a bystander, and one delete or rename meets every state of the two opens. A
set of two entries has a first and a last one, can be full, and closes up. Three
objects are the two built-in ones and one made, and each may be deleted or renamed
in a scan; the bytes written are the id of the one that may still be to be made.
Two calls and a threshold of two let one call end late, in a state of the breaker
that the other brought about; the clock reaches a second half-open period. Three
starts of a broadcaster are the first, one with `_registered` left over, and one
after that. Plans of two chunks hold every dependency of a pair, on itself and on
nothing that exists; those of three are a chain, a join, a fork, a cycle behind a
free chunk and two chunks of one name. A resumed run is a second run, which starts
from every disk the first may leave. The merged codes have no marker; text before
a first marker with spaces, and two markers in a row; and a marker with spaces
behind one without.

Symmetry is used for calls, paths, stations, openings and semaphore names, where
no property is a liveness property. Deadlock is not checked: a system whose
programs have made all their calls, or whose process was ended by an exception,
has stopped.

Fairness. `NcpTransport` assumes weak fairness of `TimerFires(k)` for every call:
`setTimeout` fires in a running process. Nothing is assumed of the network, the
server or the programs, so `EverySentCallSettles` holds with every datagram lost;
a bind is not assumed to call back. `ProviderMux` assumes that a request that was
sent settles, one way or the other (weak fairness of `Fails(k) \/ Succeeds(k)`),
as `fetch` does; not that a provider ever answers, nor that anybody calls.
`SapServer` assumes that a bind calls back or fails and that timers fire, and
nothing of the relay. `Orchestrator` assumes that `main()` goes on when it can,
that the five minute timer of a dispatched chunk fires and that a local build
ends, since the requests it makes to providers settle; nothing of workers. The
other modules state safety only.

## 4. The proofs

TLAPS checks them for all values of the constants, from `ParametersAssumption`
of each module (TLC evaluates it in every run). The assumptions are types of the
constants and little more: a bindery has room for the two objects it starts with
(`MaxObjects`); calls and paths of the volume are finitely many, and "no content"
is no content; the plans and the merged code of `Orchestrator` are sequences;
the chain of `ProviderMux` names each provider once; the connection numbers of
`BroadcastStore` fit two bytes and the count of targets one, and its messages are
ASCII texts of at most 58 characters. `TtsStore` needs none.

Every invariant the passing runs check has its theorem, and so has every action
property and the refinement.

| Module, theorem | Says | Along |
| --- | --- | --- |
| `NcpTransportProofs` | | |
| `TypeCorrect` | `TypeOK` | one step per action |
| `TimerSafety` | a caller that waits has its timer | `WaitingHasTimer` is inductive with `TypeOK` |
| `Isolation` | no request acts on another client's connection | `SessionInv` |
| `NumbersFresh` | no two connects are answered with one number while the server runs and has numbers left (`NumbersNotReused`) | `GivenInv` |
| `StaysPending` | under `QuietReuse` a caller that waits is in the table (`WaitingIsPending`) | `CallInv` |
| `OwnReply` | an answer settles its own call, or one it can be taken for (`ReplyMatch`) | `AnswerInv` |
| `Implements` | `QuietReuse => (Spec => RpcSpec)` | `CallInv`, step by step |
| `SemaphoreStoreProofs` | | |
| `TypeCorrect`, `StoreCorrect` | types, `IndexesAgree`, `ValueBounded` | `SemaInv` |
| `CountsCorrect`, `UnitsCorrect` | `OpenCountTracks`, `UnitsConserved` | `SemaInv` |
| `Handles` | `HandlesNotReused` | handles stay below the counter |
| `StationStoreProofs` | | |
| `TypeCorrect` | `TypeOK` of `BroadcastStore` | the types of what `Decode` computes |
| `InOrder` | `ReceivedInOrder` | inductive with `TypeOK` |
| `SingleTarget` | `SingleTargetExact` | `DecodeOne` after `EncodeOne` |
| `OneTargetReaches` | `MaxTargets = 1 => (Spec => []ReachesAddressed)` | `SingleTarget`'s lemma, inductive |
| `TransactionTypes`, `Committed` | `TtsTypeOK`, `CommittedStays` | one step per action |
| `ProviderMuxProofs` | | |
| `TypeCorrect`, `NeverStuck` | `TypeOK`, `ProbeOutstanding` | `MuxInv` |
| `Spacing` | `ProbesSpaced` | `MuxInv`, on the steps that send a request |
| `Bursts` | `OpensOnBurst` | `BurstInv` |
| `BinderyProofs` | | |
| `TypeCorrect`, `Index` | `TypeOK`, `NamesIndexed` | `Shape` |
| `Scans` | `ScanExact` | `ScanInv` |
| `Members` | `MembershipExact` | `MemberInv` |
| `GitHubVolumeProofs` | | |
| `TypeCorrect` | `TypeOK` | `Types` |
| `Survives` | `CommittedSurvives` | `DataInv` |
| `Isolation` | `IsolatedUntilMerged` | `OwnInv` |
| `NotLost` | `AckedNotLost` | `KeepInv` |
| `EndsWhole` | `EndCommitsAll` | `EndInv` |
| `SapServerProofs` | | |
| `TypeCorrect`, `Broadcaster` | `TypeOK`, `OneBroadcaster` | `SapInv` |
| `OrchestratorProofs` | | |
| `TypeCorrect` | `TypeOK` | `OrchInv` |
| `Exact` | `WavesExact` | the rounds of `buildExecutionWaves`, then `OrchInv` |
| `Ordered` | `DependenciesSettled` | `OrchInv` |
| `Told` | `ReportTrue` | `OrchInv` |

### Transport

`SessionIsolation` is not inductive. The server looks at a number only, so that
the argument runs through everything that carries one: every connection's socket
belongs to the client that owns it, every open socket to its client (`SocketInv`),
and, while numbers are unique, each number in a reply to a connect, in a client
and in a request is either unassigned, not in the table, or the number of a
connection of that client (`NumberInv`). A number in flight may have been given
up, and never comes back (`GivenInv`: the n-th connect a process answers is given
number n, cut to two bytes), which is what makes the invariant survive a logout, and
what `NumbersFresh` says.

`ReplyMatch` is about the sequence number, and needs no assumption. `OrderInv`: the
byte is the count of the client's calls, cut to its width (`NextRest`), so that two
calls with one byte are a whole turn apart (`SameRest`), connects aside, which all have
number 0. `LastEntered`: the table holds the last call sent under a number.
`NumbersCarried`: a datagram carries the number its call was sent under. An answer
therefore finds its own call or a later one with the same byte. These three,
with what was sent and with which timer, are `AnswerInv`.

`WaitingIsPending` and `Implements` are about the time before a byte comes round.
`IdleInv`: a call that was not issued has left no trace. `CopyInv`: copies of a
request are told apart, one that waits was not executed, and an answer "ok" comes
from an execution. `ReuseInv`, under `QuietReuse`: an entry of the table has its timer
and a timer its entry, and what is still under way with a number belongs to the
call that is entered under it, so that the entry an answer or a timer takes away
is its own. Connects are the exception: all of them have number 0, but a client
waits for one at most.

`Implements` maps each step to one of `Rpc`. `DatagramStep` and `ClientStep` say
once, for all actions, what a step does to the datagrams and to the client; a step
of `Rpc` is then an issue, an execution of a copy or a settlement (`RpcNext`), and
everything else a stutter.

### Stores

`SemaInv` joins the store's own invariant (indexes, handles below the counter,
values in range), what programs know (an opening's handle was given out, a
request that was sent names such a handle), where each call stands (`OneCall`: an
opening has its handle from the execution of its open to that of its close, and a
unit from a wait to a signal, whatever it is answered) and the two counts. The counts
need the cardinality of the openings of a handle to move by one with each execution.
A repeated request moves the counter alone, and a call given up takes an opening, or
its unit, out of the account alone: hence the slack `dups` on one side and `dups + lost`
on the other.
`ValueBounded` (a semaphore's value stays between 0 and the largest one) is part
of `SemaInv` and of `StoreCorrect`: it is proved, and no run checks it apart.

`CommittedStays` is inductive with the types: numbers only grow, so that END makes a
transaction nobody was answered with before, and nothing but an ABORT of that number
removes it.

The theorems of `BroadcastStore` need to know what two functions defined by
recursion return: that of `FlattenSeq` and the rounds of `Decode`. That there are
such functions is shown by the least number for which there is none (`PartsExist`,
`RoundsExist`); what they return, by induction on the number of rounds with a set
of numbers in the place of a predicate (`UpTo`). Whatever bytes the loop is given,
an offset it reads at lies in the packet, a target is a word and a message a text
(`RoundType`, `DecodeType`): this is why `TypeCorrect` holds of lists of targets
that client and server read differently.

`ReceivedInOrder` is about a place function, which says where in `accepted` each
message that was received or waits was put. A SEND extends it at the end
(`SubsequenceConcat`), a GET keeps it up to the message it answers and drops the
rest (`SubsequencePrefix`); where a station denies, nothing is appended to either
side. With one target the packet is the count, two bytes of a number, a length and
the message (`EncodeOne`); the two bytes make the number again, the length ends
the message at the end of the packet, and no byte of it has its top bit set
(`DecodeOne`). `OneTargetReaches` draws the line around the first
counterexample of section 6: programs that name one connection in a SEND do not
meet it.

### Breakers

`MuxInv` adds to the type invariant what a breaker remembers of its last probe: a
closed one nothing, an open one opened after that probe, a half-open one has sent
it. A request is let through while the breaker is open only when its rest is
over, hence `OpenFor` after the probe before; while it is half open, only with a
probe left, which with one probe there is not. `GoneStep` proves once, for the
head of the chain and for what lies behind a failed provider, that a call that
goes on keeps the invariant: a breaker it turns half open lets it through, so
that the loop ends there (`AskedStops`) and the call is the request on its way.

`BurstInv` ties the counter to the times of the last failures: as many of them as
a closed breaker has counted lie in its window. When the counter reaches the
threshold, all that are remembered do.

### Bindery

`Shape` is the type invariant with the ids below `nextId`. `IndexCorrect` is
inductive with it: no two objects have a key in common because a create and a rename
look the new key up in the index first, and the index is right. `ScanInv`: a scan
has seen ids up to the last one only, one with each answer, and each object that was
there and fitted at its start, still is there and always fitted, is seen or lies
ahead; a rename that makes it fit no longer takes it out of that account, and a lock
ends the scan. `MemberInv`: a set nobody wrote over has its free slots behind its
members and no member twice (`Packed`), which is what `deleteObjFromSet`, which moves the
rest up, and `addObjToSet`, which takes the first free slot, rely on; its members are
among those it was told of, members that are gone included, and are all of them
unless an addition found it full.

### GitHub volume

`Types` says which requests each call may wait for (`Role`): the bodies and
shas of a commit, the copy and the cleanup of a rename, the steps of an end.
The rest is layered.

* `DataInv`. What calls read, branches started from and buffers hold of main was on
  main (`Known`, `Extends`, `ShaHeld`), so that a commit or a merge that replaces
  a file contains it. A rename is the one call that takes content away: it deletes
  what it copied. `CopiesLeft` counts: of a write that was on main and was not
  deleted there are more paths that hold it than renames that have yet to delete
  one. A copy adds one to either side, a cleanup takes one from either, and so
  two renames of one file, or one that fails half-way, leave a copy.
* `OwnInv`. Each write belongs to one handle, and a handle to one branch
  (`WritesOf`); a branch holds writes of main and its own (`Isolated`); a branch
  joins main only by its transaction's end, which one call at most is at
  (`TxnControl`).
* `KeepInv`. While nobody writes to a handle that is being closed, the commit that
  ended well holds what the buffer holds (`Flushed`): what was acknowledged to a
  handle that is gone was committed (`ClosedKept`).
* `EndInv`. An end commits handles in order, so that none before the one under way
  is attached and none at all when it merges (`EndOrder`); what was committed under a
  transaction is on its branch or on main, and on main after the merge
  (`BranchHolds`).

`Flushed` and `BranchHolds` are false of pipelined programs (section 6), so that
`NotLost` and `EndsWhole` are about the others, as the properties are.
`Survives` and `Isolation` are about all.

### SAP

`OneBroadcaster` needs that what makes an interval finds none: the fallback while
its timer is armed, and an acknowledgement while there was none before (`NoneYet`);
and that nothing of SAP is there before the server's socket (`ServerFirst`).

### Orchestrator

`Waves` is a recursive function over the rounds of a loop. `RoundsExist` shows that
there is such a function and `WavesAre` that each round keeps `RoundOK`, both by
looking at the least round without the property, which needs no induction theorem:
after `k` rounds there are `k` waves or no chunk is ready, since each wave takes at
least one chunk. From what `WavesAre` says of the result follow that a chunk that is
left waits for another that is left or for nothing (`LeftIsStuck`), that
waves are disjoint and behind what they depend on (`WavesOrder`), and that a chunk
is not in a later wave than it must be (`WaveIsEarliest`).

`OrchInv`: a run past its plan has such waves; a chunk that was started is in a wave
that was started, and all waves before the current one have settled (`Started`);
the results are those of the waves that are over, one for each chunk (`Resulted`);
the summary goes along them (`Summed`), and what is on the disk is of the run that
the report names or of a later one (`Reported`). `Told` counts: as many
results as chunks, each chunk among them, hence each once (`EntriesCounted`), and the
entries of a name are those of its chunks. That each section ends before the next
marker (`SectionEnds`) uses that markers differ: the search from the start of the
text then finds the marker itself.

### Only model-checked

* Liveness (`EverySentCallSettles`, `HalfOpenResolves`, `RunEnds`, `NameBroadcast`):
  fairness and ENABLED are out of the prover's reach.
* The two counterexamples of section 6.

## 5. What is not modelled

* `nw-conduit-denormalizer.js` is one pass of file reading and writing.
* Of `genesis-orchestrator.mjs`: which peer gets which chunk, the agents within a
  chunk and their prompts. The worker mode runs one chunk for a request and keeps
  nothing.
* Of `nw-sap.js`: queries, which are answered from the same entry and change
  nothing, and the layout of packets. Of `index.js`: the values of options and the
  signal handlers.
* Of `provider-mux.mjs`: telemetry, which decides nothing, and what each
  provider's request and answer look like.
* Layout of packets except broadcasts; text, logging, formatting.
* Of the bindery: properties other than sets, security bytes, what a password is
  (`changePassword` is here for the bytes it writes), `scanProperty` and the answers
  that are constants.
* Of the file service: reads, searches and the table of open handles per
  connection, which only `endOfJob` reads and nobody calls.
* Positions within a file: the file service seeks before every access.

## 6. Where the code and its documents part

Two runs are expected to end in a counterexample:

* `BroadcastStore_many`: the client encodes all targets and then one message,
  the server reads a message per target. With two targets the second number is
  taken for a length and text, and a station can be given text nobody addressed
  to it; the loop may also run off the packet, and the exception ends the process.
  With one target for each SEND it cannot happen (`OneTargetReaches`).
* `SapServer_registered`: `buildServerObj` (`index.js:116`) puts the type in the
  first two bytes, `createObject` (`nw-bindery.js:108`) reads it from the next two.
  The server's name is in the bindery, with type 0x0031, and as the file server
  that `index.js:111` speaks of it is not.

Also met on the way, without a run of their own. The first two are why
`AckedNotLost` and `EndCommitsAll` except programs with `Pipelined`, and
`NamesIndexed` those with `UseWild`; without the exception TLC finds either in
a few steps:

* A write acknowledged while its handle waits for the commit of its close is in no
  commit (`nw-github-volume.js:336`), where `nw-github-volume.js:10` says "every
  write is a commit".
* Deleting an object by the wildcard type leaves its name in the index
  (`nw-bindery.js:136`), and that name can then neither be created nor found.
* A transaction aborted at once leaves its branch behind, because the branch is
  created in the background (`nw-github-volume.js:373`) and possibly after the
  delete that `README.md:41` ("TTS Abort | Delete branch") speaks of.
* `connect()` hangs for ever when its socket cannot be bound: the error handler
  (`ncp-client.js:62-65`) rejects the calls in the table and the promise of
  `_openSocket` is not one of them. `EverySentCallSettles` is about calls that were sent.
* An answer that comes when its sequence byte has come round settles the call that
  now has it, with the wrong result. `WaitingIsPending` and `RpcSpec` assume
  otherwise (`QuietReuse`); `ReplyMatch` says what is left without it.
* A call that times out may have been carried out. The semaphore of an `openSema` whose
  answer was lost stays open for ever, since nobody knows its handle and a logout closes
  none, and a unit of a `waitSema` whose answer was lost is nobody's. Hence `lost` in
  `OpenCountTracks` and `UnitsConserved`.
* After a restart the server gives out the numbers its clients still use: a request of
  one client then acts on the connection of another.
* Requests that write bytes (`nw-bindery.js:334-390`) do not ask whether the property is
  a set: they put any ids in, twice or of objects still to be made. `MembershipExact` is
  about sets they left alone.
* A scan that meets a lock is answered with an error the client takes for the end:
  `scanObjects` (`ncp-client.js:207`) returns what it has. `ScanExact` excepts it.
* A Destroy packet has no branch in the dispatcher, so that the connection stays
  although `test-ncp.js:208` expects it to go; ABORT with number 0 leaves the
  transaction of BEGIN although `test-ncp.js:175` calls that enough.
* One `_enabled` flag and one table of transactions serve all stations under a heading
  that says "per-connection" (`ncp-server.js:95`): any station may abort any number,
  another's committed one too, so `CommittedStays` lasts until somebody does; the result of SEND is 0 for a station that
  denied the message (`ncp-server.js:387`).
* The coordinator takes unreachable peers out of the list it walks
  (`genesis-orchestrator.mjs:443`), so that the peer behind one is not checked.
* `parseFiles` looks for the next marker from the start of the text: when a file is
  marked twice, the section before its second marker is empty. It looks for it without
  the spaces the pattern let it have (`genesis-orchestrator.mjs:263-266`): where there is no such
  text, the section takes all later ones but the last character. `ReportTrue` excepts
  both.
* An error of the SAP socket after its bind rejects `start()`, `index.js:101` says
  "continuing without SAP", and half a second later the broadcasts start.
* `stop()` before `start()` has settled leaves `ackTimer` armed, which then sends on
  a missing socket; `announce()` after a stop throws, since `_registered` stays.

## 7. Plan

1. Done: `NcpTransport`, `Rpc`, the three stores, `GitHubVolume`, `Bindery`,
   `ProviderMux`, `SapServer`, `Orchestrator`; the theorems of section 4.
2. To do: composition. Stations over the transport with the stores behind it, so that a
   duplicate or a logout meets semaphores, messages and open files.
