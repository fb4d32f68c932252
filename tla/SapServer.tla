----------------------------- MODULE SapServer -----------------------------
(***************************************************************************)
(* The start of a server: createServer of index.js, and the SAPServer of   *)
(* nw-sap.js it ends with.  SAPServer registers with a relay, waits half a *)
(* second for its acknowledgement, and broadcasts the server's name at     *)
(* once and every minute after.  The relay may acknowledge, late and more  *)
(* than once, or never.                                                    *)
(*                                                                         *)
(* Programs stop and announce a SAPServer only after its start() was       *)
(* resolved, and start it again only after they stopped it.  Queries are   *)
(* answered from the same entry and change nothing; they are left out.     *)
(***************************************************************************)
EXTENDS Integers

CONSTANTS
    Names,      \* server names
    MaxStarts,  \* bound: calls of start()
    MaxNames    \* bound: changes of the name

ASSUME ParametersAssumption == {MaxStarts, MaxNames} \subseteq Nat

VARIABLES
    boot,            \* how far createServer is
    ncp,             \* TRUE: the socket of the NCP server is bound
    objects,         \* bindery: the types the server's name is there with
    promise,         \* the promise of start()
    sock,            \* _sock
    ackTimer,        \* TRUE: ackTimer is armed
    pendingResolve,  \* TRUE: _pendingResolve is set
    registered,      \* _registered
    intervals,       \* the interval timers that run, by number
    timer,           \* _timer: the number of one, 0 for null
    made,            \* interval timers made so far
    name,            \* _serverName
    told,            \* history: the name broadcast last since start(), none at first
    alive,           \* FALSE: an exception in a timer has ended the process
    starts,          \* calls of start() so far
    changes          \* changes of the name so far

start == <<promise, sock, ackTimer, pendingResolve, registered>>
sends == <<intervals, timer, made, told, alive>>
vars  == <<boot, ncp, objects, start, sends, name, starts, changes>>

Init ==
    /\ boot = "volumes" /\ ncp = FALSE /\ objects = {}
    /\ promise = "none" /\ sock = "none"
    /\ ackTimer = FALSE /\ pendingResolve = FALSE /\ registered = FALSE
    /\ intervals = {} /\ timer = 0 /\ made = 0
    /\ name \in Names /\ told = {} /\ alive = TRUE
    /\ starts = 0 /\ changes = 0
-----------------------------------------------------------------------------
(***************************************************************************)
(* SAPServer.                                                              *)
(***************************************************************************)

\* start() up to the callback of bind.
Starting ==
    /\ promise' = "pending" /\ sock' = "binding"
    /\ starts' = starts + 1
    /\ UNCHANGED <<ackTimer, pendingResolve, registered>>

\* _broadcast; without a socket it throws.
Broadcast ==
    IF sock = "none" THEN alive' = FALSE /\ UNCHANGED told
    ELSE told' = {name} /\ UNCHANGED alive

\* _startBroadcasting: the exception comes before the interval.
StartBroadcasting ==
    /\ Broadcast
    /\ IF sock = "none" THEN UNCHANGED <<intervals, timer, made>>
       ELSE /\ made' = made + 1 /\ timer' = made'
            /\ intervals' = intervals \cup {made'}

\* A promise is settled once.
Settles(state) == promise' = IF promise = "pending" THEN state ELSE promise

Bound ==
    /\ sock = "binding"
    /\ sock' = "bound" /\ ackTimer' = TRUE /\ pendingResolve' = TRUE
    /\ UNCHANGED <<boot, ncp, objects, promise, registered, sends, name, starts, changes>>

\* An error rejects the promise and does nothing else: the socket stays, and so
\* does the timer.
SocketError ==
    /\ sock \in {"binding", "bound"}
    /\ Settles("rejected")
    /\ sock' = IF sock = "binding" THEN "unbound" ELSE sock
    /\ UNCHANGED <<boot, ncp, objects, ackTimer, pendingResolve, registered, sends,
                   name, starts, changes>>

\* A variant: the acknowledgement leaves the timer armed.
TimerAfterAckKept == ackTimer

TimerAfterAck == FALSE

\* _onMessage, an acknowledgement: only the first one counts, in all starts.
Acknowledged ==
    /\ sock = "bound" /\ ~ registered
    /\ registered' = TRUE
    /\ IF pendingResolve
         THEN /\ ackTimer' = TimerAfterAck /\ pendingResolve' = FALSE
              /\ StartBroadcasting /\ Settles("resolved")
         ELSE UNCHANGED <<ackTimer, pendingResolve, promise, sends>>
    /\ UNCHANGED <<boot, ncp, objects, sock, name, starts, changes>>

\* A variant: the timer looks whether somebody acknowledged.
FallbackUnregistered == ackTimer /\ ~ registered

FallbackDue == ackTimer

\* Half a second without one.
Fallback ==
    /\ FallbackDue
    /\ ackTimer' = FALSE /\ registered' = TRUE
    /\ StartBroadcasting /\ Settles("resolved")
    /\ UNCHANGED <<boot, ncp, objects, sock, pendingResolve, name, starts, changes>>

Tick(i) ==
    /\ i \in intervals
    /\ Broadcast
    /\ UNCHANGED <<boot, ncp, objects, start, intervals, timer, made, name, starts, changes>>

\* The program has a SAPServer it may use.
Held == boot = "returned" /\ promise = "resolved" /\ sock = "bound"

\* A variant: the number of the timer is kept.
TimerAfterStopKept == timer

TimerAfterStop == 0

Stop ==
    /\ Held
    /\ intervals' = intervals \ {timer} /\ timer' = TimerAfterStop
    /\ sock' = "none" /\ told' = {}
    /\ UNCHANGED <<boot, ncp, objects, promise, ackTimer, pendingResolve, registered,
                   made, alive, name, starts, changes>>

StartAgain ==
    /\ boot = "returned" /\ promise = "resolved" /\ sock = "none" /\ starts < MaxStarts
    /\ Starting
    /\ UNCHANGED <<boot, ncp, objects, sends, name, changes>>

SetServerName(n) ==
    /\ Held /\ changes < MaxNames
    /\ name' = n /\ changes' = changes + 1
    /\ UNCHANGED <<boot, ncp, objects, start, sends, starts>>

Announce ==
    /\ Held /\ registered
    /\ Broadcast
    /\ UNCHANGED <<boot, ncp, objects, start, intervals, timer, made, name, starts, changes>>
-----------------------------------------------------------------------------
(***************************************************************************)
(* createServer.                                                           *)
(***************************************************************************)

FileServer   == 4
Word(hi, lo) == hi * 256 + lo
Words        == 0 .. 256 * 256 - 1

\* The first four bytes buildServerObj writes: the type, flags, security; and
\* the type createObject reads: it expects it behind the other two.
ServerObj           == <<0, FileServer, 0, 49>>
TypeRead(payload)   == Word(payload[3], payload[4])

VolumesReady ==
    /\ boot = "volumes"
    /\ boot' \in {"ncp", "failed"}
    /\ UNCHANGED <<ncp, objects, start, sends, name, starts, changes>>

\* The server's socket is bound: its name goes into the bindery, and SAP starts
\* unless it is disabled.
ServerStarts ==
    /\ boot = "ncp"
    /\ ncp' = TRUE /\ objects' = {TypeRead(ServerObj)}
    /\ \/ boot' = "sap" /\ Starting
       \/ boot' = "returned" /\ UNCHANGED <<start, starts>>
    /\ UNCHANGED <<sends, name, changes>>

ServerFails ==
    /\ boot = "ncp" /\ boot' = "failed"
    /\ UNCHANGED <<ncp, objects, start, sends, name, starts, changes>>

\* The server goes on without SAP when start() was rejected.
Returns ==
    /\ boot = "sap" /\ promise \in {"resolved", "rejected"}
    /\ boot' = "returned"
    /\ UNCHANGED <<ncp, objects, start, sends, name, starts, changes>>

Next ==
    /\ alive
    /\ \/ VolumesReady \/ ServerStarts \/ ServerFails \/ Returns
       \/ Bound \/ SocketError \/ Acknowledged \/ Fallback
       \/ Stop \/ StartAgain \/ Announce
       \/ \E i \in intervals : Tick(i)
       \/ \E n \in Names : SetServerName(n)

\* A socket is bound or fails, and timers fire.
Fairness ==
    /\ WF_vars(Bound \/ (sock = "binding" /\ SocketError))
    /\ WF_vars(Fallback)
    /\ WF_vars(\E i \in intervals : Tick(i))

Spec == Init /\ [][Next]_vars /\ Fairness
-----------------------------------------------------------------------------
(***************************************************************************)
(* Properties.                                                             *)
(***************************************************************************)

\* Type invariant.
TypeOK ==
    /\ boot \in {"volumes", "ncp", "failed", "sap", "returned"}
    /\ ncp \in BOOLEAN /\ registered \in BOOLEAN /\ alive \in BOOLEAN
    /\ ackTimer \in BOOLEAN /\ pendingResolve \in BOOLEAN
    /\ objects \subseteq Words
    /\ promise \in {"none", "pending", "resolved", "rejected"}
    /\ sock \in {"none", "binding", "unbound", "bound"}
    /\ intervals \subseteq 1 .. made /\ timer \in intervals \cup {0}
    /\ name \in Names /\ told \subseteq Names
    /\ ackTimer => sock = "bound" /\ pendingResolve

\* However acknowledgements, the timer, errors, stops and new starts meet, a
\* server whose start was resolved broadcasts from one interval, the one stop()
\* ends; a stopped one from none, so that no timer meets a missing socket; and
\* nobody is told of a server that cannot be reached yet.
OneBroadcaster ==
    /\ alive
    /\ intervals \subseteq {timer}
    /\ promise = "resolved" /\ sock = "bound" => intervals # {}
    /\ sock # "bound" => intervals = {}
    /\ told # {} => ncp

\* The name a server has is broadcast, in its first start and in later ones and
\* though the relay never answers, unless the socket fails or the server is
\* stopped or renamed first.
NameBroadcast ==
    \A n \in Names :
        promise \in {"pending", "resolved"} /\ sock # "none" /\ name = n ~>
            told = {n} \/ name # n \/ promise = "rejected" \/ sock = "none"

\* index.js:111 says of buildServerObj "Build minimal CREATE_OBJECT payload for
\* FILE_SERVER bindery object": a server that started is in the bindery as one.
RegisteredAsFileServer == boot = "returned" => FileServer \in objects
=============================================================================
