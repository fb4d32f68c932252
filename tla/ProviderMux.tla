---------------------------- MODULE ProviderMux ----------------------------
(***************************************************************************)
(* provider-mux.mjs: a chain of providers, each behind a circuit breaker,  *)
(* and calls that go down the chain until a provider answers.  Several     *)
(* calls are under way at once; a call is suspended only while it waits    *)
(* for a provider, so that the failure of one provider and the choice of   *)
(* the next are one step.                                                  *)
(*                                                                         *)
(* Time is the clock the breakers read.  The telemetry decides nothing and *)
(* is left out.  How providers answer, and that they do, is external.      *)
(***************************************************************************)
EXTENDS Integers, Sequences

CONSTANTS
    Chain,      \* _chain: the providers that have a key, in order of priority
    Calls,      \* calls under way at once
    Threshold,  \* failureThreshold: 3
    Window,     \* windowMs: 60 s
    OpenFor,    \* openDurationMs: 45 s
    Probes,     \* halfOpenProbes: 1
    MaxTime     \* bound: how far the clock goes

Providers == {Chain[i] : i \in 1 .. Len(Chain)}
Positions == 1 .. Len(Chain)

ASSUME ParametersAssumption ==
    /\ Chain \in Seq(Providers)
    /\ \A i, j \in Positions : Chain[i] = Chain[j] => i = j
    /\ {Threshold, Probes} \subseteq Nat \ {0}
    /\ {Window, OpenFor, MaxTime} \subseteq Nat

VARIABLES
    now,          \* Date.now()
    state,        \* state[p]: _state of p's breaker
    failures,     \* _failures
    windowStart,  \* _windowStart
    openedAt,     \* _openedAt
    probesSent,   \* _probesSent; counting stops at Probes, where it makes no
                  \* difference any more
    at,           \* at[k]: the position in the chain call k waits at, 0 for none
    recent,       \* history: recent[p], the times of p's last failures, up to
                  \* Threshold of them, since its last success
    probed        \* history: probed[p], when the last request was let through
                  \* since the breaker was last closed

breaker == <<state, failures, windowStart, openedAt, probesSent>>
vars    == <<now, breaker, at, recent, probed>>

Never == -1

InFlight(p) == {k \in Calls : at[k] # 0 /\ Chain[at[k]] = p}

Init ==
    /\ now = 0
    /\ state       = [p \in Providers |-> "closed"]
    /\ failures    = [p \in Providers |-> 0]
    /\ windowStart = [p \in Providers |-> 0]
    /\ openedAt    = [p \in Providers |-> 0]
    /\ probesSent  = [p \in Providers |-> 0]
    /\ at          = [k \in Calls |-> 0]
    /\ recent      = [p \in Providers |-> <<>>]
    /\ probed      = [p \in Providers |-> Never]
-----------------------------------------------------------------------------
(***************************************************************************)
(* The breaker of provider p.                                              *)
(***************************************************************************)

Rested(p) == state[p] = "open" /\ now - openedAt[p] >= OpenFor

\* A variant: the probes of the last time are not forgotten.
ProbesBeforeKept(p) == probesSent[p]

\* The probes that count when a request asks: none when the breaker turns half
\* open with this request.
ProbesBefore(p) == IF Rested(p) THEN 0 ELSE probesSent[p]

\* allowRequest: its answer, and the state and the count it leaves.
HalfOpen(p) == Rested(p) \/ state[p] = "half-open"

ProbeLeft(p) == HalfOpen(p) /\ ProbesBefore(p) < Probes

Allowed(p) == state[p] = "closed" \/ ProbeLeft(p)

StateAsked(p)  == IF Rested(p) THEN "half-open" ELSE state[p]
ProbesAsked(p) == IF ProbeLeft(p) THEN ProbesBefore(p) + 1 ELSE probesSent[p]

\* A variant: failures of an earlier window still count.
CountedAll(p) == failures[p] + 1

\* recordFailure.
Expired(p) == now - windowStart[p] > Window
Counted(p) == IF Expired(p) THEN 1 ELSE failures[p] + 1

\* A variant: one failure more than the threshold is needed.
TooManyLate(p) == Counted(p) > Threshold

TooMany(p) == Counted(p) >= Threshold

StateFailed(p) == IF state[p] = "half-open" \/ TooMany(p) THEN "open" ELSE state[p]

\* A variant: a breaker that opens again keeps the time it opened first.
OpenedKept(p) ==
    IF StateFailed(p) = "open" /\ state[p] = "closed" THEN now ELSE openedAt[p]

\* _tx takes the time only when the state changes to open.
OpenedFailed(p) ==
    IF StateFailed(p) = "open" /\ state[p] # "open" THEN now ELSE openedAt[p]
-----------------------------------------------------------------------------
(***************************************************************************)
(* ProviderMux.call.                                                       *)
(***************************************************************************)

\* From position i on call k asks one breaker after the other until one lets it
\* through; q is that position, or 0 when there is none and the call throws.
\* A provider comes once in the chain: no breaker is asked twice.
FirstAllowed(i, q) ==
    \/ /\ q \in i .. Len(Chain) /\ Allowed(Chain[q])
       /\ \A j \in i .. q - 1 : ~ Allowed(Chain[j])
    \/ q = 0 /\ \A j \in i .. Len(Chain) : ~ Allowed(Chain[j])

Asked(i, q) == {Chain[j] : j \in i .. (IF q = 0 THEN Len(Chain) ELSE q)}

GoesOn(k, i, q) ==
    /\ FirstAllowed(i, q)
    /\ at' = [at EXCEPT ![k] = q]
    /\ probesSent' = [p \in Providers |->
                        IF p \in Asked(i, q) THEN ProbesAsked(p) ELSE probesSent[p]]
    /\ probed' = [p \in Providers |->
                    IF q # 0 /\ p = Chain[q] /\ state[p] # "closed" THEN now ELSE probed[p]]

Start(k) ==
    /\ at[k] = 0
    /\ \E q \in 0 .. Len(Chain) :
          /\ GoesOn(k, 1, q)
          /\ state' = [p \in Providers |->
                         IF p \in Asked(1, q) THEN StateAsked(p) ELSE state[p]]
    /\ UNCHANGED <<now, failures, windowStart, openedAt, recent>>

\* The last n of s, one longer at most.
LastOf(s, n) == IF Len(s) <= n THEN s ELSE Tail(s)

\* The provider call k waits for fails: the call goes on down the chain.
Fails(k) ==
    LET f == Chain[at[k]] IN
    /\ at[k] # 0
    /\ \E q \in 0 .. Len(Chain) :
          /\ GoesOn(k, at[k] + 1, q)
          /\ state' = [p \in Providers |->
                         IF p = f THEN StateFailed(p)
                         ELSE IF p \in Asked(at[k] + 1, q) THEN StateAsked(p) ELSE state[p]]
    /\ failures'    = [failures EXCEPT ![f] = Counted(f)]
    /\ windowStart' = [windowStart EXCEPT ![f] = IF Expired(f) THEN now ELSE @]
    /\ openedAt'    = [openedAt EXCEPT ![f] = OpenedFailed(f)]
    /\ recent'      = [recent EXCEPT ![f] = LastOf(Append(@, now), Threshold)]
    /\ UNCHANGED now

\* The provider answers: the breaker closes, whatever its state was.
Succeeds(k) ==
    LET p == Chain[at[k]] IN
    /\ at[k] # 0
    /\ at'       = [at EXCEPT ![k] = 0]
    /\ failures' = [failures EXCEPT ![p] = 0]
    /\ state'    = [state EXCEPT ![p] = "closed"]
    /\ recent'   = [recent EXCEPT ![p] = <<>>]
    /\ probed'   = [probed EXCEPT ![p] = Never]
    /\ UNCHANGED <<now, windowStart, openedAt, probesSent>>

Tick == /\ now < MaxTime
        /\ now' = now + 1
        /\ UNCHANGED <<breaker, at, recent, probed>>

Next == Tick \/ \E k \in Calls : Start(k) \/ Fails(k) \/ Succeeds(k)

\* fetch settles in the end, one way or the other.
Fairness == \A k \in Calls : WF_vars(Fails(k) \/ Succeeds(k))

Spec == Init /\ [][Next]_vars /\ Fairness
-----------------------------------------------------------------------------
(***************************************************************************)
(* Properties.                                                             *)
(***************************************************************************)

\* Type invariant; a closed breaker has counted fewer failures than it takes
\* to open it.
TypeOK ==
    /\ now \in Nat
    /\ state \in [Providers -> {"closed", "open", "half-open"}]
    /\ failures \in [Providers -> Nat]
    /\ windowStart \in [Providers -> 0 .. now]
    /\ openedAt \in [Providers -> 0 .. now]
    /\ probesSent \in [Providers -> 0 .. Probes]
    /\ at \in [Calls -> 0 .. Len(Chain)]
    /\ \A p \in Providers : state[p] = "closed" => failures[p] < Threshold

\* A half-open breaker always has a request on its way whose end takes it out
\* of that state: calls that started while it was closed and end late, in any
\* order, never leave it half open with no probe left to send.
ProbeOutstanding ==
    \A p \in Providers : state[p] = "half-open" => InFlight(p) # {}

\* A breaker never stays half open for ever.
HalfOpenResolves ==
    \A p \in Providers : (state[p] = "half-open") ~> (state[p] # "half-open")

\* A closed breaker opens only after Threshold failures in a row, all within
\* one window: failures of an earlier window, and those before a success, do
\* not add up.
OpensOnBurst ==
    [][\A p \in Providers : state[p] = "closed" /\ state'[p] = "open" =>
          Len(recent'[p]) = Threshold /\ now - Head(recent'[p]) <= Window]_vars

\* With one probe a provider that keeps failing is asked once in OpenFor at
\* most: late failures and successive half-open periods add no request.
ProbesSpaced ==
    [][Probes = 1 => \A k \in Calls : LET p == Chain[at'[k]] IN
          at'[k] \notin {0, at[k]} /\ state[p] # "closed" /\ probed[p] # Never
             => now - probed[p] >= OpenFor]_vars
=============================================================================
