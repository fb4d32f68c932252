-------------------------- MODULE SemaphoreStore --------------------------
(***************************************************************************)
(* The semaphores of ncp-server.js: class SemaphoreStore and the 0x20      *)
(* requests that reach it.  The store counts how often a semaphore is open *)
(* but not by whom, and every operation but Examine changes it again when  *)
(* the request is delivered again.                                         *)
(*                                                                         *)
(* An "opening" is one use of openSema by a program and what it does with  *)
(* the handle: wait and signal in turn, then close once.  The store itself *)
(* keeps no trace of openings; they are here to say what it should count.  *)
(*                                                                         *)
(* A call is three steps: the program sends the request, the server        *)
(* carries it out, the answer arrives.  A program that waited five seconds *)
(* gives the call up, before or after the server carried it out.           *)
(***************************************************************************)
EXTENDS Integers, FiniteSets

CONSTANTS
    Openings,       \* uses of openSema
    Names,          \* semaphore names, upper-cased
    InitialValues,  \* initial values asked for, any signed byte
    MaxValue,       \* the largest value: 127 in the code
    MaxDup,         \* bound: requests carried out again, or after the call
                    \* was given up
    MaxLost         \* bound: calls given up

ASSUME ParametersAssumption ==
    /\ IsFiniteSet(Openings)
    /\ InitialValues \subseteq Int
    /\ MaxValue \in Nat
    /\ MaxDup \in Nat
    /\ MaxLost \in Nat

VARIABLES
    semas,    \* _semas: handle -> its semaphore
    byName,   \* _byName: name -> handle
    nextHdl,  \* _nextHdl
    phase,    \* phase[o]: what became of opening o
    req,      \* req[o]: the request it waits for the answer of
    done,     \* the openings whose request is carried out, not answered yet
    hdl,      \* hdl[o]: the handle it has open, 0 for none
    holds,    \* the openings that have a unit: given to them, not taken back
    sent,     \* the requests sent so far; the network may repeat any of them
    dups,     \* requests repeated so far
    lost,     \* calls given up so far
    created   \* history: handle -> the value it was created with

store   == <<semas, byName, nextHdl, created>>
program == <<phase, req, done, hdl, holds, sent>>
vars    == <<store, program, dups, lost>>

Opened  == DOMAIN semas
Phases  == {"idle", "open", "closed", "failed"}

OpenRequest(n, v) == [op |-> "open", name |-> n, init |-> v]
OnHandle(op, h)   == [op |-> op, handle |-> h]
NoRequest         == [op |-> "none"]

Requests == [op : {"open"}, name : Names, init : InitialValues]
              \cup [op : {"wait", "signal", "close"}, handle : Nat]

Init ==
    /\ semas   = [h \in {} |-> 0]
    /\ byName  = [n \in {} |-> 0]
    /\ nextHdl = 1
    /\ phase   = [o \in Openings |-> "idle"]
    /\ req     = [o \in Openings |-> NoRequest]
    /\ done    = {}
    /\ hdl     = [o \in Openings |-> 0]
    /\ holds   = {}
    /\ sent    = {}
    /\ dups    = 0
    /\ lost    = 0
    /\ created = [h \in {} |-> 0]
-----------------------------------------------------------------------------
(***************************************************************************)
(* The store.                                                              *)
(***************************************************************************)

\* A variant: the counter is read after it was incremented.
OpenHandleLate(n, v) ==
    IF n \in DOMAIN byName THEN byName[n]
    ELSE IF v \in 0 .. MaxValue THEN nextHdl + 1 ELSE 0

\* The handle open() answers with, or 0 for BAD_DATA.  The initial value only
\* counts, and is only checked, when the name is new.
OpenHandle(n, v) ==
    IF n \in DOMAIN byName THEN byName[n]
    ELSE IF v \in 0 .. MaxValue THEN nextHdl ELSE 0

StoreOpen(n, v) ==
    IF n \in DOMAIN byName
      THEN /\ semas' = [semas EXCEPT ![byName[n]].openCount = @ + 1]
           /\ UNCHANGED <<byName, nextHdl, created>>
      ELSE IF v \in 0 .. MaxValue
      THEN /\ semas' = [h \in Opened \cup {nextHdl} |->
                          IF h = nextHdl
                            THEN [name |-> n, value |-> v, openCount |-> 1]
                            ELSE semas[h]]
           /\ byName' = [x \in DOMAIN byName \cup {n} |->
                           IF x = n THEN nextHdl ELSE byName[x]]
           /\ created' = [h \in DOMAIN created \cup {nextHdl} |->
                            IF h = nextHdl THEN v ELSE created[h]]
           /\ nextHdl' = nextHdl + 1
      ELSE UNCHANGED store

\* wait() never blocks: without a unit it answers SEMA_TIMEOUT at once.
CanWait(h) == h \in Opened /\ semas[h].value > 0

StoreWait(h) ==
    /\ IF CanWait(h)
         THEN semas' = [semas EXCEPT ![h].value = @ - 1]
         ELSE UNCHANGED semas
    /\ UNCHANGED <<byName, nextHdl, created>>

\* A variant: the largest value is tested for one too early.
CanSignalBelowMax(h) == h \in Opened /\ semas[h].value < MaxValue - 1

CanSignal(h) == h \in Opened /\ semas[h].value < MaxValue

StoreSignal(h) ==
    /\ IF CanSignal(h)
         THEN semas' = [semas EXCEPT ![h].value = @ + 1]
         ELSE UNCHANGED semas
    /\ UNCHANGED <<byName, nextHdl, created>>

\* A variant: the semaphore goes one close early.
LastCloseButOne(h) == semas[h].openCount <= 2

\* The last close removes the semaphore; an earlier one only counts down.
LastClose(h) == semas[h].openCount <= 1

\* Variants: the name stays behind; the handle is given back for reuse.
StoreCloseKeepingName(h) ==
    /\ IF h \notin Opened
         THEN UNCHANGED semas
         ELSE IF LastClose(h)
         THEN semas' = [x \in Opened \ {h} |-> semas[x]]
         ELSE semas' = [semas EXCEPT ![h].openCount = @ - 1]
    /\ UNCHANGED <<byName, nextHdl, created>>

StoreCloseRecycling(h) ==
    /\ IF h \notin Opened
         THEN UNCHANGED <<semas, byName, nextHdl>>
         ELSE IF LastClose(h)
         THEN /\ semas'   = [x \in Opened \ {h} |-> semas[x]]
              /\ byName'  = [x \in DOMAIN byName \ {semas[h].name} |-> byName[x]]
              /\ nextHdl' = h
         ELSE /\ semas' = [semas EXCEPT ![h].openCount = @ - 1]
              /\ UNCHANGED <<byName, nextHdl>>
    /\ UNCHANGED created

StoreClose(h) ==
    /\ IF h \notin Opened
         THEN UNCHANGED <<semas, byName>>
         ELSE IF LastClose(h)
         THEN /\ semas'  = [x \in Opened \ {h} |-> semas[x]]
              /\ byName' = [x \in DOMAIN byName \ {semas[h].name} |-> byName[x]]
         ELSE /\ semas'  = [semas EXCEPT ![h].openCount = @ - 1]
              /\ UNCHANGED byName
    /\ UNCHANGED <<nextHdl, created>>
-----------------------------------------------------------------------------
(***************************************************************************)
(* The programs.                                                           *)
(***************************************************************************)

\* A program has one call at a time on its way.
Ask(o, r) ==
    /\ req[o] = NoRequest
    /\ req'  = [req EXCEPT ![o] = r]
    /\ sent' = sent \cup {r}
    /\ UNCHANGED <<store, phase, done, hdl, holds, dups, lost>>

OpenSema(o, n, v) == phase[o] = "idle" /\ Ask(o, OpenRequest(n, v))

\* A program does not wait again while it has the unit it waited for.
WaitSema(o)   == phase[o] = "open" /\ o \notin holds /\ Ask(o, OnHandle("wait", hdl[o]))
SignalSema(o) == phase[o] = "open" /\ o \in holds /\ Ask(o, OnHandle("signal", hdl[o]))
CloseSema(o)  == phase[o] = "open" /\ o \notin holds /\ Ask(o, OnHandle("close", hdl[o]))

\* The server receives o's request; the answer is on its way.
Asked(o, op) == req[o].op = op /\ o \notin done
Answered(o)  == done' = done \cup {o} /\ UNCHANGED <<phase, req, sent, dups, lost>>

ServeOpen(o) ==
    /\ Asked(o, "open") /\ Answered(o)
    /\ StoreOpen(req[o].name, req[o].init)
    /\ hdl' = [hdl EXCEPT ![o] = OpenHandle(req[o].name, req[o].init)]
    /\ UNCHANGED holds

ServeWait(o) ==
    /\ Asked(o, "wait") /\ Answered(o)
    /\ StoreWait(req[o].handle)
    /\ holds' = IF CanWait(req[o].handle) THEN holds \cup {o} ELSE holds
    /\ UNCHANGED hdl

\* The program takes its unit for given back whatever the answer is.
ServeSignal(o) ==
    /\ Asked(o, "signal") /\ Answered(o)
    /\ StoreSignal(req[o].handle)
    /\ holds' = holds \ {o}
    /\ UNCHANGED hdl

ServeClose(o) ==
    /\ Asked(o, "close") /\ Answered(o)
    /\ StoreClose(req[o].handle)
    /\ hdl' = [hdl EXCEPT ![o] = 0]
    /\ UNCHANGED holds

\* The call of o ends; its phase is then p.
End(o, p) ==
    /\ phase' = [phase EXCEPT ![o] = p]
    /\ req'   = [req EXCEPT ![o] = NoRequest]
    /\ done'  = done \ {o}
    /\ UNCHANGED <<store, sent, dups>>

\* The answer arrives: a handle or BAD_DATA, or what wait, signal or close
\* returned.
Return(o) ==
    /\ o \in done
    /\ LET op == req[o].op
       IN  End(o, IF op = "open" THEN IF hdl[o] = 0 THEN "failed" ELSE "open"
                  ELSE IF op = "close" THEN "closed" ELSE "open")
    /\ UNCHANGED <<hdl, holds, lost>>

\* The timer fires: the request or its answer is lost or late.  The program
\* knows no handle, or takes the semaphore for closed, or knows of no unit.
GiveUp(o) ==
    /\ req[o] # NoRequest /\ lost < MaxLost
    /\ lost' = lost + 1
    /\ LET op == req[o].op
       IN  /\ End(o, IF op = "open" THEN "failed"
                     ELSE IF op = "close" THEN "closed" ELSE "open")
           /\ hdl' = IF op \in {"open", "close"} THEN [hdl EXCEPT ![o] = 0] ELSE hdl
    /\ holds' = holds \ {o}

\* A request that UDP delivered twice, or after its program gave up, or that
\* a program sent again, is executed like any other.
Redeliver(r) ==
    /\ dups < MaxDup
    /\ dups' = dups + 1
    /\ \/ r.op = "open"   /\ StoreOpen(r.name, r.init)
       \/ r.op = "wait"   /\ StoreWait(r.handle)
       \/ r.op = "signal" /\ StoreSignal(r.handle)
       \/ r.op = "close"  /\ StoreClose(r.handle)
    /\ UNCHANGED <<program, lost>>

Next ==
    \/ \E o \in Openings :
          \/ \E n \in Names, v \in InitialValues : OpenSema(o, n, v)
          \/ WaitSema(o) \/ SignalSema(o) \/ CloseSema(o)
          \/ ServeOpen(o) \/ ServeWait(o) \/ ServeSignal(o) \/ ServeClose(o)
          \/ Return(o) \/ GiveUp(o)
    \/ \E r \in sent : Redeliver(r)

Spec == Init /\ [][Next]_vars
-----------------------------------------------------------------------------
(***************************************************************************)
(* Properties.                                                             *)
(***************************************************************************)

\* The openings that have handle h open, and those that have one of its units.
Live(h) == {o \in Openings : hdl[o] = h}
Held(h) == {o \in holds : hdl[o] = h}

\* Type invariant of the store and of the programs that use it.
TypeOK ==
    /\ nextHdl \in Nat \ {0}
    /\ Opened \subseteq 1 .. nextHdl - 1
    /\ semas \in [Opened -> [name : Names, value : Int, openCount : Int]]
    /\ DOMAIN byName \subseteq Names
    /\ byName \in [DOMAIN byName -> 1 .. nextHdl - 1]
    /\ phase \in [Openings -> Phases]
    /\ req \in [Openings -> Requests \cup {NoRequest}]
    /\ done \subseteq {o \in Openings : req[o] # NoRequest}
    /\ hdl \in [Openings -> 0 .. nextHdl - 1]
    /\ holds \subseteq Openings
    /\ sent \subseteq Requests
    /\ dups \in 0 .. MaxDup
    /\ lost \in 0 .. MaxLost
    /\ DOMAIN created = 1 .. nextHdl - 1
    /\ created \in [DOMAIN created -> 0 .. MaxValue]

\* _semas and _byName index the same semaphores, through every order of opens,
\* closes and repeated requests: no name leads to a handle that is gone and no
\* semaphore is out of reach of its name.
IndexesAgree ==
    /\ \A n \in DOMAIN byName : byName[n] \in Opened /\ semas[byName[n]].name = n
    /\ \A h \in Opened : /\ semas[h].name \in DOMAIN byName
                         /\ byName[semas[h].name] = h

\* A value stays between 0 and 127, so that a repeated wait or signal never
\* wraps or turns a count of units negative.
ValueBounded == \A h \in Opened : semas[h].value \in 0 .. MaxValue

\* openCount is the number of openings that have the handle, less at most
\* one for each repeated request, and more by at most one for each repeated
\* request and for each call given up.  So without repeats no semaphore
\* disappears under a program that has it open, whatever answers are lost;
\* and without lost ones either, none is left over when the last one closes.
OpenCount(h) == IF h \in Opened THEN semas[h].openCount ELSE 0

OpenCountTracks ==
    /\ \A h \in 1 .. nextHdl - 1 :
          OpenCount(h) - Cardinality(Live(h)) \in -dups .. dups + lost
    /\ \A h \in Opened : semas[h].openCount > 0

\* The units of a semaphore are either in its value or with a program.  Their
\* sum is never more than what it was created with but for one for each
\* repeated request: with initial value 1 and no repeats this is mutual
\* exclusion, whatever answers are lost.  It is less by at most one for each
\* repeated request and for each call given up: a unit given to a program
\* whose answer was lost is nobody's.
UnitsConserved ==
    \A h \in Opened :
        semas[h].value + Cardinality(Held(h)) - created[h] \in -(dups + lost) .. dups

\* A handle that was closed never comes back, so that a late request on it is
\* refused instead of acting on a semaphore opened since.
HandlesNotReused ==
    [][\A h \in Opened' : h \in Opened \/ h \notin DOMAIN created]_vars
=============================================================================
