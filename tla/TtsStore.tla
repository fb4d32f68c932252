----------------------------- MODULE TtsStore -----------------------------
(***************************************************************************)
(* The Transaction Tracking System of ncp-server.js: class TTSStore and    *)
(* the 0x22 requests that reach it, as the stations of a network use them. *)
(*                                                                         *)
(* One store serves every station.  Begin creates a transaction but its    *)
(* number is never sent back; End creates another one, commits that and    *)
(* answers with its number.  Only a disabled or unavailable transaction    *)
(* system makes a completion code other than success.                      *)
(***************************************************************************)
EXTENDS Integers

CONSTANTS
    Stations,  \* the programs that use transactions
    MaxTxns    \* bound: transactions ever created

VARIABLES
    txns,      \* _txns: number -> "open" or "committed"
    nextId,    \* _nextId
    enabled,   \* _enabled
    begun,     \* history: begun[w], the numbers Begin created for w
    ended,     \* history: ended[w], the numbers End answered w with
    aborted    \* history: the numbers an Abort of any station has named

server  == <<txns, nextId, enabled>>
ttsVars == <<server, begun, ended, aborted>>

Numbers == 0 .. MaxTxns

TtsInit ==
    /\ txns     = [i \in {} |-> "open"]
    /\ nextId   = 1
    /\ enabled  = TRUE
    /\ begun    = [w \in Stations |-> {}]
    /\ ended    = [w \in Stations |-> {}]
    /\ aborted  = {}

\* A variant: the counter stays.
CreateUncounted(state) ==
    /\ nextId <= MaxTxns
    /\ txns' = [i \in DOMAIN txns \cup {nextId} |->
                  IF i = nextId THEN state ELSE txns[i]]
    /\ UNCHANGED nextId

\* begin(): a new transaction in the given state.
Create(state) ==
    /\ nextId <= MaxTxns
    /\ txns' = [i \in DOMAIN txns \cup {nextId} |->
                  IF i = nextId THEN state ELSE txns[i]]
    /\ nextId' = nextId + 1

\* BEGIN: the answer does not hold the number.
Begin(w) ==
    /\ enabled
    /\ Create("open")
    /\ begun' = [begun EXCEPT ![w] = @ \cup {nextId}]
    /\ UNCHANGED <<enabled, ended, aborted>>

\* END begins a transaction of its own and commits it.  While transactions are
\* disabled nothing changes, and the reply says success with number 0.
End(w) ==
    /\ enabled
    /\ Create("committed")
    /\ ended' = [ended EXCEPT ![w] = @ \cup {nextId}]
    /\ UNCHANGED <<enabled, begun, aborted>>

\* abort() removes the transaction, committed or not, whoever asks: a station may
\* name any number.  The reply says success for one the store does not know.
Abort(i) ==
    /\ txns'    = [j \in DOMAIN txns \ {i} |-> txns[j]]
    /\ aborted' = aborted \cup ({i} \cap DOMAIN txns)
    /\ UNCHANGED <<nextId, enabled, begun, ended>>

\* isCommitted(): the answer to IS_COMMITTED.
IsCommitted(i) == i \in DOMAIN txns /\ txns[i] = "committed"

\* One flag for all stations.
Enable(value) ==
    /\ enabled' = value
    /\ UNCHANGED <<txns, nextId, begun, ended, aborted>>

TtsNext ==
    \/ \E w \in Stations : Begin(w) \/ End(w)
    \/ \E i \in Numbers : Abort(i)
    \/ \E value \in BOOLEAN : Enable(value)

TtsSpec == TtsInit /\ [][TtsNext]_ttsVars
-----------------------------------------------------------------------------
(***************************************************************************)
(* Properties.                                                             *)
(***************************************************************************)

\* Type invariant.
TtsTypeOK ==
    /\ nextId \in Nat \ {0}
    /\ DOMAIN txns \subseteq 1 .. nextId - 1
    /\ txns \in [DOMAIN txns -> {"open", "committed"}]
    /\ enabled \in BOOLEAN
    /\ begun \in [Stations -> SUBSET (1 .. nextId - 1)]
    /\ ended \in [Stations -> SUBSET (1 .. nextId - 1)]
    /\ aborted \subseteq 1 .. nextId - 1

\* A number that End answered with was given to one station, once, and
\* IS_COMMITTED says so of it until an Abort names that very number, whatever
\* stations begin, end, enable and disable in the meantime; what was aborted
\* is never committed again.
CommittedStays ==
    \A w \in Stations : \A i \in ended[w] :
        /\ \A v \in Stations : i \notin begun[v] /\ (i \in ended[v] => v = w)
        /\ IsCommitted(i) <=> i \notin aborted
=============================================================================
