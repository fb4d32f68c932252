--------------------------- MODULE NcpTransport ---------------------------
(***************************************************************************)
(* NCP over UDP: ncp-client.js (sockets, sequence byte, table of pending   *)
(* calls, timers) and the dispatcher NCPServer._onPacket of ncp-server.js  *)
(* (connection table), joined by a network that delays, reorders, loses    *)
(* and duplicates datagrams.  The services behind the dispatcher have      *)
(* modules of their own; here a service request just succeeds or fails.    *)
(*                                                                         *)
(* A socket is named by the connect call that opened it; the probe of      *)
(* test-ncp.js that sends a raw Destroy opens a socket of its own, named   *)
(* by that call, on which nobody listens.                                  *)
(***************************************************************************)
EXTENDS Integers, FiniteSets, Sequences

CONSTANTS
    Clients,      \* NCPClient objects
    Calls,        \* the calls the programs will ever issue
    Owner,        \* Owner[k]: the client call k is issued on
    Kind,         \* Kind[k]: what call k asks for
    None,         \* JavaScript's null and undefined
    SeqMod,       \* the sequence number is one byte: 256 in the code
    ConnMod,      \* the connection number is two bytes: 65536 in the code
    MaxDup,       \* bound: datagrams the network duplicates
    MaxRestart,   \* bound: restarts of the server process
    QuietReuse,   \* TRUE: a sequence number comes round again only after
                  \* everything sent under it is gone.  An assumption on
                  \* the environment: no program can see to it
    FileService   \* TRUE: the server was given options.fileService

Kinds == {"connect", "service", "file", "logout", "destroy"}

ASSUME ParametersAssumption ==
    /\ Owner \in [Calls -> Clients]
    /\ Kind \in [Calls -> Kinds]
    /\ None \notin Calls
    /\ SeqMod \in Nat \ {0}
    /\ ConnMod \in Nat \ {0}
    /\ MaxDup \in Nat
    /\ MaxRestart \in Nat
    /\ QuietReuse \in BOOLEAN
    /\ FileService \in BOOLEAN

VARIABLES
    conns,     \* server: connection number -> socket it was opened from
    nextConn,  \* server: _nextConn
    jobs,      \* server: requests whose file-service promise is not settled
    given,     \* history: the numbers its process has answered connects with
    net,       \* datagrams in flight
    dups,      \* datagrams duplicated so far
    restarts,  \* server restarts so far
    sock,      \* client: _socket
    open,      \* client: every socket it opened and has not closed
    conn,      \* client: _connLo | _connHi << 8
    seq,       \* client: _seq
    pending,   \* client: _pending, sequence number -> call
    timers,    \* armed timers, by the call that armed them
    sentAs,    \* sentAs[k]: the sequence number k was sent under
    made,      \* history: made[c], how often _call() ran on client c
    order,     \* history: order[k], made[c] when k was sent
    st,        \* st[k]: what the caller of k knows
    ran,       \* history: ran[k], the copies of k the server executed
    got        \* history: got[k], the call whose reply resolved k

serverVars  == <<conns, nextConn, jobs, given>>
networkVars == <<net, dups>>
socketVars  == <<sock, open, conn>>
callVars    == <<pending, timers, st>>
sendVars    == <<seq, sentAs, made, order>>
vars == <<serverVars, networkVars, restarts, socketVars, callVars, sendVars,
          ran, got>>

Connects   == {k \in Calls : Kind[k] = "connect"}
Seqs       == 0 .. SeqMod - 1
Numbers    == 0 .. ConnMod - 1
Unassigned == ConnMod - 1            \* 0xFFFF, the number before any connect
Copies     == 0 .. MaxDup

\* A datagram.  "sock" is the client's end of it (the source of a request,
\* the destination of a reply), "copy" tells duplicates of one datagram apart.
Datagrams == [dir : {"req", "rep"}, call : Calls, sock : Calls, seq : Seqs,
              conn : Numbers, cc : {"-", "ok", "error", "refused"}, copy : Copies]

\* "hung": connect() whose socket could not be bound.
States == {"idle", "binding", "hung", "wait", "ok", "error", "rejected", "sent"}

Waiting == {k \in Calls : st[k] = "wait"}

Init ==
    /\ conns = [i \in {} |-> None]
    /\ nextConn = 1
    /\ jobs = {}
    /\ given = <<>>
    /\ net = {}
    /\ dups = 0
    /\ restarts = 0
    /\ sock    = [c \in Clients |-> None]
    /\ open    = [c \in Clients |-> {}]
    /\ conn    = [c \in Clients |-> Unassigned]
    /\ seq     = [c \in Clients |-> 0]
    /\ pending = [c \in Clients |-> [s \in Seqs |-> None]]
    /\ timers  = {}
    /\ sentAs  = [k \in Calls |-> 0]
    /\ made    = [c \in Clients |-> 0]
    /\ order   = [k \in Calls |-> 0]
    /\ st      = [k \in Calls |-> "idle"]
    /\ ran     = [k \in Calls |-> {}]
    /\ got     = [k \in Calls |-> None]
-----------------------------------------------------------------------------
(***************************************************************************)
(* The client.                                                             *)
(***************************************************************************)

Request(k, from, s, number) ==
    [dir |-> "req", call |-> k, sock |-> from, seq |-> s, conn |-> number,
     cc |-> "-", copy |-> 0]

\* Nothing that still carries sequence number s can be taken for an answer
\* to call k: no datagram, no unfinished file request, no table entry and no
\* timer.  Connects all use number 0 and are allowed to follow each other
\* while answers to an earlier one are under way; a Destroy is answered on a
\* socket of its own.
Quiet(k, s) ==
    LET c == Owner[k] IN
    /\ \A m \in net \cup jobs :
          m.seq = s /\ Owner[m.call] = c /\ Kind[m.call] # "destroy"
             => {k, m.call} \subseteq Connects
    /\ pending[c][s] = None
    /\ \A j \in timers : ~ (Owner[j] = c /\ sentAs[j] = s)

\* A variant: the timer of the call that is overwritten is cleared.
RegisterClearing(k, s) ==
    /\ timers'  = (timers \ {pending[Owner[k]][s]}) \cup {k}
    /\ pending' = [pending EXCEPT ![Owner[k]][s] = k]
    /\ sentAs'  = [sentAs EXCEPT ![k] = s]

\* _sendRaw: arm the timer, enter the call under its sequence number, over
\* whatever was there, and send.
Register(k, s) ==
    /\ timers'  = timers \cup {k}
    /\ pending' = [pending EXCEPT ![Owner[k]][s] = k]
    /\ sentAs'  = [sentAs EXCEPT ![k] = s]

\* connect(): a new socket every time, which is then bound; an old one stays
\* open and keeps its message handler.  A program does not connect while it
\* waits for an earlier connect.
Connect(k) ==
    LET c == Owner[k] IN
    /\ Kind[k] = "connect" /\ st[k] = "idle"
    /\ \A j \in Connects : Owner[j] = c => st[j] \notin {"binding", "wait"}
    /\ sock' = [sock EXCEPT ![c] = k]
    /\ open' = [open EXCEPT ![c] = @ \cup {k}]
    /\ st'   = [st EXCEPT ![k] = "binding"]
    /\ UNCHANGED <<serverVars, networkVars, restarts, conn, pending, timers,
                   sendVars, ran, got>>

\* The socket is bound and connect() sends its packet, always with sequence
\* number 0, on the socket the client then has: none, if the answer to an
\* earlier Logout closed it meanwhile, and then send() throws.
Bound(k) ==
    LET c == Owner[k] IN
    /\ st[k] = "binding"
    /\ QuietReuse => Quiet(k, 0)
    /\ Register(k, 0)
    /\ order' = [order EXCEPT ![k] = made[c]]
    /\ IF sock[c] = None
         THEN /\ st' = [st EXCEPT ![k] = "rejected"]
              /\ UNCHANGED net
         ELSE /\ st' = [st EXCEPT ![k] = "wait"]
              /\ net' = net \cup {Request(k, sock[c], 0, Unassigned)}
    /\ UNCHANGED <<serverVars, dups, restarts, socketVars, seq, made, ran, got>>

\* A variant: the number is cut to one bit less.
NextSeqNarrow(c) == (seq[c] + 1) % (SeqMod \div 2)

\* The number after the last one, cut to its byte.
NextSeq(c) == (seq[c] + 1) % SeqMod

\* _call().  Without a socket send() throws inside the promise: the caller is
\* rejected at once but the entry and its timer stay behind.
Call(k) ==
    LET c == Owner[k]
        s == NextSeq(c)
    IN
    /\ Kind[k] \in {"service", "file", "logout"} /\ st[k] = "idle"
    /\ QuietReuse => Quiet(k, s)
    /\ seq'   = [seq EXCEPT ![c] = s]
    /\ made'  = [made EXCEPT ![c] = @ + 1]
    /\ order' = [order EXCEPT ![k] = made[c] + 1]
    /\ Register(k, s)
    /\ IF sock[c] = None
         THEN /\ st' = [st EXCEPT ![k] = "rejected"]
              /\ UNCHANGED net
         ELSE /\ st' = [st EXCEPT ![k] = "wait"]
              /\ net' = net \cup {Request(k, sock[c], s, conn[c])}
    /\ UNCHANGED <<serverVars, dups, restarts, socketVars, ran, got>>

\* The raw Destroy packet of test-ncp.js: sequence number 1, the client's
\* connection number, a socket of its own and no one waiting for an answer.
SendDestroy(k) ==
    /\ Kind[k] = "destroy" /\ st[k] = "idle"
    /\ conn[Owner[k]] # Unassigned
    /\ st'  = [st EXCEPT ![k] = "sent"]
    /\ net' = net \cup {Request(k, k, 1 % SeqMod, conn[Owner[k]])}
    /\ UNCHANGED <<serverVars, dups, restarts, socketVars, pending, timers,
                   sendVars, ran, got>>

\* The 'message' handler finds the caller by sequence number alone.
Matching(c, m) == pending[c][m.seq]

\* Variants: the completion code is not looked at; it is handed on as it is.
OutcomeUnchecked(m) == "ok"
OutcomeRaw(m) == m.cc

Outcome(m) == IF m.cc = "ok" THEN "ok" ELSE "error"

\* The caller resumes: connect() adopts the number it was given or throws,
\* disconnect() closes the current socket whatever the completion code was,
\* and throws when there is none any more.
Resume(c, k, m) ==
    CASE Kind[k] = "connect" ->
           IF m.cc = "ok"
             THEN /\ conn' = [conn EXCEPT ![c] = m.conn]
                  /\ st' = [st EXCEPT ![k] = "ok"]
                  /\ UNCHANGED <<sock, open>>
             ELSE /\ st' = [st EXCEPT ![k] = "rejected"]
                  /\ UNCHANGED socketVars
      [] Kind[k] = "logout" ->
           /\ sock' = [sock EXCEPT ![c] = None]
           /\ open' = [open EXCEPT ![c] = @ \ {sock[c]}]
           /\ st'   = [st EXCEPT ![k] = IF sock[c] = None THEN "rejected"
                                        ELSE Outcome(m)]
           /\ UNCHANGED conn
      [] OTHER ->
           /\ st' = [st EXCEPT ![k] = Outcome(m)]
           /\ UNCHANGED socketVars

\* What was sent on a socket that is not bound yet is still in its queue, and
\* nothing arrives on it.
Binding(s) == st[s] = "binding"

\* An answer nobody waits for is dropped; one that finds the entry of a caller
\* already rejected clears the entry and does no more.
ClientReceive(c, m) ==
    LET k == Matching(c, m) IN
    /\ m.dir = "rep" /\ m.sock \in open[c] /\ ~ Binding(m.sock)
    /\ net' = net \ {m}
    /\ IF k = None
         THEN UNCHANGED <<callVars, socketVars, got>>
         ELSE /\ timers'  = timers \ {k}
              /\ pending' = [pending EXCEPT ![c][m.seq] = None]
              /\ IF st[k] = "wait"
                   THEN /\ got' = [got EXCEPT ![k] = m.call]
                        /\ Resume(c, k, m)
                   ELSE UNCHANGED <<st, socketVars, got>>
    /\ UNCHANGED <<serverVars, dups, restarts, sendVars, ran>>

\* The five second timer deletes whatever the table holds under the number.
TimerFires(k) ==
    /\ k \in timers
    /\ timers'  = timers \ {k}
    /\ pending' = [pending EXCEPT ![Owner[k]][sentAs[k]] = None]
    /\ st'      = [st EXCEPT ![k] = IF @ = "wait" THEN "rejected" ELSE @]
    /\ UNCHANGED <<serverVars, networkVars, restarts, socketVars, sendVars,
                   ran, got>>

\* A variant: the loop over the table starts one entry late.
EnteredAfterFirst(c) == {pending[c][s] : s \in Seqs \ {0}} \ {None}

Entered(c) == {pending[c][s] : s \in Seqs} \ {None}

\* The 'error' handler of every socket rejects each call in the table.
ErrorHandler(c) ==
    /\ timers'  = timers \ Entered(c)
    /\ pending' = [pending EXCEPT ![c] = [s \in Seqs |-> None]]
    /\ UNCHANGED <<serverVars, dups, restarts, socketVars, sendVars, ran, got>>

Rejected(c) == [k \in Calls |-> IF k \in Entered(c) /\ st[k] = "wait"
                                  THEN "rejected" ELSE st[k]]

SocketError(c) ==
    /\ open[c] # {} /\ Entered(c) # {}
    /\ ErrorHandler(c)
    /\ st' = Rejected(c)
    /\ UNCHANGED net

\* The socket cannot be bound: the same handler runs, what was queued on the
\* socket is discarded, and the promise of _openSocket never settles.
BindFails(k) ==
    /\ st[k] = "binding"
    /\ ErrorHandler(Owner[k])
    /\ st'  = [Rejected(Owner[k]) EXCEPT ![k] = "hung"]
    /\ net' = {m \in net : m.sock # k}
-----------------------------------------------------------------------------
(***************************************************************************)
(* The server: NCPServer._onPacket.                                        *)
(***************************************************************************)

\* buildReply echoes the sequence and connection numbers of the request and
\* _reply sends it to the address the request came from.
Reply(m, cc) == [m EXCEPT !.dir = "rep", !.cc = cc]

Answer(m, cc) == net' = (net \ {m}) \cup {Reply(m, cc)}

Executed(m) == ran' = [ran EXCEPT ![m.call] = @ \cup {m.copy}]

ServerStep(m) == /\ m.dir = "req" /\ ~ Binding(m.sock)
                 /\ UNCHANGED <<dups, restarts, socketVars, callVars, sendVars, got>>

\* A variant: the number is one more than the connections there are.
NewNumberByCount == Cardinality(DOMAIN conns) + 1

\* The number of the next connection.  The counter is not masked; only the
\* two bytes of the reply are.
NewNumber == nextConn

\* A connect request opens a connection each time it arrives.
ServerConnect(m) ==
    /\ ServerStep(m)
    /\ Kind[m.call] = "connect"
    /\ conns' = [i \in DOMAIN conns \cup {NewNumber} |->
                    IF i = NewNumber THEN m.sock ELSE conns[i]]
    /\ nextConn' = nextConn + 1
    /\ given' = Append(given, NewNumber % ConnMod)
    /\ net' = (net \ {m}) \cup
              {[Reply(m, "ok") EXCEPT !.conn = NewNumber % ConnMod]}
    /\ Executed(m)
    /\ UNCHANGED jobs

\* The connection is looked up by number; the sender's address is not compared.
Known(m) == m.conn \in DOMAIN conns

ServerUnknown(m) ==
    /\ ServerStep(m)
    /\ Kind[m.call] # "connect" /\ ~ Known(m)
    /\ Answer(m, "refused")
    /\ UNCHANGED <<serverVars, ran>>

\* Bindery, semaphore, TTS and broadcast requests run to completion and are
\* answered within the handler.
ServerService(m) ==
    /\ ServerStep(m)
    /\ Kind[m.call] = "service" /\ Known(m)
    /\ \E cc \in {"ok", "error"} : Answer(m, cc)
    /\ Executed(m)
    /\ UNCHANGED serverVars

ServerLogout(m) ==
    /\ ServerStep(m)
    /\ Kind[m.call] = "logout" /\ Known(m)
    /\ conns' = [i \in DOMAIN conns \ {m.conn} |-> conns[i]]
    /\ Answer(m, "ok")
    /\ Executed(m)
    /\ UNCHANGED <<nextConn, jobs, given>>

\* Every other function code, the 0x00 of a Destroy included, goes to the file
\* service, whose promise settles later, or is unsupported.
ServerDefault(m) ==
    /\ ServerStep(m)
    /\ Kind[m.call] \in {"file", "destroy"} /\ Known(m)
    /\ IF FileService
         THEN /\ jobs' = jobs \cup {m}
              /\ net'  = net \ {m}
         ELSE /\ Answer(m, "error")
              /\ UNCHANGED jobs
    /\ UNCHANGED <<conns, nextConn, given, ran>>

\* The promise settles: the answer goes out, whatever became of the connection.
\* Function 0x00 is no function of the file service.
FileDone(m) ==
    /\ m \in jobs
    /\ jobs' = jobs \ {m}
    /\ IF Kind[m.call] = "file"
         THEN /\ \E cc \in {"ok", "error"} : net' = net \cup {Reply(m, cc)}
              /\ Executed(m)
         ELSE /\ net' = net \cup {Reply(m, "error")}
              /\ UNCHANGED ran
    /\ UNCHANGED <<conns, nextConn, given, dups, restarts, socketVars, callVars,
                   sendVars, got>>

\* The process dies and is started again; nothing is persisted.  A process that
\* has opened no connection yet is as it was started.
Restart ==
    /\ restarts < MaxRestart /\ nextConn > 1
    /\ restarts' = restarts + 1
    /\ conns' = [i \in {} |-> None]
    /\ nextConn' = 1
    /\ jobs' = {}
    /\ given' = <<>>
    /\ UNCHANGED <<networkVars, socketVars, callVars, sendVars, ran, got>>
-----------------------------------------------------------------------------
(***************************************************************************)
(* The network.                                                            *)
(***************************************************************************)

Lose(m) == /\ net' = net \ {m}
           /\ UNCHANGED <<serverVars, dups, restarts, socketVars, callVars,
                          sendVars, ran, got>>

Duplicate(m) == /\ dups < MaxDup
                /\ dups' = dups + 1
                /\ net' = net \cup {[m EXCEPT !.copy = dups + 1]}
                /\ UNCHANGED <<serverVars, restarts, socketVars, callVars,
                               sendVars, ran, got>>

Next ==
    \/ \E k \in Calls : \/ Connect(k) \/ Bound(k) \/ BindFails(k)
                        \/ Call(k) \/ SendDestroy(k) \/ TimerFires(k)
    \/ \E c \in Clients : SocketError(c) \/ \E m \in net : ClientReceive(c, m)
    \/ \E m \in net : \/ ServerConnect(m) \/ ServerUnknown(m) \/ ServerService(m)
                      \/ ServerLogout(m) \/ ServerDefault(m)
                      \/ Lose(m) \/ Duplicate(m)
    \/ \E m \in jobs : FileDone(m)
    \/ Restart

\* setTimeout fires in the end; nothing is assumed of the network or the server.
Fairness == \A k \in Calls : WF_vars(TimerFires(k))

Spec == Init /\ [][Next]_vars /\ Fairness
-----------------------------------------------------------------------------
(***************************************************************************)
(* Properties.                                                             *)
(***************************************************************************)

\* Type invariant of both ends and of the network between them.
TypeOK ==
    /\ nextConn \in Nat \ {0}
    /\ DOMAIN conns \subseteq Nat
    /\ \A i \in DOMAIN conns : conns[i] \in Calls
    /\ net \subseteq Datagrams
    /\ jobs \subseteq Datagrams
    /\ given \in Seq(Numbers)
    /\ dups \in Copies
    /\ restarts \in 0 .. MaxRestart
    /\ sock \in [Clients -> Connects \cup {None}]
    /\ open \in [Clients -> SUBSET Connects]
    /\ conn \in [Clients -> Numbers]
    /\ seq \in [Clients -> Seqs]
    /\ pending \in [Clients -> [Seqs -> Calls \cup {None}]]
    /\ timers \subseteq Calls
    /\ sentAs \in [Calls -> Seqs]
    /\ made \in [Clients -> Nat]
    /\ order \in [Calls -> Nat]
    /\ st \in [Calls -> States]
    /\ ran \in [Calls -> SUBSET Copies]
    /\ got \in [Calls -> Calls \cup {None}]

\* A caller that waits always has its own timer armed: whatever other replies,
\* timeouts and socket errors do to the table of pending calls, no promise of
\* _sendRaw is left without the means to settle.
WaitingHasTimer == Waiting \subseteq timers

\* While a sequence number comes round only after its datagrams are gone, a
\* caller that waits is in the table under its number: no other call, late
\* timer or late answer has taken its place, so its answer will be delivered.
WaitingIsPending ==
    QuietReuse => \A k \in Waiting : pending[Owner[k]][sentAs[k]] = k

\* The 'message' handler looks at the sequence number alone.  An answer goes to
\* the call that asked, or else to a later one of the same client that the
\* byte cannot tell from it: SeqMod or more calls later, or a connect, which
\* always uses number 0, or a call after one.  Never to a call in between, to
\* an earlier one or to another client's, however late the answer is, and
\* whatever was timed out, entered over it, repeated or restarted meanwhile.
ReplyMatch ==
    \A k \in Calls : got[k] \notin {None, k} =>
        LET j == got[k] IN
        /\ Owner[j] = Owner[k] /\ sentAs[j] = sentAs[k]
        /\ IF {j, k} \cap Connects # {}
             THEN order[j] <= order[k]
             ELSE order[k] - order[j] >= SeqMod

\* A number means one connection for as long as the server has neither been
\* restarted nor given out 0xFFFF connections.
NumbersUnique == restarts = 0 /\ nextConn <= Unassigned

\* The dispatcher trusts the number in the packet and does not look at the
\* sender's address; still no request of one client reaches the connection of
\* another while numbers are unique.
SessionIsolation ==
    NumbersUnique => \A m \in net \cup jobs :
        m.dir = "req" /\ Kind[m.call] # "connect" /\ m.conn \in DOMAIN conns
            => Owner[conns[m.conn]] = Owner[m.call]

\* While the server runs no two connects are answered with one number, until
\* all there are were used: not with the number of a connection that is open,
\* nor with one that Logout closed, on which late requests may still arrive.
NumbersNotReused ==
    Len(given) <= ConnMod =>
        \A i, j \in DOMAIN given : given[i] = given[j] => i = j

\* Every call that was sent settles, on the timers alone: the network may lose
\* everything and the server may be down.  A connect that waits for its socket
\* is not sent yet, and does not settle when the socket cannot be bound.
EverySentCallSettles ==
    \A k \in Calls : (st[k] = "wait") ~> (st[k] \in {"ok", "error", "rejected"})

\* The calls of _call() implement the abstract request/reply cycle: one
\* outcome each, success only after an execution, at most one execution for
\* each copy of the request.
Requests == {k \in Calls : Kind[k] \in {"service", "file", "logout"}}

R == INSTANCE Rpc WITH Calls <- Requests,
                       Copies <- Copies,
                       phase <- [k \in Requests |-> st[k]],
                       runs  <- [k \in Requests |-> ran[k]]

RpcSpec == R!Spec
=============================================================================
