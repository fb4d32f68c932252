------------------------ MODULE NcpTransportProofs ------------------------
(***************************************************************************)
(* Theorems about NcpTransport, for every set of clients and calls, every  *)
(* width of the sequence and connection numbers and every bound: types,    *)
(* timers, sessions, which answers a call can be given, and, while         *)
(* sequence numbers are reused only when they are quiet, that a waiting    *)
(* call stays in the table and that the transport implements Rpc.          *)
(***************************************************************************)
EXTENDS NcpTransport, TLAPS

(***************************************************************************)
(* Numbers that are cut to a range.                                        *)
(***************************************************************************)

LEMMA Division ==
  ASSUME NEW M \in Int, M > 0, NEW x \in Int
  PROVE  \E q \in Int, r \in 0 .. M - 1 : x = q * M + r /\ x % M = r
OBVIOUS

LEMMA Rest ==
  ASSUME NEW M \in Int, M > 0, NEW q \in Int, NEW r \in 0 .. M - 1
  PROVE  (q * M + r) % M = r
OBVIOUS

\* Two numbers with the same rest are at least the range apart.
LEMMA SameRest ==
  ASSUME NEW M \in Int, M > 0, NEW x \in Int, NEW y \in Int, x < y, x % M = y % M
  PROVE  y - x >= M
<1>1. PICK p \in Int, r \in 0 .. M - 1 : x = p * M + r /\ x % M = r
  BY Division
<1>2. PICK q \in Int, e \in 0 .. M - 1 : y = q * M + e /\ y % M = e
  BY Division
<1>3. y - x = (q - p) * M
  BY <1>1, <1>2
<1>4. q - p >= 1
  BY <1>3
<1> QED BY <1>3, <1>4

LEMMA NextRest ==
  ASSUME NEW M \in Int, M > 0, NEW x \in Int
  PROVE  ((x % M) + 1) % M = (x + 1) % M
<1>1. PICK q \in Int, r \in 0 .. M - 1 : x = q * M + r /\ x % M = r
  BY Division
<1>2. CASE r + 1 < M
  <2>1. (q * M + (r + 1)) % M = r + 1 /\ (0 * M + (r + 1)) % M = r + 1
    BY <1>2, Rest
  <2> QED BY <1>1, <2>1
<1>3. CASE r + 1 = M
  <2>1. ((q + 1) * M + 0) % M = 0 /\ (1 * M + 0) % M = 0
    BY Rest
  <2> QED BY <1>1, <1>3, <2>1
<1> QED BY <1>2, <1>3
-----------------------------------------------------------------------------
(***************************************************************************)
(* Type correctness.                                                       *)
(***************************************************************************)

\* The parts of an action's effect that most actions leave alone.
LEMMA RequestType ==
  ASSUME NEW k \in Calls, NEW from \in Calls, NEW s \in Seqs, NEW n \in Numbers
  PROVE  Request(k, from, s, n) \in Datagrams
  BY ParametersAssumption DEF Request, Datagrams, Copies, Seqs, Numbers

LEMMA ReplyType ==
  ASSUME NEW m \in Datagrams, NEW cc \in {"ok", "error", "refused"}
  PROVE  /\ Reply(m, cc) \in Datagrams
         /\ \A n \in Numbers : [Reply(m, cc) EXCEPT !.conn = n] \in Datagrams
         /\ \A t \in Copies : [m EXCEPT !.copy = t] \in Datagrams
  BY DEF Reply, Datagrams

LEMMA ModType ==
  /\ \A n \in Nat : n % ConnMod \in Numbers
  /\ \A n \in Nat : n % SeqMod \in Seqs
  /\ 0 \in Seqs /\ Unassigned \in Numbers
  BY ParametersAssumption DEF Numbers, Seqs, Unassigned

LEMMA InitType == Init => TypeOK
  BY ParametersAssumption, ModType
  DEF Init, TypeOK, Copies, Unassigned, Numbers, Seqs, States

LEMMA NextType == TypeOK /\ [Next]_vars => TypeOK'
<1> SUFFICES ASSUME TypeOK, [Next]_vars PROVE TypeOK'
  OBVIOUS
<1> USE ParametersAssumption, ModType
<1>1. ASSUME NEW k \in Calls, Connect(k) PROVE TypeOK'
  <2>1. Owner[k] \in Clients /\ k \in Connects
    BY <1>1 DEF Connect, Connects
  <2>2. st' \in [Calls -> States]
    BY <1>1 DEF TypeOK, Connect, States
  <2>3. sock' \in [Clients -> Connects \cup {None}] /\ open' \in [Clients -> SUBSET Connects]
    BY <1>1, <2>1 DEF TypeOK, Connect
  <2>4. UNCHANGED <<serverVars, networkVars, restarts, conn, pending, timers, sendVars,
                    ran, got>>
    BY <1>1 DEF Connect
  <2> QED
    BY ONLY TypeOK, <2>2, <2>3, <2>4 DEF TypeOK, serverVars, networkVars, sendVars
<1>2. ASSUME NEW k \in Calls, Call(k) PROVE TypeOK'
  <2> DEFINE c == Owner[k]
             s == NextSeq(c)
  <2>1. c \in Clients
    OBVIOUS
  <2>2. s \in Seqs
    <3>1. seq[c] \in Nat
      BY <2>1 DEF TypeOK, Seqs
    <3> QED BY <3>1 DEF NextSeq
  <2>3. sock[c] # None => Request(k, sock[c], s, conn[c]) \in Datagrams
    BY <2>1, <2>2, RequestType DEF TypeOK, Connects
  <2>4. net' \subseteq Datagrams /\ st' \in [Calls -> States]
    <3>1. net' \subseteq Datagrams
      <4>1. \/ net' = net
            \/ sock[c] # None /\ net' = net \cup {Request(k, sock[c], s, conn[c])}
        BY <1>2 DEF Call
      <4> QED BY <2>3, <4>1 DEF TypeOK
    <3>2. st' \in [Calls -> States]
      <4>1. \E x \in {"rejected", "wait"} : st' = [st EXCEPT ![k] = x]
        BY <1>2 DEF Call
      <4> QED BY <4>1 DEF TypeOK, States
    <3> QED BY <3>1, <3>2
  <2>5. seq' = [seq EXCEPT ![c] = s] /\ Register(k, s)
        /\ UNCHANGED <<serverVars, dups, restarts, socketVars, ran, got>>
    BY <1>2 DEF Call
  <2>8. made' \in [Clients -> Nat] /\ order' \in [Calls -> Nat]
    <3>1. /\ made' = [made EXCEPT ![c] = made[c] + 1]
          /\ order' = [order EXCEPT ![k] = made[c] + 1]
      BY <1>2 DEF Call
    <3>2. made \in [Clients -> Nat] /\ order \in [Calls -> Nat]
      BY DEF TypeOK
    <3> HIDE DEF c
    <3>3. made[c] + 1 \in Nat
      BY ONLY <2>1, <3>2
    <3> QED BY ONLY <2>1, <3>1, <3>2, <3>3
  <2> HIDE DEF s, c
  <2>6. seq' \in [Clients -> Seqs] /\ sentAs' \in [Calls -> Seqs] /\ timers' \subseteq Calls
    BY <2>1, <2>2, <2>5 DEF TypeOK, Register
  <2>7. pending' \in [Clients -> [Seqs -> Calls \cup {None}]]
    BY <2>1, <2>2, <2>5 DEF TypeOK, Register, c
  <2> QED
    <3>1. UNCHANGED <<conns, nextConn, jobs, given, dups, restarts, sock, open, conn, ran, got>>
      BY <2>5 DEF serverVars, socketVars
    <3> QED BY ONLY TypeOK, <2>4, <2>6, <2>7, <2>8, <3>1 DEF TypeOK
<1>3. ASSUME NEW k \in Calls, SendDestroy(k) PROVE TypeOK'
  <2>1. Request(k, k, 1 % SeqMod, conn[Owner[k]]) \in Datagrams
    BY RequestType DEF TypeOK
  <2>2. st' \in [Calls -> States]
    BY <1>3 DEF TypeOK, SendDestroy, States
  <2> QED
    BY <1>3, <2>1, <2>2 DEF TypeOK, SendDestroy, serverVars, socketVars, sendVars
<1>4. ASSUME NEW k \in Calls, TimerFires(k) PROVE TypeOK'
  <2>1. st' \in [Calls -> States]
    BY <1>4 DEF TypeOK, TimerFires, States
  <2> QED
    BY <1>4, <2>1 DEF TypeOK, TimerFires, serverVars, networkVars, socketVars, sendVars
<1>5. ASSUME NEW c \in Clients, ErrorHandler(c), net' \subseteq net, st' \in [Calls -> States]
      PROVE TypeOK'
  BY <1>5 DEF TypeOK, ErrorHandler, serverVars, socketVars, sendVars
<1>13. ASSUME NEW c \in Clients, SocketError(c) PROVE TypeOK'
  <2>1. Rejected(c) \in [Calls -> States]
    BY DEF Rejected, TypeOK, States
  <2> QED BY <1>5, <1>13, <2>1 DEF SocketError
<1>14. ASSUME NEW k \in Calls, BindFails(k) PROVE TypeOK'
  <2>1. Owner[k] \in Clients /\ Rejected(Owner[k]) \in [Calls -> States]
    BY DEF Rejected, TypeOK, States
  <2>2. st' \in [Calls -> States]
    BY <1>14, <2>1 DEF BindFails, States
  <2>3. ErrorHandler(Owner[k]) /\ net' \subseteq net
    BY <1>14 DEF BindFails
  <2> QED BY <1>5, <2>1, <2>2, <2>3
<1>15. ASSUME NEW k \in Calls, Bound(k) PROVE TypeOK'
  <2> DEFINE c == Owner[k]
  <2>1. c \in Clients
    OBVIOUS
  <2>2. sock[c] # None => Request(k, sock[c], 0, Unassigned) \in Datagrams
    BY <2>1, RequestType DEF TypeOK, Connects
  <2>3. net' \subseteq Datagrams
    <3>1. \/ net' = net
          \/ sock[c] # None /\ net' = net \cup {Request(k, sock[c], 0, Unassigned)}
      BY <1>15 DEF Bound
    <3> QED BY <2>2, <3>1 DEF TypeOK
  <2>4. st' \in [Calls -> States]
    <3>1. \E x \in {"rejected", "wait"} : st' = [st EXCEPT ![k] = x]
      BY <1>15 DEF Bound
    <3> QED BY <3>1 DEF TypeOK, States
  <2>5. order' \in [Calls -> Nat]
    <3>1. order' = [order EXCEPT ![k] = made[c]]
      BY <1>15 DEF Bound
    <3>2. made \in [Clients -> Nat] /\ order \in [Calls -> Nat]
      BY DEF TypeOK
    <3> HIDE DEF c
    <3> QED BY ONLY <2>1, <3>1, <3>2
  <2>6. Register(k, 0)
        /\ UNCHANGED <<serverVars, dups, restarts, socketVars, seq, made, ran, got>>
    BY <1>15 DEF Bound
  <2>7. sentAs' \in [Calls -> Seqs] /\ timers' \subseteq Calls
        /\ pending' \in [Clients -> [Seqs -> Calls \cup {None}]]
    BY <2>1, <2>6 DEF TypeOK, Register
  <2> QED
    <3>1. UNCHANGED <<conns, nextConn, jobs, given, dups, restarts, sock, open, conn, seq,
                      made, ran, got>>
      BY <2>6 DEF serverVars, socketVars
    <3> QED BY ONLY TypeOK, <2>3, <2>4, <2>5, <2>7, <3>1 DEF TypeOK
<1>6. ASSUME NEW c \in Clients, NEW m \in net, ClientReceive(c, m) PROVE TypeOK'
  <2>1. m \in Datagrams /\ m.call \in Calls /\ m.seq \in Seqs /\ m.conn \in Numbers
    BY DEF TypeOK, Datagrams
  <2> DEFINE k == Matching(c, m)
  <2>2. k \in Calls \cup {None}
    <3>1. pending \in [Clients -> [Seqs -> Calls \cup {None}]]
      BY DEF TypeOK
    <3> QED BY ONLY <2>1, <3>1 DEF Matching
  <2>3. net' \subseteq Datagrams
        /\ UNCHANGED <<serverVars, dups, restarts, sendVars, ran>>
    BY <1>6 DEF TypeOK, ClientReceive
  <2>4. CASE k = None
    BY <1>6, <2>3, <2>4
    DEF TypeOK, ClientReceive, serverVars, socketVars, callVars, sendVars
  <2>5. CASE k # None
    <3>1. timers' \subseteq Calls /\ pending' \in [Clients -> [Seqs -> Calls \cup {None}]]
      <4>1. /\ timers' = timers \ {k}
            /\ pending' = [pending EXCEPT ![c][m.seq] = None]
        BY <1>6, <2>5 DEF ClientReceive
      <4> HIDE DEF k
      <4> QED BY <2>1, <2>2, <4>1 DEF TypeOK
    <3>2. /\ st' \in [Calls -> States]
          /\ got' \in [Calls -> Calls \cup {None}]
          /\ conn' \in [Clients -> Numbers]
          /\ sock' \in [Clients -> Connects \cup {None}]
          /\ open' \in [Clients -> SUBSET Connects]
      <4>1. CASE st[k] # "wait"
        <5>1. UNCHANGED <<st, socketVars, got>>
          BY <1>6, <2>5, <4>1 DEF ClientReceive
        <5> QED BY <5>1 DEF TypeOK, socketVars
      <4>2. CASE st[k] = "wait"
        <5>1. Resume(c, k, m) /\ got' = [got EXCEPT ![k] = m.call]
          BY <1>6, <2>5, <4>2 DEF ClientReceive
        <5> HIDE DEF k
        <5>2. CASE Kind[k] = "connect"
          <6>1. /\ \/ st' = [st EXCEPT ![k] = "ok"] \/ st' = [st EXCEPT ![k] = "rejected"]
                /\ \/ conn' = conn \/ conn' = [conn EXCEPT ![c] = m.conn]
                /\ sock' = sock /\ open' = open
            <7>1. CASE m.cc = "ok"
              BY <5>1, <5>2, <7>1 DEF Resume
            <7>2. CASE m.cc # "ok"
              BY <5>1, <5>2, <7>2 DEF Resume, socketVars
            <7> QED BY <7>1, <7>2
          <6>2. conn' \in [Clients -> Numbers]
            BY <2>1, <6>1 DEF TypeOK
          <6>3. st' \in [Calls -> States] /\ got' \in [Calls -> Calls \cup {None}]
            BY <2>1, <2>2, <2>5, <5>1, <6>1 DEF TypeOK, States
          <6> QED BY <6>1, <6>2, <6>3 DEF TypeOK
        <5>3. CASE Kind[k] = "logout"
          <6>1. /\ sock' = [sock EXCEPT ![c] = None]
                /\ open' = [open EXCEPT ![c] = @ \ {sock[c]}]
                /\ \E x \in {"ok", "error", "rejected"} : st' = [st EXCEPT ![k] = x]
                /\ conn' = conn
            BY <5>1, <5>3 DEF Resume, Outcome
          <6>2. st' \in [Calls -> States] /\ got' \in [Calls -> Calls \cup {None}]
            <7>1. st \in [Calls -> States] /\ got \in [Calls -> Calls \cup {None}]
              BY DEF TypeOK
            <7> QED BY ONLY <2>1, <2>2, <2>5, <5>1, <6>1, <7>1 DEF States
          <6>3. sock' \in [Clients -> Connects \cup {None}] /\ conn' \in [Clients -> Numbers]
            BY <6>1 DEF TypeOK
          <6>4. open' \in [Clients -> SUBSET Connects]
            <7>1. open \in [Clients -> SUBSET Connects]
              BY DEF TypeOK
            <7> QED BY ONLY <6>1, <7>1
          <6> QED BY ONLY <6>2, <6>3, <6>4
        <5>4. CASE Kind[k] \notin {"connect", "logout"}
          <6>1. /\ \/ st' = [st EXCEPT ![k] = "ok"] \/ st' = [st EXCEPT ![k] = "error"]
                /\ sock' = sock /\ open' = open /\ conn' = conn
            BY <5>1, <5>4 DEF Resume, Outcome, socketVars
          <6>2. st' \in [Calls -> States] /\ got' \in [Calls -> Calls \cup {None}]
            BY <2>1, <2>2, <2>5, <5>1, <6>1 DEF TypeOK, States
          <6> QED BY <6>1, <6>2 DEF TypeOK
        <5> QED BY <5>2, <5>3, <5>4
      <4> QED BY <4>1, <4>2
    <3> QED BY <2>3, <3>1, <3>2 DEF TypeOK, serverVars, sendVars
  <2> QED BY <2>4, <2>5
<1>7. ASSUME NEW m \in net,
             \/ ServerConnect(m) \/ ServerUnknown(m) \/ ServerService(m)
             \/ ServerLogout(m) \/ ServerDefault(m)
      PROVE TypeOK'
  <2>1. m \in Datagrams /\ m.call \in Calls /\ m.sock \in Calls /\ m.copy \in Copies
    BY DEF TypeOK, Datagrams
  <2>2. \A cc \in {"ok", "error", "refused"} : Reply(m, cc) \in Datagrams
    BY <2>1, ReplyType
  <2>3. UNCHANGED <<dups, restarts, sock, open, conn, pending, timers, st, seq, sentAs,
                    made, order, got>>
    BY <1>7 DEF ServerStep, ServerConnect, ServerUnknown, ServerService,
         ServerLogout, ServerDefault, socketVars, callVars, sendVars
  <2>4. CASE ServerConnect(m)
    <3>1. [Reply(m, "ok") EXCEPT !.conn = NewNumber % ConnMod] \in Datagrams
      BY <2>1, ReplyType DEF TypeOK, NewNumber
    <3> QED
      <4>1. /\ nextConn' = nextConn + 1 /\ jobs' = jobs
            /\ DOMAIN conns' = DOMAIN conns \cup {nextConn}
            /\ \A i \in DOMAIN conns' :
                  conns'[i] = IF i = nextConn THEN m.sock ELSE conns[i]
        BY <2>4 DEF ServerConnect, NewNumber
      <4>2. net' \subseteq Datagrams /\ ran' \in [Calls -> SUBSET Copies]
        BY <2>1, <2>4, <3>1 DEF TypeOK, ServerConnect, Executed
      <4>3. /\ nextConn' \in Nat \ {0} /\ DOMAIN conns' \subseteq Nat /\ jobs' \subseteq Datagrams
            /\ \A i \in DOMAIN conns' : conns'[i] \in Calls
        <5>1. /\ nextConn \in Nat \ {0} /\ DOMAIN conns \subseteq Nat /\ jobs \subseteq Datagrams
              /\ \A i \in DOMAIN conns : conns[i] \in Calls
          BY DEF TypeOK
        <5> QED BY ONLY <2>1, <4>1, <5>1
      <4>4. given' \in Seq(Numbers)
        <5>1. NewNumber % ConnMod \in Numbers /\ given \in Seq(Numbers)
          BY DEF NewNumber, TypeOK
        <5>2. given' = Append(given, NewNumber % ConnMod)
          BY <2>4 DEF ServerConnect
        <5> QED BY ONLY <5>1, <5>2
      <4> QED BY <2>3, <4>2, <4>3, <4>4 DEF TypeOK
  <2>5. CASE ServerUnknown(m)
    BY <2>2, <2>3, <2>5 DEF TypeOK, ServerUnknown, Answer, serverVars
  <2>6. CASE ServerService(m)
    BY <2>1, <2>2, <2>3, <2>6 DEF TypeOK, ServerService, Answer, Executed, serverVars
  <2>7. CASE ServerLogout(m)
    <3>1. net' \subseteq Datagrams /\ ran' \in [Calls -> SUBSET Copies]
      BY <2>1, <2>2, <2>7 DEF TypeOK, ServerLogout, Answer, Executed
    <3>2. DOMAIN conns' \subseteq Nat /\ \A i \in DOMAIN conns' : conns'[i] \in Calls
      BY <2>7 DEF TypeOK, ServerLogout
    <3>3. UNCHANGED <<nextConn, jobs, given>>
      BY <2>7 DEF ServerLogout
    <3> QED BY ONLY TypeOK, <2>3, <3>1, <3>2, <3>3 DEF TypeOK
  <2>8. CASE ServerDefault(m)
    BY <2>1, <2>2, <2>3, <2>8 DEF TypeOK, ServerDefault, Answer
  <2> QED BY <1>7, <2>4, <2>5, <2>6, <2>7, <2>8
<1>8. ASSUME NEW m \in net, Lose(m) PROVE TypeOK'
  BY <1>8 DEF TypeOK, Lose, serverVars, socketVars, callVars, sendVars
<1>9. ASSUME NEW m \in net, Duplicate(m) PROVE TypeOK'
  <2>1. dups' \in Copies /\ [m EXCEPT !.copy = dups + 1] \in Datagrams
    <3>1. dups + 1 \in Copies
      <4>1. dups \in 0 .. MaxDup /\ dups < MaxDup /\ MaxDup \in Nat
        BY <1>9 DEF TypeOK, Duplicate, Copies, ParametersAssumption
      <4> QED BY <4>1 DEF Copies
    <3>2. m \in Datagrams
      BY DEF TypeOK
    <3> QED BY <1>9, <3>1, <3>2, ReplyType DEF Duplicate
  <2> QED
    BY <1>9, <2>1 DEF TypeOK, Duplicate, serverVars, socketVars, callVars, sendVars
<1>10. ASSUME NEW m \in jobs, FileDone(m) PROVE TypeOK'
  <2>1. m \in Datagrams /\ m.call \in Calls /\ m.copy \in Copies
    BY DEF TypeOK, Datagrams
  <2>2. \A cc \in {"ok", "error"} : Reply(m, cc) \in Datagrams
    BY <2>1, ReplyType
  <2>3. net' \subseteq Datagrams /\ ran' \in [Calls -> SUBSET Copies]
    <3>1. CASE Kind[m.call] = "file"
      <4>1. PICK cc \in {"ok", "error"} : net' = net \cup {Reply(m, cc)}
        BY <1>10, <3>1 DEF FileDone
      <4>2. Executed(m)
        BY <1>10, <3>1 DEF FileDone
      <4> QED BY <2>1, <2>2, <4>1, <4>2 DEF TypeOK, Executed
    <3>2. CASE Kind[m.call] # "file"
      <4>1. net' = net \cup {Reply(m, "error")} /\ ran' = ran
        BY <1>10, <3>2 DEF FileDone
      <4> QED BY <2>2, <4>1 DEF TypeOK
    <3> QED BY <3>1, <3>2
  <2>4. jobs' \subseteq jobs
        /\ UNCHANGED <<conns, nextConn, given, dups, restarts, socketVars, callVars, sendVars,
                       got>>
    BY <1>10 DEF FileDone
  <2> QED
    BY <2>3, <2>4 DEF TypeOK, socketVars, callVars, sendVars
<1>11. ASSUME Restart PROVE TypeOK'
  <2>1. restarts' \in 0 .. MaxRestart
    <3>1. restarts \in 0 .. MaxRestart /\ restarts < MaxRestart
          /\ MaxRestart \in Nat /\ restarts' = restarts + 1
      BY <1>11 DEF TypeOK, Restart, ParametersAssumption
    <3> QED BY <3>1
  <2>2. DOMAIN conns' = {} /\ nextConn' = 1 /\ jobs' = {} /\ given' = <<>>
        /\ UNCHANGED <<networkVars, socketVars, callVars, sendVars, ran, got>>
    BY <1>11 DEF Restart
  <2>3. /\ DOMAIN conns' \subseteq Nat /\ \A i \in DOMAIN conns' : conns'[i] \in Calls
        /\ nextConn' \in Nat \ {0} /\ jobs' \subseteq Datagrams /\ given' \in Seq(Numbers)
    BY <2>2
  <2>4. UNCHANGED <<net, dups, sock, open, conn, pending, timers, st, seq, sentAs,
                    made, order, ran, got>>
    BY <2>2 DEF networkVars, socketVars, callVars, sendVars
  <2> HIDE <2>2
  <2> QED
    BY <2>1, <2>3, <2>4 DEF TypeOK
<1>12. CASE UNCHANGED vars
  BY <1>12 DEF TypeOK, vars, serverVars, networkVars, socketVars, callVars, sendVars
<1> QED
  BY <1>1, <1>2, <1>3, <1>4, <1>6, <1>7, <1>8, <1>9, <1>10, <1>11, <1>12, <1>13, <1>14, <1>15
  DEF Next

\* Both ends and the network between them keep their types.
THEOREM TypeCorrect == Spec => []TypeOK
  BY InitType, NextType, PTL DEF Spec
-----------------------------------------------------------------------------
(***************************************************************************)
(* A waiting caller has its timer.                                         *)
(***************************************************************************)

LEMMA TimerStep == TypeOK /\ WaitingHasTimer /\ [Next]_vars => WaitingHasTimer'
<1> SUFFICES ASSUME TypeOK, WaitingHasTimer, [Next]_vars,
                    NEW j \in Calls, st'[j] = "wait"
             PROVE  j \in timers'
  BY DEF WaitingHasTimer, Waiting
<1> USE DEF TypeOK, WaitingHasTimer, Waiting
<1>1. ASSUME NEW k \in Calls, Bound(k) \/ Call(k) PROVE j \in timers'
  <2>1. timers' = timers \cup {k} /\ (j # k => st'[j] = st[j])
    BY <1>1 DEF Bound, Call, Register
  <2> QED BY <2>1
<1>2. ASSUME NEW k \in Calls, Connect(k) \/ SendDestroy(k) PROVE j \in timers'
  BY <1>2 DEF Connect, SendDestroy
<1>3. ASSUME NEW k \in Calls, TimerFires(k) PROVE j \in timers'
  BY <1>3 DEF TimerFires
<1>4. ASSUME NEW c, ErrorHandler(c), st' = Rejected(c) \/ st'[j] = Rejected(c)[j]
      PROVE j \in timers'
  <2>1. st[j] = "wait" /\ j \notin Entered(c)
    BY <1>4 DEF Rejected
  <2> QED BY <1>4, <2>1 DEF ErrorHandler
<1>7. ASSUME NEW k \in Calls, BindFails(k) PROVE j \in timers'
  <2>1. st'[j] = Rejected(Owner[k])[j] /\ ErrorHandler(Owner[k])
    BY <1>7 DEF BindFails, Rejected
  <2> QED BY <1>4, <2>1
<1>5. ASSUME NEW c \in Clients, NEW m \in net, ClientReceive(c, m)
      PROVE  j \in timers'
  <2> DEFINE k == Matching(c, m)
  <2>1. CASE k = None
    BY <1>5, <2>1 DEF ClientReceive, callVars
  <2>2. CASE k # None
    <3>1. k \in Calls /\ timers' = timers \ {k}
      BY <1>5, <2>2 DEF ClientReceive, Matching, Datagrams
    <3>2. st'[j] = st[j] /\ j # k
      <4>1. CASE st[k] # "wait"
        BY <1>5, <2>2, <4>1 DEF ClientReceive
      <4>2. CASE st[k] = "wait"
        <5>1. Resume(c, k, m)
          BY <1>5, <2>2, <4>2 DEF ClientReceive
        <5>2. \E x \in {"ok", "error", "rejected"} : st' = [st EXCEPT ![k] = x]
          <6> HIDE DEF k
          <6> QED BY <5>1 DEF Resume, Outcome
        <5> QED BY <3>1, <5>2
      <4> QED BY <4>1, <4>2
    <3> QED BY <3>1, <3>2
  <2> QED BY <2>1, <2>2
<1>6. ASSUME UNCHANGED callVars PROVE j \in timers'
  BY <1>6 DEF callVars
<1> QED
  BY <1>1, <1>2, <1>3, <1>4, <1>5, <1>6, <1>7
  DEF Next, vars, SocketError, ServerStep, ServerConnect, ServerUnknown, ServerService,
      ServerLogout, ServerDefault, FileDone, Restart, Lose, Duplicate

\* No promise of _sendRaw is left without an armed timer, whatever sequence
\* numbers are reused and whatever the network does.
THEOREM TimerSafety == Spec => []WaitingHasTimer
<1>1. Init => WaitingHasTimer
  BY DEF Init, WaitingHasTimer, Waiting
<1> QED
  BY <1>1, TimerStep, TypeCorrect, PTL DEF Spec
-----------------------------------------------------------------------------
(***************************************************************************)
(* No request reaches another client's connection.  SessionIsolation says  *)
(* this of requests in flight; it is not inductive, for a request takes    *)
(* its number from the client and the client takes it from the answer to a *)
(* connect.  The invariant says the same of all three, and that a datagram *)
(* travels on a socket of the client whose call it carries.                *)
(***************************************************************************)

\* Number n was given out, and while it is open it is client c's.
Belongs(n, c) ==
    /\ n < nextConn
    /\ n \in DOMAIN conns => Owner[conns[n]] = c

SocketsOwned ==
    \A c \in Clients : /\ \A x \in open[c] : Owner[x] = c
                       /\ sock[c] # None => Owner[sock[c]] = c

SocketInv ==
    /\ SocketsOwned
    /\ \A m \in net \cup jobs : Owner[m.sock] = Owner[m.call]

NumberInv ==
    NumbersUnique =>
      /\ \A i \in DOMAIN conns : i < nextConn
      /\ \A c \in Clients : conn[c] # Unassigned => Belongs(conn[c], c)
      /\ \A m \in net \cup jobs :
            m.conn # Unassigned => Belongs(m.conn, Owner[m.call])

SessionInv == TypeOK /\ SocketInv /\ NumberInv

\* Where a datagram or an unfinished request of the next state comes from.
Inherits(x) ==
    \E m \in net \cup jobs : x.call = m.call /\ x.sock = m.sock /\ x.conn = m.conn

Sent(x) ==
    /\ Owner[x.sock] = Owner[x.call]
    /\ x.conn \in {Unassigned, conn[Owner[x.call]]}

Opened(x) ==
    \E m \in net : /\ ServerConnect(m)
                  /\ x.call = m.call /\ x.sock = m.sock
                  /\ x.conn = nextConn % ConnMod

LEMMA ReplyFields ==
  ASSUME NEW m \in Datagrams, NEW cc \in {"ok", "error", "refused"}
  PROVE  /\ Reply(m, cc).call = m.call /\ Reply(m, cc).sock = m.sock
         /\ Reply(m, cc).conn = m.conn
         /\ \A n \in Numbers :
               LET x == [Reply(m, cc) EXCEPT !.conn = n]
               IN  x.call = m.call /\ x.sock = m.sock /\ x.conn = n
         /\ \A t \in Copies :
               LET x == [m EXCEPT !.copy = t]
               IN  x.call = m.call /\ x.sock = m.sock /\ x.conn = m.conn
  BY DEF Reply, Datagrams

LEMMA Origin ==
  ASSUME TypeOK, SocketInv, [Next]_vars, NEW x \in net' \cup jobs'
  PROVE  Inherits(x) \/ Sent(x) \/ Opened(x)
<1>0. net \subseteq Datagrams /\ jobs \subseteq Datagrams
  BY DEF TypeOK
<1>1. ASSUME NEW k \in Calls, Bound(k) PROVE Inherits(x) \/ Sent(x)
  <2> DEFINE y == Request(k, sock[Owner[k]], 0, Unassigned)
  <2>1. jobs' = jobs /\ (net' = net \/ (sock[Owner[k]] # None /\ net' = net \cup {y}))
    BY <1>1 DEF Bound, serverVars
  <2>2. sock[Owner[k]] # None => Sent(y)
    BY ParametersAssumption DEF SocketInv, SocketsOwned, Sent, Request
  <2> QED BY <2>1, <2>2 DEF Inherits
<1>2. ASSUME NEW k \in Calls, Call(k) PROVE Inherits(x) \/ Sent(x)
  <2> DEFINE y == Request(k, sock[Owner[k]], NextSeq(Owner[k]),
                          conn[Owner[k]])
  <2>1. jobs' = jobs /\ (net' = net \/ (sock[Owner[k]] # None /\ net' = net \cup {y}))
    BY <1>2 DEF Call, serverVars
  <2>2. sock[Owner[k]] # None => Sent(y)
    BY ParametersAssumption DEF SocketInv, SocketsOwned, Sent, Request
  <2> QED BY <2>1, <2>2 DEF Inherits
<1>3. ASSUME NEW k \in Calls, SendDestroy(k) PROVE Inherits(x) \/ Sent(x)
  <2>1. /\ net' = net \cup {Request(k, k, 1 % SeqMod, conn[Owner[k]])}
        /\ jobs' = jobs
    BY <1>3 DEF SendDestroy, serverVars
  <2> QED BY <2>1 DEF Inherits, Sent, Request
<1>4. ASSUME NEW m \in net, ServerConnect(m) PROVE Inherits(x) \/ Opened(x)
  <2> DEFINE y == [Reply(m, "ok") EXCEPT !.conn = nextConn % ConnMod]
  <2>1. net' = (net \ {m}) \cup {y} /\ jobs' = jobs
    BY <1>4 DEF ServerConnect, NewNumber
  <2>2. Opened(y)
    <3>1. nextConn % ConnMod \in Numbers /\ m \in Datagrams
      BY <1>0, ModType DEF TypeOK
    <3>2. y.call = m.call /\ y.sock = m.sock /\ y.conn = nextConn % ConnMod
      BY <3>1, ReplyFields
    <3> QED BY <1>4, <3>2 DEF Opened
  <2> QED BY <2>1, <2>2 DEF Inherits
<1>5. ASSUME NEW m \in net \cup jobs, NEW cc \in {"ok", "error", "refused"},
             net' \subseteq net \cup {Reply(m, cc)}, jobs' \subseteq jobs
      PROVE  Inherits(x)
  BY <1>0, <1>5, ReplyFields DEF Inherits
<1>6. ASSUME NEW m \in net, ServerUnknown(m) PROVE Inherits(x)
  <2>1. net' = (net \ {m}) \cup {Reply(m, "refused")} /\ jobs' = jobs
    BY <1>6 DEF ServerUnknown, Answer, serverVars
  <2> QED BY <1>5, <2>1
<1>7. ASSUME NEW m \in net, ServerService(m) PROVE Inherits(x)
  <2>1. PICK cc \in {"ok", "error"} : net' = (net \ {m}) \cup {Reply(m, cc)}
    BY <1>7 DEF ServerService, Answer
  <2>2. jobs' = jobs
    BY <1>7 DEF ServerService, serverVars
  <2> QED BY <1>5, <2>1, <2>2
<1>8. ASSUME NEW m \in net, ServerLogout(m) PROVE Inherits(x)
  <2>1. net' = (net \ {m}) \cup {Reply(m, "ok")} /\ jobs' = jobs
    BY <1>8 DEF ServerLogout, Answer
  <2> QED BY <1>5, <2>1
<1>9. ASSUME NEW m \in net, ServerDefault(m) PROVE Inherits(x)
  <2>1. CASE FileService
    <3>1. jobs' = jobs \cup {m} /\ net' = net \ {m}
      BY <1>9, <2>1 DEF ServerDefault
    <3> QED BY <3>1 DEF Inherits
  <2>2. CASE ~ FileService
    <3>1. net' = (net \ {m}) \cup {Reply(m, "error")} /\ jobs' = jobs
      BY <1>9, <2>2 DEF ServerDefault, Answer
    <3> QED BY <1>5, <3>1
  <2> QED BY <2>1, <2>2
<1>10. ASSUME NEW m \in jobs, FileDone(m) PROVE Inherits(x)
  <2>1. /\ \E cc \in {"ok", "error"} : net' = net \cup {Reply(m, cc)}
        /\ jobs' = jobs \ {m}
    BY <1>10 DEF FileDone
  <2> QED BY <1>5, <2>1
<1>11. ASSUME NEW m \in net, Duplicate(m) PROVE Inherits(x)
  <2>1. net' = net \cup {[m EXCEPT !.copy = dups + 1]} /\ jobs' = jobs
    BY <1>11 DEF Duplicate, serverVars
  <2> QED BY <1>0, <2>1 DEF Inherits, Datagrams
<1>12. ASSUME net' \subseteq net, jobs' \subseteq jobs PROVE Inherits(x)
  BY <1>12 DEF Inherits
<1>13. ASSUME NEW c \in Clients, NEW m \in net, ClientReceive(c, m) PROVE Inherits(x)
  <2>1. net' \subseteq net /\ jobs' = jobs
    BY <1>13 DEF ClientReceive, serverVars
  <2> QED BY <1>12, <2>1
<1>14. ASSUME \/ \E k \in Calls : Connect(k) \/ BindFails(k) \/ TimerFires(k)
              \/ \E c \in Clients : SocketError(c)
              \/ \E m \in net : Lose(m)
              \/ Restart
              \/ UNCHANGED vars
       PROVE  Inherits(x)
  <2>1. net' \subseteq net /\ jobs' \subseteq jobs
    BY <1>14
    DEF Connect, BindFails, TimerFires, SocketError, ErrorHandler, Lose, Restart, vars,
        serverVars, networkVars
  <2> QED BY <1>12, <2>1
<1> QED
  BY <1>1, <1>2, <1>3, <1>4, <1>6, <1>7, <1>8, <1>9, <1>10, <1>11, <1>13, <1>14
  DEF Next

LEMMA SocketStep == TypeOK /\ SocketInv /\ [Next]_vars => SocketInv'
<1> SUFFICES ASSUME TypeOK, SocketInv, [Next]_vars PROVE SocketInv'
  OBVIOUS
<1>1. \A x \in net' \cup jobs' : Owner[x.sock] = Owner[x.call]
  <2> SUFFICES ASSUME NEW x \in net' \cup jobs' PROVE Owner[x.sock] = Owner[x.call]
    OBVIOUS
  <2>1. Inherits(x) \/ Sent(x) \/ Opened(x)
    BY Origin
  <2> QED BY <2>1 DEF SocketInv, Inherits, Sent, Opened
<1>2. SocketsOwned'
  <2>1. ASSUME NEW k \in Calls, Connect(k) PROVE SocketsOwned'
    <3>1. /\ sock' = [sock EXCEPT ![Owner[k]] = k]
          /\ open' = [open EXCEPT ![Owner[k]] = @ \cup {k}]
      BY <2>1 DEF Connect
    <3> QED BY <3>1, ParametersAssumption DEF SocketInv, SocketsOwned, TypeOK
  <2>2. ASSUME NEW c \in Clients, NEW m \in net, ClientReceive(c, m)
        PROVE  SocketsOwned'
    <3>1. \/ UNCHANGED socketVars
          \/ Resume(c, Matching(c, m), m)
      BY <2>2 DEF ClientReceive
    <3>2. \/ UNCHANGED <<sock, open>>
          \/ /\ sock' = [sock EXCEPT ![c] = None]
             /\ open' = [open EXCEPT ![c] = @ \ {sock[c]}]
      BY <3>1 DEF Resume, Outcome, socketVars
    <3> QED BY <3>2 DEF SocketInv, SocketsOwned, TypeOK
  <2>3. ASSUME UNCHANGED <<sock, open>> PROVE SocketsOwned'
    BY <2>3 DEF SocketInv, SocketsOwned
  <2> QED
    BY <2>1, <2>2, <2>3
    DEF Next, vars, socketVars, Bound, BindFails, Call, SendDestroy, TimerFires, SocketError,
        ErrorHandler, ServerStep, ServerConnect, ServerUnknown, ServerService, ServerLogout,
        ServerDefault, FileDone, Restart, Lose, Duplicate
<1> QED BY <1>1, <1>2 DEF SocketInv

\* The connection table only changes at the next number, at a Logout or at a
\* restart.
LEMMA TableStep ==
  ASSUME TypeOK, [Next]_vars, restarts' = restarts
  PROVE  \/ /\ nextConn' = nextConn
            /\ \A i \in DOMAIN conns' : i \in DOMAIN conns /\ conns'[i] = conns[i]
         \/ \E m \in net :
              /\ ServerConnect(m)
              /\ nextConn' = nextConn + 1
              /\ DOMAIN conns' = DOMAIN conns \cup {nextConn}
              /\ conns'[nextConn] = m.sock
              /\ \A i \in DOMAIN conns \ {nextConn} : conns'[i] = conns[i]
<1> DEFINE Kept == /\ nextConn' = nextConn
                   /\ \A i \in DOMAIN conns' : i \in DOMAIN conns /\ conns'[i] = conns[i]
<1>1. ASSUME UNCHANGED <<conns, nextConn>> PROVE Kept
  BY <1>1
<1>2. ASSUME NEW m \in net, ServerLogout(m) PROVE Kept
  BY <1>2 DEF ServerLogout
<1>3. ASSUME NEW m \in net, ServerConnect(m)
      PROVE  /\ nextConn' = nextConn + 1
             /\ DOMAIN conns' = DOMAIN conns \cup {nextConn}
             /\ conns'[nextConn] = m.sock
             /\ \A i \in DOMAIN conns \ {nextConn} : conns'[i] = conns[i]
  BY <1>3 DEF ServerConnect, NewNumber
<1>4. ASSUME Restart PROVE FALSE
  BY <1>4 DEF Restart, TypeOK
<1> QED
  BY <1>1, <1>2, <1>3, <1>4
  DEF Next, vars, serverVars, Connect, Bound, BindFails, Call, SendDestroy, TimerFires,
      SocketError, ErrorHandler, ClientReceive, ServerUnknown, ServerService,
      ServerDefault, FileDone, Lose, Duplicate

LEMMA RestartStep == TypeOK /\ [Next]_vars /\ NumbersUnique'
                       => NumbersUnique /\ restarts' = restarts
<1> SUFFICES ASSUME TypeOK, [Next]_vars, NumbersUnique'
             PROVE  NumbersUnique /\ restarts' = restarts
  OBVIOUS
<1>1. restarts' = restarts
  <2>1. ~ Restart
    BY DEF Restart, NumbersUnique, TypeOK
  <2> QED
    BY <2>1
    DEF Next, vars, serverVars, Connect, Bound, BindFails, Call, SendDestroy, TimerFires,
        SocketError, ErrorHandler, ClientReceive, ServerStep, ServerConnect, ServerUnknown,
        ServerService, ServerLogout, ServerDefault, FileDone, Lose, Duplicate
<1>2. nextConn <= nextConn' /\ nextConn \in Nat
  BY <1>1, TableStep DEF TypeOK
<1>3. nextConn' \in Nat /\ Unassigned \in Int
  BY NextType, ParametersAssumption DEF TypeOK, Unassigned
<1> QED BY <1>1, <1>2, <1>3 DEF NumbersUnique

LEMMA NumberStep == SessionInv /\ [Next]_vars => NumberInv'
<1> SUFFICES ASSUME SessionInv, [Next]_vars, NumbersUnique'
             PROVE  /\ \A i \in DOMAIN conns' : i < nextConn'
                    /\ \A c \in Clients : (conn[c] # Unassigned => Belongs(conn[c], c))'
                    /\ \A x \in net' \cup jobs' :
                          x.conn # Unassigned => Belongs(x.conn, Owner[x.call])'
  BY DEF NumberInv
<1>1. TypeOK /\ SocketInv /\ NumbersUnique /\ restarts' = restarts /\ NumberInv
  BY RestartStep DEF SessionInv
<1>2. nextConn \in Nat /\ nextConn' \in Nat /\ nextConn <= nextConn'
  BY <1>1, TableStep, NextType DEF TypeOK
<1>3. \A i \in DOMAIN conns' : i < nextConn'
  <2>1. \A i \in DOMAIN conns : i < nextConn /\ i \in Nat
    BY <1>1 DEF NumberInv, TypeOK
  <2>2. \/ nextConn' = nextConn /\ DOMAIN conns' \subseteq DOMAIN conns
        \/ nextConn' = nextConn + 1 /\ DOMAIN conns' = DOMAIN conns \cup {nextConn}
    BY <1>1, TableStep
  <2> QED BY ONLY <1>2, <2>1, <2>2
<1>4. \A n, c : n \in Numbers /\ Belongs(n, c) => Belongs(n, c)'
  <2> SUFFICES ASSUME NEW n \in Numbers, NEW c, Belongs(n, c) PROVE Belongs(n, c)'
    OBVIOUS
  <2>1. n \in Int
    BY ParametersAssumption DEF Numbers
  <2>2. n # nextConn /\ n < nextConn'
    BY <1>2, <2>1 DEF Belongs
  <2>3. n \in DOMAIN conns' => n \in DOMAIN conns /\ conns'[n] = conns[n]
    BY <1>1, <2>2, TableStep
  <2> QED BY <2>2, <2>3 DEF Belongs
<1>5. ASSUME NEW m \in net, ServerConnect(m), NEW n, n = nextConn % ConnMod
      PROVE  Belongs(n, Owner[m.call])'
  <2>1. nextConn % ConnMod = nextConn
    <3>1. nextConn' = nextConn + 1
      BY <1>5 DEF ServerConnect
    <3>2. nextConn + 1 <= ConnMod - 1
      BY <3>1 DEF NumbersUnique, Unassigned
    <3> QED BY <1>2, <3>2, ParametersAssumption
  <2>2. /\ nextConn' = nextConn + 1 /\ nextConn \in DOMAIN conns'
        /\ conns'[nextConn] = m.sock
    BY <1>5 DEF ServerConnect, NewNumber
  <2>3. Owner[m.sock] = Owner[m.call]
    BY <1>1 DEF SocketInv
  <2> QED BY <1>2, <1>5, <2>1, <2>2, <2>3 DEF Belongs
<1>6. ASSUME NEW c \in Clients, (conn[c] # Unassigned)' PROVE Belongs(conn[c], c)'
  <2>1. conn'[c] = conn[c] \/ \E m \in net : m.sock \in open[c] /\ conn'[c] = m.conn
    <3>1. ASSUME NEW d \in Clients, NEW m \in net, ClientReceive(d, m) PROVE <2>1
      <4>1. \/ UNCHANGED conn
            \/ conn' = [conn EXCEPT ![d] = m.conn]
        <5>1. UNCHANGED socketVars \/ Resume(d, Matching(d, m), m)
          BY <3>1 DEF ClientReceive
        <5> QED BY <5>1 DEF Resume, Outcome, socketVars
      <4>2. m.sock \in open[d]
        BY <3>1 DEF ClientReceive
      <4> QED BY <1>1, <4>1, <4>2 DEF TypeOK
    <3>2. ASSUME UNCHANGED conn PROVE <2>1
      BY <3>2
    <3> QED
      BY <3>1, <3>2
      DEF Next, vars, socketVars, Connect, Bound, BindFails, Call, SendDestroy, TimerFires,
          SocketError, ErrorHandler, ServerStep, ServerConnect, ServerUnknown, ServerService,
          ServerLogout, ServerDefault, FileDone, Restart, Lose, Duplicate
  <2>2. CASE conn'[c] = conn[c]
    BY <1>1, <1>4, <1>6, <2>2 DEF TypeOK, NumberInv, Belongs
  <2>3. CASE \E m \in net : m.sock \in open[c] /\ conn'[c] = m.conn
    <3>1. PICK m \in net : m.sock \in open[c] /\ conn'[c] = m.conn
      BY <2>3
    <3>2. Owner[m.call] = c
      BY <1>1, <3>1 DEF SocketInv, SocketsOwned
    <3>3. Belongs(m.conn, c) /\ m.conn \in Numbers
      BY <1>1, <1>6, <3>1, <3>2 DEF NumberInv, TypeOK, Datagrams
    <3> QED BY <1>4, <3>1, <3>3 DEF Belongs
  <2> QED BY <2>1, <2>2, <2>3
<1>7. ASSUME NEW x \in net' \cup jobs', x.conn # Unassigned
      PROVE  Belongs(x.conn, Owner[x.call])'
  <2>1. CASE Inherits(x)
    <3>1. PICK m \in net \cup jobs : x.call = m.call /\ x.conn = m.conn
      BY <2>1 DEF Inherits
    <3>2. Belongs(m.conn, Owner[m.call]) /\ m.conn \in Numbers
      BY <1>1, <1>7, <3>1 DEF NumberInv, TypeOK, Datagrams
    <3> QED BY <1>4, <3>1, <3>2
  <2>2. CASE Sent(x)
    <3>1. x.conn = conn[Owner[x.call]]
      BY <1>7, <2>2 DEF Sent
    <3>2. x.call \in Calls
      BY NextType, <1>1 DEF TypeOK, Datagrams
    <3>3. Owner[x.call] \in Clients
      BY <3>2, ParametersAssumption
    <3>4. Belongs(x.conn, Owner[x.call]) /\ x.conn \in Numbers
      BY <1>1, <1>7, <3>1, <3>3 DEF NumberInv, TypeOK
    <3> QED BY <1>4, <3>4
  <2>3. CASE Opened(x)
    BY <1>5, <2>3 DEF Opened
  <2> QED BY <1>1, <2>1, <2>2, <2>3, Origin
<1> QED BY <1>3, <1>6, <1>7

LEMMA SessionInvariant == Spec => []SessionInv
<1>1. Init => SessionInv
  BY InitType DEF Init, SessionInv, SocketInv, SocketsOwned, NumberInv
<1>2. SessionInv /\ [Next]_vars => SessionInv'
  BY NextType, SocketStep, NumberStep DEF SessionInv
<1> QED BY <1>1, <1>2, PTL DEF Spec

\* No request reaches another client's connection while numbers are unique.
THEOREM Isolation == Spec => []SessionIsolation
<1>1. SessionInv => SessionIsolation
  <2> SUFFICES ASSUME SessionInv, NumbersUnique, NEW m \in net \cup jobs,
                      m.conn \in DOMAIN conns
               PROVE  Owner[conns[m.conn]] = Owner[m.call]
    BY DEF SessionIsolation
  <2>1. m.conn < nextConn /\ m.conn \in Nat /\ nextConn \in Nat
    BY DEF SessionInv, NumberInv, TypeOK
  <2>2. m.conn # Unassigned
    BY <2>1, ParametersAssumption DEF NumbersUnique, Unassigned
  <2> QED BY <2>2 DEF SessionInv, NumberInv, Belongs
<1> QED BY <1>1, SessionInvariant, PTL

\* The counter counts the connects that this process answered, and the answers
\* carry its low two bytes.
GivenInv ==
    /\ Len(given) = nextConn - 1
    /\ \A i \in DOMAIN given : given[i] = i % ConnMod

LEMMA GivenStep == TypeOK /\ GivenInv /\ [Next]_vars => GivenInv'
<1> SUFFICES ASSUME TypeOK, GivenInv, [Next]_vars PROVE GivenInv'
  OBVIOUS
<1>1. ASSUME NEW m \in net, ServerConnect(m) PROVE GivenInv'
  <2>1. given' = Append(given, nextConn % ConnMod) /\ nextConn' = nextConn + 1
    BY <1>1 DEF ServerConnect, NewNumber
  <2>2. given \in Seq(Numbers) /\ nextConn \in Nat /\ nextConn % ConnMod \in Numbers
    BY ModType DEF TypeOK
  <2>3. Len(given) = nextConn - 1 /\ \A i \in DOMAIN given : given[i] = i % ConnMod
    BY DEF GivenInv
  <2>4. PICK n \in Numbers : n = nextConn % ConnMod
    BY <2>2
  <2>5. /\ Len(given') = Len(given) + 1
        /\ \A i \in 1 .. Len(given) : given'[i] = given[i]
        /\ given'[nextConn] = n /\ DOMAIN given = 1 .. Len(given)
        /\ DOMAIN given' = 1 .. Len(given) + 1
    BY ONLY <2>1, <2>2, <2>3, <2>4
  <2>6. \A i \in DOMAIN given' : given'[i] = i % ConnMod
    BY ONLY <2>2, <2>3, <2>4, <2>5
  <2> QED BY ONLY <2>1, <2>2, <2>3, <2>5, <2>6 DEF GivenInv
<1>2. CASE Restart
  BY <1>2 DEF Restart, GivenInv
<1>3. ASSUME UNCHANGED <<nextConn, given>> PROVE GivenInv'
  BY <1>3 DEF GivenInv
<1> QED
  BY <1>1, <1>2, <1>3
  DEF Next, vars, serverVars, Connect, Bound, BindFails, Call, SendDestroy, TimerFires,
      SocketError, ErrorHandler, ClientReceive, ServerUnknown, ServerService, ServerLogout,
      ServerDefault, FileDone, Lose, Duplicate

\* While the server runs it does not answer two connects with one number, until
\* it has used them all.
THEOREM NumbersFresh == Spec => []NumbersNotReused
<1>1. Init => GivenInv
  BY DEF Init, GivenInv
<1>2. TypeOK /\ GivenInv => NumbersNotReused
  <2> SUFFICES ASSUME TypeOK, GivenInv, Len(given) <= ConnMod PROVE NumbersNotReused
    BY DEF NumbersNotReused
  <2>1. DOMAIN given = 1 .. Len(given) /\ Len(given) \in Nat
    BY DEF TypeOK
  <2>2. ASSUME NEW i \in DOMAIN given, NEW j \in DOMAIN given, given[i] = given[j], i < j
        PROVE  FALSE
    <3>1. i \in Nat /\ j \in Nat /\ i >= 1 /\ j <= ConnMod /\ ConnMod \in Nat \ {0}
      BY <2>1, ParametersAssumption
    <3>2. i % ConnMod = j % ConnMod
      BY <2>2 DEF GivenInv
    <3>3. j - i >= ConnMod
      BY ONLY <2>2, <3>1, <3>2, SameRest
    <3> QED BY ONLY <3>1, <3>3
  <2>3. \A i, j \in DOMAIN given : i < j \/ j < i \/ i = j
    BY ONLY <2>1
  <2> QED BY ONLY <2>2, <2>3 DEF NumbersNotReused
<1> QED BY <1>1, <1>2, GivenStep, TypeCorrect, PTL DEF Spec
-----------------------------------------------------------------------------
(***************************************************************************)
(* What a step does to the datagrams and to the copies that were executed. *)
(***************************************************************************)

Unsent == {"idle", "binding", "hung"}

\* A call that was not sent has left no trace; only a connect binds a socket.
IdleInv ==
    \A k \in Calls :
        /\ st[k] \in Unsent =>
              k \notin timers /\ ran[k] = {} /\ \A m \in net \cup jobs : m.call # k
        /\ st[k] = "binding" => Kind[k] = "connect"

\* Copies are told apart by their number, one that waits to be executed was
\* not executed yet, and an answer "ok" comes from an execution.
CopyInv ==
    /\ net \cap jobs = {}
    /\ \A m \in net \cup jobs : m.copy <= dups
    /\ \A k \in Calls : ran[k] \subseteq 0 .. dups
    /\ \A m \in net \cup jobs : m.dir = "req" => m.copy \notin ran[m.call]
    /\ \A m, n \in net \cup jobs :
          m.dir = "req" /\ n.dir = "req" /\ m.call = n.call /\ m.copy = n.copy => m = n
    /\ \A m \in jobs : m.dir = "req"
    /\ \A m \in net : m.dir = "rep" /\ m.cc = "ok" => ran[m.call] # {}

Fewer ==
    /\ net' \subseteq net
    /\ \/ jobs' \subseteq jobs
       \/ \E m \in net \ net' : m.dir = "req" /\ jobs' = jobs \cup {m}
    /\ UNCHANGED <<dups, ran>>

Issues(r) ==
    /\ net' = net \cup {r} /\ UNCHANGED <<jobs, dups, ran>>
    /\ r.dir = "req" /\ r.copy = 0 /\ r.call \in Calls
    /\ st[r.call] \in Unsent /\ st'[r.call] \notin Unsent
    /\ IF Kind[r.call] = "destroy" THEN r.sock = r.call
       ELSE pending'[Owner[r.call]][r.seq] = r.call /\ sentAs'[r.call] = r.seq

Doubles(m, r) ==
    /\ net' = net \cup {r} /\ UNCHANGED <<jobs, ran>>
    /\ r.dir = m.dir /\ r.cc = m.cc /\ r.call = m.call /\ r.seq = m.seq
    /\ r.sock = m.sock /\ r.copy = dups + 1 /\ dups' = dups + 1

Answers(m, r) ==
    /\ net' = (net \ {m}) \cup {r} /\ jobs' = jobs \ {m}
    /\ UNCHANGED <<dups, st>>
    /\ m.dir = "req" /\ r.dir = "rep"
    /\ r.call = m.call /\ r.seq = m.seq /\ r.sock = m.sock /\ r.copy = m.copy
    /\ \/ ran' = ran /\ r.cc # "ok"
       \/ ran' = [ran EXCEPT ![m.call] = @ \cup {m.copy}]

DatagramStep ==
    \/ Fewer
    \/ \E r : Issues(r)
    \/ \E m \in net : \E r : Doubles(m, r)
    \/ \E m \in net \cup jobs : \E r : Answers(m, r)

LEMMA AnswerFields ==
  ASSUME NEW m \in Datagrams, NEW cc \in {"ok", "error", "refused"}
  PROVE  LET r == Reply(m, cc)
         IN  /\ r.dir = "rep" /\ r.cc = cc /\ r.call = m.call /\ r.seq = m.seq
             /\ r.sock = m.sock /\ r.copy = m.copy
  BY DEF Reply, Datagrams

LEMMA DatagramNext ==
  ASSUME TypeOK, IdleInv, CopyInv, [Next]_vars
  PROVE  DatagramStep
<1>0. net \subseteq Datagrams /\ jobs \subseteq Datagrams /\ net \cap jobs = {}
  BY DEF TypeOK, CopyInv
<1>1. ASSUME NEW k \in Calls, NEW s \in Seqs, NEW n, NEW x \in {"wait", "rejected"},
             st[k] \in Unsent, Kind[k] # "destroy", Register(k, s),
             st' = [st EXCEPT ![k] = x], UNCHANGED <<jobs, dups, ran>>,
             net' \in {net, net \cup {Request(k, sock[Owner[k]], s, n)}}
      PROVE  Fewer \/ \E r : Issues(r)
  <2> DEFINE r == Request(k, sock[Owner[k]], s, n)
  <2>1. pending'[Owner[k]][s] = k /\ sentAs'[k] = s
    BY <1>1, ParametersAssumption DEF Register, TypeOK
  <2>2. r.dir = "req" /\ r.copy = 0 /\ r.call = k /\ r.seq = s
    BY DEF Request
  <2>3. st'[k] \notin Unsent
    BY <1>1 DEF TypeOK, Unsent
  <2> HIDE DEF r
  <2> QED BY <1>1, <2>1, <2>2, <2>3 DEF Issues, Fewer, r
<1>12. ASSUME NEW k \in Calls, Bound(k) PROVE Fewer \/ \E r : Issues(r)
  <2>1. /\ 0 \in Seqs /\ st[k] \in Unsent /\ Kind[k] # "destroy"
        /\ Register(k, 0) /\ UNCHANGED <<jobs, dups, ran>>
        /\ net' \in {net, net \cup {Request(k, sock[Owner[k]], 0, Unassigned)}}
    BY <1>12, ModType DEF Bound, serverVars, IdleInv, Unsent
  <2>2. \E x \in {"wait", "rejected"} : st' = [st EXCEPT ![k] = x]
    BY <1>12 DEF Bound
  <2> QED BY <1>1, <2>1, <2>2
<1>2. ASSUME NEW k \in Calls, Call(k) PROVE Fewer \/ \E r : Issues(r)
  <2> DEFINE s == NextSeq(Owner[k])
  <2>1. /\ st[k] \in Unsent /\ Kind[k] # "destroy"
        /\ Register(k, s) /\ UNCHANGED <<jobs, dups, ran>>
        /\ net' \in {net, net \cup {Request(k, sock[Owner[k]], s, conn[Owner[k]])}}
    BY <1>2 DEF Call, serverVars, Unsent
  <2>2. s \in Seqs
    <3>1. seq[Owner[k]] \in Nat
      BY ParametersAssumption DEF TypeOK, Seqs
    <3> QED BY <3>1, ModType DEF NextSeq
  <2>3. \E x \in {"wait", "rejected"} : st' = [st EXCEPT ![k] = x]
    BY <1>2 DEF Call
  <2> HIDE DEF s
  <2> QED BY <1>1, <2>1, <2>2, <2>3
<1>3. ASSUME NEW k \in Calls, SendDestroy(k) PROVE \E r : Issues(r)
  <2> DEFINE r == Request(k, k, 1 % SeqMod, conn[Owner[k]])
  <2>1. /\ net' = net \cup {r} /\ UNCHANGED <<jobs, dups, ran>>
        /\ st[k] = "idle" /\ st' = [st EXCEPT ![k] = "sent"] /\ Kind[k] = "destroy"
    BY <1>3 DEF SendDestroy, serverVars
  <2>2. r.dir = "req" /\ r.copy = 0 /\ r.call = k /\ r.sock = k
    BY DEF Request
  <2>3. st[k] \in Unsent /\ st'[k] \notin Unsent
    BY <2>1 DEF TypeOK, Unsent
  <2> HIDE DEF r
  <2> QED BY <2>1, <2>2, <2>3 DEF Issues
<1>4. ASSUME NEW m \in net, Duplicate(m) PROVE \E r : Doubles(m, r)
  <2> DEFINE r == [m EXCEPT !.copy = dups + 1]
  <2>1. net' = net \cup {r} /\ UNCHANGED <<jobs, ran>> /\ dups' = dups + 1
    BY <1>4 DEF Duplicate, serverVars
  <2>2. /\ r.dir = m.dir /\ r.cc = m.cc /\ r.call = m.call /\ r.seq = m.seq
        /\ r.sock = m.sock /\ r.copy = dups + 1
    BY <1>0 DEF Datagrams
  <2> HIDE DEF r
  <2> QED BY <2>1, <2>2 DEF Doubles
<1>5. ASSUME NEW m \in net, ServerConnect(m) PROVE \E r : Answers(m, r)
  <2> DEFINE r == [Reply(m, "ok") EXCEPT !.conn = nextConn % ConnMod]
  <2>1. /\ net' = (net \ {m}) \cup {r} /\ UNCHANGED <<jobs, dups, st>> /\ m.dir = "req"
        /\ ran' = [ran EXCEPT ![m.call] = @ \cup {m.copy}]
    BY <1>5 DEF ServerConnect, NewNumber, ServerStep, Executed, callVars
  <2>2. r.dir = "rep" /\ r.call = m.call /\ r.seq = m.seq /\ r.sock = m.sock /\ r.copy = m.copy
    BY <1>0 DEF Reply, Datagrams
  <2>3. jobs' = jobs \ {m}
    BY <1>0, <2>1
  <2> HIDE DEF r
  <2> QED BY <2>1, <2>2, <2>3 DEF Answers
<1>6. ASSUME NEW m \in net \cup jobs, NEW cc \in {"ok", "error", "refused"}, m.dir = "req",
             net' = (net \ {m}) \cup {Reply(m, cc)}, jobs' = jobs \ {m}, UNCHANGED <<dups, st>>,
             \/ ran' = ran /\ cc # "ok"
             \/ ran' = [ran EXCEPT ![m.call] = @ \cup {m.copy}]
      PROVE  \E r : Answers(m, r)
  <2> DEFINE r == Reply(m, cc)
  <2>1. r.dir = "rep" /\ r.cc = cc /\ r.call = m.call /\ r.seq = m.seq
        /\ r.sock = m.sock /\ r.copy = m.copy
    BY <1>0, AnswerFields
  <2> HIDE DEF r
  <2> QED BY <1>6, <2>1 DEF Answers, r
<1>7. ASSUME NEW m \in net, ServerUnknown(m) \/ ServerService(m) \/ ServerLogout(m)
      PROVE  \E r : Answers(m, r)
  <2>1. jobs' = jobs \ {m} /\ UNCHANGED <<dups, st>> /\ m.dir = "req"
    BY <1>0, <1>7
    DEF ServerUnknown, ServerService, ServerLogout, ServerStep, serverVars, callVars
  <2>2. \E cc \in {"ok", "error", "refused"} :
           /\ net' = (net \ {m}) \cup {Reply(m, cc)}
           /\ \/ ran' = ran /\ cc # "ok"
              \/ ran' = [ran EXCEPT ![m.call] = @ \cup {m.copy}]
    BY <1>7 DEF ServerUnknown, ServerService, ServerLogout, Answer, Executed
  <2> QED BY <2>1, <2>2, <1>6
<1>8. ASSUME NEW m \in net, ServerDefault(m) PROVE Fewer \/ \E r : Answers(m, r)
  <2>1. m.dir = "req" /\ UNCHANGED <<dups, st, ran>>
    BY <1>8 DEF ServerDefault, ServerStep, callVars
  <2>2. CASE FileService
    <3>1. net' = net \ {m} /\ jobs' = jobs \cup {m}
      BY <1>8, <2>2 DEF ServerDefault
    <3> QED BY <2>1, <3>1 DEF Fewer
  <2>3. CASE ~ FileService
    <3>1. net' = (net \ {m}) \cup {Reply(m, "error")} /\ jobs' = jobs \ {m}
      BY <1>0, <1>8, <2>3 DEF ServerDefault, Answer
    <3> QED BY <2>1, <3>1, <1>6
  <2> QED BY <2>2, <2>3
<1>9. ASSUME NEW m \in jobs, FileDone(m) PROVE \E r : Answers(m, r)
  <2>1. jobs' = jobs \ {m} /\ UNCHANGED <<dups, st>> /\ m.dir = "req" /\ net \ {m} = net
    BY <1>0, <1>9 DEF FileDone, callVars, CopyInv
  <2>2. \E cc \in {"ok", "error", "refused"} :
           /\ net' = net \cup {Reply(m, cc)}
           /\ \/ ran' = ran /\ cc # "ok"
              \/ ran' = [ran EXCEPT ![m.call] = @ \cup {m.copy}]
    BY <1>9 DEF FileDone, Executed
  <2> QED BY <2>1, <2>2, <1>6
<1>10. ASSUME NEW c \in Clients, NEW m \in net, ClientReceive(c, m) PROVE Fewer
  BY <1>10 DEF ClientReceive, serverVars, Fewer
<1>11. ASSUME \/ \E k \in Calls : Connect(k) \/ BindFails(k) \/ TimerFires(k)
              \/ \E c \in Clients : SocketError(c)
              \/ \E m \in net : Lose(m)
              \/ Restart
              \/ UNCHANGED vars
       PROVE  Fewer
  BY <1>11
  DEF Connect, BindFails, TimerFires, SocketError, ErrorHandler, Lose, Restart, vars,
      serverVars, networkVars, Fewer
<1> QED
  BY <1>2, <1>3, <1>4, <1>5, <1>7, <1>8, <1>9, <1>10, <1>11, <1>12
  DEF Next, DatagramStep

(***************************************************************************)
(* What a step does to the calls and to the table that finds them.         *)
(***************************************************************************)

table == <<pending, timers, sentAs, order>>
counts == <<seq, made>>

Registers(k, s) ==
    /\ Kind[k] # "destroy" /\ Register(k, s)
    /\ QuietReuse => Quiet(k, s)
    /\ \E x \in {"wait", "rejected"} : st' = [st EXCEPT ![k] = x]
    /\ IF Kind[k] = "connect"
         THEN /\ st[k] = "binding" /\ s = 0 /\ UNCHANGED counts
         ELSE /\ st[k] = "idle" /\ s = (seq[Owner[k]] + 1) % SeqMod
              /\ seq'  = [seq EXCEPT ![Owner[k]] = s]
              /\ made' = [made EXCEPT ![Owner[k]] = @ + 1]
    /\ order' = [order EXCEPT ![k] = made'[Owner[k]]]
    /\ UNCHANGED <<ran, got>>

Begins(k) ==
    /\ st[k] = "idle"
    /\ \/ Kind[k] = "connect" /\ st' = [st EXCEPT ![k] = "binding"]
       \/ Kind[k] = "destroy" /\ st' = [st EXCEPT ![k] = "sent"]
    /\ UNCHANGED <<table, counts, ran, got>>

Resolves(c, m, k) ==
    /\ m.dir = "rep" /\ m.sock \in open[c] /\ k = pending[c][m.seq] /\ k \in Calls
    /\ timers' = timers \ {k}
    /\ pending' = [pending EXCEPT ![c][m.seq] = None]
    /\ \/ st[k] # "wait" /\ UNCHANGED <<st, got>>
       \/ /\ st[k] = "wait" /\ got' = [got EXCEPT ![k] = m.call]
          /\ \E x \in {"ok", "error", "rejected"} :
                st' = [st EXCEPT ![k] = x] /\ (x = "ok" => m.cc = "ok")
    /\ UNCHANGED <<sendVars, ran>>

\* The 'error' handler runs, of a socket in use or of one that is not bound.
Errors(c) ==
    /\ ErrorHandler(c)
    /\ \/ st' = Rejected(c)
       \/ \E k \in Calls : /\ Kind[k] = "connect" /\ st[k] = "binding"
                           /\ st' = [Rejected(c) EXCEPT ![k] = "hung"]

Quiets == UNCHANGED <<table, counts, st, got>>

ClientStep ==
    \/ \E k \in Calls, s \in Seqs : Registers(k, s)
    \/ \E k \in Calls : Begins(k)
    \/ \E c \in Clients, m \in net, k \in Calls : Resolves(c, m, k)
    \/ \E k \in Calls : TimerFires(k)
    \/ \E c \in Clients : Errors(c)
    \/ Quiets

LEMMA ClientNext == TypeOK /\ IdleInv /\ [Next]_vars => ClientStep
<1> SUFFICES ASSUME TypeOK, IdleInv, [Next]_vars PROVE ClientStep
  OBVIOUS
<1>1. ASSUME NEW k \in Calls, Bound(k) PROVE Registers(k, 0)
  <2>1. Kind[k] = "connect" /\ st[k] = "binding"
    BY <1>1 DEF Bound, IdleInv
  <2>2. order' = [order EXCEPT ![k] = made'[Owner[k]]] /\ UNCHANGED counts
    BY <1>1 DEF Bound, counts
  <2> QED BY <1>1, <2>1, <2>2 DEF Bound, Registers
<1>2. ASSUME NEW k \in Calls, Call(k)
      PROVE  Registers(k, NextSeq(Owner[k])) /\ NextSeq(Owner[k]) \in Seqs
  <2>1. NextSeq(Owner[k]) \in Seqs
    <3>1. seq[Owner[k]] \in Nat
      BY ParametersAssumption DEF TypeOK, Seqs
    <3> QED BY <3>1, ModType DEF NextSeq
  <2>2. \E x \in {"wait", "rejected"} : st' = [st EXCEPT ![k] = x]
    BY <1>2 DEF Call
  <2>3. order' = [order EXCEPT ![k] = made'[Owner[k]]]
    <3>1. /\ order' = [order EXCEPT ![k] = made[Owner[k]] + 1]
          /\ made' = [made EXCEPT ![Owner[k]] = @ + 1]
      BY <1>2 DEF Call
    <3>2. made'[Owner[k]] = made[Owner[k]] + 1
      BY <3>1, ParametersAssumption DEF TypeOK
    <3> QED BY <3>1, <3>2
  <2>4. /\ st[k] = "idle" /\ Kind[k] \notin {"destroy", "connect"}
        /\ Register(k, NextSeq(Owner[k]))
        /\ QuietReuse => Quiet(k, NextSeq(Owner[k]))
        /\ seq' = [seq EXCEPT ![Owner[k]] = NextSeq(Owner[k])]
        /\ made' = [made EXCEPT ![Owner[k]] = @ + 1]
        /\ UNCHANGED <<ran, got>>
    BY <1>2 DEF Call
  <2> QED BY <2>1, <2>2, <2>3, <2>4 DEF Registers, NextSeq
<1>3. ASSUME NEW k \in Calls, Connect(k) \/ SendDestroy(k) PROVE Begins(k)
  BY <1>3 DEF Connect, SendDestroy, Begins, sendVars, table, counts
<1>4. ASSUME NEW c \in Clients, NEW m \in net, ClientReceive(c, m)
      PROVE  Quiets \/ \E k \in Calls : Resolves(c, m, k)
  <2> DEFINE k == Matching(c, m)
  <2>1. CASE k = None
    BY <1>4, <2>1 DEF ClientReceive, Quiets, table, counts, callVars, sendVars
  <2>2. CASE k # None
    <3>1. k \in Calls /\ k = pending[c][m.seq]
      BY <2>2 DEF Matching, TypeOK, Datagrams
    <3>2. /\ m.dir = "rep" /\ m.sock \in open[c]
          /\ timers' = timers \ {k} /\ UNCHANGED <<sendVars, ran>>
          /\ pending' = [pending EXCEPT ![c][m.seq] = None]
      BY <1>4, <2>2 DEF ClientReceive
    <3>3. CASE st[k] # "wait"
      <4>1. UNCHANGED <<st, got>>
        BY <1>4, <2>2, <3>3 DEF ClientReceive
      <4> HIDE DEF k
      <4> QED BY <3>1, <3>2, <3>3, <4>1 DEF Resolves
    <3>4. CASE st[k] = "wait"
      <4>1. got' = [got EXCEPT ![k] = m.call] /\ Resume(c, k, m)
        BY <1>4, <2>2, <3>4 DEF ClientReceive
      <4> HIDE DEF k
      <4>2. \E x \in {"ok", "error", "rejected"} :
               st' = [st EXCEPT ![k] = x] /\ (x = "ok" => m.cc = "ok")
        BY <4>1 DEF Resume, Outcome
      <4> QED BY <3>1, <3>2, <3>4, <4>1, <4>2 DEF Resolves
    <3> QED BY <3>3, <3>4
  <2> QED BY <2>1, <2>2
<1>5. ASSUME UNCHANGED callVars, UNCHANGED sendVars, UNCHANGED got PROVE Quiets
  BY <1>5 DEF callVars, sendVars, Quiets, table, counts
<1>6. 0 \in Seqs
  BY ModType
<1>7. ASSUME NEW c \in Clients, SocketError(c) PROVE Errors(c)
  BY <1>7 DEF SocketError, Errors
<1>8. ASSUME NEW k \in Calls, BindFails(k) PROVE Owner[k] \in Clients /\ Errors(Owner[k])
  BY <1>8, ParametersAssumption DEF BindFails, Errors, IdleInv
<1> QED
  BY <1>1, <1>2, <1>3, <1>4, <1>5, <1>6, <1>7, <1>8
  DEF Next, vars, ClientStep, ServerStep, ServerConnect, ServerUnknown, ServerService,
      ServerLogout, ServerDefault, FileDone, Restart, Lose, Duplicate

(***************************************************************************)
(* Executions.                                                             *)
(***************************************************************************)

\* What the 'error' handler does to the calls.
LEMMA ErrorsState ==
  ASSUME TypeOK, NEW c \in Clients, Errors(c)
  PROVE  \A j \in Calls :
           \/ st'[j] = st[j] /\ (st[j] = "wait" => j \notin Entered(c))
           \/ st[j] = "wait" /\ j \in Entered(c) /\ st'[j] = "rejected"
           \/ st[j] = "binding" /\ Kind[j] = "connect" /\ st'[j] = "hung"
  BY DEF Errors, Rejected, TypeOK

LEMMA IdleStep ==
  ASSUME TypeOK, IdleInv, ClientStep, DatagramStep
  PROVE  IdleInv'
<1>7. ASSUME NEW j \in Calls, st'[j] = "binding" PROVE Kind[j] = "connect"
  <2>1. ASSUME NEW k \in Calls, Begins(k) PROVE st[j] = "binding" \/ Kind[j] = "connect"
    BY <1>7, <2>1 DEF Begins, TypeOK
  <2>2. ASSUME NEW k \in Calls, NEW x, x # "binding", st' = [st EXCEPT ![k] = x]
        PROVE  st[j] = "binding"
    BY <1>7, <2>2 DEF TypeOK
  <2>3. ASSUME NEW c \in Clients, Errors(c) PROVE st[j] = "binding"
    BY <1>7, <2>3, ErrorsState
  <2>4. ASSUME NEW k \in Calls, NEW s \in Seqs, Registers(k, s) PROVE st[j] = "binding"
    BY <2>2, <2>4 DEF Registers
  <2>5. ASSUME NEW c \in Clients, NEW m \in net, NEW k \in Calls, Resolves(c, m, k)
        PROVE  st[j] = "binding"
    <3>1. st' = st \/ \E x \in {"ok", "error", "rejected"} : st' = [st EXCEPT ![k] = x]
      BY <2>5 DEF Resolves
    <3> QED BY <1>7, <2>2, <3>1
  <2>6. ASSUME NEW k \in Calls, TimerFires(k) PROVE st[j] = "binding"
    BY <1>7, <2>6 DEF TimerFires, TypeOK
  <2>7. ASSUME Quiets PROVE st[j] = "binding"
    BY <1>7, <2>7 DEF Quiets
  <2> QED BY <2>1, <2>3, <2>4, <2>5, <2>6, <2>7 DEF ClientStep, IdleInv
<1> SUFFICES ASSUME NEW j \in Calls, st'[j] \in Unsent
             PROVE  j \notin timers' /\ ran'[j] = {} /\ \A x \in net' \cup jobs' : x.call # j
  BY <1>7 DEF IdleInv
<1>1. st[j] \in Unsent /\ j \notin timers'
  <2>1. ASSUME NEW k \in Calls, NEW s \in Seqs, Registers(k, s)
        PROVE  st[j] \in Unsent /\ timers' = timers \cup {k} /\ j # k
    BY <2>1 DEF Registers, Register, TypeOK, Unsent
  <2>2. ASSUME NEW k \in Calls, Begins(k) PROVE st[j] \in Unsent /\ timers' = timers
    BY <2>2 DEF Begins, table, TypeOK, Unsent
  <2>3. ASSUME NEW c \in Clients, NEW m \in net, NEW k \in Calls, Resolves(c, m, k)
        PROVE  st[j] \in Unsent /\ timers' \subseteq timers
    BY <2>3 DEF Resolves, TypeOK, Unsent
  <2>4. ASSUME NEW k \in Calls, TimerFires(k)
        PROVE  st[j] \in Unsent /\ timers' \subseteq timers
    BY <2>4 DEF TimerFires, TypeOK, Unsent
  <2>5. ASSUME NEW c \in Clients, Errors(c)
        PROVE  st[j] \in Unsent /\ timers' \subseteq timers
    BY <2>5, ErrorsState DEF Errors, ErrorHandler, Unsent
  <2>6. ASSUME Quiets PROVE st[j] \in Unsent /\ timers' = timers
    BY <2>6 DEF Quiets, table
  <2> QED BY <2>1, <2>2, <2>3, <2>4, <2>5, <2>6 DEF ClientStep, IdleInv
<1>2. ran[j] = {} /\ \A m \in net \cup jobs : m.call # j
  BY <1>1 DEF IdleInv
<1>3. ASSUME Fewer
      PROVE  ran'[j] = {} /\ \A x \in net' \cup jobs' : x.call # j
  BY <1>2, <1>3 DEF Fewer
<1>4. ASSUME NEW r, Issues(r)
      PROVE  ran'[j] = {} /\ \A x \in net' \cup jobs' : x.call # j
  BY <1>2, <1>4 DEF Issues
<1>5. ASSUME NEW m \in net, NEW r, Doubles(m, r)
      PROVE  ran'[j] = {} /\ \A x \in net' \cup jobs' : x.call # j
  BY <1>2, <1>5 DEF Doubles
<1>6. ASSUME NEW m \in net \cup jobs, NEW r, Answers(m, r)
      PROVE  ran'[j] = {} /\ \A x \in net' \cup jobs' : x.call # j
  BY <1>2, <1>6 DEF Answers, TypeOK
<1> QED BY <1>1, <1>3, <1>4, <1>5, <1>6 DEF DatagramStep

LEMMA CopyStep ==
  ASSUME TypeOK, IdleInv, CopyInv, DatagramStep
  PROVE  CopyInv'
<1>0. dups \in Nat /\ \A m \in net \cup jobs : m.copy \in Nat /\ m.copy <= dups /\ m.call \in Calls
  BY ParametersAssumption DEF TypeOK, CopyInv, Datagrams, Copies
<1>1. CASE Fewer
  <2>1. net' \subseteq net /\ jobs' \subseteq net \cup jobs /\ dups' = dups /\ ran' = ran
    BY <1>1 DEF Fewer
  <2>2. (net \cap jobs = {})' /\ (\A m \in jobs : m.dir = "req")'
    BY <1>1 DEF Fewer, CopyInv
  <2> QED BY <2>1, <2>2 DEF CopyInv
<1>2. ASSUME NEW r, Issues(r) PROVE CopyInv'
  <2>1. ran[r.call] = {} /\ r \notin net \cup jobs /\ \A m \in net \cup jobs : m.call # r.call
    BY <1>2 DEF Issues, IdleInv
  <2> QED BY <1>0, <1>2, <2>1 DEF Issues, CopyInv
<1>3. ASSUME NEW m \in net, NEW r, Doubles(m, r) PROVE CopyInv'
  <2>1. \A x \in net \cup jobs : x.copy # r.copy
    BY <1>0, <1>3 DEF Doubles
  <2>2. \A k \in Calls : r.copy \notin ran[k]
    BY <1>0, <1>3 DEF Doubles, CopyInv
  <2> QED BY <1>0, <1>3, <2>1, <2>2 DEF Doubles, CopyInv
<1>4. ASSUME NEW m \in net \cup jobs, NEW r, Answers(m, r) PROVE CopyInv'
  <2>1. /\ net' = (net \ {m}) \cup {r} /\ jobs' = jobs \ {m} /\ dups' = dups
        /\ m.dir = "req" /\ r.dir = "rep" /\ r.call = m.call /\ r.copy = m.copy
    BY <1>4 DEF Answers
  <2>a. /\ ran' = ran \/ ran' = [ran EXCEPT ![m.call] = @ \cup {m.copy}]
        /\ r.cc = "ok" => ran' = [ran EXCEPT ![m.call] = @ \cup {m.copy}]
    BY <1>4 DEF Answers
  <2>b. ran \in [Calls -> SUBSET Copies] /\ m.call \in Calls
    BY <1>0 DEF TypeOK
  <2>2. \A k \in Calls : ran[k] \subseteq ran'[k] /\ ran'[k] \subseteq ran[k] \cup {m.copy}
    BY ONLY <2>a, <2>b
  <2>3. \A k \in Calls : k # m.call => ran'[k] = ran[k]
    BY ONLY <2>a, <2>b
  <2>4. r.cc = "ok" => m.copy \in ran'[m.call]
    BY ONLY <2>a, <2>b
  <2>5. \A x \in net' \cup jobs' : x.dir = "req" => x \in net \cup jobs /\ x # m
    BY <2>1
  <2>6. (net \cap jobs = {})' /\ (\A x \in jobs : x.dir = "req")'
    BY <2>1 DEF CopyInv
  <2>7. (\A x \in net \cup jobs : x.copy <= dups)'
    BY <1>0, <2>1
  <2>8. (\A k \in Calls : ran[k] \subseteq 0 .. dups)'
    BY <1>0, <2>1, <2>2 DEF CopyInv
  <2>9. (\A x \in net \cup jobs : x.dir = "req" => x.copy \notin ran[x.call])'
    <3> SUFFICES ASSUME NEW x \in net' \cup jobs', x.dir = "req"
                 PROVE  x.copy \notin ran'[x.call]
      OBVIOUS
    <3>1. x \in net \cup jobs /\ x # m /\ x.call \in Calls /\ x.copy \notin ran[x.call]
      BY <1>0, <2>5 DEF CopyInv
    <3>2. x.call = m.call => x.copy # m.copy
      BY <2>1, <3>1 DEF CopyInv
    <3> QED BY <2>2, <2>3, <3>1, <3>2
  <2>10. (\A x, y \in net \cup jobs :
            x.dir = "req" /\ y.dir = "req" /\ x.call = y.call /\ x.copy = y.copy => x = y)'
    BY <2>5 DEF CopyInv
  <2>11. (\A x \in net : x.dir = "rep" /\ x.cc = "ok" => ran[x.call] # {})'
    <3> SUFFICES ASSUME NEW x \in net', x.dir = "rep", x.cc = "ok" PROVE ran'[x.call] # {}
      OBVIOUS
    <3>1. CASE x = r
      BY <2>1, <2>4, <3>1
    <3>2. CASE x # r
      BY <1>0, <2>1, <2>2, <3>2 DEF CopyInv
    <3> QED BY <3>1, <3>2
  <2> QED BY <2>6, <2>7, <2>8, <2>9, <2>10, <2>11 DEF CopyInv
<1> QED BY <1>1, <1>2, <1>3, <1>4 DEF DatagramStep

LEMMA CallInvariant == Spec => [](TypeOK /\ IdleInv /\ CopyInv)
<1>1. Init => IdleInv /\ CopyInv
  BY DEF Init, IdleInv, CopyInv
<1>2. TypeOK /\ IdleInv /\ CopyInv /\ [Next]_vars => (IdleInv /\ CopyInv)'
  BY ClientNext, DatagramNext, IdleStep, CopyStep
<1> QED BY <1>1, <1>2, InitType, NextType, PTL DEF Spec
-----------------------------------------------------------------------------
(***************************************************************************)
(* A waiting caller is in the table, provided that sequence numbers are    *)
(* not reused too early.                                                   *)
(***************************************************************************)

\* An entry of the table has its timer, and is where the call was entered.
EntriesTimed ==
    \A c \in Clients, s \in Seqs :
        pending[c][s] # None =>
            /\ pending[c][s] \in timers
            /\ Owner[pending[c][s]] = c /\ sentAs[pending[c][s]] = s

\* An armed timer has its entry in the table.
TimersEntered ==
    \A k \in timers : Kind[k] # "destroy" /\ pending[Owner[k]][sentAs[k]] = k

\* What is still under way with a sequence number belongs to the call entered
\* under it, but for the connects of a client, which share number 0; a Destroy
\* is answered on a socket of its own.
LateKnown ==
    \A m \in net \cup jobs :
        IF Kind[m.call] = "destroy" THEN m.sock = m.call
        ELSE LET k == pending[Owner[m.call]][m.seq]
             IN  k \in {None, m.call} \/ {k, m.call} \subseteq Connects

ReuseInv == EntriesTimed /\ TimersEntered /\ LateKnown

LEMMA EntriesStep ==
  ASSUME TypeOK, IdleInv, EntriesTimed, ClientStep
  PROVE  EntriesTimed'
<1> SUFFICES ASSUME NEW c \in Clients, NEW s \in Seqs, pending'[c][s] # None
             PROVE  /\ pending'[c][s] \in timers'
                    /\ Owner[pending'[c][s]] = c /\ sentAs'[pending'[c][s]] = s
  BY DEF EntriesTimed
<1> DEFINE p == pending[c][s]
<1>0. p \in Calls \cup {None} /\ \A k \in Calls : Owner[k] \in Clients /\ sentAs[k] \in Seqs
  BY ParametersAssumption DEF TypeOK
<1>a. p # None => p \in timers /\ Owner[p] = c /\ sentAs[p] = s
  BY DEF EntriesTimed
<1>1. ASSUME NEW k \in Calls, NEW z \in Seqs, Registers(k, z)
      PROVE  /\ pending'[c][s] \in timers'
             /\ Owner[pending'[c][s]] = c /\ sentAs'[pending'[c][s]] = s
  <2>1. /\ timers' = timers \cup {k} /\ sentAs' = [sentAs EXCEPT ![k] = z]
        /\ pending' = [pending EXCEPT ![Owner[k]][z] = k] /\ st[k] \in Unsent
    BY <1>1 DEF Registers, Register, Unsent
  <2>2. k \notin timers /\ Owner[k] \in Clients
    BY <1>0, <2>1 DEF IdleInv
  <2>3. CASE c = Owner[k] /\ s = z
    <3>1. pending'[c][s] = k /\ sentAs'[k] = z
      BY <2>1, <2>3 DEF TypeOK
    <3> QED BY <2>1, <2>3, <3>1
  <2>4. CASE ~ (c = Owner[k] /\ s = z)
    <3>1. pending'[c][s] = p
      BY <2>1, <2>2, <2>4 DEF TypeOK
    <3>2. p # k /\ p \in Calls
      BY <1>0, <1>a, <2>2, <3>1
    <3>3. sentAs'[p] = sentAs[p]
      BY <2>1, <3>2 DEF TypeOK
    <3> QED BY <1>a, <2>1, <3>1, <3>2, <3>3
  <2> QED BY <2>3, <2>4
<1>2. ASSUME NEW k \in Calls, NEW d \in Clients, NEW z \in Seqs,
             timers' = timers \ {k}, sentAs' = sentAs,
             pending' = [pending EXCEPT ![d][z] = None],
             p = k => c = d /\ s = z
      PROVE  /\ pending'[c][s] \in timers'
             /\ Owner[pending'[c][s]] = c /\ sentAs'[pending'[c][s]] = s
  <2>1. pending'[c][s] = p /\ p # k
    BY <1>2 DEF TypeOK
  <2> QED BY <1>2, <1>a, <2>1
<1>3. ASSUME NEW d \in Clients, NEW m \in net, NEW k \in Calls, Resolves(d, m, k)
      PROVE  /\ pending'[c][s] \in timers'
             /\ Owner[pending'[c][s]] = c /\ sentAs'[pending'[c][s]] = s
  <2>1. m.seq \in Seqs /\ k = pending[d][m.seq] /\ k # None
    BY <1>3, ParametersAssumption DEF Resolves, TypeOK, Datagrams
  <2>2. Owner[k] = d /\ sentAs[k] = m.seq
    BY <2>1 DEF EntriesTimed
  <2>3. timers' = timers \ {k} /\ sentAs' = sentAs /\ pending' = [pending EXCEPT ![d][m.seq] = None]
    BY <1>3 DEF Resolves, sendVars
  <2>4. p = k => c = d /\ s = m.seq
    BY <1>a, <2>1, <2>2
  <2> QED BY <1>2, <2>1, <2>3, <2>4
<1>4. ASSUME NEW k \in Calls, TimerFires(k)
      PROVE  /\ pending'[c][s] \in timers'
             /\ Owner[pending'[c][s]] = c /\ sentAs'[pending'[c][s]] = s
  <2>1. /\ timers' = timers \ {k} /\ sentAs' = sentAs
        /\ pending' = [pending EXCEPT ![Owner[k]][sentAs[k]] = None]
    BY <1>4 DEF TimerFires, sendVars
  <2>2. k # None
    BY ParametersAssumption
  <2>3. p = k => c = Owner[k] /\ s = sentAs[k]
    BY <1>a, <2>2
  <2> QED BY <1>0, <1>2, <2>1, <2>3
<1>5. ASSUME NEW d \in Clients, Errors(d)
      PROVE  /\ pending'[c][s] \in timers'
             /\ Owner[pending'[c][s]] = c /\ sentAs'[pending'[c][s]] = s
  <2>1. /\ timers' = timers \ Entered(d) /\ sentAs' = sentAs
        /\ pending' = [pending EXCEPT ![d] = [z \in Seqs |-> None]]
    BY <1>5 DEF Errors, ErrorHandler, sendVars
  <2>2. c # d /\ pending'[c][s] = p
    BY <2>1 DEF TypeOK
  <2>3. p \notin Entered(d)
    BY <1>a, <2>2 DEF Entered, EntriesTimed
  <2> QED BY <1>a, <2>1, <2>2, <2>3
<1>6. CASE UNCHANGED table
  BY <1>a, <1>6 DEF table
<1> QED BY <1>1, <1>3, <1>4, <1>5, <1>6 DEF ClientStep, Begins, Quiets

\* What keeps a sequence number from being used again.
LEMMA QuietFacts ==
  ASSUME TypeOK, NEW k \in Calls, NEW s \in Seqs, Quiet(k, s)
  PROVE  /\ \A m \in net \cup jobs :
               m.seq = s /\ Owner[m.call] = Owner[k] =>
                  Kind[m.call] = "destroy" \/ {k, m.call} \subseteq Connects
         /\ \A j \in timers : ~ (sentAs[j] = s /\ Owner[j] = Owner[k])
  BY DEF Quiet

LEMMA TimersStep ==
  ASSUME QuietReuse, TypeOK, IdleInv, EntriesTimed, TimersEntered, ClientStep
  PROVE  TimersEntered'
<1> SUFFICES ASSUME NEW j \in timers'
             PROVE  Kind[j] # "destroy" /\ pending'[Owner[j]][sentAs'[j]] = j
  BY DEF TimersEntered
<1>0. timers \subseteq Calls /\ \A k \in Calls : Owner[k] \in Clients /\ sentAs[k] \in Seqs
  BY ParametersAssumption DEF TypeOK
<1>a. j \in timers => j \in Calls /\ Kind[j] # "destroy" /\ pending[Owner[j]][sentAs[j]] = j
  BY <1>0 DEF TimersEntered
<1>1. ASSUME NEW k \in Calls, NEW s \in Seqs, Registers(k, s)
      PROVE  Kind[j] # "destroy" /\ pending'[Owner[j]][sentAs'[j]] = j
  <2>1. /\ timers' = timers \cup {k} /\ sentAs' = [sentAs EXCEPT ![k] = s]
        /\ pending' = [pending EXCEPT ![Owner[k]][s] = k] /\ Kind[k] # "destroy"
        /\ Quiet(k, s)
    BY <1>1 DEF Registers, Register
  <2>3. CASE j = k
    <3>1. sentAs'[k] = s /\ pending'[Owner[k]][s] = k
      BY <1>0, <2>1 DEF TypeOK
    <3> QED BY <2>1, <2>3, <3>1
  <2>4. CASE j # k
    <3>1. j \in timers /\ j \in Calls /\ sentAs'[j] = sentAs[j]
      BY <1>a, <2>1, <2>4 DEF TypeOK
    <3>2. ~ (Owner[j] = Owner[k] /\ sentAs[j] = s)
      BY <2>1, <3>1, QuietFacts
    <3>3. pending'[Owner[j]][sentAs[j]] = pending[Owner[j]][sentAs[j]]
      BY <1>0, <2>1, <3>1, <3>2 DEF TypeOK
    <3> QED BY <1>a, <3>1, <3>3
  <2> QED BY <2>3, <2>4
<1>2. ASSUME NEW k \in Calls, NEW c \in Clients, NEW s \in Seqs,
             timers' = timers \ {k}, sentAs' = sentAs,
             pending' = [pending EXCEPT ![c][s] = None],
             pending[c][s] \in {k, None}
      PROVE  Kind[j] # "destroy" /\ pending'[Owner[j]][sentAs'[j]] = j
  <2>1. j \in timers /\ j # k /\ j # None
    BY <1>2, <1>0, ParametersAssumption
  <2>2. ~ (Owner[j] = c /\ sentAs[j] = s)
    BY <1>2, <1>a, <2>1
  <2>3. pending'[Owner[j]][sentAs[j]] = pending[Owner[j]][sentAs[j]]
    BY <1>0, <1>2, <1>a, <2>1, <2>2 DEF TypeOK
  <2> QED BY <1>2, <1>a, <2>1, <2>3
<1>3. ASSUME NEW c \in Clients, NEW m \in net, NEW k \in Calls, Resolves(c, m, k)
      PROVE  Kind[j] # "destroy" /\ pending'[Owner[j]][sentAs'[j]] = j
  <2>1. m.seq \in Seqs
    BY DEF TypeOK, Datagrams
  <2> QED BY <1>2, <1>3, <2>1 DEF Resolves, sendVars
<1>4. ASSUME NEW k \in Calls, TimerFires(k)
      PROVE  Kind[j] # "destroy" /\ pending'[Owner[j]][sentAs'[j]] = j
  <2>1. pending[Owner[k]][sentAs[k]] = k
    BY <1>4 DEF TimerFires, TimersEntered
  <2> QED BY <1>0, <1>2, <1>4, <2>1 DEF TimerFires, sendVars
<1>5. ASSUME NEW c \in Clients, Errors(c)
      PROVE  Kind[j] # "destroy" /\ pending'[Owner[j]][sentAs'[j]] = j
  <2>1. /\ timers' = timers \ Entered(c) /\ sentAs' = sentAs
        /\ pending' = [pending EXCEPT ![c] = [z \in Seqs |-> None]]
    BY <1>5 DEF Errors, ErrorHandler, sendVars
  <2>2. j \in timers /\ j \notin Entered(c) /\ j \in Calls /\ j # None
    BY <1>0, <2>1, ParametersAssumption
  <2>3. Owner[j] # c
    BY <1>0, <1>a, <2>2 DEF Entered
  <2> QED BY <1>0, <1>a, <2>1, <2>2, <2>3 DEF TypeOK
<1>6. CASE UNCHANGED table
  BY <1>a, <1>6 DEF table
<1> QED BY <1>1, <1>3, <1>4, <1>5, <1>6 DEF ClientStep, Begins, Quiets

LEMMA LateStep ==
  ASSUME QuietReuse, TypeOK, IdleInv, LateKnown, ClientStep, DatagramStep
  PROVE  LateKnown'
<1>0. \A m \in net \cup jobs : m.call \in Calls /\ Owner[m.call] \in Clients /\ m.seq \in Seqs
  BY ParametersAssumption DEF TypeOK, Datagrams
<1> DEFINE KnownNext(x) == IF Kind[x.call] = "destroy" THEN x.sock = x.call
                           ELSE LET k == pending'[Owner[x.call]][x.seq]
                                IN  k \in {None, x.call} \/ {k, x.call} \subseteq Connects
\* What is under way already.
<1>1. ASSUME NEW m \in net \cup jobs PROVE KnownNext(m)
  <2> SUFFICES ASSUME Kind[m.call] # "destroy"
               PROVE  LET k == pending'[Owner[m.call]][m.seq]
                      IN  k \in {None, m.call} \/ {k, m.call} \subseteq Connects
    BY DEF LateKnown
  <2> DEFINE c == Owner[m.call]
             old == pending[c][m.seq]
             new == pending'[c][m.seq]
  <2>0. old \in {None, m.call} \/ {old, m.call} \subseteq Connects
    BY DEF LateKnown
  <2>1. ASSUME NEW k \in Calls, NEW s \in Seqs, Registers(k, s)
        PROVE  new \in {None, m.call} \/ {new, m.call} \subseteq Connects
    <3>1. pending' = [pending EXCEPT ![Owner[k]][s] = k] /\ Quiet(k, s)
      BY <2>1 DEF Registers, Register
    <3>2. CASE c = Owner[k] /\ m.seq = s
      <4>1. new = k
        BY <1>0, <3>1, <3>2 DEF TypeOK
      <4>2. {k, m.call} \subseteq Connects
        BY <3>1, <3>2, QuietFacts
      <4> QED BY <4>1, <4>2
    <3>3. CASE ~ (c = Owner[k] /\ m.seq = s)
      <4>1. new = old
        BY <1>0, <3>1, <3>3, ParametersAssumption DEF TypeOK
      <4> QED BY <2>0, <4>1
    <3> QED BY <3>2, <3>3
  <2>2. ASSUME new \in {old, None}
        PROVE  new \in {None, m.call} \/ {new, m.call} \subseteq Connects
    BY <2>0, <2>2
  <2>3. ASSUME NEW d, NEW z, pending' = [pending EXCEPT ![d][z] = None] PROVE new \in {old, None}
    BY <1>0, <2>3 DEF TypeOK
  <2>4. ASSUME NEW d \in Clients, Errors(d) PROVE new \in {old, None}
    BY <1>0, <2>4 DEF Errors, ErrorHandler, TypeOK
  <2>5. ASSUME UNCHANGED table PROVE new = old
    BY <2>5 DEF table
  <2>6. ASSUME NEW k \in Calls, NEW d \in Clients, NEW n \in net, Resolves(d, n, k)
        PROVE  new \in {old, None}
    BY <2>3, <2>6 DEF Resolves
  <2>7. ASSUME NEW k \in Calls, TimerFires(k) \/ Begins(k) PROVE new \in {old, None}
    BY <2>3, <2>5, <2>7 DEF TimerFires, Begins
  <2>8. ASSUME Quiets PROVE new \in {old, None}
    BY <2>5, <2>8 DEF Quiets
  <2>9. new \in {None, m.call} \/ {new, m.call} \subseteq Connects
    <3> HIDE DEF new, old
    <3> QED
      BY <2>1, <2>2, <2>4, <2>6, <2>7, <2>8 DEF ClientStep
  <2> QED BY <2>9
<1>2. CASE Fewer
  BY <1>1, <1>2 DEF Fewer, LateKnown
<1>3. ASSUME NEW r, Issues(r) PROVE LateKnown'
  <2>1. KnownNext(r)
    BY <1>3 DEF Issues
  <2> QED BY <1>1, <1>3, <2>1 DEF Issues, LateKnown
<1>4. ASSUME NEW m \in net \cup jobs, NEW r, Doubles(m, r) \/ Answers(m, r) PROVE LateKnown'
  <2>1. r.call = m.call /\ r.seq = m.seq /\ r.sock = m.sock
    BY <1>4 DEF Doubles, Answers
  <2>2. KnownNext(r)
    BY <1>1, <2>1
  <2>3. net' \cup jobs' \subseteq net \cup jobs \cup {r}
    BY <1>4 DEF Doubles, Answers
  <2> QED BY <1>1, <2>2, <2>3 DEF LateKnown
<1> QED BY <1>2, <1>3, <1>4 DEF DatagramStep

CallInv == TypeOK /\ SocketInv /\ IdleInv /\ CopyInv /\ ReuseInv

LEMMA ReuseInvariant ==
  ASSUME QuietReuse
  PROVE  Spec => []CallInv
<1>1. Init => CallInv
  BY InitType, ParametersAssumption
  DEF Init, CallInv, SocketInv, SocketsOwned, IdleInv, CopyInv, ReuseInv, EntriesTimed,
      TimersEntered, LateKnown, Connects
<1>2. CallInv /\ [Next]_vars => CallInv'
  BY QuietReuse, NextType, SocketStep, ClientNext, DatagramNext, IdleStep, CopyStep,
     EntriesStep, TimersStep, LateStep
  DEF CallInv, ReuseInv
<1> QED BY <1>1, <1>2, PTL DEF Spec

\* The answer that resolves a call is its own, or one to a connect of the same
\* client.
LEMMA OwnAnswer ==
  ASSUME CallInv, NEW c \in Clients, NEW m \in net, NEW k \in Calls, Resolves(c, m, k)
  PROVE  /\ m.call \in Calls
         /\ m.call = k \/ ({k, m.call} \subseteq Connects /\ Owner[m.call] = Owner[k])
<1>1. /\ m.sock \in open[c] /\ open[c] \subseteq Connects /\ k = pending[c][m.seq]
      /\ m.call \in Calls /\ m.seq \in Seqs /\ k # None
  BY ParametersAssumption DEF CallInv, TypeOK, Datagrams, Resolves
<1>2. Owner[m.call] = c /\ Owner[k] = c
  BY <1>1 DEF CallInv, SocketInv, SocketsOwned, ReuseInv, EntriesTimed
<1>3. Kind[m.call] # "destroy"
  BY <1>1 DEF CallInv, ReuseInv, LateKnown, Connects
<1> QED BY <1>1, <1>2, <1>3 DEF CallInv, ReuseInv, LateKnown

\* A waiting caller is in the table: no late timer, no late answer and no other
\* call of a client that reuses a number only when it is quiet has taken its
\* place.
THEOREM StaysPending == Spec => []WaitingIsPending
<1>1. CASE QuietReuse
  <2>1. CallInv /\ WaitingHasTimer => WaitingIsPending
    BY DEF CallInv, ReuseInv, TimersEntered, WaitingHasTimer, WaitingIsPending, Waiting
  <2> QED BY <1>1, <2>1, ReuseInvariant, TimerSafety, PTL
<1>2. CASE ~ QuietReuse
  <2>1. WaitingIsPending
    BY <1>2 DEF WaitingIsPending
  <2> QED BY <2>1, PTL
<1> QED BY <1>1, <1>2
-----------------------------------------------------------------------------
(***************************************************************************)
(* Which answers a call can be given, whatever is reused.  A request       *)
(* carries its place in the client's calls, cut to a byte; the table holds *)
(* the last call of its number; and what is under way carries the number   *)
(* its call was sent under.                                                *)
(***************************************************************************)

Sends(k) == Kind[k] # "destroy" /\ st[k] \notin Unsent

OrderInv ==
    /\ \A c \in Clients : seq[c] = made[c] % SeqMod
    /\ \A k \in Calls : Sends(k) =>
          /\ order[k] <= made[Owner[k]]
          /\ Kind[k] = "connect" => sentAs[k] = 0
          /\ Kind[k] # "connect" => sentAs[k] = order[k] % SeqMod
    /\ \A j, k \in Calls :
          (/\ Sends(j) /\ Sends(k) /\ {j, k} \cap Connects = {} /\ j # k
           /\ Owner[j] = Owner[k])
             => order[j] # order[k]

\* Of the calls sent under one number the table holds the last.
LastEntered ==
    \A c \in Clients, s \in Seqs : pending[c][s] # None =>
        /\ Sends(pending[c][s])
        /\ \A j \in Calls : Sends(j) /\ Owner[j] = c /\ sentAs[j] = s
                              => order[j] <= order[pending[c][s]]

CarriesNumber(m) ==
    IF Kind[m.call] = "destroy" THEN m.sock = m.call
    ELSE Sends(m.call) /\ sentAs[m.call] = m.seq

NumbersCarried == \A m \in net \cup jobs : CarriesNumber(m)

AnswerInv ==
    TypeOK /\ SocketInv /\ IdleInv /\ CopyInv /\ EntriesTimed /\ OrderInv /\ LastEntered
      /\ NumbersCarried

\* A call that was sent stays sent, under the same number.
LEMMA SendsStep ==
  ASSUME TypeOK, ClientStep, NEW j \in Calls
  PROVE  \/ Sends(j)' /\ Sends(j) /\ sentAs'[j] = sentAs[j] /\ order'[j] = order[j]
         \/ ~ Sends(j)' /\ ~ Sends(j)
         \/ ~ Sends(j) /\ \E s \in Seqs : Registers(j, s)
<1>1. ASSUME NEW k \in Calls, NEW s \in Seqs, Registers(k, s), j # k
      PROVE  st'[j] = st[j] /\ sentAs'[j] = sentAs[j] /\ order'[j] = order[j]
  BY <1>1 DEF Registers, Register, TypeOK
<1>2. ASSUME NEW k \in Calls, NEW s \in Seqs, Registers(k, s) PROVE ~ Sends(k)
  BY <1>2 DEF Registers, Sends, Unsent
<1>3. ASSUME UNCHANGED <<sentAs, order>>, Kind[j] # "destroy" => (st'[j] \in Unsent <=> st[j] \in Unsent)
      PROVE  \/ Sends(j)' /\ Sends(j) /\ sentAs'[j] = sentAs[j] /\ order'[j] = order[j]
             \/ ~ Sends(j)' /\ ~ Sends(j)
  BY <1>3 DEF Sends
<1>4. ASSUME NEW k \in Calls, Begins(k)
      PROVE  UNCHANGED <<sentAs, order>> /\ (Kind[j] # "destroy" => (st'[j] \in Unsent <=> st[j] \in Unsent))
  BY <1>4 DEF Begins, table, TypeOK, Unsent
<1>5. ASSUME NEW c \in Clients, NEW m \in net, NEW k \in Calls, Resolves(c, m, k)
      PROVE  UNCHANGED <<sentAs, order>> /\ (st'[j] \in Unsent <=> st[j] \in Unsent)
  BY <1>5 DEF Resolves, sendVars, TypeOK, Unsent
<1>6. ASSUME NEW k \in Calls, TimerFires(k)
      PROVE  UNCHANGED <<sentAs, order>> /\ (st'[j] \in Unsent <=> st[j] \in Unsent)
  BY <1>6 DEF TimerFires, sendVars, TypeOK, Unsent
<1>7. ASSUME NEW c \in Clients, Errors(c)
      PROVE  UNCHANGED <<sentAs, order>> /\ (st'[j] \in Unsent <=> st[j] \in Unsent)
  <2>1. UNCHANGED <<sentAs, order>>
    BY <1>7 DEF Errors, ErrorHandler, sendVars
  <2> QED BY <1>7, <2>1, ErrorsState DEF Unsent
<1>8. ASSUME Quiets PROVE UNCHANGED <<sentAs, order>> /\ (st'[j] \in Unsent <=> st[j] \in Unsent)
  BY <1>8 DEF Quiets, table
<1>9. ASSUME NEW k \in Calls, NEW s \in Seqs, Registers(k, s), j # k
      PROVE  \/ Sends(j)' /\ Sends(j) /\ sentAs'[j] = sentAs[j] /\ order'[j] = order[j]
             \/ ~ Sends(j)' /\ ~ Sends(j)
  BY <1>1, <1>9 DEF Sends
<1> QED BY <1>2, <1>3, <1>4, <1>5, <1>6, <1>7, <1>8, <1>9 DEF ClientStep

\* The counters and the table change when a call is sent, and entries are
\* taken out at other steps.
LEMMA CountsStep ==
  ASSUME TypeOK, ClientStep
  PROVE  \/ \E k \in Calls, s \in Seqs : Registers(k, s)
         \/ /\ UNCHANGED counts /\ \A k \in Calls, s \in Seqs : ~ Registers(k, s)
            /\ \A c \in Clients, s \in Seqs : pending'[c][s] \in {None, pending[c][s]}
<1>1. ASSUME NEW d, NEW z, pending' = [pending EXCEPT ![d][z] = None]
      PROVE  \A c \in Clients, s \in Seqs : pending'[c][s] \in {None, pending[c][s]}
  BY <1>1 DEF TypeOK
<1>2. ASSUME NEW k \in Calls, Begins(k)
      PROVE  UNCHANGED counts /\ \A c \in Clients, s \in Seqs : pending'[c][s] \in {None, pending[c][s]}
  BY <1>2 DEF Begins, table
<1>3. ASSUME NEW c \in Clients, NEW m \in net, NEW k \in Calls, Resolves(c, m, k)
      PROVE  UNCHANGED counts /\ \A d \in Clients, s \in Seqs : pending'[d][s] \in {None, pending[d][s]}
  <2>1. UNCHANGED counts /\ pending' = [pending EXCEPT ![c][m.seq] = None]
    BY <1>3 DEF Resolves, sendVars, counts
  <2> QED BY <1>1, <2>1
<1>4. ASSUME NEW k \in Calls, TimerFires(k)
      PROVE  UNCHANGED counts /\ \A c \in Clients, s \in Seqs : pending'[c][s] \in {None, pending[c][s]}
  <2>1. UNCHANGED counts /\ pending' = [pending EXCEPT ![Owner[k]][sentAs[k]] = None]
    BY <1>4 DEF TimerFires, sendVars, counts
  <2> QED BY <1>1, <2>1
<1>5. ASSUME NEW d \in Clients, Errors(d)
      PROVE  UNCHANGED counts /\ \A c \in Clients, s \in Seqs : pending'[c][s] \in {None, pending[c][s]}
  BY <1>5 DEF Errors, ErrorHandler, sendVars, counts, TypeOK
<1>6. ASSUME Quiets
      PROVE  UNCHANGED counts /\ \A c \in Clients, s \in Seqs : pending'[c][s] \in {None, pending[c][s]}
  BY <1>6 DEF Quiets, table
<1> QED BY <1>2, <1>3, <1>4, <1>5, <1>6 DEF ClientStep

\* What sending a call does to it.
LEMMA RegisterEffect ==
  ASSUME TypeOK, OrderInv, NEW k \in Calls, NEW s \in Seqs, Registers(k, s)
  PROVE  /\ sentAs'[k] = s /\ order'[k] = made'[Owner[k]] /\ Kind[k] # "destroy"
         /\ pending' = [pending EXCEPT ![Owner[k]][s] = k] /\ Sends(k)'
         /\ \A c \in Clients : made[c] <= made'[c] /\ made'[c] \in Nat
         /\ \A c \in Clients : seq'[c] = made'[c] % SeqMod
         /\ Kind[k] = "connect" => s = 0
         /\ Kind[k] # "connect" =>
              s = made'[Owner[k]] % SeqMod /\ made'[Owner[k]] = made[Owner[k]] + 1
<1> DEFINE d == Owner[k]
<1>1. d \in Clients /\ \A c \in Clients : made[c] \in Nat /\ seq[c] = made[c] % SeqMod
  BY ParametersAssumption DEF TypeOK, OrderInv
<1>2. sentAs'[k] = s /\ order'[k] = made'[d] /\ Kind[k] # "destroy"
      /\ pending' = [pending EXCEPT ![d][s] = k]
  BY DEF Registers, Register, TypeOK
<1>3. Sends(k)'
  BY DEF Registers, TypeOK, Sends, Unsent
<1>4. CASE Kind[k] = "connect"
  <2>1. s = 0 /\ seq' = seq /\ made' = made
    BY <1>4 DEF Registers, counts
  <2> QED BY <1>1, <1>2, <1>3, <1>4, <2>1
<1>5. CASE Kind[k] # "connect"
  <2>1. s = (seq[d] + 1) % SeqMod /\ seq' = [seq EXCEPT ![d] = s]
        /\ made' = [made EXCEPT ![d] = made[d] + 1]
    BY <1>5 DEF Registers
  <2>2. s = (made[d] + 1) % SeqMod
    <3>1. SeqMod \in Int /\ SeqMod > 0
      BY ParametersAssumption
    <3>2. ((made[d] % SeqMod) + 1) % SeqMod = (made[d] + 1) % SeqMod
      <4>1. PICK M \in Int, x \in Int : M = SeqMod /\ x = made[d]
        BY <1>1, <3>1
      <4>2. ((x % M) + 1) % M = (x + 1) % M
        BY ONLY <3>1, <4>1, NextRest
      <4> QED BY ONLY <4>1, <4>2
    <3> QED BY ONLY <1>1, <2>1, <3>2
  <2>3. /\ seq \in [Clients -> Seqs] /\ made \in [Clients -> Nat]
    BY DEF TypeOK
  <2> HIDE DEF d
  <2>4. \A c \in Clients : /\ made'[c] = IF c = d THEN made[d] + 1 ELSE made[c]
                           /\ seq'[c] = IF c = d THEN s ELSE seq[c]
    BY ONLY <1>1, <2>1, <2>3
  <2>5. \A c \in Clients : /\ made[c] <= made'[c] /\ made'[c] \in Nat
                           /\ seq'[c] = made'[c] % SeqMod
    BY ONLY <1>1, <2>2, <2>4
  <2>6. s = made'[d] % SeqMod /\ made'[d] = made[d] + 1
    BY ONLY <1>1, <2>2, <2>4
  <2> QED BY <1>2, <1>3, <1>5, <2>5, <2>6 DEF d
<1> QED BY <1>4, <1>5

LEMMA OrderStep ==
  ASSUME TypeOK, OrderInv, ClientStep
  PROVE  OrderInv'
<1>0. \A k \in Calls : Owner[k] \in Clients /\ order[k] \in Nat /\ made[Owner[k]] \in Nat
  BY ParametersAssumption DEF TypeOK
<1>1. ASSUME NEW k \in Calls, NEW s \in Seqs, Registers(k, s) PROVE OrderInv'
  <2>1. \A j \in Calls \ {k} : Sends(j)' => Sends(j) /\ sentAs'[j] = sentAs[j] /\ order'[j] = order[j]
    <3>1. ASSUME NEW j \in Calls \ {k}
          PROVE  st'[j] = st[j] /\ sentAs'[j] = sentAs[j] /\ order'[j] = order[j]
      BY <1>1 DEF Registers, Register, TypeOK
    <3> QED BY <3>1 DEF Sends
  <2>2. \A j \in Calls : Sends(j)' =>
          /\ order'[j] <= made'[Owner[j]]
          /\ Kind[j] = "connect" => sentAs'[j] = 0
          /\ Kind[j] # "connect" => sentAs'[j] = order'[j] % SeqMod
    <3> SUFFICES ASSUME NEW j \in Calls, Sends(j)'
                 PROVE  /\ order'[j] <= made'[Owner[j]]
                        /\ Kind[j] = "connect" => sentAs'[j] = 0
                        /\ Kind[j] # "connect" => sentAs'[j] = order'[j] % SeqMod
      OBVIOUS
    <3>1. CASE j = k
      <4>1. /\ order'[k] = made'[Owner[k]] /\ made'[Owner[k]] \in Nat /\ sentAs'[k] = s
            /\ Kind[k] = "connect" => s = 0
            /\ Kind[k] # "connect" => s = made'[Owner[k]] % SeqMod
        BY <1>0, <1>1, RegisterEffect
      <4>2. order'[k] <= made'[Owner[k]]
        BY ONLY <4>1
      <4> QED BY ONLY <3>1, <4>1, <4>2
    <3>2. CASE j # k
      <4>1. Sends(j) /\ sentAs'[j] = sentAs[j] /\ order'[j] = order[j]
        BY <2>1, <3>2
      <4>2. made[Owner[j]] <= made'[Owner[j]] /\ made'[Owner[j]] \in Nat
        BY <1>0, <1>1, RegisterEffect
      <4>3. /\ order[j] <= made[Owner[j]]
            /\ Kind[j] = "connect" => sentAs[j] = 0
            /\ Kind[j] # "connect" => sentAs[j] = order[j] % SeqMod
        BY <4>1 DEF OrderInv
      <4> QED BY <1>0, <4>1, <4>2, <4>3
    <3> QED BY <3>1, <3>2
  <2>3. \A i, j \in Calls :
          (/\ Sends(i)' /\ Sends(j)' /\ {i, j} \cap Connects = {} /\ i # j
           /\ Owner[i] = Owner[j])
             => order'[i] # order'[j]
    <3>1. ASSUME NEW j \in Calls \ {k}, Sends(j)', Kind[k] # "connect", Owner[j] = Owner[k]
          PROVE  order'[j] < order'[k]
      <4>1. order'[j] = order[j] /\ order[j] <= made[Owner[k]]
        BY <2>1, <3>1 DEF OrderInv
      <4>2. order'[k] = made[Owner[k]] + 1
        BY <1>1, <3>1, RegisterEffect
      <4> QED BY <1>0, <4>1, <4>2
    <3>2. \A j \in Calls : order'[j] \in Nat
      <4>1. \A j \in Calls \ {k} : order'[j] = order[j]
        BY <1>1 DEF Registers, TypeOK
      <4>2. order'[k] \in Nat
        BY <1>0, <1>1, RegisterEffect
      <4> QED BY <1>0, <4>1, <4>2
    <3>6. ASSUME NEW i \in Calls, NEW j \in Calls, Sends(i)', Sends(j)',
                 {i, j} \cap Connects = {}, i # j, Owner[i] = Owner[j]
          PROVE  order'[i] # order'[j]
      <4>1. Kind[i] # "connect" /\ Kind[j] # "connect"
        BY <3>6 DEF Connects
      <4>2. order'[i] \in Nat /\ order'[j] \in Nat
        BY <3>2
      <4>3. CASE i = k
        <5>1. order'[j] < order'[k]
          BY <3>1, <3>6, <4>1, <4>3
        <5> QED BY ONLY <4>2, <4>3, <5>1
      <4>4. CASE j = k
        <5>1. order'[i] < order'[k]
          BY <3>1, <3>6, <4>1, <4>4
        <5> QED BY ONLY <4>2, <4>4, <5>1
      <4>5. CASE i # k /\ j # k
        BY <2>1, <3>6, <4>5 DEF OrderInv
      <4> QED BY <4>3, <4>4, <4>5
    <3> QED BY <3>6
  <2>4. \A c \in Clients : seq'[c] = made'[c] % SeqMod
    BY <1>1, RegisterEffect
  <2> QED BY <2>2, <2>3, <2>4 DEF OrderInv
<1>2. CASE UNCHANGED counts /\ \A k \in Calls, s \in Seqs : ~ Registers(k, s)
  <2>1. \A j \in Calls : Sends(j)' => Sends(j) /\ sentAs'[j] = sentAs[j] /\ order'[j] = order[j]
    BY <1>2, SendsStep
  <2>2. seq' = seq /\ made' = made
    BY <1>2 DEF counts
  <2> QED BY <2>1, <2>2 DEF OrderInv
<1> QED BY <1>1, <1>2, CountsStep

LEMMA EnteredStep ==
  ASSUME TypeOK, OrderInv, LastEntered, ClientStep
  PROVE  LastEntered'
<1> SUFFICES ASSUME NEW c \in Clients, NEW s \in Seqs, pending'[c][s] # None
             PROVE  /\ Sends(pending[c][s])'
                    /\ \A j \in Calls : Sends(j)' /\ Owner[j] = c /\ sentAs'[j] = s
                                          => order'[j] <= order'[pending'[c][s]]
  BY DEF LastEntered
<1>0. /\ pending[c][s] \in Calls \cup {None}
      /\ \A k \in Calls : Owner[k] \in Clients /\ order[k] \in Nat
  BY ParametersAssumption DEF TypeOK
<1>1. ASSUME NEW k \in Calls, NEW z \in Seqs, Registers(k, z)
      PROVE  /\ Sends(pending[c][s])'
             /\ \A j \in Calls : Sends(j)' /\ Owner[j] = c /\ sentAs'[j] = s
                                   => order'[j] <= order'[pending'[c][s]]
  <2>1. /\ sentAs'[k] = z /\ order'[k] = made'[Owner[k]] /\ Sends(k)' /\ ~ Sends(k)
        /\ pending' = [pending EXCEPT ![Owner[k]][z] = k]
        /\ made[Owner[k]] <= made'[Owner[k]] /\ made'[Owner[k]] \in Nat
        /\ made[Owner[k]] \in Nat
    <3>1. ~ Sends(k)
      BY <1>1 DEF Registers, Sends, Unsent
    <3> QED BY <1>0, <1>1, <3>1, RegisterEffect DEF TypeOK
  <2>2. \A j \in Calls \ {k} : Sends(j)' => Sends(j) /\ sentAs'[j] = sentAs[j] /\ order'[j] = order[j]
    <3>1. ASSUME NEW j \in Calls \ {k}
          PROVE  st'[j] = st[j] /\ sentAs'[j] = sentAs[j] /\ order'[j] = order[j]
      BY <1>1 DEF Registers, Register, TypeOK
    <3> QED BY <3>1 DEF Sends
  <2>3. CASE c = Owner[k] /\ s = z
    <3>1. pending'[c][s] = k
      BY <2>1, <2>3 DEF TypeOK
    <3>2. \A j \in Calls : Sends(j) /\ Owner[j] = c => order[j] <= made[c]
      BY DEF OrderInv
    <3>3. ASSUME NEW j \in Calls, Sends(j)', Owner[j] = c PROVE order'[j] <= order'[k]
      <4>1. CASE j = k
        BY <2>1, <4>1
      <4>2. CASE j # k
        <5>1. order'[j] = order[j] /\ order[j] <= made[c]
          BY <2>2, <3>2, <3>3, <4>2
        <5> QED BY <1>0, <2>1, <2>3, <5>1
      <4> QED BY <4>1, <4>2
    <3> QED BY <2>1, <3>1, <3>3 DEF Sends
  <2>4. CASE ~ (c = Owner[k] /\ s = z)
    <3>1. pending'[c][s] = pending[c][s]
      BY <1>0, <2>1, <2>4 DEF TypeOK
    <3>2. PICK p \in Calls : p = pending[c][s]
      BY <1>0, <3>1
    <3>3. /\ Sends(p) /\ p # k
          /\ \A j \in Calls : Sends(j) /\ Owner[j] = c /\ sentAs[j] = s => order[j] <= order[p]
      BY <2>1, <3>1, <3>2 DEF LastEntered
    <3>4. Sends(p)' /\ order'[p] = order[p]
      BY <1>1, <3>3, SendsStep, <2>2 DEF Registers, Register, TypeOK, Sends
    <3>5. ASSUME NEW j \in Calls, Sends(j)', Owner[j] = c, sentAs'[j] = s
          PROVE  order'[j] <= order'[p]
      <4>1. j # k
        BY <2>1, <2>4, <3>5
      <4>2. Sends(j) /\ sentAs[j] = s /\ order'[j] = order[j]
        BY <2>2, <3>5, <4>1
      <4> QED BY <3>3, <3>4, <3>5, <4>2
    <3> QED BY <3>1, <3>2, <3>4, <3>5 DEF Sends
  <2> QED BY <2>3, <2>4
<1>2. CASE /\ \A k \in Calls, z \in Seqs : ~ Registers(k, z)
           /\ pending'[c][s] \in {None, pending[c][s]}
  <2>1. PICK p \in Calls : p = pending[c][s] /\ p = pending'[c][s]
    BY <1>0, <1>2
  <2>2. \A j \in Calls : \/ /\ Sends(j)' /\ Sends(j)
                            /\ sentAs'[j] = sentAs[j] /\ order'[j] = order[j]
                         \/ ~ Sends(j)' /\ ~ Sends(j)
    BY <1>2, SendsStep
  <2>3. /\ Sends(p)
        /\ \A j \in Calls : Sends(j) /\ Owner[j] = c /\ sentAs[j] = s => order[j] <= order[p]
    BY <2>1 DEF LastEntered
  <2>4. Sends(p)' /\ order'[p] = order[p]
    BY <2>2, <2>3
  <2>5. ASSUME NEW j \in Calls, Sends(j)', Owner[j] = c, sentAs'[j] = s
        PROVE  order'[j] <= order'[p]
    <3>1. Sends(j) /\ sentAs[j] = s /\ order'[j] = order[j]
      BY <2>2, <2>5
    <3> QED BY <2>3, <2>4, <2>5, <3>1
  <2> QED BY <2>1, <2>4, <2>5 DEF Sends
<1> QED BY <1>1, <1>2, CountsStep

LEMMA CarriedStep ==
  ASSUME TypeOK, IdleInv, NumbersCarried, ClientStep, DatagramStep
  PROVE  NumbersCarried'
<1>1. ASSUME NEW m \in net \cup jobs PROVE CarriesNumber(m)'
  <2>1. m.call \in Calls /\ CarriesNumber(m)
    BY DEF TypeOK, Datagrams, NumbersCarried
  <2>2. CASE Kind[m.call] # "destroy"
    <3>1. Sends(m.call) /\ sentAs[m.call] = m.seq
      BY <2>1, <2>2 DEF CarriesNumber
    <3>2. PICK j \in Calls : j = m.call
      BY <2>1
    <3>3. Sends(j)' /\ sentAs'[j] = sentAs[j]
      BY <3>1, <3>2, SendsStep
    <3> QED BY <2>2, <3>1, <3>2, <3>3 DEF CarriesNumber
  <2>3. CASE Kind[m.call] = "destroy"
    BY <2>1, <2>3 DEF CarriesNumber
  <2> QED BY <2>2, <2>3
<1>2. CASE Fewer
  BY <1>1, <1>2 DEF Fewer, NumbersCarried
<1>3. ASSUME NEW r, Issues(r) PROVE NumbersCarried'
  <2>1. CarriesNumber(r)'
    BY <1>3 DEF Issues, CarriesNumber, Sends
  <2> QED BY <1>1, <1>3, <2>1 DEF Issues, NumbersCarried
<1>4. ASSUME NEW m \in net \cup jobs, NEW r, Doubles(m, r) \/ Answers(m, r) PROVE NumbersCarried'
  <2>1. r.call = m.call /\ r.seq = m.seq /\ r.sock = m.sock
    BY <1>4 DEF Doubles, Answers
  <2>2. CarriesNumber(r)'
    BY <1>1, <2>1 DEF CarriesNumber
  <2>3. net' \cup jobs' \subseteq net \cup jobs \cup {r}
    BY <1>4 DEF Doubles, Answers
  <2> QED BY <1>1, <2>2, <2>3 DEF NumbersCarried
<1> QED BY <1>2, <1>3, <1>4 DEF DatagramStep

LEMMA AnswerInvariant == Spec => []AnswerInv
<1>1. Init => AnswerInv
  <2>1. 0 % SeqMod = 0
    BY ParametersAssumption
  <2> SUFFICES ASSUME Init PROVE AnswerInv
    OBVIOUS
  <2>2. TypeOK
    BY InitType
  <2>3. SocketInv /\ IdleInv /\ CopyInv
    BY DEF Init, SocketInv, SocketsOwned, IdleInv, CopyInv
  <2>4. \A k \in Calls : st[k] = "idle"
    BY DEF Init
  <2>5. \A c \in Clients : seq[c] = 0 /\ made[c] = 0
    BY DEF Init
  <2>6. \A k \in Calls : ~ Sends(k)
    BY ONLY <2>4 DEF Sends, Unsent
  <2>7. OrderInv
    BY ONLY <2>1, <2>5, <2>6 DEF OrderInv
  <2>8. EntriesTimed /\ LastEntered /\ NumbersCarried
    BY DEF Init, EntriesTimed, LastEntered, NumbersCarried
  <2> QED BY ONLY <2>2, <2>3, <2>7, <2>8 DEF AnswerInv
<1>2. AnswerInv /\ [Next]_vars => AnswerInv'
  BY NextType, SocketStep, ClientNext, DatagramNext, IdleStep, CopyStep, EntriesStep,
     OrderStep, EnteredStep, CarriedStep
  DEF AnswerInv
<1> QED BY <1>1, <1>2, PTL DEF Spec

\* Call j's answer may resolve call k.
May(j, k) ==
    /\ Owner[j] = Owner[k] /\ sentAs[j] = sentAs[k]
    /\ IF {j, k} \cap Connects # {} THEN order[j] <= order[k]
       ELSE order[k] - order[j] >= SeqMod

Matched ==
    \A k \in Calls : got[k] # None =>
        Sends(k) /\ Sends(got[k]) /\ (got[k] # k => May(got[k], k))

LEMMA MatchedAnswer ==
  ASSUME AnswerInv, NEW c \in Clients, NEW m \in net, NEW k \in Calls, Resolves(c, m, k)
  PROVE  /\ m.call \in Calls /\ Sends(k) /\ Sends(m.call)
         /\ m.call # k => May(m.call, k)
<1>1. /\ m.sock \in open[c] /\ open[c] \subseteq Connects /\ k = pending[c][m.seq]
      /\ m.call \in Calls /\ m.seq \in Seqs /\ k # None
      /\ order[k] \in Nat /\ order[m.call] \in Nat /\ SeqMod \in Nat \ {0}
  BY ParametersAssumption DEF AnswerInv, TypeOK, Datagrams, Resolves
<1>2. Owner[m.call] = c /\ Owner[k] = c /\ sentAs[k] = m.seq
  BY <1>1 DEF AnswerInv, SocketInv, SocketsOwned, EntriesTimed
<1>3. CarriesNumber(m)
  BY DEF AnswerInv, NumbersCarried
<1>4. Sends(m.call) /\ sentAs[m.call] = m.seq
  BY <1>1, <1>3 DEF CarriesNumber, Connects
<1>5. Sends(k) /\ order[m.call] <= order[k]
  BY <1>1, <1>2, <1>4 DEF AnswerInv, LastEntered
<1>6. ASSUME m.call # k, {m.call, k} \cap Connects = {}
      PROVE  order[k] - order[m.call] >= SeqMod
  <2>1. order[m.call] # order[k]
    BY <1>1, <1>2, <1>4, <1>5, <1>6 DEF AnswerInv, OrderInv
  <2>2. order[m.call] % SeqMod = order[k] % SeqMod
    BY <1>1, <1>2, <1>4, <1>5, <1>6 DEF AnswerInv, OrderInv, Connects
  <2>3. order[m.call] < order[k]
    BY <1>1, <1>5, <2>1
  <2> QED BY <1>1, <2>2, <2>3, SameRest
<1> QED BY <1>1, <1>2, <1>4, <1>5, <1>6 DEF May

LEMMA MatchedStep ==
  ASSUME AnswerInv, Matched, ClientStep
  PROVE  Matched'
<1>0. TypeOK
  BY DEF AnswerInv
<1>1. ASSUME NEW k \in Calls, NEW j \in Calls, Sends(k), Sends(j), j # k => May(j, k)
      PROVE  Sends(k)' /\ Sends(j)' /\ (j # k => May(j, k)')
  <2>1. Sends(k)' /\ sentAs'[k] = sentAs[k] /\ order'[k] = order[k]
    BY <1>0, <1>1, SendsStep
  <2>2. Sends(j)' /\ sentAs'[j] = sentAs[j] /\ order'[j] = order[j]
    BY <1>0, <1>1, SendsStep
  <2> QED BY <1>1, <2>1, <2>2 DEF May
<1>2. \A k \in Calls : got'[k] = None \/ (got'[k] \in Calls /\ Sends(k) /\ Sends(got'[k])
                          /\ (got'[k] # k => May(got'[k], k)))
  <2>1. ASSUME NEW c \in Clients, NEW m \in net, NEW k \in Calls, Resolves(c, m, k)
        PROVE  <1>2
    <3>1. got' \in {got, [got EXCEPT ![k] = m.call]}
      BY <2>1 DEF Resolves
    <3>2. got \in [Calls -> Calls \cup {None}]
      BY <1>0 DEF TypeOK
    <3> QED BY <2>1, <3>1, <3>2, MatchedAnswer DEF Matched
  <2>2. CASE UNCHANGED got
    BY <1>0, <2>2 DEF Matched, TypeOK
  <2> QED BY <2>1, <2>2 DEF ClientStep, Registers, Begins, TimerFires, Errors, ErrorHandler, Quiets
<1>3. ASSUME NEW k \in Calls, got'[k] # None
      PROVE  \E j \in Calls : /\ j = got'[k] /\ Sends(k)' /\ Sends(j)'
                             /\ (j # k => May(j, k)')
  <2>1. PICK j \in Calls : j = got'[k]
    BY <1>2, <1>3
  <2> QED BY <1>1, <1>2, <1>3, <2>1
<1> QED BY <1>3 DEF Matched, Sends, May

\* An answer goes to the call that asked or to a later one of the client that
\* the sequence byte cannot tell from it, at least SeqMod calls later or with
\* a connect between them.  Nothing is assumed of the reuse of numbers.
THEOREM OwnReply == Spec => []ReplyMatch
<1>1. Init => Matched
  BY DEF Init, Matched
<1>2. AnswerInv /\ Matched /\ [Next]_vars => Matched'
  BY MatchedStep, ClientNext DEF AnswerInv
<1>3. Matched => ReplyMatch
  BY DEF Matched, ReplyMatch, May
<1> QED BY <1>1, <1>2, <1>3, AnswerInvariant, PTL DEF Spec
-----------------------------------------------------------------------------
(***************************************************************************)
(* The transport implements the abstract request/reply cycle.              *)
(***************************************************************************)

RpcStep == R!Next \/ UNCHANGED R!vars

LEMMA Stutters ==
  ASSUME \A k \in Requests : st'[k] = st[k] /\ ran'[k] = ran[k]
  PROVE  RpcStep
  BY DEF RpcStep, R!vars

\* Requests have one outcome: what the caller is told follows a step of Rpc.
LEMMA OneOutcome ==
  ASSUME CallInv, NEW k \in Requests, NEW x, st' = [st EXCEPT ![k] = x], ran' = ran,
         \/ st[k] = "idle" /\ x \in {"wait", "rejected"}
         \/ st[k] = "wait" /\ x \in {"error", "rejected"}
         \/ st[k] = "wait" /\ x = "ok" /\ ran[k] # {}
  PROVE  RpcStep
<1> DEFINE phase == [j \in Requests |-> st[j]]
           runs  == [j \in Requests |-> ran[j]]
<1>1. phase' = [phase EXCEPT ![k] = x] /\ runs' = runs /\ phase[k] = st[k] /\ runs[k] = ran[k]
  BY DEF CallInv, TypeOK, Requests
<1>2. CASE st[k] = "idle" /\ x \in {"wait", "rejected"}
  <2>1. R!Issue(k)
    BY <1>1, <1>2 DEF R!Issue
  <2> QED BY <2>1 DEF RpcStep, R!Next
<1>3. CASE st[k] = "wait" /\ x = "error"
  <2>1. R!Refuse(k)
    BY <1>1, <1>3 DEF R!Refuse
  <2> QED BY <2>1 DEF RpcStep, R!Next
<1>4. CASE st[k] = "wait" /\ x = "rejected"
  <2>1. phase' = [j \in Requests |-> IF j \in {k} THEN "rejected" ELSE phase[j]]
    BY <1>1, <1>4
  <2>2. R!Reject({k})
    BY <1>1, <1>4, <2>1 DEF R!Reject
  <2> QED BY <2>2 DEF RpcStep, R!Next
<1>5. CASE st[k] = "wait" /\ x = "ok" /\ ran[k] # {}
  <2>1. R!Succeed(k)
    BY <1>1, <1>5 DEF R!Succeed
  <2> QED BY <2>1 DEF RpcStep, R!Next
<1> QED BY <1>2, <1>3, <1>4, <1>5

LEMMA Executes ==
  ASSUME CallInv, NEW m \in net \cup jobs, NEW r, Answers(m, r)
  PROVE  RpcStep
<1>1. /\ m.call \in Calls /\ m.copy \in Copies /\ m.copy \notin ran[m.call]
      /\ st[m.call] # "idle" /\ st' = st
  <2>1. net \cup jobs \subseteq Datagrams
    BY DEF CallInv, TypeOK
  <2>2. m.call \in Calls /\ m.copy \in Copies
    BY ONLY <2>1 DEF Datagrams
  <2>3. m.dir = "req" /\ st' = st
    BY DEF Answers
  <2>4. m.copy \notin ran[m.call]
    BY <2>3 DEF CallInv, CopyInv
  <2>5. st[m.call] # "idle"
    BY <2>2 DEF CallInv, IdleInv, Unsent
  <2> QED BY <2>2, <2>3, <2>4, <2>5
<1>2. CASE ran' = ran \/ m.call \notin Requests
  <2>1. \A k \in Requests : ran'[k] = ran[k]
    BY <1>2 DEF Answers, CallInv, TypeOK, Requests
  <2> QED BY <1>1, <2>1, Stutters
<1>3. CASE ran' # ran /\ m.call \in Requests
  <2> DEFINE runs == [j \in Requests |-> ran[j]]
  <2>1. ran' = [ran EXCEPT ![m.call] = @ \cup {m.copy}]
    BY <1>3 DEF Answers
  <2>2. runs' = [runs EXCEPT ![m.call] = @ \cup {m.copy}]
    BY <1>3, <2>1 DEF CallInv, TypeOK, Requests
  <2>3. R!Execute(m.call)
    BY <1>1, <1>3, <2>2 DEF R!Execute
  <2> QED BY <1>3, <2>3 DEF RpcStep, R!Next
<1> QED BY <1>2, <1>3

LEMMA Rejects ==
  ASSUME CallInv, NEW c \in Clients, Errors(c)
  PROVE  RpcStep
<1> DEFINE phase == [j \in Requests |-> st[j]]
<1>1. ran' = ran
  BY DEF Errors, ErrorHandler
<1>2. PICK K \in SUBSET Requests : K = {k \in Requests : k \in Entered(c) /\ st[k] = "wait"}
  OBVIOUS
<1>3. \A k \in Requests : st'[k] = IF k \in K THEN "rejected" ELSE st[k]
  BY <1>2, ErrorsState DEF CallInv, Requests
<1>4. CASE K = {}
  BY <1>1, <1>3, <1>4, Stutters
<1>5. CASE K # {}
  <2>1. phase' = [k \in Requests |-> IF k \in K THEN "rejected" ELSE phase[k]]
    BY <1>3
  <2>2. R!Reject(K)
    BY <1>1, <1>2, <1>5, <2>1 DEF R!Reject
  <2> QED BY <2>2 DEF RpcStep, R!Next
<1> QED BY <1>4, <1>5

LEMMA RpcNext ==
  ASSUME CallInv, [Next]_vars
  PROVE  RpcStep
<1>0. ClientStep /\ DatagramStep
  BY ClientNext, DatagramNext DEF CallInv
<1>1. ASSUME NEW k \in Calls, NEW s \in Seqs, Registers(k, s) PROVE RpcStep
  <2>1. PICK x \in {"wait", "rejected"} : st' = [st EXCEPT ![k] = x]
    BY <1>1 DEF Registers
  <2>2. ran' = ran /\ (k \in Requests => st[k] = "idle")
    BY <1>1 DEF Registers, Requests
  <2>3. CASE k \in Requests
    BY <2>1, <2>2, <2>3, OneOutcome
  <2>4. CASE k \notin Requests
    BY <2>1, <2>2, <2>4, Stutters DEF Requests, CallInv, TypeOK
  <2> QED BY <2>3, <2>4
<1>2. ASSUME NEW k \in Calls, Begins(k) PROVE RpcStep
  <2>1. k \notin Requests /\ ran' = ran /\ \A j \in Calls \ {k} : st'[j] = st[j]
    BY <1>2 DEF Begins, Requests, CallInv, TypeOK
  <2> QED BY <2>1, Stutters DEF Requests
<1>3. ASSUME NEW c \in Clients, NEW m \in net, NEW k \in Calls, Resolves(c, m, k)
      PROVE  RpcStep
  <2>1. CASE st' = st
    BY <1>3, <2>1, Stutters DEF Resolves, Requests
  <2>2. CASE st' # st
    <3>1. PICK x \in {"ok", "error", "rejected"} :
             st' = [st EXCEPT ![k] = x] /\ (x = "ok" => m.cc = "ok")
      BY <1>3, <2>2 DEF Resolves
    <3>2. st[k] = "wait" /\ ran' = ran /\ m.dir = "rep"
      BY <1>3, <2>2 DEF Resolves
    <3>3. CASE k \notin Requests
      BY <3>1, <3>2, <3>3, Stutters DEF Requests, CallInv, TypeOK
    <3>4. CASE k \in Requests
      <4>1. m.call = k
        BY <1>3, <3>4, OwnAnswer DEF Requests, Connects
      <4>2. x = "ok" => ran[k] # {}
        BY <3>1, <3>2, <4>1 DEF CallInv, CopyInv
      <4> QED BY <3>1, <3>2, <3>4, <4>2, OneOutcome
    <3> QED BY <3>3, <3>4
  <2> QED BY <2>1, <2>2
<1>4. ASSUME NEW k \in Calls, TimerFires(k) PROVE RpcStep
  <2>1. ran' = ran /\ st' = [st EXCEPT ![k] = IF st[k] = "wait" THEN "rejected" ELSE st[k]]
    BY <1>4 DEF TimerFires
  <2>2. CASE k \in Requests /\ st[k] = "wait"
    BY <2>1, <2>2, OneOutcome
  <2>3. CASE ~ (k \in Requests /\ st[k] = "wait")
    BY <2>1, <2>3, Stutters DEF Requests, CallInv, TypeOK
  <2> QED BY <2>2, <2>3
<1>5. ASSUME Quiets PROVE RpcStep
  <2>1. CASE ran' = ran
    BY <1>5, <2>1, Stutters DEF Quiets
  <2>2. CASE ran' # ran
    <3>1. \E m \in net \cup jobs : \E r : Answers(m, r)
      BY <1>0, <2>2 DEF DatagramStep, Fewer, Issues, Doubles
    <3> QED BY <3>1, Executes
  <2> QED BY <2>1, <2>2
<1> QED BY <1>0, <1>1, <1>2, <1>3, <1>4, <1>5, Rejects DEF ClientStep

\* Calls of _call() have one outcome each, success only after an execution and
\* one execution at most for each copy of their request, if sequence numbers
\* are reused only when they are quiet.
THEOREM Implements == QuietReuse => (Spec => RpcSpec)
<1> SUFFICES ASSUME QuietReuse PROVE Spec => RpcSpec
  OBVIOUS
<1>1. Init => R!Init
  BY DEF Init, R!Init, Requests
<1>2. CallInv /\ [Next]_vars => [R!Next]_(R!vars)
  BY RpcNext DEF RpcStep
<1> QED BY <1>1, <1>2, ReuseInvariant, PTL DEF Spec, RpcSpec, R!Spec
=============================================================================
