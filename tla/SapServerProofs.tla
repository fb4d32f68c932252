-------------------------- MODULE SapServerProofs --------------------------
(***************************************************************************)
(* Theorems about SapServer, for every set of names and every bound.       *)
(***************************************************************************)
EXTENDS SapServer, TLAPS

(***************************************************************************)
(* OneBroadcaster is not inductive: what makes an interval must find none. *)
(* That is the fallback, while its timer is armed, and an acknowledgement, *)
(* while there was none before; a socket is there only after the server's, *)
(* and one that is being bound has a promise nobody settled yet.           *)
(***************************************************************************)

NoneYet == ackTimer \/ ~ registered => intervals = {}

ServerFirst ==
    /\ sock # "none" \/ promise # "none" => ncp
    /\ boot \in {"volumes", "ncp"} => sock = "none" /\ promise = "none"
    /\ sock = "binding" => promise = "pending"

SapInv == TypeOK /\ made \in Nat /\ OneBroadcaster /\ NoneYet /\ ServerFirst

\* The type of the entry is a word.
LEMMA TypeInWords == TypeRead(ServerObj) \in Words
<1>1. ServerObj[3] = 0 /\ ServerObj[4] = 49
  BY DEF ServerObj
<1>2. TypeRead(ServerObj) = 0 * 256 + 49
  BY <1>1 DEF TypeRead, Word
<1>3. 49 \in 0 .. 256 * 256 - 1
  OBVIOUS
<1> QED
  BY <1>2, <1>3 DEF Words

LEMMA InitInv == Init => SapInv
<1> SUFFICES ASSUME Init PROVE SapInv
  OBVIOUS
<1>1. TypeOK /\ made \in Nat
  BY DEF Init, TypeOK
<1>2. OneBroadcaster
  BY DEF Init, OneBroadcaster
<1>3. NoneYet /\ ServerFirst
  BY DEF Init, NoneYet, ServerFirst
<1> QED
  BY <1>1, <1>2, <1>3 DEF SapInv

\* What starts the broadcasts of a socket that is bound leaves one interval,
\* the one _timer holds.
LEMMA Started ==
  ASSUME SapInv, StartBroadcasting, sock = "bound", intervals = {}
  PROVE  /\ made' \in Nat /\ timer' = made' /\ intervals' = {made'}
         /\ intervals' \subseteq 1 .. made' /\ timer' \in intervals' \cup {0}
         /\ told' = {name} /\ alive' = alive
  BY DEF SapInv, StartBroadcasting, Broadcast

\* An interval, and a program that announces, find a socket.
LEMMA Sent ==
  ASSUME Broadcast, sock = "bound"
  PROVE  told' = {name} /\ alive' = alive
  BY DEF Broadcast

LEMMA NextInv == SapInv /\ [Next]_vars => SapInv'
<1> SUFFICES ASSUME SapInv, [Next]_vars PROVE SapInv'
  OBVIOUS
<1> USE DEF SapInv, TypeOK, OneBroadcaster, NoneYet, ServerFirst
<1>1. ASSUME VolumesReady \/ ServerFails PROVE SapInv'
  <2>1. TypeOK' /\ made' \in Nat
    <3>1. CASE VolumesReady
      BY <3>1 DEF VolumesReady, start, sends
    <3>2. CASE ServerFails
      BY <3>2 DEF ServerFails, start, sends
    <3> QED
      BY <1>1, <3>1, <3>2
  <2>2. OneBroadcaster'
    BY <1>1 DEF VolumesReady, ServerFails, start, sends
  <2>3. NoneYet'
    BY <1>1 DEF VolumesReady, ServerFails, start, sends
  <2>4. ServerFirst'
    BY <1>1 DEF VolumesReady, ServerFails, start, sends
  <2> QED
    BY <2>1, <2>2, <2>3, <2>4
<1>2. ASSUME Returns PROVE SapInv'
  <2>1. TypeOK' /\ made' \in Nat
    BY <1>2 DEF Returns, start, sends
  <2>2. OneBroadcaster'
    BY <1>2 DEF Returns, start, sends
  <2>3. NoneYet'
    BY <1>2 DEF Returns, start, sends
  <2>4. ServerFirst'
    BY <1>2 DEF Returns, start, sends
  <2> QED
    BY <2>1, <2>2, <2>3, <2>4
<1>3. ASSUME ServerStarts PROVE SapInv'
  <2>1. TypeOK' /\ made' \in Nat
    <3>1. TypeRead(ServerObj) \in Words
      BY TypeInWords
    <3> QED
      BY <1>3, <3>1 DEF ServerStarts, Starting, start, sends
  <2>2. OneBroadcaster'
    BY <1>3 DEF ServerStarts, Starting, start, sends
  <2>3. NoneYet'
    BY <1>3 DEF ServerStarts, Starting, start, sends
  <2>4. ServerFirst'
    BY <1>3 DEF ServerStarts, Starting, start, sends
  <2> QED
    BY <2>1, <2>2, <2>3, <2>4
<1>4. ASSUME Bound PROVE SapInv'
  <2>1. intervals = {}
    BY <1>4 DEF Bound
  <2>2. TypeOK' /\ made' \in Nat
    BY <1>4, <2>1 DEF Bound, sends
  <2>3. OneBroadcaster'
    BY <1>4, <2>1 DEF Bound, sends
  <2>4. NoneYet'
    BY <1>4, <2>1 DEF Bound, sends
  <2>5. ServerFirst'
    BY <1>4, <2>1 DEF Bound, sends
  <2> QED
    BY <2>2, <2>3, <2>4, <2>5
<1>5. ASSUME SocketError PROVE SapInv'
  BY <1>5 DEF SocketError, Settles, sends
<1>6. ASSUME Acknowledged PROVE SapInv'
  <2>1. CASE pendingResolve
    <3>1. StartBroadcasting /\ sock = "bound" /\ intervals = {}
      BY <1>6, <2>1 DEF Acknowledged
    <3>2. /\ made' \in Nat /\ timer' = made' /\ intervals' = {made'}
          /\ intervals' \subseteq 1 .. made' /\ timer' \in intervals' \cup {0}
          /\ told' = {name} /\ alive' = alive
      BY <3>1, Started
    <3>3. TypeOK' /\ made' \in Nat
      BY <1>6, <2>1, <3>1, <3>2 DEF Acknowledged, TimerAfterAck, Settles
    <3>4. OneBroadcaster'
      BY <1>6, <2>1, <3>1, <3>2 DEF Acknowledged, TimerAfterAck, Settles
    <3>5. NoneYet'
      BY <1>6, <2>1, <3>1, <3>2 DEF Acknowledged, TimerAfterAck, Settles
    <3>6. ServerFirst'
      BY <1>6, <2>1, <3>1, <3>2 DEF Acknowledged, TimerAfterAck, Settles
    <3> QED
      BY <3>3, <3>4, <3>5, <3>6
  <2>2. CASE ~ pendingResolve
    <3>1. TypeOK' /\ made' \in Nat
      BY <1>6, <2>2 DEF Acknowledged, sends
    <3>2. OneBroadcaster'
      BY <1>6, <2>2 DEF Acknowledged, sends
    <3>3. NoneYet' /\ ServerFirst'
      BY <1>6, <2>2 DEF Acknowledged, sends
    <3> QED
      BY <3>1, <3>2, <3>3
  <2> QED
    BY <2>1, <2>2
<1>7. ASSUME Fallback PROVE SapInv'
  <2>1. StartBroadcasting /\ sock = "bound" /\ intervals = {}
    BY <1>7 DEF Fallback, FallbackDue
  <2>2. /\ made' \in Nat /\ timer' = made' /\ intervals' = {made'}
        /\ intervals' \subseteq 1 .. made' /\ timer' \in intervals' \cup {0}
        /\ told' = {name} /\ alive' = alive
    BY <2>1, Started
  <2>3. TypeOK' /\ made' \in Nat
    BY <1>7, <2>1, <2>2 DEF Fallback, FallbackDue, Settles
  <2>4. OneBroadcaster'
    BY <1>7, <2>1, <2>2 DEF Fallback, FallbackDue, Settles
  <2>5. NoneYet'
    BY <1>7, <2>1, <2>2 DEF Fallback, FallbackDue, Settles
  <2>6. ServerFirst'
    BY <1>7, <2>1, <2>2 DEF Fallback, FallbackDue, Settles
  <2> QED
    BY <2>3, <2>4, <2>5, <2>6
<1>8. ASSUME NEW i \in intervals, Tick(i) PROVE SapInv'
  <2>1. sock = "bound" /\ told' = {name} /\ alive' = alive
    BY <1>8, Sent DEF Tick
  <2> QED
    BY <1>8, <2>1 DEF Tick, start
<1>9. ASSUME Announce PROVE SapInv'
  <2>1. sock = "bound" /\ told' = {name} /\ alive' = alive
    BY <1>9, Sent DEF Announce, Held
  <2> QED
    BY <1>9, <2>1 DEF Announce, start
<1>10. ASSUME Stop PROVE SapInv'
  <2>1. TypeOK' /\ made' \in Nat
    BY <1>10 DEF Stop, Held, TimerAfterStop
  <2>2. OneBroadcaster'
    BY <1>10 DEF Stop, Held, TimerAfterStop
  <2>3. NoneYet' /\ ServerFirst'
    BY <1>10 DEF Stop, Held, TimerAfterStop
  <2> QED
    BY <2>1, <2>2, <2>3
<1>11. ASSUME StartAgain PROVE SapInv'
  BY <1>11 DEF StartAgain, Starting, sends
<1>12. ASSUME NEW n \in Names, SetServerName(n) PROVE SapInv'
  BY <1>12 DEF SetServerName, start, sends
<1>13. CASE UNCHANGED vars
  BY <1>13 DEF vars, start, sends
<1> QED
  BY <1>1, <1>2, <1>3, <1>4, <1>5, <1>6, <1>7, <1>8, <1>9, <1>10, <1>11, <1>12,
     <1>13 DEF Next

LEMMA SapInvariant == Spec => []SapInv
  BY InitInv, NextInv, PTL DEF Spec

\* The start of a server and its SAP broadcaster keep their types.
THEOREM TypeCorrect == Spec => []TypeOK
<1>1. SapInv => TypeOK
  BY DEF SapInv
<1> QED BY <1>1, SapInvariant, PTL

\* Whatever the relay acknowledges and whenever, however many starts, stops and
\* renames there are: one interval broadcasts, the one stop() ends, none after
\* a stop, and no timer of nw-sap.js meets a missing socket.
THEOREM Broadcaster == Spec => []OneBroadcaster
<1>1. SapInv => OneBroadcaster
  BY DEF SapInv
<1> QED BY <1>1, SapInvariant, PTL
=============================================================================
