-------------------------------- MODULE Rpc --------------------------------
(***************************************************************************)
(* What the NCP transport promises of a call, without packets, sequence    *)
(* numbers or timers: ncp-packet.js calls it "the classic request/reply    *)
(* cycle" over UDP.  A call is issued once and the caller learns one       *)
(* outcome.  The server executes it once for each copy of its request that *)
(* arrives, before or after the caller has given up; a successful outcome  *)
(* means at least one execution.                                           *)
(***************************************************************************)

CONSTANTS Calls,    \* the calls a program may issue
          Copies    \* the copies of a request the network may deliver

VARIABLES phase,    \* phase[k]: where call k stands, for its caller
          runs      \* runs[k]: the copies of k the server has executed

vars == <<phase, runs>>

Outcomes == {"ok", "error", "rejected"}

Init == /\ phase = [k \in Calls |-> "idle"]
        /\ runs  = [k \in Calls |-> {}]

\* Issue hands the call to the network, or rejects it on the spot when the
\* program has no socket to send it from.
Issue(k) == /\ phase[k] = "idle"
            /\ \E p \in {"wait", "rejected"} : phase' = [phase EXCEPT ![k] = p]
            /\ UNCHANGED runs

Execute(k) == /\ phase[k] # "idle"
              /\ \E t \in Copies \ runs[k] :
                    runs' = [runs EXCEPT ![k] = @ \cup {t}]
              /\ UNCHANGED phase

Succeed(k) == /\ phase[k] = "wait"
              /\ runs[k] # {}
              /\ phase' = [phase EXCEPT ![k] = "ok"]
              /\ UNCHANGED runs

Refuse(k) == /\ phase[k] = "wait"
             /\ phase' = [phase EXCEPT ![k] = "error"]
             /\ UNCHANGED runs

\* One socket error rejects every call that waits on the client.
Reject(K) == /\ K # {}
             /\ \A k \in K : phase[k] = "wait"
             /\ phase' = [k \in Calls |-> IF k \in K THEN "rejected" ELSE phase[k]]
             /\ UNCHANGED runs

Next == \/ \E k \in Calls : Issue(k) \/ Execute(k) \/ Succeed(k) \/ Refuse(k)
        \/ \E K \in SUBSET Calls : Reject(K)

Spec == Init /\ [][Next]_vars
=============================================================================
