-------------------------- MODULE MCNcpTransport --------------------------
(* Instances of NcpTransport for TLC: who issues which call. *)
EXTENDS NcpTransport

CONSTANTS a, b, aConnect, aService, aFile, aAgain, aLogout, bConnect, bService,
          bDestroy

CallOwner ==
    [k \in Calls |-> IF k \in {bConnect, bService, bDestroy} THEN b ELSE a]

CallKind ==
    [k \in Calls |-> CASE k \in {aConnect, bConnect, aAgain} -> "connect"
                       [] k = aLogout  -> "logout"
                       [] k = aFile    -> "file"
                       [] k = bDestroy -> "destroy"
                       [] OTHER        -> "service"]

\* The same calls, with aAgain a second service request.
CallKindBusy == [k \in Calls |-> IF k = aAgain THEN "service" ELSE CallKind[k]]
=============================================================================
