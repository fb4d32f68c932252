-------------------------- MODULE BroadcastStore --------------------------
(***************************************************************************)
(* Broadcast messages: class BroadcastStore and the 0x21 requests of       *)
(* ncp-server.js, with the encoding sendBroadcast of ncp-client.js gives   *)
(* them.  The client sends the count, all connection numbers and then one  *)
(* length and one message; the server reads a number, a length and a       *)
(* message for each connection.  The two agree on a single target only.    *)
(***************************************************************************)
EXTENDS Integers, SequencesExt

CONSTANTS
    Conns,      \* connection numbers of the stations
    Messages,   \* messages, ASCII texts of the length sendBroadcast cuts at
    MaxTargets, \* bound: connections named by one SEND
    MaxSends    \* bound: SEND requests

\* The largest number of two bytes.
MaxWord == 65535

\* The texts that 'ascii' encodes and decodes without loss.
Texts == Seq(0 .. 127)

ASSUME ParametersAssumption ==
    /\ Conns \subseteq 1 .. MaxWord
    /\ \A msg \in Messages : msg \in Texts /\ Len(msg) <= 58
    /\ MaxTargets \in 0 .. 255
    /\ MaxSends \in Nat

VARIABLES
    messages,  \* _messages: connection -> messages waiting for it
    modes,     \* _modes: connection -> 0 accept, 2 deny
    sends,     \* SEND requests so far
    accepted,  \* history: accepted[c], what was put in c's queue, in order
    received,  \* history: received[c], what GET answered c with, in order
    named,     \* history: named[c], what the programs addressed to c
    down       \* a decoding error has ended the process

vars == <<messages, modes, sends, accepted, received, named, down>>

Init ==
    /\ messages = [c \in {} |-> <<>>]
    /\ modes    = [c \in Conns |-> 0]
    /\ sends    = 0
    /\ accepted = [c \in Conns |-> <<>>]
    /\ received = [c \in Conns |-> <<>>]
    /\ named    = [c \in Conns |-> {}]
    /\ down     = FALSE
-----------------------------------------------------------------------------
(***************************************************************************)
(* Encoding and decoding.                                                  *)
(***************************************************************************)

Word(n) == <<n \div 256, n % 256>>

\* sendBroadcast: the count, every target, then one length and one message.
Encode(targets, msg) ==
    <<Len(targets)>> \o FlattenSeq([i \in 1 .. Len(targets) |-> Word(targets[i])])
                     \o <<Len(msg)>> \o msg

\* One round of the server's loop at offset "off": the target, the message
\* (slice() stops at the end of the data) and the offset it leaves.  Reading
\* the target beyond the end throws.
Readable(data, off) == off + 1 <= Len(data)

Target(data, off) == data[off] * 256 + data[off + 1]

\* toString('ascii') drops the top bit of every byte.
Ascii(s) == [i \in 1 .. Len(s) |-> s[i] % 128]

\* A variant: the message is cut one byte early, its length with it.
MessageAtEarly(data, off) ==
    IF off + 2 > Len(data) THEN <<>>
    ELSE Ascii(SubSeq(data, off + 2, Min({off + 1 + data[off + 2], Len(data)})))

MessageAt(data, off) ==
    IF off + 2 > Len(data) THEN <<>>
    ELSE Ascii(SubSeq(data, off + 3, Min({off + 2 + data[off + 2], Len(data)})))

\* The offset past the end, where readUInt16BE throws, stands for NaN.
After(data, off) ==
    IF off + 2 > Len(data) THEN Len(data) + 1 ELSE off + 3 + data[off + 2]

\* What one round makes of the state p of the loop; after an exception the
\* rest is left alone.
Round(data, p) ==
    IF ~ p.ok \/ ~ Readable(data, p.off) THEN [p EXCEPT !.ok = FALSE]
    ELSE [off |-> After(data, p.off),
          out |-> Append(p.out, [to  |-> Target(data, p.off),
                                 msg |-> MessageAt(data, p.off)]),
          ok  |-> TRUE]

\* The loop: as many rounds as the count says.
Decode(data) ==
    LET round[i \in 0 .. data[1]] ==
          IF i = 0 THEN [off |-> 2, out |-> <<>>, ok |-> TRUE]
          ELSE Round(data, round[i - 1])
    IN  round[data[1]]
-----------------------------------------------------------------------------
(***************************************************************************)
(* The store.                                                              *)
(***************************************************************************)

Mode(c)    == IF c \in DOMAIN modes THEN modes[c] ELSE 0
Waiting(c) == IF c \in DOMAIN messages THEN messages[c] ELSE <<>>

\* The messages of a list of deliveries that are for connection c.
Addressed(out, c) ==
    FlattenSeq([i \in 1 .. Len(out) |-> IF out[i].to = c THEN <<out[i].msg>> ELSE <<>>])

\* A variant: the first message is skipped.
DeliveriesButFirst(out, c) ==
    IF Mode(c) = 2 THEN <<>>
    ELSE SubSeq(Addressed(out, c), 2, Len(Addressed(out, c)))

\* What a list of deliveries appends to the queue of connection c: everything
\* for c, unless c denies messages.
Deliveries(out, c) == IF Mode(c) = 2 THEN <<>> ELSE Addressed(out, c)

\* SEND: the loop delivers as it reads.  The reply gives result 0 for each
\* connection named; an exception ends the process instead.
Send(targets, msg) ==
    LET d == Decode(Encode(targets, msg))
        sentTo == {d.out[i].to : i \in 1 .. Len(d.out)}
        hit == {c \in sentTo : Mode(c) # 2}
    IN
    /\ sends < MaxSends
    /\ sends' = sends + 1
    /\ named' = [c \in Conns |-> IF c \in ToSet(targets) THEN named[c] \cup {msg} ELSE named[c]]
    /\ messages' = [c \in DOMAIN messages \cup hit |-> Waiting(c) \o Deliveries(d.out, c)]
    /\ accepted' = [c \in Conns |-> accepted[c] \o Deliveries(d.out, c)]
    /\ down' = ~ d.ok
    /\ UNCHANGED <<modes, received>>

\* A variant: the messages stay in the queue.
GetKeeping(c) ==
    /\ Waiting(c) # <<>>
    /\ received' = [received EXCEPT ![c] = Append(@, Head(Waiting(c)))]
    /\ UNCHANGED <<messages, modes, sends, accepted, named, down>>

\* GET answers the oldest message and forgets the others.
Get(c) ==
    /\ Waiting(c) # <<>>
    /\ received' = [received EXCEPT ![c] = Append(@, Head(Waiting(c)))]
    /\ messages' = [x \in DOMAIN messages \ {c} |-> messages[x]]
    /\ UNCHANGED <<modes, sends, accepted, named, down>>

SetMode(c, mode) ==
    /\ modes' = [modes EXCEPT ![c] = mode]
    /\ UNCHANGED <<messages, sends, accepted, received, named, down>>

Targets == UNION {[1 .. n -> Conns] : n \in 1 .. MaxTargets}

Next ==
    /\ ~ down
    /\ \/ \E targets \in Targets, msg \in Messages : Send(targets, msg)
       \/ \E c \in Conns : Get(c) \/ SetMode(c, 0) \/ SetMode(c, 2)

Spec == Init /\ [][Next]_vars
-----------------------------------------------------------------------------
(***************************************************************************)
(* Properties.                                                             *)
(***************************************************************************)

\* Type invariant; a queue that exists is not empty.
TypeOK ==
    /\ DOMAIN messages \subseteq 0 .. MaxWord
    /\ messages \in [DOMAIN messages -> Seq(Texts) \ {<<>>}]
    /\ modes \in [Conns -> {0, 2}]
    /\ sends \in 0 .. MaxSends
    /\ accepted \in [Conns -> Seq(Texts)]
    /\ received \in [Conns -> Seq(Texts)]
    /\ named \in [Conns -> SUBSET Messages]
    /\ down \in BOOLEAN

\* s is t with some elements left out: position i of s is position place[i] of t.
IsSubsequence(s, t) ==
    \E place \in [1 .. Len(s) -> 1 .. Len(t)] :
        /\ \A i \in 1 .. Len(s) : s[i] = t[place[i]]
        /\ \A i, j \in 1 .. Len(s) : i < j => place[i] < place[j]

\* A station receives, in the order they were queued for it, some of the
\* messages that were: GET never answers a message twice, out of order or after
\* a later one was discarded with it.
ReceivedInOrder ==
    \A c \in Conns : IsSubsequence(received[c] \o Waiting(c), accepted[c])

\* A SEND with one target hands the message, byte for byte, to that station,
\* unless it denies messages, and to no other; the process goes on.  Encoder and
\* decoder agree on it.
SingleTargetExact ==
    [][\A c \in Conns, msg \in Messages : Send(<<c>>, msg) =>
         /\ ~ down'
         /\ \A x \in Conns :
               accepted'[x] = IF x = c /\ Mode(c) # 2 THEN Append(accepted[x], msg)
                              ELSE accepted[x]]_vars

\* ncp-client.js:350 says of sendBroadcast "connNos is an array of connection
\* numbers": a message reaches no station but those it was addressed to.
ReachesAddressed ==
    \A c \in Conns : ToSet(accepted[c]) \subseteq named[c]
=============================================================================
