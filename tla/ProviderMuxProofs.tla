------------------------- MODULE ProviderMuxProofs -------------------------
(***************************************************************************)
(* Theorems about the circuit breakers, for any chain, any number of calls *)
(* and any threshold: the type invariant, that a half-open breaker always  *)
(* has a request on its way, that a failing provider is left to rest       *)
(* between two requests, and that a breaker opens on a burst only.         *)
(***************************************************************************)
EXTENDS ProviderMux, TLAPS

\* What a breaker remembers of its last probe: nothing while it is closed; an
\* open one was opened after that probe; a half-open one has sent its probe.
ProbeInv ==
    /\ probed \in [Providers -> Int]
    /\ \A p \in Providers :
        /\ probed[p] <= now
        /\ state[p] = "closed" => probed[p] = Never
        /\ state[p] = "open" => probed[p] <= openedAt[p]
        /\ state[p] = "half-open" => probesSent[p] >= 1

MuxInv == TypeOK /\ ProbeOutstanding /\ ProbeInv

States == {"closed", "open", "half-open"}

\* The chain maps positions to providers.
LEMMA ChainFacts ==
  /\ Len(Chain) \in Nat
  /\ \A i \in Positions : Chain[i] \in Providers
  /\ \A i, j \in Positions : Chain[i] = Chain[j] => i = j
  /\ Threshold \in Nat \ {0} /\ Probes \in Nat \ {0}
  /\ Window \in Nat /\ OpenFor \in Nat /\ MaxTime \in Nat
<1>1. Chain \in Seq(Providers)
  BY ParametersAssumption
<1>2. Len(Chain) \in Nat
  BY <1>1
<1> QED
  BY <1>2, ParametersAssumption DEF Providers, Positions

\* What one breaker makes of being asked: the fields of any provider p, as a
\* call that goes down the chain from position i to q leaves them.
StateGone(p, i, q) == IF p \in Asked(i, q) THEN StateAsked(p) ELSE state[p]

\* A breaker that is asked and is not closed lets its probe through when it
\* turns half open, so that the loop stops there.
LEMMA AskedStops ==
  ASSUME TypeOK, NEW i \in 1 .. Len(Chain) + 1, NEW q \in 0 .. Len(Chain),
         FirstAllowed(i, q), NEW p \in Asked(i, q), Rested(p)
  PROVE  q # 0 /\ Chain[q] = p
<1>1. ProbesBefore(p) = 0 /\ 0 < Probes
  BY ChainFacts DEF ProbesBefore
<1>2. Allowed(p)
  BY <1>1 DEF Allowed, ProbeLeft, HalfOpen
<1>3. PICK j \in i .. (IF q = 0 THEN Len(Chain) ELSE q) : p = Chain[j]
  BY DEF Asked
<1>4. Len(Chain) \in Nat
  BY ChainFacts
<1>5. CASE q = 0
  <2>1. j \in i .. Len(Chain)
    BY <1>3, <1>5
  <2>2. \A l \in i .. Len(Chain) : ~ Allowed(Chain[l])
    BY <1>5, <1>4 DEF FirstAllowed
  <2> QED
    BY <2>1, <2>2, <1>2, <1>3
<1>6. CASE q # 0
  <2>1. j \in i .. q
    BY <1>3, <1>6
  <2>2. \A l \in i .. q - 1 : ~ Allowed(Chain[l])
    BY <1>6 DEF FirstAllowed
  <2>3. j \notin i .. q - 1
    BY <2>2, <1>2, <1>3
  <2>4. j = q
    BY <2>1, <2>3, <1>4
  <2> QED
    BY <2>4, <1>3, <1>6
<1> QED
  BY <1>5, <1>6

\* A provider a call goes on to has let it through: it is closed, rested, or
\* half open with a probe left.
LEMMA LetThrough ==
  ASSUME NEW i \in 1 .. Len(Chain) + 1, NEW q \in 1 .. Len(Chain), FirstAllowed(i, q)
  PROVE  Allowed(Chain[q]) /\ q \in i .. Len(Chain) /\ Chain[q] \in Asked(i, q)
<1>1. Len(Chain) \in Nat /\ q # 0
  BY ChainFacts
<1>2. Allowed(Chain[q]) /\ q \in i .. Len(Chain)
  BY <1>1 DEF FirstAllowed
<1>3. q \in i .. q
  BY <1>2, <1>1
<1> QED
  BY <1>1, <1>2, <1>3 DEF Asked

\* What a call that goes on leaves of provider p, whose other fields and whose
\* earlier requests it does not touch.
LEMMA GoneProvider ==
  ASSUME MuxInv, NEW k \in Calls, NEW i \in 1 .. Len(Chain) + 1,
         NEW q \in 0 .. Len(Chain), GoesOn(k, i, q), NEW p \in Providers
  PROVE  /\ StateGone(p, i, q) \in States
         /\ StateGone(p, i, q) = "closed" <=> state[p] = "closed"
         /\ probesSent'[p] \in 0 .. Probes
         /\ probed'[p] \in Int /\ probed'[p] <= now
         /\ StateGone(p, i, q) = "closed" => probed'[p] = Never
         /\ StateGone(p, i, q) = "open" => probed'[p] <= openedAt[p]
         /\ StateGone(p, i, q) = "half-open" => probesSent'[p] >= 1
         /\ StateGone(p, i, q) = "half-open" =>
               state[p] = "half-open" \/ (q # 0 /\ Chain[q] = p)
<1> DEFINE S == StateGone(p, i, q)
<1>1. /\ state[p] \in States /\ now \in Nat /\ openedAt[p] \in 0 .. now
      /\ probesSent[p] \in 0 .. Probes /\ Probes \in Nat \ {0} /\ Len(Chain) \in Nat
  BY ChainFacts DEF MuxInv, TypeOK, States
<1>2. /\ probed[p] \in Int /\ probed[p] <= now
      /\ state[p] = "closed" => probed[p] = Never
      /\ state[p] = "open" => probed[p] <= openedAt[p]
      /\ state[p] = "half-open" => probesSent[p] >= 1
  BY DEF MuxInv, ProbeInv
<1>3. FirstAllowed(i, q)
  BY DEF GoesOn
<1>4. probesSent'[p] = IF p \in Asked(i, q) THEN ProbesAsked(p) ELSE probesSent[p]
  BY DEF GoesOn
<1>5. probed'[p] = IF q # 0 /\ p = Chain[q] /\ state[p] # "closed" THEN now ELSE probed[p]
  BY DEF GoesOn
<1>6. /\ S \in States
      /\ S = "closed" <=> state[p] = "closed"
      /\ S = "open" => state[p] = "open" /\ (p \in Asked(i, q) => ~ Rested(p))
      /\ S = "half-open" => state[p] = "half-open" \/ (p \in Asked(i, q) /\ Rested(p))
  BY <1>1 DEF StateGone, StateAsked, Rested, States
<1>7. p \in Asked(i, q) /\ Rested(p) => q # 0 /\ Chain[q] = p
  <2> SUFFICES ASSUME p \in Asked(i, q), Rested(p) PROVE q # 0 /\ Chain[q] = p
    OBVIOUS
  <2> QED
    BY <1>3, AskedStops DEF MuxInv
<1>8. ProbesAsked(p) \in 0 .. Probes
  <2>1. ProbesBefore(p) \in 0 .. Probes
    BY <1>1 DEF ProbesBefore
  <2>2. CASE ProbeLeft(p)
    <3>1. ProbesBefore(p) < Probes /\ ProbesAsked(p) = ProbesBefore(p) + 1
      BY <2>2 DEF ProbeLeft, ProbesAsked
    <3> QED
      BY <3>1, <2>1, <1>1
  <2>3. CASE ~ ProbeLeft(p)
    BY <2>3, <1>1 DEF ProbesAsked
  <2> QED
    BY <2>2, <2>3
<1>9. S = "open" => probed'[p] = probed[p]
  <2> SUFFICES ASSUME S = "open", q # 0, p = Chain[q] PROVE FALSE
    BY <1>5
  <2>1. Allowed(p) /\ p \in Asked(i, q)
    <3>1. q \in 1 .. Len(Chain)
      BY <1>1
    <3> QED
      BY <3>1, <1>3, LetThrough
  <2>2. state[p] = "open" /\ ~ Rested(p)
    BY <1>6, <2>1
  <2> QED
    BY <2>1, <2>2 DEF Allowed, ProbeLeft, HalfOpen
<1>10. S = "half-open" => probesSent'[p] >= 1
  <2> SUFFICES ASSUME S = "half-open" PROVE probesSent'[p] >= 1
    OBVIOUS
  <2>1. CASE p \in Asked(i, q)
    <3>1. CASE ProbeLeft(p)
      <4>1. probesSent'[p] = ProbesBefore(p) + 1
        BY <2>1, <3>1, <1>4 DEF ProbesAsked
      <4>2. ProbesBefore(p) \in 0 .. Probes
        BY <1>1 DEF ProbesBefore
      <4> QED
        BY <4>1, <4>2, <1>1
    <3>2. CASE ~ ProbeLeft(p)
      <4>1. probesSent'[p] = probesSent[p]
        BY <2>1, <3>2, <1>4 DEF ProbesAsked
      <4>2. HalfOpen(p)
        BY <1>6 DEF HalfOpen
      <4>3. ~ Rested(p)
        BY <3>2, <4>2, <1>1 DEF ProbeLeft, ProbesBefore
      <4>4. state[p] = "half-open"
        BY <4>2, <4>3 DEF HalfOpen
      <4> QED
        BY <4>1, <4>4, <1>2
    <3> QED
      BY <3>1, <3>2
  <2>2. CASE p \notin Asked(i, q)
    BY <2>2, <1>2, <1>4, <1>6
  <2> QED
    BY <2>1, <2>2
<1>11. probesSent'[p] \in 0 .. Probes
  BY <1>4, <1>8, <1>1
<1>12. probed'[p] \in Int /\ probed'[p] <= now
  BY <1>5, <1>2, <1>1
<1>13. S = "closed" => probed'[p] = Never
  BY <1>5, <1>2, <1>6
<1>14. S = "open" => probed'[p] <= openedAt[p]
  BY <1>9, <1>2, <1>6
<1> QED
  BY <1>6, <1>7, <1>10, <1>11, <1>12, <1>13, <1>14

\* The initial state.
LEMMA MuxInit == Init => MuxInv
<1> SUFFICES ASSUME Init PROVE MuxInv
  OBVIOUS
<1>1. TypeOK
  BY ChainFacts DEF Init, TypeOK
<1>2. ProbeOutstanding
  BY DEF Init, ProbeOutstanding
<1>3. ProbeInv
  BY DEF Init, ProbeInv, Never
<1> QED
  BY <1>1, <1>2, <1>3 DEF MuxInv

\* A call that goes down the chain leaves the invariant, when the provider it
\* comes from, if any, is no longer half open.
LEMMA GoneStep ==
  ASSUME MuxInv, NEW k \in Calls, NEW i \in 1 .. Len(Chain) + 1,
         NEW q \in 0 .. Len(Chain), GoesOn(k, i, q), NEW f,
         at[k] = 0 \/ Chain[at[k]] = f,
         now' = now,
         \A p \in Providers \ {f} :
             /\ state'[p] = StateGone(p, i, q)
             /\ failures'[p] = failures[p] /\ openedAt'[p] = openedAt[p],
         \A p \in Providers : p = f =>
             /\ state'[p] \in {"closed", "open"}
             /\ state'[p] = "closed" =>
                   failures'[p] < Threshold /\ state[p] = "closed"
             /\ state'[p] = "open" =>
                   openedAt'[p] = IF state[p] = "open" THEN openedAt[p] ELSE now
             /\ q = 0 \/ Chain[q] # p,
         state' = [p \in Providers |-> state'[p]],
         failures' \in [Providers -> Nat],
         windowStart' \in [Providers -> 0 .. now],
         openedAt' \in [Providers -> 0 .. now]
  PROVE  MuxInv'
<1>1. /\ now \in Nat /\ at \in [Calls -> 0 .. Len(Chain)]
      /\ probesSent \in [Providers -> 0 .. Probes]
      /\ Len(Chain) \in Nat
  BY ChainFacts DEF MuxInv, TypeOK
<1>2. at' = [at EXCEPT ![k] = q]
  BY DEF GoesOn
<1>3. \A p \in Providers :
         /\ StateGone(p, i, q) \in States
         /\ StateGone(p, i, q) = "closed" <=> state[p] = "closed"
         /\ probesSent'[p] \in 0 .. Probes
         /\ probed'[p] \in Int /\ probed'[p] <= now
         /\ StateGone(p, i, q) = "closed" => probed'[p] = Never
         /\ StateGone(p, i, q) = "open" => probed'[p] <= openedAt[p]
         /\ StateGone(p, i, q) = "half-open" => probesSent'[p] >= 1
         /\ StateGone(p, i, q) = "half-open" =>
               state[p] = "half-open" \/ (q # 0 /\ Chain[q] = p)
  BY GoneProvider
<1>4. TypeOK'
  <2>1. state' \in [Providers -> States]
    <3>1. ASSUME NEW p \in Providers PROVE state'[p] \in States
      <4>1. CASE p # f
        BY <4>1, <1>3
      <4>2. CASE p = f
        BY <4>2 DEF States
      <4> QED
        BY <4>1, <4>2
    <3> QED
      BY <3>1
  <2>2. at' \in [Calls -> 0 .. Len(Chain)]
    BY <1>1, <1>2
  <2>3. probesSent' \in [Providers -> 0 .. Probes]
    <3>1. probesSent' = [p \in Providers |-> probesSent'[p]]
      BY DEF GoesOn
    <3> QED
      BY <3>1, <1>3
  <2>4. \A p \in Providers : state'[p] = "closed" => failures'[p] < Threshold
    <3>1. \A p \in Providers \ {f} : state'[p] = "closed" => state[p] = "closed"
      BY <1>3
    <3>2. \A p \in Providers : state[p] = "closed" => failures[p] < Threshold
      BY DEF MuxInv, TypeOK
    <3> QED
      BY <3>1, <3>2
  <2> QED
    BY <1>1, <2>1, <2>2, <2>3, <2>4 DEF TypeOK, States
<1>5. ProbeOutstanding'
  <2> SUFFICES ASSUME NEW p \in Providers, state'[p] = "half-open"
               PROVE  \E j \in Calls : at'[j] # 0 /\ Chain[at'[j]] = p
    BY DEF ProbeOutstanding, InFlight
  <2>1. p # f /\ StateGone(p, i, q) = "half-open"
    BY DEF States
  <2>2. CASE q # 0 /\ Chain[q] = p
    BY <2>2, <1>1, <1>2
  <2>3. CASE state[p] = "half-open"
    <3>1. PICK j \in Calls : at[j] # 0 /\ Chain[at[j]] = p
      BY <2>3 DEF MuxInv, ProbeOutstanding, InFlight
    <3>2. j # k
      BY <3>1, <2>1
    <3> QED
      BY <3>1, <3>2, <1>1, <1>2
  <2> QED
    BY <2>1, <2>2, <2>3, <1>3
<1>6. ProbeInv'
  <2>0. probed' \in [Providers -> Int]
    <3>1. probed' = [p \in Providers |-> probed'[p]]
      BY DEF GoesOn
    <3> QED
      BY <3>1, <1>3
  <2> SUFFICES ASSUME NEW p \in Providers
               PROVE  /\ probed'[p] <= now
                      /\ state'[p] = "closed" => probed'[p] = Never
                      /\ state'[p] = "open" => probed'[p] <= openedAt'[p]
                      /\ state'[p] = "half-open" => probesSent'[p] >= 1
    BY <2>0 DEF ProbeInv
  <2>1. CASE p # f
    BY <2>1, <1>3
  <2>2. CASE p = f
    <3>1. probed'[p] = probed[p]
      BY <2>2 DEF GoesOn
    <3>2. /\ probed[p] \in Int /\ probed[p] <= now
          /\ state[p] = "closed" => probed[p] = Never
          /\ state[p] = "open" => probed[p] <= openedAt[p]
      BY DEF MuxInv, ProbeInv
    <3>3. /\ state'[p] \in {"closed", "open"}
          /\ state'[p] = "closed" => state[p] = "closed"
      BY <2>2
    <3>4. state'[p] = "open" =>
             openedAt'[p] = IF state[p] = "open" THEN openedAt[p] ELSE now
      BY <2>2
    <3> QED
      BY <3>1, <3>2, <3>3, <3>4
  <2> QED
    BY <2>1, <2>2
<1> QED
  BY <1>4, <1>5, <1>6 DEF MuxInv

\* A call starts at the head of the chain and comes from no provider.
LEMMA StartStep ==
  ASSUME MuxInv, NEW k \in Calls, Start(k)
  PROVE  MuxInv'
<1>1. PICK q \in 0 .. Len(Chain) :
         /\ GoesOn(k, 1, q)
         /\ state' = [p \in Providers |->
                        IF p \in Asked(1, q) THEN StateAsked(p) ELSE state[p]]
  BY DEF Start
<1>2. /\ at[k] = 0 /\ now' = now /\ failures' = failures
      /\ windowStart' = windowStart /\ openedAt' = openedAt
  BY DEF Start
<1>3. PICK f : f \notin Providers
  BY NoSetContainsEverything
<1>4. 1 \in 1 .. Len(Chain) + 1
  BY ChainFacts
<1>5. \A p \in Providers \ {f} :
         /\ state'[p] = StateGone(p, 1, q)
         /\ failures'[p] = failures[p] /\ openedAt'[p] = openedAt[p]
  BY <1>1, <1>2 DEF StateGone
<1>6. state' = [p \in Providers |-> state'[p]]
  BY <1>1
<1>7. /\ failures' \in [Providers -> Nat]
      /\ windowStart' \in [Providers -> 0 .. now]
      /\ openedAt' \in [Providers -> 0 .. now]
  BY <1>2 DEF MuxInv, TypeOK
<1>8. \A p \in Providers : p # f
  BY <1>3
<1> QED
  BY <1>1, <1>2, <1>4, <1>5, <1>6, <1>7, <1>8, GoneStep

\* A call whose provider fails goes on behind that provider, whose breaker
\* leaves the half-open state.
LEMMA FailsStep ==
  ASSUME MuxInv, NEW k \in Calls, Fails(k)
  PROVE  MuxInv'
<1> DEFINE f == Chain[at[k]]
           i == at[k] + 1
<1>1. PICK q \in 0 .. Len(Chain) :
         /\ GoesOn(k, i, q)
         /\ state' = [p \in Providers |->
                        IF p = f THEN StateFailed(p)
                        ELSE IF p \in Asked(i, q) THEN StateAsked(p) ELSE state[p]]
  BY DEF Fails
<1>2. /\ at[k] # 0 /\ now' = now
      /\ failures' = [failures EXCEPT ![f] = Counted(f)]
      /\ windowStart' = [windowStart EXCEPT ![f] = IF Expired(f) THEN now ELSE @]
      /\ openedAt' = [openedAt EXCEPT ![f] = OpenedFailed(f)]
  BY DEF Fails
<1>3. Len(Chain) \in Nat /\ at[k] \in 1 .. Len(Chain) /\ i \in 1 .. Len(Chain) + 1
  BY <1>2, ChainFacts DEF MuxInv, TypeOK
<1>4. f \in Providers
  BY <1>3, ChainFacts DEF Positions
<1>5. /\ state \in [Providers -> States] /\ now \in Nat
      /\ failures \in [Providers -> Nat]
      /\ windowStart \in [Providers -> 0 .. now]
      /\ openedAt \in [Providers -> 0 .. now]
  BY DEF MuxInv, TypeOK, States
<1>6. q = 0 \/ Chain[q] # f
  <2> SUFFICES ASSUME q # 0, Chain[q] = f PROVE FALSE
    OBVIOUS
  <2>1. q \in 1 .. Len(Chain)
    BY <1>3
  <2>2. q \in i .. Len(Chain)
    BY <2>1, <1>1, <1>3, LetThrough DEF GoesOn
  <2>3. q = at[k]
    BY <2>1, <1>3, ChainFacts DEF Positions
  <2> QED
    BY <2>2, <2>3, <1>3
<1>7. \A p \in Providers \ {f} :
         /\ state'[p] = StateGone(p, i, q)
         /\ failures'[p] = failures[p] /\ openedAt'[p] = openedAt[p]
  BY <1>1, <1>2, <1>5 DEF StateGone
<1>8. state' = [p \in Providers |-> state'[p]]
  BY <1>1
<1>9. Counted(f) \in Nat /\ OpenedFailed(f) \in 0 .. now
  BY <1>4, <1>5 DEF Counted, OpenedFailed
<1>10. failures' \in [Providers -> Nat]
  BY <1>2, <1>5, <1>9
<1>11. windowStart' \in [Providers -> 0 .. now]
  <2>1. (IF Expired(f) THEN now ELSE windowStart[f]) \in 0 .. now
    BY <1>4, <1>5
  <2> QED
    BY <2>1, <1>2, <1>5
<1>12. openedAt' \in [Providers -> 0 .. now]
  BY <1>2, <1>5, <1>9
<1>13. state'[f] = StateFailed(f) /\ failures'[f] = Counted(f)
       /\ openedAt'[f] = OpenedFailed(f)
  BY <1>1, <1>2, <1>4, <1>5
<1>14. StateFailed(f) \in {"closed", "open"}
  BY <1>4, <1>5 DEF StateFailed, States
<1>15. StateFailed(f) = "closed" => state[f] = "closed" /\ Counted(f) < Threshold
  BY <1>9, ChainFacts DEF StateFailed, TooMany
<1>16. StateFailed(f) = "open" =>
          OpenedFailed(f) = IF state[f] = "open" THEN openedAt[f] ELSE now
  BY DEF OpenedFailed
<1>17. \A p \in Providers : p = f =>
          /\ state'[p] \in {"closed", "open"}
          /\ state'[p] = "closed" =>
                failures'[p] < Threshold /\ state[p] = "closed"
          /\ state'[p] = "open" =>
                openedAt'[p] = IF state[p] = "open" THEN openedAt[p] ELSE now
          /\ q = 0 \/ Chain[q] # p
  BY <1>6, <1>13, <1>14, <1>15, <1>16
<1> HIDE DEF f, i
<1>18. at[k] = 0 \/ Chain[at[k]] = f
  BY DEF f
<1> QED
  BY <1>1, <1>2, <1>3, <1>7, <1>8, <1>10, <1>11, <1>12, <1>17, <1>18, GoneStep

\* A provider that answers has its breaker closed, whoever asked it.
LEMMA SucceedsStep ==
  ASSUME MuxInv, NEW k \in Calls, Succeeds(k)
  PROVE  MuxInv'
<1> DEFINE f == Chain[at[k]]
<1>1. /\ at[k] # 0 /\ at' = [at EXCEPT ![k] = 0]
      /\ failures' = [failures EXCEPT ![f] = 0]
      /\ state' = [state EXCEPT ![f] = "closed"]
      /\ probed' = [probed EXCEPT ![f] = Never]
      /\ now' = now /\ windowStart' = windowStart /\ openedAt' = openedAt
      /\ probesSent' = probesSent
  BY DEF Succeeds
<1>2. Len(Chain) \in Nat /\ at[k] \in 1 .. Len(Chain)
  BY <1>1, ChainFacts DEF MuxInv, TypeOK
<1>3. f \in Providers
  BY <1>2, ChainFacts DEF Positions
<1>4. TypeOK
  BY DEF MuxInv
<1>5. /\ Threshold \in Nat \ {0}
  BY ChainFacts
<1>6. TypeOK'
  <2>1. at' \in [Calls -> 0 .. Len(Chain)]
    BY <1>1, <1>2, <1>4 DEF TypeOK
  <2>2. /\ state' \in [Providers -> {"closed", "open", "half-open"}]
        /\ failures' \in [Providers -> Nat]
    BY <1>1, <1>4 DEF TypeOK
  <2>3. \A p \in Providers : state'[p] = "closed" => failures'[p] < Threshold
    BY <1>1, <1>4, <1>5 DEF TypeOK
  <2> QED
    BY <1>1, <1>4, <2>1, <2>2, <2>3 DEF TypeOK
<1>7. ProbeOutstanding'
  <2> SUFFICES ASSUME NEW p \in Providers, state'[p] = "half-open"
               PROVE  \E j \in Calls : at'[j] # 0 /\ Chain[at'[j]] = p
    BY DEF ProbeOutstanding, InFlight
  <2>1. p # f /\ state[p] = "half-open"
    BY <1>1, <1>4 DEF TypeOK
  <2>2. PICK j \in Calls : at[j] # 0 /\ Chain[at[j]] = p
    BY <2>1 DEF MuxInv, ProbeOutstanding, InFlight
  <2>3. at'[j] = at[j]
    BY <2>1, <2>2, <1>1, <1>4 DEF TypeOK
  <2> QED
    BY <2>2, <2>3
<1>8. ProbeInv'
  <2>0. probed \in [Providers -> Int] /\ probed' \in [Providers -> Int]
    BY <1>1, <1>3 DEF MuxInv, ProbeInv, Never
  <2> SUFFICES ASSUME NEW p \in Providers
               PROVE  /\ probed'[p] <= now
                      /\ state'[p] = "closed" => probed'[p] = Never
                      /\ state'[p] = "open" => probed'[p] <= openedAt[p]
                      /\ state'[p] = "half-open" => probesSent[p] >= 1
    BY <1>1, <2>0 DEF ProbeInv
  <2>1. /\ probed[p] \in Int /\ probed[p] <= now
        /\ state[p] = "closed" => probed[p] = Never
        /\ state[p] = "open" => probed[p] <= openedAt[p]
        /\ state[p] = "half-open" => probesSent[p] >= 1
    BY DEF MuxInv, ProbeInv
  <2>2. CASE p # f
    <3>1. probed'[p] = probed[p] /\ state'[p] = state[p]
      BY <2>0, <2>2, <1>1, <1>4 DEF TypeOK
    <3> QED
      BY <3>1, <2>1
  <2>3. CASE p = f
    <3>1. probed'[p] = Never /\ state'[p] = "closed" /\ now \in Nat
      BY <2>0, <2>3, <1>1, <1>4 DEF TypeOK
    <3> QED
      BY <3>1 DEF Never
  <2> QED
    BY <2>2, <2>3
<1> QED
  BY <1>6, <1>7, <1>8 DEF MuxInv

\* The invariant is inductive.
LEMMA MuxStep == MuxInv /\ [Next]_vars => MuxInv'
<1> SUFFICES ASSUME MuxInv, [Next]_vars PROVE MuxInv'
  OBVIOUS
<1>1. ASSUME NEW k \in Calls, Start(k) PROVE MuxInv'
  BY <1>1, StartStep
<1>2. ASSUME NEW k \in Calls, Fails(k) PROVE MuxInv'
  BY <1>2, FailsStep
<1>3. ASSUME NEW k \in Calls, Succeeds(k) PROVE MuxInv'
  BY <1>3, SucceedsStep
<1>4. CASE Tick
  <2>1. /\ now' = now + 1 /\ state' = state /\ failures' = failures
        /\ windowStart' = windowStart /\ openedAt' = openedAt
        /\ probesSent' = probesSent /\ at' = at /\ probed' = probed
    BY <1>4 DEF Tick, breaker
  <2>2. now \in Nat /\ now' \in Nat
    BY <2>1 DEF MuxInv, TypeOK
  <2>3. TypeOK'
    <3>1. 0 .. now \subseteq 0 .. now'
      BY <2>1, <2>2
    <3>2. /\ windowStart' \in [Providers -> 0 .. now']
          /\ openedAt' \in [Providers -> 0 .. now']
      BY <2>1, <3>1 DEF MuxInv, TypeOK
    <3> QED
      BY <2>1, <2>2, <3>2 DEF MuxInv, TypeOK
  <2>4. ProbeOutstanding'
    BY <2>1 DEF MuxInv, ProbeOutstanding, InFlight
  <2>5. ProbeInv'
    BY <2>1, <2>2 DEF MuxInv, ProbeInv
  <2> QED
    BY <2>3, <2>4, <2>5 DEF MuxInv
<1>5. CASE UNCHANGED vars
  <2>1. /\ now' = now /\ state' = state /\ failures' = failures
        /\ windowStart' = windowStart /\ openedAt' = openedAt
        /\ probesSent' = probesSent /\ at' = at /\ probed' = probed
    BY <1>5 DEF vars, breaker
  <2>2. TypeOK'
    BY <2>1 DEF MuxInv, TypeOK
  <2>3. ProbeOutstanding'
    BY <2>1 DEF MuxInv, ProbeOutstanding, InFlight
  <2>4. ProbeInv'
    BY <2>1 DEF MuxInv, ProbeInv
  <2> QED
    BY <2>2, <2>3, <2>4 DEF MuxInv
<1> QED
  BY <1>1, <1>2, <1>3, <1>4, <1>5 DEF Next

\* The invariant holds for ever.
LEMMA MuxInvariant == Spec => []MuxInv
<1> QED
  BY MuxInit, MuxStep, PTL DEF Spec

\* A call that goes on to a provider whose breaker is not closed, and that has
\* let a request through since it was, comes OpenFor after that request at
\* least: the breaker was opened after it.
LEMMA GoneSpaced ==
  ASSUME MuxInv, Probes = 1, NEW i \in 1 .. Len(Chain) + 1,
         NEW q \in 1 .. Len(Chain), FirstAllowed(i, q), state[Chain[q]] # "closed"
  PROVE  now - probed[Chain[q]] >= OpenFor
<1> DEFINE p == Chain[q]
<1>1. p \in Providers
  BY ChainFacts DEF Positions
<1>2. /\ now \in Nat /\ openedAt[p] \in 0 .. now /\ probesSent[p] \in 0 .. Probes
      /\ probed[p] \in Int /\ OpenFor \in Nat
      /\ state[p] = "open" => probed[p] <= openedAt[p]
      /\ state[p] = "half-open" => probesSent[p] >= 1
  BY <1>1, ChainFacts DEF MuxInv, TypeOK, ProbeInv
<1>3. ProbeLeft(p)
  BY LetThrough DEF Allowed
<1>4. state[p] # "half-open"
  <2> SUFFICES ASSUME state[p] = "half-open" PROVE FALSE
    OBVIOUS
  <2>1. ProbesBefore(p) = probesSent[p]
    BY DEF ProbesBefore, Rested
  <2> QED
    BY <2>1, <1>2, <1>3 DEF ProbeLeft
<1>5. state[p] = "open" /\ now - openedAt[p] >= OpenFor
  BY <1>3, <1>4 DEF ProbeLeft, HalfOpen, Rested
<1> QED
  BY <1>2, <1>5

\* Calls, breakers and their counters keep their types; a closed breaker is
\* below its threshold.
THEOREM TypeCorrect == Spec => []TypeOK
<1>1. MuxInv => TypeOK
  BY DEF MuxInv
<1> QED
  BY MuxInvariant, <1>1, PTL

\* Whatever the chain, the number of calls and the answers of the providers, a
\* closed breaker is below its threshold, and a half-open breaker always has a
\* request on its way: recordSuccess or recordFailure of that request takes it
\* out of the state, so that a provider is never lost for good.
THEOREM NeverStuck == Spec => [](TypeOK /\ ProbeOutstanding)
<1>1. MuxInv => TypeOK /\ ProbeOutstanding
  BY DEF MuxInv
<1> QED
  BY MuxInvariant, <1>1, PTL

\* With halfOpenProbes = 1, as in the code, a provider that keeps failing gets
\* one request in openDurationMs at most: late failures of calls that started
\* while the breaker was closed do not bring a probe forward.
THEOREM Spacing == Spec => ProbesSpaced
<1> DEFINE Spaced ==
      Probes = 1 => \A k \in Calls : LET p == Chain[at'[k]] IN
          at'[k] \notin {0, at[k]} /\ state[p] # "closed" /\ probed[p] # Never
             => now - probed[p] >= OpenFor
<1>1. MuxInv /\ [Next]_vars => [Spaced]_vars
  <2> SUFFICES ASSUME MuxInv, Next, Probes = 1, NEW k \in Calls,
                      at'[k] \notin {0, at[k]}, state[Chain[at'[k]]] # "closed"
               PROVE  now - probed[Chain[at'[k]]] >= OpenFor
    OBVIOUS
  <2>1. at \in [Calls -> 0 .. Len(Chain)] /\ Len(Chain) \in Nat
    BY ChainFacts DEF MuxInv, TypeOK
  <2>2. ASSUME NEW j \in Calls, NEW i \in 1 .. Len(Chain) + 1,
               NEW q \in 0 .. Len(Chain), GoesOn(j, i, q)
        PROVE  now - probed[Chain[at'[k]]] >= OpenFor
    <3>1. j = k /\ at'[k] = q
      BY <2>1, <2>2 DEF GoesOn
    <3>2. q \in 1 .. Len(Chain)
      BY <3>1, <2>1
    <3> QED
      BY <3>1, <3>2, <2>2, GoneSpaced DEF GoesOn
  <2>3. ASSUME NEW j \in Calls, Start(j)
        PROVE  now - probed[Chain[at'[k]]] >= OpenFor
    <3>1. 1 \in 1 .. Len(Chain) + 1
      BY <2>1
    <3> QED
      BY <3>1, <2>2, <2>3 DEF Start
  <2>4. ASSUME NEW j \in Calls, Fails(j)
        PROVE  now - probed[Chain[at'[k]]] >= OpenFor
    <3>1. at[j] + 1 \in 1 .. Len(Chain) + 1
      BY <2>1, <2>4 DEF Fails
    <3> QED
      BY <3>1, <2>2, <2>4 DEF Fails
  <2>5. ASSUME NEW j \in Calls, Succeeds(j) PROVE FALSE
    BY <2>1, <2>5 DEF Succeeds
  <2>6. ~ Tick
    BY DEF Tick
  <2> QED
    BY <2>3, <2>4, <2>5, <2>6 DEF Next
<1>2. [][Spaced]_vars => ProbesSpaced
  BY DEF ProbesSpaced
<1> QED
  BY MuxInvariant, <1>1, <1>2, PTL DEF Spec

-----------------------------------------------------------------------------
(***************************************************************************)
(* When a breaker opens.                                                   *)
(***************************************************************************)

\* The history of a provider has the last failures, up to Threshold of them.  As
\* many of them as a closed breaker has counted are of its window.
Burst(p) ==
    /\ Len(recent[p]) <= Threshold
    /\ state[p] = "closed" =>
          /\ failures[p] <= Len(recent[p])
          /\ \A i \in 1 .. Len(recent[p]) :
                i > Len(recent[p]) - failures[p] => recent[p][i] >= windowStart[p]

BurstInv == recent \in [Providers -> Seq(Int)] /\ \A p \in Providers : Burst(p)

\* Failure x is remembered behind those of s, of which the first is forgotten
\* when there are n already.
Pushed(s, x, n, r) ==
    /\ r \in Seq(Int) /\ Len(r) >= 1 /\ r[Len(r)] = x
    /\ Len(s) < n => Len(r) = Len(s) + 1 /\ \A i \in 1 .. Len(s) : r[i] = s[i]
    /\ Len(s) = n => Len(r) = n /\ \A i \in 1 .. n - 1 : r[i] = s[i + 1]

LEMMA LastOfAppend ==
  ASSUME NEW s \in Seq(Int), NEW n \in Nat \ {0}, Len(s) <= n, NEW x \in Int,
         NEW r, r = LastOf(Append(s, x), n)
  PROVE  Pushed(s, x, n, r)
<1>1. PICK a : a = Append(s, x)
  OBVIOUS
<1>2. /\ a \in Seq(Int) /\ Len(a) = Len(s) + 1 /\ Len(s) \in Nat
      /\ a[Len(s) + 1] = x /\ \A i \in 1 .. Len(s) : a[i] = s[i]
  BY <1>1
<1>3. CASE Len(s) < n
  <2>1. r = a
    BY <1>1, <1>2, <1>3 DEF LastOf
  <2> QED
    BY <1>2, <1>3, <2>1 DEF Pushed
<1>4. CASE Len(s) = n
  <2>1. r = Tail(a)
    BY <1>1, <1>2, <1>4 DEF LastOf
  <2>2. r \in Seq(Int) /\ Len(r) = n /\ \A i \in 1 .. n : r[i] = a[i + 1]
    BY <1>2, <1>4, <2>1
  <2>3. \A i \in 1 .. n - 1 : r[i] = s[i + 1]
    BY <1>2, <1>4, <2>2
  <2>4. r[n] = x
    BY <1>2, <1>4, <2>2
  <2> QED
    BY <1>4, <2>2, <2>3, <2>4 DEF Pushed
<1> QED
  BY <1>2, <1>3, <1>4

\* What the failure of provider f leaves of its count, its window and its history.
LEMMA FailedBurst ==
  ASSUME TypeOK, BurstInv, NEW f \in Providers, state[f] = "closed",
         NEW r, r = LastOf(Append(recent[f], now), Threshold),
         NEW w, w = IF Expired(f) THEN now ELSE windowStart[f]
  PROVE  /\ Counted(f) <= Len(r)
         /\ \A i \in 1 .. Len(r) : i > Len(r) - Counted(f) => r[i] >= w
         /\ now - w <= Window
<1>1. PICK s, c, n, v : s = recent[f] /\ c = failures[f] /\ n = Threshold /\ v = windowStart[f]
  OBVIOUS
<1>2. s \in Seq(Int) /\ Len(s) <= n /\ n \in Nat \ {0} /\ now \in Int
  BY <1>1, ChainFacts DEF TypeOK, BurstInv, Burst
<1>3. /\ c \in Nat /\ c < n /\ c <= Len(s) /\ now \in Nat /\ v \in 0 .. now /\ Window \in Nat
      /\ \A i \in 1 .. Len(s) : i > Len(s) - c => s[i] >= v
  BY <1>1, ChainFacts DEF TypeOK, BurstInv, Burst
<1>4. r = LastOf(Append(s, now), n)
  BY <1>1
<1>5. /\ r \in Seq(Int) /\ Len(r) >= 1 /\ r[Len(r)] = now
      /\ Len(s) < n => Len(r) = Len(s) + 1 /\ \A i \in 1 .. Len(s) : r[i] = s[i]
      /\ Len(s) = n => Len(r) = n /\ \A i \in 1 .. n - 1 : r[i] = s[i + 1]
  <2>1. Pushed(s, now, n, r)
    BY ONLY <1>2, <1>4, LastOfAppend
  <2> QED
    BY <2>1 DEF Pushed
<1>6. PICK l, m : l = Len(r) /\ m = Len(s)
  OBVIOUS
<1>7. l \in Nat \ {0} /\ m \in Nat /\ m <= n /\ c <= m
  BY <1>2, <1>3, <1>5, <1>6
<1>8. /\ r[l] = now
      /\ m < n => l = m + 1 /\ \A i \in 1 .. m : r[i] = s[i]
      /\ m = n => l = n /\ \A i \in 1 .. n - 1 : r[i] = s[i + 1]
      /\ \A i \in 1 .. m : i > m - c => s[i] >= v
  BY <1>3, <1>5, <1>6
<1>9. CASE Expired(f)
  <2>1. Counted(f) = 1 /\ w = now
    BY <1>9 DEF Counted
  <2>2. \A i \in 1 .. l : i > l - 1 => i = l
    BY <1>7
  <2>3. \A i \in 1 .. l : i > l - 1 => r[i] >= now
    BY <1>3, <1>8, <2>2
  <2> QED
    BY <1>3, <1>6, <1>7, <2>1, <2>3
<1>10. CASE ~ Expired(f)
  <2>1. Counted(f) = c + 1 /\ w = v
    BY <1>1, <1>10 DEF Counted
  <2>2. now - v <= Window
    BY <1>1, <1>3, <1>10 DEF Expired
  <2>3. c + 1 <= l
    BY <1>2, <1>3, <1>7, <1>8
  <2>4. ASSUME NEW i \in 1 .. l, i > l - (c + 1)  PROVE r[i] >= v
    <3>1. CASE i = l
      BY <1>3, <1>8, <3>1
    <3>2. CASE i # l /\ m < n
      <4>1. i \in 1 .. m /\ i > m - c /\ r[i] = s[i]
        BY <1>3, <1>7, <1>8, <2>4, <3>2
      <4> QED
        BY <1>8, <4>1
    <3>3. CASE i # l /\ m = n
      <4>1. i \in 1 .. n - 1 /\ i + 1 \in 1 .. m /\ i + 1 > m - c
        BY <1>2, <1>3, <1>7, <1>8, <2>4, <3>3
      <4>2. r[i] = s[i + 1]
        BY <1>8, <3>3, <4>1
      <4> QED
        BY <1>8, <4>1, <4>2
    <3> QED
      BY <1>2, <1>7, <3>1, <3>2, <3>3
  <2>5. \A i \in 1 .. l : i > l - (c + 1) => r[i] >= v
    BY <2>4
  <2> QED
    BY <1>6, <2>1, <2>2, <2>3, <2>5
<1> QED
  BY <1>9, <1>10

\* Being asked neither closes a breaker nor opens a closed one.
LEMMA AskedClosed ==
  ASSUME NEW p
  PROVE  StateAsked(p) = "closed" <=> state[p] = "closed"
BY DEF StateAsked, Rested

LEMMA BurstStep ==
  ASSUME MuxInv, BurstInv, [Next]_vars
  PROVE  BurstInv'
<1>1. /\ recent \in [Providers -> Seq(Int)] /\ Threshold \in Nat \ {0}
      /\ at \in [Calls -> 0 .. Len(Chain)] /\ Len(Chain) \in Nat /\ now \in Nat
      /\ state \in [Providers -> States] /\ failures \in [Providers -> Nat]
      /\ windowStart \in [Providers -> 0 .. now]
  BY ChainFacts DEF BurstInv, MuxInv, TypeOK, States
<1>2. ASSUME NEW p \in Providers, recent'[p] = recent[p], failures'[p] = failures[p],
             windowStart'[p] = windowStart[p], state'[p] = "closed" => state[p] = "closed"
      PROVE  Burst(p)'
  BY <1>2 DEF BurstInv, Burst
<1>3. ASSUME NEW k \in Calls, Start(k)  PROVE BurstInv'
  <2>1. /\ recent' = recent /\ failures' = failures /\ windowStart' = windowStart
        /\ \A p \in Providers : state'[p] = "closed" => state[p] = "closed"
    BY <1>3, AskedClosed DEF Start
  <2> QED
    BY <1>1, <1>2, <2>1 DEF BurstInv
<1>4. ASSUME NEW k \in Calls, Fails(k)  PROVE BurstInv'
  <2>1. PICK f, i, r : f = Chain[at[k]] /\ i = at[k] + 1 /\ r = LastOf(Append(recent[f], now), Threshold)
    OBVIOUS
  <2>2. f \in Providers
    BY <1>1, <1>4, <2>1, ChainFacts DEF Fails, Positions
  <2>3. PICK q : state' = [p \in Providers |->
                             IF p = f THEN StateFailed(p)
                             ELSE IF p \in Asked(i, q) THEN StateAsked(p) ELSE state[p]]
    BY <1>4, <2>1 DEF Fails
  <2>4. /\ failures' = [failures EXCEPT ![f] = Counted(f)]
        /\ windowStart' = [windowStart EXCEPT ![f] = IF Expired(f) THEN now ELSE windowStart[f]]
        /\ recent' = [recent EXCEPT ![f] = r]
    BY <1>4, <2>1 DEF Fails
  <2>5. recent[f] \in Seq(Int) /\ Len(recent[f]) <= Threshold /\ now \in Int
    BY <1>1, <2>2 DEF BurstInv, Burst
  <2>6. r \in Seq(Int) /\ Len(r) <= Threshold
    <3>1. /\ r \in Seq(Int)
          /\ Len(recent[f]) < Threshold => Len(r) = Len(recent[f]) + 1
          /\ Len(recent[f]) = Threshold => Len(r) = Threshold
      <4>1. /\ Threshold \in Nat \ {0} /\ r = LastOf(Append(recent[f], now), Threshold)
        BY <1>1, <2>1
      <4>2. Pushed(recent[f], now, Threshold, r)
        BY ONLY <2>5, <4>1, LastOfAppend
      <4> QED
        BY <4>2 DEF Pushed
    <3>2. Len(recent[f]) \in Nat /\ Threshold \in Nat
      BY <1>1, <2>5
    <3> QED
      BY ONLY <2>5, <3>1, <3>2
  <2>7. recent' \in [Providers -> Seq(Int)]
    BY <1>1, <2>4, <2>6
  <2>8. ASSUME NEW p \in Providers, p # f  PROVE Burst(p)'
    BY <1>1, <1>2, <2>3, <2>4, <2>8, AskedClosed
  <2>9. Burst(f)'
    <3>1. state'[f] = "closed" => state[f] = "closed"
      <4>1. StateFailed(f) = "closed" => state[f] = "closed"
        BY DEF StateFailed
      <4> QED
        BY <2>2, <2>3, <4>1
    <3>2. PICK w : w = IF Expired(f) THEN now ELSE windowStart[f]
      OBVIOUS
    <3>3. failures'[f] = Counted(f) /\ windowStart'[f] = w /\ recent'[f] = r
      BY <1>1, <2>2, <2>4, <3>2
    <3>4. state[f] = "closed" => /\ Counted(f) <= Len(r)
                                 /\ \A j \in 1 .. Len(r) : j > Len(r) - Counted(f) => r[j] >= w
      BY <2>1, <2>2, <3>2, FailedBurst DEF MuxInv
    <3> QED
      BY <2>6, <3>1, <3>3, <3>4 DEF Burst
  <2> QED
    BY <2>7, <2>8, <2>9 DEF BurstInv
<1>5. ASSUME NEW k \in Calls, Succeeds(k)  PROVE BurstInv'
  <2>1. PICK f : f = Chain[at[k]]
    OBVIOUS
  <2>2. /\ state' = [state EXCEPT ![f] = "closed"] /\ failures' = [failures EXCEPT ![f] = 0]
        /\ recent' = [recent EXCEPT ![f] = <<>>] /\ windowStart' = windowStart
    BY <1>5, <2>1 DEF Succeeds
  <2>3. <<>> \in Seq(Int) /\ Len(<<>>) = 0
    OBVIOUS
  <2>4. recent' \in [Providers -> Seq(Int)]
    BY <1>1, <2>2, <2>3
  <2>5. ASSUME NEW p \in Providers, p # f  PROVE Burst(p)'
    BY <1>1, <1>2, <2>2, <2>5
  <2>6. ASSUME NEW p \in Providers, p = f  PROVE Burst(p)'
    <3>1. recent'[p] = <<>> /\ failures'[p] = 0
      BY <1>1, <2>2, <2>6
    <3> QED
      BY <1>1, <2>3, <3>1 DEF Burst
  <2> QED
    BY <2>4, <2>5, <2>6 DEF BurstInv
<1>6. CASE Tick \/ UNCHANGED vars
  <2>1. UNCHANGED <<recent, failures, windowStart, state>>
    BY <1>6 DEF Tick, vars, breaker
  <2> QED
    BY <1>1, <1>2, <2>1 DEF BurstInv
<1> QED
  BY <1>3, <1>4, <1>5, <1>6 DEF Next

\* Whatever the threshold and the window, a closed breaker opens at the failure
\* that makes failureThreshold of them in a row within windowMs, and at no other:
\* recordFailure adds up neither failures of an earlier window nor those before a
\* success, however many calls fail at once.
THEOREM Bursts == Spec => OpensOnBurst
<1> DEFINE Opens ==
      \A p \in Providers : state[p] = "closed" /\ state'[p] = "open" =>
          Len(recent'[p]) = Threshold /\ now - Head(recent'[p]) <= Window
<1>1. MuxInv /\ BurstInv /\ [Next]_vars => [Opens]_vars
  <2> SUFFICES ASSUME MuxInv, BurstInv, Next, NEW p \in Providers,
                      state[p] = "closed", state'[p] = "open"
               PROVE  Len(recent'[p]) = Threshold /\ now - Head(recent'[p]) <= Window
    OBVIOUS
  <2>1. /\ recent \in [Providers -> Seq(Int)] /\ Threshold \in Nat \ {0}
        /\ at \in [Calls -> 0 .. Len(Chain)] /\ Len(Chain) \in Nat /\ now \in Nat
        /\ state \in [Providers -> States] /\ failures \in [Providers -> Nat]
        /\ windowStart \in [Providers -> 0 .. now] /\ failures[p] < Threshold /\ Window \in Nat
    BY ChainFacts DEF BurstInv, MuxInv, TypeOK, States
  <2>2. ASSUME NEW k \in Calls, Start(k)  PROVE FALSE
    <3>1. state'[p] = StateAsked(p) \/ state'[p] = state[p]
      BY <2>2 DEF Start
    <3> QED
      BY <3>1, AskedClosed
  <2>3. ASSUME NEW k \in Calls, Succeeds(k)  PROVE FALSE
    BY <2>1, <2>3 DEF Succeeds
  <2>4. ~ Tick
    BY DEF Tick, breaker
  <2>5. PICK k \in Calls : Fails(k)
    BY <2>2, <2>3, <2>4 DEF Next
  <2>6. PICK f, i, r : f = Chain[at[k]] /\ i = at[k] + 1 /\ r = LastOf(Append(recent[f], now), Threshold)
    OBVIOUS
  <2>7. PICK q : state' = [u \in Providers |->
                             IF u = f THEN StateFailed(u)
                             ELSE IF u \in Asked(i, q) THEN StateAsked(u) ELSE state[u]]
    BY <2>5, <2>6 DEF Fails
  <2>8. p = f
    BY <2>7, AskedClosed
  <2>9. Counted(f) >= Threshold
    BY <2>7, <2>8 DEF StateFailed, TooMany
  <2>10. recent' = [recent EXCEPT ![f] = r]
    BY <2>5, <2>6 DEF Fails
  <2>11. recent'[p] = r
    BY <2>1, <2>8, <2>10
  <2>12. PICK w : w = IF Expired(f) THEN now ELSE windowStart[f]
    OBVIOUS
  <2>13. /\ Counted(f) <= Len(r) /\ now - w <= Window
         /\ \A j \in 1 .. Len(r) : j > Len(r) - Counted(f) => r[j] >= w
    BY <2>6, <2>8, <2>12, FailedBurst DEF MuxInv
  <2>14. r \in Seq(Int) /\ Len(r) <= Threshold
    <3>1. recent[f] \in Seq(Int) /\ Len(recent[f]) <= Threshold /\ now \in Int
      BY <2>1, <2>8 DEF BurstInv, Burst
    <3>2. /\ r \in Seq(Int)
          /\ Len(recent[f]) < Threshold => Len(r) = Len(recent[f]) + 1
          /\ Len(recent[f]) = Threshold => Len(r) = Threshold
      <4>1. /\ Threshold \in Nat \ {0} /\ r = LastOf(Append(recent[f], now), Threshold)
        BY <2>1, <2>6
      <4>2. Pushed(recent[f], now, Threshold, r)
        BY ONLY <3>1, <4>1, LastOfAppend
      <4> QED
        BY <4>2 DEF Pushed
    <3>3. Len(recent[f]) \in Nat /\ Threshold \in Nat
      BY <2>1, <3>1
    <3> QED
      BY ONLY <3>1, <3>2, <3>3
  <2>15. Counted(f) \in Nat /\ w \in 0 .. now
    BY <2>1, <2>8, <2>12 DEF Counted
  <2>16. Len(r) = Threshold
    BY <2>1, <2>9, <2>13, <2>14, <2>15
  <2>17. Head(r) = r[1] /\ r[1] >= w /\ r[1] \in Int
    BY <2>1, <2>9, <2>13, <2>14, <2>15, <2>16
  <2> QED
    BY <2>1, <2>11, <2>13, <2>15, <2>16, <2>17
<1>2. [][Opens]_vars => OpensOnBurst
  BY DEF OpensOnBurst
<1>3. Init => BurstInv
  BY ChainFacts DEF Init, BurstInv, Burst
<1>4. MuxInv /\ BurstInv /\ [Next]_vars => BurstInv'
  BY BurstStep
<1> QED
  BY MuxInvariant, <1>1, <1>2, <1>3, <1>4, PTL DEF Spec
=============================================================================
