----------------------- MODULE SemaphoreStoreProofs -----------------------
(***************************************************************************)
(* Theorems about SemaphoreStore, for every set of openings, every largest *)
(* value, every number of repeated requests and of calls given up.         *)
(*                                                                         *)
(* The store's own invariant (StoreInv) is inductive under each of its     *)
(* operations alone, whoever asks for them.  The two counting properties   *)
(* relate it to the programs, and need what a call on its way says of its  *)
(* opening (OneCall): that a wait is asked for without a unit, a signal    *)
(* with one, and both on the handle the opening has.                       *)
(***************************************************************************)
EXTENDS SemaphoreStore, FiniteSetTheorems, TLAPS

StoreInv ==
    /\ nextHdl \in Nat \ {0}
    /\ Opened \subseteq 1 .. nextHdl - 1
    /\ semas \in [Opened -> [name : Names, value : Int, openCount : Int]]
    /\ DOMAIN byName \subseteq Names
    /\ byName \in [DOMAIN byName -> 1 .. nextHdl - 1]
    /\ DOMAIN created = 1 .. nextHdl - 1
    /\ created \in [DOMAIN created -> 0 .. MaxValue]
    /\ IndexesAgree
    /\ ValueBounded
    /\ \A h \in Opened : semas[h].openCount > 0

ProgramOK ==
    /\ phase \in [Openings -> Phases]
    /\ req \in [Openings -> Requests \cup {NoRequest}]
    /\ done \subseteq {o \in Openings : req[o] # NoRequest}
    /\ hdl \in [Openings -> 0 .. nextHdl - 1]
    /\ holds \subseteq Openings
    /\ sent \subseteq Requests
    /\ dups \in 0 .. MaxDup
    /\ lost \in 0 .. MaxLost

OneCall(o) ==
    /\ phase[o] = "idle" => o \notin holds /\ (o \notin done => hdl[o] = 0)
    /\ req[o].op = "open" => phase[o] = "idle"
    /\ req[o].op \in {"wait", "signal", "close"} => phase[o] = "open"
    /\ o \notin done /\ req[o].op \in {"wait", "signal", "close"} => req[o].handle = hdl[o]
    /\ o \notin done /\ req[o].op = "wait" => o \notin holds
    /\ o \notin done /\ req[o].op = "signal" => o \in holds
    /\ req[o].op = "close" => o \notin holds

CallsInv == \A o \in Openings : OneCall(o)

CountsInv ==
    \A h \in 1 .. nextHdl - 1 :
        OpenCount(h) - Cardinality(Live(h)) \in -dups .. dups + lost

SemaInv == StoreInv /\ ProgramOK /\ CallsInv /\ CountsInv /\ UnitsConserved

(***************************************************************************)
(* What each operation does to the store.                                  *)
(***************************************************************************)

Semaphores == [name : Names, value : Int, openCount : Int]

\* Changing one field of one semaphore.
LEMMA SetOpenCount ==
  ASSUME NEW D, NEW f \in [D -> Semaphores], NEW h \in D, NEW e \in Int,
         NEW g, g = [f EXCEPT ![h].openCount = e]
  PROVE  /\ g \in [D -> Semaphores]
         /\ \A x \in D : /\ g[x].name = f[x].name /\ g[x].value = f[x].value
                         /\ g[x].openCount = IF x = h THEN e ELSE f[x].openCount
<1>1. DOMAIN g = D /\ \A x \in D : x # h => g[x] = f[x]
  OBVIOUS
<1>2. f[h] \in Semaphores /\ g[h] = [f[h] EXCEPT !.openCount = e]
  OBVIOUS
<1>3. /\ g[h] \in Semaphores /\ g[h].name = f[h].name
      /\ g[h].value = f[h].value /\ g[h].openCount = e
  BY <1>2 DEF Semaphores
<1>4. \A x \in D : g[x] \in Semaphores
  BY <1>1, <1>3
<1>5. g = [x \in D |-> g[x]]
  OBVIOUS
<1> QED BY <1>1, <1>3, <1>4, <1>5

LEMMA SetValue ==
  ASSUME NEW D, NEW f \in [D -> Semaphores], NEW h \in D, NEW e \in Int,
         NEW g, g = [f EXCEPT ![h].value = e]
  PROVE  /\ g \in [D -> Semaphores]
         /\ \A x \in D : /\ g[x].name = f[x].name
                         /\ g[x].openCount = f[x].openCount
                         /\ g[x].value = IF x = h THEN e ELSE f[x].value
<1>1. DOMAIN g = D /\ \A x \in D : x # h => g[x] = f[x]
  OBVIOUS
<1>2. f[h] \in Semaphores /\ g[h] = [f[h] EXCEPT !.value = e]
  OBVIOUS
<1>3. /\ g[h] \in Semaphores /\ g[h].name = f[h].name
      /\ g[h].openCount = f[h].openCount /\ g[h].value = e
  BY <1>2 DEF Semaphores
<1>4. \A x \in D : g[x] \in Semaphores
  BY <1>1, <1>3
<1>5. g = [x \in D |-> g[x]]
  OBVIOUS
<1> QED BY <1>1, <1>3, <1>4, <1>5

LEMMA OpenEffect ==
  ASSUME StoreInv, NEW n \in Names, NEW v \in InitialValues, StoreOpen(n, v)
  PROVE  /\ StoreInv'
         /\ nextHdl <= nextHdl' /\ OpenHandle(n, v) \in 0 .. nextHdl' - 1
         /\ \A x \in 1 .. nextHdl' - 1 :
              OpenCount(x)' = OpenCount(x) + IF x = OpenHandle(n, v) THEN 1 ELSE 0
         /\ \A x \in Opened' :
              \/ /\ x \in Opened /\ semas'[x].value = semas[x].value
                 /\ created'[x] = created[x]
              \/ x = nextHdl /\ semas'[x].value = created'[x]
<1> DEFINE g == OpenHandle(n, v)
<1>1. CASE n \in DOMAIN byName
  <2>1. g \in Opened /\ g = byName[n]
    BY <1>1 DEF StoreInv, IndexesAgree, OpenHandle
  <2>2. /\ semas' = [semas EXCEPT ![g].openCount = @ + 1]
        /\ UNCHANGED <<byName, nextHdl, created>>
    BY <1>1, <2>1 DEF StoreOpen
  <2> HIDE DEF g
  <2>3. /\ Opened' = Opened
        /\ \A x \in Opened : /\ semas'[x].name = semas[x].name
                             /\ semas'[x].value = semas[x].value
                             /\ semas'[x].openCount =
                                  semas[x].openCount + IF x = g THEN 1 ELSE 0
        /\ semas' \in [Opened -> [name : Names, value : Int, openCount : Int]]
    <3>1. semas \in [Opened -> Semaphores] /\ semas[g].openCount \in Int
      BY <2>1 DEF StoreInv, Semaphores
    <3>2. semas' = [semas EXCEPT ![g].openCount = semas[g].openCount + 1]
      BY <2>2
    <3>3. /\ semas' \in [Opened -> Semaphores]
          /\ \A x \in Opened :
               /\ semas'[x].name = semas[x].name /\ semas'[x].value = semas[x].value
               /\ semas'[x].openCount =
                    IF x = g THEN semas[g].openCount + 1 ELSE semas[x].openCount
      <4>1. PICK D, f, e : D = Opened /\ f = semas /\ e = semas[g].openCount + 1
        OBVIOUS
      <4>2. f \in [D -> Semaphores] /\ g \in D /\ e \in Int
        BY <2>1, <3>1, <4>1
      <4>3. PICK k : k = semas'
        OBVIOUS
      <4>4. k = [f EXCEPT ![g].openCount = e]
        BY <3>2, <4>1, <4>3
      <4>5. /\ k \in [D -> Semaphores]
            /\ \A x \in D : /\ k[x].name = f[x].name /\ k[x].value = f[x].value
                            /\ k[x].openCount = IF x = g THEN e ELSE f[x].openCount
        BY ONLY <4>2, <4>4, SetOpenCount
      <4> QED BY <4>1, <4>3, <4>5
    <3> QED BY <3>1, <3>3 DEF Opened, Semaphores
  <2>4. StoreInv'
    BY <2>2, <2>3 DEF StoreInv, IndexesAgree, ValueBounded
  <2>5. \A x \in 1 .. nextHdl' - 1 :
          OpenCount(x)' = OpenCount(x) + IF x = g THEN 1 ELSE 0
    BY <2>1, <2>3 DEF OpenCount
  <2>6. nextHdl' = nextHdl /\ created' = created /\ g \in 0 .. nextHdl - 1
    BY <2>1, <2>2 DEF StoreInv
  <2>7. nextHdl \in Nat
    BY DEF StoreInv
  <2> QED BY <2>3, <2>4, <2>5, <2>6, <2>7 DEF g
<1>2. CASE n \notin DOMAIN byName /\ v \in 0 .. MaxValue
  <2>1. g = nextHdl /\ nextHdl \notin Opened
    BY <1>2 DEF OpenHandle, StoreInv
  <2>2. /\ semas' = [h \in Opened \cup {nextHdl} |->
                       IF h = nextHdl
                         THEN [name |-> n, value |-> v, openCount |-> 1]
                         ELSE semas[h]]
        /\ byName' = [x \in DOMAIN byName \cup {n} |->
                        IF x = n THEN nextHdl ELSE byName[x]]
        /\ created' = [h \in DOMAIN created \cup {nextHdl} |->
                         IF h = nextHdl THEN v ELSE created[h]]
        /\ nextHdl' = nextHdl + 1
    BY <1>2 DEF StoreOpen
  <2>3. /\ Opened' = Opened \cup {nextHdl}
        /\ semas'[nextHdl] = [name |-> n, value |-> v, openCount |-> 1]
        /\ \A x \in Opened : semas'[x] = semas[x]
        /\ semas' \in [Opened' -> [name : Names, value : Int, openCount : Int]]
    BY <1>2, <2>1, <2>2, ParametersAssumption DEF Opened, StoreInv
  <2>4. /\ DOMAIN byName' = DOMAIN byName \cup {n}
        /\ byName'[n] = nextHdl
        /\ \A x \in DOMAIN byName : byName'[x] = byName[x]
        /\ byName' \in [DOMAIN byName' -> 1 .. nextHdl' - 1]
    BY <1>2, <2>2 DEF StoreInv
  <2>5. /\ DOMAIN created' = 1 .. nextHdl' - 1
        /\ created'[nextHdl] = v
        /\ \A x \in DOMAIN created : created'[x] = created[x]
        /\ created' \in [DOMAIN created' -> 0 .. MaxValue]
    BY <1>2, <2>2 DEF StoreInv
  <2>6. nextHdl' = nextHdl + 1 /\ nextHdl \in Nat \ {0} /\ Opened' \subseteq 1 .. nextHdl
    BY <2>2, <2>3 DEF StoreInv
  <2>7. IndexesAgree'
    BY <1>2, <2>1, <2>3, <2>4 DEF StoreInv, IndexesAgree
  <2>8. ValueBounded' /\ \A h \in Opened' : semas'[h].openCount > 0
    BY <1>2, <2>3 DEF StoreInv, ValueBounded
  <2>9. StoreInv'
    BY <2>3, <2>4, <2>5, <2>6, <2>7, <2>8 DEF StoreInv
  <2>10. \A x \in 1 .. nextHdl' - 1 :
          OpenCount(x)' = OpenCount(x) + IF x = g THEN 1 ELSE 0
    BY <2>1, <2>3 DEF OpenCount, StoreInv
  <2>11. nextHdl <= nextHdl' /\ g \in 0 .. nextHdl' - 1
    BY <2>1, <2>6
  <2>12. \A x \in Opened : created'[x] = created[x]
    BY <2>5 DEF StoreInv
  <2> QED BY <2>3, <2>5, <2>9, <2>10, <2>11, <2>12
<1>3. CASE n \notin DOMAIN byName /\ v \notin 0 .. MaxValue
  <2>1. g = 0 /\ UNCHANGED store
    BY <1>3 DEF OpenHandle, StoreOpen
  <2>2. nextHdl \in Nat \ {0}
    BY DEF StoreInv
  <2>3. /\ StoreInv' /\ nextHdl' = nextHdl /\ semas' = semas /\ created' = created
        /\ Opened' = Opened
    BY <2>1 DEF store, StoreInv, Opened, IndexesAgree, ValueBounded
  <2>4. \A x \in 1 .. nextHdl' - 1 : OpenCount(x)' = OpenCount(x) /\ x # g
                                     /\ OpenCount(x) \in Int
    BY <2>1, <2>3 DEF OpenCount, StoreInv
  <2>5. \A x \in 1 .. nextHdl' - 1 :
          OpenCount(x)' = OpenCount(x) + IF x = g THEN 1 ELSE 0
    BY <2>4
  <2>6. g \in 0 .. nextHdl' - 1 /\ nextHdl <= nextHdl'
    BY <2>1, <2>2, <2>3
  <2> QED BY <2>3, <2>5, <2>6
<1> QED BY <1>1, <1>2, <1>3

\* wait() and signal() change one value by one, or nothing.
LEMMA ValueEffect ==
  ASSUME StoreInv, NEW h \in Nat, NEW d \in {-1, 1},
         NEW possible \in BOOLEAN,
         possible => h \in Opened /\ semas[h].value + d \in 0 .. MaxValue,
         IF possible THEN semas' = [semas EXCEPT ![h].value = @ + d]
                     ELSE UNCHANGED semas,
         UNCHANGED <<byName, nextHdl, created>>
  PROVE  /\ StoreInv'
         /\ \A x \in 1 .. nextHdl - 1 : OpenCount(x)' = OpenCount(x)
         /\ Opened' = Opened
         /\ \A x \in Opened : semas'[x].value =
              semas[x].value + IF possible /\ x = h THEN d ELSE 0
<1>1. /\ Opened' = Opened
      /\ \A x \in Opened : /\ semas'[x].name = semas[x].name
                           /\ semas'[x].openCount = semas[x].openCount
                           /\ semas'[x].value =
                                semas[x].value + IF possible /\ x = h THEN d ELSE 0
      /\ semas' \in [Opened -> [name : Names, value : Int, openCount : Int]]
  <2>1. CASE possible
    <3> DEFINE e == semas[h].value + d
    <3>1. semas' = [semas EXCEPT ![h].value = e] /\ h \in Opened
      BY <2>1
    <3>2. semas \in [Opened -> Semaphores] /\ e \in Int
      BY <3>1 DEF StoreInv, Semaphores
    <3>3. /\ semas' \in [Opened -> Semaphores]
          /\ \A x \in Opened :
               /\ semas'[x].name = semas[x].name
               /\ semas'[x].openCount = semas[x].openCount
               /\ semas'[x].value =
                    IF x = h THEN e ELSE semas[x].value
      <4> HIDE DEF e
      <4>1. \A D, f, g : D = Opened /\ f = semas /\ g = semas' =>
              /\ g \in [D -> Semaphores]
              /\ \A x \in D : /\ g[x].name = f[x].name
                              /\ g[x].openCount = f[x].openCount
                              /\ g[x].value = IF x = h THEN e ELSE f[x].value
        BY ONLY <3>1, <3>2, SetValue
      <4> QED BY <4>1
    <3>4. \A x \in Opened : semas[x].value \in Int
      BY <3>2 DEF Semaphores
    <3> QED BY <2>1, <3>2, <3>3, <3>4 DEF Opened, Semaphores
  <2>2. CASE ~ possible
    <3>1. semas' = semas
      BY <2>2
    <3>2. \A x \in Opened : semas[x].value \in Int
      BY DEF StoreInv
    <3> QED BY <2>2, <3>1, <3>2 DEF StoreInv, Opened
  <2> QED BY <2>1, <2>2
<1>2. ValueBounded'
  BY <1>1 DEF StoreInv, ValueBounded
<1>3. StoreInv'
  BY <1>1, <1>2 DEF StoreInv, IndexesAgree
<1> QED BY <1>1, <1>3 DEF OpenCount

LEMMA WaitEffect ==
  ASSUME StoreInv, NEW h \in Nat, StoreWait(h)
  PROVE  /\ StoreInv' /\ UNCHANGED <<nextHdl, created>>
         /\ \A x \in 1 .. nextHdl - 1 : OpenCount(x)' = OpenCount(x)
         /\ Opened' = Opened
         /\ \A x \in Opened : semas'[x].value =
              semas[x].value + IF CanWait(h) /\ x = h THEN -1 ELSE 0
<1>1. CanWait(h) => h \in Opened /\ semas[h].value + (-1) \in 0 .. MaxValue
  BY ParametersAssumption DEF CanWait, StoreInv, ValueBounded
<1>2. IF CanWait(h) THEN semas' = [semas EXCEPT ![h].value = @ + (-1)]
                    ELSE UNCHANGED semas
  <2>1. CASE CanWait(h)
    <3>1. semas' = [semas EXCEPT ![h].value = @ - 1]
      BY <2>1 DEF StoreWait
    <3>2. semas[h].value - 1 = semas[h].value + (-1)
      BY <1>1, <2>1 DEF StoreInv
    <3> QED BY <2>1, <3>1, <3>2
  <2> QED BY <2>1 DEF StoreWait
<1>3. UNCHANGED <<byName, nextHdl, created>> /\ CanWait(h) \in BOOLEAN
  BY DEF StoreWait, CanWait
<1> QED BY <1>1, <1>2, <1>3, ValueEffect

LEMMA SignalEffect ==
  ASSUME StoreInv, NEW h \in Nat, StoreSignal(h)
  PROVE  /\ StoreInv' /\ UNCHANGED <<nextHdl, created>>
         /\ \A x \in 1 .. nextHdl - 1 : OpenCount(x)' = OpenCount(x)
         /\ Opened' = Opened
         /\ \A x \in Opened : semas'[x].value =
              semas[x].value + IF CanSignal(h) /\ x = h THEN 1 ELSE 0
<1>1. CanSignal(h) => h \in Opened /\ semas[h].value + 1 \in 0 .. MaxValue
  BY ParametersAssumption DEF CanSignal, StoreInv, ValueBounded
<1>2. /\ IF CanSignal(h) THEN semas' = [semas EXCEPT ![h].value = @ + 1]
                         ELSE UNCHANGED semas
      /\ UNCHANGED <<byName, nextHdl, created>> /\ CanSignal(h) \in BOOLEAN
  BY DEF StoreSignal, CanSignal
<1> QED BY <1>1, <1>2, ValueEffect

LEMMA CloseEffect ==
  ASSUME StoreInv, NEW h \in Nat, StoreClose(h)
  PROVE  /\ StoreInv' /\ UNCHANGED <<nextHdl, created>>
         /\ \A x \in 1 .. nextHdl - 1 :
              OpenCount(x)' = OpenCount(x) - IF x = h /\ h \in Opened THEN 1 ELSE 0
         /\ Opened' \subseteq Opened
         /\ \A x \in Opened' : semas'[x].value = semas[x].value
<1>0. UNCHANGED <<nextHdl, created>>
  BY DEF StoreClose
<1>1. CASE h \notin Opened
  <2>1. UNCHANGED <<semas, byName>>
    BY <1>1 DEF StoreClose
  <2>2. \A x \in 1 .. nextHdl - 1 : OpenCount(x) \in Int
    BY DEF OpenCount, StoreInv
  <2>3. StoreInv' /\ Opened' = Opened
    BY <1>0, <2>1 DEF StoreInv, Opened, IndexesAgree, ValueBounded
  <2>4. \A x \in 1 .. nextHdl - 1 : OpenCount(x)' = OpenCount(x)
    BY <2>1, <2>3 DEF OpenCount
  <2> QED BY <1>0, <1>1, <2>1, <2>2, <2>3, <2>4
<1>2. CASE h \in Opened /\ LastClose(h)
  <2>1. /\ semas'  = [x \in Opened \ {h} |-> semas[x]]
        /\ byName' = [x \in DOMAIN byName \ {semas[h].name} |-> byName[x]]
    BY <1>2 DEF StoreClose
  <2>2. semas[h].openCount = 1
    BY <1>2 DEF LastClose, StoreInv
  <2>3. Opened' = Opened \ {h} /\ \A x \in Opened' : semas'[x] = semas[x]
    BY <2>1 DEF Opened
  <2>4. IndexesAgree'
    BY <1>2, <2>1, <2>3 DEF StoreInv, IndexesAgree
  <2>5. StoreInv'
    BY <1>0, <2>1, <2>3, <2>4 DEF StoreInv, ValueBounded
  <2>6. \A x \in 1 .. nextHdl - 1 :
          OpenCount(x)' = OpenCount(x) - IF x = h /\ h \in Opened THEN 1 ELSE 0
    BY <1>2, <2>2, <2>3 DEF OpenCount, StoreInv
  <2> QED BY <1>0, <2>3, <2>5, <2>6
<1>3. CASE h \in Opened /\ ~ LastClose(h)
  <2>1. semas' = [semas EXCEPT ![h].openCount = @ - 1] /\ UNCHANGED byName
    BY <1>3 DEF StoreClose
  <2>2. semas[h].openCount > 1
    BY <1>3 DEF LastClose, StoreInv
  <2>3. /\ Opened' = Opened
        /\ \A x \in Opened : /\ semas'[x].name = semas[x].name
                             /\ semas'[x].value = semas[x].value
                             /\ semas'[x].openCount =
                                  semas[x].openCount - IF x = h THEN 1 ELSE 0
        /\ semas' \in [Opened -> [name : Names, value : Int, openCount : Int]]
    <3>1. semas \in [Opened -> Semaphores] /\ semas[h].openCount - 1 \in Int
      BY <1>3 DEF StoreInv, Semaphores
    <3>2. semas' = [semas EXCEPT ![h].openCount = semas[h].openCount - 1]
      BY <2>1
    <3>3. /\ semas' \in [Opened -> Semaphores]
          /\ \A x \in Opened :
               /\ semas'[x].name = semas[x].name /\ semas'[x].value = semas[x].value
               /\ semas'[x].openCount =
                    IF x = h THEN semas[h].openCount - 1 ELSE semas[x].openCount
      BY <1>3, <3>1, <3>2, SetOpenCount
    <3> QED BY <3>1, <3>3 DEF Opened, Semaphores
  <2>4. \A x \in Opened' : semas'[x].openCount > 0
    <3>1. \A x \in Opened : semas[x].openCount \in Int /\ semas[x].openCount > 0
      BY DEF StoreInv
    <3> QED BY <2>2, <2>3, <3>1
  <2>5. StoreInv'
    <3>1. IndexesAgree'
      BY <2>1, <2>3 DEF StoreInv, IndexesAgree
    <3>2. ValueBounded'
      BY <2>3 DEF StoreInv, ValueBounded
    <3> QED BY <1>0, <2>1, <2>3, <2>4, <3>1, <3>2 DEF StoreInv
  <2>6. \A x \in 1 .. nextHdl - 1 :
          OpenCount(x)' = OpenCount(x) - IF x = h /\ h \in Opened THEN 1 ELSE 0
    BY <1>3, <2>3 DEF OpenCount
  <2> QED BY <1>0, <2>3, <2>5, <2>6
<1> QED BY <1>1, <1>2, <1>3
-----------------------------------------------------------------------------
(***************************************************************************)
(* The invariant.                                                          *)
(***************************************************************************)

LEMMA FiniteCounts ==
  ASSUME ProgramOK, NEW h
  PROVE  /\ IsFiniteSet(Live(h)) /\ Cardinality(Live(h)) \in Nat
         /\ IsFiniteSet(Held(h)) /\ Cardinality(Held(h)) \in Nat
<1>1. Live(h) \subseteq Openings /\ Held(h) \subseteq Openings
  BY DEF ProgramOK, Live, Held
<1> QED BY <1>1, ParametersAssumption, FS_Subset, FS_CardinalityType

\* Live(h) is unchanged, gains the opening o, or loses it; so is Held(h).
LEMMA CountOf ==
  ASSUME NEW S, NEW T, NEW o, IsFiniteSet(S)
  PROVE  /\ T = S \cup {o} /\ o \notin S => Cardinality(T) = Cardinality(S) + 1
         /\ T = S \ {o} /\ o \in S => /\ Cardinality(T) = Cardinality(S) - 1
                                     /\ Cardinality(T) \in Nat
  BY FS_AddElement, FS_RemoveElement, FS_CardinalityType

\* What the kind of a request says of its other fields.
LEMMA RequestParts ==
  ASSUME NEW r \in Requests \cup {NoRequest}
  PROVE  /\ r.op \in {"open", "wait", "signal", "close", "none"}
         /\ r.op = "none" <=> r = NoRequest
         /\ r.op = "open" => r.name \in Names /\ r.init \in InitialValues
         /\ r.op \in {"wait", "signal", "close"} => r.handle \in Nat
<1>1. CASE r \in [op : {"open"}, name : Names, init : InitialValues]
  BY <1>1 DEF NoRequest
<1>2. CASE r \in [op : {"wait", "signal", "close"}, handle : Nat]
  BY <1>2 DEF NoRequest
<1>3. CASE r = NoRequest
  BY <1>3 DEF NoRequest
<1> QED BY <1>1, <1>2, <1>3 DEF Requests

\* What an opening's call says depends on that opening alone.
LEMMA SameCall ==
  ASSUME NEW p, OneCall(p), req'[p] = req[p], phase'[p] = phase[p], hdl'[p] = hdl[p],
         p \in done' <=> p \in done, p \in holds' <=> p \in holds
  PROVE  OneCall(p)'
BY DEF OneCall

LEMMA SameCalls ==
  ASSUME CallsInv, UNCHANGED <<req, phase, hdl, done, holds>>
  PROVE  CallsInv'
<1> SUFFICES ASSUME NEW p \in Openings PROVE OneCall(p)'
  BY DEF CallsInv
<1> QED BY SameCall DEF CallsInv

\* No semaphore and no opening is touched when the counts stay as they were.
LEMMA SameCounts ==
  ASSUME SemaInv, UNCHANGED <<hdl, dups, lost, nextHdl>>,
         \A x \in 1 .. nextHdl - 1 : OpenCount(x)' = OpenCount(x)
  PROVE  CountsInv'
<1> SUFFICES ASSUME NEW x \in 1 .. nextHdl - 1
             PROVE  (OpenCount(x) - Cardinality(Live(x)) \in -dups .. dups + lost)'
  BY DEF CountsInv
<1>1. Live(x)' = Live(x)
  BY DEF Live
<1> QED BY <1>1 DEF SemaInv, CountsInv

LEMMA SameStore ==
  ASSUME StoreInv, UNCHANGED store
  PROVE  /\ StoreInv' /\ Opened' = Opened /\ nextHdl' = nextHdl
         /\ semas' = semas /\ created' = created
         /\ \A x : OpenCount(x)' = OpenCount(x)
BY DEF store, StoreInv, IndexesAgree, ValueBounded, Opened, OpenCount

\* Sending a request changes nothing but the call that is on its way.
LEMMA AskStep ==
  ASSUME SemaInv, NEW o \in Openings,
         \/ \E n \in Names, v \in InitialValues : OpenSema(o, n, v)
         \/ WaitSema(o) \/ SignalSema(o) \/ CloseSema(o)
  PROVE  SemaInv'
<1>1. /\ StoreInv /\ ProgramOK /\ CallsInv /\ UnitsConserved
      /\ hdl[o] \in Nat /\ phase[o] \in Phases
  BY DEF SemaInv, StoreInv, ProgramOK
<1>2. PICK r \in Requests :
        /\ Ask(o, r)
        /\ \/ r.op = "open" /\ phase[o] = "idle"
           \/ /\ r.op \in {"wait", "close"} /\ r.handle = hdl[o]
              /\ phase[o] = "open" /\ o \notin holds
           \/ r.op = "signal" /\ r.handle = hdl[o] /\ phase[o] = "open" /\ o \in holds
  <2>1. \A n \in Names, v \in InitialValues :
          OpenRequest(n, v) \in Requests /\ OpenRequest(n, v).op = "open"
    BY DEF OpenRequest, Requests
  <2>2. \A op \in {"wait", "signal", "close"} :
          /\ OnHandle(op, hdl[o]) \in Requests /\ OnHandle(op, hdl[o]).op = op
          /\ OnHandle(op, hdl[o]).handle = hdl[o]
    BY <1>1 DEF OnHandle, Requests
  <2>3. CASE \E n \in Names, v \in InitialValues : OpenSema(o, n, v)
    BY <2>1, <2>3 DEF OpenSema
  <2>4. CASE WaitSema(o)
    BY <2>2, <2>4 DEF WaitSema
  <2>5. CASE SignalSema(o)
    BY <2>2, <2>5 DEF SignalSema
  <2>6. CASE CloseSema(o)
    BY <2>2, <2>6 DEF CloseSema
  <2> QED BY <2>3, <2>4, <2>5, <2>6
<1>3. /\ req[o] = NoRequest /\ req' = [req EXCEPT ![o] = r] /\ sent' = sent \cup {r}
      /\ UNCHANGED <<phase, done, hdl, holds, dups, lost>> /\ UNCHANGED store
  BY <1>2 DEF Ask
<1>4. /\ StoreInv' /\ Opened' = Opened /\ nextHdl' = nextHdl
      /\ semas' = semas /\ created' = created
      /\ \A x : OpenCount(x)' = OpenCount(x)
  BY <1>1, <1>3, SameStore
<1>5. o \notin done
  BY <1>1, <1>3 DEF ProgramOK
<1>6. ProgramOK'
  <2>1. req' \in [Openings -> Requests \cup {NoRequest}]
    BY <1>1, <1>2, <1>3 DEF ProgramOK
  <2>2. \A p \in done : req'[p] # NoRequest
    BY <1>1, <1>3, <1>5 DEF ProgramOK
  <2> QED BY <1>1, <1>3, <1>4, <2>1, <2>2 DEF ProgramOK
<1>7. CallsInv'
  <2> SUFFICES ASSUME NEW p \in Openings PROVE OneCall(p)'
    BY DEF CallsInv
  <2>1. CASE p # o
    <3>1. req'[p] = req[p]
      BY <1>1, <1>3, <2>1 DEF ProgramOK
    <3> QED BY <1>1, <1>3, <3>1, SameCall DEF CallsInv
  <2>2. CASE p = o
    <3>1. req'[o] = r
      BY <1>1, <1>3 DEF ProgramOK
    <3>2. OneCall(o)
      BY <1>1 DEF CallsInv
    <3> QED BY <1>2, <1>3, <1>5, <2>2, <3>1, <3>2 DEF OneCall
  <2> QED BY <2>1, <2>2
<1>8. CountsInv'
  BY <1>3, <1>4, SameCounts
<1>9. UnitsConserved'
  <2>1. \A x : Held(x)' = Held(x)
    BY <1>3 DEF Held
  <2> QED BY <1>1, <1>3, <1>4, <2>1 DEF UnitsConserved
<1> QED BY <1>4, <1>6, <1>7, <1>8, <1>9 DEF SemaInv

\* What the four operations of the server have in common.
LEMMA ServeStep ==
  ASSUME SemaInv, NEW o \in Openings, NEW op \in {"open", "wait", "signal", "close"},
         Asked(o, op), Answered(o), nextHdl <= nextHdl', nextHdl' \in Nat,
         hdl' \in [Openings -> 0 .. nextHdl' - 1], holds' \subseteq Openings,
         \A p \in Openings \ {o} : hdl'[p] = hdl[p] /\ (p \in holds' <=> p \in holds),
         op \in {"open", "close"} => o \notin holds'
  PROVE  ProgramOK' /\ CallsInv'
<1>1. /\ ProgramOK /\ CallsInv /\ req[o].op = op /\ o \notin done
      /\ done' = done \cup {o} /\ UNCHANGED <<phase, req, sent, dups, lost>>
  BY DEF SemaInv, Asked, Answered
<1>2. req[o] # NoRequest
  BY <1>1 DEF NoRequest
<1>3. ProgramOK'
  BY <1>1, <1>2 DEF ProgramOK
<1>4. CallsInv'
  <2> SUFFICES ASSUME NEW p \in Openings PROVE OneCall(p)'
    BY DEF CallsInv
  <2>1. CASE p # o
    BY <1>1, <2>1, SameCall DEF CallsInv
  <2>2. CASE p = o
    <3>1. OneCall(o)
      BY <1>1 DEF CallsInv
    <3> QED BY <1>1, <2>2, <3>1 DEF OneCall
  <2> QED BY <2>1, <2>2
<1> QED BY <1>3, <1>4

LEMMA OpenStep ==
  ASSUME SemaInv, NEW o \in Openings, ServeOpen(o) PROVE SemaInv'
<1>0. PICK n, v : n = req[o].name /\ v = req[o].init
  OBVIOUS
<1> DEFINE g == OpenHandle(n, v)
<1>1. /\ Asked(o, "open") /\ Answered(o) /\ StoreOpen(n, v)
      /\ UNCHANGED <<holds, dups, lost>>
      /\ hdl' = [hdl EXCEPT ![o] = g]
  BY <1>0 DEF ServeOpen, Answered
<1>2. /\ n \in Names /\ v \in InitialValues /\ o \notin holds /\ hdl[o] = 0
      /\ StoreInv /\ ProgramOK /\ nextHdl \in Nat /\ dups \in Nat /\ lost \in Nat
  <2>1. StoreInv /\ ProgramOK /\ OneCall(o)
    BY DEF SemaInv, CallsInv
  <2>2. req[o].op = "open" /\ o \notin done
    BY <1>1 DEF Asked
  <2>3. req[o] \in Requests \cup {NoRequest}
    BY <2>1 DEF ProgramOK
  <2>4. n \in Names /\ v \in InitialValues
    BY <1>0, <2>2, <2>3, RequestParts
  <2>5. o \notin holds /\ hdl[o] = 0
    BY <2>1, <2>2 DEF OneCall
  <2>6. nextHdl \in Nat
    BY <2>1 DEF StoreInv
  <2>7. dups \in Nat /\ lost \in Nat
    BY <2>1, ParametersAssumption DEF ProgramOK
  <2> QED BY <2>1, <2>4, <2>5, <2>6, <2>7
<1>3. /\ StoreInv' /\ nextHdl <= nextHdl' /\ g \in 0 .. nextHdl' - 1
      /\ \A x \in 1 .. nextHdl' - 1 :
           OpenCount(x)' = OpenCount(x) + IF x = g THEN 1 ELSE 0
      /\ \A x \in Opened' :
           \/ /\ x \in Opened /\ semas'[x].value = semas[x].value
              /\ created'[x] = created[x]
           \/ x = nextHdl /\ semas'[x].value = created'[x]
  BY <1>1, <1>2, OpenEffect
<1> HIDE DEF g
<1>4. nextHdl' \in Nat
  BY <1>3 DEF StoreInv
<1>5. ProgramOK' /\ CallsInv'
  <2>1. 0 .. nextHdl - 1 \subseteq 0 .. nextHdl' - 1
    <3>1. \A a, b \in Nat : a <= b => 0 .. a - 1 \subseteq 0 .. b - 1
      OBVIOUS
    <3> QED BY <1>2, <1>3, <1>4, <3>1
  <2>2. hdl' \in [Openings -> 0 .. nextHdl' - 1]
    BY <1>1, <1>2, <1>3, <2>1 DEF ProgramOK
  <2>3. \A p \in Openings \ {o} : hdl'[p] = hdl[p] /\ (p \in holds' <=> p \in holds)
    BY <1>1, <1>2 DEF ProgramOK
  <2>4. holds' \subseteq Openings /\ o \notin holds'
    BY <1>1, <1>2 DEF ProgramOK
  <2> QED BY <1>1, <1>3, <1>4, <2>2, <2>3, <2>4, ServeStep
<1>6. CountsInv'
  <2> SUFFICES ASSUME NEW x \in 1 .. nextHdl' - 1
               PROVE  (OpenCount(x) - Cardinality(Live(x)) \in -dups .. dups + lost)'
    BY DEF CountsInv
  <2>1. IF x = g THEN Live(x)' = Live(x) \cup {o} /\ o \notin Live(x)
                 ELSE Live(x)' = Live(x)
    BY <1>1, <1>2 DEF Live, ProgramOK
  <2>2. Cardinality(Live(x))' = Cardinality(Live(x)) + IF x = g THEN 1 ELSE 0
    <3>1. IsFiniteSet(Live(x)) /\ Cardinality(Live(x)) \in Nat
      BY <1>2, FiniteCounts
    <3> QED BY <2>1, <3>1, CountOf
  <2>3. OpenCount(x) \in Int
    BY <1>2 DEF OpenCount, StoreInv
  <2>4. OpenCount(x) - Cardinality(Live(x)) \in -dups .. dups + lost
    <3>1. CASE x \in 1 .. nextHdl - 1
      BY <3>1 DEF SemaInv, CountsInv
    <3>2. CASE x \notin 1 .. nextHdl - 1
      <4>1. OpenCount(x) = 0
        BY <1>2, <3>2 DEF OpenCount, StoreInv
      <4>2. Live(x) = {}
        BY <1>2, <3>2 DEF Live, ProgramOK
      <4>3. Cardinality(Live(x)) = 0
        BY <4>2, FS_EmptySet
      <4> QED BY <1>2, <4>1, <4>3
    <3> QED BY <3>1, <3>2
  <2>5. Cardinality(Live(x)) \in Nat /\ dups \in Int /\ lost \in Int
    BY <1>2, FiniteCounts
  <2>6. OpenCount(x)' = OpenCount(x) + IF x = g THEN 1 ELSE 0
    BY <1>3
  <2> QED BY <1>1, <2>2, <2>3, <2>4, <2>5, <2>6
<1>7. UnitsConserved'
  <2> SUFFICES ASSUME NEW x \in Opened'
               PROVE  (semas[x].value + Cardinality(Held(x)) - created[x] \in -(dups + lost) .. dups)'
    BY DEF UnitsConserved
  <2>1. Held(x)' = Held(x)
    BY <1>1, <1>2 DEF Held, ProgramOK
  <2>2. CASE x \in Opened /\ semas'[x].value = semas[x].value /\ created'[x] = created[x]
    BY <1>1, <2>1, <2>2 DEF SemaInv, UnitsConserved
  <2>3. CASE x = nextHdl /\ semas'[x].value = created'[x]
    <3>1. Held(x) = {}
      BY <1>2, <2>3 DEF Held, ProgramOK
    <3>2. Cardinality(Held(x))' = 0
      BY <2>1, <3>1, FS_EmptySet
    <3>3. created'[x] \in Int
      BY <1>3 DEF StoreInv
    <3> QED BY <1>1, <1>2, <2>3, <3>2, <3>3
  <2> QED BY <1>3, <2>2, <2>3
<1> QED BY <1>3, <1>5, <1>6, <1>7 DEF SemaInv

\* A wait, signal or close at the server: one lemma for what they share.
LEMMA HandleStep ==
  ASSUME SemaInv, NEW o \in Openings, NEW op \in {"wait", "signal", "close"},
         NEW h, h = req[o].handle, Asked(o, op)
  PROVE  /\ ProgramOK /\ StoreInv /\ OneCall(o) /\ hdl[o] = h /\ h \in Nat
         /\ nextHdl \in Nat /\ dups \in Nat /\ lost \in Nat
<1>1. ProgramOK /\ StoreInv /\ OneCall(o)
  BY DEF SemaInv, CallsInv
<1>2. hdl[o] = h
  BY <1>1 DEF Asked, OneCall
<1>3. nextHdl \in Nat \ {0} /\ hdl[o] \in 0 .. nextHdl - 1
  BY <1>1 DEF StoreInv, ProgramOK
<1>4. dups \in Nat /\ lost \in Nat
  BY <1>1, ParametersAssumption DEF ProgramOK
<1> QED BY <1>1, <1>2, <1>3, <1>4

LEMMA WaitStep ==
  ASSUME SemaInv, NEW o \in Openings, ServeWait(o) PROVE SemaInv'
<1>0. PICK h : h = req[o].handle
  OBVIOUS
<1>1. /\ Asked(o, "wait") /\ Answered(o) /\ StoreWait(h)
      /\ holds' = IF CanWait(h) THEN holds \cup {o} ELSE holds
      /\ UNCHANGED <<hdl, dups, lost>>
  BY <1>0 DEF ServeWait, Answered
<1>2. /\ ProgramOK /\ StoreInv /\ OneCall(o) /\ hdl[o] = h /\ h \in Nat
      /\ nextHdl \in Nat /\ dups \in Nat /\ lost \in Nat
  BY <1>0, <1>1, HandleStep
<1>3. /\ StoreInv' /\ UNCHANGED <<nextHdl, created>>
      /\ \A x \in 1 .. nextHdl - 1 : OpenCount(x)' = OpenCount(x)
      /\ Opened' = Opened
      /\ \A x \in Opened : semas'[x].value =
           semas[x].value + IF CanWait(h) /\ x = h THEN -1 ELSE 0
  BY <1>1, <1>2, WaitEffect
<1>4. o \notin holds
  BY <1>1, <1>2 DEF Asked, OneCall
<1>5. UnitsConserved'
  <2> SUFFICES ASSUME NEW x \in Opened
               PROVE  (semas[x].value + Cardinality(Held(x)) - created[x] \in -(dups + lost) .. dups)'
    BY <1>3 DEF UnitsConserved
  <2>1. IF CanWait(h) /\ x = h THEN Held(x)' = Held(x) \cup {o} /\ o \notin Held(x)
                              ELSE Held(x)' = Held(x)
    BY <1>1, <1>2, <1>4 DEF Held
  <2>2. IsFiniteSet(Held(x)) /\ Cardinality(Held(x)) \in Nat
    BY <1>2, FiniteCounts
  <2>3. Cardinality(Held(x))' =
          Cardinality(Held(x)) + IF CanWait(h) /\ x = h THEN 1 ELSE 0
    BY <2>1, <2>2, CountOf
  <2>4. /\ semas[x].value + Cardinality(Held(x)) - created[x] \in -(dups + lost) .. dups
        /\ semas[x].value \in Int /\ created[x] \in Int
    BY <1>2 DEF SemaInv, UnitsConserved, StoreInv
  <2>5. semas'[x].value = semas[x].value + IF CanWait(h) /\ x = h THEN -1 ELSE 0
    BY <1>3
  <2> QED BY <1>1, <1>2, <1>3, <2>2, <2>3, <2>4, <2>5
<1>6. CountsInv'
  BY <1>1, <1>3, SameCounts
<1>7. ProgramOK' /\ CallsInv'
  <2>1. holds' \subseteq Openings /\ \A p \in Openings \ {o} : p \in holds' <=> p \in holds
    BY <1>1, <1>2 DEF ProgramOK
  <2>2. hdl' \in [Openings -> 0 .. nextHdl' - 1] /\ nextHdl' = nextHdl
    BY <1>1, <1>2, <1>3 DEF ProgramOK
  <2> QED BY <1>1, <1>2, <2>1, <2>2, ServeStep
<1> QED BY <1>3, <1>5, <1>6, <1>7 DEF SemaInv

\* A signal that is refused because the value is at its largest takes a unit
\* from its program all the same: there was one too many, a repeated signal's.
LEMMA SignalStep ==
  ASSUME SemaInv, NEW o \in Openings, ServeSignal(o) PROVE SemaInv'
<1>0. PICK h : h = req[o].handle
  OBVIOUS
<1>1. /\ Asked(o, "signal") /\ Answered(o) /\ StoreSignal(h)
      /\ holds' = holds \ {o}
      /\ UNCHANGED <<hdl, dups, lost>>
  BY <1>0 DEF ServeSignal, Answered
<1>2. /\ ProgramOK /\ StoreInv /\ OneCall(o) /\ hdl[o] = h /\ h \in Nat
      /\ nextHdl \in Nat /\ dups \in Nat /\ lost \in Nat
  BY <1>0, <1>1, HandleStep
<1>3. /\ StoreInv' /\ UNCHANGED <<nextHdl, created>>
      /\ \A x \in 1 .. nextHdl - 1 : OpenCount(x)' = OpenCount(x)
      /\ Opened' = Opened
      /\ \A x \in Opened : semas'[x].value =
           semas[x].value + IF CanSignal(h) /\ x = h THEN 1 ELSE 0
  BY <1>1, <1>2, SignalEffect
<1>4. o \in holds
  BY <1>1, <1>2 DEF Asked, OneCall
<1>5. UnitsConserved'
  <2> SUFFICES ASSUME NEW x \in Opened
               PROVE  (semas[x].value + Cardinality(Held(x)) - created[x] \in -(dups + lost) .. dups)'
    BY <1>3 DEF UnitsConserved
  <2>1. IF x = h THEN Held(x)' = Held(x) \ {o} /\ o \in Held(x)
                 ELSE Held(x)' = Held(x)
    BY <1>1, <1>2, <1>4 DEF Held
  <2>2. IsFiniteSet(Held(x)) /\ Cardinality(Held(x)) \in Nat
    BY <1>2, FiniteCounts
  <2>3. /\ Cardinality(Held(x))' = Cardinality(Held(x)) - IF x = h THEN 1 ELSE 0
        /\ Cardinality(Held(x))' \in Nat
    BY <2>1, <2>2, CountOf
  <2>4. /\ semas[x].value + Cardinality(Held(x)) - created[x] \in -(dups + lost) .. dups
        /\ semas[x].value \in 0 .. MaxValue /\ created[x] \in 0 .. MaxValue
        /\ MaxValue \in Nat
    BY <1>2, ParametersAssumption
    DEF SemaInv, UnitsConserved, StoreInv, ValueBounded
  <2>5. semas'[x].value = semas[x].value + IF CanSignal(h) /\ x = h THEN 1 ELSE 0
    BY <1>3
  <2>6. CASE x # h \/ CanSignal(h)
    BY <1>1, <1>2, <1>3, <2>2, <2>3, <2>4, <2>5, <2>6
  <2>7. CASE x = h /\ ~ CanSignal(h)
    <3>1. semas[x].value = MaxValue
      BY <2>4, <2>7 DEF CanSignal
    <3> QED BY <1>1, <1>2, <1>3, <2>2, <2>3, <2>4, <2>5, <2>7, <3>1
  <2> QED BY <2>6, <2>7
<1>6. CountsInv'
  BY <1>1, <1>3, SameCounts
<1>7. ProgramOK' /\ CallsInv'
  <2>1. holds' \subseteq Openings /\ \A p \in Openings \ {o} : p \in holds' <=> p \in holds
    BY <1>1, <1>2 DEF ProgramOK
  <2>2. hdl' \in [Openings -> 0 .. nextHdl' - 1] /\ nextHdl' = nextHdl
    BY <1>1, <1>2, <1>3 DEF ProgramOK
  <2> QED BY <1>1, <1>2, <2>1, <2>2, ServeStep
<1> QED BY <1>3, <1>5, <1>6, <1>7 DEF SemaInv

LEMMA CloseStep ==
  ASSUME SemaInv, NEW o \in Openings, ServeClose(o) PROVE SemaInv'
<1>0. PICK h : h = req[o].handle
  OBVIOUS
<1>1. /\ Asked(o, "close") /\ Answered(o) /\ StoreClose(h)
      /\ hdl' = [hdl EXCEPT ![o] = 0]
      /\ UNCHANGED <<holds, dups, lost>>
  BY <1>0 DEF ServeClose, Answered
<1>2. /\ ProgramOK /\ StoreInv /\ OneCall(o) /\ hdl[o] = h /\ h \in Nat
      /\ nextHdl \in Nat /\ dups \in Nat /\ lost \in Nat
  BY <1>0, <1>1, HandleStep
<1>3. /\ StoreInv' /\ UNCHANGED <<nextHdl, created>>
      /\ \A x \in 1 .. nextHdl - 1 :
           OpenCount(x)' = OpenCount(x) - IF x = h /\ h \in Opened THEN 1 ELSE 0
      /\ Opened' \subseteq Opened
      /\ \A x \in Opened' : semas'[x].value = semas[x].value
  BY <1>1, <1>2, CloseEffect
<1>4. o \notin holds
  BY <1>1, <1>2 DEF Asked, OneCall
<1>5. UnitsConserved'
  <2>1. \A x : Held(x)' = Held(x)
    BY <1>1, <1>2, <1>4 DEF Held, ProgramOK
  <2> QED BY <1>1, <1>3, <2>1 DEF SemaInv, UnitsConserved
<1>6. CountsInv'
  <2> SUFFICES ASSUME NEW x \in 1 .. nextHdl - 1
               PROVE  (OpenCount(x) - Cardinality(Live(x)) \in -dups .. dups + lost)'
    BY <1>3 DEF CountsInv
  <2>1. IF x = h THEN Live(x)' = Live(x) \ {o} /\ o \in Live(x)
                 ELSE Live(x)' = Live(x)
    BY <1>1, <1>2 DEF Live, ProgramOK
  <2>2. IsFiniteSet(Live(x)) /\ Cardinality(Live(x)) \in Nat
    BY <1>2, FiniteCounts
  <2>3. /\ Cardinality(Live(x))' = Cardinality(Live(x)) - IF x = h THEN 1 ELSE 0
        /\ Cardinality(Live(x))' \in Nat
    BY <2>1, <2>2, CountOf
  <2>4. /\ OpenCount(x) - Cardinality(Live(x)) \in -dups .. dups + lost
        /\ OpenCount(x) \in Int
        /\ x \notin Opened => OpenCount(x) = 0
    BY <1>2 DEF SemaInv, CountsInv, OpenCount, StoreInv
  <2>5. OpenCount(x)' = OpenCount(x) - IF x = h /\ h \in Opened THEN 1 ELSE 0
    BY <1>3
  <2> QED BY <1>1, <1>2, <2>2, <2>3, <2>4, <2>5
<1>7. ProgramOK' /\ CallsInv'
  <2>1. nextHdl' = nextHdl /\ nextHdl \in Nat \ {0} /\ 0 \in 0 .. nextHdl - 1
    BY <1>2, <1>3 DEF StoreInv
  <2>2. hdl' \in [Openings -> 0 .. nextHdl' - 1]
    BY <1>1, <1>2, <2>1 DEF ProgramOK
  <2>3. \A p \in Openings \ {o} : hdl'[p] = hdl[p] /\ (p \in holds' <=> p \in holds)
    BY <1>1, <1>2 DEF ProgramOK
  <2>4. holds' \subseteq Openings /\ o \notin holds'
    BY <1>1, <1>2, <1>4 DEF ProgramOK
  <2> QED BY <1>1, <1>2, <2>1, <2>2, <2>3, <2>4, ServeStep
<1> QED BY <1>3, <1>5, <1>6, <1>7 DEF SemaInv

\* A call ends, with its answer or without one.
LEMMA EndStep ==
  ASSUME SemaInv, NEW o \in Openings, NEW p \in {"open", "closed", "failed"}, End(o, p),
         hdl' \in [Openings -> 0 .. nextHdl - 1],
         \A q \in Openings \ {o} : hdl'[q] = hdl[q],
         holds' \in {holds, holds \ {o}}, lost' \in 0 .. MaxLost
  PROVE  ProgramOK' /\ CallsInv'
<1>1. /\ ProgramOK /\ CallsInv /\ UNCHANGED <<sent, dups, nextHdl>>
      /\ phase' = [phase EXCEPT ![o] = p]
      /\ req' = [req EXCEPT ![o] = NoRequest] /\ done' = done \ {o}
  BY DEF SemaInv, End, store
<1>2. ProgramOK'
  <2>1. phase' \in [Openings -> Phases] /\ req' \in [Openings -> Requests \cup {NoRequest}]
    BY <1>1 DEF ProgramOK, Phases
  <2>2. done' \subseteq {q \in Openings : req'[q] # NoRequest}
    BY <1>1 DEF ProgramOK
  <2> QED BY <1>1, <2>1, <2>2 DEF ProgramOK
<1>3. ASSUME NEW q \in Openings PROVE OneCall(q)'
  <2>1. CASE q # o
    BY <1>1, <2>1, SameCall DEF CallsInv, ProgramOK
  <2>2. CASE q = o
    <3>1. req'[o] = NoRequest /\ phase'[o] = p /\ NoRequest.op = "none"
      BY <1>1 DEF ProgramOK, NoRequest
    <3> QED BY <2>2, <3>1 DEF OneCall
  <2> QED BY <2>1, <2>2
<1> QED BY <1>2, <1>3 DEF CallsInv

LEMMA ReturnStep ==
  ASSUME SemaInv, NEW o \in Openings, Return(o) PROVE SemaInv'
<1>1. UNCHANGED <<hdl, holds, lost, dups>> /\ UNCHANGED store
  BY DEF Return, End
<1>2. StoreInv /\ ProgramOK /\ UnitsConserved
  BY DEF SemaInv
<1>3. PICK p \in {"open", "closed", "failed"} : End(o, p)
  BY DEF Return
<1>4. ProgramOK' /\ CallsInv'
  BY <1>1, <1>2, <1>3, EndStep DEF ProgramOK
<1>5. /\ StoreInv' /\ Opened' = Opened /\ nextHdl' = nextHdl
      /\ semas' = semas /\ created' = created
      /\ \A x : OpenCount(x)' = OpenCount(x)
  BY <1>1, <1>2, SameStore
<1>6. CountsInv'
  BY <1>1, <1>5, SameCounts
<1>7. UnitsConserved'
  <2>1. \A x : Held(x)' = Held(x)
    BY <1>1 DEF Held
  <2> QED BY <1>1, <1>2, <1>5, <2>1 DEF UnitsConserved
<1> QED BY <1>4, <1>5, <1>6, <1>7 DEF SemaInv

\* A call given up costs its opening at most the handle and the unit it had.
LEMMA GiveUpStep ==
  ASSUME SemaInv, NEW o \in Openings, GiveUp(o) PROVE SemaInv'
<1>1. /\ lost' = lost + 1 /\ lost < MaxLost /\ holds' = holds \ {o}
      /\ UNCHANGED dups /\ UNCHANGED store
      /\ hdl' \in {hdl, [hdl EXCEPT ![o] = 0]}
  BY DEF GiveUp, End
<1>2. /\ StoreInv /\ ProgramOK /\ UnitsConserved /\ CountsInv
      /\ dups \in Nat /\ lost \in Nat /\ nextHdl \in Nat \ {0}
  <2>1. StoreInv /\ ProgramOK /\ UnitsConserved /\ CountsInv
    BY DEF SemaInv
  <2>2. nextHdl \in Nat \ {0}
    BY <2>1 DEF StoreInv
  <2>3. dups \in Nat /\ lost \in Nat
    BY <2>1, ParametersAssumption DEF ProgramOK
  <2> QED BY <2>1, <2>2, <2>3
<1>3. PICK p \in {"open", "closed", "failed"} : End(o, p)
  BY DEF GiveUp
<1>4. /\ hdl' \in [Openings -> 0 .. nextHdl - 1]
      /\ \A q \in Openings \ {o} : hdl'[q] = hdl[q]
  <2>1. hdl \in [Openings -> 0 .. nextHdl - 1] /\ 0 \in 0 .. nextHdl - 1
    BY <1>2 DEF ProgramOK
  <2> QED BY <1>1, <2>1
<1>5. ProgramOK' /\ CallsInv'
  <2>1. lost' \in 0 .. MaxLost
    BY <1>1, <1>2, ParametersAssumption
  <2> QED BY <1>1, <1>3, <1>4, <2>1, EndStep
<1>6. /\ StoreInv' /\ Opened' = Opened /\ nextHdl' = nextHdl
      /\ semas' = semas /\ created' = created
      /\ \A x : OpenCount(x)' = OpenCount(x)
  BY <1>1, <1>2, SameStore
<1>7. CountsInv'
  <2> SUFFICES ASSUME NEW x \in 1 .. nextHdl - 1
               PROVE  (OpenCount(x) - Cardinality(Live(x)) \in -dups .. dups + lost)'
    BY <1>6 DEF CountsInv
  <2>1. Live(x)' = Live(x) \/ (Live(x)' = Live(x) \ {o} /\ o \in Live(x))
    BY <1>1, <1>2 DEF Live, ProgramOK
  <2>2. IsFiniteSet(Live(x)) /\ Cardinality(Live(x)) \in Nat
    BY <1>2, FiniteCounts
  <2>3. \/ Cardinality(Live(x))' = Cardinality(Live(x))
        \/ Cardinality(Live(x))' = Cardinality(Live(x)) - 1
    BY <2>1, <2>2, CountOf
  <2>4. OpenCount(x) - Cardinality(Live(x)) \in -dups .. dups + lost
    BY <1>2 DEF CountsInv
  <2>5. OpenCount(x) \in Int /\ OpenCount(x)' = OpenCount(x)
    BY <1>2, <1>6 DEF OpenCount, StoreInv
  <2> QED BY <1>1, <1>2, <2>2, <2>3, <2>4, <2>5
<1>8. UnitsConserved'
  <2> SUFFICES ASSUME NEW x \in Opened
               PROVE  (semas[x].value + Cardinality(Held(x)) - created[x] \in -(dups + lost) .. dups)'
    BY <1>6 DEF UnitsConserved
  <2>1. Held(x)' = Held(x) \/ (Held(x)' = Held(x) \ {o} /\ o \in Held(x))
    BY <1>1, <1>4, <1>2 DEF Held, ProgramOK
  <2>2. IsFiniteSet(Held(x)) /\ Cardinality(Held(x)) \in Nat
    BY <1>2, FiniteCounts
  <2>3. \/ Cardinality(Held(x))' = Cardinality(Held(x))
        \/ Cardinality(Held(x))' = Cardinality(Held(x)) - 1
    BY <2>1, <2>2, CountOf
  <2>4. /\ semas[x].value + Cardinality(Held(x)) - created[x] \in -(dups + lost) .. dups
        /\ semas[x].value \in Int /\ created[x] \in Int
    BY <1>2 DEF UnitsConserved, StoreInv
  <2> QED BY <1>1, <1>2, <1>6, <2>2, <2>3, <2>4
<1> QED BY <1>5, <1>6, <1>7, <1>8 DEF SemaInv

LEMMA RedeliverStep ==
  ASSUME SemaInv, NEW r \in sent, Redeliver(r) PROVE SemaInv'
<1>1. /\ ProgramOK /\ StoreInv /\ CountsInv /\ UnitsConserved
      /\ UNCHANGED <<phase, req, done, hdl, holds, sent, lost>> /\ CallsInv
      /\ dups \in Nat /\ dups' = dups + 1 /\ dups' \in 0 .. MaxDup /\ lost \in Nat
  BY ParametersAssumption DEF SemaInv, ProgramOK, Redeliver, program
<1>2. \/ r.op = "open" /\ StoreOpen(r.name, r.init)
         /\ r.name \in Names /\ r.init \in InitialValues
      \/ StoreWait(r.handle) /\ r.handle \in Nat
      \/ StoreSignal(r.handle) /\ r.handle \in Nat
      \/ StoreClose(r.handle) /\ r.handle \in Nat
  <2>1. r \in Requests \cup {NoRequest}
    BY <1>1 DEF ProgramOK
  <2> QED BY <2>1, RequestParts DEF Redeliver
\* One operation moves each count and each value by at most one.
<1>3. /\ StoreInv' /\ nextHdl \in Nat /\ nextHdl' \in Nat /\ nextHdl <= nextHdl'
      /\ \A x \in 1 .. nextHdl' - 1 : OpenCount(x)' - OpenCount(x) \in -1 .. 1
      /\ \A x \in Opened' :
           \/ /\ x \in Opened /\ semas'[x].value - semas[x].value \in -1 .. 1
              /\ created'[x] = created[x]
           \/ x = nextHdl /\ semas'[x].value = created'[x]
  <2>0. /\ nextHdl \in Nat
        /\ \A x \in 1 .. nextHdl - 1 : OpenCount(x) \in Int
        /\ \A x \in Opened : semas[x].value \in Int
    BY <1>1 DEF StoreInv, OpenCount
  <2>1. CASE /\ StoreOpen(r.name, r.init)
             /\ r.name \in Names /\ r.init \in InitialValues
    <3> DEFINE g == OpenHandle(r.name, r.init)
    <3>1. /\ StoreInv' /\ nextHdl <= nextHdl'
          /\ \A x \in 1 .. nextHdl' - 1 :
               OpenCount(x)' = OpenCount(x) + IF x = g THEN 1 ELSE 0
          /\ \A x \in Opened' :
               \/ /\ x \in Opened /\ semas'[x].value = semas[x].value
                  /\ created'[x] = created[x]
               \/ x = nextHdl /\ semas'[x].value = created'[x]
      BY <1>1, <2>1, OpenEffect
    <3>2. \A x \in 1 .. nextHdl' - 1 : OpenCount(x) \in Int
      BY <1>1 DEF OpenCount, StoreInv
    <3>3. nextHdl' \in Nat
      BY <3>1 DEF StoreInv
    <3>4. \A x \in 1 .. nextHdl' - 1 : OpenCount(x)' - OpenCount(x) \in -1 .. 1
      <4> HIDE DEF g
      <4> SUFFICES ASSUME NEW x \in 1 .. nextHdl' - 1
                   PROVE  OpenCount(x)' - OpenCount(x) \in -1 .. 1
        OBVIOUS
      <4>1. \E d \in 0 .. 1 : OpenCount(x)' = OpenCount(x) + d
        BY <3>1
      <4>2. OpenCount(x) \in Int
        BY <3>2
      <4> QED BY <4>1, <4>2
    <3>5. \A x \in Opened : semas'[x].value = semas[x].value
             => semas'[x].value - semas[x].value \in -1 .. 1
      BY <2>0
    <3>6. \A x \in Opened' :
            \/ /\ x \in Opened /\ semas'[x].value - semas[x].value \in -1 .. 1
               /\ created'[x] = created[x]
            \/ x = nextHdl /\ semas'[x].value = created'[x]
      <4> HIDE DEF g
      <4> QED BY <3>1, <3>5
    <3> HIDE DEF g
    <3> QED BY <2>0, <3>1, <3>3, <3>4, <3>6
  <2>2. CASE StoreWait(r.handle) /\ r.handle \in Nat
    <3>1. /\ StoreInv' /\ UNCHANGED <<nextHdl, created>> /\ Opened' = Opened
          /\ \A x \in 1 .. nextHdl - 1 : OpenCount(x)' = OpenCount(x)
      BY <1>1, <2>2, WaitEffect
    <3>2. \A x \in Opened : \E d \in -1 .. 1 : semas'[x].value = semas[x].value + d
      BY <1>1, <2>2, WaitEffect
    <3>3. \A x \in Opened : semas'[x].value - semas[x].value \in -1 .. 1
      BY <2>0, <3>2
    <3>4. \A x \in 1 .. nextHdl' - 1 : OpenCount(x)' - OpenCount(x) \in -1 .. 1
      BY <2>0, <3>1
    <3> QED BY <2>0, <3>1, <3>3, <3>4
  <2>3. CASE StoreSignal(r.handle) /\ r.handle \in Nat
    <3>1. /\ StoreInv' /\ UNCHANGED <<nextHdl, created>> /\ Opened' = Opened
          /\ \A x \in 1 .. nextHdl - 1 : OpenCount(x)' = OpenCount(x)
      BY <1>1, <2>3, SignalEffect
    <3>2. \A x \in Opened : \E d \in -1 .. 1 : semas'[x].value = semas[x].value + d
      BY <1>1, <2>3, SignalEffect
    <3>3. \A x \in Opened : semas'[x].value - semas[x].value \in -1 .. 1
      BY <2>0, <3>2
    <3>4. \A x \in 1 .. nextHdl' - 1 : OpenCount(x)' - OpenCount(x) \in -1 .. 1
      BY <2>0, <3>1
    <3> QED BY <2>0, <3>1, <3>3, <3>4
  <2>4. CASE StoreClose(r.handle) /\ r.handle \in Nat
    <3>1. /\ StoreInv' /\ UNCHANGED <<nextHdl, created>> /\ Opened' \subseteq Opened
          /\ \A x \in Opened' : semas'[x].value = semas[x].value
      BY <1>1, <2>4, CloseEffect
    <3>2. \A x \in 1 .. nextHdl - 1 : \E d \in 0 .. 1 : OpenCount(x)' = OpenCount(x) - d
      BY <1>1, <2>4, CloseEffect
    <3>3. \A x \in 1 .. nextHdl' - 1 : OpenCount(x)' - OpenCount(x) \in -1 .. 1
      BY <2>0, <3>1, <3>2
    <3>4. \A x \in Opened' : semas'[x].value - semas[x].value \in -1 .. 1
      BY <2>0, <3>1
    <3> QED BY <2>0, <3>1, <3>3, <3>4
  <2> QED BY <1>2, <2>1, <2>2, <2>3, <2>4
<1>4. ProgramOK'
  <2>1. \A a, b \in Nat : a <= b => 0 .. a - 1 \subseteq 0 .. b - 1
    OBVIOUS
  <2>2. 0 .. nextHdl - 1 \subseteq 0 .. nextHdl' - 1
    BY <1>3, <2>1
  <2> QED BY <1>1, <2>2 DEF ProgramOK
<1>5. CountsInv'
  <2> SUFFICES ASSUME NEW x \in 1 .. nextHdl' - 1
               PROVE  (OpenCount(x) - Cardinality(Live(x)) \in -dups .. dups + lost)'
    BY DEF CountsInv
  <2>1. Live(x)' = Live(x)
    BY <1>1 DEF Live
  <2>2. OpenCount(x)' - OpenCount(x) \in -1 .. 1 /\ OpenCount(x) \in Int
        /\ OpenCount(x)' \in Int
    BY <1>1, <1>3 DEF OpenCount, StoreInv
  <2>3. Cardinality(Live(x)) \in Nat
    BY <1>1, FiniteCounts
  <2>4. OpenCount(x) - Cardinality(Live(x)) \in -dups .. dups + lost
    <3>1. CASE x \in 1 .. nextHdl - 1
      BY <1>1, <3>1 DEF CountsInv
    <3>2. CASE x \notin 1 .. nextHdl - 1
      <4>1. OpenCount(x) = 0
        BY <1>1, <3>2 DEF OpenCount, StoreInv
      <4>2. Live(x) = {}
        BY <1>1, <1>3, <3>2 DEF Live, ProgramOK
      <4>3. Cardinality(Live(x)) = 0
        BY <4>2, FS_EmptySet
      <4> QED BY <1>1, <4>1, <4>3
    <3> QED BY <3>1, <3>2
  <2> QED BY <1>1, <2>1, <2>2, <2>3, <2>4
<1>6. UnitsConserved'
  <2> SUFFICES ASSUME NEW x \in Opened'
               PROVE  (semas[x].value + Cardinality(Held(x)) - created[x] \in -(dups + lost) .. dups)'
    BY DEF UnitsConserved
  <2>1. Held(x)' = Held(x) /\ Cardinality(Held(x)) \in Nat
    BY <1>1, FiniteCounts DEF Held
  <2>2. CASE /\ x \in Opened /\ semas'[x].value - semas[x].value \in -1 .. 1
             /\ created'[x] = created[x]
    <3>1. /\ semas[x].value + Cardinality(Held(x)) - created[x] \in -(dups + lost) .. dups
          /\ semas[x].value \in Int /\ semas'[x].value \in Int /\ created[x] \in Int
      BY <1>1, <1>3, <2>2 DEF UnitsConserved, StoreInv
    <3> QED BY <1>1, <2>1, <2>2, <3>1
  <2>3. CASE x = nextHdl /\ semas'[x].value = created'[x]
    <3>1. Held(x) = {}
      BY <1>1, <1>3, <2>3 DEF Held, ProgramOK
    <3>2. Cardinality(Held(x))' = 0
      BY <2>1, <3>1, FS_EmptySet
    <3>3. created'[x] \in Int
      BY <1>3 DEF StoreInv
    <3> QED BY <1>1, <2>3, <3>2, <3>3
  <2> QED BY <1>3, <2>2, <2>3
<1>7. CallsInv'
  BY <1>1, SameCalls
<1> QED BY <1>3, <1>4, <1>5, <1>6, <1>7 DEF SemaInv

LEMMA SemaInit == Init => SemaInv
<1> SUFFICES ASSUME Init PROVE SemaInv
  OBVIOUS
<1>0. CallsInv
  BY DEF Init, CallsInv, OneCall, NoRequest
<1>1. Opened = {} /\ DOMAIN byName = {} /\ DOMAIN created = {} /\ nextHdl = 1
  BY DEF Init, Opened
<1>2. 1 .. nextHdl - 1 = {}
  BY <1>1
<1>3. StoreInv
  BY <1>1, <1>2 DEF StoreInv, IndexesAgree, ValueBounded, Init
<1>4. ProgramOK
  BY ParametersAssumption DEF Init, ProgramOK, Phases
<1> QED BY <1>0, <1>1, <1>2, <1>3, <1>4 DEF SemaInv, CountsInv, UnitsConserved

LEMMA SemaInvariant == Spec => []SemaInv
<1>1. SemaInv /\ [Next]_vars => SemaInv'
  <2> SUFFICES ASSUME SemaInv, [Next]_vars PROVE SemaInv'
    OBVIOUS
  <2>1. CASE UNCHANGED vars
    <3>1. UNCHANGED <<semas, byName, nextHdl, created, phase, req, done, hdl, holds,
                      sent, dups, lost>>
      BY <2>1 DEF vars, store, program
    <3>2. StoreInv' = StoreInv /\ ProgramOK' = ProgramOK
      BY <3>1 DEF StoreInv, ProgramOK, IndexesAgree, ValueBounded, Opened
    <3>3. CountsInv' = CountsInv /\ UnitsConserved' = UnitsConserved
      BY <3>1 DEF CountsInv, UnitsConserved, OpenCount, Live, Held, Opened
    <3>4. CallsInv'
      BY <3>1, SameCalls DEF SemaInv
    <3> QED BY <3>2, <3>3, <3>4 DEF SemaInv
  <2> QED
    BY <2>1, AskStep, OpenStep, WaitStep, SignalStep, CloseStep, ReturnStep,
       GiveUpStep, RedeliverStep DEF Next
<1> QED BY <1>1, SemaInit, PTL DEF Spec

\* Types, both indexes and the range of every value are kept, whatever is
\* repeated.
THEOREM StoreCorrect == Spec => [](TypeOK /\ IndexesAgree /\ ValueBounded)
<1>1. SemaInv => TypeOK /\ IndexesAgree /\ ValueBounded
  BY DEF SemaInv, StoreInv, ProgramOK, TypeOK
<1> QED BY <1>1, SemaInvariant, PTL

\* openCount is the number of openings: less by no more than the number of
\* repeats, more by no more than that and the number of calls given up.
THEOREM CountsCorrect == Spec => []OpenCountTracks
<1>1. SemaInv => OpenCountTracks
  BY DEF SemaInv, StoreInv, CountsInv, OpenCountTracks
<1> QED BY <1>1, SemaInvariant, PTL

\* Only a repeat makes a unit, one each; only a repeat or a call given up
\* loses one.
THEOREM UnitsCorrect == Spec => []UnitsConserved
<1>1. SemaInv => UnitsConserved
  BY DEF SemaInv
<1> QED BY <1>1, SemaInvariant, PTL
\* The types of the store and of the programs alone.
THEOREM TypeCorrect == Spec => []TypeOK
<1>1. SemaInv => TypeOK
  BY DEF SemaInv, StoreInv, ProgramOK, TypeOK
<1> QED BY <1>1, SemaInvariant, PTL

\* Only open() adds a handle, and it is the next number.
LEMMA OpenedStep ==
  ASSUME StoreInv, [Next]_vars
  PROVE  Opened' \subseteq Opened \cup {nextHdl}
<1> USE DEF Opened
<1>1. ASSUME NEW n, NEW v, StoreOpen(n, v)
      PROVE  Opened' \subseteq Opened \cup {nextHdl}
  BY <1>1 DEF StoreInv, StoreOpen, store
<1>2. ASSUME NEW h, StoreWait(h) \/ StoreSignal(h) \/ StoreClose(h)
      PROVE  Opened' \subseteq Opened
  <2>1. CASE StoreWait(h)
    BY <2>1 DEF StoreInv, StoreWait
  <2>2. CASE StoreSignal(h)
    BY <2>2 DEF StoreInv, StoreSignal
  <2>3. CASE StoreClose(h)
    BY <2>3 DEF StoreInv, StoreClose
  <2> QED BY <1>2, <2>1, <2>2, <2>3
<1>3. CASE UNCHANGED vars
  BY <1>3 DEF vars, store
<1> QED
  BY <1>1, <1>2, <1>3 DEF Next, OpenSema, WaitSema, SignalSema, CloseSema, Ask,
     ServeOpen, ServeWait, ServeSignal, ServeClose, Return, GiveUp, End, Redeliver, store

\* close() gives no handle back: whatever is opened, closed and repeated, a
\* handle that was created before and is gone stays gone.
THEOREM Handles == Spec => HandlesNotReused
<1> DEFINE Fresh == \A h \in Opened' : h \in Opened \/ h \notin DOMAIN created
<1>1. SemaInv /\ [Next]_vars => [Fresh]_vars
  <2> SUFFICES ASSUME SemaInv, [Next]_vars PROVE Fresh
    OBVIOUS
  <2>1. DOMAIN created = 1 .. nextHdl - 1 /\ nextHdl \in Nat
    BY DEF SemaInv, StoreInv
  <2>2. nextHdl \notin DOMAIN created
    BY <2>1
  <2> QED BY <2>2, OpenedStep DEF SemaInv
<1> QED BY <1>1, SemaInvariant, PTL DEF Spec, HandlesNotReused
=============================================================================
