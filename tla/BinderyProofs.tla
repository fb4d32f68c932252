---------------------------- MODULE BinderyProofs ----------------------------
(***************************************************************************)
(* Theorems about Bindery, for every set of names, every number of objects *)
(* and stations and every length of a set.                                 *)
(*                                                                         *)
(* Shape says what the variables are.  On top of it, three invariants that *)
(* do not need one another: the index, what a scan has seen (ScanInv) and  *)
(* what a set holds (MemberInv).                                           *)
(***************************************************************************)
EXTENDS Bindery, FiniteSetTheorems, WellFoundedInduction, TLAPS

(***************************************************************************)
(* The first slot and the next id are minima: what the code finds by going *)
(* through an array or a map in order.                                     *)
(***************************************************************************)
LEMMA MinOfNumbers ==
    ASSUME NEW S \in SUBSET Nat, S # {}
    PROVE  /\ Min(S) \in S
           /\ \A x \in S : Min(S) <= x
<1>1. PICK m \in S : \A x \in S : ~ (<<x, m>> \in OpToRel(<, Nat))
  BY NatLessThanWellFounded, WFMin
<1>2. OpToRel(<, Nat) = {p \in Nat \X Nat : p[1] < p[2]}
  BY DEF OpToRel
<1>3. \A x \in S : m =< x
  <2>1. SUFFICES ASSUME NEW x \in S, x < m  PROVE FALSE
    OBVIOUS
  <2>2. <<x, m>> \in {p \in Nat \X Nat : p[1] < p[2]}
    BY <2>1
  <2> QED
    BY <1>1, <1>2, <2>2, Zenon
<1> QED
  BY <1>3 DEF Min
-----------------------------------------------------------------------------
(***************************************************************************)
(* Types.                                                                  *)
(***************************************************************************)

Sets    == {<<>>} \cup [1 .. Slots -> Nat]
Objects == [type : Types, name : Names, set : Sets]

\* What TypeOK does not say: the objects and the index are functions, and the
\* index is one of pairs.
Shape ==
    /\ nextId \in 3 .. MaxObjects + 1
    /\ locked \in BOOLEAN
    /\ Ids \subseteq 1 .. nextId - 1
    /\ objects \in [Ids -> Objects]
    /\ DOMAIN byName \subseteq (Types \cup {Wild}) \X Names
    /\ byName \in [DOMAIN byName -> 1 .. nextId - 1]

LEMMA EmptySetIsSet ==
    /\ <<>> \in Sets /\ EmptySet \in Sets
    /\ EmptySet # <<>>
    /\ \A s : s \in [1 .. Slots -> Int] => s # <<>>
<1>1. Slots \in Nat \ {0}
  BY ParametersAssumption
<1> QED
  BY <1>1 DEF Sets, EmptySet

\* Adding a member leaves a set a set: it changes one slot at most, to a member.
LEMMA AddingKeepsSets ==
    ASSUME NEW s \in Sets, s # <<>>, NEW m \in Nat
    PROVE  WithMember(s, m) \in Sets /\ WithMember(s, m) # <<>>
<1>1. s \in [1 .. Slots -> Nat]
  BY DEF Sets
<1>2. WithMember(s, m) \in [1 .. Slots -> Nat]
  BY <1>1 DEF WithMember
<1> QED
  BY <1>2, EmptySetIsSet DEF Sets

\* Removing one leaves a set a set.
LEMMA RemovingKeepsSets ==
    ASSUME NEW s \in Sets, NEW m \in ToSet(s), m # 0
    PROVE  WithoutMember(s, m) \in Sets /\ WithoutMember(s, m) # <<>>
<1> DEFINE at == Min({i \in 1 .. Slots : s[i] = m})
<1>1. s \in [1 .. Slots -> Nat]
  BY DEF Sets, ToSet
<1>2. at \in 1 .. Slots
  <2>1. {i \in 1 .. Slots : s[i] = m} # {} /\ {i \in 1 .. Slots : s[i] = m} \in SUBSET Nat
    BY <1>1 DEF ToSet
  <2> QED
    BY <2>1, MinOfNumbers
<1>3. Slots \in Nat \ {0}
  BY ParametersAssumption
<1>4. \A i \in 1 .. Slots : (IF i < at THEN s[i] ELSE IF i < Slots THEN s[i + 1] ELSE 0) \in Nat
  <2> HIDE DEF at
  <2> QED
    BY <1>1, <1>2, <1>3
<1>5. WithoutMember(s, m) \in [1 .. Slots -> Nat]
  BY <1>4 DEF WithoutMember
<1> QED
  BY <1>5, EmptySetIsSet DEF Sets

\* Writing bytes over one leaves a set a set.
LEMMA WritingKeepsSets ==
    ASSUME NEW s \in Sets, s # <<>>, NEW v \in Writes
    PROVE  /\ [i \in 1 .. Slots |-> IF i <= Len(v) THEN v[i] ELSE s[i]] \in Sets
           /\ [i \in 1 .. Slots |-> IF i <= Len(v) THEN v[i] ELSE s[i]] # <<>>
<1>1. s \in [1 .. Slots -> Nat] /\ v \in Seq(Nat) /\ Slots \in Nat
  BY ParametersAssumption DEF Sets
<1>2. PICK w : w = [i \in 1 .. Slots |-> IF i <= Len(v) THEN v[i] ELSE s[i]]
  OBVIOUS
<1>3. w \in [1 .. Slots -> Nat]
  <2>1. \A i \in 1 .. Slots : (IF i <= Len(v) THEN v[i] ELSE s[i]) \in Nat
    BY <1>1
  <2> QED
    BY <1>2, <2>1
<1>4. w \in Sets /\ w # <<>>
  BY <1>3, EmptySetIsSet DEF Sets
<1> QED
  BY <1>2, <1>4

\* The ids that a search finds are those of objects.
LEMMA FoundIsObject ==
    ASSUME NEW t, NEW n, NEW id, Found(t, n, id)
    PROVE  id \in Ids /\ \E k \in DOMAIN byName : byName[k] = id /\ k[2] = n
BY DEF Found, FindObj

LEMMA ShapeInit == Init => Shape
<1> SUFFICES ASSUME Init  PROVE Shape
  OBVIOUS
<1>1. DOMAIN objects = 1 .. 2 /\ nextId = 3
  BY DEF Init
<1>2. \A id \in 1 .. 2 : objects[id] \in Objects
  <2>1. NewObject("server", "NODEJS-SERVER") \in Objects /\ NewObject("user", "SUPERVISOR") \in Objects
    BY ParametersAssumption DEF NewObject, Objects, Sets
  <2> QED
    BY <2>1 DEF Init
<1>3. objects \in [1 .. 2 -> Objects]
  BY <1>2 DEF Init
<1>4. DOMAIN byName \subseteq (Types \cup {Wild}) \X Names /\ byName \in [DOMAIN byName -> 1 .. 2]
  BY ParametersAssumption DEF Init
<1>5. nextId \in 3 .. MaxObjects + 1 /\ locked \in BOOLEAN
  <2>1. MaxObjects \in Nat /\ MaxObjects >= 2
    BY ParametersAssumption
  <2>2. locked \in BOOLEAN
    BY DEF Init
  <2> QED
    BY <1>1, <2>1, <2>2
<1>6. nextId - 1 = 2
  BY <1>1
<1>7. objects \in [Ids -> Objects] /\ Ids \subseteq 1 .. nextId - 1
  BY <1>1, <1>3, <1>6 DEF Ids
<1> QED
  BY <1>4, <1>5, <1>6, <1>7 DEF Shape

LEMMA ShapeStep == Shape /\ [Next]_vars => Shape'
<1> SUFFICES ASSUME Shape, [Next]_vars  PROVE Shape'
  OBVIOUS
<1> USE DEF Ids
<1>1. nextId \in Nat /\ nextId > 2 /\ MaxObjects \in Nat /\ nextId \in Nat \ {0}
  BY ParametersAssumption DEF Shape
<1>2. \A o \in Objects : o = [type |-> o.type, name |-> o.name, set |-> o.set]
  BY DEF Objects
<1>3. ASSUME NEW id \in Ids, NEW s \in Sets,
             objects' = [objects EXCEPT ![id].set = s],
             UNCHANGED <<byName, nextId, locked>>
      PROVE  Shape'
  <2>1. [objects[id] EXCEPT !.set = s] \in Objects
    BY <1>2 DEF Shape, Objects
  <2>2. objects' \in [Ids -> Objects] /\ Ids' = Ids
    BY <1>3, <2>1 DEF Shape
  <2> QED
    BY <1>3, <2>2 DEF Shape
<1>4. ASSUME NEW t \in Types, NEW n \in Names, CreateObject(t, n)  PROVE Shape'
  <2>1. NewObject(t, n) \in Objects
    BY DEF NewObject, Objects, Sets
  <2>2. Ids' = Ids \cup {nextId} /\ objects' \in [Ids' -> Objects]
    BY <1>2, <1>4, <2>1 DEF CreateObject, Put, Shape
  <2>3. DOMAIN byName' = DOMAIN byName \cup {<<t, n>>} /\ byName' \in [DOMAIN byName' -> 1 .. nextId]
    BY <1>1, <1>4 DEF CreateObject, Put, Shape
  <2>4. nextId' = nextId + 1 /\ nextId' \in 3 .. MaxObjects + 1 /\ locked' = locked
    BY <1>1, <1>4 DEF CreateObject, Shape
  <2> QED
    BY <1>1, <2>2, <2>3, <2>4 DEF Shape
<1>5. ASSUME NEW t, NEW n, DeleteObject(t, n)  PROVE Shape'
  <2>1. PICK id \in Ids : objects' = Drop(objects, id) /\ byName' = Drop(byName, <<t, n>>)
    BY <1>5 DEF DeleteObject, IndexKey
  <2>2. Ids' \subseteq Ids /\ objects' \in [Ids' -> Objects]
    BY <2>1 DEF Drop, Shape
  <2>3. DOMAIN byName' \subseteq DOMAIN byName /\ byName' \in [DOMAIN byName' -> 1 .. nextId - 1]
    BY <2>1 DEF Drop, Shape
  <2> QED
    BY <1>5, <2>2, <2>3 DEF Shape, DeleteObject
<1>6. ASSUME NEW t \in AskedTypes, NEW old, NEW new \in Names, RenameObject(t, old, new)  PROVE Shape'
  <2>1. PICK id \in Ids : /\ objects' = [objects EXCEPT ![id].name = new]
                          /\ byName' = Put(Drop(byName, <<t, old>>), <<t, new>>, id)
    BY <1>6 DEF RenameObject, IndexKey
  <2>2. [objects[id] EXCEPT !.name = new] \in Objects
    BY <1>2 DEF Shape, Objects
  <2>3. objects' \in [Ids -> Objects] /\ Ids' = Ids
    BY <2>1, <2>2 DEF Shape
  <2>4. /\ DOMAIN byName' \subseteq DOMAIN byName \cup {<<t, new>>}
        /\ byName' \in [DOMAIN byName' -> 1 .. nextId - 1]
    BY <2>1 DEF Put, Drop, Shape
  <2>5. t \in Types \cup {Wild}
    BY DEF AskedTypes
  <2> QED
    BY <1>6, <2>3, <2>4, <2>5 DEF Shape, RenameObject
<1>7. ASSUME NEW id \in Indexed, CreateSet(id)  PROVE Shape'
  BY <1>1, <1>3, <1>7, EmptySetIsSet DEF CreateSet, Indexed
<1>8. ASSUME NEW id \in Indexed, DeleteSet(id)  PROVE Shape'
  BY <1>1, <1>3, <1>8, EmptySetIsSet DEF DeleteSet, Indexed
<1>9. \A id \in Indexed : id \in Ids /\ id \in 1 .. nextId - 1 /\ objects[id].set \in Sets
  BY DEF Shape, Indexed, Objects
<1>10. ASSUME NEW id \in Indexed, NEW m \in Indexed, AddObjToSet(id, m)  PROVE Shape'
  <2>1. WithMember(objects[id].set, m) \in Sets
    BY <1>1, <1>9, <1>10, AddingKeepsSets DEF AddObjToSet
  <2> QED
    BY <1>3, <1>9, <1>10, <2>1 DEF AddObjToSet
<1>11. ASSUME NEW id \in Indexed, NEW m \in Indexed, DeleteObjFromSet(id, m)  PROVE Shape'
  <2>1. m # 0
    BY <1>9
  <2>2. WithoutMember(objects[id].set, m) \in Sets
    BY <1>1, <1>9, <1>11, <2>1, RemovingKeepsSets DEF DeleteObjFromSet
  <2> QED
    BY <1>3, <1>9, <1>11, <2>2 DEF DeleteObjFromSet
<1>16. ASSUME NEW id \in Indexed, NEW v \in Writes, WriteValue(id, v)  PROVE Shape'
  <2>1. [i \in 1 .. Slots |-> IF i <= Len(v) THEN v[i] ELSE objects[id].set[i]] \in Sets
    BY <1>9, <1>16, WritingKeepsSets DEF WriteValue
  <2>2. objects' = [objects EXCEPT ![id].set =
                      [i \in 1 .. Slots |-> IF i <= Len(v) THEN v[i] ELSE objects[id].set[i]]]
    BY <1>9, <1>16 DEF WriteValue
  <2> QED
    BY <1>3, <1>9, <1>16, <2>1, <2>2 DEF WriteValue
<1>12. ASSUME UNCHANGED <<objects, byName, nextId>>, locked' \in BOOLEAN  PROVE Shape'
  BY <1>12 DEF Shape
<1>13. ASSUME NEW w, NEW t, NEW pat, ScanObject(w) \/ StartScan(w, t, pat)  PROVE Shape'
  BY <1>12, <1>13 DEF ScanObject, StartScan, Shape
<1>14. CASE Lock(TRUE) \/ Lock(FALSE)
  BY <1>12, <1>14 DEF Lock
<1>15. CASE UNCHANGED vars
  BY <1>12, <1>15 DEF vars, Shape
<1> QED
  <2> HIDE DEF Ids
  <2> QED
    BY <1>4, <1>5, <1>6, <1>7, <1>8, <1>10, <1>11, <1>13, <1>14, <1>15, <1>16, Zenon DEF Next

LEMMA ShapeAlways == Spec => []Shape
BY ShapeInit, ShapeStep, PTL DEF Spec

\* The bindery keeps its types: ids below the counter, sets of known ids, and an
\* index that leads from names to ids that were given out.
THEOREM TypeCorrect == Spec => []TypeOK
<1>1. Shape => TypeOK
  <2> SUFFICES ASSUME Shape  PROVE TypeOK
    OBVIOUS
  <2>1. \A id \in Ids : objects[id] \in Objects
    BY DEF Shape
  <2>2. \A id \in Ids : /\ objects[id].type \in Types /\ objects[id].name \in Names
                        /\ objects[id].set = <<>> \/ objects[id].set \in [1 .. Slots -> Nat]
    BY <2>1 DEF Objects, Sets
  <2>3. \A k \in DOMAIN byName : k[2] \in Names /\ byName[k] \in 1 .. nextId - 1
    BY DEF Shape
  <2> QED
    BY <2>2, <2>3 DEF TypeOK, Shape
<1> QED
  BY <1>1, ShapeAlways, PTL
-----------------------------------------------------------------------------
(***************************************************************************)
(* Names.                                                                  *)
(***************************************************************************)

Key(id) == <<objects[id].type, objects[id].name>>

\* Only sets have changed, if anything has.
KeepsNames ==
    /\ Ids' = Ids
    /\ \A id \in Ids : /\ Key(id)' = Key(id)
                        /\ objects'[id].type = objects[id].type
                        /\ objects'[id].name = objects[id].name
    /\ UNCHANGED <<byName, nextId>>

\* What requests on sets do: one set is another one now.
SetBecomes(id, s) ==
    /\ id \in Ids
    /\ objects' = [objects EXCEPT ![id].set = s]
    /\ UNCHANGED <<byName, nextId, scan>>

LEMMA SetStep ==
    ASSUME NEW id \in Indexed, NEW m \in Indexed,
           NEW v, \/ CreateSet(id) \/ DeleteSet(id) \/ WriteValue(id, v)
                  \/ AddObjToSet(id, m) \/ DeleteObjFromSet(id, m)
    PROVE  \E s : SetBecomes(id, s)
<1>1. id \in Ids
  BY DEF Indexed
<1>2. CASE CreateSet(id)
  <2>1. SetBecomes(id, EmptySet)
    BY <1>1, <1>2 DEF CreateSet, SetBecomes
  <2> QED
    BY <2>1
<1>3. CASE DeleteSet(id)
  <2>1. SetBecomes(id, <<>>)
    BY <1>1, <1>3 DEF DeleteSet, SetBecomes
  <2> QED
    BY <2>1
<1>4. CASE AddObjToSet(id, m)
  <2>1. SetBecomes(id, WithMember(objects[id].set, m))
    BY <1>1, <1>4 DEF AddObjToSet, SetBecomes
  <2> QED
    BY <2>1
<1>5. CASE DeleteObjFromSet(id, m)
  <2>1. SetBecomes(id, WithoutMember(objects[id].set, m))
    BY <1>1, <1>5 DEF DeleteObjFromSet, SetBecomes
  <2> QED
    BY <2>1
<1>6. CASE WriteValue(id, v)
  <2>1. SetBecomes(id, [i \in 1 .. Slots |-> IF i <= Len(v) THEN v[i] ELSE objects[id].set[i]])
    BY <1>1, <1>6 DEF WriteValue, SetBecomes
  <2> QED
    BY <2>1
<1> QED
  BY <1>2, <1>3, <1>4, <1>5, <1>6

LEMMA SetKeepsNames ==
    ASSUME Shape, NEW id, NEW s, SetBecomes(id, s)
    PROVE  KeepsNames
<1>1. \A d \in Ids : objects[d] = [type |-> objects[d].type, name |-> objects[d].name, set |-> objects[d].set]
  BY DEF Shape, Objects
<1>2. Ids' = Ids
  BY DEF SetBecomes, Shape, Ids
<1>3. \A d \in Ids : objects'[d].type = objects[d].type /\ objects'[d].name = objects[d].name
  BY <1>1 DEF SetBecomes, Shape, Ids
<1> QED
  BY <1>2, <1>3 DEF KeepsNames, Key, SetBecomes

\* The steps, as the names and the scans see them.
LEMMA Steps ==
    ASSUME Shape, [Next]_vars
    PROVE  \/ \E t \in Types, n \in Names : CreateObject(t, n)
           \/ \E t \in AskedTypes, n \in Names : DeleteObject(t, n)
           \/ \E t \in AskedTypes, n, new \in Names : RenameObject(t, n, new)
           \/ KeepsNames /\ UNCHANGED scan
           \/ KeepsNames /\ \E w \in Scanners : ScanObject(w)
           \/ KeepsNames /\ \E w \in Scanners, t \in Types \cup {Wild}, pat \in Patterns :
                               StartScan(w, t, pat)
<1>1. UNCHANGED <<objects, byName, nextId>> => KeepsNames
  BY DEF KeepsNames, Key, Ids
<1>2. ASSUME NEW id \in Indexed,
             \/ CreateSet(id) \/ DeleteSet(id)
             \/ \E m \in Indexed : AddObjToSet(id, m) \/ DeleteObjFromSet(id, m)
             \/ \E v \in Writes : WriteValue(id, v)
      PROVE  KeepsNames /\ UNCHANGED scan
  BY <1>2, SetStep, SetKeepsNames, Zenon DEF SetBecomes
<1>3. ASSUME NEW w, ScanObject(w)  PROVE KeepsNames
  BY <1>1, <1>3 DEF ScanObject
<1>4. ASSUME NEW w, NEW t, NEW pat, StartScan(w, t, pat)  PROVE KeepsNames
  BY <1>1, <1>4 DEF StartScan
<1>5. CASE Lock(TRUE) \/ Lock(FALSE) \/ UNCHANGED vars
  BY <1>1, <1>5 DEF Lock, vars
<1> QED
  BY <1>2, <1>3, <1>4, <1>5, Zenon DEF Next

\* What the index gives: each name leads to the object that bears it.
LEMMA IndexGives ==
    ASSUME IndexCorrect
    PROVE  /\ \A k \in DOMAIN byName : byName[k] \in Ids /\ Key(byName[k]) = k
           /\ \A id \in Ids : Key(id) \in DOMAIN byName /\ byName[Key(id)] = id
BY DEF IndexCorrect, Key

\* A name that is missing is not in the index: no search ends at an object that
\* is gone.
LEMMA MissingIsFree ==
    ASSUME IndexCorrect, NEW t \in Types, NEW n, Missing(t, n)
    PROVE  <<t, n>> \notin DOMAIN byName
<1>1. t # Wild
  BY ParametersAssumption
<1>2. FindObj(t, n) = {byName[k] : k \in {<<t, n>>} \cap DOMAIN byName}
  BY <1>1 DEF FindObj
<1>3. FindObj(t, n) \subseteq Ids
  BY <1>2, IndexGives
<1> QED
  BY <1>2, <1>3 DEF Missing

\* A search by type ends at the object that bears the type and the name.
LEMMA FoundByType ==
    ASSUME IndexCorrect, NEW t \in Types, NEW n, NEW id, Found(t, n, id)
    PROVE  id \in Ids /\ Key(id) = <<t, n>>
<1>1. t # Wild
  BY ParametersAssumption
<1>2. FindObj(t, n) = {byName[k] : k \in {<<t, n>>} \cap DOMAIN byName}
  BY <1>1 DEF FindObj
<1> QED
  BY <1>2, IndexGives DEF Found

\* The key of an object in the index.
NameKey(o) == <<o.type, o.name>>

LEMMA IndexDomain ==
    ASSUME NEW o, NEW b,
           \A k \in DOMAIN b : b[k] \in DOMAIN o /\ NameKey(o[b[k]]) = k,
           \A id \in DOMAIN o : NameKey(o[id]) \in DOMAIN b /\ b[NameKey(o[id])] = id
    PROVE  DOMAIN b = {NameKey(o[id]) : id \in DOMAIN o}
OBVIOUS

LEMMA IndexStep ==
    ASSUME ~ UseWild, Shape, IndexCorrect, [Next]_vars
    PROVE  IndexCorrect'
<1> SUFFICES /\ (\A k \in DOMAIN byName : byName[k] \in Ids /\ Key(byName[k]) = k)'
             /\ (\A id \in Ids : Key(id) \in DOMAIN byName /\ byName[Key(id)] = id)'
  <2> SUFFICES ASSUME (\A k \in DOMAIN byName : byName[k] \in Ids /\ Key(byName[k]) = k)',
                      (\A id \in Ids : Key(id) \in DOMAIN byName /\ byName[Key(id)] = id)'
               PROVE  IndexCorrect'
    OBVIOUS
  <2>1. \A k \in DOMAIN byName' :
           byName'[k] \in DOMAIN objects' /\ NameKey(objects'[byName'[k]]) = k
    BY DEF Key, NameKey, Ids
  <2>2. \A id \in DOMAIN objects' :
           NameKey(objects'[id]) \in DOMAIN byName' /\ byName'[NameKey(objects'[id])] = id
    BY DEF Key, NameKey, Ids
  <2>3. DOMAIN byName' = {NameKey(objects'[id]) : id \in DOMAIN objects'}
    BY ONLY <2>1, <2>2, IndexDomain
  <2> QED
    BY <2>2, <2>3 DEF IndexCorrect, NameKey, Ids
<1>1. AskedTypes = Types
  BY DEF AskedTypes
<1>2. /\ \A k \in DOMAIN byName : byName[k] \in Ids /\ Key(byName[k]) = k
      /\ \A id \in Ids : Key(id) \in DOMAIN byName /\ byName[Key(id)] = id
  BY IndexGives
<1>3. ASSUME NEW t \in Types, NEW n, CreateObject(t, n)
      PROVE  /\ (\A k \in DOMAIN byName : byName[k] \in Ids /\ Key(byName[k]) = k)'
             /\ (\A id \in Ids : Key(id) \in DOMAIN byName /\ byName[Key(id)] = id)'
  <2>1. <<t, n>> \notin DOMAIN byName
    BY <1>3, MissingIsFree DEF CreateObject
  <2>2. PICK new : new = nextId
    OBVIOUS
  <2>3. new \notin Ids
    BY <2>2 DEF Shape
  <2>4. /\ Ids' = Ids \cup {new} /\ Key(new)' = <<t, n>>
        /\ \A id \in Ids : Key(id)' = Key(id)
    BY <1>3, <2>2, <2>3 DEF CreateObject, Put, Ids, NewObject, Key
  <2>5. /\ DOMAIN byName' = DOMAIN byName \cup {<<t, n>>}
        /\ byName'[<<t, n>>] = new
        /\ \A k \in DOMAIN byName : byName'[k] = byName[k]
    BY <1>3, <2>1, <2>2 DEF CreateObject, Put
  <2> QED
    BY <1>2, <2>1, <2>3, <2>4, <2>5
<1>4. ASSUME NEW t \in Types, NEW n, DeleteObject(t, n)
      PROVE  /\ (\A k \in DOMAIN byName : byName[k] \in Ids /\ Key(byName[k]) = k)'
             /\ (\A id \in Ids : Key(id) \in DOMAIN byName /\ byName[Key(id)] = id)'
  <2>1. PICK id \in Ids : /\ Found(t, n, id) /\ objects' = Drop(objects, id)
                          /\ byName' = Drop(byName, <<t, n>>)
    BY <1>4 DEF DeleteObject, IndexKey
  <2>2. Key(id) = <<t, n>>
    BY <2>1, FoundByType
  <2>3. Ids' = Ids \ {id} /\ \A d \in Ids' : Key(d)' = Key(d)
    BY <2>1 DEF Drop, Ids, Key
  <2>4. DOMAIN byName' = DOMAIN byName \ {<<t, n>>} /\ \A k \in DOMAIN byName' : byName'[k] = byName[k]
    BY <2>1 DEF Drop
  <2> QED
    BY <1>2, <2>2, <2>3, <2>4
<1>5. ASSUME NEW t \in Types, NEW n, NEW new, RenameObject(t, n, new)
      PROVE  /\ (\A k \in DOMAIN byName : byName[k] \in Ids /\ Key(byName[k]) = k)'
             /\ (\A id \in Ids : Key(id) \in DOMAIN byName /\ byName[Key(id)] = id)'
  <2>1. PICK id \in Ids : /\ Found(t, n, id) /\ objects' = [objects EXCEPT ![id].name = new]
                          /\ byName' = Put(Drop(byName, <<t, n>>), <<t, new>>, id)
    BY <1>5 DEF RenameObject, IndexKey
  <2>2. Key(id) = <<t, n>> /\ objects[id].type = t
    BY <2>1, FoundByType DEF Key
  <2>3. <<t, new>> \notin DOMAIN byName
    BY <1>5, MissingIsFree DEF RenameObject
  <2>4. objects[id] \in Objects
    BY DEF Shape
  <2>5. [objects[id] EXCEPT !.name = new].type = t /\ [objects[id] EXCEPT !.name = new].name = new
    BY <2>2, <2>4 DEF Objects
  <2>6. /\ Ids' = Ids /\ Key(id)' = <<t, new>>
        /\ \A d \in Ids \ {id} : Key(d)' = Key(d)
    BY <2>1, <2>5 DEF Ids, Key
  <2>7. /\ DOMAIN byName' = (DOMAIN byName \ {<<t, n>>}) \cup {<<t, new>>}
        /\ byName'[<<t, new>>] = id
        /\ \A k \in DOMAIN byName \ {<<t, n>>} : byName'[k] = byName[k]
    BY <2>1, <2>3 DEF Drop, Put
  <2> QED
    BY <1>2, <2>2, <2>3, <2>6, <2>7
<1>6. CASE KeepsNames
  BY <1>2, <1>6 DEF KeepsNames
<1> QED
  BY <1>1, <1>3, <1>4, <1>5, <1>6, Steps, Zenon

\* While requests name objects by their type, _byName and _objects agree after
\* any number of creates, deletes and renames of any stations: every object is
\* found under its name, and no name leads anywhere else.
THEOREM Index == Spec => []NamesIndexed
<1>1. Init => NamesIndexed
  <2> SUFFICES ASSUME Init  PROVE IndexCorrect
    BY DEF NamesIndexed
  <2>1. /\ objects[1].type = "server" /\ objects[1].name = "NODEJS-SERVER"
        /\ objects[2].type = "user" /\ objects[2].name = "SUPERVISOR"
    BY DEF Init, NewObject
  <2>2. Ids = {1, 2}
    BY DEF Init, Ids
  <2>3. /\ DOMAIN byName = {<<"server", "NODEJS-SERVER">>, <<"user", "SUPERVISOR">>}
        /\ byName[<<"server", "NODEJS-SERVER">>] = 1
        /\ byName[<<"user", "SUPERVISOR">>] = 2
    BY DEF Init
  <2> QED
    BY <2>1, <2>2, <2>3 DEF IndexCorrect
<1>2. Shape /\ NamesIndexed /\ [Next]_vars => NamesIndexed'
  BY IndexStep DEF NamesIndexed
<1> QED
  BY <1>1, <1>2, ShapeAlways, PTL DEF Spec
-----------------------------------------------------------------------------
(***************************************************************************)
(* Scans.                                                                  *)
(***************************************************************************)

\* What ScanExact rests on: the ids a scan has seen are those up to the last
\* one, and what was there and fitted from its start on fits still, since objects
\* keep their types and their ids.
ScanRecord == [phase : {"none", "on", "over", "cut"}, last : Nat, type : Types \cup {Wild},
           pat : SUBSET Names, seen : SUBSET Nat, answers : Nat, start : SUBSET Nat]

ScanSound(s) ==
    /\ s \in ScanRecord
    /\ s.start \subseteq 1 .. nextId - 1
    /\ IsFiniteSet(s.seen) /\ s.answers = Cardinality(s.seen)
    /\ \A id \in s.seen : id <= s.last
    /\ \A id \in s.start \cap Ids : Fits(id, s.type, s.pat)
    /\ s.phase # "cut" =>
          \A id \in s.start \cap Ids : id \in s.seen \/ (s.phase = "on" /\ id > s.last)

ScanInv ==
    /\ scan = [w \in Scanners |-> scan[w]]
    /\ \A w \in Scanners : ScanSound(scan[w])

LEMMA NoScanSound == Shape => ScanSound(NoScan)
<1> SUFFICES ASSUME Shape  PROVE ScanSound(NoScan)
  OBVIOUS
<1>1. IsFiniteSet({}) /\ Cardinality({}) = 0
  BY FS_EmptySet
<1>2. nextId \in Nat
  BY DEF Shape
<1> QED
  BY <1>1, <1>2 DEF ScanSound, NoScan, ScanRecord

\* A scan stays sound as long as no object that fitted all along stops fitting.
LEMMA SoundStays ==
    ASSUME Shape, NEW s, ScanSound(s), NEW u,
           u \in {s} \cup {[s EXCEPT !.start = @ \ {id}] : id \in Ids},
           nextId' \in {nextId, nextId + 1}, Ids' \subseteq Ids \cup {nextId},
           \A id \in Ids \cap Ids' : id \in u.start /\ Fits(id, s.type, s.pat) =>
                                     Fits(id, s.type, s.pat)'
    PROVE  ScanSound(u)'
<1>1. nextId \in Nat
  BY DEF Shape
<1>2. /\ u \in ScanRecord /\ u.start \subseteq s.start /\ u.phase = s.phase /\ u.type = s.type
      /\ u.pat = s.pat /\ u.seen = s.seen /\ u.last = s.last /\ u.answers = s.answers
  <2>1. CASE u = s
    BY <2>1 DEF ScanSound
  <2>2. ASSUME NEW id, u = [s EXCEPT !.start = @ \ {id}]  PROVE <1>2
    BY <2>2 DEF ScanSound, ScanRecord
  <2> QED
    BY <2>1, <2>2
<1>3. s.start \subseteq 1 .. nextId - 1
  BY DEF ScanSound
<1>4. u.start \cap Ids' \subseteq s.start \cap Ids
  BY <1>1, <1>2, <1>3
<1>5. u.start \subseteq 1 .. nextId' - 1
  BY <1>1, <1>2, <1>3
<1>6. \A id \in u.start \cap Ids' : (Fits(id, u.type, u.pat))'
  <2> TAKE id \in u.start \cap Ids'
  <2>1. id \in s.start \cap Ids /\ Fits(id, s.type, s.pat)
    BY <1>4 DEF ScanSound
  <2>2. Fits(id, s.type, s.pat)'
    BY <2>1
  <2> QED
    BY <1>2, <2>2
<1>7. u.phase # "cut" =>
         \A id \in u.start \cap Ids' : id \in u.seen \/ (u.phase = "on" /\ id > u.last)
  BY <1>2, <1>4 DEF ScanSound
<1>8. IsFiniteSet(u.seen) /\ u.answers = Cardinality(u.seen) /\ \A id \in u.seen : id <= u.last
  BY <1>2 DEF ScanSound
<1> QED
  BY <1>2, <1>5, <1>6, <1>7, <1>8 DEF ScanSound

\* The next answer of a scan: the least id behind the last one.
LEMMA AnswerSound ==
    ASSUME Shape, NEW s, ScanSound(s), s.phase = "on", After(s) # {},
           NEW u, u = [s EXCEPT !.last = Min(After(s)), !.seen = @ \cup {Min(After(s))},
                                !.answers = @ + 1]
    PROVE  ScanSound(u)
<1> DEFINE next == After(s)
           id == Min(next)
<1>1. next \in SUBSET Nat
  BY DEF After, Shape
<1>2. id \in next /\ \A x \in next : id <= x
  BY <1>1, MinOfNumbers
<1>3. id \in Nat /\ id > s.last /\ s.last \in Nat
  BY <1>1, <1>2 DEF After, ScanSound, ScanRecord
<1>4. id \notin s.seen
  <2> HIDE DEF id
  <2> QED
    BY <1>3 DEF ScanSound
<1>5. /\ IsFiniteSet(s.seen \cup {id})
      /\ Cardinality(s.seen \cup {id}) = s.answers + 1
  BY <1>4, FS_AddElement DEF ScanSound
<1>u. u = [s EXCEPT !.last = id, !.seen = s.seen \cup {id}, !.answers = s.answers + 1]
  BY DEF ScanSound, ScanRecord
<1> HIDE DEF id
<1>r. s \in ScanRecord
  BY DEF ScanSound
<1>6. /\ u.last = id /\ u.seen = s.seen \cup {id} /\ u.answers = s.answers + 1
      /\ u.type = s.type /\ u.start = s.start /\ u.pat = s.pat /\ u.phase = "on"
  <2>1. u.last = id /\ u.seen = s.seen \cup {id} /\ u.answers = s.answers + 1
    BY <1>u, <1>r DEF ScanRecord
  <2>2. u.type = s.type /\ u.start = s.start
    BY <1>u, <1>r DEF ScanRecord
  <2>3. u.pat = s.pat /\ u.phase = s.phase
    BY <1>u, <1>r DEF ScanRecord
  <2> QED
    BY <2>1, <2>2, <2>3
<1>9. u \in ScanRecord
  <2>1. PICK seen, answers : seen = s.seen \cup {id} /\ answers = s.answers + 1
    OBVIOUS
  <2>2. seen \in SUBSET Nat /\ answers \in Nat
    BY <1>3, <1>r, <2>1 DEF ScanRecord
  <2>3. u = [s EXCEPT !.last = id, !.seen = seen, !.answers = answers]
    BY <1>u, <2>1
  <2>4. u = [phase |-> s.phase, last |-> id, type |-> s.type, pat |-> s.pat, seen |-> seen,
             answers |-> answers, start |-> s.start]
    BY ONLY <1>r, <2>3 DEF ScanRecord
  <2>5. /\ s.phase \in {"none", "on", "over", "cut"} /\ s.type \in Types \cup {Wild}
        /\ s.pat \in SUBSET Names /\ s.start \in SUBSET Nat
    BY ONLY <1>r DEF ScanRecord
  <2> QED
    BY ONLY <1>3, <2>2, <2>4, <2>5 DEF ScanRecord
<1>7. \A d \in u.seen : d <= u.last
  <2>1. \A d \in s.seen : d <= s.last /\ d \in Nat
    BY <1>r DEF ScanSound, ScanRecord
  <2> QED
    BY ONLY <1>3, <1>6, <2>1
<1>8. ASSUME NEW d \in u.start \cap Ids
      PROVE  Fits(d, u.type, u.pat) /\ (d \in u.seen \/ (u.phase = "on" /\ d > u.last))
  <2>1. Fits(d, s.type, s.pat) /\ (d \in s.seen \/ d > s.last)
    BY <1>6, <1>8 DEF ScanSound
  <2>2. CASE d \in s.seen
    BY <1>6, <2>1, <2>2
  <2>3. CASE d > s.last
    <3>1. d \in next
      BY <2>1, <2>3 DEF After
    <3>2. d \in Nat /\ id <= d
      BY <1>1, <1>2, <3>1
    <3> QED
      BY <1>3, <1>6, <2>1, <3>2
  <2> QED
    BY <2>1, <2>2, <2>3
<1> QED
  BY <1>5, <1>6, <1>7, <1>8, <1>9 DEF ScanSound

\* A scan that ends has seen all there is: nothing fits behind the last.
LEMMA EndSound ==
    ASSUME Shape, NEW s, ScanSound(s), s.phase = "on",
           NEW u, \/ u = [s EXCEPT !.phase = "cut"]
                  \/ After(s) = {} /\ u = [s EXCEPT !.phase = "over"]
    PROVE  ScanSound(u)
<1>1. /\ u \in ScanRecord /\ u.start = s.start /\ u.type = s.type
      /\ u.pat = s.pat /\ u.seen = s.seen /\ u.last = s.last /\ u.answers = s.answers
      /\ u.phase = "cut" \/ (u.phase = "over" /\ After(s) = {})
  BY DEF ScanSound, ScanRecord
<1>2. ASSUME NEW id \in s.start \cap Ids, After(s) = {}  PROVE id \in s.seen
  <2>1. Fits(id, s.type, s.pat) /\ (id \in s.seen \/ id > s.last)
    BY DEF ScanSound
  <2> QED
    BY <1>2, <2>1 DEF After
<1> QED
  BY <1>1, <1>2 DEF ScanSound

LEMMA ScanStep ==
    ASSUME Shape, ScanInv, [Next]_vars
    PROVE  ScanInv'
<1>1. ASSUME NEW w \in Scanners, ScanObject(w)  PROVE ScanInv'
  <2>1. UNCHANGED <<objects, nextId>>
    BY <1>1 DEF ScanObject
  <2>2. ScanSound(scan[w]) /\ scan[w].phase = "on"
    BY <1>1 DEF ScanInv, ScanObject
  <2>3. scan' = [scan EXCEPT ![w] = scan'[w]]
    BY <1>1 DEF ScanObject, ScanInv
  <2>4. \/ scan'[w] = [scan[w] EXCEPT !.phase = "cut"]
        \/ After(scan[w]) = {} /\ scan'[w] = [scan[w] EXCEPT !.phase = "over"]
        \/ /\ After(scan[w]) # {}
           /\ scan'[w] = [scan[w] EXCEPT !.last = Min(After(scan[w])),
                                         !.seen = @ \cup {Min(After(scan[w]))},
                                         !.answers = @ + 1]
    BY <1>1 DEF ScanObject, ScanInv
  <2>5. ScanSound(scan'[w])
    BY <2>2, <2>4, AnswerSound, EndSound
  <2> QED
    BY <2>1, <2>3, <2>5 DEF ScanInv, ScanSound, Fits, Ids
<1>2. ASSUME NEW w \in Scanners, NEW t \in Types \cup {Wild}, NEW pat \in Patterns,
             StartScan(w, t, pat)
      PROVE  ScanInv'
  <2>1. UNCHANGED <<objects, nextId>>
    BY <1>2 DEF StartScan
  <2>2. scan' = [scan EXCEPT ![w] = scan'[w]]
    BY <1>2 DEF StartScan, ScanInv
  <2>3. scan'[w] = [phase |-> "on", last |-> 0, type |-> t, pat |-> pat, seen |-> {},
                    answers |-> 0, start |-> {id \in Ids : Fits(id, t, pat)}]
    BY <1>2 DEF StartScan, ScanInv, NoScan
  <2>4. ScanSound(scan'[w])
    <3>1. IsFiniteSet({}) /\ Cardinality({}) = 0
      BY FS_EmptySet
    <3>2. {id \in Ids : Fits(id, t, pat)} \subseteq 1 .. nextId - 1 /\ nextId \in Nat
      BY DEF Shape
    <3>3. \A id \in {i \in Ids : Fits(i, t, pat)} : id > 0
      BY DEF Shape
    <3>4. pat \in SUBSET Names
      BY ParametersAssumption
    <3> QED
      BY <2>3, <3>1, <3>2, <3>3, <3>4 DEF ScanSound, ScanRecord
  <2> QED
    BY <2>1, <2>2, <2>4 DEF ScanInv, ScanSound, Fits, Ids
<1>3. nextId \notin Ids /\ nextId \in Nat /\ \A id \in Ids : objects[id] \in Objects
  BY DEF Shape
<1>4. ASSUME NEW t, NEW n, CreateObject(t, n)  PROVE ScanInv'
  <2>1. /\ Ids' = Ids \cup {nextId} /\ \A id \in Ids : objects'[id] = objects[id]
        /\ nextId' = nextId + 1 /\ scan' = scan
    BY <1>3, <1>4 DEF CreateObject, Put, Ids
  <2>2. \A w \in Scanners : ScanSound(scan[w])'
    BY <2>1, SoundStays DEF ScanInv, Fits
  <2> QED
    BY <2>1, <2>2 DEF ScanInv
<1>5. ASSUME NEW t, NEW n, DeleteObject(t, n)  PROVE ScanInv'
  <2>1. /\ Ids' \subseteq Ids /\ \A id \in Ids' : objects'[id] = objects[id]
        /\ nextId' = nextId /\ scan' = scan
    BY <1>5 DEF DeleteObject, Drop, Ids
  <2>2. \A w \in Scanners : ScanSound(scan[w])'
    BY <2>1, SoundStays DEF ScanInv, Fits
  <2> QED
    BY <2>1, <2>2 DEF ScanInv
<1>6. ASSUME NEW t, NEW n, NEW new, RenameObject(t, n, new)  PROVE ScanInv'
  <2>1. PICK it \in Ids : /\ objects' = [objects EXCEPT ![it].name = new]
                          /\ scan' = [w \in Scanners |-> Renamed(scan[w], it, new)]
    BY <1>6 DEF RenameObject
  <2>2. nextId' = nextId /\ Ids' = Ids
    BY <1>6, <2>1 DEF RenameObject, Ids
  <2>3. /\ \A id \in Ids \ {it} : objects'[id] = objects[id]
        /\ objects'[it].type = objects[it].type /\ objects'[it].name = new
    BY <1>3, <2>1 DEF Ids, Objects
  <2>4. ASSUME NEW w \in Scanners  PROVE ScanSound(scan[w])'
    <3>s. PICK s : s = scan[w]
      OBVIOUS
    <3>u. PICK u : u = Renamed(s, it, new)
      OBVIOUS
    <3>1. ScanSound(s) /\ scan'[w] = u
      BY <2>1, <3>s, <3>u DEF ScanInv
    <3>2. u \in {s} \cup {[s EXCEPT !.start = @ \ {id}] : id \in Ids}
      BY <3>u DEF Renamed
    <3>3. it \in u.start => new \in s.pat
      <4>1. s \in ScanRecord
        BY <3>1 DEF ScanSound
      <4>2. new \notin s.pat => u.start = s.start \ {it}
        BY <3>u, <4>1 DEF Renamed, ScanRecord
      <4> QED
        BY <4>2
    <3>4. \A id \in Ids \cap Ids' : id \in u.start /\ Fits(id, s.type, s.pat) =>
                                     Fits(id, s.type, s.pat)'
      <4> TAKE id \in Ids \cap Ids'
      <4> HAVE id \in u.start /\ Fits(id, s.type, s.pat)
      <4> QED
        BY <2>3, <3>3 DEF Fits
    <3>5. ScanSound(u)'
      BY <2>2, <3>1, <3>2, <3>4, SoundStays
    <3> QED
      BY <3>1, <3>5
  <2> QED
    BY <2>1, <2>4 DEF ScanInv
<1>7. ASSUME KeepsNames, UNCHANGED scan  PROVE ScanInv'
  <2>1. \A w \in Scanners : ScanSound(scan[w])'
    BY <1>7, SoundStays DEF ScanInv, Fits, KeepsNames
  <2> QED
    BY <1>7, <2>1 DEF ScanInv
<1> QED
  BY <1>1, <1>2, <1>4, <1>5, <1>6, <1>7, Steps, Zenon

\* A scan that is told it is at its end has been answered with every object that was
\* there and fitted its type and its pattern all along, and with none twice, for any
\* number of stations that scan, create, delete and rename between two requests.
THEOREM Scans == Spec => []ScanExact
<1>1. Init => ScanInv
  <2> SUFFICES ASSUME Init  PROVE ScanInv
    OBVIOUS
  <2>1. ScanSound(NoScan)
    BY ShapeInit, NoScanSound
  <2> QED
    BY <2>1 DEF Init, ScanInv
<1>2. Shape /\ ScanInv /\ [Next]_vars => ScanInv'
  BY ScanStep
<1>3. ScanInv => ScanExact
  BY DEF ScanInv, ScanSound, ScanExact
<1> QED
  BY <1>1, <1>2, <1>3, ShapeAlways, PTL DEF Spec
-----------------------------------------------------------------------------
(***************************************************************************)
(* Members.                                                                *)
(***************************************************************************)

\* The free slots of a set come last and no member is in two slots.
Packed(s) ==
    /\ \A i, j \in 1 .. Slots : i < j /\ s[j] # 0 => s[i] # 0
    /\ \A i, j \in 1 .. Slots : s[i] = s[j] /\ s[i] # 0 => i = j

\* Adding a member to a set adds no other and takes none away.
LEMMA AddingAdds ==
    ASSUME NEW s \in [1 .. Slots -> Nat], Packed(s), NEW m, m # 0
    PROVE  /\ Packed(WithMember(s, m))
           /\ \A x : x # 0 => /\ x \in ToSet(WithMember(s, m)) => x \in ToSet(s) \/ x = m
                              /\ x \in ToSet(s) => x \in ToSet(WithMember(s, m))
<1> DEFINE stops == {i \in 1 .. Slots : s[i] \in {0, m}}
           at == Min(stops)
<1>1. Slots \in Nat
  BY ParametersAssumption
<1>2. CASE stops = {}
  <2>1. WithMember(s, m) = s
    BY <1>2 DEF WithMember
  <2> QED
    BY <2>1
<1>3. CASE stops # {}
  <2>1. WithMember(s, m) = [s EXCEPT ![at] = m]
    BY <1>3 DEF WithMember
  <2>2. stops \in SUBSET Nat
    OBVIOUS
  <2>3. at \in stops /\ \A i \in stops : at <= i
    BY <1>3, <2>2, MinOfNumbers
  <2>4. at \in 1 .. Slots /\ (s[at] = 0 \/ s[at] = m)
    BY <2>3
  <2>5. \A i \in 1 .. Slots : i < at => s[i] # 0 /\ s[i] # m
    <3> SUFFICES ASSUME NEW i \in 1 .. Slots, i < at, s[i] = 0 \/ s[i] = m  PROVE FALSE
      OBVIOUS
    <3>1. i \in stops
      OBVIOUS
    <3> HIDE DEF at, stops
    <3> QED
      BY <1>1, <2>3, <2>4, <3>1
  <2>6. PICK w : w = WithMember(s, m)
    OBVIOUS
  <2> HIDE DEF at, stops
  <2>7. /\ DOMAIN w = 1 .. Slots /\ w[at] = m
        /\ \A i \in 1 .. Slots : i # at => w[i] = s[i]
    BY <2>1, <2>4, <2>6
  <2>8. CASE s[at] = m
    <3>1. w = s
      BY <2>1, <2>4, <2>6, <2>8
    <3>2. m \in ToSet(s)
      BY <2>4, <2>8 DEF ToSet
    <3> QED
      BY <2>6, <3>1, <3>2
  <2>9. CASE s[at] = 0
    <3>1. \A j \in 1 .. Slots : j > at => s[j] = 0
      BY <1>1, <2>4, <2>9 DEF Packed
    <3>2. Packed(w)
      <4>1. ASSUME NEW i \in 1 .. Slots, NEW j \in 1 .. Slots, i < j, w[j] # 0  PROVE w[i] # 0
        BY <1>1, <2>4, <2>5, <2>7, <3>1, <4>1
      <4>2. ASSUME NEW i \in 1 .. Slots, NEW j \in 1 .. Slots, w[i] = w[j], w[i] # 0  PROVE i = j
        BY <1>1, <2>4, <2>5, <2>7, <3>1, <4>2 DEF Packed
      <4> QED
        BY <4>1, <4>2 DEF Packed
    <3>3. ASSUME NEW x, x # 0  PROVE x \in ToSet(w) <=> x \in ToSet(s) \/ x = m
      <4>1. x \in ToSet(w) <=> \E i \in 1 .. Slots : w[i] = x
        BY <2>7 DEF ToSet
      <4>2. x \in ToSet(s) <=> \E i \in 1 .. Slots : s[i] = x
        BY DEF ToSet
      <4> QED
        BY <2>4, <2>7, <2>9, <3>3, <4>1, <4>2
    <3> QED
      BY <2>6, <3>2, <3>3
  <2> QED
    BY <2>4, <2>8, <2>9
<1> QED
  BY <1>2, <1>3

\* Removing a member removes that member and no other, and leaves no hole.
LEMMA RemovingRemoves ==
    ASSUME NEW s \in [1 .. Slots -> Nat], Packed(s),
           NEW m \in ToSet(s), m # 0
    PROVE  /\ Packed(WithoutMember(s, m))
           /\ \A x : x # 0 => (x \in ToSet(WithoutMember(s, m)) <=> x \in ToSet(s) /\ x # m)
<1> DEFINE stops == {i \in 1 .. Slots : s[i] = m}
           at == Min(stops)
<1>1. Slots \in Nat
  BY ParametersAssumption
<1>2. at \in stops
  <2>1. stops # {} /\ stops \in SUBSET Nat
    BY DEF ToSet
  <2> QED
    BY <2>1, MinOfNumbers
<1>3. at \in 1 .. Slots /\ s[at] = m
  BY <1>2
<1>4. PICK w : w = WithoutMember(s, m)
  OBVIOUS
<1>5. w = [i \in 1 .. Slots |-> IF i < at THEN s[i] ELSE IF i < Slots THEN s[i + 1] ELSE 0]
  BY <1>4 DEF WithoutMember
<1> HIDE DEF at, stops
<1>6. /\ DOMAIN w = 1 .. Slots
      /\ \A i \in 1 .. Slots : i < at => w[i] = s[i]
      /\ \A i \in 1 .. Slots : i >= at /\ i < Slots => w[i] = s[i + 1]
      /\ w[Slots] = 0
  BY <1>1, <1>3, <1>5
<1>7. w[Slots] = 0
  BY <1>6
<1>8. Packed(w)
  <2>1. ASSUME NEW i \in 1 .. Slots, NEW j \in 1 .. Slots, i < j, w[j] # 0  PROVE w[i] # 0
    <3>1. j < Slots /\ i < Slots
      BY ONLY <1>1, <1>7, <2>1
    <3>2. PICK a \in 1 .. Slots : a = IF i < at THEN i ELSE i + 1
      BY ONLY <1>1, <3>1
    <3>3. PICK b \in 1 .. Slots : b = IF j < at THEN j ELSE j + 1
      BY ONLY <1>1, <3>1
    <3>4. w[i] = s[a] /\ w[j] = s[b] /\ a < b
      BY ONLY <1>1, <1>3, <1>6, <2>1, <3>1, <3>2, <3>3
    <3>5. s[b] # 0 => s[a] # 0
      BY <3>4 DEF Packed
    <3> QED
      BY ONLY <2>1, <3>4, <3>5
  <2>2. ASSUME NEW i \in 1 .. Slots, NEW j \in 1 .. Slots, w[i] = w[j], w[i] # 0  PROVE i = j
    <3>1. i < Slots /\ j < Slots
      BY <1>1, <1>7, <2>2
    <3>2. PICK a \in 1 .. Slots : a = IF i < at THEN i ELSE i + 1
      BY <1>1, <3>1
    <3>3. PICK b \in 1 .. Slots : b = IF j < at THEN j ELSE j + 1
      BY <1>1, <3>1
    <3>4. w[i] = s[a] /\ w[j] = s[b]
      BY <1>1, <1>3, <1>6, <3>1, <3>2, <3>3
    <3>5. a = b
      BY <2>2, <3>4 DEF Packed
    <3> QED
      BY <1>1, <1>3, <3>1, <3>2, <3>3, <3>5
  <2> QED
    BY <2>1, <2>2 DEF Packed
<1>9. ASSUME NEW x, x # 0  PROVE x \in ToSet(w) <=> x \in ToSet(s) /\ x # m
  <2>1. x \in ToSet(w) <=> \E i \in 1 .. Slots : w[i] = x
    BY <1>6 DEF ToSet
  <2>2. x \in ToSet(s) <=> \E i \in 1 .. Slots : s[i] = x
    BY DEF ToSet
  <2>3. ASSUME NEW i \in 1 .. Slots, w[i] = x  PROVE x \in ToSet(s) /\ x # m
    <3>1. i < Slots
      BY <1>1, <1>7, <1>9, <2>3
    <3>2. PICK a \in 1 .. Slots : a = IF i < at THEN i ELSE i + 1
      BY <1>1, <3>1
    <3>3. w[i] = s[a] /\ a # at
      BY <1>1, <1>3, <1>6, <3>1, <3>2
    <3>4. s[a] # m
      BY <1>3, <1>9, <2>3, <3>3 DEF Packed
    <3> QED
      BY <2>2, <2>3, <3>3, <3>4
  <2>4. ASSUME NEW i \in 1 .. Slots, s[i] = x, x # m  PROVE x \in ToSet(w)
    <3>1. i # at
      BY <1>3, <2>4
    <3>2. PICK a \in 1 .. Slots : a = IF i < at THEN i ELSE i - 1
      BY <1>1, <1>3, <3>1
    <3>3. w[a] = s[i]
      BY <1>1, <1>3, <1>6, <3>1, <3>2
    <3> QED
      BY <2>1, <2>4, <3>3
  <2> QED
    BY <2>1, <2>2, <2>3, <2>4
<1> QED
  BY <1>4, <1>8, <1>9

\* What a set holds, told by what it was told of: that and no more, and all of it
\* unless it was full.
Holds(s, id, T, F) ==
    \A m \in Nat \ {0} :
        /\ m \in ToSet(s) => <<id, m>> \in T
        /\ <<id, m>> \in T => m \in ToSet(s) \/ id \in F

\* What MembershipExact rests on, for members that are gone as well: a set nobody
\* wrote as bytes is packed and holds what it was told of; and there is no word of
\* sets that are not there.
MemberSound(id) ==
    objects[id].set # <<>> /\ id \notin rewritten =>
        /\ Packed(objects[id].set)
        /\ Holds(objects[id].set, id, told, overflowed)

ToldOfSets == \A p \in told : p[1] \in Ids /\ objects[p[1]].set # <<>>

MemberInv == ToldOfSets /\ \A id \in Ids : MemberSound(id)

\* Objects whose set, and what was told of it, stay as they are.
LEMMA MemberStays ==
    ASSUME NEW id, MemberSound(id),
           objects'[id].set = objects[id].set,
           \A m : <<id, m>> \in told' <=> <<id, m>> \in told,
           id \in overflowed' <=> id \in overflowed,
           id \in rewritten' <=> id \in rewritten
    PROVE  MemberSound(id)'
BY DEF MemberSound, Holds

LEMMA MemberStep ==
    ASSUME Shape, MemberInv, [Next]_vars
    PROVE  MemberInv'
<1> USE DEF Ids
<1>1. nextId \in Nat \ {0} /\ nextId \notin Ids
  BY DEF Shape
<1>2. \A id \in Ids : objects[id] \in Objects /\ id \in Nat \ {0}
  BY DEF Shape
<1>3. ASSUME NEW t, NEW n, CreateObject(t, n)  PROVE MemberInv'
  <2>1. PICK new : new = nextId
    OBVIOUS
  <2>2. /\ Ids' = Ids \cup {new} /\ new \notin Ids
        /\ objects'[new].set = <<>> /\ \A id \in Ids : objects'[id] = objects[id]
        /\ UNCHANGED <<told, overflowed, rewritten>>
    BY <1>1, <1>3, <2>1 DEF CreateObject, Put, NewObject, members
  <2>3. MemberSound(new)'
    BY <2>2 DEF MemberSound
  <2>4. \A id \in Ids : MemberSound(id)'
    BY <2>2, MemberStays DEF MemberInv
  <2>5. ToldOfSets'
    BY <2>2 DEF MemberInv, ToldOfSets
  <2> QED
    BY <2>2, <2>3, <2>4, <2>5 DEF MemberInv
<1>4. ASSUME NEW t, NEW n, DeleteObject(t, n)  PROVE MemberInv'
  <2>1. PICK gone \in Ids : /\ objects' = Drop(objects, gone) /\ overflowed' = overflowed
                            /\ told' = {p \in told : p[1] # gone} /\ rewritten' = rewritten
    BY <1>4 DEF DeleteObject
  <2>2. Ids' = Ids \ {gone} /\ \A id \in Ids' : objects'[id] = objects[id]
    BY <2>1 DEF Drop
  <2>3. \A id \in Ids' : MemberSound(id)'
    BY <2>1, <2>2, MemberStays DEF MemberInv
  <2>4. ToldOfSets'
    BY <2>1, <2>2 DEF MemberInv, ToldOfSets
  <2> QED
    BY <2>3, <2>4 DEF MemberInv
<1>5. ASSUME NEW t, NEW n, NEW new, RenameObject(t, n, new)  PROVE MemberInv'
  <2>1. PICK it \in Ids : objects' = [objects EXCEPT ![it].name = new]
    BY <1>5 DEF RenameObject
  <2>2. UNCHANGED <<told, overflowed, rewritten>>
    BY <1>5 DEF RenameObject, members
  <2>3. [objects[it] EXCEPT !.name = new].set = objects[it].set
    BY <1>2 DEF Objects
  <2>4. Ids' = Ids /\ \A id \in Ids : objects'[id].set = objects[id].set
    BY <2>1, <2>3
  <2>5. \A id \in Ids : MemberSound(id)'
    BY <2>2, <2>4, MemberStays DEF MemberInv
  <2>6. ToldOfSets'
    BY <2>2, <2>4 DEF MemberInv, ToldOfSets
  <2> QED
    BY <2>4, <2>5, <2>6 DEF MemberInv
<1>6. ASSUME NEW it \in Ids, NEW s, objects' = [objects EXCEPT ![it].set = s],
             \A d, m : d # it => (<<d, m>> \in told' <=> <<d, m>> \in told),
             \A p \in told' : p \in told \/ p[1] = it,
             \A d : d # it => (d \in overflowed' <=> d \in overflowed),
             \A d : d # it => (d \in rewritten' <=> d \in rewritten),
             s = <<>> => \A p \in told' : p[1] # it,
             s # <<>> /\ it \notin rewritten' =>
                Packed(s) /\ Holds(s, it, told', overflowed')
      PROVE  MemberInv'
  <2>1. [objects[it] EXCEPT !.set = s].set = s
    BY <1>2 DEF Objects
  <2>2. /\ Ids' = Ids /\ objects'[it].set = s
        /\ \A id \in Ids \ {it} : objects'[id] = objects[id]
    BY <1>6, <2>1
  <2>3. MemberSound(it)'
    BY <1>6, <2>2 DEF MemberSound
  <2>4. \A id \in Ids \ {it} : MemberSound(id)'
    BY <1>6, <2>2, MemberStays DEF MemberInv
  <2>5. ToldOfSets'
    <3> SUFFICES ASSUME NEW p \in told'  PROVE p[1] \in Ids' /\ objects'[p[1]].set # <<>>
      BY DEF ToldOfSets
    <3>1. CASE p[1] = it
      BY <1>6, <2>2, <3>1
    <3>2. CASE p[1] # it
      BY <1>6, <2>2, <3>2 DEF MemberInv, ToldOfSets
    <3> QED
      BY <3>1, <3>2
  <2> QED
    BY <2>2, <2>3, <2>4, <2>5 DEF MemberInv
<1>7. ASSUME NEW id \in Indexed, CreateSet(id)  PROVE MemberInv'
  <2>1. Packed(EmptySet)
    BY DEF Packed, EmptySet
  <2>2. \A m \in Nat \ {0} : m \notin ToSet(EmptySet)
    BY DEF ToSet, EmptySet
  <2>3. \A p \in told : p[1] # id
    BY <1>7 DEF MemberInv, ToldOfSets, CreateSet
  <2>4. \A m : <<id, m>> \notin told
    BY <2>3
  <2> QED
    BY <1>6, <1>7, <2>1, <2>2, <2>3, <2>4, EmptySetIsSet DEF CreateSet, Indexed, Holds, members
<1>8. ASSUME NEW id \in Indexed, DeleteSet(id)  PROVE MemberInv'
  BY <1>6, <1>8 DEF DeleteSet, Indexed
<1>9. ASSUME NEW id \in Indexed, objects[id].set # <<>>
      PROVE  /\ objects[id].set \in [1 .. Slots -> Nat]
             /\ MemberSound(id) /\ id \in Ids
  BY <1>2, <1>9 DEF Objects, Sets, Indexed, MemberInv
<1>10. \A m \in Indexed : m \in Nat \ {0}
  BY DEF Indexed, Shape
<1>11. ASSUME NEW id \in Indexed, NEW m \in Indexed, AddObjToSet(id, m)  PROVE MemberInv'
  <2>1. PICK s : s = WithMember(objects[id].set, m)
    OBVIOUS
  <2>2. /\ objects[id].set # <<>> /\ objects' = [objects EXCEPT ![id].set = s]
        /\ told' = told \cup {<<id, m>>} /\ rewritten' = rewritten
        /\ overflowed' = IF m \in ToSet(s) THEN overflowed ELSE overflowed \cup {id}
    BY <1>11, <2>1 DEF AddObjToSet
  <2>3. ASSUME id \notin rewritten
        PROVE  /\ Packed(s)
               /\ \A x : x # 0 => /\ x \in ToSet(s) => x \in ToSet(objects[id].set) \/ x = m
                                  /\ x \in ToSet(objects[id].set) => x \in ToSet(s)
    BY <1>1, <1>9, <1>10, <2>1, <2>2, <2>3, AddingAdds DEF MemberSound
  <2>4. s # <<>>
    BY <1>1, <1>9, <1>10, <2>1, <2>2, AddingKeepsSets DEF Sets
  <2>5. ASSUME id \notin rewritten  PROVE Holds(s, id, told', overflowed')
    <3> SUFFICES ASSUME NEW x \in Nat \ {0}
                 PROVE  /\ x \in ToSet(s) => <<id, x>> \in told'
                        /\ <<id, x>> \in told' => x \in ToSet(s) \/ id \in overflowed'
      BY DEF Holds
    <3>1. /\ x \in ToSet(objects[id].set) => <<id, x>> \in told
          /\ <<id, x>> \in told => x \in ToSet(objects[id].set) \/ id \in overflowed
      BY <1>9, <2>2, <2>5 DEF MemberSound, Holds
    <3>2. <<id, x>> \in told' <=> <<id, x>> \in told \/ x = m
      BY <2>2
    <3> QED
      BY <2>2, <2>3, <2>5, <3>1, <3>2
  <2>6. /\ \A d, x : d # id => (<<d, x>> \in told' <=> <<d, x>> \in told)
        /\ \A p \in told' : p \in told \/ p[1] = id
        /\ \A d : d # id => (d \in overflowed' <=> d \in overflowed)
    BY <2>2
  <2> QED
    BY <1>6, <1>9, <2>2, <2>3, <2>4, <2>5, <2>6
<1>12. ASSUME NEW id \in Indexed, NEW m \in Indexed, DeleteObjFromSet(id, m)  PROVE MemberInv'
  <2>1. PICK s : s = WithoutMember(objects[id].set, m)
    OBVIOUS
  <2>2. /\ m \in ToSet(objects[id].set) /\ objects' = [objects EXCEPT ![id].set = s]
        /\ told' = told \ {<<id, m>>} /\ overflowed' = overflowed /\ rewritten' = rewritten
    BY <1>12, <2>1 DEF DeleteObjFromSet
  <2>3. objects[id].set # <<>>
    BY <2>2 DEF ToSet
  <2>4. ASSUME id \notin rewritten
        PROVE  /\ Packed(s)
               /\ \A x : x # 0 => (x \in ToSet(s) <=> x \in ToSet(objects[id].set) /\ x # m)
    BY <1>1, <1>9, <1>10, <2>1, <2>2, <2>3, <2>4, RemovingRemoves DEF MemberSound
  <2>5. s # <<>>
    BY <1>1, <1>9, <1>10, <2>1, <2>2, <2>3, RemovingKeepsSets DEF Sets
  <2>6. ASSUME id \notin rewritten  PROVE Holds(s, id, told', overflowed')
    <3> SUFFICES ASSUME NEW x \in Nat \ {0}
                 PROVE  /\ x \in ToSet(s) => <<id, x>> \in told'
                        /\ <<id, x>> \in told' => x \in ToSet(s) \/ id \in overflowed'
      BY DEF Holds
    <3>1. /\ x \in ToSet(objects[id].set) => <<id, x>> \in told
          /\ <<id, x>> \in told => x \in ToSet(objects[id].set) \/ id \in overflowed
      BY <1>9, <2>3, <2>6 DEF MemberSound, Holds
    <3>2. <<id, x>> \in told' <=> <<id, x>> \in told /\ x # m
      BY <2>2
    <3> QED
      BY <2>2, <2>4, <2>6, <3>1, <3>2
  <2>7. /\ \A d, x : d # id => (<<d, x>> \in told' <=> <<d, x>> \in told)
        /\ \A p \in told' : p \in told
    BY <2>2
  <2> QED
    BY <1>6, <1>9, <2>2, <2>3, <2>4, <2>5, <2>6, <2>7
<1>16. ASSUME NEW id \in Indexed, NEW v \in Writes, WriteValue(id, v)  PROVE MemberInv'
  <2>1. PICK s : s = [i \in 1 .. Slots |-> IF i <= Len(v) THEN v[i] ELSE objects[id].set[i]]
    OBVIOUS
  <2>2. /\ objects[id].set # <<>> /\ id \in Ids
        /\ told' = told /\ overflowed' = overflowed /\ rewritten' = rewritten \cup {id}
    BY <1>16 DEF WriteValue, Indexed
  <2>3. objects' = [objects EXCEPT ![id].set = s]
    BY <1>16, <2>1, <2>2 DEF WriteValue
  <2>4. s # <<>>
    BY <1>2, <2>1, <2>2, WritingKeepsSets DEF Objects
  <2> QED
    BY <1>6, <2>2, <2>3, <2>4
<1>13. ASSUME UNCHANGED <<objects, told, overflowed, rewritten>>  PROVE MemberInv'
  BY <1>13 DEF MemberInv, MemberSound, ToldOfSets
<1>14. ASSUME NEW w, NEW t, NEW pat, ScanObject(w) \/ StartScan(w, t, pat)  PROVE MemberInv'
  BY <1>13, <1>14 DEF ScanObject, StartScan, members
<1>15. CASE Lock(TRUE) \/ Lock(FALSE) \/ UNCHANGED vars
  BY <1>13, <1>15 DEF Lock, vars, members
<1> QED
  BY <1>3, <1>4, <1>5, <1>7, <1>8, <1>11, <1>12, <1>14, <1>15, <1>16, Zenon DEF Next

\* A set that nobody wrote as bytes holds only members that were added and not
\* removed since, full or not, and all of them if it was never full: a removal takes
\* the member out for good, and an object made later never inherits the membership
\* of a deleted one.
THEOREM Members == Spec => []MembershipExact
<1>1. Init => MemberInv
  BY DEF Init, MemberInv, MemberSound, ToldOfSets, NewObject, Ids
<1>2. Shape /\ MemberInv /\ [Next]_vars => MemberInv'
  BY MemberStep
<1>3. Shape /\ MemberInv => MembershipExact
  <2> SUFFICES ASSUME Shape, MemberInv  PROVE MembershipExact
    OBVIOUS
  <2>1. Ids \subseteq Nat \ {0}
    BY DEF Shape
  <2> QED
    BY <2>1 DEF MemberInv, MemberSound, MembershipExact, Holds
<1> QED
  BY <1>1, <1>2, <1>3, ShapeAlways, PTL DEF Spec
=============================================================================
