------------------------------ MODULE Bindery ------------------------------
(***************************************************************************)
(* The bindery of nw-bindery.js: objects, the index of their names, the    *)
(* set property of an object (a group's members, say) and scans of the     *)
(* objects, which a station drives with one request per object while other *)
(* stations create, delete and rename.                                     *)
(*                                                                         *)
(* Each object has at most one property here, a set, which requests that   *)
(* write bytes reach as well; item properties and security bytes are data  *)
(* the properties do not look at.                                          *)
(***************************************************************************)
EXTENDS Integers, FiniteSetsExt, SequencesExt

CONSTANTS
    Types,     \* object types, "user" and "server" among them
    Names,     \* object names, upper-cased, those of the built-in objects too
    Wild,      \* OBJ_TYPE.WILD, 0xFFFF: any type
    Slots,     \* entries of a set: 32 in the code
    Writes,    \* bytes written over a set: the entries they make at its start
    Scanners,  \* stations that scan
    Patterns,  \* what they scan for: the set of names a pattern fits
    Ops,       \* which requests are made: a subset of AllOps
    UseWild,   \* TRUE: Delete and Rename may name an object by Wild
    MaxObjects,\* bound: objects ever made, the two built-in ones first
    Owners     \* bound: the ids of the objects that are given a set

AllOps == {"create", "delete", "rename", "set", "write", "scan", "lock"}

ASSUME ParametersAssumption ==
    /\ {"user", "server"} \subseteq Types /\ Wild \notin Types
    /\ {"NODEJS-SERVER", "SUPERVISOR"} \subseteq Names
    /\ Slots \in Nat \ {0}
    /\ Writes \subseteq Seq(Nat) /\ \A v \in Writes : Len(v) <= Slots
    /\ Patterns \subseteq SUBSET Names
    /\ Ops \subseteq AllOps
    /\ UseWild \in BOOLEAN
    /\ MaxObjects \in Nat \ {0, 1}
    /\ Owners \subseteq Nat

VARIABLES
    objects,    \* _objects: id -> [type, name, set]
    byName,     \* _byName: <<type, name>> -> id
    nextId,     \* _nextId
    locked,     \* _locked
    scan,       \* scan[w]: the scan station w is driving
    told,       \* history: <<object, member>> added and not removed since
    overflowed, \* history: the objects whose set was full when one was added
    rewritten   \* history: the objects whose set was written as bytes

members == <<told, overflowed, rewritten>>
vars    == <<objects, byName, nextId, locked, scan, members>>

Ids == DOMAIN objects

\* A scan: the last id it was answered with, what it looks for, what it has seen,
\* how many answers it had, and the objects that were there and fitted all along.
\* It is over when the answer is that there are no more, and cut when the bindery
\* is locked, which the client takes for the same.
NoScan == [phase |-> "none", last |-> 0, type |-> Wild, pat |-> {}, seen |-> {},
           answers |-> 0, start |-> {}]

NewObject(t, n) == [type |-> t, name |-> n, set |-> <<>>]

Init ==
    /\ objects = <<NewObject("server", "NODEJS-SERVER"), NewObject("user", "SUPERVISOR")>>
    /\ byName  = [k \in {<<"server", "NODEJS-SERVER">>, <<"user", "SUPERVISOR">>} |->
                    IF k[1] = "server" THEN 1 ELSE 2]
    /\ nextId = 3
    /\ locked = FALSE
    /\ scan = [w \in Scanners |-> NoScan]
    /\ told = {} /\ overflowed = {} /\ rewritten = {}
-----------------------------------------------------------------------------
(***************************************************************************)
(* Objects.                                                                *)
(***************************************************************************)

\* The ids _findObj may answer with: by exact name, or the first entry of the
\* index whose name fits.  An entry may lead to an object that is gone, and then
\* the search ends there; the order of the index is left open.
FindObj(t, n) ==
    LET fits == IF t = Wild THEN {k \in DOMAIN byName : k[2] = n}
                ELSE {<<t, n>>} \cap DOMAIN byName
    IN  {byName[k] : k \in fits}

Found(t, n, id) == id \in FindObj(t, n) /\ id \in Ids

\* A variant: nobody looks whether the name is taken.
MissingUnchecked(t, n) == TRUE

\* _findObj may answer that there is no such object.
Missing(t, n) == FindObj(t, n) \subseteq Ids => FindObj(t, n) = {}

Put(f, k, v) == [x \in DOMAIN f \cup {k} |-> IF x = k THEN v ELSE f[x]]
Drop(f, k)   == [x \in DOMAIN f \ {k} |-> f[x]]

CreateObject(t, n) ==
    /\ "create" \in Ops /\ ~ locked
    /\ Missing(t, n)
    /\ nextId <= MaxObjects
    /\ objects' = Put(objects, nextId, NewObject(t, n))
    /\ byName'  = Put(byName, <<t, n>>, nextId)
    /\ nextId'  = nextId + 1
    /\ UNCHANGED <<locked, scan, members>>

\* The index entry that goes is that of the type in the request.
IndexKey(t, n, id) == <<t, n>>

DeleteObject(t, n) ==
    /\ "delete" \in Ops /\ ~ locked
    /\ \E id \in Ids :
          /\ Found(t, n, id)
          /\ objects' = Drop(objects, id)
          /\ byName'  = Drop(byName, IndexKey(t, n, id))
          /\ told' = {p \in told : p[1] # id}
    /\ UNCHANGED <<nextId, locked, scan, overflowed, rewritten>>

\* History: what has not fitted all along.
Renamed(s, id, new) == IF new \in s.pat THEN s ELSE [s EXCEPT !.start = @ \ {id}]

RenameObject(t, old, new) ==
    /\ "rename" \in Ops /\ ~ locked
    /\ Missing(t, new)
    /\ \E id \in Ids :
          /\ Found(t, old, id)
          /\ objects' = [objects EXCEPT ![id].name = new]
          /\ byName'  = Put(Drop(byName, IndexKey(t, old, id)), <<t, new>>, id)
          /\ scan' = [w \in Scanners |-> Renamed(scan[w], id, new)]
    /\ UNCHANGED <<nextId, locked, members>>

\* closeBindery and openBindery: for every station at once.
Lock(value) ==
    /\ "lock" \in Ops
    /\ locked' = value
    /\ UNCHANGED <<objects, byName, nextId, scan, members>>
-----------------------------------------------------------------------------
(***************************************************************************)
(* Sets: "Slots" object ids, 0 for a free slot.                            *)
(***************************************************************************)

EmptySet == [i \in 1 .. Slots |-> 0]

\* createProperty with the set flag, deleteProperty.
CreateSet(id) ==
    /\ "set" \in Ops /\ ~ locked /\ id \in Owners
    /\ objects[id].set = <<>>
    /\ objects' = [objects EXCEPT ![id].set = EmptySet]
    /\ UNCHANGED <<byName, nextId, locked, scan, members>>

DeleteSet(id) ==
    /\ "set" \in Ops /\ ~ locked
    /\ objects[id].set # <<>>
    /\ objects' = [objects EXCEPT ![id].set = <<>>]
    /\ told' = {p \in told : p[1] # id}
    /\ overflowed' = overflowed \ {id}
    /\ rewritten' = rewritten \ {id}
    /\ UNCHANGED <<byName, nextId, locked, scan>>

\* A variant: a full set grows.
WithMemberGrowing(set, m) ==
    LET stops == {i \in 1 .. Slots : set[i] \in {0, m}} IN
    IF stops = {} THEN Append(set, m) ELSE [set EXCEPT ![Min(stops)] = m]

\* addObjToSet: the first slot that is free or holds the member already.
WithMember(set, m) ==
    LET stops == {i \in 1 .. Slots : set[i] \in {0, m}} IN
    IF stops = {} THEN set ELSE [set EXCEPT ![Min(stops)] = m]

AddObjToSet(id, m) ==
    LET set == objects[id].set IN
    /\ "set" \in Ops /\ ~ locked
    /\ set # <<>>
    /\ objects' = [objects EXCEPT ![id].set = WithMember(set, m)]
    /\ told' = told \cup {<<id, m>>}
    /\ overflowed' = IF m \in ToSet(WithMember(set, m)) THEN overflowed
                     ELSE overflowed \cup {id}
    /\ UNCHANGED <<byName, nextId, locked, scan, rewritten>>

\* A variant: the entry is cleared and the others stay.
WithoutMemberHole(set, m) ==
    [set EXCEPT ![Min({i \in 1 .. Slots : set[i] = m})] = 0]

\* deleteObjFromSet: the entries after the member move up.
WithoutMember(set, m) ==
    LET at == Min({i \in 1 .. Slots : set[i] = m}) IN
    [i \in 1 .. Slots |-> IF i < at THEN set[i]
                          ELSE IF i < Slots THEN set[i + 1] ELSE 0]

DeleteObjFromSet(id, m) ==
    LET set == objects[id].set IN
    /\ "set" \in Ops /\ ~ locked
    /\ m \in ToSet(set)
    /\ objects' = [objects EXCEPT ![id].set = WithoutMember(set, m)]
    /\ told' = told \ {<<id, m>>}
    /\ UNCHANGED <<byName, nextId, locked, scan, overflowed, rewritten>>

\* writePropertyValue, and changePassword on a property of that name: neither
\* looks whether the property is a set.  An entry written in part is given in v
\* as it ends up.
WriteValue(id, v) ==
    /\ "write" \in Ops /\ ~ locked
    /\ objects[id].set # <<>>
    /\ objects' = [objects EXCEPT ![id].set =
                     [i \in 1 .. Slots |-> IF i <= Len(v) THEN v[i] ELSE @[i]]]
    /\ rewritten' = rewritten \cup {id}
    /\ UNCHANGED <<byName, nextId, locked, scan, told, overflowed>>
-----------------------------------------------------------------------------
(***************************************************************************)
(* Scans.                                                                  *)
(***************************************************************************)

Fits(id, t, pat) == (t = Wild \/ objects[id].type = t) /\ objects[id].name \in pat

StartScan(w, t, pat) ==
    /\ "scan" \in Ops /\ scan[w].phase # "on"
    /\ scan' = [scan EXCEPT ![w] = [NoScan EXCEPT !.phase = "on", !.type = t, !.pat = pat,
                                      !.start = {id \in Ids : Fits(id, t, pat)}]]
    /\ UNCHANGED <<objects, byName, nextId, locked, members>>

\* A variant: the scan goes on one id too late.
AfterNext(s) == {id \in Ids : id > s.last + 1 /\ Fits(id, s.type, s.pat)}

\* scanObject: the map is in the order of the ids.
After(s) == {id \in Ids : id > s.last /\ Fits(id, s.type, s.pat)}

ScanObject(w) ==
    LET s == scan[w] IN
    /\ s.phase = "on"
    /\ scan' = [scan EXCEPT ![w] =
                  IF locked THEN [s EXCEPT !.phase = "cut"]
                  ELSE IF After(s) = {} THEN [s EXCEPT !.phase = "over"]
                  ELSE [s EXCEPT !.last = Min(After(s)), !.seen = @ \cup {Min(After(s))},
                                 !.answers = @ + 1]]
    /\ UNCHANGED <<objects, byName, nextId, locked, members>>

\* The objects some name leads to.
Indexed == {byName[k] : k \in DOMAIN byName} \cap Ids

AskedTypes == IF UseWild THEN Types \cup {Wild} ELSE Types

Next ==
    \/ \E t \in Types, n \in Names : CreateObject(t, n)
    \/ \E t \in AskedTypes, n \in Names :
          \/ DeleteObject(t, n)
          \/ \E new \in Names : RenameObject(t, n, new)
    \/ \E id \in Indexed : \/ CreateSet(id) \/ DeleteSet(id)
                           \/ \E m \in Indexed : AddObjToSet(id, m) \/ DeleteObjFromSet(id, m)
                           \/ \E v \in Writes : WriteValue(id, v)
    \/ \E w \in Scanners : ScanObject(w) \/ \E t \in Types \cup {Wild}, pat \in Patterns :
                                                StartScan(w, t, pat)
    \/ Lock(TRUE) \/ Lock(FALSE)

Spec == Init /\ [][Next]_vars
-----------------------------------------------------------------------------
(***************************************************************************)
(* Properties.                                                             *)
(***************************************************************************)

\* Type invariant of the bindery.
TypeOK ==
    /\ Ids \subseteq 1 .. nextId - 1
    /\ \A id \in Ids :
          /\ objects[id].type \in Types /\ objects[id].name \in Names
          /\ objects[id].set = <<>> \/ objects[id].set \in [1 .. Slots -> Nat]
    /\ \A k \in DOMAIN byName : k[2] \in Names /\ byName[k] \in 1 .. nextId - 1
    /\ nextId \in 3 .. MaxObjects + 1
    /\ locked \in BOOLEAN

\* While requests name objects by their type, the index and the objects agree
\* through every order of creates, deletes and renames, several stations' at
\* once: each object is found under its name, and no name leads elsewhere.
IndexCorrect ==
    /\ DOMAIN byName = {<<objects[id].type, objects[id].name>> : id \in Ids}
    /\ \A id \in Ids : byName[<<objects[id].type, objects[id].name>>] = id

NamesIndexed == UseWild \/ IndexCorrect

\* When a scan is told that there are no more, it has been answered with every
\* object that was there and fitted from its start on, whatever is created, deleted
\* and renamed between two of its requests, and with no object twice; so far, with
\* all of those up to the last.
ScanExact ==
    \A w \in Scanners :
        /\ scan[w].answers = Cardinality(scan[w].seen)
        /\ scan[w].phase # "cut" => \A id \in scan[w].start \cap Ids :
              id \in scan[w].seen \/ (scan[w].phase = "on" /\ id > scan[w].last)

\* A set that nobody wrote as bytes holds only objects that were added and not
\* removed since, and all of them if it was never full: a removal takes out a
\* member for good, and an object made later never inherits the membership of one
\* that was deleted.
MembershipExact ==
    \A id \in Ids \ rewritten : objects[id].set # <<>> =>
        \A m \in Ids :
            /\ m \in ToSet(objects[id].set) => <<id, m>> \in told
            /\ <<id, m>> \in told => m \in ToSet(objects[id].set) \/ id \in overflowed
=============================================================================
