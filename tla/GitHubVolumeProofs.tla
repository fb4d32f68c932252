-------------------------- MODULE GitHubVolumeProofs --------------------------
(***************************************************************************)
(* Theorems about GitHubVolume, for every number of calls, paths, handles, *)
(* transactions, renames and errors of the network.                        *)
(***************************************************************************)
EXTENDS GitHubVolume, FiniteSetTheorems, WellFoundedInduction, TLAPS

(***************************************************************************)
(* Types.                                                                  *)
(***************************************************************************)

Blobs == Contents \cup {None}

IsGet(r)    == r.do = "get" /\ r = GetFile(r.path) /\ r.path \in Paths
IsPut(r)    == /\ r.do = "put" /\ r = WriteFile(r.path, r.body, r.sha, r.branch)
               /\ r.path \in Paths /\ r.body \in Contents /\ r.sha \in Blobs
               /\ r.branch \in 0 .. nextTxn - 1
IsDelete(r) == /\ r.do = "delete" /\ r = DeleteFile(r.path, r.sha)
               /\ r.path \in Paths /\ r.sha \in Blobs
IsMerge(r)  == r.do = "merge" /\ r = Merge(r.branch)
IsDrop(r)   == r.do = "delete branch" /\ r = DeleteBranch(r.branch)

\* What a suspended call is: which requests it may wait for, and what it keeps.
Renaming(arg) ==
    /\ arg = [from |-> arg.from, to |-> arg.to, content |-> arg.content]
    /\ arg.from \in Paths /\ arg.to \in Paths /\ arg.content \in Blobs

InTxn(arg) ==
    /\ arg = [txn |-> arg.txn, fh |-> arg.fh]
    /\ arg.txn \in 1 .. nextTxn - 1 /\ arg.fh \in 0 .. nextFH - 1

Role(T) ==
    \/ T.op \in {"open", "create"} /\ IsGet(T.req) /\ T.arg \in 0 .. nextFH - 1
    \/ T.op = "close" /\ IsPut(T.req) /\ T.arg \in 1 .. nextFH - 1
    \/ T.op = "delete" /\ (IsGet(T.req) \/ IsDelete(T.req))
    \/ /\ T.op = "rename" /\ Renaming(T.arg)
       /\ IsGet(T.req) \/ IsPut(T.req) \/ IsDelete(T.req)
    \/ /\ T.op = "end" /\ InTxn(T.arg)
       /\ \/ IsPut(T.req) /\ T.arg.fh # 0
          \/ (IsMerge(T.req) \/ IsDrop(T.req)) /\ T.req.branch = T.arg.txn
    \/ T.op = "abort" /\ InTxn(T.arg) /\ IsDrop(T.req) /\ T.req.branch = T.arg.txn

Suspended(T) ==
    /\ T = [op |-> T.op, at |-> T.at, req |-> T.req, arg |-> T.arg, found |-> T.found]
    /\ T.at \in {"sent", "ok", "error"} /\ T.found \in Blobs
    /\ Role(T)

Handles == [path : Paths, sha : Blobs, buf : Contents, dirty : BOOLEAN, branch : 0 .. nextTxn - 1]

HubTypes ==
    /\ Main \in DOMAIN repo /\ DOMAIN repo \subseteq 0 .. nextTxn - 1
    /\ repo \in [DOMAIN repo -> Trees] /\ base \in [DOMAIN repo -> Trees]
    /\ DOMAIN birth \subseteq 1 .. nextTxn - 1 /\ DOMAIN birth \cap DOMAIN repo = {}
    /\ birth \in [DOMAIN birth -> Trees \cup {None}]

HandleTypes ==
    /\ DOMAIN fhs \subseteq 1 .. nextFH - 1 /\ fhs \in [DOMAIN fhs -> Handles]
    /\ given \subseteq 1 .. nextFH - 1
    /\ acked \in [1 .. nextFH - 1 -> Contents]
    /\ of \in [1 .. nextFH - 1 -> 0 .. nextTxn - 1]

TxnTypes ==
    /\ nextTxn \in 1 .. MaxTxns + 1 /\ txns \subseteq 1 .. nextTxn - 1
    /\ over \in [1 .. MaxTxns -> {"open", "ending", "aborting", "ended", "aborted"}]

TaskTypes ==
    /\ task = [k \in Calls |-> task[k]]
    /\ \A k \in Calls : task[k] = Idle \/ Suspended(task[k])

Types ==
    /\ writes \in 0 .. MaxWrites /\ nextFH \in Nat \ {0}
    /\ HubTypes /\ HandleTypes /\ TxnTypes /\ TaskTypes

Live(T) == T.op # "idle"
PutsFile(T) == T.op \in {"close", "end"} /\ T.req.do = "put"
File(T) == IF T.op = "close" THEN T.arg ELSE T.arg.fh

(***************************************************************************)
(* Committed data.                                                         *)
(***************************************************************************)

\* What is read of main, and what a branch started from, has been on main.
Known ==
    /\ Tree(Main) \subseteq onMain
    /\ \A b \in DOMAIN repo : \A p \in Paths : In(base[b][p]) \subseteq onMain
    /\ \A t \in DOMAIN birth : \A p \in Paths : birth[t] # None => In(birth[t][p]) \subseteq onMain
    /\ \A k \in Calls : Live(task[k]) => In(task[k].found) \subseteq onMain

\* A branch holds, path by path, what it started from.
Extends ==
    \A t \in DOMAIN repo \ {Main} : \A p \in Paths : In(base[t][p]) \subseteq In(repo[t][p])

\* A buffer, and a commit made of it, holds what the sha stands for.
ShaHeld ==
    /\ \A fh \in DOMAIN fhs : In(fhs[fh].sha) \subseteq fhs[fh].buf
    /\ \A k \in Calls : PutsFile(task[k]) => In(task[k].req.sha) \subseteq task[k].req.body

\* A rename copies what it read to a path that is free, then deletes that very
\* content where it was.
RenameOK ==
    \A k \in Calls : task[k].op = "rename" =>
        LET T == task[k] IN
        /\ In(T.arg.content) \subseteq onMain
        /\ T.req.do = "put" => T.req = RenameCopy(T.arg) /\ T.arg.content # None
        /\ T.req.do = "delete" => T.req = RenameCleanup(T.arg)

\* The renames that have made their copy of write w and are yet to delete one.
MustClean(T, w) ==
    /\ T.op = "rename" /\ w \in In(T.arg.content)
    /\ \/ T.req.do = "put" /\ T.at = "ok"
       \/ T.req.do = "delete" /\ T.at = "sent"

Cleanups(w) == {k \in Calls : MustClean(task[k], w)}

Copies(w) == {p \in Paths : w \in In(repo[Main][p])}

\* There are more copies than renames that may each delete one.
CopiesLeft ==
    \A w \in onMain \ gone : Cardinality(Cleanups(w)) < Cardinality(Copies(w))

(***************************************************************************)
(* Writes.                                                                 *)
(***************************************************************************)

\* Every write is acknowledged to one handle.  The buffer of a handle holds its
\* writes, and what was on main; a handle that is not dirty has none.
WritesOf ==
    /\ \A fh, g \in DOMAIN acked : fh # g => acked[fh] \cap acked[g] = {}
    /\ \A fh \in DOMAIN fhs : /\ acked[fh] \subseteq fhs[fh].buf
                              /\ fhs[fh].buf \subseteq onMain \cup acked[fh]
                              /\ ~ fhs[fh].dirty => acked[fh] = {}
                              /\ fhs[fh].branch = of[fh]
    /\ \A k \in Calls : PutsFile(task[k]) =>
          /\ task[k].req.body \subseteq onMain \cup acked[File(task[k])]
          /\ task[k].req.branch = of[File(task[k])]
          /\ task[k].op = "end" => task[k].req.branch = task[k].arg.txn

\* Write w was made to a handle of one of the transactions B; of Main, outside any.
Owned(w, B) == \E fh \in DOMAIN of : of[fh] \in B /\ w \in acked[fh]

\* Main holds writes of its own and of merged transactions only.
Isolated ==
    /\ \A w \in onMain : Owned(w, {Main} \cup merged)
    /\ \A t \in DOMAIN repo \ {Main} : \A p \in Paths : \A w \in In(repo[t][p]) :
          w \in onMain \/ Owned(w, {t})

\* A commit that ended well is kept; while programs leave a handle alone that is
\* being closed, its buffer is what the commit holds.
Flushed ==
    /\ \A k \in Calls : PutsFile(task[k]) /\ task[k].at = "ok" => task[k].req.body \subseteq kept
    /\ \A k \in Calls : PutsFile(task[k]) /\ File(task[k]) \in DOMAIN fhs =>
          fhs[File(task[k])].buf = task[k].req.body

\* Of what was acknowledged to a handle that is gone, nothing is lost.
ClosedKept == \A fh \in DOMAIN acked \ DOMAIN fhs : acked[fh] \subseteq kept \cup gone

(***************************************************************************)
(* Transactions.                                                           *)
(***************************************************************************)

Ends(T) == T.op \in {"end", "abort"}
Running == {"open", "ending", "aborting"}

\* A transaction that is not over is known, and is ended or aborted by one call
\* at most.
TxnControl ==
    /\ \A t \in 1 .. MaxTxns : IF t < nextTxn THEN over[t] \in Running => t \in txns
                               ELSE over[t] = "open"
    /\ \A k \in Calls :
          /\ task[k].op = "end" => over[task[k].arg.txn] = "ending"
          /\ task[k].op = "abort" => over[task[k].arg.txn] = "aborting"
    /\ \A k, j \in Calls : k # j /\ Ends(task[k]) /\ Ends(task[j]) =>
          task[k].arg.txn # task[j].arg.txn

\* Where the end of a transaction stands: no handle before the one it commits is
\* attached any more, and none at all when it merges.
EndOrder ==
    /\ \A k \in Calls : task[k].op = "end" =>
          \A fh \in DOMAIN fhs : fhs[fh].branch = task[k].arg.txn =>
              task[k].req.do = "put" /\ fh >= task[k].arg.fh
    /\ \A fh \in DOMAIN fhs : of[fh] # 0 => over[of[fh]] # "ended"

Reached(w, t) == w \in onMain \/ (t \in DOMAIN repo /\ \E p \in Paths : w \in In(repo[t][p]))

Aborted(t) == over[t] \in {"aborting", "aborted"}

JoinedMain(T) ==
    \/ T.req.do = "delete branch"
    \/ T.req.do = "merge" /\ T.at = "ok"

\* What was written under a transaction and committed is on its branch or on
\* main, and on main once its branch was merged.
BranchHolds ==
    /\ \A fh \in DOMAIN of \ DOMAIN fhs : of[fh] # 0 /\ ~ Aborted(of[fh]) =>
          \A w \in acked[fh] : Reached(w, of[fh])
    /\ \A k \in Calls : PutsFile(task[k]) /\ task[k].at = "ok" =>
          LET t == task[k].req.branch IN
          t # 0 /\ ~ Aborted(t) => \A w \in task[k].req.body : Reached(w, t)
    /\ \A k \in Calls : task[k].op = "end" /\ JoinedMain(task[k]) =>
          \A fh \in DOMAIN of : of[fh] = task[k].arg.txn => acked[fh] \subseteq onMain
    /\ \A fh \in DOMAIN of : of[fh] # 0 /\ over[of[fh]] = "ended" => acked[fh] \subseteq onMain

-----------------------------------------------------------------------------
\* A request that has just been sent.
Waiting(op, req, arg) == [op |-> op, at |-> "sent", req |-> req, arg |-> arg, found |-> None]

LEMMA MinOfNumbers ==
    ASSUME NEW S \in SUBSET Nat, S # {}
    PROVE  /\ Min(S) \in S
           /\ \A x \in S : Min(S) <= x
<1>1. PICK m \in S : \A x \in S : ~ (<<x, m>> \in OpToRel(<, Nat))
  BY NatLessThanWellFounded, WFMin
<1>2. OpToRel(<, Nat) = {p \in Nat \X Nat : p[1] < p[2]}
  BY DEF OpToRel
<1>3. \A x \in S : m =< x
  <2>1. SUFFICES ASSUME NEW x \in S, x < m  PROVE FALSE
    OBVIOUS
  <2>2. <<x, m>> \in {p \in Nat \X Nat : p[1] < p[2]}
    BY <2>1
  <2> QED
    BY <1>1, <1>2, <2>2, Zenon
<1> QED
  BY <1>3 DEF Min

\* Nothing that is written is None.
LEMMA ContentIsSome == writes \in 0 .. MaxWrites => \A c \in Contents : c # None
<1> SUFFICES ASSUME writes \in 0 .. MaxWrites, NEW c \in Contents  PROVE c # None
  OBVIOUS
<1>1. MaxWrites \in Nat
  BY ParametersAssumption
<1>2. c \in SUBSET (1 .. MaxWrites)
  BY <1>1 DEF Contents
<1> QED
  BY <1>2, ParametersAssumption

\* Counters only go up.
Grows == writes <= writes' /\ nextFH <= nextFH' /\ nextTxn <= nextTxn'

LEMMA BlobsGrow ==
    ASSUME writes \in Nat, writes' \in Nat, Grows
    PROVE  Contents \subseteq Contents' /\ Blobs \subseteq Blobs' /\ Trees \subseteq Trees'
<1>1. Contents \subseteq Contents'
  BY DEF Contents, Grows
<1>2. Blobs \subseteq Blobs'
  BY <1>1 DEF Blobs
<1>3. Trees \subseteq Trees'
  BY <1>1 DEF Trees
<1> QED
  BY <1>1, <1>2, <1>3

LEMMA UpTo ==
    ASSUME NEW m \in Nat, NEW n \in Nat, m <= n
    PROVE  0 .. m - 1 \subseteq 0 .. n - 1 /\ 1 .. m - 1 \subseteq 1 .. n - 1
OBVIOUS

LEMMA SuspendedStays ==
    ASSUME NEW T, Suspended(T), Grows,
           writes \in Nat, writes' \in Nat, nextFH \in Nat, nextFH' \in Nat,
           nextTxn \in Nat, nextTxn' \in Nat
    PROVE  Suspended(T)'
<1>1. \A r : IsPut(r) => IsPut(r)'
  BY BlobsGrow DEF IsPut, Grows
<1>2. \A r : IsGet(r) => IsGet(r)'
  BY DEF IsGet
<1>3. \A r : IsDelete(r) => IsDelete(r)'
  BY BlobsGrow DEF IsDelete
<1>4. \A a : Renaming(a) => Renaming(a)'
  BY BlobsGrow DEF Renaming
<1>5. \A a : InTxn(a) => InTxn(a)'
  BY DEF InTxn, Grows
<1>6. T.found \in Blobs'
  BY BlobsGrow DEF Suspended
<1>7. 0 .. nextFH - 1 \subseteq 0 .. nextFH' - 1 /\ 1 .. nextFH - 1 \subseteq 1 .. nextFH' - 1
  <2>1. nextFH <= nextFH'
    BY DEF Grows
  <2> QED
    BY <2>1, UpTo
<1>8. Role(T)'
  <2>1. Role(T)
    BY DEF Suspended
  <2>2. \A r : (IsMerge(r) => IsMerge(r)') /\ (IsDrop(r) => IsDrop(r)')
    BY DEF IsMerge, IsDrop
  <2> QED
    BY <1>1, <1>2, <1>3, <1>4, <1>5, <1>7, <2>1, <2>2, Zenon DEF Role
<1> QED
  BY <1>6, <1>8 DEF Suspended

LEMMA StepGrows ==
    ASSUME Types, [Next]_vars
    PROVE  /\ Grows /\ writes \in Nat /\ writes' \in 0 .. MaxWrites
           /\ nextFH \in Nat /\ nextFH' \in Nat \ {0}
           /\ nextTxn \in Nat /\ nextTxn' \in 1 .. MaxTxns + 1
<1>1. /\ writes \in 0 .. MaxWrites /\ nextFH \in Nat \ {0} /\ nextTxn \in 1 .. MaxTxns + 1
      /\ MaxWrites \in Nat /\ MaxTxns \in Nat
  BY ParametersAssumption DEF Types, TxnTypes
<1>2. ASSUME writes' \in {writes, writes + 1}, writes' <= MaxWrites, nextFH' \in {nextFH, nextFH + 1},
             nextTxn' \in {nextTxn, nextTxn + 1}, nextTxn' <= MaxTxns + 1
      PROVE  /\ Grows /\ writes \in Nat /\ writes' \in 0 .. MaxWrites
             /\ nextFH \in Nat /\ nextFH' \in Nat \ {0}
             /\ nextTxn \in Nat /\ nextTxn' \in 1 .. MaxTxns + 1
  BY <1>1, <1>2 DEF Grows
<1>3. ASSUME UNCHANGED <<writes, nextTxn>>, nextFH' \in {nextFH, nextFH + 1}
      PROVE  /\ writes' \in {writes, writes + 1} /\ writes' <= MaxWrites
             /\ nextTxn' \in {nextTxn, nextTxn + 1} /\ nextTxn' <= MaxTxns + 1
  BY <1>1, <1>3
<1>4. ASSUME NEW k, Hub(k) \/ Throws(k) \/ OpenAnswered(k) \/ Closed(k)
                    \/ DeleteGoesOn(k) \/ RenameGoesOn(k) \/ EndGoesOn(k) \/ Over(k)
      PROVE  UNCHANGED <<writes, nextFH, nextTxn>>
  BY <1>4 DEF Hub, Throws, OpenAnswered, Closed, DeleteGoesOn, RenameGoesOn, EndGoesOn, Over, volume
<1>5. ASSUME NEW k, NEW path, NEW op, NEW to, Open(k, op, path) \/ Delete(k, path) \/ Rename(k, path, to)
      PROVE  UNCHANGED <<writes, nextFH, nextTxn>>
  BY <1>5 DEF Open, Delete, Rename, volume
<1>6. ASSUME NEW k, NEW fh, NEW t, Close(k, fh) \/ End(k, t) \/ Abort(k, t) \/ AttachToTransaction(fh, t)
      PROVE  UNCHANGED <<writes, nextFH, nextTxn>>
  BY <1>6 DEF Close, End, Abort, AttachToTransaction
<1>7. ASSUME NEW t, CreateBranchReads(t) \/ CreateBranchPosts(t) \/ CreateBranchFails(t)
      PROVE  UNCHANGED <<writes, nextFH, nextTxn>>
  BY <1>7 DEF CreateBranchReads, CreateBranchPosts, CreateBranchFails, volume
<1>8. ASSUME NEW k, NEW op, Opened(k, op)
      PROVE  UNCHANGED <<writes, nextTxn>> /\ nextFH' \in {nextFH, nextFH + 1}
  BY <1>8 DEF Opened, HandleAfter
<1>9. ASSUME NEW fh, Write(fh)
      PROVE  UNCHANGED <<nextFH, nextTxn>> /\ writes' = writes + 1 /\ writes < MaxWrites
  BY <1>9 DEF Write
<1>10. ASSUME Begin
       PROVE  UNCHANGED <<nextFH, writes>> /\ nextTxn' = nextTxn + 1 /\ nextTxn <= MaxTxns
  BY <1>10 DEF Begin
<1>11. CASE UNCHANGED vars
  BY <1>2, <1>3, <1>11 DEF vars, volume
<1>12. CASE UNCHANGED <<writes, nextFH, nextTxn>>
  BY <1>2, <1>3, <1>12
<1>13. ASSUME NEW k, NEW op, Opened(k, op)
       PROVE  /\ Grows /\ writes \in Nat /\ writes' \in 0 .. MaxWrites
              /\ nextFH \in Nat /\ nextFH' \in Nat \ {0}
              /\ nextTxn \in Nat /\ nextTxn' \in 1 .. MaxTxns + 1
  BY <1>2, <1>3, <1>8, <1>13
<1>14. ASSUME NEW fh, Write(fh)
       PROVE  /\ Grows /\ writes \in Nat /\ writes' \in 0 .. MaxWrites
              /\ nextFH \in Nat /\ nextFH' \in Nat \ {0}
              /\ nextTxn \in Nat /\ nextTxn' \in 1 .. MaxTxns + 1
  BY <1>1, <1>2, <1>9, <1>14
<1>15. CASE Begin
  BY <1>1, <1>2, <1>10, <1>15
<1> QED
  BY <1>4, <1>5, <1>6, <1>7, <1>11, <1>12, <1>13, <1>14, <1>15, Zenon DEF Next

LEMMA WaitingSuspended ==
    ASSUME NEW op, NEW req, NEW arg, Role(Waiting(op, req, arg))
    PROVE  Suspended(Waiting(op, req, arg))
BY DEF Suspended, Waiting, Blobs

LEMMA CommitIsPut ==
    ASSUME HandleTypes, NEW fh \in DOMAIN fhs
    PROVE  /\ IsPut(CommitRequest(fhs[fh])) /\ fh \in 1 .. nextFH - 1
           /\ CommitRequest(fhs[fh]).branch = fhs[fh].branch
<1>1. fhs[fh] \in Handles
  BY DEF HandleTypes
<1> QED
  BY <1>1 DEF Handles, IsPut, CommitRequest, WriteFile, HandleTypes

\* What a call can be when it waits for a request of a given kind.
LEMMA Roles ==
    ASSUME NEW T, Suspended(T)
    PROVE  /\ T.op # "idle"
           /\ T.req.do = "get" => IsGet(T.req) /\ T.op \in {"open", "create", "delete", "rename"}
           /\ T.req.do = "put" => IsPut(T.req) /\ T.op \in {"close", "rename", "end"}
           /\ T.req.do = "delete" => IsDelete(T.req) /\ T.op \in {"delete", "rename"}
           /\ T.req.do = "merge" => IsMerge(T.req) /\ T.op = "end"
           /\ T.req.do = "delete branch" => IsDrop(T.req) /\ T.op \in {"end", "abort"}
           /\ T.req.do \in {"get", "put", "delete", "merge", "delete branch"}
           /\ T.op = "rename" => Renaming(T.arg)
           /\ T.op \in {"end", "abort"} => InTxn(T.arg)
           /\ T.op \in {"end", "abort"} /\ T.req.do # "put" => T.req.branch = T.arg.txn
           /\ T.op = "end" /\ T.req.do = "put" => T.arg.fh # 0
           /\ T.op \in {"open", "create"} => T.req.do = "get" /\ T.arg \in 0 .. nextFH - 1
           /\ T.op = "close" => T.req.do = "put" /\ T.arg \in 1 .. nextFH - 1
           /\ T.op = "abort" => T.req.do = "delete branch"
BY DEF Suspended, Role, IsGet, IsPut, IsDelete, IsMerge, IsDrop

\* A call whose request was answered.
LEMMA TaskFields ==
    ASSUME NEW o, NEW a, NEW r, NEW g, NEW f,
           NEW X, X = [op |-> o, at |-> a, req |-> r, arg |-> g, found |-> f]
    PROVE  X.op = o /\ X.at = a /\ X.req = r /\ X.arg = g /\ X.found = f
OBVIOUS

LEMMA AnsweredRecord ==
    ASSUME NEW o, NEW a, NEW r, NEW g, NEW f, NEW at, NEW found,
           NEW T, T = [op |-> o, at |-> a, req |-> r, arg |-> g, found |-> f],
           NEW X, X = [T EXCEPT !.at = at, !.found = found]
    PROVE  X = [op |-> o, at |-> at, req |-> r, arg |-> g, found |-> found]
OBVIOUS

LEMMA AnsweredTask ==
    ASSUME NEW T, NEW at, NEW found,
           T = [op |-> T.op, at |-> T.at, req |-> T.req, arg |-> T.arg, found |-> T.found]
    PROVE  [T EXCEPT !.at = at, !.found = found] =
             [op |-> T.op, at |-> at, req |-> T.req, arg |-> T.arg, found |-> found]
<1>1. PICK o, a, r, g, f : o = T.op /\ a = T.at /\ r = T.req /\ g = T.arg /\ f = T.found
  OBVIOUS
<1>2. T = [op |-> o, at |-> a, req |-> r, arg |-> g, found |-> f]
  BY <1>1, Zenon
<1>3. PICK X : X = [T EXCEPT !.at = at, !.found = found]
  OBVIOUS
<1>4. X = [op |-> o, at |-> at, req |-> r, arg |-> g, found |-> found]
  BY ONLY <1>2, <1>3, AnsweredRecord
<1> QED
  BY <1>1, <1>3, <1>4, Zenon

LEMMA AnswerInPlace ==
    ASSUME NEW S, NEW F, F = [j \in S |-> F[j]], NEW k \in S, NEW at, NEW found
    PROVE  [F EXCEPT ![k].at = at, ![k].found = found] =
             [F EXCEPT ![k] = [F[k] EXCEPT !.at = at, !.found = found]]
OBVIOUS

LEMMA AnswerSuspended ==
    ASSUME NEW T, Suspended(T), NEW at \in {"ok", "error"}, NEW found \in Blobs,
           NEW X, X = [op |-> T.op, at |-> at, req |-> T.req, arg |-> T.arg, found |-> found]
    PROVE  Suspended(X)
<1>1. X.op = T.op /\ X.req = T.req /\ X.arg = T.arg /\ X.at = at /\ X.found = found
  BY TaskFields
<1>2. Role(X)
  <2>1. Role(T)
    BY DEF Suspended
  <2> QED
    BY <1>1, <2>1, Zenon DEF Role
<1> QED
  BY <1>1, <1>2 DEF Suspended

\* A file that is put back names a handle that was given out.
LEMMA FileKnown ==
    ASSUME NEW T, Suspended(T), PutsFile(T)
    PROVE  IsPut(T.req) /\ File(T) \in 1 .. nextFH - 1
<1>1. CASE T.op = "close"
  BY <1>1, Roles DEF PutsFile, File
<1>2. CASE T.op = "end"
  <2>1. InTxn(T.arg) /\ T.arg.fh # 0
    BY <1>2, Roles DEF PutsFile
  <2>2. T.arg.fh \in 1 .. nextFH - 1
    BY <2>1 DEF InTxn
  <2> QED
    BY <1>2, <2>2, Roles DEF PutsFile, File
<1> QED
  BY <1>1, <1>2 DEF PutsFile

\* endTransaction has nothing left to commit, and merges.
MergesNow(k, t, last, handles) ==
    /\ {fh \in Attached(t, last) : Dirty(fh)} = {}
    /\ task' = [task EXCEPT ![k] = Waiting("end", Merge(t), [txn |-> t, fh |-> 0])]
    /\ fhs' = [fh \in handles \ Attached(t, last) |-> fhs[fh]]

\* It commits handle d next, and has closed the clean ones before it.
CommitsNext(k, t, last, handles, d) ==
    /\ Dirty(d) /\ d \in handles
    /\ \A fh \in Attached(t, last) : Dirty(fh) => fh >= d
    /\ fhs' = [fh \in handles \ {c \in Attached(t, last) : c < d} |-> fhs[fh]]
    /\ task' = [task EXCEPT ![k] = Waiting("end", CommitRequest(fhs[d]), [txn |-> t, fh |-> d])]

LEMMA Flushes ==
    ASSUME Types, NEW k, NEW t \in 1 .. nextTxn - 1, NEW last, NEW handles \in SUBSET DOMAIN fhs,
           \A fh \in DOMAIN fhs : fh > last => fh \in handles, last \in Nat,
           FlushFrom(k, t, last, handles)
    PROVE  \/ MergesNow(k, t, last, handles)
           \/ \E d \in Attached(t, last) : CommitsNext(k, t, last, handles, d)
<1> DEFINE toCommit == {fh \in Attached(t, last) : Dirty(fh)}
           clean == {fh \in Attached(t, last) : ~ Dirty(fh) /\ \A d \in toCommit : fh < d}
<1>1. DOMAIN fhs \in SUBSET Nat
  BY DEF Types, HandleTypes
<1>2. toCommit \in SUBSET Nat
  BY <1>1 DEF Attached
<1>3. fhs' = [fh \in handles \ clean |-> fhs[fh]]
  BY DEF FlushFrom
<1>4. CASE toCommit = {}
  <2>1. clean = Attached(t, last)
    BY <1>4
  <2>2. task' = [task EXCEPT ![k] = Waiting("end", Merge(t), [txn |-> t, fh |-> 0])]
    BY <1>4 DEF FlushFrom, Suspend, Waiting
  <2> QED
    BY <1>3, <1>4, <2>1, <2>2 DEF MergesNow
<1>5. CASE toCommit # {}
  <2>1. PICK d : d = Min(toCommit)
    OBVIOUS
  <2>2. d \in toCommit /\ \A fh \in toCommit : d <= fh
    BY <1>2, <1>5, <2>1, MinOfNumbers
  <2>3. clean = {c \in Attached(t, last) : c < d}
    <3>1. ASSUME NEW c \in Attached(t, last), c < d  PROVE ~ Dirty(c) /\ \A e \in toCommit : c < e
      <4>1. c \in Nat /\ d \in Nat /\ \A e \in toCommit : e \in Nat
        BY <1>1, <1>2, <2>2 DEF Attached
      <4>2. \A e \in toCommit : c < e
        BY <2>2, <3>1, <4>1
      <4> QED
        BY <4>1, <4>2
    <3> QED
      BY <2>2, <3>1
  <2>4. task' = [task EXCEPT ![k] = Waiting("end", CommitRequest(fhs[d]), [txn |-> t, fh |-> d])]
    BY <1>5, <2>1 DEF FlushFrom, Suspend, Waiting
  <2>5. d \in handles /\ d \in Attached(t, last) /\ Dirty(d)
    BY <2>2 DEF Attached
  <2>6. \A fh \in Attached(t, last) : Dirty(fh) => fh >= d
    BY <1>1, <1>2, <2>2 DEF Attached
  <2> QED
    BY <1>3, <2>3, <2>4, <2>5, <2>6 DEF CommitsNext
<1> QED
  BY <1>4, <1>5

LEMMA TaskStep ==
    ASSUME Types, [Next]_vars
    PROVE  TaskTypes'
<1>1. ASSUME NEW T, Suspended(T)  PROVE Suspended(T)'
  <2>1. /\ Grows /\ writes \in Nat /\ writes' \in Nat /\ nextFH \in Nat /\ nextFH' \in Nat
        /\ nextTxn \in Nat /\ nextTxn' \in Nat
    BY StepGrows
  <2> QED
    BY <1>1, <2>1, SuspendedStays
<1>2. ASSUME NEW k \in Calls, NEW X, task' = [task EXCEPT ![k] = X], X = Idle \/ Suspended(X)'
      PROVE  TaskTypes'
  BY <1>1, <1>2 DEF Types, TaskTypes
<1>3. ASSUME UNCHANGED task  PROVE TaskTypes'
  BY <1>1, <1>3 DEF Types, TaskTypes
<1>4. ASSUME NEW k \in Calls, Finish(k)  PROVE TaskTypes'
  BY <1>2, <1>4 DEF Finish
<1>5. ASSUME NEW k \in Calls, NEW op, NEW req, NEW arg, Suspend(k, op, req, arg),
             Role(Waiting(op, req, arg))
      PROVE  TaskTypes'
  <2>1. task' = [task EXCEPT ![k] = Waiting(op, req, arg)]
    BY <1>5 DEF Suspend, Waiting
  <2>2. Suspended(Waiting(op, req, arg))
    BY <1>5, WaitingSuspended
  <2> QED
    BY <1>1, <1>2, <2>1, <2>2
<1>6. ASSUME NEW k \in Calls, task[k].op # "idle"  PROVE Suspended(task[k])
  BY <1>6 DEF Types, TaskTypes, Idle
<1>7. ASSUME NEW k \in Calls, NEW ok \in BOOLEAN, task[k].op # "idle", Answered(k, ok)
      PROVE  TaskTypes'
  <2>1. PICK at \in {"ok", "error"}, found \in Blobs :
           task' = [task EXCEPT ![k].at = at, ![k].found = found]
    <3>1. ok /\ task[k].req.do = "get" => repo[Main][task[k].req.path] \in Blobs
      <4>1. SUFFICES ASSUME task[k].req.do = "get"  PROVE repo[Main][task[k].req.path] \in Blobs
        OBVIOUS
      <4>2. task[k].req.path \in Paths
        BY <1>6, <1>7, <4>1, Roles DEF IsGet
      <4>3. repo[Main] \in Trees
        BY DEF Types, HubTypes
      <4> QED
        BY <4>2, <4>3 DEF Trees, Blobs
    <3>2. None \in Blobs
      BY DEF Blobs
    <3> QED
      BY <1>7, <3>1, <3>2 DEF Answered
  <2>2. PICK X : X = [op |-> task[k].op, at |-> at, req |-> task[k].req, arg |-> task[k].arg,
                      found |-> found]
    OBVIOUS
  <2>3. task' = [task EXCEPT ![k] = X]
    <3>1. [task[k] EXCEPT !.at = at, !.found = found] = X
      <4>1. PICK T : T = task[k]
        OBVIOUS
      <4>2. T = [op |-> T.op, at |-> T.at, req |-> T.req, arg |-> T.arg, found |-> T.found]
        BY <1>6, <1>7, <4>1 DEF Suspended
      <4>3. [T EXCEPT !.at = at, !.found = found] =
              [op |-> T.op, at |-> at, req |-> T.req, arg |-> T.arg, found |-> found]
        BY <4>2, AnsweredTask, Zenon
      <4> QED
        BY <2>2, <4>1, <4>3, Zenon
    <3>2. task' = [task EXCEPT ![k] = [task[k] EXCEPT !.at = at, !.found = found]]
      <4>1. task = [j \in Calls |-> task[j]]
        BY DEF Types, TaskTypes
      <4>2. [task EXCEPT ![k].at = at, ![k].found = found] =
               [task EXCEPT ![k] = [task[k] EXCEPT !.at = at, !.found = found]]
        BY <4>1, AnswerInPlace
      <4> QED
        BY <2>1, <4>2, Zenon
    <3> QED
      BY <3>1, <3>2
  <2>4. Suspended(X)
    BY <1>6, <1>7, <2>2, AnswerSuspended
  <2> QED
    BY <1>1, <1>2, <2>3, <2>4
<1>8. ASSUME NEW k \in Calls, Hub(k)  PROVE TaskTypes'
  BY <1>7, <1>8 DEF Hub
<1>9. ASSUME NEW k \in Calls,
             Throws(k) \/ OpenAnswered(k) \/ Closed(k) \/ Over(k)
      PROVE  TaskTypes'
  BY <1>4, <1>9 DEF Throws, OpenAnswered, Closed, Over
<1>10. ASSUME NEW k \in Calls, NEW path \in Paths, NEW op, Open(k, op, path)  PROVE TaskTypes'
  <2>1. Role(Waiting(op, GetFile(path), 0))
    <3>1. op \in {"open", "create"} /\ 0 \in 0 .. nextFH - 1
      BY <1>10 DEF Open, Types
    <3> QED
      BY <3>1 DEF Role, Waiting, IsGet, GetFile
  <2> QED
    BY <1>5, <1>10, <2>1 DEF Open
<1>11. ASSUME NEW k \in Calls, NEW path \in Paths, Delete(k, path)  PROVE TaskTypes'
  <2>1. Role(Waiting("delete", GetFile(path), 0))
    BY DEF Role, Waiting, IsGet, GetFile
  <2> QED
    BY <1>5, <1>11, <2>1 DEF Delete
<1>12. ASSUME NEW k \in Calls, NEW path \in Paths, NEW to \in Paths, Rename(k, path, to)
       PROVE  TaskTypes'
  <2>1. Role(Waiting("rename", GetFile(path), [from |-> path, to |-> to, content |-> None]))
    BY DEF Role, Waiting, IsGet, GetFile, Renaming, Blobs
  <2> QED
    BY <1>5, <1>12, <2>1 DEF Rename
<1>13. ASSUME NEW k \in Calls, DeleteGoesOn(k)  PROVE TaskTypes'
  <2>1. CASE Finish(k)
    BY <1>4, <2>1
  <2>2. CASE /\ Resumes(k, "delete", "get", "ok")
             /\ Suspend(k, "delete", DeleteFile(task[k].req.path, task[k].found), 0)
    <3>1. Suspended(task[k]) /\ IsGet(task[k].req)
      BY <1>6, <2>2, Roles DEF Resumes
    <3>2. Role(Waiting("delete", DeleteFile(task[k].req.path, task[k].found), 0))
      BY <3>1 DEF Suspended, Role, Waiting, IsDelete, IsGet, DeleteFile
    <3> QED
      BY <1>5, <2>2, <3>2
  <2> QED
    BY <1>13, <2>1, <2>2 DEF DeleteGoesOn
<1>14. ASSUME NEW k \in Calls, RenameGoesOn(k)  PROVE TaskTypes'
  <2> DEFINE arg  == task[k].arg
             read == [arg EXCEPT !.content = task[k].found]
  <2>1. CASE Finish(k)
    BY <1>4, <2>1
  <2>2. ASSUME task[k].op = "rename"
        PROVE  Suspended(task[k]) /\ Renaming(arg) /\ Renaming(read)
    <3>1. Suspended(task[k]) /\ Renaming(arg)
      BY <1>6, <2>2, Roles
    <3> QED
      BY <3>1 DEF Suspended, Renaming
  <2>3. ASSUME NEW a, Renaming(a), a.content # None
        PROVE  Role(Waiting("rename", RenameCopy(a), a))
    <3>1. Main \in 0 .. nextTxn - 1
      BY DEF Types, TxnTypes, Main
    <3>2. IsPut(RenameCopy(a))
      BY <2>3, <3>1 DEF Renaming, IsPut, RenameCopy, WriteFile, Blobs
    <3> QED
      BY <2>3, <3>2 DEF Role, Waiting
  <2>4. ASSUME NEW a, Renaming(a)
        PROVE  Role(Waiting("rename", RenameCleanup(a), a))
    <3>1. IsDelete(RenameCleanup(a))
      BY <2>4 DEF Renaming, IsDelete, RenameCleanup, DeleteFile
    <3> QED
      BY <2>4, <3>1 DEF Role, Waiting
  <2>5. CASE /\ Resumes(k, "rename", "get", "ok") /\ read.content # None
             /\ Suspend(k, "rename", RenameCopy(read), read)
    BY <1>5, <2>2, <2>3, <2>5 DEF Resumes
  <2>6. CASE Resumes(k, "rename", "put", "ok") /\ Suspend(k, "rename", RenameCleanup(arg), arg)
    BY <1>5, <2>2, <2>4, <2>6 DEF Resumes
  <2> QED
    BY <1>14, <2>1, <2>5, <2>6 DEF RenameGoesOn
<1>15. ASSUME NEW k \in Calls, NEW op \in {"open", "create"}, Opened(k, op)  PROVE TaskTypes'
  <2>1. CASE Finish(k)
    BY <1>4, <2>1
  <2>2. CASE Suspend(k, op, GetFile(task[k].req.path), nextFH) /\ nextFH' = nextFH + 1
    <3>1. PICK path \in Paths : path = task[k].req.path
      BY <1>6, <1>15, Roles DEF Opened, Resumes, IsGet
    <3>2. PICK X : X = Waiting(op, GetFile(path), nextFH)
      OBVIOUS
    <3>3. /\ X.op = op /\ X.at = "sent" /\ X.req = GetFile(path) /\ X.arg = nextFH /\ X.found = None
          /\ X = [op |-> X.op, at |-> X.at, req |-> X.req, arg |-> X.arg, found |-> X.found]
      BY <3>2 DEF Waiting
    <3>4. X.arg \in 0 .. nextFH' - 1
      BY <2>2, <3>3 DEF Types
    <3>5. Suspended(X)'
      BY <3>3, <3>4 DEF Suspended, Role, IsGet, GetFile, Blobs
    <3>6. task' = [task EXCEPT ![k] = X]
      BY <2>2, <3>1, <3>2 DEF Suspend, Waiting
    <3> QED
      BY <1>2, <3>5, <3>6
  <2>3. \/ Finish(k)
        \/ Suspend(k, op, GetFile(task[k].req.path), nextFH) /\ nextFH' = HandleAfter
    BY <1>15 DEF Opened
  <2> QED
    BY <2>1, <2>2, <2>3 DEF HandleAfter
<1>16. ASSUME NEW k \in Calls, NEW fh \in Usable, Close(k, fh)  PROVE TaskTypes'
  <2>1. CASE UNCHANGED task
    BY <1>3, <2>1
  <2>2. CASE Suspend(k, "close", CommitRequest(fhs[fh]), fh)
    <3>1. fh \in DOMAIN fhs
      BY DEF Usable
    <3>2. Role(Waiting("close", CommitRequest(fhs[fh]), fh))
      BY <3>1, CommitIsPut DEF Role, Waiting, Types
    <3> QED
      BY <1>5, <2>2, <3>2
  <2> QED
    BY <1>16, <2>1, <2>2 DEF Close
<1>17. ASSUME NEW k \in Calls, NEW t \in 1 .. nextTxn - 1, NEW last \in Nat,
              NEW handles \in SUBSET DOMAIN fhs, \A fh \in DOMAIN fhs : fh > last => fh \in handles,
              FlushFrom(k, t, last, handles)
       PROVE  TaskTypes'
  <2>1. ASSUME NEW X, task' = [task EXCEPT ![k] = X], Suspended(X)  PROVE TaskTypes'
    BY <1>1, <1>2, <2>1
  <2>2. 0 \in 0 .. nextFH - 1
    BY DEF Types
  <2>3. Suspended(Waiting("end", Merge(t), [txn |-> t, fh |-> 0]))
    <3>1. Role(Waiting("end", Merge(t), [txn |-> t, fh |-> 0]))
      BY <2>2 DEF Role, Waiting, IsMerge, Merge, InTxn
    <3> QED
      BY <3>1, WaitingSuspended
  <2>4. ASSUME NEW d \in Attached(t, last)
        PROVE  Suspended(Waiting("end", CommitRequest(fhs[d]), [txn |-> t, fh |-> d]))
    <3>1. d \in DOMAIN fhs
      BY DEF Attached
    <3>2. IsPut(CommitRequest(fhs[d])) /\ d \in 1 .. nextFH - 1
      BY <3>1, CommitIsPut DEF Types
    <3>3. d \in 0 .. nextFH - 1 /\ d # 0
      BY <3>2
    <3>4. Role(Waiting("end", CommitRequest(fhs[d]), [txn |-> t, fh |-> d]))
      BY <3>2, <3>3 DEF Role, Waiting, InTxn
    <3> QED
      BY <3>4, WaitingSuspended
  <2>6. \/ MergesNow(k, t, last, handles)
        \/ \E d \in Attached(t, last) : CommitsNext(k, t, last, handles, d)
    BY <1>17, Flushes
  <2>5. \/ task' = [task EXCEPT ![k] = Waiting("end", Merge(t), [txn |-> t, fh |-> 0])]
        \/ \E d \in Attached(t, last) :
              task' = [task EXCEPT ![k] = Waiting("end", CommitRequest(fhs[d]), [txn |-> t, fh |-> d])]
    BY <2>6, Zenon DEF MergesNow, CommitsNext
  <2> QED
    BY <2>1, <2>3, <2>4, <2>5, Zenon
<1>18. ASSUME NEW k \in Calls, NEW t \in 1 .. MaxTxns, End(k, t)  PROVE TaskTypes'
  <2>1. t \in 1 .. nextTxn - 1 /\ FlushFrom(k, t, 0, DOMAIN fhs)
    BY <1>18, StepGrows DEF End
  <2> QED
    BY <1>17, <2>1
<1>19. ASSUME NEW k \in Calls, EndGoesOn(k)  PROVE TaskTypes'
  <2>1. Suspended(task[k]) /\ InTxn(task[k].arg)
    BY <1>6, <1>19, Roles DEF EndGoesOn, Resumes
  <2>2. CASE Resumes(k, "end", "put", "ok") /\ FlushFrom(k, task[k].arg.txn, task[k].arg.fh, DOMAIN fhs \ {task[k].arg.fh})
    <3>1. task[k].arg.txn \in 1 .. nextTxn - 1 /\ task[k].arg.fh \in Nat
      BY <2>1 DEF InTxn
    <3>2. \A fh \in DOMAIN fhs : fh > task[k].arg.fh => fh \in DOMAIN fhs \ {task[k].arg.fh}
      BY <3>1
    <3> QED
      BY <1>17, <2>2, <3>1, <3>2
  <2>3. CASE Suspend(k, "end", DeleteBranch(task[k].arg.txn), task[k].arg)
    <3>1. Role(Waiting("end", DeleteBranch(task[k].arg.txn), task[k].arg))
      BY <2>1 DEF Role, Waiting, IsDrop, DeleteBranch
    <3> QED
      BY <1>5, <2>3, <3>1
  <2> QED
    BY <1>19, <2>2, <2>3 DEF EndGoesOn
<1>20. ASSUME NEW k \in Calls, NEW t \in 1 .. MaxTxns, Abort(k, t)  PROVE TaskTypes'
  <2>1. t \in 1 .. nextTxn - 1
    BY <1>20, StepGrows DEF Abort
  <2>2. InTxn([txn |-> t, fh |-> 0])
    BY <2>1 DEF InTxn, Types
  <2>3. Role(Waiting("abort", DeleteBranch(t), [txn |-> t, fh |-> 0]))
    BY <2>2 DEF Role, Waiting, IsDrop, DeleteBranch
  <2> QED
    BY <1>5, <1>20, <2>3 DEF Abort
<1>21. ASSUME NEW t, CreateBranchReads(t) \/ CreateBranchPosts(t) \/ CreateBranchFails(t)
       PROVE  UNCHANGED task
  BY <1>21 DEF CreateBranchReads, CreateBranchPosts, CreateBranchFails
<1>22. ASSUME NEW fh, NEW t, AttachToTransaction(fh, t) \/ Write(fh) \/ Begin \/ UNCHANGED vars
       PROVE  UNCHANGED task
  BY <1>22 DEF AttachToTransaction, Write, Begin, vars
<1> QED
  BY <1>3, <1>8, <1>9, <1>10, <1>11, <1>12, <1>13, <1>14, <1>15, <1>16, <1>18, <1>19, <1>20,
     <1>21, <1>22, Zenon DEF Next

\* Handles are closed: those in S stay as they are.
Keeps(S) == fhs' = [fh \in S |-> fhs[fh]]

LEMMA FlushKeeps ==
    ASSUME NEW k, NEW t, NEW last, NEW handles \in SUBSET DOMAIN fhs, FlushFrom(k, t, last, handles)
    PROVE  \E S \in SUBSET handles : Keeps(S)
BY DEF FlushFrom, Keeps

\* What a step does to the open files, _fhs: it closes some, or opens one, or a
\* program writes to one or attaches one.
Closes ==
    /\ \E S \in SUBSET DOMAIN fhs : Keeps(S)
    /\ given' \subseteq 1 .. nextFH - 1 /\ UNCHANGED <<nextFH, acked, of>>

Creates(path, found) ==
    /\ path \in Paths /\ found \in Blobs
    /\ nextFH' = nextFH + 1
    /\ fhs' = [fh \in DOMAIN fhs \cup {nextFH} |->
                 IF fh = nextFH THEN NewHandle(path, found) ELSE fhs[fh]]
    /\ acked' = [fh \in DOMAIN acked \cup {nextFH} |-> IF fh = nextFH THEN {} ELSE acked[fh]]
    /\ of' = [fh \in DOMAIN of \cup {nextFH} |-> IF fh = nextFH THEN 0 ELSE of[fh]]
    /\ given' \subseteq given \cup {nextFH}

LEMMA HandleMoves ==
    ASSUME Types, [Next]_vars
    PROVE  \/ Closes
           \/ \E k \in Calls : Live(task[k]) /\ \E path : Creates(path, task[k].found)
           \/ \E fh \in Usable : Write(fh)
           \/ \E fh \in Usable, t \in 1 .. MaxTxns : AttachToTransaction(fh, t)
<1>1. ASSUME UNCHANGED fhs  PROVE Keeps(DOMAIN fhs)
  BY <1>1 DEF Types, HandleTypes, Keeps
<1>2. ASSUME NEW S \in SUBSET DOMAIN fhs, Keeps(S), UNCHANGED <<nextFH, given, acked, of>>
      PROVE  Closes
  BY <1>2 DEF Closes, Types, HandleTypes
<1>3. ASSUME UNCHANGED <<fhs, nextFH, given, acked, of>>  PROVE Closes
  BY <1>1, <1>2, <1>3
<1>4. ASSUME NEW k \in Calls, Hub(k) \/ Throws(k) \/ DeleteGoesOn(k) \/ RenameGoesOn(k) \/ Over(k)
       PROVE  UNCHANGED <<fhs, nextFH, given, acked, of>>
  BY <1>4 DEF Hub, Throws, DeleteGoesOn, RenameGoesOn, Over, volume, history
<1>5. ASSUME NEW k, NEW op, NEW path, NEW to, Open(k, op, path) \/ Delete(k, path) \/ Rename(k, path, to)
       PROVE  UNCHANGED <<fhs, nextFH, given, acked, of>>
  BY <1>5 DEF Open, Delete, Rename, volume, history
<1>6. ASSUME NEW t, \/ CreateBranchReads(t) \/ CreateBranchPosts(t) \/ CreateBranchFails(t)
                     \/ Begin \/ UNCHANGED vars
       PROVE  UNCHANGED <<fhs, nextFH, given, acked, of>>
  BY <1>6 DEF CreateBranchReads, CreateBranchPosts, CreateBranchFails, Begin, volume, history, vars
<1>7. ASSUME NEW k \in Calls, Closed(k)  PROVE Closes
  <2>1. Keeps(DOMAIN fhs \ {task[k].arg}) /\ UNCHANGED <<nextFH, given, acked, of>>
    BY <1>7 DEF Closed, Without, Keeps, history
  <2> QED
    BY <1>2, <2>1
<1>8. ASSUME NEW k \in Calls, NEW fh \in Usable, Close(k, fh)  PROVE Closes
  <2>1. Keeps(DOMAIN fhs) \/ Keeps(DOMAIN fhs \ {fh})
    BY <1>1, <1>8 DEF Close, Without, Keeps
  <2> QED
    BY <1>2, <1>8, <2>1 DEF Close, history
<1>9. ASSUME NEW k \in Calls, NEW t, End(k, t) \/ EndGoesOn(k)  PROVE Closes
  <2>1. \E S \in SUBSET DOMAIN fhs : Keeps(S)
    <3>1. CASE End(k, t)
      BY <3>1, FlushKeeps DEF End
    <3>2. ASSUME FlushFrom(k, task[k].arg.txn, task[k].arg.fh, DOMAIN fhs \ {task[k].arg.fh})
          PROVE  \E S \in SUBSET DOMAIN fhs : Keeps(S)
      BY <3>2, FlushKeeps
    <3>3. CASE EndGoesOn(k)
      BY <1>1, <3>2, <3>3 DEF EndGoesOn, volume
    <3> QED
      BY <1>9, <3>1, <3>3
  <2>2. UNCHANGED <<nextFH, given, acked, of>>
    BY <1>9 DEF End, EndGoesOn, volume, history
  <2> QED
    BY <1>2, <2>1, <2>2
<1>10. ASSUME NEW k \in Calls, NEW t, Abort(k, t)  PROVE Closes
  <2>1. Keeps(DOMAIN fhs \ Attached(t, 0)) /\ UNCHANGED <<nextFH, given, acked, of>>
    BY <1>10 DEF Abort, Without, Keeps
  <2> QED
    BY <1>2, <2>1
<1>11. ASSUME NEW k \in Calls, OpenAnswered(k)  PROVE Closes
  <2>1. task[k].arg \in 1 .. nextFH - 1
    <3>1. Suspended(task[k]) /\ task[k].op = "open" /\ task[k].arg # 0
      BY <1>11 DEF OpenAnswered, Resumes, Types, TaskTypes, Idle
    <3>2. task[k].arg \in 0 .. nextFH - 1
      BY <3>1, Roles
    <3> QED
      BY <3>1, <3>2 DEF Types
  <2>2. UNCHANGED <<fhs, nextFH, acked, of>> /\ given' = given \cup {task[k].arg}
    BY <1>11 DEF OpenAnswered, volume, history
  <2> QED
    BY <1>1, <2>1, <2>2 DEF Closes, Types, HandleTypes
<1>12. ASSUME NEW k \in Calls, NEW op \in {"open", "create"}, Opened(k, op)
       PROVE  Closes \/ (Live(task[k]) /\ \E path : Creates(path, task[k].found))
  <2>1. PICK path, found : path = task[k].req.path /\ found = task[k].found
    OBVIOUS
  <2>2. path \in Paths /\ found \in Blobs /\ Live(task[k])
    <3>1. Suspended(task[k]) /\ task[k].req.do = "get"
      BY <1>12 DEF Opened, Resumes, Types, TaskTypes, Idle
    <3> QED
      BY <2>1, <3>1, Roles DEF Suspended, IsGet, Live
  <2>3. UNCHANGED <<fhs, nextFH, given, acked, of>> \/ Creates(path, found)
    BY <1>12, <2>1, <2>2 DEF Opened, HandleAfter, Creates
  <2> QED
    BY <1>3, <2>1, <2>2, <2>3
<1> QED
  BY <1>3, <1>4, <1>5, <1>6, <1>7, <1>8, <1>9, <1>10, <1>11, <1>12, Zenon DEF Next

LEMMA HandleStep ==
    ASSUME Types, [Next]_vars
    PROVE  HandleTypes'
<1>1. /\ Grows /\ writes \in Nat /\ writes' \in Nat /\ nextFH \in Nat /\ nextFH' \in Nat
      /\ nextTxn \in Nat /\ nextTxn' \in Nat
      /\ nextFH <= nextFH' /\ nextTxn <= nextTxn'
  BY StepGrows DEF Grows
<1>2. Contents \subseteq Contents' /\ Blobs \subseteq Blobs'
  BY <1>1, BlobsGrow
<1>3. /\ 0 .. nextTxn - 1 \subseteq 0 .. nextTxn' - 1
      /\ 1 .. nextFH - 1 \subseteq 1 .. nextFH' - 1
  BY <1>1, UpTo
<1>4. Handles \subseteq Handles'
  BY <1>2, <1>3 DEF Handles
<1>5. /\ DOMAIN fhs \subseteq 1 .. nextFH - 1 /\ \A fh \in DOMAIN fhs : fhs[fh] \in Handles
      /\ given \subseteq 1 .. nextFH - 1
      /\ acked \in [1 .. nextFH - 1 -> Contents]
      /\ of \in [1 .. nextFH - 1 -> 0 .. nextTxn - 1]
  BY DEF Types, HandleTypes
<1>6. ASSUME NEW S \in SUBSET DOMAIN fhs, Keeps(S)
      PROVE  DOMAIN fhs' \subseteq 1 .. nextFH' - 1 /\ fhs' \in [DOMAIN fhs' -> Handles']
  BY <1>3, <1>4, <1>5, <1>6 DEF Keeps
<1>7. ASSUME nextFH' = nextFH, UNCHANGED <<acked, of>>
      PROVE  /\ acked' \in [1 .. nextFH' - 1 -> Contents']
             /\ of' \in [1 .. nextFH' - 1 -> 0 .. nextTxn' - 1]
  <2>1. acked \in [1 .. nextFH - 1 -> Contents'] /\ of \in [1 .. nextFH - 1 -> 0 .. nextTxn' - 1]
    BY <1>2, <1>3, <1>5
  <2> QED
    BY <1>7, <2>1
<1>8. ASSUME Closes  PROVE HandleTypes'
  <2>1. PICK S \in SUBSET DOMAIN fhs : Keeps(S)
    BY <1>8 DEF Closes
  <2> QED
    BY <1>6, <1>7, <1>8, <2>1 DEF HandleTypes, Closes
<1>9. 0 \in 0 .. nextTxn' - 1
  <2>1. MaxTxns \in Nat
    BY ParametersAssumption
  <2>2. nextTxn' \in 1 .. MaxTxns + 1
    BY StepGrows
  <2>3. \A n \in 1 .. MaxTxns + 1 : 0 \in 0 .. n - 1
    BY <2>1
  <2> QED
    BY <2>2, <2>3, Zenon
<1>10. ASSUME NEW path, NEW found, Creates(path, found)  PROVE HandleTypes'
  <2>1. 1 .. nextFH' - 1 = (1 .. nextFH - 1) \cup {nextFH}
    BY <1>10 DEF Creates, Types
  <2>2. NewHandle(path, found) \in Handles'
    <3>1. NewHandle(path, found) \in Handles
      <4>1. In(found) \in Contents /\ Main \in 0 .. nextTxn - 1
        BY <1>10 DEF Creates, In, Blobs, Contents, Main, Types, TxnTypes
      <4> QED
        BY <4>1, <1>10 DEF Creates, NewHandle, Handles
    <3> QED
      BY <1>4, <3>1
  <2>3. DOMAIN fhs' \subseteq 1 .. nextFH' - 1 /\ fhs' \in [DOMAIN fhs' -> Handles']
    BY <1>4, <1>5, <2>1, <2>2, <1>10 DEF Creates
  <2>4. acked' \in [1 .. nextFH' - 1 -> Contents']
    <3>1. {} \in Contents'
      BY DEF Contents
    <3> QED
      BY <1>2, <1>5, <2>1, <3>1, <1>10 DEF Creates
  <2>5. of' \in [1 .. nextFH' - 1 -> 0 .. nextTxn' - 1]
    <3>1. 0 \in 0 .. nextTxn' - 1
      BY <1>9
    <3>2. PICK N : N = 0 .. nextTxn' - 1
      OBVIOUS
    <3>3. of \in [1 .. nextFH - 1 -> N] /\ 0 \in N
      BY <1>3, <1>5, <3>1, <3>2
    <3>4. of' \in [1 .. nextFH' - 1 -> N]
      <4>1. DOMAIN of \cup {nextFH} = 1 .. nextFH' - 1
        BY <2>1, <3>3
      <4>2. \A fh \in 1 .. nextFH' - 1 : (IF fh = nextFH THEN 0 ELSE of[fh]) \in N
        BY <2>1, <3>3
      <4>3. of' = [fh \in 1 .. nextFH' - 1 |-> IF fh = nextFH THEN 0 ELSE of[fh]]
        BY <4>1, <1>10 DEF Creates
      <4> QED
        BY <4>2, <4>3
    <3> QED
      BY <3>2, <3>4
  <2>6. given' \subseteq 1 .. nextFH' - 1
    BY <1>5, <2>1, <1>10 DEF Creates
  <2> QED
    BY <2>3, <2>4, <2>5, <2>6 DEF HandleTypes
<1>11. ASSUME NEW fh \in Usable, Write(fh)  PROVE HandleTypes'
  <2>1. PICK w : w = writes'
    OBVIOUS
  <2>2. /\ fhs' = [fhs EXCEPT ![fh].buf = @ \cup {w}, ![fh].dirty = TRUE]
        /\ acked' = [acked EXCEPT ![fh] = @ \cup {w}]
        /\ UNCHANGED <<nextFH, nextTxn, given, of>>
    BY <1>11, <2>1 DEF Write
  <2>3. fh \in DOMAIN fhs /\ fh \in 1 .. nextFH - 1
    BY <1>5 DEF Usable
  <2>4. \A c \in Contents : c \cup {w} \in Contents'
    <3>1. w \in 1 .. writes'
      BY <1>1, <1>11, <2>1 DEF Write
    <3> QED
      BY <1>2, <3>1 DEF Contents
  <2>5. [fhs[fh] EXCEPT !.buf = @ \cup {w}, !.dirty = TRUE] \in Handles'
    BY <1>4, <1>5, <2>3, <2>4 DEF Handles
  <2>6. fhs' = [fhs EXCEPT ![fh] = [fhs[fh] EXCEPT !.buf = @ \cup {w}, !.dirty = TRUE]]
    BY <2>2, <2>3
  <2>7. DOMAIN fhs' = DOMAIN fhs /\ fhs' \in [DOMAIN fhs -> Handles']
    BY <1>4, <1>5, <2>3, <2>5, <2>6
  <2>8. acked' \in [1 .. nextFH - 1 -> Contents']
    BY <1>2, <1>5, <2>2, <2>3, <2>4
  <2> QED
    BY <1>5, <2>2, <2>7, <2>8 DEF HandleTypes
<1>12. ASSUME NEW t \in 1 .. MaxTxns, NEW fh \in Usable, AttachToTransaction(fh, t)
       PROVE  HandleTypes'
  <2>1. t \in 0 .. nextTxn - 1 /\ nextTxn' = nextTxn /\ nextFH' = nextFH /\ UNCHANGED <<given, acked>>
        /\ of' = [of EXCEPT ![fh] = t]
    BY <1>1, <1>12 DEF AttachToTransaction
  <2>2. PICK b \in 0 .. nextTxn - 1 : fhs' = [fhs EXCEPT ![fh].branch = b]
    <3>1. fh \in DOMAIN fhs /\ fhs[fh].branch \in 0 .. nextTxn - 1
      BY <1>5 DEF Usable, Handles
    <3> QED
      BY <1>12, <2>1, <3>1 DEF AttachToTransaction
  <2>3. fh \in DOMAIN fhs /\ fh \in 1 .. nextFH - 1
    BY <1>5 DEF Usable
  <2>4. [fhs[fh] EXCEPT !.branch = b] \in Handles
    BY <1>5, <2>3 DEF Handles
  <2>5. fhs' = [fhs EXCEPT ![fh] = [fhs[fh] EXCEPT !.branch = b]]
    BY <2>2, <2>3
  <2>6. DOMAIN fhs' = DOMAIN fhs /\ fhs' \in [DOMAIN fhs -> Handles']
    BY <1>4, <1>5, <2>3, <2>4, <2>5
  <2>7. of' \in [1 .. nextFH - 1 -> 0 .. nextTxn - 1] /\ acked' \in [1 .. nextFH - 1 -> Contents']
    BY <1>2, <1>5, <2>1, <2>3
  <2> QED
    BY <1>5, <2>1, <2>6, <2>7 DEF HandleTypes
<1> QED
  BY <1>8, <1>10, <1>11, <1>12, HandleMoves, Zenon

LEMMA TxnStep ==
    ASSUME Types, [Next]_vars
    PROVE  TxnTypes'
<1>1. nextTxn' \in 1 .. MaxTxns + 1 /\ nextTxn \in Nat /\ nextTxn' \in Nat /\ nextTxn <= nextTxn'
  <2>1. MaxTxns \in Nat
    BY ParametersAssumption
  <2> QED
    BY <2>1, StepGrows DEF Grows
<1>2. /\ txns \subseteq 1 .. nextTxn - 1
      /\ over \in [1 .. MaxTxns -> {"open", "ending", "aborting", "ended", "aborted"}]
  BY DEF Types, TxnTypes
<1>3. 1 .. nextTxn - 1 \subseteq 1 .. nextTxn' - 1
  BY <1>1, UpTo
<1>4. ASSUME txns' \subseteq txns, UNCHANGED over  PROVE TxnTypes'
  BY <1>1, <1>2, <1>3, <1>4 DEF TxnTypes
<1>5. ASSUME txns' \subseteq txns, NEW t, NEW said \in {"open", "ending", "aborting", "ended", "aborted"},
             over' = [over EXCEPT ![t] = said]
      PROVE  TxnTypes'
  BY <1>1, <1>2, <1>3, <1>5 DEF TxnTypes
<1>6. ASSUME NEW k, Hub(k) \/ OpenAnswered(k) \/ Closed(k) \/ DeleteGoesOn(k) \/ RenameGoesOn(k)
                    \/ EndGoesOn(k)
      PROVE  UNCHANGED <<txns, over>>
  BY <1>6 DEF Hub, OpenAnswered, Closed, DeleteGoesOn, RenameGoesOn, EndGoesOn, volume, history
<1>7. ASSUME NEW k, NEW op, NEW path, NEW to, NEW fh,
             \/ Opened(k, op) \/ Open(k, op, path) \/ Delete(k, path) \/ Rename(k, path, to)
             \/ Close(k, fh)
      PROVE  UNCHANGED <<txns, over>>
  BY <1>7 DEF Opened, Open, Delete, Rename, Close, volume, history
<1>8. ASSUME NEW t, NEW fh,
             \/ CreateBranchReads(t) \/ CreateBranchPosts(t) \/ CreateBranchFails(t)
             \/ AttachToTransaction(fh, t) \/ Write(fh) \/ UNCHANGED vars
      PROVE  UNCHANGED <<txns, over>>
  BY <1>8 DEF CreateBranchReads, CreateBranchPosts, CreateBranchFails, AttachToTransaction, Write, vars,
              volume, history
<1>9. ASSUME NEW k, Throws(k)  PROVE TxnTypes'
  BY <1>4, <1>5, <1>9 DEF Throws, volume
<1>10. ASSUME NEW k, NEW t, End(k, t) \/ Abort(k, t)  PROVE TxnTypes'
  BY <1>5, <1>10 DEF End, Abort
<1>11. ASSUME NEW k, Over(k)  PROVE TxnTypes'
  BY <1>5, <1>11 DEF Over
<1>12. ASSUME Begin  PROVE TxnTypes'
  <2>1. nextTxn' = nextTxn + 1 /\ txns' = txns \cup {nextTxn} /\ over' = over /\ nextTxn >= 1
    <3>1. MaxTxns \in Nat
      BY ParametersAssumption
    <3> QED
      BY <1>12, <3>1 DEF Begin, history, Types, TxnTypes
  <2>2. nextTxn \in 1 .. nextTxn' - 1
    BY <1>1, <2>1
  <2> QED
    BY <1>1, <1>2, <1>3, <2>1, <2>2 DEF TxnTypes
<1> QED
  BY <1>4, <1>6, <1>7, <1>8, <1>9, <1>10, <1>11, <1>12, Zenon DEF Next

-----------------------------------------------------------------------------
(***************************************************************************)
(* What GitHub does with the request of call k.                            *)
(***************************************************************************)

Seen == onMain' = onMain \cup UNION {In(repo'[Main][p]) : p \in Paths}

Gets(k) == task[k].req.do = "get" /\ UNCHANGED <<repo, base, kept, gone, merged>> /\ Seen

Puts(k) ==
    LET r == task[k].req IN
    /\ r.do = "put" /\ IsPut(r) /\ r.branch \in DOMAIN repo /\ repo[r.branch][r.path] = r.sha
    /\ repo' = [repo EXCEPT ![r.branch] = [repo[r.branch] EXCEPT ![r.path] = r.body]]
    /\ kept' = kept \cup r.body
    /\ UNCHANGED <<base, gone, merged>> /\ Seen

Deletes(k) ==
    LET r == task[k].req IN
    /\ r.do = "delete" /\ IsDelete(r) /\ r.sha # None /\ repo[Main][r.path] = r.sha
    /\ repo' = [repo EXCEPT ![Main] = [repo[Main] EXCEPT ![r.path] = None]]
    /\ gone' = IF task[k].op = "delete" THEN gone \cup r.sha ELSE gone
    /\ UNCHANGED <<base, kept, merged>> /\ Seen

Merges(k) ==
    LET t == task[k].req.branch IN
    /\ task[k].op = "end" /\ task[k].req.do = "merge" /\ t = task[k].arg.txn
    /\ t \in 1 .. nextTxn - 1 /\ t \in DOMAIN repo /\ ~ Conflict(t)
    /\ repo' = [repo EXCEPT ![Main] = [p \in Paths |-> Joined(t, p)]]
    /\ base' = [base EXCEPT ![t] = repo[t]]
    /\ merged' = merged \cup {t}
    /\ UNCHANGED <<kept, gone>> /\ Seen

Drops(k) ==
    LET t == task[k].req.branch IN
    /\ task[k].req.do = "delete branch" /\ t = task[k].arg.txn /\ t \in DOMAIN repo
    /\ t \in 1 .. nextTxn - 1
    /\ repo' = [b \in DOMAIN repo \ {t} |-> repo[b]]
    /\ base' = [b \in DOMAIN repo \ {t} |-> base[b]]
    /\ UNCHANGED <<kept, gone, merged>> /\ Seen

\* Call k goes on as X.
Answer(k, X) ==
    /\ task' = [task EXCEPT ![k] = X]
    /\ X.op = task[k].op /\ X.req = task[k].req /\ X.arg = task[k].arg
    /\ X.at \in {"ok", "error"} /\ In(X.found) \subseteq Tree(Main)

Effect(k, X) ==
    \/ X.at = "error" /\ Ignored
    \/ Gets(k) \/ Puts(k) \/ Deletes(k) \/ Merges(k) \/ Drops(k)

LEMMA Performed ==
    ASSUME Types, NEW k \in Calls, Suspended(task[k]), Accepts(task[k].req), Performs(k)
    PROVE  Gets(k) \/ Puts(k) \/ Deletes(k) \/ Merges(k) \/ Drops(k)
<1>1. Seen
  BY DEF Performs, Seen
<1>2. PICK r : r = task[k].req
  OBVIOUS
<1>3. /\ repo \in [DOMAIN repo -> Trees] /\ base \in [DOMAIN repo -> Trees] /\ Main \in DOMAIN repo
  BY DEF Types, HubTypes
<1>4. CASE r.do = "get"
  BY <1>1, <1>2, <1>4 DEF Gets, Performs
<1>5. CASE r.do = "put"
  <2>1. IsPut(r) /\ r.branch \in DOMAIN repo /\ repo[r.branch][r.path] = r.sha
    BY <1>2, <1>5, Roles DEF Accepts
  <2>2. repo' = [repo EXCEPT ![r.branch][r.path] = r.body]
    BY <1>2, <1>5 DEF Performs
  <2>3. repo' = [repo EXCEPT ![r.branch] = [repo[r.branch] EXCEPT ![r.path] = r.body]]
    BY <1>3, <2>1, <2>2
  <2>4. kept' = kept \cup r.body /\ UNCHANGED <<base, gone, merged>>
    BY <1>2, <1>5 DEF Performs
  <2> QED
    BY <1>1, <1>2, <1>5, <2>1, <2>3, <2>4 DEF Puts
<1>6. CASE r.do = "delete"
  <2>1. IsDelete(r) /\ r.sha # None /\ repo[Main][r.path] = r.sha
    BY <1>2, <1>6, Roles DEF Accepts
  <2>2. repo' = [repo EXCEPT ![Main][r.path] = None]
    BY <1>2, <1>6 DEF Performs
  <2>3. repo' = [repo EXCEPT ![Main] = [repo[Main] EXCEPT ![r.path] = None]]
    BY <1>3, <2>1, <2>2
  <2>4. /\ gone' = IF task[k].op = "delete" THEN gone \cup r.sha ELSE gone
        /\ UNCHANGED <<base, kept, merged>>
    BY <1>2, <1>6 DEF Performs
  <2> QED
    BY <1>1, <1>2, <1>6, <2>1, <2>3, <2>4 DEF Deletes
<1>7. CASE r.do = "merge"
  <2>1. /\ task[k].op = "end" /\ r.branch = task[k].arg.txn /\ r.branch \in DOMAIN repo
        /\ r.branch \in 1 .. nextTxn - 1 /\ ~ Conflict(r.branch)
    BY <1>2, <1>7, Roles DEF Accepts, InTxn
  <2>2. /\ repo' = [repo EXCEPT ![Main] = [p \in Paths |-> Joined(r.branch, p)]]
        /\ base' = [base EXCEPT ![r.branch] = repo[r.branch]]
        /\ merged' = merged \cup {r.branch} /\ UNCHANGED <<kept, gone>>
    BY <1>2, <1>7 DEF Performs
  <2> QED
    BY <1>1, <1>2, <1>7, <2>1, <2>2 DEF Merges
<1>8. CASE r.do = "delete branch"
  <2>1. r.branch = task[k].arg.txn /\ r.branch \in DOMAIN repo /\ r.branch \in 1 .. nextTxn - 1
    BY <1>2, <1>8, Roles DEF Accepts, InTxn
  <2>2. /\ repo' = [b \in DOMAIN repo \ {r.branch} |-> repo[b]]
        /\ base' = [b \in DOMAIN repo \ {r.branch} |-> base[b]]
        /\ UNCHANGED <<kept, gone, merged>>
    BY <1>2, <1>8 DEF Performs
  <2> QED
    BY <1>1, <1>2, <1>8, <2>1, <2>2 DEF Drops
<1> QED
  BY <1>2, <1>4, <1>5, <1>6, <1>7, <1>8, Roles

LEMMA HubDoes ==
    ASSUME Types, NEW k \in Calls, Hub(k)
    PROVE  /\ Suspended(task[k]) /\ task[k].at = "sent"
           /\ \E X : Answer(k, X) /\ Effect(k, X)
           /\ UNCHANGED <<birth, volume, writes, moves, given, acked, of, over>>
<1>1. Suspended(task[k]) /\ task[k].at = "sent" /\ task = [j \in Calls |-> task[j]]
  BY DEF Hub, Types, TaskTypes, Idle
<1>2. ASSUME NEW ok \in BOOLEAN, Answered(k, ok)
      PROVE  \E X : Answer(k, X) /\ X.at = IF ok THEN "ok" ELSE "error"
  <2>1. PICK at, found : /\ at = IF ok THEN "ok" ELSE "error"
                         /\ found = IF ok /\ task[k].req.do = "get" THEN repo[Main][task[k].req.path] ELSE None
    OBVIOUS
  <2>2. task' = [task EXCEPT ![k].at = at, ![k].found = found]
    BY <1>2, <2>1 DEF Answered
  <2>3. task' = [task EXCEPT ![k] = [task[k] EXCEPT !.at = at, !.found = found]]
    <3>1. [task EXCEPT ![k].at = at, ![k].found = found] =
             [task EXCEPT ![k] = [task[k] EXCEPT !.at = at, !.found = found]]
      BY <1>1, AnswerInPlace
    <3> QED
      BY <2>2, <3>1, Zenon
  <2>4. PICK X : X = [op |-> task[k].op, at |-> at, req |-> task[k].req, arg |-> task[k].arg, found |-> found]
    OBVIOUS
  <2>5. [task[k] EXCEPT !.at = at, !.found = found] = X
    <3>1. PICK T : T = task[k]
      OBVIOUS
    <3>2. T = [op |-> T.op, at |-> T.at, req |-> T.req, arg |-> T.arg, found |-> T.found]
      BY <1>1, <3>1 DEF Suspended
    <3>3. [T EXCEPT !.at = at, !.found = found] =
            [op |-> T.op, at |-> at, req |-> T.req, arg |-> T.arg, found |-> found]
      BY <3>2, AnsweredTask, Zenon
    <3> QED
      BY <2>4, <3>1, <3>3, Zenon
  <2>6. X.op = task[k].op /\ X.at = at /\ X.req = task[k].req /\ X.arg = task[k].arg /\ X.found = found
    BY <2>4, TaskFields
  <2>7. In(found) \subseteq Tree(Main)
    <3>1. CASE found = None
      BY <3>1 DEF In
    <3>2. CASE ok /\ task[k].req.do = "get"
      <4>1. task[k].req.path \in Paths
        BY <1>1, <3>2, Roles DEF IsGet
      <4> QED
        BY <2>1, <3>2, <4>1 DEF Tree
    <3> QED
      BY <2>1, <3>1, <3>2
  <2>8. task' = [task EXCEPT ![k] = X]
    BY <2>3, <2>5, Zenon
  <2>9. Answer(k, X)
    BY <2>1, <2>6, <2>7, <2>8 DEF Answer
  <2> QED
    BY <2>1, <2>6, <2>9
<1>3. ASSUME NEW X, X.at = "error", Ignored  PROVE Effect(k, X)
  BY <1>3 DEF Effect
<1>4. ASSUME NEW X, Accepts(task[k].req), Performs(k)  PROVE Effect(k, X)
  BY <1>1, <1>4, Performed DEF Effect
<1>5. \/ Accepts(task[k].req) /\ Performs(k) /\ Answered(k, TRUE)
      \/ (Ignored \/ (Accepts(task[k].req) /\ Performs(k))) /\ Answered(k, FALSE)
  BY DEF Hub
<1>6. \E X : Answer(k, X) /\ Effect(k, X)
  <2>1. CASE Accepts(task[k].req) /\ Performs(k) /\ Answered(k, TRUE)
    BY <1>2, <1>4, <2>1
  <2>2. CASE (Ignored \/ (Accepts(task[k].req) /\ Performs(k))) /\ Answered(k, FALSE)
    <3>1. PICK X : Answer(k, X) /\ X.at = "error"
      <4>1. FALSE \in BOOLEAN /\ Answered(k, FALSE)
        BY <2>2
      <4>2. \E X : Answer(k, X) /\ X.at = IF FALSE THEN "ok" ELSE "error"
        BY <1>2, <4>1
      <4> QED
        BY <4>2
    <3> QED
      BY <1>3, <1>4, <2>2, <3>1
  <2> QED
    BY <1>5, <2>1, <2>2
<1>7. UNCHANGED <<birth, volume, writes, moves, given, acked, of, over>>
  BY DEF Hub
<1> QED
  BY <1>1, <1>6, <1>7

\* Who changes what GitHub keeps.
LEMMA HubChanges ==
    ASSUME [Next]_vars
    PROVE  \/ \E k \in Calls : Hub(k)
           \/ \E t \in 1 .. MaxTxns : CreateBranchReads(t) \/ CreateBranchPosts(t) \/ CreateBranchFails(t)
           \/ Begin
           \/ UNCHANGED <<hub, kept, onMain, merged>>
<1>1. ASSUME NEW k, \/ Throws(k) \/ OpenAnswered(k) \/ Closed(k) \/ DeleteGoesOn(k) \/ RenameGoesOn(k)
                    \/ EndGoesOn(k) \/ Over(k)
      PROVE  UNCHANGED <<hub, kept, onMain, merged>>
  BY <1>1 DEF Throws, OpenAnswered, Closed, DeleteGoesOn, RenameGoesOn, EndGoesOn, Over, history
<1>2. ASSUME NEW k, NEW op, NEW path, NEW to, NEW fh,
             \/ Opened(k, op) \/ Open(k, op, path) \/ Delete(k, path) \/ Rename(k, path, to) \/ Close(k, fh)
      PROVE  UNCHANGED <<hub, kept, onMain, merged>>
  BY <1>2 DEF Opened, Open, Delete, Rename, Close, history
<1>3. ASSUME NEW k, NEW t, NEW fh,
             End(k, t) \/ Abort(k, t) \/ AttachToTransaction(fh, t) \/ Write(fh) \/ UNCHANGED vars
      PROVE  UNCHANGED <<hub, kept, onMain, merged>>
  BY <1>3 DEF End, Abort, AttachToTransaction, Write, vars, history
<1> QED
  BY <1>1, <1>2, <1>3, Zenon DEF Next

LEMMA HubStep ==
    ASSUME Types, [Next]_vars
    PROVE  HubTypes'
<1>1. /\ writes \in Nat /\ writes' \in Nat /\ Grows /\ nextTxn \in Nat /\ nextTxn' \in Nat
      /\ nextTxn <= nextTxn'
  BY StepGrows DEF Grows
<1>2. /\ Blobs \subseteq Blobs' /\ Trees \subseteq Trees'
      /\ 0 .. nextTxn - 1 \subseteq 0 .. nextTxn' - 1 /\ 1 .. nextTxn - 1 \subseteq 1 .. nextTxn' - 1
  BY <1>1, BlobsGrow, UpTo
<1>3. /\ Main \in DOMAIN repo /\ DOMAIN repo \subseteq 0 .. nextTxn - 1
      /\ repo \in [DOMAIN repo -> Trees] /\ base \in [DOMAIN repo -> Trees]
      /\ DOMAIN birth \subseteq 1 .. nextTxn - 1 /\ DOMAIN birth \cap DOMAIN repo = {}
      /\ birth \in [DOMAIN birth -> Trees \cup {None}]
  BY DEF Types, HubTypes
<1>4. ASSUME UNCHANGED birth, NEW S \in SUBSET DOMAIN repo, Main \in S,
             repo' \in [S -> Trees], base' \in [S -> Trees]
      PROVE  HubTypes'
  BY <1>2, <1>3, <1>4 DEF HubTypes
<1>5. ASSUME UNCHANGED hub  PROVE HubTypes'
  BY <1>3, <1>4, <1>5 DEF hub
<1>6. ASSUME NEW k \in Calls, Hub(k)  PROVE HubTypes'
  <2>1. UNCHANGED birth
    BY <1>6 DEF Hub
  <2>2. ASSUME UNCHANGED <<repo, base>>  PROVE HubTypes'
    BY <1>5, <2>1, <2>2 DEF hub
  <2>3. CASE Puts(k)
    <3>1. PICK r : r = task[k].req
      OBVIOUS
    <3>2. [repo[r.branch] EXCEPT ![r.path] = r.body] \in Trees
      BY <1>3, <2>3, <3>1 DEF Puts, IsPut, Trees
    <3>3. repo' \in [DOMAIN repo -> Trees] /\ base' \in [DOMAIN repo -> Trees]
      BY <1>3, <2>3, <3>1, <3>2 DEF Puts
    <3> QED
      BY <1>3, <1>4, <2>1, <3>3
  <2>4. CASE Deletes(k)
    <3>1. PICK r : r = task[k].req
      OBVIOUS
    <3>2. [repo[Main] EXCEPT ![r.path] = None] \in Trees
      BY <1>3, <2>4, <3>1 DEF Deletes, IsDelete, Trees
    <3>3. repo' \in [DOMAIN repo -> Trees] /\ base' \in [DOMAIN repo -> Trees]
      BY <1>3, <2>4, <3>1, <3>2 DEF Deletes
    <3> QED
      BY <1>3, <1>4, <2>1, <3>3
  <2>5. CASE Merges(k)
    <3>1. PICK t \in DOMAIN repo : /\ repo' = [repo EXCEPT ![Main] = [p \in Paths |-> Joined(t, p)]]
                                   /\ base' = [base EXCEPT ![t] = repo[t]]
      BY <2>5 DEF Merges
    <3>2. [p \in Paths |-> Joined(t, p)] \in Trees
      BY <1>3, <3>1 DEF Joined, Trees
    <3>3. repo' \in [DOMAIN repo -> Trees] /\ base' \in [DOMAIN repo -> Trees]
      BY <1>3, <3>1, <3>2
    <3> QED
      BY <1>3, <1>4, <2>1, <3>3
  <2>6. CASE Drops(k)
    <3>1. PICK t \in 1 .. nextTxn - 1 : /\ repo' = [b \in DOMAIN repo \ {t} |-> repo[b]]
                                        /\ base' = [b \in DOMAIN repo \ {t} |-> base[b]]
      BY <2>6 DEF Drops
    <3>2. Main \in DOMAIN repo \ {t}
      BY <1>3 DEF Main
    <3> QED
      BY <1>3, <1>4, <2>1, <3>1, <3>2
  <2> QED
    BY <1>6, <2>2, <2>3, <2>4, <2>5, <2>6, HubDoes DEF Effect, Ignored, Gets
<1>7. ASSUME NEW t, CreateBranchReads(t)  PROVE HubTypes'
  <2>1. repo[Main] \in Trees
    BY <1>3
  <2>2. birth' = [birth EXCEPT ![t] = repo[Main]] /\ UNCHANGED <<repo, base, nextTxn>>
    BY <1>7 DEF CreateBranchReads, volume
  <2>3. DOMAIN birth' = DOMAIN birth /\ birth' \in [DOMAIN birth' -> Trees \cup {None}]
    BY <1>3, <2>1, <2>2
  <2>4. birth' \in [DOMAIN birth' -> Trees' \cup {None}]
    BY <1>2, <2>3
  <2> QED
    BY <1>2, <1>3, <2>2, <2>3, <2>4 DEF HubTypes
<1>8. ASSUME NEW t, CreateBranchPosts(t)  PROVE HubTypes'
  <2>1. t \in DOMAIN birth /\ birth[t] \in Trees
    BY <1>3, <1>8 DEF CreateBranchPosts
  <2>2. /\ repo'  = [b \in DOMAIN repo \cup {t} |-> IF b = t THEN birth[t] ELSE repo[b]]
        /\ base'  = [b \in DOMAIN repo \cup {t} |-> IF b = t THEN birth[t] ELSE base[b]]
        /\ birth' = [u \in DOMAIN birth \ {t} |-> birth[u]] /\ nextTxn' = nextTxn
    BY <1>3, <1>8 DEF CreateBranchPosts, volume
  <2>3. /\ repo' \in [DOMAIN repo \cup {t} -> Trees'] /\ base' \in [DOMAIN repo \cup {t} -> Trees']
    BY <1>2, <1>3, <2>1, <2>2
  <2>4. t \in 0 .. nextTxn - 1
    BY <1>3, <2>1
  <2>5. birth' \in [DOMAIN birth \ {t} -> Trees' \cup {None}] /\ DOMAIN birth' = DOMAIN birth \ {t}
    BY <1>2, <1>3, <2>2
  <2> QED
    BY <1>3, <2>2, <2>3, <2>4, <2>5 DEF HubTypes
<1>9. ASSUME NEW t, CreateBranchFails(t)  PROVE HubTypes'
  <2>1. birth' = [u \in DOMAIN birth \ {t} |-> birth[u]] /\ UNCHANGED <<repo, base, nextTxn>>
    BY <1>9 DEF CreateBranchFails, volume
  <2>2. birth' \in [DOMAIN birth \ {t} -> Trees' \cup {None}] /\ DOMAIN birth' = DOMAIN birth \ {t}
    BY <1>2, <1>3, <2>1
  <2> QED
    BY <1>2, <1>3, <2>1, <2>2 DEF HubTypes
<1>10. ASSUME Begin  PROVE HubTypes'
  <2>1. /\ birth' = [t \in DOMAIN birth \cup {nextTxn} |-> IF t = nextTxn THEN None ELSE birth[t]]
        /\ nextTxn' = nextTxn + 1 /\ UNCHANGED <<repo, base>>
    BY <1>10 DEF Begin
  <2>2. birth' \in [DOMAIN birth \cup {nextTxn} -> Trees' \cup {None}]
    BY <1>2, <1>3, <2>1
  <2>3. nextTxn \notin DOMAIN repo /\ nextTxn \in 1 .. nextTxn' - 1
    <3>1. nextTxn \in Nat \ {0}
      <4>1. MaxTxns \in Nat
        BY ParametersAssumption
      <4> QED
        BY <4>1 DEF Types, TxnTypes
    <3>2. nextTxn \notin 0 .. nextTxn - 1 /\ nextTxn \in 1 .. nextTxn + 1 - 1
      BY <3>1
    <3> QED
      BY <1>3, <2>1, <3>2
  <2>4. DOMAIN birth' = DOMAIN birth \cup {nextTxn}
    BY <2>1
  <2> QED
    BY <1>2, <1>3, <2>1, <2>2, <2>3, <2>4 DEF HubTypes
<1> QED
  BY <1>5, <1>6, <1>7, <1>8, <1>9, <1>10, HubChanges

LEMMA TypesStep ==
    ASSUME Types, [Next]_vars
    PROVE  Types'
<1>1. writes' \in 0 .. MaxWrites /\ nextFH' \in Nat \ {0}
  BY StepGrows
<1> QED
  BY <1>1, HubStep, HandleStep, TxnStep, TaskStep DEF Types

LEMMA TypesStart == Init => Types
<1> SUFFICES ASSUME Init PROVE Types
  OBVIOUS
<1>1. MaxWrites \in Nat /\ MaxTxns \in Nat
  BY ParametersAssumption
<1>2. writes \in 0 .. MaxWrites /\ nextFH \in Nat \ {0}
  BY <1>1 DEF Init
<1>3. HubTypes
  <2>1. Clear \in Trees
    BY DEF Clear, Trees
  <2>2. Main \in 0 .. nextTxn - 1
    BY DEF Init, Main
  <2> QED
    BY <2>1, <2>2 DEF Init, HubTypes
<1>4. HandleTypes
  BY DEF Init, HandleTypes
<1>5. TxnTypes
  BY <1>1 DEF Init, TxnTypes
<1>6. TaskTypes
  BY DEF Init, TaskTypes
<1> QED
  BY <1>2, <1>3, <1>4, <1>5, <1>6 DEF Types

LEMMA TypesHold == Spec => []Types
<1>1. Types /\ [Next]_vars => Types'
  BY TypesStep
<1> QED
  BY <1>1, TypesStart, PTL DEF Spec

\* GitHub, the open files and the transactions keep their types: openFile,
\* closeFile and the transaction calls leave _fhs and _txns as the others expect.
THEOREM TypeCorrect == Spec => []TypeOK
<1>1. Types => TypeOK
  <2> SUFFICES ASSUME Types PROVE TypeOK
    OBVIOUS
  <2>1. 0 .. nextTxn - 1 \subseteq 0 .. MaxTxns
    <3>1. MaxTxns \in Nat
      BY ParametersAssumption
    <3> QED
      BY <3>1 DEF Types, TxnTypes
  <2>2. \A fh \in DOMAIN fhs :
           fhs[fh] \in [path : Paths, sha : Contents \cup {None}, buf : Contents,
                        dirty : BOOLEAN, branch : 0 .. MaxTxns]
    BY <2>1 DEF Types, HandleTypes, Handles, Blobs
  <2>3. /\ Main \in DOMAIN repo /\ DOMAIN base = DOMAIN repo
        /\ \A b \in DOMAIN repo : repo[b] \in Trees /\ base[b] \in Trees
        /\ \A t \in DOMAIN birth : birth[t] \in Trees \cup {None}
    BY DEF Types, HubTypes
  <2> QED
    BY <2>2, <2>3 DEF TypeOK, Types, HandleTypes, TxnTypes
<1> QED
  BY <1>1, TypesHold, PTL

-----------------------------------------------------------------------------
(***************************************************************************)
(* What a step does to the calls: it answers one, ends one, or sends a     *)
(* request for one.                                                        *)
(***************************************************************************)

\* The commit of handle fh.
SendsCommit(X, fh) ==
    /\ X.op \in {"close", "end"} /\ fh \in DOMAIN fhs /\ Dirty(fh)
    /\ X.req = CommitRequest(fhs[fh]) /\ File(X) = fh
    /\ X.op = "end" => X.arg.txn = fhs[fh].branch

SendsCopy(T, X) ==
    /\ T.op = "rename" /\ X.op = "rename"
    /\ X.arg.content = T.found /\ T.found # None /\ X.req = RenameCopy(X.arg)

SendsCleanup(T, X) ==
    /\ T.op = "rename" /\ T.req.do = "put" /\ T.at = "ok"
    /\ X.op = "rename" /\ X.arg = T.arg /\ X.req = RenameCleanup(X.arg)

SendsOther(X) ==
    \/ X.op \in {"open", "create", "delete", "abort"}
    \/ X.op = "rename" /\ X.req.do = "get" /\ X.arg.content = None
    \/ X.op = "end" /\ X.req.do \in {"merge", "delete branch"}

Sends(k, X) ==
    /\ task' = [task EXCEPT ![k] = X]
    /\ X.at = "sent" /\ X.found = None
    /\ \/ \E fh \in DOMAIN fhs : SendsCommit(X, fh)
       \/ SendsCopy(task[k], X)
       \/ SendsCleanup(task[k], X)
       \/ SendsOther(X)

LEMMA WaitingFields ==
    ASSUME NEW op, NEW req, NEW arg, NEW X, X = Waiting(op, req, arg)
    PROVE  X.op = op /\ X.at = "sent" /\ X.req = req /\ X.arg = arg /\ X.found = None
BY DEF Waiting

LEMMA SuspendSends ==
    ASSUME NEW k, NEW op, NEW req, NEW arg, Suspend(k, op, req, arg)
    PROVE  \E X : /\ task' = [task EXCEPT ![k] = X]
                  /\ X.op = op /\ X.at = "sent" /\ X.req = req /\ X.arg = arg /\ X.found = None
<1>1. PICK X : X = Waiting(op, req, arg)
  OBVIOUS
<1>2. task' = [task EXCEPT ![k] = X]
  BY <1>1 DEF Suspend, Waiting
<1>3. X.op = op /\ X.at = "sent" /\ X.req = req /\ X.arg = arg /\ X.found = None
  BY <1>1, WaitingFields
<1> QED
  BY <1>2, <1>3, Zenon

LEMMA CallMoves ==
    ASSUME Types, [Next]_vars
    PROVE  \/ UNCHANGED task
           \/ \E k \in Calls : Hub(k)
           \/ \E k \in Calls : Finish(k)
           \/ \E k \in Calls : \E X : Sends(k, X)
<1> DEFINE Goal == \/ UNCHANGED task
                   \/ \E k \in Calls : Hub(k)
                   \/ \E k \in Calls : Finish(k)
                   \/ \E k \in Calls : \E X : Sends(k, X)
<1>1. ASSUME NEW k \in Calls, Throws(k) \/ OpenAnswered(k) \/ Closed(k) \/ Over(k)
      PROVE  Finish(k)
  BY <1>1 DEF Throws, OpenAnswered, Closed, Over
<1>2. ASSUME NEW k \in Calls, NEW op, NEW req, NEW arg, Suspend(k, op, req, arg),
             \/ op \in {"open", "create", "delete", "abort"}
             \/ op = "rename" /\ req.do = "get" /\ arg.content = None
             \/ op = "end" /\ req.do \in {"merge", "delete branch"}
      PROVE  \E X : Sends(k, X)
  <2>1. PICK X : /\ task' = [task EXCEPT ![k] = X]
                 /\ X.op = op /\ X.at = "sent" /\ X.req = req /\ X.arg = arg /\ X.found = None
    <3>1. Suspend(k, op, req, arg)
      BY <1>2
    <3> QED
      BY <3>1, SuspendSends
  <2>2. SendsOther(X)
    BY <1>2, <2>1 DEF SendsOther
  <2> QED
    BY <2>1, <2>2 DEF Sends
<1>3. ASSUME NEW k \in Calls, NEW path, NEW op, NEW to,
             Open(k, op, path) \/ Delete(k, path) \/ Rename(k, path, to)
      PROVE  \E X : Sends(k, X)
  <2>1. CASE Open(k, op, path)
    BY <1>2, <2>1 DEF Open
  <2>2. CASE Delete(k, path)
    BY <1>2, <2>2 DEF Delete
  <2>3. CASE Rename(k, path, to)
    BY <1>2, <2>3 DEF Rename, GetFile
  <2> QED
    BY <1>3, <2>1, <2>2, <2>3
<1>4. ASSUME NEW k \in Calls, DeleteGoesOn(k)  PROVE Finish(k) \/ \E X : Sends(k, X)
  BY <1>2, <1>4 DEF DeleteGoesOn
<1>5. ASSUME NEW k \in Calls, RenameGoesOn(k)  PROVE Finish(k) \/ \E X : Sends(k, X)
  <2>1. PICK T : T = task[k]
    OBVIOUS
  <2>2. T.op = "rename" /\ Renaming(T.arg)
    <3>1. T.op = "rename" /\ Suspended(T)
      BY <1>5, <2>1 DEF RenameGoesOn, Resumes, Types, TaskTypes, Idle
    <3> QED
      BY <3>1, Roles
  <2>3. PICK read : read = [T.arg EXCEPT !.content = T.found]
    OBVIOUS
  <2>4. read.content = T.found
    BY <2>2, <2>3 DEF Renaming
  <2>5. CASE read.content # None /\ Suspend(k, "rename", RenameCopy(read), read)
    <3>1. PICK X : /\ task' = [task EXCEPT ![k] = X] /\ X.op = "rename" /\ X.at = "sent"
                   /\ X.req = RenameCopy(read) /\ X.arg = read /\ X.found = None
      BY <2>5, SuspendSends
    <3>2. SendsCopy(T, X)
      BY <2>2, <2>4, <2>5, <3>1 DEF SendsCopy
    <3> QED
      BY <2>1, <3>1, <3>2 DEF Sends
  <2>6. CASE Resumes(k, "rename", "put", "ok") /\ Suspend(k, "rename", RenameCleanup(T.arg), T.arg)
    <3>1. PICK X : /\ task' = [task EXCEPT ![k] = X] /\ X.op = "rename" /\ X.at = "sent"
                   /\ X.req = RenameCleanup(T.arg) /\ X.arg = T.arg /\ X.found = None
      BY <2>6, SuspendSends
    <3>2. SendsCleanup(T, X)
      BY <2>1, <2>6, <3>1 DEF SendsCleanup, Resumes
    <3> QED
      BY <2>1, <3>1, <3>2 DEF Sends
  <2> QED
    BY <1>5, <2>1, <2>3, <2>5, <2>6 DEF RenameGoesOn
<1>6. ASSUME NEW k \in Calls, NEW op \in {"open", "create"}, Opened(k, op)
      PROVE  Finish(k) \/ \E X : Sends(k, X)
  <2>1. Finish(k) \/ Suspend(k, op, GetFile(task[k].req.path), nextFH)
    BY <1>6 DEF Opened
  <2> QED
    BY <1>2, <1>6, <2>1
<1>7. ASSUME NEW k \in Calls, NEW fh \in Usable, Close(k, fh)
      PROVE  UNCHANGED task \/ \E X : Sends(k, X)
  <2>1. ASSUME Dirty(fh), Suspend(k, "close", CommitRequest(fhs[fh]), fh)
        PROVE  \E X : Sends(k, X)
    <3>1. PICK X : /\ task' = [task EXCEPT ![k] = X] /\ X.op = "close" /\ X.at = "sent"
                   /\ X.req = CommitRequest(fhs[fh]) /\ X.arg = fh /\ X.found = None
      BY <2>1, SuspendSends
    <3>2. fh \in DOMAIN fhs /\ SendsCommit(X, fh)
      BY <2>1, <3>1 DEF SendsCommit, Usable, File
    <3> QED
      BY <3>1, <3>2 DEF Sends
  <2> QED
    BY <1>7, <2>1 DEF Close
<1>8. ASSUME NEW k \in Calls, NEW t \in 1 .. nextTxn - 1, NEW last \in Nat,
             NEW handles \in SUBSET DOMAIN fhs, \A fh \in DOMAIN fhs : fh > last => fh \in handles,
             FlushFrom(k, t, last, handles)
      PROVE  \E X : Sends(k, X)
  <2>1. ASSUME MergesNow(k, t, last, handles)  PROVE \E X : Sends(k, X)
    <3>1. Suspend(k, "end", Merge(t), [txn |-> t, fh |-> 0])
      BY <2>1 DEF MergesNow, Suspend, Waiting
    <3>2. Merge(t).do = "merge"
      BY DEF Merge
    <3> QED
      BY <1>2, <3>1, <3>2
  <2>2. ASSUME NEW d \in Attached(t, last), CommitsNext(k, t, last, handles, d)
        PROVE  \E X : Sends(k, X)
    <3>1. Suspend(k, "end", CommitRequest(fhs[d]), [txn |-> t, fh |-> d])
      BY <2>2 DEF CommitsNext, Suspend, Waiting
    <3>2. PICK X : /\ task' = [task EXCEPT ![k] = X] /\ X.op = "end" /\ X.at = "sent"
                   /\ X.req = CommitRequest(fhs[d]) /\ X.arg = [txn |-> t, fh |-> d] /\ X.found = None
      BY <3>1, SuspendSends
    <3>3. d \in DOMAIN fhs /\ Dirty(d) /\ fhs[d].branch = t
      BY <2>2 DEF Attached, CommitsNext
    <3>4. X.arg.fh = d /\ X.arg.txn = t
      BY <3>2
    <3>5. SendsCommit(X, d)
      BY <3>2, <3>3, <3>4 DEF SendsCommit, File
    <3> QED
      BY <3>2, <3>3, <3>5 DEF Sends
  <2> QED
    BY <1>8, <2>1, <2>2, Flushes
<1>9. ASSUME NEW k \in Calls, NEW t \in 1 .. MaxTxns, End(k, t)  PROVE \E X : Sends(k, X)
  <2>1. t \in 1 .. nextTxn - 1 /\ FlushFrom(k, t, 0, DOMAIN fhs)
    BY <1>9, StepGrows DEF End
  <2> QED
    BY <1>8, <2>1
<1>10. ASSUME NEW k \in Calls, EndGoesOn(k)  PROVE \E X : Sends(k, X)
  <2>1. InTxn(task[k].arg)
    <3>1. Suspended(task[k]) /\ task[k].op = "end"
      BY <1>10 DEF EndGoesOn, Resumes, Types, TaskTypes, Idle
    <3> QED
      BY <3>1, Roles
  <2>2. ASSUME FlushFrom(k, task[k].arg.txn, task[k].arg.fh, DOMAIN fhs \ {task[k].arg.fh})
        PROVE  \E X : Sends(k, X)
    <3>1. task[k].arg.txn \in 1 .. nextTxn - 1 /\ task[k].arg.fh \in Nat
      BY <2>1 DEF InTxn
    <3>2. \A fh \in DOMAIN fhs : fh > task[k].arg.fh => fh \in DOMAIN fhs \ {task[k].arg.fh}
      BY <3>1
    <3> QED
      BY <1>8, <2>2, <3>1, <3>2
  <2>3. ASSUME Suspend(k, "end", DeleteBranch(task[k].arg.txn), task[k].arg)
        PROVE  \E X : Sends(k, X)
    <3>1. DeleteBranch(task[k].arg.txn).do = "delete branch"
      BY DEF DeleteBranch
    <3> QED
      BY <1>2, <2>3, <3>1
  <2> QED
    BY <1>10, <2>2, <2>3 DEF EndGoesOn
<1>11. ASSUME NEW k \in Calls, NEW t \in 1 .. MaxTxns, Abort(k, t)  PROVE \E X : Sends(k, X)
  BY <1>2, <1>11 DEF Abort
<1>12. ASSUME NEW t, NEW fh,
              \/ CreateBranchReads(t) \/ CreateBranchPosts(t) \/ CreateBranchFails(t)
              \/ AttachToTransaction(fh, t) \/ Write(fh) \/ Begin \/ UNCHANGED vars
       PROVE  UNCHANGED task
  BY <1>12 DEF CreateBranchReads, CreateBranchPosts, CreateBranchFails, AttachToTransaction, Write,
               Begin, vars
<1>13. Goal
  BY <1>1, <1>3, <1>4, <1>5, <1>6, <1>7, <1>9, <1>10, <1>11, <1>12, Zenon DEF Next
<1> QED
  BY <1>13

-----------------------------------------------------------------------------
(***************************************************************************)
(* Committed data stays: what main, the branches and the calls know.       *)
(***************************************************************************)

LEMMA TaskSet ==
    ASSUME Types, NEW k \in Calls, NEW X, task' = [task EXCEPT ![k] = X]
    PROVE  task'[k] = X /\ \A j \in Calls : j # k => task'[j] = task[j]
BY DEF Types, TaskTypes

LEMMA TaskDone ==
    ASSUME Types, NEW k \in Calls, Finish(k)
    PROVE  task'[k] = Idle /\ \A j \in Calls : j # k => task'[j] = task[j]
<1>1. task' = [task EXCEPT ![k] = Idle]
  BY DEF Finish
<1> QED
  BY <1>1, TaskSet

LEMMA MergeAdds ==
    ASSUME Types, Extends, NEW k, Merges(k), NEW p \in Paths
    PROVE  LET t == task[k].req.branch IN
           /\ In(repo[Main][p]) \subseteq In(repo'[Main][p])
           /\ In(repo[t][p]) \subseteq In(repo'[Main][p]) \cup In(base[t][p])
           /\ In(repo'[Main][p]) \subseteq In(repo[Main][p]) \cup In(repo[t][p])
<1>1. PICK t : t = task[k].req.branch
  OBVIOUS
<1>2. t \in DOMAIN repo \ {Main} /\ ~ Conflict(t) /\ repo' = [repo EXCEPT ![Main] = [q \in Paths |-> Joined(t, q)]]
  <2>1. \A n \in 1 .. nextTxn - 1 : n # Main
    BY DEF Main
  <2> QED
    BY <1>1, <2>1 DEF Merges
<1>3. repo'[Main][p] = Joined(t, p)
  BY <1>2 DEF Types, HubTypes
<1>4. In(base[t][p]) \subseteq In(repo[t][p])
  BY <1>2 DEF Extends
<1>5. CASE repo[t][p] = base[t][p]
  BY <1>1, <1>3, <1>5 DEF Joined
<1>6. CASE repo[t][p] # base[t][p]
  <2>1. repo[Main][p] = base[t][p] \/ repo[t][p] = repo[Main][p]
    BY <1>2, <1>6 DEF Conflict
  <2> QED
    BY <1>1, <1>3, <1>4, <1>6, <2>1 DEF Joined
<1> QED
  BY <1>5, <1>6

LEMMA MainSeen ==
    ASSUME Types, Known, [Next]_vars
    PROVE  onMain \subseteq onMain' /\ Tree(Main)' \subseteq onMain'
<1>1. Tree(Main) \subseteq onMain
  BY DEF Known
<1>2. ASSUME UNCHANGED <<repo, onMain>>  PROVE onMain \subseteq onMain' /\ Tree(Main)' \subseteq onMain'
  BY <1>1, <1>2 DEF Tree
<1>3. ASSUME Seen  PROVE onMain \subseteq onMain' /\ Tree(Main)' \subseteq onMain'
  BY <1>3 DEF Seen, Tree
<1>4. ASSUME NEW k \in Calls, Hub(k)  PROVE onMain \subseteq onMain' /\ Tree(Main)' \subseteq onMain'
  BY <1>2, <1>3, <1>4, HubDoes DEF Effect, Ignored, Gets, Puts, Deletes, Merges, Drops
<1>5. ASSUME NEW t, CreateBranchPosts(t)  PROVE onMain \subseteq onMain' /\ Tree(Main)' \subseteq onMain'
  <2>1. t # Main
    BY <1>5 DEF CreateBranchPosts, Types, HubTypes
  <2>2. repo'[Main] = repo[Main] /\ onMain' = onMain
    BY <1>5, <2>1 DEF CreateBranchPosts, history, Types, HubTypes
  <2> QED
    BY <1>1, <2>2 DEF Tree
<1>6. ASSUME NEW t, CreateBranchReads(t) \/ CreateBranchFails(t) \/ Begin
      PROVE  UNCHANGED <<repo, onMain>>
  BY <1>6 DEF CreateBranchReads, CreateBranchFails, Begin, history
<1>7. ASSUME UNCHANGED <<hub, kept, onMain, merged>>  PROVE UNCHANGED <<repo, onMain>>
  BY <1>7 DEF hub
<1> QED
  BY <1>2, <1>4, <1>5, <1>6, <1>7, HubChanges

LEMMA KnownStep ==
    ASSUME Types, Known, Extends, [Next]_vars
    PROVE  Known'
<1> DEFINE Bases == \A b \in DOMAIN repo : \A p \in Paths : In(base[b][p]) \subseteq onMain
           Births == \A t \in DOMAIN birth : \A p \in Paths :
                        birth[t] # None => In(birth[t][p]) \subseteq onMain
           Finds == \A k \in Calls : Live(task[k]) => In(task[k].found) \subseteq onMain
<1>1. Bases /\ Births /\ Finds /\ Tree(Main) \subseteq onMain
  BY DEF Known
<1>2. onMain \subseteq onMain' /\ Tree(Main)' \subseteq onMain'
  BY MainSeen
<1>3. ASSUME UNCHANGED birth  PROVE Births'
  BY <1>1, <1>2, <1>3
<1>4. ASSUME DOMAIN repo' \subseteq DOMAIN repo, \A b \in DOMAIN repo' : base'[b] = base[b]  PROVE Bases'
  BY <1>1, <1>2, <1>4
<1>5. Bases' /\ Births'
  <2>1. ASSUME UNCHANGED <<hub, kept, onMain, merged>>  PROVE Bases' /\ Births'
    BY <1>3, <1>4, <2>1 DEF hub
  <2>2. ASSUME NEW k \in Calls, Hub(k)  PROVE Bases' /\ Births'
    <3>1. Births'
      BY <1>3, <2>2 DEF Hub
    <3>2. CASE Ignored \/ Gets(k)
      <4>1. UNCHANGED <<repo, base>>
        BY <3>2 DEF Ignored, Gets
      <4> QED
        BY <1>4, <3>1, <4>1
    <3>3. CASE Puts(k) \/ Deletes(k)
      <4>1. UNCHANGED base /\ DOMAIN repo' = DOMAIN repo
        BY <3>3 DEF Puts, Deletes, Types, HubTypes
      <4> QED
        BY <1>4, <3>1, <4>1
    <3>4. CASE Drops(k)
      <4>1. DOMAIN repo' \subseteq DOMAIN repo /\ \A b \in DOMAIN repo' : base'[b] = base[b]
        BY <3>4 DEF Drops
      <4> QED
        BY <1>4, <3>1, <4>1
    <3>5. CASE Merges(k)
      <4>1. PICK t : t = task[k].req.branch
        OBVIOUS
      <4>2. t \in DOMAIN repo /\ base' = [base EXCEPT ![t] = repo[t]] /\ DOMAIN repo' = DOMAIN repo
        BY <3>5, <4>1 DEF Merges, Types, HubTypes
      <4>3. \A b \in DOMAIN repo' : b # t => base'[b] = base[b]
        BY <4>2 DEF Types, HubTypes
      <4>4. base'[t] = repo[t]
        BY <4>2 DEF Types, HubTypes
      <4>5. ASSUME NEW p \in Paths  PROVE In(repo[t][p]) \subseteq onMain'
        <5>1. In(repo[t][p]) \subseteq In(repo'[Main][p]) \cup In(base[t][p])
          BY <3>5, <4>1, MergeAdds
        <5>2. In(repo'[Main][p]) \subseteq Tree(Main)'
          BY DEF Tree
        <5> QED
          BY <1>1, <1>2, <4>2, <5>1, <5>2
      <4>6. ASSUME NEW b \in DOMAIN repo', NEW p \in Paths  PROVE In(base'[b][p]) \subseteq onMain'
        BY <1>1, <1>2, <4>2, <4>3, <4>4, <4>5
      <4> QED
        BY <3>1, <4>6
    <3> QED
      BY <2>2, <3>1, <3>2, <3>3, <3>4, <3>5, HubDoes DEF Effect
  <2>3. ASSUME NEW t, CreateBranchReads(t)  PROVE Bases' /\ Births'
    <3>1. birth' = [birth EXCEPT ![t] = repo[Main]] /\ UNCHANGED <<repo, base>>
      BY <2>3 DEF CreateBranchReads
    <3>2. \A p \in Paths : In(repo[Main][p]) \subseteq onMain'
      BY <1>1, <1>2 DEF Tree
    <3>3. ASSUME NEW u \in DOMAIN birth', NEW p \in Paths, birth'[u] # None
          PROVE  In(birth'[u][p]) \subseteq onMain'
      <4>1. birth'[u] = repo[Main] \/ (u \in DOMAIN birth /\ birth'[u] = birth[u])
        BY <3>1
      <4>2. CASE birth'[u] = repo[Main]
        BY <3>2, <4>2
      <4>3. CASE u \in DOMAIN birth /\ birth'[u] = birth[u]
        BY <1>1, <1>2, <3>3, <4>3
      <4> QED
        BY <4>1, <4>2, <4>3
    <3> QED
      BY <1>4, <3>1, <3>3
  <2>4. ASSUME NEW t, CreateBranchPosts(t)  PROVE Bases' /\ Births'
    <3>1. /\ base'  = [b \in DOMAIN base \cup {t} |-> IF b = t THEN birth[t] ELSE base[b]]
          /\ DOMAIN base = DOMAIN repo /\ DOMAIN repo' = DOMAIN repo \cup {t}
          /\ birth' = [u \in DOMAIN birth \ {t} |-> birth[u]]
          /\ t \in DOMAIN birth /\ birth[t] # None
      BY <2>4 DEF CreateBranchPosts, Types, HubTypes
    <3>2. Births'
      BY <1>1, <1>2, <3>1
    <3>3. ASSUME NEW b \in DOMAIN repo', NEW p \in Paths  PROVE In(base'[b][p]) \subseteq onMain'
      <4>1. CASE b = t
        BY <1>1, <1>2, <3>1, <4>1
      <4>2. CASE b # t
        BY <1>1, <1>2, <3>1, <4>2
      <4> QED
        BY <4>1, <4>2
    <3> QED
      BY <3>2, <3>3
  <2>5. ASSUME NEW t, CreateBranchFails(t)  PROVE Bases' /\ Births'
    <3>1. birth' = [u \in DOMAIN birth \ {t} |-> birth[u]] /\ UNCHANGED <<repo, base>>
      BY <2>5 DEF CreateBranchFails
    <3> QED
      BY <1>1, <1>2, <1>4, <3>1
  <2>6. ASSUME Begin  PROVE Bases' /\ Births'
    <3>1. /\ birth' = [t \in DOMAIN birth \cup {nextTxn} |-> IF t = nextTxn THEN None ELSE birth[t]]
          /\ UNCHANGED <<repo, base>>
      BY <2>6 DEF Begin
    <3> QED
      BY <1>1, <1>2, <1>4, <3>1
  <2> QED
    BY <2>1, <2>2, <2>3, <2>4, <2>5, <2>6, HubChanges
<1>6. Finds'
  <2>1. ASSUME NEW k \in Calls, NEW X, task' = [task EXCEPT ![k] = X], In(X.found) \subseteq onMain' \/ ~ Live(X)
        PROVE  Finds'
    <3>1. task'[k] = X /\ \A j \in Calls : j # k => task'[j] = task[j]
      BY <2>1, TaskSet
    <3>2. ASSUME NEW j \in Calls, Live(task'[j])  PROVE In(task'[j].found) \subseteq onMain'
      BY <1>1, <1>2, <2>1, <3>1, <3>2
    <3> QED
      BY <3>2 DEF Live
  <2>2. ASSUME UNCHANGED task  PROVE Finds'
    BY <1>1, <1>2, <2>2 DEF Live
  <2>3. ASSUME NEW k \in Calls, Hub(k)  PROVE Finds'
    BY <1>1, <1>2, <2>1, <2>3, HubDoes DEF Answer
  <2>4. ASSUME NEW k \in Calls, Finish(k)  PROVE Finds'
    BY <2>1, <2>4 DEF Finish, Live, Idle
  <2>5. ASSUME NEW k \in Calls, NEW X, Sends(k, X)  PROVE Finds'
    <3>1. task' = [task EXCEPT ![k] = X] /\ In(X.found) = {}
      BY <2>5 DEF Sends, In
    <3> QED
      BY <2>1, <3>1
  <2> QED
    BY <2>2, <2>3, <2>4, <2>5, CallMoves
<1> QED
  BY <1>2, <1>5, <1>6 DEF Known

\* The handles after a write, after an attach and after an open.
LEMMA WriteOne ==
    ASSUME Types, NEW fh \in Usable, Write(fh)
    PROVE  /\ fh \in DOMAIN fhs /\ fh \in 1 .. nextFH - 1 /\ DOMAIN fhs' = DOMAIN fhs
           /\ \A g \in DOMAIN fhs : g # fh => fhs'[g] = fhs[g]
           /\ fhs'[fh].sha = fhs[fh].sha /\ fhs'[fh].branch = fhs[fh].branch
           /\ fhs'[fh].buf = fhs[fh].buf \cup {writes'} /\ fhs'[fh].dirty = TRUE
           /\ DOMAIN acked' = DOMAIN acked /\ acked'[fh] = acked[fh] \cup {writes'}
           /\ \A g \in DOMAIN acked : g # fh => acked'[g] = acked[g]
           /\ nextFH' = nextFH /\ of' = of
<1>1. /\ DOMAIN fhs \subseteq 1 .. nextFH - 1 /\ fhs \in [DOMAIN fhs -> Handles]
      /\ acked \in [1 .. nextFH - 1 -> Contents]
  BY DEF Types, HandleTypes
<1>2. fh \in DOMAIN fhs /\ fh \in 1 .. nextFH - 1
  BY <1>1 DEF Usable
<1>3. PICK w : w = writes'
  OBVIOUS
<1>4. /\ fhs' = [fhs EXCEPT ![fh].buf = @ \cup {w}, ![fh].dirty = TRUE]
      /\ acked' = [acked EXCEPT ![fh] = @ \cup {w}] /\ nextFH' = nextFH /\ of' = of
  BY <1>3 DEF Write
<1>5. fhs[fh] \in Handles
  BY <1>1, <1>2
<1>6. /\ DOMAIN fhs' = DOMAIN fhs /\ \A g \in DOMAIN fhs : g # fh => fhs'[g] = fhs[g]
      /\ fhs'[fh].sha = fhs[fh].sha /\ fhs'[fh].branch = fhs[fh].branch
      /\ fhs'[fh].buf = fhs[fh].buf \cup {w} /\ fhs'[fh].dirty = TRUE
  BY <1>1, <1>2, <1>4, <1>5 DEF Handles
<1>7. /\ DOMAIN acked' = DOMAIN acked /\ acked'[fh] = acked[fh] \cup {w}
      /\ \A g \in DOMAIN acked : g # fh => acked'[g] = acked[g]
  BY <1>1, <1>2, <1>4
<1> QED
  BY <1>2, <1>3, <1>4, <1>6, <1>7

LEMMA AttachOne ==
    ASSUME Types, NEW fh \in Usable, NEW t \in 1 .. MaxTxns, AttachToTransaction(fh, t)
    PROVE  /\ fh \in DOMAIN fhs /\ fh \in 1 .. nextFH - 1 /\ DOMAIN fhs' = DOMAIN fhs
           /\ \A g \in DOMAIN fhs : g # fh => fhs'[g] = fhs[g]
           /\ fhs'[fh].sha = fhs[fh].sha /\ fhs'[fh].buf = fhs[fh].buf /\ fhs'[fh].dirty = fhs[fh].dirty
           /\ fhs'[fh].branch = IF t \in txns THEN t ELSE fhs[fh].branch
           /\ DOMAIN of' = DOMAIN of /\ of'[fh] = t
           /\ \A g \in DOMAIN of : g # fh => of'[g] = of[g]
           /\ nextFH' = nextFH /\ acked' = acked
<1>1. /\ DOMAIN fhs \subseteq 1 .. nextFH - 1 /\ fhs \in [DOMAIN fhs -> Handles]
      /\ of \in [1 .. nextFH - 1 -> 0 .. nextTxn - 1]
  BY DEF Types, HandleTypes
<1>2. fh \in DOMAIN fhs /\ fh \in 1 .. nextFH - 1 /\ fhs[fh] \in Handles
  BY <1>1 DEF Usable
<1>3. PICK b : b = IF t \in txns THEN t ELSE fhs[fh].branch
  OBVIOUS
<1>4. fhs' = [fhs EXCEPT ![fh].branch = b] /\ of' = [of EXCEPT ![fh] = t] /\ nextFH' = nextFH /\ acked' = acked
  BY <1>1, <1>2, <1>3 DEF AttachToTransaction
<1>5. /\ DOMAIN fhs' = DOMAIN fhs /\ \A g \in DOMAIN fhs : g # fh => fhs'[g] = fhs[g]
      /\ fhs'[fh].sha = fhs[fh].sha /\ fhs'[fh].buf = fhs[fh].buf /\ fhs'[fh].dirty = fhs[fh].dirty
      /\ fhs'[fh].branch = b
  BY <1>1, <1>2, <1>4 DEF Handles
<1>6. DOMAIN of' = DOMAIN of /\ of'[fh] = t /\ \A g \in DOMAIN of : g # fh => of'[g] = of[g]
  BY <1>1, <1>2, <1>4
<1> QED
  BY <1>2, <1>3, <1>4, <1>5, <1>6

LEMMA CreateOne ==
    ASSUME Types, NEW path, NEW found, Creates(path, found)
    PROVE  /\ nextFH \notin DOMAIN fhs /\ nextFH \notin DOMAIN acked /\ nextFH \notin DOMAIN of
           /\ DOMAIN fhs' = DOMAIN fhs \cup {nextFH} /\ DOMAIN acked' = DOMAIN acked \cup {nextFH}
           /\ DOMAIN of' = DOMAIN of \cup {nextFH}
           /\ \A g \in DOMAIN fhs : fhs'[g] = fhs[g]
           /\ \A g \in DOMAIN acked : acked'[g] = acked[g]
           /\ \A g \in DOMAIN of : of'[g] = of[g]
           /\ fhs'[nextFH].sha = found /\ fhs'[nextFH].buf = In(found) /\ fhs'[nextFH].dirty = FALSE
           /\ fhs'[nextFH].branch = Main
           /\ acked'[nextFH] = {} /\ of'[nextFH] = 0
<1>1. nextFH \notin 1 .. nextFH - 1
  BY DEF Types
<1>2. /\ DOMAIN fhs \subseteq 1 .. nextFH - 1 /\ DOMAIN acked = 1 .. nextFH - 1
      /\ DOMAIN of = 1 .. nextFH - 1
  BY DEF Types, HandleTypes
<1>3. nextFH \notin DOMAIN fhs /\ nextFH \notin DOMAIN acked /\ nextFH \notin DOMAIN of
  BY <1>1, <1>2
<1>4. /\ DOMAIN fhs' = DOMAIN fhs \cup {nextFH} /\ fhs'[nextFH] = NewHandle(path, found)
      /\ \A g \in DOMAIN fhs : fhs'[g] = fhs[g]
  BY <1>3 DEF Creates
<1>5. /\ DOMAIN acked' = DOMAIN acked \cup {nextFH} /\ acked'[nextFH] = {}
      /\ \A g \in DOMAIN acked : acked'[g] = acked[g]
  BY <1>3 DEF Creates
<1>6. /\ DOMAIN of' = DOMAIN of \cup {nextFH} /\ of'[nextFH] = 0
      /\ \A g \in DOMAIN of : of'[g] = of[g]
  BY <1>3 DEF Creates
<1> QED
  BY <1>3, <1>4, <1>5, <1>6 DEF NewHandle

LEMMA CloseSome ==
    ASSUME Closes
    PROVE  /\ DOMAIN fhs' \subseteq DOMAIN fhs /\ \A fh \in DOMAIN fhs' : fhs'[fh] = fhs[fh]
           /\ UNCHANGED <<nextFH, acked, of>>
<1>1. PICK S \in SUBSET DOMAIN fhs : fhs' = [fh \in S |-> fhs[fh]]
  BY DEF Closes, Keeps
<1> QED
  BY <1>1 DEF Closes

LEMMA ShaStep ==
    ASSUME Types, ShaHeld, [Next]_vars
    PROVE  ShaHeld'
<1>1. \A fh \in DOMAIN fhs' : In(fhs'[fh].sha) \subseteq fhs'[fh].buf
  <2>1. \A fh \in DOMAIN fhs : In(fhs[fh].sha) \subseteq fhs[fh].buf
    BY DEF ShaHeld
  <2>2. CASE Closes
    BY <2>1, <2>2, CloseSome
  <2>3. ASSUME NEW path, NEW found, Creates(path, found), NEW fh \in DOMAIN fhs'
        PROVE  In(fhs'[fh].sha) \subseteq fhs'[fh].buf
    <3>1. CASE fh = nextFH
      BY <2>3, <3>1, CreateOne
    <3>2. CASE fh # nextFH
      <4>1. DOMAIN fhs' = DOMAIN fhs \cup {nextFH} /\ \A g \in DOMAIN fhs : fhs'[g] = fhs[g]
        BY <2>3, CreateOne
      <4>2. fh \in DOMAIN fhs /\ fhs'[fh] = fhs[fh]
        BY <2>3, <3>2, <4>1
      <4> QED
        BY <2>1, <4>2
    <3> QED
      BY <3>1, <3>2
  <2>4. ASSUME NEW fh \in Usable, Write(fh)
        PROVE  \A g \in DOMAIN fhs' : In(fhs'[g].sha) \subseteq fhs'[g].buf
    <3>1. /\ DOMAIN fhs' = DOMAIN fhs /\ \A g \in DOMAIN fhs : g # fh => fhs'[g] = fhs[g]
          /\ fhs'[fh].sha = fhs[fh].sha /\ fhs'[fh].buf = fhs[fh].buf \cup {writes'}
      BY <2>4, WriteOne
    <3> QED
      BY <2>1, <3>1
  <2>5. ASSUME NEW fh \in Usable, NEW t \in 1 .. MaxTxns, AttachToTransaction(fh, t)
        PROVE  \A g \in DOMAIN fhs' : In(fhs'[g].sha) \subseteq fhs'[g].buf
    BY <2>1, <2>5, AttachOne
  <2> QED
    BY <2>2, <2>3, <2>4, <2>5, HandleMoves
<1>2. \A k \in Calls : PutsFile(task'[k]) => In(task'[k].req.sha) \subseteq task'[k].req.body
  <2>1. \A k \in Calls : PutsFile(task[k]) => In(task[k].req.sha) \subseteq task[k].req.body
    BY DEF ShaHeld
  <2>2. ASSUME NEW k \in Calls, NEW X, task' = [task EXCEPT ![k] = X],
               PutsFile(X) => In(X.req.sha) \subseteq X.req.body
        PROVE  \A j \in Calls : PutsFile(task'[j]) => In(task'[j].req.sha) \subseteq task'[j].req.body
    <3>1. task'[k] = X /\ \A j \in Calls : j # k => task'[j] = task[j]
      BY <2>2, TaskSet
    <3> QED
      BY <2>1, <2>2, <3>1
  <2>3. ASSUME NEW k \in Calls, Hub(k)
        PROVE  \A j \in Calls : PutsFile(task'[j]) => In(task'[j].req.sha) \subseteq task'[j].req.body
    <3>1. PICK X : Answer(k, X)
      BY <2>3, HubDoes
    <3>2. X.op = task[k].op /\ X.req = task[k].req /\ task' = [task EXCEPT ![k] = X]
      BY <3>1 DEF Answer
    <3> QED
      BY <2>1, <2>2, <3>2 DEF PutsFile
  <2>4. ASSUME NEW k \in Calls, Finish(k)
        PROVE  \A j \in Calls : PutsFile(task'[j]) => In(task'[j].req.sha) \subseteq task'[j].req.body
    BY <2>2, <2>4 DEF Finish, Idle, PutsFile
  <2>5. ASSUME NEW k \in Calls, NEW X, Sends(k, X)
        PROVE  \A j \in Calls : PutsFile(task'[j]) => In(task'[j].req.sha) \subseteq task'[j].req.body
    <3>1. ASSUME NEW fh \in DOMAIN fhs, SendsCommit(X, fh)
          PROVE  In(X.req.sha) \subseteq X.req.body
      BY <3>1 DEF SendsCommit, CommitRequest, WriteFile, ShaHeld
    <3>2. (~ SendsCopy(task[k], X) /\ ~ SendsCleanup(task[k], X) /\ ~ SendsOther(X)) \/ ~ PutsFile(X)
      BY DEF SendsCopy, SendsCleanup, SendsOther, PutsFile
    <3> QED
      BY <2>2, <2>5, <3>1, <3>2 DEF Sends
  <2> QED
    BY <2>1, <2>3, <2>4, <2>5, CallMoves
<1> QED
  BY <1>1, <1>2 DEF ShaHeld, PutsFile

LEMMA RenameStep ==
    ASSUME Types, Known, RenameOK, [Next]_vars
    PROVE  RenameOK'
<1> DEFINE Good(T) == /\ In(T.arg.content) \subseteq onMain'
                      /\ T.req.do = "put" => T.req = RenameCopy(T.arg) /\ T.arg.content # None
                      /\ T.req.do = "delete" => T.req = RenameCleanup(T.arg)
<1>1. ASSUME NEW k \in Calls, task[k].op = "rename"  PROVE Good(task[k])
  BY <1>1, MainSeen DEF RenameOK
<1>2. ASSUME NEW k \in Calls, NEW X, task' = [task EXCEPT ![k] = X], X.op = "rename" => Good(X)
      PROVE  RenameOK'
  <2>1. task'[k] = X /\ \A j \in Calls : j # k => task'[j] = task[j]
    BY <1>2, TaskSet
  <2>2. ASSUME NEW j \in Calls, task'[j].op = "rename"  PROVE Good(task'[j])
    BY <1>1, <1>2, <2>1, <2>2
  <2> QED
    BY <2>2 DEF RenameOK
<1>3. CASE UNCHANGED task
  BY <1>1, <1>3 DEF RenameOK
<1>4. ASSUME NEW k \in Calls, Hub(k)  PROVE RenameOK'
  <2>1. PICK X : Answer(k, X)
    BY <1>4, HubDoes
  <2>2. X.op = task[k].op /\ X.req = task[k].req /\ X.arg = task[k].arg /\ task' = [task EXCEPT ![k] = X]
    BY <2>1 DEF Answer
  <2> QED
    BY <1>1, <1>2, <2>2
<1>5. ASSUME NEW k \in Calls, Finish(k)  PROVE RenameOK'
  BY <1>2, <1>5 DEF Finish, Idle
<1>6. ASSUME NEW k \in Calls, NEW X, Sends(k, X)  PROVE RenameOK'
  <2>1. ASSUME X.op = "rename"  PROVE Good(X)
    <3>1. CASE SendsCopy(task[k], X)
      <4>1. In(X.arg.content) \subseteq onMain'
        BY <3>1, MainSeen DEF SendsCopy, Known, Live
      <4> QED
        BY <3>1, <4>1 DEF SendsCopy, RenameCopy, WriteFile
    <3>2. CASE SendsCleanup(task[k], X)
      <4>1. In(X.arg.content) \subseteq onMain'
        BY <1>1, <3>2 DEF SendsCleanup
      <4> QED
        BY <3>2, <4>1 DEF SendsCleanup, RenameCleanup, DeleteFile
    <3>3. CASE SendsOther(X)
      BY <2>1, <3>3 DEF SendsOther, In
    <3>4. ASSUME NEW fh, SendsCommit(X, fh)  PROVE FALSE
      BY <2>1, <3>4 DEF SendsCommit
    <3> QED
      BY <1>6, <3>1, <3>2, <3>3, <3>4 DEF Sends
  <2> QED
    BY <1>2, <1>6, <2>1 DEF Sends
<1> QED
  BY <1>3, <1>4, <1>5, <1>6, CallMoves

LEMMA ExtendsStep ==
    ASSUME Types, Extends, ShaHeld, RenameOK, [Next]_vars
    PROVE  Extends'
<1>1. \A t \in DOMAIN repo \ {Main} : \A p \in Paths : In(base[t][p]) \subseteq In(repo[t][p])
  BY DEF Extends
<1>2. /\ repo \in [DOMAIN repo -> Trees] /\ base \in [DOMAIN repo -> Trees]
      /\ \A t \in 1 .. nextTxn - 1 : t # Main
  BY DEF Types, HubTypes, Main
<1>3. ASSUME DOMAIN repo' \subseteq DOMAIN repo,
             \A t \in DOMAIN repo' \ {Main} : repo'[t] = repo[t] /\ base'[t] = base[t]
      PROVE  Extends'
  BY <1>1, <1>3 DEF Extends
<1>4. ASSUME UNCHANGED <<repo, base>>  PROVE Extends'
  BY <1>3, <1>4
<1>5. ASSUME NEW k \in Calls, Hub(k)  PROVE Extends'
  <2>1. Suspended(task[k])
    BY <1>5, HubDoes
  <2>2. CASE Ignored \/ Gets(k)
    <3>1. UNCHANGED <<repo, base>>
      BY <2>2 DEF Ignored, Gets
    <3> QED
      BY <1>4, <3>1
  <2>3. CASE Puts(k)
    <3>1. PICK r : r = task[k].req
      OBVIOUS
    <3>2. /\ r.branch \in DOMAIN repo /\ repo[r.branch][r.path] = r.sha /\ r.path \in Paths
          /\ repo' = [repo EXCEPT ![r.branch] = [repo[r.branch] EXCEPT ![r.path] = r.body]]
          /\ base' = base /\ r.do = "put"
      BY <2>3, <3>1 DEF Puts, IsPut
    <3>3. DOMAIN repo' = DOMAIN repo /\ \A b \in DOMAIN repo : b # r.branch => repo'[b] = repo[b]
      BY <1>2, <3>2
    <3>4. CASE r.branch = Main
      BY <1>3, <3>2, <3>3, <3>4
    <3>5. CASE r.branch # Main
      <4>1. PutsFile(task[k])
        <5>1. task[k].op # "rename"
          <6>1. RenameCopy(task[k].arg).branch = Main
            BY DEF RenameCopy, WriteFile
          <6> QED
            BY <3>1, <3>2, <3>5, <6>1 DEF RenameOK
        <5> QED
          BY <2>1, <3>1, <3>2, <5>1, Roles DEF PutsFile
      <4>2. In(r.sha) \subseteq r.body
        BY <3>1, <4>1 DEF ShaHeld
      <4>3. /\ repo'[r.branch][r.path] = r.body
            /\ \A p \in Paths : p # r.path => repo'[r.branch][p] = repo[r.branch][p]
        BY <1>2, <3>2 DEF Trees
      <4>4. r.body = In(r.body)
        <5>1. r.body \in Contents
          BY <2>3, <3>1 DEF Puts, IsPut
        <5>2. writes \in 0 .. MaxWrites
          BY DEF Types
        <5> QED
          BY <5>1, <5>2, ContentIsSome DEF In
      <4>5. \A p \in Paths : In(repo[r.branch][p]) \subseteq In(repo'[r.branch][p])
        BY <3>2, <4>2, <4>3, <4>4
      <4>6. ASSUME NEW t \in DOMAIN repo' \ {Main}, NEW p \in Paths
            PROVE  In(base'[t][p]) \subseteq In(repo'[t][p])
        BY <1>1, <3>2, <3>3, <4>5
      <4> QED
        BY <4>6 DEF Extends
    <3> QED
      BY <3>4, <3>5
  <2>4. CASE Deletes(k)
    <3>1. DOMAIN repo' = DOMAIN repo /\ \A b \in DOMAIN repo \ {Main} : repo'[b] = repo[b]
      BY <2>4 DEF Deletes
    <3>2. base' = base
      BY <2>4 DEF Deletes
    <3> QED
      BY <1>3, <3>1, <3>2
  <2>5. CASE Merges(k)
    <3>1. PICK t \in DOMAIN repo \ {Main} : /\ repo' = [repo EXCEPT ![Main] = [p \in Paths |-> Joined(t, p)]]
                                            /\ base' = [base EXCEPT ![t] = repo[t]]
      BY <1>2, <2>5 DEF Merges
    <3>2. DOMAIN repo' = DOMAIN repo /\ \A b \in DOMAIN repo \ {Main} : repo'[b] = repo[b]
      BY <3>1
    <3>3. base'[t] = repo[t] /\ \A b \in DOMAIN repo : b # t => base'[b] = base[b]
      BY <1>2, <3>1
    <3>4. ASSUME NEW b \in DOMAIN repo' \ {Main}, NEW p \in Paths
          PROVE  In(base'[b][p]) \subseteq In(repo'[b][p])
      BY <1>1, <3>2, <3>3
    <3> QED
      BY <3>4 DEF Extends
  <2>6. CASE Drops(k)
    <3>1. /\ DOMAIN repo' \subseteq DOMAIN repo
          /\ \A b \in DOMAIN repo' \ {Main} : repo'[b] = repo[b] /\ base'[b] = base[b]
      BY <2>6 DEF Drops
    <3> QED
      BY <1>3, <3>1
  <2> QED
    BY <1>5, <2>2, <2>3, <2>4, <2>5, <2>6, HubDoes DEF Effect
<1>6. ASSUME NEW t, CreateBranchPosts(t)  PROVE Extends'
  <2>1. /\ DOMAIN repo' = DOMAIN repo \cup {t} /\ repo'[t] = birth[t] /\ base'[t] = birth[t]
        /\ \A b \in DOMAIN repo : b # t => repo'[b] = repo[b]
        /\ \A b \in DOMAIN repo : b # t => base'[b] = base[b]
    BY <1>2, <1>6 DEF CreateBranchPosts
  <2>2. ASSUME NEW b \in DOMAIN repo' \ {Main}, NEW p \in Paths
        PROVE  In(base'[b][p]) \subseteq In(repo'[b][p])
    <3>1. CASE b = t
      BY <2>1, <3>1
    <3>2. CASE b # t
      BY <1>1, <2>1, <3>2
    <3> QED
      BY <3>1, <3>2
  <2> QED
    BY <2>2 DEF Extends
<1>7. ASSUME NEW t, CreateBranchReads(t) \/ CreateBranchFails(t) \/ Begin
                    \/ UNCHANGED <<hub, kept, onMain, merged>>
      PROVE  UNCHANGED <<repo, base>>
  BY <1>7 DEF CreateBranchReads, CreateBranchFails, Begin, hub
<1> QED
  BY <1>4, <1>5, <1>6, <1>7, HubChanges

(***************************************************************************)
(* Committed data stays: copies and the renames that clean up.             *)
(***************************************************************************)

LEMMA CallsAndPathsFinite ==
    /\ \A S \in SUBSET Calls : IsFiniteSet(S) /\ Cardinality(S) \in Nat
    /\ \A S \in SUBSET Paths : IsFiniteSet(S) /\ Cardinality(S) \in Nat
<1>1. IsFiniteSet(Calls) /\ IsFiniteSet(Paths)
  BY ParametersAssumption
<1> QED
  BY <1>1, FS_Subset, FS_CardinalityType

LEMMA FewerCleanups ==
    ASSUME NEW A \in SUBSET Calls, NEW A2 \in SUBSET A, NEW B \in SUBSET Paths, NEW B2 \in SUBSET Paths,
           B \subseteq B2, Cardinality(A) < Cardinality(B)
    PROVE  Cardinality(A2) < Cardinality(B2)
<1>1. Cardinality(A2) <= Cardinality(A) /\ Cardinality(B) <= Cardinality(B2)
  BY CallsAndPathsFinite, FS_Subset
<1>2. /\ Cardinality(A) \in Nat /\ Cardinality(A2) \in Nat
      /\ Cardinality(B) \in Nat /\ Cardinality(B2) \in Nat
  BY CallsAndPathsFinite
<1> QED
  BY <1>1, <1>2

\* A rename makes its copy, and has one to delete.
LEMMA OneMoreCopy ==
    ASSUME NEW A \in SUBSET Calls, NEW k \in Calls, NEW A2 \in SUBSET (A \cup {k}),
           NEW B \in SUBSET Paths, NEW p \in Paths \ B, Cardinality(A) < Cardinality(B)
    PROVE  Cardinality(A2) < Cardinality(B \cup {p})
<1>1. IsFiniteSet(A) /\ IsFiniteSet(B) /\ IsFiniteSet(A \cup {k})
  BY CallsAndPathsFinite
<1>2. Cardinality(B \cup {p}) = Cardinality(B) + 1
  BY <1>1, FS_AddElement
<1>3. Cardinality(A \cup {k}) = Cardinality(A) \/ Cardinality(A \cup {k}) = Cardinality(A) + 1
  BY <1>1, FS_AddElement
<1>4. Cardinality(A2) <= Cardinality(A \cup {k})
  BY <1>1, FS_Subset
<1>5. Cardinality(A) \in Nat /\ Cardinality(A2) \in Nat /\ Cardinality(B) \in Nat
  BY CallsAndPathsFinite
<1> QED
  BY <1>2, <1>3, <1>4, <1>5

\* A rename deletes a copy, and has no more to delete.
LEMMA OneLessCopy ==
    ASSUME NEW A \in SUBSET Calls, NEW k \in A, NEW B \in SUBSET Paths, NEW p \in B,
           Cardinality(A) < Cardinality(B)
    PROVE  Cardinality(A \ {k}) < Cardinality(B \ {p})
<1>1. IsFiniteSet(A) /\ IsFiniteSet(B)
  BY CallsAndPathsFinite
<1>2. Cardinality(A \ {k}) = Cardinality(A) - 1 /\ Cardinality(B \ {p}) = Cardinality(B) - 1
  BY <1>1, FS_RemoveElement
<1>3. Cardinality(A) \in Nat /\ Cardinality(B) \in Nat
  BY CallsAndPathsFinite
<1> QED
  BY <1>2, <1>3

LEMMA GoneGrows ==
    ASSUME Types, [Next]_vars
    PROVE  gone \subseteq gone'
<1>1. ASSUME NEW k \in Calls, Hub(k)  PROVE gone \subseteq gone'
  BY <1>1, HubDoes DEF Effect, Ignored, Gets, Puts, Deletes, Merges, Drops
<1>2. ASSUME NEW k, NEW t, Abort(k, t)  PROVE gone \subseteq gone'
  BY <1>2 DEF Abort
<1>3. ASSUME NEW k, \/ Throws(k) \/ OpenAnswered(k) \/ Closed(k) \/ DeleteGoesOn(k) \/ RenameGoesOn(k)
                    \/ EndGoesOn(k) \/ Over(k)
      PROVE  gone' = gone
  BY <1>3 DEF Throws, OpenAnswered, Closed, DeleteGoesOn, RenameGoesOn, EndGoesOn, Over, history
<1>4. ASSUME NEW k, NEW op, NEW path, NEW to, NEW fh,
             \/ Opened(k, op) \/ Open(k, op, path) \/ Delete(k, path) \/ Rename(k, path, to) \/ Close(k, fh)
      PROVE  gone' = gone
  BY <1>4 DEF Opened, Open, Delete, Rename, Close, history
<1>5. ASSUME NEW k, NEW t, NEW fh,
             End(k, t) \/ AttachToTransaction(fh, t) \/ Write(fh) \/ UNCHANGED vars
      PROVE  gone' = gone
  BY <1>5 DEF End, AttachToTransaction, Write, vars, history
<1>6. ASSUME NEW t, CreateBranchReads(t) \/ CreateBranchPosts(t) \/ CreateBranchFails(t) \/ Begin
      PROVE  gone' = gone
  BY <1>6 DEF CreateBranchReads, CreateBranchPosts, CreateBranchFails, Begin, history
<1> QED
  BY <1>1, <1>2, <1>3, <1>4, <1>5, <1>6, Zenon DEF Next

\* When nobody hears from GitHub, main stays as it is.
LEMMA MainStays ==
    ASSUME Types, [Next]_vars, \A k \in Calls : ~ Hub(k)
    PROVE  repo'[Main] = repo[Main] /\ onMain' = onMain
<1>1. ASSUME NEW t, CreateBranchPosts(t)  PROVE repo'[Main] = repo[Main] /\ onMain' = onMain
  <2>1. t # Main
    BY <1>1 DEF CreateBranchPosts, Types, HubTypes
  <2> QED
    BY <1>1, <2>1 DEF CreateBranchPosts, history, Types, HubTypes
<1>2. ASSUME NEW t, CreateBranchReads(t) \/ CreateBranchFails(t) \/ Begin
      PROVE  repo'[Main] = repo[Main] /\ onMain' = onMain
  BY <1>2 DEF CreateBranchReads, CreateBranchFails, Begin, history
<1>3. ASSUME UNCHANGED <<hub, kept, onMain, merged>>  PROVE repo'[Main] = repo[Main] /\ onMain' = onMain
  BY <1>3 DEF hub
<1> QED
  BY <1>1, <1>2, <1>3, HubChanges

LEMMA CopiesStep ==
    ASSUME Types, Known, Extends, ShaHeld, RenameOK, CopiesLeft, [Next]_vars
    PROVE  CopiesLeft'
<1>1. SUFFICES ASSUME NEW w \in onMain' \ gone'
               PROVE  Cardinality(Cleanups(w)') < Cardinality(Copies(w)')
  BY DEF CopiesLeft
<1>2. PICK A, A2, B, B2 : A = Cleanups(w) /\ A2 = Cleanups(w)' /\ B = Copies(w) /\ B2 = Copies(w)'
  OBVIOUS
<1>3. /\ A \in SUBSET Calls /\ A2 \in SUBSET Calls /\ B \in SUBSET Paths /\ B2 \in SUBSET Paths
      /\ \A k \in Calls : (k \in A <=> MustClean(task[k], w)) /\ (k \in A2 <=> MustClean(task'[k], w))
      /\ \A p \in Paths : (p \in B <=> w \in In(repo[Main][p])) /\ (p \in B2 <=> w \in In(repo'[Main][p]))
  BY <1>2 DEF Cleanups, Copies, MustClean
<1>4. w \notin gone /\ (w \in onMain => Cardinality(A) < Cardinality(B))
  BY <1>1, <1>2, GoneGrows DEF CopiesLeft
<1>5. w \notin onMain => A = {}
  BY <1>3 DEF MustClean, RenameOK
<1>6. ASSUME A2 \subseteq A, B \subseteq B2, w \in onMain \/ B2 # {}
      PROVE  Cardinality(A2) < Cardinality(B2)
  <2>1. CASE w \in onMain
    BY <1>3, <1>4, <1>6, <2>1, FewerCleanups
  <2>2. CASE w \notin onMain
    <3>1. A2 = {} /\ B2 # {}
      BY <1>5, <1>6, <2>2
    <3>2. Cardinality(A2) = 0 /\ Cardinality(B2) # 0 /\ Cardinality(B2) \in Nat
      BY <1>3, <3>1, CallsAndPathsFinite, FS_EmptySet
    <3> QED
      BY <3>2
  <2> QED
    BY <2>1, <2>2
<1>7. ASSUME \A k \in Calls : ~ Hub(k)  PROVE Cardinality(A2) < Cardinality(B2)
  <2>1. B2 = B /\ w \in onMain
    BY <1>1, <1>3, <1>7, MainStays
  <2>2. ASSUME NEW k \in Calls, NEW X, task' = [task EXCEPT ![k] = X],
               MustClean(X, w) => MustClean(task[k], w)
        PROVE  A2 \subseteq A
    BY <1>3, <2>2, TaskSet
  <2>3. ASSUME NEW k \in Calls, Finish(k)  PROVE A2 \subseteq A
    BY <2>2, <2>3 DEF Finish, Idle, MustClean
  <2>4. ASSUME NEW k \in Calls, NEW X, Sends(k, X)  PROVE A2 \subseteq A
    <3>1. MustClean(X, w) => MustClean(task[k], w)
      <4>1. SUFFICES ASSUME MustClean(X, w)  PROVE MustClean(task[k], w)
        OBVIOUS
      <4>2. X.op = "rename" /\ X.req.do = "delete" /\ w \in In(X.arg.content)
        BY <2>4, <4>1 DEF Sends, MustClean
      <4>3. ~ SendsCopy(task[k], X)
        BY <4>2 DEF SendsCopy, RenameCopy, WriteFile
      <4>4. ~ SendsOther(X) /\ \A fh : ~ SendsCommit(X, fh)
        BY <4>2 DEF SendsOther, SendsCommit
      <4>5. SendsCleanup(task[k], X)
        BY <2>4, <4>3, <4>4 DEF Sends
      <4> QED
        BY <4>2, <4>5 DEF SendsCleanup, MustClean
    <3> QED
      BY <2>2, <2>4, <3>1 DEF Sends
  <2>5. CASE UNCHANGED task
    BY <1>3, <1>6, <2>1, <2>5
  <2> QED
    BY <1>6, <1>7, <2>1, <2>3, <2>4, <2>5, CallMoves
<1>8. ASSUME NEW k \in Calls, Hub(k)  PROVE Cardinality(A2) < Cardinality(B2)
  <2>1. Suspended(task[k]) /\ task[k].at = "sent"
    BY <1>8, HubDoes
  <2>2. PICK X : Answer(k, X) /\ Effect(k, X)
    BY <1>8, HubDoes
  <2>3. /\ X.op = task[k].op /\ X.req = task[k].req /\ X.arg = task[k].arg /\ X.at \in {"ok", "error"}
        /\ task'[k] = X /\ \A j \in Calls : j # k => task'[j] = task[j]
    BY <2>2, TaskSet DEF Answer
  <2>4. /\ \A j \in Calls \ {k} : j \in A2 <=> j \in A
        /\ k \in A2 => /\ task[k].op = "rename" /\ task[k].req.do = "put" /\ X.at = "ok"
                       /\ w \in In(task[k].arg.content)
        /\ k \in A <=> /\ task[k].op = "rename" /\ task[k].req.do = "delete"
                       /\ w \in In(task[k].arg.content)
    BY <1>3, <2>1, <2>3 DEF MustClean
  <2>5. PICK r : r = task[k].req
    OBVIOUS
  <2>6. w \in onMain \/ B2 # {}
    <3>1. onMain' = onMain \/ Seen
      BY <2>2 DEF Effect, Ignored, Gets, Puts, Deletes, Merges, Drops
    <3> QED
      BY <1>1, <1>3, <3>1 DEF Seen
  <2>7. CASE (X.at = "error" /\ Ignored) \/ Gets(k) \/ Drops(k)
    <3>1. A2 \subseteq A
      BY <1>3, <2>4, <2>7 DEF Gets, Drops
    <3>2. repo'[Main] = repo[Main]
      <4>1. CASE Ignored \/ Gets(k)
        BY <4>1 DEF Ignored, Gets
      <4>2. CASE Drops(k)
        <5>1. PICK t \in 1 .. nextTxn - 1 : repo' = [b \in DOMAIN repo \ {t} |-> repo[b]]
          BY <4>2 DEF Drops
        <5>2. Main \in DOMAIN repo \ {t}
          BY DEF Types, HubTypes, Main
        <5> QED
          BY <5>1, <5>2
      <4> QED
        BY <2>7, <4>1, <4>2
    <3> QED
      BY <1>3, <1>6, <2>6, <3>1, <3>2
  <2>8. CASE Merges(k)
    <3>1. A2 \subseteq A
      BY <1>3, <2>4, <2>8 DEF Merges
    <3>2. B \subseteq B2
      BY <1>3, <2>8, MergeAdds
    <3> QED
      BY <1>6, <2>6, <3>1, <3>2
  <2>9. CASE Puts(k)
    <3>1. /\ r.do = "put" /\ r.branch \in DOMAIN repo /\ repo[r.branch][r.path] = r.sha /\ r.path \in Paths
          /\ repo' = [repo EXCEPT ![r.branch] = [repo[r.branch] EXCEPT ![r.path] = r.body]]
          /\ r.body \in Contents
      BY <2>5, <2>9 DEF Puts, IsPut
    <3>2. r.body = In(r.body)
      <4>1. writes \in 0 .. MaxWrites
        BY DEF Types
      <4> QED
        BY <3>1, <4>1, ContentIsSome DEF In
    <3>3. repo \in [DOMAIN repo -> Trees] /\ Main \in DOMAIN repo
      BY DEF Types, HubTypes
    <3>4. ASSUME r.branch = Main
          PROVE  repo'[Main][r.path] = r.body /\ \A p \in Paths : p # r.path => repo'[Main][p] = repo[Main][p]
      BY <3>1, <3>3, <3>4 DEF Trees
    <3>5. CASE task[k].op = "rename"
      <4>1. r.branch = Main /\ r.sha = None /\ r.body = task[k].arg.content
        <5>1. r = RenameCopy(task[k].arg)
          BY <2>5, <3>1, <3>5 DEF RenameOK
        <5> QED
          BY <5>1 DEF RenameCopy, WriteFile
      <4>2. r.path \notin B
        BY <1>3, <3>1, <4>1 DEF In
      <4>3. CASE w \in r.body
        <5>1. A2 \subseteq A \cup {k} /\ B2 = B \cup {r.path}
          BY <1>3, <2>4, <3>1, <3>2, <3>4, <4>1, <4>3
        <5>2. w \in onMain
          BY <3>2, <3>5, <4>1, <4>3 DEF RenameOK
        <5> QED
          BY <1>3, <1>4, <3>1, <4>2, <5>1, <5>2, OneMoreCopy
      <4>4. CASE w \notin r.body
        <5>1. A2 \subseteq A
          BY <1>3, <2>4, <3>2, <4>1, <4>4
        <5>2. B \subseteq B2
          BY <1>3, <3>1, <3>4, <4>1, <4>2
        <5> QED
          BY <1>6, <2>6, <5>1, <5>2
      <4> QED
        BY <4>3, <4>4
    <3>6. CASE task[k].op # "rename"
      <4>1. A2 \subseteq A
        BY <1>3, <2>4, <3>6
      <4>2. In(r.sha) \subseteq r.body
        <5>1. PutsFile(task[k])
          BY <2>1, <2>5, <3>1, <3>6, Roles DEF PutsFile
        <5> QED
          BY <2>5, <5>1 DEF ShaHeld
      <4>3. B \subseteq B2
        <5>1. CASE r.branch = Main
          BY <1>3, <3>1, <3>2, <3>4, <4>2, <5>1
        <5>2. CASE r.branch # Main
          <6>1. repo'[Main] = repo[Main]
            BY <3>1, <3>3, <5>2
          <6> QED
            BY <1>3, <6>1
        <5> QED
          BY <5>1, <5>2
      <4> QED
        BY <1>6, <2>6, <4>1, <4>3
    <3> QED
      BY <3>5, <3>6
  <2>10. CASE Deletes(k)
    <3>1. /\ r.do = "delete" /\ r.path \in Paths /\ r.sha # None /\ repo[Main][r.path] = r.sha
          /\ repo' = [repo EXCEPT ![Main] = [repo[Main] EXCEPT ![r.path] = None]]
          /\ gone' = IF task[k].op = "delete" THEN gone \cup r.sha ELSE gone
      BY <2>5, <2>10 DEF Deletes, IsDelete
    <3>2. r.sha = In(r.sha)
      BY <3>1 DEF In
    <3>3. repo'[Main][r.path] = None /\ \A p \in Paths : p # r.path => repo'[Main][p] = repo[Main][p]
      BY <3>1 DEF Types, HubTypes, Trees
    <3>4. A2 = A \ {k}
      BY <1>3, <2>4, <2>5, <3>1
    <3>5. B2 = B \ {r.path}
      BY <1>3, <3>1, <3>3 DEF In
    <3>6. CASE w \notin r.sha
      <4>1. A2 \subseteq A /\ B \subseteq B2
        BY <1>3, <3>1, <3>2, <3>4, <3>5, <3>6
      <4> QED
        BY <1>6, <2>6, <4>1
    <3>7. CASE w \in r.sha
      <4>1. task[k].op = "rename"
        BY <1>1, <2>1, <2>5, <3>1, <3>7, Roles
      <4>2. r.sha = task[k].arg.content
        <5>1. r = RenameCleanup(task[k].arg)
          BY <2>5, <3>1, <4>1 DEF RenameOK
        <5> QED
          BY <5>1 DEF RenameCleanup, DeleteFile
      <4>3. k \in A /\ r.path \in B
        BY <1>3, <2>4, <2>5, <3>1, <3>2, <3>7, <4>1, <4>2
      <4>4. w \in onMain
        BY <3>2, <3>7, <4>1, <4>2 DEF RenameOK
      <4> QED
        BY <1>3, <1>4, <3>4, <3>5, <4>3, <4>4, OneLessCopy
    <3> QED
      BY <3>6, <3>7
  <2> QED
    BY <2>2, <2>7, <2>8, <2>9, <2>10 DEF Effect
<1> QED
  BY <1>2, <1>7, <1>8

DataInv == Types /\ Known /\ Extends /\ ShaHeld /\ RenameOK /\ CopiesLeft

LEMMA DataStart == Init => DataInv
<1> SUFFICES ASSUME Init PROVE DataInv
  OBVIOUS
<1>1. \A p \in Paths : repo[Main][p] = None /\ base[Main][p] = None
  BY DEF Init, Clear
<1>2. DOMAIN repo = {Main} /\ DOMAIN birth = {} /\ DOMAIN fhs = {} /\ onMain = {}
  BY DEF Init
<1>3. \A k \in Calls : task[k].op = "idle"
  BY DEF Init, Idle
<1>4. Known
  BY <1>1, <1>2, <1>3 DEF Known, Live, Tree, In
<1>5. Extends /\ ShaHeld /\ RenameOK /\ CopiesLeft
  BY <1>2, <1>3 DEF Extends, ShaHeld, RenameOK, CopiesLeft, PutsFile
<1> QED
  BY <1>4, <1>5, TypesStart DEF DataInv

LEMMA DataHolds == Spec => []DataInv
<1>1. DataInv /\ [Next]_vars => DataInv'
  BY TypesStep, KnownStep, ExtendsStep, ShaStep, RenameStep, CopiesStep DEF DataInv
<1> QED
  BY <1>1, DataStart, PTL DEF Spec

\* What was once on main stays there until a program deletes the file: neither
\* closeFile nor a renameFile that stops half-way nor the merge of
\* endTransaction takes away what another program committed in the meantime.
\* There is always one copy more than there are renames about to delete one.
THEOREM Survives == Spec => []CommittedSurvives
<1>1. DataInv => CommittedSurvives
  <2> SUFFICES ASSUME DataInv, NEW w \in onMain \ gone  PROVE w \in Tree(Main)
    BY DEF CommittedSurvives
  <2>1. Cardinality(Cleanups(w)) < Cardinality(Copies(w))
    BY DEF DataInv, CopiesLeft
  <2>2. Cleanups(w) \in SUBSET Calls /\ Copies(w) \in SUBSET Paths
    BY DEF Cleanups, Copies
  <2>3. Cardinality(Cleanups(w)) \in Nat /\ IsFiniteSet(Copies(w)) /\ Cardinality(Copies(w)) \in Nat
    BY <2>2, CallsAndPathsFinite
  <2>4. Copies(w) # {}
    BY <2>1, <2>3, FS_EmptySet
  <2> QED
    BY <2>4 DEF Copies, Tree
<1> QED
  BY <1>1, DataHolds, PTL

-----------------------------------------------------------------------------
(***************************************************************************)
(* Transactions: which call ends or aborts which.                          *)
(***************************************************************************)

SameEnds ==
    \A j \in Calls : Ends(task'[j]) =>
        task[j].op = task'[j].op /\ task[j].arg.txn = task'[j].arg.txn

EndThrows(k) ==
    /\ task[k].op = "end" /\ Finish(k)
    /\ over' = [over EXCEPT ![task[k].arg.txn] = "open"] /\ UNCHANGED <<txns, nextTxn>>

LEMMA TxnMoves ==
    ASSUME Types, [Next]_vars
    PROVE  \/ SameEnds /\ UNCHANGED <<txns, over, nextTxn>>
           \/ SameEnds /\ Begin
           \/ \E k \in Calls : EndThrows(k)
           \/ \E k \in Calls, t \in 1 .. MaxTxns : End(k, t) \/ Abort(k, t)
           \/ \E k \in Calls : Over(k)
<1> DEFINE Still == SameEnds /\ UNCHANGED <<txns, over, nextTxn>>
<1>1. ASSUME UNCHANGED task  PROVE SameEnds
  BY <1>1 DEF SameEnds
<1>2. ASSUME NEW k \in Calls, NEW X, task' = [task EXCEPT ![k] = X],
             Ends(X) => task[k].op = X.op /\ task[k].arg.txn = X.arg.txn
      PROVE  SameEnds
  <2>1. task'[k] = X /\ \A j \in Calls : j # k => task'[j] = task[j]
    BY <1>2, TaskSet
  <2> QED
    BY <1>2, <2>1 DEF SameEnds
<1>3. ASSUME NEW k \in Calls, Finish(k)  PROVE SameEnds
  BY <1>2, <1>3 DEF Finish, Idle, Ends
<1>4. ASSUME NEW k \in Calls, NEW op, NEW req, NEW arg, Suspend(k, op, req, arg), op \notin {"end", "abort"}
      PROVE  SameEnds
  <2>1. PICK X : task' = [task EXCEPT ![k] = X] /\ X.op = op
    <3>1. Suspend(k, op, req, arg)
      BY <1>4
    <3> QED
      BY <3>1, SuspendSends
  <2> QED
    BY <1>2, <1>4, <2>1 DEF Ends
<1>5. ASSUME NEW k \in Calls, Hub(k)  PROVE Still
  <2>1. PICK X : Answer(k, X)
    BY <1>5, HubDoes
  <2>2. SameEnds
    BY <1>2, <2>1 DEF Answer
  <2> QED
    BY <1>5, <2>2 DEF Hub, volume
<1>6. ASSUME NEW k \in Calls, OpenAnswered(k) \/ Closed(k)  PROVE Still
  BY <1>3, <1>6 DEF OpenAnswered, Closed, volume, history
<1>7. ASSUME NEW k \in Calls, Throws(k)  PROVE Still \/ EndThrows(k)
  <2>1. Finish(k)
    BY <1>7 DEF Throws
  <2> QED
    BY <1>3, <1>7, <2>1 DEF Throws, EndThrows, volume
<1>8. ASSUME NEW k \in Calls, NEW path, NEW op \in {"open", "create"}, NEW to,
             Open(k, op, path) \/ Opened(k, op) \/ Delete(k, path) \/ Rename(k, path, to)
      PROVE  Still
  <2>1. UNCHANGED <<txns, over, nextTxn>>
    BY <1>8 DEF Open, Opened, Delete, Rename, volume, history
  <2>2. SameEnds
    <3>1. \/ Finish(k)
          \/ \E req, arg : \/ Suspend(k, op, req, arg) \/ Suspend(k, "delete", req, arg)
                           \/ Suspend(k, "rename", req, arg)
      BY <1>8 DEF Open, Opened, Delete, Rename
    <3> QED
      BY <1>3, <1>4, <3>1
  <2> QED
    BY <2>1, <2>2
<1>9. ASSUME NEW k \in Calls, DeleteGoesOn(k) \/ RenameGoesOn(k)  PROVE Still
  <2>1. UNCHANGED <<txns, over, nextTxn>>
    BY <1>9 DEF DeleteGoesOn, RenameGoesOn, volume, history
  <2>2. \/ Finish(k)
        \/ \E req, arg : Suspend(k, "delete", req, arg) \/ Suspend(k, "rename", req, arg)
    BY <1>9 DEF DeleteGoesOn, RenameGoesOn
  <2> QED
    BY <1>3, <1>4, <2>1, <2>2
<1>10. ASSUME NEW k \in Calls, NEW fh, Close(k, fh)  PROVE Still
  <2>1. UNCHANGED <<txns, over, nextTxn>>
    BY <1>10 DEF Close, history
  <2>2. UNCHANGED task \/ Suspend(k, "close", CommitRequest(fhs[fh]), fh)
    BY <1>10 DEF Close
  <2> QED
    BY <1>1, <1>4, <2>1, <2>2
<1>11. ASSUME NEW k \in Calls, EndGoesOn(k)  PROVE Still
  <2>1. UNCHANGED <<txns, over, nextTxn>>
    BY <1>11 DEF EndGoesOn, volume, history
  <2>2. task[k].op = "end"
    BY <1>11 DEF EndGoesOn, Resumes
  <2>3. \E req, arg : Suspend(k, "end", req, arg) /\ arg.txn = task[k].arg.txn
    <3>1. CASE \E last, handles : FlushFrom(k, task[k].arg.txn, last, handles)
      BY <3>1 DEF FlushFrom
    <3>2. CASE Suspend(k, "end", DeleteBranch(task[k].arg.txn), task[k].arg)
      BY <3>2
    <3> QED
      BY <1>11, <3>1, <3>2 DEF EndGoesOn
  <2>4. PICK req, arg : Suspend(k, "end", req, arg) /\ arg.txn = task[k].arg.txn
    BY <2>3
  <2>5. PICK X : task' = [task EXCEPT ![k] = X] /\ X.op = "end" /\ X.arg = arg
    BY <2>4, SuspendSends
  <2> QED
    BY <1>2, <2>1, <2>2, <2>4, <2>5
<1>12. ASSUME NEW t, NEW fh,
              \/ CreateBranchReads(t) \/ CreateBranchPosts(t) \/ CreateBranchFails(t)
              \/ AttachToTransaction(fh, t) \/ Write(fh) \/ UNCHANGED vars
       PROVE  Still
  <2>1. UNCHANGED <<task, txns, over, nextTxn>>
    BY <1>12 DEF CreateBranchReads, CreateBranchPosts, CreateBranchFails, AttachToTransaction, Write,
                 vars, volume, history
  <2> QED
    BY <1>1, <2>1
<1>13. ASSUME Begin  PROVE SameEnds
  BY <1>1, <1>13 DEF Begin
<1> QED
  BY <1>5, <1>6, <1>7, <1>8, <1>9, <1>10, <1>11, <1>12, <1>13, Zenon DEF Next

LEMMA SuspendsEnd ==
    ASSUME NEW k \in Calls, NEW t, End(k, t) \/ Abort(k, t)
    PROVE  \E op, req, arg : Suspend(k, op, req, arg) /\ arg.txn = t /\ op = IF End(k, t) THEN "end" ELSE "abort"
<1>1. CASE End(k, t)
  <2>1. \E req, arg : Suspend(k, "end", req, arg) /\ arg.txn = t
    BY <1>1 DEF End, FlushFrom
  <2> QED
    BY <1>1, <2>1
<1>2. CASE ~ End(k, t)
  <2>1. Suspend(k, "abort", DeleteBranch(t), [txn |-> t, fh |-> 0])
    BY <1>2 DEF Abort
  <2> QED
    BY <1>2, <2>1
<1> QED
  BY <1>1, <1>2

LEMMA TxnControlStep ==
    ASSUME Types, TxnControl, [Next]_vars
    PROVE  TxnControl'
<1>1. MaxTxns \in Nat /\ nextTxn \in 1 .. MaxTxns + 1
  BY ParametersAssumption DEF Types, TxnTypes
<1>2. /\ over \in [1 .. MaxTxns -> {"open", "ending", "aborting", "ended", "aborted"}]
      /\ txns \subseteq 1 .. nextTxn - 1
  BY DEF Types, TxnTypes
<1>3. \A k \in Calls : Ends(task[k]) => task[k].arg.txn \in 1 .. nextTxn - 1 /\ task[k].arg.txn \in 1 .. MaxTxns
  <2>1. ASSUME NEW k \in Calls, Ends(task[k])  PROVE InTxn(task[k].arg)
    <3>1. Suspended(task[k])
      BY <2>1 DEF Ends, Types, TaskTypes, Idle
    <3> QED
      BY <2>1, <3>1, Roles DEF Ends
  <2>2. 1 .. nextTxn - 1 \subseteq 1 .. MaxTxns
    BY <1>1
  <2> QED
    BY <2>1, <2>2 DEF InTxn
<1>4. ASSUME SameEnds, UNCHANGED over
      PROVE  /\ \A k \in Calls : /\ task'[k].op = "end" => over'[task'[k].arg.txn] = "ending"
                                 /\ task'[k].op = "abort" => over'[task'[k].arg.txn] = "aborting"
             /\ \A k, j \in Calls : k # j /\ Ends(task'[k]) /\ Ends(task'[j]) =>
                   task'[k].arg.txn # task'[j].arg.txn
  BY <1>4 DEF TxnControl, SameEnds, Ends
<1>5. CASE SameEnds /\ UNCHANGED <<txns, over, nextTxn>>
  BY <1>4, <1>5 DEF TxnControl, Ends
<1>6. CASE SameEnds /\ Begin
  <2>1. nextTxn' = nextTxn + 1 /\ txns' = txns \cup {nextTxn} /\ over' = over
    BY <1>6 DEF Begin, history
  <2>2. \A t \in 1 .. MaxTxns : IF t < nextTxn' THEN over'[t] \in Running => t \in txns'
                                ELSE over'[t] = "open"
    BY <1>1, <2>1 DEF TxnControl
  <2> QED
    BY <1>4, <1>6, <2>1, <2>2 DEF TxnControl, Ends
<1>7. ASSUME NEW k \in Calls, Finish(k), Ends(task[k]), nextTxn' = nextTxn,
             NEW said, over' = [over EXCEPT ![task[k].arg.txn] = said],
             \/ said = "open" /\ txns' = txns /\ task[k].op = "end"
             \/ said \notin Running /\ txns' = txns \ {task[k].arg.txn}
      PROVE  TxnControl'
  <2>1. task'[k] = Idle /\ \A j \in Calls : j # k => task'[j] = task[j]
    BY <1>7, TaskDone
  <2>2. PICK t \in 1 .. MaxTxns : t = task[k].arg.txn /\ t < nextTxn
    BY <1>1, <1>3, <1>7
  <2>3. over'[t] = said /\ \A u \in 1 .. MaxTxns : u # t => over'[u] = over[u]
    BY <1>2, <1>7, <2>2
  <2>4. \A u \in 1 .. MaxTxns : IF u < nextTxn' THEN over'[u] \in Running => u \in txns'
                                ELSE over'[u] = "open"
    <3>1. said = "open" => t \in txns
      BY <1>7, <2>2 DEF TxnControl, Running
    <3>2. ASSUME NEW u \in 1 .. MaxTxns, u # t  PROVE over'[u] = over[u] /\ (u \in txns' <=> u \in txns)
      BY <1>7, <2>2, <2>3, <3>2
    <3> QED
      BY <1>7, <2>2, <2>3, <3>1, <3>2 DEF TxnControl
  <2>5. \A j \in Calls : Ends(task'[j]) => /\ j # k /\ task'[j] = task[j] /\ task[j].arg.txn # t
                                           /\ task[j].arg.txn \in 1 .. MaxTxns
    BY <1>3, <1>7, <2>1, <2>2 DEF Ends, Idle, TxnControl
  <2> QED
    BY <2>3, <2>4, <2>5 DEF TxnControl, Ends
<1>8. ASSUME NEW k \in Calls, EndThrows(k)  PROVE TxnControl'
  BY <1>7, <1>8 DEF EndThrows, Ends
<1>9. ASSUME NEW k \in Calls, Over(k)  PROVE TxnControl'
  <2>1. PICK said : /\ said = IF task[k].op = "end" THEN "ended" ELSE "aborted"
                    /\ over' = [over EXCEPT ![task[k].arg.txn] = said]
    BY <1>9 DEF Over
  <2>2. said \notin Running
    BY <2>1 DEF Running
  <2>3. Finish(k) /\ Ends(task[k]) /\ nextTxn' = nextTxn /\ txns' = txns \ {task[k].arg.txn}
    BY <1>9 DEF Over, Ends
  <2> QED
    BY <1>7, <2>1, <2>2, <2>3
<1>10. ASSUME NEW k \in Calls, NEW t \in 1 .. MaxTxns, End(k, t) \/ Abort(k, t)  PROVE TxnControl'
  <2>1. PICK said : said = IF End(k, t) THEN "ending" ELSE "aborting"
    OBVIOUS
  <2>2. /\ over' = [over EXCEPT ![t] = said] /\ over[t] = "open" /\ t < nextTxn
        /\ UNCHANGED <<txns, nextTxn>> /\ task[k].op = "idle"
    BY <1>10, <2>1 DEF End, Abort, Starts
  <2>3. over'[t] = said /\ \A u \in 1 .. MaxTxns : u # t => over'[u] = over[u]
    BY <1>2, <2>2
  <2>4. t \in txns
    BY <2>2 DEF TxnControl, Running
  <2>5. \A u \in 1 .. MaxTxns : IF u < nextTxn' THEN over'[u] \in Running => u \in txns'
                                ELSE over'[u] = "open"
    BY <2>2, <2>3, <2>4 DEF TxnControl
  <2>6. PICK op, req, arg : Suspend(k, op, req, arg) /\ arg.txn = t /\ op = IF End(k, t) THEN "end" ELSE "abort"
    BY <1>10, SuspendsEnd
  <2>7. PICK X : task' = [task EXCEPT ![k] = X] /\ X.op = op /\ X.arg = arg
    BY <2>6, SuspendSends
  <2>8. task'[k] = X /\ \A j \in Calls : j # k => task'[j] = task[j]
    BY <2>7, TaskSet
  <2>9. \A j \in Calls : j # k /\ Ends(task'[j]) => /\ task'[j] = task[j] /\ task[j].arg.txn # t
                                                    /\ task[j].arg.txn \in 1 .. MaxTxns
    BY <1>3, <2>2, <2>8 DEF TxnControl, Ends
  <2>10. /\ task'[k].arg.txn = t /\ task'[k].op = op
         /\ op = "end" => said = "ending"
         /\ op = "abort" => said = "aborting"
    BY <2>1, <2>6, <2>7, <2>8
  <2>11. \A j \in Calls : /\ task'[j].op = "end" => over'[task'[j].arg.txn] = "ending"
                          /\ task'[j].op = "abort" => over'[task'[j].arg.txn] = "aborting"
    BY <2>1, <2>3, <2>6, <2>9, <2>10 DEF TxnControl, Ends
  <2>12. \A i, j \in Calls : i # j /\ Ends(task'[i]) /\ Ends(task'[j]) =>
            task'[i].arg.txn # task'[j].arg.txn
    BY <2>9, <2>10 DEF TxnControl, Ends
  <2> QED
    BY <2>5, <2>11, <2>12 DEF TxnControl, Ends
<1> QED
  BY <1>5, <1>6, <1>8, <1>9, <1>10, TxnMoves

-----------------------------------------------------------------------------
(***************************************************************************)
(* Writes: whose they are, and where they have got to.                     *)
(***************************************************************************)

\* A commit that is under way goes on, or has just been sent.
LEMMA PutsMoves ==
    ASSUME Types, [Next]_vars, NEW j \in Calls, PutsFile(task'[j])
    PROVE  \/ /\ PutsFile(task[j]) /\ task'[j].op = task[j].op
              /\ task'[j].req = task[j].req /\ task'[j].arg = task[j].arg
           \/ \E fh \in DOMAIN fhs : SendsCommit(task'[j], fh)
<1> DEFINE Goes == /\ PutsFile(task[j]) /\ task'[j].op = task[j].op
                   /\ task'[j].req = task[j].req /\ task'[j].arg = task[j].arg
<1>1. ASSUME task'[j] = task[j]  PROVE Goes
  BY <1>1
<1>2. ASSUME NEW k \in Calls, Hub(k)  PROVE Goes
  <2>1. PICK X : Answer(k, X)
    BY <1>2, HubDoes
  <2>2. /\ task'[k] = X /\ X.op = task[k].op /\ X.req = task[k].req /\ X.arg = task[k].arg
        /\ \A i \in Calls : i # k => task'[i] = task[i]
    BY <2>1, TaskSet DEF Answer
  <2> QED
    BY <1>1, <2>2 DEF PutsFile
<1>3. ASSUME NEW k \in Calls, Finish(k)  PROVE Goes
  <2>1. task'[k] = Idle /\ \A i \in Calls : i # k => task'[i] = task[i]
    BY <1>3, TaskDone
  <2> QED
    BY <1>1, <2>1 DEF PutsFile, Idle
<1>4. ASSUME NEW k \in Calls, NEW X, Sends(k, X)
      PROVE  Goes \/ \E fh \in DOMAIN fhs : SendsCommit(task'[j], fh)
  <2>1. task'[k] = X /\ \A i \in Calls : i # k => task'[i] = task[i]
    BY <1>4, TaskSet DEF Sends
  <2>2. ASSUME j = k  PROVE \E fh \in DOMAIN fhs : SendsCommit(task'[j], fh)
    <3>1. ~ SendsCopy(task[k], X) /\ ~ SendsCleanup(task[k], X) /\ ~ SendsOther(X)
      BY <2>1, <2>2 DEF SendsCopy, SendsCleanup, SendsOther, PutsFile
    <3> QED
      BY <1>4, <2>1, <2>2, <3>1 DEF Sends
  <2> QED
    BY <1>1, <2>1, <2>2
<1> QED
  BY <1>1, <1>2, <1>3, <1>4, CallMoves

\* Writes are acknowledged to their handle for good.
LEMMA AckedGrows ==
    ASSUME Types, [Next]_vars
    PROVE  /\ DOMAIN acked \subseteq DOMAIN acked' /\ \A f \in DOMAIN acked : acked[f] \subseteq acked'[f]
           /\ \A f \in DOMAIN acked : f \notin DOMAIN fhs => acked'[f] = acked[f] /\ of'[f] = of[f]
           /\ \A f \in DOMAIN acked : of'[f] = of[f] \/ (of[f] = 0 /\ acked[f] = {})
           /\ DOMAIN acked = DOMAIN of
<1>1. DOMAIN acked = DOMAIN of
  BY DEF Types, HandleTypes
<1>2. ASSUME Closes
      PROVE  acked' = acked /\ of' = of
  BY <1>2 DEF Closes
<1>3. ASSUME NEW path, NEW found, Creates(path, found)
      PROVE  /\ DOMAIN acked \subseteq DOMAIN acked'
             /\ \A f \in DOMAIN acked : acked'[f] = acked[f] /\ of'[f] = of[f]
  <2>1. /\ DOMAIN acked' = DOMAIN acked \cup {nextFH} /\ \A g \in DOMAIN acked : acked'[g] = acked[g]
        /\ \A g \in DOMAIN of : of'[g] = of[g]
    BY <1>3, CreateOne
  <2> QED
    BY <1>1, <2>1
<1>4. ASSUME NEW fh \in Usable, Write(fh)
      PROVE  /\ DOMAIN acked = DOMAIN acked' /\ of' = of /\ fh \in DOMAIN fhs
             /\ \A f \in DOMAIN acked : acked[f] \subseteq acked'[f] /\ (f # fh => acked'[f] = acked[f])
  <2>1. /\ fh \in DOMAIN fhs /\ DOMAIN acked' = DOMAIN acked /\ acked'[fh] = acked[fh] \cup {writes'}
        /\ \A g \in DOMAIN acked : g # fh => acked'[g] = acked[g]
        /\ of' = of
    BY <1>4, WriteOne
  <2> QED
    BY <2>1
<1>5. ASSUME NEW fh \in Usable, NEW t \in 1 .. MaxTxns, AttachToTransaction(fh, t)
      PROVE  /\ acked' = acked /\ fh \in DOMAIN fhs /\ of[fh] = 0 /\ acked[fh] = {}
             /\ \A g \in DOMAIN of : g # fh => of'[g] = of[g]
  <2>1. of[fh] = 0 /\ acked[fh] = {}
    BY <1>5 DEF AttachToTransaction
  <2> QED
    BY <1>5, <2>1, AttachOne
<1>6. CASE Closes
  BY <1>1, <1>2, <1>6
<1>7. ASSUME NEW path, NEW found, Creates(path, found)
      PROVE  /\ DOMAIN acked \subseteq DOMAIN acked' /\ \A f \in DOMAIN acked : acked[f] \subseteq acked'[f]
             /\ \A f \in DOMAIN acked : acked'[f] = acked[f] /\ of'[f] = of[f]
  <2>1. /\ DOMAIN acked \subseteq DOMAIN acked'
        /\ \A f \in DOMAIN acked : acked'[f] = acked[f] /\ of'[f] = of[f]
    BY <1>3, <1>7
  <2> QED
    BY <2>1
<1> QED
  BY <1>1, <1>4, <1>5, <1>6, <1>7, HandleMoves

LEMMA WritesOfStep ==
    ASSUME Types, Known, TxnControl, WritesOf, [Next]_vars
    PROVE  WritesOf'
<1>1. onMain \subseteq onMain'
  BY MainSeen
<1>2. /\ DOMAIN fhs \subseteq DOMAIN acked /\ DOMAIN acked = DOMAIN of /\ writes \in Nat
      /\ \A fh \in DOMAIN acked : acked[fh] \in Contents
      /\ \A w \in Contents : writes + 1 \notin w
  <2>1. writes \in Nat
    BY StepGrows
  <2>2. \A w \in Contents : writes + 1 \notin w
    BY <2>1 DEF Contents
  <2> QED
    BY <2>1, <2>2 DEF Types, HandleTypes
<1>3. \A fh, g \in DOMAIN acked : fh # g => acked[fh] \cap acked[g] = {}
  BY DEF WritesOf
<1>4. \A fh \in DOMAIN fhs : /\ acked[fh] \subseteq fhs[fh].buf
                             /\ fhs[fh].buf \subseteq onMain \cup acked[fh]
                             /\ ~ fhs[fh].dirty => acked[fh] = {}
                             /\ fhs[fh].branch = of[fh]
  BY DEF WritesOf
<1> DEFINE Apart == \A fh, g \in DOMAIN acked : fh # g => acked[fh] \cap acked[g] = {}
           Open1(fh) == /\ acked[fh] \subseteq fhs[fh].buf
                        /\ fhs[fh].buf \subseteq onMain \cup acked[fh]
                        /\ ~ fhs[fh].dirty => acked[fh] = {}
                        /\ fhs[fh].branch = of[fh]
           Put1(T) == /\ T.req.body \subseteq onMain' \cup acked'[File(T)]
                      /\ T.req.branch = of'[File(T)]
                      /\ T.op = "end" => T.req.branch = T.arg.txn
<1>5. Apart' /\ \A fh \in DOMAIN fhs' : Open1(fh)'
  <2>1. CASE Closes
    <3>1. DOMAIN fhs' \subseteq DOMAIN fhs /\ \A fh \in DOMAIN fhs' : fhs'[fh] = fhs[fh]
      BY <2>1, CloseSome
    <3>2. acked' = acked /\ of' = of
      BY <2>1, CloseSome
    <3> QED
      BY <1>1, <1>3, <1>4, <3>1, <3>2
  <2>2. ASSUME NEW k \in Calls, Live(task[k]), NEW path, Creates(path, task[k].found)
        PROVE  Apart' /\ \A fh \in DOMAIN fhs' : Open1(fh)'
    <3>1. PICK n : n = nextFH
      OBVIOUS
    <3>2. /\ n \notin DOMAIN acked
          /\ DOMAIN fhs' = DOMAIN fhs \cup {n} /\ DOMAIN acked' = DOMAIN acked \cup {n}
          /\ \A g \in DOMAIN fhs : fhs'[g] = fhs[g]
          /\ \A g \in DOMAIN acked : acked'[g] = acked[g]
          /\ \A g \in DOMAIN of : of'[g] = of[g]
      BY <2>2, <3>1, CreateOne
    <3>3. /\ fhs'[n].buf = In(task[k].found) /\ fhs'[n].branch = Main
          /\ acked'[n] = {} /\ of'[n] = 0
      BY <2>2, <3>1, CreateOne
    <3>4. In(task[k].found) \subseteq onMain
      BY <2>2 DEF Known
    <3>5. Apart'
      BY <1>3, <3>2, <3>3
    <3>6. Open1(n)'
      BY <1>1, <3>3, <3>4 DEF Main
    <3>7. ASSUME NEW fh \in DOMAIN fhs  PROVE Open1(fh)'
      <4>1. fhs'[fh] = fhs[fh] /\ acked'[fh] = acked[fh] /\ of'[fh] = of[fh]
        BY <1>2, <3>2
      <4> QED
        BY <1>1, <1>4, <4>1
    <3> QED
      BY <3>2, <3>5, <3>6, <3>7
  <2>3. ASSUME NEW f \in Usable, Write(f)  PROVE Apart' /\ \A fh \in DOMAIN fhs' : Open1(fh)'
    <3>1. PICK w : w = writes'
      OBVIOUS
    <3>2. /\ f \in DOMAIN fhs /\ DOMAIN fhs' = DOMAIN fhs
          /\ \A g \in DOMAIN fhs : g # f => fhs'[g] = fhs[g]
          /\ fhs'[f].branch = fhs[f].branch /\ fhs'[f].buf = fhs[f].buf \cup {w} /\ fhs'[f].dirty = TRUE
          /\ DOMAIN acked' = DOMAIN acked /\ acked'[f] = acked[f] \cup {w}
          /\ \A g \in DOMAIN acked : g # f => acked'[g] = acked[g]
          /\ of' = of
      BY <2>3, <3>1, WriteOne
    <3>3. \A g \in DOMAIN acked : w \notin acked[g]
      <4>1. w = writes + 1
        BY <2>3, <3>1 DEF Write
      <4> QED
        BY <1>2, <4>1
    <3>4. Apart'
      BY <1>2, <1>3, <3>2, <3>3
    <3>5. Open1(f)'
      BY <1>1, <1>4, <3>2
    <3>6. ASSUME NEW fh \in DOMAIN fhs, fh # f  PROVE Open1(fh)'
      <4>1. fhs'[fh] = fhs[fh] /\ acked'[fh] = acked[fh] /\ of'[fh] = of[fh]
        BY <1>2, <3>2, <3>6
      <4> QED
        BY <1>1, <1>4, <4>1
    <3> QED
      BY <3>2, <3>4, <3>5, <3>6
  <2>4. ASSUME NEW f \in Usable, NEW t \in 1 .. MaxTxns, AttachToTransaction(f, t)
        PROVE  Apart' /\ \A fh \in DOMAIN fhs' : Open1(fh)'
    <3>1. t \in txns
      BY <2>4 DEF AttachToTransaction, TxnControl, Running
    <3>2. /\ f \in DOMAIN fhs /\ DOMAIN fhs' = DOMAIN fhs
          /\ \A g \in DOMAIN fhs : g # f => fhs'[g] = fhs[g]
          /\ fhs'[f].buf = fhs[f].buf /\ fhs'[f].dirty = fhs[f].dirty /\ fhs'[f].branch = t
          /\ of'[f] = t /\ \A g \in DOMAIN of : g # f => of'[g] = of[g]
          /\ acked' = acked
      BY <2>4, <3>1, AttachOne
    <3>3. Open1(f)'
      BY <1>1, <1>4, <3>2
    <3>4. ASSUME NEW fh \in DOMAIN fhs, fh # f  PROVE Open1(fh)'
      <4>1. fhs'[fh] = fhs[fh] /\ acked'[fh] = acked[fh] /\ of'[fh] = of[fh]
        BY <1>2, <3>2, <3>4
      <4> QED
        BY <1>1, <1>4, <4>1
    <3> QED
      BY <1>3, <3>2, <3>3, <3>4
  <2> QED
    BY <2>1, <2>2, <2>3, <2>4, HandleMoves
<1>6. ASSUME NEW k \in Calls, PutsFile(task[k])
      PROVE  /\ File(task[k]) \in DOMAIN acked
             /\ task[k].req.body \subseteq onMain \cup acked[File(task[k])]
             /\ task[k].req.branch = of[File(task[k])]
             /\ task[k].op = "end" => task[k].req.branch = task[k].arg.txn
  <2>1. Suspended(task[k])
    BY <1>6 DEF PutsFile, Types, TaskTypes, Idle
  <2>2. File(task[k]) \in 1 .. nextFH - 1
    BY <1>6, <2>1, FileKnown
  <2> QED
    BY <1>6, <2>2 DEF WritesOf, Types, HandleTypes
<1>7. ASSUME NEW T, NEW f \in DOMAIN acked, File(T) = f,
             T.req.body \subseteq onMain \cup acked[f], T.req.branch = of'[f],
             T.op = "end" => T.req.branch = T.arg.txn
      PROVE  Put1(T)
  <2>1. acked[f] \subseteq acked'[f]
    BY AckedGrows
  <2> QED
    BY <1>1, <1>7, <2>1
<1>8. ASSUME NEW f \in Usable, NEW t \in 1 .. MaxTxns, AttachToTransaction(f, t),
             NEW k \in Calls, PutsFile(task'[k])
      PROVE  Put1(task'[k])
  <2>1. task' = task /\ ~ Closing(f)
    BY <1>8 DEF AttachToTransaction
  <2>2. PICK g : g = File(task[k])
    OBVIOUS
  <2>3. g # f
    <3>1. SUFFICES ASSUME g = f  PROVE FALSE
      OBVIOUS
    <3>2. task[k].op = "end" => task[k].arg.txn = of[f]
      BY <1>6, <1>8, <2>1, <2>2, <3>1
    <3>3. task[k].op = "close" => task[k].arg = f
      BY <2>2, <3>1 DEF File
    <3> QED
      BY <1>8, <2>1, <3>2, <3>3 DEF Closing, PutsFile
  <2>4. g \in DOMAIN acked /\ of'[g] = of[g]
    <3>1. \A h \in DOMAIN of : h # f => of'[h] = of[h]
      BY <1>8, AttachOne
    <3> QED
      BY <1>2, <1>6, <1>8, <2>1, <2>2, <2>3, <3>1
  <2> QED
    BY <1>6, <1>7, <1>8, <2>1, <2>2, <2>4
<1>9. ASSUME \A f \in Usable, t \in 1 .. MaxTxns : ~ AttachToTransaction(f, t),
             NEW k \in Calls, PutsFile(task'[k])
      PROVE  Put1(task'[k])
  <2>1. \A f \in DOMAIN acked : of'[f] = of[f]
    <3>1. ASSUME NEW path, NEW found, Creates(path, found)  PROVE \A f \in DOMAIN of : of'[f] = of[f]
      BY <3>1, CreateOne
    <3>2. ASSUME NEW f \in Usable, Write(f)  PROVE of' = of
      BY <3>2 DEF Write
    <3>3. CASE Closes
      BY <3>3 DEF Closes
    <3> QED
      BY <1>2, <1>9, <3>1, <3>2, <3>3, HandleMoves
  <2>2. CASE /\ PutsFile(task[k]) /\ task'[k].op = task[k].op
             /\ task'[k].req = task[k].req /\ task'[k].arg = task[k].arg
    <3>1. File(task'[k]) = File(task[k])
      BY <2>2 DEF File
    <3>2. PICK f : f = File(task[k])
      OBVIOUS
    <3> QED
      BY <1>6, <1>7, <2>1, <2>2, <3>1, <3>2
  <2>3. ASSUME NEW fh \in DOMAIN fhs, SendsCommit(task'[k], fh)
        PROVE  Put1(task'[k])
    <3>1. PICK X : X = task'[k]
      OBVIOUS
    <3>2. X.req.body = fhs[fh].buf /\ X.req.branch = fhs[fh].branch /\ File(X) = fh
      BY <2>3, <3>1 DEF SendsCommit, CommitRequest, WriteFile
    <3>3. X.op = "end" => X.req.branch = X.arg.txn
      BY <2>3, <3>1, <3>2 DEF SendsCommit
    <3>4. Put1(X)
      BY <1>2, <1>4, <1>7, <2>1, <3>2, <3>3
    <3> QED
      BY <3>1, <3>4
  <2> QED
    BY <1>9, <2>2, <2>3, PutsMoves
<1> QED
  BY <1>5, <1>8, <1>9 DEF WritesOf, PutsFile, File

-----------------------------------------------------------------------------
(***************************************************************************)
(* Isolation: what is on main, and on a branch, is owned.                  *)
(***************************************************************************)

LEMMA OwnedStays ==
    ASSUME Types, [Next]_vars, NEW w, NEW B, Owned(w, B)
    PROVE  Owned(w, B)'
<1>1. PICK f \in DOMAIN of : of[f] \in B /\ w \in acked[f]
  BY DEF Owned
<1>2. /\ DOMAIN of = DOMAIN acked /\ DOMAIN of \subseteq DOMAIN acked' /\ w \in acked'[f] /\ of'[f] = of[f]
  BY <1>1, AckedGrows
<1>3. DOMAIN acked' = DOMAIN of'
  BY TypesStep DEF Types, HandleTypes
<1> QED
  BY <1>1, <1>2, <1>3 DEF Owned

\* A commit of a call leaves on its branch what the call had: the buffer of a
\* handle of that branch, or what it read of main.
LEMMA CommitOwned ==
    ASSUME Types, Known, RenameOK, WritesOf, NEW k \in Calls, Puts(k), Suspended(task[k]),
           NEW w \in task[k].req.body
    PROVE  w \in onMain \/ Owned(w, {task[k].req.branch})
<1>1. PICK r : r = task[k].req
  OBVIOUS
<1>2. IsPut(r)
  BY <1>1 DEF Puts
<1>3. CASE PutsFile(task[k])
  <2>1. PICK f : f = File(task[k])
    OBVIOUS
  <2>2. f \in DOMAIN of
    BY <1>3, <2>1, FileKnown DEF Types, HandleTypes
  <2>3. r.body \subseteq onMain \cup acked[f] /\ r.branch = of[f]
    BY <1>1, <1>3, <2>1 DEF WritesOf
  <2> QED
    BY <1>1, <2>2, <2>3 DEF Owned
<1>4. CASE task[k].op = "rename"
  <2>1. r = RenameCopy(task[k].arg) /\ In(task[k].arg.content) \subseteq onMain /\ task[k].arg.content # None
    BY <1>1, <1>2, <1>4 DEF RenameOK, IsPut
  <2>2. r.body \subseteq onMain
    BY <2>1 DEF RenameCopy, WriteFile, In
  <2> QED
    BY <1>1, <2>2
<1> QED
  BY <1>1, <1>2, <1>3, <1>4, Roles DEF PutsFile, IsPut, IsGet, IsDelete, IsMerge, IsDrop, Role, Suspended

LEMMA IsolatedStep ==
    ASSUME Types, Known, Extends, RenameOK, WritesOf, Isolated, [Next]_vars
    PROVE  Isolated'
<1>1. /\ repo \in [DOMAIN repo -> Trees] /\ Main \in DOMAIN repo
      /\ \A t \in 1 .. nextTxn - 1 : t # Main
  BY DEF Types, HubTypes, Main
<1>2. onMain \subseteq onMain'
  BY MainSeen
<1> DEFINE OnMain == \A w \in onMain : Owned(w, {Main} \cup merged)
           OnBranch(t) == \A p \in Paths : \A w \in In(repo[t][p]) : w \in onMain \/ Owned(w, {t})
<1>3. OnMain /\ \A t \in DOMAIN repo \ {Main} : OnBranch(t)
  BY DEF Isolated
<1>4. ASSUME NEW t \in DOMAIN repo \ {Main}, repo'[t] = repo[t]  PROVE OnBranch(t)'
  <2>1. \A p \in Paths : \A w \in In(repo[t][p]) : w \in onMain' \/ Owned(w, {t})'
    BY <1>2, <1>3, OwnedStays
  <2> QED
    BY <1>4, <2>1
<1>5. ASSUME onMain' = onMain, merged' = merged  PROVE OnMain'
  <2>1. PICK B : B = {Main} \cup merged
    OBVIOUS
  <2>2. \A w \in onMain : Owned(w, B)
    BY <1>3, <2>1
  <2>3. \A w \in onMain : Owned(w, B)'
    BY <2>2, OwnedStays
  <2> QED
    BY <1>5, <2>1, <2>3
<1>6. ASSUME NEW k \in Calls, Hub(k)  PROVE Isolated'
  <2>1. Suspended(task[k]) /\ \E X : Effect(k, X)
    BY <1>6, HubDoes
  <2>2. acked' = acked /\ of' = of
    BY <1>6, HubDoes
  <2>3. \A w, B : Owned(w, B)' <=> Owned(w, B)
    BY <2>2 DEF Owned
  <2>4. ASSUME Seen, merged \subseteq merged',
               \A p \in Paths : \A w \in In(repo'[Main][p]) : w \in onMain \/ Owned(w, {Main} \cup merged')
        PROVE  OnMain'
    <3>1. PICK B, B2 : B = {Main} \cup merged /\ B2 = {Main} \cup merged'
      OBVIOUS
    <3>2. \A w \in onMain : Owned(w, B2)
      BY <1>3, <2>4, <3>1 DEF Owned
    <3>3. \A w \in onMain' : w \in onMain \/ \E p \in Paths : w \in In(repo'[Main][p])
      BY <2>4 DEF Seen
    <3>4. \A w \in onMain' : Owned(w, B2)
      BY <2>4, <3>1, <3>2, <3>3
    <3> QED
      BY <2>3, <3>1, <3>4
  <2>5. \A p \in Paths : In(repo[Main][p]) \subseteq onMain
    BY DEF Known, Tree
  <2>6. CASE Ignored
    BY <1>3, <1>4, <1>5, <2>6 DEF Ignored, Isolated
  <2>7. CASE Gets(k)
    <3>1. OnMain'
      BY <2>4, <2>5, <2>7 DEF Gets
    <3> QED
      BY <1>4, <2>7, <3>1 DEF Gets, Isolated
  <2>8. CASE Deletes(k)
    <3>1. PICK q : q = task[k].req.path
      OBVIOUS
    <3>2. /\ repo' = [repo EXCEPT ![Main] = [repo[Main] EXCEPT ![q] = None]]
          /\ merged' = merged /\ Seen /\ q \in Paths
      BY <2>8, <3>1 DEF Deletes, IsDelete
    <3>3. \A p \in Paths : repo'[Main][p] = IF p = q THEN None ELSE repo[Main][p]
      BY <1>1, <3>2 DEF Trees
    <3>4. \A p \in Paths : In(repo'[Main][p]) \subseteq onMain
      BY <2>5, <3>3 DEF In
    <3>5. OnMain'
      BY <2>4, <3>2, <3>4
    <3>6. DOMAIN repo' = DOMAIN repo /\ \A t \in DOMAIN repo \ {Main} : repo'[t] = repo[t]
      BY <3>2
    <3> QED
      BY <1>4, <3>5, <3>6 DEF Isolated
  <2>9. CASE Puts(k)
    <3>1. PICK r : r = task[k].req
      OBVIOUS
    <3>2. /\ repo' = [repo EXCEPT ![r.branch] = [repo[r.branch] EXCEPT ![r.path] = r.body]]
          /\ merged' = merged /\ Seen /\ r.path \in Paths /\ r.branch \in DOMAIN repo
          /\ r.body \in Contents
      BY <2>9, <3>1 DEF Puts, IsPut
    <3>3. DOMAIN repo' = DOMAIN repo /\ \A b \in DOMAIN repo : b # r.branch => repo'[b] = repo[b]
      BY <3>2
    <3>4. \A p \in Paths : repo'[r.branch][p] = IF p = r.path THEN r.body ELSE repo[r.branch][p]
      BY <1>1, <3>2 DEF Trees
    <3>5. In(r.body) \subseteq r.body
      BY DEF In
    <3>6. \A w \in r.body : w \in onMain \/ Owned(w, {r.branch})
      BY <2>1, <2>9, <3>1, CommitOwned
    <3>7. OnMain'
      <4>1. CASE r.branch = Main
        <5>1. \A w : Owned(w, {Main}) => Owned(w, {Main} \cup merged')
          BY DEF Owned
        <5>2. \A p \in Paths : \A w \in In(repo'[Main][p]) : w \in onMain \/ Owned(w, {Main} \cup merged')
          BY <2>5, <3>4, <3>5, <3>6, <4>1, <5>1
        <5> QED
          BY <2>4, <3>2, <5>2
      <4>2. CASE r.branch # Main
        BY <1>1, <2>4, <2>5, <3>2, <3>3, <4>2
      <4> QED
        BY <4>1, <4>2
    <3>8. ASSUME NEW t \in DOMAIN repo \ {Main}  PROVE OnBranch(t)'
      <4>1. CASE t # r.branch
        BY <1>4, <3>3, <4>1
      <4>2. CASE t = r.branch
        <5>1. \A p \in Paths : \A w \in In(repo'[t][p]) : w \in onMain \/ Owned(w, {t})
          BY <1>3, <3>4, <3>5, <3>6, <4>2
        <5> QED
          BY <1>2, <2>3, <5>1
      <4> QED
        BY <4>1, <4>2
    <3> QED
      BY <3>3, <3>7, <3>8 DEF Isolated
  <2>10. CASE Merges(k)
    <3>1. PICK t : t = task[k].req.branch
      OBVIOUS
    <3>2. /\ repo' = [repo EXCEPT ![Main] = [p \in Paths |-> Joined(t, p)]]
          /\ t \in DOMAIN repo \ {Main} /\ merged' = merged \cup {t} /\ Seen
      BY <1>1, <2>10, <3>1 DEF Merges
    <3>3. \A p \in Paths : In(repo'[Main][p]) \subseteq In(repo[Main][p]) \cup In(repo[t][p])
      BY <2>10, <3>1, MergeAdds
    <3>4. \A w : Owned(w, {t}) => Owned(w, {Main} \cup merged')
      BY <3>2 DEF Owned
    <3>5. \A p \in Paths : \A w \in In(repo'[Main][p]) : w \in onMain \/ Owned(w, {Main} \cup merged')
      BY <1>3, <2>5, <3>2, <3>3, <3>4
    <3>6. OnMain'
      BY <2>4, <3>2, <3>5
    <3>7. DOMAIN repo' = DOMAIN repo /\ \A b \in DOMAIN repo \ {Main} : repo'[b] = repo[b]
      BY <3>2
    <3> QED
      BY <1>4, <3>6, <3>7 DEF Isolated
  <2>11. CASE Drops(k)
    <3>1. PICK t : t = task[k].req.branch
      OBVIOUS
    <3>2. /\ repo' = [b \in DOMAIN repo \ {t} |-> repo[b]]
          /\ t # Main /\ merged' = merged /\ Seen
      BY <1>1, <2>11, <3>1 DEF Drops
    <3>3. repo'[Main] = repo[Main] /\ DOMAIN repo' \subseteq DOMAIN repo /\ \A b \in DOMAIN repo' : repo'[b] = repo[b]
      BY <1>1, <3>2
    <3>4. OnMain'
      BY <2>4, <2>5, <3>2, <3>3
    <3> QED
      BY <1>4, <3>3, <3>4 DEF Isolated
  <2> QED
    BY <2>1, <2>6, <2>7, <2>8, <2>9, <2>10, <2>11 DEF Effect
<1>7. ASSUME NEW t \in 1 .. MaxTxns, CreateBranchPosts(t)  PROVE Isolated'
  <2>1. t \in DOMAIN birth /\ birth[t] # None /\ t # Main /\ t \notin DOMAIN repo
    BY <1>7 DEF CreateBranchPosts, Types, HubTypes, Main
  <2>2. /\ DOMAIN repo' = DOMAIN repo \cup {t} /\ repo'[t] = birth[t]
        /\ \A b \in DOMAIN repo : repo'[b] = repo[b]
    BY <1>7, <2>1 DEF CreateBranchPosts
  <2>3. \A p \in Paths : In(birth[t][p]) \subseteq onMain
    BY <2>1 DEF Known
  <2>4. OnBranch(t)'
    BY <1>2, <2>2, <2>3
  <2>5. OnMain'
    BY <1>5, <1>7 DEF CreateBranchPosts, history
  <2> QED
    BY <1>4, <2>2, <2>4, <2>5 DEF Isolated
<1>8. ASSUME UNCHANGED <<repo, onMain, merged>>  PROVE Isolated'
  BY <1>3, <1>4, <1>5, <1>8 DEF Isolated
<1>9. ASSUME NEW t, CreateBranchReads(t) \/ CreateBranchFails(t) \/ Begin
      PROVE  UNCHANGED <<repo, onMain, merged>>
  BY <1>9 DEF CreateBranchReads, CreateBranchFails, Begin, history
<1>10. ASSUME UNCHANGED <<hub, kept, onMain, merged>>  PROVE UNCHANGED <<repo, onMain, merged>>
  BY <1>10 DEF hub
<1> QED
  BY <1>6, <1>7, <1>8, <1>9, <1>10, HubChanges

OwnInv == DataInv /\ TxnControl /\ WritesOf /\ Isolated

LEMMA OwnStart == Init => OwnInv
<1> SUFFICES ASSUME Init PROVE OwnInv
  OBVIOUS
<1>1. DataInv
  BY DataStart
<1>2. /\ DOMAIN fhs = {} /\ DOMAIN acked = {} /\ DOMAIN of = {} /\ onMain = {} /\ DOMAIN repo = {Main}
      /\ nextTxn = 1
  BY DEF Init
<1>3. \A k \in Calls : task[k].op = "idle"
  BY DEF Init, Idle
<1>4. \A t \in 1 .. MaxTxns : over[t] = "open"
  BY DEF Init
<1>5. \A t \in 1 .. MaxTxns : ~ (t < 1)
  OBVIOUS
<1>6. TxnControl
  BY <1>2, <1>3, <1>4, <1>5 DEF TxnControl, Ends
<1>7. WritesOf /\ Isolated
  BY <1>2, <1>3 DEF WritesOf, Isolated, PutsFile
<1> QED
  BY <1>1, <1>6, <1>7 DEF OwnInv

LEMMA OwnHolds == Spec => []OwnInv
<1>1. DataInv /\ [Next]_vars => DataInv'
  BY TypesStep, KnownStep, ExtendsStep, ShaStep, RenameStep, CopiesStep DEF DataInv
<1>2. OwnInv /\ [Next]_vars => OwnInv'
  BY <1>1, TxnControlStep, WritesOfStep, IsolatedStep DEF OwnInv, DataInv
<1> QED
  BY <1>2, OwnStart, PTL DEF Spec

\* Nothing that was written through a handle attached to a transaction by
\* attachToTransaction is on main before endTransaction merged its branch.
THEOREM Isolation == Spec => []IsolatedUntilMerged
<1>1. OwnInv => IsolatedUntilMerged
  <2> SUFFICES ASSUME OwnInv, NEW fh \in DOMAIN of, of[fh] # 0, of[fh] \notin merged,
                      NEW w \in acked[fh], w \in onMain
               PROVE  FALSE
    BY DEF IsolatedUntilMerged
  <2>1. PICK g \in DOMAIN of : of[g] \in {Main} \cup merged /\ w \in acked[g]
    BY DEF OwnInv, Isolated, Owned
  <2>2. g # fh
    BY <2>1 DEF Main
  <2>3. DOMAIN of = DOMAIN acked
    BY DEF OwnInv, DataInv, Types, HandleTypes
  <2>4. acked[fh] \cap acked[g] = {}
    BY <2>2, <2>3 DEF OwnInv, WritesOf
  <2> QED
    BY <2>1, <2>4
<1> QED
  BY <1>1, OwnHolds, PTL

-----------------------------------------------------------------------------
(***************************************************************************)
(* Nothing acknowledged is lost: which handles close, and what is kept.    *)
(***************************************************************************)

LEMMA KeptGrows ==
    ASSUME Types, [Next]_vars
    PROVE  kept \subseteq kept'
<1>1. ASSUME NEW k \in Calls, Hub(k)  PROVE kept \subseteq kept'
  BY <1>1, HubDoes DEF Effect, Ignored, Gets, Puts, Deletes, Merges, Drops
<1>2. ASSUME NEW t, CreateBranchReads(t) \/ CreateBranchPosts(t) \/ CreateBranchFails(t) \/ Begin
      PROVE  kept' = kept
  BY <1>2 DEF CreateBranchReads, CreateBranchPosts, CreateBranchFails, Begin, history
<1> QED
  BY <1>1, <1>2, HubChanges

\* The commit of handle g has ended well.
Committed(g) == \E k \in Calls : PutsFile(task[k]) /\ task[k].at = "ok" /\ File(task[k]) = g

Aborts(g) == \E k \in Calls, t \in 1 .. MaxTxns : Abort(k, t) /\ g \in Attached(t, 0)

LEMMA FlushLeaves ==
    ASSUME Types, NEW k, NEW t \in 1 .. nextTxn - 1, NEW last \in Nat, NEW handles \in SUBSET DOMAIN fhs,
           \A fh \in DOMAIN fhs : fh > last => fh \in handles,
           FlushFrom(k, t, last, handles), NEW g \in handles \ DOMAIN fhs'
    PROVE  ~ Dirty(g)
<1>1. CASE MergesNow(k, t, last, handles)
  BY <1>1 DEF MergesNow
<1>2. ASSUME NEW d \in Attached(t, last), CommitsNext(k, t, last, handles, d)  PROVE ~ Dirty(g)
  <2>1. g \in Attached(t, last) /\ g < d
    BY <1>2 DEF CommitsNext
  <2>2. Dirty(g) => g >= d
    BY <1>2, <2>1 DEF CommitsNext
  <2>3. g \in Nat /\ d \in Nat
    BY <2>1 DEF Attached, Types, HandleTypes
  <2> QED
    BY <2>1, <2>2, <2>3
<1> QED
  BY <1>1, <1>2, Flushes

\* A handle closes when it is clean, when its commit has ended well, or when its
\* transaction is aborted.
LEMMA HandlesLeave ==
    ASSUME Types, [Next]_vars, NEW g \in DOMAIN fhs \ DOMAIN fhs'
    PROVE  ~ Dirty(g) \/ Committed(g) \/ Aborts(g)
<1>1. DOMAIN fhs \subseteq Nat \ {0} /\ MaxTxns \in Nat /\ nextTxn \in 1 .. MaxTxns + 1
  BY ParametersAssumption DEF Types, HandleTypes, TxnTypes
<1>2. ASSUME NEW k \in Calls, NEW fh, Close(k, fh)  PROVE ~ Dirty(g)
  BY <1>2 DEF Close, Without
<1>3. ASSUME NEW k \in Calls, Closed(k)  PROVE Committed(g)
  <2>1. g = task[k].arg
    BY <1>3 DEF Closed, Without
  <2> QED
    BY <1>3, <2>1 DEF Closed, Resumes, Committed, PutsFile, File
<1>4. ASSUME NEW k \in Calls, NEW t \in 1 .. MaxTxns, End(k, t)  PROVE ~ Dirty(g)
  <2>1. FlushFrom(k, t, 0, DOMAIN fhs) /\ t \in 1 .. nextTxn - 1
    BY <1>1, <1>4 DEF End
  <2> QED
    BY <2>1, FlushLeaves
<1>5. ASSUME NEW k \in Calls, EndGoesOn(k)  PROVE ~ Dirty(g) \/ Committed(g)
  <2>1. PICK t, fh : t = task[k].arg.txn /\ fh = task[k].arg.fh
    OBVIOUS
  <2>2. task[k].op = "end" /\ Suspended(task[k])
    BY <1>5 DEF EndGoesOn, Resumes, Types, TaskTypes, Idle
  <2>3. t \in 1 .. nextTxn - 1 /\ fh \in Nat
    <3>1. InTxn(task[k].arg)
      BY <2>2, Roles
    <3> QED
      BY <2>1, <3>1 DEF InTxn, Types
  <2>4. Resumes(k, "end", "put", "ok") /\ FlushFrom(k, t, fh, DOMAIN fhs \ {fh})
    BY <1>5, <2>1 DEF EndGoesOn, volume
  <2>5. CASE g = fh
    BY <2>1, <2>2, <2>4, <2>5 DEF Resumes, Committed, PutsFile, File
  <2>6. CASE g # fh
    <3>1. \A h \in DOMAIN fhs : h > fh => h \in DOMAIN fhs \ {fh}
      BY <2>3
    <3>2. g \in (DOMAIN fhs \ {fh}) \ DOMAIN fhs'
      BY <2>6
    <3> QED
      BY <2>3, <2>4, <3>1, <3>2, FlushLeaves
  <2> QED
    BY <2>5, <2>6
<1>6. ASSUME NEW k \in Calls, NEW t \in 1 .. MaxTxns, Abort(k, t)  PROVE Aborts(g)
  BY <1>6 DEF Abort, Without, Aborts
<1>7. ASSUME NEW k \in Calls, NEW op \in {"open", "create"}, Opened(k, op)  PROVE FALSE
  <2>1. DOMAIN fhs \subseteq DOMAIN fhs'
    BY <1>7 DEF Opened
  <2> QED
    BY <2>1
<1>8. ASSUME NEW fh, NEW t, Write(fh) \/ AttachToTransaction(fh, t)  PROVE FALSE
  <2>1. DOMAIN fhs' = DOMAIN fhs
    BY <1>8 DEF Write, AttachToTransaction
  <2> QED
    BY <2>1
<1>9. ASSUME NEW k \in Calls, Hub(k) \/ Throws(k) \/ OpenAnswered(k) \/ DeleteGoesOn(k) \/ RenameGoesOn(k) \/ Over(k)
      PROVE  FALSE
  BY <1>9 DEF Hub, Throws, OpenAnswered, DeleteGoesOn, RenameGoesOn, Over, volume
<1>10. ASSUME NEW k, NEW op, NEW path, NEW to, Open(k, op, path) \/ Delete(k, path) \/ Rename(k, path, to)
       PROVE  FALSE
  BY <1>10 DEF Open, Delete, Rename, volume
<1>11. ASSUME NEW t, \/ CreateBranchReads(t) \/ CreateBranchPosts(t) \/ CreateBranchFails(t)
                     \/ Begin \/ UNCHANGED vars
       PROVE  FALSE
  BY <1>11 DEF CreateBranchReads, CreateBranchPosts, CreateBranchFails, Begin, vars, volume
<1> QED
  BY <1>2, <1>3, <1>4, <1>5, <1>6, <1>7, <1>8, <1>9, <1>10, <1>11, Zenon DEF Next

\* The buffer of an open handle changes by a write to it only.
LEMMA BufferStays ==
    ASSUME Types, [Next]_vars, NEW g \in DOMAIN fhs, g \in DOMAIN fhs'
    PROVE  fhs'[g].buf = fhs[g].buf \/ Write(g)
<1>1. CASE Closes
  BY <1>1, CloseSome
<1>2. ASSUME NEW path, NEW found, Creates(path, found)  PROVE fhs'[g] = fhs[g]
  BY <1>2, CreateOne
<1>3. ASSUME NEW f \in Usable, Write(f), f # g  PROVE fhs'[g] = fhs[g]
  BY <1>3, WriteOne
<1>4. ASSUME NEW f \in Usable, NEW t \in 1 .. MaxTxns, AttachToTransaction(f, t)
      PROVE  fhs'[g].buf = fhs[g].buf
  <2>1. /\ fhs'[f].buf = fhs[f].buf
        /\ \A h \in DOMAIN fhs : h # f => fhs'[h] = fhs[h]
    BY <1>4, AttachOne
  <2> QED
    BY <2>1
<1> QED
  BY <1>1, <1>2, <1>3, <1>4, HandleMoves

\* A call that puts a file keeps to it; a commit that is answered well was made.
LEMMA CommitMoves ==
    ASSUME Types, [Next]_vars, NEW j \in Calls, PutsFile(task'[j]), task'[j].at = "ok"
    PROVE  /\ PutsFile(task[j]) /\ task'[j].op = task[j].op
           /\ task'[j].req = task[j].req /\ task'[j].arg = task[j].arg
           /\ task[j].at = "ok" \/ (Hub(j) /\ Puts(j))
<1> DEFINE Goal == /\ PutsFile(task[j]) /\ task'[j].op = task[j].op
                   /\ task'[j].req = task[j].req /\ task'[j].arg = task[j].arg
                   /\ task[j].at = "ok" \/ (Hub(j) /\ Puts(j))
<1>1. ASSUME task'[j] = task[j]  PROVE Goal
  BY <1>1
<1>2. ASSUME NEW k \in Calls, Hub(k)  PROVE Goal
  <2>1. PICK X : Answer(k, X) /\ Effect(k, X)
    BY <1>2, HubDoes
  <2>2. /\ task'[k] = X /\ X.op = task[k].op /\ X.req = task[k].req /\ X.arg = task[k].arg
        /\ \A i \in Calls : i # k => task'[i] = task[i]
    BY <2>1, TaskSet DEF Answer
  <2>3. CASE j # k
    BY <1>1, <2>2, <2>3
  <2>4. CASE j = k
    <3>1. PutsFile(task[k])
      BY <2>2, <2>4 DEF PutsFile
    <3>2. Puts(k)
      BY <2>1, <2>2, <2>4, <3>1 DEF Effect, Gets, Deletes, Merges, Drops, PutsFile
    <3> QED
      BY <1>2, <2>2, <2>4, <3>1, <3>2
  <2> QED
    BY <2>3, <2>4
<1>3. ASSUME NEW k \in Calls, Finish(k)  PROVE Goal
  <2>1. task'[k] = Idle /\ \A i \in Calls : i # k => task'[i] = task[i]
    BY <1>3, TaskDone
  <2> QED
    BY <1>1, <2>1 DEF PutsFile, Idle
<1>4. ASSUME NEW k \in Calls, NEW X, Sends(k, X)
      PROVE  Goal
  <2>1. task'[k] = X /\ \A i \in Calls : i # k => task'[i] = task[i]
    BY <1>4, TaskSet DEF Sends
  <2>2. X.at = "sent"
    BY <1>4 DEF Sends
  <2> QED
    BY <1>1, <2>1, <2>2
<1> QED
  BY <1>1, <1>2, <1>3, <1>4, CallMoves

LEMMA FlushedStep ==
    ASSUME Types, WritesOf, Flushed, ~ Pipelined, [Next]_vars
    PROVE  Flushed'
<1>1. ASSUME NEW k \in Calls, PutsFile(task'[k]), task'[k].at = "ok"  PROVE task'[k].req.body \subseteq kept'
  <2>1. /\ PutsFile(task[k]) /\ task'[k].req = task[k].req
        /\ task[k].at = "ok" \/ Puts(k)
    BY <1>1, CommitMoves
  <2>2. CASE task[k].at = "ok"
    BY <2>1, <2>2, KeptGrows DEF Flushed
  <2>3. CASE Puts(k)
    BY <2>1, <2>3 DEF Puts
  <2> QED
    BY <2>1, <2>2, <2>3
<1>2. ASSUME NEW k \in Calls, PutsFile(task[k]), File(task[k]) \in DOMAIN fhs  PROVE Closing(File(task[k]))
  <2>1. task[k].op = "end" => task[k].arg.txn = of[File(task[k])]
    BY <1>2 DEF WritesOf
  <2> QED
    BY <1>2, <2>1 DEF Closing, PutsFile, File
<1>3. ASSUME NEW k \in Calls, PutsFile(task'[k]), File(task'[k]) \in DOMAIN fhs'
      PROVE  fhs'[File(task'[k])].buf = task'[k].req.body
  <2>1. PICK g : g = File(task'[k])
    OBVIOUS
  <2>2. CASE /\ PutsFile(task[k]) /\ task'[k].op = task[k].op
             /\ task'[k].req = task[k].req /\ task'[k].arg = task[k].arg
    <3>1. File(task[k]) = g
      BY <2>1, <2>2 DEF File
    <3>2. Suspended(task[k])
      BY <2>2 DEF PutsFile, Types, TaskTypes, Idle
    <3>3. g \in 1 .. nextFH - 1
      BY <2>2, <3>1, <3>2, FileKnown
    <3>4. g \in DOMAIN fhs
      <4>1. ASSUME NEW path, NEW found, Creates(path, found)  PROVE DOMAIN fhs' = DOMAIN fhs \cup {nextFH}
        BY <4>1, CreateOne
      <4>2. g # nextFH
        BY <3>3 DEF Types
      <4>3. CASE Closes
        BY <1>3, <2>1, <4>3, CloseSome
      <4>4. ASSUME NEW f \in Usable, NEW t \in 1 .. MaxTxns, Write(f) \/ AttachToTransaction(f, t)
            PROVE  DOMAIN fhs' = DOMAIN fhs
        BY <4>4, WriteOne, AttachOne
      <4>5. ASSUME NEW f \in Usable, Write(f)  PROVE DOMAIN fhs' = DOMAIN fhs
        BY <4>5, WriteOne
      <4> QED
        BY <1>3, <2>1, <4>1, <4>2, <4>3, <4>4, <4>5, HandleMoves
    <3>5. ~ Write(g)
      BY <1>2, <2>2, <3>1, <3>4 DEF Write
    <3>6. fhs'[g].buf = fhs[g].buf
      BY <1>3, <2>1, <3>4, <3>5, BufferStays
    <3> QED
      BY <2>1, <2>2, <3>1, <3>4, <3>6 DEF Flushed
  <2>3. ASSUME NEW fh \in DOMAIN fhs, SendsCommit(task'[k], fh), task' # task
        PROVE  fhs'[g].buf = task'[k].req.body
    <3>1. g = fh /\ task'[k].req.body = fhs[fh].buf
      BY <2>1, <2>3 DEF SendsCommit, CommitRequest, WriteFile
    <3>2. ~ Write(fh)
      BY <2>3 DEF Write
    <3> QED
      BY <1>3, <2>1, <3>1, <3>2, BufferStays
  <2> QED
    BY <1>3, <2>1, <2>2, <2>3, PutsMoves
<1> QED
  BY <1>1, <1>3 DEF Flushed, PutsFile, File

LEMMA ClosedKeptStep ==
    ASSUME Types, WritesOf, Flushed, ClosedKept, [Next]_vars
    PROVE  ClosedKept'
<1>1. kept \subseteq kept' /\ gone \subseteq gone'
  BY KeptGrows, GoneGrows
<1>2. DOMAIN fhs \subseteq DOMAIN acked
  BY DEF Types, HandleTypes
<1>3. ASSUME NEW g \in DOMAIN acked \ DOMAIN fhs  PROVE acked'[g] \subseteq kept' \cup gone'
  <2>1. acked'[g] = acked[g]
    BY <1>3, AckedGrows
  <2> QED
    BY <1>1, <2>1 DEF ClosedKept
<1>4. ASSUME NEW g \in DOMAIN fhs \ DOMAIN fhs'  PROVE acked[g] \subseteq kept' \cup gone'
  <2>1. CASE ~ Dirty(g)
    BY <2>1 DEF Dirty, WritesOf
  <2>2. CASE Committed(g)
    <3>1. PICK k \in Calls : PutsFile(task[k]) /\ task[k].at = "ok" /\ File(task[k]) = g
      BY <2>2 DEF Committed
    <3>2. acked[g] \subseteq fhs[g].buf
      BY DEF WritesOf
    <3>3. task[k].req.body \subseteq kept /\ fhs[g].buf = task[k].req.body
      BY <3>1 DEF Flushed
    <3> QED
      BY <1>1, <3>2, <3>3
  <2>3. CASE Aborts(g)
    BY <2>3 DEF Aborts, Abort
  <2> QED
    BY <2>1, <2>2, <2>3, HandlesLeave
<1>5. CASE Closes
  <2>1. acked' = acked
    BY <1>5, CloseSome
  <2> QED
    BY <1>3, <1>4, <2>1 DEF ClosedKept
<1>6. ASSUME NEW path, NEW found, Creates(path, found)  PROVE ClosedKept'
  <2>1. DOMAIN fhs' = DOMAIN fhs \cup {nextFH} /\ DOMAIN acked' = DOMAIN acked \cup {nextFH}
    BY <1>6, CreateOne
  <2> QED
    BY <1>3, <2>1 DEF ClosedKept
<1>7. ASSUME NEW f \in Usable, Write(f)  PROVE ClosedKept'
  <2>1. DOMAIN fhs' = DOMAIN fhs /\ DOMAIN acked' = DOMAIN acked
    BY <1>7, WriteOne
  <2> QED
    BY <1>3, <2>1 DEF ClosedKept
<1>8. ASSUME NEW f \in Usable, NEW t \in 1 .. MaxTxns, AttachToTransaction(f, t)  PROVE ClosedKept'
  <2>1. DOMAIN fhs' = DOMAIN fhs /\ acked' = acked
    BY <1>8, AttachOne
  <2> QED
    BY <1>3, <2>1 DEF ClosedKept
<1> QED
  BY <1>5, <1>6, <1>7, <1>8, HandleMoves

KeepInv == OwnInv /\ (Pipelined \/ (Flushed /\ ClosedKept))

LEMMA KeepHolds == Spec => []KeepInv
<1>1. Init => Flushed /\ ClosedKept
  BY DEF Init, Idle, Flushed, ClosedKept, PutsFile
<1>2. Init => KeepInv
  BY <1>1, OwnStart DEF KeepInv
<1>3. OwnInv /\ [Next]_vars => OwnInv'
  BY TypesStep, KnownStep, ExtendsStep, ShaStep, RenameStep, CopiesStep, TxnControlStep,
     WritesOfStep, IsolatedStep DEF OwnInv, DataInv
<1>4. KeepInv /\ [Next]_vars => KeepInv'
  BY <1>3, FlushedStep, ClosedKeptStep DEF KeepInv, OwnInv, DataInv
<1> QED
  BY <1>2, <1>4, PTL DEF Spec

\* Every write that writeFile acknowledged is in a commit, or in the buffer of an
\* open handle, or was given up by an abort: whatever closeFile and endTransaction
\* have failed, raced or committed without an answer.
THEOREM NotLost == Spec => []AckedNotLost
<1>1. KeepInv => AckedNotLost
  <2> SUFFICES ASSUME KeepInv, ~ Pipelined, NEW fh \in DOMAIN acked
               PROVE  acked[fh] \subseteq kept \cup gone \cup
                      (IF fh \in DOMAIN fhs THEN fhs[fh].buf ELSE {})
    BY DEF AckedNotLost
  <2>1. CASE fh \in DOMAIN fhs
    BY <2>1 DEF KeepInv, OwnInv, WritesOf
  <2>2. CASE fh \notin DOMAIN fhs
    BY <2>2 DEF KeepInv, ClosedKept
  <2> QED
    BY <2>1, <2>2
<1> QED
  BY <1>1, KeepHolds, PTL

-----------------------------------------------------------------------------
(***************************************************************************)
(* The end of a transaction: what it has committed, and what it merges.    *)
(***************************************************************************)

\* The steps that change what an endTransaction under way waits for.
LEMMA EndMoves ==
    ASSUME Types, [Next]_vars, NEW j \in Calls, task'[j].op = "end"
    PROVE  \/ task[j].op = "end" /\ task'[j].req = task[j].req /\ task'[j].arg = task[j].arg
           \/ \E t \in 1 .. MaxTxns : End(j, t)
           \/ EndGoesOn(j)
<1> DEFINE Goes == task[j].op = "end" /\ task'[j].req = task[j].req /\ task'[j].arg = task[j].arg
           Goal == \/ Goes
                   \/ \E t \in 1 .. MaxTxns : End(j, t)
                   \/ EndGoesOn(j)
<1>1. ASSUME task'[j] = task[j]  PROVE Goes
  BY <1>1
<1>2. ASSUME NEW k \in Calls, Hub(k)  PROVE Goes
  <2>1. PICK X : Answer(k, X)
    BY <1>2, HubDoes
  <2>2. /\ task'[k] = X /\ X.op = task[k].op /\ X.req = task[k].req /\ X.arg = task[k].arg
        /\ \A i \in Calls : i # k => task'[i] = task[i]
    BY <2>1, TaskSet DEF Answer
  <2> QED
    BY <1>1, <2>2
<1>3. ASSUME NEW k \in Calls, Finish(k)  PROVE Goes
  <2>1. task'[k] = Idle /\ \A i \in Calls : i # k => task'[i] = task[i]
    BY <1>3, TaskDone
  <2> QED
    BY <1>1, <2>1 DEF Idle
<1>4. ASSUME NEW k \in Calls, NEW op, NEW req, NEW arg, Suspend(k, op, req, arg), op # "end" \/ j # k
      PROVE  Goes
  <2>1. PICK X : task' = [task EXCEPT ![k] = X] /\ X.op = op
    <3>1. Suspend(k, op, req, arg)
      BY <1>4
    <3> QED
      BY <3>1, SuspendSends
  <2>2. task'[k] = X /\ \A i \in Calls : i # k => task'[i] = task[i]
    BY <2>1, TaskSet
  <2> QED
    BY <1>1, <1>4, <2>1, <2>2
<1>5. ASSUME NEW k \in Calls, Throws(k) \/ OpenAnswered(k) \/ Closed(k) \/ Over(k)
      PROVE  Goes
  BY <1>3, <1>5 DEF Throws, OpenAnswered, Closed, Over
<1>6. ASSUME NEW k \in Calls, NEW path, NEW op \in {"open", "create"}, NEW to,
             Open(k, op, path) \/ Opened(k, op) \/ Delete(k, path) \/ Rename(k, path, to)
      PROVE  Goes
  BY <1>3, <1>4, <1>6 DEF Open, Opened, Delete, Rename
<1>7. ASSUME NEW k \in Calls, DeleteGoesOn(k) \/ RenameGoesOn(k)
      PROVE  Goes
  BY <1>3, <1>4, <1>7 DEF DeleteGoesOn, RenameGoesOn
<1>8. ASSUME NEW k \in Calls, NEW fh \in Usable, Close(k, fh)  PROVE Goes
  BY <1>1, <1>4, <1>8 DEF Close
<1>9. ASSUME NEW k \in Calls, NEW t \in 1 .. MaxTxns, Abort(k, t)  PROVE Goes
  BY <1>4, <1>9 DEF Abort
<1>10. ASSUME NEW k \in Calls, NEW t \in 1 .. MaxTxns, End(k, t), j # k  PROVE Goes
  BY <1>4, <1>10 DEF End, FlushFrom
<1>11. ASSUME NEW k \in Calls, EndGoesOn(k), j # k  PROVE Goes
  BY <1>4, <1>11 DEF EndGoesOn, FlushFrom
<1>12. ASSUME NEW t, \/ CreateBranchReads(t) \/ CreateBranchPosts(t) \/ CreateBranchFails(t)
                     \/ Begin \/ UNCHANGED vars
       PROVE  Goes
  <2>1. UNCHANGED task
    BY <1>12 DEF CreateBranchReads, CreateBranchPosts, CreateBranchFails, Begin, vars
  <2> QED
    BY <1>1, <2>1
<1>13. ASSUME NEW fh, NEW t, Write(fh) \/ AttachToTransaction(fh, t)  PROVE Goes
  <2>1. UNCHANGED task
    BY <1>13 DEF Write, AttachToTransaction
  <2> QED
    BY <1>1, <2>1
<1>14. Goal
  <2>1. ASSUME NEW k \in Calls, EndGoesOn(k)  PROVE Goal
    BY <1>11, <2>1
  <2>2. ASSUME NEW k \in Calls, NEW t \in 1 .. MaxTxns, End(k, t)  PROVE Goal
    BY <1>10, <2>2
  <2> HIDE DEF Goes
  <2> QED
    BY <1>2, <1>5, <1>6, <1>7, <1>8, <1>9, <1>12, <1>13, <2>1, <2>2, Zenon DEF Next
<1> QED
  BY <1>14

\* What FlushFrom leaves attached, if there was nothing up to "last".
LEMMA FlushEnds ==
    ASSUME Types, NEW k \in Calls, NEW t \in 1 .. nextTxn - 1, NEW last \in Nat,
           NEW handles \in SUBSET DOMAIN fhs,
           \A fh \in DOMAIN fhs : fh > last => fh \in handles,
           \A fh \in handles : fhs[fh].branch = t => fh > last,
           FlushFrom(k, t, last, handles)
    PROVE  \A fh \in DOMAIN fhs' : fhs'[fh].branch = task'[k].arg.txn =>
              task'[k].req.do = "put" /\ fh >= task'[k].arg.fh
<1>1. DOMAIN fhs \subseteq Nat
  BY DEF Types, HandleTypes
<1>2. CASE MergesNow(k, t, last, handles)
  <2>1. PICK X : X = Waiting("end", Merge(t), [txn |-> t, fh |-> 0])
    OBVIOUS
  <2>2. task'[k] = X
    BY <1>2, <2>1, TaskSet DEF MergesNow
  <2>3. X.arg.txn = t
    BY <2>1 DEF Waiting
  <2>4. \A fh \in DOMAIN fhs' : fh \in handles /\ fhs'[fh] = fhs[fh] /\ fh \notin Attached(t, last)
    BY <1>2 DEF MergesNow
  <2>5. \A fh \in DOMAIN fhs' : fhs'[fh].branch # t
    BY <2>4 DEF Attached
  <2> QED
    BY <2>2, <2>3, <2>5
<1>3. ASSUME NEW d \in Attached(t, last), CommitsNext(k, t, last, handles, d)
      PROVE  \A fh \in DOMAIN fhs' : fhs'[fh].branch = task'[k].arg.txn =>
                task'[k].req.do = "put" /\ fh >= task'[k].arg.fh
  <2>1. PICK X : X = Waiting("end", CommitRequest(fhs[d]), [txn |-> t, fh |-> d])
    OBVIOUS
  <2>2. task'[k] = X
    BY <1>3, <2>1, TaskSet DEF CommitsNext
  <2>3. X.arg.txn = t /\ X.arg.fh = d /\ X.req.do = "put"
    BY <2>1 DEF Waiting, CommitRequest, WriteFile
  <2>4. \A fh \in DOMAIN fhs' : /\ fh \in handles /\ fhs'[fh] = fhs[fh]
                                /\ fh \in Attached(t, last) => ~ (fh < d)
    BY <1>3 DEF CommitsNext
  <2>5. \A fh \in DOMAIN fhs' : fhs'[fh].branch = t => ~ (fh < d)
    BY <2>4 DEF Attached
  <2>6. d \in Nat /\ DOMAIN fhs' \subseteq Nat
    BY <1>1, <2>4 DEF Attached
  <2> QED
    BY <2>2, <2>3, <2>5, <2>6
<1> QED
  BY <1>2, <1>3, Flushes

\* What the programs are told: an end that succeeds is that of a call, and an
\* abort is not taken back.
LEMMA OverEnds ==
    ASSUME Types, TxnControl, [Next]_vars, NEW t \in 1 .. MaxTxns
    PROVE  /\ over'[t] = "ended" /\ over[t] # "ended" =>
                \E k \in Calls : Over(k) /\ task[k].op = "end" /\ task[k].arg.txn = t
           /\ Aborted(t) => Aborted(t)'
<1>1. over \in [1 .. MaxTxns -> {"open", "ending", "aborting", "ended", "aborted"}]
  BY DEF Types, TxnTypes
<1>2. CASE UNCHANGED over
  BY <1>2 DEF Aborted
<1>3. ASSUME NEW k \in Calls, EndThrows(k)
      PROVE  over'[t] # "ended" \/ over[t] = "ended"
  BY <1>1, <1>3 DEF EndThrows
<1>4. ASSUME NEW k \in Calls, EndThrows(k), Aborted(t)
      PROVE  Aborted(t)'
  <2>1. over[task[k].arg.txn] = "ending"
    BY <1>4 DEF EndThrows, TxnControl
  <2> QED
    BY <1>1, <1>4, <2>1 DEF EndThrows, Aborted
<1>5. ASSUME NEW k \in Calls, NEW u \in 1 .. MaxTxns, End(k, u) \/ Abort(k, u)
      PROVE  (over'[t] # "ended" \/ over[t] = "ended") /\ (Aborted(t) => Aborted(t)')
  BY <1>1, <1>5 DEF End, Abort, Aborted
<1>6. ASSUME NEW k \in Calls, Over(k), over'[t] = "ended", over[t] # "ended"
      PROVE  task[k].op = "end" /\ task[k].arg.txn = t
  BY <1>1, <1>6 DEF Over
<1>7. ASSUME NEW k \in Calls, Over(k), Aborted(t)  PROVE Aborted(t)'
  <2>1. task[k].op = "end" => over[task[k].arg.txn] = "ending"
    BY DEF TxnControl
  <2> QED
    BY <1>1, <1>7, <2>1 DEF Over, Aborted
<1>8. Begin => UNCHANGED over
  BY DEF Begin, history
<1> QED
  BY <1>2, <1>3, <1>4, <1>5, <1>6, <1>7, <1>8, TxnMoves

LEMMA EndOrderStep ==
    ASSUME Types, Known, TxnControl, WritesOf, EndOrder, [Next]_vars
    PROVE  EndOrder'
<1>1. DOMAIN fhs \subseteq Nat \ {0} /\ MaxTxns \in Nat /\ nextTxn \in 1 .. MaxTxns + 1
  BY ParametersAssumption DEF Types, HandleTypes, TxnTypes
<1>2. \A k \in Calls : task[k].op = "end" => task[k].arg.txn \in 1 .. nextTxn - 1 /\ task[k].arg.fh \in Nat
  <2>1. ASSUME NEW k \in Calls, task[k].op = "end"  PROVE InTxn(task[k].arg)
    <3>1. Suspended(task[k])
      BY <2>1 DEF Types, TaskTypes, Idle
    <3> QED
      BY <2>1, <3>1, Roles
  <2>2. ASSUME NEW k \in Calls, task[k].op = "end"
        PROVE  task[k].arg.txn \in 1 .. nextTxn - 1 /\ task[k].arg.fh \in Nat
    <3>1. InTxn(task[k].arg)
      BY <2>1, <2>2
    <3> QED
      BY <3>1 DEF InTxn, Types
  <2> QED
    BY <2>2
<1>3. ASSUME NEW t \in 1 .. nextTxn - 1, over[t] # "open", NEW g \in DOMAIN fhs', fhs'[g].branch = t
      PROVE  g \in DOMAIN fhs /\ fhs[g].branch = t
  <2>1. CASE Closes
    BY <1>3, <2>1, CloseSome
  <2>2. ASSUME NEW path, NEW found, Creates(path, found)  PROVE g \in DOMAIN fhs /\ fhs[g].branch = t
    <3>1. /\ DOMAIN fhs' = DOMAIN fhs \cup {nextFH} /\ fhs'[nextFH].branch = Main
          /\ \A h \in DOMAIN fhs : fhs'[h] = fhs[h]
      BY <2>2, CreateOne
    <3>2. t # Main
      BY DEF Main
    <3> QED
      BY <1>3, <3>1, <3>2
  <2>3. ASSUME NEW f \in Usable, Write(f)  PROVE g \in DOMAIN fhs /\ fhs[g].branch = t
    BY <1>3, <2>3, WriteOne
  <2>4. ASSUME NEW f \in Usable, NEW u \in 1 .. MaxTxns, AttachToTransaction(f, u)
        PROVE  g \in DOMAIN fhs /\ fhs[g].branch = t
    <3>1. u \in txns /\ over[u] = "open"
      BY <2>4 DEF AttachToTransaction, TxnControl, Running
    <3>2. /\ DOMAIN fhs' = DOMAIN fhs /\ fhs'[f].branch = u
          /\ \A h \in DOMAIN fhs : h # f => fhs'[h] = fhs[h]
      BY <2>4, <3>1, AttachOne
    <3> QED
      BY <1>3, <3>1, <3>2
  <2> QED
    BY <2>1, <2>2, <2>3, <2>4, HandleMoves
<1> DEFINE Ordered(k) == \A fh \in DOMAIN fhs : fhs[fh].branch = task[k].arg.txn =>
                            task[k].req.do = "put" /\ fh >= task[k].arg.fh
<1>4. ASSUME NEW k \in Calls, task'[k].op = "end"  PROVE Ordered(k)'
  <2>1. CASE task[k].op = "end" /\ task'[k].req = task[k].req /\ task'[k].arg = task[k].arg
    <3>1. PICK t : t = task[k].arg.txn
      OBVIOUS
    <3>2. t \in 1 .. nextTxn - 1 /\ over[t] # "open"
      BY <1>2, <2>1, <3>1 DEF TxnControl
    <3>3. Ordered(k)
      BY <2>1 DEF EndOrder
    <3> QED
      BY <1>3, <2>1, <3>1, <3>2, <3>3
  <2>2. ASSUME NEW t \in 1 .. MaxTxns, End(k, t)  PROVE Ordered(k)'
    <3>1. FlushFrom(k, t, 0, DOMAIN fhs) /\ t \in 1 .. nextTxn - 1
      BY <1>1, <2>2 DEF End
    <3>2. \A fh \in DOMAIN fhs : fh > 0
      BY <1>1
    <3> QED
      BY <3>1, <3>2, FlushEnds
  <2>3. CASE EndGoesOn(k)
    <3>1. PICK t, last : t = task[k].arg.txn /\ last = task[k].arg.fh
      OBVIOUS
    <3>2. task[k].op = "end"
      BY <2>3 DEF EndGoesOn, Resumes
    <3>3. t \in 1 .. nextTxn - 1 /\ last \in Nat
      BY <1>2, <3>1, <3>2
    <3>4. \A fh \in DOMAIN fhs : fhs[fh].branch = t => task[k].req.do = "put" /\ fh >= last
      BY <3>1, <3>2 DEF EndOrder
    <3>5. CASE Resumes(k, "end", "put", "ok") /\ FlushFrom(k, t, last, DOMAIN fhs \ {last})
      <4>1. \A fh \in DOMAIN fhs : fh > last => fh \in DOMAIN fhs \ {last}
        BY <3>3
      <4>2. \A fh \in DOMAIN fhs \ {last} : fhs[fh].branch = t => fh > last
        BY <1>1, <3>3, <3>4
      <4> QED
        BY <3>3, <3>5, <4>1, <4>2, FlushEnds
    <3>6. CASE Resumes(k, "end", "merge", "ok") /\ Suspend(k, "end", DeleteBranch(t), task[k].arg) /\ fhs' = fhs
      <4>1. PICK X : task' = [task EXCEPT ![k] = X] /\ X.arg = task[k].arg
        <5>1. Suspend(k, "end", DeleteBranch(t), task[k].arg)
          BY <3>6
        <5> QED
          BY <5>1, SuspendSends
      <4>2. task'[k].arg = task[k].arg
        BY <4>1, TaskSet
      <4>3. \A fh \in DOMAIN fhs : fhs[fh].branch # t
        BY <3>4, <3>6 DEF Resumes
      <4> QED
        BY <3>1, <3>6, <4>2, <4>3
    <3> QED
      BY <2>3, <3>1, <3>5, <3>6 DEF EndGoesOn, volume
  <2> QED
    BY <1>4, <2>1, <2>2, <2>3, EndMoves
<1>5. ASSUME NEW g \in DOMAIN fhs', of'[g] # 0, over'[of'[g]] = "ended"  PROVE FALSE
  <2>1. PICK t : t = of'[g]
    OBVIOUS
  <2>2. fhs'[g].branch = t /\ t \in 1 .. MaxTxns
    <3>1. WritesOf' /\ Types'
      BY TypesStep, WritesOfStep
    <3>2. PICK n, m : n = nextTxn' /\ m = nextFH'
      OBVIOUS
    <3>3. n \in 1 .. MaxTxns + 1 /\ of' \in [1 .. m - 1 -> 0 .. n - 1] /\ DOMAIN fhs' \subseteq 1 .. m - 1
      BY <3>1, <3>2 DEF Types, TxnTypes, HandleTypes
    <3>4. t \in 0 .. n - 1
      BY <2>1, <3>3
    <3> QED
      BY <1>1, <1>5, <2>1, <3>1, <3>3, <3>4 DEF WritesOf
  <2>3. CASE over[t] = "ended"
    <3>1. t \in 1 .. nextTxn - 1
      BY <1>1, <2>2, <2>3 DEF TxnControl
    <3>2. g \in DOMAIN fhs /\ fhs[g].branch = t
      BY <1>3, <2>2, <2>3, <3>1
    <3>3. t # 0
      BY <3>1
    <3> QED
      BY <2>3, <3>2, <3>3 DEF EndOrder, WritesOf
  <2>4. ASSUME NEW k \in Calls, Over(k), task[k].op = "end", task[k].arg.txn = t  PROVE FALSE
    <3>1. fhs' = fhs /\ task[k].req.do = "delete branch"
      BY <2>4 DEF Over
    <3> QED
      BY <2>2, <2>4, <3>1 DEF EndOrder
  <2> QED
    BY <1>5, <2>1, <2>2, <2>3, <2>4, OverEnds
<1> QED
  BY <1>4, <1>5 DEF EndOrder

\* An end that has merged has just done so, or had before.
LEMMA JoinedMoves ==
    ASSUME Types, [Next]_vars, NEW j \in Calls, task'[j].op = "end", JoinedMain(task'[j])
    PROVE  /\ task[j].op = "end" /\ task'[j].arg.txn = task[j].arg.txn
           /\ JoinedMain(task[j]) \/ (Hub(j) /\ Merges(j))
<1> DEFINE Goal == /\ task[j].op = "end" /\ task'[j].arg.txn = task[j].arg.txn
                   /\ JoinedMain(task[j]) \/ (Hub(j) /\ Merges(j))
<1>1. ASSUME task[j].op = "end", task'[j].req = task[j].req, task'[j].arg = task[j].arg  PROVE Goal
  <2>1. CASE task'[j] = task[j]
    BY <1>1, <2>1 DEF JoinedMain
  <2>2. ASSUME NEW k \in Calls, Hub(k)  PROVE Goal
    <3>1. PICK X : Answer(k, X) /\ Effect(k, X)
      BY <2>2, HubDoes
    <3>2. task'[k] = X /\ \A i \in Calls : i # k => task'[i] = task[i]
      BY <3>1, TaskSet DEF Answer
    <3>3. CASE j # k
      BY <2>1, <3>2, <3>3
    <3>4. CASE j = k /\ task[j].req.do = "delete branch"
      BY <1>1, <3>4 DEF JoinedMain
    <3>5. CASE j = k /\ task[j].req.do # "delete branch"
      <4>1. X.req.do = "merge" /\ X.at = "ok"
        BY <1>1, <3>2, <3>5 DEF JoinedMain
      <4>2. Merges(k)
        BY <1>1, <3>1, <3>2, <3>5, <4>1 DEF Effect, Gets, Puts, Deletes, Drops
      <4> QED
        BY <1>1, <2>2, <3>5, <4>2
    <3> QED
      BY <3>3, <3>4, <3>5
  <2>3. ASSUME NEW k \in Calls, Finish(k)  PROVE Goal
    <3>1. task'[k] = Idle /\ \A i \in Calls : i # k => task'[i] = task[i]
      BY <2>3, TaskDone
    <3> QED
      BY <2>1, <3>1 DEF Idle
  <2>4. ASSUME NEW k \in Calls, NEW X, Sends(k, X)  PROVE Goal
    <3>1. task'[k] = X /\ \A i \in Calls : i # k => task'[i] = task[i]
      BY <2>4, TaskSet DEF Sends
    <3>2. X.at = "sent"
      BY <2>4 DEF Sends
    <3>3. CASE j = k
      BY <1>1, <3>1, <3>2, <3>3 DEF JoinedMain
    <3> QED
      BY <2>1, <3>1, <3>3
  <2> QED
    BY <2>1, <2>2, <2>3, <2>4, CallMoves
<1>2. ASSUME NEW t, NEW last, NEW handles, FlushFrom(j, t, last, handles)  PROVE FALSE
  <2>1. PICK req, arg : Suspend(j, "end", req, arg) /\ (req.do = "merge" \/ req.do = "put")
    BY <1>2 DEF FlushFrom, Merge, CommitRequest, WriteFile
  <2>2. PICK X : task' = [task EXCEPT ![j] = X] /\ X.at = "sent" /\ X.req = req
    BY <2>1, SuspendSends
  <2>3. task'[j] = X
    BY <2>2, TaskSet
  <2> QED
    BY <2>1, <2>2, <2>3 DEF JoinedMain
<1>3. ASSUME NEW t \in 1 .. MaxTxns, End(j, t)  PROVE FALSE
  BY <1>2, <1>3 DEF End
<1>4. CASE EndGoesOn(j)
  <2>1. PICK t : t = task[j].arg.txn
    OBVIOUS
  <2>2. Resumes(j, "end", "merge", "ok") /\ Suspend(j, "end", DeleteBranch(t), task[j].arg)
    BY <1>2, <1>4, <2>1 DEF EndGoesOn
  <2>3. PICK X : task' = [task EXCEPT ![j] = X] /\ X.arg = task[j].arg
    BY <2>2, SuspendSends
  <2>4. task'[j] = X
    BY <2>3, TaskSet
  <2> QED
    BY <2>2, <2>3, <2>4 DEF Resumes, JoinedMain
<1> QED
  BY <1>1, <1>3, <1>4, EndMoves

\* The handles of a transaction that has begun to end and has none left open.
LEMMA SettledHandles ==
    ASSUME Types, TxnControl, WritesOf, [Next]_vars, NEW t \in 1 .. MaxTxns, over[t] # "open",
           \A g \in DOMAIN fhs : fhs[g].branch # t
    PROVE  \A g \in DOMAIN of' : of'[g] = t =>
              g \in DOMAIN of \ DOMAIN fhs /\ of[g] = t /\ acked'[g] = acked[g]
<1>1. DOMAIN of = DOMAIN acked /\ t # 0
  BY DEF Types, HandleTypes
<1>2. \A g \in DOMAIN fhs : of[g] # t
  BY DEF WritesOf
<1>3. CASE Closes
  BY <1>2, <1>3, CloseSome
<1>4. ASSUME NEW path, NEW found, Creates(path, found)
      PROVE  \A g \in DOMAIN of' : of'[g] = t =>
                g \in DOMAIN of \ DOMAIN fhs /\ of[g] = t /\ acked'[g] = acked[g]
  <2>1. /\ DOMAIN of' = DOMAIN of \cup {nextFH} /\ of'[nextFH] = 0
        /\ \A g \in DOMAIN of : of'[g] = of[g]
        /\ \A g \in DOMAIN acked : acked'[g] = acked[g]
    BY <1>4, CreateOne
  <2> QED
    BY <1>1, <1>2, <2>1
<1>5. ASSUME NEW f \in Usable, Write(f)
      PROVE  \A g \in DOMAIN of' : of'[g] = t =>
                g \in DOMAIN of \ DOMAIN fhs /\ of[g] = t /\ acked'[g] = acked[g]
  <2>1. f \in DOMAIN fhs /\ of' = of /\ \A g \in DOMAIN acked : g # f => acked'[g] = acked[g]
    BY <1>5, WriteOne
  <2> QED
    BY <1>1, <1>2, <2>1
<1>6. ASSUME NEW f \in Usable, NEW u \in 1 .. MaxTxns, AttachToTransaction(f, u)
      PROVE  \A g \in DOMAIN of' : of'[g] = t =>
                g \in DOMAIN of \ DOMAIN fhs /\ of[g] = t /\ acked'[g] = acked[g]
  <2>1. over[u] = "open"
    BY <1>6 DEF AttachToTransaction
  <2>2. /\ DOMAIN of' = DOMAIN of /\ of'[f] = u /\ acked' = acked
        /\ \A g \in DOMAIN of : g # f => of'[g] = of[g]
    BY <1>6, AttachOne
  <2> QED
    BY <1>1, <1>2, <2>1, <2>2
<1> QED
  BY <1>3, <1>4, <1>5, <1>6, HandleMoves

\* What has reached the branch of a transaction stays there, or has reached main
\* when the branch is deleted.
LEMMA ReachStays ==
    ASSUME Types, Known, ShaHeld, RenameOK, TxnControl, BranchHolds, [Next]_vars,
           NEW t \in 1 .. MaxTxns, ~ Aborted(t), NEW w, Reached(w, t),
           NEW f \in DOMAIN of, of[f] = t, w \in onMain \cup acked[f]
    PROVE  Reached(w, t)'
<1>1. onMain \subseteq onMain' /\ t # Main
  BY MainSeen DEF Main
<1>2. SUFFICES ASSUME w \notin onMain, t \in DOMAIN repo, NEW p \in Paths, w \in In(repo[t][p])
               PROVE  Reached(w, t)'
  BY <1>1 DEF Reached
<1>3. ASSUME t \in DOMAIN repo', repo'[t] = repo[t]  PROVE Reached(w, t)'
  BY <1>2, <1>3 DEF Reached
<1>4. repo \in [DOMAIN repo -> Trees]
  BY DEF Types, HubTypes
<1>5. ASSUME NEW k \in Calls, Hub(k)  PROVE Reached(w, t)'
  <2>1. Suspended(task[k]) /\ \E X : Effect(k, X)
    BY <1>5, HubDoes
  <2>2. CASE Ignored \/ Gets(k)
    BY <1>2, <1>3, <2>2 DEF Ignored, Gets
  <2>3. CASE Deletes(k) \/ Merges(k)
    <3>1. \E M : repo' = [repo EXCEPT ![Main] = M]
      BY <2>3 DEF Deletes, Merges
    <3>2. DOMAIN repo' = DOMAIN repo /\ repo'[t] = repo[t]
      BY <1>1, <3>1
    <3> QED
      BY <1>2, <1>3, <3>2
  <2>4. CASE Puts(k)
    <3>1. PICK r : r = task[k].req
      OBVIOUS
    <3>2. /\ repo' = [repo EXCEPT ![r.branch] = [repo[r.branch] EXCEPT ![r.path] = r.body]]
          /\ r.path \in Paths /\ r.branch \in DOMAIN repo /\ r.body \in Contents
          /\ repo[r.branch][r.path] = r.sha /\ r.do = "put"
      BY <2>4, <3>1 DEF Puts, IsPut
    <3>3. CASE r.branch # t
      <4>1. DOMAIN repo' = DOMAIN repo /\ repo'[t] = repo[t]
        BY <3>2, <3>3
      <4> QED
        BY <1>2, <1>3, <4>1
    <3>4. CASE r.branch = t
      <4>1. \A q \in Paths : repo'[t][q] = IF q = r.path THEN r.body ELSE repo[t][q]
        BY <1>4, <3>2, <3>4 DEF Trees
      <4>2. task[k].op # "rename"
        <5>1. SUFFICES ASSUME task[k].op = "rename"  PROVE FALSE
          OBVIOUS
        <5>2. r = RenameCopy(task[k].arg)
          BY <3>1, <3>2, <5>1 DEF RenameOK
        <5> QED
          BY <1>1, <3>4, <5>2 DEF RenameCopy, WriteFile
      <4>3. PutsFile(task[k])
        <5>1. task[k].op \in {"close", "rename", "end"}
          BY <2>1, <3>1, <3>2, Roles
        <5> QED
          BY <3>1, <3>2, <4>2, <5>1 DEF PutsFile
      <4>4. In(r.sha) \subseteq r.body
        BY <3>1, <4>3 DEF ShaHeld
      <4>5. In(r.body) = r.body
        <5>1. r.body # None
          BY <3>2, ContentIsSome DEF Types
        <5> QED
          BY <5>1 DEF In
      <4>6. w \in In(repo'[t][p])
        BY <1>2, <3>2, <3>4, <4>1, <4>4, <4>5
      <4>7. t \in DOMAIN repo'
        BY <1>2, <3>2
      <4> QED
        BY <4>6, <4>7 DEF Reached
    <3> QED
      BY <3>3, <3>4
  <2>5. CASE Drops(k)
    <3>1. PICK u : u = task[k].req.branch
      OBVIOUS
    <3>2. /\ u = task[k].arg.txn /\ task[k].req.do = "delete branch"
          /\ repo' = [b \in DOMAIN repo \ {u} |-> repo[b]]
      BY <2>5, <3>1 DEF Drops
    <3>3. CASE u # t
      BY <1>2, <1>3, <3>2, <3>3
    <3>4. CASE u = t
      <4>1. task[k].op = "end" \/ task[k].op = "abort"
        BY <2>1, <3>2, Roles
      <4>2. task[k].op # "abort"
        BY <3>2, <3>4 DEF TxnControl, Aborted
      <4>3. acked[f] \subseteq onMain
        BY <3>2, <3>4, <4>1, <4>2 DEF BranchHolds, JoinedMain
      <4> QED
        BY <1>2, <4>3
    <3> QED
      BY <3>3, <3>4
  <2> QED
    BY <2>1, <2>2, <2>3, <2>4, <2>5 DEF Effect
<1>6. ASSUME NEW u, CreateBranchPosts(u)  PROVE Reached(w, t)'
  <2>1. u \notin DOMAIN repo
    BY <1>6 DEF CreateBranchPosts, Types, HubTypes
  <2>2. DOMAIN repo' = DOMAIN repo \cup {u} /\ repo'[t] = repo[t]
    BY <1>2, <1>6, <2>1 DEF CreateBranchPosts
  <2> QED
    BY <1>2, <1>3, <2>2
<1>7. ASSUME NEW u, CreateBranchReads(u) \/ CreateBranchFails(u) \/ Begin
      PROVE  repo' = repo
  BY <1>7 DEF CreateBranchReads, CreateBranchFails, Begin
<1>8. ASSUME UNCHANGED <<hub, kept, onMain, merged>>  PROVE repo' = repo
  BY <1>8 DEF hub
<1> QED
  BY <1>2, <1>3, <1>5, <1>6, <1>7, <1>8, HubChanges

LEMMA BranchStep ==
    ASSUME Types, Known, Extends, ShaHeld, RenameOK, TxnControl, WritesOf, Flushed, EndOrder,
           BranchHolds, [Next]_vars
    PROVE  BranchHolds'
<1>1. onMain \subseteq onMain' /\ Types'
  BY MainSeen, TypesStep
<1>2. MaxTxns \in Nat /\ nextTxn \in 1 .. MaxTxns + 1 /\ DOMAIN of = DOMAIN acked /\ DOMAIN fhs \subseteq DOMAIN of
  BY ParametersAssumption DEF Types, TxnTypes, HandleTypes
<1>3. \A g \in DOMAIN of : of[g] \in 0 .. nextTxn - 1
  BY DEF Types, HandleTypes
<1>4. ASSUME NEW g \in DOMAIN of', of'[g] # 0  PROVE of'[g] \in 1 .. MaxTxns
  <2>1. PICK n, m : n = nextTxn' /\ m = nextFH'
    OBVIOUS
  <2>2. n \in 1 .. MaxTxns + 1 /\ of' \in [1 .. m - 1 -> 0 .. n - 1]
    BY <1>1, <2>1 DEF Types, TxnTypes, HandleTypes
  <2>3. of'[g] \in 0 .. n - 1
    BY <1>4, <2>2
  <2> QED
    BY <1>2, <1>4, <2>2, <2>3
\* A handle that is closed.
<1>5. ASSUME NEW t, NEW g \in DOMAIN of' \ DOMAIN fhs', of'[g] = t, t # 0, ~ Aborted(t)', NEW w \in acked'[g]
      PROVE  Reached(w, t)'
  <2>1. t = of'[g]
    BY <1>5
  <2>2. t \in 1 .. MaxTxns
    BY <1>4, <1>5, <2>1
  <2>3. ~ Aborted(t)
    BY <1>5, <2>2, OverEnds
  <2>4. CASE g \in DOMAIN of \ DOMAIN fhs
    <3>1. acked'[g] = acked[g] /\ of'[g] = of[g]
      BY <1>2, <2>4, AckedGrows
    <3>2. of[g] = t /\ t # 0
      BY <1>5, <2>1, <3>1
    <3>3. \A v \in acked[g] : Reached(v, of[g])
      BY <2>3, <2>4, <3>2 DEF BranchHolds
    <3>4. Reached(w, t) /\ w \in acked[g]
      BY <1>5, <3>1, <3>2, <3>3
    <3>5. Reached(w, t)'
      BY <2>2, <2>3, <2>4, <3>2, <3>4, ReachStays
    <3> QED
      BY <3>5
  <2>5. CASE g \in DOMAIN fhs
    <3>1. acked' = acked /\ of' = of
      <4>1. ASSUME NEW path, NEW found, Creates(path, found)  PROVE FALSE
        BY <1>5, <2>5, <4>1, CreateOne
      <4>2. ASSUME NEW f \in Usable, NEW u \in 1 .. MaxTxns, AttachToTransaction(f, u)  PROVE FALSE
        BY <1>5, <2>5, <4>2, AttachOne
      <4>3. ASSUME NEW f \in Usable, Write(f)  PROVE FALSE
        BY <1>5, <2>5, <4>3, WriteOne
      <4> QED
        BY <4>1, <4>2, <4>3, HandleMoves, CloseSome
    <3>2. of[g] = t /\ t # 0 /\ w \in acked[g] /\ fhs[g].branch = t
      BY <1>5, <2>1, <2>5, <3>1 DEF WritesOf
    <3>3. Dirty(g)
      BY <2>5, <3>2 DEF WritesOf, Dirty
    <3>4. ~ Aborts(g)
      <4>1. ASSUME NEW k \in Calls, NEW u \in 1 .. MaxTxns, Abort(k, u), g \in Attached(u, 0)  PROVE FALSE
        <5>1. u = t
          BY <3>2, <4>1 DEF Attached
        <5>2. over' = [over EXCEPT ![u] = "aborting"]
          BY <4>1 DEF Abort
        <5>3. over'[t] = "aborting"
          BY <2>2, <5>1, <5>2 DEF Types, TxnTypes
        <5> QED
          BY <1>5, <2>1, <5>3 DEF Aborted
      <4> QED
        BY <4>1 DEF Aborts
    <3>5. g \in DOMAIN fhs \ DOMAIN fhs'
      BY <1>5, <2>5
    <3>6. PICK k \in Calls : PutsFile(task[k]) /\ task[k].at = "ok" /\ File(task[k]) = g
      BY <3>3, <3>4, <3>5, HandlesLeave DEF Committed
    <3>7. w \in task[k].req.body /\ task[k].req.branch = t
      BY <2>5, <3>2, <3>6 DEF WritesOf, Flushed
    <3>8. Reached(w, t)
      BY <2>3, <3>2, <3>6, <3>7 DEF BranchHolds
    <3>9. Reached(w, t)'
      BY <1>2, <2>2, <2>3, <2>5, <3>2, <3>8, ReachStays
    <3> QED
      BY <3>9
  <2>6. CASE g \notin DOMAIN of
    <3>1. ASSUME NEW path, NEW found, Creates(path, found)  PROVE FALSE
      <4>1. DOMAIN fhs' = DOMAIN fhs \cup {nextFH} /\ DOMAIN of' = DOMAIN of \cup {nextFH}
        BY <3>1, CreateOne
      <4> QED
        BY <1>5, <2>6, <4>1
    <3>2. ASSUME NEW f \in Usable, NEW u \in 1 .. MaxTxns, AttachToTransaction(f, u)  PROVE FALSE
      BY <1>5, <2>6, <3>2, AttachOne
    <3>3. ASSUME NEW f \in Usable, Write(f)  PROVE FALSE
      BY <1>5, <2>6, <3>3, WriteOne
    <3>4. CASE Closes
      BY <1>5, <2>6, <3>4, CloseSome
    <3> QED
      BY <3>1, <3>2, <3>3, <3>4, HandleMoves
  <2> QED
    BY <2>4, <2>5, <2>6
\* A commit that has ended well.
<1>6. ASSUME NEW j \in Calls, PutsFile(task'[j]), task'[j].at = "ok", NEW t, t = task'[j].req.branch, t # 0,
             ~ Aborted(t)', NEW w \in task'[j].req.body
      PROVE  Reached(w, t)'
  <2>1. PICK r, f : r = task[j].req /\ f = File(task[j])
    OBVIOUS
  <2>2. /\ PutsFile(task[j]) /\ task'[j].req = r
        /\ task[j].at = "ok" \/ Puts(j)
    BY <1>6, <2>1, CommitMoves
  <2>3. Suspended(task[j])
    BY <2>2 DEF PutsFile, Types, TaskTypes, Idle
  <2>4. IsPut(r) /\ f \in DOMAIN of
    BY <2>1, <2>2, <2>3, FileKnown DEF Types, HandleTypes
  <2>5. t = r.branch
    BY <1>6, <2>2
  <2>6. /\ t \in 1 .. MaxTxns /\ of[f] = t /\ r.body \subseteq onMain \cup acked[f] /\ w \in r.body
        /\ r.body \in Contents /\ r.path \in Paths
    <3>1. r.branch \in 0 .. nextTxn - 1 /\ r.body \in Contents /\ r.path \in Paths
      BY <2>4 DEF IsPut
    <3>2. t \in 1 .. MaxTxns
      BY <1>2, <1>6, <2>2, <2>5, <3>1
    <3> QED
      BY <1>6, <2>1, <2>2, <2>5, <3>1, <3>2 DEF WritesOf
  <2>7. ~ Aborted(t)
    BY <1>6, <2>6, OverEnds
  <2>8. CASE task[j].at = "ok"
    <3>1. Reached(w, t)
      BY <1>6, <2>1, <2>2, <2>5, <2>6, <2>7, <2>8 DEF BranchHolds
    <3>2. Reached(w, t)'
      BY <2>4, <2>6, <2>7, <3>1, ReachStays
    <3> QED
      BY <3>2
  <2>9. CASE Puts(j)
    <3>1. /\ repo' = [repo EXCEPT ![t] = [repo[t] EXCEPT ![r.path] = r.body]] /\ t \in DOMAIN repo
      BY <2>1, <2>5, <2>9 DEF Puts
    <3>2. t \in DOMAIN repo' /\ repo'[t][r.path] = r.body
      BY <2>6, <3>1 DEF Types, HubTypes, Trees
    <3>3. r.body # None
      BY <2>6, ContentIsSome DEF Types
    <3> QED
      BY <2>6, <3>2, <3>3 DEF Reached, In
  <2> QED
    BY <2>2, <2>8, <2>9
\* An end that has merged.
<1>7. ASSUME NEW j \in Calls, task'[j].op = "end", JoinedMain(task'[j]),
             NEW g \in DOMAIN of', of'[g] = task'[j].arg.txn
      PROVE  acked'[g] \subseteq onMain'
  <2>1. PICK t : t = task[j].arg.txn
    OBVIOUS
  <2>2. /\ task[j].op = "end" /\ task'[j].arg.txn = t
        /\ JoinedMain(task[j]) \/ Merges(j)
    BY <1>7, <2>1, JoinedMoves
  <2>3. t \in 1 .. MaxTxns /\ over[t] = "ending"
    <3>1. Suspended(task[j])
      BY <2>2 DEF Types, TaskTypes, Idle
    <3>2. InTxn(task[j].arg)
      BY <2>2, <3>1, Roles
    <3>3. t \in 1 .. nextTxn - 1
      BY <2>1, <3>2 DEF InTxn
    <3> QED
      BY <1>2, <2>1, <2>2, <3>3 DEF TxnControl
  <2>4. \A h \in DOMAIN fhs : fhs[h].branch # t
    <3>1. task[j].req.do # "put"
      BY <2>2 DEF JoinedMain, Merges
    <3> QED
      BY <2>1, <2>2, <3>1 DEF EndOrder
  <2>5. g \in DOMAIN of \ DOMAIN fhs /\ of[g] = t /\ acked'[g] = acked[g]
    BY <1>7, <2>2, <2>3, <2>4, SettledHandles
  <2>6. CASE JoinedMain(task[j])
    BY <1>1, <2>1, <2>2, <2>5, <2>6 DEF BranchHolds
  <2>7. CASE Merges(j)
    <3>1. t = task[j].req.branch /\ t \in DOMAIN repo /\ t # 0
      BY <2>1, <2>3, <2>7 DEF Merges
    <3>2. \A w \in acked[g] : Reached(w, t)
      BY <2>3, <2>5, <3>1 DEF BranchHolds, Aborted
    <3>3. ASSUME NEW p \in Paths  PROVE In(repo[t][p]) \subseteq onMain'
      <4>1. In(repo[t][p]) \subseteq In(repo'[Main][p]) \cup In(base[t][p])
        BY <2>7, <3>1, MergeAdds
      <4>2. In(base[t][p]) \subseteq onMain
        BY <3>1 DEF Known
      <4>3. In(repo'[Main][p]) \subseteq onMain'
        <5>1. Tree(Main)' \subseteq onMain'
          BY MainSeen
        <5> QED
          BY <5>1 DEF Tree
      <4> QED
        BY <1>1, <4>1, <4>2, <4>3
    <3>4. \A w \in acked[g] : w \in onMain \/ \E p \in Paths : w \in In(repo[t][p])
      BY <3>2 DEF Reached
    <3> QED
      BY <1>1, <2>5, <3>3, <3>4
  <2> QED
    BY <2>2, <2>6, <2>7
\* A transaction that has ended.
<1>8. ASSUME NEW g \in DOMAIN of', of'[g] # 0, over'[of'[g]] = "ended"
      PROVE  acked'[g] \subseteq onMain'
  <2>1. PICK t : t = of'[g]
    OBVIOUS
  <2>2. t \in 1 .. MaxTxns
    BY <1>4, <1>8, <2>1
  <2>3. CASE over[t] = "ended"
    <3>1. \A h \in DOMAIN fhs : fhs[h].branch # t
      <4>1. t # 0
        BY <2>2
      <4> QED
        BY <2>3, <4>1 DEF EndOrder, WritesOf
    <3>2. g \in DOMAIN of \ DOMAIN fhs /\ of[g] = t /\ acked'[g] = acked[g]
      BY <1>8, <2>1, <2>2, <2>3, <3>1, SettledHandles
    <3> QED
      BY <1>1, <1>8, <2>1, <2>3, <3>2 DEF BranchHolds
  <2>4. ASSUME NEW k \in Calls, Over(k), task[k].op = "end", task[k].arg.txn = t
        PROVE  acked'[g] \subseteq onMain'
    <3>1. acked' = acked /\ of' = of /\ JoinedMain(task[k])
      BY <2>4 DEF Over, JoinedMain
    <3> QED
      BY <1>1, <1>8, <2>1, <2>4, <3>1 DEF BranchHolds
  <2> QED
    BY <1>8, <2>1, <2>2, <2>3, <2>4, OverEnds
<1>9. ASSUME NEW g \in DOMAIN of' \ DOMAIN fhs', of'[g] # 0, ~ (over'[of'[g]] \in {"aborting", "aborted"}),
             NEW w \in acked'[g]
      PROVE  w \in onMain' \/ (of'[g] \in DOMAIN repo' /\ \E p \in Paths : w \in In(repo'[of'[g]][p]))
  <2>1. PICK t : t = of'[g]
    OBVIOUS
  <2>2. Reached(w, t)'
    BY <1>5, <1>9, <2>1 DEF Aborted
  <2> QED
    BY <2>1, <2>2 DEF Reached
<1>10. ASSUME NEW k \in Calls, PutsFile(task'[k]), task'[k].at = "ok", task'[k].req.branch # 0,
              ~ (over'[task'[k].req.branch] \in {"aborting", "aborted"}), NEW w \in task'[k].req.body
       PROVE  w \in onMain' \/ (/\ task'[k].req.branch \in DOMAIN repo'
                                /\ \E p \in Paths : w \in In(repo'[task'[k].req.branch][p]))
  <2>1. PICK t : t = task'[k].req.branch
    OBVIOUS
  <2>2. Reached(w, t)'
    BY <1>6, <1>10, <2>1 DEF Aborted
  <2> QED
    BY <2>1, <2>2 DEF Reached
<1>11. ASSUME NEW k \in Calls, task'[k].op = "end", JoinedMain(task'[k]),
              NEW g \in DOMAIN of', of'[g] = task'[k].arg.txn
       PROVE  acked'[g] \subseteq onMain'
  BY <1>7, <1>11
<1> QED
  BY <1>8, <1>9, <1>10, <1>11 DEF BranchHolds, Reached, Aborted, PutsFile, JoinedMain

EndInv == KeepInv /\ EndOrder /\ (Pipelined \/ BranchHolds)

\* When endTransaction succeeds, everything that was written under the transaction,
\* by every handle that was attached, has reached main: no handle is passed over,
\* and no commit is counted that was not made.
THEOREM EndsWhole == Spec => []EndCommitsAll
<1>1. Init => EndOrder /\ BranchHolds
  BY DEF Init, Idle, EndOrder, BranchHolds, PutsFile
<1>2. EndInv /\ [Next]_vars => EndOrder' /\ (Pipelined \/ BranchHolds')
  BY EndOrderStep, BranchStep DEF EndInv, KeepInv, OwnInv, DataInv
<1>3. EndInv => EndCommitsAll
  BY DEF EndInv, BranchHolds, EndCommitsAll
<1>4. Init /\ KeepInv => EndInv
  BY <1>1 DEF EndInv
<1>5. EndInv /\ [Next]_vars /\ KeepInv' => EndInv'
  BY <1>2 DEF EndInv
<1> QED
  BY <1>3, <1>4, <1>5, KeepHolds, PTL DEF Spec
=============================================================================
