--------------------------- MODULE GitHubVolume ---------------------------
(***************************************************************************)
(* A volume kept in a GitHub repository: nw-github-volume.js, with the     *)
(* requests nw-file-service.js makes of it.  Every call that talks to      *)
(* GitHub is suspended until the answer is in, and other calls run in the  *)
(* meantime; reads and writes of an open file touch its buffer only and    *)
(* never wait.                                                             *)
(*                                                                         *)
(* GitHub itself is external: per branch and path a content, whose hash is *)
(* the sha the API asks for.  Content is the set of the writes it holds:   *)
(* programs write to places of their own in a file.  The file service      *)
(* seeks before each read or write, so that positions are left out.        *)
(***************************************************************************)
EXTENDS Integers, FiniteSetsExt

CONSTANTS
    Calls,      \* requests and transaction calls the programs may issue
    Ops,        \* which ones: a subset of AllOps
    Paths,      \* paths of files
    None,       \* null: no file, no sha
    MaxOpens,   \* bound: files opened or created
    MaxWrites,  \* bound: writes
    MaxTxns,    \* bound: transactions
    MaxMoves,   \* bound: deletes and renames
    MaxFaults,  \* bound: requests to GitHub that end in an error of the network
    Pipelined   \* TRUE: programs write to a handle while it is being closed

AllOps == {"open", "create", "close", "delete", "rename", "begin", "end", "abort"}

ASSUME ParametersAssumption ==
    /\ Ops \subseteq AllOps
    /\ IsFiniteSet(Calls) /\ IsFiniteSet(Paths)
    /\ None \notin Paths /\ \A c \in SUBSET (1 .. MaxWrites) : c # None
    /\ {MaxOpens, MaxWrites, MaxTxns, MaxMoves, MaxFaults} \subseteq Nat
    /\ Pipelined \in BOOLEAN

VARIABLES
    repo,     \* GitHub: branch -> path -> content or None
    base,     \* GitHub: branch -> where it left, or last joined, main
    fhs,      \* _fhs: handle -> [path, sha, buf, dirty, branch]
    nextFH,   \* _nextFH
    txns,     \* _txns: the transactions that have a branch, named by number
    nextTxn,  \* _nextTxn, from 1 on
    birth,    \* createBranch in the background: txn -> what it read of main
    task,     \* task[k]: where call k stands
    faults,   \* faults so far
    writes,   \* writes so far; a write is named by its number
    moves,    \* deletes and renames so far
    given,    \* the handles the programs were answered with
    acked,    \* history: acked[fh], the writes to fh that were acknowledged
    kept,     \* history: writes that were committed, to any branch
    onMain,   \* history: writes that have been on main
    gone,     \* history: writes removed from main by a delete, or by abort
    of,       \* history: of[fh], the transaction fh was attached to, 0 for none
    merged,   \* history: transactions whose branch was merged
    over      \* history: over[t], what the programs were told of t

hub     == <<repo, base, birth>>
volume  == <<fhs, nextFH, txns, nextTxn>>
history == <<acked, kept, onMain, gone, of, merged, over>>
vars == <<hub, volume, task, faults, writes, moves, given, history>>

Main  == 0
Clear == [p \in Paths |-> None]
Idle  == [op |-> "idle"]

Init ==
    /\ repo = [b \in {Main} |-> Clear]
    /\ base = repo
    /\ birth = [t \in {} |-> Clear]
    /\ fhs = [fh \in {} |-> None]
    /\ nextFH = 1
    /\ txns = {}
    /\ nextTxn = 1
    /\ task = [k \in Calls |-> Idle]
    /\ faults = 0
    /\ writes = 0
    /\ moves = 0
    /\ given = {}
    /\ acked = [fh \in {} |-> {}]
    /\ of = [fh \in {} |-> 0]
    /\ kept = {} /\ onMain = {} /\ gone = {} /\ merged = {}
    /\ over = [t \in 1 .. MaxTxns |-> "open"]
-----------------------------------------------------------------------------
(***************************************************************************)
(* GitHub.                                                                 *)
(***************************************************************************)

In(content)  == IF content = None THEN {} ELSE content
Tree(branch) == UNION {In(repo[branch][p]) : p \in Paths}

\* The requests of class GitHubAPI.
GetFile(path)                       == [do |-> "get", path |-> path]
WriteFile(path, body, sha, branch)  == [do |-> "put", path |-> path, body |-> body,
                                        sha |-> sha, branch |-> branch]
DeleteFile(path, sha)               == [do |-> "delete", path |-> path, sha |-> sha]
Merge(t)                            == [do |-> "merge", branch |-> t]
DeleteBranch(t)                     == [do |-> "delete branch", branch |-> t]

\* Three-way merge of branch t into main, path by path.
Joined(t, p) ==
    IF repo[t][p] = base[t][p] THEN repo[Main][p] ELSE repo[t][p]

Conflict(t) ==
    \E p \in Paths : /\ repo[t][p] # base[t][p] /\ repo[Main][p] # base[t][p]
                     /\ repo[t][p] # repo[Main][p]

\* A commit must name the sha it replaces, none for a new file.
Accepts(r) ==
    CASE r.do = "get"    -> TRUE
      [] r.do = "put"    -> r.branch \in DOMAIN repo /\ repo[r.branch][r.path] = r.sha
      [] r.do = "delete" -> r.sha # None /\ repo[Main][r.path] = r.sha
      [] r.do = "merge"  -> r.branch \in DOMAIN repo /\ ~ Conflict(r.branch)
      [] OTHER           -> r.branch \in DOMAIN repo

Performs(k) ==
    LET r == task[k].req
        without(f) == [b \in DOMAIN repo \ {r.branch} |-> f[b]] IN
    /\ repo' = CASE r.do = "put"    -> [repo EXCEPT ![r.branch][r.path] = r.body]
                 [] r.do = "delete" -> [repo EXCEPT ![Main][r.path] = None]
                 [] r.do = "merge"  -> [repo EXCEPT ![Main] = [p \in Paths |-> Joined(r.branch, p)]]
                 [] r.do = "delete branch" -> without(repo)
                 [] OTHER -> repo
    /\ base' = CASE r.do = "merge" -> [base EXCEPT ![r.branch] = repo[r.branch]]
                 [] r.do = "delete branch" -> without(base)
                 [] OTHER -> base
    /\ kept'   = IF r.do = "put" THEN kept \cup r.body ELSE kept
    /\ onMain' = onMain \cup UNION {In(repo'[Main][p]) : p \in Paths}
    /\ gone'   = IF task[k].op = "delete" /\ r.do = "delete" THEN gone \cup r.sha ELSE gone
    /\ merged' = IF r.do = "merge" THEN merged \cup {r.branch} ELSE merged

Ignored == UNCHANGED <<repo, base, kept, onMain, gone, merged>>

\* The answer to the request call k waits for: the file for a get.
Answered(k, ok) ==
    LET r == task[k].req IN
    task' = [task EXCEPT ![k].at = IF ok THEN "ok" ELSE "error",
                         ![k].found = IF ok /\ r.do = "get" THEN repo[Main][r.path] ELSE None]

Hub(k) ==
    /\ task[k].op # "idle" /\ task[k].at = "sent"
    /\ \/ /\ Accepts(task[k].req) /\ Performs(k)
          /\ Answered(k, TRUE)
          /\ UNCHANGED faults
       \/ /\ ~ Accepts(task[k].req) /\ Ignored
          /\ Answered(k, FALSE)
          /\ UNCHANGED faults
       \/ /\ faults < MaxFaults /\ faults' = faults + 1
          /\ \/ Ignored
             \/ Accepts(task[k].req) /\ Performs(k)
          /\ Answered(k, FALSE)
    /\ UNCHANGED <<birth, volume, writes, moves, given, acked, of, over>>

\* createBranch, which nobody waits for: read the head of main, then create
\* the branch there.
CreateBranchReads(t) ==
    /\ t \in DOMAIN birth /\ birth[t] = None
    /\ birth' = [birth EXCEPT ![t] = repo[Main]]
    /\ UNCHANGED <<repo, base, volume, task, faults, writes, moves, given, history>>

CreateBranchPosts(t) ==
    /\ t \in DOMAIN birth /\ birth[t] # None
    /\ repo'  = [b \in DOMAIN repo \cup {t} |-> IF b = t THEN birth[t] ELSE repo[b]]
    /\ base'  = [b \in DOMAIN base \cup {t} |-> IF b = t THEN birth[t] ELSE base[b]]
    /\ birth' = [u \in DOMAIN birth \ {t} |-> birth[u]]
    /\ UNCHANGED <<volume, task, faults, writes, moves, given, history>>

CreateBranchFails(t) ==
    /\ t \in DOMAIN birth /\ faults < MaxFaults
    /\ faults' = faults + 1
    /\ birth'  = [u \in DOMAIN birth \ {t} |-> birth[u]]
    /\ UNCHANGED <<repo, base, volume, task, writes, moves, given, history>>
-----------------------------------------------------------------------------
(***************************************************************************)
(* The volume.  A call is suspended "at" a request it "sent", and goes on  *)
(* when that ended "ok" or in an "error".                                  *)
(***************************************************************************)

Suspend(k, op, req, arg) ==
    task' = [task EXCEPT ![k] = [op |-> op, at |-> "sent", req |-> req, arg |-> arg,
                                 found |-> None]]

Finish(k) == task' = [task EXCEPT ![k] = Idle]

\* Call k is of kind op and its request "do" has been answered.
Resumes(k, op, do, at) ==
    task[k].op = op /\ task[k].at = at /\ task[k].req.do = do

Starts(k, op) == op \in Ops /\ task[k].op = "idle"

\* Any request that ends in an error ends its call with one; deleteBranch alone
\* goes on.  Nothing is undone and a handle stays as it was; a program may end
\* or abort again a transaction it could not end.
Throws(k) ==
    /\ task[k].op # "idle" /\ task[k].at = "error"
    /\ task[k].req.do # "delete branch"
    /\ Finish(k)
    /\ over' = IF task[k].op = "end" THEN [over EXCEPT ![task[k].arg.txn] = "open"] ELSE over
    /\ UNCHANGED <<hub, volume, faults, writes, moves, given, acked, kept, onMain, gone, of, merged>>

\* openFile has not made its handle yet.
Opening(j) == task[j].op \in {"open", "create"} /\ task[j].arg = 0

\* openFile, for a program that opens a file or creates one.
Open(k, op, path) ==
    /\ op \in {"open", "create"} /\ Starts(k, op)
    /\ nextFH + Cardinality({j \in Calls : Opening(j)}) <= MaxOpens
    /\ Suspend(k, op, GetFile(path), 0)
    /\ UNCHANGED <<hub, volume, faults, writes, moves, given, history>>

NewHandle(path, content) ==
    [path |-> path, sha |-> content, buf |-> In(content), dirty |-> FALSE,
     branch |-> Main]

\* A variant: the counter stays where it is.
HandleAfterSame == nextFH

HandleAfter == nextFH + 1

\* The handle exists before the answer: OPEN asks for the file's size next,
\* CREATE is done.  An OPEN finds no file, unless its mode has the create bit.
Opened(k, op) ==
    LET path == task[k].req.path
        found == task[k].found
    IN
    /\ Resumes(k, op, "get", "ok") /\ task[k].arg = 0
    /\ \/ /\ op = "open" /\ found = None
          /\ Finish(k)
          /\ UNCHANGED <<fhs, nextFH, given, acked, of>>
       \/ /\ fhs' = [fh \in DOMAIN fhs \cup {nextFH} |->
                        IF fh = nextFH THEN NewHandle(path, found) ELSE fhs[fh]]
          /\ nextFH' = HandleAfter
          /\ acked' = [fh \in DOMAIN acked \cup {nextFH} |->
                          IF fh = nextFH THEN {} ELSE acked[fh]]
          /\ of' = [fh \in DOMAIN of \cup {nextFH} |->
                       IF fh = nextFH THEN 0 ELSE of[fh]]
          /\ IF op = "open"
               THEN /\ Suspend(k, op, GetFile(path), nextFH)
                    /\ UNCHANGED given
               ELSE /\ Finish(k)
                    /\ given' = given \cup {nextFH}
    /\ UNCHANGED <<hub, txns, nextTxn, faults, writes, moves, kept, onMain, gone,
                   merged, over>>

OpenAnswered(k) ==
    /\ Resumes(k, "open", "get", "ok") /\ task[k].arg # 0
    /\ given' = given \cup {task[k].arg}
    /\ Finish(k)
    /\ UNCHANGED <<hub, volume, faults, writes, moves, history>>

\* writeFile: the bytes go into the buffer and are acknowledged at once.
\* Without Pipelined, programs leave a handle alone while it is closed.
Closing(fh) ==
    \E k \in Calls : \/ task[k].op = "close" /\ task[k].arg = fh
                     \/ task[k].op = "end" /\ task[k].arg.txn = of[fh]

Usable == given \cap DOMAIN fhs

Write(fh) ==
    /\ fh \in Usable /\ (Pipelined \/ ~ Closing(fh))
    /\ writes < MaxWrites
    /\ writes' = writes + 1
    /\ fhs'   = [fhs EXCEPT ![fh].buf = @ \cup {writes'}, ![fh].dirty = TRUE]
    /\ acked' = [acked EXCEPT ![fh] = @ \cup {writes'}]
    /\ UNCHANGED <<hub, nextFH, txns, nextTxn, task, faults, moves, given, kept,
                   onMain, gone, of, merged, over>>

\* Variants: the sha is read again at the close; the commit goes to main.
CommitRequestRefreshed(f) == WriteFile(f.path, f.buf, repo[Main][f.path], f.branch)
CommitRequestToMain(f)    == WriteFile(f.path, f.buf, f.sha, Main)

\* A variant: a file that has no sha yet has nothing to write back.
DirtyKnown(fh) == fhs[fh].dirty /\ fhs[fh].sha # None

\* closeFile: the commit holds the buffer and names the sha of this moment.
CommitRequest(f) == WriteFile(f.path, f.buf, f.sha, f.branch)

Dirty(fh)  == fhs[fh].dirty
Without(S) == [fh \in DOMAIN fhs \ S |-> fhs[fh]]

Close(k, fh) ==
    /\ Starts(k, "close") /\ fh \in Usable
    /\ IF Dirty(fh)
         THEN /\ Suspend(k, "close", CommitRequest(fhs[fh]), fh)
              /\ UNCHANGED fhs
         ELSE /\ fhs' = Without({fh})
              /\ UNCHANGED task
    /\ UNCHANGED <<hub, nextFH, txns, nextTxn, faults, writes, moves, given, history>>

\* The handle goes, with whatever was written to it in the meantime.
Closed(k) ==
    /\ Resumes(k, "close", "put", "ok")
    /\ fhs' = Without({task[k].arg})
    /\ Finish(k)
    /\ UNCHANGED <<hub, nextFH, txns, nextTxn, faults, writes, moves, given, history>>

\* deleteFile: read the sha, then delete what has that sha.
Delete(k, path) ==
    /\ Starts(k, "delete")
    /\ moves < MaxMoves /\ moves' = moves + 1
    /\ Suspend(k, "delete", GetFile(path), 0)
    /\ UNCHANGED <<hub, volume, faults, writes, given, history>>

DeleteGoesOn(k) ==
    /\ \/ /\ Resumes(k, "delete", "get", "ok")
          /\ IF task[k].found = None
               THEN Finish(k)
               ELSE Suspend(k, "delete", DeleteFile(task[k].req.path, task[k].found), 0)
       \/ /\ Resumes(k, "delete", "delete", "ok")
          /\ Finish(k)
    /\ UNCHANGED <<hub, volume, faults, writes, moves, given, history>>

\* renameFile: read the old file, write the new one, delete the old one.
Rename(k, path, to) ==
    /\ Starts(k, "rename")
    /\ moves < MaxMoves /\ moves' = moves + 1
    /\ Suspend(k, "rename", GetFile(path), [from |-> path, to |-> to, content |-> None])
    /\ UNCHANGED <<hub, volume, faults, writes, given, history>>

RenameCopy(arg)    == WriteFile(arg.to, arg.content, None, Main)
RenameCleanup(arg) == DeleteFile(arg.from, arg.content)

RenameGoesOn(k) ==
    LET arg == task[k].arg IN
    /\ \/ /\ Resumes(k, "rename", "get", "ok")
          /\ LET read == [arg EXCEPT !.content = task[k].found] IN
             IF read.content = None
               THEN Finish(k)
               ELSE Suspend(k, "rename", RenameCopy(read), read)
       \/ /\ Resumes(k, "rename", "put", "ok")
          /\ Suspend(k, "rename", RenameCleanup(arg), arg)
       \/ /\ Resumes(k, "rename", "delete", "ok")
          /\ Finish(k)
    /\ UNCHANGED <<hub, volume, faults, writes, moves, given, history>>
-----------------------------------------------------------------------------
(***************************************************************************)
(* Transactions: a branch each.  A program attaches a handle before it     *)
(* writes to it, and asks for one end or abort at a time.                  *)
(***************************************************************************)

Begin ==
    /\ "begin" \in Ops /\ nextTxn <= MaxTxns
    /\ txns'    = txns \cup {nextTxn}
    /\ birth'   = [t \in DOMAIN birth \cup {nextTxn} |->
                     IF t = nextTxn THEN None ELSE birth[t]]
    /\ nextTxn' = nextTxn + 1
    /\ UNCHANGED <<repo, base, fhs, nextFH, task, faults, writes, moves, given, history>>

AttachToTransaction(fh, t) ==
    /\ fh \in Usable /\ acked[fh] = {} /\ ~ Closing(fh) /\ of[fh] = 0
    /\ t < nextTxn /\ over[t] = "open"
    /\ fhs' = [fhs EXCEPT ![fh].branch = IF t \in txns THEN t ELSE @]
    /\ of'  = [of EXCEPT ![fh] = t]
    /\ UNCHANGED <<hub, nextFH, txns, nextTxn, task, faults, writes, moves, given, acked, kept,
                   onMain, gone, merged, over>>

\* A variant: the first handle is passed over.
AttachedButFirst(t, last) == {fh \in DOMAIN fhs : fhs[fh].branch = t /\ fh > last + 1}

\* The handles of transaction t after handle "last", in the order they were opened.
Attached(t, last) == {fh \in DOMAIN fhs : fhs[fh].branch = t /\ fh > last}

\* endTransaction from there: close what is left, clean handles at once, the
\* first dirty one with a commit to wait for, then merge.
FlushFrom(k, t, last, handles) ==
    LET toCommit == {fh \in Attached(t, last) : Dirty(fh)}
        clean == {fh \in Attached(t, last) :
                    ~ Dirty(fh) /\ \A d \in toCommit : fh < d}
    IN  /\ fhs' = [fh \in handles \ clean |-> fhs[fh]]
        /\ IF toCommit = {}
             THEN Suspend(k, "end", Merge(t), [txn |-> t, fh |-> 0])
             ELSE Suspend(k, "end", CommitRequest(fhs[Min(toCommit)]),
                          [txn |-> t, fh |-> Min(toCommit)])

End(k, t) ==
    /\ Starts(k, "end") /\ t < nextTxn /\ over[t] = "open"
    /\ over' = [over EXCEPT ![t] = "ending"]
    /\ FlushFrom(k, t, 0, DOMAIN fhs)
    /\ UNCHANGED <<hub, nextFH, txns, nextTxn, faults, writes, moves, given, acked, kept,
                   onMain, gone, of, merged>>

EndGoesOn(k) ==
    LET t == task[k].arg.txn  fh == task[k].arg.fh IN
    \/ /\ Resumes(k, "end", "put", "ok")
       /\ FlushFrom(k, t, fh, DOMAIN fhs \ {fh})
       /\ UNCHANGED <<hub, nextFH, txns, nextTxn, faults, writes, moves, given, history>>
    \/ /\ Resumes(k, "end", "merge", "ok")
       /\ Suspend(k, "end", DeleteBranch(t), task[k].arg)
       /\ UNCHANGED <<hub, volume, faults, writes, moves, given, history>>

\* abortTransaction forgets the handles first, then deletes the branch.
Abort(k, t) ==
    /\ Starts(k, "abort") /\ t < nextTxn /\ over[t] = "open"
    /\ over' = [over EXCEPT ![t] = "aborting"]
    /\ fhs'  = Without(Attached(t, 0))
    /\ gone' = gone \cup UNION {acked[fh] : fh \in Attached(t, 0)}
    /\ Suspend(k, "abort", DeleteBranch(t), [txn |-> t, fh |-> 0])
    /\ UNCHANGED <<hub, nextFH, txns, nextTxn, faults, writes, moves, given, acked, kept,
                   onMain, of, merged>>

\* deleteBranch swallows errors: the transaction is over either way.
Over(k) ==
    LET t == task[k].arg.txn IN
    /\ task[k].op \in {"end", "abort"} /\ task[k].at \in {"ok", "error"}
    /\ task[k].req.do = "delete branch"
    /\ txns' = txns \ {t}
    /\ over' = [over EXCEPT ![t] = IF task[k].op = "end" THEN "ended" ELSE "aborted"]
    /\ Finish(k)
    /\ UNCHANGED <<hub, fhs, nextFH, nextTxn, faults, writes, moves, given, acked, kept,
                   onMain, gone, of, merged>>

Next ==
    \/ \E k \in Calls :
          \/ Hub(k) \/ Throws(k) \/ OpenAnswered(k) \/ Closed(k)
          \/ DeleteGoesOn(k) \/ RenameGoesOn(k) \/ EndGoesOn(k) \/ Over(k)
          \/ \E op \in {"open", "create"} : Opened(k, op)
          \/ \E path \in Paths : \/ Open(k, "open", path) \/ Open(k, "create", path)
                                 \/ Delete(k, path)
                                 \/ \E to \in Paths : Rename(k, path, to)
          \/ \E fh \in Usable : Close(k, fh)
          \/ \E t \in 1 .. MaxTxns : End(k, t) \/ Abort(k, t)
    \/ \E t \in 1 .. MaxTxns :
          \/ CreateBranchReads(t) \/ CreateBranchPosts(t) \/ CreateBranchFails(t)
          \/ \E fh \in Usable : AttachToTransaction(fh, t)
    \/ \E fh \in Usable : Write(fh)
    \/ Begin

Spec == Init /\ [][Next]_vars
-----------------------------------------------------------------------------
(***************************************************************************)
(* Properties.                                                             *)
(***************************************************************************)

Contents == SUBSET (1 .. writes)
Trees    == [Paths -> Contents \cup {None}]

\* Type invariant of GitHub, of the open files and of the transactions.
TypeOK ==
    /\ Main \in DOMAIN repo /\ DOMAIN base = DOMAIN repo
    /\ \A b \in DOMAIN repo : repo[b] \in Trees /\ base[b] \in Trees
    /\ \A t \in DOMAIN birth : birth[t] \in Trees \cup {None}
    /\ DOMAIN fhs \subseteq 1 .. nextFH - 1
    /\ \A fh \in DOMAIN fhs :
          fhs[fh] \in [path : Paths, sha : Contents \cup {None}, buf : Contents,
                       dirty : BOOLEAN, branch : 0 .. MaxTxns]
    /\ txns \subseteq 1 .. nextTxn - 1
    /\ given \subseteq DOMAIN acked /\ DOMAIN acked = 1 .. nextFH - 1

\* What was once on main stays there, under some path, until a program deletes
\* the file: no close, no rename that stops half-way and no merge takes away
\* what another program committed after the file was read.
CommittedSurvives == onMain \subseteq Tree(Main) \cup gone

\* Every write that was acknowledged is in a commit or still in the buffer of
\* an open handle, ready for another close, however many closes of the handle
\* failed, raced each other or committed without an answer.
AckedNotLost ==
    Pipelined \/ \A fh \in DOMAIN acked :
        acked[fh] \subseteq kept \cup gone \cup
        (IF fh \in DOMAIN fhs THEN fhs[fh].buf ELSE {})

\* Nothing written under a transaction is on main before its branch is merged.
IsolatedUntilMerged ==
    \A fh \in DOMAIN of : of[fh] # 0 /\ of[fh] \notin merged =>
        acked[fh] \cap onMain = {}

\* When the end of a transaction succeeds, all that was written under it, by
\* every handle that was attached, has reached main.
EndCommitsAll ==
    Pipelined \/ \A fh \in DOMAIN of :
        of[fh] # 0 /\ over[of[fh]] = "ended" => acked[fh] \subseteq onMain
=============================================================================
