---------------------------- MODULE Orchestrator ----------------------------
(***************************************************************************)
(* The coordinator of genesis-orchestrator.mjs.  It checks its peers,      *)
(* resolves a plan, orders the chunks of the plan into waves, builds each  *)
(* wave on peers or locally, and writes what was built.  A worker runs one *)
(* chunk for each request and keeps nothing.                               *)
(*                                                                         *)
(* A plan is a sequence of chunks, [name, dependsOn]; a chunk is its       *)
(* position, and its id the position less one.  The merged code of a chunk *)
(* is a sequence of markers and pieces of text; a marker is the file name it *)
(* gives, or one written with spaces that trim() takes off.  What a model   *)
(* answers is left open: any plan, any merged code.                         *)
(***************************************************************************)
EXTENDS Integers, SequencesExt, FiniteSetsExt

CONSTANTS
    PeerLists,  \* the lists of peers GENESIS_PEERS may hold
    Plans,      \* the plans the planner may answer with
    Texts,      \* merged code the last agent may answer with
    Files,      \* file names, which are the markers without spaces
    Spaced,     \* a marker written with spaces -> the name trim() leaves
    Clipped,    \* the last piece of a text without its last character
    Output,     \* outputFiles[0], for merged code without a marker
    MaxRuns     \* bound: starts of the coordinator

ASSUME ParametersAssumption ==
    /\ Output \in Files
    /\ DOMAIN Spaced \cap Files = {} /\ \A x \in DOMAIN Spaced : Spaced[x] \in Files
    /\ <<>> \notin Plans
    /\ \A p \in Plans \cup Texts : p \in Seq(Range(p))
    /\ MaxRuns \in Nat \ {0}

VARIABLES
    run,      \* which start of the coordinator this is
    phase,    \* how far main() is
    peers,    \* PEERS
    at,       \* where the loop over PEERS stands
    plan,     \* plan.chunks
    chunks,   \* chunks: those of the plan this run builds
    waves,    \* waves: a sequence of sets of chunks
    wave,     \* wi, counted from 1
    job,      \* job[c]: where the build of chunk c stands
    results,  \* allResults
    summary,  \* summary
    saved,    \* disk: the plan of the plan file, <<>> for none
    disk,     \* disk: file -> the run that wrote it, 0 for none
    report,   \* disk: build-summary.json, <<>> for none, and the run it is of
    wrote     \* history: the merged code written last, and its files

coordinator == <<peers, at, plan, chunks, waves, wave, job, results, summary>>
stored      == <<saved, disk, report>>
vars        == <<run, phase, coordinator, stored, wrote>>

Ended   == {"done", "rejected", "down"}
Phases  == {"checking", "planned", "running", "writing"} \cup Ended
Settled == {"ok", "failed"}
Nothing == [text |-> <<>>, files |-> [f \in {} |-> <<>>]]

\* A start of the process: nothing of an earlier one is left in memory, and
\* what workers still do for it reaches nobody.
Fresh(list) ==
    /\ phase' = "checking" /\ peers' = list /\ at' = 1
    /\ plan' = <<>> /\ chunks' = {} /\ waves' = <<>> /\ wave' = 0
    /\ job' = <<>> /\ results' = <<>> /\ summary' = <<>>

Init ==
    /\ run = 1 /\ phase = "checking" /\ peers \in PeerLists /\ at = 1
    /\ plan = <<>> /\ chunks = {} /\ waves = <<>> /\ wave = 0
    /\ job = <<>> /\ results = <<>> /\ summary = <<>>
    /\ saved = <<>> /\ disk = [f \in Files |-> 0]
    /\ report = [run |-> 0, chunks |-> <<>>]
    /\ wrote = Nothing
-----------------------------------------------------------------------------
(***************************************************************************)
(* Peers and plan.                                                         *)
(***************************************************************************)

\* A peer that does not answer is taken off the list, and the loop moves on in
\* the shortened list all the same.
CheckPeer ==
    /\ phase = "checking" /\ at <= Len(peers)
    /\ \/ UNCHANGED peers
       \/ peers' = RemoveAt(peers, at)
    /\ at' = at + 1
    /\ UNCHANGED <<run, phase, plan, chunks, waves, wave, job, results, summary,
                   stored, wrote>>

\* The planner answers with a plan, or with something that is none; a run that
\* resumes takes the plan of the file.
Resolve ==
    /\ phase = "checking" /\ at > Len(peers)
    /\ \/ /\ plan' \in IF saved = <<>> THEN Plans ELSE {saved}
          /\ saved' = plan'
          /\ phase' = "planned"
       \/ /\ saved = <<>> /\ phase' = "down"
          /\ UNCHANGED <<plan, saved>>
    /\ UNCHANGED <<run, peers, at, chunks, waves, wave, job, results, summary,
                   disk, report, wrote>>

Names(p, S) == {p[c].name : c \in S}

\* A variant: one dependency is enough.
ReadyAny(p, left, done) ==
    {c \in left : p[c].dependsOn = {} \/ p[c].dependsOn \cap done # {}}

Ready(p, left, done) == {c \in left : p[c].dependsOn \subseteq done}

\* buildExecutionWaves: its loop, one round for each wave, which is the chunks
\* whose dependencies are done.  What is left when no chunk is ready is a cycle.
Waves(p, chosen) ==
    LET n == Cardinality(chosen)
        round[k \in 0 .. n] ==
            IF k = 0 THEN [waves |-> <<>>, done |-> {}, left |-> chosen]
            ELSE LET r    == round[k - 1]
                     now  == Ready(p, r.left, r.done)
                     done == r.done \cup Names(p, now)
                 IN  IF now = {} THEN r
                     ELSE [waves |-> Append(r.waves, now), done |-> done,
                           left  |-> {c \in r.left : p[c].name \notin done}]
    IN  round[n]

\* --chunk takes one chunk out of the plan, by an id there may not be.
Chosen(only) == IF only = 0 THEN DOMAIN plan ELSE {only} \cap DOMAIN plan

\* A variant: the waves are those of the whole plan.
PlannedAll(only) == Waves(plan, DOMAIN plan)

Planned(only) == Waves(plan, Chosen(only))

PlanWaves(only) ==
    /\ phase = "planned"
    /\ chunks' = Chosen(only)
    /\ LET built == Planned(only) IN
       IF chunks' = {} \/ built.left # {}
         THEN /\ phase' = "rejected"
              /\ UNCHANGED <<waves, job>>
         ELSE /\ phase' = "running"
              /\ waves' = built.waves
              /\ job' = [c \in DOMAIN plan |-> "none"]
    /\ UNCHANGED <<run, peers, at, plan, wave, results, summary, stored, wrote>>
-----------------------------------------------------------------------------
(***************************************************************************)
(* Waves.                                                                  *)
(***************************************************************************)

Current == IF wave = 0 THEN {} ELSE waves[wave]

\* Variants: the first failure ends the wave; failed chunks are waited for.
WaveOverEarly ==
    \/ \A c \in Current : job[c] \in Settled
    \/ \E c \in Current : job[c] = "failed"

WaveOverBuilt == \A c \in Current : job[c] = "ok"

\* Promise.allSettled.
WaveOver == \A c \in Current : job[c] \in Settled

InOrder(S) ==
    CHOOSE s \in [1 .. Cardinality(S) -> S] : \A i, j \in DOMAIN s : i < j => s[i] < s[j]

\* The results of a wave, in the order of its chunks, which is that of the plan.
WaveResults ==
    LET order == InOrder(Current)
    IN  [i \in 1 .. Len(order) |-> [chunk |-> order[i], ok |-> job[order[i]] = "ok"]]

\* buildChunk up to its first await, for every chunk of the wave at once: peers
\* take turns while there are any.
NextWave ==
    /\ phase = "running" /\ WaveOver
    /\ results' = results \o WaveResults
    /\ IF wave = Len(waves)
         THEN /\ phase' = "writing"
              /\ UNCHANGED <<wave, job>>
         ELSE /\ wave' = wave + 1
              /\ job' = [c \in DOMAIN job |->
                           IF c \notin waves[wave'] THEN job[c]
                           ELSE IF peers = <<>> THEN "local" ELSE "remote"]
              /\ UNCHANGED phase
    /\ UNCHANGED <<run, peers, at, plan, chunks, waves, summary, stored, wrote>>

Becomes(c, state) ==
    /\ job' = [job EXCEPT ![c] = state]
    /\ UNCHANGED <<run, phase, peers, at, plan, chunks, waves, wave, results, summary,
                   stored, wrote>>

\* The answer of a worker, or an error instead: then the chunk is built here.
Answered(c, ok) ==
    /\ c \in DOMAIN job /\ job[c] = "remote"
    /\ Becomes(c, IF ok THEN "ok" ELSE "local")

\* Five minutes without an answer.  The worker goes on, and reaches nobody.
Timeout(c) ==
    /\ c \in DOMAIN job /\ job[c] = "remote"
    /\ Becomes(c, "local")

\* executeChunkLocally: agents may fail, the merge decides.
LocalEnds(c, ok) ==
    /\ c \in DOMAIN job /\ job[c] = "local"
    /\ Becomes(c, IF ok THEN "ok" ELSE "failed")
-----------------------------------------------------------------------------
(***************************************************************************)
(* Outputs.                                                                *)
(***************************************************************************)

Markers   == Files \cup DOMAIN Spaced
FileOf(x) == IF x \in Files THEN x ELSE Spaced[x]

\* What stands behind marker i.  The next marker is found by the pattern, its
\* place by a search from the start of the text for the marker without spaces;
\* where there is none, indexOf gives -1 and slice all but the last character.
Section(text, i) ==
    LET next  == {j \in i + 1 .. Len(text) : text[j] \in Markers}
        found == {j \in DOMAIN text : text[j] = FileOf(text[Min(next)])}
    IN  IF next = {} THEN SubSeq(text, i + 1, Len(text))
        ELSE IF found = {} THEN Append(SubSeq(text, i + 1, Len(text) - 1), Clipped)
        ELSE SubSeq(text, i + 1, Min(found) - 1)

\* parseFiles: a later section of a file replaces an earlier one.
ParseFiles(text) ==
    LET marks == {i \in DOMAIN text : text[i] \in Markers}
        last(f) == Max({i \in marks : FileOf(text[i]) = f})
    IN  IF marks = {} THEN [f \in {Output} |-> text]
        ELSE [f \in {FileOf(text[i]) : i \in marks} |-> Section(text, last(f))]

Written(files) == [f \in Files |-> IF f \in files THEN run ELSE disk[f]]

Unwritten  == phase = "writing" /\ Len(summary) < Len(results)
NextResult == results[Len(summary) + 1]

\* The entry of a failed chunk does not name it.
FailedEntry == [ok |-> FALSE, name |-> "", files |-> {}]

WriteFailed ==
    /\ Unwritten /\ ~ NextResult.ok
    /\ summary' = Append(summary, FailedEntry)
    /\ UNCHANGED <<run, phase, peers, at, plan, chunks, waves, wave, job, results,
                   stored, wrote>>

WriteBuilt(text) ==
    /\ Unwritten /\ NextResult.ok
    /\ wrote' = [text |-> text, files |-> ParseFiles(text)]
    /\ disk' = Written(DOMAIN wrote'.files)
    /\ summary' = Append(summary, [ok |-> TRUE, name |-> plan[NextResult.chunk].name,
                                   files |-> DOMAIN wrote'.files])
    /\ UNCHANGED <<run, phase, peers, at, plan, chunks, waves, wave, job, results,
                   saved, report>>

\* A file cannot be written: the exception ends the process between two files.
WriteThrows(text) ==
    /\ Unwritten /\ NextResult.ok
    /\ \E files \in SUBSET DOMAIN ParseFiles(text) : disk' = Written(files)
    /\ phase' = "down"
    /\ UNCHANGED <<run, coordinator, saved, report, wrote>>

\* A variant: the summary is on disk before the outputs are.
SaveWhenBuilt == phase = "writing"

SaveWhen == phase = "writing" /\ Len(summary) = Len(results)

\* savePlan and build-summary.json.
Save ==
    /\ SaveWhen
    /\ report' = [run |-> run, chunks |-> summary]
    /\ phase' = "done"
    /\ UNCHANGED <<run, coordinator, saved, disk, wrote>>
-----------------------------------------------------------------------------
\* The process is killed.
Crash ==
    /\ phase \notin Ended
    /\ phase' = "down"
    /\ UNCHANGED <<run, coordinator, stored, wrote>>

Restart(list) ==
    /\ phase \in Ended /\ run < MaxRuns
    /\ run' = run + 1
    /\ Fresh(list)
    /\ wrote' = Nothing
    /\ UNCHANGED stored

Write == WriteFailed \/ \E text \in Texts : WriteBuilt(text) \/ WriteThrows(text)

Main ==
    \/ CheckPeer \/ Resolve \/ NextWave \/ Write \/ Save
    \/ \E only \in 0 .. Len(plan) + 1 : PlanWaves(only)

Next ==
    \/ Main \/ Crash
    \/ \E list \in PeerLists : Restart(list)
    \/ \E c \in DOMAIN job : \/ Timeout(c)
                             \/ \E ok \in BOOLEAN : Answered(c, ok) \/ LocalEnds(c, ok)

Chunks == UNION {DOMAIN p : p \in Plans}

\* main() goes on while it may; timers fire; a local build ends, since requests to
\* providers settle.  Nothing is assumed of workers.
Fairness ==
    /\ WF_vars(Main)
    /\ \A c \in Chunks : /\ WF_vars(Timeout(c))
                         /\ WF_vars(\E ok \in BOOLEAN : LocalEnds(c, ok))

Spec == Init /\ [][Next]_vars /\ Fairness
-----------------------------------------------------------------------------
(***************************************************************************)
(* Properties.                                                             *)
(***************************************************************************)

Placed == UNION {waves[k] : k \in DOMAIN waves}

\* Type invariant.
TypeOK ==
    /\ run \in 1 .. MaxRuns /\ phase \in Phases
    /\ at \in Nat
    /\ plan \in Plans \cup {<<>>} /\ saved \in Plans \cup {<<>>}
    /\ chunks \subseteq DOMAIN plan /\ Placed \subseteq chunks
    /\ wave \in 0 .. Len(waves)
    /\ job \in [DOMAIN job -> {"none", "remote", "local"} \cup Settled]
    /\ {results[i].chunk : i \in DOMAIN results} \subseteq Placed
    /\ Len(summary) <= Len(results)
    /\ disk \in [Files -> 0 .. run] /\ report.run \in 0 .. run

UniqueNames == \A c, d \in chunks : plan[c].name = plan[d].name => c = d
WaveOf(c)   == CHOOSE k \in DOMAIN waves : c \in waves[k]
Needs(c, d) == plan[d].name \in plan[c].dependsOn

\* buildExecutionWaves refuses a plan only if some of its chunks wait for one
\* another, or for a chunk that is not there.  Else every chunk is in one wave,
\* the earliest that comes after all it depends on; of chunks with one name, one
\* is.
WavesExact ==
    /\ phase = "rejected" /\ chunks # {} =>
          \E S \in (SUBSET chunks) \ {{}} : \A c \in S : \E d \in plan[c].dependsOn :
              d \notin Names(plan, chunks \ S)
    /\ phase = "running" =>
          /\ Names(plan, Placed) = Names(plan, chunks)
          /\ \A j, k \in DOMAIN waves : waves[j] \cap waves[k] # {} => j = k
          /\ UniqueNames => \A c \in chunks :
                WaveOf(c) =
                1 + Max({0} \cup {WaveOf(d) : d \in {e \in chunks : Needs(c, e)}})

\* No chunk is given to a worker or built here before everything it depends on
\* has settled, however workers answer, time out and fail; each chunk that was
\* placed has one result.
DependenciesSettled ==
    /\ \A c \in DOMAIN job : job[c] # "none" =>
          \A d \in Placed : Needs(c, d) => job[d] \in Settled
    /\ phase = "writing" =>
          /\ Len(results) = Cardinality(Placed)
          /\ \A c \in Placed : \E i \in DOMAIN results :
                results[i] = [chunk |-> c, ok |-> job[c] = "ok"]

Entries(n) ==
    {i \in DOMAIN report.chunks : report.chunks[i].ok /\ report.chunks[i].name = n}

\* If no file is marked twice, each file written last holds what stands between
\* its marker and the next one, whatever spaces its own marker has, if the next
\* one has none.
SectionsExact ==
    LET text  == wrote.text
        marks == {i \in DOMAIN text : text[i] \in Markers}
        next(i) == {j \in marks : j > i /\ \A k \in marks : k > i => j <= k}
    IN  (\A i, j \in marks : FileOf(text[i]) = FileOf(text[j]) => i = j) =>
          \A i \in marks : (\A j \in next(i) : text[j] \in Files) =>
             LET body == wrote.files[FileOf(text[i])] IN
             /\ \A j \in DOMAIN body : i + j \notin marks /\ body[j] = text[i + j]
             /\ i + Len(body) + 1 \in marks \cup {Len(text) + 1}

\* What is on the disk is true, across crashes, failed writes and resumed runs:
\* the summary of a run that is done has one entry for each chunk, as it ended;
\* the files any summary lists were written by that run or a later one, each
\* with its own section of the merged code.
ReportTrue ==
    /\ phase = "done" =>
          /\ report.run = run /\ Len(report.chunks) = Cardinality(Placed)
          /\ \A n \in Names(plan, Placed) :
                Cardinality(Entries(n)) =
                Cardinality({c \in Placed : plan[c].name = n /\ job[c] = "ok"})
    /\ \A i \in DOMAIN report.chunks : \A f \in report.chunks[i].files :
          disk[f] >= report.run
    /\ SectionsExact

\* A run ends, although workers may never answer.
RunEnds == phase \notin Ended ~> phase \in Ended
=============================================================================
